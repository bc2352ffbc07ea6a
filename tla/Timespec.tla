------------------------------ MODULE Timespec ------------------------------
(***************************************************************************)
(* The arithmetic of main.c on struct timespec, a number of seconds and a  *)
(* number of nanoseconds.  All numbers fit: a product of tv_nsec and an    *)
(* int is below 2^61.                                                      *)
(***************************************************************************)
EXTENDS Integers

CONSTANT BILLION      \* main.c: nanoseconds in a second

ASSUME BillionAssumption == BILLION \in Nat \ {0}

Timespec(sec, nsec) == [tv_sec |-> sec, tv_nsec |-> nsec]

(* The length of time a timespec stands for, in nanoseconds.                *)
Ns(t) == t.tv_sec * BILLION + t.tv_nsec

Normal(t) == 0 <= t.tv_nsec /\ t.tv_nsec < BILLION

(* Division of C: towards zero, the remainder has the sign of the dividend. *)
CDiv(a, b) == IF a >= 0 THEN a \div b ELSE -((-a) \div b)
CMod(a, b) == a - b * CDiv(a, b)

(* Mutant: the nanoseconds beyond a second are dropped. *)
timespec_multiply_uncarried(t, n) ==
  Timespec(t.tv_sec * n, CMod(t.tv_nsec * n, BILLION))

timespec_multiply(t, n) ==
  LET temp == t.tv_nsec * n
  IN  Timespec(t.tv_sec * n + CDiv(temp, BILLION), CMod(temp, BILLION))

(* Mutant: the seconds are divided without their remainder. *)
timespec_divide_split(t, n) == Timespec(CDiv(t.tv_sec, n), CDiv(t.tv_nsec, n))

timespec_divide(t, n) ==
  LET total_nsec == CDiv(t.tv_sec * BILLION + t.tv_nsec, n)
  IN  Timespec(CDiv(total_nsec, BILLION), CMod(total_nsec, BILLION))

(* Mutant: the borrowed second is not taken from tv_sec. *)
timespec_subtract_unborrowed(lhs, rhs) ==
  LET nsec == lhs.tv_nsec - rhs.tv_nsec
  IN  Timespec(lhs.tv_sec - rhs.tv_sec, IF nsec < 0 THEN nsec + BILLION ELSE nsec)

timespec_subtract(lhs, rhs) ==
  LET sec  == lhs.tv_sec - rhs.tv_sec
      nsec == lhs.tv_nsec - rhs.tv_nsec
  IN  IF nsec < 0 THEN Timespec(sec - 1, nsec + BILLION) ELSE Timespec(sec, nsec)

(* assert_nonnegetive_remaining *)
nonnegative(t) == t.tv_sec >= 0 /\ t.tv_nsec >= 0

(* Does min_timespecp return its first argument? *)
min_is_lhs(lhs, rhs) == ~nonnegative(timespec_subtract(lhs, rhs))
=============================================================================
