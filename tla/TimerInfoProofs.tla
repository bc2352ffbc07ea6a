-------------------------- MODULE TimerInfoProofs ----------------------------
(***************************************************************************)
(* The timers kept in seconds and nanoseconds implement the timers counted *)
(* in units, for every measured unit, every length of a second and every   *)
(* input; so the theorems about Timers hold of the program's real times.   *)
(***************************************************************************)
EXTENDS TimerInfo, TLAPS

-----------------------------------------------------------------------------
(* The arithmetic of struct timespec is exact, whatever the length of a     *)
(* second: subtraction borrows and multiplication carries as they should,   *)
(* and min_timespecp compares the lengths of time.                          *)

Times == [tv_sec : Int, tv_nsec : Int]

(* The arithmetic of the borrow. *)
LEMMA Distribute == ASSUME NEW a \in Int, NEW b \in Int, NEW c \in Int
                    PROVE  (a - b) * c = a * c - b * c /\ (a - 1) * c = a * c - c
  BY Z3

(* timespec_subtract: the borrow keeps the difference and the normal form.  *)
THEOREM SubtractExact ==
  ASSUME NEW l \in Times, NEW r \in Times, Normal(l), Normal(r)
  PROVE  /\ timespec_subtract(l, r) \in Times
         /\ Normal(timespec_subtract(l, r))
         /\ Ns(timespec_subtract(l, r)) = Ns(l) - Ns(r)
<1> DEFINE sec == l.tv_sec - r.tv_sec
           nsec == l.tv_nsec - r.tv_nsec
<1>1. /\ BILLION \in Int /\ BILLION > 0
      /\ l.tv_sec \in Int /\ r.tv_sec \in Int /\ l.tv_nsec \in Int /\ r.tv_nsec \in Int
      /\ sec \in Int /\ nsec \in Int
  BY BillionAssumption DEF Times
<1>2. /\ sec * BILLION = l.tv_sec * BILLION - r.tv_sec * BILLION
      /\ (sec - 1) * BILLION = sec * BILLION - BILLION
  BY <1>1, Distribute
<1>3. l.tv_sec * BILLION \in Int /\ r.tv_sec * BILLION \in Int
  BY <1>1
<1>4. CASE nsec < 0
  <2>1. timespec_subtract(l, r) = [tv_sec |-> sec - 1, tv_nsec |-> nsec + BILLION]
    BY <1>4 DEF timespec_subtract, Timespec
  <2> QED
    BY <2>1, <1>1, <1>2, <1>3, <1>4 DEF Ns, Normal, Times
<1>5. CASE ~(nsec < 0)
  <2>1. timespec_subtract(l, r) = [tv_sec |-> sec, tv_nsec |-> nsec]
    BY <1>5 DEF timespec_subtract, Timespec
  <2> QED
    BY <2>1, <1>1, <1>2, <1>3, <1>5 DEF Ns, Normal, Times
<1> QED
  BY <1>4, <1>5

(* A second more or less outweighs the nanoseconds. *)
LEMMA Scale == ASSUME NEW a \in Int, NEW b \in Nat \ {0}
               PROVE  (a < 0 => a * b <= -b) /\ (a >= 0 => a * b >= 0)
  BY Z3

(* min_timespecp returns its first argument exactly when it is the shorter  *)
(* one: of two equal times it returns the second.                           *)
THEOREM MinExact ==
  ASSUME NEW l \in Times, NEW r \in Times, Normal(l), Normal(r)
  PROVE  min_is_lhs(l, r) <=> Ns(l) < Ns(r)
<1> DEFINE d == timespec_subtract(l, r)
<1>1. d \in Times /\ Normal(d) /\ Ns(d) = Ns(l) - Ns(r)
  BY SubtractExact
<1>2. BILLION \in Nat \ {0} /\ d.tv_sec \in Int /\ d.tv_nsec \in Int
  BY <1>1, BillionAssumption DEF Times
<1>3. (d.tv_sec < 0 => d.tv_sec * BILLION <= -BILLION) /\ (d.tv_sec >= 0 => d.tv_sec * BILLION >= 0)
  BY <1>2, Scale
<1>4. d.tv_sec * BILLION \in Int
  BY <1>2
<1>5. Ns(d) < 0 <=> d.tv_sec < 0
  BY <1>1, <1>2, <1>3, <1>4 DEF Ns, Normal
<1>6. Ns(l) \in Int /\ Ns(r) \in Int
  BY BillionAssumption DEF Ns, Times
<1>7. min_is_lhs(l, r) <=> d.tv_sec < 0
  BY <1>1, <1>2 DEF min_is_lhs, nonnegative, Normal
<1> HIDE DEF d
<1> QED
  BY <1>1, <1>5, <1>6, <1>7

(* What is left by a division. *)
LEMMA Divide == ASSUME NEW a \in Nat, NEW b \in Nat \ {0}
                PROVE  /\ a \div b \in Nat
                       /\ 0 <= a - b * (a \div b) /\ a - b * (a \div b) < b
  BY Z3

(* The arithmetic of the carry. *)
LEMMA Associate == ASSUME NEW s \in Int, NEW m \in Int, NEW n \in Int, NEW q \in Int, NEW b \in Int
                   PROVE  (s * n + q) * b + (m * n - b * q) = n * (s * b + m)
  BY Z3

(* timespec_multiply by a number of units: the carry keeps the product and  *)
(* the normal form.                                                         *)
THEOREM MultiplyExact ==
  ASSUME NEW t \in Times, Normal(t), NEW n \in Nat
  PROVE  /\ timespec_multiply(t, n) \in Times
         /\ Normal(timespec_multiply(t, n))
         /\ Ns(timespec_multiply(t, n)) = n * Ns(t)
<1> DEFINE temp == t.tv_nsec * n
           q    == temp \div BILLION
<1>1. /\ BILLION \in Nat \ {0} /\ t.tv_sec \in Int /\ t.tv_nsec \in Nat
  BY BillionAssumption DEF Times, Normal
<1>2. temp \in Nat
  BY <1>1
<1>3. q \in Nat /\ 0 <= temp - BILLION * q /\ temp - BILLION * q < BILLION
  BY <1>1, <1>2, Divide
<1>4. timespec_multiply(t, n) = [tv_sec |-> t.tv_sec * n + q, tv_nsec |-> temp - BILLION * q]
  BY <1>2 DEF timespec_multiply, Timespec, CDiv, CMod
<1>5. (t.tv_sec * n + q) * BILLION + (temp - BILLION * q) = n * (t.tv_sec * BILLION + t.tv_nsec)
  BY <1>1, <1>3, Associate
<1>6. t.tv_sec * n + q \in Int /\ temp - BILLION * q \in Int
  BY <1>1, <1>2, <1>3
<1> HIDE DEF temp, q
<1> QED
  BY <1>3, <1>4, <1>5, <1>6 DEF Ns, Normal, Times

(* timespec_divide: the length is divided as a whole, and rounded down.     *)
THEOREM DivideExact ==
  ASSUME NEW t \in Times, Ns(t) >= 0, NEW n \in Nat \ {0}
  PROVE  /\ timespec_divide(t, n) \in Times
         /\ Normal(timespec_divide(t, n))
         /\ Ns(timespec_divide(t, n)) = Ns(t) \div n
         /\ timespec_divide(t, n).tv_sec >= 0
<1> DEFINE total == Ns(t) \div n
           q     == total \div BILLION
<1>1. BILLION \in Nat \ {0} /\ Ns(t) \in Nat
  BY BillionAssumption DEF Times, Ns
<1>2. total \in Nat
  BY <1>1, Divide
<1>3. q \in Nat /\ 0 <= total - BILLION * q /\ total - BILLION * q < BILLION
  BY <1>1, <1>2, Divide
<1>4. timespec_divide(t, n) = [tv_sec |-> q, tv_nsec |-> total - BILLION * q]
  BY <1>1, <1>2 DEF timespec_divide, Timespec, CDiv, CMod, Ns
<1>5. q * BILLION = BILLION * q /\ BILLION * q \in Int
  BY <1>1, <1>3
<1> HIDE DEF total, q
<1>6. timespec_divide(t, n) \in Times /\ Normal(timespec_divide(t, n)) /\ timespec_divide(t, n).tv_sec >= 0
  BY <1>2, <1>3, <1>4, <1>5 DEF Normal, Times
<1>7. Ns(timespec_divide(t, n)) = total
  BY <1>2, <1>4, <1>5 DEF Ns
<1> QED
  BY <1>6, <1>7 DEF total

(* A time that main.c must not hand to timer_settime: neither part is       *)
(* positive, one of them is negative.                                       *)
Negative(t) ==
  /\ t.tv_sec <= 0 /\ t.tv_nsec <= 0
  /\ t.tv_sec < 0 \/ t.tv_nsec < 0

(* timespec_multiply by a negative number, as for an unsorted input: still  *)
(* the exact product, but not in normal form.                               *)
THEOREM MultiplyNegative ==
  ASSUME NEW t \in Times, Normal(t), t.tv_sec >= 0, Ns(t) > 0, NEW n \in Int, n < 0
  PROVE  /\ timespec_multiply(t, n) \in Times
         /\ Negative(timespec_multiply(t, n))
         /\ Ns(timespec_multiply(t, n)) = n * Ns(t)
<1> DEFINE temp == t.tv_nsec * n
           d    == (-temp) \div BILLION
           r    == timespec_multiply(t, n)
<1>1. BILLION \in Nat \ {0} /\ t.tv_sec \in Nat /\ t.tv_nsec \in Nat
  BY BillionAssumption DEF Times, Normal
<1>2. temp \in Int /\ temp <= 0 /\ t.tv_sec * n \in Int /\ t.tv_sec * n <= 0
  BY <1>1
<1>3. d \in Nat /\ 0 <= (-temp) - BILLION * d /\ (-temp) - BILLION * d < BILLION
  <2>1. -temp \in Nat
    BY <1>2
  <2> HIDE DEF temp
  <2> QED BY <1>1, <2>1, Divide
<1>4. CDiv(temp, BILLION) = -d
  <2>1. CASE temp < 0
    BY <1>2, <2>1 DEF CDiv
  <2>2. CASE temp = 0
    <3>1. d = 0
      <4>1. BILLION * d <= 0
        BY <1>1, <1>3, <2>2
      <4> HIDE DEF d
      <4> QED BY <1>1, <1>3, <4>1, Z3
    <3> QED BY <2>2, <3>1 DEF CDiv
  <2> QED BY <1>2, <2>1, <2>2
<1>5. r = [tv_sec |-> t.tv_sec * n + (-d), tv_nsec |-> temp - BILLION * (-d)]
  BY <1>4 DEF timespec_multiply, Timespec, CMod
<1>6. (t.tv_sec * n + (-d)) * BILLION + (temp - BILLION * (-d)) = n * (t.tv_sec * BILLION + t.tv_nsec)
  <2>1. -d \in Int
    BY <1>3
  <2> QED BY <1>1, <2>1, Associate
<1>7. BILLION * (-d) = -(BILLION * d) /\ BILLION * d \in Int
  <2> HIDE DEF d
  <2> QED BY <1>1, <1>3, Z3
<1> HIDE DEF temp, d
<1>8. r \in Times /\ r.tv_sec <= 0 /\ r.tv_nsec <= 0
  BY <1>2, <1>3, <1>5, <1>7 DEF Times
<1>9. Ns(r) = n * Ns(t)
  BY <1>5, <1>6 DEF Ns
<1>10. n * Ns(t) < 0
  <2>1. Ns(t) \in Nat /\ Ns(t) > 0
    BY <1>1 DEF Ns
  <2> HIDE DEF r
  <2> QED BY <2>1, Z3
<1>11. r.tv_sec < 0 \/ r.tv_nsec < 0
  <2>1. ASSUME r.tv_sec = 0, r.tv_nsec = 0 PROVE FALSE
    BY <1>1, <1>9, <1>10, <2>1 DEF Ns
  <2> HIDE DEF r
  <2> QED BY <1>8, <2>1 DEF Times
<1> QED
  BY <1>8, <1>9, <1>11 DEF Negative

(* min_timespecp returns such a time rather than one that is not negative.  *)
LEMMA NegativeIsMin ==
  ASSUME NEW l \in Times, Negative(l), NEW r \in Times, Normal(r), r.tv_sec >= 0
  PROVE  min_is_lhs(l, r)
BY BillionAssumption DEF min_is_lhs, nonnegative, timespec_subtract, Timespec, Negative, Normal, Times

-----------------------------------------------------------------------------
-----------------------------------------------------------------------------
(* Whole numbers of units *)

(* A number of units is what dividing by the unit gives back. *)
LEMMA Cancel == ASSUME NEW k \in Int, NEW u \in Nat \ {0} PROVE (k * u) \div u = k
  BY Z3

(* Counting in units keeps the order. *)
LEMMA Monotone == ASSUME NEW a \in Int, NEW b \in Int, NEW u \in Nat \ {0}
                  PROVE  /\ a * u < b * u <=> a < b
                         /\ (a - b) * u = a * u - b * u
                         /\ (a + b) * u = a * u + b * u
                         /\ a * u \in Int
                         /\ a >= 0 => a <= a * u
  BY Z3

(* The measured unit is a normalised time of a nanosecond or more. *)
LEMMA UnitFacts ==
  ASSUME measured \in Measurements, time_unit = measure_time_unit(measured)
  PROVE  /\ Unit \in Nat \ {0}
         /\ time_unit \in Times /\ Normal(time_unit) /\ time_unit.tv_sec >= 0
         /\ Unit = (Ns(measured.end) - Ns(measured.begin)) \div UNIT_MEASURE_REPEAT
<1> DEFINE d == timespec_subtract(measured.end, measured.begin)
           n == UNIT_MEASURE_REPEAT
<1>1. d \in Times /\ Ns(d) = Ns(measured.end) - Ns(measured.begin)
  BY MeasureAssumption, SubtractExact DEF Times
<1>2. n \in Nat \ {0} /\ Ns(d) >= n
  BY <1>1, MeasureAssumption
<1>3. Ns(d) \in Nat
  BY <1>1, <1>2, BillionAssumption DEF Ns, Times
<1>4. time_unit = timespec_divide(d, n)
  BY DEF measure_time_unit
<1> HIDE DEF d, n
<1>5. /\ time_unit \in Times /\ Normal(time_unit) /\ time_unit.tv_sec >= 0
      /\ Unit = Ns(d) \div n
  BY <1>1, <1>2, <1>3, <1>4, DivideExact DEF Unit
<1>6. \A x \in Nat : x >= n => x \div n \in Nat \ {0}
  BY <1>2, Z3
<1> QED
  BY <1>1, <1>2, <1>3, <1>5, <1>6 DEF n

(* The times timer_settime accepts. *)
LEMMA WholeFacts ==
  ASSUME Unit \in Nat \ {0}, NEW t, Whole(t)
  PROVE  /\ Units(t) \in Nat /\ Ns(t) = Units(t) * Unit
         /\ t \in Times /\ Normal(t) /\ t.tv_sec >= 0
         /\ ~settime_fails(t) /\ nonnegative(t)
         /\ t = Zero <=> Units(t) = 0
<1>1. PICK k \in Nat : Ns(t) = k * Unit
  BY BillionAssumption DEF Whole, Ns
<1>2. Units(t) = k
  BY <1>1, Cancel DEF Units, Unit
<1>3. t \in Times /\ Normal(t) /\ t.tv_sec \in Nat /\ t.tv_nsec \in Nat /\ t = [tv_sec |-> t.tv_sec, tv_nsec |-> t.tv_nsec]
  BY DEF Whole, Times
<1>4. ~settime_fails(t) /\ nonnegative(t)
  BY <1>3 DEF settime_fails, nonnegative
<1>5. Ns(t) = 0 <=> t.tv_sec = 0 /\ t.tv_nsec = 0
  BY <1>3, BillionAssumption, Z3 DEF Ns
<1>6. Ns(t) = 0 <=> k = 0
  BY <1>1, Z3
<1>7. t = Zero <=> t.tv_sec = 0 /\ t.tv_nsec = 0
  BY <1>3 DEF Zero, Timespec
<1> QED
  BY <1>1, <1>2, <1>3, <1>4, <1>5, <1>6, <1>7

(* How such a time comes about. *)
LEMMA WholeIntro ==
  ASSUME Unit \in Nat \ {0}, NEW t \in Times, Normal(t), NEW k \in Nat, Ns(t) = k * Unit
  PROVE  Whole(t) /\ Units(t) = k
<1>1. t.tv_sec \in Int /\ t.tv_nsec \in Nat /\ BILLION \in Nat \ {0}
  BY BillionAssumption DEF Times, Normal
<1>2. k * Unit \in Nat /\ k <= k * Unit
  BY Monotone, Z3
<1>3. t.tv_sec >= 0
  <2>1. t.tv_sec < 0 => t.tv_sec * BILLION <= -BILLION
    BY <1>1, Scale
  <2>2. t.tv_sec * BILLION \in Int
    BY <1>1
  <2> QED BY <1>1, <1>2, <2>1, <2>2 DEF Ns, Normal
<1>4. t \in [tv_sec : Nat, tv_nsec : Nat]
  BY <1>1, <1>3 DEF Times
<1>5. Whole(t)
  BY <1>2, <1>4 DEF Whole
<1> QED
  BY <1>5, Cancel DEF Units, Unit

(* min_timespecp compares numbers of units.                                 *)
LEMMA WholeMin ==
  ASSUME Unit \in Nat \ {0}, NEW l, Whole(l), NEW r, Whole(r)
  PROVE  min_is_lhs(l, r) <=> Units(l) < Units(r)
<1>1. l \in Times /\ Normal(l) /\ r \in Times /\ Normal(r)
  BY WholeFacts
<1>2. Ns(l) = Units(l) * Unit /\ Ns(r) = Units(r) * Unit /\ Units(l) \in Nat /\ Units(r) \in Nat
  BY WholeFacts
<1> QED
  BY <1>1, <1>2, MinExact, Monotone

(* The difference of two numbers of units is the number of units between    *)
(* them.                                                                    *)
LEMMA WholeSubtract ==
  ASSUME Unit \in Nat \ {0}, NEW l, Whole(l), NEW r, Whole(r), Units(r) <= Units(l)
  PROVE  /\ Whole(timespec_subtract(l, r))
         /\ Units(timespec_subtract(l, r)) = Units(l) - Units(r)
<1> DEFINE d == timespec_subtract(l, r)
           k == Units(l) - Units(r)
<1>1. l \in Times /\ Normal(l) /\ r \in Times /\ Normal(r)
  BY WholeFacts
<1>2. Ns(l) = Units(l) * Unit /\ Ns(r) = Units(r) * Unit /\ Units(l) \in Nat /\ Units(r) \in Nat
  BY WholeFacts
<1>3. d \in Times /\ Normal(d) /\ Ns(d) = Ns(l) - Ns(r)
  BY <1>1, SubtractExact
<1>4. k \in Nat /\ k * Unit = Ns(l) - Ns(r)
  BY <1>2, Monotone
<1> HIDE DEF d, k
<1>5. Whole(d) /\ Units(d) = k
  BY <1>3, <1>4, WholeIntro
<1> QED
  BY <1>5 DEF d, k

(* timespec_multiply turns a number of units into that many, and a negative *)
(* number into a negative time.                                             *)
LEMMA WholeMultiply ==
  ASSUME Unit \in Nat \ {0}, time_unit \in Times, Normal(time_unit), time_unit.tv_sec >= 0, NEW n \in Int
  PROVE  /\ n >= 0 => Whole(timespec_multiply(time_unit, n))
         /\ n < 0 => Negative(timespec_multiply(time_unit, n))
         /\ timespec_multiply(time_unit, n) \in Times
         /\ Units(timespec_multiply(time_unit, n)) = n
<1> DEFINE t == timespec_multiply(time_unit, n)
<1>1. CASE n >= 0
  <2>1. t \in Times /\ Normal(t) /\ Ns(t) = n * Unit
    BY <1>1, MultiplyExact DEF Unit
  <2> HIDE DEF t
  <2>2. Whole(t) /\ Units(t) = n
    BY <1>1, <2>1, WholeIntro
  <2> QED BY <1>1, <2>1, <2>2 DEF t
<1>2. CASE n < 0
  <2>1. t \in Times /\ Negative(t) /\ Ns(t) = n * Unit
    BY <1>2, MultiplyNegative DEF Unit
  <2> HIDE DEF t
  <2>2. Units(t) = n
    BY <2>1, Cancel DEF Units, Unit
  <2> QED BY <1>2, <2>1, <2>2 DEF t
<1> QED BY <1>1, <1>2

(* set_timer chooses the time module Timers chooses... *)
LEMMA WholeSetTimer ==
  ASSUME Unit \in Nat \ {0}, NEW ptr, NEW ar, Whole(ar), NEW ts, Whole(ts)
  PROVE  /\ Whole(set_timer(ptr, ar, ts))
         /\ Units(set_timer(ptr, ar, ts)) = T!set_timer(ptr, Units(ar), Units(ts))
BY WholeMin DEF set_timer, T!set_timer, T!ArrivalIsMin

(* ...and if the next arrival is in the past, timer_settime refuses it.     *)
LEMMA NegativeSetTimer ==
  ASSUME Unit \in Nat \ {0}, NEW ptr, Strategy = "RR" => ptr # num_process,
         NEW ar \in Times, Negative(ar), Units(ar) \in Int, Units(ar) < 0, NEW ts, Whole(ts)
  PROVE  /\ settime_fails(set_timer(ptr, ar, ts))
         /\ T!set_timer(ptr, Units(ar), Units(ts)) = Units(ar)
<1>1. ts \in Times /\ Normal(ts) /\ ts.tv_sec >= 0 /\ Units(ts) \in Nat
  BY WholeFacts
<1>2. set_timer(ptr, ar, ts) = ar
  BY <1>1, NegativeIsMin DEF set_timer
<1>3. settime_fails(ar)
  BY DEF settime_fails, Negative, Normal, Times
<1> QED
  BY <1>1, <1>2, <1>3 DEF T!set_timer, T!ArrivalIsMin

-----------------------------------------------------------------------------
(* The steps *)

(* What the invariant says of the input. *)
LEMMA InputFacts ==
  ASSUME UnitInv
  PROVE  /\ Unit \in Nat \ {0}
         /\ time_unit \in Times /\ Normal(time_unit) /\ time_unit.tv_sec >= 0
         /\ \A i \in Child : arrival_time[i] \in Int
         /\ arrival_ptr \in 0 .. num_process /\ num_process \in Nat \ {0}
         /\ elapsed \div Unit \in Nat /\ elapsed = (elapsed \div Unit) * Unit
<1>1. Unit \in Nat \ {0} /\ time_unit \in Times /\ Normal(time_unit) /\ time_unit.tv_sec >= 0
  BY UnitFacts DEF UnitInv
<1>2. PICK k \in Nat : elapsed = k * Unit
  BY DEF UnitInv
<1>3. elapsed \div Unit = k
  BY <1>1, <1>2, Cancel
<1> QED
  BY <1>1, <1>2, <1>3, ArrivalsAssumption, NumProcessAssumption DEF UnitInv

(* The unit does not change, so the next state is measured by the same one. *)
LEMMA SameUnit ==
  ASSUME UNCHANGED time_unit
  PROVE  /\ Unit' = Unit
         /\ Whole(arrival_remaining)' <=> Whole(arrival_remaining')
         /\ Whole(timeslice_remaining)' <=> Whole(timeslice_remaining')
         /\ Whole(it_value)' <=> Whole(it_value')
         /\ Units(arrival_remaining)' = Units(arrival_remaining')
         /\ Units(timeslice_remaining)' = Units(timeslice_remaining')
         /\ Units(it_value)' = Units(it_value')
<1>1. Unit' = Unit
  BY DEF Unit, Ns
<1>2. \A t : Units(t)' = Units(t') /\ (Whole(t)' <=> Whole(t'))
  BY <1>1, Zenon DEF Units, Whole, Unit, Ns, Normal
<1> QED
  BY <1>1, <1>2

(* The parts of the invariant that no handler touches. *)
LEMMA SameInput ==
  ASSUME UnitInv, UNCHANGED <<input, elapsed>>, arrival_ptr' \in 0 .. num_process,
         alarm' \in {"armed", "expired", "arriving", "failed"}
  PROVE  UnitInv'
<1>1. UNCHANGED <<measured, time_unit, arrival_time>> /\ elapsed' = elapsed
  BY DEF input
<1>2. Unit' = Unit
  BY <1>1 DEF Unit, Ns
<1>3. measure_time_unit(measured)' = measure_time_unit(measured)
  BY <1>1, ZenonT(60) DEF measure_time_unit, timespec_divide, timespec_subtract, Timespec, CDiv, CMod
<1>4. \E k \in 0 .. elapsed' : elapsed' = k * Unit'
  BY <1>1, <1>2, Zenon DEF UnitInv
<1> QED
  BY <1>1, <1>3, <1>4, Zenon DEF UnitInv

(* The kernel's timer runs out. *)
LEMMA TimerExpiresStep ==
  ASSUME Inv, TimerExpires
  PROVE  Inv' /\ T!TimerExpires
<1>0. /\ UnitInv /\ Whole(arrival_remaining) /\ Whole(timeslice_remaining) /\ Whole(it_value)
      /\ alarm = "armed" /\ alarm' = "expired" /\ it_value # Zero /\ it_value' = Zero
      /\ UNCHANGED <<measured, time_unit, arrival_time, arrival_ptr, arrival_remaining, timeslice_remaining>>
  BY DEF Inv, TimerExpires, input
<1>1. /\ Unit \in Nat \ {0} /\ elapsed \div Unit \in Nat /\ elapsed = (elapsed \div Unit) * Unit
      /\ Units(it_value) \in Nat /\ Units(it_value) > 0 /\ Ns(it_value) = Units(it_value) * Unit
  BY <1>0, InputFacts, WholeFacts
<1>2. Whole(Zero) /\ Units(Zero) = 0
  <2>1. Zero \in Times /\ Normal(Zero) /\ Ns(Zero) = 0 * Unit
    BY <1>1, BillionAssumption DEF Zero, Timespec, Times, Normal, Ns
  <2> QED BY <1>1, <2>1, WholeIntro
<1> DEFINE c == elapsed \div Unit
           i == IF arrival_queue_empty THEN 0 ELSE Units(it_value)
<1>3. c + i \in Nat /\ elapsed' = (c + i) * Unit
  <2>1. elapsed' = IF arrival_queue_empty THEN elapsed ELSE elapsed + Ns(it_value)
    BY DEF TimerExpires
  <2>2. c \in Nat /\ i \in Nat
    BY <1>1
  <2>3. elapsed' = c * Unit + i * Unit
    BY <1>1, <2>1
  <2> HIDE DEF c, i
  <2> QED BY <1>1, <2>2, <2>3, Monotone
<1>4. UnitInv'
  <2> DEFINE k == c + i
  <2>1. k \in Nat /\ k <= k * Unit
    <3> HIDE DEF c, i
    <3> QED BY <1>1, <1>3, Monotone
  <2>2. k \in 0 .. elapsed' /\ elapsed' = k * Unit
    <3> HIDE DEF c, i
    <3> QED BY <1>1, <1>3, <2>1, Monotone
  <2> HIDE DEF k, c, i
  <2>3. \E m \in 0 .. elapsed' : elapsed' = m * Unit'
    BY <1>0, <2>2, SameUnit
  <2> QED
    BY <1>0, <2>3, ZenonT(60) DEF UnitInv, measure_time_unit, timespec_divide, timespec_subtract, Timespec, CDiv, CMod
<1>5. (elapsed \div Unit)' = c + i
  <2>1. elapsed' \div Unit = c + i
    <3> HIDE DEF c, i
    <3> QED BY <1>1, <1>3, Cancel
  <2> QED BY <1>0, <2>1, SameUnit
<1>6. Inv'
  <2>1. ~(Strategy # "RR" /\ arrival_queue_empty)
    BY <1>0 DEF Inv
  <2> QED
    BY <1>0, <1>2, <1>4, <2>1, SameUnit DEF Inv, arrival_queue_empty
<1> QED
  BY <1>0, <1>1, <1>2, <1>5, <1>6, SameUnit
  DEF T!TimerExpires, T!arrival_queue_empty, arrival_queue_empty, Unit

(* get_expire_reason and subtract_time_passed in units. *)
LEMMA HandlerFacts ==
  ASSUME Inv, alarm = "expired"
  PROVE  LET a == Units(arrival_remaining)
             s == Units(timeslice_remaining)
         IN  /\ a \in Nat /\ s \in Nat
             /\ get_expire_reason = T!get_expire_reason
             /\ TwoTimers <=> T!TwoTimers
             /\ get_expire_reason = "TIMESLICE_OVER" =>
                  /\ Strategy = "RR"
                  /\ Whole(subtract_time_passed[1]) /\ nonnegative(subtract_time_passed[2])
                  /\ Units(subtract_time_passed[1]) = IF TwoTimers THEN a - s ELSE a
             /\ get_expire_reason = "PROCESS_ARRIVAL" =>
                  /\ ~arrival_queue_empty
                  /\ Whole(subtract_time_passed[1]) /\ Whole(subtract_time_passed[2])
                  /\ Units(subtract_time_passed[1]) = IF TwoTimers THEN 0 ELSE a
                  /\ Units(subtract_time_passed[2]) = IF TwoTimers THEN s - a ELSE s
<1> DEFINE a == Units(arrival_remaining)
           s == Units(timeslice_remaining)
<1>0. /\ Unit \in Nat \ {0} /\ Whole(arrival_remaining) /\ Whole(timeslice_remaining)
      /\ Strategy # "RR" => ~arrival_queue_empty
  BY InputFacts DEF Inv
<1>1. a \in Nat /\ s \in Nat /\ nonnegative(timeslice_remaining)
  BY <1>0, WholeFacts
<1>2. ArrivalIsMin <=> a < s
  BY <1>0, WholeMin DEF ArrivalIsMin
<1>3. Whole(Zero) /\ Units(Zero) = 0 /\ nonnegative(Zero)
  <2>1. Zero \in Times /\ Normal(Zero) /\ Ns(Zero) = 0 * Unit
    BY <1>0, BillionAssumption DEF Zero, Timespec, Times, Normal, Ns
  <2>2. Whole(Zero) /\ Units(Zero) = 0
    BY <1>0, <2>1, WholeIntro
  <2> QED BY <1>0, <2>2, WholeFacts
<1>4. get_expire_reason = T!get_expire_reason /\ (TwoTimers <=> T!TwoTimers)
  BY <1>2 DEF get_expire_reason, T!get_expire_reason, T!ArrivalIsMin, arrival_queue_empty,
              T!arrival_queue_empty, TwoTimers, T!TwoTimers
<1>5. CASE ~TwoTimers
  <2>1. subtract_time_passed = <<arrival_remaining, timeslice_remaining>>
    BY <1>5 DEF subtract_time_passed
  <2>2. get_expire_reason = "TIMESLICE_OVER" => Strategy = "RR"
    BY DEF get_expire_reason
  <2>3. get_expire_reason = "PROCESS_ARRIVAL" => ~arrival_queue_empty
    BY <1>0 DEF get_expire_reason
  <2> QED BY <1>0, <1>1, <1>4, <1>5, <2>1, <2>2, <2>3
<1>6. CASE TwoTimers /\ ArrivalIsMin
  <2>1. subtract_time_passed = <<Zero, timespec_subtract(timeslice_remaining, arrival_remaining)>>
    BY <1>6 DEF subtract_time_passed
  <2>2. /\ Whole(timespec_subtract(timeslice_remaining, arrival_remaining))
        /\ Units(timespec_subtract(timeslice_remaining, arrival_remaining)) = s - a
    BY <1>0, <1>1, <1>2, <1>6, WholeSubtract
  <2>3. get_expire_reason = "PROCESS_ARRIVAL" /\ ~arrival_queue_empty
    BY <1>6 DEF get_expire_reason, TwoTimers
  <2> QED BY <1>1, <1>3, <1>4, <1>6, <2>1, <2>2, <2>3
<1>7. CASE TwoTimers /\ ~ArrivalIsMin
  <2>1. subtract_time_passed = <<timespec_subtract(arrival_remaining, timeslice_remaining), Zero>>
    BY <1>7 DEF subtract_time_passed
  <2>2. /\ Whole(timespec_subtract(arrival_remaining, timeslice_remaining))
        /\ Units(timespec_subtract(arrival_remaining, timeslice_remaining)) = a - s
    BY <1>0, <1>1, <1>2, <1>7, WholeSubtract
  <2>3. get_expire_reason = "TIMESLICE_OVER" /\ Strategy = "RR"
    BY <1>7 DEF get_expire_reason, TwoTimers
  <2> QED BY <1>1, <1>3, <1>4, <1>7, <2>1, <2>2, <2>3
<1> QED
  BY <1>5, <1>6, <1>7

(* The end of a slice. *)
LEMMA TimesliceOverStep ==
  ASSUME Inv, TimesliceOver
  PROVE  Inv' /\ T!TimesliceOver
<1> DEFINE passed == subtract_time_passed
           v      == set_timer(arrival_ptr, passed[1], time_slice)
           a      == Units(arrival_remaining)
           s      == Units(timeslice_remaining)
           ar     == IF TwoTimers THEN a - s ELSE a
<1>0. /\ alarm = "expired" /\ get_expire_reason = "TIMESLICE_OVER"
      /\ arrival_remaining' = passed[1] /\ timeslice_remaining' = time_slice /\ settime(v)
      /\ alarm' = IF nonnegative(passed[2]) /\ ~settime_fails(v) THEN "armed" ELSE "failed"
      /\ UNCHANGED <<measured, time_unit, arrival_time, arrival_ptr, elapsed>>
  BY DEF TimesliceOver, input
<1>1. /\ UnitInv /\ Unit \in Nat \ {0} /\ time_unit \in Times /\ Normal(time_unit) /\ time_unit.tv_sec >= 0
      /\ arrival_ptr \in 0 .. num_process
  BY InputFacts DEF Inv
<1>2. /\ a \in Nat /\ s \in Nat /\ Strategy = "RR" /\ (TwoTimers <=> T!TwoTimers)
      /\ T!get_expire_reason = "TIMESLICE_OVER"
      /\ Whole(passed[1]) /\ nonnegative(passed[2]) /\ Units(passed[1]) = ar
  BY <1>0, HandlerFacts
<1>3. Whole(time_slice) /\ Units(time_slice) = RR_TIMES_OF_UNIT
  BY <1>1, PolicyAssumption, WholeMultiply DEF time_slice
<1> HIDE DEF passed, a, s
<1>4. /\ Whole(v) /\ Units(v) = T!set_timer(arrival_ptr, ar, RR_TIMES_OF_UNIT)
      /\ ~settime_fails(v) /\ Units(v) \in Nat
  <2>1. Whole(v) /\ Units(v) = T!set_timer(arrival_ptr, ar, RR_TIMES_OF_UNIT)
    BY <1>1, <1>2, <1>3, WholeSetTimer
  <2> HIDE DEF v
  <2> QED BY <1>1, <2>1, WholeFacts
<1> HIDE DEF v
<1>5. it_value' = v /\ alarm' = "armed"
  BY <1>0, <1>2, <1>4 DEF settime
<1>6. UnitInv'
  BY <1>0, <1>1, <1>5, SameInput DEF input
<1>7. Inv'
  BY <1>0, <1>2, <1>3, <1>4, <1>5, <1>6, SameUnit DEF Inv
<1>8. ~(T!set_timer(arrival_ptr, ar, RR_TIMES_OF_UNIT) < 0)
  BY <1>4
<1>9. ~T!timeslice_expired_fails
  BY <1>2, <1>8 DEF T!timeslice_expired_fails, a, s
<1>10. T!timeslice_expired
  <2>1. /\ Units(arrival_remaining)' = ar /\ Units(timeslice_remaining)' = RR_TIMES_OF_UNIT
        /\ Units(it_value)' = T!set_timer(arrival_ptr, ar, RR_TIMES_OF_UNIT)
    BY <1>0, <1>2, <1>3, <1>4, <1>5, SameUnit
  <2> QED
    BY <1>0, <1>2, <1>8, <2>1 DEF T!timeslice_expired, T!settime, a, s
<1>11. UNCHANGED (elapsed \div Ns(time_unit))
  BY <1>0 DEF Ns
<1> QED
  BY <1>0, <1>2, <1>5, <1>7, <1>9, <1>10, <1>11 DEF T!TimesliceOver

(* An arrival. *)
LEMMA ProcessArrivalStep ==
  ASSUME Inv, ProcessArrival
  PROVE  Inv' /\ T!ProcessArrival
<1> DEFINE a == Units(arrival_remaining)
           s == Units(timeslice_remaining)
<1>0. /\ alarm = "expired" /\ get_expire_reason = "PROCESS_ARRIVAL" /\ alarm' = "arriving"
      /\ arrival_remaining' = subtract_time_passed[1] /\ timeslice_remaining' = subtract_time_passed[2]
      /\ arrival_ptr' = arrival_ptr + 1
      /\ UNCHANGED <<measured, time_unit, arrival_time, it_value, elapsed>>
  BY DEF ProcessArrival, input
<1>1. UnitInv /\ Whole(it_value) /\ arrival_ptr \in 0 .. num_process /\ num_process \in Nat
  BY <1>0, InputFacts DEF Inv
<1>2. /\ T!get_expire_reason = "PROCESS_ARRIVAL" /\ ~arrival_queue_empty /\ (TwoTimers <=> T!TwoTimers)
      /\ Whole(arrival_remaining') /\ Whole(timeslice_remaining')
      /\ Units(arrival_remaining') = IF TwoTimers THEN 0 ELSE a
      /\ Units(timeslice_remaining') = IF TwoTimers THEN s - a ELSE s
  BY <1>0, HandlerFacts
<1>3. arrival_ptr' \in 0 .. num_process /\ arrival_ptr' > 0
  BY <1>0, <1>1, <1>2 DEF arrival_queue_empty
<1>4. UnitInv'
  BY <1>0, <1>1, <1>3, SameInput DEF input
<1>5. Inv'
  BY <1>0, <1>1, <1>2, <1>3, <1>4, SameUnit DEF Inv
<1>6. T!arrival_expired
  BY <1>0, <1>2, SameUnit DEF T!arrival_expired
<1>7. UNCHANGED (elapsed \div Ns(time_unit))
  BY <1>0 DEF Ns
<1> QED
  BY <1>0, <1>2, <1>5, <1>6, <1>7 DEF T!ProcessArrival

(* Another job that arrives at the same time. *)
LEMMA AnotherArrivalStep ==
  ASSUME Inv, AnotherArrival
  PROVE  Inv' /\ T!AnotherArrival
<1>0. /\ alarm = "arriving" /\ alarm' = "arriving" /\ another_arrival /\ arrival_ptr' = arrival_ptr + 1
      /\ UNCHANGED <<measured, time_unit, arrival_time, arrival_remaining, timeslice_remaining, it_value, elapsed>>
  BY DEF AnotherArrival, input
<1>1. /\ UnitInv /\ arrival_ptr \in 0 .. num_process /\ num_process \in Nat
      /\ Whole(arrival_remaining) /\ Whole(timeslice_remaining) /\ Whole(it_value)
  BY <1>0, InputFacts DEF Inv
<1>2. arrival_ptr' \in 0 .. num_process /\ arrival_ptr' > 0
  BY <1>0, <1>1 DEF another_arrival, arrival_queue_empty
<1>3. UnitInv'
  BY <1>0, <1>1, <1>2, SameInput DEF input
<1>4. Inv'
  BY <1>0, <1>1, <1>2, <1>3, SameUnit DEF Inv
<1>5. T!another_arrival
  BY <1>0 DEF another_arrival, T!another_arrival, arrival_queue_empty, T!arrival_queue_empty,
              timeunits_until_next_arrival, T!timeunits_until_next_arrival
<1>6. UNCHANGED (elapsed \div Ns(time_unit))
  BY <1>0 DEF Ns
<1> QED
  BY <1>0, <1>4, <1>5, <1>6, SameUnit DEF T!AnotherArrival, T!get_arrived_process

(* The time set for the next arrival, n units ahead: refused by             *)
(* timer_settime exactly when module Timers refuses it.                     *)
LEMMA NextArrival ==
  ASSUME Unit \in Nat \ {0}, time_unit \in Times, Normal(time_unit), time_unit.tv_sec >= 0,
         NEW n \in Int, NEW ptr, Strategy = "RR" /\ ptr = num_process => n >= 0, NEW ts, Whole(ts)
  PROVE  LET next == timespec_multiply(time_unit, n)
             v    == set_timer(ptr, next, ts)
             w    == T!set_timer(ptr, n, Units(ts))
         IN  /\ Units(next) = n /\ w \in Int
             /\ w >= 0 <=> n >= 0
             /\ n >= 0 => Whole(next) /\ Whole(v) /\ Units(v) = w
             /\ settime_fails(v) <=> w < 0
<1> DEFINE next == timespec_multiply(time_unit, n)
           v    == set_timer(ptr, next, ts)
           w    == T!set_timer(ptr, n, Units(ts))
<1>1. /\ n >= 0 => Whole(next)
      /\ n < 0 => Negative(next)
      /\ next \in Times /\ Units(next) = n
  BY WholeMultiply
<1> HIDE DEF next
<1>2. CASE n >= 0
  <2>1. Whole(v) /\ Units(v) = w
    BY <1>1, <1>2, WholeSetTimer
  <2> HIDE DEF v, w
  <2>2. Units(v) \in Nat /\ ~settime_fails(v)
    BY <2>1, WholeFacts
  <2> QED BY <1>1, <1>2, <2>1, <2>2 DEF v, w, next
<1>3. CASE n < 0
  <2>1. settime_fails(v) /\ w = n
    BY <1>1, <1>3, NegativeSetTimer
  <2> HIDE DEF v, w
  <2> QED BY <1>1, <1>3, <2>1 DEF v, w, next
<1> QED
  BY <1>2, <1>3

(* No more jobs arrive at this time. *)
LEMMA ArrivalsDoneStep ==
  ASSUME Inv, ArrivalsDone
  PROVE  Inv' /\ T!ArrivalsDone
<1> DEFINE n    == IF arrival_queue_empty THEN 0 ELSE timeunits_until_next_arrival
           next == timespec_multiply(time_unit, n)
           v    == set_timer(arrival_ptr, next, timeslice_remaining)
           s    == Units(timeslice_remaining)
           w    == T!set_timer(arrival_ptr, n, s)
<1>0. /\ alarm = "arriving" /\ ~another_arrival /\ arrival_remaining' = next /\ settime(v)
      /\ alarm' = IF nonnegative(arrival_remaining) /\ ~settime_fails(v) THEN "armed" ELSE "failed"
      /\ UNCHANGED <<measured, time_unit, arrival_time, arrival_ptr, timeslice_remaining, elapsed>>
  BY DEF ArrivalsDone, input
<1>1. /\ UnitInv /\ Unit \in Nat \ {0} /\ time_unit \in Times /\ Normal(time_unit) /\ time_unit.tv_sec >= 0
      /\ arrival_ptr \in 0 .. num_process /\ arrival_ptr > 0 /\ num_process \in Nat
      /\ \A i \in Child : arrival_time[i] \in Int
      /\ Whole(arrival_remaining) /\ Whole(timeslice_remaining) /\ Whole(it_value)
  BY <1>0, InputFacts DEF Inv
<1>2. n \in Int /\ n = T!time_to_next
  <2>1. n = T!time_to_next
    BY DEF arrival_queue_empty, T!arrival_queue_empty, T!time_to_next, timeunits_until_next_arrival,
           T!timeunits_until_next_arrival
  <2>2. ~arrival_queue_empty => arrival_ptr \in Child /\ arrival_ptr - 1 \in Child /\ arrival_ptr # 0
    BY <1>1 DEF arrival_queue_empty, Child
  <2> QED BY <1>1, <2>1, <2>2 DEF timeunits_until_next_arrival
<1>3. Strategy = "RR" /\ arrival_ptr = num_process => n >= 0
  BY DEF arrival_queue_empty
<1>4. ~another_arrival <=> ~T!another_arrival
  BY DEF another_arrival, T!another_arrival, arrival_queue_empty, T!arrival_queue_empty,
         timeunits_until_next_arrival, T!timeunits_until_next_arrival
<1>5. arrival_queue_empty => n = 0
  OBVIOUS
<1> HIDE DEF n
<1>6. /\ Units(next) = n /\ w \in Int
      /\ w >= 0 <=> n >= 0
      /\ n >= 0 => Whole(next) /\ Whole(v) /\ Units(v) = w
      /\ settime_fails(v) <=> w < 0
  BY <1>1, <1>2, <1>3, NextArrival
<1>7. nonnegative(arrival_remaining) /\ Units(arrival_remaining) \in Nat
  BY <1>1, WholeFacts
<1>8. Strategy # "RR" /\ arrival_queue_empty => w = 0
  BY <1>5 DEF T!set_timer
<1>9. /\ it_value' = IF w < 0 THEN it_value ELSE v
      /\ alarm' = IF w < 0 THEN "failed" ELSE "armed"
  <2> HIDE DEF v, w
  <2> QED BY <1>0, <1>6, <1>7 DEF settime
<1> HIDE DEF next, v
<1>10. UnitInv'
  BY <1>0, <1>1, <1>9, SameInput DEF input
<1>11. Inv'
  <2>1. CASE w < 0
    BY <1>9, <1>10, <2>1 DEF Inv
  <2>2. CASE ~(w < 0)
    <3>1. Whole(next) /\ Whole(v) /\ Units(v) = w /\ it_value' = v /\ alarm' = "armed"
      BY <1>6, <1>9, <2>2
    <3>2. Strategy # "RR" /\ arrival_queue_empty => v = Zero
      BY <1>1, <1>8, <3>1, WholeFacts
    <3> QED
      BY <1>0, <1>1, <1>10, <3>1, <3>2, SameUnit DEF Inv, arrival_queue_empty
  <2> QED BY <2>1, <2>2
<1> HIDE DEF w
<1>12. T!arrivals_done_fails <=> w < 0
  BY <1>2, <1>7 DEF T!arrivals_done_fails, w
<1>13. T!arrivals_done
  <2>1. Units(arrival_remaining)' = n /\ Units(timeslice_remaining)' = s
    BY <1>0, <1>6, SameUnit
  <2>2. Units(it_value)' = IF w < 0 THEN Units(it_value) ELSE w
    BY <1>0, <1>6, <1>9, SameUnit
  <2> QED
    BY <1>0, <1>2, <2>1, <2>2 DEF T!arrivals_done, T!settime, w
<1>14. UNCHANGED (elapsed \div Ns(time_unit))
  BY <1>0 DEF Ns
<1> QED
  BY <1>0, <1>4, <1>9, <1>11, <1>12, <1>13, <1>14 DEF T!ArrivalsDone

(* Every step keeps the invariant and is a step of module Timers. *)
LEMMA StepRefines ==
  ASSUME Inv, [Next]_vars
  PROVE  Inv' /\ [T!Next]_(T!vars)
<1>1. CASE UNCHANGED vars
  <2>1. UNCHANGED <<measured, time_unit, arrival_time, arrival_ptr, arrival_remaining, timeslice_remaining,
                    it_value, elapsed, alarm>>
    BY <1>1 DEF vars, input
  <2>2. UnitInv'
    BY <2>1, SameInput DEF Inv, UnitInv, input
  <2>3. Inv'
    BY <2>1, <2>2, SameUnit DEF Inv, arrival_queue_empty
  <2>4. UNCHANGED T!vars
    BY <2>1, SameUnit DEF T!vars, T!tivars, Ns
  <2> QED BY <2>3, <2>4
<1> QED
  BY <1>1, TimerExpiresStep, TimesliceOverStep, ProcessArrivalStep, AnotherArrivalStep, ArrivalsDoneStep
  DEF Next, T!Next

(* What create_timer_and_init_timespec sets up. *)
LEMMA InitRefines ==
  ASSUME Init
  PROVE  Inv /\ T!Init
<1> DEFINE n == arrival_time[0]
           v == set_timer(0, arrival_remaining, timeslice_remaining)
           s == Units(timeslice_remaining)
           w == T!set_timer(0, n, s)
<1>1. /\ Unit \in Nat \ {0} /\ time_unit \in Times /\ Normal(time_unit) /\ time_unit.tv_sec >= 0
  BY UnitFacts DEF Init
<1>2. n \in Int /\ num_process \in Nat \ {0} /\ arrival_ptr = 0
  BY NumProcessAssumption, ArrivalsAssumption DEF Init, Child
<1>3. Whole(Zero) /\ Units(Zero) = 0
  <2>1. Zero \in Times /\ Normal(Zero) /\ Ns(Zero) = 0 * Unit
    BY <1>1, BillionAssumption DEF Zero, Timespec, Times, Normal, Ns
  <2> QED BY <1>1, <2>1, WholeIntro
<1>4. Whole(timeslice_remaining) /\ s = IF Strategy = "RR" THEN RR_TIMES_OF_UNIT ELSE 0
  <2>1. Whole(time_slice) /\ Units(time_slice) = RR_TIMES_OF_UNIT
    BY <1>1, PolicyAssumption, WholeMultiply DEF time_slice
  <2> QED BY <1>3, <2>1 DEF Init
<1>5. arrival_remaining = timespec_multiply(time_unit, n)
  BY DEF Init, timeunits_until_next_arrival
<1>6. /\ Units(arrival_remaining) = n /\ w \in Int
      /\ w >= 0 <=> n >= 0
      /\ n >= 0 => Whole(arrival_remaining) /\ Whole(v) /\ Units(v) = w
      /\ settime_fails(v) <=> w < 0
  BY <1>1, <1>2, <1>4, <1>5, NextArrival
<1>7. /\ it_value = IF settime_fails(v) THEN Zero ELSE v
      /\ alarm = IF n = 0 THEN "expired" ELSE IF settime_fails(v) THEN "failed" ELSE "armed"
  BY DEF Init
<1> HIDE DEF n, v, s, w
<1>8. /\ it_value = IF w < 0 THEN Zero ELSE v
      /\ alarm = IF n = 0 THEN "expired" ELSE IF n < 0 THEN "failed" ELSE "armed"
      /\ alarm # "failed" => n >= 0
  BY <1>2, <1>6, <1>7
<1>9. elapsed = 0 /\ 0 = 0 * Unit /\ 0 \div Unit = 0
  <2>1. 0 = 0 * Unit
    BY <1>1
  <2> QED BY <1>1, <2>1, Cancel DEF Init
<1>10. UnitInv
  BY <1>2, <1>8, <1>9 DEF Init, UnitInv
<1>11. Inv
  BY <1>2, <1>3, <1>4, <1>6, <1>8, <1>10 DEF Inv, arrival_queue_empty
<1>12. Units(it_value) = IF w < 0 THEN 0 ELSE w
  BY <1>2, <1>3, <1>6, <1>8
<1>13. T!create_timer_and_init_timespec
  BY <1>2, <1>4, <1>6, <1>12 DEF T!create_timer_and_init_timespec, n, s, w
<1> QED
  BY <1>8, <1>9, <1>11, <1>13 DEF Init, T!Init, n, Unit

-----------------------------------------------------------------------------
(* Every time main.c keeps is a whole number of units. *)
THEOREM Invariance == Spec => []Inv
<1>1. Init => Inv
  BY InitRefines
<1>2. Inv /\ [Next]_vars => Inv'
  BY StepRefines
<1> QED
  BY <1>1, <1>2, PTL DEF Spec

(* No remainder of a unit accumulates through the subtractions of           *)
(* subtract_time_passed (main.c:240-259), and every time stays normalised.  *)
THEOREM NoRemainder == Spec => []WholeUnits
<1>1. ASSUME Inv PROVE WholeUnits
  <2>1. Unit \in Nat \ {0}
    BY <1>1, InputFacts DEF Inv
  <2>2. ASSUME alarm # "failed", NEW t \in {arrival_remaining, timeslice_remaining, it_value}
        PROVE  Normal(t) /\ Ns(t) = Units(t) * Ns(time_unit)
    <3>1. Whole(t)
      BY <1>1, <2>2 DEF Inv
    <3> QED BY <2>1, <3>1, WholeFacts DEF Unit
  <2> QED BY <2>2 DEF WholeUnits
<1> QED
  BY <1>1, Invariance, PTL

(* The carries and borrows of main.c:450-474 and the comparison of          *)
(* min_timespecp never change an outcome: counted in units, the timers are  *)
(* those of module Timers, for every measured unit and every input.         *)
THEOREM Refinement == Spec => ImplementsTimers
<1>1. Init => T!Init
  BY InitRefines
<1>2. Inv /\ [Next]_vars => [T!Next]_(T!vars)
  BY StepRefines
<1> QED
  BY <1>1, <1>2, Invariance, PTL DEF Spec, ImplementsTimers, T!Spec

-----------------------------------------------------------------------------
(* What is shown of Timers holds of the times in nanoseconds. *)
TP == INSTANCE TimersProofs
        WITH arrival_remaining   <- Units(arrival_remaining),
             timeslice_remaining <- Units(timeslice_remaining),
             it_value            <- Units(it_value),
             clock               <- elapsed \div Ns(time_unit)

(* The two instances of Timers are the same specification. *)
LEMMA SameTimers == T!Spec => TP!Spec
<1> USE DEF T!arrival_queue_empty, TP!arrival_queue_empty, T!ArrivalIsMin, TP!ArrivalIsMin,
        T!set_timer, TP!set_timer, T!settime, TP!settime, T!TwoTimers, TP!TwoTimers,
        T!get_expire_reason, TP!get_expire_reason,
        T!timeunits_until_next_arrival, TP!timeunits_until_next_arrival
<1>1. T!TimerExpires => TP!TimerExpires
  BY DEF T!TimerExpires, TP!TimerExpires
<1>2. T!TimesliceOver => TP!TimesliceOver
  BY DEF T!TimesliceOver, TP!TimesliceOver, T!timeslice_expired, TP!timeslice_expired,
         T!timeslice_expired_fails, TP!timeslice_expired_fails
<1>3. T!ProcessArrival => TP!ProcessArrival
  BY DEF T!ProcessArrival, TP!ProcessArrival, T!arrival_expired, TP!arrival_expired
<1>4. T!AnotherArrival => TP!AnotherArrival
  BY DEF T!AnotherArrival, TP!AnotherArrival, T!another_arrival, TP!another_arrival,
         T!get_arrived_process, TP!get_arrived_process
<1>5. T!ArrivalsDone => TP!ArrivalsDone
  BY DEF T!ArrivalsDone, TP!ArrivalsDone, T!another_arrival, TP!another_arrival,
         T!arrivals_done, TP!arrivals_done, T!arrivals_done_fails, TP!arrivals_done_fails,
         T!time_to_next, TP!time_to_next
<1>6. UNCHANGED T!vars => UNCHANGED TP!vars
  BY DEF T!vars, TP!vars, T!tivars, TP!tivars
<1>7. [T!Next]_(T!vars) => [TP!Next]_(TP!vars)
  BY <1>1, <1>2, <1>3, <1>4, <1>5, <1>6 DEF T!Next, TP!Next
<1>8. T!Init => TP!Init
  BY DEF T!Init, TP!Init, T!create_timer_and_init_timespec, TP!create_timer_and_init_timespec
<1> QED
  BY <1>7, <1>8, PTL DEF T!Spec, TP!Spec

(* The assumptions of module Timers hold here. *)
LEMMA TimersAssumptions ==
  /\ Strategy \in TP!Strategies
  /\ RR_TIMES_OF_UNIT \in Nat \ {0}
  /\ ArrivalTimes \subseteq [TP!Child -> Int]
BY PolicyAssumption, ArrivalsAssumption DEF TP!Strategies, TP!Child, Child

(* The rounding of one unit, r = UNIT_MEASURE_REPEAT, adds up over a units. *)
LEMMA Rounding ==
  ASSUME NEW m \in Nat, NEW r \in Nat \ {0}, NEW a \in Nat
  PROVE  LET u == m \div r IN
         /\ r * (a * u) <= a * m
         /\ a > 0 => a * m < r * (a * u + a)
<1> DEFINE u == m \div r
<1>1. u \in Nat /\ 0 <= m - r * u /\ m - r * u < r
  BY Divide
<1> HIDE DEF u
<1>2. \E d \in Nat : m = r * u + d /\ d < r
  <2>1. r * u \in Int
    BY <1>1
  <2> QED BY <1>1, <2>1
<1>3. PICK d \in Nat : m = r * u + d /\ d < r
  BY <1>2
<1>4. a * m = r * (a * u) + a * d
  BY <1>1, <1>3, Z3
<1>5. a * d >= 0 /\ (a > 0 => a * d < r * a)
  BY <1>3, Z3
<1>6. r * (a * u + a) = r * (a * u) + r * a
  BY <1>1, Z3
<1>7. r * (a * u) \in Int /\ a * d \in Int /\ r * a \in Int
  BY <1>1, <1>3
<1> QED
  BY <1>4, <1>5, <1>6, <1>7 DEF u

(* A job that is to arrive after a units arrives early by less than a       *)
(* nanoseconds, measured by the time 1000 units were measured to take       *)
(* (main.c:476-485), if no arrival of RR falls on the end of a slice.       *)
THEOREM DriftIsBounded ==
  ASSUME Strategy = "RR" => \A a \in ArrivalTimes : T!TieFree(a)
  PROVE  Spec => []DriftBounded
<1>1. ASSUME Inv, TP!ArrivalsOnTime PROVE DriftBounded
  <2> SUFFICES ASSUME alarm = "arriving"
               PROVE  LET a == arrival_time[arrival_ptr - 1]
                          m == Ns(measured.end) - Ns(measured.begin)
                      IN  /\ UNIT_MEASURE_REPEAT * elapsed <= a * m
                          /\ a > 0 => a * m < UNIT_MEASURE_REPEAT * (elapsed + a)
    BY DEF DriftBounded
  <2> DEFINE a == arrival_time[arrival_ptr - 1]
             m == Ns(measured.end) - Ns(measured.begin)
             r == UNIT_MEASURE_REPEAT
  <2>1. a = elapsed \div Unit
    BY <1>1 DEF TP!ArrivalsOnTime, Unit
  <2>2. a \in Nat /\ elapsed = a * Unit
    BY <1>1, <2>1, InputFacts DEF Inv
  <2>3. measured \in Measurements /\ Unit = m \div r
    BY <1>1, UnitFacts DEF Inv, UnitInv
  <2>4. r \in Nat \ {0} /\ m \in Nat
    <3>1. m \in Int /\ m >= r /\ r \in Nat \ {0}
      BY <2>3, MeasureAssumption, BillionAssumption DEF Ns
    <3> QED BY <3>1
  <2> HIDE DEF a, m, r
  <2>5. r * (a * Unit) <= a * m /\ (a > 0 => a * m < r * (a * Unit + a))
    BY <2>2, <2>3, <2>4, Rounding
  <2> QED
    BY <2>2, <2>5 DEF a, m, r
<1>2. Init => (Strategy = "RR" => TP!TieFree(arrival_time))
  BY DEF Init, T!TieFree, TP!TieFree, T!Aligned, TP!Aligned, T!Child, TP!Child
<1>3. TP!TieFreeSpec => []TP!ArrivalsOnTime
  BY TP!OnTime, TimersAssumptions, NumProcessAssumption
<1>4. Spec => TP!Spec
  BY Refinement, SameTimers DEF ImplementsTimers
<1>5. Spec => TP!TieFreeSpec
  BY <1>2, <1>4, PTL DEF Spec, TP!TieFreeSpec
<1> QED
  BY <1>1, <1>3, <1>5, Invariance, PTL
==============================================================================
