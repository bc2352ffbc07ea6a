----------------------------- MODULE ProcessLog -----------------------------
(***************************************************************************)
(* The program with its log: every child makes the two system calls of     *)
(* proj1.c, at its first and after its last unit, the kernel writes a line *)
(* to its log, and time_calc.py computes the run times from the lines.     *)
(* The children of module Scheduler, with the calls added to their steps;  *)
(* a slice may end between the second call and exit.                       *)
(***************************************************************************)
EXTENDS Scheduler, Timespec

CONSTANT Tick              \* nanoseconds from one system call to the next

ASSUME TickAssumption == Tick \in Nat \ {0}

VARIABLES
  start_time,              \* ProcessTimeRecord of each child
  dmesg,                   \* kernel: the lines of the log
  now                      \* kernel: the time of day

log == <<start_time, dmesg, now>>

-----------------------------------------------------------------------------
getnstimeofday == Timespec(now \div BILLION, now % BILLION)

(* printk("%d %ld.%ld %ld.%ld"): a time is two numerals, not padded.        *)
_print_process_info(pid, start, stop) ==
  Append(dmesg, [pid |-> pid, begin |-> <<start.tv_sec, start.tv_nsec>>,
                              end   |-> <<stop.tv_sec, stop.tv_nsec>>])

_start_process_unsafe(p) ==
  /\ start_time' = [start_time EXCEPT ![p] = getnstimeofday]
  /\ now' = now + Tick
  /\ UNCHANGED dmesg

_stop_process_unsafe(p) ==
  /\ dmesg' = _print_process_info(p, start_time[p], getnstimeofday)
  /\ now' = now + Tick
  /\ UNCHANGED start_time

(* The system calls, 335 and 336. *)
proj1_start_process(p) == _start_process_unsafe(p)
proj1_stop_process(p)  == _stop_process_unsafe(p)

(* time_calc.py.  Mutant: the two numerals are read as one decimal number.  *)
TimeInfo_decimal(numerals) ==
  numerals[1] * BILLION + (IF 10 * numerals[2] < BILLION THEN 10 * numerals[2] ELSE numerals[2])

TimeInfo(numerals) == numerals[1] * BILLION + numerals[2]

run_time(line) == TimeInfo(line.end) - TimeInfo(line.begin)

-----------------------------------------------------------------------------
LogInit ==
  /\ Init
  /\ start_time = [p \in Child |-> Timespec(0, 0)]    \* not written yet
  /\ dmesg = <<>>
  /\ now = 0

sys_log_process_start(p) == proj1_start_process(p)
sys_log_process_end(p)   == proj1_stop_process(p)

(* The first unit is about to run... *)
LoggedStart(p) == ChildStart(p) /\ sys_log_process_start(p)

Logged(p) == \E i \in DOMAIN dmesg : dmesg[i].pid = p

(* ...the last one has run... *)
LoggedEnd(p) ==
  /\ Runs(p)
  /\ state[p] = "running"
  /\ ~Logged(p)
  /\ sys_log_process_end(p)
  /\ UNCHANGED vars

(* ...and exit. *)
LoggedExit(p) == Logged(p) /\ ChildExit(p) /\ UNCHANGED log

LogNext ==
  \/ Loop /\ UNCHANGED log
  \/ TimerExpires /\ UNCHANGED log
  \/ \E p \in Child : LoggedStart(p) \/ LoggedEnd(p) \/ LoggedExit(p)

LogSpec == LogInit /\ [][LogNext]_<<vars, log>>

(* The fairness of module Scheduler; a child also gets to its second call. *)
LogFairSpec ==
  /\ LogSpec
  /\ Fairness
  /\ \A p \in Child : SF_<<vars, log>>(LoggedEnd(p))

-----------------------------------------------------------------------------
(* Properties *)

(* time_calc.py: "calculates the run time of each process".  The numerals   *)
(* of a line are not padded (printk "%ld.%ld"), and yet what time_calc.py   *)
(* makes of them is the time since the first step of that job.              *)
TimeCalcExact ==
  [][\A p \in Child : LoggedEnd(p) =>
       run_time(dmesg'[Len(dmesg')]) = now - Ns(start_time[p])]_<<vars, log>>

(* report.md evaluates the log of whole runs: when the scheduler leaves,    *)
(* the log has one line of every job.                                       *)
LogComplete ==
  pc = "exit" => /\ Len(dmesg) = num_process
                 /\ \A p \in Child : Logged(p)

-----------------------------------------------------------------------------
(* The inductive invariant *)

LogLine == [pid : Child, begin : Seq(Int), end : Seq(Int)]

LogTypes ==
  /\ now \in Nat
  /\ start_time \in [Child -> [tv_sec : Int, tv_nsec : Int]]
  /\ dmesg \in Seq(LogLine)

(* One line of a job, between its first unit and its exit. *)
LogInv ==
  /\ LogTypes
  /\ \A i, j \in DOMAIN dmesg : dmesg[i].pid = dmesg[j].pid => i = j
  /\ \A p \in Child :
       /\ Logged(p) => state[p] \in {"running", "zombie", "reaped", "killed"}
       /\ state[p] \in {"zombie", "reaped"} => Logged(p)
=============================================================================
