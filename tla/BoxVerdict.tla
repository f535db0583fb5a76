----------------------------- MODULE BoxVerdict -----------------------------
(***************************************************************************)
(* From the end of a program to the verdict of a run: the status word the  *)
(* sandbox monitor composes (src/sandbox.cpp, main) and the verdict the    *)
(* controller reads out of it (lib/sandbox.py, Sandbox.wait).              *)
(*                                                                         *)
(* The status word is a set of flag bits; the flags are named here and the *)
(* payload bits are kept only where a decision reads them (a zero or a     *)
(* nonzero exit code).  Times are counted in an arbitrary unit.            *)
(***************************************************************************)
EXTENDS Naturals

CONSTANTS TimeLimit,   \* limit.time
          Redundancy   \* limit.time_redundancy

ASSUME LimitAssumption == TimeLimit \in Nat /\ Redundancy \in Nat

(* A mutated BoxLimit: the redundancy is left out. *)
BoxLimitWithoutRedundancy == TimeLimit

(* The time limit on the monitor's command line. *)
BoxLimit == TimeLimit + Redundancy

(* How a program can end: what wait4 tells the monitor of it.  "prof" is a *)
(* death by SIGPROF or SIGXCPU, "xfsz" by SIGXFSZ, "cpu" the SIGKILL of       *)
(* RLIMIT_CPU, which wait4 does not tell from another's, and "sig" the rest. *)
Endings == {"exit0", "exitN", "sig", "cpu", "prof", "xfsz"}

(* What the tracer loop returns: nothing decided, a forbidden call, the    *)
(* wall-clock timer, or its own failure (-1).                              *)
TraceResults == {"none", "fbd", "overdue", "fail"}

Statuses == {"fbd", "overdue", "tle", "ole", "sig", "exit0", "exitN"}

Verdicts == {"ok", "fb", "tl", "ml", "ol", "re", "fail"}

DecodeWait == [exit0 |-> "exit0", exitN |-> "exitN", sig |-> "sig",
               cpu |-> "sig", prof |-> "tle", xfsz |-> "ole"]

(* The wait status counts only when the tracer decided nothing itself. *)
TracedStatus(ret, ending) == IF ret = "none" THEN DecodeWait[ending] ELSE ret

(* Whatever happened, a program that used up the limit gets BOX_TLE. *)
StatusOf(ret, ending, used) ==
    LET st == TracedStatus(ret, ending)
    IN  IF st \notin {"tle", "overdue"} /\ used >= BoxLimit THEN "tle" ELSE st

(* The result file: what the monitor reports.  "big" is a peak memory above *)
(* limit.memory.                                                            *)
Reports == [stat : Statuses, used : Nat, big : BOOLEAN]

(* A mutated TimedOut: only the monitor's word is taken. *)
TimedOutByStatus(r) == r.stat \in {"tle", "overdue"}

TimedOut(r) == r.stat \in {"tle", "overdue"} \/ r.used > TimeLimit

(* A mutated Classify: memory is looked at before time. *)
ClassifyMemoryFirst(r) ==
    IF r.stat = "fbd" THEN "fb"
    ELSE IF r.big THEN "ml"
    ELSE IF TimedOut(r) THEN "tl"
    ELSE IF r.stat = "ole" THEN "ol"
    ELSE IF r.stat \in {"sig", "exitN"} THEN "re"
    ELSE "ok"

(* A mutated Classify: the monitor's name for the status slips through. *)
ClassifyUntranslated(r) ==
    IF r.stat = "fbd" THEN "fb"
    ELSE IF TimedOut(r) THEN "tl"
    ELSE IF r.big THEN "ml"
    ELSE IF r.stat \in {"sig", "exitN"} THEN "re"
    ELSE IF r.stat = "exit0" THEN "ok"
    ELSE r.stat

Classify(r) ==
    IF r.stat = "fbd" THEN "fb"
    ELSE IF TimedOut(r) THEN "tl"
    ELSE IF r.big THEN "ml"
    ELSE IF r.stat = "ole" THEN "ol"
    ELSE IF r.stat \in {"sig", "exitN"} THEN "re"
    ELSE "ok"

=============================================================================
