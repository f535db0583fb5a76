---------------------------- MODULE SandboxTiny ----------------------------
(***************************************************************************)
(* The fast sandbox, for trusted programs: src/sandbox-tiny.cpp.  It traps *)
(* no calls; the monitor blocks in wait4, and the wall clock is a SIGALRM  *)
(* whose handler kills the child and sets child_overdue.                   *)
(***************************************************************************)
EXTENDS SandboxController

CONSTANT WallSlack  \* TIMER_REDUNDANCY: added to the monitor's own time limit

ASSUME WallAssumption == WallSlack \in Nat

(* fork comes first: until sigaction a SIGALRM kills the monitor alone. *)
TFork ==
    /\ trust /\ mpc = "boot"
    /\ mpc' = "handler" /\ stage' = "forked"
    /\ UNCHANGED <<cvars, alarm, freed, ready, req, ret, mexit, result, pdeath,
                   pvars, ending, killed, kernel>>

THandler ==
    /\ trust /\ mpc = "handler"
    /\ mpc' = "await"
    /\ UNCHANGED <<cvars, alarm, freed, ready, req, ret, mexit, result, child, kernel>>

(* wait4(WUNTRACED) returns with the child stopped, or killed by the handler. *)
TAwait ==
    /\ trust /\ mpc = "await" /\ stage \in {"halted", "dead"}
    /\ mpc' = "selfstop"
    /\ UNCHANGED <<cvars, alarm, freed, ready, req, ret, mexit, result, child, kernel>>

(* Continued, the monitor continues the child and only then starts the clock. *)
TRelease ==
    /\ trust /\ mpc = "setup"
    /\ mpc' = "arm"
    /\ stage' = IF stage = "halted" THEN "resumed" ELSE stage
    /\ UNCHANGED <<cvars, alarm, freed, ready, req, ret, mexit, result, pdeath,
                   pvars, ending, killed, kernel>>

TArm ==
    /\ mpc = "arm"
    /\ mpc' = "trace" /\ timer' = "armed"
    /\ UNCHANGED <<cvars, alarm, freed, ready, req, ret, mexit, result, child,
                   notif, kind, sigchld>>

TinyResults == {"tle", "mle", "overdue", "sig", "exit0", "exitN"}

(* What tracer makes of the wait status.  SIGXFSZ is a signal like any other, *)
(* and a stop is one too: WIFSIGNALED of the number of the stop signal holds. *)
Decoded == IF stage = "dead" /\ ending \in {"exit0", "exitN"} THEN ending ELSE "sig"

(* wait4 returns with the child ended or stopped.  The time is looked at      *)
(* first, with the redundancy in the limit, then the memory, with its own,    *)
(* then the status.  In the first two cases the child is killed, which may    *)
(* have been reaped already.                                                  *)
TTrace ==
    /\ mpc = "trace" /\ stage \in {"dead", "paused"}
    /\ mpc' = "told"
    /\ IF used > BoxLimit + WallSlack
       THEN ret' = "tle"
       ELSE ret' \in {Decoded} \cup (IF big THEN {"mle"} ELSE {})
    /\ killed' = (killed \/ (ret' \in {"tle", "mle"} /\ Alive))
    /\ UNCHANGED <<cvars, alarm, freed, ready, req, mexit, result, stage, pdeath,
                   pvars, ending, kernel>>

(* Whatever tracer returned, child_overdue overrides it; a SIGALRM that comes *)
(* after this changes nothing.                                                *)
TOverdue ==
    /\ mpc = "told"
    /\ mpc' = "write" /\ ret' = IF alarm = "taken" THEN "overdue" ELSE ret
    /\ UNCHANGED <<cvars, alarm, freed, ready, req, mexit, result, child, kernel>>

TinyMonitor == TFork \/ THandler \/ TAwait \/ TRelease \/ TArm \/ TTrace \/ TOverdue

-----------------------------------------------------------------------------
(* The child of the fast sandbox, and its kernel. *)

(* apply_rlimit and execv. *)
KExec ==
    /\ trust /\ stage = "launching"
    /\ stage' = "program"
    /\ UNCHANGED <<cvars, mvars, alarm, freed, pdeath, pvars, ending, killed, kernel>>

(* The program stops itself.  Nobody continues it: the monitor takes the stop *)
(* for its end.  (To the full sandbox a stopped program is an idle one.)      *)
KPause ==
    /\ trust /\ stage = "program"
    /\ stage' = "paused"
    /\ UNCHANGED <<cvars, mvars, alarm, freed, pdeath, pvars, ending, killed, kernel>>

(* ITIMER_REAL runs out. *)
TTimer ==
    /\ trust /\ timer = "armed" /\ mpc # "exited"
    /\ timer' = "fired"
    /\ AlarmMonitor
    /\ UNCHANGED <<cvars, freed, ready, req, ret, result, stage, pdeath, pvars,
                   ending, kind, sigchld>>

=============================================================================
