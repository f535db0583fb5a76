------------------------- MODULE SandboxController -------------------------
(***************************************************************************)
(* The controller of one sandboxed run (lib/sandbox.py: run(), start, cont, *)
(* wait, close), the signals by which it, the monitor and the child meet,  *)
(* and the steps the two monitors, sandbox and sandbox-tiny, have in       *)
(* common.  All the state of a run is declared here; SandboxMonitor,       *)
(* SandboxTiny and SandboxRun add the actions of the others.               *)
(***************************************************************************)
EXTENDS BoxVerdict

VARIABLES
    \* the controller
    cpc,       \* where it is
    safe,      \* _child_safe: close() has nothing left to do
    early,     \* start() reaped a monitor that died instead of stopping
    verdict,   \* box.ret, or "none"
    intr,      \* where Ctrl-C hit the controller, or "none"
    trust,     \* the monitor is sandbox-tiny, not sandbox
    \* the monitor
    mpc,       \* where it is; "stopped" is job control's, "exited" final
    alarm,     \* SIGALRM: "pending" on the stopped monitor, or "taken" by the
               \* handler of the fast sandbox (child_overdue)
    ready,     \* poll's snapshot: the descriptors that were readable
    req,       \* the kind of call RECV returned
    ret,       \* what tracer() returned
    mexit,     \* "none" | 0 | 1 | "signal", as strings
    result,    \* the result file: "whole", or "short": empty, or cut before the
               \* end of its third line
    \* the child
    stage,     \* where it is; "dead" once it has ended
    pdeath,    \* PR_SET_PDEATHSIG is in force
    pre,       \* CPU time used before it stopped itself
    used,      \* CPU time used since
    big,       \* its peak memory passed limit.memory
    asked,     \* it made a call the monitor's policy forbids
    timers,    \* it sets real-time timers (setitimer, timer_create), or never does
    ending,    \* its wait status, or "none"
    killed,    \* a SIGKILL is on its way to it
    \* the kernel, between them
    notif,     \* the listener: "none" | "new" | "taken"
    kind,      \* what the waiting call asks for
    sigchld,   \* the signalfd's one slot: "none" | "cont" | "exit"
    timer,     \* the wall clock: "off" | "armed" | "fired"
    freed      \* SIGCONT has reached the stopped monitor

cvars == <<cpc, safe, early, verdict, intr, trust>>
mvars == <<mpc, ready, req, ret, mexit, result>>
pvars == <<pre, used, big, asked, timers>>
child == <<stage, pdeath, pvars, ending, killed>>
kernel == <<notif, kind, sigchld, timer>>
vars == <<cvars, mvars, alarm, freed, child, kernel>>

\* "void": a call with a path that is empty, or at an address that is not there
Kinds == {"allow", "deny", "forbid", "void"}
Fds == {"timer", "signal", "listener"}
Sources == {"popen", "start", "ready", "wait", "read"}

-----------------------------------------------------------------------------
(* What the kernel does on a signal or an exit. *)

(* SIGCHLD is blocked, so that signalfd sees it, from install_signalfd on. *)
Watching == ~trust /\ mpc \in {"resume", "poll", "timer", "signal", "recv", "answer",
                                "reap", "write", "leave"}

(* A SIGCHLD that comes while one is pending is lost, and its code with it; *)
(* before the signal is blocked it is discarded.                            *)
PostSigchld(code) ==
    sigchld' = IF Watching /\ sigchld = "none" THEN code ELSE sigchld

Alive == stage \notin {"none", "dead"}

(* The stages in which the child's own code executes: not before fork, not  *)
(* stopped, and not waiting in the kernel for the monitor's answer.         *)
Executing == notif = "none" /\ stage \in {"arming", "launching", "program"}

(* The monitor is gone: descriptors close, the parent-death signal goes out. *)
MonitorExit(status) ==
    /\ mpc' = "exited" /\ mexit' = status
    /\ killed' = (killed \/ (pdeath /\ Alive))
    /\ notif' = "none"

ChildEnds(how) ==
    /\ stage' = "dead" /\ ending' = how
    /\ notif' = "none"
    /\ PostSigchld("exit")
    /\ UNCHANGED <<cvars, mvars, alarm, freed, pdeath, pvars, killed, kind, timer>>

(* sandbox-tiny handles SIGALRM once it has called sigaction: it kills the    *)
(* child and takes a note.  In a wait4 that the signal interrupts it goes on; *)
(* if the signal comes just before, it still waits.                           *)
Handles == trust /\ mpc \notin {"boot", "handler"}

(* A mutated Handler: it takes the note only. *)
HandlerSpares == alarm' = "taken" /\ UNCHANGED <<mexit, killed, notif>>

Handler ==
    /\ alarm' = "taken" /\ killed' = (killed \/ Alive)
    /\ UNCHANGED <<mexit, notif>>

(* SIGALRM to the monitor; not handled, it kills. *)
AlarmMonitor ==
    CASE mpc = "exited"  -> UNCHANGED <<alarm, mpc, mexit, killed, notif>>
      [] mpc = "stopped" -> /\ alarm' = IF alarm = "taken" THEN alarm ELSE "pending"
                            /\ UNCHANGED <<mpc, mexit, killed, notif>>
      [] mpc \notin {"exited", "stopped"} /\ Handles ->
            Handler /\ mpc' \in {mpc} \cup (IF mpc = "await" THEN {"selfstop"} ELSE {})
      [] OTHER -> MonitorExit("signal") /\ UNCHANGED alarm

(* SIGCONT to the monitor: it goes on from kill(pid, SIGSTOP), and before   *)
(* anything else takes the SIGALRM that may be waiting.  A SIGCONT that     *)
(* comes before the stop leaves no trace.                                   *)
ContMonitor ==
    IF mpc # "stopped"
    THEN UNCHANGED <<alarm, mpc, mexit, killed, notif, freed>>
    ELSE /\ freed' = TRUE
         /\ CASE alarm # "pending"         -> /\ mpc' = "setup"
                                              /\ UNCHANGED <<alarm, mexit, killed, notif>>
              [] alarm = "pending" /\ trust -> mpc' = "setup" /\ Handler
              [] OTHER                      -> MonitorExit("signal") /\ UNCHANGED alarm

-----------------------------------------------------------------------------
(* The controller: run() around start(), wait(), and close() on the way out. *)

(* Popen has returned: box.proc is set. *)
CPopenReturns ==
    /\ cpc = "popen" /\ cpc' = "start"
    /\ UNCHANGED <<safe, early, verdict, intr, trust, mvars, alarm, freed, child, kernel>>

(* The waitpid loop of start(): it returns on the monitor's stop.  A monitor *)
(* that exited instead is reaped here, behind Popen's back.                  *)
CStartReturns ==
    /\ cpc = "start" /\ mpc \in {"stopped", "exited"}
    /\ cpc' = "ready" /\ early' = (mpc = "exited")
    /\ UNCHANGED <<safe, verdict, intr, trust, mvars, alarm, freed, child, kernel>>

(* wait() calls cont(); send_signal does nothing for a reaped process. *)
CCont ==
    /\ cpc = "ready"
    /\ cpc' = "wait" /\ safe' = TRUE
    /\ ContMonitor
    /\ UNCHANGED <<early, verdict, intr, trust, ready, req, ret, result, stage,
                   pdeath, pvars, ending, kind, sigchld, timer>>

(* What proc.wait() returns.  For a process someone else reaped, Popen      *)
(* gets ECHILD and reports 0, whatever the status was.                      *)
ExitCodeSeen == IF early THEN "0" ELSE mexit

(* A nonzero status is final; only after 0 is the result file read. *)
ReadsResult == ExitCodeSeen = "0"

CWaitReturns ==
    /\ cpc = "wait" /\ mpc = "exited"
    /\ IF ReadsResult THEN cpc' = "read" /\ UNCHANGED verdict
                      ELSE cpc' = "judged" /\ verdict' = "fail"
    /\ UNCHANGED <<safe, early, intr, trust, mvars, alarm, freed, child, kernel>>

(* What the monitor writes: sandbox reaps the child first and looks at its   *)
(* status; sandbox-tiny writes what its tracer returned.  None of it changes *)
(* between the writing and the reading, as the child runs no more.           *)
Report == [stat |-> IF trust THEN ret ELSE StatusOf(ret, ending, used),
           used |-> used, big |-> big]

(* A mutated ReadVerdict: what is missing is taken as zero, which is the      *)
(* status of a program that ended well in no time.                           *)
ReadVerdictOfBlank == IF result = "whole" THEN Classify(Report) ELSE "ok"

(* An unreadable file (int('') raises ValueError) is a failed run. *)
ReadVerdict == IF result = "whole" THEN Classify(Report) ELSE "fail"

CRead ==
    /\ cpc = "read"
    /\ cpc' = "judged"
    /\ verdict' = ReadVerdict
    /\ UNCHANGED <<safe, early, intr, trust, mvars, alarm, freed, child, kernel>>

(* Ctrl-C.  In Popen, box.proc is not yet set: close() raises AttributeError, *)
(* which is not a KeyboardInterrupt, so that run() sends nothing either.      *)
CInterrupt ==
    /\ intr = "none" /\ cpc \in Sources
    /\ intr' = cpc
    /\ cpc' = IF cpc = "popen" THEN "lost" ELSE "close"
    /\ UNCHANGED <<safe, early, verdict, trust, mvars, alarm, freed, child, kernel>>

(* _child_safe is false from Popen to cont(). *)
NeedsFlush == ~safe

(* close(): continue the monitor unless cont() already did... *)
CClose ==
    /\ cpc = "close"
    /\ IF NeedsFlush
       THEN cpc' = "grace" /\ ContMonitor
       ELSE cpc' = "except" /\ UNCHANGED <<alarm, mpc, mexit, killed, notif, freed>>
    /\ UNCHANGED <<safe, early, verdict, intr, trust, ready, req, ret, result,
                   stage, pdeath, pvars, ending, kind, sigchld, timer>>

(* ... give it 0.05 s, and send SIGALRM if it is still there. *)
CGrace ==
    /\ cpc = "grace"
    /\ cpc' = "except" /\ safe' = TRUE
    /\ AlarmMonitor
    /\ UNCHANGED <<early, verdict, intr, trust, ready, req, ret, result, freed, stage,
                   pdeath, pvars, ending, kind, sigchld, timer>>

(* The except clause of run(): SIGALRM, then the exception goes on. *)
CExcept ==
    /\ cpc = "except"
    /\ cpc' = "aborted"
    /\ AlarmMonitor
    /\ UNCHANGED <<safe, early, verdict, intr, trust, ready, req, ret, result, freed,
                   stage, pdeath, pvars, ending, kind, sigchld, timer>>

Controller == CPopenReturns \/ CStartReturns \/ CCont \/ CWaitReturns \/ CRead
              \/ CClose \/ CGrace \/ CExcept

-----------------------------------------------------------------------------
(* What both monitors do. *)

MonitorFails ==
    /\ MonitorExit("1")
    /\ UNCHANGED <<cvars, alarm, freed, ready, req, result, stage, pdeath,
                   pvars, ending, kind, sigchld, timer>>

(* socketpair or fork fails. *)
MBootFails == mpc = "boot" /\ MonitorFails /\ UNCHANGED ret

AfterSelfStop == "stopped"

(* kill(pid, SIGSTOP): wait for the controller. *)
MStop ==
    /\ mpc = "selfstop"
    /\ mpc' = AfterSelfStop
    /\ UNCHANGED <<cvars, alarm, freed, ready, req, ret, mexit, result, child, kernel>>

(* The lines fit the buffer of the ofstream, and out.close() writes them all. *)
(* Neither the opening nor the writing is checked: on a full disk the file    *)
(* stays short.                                                              *)
MWrite ==
    /\ mpc = "write"
    /\ mpc' = "leave" /\ result' \in {"short", "whole"}
    /\ UNCHANGED <<cvars, alarm, freed, ready, req, ret, mexit, child, kernel>>

(* return 0, whatever has become of the file. *)
MLeave ==
    /\ mpc = "leave"
    /\ MonitorExit("0")
    /\ UNCHANGED <<cvars, alarm, freed, ready, req, ret, result, stage, pdeath, pvars,
                   ending, kind, sigchld, timer>>

=============================================================================
