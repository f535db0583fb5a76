--------------------------- MODULE SandboxMonitor ---------------------------
(* The monitor of the full sandbox: src/sandbox.cpp main() after fork, and   *)
(* tracer().  The child's calls wait for it on a seccomp listener, SIGCHLD   *)
(* reaches it by a signalfd, the wall clock by a timerfd.                    *)
EXTENDS SandboxController

MFork ==
    /\ ~trust /\ mpc = "boot"
    /\ mpc' = "grant" /\ stage' = "forked"
    /\ UNCHANGED <<cvars, alarm, freed, ready, req, ret, mexit, result, pdeath,
                   pvars, ending, killed, kernel>>

(* The files the program may open are entered into the permission tree, while *)
(* the child is on its way to its own stop.                                  *)
MGrant ==
    /\ mpc = "grant"
    /\ mpc' = "await"
    /\ UNCHANGED <<cvars, alarm, freed, ready, req, ret, mexit, result, child, kernel>>

(* add_permission exits if the directory of such a file cannot be resolved.  *)
MGrantFails == mpc = "grant" /\ MonitorFails /\ UNCHANGED ret

(* wait4(WUNTRACED) returns with the child stopped; start_time is taken. *)
MAwait ==
    /\ ~trust /\ mpc = "await" /\ stage = "halted"
    /\ mpc' = "selfstop"
    /\ UNCHANGED <<cvars, alarm, freed, ready, req, ret, mexit, result, child, kernel>>

(* A mutated ClockStarted: timerfd_settime is not called. *)
ClockForgotten == "off"

ClockStarted == "armed"

(* The listener is received, SIGCHLD is blocked, the wall clock starts. *)
MSetup ==
    /\ ~trust /\ mpc = "setup"
    /\ mpc' = "resume" /\ timer' = ClockStarted
    /\ UNCHANGED <<cvars, alarm, freed, ready, req, ret, mexit, result, child,
                   notif, kind, sigchld>>

(* recv_fd, signalfd or timerfd_create fails. *)
MSetupFails == ~trust /\ mpc = "setup" /\ MonitorFails /\ UNCHANGED ret

(* tracer() begins: kill(child_pid, SIGCONT). *)
MResume ==
    /\ mpc = "resume"
    /\ mpc' = "poll"
    /\ stage' = IF stage = "halted" THEN "resumed" ELSE stage
    /\ UNCHANGED <<cvars, alarm, freed, ready, req, ret, mexit, result, pdeath,
                   pvars, ending, killed, kernel>>

Readable == {fd \in Fds : \/ fd = "timer" /\ timer = "fired"
                          \/ fd = "signal" /\ sigchld # "none"
                          \/ fd = "listener" /\ notif = "new"}

(* poll returns what is readable now; the three checks below act on this   *)
(* snapshot one after the other.                                           *)
MPoll ==
    /\ mpc = "poll" /\ Readable # {}
    /\ ready' = Readable
    /\ mpc' = "timer"
    /\ UNCHANGED <<cvars, alarm, freed, req, ret, mexit, result, child, kernel>>

TimeoutKills == killed \/ Alive

MTimer ==
    /\ mpc = "timer"
    /\ IF "timer" \in ready
       THEN mpc' = "reap" /\ ret' = "overdue" /\ killed' = TimeoutKills
       ELSE mpc' = "signal" /\ UNCHANGED <<ret, killed>>
    /\ UNCHANGED <<cvars, alarm, freed, ready, req, mexit, result, stage, pdeath,
                   pvars, ending, kernel>>

(* A mutated TakesSignal: an else-if that looks at SIGCHLD only when no call *)
(* of the child is waiting.                                                  *)
TakesSignalWhenIdle == "signal" \in ready /\ "listener" \notin ready

TakesSignal == "signal" \in ready

MSignal ==
    /\ mpc = "signal"
    /\ IF TakesSignal
       THEN /\ sigchld' = "none"
            /\ mpc' = IF sigchld = "exit" THEN "reap" ELSE "recv"
       ELSE mpc' = "recv" /\ UNCHANGED sigchld
    /\ UNCHANGED <<cvars, alarm, freed, ready, req, ret, mexit, result, child,
                   notif, kind, timer>>

(* NOTIF_RECV takes the waiting call. *)
MRecv ==
    /\ mpc = "recv"
    /\ IF "listener" \in ready
       THEN notif = "new" /\ notif' = "taken" /\ req' = kind /\ mpc' = "answer"
       ELSE mpc' = "poll" /\ UNCHANGED <<notif, req>>
    /\ UNCHANGED <<cvars, alarm, freed, ready, ret, mexit, result, child, kind,
                   sigchld, timer>>

(* The call was withdrawn since poll: ENOENT, which is not EINTR.  tracer()  *)
(* gives up and main() returns 1.                                            *)
MRecvFails ==
    /\ mpc = "recv" /\ "listener" \in ready /\ notif # "new"
    /\ ret' = "fail"
    /\ MonitorFails

(* A forbidden call ends the run whatever has become of its caller. *)
MForbid ==
    /\ mpc = "answer" /\ req = "forbid"
    /\ mpc' = "reap" /\ ret' = "fbd" /\ killed' = (killed \/ Alive)
    /\ UNCHANGED <<cvars, alarm, freed, ready, req, mexit, result, stage, pdeath,
                   pvars, ending, kernel>>

(* What the answered call does: setitimer arms the timer, execve starts the  *)
(* program; a program that goes on is still where it was.                    *)
StageAfter == [arming |-> "launching", launching |-> "program", program |-> "program"]

(* fs::absolute throws at an empty path, and nobody catches it: abort.  The   *)
(* path of a caller that has died meanwhile cannot be read and is empty too.  *)
MAborts ==
    /\ mpc = "answer" /\ (req = "void" \/ stage = "dead")
    /\ MonitorExit("signal")
    /\ UNCHANGED <<cvars, alarm, freed, ready, req, ret, result, stage, pdeath,
                   pvars, ending, kind, sigchld, timer>>

(* NOTIF_SEND: let it continue, or fail it with an error number. *)
MSend ==
    /\ mpc = "answer" /\ req \notin {"forbid", "void"} /\ notif = "taken"
    /\ mpc' = "poll" /\ notif' = "none"
    /\ stage' = StageAfter[stage]
    /\ UNCHANGED <<cvars, alarm, freed, ready, req, ret, mexit, result, pdeath,
                   pvars, ending, killed, kind, sigchld, timer>>

(* The call was withdrawn since RECV: ENOENT again. *)
MSendFails ==
    /\ mpc = "answer" /\ req \notin {"forbid", "void"} /\ notif # "taken"
    /\ ret' = "fail"
    /\ MonitorFails

(* A mutated Reapable: the wait does not block. *)
ReapableAtOnce == TRUE

Reapable == stage = "dead"

(* wait4 after tracer(): blocks until the child can be reaped. *)
MReap ==
    /\ mpc = "reap" /\ Reapable
    /\ mpc' = "write"
    /\ UNCHANGED <<cvars, alarm, freed, ready, req, ret, mexit, result, child, kernel>>

FullMonitor == MFork \/ MGrant \/ MAwait \/ MSetup \/ MResume \/ MPoll \/ MTimer
               \/ MSignal \/ MRecv \/ MRecvFails \/ MForbid \/ MAborts \/ MSend
               \/ MSendFails \/ MReap

=============================================================================
