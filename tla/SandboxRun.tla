---------------------------- MODULE SandboxRun ----------------------------
(***************************************************************************)
(* One sandboxed run, as three processes and a kernel:                     *)
(*                                                                         *)
(*   controller  lib/sandbox.py: run(), Sandbox.start/cont/wait/close      *)
(*   monitor     src/sandbox.cpp or, for a trusted program,                *)
(*               src/sandbox-tiny.cpp: main() after fork, and tracer()     *)
(*   child       the same file: main() in the child, then the program      *)
(*                                                                         *)
(* They meet through job control (the child stops itself, the monitor      *)
(* stops itself, each is continued by its parent), a seccomp listener on   *)
(* which the child's calls wait for the monitor, a signalfd that holds at  *)
(* most one SIGCHLD, a wall-clock timerfd - or, in the fast sandbox, by    *)
(* wait4 and SIGALRM alone -, SIGKILL, the parent-death signal, the        *)
(* monitor's exit status and the result file.  The user may press Ctrl-C   *)
(* once, at any point of the controller.                                   *)
(***************************************************************************)
EXTENDS SandboxMonitor, SandboxTiny

CONSTANTS ChildSlack,  \* TIMER_REDUNDANCY_CHILD: ITIMER_PROF is that much later
          RlimitCpu,   \* RLIMIT_CPU: the limit rounded up to whole seconds
          MaxPre,      \* most CPU time the child uses before it stops itself
          MaxCpu       \* bound: no program outlives this much CPU time

ASSUME CpuAssumption ==
    /\ ChildSlack \in Nat /\ RlimitCpu \in Nat /\ MaxPre \in Nat /\ MaxCpu \in Nat
    /\ BoxLimit <= RlimitCpu

Init ==
    /\ cpc = "popen" /\ safe = FALSE /\ early = FALSE
    /\ verdict = "none" /\ intr = "none" /\ trust \in BOOLEAN
    /\ mpc = "boot" /\ alarm = "none" /\ ready = {} /\ req = "none"
    /\ ret = "none" /\ mexit = "none" /\ result = "short"
    /\ stage = "none" /\ pdeath = FALSE /\ pre = 0 /\ used = 0
    /\ big = FALSE /\ asked = FALSE /\ timers \in (IF trust THEN {FALSE} ELSE BOOLEAN)
    /\ ending = "none" /\ killed = FALSE
    /\ notif = "none" /\ kind = "allow" /\ sigchld = "none" /\ timer = "off"
    /\ freed = FALSE

-----------------------------------------------------------------------------
(* The child, and the kernel acting on it. *)

(* A mutated DeathSignal: the parent-death signal is not asked for. *)
NoDeathSignal == FALSE

DeathSignal == TRUE

(* prctl(PR_SET_PDEATHSIG): a monitor that is already dead sends nothing. *)
KGuard ==
    /\ stage = "forked"
    /\ stage' = "guarded" /\ pdeath' = DeathSignal
    /\ UNCHANGED <<cvars, mvars, alarm, freed, pvars, ending, killed, kernel>>

KPrepare ==
    /\ stage = "guarded" /\ pre < MaxPre
    /\ pre' = pre + 1
    /\ UNCHANGED <<cvars, mvars, alarm, freed, stage, pdeath, used, big, asked,
                   timers, ending, killed, kernel>>

(* The listener is sent to the monitor, if there is one, then SIGSTOP. *)
KHalt ==
    /\ stage = "guarded" /\ (trust \/ mpc # "exited")
    /\ stage' = "halted"
    /\ UNCHANGED <<cvars, mvars, alarm, freed, pdeath, pvars, ending, killed, kernel>>

(* With the monitor gone, sendmsg raises SIGPIPE. *)
KBrokenPipe ==
    /\ ~trust /\ stage = "guarded" /\ mpc = "exited"
    /\ ChildEnds("sig")

(* Continued: the kernel tells the parent of it before the child's next     *)
(* instruction.                                                             *)
KResume ==
    /\ stage = "resumed"
    /\ stage' = IF trust THEN "launching" ELSE "arming"
    /\ PostSigchld("cont")
    /\ UNCHANGED <<cvars, mvars, alarm, freed, pdeath, pvars, ending, killed,
                   notif, kind, timer>>

(* A trapped call: setitimer, execve, or one of the program's. *)
KCall ==
    /\ ~trust /\ Executing /\ mpc # "exited"
    /\ notif' = "new"
    /\ kind' \in IF stage = "program" THEN Kinds ELSE {"allow"}
    /\ asked' = (asked \/ kind' = "forbid")
    /\ UNCHANGED <<cvars, mvars, alarm, freed, stage, pdeath, pre, used, big,
                   timers, ending, killed, sigchld, timer>>

(* CPU time is counted in units that two system calls do not fill: what the  *)
(* child uses between its continuation and execve does not show.             *)
KBurn ==
    /\ Executing /\ stage = "program" /\ used < MaxCpu
    /\ used' = used + 1
    /\ UNCHANGED <<cvars, mvars, alarm, freed, stage, pdeath, pre, big, asked,
                   timers, ending, killed, kernel>>

KGrow ==
    /\ Executing /\ stage = "program" /\ ~big
    /\ big' = TRUE
    /\ UNCHANGED <<cvars, mvars, alarm, freed, stage, pdeath, pre, used, asked,
                   timers, ending, killed, kernel>>

(* The program returns, calls exit, or dies of its own signal; a failed      *)
(* execv is the same to the monitor: return 128.                            *)
KEnd ==
    /\ Executing /\ stage = "program"
    /\ \E how \in {"exit0", "exitN", "sig", "xfsz"} : ChildEnds(how)

(* ITIMER_PROF runs out.  Like RLIMIT_CPU it is acted on when the program    *)
(* returns to user mode, so that neither interrupts a waiting call.          *)
KProf ==
    /\ ~trust /\ Executing /\ stage = "program" /\ used >= BoxLimit + ChildSlack
    /\ ChildEnds("prof")

(* RLIMIT_CPU: the hard limit equals the soft one, so it is SIGKILL, and it  *)
(* counts the time before the stop too.                                      *)
KRlimit ==
    /\ Executing /\ stage = "program" /\ pre + used >= RlimitCpu
    /\ ChildEnds("cpu")

(* A real-time timer of the program's own fires while its call waits.  The   *)
(* call is withdrawn; a handler may run, or the signal kills.                *)
KOwnSignalHandled ==
    /\ timers /\ stage = "program" /\ notif # "none"
    /\ notif' = "none"
    /\ UNCHANGED <<cvars, mvars, alarm, freed, child, kind, sigchld, timer>>

KOwnSignalKills ==
    /\ timers /\ stage = "program" /\ notif # "none"
    /\ ChildEnds("sig")

(* SIGKILL is delivered. *)
KKilled ==
    /\ killed /\ Alive
    /\ ChildEnds("sig")

KTimer ==
    /\ ~trust /\ timer = "armed"
    /\ timer' = "fired"
    /\ UNCHANGED <<cvars, mvars, alarm, freed, child, notif, kind, sigchld>>

Child == KGuard \/ KPrepare \/ KHalt \/ KBrokenPipe \/ KResume \/ KCall \/ KBurn
         \/ KGrow \/ KEnd \/ KProf \/ KRlimit
         \/ KOwnSignalHandled \/ KOwnSignalKills \/ KExec \/ KPause

Monitor == FullMonitor \/ TinyMonitor \/ MStop \/ MWrite \/ MLeave

Next ==
    \/ Controller \/ CInterrupt
    \/ Monitor \/ MBootFails \/ MGrantFails \/ MSetupFails
    \/ Child \/ KKilled \/ KTimer \/ TTimer

(* The operating system runs every process that can run, delivers SIGKILL,  *)
(* and lets the wall clock advance.  Nothing is asked of the program, of the *)
(* user, or of the calls that may fail.                                      *)
Fairness ==
    /\ WF_vars(Controller) /\ WF_vars(Monitor)
    /\ WF_vars(KGuard \/ KHalt \/ KBrokenPipe \/ KResume)
    /\ WF_vars(KKilled) /\ WF_vars(KTimer \/ TTimer)

Spec == Init /\ [][Next]_vars

FairSpec == Spec /\ Fairness

-----------------------------------------------------------------------------
(* Properties. *)

ControllerTypes ==
    /\ cpc \in Sources \cup {"judged", "lost", "close", "grace", "except", "aborted"}
    /\ safe \in BOOLEAN /\ early \in BOOLEAN
    /\ verdict \in Verdicts \cup {"none"} /\ intr \in Sources \cup {"none"}
    /\ trust \in BOOLEAN

MonitorTypes ==
    /\ mpc \in {"boot", "grant", "await", "selfstop", "stopped", "setup", "resume",
                "poll", "timer", "signal", "recv", "answer", "reap", "write", "leave",
                "exited", "handler", "arm", "trace", "told"}
    /\ alarm \in {"none", "pending", "taken"} /\ ready \in SUBSET Fds /\ req \in Kinds \cup {"none"}
    /\ ret \in TraceResults \cup TinyResults /\ mexit \in {"none", "0", "1", "signal"}
    /\ result \in {"short", "whole"}

ChildTypes ==
    /\ stage \in {"none", "forked", "guarded", "halted", "resumed", "arming",
                  "launching", "program", "paused", "dead"}
    /\ pdeath \in BOOLEAN /\ pre \in 0 .. MaxPre /\ used \in 0 .. MaxCpu
    /\ big \in BOOLEAN /\ asked \in BOOLEAN /\ timers \in BOOLEAN
    /\ ending \in Endings \cup {"none"} /\ killed \in BOOLEAN

KernelTypes ==
    /\ notif \in {"none", "new", "taken"} /\ kind \in Kinds
    /\ sigchld \in {"none", "cont", "exit"} /\ timer \in {"off", "armed", "fired"}
    /\ freed \in BOOLEAN

(* The type invariant: every variable stays in its set; among others the    *)
(* controller never reports a verdict the judge does not know.              *)
TypeOK == ControllerTypes /\ MonitorTypes /\ ChildTypes /\ KernelTypes

(* Not one instruction of the contestant's program before the controller    *)
(* lets the monitor go: two parties must stop, each in its own time, and a   *)
(* SIGCONT that comes too early must not count.  An interactor that is not   *)
(* there yet depends on it.  And no program runs unwatched: the wall clock    *)
(* over it has been started, or is started by the next step of the fast      *)
(* sandbox's monitor, or the monitor's death is about to kill it.            *)
NeverUnwatched ==
    stage \in {"arming", "launching", "program"} =>
        freed /\ (timer # "off" \/ mpc = "arm" \/ killed)

(* No exit is lost.  SIGCHLD has one slot, which the child's continuation    *)
(* uses first; an exit that found it full would be dropped, and a finished   *)
(* program would be called overdue a second later.                           *)
ExitNoticed == mpc = "poll" /\ stage = "dead" => sigchld = "exit"

(* A verdict about the program comes from a monitor that saw the run to its   *)
(* end: it left with status 0 and a whole result file.  Either alone proves   *)
(* nothing.  The status is 0 although the disk was full, as the file is never *)
(* checked; and it is told as 0 when start() has reaped a monitor that failed *)
(* before its stop.                                                          *)
VerdictReported == verdict \notin {"none", "fail"} => result = "whole" /\ mexit = "0"

(* A verdict about the program is given only once the program is gone: its   *)
(* output files are final when the checker opens them.  In the fast sandbox  *)
(* it may have stopped itself instead, and be about to die of its monitor's  *)
(* death.                                                                    *)
VerdictAfterDeath ==
    verdict \notin {"none", "fail"} =>
        stage = "dead" \/ (trust /\ stage = "paused" /\ killed)

(* The monitor did not leave a short file behind an exit status of 0.        *)
Written == mexit = "0" => result = "whole"

(* A program that does nothing the monitor is known to stumble over: it sets *)
(* no timers and opens no empty path.                                        *)
Honest == ~timers /\ kind # "void"

(* An honest program the kernel killed for its CPU time gets "tl", unless it *)
(* was also caught asking for a forbidden call, if its result could be       *)
(* written.                                                                  *)
CpuKillIsTl ==
    Honest /\ Written /\ verdict # "none" /\ ending \in {"prof", "cpu"}
        => verdict \in {"tl", "fb"}

(* A program that was let go and died of a signal nobody sent it from outside *)
(* gets a verdict about itself, whatever the monitor was doing with its calls, *)
(* if its result could be written.                                           *)
OwnDeathJudged ==
    Written /\ verdict # "none" /\ freed /\ ending = "sig" /\ ~killed => verdict # "fail"

(* So it is for honest programs. *)
HonestDeathJudged == Honest => OwnDeathJudged

(* An honest program gets what it earned, if its result could be written.  If *)
(* it died of its own signal it is told so; if it ended well and within its   *)
(* limits, and the wall clock had not run out, it is told "ok".              *)
HonestIsJudged ==
    /\ HonestDeathJudged
    /\ Honest /\ Written /\ verdict # "none" /\ ending = "exit0" /\ used <= TimeLimit
          /\ ~big /\ ~asked /\ timer # "fired"
          => verdict = "ok"

(* What the judge can see of the run, and of the program. *)
AbsPhase == IF cpc = "judged" THEN "judged"
            ELSE IF intr # "none" THEN "dropped" ELSE "open"

(* In the fast sandbox a program that stopped itself has come to its end, and *)
(* SIGXFSZ is a signal like any other.                                       *)
AbsProg == CASE stage = "paused"  -> "sig"
             [] stage = "dead"    -> IF trust /\ ending = "xfsz" THEN "sig" ELSE ending
             [] stage = "program" -> "running"
             [] OTHER             -> "waiting"

(* The sandbox has failed: its monitor is gone, by its own exit or by a      *)
(* signal, or its status is 0 but what it left cannot be read.               *)
Failed == mexit # "none" /\ ~(mexit = "0" /\ result = "whole")

Contract == INSTANCE RunContract WITH
    phase <- AbsPhase, free <- freed, prog <- AbsProg,
    late <- (timer = "fired"), broken <- Failed

(* The run keeps the promise of RunContract. *)
KeepsContract == Contract!Spec

(* Every run that is not interrupted is judged: no lost signal, no unanswered *)
(* call and no program, however it behaves, can keep the judge waiting.       *)
EveryRunJudged == <>(cpc = "judged" \/ intr # "none")

Gone == mpc = "exited" /\ ~Alive

(* Nothing is left behind by a run that was judged, even one the monitor gave *)
(* up on while the program was still running, or before its child had asked   *)
(* for the parent-death signal; nor by one interrupted once start() had       *)
(* returned.                                                                  *)
LeavesNothing == (cpc = "judged" \/ intr \in {"ready", "wait", "read"}) ~> Gone

(* sandbox.cpp:613: the monitor stops to wait for a further instruction, so   *)
(* one must come.                                                             *)
InstructionComes == mpc = "stopped" ~> mpc # "stopped"

-----------------------------------------------------------------------------
(* Why the safety properties hold: the inductive invariant.                  *)

BeforeStop == {"boot", "handler", "grant", "await", "selfstop", "stopped"}
Looping == {"poll", "timer", "signal", "recv", "answer"}
Closing == {"reap", "write", "leave"}
Tracing == {"arm", "trace", "told"}
Let == {"resumed", "arming", "launching", "program"}

(* Each of the two sandboxes has its own places. *)
Apart ==
    IF trust
    THEN /\ mpc \notin {"grant", "resume", "reap"} \cup Looping
         /\ stage # "arming" /\ notif = "none" /\ kind = "allow" /\ sigchld = "none"
         /\ ready = {} /\ ~asked /\ ~timers /\ ending # "prof"
         /\ ret \in TinyResults \cup {"none"}
    ELSE /\ mpc \notin {"handler"} \cup Tracing
         /\ stage # "paused" /\ alarm # "taken" /\ ret \in TraceResults

(* The two stops: which stages of the child go with which of the monitor.    *)
(* Only a SIGALRM, after which nobody continues the monitor, breaks in.      *)
Handshake ==
    /\ mpc = "boot" => stage = "none"
    /\ stage = "none" => mpc \in {"boot", "exited"}
    /\ mpc \in {"handler", "grant"} => stage \in {"forked", "guarded", "halted"}
    /\ mpc = "await" => stage \in {"forked", "guarded", "halted"} \/ alarm = "taken"
    /\ mpc \in {"selfstop", "stopped"} => stage = "halted" \/ alarm = "taken"
    /\ mpc \in {"selfstop", "stopped"} => stage \in {"forked", "guarded", "halted", "dead"}
    /\ mpc \in {"setup", "resume"} => stage = "halted" \/ (trust /\ stage = "dead")
    /\ mpc \in BeforeStop => ~freed
    /\ mpc \in {"setup", "resume"} \cup Looping \cup Closing \cup Tracing => freed
    /\ mpc \in Looping \cup Closing \cup Tracing => stage \in Let \cup {"paused", "dead"}
    /\ mpc = "told" \/ (trust /\ mpc \in Closing) => stage \in {"paused", "dead"}
    /\ stage \in Let \cup {"paused"} => freed
    /\ stage \in Let \cup {"paused"}
          => mpc \in Looping \cup Closing \cup Tracing \cup {"exited"}

(* The child cannot outlive the monitor, and is killed by nobody while the   *)
(* full sandbox's monitor still waits for its calls.                         *)
Leash ==
    /\ stage \in {"guarded", "halted", "paused"} \cup Let => pdeath
    /\ mpc = "exited" /\ stage \in {"paused"} \cup Let => killed
    /\ mpc = "exited" /\ stage = "halted" => killed \/ trust
    /\ killed /\ ~trust => mpc \in Closing \cup {"exited"}
    /\ mpc \in {"resume", "trace", "told"} \cup Looping \cup Closing => timer # "off"
    /\ mpc \in BeforeStop \cup {"setup", "arm"} => timer = "off"

(* Where the monitor's decisions come from. *)
Ledger ==
    /\ timer # "off" => freed
    /\ ret = "overdue" \/ alarm = "taken" => timer = "fired" \/ intr # "none"
    /\ "timer" \in ready => timer = "fired"
    /\ ret = "overdue" /\ ~trust => timer = "fired"
    /\ ret = "fbd" \/ req = "forbid" \/ (notif # "none" /\ kind = "forbid") => asked
    /\ ending = "prof" => used >= BoxLimit + ChildSlack
    /\ ending = "cpu" => pre + used >= RlimitCpu
    /\ mexit = "1" /\ ret # "fail" =>
          /\ stage \in {"none", "forked", "guarded", "halted", "dead"}
          /\ stage = "dead" => ending = "sig" /\ (freed => killed)
          /\ freed /\ stage # "dead" => killed

(* What the fast sandbox's tracer says of the child is so. *)
Decoding ==
    /\ ret = "tle" => used > BoxLimit
    /\ ret = "mle" => big
    /\ ret \in {"exit0", "exitN"} => ending = ret
    /\ ret = "sig" => stage = "paused" \/ ending \in {"sig", "cpu", "xfsz"}
    /\ trust /\ mpc \in {"told"} \cup Closing => ret # "none"
    /\ trust /\ mexit = "0" => ret # "none"

(* Without timers of its own, a program that waits for an answer keeps       *)
(* waiting, so that the listener has what poll saw on it.                    *)
Patience ==
    ~timers =>
        /\ ret # "fail"
        /\ mpc \in {"timer", "signal", "recv"} /\ "listener" \in ready => notif = "new"
        /\ mpc = "answer" => notif = "taken" /\ req = kind

(* One trapped call at a time, and only from a child that runs. *)
Calls ==
    /\ notif # "none" => stage \in {"arming", "launching", "program"} /\ mpc # "exited"
    /\ mpc \in BeforeStop \cup {"setup", "resume"} => ready = {}
    /\ stage = "resumed" => "listener" \notin ready /\ sigchld = "none"
    /\ mpc = "answer" => stage # "resumed"
    /\ mpc \in {"setup", "resume"} \cup BeforeStop => sigchld = "none"
    /\ kind # "allow" => stage \in {"program", "dead"}

(* The continuation's SIGCHLD leaves the slot before the child's first call  *)
(* is answered, so that the exit finds it free.                              *)
Slot ==
    /\ mpc \in Looping /\ sigchld = "cont" => stage = "arming"
    /\ mpc \in Looping /\ stage = "dead" => sigchld = "exit"
    /\ mpc \in Looping /\ sigchld = "exit" => stage = "dead"
    /\ mpc \in {"timer", "signal"} /\ sigchld = "cont" /\ "listener" \in ready
          => "signal" \in ready
    /\ mpc = "recv" /\ "listener" \in ready => sigchld # "cont"
    /\ mpc = "answer" => sigchld # "cont"

(* SIGALRM comes from the wall clock or after Ctrl-C, and then after the last *)
(* SIGCONT.  A child killed before the monitor's stop is one it killed.      *)
Alarms ==
    /\ mpc \in {"boot", "handler"} => alarm = "none"
    /\ killed /\ mpc \in BeforeStop => alarm = "taken"
    /\ alarm = "pending" => intr # "none"
    /\ mexit = "signal" => intr # "none" \/ ~Honest
    /\ mpc \in BeforeStop /\ alarm # "none" => cpc \in {"except", "aborted"}

(* The result file, the exit status and what the controller makes of them. *)
Outcome ==
    /\ mexit = "none" <=> mpc # "exited"
    /\ result = "whole" => mpc \in {"leave", "exited"}
    /\ result = "whole" \/ mexit = "0" \/ mpc \in {"write", "leave"}
          => freed /\ stage \in {"dead", "paused"} /\ ret # "fail"
    /\ cpc \in {"popen", "start"} \/ early => ~freed
    /\ ret = "fail" => mexit = "1"
    /\ mpc \in BeforeStop \cup {"setup", "resume", "arm", "trace"} \cup Looping => ret = "none"
    /\ mpc \in Closing => ret # "fail"
    /\ stage = "dead" <=> ending # "none"
    /\ early => mpc = "exited"
    /\ cpc = "read" => mpc = "exited" /\ (early \/ mexit = "0")
    /\ intr # "none" => cpc \in {"lost", "close", "grace", "except", "aborted"}
    /\ cpc \in {"lost", "close", "grace", "except", "aborted"} => intr # "none"
    /\ verdict # "none" <=> cpc = "judged"
    /\ verdict \notin {"none", "fail"}
          => result = "whole" /\ mexit = "0" /\ verdict = Classify(Report)
    /\ verdict = "fail" => Failed

IInv == TypeOK /\ Apart /\ Handshake /\ Leash /\ Ledger /\ Decoding /\ Patience
        /\ Calls /\ Slot /\ Alarms /\ Outcome

=============================================================================
