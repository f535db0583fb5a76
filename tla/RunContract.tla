---------------------------- MODULE RunContract ----------------------------
(***************************************************************************)
(* What one sandboxed run promises to the judge that asked for it, with    *)
(* nothing of how the controller, the monitor and the kernel achieve it:   *)
(*                                                                         *)
(*   - the program does not run before it is released;                     *)
(*   - what is said of the program (time, memory, forbidden calls, its     *)
(*     end) only grows while it runs and is final once it has ended;       *)
(*   - a verdict other than "fail" is given once, after the program has    *)
(*     ended, and is one the recorded facts justify;                       *)
(*   - an abandoned run gets no verdict.                                   *)
(*                                                                         *)
(* lib/sandbox.py run() is the promise's owner; SandboxRun implements it.  *)
(***************************************************************************)
EXTENDS BoxVerdict

CONSTANT MaxCpu       \* bound: CPU time is counted up to here

VARIABLES
    phase,    \* "open" | "judged" | "dropped"
    free,     \* the program has been let go
    prog,     \* "waiting" | "running" | an ending
    used,     \* CPU time the program has used
    big,      \* its memory went above limit.memory
    asked,    \* it asked for a forbidden operation
    late,     \* the wall clock passed the hard limit
    broken,   \* the sandbox has failed
    verdict   \* "none" or a verdict

facts == <<prog, used, big, asked, late, broken>>
vars  == <<phase, free, facts, verdict>>

(* Which facts each verdict needs.  "re" also covers a program the sandbox *)
(* killed at its CPU limit before the limit showed in its accounted time.  *)
Justified(v) ==
    CASE v = "ok" -> prog = "exit0" /\ used <= TimeLimit /\ ~big
      [] v = "tl" -> late \/ used > TimeLimit \/ used >= BoxLimit \/ prog = "prof"
      [] v = "fb" -> asked
      [] v = "ml" -> big /\ used <= TimeLimit
      [] v = "ol" -> prog = "xfsz"
      [] v = "re" -> prog \in {"sig", "cpu", "exitN"}
      [] v = "fail" -> broken

Init ==
    /\ phase = "open" /\ free = FALSE /\ verdict = "none"
    /\ prog = "waiting" /\ used = 0
    /\ big = FALSE /\ asked = FALSE /\ late = FALSE /\ broken = FALSE

(* The run is let go; an abandoned run may be let go too, to flush it out. *)
Release ==
    /\ phase # "judged"
    /\ free' = TRUE
    /\ UNCHANGED <<phase, facts, verdict>>

(* The program starts, works, asks for something forbidden, or ends. *)
Progress ==
    /\ free
    /\ prog \in {"waiting", "running"}
    /\ prog' \in {"waiting", "running"} \cup Endings
    /\ prog = "running" => prog' # "waiting"
    /\ used' \in used .. MaxCpu
    /\ big' \in BOOLEAN /\ (big => big')
    /\ asked' \in BOOLEAN /\ (asked => asked')
    /\ UNCHANGED <<phase, free, late, broken, verdict>>

(* A program that never ran may be swept away. *)
Discard ==
    /\ prog = "waiting"
    /\ prog' = "sig"
    /\ UNCHANGED <<phase, free, used, big, asked, late, broken, verdict>>

(* The wall clock runs on after the program has ended: see Justified. *)
Expire ==
    /\ free
    /\ late' = TRUE
    /\ UNCHANGED <<phase, free, prog, used, big, asked, broken, verdict>>

Break ==
    /\ broken' = TRUE
    /\ UNCHANGED <<phase, free, prog, used, big, asked, late, verdict>>

Judge(v) ==
    /\ phase = "open"
    /\ Justified(v)
    /\ v # "fail" => free /\ prog \in Endings
    /\ phase' = "judged" /\ verdict' = v
    /\ UNCHANGED <<free, facts>>

Drop ==
    /\ phase = "open"
    /\ phase' = "dropped"
    /\ UNCHANGED <<free, facts, verdict>>

Next ==
    \/ Release \/ Progress \/ Discard \/ Expire \/ Break \/ Drop
    \/ \E v \in Verdicts : Judge(v)

Spec == Init /\ [][Next]_vars

=============================================================================
