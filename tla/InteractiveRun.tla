--------------------------- MODULE InteractiveRun ---------------------------
(***************************************************************************)
(* A program and an interactor talking through pipes (lib/sandbox.py,      *)
(* run_interactive and relay): who holds which end of which pipe, the two  *)
(* relay threads of echo mode, and how both sides come to an end.          *)
(*                                                                         *)
(* Each side is a sandboxed run, taken here as RunContract leaves it: it   *)
(* starts halted, runs once let go, ends by itself or at its wall clock.   *)
(* Messages are counted, not told apart: a pipe keeps their order.         *)
(***************************************************************************)
EXTENDS Naturals

CONSTANTS Cap,       \* what a pipe holds
          MaxSent    \* bound: messages a side sends

ASSUME InteractiveAssumption == Cap \in Nat \ {0} /\ MaxSent \in Nat

Sides == {"prog", "inter"}
Peer(s) == IF s = "prog" THEN "inter" ELSE "prog"

VARIABLES
    echo,    \* userconf.UserInteractor.echo
    main,    \* where run_interactive is
    box,     \* each side's sandbox: "none" | "halted" | "running" | "ended"
    end,     \* how it ended: "none" | "ok" | "re" | "pipe" | "tl" | "cut"
    want,    \* what the side is doing: "think" | "read" | "write"
    near,    \* messages in the pipe at each side's stdout
    far,     \* messages in the pipe a relay writes them on to
    relay,   \* each side's relay: "off" | "read" | "hold" | "done" | "failed"
    sent,    \* messages each side has written
    got      \* messages each side has read

vars == <<echo, main, box, end, want, near, far, relay, sent, got>>
pipes == <<near, far, sent, got>>
programs == <<box, end, want>>

Init ==
    /\ echo \in BOOLEAN
    /\ main = "box1"
    /\ box = [s \in Sides |-> "none"] /\ end = [s \in Sides |-> "none"]
    /\ want = [s \in Sides |-> "think"]
    /\ near = [s \in Sides |-> 0] /\ far = [s \in Sides |-> 0]
    /\ relay = [s \in Sides |-> "off"]
    /\ sent = [s \in Sides |-> 0] /\ got = [s \in Sides |-> 0]

(***************************************************************************)
(* run_interactive.                                                        *)
(***************************************************************************)
Starts == [box1 |-> "prog", box2 |-> "inter"]
Frees  == [go1 |-> "prog", go2 |-> "inter"]
Awaits == [wait1 |-> "prog", wait2 |-> "inter"]
Joins  == [join1 |-> "prog", join2 |-> "inter"]

(* A mutated After: each side is let go as soon as it is there. *)
AfterEager(pc) ==
    CASE pc = "box1"  -> "go1"
      [] pc = "go1"   -> "box2"
      [] pc = "box2"  -> "go2"
      [] pc = "go2"   -> "wait1"
      [] pc = "wait1" -> "wait2"
      [] pc = "wait2" -> IF echo THEN "join1" ELSE "done"
      [] pc = "join1" -> "join2"
      [] pc = "join2" -> "done"

After(pc) ==
    CASE pc = "box1"  -> "box2"
      [] pc = "box2"  -> "go1"
      [] pc = "go1"   -> "go2"
      [] pc = "go2"   -> "wait1"
      [] pc = "wait1" -> "wait2"
      [] pc = "wait2" -> IF echo THEN "join1" ELSE "done"
      [] pc = "join1" -> "join2"
      [] pc = "join2" -> "done"

Start ==
    /\ main \in DOMAIN Starts
    /\ box' = [box EXCEPT ![Starts[main]] = "halted"]
    /\ relay' = IF echo /\ main = "box2" THEN [s \in Sides |-> "read"] ELSE relay
    /\ main' = After(main)
    /\ UNCHANGED <<echo, end, want, pipes>>

Cont ==
    /\ main \in DOMAIN Frees
    /\ box' = [box EXCEPT ![Frees[main]] = "running"]
    /\ main' = After(main)
    /\ UNCHANGED <<echo, end, want, pipes, relay>>

Wait ==
    /\ main \in DOMAIN Awaits
    /\ box[Awaits[main]] = "ended"
    /\ main' = After(main)
    /\ UNCHANGED <<echo, programs, pipes, relay>>

(* A relay's thread is over, at the end of its loop or out of it.          *)
Finished == {"done", "failed"}

Join ==
    /\ main \in DOMAIN Joins
    /\ relay[Joins[main]] \in Finished
    /\ main' = After(main)
    /\ UNCHANGED <<echo, programs, pipes, relay>>

(* Ctrl-C; what it may do to a sandbox that is still starting is the       *)
(* matter of SandboxRun.  Both sandboxes get SIGALRM.                      *)
Interrupt ==
    /\ main \in DOMAIN Frees \cup DOMAIN Awaits \cup DOMAIN Joins
    /\ main' = "dropped"
    /\ UNCHANGED <<echo, programs, pipes, relay>>

Sweep(s) ==
    /\ main = "dropped" /\ box[s] \in {"halted", "running"}
    /\ box' = [box EXCEPT ![s] = "ended"] /\ end' = [end EXCEPT ![s] = "cut"]
    /\ UNCHANGED <<echo, main, want, pipes, relay>>

(***************************************************************************)
(* The pipes.                                                              *)
(***************************************************************************)

(* Mutated HeldByMain: the interactor's ends are kept as well; the pipes   *)
(* are made for the interactor and handed to the program.                  *)
HeldAlways(s) == echo \/ s \in Sides
HeldOfInteractor(s) == echo \/ s = "inter"

(* Popen makes pipes for the first sandbox, and in echo mode for both, and *)
(* run_interactive never closes its own ends of them: it could still write *)
(* to the side's stdin and read from its stdout.                           *)
HeldByMain(s) == echo \/ s = "prog"


(* Nobody is left at the other end of s's pipes: end of file, or SIGPIPE.  *)
NoOneThere(s) == ~HeldByMain(s) /\ box[Peer(s)] = "ended"

Inbox(s) == IF echo THEN far[Peer(s)] ELSE near[Peer(s)]

Active(s, doing) == box[s] = "running" /\ want[s] = doing

Think(s) ==
    /\ Active(s, "think")
    /\ \E w \in {"read", "write"} :
          /\ w = "write" => sent[s] < MaxSent
          /\ want' = [want EXCEPT ![s] = w]
    /\ UNCHANGED <<echo, main, box, end, pipes, relay>>

Ends(s, how) ==
    /\ box' = [box EXCEPT ![s] = "ended"] /\ end' = [end EXCEPT ![s] = how]
    /\ UNCHANGED <<echo, main, want, pipes, relay>>

Exit(s) == Active(s, "think") /\ \E how \in {"ok", "re"} : Ends(s, how)

CanRead(s) == Active(s, "read") /\ (Inbox(s) > 0 \/ NoOneThere(s))

Read(s) ==
    /\ CanRead(s)
    /\ want' = [want EXCEPT ![s] = "think"]
    /\ IF Inbox(s) = 0 THEN UNCHANGED pipes
       ELSE /\ got' = [got EXCEPT ![s] = @ + 1]
            /\ IF echo THEN far' = [far EXCEPT ![Peer(s)] = @ - 1] /\ near' = near
               ELSE near' = [near EXCEPT ![Peer(s)] = @ - 1] /\ far' = far
            /\ sent' = sent
    /\ UNCHANGED <<echo, main, box, end, relay>>

CanWrite(s) == Active(s, "write") /\ near[s] < Cap /\ ~NoOneThere(s)

Write(s) ==
    /\ CanWrite(s)
    /\ near' = [near EXCEPT ![s] = @ + 1] /\ sent' = [sent EXCEPT ![s] = @ + 1]
    /\ want' = [want EXCEPT ![s] = "think"]
    /\ UNCHANGED <<echo, main, box, end, far, got, relay>>

Broken(s) == Active(s, "write") /\ NoOneThere(s)
BrokenPipe(s) == Broken(s) /\ Ends(s, "pipe")

(***************************************************************************)
(* relay.                                                                  *)
(***************************************************************************)
RelayRead(s) ==
    /\ relay[s] = "read" /\ near[s] > 0
    /\ near' = [near EXCEPT ![s] = @ - 1] /\ relay' = [relay EXCEPT ![s] = "hold"]
    /\ UNCHANGED <<echo, main, programs, far, sent, got>>

(* End of file: the side is gone, and run_interactive cannot write there.  *)
RelayEof(s) ==
    /\ relay[s] = "read" /\ near[s] = 0 /\ box[s] = "ended"
    /\ relay' = [relay EXCEPT ![s] = "done"]
    /\ UNCHANGED <<echo, main, programs, pipes>>

(* A mutated RelayWrite: the reader's end is not missed. *)
RelayWriteOn(s) ==
    /\ relay[s] = "hold" /\ far[s] < Cap
    /\ far' = [far EXCEPT ![s] = @ + 1] /\ relay' = [relay EXCEPT ![s] = "read"]
    /\ UNCHANGED <<echo, main, programs, near, sent, got>>

(* A mutated RelayWrite: what has been written is written again. *)
RelayWriteAgain(s) ==
    /\ relay[s] = "hold" /\ far[s] < Cap
    /\ far' = [far EXCEPT ![s] = @ + 1]
    /\ UNCHANGED <<echo, main, programs, relay, near, sent, got>>

RelayWrite(s) ==
    /\ relay[s] = "hold"
    /\ IF box[Peer(s)] = "ended"
       THEN relay' = [relay EXCEPT ![s] = "done"] /\ far' = far
       ELSE /\ far[s] < Cap
            /\ far' = [far EXCEPT ![s] = @ + 1]
            /\ relay' = [relay EXCEPT ![s] = "read"]
    /\ UNCHANGED <<echo, main, programs, near, sent, got>>

(* A mutated RelayFails: the exception is caught inside the loop. *)
RelayFailsOn(s) ==
    /\ relay[s] = "hold"
    /\ relay' = [relay EXCEPT ![s] = "read"]
    /\ UNCHANGED <<echo, main, programs, pipes>>

(* Showing what was read raises, on a closed standard output or for a      *)
(* letter it cannot encode, or writing it on does otherwise than by a      *)
(* broken pipe: the thread ends with what it has read.  Its reader is not  *)
(* told: run_interactive keeps the pipe to it open.                        *)
RelayFails(s) ==
    /\ relay[s] = "hold"
    /\ relay' = [relay EXCEPT ![s] = "failed"]
    /\ UNCHANGED <<echo, main, programs, pipes>>

RelayMoves(s) ==
    \/ relay[s] = "read" /\ (near[s] > 0 \/ box[s] = "ended")
    \/ relay[s] = "hold" /\ (far[s] < Cap \/ box[Peer(s)] = "ended")

(* The wall clock, a second and more, is long beside what a pipe needs: it *)
(* strikes a side that computes, or one that waits while no message moves. *)
Waiting(s) == box[s] = "running" /\ want[s] # "think"
                /\ ~CanRead(s) /\ ~CanWrite(s) /\ ~Broken(s)

Overdue(s) ==
    /\ Active(s, "think") \/ (Waiting(s) /\ \A r \in Sides : ~RelayMoves(r))
    /\ Ends(s, "tl")

-----------------------------------------------------------------------------
Talk(s) == Think(s) \/ Exit(s) \/ Read(s) \/ Write(s) \/ BrokenPipe(s)
Forward(s) == RelayRead(s) \/ RelayEof(s) \/ RelayWrite(s)

Next ==
    \/ Start \/ Cont \/ Wait \/ Join \/ Interrupt
    \/ \E s \in Sides : Sweep(s) \/ Talk(s) \/ Forward(s) \/ RelayFails(s) \/ Overdue(s)

Spec == Init /\ [][Next]_vars

(* The main thread and the relays go on while they can; a transfer that    *)
(* can happen happens; and a side that neither ends nor stays blocked      *)
(* meets its wall clock, which the monitor and the kernel keep.  Nothing   *)
(* is asked of what the programs choose to do.                             *)
Fairness ==
    /\ WF_vars(Start \/ Cont \/ Wait \/ Join)
    /\ \A s \in Sides : /\ WF_vars(Forward(s)) /\ WF_vars(Sweep(s))
                        /\ WF_vars(Read(s)) /\ WF_vars(Write(s)) /\ WF_vars(BrokenPipe(s))
                        /\ SF_vars(Overdue(s))

FairSpec == Spec /\ Fairness

-----------------------------------------------------------------------------
(* Properties.                                                             *)

(* The types of run_interactive's places, the pipes and the relays.        *)
TypeOK ==
    /\ echo \in BOOLEAN
    /\ main \in {"box1", "box2", "go1", "go2", "wait1", "wait2", "join1", "join2",
                 "done", "dropped"}
    /\ box \in [Sides -> {"none", "halted", "running", "ended"}]
    /\ end \in [Sides -> {"none", "ok", "re", "pipe", "tl", "cut"}]
    /\ want \in [Sides -> {"think", "read", "write"}]
    /\ near \in [Sides -> 0 .. Cap] /\ far \in [Sides -> 0 .. Cap]
    /\ relay \in [Sides -> {"off", "read", "hold", "done", "failed"}]
    /\ sent \in [Sides -> 0 .. MaxSent] /\ got \in [Sides -> 0 .. MaxSent]

(* Between two sides that are there a message is lost only by a relay that *)
(* fails, only the one it held, and nothing behind it gets past: all else  *)
(* a side has sent has been read or is on its way, in a pipe or at the     *)
(* relay.                                                                  *)
Held(s) == IF relay[s] \in {"hold", "failed"} THEN 1 ELSE 0
NothingLost ==
    \A s \in Sides : box[Peer(s)] # "ended" =>
        sent[s] = got[Peer(s)] + near[s] + Held(s) + far[s]

(* Neither side runs, and no wall clock starts, before both are there and  *)
(* their pipes connected: otherwise the first would talk to nobody.        *)
NoSoloStart ==
    \A s \in Sides : box[s] = "running" =>
        box[Peer(s)] # "none" /\ (echo => \A r \in Sides : relay[r] # "off")

(* jury.py:211-213 blames the program when the interactor dies of SIGPIPE: *)
(* it "ended before it had read all the interactor's output".  So it had.  *)
PipeBlameIsFair ==
    \A s \in Sides : end[s] = "pipe" => s = "inter" /\ box["prog"] = "ended"

(* Connected directly, an interactor never waits for a program that has    *)
(* ended: it learns of the end, and is not called overdue for it.          *)
InteractorHears ==
    [][~echo /\ end["inter"] = "none" /\ end'["inter"] = "tl" /\ Waiting("inter")
         => box["prog"] # "ended"]_vars

(* run_interactive comes back whatever the two do, deadlock included, and  *)
(* leaves neither a side nor a relay behind, interrupted or not, also when *)
(* a relay fails and the two no longer hear each other.                    *)
AllOver == /\ main \in {"done", "dropped"}
           /\ \A s \in Sides : box[s] = "ended" /\ relay[s] \in {"off"} \cup Finished
Returns == <>AllOver

(* The documentation of the problem types: without echo the two are        *)
(* connected by pipes directly, so neither would wait for a peer that has  *)
(* ended.  run_interactive keeps the program's ends open itself.           *)
DirectlyConnected ==
    [][\A s \in Sides :
         ~echo /\ end[s] = "none" /\ end'[s] = "tl" /\ Waiting(s)
           => box[Peer(s)] # "ended"]_vars

=============================================================================
