------------------------ MODULE InteractiveRunProofs ------------------------
(***************************************************************************)
(* Proofs about run_interactive, for pipes and conversations of any        *)
(* length: the types, what sent can be lost while its reader is there,     *)
(* that neither side starts alone, whose doing a broken pipe is, that an   *)
(* interactor hears of the program's end, that an end is final, and that   *)
(* until both sides are gone somebody can always move.                     *)
(***************************************************************************)
EXTENDS InteractiveRun, TLAPS

(* Where run_interactive is says which sandboxes and relays there are.     *)
Stages ==
    /\ main = "box1" => \A s \in Sides : box[s] = "none" /\ relay[s] = "off"
    /\ main = "box2" => /\ box["prog"] = "halted" /\ box["inter"] = "none"
                        /\ \A s \in Sides : relay[s] = "off"
    /\ main \notin {"box1", "box2"} => \A s \in Sides : box[s] # "none"
    /\ main \notin {"box1", "box2"} /\ echo => \A s \in Sides : relay[s] # "off"
    /\ main = "go1" => box["prog"] = "halted"
    /\ main \in {"go1", "go2"} => box["inter"] = "halted"
    /\ ~echo => \A s \in Sides : relay[s] = "off"

(* How a side can have ended.                                              *)
Fates ==
    /\ \A s \in Sides : end[s] # "none" => box[s] = "ended"
    /\ PipeBlameIsFair

Control ==
    /\ echo \in BOOLEAN
    /\ main \in {"box1", "box2", "go1", "go2", "wait1", "wait2", "join1", "join2",
                 "done", "dropped"}
    /\ box \in [Sides -> {"none", "halted", "running", "ended"}]
    /\ end \in [Sides -> {"none", "ok", "re", "pipe", "tl", "cut"}]
    /\ relay \in [Sides -> {"off", "read", "hold", "done", "failed"}]

(* Messages: no more are on their way than have been sent, and while the   *)
(* reader is there no fewer.                                               *)
Counts ==
    /\ want \in [Sides -> {"think", "read", "write"}]
    /\ near \in [Sides -> 0 .. Cap] /\ far \in [Sides -> 0 .. Cap]
    /\ sent \in [Sides -> 0 .. MaxSent] /\ got \in [Sides -> Nat]
    /\ \A s \in Sides : want[s] = "write" => sent[s] < MaxSent
    /\ \A s \in Sides : got[Peer(s)] + near[s] + Held(s) + far[s] <= sent[s]
    /\ NothingLost

IInv == Control /\ Stages /\ Fates /\ Counts

(* There are two sides, each the other's peer.                             *)
LEMMA PeerFacts ==
  /\ \A s \in Sides : Peer(s) \in Sides /\ Peer(s) # s /\ Peer(Peer(s)) = s
  /\ \A s, r \in Sides : r = s \/ r = Peer(s)
  /\ Sides = {"prog", "inter"}
  BY DEF Sides, Peer

(* Before the first sandbox there is nothing to account for.               *)
LEMMA InitHolds == Init => IInv
  BY InteractiveAssumption, PeerFacts
  DEF Init, IInv, Control, Stages, Fates, Counts, PipeBlameIsFair, NothingLost, Held

-----------------------------------------------------------------------------
(* The places of the main thread, the boxes and the relays.                *)
LEMMA StepKeepsControl ==
  ASSUME Control, Stages, Fates, Next PROVE Control' /\ Stages' /\ Fates'
<1> USE PeerFacts DEF Control, Stages, Fates, PipeBlameIsFair
<1>1. CASE Start
  <2>1. CASE main = "box1"
    BY <1>1, <2>1 DEF Start, Starts, After, pipes
  <2>2. CASE main = "box2"
    BY <1>1, <2>2 DEF Start, Starts, After, pipes
  <2> QED
    BY <1>1, <2>1, <2>2 DEF Start, Starts
<1>2. CASE Cont
  <2>1. CASE main = "go1"
    BY <1>2, <2>1 DEF Cont, Frees, After, pipes
  <2>2. CASE main = "go2"
    BY <1>2, <2>2 DEF Cont, Frees, After, pipes
  <2> QED
    BY <1>2, <2>1, <2>2 DEF Cont, Frees
<1>3. CASE Wait
  BY <1>3 DEF Wait, Awaits, After, programs, pipes
<1>4. CASE Join
  BY <1>4 DEF Join, Joins, After, programs, pipes
<1>5. CASE Interrupt
  BY <1>5 DEF Interrupt, Frees, Awaits, Joins, programs, pipes
<1>6. ASSUME NEW s \in Sides, Sweep(s) PROVE Control' /\ Stages' /\ Fates'
  BY <1>6 DEF Sweep, pipes
<1>7. ASSUME NEW s \in Sides, NEW how \in {"ok", "re", "tl"}, box[s] = "running", Ends(s, how)
      PROVE  Control' /\ Stages' /\ Fates'
  BY <1>7 DEF Ends, pipes
<1>8. ASSUME NEW s \in Sides, Broken(s), Ends(s, "pipe") PROVE Control' /\ Stages' /\ Fates'
  <2>1. s = "inter" /\ box["prog"] = "ended" /\ box[s] = "running"
    BY <1>8 DEF Broken, Active, NoOneThere, HeldByMain, Peer
  <2> QED
    BY <1>8, <2>1 DEF Ends, pipes
<1>9. ASSUME NEW s \in Sides, Think(s) \/ Read(s) \/ Write(s)
      PROVE  Control' /\ Stages' /\ Fates'
  <2>1. UNCHANGED <<echo, main, box, end, relay>>
    BY <1>9 DEF Think, Read, Write
  <2> QED
    BY <2>1
<1>10. ASSUME NEW s \in Sides, Forward(s) PROVE Control' /\ Stages' /\ Fates'
  <2>1. UNCHANGED <<echo, main, box, end>> /\ relay[s] # "off"
    BY <1>10 DEF Forward, RelayRead, RelayEof, RelayWrite, programs
  <2>2. PICK r \in {"read", "hold", "done"} : relay' = [relay EXCEPT ![s] = r]
    BY <1>10 DEF Forward, RelayRead, RelayEof, RelayWrite
  <2> QED
    BY <2>1, <2>2
<1>13. ASSUME NEW s \in Sides, RelayFails(s) PROVE Control' /\ Stages' /\ Fates'
  <2>1. UNCHANGED <<echo, main, box, end>> /\ relay' = [relay EXCEPT ![s] = "failed"]
         /\ relay[s] # "off"
    BY <1>13 DEF RelayFails, programs
  <2> QED
    BY <2>1
<1>11. ASSUME NEW s \in Sides, Talk(s) PROVE Control' /\ Stages' /\ Fates'
  BY <1>7, <1>8, <1>9, <1>11 DEF Talk, Exit, Active, BrokenPipe
<1>12. ASSUME NEW s \in Sides, Overdue(s) PROVE Control' /\ Stages' /\ Fates'
  BY <1>7, <1>12 DEF Overdue, Active, Waiting
<1> QED
  BY <1>1, <1>2, <1>3, <1>4, <1>5, <1>6, <1>10, <1>11, <1>12, <1>13 DEF Next

-----------------------------------------------------------------------------
(* The messages.                                                           *)

(* Steps that move none, and bring back no side.                           *)
LEMMA CountsKept ==
  ASSUME Counts, UNCHANGED <<want, near, far, sent, got>>,
         \A s \in Sides : relay'[s] \in {"hold", "failed"} <=> relay[s] \in {"hold", "failed"},
         \A s \in Sides : box[s] = "ended" => box'[s] = "ended"
  PROVE  Counts'
  BY PeerFacts DEF Counts, NothingLost, Held

(* A step that takes a message from one place and puts it in the next.     *)
LEMMA BalanceKept ==
  ASSUME Counts, sent' = sent,
         want' \in [Sides -> {"think", "read", "write"}],
         \A r \in Sides : want'[r] = "write" => want[r] = "write",
         near' \in [Sides -> 0 .. Cap], far' \in [Sides -> 0 .. Cap],
         got' \in [Sides -> Nat],
         UNCHANGED box,
         \A r \in Sides : got'[Peer(r)] + near'[r] + Held(r)' + far'[r]
                           = got[Peer(r)] + near[r] + Held(r) + far[r]
  PROVE  Counts'
  BY PeerFacts DEF Counts, NothingLost

(* A message read leaves the pipe it was in for its reader's account.      *)
LEMMA ReadCounts ==
  ASSUME Control, Stages, Counts, NEW s \in Sides, Read(s) PROVE Counts'
<1> USE PeerFacts
<1>1. CASE Inbox(s) = 0
  BY <1>1 DEF Read, Counts, NothingLost, Held, pipes
<1>2. CASE Inbox(s) # 0
  <2>1. /\ got' = [got EXCEPT ![s] = @ + 1] /\ sent' = sent
        /\ want' = [want EXCEPT ![s] = "think"] /\ relay' = relay /\ box' = box
    BY <1>2 DEF Read
  <2>4. /\ got' \in [Sides -> Nat] /\ want' \in [Sides -> {"think", "read", "write"}]
        /\ got'[s] = got[s] + 1 /\ got'[Peer(s)] = got[Peer(s)]
        /\ \A r \in Sides : want'[r] = "write" => want[r] = "write"
    BY <2>1 DEF Counts
  <2>2. CASE echo
    <3>1. far' = [far EXCEPT ![Peer(s)] = @ - 1] /\ near' = near /\ far[Peer(s)] # 0
      BY <1>2, <2>2 DEF Read, Inbox
    <3>2. /\ far' \in [Sides -> 0 .. Cap]
          /\ far'[Peer(s)] = far[Peer(s)] - 1 /\ far'[s] = far[s]
      BY <3>1, InteractiveAssumption DEF Counts
    <3>3. \A r \in Sides : got'[Peer(r)] + near'[r] + Held(r)' + far'[r]
                             = got[Peer(r)] + near[r] + Held(r) + far[r]
      BY <2>1, <2>4, <3>1, <3>2 DEF Counts, Held
    <3> QED
      BY <2>1, <2>4, <3>1, <3>2, <3>3, BalanceKept DEF Counts
  <2>3. CASE ~echo
    <3>1. near' = [near EXCEPT ![Peer(s)] = @ - 1] /\ far' = far /\ near[Peer(s)] # 0
      BY <1>2, <2>3 DEF Read, Inbox
    <3>2. /\ near' \in [Sides -> 0 .. Cap]
          /\ near'[Peer(s)] = near[Peer(s)] - 1 /\ near'[s] = near[s]
      BY <3>1, InteractiveAssumption DEF Counts
    <3>3. \A r \in Sides : got'[Peer(r)] + near'[r] + Held(r)' + far'[r]
                             = got[Peer(r)] + near[r] + Held(r) + far[r]
      BY <2>1, <2>4, <3>1, <3>2 DEF Counts, Held
    <3> QED
      BY <2>1, <2>4, <3>1, <3>2, <3>3, BalanceKept DEF Counts
  <2> QED
    BY <2>2, <2>3
<1> QED
  BY <1>1, <1>2

(* A message written enters the pipe and its writer's account.             *)
LEMMA WriteCounts ==
  ASSUME Control, Counts, NEW s \in Sides, Write(s) PROVE Counts'
<1> USE PeerFacts
<1>1. /\ near' = [near EXCEPT ![s] = @ + 1] /\ sent' = [sent EXCEPT ![s] = @ + 1]
      /\ want' = [want EXCEPT ![s] = "think"] /\ near[s] < Cap /\ want[s] = "write"
      /\ UNCHANGED <<far, got, relay, box>>
  BY DEF Write, CanWrite, Active
<1> QED
  BY <1>1, InteractiveAssumption DEF Counts, NothingLost, Held, Control

(* A relay takes a message on without losing or repeating it while there   *)
(* is a reader.                                                            *)
LEMMA ForwardCounts ==
  ASSUME Control, Counts, NEW s \in Sides, Forward(s) PROVE Counts'
<1> USE PeerFacts
<1>1. CASE RelayRead(s)
  <2>1. /\ near' = [near EXCEPT ![s] = @ - 1] /\ relay' = [relay EXCEPT ![s] = "hold"]
        /\ relay[s] = "read" /\ near[s] > 0 /\ UNCHANGED <<want, far, sent, got, box>>
    BY <1>1 DEF RelayRead, programs
  <2>2. /\ near' \in [Sides -> 0 .. Cap]
        /\ near'[s] = near[s] - 1 /\ near'[Peer(s)] = near[Peer(s)]
    BY <2>1, InteractiveAssumption DEF Counts
  <2>3. /\ Held(s) = 0 /\ Held(s)' = 1
        /\ Held(Peer(s))' = Held(Peer(s)) /\ Held(Peer(s)) \in Nat
    BY <2>1 DEF Held, Control
  <2>4. \A r \in Sides : got'[Peer(r)] + near'[r] + Held(r)' + far'[r]
                           = got[Peer(r)] + near[r] + Held(r) + far[r]
    <3>1. got'[Peer(s)] + near'[s] + Held(s)' + far'[s]
            = got[Peer(s)] + near[s] + Held(s) + far[s]
      BY <2>1, <2>2, <2>3, InteractiveAssumption DEF Counts
    <3>2. got'[Peer(Peer(s))] + near'[Peer(s)] + Held(Peer(s))' + far'[Peer(s)]
            = got[Peer(Peer(s))] + near[Peer(s)] + Held(Peer(s)) + far[Peer(s)]
      BY <2>1, <2>2, <2>3
    <3> QED
      BY <3>1, <3>2
  <2> QED
    BY <2>1, <2>2, <2>4, BalanceKept DEF Counts
<1>2. CASE RelayEof(s)
  <2>1. /\ relay' = [relay EXCEPT ![s] = "done"] /\ relay[s] = "read"
        /\ UNCHANGED <<want, near, far, sent, got, box>>
    BY <1>2 DEF RelayEof, programs, pipes
  <2> QED
    BY <2>1, CountsKept DEF Control
<1>3. CASE RelayWrite(s) /\ box[Peer(s)] = "ended"
  <2>1. /\ relay' = [relay EXCEPT ![s] = "done"] /\ relay[s] = "hold"
        /\ UNCHANGED <<want, near, far, sent, got, box>>
    BY <1>3 DEF RelayWrite, programs
  <2> QED
    BY <1>3, <2>1 DEF Counts, NothingLost, Held, Control
<1>4. CASE RelayWrite(s) /\ box[Peer(s)] # "ended"
  <2>1. /\ relay' = [relay EXCEPT ![s] = "read"] /\ relay[s] = "hold"
        /\ far' = [far EXCEPT ![s] = @ + 1] /\ far[s] < Cap
        /\ UNCHANGED <<want, near, sent, got, box>>
    BY <1>4 DEF RelayWrite, programs
  <2> QED
    BY <2>1, InteractiveAssumption DEF Counts, NothingLost, Held, Control
<1> QED
  BY <1>1, <1>2, <1>3, <1>4 DEF Forward

(* A relay that fails keeps what it held.                                  *)
LEMMA FailureCounts ==
  ASSUME Control, Counts, NEW s \in Sides, RelayFails(s) PROVE Counts'
<1>1. /\ relay' = [relay EXCEPT ![s] = "failed"] /\ relay[s] = "hold"
      /\ UNCHANGED <<want, near, far, sent, got, box>>
  BY DEF RelayFails, programs, pipes
<1> QED
  BY <1>1, CountsKept DEF Control

(* Every step keeps the account of messages.                               *)
LEMMA StepKeepsCounts ==
  ASSUME Control, Stages, Counts, Next PROVE Counts'
<1> USE PeerFacts
<1>1. CASE Start \/ Cont
  <2>1. CASE Start
    BY <2>1, CountsKept DEF Start, Starts, Stages, Control, pipes
  <2>2. CASE Cont
    BY <2>2, CountsKept DEF Cont, Frees, Stages, Control, pipes
  <2> QED
    BY <1>1, <2>1, <2>2
<1>2. CASE Wait \/ Join \/ Interrupt
  BY <1>2, CountsKept DEF Wait, Join, Interrupt, programs, pipes
<1>3. ASSUME NEW s \in Sides, Sweep(s) PROVE Counts'
  BY <1>3, CountsKept DEF Sweep, Control, pipes
<1>4. ASSUME NEW s \in Sides, NEW how, Ends(s, how) PROVE Counts'
  BY <1>4, CountsKept DEF Ends, Control, pipes
<1>5. ASSUME NEW s \in Sides, Think(s) PROVE Counts'
  <2>1. PICK w \in {"read", "write"} :
           (w = "write" => sent[s] < MaxSent) /\ want' = [want EXCEPT ![s] = w]
    BY <1>5 DEF Think
  <2>2. UNCHANGED <<near, far, sent, got, relay, box>>
    BY <1>5 DEF Think, pipes
  <2> QED
    BY <2>1, <2>2 DEF Counts, NothingLost, Held, Control
<1>6. ASSUME NEW s \in Sides, Talk(s) PROVE Counts'
  BY <1>4, <1>5, <1>6, ReadCounts, WriteCounts DEF Talk, Exit, BrokenPipe
<1>7. ASSUME NEW s \in Sides, Overdue(s) PROVE Counts'
  BY <1>4, <1>7 DEF Overdue
<1> QED
  BY <1>1, <1>2, <1>3, <1>6, <1>7, ForwardCounts, FailureCounts DEF Next

(* Every step keeps IInv.                                                  *)
LEMMA NextHolds == IInv /\ [Next]_vars => IInv'
<1>1. CASE UNCHANGED vars
  BY <1>1 DEF vars, IInv, Control, Stages, Fates, Counts, PipeBlameIsFair, NothingLost, Held
<1>2. CASE Next
  BY <1>2, StepKeepsControl, StepKeepsCounts DEF IInv
<1> QED
  BY <1>1, <1>2

(* sandbox.py:180-247. What the safety theorems rest on holds throughout,  *)
(* for pipes and conversations of any length.                              *)
THEOREM Invariance == Spec => []IInv
  BY InitHolds, NextHolds, PTL DEF Spec

-----------------------------------------------------------------------------
(* Every variable of run_interactive stays in its type, whatever the pipes *)
(* hold and however much is said.                                          *)
THEOREM TypeCorrect == Spec => []TypeOK
<1>1. IInv => TypeOK
  <2> SUFFICES ASSUME IInv PROVE \A s \in Sides : got[s] \in 0 .. MaxSent
    BY DEF IInv, Control, Counts, TypeOK
  <2>1. TAKE s \in Sides
  <2>2. got[s] + near[Peer(s)] + Held(Peer(s)) + far[Peer(s)] <= sent[Peer(s)]
    BY PeerFacts DEF IInv, Counts
  <2> QED
    BY <2>2, PeerFacts, InteractiveAssumption DEF IInv, Counts, Held
<1> QED
  BY <1>1, Invariance, PTL

(* sandbox.py:30-53, 219-247.  While the reader is there, all a side has   *)
(* sent has been read or is on its way, directly or through the relay, but *)
(* for the one message a relay held that failed, after which none passes.  *)
THEOREM NothingIsLost == Spec => []NothingLost
<1>1. IInv => NothingLost
  BY DEF IInv, Counts
<1> QED
  BY <1>1, Invariance, PTL

(* sandbox.py:226-233.  No side runs before the other is there.            *)
THEOREM NoneStartsAlone == Spec => []NoSoloStart
<1>1. IInv => NoSoloStart
  BY PeerFacts DEF IInv, Control, Stages, NoSoloStart
<1> QED
  BY <1>1, Invariance, PTL

(* jury.py:211-213.  Only the interactor can die of a broken pipe, and     *)
(* only once the program has ended.                                        *)
THEOREM PipeBlameFair == Spec => []PipeBlameIsFair
<1>1. IInv => PipeBlameIsFair
  BY DEF IInv, Fates
<1> QED
  BY <1>1, Invariance, PTL

-----------------------------------------------------------------------------
(* What a step may never do.                                               *)

(* Where the controller holds none of its ends, a side whose peer has      *)
(* ended is not blocked: it reads an end of file or dies of SIGPIPE.       *)
LEMMA NotBlockedAlone ==
  ASSUME NEW s \in Sides, ~HeldByMain(s), box[Peer(s)] = "ended",
         want \in [Sides -> {"think", "read", "write"}]
  PROVE  ~Waiting(s)
<1>1. NoOneThere(s)
  BY DEF NoOneThere
<1> QED
  BY <1>1 DEF Waiting, CanRead, Broken, Active

(* sandbox.py:206-224.  Connected directly, an interactor that meets its   *)
(* wall clock while it waits was waiting for a program still there.        *)
THEOREM InteractorAlwaysHears == Spec => InteractorHears
<1>1. ASSUME IInv, [Next]_vars, ~echo, end["inter"] = "none", end'["inter"] = "tl",
             Waiting("inter")
      PROVE  box["prog"] # "ended"
  <2>1. ~HeldByMain("inter") /\ Peer("inter") = "prog" /\ "inter" \in Sides
    BY <1>1 DEF HeldByMain, Peer, Sides
  <2> QED
    BY <1>1, <2>1, NotBlockedAlone DEF IInv, Counts
<1>2. IInv /\ [Next]_vars =>
        [~echo /\ end["inter"] = "none" /\ end'["inter"] = "tl" /\ Waiting("inter")
           => box["prog"] # "ended"]_vars
  BY <1>1
<1> QED
  BY <1>2, Invariance, PTL DEF Spec, InteractorHears

(* A side that has ended says nothing more, takes nothing more, and keeps  *)
(* the end it had: a Ctrl-C or a wall clock that comes later changes none  *)
(* of what is judged.                                                      *)
EndsAreFinal ==
    [][\A s \in Sides : box[s] = "ended" =>
          UNCHANGED <<box[s], end[s], want[s], sent[s], got[s]>>]_vars

(* sandbox.py:235-247, jury.py:197-213.  Both runs are awaited one after   *)
(* the other, so the first may be judged by what was true long before:     *)
(* nothing that happens meanwhile can change its end or its messages.      *)
THEOREM EndsFinal == Spec => EndsAreFinal
<1>1. ASSUME IInv, Next, NEW s \in Sides, box[s] = "ended"
      PROVE  UNCHANGED <<box[s], end[s], want[s], sent[s], got[s]>>
  <2> USE <1>1, PeerFacts DEF IInv, Control, Stages, Counts
  <2>1. CASE Start
    BY <2>1 DEF Start, Starts, pipes
  <2>2. CASE Cont
    BY <2>2 DEF Cont, Frees, pipes
  <2>3. CASE Wait \/ Join \/ Interrupt
    BY <2>3 DEF Wait, Join, Interrupt, programs, pipes
  <2>4. ASSUME NEW r \in Sides, Sweep(r)
        PROVE  UNCHANGED <<box[s], end[s], want[s], sent[s], got[s]>>
    BY <2>4 DEF Sweep, pipes
  <2>5. ASSUME NEW r \in Sides, Think(r) \/ Read(r) \/ Write(r)
        PROVE  UNCHANGED <<box[s], end[s], want[s], sent[s], got[s]>>
    <3>1. r # s /\ UNCHANGED <<box, end>>
      BY <2>5 DEF Think, Read, CanRead, Write, CanWrite, Active
    <3>2. want'[s] = want[s]
      BY <2>5, <3>1 DEF Think, Read, Write
    <3>3. sent'[s] = sent[s] /\ got'[s] = got[s]
      BY <2>5, <3>1 DEF Think, Read, Write, pipes
    <3> QED
      BY <3>1, <3>2, <3>3
  <2>6. ASSUME NEW r \in Sides, NEW how, box[r] = "running", Ends(r, how)
        PROVE  UNCHANGED <<box[s], end[s], want[s], sent[s], got[s]>>
    BY <2>6 DEF Ends, pipes
  <2>7. ASSUME NEW r \in Sides, Talk(r) \/ Overdue(r)
        PROVE  UNCHANGED <<box[s], end[s], want[s], sent[s], got[s]>>
    BY <2>5, <2>6, <2>7
    DEF Talk, Exit, Active, BrokenPipe, Broken, Overdue, Waiting
  <2>8. ASSUME NEW r \in Sides, Forward(r)
        PROVE  UNCHANGED <<box[s], end[s], want[s], sent[s], got[s]>>
    BY <2>8 DEF Forward, RelayRead, RelayEof, RelayWrite, programs, pipes
  <2>9. ASSUME NEW r \in Sides, RelayFails(r)
        PROVE  UNCHANGED <<box[s], end[s], want[s], sent[s], got[s]>>
    BY <2>9 DEF RelayFails, programs, pipes
  <2> QED
    BY <2>1, <2>2, <2>3, <2>4, <2>7, <2>8, <2>9 DEF Next
<1>2. IInv /\ [Next]_vars =>
        [\A s \in Sides : box[s] = "ended" =>
           UNCHANGED <<box[s], end[s], want[s], sent[s], got[s]>>]_vars
  BY <1>1
<1> QED
  BY <1>2, Invariance, PTL DEF Spec, EndsAreFinal

-----------------------------------------------------------------------------
(* Nobody waits for ever.                                                  *)

(* How far run_interactive has come: whom it has let go, awaited, joined.  *)
Past ==
    /\ main \notin {"box1", "box2", "go1", "dropped"} =>
           box["prog"] \in {"running", "ended"}
    /\ main \notin {"box1", "box2", "go1", "go2", "dropped"} =>
           box["inter"] \in {"running", "ended"}
    /\ main \in {"wait2", "join1", "join2", "done"} => box["prog"] = "ended"
    /\ main \in {"join1", "join2", "done"} => box["inter"] = "ended"
    /\ main \in {"join1", "join2"} => echo
    /\ main \in {"join2", "done"} /\ echo => relay["prog"] \in Finished
    /\ main = "done" /\ echo => relay["inter"] \in Finished

(* The main thread's call returns.                                         *)
MainMoves ==
    \/ main \in DOMAIN Starts \cup DOMAIN Frees
    \/ main \in DOMAIN Awaits /\ box[Awaits[main]] = "ended"
    \/ main \in DOMAIN Joins /\ relay[Joins[main]] \in Finished

(* A side's transfer goes through, or its wall clock strikes it.           *)
SideMoves(s) == CanRead(s) \/ CanWrite(s) \/ Broken(s)
ClockStrikes(s) == Active(s, "think") \/ (Waiting(s) /\ \A r \in Sides : ~RelayMoves(r))
Swept(s) == main = "dropped" /\ box[s] \in {"halted", "running"}

SomebodyMoves ==
    ~AllOver => MainMoves \/ \E s \in Sides : \/ SideMoves(s) \/ ClockStrikes(s)
                                               \/ RelayMoves(s) \/ Swept(s)

(* At the start run_interactive has awaited nobody.                        *)
LEMMA PastHolds == Init => Past
  BY DEF Init, Past

(* Every step keeps what run_interactive has behind it.                    *)
LEMMA StepKeepsPast ==
  ASSUME Control, Stages, Past, [Next]_vars PROVE Past'
<1> USE PeerFacts DEF Control, Stages, Past, Finished
<1>1. CASE Start
  <2>1. CASE main = "box1"
    BY <1>1, <2>1 DEF Start, Starts, After
  <2>2. CASE main = "box2"
    BY <1>1, <2>2 DEF Start, Starts, After
  <2> QED
    BY <1>1, <2>1, <2>2 DEF Start, Starts
<1>2. CASE Cont
  <2>1. CASE main = "go1"
    BY <1>2, <2>1 DEF Cont, Frees, After
  <2>2. CASE main = "go2"
    BY <1>2, <2>2 DEF Cont, Frees, After
  <2> QED
    BY <1>2, <2>1, <2>2 DEF Cont, Frees
<1>3. CASE Wait
  <2>1. UNCHANGED <<echo, box, relay>> /\ main' = After(main)
    BY <1>3 DEF Wait, programs
  <2>2. CASE main = "wait1"
    BY <1>3, <2>1, <2>2 DEF Wait, Awaits, After
  <2>3. CASE main = "wait2"
    BY <1>3, <2>1, <2>3 DEF Wait, Awaits, After
  <2> QED
    BY <1>3, <2>2, <2>3 DEF Wait, Awaits
<1>4. CASE Join
  <2>1. UNCHANGED <<echo, box, relay>> /\ main' = After(main)
    BY <1>4 DEF Join, programs
  <2>2. CASE main = "join1"
    BY <1>4, <2>1, <2>2 DEF Join, Joins, After
  <2>3. CASE main = "join2"
    BY <1>4, <2>1, <2>3 DEF Join, Joins, After
  <2> QED
    BY <1>4, <2>2, <2>3 DEF Join, Joins
<1>5. CASE Interrupt
  BY <1>5 DEF Interrupt
<1>6. ASSUME NEW s \in Sides, Sweep(s) PROVE Past'
  BY <1>6 DEF Sweep
<1>7. ASSUME NEW s \in Sides, NEW how, box[s] = "running", Ends(s, how) PROVE Past'
  BY <1>7 DEF Ends
<1>8. ASSUME NEW s \in Sides, Think(s) \/ Read(s) \/ Write(s) PROVE Past'
  <2>1. UNCHANGED <<echo, main, box, relay>>
    BY <1>8 DEF Think, Read, Write
  <2> QED
    BY <2>1
<1>9. ASSUME NEW s \in Sides, Forward(s) PROVE Past'
  <2>1. UNCHANGED <<echo, main, box>> /\ relay[s] \in {"read", "hold"}
    BY <1>9 DEF Forward, RelayRead, RelayEof, RelayWrite, programs
  <2>2. PICK r \in {"read", "hold", "done"} : relay' = [relay EXCEPT ![s] = r]
    BY <1>9 DEF Forward, RelayRead, RelayEof, RelayWrite
  <2> QED
    BY <2>1, <2>2
<1>12. ASSUME NEW s \in Sides, RelayFails(s) PROVE Past'
  <2>1. UNCHANGED <<echo, main, box>> /\ relay[s] = "hold"
         /\ relay' = [relay EXCEPT ![s] = "failed"]
    BY <1>12 DEF RelayFails, programs
  <2> QED
    BY <2>1
<1>10. ASSUME NEW s \in Sides, Talk(s) \/ Overdue(s) PROVE Past'
  BY <1>7, <1>8, <1>10
  DEF Talk, Exit, Active, BrokenPipe, Broken, Overdue, Waiting
<1>11. CASE UNCHANGED vars
  BY <1>11 DEF vars
<1> QED
  BY <1>1, <1>2, <1>3, <1>4, <1>5, <1>6, <1>9, <1>10, <1>11, <1>12 DEF Next

(* sandbox.py:235-247. Wherever run_interactive is, the sides it has let   *)
(* go run or have ended, those it has awaited have ended, and the relays   *)
(* it has joined are done.                                                 *)
THEOREM PastAlways == Spec => []Past
<1>1. IInv /\ Past /\ [Next]_vars => Past'
  BY StepKeepsPast DEF IInv
<1> QED
  BY <1>1, PastHolds, Invariance, PTL DEF Spec

(* A side that runs is never without a way on: what it waits for comes,    *)
(* a relay is about to move, or its wall clock strikes.                    *)
LEMMA RunningMoves ==
  ASSUME NEW s \in Sides, box[s] = "running"
  PROVE  SideMoves(s) \/ ClockStrikes(s) \/ \E r \in Sides : RelayMoves(r)
<1>1. CASE want[s] = "think"
  BY <1>1 DEF ClockStrikes, Active
<1>2. CASE want[s] # "think"
  BY <1>2 DEF ClockStrikes, SideMoves, Waiting
<1> QED
  BY <1>1, <1>2

(* A relay whose two sides have ended comes to its end.                    *)
LEMMA RelayUnwinds ==
  ASSUME Control, Counts, NEW s \in Sides, relay[s] \in {"read", "hold"},
         \A r \in Sides : box[r] = "ended"
  PROVE  RelayMoves(s)
  BY PeerFacts DEF RelayMoves, Control

(* sandbox.py:180-247.  Whatever the two programs say, keep waiting for or *)
(* leave unread, run_interactive and what it has started never all wait    *)
(* for one another: until all of it is over, a call can return, a message  *)
(* can move, or a wall clock strikes.  (Fair steps all of them.)           *)
THEOREM NeverAllWait == Spec => []SomebodyMoves
<1>1. ASSUME IInv, Past, ~AllOver, ~MainMoves
      PROVE  \E s \in Sides : SideMoves(s) \/ ClockStrikes(s) \/ RelayMoves(s) \/ Swept(s)
  <2>1. main \in {"wait1", "wait2", "join1", "join2", "done", "dropped"}
    BY <1>1 DEF MainMoves, IInv, Control, Starts, Frees
  <2>2. CASE \E s \in Sides : box[s] = "running"
    BY <2>2, RunningMoves
  <2>3. CASE main = "dropped" /\ \E s \in Sides : box[s] = "halted"
    BY <2>3 DEF Swept
  <2>4. CASE /\ \A s \in Sides : box[s] # "running"
             /\ main = "dropped" => \A s \in Sides : box[s] # "halted"
    <3>1. \A s \in Sides : box[s] = "ended"
      BY <1>1, <2>1, <2>4, PeerFacts DEF IInv, Control, Stages, Past
    <3>2. main \notin {"wait1", "wait2"}
      BY <1>1, <3>1, PeerFacts DEF MainMoves, Awaits
    <3>3. PICK s \in Sides : relay[s] \in {"read", "hold"}
      BY <1>1, <2>1, <3>1, <3>2, PeerFacts
      DEF AllOver, MainMoves, Joins, Finished, IInv, Control, Stages, Past
    <3> QED
      BY <1>1, <3>1, <3>3, RelayUnwinds DEF IInv
  <2> QED
    BY <2>2, <2>3, <2>4
<1>2. IInv /\ Past => SomebodyMoves
  BY <1>1 DEF SomebodyMoves
<1> QED
  BY <1>2, Invariance, PastAlways, PTL

=============================================================================
