-------------------------- MODULE RunContractProofs --------------------------
(***************************************************************************)
(* What follows from the promise of RunContract alone, whoever keeps it:   *)
(* no program runs before its release, what is final stays final, and a    *)
(* verdict is justified not only when it is given but ever after.  An      *)
(* implementation has these from its refinement (SandboxRunProofs).        *)
(***************************************************************************)
EXTENDS RunContract, TLAPS

TypeOK ==
    /\ phase \in {"open", "judged", "dropped"} /\ free \in BOOLEAN
    /\ prog \in {"waiting", "running"} \cup Endings
    /\ used \in Nat /\ big \in BOOLEAN /\ asked \in BOOLEAN
    /\ late \in BOOLEAN /\ broken \in BOOLEAN
    /\ verdict \in Verdicts \cup {"none"}

(* The program, and the wall clock over it, wait for the release.          *)
RunsFree == prog = "running" \/ late => free

(* There is a verdict exactly when the run was judged: an abandoned run    *)
(* has none.  The facts still support it, and it is about an ended program *)
(* unless it is the sandbox's own failure.                                 *)
VerdictStands ==
    /\ verdict # "none" <=> phase = "judged"
    /\ \A v \in Verdicts : verdict = v => Justified(v)
    /\ verdict \notin {"none", "fail"} => free /\ prog \in Endings

(* What a step may never do: take back a verdict or an abandonment, a      *)
(* release, or a fact; or change what is said of an ended program.         *)
TakesNothingBack ==
    /\ phase # "open" => UNCHANGED <<phase, verdict>>
    /\ free => free'
    /\ prog \in Endings => UNCHANGED <<prog, used, big, asked>>
    /\ used <= used' /\ (big => big') /\ (asked => asked')
    /\ (late => late') /\ (broken => broken')

NothingTakenBack == [][TakesNothingBack]_vars

IInv == TypeOK /\ RunsFree /\ VerdictStands

(* A run not yet started promises nothing.                                 *)
LEMMA InitHolds == Init => IInv
<1> SUFFICES ASSUME Init PROVE IInv
  OBVIOUS
<1>1. TypeOK /\ RunsFree
  BY DEF Init, TypeOK, RunsFree
<1>2. VerdictStands
  BY DEF Init, VerdictStands, Verdicts
<1> QED
  BY <1>1, <1>2 DEF IInv

(* The facts a verdict rests on are final when it is given, or only grow.  *)
LEMMA StaysJustified ==
  ASSUME TypeOK, TakesNothingBack, NEW v \in Verdicts, Justified(v),
         v # "fail" => prog \in Endings
  PROVE  Justified(v)'
<1>1. CASE v = "fail"
  BY <1>1 DEF Justified, TakesNothingBack
<1>2. CASE v # "fail"
  <2>1. UNCHANGED <<prog, used, big, asked>> /\ (late => late')
    BY <1>2 DEF TakesNothingBack
  <2>2. CASE v \in {"ok", "tl", "fb"}
    BY <2>1, <2>2 DEF Justified
  <2>3. CASE v \in {"ml", "ol", "re"}
    BY <2>1, <2>3 DEF Justified
  <2> QED
    BY <1>2, <2>2, <2>3 DEF Verdicts
<1> QED
  BY <1>1, <1>2

(* Every step of the contract keeps the types.                             *)
LEMMA StepTypes ==
  ASSUME MaxCpu \in Nat, TypeOK, [Next]_vars PROVE TypeOK'
<1>1. CASE Release
  BY <1>1 DEF Release, facts, TypeOK
<1>2. CASE Progress
  BY <1>2 DEF Progress, TypeOK
<1>3. CASE Discard
  BY <1>3 DEF Discard, TypeOK, Endings
<1>4. CASE Expire \/ Break
  BY <1>4 DEF Expire, Break, TypeOK
<1>5. CASE Drop
  BY <1>5 DEF Drop, facts, TypeOK
<1>6. ASSUME NEW v \in Verdicts, Judge(v) PROVE TypeOK'
  BY <1>6 DEF Judge, facts, TypeOK
<1>7. CASE UNCHANGED vars
  BY <1>7 DEF vars, facts, TypeOK
<1> QED
  BY <1>1, <1>2, <1>3, <1>4, <1>5, <1>6, <1>7 DEF Next

(* No step of the contract takes back a death, a result or a verdict.      *)
LEMMA StepTakesNothing ==
  ASSUME MaxCpu \in Nat, IInv, [Next]_vars PROVE TakesNothingBack
<1> USE DEF IInv, TypeOK, TakesNothingBack
<1>1. CASE Release
  BY <1>1 DEF Release, facts, VerdictStands
<1>2. CASE Progress
  BY <1>2 DEF Progress, Endings
<1>3. CASE Discard
  BY <1>3 DEF Discard, Endings
<1>4. CASE Expire \/ Break
  BY <1>4 DEF Expire, Break
<1>5. CASE Drop
  BY <1>5 DEF Drop, facts
<1>6. ASSUME NEW v \in Verdicts, Judge(v) PROVE TakesNothingBack
  BY <1>6 DEF Judge, facts
<1>7. CASE UNCHANGED vars
  BY <1>7 DEF vars, facts
<1> QED
  BY <1>1, <1>2, <1>3, <1>4, <1>5, <1>6, <1>7 DEF Next

(* No step contradicts the verdict that stands.                            *)
LEMMA StepKeepsVerdict ==
  ASSUME MaxCpu \in Nat, IInv, TypeOK', TakesNothingBack, [Next]_vars PROVE VerdictStands'
<1>1. CASE UNCHANGED <<phase, verdict>>
  <2>1. ASSUME NEW v \in Verdicts, verdict = v PROVE Justified(v)'
    BY <2>1, StaysJustified DEF IInv, VerdictStands, Verdicts
  <2> QED
    BY <1>1, <2>1 DEF IInv, VerdictStands, TakesNothingBack
<1>2. ASSUME NEW v \in Verdicts, Judge(v) PROVE VerdictStands'
  <2>1. Justified(v)' /\ verdict' = v /\ phase' = "judged" /\ v # "none"
    BY <1>2, StaysJustified DEF Judge, IInv, Verdicts
  <2> QED
    BY <1>2, <2>1 DEF Judge, facts, VerdictStands
<1>3. CASE Drop
  <2>1. verdict' = "none" /\ phase' = "dropped"
    BY <1>3 DEF Drop, IInv, VerdictStands
  <2> QED
    BY <2>1 DEF VerdictStands, Verdicts
<1> QED
  BY <1>1, <1>2, <1>3 DEF Next, vars, Release, Progress, Discard, Expire, Break

(* The three together, for every step of the contract.                     *)
LEMMA StepHolds == MaxCpu \in Nat /\ IInv /\ [Next]_vars => IInv' /\ TakesNothingBack
<1> SUFFICES ASSUME MaxCpu \in Nat, IInv, [Next]_vars PROVE IInv' /\ TakesNothingBack
  OBVIOUS
<1>1. TypeOK' /\ TakesNothingBack
  BY StepTypes, StepTakesNothing DEF IInv
<1>2. RunsFree'
  BY DEF IInv, RunsFree, TypeOK, Endings, Next, vars, facts,
         Release, Progress, Discard, Expire, Break, Drop, Judge
<1>3. VerdictStands'
  BY <1>1, StepKeepsVerdict
<1> QED
  BY <1>1, <1>2, <1>3 DEF IInv

(* sandbox.py, run().  A judge who is given a verdict may rely on it: the  *)
(* facts it needs hold for good, as nothing said of an ended program       *)
(* changes any more and a reported failure is not withdrawn.               *)
THEOREM VerdictsStand ==
  ASSUME MaxCpu \in Nat PROVE Spec => []VerdictStands /\ []RunsFree
<1>1. Spec => []IInv
  BY InitHolds, StepHolds, PTL DEF Spec
<1>2. IInv => VerdictStands /\ RunsFree
  BY DEF IInv
<1> QED
  BY <1>1, <1>2, PTL

(* A verdict is given once, an abandoned run stays without one, a release  *)
(* is for good, and what was found out about a program is not unlearned.   *)
THEOREM FinalityHolds ==
  ASSUME MaxCpu \in Nat PROVE Spec => NothingTakenBack
<1>1. IInv /\ [Next]_vars => IInv' /\ [TakesNothingBack]_vars
  BY StepHolds
<1> QED
  BY <1>1, InitHolds, PTL DEF Spec, NothingTakenBack

=============================================================================
