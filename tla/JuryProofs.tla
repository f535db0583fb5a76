----------------------------- MODULE JuryProofs -----------------------------
(***************************************************************************)
(* Proofs about Jury.  The invariant is built in layers, each proved from  *)
(* the ones before it: the types; where the jury and the cursor are        *)
(* (Places); what is known of the case in hand (InHand); why cases are     *)
(* skipped (Skips); and what the conclusion's loop has established (Sums). *)
(* The last part is about the judging as a whole: no step takes back what  *)
(* was recorded, every step brings the end nearer in a well-founded order, *)
(* and before the end there is always a step to take.                      *)
(***************************************************************************)
EXTENDS Jury, WellFoundedInduction, TLAPS

(* Points and the zero of a lost case can be compared.                     *)
LEMMA PointsAreNumbers == \A p \in Points \cup {0} : p \in Int
BY MarkAssumption

(* So can the score a case is given.                                       *)
LEMMA ScoresAreNumbers ==
    ASSUME NEW r \in Results PROVE r.score \in Int
BY PointsAreNumbers DEF Results

(* What the three kinds of run can be told as.                             *)
LEMMA RunVerdicts ==
    ASSUME NEW run \in Runs, run.verdict # "ok" PROVE run.verdict \in VerdictNames
<1>1. run.verdict \in {"ok", "re", "fail", "wa", "tl"}
  BY DEF Runs
<1>. QED
  BY <1>1 DEF VerdictNames

(* The least so far stays a number.                                        *)
LEMMA WeighTyped ==
    ASSUME NEW r \in Results, NEW m \in Int PROVE Weigh(m, r) \in Int
<1>1. r.score \in Int
  BY ScoresAreNumbers
<1>. QED
  BY <1>1 DEF Weigh, Lesser

(* A recorded result and the cursor's step stay in their types. *)
LEMMA RecordTyped ==
    ASSUME TypeOK, t \in Tests, NEW r \in Results, Record(r)
    PROVE  /\ results' \in [Tests -> Seq(Results)]
           /\ live' \in [x : 1 .. Len(Size) + 1, y : Nat]
           /\ phase' \in Phases
<1>. USE SizeAssumption DEF TypeOK, Record, Tests
<1>1. results' \in [Tests -> Seq(Results)]
  <2>1. results[t] \in Seq(Results)
    OBVIOUS
  <2>2. Append(results[t], r) \in Seq(Results)
    BY <2>1
  <2>. QED
    BY <2>2
<1>2. CASE Here(live)
  <2>1. live.x \in 1 .. Len(Size)
    BY <1>2 DEF Here
  <2>2. live.x + 1 \in 1 .. Len(Size) + 1 /\ live.y + 1 \in Nat
    <3>. HIDE DEF TypeOK, Record, Tests
    <3>1. live.y \in Nat
      BY DEF TypeOK
    <3>2. Len(Size) \in Nat
      BY DEF Tests
    <3>. HIDE SizeAssumption
    <3>. QED
      BY <2>1, <3>1, <3>2
  <2>3. Advance(live) \in [x : 1 .. Len(Size) + 1, y : Nat]
    BY <2>1, <2>2 DEF Advance
  <2>. QED
    BY <1>1, <1>2, <2>3 DEF Phases
<1>3. CASE ~Here(live)
  BY <1>1, <1>3 DEF Phases
<1>. QED
  BY <1>2, <1>3

(* However a case is settled, its record is of its type.                   *)
LEMMA SettleTyped ==
    ASSUME TypeOK, NEW h \in Helpers \cup {NoHelper}
    PROVE  Settle(h) \in [verdict : VerdictNames, score : Points \cup {0}, nan : BOOLEAN]
<1>. DEFINE Rets == [verdict : VerdictNames, score : Points \cup {0}, nan : BOOLEAN]
<1>1. ASSUME NEW g \in Helpers \cup {NoHelper}
      PROVE  ReadChecklog(g) \in Rets
  <2>1. g.score \in Points \cup {0}
    BY DEF Helpers, NoHelper
  <2>2. (g.kind = "nan") \in BOOLEAN
    OBVIOUS
  <2>. QED
    BY <2>1, <2>2 DEF ReadChecklog, VerdictNames
<1>2. ASSUME NEW v \in VerdictNames PROVE Plain(v) \in Rets
  BY DEF Plain
<1>3. case.run.verdict # "ok" => case.run.verdict \in VerdictNames
  <2>1. case.run \in Runs
    BY DEF TypeOK
  <2>. QED
    BY <2>1, RunVerdicts
<1>4. case.interactor \in Helpers \cup {NoHelper}
  BY DEF TypeOK
<1>5. case.interactor.kind \in Aborted =>
          OfAborted(case.run, case.interactor.kind) \in Rets
  BY <1>2, <1>3 DEF OfAborted, Aborted, VerdictNames
<1>6. OfInteractor(case.interactor) \in Rets
  BY <1>1, <1>2, <1>4 DEF OfInteractor, VerdictNames
<1>7. OfDiff(h) \in Rets
  BY <1>2 DEF OfDiff, VerdictNames
<1>8. CASE problem.interactor /\ case.interactor.kind # "ok"
  BY <1>5, <1>6, <1>8 DEF Settle
<1>9. CASE ~(problem.interactor /\ case.interactor.kind # "ok") /\ case.run.verdict # "ok"
  <2>1. ~Clean /\ (problem.interactor => case.interactor.kind \notin Aborted)
    BY <1>9 DEF Clean, Aborted
  <2>2. Plain(case.run.verdict) \in Rets
    BY <1>2, <1>3, <1>9
  <2>. QED
    BY <1>9, <2>1, <2>2 DEF Settle
<1>10. CASE ~(problem.interactor /\ case.interactor.kind # "ok") /\ case.run.verdict = "ok"
  <2>1. Clean /\ (problem.interactor => case.interactor.kind \notin Aborted)
    BY <1>10 DEF Clean, Aborted
  <2>2. ReadChecklog(h) \in Rets /\ ReadChecklog(case.interactor) \in Rets
    BY <1>1, <1>4
  <2>. QED
    BY <1>7, <1>10, <2>1, <2>2 DEF Settle
<1>. QED
  BY <1>8, <1>9, <1>10

(* Every value stays in its type. *)
THEOREM TypeCorrect == Spec => []TypeOK
<1>. USE SizeAssumption, MarkAssumption
<1>1. Init => TypeOK
  <2>. SUFFICES ASSUME Init PROVE TypeOK
    OBVIOUS
  <2>1. results \in [Tests -> Seq(Results)]
    BY DEF Init
  <2>2. NoCase \in [run : Runs, interactor : Helpers \cup {NoHelper},
                    judge : Helpers \cup {NoHelper}, tries : Nat]
    BY DEF NoCase, Runs
  <2>3. live \in [x : 1 .. Len(Size) + 1, y : Nat]
    BY DEF Init
  <2>4. sum \in [i : 1 .. Len(Size) + 1, j : Nat, mark : Int, marks : Seq(Int)]
    BY DEF Init
  <2>5. NoRet \in [verdict : VerdictNames, score : Points \cup {0}, nan : BOOLEAN]
    BY DEF NoRet, VerdictNames
  <2>6. t \in 1 .. Len(Size) + 1 /\ left \in Int /\ problem \in Problems
    BY DEF Init
  <2>. QED
    BY <2>1, <2>2, <2>3, <2>4, <2>5, <2>6 DEF Init, TypeOK, Phases
<1>2. TypeOK /\ [Next]_vars => TypeOK'
  <2>. SUFFICES ASSUME TypeOK, [Next]_vars PROVE TypeOK'
    OBVIOUS
  <2>1. CASE BeginTest
    BY <2>1 DEF BeginTest, TypeOK, InForce, Update, Problems, Phases
  <2>2. CASE FinishTest
    <3>1. t' \in 1 .. Len(Size) + 1
      BY <2>2 DEF FinishTest, TypeOK, Tests
    <3>. QED
      BY <2>2, <3>1 DEF FinishTest, TypeOK, Phases, judged
  <2>3. CASE SkipCase
    <3>. DEFINE r == [verdict |-> "ig", score |-> 0]
    <3>1. t \in Tests /\ r \in Results /\ Record(r)
      BY <2>3 DEF SkipCase, TypeOK, Results, VerdictNames
    <3>2. /\ results' \in [Tests -> Seq(Results)]
          /\ live' \in [x : 1 .. Len(Size) + 1, y : Nat]
          /\ phase' \in Phases
      BY <3>1, RecordTyped
    <3>. QED
      BY <2>3, <3>1, <3>2 DEF SkipCase, TypeOK, judged
  <2>4. CASE StartCase
    BY <2>4 DEF StartCase, TypeOK, Phases, Problems
  <2>5. CASE RecordCase
    <3>. DEFINE r == [verdict |-> IF ret.nan THEN "pt" ELSE ret.verdict,
                      score |-> IF ret.nan THEN 0 ELSE ret.score]
    <3>1. t \in Tests /\ r \in Results
      BY <2>5 DEF RecordCase, TypeOK, Results, VerdictNames
    <3>2. /\ results' \in [Tests -> Seq(Results)]
          /\ live' \in [x : 1 .. Len(Size) + 1, y : Nat]
          /\ phase' \in Phases
      <4>1. CASE ret.nan
        <5>1. Append(results[t], r) \in Seq(Results)
          BY <3>1 DEF TypeOK
        <5>2. results' = [results EXCEPT ![t] = Append(@, r)]
          BY <2>5, <4>1 DEF RecordCase
        <5>. QED
          BY <2>5, <3>1, <4>1, <5>1, <5>2 DEF RecordCase, TypeOK, Phases
      <4>2. CASE ~ret.nan
        <5>1. Record(r)
          BY <2>5, <4>2 DEF RecordCase
        <5>. QED
          BY <3>1, <5>1, RecordTyped
      <4>. QED
        BY <4>1, <4>2
    <3>3. jump' \in BOOLEAN
      BY <2>5 DEF RecordCase, TypeOK
    <3>4. ret' \in [verdict : VerdictNames, score : Points \cup {0}, nan : BOOLEAN]
      <4>1. ret' = ret \/ ret' = NoRet
        BY <2>5 DEF RecordCase
      <4>2. NoRet \in [verdict : VerdictNames, score : Points \cup {0}, nan : BOOLEAN]
        BY DEF NoRet, VerdictNames
      <4>. QED
        BY <4>1, <4>2 DEF TypeOK
    <3>5. case' \in [run : Runs, interactor : Helpers \cup {NoHelper},
                     judge : Helpers \cup {NoHelper}, tries : Nat] /\ left' \in Int
      BY <2>5 DEF RecordCase, NoCase, Runs
    <3>. QED
      BY <2>5, <3>1, <3>2, <3>3, <3>4, <3>5 DEF RecordCase, TypeOK
  <2>6. CASE \E run \in Runs, h \in Helpers \cup {NoHelper} : Attempt(run, h)
    <3>. PICK run \in Runs, h \in Helpers \cup {NoHelper} : Attempt(run, h)
      BY <2>6
    <3>1. case' \in [run : Runs, interactor : Helpers \cup {NoHelper},
                     judge : Helpers \cup {NoHelper}, tries : Nat]
      <4>1. case' = [case EXCEPT !.run = run, !.interactor = h, !.tries = @ + 1]
        BY DEF Attempt
      <4>2. case.tries + 1 \in Nat
        BY DEF TypeOK
      <4>. QED
        BY <4>1, <4>2 DEF TypeOK
    <3>2. left' \in Int /\ phase' \in Phases
      BY DEF Attempt, TypeOK, Phases
    <3>. QED
      BY <3>1, <3>2 DEF Attempt, TypeOK
  <2>7. CASE \E judge \in Helpers \cup {NoHelper} : Judge(judge)
    <3>. PICK judge \in Helpers \cup {NoHelper} : Judge(judge)
      BY <2>7
    <3>1. case' \in [run : Runs, interactor : Helpers \cup {NoHelper},
                     judge : Helpers \cup {NoHelper}, tries : Nat]
      BY DEF Judge, TypeOK
    <3>2. ret' \in [verdict : VerdictNames, score : Points \cup {0}, nan : BOOLEAN]
      BY SettleTyped DEF Judge
    <3>. QED
      BY <3>1, <3>2 DEF Judge, TypeOK, Phases
  <2>8. CASE BeginConclusion
    BY <2>8 DEF BeginConclusion, TypeOK, Phases, judged
  <2>9. CASE WeighCase
    <3>1. results[sum.i] \in Seq(Results) /\ sum.j + 1 \in 1 .. Len(results[sum.i])
      BY <2>9 DEF WeighCase, TypeOK
    <3>2. results[sum.i][sum.j + 1] \in Results
      BY <3>1
    <3>3. Weigh(sum.mark, results[sum.i][sum.j + 1]) \in Int
      BY <3>2, WeighTyped DEF TypeOK
    <3>4. sum' \in [i : 1 .. Len(Size) + 1, j : Nat, mark : Int, marks : Seq(Int)]
      <4>1. sum' = [sum EXCEPT !.j = sum.j + 1,
                               !.mark = Weigh(sum.mark, results[sum.i][sum.j + 1])]
        BY <2>9 DEF WeighCase
      <4>2. sum.j + 1 \in Nat
        BY DEF TypeOK
      <4>. QED
        BY <4>1, <4>2, <3>3 DEF TypeOK
    <3>. QED
      BY <2>9, <3>4 DEF WeighCase, TypeOK, judged
  <2>10. CASE CloseTest
    <3>1. sum.i + 1 \in 1 .. Len(Size) + 1
      BY <2>10 DEF CloseTest, TypeOK, Tests
    <3>2. Append(sum.marks, sum.mark) \in Seq(Int)
      BY DEF TypeOK
    <3>. QED
      BY <2>10, <3>1, <3>2 DEF CloseTest, TypeOK, judged
  <2>11. CASE Conclude
    BY <2>11 DEF Conclude, TypeOK, Phases, judged
  <2>12. CASE Interrupt
    BY <2>12 DEF Interrupt, TypeOK, Phases, judged
  <2>13. CASE UNCHANGED vars
    BY <2>13 DEF TypeOK, vars
  <2>. QED
    BY <2>1, <2>2, <2>3, <2>4, <2>5, <2>6, <2>7, <2>8, <2>9, <2>10, <2>11,
       <2>12, <2>13 DEF Next, Work
<1>. QED
  BY <1>1, <1>2, PTL DEF Spec

-----------------------------------------------------------------------------
(* Where the jury and the cursor are: the tests before t are recorded, the *)
(* ones after it are not begun, and the cursor is where CursorInSync says. *)
InTest == {"pick", "running", "judging", "recording"}

Places ==
    /\ phase \in {"running", "judging", "recording"} => Len(results[t]) < Size[t]
    /\ phase = "pick" => Len(results[t]) <= Size[t]
    /\ phase = "begin" /\ t \in Tests => Len(results[t]) = 0
    /\ phase \in InTest \cup {"begin"} =>
           /\ \A i \in Tests : i < t => Len(results[i]) = Size[i]
           /\ \A i \in Tests : i > t => Len(results[i]) = 0
    /\ CursorInSync

(* Every test has a case.                                                  *)
LEMMA SizesArePositive == \A i \in Tests : Size[i] \in Nat /\ Size[i] > 0
BY SizeAssumption DEF Tests

(* The records of a test can be counted.                                   *)
LEMMA LengthsAreNat == TypeOK => \A i \in Tests : Len(results[i]) \in Nat
<1>. SUFFICES ASSUME TypeOK, NEW i \in Tests PROVE Len(results[i]) \in Nat
  OBVIOUS
<1>1. results[i] \in Seq(Results)
  BY DEF TypeOK
<1>. QED
  BY <1>1

(* Recording with the cursor in place: it is printed, and the cursor goes  *)
(* on with the jury.                                                       *)
LEMMA RecordInPlace ==
    ASSUME TypeOK, t \in Tests, NEW r \in Results, Record(r),
           Len(results[t]) < Size[t], live = [x |-> t, y |-> Len(results[t])]
    PROVE  /\ phase' = "pick"
           /\ results'[t] = Append(results[t], r)
           /\ Len(results'[t]) = Len(results[t]) + 1
           /\ \A i \in Tests : i # t => results'[i] = results[i]
           /\ live' = IF Len(results'[t]) = Size[t] THEN [x |-> t + 1, y |-> 0]
                      ELSE [x |-> t, y |-> Len(results'[t])]
<1>1. results[t] \in Seq(Results) /\ DOMAIN results = Tests
  BY DEF TypeOK
<1>2. results' = [results EXCEPT ![t] = Append(results[t], r)]
  BY DEF Record
<1>3. results'[t] = Append(results[t], r)
  BY <1>1, <1>2
<1>4. Len(results'[t]) = Len(results[t]) + 1
  BY <1>1, <1>3
<1>5. Len(results[t]) \in Nat /\ live.x = t /\ live.y = Len(results[t])
  BY <1>1
<1>6. Here(live)
  BY <1>4, <1>5 DEF Here
<1>7. live' = Advance(live) /\ phase' = "pick"
  BY <1>6 DEF Record
<1>8. \A i \in Tests : i # t => results'[i] = results[i]
  BY <1>1, <1>2
<1>. QED
  BY <1>3, <1>4, <1>5, <1>7, <1>8 DEF Advance

(* Every step keeps both cursors where Places has them.                    *)
LEMMA PlacesStep == TypeOK /\ TypeOK' /\ Places /\ [Next]_vars => Places'
<1>. SUFFICES ASSUME TypeOK, TypeOK', Places, [Next]_vars PROVE Places'
  OBVIOUS
<1>. USE DEF InTest
<1>1. CASE BeginTest
  <2>1. t \in Tests /\ Len(results[t]) = 0 /\ live = [x |-> t, y |-> 0]
    BY <1>1 DEF BeginTest, Places, CursorInSync
  <2>2. Len(results[t]) # Size[t] /\ Len(results[t]) <= Size[t]
    BY <2>1, SizesArePositive
  <2>. QED
    BY <1>1, <2>1, <2>2 DEF BeginTest, Places, CursorInSync
<1>2. CASE FinishTest
  <2>1. t \in Tests /\ Len(results[t]) = Size[t]
    BY <1>2 DEF FinishTest, TypeOK
  <2>2. live = [x |-> t + 1, y |-> 0]
    BY <1>2, <2>1 DEF FinishTest, Places, CursorInSync
  <2>3. t' = t + 1 /\ phase' = "begin" /\ UNCHANGED <<results, live>> /\ t \in Int
    BY <1>2, <2>1 DEF FinishTest, Tests
  <2>4. \A i \in Tests : i < t + 1 => Len(results[i]) = Size[i]
    BY <1>2, <2>1 DEF FinishTest, Places, Tests
  <2>5. \A i \in Tests : i > t => Len(results[i]) = 0
    BY <1>2 DEF FinishTest, Places
  <2>. QED
    BY <2>2, <2>3, <2>4, <2>5 DEF Places, CursorInSync, Tests
<1>3. CASE SkipCase
  <2>. DEFINE r == [verdict |-> "ig", score |-> 0]
  <2>1. t \in Tests /\ r \in Results /\ Record(r) /\ Len(results[t]) < Size[t]
    BY <1>3 DEF SkipCase, TypeOK, Results, VerdictNames
  <2>2. live = [x |-> t, y |-> Len(results[t])]
    BY <1>3, <2>1, LengthsAreNat, SizesArePositive DEF SkipCase, Places, CursorInSync
  <2>. HIDE DEF r
  <2>3. /\ phase' = "pick"
        /\ Len(results'[t]) = Len(results[t]) + 1
        /\ \A i \in Tests : i # t => results'[i] = results[i]
        /\ live' = IF Len(results'[t]) = Size[t] THEN [x |-> t + 1, y |-> 0]
                   ELSE [x |-> t, y |-> Len(results'[t])]
    BY <2>1, <2>2, RecordInPlace
  <2>4. t' = t /\ phase = "pick"
    BY <1>3 DEF SkipCase
  <2>5. Len(results'[t]) <= Size[t]
    BY <2>1, <2>3, LengthsAreNat, SizesArePositive
  <2>6. t \in Int /\ \A i \in Tests : i \in Int
    BY <2>1 DEF Tests
  <2>. QED
    BY <2>3, <2>4, <2>5, <2>6 DEF Places, CursorInSync
<1>4. CASE StartCase
  <2>1. Len(results[t]) < Size[t] /\ t \in Tests
    BY <1>4 DEF StartCase, TypeOK
  <2>2. Len(results[t]) # Size[t]
    BY <2>1, LengthsAreNat, SizesArePositive
  <2>. QED
    BY <1>4, <2>1, <2>2 DEF StartCase, Places, CursorInSync
<1>5. CASE RecordCase
  <2>1. CASE ret.nan
    BY <1>5, <2>1 DEF RecordCase, Places, CursorInSync
  <2>2. CASE ~ret.nan
    <3>. DEFINE r == [verdict |-> ret.verdict, score |-> ret.score]
    <3>1. t \in Tests /\ r \in Results /\ Record(r) /\ Len(results[t]) < Size[t]
      BY <1>5, <2>2 DEF RecordCase, TypeOK, Results, Places
    <3>2. live = [x |-> t, y |-> Len(results[t])]
      BY <1>5 DEF RecordCase, Places, CursorInSync
    <3>. HIDE DEF r
    <3>3. /\ phase' = "pick"
          /\ Len(results'[t]) = Len(results[t]) + 1
          /\ \A i \in Tests : i # t => results'[i] = results[i]
          /\ live' = IF Len(results'[t]) = Size[t] THEN [x |-> t + 1, y |-> 0]
                     ELSE [x |-> t, y |-> Len(results'[t])]
      BY <3>1, <3>2, RecordInPlace
    <3>4. t' = t /\ phase = "recording"
      BY <1>5 DEF RecordCase
    <3>5. Len(results'[t]) <= Size[t]
      BY <3>1, <3>3, LengthsAreNat, SizesArePositive
    <3>6. t \in Int /\ \A i \in Tests : i \in Int
      BY <3>1 DEF Tests
    <3>. QED
      BY <3>3, <3>4, <3>5, <3>6 DEF Places, CursorInSync
  <2>. QED
    BY <2>1, <2>2
<1>6. CASE \E run \in Runs, h \in Helpers \cup {NoHelper} : Attempt(run, h)
  BY <1>6 DEF Attempt, Places, CursorInSync
<1>7. CASE \E judge \in Helpers \cup {NoHelper} : Judge(judge)
  BY <1>7 DEF Judge, Places, CursorInSync
<1>8. CASE BeginConclusion
  <2>1. live.x = Len(Size) + 1 /\ \A i \in Tests : i < t
    BY <1>8, SizeAssumption DEF BeginConclusion, Places, CursorInSync, Tests
  <2>2. \A i \in Tests : Len(results[i]) = Size[i]
    BY <1>8, <2>1 DEF BeginConclusion, Places
  <2>. QED
    BY <1>8, <2>1, <2>2 DEF BeginConclusion, Places, CursorInSync
<1>9. CASE WeighCase
  BY <1>9 DEF WeighCase, Places, CursorInSync, judged
<1>10. CASE CloseTest
  BY <1>10 DEF CloseTest, Places, CursorInSync, judged
<1>11. CASE Conclude
  BY <1>11 DEF Conclude, Places, CursorInSync, judged
<1>12. CASE Interrupt
  BY <1>12 DEF Interrupt, Places, CursorInSync, judged
<1>13. CASE UNCHANGED vars
  BY <1>13 DEF vars, Places, CursorInSync
<1>. QED
  BY <1>1, <1>2, <1>3, <1>4, <1>5, <1>6, <1>7, <1>8, <1>9, <1>10, <1>11,
     <1>12, <1>13 DEF Next, Work

(* The two cursors are where Places has them, for any number of tests and  *)
(* cases.                                                                  *)
LEMMA PlacesInvariant == Spec => []Places
<1>1. Init => Places
  <2>1. Init => \A i \in Tests : Len(results[i]) = 0
    BY DEF Init
  <2>. QED
    BY <2>1, SizeAssumption DEF Init, Places, CursorInSync, Tests, InTest
<1>. QED
  BY <1>1, PlacesStep, TypeCorrect, PTL DEF Spec

(* The cursor that prints the cases and the jury that records them never   *)
(* part, and at the end nothing is left to record or to print.             *)
THEOREM CursorStays == Spec => []CursorInSync
<1>1. Places => CursorInSync
  BY DEF Places
<1>. QED
  BY <1>1, PlacesInvariant, PTL

-----------------------------------------------------------------------------
(* The case in hand: the attempts made and left, and the verdict, which is *)
(* what Settle makes of the runs there were.                               *)
InHand ==
    /\ phase \in {"begin", "pick"} => case = NoCase
    /\ phase = "running" => /\ left = problem.retry - case.tries
                            /\ case.tries > 0 => left >= 0
    /\ phase \in {"judging", "recording"} =>
           (case.interactor = NoHelper) = ~problem.interactor
    /\ phase = "recording" =>
           /\ (case.judge = NoHelper) = ~(Clean /\ Checks)
           /\ ret = Settle(case.judge)
    /\ RetriesSpent

(* A run of the case in hand adds to what it has been through, no more.    *)
LEMMA AttemptStep ==
    ASSUME TypeOK, InHand, NEW run \in Runs, NEW h \in Helpers \cup {NoHelper},
           Attempt(run, h)
    PROVE  InHand'
<1>1. /\ phase = "running" /\ problem' = problem
      /\ case' = [case EXCEPT !.run = run, !.interactor = h, !.tries = @ + 1]
      /\ (h = NoHelper) = ~problem.interactor
      /\ IF Retried(run) THEN left' = left - 1 /\ phase' = phase
         ELSE left' = left /\ phase' = "judging"
  BY DEF Attempt
<1>2. /\ case.tries \in Nat /\ left \in Int /\ problem.retry \in Int
      /\ case'.run = run /\ case'.interactor = h /\ case'.tries = case.tries + 1
  <2>1. problem.retry \in Int
    BY MarkAssumption DEF TypeOK, Problems
  <2>. QED
    BY <1>1, <2>1 DEF TypeOK
<1>3. left = problem.retry - case.tries /\ (case.tries > 0 => left >= 0)
  BY <1>1 DEF InHand
<1>4. CASE Retried(run)
  <2>1. left > 0
    BY <1>4 DEF Retried
  <2>. QED
    BY <1>1, <1>2, <1>3, <1>4, <2>1 DEF InHand, RetriesSpent
<1>5. CASE ~Retried(run)
  <2>1. case.tries + 1 \in 1 .. 1 + Allowed
    BY <1>2, <1>3 DEF Allowed
  <2>2. Slight(run) => case.tries + 1 = 1 + Allowed
    BY <1>2, <1>3, <1>5 DEF Allowed, Retried
  <2>. QED
    BY <1>1, <1>2, <1>5, <2>1, <2>2 DEF InHand, RetriesSpent, Allowed
<1>. QED
  BY <1>4, <1>5

(* The judging of a finished case reports its checker as it ran.           *)
LEMMA JudgeStep ==
    ASSUME TypeOK, InHand, NEW judge \in Helpers \cup {NoHelper}, Judge(judge)
    PROVE  InHand'
<1>1. /\ phase = "judging" /\ phase' = "recording"
      /\ UNCHANGED <<problem, left>>
      /\ (judge = NoHelper) = ~(Clean /\ Checks)
      /\ case' = [case EXCEPT !.judge = judge]
      /\ ret' = Settle(judge)
  BY DEF Judge
<1>2. /\ case'.run = case.run /\ case'.interactor = case.interactor
      /\ case'.tries = case.tries /\ case'.judge = judge
  BY <1>1 DEF TypeOK
<1>3. Clean' = Clean /\ Checks' = Checks /\ Settle(judge)' = Settle(judge)
  BY <1>1, <1>2 DEF Clean, Checks, Settle
<1>. QED
  BY <1>1, <1>2, <1>3 DEF InHand, RetriesSpent, Allowed

(* Every step keeps the account of the case in hand.                       *)
LEMMA InHandStep == TypeOK /\ InHand /\ [Next]_vars => InHand'
<1>. SUFFICES ASSUME TypeOK, InHand, [Next]_vars PROVE InHand'
  OBVIOUS
<1>1. CASE BeginTest
  BY <1>1 DEF BeginTest, InHand, RetriesSpent
<1>2. CASE FinishTest
  BY <1>2 DEF FinishTest, InHand, RetriesSpent, judged
<1>3. CASE SkipCase
  BY <1>3 DEF SkipCase, Record, InHand, RetriesSpent, judged
<1>4. CASE StartCase
  <2>1. case.tries = 0 /\ left' = problem.retry /\ problem.retry \in Int
    <3>1. problem.retry \in Int
      BY MarkAssumption DEF TypeOK, Problems
    <3>. QED
      BY <1>4, <3>1 DEF StartCase, InHand, NoCase
  <2>. QED
    BY <1>4, <2>1 DEF StartCase, InHand, RetriesSpent
<1>5. CASE RecordCase
  BY <1>5 DEF RecordCase, Record, InHand, RetriesSpent
<1>6. CASE \E run \in Runs, h \in Helpers \cup {NoHelper} : Attempt(run, h)
  BY <1>6, AttemptStep
<1>7. CASE \E judge \in Helpers \cup {NoHelper} : Judge(judge)
  BY <1>7, JudgeStep
<1>8. CASE BeginConclusion
  BY <1>8 DEF BeginConclusion, InHand, RetriesSpent, judged
<1>9. CASE WeighCase
  BY <1>9 DEF WeighCase, InHand, RetriesSpent, judged
<1>10. CASE CloseTest
  BY <1>10 DEF CloseTest, InHand, RetriesSpent, judged
<1>11. CASE Conclude
  BY <1>11 DEF Conclude, InHand, RetriesSpent, judged
<1>12. CASE Interrupt
  BY <1>12 DEF Interrupt, InHand, RetriesSpent, judged
<1>13. CASE UNCHANGED vars
  BY <1>13 DEF vars, InHand, RetriesSpent, Allowed, Clean, Checks, Settle
<1>. QED
  BY <1>1, <1>2, <1>3, <1>4, <1>5, <1>6, <1>7, <1>8, <1>9, <1>10, <1>11,
     <1>12, <1>13 DEF Next, Work

(* What the case in hand has been through is known throughout.             *)
LEMMA InHandInvariant == Spec => []InHand
<1>1. Init => InHand
  BY DEF Init, InHand, RetriesSpent
<1>. QED
  BY <1>1, InHandStep, TypeCorrect, PTL DEF Spec

(* No retry is wasted and none is missing, however often the manifest asks *)
(* for one.                                                                *)
THEOREM RetriesAreSpent == Spec => []RetriesSpent
<1>1. InHand => RetriesSpent
  BY DEF InHand
<1>. QED
  BY <1>1, InHandInvariant, PTL

(* An accepted case passed every run there was to pass. *)
THEOREM AcIsAlwaysEarned == Spec => []AcIsEarned
<1>1. TypeOK /\ InHand => AcIsEarned
  <2>. SUFFICES ASSUME TypeOK, InHand, phase = "recording", ret.verdict = "ac"
                PROVE  /\ case.run.verdict = "ok"
                       /\ problem.interactor => case.interactor.kind = "ok"
                       /\ Checks => case.judge.kind = "ok"
    BY DEF AcIsEarned
  <2>1. ret = Settle(case.judge)
    BY DEF InHand
  <2>2. case.run.verdict # "ac"
    <3>1. case.run \in Runs
      BY DEF TypeOK
    <3>. QED
      BY <3>1 DEF Runs
  <2>3. \A k : OfAborted(case.run, k).verdict # "ac" \/ k \notin Aborted
    BY <2>2 DEF OfAborted, Aborted, Plain
  <2>4. OfInteractor(case.interactor).verdict = "ac" => case.interactor.kind = "ok"
    BY DEF OfInteractor, ReadChecklog, Plain
  <2>5. Clean
    BY <2>1, <2>2, <2>3, <2>4 DEF Settle, Clean, Plain
  <2>6. Checks => ret = IF problem.checker THEN ReadChecklog(case.judge) ELSE OfDiff(case.judge)
    BY <2>1, <2>5 DEF Settle, Clean, Aborted
  <2>7. Checks => case.judge.kind = "ok"
    BY <2>6 DEF ReadChecklog, OfDiff, Plain
  <2>. QED
    BY <2>5, <2>7 DEF Clean
<1>. QED
  BY <1>1, TypeCorrect, InHandInvariant, PTL

(* Every verdict of a crash, a time-out or a failure has its owner. *)
THEOREM BlameIsAlwaysOwn == Spec => []BlameIsOwn
<1>1. TypeOK /\ InHand => BlameIsOwn
  <2>. SUFFICES ASSUME TypeOK, InHand, phase = "recording" PROVE BlameIsOwn
    BY DEF BlameIsOwn
  <2>1. ret = Settle(case.judge) /\ (case.judge = NoHelper) = ~(Clean /\ Checks)
    BY DEF InHand
  <2>2. \A h : ReadChecklog(h).verdict \in {"ac", "pt", "wa", "fail"}
    BY DEF ReadChecklog
  <2>3. case.run.verdict \in {"ok", "re", "fail", "wa", "tl"}
    <3>1. case.run \in Runs
      BY DEF TypeOK
    <3>. QED
      BY <3>1 DEF Runs
  <2>4. CASE problem.interactor /\ case.interactor.kind \in Aborted
    BY <2>1, <2>4 DEF Settle, BlameIsOwn, OfAborted, Aborted, Plain
  <2>5. CASE problem.interactor /\ case.interactor.kind \notin Aborted \cup {"ok"}
    <3>1. ret = OfInteractor(case.interactor)
      BY <2>1, <2>5 DEF Settle
    <3>2. case.interactor \in Helpers
      BY <2>5 DEF InHand, TypeOK
    <3>3. case.interactor.kind \in {"wrong", "malformed", "nan", "fail", "points"}
      BY <2>5, <3>2 DEF Helpers, Aborted
    <3>. QED
      BY <2>5, <3>1, <3>3 DEF BlameIsOwn, OfInteractor, ReadChecklog, Plain
  <2>6. CASE ~(problem.interactor /\ case.interactor.kind # "ok") /\ ~Clean
    BY <2>1, <2>6 DEF Settle, BlameIsOwn, Plain, Clean, Aborted
  <2>7. CASE ~(problem.interactor /\ case.interactor.kind # "ok") /\ Clean /\ ~Checks
    BY <2>1, <2>7 DEF Settle, BlameIsOwn, ReadChecklog, Clean, Checks, Aborted
  <2>8. CASE ~(problem.interactor /\ case.interactor.kind # "ok") /\ Clean /\ Checks
    <3>1. case.judge \in Helpers
      BY <2>1, <2>8 DEF TypeOK
    <3>2. case.judge.kind # "none"
      BY <3>1 DEF Helpers
    <3>3. ret = IF problem.checker THEN ReadChecklog(case.judge) ELSE OfDiff(case.judge)
      BY <2>1, <2>8 DEF Settle, Clean, Aborted
    <3>. QED
      BY <2>8, <3>2, <3>3 DEF BlameIsOwn, ReadChecklog, OfDiff, Plain
  <2>. QED
    BY <2>4, <2>5, <2>6, <2>7, <2>8
<1>. QED
  BY <1>1, TypeCorrect, InHandInvariant, PTL

-----------------------------------------------------------------------------
(* Why cases are skipped. *)
Lost(i, n) == \E m \in 1 .. n : /\ results[i][m].verdict # "ig"
                                /\ ScoresNothing(results[i][m])

Skips ==
    /\ phase \in InTest => /\ keep = InForce(t)
                           /\ jump => ~keep /\ Lost(t, Len(results[t]))
    /\ SkippedOnlyWhenLost

(* What a record leaves of the results. *)
LEMMA Appended ==
    ASSUME TypeOK, t \in Tests, NEW r \in Results,
           results' = [results EXCEPT ![t] = Append(@, r)]
    PROVE  /\ Len(results'[t]) = Len(results[t]) + 1 /\ Len(results[t]) \in Nat
           /\ results'[t][Len(results[t]) + 1] = r
           /\ \A k \in 1 .. Len(results[t]) : results'[t][k] = results[t][k]
           /\ \A i \in Tests : i # t => results'[i] = results[i]
<1>1. results[t] \in Seq(Results) /\ DOMAIN results = Tests
  BY DEF TypeOK
<1>2. results'[t] = Append(results[t], r)
  BY <1>1
<1>. QED
  BY <1>1, <1>2

(* A record keeps the reasons of the skipped cases, if its own is good. *)
LEMMA RecordSkips ==
    ASSUME TypeOK, Skips, t \in Tests, NEW r \in Results, UNCHANGED problem,
           results' = [results EXCEPT ![t] = Append(@, r)],
           r.verdict = "ig" => ~InForce(t) /\ Lost(t, Len(results[t]))
    PROVE  SkippedOnlyWhenLost'
<1>. USE Appended
<1>. SUFFICES ASSUME NEW i \in Tests, NEW k \in 1 .. Len(results'[i]),
                     results'[i][k].verdict = "ig"
              PROVE  /\ ~InForce(i)'
                     /\ \E m \in 1 .. k - 1 : /\ results'[i][m].verdict # "ig"
                                              /\ ScoresNothing(results'[i][m])
  BY DEF SkippedOnlyWhenLost, ScoresNothing
<1>1. InForce(i)' = InForce(i)
  BY DEF InForce
<1>2. CASE i # t
  <2>1. results'[i] = results[i]
    BY <1>2
  <2>. QED
    BY <1>1, <2>1 DEF Skips, SkippedOnlyWhenLost
<1>3. CASE i = t /\ k <= Len(results[t])
  <2>1. k \in 1 .. Len(results[t])
    BY <1>3
  <2>2. PICK m \in 1 .. k - 1 : /\ results[t][m].verdict # "ig"
                               /\ ScoresNothing(results[t][m])
    BY <1>3, <2>1 DEF Skips, SkippedOnlyWhenLost
  <2>3. results'[t][m] = results[t][m]
    BY <2>1, <2>2
  <2>4. ~InForce(t)
    BY <1>3, <2>1 DEF Skips, SkippedOnlyWhenLost
  <2>. QED
    BY <1>1, <1>3, <2>2, <2>3, <2>4
<1>4. CASE i = t /\ k = Len(results[t]) + 1
  <2>1. r.verdict = "ig"
    BY <1>4
  <2>2. PICK m \in 1 .. Len(results[t]) : /\ results[t][m].verdict # "ig"
                                         /\ ScoresNothing(results[t][m])
    BY <2>1 DEF Lost
  <2>. QED
    BY <1>1, <1>4, <2>1, <2>2
<1>. QED
  BY <1>2, <1>3, <1>4

(* A test that has lost stays lost: no record of it changes.               *)
LEMMA LostStays ==
    ASSUME TypeOK, t \in Tests, NEW r \in Results,
           results' = [results EXCEPT ![t] = Append(@, r)],
           \/ Lost(t, Len(results[t]))
           \/ r.verdict # "ig" /\ ScoresNothing(r)
    PROVE  \E m \in 1 .. Len(results'[t]) : /\ results'[t][m].verdict # "ig"
                                            /\ ScoresNothing(results'[t][m])
<1>. USE Appended
<1>1. CASE Lost(t, Len(results[t]))
  <2>1. PICK m \in 1 .. Len(results[t]) : /\ results[t][m].verdict # "ig"
                                         /\ ScoresNothing(results[t][m])
    BY <1>1 DEF Lost
  <2>. QED
    BY <2>1
<1>2. CASE r.verdict # "ig" /\ ScoresNothing(r)
  <2>1. Len(results'[t]) = Len(results[t]) + 1 /\ Len(results[t]) \in Nat
    BY Appended
  <2>2. Len(results[t]) + 1 \in 1 .. Len(results'[t])
    BY <2>1
  <2>. QED
    BY <1>2, <2>2
<1>. QED
  BY <1>1, <1>2

(* The jury itself never says "ig". *)
LEMMA NeverIgnores ==
    ASSUME TypeOK, InHand, phase = "recording" PROVE ret.verdict # "ig"
<1>1. case.run.verdict # "ig"
  <2>1. case.run \in Runs
    BY DEF TypeOK
  <2>. QED
    BY <2>1 DEF Runs
<1>2. \A h : ReadChecklog(h).verdict # "ig" /\ OfDiff(h).verdict # "ig"
  BY DEF ReadChecklog, OfDiff, Plain
<1>3. OfInteractor(case.interactor).verdict # "ig"
  BY <1>2 DEF OfInteractor, Plain
<1>4. case.interactor.kind \in Aborted =>
          OfAborted(case.run, case.interactor.kind).verdict # "ig"
  BY <1>1 DEF OfAborted, Aborted, Plain
<1>. QED
  BY <1>1, <1>2, <1>3, <1>4 DEF InHand, Settle, Plain

(* Every step keeps the reason of each skip.                               *)
LEMMA SkipsStep ==
    TypeOK /\ TypeOK' /\ InHand /\ Skips /\ [Next]_vars => Skips'
<1>. SUFFICES ASSUME TypeOK, TypeOK', InHand, Skips, [Next]_vars PROVE Skips'
  OBVIOUS
<1>. USE DEF InTest
<1>1. CASE BeginTest
  <2>1. keep' = InForce(t) /\ InForce(t)' = InForce(t) /\ jump' = FALSE
    BY <1>1 DEF BeginTest, InForce
  <2>. QED
    BY <1>1, <2>1 DEF BeginTest, Skips, SkippedOnlyWhenLost, InForce
<1>2. CASE FinishTest
  BY <1>2 DEF FinishTest, Skips, SkippedOnlyWhenLost, InForce
<1>3. CASE SkipCase
  <2>. DEFINE r == [verdict |-> "ig", score |-> 0]
  <2>1. /\ t \in Tests /\ r \in Results
        /\ results' = [results EXCEPT ![t] = Append(@, r)]
    BY <1>3 DEF SkipCase, Record, TypeOK, Results, VerdictNames
  <2>2. Lost(t, Len(results[t])) /\ ~InForce(t) /\ ~keep /\ keep = InForce(t)
    BY <1>3 DEF SkipCase, Skips
  <2>. HIDE DEF r
  <2>3. SkippedOnlyWhenLost'
    BY <1>3, <2>1, <2>2, RecordSkips DEF SkipCase
  <2>4. Lost(t, Len(results[t]))'
    BY <1>3, <2>1, <2>2, LostStays DEF SkipCase, Lost, ScoresNothing
  <2>. QED
    BY <1>3, <2>2, <2>3, <2>4 DEF SkipCase, Skips, judged, InForce
<1>4. CASE StartCase
  BY <1>4 DEF StartCase, Skips, SkippedOnlyWhenLost, InForce, Lost
<1>5. CASE RecordCase
  <2>. DEFINE r == [verdict |-> IF ret.nan THEN "pt" ELSE ret.verdict,
                    score |-> IF ret.nan THEN 0 ELSE ret.score]
  <2>1. t \in Tests /\ r \in Results
    BY <1>5 DEF RecordCase, TypeOK, Results, VerdictNames
  <2>2. results' = [results EXCEPT ![t] = Append(@, r)]
    <3>1. CASE ret.nan
      BY <1>5, <3>1 DEF RecordCase
    <3>2. CASE ~ret.nan
      BY <1>5, <3>2 DEF RecordCase, Record
    <3>. QED
      BY <3>1, <3>2
  <2>3. r.verdict # "ig"
    BY <1>5, NeverIgnores DEF RecordCase
  <2>4. ~ret.nan => (ScoresNothing(ret) <=> ScoresNothing(r))
    BY DEF ScoresNothing
  <2>. HIDE DEF r
  <2>5. SkippedOnlyWhenLost'
    BY <1>5, <2>1, <2>2, <2>3, RecordSkips DEF RecordCase
  <2>6. ~ret.nan /\ jump' => ~keep /\ Lost(t, Len(results[t]))'
    <3>. SUFFICES ASSUME ~ret.nan, jump' PROVE ~keep /\ Lost(t, Len(results[t]))'
      OBVIOUS
    <3>1. jump \/ (ScoresNothing(ret) /\ ~keep)
      BY <1>5 DEF RecordCase
    <3>2. ~keep /\ (Lost(t, Len(results[t])) \/ ScoresNothing(r))
      BY <1>5, <2>4, <3>1 DEF RecordCase, Skips
    <3>. QED
      BY <1>5, <2>1, <2>2, <2>3, <3>2, LostStays DEF RecordCase, Lost, ScoresNothing
  <2>7. ret.nan => phase' = "crashed"
    BY <1>5 DEF RecordCase
  <2>. QED
    BY <1>5, <2>5, <2>6, <2>7 DEF RecordCase, Skips, InForce
<1>6. CASE \E run \in Runs, h \in Helpers \cup {NoHelper} : Attempt(run, h)
  BY <1>6 DEF Attempt, Skips, SkippedOnlyWhenLost, InForce, Lost
<1>7. CASE \E judge \in Helpers \cup {NoHelper} : Judge(judge)
  BY <1>7 DEF Judge, Skips, SkippedOnlyWhenLost, InForce, Lost
<1>8. CASE BeginConclusion
  BY <1>8 DEF BeginConclusion, Skips, SkippedOnlyWhenLost, InForce
<1>9. CASE WeighCase
  BY <1>9 DEF WeighCase, Skips, SkippedOnlyWhenLost, InForce
<1>10. CASE CloseTest
  BY <1>10 DEF CloseTest, Skips, SkippedOnlyWhenLost, InForce
<1>11. CASE Conclude
  BY <1>11 DEF Conclude, Skips, SkippedOnlyWhenLost, InForce
<1>12. CASE Interrupt
  BY <1>12 DEF Interrupt, Skips, SkippedOnlyWhenLost, InForce
<1>13. CASE UNCHANGED vars
  BY <1>13 DEF vars, Skips, SkippedOnlyWhenLost, InForce, Lost
<1>. QED
  BY <1>1, <1>2, <1>3, <1>4, <1>5, <1>6, <1>7, <1>8, <1>9, <1>10, <1>11,
     <1>12, <1>13 DEF Next, Work

(* Whatever has been skipped was skipped for a reason.                     *)
LEMMA SkipsInvariant == Spec => []Skips
<1>1. Init => Skips
  <2>1. Init => \A i \in Tests : Len(results[i]) = 0
    BY DEF Init
  <2>. QED
    BY <2>1 DEF Init, Skips, SkippedOnlyWhenLost, InTest
<1>. QED
  BY <1>1, SkipsStep, TypeCorrect, InHandInvariant, PTL DEF Spec

(* A test is cut short by its own settings and after its own loss only. *)
THEOREM SkipsAreJustified == Spec => []SkippedOnlyWhenLost
<1>1. Skips => SkippedOnlyWhenLost
  BY DEF Skips
<1>. QED
  BY <1>1, SkipsInvariant, PTL

-----------------------------------------------------------------------------
(* The conclusion: what its loop knows of the n first cases of test i.     *)
NoneNegative(i, n) == \A k \in 1 .. n : Worth(results[i][k]) >= 0

Weighed(i, n, mark) ==
    /\ (\E k \in 1 .. n : ScoresNothing(results[i][k])) => mark <= 0
    /\ NoneNegative(i, n) =>
           /\ mark \in {FullMark} \cup {Worth(results[i][k]) : k \in 1 .. n}
           /\ mark <= FullMark
           /\ \A k \in 1 .. n : mark <= Worth(results[i][k])

Sums ==
    /\ phase \notin {"concluding", "done", "interrupted"} =>
           sum = [i |-> 1, j |-> 0, mark |-> FullMark, marks |-> <<>>]
    /\ Len(sum.marks) = sum.i - 1
    /\ sum.i \in Tests => /\ sum.j <= Len(results[sum.i])
                          /\ Weighed(sum.i, sum.j, sum.mark)
    /\ \A i \in 1 .. Len(sum.marks) :
           i \in Tests /\ Weighed(i, Len(results[i]), sum.marks[i])

(* The least of no cases is what the loop starts from.                     *)
LEMMA NothingWeighed ==
    ASSUME NEW i PROVE Weighed(i, 0, FullMark)
BY MarkAssumption DEF Weighed

(* One more case: the mark only falls, to what the case is worth. *)
LEMMA WeighRight ==
    ASSUME NEW r \in Results, NEW m \in Int
    PROVE  /\ m <= 0 \/ ScoresNothing(r) => Weigh(m, r) <= 0
           /\ m >= 0 /\ m <= FullMark /\ Worth(r) >= 0 =>
                  /\ Weigh(m, r) \in {m, Worth(r)}
                  /\ Weigh(m, r) <= m /\ Weigh(m, r) <= Worth(r)
<1>1. r.score \in Int /\ FullMark \in Int /\ FullMark > 0
  BY ScoresAreNumbers, MarkAssumption
<1>2. CASE r.verdict = "pt"
  BY <1>1, <1>2 DEF Weigh, Worth, ScoresNothing, Lesser
<1>3. CASE r.verdict = "ac"
  BY <1>1, <1>3 DEF Weigh, Worth, ScoresNothing
<1>4. CASE r.verdict \notin {"ac", "pt"}
  BY <1>1, <1>4 DEF Weigh, Worth, ScoresNothing
<1>. QED
  BY <1>2, <1>3, <1>4

(* One case more: the least is the lesser of the old one and its worth.    *)
LEMMA WeighedOneMore ==
    ASSUME TypeOK, NEW i \in Tests, NEW n \in Nat, n < Len(results[i]),
           NEW m \in Int, Weighed(i, n, m)
    PROVE  Weighed(i, n + 1, Weigh(m, results[i][n + 1]))
<1>. DEFINE r == results[i][n + 1]
            w == Weigh(m, r)
<1>1. r \in Results
  <2>1. results[i] \in Seq(Results)
    BY DEF TypeOK
  <2>. QED
    BY <2>1
<1>2. w \in Int /\ FullMark \in Int /\ FullMark > 0
  BY <1>1, WeighTyped, MarkAssumption
<1>3. /\ m <= 0 \/ ScoresNothing(r) => w <= 0
      /\ m >= 0 /\ m <= FullMark /\ Worth(r) >= 0 =>
             /\ w \in {m, Worth(r)} /\ w <= m /\ w <= Worth(r)
  BY <1>1, WeighRight
<1>4. ASSUME NEW k \in 1 .. n + 1 PROVE k \in 1 .. n \/ k = n + 1
  OBVIOUS
<1>5. (\E k \in 1 .. n + 1 : ScoresNothing(results[i][k])) => w <= 0
  <2>. SUFFICES ASSUME NEW k \in 1 .. n + 1, ScoresNothing(results[i][k])
                PROVE  w <= 0
    OBVIOUS
  <2>1. CASE k \in 1 .. n
    BY <1>3, <2>1 DEF Weighed
  <2>2. CASE k = n + 1
    BY <1>3, <2>2
  <2>. QED
    BY <1>4, <2>1, <2>2
<1>6. ASSUME NoneNegative(i, n + 1)
      PROVE  /\ w \in {FullMark} \cup {Worth(results[i][k]) : k \in 1 .. n + 1}
             /\ w <= FullMark
             /\ \A k \in 1 .. n + 1 : w <= Worth(results[i][k])
  <2>1. NoneNegative(i, n) /\ Worth(r) >= 0
    BY <1>6 DEF NoneNegative
  <2>2. /\ m \in {FullMark} \cup {Worth(results[i][k]) : k \in 1 .. n}
        /\ m <= FullMark
        /\ \A k \in 1 .. n : m <= Worth(results[i][k])
    BY <2>1 DEF Weighed
  <2>3. m >= 0
    BY <1>2, <2>1, <2>2 DEF NoneNegative
  <2>4. w \in {m, Worth(r)} /\ w <= m /\ w <= Worth(r)
    BY <1>3, <2>1, <2>2, <2>3
  <2>5. \A k \in 1 .. n : Worth(results[i][k]) \in Int
    <3>. SUFFICES ASSUME NEW k \in 1 .. n PROVE Worth(results[i][k]) \in Int
      OBVIOUS
    <3>1. results[i] \in Seq(Results) /\ k \in 1 .. Len(results[i])
      BY DEF TypeOK
    <3>2. results[i][k] \in Results
      BY <3>1
    <3>. QED
      BY <1>2, <3>2, ScoresAreNumbers DEF Worth
  <2>6. Worth(r) \in Int
    BY <1>1, <1>2, ScoresAreNumbers DEF Worth
  <2>7. w \in {FullMark} \cup {Worth(results[i][k]) : k \in 1 .. n + 1}
    BY <2>2, <2>4
  <2>8. \A k \in 1 .. n + 1 : w <= Worth(results[i][k])
    BY <1>2, <1>4, <2>2, <2>4, <2>5, <2>6
  <2>9. w <= FullMark
    BY <1>2, <2>2, <2>4
  <2>. QED
    BY <2>7, <2>8, <2>9
<1>. QED
  BY <1>5, <1>6 DEF Weighed

(* Every step keeps the sums of print_conclusion.                          *)
LEMMA SumsStep == TypeOK /\ TypeOK' /\ Sums /\ [Next]_vars => Sums'
<1>. SUFFICES ASSUME TypeOK, TypeOK', Sums, [Next]_vars PROVE Sums'
  OBVIOUS
<1>. DEFINE Fresh == [i |-> 1, j |-> 0, mark |-> FullMark, marks |-> <<>>]
<1>1. ASSUME sum = Fresh, sum' = sum PROVE Sums'
  <2>1. sum'.i = 1 /\ sum'.j = 0 /\ sum'.mark = FullMark /\ Len(sum'.marks) = 0
    BY <1>1
  <2>2. 1 \in Tests => 0 <= Len(results'[1])
    <3>1. 1 \in Tests => results'[1] \in Seq(Results)
      BY DEF TypeOK
    <3>. QED
      BY <3>1
  <2>3. \A i : Weighed(i, 0, FullMark)'
    BY MarkAssumption DEF Weighed
  <2>. QED
    BY <1>1, <2>1, <2>2, <2>3 DEF Sums
<1>2. phase \notin {"concluding", "done", "interrupted"} => sum = Fresh
  BY DEF Sums
<1>3. ASSUME UNCHANGED <<results, sum>>,
             phase' \in {"concluding", "done", "interrupted"}
      PROVE  Sums'
  BY <1>3 DEF Sums, Weighed, NoneNegative
<1>4. CASE BeginTest
  BY <1>1, <1>2, <1>4 DEF BeginTest
<1>5. CASE FinishTest
  BY <1>1, <1>2, <1>5 DEF FinishTest
<1>6. CASE SkipCase
  BY <1>1, <1>2, <1>6 DEF SkipCase
<1>7. CASE StartCase
  BY <1>1, <1>2, <1>7 DEF StartCase
<1>8. CASE RecordCase
  BY <1>1, <1>2, <1>8 DEF RecordCase
<1>9. CASE \E run \in Runs, h \in Helpers \cup {NoHelper} : Attempt(run, h)
  BY <1>1, <1>2, <1>9 DEF Attempt
<1>10. CASE \E judge \in Helpers \cup {NoHelper} : Judge(judge)
  BY <1>1, <1>2, <1>10 DEF Judge
<1>11. CASE BeginConclusion
  BY <1>1, <1>2, <1>11 DEF BeginConclusion
<1>11a. ASSUME results' = results
       PROVE  \A i, n, m : Weighed(i, n, m)' <=> Weighed(i, n, m)
  BY <1>11a DEF Weighed, NoneNegative, Worth, ScoresNothing
<1>12. CASE WeighCase
  <2>1. /\ phase = "concluding" /\ phase' = phase /\ results' = results
        /\ sum.i \in Tests /\ sum.j < Len(results[sum.i])
        /\ sum' = [sum EXCEPT !.j = sum.j + 1,
                              !.mark = Weigh(sum.mark, results[sum.i][sum.j + 1])]
    BY <1>12 DEF WeighCase
  <2>2. /\ sum'.i = sum.i /\ sum'.j = sum.j + 1 /\ sum'.marks = sum.marks
        /\ sum'.mark = Weigh(sum.mark, results[sum.i][sum.j + 1])
        /\ sum.j \in Nat /\ sum.mark \in Int
    BY <2>1 DEF TypeOK
  <2>3. Len(results[sum.i]) \in Nat
    BY <2>1, LengthsAreNat
  <2>4. Weighed(sum.i, sum.j + 1, Weigh(sum.mark, results[sum.i][sum.j + 1]))
    BY <2>1, <2>2, WeighedOneMore DEF Sums
  <2>5. Weighed(sum.i, sum.j, sum.mark)'
    BY <1>11a, <2>1, <2>2, <2>4
  <2>6. \A i \in 1 .. Len(sum.marks) : Weighed(i, Len(results[i]), sum.marks[i])
    BY DEF Sums
  <2>7. (\A i \in 1 .. Len(sum.marks) :
            i \in Tests /\ Weighed(i, Len(results[i]), sum.marks[i]))'
    BY <1>11a, <2>1, <2>2, <2>6 DEF Sums
  <2>. QED
    BY <2>1, <2>2, <2>3, <2>5, <2>7 DEF Sums
<1>13. CASE CloseTest
  <2>1. /\ phase = "concluding" /\ phase' = phase /\ results' = results
        /\ sum.i \in Tests /\ sum.j = Len(results[sum.i])
        /\ sum' = [i |-> sum.i + 1, j |-> 0, mark |-> FullMark,
                   marks |-> Append(sum.marks, sum.mark)]
    BY <1>13 DEF CloseTest
  <2>2. sum.marks \in Seq(Int) /\ sum.i \in Nat /\ Len(sum.marks) = sum.i - 1
    <3>1. sum.marks \in Seq(Int) /\ sum.i \in 1 .. Len(Size) + 1
      BY DEF TypeOK
    <3>. QED
      BY <2>1, <3>1 DEF Sums, Tests
  <2>3. /\ sum'.i = sum.i + 1 /\ sum'.j = 0 /\ sum'.mark = FullMark
        /\ Len(sum'.marks) = sum.i /\ sum'.marks[sum.i] = sum.mark
        /\ \A k \in 1 .. sum.i - 1 : sum'.marks[k] = sum.marks[k]
    BY <2>1, <2>2
  <2>4. Weighed(sum.i, Len(results[sum.i]), sum'.marks[sum.i])
    BY <2>1, <2>3 DEF Sums
  <2>5. ASSUME NEW i \in 1 .. Len(sum'.marks)
        PROVE  i \in Tests /\ Weighed(i, Len(results[i]), sum'.marks[i])
    <3>1. CASE i = sum.i
      BY <2>1, <2>4, <3>1
    <3>2. CASE i \in 1 .. sum.i - 1
      BY <2>2, <2>3, <3>2 DEF Sums
    <3>. QED
      BY <2>2, <2>3, <3>1, <3>2
  <2>6. (\A i \in 1 .. Len(sum.marks) :
            i \in Tests /\ Weighed(i, Len(results[i]), sum.marks[i]))'
    BY <1>11a, <2>1, <2>5
  <2>7. Weighed(sum.i, sum.j, sum.mark)'
    <3>1. Weighed(sum'.i, 0, FullMark)
      BY NothingWeighed
    <3>. QED
      BY <1>11a, <2>1, <2>3, <3>1
  <2>8. sum'.i \in Tests => 0 <= Len(results'[sum'.i])
    BY <2>1, LengthsAreNat
  <2>. QED
    BY <2>1, <2>2, <2>3, <2>6, <2>7, <2>8 DEF Sums
<1>14. CASE Conclude
  BY <1>3, <1>14 DEF Conclude
<1>15. CASE Interrupt
  BY <1>3, <1>15 DEF Interrupt
<1>16. CASE UNCHANGED vars
  BY <1>16 DEF vars, Sums, Weighed, NoneNegative
<1>. QED
  BY <1>4, <1>5, <1>6, <1>7, <1>8, <1>9, <1>10, <1>11, <1>12, <1>13, <1>14,
     <1>15, <1>16 DEF Next, Work

(* The loop of print_conclusion has the least of what it has passed.       *)
LEMMA SumsInvariant == Spec => []Sums
<1>1. Init => Sums
  <2>. SUFFICES ASSUME Init PROVE Sums
    OBVIOUS
  <2>1. sum.i = 1 /\ sum.j = 0 /\ sum.mark = FullMark /\ Len(sum.marks) = 0
    BY DEF Init
  <2>2. 1 \in Tests => Len(results[1]) = 0
    BY DEF Init
  <2>. QED
    BY <2>1, <2>2, NothingWeighed DEF Sums, Init
<1>. QED
  BY <1>1, SumsStep, TypeCorrect, PTL DEF Spec

(* No test with a case that scored nothing gets a mark, whatever was or    *)
(* would have been scored after it, and the mark of a test is the least    *)
(* its cases are worth.                                                    *)
THEOREM ConclusionIsRight == Spec => []ConclusionRight
<1>1. Sums => ConclusionRight
  BY DEF Sums, Weighed, NoneNegative, ConclusionRight
<1>. QED
  BY <1>1, SumsInvariant, PTL

-----------------------------------------------------------------------------
(* The judging as a whole.                                                 *)
Over == phase \in {"done", "interrupted", "crashed"}

(* What has been recorded of a case, and the mark a test has been given,   *)
(* are never taken back or changed.                                        *)
NothingTakenBack ==
    [][/\ \A i \in Tests : \A k \in 1 .. Len(results[i]) :
             k <= Len(results'[i]) /\ results'[i][k] = results[i][k]
       /\ \A i \in 1 .. Len(sum.marks) :
             i <= Len(sum'.marks) /\ sum'.marks[i] = sum.marks[i]]_vars

(* How much of the judging is left, most significant part first: its two   *)
(* stages, the tests, the cases of the one in hand, the places to go       *)
(* through with a case, and the attempts.                                  *)
Place == [begin |-> 4, pick |-> 3, running |-> 2, judging |-> 1, recording |-> 0]

Remaining ==
    IF Over THEN <<0, 0, 0, 0, 0>>
    ELSE IF phase = "concluding"
    THEN <<1, Len(Size) + 1 - sum.i,
           IF sum.i \in Tests THEN Len(results[sum.i]) - sum.j ELSE 0, 0, 0>>
    ELSE <<2, Len(Size) + 1 - t,
           IF t \in Tests THEN Size[t] - Len(results[t]) ELSE 0,
           Place[phase], IF left > 0 THEN left ELSE 0>>

Measures == [1 .. 5 -> Nat]
Descent == LexProductOrdering(OpToRel(<, Nat), Nat, 5)

Nearer == <<Remaining', Remaining>> \in Descent
EveryStepNearer == [][Nearer]_vars

(* The guards of Work: until the judging is over, one of them holds.       *)
WorkAhead ==
    ~Over =>
        \/ phase = "begin" /\ t \in 1 .. Len(Size) + 1
        \/ phase = "pick" /\ Len(results[t]) <= Size[t]
        \/ phase \in {"running", "judging", "recording"}
        \/ /\ phase = "concluding"
           /\ \/ sum.i \in Tests /\ sum.j <= Len(results[sum.i])
              \/ sum.i = Len(Size) + 1

(* Any record keeps the records there were.                                *)
LEMMA RecordTakesNothing ==
    ASSUME TypeOK, t \in Tests, NEW r \in Results,
           results' = [results EXCEPT ![t] = Append(@, r)]
    PROVE  \A i \in Tests : \A k \in 1 .. Len(results[i]) :
               k <= Len(results'[i]) /\ results'[i][k] = results[i][k]
<1>. SUFFICES ASSUME NEW i \in Tests, NEW k \in 1 .. Len(results[i])
              PROVE  k <= Len(results'[i]) /\ results'[i][k] = results[i][k]
  OBVIOUS
<1>1. CASE i = t
  BY <1>1, Appended
<1>2. CASE i # t
  <2>1. results'[i] = results[i] /\ Len(results[i]) \in Nat
    BY <1>2, Appended, LengthsAreNat
  <2>. QED
    BY <2>1
<1>. QED
  BY <1>1, <1>2

(* The result a step of the jury records, if it records one.               *)
LEMMA OnlyRecords ==
    ASSUME TypeOK, [Next]_vars
    PROVE  \/ results' = results
           \/ /\ t \in Tests
              /\ \E r \in Results : results' = [results EXCEPT ![t] = Append(@, r)]
<1>1. CASE SkipCase
  <2>1. [verdict |-> "ig", score |-> 0] \in Results
    BY DEF Results, VerdictNames
  <2>. QED
    BY <1>1, <2>1 DEF SkipCase, Record, TypeOK
<1>2. CASE RecordCase
  <2>1. /\ [verdict |-> "pt", score |-> 0] \in Results
        /\ [verdict |-> ret.verdict, score |-> ret.score] \in Results
    BY DEF Results, VerdictNames, TypeOK
  <2>. QED
    BY <1>2, <2>1 DEF RecordCase, Record, TypeOK
<1>3. CASE results' = results
  BY <1>3
<1>4. \/ SkipCase \/ RecordCase \/ results' = results
  BY DEF Next, Work, vars, BeginTest, FinishTest, StartCase, Attempt, Judge,
         BeginConclusion, WeighCase, CloseTest, Conclude, Interrupt
<1>. QED
  BY <1>1, <1>2, <1>3, <1>4

(* jury.py:250-262, fmt.py.  What is recorded and what is scored is final: *)
(* a later case, a retry or Ctrl-C changes nothing of it.                  *)
THEOREM RecordsAreFinal == Spec => NothingTakenBack
<1>1. ASSUME TypeOK, [Next]_vars
      PROVE  /\ \A i \in Tests : \A k \in 1 .. Len(results[i]) :
                    k <= Len(results'[i]) /\ results'[i][k] = results[i][k]
             /\ \A i \in 1 .. Len(sum.marks) :
                    i <= Len(sum'.marks) /\ sum'.marks[i] = sum.marks[i]
  <2>1. \A i \in Tests : \A k \in 1 .. Len(results[i]) :
            k <= Len(results'[i]) /\ results'[i][k] = results[i][k]
    <3>1. CASE results' = results
      BY <1>1, <3>1, LengthsAreNat
    <3>. QED
      BY <1>1, <3>1, OnlyRecords, RecordTakesNothing
  <2>2. sum'.marks = sum.marks \/ CloseTest
    BY <1>1 DEF Next, Work, vars, BeginTest, FinishTest, SkipCase, StartCase, RecordCase,
            Attempt, Judge, BeginConclusion, WeighCase, Conclude, Interrupt, TypeOK
  <2>3. sum.marks \in Seq(Int)
    BY <1>1 DEF TypeOK
  <2>4. \A i \in 1 .. Len(sum.marks) :
            i <= Len(sum'.marks) /\ sum'.marks[i] = sum.marks[i]
    <3>1. CASE sum'.marks = sum.marks
      BY <2>3, <3>1
    <3>2. CASE CloseTest
      <4>1. sum'.marks = Append(sum.marks, sum.mark)
        BY <3>2 DEF CloseTest
      <4>. QED
        BY <2>3, <4>1
    <3>. QED
      BY <2>2, <3>1, <3>2
  <2>. QED
    BY <2>1, <2>4
<1>. QED
  BY <1>1, TypeCorrect, PTL DEF Spec, NothingTakenBack

(* The order is the lexicographic one on five natural numbers.             *)
LEMMA DescentIsWellFounded == IsWellFoundedOn(Descent, Measures)
BY NatLessThanWellFounded, WFLexProductOrdering DEF Descent, Measures

(* A lesser component after equal ones is a descent.                       *)
LEMMA Lower ==
    ASSUME NEW a \in Measures, NEW b \in Measures, NEW j \in 1 .. 5,
           a[j] < b[j], \A i \in 1 .. j - 1 : a[i] = b[i]
    PROVE  <<a, b>> \in Descent
<1>1. <<a[j], b[j]>> \in OpToRel(<, Nat)
  BY DEF Measures, OpToRel
<1>. QED
  BY <1>1 DEF Descent, LexProductOrdering, Measures

(* The same, told by the component that falls.                             *)
LEMMA LowerAt ==
    ASSUME NEW a \in Measures, NEW b \in Measures,
           \/ a[1] < b[1]
           \/ a[1] = b[1] /\ a[2] < b[2]
           \/ a[1] = b[1] /\ a[2] = b[2] /\ a[3] < b[3]
           \/ a[1] = b[1] /\ a[2] = b[2] /\ a[3] = b[3] /\ a[4] < b[4]
           \/ a[1] = b[1] /\ a[2] = b[2] /\ a[3] = b[3] /\ a[4] = b[4] /\ a[5] < b[5]
    PROVE  <<a, b>> \in Descent
<1>1. \E j \in 1 .. 5 : a[j] < b[j] /\ \A i \in 1 .. j - 1 : a[i] = b[i]
  <2>1. CASE a[1] < b[1]
    <3>1. 1 \in 1 .. 5 /\ \A i \in 1 .. 1 - 1 : a[i] = b[i]
      OBVIOUS
    <3>. QED
      BY <2>1, <3>1
  <2>2. CASE a[1] = b[1] /\ a[2] < b[2]
    <3>1. 2 \in 1 .. 5 /\ \A i \in 1 .. 2 - 1 : a[i] = b[i]
      BY <2>2
    <3>. QED
      BY <2>2, <3>1
  <2>3. CASE a[1] = b[1] /\ a[2] = b[2] /\ a[3] < b[3]
    <3>1. 3 \in 1 .. 5 /\ \A i \in 1 .. 3 - 1 : a[i] = b[i]
      BY <2>3
    <3>. QED
      BY <2>3, <3>1
  <2>4. CASE a[1] = b[1] /\ a[2] = b[2] /\ a[3] = b[3] /\ a[4] < b[4]
    <3>1. 4 \in 1 .. 5 /\ \A i \in 1 .. 4 - 1 : a[i] = b[i]
      BY <2>4
    <3>. QED
      BY <2>4, <3>1
  <2>5. CASE a[1] = b[1] /\ a[2] = b[2] /\ a[3] = b[3] /\ a[4] = b[4] /\ a[5] < b[5]
    <3>1. 5 \in 1 .. 5 /\ \A i \in 1 .. 5 - 1 : a[i] = b[i]
      BY <2>5
    <3>. QED
      BY <2>5, <3>1
  <2>. QED
    BY <2>1, <2>2, <2>3, <2>4, <2>5
<1>. QED
  BY <1>1, Lower

(* Every part is a natural number: no cursor runs past what it counts.     *)
LEMMA RemainingTyped == TypeOK /\ Places /\ Sums => Remaining \in Measures
<1>. SUFFICES ASSUME TypeOK, Places, Sums PROVE Remaining \in Measures
  OBVIOUS
<1>0. Len(Size) \in Nat
  BY SizeAssumption
<1>1. CASE Over
  BY <1>1 DEF Remaining, Measures
<1>2. CASE ~Over /\ phase = "concluding"
  <2>1. Len(Size) + 1 - sum.i \in Nat
    BY <1>0 DEF TypeOK
  <2>2. (IF sum.i \in Tests THEN Len(results[sum.i]) - sum.j ELSE 0) \in Nat
    <3>1. CASE sum.i \in Tests
      BY <3>1, LengthsAreNat DEF TypeOK, Sums
    <3>. QED
      BY <3>1
  <2>. QED
    BY <1>2, <2>1, <2>2 DEF Remaining, Measures
<1>3. CASE ~Over /\ phase # "concluding"
  <2>1. phase \in InTest \cup {"begin"}
    BY <1>3 DEF TypeOK, Phases, Over, InTest
  <2>2. Len(Size) + 1 - t \in Nat
    BY <1>0 DEF TypeOK
  <2>3. (IF t \in Tests THEN Size[t] - Len(results[t]) ELSE 0) \in Nat
    <3>1. CASE t \in Tests
      <4>1. Len(results[t]) \in Nat /\ Size[t] \in Nat /\ Len(results[t]) <= Size[t]
        BY <2>1, <3>1, LengthsAreNat, SizesArePositive DEF Places, InTest
      <4>. QED
        BY <3>1, <4>1
    <3>. QED
      BY <3>1
  <2>4. Place[phase] \in Nat
    BY <2>1 DEF Place, InTest
  <2>5. (IF left > 0 THEN left ELSE 0) \in Nat
    BY DEF TypeOK
  <2>. QED
    BY <1>3, <2>2, <2>3, <2>4, <2>5 DEF Remaining, Measures
<1>. QED
  BY <1>1, <1>2, <1>3

(* Recording a case, which may stop the judging, leaves one case fewer.    *)
LEMMA RecordNearer ==
    ASSUME TypeOK, Places, Remaining \in Measures, Remaining' \in Measures,
           ~Over, phase \in {"pick", "recording"}, t' = t, phase' \in {"pick", "crashed"},
           NEW r \in Results, results' = [results EXCEPT ![t] = Append(@, r)]
    PROVE  Nearer
<1>1. t \in Tests /\ Remaining[1] = 2
  BY DEF TypeOK, Remaining
<1>2. CASE phase' = "crashed"
  <2>1. Remaining'[1] = 0
    BY <1>2 DEF Remaining, Over
  <2>. QED
    BY <1>1, <2>1, LowerAt DEF Nearer
<1>3. CASE phase' = "pick"
  <2>1. Len(results'[t]) = Len(results[t]) + 1 /\ Len(results[t]) \in Nat /\ Size[t] \in Nat
    BY <1>1, Appended, SizesArePositive
  <2>2. Remaining[2] = Len(Size) + 1 - t /\ Remaining[3] = Size[t] - Len(results[t])
    BY <1>1 DEF Remaining
  <2>3. /\ Remaining'[1] = 2 /\ Remaining'[2] = Len(Size) + 1 - t
        /\ Remaining'[3] = Size[t] - Len(results'[t])
    BY <1>1, <1>3 DEF Remaining, Over
  <2>4. Remaining'[3] < Remaining[3]
    BY <2>1, <2>2, <2>3
  <2>. QED
    BY <1>1, <2>2, <2>3, <2>4, LowerAt DEF Nearer
<1>. QED
  BY <1>2, <1>3

(* Every step of the judging leaves less of it.                            *)
LEMMA StepNearer ==
    ASSUME TypeOK, Places, Sums, Remaining \in Measures, Remaining' \in Measures, Next
    PROVE  Nearer
<1>0. Len(Size) \in Nat
  BY SizeAssumption
<1>1. CASE BeginTest
  <2>1. phase = "begin" /\ phase' = "pick" /\ UNCHANGED <<t, left, results>>
    BY <1>1 DEF BeginTest
  <2>2. /\ Remaining'[1] = Remaining[1] /\ Remaining'[2] = Remaining[2]
        /\ Remaining'[3] = Remaining[3] /\ Remaining'[4] = 3 /\ Remaining[4] = 4
    BY <2>1 DEF Remaining, Over, Place
  <2>. QED
    BY <2>2, LowerAt DEF Nearer
<1>2. CASE FinishTest
  <2>1. phase = "pick" /\ phase' = "begin" /\ t' = t + 1
    BY <1>2 DEF FinishTest
  <2>2. /\ Remaining[1] = 2 /\ Remaining'[1] = 2 /\ Remaining[2] = Len(Size) + 1 - t
        /\ Remaining'[2] = Len(Size) + 1 - (t + 1)
    BY <2>1 DEF Remaining, Over
  <2>3. Remaining'[2] < Remaining[2]
    BY <1>0, <2>2 DEF TypeOK
  <2>. QED
    BY <2>2, <2>3, LowerAt DEF Nearer
<1>3. CASE SkipCase
  <2>1. [verdict |-> "ig", score |-> 0] \in Results
    BY DEF Results, VerdictNames
  <2>. QED
    BY <1>3, <2>1, RecordNearer DEF SkipCase, Record, Over
<1>4. CASE StartCase
  <2>1. phase = "pick" /\ phase' = "running" /\ UNCHANGED <<t, results>>
    BY <1>4 DEF StartCase
  <2>2. /\ Remaining'[1] = Remaining[1] /\ Remaining'[2] = Remaining[2]
        /\ Remaining'[3] = Remaining[3] /\ Remaining'[4] = 2 /\ Remaining[4] = 3
    BY <2>1 DEF Remaining, Over, Place
  <2>. QED
    BY <2>2, LowerAt DEF Nearer
<1>5. CASE RecordCase
  <2>1. /\ [verdict |-> "pt", score |-> 0] \in Results
        /\ [verdict |-> ret.verdict, score |-> ret.score] \in Results
    BY DEF Results, VerdictNames, TypeOK
  <2>. QED
    BY <1>5, <2>1, RecordNearer DEF RecordCase, Record, Over
<1>6. ASSUME NEW run, NEW h, Attempt(run, h) PROVE Nearer
  <2>1. phase = "running" /\ UNCHANGED <<t, results>>
    BY <1>6 DEF Attempt
  <2>2. CASE Retried(run)
    <3>1. phase' = "running" /\ left' = left - 1 /\ left > 0 /\ left \in Int
      BY <1>6, <2>1, <2>2 DEF Attempt, Retried, TypeOK
    <3>2. /\ Remaining'[1] = Remaining[1] /\ Remaining'[2] = Remaining[2]
          /\ Remaining'[3] = Remaining[3] /\ Remaining'[4] = Remaining[4]
          /\ Remaining[5] = left /\ Remaining'[5] = (IF left - 1 > 0 THEN left - 1 ELSE 0)
      BY <2>1, <3>1 DEF Remaining, Over
    <3>3. Remaining'[5] < Remaining[5]
      BY <3>1, <3>2
    <3>. QED
      BY <3>2, <3>3, LowerAt DEF Nearer
  <2>3. CASE ~Retried(run)
    <3>1. phase' = "judging"
      BY <1>6, <2>3 DEF Attempt
    <3>2. /\ Remaining'[1] = Remaining[1] /\ Remaining'[2] = Remaining[2]
          /\ Remaining'[3] = Remaining[3] /\ Remaining'[4] = 1 /\ Remaining[4] = 2
      BY <2>1, <3>1 DEF Remaining, Over, Place
    <3>. QED
      BY <3>2, LowerAt DEF Nearer
  <2>. QED
    BY <2>2, <2>3
<1>7. ASSUME NEW judge, Judge(judge) PROVE Nearer
  <2>1. phase = "judging" /\ phase' = "recording" /\ UNCHANGED <<t, results>>
    BY <1>7 DEF Judge
  <2>2. /\ Remaining'[1] = Remaining[1] /\ Remaining'[2] = Remaining[2]
        /\ Remaining'[3] = Remaining[3] /\ Remaining'[4] = 0 /\ Remaining[4] = 1
    BY <2>1 DEF Remaining, Over, Place
  <2>. QED
    BY <2>2, LowerAt DEF Nearer
<1>8. CASE BeginConclusion
  <2>1. Remaining[1] = 2 /\ Remaining'[1] = 1
    BY <1>8 DEF BeginConclusion, Remaining, Over
  <2>. QED
    BY <2>1, LowerAt DEF Nearer
<1>9. CASE WeighCase
  <2>1. /\ phase = "concluding" /\ phase' = phase /\ results' = results
        /\ sum.i \in Tests /\ sum'.i = sum.i /\ sum'.j = sum.j + 1 /\ sum.j \in Nat
    BY <1>9 DEF WeighCase, TypeOK
  <2>2. /\ Remaining'[1] = Remaining[1] /\ Remaining'[2] = Remaining[2]
        /\ Remaining[3] = Len(results[sum.i]) - sum.j
        /\ Remaining'[3] = Len(results[sum.i]) - (sum.j + 1)
    BY <2>1 DEF Remaining, Over
  <2>3. Remaining'[3] < Remaining[3]
    BY <2>1, <2>2, LengthsAreNat
  <2>. QED
    BY <2>2, <2>3, LowerAt DEF Nearer
<1>10. CASE CloseTest
  <2>1. phase = "concluding" /\ phase' = phase /\ sum'.i = sum.i + 1
    BY <1>10 DEF CloseTest
  <2>2. /\ Remaining'[1] = 1 /\ Remaining[1] = 1 /\ Remaining[2] = Len(Size) + 1 - sum.i
        /\ Remaining'[2] = Len(Size) + 1 - (sum.i + 1)
    BY <2>1 DEF Remaining, Over
  <2>3. Remaining'[2] < Remaining[2]
    BY <1>0, <2>2 DEF TypeOK
  <2>. QED
    BY <2>2, <2>3, LowerAt DEF Nearer
<1>11. CASE Conclude \/ Interrupt
  <2>1. ~Over /\ Over'
    BY <1>11 DEF Conclude, Interrupt, Over
  <2>2. Remaining'[1] = 0 /\ Remaining[1] \in {1, 2}
    BY <2>1 DEF Remaining
  <2>. QED
    BY <2>2, LowerAt DEF Nearer
<1>. QED
  BY <1>1, <1>2, <1>3, <1>4, <1>5, <1>6, <1>7, <1>8, <1>9, <1>10, <1>11 DEF Next, Work

(* jury.py:236-279, fmt.py.  What remains of the judging is a tuple of     *)
(* natural numbers at every moment: no count of tests or of cases falls    *)
(* below zero, neither the jury's nor that of print_conclusion.            *)
THEOREM RemainingIsCounted == Spec => [](Remaining \in Measures)
<1>1. TypeOK /\ Places /\ Sums => Remaining \in Measures
  BY RemainingTyped
<1>. QED
  BY <1>1, TypeCorrect, PlacesInvariant, SumsInvariant, PTL

(* jury.py:236-279, fmt.py.  However the runs end, however many tests,     *)
(* cases and retries there are: every step of the judging, Ctrl-C too,     *)
(* leaves strictly less of it, in an order without endless descents.       *)
THEOREM JudgingDescends == IsWellFoundedOn(Descent, Measures) /\ (Spec => EveryStepNearer)
<1>1. TypeOK /\ Places /\ Sums /\ (Remaining \in Measures) /\ (Remaining \in Measures)'
         /\ [Next]_vars => [Nearer]_vars
  BY StepNearer
<1>2. Spec => EveryStepNearer
  BY <1>1, TypeCorrect, PlacesInvariant, SumsInvariant, RemainingIsCounted, PTL
  DEF Spec, EveryStepNearer
<1>. QED
  BY <1>2, DescentIsWellFounded

(* And it is never stuck: until it is over, a step of the jury's own can   *)
(* be taken, so that it ends in "done" unless it is stopped.               *)
THEOREM WorkIsAhead == Spec => []WorkAhead
<1>1. TypeOK /\ Places /\ Sums => WorkAhead
  <2>. SUFFICES ASSUME TypeOK, Places, Sums, ~Over PROVE WorkAhead
    BY DEF WorkAhead
  <2>1. phase = "pick" => Len(results[t]) <= Size[t]
    BY DEF Places
  <2>2. phase = "concluding" => (sum.i \in Tests /\ sum.j <= Len(results[sum.i]))
                                  \/ sum.i = Len(Size) + 1
    BY SizeAssumption DEF TypeOK, Sums, Tests
  <2>. QED
    BY <2>1, <2>2 DEF WorkAhead, TypeOK, Phases, Over
<1>. QED
  BY <1>1, TypeCorrect, PlacesInvariant, SumsInvariant, PTL

=============================================================================
