-------------------------------- MODULE Jury --------------------------------
(***************************************************************************)
(* Judging a problem (lib/jury.py and selfeval.py main): the tests, which  *)
(* are subtasks, are taken in order; every case of a test is run, run      *)
(* again when it was slightly too slow, judged by the interactor and the   *)
(* checker the problem has, recorded, and printed by lib/fmt.py's          *)
(* LiveStream, whose cursor walks the same tests on its own.  A test that  *)
(* can score no more skips its other cases.  At the end the conclusion     *)
(* gives every test the score of its worst case.                           *)
(*                                                                         *)
(* A sandboxed run is one step here: its promises are RunContract's.       *)
(***************************************************************************)
EXTENDS Integers, Sequences

CONSTANTS Size,      \* Size[t]: the number of cases of test t
          Retries,   \* the values of judgeconf.retry
          Points,    \* the partial scores a checker or an interactor gives
          FullMark   \* the score 1 of an accepted case

ASSUME SizeAssumption == Size \in Seq(Nat \ {0}) /\ Len(Size) > 0
ASSUME MarkAssumption == /\ Retries \subseteq Int
                         /\ Points \subseteq Int
                         /\ FullMark \in Nat \ {0}

Tests == 1 .. Len(Size)

(* "re" also stands for ml, ol and fb, which the jury treats alike; "wa"   *)
(* is a run of a file problem that left no output file.  "tle" is BOX_TLE: *)
(* a time-out without it is a slight one.                                  *)
Runs == [verdict : {"ok", "re", "fail", "wa"}, tle : {FALSE}]
            \cup [verdict : {"tl"}, tle : BOOLEAN]

(* What a checker or an interactor can come to.  "malformed" is an exit    *)
(* with any other text than a wrong answer's, "nan" a score that is not a  *)
(* number, "pipe" a death by SIGPIPE, "broken" one with BOX_SIG, BOX_OLE   *)
(* or BOX_FBD, "overrun" one with BOX_TLE or BOX_MLE, "fail" whatever else *)
(* is not ok.  "none": there was no such run.                              *)
Helpers == [kind : {"ok", "wrong", "malformed", "nan", "pipe", "broken",
                    "overrun", "fail"}, score : {0}]
               \cup [kind : {"points"}, score : Points]

NoHelper == [kind |-> "none", score |-> 0]

(* Test-point settings: "unset" leaves the value of the settings below. *)
Choices == {"unset", "on", "off"}

VARIABLES
    problem,  \* what the jury is given: see Problems
    t,        \* the test in hand
    phase,    \* where main, jury_test and jury are
    keep,     \* testconf.keep, as in force for the test in hand
    jump,     \* the rest of the test is skipped
    left,     \* retry: the attempts left
    case,     \* the case in hand: its last run, its helpers, its attempts
    ret,      \* the verdict of the case in hand
    results,  \* results[t]: what was recorded for the cases of test t
    live,     \* LiveStream: the cursor
    sum       \* print_conclusion: its loop, and the marks it has given

vars == <<problem, t, phase, keep, jump, left, case, ret, results, live, sum>>
judged == <<keep, jump, left, case, ret>>

Problems == [retry : Retries, interactor : BOOLEAN, checker : BOOLEAN,
             fileio : BOOLEAN, keep : BOOLEAN, own : [Tests -> Choices]]

Phases == {"begin", "pick", "running", "judging", "recording",
           "concluding", "done", "interrupted", "crashed"}

VerdictNames == {"ac", "wa", "pt", "il", "ig", "re", "tl", "fail"}
Results == [verdict : VerdictNames, score : Points \cup {0}]

NoCase == [run |-> [verdict |-> "ok", tle |-> FALSE], interactor |-> NoHelper,
           judge |-> NoHelper, tries |-> 0]
NoRet  == [verdict |-> "ig", score |-> 0, nan |-> FALSE]

(* File problems have no interactor: main turns them down. *)
Init ==
    /\ problem \in {p \in Problems : ~(p.fileio /\ p.interactor)}
    /\ t = 1 /\ phase = "begin"
    /\ keep = FALSE /\ jump = FALSE /\ left = 0
    /\ case = NoCase /\ ret = NoRet
    /\ results = [i \in Tests |-> <<>>]
    /\ live = [x |-> 1, y |-> 0]
    /\ sum = [i |-> 1, j |-> 0, mark |-> FullMark, marks |-> <<>>]

(***************************************************************************)
(* LiveStream.                                                             *)
(***************************************************************************)
Here(cursor) == cursor.x \in Tests /\ cursor.y < Len(results'[cursor.x])

(* A mutated Advance: the row is not reset for the next test. *)
AdvanceKeepsRow(cursor) ==
    IF cursor.y + 1 = Size[cursor.x]
    THEN [x |-> cursor.x + 1, y |-> cursor.y + 1]
    ELSE [x |-> cursor.x, y |-> cursor.y + 1]

(* No test is empty (collect_test drops it): one step finds the next case. *)
Advance(cursor) ==
    IF cursor.y + 1 = Size[cursor.x] THEN [x |-> cursor.x + 1, y |-> 0]
    ELSE [x |-> cursor.x, y |-> cursor.y + 1]

(* Record a result and print the case under the cursor, which has to have  *)
(* one: a cursor astray is an IndexError.                                  *)
Record(r) ==
    /\ results' = [results EXCEPT ![t] = Append(@, r)]
    /\ IF Here(live) THEN live' = Advance(live) /\ phase' = "pick"
       ELSE phase' = "crashed" /\ live' = live

(***************************************************************************)
(* jury_test: the cases of a test.                                         *)
(***************************************************************************)
Update(base, own) == IF own = "unset" THEN base ELSE own = "on"

(* Every test starts from a copy of the settings common to all tests. *)
InForce(i) == Update(problem.keep, problem.own[i])

(* A mutated BeginTest: the settings of the last test are still there. *)
BeginTestLeaking ==
    /\ phase = "begin" /\ t \in Tests
    /\ keep' = Update(IF t = 1 THEN problem.keep ELSE keep, problem.own[t])
    /\ jump' = FALSE
    /\ phase' = "pick"
    /\ UNCHANGED <<problem, t, left, case, ret, results, live, sum>>

BeginTest ==
    /\ phase = "begin" /\ t \in Tests
    /\ keep' = InForce(t) /\ jump' = FALSE
    /\ phase' = "pick"
    /\ UNCHANGED <<problem, t, left, case, ret, results, live, sum>>

(* A mutated FinishTest: one case more is waited for. *)
FinishTestLate ==
    /\ phase = "pick" /\ Len(results[t]) > Size[t]
    /\ t' = t + 1 /\ phase' = "begin"
    /\ UNCHANGED <<problem, judged, results, live, sum>>

FinishTest ==
    /\ phase = "pick" /\ Len(results[t]) = Size[t]
    /\ t' = t + 1 /\ phase' = "begin"
    /\ UNCHANGED <<problem, judged, results, live, sum>>

SkipCase ==
    /\ phase = "pick" /\ Len(results[t]) < Size[t] /\ jump
    /\ Record([verdict |-> "ig", score |-> 0])
    /\ UNCHANGED <<problem, t, judged, sum>>

StartCase ==
    /\ phase = "pick" /\ Len(results[t]) < Size[t] /\ ~jump
    /\ left' = problem.retry /\ phase' = "running"
    /\ UNCHANGED <<problem, t, keep, jump, case, ret, results, live, sum>>

(***************************************************************************)
(* jury: one case.                                                         *)
(***************************************************************************)
Slight(run) == run.verdict = "tl" /\ ~run.tle

(* A mutated Retried: one attempt too many. *)
RetriedOnceMore(run) == Slight(run) /\ left >= 0

Retried(run) == Slight(run) /\ left > 0

Attempt(run, h) ==
    /\ phase = "running"
    /\ run.verdict = "wa" => problem.fileio
    /\ (h = NoHelper) = ~problem.interactor
    /\ case' = [case EXCEPT !.run = run, !.interactor = h, !.tries = @ + 1]
    /\ IF Retried(run) THEN left' = left - 1 /\ phase' = phase
       ELSE left' = left /\ phase' = "judging"
    /\ UNCHANGED <<problem, t, keep, jump, ret, results, live, sum>>

(* read_checklog: the verdict a helper's end and first line stand for. *)
ReadChecklog(h) ==
    LET verdict == CASE h.kind = "ok" -> "ac"
                     [] h.kind \in {"points", "nan"} -> "pt"
                     [] h.kind \in {"wrong", "malformed"} -> "wa"
                     [] OTHER -> "fail"
    IN  [verdict |-> verdict, score |-> h.score, nan |-> h.kind = "nan"]

Plain(v) == [verdict |-> v, score |-> 0, nan |-> FALSE]

(* The interactor's own misfortunes and what is made of them. *)
Aborted == {"pipe", "broken", "overrun"}
OfAborted(run, kind) ==
    CASE kind = "pipe"   -> Plain("il")
      [] kind = "broken" -> Plain("fail")
      [] kind = "overrun" -> Plain(IF run.verdict = "ok" THEN "il" ELSE run.verdict)

OfInteractor(h) == IF h.kind = "malformed" THEN Plain("il") ELSE ReadChecklog(h)

(* diff tells same from different; any other end of it is a failure. *)
OfDiff(h) == Plain(CASE h.kind = "ok" -> "ac"
                     [] h.kind = "wrong" -> "wa"
                     [] OTHER -> "fail")

(* Mutated Clean: the run of a program that crashed is checked too; the    *)
(* interactor's word is not asked for.                                     *)
CleanWhatever == problem.interactor => case.interactor.kind = "ok"
CleanAlone == case.run.verdict = "ok" /\ ~problem.interactor

(* Nothing is decided yet: the output is worth looking at. *)
Clean == /\ problem.interactor => case.interactor.kind = "ok"
         /\ case.run.verdict = "ok"

Checks == problem.checker \/ ~problem.interactor

(* A mutated Settle: the interactor's accident hides the program's. *)
SettleBlamingTheProgram(judge) ==
    IF problem.interactor /\ case.interactor.kind = "overrun" THEN Plain("re")
    ELSE IF problem.interactor /\ case.interactor.kind \in Aborted
    THEN OfAborted(case.run, case.interactor.kind)
    ELSE IF problem.interactor /\ case.interactor.kind # "ok"
    THEN OfInteractor(case.interactor)
    ELSE IF ~Clean THEN Plain(case.run.verdict)
    ELSE IF ~Checks THEN ReadChecklog(case.interactor)
    ELSE IF problem.checker THEN ReadChecklog(judge)
    ELSE OfDiff(judge)

Settle(judge) ==
    IF problem.interactor /\ case.interactor.kind \in Aborted
    THEN OfAborted(case.run, case.interactor.kind)
    ELSE IF problem.interactor /\ case.interactor.kind # "ok"
    THEN OfInteractor(case.interactor)
    ELSE IF ~Clean THEN Plain(case.run.verdict)
    ELSE IF ~Checks THEN ReadChecklog(case.interactor)
    ELSE IF problem.checker THEN ReadChecklog(judge)
    ELSE OfDiff(judge)

Judge(judge) ==
    /\ phase = "judging"
    /\ (judge = NoHelper) = ~(Clean /\ Checks)
    /\ case' = [case EXCEPT !.judge = judge]
    /\ ret' = Settle(judge)
    /\ phase' = "recording"
    /\ UNCHANGED <<problem, t, keep, jump, left, results, live, sum>>

(* A mutated ScoresNothing: partial scores are taken for failures. *)
ScoresNothingUnlessAc(r) == r.verdict # "ac"

ScoresNothing(r) == r.verdict # "ac" /\ ~(r.verdict = "pt" /\ r.score > 0)

(* The rest of jury_test's loop, where comparing a NaN with 0 raises; what *)
(* jury kept for the case is gone.                                         *)
RecordCase ==
    /\ phase = "recording"
    /\ IF ret.nan
       THEN /\ results' = [results EXCEPT ![t] =
                             Append(@, [verdict |-> "pt", score |-> 0])]
            /\ phase' = "crashed"
            /\ UNCHANGED <<jump, live, ret>>
       ELSE /\ Record([verdict |-> ret.verdict, score |-> ret.score])
            /\ jump' = (jump \/ (ScoresNothing(ret) /\ ~keep))
            /\ ret' = NoRet
    /\ left' = 0 /\ case' = NoCase
    /\ UNCHANGED <<problem, t, keep, sum>>

(* Ctrl-C: main is left; starter reports it. *)
Interrupt ==
    /\ phase \notin {"done", "interrupted", "crashed"}
    /\ phase' = "interrupted"
    /\ UNCHANGED <<problem, t, judged, results, live, sum>>

(***************************************************************************)
(* LiveStream.print_conclusion.                                            *)
(***************************************************************************)
BeginConclusion ==
    /\ phase = "begin" /\ t = Len(Size) + 1
    /\ phase' = "concluding"
    /\ UNCHANGED <<problem, t, judged, results, live, sum>>

Lesser(a, b) == IF a <= b THEN a ELSE b

(* A mutated Weigh: the last partial score counts. *)
WeighLast(mark, r) ==
    IF r.verdict = "pt" THEN r.score
    ELSE IF r.verdict = "ac" THEN mark ELSE 0

Weigh(mark, r) ==
    IF r.verdict = "pt" THEN Lesser(mark, r.score)
    ELSE IF r.verdict = "ac" THEN mark ELSE 0

WeighCase ==
    /\ phase = "concluding" /\ sum.i \in Tests /\ sum.j < Len(results[sum.i])
    /\ sum' = [sum EXCEPT !.j = @ + 1,
                          !.mark = Weigh(@, results[sum.i][sum.j + 1])]
    /\ UNCHANGED <<problem, t, phase, judged, results, live>>

CloseTest ==
    /\ phase = "concluding" /\ sum.i \in Tests /\ sum.j = Len(results[sum.i])
    /\ sum' = [i |-> sum.i + 1, j |-> 0, mark |-> FullMark,
               marks |-> Append(sum.marks, sum.mark)]
    /\ UNCHANGED <<problem, t, phase, judged, results, live>>

Conclude ==
    /\ phase = "concluding" /\ sum.i = Len(Size) + 1
    /\ phase' = "done"
    /\ UNCHANGED <<problem, t, judged, results, live, sum>>

-----------------------------------------------------------------------------
Work ==
    \/ BeginTest \/ FinishTest \/ SkipCase \/ StartCase \/ RecordCase
    \/ \E run \in Runs, h \in Helpers \cup {NoHelper} : Attempt(run, h)
    \/ \E judge \in Helpers \cup {NoHelper} : Judge(judge)
    \/ BeginConclusion \/ WeighCase \/ CloseTest \/ Conclude

Next == Work \/ Interrupt

Spec == Init /\ [][Next]_vars

(* The jury is one thread, and every run it waits for ends (EveryRunJudged *)
(* of SandboxRun).                                                         *)
FairSpec == Spec /\ WF_vars(Work)

-----------------------------------------------------------------------------
(* The types of what main, jury_test, jury and LiveStream keep.            *)
TypeOK ==
    /\ problem \in Problems
    /\ t \in 1 .. Len(Size) + 1
    /\ phase \in Phases
    /\ phase \in {"pick", "running", "judging", "recording"} => t \in Tests
    /\ keep \in BOOLEAN /\ jump \in BOOLEAN
    /\ left \in Int
    /\ case \in [run : Runs, interactor : Helpers \cup {NoHelper},
                 judge : Helpers \cup {NoHelper}, tries : Nat]
    /\ ret \in [verdict : VerdictNames, score : Points \cup {0}, nan : BOOLEAN]
    /\ results \in [Tests -> Seq(Results)]
    /\ live \in [x : 1 .. Len(Size) + 1, y : Nat]
    /\ sum \in [i : 1 .. Len(Size) + 1, j : Nat,
                mark : Int, marks : Seq(Int)]

(* LiveStream walks the tests on its own and never loses the jury: what is *)
(* printed is always the case just recorded, the cursor has left the last  *)
(* test when the judging ends, and only a score that is not a number stops *)
(* the judging by an exception.  (fmt.py println, end)                     *)
CursorInSync ==
    /\ phase = "crashed" => ret.nan
    /\ phase \in {"running", "judging", "recording"} =>
           live = [x |-> t, y |-> Len(results[t])]
    /\ phase = "pick" =>
           live = IF Len(results[t]) = Size[t] THEN [x |-> t + 1, y |-> 0]
                  ELSE [x |-> t, y |-> Len(results[t])]
    /\ phase = "begin" => live = [x |-> t, y |-> 0]
    /\ phase \in {"concluding", "done"} =>
           /\ live.x = Len(Size) + 1
           /\ \A i \in Tests : Len(results[i]) = Size[i]

(* An accepted case was earned: the program's own last run ended well, and *)
(* so did every helper the problem has; none of them is passed over.       *)
(* (jury's chain of decisions)                                             *)
AcIsEarned ==
    phase = "recording" /\ ret.verdict = "ac" =>
        /\ case.run.verdict = "ok"
        /\ problem.interactor => case.interactor.kind = "ok"
        /\ Checks => case.judge.kind = "ok"

(* Nobody is blamed for another's accident: a time-out or a crash is told  *)
(* of the program only if its own last run ended so, a failure of the jury *)
(* only if a run of the jury's failed, and a wrong answer in a problem     *)
(* without an interactor only if the output of a good run was turned down  *)
(* or is missing.                                                          *)
BlameIsOwn ==
    phase = "recording" =>
        /\ ret.verdict \in {"tl", "re"} => case.run.verdict = ret.verdict
        /\ ret.verdict = "fail" =>
               \/ case.run.verdict = "fail"
               \/ case.interactor.kind \in {"broken", "fail"}
               \/ case.judge.kind \notin {"none", "ok", "wrong"}
        /\ ret.verdict = "wa" /\ ~problem.interactor =>
               case.run.verdict = "wa" \/ case.judge.kind \in {"wrong", "malformed"}

Allowed == IF problem.retry > 0 THEN problem.retry ELSE 0

(* The retries are for slight time-outs, and all of them are used: a case  *)
(* recorded as slightly too slow was so in 1 + retry attempts, and no case *)
(* is attempted more often than that.                                      *)
RetriesSpent ==
    phase \in {"judging", "recording"} =>
        /\ case.tries \in 1 .. 1 + Allowed
        /\ Slight(case.run) => case.tries = 1 + Allowed

(* A case is skipped only where the settings of its own test say so and    *)
(* only after a case of the same test that was judged and scored nothing.  *)
SkippedOnlyWhenLost ==
    \A i \in Tests : \A k \in 1 .. Len(results[i]) :
        results[i][k].verdict = "ig" =>
            /\ ~InForce(i)
            /\ \E m \in 1 .. k - 1 : /\ results[i][m].verdict # "ig"
                                     /\ ScoresNothing(results[i][m])

Worth(r) == CASE r.verdict = "ac" -> FullMark
              [] r.verdict = "pt" -> r.score
              [] OTHER -> 0

(* The conclusion is right.  Skipping costs nothing: a test with a case that *)
(* scored nothing ends without a positive mark, whatever the cases after it  *)
(* were to score.  And while no score is negative, the mark of a test is     *)
(* what its worst case is worth, and at most the full mark.                  *)
(* (print_conclusion, on the cases jury_test leaves it)                      *)
ConclusionRight ==
    \A i \in 1 .. Len(sum.marks) :
        LET worths == {FullMark} \cup {Worth(results[i][k]) : k \in 1 .. Len(results[i])}
        IN  /\ (\E k \in 1 .. Len(results[i]) : ScoresNothing(results[i][k]))
                  => sum.marks[i] <= 0
            /\ (\A w \in worths : w >= 0) =>
                  /\ sum.marks[i] \in worths
                  /\ \A w \in worths : sum.marks[i] <= w

(* The judging ends: retries run out, and every case of every test is      *)
(* recorded, unless Ctrl-C or a score that is not a number ends it.        *)
Finishes == <>(phase \in {"done", "interrupted", "crashed"})

=============================================================================
