------------------------------- MODULE Collect -------------------------------
(***************************************************************************)
(* Collecting test data (lib/collect.py): the files of the data directory  *)
(* are listed in the order the file system gives them, and every input is  *)
(* paired with its answer while they come by.  An answer may come before   *)
(* its input or after it; two sets remember which of the two was missed so *)
(* far, and what is left in them at the end is told to the user.           *)
(*                                                                         *)
(* A file is its directory, "root" or a subtask's, and its name, split at  *)
(* the dots.  Each component may mark it as an input or as an answer.      *)
(* Directories are listed one after the other; that files of two may come  *)
(* mixed here adds orders only.  Programs and headers are in Prepare.      *)
(* Symbolic links, which the documentation rules out, are not modelled,    *)
(* nor is the strict matching that no caller asks for.                     *)
(***************************************************************************)
EXTENDS Naturals, Sequences, FiniteSets

CONSTANTS
    Files,   \* the files a data directory may have: [dir, name]
    Parts    \* what stands between the dots of their names

ASSUME FilesAssumption ==
    \A f \in Files : f = [dir |-> f.dir, name |-> f.name] /\ f.name \in Seq(Parts)

VARIABLES
    dir,      \* the files there are, while they are listed
    todo,     \* those not listed yet
    ansfile,  \* _ansfile: answers listed without an input
    matched,  \* _matched_ansfile: answers taken by an input before they came by
    tests     \* the pairs found: [input, answer]

cvars == <<dir, todo, ansfile, matched, tests>>

AnsfileExts == {"ans", "out"}

InMarks(f) == {i \in DOMAIN f.name : f.name[i] = "in"}
AnsMarks(f) == {i \in DOMAIN f.name : f.name[i] \in AnsfileExts}

(* _find_ansfile_free goes through the components: an answer's mark after an *)
(* input's makes the file neither; before it, it does not count.             *)
Ambiguous(f) == \E i \in InMarks(f), j \in AnsMarks(f) : i < j

(* A mutated IsInput: any input's mark will do. *)
IsInputAnyway(f) == InMarks(f) # {}

IsInput(f) == InMarks(f) # {} /\ ~Ambiguous(f)
IsAnswer(f) == InMarks(f) = {} /\ AnsMarks(f) # {}

Marked(f, i, ext) == [f EXCEPT !.name[i] = ext]

(* A mutated Claims: nobody looks whether there is such a file. *)
ClaimsUnseen(f) == {Marked(f, i, ext) : i \in InMarks(f), ext \in AnsfileExts}

(* The answers an input takes: its name with one mark replaced, if that file *)
(* exists.                                                                   *)
Claims(f) == {a \in dir : \E i \in InMarks(f), ext \in AnsfileExts : a = Marked(f, i, ext)}

(* The first of them, in the order of the components and then of the marks.  *)
First(f, a) ==
    /\ a \in Claims(f)
    /\ \E i \in InMarks(f), ext \in AnsfileExts :
          /\ a = Marked(f, i, ext)
          /\ \A j \in InMarks(f) : j < i =>
                \A x \in AnsfileExts : Marked(f, j, x) \notin dir
          /\ ext = "out" => Marked(f, i, "ans") \notin dir

CollectInit ==
    /\ dir \in SUBSET Files /\ todo = dir
    /\ ansfile = {} /\ matched = {} /\ tests = {}

-----------------------------------------------------------------------------
(* find_testcase, for one file. *)

ListInput(f) ==
    /\ IsInput(f)
    /\ ansfile' = ansfile \ Claims(f)
    /\ matched' = matched \cup (Claims(f) \ ansfile)
    /\ IF Claims(f) = {}
       THEN UNCHANGED tests
       ELSE \E a \in dir : First(f, a) /\ tests' = tests \cup {[input |-> f, answer |-> a]}

(* A mutated ListAnswer: an answer already taken is remembered all the same. *)
ListAnswerAgain(f) ==
    /\ IsAnswer(f)
    /\ ansfile' = ansfile \cup {f} /\ matched' = matched \ {f}
    /\ UNCHANGED tests

ListAnswer(f) ==
    /\ IsAnswer(f)
    /\ IF f \in matched
       THEN matched' = matched \ {f} /\ UNCHANGED ansfile
       ELSE ansfile' = ansfile \cup {f} /\ UNCHANGED matched
    /\ UNCHANGED tests

ListOther(f) == ~IsInput(f) /\ ~IsAnswer(f) /\ UNCHANGED <<ansfile, matched, tests>>

(* process_file, for a file that is no program and no header. *)
ListFile(f) ==
    /\ f \in todo
    /\ todo' = todo \ {f} /\ UNCHANGED dir
    /\ ListInput(f) \/ ListAnswer(f) \/ ListOther(f)

-----------------------------------------------------------------------------
(* Properties. *)

CollectTypes ==
    /\ dir \subseteq Files /\ todo \subseteq dir
    /\ ansfile \subseteq dir /\ matched \subseteq dir
    /\ tests \subseteq [input : Files, answer : Files]

Listed == dir \ todo
Inputs == {f \in Listed : IsInput(f)}
Claimed == UNION {Claims(f) : f \in Inputs}

(* In whatever order the files come by, the sets hold at any time what the   *)
(* files listed so far say: the answers no input has taken, and the files    *)
(* taken that have not come by as answers.  At the end the user is told of   *)
(* exactly those.                                                            *)
LeftoversExact ==
    /\ ansfile = {a \in Listed : IsAnswer(a)} \ Claimed
    /\ matched = Claimed \ {a \in Listed : IsAnswer(a)}

(* Every input that has an answer is a test of its own, and no two tests     *)
(* share an answer, though a name has many components to be marked.          *)
PairsRight ==
    /\ \A p, q \in tests : p.answer = q.answer => p = q
    /\ \A f \in Inputs : Claims(f) # {} => \E p \in tests : p.input = f
    /\ \A p \in tests : IsInput(p.input) /\ p.answer.dir = p.input.dir

=============================================================================
