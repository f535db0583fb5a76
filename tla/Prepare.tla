------------------------------- MODULE Prepare -------------------------------
(***************************************************************************)
(* From the command line to the first judged case (selfeval.py main,       *)
(* collect_problem, compile_program): the test data are collected, the     *)
(* checker and the interactor to use are chosen among the files found by   *)
(* their modification times, manifest.json may name others, binaries older *)
(* than it are given up for sources, and what is left is compiled, or used *)
(* as it is when it is an executable that passes for up to date.           *)
(*                                                                         *)
(* The times of the files do not change meanwhile; what if they do is the  *)
(* matter of CompileCache.  A compiled program may come from that cache.   *)
(***************************************************************************)
EXTENDS Collect

CONSTANTS
    Programs,   \* sources and executables: the contestant's, checkers, interactors
    Headers,    \* header files a directory may have
    Graders,    \* graders it may have
    Kind,       \* what a program is: [Programs -> Kinds]
    Elf,        \* the programs that are executables (is_xok)
    Mtime,      \* the modification times of all these and of "Makefile"
    Now         \* the time it is

Helpers == {"checker", "interactor"}
Kinds == Helpers \cup {"program"}
Timed == Programs \cup Headers \cup Graders \cup {"Makefile"}

ASSUME PrepareAssumption ==
    /\ Kind \in [Programs -> Kinds] /\ Elf \subseteq Programs
    /\ Mtime \in [Timed -> Nat \ {0}] /\ Now \in Nat
    /\ {"none", "missing", "unnamed"} \cap Programs = {}

VARIABLES
    phase,     \* where main is
    kind,      \* which program it has in hand
    found,     \* history: the checkers and interactors collected
    use,       \* problem.checker, problem.interactor, and the source
    backup,    \* problem.checker_backup, problem.interactor_backup
    headers,   \* problem.headers
    graders,   \* problem.graders
    t,         \* the time of the latest manifest.json, 0 if there is none
    named,     \* history: what the manifest names
    name,      \* problem.name is given
    made,      \* what each program is or was compiled from
    compiled   \* history: what was handed to the compiler

pvars == <<phase, kind, found, use, backup, headers, graders, t, named, name,
           made, compiled>>
vars == <<cvars, pvars>>

Of(k, S) == {p \in S : Kind[p] = k}

(* The first of the list sorted by time, newest first; of equal ones, any. *)
Newest(S) == IF S = {} THEN {"none"} ELSE {p \in S : \A q \in S : Mtime[q] <= Mtime[p]}

Init ==
    /\ CollectInit
    /\ phase = "starter" /\ kind = "checker"
    /\ found = {} /\ headers = {} /\ graders = {}
    /\ use = [k \in Kinds |-> "none"] /\ backup = [k \in Kinds |-> "none"]
    /\ t = 0 /\ named = [k \in Helpers |-> "unnamed"] /\ name = FALSE
    /\ made = [k \in Kinds |-> "none"] /\ compiled = {}

-----------------------------------------------------------------------------
(* starter: the first file of the command line, or 1.cpp, or nothing. *)
Starter ==
    /\ phase = "starter"
    /\ \/ /\ \E p \in Of("program", Programs) : use' = [use EXCEPT !["program"] = p]
          /\ phase' = "collect"
       \/ phase' = "failed" /\ UNCHANGED use
    /\ UNCHANGED <<cvars, kind, found, backup, headers, graders, t, named, name,
                   made, compiled>>

List ==
    /\ phase = "collect" /\ \E f \in todo : ListFile(f)
    /\ UNCHANGED pvars

(* The newest program of a kind is used, and the newest of the others that   *)
(* is no executable is kept in reserve.                                      *)
Choices(k, S) ==
    {c \in [use : Newest(Of(k, S)), backup : S \cup {"none"}] :
        c.backup \in Newest(Of(k, S) \ ({c.use} \cup Elf))}

(* What process_file puts aside while the directories are listed, and the    *)
(* end of collect_problem.  The lists are cleared; without tests there is    *)
(* nothing to do.  The data directory does not count any more.               *)
Settle ==
    /\ phase = "collect" /\ todo = {}
    /\ found' \in SUBSET (Of("checker", Programs) \cup Of("interactor", Programs))
    /\ headers' \in SUBSET Headers /\ graders' \in SUBSET Graders
    /\ \E c \in Choices("checker", found'), i \in Choices("interactor", found') :
          /\ use' = [use EXCEPT !["checker"] = c.use, !["interactor"] = i.use]
          /\ backup' = [backup EXCEPT !["checker"] = c.backup, !["interactor"] = i.backup]
    /\ dir' = {} /\ ansfile' = {} /\ matched' = {}
    /\ phase' = IF tests = {} THEN "nodata" ELSE "manifest"
    /\ UNCHANGED <<todo, tests, kind, t, named, name, made, compiled>>

Namings(k) == Of(k, Programs) \cup {"none", "missing", "unnamed"}

(* manifest.json: its time counts whether it can be read or not.  It may     *)
(* name a checker, an interactor or none, a file name, and its own headers   *)
(* and graders.                                                              *)
ReadManifest ==
    /\ phase = "manifest"
    /\ t' \in 1 .. Now
    /\ \E c \in Namings("checker"), i \in Namings("interactor") :
          named' = [k \in Helpers |-> IF k = "checker" THEN c ELSE i]
    /\ use' = [k \in Kinds |-> IF k \in Helpers /\ named'[k] # "unnamed"
                               THEN named'[k] ELSE use[k]]
    /\ name' \in BOOLEAN
    /\ headers' \in SUBSET Headers /\ graders' \in SUBSET Graders
    /\ phase' = "stale"
    /\ UNCHANGED <<cvars, kind, found, backup, made, compiled>>

NoManifest ==
    /\ phase = "manifest" /\ phase' = "stale"
    /\ UNCHANGED <<cvars, kind, found, use, backup, headers, graders, t, named,
                   name, made, compiled>>

-----------------------------------------------------------------------------
(* The checker first, then the interactor. *)
Advance(next) ==
    IF kind = "interactor"
    THEN phase' = next /\ kind' = "program"
    ELSE /\ kind' = IF kind = "program" THEN "checker" ELSE "interactor"
         /\ UNCHANGED phase

(* A mutated Outdated: one as old as the manifest will do. *)
OutdatedIfOlder(p) == p \in Elf /\ t > Mtime[p]

Outdated(p) == p \in Elf /\ t >= Mtime[p]

(* An executable not newer than the manifest gives way to the source in      *)
(* reserve.  A file that is not there raises FileNotFoundError.              *)
Stale ==
    /\ phase = "stale"
    /\ LET p == use[kind] IN
       CASE p = "none" -> Advance("names") /\ UNCHANGED use
         [] p = "missing" -> phase' = "raised" /\ UNCHANGED <<kind, use>>
         [] OTHER ->
            IF Outdated(p)
            THEN /\ use' = [use EXCEPT ![kind] = backup[kind]]
                 /\ IF backup[kind] = "none" THEN phase' = "failed" /\ UNCHANGED kind
                                             ELSE Advance("names")
            ELSE Advance("names") /\ UNCHANGED use
    /\ UNCHANGED <<cvars, found, backup, headers, graders, t, named, name, made,
                   compiled>>

(* File reading and an interactor exclude one another. *)
Names ==
    /\ phase = "names"
    /\ phase' = IF name /\ use["interactor"] # "none" THEN "failed" ELSE "build"
    /\ UNCHANGED <<cvars, kind, found, use, backup, headers, graders, t, named,
                   name, made, compiled>>

-----------------------------------------------------------------------------
(* compile_program. *)

(* With the Makefile flag the Makefile joins the headers, which are the      *)
(* problem's: the programs compiled later have it too.  Graders are the      *)
(* contestant's program's alone.                                             *)
Sides(hs) == hs \cup (IF kind = "program" THEN graders ELSE {})

(* is_xok(source): used as it is if it is older than all of them, where one  *)
(* would expect newer, and nothing is from the future.                       *)
Reusable(p, hs) ==
    /\ p \in Elf /\ Mtime[p] <= Now
    /\ \A h \in Sides(hs) : Mtime[h] <= Now /\ Mtime[p] < Mtime[h]

(* What to compile: the source in reserve, for an executable. *)
SourceOf(p) == IF p \in Elf THEN backup[kind] ELSE p

Built(p) ==
    /\ made' = [made EXCEPT ![kind] = p]
    /\ Advance("judge")
    /\ UNCHANGED <<cvars, found, use, backup, graders, t, named, name>>

Compile ==
    /\ phase = "build" /\ use[kind] # "none"
    /\ headers' \in {headers, headers \cup {"Makefile"}}
    /\ IF Reusable(use[kind], headers')
       THEN Built(use[kind]) /\ UNCHANGED compiled
       ELSE /\ SourceOf(use[kind]) # "none"
            /\ Built(SourceOf(use[kind]))
            /\ compiled' = compiled \cup {SourceOf(use[kind])}

(* A mutated CompileFails: main goes on without the program. *)
CompileFailsUnseen ==
    /\ phase = "build" /\ use[kind] # "none"
    /\ Built("none") /\ UNCHANGED <<headers, compiled>>

(* No testlib, no Makefile or an unknown language; no source; or it does not *)
(* compile: compile_program returns None, and main gives up.                 *)
CompileFails ==
    /\ phase = "build" /\ use[kind] # "none"
    /\ phase' = "failed"
    /\ UNCHANGED <<cvars, kind, found, use, backup, headers, graders, t, named,
                   name, made, compiled>>

(* A problem without a checker, or without an interactor. *)
NoHelper ==
    /\ phase = "build" /\ use[kind] = "none"
    /\ Built("none") /\ UNCHANGED <<headers, compiled>>

Next ==
    \/ Starter \/ List \/ Settle \/ ReadManifest \/ NoManifest
    \/ Stale \/ Names \/ Compile \/ CompileFails \/ NoHelper

Spec == Init /\ [][Next]_vars

-----------------------------------------------------------------------------
(* Properties. *)

Slots == Programs \cup {"none", "missing"}

TypeOK ==
    /\ CollectTypes
    /\ phase \in {"starter", "collect", "manifest", "stale", "names", "build",
                  "judge", "nodata", "failed", "raised"}
    /\ kind \in Kinds /\ found \subseteq Programs
    /\ use \in [Kinds -> Slots] /\ backup \in [Kinds -> Programs \cup {"none"}]
    /\ headers \subseteq Headers \cup {"Makefile"} /\ graders \subseteq Graders
    /\ t \in 0 .. Now /\ name \in BOOLEAN
    /\ named \in [Helpers -> Slots \cup {"unnamed"}]
    /\ made \in [Kinds -> Slots] /\ compiled \subseteq Programs

Wanted(k) == IF named[k] = "unnamed" THEN Of(k, found) # {} ELSE named[k] # "none"

(* No case is judged with less than the problem asks for: a checker or an    *)
(* interactor that was found or named is there when the judging starts,      *)
(* through every choice, replacement and failure on the way, and is of its   *)
(* kind; without one no helper is used; and an interactor never meets a      *)
(* problem with file names.  Otherwise answers would be compared by diff     *)
(* without a word.                                                           *)
HelpersKept ==
    phase = "judge" =>
        /\ made["program"] \in Of("program", Programs)
        /\ \A k \in Helpers : IF Wanted(k)
                              THEN made[k] \in Of(k, Programs) \cap (found \cup {named[k]})
                              ELSE made[k] = "none"
        /\ ~(name /\ made["interactor"] # "none")

(* Only sources are compiled, whatever was found and named. *)
SourcesCompiled == compiled \cap Elf = {}

(* An executable is never compiled.  A checker or interactor that is judged  *)
(* with as it is, is newer than the manifest, not from the future, and,      *)
(* unless the manifest names it, the newest of its kind found.  Of headers   *)
(* nothing is promised: Reusable keeps an executable older than all of them. *)
BinaryNewerThanManifest ==
    /\ SourcesCompiled
    /\ phase = "judge" =>
          \A k \in Helpers : made[k] \in Elf =>
              /\ t < Mtime[made[k]] /\ Mtime[made[k]] <= Now
              /\ named[k] = "unnamed" =>
                    \A p \in Of(k, found) : Mtime[p] <= Mtime[made[k]]

=============================================================================
