---------------------------- MODULE PrepareProofs ----------------------------
(***************************************************************************)
(* Proofs about Collect and Prepare, for any files with any names, listed  *)
(* in any order, and any programs of any age: what is left over and paired *)
(* is right, no checker is dropped, and no stale executable is judged with.*)
(***************************************************************************)
EXTENDS Prepare, TLAPS

(* A pair is an input and one of the names it claims. *)
Paired(p) == \E i \in InMarks(p.input), ext \in AnsfileExts :
                p.answer = Marked(p.input, i, ext)

Collected ==
    /\ CollectTypes /\ LeftoversExact
    /\ \A p \in tests : IsInput(p.input) /\ Paired(p)
    /\ \A f \in Inputs : Claims(f) # {} => \E p \in tests : p.input = f

(* What main has in hand for a kind, once the manifest was read. *)
Settled(k) ==
    /\ use[k] = "none" <=> ~Wanted(k)
    /\ use[k] \notin {"none", "missing"} =>
          use[k] \in Of(k, Programs) \cap (found \cup {named[k]})
    /\ use[k] = "missing" => named[k] = "missing"
    /\ use[k] \in Elf /\ named[k] = "unnamed" =>
          \A p \in Of(k, found) : Mtime[p] <= Mtime[use[k]]

(* In reserve is a collected source. *)
Reserve(k) == backup[k] # "none" => backup[k] \in Of(k, found) \ Elf

(* The helpers that have been compared with the manifest. *)
Compared(k) ==
    phase \in {"names", "build", "judge"}
        \/ (phase = "stale" /\ k = "checker" /\ kind = "interactor")

Fresh(k) == use[k] # "missing" /\ (use[k] \in Elf => t < Mtime[use[k]])

(* The programs compile_program has been through. *)
Through(k) ==
    \/ phase = "judge"
    \/ phase = "build" /\ k = "program" /\ kind # "program"
    \/ phase = "build" /\ k = "checker" /\ kind = "interactor"

Made(k) ==
    /\ use[k] = "none" => made[k] = "none"
    /\ use[k] # "none" => made[k] = use[k] \/ (made[k] = backup[k] /\ backup[k] # "none")
    /\ made[k] \in Elf => made[k] = use[k] /\ Mtime[made[k]] <= Now

Running == {"manifest", "stale", "names", "build", "judge"}

Chosen ==
    /\ phase \in {"starter", "collect"} =>
          /\ found = {} /\ named = [k \in Helpers |-> "unnamed"]
          /\ \A k \in Helpers : use[k] = "none" /\ backup[k] = "none"
    /\ phase = "manifest" => named = [k \in Helpers |-> "unnamed"]
    /\ phase \in {"starter", "collect", "manifest"} => kind = "checker"
    /\ phase = "stale" => kind \in Helpers
    /\ phase = "names" => kind = "program"
    /\ phase \in {"collect"} \cup Running => use["program"] \in Of("program", Programs)
    /\ backup["program"] = "none"
    /\ phase \in Running => \A k \in Helpers : Settled(k)
    /\ \A k \in Helpers : Reserve(k)
    /\ \A k \in Helpers : Compared(k) => Fresh(k)
    /\ phase \in {"build", "judge"} => ~(name /\ use["interactor"] # "none")
    /\ \A k \in Kinds : Through(k) => Made(k)

IInv == TypeOK /\ Collected /\ Chosen /\ SourcesCompiled

(* A name with one mark replaced says what the name was: two inputs never    *)
(* claim one answer.                                                         *)
LEMMA ClaimedOnce ==
  ASSUME NEW f \in Files, NEW g \in Files, IsInput(f), IsInput(g),
         NEW i \in InMarks(f), NEW j \in InMarks(g),
         NEW x \in AnsfileExts, NEW y \in AnsfileExts,
         Marked(f, i, x) = Marked(g, j, y)
  PROVE  f = g
  <1>1. /\ f = [dir |-> f.dir, name |-> f.name] /\ f.name \in Seq(Parts)
        /\ g = [dir |-> g.dir, name |-> g.name] /\ g.name \in Seq(Parts)
    BY FilesAssumption
  <1>2. /\ Marked(f, i, x).dir = f.dir /\ Marked(g, j, y).dir = g.dir
        /\ Marked(f, i, x).name = [f.name EXCEPT ![i] = x]
        /\ Marked(g, j, y).name = [g.name EXCEPT ![j] = y]
    BY <1>1 DEF Marked
  <1>3. f.dir = g.dir /\ [f.name EXCEPT ![i] = x] = [g.name EXCEPT ![j] = y]
    BY <1>2
  <1>4. DOMAIN f.name = DOMAIN g.name /\ DOMAIN f.name \subseteq Nat
    BY <1>1, <1>3
  <1>5. /\ i \in DOMAIN f.name /\ f.name[i] = "in" /\ j \in DOMAIN g.name /\ g.name[j] = "in"
        /\ x # "in" /\ y # "in"
    BY DEF InMarks, AnsfileExts
  <1>6. \A k \in DOMAIN f.name : [f.name EXCEPT ![i] = x][k] = [g.name EXCEPT ![j] = y][k]
    BY <1>3
  <1>7. CASE i = j
    <2>1. \A k \in DOMAIN f.name : f.name[k] = g.name[k]
      BY <1>1, <1>4, <1>5, <1>6, <1>7
    <2>2. f.name = g.name
      BY <1>1, <1>4, <2>1
    <2>3. QED
      BY <1>1, <1>3, <2>2
  <1>8. CASE i # j
    <2>1. f.name[j] = y /\ g.name[i] = x
      BY <1>1, <1>4, <1>5, <1>6, <1>8
    <2>2. j \in AnsMarks(f) /\ i \in AnsMarks(g)
      BY <1>4, <1>5, <2>1 DEF AnsMarks
    <2>3. i < j \/ j < i
      BY <1>4, <1>5, <1>8
    <2>4. Ambiguous(f) \/ Ambiguous(g)
      BY <2>2, <2>3 DEF Ambiguous
    <2>5. QED
      BY <2>4 DEF IsInput
  <1>9. QED
    BY <1>7, <1>8

(* No file can be claimed by two inputs.                                   *)
LEMMA ClaimsApart ==
  ASSUME dir \subseteq Files, NEW f \in dir, NEW g \in dir, IsInput(f), IsInput(g), f # g
  PROVE  Claims(f) \cap Claims(g) = {}
  <1>1. SUFFICES ASSUME NEW a \in Claims(f), a \in Claims(g)
                 PROVE  FALSE
    OBVIOUS
  <1>2. PICK i \in InMarks(f), x \in AnsfileExts : a = Marked(f, i, x)
    BY <1>1 DEF Claims
  <1>3. PICK j \in InMarks(g), y \in AnsfileExts : a = Marked(g, j, y)
    BY <1>1 DEF Claims
  <1>4. QED
    BY <1>2, <1>3, ClaimedOnce

(* No two tests share an answer. *)
LEMMA PairsApart ==
  ASSUME CollectTypes, NEW p \in tests, NEW q \in tests,
         IsInput(p.input), Paired(p), IsInput(q.input), Paired(q), p.answer = q.answer
  PROVE  p = q
  <1>1. /\ p = [input |-> p.input, answer |-> p.answer] /\ p.input \in Files
        /\ q = [input |-> q.input, answer |-> q.answer] /\ q.input \in Files
    BY DEF CollectTypes
  <1>2. PICK i \in InMarks(p.input), x \in AnsfileExts : p.answer = Marked(p.input, i, x)
    BY DEF Paired
  <1>3. PICK j \in InMarks(q.input), y \in AnsfileExts : q.answer = Marked(q.input, j, y)
    BY DEF Paired
  <1>4. p.input = q.input
    BY <1>1, <1>2, <1>3, ClaimedOnce
  <1>5. QED
    BY <1>1, <1>4

-----------------------------------------------------------------------------
(* Collecting. *)

LEMMA ListedGrows ==
  ASSUME CollectTypes, NEW f \in todo, todo' = todo \ {f}, dir' = dir
  PROVE  /\ Listed' = Listed \cup {f} /\ f \notin Listed /\ f \in dir
         /\ \A g : Claims(g)' = Claims(g)
         /\ Inputs' = Inputs \cup (IF IsInput(f) THEN {f} ELSE {})
         /\ Claimed' = Claimed \cup (IF IsInput(f) THEN Claims(f) ELSE {})
         /\ {a \in Listed' : IsAnswer(a)}
              = {a \in Listed : IsAnswer(a)} \cup (IF IsAnswer(f) THEN {f} ELSE {})
  <1>1. Listed' = Listed \cup {f} /\ f \notin Listed /\ f \in dir
    BY DEF CollectTypes, Listed
  <1>2. \A g : Claims(g)' = Claims(g)
    BY DEF Claims
  <1>3. Inputs' = Inputs \cup (IF IsInput(f) THEN {f} ELSE {})
    BY <1>1 DEF Inputs
  <1>4. Claimed' = Claimed \cup (IF IsInput(f) THEN Claims(f) ELSE {})
    BY <1>2, <1>3 DEF Claimed
  <1>5. QED
    BY <1>1, <1>2, <1>3, <1>4

(* Listing an input keeps pairs and leftovers exact.                       *)
LEMMA ListInputRight ==
  ASSUME Collected, NEW f \in todo, todo' = todo \ {f}, dir' = dir, ListInput(f)
  PROVE  Collected'
  <1>1. CollectTypes /\ LeftoversExact
    BY DEF Collected
  <1>2. /\ Listed' = Listed \cup {f} /\ f \notin Listed /\ f \in dir
        /\ \A g : Claims(g)' = Claims(g)
        /\ Inputs' = Inputs \cup {f}
        /\ Claimed' = Claimed \cup Claims(f)
        /\ {a \in Listed' : IsAnswer(a)} = {a \in Listed : IsAnswer(a)}
    BY <1>1, ListedGrows DEF ListInput, IsInput, IsAnswer
  <1>3. Claims(f) \cap Claimed = {}
    <2>1. \A g \in Inputs : Claims(g) \cap Claims(f) = {}
      BY <1>1, <1>2, ClaimsApart DEF Inputs, Listed, CollectTypes, ListInput
    <2>2. QED
      BY <2>1 DEF Claimed
  <1>4. Claims(f) \subseteq dir
    BY DEF Claims
  <1>5. LeftoversExact'
    BY <1>1, <1>2, <1>3 DEF LeftoversExact, ListInput
  <1>6. \/ tests' = tests /\ Claims(f) = {}
        \/ \E a \in Claims(f) : tests' = tests \cup {[input |-> f, answer |-> a]}
    BY DEF ListInput, First
  <1>7. CollectTypes'
    BY <1>1, <1>2, <1>4, <1>6 DEF CollectTypes, ListInput
  <1>8. \A p \in tests' : IsInput(p.input) /\ Paired(p)
    <2>1. \A a \in Claims(f) : LET p == [input |-> f, answer |-> a]
                               IN IsInput(p.input) /\ Paired(p)
      BY DEF Claims, Paired, ListInput
    <2>2. QED
      BY <1>6, <2>1 DEF Collected
  <1>9. \A g \in Inputs' : Claims(g)' # {} => \E p \in tests' : p.input = g
    <2>1. \A g \in Inputs : Claims(g) # {} => \E p \in tests' : p.input = g
      BY <1>6 DEF Collected
    <2>2. Claims(f) # {} => \E p \in tests' : p.input = f
      <3>1. ASSUME NEW a \in Claims(f), tests' = tests \cup {[input |-> f, answer |-> a]}
            PROVE  \E p \in tests' : p.input = f
        <4>1. [input |-> f, answer |-> a] \in tests' /\ [input |-> f, answer |-> a].input = f
          BY <3>1
        <4>2. QED
          BY <4>1
      <3>2. QED
        BY <1>6, <3>1
    <2>3. QED
      BY <1>2, <2>1, <2>2
  <1>10. QED
    BY <1>5, <1>7, <1>8, <1>9 DEF Collected, Paired

(* So does listing an answer.                                              *)
LEMMA ListAnswerRight ==
  ASSUME Collected, NEW f \in todo, todo' = todo \ {f}, dir' = dir, ListAnswer(f)
  PROVE  Collected'
  <1>1. CollectTypes /\ LeftoversExact
    BY DEF Collected
  <1>2. /\ Listed' = Listed \cup {f} /\ f \notin Listed /\ f \in dir
        /\ \A g : Claims(g)' = Claims(g)
        /\ Inputs' = Inputs
        /\ Claimed' = Claimed
        /\ {a \in Listed' : IsAnswer(a)} = {a \in Listed : IsAnswer(a)} \cup {f}
    BY <1>1, ListedGrows DEF ListAnswer, IsInput, IsAnswer
  <1>3. f \in matched <=> f \in Claimed
    BY <1>1, <1>2 DEF LeftoversExact
  <1>4. LeftoversExact'
    BY <1>1, <1>2, <1>3 DEF LeftoversExact, ListAnswer
  <1>5. CollectTypes'
    BY <1>1, <1>2 DEF CollectTypes, ListAnswer
  <1>6. QED
    BY <1>2, <1>4, <1>5 DEF Collected, ListAnswer, Paired

(* And listing any other file.                                             *)
LEMMA ListOtherRight ==
  ASSUME Collected, NEW f \in todo, todo' = todo \ {f}, dir' = dir, ListOther(f)
  PROVE  Collected'
  <1>1. CollectTypes /\ LeftoversExact
    BY DEF Collected
  <1>2. /\ Listed' = Listed \cup {f} /\ f \in dir
        /\ \A g : Claims(g)' = Claims(g)
        /\ Inputs' = Inputs
        /\ Claimed' = Claimed
        /\ {a \in Listed' : IsAnswer(a)} = {a \in Listed : IsAnswer(a)}
    BY <1>1, ListedGrows DEF ListOther
  <1>3. QED
    BY <1>1, <1>2 DEF Collected, CollectTypes, LeftoversExact, ListOther, Paired

(* And the end of the listing.                                             *)
LEMMA SettleRight ==
  ASSUME Collected, Settle
  PROVE  Collected'
  <1>1. dir' = {} /\ todo' = {} /\ ansfile' = {} /\ matched' = {} /\ tests' = tests
    BY DEF Settle
  <1>2. Listed' = {} /\ Inputs' = {} /\ Claimed' = {}
    BY <1>1 DEF Listed, Inputs, Claimed
  <1>3. QED
    BY <1>1, <1>2 DEF Collected, CollectTypes, LeftoversExact, Paired

(* What leaves the collection alone keeps it.                              *)
LEMMA SameCollected ==
  ASSUME Collected, UNCHANGED cvars
  PROVE  Collected'
  <1>1. /\ dir' = dir /\ todo' = todo /\ ansfile' = ansfile /\ matched' = matched
        /\ tests' = tests
    BY DEF cvars
  <1>2. Listed' = Listed /\ Inputs' = Inputs /\ Claimed' = Claimed
        /\ \A g : Claims(g)' = Claims(g)
    BY <1>1 DEF Listed, Inputs, Claimed, Claims
  <1>3. QED
    BY <1>1, <1>2 DEF Collected, CollectTypes, LeftoversExact, Paired

(* Every step keeps the collection exact.                                  *)
LEMMA NextCollected ==
  ASSUME Collected, [Next]_vars
  PROVE  Collected'
  <1>1. CASE List
    <2>1. PICK f \in todo : ListFile(f)
      BY <1>1 DEF List
    <2>2. QED
      BY <2>1, ListInputRight, ListAnswerRight, ListOtherRight DEF ListFile
  <1>2. CASE Settle
    BY <1>2, SettleRight
  <1>3. CASE UNCHANGED cvars
    BY <1>3, SameCollected
  <1>4. QED
    BY <1>1, <1>2, <1>3 DEF Next, vars, Starter, ReadManifest, NoManifest, Stale, Names,
       Compile, CompileFails, NoHelper, Built

-----------------------------------------------------------------------------
(* Preparing. *)

LEMMA Apart ==
  /\ "none" \notin Programs /\ "missing" \notin Programs /\ "unnamed" \notin Programs
  /\ Elf \subseteq Programs
  /\ \A p \in Programs : Kind[p] \in Kinds /\ Mtime[p] \in Nat
  /\ Now \in Nat
  <1>1. QED
    BY PrepareAssumption DEF Timed

(* Whoever is chosen was found.                                            *)
LEMMA ChoicesRight ==
  ASSUME NEW k \in Helpers, NEW S \in SUBSET Programs, NEW c \in Choices(k, S)
  PROVE  /\ c.use \in Programs \cup {"none"} /\ c.backup \in Programs \cup {"none"}
         /\ c.use = "none" <=> Of(k, S) = {}
         /\ c.use # "none" => c.use \in Of(k, S) /\ \A p \in Of(k, S) : Mtime[p] <= Mtime[c.use]
         /\ c.backup # "none" => c.backup \in Of(k, S) \ Elf
  <1>1. /\ c.use \in Newest(Of(k, S))
        /\ c.backup \in Newest(Of(k, S) \ ({c.use} \cup Elf))
    BY DEF Choices
  <1>2. Of(k, S) \subseteq Programs
    BY DEF Of
  <1>3. c.backup # "none" => c.backup \in Of(k, S) \ Elf
    BY <1>1 DEF Newest
  <1>4. QED
    BY <1>1, <1>2, <1>3, Apart DEF Newest

(* Before the listing nothing is found or chosen.                          *)
LEMMA InitIInv == Init => IInv
  <1> SUFFICES ASSUME Init
               PROVE  IInv
    OBVIOUS
  <1>1. Collected
    BY DEF Init, CollectInit, Collected, CollectTypes, LeftoversExact, Listed, Inputs, Claimed
  <1>2. TypeOK
    <2>1. t \in 0 .. Now
      BY Apart DEF Init
    <2>2. use \in [Kinds -> Slots] /\ backup \in [Kinds -> Programs \cup {"none"}]
          /\ named \in [Helpers -> Slots \cup {"unnamed"}] /\ made \in [Kinds -> Slots]
      BY DEF Init, Slots
    <2>3. QED
      BY <1>1, <2>1, <2>2 DEF Init, TypeOK, Collected, Kinds, Helpers
  <1>3. Chosen /\ SourcesCompiled
    BY Apart DEF Init, Chosen, SourcesCompiled, Running, Compared, Through, Reserve, Kinds, Helpers
  <1>4. QED
    BY <1>1, <1>2, <1>3 DEF IInv

(* The choice of the contestant's program keeps IInv.                      *)
LEMMA StarterRight ==
  ASSUME IInv, Starter
  PROVE  TypeOK' /\ Chosen' /\ SourcesCompiled'
  <1>1. UNCHANGED <<dir, todo, ansfile, matched, tests>>
    BY DEF Starter, cvars
  <1>2. TypeOK'
    BY <1>1 DEF Starter, IInv, TypeOK, CollectTypes, Slots, Of, Kinds
  <1>3. use \in [Kinds -> Slots] /\ "program" \in Kinds /\ Helpers \subseteq Kinds
        /\ "program" \notin Helpers
    BY DEF IInv, TypeOK, Kinds, Helpers
  <1>4. Chosen'
    BY <1>3 DEF Starter, IInv, Chosen, Running, Compared, Through, Reserve
  <1>5. QED
    BY <1>2, <1>4 DEF Starter, IInv, SourcesCompiled

(* A file listed keeps IInv.                                               *)
LEMMA ListRight ==
  ASSUME IInv, List, Collected'
  PROVE  TypeOK' /\ Chosen' /\ SourcesCompiled'
  <1>1. TypeOK'
    BY DEF List, pvars, IInv, TypeOK, Collected
  <1>2. Chosen'
    BY DEF List, pvars, IInv, Chosen, Running, Compared, Fresh, Through, Made, Reserve,
       Settled, Wanted
  <1>3. QED
    BY <1>1, <1>2 DEF List, pvars, IInv, SourcesCompiled

(* The end of the listing keeps IInv.                                      *)
LEMMA SettlesRight ==
  ASSUME IInv, Settle, Collected'
  PROVE  TypeOK' /\ Chosen' /\ SourcesCompiled'
  <1>1. PICK c \in Choices("checker", found'), i \in Choices("interactor", found') :
          /\ use' = [use EXCEPT !["checker"] = c.use, !["interactor"] = i.use]
          /\ backup' = [backup EXCEPT !["checker"] = c.backup, !["interactor"] = i.backup]
    BY DEF Settle
  <1>2. found' \in SUBSET Programs /\ Of("checker", found') \subseteq Programs
        /\ "checker" \in Helpers /\ "interactor" \in Helpers
        /\ "checker" # "interactor" /\ "checker" # "program" /\ "interactor" # "program"
        /\ Helpers = {"checker", "interactor"}
        /\ Kinds = {"checker", "interactor", "program"}
    BY DEF Settle, Of, Helpers, Kinds
  <1>3. use \in [Kinds -> Slots] /\ backup \in [Kinds -> Programs \cup {"none"}]
    BY DEF IInv, TypeOK
  <1>4. /\ use'["checker"] = c.use /\ use'["interactor"] = i.use /\ use'["program"] = use["program"]
        /\ backup'["checker"] = c.backup /\ backup'["interactor"] = i.backup
        /\ backup'["program"] = backup["program"]
    BY <1>1, <1>2, <1>3
  <1>5. /\ c.use \in Programs \cup {"none"} /\ c.backup \in Programs \cup {"none"}
        /\ c.use = "none" <=> Of("checker", found') = {}
        /\ c.use # "none" => /\ c.use \in Of("checker", found')
                             /\ \A p \in Of("checker", found') : Mtime[p] <= Mtime[c.use]
        /\ c.backup # "none" => c.backup \in Of("checker", found') \ Elf
    BY <1>2, ChoicesRight
  <1>6. /\ i.use \in Programs \cup {"none"} /\ i.backup \in Programs \cup {"none"}
        /\ i.use = "none" <=> Of("interactor", found') = {}
        /\ i.use # "none" => /\ i.use \in Of("interactor", found')
                             /\ \A p \in Of("interactor", found') : Mtime[p] <= Mtime[i.use]
        /\ i.backup # "none" => i.backup \in Of("interactor", found') \ Elf
    BY <1>2, ChoicesRight
  <1>7. use' \in [Kinds -> Slots] /\ backup' \in [Kinds -> Programs \cup {"none"}]
    BY <1>1, <1>2, <1>3, <1>5, <1>6 DEF Slots
  <1>8. TypeOK'
    BY <1>2, <1>7 DEF Settle, IInv, TypeOK, Collected
  <1>9. /\ phase = "collect" /\ phase' \in {"nodata", "manifest"}
        /\ named' = named /\ kind' = kind
        /\ named = [k \in Helpers |-> "unnamed"] /\ kind = "checker"
        /\ use["program"] \in Of("program", Programs) /\ backup["program"] = "none"
    BY DEF Settle, IInv, Chosen
  <1>10. \A k \in Helpers : Settled(k)' /\ Reserve(k)'
    <2>1. ASSUME NEW k \in Helpers
          PROVE  Settled(k)' /\ Reserve(k)'
      <3>1. /\ named'[k] = "unnamed"
            /\ use'[k] \in Programs \cup {"none"}
            /\ use'[k] = "none" <=> Of(k, found') = {}
            /\ use'[k] # "none" => /\ use'[k] \in Of(k, found')
                                   /\ \A p \in Of(k, found') : Mtime[p] <= Mtime[use'[k]]
            /\ backup'[k] # "none" => backup'[k] \in Of(k, found') \ Elf
        BY <1>2, <1>4, <1>5, <1>6, <1>9
      <3>2. Reserve(k)'
        BY <3>1 DEF Reserve
      <3>3. Of(k, found') \subseteq Of(k, Programs) /\ Of(k, found') \subseteq found'
        BY <1>2 DEF Of
      <3>4. Settled(k)'
        BY <3>1, <3>3, Apart DEF Settled, Wanted
      <3>5. QED
        BY <3>2, <3>4
    <2>2. QED
      BY <2>1
  <1>11. Chosen'
    BY <1>4, <1>9, <1>10 DEF Chosen, Running, Compared, Through
  <1>12. QED
    BY <1>8, <1>11 DEF Settle, IInv, SourcesCompiled

(* A manifest's names keep IInv.                                           *)
LEMMA ReadManifestRight ==
  ASSUME IInv, ReadManifest, Collected'
  PROVE  TypeOK' /\ Chosen' /\ SourcesCompiled'
  <1>1. PICK c \in Namings("checker"), i \in Namings("interactor") :
          named' = [k \in Helpers |-> IF k = "checker" THEN c ELSE i]
    BY DEF ReadManifest
  <1>2. \A k \in Helpers : named'[k] \in Namings(k)
    BY <1>1 DEF Helpers
  <1>3. /\ Helpers \subseteq Kinds /\ "program" \in Kinds /\ "program" \notin Helpers
        /\ use \in [Kinds -> Slots]
    BY DEF IInv, TypeOK, Kinds, Helpers
  <1>4. \A k \in Helpers : Namings(k) \subseteq Slots \cup {"unnamed"}
    BY DEF Namings, Of, Slots
  <1>5. named' \in [Helpers -> Slots \cup {"unnamed"}]
    BY <1>1, <1>2, <1>4
  <1>6. /\ use' = [k \in Kinds |-> IF k \in Helpers /\ named'[k] # "unnamed"
                                  THEN named'[k] ELSE use[k]]
        /\ phase = "manifest" /\ phase' = "stale" /\ found' = found /\ backup' = backup
        /\ kind' = kind /\ compiled' = compiled
    BY DEF ReadManifest
  <1>7. use' \in [Kinds -> Slots]
    BY <1>3, <1>5, <1>6
  <1>8. t' \in 0 .. Now
    BY Apart DEF ReadManifest
  <1>9. TypeOK'
    BY <1>5, <1>6, <1>7, <1>8 DEF ReadManifest, IInv, TypeOK, Collected
  <1>10. \A k \in Helpers : Settled(k)' /\ Reserve(k)'
    <2>1. ASSUME NEW k \in Helpers
          PROVE  Settled(k)' /\ Reserve(k)'
      <3>1. Settled(k) /\ Reserve(k) /\ named[k] = "unnamed"
        BY <1>6 DEF IInv, Chosen, Running
      <3>2. use'[k] = IF named'[k] # "unnamed" THEN named'[k] ELSE use[k]
        BY <1>3, <1>6
      <3>3. Reserve(k)'
        BY <3>1, <1>6 DEF Reserve
      <3>4. CASE named'[k] = "unnamed"
        BY <3>1, <3>2, <3>3, <3>4, <1>6, Apart DEF Settled, Wanted
      <3>5. CASE named'[k] # "unnamed"
        BY <3>2, <3>3, <3>5, <1>2, Apart DEF Settled, Wanted, Namings, Of
      <3>6. QED
        BY <3>4, <3>5
    <2>2. QED
      BY <2>1
  <1>11. use'["program"] = use["program"]
    BY <1>3, <1>6
  <1>12. kind = "checker" /\ use["program"] \in Of("program", Programs)
         /\ backup["program"] = "none"
    BY <1>6 DEF IInv, Chosen, Running
  <1>13. Chosen'
    BY <1>6, <1>10, <1>11, <1>12 DEF Chosen, Running, Compared, Through, Helpers
  <1>14. QED
    BY <1>6, <1>9, <1>13 DEF IInv, SourcesCompiled

(* Going on without a manifest keeps IInv.                                 *)
LEMMA NoManifestRight ==
  ASSUME IInv, NoManifest, Collected'
  PROVE  TypeOK' /\ Chosen' /\ SourcesCompiled'
  <1>1. TypeOK'
    BY DEF NoManifest, IInv, TypeOK, Collected
  <1>2. \A k \in Helpers : Settled(k)' /\ Reserve(k)'
    BY DEF NoManifest, IInv, Chosen, Running, Settled, Wanted, Reserve
  <1>3. Chosen'
    BY <1>2 DEF NoManifest, IInv, Chosen, Running, Compared, Through, Helpers
  <1>4. QED
    BY <1>1, <1>3 DEF NoManifest, IInv, SourcesCompiled

(* File reading and an interactor at once: refusing both keeps IInv.       *)
LEMMA NamesRight ==
  ASSUME IInv, Names, Collected'
  PROVE  TypeOK' /\ Chosen' /\ SourcesCompiled'
  <1>1. TypeOK'
    BY DEF Names, IInv, TypeOK, Collected
  <1>2. phase = "names" /\ kind = "program" /\ kind' = kind /\ phase' \in {"failed", "build"}
    BY DEF Names, IInv, Chosen
  <1>3. \A k \in Helpers : /\ Settled(k)' /\ Reserve(k)'
                           /\ Compared(k)' => Fresh(k)'
    BY <1>2 DEF Names, IInv, Chosen, Running, Settled, Wanted, Reserve, Compared, Fresh
  <1>4. \A k \in Kinds : ~Through(k)'
    BY <1>2 DEF Through
  <1>5. Chosen'
    BY <1>2, <1>3, <1>4 DEF Names, IInv, Chosen, Running
  <1>6. QED
    BY <1>1, <1>5 DEF Names, IInv, SourcesCompiled

(* Giving up an executable that is too old keeps IInv.                     *)
LEMMA StaleRight ==
  ASSUME IInv, Stale, Collected'
  PROVE  TypeOK' /\ Chosen' /\ SourcesCompiled'
  <1>1. /\ phase = "stale" /\ kind \in Helpers /\ Settled(kind) /\ Reserve(kind)
        /\ use \in [Kinds -> Slots] /\ backup \in [Kinds -> Programs \cup {"none"}]
        /\ Helpers = {"checker", "interactor"} /\ Kinds = {"checker", "interactor", "program"}
        /\ UNCHANGED <<found, backup, headers, graders, t, named, name, made, compiled>>
    BY DEF Stale, IInv, TypeOK, Chosen, Running, Helpers, Kinds
  <1>2. \/ phase' \in {"failed", "raised"} /\ kind' = kind
        \/ kind = "checker" /\ phase' = "stale" /\ kind' = "interactor"
        \/ kind = "interactor" /\ phase' = "names" /\ kind' = "program"
    BY <1>1 DEF Stale, Advance
  <1>3. use' \in [Kinds -> Slots] /\ \A k \in Kinds \ {kind} : use'[k] = use[k]
    BY <1>1 DEF Stale, Slots
  <1>4. PICK h \in Helpers : h = kind
    BY <1>1
  <1>5. use'[h] = use[h] \/ (use'[h] = backup[h] /\ Outdated(use[h]))
    BY <1>1, <1>4 DEF Stale
  <1>6. TypeOK'
    BY <1>1, <1>2, <1>3 DEF IInv, TypeOK, Collected
  <1>7. phase' \in {"stale", "names"} => Settled(h)' /\ Fresh(h)'
    <2>1. ASSUME phase' \in {"stale", "names"}
          PROVE  \/ use'[h] = use[h] /\ use[h] # "missing" /\ ~Outdated(use[h])
                 \/ use'[h] = backup[h] /\ backup[h] # "none" /\ Outdated(use[h])
      BY <1>1, <1>4, <2>1, Apart DEF Stale, Outdated, Advance
    <2>2. use[h] \in Programs => Mtime[use[h]] \in Nat
      BY Apart
    <2>3. t \in Nat
      BY Apart DEF IInv, TypeOK
    <2>7. Settled(h) /\ Reserve(h)
      BY <1>1, <1>4
    <2>4. CASE use'[h] = use[h] /\ use[h] # "missing" /\ ~Outdated(use[h])
      <3>1. Settled(h)'
        BY <1>1, <2>4, <2>7 DEF Settled, Wanted
      <3>2. use[h] \in Elf => t < Mtime[use[h]]
        BY <2>2, <2>3, <2>4, Apart DEF Outdated
      <3>3. QED
        BY <1>1, <2>4, <3>1, <3>2 DEF Fresh
    <2>5. CASE use'[h] = backup[h] /\ backup[h] # "none" /\ Outdated(use[h])
      <3>1. use'[h] \in Of(h, found) \ Elf /\ use[h] \in Elf
        BY <2>5, <2>7 DEF Reserve, Outdated
      <3>2. found \subseteq Programs
        BY DEF IInv, TypeOK
      <3>3. use'[h] \in Of(h, Programs) \cap found
        BY <3>1, <3>2 DEF Of
      <3>4. Wanted(h)
        BY <2>7, <3>1, Apart DEF Settled
      <3>5. QED
        BY <1>1, <3>1, <3>3, <3>4, Apart DEF Settled, Wanted, Fresh, Of
    <2>6. QED
      BY <2>1, <2>4, <2>5
  <1>8. phase' \in {"stale", "names"} => \A k \in Helpers : Settled(k)' /\ Reserve(k)'
    <2>1. ASSUME NEW k \in Helpers, k # h
          PROVE  Settled(k)'
      <3>1. Settled(k) /\ use'[k] = use[k]
        BY <1>1, <1>3, <1>4, <2>1 DEF IInv, Chosen, Running
      <3>2. QED
        BY <1>1, <3>1 DEF Settled, Wanted
    <2>2. \A k \in Helpers : Reserve(k)'
      BY <1>1 DEF IInv, Chosen, Reserve
    <2>3. QED
      BY <1>7, <2>1, <2>2
  <1>9. \A k \in Helpers : Reserve(k)'
    BY <1>1 DEF IInv, Chosen, Reserve
  <1>10. \A k \in Helpers : Compared(k)' => Fresh(k)'
    <2>1. h = "interactor" => Fresh("checker") /\ use'["checker"] = use["checker"]
      BY <1>1, <1>3, <1>4 DEF IInv, Chosen, Compared
    <2>2. h = "interactor" => Fresh("checker")'
      BY <1>1, <2>1 DEF Fresh
    <2>3. ASSUME NEW k \in Helpers, Compared(k)'
          PROVE  phase' \in {"stale", "names"} /\ (k = h \/ (k = "checker" /\ h = "interactor"))
      BY <1>1, <1>2, <1>4, <2>3 DEF Compared
    <2>4. QED
      BY <1>7, <2>2, <2>3
  <1>11. use'["program"] = use["program"] /\ use["program"] \in Of("program", Programs)
         /\ backup["program"] = "none"
    BY <1>1, <1>3 DEF IInv, Chosen, Running
  <1>12. Chosen'
    BY <1>1, <1>2, <1>8, <1>9, <1>10, <1>11 DEF Chosen, Running, Through
  <1>13. QED
    BY <1>1, <1>6, <1>12 DEF IInv, SourcesCompiled

(* What a program is made from is recorded, and main goes on to the next. *)
LEMMA BuiltRight ==
  ASSUME IInv, Collected', phase = "build", NEW h \in Kinds, kind = h,
         NEW p \in Programs \cup {"none"}, Built(p),
         headers' \subseteq Headers \cup {"Makefile"},
         compiled' \subseteq Programs, SourcesCompiled',
         use[h] = "none" => p = "none",
         use[h] # "none" => p = use[h] \/ (p = backup[h] /\ backup[h] # "none"),
         p \in Elf => p = use[h] /\ Mtime[p] <= Now
  PROVE  TypeOK' /\ Chosen' /\ SourcesCompiled'
  <1>1. /\ \/ h = "program" /\ phase' = "build" /\ kind' = "checker"
           \/ h = "checker" /\ phase' = "build" /\ kind' = "interactor"
           \/ h = "interactor" /\ phase' = "judge" /\ kind' = "program"
        /\ made' = [made EXCEPT ![h] = p]
        /\ UNCHANGED <<cvars, found, use, backup, graders, t, named, name>>
    BY DEF Built, Advance, Kinds, Helpers
  <1>2. made \in [Kinds -> Slots] /\ Helpers \subseteq Kinds
    BY DEF IInv, TypeOK, Kinds
  <1>3. TypeOK'
    BY <1>1, <1>2 DEF IInv, TypeOK, Collected, Kinds, Helpers, Slots
  <1>4. \A k \in Helpers : /\ Settled(k)' /\ Reserve(k)'
                           /\ Compared(k)' => Fresh(k)'
    BY <1>1 DEF IInv, Chosen, Running, Settled, Wanted, Reserve, Compared, Fresh
  <1>5. Made(h)'
    BY <1>1, <1>2 DEF Made
  <1>6. \A k \in Kinds : Through(k)' => Through(k) \/ k = h
    BY <1>1 DEF Through, Kinds, Helpers
  <1>7. ASSUME NEW k \in Kinds, Through(k)'
        PROVE  Made(k)'
    <2>1. CASE k = h
      BY <1>5, <2>1
    <2>2. CASE k # h
      <3>1. Made(k) /\ made'[k] = made[k]
        BY <1>1, <1>2, <1>6, <1>7, <2>2 DEF IInv, Chosen
      <3>2. QED
        BY <1>1, <3>1 DEF Made
    <2>3. QED
      BY <2>1, <2>2
  <1>8. Chosen'
    BY <1>1, <1>4, <1>7 DEF IInv, Chosen, Running
  <1>9. QED
    BY <1>3, <1>8

(* Compiling or using a program keeps IInv.                                *)
LEMMA CompileRight ==
  ASSUME IInv, Compile, Collected'
  PROVE  TypeOK' /\ Chosen' /\ SourcesCompiled'
  <1>1. PICK h \in Kinds : h = kind
    BY DEF IInv, TypeOK
  <1>2. /\ phase = "build" /\ use[h] # "none"
        /\ use \in [Kinds -> Slots] /\ backup \in [Kinds -> Programs \cup {"none"}]
        /\ headers' \subseteq Headers \cup {"Makefile"}
        /\ compiled \subseteq Programs /\ compiled \cap Elf = {}
    BY <1>1 DEF Compile, IInv, TypeOK, SourcesCompiled
  <1>3. use[h] \in Programs
    <2>1. CASE h \in Helpers
      BY <1>2, <2>1 DEF IInv, Chosen, Compared, Fresh, Slots
    <2>2. CASE h = "program"
      BY <1>2, <2>2 DEF IInv, Chosen, Running, Of
    <2>3. QED
      BY <2>1, <2>2 DEF Kinds
  <1>4. CASE Reusable(use[h], headers')
    <2>1. use[h] \in Elf /\ Mtime[use[h]] <= Now /\ Built(use[h]) /\ compiled' = compiled
      BY <1>1, <1>4 DEF Compile, Reusable
    <2>2. SourcesCompiled'
      BY <1>2, <2>1 DEF SourcesCompiled
    <2>3. QED
      BY <1>1, <1>2, <1>3, <2>1, <2>2, BuiltRight
  <1>5. CASE ~Reusable(use[h], headers')
    <2> DEFINE p == IF use[h] \in Elf THEN backup[h] ELSE use[h]
    <2>1. p = SourceOf(use[h])
      BY <1>1 DEF SourceOf
    <2>2. p # "none" /\ Built(p) /\ compiled' = compiled \cup {p}
      BY <1>1, <1>5, <2>1 DEF Compile
    <2>3. backup[h] # "none" => backup[h] \notin Elf
      BY <1>1 DEF IInv, Chosen, Reserve, Kinds
    <2>4. p \in Programs /\ p \notin Elf
      BY <1>2, <1>3, <2>2, <2>3
    <2>5. SourcesCompiled' /\ compiled' \subseteq Programs
      BY <1>2, <2>2, <2>4 DEF SourcesCompiled
    <2>6. p = use[h] \/ (p = backup[h] /\ backup[h] # "none")
      BY <2>2
    <2> HIDE DEF p
    <2>7. QED
      BY <1>1, <1>2, <2>2, <2>4, <2>5, <2>6, BuiltRight
  <1>6. QED
    BY <1>4, <1>5

(* A problem without a helper keeps IInv.                                  *)
LEMMA NoHelperRight ==
  ASSUME IInv, NoHelper, Collected'
  PROVE  TypeOK' /\ Chosen' /\ SourcesCompiled'
  <1>1. PICK h \in Kinds : h = kind
    BY DEF IInv, TypeOK
  <1>2. /\ phase = "build" /\ use[h] = "none" /\ Built("none")
        /\ headers' = headers /\ compiled' = compiled
        /\ headers \subseteq Headers \cup {"Makefile"} /\ compiled \subseteq Programs
    BY <1>1 DEF NoHelper, IInv, TypeOK
  <1>3. SourcesCompiled'
    BY <1>2 DEF IInv, SourcesCompiled
  <1>4. QED
    BY <1>1, <1>2, <1>3, Apart, BuiltRight

(* A compilation that fails keeps IInv.                                    *)
LEMMA CompileFailsRight ==
  ASSUME IInv, CompileFails, Collected'
  PROVE  TypeOK' /\ Chosen' /\ SourcesCompiled'
  <1>1. TypeOK'
    BY DEF CompileFails, IInv, TypeOK, Collected
  <1>2. Chosen'
    BY DEF CompileFails, IInv, Chosen, Running, Compared, Through, Reserve
  <1>3. QED
    BY <1>1, <1>2 DEF CompileFails, IInv, SourcesCompiled

(* And so does a step that changes nothing.                                *)
LEMMA StutterRight ==
  ASSUME IInv, UNCHANGED vars, Collected'
  PROVE  TypeOK' /\ Chosen' /\ SourcesCompiled'
  <1>1. UNCHANGED pvars
    BY DEF vars
  <1>2. TypeOK' /\ SourcesCompiled'
    BY <1>1 DEF pvars, IInv, TypeOK, Collected, SourcesCompiled
  <1>3. Chosen'
    BY <1>1 DEF pvars, IInv, Chosen, Running, Compared, Fresh, Through, Made, Reserve,
       Settled, Wanted
  <1>4. QED
    BY <1>2, <1>3

-----------------------------------------------------------------------------
(* The inductive invariant behind the theorems below: the sets of collect    *)
(* hold what was listed, and what main has in hand of each kind at each      *)
(* place is what was wanted of it and passed every test so far.              *)
THEOREM Invariance == Spec => []IInv
  <1>1. ASSUME IInv, [Next]_vars
        PROVE  IInv'
    <2>1. Collected'
      BY <1>1, NextCollected DEF IInv
    <2>2. TypeOK' /\ Chosen' /\ SourcesCompiled'
      BY <1>1, <2>1, StarterRight, ListRight, SettlesRight, ReadManifestRight,
         NoManifestRight, StaleRight, NamesRight, CompileRight, CompileFailsRight,
         NoHelperRight, StutterRight DEF Next
    <2>3. QED
      BY <2>1, <2>2 DEF IInv
  <1>2. QED
    BY <1>1, InitIInv, PTL DEF Spec

(* Every variable of collecting and preparing stays in its type. *)
THEOREM TypeCorrect == Spec => []TypeOK
  <1>1. IInv => TypeOK
    BY DEF IInv
  <1>2. QED
    BY <1>1, Invariance, PTL

(* In whatever order any files are listed, the two sets hold exactly what    *)
(* no input has taken and what has not come by as an answer.                 *)
THEOREM LeftoversAreExact == Spec => []LeftoversExact
  <1>1. IInv => LeftoversExact
    BY DEF IInv, Collected
  <1>2. QED
    BY <1>1, Invariance, PTL

(* Every input with an answer is a test, and no answer serves two. *)
THEOREM PairsAreRight == Spec => []PairsRight
  <1>1. IInv => PairsRight
    <2>1. SUFFICES ASSUME IInv
                   PROVE  PairsRight
      OBVIOUS
    <2>2. \A p, q \in tests : p.answer = q.answer => p = q
      BY <2>1, PairsApart DEF IInv, Collected
    <2>3. \A p \in tests : p.answer.dir = p.input.dir
      <3>1. ASSUME NEW p \in tests
            PROVE  p.answer.dir = p.input.dir
        <4>1. p.input \in Files /\ Paired(p)
          BY <2>1, <3>1 DEF IInv, Collected, CollectTypes
        <4>2. p.input = [dir |-> p.input.dir, name |-> p.input.name]
          BY <4>1, FilesAssumption
        <4>3. QED
          BY <4>1, <4>2 DEF Paired, Marked
      <3>2. QED
        BY <3>1
    <2>4. QED
      BY <2>1, <2>2, <2>3 DEF IInv, Collected, PairsRight
  <1>2. QED
    BY <1>1, Invariance, PTL

(* A checker or an interactor that was found or named is there when the      *)
(* judging starts, and none is that was not.                                 *)
THEOREM HelpersAreKept == Spec => []HelpersKept
  <1>1. ASSUME IInv, phase = "judge"
        PROVE  HelpersKept
    <2>1. \A k \in Kinds : Made(k)
      BY <1>1 DEF IInv, Chosen, Through
    <2>2. made["program"] \in Of("program", Programs)
      BY <1>1, <2>1, Apart DEF IInv, Chosen, Running, Made, Of, Kinds
    <2>3. ASSUME NEW k \in Helpers
          PROVE  IF Wanted(k) THEN made[k] \in Of(k, Programs) \cap (found \cup {named[k]})
                              ELSE made[k] = "none"
      <3>1. Made(k) /\ Settled(k) /\ Reserve(k) /\ use[k] # "missing"
        BY <1>1, <2>1 DEF IInv, Chosen, Running, Compared, Fresh, Kinds
      <3>2. found \subseteq Programs
        BY <1>1 DEF IInv, TypeOK
      <3>3. QED
        BY <3>1, <3>2 DEF Made, Settled, Reserve, Of
    <2>4. name => made["interactor"] = "none"
      BY <1>1, <2>1 DEF IInv, Chosen, Made, Kinds, Helpers
    <2>5. QED
      BY <2>2, <2>3, <2>4 DEF HelpersKept
  <1>2. IInv => HelpersKept
    BY <1>1 DEF HelpersKept
  <1>3. QED
    BY <1>2, Invariance, PTL

(* No executable is compiled, and one that is judged with is newer than the  *)
(* manifest, not from the future, and the newest of its kind unless named.   *)
THEOREM BinariesAreNewer == Spec => []BinaryNewerThanManifest
  <1>1. ASSUME IInv, phase = "judge", NEW k \in Helpers, made[k] \in Elf
        PROVE  /\ t < Mtime[made[k]] /\ Mtime[made[k]] <= Now
               /\ named[k] = "unnamed" => \A p \in Of(k, found) : Mtime[p] <= Mtime[made[k]]
    <2>1. Made(k) /\ Settled(k) /\ Fresh(k)
      BY <1>1 DEF IInv, Chosen, Through, Running, Compared, Kinds
    <2>2. QED
      BY <1>1, <2>1 DEF Made, Settled, Fresh
  <1>2. IInv => BinaryNewerThanManifest
    BY <1>1 DEF IInv, BinaryNewerThanManifest
  <1>3. QED
    BY <1>2, Invariance, PTL

=============================================================================
