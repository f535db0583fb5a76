------------------------- MODULE CompileCacheProofs -------------------------
(***************************************************************************)
(* Proofs about the persistent cache, for any number of processes and of   *)
(* texts: the types, and that what compile_program hands over is current.  *)
(***************************************************************************)
EXTENDS CompileCache, TLAPS

(* An unspoilt archive holds pieces of the build of its key, and no other. *)
Pure(k) == \/ k \in spoilt
           \/ archive[k].head # "torn" /\ {archive[k].front, archive[k].back} \subseteq {k, "none"}

(* What a call knows, at each of its places, is of its own time.           *)
Knows(p) ==
    /\ pc[p] # "idle" => source \in since[p]
    /\ pc[p] \in {"idle", "hash", "stat", "read", "rest", "copy", "compile"}
          => prog[p] = "none"
    /\ pc[p] \in {"stat", "read", "rest"} => key[p] \in since[p]
    /\ pc[p] = "rest" => front[p] \in {"none", key[p]} \/ key[p] \in spoilt
    /\ pc[p] \in {"compile", "rehash", "open", "head", "body"} => text[p] \in since[p]
    /\ pc[p] \in {"rehash", "open", "head", "body"} => prog[p] = text[p]
    /\ pc[p] \in {"open", "head", "body"} => text[p] = key[p] \/ key[p] \in spoilt
    /\ pc[p] = "done" => prog[p] \in since[p] \cup {"none"} \/ key[p] \in spoilt

IInv == TypeOK /\ (\A k \in Texts : Pure(k)) /\ (\A p \in Procs : Knows(p))

(* At the start nothing is known and every archive is pure or missing.     *)
LEMMA InitHolds == Init => IInv
  BY DEF Init, IInv, TypeOK, KeyInUse, Nothing, Pure, Knows

(* Knowledge rests on the call's own variables, and nothing is unspoilt.   *)
LEMMA OthersKnow ==
  ASSUME IInv, NEW p \in Procs, spoilt \subseteq spoilt', source' = source,
         \A q \in Procs \ {p} :
            /\ pc'[q] = pc[q] /\ key'[q] = key[q] /\ text'[q] = text[q]
            /\ front'[q] = front[q] /\ prog'[q] = prog[q] /\ since'[q] = since[q],
         Knows(p)'
  PROVE  (\A q \in Procs : Knows(q))'
<1>1. ASSUME NEW q \in Procs \ {p} PROVE Knows(q)'
  BY DEF IInv, Knows
<1> QED
  BY <1>1

(* A step of p on its own variables that keeps the archives and the source.*)
LEMMA OwnStep ==
  ASSUME IInv, NEW p \in Procs, UNCHANGED <<source, newer, archive>>,
         spoilt \subseteq spoilt', TypeOK', Knows(p)',
         \A q \in Procs \ {p} :
            /\ pc'[q] = pc[q] /\ key'[q] = key[q] /\ text'[q] = text[q]
            /\ front'[q] = front[q] /\ prog'[q] = prog[q] /\ since'[q] = since[q]
  PROVE  IInv'
<1>1. (\A k \in Texts : Pure(k))'
  BY DEF IInv, Pure
<1>2. (\A q \in Procs : Knows(q))'
  BY OthersKnow
<1> QED
  BY <1>1, <1>2 DEF IInv

(* Looking up: opening, reading and rejecting an archive keeps IInv.       *)
LEMMA LookupStep ==
  ASSUME IInv, NEW p \in Procs, Lookup(p) PROVE IInv'
<1> USE DEF IInv, At, Goto
<1>2. CASE Begin(p)
  <2>1. TypeOK'
    BY <1>2 DEF Begin, TypeOK, KeyInUse
  <2>2. Knows(p)'
    BY <1>2 DEF Begin, TypeOK, KeyInUse, Knows
  <2> QED
    BY <1>2, <2>1, <2>2, OwnStep DEF Begin, TypeOK
<1>3. CASE Hash(p)
  <2>1. TypeOK'
    BY <1>3 DEF Hash, TypeOK, KeyInUse
  <2>2. Knows(p)'
    BY <1>3 DEF Hash, TypeOK, KeyInUse, Knows
  <2> QED
    BY <1>3, <2>1, <2>2, OwnStep DEF Hash, TypeOK
<1>4. CASE Stat(p)
  <2>1. TypeOK'
    BY <1>4 DEF Stat, TypeOK, KeyInUse
  <2>2. Knows(p)'
    BY <1>4 DEF Stat, TypeOK, KeyInUse, Knows
  <2> QED
    BY <1>4, <2>1, <2>2, OwnStep DEF Stat, TypeOK
<1>5. CASE Read(p)
  <2>1. TypeOK'
    BY <1>5 DEF Read, TypeOK, KeyInUse
  <2>2. Knows(p)'
    BY <1>5 DEF Read, TypeOK, KeyInUse, Knows, Pure
  <2> QED
    BY <1>5, <2>1, <2>2, OwnStep DEF Read, TypeOK
<1>6. CASE Rest(p)
  <2> DEFINE f == IF front[p] = "none" THEN archive[key[p]].front ELSE front[p]
             b == archive[key[p]].back
  <2>1. key[p] \in Texts /\ prog[p] = "none" /\ key[p] \in since[p]
    BY <1>6 DEF Rest, TypeOK, KeyInUse, Knows
  <2>2. key[p] \in spoilt \/ {f, b} \subseteq {key[p], "none"}
    BY <1>6, <2>1 DEF Rest, Knows, Pure
  <2>3. f \in Texts \cup {"none"}
    BY <2>1 DEF TypeOK
  <2>4. CASE Complete(f, b)
    <3>1. /\ prog' = [prog EXCEPT ![p] = IF f = b THEN f ELSE "mixed"]
          /\ pc' = [pc EXCEPT ![p] = "done"]
      BY <1>6, <2>4 DEF Rest
    <3>3. TypeOK'
      BY <1>6, <2>3, <3>1 DEF Rest, TypeOK, KeyInUse
    <3>2. Knows(p)'
      BY <1>6, <2>1, <2>2, <2>4, <3>1 DEF Rest, Knows, Complete, TypeOK
    <3> QED
      BY <1>6, <2>3, <3>1, <3>2, <3>3, OwnStep DEF Rest
  <2>5. CASE ~Complete(f, b)
    <3>1. prog' = prog /\ pc' = [pc EXCEPT ![p] = "copy"]
      BY <1>6, <2>5 DEF Rest
    <3>2. TypeOK'
      BY <1>6, <3>1 DEF Rest, TypeOK, KeyInUse
    <3>3. Knows(p)'
      BY <1>6, <3>1 DEF Rest, TypeOK, Knows
    <3> QED
      BY <1>6, <3>1, <3>2, <3>3, OwnStep DEF Rest
  <2> QED
    BY <2>4, <2>5
<1> QED
  BY <1>2, <1>3, <1>4, <1>5, <1>6 DEF Lookup

(* Filling: copying, compiling, hashing and the three steps of a write     *)
(* keep IInv.                                                              *)
LEMMA FillStep ==
  ASSUME IInv, NEW p \in Procs, Fill(p) PROVE IInv'
<1> USE DEF IInv, At, Goto
<1>1. CASE Copy(p)
  <2>1. TypeOK'
    BY <1>1 DEF Copy, TypeOK, KeyInUse
  <2>2. Knows(p)'
    BY <1>1 DEF Copy, TypeOK, KeyInUse, Knows
  <2> QED
    BY <1>1, <2>1, <2>2, OwnStep DEF Copy, TypeOK
<1>2. CASE Compile(p)
  <2>1. TypeOK'
    BY <1>2 DEF Compile, TypeOK, KeyInUse
  <2>2. Knows(p)'
    BY <1>2 DEF Compile, TypeOK, KeyInUse, Knows
  <2> QED
    BY <1>2, <2>1, <2>2, OwnStep DEF Compile, TypeOK
<1>3. CASE Rehash(p)
  <2>1. TypeOK'
    BY <1>3 DEF Rehash, TypeOK, KeyInUse
  <2>2. Knows(p)'
    BY <1>3 DEF Rehash, TypeOK, KeyInUse, Knows
  <2> QED
    BY <1>3, <2>1, <2>2, OwnStep DEF Rehash, TypeOK
<1>4. CASE NoRoom(p)
  <2>1. TypeOK'
    BY <1>4 DEF NoRoom, TypeOK, KeyInUse
  <2>2. Knows(p)'
    BY <1>4 DEF NoRoom, TypeOK, KeyInUse, Knows
  <2> QED
    BY <1>4, <2>1, <2>2, OwnStep DEF NoRoom, TypeOK
<1>5. ASSUME key[p] \in Texts,
             NEW a \in [head : {"none", "hole", "torn", "whole"},
                        front : Texts \cup {"none"}, back : Texts \cup {"none"}],
             \/ key[p] \in spoilt
             \/ a.head # "torn" /\ {a.front, a.back} \subseteq {key[p], "none"},
             Put(p, a), NEW there \in {"head", "body", "done"},
             pc' = [pc EXCEPT ![p] = there], pc[p] \in {"open", "head", "body"},
             UNCHANGED <<source, key, text, front, prog, since, spoilt>>
      PROVE  IInv'
  <2>1. TypeOK'
    BY <1>5 DEF Put, TypeOK, KeyInUse
  <2>2. (\A k \in Texts : Pure(k))'
    BY <1>5 DEF Put, TypeOK, Pure
  <2>3. Knows(p)'
    BY <1>5 DEF TypeOK, Knows
  <2> QED
    BY <1>5, <2>1, <2>2, <2>3, OthersKnow
<1>6. CASE Open(p)
  BY <1>5, <1>6 DEF Open, Nothing, TypeOK, KeyInUse
<1>7. CASE WriteHead(p)
  <2> DEFINE a == [archive[key[p]] EXCEPT !.head = "whole"]
  <2>1. key[p] \in Texts /\ pc[p] = "head"
    BY <1>7 DEF WriteHead, TypeOK, KeyInUse
  <2>2. a \in [head : {"none", "hole", "torn", "whole"},
               front : Texts \cup {"none"}, back : Texts \cup {"none"}]
    BY <2>1 DEF TypeOK
  <2>3. key[p] \in spoilt \/ (a.head # "torn" /\ {a.front, a.back} \subseteq {key[p], "none"})
    BY <2>1 DEF TypeOK, Pure
  <2>4. Put(p, a)
    BY <1>7 DEF WriteHead
  <2> QED
    BY <1>5, <1>7, <2>1, <2>2, <2>3, <2>4 DEF WriteHead
<1>8. CASE WriteBody(p)
  <2>1. PICK whole \in BOOLEAN :
           Put(p, [head  |-> IF archive[key[p]].head = "none" THEN "hole"
                             ELSE archive[key[p]].head,
                   front |-> text[p],
                   back  |-> IF whole THEN text[p] ELSE archive[key[p]].back])
    BY <1>8 DEF WriteBody
  <2> DEFINE a == [head  |-> IF archive[key[p]].head = "none" THEN "hole"
                             ELSE archive[key[p]].head,
                   front |-> text[p],
                   back  |-> IF whole THEN text[p] ELSE archive[key[p]].back]
  <2>2. key[p] \in Texts /\ pc[p] = "body"
    BY <1>8 DEF WriteBody, TypeOK, KeyInUse
  <2>3. a \in [head : {"none", "hole", "torn", "whole"},
               front : Texts \cup {"none"}, back : Texts \cup {"none"}]
    BY <2>2 DEF TypeOK
  <2>4. key[p] \in spoilt \/ (a.head # "torn" /\ {a.front, a.back} \subseteq {key[p], "none"})
    BY <2>2 DEF TypeOK, Pure, Knows
  <2> QED
    BY <1>5, <1>8, <2>1, <2>2, <2>3, <2>4 DEF WriteBody
<1> QED
  BY <1>1, <1>2, <1>3, <1>4, <1>6, <1>7, <1>8 DEF Fill

(* Every step keeps IInv: lookups, fills, edits, torn heads and deaths.    *)
LEMMA NextHolds == IInv /\ [Next]_vars => IInv'
<1> USE DEF IInv, At, Goto
<1>1. ASSUME IInv, UNCHANGED vars PROVE IInv'
  BY <1>1 DEF vars, TypeOK, Pure, Knows
<1>2. ASSUME IInv, Edit PROVE IInv'
  <2>1. TypeOK' /\ (\A k \in Texts : Pure(k))'
    BY <1>2 DEF Edit, TypeOK, Pure, KeyInUse
  <2>2. ASSUME NEW p \in Procs PROVE Knows(p)'
    BY <1>2 DEF Edit, Knows, TypeOK
  <2> QED
    BY <2>1, <2>2
<1>3. ASSUME IInv, NEW p \in Procs, Leave(p) PROVE IInv'
  <2>1. TypeOK'
    BY <1>3 DEF Leave, Returned, TypeOK, KeyInUse
  <2>2. Knows(p)'
    BY <1>3 DEF Leave, Returned, TypeOK, Knows
  <2> QED
    BY <1>3, <2>1, <2>2, OwnStep DEF Leave, Returned
<1>4. ASSUME IInv, NEW p \in Procs, TornHead(p) PROVE IInv'
  <2>1. key[p] \in Texts
    BY <1>4 DEF TornHead, TypeOK, KeyInUse
  <2>2. TypeOK'
    BY <1>4, <2>1 DEF TornHead, Returned, Put, TypeOK, KeyInUse
  <2>3. (\A k \in Texts : Pure(k))'
    BY <1>4, <2>1 DEF TornHead, Put, TypeOK, Pure
  <2>4. Knows(p)'
    BY <1>4 DEF TornHead, Returned, Knows, TypeOK
  <2> QED
    BY <1>4, <2>2, <2>3, <2>4, OthersKnow DEF TornHead, Returned
<1> QED
  BY <1>1, <1>2, <1>3, <1>4, LookupStep, FillStep DEF Next

(* utils.py:365-421, jury.py:94-118. Archives are pure and each call knows *)
(* what it has seen, however many selfevals share the cache.               *)
THEOREM Invariance == Spec => []IInv
  BY InitHolds, NextHolds, PTL DEF Spec

-----------------------------------------------------------------------------
(* Every variable of the cache and of the calls stays in its type.         *)
THEOREM TypeCorrect == Spec => []TypeOK
<1>1. IInv => TypeOK
  BY DEF IInv
<1> QED
  BY <1>1, Invariance, PTL

(* utils.py:369-439, jury.py:93-112.  However many selfevals look up and   *)
(* fill the cache at once and wherever they die, a program handed over is  *)
(* a build of what the source has said since the call, unless its archive  *)
(* was spoilt in one of the two ways Current names.                        *)
THEOREM AlwaysCurrent == Spec => []Current
<1>1. IInv => Current
  BY DEF IInv, Knows, Current, At
<1> QED
  BY <1>1, Invariance, PTL

=============================================================================
