---------------------------- MODULE CompileCache ----------------------------
(***************************************************************************)
(* compile_program (lib/jury.py) over the persistent cache of              *)
(* lib/utils.py: any number of selfeval processes look a source up,        *)
(* compile it on a miss and file the result, in one directory and without  *)
(* a lock, while the user edits the source and processes die anywhere.     *)
(*                                                                         *)
(* A key is the hash of all that is compiled, so a key stands for a text,  *)
(* and a build for the text it was made from: the compiler is              *)
(* deterministic.  An archive is what reaches the disk by one write each:  *)
(* its head, and its body, which a full disk may cut after its front.      *)
(***************************************************************************)
CONSTANTS Procs,   \* running selfevals
          Texts    \* what the source may say

VARIABLES
    source,    \* what the source says
    newer,     \* keys whose archive is of a later mtime than the source
    archive,   \* key -> [head, front, back] as on the disk
    pc,        \* where each process is in compile_program
    key,       \* the key it works with
    text,      \* the copy of the source it compiles
    front,     \* what it has read of a body
    prog,      \* the program it hands over
    since,     \* history: what the source said since the call began
    spoilt     \* history: keys filed for another text, or torn in the head

vars == <<source, newer, archive, pc, key, text, front, prog, since, spoilt>>

Nothing == [head |-> "none", front |-> "none", back |-> "none"]

Init ==
    /\ source \in Texts
    /\ newer = {} /\ archive = [k \in Texts |-> Nothing]
    /\ pc = [p \in Procs |-> "idle"]
    /\ key = [p \in Procs |-> "none"] /\ text = [p \in Procs |-> "none"]
    /\ front = [p \in Procs |-> "none"] /\ prog = [p \in Procs |-> "none"]
    /\ since = [p \in Procs |-> {}]
    /\ spoilt = {}

At(p, here) == pc[p] = here
Goto(p, there) == pc' = [pc EXCEPT ![p] = there]

(* The call is over, and what it knew gone. *)
Returned(p) ==
    /\ Goto(p, "idle")
    /\ key' = [key EXCEPT ![p] = "none"] /\ text' = [text EXCEPT ![p] = "none"]
    /\ front' = [front EXCEPT ![p] = "none"] /\ prog' = [prog EXCEPT ![p] = "none"]
    /\ since' = [since EXCEPT ![p] = {}]

(* The user saves the source, or puts an older version back with its time. *)
Edit ==
    /\ source' \in Texts
    /\ newer' \in {{}, newer}
    /\ since' = [p \in Procs |-> IF At(p, "idle") THEN {} ELSE since[p] \cup {source'}]
    /\ UNCHANGED <<archive, pc, key, text, front, prog, spoilt>>

Begin(p) ==
    /\ At(p, "idle") /\ Goto(p, "hash")
    /\ since' = [since EXCEPT ![p] = {source}]
    /\ UNCHANGED <<source, newer, archive, key, text, front, prog, spoilt>>

-----------------------------------------------------------------------------
(* cache_get.                                                              *)
Hash(p) ==
    /\ At(p, "hash") /\ Goto(p, "stat")
    /\ key' = [key EXCEPT ![p] = source]
    /\ UNCHANGED <<source, newer, archive, text, front, prog, since, spoilt>>

Stat(p) ==
    /\ At(p, "stat")
    /\ Goto(p, IF key[p] \in newer THEN "read" ELSE "copy")
    /\ UNCHANGED <<source, newer, archive, key, text, front, prog, since, spoilt>>

(* The first buffer holds the head and the front of the body.  A head cut  *)
(* within reads as the length zero: an empty program, or one without any   *)
(* permission, which cannot be copied.                                     *)
Read(p) ==
    /\ At(p, "read")
    /\ LET a == archive[key[p]] IN
       \/ /\ a.head = "whole" /\ Goto(p, "rest")
          /\ front' = [front EXCEPT ![p] = a.front] /\ prog' = prog
       \/ /\ a.head = "torn" /\ Goto(p, "done")
          /\ prog' = [prog EXCEPT ![p] = "empty"] /\ front' = front
       \/ /\ a.head # "whole" /\ Goto(p, "copy")
          /\ UNCHANGED <<front, prog>>
    /\ UNCHANGED <<source, newer, archive, key, text, since, spoilt>>

(* A mutated Complete: the length is not compared. *)
CompleteAnyhow(f, b) == f # "none"

Complete(f, b) == f # "none" /\ b # "none"

Rest(p) ==
    /\ At(p, "rest")
    /\ LET a == archive[key[p]]
           f == IF front[p] = "none" THEN a.front ELSE front[p] IN
       IF Complete(f, a.back)
       THEN /\ prog' = [prog EXCEPT ![p] = IF f = a.back THEN f ELSE "mixed"]
            /\ Goto(p, "done")
       ELSE prog' = prog /\ Goto(p, "copy")
    /\ UNCHANGED <<source, newer, archive, key, text, front, since, spoilt>>

-----------------------------------------------------------------------------
(* A miss: copy, compile, and cache_add, which hashes the source anew.     *)
Copy(p) ==
    /\ At(p, "copy") /\ Goto(p, "compile")
    /\ text' = [text EXCEPT ![p] = source]
    /\ key' = [key EXCEPT ![p] = "none"] /\ front' = [front EXCEPT ![p] = "none"]
    /\ UNCHANGED <<source, newer, archive, prog, since, spoilt>>

Compile(p) ==
    /\ At(p, "compile")
    /\ \/ Goto(p, "rehash") /\ prog' = [prog EXCEPT ![p] = text[p]]
       \/ Goto(p, "done") /\ prog' = prog
    /\ UNCHANGED <<source, newer, archive, key, text, front, since, spoilt>>

(* A mutated Rehash: a hash that could not be made is used all the same. *)
RehashUnchecked(p) ==
    /\ At(p, "rehash") /\ Goto(p, "open")
    /\ \E k \in {source, "none"} : key' = [key EXCEPT ![p] = k]
    /\ UNCHANGED <<source, newer, archive, text, front, prog, since, spoilt>>

Rehash(p) ==
    /\ At(p, "rehash") /\ Goto(p, "open")
    /\ key' = [key EXCEPT ![p] = source]
    /\ spoilt' = IF text[p] = source THEN spoilt ELSE spoilt \cup {source}
    /\ UNCHANGED <<source, newer, archive, text, front, prog, since>>

(* Put(p, a): the archive of p's key becomes a, as of now. *)
Put(p, a) ==
    /\ archive' = [archive EXCEPT ![key[p]] = a]
    /\ newer' = newer \cup {key[p]}

(* Opened for writing, a file another process is reading or writing is     *)
(* emptied under it.                                                       *)
Open(p) ==
    /\ At(p, "open") /\ Goto(p, "head")
    /\ Put(p, Nothing)
    /\ UNCHANGED <<source, key, text, front, prog, since, spoilt>>

WriteHead(p) ==
    /\ At(p, "head") /\ Goto(p, "body")
    /\ Put(p, [archive[key[p]] EXCEPT !.head = "whole"])
    /\ UNCHANGED <<source, key, text, front, prog, since, spoilt>>

(* Each process writes on from where it was: past an emptied file's end    *)
(* that leaves a hole before it.                                           *)
WriteBody(p) ==
    /\ At(p, "body") /\ Goto(p, "done")
    /\ \E whole \in BOOLEAN :
          Put(p, [head  |-> IF archive[key[p]].head = "none" THEN "hole"
                            ELSE archive[key[p]].head,
                  front |-> text[p],
                  back  |-> IF whole THEN text[p] ELSE archive[key[p]].back])
    /\ UNCHANGED <<source, key, text, front, prog, since, spoilt>>

(* The file cannot be opened, or not even its head fits on the disk. *)
NoRoom(p) ==
    /\ At(p, "open") \/ At(p, "head")
    /\ Goto(p, "done")
    /\ UNCHANGED <<source, newer, archive, key, text, front, prog, since, spoilt>>

(* compile_program returns; or its process dies, the archive left as is.   *)
Leave(p) ==
    /\ ~At(p, "idle") /\ Returned(p)
    /\ UNCHANGED <<source, newer, archive, spoilt>>

(* Ctrl-C between the small writes of the head: closing the file puts what *)
(* there is of it on the disk, over a head of the same bytes or alone.     *)
TornHead(p) ==
    /\ At(p, "head") /\ archive[key[p]].head # "whole"
    /\ Put(p, [archive[key[p]] EXCEPT !.head = "torn"])
    /\ spoilt' = spoilt \cup {key[p]}
    /\ Returned(p)
    /\ UNCHANGED source

-----------------------------------------------------------------------------
Lookup(p) == Begin(p) \/ Hash(p) \/ Stat(p) \/ Read(p) \/ Rest(p)
Fill(p) == \/ Copy(p) \/ Compile(p) \/ Rehash(p) \/ Open(p)
           \/ WriteHead(p) \/ WriteBody(p) \/ NoRoom(p)
Next == Edit \/ \E p \in Procs : Lookup(p) \/ Fill(p) \/ Leave(p) \/ TornHead(p)

Spec == Init /\ [][Next]_vars

-----------------------------------------------------------------------------
(* Properties.                                                             *)

(* The types of the cache and of a call; a key in use is a hash.           *)
KeyInUse == {"stat", "read", "rest", "open", "head", "body"}
TypeOK ==
    /\ source \in Texts /\ newer \subseteq Texts /\ spoilt \subseteq Texts
    /\ archive \in [Texts -> [head : {"none", "hole", "torn", "whole"},
                              front : Texts \cup {"none"}, back : Texts \cup {"none"}]]
    /\ pc \in [Procs -> {"idle", "hash", "copy", "compile", "rehash", "done"} \cup KeyInUse]
    /\ key \in [Procs -> Texts \cup {"none"}]
    /\ \A p \in Procs : pc[p] \in KeyInUse => key[p] \in Texts
    /\ text \in [Procs -> Texts \cup {"none"}] /\ front \in [Procs -> Texts \cup {"none"}]
    /\ prog \in [Procs -> Texts \cup {"none", "empty", "mixed"}]
    /\ since \in [Procs -> SUBSET Texts]

(* The program compile_program hands over is a build of what the source    *)
(* has said since the call: never of an earlier version, never a piece of  *)
(* an archive and never pieced together from two, whoever else fills the   *)
(* same archive and wherever they died, unless the source was edited       *)
(* between somebody's copy and hash, or a Ctrl-C fell into a head.         *)
Current ==
    \A p \in Procs : At(p, "done") =>
        prog[p] \in since[p] \cup {"none"} \/ key[p] \in spoilt

=============================================================================
