------------------------- MODULE SyscallGuardProofs -------------------------
(***************************************************************************)
(* Proofs about the monitor's answers: the types, how the privilege is     *)
(* earned and spent, and that the walk over the permission tree answers    *)
(* as the list of grants says, for paths and grants of any length and      *)
(* number.                                                                 *)
(***************************************************************************)
EXTENDS SyscallGuard, WellFoundedInduction, TLAPS

-----------------------------------------------------------------------------
(* Types.                                                                  *)

(* What every program is granted are grants.                               *)
LEMMA DefaultsAreGrants == DefaultGrants \subseteq Grants
<1> SUFFICES ASSUME NEW g \in DefaultGrants PROVE g \in Grants
  OBVIOUS
<1> DEFINE Paths == {<<"etc", "ld.so.cache">>, <<"lib">>, <<"usr", "lib">>,
             <<"dev", "random">>, <<"dev", "urandom">>, <<"dev", "stdin">>,
             <<"etc", "localtime">>, <<"dev", "null">>, <<"dev", "stdout">>,
             <<"dev", "stderr">>}
<1>1. \A p \in Paths : p \in Seq(Names)
  <2>1. ASSUME NEW S, {"etc", "ld.so.cache", "lib", "usr", "dev", "random", "urandom",
                       "stdin", "localtime", "null", "stdout", "stderr"} \subseteq S
        PROVE  \A p \in Paths : p \in Seq(S)
    BY <2>1
  <2> QED
    BY <2>1, NamesAssumption
<1>2. g \in [path : Paths, mode : {"read", "readwrite", "write"}]
  BY DEF DefaultGrants
<1> QED
  BY <1>1, <1>2 DEF Grants, Accs

(* What TypeOK says of the variables that handle_syscall sets.             *)
Places ==
    /\ token \in Tokens
    /\ execved \in BOOLEAN /\ login \in BOOLEAN
    /\ shot \in 0 .. MaxShots
    /\ answer \in Answers
    /\ shown \subseteq Tokens
    /\ asked \in -1 .. MaxShots
    /\ spent \in Nat

(* The strengthening that carries the promise of a shot: a privilege       *)
(* without a count holds no shots, and there is none before it is asked.   *)
Shots ==
    /\ ShotsExact
    /\ asked = 0 => shot = 0
    /\ asked = -1 => ~login

Earned == Places /\ PrivilegeEarned /\ Shots

(* A run starts without a privilege.                                       *)
LEMMA EarnedInit == Init => Earned
<1> SUFFICES ASSUME Init PROVE Earned
  OBVIOUS
<1>1. login = FALSE /\ shot = 0 /\ asked = -1 /\ spent = 0 /\ shown = {}
        /\ token \in Tokens /\ execved = FALSE /\ answer = "none"
  BY DEF Init
<1>2. Places
  <2>1. 0 \in 0 .. MaxShots /\ -1 \in -1 .. MaxShots
    BY GuardAssumption
  <2> QED
    BY <1>1, <2>1 DEF Places, Answers
<1>3. PrivilegeEarned
  BY <1>1 DEF PrivilegeEarned
<1>4. Shots
  BY <1>1 DEF Shots, ShotsExact
<1> QED
  BY <1>2, <1>3, <1>4 DEF Earned

(* A call under the privilege spends what was earned.                      *)
LEMMA EarnedPrivileged ==
  ASSUME Earned, NEW name \in Kinds, Privileged(name) PROVE Earned'
<1> USE DEF Earned, Privileged, Answered, setup
<1>1. Places'
  BY GuardAssumption DEF Places, Answers
<1>2. PrivilegeEarned'
  BY DEF PrivilegeEarned
<1>3. Shots'
  <2>0. login /\ (login' <=> shot # 1) /\ spent' = spent + 1 /\ asked' = asked
         /\ shot' = (IF shot > 1 THEN shot - 1 ELSE shot)
    OBVIOUS
  <2>1. CASE asked = 0
    BY <2>0, <2>1 DEF Shots, ShotsExact, Places
  <2>2. CASE asked > 0 /\ shot = 1
    BY <2>0, <2>2 DEF Shots, ShotsExact, Places
  <2>3. CASE asked > 0 /\ shot # 1
    <3>1. shot > 1 /\ shot' = shot - 1 /\ login' /\ spent' = spent + 1 /\ asked' = asked
      BY <2>0, <2>3 DEF Shots, ShotsExact, Places
    <3> QED
      BY <3>1, <2>3 DEF Shots, ShotsExact, Places
  <2> QED
    BY <2>1, <2>2, <2>3 DEF Shots, Places
<1> QED
  BY <1>1, <1>2, <1>3

(* A login or a shot is earned by the token shown.                         *)
LEMMA EarnedAuth ==
  ASSUME Earned, NEW name, NEW t \in Tokens, NEW count \in 0 .. MaxShots,
         Auth(name, t, count)
  PROVE  Earned'
<1> USE DEF Earned, Auth, Answered, setup
<1>1. CASE CheckAuth(t)
  <2>1. login' = TRUE /\ shot' = count /\ asked' = count /\ spent' = 0
    BY <1>1
  <2>2. Places'
    BY <1>1, <2>1 DEF Places, Answers, Running
  <2>3. PrivilegeEarned'
    BY <1>1, <2>1 DEF PrivilegeEarned, CheckAuth, Running
  <2>4. Shots'
    BY <2>1, GuardAssumption DEF Shots, ShotsExact
  <2> QED
    BY <2>2, <2>3, <2>4
<1>2. CASE ~CheckAuth(t)
  <2>1. UNCHANGED <<login, shot, asked, spent>>
    BY <1>2
  <2>2. Places'
    BY <1>2, <2>1 DEF Places, Answers
  <2>3. PrivilegeEarned'
    BY <2>1 DEF PrivilegeEarned
  <2>4. Shots'
    BY <2>1 DEF Shots, ShotsExact
  <2> QED
    BY <2>2, <2>3, <2>4
<1> QED
  BY <1>1, <1>2

(* The calls that leave the privilege alone.                               *)
LEMMA EarnedKept ==
  ASSUME Earned, UNCHANGED <<setup, privilege>>, answer' \in Answers,
         execved' \in BOOLEAN, execved => execved'
  PROVE  Earned'
  BY DEF Earned, Places, PrivilegeEarned, Shots, ShotsExact, setup, privilege

(* Every call keeps the privilege earned.                                  *)
LEMMA EarnedNext == Earned /\ [Next]_vars => Earned'
<1> SUFFICES ASSUME Earned, [Next]_vars PROVE Earned'
  OBVIOUS
<1> USE DEF Answered
<1>0. execved \in BOOLEAN /\ answer \in Answers
  BY DEF Earned, Places
<1>1. ASSUME NEW name \in Kinds, Privileged(name) PROVE Earned'
  BY <1>1, EarnedPrivileged
<1>2. ASSUME NEW c \in FileCalls, FileCall(c) PROVE Earned'
  <2>1. OnFile(c) \in Answers
    BY DEF OnFile, Answers
  <2> QED
    BY <1>0, <1>2, <2>1, EarnedKept DEF FileCall
<1>3. CASE Free
  BY <1>0, <1>3, EarnedKept DEF Free, Answers
<1>4. CASE Other
  BY <1>0, <1>4, EarnedKept DEF Other, Answers
<1>5. CASE Execve
  BY <1>0, <1>5, EarnedKept DEF Execve, Answers
<1>6. CASE Logout
  BY <1>0, <1>6, EarnedKept DEF Logout, Answers
<1>7. ASSUME NEW t \in Tokens, Auth("auth_login", t, 0) PROVE Earned'
  BY <1>7, EarnedAuth, GuardAssumption
<1>8. ASSUME NEW t \in Tokens, NEW count \in 0 .. MaxShots, Auth("auth_shot", t, count)
      PROVE Earned'
  BY <1>8, EarnedAuth
<1>9. CASE UNCHANGED vars
  BY <1>0, <1>9, EarnedKept DEF vars, setup, privilege
<1> QED
  BY <1>1, <1>2, <1>3, <1>4, <1>5, <1>6, <1>7, <1>8, <1>9 DEF Next

(* sandbox.cpp:222-227, 332-340. The privilege, its count and their        *)
(* history agree at every call.                                            *)
THEOREM EarnedAlways == Spec => []Earned
  BY EarnedInit, EarnedNext, PTL DEF Spec

(* sandbox.cpp:222-227, 332-340, 425-437.  Only a run that was given a     *)
(* token is ever privileged, only once the program has shown that token,   *)
(* and never before the program's own execve.                              *)
THEOREM PrivilegeIsEarned == Spec => []PrivilegeEarned
<1>1. Earned => PrivilegeEarned
  BY DEF Earned
<1> QED
  BY <1>1, EarnedAlways, PTL

(* sandbox.cpp:333-339.  A privilege of n > 0 shots lets exactly n calls   *)
(* on; one without a count does not end.                                   *)
THEOREM ShotsAreExact == Spec => []ShotsExact
<1>1. Earned => ShotsExact
  BY DEF Earned, Shots
<1> QED
  BY <1>1, EarnedAlways, PTL

(* Every variable of handle_syscall and of its history has its type.       *)
Rest == grants \subseteq Grants /\ tree = TreeOf(grants)
          /\ call \in FileCalls \cup [op : Kinds \cup {"none"}]

(* The tree is built of the grants before the first call.                  *)
LEMMA RestInit == Init => Rest
<1> SUFFICES ASSUME Init PROVE Rest
  OBVIOUS
<1>1. PICK given \in SUBSET Offered, tty \in Terminal :
        grants = DefaultGrants \cup tty \cup given
  BY DEF Init
<1>2. tty \subseteq Grants
  <2>1. ASSUME NEW g \in tty PROVE g \in Grants
    <3>1. PICK t \in Ttys : g = [path |-> t, mode |-> "read"]
      BY <2>1 DEF Terminal
    <3>2. t \in Seq(Names)
      BY GuardAssumption
    <3> QED
      BY <3>1, <3>2 DEF Grants, Accs
  <2> QED
    BY <2>1
<1>3. grants \subseteq Grants
  BY <1>1, <1>2, GuardAssumption, DefaultsAreGrants
<1> QED
  BY <1>3 DEF Init, Rest

(* No call changes the grants or the tree.                                 *)
LEMMA RestNext == Rest /\ [Next]_vars => Rest'
<1> SUFFICES ASSUME Rest, [Next]_vars PROVE Rest'
  OBVIOUS
<1>1. CASE UNCHANGED setup /\ call' \in FileCalls \cup [op : Kinds]
  <2>1. call' \in FileCalls \cup [op : Kinds \cup {"none"}]
    BY <1>1
  <2> QED
    BY <1>1, <2>1 DEF Rest, setup, TreeOf, OnItem
<1>2. CASE Next
  BY <1>1, <1>2 DEF Next, Privileged, FileCall, Free, Other, Execve, Logout, Auth,
                    Answered, Kinds
<1>3. CASE UNCHANGED vars
  BY <1>3 DEF vars, setup, Rest, TreeOf, OnItem
<1> QED
  BY <1>2, <1>3

(* Every variable of handle_syscall and of its history has its type.       *)
THEOREM TypeCorrect == Spec => []TypeOK
<1>1. Earned /\ Rest => TypeOK
  BY DEF Earned, Places, Rest, TypeOK
<1> QED
  BY <1>1, EarnedAlways, RestInit, RestNext, PTL DEF Spec

-----------------------------------------------------------------------------
(* The walk over the tree.                                                 *)

(* Among the places where a walk may end there is a first one.             *)
LEMMA FirstOne ==
  ASSUME NEW S, S \subseteq Nat, S # {}
  PROVE  \E i \in S : \A j \in S : ~ (j < i)
<1>1. PICK i \in S : \A j \in S : ~ (<<j, i>> \in OpToRel(<, Nat))
  BY NatLessThanWellFounded, WFMin
<1>2. ASSUME NEW j \in S, j < i PROVE FALSE
  <2>1. <<j, i>> \in Nat \X Nat
    OBVIOUS
  <2>2. <<j, i>> \in OpToRel(<, Nat)
    BY <1>2, <2>1 DEF OpToRel
  <2> QED
    BY <1>1, <2>2
<1> QED
  BY <1>1, <1>2

(* Beginnings of paths.                                                    *)
LEMMA Beginnings ==
  ASSUME NEW p \in Seq(Names), NEW i \in 1 .. Len(p), NEW k \in 1 .. i
  PROVE  /\ Upto(p, i) \in Seq(Names) /\ Len(Upto(p, i)) = i
         /\ Upto(Upto(p, i), k) = Upto(p, k)
         /\ Upto(p, Len(p)) = p
  BY DEF Upto

(* _is_permitted answers as the grants say: the tree ends a walk early     *)
(* only where the answer can no longer change.                             *)
LEMMA WalkFollowsGrants ==
  ASSUME tree = TreeOf(grants), grants \subseteq Grants,
         NEW p \in Seq(Names), p # <<>>, NEW need \in SUBSET {"r", "w"}, need # {}
  PROVE  Walk(p, need) = "yes" <=> GrantedFrom(p, need)
<1> DEFINE Holds(i) == Suffices(Upto(p, i), need)
           Bans(i)  == BannedAt(Upto(p, i))
           Ends == {i \in 1 .. Len(p) - 1 :
                      Decides(p, i, need) /\ \A j \in 1 .. i - 1 : ~Decides(p, j, need)}
<1>0. Len(p) \in Nat /\ Len(p) >= 1 /\ Upto(p, Len(p)) = p
  <2>1. Len(p) \in Nat /\ Len(p) >= 1
    OBVIOUS
  <2> QED
    BY <2>1, Beginnings
<1>1. ASSUME NEW q
      PROVE /\ HasEntry(q) <=> (\E g \in grants : g.path = q) \/ q \in SoftBanned
            /\ HasEntry(q) => tree[q] = OnItem(grants, q)
            /\ ~HasEntry(q) => OnItem(grants, q) = {}
  BY DEF HasEntry, TreeOf, OnItem
<1>2. ASSUME NEW q
      PROVE Suffices(q, need) <=> (\E g \in grants : g.path = q) /\ need \subseteq OnItem(grants, q)
  <2>1. ASSUME need \subseteq OnItem(grants, q) PROVE \E g \in grants : g.path = q
    <3>1. PICK bit \in need : bit \in {"r", "w"}
      OBVIOUS
    <3>2. bit \in UNION {Bits(g.mode) : g \in {h \in grants : h.path = q}}
      BY <2>1, <3>1 DEF OnItem
    <3> QED
      BY <3>2
  <2> QED
    BY <1>1, <2>1 DEF Suffices
<1>3. ASSUME NEW q PROVE BannedAt(q) <=> "ban" \in OnItem(grants, q)
  BY <1>1 DEF BannedAt
<1>4. GrantedFrom(p, need) <=>
        \E i \in 1 .. Len(p) : /\ Holds(i)
                               /\ i < Len(p) => ~Bans(i)
                               /\ \A j \in 1 .. i - 1 : ~Bans(j)
  BY <1>2, <1>3 DEF GrantedFrom
<1>5. \A i \in 1 .. Len(p) - 1 : Decides(p, i, need) <=> Bans(i) \/ Holds(i) \/ ~Leads(p, i)
  BY DEF Decides
<1>6. Ends = {} => \A i \in 1 .. Len(p) - 1 : ~Decides(p, i, need)
  <2> SUFFICES ASSUME NEW i \in 1 .. Len(p) - 1, Decides(p, i, need) PROVE Ends # {}
    OBVIOUS
  <2> DEFINE S == {k \in 1 .. Len(p) - 1 : Decides(p, k, need)}
  <2>1. S \subseteq Nat /\ S # {}
    BY <1>0
  <2>2. PICK k \in S : \A j \in S : ~ (j < k)
    BY <2>1, FirstOne
  <2>3. k \in 1 .. Len(p) - 1 /\ Decides(p, k, need)
    BY <2>2
  <2>4. ASSUME NEW j \in 1 .. k - 1 PROVE ~Decides(p, j, need)
    <3>1. j \in 1 .. Len(p) - 1 /\ j < k
      BY <2>3, <1>0
    <3> QED
      BY <2>2, <3>1
  <2> QED
    BY <2>3, <2>4
<1>7. \A i, j \in Ends : i = j
  <2> SUFFICES ASSUME NEW i \in Ends, NEW j \in Ends, i < j PROVE FALSE
    BY <1>0
  <2> QED
    BY <1>0
<1>8. Walk(p, need) = "yes" <=>
        IF Ends = {} THEN Holds(Len(p))
        ELSE (\A i \in Ends : ~Bans(i)) /\ (\E i \in Ends : Holds(i))
  BY <1>0 DEF Walk
<1> HIDE DEF Holds, Bans
<1>9. ASSUME GrantedFrom(p, need) PROVE Walk(p, need) = "yes"
  <2>1. PICK i \in 1 .. Len(p) : /\ Holds(i) /\ (i < Len(p) => ~Bans(i))
                                 /\ \A j \in 1 .. i - 1 : ~Bans(j)
    BY <1>4, <1>9
  <2>2. CASE Ends = {}
    <3>1. i = Len(p)
      BY <1>0, <1>5, <1>6, <2>1, <2>2
    <3> QED
      BY <1>8, <2>1, <2>2, <3>1
  <2>3. ASSUME NEW k \in Ends PROVE Holds(k) /\ ~Bans(k)
    <3>0. k \in 1 .. Len(p) - 1 /\ Decides(p, k, need)
           /\ \A j \in 1 .. k - 1 : ~Decides(p, j, need)
      OBVIOUS
    <3>1. ~(i < k)
      <4> SUFFICES ASSUME i < k PROVE FALSE
        OBVIOUS
      <4>1. i \in 1 .. k - 1 /\ i \in 1 .. Len(p) - 1
        BY <1>0, <3>0
      <4> QED
        BY <1>5, <2>1, <3>0, <4>1
    <3>2. CASE i = k
      BY <1>0, <2>1, <3>0, <3>2
    <3>3. CASE k < i
      <4>1. ~Bans(k)
        BY <1>0, <2>1, <3>0, <3>3
      <4>2. HasEntry(Upto(p, i))
        BY <2>1 DEF Holds, Suffices
      <4>3. Len(Upto(p, i)) = i /\ Upto(Upto(p, i), k) = Upto(p, k)
        BY <1>0, <3>0, <3>3, Beginnings
      <4>4. Leads(p, k)
        BY <3>3, <4>2, <4>3 DEF Leads, HasEntry
      <4> QED
        BY <1>5, <3>0, <4>1, <4>4
    <3> QED
      BY <1>0, <3>0, <3>1, <3>2, <3>3
  <2> QED
    BY <1>8, <2>2, <2>3
<1>10. ASSUME Walk(p, need) = "yes" PROVE GrantedFrom(p, need)
  <2>1. CASE Ends = {}
    <3>1. Holds(Len(p))
      BY <1>8, <1>10, <2>1
    <3>2. \A j \in 1 .. Len(p) - 1 : ~Bans(j)
      BY <1>5, <1>6, <2>1
    <3> QED
      BY <1>0, <1>4, <3>1, <3>2
  <2>2. CASE Ends # {}
    <3>1. PICK i \in Ends : Holds(i)
      BY <1>8, <1>10, <2>2
    <3>2. ~Bans(i)
      BY <1>8, <1>10, <2>2
    <3>3. i \in 1 .. Len(p) - 1 /\ \A j \in 1 .. i - 1 : ~Decides(p, j, need)
      OBVIOUS
    <3>4. \A j \in 1 .. i - 1 : ~Bans(j)
      <4> SUFFICES ASSUME NEW j \in 1 .. i - 1 PROVE ~Bans(j)
        OBVIOUS
      <4>1. j \in 1 .. Len(p) - 1
        BY <1>0, <3>3
      <4> QED
        BY <1>5, <3>3, <4>1
    <3> QED
      BY <1>0, <1>4, <3>1, <3>2, <3>3, <3>4
  <2> QED
    BY <2>1, <2>2
<1> QED
  BY <1>9, <1>10

(* Normalising leaves a path of names.                                     *)
LEMMA WalkedIsPath ==
  ASSUME NEW c, c.at.path \in Seq(Names), c.at.path # <<>> PROVE Walked(c) \in Seq(Names)
<1> DEFINE p == c.at.path
           above == Upto(p, Len(p) - IF p[Len(p)] = "." THEN 1 ELSE 2)
<1>1. p \in Seq(Names) /\ Len(p) \in Nat
  OBVIOUS
<1>2. above \in Seq(Names)
  <2>1. ASSUME NEW i \in Int, i < Len(p) PROVE Upto(p, i) \in Seq(Names)
    <3>1. ASSUME NEW s \in Seq(Names), i < Len(s) PROVE SubSeq(s, 1, i) \in Seq(Names)
      BY <2>1, <3>1
    <3> QED
      BY <1>1, <2>1, <3>1 DEF Upto
  <2>2. Len(p) - (IF p[Len(p)] = "." THEN 1 ELSE 2) \in Int
         /\ Len(p) - (IF p[Len(p)] = "." THEN 1 ELSE 2) < Len(p)
    <3>1. CASE p[Len(p)] = "."
      BY <1>1, <3>1
    <3>2. CASE p[Len(p)] # "."
      BY <1>1, <3>2
    <3> QED
      BY <3>1, <3>2
  <2> QED
    BY <2>1, <2>2
<1>3. "" \in Names
  <2>1. ASSUME NEW S, {"etc", "ld.so.cache", "lib", "usr", "dev", "random", "urandom",
                       "stdin", "localtime", "null", "stdout", "stderr", ""} \subseteq S
        PROVE  "" \in S
    BY <2>1
  <2> QED
    BY <2>1, NamesAssumption
<1>4. Lexical(p) \in {p, <<>>, Append(above, "")}
  BY DEF Lexical
<1> HIDE DEF p, above
<1>5. Append(above, "") \in Seq(Names) /\ <<>> \in Seq(Names)
  <2>1. ASSUME NEW S, NEW s \in Seq(S), NEW e \in S PROVE Append(s, e) \in Seq(S)
    OBVIOUS
  <2>2. Append(above, "") \in Seq(Names)
    BY <1>2, <1>3, <2>1
  <2>3. <<>> \in Seq(Names)
    OBVIOUS
  <2> QED
    BY <2>2, <2>3
<1>6. Lexical(p) \in Seq(Names)
  BY <1>1, <1>4, <1>5
<1> QED
  BY <1>1, <1>6 DEF Walked, p

(* What the last answer was, to a call that opens an item.                 *)
LEMMA OpensInit == Init => OpensAsGranted
  BY DEF Init, OpensAsGranted

(* A file is opened as the walk over the tree says.                        *)
LEMMA OpensFile ==
  ASSUME Rest, NEW c \in FileCalls, FileCall(c) PROVE OpensAsGranted'
<1> SUFFICES ASSUME c.op \in {"open", "openat"}, ~Unreadable(c), c.at.kind = "item",
                    c.acc # "odd"
             PROVE OnFile(c) = "continue" <=>
                      /\ GrantedFrom(Walked(c), Bits(c.acc))
                      /\ Upto(Walked(c), Len(Walked(c)) - 1) \notin Missing
  <2>1. call' = c /\ answer' = OnFile(c) /\ grants' = grants
    BY DEF FileCall, Answered, setup
  <2>2. GrantedFrom(Walked(c), Bits(c.acc))' <=> GrantedFrom(Walked(c), Bits(c.acc))
    BY <2>1 DEF GrantedFrom, OnItem, Walked
  <2>3. Walked(call)' = Walked(c)
    BY <2>1 DEF Walked
  <2> QED
    BY <2>1, <2>2, <2>3 DEF OpensAsGranted, Unreadable
<1> DEFINE p == Walked(c)
           need == Bits(c.acc)
<1>1. c.at \in Files /\ c.at.path \in Items /\ c.acc \in Accs \ {"exist", "odd"}
  BY DEF FileCalls, Named, Files, Elsewhere
<1>2. p \in Seq(Names)
  BY <1>1, GuardAssumption, WalkedIsPath
<1>3. need \in SUBSET {"r", "w"} /\ need # {}
  BY <1>1 DEF Bits, Accs
<1>4. Permitted(c, "enoent") = IF p = <<>> THEN "no"
                               ELSE IF Upto(p, Len(p) - 1) \in Missing THEN "enoent"
                               ELSE Walk(p, need)
  BY DEF Permitted
<1>5. OnFile(c) = "continue" <=> Permitted(c, "enoent") = "yes"
  BY DEF OnFile
<1> HIDE DEF p, need
<1>6. CASE p = <<>>
  <2>1. ~GrantedFrom(p, need)
    BY <1>6 DEF GrantedFrom
  <2> QED
    BY <1>4, <1>5, <1>6, <2>1 DEF p, need
<1>7. CASE p # <<>>
  <2>1. Walk(p, need) = "yes" <=> GrantedFrom(p, need)
    BY <1>2, <1>3, <1>7, WalkFollowsGrants DEF Rest
  <2>2. OnFile(c) = "continue" <=>
          GrantedFrom(p, need) /\ Upto(p, Len(p) - 1) \notin Missing
    BY <1>4, <1>5, <1>7, <2>1
  <2> QED
    BY <2>2 DEF p, need
<1> QED
  BY <1>6, <1>7

(* Every call keeps what has been opened as granted.                       *)
LEMMA OpensNext == Rest /\ OpensAsGranted /\ [Next]_vars => OpensAsGranted'
<1> SUFFICES ASSUME Rest, OpensAsGranted, [Next]_vars PROVE OpensAsGranted'
  OBVIOUS
<1>1. CASE call'.op \notin {"open", "openat"}
  BY <1>1 DEF OpensAsGranted
<1>2. ASSUME NEW c \in FileCalls, FileCall(c) PROVE OpensAsGranted'
  BY <1>2, OpensFile
<1>3. CASE UNCHANGED vars
  <2>1. call' = call /\ answer' = answer /\ asked' = asked /\ grants' = grants
    BY <1>3 DEF vars
  <2>2. Walked(call)' = Walked(call)
    BY <2>1 DEF Walked
  <2>3. GrantedFrom(Walked(call), Bits(call.acc))' <=> GrantedFrom(Walked(call), Bits(call.acc))
    BY <2>1, <2>2 DEF GrantedFrom, OnItem
  <2> QED
    BY <2>1, <2>2, <2>3 DEF OpensAsGranted, Unreadable
<1>4. ASSUME NEW name \in Kinds, Privileged(name) PROVE OpensAsGranted'
  BY <1>1, <1>4 DEF Privileged, Answered, Kinds
<1> QED
  BY <1>1, <1>2, <1>3, <1>4 DEF Next, Free, Other, Execve, Logout, Auth, Answered

(* sandbox.cpp:129-177.  For any grants and any path, a program without    *)
(* privilege is let on to open an item exactly when the grants cover it.   *)
THEOREM OpensAreGranted == Spec => []OpensAsGranted
  BY OpensInit, OpensNext, RestInit, RestNext, PTL DEF Spec

=============================================================================
