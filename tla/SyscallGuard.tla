---------------------------- MODULE SyscallGuard ----------------------------
(***************************************************************************)
(* What the monitor answers to the calls of the program it watches         *)
(* (src/sandbox.cpp, handle_syscall and the permission tree): which calls  *)
(* go on, which fail softly, which end the program; and the privilege a    *)
(* grader linked into the program obtains with its token (sandboxlib.h).   *)
(*                                                                         *)
(* A path is the sequence of its names from the root, the links in its     *)
(* parent resolved (fs::canonical); only its last name may be "." or "..",  *)
(* or empty, after a final slash.  Modes and requests are sets of the bits *)
(* the code numbers 1, 2 and 4.                                            *)
(***************************************************************************)
EXTENDS Integers, Sequences

CONSTANTS Names,      \* the names of files and directories
          Offered,    \* the grants a command line may carry
          Items,      \* the items the program asks for
          Ttys,       \* the terminals standard input may be
          Missing,    \* directories that are not there
          Tokens,     \* the tokens there are, 0 standing for none
          MaxShots,   \* bound: the largest count auth_shot is called with
          MaxSpent    \* bound: calls counted under a lasting privilege

Accs == {"exist", "read", "write", "readwrite", "odd"}
Grants == [path : Seq(Names), mode : Accs]

ASSUME NamesAssumption ==
    {"etc", "ld.so.cache", "lib", "usr", "dev", "random", "urandom", "stdin",
     "localtime", "null", "stdout", "stderr", ""} \subseteq Names

ASSUME GuardAssumption ==
    /\ Offered \subseteq Grants
    /\ Ttys \subseteq Seq(Names)
    /\ Items \subseteq Seq(Names) \ {<<>>}
    /\ Tokens \subseteq Nat /\ 0 \in Tokens
    /\ MaxShots \in Nat /\ MaxSpent \in Nat

(* ++acc: -1, O_RDONLY, O_WRONLY, O_RDWR and the odd access mode 3.        *)
Bits(acc) == CASE acc = "exist" -> {}
               [] acc = "read"  -> {"r"}
               [] acc = "write" -> {"w"}
               [] acc = "readwrite" -> {"r", "w"}
               [] acc = "odd"   -> {"ban"}

(***************************************************************************)
(* What the tree is built from: the items every program is granted, those  *)
(* that are banned, and the grants of the command line.                    *)
(***************************************************************************)
DefaultGrants ==
    [path : {<<"etc", "ld.so.cache">>, <<"lib">>, <<"usr", "lib">>,
             <<"dev", "random">>, <<"dev", "urandom">>, <<"dev", "stdin">>,
             <<"etc", "localtime">>}, mode : {"read"}]
    \cup [path : {<<"dev", "null">>}, mode : {"readwrite"}]
    \cup [path : {<<"dev", "stdout">>, <<"dev", "stderr">>}, mode : {"write"}]

(* Standard input need not be a terminal.                                  *)
Terminal == {{}} \cup {{[path |-> t, mode |-> "read"]} : t \in Ttys}

SoftBanned == {<<"etc", "ld.so.preload">>}

(* What is granted or banned on p itself: add_permission and add_softban   *)
(* gather the bits of an item.                                             *)
OnItem(grants, p) ==
    (UNION {Bits(g.mode) : g \in {h \in grants : h.path = p}})
    \cup (IF p \in SoftBanned THEN {"ban"} ELSE {})

TreeOf(grants) ==
    [p \in {g.path : g \in grants} \cup SoftBanned |-> OnItem(grants, p)]

(* What a program can point at: descriptors that are pipes, ones with      *)
(* another relative name, and closed ones; the root itself; /proc/self;    *)
(* /dev/fd; an empty path, or one that cannot be read; and items, which a  *)
(* descriptor has by their own names.                                      *)
Elsewhere(kinds) == {[kind |-> k, path |-> <<>>] : k \in kinds}
Files == {[kind |-> "item", path |-> p] : p \in Items}
Dots == {".", ".."}
Dotted(p) == p[Len(p)] \in Dots
Named == Files \cup Elsewhere({"root", "proc", "devfd", "empty"})
Opened == {f \in Files : ~Dotted(f.path)} \cup Elsewhere({"root", "pipe", "relative", "closed"})

(* The calls on files that reach the monitor.  A name is taken from the    *)
(* root: fs::absolute joins a relative one to the working directory.       *)
(* "flag" is the detail some answers turn on: O_CREAT with a mode its      *)
(* owner cannot read, or a request of ioctl that takes nothing from the    *)
(* program.                                                                *)
FileCalls ==
    [op : {"open"}, at : Named, acc : Accs \ {"exist"}, flag : {"plain", "unreadable"}]
    \cup [op : {"openat"}, at : Named \cup Elsewhere({"closed"}),
          acc : Accs \ {"exist"}, flag : {"plain", "unreadable"}]
    \cup [op : {"creat"}, at : Named, acc : {"exist"}, flag : {"plain", "unreadable"}]
    \cup [op : {"readlink"}, at : Named, acc : {"exist"}, flag : {"plain"}]
    \cup [op : {"readlinkat"}, at : Named \cup Elsewhere({"closed"}),
          acc : {"exist"}, flag : {"plain"}]
    \cup [op : {"ioctl"}, at : Opened, acc : {"exist"}, flag : {"plain", "harmless"}]

(* Other calls, and any call of a privileged program, by kind alone.       *)
Kinds == {"file", "free", "other", "execve", "auth_login", "auth_logout", "auth_shot"}
Answers == {"none", "continue", "eperm", "kill", "abort"}

VARIABLES
    grants,    \* history: the grants the tree is built from
    tree,      \* permission_root: the bits of each item with an entry
    token,     \* auth_token
    execved,   \* child_execved
    login,     \* grader_login
    shot,      \* grader_shot
    call,      \* the last call
    answer,    \* what it was answered
    shown,     \* history: the tokens the program has shown
    asked,     \* history: the count of the last grant, -1 before any
    spent      \* history: the calls that grant let on

vars == <<grants, tree, token, execved, login, shot, call, answer, shown, asked, spent>>
setup == <<grants, tree, token>>
privilege == <<login, shot, shown, asked, spent>>

(***************************************************************************)
(* The permission tree.                                                    *)
(***************************************************************************)
Upto(p, i) == SubSeq(p, 1, i)
HasEntry(p) == p \in DOMAIN tree
Suffices(p, need) == HasEntry(p) /\ need \subseteq tree[p]
BannedAt(p) == HasEntry(p) /\ "ban" \in tree[p]

(* Below Upto(p, i) the tree goes on along p: something there has an entry *)
(* further down than p's next name.                                        *)
Leads(p, i) == \E q \in DOMAIN tree : Len(q) > i /\ Upto(q, i) = Upto(p, i)

(* A mutated Decides: an ancestor with any entry ends the walk.            *)
DecidesAtFirstEntry(p, i, need) == HasEntry(Upto(p, i)) \/ ~Leads(p, i)

Decides(p, i, need) ==
    BannedAt(Upto(p, i)) \/ Suffices(Upto(p, i), need) \/ ~Leads(p, i)

(* _is_permitted: the loop over the ancestors ends at the first that       *)
(* decides; past it, the item's own entry does, where a ban is no ban.     *)
Walk(p, need) ==
    LET ends == {i \in 1 .. Len(p) - 1 :
                    Decides(p, i, need) /\ \A j \in 1 .. i - 1 : ~Decides(p, j, need)}
    IN  IF ends = {}
        THEN IF Suffices(p, need) THEN "yes" ELSE "no"
        ELSE IF \E i \in ends : BannedAt(Upto(p, i)) THEN "eperm"
        ELSE IF \E i \in ends : Suffices(Upto(p, i), need) THEN "yes" ELSE "no"

(* lexically_normal: a last "." or ".." leaves a directory, written with a *)
(* final slash.                                                            *)
Lexical(p) ==
    LET above == Upto(p, Len(p) - IF p[Len(p)] = "." THEN 1 ELSE 2)
    IN  IF ~Dotted(p) THEN p ELSE IF above = <<>> THEN <<>> ELSE Append(above, "")

(* The path that is walked: of the calls that take a directory, the path   *)
(* is not normalised.                                                      *)
Walked(c) ==
    IF c.op \in {"open", "creat", "readlink"} THEN Lexical(c.at.path) ELSE c.at.path

(* is_permitted, and the lookups that fail before it.                      *)
Permitted(c, closed) ==
    LET p == Walked(c)
    IN  CASE c.at.kind \in {"pipe", "devfd"} -> "yes"
          [] c.at.kind \in {"relative", "root"} -> "no"
          [] c.at.kind = "proc" -> IF c.acc \in {"exist", "read"} THEN "yes" ELSE "no"
          [] c.at.kind = "closed" -> closed
          [] c.at.kind = "item" -> IF p = <<>> THEN "no"
                                   ELSE IF Upto(p, Len(p) - 1) \in Missing THEN "enoent"
                                   ELSE Walk(p, Bits(c.acc))

(***************************************************************************)
(* handle_syscall, and what tracer makes of its return.                    *)
(***************************************************************************)
Unreadable(c) == c.op \in {"open", "openat", "creat"} /\ c.flag = "unreadable"

(* check_ioctl takes every answer but a plain refusal for a yes.           *)
IoctlGoesOn(c) == Permitted(c, "enonet") # "no" \/ c.flag = "harmless"

(* fs::absolute throws at an empty path, which one below a descriptor is   *)
(* not, and nothing catches what it throws: the monitor is aborted, and    *)
(* the program dies with it.                                               *)
OnFile(c) ==
    IF Unreadable(c) THEN "eperm"
    ELSE IF c.at.kind = "empty" THEN "abort"
    ELSE IF c.op = "ioctl" THEN IF IoctlGoesOn(c) THEN "continue" ELSE "kill"
    ELSE CASE Permitted(c, "enoent") = "yes" -> "continue"
           [] Permitted(c, "enoent") = "eperm" -> "eperm"
           [] OTHER -> "kill"

(* A mutated CheckAuth: nothing is asked of a run without a token.         *)
CheckAuthAlways(t) == token = t

CheckAuth(t) == token # 0 /\ token = t

Init ==
    /\ \E given \in SUBSET Offered, tty \in Terminal :
          grants = DefaultGrants \cup tty \cup given
    /\ tree = TreeOf(grants)
    /\ token \in Tokens
    /\ execved = FALSE
    /\ login = FALSE /\ shot = 0
    /\ call = [op |-> "none"] /\ answer = "none"
    /\ shown = {} /\ asked = -1 /\ spent = 0

(* The program takes another step; until execve it is still the sandbox's  *)
(* own child, which shows no token and opens nothing.                      *)
Alive == answer \notin {"kill", "abort"}
Running == Alive /\ execved

Answered(c, a) == call' = c /\ answer' = a

(* A mutated Privileged: the last shot does not end the privilege.         *)
PrivilegedOnceMore(name) ==
    /\ Running /\ login /\ (shot = 0 => spent < MaxSpent)
    /\ Answered([op |-> name], "continue")
    /\ login' = ~(shot = 0 /\ asked > 0)
    /\ shot' = IF shot > 0 THEN shot - 1 ELSE shot
    /\ spent' = spent + 1
    /\ UNCHANGED <<setup, execved, shown, asked>>

(* A mutated Privileged: every call takes a shot, left or not.             *)
PrivilegedBelowNone(name) ==
    /\ Running /\ login /\ (shot <= 0 => spent < MaxSpent)
    /\ Answered([op |-> name], "continue")
    /\ login' = (shot # 1) /\ shot' = shot - 1
    /\ spent' = spent + 1
    /\ UNCHANGED <<setup, execved, shown, asked>>

(* A privileged program goes on whatever it calls, and each call but those *)
(* the filter lets through by itself takes one shot.  MaxSpent bounds the  *)
(* calls of a privilege that lasts.                                        *)
Privileged(name) ==
    /\ Running /\ login /\ (shot = 0 => spent < MaxSpent)
    /\ Answered([op |-> name], "continue")
    /\ login' = (shot # 1)
    /\ shot' = IF shot > 1 THEN shot - 1 ELSE shot
    /\ spent' = spent + 1
    /\ UNCHANGED <<setup, execved, shown, asked>>

FileCall(c) ==
    /\ Running /\ ~login
    /\ Answered(c, OnFile(c))
    /\ UNCHANGED <<setup, execved, privilege>>

Free ==
    /\ Alive /\ ~login
    /\ Answered([op |-> "free"], "continue")
    /\ UNCHANGED <<setup, execved, privilege>>

Other ==
    /\ Running /\ ~login
    /\ Answered([op |-> "other"], "kill")
    /\ UNCHANGED <<setup, execved, privilege>>

Execve ==
    /\ Alive /\ ~login
    /\ Answered([op |-> "execve"], IF execved THEN "kill" ELSE "continue")
    /\ execved' = TRUE
    /\ UNCHANGED <<setup, privilege>>

Logout ==
    /\ Running /\ ~login
    /\ Answered([op |-> "auth_logout"], "continue")
    /\ UNCHANGED <<setup, execved, privilege>>

(* auth_login, which is auth_shot with no count, and auth_shot.            *)
Auth(name, t, count) ==
    /\ Running /\ ~login
    /\ Answered([op |-> name], IF CheckAuth(t) THEN "continue" ELSE "kill")
    /\ shown' = shown \cup {t}
    /\ IF CheckAuth(t)
       THEN login' = TRUE /\ shot' = count /\ asked' = count /\ spent' = 0
       ELSE UNCHANGED <<login, shot, asked, spent>>
    /\ UNCHANGED <<setup, execved>>

-----------------------------------------------------------------------------
Next ==
    \/ \E name \in Kinds : Privileged(name)
    \/ \E c \in FileCalls : FileCall(c)
    \/ Free \/ Other \/ Execve \/ Logout
    \/ \E t \in Tokens : Auth("auth_login", t, 0)
    \/ \E t \in Tokens, count \in 0 .. MaxShots : Auth("auth_shot", t, count)

Spec == Init /\ [][Next]_vars

-----------------------------------------------------------------------------
(* Properties.                                                             *)

(* The types of the variables of handle_syscall and of the history kept    *)
(* of its calls.                                                           *)
TypeOK ==
    /\ grants \subseteq Grants
    /\ tree = TreeOf(grants)
    /\ token \in Tokens
    /\ execved \in BOOLEAN /\ login \in BOOLEAN
    /\ shot \in 0 .. MaxShots
    /\ call \in FileCalls \cup [op : Kinds \cup {"none"}]
    /\ answer \in Answers
    /\ shown \subseteq Tokens
    /\ asked \in -1 .. MaxShots
    /\ spent \in Nat

(* handle_syscall asks nothing of a privileged program, so the privilege   *)
(* must be earned: only a run that was given a token has it, only once the *)
(* program has shown that very token, and never the sandbox's own child.   *)
PrivilegeEarned == asked # -1 \/ login => token # 0 /\ token \in shown /\ execved

(* auth_shot's promise: a privilege of n > 0 shots lets exactly n calls on *)
(* and ends with the last of them, whatever the calls are; one without a   *)
(* count does not end at all.                                              *)
ShotsExact ==
    /\ login /\ asked > 0 => shot = asked - spent /\ spent < asked
    /\ ~login /\ asked > 0 => spent = asked
    /\ asked = 0 => login

(* The reference for the permission tree, on the list of grants as the     *)
(* code gives them: an item may be used when it or a directory above it    *)
(* has all the bits needed and no directory from the root down to the one  *)
(* before is banned.  It is not the rule of the sandbox's documentation    *)
(* (lines 38, 40 and 55-60), which bans whatever lies directly below the   *)
(* root, lets a ban on the item itself fail softly, and grants standard    *)
(* output and error for reading too.                                       *)
GrantedFrom(p, need) ==
    \E i \in 1 .. Len(p) :
        /\ \E g \in grants : g.path = Upto(p, i)
        /\ need \subseteq OnItem(grants, Upto(p, i))
        /\ i < Len(p) => "ban" \notin OnItem(grants, Upto(p, i))
        /\ \A j \in 1 .. i - 1 : "ban" \notin OnItem(grants, Upto(p, j))

(* _is_permitted walks a tree, giving up where the tree does, and is asked *)
(* the question before every file is opened.  A program without privilege  *)
(* is let on to open an item if and only if the grants say so of the path  *)
(* that is walked, and the parent is there.                                *)
OpensAsGranted ==
    call.op \in {"open", "openat"} /\ asked = -1 /\ ~Unreadable(call)
        /\ call.at.kind = "item" /\ call.acc # "odd" =>
    LET p == Walked(call)
    IN  answer = "continue" <=>
            /\ GrantedFrom(p, Bits(call.acc))
            /\ Upto(p, Len(p) - 1) \notin Missing

-----------------------------------------------------------------------------
(* What the repository says of this code and the code does not do.         *)

(* sandboxlib.h:18-24: auth_logout ends the privilege.  handle_syscall     *)
(* answers a privileged program before it looks at the call.               *)
LogoutRevokes == call.op = "auth_logout" /\ answer = "continue" /\ asked = 0 => ~login

=============================================================================
