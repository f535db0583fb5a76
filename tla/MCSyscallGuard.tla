--------------------------- MODULE MCSyscallGuard ---------------------------
(* An instance of SyscallGuard for TLC.  A command line grants a directory *)
(* for reading, an item two levels below it for reading and writing, and   *)
(* bans a directory between them; the program asks for items granted, not  *)
(* granted, banned, beside and below all of these, for directories by ".." *)
(* and ".", and for the terminal.                                          *)
EXTENDS SyscallGuard

SomeNames ==
    {"etc", "ld.so.cache", "lib", "usr", "dev", "random", "urandom", "stdin",
     "localtime", "null", "stdout", "stderr", "ld.so.preload", "w", "a", "in",
     "deep", "gone", "x", "tty", "", "..", "."}

NestedGrants ==
    {[path |-> <<"w">>, mode |-> "read"],
     [path |-> <<"w", "a", "in">>, mode |-> "read"],
     [path |-> <<"w", "a", "in">>, mode |-> "write"],
     [path |-> <<"w", "a">>, mode |-> "odd"]}

AskedItems ==
    {<<"lib">>, <<"w", "a">>, <<"w", "a", "in">>, <<"w", "a", "in", "deep">>,
     <<"gone", "x">>,
     <<"w", "a", "..">>, <<"w", ".">>, <<"w", "..">>,
     <<"dev", "stdout">>, <<"dev", "tty">>, <<"etc", "ld.so.preload">>}

GoneDirectories == {<<"gone">>}
OneTty == {<<"dev", "tty">>}
TwoTokens == {0, 7}

=============================================================================
