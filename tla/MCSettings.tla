----------------------------- MODULE MCSettings -----------------------------
(* An instance of Settings for TLC: two fields; a nested limit is empty,   *)
(* gives one field, or is no dict.                                         *)
EXTENDS Settings

TwoFields == {"time", "memory"}
Holding(v) == [form |-> "dict", extra |-> FALSE,
               val |-> [f \in TwoFields |-> IF f = "time" THEN v ELSE "none"]]
SomeShapes == {Holding("none"), Holding("ok"),
               [form |-> "scalar", extra |-> FALSE, val |-> [f \in TwoFields |-> "none"]]}

=============================================================================
