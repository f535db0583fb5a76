------------------------------ MODULE MCPrepare ------------------------------
(* An instance of Prepare for TLC: names with marks in every place that      *)
(* matters, in a data directory and a subtask's; sources and executables of  *)
(* every age, one of them from the future.                                   *)
EXTENDS Prepare

File(d, a, b) == [dir |-> d, name |-> <<a, b>>]
SomeFiles == {File("root", "a", "in"), File("root", "a", "ans"), File("sub", "a", "ans"),
              File("root", "in", "in"), File("root", "in", "ans"), File("root", "ans", "in"),
              File("root", "ans", "ans")}
SomeParts == {"a", "in", "ans", "out"}

SomePrograms == {"1.cpp", "1", "old_checker.cpp", "checker", "new_checker.cpp",
                 "interactor.cpp", "interactor"}
SomeKinds == [p \in SomePrograms |->
    CASE p \in {"1.cpp", "1"} -> "program"
      [] p \in {"interactor.cpp", "interactor"} -> "interactor"
      [] OTHER -> "checker"]
SomeElf == {"1", "checker", "interactor"}
SomeHeaders == {"testlib.h"}
SomeGraders == {"grader.cpp"}
SomeTimes == [f \in SomePrograms \cup SomeHeaders \cup SomeGraders \cup {"Makefile"} |->
    CASE f \in {"old_checker.cpp", "interactor.cpp", "Makefile"} -> 1
      [] f = "interactor" -> 4
      [] f \in {"testlib.h", "grader.cpp", "new_checker.cpp"} -> 3
      [] OTHER -> 2]

=============================================================================
