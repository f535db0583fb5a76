------------------------------- MODULE MCJury -------------------------------
(* Instances of Jury for TLC: two tests, of one case and of two cases;     *)
(* half marks and a negative mark; retry as a manifest may set it.         *)
EXTENDS Jury

TwoTests == <<1, 2>>
PartialScores == {-1, 1}
RetryCounts == {-1, 1}

=============================================================================
