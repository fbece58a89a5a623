--------------------------- MODULE MCSourceTabs ---------------------------
(* Small instances of SourceTabs for TLC. *)
EXTENDS SourceTabs

CONSTANTS f0, f1, f2

OneFile == {f0}
TwoFiles == {f0, f1}
ThreeFiles == {f0, f1, f2}
NoFiles == {}

OnePlace == {<<f0, 1>>}
ThreePlaces == {<<f0, 1>>, <<f1, 1>>, <<f1, 2>>}
=============================================================================
