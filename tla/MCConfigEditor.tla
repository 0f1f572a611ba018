---------------------------- MODULE MCConfigEditor ----------------------------
(* Instances of ConfigEditor for TLC.                                       *)
EXTENDS ConfigEditor, TLC

CONSTANTS s1, s2, s3

TwoSaves == {s1, s2}
ThreeSaves == {s1, s2, s3}
NoneValid == {}
TwoValid == {s1, s2}
\* The two valid saves are interchangeable.
ValidAlike == Permutations(TwoValid)
==============================================================================
