---------------------------- MODULE MCTableSetup ----------------------------
(* TableSetup with the constants of the code, and sizes around the one     *)
(* where the directory is too small.                                       *)
EXTENDS TableSetup

MCKinds == {1, 2, 3}
MCBits == <<3, 6, 9>>
MCSegments == <<1, 2, 4>>
MCOddSizes == 506 .. 520
=============================================================================
