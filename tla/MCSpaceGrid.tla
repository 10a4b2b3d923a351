---------------------------- MODULE MCSpaceGrid ----------------------------
(***************************************************************************)
(* Spaces of one, two and three dimensions whose coordinates have no, one  *)
(* or two bytes of two bits each.                                          *)
(***************************************************************************)
EXTENDS SpaceGrid

MCResolutions == {<<4>>, <<2, 2>>, <<1, 3>>, <<3, 1>>, <<2, 0>>, <<1, 2, 1>>}
=============================================================================
