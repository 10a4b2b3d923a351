-------------------------- MODULE MCRegionTraffic --------------------------
(***************************************************************************)
(* A pool of two regions that may grow to four, and a queue with room for  *)
(* three.  Uninitialised slots hold NULL or a region; uninitialised        *)
(* positions hold any slot or a number beyond the array.                   *)
(***************************************************************************)
EXTENDS RegionTraffic

MCItems == {0, 1} \X (0..(MaxCapacity - 1))
MCGarbage == {None, <<0, 1>>}
MCIndeterminate == 0..(Capacity + 1)
=============================================================================
