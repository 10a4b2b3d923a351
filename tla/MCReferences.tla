---------------------------- MODULE MCReferences ----------------------------
(***************************************************************************)
(* Two objects, each of which has one z-value or two when it is added.     *)
(***************************************************************************)
EXTENDS References

MCZSets == {{2}, {1, 2}}
=============================================================================
