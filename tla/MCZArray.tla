------------------------------ MODULE MCZArray ------------------------------
(***************************************************************************)
(* Two z-values, an array of two slots that grows to four and to eight.    *)
(***************************************************************************)
EXTENDS ZArray

\* Z's UNINITIALIZED.
MCUninitialized == -1
=============================================================================
