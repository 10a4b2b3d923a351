---------------------------- MODULE MCIndexTests ----------------------------
(***************************************************************************)
(* Up to four objects of up to three copies, and an arbitrary client with  *)
(* four keys.  The keys are those that the tests use.                      *)
(***************************************************************************)
EXTENDS IndexTests

KeysOf(calls) == {calls[m].key : m \in {l \in DOMAIN calls : "key" \in DOMAIN calls[l]}}
MCKeys == UNION {KeysOf(t[3]) : t \in Tests}
MCAnyKeys == {Key(IntToZ(Gap * id), IdSlot(id)) : id \in 0..2} \cup {Key(IntToZ(0), MaxSoid)}
=============================================================================
