------------------------------ MODULE MCCalls ------------------------------
(* Small instances of Calls for TLC: ann, bob and cid, bob with two pages. *)
EXTENDS Calls

CONSTANTS ann, bob, cid, annPage, bobPage, bobTab, cidPage

Owners == [c \in Client |-> CASE c = annPage -> ann [] c = cidPage -> cid
                              [] c \in {bobPage, bobTab} -> bob]

\* ann leads a party of the users; she may hand it over and leave.
Led == [u \in User |-> IF u = ann THEN "LEADER" ELSE "MEMBER"]
Left == [u \in User |-> IF u = ann THEN "none" ELSE IF u = bob THEN "LEADER" ELSE "MEMBER"]
Rosters == {Led, Left}
=============================================================================
