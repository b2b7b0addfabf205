------------------------------- MODULE Listing -------------------------------
(***************************************************************************)
(* The lists a page shows: messages, notifications, invitations.           *)
(***************************************************************************)
EXTENDS Naturals, FiniteSets, Sequences

\* the ids from the oldest to the newest
InOrder(ids) ==
  CHOOSE s \in [1..Cardinality(ids) -> ids] : \A i, j \in DOMAIN s : i < j => s[i] < s[j]

\* what is left of a list without an id
Without(list, id) ==
  LET left == InOrder({i \in DOMAIN list : list[i] # id})
  IN  [i \in DOMAIN left |-> list[left[i]]]
=============================================================================
