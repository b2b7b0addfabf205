------------------------------ MODULE Consent ------------------------------
(***************************************************************************)
(* What befriending promises, whatever the tables and the interleavings:   *)
(* two users become friends only when one of them consents to an open      *)
(* request of the other, a request is consented to at most once, and       *)
(* nobody ever makes the same request twice.                               *)
(***************************************************************************)
CONSTANT User

VARIABLES
  asked,   \* the requests ever made, as <<sender, receiver>>
  open,    \* those neither consented to, declined nor cancelled
  friends  \* the pairs of friends

vars == <<asked, open, friends>>

Init == asked = {} /\ open = {} /\ friends = {}

Ask(s, r) ==
  /\ s # r /\ <<s, r>> \notin asked
  /\ asked' = asked \cup {<<s, r>>}
  /\ open' = open \cup {<<s, r>>}
  /\ UNCHANGED friends

Consents(s, r) ==
  /\ <<s, r>> \in open /\ {s, r} \notin friends
  /\ friends' = friends \cup {{s, r}}
  /\ open' = open \ {<<s, r>>}
  /\ UNCHANGED asked

Withdraw(s, r) ==
  /\ <<s, r>> \in open
  /\ open' = open \ {<<s, r>>}
  /\ UNCHANGED <<asked, friends>>

Part(u, v) ==
  /\ {u, v} \in friends
  /\ friends' = friends \ {{u, v}}
  /\ UNCHANGED <<asked, open>>

Next == \E u, v \in User : Ask(u, v) \/ Consents(u, v) \/ Withdraw(u, v) \/ Part(u, v)

Spec == Init /\ [][Next]_vars
=============================================================================
