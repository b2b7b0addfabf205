------------------------------ MODULE MCParty ------------------------------
(* Small instances of Party for TLC. *)
EXTENDS Party, TLC

Ids == Permutations(User) \cup Permutations(Party) \cup Permutations(Invite) \cup Permutations(Req)
=============================================================================
