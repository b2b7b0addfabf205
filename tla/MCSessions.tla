---------------------------- MODULE MCSessions ----------------------------
(* Small instances of Sessions for TLC: the tabs of one browser. *)
EXTENDS Sessions, TLC

OneJar == [p \in Page |-> CHOOSE b \in Browser : TRUE]
Ids == Permutations(Page) \cup Permutations(Call) \cup Permutations(Session) \cup Permutations(Req)
=============================================================================
