---------------------------- MODULE MCTemplates -----------------------------
(* One lobby at the start and one to be made, for model-checking Templates. *)
EXTENDS Templates, TLC

CONSTANTS l1, two, fair

OneLobby ==
  [l \in Lobbies |-> IF l = l1 THEN [max_players |-> two, setup |-> fair] ELSE NoRow]

Symmetry == Permutations(Workers) \cup Permutations(Templates)
              \cup Permutations(Limits \ {two}) \cup Permutations(Setups \ {fair})
=============================================================================
