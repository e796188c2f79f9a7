----------------------------- MODULE MCAccounts -----------------------------
(* An administrator and two ids to hand out, for model-checking Accounts. *)
EXTENDS Accounts, TLC

CONSTANTS i1, n1, p1

OneAdmin ==
  [i \in Ids |-> IF i = i1 THEN [username |-> n1, password |-> p1, role |-> "Admin"]
                ELSE NoRow]

Symmetry == Permutations(Workers) \cup Permutations(Ids \ {i1})
              \cup Permutations(Names \ {n1}) \cup Permutations(Passwords \ {p1, Empty})
=============================================================================
