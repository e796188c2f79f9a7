------------------------------- MODULE Stats --------------------------------
(***************************************************************************)
(* The statistics of a lobby: src/lobby/stats.rs.  Pure functions of the   *)
(* game_state rows.  A row has a round and, as `data`, what the extractor  *)
(* of a statistic takes from the state of each of its users.               *)
(***************************************************************************)
EXTENDS Integers, Sequences, SequencesExt, TLC

\* `order by round`: rows of the same round come in any order.
OrderByRound(rows) ==
  LET n == Len(rows) IN
  {[i \in 1..n |-> rows[p[i]]] :
     p \in {q \in Permutations(1..n) :
              \A i \in 1..(n - 1) : rows[q[i]].round <= rows[q[i + 1]].round}}

\* A user's first entry is left out.
Mutant_AddRow(type_stats, row) ==
  [u \in DOMAIN type_stats \cup DOMAIN row.data |->
     IF u \notin DOMAIN row.data THEN type_stats[u]
     ELSE IF u \in DOMAIN type_stats THEN Append(type_stats[u], row.data[u]) ELSE <<>>]

\* Every user of the row gets one entry more.
AddRow(type_stats, row) ==
  [u \in DOMAIN type_stats \cup DOMAIN row.data |->
     IF u \notin DOMAIN row.data THEN type_stats[u]
     ELSE IF u \in DOMAIN type_stats THEN Append(type_stats[u], row.data[u])
     ELSE <<row.data[u]>>]

\* The series of every user that is in one of the rows.
get_stats_for_type(games_states) == FoldLeft(AddRow, <<>>, games_states)
=============================================================================
