---------------------------- MODULE MCGameSeries ----------------------------
(***************************************************************************)
(* GameSeries for TLC: the users are model values.                         *)
(***************************************************************************)
EXTENDS GameSeries

Symmetry == Permutations(Users \ Movers) \cup Permutations(Movers)

\* Who is in the lobby matters when a game is started, and only then: users
\* leave and enter between games.
MoveBetweenGames ==
  started => members = rows[Len(rows)].users_states

\* Rounds are played alike in a stopped game, so the last one need not be stopped.
LastGameGoesOn == games = MaxGames => started

\* One thing goes wrong, a restart of the process or a task that is cut off, and
\* a behaviour is followed up to the first write for another game.
Followed ==
  ~revived /\ restarts + faults <= 1 /\ MoveBetweenGames /\ LastGameGoesOn
=============================================================================
