---------------------------- MODULE MCLobbyStore ----------------------------
(* Values for model-checking LobbyStore. *)
EXTENDS LobbyStore, TLC

CONSTANTS w1, w2, l1, l2, admin, u1, u2

Symmetric == Permutations({w1, w2})
Alike     == Permutations({w1, w2}) \cup Permutations({u1, u2})

\* A small lobby with a code, a form that makes it smaller, and a new code.
TwoSeats == [max_players |-> 2, code |-> TRUE, code_use_times |-> 1]
OneSeat  == [max_players |-> 1, code |-> FALSE, code_use_times |-> 0]

OneForm  == {TwoSeats}
TwoForms == {TwoSeats, OneSeat}

\* Kinds that lock both tables, in one order or the other; that end with a
\* temporary user; that a game comes and goes with.
Locking       == {"Create", "Update", "Delete", "Start", "QuickConnect"}
OnlyTemporary == {"QuickConnectTemp"}
Games         == {"Start", "Stop", "Connect", "Disconnect", "Delete"}
=============================================================================
