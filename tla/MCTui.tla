--------------------------------- MODULE MCTui ---------------------------------
(* Small instances of Tui for TLC. *)
EXTENDS Tui

(* A slow success that matches a query, and a quick failure that does not. *)
MCKinds == {
  [reach |-> 1, failed |-> FALSE, duration |-> 2, endpoint |-> 1],
  [reach |-> 0, failed |-> TRUE, duration |-> 1, endpoint |-> 2]}

=============================================================================
