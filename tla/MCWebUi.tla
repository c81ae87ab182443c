-------------------------------- MODULE MCWebUi --------------------------------
(* A small instance of WebUi for TLC.  Before the page is used the aggregations are
   compared on every log of events of two endpoints and nameless ones, each quick, slow or
   failed, and all but one of them no whole number of microseconds. *)
EXTENDS WebUi, Analytics

MCCalls == {
  [endpoint |-> "GET /a", status |-> 200, error |-> FALSE, duration |-> 4],
  [endpoint |-> "GET /a", status |-> 502, error |-> TRUE, duration |-> 5],
  [endpoint |-> "POST /b", status |-> 200, error |-> FALSE, duration |-> 7],
  [endpoint |-> "POST /b", status |-> 404, error |-> FALSE, duration |-> 3],
  [endpoint |-> Nameless, status |-> 200, error |-> FALSE, duration |-> 2]}

(* Both user interfaces are started again and have no events. *)
Reopen == log # <<>> /\ log' = <<>>

MCInit == Init /\ log = <<>>

MCNext ==
  \/ Next /\ log = <<>> /\ UNCHANGED log
  \/ Init /\ (Capture \/ Reopen) /\ UNCHANGED vars

MCSpec == MCInit /\ [][MCNext]_<<vars, log>> /\ Fairness

=============================================================================
