------------------------------- MODULE MCBroker -------------------------------
(* A small instance of Broker for TLC: one publisher calls Publish up to MaxPublish times,
   the other once.  Nobody is obliged to call, so the bound takes no step away that Fairness
   speaks of. *)
EXTENDS Broker

Second == CHOOSE p \in Publishers : TRUE

CalledOnce == count[Second] + (IF pub[Second] = "calling" THEN 1 ELSE 0) <= 1

MCSpec == Init /\ [][Next /\ CalledOnce']_vars /\ Fairness

===============================================================================
