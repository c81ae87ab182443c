------------------------------ MODULE EventFeed ------------------------------
(***************************************************************************)
(* What the broker of http-tapd promises, without its lock, its ids and    *)
(* its map: a lossy first-in first-out feed per subscription.              *)
(*                                                                         *)
(* A publish offers one event, once, to every subscription that is open    *)
(* when the publish starts and still open when its turn comes.  An offer   *)
(* is accepted when fewer than BufSize events are waiting and is dropped   *)
(* otherwise; it never waits.  A subscription that has been left keeps     *)
(* what it had accepted (a closed Go channel can still be drained) and     *)
(* accepts nothing more.                                                   *)
(*                                                                         *)
(* Broker.tla implements this module; Daemon.tla is composed with it.      *)
(***************************************************************************)
EXTENDS Naturals, Sequences

CONSTANTS
  Publishers,   \* goroutines that call Publish
  Subscribers,  \* one element per call of Subscribe
  BufSize,      \* capacity of a subscription's channel
  MaxPublish    \* bound: events per publisher

ASSUME FeedAssumption == BufSize \in Nat \ {0} /\ MaxPublish \in Nat

VARIABLES
  status,     \* status[s]: "none", "open" or "left"
  count,      \* count[p]: events p has started to publish
  due,        \* due[p]: subscriptions still to be offered p's current event
  inbox,      \* inbox[s]: events accepted and not received yet
  delivered   \* delivered[s]: events received, in order

feedVars == <<status, count, due, inbox, delivered>>

(* The n-th event published by p. *)
Event == [pub : Publishers, seq : 1..MaxPublish]

FeedTypeOK ==
  /\ status \in [Subscribers -> {"none", "open", "left"}]
  /\ count \in [Publishers -> 0..MaxPublish]
  /\ due \in [Publishers -> SUBSET Subscribers]
  /\ inbox \in [Subscribers -> Seq(Event)]
  /\ delivered \in [Subscribers -> Seq(Event)]

FeedInit ==
  /\ status = [s \in Subscribers |-> "none"]
  /\ count = [p \in Publishers |-> 0]
  /\ due = [p \in Publishers |-> {}]
  /\ inbox = [s \in Subscribers |-> <<>>]
  /\ delivered = [s \in Subscribers |-> <<>>]

Join(s) ==
  /\ status[s] = "none"
  /\ status' = [status EXCEPT ![s] = "open"]
  /\ UNCHANGED <<count, due, inbox, delivered>>

(* From the moment it is left, no publish in progress reaches s. *)
Leave(s) ==
  /\ status[s] = "open"
  /\ status' = [status EXCEPT ![s] = "left"]
  /\ due' = [p \in Publishers |-> due[p] \ {s}]
  /\ UNCHANGED <<count, inbox, delivered>>

StartPublish(p) ==
  /\ due[p] = {}
  /\ count[p] < MaxPublish
  /\ count' = [count EXCEPT ![p] = @ + 1]
  /\ due' = [due EXCEPT ![p] = {s \in Subscribers : status[s] = "open"}]
  /\ UNCHANGED <<status, inbox, delivered>>

Offer(p, s) ==
  /\ s \in due[p]
  /\ due' = [due EXCEPT ![p] = @ \ {s}]
  /\ inbox' = IF Len(inbox[s]) < BufSize
              THEN [inbox EXCEPT ![s] = Append(@, [pub |-> p, seq |-> count[p]])]
              ELSE inbox
  /\ UNCHANGED <<status, count, delivered>>

Take(s) ==
  /\ inbox[s] # <<>>
  /\ inbox' = [inbox EXCEPT ![s] = Tail(@)]
  /\ delivered' = [delivered EXCEPT ![s] = Append(@, Head(inbox[s]))]
  /\ UNCHANGED <<status, count, due>>

FeedNext ==
  \/ \E s \in Subscribers : Join(s) \/ Leave(s) \/ Take(s)
  \/ \E p \in Publishers : StartPublish(p)
  \/ \E p \in Publishers, s \in Subscribers : Offer(p, s)

(* A publish that has started finishes, whatever the subscribers do. *)
FeedFairness == \A p \in Publishers : WF_feedVars(\E s \in Subscribers : Offer(p, s))

FeedSafety == FeedInit /\ [][FeedNext]_feedVars
FeedSpec == FeedSafety /\ FeedFairness

=============================================================================
