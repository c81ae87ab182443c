-------------------------------- MODULE Broker --------------------------------
(***************************************************************************)
(* broker/broker.go: the fan-out publish/subscribe between the proxy's     *)
(* event channel and the viewers, at the grain of its lock.                *)
(*                                                                         *)
(* The lock b.mu is a sync.RWMutex.  A writer (Subscribe, or the function  *)
(* Subscribe returns) first owns the writer side, which keeps new readers  *)
(* out, and then waits for the readers inside to leave.  A reader          *)
(* (Publish) enters when no writer owns or waits for the lock.             *)
(*                                                                         *)
(* Each element of Subscribers is one call of Subscribe, with the channel  *)
(* and the closure it returns.  The closure may be called again and again. *)
(***************************************************************************)
EXTENDS Naturals, Sequences, FiniteSets

CONSTANTS
  Publishers,   \* goroutines that call Publish
  Subscribers,  \* calls of Subscribe
  BufSize,      \* Broker.bufSize
  MaxPublish,   \* bound: calls of Publish per publisher
  NoWriter      \* the value of writer when no writer owns the lock

ASSUME BrokerAssumption ==
  /\ BufSize \in Nat \ {0}
  /\ MaxPublish \in Nat
  /\ NoWriter \notin Subscribers

VARIABLES
  subscribers,  \* Broker.subscribers: map from ids to channels
  nextID,       \* Broker.nextID
  idOf,         \* idOf[s]: the id captured by the closure of s
  buf,          \* buf[s]: what the channel of s holds
  closed,       \* closed[s]: the channel of s has been closed
  delivered,    \* delivered[s]: what has been received from it
  writer,       \* owner of the writer side of b.mu
  sub,          \* where the caller of Subscribe s is
  pub,          \* where the publisher is
  count,        \* count[p]: events p has got past RLock with
  todo          \* todo[p]: ids the range loop of p has not reached

lockVars == <<writer>>
mapVars == <<subscribers, nextID, idOf>>
chanVars == <<buf, closed, delivered>>
pubVars == <<pub, count, todo>>
vars == <<subscribers, nextID, idOf, buf, closed, delivered, writer, sub, pub, count, todo>>

Event == [pub : Publishers, seq : 1..MaxPublish]

Init ==
  /\ subscribers = [i \in {} |-> NoWriter]
  /\ nextID = 0
  /\ idOf = [s \in Subscribers |-> 0]
  /\ buf = [s \in Subscribers |-> <<>>]
  /\ closed = [s \in Subscribers |-> FALSE]
  /\ delivered = [s \in Subscribers |-> <<>>]
  /\ writer = NoWriter
  /\ sub = [s \in Subscribers |-> "new"]
  /\ pub = [p \in Publishers |-> "idle"]
  /\ count = [p \in Publishers |-> 0]
  /\ todo = [p \in Publishers |-> {}]

-------------------------------------------------------------------------------
(* sync.RWMutex *)

(* The publishers that hold the read lock. *)
Readers == {p \in Publishers : pub[p] = "sending"}

LockAnyway(s) == writer = s

(* s owns the writer side and every reader has left. *)
HoldsLock(s) == writer = s /\ Readers = {}

AcquireLock(s) ==
  /\ sub[s] \in {"subscribing", "unsubscribing"}
  /\ writer = NoWriter
  /\ writer' = s
  /\ UNCHANGED <<mapVars, chanVars, pubVars, sub>>

-------------------------------------------------------------------------------
(* Subscribe and the function it returns *)

CallSubscribe(s) ==
  /\ sub[s] = "new"
  /\ sub' = [sub EXCEPT ![s] = "subscribing"]
  /\ UNCHANGED <<mapVars, chanVars, lockVars, pubVars>>

IDAfterReuse(n) == n

IDAfter(n) == n + 1

Subscribe(s) ==
  /\ sub[s] = "subscribing"
  /\ HoldsLock(s)
  /\ idOf' = [idOf EXCEPT ![s] = nextID]
  /\ nextID' = IDAfter(nextID)
  /\ subscribers' = [i \in DOMAIN subscribers \cup {nextID} |->
                       IF i = nextID THEN s ELSE subscribers[i]]
  /\ writer' = NoWriter
  /\ sub' = [sub EXCEPT ![s] = "open"]
  /\ UNCHANGED <<chanVars, pubVars>>

CallUnsubscribe(s) ==
  /\ sub[s] \in {"open", "done"}
  /\ sub' = [sub EXCEPT ![s] = "unsubscribing"]
  /\ UNCHANGED <<mapVars, chanVars, lockVars, pubVars>>

(* Only the call that still finds the id deletes it and closes. *)
Unsubscribe(s) ==
  /\ sub[s] = "unsubscribing"
  /\ HoldsLock(s)
  /\ LET found == idOf[s] \in DOMAIN subscribers IN
       /\ subscribers' = IF found
                         THEN [i \in DOMAIN subscribers \ {idOf[s]} |-> subscribers[i]]
                         ELSE subscribers
       /\ closed' = IF found THEN [closed EXCEPT ![s] = TRUE] ELSE closed
  /\ writer' = NoWriter
  /\ sub' = [sub EXCEPT ![s] = "done"]
  /\ UNCHANGED <<nextID, idOf, buf, delivered, pubVars>>

(* The holder of the channel receives; a closed channel is drained first. *)
Receive(s) ==
  /\ buf[s] # <<>>
  /\ buf' = [buf EXCEPT ![s] = Tail(@)]
  /\ delivered' = [delivered EXCEPT ![s] = Append(@, Head(buf[s]))]
  /\ UNCHANGED <<mapVars, closed, lockVars, sub, pubVars>>

-------------------------------------------------------------------------------
(* Publish *)

CallPublish(p) ==
  /\ pub[p] = "idle"
  /\ count[p] < MaxPublish
  /\ pub' = [pub EXCEPT ![p] = "calling"]
  /\ UNCHANGED <<mapVars, chanVars, lockVars, sub, count, todo>>

(* b.mu.RLock(); the range loop starts on the map as it is now. *)
RLock(p) ==
  /\ pub[p] = "calling"
  /\ writer = NoWriter
  /\ pub' = [pub EXCEPT ![p] = "sending"]
  /\ count' = [count EXCEPT ![p] = @ + 1]
  /\ todo' = [todo EXCEPT ![p] = DOMAIN subscribers]
  /\ UNCHANGED <<mapVars, chanVars, lockVars, sub>>

HasRoomOffByOne(s) == Len(buf[s]) <= BufSize

(* The send case of the select in Publish is ready. *)
HasRoom(s) == Len(buf[s]) < BufSize

(* A plain send instead of the select with a default case. *)
SendBlocking(p, i) ==
  /\ i \in todo[p]
  /\ HasRoom(subscribers[i])
  /\ buf' = [buf EXCEPT ![subscribers[i]] = Append(@, [pub |-> p, seq |-> count[p]])]
  /\ todo' = [todo EXCEPT ![p] = @ \ {i}]
  /\ UNCHANGED <<mapVars, closed, delivered, lockVars, sub, pub, count>>

(* The loop stays on a subscriber that took the event. *)
SendTwice(p, i) ==
  /\ i \in todo[p]
  /\ buf' = IF HasRoom(subscribers[i])
            THEN [buf EXCEPT ![subscribers[i]] = Append(@, [pub |-> p, seq |-> count[p]])]
            ELSE buf
  /\ todo' = IF HasRoom(subscribers[i]) THEN todo ELSE [todo EXCEPT ![p] = @ \ {i}]
  /\ UNCHANGED <<mapVars, closed, delivered, lockVars, sub, pub, count>>

(* The first full subscriber ends the loop for the others as well. *)
SendOrReturn(p, i) ==
  /\ i \in todo[p]
  /\ buf' = IF HasRoom(subscribers[i])
            THEN [buf EXCEPT ![subscribers[i]] = Append(@, [pub |-> p, seq |-> count[p]])]
            ELSE buf
  /\ todo' = [todo EXCEPT ![p] = IF HasRoom(subscribers[i]) THEN @ \ {i} ELSE {}]
  /\ UNCHANGED <<mapVars, closed, delivered, lockVars, sub, pub, count>>

(* One iteration of the range loop: send, or drop when the buffer is full. *)
Send(p, i) ==
  /\ i \in todo[p]
  /\ buf' = IF HasRoom(subscribers[i])
            THEN [buf EXCEPT ![subscribers[i]] = Append(@, [pub |-> p, seq |-> count[p]])]
            ELSE buf
  /\ todo' = [todo EXCEPT ![p] = @ \ {i}]
  /\ UNCHANGED <<mapVars, closed, delivered, lockVars, sub, pub, count>>

RUnlock(p) ==
  /\ pub[p] = "sending"
  /\ todo[p] = {}
  /\ pub' = [pub EXCEPT ![p] = "idle"]
  /\ UNCHANGED <<mapVars, chanVars, lockVars, sub, count, todo>>

(* SubscriberCount() *)
SubscriberCount == Cardinality(DOMAIN subscribers)

-------------------------------------------------------------------------------
Next ==
  \/ \E s \in Subscribers :
       \/ CallSubscribe(s) \/ CallUnsubscribe(s)
       \/ AcquireLock(s) \/ Subscribe(s) \/ Unsubscribe(s)
       \/ Receive(s)
  \/ \E p \in Publishers :
       \/ CallPublish(p) \/ RLock(p) \/ RUnlock(p)
       \/ \E i \in todo[p] : Send(p, i)

(* A goroutine inside a broker call keeps running: weak fairness for its   *)
(* own steps.  RWMutex hands the lock over (Unlock admits the waiting      *)
(* readers first, Mutex has a starvation mode), hence strong fairness for  *)
(* taking it.  Nothing makes anybody call, or receive from a channel.      *)
Fairness ==
  /\ \A s \in Subscribers :
       SF_vars(AcquireLock(s)) /\ WF_vars(Subscribe(s) \/ Unsubscribe(s))
  /\ \A p \in Publishers :
       SF_vars(RLock(p)) /\ WF_vars(RUnlock(p) \/ \E i \in todo[p] : Send(p, i))

Safety == Init /\ [][Next]_vars
Spec == Safety /\ Fairness

-------------------------------------------------------------------------------
(* The channels that Subscribe has handed out and that are not closed. *)
Live(s) == sub[s] \notin {"new", "subscribing"} /\ ~closed[s]

TypeOK ==
  /\ nextID \in Nat
  /\ DOMAIN subscribers \subseteq 0..(nextID - 1)
  /\ subscribers \in [DOMAIN subscribers -> Subscribers]
  /\ idOf \in [Subscribers -> Nat]
  /\ buf \in [Subscribers -> Seq(Event)]
  /\ \A s \in Subscribers : Len(buf[s]) <= BufSize
  /\ closed \in [Subscribers -> BOOLEAN]
  /\ delivered \in [Subscribers -> Seq(Event)]
  /\ writer \in Subscribers \cup {NoWriter}
  /\ sub \in [Subscribers -> {"new", "subscribing", "open", "unsubscribing", "done"}]
  /\ pub \in [Publishers -> {"idle", "calling", "sending"}]
  /\ count \in [Publishers -> 0..MaxPublish]
  /\ todo \in [Publishers -> SUBSET DOMAIN subscribers]

(* Publish never sends on a closed channel, which would panic: whatever    *)
(* its range loop still has to visit is in the map and open, although the  *)
(* closures of other goroutines close channels concurrently.               *)
NoSendOnClosed ==
  \A p \in Publishers : \A i \in todo[p] :
    i \in DOMAIN subscribers /\ ~closed[subscribers[i]]

(* The map holds exactly the live channels, each under the id its closure  *)
(* captured: no subscription is orphaned by another one's id, none leaks   *)
(* after its closure has run, and SubscriberCount counts them.             *)
MapIsLive ==
  /\ \A s \in Subscribers :
       Live(s) <=> \E i \in DOMAIN subscribers : subscribers[i] = s
  /\ \A i \in DOMAIN subscribers : idOf[subscribers[i]] = i

(* What a subscriber has received or will receive keeps the order of each  *)
(* publisher and repeats nothing.                                          *)
FeedOf(s) == delivered[s] \o buf[s]

FeedOrder ==
  \A s \in Subscribers : \A i, j \in 1..Len(FeedOf(s)) :
    i < j /\ FeedOf(s)[i].pub = FeedOf(s)[j].pub => FeedOf(s)[i].seq < FeedOf(s)[j].seq

(* Publish, Subscribe and the closures return although no subscriber ever  *)
(* receives: a slow viewer cannot hold up the publisher (broker.go:9-10)   *)
(* nor keep the lock read-locked, and closures that are called for ever do *)
(* not shut the other callers out of it.                                   *)
CallsReturn ==
  /\ \A p \in Publishers : pub[p] = "calling" ~> pub[p] = "idle"
  /\ \A s \in Subscribers :
       /\ sub[s] = "subscribing" ~> sub[s] = "open"
       /\ sub[s] = "unsubscribing" ~> sub[s] = "done"

-------------------------------------------------------------------------------
(* The broker implements the feed: the lock, the ids and the map are       *)
(* hidden.                                                                 *)
StatusOf(s) ==
  IF closed[s] THEN "left" ELSE IF sub[s] \in {"new", "subscribing"} THEN "none" ELSE "open"

Feed == INSTANCE EventFeed WITH
  status <- [s \in Subscribers |-> StatusOf(s)],
  due    <- [p \in Publishers |-> {subscribers[i] : i \in todo[p]}],
  inbox  <- buf

(* Every run of the broker is a run of the abstract feed. *)
FeedSafety == Feed!FeedSafety

(* And it makes the progress the feed promises. *)
FeedSpec == Feed!FeedSpec

=============================================================================
