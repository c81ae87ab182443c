----------------------------- MODULE BrokerProofs -----------------------------
(***************************************************************************)
(* Theorems about Broker, for any sets of publishers and subscribers, any  *)
(* buffer size and any bound on the number of publishes.                   *)
(***************************************************************************)
EXTENDS Broker, SequenceTheorems, TLAPS

(***************************************************************************)
(* The inductive invariant.                                                *)
(***************************************************************************)

(* The range loop is only entered, and its event only exists, under the    *)
(* read lock; a call that waits for the lock still has an event to number. *)
LoopUnderLock ==
  \A p \in Publishers :
    /\ IF pub[p] = "sending" THEN count[p] >= 1 ELSE todo[p] = {}
    /\ pub[p] = "calling" => count[p] < MaxPublish

Subscribed(s) == sub[s] \notin {"new", "subscribing"}

(* Ids are handed out once. *)
FreshIds ==
  /\ \A s \in Subscribers : Subscribed(s) => idOf[s] < nextID
  /\ \A s \in Subscribers : ~Subscribed(s) => ~closed[s]
  /\ \A s, t \in Subscribers :
       Subscribed(s) /\ Subscribed(t) /\ idOf[s] = idOf[t] => s = t

IInv == TypeOK /\ LoopUnderLock /\ FreshIds /\ MapIsLive /\ NoSendOnClosed

LEMMA InitIInv == Init => IInv
<1> SUFFICES ASSUME Init PROVE IInv
  OBVIOUS
<1> USE BrokerAssumption DEF Init
<1>1. TypeOK
  BY EmptySeq DEF TypeOK
<1>2. LoopUnderLock /\ FreshIds /\ NoSendOnClosed
  BY DEF LoopUnderLock, FreshIds, NoSendOnClosed, Subscribed
<1>3. MapIsLive
  BY DEF MapIsLive, Live
<1> QED
  BY <1>1, <1>2, <1>3 DEF IInv

(* Steps that leave the map, the channels and the loops alone. *)
LEMMA CallerSteps ==
  ASSUME IInv, NEW s \in Subscribers,
         CallSubscribe(s) \/ CallUnsubscribe(s) \/ AcquireLock(s)
  PROVE  IInv'
<1> USE DEF mapVars, chanVars, lockVars, pubVars
<1>1. TypeOK'
  BY DEF IInv, TypeOK, CallSubscribe, CallUnsubscribe, AcquireLock
<1>2. \A t \in Subscribers : Subscribed(t)' = Subscribed(t) /\ Live(t)' = Live(t)
  BY DEF IInv, TypeOK, Subscribed, Live, CallSubscribe, CallUnsubscribe, AcquireLock
<1>3. LoopUnderLock' /\ NoSendOnClosed'
  BY DEF IInv, LoopUnderLock, NoSendOnClosed, CallSubscribe, CallUnsubscribe, AcquireLock
<1>4. FreshIds' /\ MapIsLive'
  BY <1>2 DEF IInv, FreshIds, MapIsLive, CallSubscribe, CallUnsubscribe, AcquireLock
<1> QED
  BY <1>1, <1>3, <1>4 DEF IInv

LEMMA SubscribeStep ==
  ASSUME IInv, NEW s \in Subscribers, Subscribe(s)
  PROVE  IInv'
<1> USE DEF mapVars, chanVars, lockVars, pubVars, IDAfter
<1>1. nextID \in Nat /\ nextID \notin DOMAIN subscribers
  BY DEF IInv, TypeOK
<1>2. /\ DOMAIN subscribers' = DOMAIN subscribers \cup {nextID}
      /\ subscribers'[nextID] = s
      /\ \A i \in DOMAIN subscribers : subscribers'[i] = subscribers[i]
  BY <1>1 DEF Subscribe
<1>3. TypeOK'
  <2>1. DOMAIN subscribers' \subseteq 0..(nextID' - 1)
    BY <1>1, <1>2 DEF IInv, TypeOK, Subscribe
  <2>2. subscribers' \in [DOMAIN subscribers' -> Subscribers]
    BY DEF IInv, TypeOK, Subscribe
  <2>3. todo' \in [Publishers -> SUBSET DOMAIN subscribers']
    BY <1>2 DEF IInv, TypeOK, Subscribe
  <2>4. nextID' \in Nat /\ idOf' \in [Subscribers -> Nat]
    BY <1>1 DEF IInv, TypeOK, Subscribe
  <2> QED
    BY <2>1, <2>2, <2>3, <2>4 DEF IInv, TypeOK, Subscribe
<1>4. ~Subscribed(s) /\ Subscribed(s)' /\ ~closed[s] /\ closed' = closed
  BY DEF IInv, TypeOK, FreshIds, Subscribed, Subscribe
<1>5. \A t \in Subscribers \ {s} : /\ Subscribed(t)' = Subscribed(t)
                                   /\ Live(t)' = Live(t)
                                   /\ idOf'[t] = idOf[t]
  BY DEF IInv, TypeOK, Subscribed, Live, Subscribe
<1>6. idOf'[s] = nextID /\ nextID' = nextID + 1
  BY DEF IInv, TypeOK, Subscribe
<1>7. LoopUnderLock'
  BY DEF IInv, LoopUnderLock, Subscribe
<1>8. FreshIds'
  <2>0. \A t \in Subscribers : idOf[t] \in Nat
    BY DEF IInv, TypeOK
  <2>1. \A t \in Subscribers : Subscribed(t)' => idOf'[t] < nextID'
    BY <1>1, <1>5, <1>6, <2>0 DEF IInv, FreshIds
  <2>2. \A t \in Subscribers : ~Subscribed(t)' => ~closed'[t]
    BY <1>4, <1>5 DEF IInv, FreshIds
  <2>3. ASSUME NEW t \in Subscribers, NEW u \in Subscribers,
               Subscribed(t)', Subscribed(u)', idOf'[t] = idOf'[u]
        PROVE  t = u
    BY <1>1, <1>5, <1>6, <2>0, <2>3 DEF IInv, FreshIds
  <2> QED
    BY <2>1, <2>2, <2>3 DEF FreshIds, Subscribed
<1>9. MapIsLive'
  <2>1. Live(s)'
    BY <1>4 DEF Live, Subscribed
  <2>2. ~Live(s)
    BY <1>4 DEF Live, Subscribed
  <2>3. \A i \in DOMAIN subscribers : subscribers[i] # s
    BY <2>2 DEF IInv, MapIsLive
  <2>4. \A t \in Subscribers :
          Live(t)' <=> \E i \in DOMAIN subscribers' : subscribers'[i] = t
    BY <1>2, <1>5, <2>1, <2>3 DEF IInv, MapIsLive
  <2>5. \A i \in DOMAIN subscribers' : idOf'[subscribers'[i]] = i
    BY <1>2, <1>5, <1>6, <2>3 DEF IInv, MapIsLive, TypeOK
  <2> QED
    BY <2>4, <2>5 DEF MapIsLive
<1>10. NoSendOnClosed'
  BY <1>2, <1>4 DEF IInv, TypeOK, NoSendOnClosed, Subscribe
<1> QED
  BY <1>3, <1>7, <1>8, <1>9, <1>10 DEF IInv

(* No publisher is in its loop while a closure changes the map. *)
LEMMA LockExcludesLoops ==
  ASSUME IInv, NEW s \in Subscribers, HoldsLock(s), NEW p \in Publishers
  PROVE  todo[p] = {}
BY DEF IInv, LoopUnderLock, HoldsLock, Readers

LEMMA UnsubscribeStep ==
  ASSUME IInv, NEW s \in Subscribers, Unsubscribe(s)
  PROVE  IInv'
<1> USE DEF mapVars, chanVars, lockVars, pubVars
<1>1. \A p \in Publishers : todo[p] = {}
  BY LockExcludesLoops DEF Unsubscribe
<1>2. todo' = todo /\ Subscribed(s) /\ Subscribed(s)'
  BY DEF IInv, TypeOK, Subscribed, Unsubscribe
<1>3. \A t \in Subscribers : Subscribed(t)' = Subscribed(t)
  BY DEF IInv, TypeOK, Subscribed, Unsubscribe
<1>4. LoopUnderLock' /\ NoSendOnClosed'
  BY <1>1 DEF IInv, LoopUnderLock, NoSendOnClosed, Unsubscribe
<1>5. CASE idOf[s] \in DOMAIN subscribers
  <2>1. subscribers[idOf[s]] = s
    <3>1. PICK t \in Subscribers : t = subscribers[idOf[s]]
      BY <1>5 DEF IInv, TypeOK
    <3>2. idOf[t] = idOf[s] /\ Live(t)
      BY <1>5, <3>1 DEF IInv, MapIsLive
    <3> QED
      BY <1>2, <3>1, <3>2 DEF IInv, FreshIds, Live, Subscribed
  <2>2. /\ subscribers' = [i \in DOMAIN subscribers \ {idOf[s]} |-> subscribers[i]]
        /\ closed' = [closed EXCEPT ![s] = TRUE]
        /\ idOf' = idOf /\ nextID' = nextID
    BY <1>5 DEF Unsubscribe
  <2>3. TypeOK'
    <3>1. todo' \in [Publishers -> SUBSET DOMAIN subscribers']
      BY <1>1, <1>2 DEF IInv, TypeOK
    <3>2. /\ DOMAIN subscribers' \subseteq 0..(nextID' - 1)
          /\ subscribers' \in [DOMAIN subscribers' -> Subscribers]
      BY <2>2 DEF IInv, TypeOK
    <3> QED
      BY <2>2, <3>1, <3>2 DEF IInv, TypeOK, Unsubscribe
  <2>4. FreshIds'
    BY <1>2, <1>3, <2>2 DEF IInv, TypeOK, FreshIds
  <2>5. MapIsLive'
    <3>1. \A i \in DOMAIN subscribers : subscribers[i] = s => i = idOf[s]
      BY DEF IInv, MapIsLive
    <3>2. \A i \in DOMAIN subscribers' :
            i \in DOMAIN subscribers /\ subscribers'[i] = subscribers[i] /\ i # idOf[s]
      BY <2>2
    <3>3. ~Live(s)' /\ \A i \in DOMAIN subscribers' : subscribers'[i] # s
      BY <2>2, <3>1, <3>2 DEF IInv, TypeOK, Live
    <3>4. \A t \in Subscribers \ {s} : Live(t)' = Live(t)
      BY <1>3, <2>2 DEF IInv, TypeOK, Live, Subscribed
    <3>5. ASSUME NEW t \in Subscribers \ {s}
          PROVE  Live(t)' <=> \E i \in DOMAIN subscribers' : subscribers'[i] = t
      <4>1. \A i \in DOMAIN subscribers : subscribers[i] = t => i # idOf[s]
        BY <2>1
      <4> QED
        BY <2>2, <3>2, <3>4, <4>1 DEF IInv, MapIsLive
    <3> QED
      BY <2>2, <3>2, <3>3, <3>5 DEF IInv, MapIsLive
  <2> QED
    BY <1>4, <2>3, <2>4, <2>5 DEF IInv
<1>6. CASE idOf[s] \notin DOMAIN subscribers
  <2>1. /\ subscribers' = subscribers /\ closed' = closed
        /\ idOf' = idOf /\ nextID' = nextID
    BY <1>6 DEF Unsubscribe
  <2>2. TypeOK'
    BY <2>1 DEF IInv, TypeOK, Unsubscribe
  <2>3. FreshIds' /\ MapIsLive'
    BY <1>3, <2>1 DEF IInv, FreshIds, MapIsLive, Live, Subscribed
  <2> QED
    BY <1>4, <2>2, <2>3 DEF IInv
<1> QED
  BY <1>5, <1>6

LEMMA ReceiveStep ==
  ASSUME IInv, NEW s \in Subscribers, Receive(s)
  PROVE  IInv'
<1> USE DEF mapVars, chanVars, lockVars, pubVars
<1>1. /\ buf[s] \in Seq(Event) /\ buf[s] # <<>> /\ delivered[s] \in Seq(Event)
  BY DEF IInv, TypeOK, Receive
<1>2. /\ Head(buf[s]) \in Event /\ Tail(buf[s]) \in Seq(Event)
      /\ Len(Tail(buf[s])) = Len(buf[s]) - 1 /\ Len(buf[s]) \in Nat
  BY <1>1, HeadTailProperties, LenProperties
<1>3. Append(delivered[s], Head(buf[s])) \in Seq(Event)
  BY <1>1, <1>2, AppendProperties
<1>4. TypeOK'
  <2>1. buf' \in [Subscribers -> Seq(Event)] /\ delivered' \in [Subscribers -> Seq(Event)]
    BY <1>2, <1>3 DEF IInv, TypeOK, Receive
  <2>2. \A t \in Subscribers : Len(buf'[t]) <= BufSize
    BY <1>2, BrokerAssumption DEF IInv, TypeOK, Receive
  <2> QED
    BY <2>1, <2>2 DEF IInv, TypeOK, Receive
<1>5. LoopUnderLock' /\ FreshIds' /\ MapIsLive' /\ NoSendOnClosed'
  BY DEF IInv, LoopUnderLock, FreshIds, Subscribed, MapIsLive, Live, NoSendOnClosed, Receive
<1> QED
  BY <1>4, <1>5 DEF IInv

LEMMA SendStep ==
  ASSUME IInv, NEW p \in Publishers, NEW i \in todo[p], Send(p, i)
  PROVE  IInv'
<1> USE DEF mapVars, chanVars, lockVars, pubVars
<1> DEFINE t == subscribers[i]
           e == [pub |-> p, seq |-> count[p]]
<1>1. i \in DOMAIN subscribers /\ t \in Subscribers
  BY DEF IInv, TypeOK
<1>2. e \in Event
  <2>1. pub[p] = "sending"
    BY DEF IInv, LoopUnderLock
  <2> QED
    BY <2>1 DEF IInv, LoopUnderLock, TypeOK, Event
<1>3. /\ buf[t] \in Seq(Event) /\ Len(buf[t]) \in Nat
      /\ Append(buf[t], e) \in Seq(Event)
      /\ Len(Append(buf[t], e)) = Len(buf[t]) + 1
  BY <1>1, <1>2, AppendProperties, LenProperties DEF IInv, TypeOK
<1>4. TypeOK'
  <2>1. buf' \in [Subscribers -> Seq(Event)]
    BY <1>1, <1>3 DEF IInv, TypeOK, Send
  <2>2. \A u \in Subscribers : Len(buf'[u]) <= BufSize
    BY <1>1, <1>3, BrokerAssumption DEF IInv, TypeOK, Send, HasRoom
  <2>3. todo' \in [Publishers -> SUBSET DOMAIN subscribers']
    BY DEF IInv, TypeOK, Send
  <2> QED
    BY <2>1, <2>2, <2>3 DEF IInv, TypeOK, Send
<1>5. LoopUnderLock'
  BY DEF IInv, TypeOK, LoopUnderLock, Send
<1>6. FreshIds' /\ MapIsLive' /\ NoSendOnClosed'
  BY DEF IInv, TypeOK, FreshIds, Subscribed, MapIsLive, Live, NoSendOnClosed, Send
<1> QED
  BY <1>4, <1>5, <1>6 DEF IInv

LEMMA PublisherSteps ==
  ASSUME IInv, NEW p \in Publishers, CallPublish(p) \/ RLock(p) \/ RUnlock(p)
  PROVE  IInv'
<1> USE DEF mapVars, chanVars, lockVars, pubVars
<1>0. count[p] \in 0..MaxPublish /\ MaxPublish \in Nat
  BY BrokerAssumption DEF IInv, TypeOK
<1>1. CASE CallPublish(p)
  <2>1. TypeOK' /\ LoopUnderLock'
    BY <1>1 DEF IInv, TypeOK, LoopUnderLock, CallPublish
  <2>2. FreshIds' /\ MapIsLive' /\ NoSendOnClosed'
    BY <1>1 DEF IInv, FreshIds, Subscribed, MapIsLive, Live, NoSendOnClosed, CallPublish
  <2> QED
    BY <2>1, <2>2 DEF IInv
<1>2. CASE RLock(p)
  <2>1. count[p] < MaxPublish /\ todo' = [todo EXCEPT ![p] = DOMAIN subscribers]
    BY <1>2 DEF IInv, LoopUnderLock, RLock
  <2>2. TypeOK' /\ LoopUnderLock'
    BY <1>0, <1>2, <2>1 DEF IInv, TypeOK, LoopUnderLock, RLock
  <2>3. FreshIds' /\ MapIsLive'
    BY <1>2 DEF IInv, FreshIds, Subscribed, MapIsLive, Live, RLock
  <2>4. \A i \in DOMAIN subscribers : ~closed[subscribers[i]]
    BY DEF IInv, TypeOK, MapIsLive, Live
  <2>5. NoSendOnClosed'
    BY <1>2, <2>1, <2>4 DEF IInv, TypeOK, NoSendOnClosed, RLock
  <2> QED
    BY <2>2, <2>3, <2>5 DEF IInv
<1>3. CASE RUnlock(p)
  <2>1. TypeOK' /\ LoopUnderLock'
    BY <1>3 DEF IInv, TypeOK, LoopUnderLock, RUnlock
  <2>2. FreshIds' /\ MapIsLive' /\ NoSendOnClosed'
    BY <1>3 DEF IInv, FreshIds, Subscribed, MapIsLive, Live, NoSendOnClosed, RUnlock
  <2> QED
    BY <2>1, <2>2 DEF IInv
<1> QED
  BY <1>1, <1>2, <1>3

LEMMA NextIInv == IInv /\ [Next]_vars => IInv'
<1> SUFFICES ASSUME IInv, [Next]_vars PROVE IInv'
  OBVIOUS
<1>1. ASSUME NEW s \in Subscribers,
             \/ CallSubscribe(s) \/ CallUnsubscribe(s)
             \/ AcquireLock(s) \/ Subscribe(s) \/ Unsubscribe(s)
             \/ Receive(s)
      PROVE  IInv'
  BY <1>1, CallerSteps, SubscribeStep, UnsubscribeStep, ReceiveStep
<1>2. ASSUME NEW p \in Publishers, CallPublish(p) \/ RLock(p) \/ RUnlock(p)
      PROVE  IInv'
  BY <1>2, PublisherSteps
<1>3. ASSUME NEW p \in Publishers, NEW i \in todo[p], Send(p, i)
      PROVE  IInv'
  BY <1>3, SendStep
<1>4. CASE UNCHANGED vars
  BY <1>4 DEF vars, IInv, TypeOK, LoopUnderLock, FreshIds, Subscribed, MapIsLive, Live,
              NoSendOnClosed
<1> QED
  BY <1>1, <1>2, <1>3, <1>4 DEF Next

LEMMA IInvHolds == Safety => []IInv
BY InitIInv, NextIInv, PTL DEF Safety

(***************************************************************************)
(* The theorems.                                                           *)
(***************************************************************************)

(* The state of the broker stays well formed: no subscription ever holds   *)
(* more than BufSize events and no loop visits an id out of the map.       *)
THEOREM TypeCorrect == Spec => []TypeOK
<1>1. IInv => TypeOK
  BY DEF IInv
<1> QED
  BY <1>1, IInvHolds, PTL DEF Spec

(* Publish never panics by sending on a channel that an unsubscribe        *)
(* function has closed.                                                    *)
THEOREM NeverSendsOnClosed == Spec => []NoSendOnClosed
<1>1. IInv => NoSendOnClosed
  BY DEF IInv
<1> QED
  BY <1>1, IInvHolds, PTL DEF Spec

(* No subscription is orphaned by another one's id and none outlives the   *)
(* call of its unsubscribe function in the map.                            *)
THEOREM NoSubscriptionLeaks == Spec => []MapIsLive
<1>1. IInv => MapIsLive
  BY DEF IInv
<1> QED
  BY <1>1, IInvHolds, PTL DEF Spec

(***************************************************************************)
(* The order of a feed.                                                    *)
(***************************************************************************)

(* A feed holds nothing its publishers have not numbered yet, and nothing  *)
(* of the event that some loop still has to offer it.                      *)
OnlyPast(s) ==
  \A k \in 1..Len(FeedOf(s)) :
    LET e == FeedOf(s)[k] IN
      /\ e.seq <= count[e.pub]
      /\ e.seq = count[e.pub] => \A i \in todo[e.pub] : subscribers[i] # s

OrderInv == FeedOrder /\ \A s \in Subscribers : OnlyPast(s)

(* Receiving moves the boundary between the two parts of a feed.           *)
LEMMA MoveHead ==
  ASSUME NEW S, NEW d \in Seq(S), NEW b \in Seq(S), b # <<>>
  PROVE  Append(d, Head(b)) \o Tail(b) = d \o b
<1>1. Head(b) \in S /\ Tail(b) \in Seq(S) /\ Len(Tail(b)) = Len(b) - 1 /\ Head(b) = b[1]
      /\ \A i \in 1..Len(Tail(b)) : Tail(b)[i] = b[i + 1]
  BY HeadTailProperties
<1>2. Len(b) \in Nat /\ Len(b) # 0 /\ Len(d) \in Nat
  BY EmptySeq, LenProperties
<1> DEFINE a == Append(d, Head(b))
<1>3. /\ a \in Seq(S) /\ Len(a) = Len(d) + 1
      /\ \A i \in 1..Len(d) : a[i] = d[i]
      /\ a[Len(d) + 1] = b[1]
  BY <1>1, <1>2, AppendProperties
<1> HIDE DEF a
<1> DEFINE l == a \o Tail(b)
           r == d \o b
<1>4. /\ l \in Seq(S) /\ Len(l) = Len(d) + Len(b)
      /\ \A i \in 1..Len(d) + Len(b) :
           l[i] = IF i <= Len(d) + 1 THEN a[i] ELSE Tail(b)[i - (Len(d) + 1)]
  <2>1. /\ l \in Seq(S) /\ Len(l) = Len(a) + Len(Tail(b))
        /\ \A i \in 1..Len(a) + Len(Tail(b)) :
             l[i] = IF i <= Len(a) THEN a[i] ELSE Tail(b)[i - Len(a)]
    BY <1>1, <1>3, ConcatProperties
  <2>2. Len(a) + Len(Tail(b)) = Len(d) + Len(b)
    BY <1>1, <1>2, <1>3
  <2> QED
    BY <2>1, <2>2, <1>3
<1>5. /\ r \in Seq(S) /\ Len(r) = Len(d) + Len(b)
      /\ \A i \in 1..Len(d) + Len(b) : r[i] = IF i <= Len(d) THEN d[i] ELSE b[i - Len(d)]
  BY ConcatProperties
<1> HIDE DEF l, r
<1>6. ASSUME NEW i \in 1..Len(d) + Len(b) PROVE l[i] = r[i]
  <2>1. CASE i <= Len(d)
    BY <1>2, <1>3, <1>4, <1>5, <2>1
  <2>2. CASE i = Len(d) + 1
    <3>1. l[i] = a[Len(d) + 1]
      BY <1>2, <1>4, <2>2
    <3>2. r[i] = b[1]
      BY <1>2, <1>5, <2>2
    <3> QED
      BY <1>3, <3>1, <3>2
  <2>3. CASE i > Len(d) + 1
    <3>1. i - (Len(d) + 1) \in 1..Len(Tail(b))
      BY <1>1, <1>2, <2>3
    <3>2. Tail(b)[i - (Len(d) + 1)] = b[(i - (Len(d) + 1)) + 1]
      BY <1>1, <3>1
    <3>3. (i - (Len(d) + 1)) + 1 = i - Len(d)
      BY <1>2
    <3> QED
      BY <1>2, <1>4, <1>5, <2>3, <3>2, <3>3
  <2> QED
    BY <1>2, <2>1, <2>2, <2>3
<1>7. l = r
  BY <1>4, <1>5, <1>6, SeqEqual
<1> QED
  BY <1>7 DEF l, r, a

(* Sending appends to a feed.                                              *)
LEMMA AppendToConcat ==
  ASSUME NEW d \in Seq(Event), NEW b \in Seq(Event), NEW e \in Event
  PROVE  /\ Len(d \o Append(b, e)) = Len(d \o b) + 1
         /\ (d \o Append(b, e))[Len(d \o b) + 1] = e
         /\ \A i \in 1..Len(d \o b) : (d \o Append(b, e))[i] = (d \o b)[i]
<1> DEFINE a == Append(b, e)
<1>1. /\ a \in Seq(Event) /\ Len(a) = Len(b) + 1 /\ a[Len(b) + 1] = e
      /\ \A i \in 1..Len(b) : a[i] = b[i]
  BY AppendProperties
<1>2. Len(b) \in Nat /\ Len(d) \in Nat
  BY LenProperties
<1> HIDE DEF a
<1>3. /\ Len(d \o a) = Len(d) + Len(b) + 1
      /\ \A i \in 1..Len(d) + Len(b) + 1 :
           (d \o a)[i] = IF i <= Len(d) THEN d[i] ELSE a[i - Len(d)]
  <2>1. /\ Len(d \o a) = Len(d) + Len(a)
        /\ \A i \in 1..Len(d) + Len(a) :
             (d \o a)[i] = IF i <= Len(d) THEN d[i] ELSE a[i - Len(d)]
    BY <1>1, ConcatProperties
  <2>2. Len(d) + Len(a) = Len(d) + Len(b) + 1
    BY <1>1, <1>2
  <2> QED
    BY <2>1, <2>2
<1>4. /\ Len(d \o b) = Len(d) + Len(b)
      /\ \A i \in 1..Len(d) + Len(b) :
           (d \o b)[i] = IF i <= Len(d) THEN d[i] ELSE b[i - Len(d)]
  BY ConcatProperties
<1>5. (d \o a)[Len(d \o b) + 1] = e
  <2>1. Len(d) + Len(b) + 1 \in 1..Len(d) + Len(b) + 1 /\ ~(Len(d) + Len(b) + 1 <= Len(d))
        /\ (Len(d) + Len(b) + 1) - Len(d) = Len(b) + 1
    BY <1>2
  <2> QED
    BY <1>1, <1>3, <1>4, <2>1
<1>6. ASSUME NEW i \in 1..Len(d \o b) PROVE (d \o a)[i] = (d \o b)[i]
  <2>1. CASE i <= Len(d)
    BY <1>2, <1>3, <1>4, <2>1
  <2>2. CASE i > Len(d)
    <3>1. i - Len(d) \in 1..Len(b)
      BY <1>2, <1>4, <2>2
    <3> QED
      BY <1>1, <1>2, <1>3, <1>4, <2>2, <3>1
  <2>3. i <= Len(d) \/ i > Len(d)
    BY <1>2, <1>4
  <2> QED
    BY <2>1, <2>2, <2>3
<1> QED
  BY <1>2, <1>3, <1>4, <1>5, <1>6 DEF a

LEMMA FeedIsSeq == ASSUME TypeOK, NEW s \in Subscribers PROVE FeedOf(s) \in Seq(Event)
BY ConcatProperties DEF TypeOK, FeedOf

LEMMA InitOrder == Init => OrderInv
<1> SUFFICES ASSUME Init PROVE OrderInv
  OBVIOUS
<1>1. \A s \in Subscribers : Len(FeedOf(s)) = 0
  BY EmptySeq, ConcatEmptySeq DEF Init, FeedOf
<1> QED
  BY <1>1 DEF OrderInv, FeedOrder, OnlyPast

(* Steps that leave every feed as it is.                                   *)
LEMMA SameFeeds ==
  ASSUME OrderInv, \A s \in Subscribers : FeedOf(s)' = FeedOf(s) /\ OnlyPast(s)'
  PROVE  OrderInv'
BY DEF OrderInv, FeedOrder

LEMMA SameAltogether ==
  ASSUME OrderInv, UNCHANGED <<subscribers, buf, delivered, count, todo>>
  PROVE  OrderInv'
<1>1. \A s \in Subscribers : FeedOf(s)' = FeedOf(s)
  BY DEF FeedOf
<1>2. \A s \in Subscribers : OnlyPast(s)'
  BY <1>1 DEF OrderInv, OnlyPast
<1> QED
  BY <1>1, <1>2, SameFeeds

(* Two ids in the map belong to two subscriptions.                         *)
LEMMA MapIsInjective ==
  ASSUME MapIsLive, NEW i \in DOMAIN subscribers, NEW j \in DOMAIN subscribers,
         subscribers[i] = subscribers[j]
  PROVE  i = j
BY DEF MapIsLive

LEMMA NextOrder == IInv /\ OrderInv /\ [Next]_vars => OrderInv'
<1> SUFFICES ASSUME IInv, OrderInv, [Next]_vars PROVE OrderInv'
  OBVIOUS
<1> USE DEF mapVars, chanVars, lockVars, pubVars
<1>0. ASSUME NEW s \in Subscribers, NEW k \in 1..Len(FeedOf(s))
      PROVE  /\ FeedOf(s)[k].pub \in Publishers
             /\ FeedOf(s)[k].seq \in Nat
             /\ count[FeedOf(s)[k].pub] \in Nat
  <2>1. FeedOf(s)[k] \in Event
    BY FeedIsSeq, ElementOfSeq DEF IInv
  <2> QED
    BY <2>1, BrokerAssumption DEF Event, IInv, TypeOK
<1>1. ASSUME NEW s \in Subscribers,
             CallSubscribe(s) \/ CallUnsubscribe(s) \/ AcquireLock(s)
      PROVE  OrderInv'
  <2>1. UNCHANGED <<subscribers, buf, delivered, count, todo>>
    BY <1>1 DEF CallSubscribe, CallUnsubscribe, AcquireLock
  <2> QED
    BY <2>1, SameAltogether
<1>2. ASSUME NEW s \in Subscribers, Subscribe(s) PROVE OrderInv'
  <2>1. /\ UNCHANGED <<buf, delivered, count, todo>>
        /\ \A i \in DOMAIN subscribers : i # nextID /\ subscribers'[i] = subscribers[i]
    BY <1>2 DEF Subscribe, IInv, TypeOK
  <2>2. \A p \in Publishers : \A i \in todo[p] : i \in DOMAIN subscribers
    BY DEF IInv, TypeOK
  <2>3. \A t \in Subscribers : FeedOf(t)' = FeedOf(t)
    BY <2>1 DEF FeedOf
  <2>4. \A t \in Subscribers : OnlyPast(t)'
    BY <1>0, <2>1, <2>2, <2>3 DEF OrderInv, OnlyPast
  <2> QED
    BY <2>3, <2>4, SameFeeds
<1>3. ASSUME NEW s \in Subscribers, Unsubscribe(s) PROVE OrderInv'
  <2>1. UNCHANGED <<buf, delivered, count, todo>> /\ \A p \in Publishers : todo[p] = {}
    BY <1>3, LockExcludesLoops DEF Unsubscribe
  <2>2. \A t \in Subscribers : FeedOf(t)' = FeedOf(t)
    BY <2>1 DEF FeedOf
  <2>3. \A t \in Subscribers : OnlyPast(t)'
    BY <1>0, <2>1, <2>2 DEF OrderInv, OnlyPast
  <2> QED
    BY <2>2, <2>3, SameFeeds
<1>4. ASSUME NEW s \in Subscribers, Receive(s) PROVE OrderInv'
  <2>1. /\ UNCHANGED <<subscribers, count, todo>>
        /\ buf' = [buf EXCEPT ![s] = Tail(@)]
        /\ delivered' = [delivered EXCEPT ![s] = Append(@, Head(buf[s]))]
        /\ buf[s] # <<>>
    BY <1>4 DEF Receive
  <2>2. buf[s] \in Seq(Event) /\ delivered[s] \in Seq(Event)
    BY DEF IInv, TypeOK
  <2>3. buf'[s] = Tail(buf[s]) /\ delivered'[s] = Append(delivered[s], Head(buf[s]))
    BY <2>1 DEF IInv, TypeOK
  <2>4. FeedOf(s)' = FeedOf(s)
    BY <2>1, <2>2, <2>3, MoveHead DEF FeedOf
  <2>5. \A t \in Subscribers \ {s} : FeedOf(t)' = FeedOf(t)
    BY <2>1 DEF FeedOf, IInv, TypeOK
  <2>6. \A t \in Subscribers : FeedOf(t)' = FeedOf(t)
    BY <2>4, <2>5
  <2>7. \A t \in Subscribers : OnlyPast(t)'
    BY <2>1, <2>6 DEF OrderInv, OnlyPast
  <2> QED
    BY <2>6, <2>7, SameFeeds
<1>5. ASSUME NEW p \in Publishers, CallPublish(p) \/ RUnlock(p) PROVE OrderInv'
  <2>1. UNCHANGED <<subscribers, buf, delivered, count, todo>>
    BY <1>5 DEF CallPublish, RUnlock
  <2> QED
    BY <2>1, SameAltogether
<1>6. ASSUME NEW p \in Publishers, RLock(p) PROVE OrderInv'
  <2>1. /\ UNCHANGED <<subscribers, buf, delivered>>
        /\ count' = [count EXCEPT ![p] = @ + 1]
        /\ todo' = [todo EXCEPT ![p] = DOMAIN subscribers]
    BY <1>6 DEF RLock
  <2>2. \A t \in Subscribers : FeedOf(t)' = FeedOf(t)
    BY <2>1 DEF FeedOf
  <2>3. ASSUME NEW t \in Subscribers, NEW k \in 1..Len(FeedOf(t))
        PROVE  /\ FeedOf(t)[k].seq <= count'[FeedOf(t)[k].pub]
               /\ FeedOf(t)[k].seq = count'[FeedOf(t)[k].pub] =>
                    \A i \in todo'[FeedOf(t)[k].pub] : subscribers[i] # t
    <3> DEFINE q == FeedOf(t)[k].pub
               n == FeedOf(t)[k].seq
    <3>1. q \in Publishers /\ n \in Nat /\ count[q] \in Nat /\ n <= count[q]
          /\ (n = count[q] => \A i \in todo[q] : subscribers[i] # t)
      BY <1>0 DEF OrderInv, OnlyPast
    <3>2. CASE q = p
      <4>1. count'[q] = count[q] + 1
        BY <2>1, <3>1, <3>2 DEF IInv, TypeOK
      <4> QED
        BY <3>1, <4>1
    <3>3. CASE q # p
      <4>1. count'[q] = count[q] /\ todo'[q] = todo[q]
        BY <2>1, <3>1, <3>3 DEF IInv, TypeOK
      <4> QED
        BY <3>1, <4>1
    <3> QED
      BY <3>2, <3>3
  <2>4. \A t \in Subscribers : OnlyPast(t)'
    BY <2>1, <2>2, <2>3 DEF OnlyPast
  <2> QED
    BY <2>2, <2>4, SameFeeds
<1>7. ASSUME NEW p \in Publishers, NEW i \in todo[p], Send(p, i) PROVE OrderInv'
  <2>0. PICK t \in Subscribers : t = subscribers[i]
    BY DEF IInv, TypeOK
  <2> DEFINE e == [pub |-> p, seq |-> count[p]]
  <2>1. i \in DOMAIN subscribers /\ t \in Subscribers /\ count[p] \in Nat /\ e \in Event
    <3>1. pub[p] = "sending" /\ count[p] >= 1 /\ count[p] \in 0..MaxPublish
      BY DEF IInv, LoopUnderLock, TypeOK
    <3> QED
      BY <3>1, BrokerAssumption DEF IInv, TypeOK, Event
  <2>2. /\ UNCHANGED <<subscribers, delivered, count>>
        /\ todo' = [todo EXCEPT ![p] = @ \ {i}]
    BY <1>7 DEF Send
  <2>3. \A q \in Publishers : todo'[q] = IF q = p THEN todo[p] \ {i} ELSE todo[q]
    BY <2>2 DEF IInv, TypeOK
  <2>4. ASSUME NEW u \in Subscribers, FeedOf(u)' = FeedOf(u)
        PROVE  OnlyPast(u)'
    BY <1>0, <2>2, <2>3, <2>4 DEF OrderInv, OnlyPast
  <2>5. CASE ~HasRoom(t)
    <3>1. \A u \in Subscribers : FeedOf(u)' = FeedOf(u)
      BY <1>7, <2>0, <2>2, <2>5 DEF Send, FeedOf
    <3> QED
      BY <2>4, <3>1, SameFeeds
  <2>6. CASE HasRoom(t)
    <3>1. buf' = [buf EXCEPT ![t] = Append(@, e)]
      BY <1>7, <2>0, <2>6 DEF Send
    <3>2. \A u \in Subscribers \ {t} : FeedOf(u)' = FeedOf(u)
      BY <2>2, <3>1 DEF FeedOf, IInv, TypeOK
    <3>3. FeedOf(t)' = delivered[t] \o Append(buf[t], e)
      BY <2>1, <2>2, <3>1 DEF FeedOf, IInv, TypeOK
    <3> DEFINE f == FeedOf(t)
               g == FeedOf(t)'
    <3>4. f \in Seq(Event) /\ Len(f) \in Nat
      BY <2>1, FeedIsSeq, LenProperties DEF IInv
    <3>5. /\ Len(g) = Len(f) + 1 /\ g[Len(f) + 1] = e
          /\ \A k \in 1..Len(f) : g[k] = f[k]
      <4>1. delivered[t] \in Seq(Event) /\ buf[t] \in Seq(Event)
        BY DEF IInv, TypeOK
      <4> HIDE DEF e
      <4>2. /\ Len(delivered[t] \o Append(buf[t], e)) = Len(delivered[t] \o buf[t]) + 1
            /\ (delivered[t] \o Append(buf[t], e))[Len(delivered[t] \o buf[t]) + 1] = e
            /\ \A k \in 1..Len(delivered[t] \o buf[t]) :
                 (delivered[t] \o Append(buf[t], e))[k] = (delivered[t] \o buf[t])[k]
        BY <2>1, <4>1, AppendToConcat
      <4>3. f = delivered[t] \o buf[t] /\ g = delivered[t] \o Append(buf[t], e)
        BY <3>3 DEF FeedOf
      <4> QED
        BY <4>2, <4>3
    <3>6. \A k \in 1..Len(f) : f[k].pub = p => f[k].seq < count[p]
      BY <1>0, <2>0, <2>1 DEF OrderInv, OnlyPast
    <3> HIDE DEF f, g
    <3>7. ASSUME NEW k \in 1..Len(g), NEW j \in 1..Len(g), k < j, g[k].pub = g[j].pub
          PROVE  g[k].seq < g[j].seq
      <4>1. CASE j = Len(f) + 1
        <5>1. k \in 1..Len(f) /\ g[k] = f[k] /\ g[j] = e
          BY <3>4, <3>5, <3>7, <4>1
        <5> QED
          BY <3>6, <3>7, <5>1
      <4>2. CASE j # Len(f) + 1
        <5>1. k \in 1..Len(f) /\ j \in 1..Len(f) /\ g[k] = f[k] /\ g[j] = f[j]
          BY <3>4, <3>5, <3>7, <4>2
        <5> QED
          BY <2>1, <3>7, <5>1 DEF OrderInv, FeedOrder, f
      <4> QED
        BY <4>1, <4>2
    <3>8. ASSUME NEW k \in 1..Len(g)
          PROVE  /\ g[k].seq <= count[g[k].pub]
                 /\ g[k].seq = count[g[k].pub] =>
                      \A j \in todo'[g[k].pub] : subscribers[j] # t
      <4>1. CASE k = Len(f) + 1
        <5>1. g[k] = e
          BY <3>5, <4>1
        <5>2. \A j \in todo[p] \ {i} : subscribers[j] # t
          BY <2>0, <2>1, MapIsInjective DEF IInv, TypeOK
        <5> QED
          BY <2>1, <2>3, <5>1, <5>2
      <4>2. CASE k # Len(f) + 1
        <5>1. k \in 1..Len(f) /\ g[k] = f[k]
          BY <3>4, <3>5, <4>2
        <5>2. f[k].pub \in Publishers
          BY <1>0, <2>1, <5>1 DEF f
        <5>3. /\ f[k].seq <= count[f[k].pub]
              /\ f[k].seq = count[f[k].pub] => \A j \in todo[f[k].pub] : subscribers[j] # t
          BY <2>1, <5>1 DEF OrderInv, OnlyPast, f
        <5> QED
          BY <2>3, <5>1, <5>2, <5>3
      <4> QED
        BY <4>1, <4>2
    <3>9. OnlyPast(t)'
      BY <2>2, <3>8 DEF OnlyPast, g
    <3>10. FeedOrder'
      <4>1. ASSUME NEW u \in Subscribers, NEW k \in 1..Len(FeedOf(u))',
                   NEW j \in 1..Len(FeedOf(u))', k < j,
                   FeedOf(u)'[k].pub = FeedOf(u)'[j].pub
            PROVE  FeedOf(u)'[k].seq < FeedOf(u)'[j].seq
        <5>1. CASE u = t
          BY <3>7, <4>1, <5>1 DEF g
        <5>2. CASE u # t
          BY <3>2, <4>1, <5>2 DEF OrderInv, FeedOrder
        <5> QED
          BY <5>1, <5>2
      <4> QED
        BY <4>1 DEF FeedOrder
    <3>11. \A u \in Subscribers : OnlyPast(u)'
      BY <2>4, <3>2, <3>9
    <3> QED
      BY <3>10, <3>11 DEF OrderInv
  <2> QED
    BY <2>5, <2>6
<1>8. CASE UNCHANGED vars
  BY <1>8, SameAltogether DEF vars
<1> QED
  BY <1>1, <1>2, <1>3, <1>4, <1>5, <1>6, <1>7, <1>8 DEF Next

(* Every subscriber receives the events of each publisher in order and     *)
(* none twice, whatever is dropped in between.                             *)
THEOREM FeedsAreOrdered == Spec => []FeedOrder
<1>1. OrderInv => FeedOrder
  BY DEF OrderInv
<1>2. Safety => []OrderInv
  BY InitOrder, NextOrder, IInvHolds, PTL DEF Safety
<1> QED
  BY <1>1, <1>2, PTL DEF Spec

(***************************************************************************)
(* The broker implements the abstract feed.                                *)
(***************************************************************************)

Status == [s \in Subscribers |-> StatusOf(s)]
DueTo(p) == {subscribers[i] : i \in todo[p]}
Due == [p \in Publishers |-> DueTo(p)]

FeedState == <<Status, count, Due, buf, delivered>>

(* What the feed sees of a step that only concerns callers and the lock.   *)
LEMMA FeedStutters ==
  ASSUME UNCHANGED <<subscribers, todo, count, buf, delivered>>,
         \A s \in Subscribers : StatusOf(s)' = StatusOf(s)
  PROVE  UNCHANGED FeedState
<1>1. Status' = Status
  BY DEF Status
<1>2. Due' = Due
  BY DEF Due, DueTo
<1> QED
  BY <1>1, <1>2 DEF FeedState

LEMMA OpenIsLive == \A s \in Subscribers : StatusOf(s) = "open" <=> Live(s)
BY DEF StatusOf, Live

LEMMA FeedInitHolds == Init => Feed!FeedInit
<1> SUFFICES ASSUME Init PROVE Feed!FeedInit
  OBVIOUS
<1>1. \A s \in Subscribers : StatusOf(s) = "none"
  BY DEF Init, StatusOf
<1>2. \A p \in Publishers : {subscribers[i] : i \in todo[p]} = {}
  BY DEF Init
<1> QED
  BY <1>1, <1>2 DEF Feed!FeedInit, Init

LEMMA SubscribeIsJoin ==
  ASSUME IInv, NEW s \in Subscribers, Subscribe(s)
  PROVE  Feed!Join(s)
<1> USE DEF mapVars, chanVars, lockVars, pubVars
<1>1. UNCHANGED <<count, todo, buf, delivered, closed>>
  BY DEF Subscribe
<1>2. StatusOf(s) = "none" /\ StatusOf(s)' = "open"
  BY DEF IInv, TypeOK, FreshIds, Subscribed, Subscribe, StatusOf
<1>3. \A t \in Subscribers \ {s} : StatusOf(t)' = StatusOf(t)
  BY DEF IInv, TypeOK, Subscribe, StatusOf
<1>4. \A i \in DOMAIN subscribers : subscribers'[i] = subscribers[i]
  BY DEF IInv, TypeOK, Subscribe
<1>5. \A p \in Publishers : DueTo(p)' = DueTo(p)
  BY <1>1, <1>4 DEF IInv, TypeOK, DueTo
<1>6. Due' = Due
  BY <1>5 DEF Due
<1>7. Status[s] = "none" /\ Status' = [Status EXCEPT ![s] = "open"]
  BY <1>2, <1>3 DEF Status
<1> QED
  BY <1>1, <1>6, <1>7 DEF Feed!Join, Status, Due, DueTo

LEMMA UnsubscribeIsLeave ==
  ASSUME IInv, NEW s \in Subscribers, Unsubscribe(s)
  PROVE  Feed!Leave(s) \/ UNCHANGED FeedState
<1> USE DEF mapVars, chanVars, lockVars, pubVars
<1>1. UNCHANGED <<count, todo, buf, delivered, idOf>> /\ \A p \in Publishers : todo[p] = {}
  BY LockExcludesLoops DEF Unsubscribe
<1>2. \A t \in Subscribers : sub'[t] \in {"new", "subscribing"} <=> sub[t] \in {"new", "subscribing"}
  BY DEF IInv, TypeOK, Unsubscribe
<1>3. CASE idOf[s] \in DOMAIN subscribers
  <2>1. closed' = [closed EXCEPT ![s] = TRUE]
    BY <1>3 DEF Unsubscribe
  <2>2. Live(s)
    <3>1. PICK t \in Subscribers : t = subscribers[idOf[s]]
      BY <1>3 DEF IInv, TypeOK
    <3>2. idOf[t] = idOf[s] /\ Live(t)
      BY <1>3, <3>1 DEF IInv, MapIsLive
    <3>3. Subscribed(s) /\ Subscribed(t)
      BY <3>2 DEF Unsubscribe, Subscribed, Live
    <3> QED
      BY <3>2, <3>3 DEF IInv, FreshIds
  <2>3. StatusOf(s) = "open" /\ StatusOf(s)' = "left"
    BY <2>1, <2>2, OpenIsLive DEF IInv, TypeOK, StatusOf
  <2>4. \A t \in Subscribers \ {s} : StatusOf(t)' = StatusOf(t)
    BY <1>2, <2>1 DEF IInv, TypeOK, StatusOf
  <2>5. Status[s] = "open" /\ Status' = [Status EXCEPT ![s] = "left"]
    BY <2>3, <2>4 DEF Status
  <2>6. \A p \in Publishers : DueTo(p) = {} /\ DueTo(p)' = {}
    BY <1>1 DEF DueTo
  <2>7. Due' = [p \in Publishers |-> Due[p] \ {s}]
    BY <2>6 DEF Due
  <2> QED
    BY <1>1, <2>5, <2>7 DEF Feed!Leave, Status, Due, DueTo
<1>4. CASE idOf[s] \notin DOMAIN subscribers
  <2>1. closed' = closed /\ subscribers' = subscribers
    BY <1>4 DEF Unsubscribe
  <2>2. \A t \in Subscribers : StatusOf(t)' = StatusOf(t)
    BY <1>2, <2>1 DEF StatusOf
  <2> QED
    BY <1>1, <2>1, <2>2, FeedStutters
<1> QED
  BY <1>3, <1>4

LEMMA ReceiveIsTake ==
  ASSUME IInv, NEW s \in Subscribers, Receive(s)
  PROVE  Feed!Take(s)
<1> USE DEF mapVars, chanVars, lockVars, pubVars
<1>1. \A t \in Subscribers : StatusOf(t)' = StatusOf(t)
  BY DEF Receive, StatusOf
<1>2. Status' = Status /\ Due' = Due
  BY <1>1 DEF Status, Due, DueTo, Receive
<1> QED
  BY <1>2 DEF Receive, Feed!Take, Status, Due, DueTo

LEMMA RLockIsStart ==
  ASSUME IInv, NEW p \in Publishers, RLock(p)
  PROVE  Feed!StartPublish(p)
<1> USE DEF mapVars, chanVars, lockVars, pubVars
<1>1. todo[p] = {} /\ count[p] < MaxPublish
  BY DEF IInv, LoopUnderLock, RLock
<1>2. \A t \in Subscribers : StatusOf(t)' = StatusOf(t)
  BY DEF RLock, StatusOf
<1>3. Status' = Status
  BY <1>2 DEF Status
<1>4. DueTo(p) = {}
  BY <1>1 DEF DueTo
<1>5. DueTo(p)' = {s \in Subscribers : Status[s] = "open"}
  <2>1. DueTo(p)' = {subscribers[i] : i \in DOMAIN subscribers}
    BY DEF IInv, TypeOK, RLock, DueTo
  <2>2. \A s \in Subscribers :
          Status[s] = "open" <=> \E i \in DOMAIN subscribers : subscribers[i] = s
    BY OpenIsLive DEF IInv, MapIsLive, Status
  <2>3. \A i \in DOMAIN subscribers : subscribers[i] \in Subscribers
    BY DEF IInv, TypeOK
  <2> QED
    BY <2>1, <2>2, <2>3
<1>6. \A q \in Publishers \ {p} : DueTo(q)' = DueTo(q)
  BY DEF IInv, TypeOK, RLock, DueTo
<1>7. Due[p] = {} /\ Due' = [Due EXCEPT ![p] = {s \in Subscribers : Status[s] = "open"}]
  BY <1>4, <1>5, <1>6 DEF Due
<1> QED
  BY <1>1, <1>3, <1>7 DEF RLock, Feed!StartPublish, Status, Due, DueTo

LEMMA SendIsOffer ==
  ASSUME IInv, NEW p \in Publishers, NEW i \in todo[p], Send(p, i)
  PROVE  \E s \in Subscribers : Feed!Offer(p, s)
<1> USE DEF mapVars, chanVars, lockVars, pubVars
<1>1. PICK t \in Subscribers : t = subscribers[i]
  BY DEF IInv, TypeOK
<1>2. /\ UNCHANGED <<subscribers, sub, closed, count, delivered>>
      /\ todo' = [todo EXCEPT ![p] = @ \ {i}]
      /\ buf' = IF Len(buf[t]) < BufSize
                THEN [buf EXCEPT ![t] = Append(@, [pub |-> p, seq |-> count[p]])]
                ELSE buf
  BY <1>1 DEF Send, HasRoom
<1>3. Status' = Status
  BY <1>2 DEF Status, StatusOf
<1>4. t \in DueTo(p)
  BY <1>1 DEF DueTo
<1>5. DueTo(p)' = DueTo(p) \ {t}
  <2>1. todo'[p] = todo[p] \ {i}
    BY <1>2 DEF IInv, TypeOK
  <2>2. \A j \in todo[p] : subscribers[j] = t <=> j = i
    BY <1>1, MapIsInjective DEF IInv, TypeOK
  <2> QED
    BY <1>2, <2>1, <2>2 DEF DueTo
<1>6. \A q \in Publishers \ {p} : DueTo(q)' = DueTo(q)
  BY <1>2 DEF IInv, TypeOK, DueTo
<1>7. t \in Due[p] /\ Due' = [Due EXCEPT ![p] = @ \ {t}]
  BY <1>4, <1>5, <1>6 DEF Due
<1>8. Feed!Offer(p, t)
  BY <1>2, <1>3, <1>7 DEF Feed!Offer, Status, Due, DueTo
<1> QED
  BY <1>8

LEMMA NextIsFeedNext == IInv /\ [Next]_vars => [Feed!FeedNext]_FeedState
<1> SUFFICES ASSUME IInv, [Next]_vars PROVE Feed!FeedNext \/ UNCHANGED FeedState
  OBVIOUS
<1> USE DEF mapVars, chanVars, lockVars, pubVars
<1>1. ASSUME NEW s \in Subscribers,
             CallSubscribe(s) \/ CallUnsubscribe(s) \/ AcquireLock(s)
      PROVE  UNCHANGED FeedState
  <2>1. \A t \in Subscribers : StatusOf(t)' = StatusOf(t)
    BY <1>1 DEF IInv, TypeOK, StatusOf, CallSubscribe, CallUnsubscribe, AcquireLock
  <2>2. UNCHANGED <<subscribers, todo, count, buf, delivered>>
    BY <1>1 DEF CallSubscribe, CallUnsubscribe, AcquireLock
  <2> QED
    BY <2>1, <2>2, FeedStutters
<1>2. ASSUME NEW s \in Subscribers, Subscribe(s) \/ Unsubscribe(s) \/ Receive(s)
      PROVE  Feed!FeedNext \/ UNCHANGED FeedState
  BY <1>2, SubscribeIsJoin, UnsubscribeIsLeave, ReceiveIsTake DEF Feed!FeedNext
<1>3. ASSUME NEW p \in Publishers, CallPublish(p) \/ RUnlock(p)
      PROVE  UNCHANGED FeedState
  <2>1. \A t \in Subscribers : StatusOf(t)' = StatusOf(t)
    BY <1>3 DEF StatusOf, CallPublish, RUnlock
  <2>2. UNCHANGED <<subscribers, todo, count, buf, delivered>>
    BY <1>3 DEF CallPublish, RUnlock
  <2> QED
    BY <2>1, <2>2, FeedStutters
<1>4. ASSUME NEW p \in Publishers, RLock(p) PROVE Feed!FeedNext
  BY <1>4, RLockIsStart DEF Feed!FeedNext
<1>5. ASSUME NEW p \in Publishers, NEW i \in todo[p], Send(p, i) PROVE Feed!FeedNext
  BY <1>5, SendIsOffer DEF Feed!FeedNext
<1>6. CASE UNCHANGED vars
  <2>1. \A t \in Subscribers : StatusOf(t)' = StatusOf(t)
    BY <1>6 DEF vars, StatusOf
  <2> QED
    BY <1>6, <2>1, FeedStutters DEF vars
<1> QED
  BY <1>1, <1>2, <1>3, <1>4, <1>5, <1>6 DEF Next

(* The broker, with its lock, its ids and its map, is a lossy first-in     *)
(* first-out feed per subscription that offers each event once to every    *)
(* subscription open for the whole publish.                                *)
THEOREM ImplementsFeed == Spec => FeedSafety
<1>1. Feed!FeedInit /\ [][Feed!FeedNext]_FeedState => Feed!FeedSafety
  BY DEF Feed!FeedSafety, Feed!feedVars, FeedState, Status, Due, DueTo
<1>2. Safety => []IInv
  BY IInvHolds
<1>3. Safety => Feed!FeedInit /\ [][Feed!FeedNext]_FeedState
  BY <1>2, FeedInitHolds, NextIsFeedNext, PTL DEF Safety
<1> QED
  BY <1>1, <1>3, PTL DEF Spec, FeedSafety

=============================================================================
