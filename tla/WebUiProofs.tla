------------------------------- MODULE WebUiProofs -------------------------------
(***************************************************************************)
(* Proofs about WebUi, for any number of events, connections and replays   *)
(* and any filter.                                                         *)
(*                                                                         *)
(* What the page shows depends on what is under way: the events still in a *)
(* stream, a frame that is due, an answer that is out.  The inductive      *)
(* invariant follows them:                                                 *)
(*   Connected   one stream is live, or none and its timer is set;         *)
(*   InSequence  the events of the page and then those in the inbox of the *)
(*               live stream are in the order of capture;                  *)
(*   Drawn       the table has no row that was never in events, and is     *)
(*               current unless a frame is due;                            *)
(*   Selected,   the selection, also under a closed panel, is what the     *)
(*   Replaying   panel shows and what the last replay is of, if its output *)
(*               is open.                                                  *)
(***************************************************************************)
EXTENDS WebUi, FiniteSetTheorems, SequenceTheorems, TLAPS

LiveStates == {"connecting", "open", "subscribed"}
Increasing(seq) == \A i, j \in DOMAIN seq : i < j => seq[i] < seq[j]
UpTo(seq, n) == \A i \in DOMAIN seq : seq[i] \in 1..n

Connected ==
  /\ stream \in [Streams -> LiveStates \cup {"none", "closed"}]
  /\ \/ timers = 1 /\ Live = {}
     \/ timers = 0 /\ \E s \in Streams : Live = {s}

InSequence ==
  /\ captured \in 0..MaxEvents
  /\ events \in Seq(Nat) /\ Increasing(events) /\ UpTo(events, captured)
  /\ inbox \in [Streams -> Seq(Nat)]
  /\ Len(events) <= captured
  /\ \A s \in Streams :
       /\ inbox[s] # <<>> => stream[s] = "subscribed"
       /\ Len(events) + Len(inbox[s]) <= captured
       /\ Increasing(inbox[s]) /\ UpTo(inbox[s], captured)
       /\ \A i \in DOMAIN events, j \in DOMAIN inbox[s] : events[i] < inbox[s][j]

Drawn ==
  /\ DOMAIN table.rows \subseteq 1..captured
  /\ viewMode \in {"events", "stats"}
  /\ TableIsCurrent

Selected ==
  /\ selectedIdx \in 0..captured
  /\ detail \in [open : BOOLEAN, event : Nat]
  /\ detail.open => selectedIdx # 0
  /\ (selectedIdx # 0 /\ ~strayed) =>
       selectedIdx \in DOMAIN events /\ detail.event = events[selectedIdx]

Replaying ==
  /\ replays \in Seq(Nat)
  /\ output \in [open : BOOLEAN, replay : Nat]
  /\ output.replay <= Len(replays) /\ inFlight \subseteq 1..Len(replays)
  /\ (output.open /\ selectedIdx # 0 /\ ~strayed) =>
       replays # <<>> /\ replays[Len(replays)] = detail.event

Inv == Connected /\ InSequence /\ Drawn /\ Selected /\ Replaying

-------------------------------------------------------------------------------
(* Increasing sequences *)

(* What append keeps of a list of events. *)
LEMMA AppendKeeps ==
  ASSUME NEW seq \in Seq(Nat), NEW n \in Nat
  PROVE  /\ Append(seq, n) \in Seq(Nat)
         /\ \A i \in DOMAIN seq : i \in DOMAIN Append(seq, n) /\ Append(seq, n)[i] = seq[i]
<1>1. Append(seq, n) \in Seq(Nat) /\ Len(Append(seq, n)) = Len(seq) + 1
      /\ \A i \in 1..Len(seq) : Append(seq, n)[i] = seq[i]
  BY AppendProperties
<1>2. Len(seq) \in Nat /\ DOMAIN seq = 1..Len(seq)
      /\ DOMAIN Append(seq, n) = 1..(Len(seq) + 1)
  BY <1>1, LenProperties
<1> QED BY <1>1, <1>2

LEMMA AppendIncreasing ==
  ASSUME NEW seq \in Seq(Nat), NEW n \in Nat, Increasing(seq), \A i \in DOMAIN seq : seq[i] < n
  PROVE  /\ Append(seq, n) \in Seq(Nat) /\ Len(Append(seq, n)) = Len(seq) + 1
         /\ Increasing(Append(seq, n))
         /\ \A i \in DOMAIN Append(seq, n) : Append(seq, n)[i] = n \/ i \in DOMAIN seq
         /\ \A i \in DOMAIN seq : Append(seq, n)[i] = seq[i]
<1> DEFINE longer == Append(seq, n)
<1>1. /\ longer \in Seq(Nat) /\ Len(longer) = Len(seq) + 1 /\ longer[Len(seq) + 1] = n
      /\ \A i \in 1..Len(seq) : longer[i] = seq[i]
  BY AppendProperties
<1>2. Len(seq) \in Nat /\ DOMAIN seq = 1..Len(seq) /\ DOMAIN longer = 1..(Len(seq) + 1)
  BY <1>1, LenProperties
<1>3. \A i \in 1..Len(seq) : seq[i] \in Nat
  BY ElementOfSeq
<1> HIDE DEF longer
<1>4. ASSUME NEW i \in DOMAIN longer, NEW j \in DOMAIN longer, i < j
      PROVE  longer[i] < longer[j]
  <2>1. CASE j = Len(seq) + 1
    <3>1. i \in 1..Len(seq)
      BY <1>2, <1>4, <2>1
    <3> QED BY <1>1, <1>2, <2>1, <3>1
  <2>2. CASE j # Len(seq) + 1
    <3>1. i \in 1..Len(seq) /\ j \in 1..Len(seq)
      BY <1>2, <1>4, <2>2
    <3> QED BY <1>1, <1>2, <1>4, <3>1 DEF Increasing
  <2> QED BY <2>1, <2>2
<1>5. \A i \in DOMAIN longer : longer[i] = n \/ i \in DOMAIN seq
  <2>1. \A i \in DOMAIN longer : i = Len(seq) + 1 \/ i \in DOMAIN seq
    BY <1>2
  <2> QED BY <1>1, <2>1
<1> QED BY <1>1, <1>2, <1>4, <1>5 DEF longer, Increasing

LEMMA TailIncreasing ==
  ASSUME NEW seq \in Seq(Nat), seq # <<>>, Increasing(seq)
  PROVE  /\ Tail(seq) \in Seq(Nat) /\ Len(Tail(seq)) = Len(seq) - 1
         /\ Increasing(Tail(seq))
         /\ 1 \in DOMAIN seq /\ Head(seq) = seq[1] /\ Head(seq) \in Nat
         /\ \A i \in DOMAIN Tail(seq) :
              i + 1 \in DOMAIN seq /\ Tail(seq)[i] = seq[i + 1] /\ Head(seq) < Tail(seq)[i]
<1> DEFINE rest == Tail(seq)
<1>1. rest \in Seq(Nat) /\ Len(rest) = Len(seq) - 1 /\ \A i \in 1..Len(rest) : rest[i] = seq[i + 1]
  BY HeadTailProperties
<1>2. /\ Len(seq) \in Nat \ {0} /\ DOMAIN seq = 1..Len(seq) /\ DOMAIN rest = 1..(Len(seq) - 1)
      /\ 1 \in DOMAIN seq
  BY <1>1, LenProperties, EmptySeq
<1>3. Head(seq) = seq[1] /\ Head(seq) \in Nat
  BY HeadTailProperties
<1> HIDE DEF rest
<1>4. ASSUME NEW i \in DOMAIN rest
      PROVE  i + 1 \in DOMAIN seq /\ rest[i] = seq[i + 1] /\ 1 < i + 1 /\ i \in Int
  BY <1>1, <1>2
<1>5. \A i \in DOMAIN rest : Head(seq) < rest[i]
  BY <1>2, <1>3, <1>4 DEF Increasing
<1>6. Increasing(rest)
  <2> SUFFICES ASSUME NEW i \in DOMAIN rest, NEW j \in DOMAIN rest, i < j
               PROVE  rest[i] < rest[j]
    BY DEF Increasing
  <2>1. i + 1 < j + 1
    BY <1>4
  <2> QED BY <1>4, <2>1 DEF Increasing
<1> QED BY <1>1, <1>2, <1>3, <1>4, <1>5, <1>6 DEF rest

-------------------------------------------------------------------------------
(* The stream *)

LEMMA ConnectedStep == ASSUME Inv, [Next]_vars PROVE Connected'
<1> USE DEF vars, sseVars, replayVars
<1>1. Connected
  BY DEF Inv
<1>2. ASSUME UNCHANGED <<stream, timers>> PROVE Connected'
  BY <1>1, <1>2 DEF Connected, Live
<1>3. ASSUME NEW s \in Streams, Reconnect(s) PROVE Connected'
  <2>1. timers = 1 /\ Live = {} /\ timers' = 0 /\ stream' = [stream EXCEPT ![s] = "connecting"]
    BY <1>1, <1>3 DEF Connected, Reconnect
  <2>2. stream' \in [Streams -> LiveStates \cup {"none", "closed"}]
    BY <1>1, <2>1 DEF Connected, LiveStates
  <2>3. Live' = {s}
    BY <1>1, <2>1 DEF Connected, Live
  <2> QED BY <2>1, <2>2, <2>3 DEF Connected
<1>4. ASSUME NEW s \in Streams, Open(s) \/ Subscribe(s) PROVE Connected'
  <2>1. /\ timers' = timers /\ stream[s] \in LiveStates
        /\ \E to \in LiveStates : stream' = [stream EXCEPT ![s] = to]
    BY <1>4 DEF Open, Subscribe, LiveStates
  <2>2. stream' \in [Streams -> LiveStates \cup {"none", "closed"}]
    BY <1>1, <2>1 DEF Connected
  <2>3. Live' = Live
    BY <1>1, <2>1 DEF Connected, Live, LiveStates
  <2> QED BY <1>1, <2>1, <2>2, <2>3 DEF Connected
<1>5. ASSUME NEW s \in Streams, OnError(s) PROVE Connected'
  <2>1. /\ s \in Live /\ timers' = timers + 1 /\ stream' = [stream EXCEPT ![s] = "closed"]
    BY <1>5 DEF OnError, Live
  <2>2. timers = 0 /\ Live = {s}
    BY <1>1, <2>1 DEF Connected
  <2>3. stream' \in [Streams -> LiveStates \cup {"none", "closed"}]
    BY <1>1, <2>1 DEF Connected
  <2>4. Live' = {}
    BY <1>1, <2>1, <2>2 DEF Connected, Live
  <2> QED BY <2>1, <2>2, <2>3, <2>4 DEF Connected
<1>6. CASE Publish \/ Frame \/ \E s \in Streams : OnMessage(s)
  BY <1>2, <1>6 DEF Publish, Frame, OnMessage
<1>7. CASE User \/ (\E r \in inFlight : Answer(r)) \/ UNCHANGED vars
  BY <1>2, <1>7 DEF User, SelectRow, SetFilter, TogglePause, ClearEvents, Replay, SwitchView, Answer
<1> QED BY <1>3, <1>4, <1>5, <1>6, <1>7 DEF Next, Connection

(* No two streams have something on its way at once. *)
LEMMA OneInbox ==
  ASSUME Connected, InSequence, NEW s \in Streams, NEW t \in Streams,
         inbox[s] # <<>>, inbox[t] # <<>>
  PROVE  s = t
<1>1. s \in Live /\ t \in Live
  BY DEF InSequence, Live
<1> QED BY <1>1 DEF Connected

LEMMA InSequenceStep == ASSUME Inv, [Next]_vars PROVE InSequence'
<1> USE DEF vars, sseVars, replayVars
<1>1. InSequence /\ Connected
  BY DEF Inv
<1>2. captured \in Nat /\ MaxEvents \in Nat
  BY <1>1, WebUiAssumption DEF InSequence
<1>3. ASSUME UNCHANGED <<captured, events, inbox>>,
             \A s \in Streams : inbox[s] # <<>> => stream'[s] = "subscribed"
      PROVE  InSequence'
  BY <1>1, <1>3 DEF InSequence, Increasing, UpTo
<1>4. ASSUME NEW s \in Streams, Reconnect(s) \/ Open(s) \/ Subscribe(s) PROVE InSequence'
  <2>1. /\ UNCHANGED <<captured, events, inbox>>
        /\ \E to \in LiveStates : stream' = [stream EXCEPT ![s] = to]
        /\ stream[s] # "subscribed"
    BY <1>4 DEF Reconnect, Open, Subscribe, LiveStates
  <2>2. \A t \in Streams : inbox[t] # <<>> => t # s /\ stream[t] = "subscribed"
    BY <1>1, <2>1 DEF InSequence
  <2>3. \A t \in Streams : t # s => stream'[t] = stream[t]
    BY <1>1, <2>1 DEF Connected
  <2> QED BY <1>3, <2>1, <2>2, <2>3
<1>5. ASSUME NEW s \in Streams, OnError(s) PROVE InSequence'
  <2>1. /\ UNCHANGED <<captured, events>>
        /\ stream' = [stream EXCEPT ![s] = "closed"] /\ inbox' = [inbox EXCEPT ![s] = <<>>]
    BY <1>5 DEF OnError
  <2>2. inbox' \in [Streams -> Seq(Nat)] /\ inbox'[s] = <<>>
        /\ \A t \in Streams : t # s => inbox'[t] = inbox[t] /\ stream'[t] = stream[t]
    BY <1>1, <2>1 DEF InSequence, Connected
  <2>3. ASSUME NEW t \in Streams
        PROVE  /\ inbox'[t] # <<>> => stream'[t] = "subscribed"
               /\ Len(events) + Len(inbox'[t]) <= captured
               /\ Increasing(inbox'[t]) /\ UpTo(inbox'[t], captured)
               /\ \A i \in DOMAIN events, j \in DOMAIN inbox'[t] : events[i] < inbox'[t][j]
    <3>1. CASE t = s
      <4>1. inbox'[t] = <<>> /\ DOMAIN <<>> = {} /\ Len(<<>>) = 0
        BY <2>2, <3>1
      <4>2. Len(events) \in Nat /\ Len(events) <= captured
        BY <1>1 DEF InSequence
      <4> QED BY <4>1, <4>2, <1>2 DEF Increasing, UpTo
    <3>2. CASE t # s
      BY <1>1, <2>2, <3>2 DEF InSequence
    <3> QED BY <3>1, <3>2
  <2> QED BY <1>1, <2>1, <2>2, <2>3 DEF InSequence, Increasing, UpTo
<1>6. CASE Publish
  <2>1. PICK got \in SUBSET {s \in Streams : stream[s] = "subscribed"} :
          inbox' = [s \in Streams |-> IF s \in got THEN Append(inbox[s], captured') ELSE inbox[s]]
    BY <1>6 DEF Publish
  <2>2. /\ captured' = captured + 1 /\ captured' \in 0..MaxEvents /\ captured' \in Nat
        /\ events' = events /\ stream' = stream
    BY <1>1, <1>2, <1>6 DEF Publish, InSequence
  <2>3. /\ UpTo(events, captured') /\ Len(events) <= captured'
        /\ \A i \in DOMAIN events : events[i] < captured'
    BY <1>1, <1>2, <2>2 DEF InSequence, UpTo
  <2>4. ASSUME NEW t \in Streams
        PROVE  /\ inbox'[t] \in Seq(Nat)
               /\ inbox'[t] # <<>> => stream'[t] = "subscribed"
               /\ Len(events) + Len(inbox'[t]) <= captured'
               /\ Increasing(inbox'[t]) /\ UpTo(inbox'[t], captured')
               /\ \A i \in DOMAIN events, j \in DOMAIN inbox'[t] : events[i] < inbox'[t][j]
    <3>1. /\ inbox[t] \in Seq(Nat) /\ Increasing(inbox[t])
          /\ \A i \in DOMAIN inbox[t] : inbox[t][i] \in 1..captured
          /\ Len(events) \in Nat /\ Len(inbox[t]) \in Nat
          /\ Len(events) + Len(inbox[t]) <= captured
          /\ \A i \in DOMAIN events, j \in DOMAIN inbox[t] : events[i] < inbox[t][j]
      BY <1>1 DEF InSequence, UpTo
    <3>2. \A i \in DOMAIN inbox[t] : inbox[t][i] < captured'
      BY <1>2, <2>2, <3>1
    <3>3. CASE t \in got
      <4> DEFINE longer == Append(inbox[t], captured')
      <4>1. inbox'[t] = longer /\ stream'[t] = "subscribed"
        BY <2>1, <2>2, <3>3
      <4>2. /\ longer \in Seq(Nat) /\ Len(longer) = Len(inbox[t]) + 1
            /\ Increasing(longer)
            /\ \A i \in DOMAIN longer : longer[i] = captured' \/ i \in DOMAIN inbox[t]
            /\ \A i \in DOMAIN inbox[t] : longer[i] = inbox[t][i]
        BY <2>2, <3>1, <3>2, AppendIncreasing
      <4> HIDE DEF longer
      <4>3. \A i \in DOMAIN longer : longer[i] = captured' \/ longer[i] \in 1..captured
        BY <3>1, <4>2
      <4>4. UpTo(longer, captured')
        BY <1>2, <2>2, <4>3 DEF UpTo
      <4>5. \A i \in DOMAIN events, j \in DOMAIN longer : events[i] < longer[j]
        BY <2>3, <3>1, <4>2
      <4>6. Len(events) + Len(longer) <= captured'
        BY <1>2, <2>2, <3>1, <4>2
      <4> QED BY <4>1, <4>2, <4>4, <4>5, <4>6
    <3>4. CASE t \notin got
      <4>1. inbox'[t] = inbox[t] /\ stream'[t] = stream[t]
        BY <2>1, <2>2, <3>4
      <4>2. UpTo(inbox[t], captured') /\ Len(events) + Len(inbox[t]) <= captured'
        BY <1>2, <2>2, <3>1 DEF UpTo
      <4> QED BY <1>1, <3>1, <4>1, <4>2 DEF InSequence
    <3> QED BY <3>3, <3>4
  <2>5. inbox' \in [Streams -> Seq(Nat)]
    <3>1. DOMAIN inbox' = Streams /\ inbox' = [t \in Streams |-> inbox'[t]]
      BY <2>1
    <3> QED BY <2>4, <3>1
  <2> QED BY <1>1, <2>2, <2>3, <2>4, <2>5 DEF InSequence, Increasing, UpTo
<1>7. ASSUME NEW s \in Streams, OnMessage(s) PROVE InSequence'
  <2>1. /\ inbox[s] # <<>> /\ inbox' = [inbox EXCEPT ![s] = Tail(inbox[s])]
        /\ events' = events \/ events' = Append(events, Head(inbox[s]))
        /\ UNCHANGED <<captured, stream>>
    BY <1>7 DEF OnMessage
  <2>2. /\ inbox[s] \in Seq(Nat) /\ Increasing(inbox[s]) /\ UpTo(inbox[s], captured)
        /\ stream[s] = "subscribed"
        /\ Len(events) + Len(inbox[s]) <= captured
        /\ \A i \in DOMAIN events, j \in DOMAIN inbox[s] : events[i] < inbox[s][j]
    BY <1>1, <2>1 DEF InSequence
  <2>3. /\ events \in Seq(Nat) /\ Increasing(events) /\ UpTo(events, captured)
        /\ Len(events) <= captured /\ Len(events) \in Nat /\ Len(inbox[s]) \in Nat \ {0}
    BY <1>1, <2>1, <2>2, EmptySeq DEF InSequence
  <2> DEFINE rest == Tail(inbox[s])
             next == Head(inbox[s])
             longer == Append(events, next)
  <2>4. /\ rest \in Seq(Nat) /\ Len(rest) = Len(inbox[s]) - 1 /\ Increasing(rest)
        /\ 1 \in DOMAIN inbox[s] /\ next = inbox[s][1] /\ next \in Nat
        /\ \A i \in DOMAIN rest :
             i + 1 \in DOMAIN inbox[s] /\ rest[i] = inbox[s][i + 1] /\ next < rest[i]
    BY <2>1, <2>2, TailIncreasing
  <2>5. \A i \in DOMAIN events : events[i] < next
    BY <2>2, <2>4
  <2>6. /\ longer \in Seq(Nat) /\ Len(longer) = Len(events) + 1 /\ Increasing(longer)
        /\ \A i \in DOMAIN longer : longer[i] = next \/ i \in DOMAIN events
        /\ \A i \in DOMAIN events : longer[i] = events[i]
    BY <2>3, <2>4, <2>5, AppendIncreasing
  <2>7. inbox' \in [Streams -> Seq(Nat)] /\ inbox'[s] = rest
        /\ \A t \in Streams : t # s => inbox'[t] = <<>>
    <3>1. inbox' = [inbox EXCEPT ![s] = rest] /\ inbox \in [Streams -> Seq(Nat)]
      BY <1>1, <2>1 DEF InSequence
    <3>2. \A t \in Streams : t # s => inbox[t] = <<>>
      BY <1>1, <2>1, OneInbox
    <3> QED BY <2>4, <3>1, <3>2
  <2> HIDE DEF rest, next, longer
  <2>8. events' = events \/ events' = longer
    BY <2>1 DEF longer, next
  <2>9. next \in 1..captured /\ \A i \in DOMAIN rest : rest[i] \in 1..captured
    BY <2>2, <2>4 DEF UpTo
  <2>10. /\ events' \in Seq(Nat) /\ Increasing(events') /\ UpTo(events', captured)
         /\ Len(events') \in Nat /\ Len(events') <= captured
         /\ Len(events') + Len(rest) <= captured
         /\ \A i \in DOMAIN events', j \in DOMAIN rest : events'[i] < rest[j]
    <3>1. \A i \in DOMAIN longer : longer[i] \in 1..captured
      BY <2>3, <2>6, <2>9 DEF UpTo
    <3>2. Len(rest) \in Nat /\ Len(longer) + Len(rest) <= captured /\ Len(longer) \in Nat
          /\ Len(events) + Len(rest) <= captured /\ Len(longer) <= captured
      <4>1. \A e \in Nat, n \in Nat \ {0}, c \in Nat :
              e + n <= c => /\ n - 1 \in Nat /\ (e + 1) + (n - 1) <= c /\ e + 1 \in Nat
                            /\ e + (n - 1) <= c /\ e + 1 <= c
        OBVIOUS
      <4>2. Len(events) + Len(inbox[s]) <= captured
        BY <2>2
      <4>3. Len(events) \in Nat /\ Len(inbox[s]) \in Nat \ {0}
        BY <2>3
      <4>4. Len(rest) = Len(inbox[s]) - 1 /\ Len(longer) = Len(events) + 1
        BY <2>4, <2>6
      <4> QED BY ONLY <1>2, <4>1, <4>2, <4>3, <4>4
    <3>3. \A i \in DOMAIN events, j \in DOMAIN rest : events[i] < rest[j]
      BY <2>2, <2>4
    <3>4. \A i \in DOMAIN longer, j \in DOMAIN rest : longer[i] < rest[j]
      BY <2>4, <2>6, <3>3
    <3>5. CASE events' = events
      BY <2>3, <3>2, <3>3, <3>5
    <3>6. CASE events' = longer
      BY <2>6, <3>1, <3>2, <3>4, <3>6 DEF UpTo
    <3> QED BY <2>8, <3>5, <3>6
  <2>11. ASSUME NEW t \in Streams
         PROVE  /\ inbox'[t] # <<>> => stream[t] = "subscribed"
                /\ Len(events') + Len(inbox'[t]) <= captured
                /\ Increasing(inbox'[t]) /\ UpTo(inbox'[t], captured)
                /\ \A i \in DOMAIN events', j \in DOMAIN inbox'[t] : events'[i] < inbox'[t][j]
    <3>1. CASE t = s
      BY <2>2, <2>4, <2>7, <2>9, <2>10, <3>1 DEF UpTo
    <3>2. CASE t # s
      <4>1. inbox'[t] = <<>> /\ DOMAIN <<>> = {} /\ Len(<<>>) = 0
        BY <2>7, <3>2
      <4> QED BY <1>2, <2>10, <4>1 DEF Increasing, UpTo
    <3> QED BY <3>1, <3>2
  <2> QED BY <1>1, <2>1, <2>7, <2>10, <2>11 DEF InSequence, Increasing, UpTo
<1>8. CASE ClearEvents
  <2>1. UNCHANGED <<captured, stream, inbox>> /\ events' = <<>>
    BY <1>8 DEF ClearEvents
  <2>2. DOMAIN <<>> = {} /\ Len(<<>>) = 0 /\ <<>> \in Seq(Nat)
    OBVIOUS
  <2>3. /\ events' \in Seq(Nat) /\ Increasing(events') /\ UpTo(events', captured')
        /\ Len(events') <= captured'
    BY <1>2, <2>1, <2>2 DEF Increasing, UpTo
  <2>4. ASSUME NEW s \in Streams
        PROVE  Len(events') + Len(inbox[s]) <= captured
    <3>1. /\ inbox[s] \in Seq(Nat) /\ Len(events) + Len(inbox[s]) <= captured
          /\ Len(events) \in Nat /\ Len(inbox[s]) \in Nat
      BY <1>1 DEF InSequence
    <3> QED BY <1>2, <2>1, <2>2, <3>1
  <2> QED BY <1>1, <2>1, <2>2, <2>3, <2>4 DEF InSequence, Increasing, UpTo
<1>9. CASE \E idx \in DOMAIN table.rows : SelectRow(idx)
  <2>1. UNCHANGED <<captured, stream, inbox, events>>
    BY <1>9 DEF SelectRow
  <2> QED BY <1>1, <1>3, <2>1 DEF InSequence
<1>10. CASE Replay
  <2>1. UNCHANGED <<captured, stream, inbox, events>>
    BY <1>10 DEF Replay
  <2> QED BY <1>1, <1>3, <2>1 DEF InSequence
<1>11. CASE \/ Frame \/ SetFilter \/ TogglePause \/ UNCHANGED vars
            \/ \E mode \in {"events", "stats"} : SwitchView(mode)
            \/ \E r \in inFlight : Answer(r)
  <2>1. UNCHANGED <<captured, stream, inbox, events>>
    BY <1>11 DEF Frame, SetFilter, TogglePause, SwitchView, Answer
  <2> QED BY <1>1, <1>3, <2>1 DEF InSequence
<1> QED BY <1>4, <1>5, <1>6, <1>7, <1>8, <1>9, <1>10, <1>11 DEF Next, Connection, User

-------------------------------------------------------------------------------
(* The table, the selection and the replays *)

LEMMA RowsAreEvents ==
  ASSUME NEW evs, NEW filtered, NEW selected
  PROVE  DOMAIN Table(evs, filtered, selected).rows \subseteq DOMAIN evs
BY DEF Table

(* What the index of an event may be. *)
LEMMA Indices ==
  ASSUME InSequence
  PROVE  /\ captured \in Nat /\ captured <= MaxEvents /\ events \in Seq(Nat)
         /\ DOMAIN events = 1..Len(events) /\ DOMAIN events \subseteq 1..captured
<1>1. captured \in Nat /\ captured <= MaxEvents
  BY WebUiAssumption DEF InSequence
<1>2. events \in Seq(Nat) /\ Len(events) <= captured
  BY DEF InSequence
<1>3. Len(events) \in Nat /\ DOMAIN events = 1..Len(events)
  BY <1>2, LenProperties
<1> QED BY <1>1, <1>2, <1>3

LEMMA DrawnStep == ASSUME Inv, [Next]_vars PROVE Drawn'
<1> USE DEF vars, sseVars, replayVars
<1>1. Drawn /\ InSequence
  BY DEF Inv
<1>2. /\ captured \in Nat /\ DOMAIN events \subseteq 1..captured
      /\ DOMAIN table.rows \subseteq 1..captured
  BY <1>1, Indices DEF Drawn
<1>3. ASSUME UNCHANGED <<events, filterText, selectedIdx, viewMode, renderPending, table>>,
             captured' = captured \/ captured' = captured + 1
      PROVE  Drawn'
  <2>1. 1..captured \subseteq 1..captured'
    BY <1>2, <1>3
  <2>2. DOMAIN table'.rows \subseteq 1..captured'
    BY <1>2, <1>3, <2>1
  <2>3. TableIsCurrent'
    BY <1>1, <1>3 DEF Drawn, TableIsCurrent, Table
  <2> QED BY <1>1, <1>3, <2>2, <2>3 DEF Drawn
<1>4. ASSUME renderPending' = TRUE, captured' = captured, table' = table,
             viewMode' \in {"events", "stats"}
      PROVE  Drawn'
  BY <1>2, <1>4 DEF Drawn, TableIsCurrent
<1>5. CASE Frame
  <2>1. UNCHANGED <<captured, events, filterText, selectedIdx, viewMode>>
    BY <1>5 DEF Frame
  <2>2. CASE viewMode = "events"
    <3>1. table' = Table(events, filterText, selectedIdx)
      BY <1>5, <2>2 DEF Frame
    <3>2. DOMAIN table'.rows \subseteq 1..captured
      BY <1>2, <3>1, RowsAreEvents
    <3>3. TableIsCurrent'
      BY <2>1, <3>1 DEF TableIsCurrent, Table
    <3> QED BY <1>1, <2>1, <3>2, <3>3 DEF Drawn
  <2>3. CASE viewMode # "events"
    <3>1. table' = table
      BY <1>5, <2>3 DEF Frame
    <3> QED BY <1>1, <1>2, <2>1, <2>3, <3>1 DEF Drawn, TableIsCurrent
  <2> QED BY <2>2, <2>3
<1>6. ASSUME NEW idx \in DOMAIN table.rows, SelectRow(idx) PROVE Drawn'
  <2>1. UNCHANGED <<captured, events, filterText, viewMode, renderPending>> /\ viewMode = "events"
    BY <1>6 DEF SelectRow
  <2>2. CASE table' = Table(events, filterText, selectedIdx')
    <3>1. DOMAIN table'.rows \subseteq 1..captured
      BY <1>2, <2>2, RowsAreEvents
    <3>2. TableIsCurrent'
      BY <2>1, <2>2 DEF TableIsCurrent, Table
    <3> QED BY <1>1, <2>1, <3>1, <3>2 DEF Drawn
  <2>3. CASE idx \notin DOMAIN events /\ table' = table
    <3>1. table # Table(events, filterText, selectedIdx)
      BY <1>6, <2>3, RowsAreEvents
    <3>2. renderPending
      BY <1>1, <2>1, <3>1 DEF Drawn, TableIsCurrent
    <3>3. TableIsCurrent'
      BY <2>1, <3>2 DEF TableIsCurrent
    <3> QED BY <1>1, <1>2, <2>1, <2>3, <3>3 DEF Drawn
  <2>4. \/ table' = Table(events, filterText, selectedIdx')
        \/ idx \notin DOMAIN events /\ table' = table
    BY <1>6 DEF SelectRow
  <2> QED BY <2>2, <2>3, <2>4
<1>7. ASSUME NEW s \in Streams, OnMessage(s) PROVE Drawn'
  <2>1. UNCHANGED <<captured, filterText, selectedIdx, viewMode, table>>
    BY <1>7 DEF OnMessage
  <2>2. CASE paused
    <3>1. events' = events /\ renderPending' = renderPending
      BY <1>7, <2>2 DEF OnMessage
    <3> QED BY <1>3, <2>1, <3>1
  <2>3. CASE ~paused
    <3>1. renderPending' = TRUE
      BY <1>7, <2>3 DEF OnMessage
    <3> QED BY <1>1, <1>4, <2>1, <3>1 DEF Drawn
  <2> QED BY <2>2, <2>3
<1>8. CASE SetFilter \/ TogglePause \/ ClearEvents
  BY <1>1, <1>4, <1>8 DEF SetFilter, TogglePause, ClearEvents, Drawn
<1>9. CASE \E mode \in {"events", "stats"} : SwitchView(mode)
  BY <1>4, <1>9 DEF SwitchView
<1>10. CASE Replay
  <2>1. UNCHANGED <<events, filterText, selectedIdx, viewMode, renderPending, table, captured>>
    BY <1>10 DEF Replay
  <2> QED BY <1>3, <2>1
<1>11. CASE Connection \/ Publish
  <2>1. /\ UNCHANGED <<events, filterText, selectedIdx, viewMode, renderPending, table>>
        /\ captured' = captured \/ captured' = captured + 1
    BY <1>11 DEF Connection, Reconnect, Open, Subscribe, Publish
  <2> QED BY <1>3, <2>1
<1>12. CASE (\E s \in Streams : OnError(s)) \/ (\E r \in inFlight : Answer(r)) \/ UNCHANGED vars
  <2>1. UNCHANGED <<events, filterText, selectedIdx, viewMode, renderPending, table, captured>>
    BY <1>12 DEF OnError, Answer
  <2> QED BY <1>3, <2>1
<1> QED BY <1>5, <1>6, <1>7, <1>8, <1>9, <1>10, <1>11, <1>12 DEF Next, User

LEMMA SelectedStep == ASSUME Inv, [Next]_vars PROVE Selected'
<1> USE DEF vars, sseVars, replayVars
<1>1. Selected /\ Drawn /\ InSequence
  BY DEF Inv
<1>2. /\ captured \in Nat /\ events \in Seq(Nat) /\ DOMAIN events = 1..Len(events)
      /\ DOMAIN events \subseteq 1..captured /\ DOMAIN table.rows \subseteq 1..captured
  BY <1>1, Indices DEF Drawn
<1>3. ASSUME UNCHANGED <<selectedIdx, detail, strayed>>,
             \A i \in DOMAIN events : i \in DOMAIN events' /\ events'[i] = events[i],
             captured' = captured \/ captured' = captured + 1
      PROVE  Selected'
  <2>1. 0..captured \subseteq 0..captured'
    BY <1>2, <1>3
  <2>2. selectedIdx' \in 0..captured'
    BY <1>1, <1>3, <2>1 DEF Selected
  <2> QED BY <1>1, <1>3, <2>2 DEF Selected
<1>4. ASSUME NEW idx \in DOMAIN table.rows, SelectRow(idx) PROVE Selected'
  <2>1. captured' = captured /\ events' = events
    BY <1>4 DEF SelectRow
  <2>2. CASE selectedIdx = idx
    <3>1. selectedIdx' = 0 /\ detail' = [detail EXCEPT !.open = FALSE]
      BY <1>4, <2>2 DEF SelectRow
    <3>2. detail' \in [open : BOOLEAN, event : Nat] /\ ~detail'.open
      BY <1>1, <3>1 DEF Selected
    <3> QED BY <1>2, <2>1, <3>1, <3>2 DEF Selected
  <2>3. CASE selectedIdx # idx
    <3>1. selectedIdx' = idx /\ idx \in 1..captured
      BY <1>2, <1>4, <2>3 DEF SelectRow
    <3>2. selectedIdx' \in 0..captured' /\ selectedIdx' # 0
      BY <1>2, <2>1, <3>1
    <3>3. CASE idx \in DOMAIN events
      <4>1. detail' = [open |-> TRUE, event |-> events[idx]]
        BY <1>4, <2>3, <3>3 DEF SelectRow
      <4>2. events[idx] \in Nat
        BY <1>2, <3>3, ElementOfSeq
      <4>3. detail' \in [open : BOOLEAN, event : Nat] /\ detail'.event = events[idx]
        BY <4>1, <4>2
      <4> QED BY <2>1, <3>1, <3>2, <3>3, <4>3 DEF Selected
    <3>4. CASE idx \notin DOMAIN events
      <4>1. strayed' = TRUE /\ detail' = detail
        BY <1>4, <2>3, <3>4 DEF SelectRow
      <4> QED BY <1>1, <3>2, <4>1 DEF Selected
    <3> QED BY <3>3, <3>4
  <2> QED BY <2>2, <2>3
<1>5. CASE ClearEvents
  <2>1. selectedIdx' = 0 /\ detail' = [detail EXCEPT !.open = FALSE] /\ captured' = captured
    BY <1>5 DEF ClearEvents
  <2>2. detail' \in [open : BOOLEAN, event : Nat] /\ ~detail'.open
    BY <1>1, <2>1 DEF Selected
  <2> QED BY <1>2, <2>1, <2>2 DEF Selected
<1>6. ASSUME NEW mode, SwitchView(mode) PROVE Selected'
  <2>1. /\ detail' = [detail EXCEPT !.open = (mode = "events" /\ selectedIdx # 0)]
        /\ UNCHANGED <<captured, events, selectedIdx, strayed>>
    BY <1>6 DEF SwitchView
  <2>2. detail \in [open : BOOLEAN, event : Nat]
    BY <1>1 DEF Selected
  <2>3. PICK open \in BOOLEAN : open = (mode = "events" /\ selectedIdx # 0)
    OBVIOUS
  <2>4. /\ detail' \in [open : BOOLEAN, event : Nat] /\ detail'.event = detail.event
        /\ detail'.open = open
    BY <2>1, <2>2, <2>3
  <2>5. detail'.open => selectedIdx # 0
    BY <2>3, <2>4
  <2> QED BY <1>1, <2>1, <2>4, <2>5 DEF Selected
<1>7. ASSUME NEW s \in Streams, OnMessage(s) PROVE Selected'
  <2>1. /\ UNCHANGED <<captured, selectedIdx, detail, strayed>>
        /\ events' = events \/ events' = Append(events, Head(inbox[s]))
    BY <1>7 DEF OnMessage
  <2>2. \A i \in DOMAIN events : i \in DOMAIN events' /\ events'[i] = events[i]
    <3>1. CASE events' = events
      BY <3>1
    <3>2. CASE events' = Append(events, Head(inbox[s]))
      <4>1. Head(inbox[s]) \in Nat
        <5>1. inbox[s] \in Seq(Nat) /\ inbox[s] # <<>>
          BY <1>1, <1>7 DEF OnMessage, InSequence
        <5> QED BY <5>1, HeadTailProperties
      <4>2. events' \in Seq(Nat) /\ \A i \in DOMAIN events : i \in DOMAIN events' /\ events'[i] = events[i]
        <5>1. events \in Seq(Nat)
          BY <1>2
        <5> QED BY ONLY <3>2, <4>1, <5>1, AppendKeeps
      <4> QED BY <4>2
    <3> QED BY <2>1, <3>1, <3>2
  <2> QED BY <1>3, <2>1, <2>2
<1>8. CASE Connection \/ Publish \/ (\E s \in Streams : OnError(s))
  <2>1. /\ UNCHANGED <<events, selectedIdx, detail, strayed>>
        /\ captured' = captured \/ captured' = captured + 1
    BY <1>8 DEF Connection, Reconnect, Open, Subscribe, Publish, OnError
  <2> QED BY <1>3, <2>1
<1>9. CASE Replay
  <2>1. UNCHANGED <<captured, events, selectedIdx, detail, strayed>>
    BY <1>9 DEF Replay
  <2> QED BY <1>3, <2>1
<1>10. CASE SetFilter \/ TogglePause \/ Frame \/ (\E r \in inFlight : Answer(r)) \/ UNCHANGED vars
  <2>1. UNCHANGED <<captured, events, selectedIdx, detail, strayed>>
    BY <1>10 DEF SetFilter, TogglePause, Frame, Answer
  <2> QED BY <1>3, <2>1
<1> QED BY <1>4, <1>5, <1>6, <1>7, <1>8, <1>9, <1>10 DEF Next, User

LEMMA ReplayingStep == ASSUME Inv, [Next]_vars PROVE Replaying'
<1> USE DEF vars, sseVars, replayVars
<1>1. Replaying /\ Selected /\ InSequence
  BY DEF Inv
<1>2. /\ replays \in Seq(Nat) /\ Len(replays) \in Nat
      /\ output \in [open : BOOLEAN, replay : Nat] /\ output.replay <= Len(replays)
      /\ inFlight \subseteq 1..Len(replays)
  BY <1>1, LenProperties DEF Replaying
<1>3. ASSUME UNCHANGED replayVars,
             (output.open /\ selectedIdx' # 0 /\ ~strayed') =>
               selectedIdx # 0 /\ ~strayed /\ detail'.event = detail.event
      PROVE  Replaying'
  BY <1>1, <1>3 DEF Replaying
<1>4. ASSUME NEW idx \in DOMAIN table.rows, SelectRow(idx) PROVE Replaying'
  <2>1. UNCHANGED <<replays, inFlight>>
    BY <1>4 DEF SelectRow
  <2>2. CASE selectedIdx = idx
    <3>1. selectedIdx' = 0 /\ output' = output
      BY <1>4, <2>2 DEF SelectRow
    <3> QED BY <1>2, <2>1, <3>1 DEF Replaying
  <2>3. CASE selectedIdx # idx
    <3>1. CASE idx \in DOMAIN events
      <4>1. output' = [output EXCEPT !.open = FALSE]
        BY <1>4, <2>3, <3>1 DEF SelectRow
      <4>2. /\ output' \in [open : BOOLEAN, replay : Nat] /\ ~output'.open
            /\ output'.replay = output.replay
        BY <1>2, <4>1
      <4> QED BY <1>2, <2>1, <4>2 DEF Replaying
    <3>2. CASE idx \notin DOMAIN events
      <4>1. strayed' = TRUE /\ output' = output
        BY <1>4, <2>3, <3>2 DEF SelectRow
      <4> QED BY <1>2, <2>1, <4>1 DEF Replaying
    <3> QED BY <3>1, <3>2
  <2> QED BY <2>2, <2>3
<1>5. CASE Replay
  <2>1. detail.open /\ UNCHANGED <<events, selectedIdx, detail, strayed>>
    BY <1>5 DEF Replay
  <2>2. CASE selectedIdx \in DOMAIN events
    <3> DEFINE event == events[selectedIdx]
               longer == Append(replays, event)
    <3>1. /\ replays' = longer /\ inFlight' = inFlight \cup {Len(longer)}
          /\ output' = [open |-> TRUE, replay |-> Len(longer)]
      BY <1>5, <2>2 DEF Replay
    <3>2. event \in Nat
      BY <1>1, <2>2, Indices, ElementOfSeq
    <3>3. ~strayed => detail.event = event
      BY <1>1, <2>1 DEF Selected
    <3> HIDE DEF event
    <3>4. /\ longer \in Seq(Nat) /\ Len(longer) = Len(replays) + 1
          /\ longer[Len(replays) + 1] = event
      BY <1>2, <3>2, AppendProperties
    <3> HIDE DEF longer
    <3>5. longer # <<>>
      BY <1>2, <3>4
    <3>6. Len(longer) \in Nat /\ inFlight \cup {Len(longer)} \subseteq 1..Len(longer)
      <4>1. \A n \in Nat : n + 1 \in Nat /\ n + 1 \in 1..(n + 1) /\ 1..n \subseteq 1..(n + 1)
        OBVIOUS
      <4>2. Len(longer) \in Nat /\ Len(longer) \in 1..Len(longer)
        BY ONLY <1>2, <3>4, <4>1
      <4>3. inFlight \subseteq 1..Len(longer)
        BY ONLY <1>2, <3>4, <4>1
      <4> QED BY <4>2, <4>3
    <3>7. output' \in [open : BOOLEAN, replay : Nat] /\ output'.replay = Len(longer)
      BY <3>1, <3>6
    <3> QED BY <2>1, <3>1, <3>3, <3>4, <3>5, <3>6, <3>7 DEF Replaying
  <2>3. CASE selectedIdx \notin DOMAIN events
    <3>1. UNCHANGED <<replays, inFlight>> /\ output' = [open |-> TRUE, replay |-> 0]
      BY <1>5, <2>3 DEF Replay
    <3>2. strayed
      BY <1>1, <2>1, <2>3 DEF Selected
    <3>3. output' \in [open : BOOLEAN, replay : Nat] /\ output'.replay = 0
      BY <3>1
    <3> QED BY <1>2, <2>1, <3>1, <3>2, <3>3 DEF Replaying
  <2> QED BY <2>2, <2>3
<1>6. ASSUME NEW r \in inFlight, Answer(r) PROVE Replaying'
  <2>1. /\ inFlight' = inFlight \ {r} /\ output' = [output EXCEPT !.replay = r]
        /\ UNCHANGED <<replays, selectedIdx, strayed, detail>>
    BY <1>6 DEF Answer
  <2>2. r \in Nat /\ r <= Len(replays)
    BY <1>2
  <2>3. /\ output' \in [open : BOOLEAN, replay : Nat] /\ output'.replay = r
        /\ output'.open = output.open
    BY <1>2, <2>1, <2>2
  <2> QED BY <1>1, <1>2, <2>1, <2>2, <2>3 DEF Replaying
<1>7. CASE ClearEvents
  BY <1>3, <1>7 DEF ClearEvents
<1>8. ASSUME NEW mode, SwitchView(mode) PROVE Replaying'
  <2>1. /\ detail' = [detail EXCEPT !.open = (mode = "events" /\ selectedIdx # 0)]
        /\ UNCHANGED <<selectedIdx, strayed, replayVars>>
    BY <1>8 DEF SwitchView
  <2>2. detail \in [open : BOOLEAN, event : Nat]
    BY <1>1 DEF Selected
  <2>3. detail'.event = detail.event
    BY <2>1, <2>2
  <2> QED BY <1>3, <2>1, <2>3
<1>9. CASE Connection \/ Publish \/ (\E s \in Streams : OnMessage(s) \/ OnError(s))
  <2>1. UNCHANGED <<selectedIdx, detail, strayed, replayVars>>
    BY <1>9 DEF Connection, Reconnect, Open, Subscribe, Publish, OnMessage, OnError
  <2> QED BY <1>3, <2>1
<1>10. CASE SetFilter \/ TogglePause \/ Frame \/ UNCHANGED vars
  <2>1. UNCHANGED <<selectedIdx, detail, strayed, replayVars>>
    BY <1>10 DEF SetFilter, TogglePause, Frame
  <2> QED BY <1>3, <2>1
<1> QED BY <1>4, <1>5, <1>6, <1>7, <1>8, <1>9, <1>10 DEF Next, User

-------------------------------------------------------------------------------
LEMMA InitInv == ASSUME Init PROVE Inv
<1> DEFINE none == <<>>
<1>1. none \in Seq(Nat) /\ Len(none) = 0 /\ DOMAIN none = {}
  OBVIOUS
<1> HIDE DEF none
<1>2. MaxEvents \in Nat /\ 1 \in Streams
  BY WebUiAssumption DEF Streams
<1>3. Connected
  <2>1. stream \in [Streams -> LiveStates \cup {"none", "closed"}]
    BY DEF Init, LiveStates
  <2>2. Live = {1} /\ timers = 0
    BY <1>2 DEF Init, Live
  <2> QED BY <1>2, <2>1, <2>2 DEF Connected
<1>4. InSequence
  <2>1. captured = 0 /\ events = none /\ inbox = [s \in Streams |-> none]
    BY DEF Init, none
  <2>2. Increasing(none) /\ UpTo(none, 0)
    BY <1>1 DEF Increasing, UpTo
  <2>3. \A s \in Streams : inbox[s] = none
    BY <2>1
  <2>4. inbox \in [Streams -> Seq(Nat)]
    BY <1>1, <2>1
  <2>5. \A s \in Streams : inbox[s] # <<>> => stream[s] = "subscribed"
    BY <2>3 DEF none
  <2> QED BY <1>1, <1>2, <2>1, <2>2, <2>3, <2>4, <2>5 DEF InSequence
<1>5. Drawn
  <2>1. table = Table(events, filterText, selectedIdx) /\ events = none /\ viewMode = "events"
    BY DEF Init, none
  <2>2. DOMAIN table.rows = {}
    BY <1>1, <2>1, RowsAreEvents
  <2> QED BY <2>1, <2>2 DEF Drawn, TableIsCurrent
<1>6. Selected
  <2>1. selectedIdx = 0 /\ captured = 0 /\ detail = [open |-> FALSE, event |-> 0]
    BY DEF Init
  <2>2. detail \in [open : BOOLEAN, event : Nat] /\ ~detail.open
    BY <2>1
  <2> QED BY <2>1, <2>2 DEF Selected
<1>7. Replaying
  <2>1. selectedIdx = 0 /\ replays = none /\ inFlight = {} /\ output = [open |-> FALSE, replay |-> 0]
    BY DEF Init, none
  <2>2. output \in [open : BOOLEAN, replay : Nat] /\ output.replay = 0
    BY <2>1
  <2> QED BY <1>1, <2>1, <2>2 DEF Replaying
<1> QED BY <1>3, <1>4, <1>5, <1>6, <1>7 DEF Inv

(* The invariant holds of every page and server: it is there when the page *)
(* is loaded, and every handler and callback of web.go and app.js keeps it.*)
THEOREM AlwaysInv == Spec => []Inv
<1>1. Init => Inv
  BY InitInv
<1>2. Inv /\ [Next]_vars => Inv'
  BY ConnectedStep, InSequenceStep, DrawnStep, SelectedStep, ReplayingStep DEF Inv
<1> QED BY <1>1, <1>2, PTL DEF Spec

(* Whatever breaks and however often, the page has one live EventSource or *)
(* one timer of connectSSE that will make one.                             *)
THEOREM AlwaysOneConnection == Spec => []OneConnection
<1>1. Inv => OneConnection
  <2> SUFFICES ASSUME Inv PROVE OneConnection
    OBVIOUS
  <2>1. CASE timers = 1 /\ Live = {}
    BY <2>1, FS_EmptySet DEF OneConnection
  <2>2. CASE timers = 0 /\ \E s \in Streams : Live = {s}
    BY <2>2, FS_Singleton DEF OneConnection
  <2> QED BY <2>1, <2>2 DEF Inv, Connected
<1> QED BY <1>1, AlwaysInv, PTL

(* Over any number of reconnects onmessage appends events in the order of  *)
(* capture and none twice, because a stream that is closed delivers        *)
(* nothing any more.                                                       *)
THEOREM PageKeepsOrder == Spec => []PageInOrder
<1>1. Inv => PageInOrder
  BY DEF Inv, InSequence, Increasing, PageInOrder
<1> QED BY <1>1, AlwaysInv, PTL

(* render() is asked for by every handler that changes what the table      *)
(* shows, so that only a frame that is due lies between them.              *)
THEOREM TableFollows == Spec => []TableIsCurrent
<1>1. Inv => TableIsCurrent
  BY DEF Inv, Drawn
<1> QED BY <1>1, AlwaysInv, PTL

(* The panel that selectRow opened, and that switchView opens again, shows *)
(* the event that replayRequest and the copy buttons act on, unless a row  *)
(* was clicked that is no longer in events.                                *)
THEOREM PanelFollows == Spec => []PanelShowsSelection
<1>1. Inv => PanelShowsSelection
  BY DEF Inv, Selected, PanelShowsSelection
<1> QED BY <1>1, AlwaysInv, PTL

(* The output of a replay is closed with the selection it was about, so    *)
(* that the answer to the last replay is shown under its own event.        *)
THEOREM OutputFollows == Spec => []ReplayOutputFits
<1>1. Inv => ReplayOutputFits
  <2> SUFFICES ASSUME Inv, detail.open, output.open, output.replay = Len(replays), ~strayed
               PROVE  replays[output.replay] = detail.event
    BY DEF ReplayOutputFits
  <2>1. selectedIdx # 0
    BY DEF Inv, Selected
  <2> QED BY <2>1 DEF Inv, Replaying
<1> QED BY <1>1, AlwaysInv, PTL

(* The counters and indices of the page stay in range: the page never has  *)
(* more events than were captured, and only a stream that is subscribed    *)
(* has any on the way.                                                     *)
THEOREM TypeCorrect == Spec => []TypeOK
<1>1. Inv => TypeOK
  <2> SUFFICES ASSUME Inv PROVE TypeOK
    OBVIOUS
  <2>1. captured \in Nat /\ captured <= MaxEvents /\ captured \in 0..MaxEvents
    BY Indices DEF Inv, InSequence
  <2>2. timers \in Nat
    BY DEF Inv, Connected
  <2>3. selectedIdx \in 0..MaxEvents
    BY <2>1, WebUiAssumption DEF Inv, Selected
  <2>4. output.replay \in 0..Len(replays)
    <3>1. output \in [open : BOOLEAN, replay : Nat] /\ output.replay <= Len(replays)
          /\ Len(replays) \in Nat
      BY LenProperties DEF Inv, Replaying
    <3> QED BY <3>1
  <2> QED BY <2>1, <2>2, <2>3, <2>4 DEF Inv, InSequence, Drawn, Replaying, TypeOK
<1> QED BY <1>1, AlwaysInv, PTL

===============================================================================
