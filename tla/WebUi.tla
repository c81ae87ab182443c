--------------------------------- MODULE WebUi ---------------------------------
(***************************************************************************)
(* The page (web/static/app.js) and the stream that feeds it (handleSSE in *)
(* web/web.go).                                                            *)
(*                                                                         *)
(* The page is one event loop: a message of the stream, an answer to a     *)
(* fetch, a timer, an animation frame or a click is handled to its end.    *)
(* Between two of them anything may come first, so what is in the table or *)
(* in a panel may be older than what is in the variables.                  *)
(*                                                                         *)
(* An event is its number in the order of capture.  Indices count from 1,  *)
(* and 0 is the -1 of selectedIdx.  A stream carries what is on its way    *)
(* from the broker's channel to the page in its inbox.  The table of the   *)
(* stats view and its panel are left out.                                  *)
(***************************************************************************)
EXTENDS Integers, Sequences, FiniteSets

CONSTANTS
  MaxEvents,  \* bound: captured events
  MaxStreams, \* bound: connections; the last one does not break
  MaxReplays, \* bound: replays
  Matching    \* the events the filter lets through when there is one

ASSUME WebUiAssumption ==
  /\ MaxEvents \in Nat /\ MaxReplays \in Nat
  /\ MaxStreams \in Nat \ {0}
  /\ Matching \subseteq 1..MaxEvents

VARIABLES
  captured,      \* events published so far
  stream,        \* of each EventSource: "none", "connecting", "open", "subscribed", "closed"
  inbox,         \* of each: events on their way to the page
  timers,        \* pending calls of connectSSE
  events, selectedIdx, paused,
  filterText,    \* there is one
  viewMode, renderPending,
  table,         \* tbody: the events of its rows by index, and the one drawn as selected
  detail,        \* the panel: [open, event]
  output,        \* replay-output: [open, replay], the replay its text is about, or 0
  replays,       \* the events replayed, in order
  inFlight,      \* replays whose answer is still to come
  strayed        \* history: a row was clicked that is no longer in events

sseVars == <<captured, stream, inbox, timers>>
replayVars == <<output, replays, inFlight>>
vars == <<sseVars, events, selectedIdx, paused, filterText, viewMode, renderPending, table,
          detail, replayVars, strayed>>

Streams == 1..MaxStreams

(* getFiltered, and the table renderTable makes of it: the rows are in the *)
(* order of their indices.                                                 *)
Table(evs, filtered, selected) ==
  [rows |-> [i \in {j \in DOMAIN evs : filtered => evs[j] \in Matching} |-> evs[i]],
   marked |-> selected]

Init ==
  /\ captured = 0
  /\ stream = [s \in Streams |-> IF s = 1 THEN "connecting" ELSE "none"]
  /\ inbox = [s \in Streams |-> <<>>] /\ timers = 0
  /\ events = <<>> /\ selectedIdx = 0 /\ paused = FALSE /\ filterText = FALSE
  /\ viewMode = "events" /\ renderPending = FALSE /\ table = Table(<<>>, FALSE, 0)
  /\ detail = [open |-> FALSE, event |-> 0]
  /\ output = [open |-> FALSE, replay |-> 0] /\ replays = <<>> /\ inFlight = {}
  /\ strayed = FALSE

-------------------------------------------------------------------------------
(* The stream *)

(* connectSSE: at the start, and two seconds after an error. *)
Reconnect(s) ==
  /\ timers > 0 /\ stream[s] = "none"
  /\ \A t \in 1..(s - 1) : stream[t] # "none"
  /\ timers' = timers - 1
  /\ stream' = [stream EXCEPT ![s] = "connecting"]
  /\ UNCHANGED <<captured, inbox, events, selectedIdx, paused, filterText, viewMode,
                 renderPending, table, detail, replayVars, strayed>>

(* handleSSE flushes its headers: the page says "connected". *)
Open(s) ==
  /\ stream[s] = "connecting"
  /\ stream' = [stream EXCEPT ![s] = "open"]
  /\ UNCHANGED <<captured, inbox, timers, events, selectedIdx, paused, filterText, viewMode,
                 renderPending, table, detail, replayVars, strayed>>

Subscribe(s) ==
  /\ stream[s] = "open"
  /\ stream' = [stream EXCEPT ![s] = "subscribed"]
  /\ UNCHANGED <<captured, inbox, timers, events, selectedIdx, paused, filterText, viewMode,
                 renderPending, table, detail, replayVars, strayed>>

(* Every stream that is subscribed gets the event, unless its channel is   *)
(* full.                                                                   *)
Publish ==
  /\ captured < MaxEvents
  /\ captured' = captured + 1
  /\ \E got \in SUBSET {s \in Streams : stream[s] = "subscribed"} :
       inbox' = [s \in Streams |-> IF s \in got THEN Append(inbox[s], captured') ELSE inbox[s]]
  /\ UNCHANGED <<stream, timers, events, selectedIdx, paused, filterText, viewMode,
                 renderPending, table, detail, replayVars, strayed>>

(* onmessage: dropped while the page is paused. *)
OnMessage(s) ==
  /\ inbox[s] # <<>>
  /\ inbox' = [inbox EXCEPT ![s] = Tail(@)]
  /\ IF paused THEN UNCHANGED <<events, renderPending>>
     ELSE /\ events' = Append(events, Head(inbox[s]))
          /\ renderPending' = TRUE
  /\ UNCHANGED <<captured, stream, timers, selectedIdx, paused, filterText, viewMode, table,
                 detail, replayVars, strayed>>

(* Without es.close(): the EventSource reconnects by itself as well.       *)
OnErrorLeavesOpen(s) ==
  /\ s < MaxStreams /\ stream[s] \in {"connecting", "open", "subscribed"}
  /\ stream' = [stream EXCEPT ![s] = "connecting"]
  /\ inbox' = [inbox EXCEPT ![s] = <<>>]
  /\ timers' = timers + 1
  /\ UNCHANGED <<captured, events, selectedIdx, paused, filterText, viewMode,
                 renderPending, table, detail, replayVars, strayed>>

(* Messages are delivered after the stream has been closed. *)
OnErrorKeepsInbox(s) ==
  /\ s < MaxStreams /\ stream[s] \in {"connecting", "open", "subscribed"}
  /\ stream' = [stream EXCEPT ![s] = "closed"]
  /\ timers' = timers + 1
  /\ UNCHANGED <<captured, inbox, events, selectedIdx, paused, filterText, viewMode,
                 renderPending, table, detail, replayVars, strayed>>

(* Closed for good, and no timer. *)
OnErrorGivesUp(s) ==
  /\ s < MaxStreams /\ stream[s] \in {"connecting", "open", "subscribed"}
  /\ stream' = [stream EXCEPT ![s] = "closed"]
  /\ inbox' = [inbox EXCEPT ![s] = <<>>]
  /\ UNCHANGED <<captured, timers, events, selectedIdx, paused, filterText, viewMode,
                 renderPending, table, detail, replayVars, strayed>>

(* onerror: the server is not there, or the connection breaks; what was on *)
(* its way is lost.                                                        *)
OnError(s) ==
  /\ s < MaxStreams /\ stream[s] \in {"connecting", "open", "subscribed"}
  /\ stream' = [stream EXCEPT ![s] = "closed"]
  /\ inbox' = [inbox EXCEPT ![s] = <<>>]
  /\ timers' = timers + 1
  /\ UNCHANGED <<captured, events, selectedIdx, paused, filterText, viewMode,
                 renderPending, table, detail, replayVars, strayed>>

-------------------------------------------------------------------------------
(* The table *)

(* The animation frame of render(); the stats view leaves tbody alone.     *)
Frame ==
  /\ renderPending
  /\ renderPending' = FALSE
  /\ table' = IF viewMode = "events" THEN Table(events, filterText, selectedIdx) ELSE table
  /\ UNCHANGED <<sseVars, events, selectedIdx, paused, filterText, viewMode, detail,
                 replayVars, strayed>>

(* The output of a replay of the old selection stays open.                 *)
SelectRowKeepsOutput(idx) ==
  /\ viewMode = "events"
  /\ IF selectedIdx = idx THEN selectedIdx' = 0 ELSE selectedIdx' = idx
  /\ strayed' = (strayed \/ (selectedIdx' # 0 /\ idx \notin DOMAIN events))
  /\ IF selectedIdx' # 0 /\ idx \notin DOMAIN events
     THEN UNCHANGED <<detail, table>>
     ELSE /\ detail' = IF selectedIdx' = 0 THEN [detail EXCEPT !.open = FALSE]
                       ELSE [open |-> TRUE, event |-> events[idx]]
          /\ table' = Table(events, filterText, selectedIdx')
  /\ UNCHANGED <<sseVars, events, paused, filterText, viewMode, renderPending, replayVars>>

(* selectRow: a click on the selected row closes the panel.  The row may   *)
(* be an old one, and its index past the end of events: then selectedIdx   *)
(* is set and the rest throws.                                             *)
SelectRow(idx) ==
  /\ viewMode = "events"
  /\ IF selectedIdx = idx
     THEN /\ selectedIdx' = 0
          /\ detail' = [detail EXCEPT !.open = FALSE]
          /\ table' = Table(events, filterText, 0)
          /\ UNCHANGED <<output, strayed>>
     ELSE /\ selectedIdx' = idx
          /\ IF idx \in DOMAIN events
             THEN /\ detail' = [open |-> TRUE, event |-> events[idx]]
                  /\ output' = [output EXCEPT !.open = FALSE]
                  /\ table' = Table(events, filterText, idx)
                  /\ strayed' = strayed
             ELSE strayed' = TRUE /\ UNCHANGED <<detail, output, table>>
  /\ UNCHANGED <<sseVars, events, paused, filterText, viewMode, renderPending, replays, inFlight>>

-------------------------------------------------------------------------------
(* Controls *)

SetFilter ==
  /\ filterText' = ~filterText /\ renderPending' = TRUE
  /\ UNCHANGED <<sseVars, events, selectedIdx, paused, viewMode, table, detail, replayVars,
                 strayed>>

TogglePause ==
  /\ paused' = ~paused /\ renderPending' = TRUE
  /\ UNCHANGED <<sseVars, events, selectedIdx, filterText, viewMode, table, detail, replayVars,
                 strayed>>

(* The selection stays. *)
ClearEventsKeepsSelection ==
  /\ events' = <<>>
  /\ detail' = [detail EXCEPT !.open = FALSE]
  /\ renderPending' = TRUE
  /\ UNCHANGED <<sseVars, selectedIdx, paused, filterText, viewMode, table, replayVars, strayed>>

ClearEvents ==
  /\ events' = <<>> /\ selectedIdx' = 0
  /\ detail' = [detail EXCEPT !.open = FALSE]
  /\ renderPending' = TRUE
  /\ UNCHANGED <<sseVars, paused, filterText, viewMode, table, replayVars, strayed>>

(* Nothing is drawn until the next event. *)
SwitchViewUndrawn(mode) ==
  /\ viewMode' = mode
  /\ detail' = [detail EXCEPT !.open = mode = "events" /\ selectedIdx # 0]
  /\ UNCHANGED <<sseVars, events, selectedIdx, paused, filterText, renderPending, table,
                 replayVars, strayed>>

(* Back in the events view the panel opens again as it was.                *)
SwitchView(mode) ==
  /\ viewMode' = mode
  /\ detail' = [detail EXCEPT !.open = mode = "events" /\ selectedIdx # 0]
  /\ renderPending' = TRUE
  /\ UNCHANGED <<sseVars, events, selectedIdx, paused, filterText, table, replayVars, strayed>>

-------------------------------------------------------------------------------
(* Replay *)

(* replayRequest up to its await.  Without an event it fails at once.      *)
Replay ==
  /\ detail.open /\ Len(replays) < MaxReplays
  /\ IF selectedIdx \in DOMAIN events
     THEN /\ replays' = Append(replays, events[selectedIdx])
          /\ inFlight' = inFlight \cup {Len(replays')}
          /\ output' = [open |-> TRUE, replay |-> Len(replays')]
     ELSE output' = [open |-> TRUE, replay |-> 0] /\ UNCHANGED <<replays, inFlight>>
  /\ UNCHANGED <<sseVars, events, selectedIdx, paused, filterText, viewMode, renderPending,
                 table, detail, strayed>>

(* The answer, or its failure: the text is replaced whatever is selected.  *)
Answer(r) ==
  /\ r \in inFlight
  /\ inFlight' = inFlight \ {r}
  /\ output' = [output EXCEPT !.replay = r]
  /\ UNCHANGED <<sseVars, events, selectedIdx, paused, filterText, viewMode, renderPending,
                 table, detail, replays, strayed>>

-------------------------------------------------------------------------------
Connection == \E s \in Streams : Reconnect(s) \/ Open(s) \/ Subscribe(s)

User ==
  \/ \E idx \in DOMAIN table.rows : SelectRow(idx)
  \/ SetFilter \/ TogglePause \/ ClearEvents \/ Replay
  \/ \E mode \in {"events", "stats"} : SwitchView(mode)

Next ==
  \/ Connection \/ Publish \/ User \/ Frame
  \/ \E s \in Streams : OnMessage(s) \/ OnError(s)
  \/ \E r \in inFlight : Answer(r)

(* Timers fire, and the daemon that is there answers and subscribes. *)
Fairness == WF_vars(Connection)

Spec == Init /\ [][Next]_vars /\ Fairness

-------------------------------------------------------------------------------
Live == {s \in Streams : stream[s] \in {"connecting", "open", "subscribed"}}

TypeOK ==
  /\ captured \in 0..MaxEvents
  /\ \A s \in Streams : inbox[s] # <<>> => stream[s] = "subscribed"
  /\ timers \in Nat
  /\ Len(events) <= captured
  /\ selectedIdx \in 0..MaxEvents
  /\ viewMode \in {"events", "stats"}
  /\ output.replay \in 0..Len(replays) /\ inFlight \subseteq 1..Len(replays)

(* The page shows each event at most once and in the order of capture,     *)
(* whatever is dropped, paused, cleared or lost with a connection.         *)
PageInOrder == \A i, j \in DOMAIN events : i < j => events[i] < events[j]

(* There is always one connection or one timer that will make it, never    *)
(* both and never two.                                                     *)
OneConnection == Cardinality(Live) + timers = 1

(* The open panel shows the event that is selected, the one "Replay" and   *)
(* "Copy" act on, unless a row was clicked that had been cleared away.     *)
PanelShowsSelection ==
  (detail.open /\ ~strayed) =>
    selectedIdx \in DOMAIN events /\ detail.event = events[selectedIdx]

(* Open replay output is about the event in the panel, unless an answer of *)
(* an earlier replay has come in since the last one was started.           *)
ReplayOutputFits ==
  (detail.open /\ output.open /\ output.replay = Len(replays) /\ ~strayed) =>
    replays[output.replay] = detail.event

(* With no frame to come, the table is that of the events, the filter and  *)
(* the selection.                                                          *)
TableIsCurrent ==
  (viewMode = "events" /\ ~renderPending) => table = Table(events, filterText, selectedIdx)

(* After every error the page gets back to a stream that is subscribed.    *)
ComesBack ==
  \A s \in Streams :
    (stream[s] = "closed") ~> (\E t \in Streams : t > s /\ stream[t] = "subscribed")

=============================================================================
