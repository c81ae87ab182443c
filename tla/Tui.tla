---------------------------------- MODULE Tui ----------------------------------
(***************************************************************************)
(* tui/model.go: the Bubble Tea model of the terminal UI.                  *)
(*                                                                         *)
(* Update handles one message at a time: a key, an event from the Watch    *)
(* stream, or the result of a command (a replay, an export, a tick), each  *)
(* of which arrives when it likes.  The editor of "edit & resend" and the  *)
(* Replay call after it run inside the event loop (tea.ExecProcess), so    *)
(* nothing is handled meanwhile; the event of the replay comes over the    *)
(* stream and its answer as a message, in either order.                    *)
(*                                                                         *)
(* Abstractions: a search query is its length, and an event matches the    *)
(* queries up to its reach, since typing one more rune never matches more. *)
(* Scrolling of the inspector, the order of the analytics rows and, but    *)
(* for the rows that are on the screen, all rendering are left out.        *)
(***************************************************************************)
EXTENDS Integers, Sequences, FiniteSets

CONSTANTS
  Kinds,      \* what the UI tells apart in an event
  Half,       \* half a page: max(listHeight/2, 1)
  MaxQuery,   \* bound: runes in a query
  MaxEvents,  \* bound: events
  MaxReplays, \* bound: replays
  MaxAlerts   \* bound: alerts

ASSUME TuiAssumption ==
  /\ MaxQuery \in Nat /\ MaxEvents \in Nat /\ MaxReplays \in Nat /\ MaxAlerts \in Nat
  /\ Half \in Nat \ {0}
  /\ Kinds \subseteq [reach : 0..MaxQuery, failed : BOOLEAN, duration : Nat, endpoint : Nat]

VARIABLES
  link,          \* "connecting", "watching", "lost" or "quit"
  err,           \* m.err is set
  events,        \* m.events; an event also has the number of its replay, or 0
  displayRows,   \* m.displayRows, indices into events from 1
  cursor,        \* m.cursor, from 0
  follow, view,
  searchMode, searchQuery, sortMode, filterErrors, writeMode,
  replayEventID, \* m.replayEventID: the number of a replay, or 0
  analyticsRows, \* number of rows of the analytics view
  analyticsCursor,
  alertMessage,  \* an alert is shown
  alertSeq,
  ticks,         \* sequence numbers of the clearAlertMsg to come
  editing,       \* the editor or the Replay call holds the event loop
  replays,       \* replays started
  owed,          \* replays whose event is still to come over the stream
  answers,       \* replays whose answer is still to be handled; 0 is an error
  exporting      \* indices of the events an export in progress writes, or NoExport

listVars == <<displayRows, cursor, follow>>
modeVars == <<searchMode, searchQuery, sortMode, filterErrors, writeMode>>
analyticsVars == <<analyticsRows, analyticsCursor>>
alertVars == <<alertMessage, alertSeq, ticks>>
replayVars == <<editing, replays, owed, answers, replayEventID>>
netVars == <<link, err, events>>
vars == <<netVars, listVars, view, modeVars, analyticsVars, alertVars, replayVars, exporting>>

NoExport == {0}
Lesser(a, b) == IF a < b THEN a ELSE b
Larger(a, b) == IF a > b THEN a ELSE b

(* The zero value of Model, and nothing in flight. *)
Init ==
  /\ link = "connecting"
  /\ err = FALSE /\ events = <<>>
  /\ displayRows = <<>> /\ cursor = 0 /\ follow = FALSE /\ view = "list"
  /\ searchMode = FALSE /\ searchQuery = 0
  /\ sortMode = "chronological" /\ filterErrors = FALSE /\ writeMode = FALSE
  /\ analyticsRows = 0 /\ analyticsCursor = 0
  /\ alertMessage = FALSE /\ alertSeq = 0 /\ ticks = {}
  /\ editing = FALSE /\ replays = 0 /\ owed = {} /\ answers = {} /\ replayEventID = 0
  /\ exporting = NoExport

-------------------------------------------------------------------------------
(* rebuildDisplayRows and its users *)

Matching(evs, query, errorsOnly) ==
  {i \in 1..Len(evs) : query <= evs[i].reach /\ (errorsOnly => evs[i].failed)}

(* sort.Slice is not stable: rows of the same duration come in any order. *)
Before(evs, mode, i, j) ==
  IF mode = "duration" THEN evs[i].duration >= evs[j].duration ELSE i < j

Rebuilt(evs, query, errorsOnly, mode) ==
  LET rows == Matching(evs, query, errorsOnly) IN
  {s \in [1..Cardinality(rows) -> rows] :
     \A i, j \in 1..Cardinality(rows) : i < j => s[i] # s[j] /\ Before(evs, mode, s[i], s[j])}

LastRow(rows) == Larger(Len(rows) - 1, 0)
Clamped(rows) == Lesser(cursor, LastRow(rows))

(* cursorEvent(), as an index into events, or 0 for nil. *)
CursorEvent == IF cursor + 1 \in 1..Len(displayRows) THEN displayRows[cursor + 1] ELSE 0

(* The query, the error filter or the sort mode has been set: rebuild and  *)
(* clamp the cursor.                                                       *)
Refilter ==
  \E rows \in Rebuilt(events, searchQuery', filterErrors', sortMode') :
    displayRows' = rows /\ cursor' = Clamped(rows)

(* The window stays at the end of the list. *)
WindowStartAtEnd(n, at, height) == Larger(n - height, 0)

(* The first row on the screen of a list of n rows with the cursor at one  *)
(* of them and room for height rows.                                       *)
WindowStart(n, at, height) ==
  IF n <= height THEN 0 ELSE Lesser(Larger(at - height \div 2, 0), n - height)

-------------------------------------------------------------------------------
(* Messages of the stream *)

Handling == link # "quit" /\ ~editing

Numbered(kind, r) ==
  [reach |-> kind.reach, failed |-> kind.failed, duration |-> kind.duration,
   endpoint |-> kind.endpoint, replay |-> r]

Connect ==
  /\ link = "connecting" /\ Handling
  /\ \/ link' = "watching" /\ err' = err
     \/ link' = "lost" /\ err' = TRUE
  /\ UNCHANGED <<events, listVars, view, modeVars, analyticsVars, alertVars, replayVars, exporting>>

(* errMsg: recvEvent is not called again. *)
StreamEnds ==
  /\ link = "watching" /\ Handling
  /\ link' = "lost" /\ err' = TRUE
  /\ UNCHANGED <<events, listVars, view, modeVars, analyticsVars, alertVars, replayVars, exporting>>

(* Every arrival rebuilds the rows, in every view. *)
EventMsgRebuilds(kind, r) ==
  /\ link = "watching" /\ Handling
  /\ Len(events) < MaxEvents
  /\ r \in owed \cup {0}
  /\ events' = Append(events, Numbered(kind, r))
  /\ owed' = owed \ {r}
  /\ \E rows \in Rebuilt(events', searchQuery, filterErrors, sortMode) :
       /\ displayRows' = rows
       /\ cursor' = IF (r # 0 /\ r = replayEventID) \/ follow THEN LastRow(rows) ELSE cursor
  /\ IF r # 0 /\ r = replayEventID
     THEN replayEventID' = 0 /\ view' = "inspect"
     ELSE replayEventID' = replayEventID /\ view' = view
  /\ UNCHANGED <<link, err, follow, modeVars, analyticsVars, alertVars,
                 editing, replays, answers, exporting>>

(* eventMsg: an exchange of somebody else (r = 0) or of a replay.          *)
EventMsg(kind, r) ==
  /\ link = "watching" /\ Handling
  /\ Len(events) < MaxEvents
  /\ r \in owed \cup {0}
  /\ events' = Append(events, Numbered(kind, r))
  /\ owed' = owed \ {r}
  /\ IF r # 0 /\ r = replayEventID
     THEN /\ replayEventID' = 0
          /\ view' = "inspect"
          /\ \E rows \in Rebuilt(events', searchQuery, filterErrors, sortMode) :
               displayRows' = rows /\ cursor' = LastRow(rows)
     ELSE /\ UNCHANGED <<replayEventID, view>>
          /\ IF view = "list"
             THEN \E rows \in Rebuilt(events', searchQuery, filterErrors, sortMode) :
                    /\ displayRows' = rows
                    /\ cursor' = IF follow THEN LastRow(rows) ELSE cursor
             ELSE UNCHANGED <<displayRows, cursor>>
  /\ UNCHANGED <<link, err, follow, modeVars, analyticsVars, alertVars,
                 editing, replays, answers, exporting>>

-------------------------------------------------------------------------------
(* Keys.  Every key takes the alert away first. *)

Key(v) ==
  /\ Handling /\ view = v
  /\ alertMessage' = FALSE /\ UNCHANGED <<alertSeq, ticks>>

ListKey == Key("list") /\ ~writeMode /\ ~searchMode

(* "q" in the list, ctrl+c everywhere but in write mode: the process ends  *)
(* and its state with it.                                                  *)
Quit ==
  /\ Handling
  /\ view # "list" \/ ~writeMode
  /\ link' = "quit"
  /\ err' = FALSE /\ events' = <<>>
  /\ displayRows' = <<>> /\ cursor' = 0 /\ follow' = FALSE /\ view' = "list"
  /\ searchMode' = FALSE /\ searchQuery' = 0
  /\ sortMode' = "chronological" /\ filterErrors' = FALSE /\ writeMode' = FALSE
  /\ analyticsRows' = 0 /\ analyticsCursor' = 0
  /\ alertMessage' = FALSE /\ alertSeq' = 0 /\ ticks' = {}
  /\ editing' = FALSE /\ replays' = 0 /\ owed' = {} /\ answers' = {} /\ replayEventID' = 0
  /\ exporting' = NoExport

(* A key that means nothing where it is pressed, or only scrolls: it still *)
(* takes an alert away.                                                    *)
OtherKey ==
  /\ \/ Key("analytics") \/ Key("inspect")
     \/ Key("list") /\ ~writeMode
  /\ alertMessage
  /\ UNCHANGED <<netVars, listVars, view, modeVars, analyticsVars, replayVars, exporting>>

Inspect ==
  /\ ListKey /\ Len(displayRows) > 0
  /\ view' = "inspect"
  /\ UNCHANGED <<netVars, listVars, modeVars, analyticsVars, replayVars, exporting>>

(* "/" empties the query and leaves the rows as they are. *)
StartSearch ==
  /\ ListKey
  /\ searchMode' = TRUE /\ searchQuery' = 0
  /\ UNCHANGED <<netVars, listVars, view, sortMode, filterErrors, writeMode,
                 analyticsVars, replayVars, exporting>>

ToggleErrors ==
  /\ ListKey
  /\ filterErrors' = ~filterErrors
  /\ UNCHANGED <<searchMode, searchQuery, sortMode, writeMode>>
  /\ Refilter
  /\ UNCHANGED <<netVars, follow, view, analyticsVars, replayVars, exporting>>

ToggleSort ==
  /\ ListKey
  /\ IF sortMode = "chronological"
     THEN sortMode' = "duration" /\ follow' = FALSE
     ELSE sortMode' = "chronological" /\ follow' = follow
  /\ displayRows' \in Rebuilt(events, searchQuery, filterErrors, sortMode')
  /\ cursor' = 0
  /\ UNCHANGED <<netVars, view, searchMode, searchQuery, filterErrors, writeMode,
                 analyticsVars, replayVars, exporting>>

ClearFilter ==
  /\ ListKey
  /\ searchQuery' = 0
  /\ UNCHANGED <<searchMode, sortMode, filterErrors, writeMode>>
  /\ IF searchQuery # 0 THEN Refilter ELSE UNCHANGED <<displayRows, cursor>>
  /\ UNCHANGED <<netVars, follow, view, analyticsVars, replayVars, exporting>>

(* j and ctrl+d: reaching the last row starts following. *)
Down(n) ==
  /\ ListKey
  /\ cursor' = Lesser(cursor + n, LastRow(displayRows))
  /\ follow' = IF Len(displayRows) > 0 /\ cursor' = Len(displayRows) - 1 THEN TRUE ELSE follow
  /\ UNCHANGED <<netVars, displayRows, view, modeVars, analyticsVars, replayVars, exporting>>

Up ==
  /\ ListKey
  /\ IF cursor > 0
     THEN cursor' = cursor - 1 /\ follow' = FALSE
     ELSE UNCHANGED <<cursor, follow>>
  /\ UNCHANGED <<netVars, displayRows, view, modeVars, analyticsVars, replayVars, exporting>>

(* ctrl+u without the lower bound. *)
PageUpUnbounded ==
  /\ ListKey
  /\ cursor' = cursor - Half
  /\ follow' = FALSE
  /\ UNCHANGED <<netVars, displayRows, view, modeVars, analyticsVars, replayVars, exporting>>

PageUp ==
  /\ ListKey
  /\ cursor' = Larger(cursor - Half, 0)
  /\ follow' = FALSE
  /\ UNCHANGED <<netVars, displayRows, view, modeVars, analyticsVars, replayVars, exporting>>

-------------------------------------------------------------------------------
(* updateSearch *)

SearchKey == Key("list") /\ ~writeMode /\ searchMode

(* Accepting the query leaves the rows as they are. *)
SearchEnter ==
  /\ SearchKey
  /\ searchMode' = FALSE
  /\ UNCHANGED <<netVars, listVars, view, searchQuery, sortMode, filterErrors, writeMode,
                 analyticsVars, replayVars, exporting>>

SearchEsc ==
  /\ SearchKey
  /\ searchMode' = FALSE /\ searchQuery' = 0
  /\ UNCHANGED <<sortMode, filterErrors, writeMode>>
  /\ Refilter
  /\ UNCHANGED <<netVars, follow, view, analyticsVars, replayVars, exporting>>

Backspace ==
  /\ SearchKey
  /\ searchQuery' = Larger(searchQuery - 1, 0)
  /\ UNCHANGED <<searchMode, sortMode, filterErrors, writeMode>>
  /\ IF searchQuery > 0 THEN Refilter ELSE UNCHANGED <<displayRows, cursor>>
  /\ UNCHANGED <<netVars, follow, view, analyticsVars, replayVars, exporting>>

(* The cursor stays where it is when the rows get fewer. *)
TypeUnclamped ==
  /\ SearchKey /\ searchQuery < MaxQuery
  /\ searchQuery' = searchQuery + 1
  /\ displayRows' \in Rebuilt(events, searchQuery', filterErrors, sortMode)
  /\ UNCHANGED <<netVars, cursor, follow, view, searchMode, sortMode, filterErrors, writeMode,
                 analyticsVars, replayVars, exporting>>

Type ==
  /\ SearchKey /\ searchQuery < MaxQuery
  /\ searchQuery' = searchQuery + 1
  /\ UNCHANGED <<searchMode, sortMode, filterErrors, writeMode>>
  /\ Refilter
  /\ UNCHANGED <<netVars, follow, view, analyticsVars, replayVars, exporting>>

-------------------------------------------------------------------------------
(* The inspector and the analytics view *)

(* "q" only changes the view. *)
BackUnbuilt ==
  /\ Key("inspect") \/ Key("analytics")
  /\ view' = "list"
  /\ UNCHANGED <<netVars, listVars, modeVars, analyticsVars, replayVars, exporting>>

(* "q" in either view. *)
Back ==
  /\ Key("inspect") \/ Key("analytics")
  /\ view' = "list"
  /\ \E rows \in Rebuilt(events, searchQuery, filterErrors, sortMode) :
       /\ displayRows' = rows
       /\ cursor' = IF follow THEN LastRow(rows) ELSE cursor
  /\ UNCHANGED <<netVars, follow, modeVars, analyticsVars, replayVars, exporting>>

(* buildAnalyticsRows makes one row per endpoint. *)
Analytics ==
  /\ ListKey
  /\ view' = "analytics"
  /\ analyticsRows' = Cardinality({events[i].endpoint : i \in 1..Len(events)})
  /\ analyticsCursor' = 0
  /\ UNCHANGED <<netVars, listVars, modeVars, replayVars, exporting>>

AnalyticsDown(n) ==
  /\ Key("analytics")
  /\ analyticsCursor' = Lesser(analyticsCursor + n, Larger(analyticsRows - 1, 0))
  /\ UNCHANGED <<netVars, listVars, view, modeVars, analyticsRows, replayVars, exporting>>

AnalyticsUp(n) ==
  /\ Key("analytics")
  /\ analyticsCursor' = Larger(analyticsCursor - n, 0)
  /\ UNCHANGED <<netVars, listVars, view, modeVars, analyticsRows, replayVars, exporting>>

AnalyticsSort ==
  /\ Key("analytics")
  /\ analyticsCursor' = 0
  /\ UNCHANGED <<netVars, listVars, view, modeVars, analyticsRows, replayVars, exporting>>

-------------------------------------------------------------------------------
(* Alerts, export and replay *)

ShowAlert ==
  /\ alertSeq < MaxAlerts
  /\ alertSeq' = alertSeq + 1
  /\ alertMessage' = TRUE
  /\ ticks' = ticks \cup {alertSeq'}

(* "c" and "C": the alert says whether the copy worked. *)
CopyBody ==
  /\ Handling /\ view = "inspect" /\ CursorEvent # 0
  /\ ShowAlert
  /\ UNCHANGED <<netVars, listVars, view, modeVars, analyticsVars, replayVars, exporting>>

(* Any tick clears the alert. *)
ClearAnyAlert(seq) ==
  /\ Handling /\ seq \in ticks
  /\ ticks' = ticks \ {seq}
  /\ alertMessage' = FALSE
  /\ UNCHANGED <<netVars, listVars, view, modeVars, analyticsVars, alertSeq, replayVars, exporting>>

ClearAlert(seq) ==
  /\ Handling /\ seq \in ticks
  /\ ticks' = ticks \ {seq}
  /\ alertMessage' = IF seq = alertSeq THEN FALSE ELSE alertMessage
  /\ UNCHANGED <<netVars, listVars, view, modeVars, analyticsVars, alertSeq, replayVars, exporting>>

StartWrite ==
  /\ ListKey
  /\ writeMode' = TRUE
  /\ UNCHANGED <<netVars, listVars, view, searchMode, searchQuery, sortMode, filterErrors,
                 analyticsVars, replayVars, exporting>>

(* Writes what matches the query, errors or not. *)
ExportedAnyStatus == Matching(events, searchQuery, FALSE)

(* filteredExportEvents on the copies runExport makes. *)
Exported == Matching(events, searchQuery, filterErrors)

(* updateWrite: j and m export, any other key only leaves the mode. *)
Write ==
  /\ Key("list") /\ writeMode
  /\ writeMode' = FALSE
  /\ \/ exporting' = exporting
     \/ exporting = NoExport /\ exporting' = Exported
  /\ UNCHANGED <<netVars, listVars, view, searchMode, searchQuery, sortMode, filterErrors,
                 analyticsVars, replayVars>>

ExportResult ==
  /\ Handling /\ exporting # NoExport
  /\ exporting' = NoExport
  /\ ShowAlert
  /\ UNCHANGED <<netVars, listVars, view, modeVars, analyticsVars, replayVars>>

EditAndResend ==
  /\ Key("inspect") /\ CursorEvent # 0
  /\ replays < MaxReplays
  /\ editing' = TRUE /\ replays' = replays + 1
  /\ UNCHANGED <<netVars, listVars, view, modeVars, analyticsVars, owed, answers,
                 replayEventID, exporting>>

(* The editor or the call fails, or the daemon has captured the exchange   *)
(* and the call returns its event; the broker may have dropped it.         *)
ReplayDone ==
  /\ editing
  /\ editing' = FALSE
  /\ \/ answers' = answers \cup {0} /\ owed' = owed
     \/ answers' = answers \cup {replays} /\ owed' \in {owed, owed \cup {replays}}
  /\ UNCHANGED <<netVars, listVars, view, modeVars, analyticsVars, alertVars, replays,
                 replayEventID, exporting>>

ReplayResult(r) ==
  /\ Handling /\ r \in answers
  /\ answers' = answers \ {r}
  /\ IF r = 0
     THEN err' = TRUE /\ replayEventID' = replayEventID
     ELSE err' = err /\ replayEventID' = r
  /\ UNCHANGED <<link, events, listVars, view, modeVars, analyticsVars, alertVars,
                 editing, replays, owed, exporting>>

-------------------------------------------------------------------------------
ListStep ==
  \/ Inspect \/ StartSearch \/ ToggleErrors \/ ToggleSort \/ ClearFilter
  \/ Down(1) \/ Down(Half) \/ Up \/ PageUp
  \/ SearchEnter \/ SearchEsc \/ Backspace \/ Type
  \/ StartWrite \/ Write

OtherStep ==
  \/ OtherKey \/ Back \/ CopyBody \/ EditAndResend \/ Analytics \/ AnalyticsSort
  \/ \E n \in {1, Half} : AnalyticsDown(n) \/ AnalyticsUp(n)

Ended == link = "quit" /\ UNCHANGED vars

Next ==
  \/ Connect \/ StreamEnds
  \/ \E kind \in Kinds, r \in 0..MaxReplays : EventMsg(kind, r)
  \/ ListStep \/ OtherStep \/ Quit
  \/ ExportResult \/ ReplayDone
  \/ \E seq \in ticks : ClearAlert(seq)
  \/ \E r \in answers : ReplayResult(r)
  \/ Ended

Spec == Init /\ [][Next]_vars

-------------------------------------------------------------------------------
RowSet == {displayRows[i] : i \in 1..Len(displayRows)}

TypeOK ==
  /\ link \in {"connecting", "watching", "lost", "quit"} /\ err \in BOOLEAN
  /\ Len(events) <= MaxEvents
  /\ RowSet \subseteq 1..Len(events) /\ Cardinality(RowSet) = Len(displayRows)
  /\ cursor \in Nat /\ follow \in BOOLEAN
  /\ view \in {"list", "inspect", "analytics"}
  /\ searchMode \in BOOLEAN /\ searchQuery \in 0..MaxQuery
  /\ sortMode \in {"chronological", "duration"}
  /\ filterErrors \in BOOLEAN /\ writeMode \in BOOLEAN
  /\ analyticsCursor \in 0..Larger(analyticsRows - 1, 0)
  /\ alertMessage \in BOOLEAN /\ ticks \subseteq 1..alertSeq
  /\ replayEventID \in 0..replays /\ owed \subseteq 1..replays /\ answers \subseteq 0..replays

(* The cursor is on a row whenever there is one, over every sequence of    *)
(* keys, arrivals and answers: rebuilds without a clamp only ever follow   *)
(* changes that cannot take rows away.                                     *)
CursorOnRow == cursor <= LastRow(displayRows)

OnScreen(n, at, height) ==
  LET start == WindowStart(n, at, height)
  IN start >= 0 /\ at \in start..(Lesser(start + height, n) - 1)

(* The row under the cursor is on the screen and the screen within the     *)
(* list, in the list and in the analytics view, for a screen of any height *)
(* that the terminal is resized to.                                        *)
CursorVisible ==
  \A height \in 1..(MaxEvents + 1) :
    /\ displayRows # <<>> => OnScreen(Len(displayRows), cursor, height)
    /\ analyticsRows > 0 => OnScreen(analyticsRows, analyticsCursor, height)

(* While the title says "n/m requests" the n rows are those that match.    *)
TitleIsTrue ==
  (view = "list" /\ searchQuery > 0) =>
    RowSet = Matching(events, searchQuery, filterErrors)

(* Arriving traffic does not swap the event that is being inspected, which *)
(* is also the one "e" resends; only an answered replay moves the user.    *)
InspectorStays ==
  [][(view = "inspect" /\ view' = "inspect" /\ replayEventID' = replayEventID)
       => CursorEvent' = CursorEvent]_vars

(* An export writes what the list shows under a query, whatever arrives    *)
(* while it is written.                                                    *)
ExportIsList ==
  [][(searchQuery > 0 /\ exporting = NoExport /\ exporting' # NoExport)
       => exporting' = RowSet]_vars

(* An alert has a tick on its way, and of the ticks only its own takes it  *)
(* away: the tick of an older alert does not.                              *)
AlertLifetime ==
  [][/\ alertMessage => alertSeq \in ticks
     /\ (alertMessage /\ ~alertMessage' /\ ticks' # ticks) => alertSeq \in ticks \ ticks']_vars

(* "when set, navigate to this event in inspector on arrival" (model.go:63) *)
NavigatesToReplay ==
  [][\A r \in 1..MaxReplays :
       (replayEventID = r /\ replayEventID' = 0 /\ link' # "quit") =>
         /\ view' = "inspect"
         /\ CursorEvent' # 0
         /\ events'[CursorEvent'].replay = r]_vars

=============================================================================
