------------------------------- MODULE TuiProofs -------------------------------
(***************************************************************************)
(* The terminal UI, for any events, keys and bounds: its cursor, its rows, *)
(* the inspector, alerts and replays.                                      *)
(*                                                                         *)
(* CursorOnRow alone is not inductive: EventMsg and Back rebuild the rows  *)
(* and leave the cursor.  That is safe because the rows on the screen are  *)
(* never more than the events that match the query and the error filter    *)
(* (RowsFit): "/" may leave fewer rows than match, and events may have     *)
(* arrived behind the inspector, but nothing takes a match away without a  *)
(* rebuild that clamps.                                                    *)
(***************************************************************************)
EXTENDS Tui, FiniteSetTheorems, FunctionTheorems, TLAPS

(* An event of any kind, of a replay or not. *)
Captured == [reach : Nat, failed : BOOLEAN, duration : Nat, endpoint : Nat, replay : Nat]

Typed ==
  /\ events \in Seq(Captured)
  /\ displayRows \in Seq(1..Len(events))
  /\ cursor \in Nat /\ searchQuery \in Nat /\ filterErrors \in BOOLEAN

Matches == Matching(events, searchQuery, filterErrors)

RowsFit == Len(displayRows) <= Cardinality(Matches)

IInv == Typed /\ RowsFit /\ CursorOnRow

(* A step that touches nothing IInv speaks of, besides the query, which    *)
(* may only lose runes.                                                    *)
Quiet ==
  /\ UNCHANGED <<events, displayRows, cursor, filterErrors>>
  /\ searchQuery' \in 0..searchQuery

(* The rows are rebuilt and the cursor is on one of them.                  *)
Rebuild ==
  \E rows \in Rebuilt(events', searchQuery', filterErrors', sortMode') :
    /\ displayRows' = rows
    /\ cursor' <= LastRow(rows) /\ cursor' \in Nat

-------------------------------------------------------------------------------
(* Matching returns a finite set of indices. *)
LEMMA MatchingFinite ==
  ASSUME NEW evs \in Seq(Captured), NEW q, NEW e
  PROVE  /\ IsFiniteSet(Matching(evs, q, e))
         /\ Cardinality(Matching(evs, q, e)) \in Nat
         /\ Matching(evs, q, e) \subseteq 1..Len(evs)
<1>1. Matching(evs, q, e) \subseteq 1..Len(evs)
  BY DEF Matching
<1>2. IsFiniteSet(1..Len(evs))
  BY FS_Interval
<1>3. IsFiniteSet(Matching(evs, q, e))
  BY <1>1, <1>2, FS_Subset
<1> QED BY <1>1, <1>3, FS_CardinalityType

(* More events and a shorter query match no less. *)
LEMMA MatchingGrows ==
  ASSUME NEW evs \in Seq(Captured), NEW more \in Seq(Captured),
         Len(evs) <= Len(more), \A i \in 1..Len(evs) : more[i] = evs[i],
         NEW q \in Nat, NEW less \in 0..q, NEW e
  PROVE  Cardinality(Matching(evs, q, e)) <= Cardinality(Matching(more, less, e))
<1>1. Matching(evs, q, e) \subseteq Matching(more, less, e)
  <2> SUFFICES ASSUME NEW i \in Matching(evs, q, e) PROVE i \in Matching(more, less, e)
    OBVIOUS
  <2>1. i \in 1..Len(evs) /\ q <= evs[i].reach /\ (e => evs[i].failed)
    BY DEF Matching
  <2>2. i \in 1..Len(more) /\ more[i] = evs[i]
    BY <2>1
  <2>3. evs[i] \in Captured
    BY <2>1
  <2>4. evs[i].reach \in Nat
    BY <2>3 DEF Captured
  <2>5. less <= more[i].reach /\ (e => more[i].failed)
    BY <2>1, <2>2, <2>4
  <2> QED BY <2>2, <2>5 DEF Matching
<1>2. IsFiniteSet(Matching(more, less, e))
  BY MatchingFinite
<1> QED BY <1>1, <1>2, FS_Subset

(* A rebuilt list has one row for each match, and shows events. *)
LEMMA RebuiltRows ==
  ASSUME NEW evs \in Seq(Captured), NEW q, NEW e, NEW mode,
         NEW rows \in Rebuilt(evs, q, e, mode)
  PROVE  /\ rows \in Seq(1..Len(evs))
         /\ Len(rows) = Cardinality(Matching(evs, q, e))
<1> DEFINE n == Cardinality(Matching(evs, q, e))
<1>1. n \in Nat /\ Matching(evs, q, e) \subseteq 1..Len(evs)
  BY MatchingFinite
<1>2. rows \in [1..n -> Matching(evs, q, e)]
  BY DEF Rebuilt
<1>3. rows \in [1..n -> 1..Len(evs)]
  BY <1>1, <1>2
<1> QED BY <1>1, <1>3

(* The last row is a natural number that grows with the rows. *)
LEMMA LastRowNat ==
  ASSUME NEW S, NEW T, NEW rows \in Seq(S), NEW more \in Seq(T), Len(rows) <= Len(more)
  PROVE  /\ LastRow(rows) \in Nat /\ LastRow(more) \in Nat
         /\ LastRow(rows) <= LastRow(more)
BY DEF LastRow, Larger

-------------------------------------------------------------------------------
(* A quiet step preserves the invariant: it may add matches, not rows. *)
LEMMA QuietStep == IInv /\ Quiet => IInv'
<1> SUFFICES ASSUME IInv, Quiet PROVE IInv'
  OBVIOUS
<1> USE DEF IInv, Quiet
<1>1. Typed'
  BY DEF Typed
<1>2. Cardinality(Matches) <= Cardinality(Matches')
  <2>1. Cardinality(Matching(events, searchQuery, filterErrors))
          <= Cardinality(Matching(events, searchQuery', filterErrors))
    BY MatchingGrows DEF Typed
  <2> QED BY <2>1 DEF Matches
<1>3. Cardinality(Matches) \in Nat /\ Cardinality(Matches') \in Nat
  BY <1>1, MatchingFinite DEF Typed, Matches
<1>4. RowsFit'
  BY <1>2, <1>3 DEF RowsFit, Typed
<1>5. CursorOnRow'
  BY DEF CursorOnRow, LastRow
<1> QED BY <1>1, <1>4, <1>5

(* So does a step that rebuilds the rows and puts the cursor on one. *)
LEMMA RebuildStep ==
  ASSUME events' \in Seq(Captured), searchQuery' \in Nat, filterErrors' \in BOOLEAN, Rebuild
  PROVE  IInv'
<1> PICK rows \in Rebuilt(events', searchQuery', filterErrors', sortMode') :
      displayRows' = rows /\ cursor' <= LastRow(rows) /\ cursor' \in Nat
  BY DEF Rebuild
<1>1. rows \in Seq(1..Len(events'))
      /\ Len(rows) = Cardinality(Matching(events', searchQuery', filterErrors'))
  BY RebuiltRows
<1>2. Typed'
  BY <1>1 DEF Typed
<1>3. RowsFit'
  BY <1>1 DEF RowsFit, Matches, Typed
<1>4. CursorOnRow'
  BY DEF CursorOnRow, LastRow
<1> QED BY <1>2, <1>3, <1>4 DEF IInv

(* Rebuilding without a clamp leaves the cursor on a row as long as no     *)
(* match is lost.                                                          *)
LEMMA CursorSurvives ==
  ASSUME IInv, events' \in Seq(Captured), Len(events) <= Len(events'),
         \A i \in 1..Len(events) : events'[i] = events[i],
         NEW rows \in Rebuilt(events', searchQuery, filterErrors, sortMode)
  PROVE  cursor <= LastRow(rows) /\ LastRow(rows) \in Nat
<1>1. rows \in Seq(1..Len(events'))
      /\ Len(rows) = Cardinality(Matching(events', searchQuery, filterErrors))
  BY RebuiltRows
<1>2. Cardinality(Matching(events, searchQuery, filterErrors))
        <= Cardinality(Matching(events', searchQuery, filterErrors))
  BY MatchingGrows DEF IInv, Typed
<1>3. Cardinality(Matching(events, searchQuery, filterErrors)) \in Nat
      /\ Cardinality(Matching(events', searchQuery, filterErrors)) \in Nat
  BY MatchingFinite DEF IInv, Typed
<1>4. Len(displayRows) <= Len(rows)
  BY <1>1, <1>2, <1>3 DEF IInv, RowsFit, Matches, Typed
<1>5. LastRow(displayRows) <= LastRow(rows) /\ LastRow(displayRows) \in Nat
      /\ LastRow(rows) \in Nat
  BY <1>1, <1>4, LastRowNat DEF IInv, Typed
<1> QED BY <1>5 DEF IInv, CursorOnRow, Typed

-------------------------------------------------------------------------------
(* The state of Init and Quit. *)
Blank ==
  events = <<>> /\ displayRows = <<>> /\ cursor = 0 /\ searchQuery = 0 /\ filterErrors = FALSE

(* It satisfies the invariant. *)
LEMMA BlankIInv == Blank => IInv
<1> SUFFICES ASSUME Blank PROVE IInv
  OBVIOUS
<1>1. /\ events \in Seq(Captured) /\ Len(displayRows) = 0
      /\ displayRows \in Seq(1..Len(events))
  BY DEF Blank
<1>2. Typed
  BY <1>1 DEF Typed, Blank
<1>3. Cardinality(Matches) \in Nat
  BY <1>1, MatchingFinite DEF Matches
<1>4. RowsFit
  BY <1>1, <1>3 DEF RowsFit
<1>5. CursorOnRow
  BY <1>1 DEF CursorOnRow, LastRow, Larger, Blank
<1> QED BY <1>2, <1>4, <1>5 DEF IInv

(* So does the initial state. *)
LEMMA InitIInv == Init => IInv
BY BlankIInv DEF Init, Blank

(* Refilter rebuilds and clamps. *)
LEMMA RefilterStep ==
  ASSUME IInv, Refilter, events' = events, searchQuery' \in Nat, filterErrors' \in BOOLEAN
  PROVE  IInv'
<1>1. PICK rows \in Rebuilt(events, searchQuery', filterErrors', sortMode') :
        displayRows' = rows /\ cursor' = Clamped(rows)
  BY DEF Refilter
<1>2. rows \in Seq(1..Len(events))
  BY RebuiltRows DEF IInv, Typed
<1>3. LastRow(rows) \in Nat
  BY <1>2, LastRowNat
<1>4. cursor' \in Nat /\ cursor' <= LastRow(rows)
  BY <1>1, <1>3 DEF Clamped, Lesser, IInv, Typed
<1>5. Rebuild
  BY <1>1, <1>4 DEF Rebuild
<1> QED BY <1>5, RebuildStep DEF IInv, Typed

(* The steps that set the cursor within the rows they find. *)
LEMMA CursorStep ==
  ASSUME IInv, UNCHANGED <<events, displayRows, searchQuery, filterErrors>>,
         cursor' \in Nat, cursor' <= LastRow(displayRows)
  PROVE  IInv'
BY DEF IInv, Typed, RowsFit, Matches, CursorOnRow, LastRow

(* Arrivals: in the list, for a replay that is waited for, and elsewhere. *)
LEMMA EventMsgStep ==
  ASSUME TuiAssumption, IInv, NEW kind \in Kinds, NEW r \in 0..MaxReplays, EventMsg(kind, r)
  PROVE  IInv'
<1>1. Numbered(kind, r) \in Captured
  BY DEF TuiAssumption, Numbered, Captured
<1>2. events' = Append(events, Numbered(kind, r)) /\ UNCHANGED <<searchQuery, filterErrors, sortMode>>
  BY DEF EventMsg, modeVars
<1>3. /\ events' \in Seq(Captured) /\ Len(events) <= Len(events')
      /\ \A i \in 1..Len(events) : events'[i] = events[i]
  BY <1>1, <1>2 DEF IInv, Typed
<1>4. CASE \E rows \in Rebuilt(events', searchQuery, filterErrors, sortMode) :
             displayRows' = rows /\ cursor' \in {LastRow(rows), cursor}
  <2>1. PICK rows \in Rebuilt(events', searchQuery, filterErrors, sortMode) :
          displayRows' = rows /\ cursor' \in {LastRow(rows), cursor}
    BY <1>4
  <2>2. cursor <= LastRow(rows) /\ LastRow(rows) \in Nat
    BY <1>3, CursorSurvives
  <2>3. Rebuild
    BY <1>2, <2>1, <2>2 DEF Rebuild, IInv, Typed
  <2> QED BY <1>2, <1>3, <2>3, RebuildStep DEF IInv, Typed
<1>5. CASE UNCHANGED <<displayRows, cursor>>
  <2>1. Typed'
    BY <1>2, <1>3, <1>5 DEF IInv, Typed
  <2>2. Cardinality(Matches) <= Cardinality(Matches')
    <3>1. Cardinality(Matching(events, searchQuery, filterErrors))
            <= Cardinality(Matching(events', searchQuery, filterErrors))
      BY <1>3, MatchingGrows DEF IInv, Typed
    <3> QED BY <1>2, <3>1 DEF Matches
  <2>3. Cardinality(Matches) \in Nat /\ Cardinality(Matches') \in Nat
    BY <2>1, MatchingFinite DEF IInv, Typed, Matches
  <2>4. RowsFit'
    BY <1>5, <2>2, <2>3 DEF IInv, RowsFit, Typed
  <2>5. CursorOnRow'
    BY <1>5 DEF IInv, CursorOnRow, LastRow
  <2> QED BY <2>1, <2>4, <2>5 DEF IInv
<1> QED BY <1>4, <1>5 DEF EventMsg

(* Back to the list, with what has arrived meanwhile. *)
LEMMA BackStep ==
  ASSUME IInv, Back
  PROVE  IInv'
<1>1. UNCHANGED <<events, searchQuery, filterErrors, sortMode>>
  BY DEF Back, netVars, modeVars
<1>2. PICK rows \in Rebuilt(events, searchQuery, filterErrors, sortMode) :
        displayRows' = rows /\ cursor' \in {LastRow(rows), cursor}
  BY DEF Back
<1>3. cursor <= LastRow(rows) /\ LastRow(rows) \in Nat
  BY <1>1, <1>2, CursorSurvives DEF IInv, Typed
<1>4. Rebuild
  BY <1>1, <1>2, <1>3 DEF Rebuild, IInv, Typed
<1> QED BY <1>1, <1>4, RebuildStep DEF IInv, Typed

(* The keys of the list and of its search line. *)
LEMMA ListStepIInv ==
  ASSUME TuiAssumption, IInv, ListStep
  PROVE  IInv'
<1> USE DEF ListKey, SearchKey
<1>1. LastRow(displayRows) \in Nat /\ cursor <= LastRow(displayRows)
  BY LastRowNat DEF IInv, Typed, CursorOnRow
<1>2. CASE Inspect \/ StartSearch \/ SearchEnter \/ StartWrite \/ Write
  BY <1>2, QuietStep DEF Inspect, StartSearch, SearchEnter, StartWrite, Write, Quiet,
       netVars, listVars, modeVars, IInv, Typed
<1>3. CASE ToggleErrors
  BY <1>3, RefilterStep DEF ToggleErrors, netVars, IInv, Typed
<1>4. CASE ToggleSort
  <2>1. PICK rows \in Rebuilt(events, searchQuery, filterErrors, sortMode') :
          displayRows' = rows /\ cursor' = 0
    BY <1>4 DEF ToggleSort
  <2>2. UNCHANGED <<events, searchQuery, filterErrors>>
    BY <1>4 DEF ToggleSort, netVars
  <2>3. 0 <= LastRow(rows)
    <3>1. rows \in Seq(1..Len(events))
      BY RebuiltRows DEF IInv, Typed
    <3> QED BY <3>1, LastRowNat
  <2>4. Rebuild
    BY <2>1, <2>2, <2>3 DEF Rebuild
  <2> QED BY <2>2, <2>4, RebuildStep DEF IInv, Typed
<1>5. CASE ClearFilter
  <2>1. events' = events /\ searchQuery' = 0 /\ filterErrors' = filterErrors
    BY <1>5 DEF ClearFilter, netVars
  <2>2. CASE searchQuery # 0
    BY <1>5, <2>1, <2>2, RefilterStep DEF ClearFilter, IInv, Typed
  <2>3. CASE searchQuery = 0
    BY <1>5, <2>1, <2>3, QuietStep DEF ClearFilter, Quiet, IInv, Typed
  <2> QED BY <2>2, <2>3
<1>6. CASE Down(1) \/ Down(Half)
  <2>1. PICK n \in Nat : Down(n)
    BY <1>6 DEF TuiAssumption
  <2>2. cursor' = Lesser(cursor + n, LastRow(displayRows))
        /\ UNCHANGED <<events, displayRows, searchQuery, filterErrors>>
    BY <2>1 DEF Down, netVars, modeVars
  <2>3. cursor' \in Nat /\ cursor' <= LastRow(displayRows)
    BY <1>1, <2>2 DEF Lesser, IInv, Typed
  <2> QED BY <2>2, <2>3, CursorStep
<1>7. CASE Up
  BY <1>1, <1>7, CursorStep DEF Up, netVars, modeVars, IInv, Typed
<1>8. CASE PageUp
  BY <1>1, <1>8, CursorStep DEF PageUp, Larger, TuiAssumption, netVars, modeVars, IInv, Typed
<1>9. CASE SearchEsc
  BY <1>9, RefilterStep DEF SearchEsc, netVars, IInv, Typed
<1>10. CASE Backspace
  <2>1. /\ events' = events /\ filterErrors' = filterErrors
        /\ searchQuery' = Larger(searchQuery - 1, 0)
    BY <1>10 DEF Backspace, netVars
  <2>2. searchQuery' \in 0..searchQuery
    BY <2>1 DEF Larger, IInv, Typed
  <2>3. CASE searchQuery > 0
    BY <1>10, <2>1, <2>2, <2>3, RefilterStep DEF Backspace, IInv, Typed
  <2>4. CASE ~(searchQuery > 0)
    BY <1>10, <2>1, <2>2, <2>4, QuietStep DEF Backspace, Quiet
  <2> QED BY <2>3, <2>4
<1>11. CASE Type
  BY <1>11, RefilterStep DEF Type, netVars, IInv, Typed
<1> QED BY <1>2, <1>3, <1>4, <1>5, <1>6, <1>7, <1>8, <1>9, <1>10, <1>11 DEF ListStep

(* Every step preserves the invariant. *)
LEMMA NextIInv == TuiAssumption /\ IInv /\ [Next]_vars => IInv'
<1> SUFFICES ASSUME TuiAssumption, IInv, [Next]_vars PROVE IInv'
  OBVIOUS
<1> USE DEF netVars, listVars, modeVars
<1>0. searchQuery \in 0..searchQuery
  BY DEF IInv, Typed
<1>1. CASE Connect \/ StreamEnds \/ ExportResult \/ ReplayDone
  BY <1>0, <1>1, QuietStep DEF Connect, StreamEnds, ExportResult, ReplayDone, Quiet
<1>2. CASE \E kind \in Kinds, r \in 0..MaxReplays : EventMsg(kind, r)
  BY <1>2, EventMsgStep
<1>3. CASE ListStep
  BY <1>3, ListStepIInv
<1>4. CASE Back
  BY <1>4, BackStep
<1>5. CASE OtherKey \/ CopyBody \/ EditAndResend \/ Analytics \/ AnalyticsSort
  BY <1>0, <1>5, QuietStep DEF OtherKey, CopyBody, EditAndResend, Analytics, AnalyticsSort, Quiet
<1>6. CASE \E n \in {1, Half} : AnalyticsDown(n) \/ AnalyticsUp(n)
  BY <1>0, <1>6, QuietStep DEF AnalyticsDown, AnalyticsUp, Quiet
<1>7. CASE Quit
  <2>1. Blank'
    BY <1>7 DEF Quit, Blank
  <2>2. Blank' => IInv'
    BY BlankIInv, PTL
  <2> QED BY <2>1, <2>2
<1>8. CASE \E seq \in ticks : ClearAlert(seq)
  BY <1>0, <1>8, QuietStep DEF ClearAlert, Quiet
<1>9. CASE \E r \in answers : ReplayResult(r)
  BY <1>0, <1>9, QuietStep DEF ReplayResult, Quiet
<1>10. CASE UNCHANGED vars
  BY <1>0, <1>10, QuietStep DEF vars, Quiet
<1> QED BY <1>1, <1>2, <1>3, <1>4, <1>5, <1>6, <1>7, <1>8, <1>9, <1>10
      DEF Next, OtherStep, Ended

(* So it always holds. *)
LEMMA IInvHolds == Spec => []IInv
<1>1. Init => IInv
  BY InitIInv
<1>2. IInv /\ [Next]_vars => IInv'
  BY NextIInv, TuiAssumption
<1> QED BY <1>1, <1>2, PTL DEF Spec

(* Over every sequence of keys, arrivals and answers the cursor is on a    *)
(* row whenever there is one.                                              *)
THEOREM CursorStaysOnRow == Spec => []CursorOnRow
<1>1. IInv => CursorOnRow
  BY DEF IInv
<1> QED BY <1>1, IInvHolds, PTL

(* Every row is the index of an event, so that neither the list nor        *)
(* cursorEvent() ever indexes events out of range.                         *)
RowsAreEvents == RowSet \subseteq 1..Len(events)

THEOREM NeverOutOfRange == Spec => []RowsAreEvents
<1>1. IInv => RowsAreEvents
  BY DEF IInv, Typed, RowsAreEvents, RowSet
<1> QED BY <1>1, IInvHolds, PTL

-------------------------------------------------------------------------------
(* The cursor of the analytics view, which is set to the first row when    *)
(* the rows are counted and stays between the first and the last.          *)
AInv ==
  /\ analyticsRows \in Nat /\ analyticsCursor \in Nat
  /\ analyticsCursor <= Larger(analyticsRows - 1, 0)

(* There are finitely many endpoints to count. *)
LEMMA EndpointsCounted ==
  ASSUME NEW evs \in Seq(Captured)
  PROVE  Cardinality({evs[i].endpoint : i \in 1..Len(evs)}) \in Nat
<1> DEFINE S == {evs[i].endpoint : i \in 1..Len(evs)}
           endpointOf == [i \in 1..Len(evs) |-> evs[i].endpoint]
<1>1. IsFiniteSet(1..Len(evs))
  BY FS_Interval
<1>2. endpointOf \in [1..Len(evs) -> S]
  OBVIOUS
<1>3. \A t \in S : \E i \in 1..Len(evs) : endpointOf[i] = t
  OBVIOUS
<1>4. endpointOf \in Surjection(1..Len(evs), S)
  <2> HIDE DEF endpointOf, S
  <2> QED BY <1>2, <1>3 DEF Surjection
<1>5. IsFiniteSet(S)
  <2> HIDE DEF endpointOf, S
  <2> QED BY <1>1, <1>4, FS_Surjection
<1> QED BY <1>5, FS_CardinalityType

(* Opening the view counts the rows, its keys keep the cursor between      *)
(* them, and everything else leaves it alone.                              *)
LEMMA NextAInv == TuiAssumption /\ IInv /\ AInv /\ [Next]_vars => AInv'
<1> SUFFICES ASSUME TuiAssumption, IInv, AInv, [Next]_vars PROVE AInv'
  OBVIOUS
<1> USE DEF AInv, analyticsVars
<1>1. CASE Analytics
  <2>1. Cardinality({events[i].endpoint : i \in 1..Len(events)}) \in Nat
    BY EndpointsCounted DEF IInv, Typed
  <2> QED BY <1>1, <2>1 DEF Analytics, Larger
<1>2. CASE \E n \in {1, Half} : AnalyticsDown(n) \/ AnalyticsUp(n)
  <2>1. PICK n \in Nat : AnalyticsDown(n) \/ AnalyticsUp(n)
    BY <1>2 DEF TuiAssumption
  <2> QED BY <2>1 DEF AnalyticsDown, AnalyticsUp, Larger, Lesser
<1>3. CASE AnalyticsSort
  BY <1>3 DEF AnalyticsSort, Larger
<1>4. CASE Quit
  BY <1>4 DEF Quit, Larger
<1>5. CASE UNCHANGED analyticsVars
  BY <1>5
<1>6. ListStep => UNCHANGED analyticsVars
  BY DEF ListStep, Inspect, StartSearch, ToggleErrors, ToggleSort, ClearFilter, Down, Up, PageUp,
         SearchEnter, SearchEsc, Backspace, Type, StartWrite, Write
<1>7. OtherKey \/ Back \/ CopyBody \/ EditAndResend => UNCHANGED analyticsVars
  BY DEF OtherKey, Back, CopyBody, EditAndResend
<1>8. Connect \/ StreamEnds \/ ExportResult \/ ReplayDone \/ UNCHANGED vars
        => UNCHANGED analyticsVars
  BY DEF Connect, StreamEnds, ExportResult, ReplayDone, vars
<1>9. (\E kind \in Kinds, r \in 0..MaxReplays : EventMsg(kind, r)) => UNCHANGED analyticsVars
  BY DEF EventMsg
<1>10. (\E seq \in ticks : ClearAlert(seq)) \/ (\E r \in answers : ReplayResult(r))
         => UNCHANGED analyticsVars
  BY DEF ClearAlert, ReplayResult
<1> QED BY <1>1, <1>2, <1>3, <1>4, <1>5, <1>6, <1>7, <1>8, <1>9, <1>10 DEF Next, OtherStep, Ended

LEMMA AInvHolds == Spec => []AInv
<1>1. Init => AInv
  BY DEF Init, AInv, Larger
<1> QED BY <1>1, NextAInv, TuiAssumption, IInvHolds, PTL DEF Spec

(* The window is within a list that is not empty and around any row of it. *)
LEMMA WindowAround ==
  ASSUME NEW n \in Nat, NEW at \in Nat, at < n, NEW height \in Nat \ {0}
  PROVE  OnScreen(n, at, height)
<1>1. height \div 2 \in Nat /\ 2 * (height \div 2) <= height
  OBVIOUS
<1>2. height \div 2 < height
  BY <1>1
<1>3. CASE n <= height
  BY <1>3 DEF OnScreen, WindowStart, Lesser
<1>4. CASE n > height
  <2> DEFINE first == Larger(at - height \div 2, 0)
  <2>1. first \in Nat /\ first <= at /\ at < first + height
    BY <1>1, <1>2 DEF Larger
  <2>2. WindowStart(n, at, height) = Lesser(first, n - height)
    BY <1>4 DEF WindowStart
  <2> HIDE DEF first
  <2> QED BY <1>4, <2>1, <2>2 DEF OnScreen, Lesser
<1> QED BY <1>3, <1>4

(* On a screen of any height the row under the cursor can be seen, in the  *)
(* list and in the analytics view.                                         *)
THEOREM CursorIsSeen == Spec => []CursorVisible
<1>1. TuiAssumption /\ IInv /\ AInv => CursorVisible
  <2> SUFFICES ASSUME TuiAssumption, IInv, AInv, NEW height \in 1..(MaxEvents + 1)
               PROVE  /\ displayRows # <<>> => OnScreen(Len(displayRows), cursor, height)
                      /\ analyticsRows > 0 => OnScreen(analyticsRows, analyticsCursor, height)
    BY DEF CursorVisible
  <2>1. height \in Nat \ {0}
    BY DEF TuiAssumption
  <2>2. ASSUME displayRows # <<>> PROVE OnScreen(Len(displayRows), cursor, height)
    <3>1. Len(displayRows) \in Nat \ {0} /\ cursor \in Nat
      BY <2>2 DEF IInv, Typed
    <3>2. cursor < Len(displayRows)
      BY <3>1 DEF IInv, CursorOnRow, LastRow, Larger
    <3> QED BY <2>1, <3>1, <3>2, WindowAround
  <2>3. ASSUME analyticsRows > 0 PROVE OnScreen(analyticsRows, analyticsCursor, height)
    <3>1. analyticsCursor < analyticsRows /\ analyticsRows \in Nat /\ analyticsCursor \in Nat
      BY <2>3 DEF AInv, Larger
    <3> QED BY <2>1, <3>1, WindowAround
  <2> QED BY <2>2, <2>3
<1> QED BY <1>1, IInvHolds, AInvHolds, TuiAssumption, PTL

-------------------------------------------------------------------------------
(* The rows are different matches, and all of them when the title counts   *)
(* them.                                                                   *)
RowsMatch ==
  /\ Cardinality(RowSet) = Len(displayRows)
  /\ TitleIsTrue

(* A rebuilt list shows every match once: it maps as many places as there  *)
(* are matches to different matches.                                       *)
LEMMA RebuiltShowsAll ==
  ASSUME NEW evs \in Seq(Captured), NEW q, NEW e, NEW mode,
         NEW rows \in Rebuilt(evs, q, e, mode)
  PROVE  /\ {rows[i] : i \in 1..Len(rows)} = Matching(evs, q, e)
         /\ Cardinality({rows[i] : i \in 1..Len(rows)}) = Len(rows)
<1> DEFINE M == Matching(evs, q, e)
           n == Cardinality(M)
<1>1. n \in Nat /\ IsFiniteSet(M) /\ Len(rows) = n
  BY MatchingFinite, RebuiltRows
<1>2. /\ rows \in [1..n -> M]
      /\ \A i, j \in 1..n : i < j => rows[i] # rows[j]
  BY DEF Rebuilt
<1> HIDE DEF M, n
<1>3. \A i, j \in 1..n : rows[i] = rows[j] => i = j
  BY <1>1, <1>2
<1>4. rows \in Injection(1..n, M)
  BY <1>2, <1>3, Fun_IsInj
<1>5. Cardinality(1..n) = n
  BY <1>1, FS_Interval
<1>6. rows \in Surjection(1..n, M)
  BY <1>1, <1>4, <1>5, FS_Injection DEF n
<1>7. {rows[i] : i \in 1..n} = M
  BY <1>2, <1>6 DEF Surjection
<1> QED BY <1>1, <1>7 DEF M, n

(* A step that rebuilds the rows shows what matches now. *)
LEMMA RowsRebuilt ==
  ASSUME events' \in Seq(Captured),
         NEW rows \in Rebuilt(events', searchQuery', filterErrors', sortMode'),
         displayRows' = rows
  PROVE  RowsMatch'
<1>1. /\ {rows[i] : i \in 1..Len(rows)} = Matching(events', searchQuery', filterErrors')
      /\ Cardinality({rows[i] : i \in 1..Len(rows)}) = Len(rows)
  BY RebuiltShowsAll
<1>2. RowSet' = {rows[i] : i \in 1..Len(rows)}
  BY DEF RowSet
<1> QED BY <1>1, <1>2 DEF RowsMatch, TitleIsTrue

(* A step may leave the rows as they are if the title counts no matches    *)
(* after it or nothing that decides about them has changed.                *)
LEMMA RowsStay ==
  ASSUME RowsMatch, displayRows' = displayRows,
         \/ view' # "list"
         \/ searchQuery' = 0
         \/ UNCHANGED <<view, events, searchQuery, filterErrors>>
  PROVE  RowsMatch'
<1>1. RowSet' = RowSet
  BY DEF RowSet
<1>2. Cardinality(RowSet') = Len(displayRows')
  BY <1>1 DEF RowsMatch
<1>3. TitleIsTrue'
  BY <1>1 DEF RowsMatch, TitleIsTrue
<1> QED BY <1>2, <1>3 DEF RowsMatch

(* No rows and no query, as at the start. *)
LEMMA BlankRows == displayRows = <<>> /\ searchQuery = 0 => RowsMatch
<1> SUFFICES ASSUME displayRows = <<>>, searchQuery = 0 PROVE RowsMatch
  OBVIOUS
<1>1. Len(displayRows) = 0 /\ RowSet = {}
  BY DEF RowSet
<1> QED BY <1>1, FS_EmptySet DEF RowsMatch, TitleIsTrue

(* Refilter rebuilds the rows for the query and the filter it finds set. *)
LEMMA RowsRefiltered ==
  ASSUME IInv, Refilter, events' = events
  PROVE  RowsMatch'
<1>1. PICK rows \in Rebuilt(events, searchQuery', filterErrors', sortMode') : displayRows' = rows
  BY DEF Refilter
<1> QED BY <1>1, RowsRebuilt DEF IInv, Typed

(* Every step keeps the rows right: the ones that take the query or the    *)
(* filter further rebuild them, and "/" only takes the title away.         *)
LEMMA NextRowsMatch == TuiAssumption /\ IInv /\ IInv' /\ RowsMatch /\ [Next]_vars => RowsMatch'
<1> SUFFICES ASSUME TuiAssumption, IInv, IInv', RowsMatch, [Next]_vars PROVE RowsMatch'
  OBVIOUS
<1> USE DEF netVars, listVars, modeVars
<1>1. ASSUME UNCHANGED <<displayRows, view, events, searchQuery, filterErrors>> PROVE RowsMatch'
  BY <1>1, RowsStay
<1>2. CASE Connect \/ StreamEnds \/ ExportResult \/ ReplayDone \/ UNCHANGED vars
  BY <1>1, <1>2 DEF Connect, StreamEnds, ExportResult, ReplayDone, vars
<1>3. CASE (\E seq \in ticks : ClearAlert(seq)) \/ (\E r \in answers : ReplayResult(r))
  BY <1>1, <1>3 DEF ClearAlert, ReplayResult
<1>4. CASE OtherKey \/ CopyBody \/ EditAndResend \/ AnalyticsSort
  BY <1>1, <1>4 DEF OtherKey, CopyBody, EditAndResend, AnalyticsSort
<1>5. CASE \E n \in {1, Half} : AnalyticsDown(n) \/ AnalyticsUp(n)
  BY <1>1, <1>5 DEF AnalyticsDown, AnalyticsUp
<1>6. CASE Inspect \/ Analytics \/ StartSearch
  BY <1>6, RowsStay DEF Inspect, Analytics, StartSearch
<1>7. CASE \/ Down(1) \/ Down(Half) \/ Up \/ PageUp
           \/ SearchEnter \/ StartWrite \/ Write
  BY <1>1, <1>7 DEF Down, Up, PageUp, SearchEnter, StartWrite, Write
<1>8. CASE ToggleErrors \/ SearchEsc \/ Type
  BY <1>8, RowsRefiltered DEF ToggleErrors, SearchEsc, Type
<1>9. CASE ClearFilter
  BY <1>9, RowsRefiltered, RowsStay DEF ClearFilter
<1>10. CASE Backspace
  <2>1. CASE searchQuery > 0
    BY <1>10, <2>1, RowsRefiltered DEF Backspace
  <2>2. CASE ~(searchQuery > 0)
    <3>1. searchQuery' = 0 /\ displayRows' = displayRows
      BY <1>10, <2>2 DEF Backspace, Larger, IInv, Typed
    <3> QED BY <3>1, RowsStay
  <2> QED BY <2>1, <2>2
<1>11. CASE ToggleSort
  <2>1. PICK rows \in Rebuilt(events, searchQuery, filterErrors, sortMode') : displayRows' = rows
    BY <1>11 DEF ToggleSort
  <2>2. UNCHANGED <<events, searchQuery, filterErrors>>
    BY <1>11 DEF ToggleSort
  <2> QED BY <2>1, <2>2, RowsRebuilt DEF IInv, Typed
<1>12. CASE Back
  <2>1. PICK rows \in Rebuilt(events, searchQuery, filterErrors, sortMode) : displayRows' = rows
    BY <1>12 DEF Back
  <2>2. UNCHANGED <<events, searchQuery, filterErrors, sortMode>>
    BY <1>12 DEF Back
  <2> QED BY <2>1, <2>2, RowsRebuilt DEF IInv, Typed
<1>13. ASSUME NEW kind \in Kinds, NEW r \in 0..MaxReplays, EventMsg(kind, r) PROVE RowsMatch'
  <2>1. UNCHANGED <<searchQuery, filterErrors, sortMode>> /\ events' \in Seq(Captured)
    BY <1>13 DEF EventMsg, IInv, Typed
  <2>2. CASE \E rows \in Rebuilt(events', searchQuery, filterErrors, sortMode) : displayRows' = rows
    BY <2>1, <2>2, RowsRebuilt
  <2>3. CASE displayRows' = displayRows /\ view' # "list"
    BY <2>3, RowsStay
  <2> QED BY <1>13, <2>2, <2>3 DEF EventMsg
<1>14. CASE Quit
  <2>1. displayRows' = <<>> /\ searchQuery' = 0
    BY <1>14 DEF Quit
  <2>2. (displayRows = <<>> /\ searchQuery = 0)' => RowsMatch'
    BY BlankRows, PTL
  <2> QED BY <2>1, <2>2
<1> QED BY <1>2, <1>3, <1>4, <1>5, <1>6, <1>7, <1>8, <1>9, <1>10, <1>11, <1>12, <1>13, <1>14
      DEF Next, ListStep, OtherStep, Ended

LEMMA RowsMatchHolds == Spec => []RowsMatch
<1>1. Init => RowsMatch
  BY BlankRows DEF Init
<1>2. Spec => []IInv
  BY IInvHolds
<1> QED BY <1>1, <1>2, NextRowsMatch, TuiAssumption, PTL DEF Spec

(* While the title says "n/m requests", the n rows are those that match    *)
(* the query and the error filter, whatever has arrived behind the         *)
(* inspector and in whatever order the keys came.                          *)
THEOREM TitleStaysTrue == Spec => []TitleIsTrue
<1>1. RowsMatch => TitleIsTrue
  BY DEF RowsMatch
<1> QED BY <1>1, RowsMatchHolds, PTL

(* An export under a query writes what the list shows: runExport filters   *)
(* for itself, but is started from the list, where the rows are right.     *)
THEOREM ExportWritesList == Spec => ExportIsList
<1>1. RowsMatch /\ [Next]_vars =>
        [(searchQuery > 0 /\ exporting = NoExport /\ exporting' # NoExport)
           => exporting' = RowSet]_vars
  <2> SUFFICES ASSUME RowsMatch, Next, searchQuery > 0,
                      exporting = NoExport, exporting' # NoExport
               PROVE  exporting' = RowSet
    BY DEF vars
  <2> USE DEF netVars, listVars, modeVars
  <2>1. CASE Write
    <3>1. view = "list" /\ exporting' = Exported
      BY <2>1 DEF Write, Key
    <3> QED BY <3>1 DEF RowsMatch, TitleIsTrue, Exported
  <2>2. ASSUME UNCHANGED exporting PROVE FALSE
    BY <2>2
  <2>3. CASE ListStep /\ ~Write
    BY <2>2, <2>3 DEF ListStep, Inspect, StartSearch, ToggleErrors, ToggleSort, ClearFilter, Down,
         Up, PageUp, SearchEnter, SearchEsc, Backspace, Type, StartWrite
  <2>4. CASE OtherStep
    BY <2>2, <2>4 DEF OtherStep, OtherKey, Back, CopyBody, EditAndResend, Analytics, AnalyticsSort,
         AnalyticsDown, AnalyticsUp
  <2>5. CASE Quit \/ ExportResult
    BY <2>5 DEF Quit, ExportResult
  <2>6. CASE Connect \/ StreamEnds \/ ReplayDone
    BY <2>2, <2>6 DEF Connect, StreamEnds, ReplayDone
  <2>7. CASE \E kind \in Kinds, r \in 0..MaxReplays : EventMsg(kind, r)
    BY <2>2, <2>7 DEF EventMsg
  <2>8. CASE (\E seq \in ticks : ClearAlert(seq)) \/ (\E r \in answers : ReplayResult(r))
    BY <2>2, <2>8 DEF ClearAlert, ReplayResult
  <2>9. CASE Ended
    BY <2>2, <2>9 DEF Ended, vars
  <2> QED BY <2>1, <2>3, <2>4, <2>5, <2>6, <2>7, <2>8, <2>9 DEF Next
<1> QED BY <1>1, RowsMatchHolds, PTL DEF Spec, ExportIsList

-------------------------------------------------------------------------------
(* Arriving traffic leaves the inspector on the event it shows: only the   *)
(* answer to a replay, which then is no longer waited for, moves the user. *)
THEOREM InspectorHolds == Spec => InspectorStays
<1>1. [Next]_vars =>
        [(view = "inspect" /\ view' = "inspect" /\ replayEventID' = replayEventID)
           => CursorEvent' = CursorEvent]_vars
  <2> SUFFICES ASSUME Next, view = "inspect", view' = "inspect", replayEventID' = replayEventID
               PROVE  CursorEvent' = CursorEvent
    BY DEF vars
  <2> USE DEF netVars, listVars, modeVars, Key
  <2>1. ASSUME UNCHANGED <<displayRows, cursor>> PROVE CursorEvent' = CursorEvent
    BY <2>1 DEF CursorEvent
  <2>2. CASE ListStep
    BY <2>2 DEF ListStep, ListKey, SearchKey, Inspect, StartSearch, ToggleErrors, ToggleSort,
         ClearFilter, Down, Up, PageUp, SearchEnter, SearchEsc, Backspace, Type, StartWrite, Write
  <2>3. CASE Back \/ Quit
    BY <2>3 DEF Back, Quit
  <2>4. CASE \/ OtherKey \/ CopyBody \/ EditAndResend \/ Analytics \/ AnalyticsSort
             \/ \E n \in {1, Half} : AnalyticsDown(n) \/ AnalyticsUp(n)
    BY <2>1, <2>4 DEF OtherKey, CopyBody, EditAndResend, Analytics, AnalyticsSort,
         AnalyticsDown, AnalyticsUp
  <2>5. CASE Connect \/ StreamEnds \/ ExportResult \/ ReplayDone
    BY <2>1, <2>5 DEF Connect, StreamEnds, ExportResult, ReplayDone
  <2>6. ASSUME NEW kind \in Kinds, NEW r \in 0..MaxReplays, EventMsg(kind, r)
        PROVE  UNCHANGED <<displayRows, cursor>>
    BY <2>6 DEF EventMsg
  <2>7. CASE (\E seq \in ticks : ClearAlert(seq)) \/ (\E r \in answers : ReplayResult(r))
    BY <2>1, <2>7 DEF ClearAlert, ReplayResult
  <2>8. CASE Ended
    BY <2>1, <2>8 DEF Ended, vars
  <2> QED BY <2>1, <2>2, <2>3, <2>4, <2>5, <2>6, <2>7, <2>8 DEF Next, OtherStep
<1> QED BY <1>1, PTL DEF Spec, InspectorStays

-------------------------------------------------------------------------------
(* Alerts are numbered, and the one that is shown has its tick to come.    *)
AlertsInv ==
  /\ alertSeq \in Nat /\ ticks \subseteq 1..alertSeq
  /\ alertMessage => alertSeq \in ticks

(* A new alert comes with a tick of its own. *)
LEMMA AlertShown == ASSUME AlertsInv, ShowAlert PROVE AlertsInv'
<1>1. alertSeq' \in Nat /\ alertSeq' = alertSeq + 1 /\ ticks' = ticks \cup {alertSeq'}
  BY DEF AlertsInv, ShowAlert
<1>2. ticks' \subseteq 1..alertSeq' /\ alertSeq' \in ticks'
  BY <1>1 DEF AlertsInv
<1> QED BY <1>1, <1>2 DEF AlertsInv

(* Keys take an alert away and leave its tick, and a tick that is not the  *)
(* last one leaves the alert.                                              *)
LEMMA NextAlerts == AlertsInv /\ [Next]_vars => AlertsInv'
<1> SUFFICES ASSUME AlertsInv, [Next]_vars PROVE AlertsInv'
  OBVIOUS
<1> USE DEF alertVars
<1>1. ASSUME UNCHANGED <<alertSeq, ticks>>, alertMessage' => alertMessage PROVE AlertsInv'
  BY <1>1 DEF AlertsInv
<1>2. CASE ListStep
  BY <1>1, <1>2 DEF ListStep, Key, ListKey, SearchKey, Inspect, StartSearch, ToggleErrors, ToggleSort,
       ClearFilter, Down, Up, PageUp, SearchEnter, SearchEsc, Backspace, Type, StartWrite, Write
<1>3. CASE \/ OtherKey \/ Back \/ EditAndResend \/ Analytics \/ AnalyticsSort
           \/ \E n \in {1, Half} : AnalyticsDown(n) \/ AnalyticsUp(n)
  BY <1>1, <1>3 DEF Key, ListKey, OtherKey, Back, EditAndResend, Analytics, AnalyticsSort,
       AnalyticsDown, AnalyticsUp
<1>4. CASE CopyBody \/ ExportResult
  BY <1>4, AlertShown DEF CopyBody, ExportResult
<1>5. CASE Connect \/ StreamEnds \/ ReplayDone \/ UNCHANGED vars
  BY <1>1, <1>5 DEF Connect, StreamEnds, ReplayDone, vars
<1>6. CASE \/ \E kind \in Kinds, r \in 0..MaxReplays : EventMsg(kind, r)
           \/ \E r \in answers : ReplayResult(r)
  BY <1>1, <1>6 DEF EventMsg, ReplayResult
<1>7. ASSUME NEW seq \in ticks, ClearAlert(seq) PROVE AlertsInv'
  BY <1>7 DEF ClearAlert, AlertsInv
<1>8. CASE Quit
  BY <1>8 DEF Quit, AlertsInv
<1> QED BY <1>2, <1>3, <1>4, <1>5, <1>6, <1>7, <1>8 DEF Next, OtherStep, Ended

LEMMA AlertsInvHolds == Spec => []AlertsInv
<1>1. Init => AlertsInv
  BY DEF Init, AlertsInv
<1> QED BY <1>1, NextAlerts, PTL DEF Spec

(* An alert has a tick on its way, and no tick but its own takes it away.  *)
THEOREM AlertsLive == Spec => AlertLifetime
<1>1. AlertsInv /\ [Next]_vars =>
        [/\ alertMessage => alertSeq \in ticks
         /\ (alertMessage /\ ~alertMessage' /\ ticks' # ticks) => alertSeq \in ticks \ ticks']_vars
  <2> SUFFICES ASSUME AlertsInv, Next
               PROVE  /\ alertMessage => alertSeq \in ticks
                      /\ (alertMessage /\ ~alertMessage' /\ ticks' # ticks)
                           => alertSeq \in ticks \ ticks'
    BY DEF vars
  <2> USE DEF alertVars
  <2>1. alertMessage => alertSeq \in ticks
    BY DEF AlertsInv
  <2> SUFFICES ASSUME alertMessage, ~alertMessage', ticks' # ticks
               PROVE  alertSeq \in ticks \ ticks'
    BY <2>1
  <2>2. ~ListStep
    BY DEF ListStep, Key, ListKey, SearchKey, Inspect, StartSearch, ToggleErrors, ToggleSort,
       ClearFilter, Down, Up, PageUp, SearchEnter, SearchEsc, Backspace, Type, StartWrite, Write
  <2>3. ~\/ OtherKey \/ Back \/ EditAndResend \/ Analytics \/ AnalyticsSort
         \/ \E n \in {1, Half} : AnalyticsDown(n) \/ AnalyticsUp(n)
    BY DEF Key, ListKey, OtherKey, Back, EditAndResend, Analytics, AnalyticsSort,
       AnalyticsDown, AnalyticsUp
  <2>4. ~(CopyBody \/ ExportResult)
    BY DEF CopyBody, ExportResult, ShowAlert
  <2>5. ~(Connect \/ StreamEnds \/ ReplayDone \/ Ended)
    BY DEF Connect, StreamEnds, ReplayDone, Ended, vars
  <2>6. ~\/ \E kind \in Kinds, r \in 0..MaxReplays : EventMsg(kind, r)
         \/ \E r \in answers : ReplayResult(r)
    BY DEF EventMsg, ReplayResult
  <2>7. ASSUME NEW seq \in ticks, ClearAlert(seq) PROVE alertSeq \in ticks \ ticks'
    BY <2>7 DEF ClearAlert
  <2>8. CASE Quit
    BY <2>1, <2>8 DEF Quit
  <2> QED BY <2>2, <2>3, <2>4, <2>5, <2>6, <2>7, <2>8 DEF Next, OtherStep
<1> QED BY <1>1, AlertsInvHolds, PTL DEF Spec, AlertLifetime

-------------------------------------------------------------------------------
(* What the keys, messages and commands leave in the fields the steps      *)
(* above do not follow.                                                    *)
FlagsOK ==
  /\ err \in BOOLEAN /\ follow \in BOOLEAN /\ searchMode \in BOOLEAN
  /\ filterErrors \in BOOLEAN /\ writeMode \in BOOLEAN /\ alertMessage \in BOOLEAN

ModesOK ==
  /\ link \in {"connecting", "watching", "lost", "quit"}
  /\ view \in {"list", "inspect", "analytics"}
  /\ searchQuery \in 0..MaxQuery /\ sortMode \in {"chronological", "duration"}
  /\ Len(events) <= MaxEvents

(* The replays under way are replays that were started.                    *)
ReplaysOK ==
  /\ replays \in Nat /\ (editing => replays # 0)
  /\ replayEventID \in 0..replays /\ owed \subseteq 1..replays /\ answers \subseteq 0..replays

(* Every step keeps the flags flags. *)
LEMMA NextFlagsOK == FlagsOK /\ [Next]_vars => FlagsOK'
<1> SUFFICES ASSUME FlagsOK, [Next]_vars PROVE FlagsOK'
  OBVIOUS
<1> USE DEF FlagsOK, netVars, listVars, modeVars, alertVars, Key, ListKey, SearchKey
<1>1. CASE Connect
  BY <1>1, Zenon DEF Connect
<1>2. CASE StreamEnds \/ ReplayDone
  BY <1>2, Zenon DEF StreamEnds, ReplayDone
<1>3. CASE ExportResult \/ CopyBody
  BY <1>3, Zenon DEF ExportResult, CopyBody, ShowAlert
<1>4. ASSUME NEW seq \in ticks, ClearAlert(seq) PROVE FlagsOK'
  BY <1>4, Zenon DEF ClearAlert
<1>5. ASSUME NEW r \in answers, ReplayResult(r) PROVE FlagsOK'
  BY <1>5, Zenon DEF ReplayResult
<1>6. CASE OtherKey \/ EditAndResend \/ Analytics \/ AnalyticsSort
  BY <1>6, Zenon DEF OtherKey, EditAndResend, Analytics, AnalyticsSort
<1>7. CASE \E n \in {1, Half} : AnalyticsDown(n) \/ AnalyticsUp(n)
  BY <1>7, Zenon DEF AnalyticsDown, AnalyticsUp
<1>8. CASE Inspect \/ StartSearch \/ SearchEnter
  BY <1>8, Zenon DEF Inspect, StartSearch, SearchEnter
<1>9. CASE StartWrite \/ Write
  BY <1>9, Zenon DEF StartWrite, Write
<1>10. CASE ToggleErrors \/ ToggleSort
  BY <1>10, Zenon DEF ToggleErrors, ToggleSort
<1>11. CASE ClearFilter \/ SearchEsc
  BY <1>11, Zenon DEF ClearFilter, SearchEsc
<1>12. CASE Backspace \/ Type
  BY <1>12, Zenon DEF Backspace, Type
<1>13. ASSUME NEW n, Down(n) PROVE FlagsOK'
  BY <1>13, Zenon DEF Down
<1>14. CASE Up \/ PageUp
  BY <1>14, Zenon DEF Up, PageUp
<1>15. CASE Back
  BY <1>15, Zenon DEF Back
<1>16. ASSUME NEW kind \in Kinds, NEW r \in 0..MaxReplays, EventMsg(kind, r) PROVE FlagsOK'
  BY <1>16, Zenon DEF EventMsg
<1>17. CASE Quit
  BY <1>17, Zenon DEF Quit
<1>18. CASE UNCHANGED vars
  BY <1>18, Zenon DEF vars
<1> QED BY <1>1, <1>2, <1>3, <1>4, <1>5, <1>6, <1>7, <1>8, <1>9, <1>10, <1>11, <1>12, <1>13,
           <1>14, <1>15, <1>16, <1>17, <1>18 DEF Next, ListStep, OtherStep, Ended

(* Every step keeps the modes and the bounds. *)
LEMMA NextModesOK == TuiAssumption /\ IInv /\ ModesOK /\ [Next]_vars => ModesOK'
<1> SUFFICES ASSUME TuiAssumption, IInv, ModesOK, [Next]_vars PROVE ModesOK'
  OBVIOUS
<1> USE DEF netVars, modeVars
<1>1. ASSUME UNCHANGED <<events, searchQuery, sortMode>>,
             link' \in {"watching", "lost", link}, view' \in {"list", "inspect", "analytics", view}
      PROVE  ModesOK'
  BY <1>1 DEF ModesOK
<1>2. CASE Connect \/ StreamEnds \/ ReplayDone \/ ExportResult \/ UNCHANGED vars
  BY <1>1, <1>2 DEF Connect, StreamEnds, ReplayDone, ExportResult, vars
<1>3. CASE (\E seq \in ticks : ClearAlert(seq)) \/ (\E r \in answers : ReplayResult(r))
  BY <1>1, <1>3 DEF ClearAlert, ReplayResult
<1>4. CASE \/ OtherKey \/ Back \/ CopyBody \/ EditAndResend \/ Analytics \/ AnalyticsSort
           \/ \E n \in {1, Half} : AnalyticsDown(n) \/ AnalyticsUp(n)
  BY <1>1, <1>4 DEF OtherKey, Back, CopyBody, EditAndResend, Analytics, AnalyticsSort,
       AnalyticsDown, AnalyticsUp
<1>5. CASE \/ Inspect \/ SearchEnter \/ StartWrite \/ Write \/ ToggleErrors
           \/ Down(1) \/ Down(Half) \/ Up \/ PageUp
  BY <1>1, <1>5 DEF Inspect, SearchEnter, StartWrite, Write, ToggleErrors, Down, Up, PageUp
<1>6. ASSUME UNCHANGED <<link, events, view>>, searchQuery' \in 0..MaxQuery,
             sortMode' \in {"chronological", "duration", sortMode}
      PROVE  ModesOK'
  BY <1>6 DEF ModesOK
<1>7. CASE StartSearch \/ ToggleSort \/ ClearFilter \/ SearchEsc \/ Backspace \/ Type
  <2>1. searchQuery' \in 0..MaxQuery
    BY <1>7 DEF StartSearch, ToggleSort, ClearFilter, SearchEsc, Backspace, Type, Larger,
         ModesOK, TuiAssumption
  <2>2. UNCHANGED <<link, events, view>> /\ sortMode' \in {"chronological", "duration", sortMode}
    BY <1>7 DEF StartSearch, ToggleSort, ClearFilter, SearchEsc, Backspace, Type
  <2> QED BY <1>6, <2>1, <2>2
<1>8. ASSUME NEW kind \in Kinds, NEW r \in 0..MaxReplays, EventMsg(kind, r) PROVE ModesOK'
  <2>1. Len(events') <= MaxEvents
    <3>1. MaxEvents \in Nat /\ Len(events) \in Nat /\ Len(events) < MaxEvents
      BY <1>8 DEF EventMsg, TuiAssumption, IInv, Typed
    <3>2. Len(events') = Len(events) + 1
      BY <1>8 DEF EventMsg, IInv, Typed
    <3> QED BY <3>1, <3>2
  <2>2. view' \in {view, "inspect"} /\ UNCHANGED <<link, searchQuery, sortMode>>
    BY <1>8 DEF EventMsg
  <2> QED BY <2>1, <2>2 DEF ModesOK
<1>9. CASE Quit
  BY <1>9 DEF Quit, ModesOK, TuiAssumption
<1> QED BY <1>2, <1>3, <1>4, <1>5, <1>7, <1>8, <1>9 DEF Next, ListStep, OtherStep, Ended

(* So does it keep the replays: an event or an answer is owed for a replay *)
(* when its call returns, and waited for when its answer is handled.       *)
LEMMA NextReplaysOK == ReplaysOK /\ [Next]_vars => ReplaysOK'
<1> SUFFICES ASSUME ReplaysOK, [Next]_vars PROVE ReplaysOK'
  OBVIOUS
<1> USE DEF replayVars
<1>1. ASSUME UNCHANGED replayVars PROVE ReplaysOK'
  BY <1>1 DEF ReplaysOK
<1>2. CASE ListStep
  BY <1>1, <1>2 DEF ListStep, Inspect, StartSearch, ToggleErrors, ToggleSort, ClearFilter,
       Down, Up, PageUp, SearchEnter, SearchEsc, Backspace, Type, StartWrite, Write
<1>3. CASE \/ OtherKey \/ Back \/ CopyBody \/ Analytics \/ AnalyticsSort
           \/ \E n \in {1, Half} : AnalyticsDown(n) \/ AnalyticsUp(n)
  BY <1>1, <1>3 DEF OtherKey, Back, CopyBody, Analytics, AnalyticsSort, AnalyticsDown, AnalyticsUp
<1>4. CASE Connect \/ StreamEnds \/ ExportResult \/ UNCHANGED vars
  BY <1>1, <1>4 DEF Connect, StreamEnds, ExportResult, vars
<1>5. ASSUME NEW seq \in ticks, ClearAlert(seq) PROVE ReplaysOK'
  BY <1>1, <1>5 DEF ClearAlert
<1>6. CASE EditAndResend
  <2>1. replays' = replays + 1 /\ UNCHANGED <<owed, answers, replayEventID>>
    BY <1>6 DEF EditAndResend
  <2> QED BY <2>1 DEF ReplaysOK
<1>7. CASE ReplayDone
  <2>1. replays \in 1..replays /\ replays \in 0..replays
    BY <1>7 DEF ReplayDone, ReplaysOK
  <2>2. owed' \subseteq owed \cup {replays} /\ answers' \subseteq answers \cup {0, replays}
    BY <1>7 DEF ReplayDone
  <2>3. owed' \subseteq 1..replays /\ answers' \subseteq 0..replays
    BY <2>1, <2>2 DEF ReplaysOK
  <2>4. UNCHANGED <<replays, replayEventID>> /\ editing' = FALSE
    BY <1>7 DEF ReplayDone
  <2> QED BY <2>3, <2>4 DEF ReplaysOK
<1>8. ASSUME NEW r \in answers, ReplayResult(r) PROVE ReplaysOK'
  BY <1>8 DEF ReplayResult, ReplaysOK
<1>9. ASSUME NEW kind \in Kinds, NEW r \in 0..MaxReplays, EventMsg(kind, r) PROVE ReplaysOK'
  <2>1. /\ owed' = owed \ {r} /\ replayEventID' \in {0, replayEventID}
        /\ UNCHANGED <<editing, replays, answers>>
    BY <1>9 DEF EventMsg
  <2> QED BY <2>1 DEF ReplaysOK
<1>10. CASE Quit
  BY <1>10 DEF Quit, ReplaysOK
<1> QED BY <1>2, <1>3, <1>4, <1>5, <1>6, <1>7, <1>8, <1>9, <1>10 DEF Next, OtherStep, Ended

(* The state stays well formed; in particular the rows are as many events  *)
(* as they seem, and an answer or event is of a replay that was started.   *)
THEOREM TypeCorrect == Spec => []TypeOK
<1>1. Init => FlagsOK
  BY Zenon DEF Init, FlagsOK
<1>2. Init => ModesOK
  BY TuiAssumption DEF Init, ModesOK, TuiAssumption
<1>3. Init => ReplaysOK
  BY DEF Init, ReplaysOK
<1>4. Spec => []FlagsOK
  BY <1>1, NextFlagsOK, PTL DEF Spec
<1>5. Spec => []ModesOK
  BY <1>2, NextModesOK, TuiAssumption, IInvHolds, PTL DEF Spec
<1>6. Spec => []ReplaysOK
  BY <1>3, NextReplaysOK, PTL DEF Spec
<1>7. IInv /\ AInv /\ RowsMatch /\ AlertsInv /\ FlagsOK /\ ModesOK /\ ReplaysOK => TypeOK
  <2> SUFFICES ASSUME IInv, AInv, RowsMatch, AlertsInv, FlagsOK, ModesOK, ReplaysOK PROVE TypeOK
    OBVIOUS
  <2>1. RowSet \subseteq 1..Len(events)
    BY DEF IInv, Typed, RowSet
  <2>2. Cardinality(RowSet) = Len(displayRows)
    BY DEF RowsMatch
  <2>3. cursor \in Nat
    BY DEF IInv, Typed
  <2>4. analyticsCursor \in 0..Larger(analyticsRows - 1, 0)
    BY DEF AInv, Larger
  <2> QED BY <2>1, <2>2, <2>3, <2>4, Zenon DEF TypeOK, AlertsInv, FlagsOK, ModesOK, ReplaysOK
<1> QED BY <1>4, <1>5, <1>6, <1>7, IInvHolds, AInvHolds, RowsMatchHolds, AlertsInvHolds, PTL

=============================================================================
