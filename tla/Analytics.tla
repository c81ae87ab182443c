------------------------------ MODULE Analytics ------------------------------
(***************************************************************************)
(* The aggregation of events by endpoint, which is written three times:    *)
(* for the analytics view (tui/analytics.go), for the files the terminal   *)
(* UI exports (tui/export.go), and for the page and its exports            *)
(* (web/static/app.js).                                                    *)
(*                                                                         *)
(* An event is [endpoint, status, error, duration]: its endpointKey,       *)
(* "METHOD /path" with the query cut off, its status code, whether it has  *)
(* an Error, and its duration in units of which Micro are a microsecond    *)
(* (nanoseconds).  A file and the page have whole microseconds, as decimal *)
(* fractions of a millisecond; that these are floating-point numbers is    *)
(* left out.  A fraction is a pair, <<p, q>> for p / q.                    *)
(***************************************************************************)
EXTENDS Integers, Sequences, FiniteSets, SequencesExt

CONSTANTS
  Calls,    \* what is told apart in an event
  Micro,    \* units of time in a microsecond (1000)
  MaxLog,   \* bound: events
  MaxTimes  \* bound: times each of them is made, for the percentile

ASSUME AnalyticsAssumption ==
  /\ Micro \in Nat \ {0} /\ MaxLog \in Nat /\ MaxTimes \in Nat
  /\ \A e \in Calls : (e.error => e.status >= 400) /\ e.duration \in Nat

VARIABLE log \* the events that are aggregated, in the order they came in

(* endpointKey of an event with neither method nor path, as a replay      *)
(* written by hand leaves it.                                              *)
Nameless == " "

(* Every viewer appends what it receives. *)
Capture ==
  /\ Len(log) < MaxLog
  /\ \E e \in Calls : log' = Append(log, e)

Failed(e) == e.status >= 400 \/ e.error

Group(evs, key) == {i \in DOMAIN evs : evs[i].endpoint = key}

(* The sum of the durations of a group: how many units of time there are   *)
(* in its events.                                                          *)
TotalDuration(evs, group) == Cardinality(UNION {{i} \X (1..evs[i].duration) : i \in group})

(* The elements of a set in an order in which earlier ones come before     *)
(* later ones.                                                             *)
Arranged(S, Before(_, _)) ==
  CHOOSE s \in SetToSeqs(S) : \A i, j \in DOMAIN s : i < j => Before(s[i], s[j])

Ascending(S) == Arranged(S, <)

(* What is left of a sequence when it is filtered: what is at the indices  *)
(* in keep.                                                                *)
Filtered(seq, keep) ==
  LET order == Ascending(keep) IN [n \in DOMAIN order |-> seq[order[n]]]

(* The durations of a group, sorted. *)
Durations(evs, group) ==
  LET NoLonger(i, j) == evs[i].duration <= evs[j].duration
      order == Arranged(group, NoLonger)
  IN [n \in DOMAIN order |-> evs[order[n]].duration]

(* The endpoints of the events in the order of their first ones. *)
FirstSeen(evs) ==
  Filtered([i \in DOMAIN evs |-> evs[i].endpoint],
           {i \in DOMAIN evs : \A j \in 1..(i - 1) : evs[j].endpoint # evs[i].endpoint})

(* time.Duration.Microseconds *)
Micros(duration) == duration \div Micro

(* An event with its duration cut to whole microseconds. *)
InMicros(e) == [endpoint |-> e.endpoint, status |-> e.status, error |-> e.error,
                duration |-> Micros(e.duration)]
AllInMicros(evs) == [i \in DOMAIN evs |-> InMicros(evs[i])]

-------------------------------------------------------------------------------
(* The analytics view of the terminal UI *)

endpoints(evs) == {evs[i].endpoint : i \in DOMAIN evs} \ {Nameless}

(* One row for each key of a map, so in no order. *)
buildAnalyticsRows(evs) ==
  {LET group == Group(evs, key)
       total == TotalDuration(evs, group)
   IN [endpoint |-> key, count |-> Cardinality(group),
       errors |-> Cardinality({i \in group : Failed(evs[i])}),
       total |-> total, avg |-> total \div Cardinality(group)] : key \in endpoints(evs)}

(* "errors" by their number. *)
MoreErrors(mode, a, b) ==
  CASE mode = "total" -> a.total > b.total
    [] mode = "count" -> a.count > b.count
    [] mode = "avg" -> a.avg > b.avg
    [] mode = "errors" -> a.errors > b.errors

Above(p, q) == p[1] * q[2] > q[1] * p[2]

(* sortAnalyticsRows puts a before b.  sort.Slice is not stable: rows that *)
(* tie come in any order.                                                  *)
More(mode, a, b) ==
  CASE mode = "total" -> a.total > b.total
    [] mode = "count" -> a.count > b.count
    [] mode = "avg" -> a.avg > b.avg
    [] mode = "errors" -> Above(<<a.errors, a.count>>, <<b.errors, b.count>>)

-------------------------------------------------------------------------------
(* Exports *)

(* 95 of 100 by count, not by distance. *)
percentileOfCount(sorted) == sorted[(Len(sorted) * 95) \div 100 + 1]

(* percentile(sorted, 0.95), of a sequence that is not empty. *)
percentile(sorted) == sorted[((Len(sorted) - 1) * 95) \div 100 + 1]

(* "failed" are the indices of the events that count as errors. *)
ExportRow(evs, key, failed) ==
  LET group == Group(evs, key)
      count == Cardinality(group)
      total == TotalDuration(evs, group)
      sorted == Durations(evs, group)
  IN [endpoint |-> key, count |-> count, errors |-> Cardinality(group \cap failed),
      total |-> total, avg |-> <<total, count>>, p95 |-> percentile(sorted), max |-> Last(sorted)]

(* The terminal UI sums the durations and cuts the sum to microseconds;    *)
(* the average is of the sum it has cut.                                   *)
Written(row) ==
  LET total == Micros(row.total)
  IN [endpoint |-> row.endpoint, count |-> row.count, errors |-> row.errors,
      total |-> total, avg |-> <<total, row.count>>,
      p95 |-> Micros(row.p95), max |-> Micros(row.max)]

buildExportAnalyticsRows(evs) ==
  LET keys == FirstSeen(evs)
      order == Filtered(keys, {n \in DOMAIN keys : keys[n] # Nameless})
      failed == {i \in DOMAIN evs : Failed(evs[i])}
  IN [n \in DOMAIN order |-> Written(ExportRow(evs, order[n], failed))]

(* buildExportDataFromEvents under the error filter or none: the analytics *)
(* are those of the events that are exported.                              *)
buildExportDataFromEvents(evs, filterErrors) ==
  LET exported == Filtered(evs, {i \in DOMAIN evs : filterErrors => Failed(evs[i])})
  IN [captured |-> Len(evs), exported |-> Len(exported), calls |-> AllInMicros(exported),
      analytics |-> buildExportAnalyticsRows(exported)]

-------------------------------------------------------------------------------
(* The page, whose events have been cut to whole microseconds one by one   *)

(* buildExportAnalytics: it goes by the status alone, keeps a row for      *)
(* nameless events, and sums durations that have been cut.                 *)
buildExportAnalytics(exported) ==
  LET order == FirstSeen(exported)
      failed == {i \in DOMAIN exported : exported[i].status >= 400}
  IN [n \in DOMAIN order |-> ExportRow(exported, order[n], failed)]

(* buildExportData with the filter "error" or none. *)
buildExportData(evs, filterErrors) ==
  LET exported == Filtered(evs, {i \in DOMAIN evs : filterErrors => evs[i].status >= 400})
  IN [captured |-> Len(evs), exported |-> Len(exported), calls |-> exported,
      analytics |-> buildExportAnalytics(exported)]

(* The stats view: of all events, whatever their status, also when the     *)
(* error filter is on.                                                     *)
buildStats(evs) ==
  LET order == FirstSeen(evs)
      Row(key) ==
        LET group == Group(evs, key)
            total == TotalDuration(evs, group)
        IN [endpoint |-> key, count |-> Cardinality(group),
            errors |-> Cardinality({i \in group : evs[i].status >= 400}),
            total |-> total, avg |-> <<total, Cardinality(group)>>]
  IN [n \in DOMAIN order |-> Row(order[n])]

(* sortStats puts a before b, as a column is first clicked: the average is *)
(* not rounded.                                                            *)
PageMore(mode, a, b) ==
  CASE mode = "total" -> a.total > b.total
    [] mode = "count" -> a.count > b.count
    [] mode = "avg" -> Above(a.avg, b.avg)
    [] mode = "errors" -> Above(<<a.errors, a.count>>, <<b.errors, b.count>>)

(* Array.prototype.sort is stable. *)
sortStats(rows, mode) ==
  LET Precedes(i, j) ==
        PageMore(mode, rows[i], rows[j]) \/ (~PageMore(mode, rows[j], rows[i]) /\ i < j)
      order == Arranged(DOMAIN rows, Precedes)
  IN [n \in DOMAIN rows |-> rows[order[n]]]

-------------------------------------------------------------------------------
Modes == {"total", "count", "avg", "errors"}

(* A row of the terminal UI's file and one of the page's file say the same *)
(* of an endpoint.  Each call may cost the page's sum up to a microsecond, *)
(* so its average is less than a microsecond behind.                       *)
SaysTheSame(written, saved) ==
  /\ written.endpoint = saved.endpoint
  /\ written.count = saved.count /\ written.errors = saved.errors
  /\ written.p95 = saved.p95 /\ written.max = saved.max
  /\ written.total - saved.total \in 0..(written.count - 1)
  /\ written.avg[2] = saved.avg[2]
  /\ written.avg[1] - saved.avg[1] \in 0..(written.avg[2] - 1)

(* For the same events and filter the files of the terminal UI and of the  *)
(* page have the same calls and the same rows in the same order, but for   *)
(* the page's row of nameless events.                                      *)
FilesAgree ==
  \A filterErrors \in BOOLEAN :
    LET written == buildExportDataFromEvents(log, filterErrors)
        saved == buildExportData(AllInMicros(log), filterErrors)
        page == saved.analytics
        named == Filtered(page, {n \in DOMAIN page : page[n].endpoint # Nameless})
    IN /\ written.captured = saved.captured /\ written.exported = saved.exported
       /\ written.calls = saved.calls
       /\ DOMAIN written.analytics = DOMAIN named
       /\ \A n \in DOMAIN named : SaysTheSame(written.analytics[n], named[n])

(* A row of the page's stats shows what a row of the analytics view does,  *)
(* but for the part of a microsecond that each call has lost.              *)
Shows(stat, row) ==
  /\ stat.endpoint = row.endpoint
  /\ stat.count = row.count /\ stat.errors = row.errors
  /\ row.total - Micro * stat.total \in 0..(row.count * (Micro - 1))

(* The stats of the page have one row for each row of the analytics view,  *)
(* and one for the nameless events.                                        *)
ViewsAgree ==
  LET stats == buildStats(AllInMicros(log))
      view == buildAnalyticsRows(log)
  IN /\ \A i, j \in DOMAIN stats : stats[i].endpoint = stats[j].endpoint => i = j
     /\ \A n \in DOMAIN stats :
          stats[n].endpoint # Nameless => \E row \in view : Shows(stats[n], row)
     /\ \A row \in view : \E n \in DOMAIN stats : Shows(stats[n], row)

(* How far behind b, at most, a row a is that the page shows first: the    *)
(* lost parts of microseconds of the calls of b, or of one on average.     *)
WithinRounding(mode, a, b) ==
  \/ mode = "total" /\ b.total - a.total <= b.count * (Micro - 1)
  \/ mode = "avg" /\ b.avg - a.avg < Micro

(* What the page sorts by a column is an order the analytics view may show *)
(* for it, but for what is lost in microseconds: the counts and the error  *)
(* rates are never the other way round.                                    *)
OrdersAgree ==
  \A mode \in Modes :
    LET stats == sortStats(buildStats(AllInMicros(log)), mode)
    IN \A a, b \in buildAnalyticsRows(log), i, j \in DOMAIN stats :
         /\ i < j
         /\ stats[i].endpoint = a.endpoint /\ stats[j].endpoint = b.endpoint
         /\ More(mode, b, a)
         => WithinRounding(mode, a, b)

(* The three aggregations of the same events agree but for the row of      *)
(* nameless events and for parts of microseconds, which the page loses     *)
(* call by call and the terminal UI only of a sum.  An event with an Error *)
(* has status 502, so that the page may go by the status.                  *)
AnalyticsAgree == FilesAgree /\ ViewsAgree /\ OrdersAgree

(* Each duration of a sorted sequence, times over. *)
Repeated(sorted, times) ==
  [i \in 1..(times * Len(sorted)) |-> sorted[(i - 1) \div times + 1]]

(* Of the other calls at most 95 in 100 are faster than the p95, and at    *)
(* most 5 in 100, rounded up to a whole call, are slower.                  *)
Cuts(calls) ==
  LET others == Len(calls) - 1
      p95 == percentile(calls)
  IN /\ 20 * Cardinality({i \in DOMAIN calls : calls[i] < p95}) <= 19 * others
     /\ 20 * Cardinality({i \in DOMAIN calls : calls[i] > p95}) <= others + 19

(* The p95 of an export cuts the calls of an endpoint 95 to 5, also when   *)
(* every call is made many times.                                          *)
P95Cuts ==
  \A key \in endpoints(log), times \in 1..MaxTimes :
    Cuts(Repeated(Durations(log, Group(log, key)), times))

=============================================================================
