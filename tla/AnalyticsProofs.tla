---------------------------- MODULE AnalyticsProofs ----------------------------
(***************************************************************************)
(* The three aggregations agree, and the p95 of the exports, for any       *)
(* number of events of any endpoints and durations.                        *)
(*                                                                         *)
(* Whatever is sorted can be: by keys (Enumeration, by the smallest number *)
(* of elements of which it could not) or by a strict total order, in which *)
(* an element's key is how many come before it (StrictOrderArranges).      *)
(*                                                                         *)
(* The p95: a sorted sequence stays sorted when every call is repeated,    *)
(* and the element percentile() takes from a sorted sequence has so many   *)
(* before it and so many behind.                                           *)
(*                                                                         *)
(* The aggregations: each endpoint has one first event (FirstSeenOnce),    *)
(* the page's events are in the same groups as those they were cut from    *)
(* (CutEvents), a sum of cut durations stays within a microsecond a call   *)
(* of the sum (CutSum), and the same calls come at the same places when    *)
(* durations are sorted before or after they are cut (SameKeys).  From     *)
(* this the rows are compared one by one, and what the page may put in     *)
(* front of what (MoreWithinRounding).                                     *)
(***************************************************************************)
EXTENDS Analytics, FiniteSetTheorems, FunctionTheorems, WellFoundedInduction, TLAPS

Ordered(seq) == \A i, j \in DOMAIN seq : i < j => seq[i] <= seq[j]

-------------------------------------------------------------------------------
(* Sorting *)

(* Every set of natural numbers has a smallest one. *)
LEMMA Smallest ==
  ASSUME NEW T \in SUBSET Nat, T # {}
  PROVE  \E x \in T : \A y \in T : x <= y
<1> DEFINE R == OpToRel(<, Nat)
<1>1. IsWellFoundedOn(R, Nat)
  BY NatLessThanWellFounded
<1>2. \A x, y \in Nat : y < x => <<y, x>> \in R
  BY DEF OpToRel
<1> HIDE DEF R
<1>3. PICK x \in T : \A y \in T : <<y, x>> \notin R
  BY <1>1, WFMin
<1>4. \A y \in T : x <= y
  <2> SUFFICES ASSUME NEW y \in T PROVE x <= y
    OBVIOUS
  <2>1. x \in Nat /\ y \in Nat
    OBVIOUS
  <2>2. ~(y < x)
    BY <1>2, <1>3, <2>1
  <2> QED BY <2>1, <2>2
<1> QED BY <1>4

(* An order of n elements in which their keys do not fall. *)
Enumerations(S, n, key) ==
  {f \in [1..n -> S] :
     /\ \A i, j \in 1..n : i # j => f[i] # f[j]
     /\ \A i, j \in 1..n : i < j => key[f[i]] <= key[f[j]]}

(* One that begins with the element of the smallest key. *)
LEMMA EnumerationFrom ==
  ASSUME NEW S, NEW n \in Nat, NEW key \in [S -> Nat],
         NEW first \in S, \A x \in S : key[first] <= key[x],
         NEW rest \in Enumerations(S \ {first}, n, key)
  PROVE  Enumerations(S, n + 1, key) # {}
<1> DEFINE f == [i \in 1..(n + 1) |-> IF i = 1 THEN first ELSE rest[i - 1]]
<1>1. \A i \in 1..(n + 1) : i # 1 => i - 1 \in 1..n
  OBVIOUS
<1>2. /\ rest \in [1..n -> S \ {first}]
      /\ \A i, j \in 1..n : i # j => rest[i] # rest[j]
      /\ \A i, j \in 1..n : i < j => key[rest[i]] <= key[rest[j]]
  BY DEF Enumerations
<1>3. /\ f[1] = first
      /\ \A i \in 1..(n + 1) : i # 1 => f[i] = rest[i - 1] /\ f[i] \in S \ {first}
  BY <1>1, <1>2
<1>4. f \in [1..(n + 1) -> S]
  BY <1>1, <1>2
<1> HIDE DEF f
<1>5. \A i, j \in 1..(n + 1) : i # j => f[i] # f[j]
  <2> SUFFICES ASSUME NEW i \in 1..(n + 1), NEW j \in 1..(n + 1), i # j PROVE f[i] # f[j]
    OBVIOUS
  <2>1. CASE i # 1 /\ j # 1
    <3>1. i - 1 # j - 1
      OBVIOUS
    <3> QED BY <1>1, <1>2, <1>3, <2>1, <3>1
  <2>2. CASE i = 1 \/ j = 1
    BY <1>3, <2>2
  <2> QED BY <2>1, <2>2
<1>6. \A i, j \in 1..(n + 1) : i < j => key[f[i]] <= key[f[j]]
  <2> SUFFICES ASSUME NEW i \in 1..(n + 1), NEW j \in 1..(n + 1), i < j
               PROVE  key[f[i]] <= key[f[j]]
    OBVIOUS
  <2>1. j # 1
    OBVIOUS
  <2>2. CASE i = 1
    BY <1>3, <2>1, <2>2
  <2>3. CASE i # 1
    <3>1. i - 1 < j - 1
      OBVIOUS
    <3> QED BY <1>1, <1>2, <1>3, <2>1, <2>3, <3>1
  <2> QED BY <2>2, <2>3
<1>7. f \in Enumerations(S, n + 1, key)
  BY <1>4, <1>5, <1>6 DEF Enumerations
<1> QED BY <1>7

(* Every finite set can be sorted by its keys. *)
LEMMA Enumeration ==
  ASSUME NEW S, IsFiniteSet(S), NEW key \in [S -> Nat]
  PROVE  Enumerations(S, Cardinality(S), key) # {}
<1> DEFINE Unsorted(T) == Enumerations(T, Cardinality(T), key) = {}
           Bad == {n \in Nat : \E T \in SUBSET S : Cardinality(T) = n /\ Unsorted(T)}
<1> HIDE DEF Unsorted
<1>1. Bad \in SUBSET Nat
  OBVIOUS
<1>2. \A T \in SUBSET S : IsFiniteSet(T) /\ Cardinality(T) \in Nat
  BY FS_Subset, FS_CardinalityType
<1>3. CASE Bad = {}
  <2>1. Cardinality(S) \in Nat /\ ~Unsorted(S)
    BY <1>2, <1>3
  <2> QED BY <2>1 DEF Unsorted
<1>4. CASE Bad # {}
  <2>1. PICK n \in Bad : \A m \in Bad : n <= m
    BY <1>1, <1>4, Smallest
  <2>2. PICK T \in SUBSET S : Cardinality(T) = n /\ Unsorted(T)
    OBVIOUS
  <2>3. n \in Nat /\ IsFiniteSet(T)
    BY <1>2, <2>2
  <2>4. CASE T = {}
    <3>1. n = 0
      BY <2>2, <2>4, FS_EmptySet
    <3>2. [i \in 1..0 |-> i] \in Enumerations(T, 0, key)
      BY DEF Enumerations
    <3> QED BY <2>2, <3>1, <3>2 DEF Unsorted
  <2>5. CASE T # {}
    <3> DEFINE keys == {key[x] : x \in T}
    <3>1. keys \in SUBSET Nat /\ keys # {}
      BY <2>5
    <3>2. PICK k \in keys : \A l \in keys : k <= l
      BY <3>1, Smallest
    <3>3. PICK first \in T : k = key[first]
      BY <3>2
    <3>4. \A x \in T : key[first] <= key[x]
      BY <3>2, <3>3
    <3>5. Cardinality(T \ {first}) = n - 1 /\ n - 1 \in Nat
      <4>1. Cardinality(T \ {first}) = n - 1
        BY <2>2, <2>3, FS_RemoveElement
      <4>2. Cardinality(T \ {first}) \in Nat
        BY <1>2
      <4> QED BY <4>1, <4>2
    <3>6. ~Unsorted(T \ {first})
      <4>1. n - 1 \notin Bad
        BY <2>1, <2>3
      <4> QED BY <3>5, <4>1
    <3>7. PICK rest \in Enumerations(T \ {first}, n - 1, key) : TRUE
      BY <3>5, <3>6 DEF Unsorted
    <3> DEFINE part == [x \in T |-> key[x]]
    <3>8. Enumerations(T, n, key) # {}
      <4>1. part \in [T -> Nat] /\ \A x \in T : part[x] = key[x]
        OBVIOUS
      <4> HIDE DEF part
      <4>2. rest \in Enumerations(T \ {first}, n - 1, part)
        BY <3>5, <4>1 DEF Enumerations
      <4>3. \A x \in T : part[first] <= part[x]
        BY <3>4, <4>1
      <4>4. Enumerations(T, (n - 1) + 1, part) # {}
        BY <3>5, <4>1, <4>2, <4>3, EnumerationFrom
      <4>5. PICK f \in Enumerations(T, n, part) : TRUE
        BY <2>3, <4>4
      <4>6. f \in Enumerations(T, n, key)
        BY <2>3, <4>1 DEF Enumerations
      <4> QED BY <4>6
    <3> QED BY <2>2, <3>8 DEF Unsorted
  <2> QED BY <2>4, <2>5
<1> QED BY <1>3, <1>4

(* An order of a finite set has each of its elements once. *)
LEMMA Arrangement ==
  ASSUME NEW S, IsFiniteSet(S), NEW s \in SetToSeqs(S)
  PROVE  /\ Cardinality(S) \in Nat /\ s \in [1..Cardinality(S) -> S]
         /\ \A i, j \in 1..Cardinality(S) : i # j => s[i] # s[j]
         /\ \A x \in S : \E i \in 1..Cardinality(S) : s[i] = x
<1> DEFINE n == Cardinality(S)
<1>1. n \in Nat
  BY FS_CardinalityType
<1>2. s \in [1..n -> S] /\ \A i, j \in 1..n : i # j => s[i] # s[j]
  BY DEF SetToSeqs
<1>3. IsFiniteSet(1..n) /\ Cardinality(1..n) = n
  <2>1. IsFiniteSet(1..n) /\ Cardinality(1..n) = IF 1 > n THEN 0 ELSE n - 1 + 1
    BY <1>1, FS_Interval
  <2> QED BY <1>1, <2>1
<1>4. s \in Injection(1..n, S)
  BY <1>2, Fun_IsInj
<1>5. s \in Surjection(1..n, S)
  BY <1>3, <1>4, FS_Injection
<1>6. \A x \in S : \E i \in 1..n : s[i] = x
  BY <1>5 DEF Surjection
<1> QED BY <1>1, <1>2, <1>6

(* An order by keys is one of the orders SetToSeqs has. *)
LEMMA SortedByKey ==
  ASSUME NEW S, IsFiniteSet(S), NEW key \in [S -> Nat]
  PROVE  \E s \in SetToSeqs(S) :
           /\ s \in [1..Cardinality(S) -> S]
           /\ \A i, j \in 1..Cardinality(S) : i # j => s[i] # s[j]
           /\ \A i, j \in 1..Cardinality(S) : i < j => key[s[i]] <= key[s[j]]
<1>1. PICK f \in Enumerations(S, Cardinality(S), key) : TRUE
  BY Enumeration
<1>2. /\ f \in [1..Cardinality(S) -> S]
      /\ \A i, j \in 1..Cardinality(S) : i # j => f[i] # f[j]
      /\ \A i, j \in 1..Cardinality(S) : i < j => key[f[i]] <= key[f[j]]
  BY DEF Enumerations
<1>3. f \in SetToSeqs(S)
  BY <1>2 DEF SetToSeqs
<1> QED BY <1>2, <1>3

(* A finite set of numbers has an ascending order. *)
LEMMA AscendingOrder ==
  ASSUME NEW S \in SUBSET Nat, IsFiniteSet(S)
  PROVE  Ascending(S) \in SetToSeqs(S)
<1> DEFINE n == Cardinality(S)
           Rises(s) == \A i, j \in DOMAIN s : i < j => s[i] < s[j]
           order == CHOOSE s \in SetToSeqs(S) : Rises(s)
           key == [x \in S |-> x]
<1>1. key \in [S -> Nat] /\ \A x \in S : key[x] = x
  OBVIOUS
<1> HIDE DEF key
<1>2. PICK f \in SetToSeqs(S) :
        /\ f \in [1..n -> S]
        /\ \A i, j \in 1..n : i # j => f[i] # f[j]
        /\ \A i, j \in 1..n : i < j => key[f[i]] <= key[f[j]]
  BY <1>1, SortedByKey
<1>3. Rises(f)
  <2> SUFFICES ASSUME NEW i \in 1..n, NEW j \in 1..n, i < j PROVE f[i] < f[j]
    BY <1>2
  <2>1. n \in Nat
    BY FS_CardinalityType
  <2>2. i # j /\ f[i] \in S /\ f[j] \in S
    BY <1>2, <2>1
  <2>3. f[i] # f[j] /\ f[i] <= f[j]
    BY <1>1, <1>2, <2>2
  <2>4. f[i] \in Nat /\ f[j] \in Nat
    BY <2>2
  <2> QED BY <2>3, <2>4
<1>4. \E s \in SetToSeqs(S) : Rises(s)
  BY <1>3
<1> HIDE DEF Rises
<1>5. order \in SetToSeqs(S)
  BY <1>4
<1>6. Ascending(S) = order
  BY DEF Ascending, Arranged, order, Rises
<1> QED BY <1>5, <1>6

(* Filtering keeps each of the elements it is to keep once, and no other. *)
LEMMA FilteredElements ==
  ASSUME NEW k \in Nat, NEW seq, DOMAIN seq = 1..k, NEW keep \in SUBSET (1..k)
  PROVE  /\ Cardinality(keep) \in Nat
         /\ Ascending(keep) \in [1..Cardinality(keep) -> keep]
         /\ \A i, j \in 1..Cardinality(keep) : i # j => Ascending(keep)[i] # Ascending(keep)[j]
         /\ \A x \in keep : \E i \in 1..Cardinality(keep) : Ascending(keep)[i] = x
         /\ Filtered(seq, keep) = [n \in 1..Cardinality(keep) |-> seq[Ascending(keep)[n]]]
<1> DEFINE m == Cardinality(keep)
           order == Ascending(keep)
<1>1. IsFiniteSet(keep) /\ keep \in SUBSET Nat
  <2>1. IsFiniteSet(1..k)
    BY FS_Interval
  <2>2. IsFiniteSet(keep)
    BY <2>1, FS_Subset
  <2>3. 1..k \in SUBSET Nat
    OBVIOUS
  <2> QED BY <2>2, <2>3
<1>2. order \in SetToSeqs(keep)
  BY <1>1, AscendingOrder
<1> HIDE DEF order
<1>3. /\ m \in Nat /\ order \in [1..m -> keep]
      /\ \A i, j \in 1..m : i # j => order[i] # order[j]
      /\ \A x \in keep : \E i \in 1..m : order[i] = x
  BY <1>1, <1>2, Arrangement
<1>4. Filtered(seq, keep) = [n \in 1..m |-> seq[order[n]]]
  <2>1. DOMAIN order = 1..m
    BY <1>3
  <2> QED BY <2>1 DEF Filtered, order
<1> QED BY <1>3, <1>4 DEF order

(* An order of a finite set by keys. *)
SortedBy(f, S, key) ==
  /\ f \in [1..Cardinality(S) -> S]
  /\ \A i, j \in 1..Cardinality(S) : i # j => f[i] # f[j]
  /\ \A x \in S : \E i \in 1..Cardinality(S) : f[i] = x
  /\ \A i, j \in 1..Cardinality(S) : i < j => key[f[i]] <= key[f[j]]

(* The order in which Durations takes a group. *)
SortsDurations(f, evs, group, key) ==
  /\ SortedBy(f, group, key)
  /\ Durations(evs, group) = [n \in 1..Cardinality(group) |-> key[f[n]]]

(* Durations sorts the durations of a group. *)
LEMMA DurationsOrder ==
  ASSUME NEW evs, NEW group, IsFiniteSet(group), NEW key \in [group -> Nat],
         \A i \in group : key[i] = evs[i].duration
  PROVE  \E f : SortsDurations(f, evs, group, key)
<1> DEFINE n == Cardinality(group)
           Sorted(s) == \A i, j \in DOMAIN s : i < j => evs[s[i]].duration <= evs[s[j]].duration
           order == CHOOSE s \in SetToSeqs(group) : Sorted(s)
<1>1. n \in Nat
  BY FS_CardinalityType
<1> HIDE DEF n
<1>2. PICK f \in SetToSeqs(group) :
        /\ f \in [1..n -> group]
        /\ \A i, j \in 1..n : i # j => f[i] # f[j]
        /\ \A i, j \in 1..n : i < j => key[f[i]] <= key[f[j]]
  BY SortedByKey DEF n
<1>3. \E s \in SetToSeqs(group) : Sorted(s)
  <2>1. Sorted(f)
    BY <1>2
  <2> QED BY <2>1
<1>4. order \in SetToSeqs(group) /\ Sorted(order)
  <2> HIDE DEF Sorted
  <2> QED BY <1>3
<1>5. Durations(evs, group) = [i \in DOMAIN order |-> evs[order[i]].duration]
  BY DEF Durations, Arranged
<1> HIDE DEF order
<1>6. /\ order \in [1..n -> group]
      /\ \A i, j \in 1..n : i # j => order[i] # order[j]
      /\ \A x \in group : \E i \in 1..n : order[i] = x
  BY <1>4, Arrangement DEF n
<1>7. \A i, j \in 1..n : i < j => key[order[i]] <= key[order[j]]
  BY <1>4, <1>6
<1>8. Durations(evs, group) = [i \in 1..n |-> key[order[i]]]
  BY <1>5, <1>6
<1>9. SortedBy(order, group, key)
  BY <1>6, <1>7 DEF SortedBy, n
<1> QED BY <1>8, <1>9 DEF SortsDurations, n

(* The durations of a group that is not empty are sorted, one for each     *)
(* event of it.                                                            *)
LEMMA DurationsSorted ==
  ASSUME AnalyticsAssumption, NEW evs \in Seq(Calls), NEW group \in SUBSET DOMAIN evs, group # {}
  PROVE  /\ Durations(evs, group) \in Seq(Nat) /\ Ordered(Durations(evs, group))
         /\ Len(Durations(evs, group)) = Cardinality(group)
         /\ Cardinality(group) \in Nat \ {0}
<1> DEFINE n == Cardinality(group)
           key == [i \in group |-> evs[i].duration]
<1>1. IsFiniteSet(group) /\ n \in Nat \ {0}
  <2>1. IsFiniteSet(DOMAIN evs)
    <3>1. DOMAIN evs = 1..Len(evs) /\ Len(evs) \in Nat
      OBVIOUS
    <3> QED BY <3>1, FS_Interval
  <2>2. IsFiniteSet(group)
    BY <2>1, FS_Subset
  <2> QED BY <2>2, FS_CardinalityType, FS_EmptySet
<1>2. \A i \in group : evs[i].duration \in Nat
  <2>1. \A i \in group : evs[i] \in Calls
    OBVIOUS
  <2> QED BY <2>1 DEF AnalyticsAssumption
<1>3. key \in [group -> Nat] /\ \A i \in group : key[i] = evs[i].duration
  BY <1>2
<1> HIDE DEF key, n
<1>4. PICK f : SortsDurations(f, evs, group, key)
  BY <1>1, <1>3, DurationsOrder
<1>5. f \in [1..n -> group] /\ \A i, j \in 1..n : i < j => key[f[i]] <= key[f[j]]
  BY <1>4 DEF SortsDurations, SortedBy, n
<1> DEFINE durations == [i \in 1..n |-> key[f[i]]]
<1>6. durations \in [1..n -> Nat] /\ Ordered(durations)
  BY <1>3, <1>5 DEF Ordered
<1>7. Durations(evs, group) = durations
  BY <1>4 DEF SortsDurations, n
<1> HIDE DEF durations
<1>8. durations \in Seq(Nat) /\ Len(durations) = n
  BY <1>1, <1>6
<1> QED BY <1>1, <1>6, <1>7, <1>8 DEF n

-------------------------------------------------------------------------------
(* Repeating *)

(* Division by a natural number keeps the order. *)
LEMMA DivisionKeepsOrder ==
  ASSUME NEW t \in Nat \ {0}, NEW a \in Nat, NEW b \in Nat, a <= b
  PROVE  a \div t \in Nat /\ b \div t \in Nat /\ a \div t <= b \div t
<1> DEFINE p == a \div t
           q == b \div t
<1>1. /\ p \in Nat /\ q \in Nat
      /\ t * p <= a /\ b < t * (q + 1)
  OBVIOUS
<1> HIDE DEF p, q
<1>2. ASSUME q < p PROVE FALSE
  <2>1. t * (q + 1) <= t * p
    BY <1>1, <1>2
  <2> QED BY <1>1, <2>1
<1>3. p <= q
  BY <1>1, <1>2
<1> QED BY <1>1, <1>3 DEF p, q


(* A sorted sequence is still sorted when every element is repeated. *)
LEMMA RepeatedSorted ==
  ASSUME NEW sorted \in Seq(Nat), Ordered(sorted), Len(sorted) # 0, NEW times \in Nat \ {0}
  PROVE  /\ Repeated(sorted, times) \in Seq(Nat) /\ Ordered(Repeated(sorted, times))
         /\ Len(Repeated(sorted, times)) \in Nat \ {0}
<1> DEFINE n == Len(sorted)
           m == times * n
           at(i) == (i - 1) \div times + 1
           calls == [i \in 1..m |-> sorted[at(i)]]
<1>1. n \in Nat \ {0} /\ DOMAIN sorted = 1..n
  OBVIOUS
<1> HIDE DEF n
<1>2. m \in Nat \ {0}
  BY <1>1
<1>3. \A i \in 1..m : at(i) \in 1..n
  <2> SUFFICES ASSUME NEW i \in 1..m PROVE at(i) \in 1..n
    OBVIOUS
  <2> DEFINE q == (i - 1) \div times
  <2>1. q \in Nat /\ times * q <= i - 1 /\ i <= times * n
    <3>1. \A a \in Nat, t \in Nat \ {0} : a \div t \in Nat /\ t * (a \div t) <= a
      OBVIOUS
    <3>2. i - 1 \in Nat /\ i <= times * n
      BY <1>1
    <3> QED BY <3>1, <3>2
  <2> HIDE DEF q
  <2>2. ASSUME n <= q PROVE FALSE
    <3>1. times * n <= times * q
      BY <1>1, <2>1, <2>2
    <3> QED BY <1>1, <2>1, <3>1
  <2>3. q < n
    BY <1>1, <2>1, <2>2
  <2> QED BY <1>1, <2>1, <2>3 DEF q
<1>4. \A i, j \in 1..m : i < j => at(i) <= at(j)
  <2> SUFFICES ASSUME NEW i \in 1..m, NEW j \in 1..m, i < j PROVE at(i) <= at(j)
    OBVIOUS
  <2>1. i - 1 \in Nat /\ j - 1 \in Nat /\ i - 1 <= j - 1
    BY <1>2
  <2>2. (i - 1) \div times <= (j - 1) \div times
        /\ (i - 1) \div times \in Nat /\ (j - 1) \div times \in Nat
    BY ONLY <2>1, DivisionKeepsOrder, times \in Nat \ {0}
  <2> QED BY <2>2
<1> HIDE DEF at, m
<1>5. \A k, l \in 1..n : k <= l => sorted[k] <= sorted[l] /\ sorted[k] \in Nat
  BY <1>1 DEF Ordered
<1>6. calls \in [1..m -> Nat] /\ Ordered(calls)
  <2>1. calls \in [1..m -> Nat]
    BY <1>1, <1>3, <1>5
  <2>2. \A i, j \in 1..m : i < j => calls[i] <= calls[j]
    BY <1>3, <1>4, <1>5
  <2> QED BY <2>1, <2>2 DEF Ordered
<1>7. Repeated(sorted, times) = calls
  BY DEF Repeated, calls, at, m, n
<1> HIDE DEF calls
<1>8. calls \in Seq(Nat) /\ Len(calls) = m
  BY <1>2, <1>6
<1> QED BY <1>2, <1>6, <1>7, <1>8

-------------------------------------------------------------------------------
(* Cutting *)

(* A set within an interval has no more elements than it. *)
LEMMA WithinInterval ==
  ASSUME NEW a \in Nat \ {0}, NEW b \in Nat, a <= b + 1, NEW T \in SUBSET (a..b)
  PROVE  Cardinality(T) \in Nat /\ Cardinality(T) <= b + 1 - a
<1>1. IsFiniteSet(a..b) /\ Cardinality(a..b) = b + 1 - a
  <2>1. IsFiniteSet(a..b) /\ Cardinality(a..b) = IF a > b THEN 0 ELSE b - a + 1
    BY FS_Interval
  <2> QED BY <2>1
<1> QED BY <1>1, FS_Subset, FS_CardinalityType

(* percentile() cuts every sorted sequence 95 to 5. *)
LEMMA SortedCuts ==
  ASSUME NEW calls \in Seq(Nat), Ordered(calls), Len(calls) # 0
  PROVE  Cuts(calls)
<1> DEFINE n == Len(calls)
           k == ((n - 1) * 95) \div 100 + 1
           Faster == {i \in DOMAIN calls : calls[i] < calls[k]}
           Slower == {i \in DOMAIN calls : calls[i] > calls[k]}
<1>1. n \in Nat \ {0} /\ DOMAIN calls = 1..n /\ \A i \in 1..n : calls[i] \in Nat
  OBVIOUS
<1> HIDE DEF n
<1>2. k \in 1..n /\ 20 * (k - 1) <= 19 * (n - 1) /\ 20 * (n - k) <= n - 1 + 19
  BY <1>1
<1> HIDE DEF k
<1>3. \A i, j \in 1..n : i <= j => calls[i] <= calls[j]
  BY <1>1 DEF Ordered
<1>4. Faster \in SUBSET (1..(k - 1)) /\ Slower \in SUBSET ((k + 1)..n)
  <2>1. ASSUME NEW i \in 1..n, calls[i] < calls[k] PROVE i \in 1..(k - 1)
    BY <1>1, <1>2, <1>3, <2>1
  <2>2. ASSUME NEW i \in 1..n, calls[i] > calls[k] PROVE i \in (k + 1)..n
    BY <1>1, <1>2, <1>3, <2>2
  <2> QED BY <1>1, <2>1, <2>2
<1>5. Cardinality(Faster) \in Nat /\ Cardinality(Faster) <= k - 1
  <2>1. /\ 1 \in Nat \ {0} /\ k - 1 \in Nat
        /\ 1 <= (k - 1) + 1 /\ (k - 1) + 1 - 1 = k - 1
    BY <1>1, <1>2
  <2> HIDE DEF Faster
  <2>2. Cardinality(Faster) \in Nat /\ Cardinality(Faster) <= (k - 1) + 1 - 1
    BY <1>4, <2>1, WithinInterval
  <2> QED BY <2>1, <2>2
<1>6. Cardinality(Slower) \in Nat /\ Cardinality(Slower) <= n - k
  <2>1. k + 1 \in Nat \ {0} /\ k + 1 <= n + 1 /\ n \in Nat /\ n + 1 - (k + 1) = n - k
    BY <1>1, <1>2
  <2> HIDE DEF Slower
  <2>2. Cardinality(Slower) \in Nat /\ Cardinality(Slower) <= n + 1 - (k + 1)
    BY <1>4, <2>1, WithinInterval
  <2> QED BY <2>1, <2>2
<1>7. percentile(calls) = calls[k]
  BY DEF percentile, k, n
<1>8. /\ 20 * Cardinality(Faster) <= 19 * (n - 1)
      /\ 20 * Cardinality(Slower) <= (n - 1) + 19
  <2> HIDE DEF Faster, Slower
  <2> QED BY <1>1, <1>2, <1>5, <1>6
<1> QED BY <1>7, <1>8 DEF Cuts, Faster, Slower, n

-------------------------------------------------------------------------------
(* The rows of the three aggregations *)

(* The endpoints FirstSeen returns are those of the events, each once. *)
LEMMA FirstSeenOnce ==
  ASSUME NEW evs \in Seq(Calls)
  PROVE  \E m \in Nat :
           /\ FirstSeen(evs) \in [1..m -> {evs[i].endpoint : i \in DOMAIN evs}]
           /\ \A i, j \in 1..m : i # j => FirstSeen(evs)[i] # FirstSeen(evs)[j]
           /\ \A i \in DOMAIN evs : \E n \in 1..m : FirstSeen(evs)[n] = evs[i].endpoint
<1> DEFINE k == Len(evs)
           keys == [i \in 1..k |-> evs[i].endpoint]
           first == {i \in 1..k : \A j \in 1..(i - 1) : evs[j].endpoint # evs[i].endpoint}
<1>1. k \in Nat /\ DOMAIN evs = 1..k
  OBVIOUS
<1>2. FirstSeen(evs) = Filtered(keys, first)
  BY <1>1 DEF FirstSeen
<1> HIDE DEF k
<1>3. DOMAIN keys = 1..k /\ \A i \in 1..k : keys[i] = evs[i].endpoint
  OBVIOUS
<1>4. first \in SUBSET (1..k) /\ \A i, j \in first : i < j => keys[i] # keys[j]
  <2> SUFFICES ASSUME NEW i \in first, NEW j \in first, i < j PROVE keys[i] # keys[j]
    OBVIOUS
  <2>1. i \in 1..(j - 1)
    BY <1>1
  <2> QED BY <1>3, <2>1
<1>5. \A i \in 1..k : \E f \in first : keys[f] = keys[i]
  <2> SUFFICES ASSUME NEW i \in 1..k PROVE \E f \in first : keys[f] = keys[i]
    OBVIOUS
  <2> DEFINE Same == {j \in 1..k : keys[j] = keys[i]}
  <2>1. Same \in SUBSET Nat /\ Same # {}
    OBVIOUS
  <2>2. PICK f \in Same : \A j \in Same : f <= j
    BY <2>1, Smallest
  <2>3. f \in 1..k /\ keys[f] = keys[i]
    BY <2>2
  <2>4. ASSUME NEW j \in 1..(f - 1), keys[j] = keys[f] PROVE FALSE
    <3>1. j \in 1..k /\ j < f
      BY <1>1, <2>3
    <3>2. j \in Same
      BY <2>3, <2>4, <3>1
    <3> QED BY <1>1, <2>2, <2>3, <3>1, <3>2
  <2>5. f \in first
    <3>1. \A j \in 1..(f - 1) : j \in 1..k
      BY <1>1, <2>3
    <3> QED BY <1>3, <2>3, <2>4, <3>1
  <2> QED BY <2>3, <2>5
<1> HIDE DEF keys, first
<1> DEFINE m == Cardinality(first)
           order == Ascending(first)
<1> HIDE DEF m, order
<1>6. /\ m \in Nat /\ order \in [1..m -> first]
      /\ \A i, j \in 1..m : i # j => order[i] # order[j]
      /\ \A x \in first : \E i \in 1..m : order[i] = x
      /\ Filtered(keys, first) = [n \in 1..m |-> keys[order[n]]]
  BY <1>1, <1>3, <1>4, FilteredElements DEF m, order
<1> DEFINE seen == [n \in 1..m |-> keys[order[n]]]
<1>8. seen \in [1..m -> {evs[i].endpoint : i \in DOMAIN evs}]
  <2> SUFFICES ASSUME NEW n \in 1..m PROVE seen[n] \in {evs[i].endpoint : i \in DOMAIN evs}
    BY <1>6
  <2>1. order[n] \in first
    BY <1>6
  <2>2. order[n] \in 1..k
    BY <1>4, <2>1
  <2> QED BY <1>1, <1>3, <2>2
<1>9. \A i, j \in 1..m : i # j => seen[i] # seen[j]
  <2> SUFFICES ASSUME NEW i \in 1..m, NEW j \in 1..m, i # j PROVE seen[i] # seen[j]
    OBVIOUS
  <2>1. order[i] \in first /\ order[j] \in first /\ order[i] # order[j]
    BY <1>6
  <2>2. order[i] \in 1..k /\ order[j] \in 1..k
    BY <1>4, <2>1
  <2>3. order[i] < order[j] \/ order[j] < order[i]
    BY <1>1, <2>1, <2>2
  <2> QED BY <1>4, <2>1, <2>3
<1>10. \A i \in DOMAIN evs : \E n \in 1..m : seen[n] = evs[i].endpoint
  <2> SUFFICES ASSUME NEW i \in 1..k PROVE \E n \in 1..m : seen[n] = evs[i].endpoint
    BY <1>1
  <2>1. PICK f \in first : keys[f] = keys[i]
    BY <1>5
  <2>2. PICK n \in 1..m : order[n] = f
    BY <1>6
  <2> QED BY <1>3, <2>1, <2>2
<1>11. FirstSeen(evs) = seen
  BY <1>2, <1>6
<1> HIDE DEF seen
<1>12. m \in Nat
  BY <1>6
<1> WITNESS m \in Nat
<1> QED BY <1>8, <1>9, <1>10, <1>11

-------------------------------------------------------------------------------
(* Sorting the rows *)

(* A strict total order of a finite set arranges it: each element comes as *)
(* late as it has others before it.                                        *)
LEMMA StrictOrderArranges ==
  ASSUME NEW S, IsFiniteSet(S), NEW R \in SUBSET (S \X S),
         \A x \in S : <<x, x>> \notin R,
         \A x, y \in S : x # y => <<x, y>> \in R \/ <<y, x>> \in R,
         \A x, y, z \in S : <<x, y>> \in R /\ <<y, z>> \in R => <<x, z>> \in R
  PROVE  \E s \in SetToSeqs(S) :
           /\ s \in [1..Cardinality(S) -> S]
           /\ \A i, j \in 1..Cardinality(S) : i < j => <<s[i], s[j]>> \in R
<1> DEFINE n == Cardinality(S)
           Before(y) == {x \in S : <<x, y>> \in R}
           rank == [y \in S |-> Cardinality(Before(y))]
<1>1. n \in Nat /\ \A y \in S : IsFiniteSet(Before(y)) /\ Cardinality(Before(y)) \in Nat
  <2> SUFFICES ASSUME NEW y \in S PROVE IsFiniteSet(Before(y)) /\ Cardinality(Before(y)) \in Nat
    BY FS_CardinalityType
  <2>1. Before(y) \in SUBSET S
    OBVIOUS
  <2> HIDE DEF Before
  <2>2. IsFiniteSet(Before(y))
    BY <2>1, FS_Subset
  <2> QED BY <2>2, FS_CardinalityType
<1>2. rank \in [S -> Nat] /\ \A y \in S : rank[y] = Cardinality(Before(y))
  BY <1>1
<1>3. ASSUME NEW x \in S, NEW y \in S, <<x, y>> \in R PROVE rank[x] < rank[y]
  <2>1. Before(x) \in SUBSET Before(y) /\ x \in Before(y) /\ x \notin Before(x)
    BY <1>3
  <2> HIDE DEF Before
  <2>2. IsFiniteSet(Before(y)) /\ Before(x) # Before(y)
    BY <1>1, <2>1
  <2>3. /\ Cardinality(Before(x)) <= Cardinality(Before(y))
        /\ Cardinality(Before(y)) # Cardinality(Before(x))
    BY <2>1, <2>2, FS_Subset
  <2>4. Cardinality(Before(x)) \in Nat /\ Cardinality(Before(y)) \in Nat
    BY <1>1
  <2>5. \A a, b \in Nat : a <= b /\ b # a => a < b
    OBVIOUS
  <2> QED BY <1>2, <2>3, <2>4, <2>5
<1> HIDE DEF rank
<1>4. PICK f \in SetToSeqs(S) :
        /\ f \in [1..n -> S]
        /\ \A i, j \in 1..n : i # j => f[i] # f[j]
        /\ \A i, j \in 1..n : i < j => rank[f[i]] <= rank[f[j]]
  BY <1>2, SortedByKey
<1>5. ASSUME NEW i \in 1..n, NEW j \in 1..n, i < j PROVE <<f[i], f[j]>> \in R
  <2>1. f[i] \in S /\ f[j] \in S /\ f[i] # f[j]
    BY <1>1, <1>4, <1>5
  <2>2. rank[f[i]] \in Nat /\ rank[f[j]] \in Nat /\ rank[f[i]] <= rank[f[j]]
    BY <1>2, <1>4, <1>5, <2>1
  <2>3. <<f[j], f[i]>> \notin R
    <3>1. ~(rank[f[j]] < rank[f[i]])
      BY <2>2
    <3> QED BY <1>3, <2>1, <3>1
  <2> QED BY <2>1, <2>3
<1> QED BY <1>4, <1>5

(* Fractions are compared by their cross products. *)
LEMMA RatiosInOrder ==
  ASSUME NEW a \in Nat, NEW b \in Nat, NEW c \in Nat,
         NEW x \in Nat \ {0}, NEW y \in Nat \ {0}, NEW z \in Nat \ {0},
         a * y <= b * x, b * z <= c * y
  PROVE  a * z <= c * x
<1>1. (a * y) * z <= (b * x) * z
  <2>1. \A p, q \in Nat : p <= q => p * z <= q * z
    OBVIOUS
  <2>2. a * y \in Nat /\ b * x \in Nat
    OBVIOUS
  <2> QED BY <2>1, <2>2
<1>2. (b * z) * x <= (c * y) * x
  <2>1. \A p, q \in Nat : p <= q => p * x <= q * x
    OBVIOUS
  <2>2. b * z \in Nat /\ c * y \in Nat
    OBVIOUS
  <2> QED BY <2>1, <2>2
<1>3. y * (a * z) <= y * (c * x)
  <2>1. (a * y) * z = y * (a * z) /\ (b * x) * z = (b * z) * x /\ (c * y) * x = y * (c * x)
    OBVIOUS
  <2>2. (a * y) * z \in Nat /\ (b * x) * z \in Nat /\ (c * y) * x \in Nat
    OBVIOUS
  <2> QED BY <1>1, <1>2, <2>1, <2>2
<1>4. \A p, q \in Nat : y * p <= y * q => p <= q
  OBVIOUS
<1>5. a * z \in Nat /\ c * x \in Nat
  OBVIOUS
<1> QED BY <1>3, <1>4, <1>5

(* What a row of the stats counts. *)
Counts(row) ==
  /\ row.count \in Nat \ {0} /\ row.errors \in Nat /\ row.total \in Nat
  /\ row.avg = <<row.total, row.count>>

(* The page compares rows consistently: it never puts both before the      *)
(* other, and one that does not go before a second, which does not go      *)
(* before a third, does not go before the third.                           *)
LEMMA PageMoreIsConsistent ==
  ASSUME NEW mode \in Modes, NEW a, NEW b, NEW c, Counts(a), Counts(b), Counts(c)
  PROVE  /\ PageMore(mode, a, b) => ~PageMore(mode, b, a)
         /\ ~PageMore(mode, a, b) /\ ~PageMore(mode, b, c) => ~PageMore(mode, a, c)
<1>1. /\ a.count \in Nat \ {0} /\ a.errors \in Nat /\ a.total \in Nat
      /\ b.count \in Nat \ {0} /\ b.errors \in Nat /\ b.total \in Nat
      /\ c.count \in Nat \ {0} /\ c.errors \in Nat /\ c.total \in Nat
      /\ a.avg = <<a.total, a.count>> /\ b.avg = <<b.total, b.count>>
      /\ c.avg = <<c.total, c.count>>
  BY DEF Counts
<1>2. CASE mode = "total"
  <2>1. /\ PageMore(mode, a, b) <=> a.total > b.total
        /\ PageMore(mode, b, a) <=> b.total > a.total
        /\ PageMore(mode, b, c) <=> b.total > c.total
        /\ PageMore(mode, a, c) <=> a.total > c.total
    BY <1>2 DEF PageMore
  <2> QED BY <1>1, <2>1
<1>3. CASE mode = "count"
  <2>1. /\ PageMore(mode, a, b) <=> a.count > b.count
        /\ PageMore(mode, b, a) <=> b.count > a.count
        /\ PageMore(mode, b, c) <=> b.count > c.count
        /\ PageMore(mode, a, c) <=> a.count > c.count
    BY <1>3 DEF PageMore
  <2> QED BY <1>1, <2>1
<1>4. \A p, q, r \in Nat : \A x, y, z \in Nat \ {0} :
        /\ p * y > q * x => ~(q * x > p * y)
        /\ ~(p * y > q * x) /\ ~(q * z > r * y) => ~(p * z > r * x)
  <2> SUFFICES ASSUME NEW p \in Nat, NEW q \in Nat, NEW r \in Nat,
                      NEW x \in Nat \ {0}, NEW y \in Nat \ {0}, NEW z \in Nat \ {0}
               PROVE  /\ p * y > q * x => ~(q * x > p * y)
                      /\ ~(p * y > q * x) /\ ~(q * z > r * y) => ~(p * z > r * x)
    OBVIOUS
  <2>1. /\ p * y \in Nat /\ q * x \in Nat /\ q * z \in Nat
        /\ r * y \in Nat /\ p * z \in Nat /\ r * x \in Nat
    OBVIOUS
  <2>2. p * y <= q * x /\ q * z <= r * y => p * z <= r * x
    BY RatiosInOrder
  <2>3. \A t, u \in Nat : (t > u => ~(u > t)) /\ (~(t > u) <=> t <= u)
    OBVIOUS
  <2> QED BY <2>1, <2>2, <2>3
<1>5. CASE mode = "avg"
  <2>1. /\ PageMore(mode, a, b) <=> a.total * b.count > b.total * a.count
        /\ PageMore(mode, b, a) <=> b.total * a.count > a.total * b.count
        /\ PageMore(mode, b, c) <=> b.total * c.count > c.total * b.count
        /\ PageMore(mode, a, c) <=> a.total * c.count > c.total * a.count
    BY <1>1, <1>5 DEF PageMore, Above
  <2> QED BY <1>1, <1>4, <2>1
<1>6. CASE mode = "errors"
  <2>1. /\ PageMore(mode, a, b) <=> a.errors * b.count > b.errors * a.count
        /\ PageMore(mode, b, a) <=> b.errors * a.count > a.errors * b.count
        /\ PageMore(mode, b, c) <=> b.errors * c.count > c.errors * b.count
        /\ PageMore(mode, a, c) <=> a.errors * c.count > c.errors * a.count
    BY <1>6 DEF PageMore, Above
  <2> QED BY <1>1, <1>4, <2>1
<1> QED BY <1>2, <1>3, <1>5, <1>6 DEF Modes

(* The order in which sortStats takes m rows. *)
Sorts(order, m, rows, mode) ==
  /\ order \in [1..m -> 1..m]
  /\ \A i, j \in 1..m : i # j => order[i] # order[j]
  /\ \A x \in 1..m : \E i \in 1..m : order[i] = x
  /\ \A i, j \in 1..m : i < j => ~PageMore(mode, rows[order[j]], rows[order[i]])
  /\ DOMAIN sortStats(rows, mode) = 1..m
  /\ \A n \in 1..m : sortStats(rows, mode)[n] = rows[order[n]]

(* sortStats arranges all rows so that none goes before an earlier one. *)
LEMMA SortStatsArranges ==
  ASSUME NEW mode \in Modes, NEW m \in Nat, NEW rows, DOMAIN rows = 1..m,
         \A n \in 1..m : Counts(rows[n])
  PROVE  \E order : Sorts(order, m, rows, mode)
<1> DEFINE S == 1..m
           Precedes(i, j) ==
             \/ PageMore(mode, rows[i], rows[j])
             \/ ~PageMore(mode, rows[j], rows[i]) /\ i < j
           InOrder(s) == \A i, j \in DOMAIN s : i < j => Precedes(s[i], s[j])
           order == CHOOSE s \in SetToSeqs(S) : InOrder(s)
           M == {p \in S \X S : PageMore(mode, rows[p[1]], rows[p[2]])}
           R == {p \in S \X S : Precedes(p[1], p[2])}
<1>1. \A i, j \in S : <<i, j>> \in M <=> PageMore(mode, rows[i], rows[j])
  OBVIOUS
<1>2. R \in SUBSET (S \X S) /\ \A i, j \in S : <<i, j>> \in R <=> Precedes(i, j)
  OBVIOUS
<1>3. /\ \A i, j \in S : <<i, j>> \in M => <<j, i>> \notin M
      /\ \A i, j, k \in S : <<i, j>> \notin M /\ <<j, k>> \notin M => <<i, k>> \notin M
  BY <1>1, PageMoreIsConsistent
<1>4. \A i, j \in S : <<i, j>> \in R <=> <<i, j>> \in M \/ (<<j, i>> \notin M /\ i < j)
  BY <1>1, <1>2
<1>5. IsFiniteSet(S) /\ Cardinality(S) = m /\ S \in SUBSET Nat
  <2>1. IsFiniteSet(1..m) /\ Cardinality(1..m) = IF 1 > m THEN 0 ELSE m - 1 + 1
    BY FS_Interval
  <2> QED BY <2>1
<1> HIDE DEF M, R, Precedes
<1> HIDE DEF S
<1>6. \A x, y \in S : (x # y => x < y \/ y < x) /\ ~(x < x)
  BY <1>5
<1>7. \A x, y, z \in S : x < y /\ y < z => x < z
  BY <1>5
<1>8. \A x \in S : <<x, x>> \notin R
  BY <1>3, <1>4, <1>6
<1>9. \A x, y \in S : x # y => <<x, y>> \in R \/ <<y, x>> \in R
  BY <1>3, <1>4, <1>6
<1>10. \A x, y, z \in S : <<x, y>> \in R /\ <<y, z>> \in R => <<x, z>> \in R
  BY <1>3, <1>4, <1>7
<1>11. PICK f \in SetToSeqs(S) :
         /\ f \in [1..m -> S]
         /\ \A i, j \in 1..m : i < j => <<f[i], f[j]>> \in R
  BY <1>2, <1>5, <1>8, <1>9, <1>10, StrictOrderArranges
<1>12. \E s \in SetToSeqs(S) : InOrder(s)
  <2>1. \A i, j \in 1..m : i < j => Precedes(f[i], f[j])
    BY <1>2, <1>11
  <2>2. InOrder(f)
    BY <1>11, <2>1
  <2> QED BY <2>2
<1>13. order \in SetToSeqs(S) /\ InOrder(order)
  <2> HIDE DEF InOrder
  <2> QED BY <1>12
<1>14. sortStats(rows, mode) = [n \in 1..m |-> rows[order[n]]]
  BY DEF sortStats, Arranged, order, InOrder, Precedes, S
<1> HIDE DEF order
<1>15. /\ order \in [1..m -> 1..m]
       /\ \A i, j \in 1..m : i # j => order[i] # order[j]
       /\ \A x \in 1..m : \E i \in 1..m : order[i] = x
  <2>1. /\ order \in [1..m -> S]
        /\ \A i, j \in 1..m : i # j => order[i] # order[j]
        /\ \A x \in S : \E i \in 1..m : order[i] = x
    <3>1. order \in SetToSeqs(S)
      BY <1>13
    <3>2. /\ order \in [1..Cardinality(S) -> S]
          /\ \A i, j \in 1..Cardinality(S) : i # j => order[i] # order[j]
          /\ \A x \in S : \E i \in 1..Cardinality(S) : order[i] = x
      BY <1>5, <3>1, Arrangement
    <3> QED BY <1>5, <3>2
  <2> QED BY <2>1 DEF S
<1>16. ASSUME NEW i \in 1..m, NEW j \in 1..m, i < j
       PROVE  ~PageMore(mode, rows[order[j]], rows[order[i]])
  <2>1. order[i] \in S /\ order[j] \in S
    BY <1>15 DEF S
  <2>2. Precedes(order[i], order[j])
    BY <1>13, <1>15, <1>16
  <2>3. <<order[j], order[i]>> \notin M
    BY <1>2, <1>3, <1>4, <2>1, <2>2
  <2> QED BY <1>1, <2>1, <2>3
<1>17. /\ DOMAIN sortStats(rows, mode) = 1..m
       /\ \A n \in 1..m : sortStats(rows, mode)[n] = rows[order[n]]
  BY <1>14
<1> QED BY <1>15, <1>16, <1>17 DEF Sorts

-------------------------------------------------------------------------------
(* Cutting durations to microseconds *)

(* Of two orders by the same keys, the first does not have the smaller key *)
(* at some place: the elements up to there would fit before that place of  *)
(* the other.                                                              *)
LEMMA KeyNotSmaller ==
  ASSUME NEW S, IsFiniteSet(S), NEW key \in [S -> Nat],
         NEW f, SortedBy(f, S, key), NEW g, SortedBy(g, S, key), NEW n \in 1..Cardinality(S)
  PROVE  ~(key[f[n]] < key[g[n]])
<1> SUFFICES ASSUME key[f[n]] < key[g[n]] PROVE FALSE
  OBVIOUS
<1> DEFINE m == Cardinality(S)
<1>1. m \in Nat
  BY FS_CardinalityType
<1>2. /\ f \in [1..m -> S] /\ g \in [1..m -> S]
      /\ \A i, j \in 1..m : i # j => f[i] # f[j]
      /\ \A x \in S : \E i \in 1..m : g[i] = x
      /\ \A i, j \in 1..m : i < j => key[f[i]] <= key[f[j]]
      /\ \A i, j \in 1..m : i < j => key[g[i]] <= key[g[j]]
  BY DEF SortedBy
<1> HIDE DEF m
<1>3. n \in 1..m /\ n \in Nat
  BY <1>1 DEF m
<1>4. \A i \in 1..m : key[f[i]] \in Nat /\ key[g[i]] \in Nat
  BY <1>2
<1>5. ASSUME NEW i \in 1..n PROVE \E j \in 1..(n - 1) : g[j] = f[i]
  <2>1. i \in 1..m /\ (i = n \/ i < n)
    BY <1>1, <1>3
  <2>2. PICK j \in 1..m : g[j] = f[i]
    BY <1>2, <2>1
  <2>3. key[f[i]] <= key[f[n]]
    BY <1>2, <1>3, <1>4, <2>1
  <2>4. key[g[j]] < key[g[n]]
    BY <1>3, <1>4, <2>1, <2>2, <2>3
  <2>5. ~(n <= j)
    <3>1. n = j \/ n < j => key[g[n]] <= key[g[j]]
      BY <1>2, <1>3, <1>4, <2>2
    <3>2. key[g[n]] \in Nat /\ key[g[j]] \in Nat /\ j \in Nat
      BY <1>1, <1>3, <1>4, <2>2
    <3> QED BY <1>3, <2>4, <3>1, <3>2
  <2> QED BY <1>1, <1>3, <2>2, <2>5
<1> DEFINE place == [i \in 1..n |-> CHOOSE j \in 1..(n - 1) : g[j] = f[i]]
<1>6. \A i \in 1..n : place[i] \in 1..(n - 1) /\ g[place[i]] = f[i]
  BY <1>5
<1>7. place \in [1..n -> 1..(n - 1)]
  BY <1>6
<1> HIDE DEF place
<1>8. \A i, j \in 1..n : i # j => place[i] # place[j]
  <2>1. \A i \in 1..n : i \in 1..m
    BY <1>1, <1>3
  <2> QED BY <1>2, <1>6, <2>1
<1>9. place \in Injection(1..n, 1..(n - 1))
  BY <1>7, <1>8, Fun_IsInj
<1>10. \A k \in Nat : IsFiniteSet(1..k) /\ Cardinality(1..k) = k
  <2> SUFFICES ASSUME NEW k \in Nat PROVE IsFiniteSet(1..k) /\ Cardinality(1..k) = k
    OBVIOUS
  <2>1. 1 \in Int /\ k \in Int
    OBVIOUS
  <2>2. IsFiniteSet(1..k)
    BY <2>1, FS_Interval
  <2>3. Cardinality(1..k) = IF 1 > k THEN 0 ELSE k - 1 + 1
    BY <2>1, FS_Interval
  <2> QED BY <2>2, <2>3
<1>11. n - 1 \in Nat
  BY <1>1, <1>3
<1>12. Cardinality(1..n) <= Cardinality(1..(n - 1))
  BY <1>9, <1>10, <1>11, FS_Injection
<1> QED BY <1>3, <1>10, <1>11, <1>12

(* Two orders by the same keys have the same key at each place. *)
LEMMA SameKeys ==
  ASSUME NEW S, IsFiniteSet(S), NEW key \in [S -> Nat],
         NEW f, SortedBy(f, S, key), NEW g, SortedBy(g, S, key), NEW n \in 1..Cardinality(S)
  PROVE  key[f[n]] = key[g[n]]
<1>1. ~(key[f[n]] < key[g[n]]) /\ ~(key[g[n]] < key[f[n]])
  BY KeyNotSmaller
<1>2. f[n] \in S /\ g[n] \in S
  BY DEF SortedBy
<1>3. key[f[n]] \in Nat /\ key[g[n]] \in Nat
  BY <1>2
<1> QED BY <1>1, <1>3

(* One for each unit of time of each element of S. *)
Units(key, S) == UNION {{i} \X (1..key[i]) : i \in S}

(* An element adds its own. *)
LEMMA OneMore ==
  ASSUME NEW S, IsFiniteSet(S), NEW key, \A i \in S : key[i] \in Nat, NEW x \in S,
         IsFiniteSet(Units(key, S \ {x}))
  PROVE  /\ IsFiniteSet(Units(key, S))
         /\ Cardinality(Units(key, S)) = Cardinality(Units(key, S \ {x})) + key[x]
<1> DEFINE own == {x} \X (1..key[x])
           others == Units(key, S \ {x})
<1>1. IsFiniteSet(own) /\ Cardinality(own) = key[x]
  <2>1. \A d \in Nat : IsFiniteSet(1..d) /\ Cardinality(1..d) = d
    <3> SUFFICES ASSUME NEW d \in Nat PROVE IsFiniteSet(1..d) /\ Cardinality(1..d) = d
      OBVIOUS
    <3>1. IsFiniteSet(1..d) /\ Cardinality(1..d) = IF 1 > d THEN 0 ELSE d - 1 + 1
      BY FS_Interval
    <3> QED BY <3>1
  <2>2. IsFiniteSet({x}) /\ Cardinality({x}) = 1
    BY FS_Singleton
  <2>3. key[x] \in Nat /\ IsFiniteSet(1..key[x]) /\ Cardinality(1..key[x]) = key[x]
    BY <2>1
  <2>4. IsFiniteSet(own) /\ Cardinality(own) = Cardinality({x}) * Cardinality(1..key[x])
    BY <2>2, <2>3, FS_Product
  <2> QED BY <2>2, <2>3, <2>4
<1>2. own \cap others = {} /\ Units(key, S) = others \cup own
  <2>1. \A u \in own : u[1] = x
    OBVIOUS
  <2>2. \A u \in others : u[1] # x
    BY DEF Units
  <2>3. \A u : u \in Units(key, S) <=> \E i \in S : u \in {i} \X (1..key[i])
    BY Zenon DEF Units
  <2>4. \A u : u \in others <=> \E i \in S \ {x} : u \in {i} \X (1..key[i])
    BY Zenon DEF Units
  <2>5. Units(key, S) = others \cup own
    <3> HIDE DEF others
    <3>1. \A u : u \in Units(key, S) <=> u \in others \/ u \in own
      BY <2>3, <2>4, Zenon
    <3> QED BY <3>1
  <2> HIDE DEF own, others
  <2>6. own \cap others = {}
    BY <2>1, <2>2
  <2> QED BY <2>5, <2>6
<1> HIDE DEF own, others
<1>3. IsFiniteSet(others \cup own)
      /\ Cardinality(others \cup own)
           = Cardinality(others) + Cardinality(own) - Cardinality(others \cap own)
  BY <1>1, FS_Union DEF others
<1>4. others \cap own = {} /\ Cardinality({}) = 0
  BY <1>2, FS_EmptySet
<1>5. Cardinality(others) \in Nat /\ key[x] \in Nat
  BY FS_CardinalityType DEF others
<1>6. Cardinality(others \cup own) = Cardinality(others) + key[x]
  <2>1. Cardinality(others \cap own) = 0
    BY <1>4, Zenon
  <2> QED BY <1>1, <1>3, <1>5, <2>1
<1>7. IsFiniteSet(Units(key, S)) /\ Cardinality(Units(key, S)) = Cardinality(others) + key[x]
  BY <1>2, <1>3, <1>6
<1> QED BY <1>7 DEF others

(* What the sum of durations that have been cut says of their sum.         *)
InCut(sum, whole, n) == Micro * whole <= sum /\ sum <= Micro * whole + n * (Micro - 1)

LEMMA CutSum ==
  ASSUME AnalyticsAssumption, NEW S, IsFiniteSet(S), NEW key \in [S -> Nat],
         NEW whole, \A i \in S : whole[i] = Micros(key[i])
  PROVE  /\ Cardinality(Units(key, S)) \in Nat /\ Cardinality(Units(whole, S)) \in Nat
         /\ InCut(Cardinality(Units(key, S)), Cardinality(Units(whole, S)), Cardinality(S))
<1> DEFINE Right(T) ==
             /\ IsFiniteSet(Units(key, T)) /\ IsFiniteSet(Units(whole, T))
             /\ InCut(Cardinality(Units(key, T)), Cardinality(Units(whole, T)), Cardinality(T))
           Bad == {n \in Nat : \E T \in SUBSET S : Cardinality(T) = n /\ ~Right(T)}
<1>1. Micro \in Nat \ {0}
  BY DEF AnalyticsAssumption
<1>2. \A i \in S : /\ key[i] \in Nat /\ whole[i] \in Nat
                   /\ Micro * whole[i] <= key[i] /\ key[i] <= Micro * whole[i] + (Micro - 1)
  <2> SUFFICES ASSUME NEW i \in S
               PROVE  /\ key[i] \in Nat /\ whole[i] \in Nat
                      /\ Micro * whole[i] <= key[i]
                      /\ key[i] <= Micro * whole[i] + (Micro - 1)
    OBVIOUS
  <2>1. \A k \in Nat, u \in Nat \ {0} :
          k \div u \in Nat /\ u * (k \div u) <= k /\ k <= u * (k \div u) + (u - 1)
    OBVIOUS
  <2>2. key[i] \in Nat /\ whole[i] = key[i] \div Micro
    BY DEF Micros
  <2> QED BY <1>1, <2>1, <2>2
<1>3. \A T \in SUBSET S : IsFiniteSet(T) /\ Cardinality(T) \in Nat
  BY FS_Subset, FS_CardinalityType
<1>4. Right({})
  <2>1. Units(key, {}) = {} /\ Units(whole, {}) = {}
    BY DEF Units
  <2>2. IsFiniteSet({}) /\ Cardinality({}) = 0
    BY FS_EmptySet
  <2>3. InCut(0, 0, 0)
    BY <1>1 DEF InCut
  <2> QED BY <2>1, <2>2, <2>3
<1>5. ASSUME NEW T \in SUBSET S, NEW x \in T, Right(T \ {x}) PROVE Right(T)
  <2> DEFINE R == T \ {x}
             k == Cardinality(Units(key, R))
             w == Cardinality(Units(whole, R))
             n == Cardinality(R)
  <2>1. x \in S /\ R \in SUBSET S
    OBVIOUS
  <2>2. /\ IsFiniteSet(Units(key, T)) /\ Cardinality(Units(key, T)) = k + key[x]
    BY <1>2, <1>3, <1>5, OneMore
  <2>3. /\ IsFiniteSet(Units(whole, T)) /\ Cardinality(Units(whole, T)) = w + whole[x]
    BY <1>2, <1>3, <1>5, OneMore
  <2>4. k \in Nat /\ w \in Nat /\ InCut(k, w, n)
    BY <1>5, FS_CardinalityType
  <2>5. n \in Nat /\ Cardinality(T) = n + 1
    <3>1. n \in Nat /\ Cardinality(T) \in Nat /\ IsFiniteSet(T)
      BY <1>3, <2>1
    <3>2. n = Cardinality(T) - 1
      BY <3>1, FS_RemoveElement
    <3> HIDE DEF n
    <3> QED BY <3>1, <3>2
  <2> HIDE DEF k, w, n
  <2>6. InCut(k + key[x], w + whole[x], n + 1)
    <3>1. \A a, b, c, d, e, u \in Nat :
            /\ u * b <= a /\ a <= u * b + c * (u - 1)
            /\ u * e <= d /\ d <= u * e + (u - 1)
            => u * (b + e) <= a + d /\ a + d <= u * (b + e) + (c + 1) * (u - 1)
      <4> SUFFICES ASSUME NEW a \in Nat, NEW b \in Nat, NEW c \in Nat, NEW d \in Nat,
                          NEW e \in Nat, NEW u \in Nat,
                          u * b <= a, a <= u * b + c * (u - 1),
                          u * e <= d, d <= u * e + (u - 1)
                   PROVE  /\ u * (b + e) <= a + d
                          /\ a + d <= u * (b + e) + (c + 1) * (u - 1)
        OBVIOUS
      <4>1. u * (b + e) = u * b + u * e /\ (c + 1) * (u - 1) = c * (u - 1) + (u - 1)
        OBVIOUS
      <4>2. u * b \in Nat /\ u * e \in Nat /\ c * (u - 1) \in Int /\ u - 1 \in Int
        OBVIOUS
      <4> QED BY <4>1, <4>2
    <3>2. key[x] \in Nat /\ whole[x] \in Nat /\ Micro \in Nat
          /\ Micro * whole[x] <= key[x] /\ key[x] <= Micro * whole[x] + (Micro - 1)
      BY <1>1, <1>2, <2>1
    <3>3. Micro * w <= k /\ k <= Micro * w + n * (Micro - 1)
      BY <2>4 DEF InCut
    <3> QED BY <2>4, <2>5, <3>1, <3>2, <3>3 DEF InCut
  <2> QED BY <2>2, <2>3, <2>5, <2>6
<1> HIDE DEF Right
<1>6. CASE Bad = {}
  <2>1. Right(S)
    BY <1>3, <1>6
  <2> QED BY <2>1, FS_CardinalityType DEF Right
<1>7. CASE Bad # {}
  <2>1. Bad \in SUBSET Nat
    OBVIOUS
  <2>2. PICK n \in Bad : \A m \in Bad : n <= m
    BY <1>7, <2>1, Smallest
  <2>3. PICK T \in SUBSET S : Cardinality(T) = n /\ ~Right(T)
    OBVIOUS
  <2>4. PICK x \in T : TRUE
    BY <1>4, <2>3
  <2>5. n \in Nat /\ Cardinality(T \ {x}) = n - 1 /\ Cardinality(T \ {x}) \in Nat
    <3>1. Cardinality(T \ {x}) = n - 1
      BY <1>3, <2>3, <2>4, FS_RemoveElement
    <3>2. Cardinality(T \ {x}) \in Nat
      BY <1>3
    <3> QED BY <3>1, <3>2
  <2>6. n - 1 \notin Bad
    BY <2>2, <2>5
  <2>7. Right(T \ {x})
    BY <2>5, <2>6
  <2> QED BY <1>5, <2>3, <2>4, <2>7
<1> QED BY <1>6, <1>7

(* What is left of the events when they are filtered are events. *)
LEMMA FilteredEvents ==
  ASSUME NEW evs \in Seq(Calls), NEW keep \in SUBSET DOMAIN evs
  PROVE  Filtered(evs, keep) \in Seq(Calls)
<1> DEFINE k == Len(evs)
           m == Cardinality(keep)
           order == Ascending(keep)
           kept == [n \in 1..m |-> evs[order[n]]]
<1>1. k \in Nat /\ DOMAIN evs = 1..k /\ \A i \in 1..k : evs[i] \in Calls
  OBVIOUS
<1> HIDE DEF k, m, order
<1>2. /\ m \in Nat /\ order \in [1..m -> keep]
      /\ Filtered(evs, keep) = [n \in 1..m |-> evs[order[n]]]
  BY <1>1, FilteredElements DEF m, order
<1>3. kept \in [1..m -> Calls]
  <2> SUFFICES ASSUME NEW n \in 1..m PROVE evs[order[n]] \in Calls
    OBVIOUS
  <2>1. order[n] \in keep
    BY <1>2
  <2>2. order[n] \in 1..k
    BY <1>1, <2>1
  <2> QED BY <1>1, <2>2
<1>4. Filtered(evs, keep) = kept
  BY <1>2
<1> HIDE DEF kept
<1> QED BY <1>2, <1>3, <1>4

(* The events the page has are those that were captured, in the same       *)
(* groups and order, with their durations cut.                             *)
LEMMA CutEvents ==
  ASSUME AnalyticsAssumption, NEW evs \in Seq(Calls)
  PROVE  LET cut == AllInMicros(evs)
         IN /\ DOMAIN cut = DOMAIN evs /\ Len(cut) = Len(evs)
            /\ \A key : Group(cut, key) = Group(evs, key)
            /\ FirstSeen(cut) = FirstSeen(evs)
            /\ \A i \in DOMAIN evs : cut[i].status >= 400 <=> Failed(evs[i])
            /\ \A i \in DOMAIN evs : /\ cut[i].duration = Micros(evs[i].duration)
                                     /\ evs[i].duration \in Nat
<1> DEFINE cut == AllInMicros(evs)
<1>1. DOMAIN evs = 1..Len(evs) /\ Len(evs) \in Nat /\ \A i \in DOMAIN evs : evs[i] \in Calls
  OBVIOUS
<1>2. cut = [i \in DOMAIN evs |-> InMicros(evs[i])]
  BY DEF AllInMicros
<1>3. DOMAIN cut = DOMAIN evs /\ Len(cut) = Len(evs)
  BY <1>1, <1>2
<1>4. \A i \in DOMAIN evs :
        /\ cut[i].endpoint = evs[i].endpoint /\ cut[i].status = evs[i].status
        /\ cut[i].duration = Micros(evs[i].duration)
  BY <1>2 DEF InMicros
<1> HIDE DEF cut
<1>5. \A i \in DOMAIN evs : evs[i].duration \in Nat /\ (Failed(evs[i]) <=> evs[i].status >= 400)
  BY <1>1 DEF Failed, AnalyticsAssumption
<1>6. ASSUME NEW key PROVE Group(cut, key) = Group(evs, key)
  BY <1>3, <1>4 DEF Group
<1>7. FirstSeen(cut) = FirstSeen(evs)
  <2> DEFINE mine == [i \in DOMAIN cut |-> cut[i].endpoint]
             theirs == [i \in DOMAIN evs |-> evs[i].endpoint]
             myFirst == {i \in DOMAIN cut : \A j \in 1..(i - 1) : cut[j].endpoint # cut[i].endpoint}
             first == {i \in DOMAIN evs : \A j \in 1..(i - 1) : evs[j].endpoint # evs[i].endpoint}
  <2>1. mine = theirs
    BY <1>3, <1>4
  <2>2. myFirst = first
    <3>1. \A i \in DOMAIN evs : \A j \in 1..(i - 1) : j \in DOMAIN evs
      BY <1>1
    <3> QED BY <1>3, <1>4, <3>1
  <2>3. FirstSeen(cut) = Filtered(mine, myFirst) /\ FirstSeen(evs) = Filtered(theirs, first)
    BY DEF FirstSeen
  <2> HIDE DEF mine, theirs, myFirst, first
  <2> QED BY <2>1, <2>2, <2>3
<1> QED BY <1>3, <1>4, <1>5, <1>6, <1>7 DEF cut

(* Events may be cut before or after they are filtered. *)
LEMMA CutFiltered ==
  ASSUME NEW evs \in Seq(Calls), NEW keep \in SUBSET DOMAIN evs
  PROVE  Filtered(AllInMicros(evs), keep) = AllInMicros(Filtered(evs, keep))
<1> DEFINE k == Len(evs)
           m == Cardinality(keep)
           order == Ascending(keep)
           cut == AllInMicros(evs)
           kept == Filtered(evs, keep)
<1>1. k \in Nat /\ DOMAIN evs = 1..k
  OBVIOUS
<1>2. DOMAIN cut = 1..k /\ \A i \in 1..k : cut[i] = InMicros(evs[i])
  BY <1>1 DEF AllInMicros
<1>3. AllInMicros(kept) = [n \in DOMAIN kept |-> InMicros(kept[n])]
  BY DEF AllInMicros
<1> HIDE DEF k, m, order, cut, kept
<1>4. /\ order \in [1..m -> keep]
      /\ kept = [n \in 1..m |-> evs[order[n]]]
  BY <1>1, FilteredElements DEF m, order, kept
<1>5. Filtered(cut, keep) = [n \in 1..m |-> cut[order[n]]]
  BY <1>1, <1>2, FilteredElements DEF m, order
<1>6. \A n \in 1..m : order[n] \in 1..k
  BY <1>1, <1>4
<1>7. Filtered(cut, keep) = AllInMicros(kept)
  BY <1>2, <1>3, <1>4, <1>5, <1>6
<1> QED BY <1>7 DEF cut, kept

(* The events of a group are finitely many, and their durations numbers.   *)
LEMMA GroupFinite ==
  ASSUME NEW evs \in Seq(Calls), NEW group \in SUBSET DOMAIN evs, group # {}
  PROVE  IsFiniteSet(group) /\ Cardinality(group) \in Nat \ {0}
<1>1. DOMAIN evs = 1..Len(evs) /\ Len(evs) \in Nat
  OBVIOUS
<1>2. IsFiniteSet(DOMAIN evs)
  BY <1>1, FS_Interval
<1>3. IsFiniteSet(group)
  BY <1>2, FS_Subset
<1> QED BY <1>3, FS_CardinalityType, FS_EmptySet

(* The page sums what is left of the durations. *)
LEMMA GroupSums ==
  ASSUME AnalyticsAssumption, NEW evs \in Seq(Calls), NEW group \in SUBSET DOMAIN evs, group # {}
  PROVE  /\ TotalDuration(evs, group) \in Nat /\ TotalDuration(AllInMicros(evs), group) \in Nat
         /\ InCut(TotalDuration(evs, group), TotalDuration(AllInMicros(evs), group),
                  Cardinality(group))
<1> DEFINE cut == AllInMicros(evs)
           key == [i \in group |-> evs[i].duration]
           whole == [i \in group |-> cut[i].duration]
<1>1. \A i \in group : evs[i].duration \in Nat /\ cut[i].duration = Micros(evs[i].duration)
  BY CutEvents
<1> HIDE DEF cut
<1>2. key \in [group -> Nat] /\ \A i \in group : whole[i] = Micros(key[i])
  BY <1>1
<1>3. TotalDuration(evs, group) = Cardinality(Units(key, group))
      /\ TotalDuration(cut, group) = Cardinality(Units(whole, group))
  <2>1. {{i} \X (1..evs[i].duration) : i \in group} = {{i} \X (1..key[i]) : i \in group}
    OBVIOUS
  <2>2. {{i} \X (1..cut[i].duration) : i \in group} = {{i} \X (1..whole[i]) : i \in group}
    OBVIOUS
  <2> HIDE DEF key, whole
  <2> QED BY <2>1, <2>2, Zenon DEF TotalDuration, Units
<1> HIDE DEF key, whole
<1>4. IsFiniteSet(group)
  BY GroupFinite
<1>5. /\ Cardinality(Units(key, group)) \in Nat /\ Cardinality(Units(whole, group)) \in Nat
      /\ InCut(Cardinality(Units(key, group)), Cardinality(Units(whole, group)),
               Cardinality(group))
  BY <1>2, <1>4, CutSum
<1> QED BY <1>3, <1>5 DEF cut

(* At each place of the sorted durations the page has what is left of the  *)
(* one that is there in the terminal UI.                                   *)
LEMMA CutDurations ==
  ASSUME AnalyticsAssumption, NEW evs \in Seq(Calls), NEW group \in SUBSET DOMAIN evs, group # {}
  PROVE  /\ Len(Durations(evs, group)) = Cardinality(group)
         /\ Len(Durations(AllInMicros(evs), group)) = Cardinality(group)
         /\ \A n \in 1..Cardinality(group) :
              Durations(AllInMicros(evs), group)[n] = Micros(Durations(evs, group)[n])
<1> DEFINE cut == AllInMicros(evs)
           key == [i \in group |-> evs[i].duration]
           whole == [i \in group |-> cut[i].duration]
           m == Cardinality(group)
<1>1. Micro \in Nat \ {0}
  BY DEF AnalyticsAssumption
<1>2. \A i \in group : evs[i].duration \in Nat /\ cut[i].duration = Micros(evs[i].duration)
  BY CutEvents
<1> HIDE DEF cut
<1>3. /\ key \in [group -> Nat] /\ \A i \in group : key[i] = evs[i].duration
      /\ \A i \in group : whole[i] = cut[i].duration /\ whole[i] = Micros(key[i])
  BY <1>2
<1>4. whole \in [group -> Nat]
  <2>1. \A k \in Nat : k \div Micro \in Nat
    BY <1>1
  <2>2. \A i \in group : cut[i].duration \in Nat
    BY <1>2, <2>1 DEF Micros
  <2> QED BY <2>2
<1> HIDE DEF key, whole
<1>5. IsFiniteSet(group) /\ m \in Nat \ {0}
  BY GroupFinite
<1>6. PICK f : SortsDurations(f, evs, group, key)
  BY <1>3, <1>5, DurationsOrder
<1>7. PICK g : SortsDurations(g, cut, group, whole)
  BY <1>3, <1>4, <1>5, DurationsOrder
<1>8. /\ f \in [1..m -> group]
      /\ \A i, j \in 1..m : i < j => key[f[i]] <= key[f[j]]
      /\ Durations(evs, group) = [n \in 1..m |-> key[f[n]]]
      /\ Durations(cut, group) = [n \in 1..m |-> whole[g[n]]]
      /\ SortedBy(g, group, whole)
  BY <1>6, <1>7 DEF SortsDurations, SortedBy
<1>9. SortedBy(f, group, whole)
  <2>1. ASSUME NEW i \in 1..m, NEW j \in 1..m, i < j PROVE whole[f[i]] <= whole[f[j]]
    <3>1. f[i] \in group /\ f[j] \in group
      BY <1>8
    <3>2. key[f[i]] \in Nat /\ key[f[j]] \in Nat /\ key[f[i]] <= key[f[j]]
      BY <1>3, <1>8, <2>1, <3>1
    <3>3. key[f[i]] \div Micro <= key[f[j]] \div Micro
      BY <1>1, <3>2, DivisionKeepsOrder
    <3> QED BY <1>3, <3>1, <3>3 DEF Micros
  <2> QED BY <1>6, <2>1 DEF SortsDurations, SortedBy, m
<1>10. ASSUME NEW n \in 1..m PROVE whole[g[n]] = Micros(key[f[n]])
  <2>1. whole[f[n]] = whole[g[n]]
    <3>1. n \in 1..Cardinality(group) /\ SortedBy(f, group, whole) /\ SortedBy(g, group, whole)
      BY <1>8, <1>9, <1>10
    <3> HIDE DEF m
    <3> QED BY <1>4, <1>5, <3>1, SameKeys
  <2>2. f[n] \in group
    BY <1>8
  <2> QED BY <1>3, <2>1, <2>2
<1> HIDE DEF m
<1>11. Len(Durations(evs, group)) = m /\ Len(Durations(cut, group)) = m
  BY <1>5, <1>8
<1>12. \A n \in 1..m : Durations(cut, group)[n] = Micros(Durations(evs, group)[n])
  BY <1>8, <1>10
<1> QED BY <1>11, <1>12 DEF cut, m

(* A sum cut once is less than a microsecond a call above a sum of cut     *)
(* durations.                                                              *)
LEMMA CutOnce ==
  ASSUME AnalyticsAssumption, NEW sum \in Nat, NEW whole \in Nat, NEW n \in Nat \ {0},
         InCut(sum, whole, n)
  PROVE  Micros(sum) - whole \in 0..(n - 1)
<1> DEFINE q == sum \div Micro
<1>1. Micro \in Nat \ {0}
  BY DEF AnalyticsAssumption
<1>2. q \in Nat /\ Micro * q <= sum /\ sum < Micro * (q + 1)
  BY <1>1
<1> HIDE DEF q
<1>3. Micro * whole <= sum /\ sum <= Micro * whole + n * (Micro - 1)
  BY DEF InCut
<1>4. ASSUME q < whole PROVE FALSE
  <2>1. \A u \in Nat \ {0}, a, b \in Nat : a < b => u * (a + 1) <= u * b
    OBVIOUS
  <2>2. Micro * (q + 1) <= Micro * whole
    BY <1>1, <1>2, <1>4, <2>1
  <2>3. Micro * (q + 1) \in Nat /\ Micro * whole \in Nat
    BY <1>1, <1>2
  <2> QED BY <1>2, <1>3, <2>2, <2>3
<1>5. ASSUME whole + n <= q PROVE FALSE
  <2>1. \A u \in Nat \ {0}, a, b \in Nat : a <= b => u * a <= u * b
    OBVIOUS
  <2>2. Micro * (whole + n) <= Micro * q
    BY <1>1, <1>2, <1>5, <2>1
  <2>3. \A u \in Nat \ {0}, a \in Nat, b \in Nat \ {0} : u * a + b * (u - 1) < u * (a + b)
    <3> SUFFICES ASSUME NEW u \in Nat \ {0}, NEW a \in Nat, NEW b \in Nat \ {0}
                 PROVE  u * a + b * (u - 1) < u * (a + b)
      OBVIOUS
    <3>1. u * (a + b) = u * a + u * b /\ b * (u - 1) = u * b - b
      OBVIOUS
    <3>2. u * a \in Nat /\ u * b \in Nat
      OBVIOUS
    <3> QED BY <3>1, <3>2
  <2>4. Micro * whole + n * (Micro - 1) < Micro * (whole + n)
    BY <1>1, <2>3
  <2>5. /\ Micro * whole + n * (Micro - 1) \in Int
        /\ Micro * (whole + n) \in Int /\ Micro * q \in Int
    BY <1>1, <1>2
  <2> QED BY <1>2, <1>3, <2>2, <2>4, <2>5
<1>6. q - whole \in 0..(n - 1)
  BY <1>2, <1>4, <1>5
<1> QED BY <1>6 DEF q, Micros

(* The row of an endpoint in the two files. *)
LEMMA RowsSayTheSame ==
  ASSUME AnalyticsAssumption, NEW evs \in Seq(Calls), NEW key, Group(evs, key) # {}, NEW failed
  PROVE  SaysTheSame(Written(ExportRow(evs, key, failed)),
                     ExportRow(AllInMicros(evs), key, failed))
<1> DEFINE cut == AllInMicros(evs)
           group == Group(evs, key)
           m == Cardinality(group)
           errors == Cardinality(group \cap failed)
           total == TotalDuration(evs, group)
           whole == TotalDuration(cut, group)
           sorted == Durations(evs, group)
           sortedCut == Durations(cut, group)
           k == ((m - 1) * 95) \div 100 + 1
<1>1. group \in SUBSET DOMAIN evs /\ group # {} /\ Group(cut, key) = group
  BY CutEvents DEF Group
<1>2. m \in Nat \ {0}
  BY <1>1, GroupFinite
<1>3. ExportRow(evs, key, failed) =
        [endpoint |-> key, count |-> m, errors |-> errors, total |-> total,
         avg |-> <<total, m>>, p95 |-> percentile(sorted), max |-> Last(sorted)]
  BY DEF ExportRow
<1>4. ExportRow(cut, key, failed) =
        [endpoint |-> key, count |-> m, errors |-> errors, total |-> whole,
         avg |-> <<whole, m>>, p95 |-> percentile(sortedCut), max |-> Last(sortedCut)]
  <2> HIDE DEF cut, group
  <2> QED BY <1>1 DEF ExportRow
<1> HIDE DEF cut, group
<1>5. total \in Nat /\ whole \in Nat /\ InCut(total, whole, m)
  BY <1>1, GroupSums DEF cut
<1>6. Len(sorted) = m /\ Len(sortedCut) = m
      /\ \A n \in 1..m : sortedCut[n] = Micros(sorted[n])
  BY <1>1, CutDurations DEF cut
<1> HIDE DEF m, errors, total, whole, sorted, sortedCut
<1>7. k \in 1..m
  BY <1>2
<1>8. percentile(sortedCut) = Micros(percentile(sorted))
  BY <1>6, <1>7 DEF percentile
<1>9. Last(sortedCut) = Micros(Last(sorted))
  BY <1>2, <1>6 DEF Last
<1>10. Micros(total) - whole \in 0..(m - 1)
  BY <1>2, <1>5, CutOnce
<1>11. Written(ExportRow(evs, key, failed)) =
         [endpoint |-> key, count |-> m, errors |-> errors, total |-> Micros(total),
          avg |-> <<Micros(total), m>>, p95 |-> Micros(percentile(sorted)),
          max |-> Micros(Last(sorted))]
  BY <1>3 DEF Written
<1> QED BY <1>4, <1>8, <1>9, <1>10, <1>11 DEF SaysTheSame, cut

LEMMA FilesOfLog == AnalyticsAssumption /\ log \in Seq(Calls) => FilesAgree
<1> SUFFICES ASSUME AnalyticsAssumption, log \in Seq(Calls), NEW filterErrors \in BOOLEAN
             PROVE  LET written == buildExportDataFromEvents(log, filterErrors)
                        saved == buildExportData(AllInMicros(log), filterErrors)
                        page == saved.analytics
                        named == Filtered(page, {n \in DOMAIN page : page[n].endpoint # Nameless})
                    IN /\ written.captured = saved.captured /\ written.exported = saved.exported
                       /\ written.calls = saved.calls
                       /\ DOMAIN written.analytics = DOMAIN named
                       /\ \A n \in DOMAIN named : SaysTheSame(written.analytics[n], named[n])
  BY DEF FilesAgree
<1> DEFINE cut == AllInMicros(log)
           byBoth == {i \in DOMAIN log : filterErrors => Failed(log[i])}
           byStatus == {i \in DOMAIN cut : filterErrors => cut[i].status >= 400}
           exported == Filtered(log, byBoth)
           cutExported == AllInMicros(exported)
<1>1. byBoth = byStatus /\ Len(cut) = Len(log)
  BY CutEvents
<1>2. exported \in Seq(Calls) /\ Filtered(cut, byStatus) = cutExported
  <2>1. byBoth \in SUBSET DOMAIN log
    OBVIOUS
  <2> HIDE DEF byBoth, byStatus
  <2>2. exported \in Seq(Calls) /\ Filtered(cut, byBoth) = cutExported
    BY <2>1, FilteredEvents, CutFiltered
  <2> QED BY <1>1, <2>2
<1> DEFINE written == buildExportDataFromEvents(log, filterErrors)
           saved == buildExportData(cut, filterErrors)
           rows == buildExportAnalyticsRows(exported)
           page == buildExportAnalytics(cutExported)
           named == Filtered(page, {n \in DOMAIN page : page[n].endpoint # Nameless})
<1>3. written = [captured |-> Len(log), exported |-> Len(exported), calls |-> cutExported,
                 analytics |-> rows]
  BY DEF buildExportDataFromEvents
<1>4. saved = [captured |-> Len(cut), exported |-> Len(cutExported), calls |-> cutExported,
               analytics |-> page]
  <2>1. saved = [captured |-> Len(cut), exported |-> Len(Filtered(cut, byStatus)),
                 calls |-> Filtered(cut, byStatus),
                 analytics |-> buildExportAnalytics(Filtered(cut, byStatus))]
    BY DEF buildExportData
  <2> HIDE DEF saved, byStatus, byBoth, cut, cutExported
  <2> QED BY <1>2, <2>1
<1>5. Len(cutExported) = Len(exported)
  BY <1>2, CutEvents
<1> HIDE DEF exported, cut
<1>6. DOMAIN rows = DOMAIN named /\ \A n \in DOMAIN named : SaysTheSame(rows[n], named[n])
  <2> DEFINE keys == FirstSeen(exported)
             failed == {i \in DOMAIN exported : Failed(exported[i])}
             byCode == {i \in DOMAIN cutExported : cutExported[i].status >= 400}
             keep == {n \in DOMAIN keys : keys[n] # Nameless}
             kept == {n \in DOMAIN page : page[n].endpoint # Nameless}
             order == Ascending(keep)
             m == Cardinality(keep)
  <2>1. failed = byCode /\ FirstSeen(cutExported) = keys
    BY <1>2, CutEvents
  <2> HIDE DEF cutExported
  <2>2. page = [n \in DOMAIN keys |-> ExportRow(cutExported, keys[n], failed)]
    <3>1. page = [n \in DOMAIN FirstSeen(cutExported) |->
                    ExportRow(cutExported, FirstSeen(cutExported)[n], byCode)]
      BY DEF buildExportAnalytics
    <3> HIDE DEF page, keys, failed, byCode
    <3> QED BY <2>1, <3>1
  <2>3. rows = [n \in DOMAIN Filtered(keys, keep) |->
                  Written(ExportRow(exported, Filtered(keys, keep)[n], failed))]
    BY DEF buildExportAnalyticsRows
  <2> HIDE DEF page, rows, failed, keys
  <2>4. PICK k \in Nat : keys \in [1..k -> {exported[i].endpoint : i \in DOMAIN exported}]
    BY <1>2, FirstSeenOnce DEF keys
  <2>5. DOMAIN page = DOMAIN keys /\ \A n \in DOMAIN keys : page[n].endpoint = keys[n]
    <3>1. \A n \in DOMAIN keys : ExportRow(cutExported, keys[n], failed).endpoint = keys[n]
      BY DEF ExportRow
    <3> QED BY <2>2, <3>1
  <2>6. kept = keep /\ DOMAIN keys = 1..k /\ DOMAIN page = 1..k /\ keep \in SUBSET (1..k)
    BY <2>4, <2>5
  <2> HIDE DEF keep, kept, order, m
  <2>7. order \in [1..m -> keep] /\ Filtered(keys, keep) = [n \in 1..m |-> keys[order[n]]]
    BY <2>6, FilteredElements DEF m, order
  <2>8. Filtered(page, keep) = [n \in 1..m |-> page[order[n]]]
    BY <2>6, FilteredElements DEF m, order
  <2>9. named = [n \in 1..m |-> page[order[n]]]
    BY <2>6, <2>8 DEF kept
  <2>10. DOMAIN rows = 1..m
         /\ \A n \in 1..m : rows[n] = Written(ExportRow(exported, keys[order[n]], failed))
    BY <2>3, <2>7
  <2>11. ASSUME NEW n \in 1..m PROVE SaysTheSame(rows[n], named[n])
    <3>1. order[n] \in keep
      BY <2>7
    <3>2. order[n] \in 1..k
      BY <2>6, <3>1
    <3>3. keys[order[n]] \in {exported[i].endpoint : i \in DOMAIN exported}
      BY <2>4, <3>2
    <3>4. Group(exported, keys[order[n]]) # {}
      BY <3>3 DEF Group
    <3>5. named[n] = ExportRow(cutExported, keys[order[n]], failed)
      BY <2>2, <2>6, <2>9, <3>2
    <3>6. rows[n] = Written(ExportRow(exported, keys[order[n]], failed))
      BY <2>10
    <3> HIDE DEF named
    <3>7. SaysTheSame(Written(ExportRow(exported, keys[order[n]], failed)),
                      ExportRow(cutExported, keys[order[n]], failed))
      BY <1>2, <3>4, RowsSayTheSame DEF cutExported
    <3> QED BY <3>5, <3>6, <3>7
  <2>12. DOMAIN named = 1..m
    BY <2>9
  <2> HIDE DEF named
  <2> QED BY <2>10, <2>11, <2>12
<1>7. saved.analytics = page
  BY <1>4
<1> HIDE DEF written, saved, page, rows, cutExported
<1>8. /\ written.captured = saved.captured /\ written.exported = saved.exported
      /\ written.calls = saved.calls /\ written.analytics = rows
  BY <1>1, <1>3, <1>4, <1>5
<1> QED BY <1>6, <1>7, <1>8 DEF written, saved, cut

-------------------------------------------------------------------------------
(* The two views *)

(* The row of an endpoint in the analytics view, and in the page's stats.  *)
ViewRow(evs, key) ==
  LET group == Group(evs, key)
      total == TotalDuration(evs, group)
  IN [endpoint |-> key, count |-> Cardinality(group),
      errors |-> Cardinality({i \in group : Failed(evs[i])}),
      total |-> total, avg |-> total \div Cardinality(group)]

StatRow(evs, key) ==
  LET group == Group(evs, key)
      total == TotalDuration(evs, group)
  IN [endpoint |-> key, count |-> Cardinality(group),
      errors |-> Cardinality({i \in group : evs[i].status >= 400}),
      total |-> total, avg |-> <<total, Cardinality(group)>>]

(* A row of the stats that is shown next to one of the view.               *)
Matches(stat, row) ==
  /\ Shows(stat, row) /\ Counts(stat)
  /\ row.total \in Nat /\ InCut(row.total, stat.total, row.count)
  /\ row.avg = row.total \div row.count

LEMMA RowsMatch ==
  ASSUME AnalyticsAssumption, NEW evs \in Seq(Calls), NEW key, Group(evs, key) # {}
  PROVE  /\ Matches(StatRow(AllInMicros(evs), key), ViewRow(evs, key))
         /\ StatRow(AllInMicros(evs), key).endpoint = key /\ ViewRow(evs, key).endpoint = key
<1> DEFINE cut == AllInMicros(evs)
           group == Group(evs, key)
           m == Cardinality(group)
           total == TotalDuration(evs, group)
           whole == TotalDuration(cut, group)
           failed == {i \in group : Failed(evs[i])}
           byCode == {i \in group : cut[i].status >= 400}
           errors == Cardinality(failed)
<1>1. group \in SUBSET DOMAIN evs /\ group # {} /\ Group(cut, key) = group
  BY CutEvents DEF Group
<1>2. failed = byCode
  <2>1. \A i \in DOMAIN evs : cut[i].status >= 400 <=> Failed(evs[i])
    BY CutEvents
  <2> HIDE DEF group, cut
  <2> QED BY <1>1, <2>1
<1>3. IsFiniteSet(group) /\ m \in Nat \ {0}
  BY <1>1, GroupFinite
<1>4. errors \in Nat
  <2>1. failed \in SUBSET group
    OBVIOUS
  <2> HIDE DEF failed, group
  <2>2. IsFiniteSet(failed)
    BY <1>3, <2>1, FS_Subset
  <2> QED BY <2>2, FS_CardinalityType
<1>5. ViewRow(evs, key) = [endpoint |-> key, count |-> m, errors |-> errors, total |-> total,
                           avg |-> total \div m]
  BY DEF ViewRow
<1>6. StatRow(cut, key) = [endpoint |-> key, count |-> m, errors |-> errors, total |-> whole,
                           avg |-> <<whole, m>>]
  <2>1. StatRow(cut, key) =
          [endpoint |-> key, count |-> Cardinality(Group(cut, key)),
           errors |-> Cardinality({i \in Group(cut, key) : cut[i].status >= 400}),
           total |-> TotalDuration(cut, Group(cut, key)),
           avg |-> <<TotalDuration(cut, Group(cut, key)), Cardinality(Group(cut, key))>>]
    BY DEF StatRow
  <2>2. {i \in Group(cut, key) : cut[i].status >= 400} = failed
    BY <1>1, <1>2
  <2> HIDE DEF cut, group, failed
  <2> QED BY <1>1, <2>1, <2>2
<1> HIDE DEF cut, group
<1>7. total \in Nat /\ whole \in Nat /\ InCut(total, whole, m)
  BY <1>1, GroupSums DEF cut
<1> HIDE DEF m, total, whole, errors
<1>8. total - Micro * whole \in 0..(m * (Micro - 1))
  <2>1. \A s, w, c \in Nat, u \in Nat \ {0} :
          u * w <= s /\ s <= u * w + c * (u - 1) => s - u * w \in 0..(c * (u - 1))
    <3> SUFFICES ASSUME NEW s \in Nat, NEW w \in Nat, NEW c \in Nat, NEW u \in Nat \ {0},
                        u * w <= s, s <= u * w + c * (u - 1)
                 PROVE  s - u * w \in 0..(c * (u - 1))
      OBVIOUS
    <3>1. u * w \in Nat /\ c * (u - 1) \in Int
      OBVIOUS
    <3> QED BY <3>1
  <2>2. Micro \in Nat \ {0}
    BY DEF AnalyticsAssumption
  <2> QED BY <1>3, <1>7, <2>1, <2>2 DEF InCut
<1>9. Shows(StatRow(cut, key), ViewRow(evs, key))
  BY <1>5, <1>6, <1>8 DEF Shows
<1>10. Counts(StatRow(cut, key))
  BY <1>3, <1>4, <1>6, <1>7 DEF Counts
<1>11. Matches(StatRow(cut, key), ViewRow(evs, key))
  BY <1>5, <1>6, <1>7, <1>9, <1>10 DEF Matches
<1> QED BY <1>5, <1>6, <1>11 DEF cut

(* The rows of the stats: one for each endpoint.                           *)
LEMMA StatsRows ==
  ASSUME AnalyticsAssumption, NEW evs \in Seq(Calls)
  PROVE  \E m \in Nat : \E keys :
           /\ DOMAIN buildStats(AllInMicros(evs)) = 1..m
           /\ \A n \in 1..m : /\ buildStats(AllInMicros(evs))[n] = StatRow(AllInMicros(evs), keys[n])
                              /\ Group(evs, keys[n]) # {}
           /\ \A i, j \in 1..m : i # j => keys[i] # keys[j]
           /\ \A key \in endpoints(evs) : \E n \in 1..m : keys[n] = key
           /\ \A n \in 1..m : keys[n] # Nameless => keys[n] \in endpoints(evs)
<1> DEFINE cut == AllInMicros(evs)
           keys == FirstSeen(evs)
<1>1. FirstSeen(cut) = keys
  BY CutEvents
<1>2. buildStats(cut) = [n \in DOMAIN FirstSeen(cut) |-> StatRow(cut, FirstSeen(cut)[n])]
  BY DEF buildStats, StatRow
<1> HIDE DEF cut, keys
<1>3. PICK m \in Nat :
        /\ keys \in [1..m -> {evs[i].endpoint : i \in DOMAIN evs}]
        /\ \A i, j \in 1..m : i # j => keys[i] # keys[j]
        /\ \A i \in DOMAIN evs : \E n \in 1..m : keys[n] = evs[i].endpoint
  BY FirstSeenOnce DEF keys
<1>4. /\ DOMAIN buildStats(cut) = 1..m
      /\ \A n \in 1..m : buildStats(cut)[n] = StatRow(cut, keys[n])
  BY <1>1, <1>2, <1>3
<1>5. ASSUME NEW n \in 1..m
      PROVE  /\ Group(evs, keys[n]) # {}
             /\ keys[n] # Nameless => keys[n] \in endpoints(evs)
  <2>1. keys[n] \in {evs[i].endpoint : i \in DOMAIN evs}
    BY <1>3
  <2> QED BY <2>1 DEF Group, endpoints
<1>6. \A key \in endpoints(evs) : \E n \in 1..m : keys[n] = key
  BY <1>3 DEF endpoints
<1> QED BY <1>3, <1>4, <1>5, <1>6 DEF cut

LEMMA ViewsOfLog == AnalyticsAssumption /\ log \in Seq(Calls) => ViewsAgree
<1> SUFFICES ASSUME AnalyticsAssumption, log \in Seq(Calls) PROVE ViewsAgree
  OBVIOUS
<1> DEFINE stats == buildStats(AllInMicros(log))
           view == buildAnalyticsRows(log)
           stat(key) == StatRow(AllInMicros(log), key)
           seen(key) == ViewRow(log, key)
<1>1. view = {seen(key) : key \in endpoints(log)}
  BY DEF buildAnalyticsRows, ViewRow
<1>2. PICK m \in Nat : \E keys :
        /\ DOMAIN stats = 1..m
        /\ \A n \in 1..m : stats[n] = stat(keys[n]) /\ Group(log, keys[n]) # {}
        /\ \A i, j \in 1..m : i # j => keys[i] # keys[j]
        /\ \A key \in endpoints(log) : \E n \in 1..m : keys[n] = key
        /\ \A n \in 1..m : keys[n] # Nameless => keys[n] \in endpoints(log)
  BY StatsRows
<1>3. PICK keys :
        /\ DOMAIN stats = 1..m
        /\ \A n \in 1..m : stats[n] = stat(keys[n]) /\ Group(log, keys[n]) # {}
        /\ \A i, j \in 1..m : i # j => keys[i] # keys[j]
        /\ \A key \in endpoints(log) : \E n \in 1..m : keys[n] = key
        /\ \A n \in 1..m : keys[n] # Nameless => keys[n] \in endpoints(log)
  BY <1>2
<1>4. \A n \in 1..m : Shows(stat(keys[n]), seen(keys[n])) /\ stats[n].endpoint = keys[n]
  BY <1>3, RowsMatch DEF Matches
<1> HIDE DEF stats, view, stat, seen
<1>5. \A i, j \in DOMAIN stats : stats[i].endpoint = stats[j].endpoint => i = j
  BY <1>3, <1>4
<1>6. ASSUME NEW n \in DOMAIN stats, stats[n].endpoint # Nameless
      PROVE  \E row \in view : Shows(stats[n], row)
  <2>1. n \in 1..m /\ keys[n] \in endpoints(log)
    BY <1>3, <1>4, <1>6
  <2>2. seen(keys[n]) \in view
    BY <1>1, <2>1
  <2> QED BY <1>3, <1>4, <2>1, <2>2
<1>7. ASSUME NEW row \in view PROVE \E n \in DOMAIN stats : Shows(stats[n], row)
  <2>1. PICK key \in endpoints(log) : row = seen(key)
    BY <1>1
  <2>2. PICK n \in 1..m : keys[n] = key
    BY <1>3
  <2> QED BY <1>3, <1>4, <2>1, <2>2
<1> QED BY <1>5, <1>6, <1>7 DEF ViewsAgree, stats, view

(* An average that is not above another after the cut was at most a        *)
(* microsecond above it.                                                   *)
LEMMA AveragesWithin ==
  ASSUME NEW u \in Nat \ {0}, NEW s \in Nat, NEW t \in Nat, NEW c \in Nat \ {0},
         NEW v \in Nat, NEW w \in Nat, NEW d \in Nat \ {0},
         u * s <= t, w <= u * v + d * (u - 1), ~(v * c > s * d)
  PROVE  w \div d - t \div c < u
<1> DEFINE p == w \div d
           q == t \div c
<1>1. p \in Nat /\ q \in Nat /\ d * p <= w /\ t < c * (q + 1)
  <2>1. \A a \in Nat, b \in Nat \ {0} : a \div b \in Nat /\ b * (a \div b) <= a /\ a < b * (a \div b + 1)
    OBVIOUS
  <2> QED BY <2>1
<1> HIDE DEF p, q
<1>2. SUFFICES ASSUME q + u <= p PROVE FALSE
  BY <1>1 DEF p, q
<1>3. d * (q + 1) <= u * v
  <2>1. d * (q + u) <= d * p
    <3>1. \A a, b \in Nat, e \in Nat \ {0} : a <= b => e * a <= e * b
      OBVIOUS
    <3> QED BY <1>1, <1>2, <3>1
  <2>2. d * (q + u) = d * (q + 1) + d * (u - 1)
    BY <1>1
  <2>3. /\ d * (q + 1) \in Nat /\ d * (u - 1) \in Int /\ d * p \in Nat /\ u * v \in Nat
        /\ d * (q + u) \in Nat
    BY <1>1
  <2> QED BY <1>1, <2>1, <2>2, <2>3
<1>4. c * (d * (q + 1)) <= c * (u * v)
  <2>1. \A a, b \in Nat, e \in Nat \ {0} : a <= b => e * a <= e * b
    OBVIOUS
  <2>2. d * (q + 1) \in Nat /\ u * v \in Nat
    BY <1>1
  <2> QED BY <1>3, <2>1, <2>2
<1>5. u * (v * c) <= u * (s * d)
  <2>1. \A a, b \in Nat, e \in Nat \ {0} : ~(a > b) => e * a <= e * b
    OBVIOUS
  <2>2. v * c \in Nat /\ s * d \in Nat
    OBVIOUS
  <2> QED BY <2>1, <2>2
<1>6. (u * s) * d <= t * d
  <2>1. \A a, b \in Nat, e \in Nat \ {0} : a <= b => a * e <= b * e
    OBVIOUS
  <2>2. u * s \in Nat
    OBVIOUS
  <2> QED BY <2>1, <2>2
<1>7. t * d < (c * (q + 1)) * d
  <2>1. \A a, b \in Nat, e \in Nat \ {0} : a < b => a * e < b * e
    OBVIOUS
  <2>2. c * (q + 1) \in Nat
    BY <1>1
  <2> QED BY <1>1, <2>1, <2>2
<1>8. /\ c * (u * v) = u * (v * c) /\ u * (s * d) = (u * s) * d
      /\ (c * (q + 1)) * d = c * (d * (q + 1))
  BY <1>1
<1>9. /\ c * (d * (q + 1)) \in Nat /\ u * (v * c) \in Nat /\ (u * s) * d \in Nat
      /\ t * d \in Nat
  BY <1>1
<1> QED BY <1>4, <1>5, <1>6, <1>7, <1>8, <1>9

(* What the page does not put first is first in the view only because of   *)
(* what the cut has lost.                                                  *)
LEMMA MoreWithinRounding ==
  ASSUME AnalyticsAssumption, NEW mode \in Modes, NEW a, NEW b, NEW sa, NEW sb,
         Matches(sa, a), Matches(sb, b), ~PageMore(mode, sb, sa), More(mode, b, a)
  PROVE  WithinRounding(mode, a, b)
<1>1. /\ sa.count \in Nat \ {0} /\ sa.errors \in Nat /\ sa.total \in Nat
      /\ sb.count \in Nat \ {0} /\ sb.errors \in Nat /\ sb.total \in Nat
      /\ sa.avg = <<sa.total, sa.count>> /\ sb.avg = <<sb.total, sb.count>>
      /\ a.count = sa.count /\ a.errors = sa.errors /\ a.total \in Nat
      /\ b.count = sb.count /\ b.errors = sb.errors /\ b.total \in Nat
      /\ a.avg = a.total \div a.count /\ b.avg = b.total \div b.count
  BY DEF Matches, Counts, Shows
<1>2. /\ Micro \in Nat \ {0} /\ Micro * sa.total <= a.total
      /\ b.total <= Micro * sb.total + sb.count * (Micro - 1)
  BY <1>1 DEF Matches, InCut, AnalyticsAssumption
<1>3. CASE mode = "count"
  BY <1>1, <1>3 DEF More, PageMore
<1>4. CASE mode = "errors"
  <2>1. /\ More(mode, b, a) <=> b.errors * a.count > a.errors * b.count
        /\ PageMore(mode, sb, sa) <=> sb.errors * sa.count > sa.errors * sb.count
    BY <1>4 DEF More, PageMore, Above
  <2> QED BY <1>1, <2>1
<1>5. CASE mode = "total"
  <2>1. ~(sb.total > sa.total)
    BY <1>5 DEF PageMore
  <2>2. Micro * sb.total <= Micro * sa.total
    <3>1. \A x, y \in Nat, e \in Nat \ {0} : ~(x > y) => e * x <= e * y
      OBVIOUS
    <3> QED BY <1>1, <1>2, <2>1, <3>1
  <2>3. Micro * sb.total \in Nat /\ Micro * sa.total \in Nat /\ sb.count * (Micro - 1) \in Int
    BY <1>1, <1>2
  <2>4. b.total - a.total <= sb.count * (Micro - 1)
    BY <1>1, <1>2, <2>2, <2>3
  <2> QED BY <1>1, <1>5, <2>4 DEF WithinRounding
<1>6. CASE mode = "avg"
  <2>1. ~(sb.total * sa.count > sa.total * sb.count)
    BY <1>1, <1>6 DEF PageMore, Above
  <2>2. b.total \div sb.count - a.total \div sa.count < Micro
    BY <1>1, <1>2, <2>1, AveragesWithin
  <2> QED BY <1>1, <1>6, <2>2 DEF WithinRounding
<1> QED BY <1>3, <1>4, <1>5, <1>6 DEF Modes

LEMMA OrdersOfLog == AnalyticsAssumption /\ log \in Seq(Calls) => OrdersAgree
<1> DEFINE stats == buildStats(AllInMicros(log))
           view == buildAnalyticsRows(log)
           stat(key) == StatRow(AllInMicros(log), key)
           seen(key) == ViewRow(log, key)
<1> SUFFICES ASSUME AnalyticsAssumption, log \in Seq(Calls), NEW mode \in Modes,
                    NEW a \in view, NEW b \in view,
                    NEW i \in DOMAIN sortStats(stats, mode), NEW j \in DOMAIN sortStats(stats, mode),
                    i < j, sortStats(stats, mode)[i].endpoint = a.endpoint,
                    sortStats(stats, mode)[j].endpoint = b.endpoint, More(mode, b, a)
             PROVE  WithinRounding(mode, a, b)
  BY DEF OrdersAgree
<1>1. view = {seen(key) : key \in endpoints(log)}
  BY DEF buildAnalyticsRows, ViewRow
<1>2. PICK m \in Nat : \E keys :
        /\ DOMAIN stats = 1..m
        /\ \A n \in 1..m : stats[n] = stat(keys[n]) /\ Group(log, keys[n]) # {}
        /\ \A x, y \in 1..m : x # y => keys[x] # keys[y]
        /\ \A key \in endpoints(log) : \E n \in 1..m : keys[n] = key
        /\ \A n \in 1..m : keys[n] # Nameless => keys[n] \in endpoints(log)
  BY StatsRows
<1>3. PICK keys :
        /\ DOMAIN stats = 1..m
        /\ \A n \in 1..m : stats[n] = stat(keys[n]) /\ Group(log, keys[n]) # {}
        /\ \A x, y \in 1..m : x # y => keys[x] # keys[y]
        /\ \A key \in endpoints(log) : \E n \in 1..m : keys[n] = key
        /\ \A n \in 1..m : keys[n] # Nameless => keys[n] \in endpoints(log)
  BY <1>2
<1>4. \A n \in 1..m : /\ Matches(stats[n], seen(keys[n]))
                      /\ stats[n].endpoint = keys[n] /\ seen(keys[n]).endpoint = keys[n]
  BY <1>3, RowsMatch
<1>5. \A key \in endpoints(log) : seen(key).endpoint = key
  BY DEF ViewRow
<1> HIDE DEF stats, view, stat, seen
<1>6. \A n \in 1..m : Counts(stats[n])
  BY <1>4 DEF Matches
<1>7. PICK order : Sorts(order, m, stats, mode)
  BY <1>3, <1>6, SortStatsArranges
<1>8. /\ i \in 1..m /\ j \in 1..m /\ order[i] \in 1..m /\ order[j] \in 1..m
      /\ sortStats(stats, mode)[i] = stats[order[i]]
      /\ sortStats(stats, mode)[j] = stats[order[j]]
      /\ ~PageMore(mode, stats[order[j]], stats[order[i]])
  BY <1>7 DEF Sorts
<1>9. a = seen(keys[order[i]]) /\ b = seen(keys[order[j]])
  <2>1. a.endpoint = keys[order[i]] /\ b.endpoint = keys[order[j]]
    BY <1>4, <1>8
  <2>2. PICK key \in endpoints(log) : a = seen(key)
    BY <1>1
  <2>3. PICK other \in endpoints(log) : b = seen(other)
    BY <1>1
  <2> QED BY <1>5, <2>1, <2>2, <2>3
<1>10. Matches(stats[order[i]], a) /\ Matches(stats[order[j]], b)
  BY <1>4, <1>8, <1>9
<1> QED BY <1>8, <1>10, MoreWithinRounding

-------------------------------------------------------------------------------
(* A viewer captures what it receives and has no events when it is started *)
(* again.                                                                  *)
Spec == log = <<>> /\ [][Capture \/ log' = <<>>]_log

(* What is logged are events. *)
LEMMA LogOfCalls == Spec => [](log \in Seq(Calls))
<1>1. log = <<>> => log \in Seq(Calls)
  OBVIOUS
<1>2. log \in Seq(Calls) /\ [Capture \/ log' = <<>>]_log => (log \in Seq(Calls))'
  <2> SUFFICES ASSUME log \in Seq(Calls), [Capture \/ log' = <<>>]_log PROVE log' \in Seq(Calls)
    OBVIOUS
  <2>1. CASE Capture
    <3>1. PICK e \in Calls : log' = Append(log, e)
      BY <2>1 DEF Capture
    <3> QED BY <3>1
  <2>2. CASE log' = <<>>
    BY <2>2
  <2>3. CASE log' = log
    BY <2>3
  <2> QED BY <2>1, <2>2, <2>3
<1> QED BY <1>1, <1>2, PTL DEF Spec

(* The p95 in the files of the terminal UI and of the page cuts the calls  *)
(* of every endpoint 95 to 5, however many there are and whatever their    *)
(* durations, ties included (percentile in export.go and app.js).          *)
THEOREM PercentileCuts == Spec => []P95Cuts
<1>1. AnalyticsAssumption /\ log \in Seq(Calls) => P95Cuts
  <2> SUFFICES ASSUME AnalyticsAssumption, log \in Seq(Calls),
                      NEW key \in endpoints(log), NEW times \in 1..MaxTimes
               PROVE  Cuts(Repeated(Durations(log, Group(log, key)), times))
    BY DEF P95Cuts
  <2> DEFINE group == Group(log, key)
  <2>1. group \in SUBSET DOMAIN log /\ group # {}
    BY DEF Group, endpoints
  <2>2. times \in Nat \ {0}
    BY DEF AnalyticsAssumption
  <2> HIDE DEF group
  <2> DEFINE sorted == Durations(log, group)
  <2>3. sorted \in Seq(Nat) /\ Ordered(sorted) /\ Len(sorted) # 0
    BY <2>1, DurationsSorted
  <2> HIDE DEF sorted
  <2>4. /\ Repeated(sorted, times) \in Seq(Nat) /\ Ordered(Repeated(sorted, times))
        /\ Len(Repeated(sorted, times)) # 0
    BY <2>2, <2>3, RepeatedSorted
  <2> QED BY <2>4, SortedCuts DEF sorted, group
<1> QED BY <1>1, LogOfCalls, AnalyticsAssumption, PTL

(* For any number of events of any durations the files of the terminal UI  *)
(* and of the page have the same calls and the same rows but for the row   *)
(* of nameless events, the page's stats show what the analytics view does, *)
(* and in an order it may show it in, all up to the parts of microseconds  *)
(* that web.go cuts off each duration (tui/analytics.go, tui/export.go,    *)
(* web/web.go and web/static/app.js).                                      *)
THEOREM AggregationsAgree == Spec => []AnalyticsAgree
<1>1. AnalyticsAssumption /\ log \in Seq(Calls) => AnalyticsAgree
  BY FilesOfLog, ViewsOfLog, OrdersOfLog DEF AnalyticsAgree
<1> QED BY <1>1, LogOfCalls, AnalyticsAssumption, PTL

===============================================================================
