---------------------------- MODULE ScreenProofs -----------------------------
(* Theorems about screens: the chart of the explorer, the dialog of the      *)
(* quick search with the keys, the comparison of two tasks, the guided tour  *)
(* and the demo, each for any values of its constants.                       *)
EXTENDS Explorer, QuickAccess, TaskPage, Tour, Demo,
        FiniteSetTheorems, SequenceTheorems, WellFoundedInduction, TLAPS

-----------------------------------------------------------------------------
(* The chart of the explorer: its bounds and answers are times, and what the *)
(* user has sorted by and dragged over is there.                             *)
Bounds == [from : Int, to : Int]
TimeRanges == [live : BOOLEAN, from : Int, to : Int]
Bars == 0..(Buckets - 1)

ExplorerInv ==
    /\ clock \in Int /\ zone \in Int /\ changed \in [ChartRows -> Int] /\ bounds \in Bounds
    /\ DOMAIN search = {"mode", "range", "sort", "ascending", "selected", "columns"}
    /\ search.mode \in Modes /\ search.range \in TimeRanges
    /\ search.sort \in Columns[search.mode] \cap Sortable
    /\ DOMAIN search.columns = Modes
    /\ \A m \in Modes : search.columns[m] \subseteq Columns[m]
    /\ \A p \in histogram : p.at \in Int
    /\ drag = NoDrag \/ \E i, j \in Bars : drag = <<i, j>>

LEMMA Division ==
    ASSUME NEW a \in Int, NEW d \in Nat \ {0}
    PROVE  a \div d \in Int /\ d * (a \div d) <= a /\ a < d * (a \div d) + d
OBVIOUS

LEMMA QuotientAtLeast ==
    ASSUME NEW a \in Int, NEW d \in Nat \ {0}, NEW q \in Int, d * q <= a
    PROVE  q <= a \div d
<1> DEFINE n == a \div d
<1>1. n \in Int /\ a < d * n + d
      BY Division
<1> HIDE DEF n
<1>2. SUFFICES ASSUME n + 1 <= q PROVE FALSE
      BY <1>1 DEF n
<1>3. d * (n + 1) <= d * q
      BY <1>1, <1>2
<1>4. QED  BY <1>1, <1>3

LEMMA QuotientBelow ==
    ASSUME NEW a \in Int, NEW d \in Nat \ {0}, NEW q \in Int, a < d * q
    PROVE  a \div d < q
<1> DEFINE n == a \div d
<1>1. n \in Int /\ d * n <= a
      BY Division
<1> HIDE DEF n
<1>2. SUFFICES ASSUME q <= n PROVE FALSE
      BY <1>1 DEF n
<1>3. d * q <= d * n
      BY <1>1, <1>2
<1>4. QED  BY <1>1, <1>3

(* A moment of the chart lies in its bucket.                                 *)
LEMMA ScaledBucket ==
    ASSUME NEW S \in Nat \ {0}, NEW B \in Nat \ {0}, S >= B, NEW m \in 0..(S - 1)
    PROVE  LET i == (m * B) \div S
           IN  /\ i \in 0..(B - 1)
               /\ m = 0 => i = 0
               /\ (i * S) \div B <= m
               /\ m <= ((i + 1) * S) \div B
               /\ m = S - 1 => S <= ((i + 1) * S) \div B
<1> DEFINE i == (m * B) \div S
<1>1. m * B \in Nat /\ m * B < S * B
  <2>1. m * B <= (S - 1) * B
        OBVIOUS
  <2>2. (S - 1) * B = S * B - B
        OBVIOUS
  <2>3. QED  BY <2>1, <2>2
<1>2. i \in Int /\ S * i <= m * B /\ m * B < S * i + S
      BY <1>1, Division
<1>3. i < B
      BY <1>1, QuotientBelow
<1>4. 0 <= i
      BY <1>1, QuotientAtLeast
<1> HIDE DEF i
<1>5. i * S \in Int /\ i * S = S * i /\ (i + 1) * S = S * i + S /\ m * B = B * m
      BY <1>2
<1>6. (i * S) \div B < m + 1
  <2> DEFINE a == i * S
  <2>1. B * (m + 1) = B * m + B /\ m + 1 \in Int
        OBVIOUS
  <2>2. a < B * (m + 1) /\ a \in Int
        BY <1>2, <1>5, <2>1
  <2> HIDE DEF a
  <2>3. a \div B < m + 1
        BY <2>1, <2>2, QuotientBelow
  <2>4. QED  BY <2>3 DEF a
<1>7. m <= ((i + 1) * S) \div B
  <2> DEFINE c == (i + 1) * S
  <2>1. B * m <= c /\ c \in Int
        BY <1>2, <1>5
  <2> HIDE DEF c
  <2>2. m <= c \div B
        BY <2>1, QuotientAtLeast
  <2>3. QED  BY <2>2 DEF c
<1>8. ASSUME m = S - 1 PROVE S <= ((i + 1) * S) \div B
  <2>1. m * B = S * B - B
        BY <1>8
  <2>2. S * (B - 1) = S * B - S
        OBVIOUS
  <2>3. S * (B - 1) <= m * B
        BY <2>1, <2>2
  <2>4. B - 1 <= i
        BY <1>1, <2>3, QuotientAtLeast DEF i
  <2>5. i + 1 = B
        BY <1>2, <1>3, <2>4
  <2> DEFINE c == (i + 1) * S
  <2>6. B * S <= c /\ c \in Int
        BY <2>5
  <2> HIDE DEF c
  <2>7. S <= c \div B
        BY <2>6, QuotientAtLeast
  <2>8. QED  BY <2>7 DEF c
<1>9. (i * S) \div B <= m
  <2> DEFINE a == i * S
  <2>1. a \in Int
        BY <1>5
  <2> HIDE DEF a
  <2>2. a \div B \in Int
        BY <2>1, Division
  <2>3. QED  BY <1>6, <2>2 DEF a
<1>10. ASSUME m = 0 PROVE i = 0
      BY <1>10, <1>2 DEF i
<1>11. QED  BY <1>2, <1>3, <1>4, <1>7, <1>8, <1>9, <1>10 DEF i

LEMMA InItsBucket ==
    ASSUME bounds \in Bounds, HasChart, NEW at \in Int
    PROVE  LET i == BucketOf(at)
           IN  /\ i \in Bars
               /\ IF at >= bounds.from THEN at >= BucketStart(i) ELSE i = 0
               /\ \/ at <= BucketEnd(i)
                  \/ at > bounds.to /\ i = BucketOf(bounds.to)
<1> DEFINE S == Span(bounds)
           Into(x) == Smaller(Larger(x - bounds.from, 0), Larger(S - 1, 0))
           m == Into(at)
           i == BucketOf(at)
<1>1. bounds.from \in Int /\ bounds.to \in Int /\ Buckets \in Nat \ {0}
      BY ExplorerAssumption DEF Bounds
<1>2. S = bounds.to - bounds.from /\ S \in Nat \ {0}
      BY <1>1 DEF HasChart, Span
<1>3. \A x \in Int : /\ Into(x) \in 0..(S - 1)
                     /\ x <= bounds.to - 1 => x <= bounds.from + Into(x)
                     /\ x >= bounds.from => x >= bounds.from + Into(x)
                     /\ x >= bounds.to => Into(x) = S - 1
                     /\ x < bounds.from => Into(x) = 0
  <2> HIDE DEF S
  <2>1. QED  BY <1>1, <1>2 DEF Smaller, Larger
<1>4. \A x : BucketOf(x) = Smaller(IF Scaled THEN (Into(x) * Buckets) \div S ELSE Into(x), Buckets - 1)
      BY DEF BucketOf
<1> HIDE DEF Into
<1>5. /\ i \in Bars
      /\ BucketStart(i) <= bounds.from + m
      /\ bounds.from + m <= BucketStart(i + 1)
      /\ m = S - 1 => bounds.to <= BucketStart(i + 1)
      /\ m = 0 => i = 0
      /\ BucketStart(i) \in Int /\ BucketStart(i + 1) \in Int
  <2>1. CASE Scaled
    <3> DEFINE q == (m * Buckets) \div S
    <3>1. S >= Buckets
          BY <2>1 DEF Scaled
    <3>2. /\ q \in 0..(Buckets - 1)
          /\ (q * S) \div Buckets <= m
          /\ m <= ((q + 1) * S) \div Buckets
          /\ m = S - 1 => S <= ((q + 1) * S) \div Buckets
          /\ m = 0 => q = 0
      <4> HIDE DEF S
      <4>1. m \in 0..(S - 1)
            BY <1>3
      <4> HIDE DEF m
      <4>2. QED  BY <1>1, <1>2, <3>1, <4>1, ScaledBucket
    <3>3. i = Smaller(q, Buckets - 1)
          BY <1>4, <2>1
    <3> HIDE DEF q, S, m, i
    <3>4. i = q
          BY <1>1, <3>2, <3>3 DEF Smaller
    <3>5. \A x : BucketStart(x) = bounds.from + ((x * S) \div Buckets)
          BY <2>1 DEF BucketStart, S
    <3>6. (q * S) \div Buckets \in Int /\ ((q + 1) * S) \div Buckets \in Int
      <4>1. q * S \in Int /\ (q + 1) * S \in Int
            BY <1>1, <1>2, <3>2
      <4>2. QED  BY <1>1, <4>1, Division
    <3>7. m \in Int
          BY <1>3 DEF m
    <3>8. QED  BY <1>1, <1>2, <3>2, <3>4, <3>5, <3>6, <3>7 DEF Bars
  <2>2. CASE ~Scaled
    <3>1. S < Buckets
          BY <1>1, <1>2, <2>2 DEF Scaled
    <3>2. i = Smaller(m, Buckets - 1)
          BY <1>4, <2>2
    <3>3. m \in 0..(S - 1)
          BY <1>3
    <3> HIDE DEF S, m, i
    <3>4. i = m
          BY <1>1, <1>2, <3>1, <3>2, <3>3 DEF Smaller
    <3>5. \A x : BucketStart(x) = bounds.from + x
          BY <2>2 DEF BucketStart
    <3>6. QED  BY <1>1, <1>2, <3>1, <3>3, <3>4, <3>5 DEF Bars
  <2>3. QED  BY <2>1, <2>2
<1>6. at >= bounds.to => m = S - 1
      BY <1>3
<1>7. at > bounds.to => i = BucketOf(bounds.to)
  <2>1. at > bounds.to => m = Into(bounds.to)
        BY <1>1, <1>3
  <2>2. QED  BY <1>4, <2>1
<1>8. BucketEnd(i) = Smaller(BucketStart(i + 1), bounds.to)
      BY DEF BucketEnd
<1>9. m \in Int /\ (at >= bounds.from => at >= bounds.from + m) /\ (at <= bounds.to - 1 => at <= bounds.from + m)
      BY <1>1, <1>3
<1> HIDE DEF S, m, i
<1>10. at >= bounds.from => at >= BucketStart(i)
      BY <1>1, <1>5, <1>9
<1>11. at <= bounds.to => at <= BucketEnd(i)
      BY <1>1, <1>5, <1>6, <1>8, <1>9 DEF Smaller
<1>12. at < bounds.from => i = 0
      BY <1>3, <1>5 DEF m
<1>13. QED  BY <1>1, <1>5, <1>7, <1>10, <1>11, <1>12 DEF i

(* A set of numbers that is not empty has a least one.                       *)
LEMMA LeastOf == ASSUME NEW S \in SUBSET Nat, S # {} PROVE \E m \in S : \A n \in S : m <= n
<1> DEFINE Below == {0 .. n : n \in S}
<1>1. \A n \in Nat : 0 .. n \in FiniteSubsetsOf(Nat)
  BY FS_Interval DEF FiniteSubsetsOf
<1>2. Below \subseteq FiniteSubsetsOf(Nat) /\ Below # {}
  BY <1>1
<1>3. PICK least \in Below : \A other \in Below : ~ (<<other, least>> \in StrictSubsetOrdering(Nat))
  <2>1. IsWellFoundedOn(StrictSubsetOrdering(Nat), FiniteSubsetsOf(Nat))
        BY FS_StrictSubsetOrderingWellFounded
  <2> HIDE DEF Below
  <2>2. QED  BY <1>2, <2>1, WFMin
<1>4. PICK m \in S : least = 0 .. m
  BY <1>3
<1>5. ASSUME NEW n \in S, n < m PROVE FALSE
  <2>1. 0 .. n \in Below
    OBVIOUS
  <2>2. 0 .. n \subseteq 0 .. m /\ 0 .. n # 0 .. m /\ 0 .. n \in SUBSET Nat /\ 0 .. m \in SUBSET Nat
    BY <1>5
  <2> QED BY <1>3, <1>4, <2>1, <2>2 DEF StrictSubsetOrdering
<1> QED BY <1>5

LEMMA GrainIsPositive == ASSUME NEW b PROVE GrainOf(b) \in Nat \ {0}
<1> DEFINE fits == {i \in DOMAIN Grains : Span(b) <= Grains[i][1]}
           first == CHOOSE i \in fits : \A j \in fits : i <= j
<1>1. /\ DOMAIN Grains = 1..Len(Grains) /\ Len(Grains) \in DOMAIN Grains
      /\ \A i \in DOMAIN Grains : Grains[i][2] \in Nat \ {0}
      BY ExplorerAssumption
<1>2. CASE fits = {}
      BY <1>1, <1>2 DEF GrainOf
<1>3. CASE fits # {}
  <2>1. fits \in SUBSET Nat
        BY <1>1
  <2>2. first \in fits
    <3> HIDE DEF fits
    <3>1. QED  BY <1>3, <2>1, LeastOf
  <2>3. GrainOf(b) = Grains[first][2]
        BY <1>3 DEF GrainOf
  <2>4. QED  BY <1>1, <2>2, <2>3
<1>4. QED  BY <1>2, <1>3

LEMMA ResolvedIsBounds ==
    ASSUME clock \in Int, NEW range \in TimeRanges
    PROVE  Resolved(range) \in Bounds
BY ExplorerAssumption DEF Resolved, TimeRanges, Bounds

LEMMA InitExplorer == ExplorerInit => ExplorerInv
<1> SUFFICES ASSUME ExplorerInit PROVE ExplorerInv
    OBVIOUS
<1>1. LastHour \in TimeRanges /\ clock \in Int /\ zone \in Int
      BY ExplorerAssumption DEF LastHour, TimeRanges, ExplorerInit
<1>2. bounds \in Bounds
      BY <1>1, ResolvedIsBounds DEF ExplorerInit
<1>3. PICK m \in Modes : search = [mode |-> m, range |-> LastHour, sort |-> "last_updated", ascending |-> FALSE,
                    selected |-> {}, columns |-> [x \in Modes |-> {}]]
      BY DEF ExplorerInit
<1>4. "last_updated" \in Columns[m] \cap Sortable
      BY ExplorerAssumption DEF Modes
<1>5. QED  BY <1>1, <1>2, <1>3, <1>4 DEF ExplorerInit, ExplorerInv

(* What the URL becomes.                                                     *)
LEMMA SearchKeeps ==
    ASSUME ExplorerInv, NEW m \in Modes, NEW c \in Columns[m] \cap Sortable, NEW range \in TimeRanges,
           DOMAIN search' = DOMAIN search, search'.mode = m, search'.sort = c, search'.range = range,
           search'.columns = search.columns, bounds' \in Bounds,
           UNCHANGED <<clock, zone, changed, histogram>>, drag' \in {drag, NoDrag}
    PROVE  ExplorerInv'
<1>1. \A x \in Modes : search'.columns[x] \subseteq Columns[x]
      BY DEF ExplorerInv
<1>2. DOMAIN search'.columns = Modes
      BY DEF ExplorerInv
<1>3. QED  BY <1>1, <1>2 DEF ExplorerInv

LEMMA VisibleAreColumns ==
    ASSUME ExplorerInv
    PROVE  VisibleColumns \subseteq Columns[search.mode]
<1>1. search.mode \in DOMAIN RowsOf
      BY DEF ExplorerInv, Modes
<1>2. DefaultColumns[search.mode] \subseteq Columns[search.mode]
      BY <1>1, ExplorerAssumption
<1>3. search.columns[search.mode] \subseteq Columns[search.mode]
      BY DEF ExplorerInv
<1>4. QED  BY <1>2, <1>3 DEF VisibleColumns

(* A selection is a part of what is drawn.                                   *)
BoundsShrink ==
    drag # NoDrag /\ drag' = NoDrag /\ bounds' # bounds =>
        /\ bounds'.from \in bounds.from..bounds.to /\ bounds'.to \in bounds.from..bounds.to
        /\ bounds'.from < bounds'.to

LEMMA BucketsAreMoments ==
    ASSUME bounds \in Bounds, HasChart, NEW i \in Bars
    PROVE  /\ BucketStart(i) \in Int /\ bounds.from <= BucketStart(i)
           /\ BucketEnd(i) \in Int /\ BucketEnd(i) <= bounds.to
<1> DEFINE S == Span(bounds)
<1>1. bounds.from \in Int /\ bounds.to \in Int /\ Buckets \in Nat \ {0} /\ S = bounds.to - bounds.from /\ S \in Nat
      BY ExplorerAssumption DEF Bounds, HasChart, Span
<1> HIDE DEF S
<1>2. ASSUME NEW x \in Nat PROVE BucketStart(x) \in Int /\ bounds.from <= BucketStart(x)
  <2>1. (x * S) \div Buckets \in Int /\ 0 <= (x * S) \div Buckets
    <3>1. x * S \in Int /\ Buckets * 0 <= x * S
          BY <1>1, <1>2
    <3>2. QED  BY <1>1, <3>1, Division, QuotientAtLeast
  <2>2. BucketStart(x) = bounds.from + IF Scaled THEN (x * S) \div Buckets ELSE x
        BY DEF BucketStart, S
  <2>3. QED  BY <1>1, <1>2, <2>1, <2>2
<1>3. i \in Nat /\ i + 1 \in Nat
      BY <1>1 DEF Bars
<1>4. BucketEnd(i) = Smaller(BucketStart(i + 1), bounds.to)
      BY DEF BucketEnd
<1>5. BucketStart(i + 1) \in Int /\ BucketStart(i) \in Int /\ bounds.from <= BucketStart(i)
      BY <1>2, <1>3
<1>6. QED  BY <1>1, <1>4, <1>5 DEF Smaller

LEMMA CommitsKeeps == ASSUME ExplorerInv, NEW i \in Bars, Commits(i) PROVE ExplorerInv' /\ BoundsShrink
<1>1. PICK j \in Bars, k \in Bars : drag = <<j, k>>
      BY DEF ExplorerInv, Commits, NoDrag
<1>2. Smaller(j, i) \in Bars /\ Larger(j, i) \in Bars
      BY DEF Smaller, Larger
<1> DEFINE from == BucketStart(Smaller(j, i))
           to == BucketEnd(Larger(j, i))
<1>3. bounds \in Bounds /\ HasChart
      BY DEF ExplorerInv, Commits, Overlay
<1>4. from \in Int /\ bounds.from <= from /\ to \in Int /\ to <= bounds.to
      BY <1>2, <1>3, BucketsAreMoments
<1>5. bounds.from \in Int /\ bounds.to \in Int
      BY <1>3 DEF Bounds
<1>6. drag[1] = j
      BY <1>1
<1>7. /\ drag' = NoDrag /\ UNCHANGED <<World, Answer>>
      /\ IF from < to
         THEN Asks([search EXCEPT !.range = Static(from, to)]) /\ bounds' = [from |-> from, to |-> to]
         ELSE UNCHANGED <<search, refreshing, bounds>>
      BY <1>6 DEF Commits
<1> HIDE DEF from, to
<1>8. CASE from < to
  <2>1. search' = [search EXCEPT !.range = Static(from, to)] /\ bounds' = [from |-> from, to |-> to]
        BY <1>7, <1>8 DEF Asks
  <2>2. Static(from, to) \in TimeRanges /\ bounds' \in Bounds
        BY <1>4, <2>1 DEF Static, TimeRanges, Bounds
  <2>3. ExplorerInv'
        BY <1>7, <2>1, <2>2, SearchKeeps DEF ExplorerInv, World, Answer
  <2>4. BoundsShrink
        BY <1>4, <1>5, <1>8, <2>1 DEF BoundsShrink
  <2>5. QED  BY <2>3, <2>4
<1>9. CASE ~(from < to)
      BY <1>7, <1>9 DEF ExplorerInv, BoundsShrink, World, Answer
<1>10. QED  BY <1>8, <1>9

LEMMA ExplorerStep == ExplorerInv /\ [ExplorerNext]_explorerPageVars => ExplorerInv' /\ BoundsShrink
<1> SUFFICES ASSUME ExplorerInv, [ExplorerNext]_explorerPageVars PROVE ExplorerInv' /\ BoundsShrink
    OBVIOUS
<1>1. CASE Ages \/ (\E r \in ChartRows : Touches(r)) \/ LiveRefetch
  <2>1. clock' \in Int /\ zone' \in Int /\ changed' \in [ChartRows -> Int] /\ UNCHANGED <<search, bounds, histogram, drag>>
        BY <1>1 DEF Ages, Touches, LiveRefetch, World, Answer, ExplorerInv
  <2>2. QED  BY <2>1 DEF ExplorerInv, BoundsShrink
<1>2. CASE Replies
  <2>1. histogram' = Counted(Resolved(search.range)) /\ UNCHANGED <<World, search, bounds, drag>>
        BY <1>2 DEF Replies
  <2>2. ASSUME NEW b, NEW p \in Counted(b) PROVE p.at \in Int
    <3>1. PICK r \in RowsOf[search.mode] : p = [row |-> r, at |-> (changed[r] \div GrainOf(b)) * GrainOf(b)]
          BY <2>2 DEF Counted
    <3>2. r \in ChartRows
          BY DEF ChartRows, ExplorerInv
    <3>3. changed[r] \div GrainOf(b) \in Int /\ GrainOf(b) \in Int
          BY <3>2, GrainIsPositive, Division DEF ExplorerInv
    <3>4. QED  BY <3>1, <3>3
  <2>3. QED  BY <2>1, <2>2 DEF ExplorerInv, BoundsShrink, World
<1>3. CASE PicksRange
  <2>1. PICK range \in {LastHour} \cup {Static(b.from, b.to) : b \in Pickable} :
            search' = [search EXCEPT !.range = range] /\ bounds' = Resolved(range)
        BY <1>3 DEF PicksRange, Asks
  <2>2. range \in TimeRanges
    <3>1. LastHour \in TimeRanges
          BY DEF LastHour, TimeRanges
    <3>2. ASSUME NEW b \in Pickable PROVE Static(b.from, b.to) \in TimeRanges
      <4>1. b.from \in Int /\ b.to \in Int
            BY ExplorerAssumption
      <4>2. QED  BY <4>1 DEF Static, TimeRanges
    <3>3. QED  BY <3>1, <3>2
  <2>3. UNCHANGED <<World, Answer, drag>>
        BY <1>3 DEF PicksRange
  <2>4. bounds' \in Bounds
        BY <2>1, <2>2, ResolvedIsBounds DEF ExplorerInv
  <2>5. QED  BY <2>1, <2>2, <2>3, <2>4, SearchKeeps DEF ExplorerInv, World, Answer, BoundsShrink
<1>4. ASSUME NEW m \in Modes, SwitchesMode(m) PROVE ExplorerInv' /\ BoundsShrink
  <2>1. "last_updated" \in Columns[m] \cap Sortable
        BY ExplorerAssumption DEF Modes
  <2>2. /\ search' = [search EXCEPT !.mode = m, !.sort = "last_updated", !.ascending = FALSE]
        /\ UNCHANGED <<World, bounds, Answer, drag>>
        BY <1>4 DEF SwitchesMode, Asks
  <2>3. QED  BY <2>1, <2>2, SearchKeeps DEF ExplorerInv, World, Answer, BoundsShrink
<1>5. CASE ClearsValues \/ \E v \in DOMAIN facet : TogglesValue(v)
  <2>1. PICK S : search' = [search EXCEPT !.selected = S] /\ UNCHANGED <<World, bounds, Answer, drag>>
        BY <1>5 DEF ClearsValues, TogglesValue, Asks
  <2>2. QED  BY <2>1, SearchKeeps DEF ExplorerInv, World, Answer, BoundsShrink
<1>6. ASSUME NEW c \in Columns[search.mode], SortsBy(c) PROVE ExplorerInv' /\ BoundsShrink
  <2>1. c \in Columns[search.mode] \cap Sortable
        BY <1>6, VisibleAreColumns DEF SortsBy
  <2>2. PICK up : search' = [search EXCEPT !.sort = c, !.ascending = up]
        BY <1>6 DEF SortsBy, Asks
  <2>3. UNCHANGED <<World, bounds, Answer, drag>>
        BY <1>6 DEF SortsBy
  <2>4. QED  BY <2>1, <2>2, <2>3, SearchKeeps DEF ExplorerInv, World, Answer, BoundsShrink
<1>7. ASSUME NEW c \in Columns[search.mode], TogglesColumn(c) PROVE ExplorerInv' /\ BoundsShrink
  <2>1. PICK S \in SUBSET Columns[search.mode] :
            search' = [search EXCEPT !.columns = [search.columns EXCEPT ![search.mode] = S]]
        BY <1>7, VisibleAreColumns DEF TogglesColumn
  <2>2. UNCHANGED <<World, bounds, Answer, drag>>
        BY <1>7 DEF TogglesColumn
  <2>3. search'.columns = [search.columns EXCEPT ![search.mode] = S]
        BY <2>1 DEF ExplorerInv
  <2>4. DOMAIN search'.columns = Modes /\ \A m \in Modes : search'.columns[m] \subseteq Columns[m]
        BY <2>3 DEF ExplorerInv
  <2>5. QED  BY <2>1, <2>2, <2>4 DEF ExplorerInv, World, Answer, BoundsShrink
<1>8. ASSUME NEW i \in Bars, Presses(i) \/ Drags(i) PROVE ExplorerInv' /\ BoundsShrink
  <2>1. UNCHANGED <<World, search, bounds, Answer>>
        BY <1>8 DEF Presses, Drags
  <2>2. \E j, k \in Bars : drag' = <<j, k>>
        BY <1>8 DEF Presses, Drags, ExplorerInv, NoDrag
  <2>3. QED  BY <2>1, <2>2 DEF ExplorerInv, World, Answer, BoundsShrink
<1>9. CASE UNCHANGED explorerPageVars
      BY <1>9 DEF explorerPageVars, ExplorerInv, BoundsShrink
<1>10. QED  BY <1>1, <1>2, <1>3, <1>4, <1>5, <1>6, <1>7, <1>8, <1>9, CommitsKeeps DEF ExplorerNext, Bars

(* The chart draws each row that is counted, in one bucket, that of the      *)
(* moment its grain is taken for or the nearest end, though the grain of the *)
(* server is not that of the chart, the bounds of a live range fall behind   *)
(* and the clock is not that of UTC; and a selection is a part of what is    *)
(* drawn (buildChartData, commitSelection).                                  *)
THEOREM ChartDrawsAll == ExplorerSpec => ChartDrawsWhatIsCounted
<1> DEFINE Drawn ==
       /\ Overlay => \A p \in histogram :
             LET at == p.at - zone
                 i == DrawnIn(p)
             IN  /\ i \in 0..(Buckets - 1)
                 /\ IF at >= bounds.from THEN at >= BucketStart(i) ELSE i = 0
                 /\ \/ at <= BucketEnd(i)
                    \/ at > bounds.to /\ i = BucketOf(bounds.to)
       /\ search.sort \in Columns[search.mode] \cap Sortable
<1>1. ExplorerInv => Drawn
  <2>1. ASSUME ExplorerInv, NEW p \in histogram PROVE p.at - zone \in Int
        BY <2>1 DEF ExplorerInv
  <2>2. QED  BY <2>1, InItsBucket DEF ExplorerInv, Overlay, Bars, DrawnIn, ReadAsLocal
<1>2. ExplorerInv /\ [ExplorerNext]_explorerPageVars => BoundsShrink
      BY ExplorerStep
<1>3. ExplorerSpec => []Drawn
      BY <1>1, InitExplorer, ExplorerStep, PTL DEF ExplorerSpec
<1>4. ExplorerSpec => [][BoundsShrink]_explorerPageVars
      BY InitExplorer, ExplorerStep, PTL DEF ExplorerSpec
<1>5. QED  BY <1>3, <1>4 DEF ChartDrawsWhatIsCounted, BoundsShrink

-----------------------------------------------------------------------------
(* The dialog of the quick search.  Its list is that of the text that the    *)
(* results are of, in which there is a highlight, and a field without a text *)
(* has nothing under way.                                                    *)
SearchShape ==
    /\ typed \in Typed \cup {""} /\ results \in Typed \cup {""} /\ searches \subseteq Typed
    /\ typed = "" => ~typing /\ ~searching /\ ~searchError

QuickSearchInv == ~searching /\ ~searchError => results = typed

InList == Items(typed, results) # <<>> => highlight < Len(Items(typed, results))

DialogInv == SearchShape /\ QuickSearchInv /\ highlight \in Nat /\ InList

LEMMA ItemsAreListed ==
    ASSUME NEW text \in Typed \cup {""}, NEW found \in Typed \cup {""}
    PROVE  Items(text, found) \in Seq(STRING)
<1>1. PagesFor[text] \in Seq(STRING)
      BY QuickAccessAssumption
<1>2. CASE text = "" \/ found = ""
  <2>1. Items(text, found) = PagesFor[text] \o <<>>
        BY <1>2 DEF Items
  <2>2. QED  BY <1>1, <2>1, ConcatEmptySeq
<1>3. CASE ~(text = "" \/ found = "")
  <2>1. Items(text, found) = PagesFor[text] \o FoundFor[found]
        BY <1>3 DEF Items
  <2>2. FoundFor[found] \in Seq(STRING)
        BY <1>3, QuickAccessAssumption
  <2>3. QED  BY <1>1, <2>1, <2>2, ConcatProperties
<1>4. QED  BY <1>2, <1>3

LEMMA ClampedFits ==
    ASSUME NEW i \in Nat, NEW items \in Seq(STRING)
    PROVE  Clamped(i, items) \in Nat /\ (items # <<>> => Clamped(i, items) < Len(items))
<1>1. Len(items) \in Nat /\ (items # <<>> => Len(items) > 0)
      OBVIOUS
<1>2. QED  BY <1>1 DEF Clamped

LEMMA TypingKeeps ==
    ASSUME SearchShape, QuickSearchInv, NEW text \in Typed \cup {""}, Types(text)
    PROVE  SearchShape' /\ QuickSearchInv' /\ (text = "" => ~searching' /\ ~searchError')
<1>1. CASE text = ""
      BY <1>1, QuickAccessAssumption DEF Types, SearchShape, QuickSearchInv
<1>2. CASE text # ""
  <2>1. typed' = text /\ searching' /\ results' = results /\ searches' = searches
        BY <1>2 DEF Types
  <2>2. QED  BY <1>2, <2>1 DEF SearchShape, QuickSearchInv
<1>3. QED  BY <1>1, <1>2

LEMMA SearchingKeeps ==
    ASSUME SearchShape, QuickSearchInv, Searches \/ \E text \in searches : SearchArrives(text) \/ SearchFails(text)
    PROVE  SearchShape' /\ QuickSearchInv' /\ typed' = typed
<1>1. CASE Searches
  <2>1. typed # "" /\ typed \in Typed
        BY <1>1, QuickAccessAssumption DEF Searches, SearchShape
  <2>2. QED  BY <1>1, <2>1 DEF Searches, SearchShape, QuickSearchInv
<1>2. ASSUME NEW text \in searches, SearchArrives(text) \/ SearchFails(text)
      PROVE  SearchShape' /\ QuickSearchInv' /\ typed' = typed
  <2>1. text \in Typed /\ text # "" /\ typed' = typed /\ typing' = typing /\ searches' \subseteq Typed
        BY <1>2, QuickAccessAssumption DEF SearchShape, SearchArrives, SearchFails
  <2>2. CASE typed = text
    <3>1. \/ results' = text /\ ~searchError' /\ ~searching'
          \/ results' = results /\ searchError' /\ ~searching'
          BY <1>2, <2>2 DEF SearchArrives, SearchFails, IsActive
    <3>2. QED  BY <2>1, <2>2, <3>1 DEF SearchShape, QuickSearchInv
  <2>3. CASE typed # text
    <3>1. UNCHANGED <<results, searchError, searching>>
          BY <1>2, <2>3 DEF SearchArrives, SearchFails, IsActive
    <3>2. QED  BY <2>1, <3>1 DEF SearchShape, QuickSearchInv
  <2>4. QED  BY <2>2, <2>3
<1>3. QED  BY <1>1, <1>2

(* Enter opens an item of the list, if that is what is shown, and a dialog   *)
(* that is opened has forgotten the last search.                             *)
EnterStep ==
    /\ went' # went /\ Displayed # <<>> => went'[1] \in Seqs!ToSet(Displayed) /\ ~dialog'
    /\ dialog' /\ ~dialog => typed' = "" /\ ~searching' /\ ~searchError'

LEMMA HighlightMoves ==
    ASSUME DialogInv, highlight' \in Nat, UNCHANGED pageVars, UNCHANGED <<went, dialog>>,
           Items(typed, results) # <<>> => highlight' < Len(Items(typed, results))
    PROVE  DialogInv' /\ EnterStep
<1>1. UNCHANGED <<typed, typing, searches, results, searching, searchError>>
      BY DEF pageVars, searchVars
<1>2. Items(typed, results)' = Items(typed, results)
      BY <1>1 DEF Items
<1>3. QED  BY <1>1, <1>2 DEF DialogInv, SearchShape, QuickSearchInv, InList, EnterStep

(* What the dialog has nothing to do with, and what closes it.               *)
LEMMA DialogLeftAlone ==
    ASSUME DialogInv, UNCHANGED <<pageVars, highlight, went>>, dialog' => dialog
    PROVE  DialogInv' /\ EnterStep
<1>1. UNCHANGED <<typed, typing, searches, results, searching, searchError>>
      BY DEF pageVars, searchVars
<1>2. Items(typed, results)' = Items(typed, results)
      BY <1>1 DEF Items
<1>3. QED  BY <1>1, <1>2 DEF DialogInv, SearchShape, QuickSearchInv, InList, EnterStep

LEMMA FocusKeeps == ASSUME DialogInv, FocusesSearch PROVE DialogInv' /\ EnterStep
<1>1. ~dialog /\ dialog' = TRUE /\ highlight' = 0 /\ went' = went
      BY DEF FocusesSearch
<1>2. SearchShape' /\ QuickSearchInv' /\ typed' = "" /\ ~searching' /\ ~searchError'
  <2>1. CASE typed = ""
        BY <2>1 DEF FocusesSearch, pageVars, searchVars, DialogInv, SearchShape, QuickSearchInv
  <2>2. CASE typed # ""
        BY <2>2, TypingKeeps DEF FocusesSearch, DialogInv, Types
  <2>3. QED  BY <2>1, <2>2
<1>3. Items(typed, results)' \in Seq(STRING)
      BY <1>2, ItemsAreListed DEF SearchShape
<1>4. InList'
  <2>1. Items(typed, results)' # <<>> => Len(Items(typed, results)') > 0
        BY <1>3
  <2>2. QED  BY <1>1, <2>1 DEF InList
<1>5. QED  BY <1>1, <1>2, <1>4 DEF DialogInv, EnterStep

LEMMA ListKeeps ==
    ASSUME DialogInv, SearchShape', QuickSearchInv', highlight' = Clamped(highlight, Items(typed', results')),
           UNCHANGED <<dialog, went>>
    PROVE  DialogInv' /\ EnterStep
<1>1. Items(typed', results') \in Seq(STRING)
      BY ItemsAreListed DEF SearchShape
<1>2. highlight' \in Nat /\ (Items(typed', results') # <<>> => highlight' < Len(Items(typed', results')))
      BY <1>1, ClampedFits DEF DialogInv
<1>3. Items(typed, results)' = Items(typed', results')
      BY DEF Items
<1>4. QED  BY <1>2, <1>3 DEF DialogInv, InList, EnterStep

LEMMA GoingKeeps ==
    ASSUME DialogInv, PressesEnter \/ \E i \in 0..(Len(Displayed) - 1) : Clicks(i)
    PROVE  DialogInv' /\ EnterStep
<1> DEFINE items == Items(typed, results)
<1>1. items \in Seq(STRING)
      BY ItemsAreListed DEF DialogInv, SearchShape
<1>2. Displayed \in {<<>>, items}
      BY DEF Displayed
<1>3. PICK i \in Nat : i < Len(items) /\ GoesTo(items[i + 1])
  <2>1. CASE PressesEnter
        BY <2>1 DEF PressesEnter, DialogInv
  <2>2. ASSUME NEW i \in 0..(Len(Displayed) - 1), Clicks(i) PROVE i \in Nat /\ i < Len(items) /\ GoesTo(items[i + 1])
    <3>1. i < Len(Displayed) /\ GoesTo(Displayed[i + 1])
          BY <2>2 DEF Clicks
    <3>2. CASE Displayed = items
          BY <3>1, <3>2
    <3>3. CASE Displayed = <<>>
      <4>1. Len(Displayed) = 0
            BY <3>3
      <4>2. QED  BY <2>2, <3>1, <4>1
    <3>4. QED  BY <1>2, <3>2, <3>3
  <2>3. QED  BY <2>1, <2>2
<1> HIDE DEF items
<1>4. went' = <<items[i + 1], typed>> /\ dialog' = FALSE /\ UNCHANGED <<pageVars, highlight>>
      BY <1>3 DEF GoesTo
<1>5. UNCHANGED <<typed, typing, searches, results, searching, searchError>>
      BY <1>4 DEF pageVars, searchVars
<1>6. DialogInv'
  <2>1. Items(typed, results)' = Items(typed, results)
        BY <1>5 DEF Items
  <2>2. QED  BY <1>4, <1>5, <2>1 DEF DialogInv, SearchShape, QuickSearchInv, InList
<1>7. Displayed # <<>> => went'[1] \in Seqs!ToSet(Displayed)
  <2>1. i + 1 \in DOMAIN items /\ went'[1] = items[i + 1]
        BY <1>1, <1>3, <1>4
  <2>2. QED  BY <1>2, <2>1 DEF Seqs!ToSet
<1>8. QED  BY <1>4, <1>6, <1>7 DEF EnterStep

LEMMA PointingKeeps ==
    ASSUME DialogInv, (\E by \in {-1, 1} : Moves(by)) \/ \E i \in 0..(Len(Displayed) - 1) : PointsAt(i)
    PROVE  DialogInv' /\ EnterStep
<1> DEFINE items == Items(typed, results)
<1>1. items \in Seq(STRING)
      BY ItemsAreListed DEF DialogInv, SearchShape
<1>2. Displayed \in {<<>>, items}
      BY DEF Displayed
<1>3. UNCHANGED pageVars /\ UNCHANGED <<went, dialog>>
      BY DEF Moves, PointsAt
<1>4. highlight' \in Nat /\ (items # <<>> => highlight' < Len(items))
  <2>1. ASSUME NEW by \in {-1, 1}, Moves(by) PROVE highlight' \in Nat /\ (items # <<>> => highlight' < Len(items))
    <3> DEFINE n == Len(items)
    <3>1. n \in Nat /\ (items # <<>> => n # 0)
          BY <1>1
    <3>2. highlight' = IF n = 0 THEN 0 ELSE (highlight + by + n) % n
          BY <2>1 DEF Moves
    <3> HIDE DEF items, n
    <3>3. QED  BY <3>1, <3>2 DEF DialogInv, n
  <2>2. ASSUME NEW i \in 0..(Len(Displayed) - 1), PointsAt(i)
        PROVE  highlight' \in Nat /\ (items # <<>> => highlight' < Len(items))
    <3>1. highlight' = i /\ i < Len(Displayed)
          BY <2>2 DEF PointsAt
    <3>2. CASE Displayed = items
          BY <3>1, <3>2
    <3>3. CASE Displayed = <<>>
      <4>1. Len(Displayed) = 0
            BY <3>3
      <4>2. QED  BY <2>2, <3>1, <4>1
    <3>4. QED  BY <1>2, <3>2, <3>3
  <2>3. QED  BY <2>1, <2>2
<1>5. QED  BY <1>3, <1>4, HighlightMoves

-----------------------------------------------------------------------------
(* The keys.  What is registered is of the page that is open and of the      *)
(* sidebar as it is.                                                         *)
ShortcutsInv ==
    /\ shell.page \in {"events", "other"} /\ shell.sidebar \in BOOLEAN
    /\ DOMAIN shell = {"page", "sidebar", "field", "filtered"}
    /\ shortcuts = AppShortcuts(shell.sidebar) \cup PageShortcuts(shell.page)

KeysStep ==
    /\ PressesKey("mod+b") => shell'.sidebar # shell.sidebar
    /\ PressesKey("c") => shell.page = "events" /\ ~shell'.filtered

LEMMA AppShortcutIs ==
    ASSUME NEW open \in BOOLEAN, NEW s \in AppShortcuts(open)
    PROVE  /\ s.owner = "app" /\ s.section = "Global"
           /\ \/ s.key = "mod+k" /\ s = Shortcut("app", "focus-search", "mod+k", "Global", TRUE)
              \/ s.key = "/" /\ s = Shortcut("app", "focus-search-alt", "/", "Global", TRUE)
              \/ s.key = "?" /\ s = Shortcut("app", "open-help", "?", "Global", TRUE)
              \/ s.key = "mod+b" /\ s = Shortcut("app", "toggle-sidebar", "mod+b", "Global", ~open)
<1>1. CASE s = Shortcut("app", "focus-search", "mod+k", "Global", TRUE)
      BY <1>1 DEF Shortcut
<1>2. CASE s = Shortcut("app", "focus-search-alt", "/", "Global", TRUE)
      BY <1>2 DEF Shortcut
<1>3. CASE s = Shortcut("app", "open-help", "?", "Global", TRUE)
      BY <1>3 DEF Shortcut
<1>4. CASE s = Shortcut("app", "toggle-sidebar", "mod+b", "Global", ~open)
      BY <1>4 DEF Shortcut
<1>5. QED  BY <1>1, <1>2, <1>3, <1>4 DEF AppShortcuts

LEMMA PageShortcutIs ==
    ASSUME NEW page
    PROVE  /\ \A s \in PageShortcuts(page) :
                 /\ s.owner = "page" /\ s.section = "Current Page" /\ s.key = "c" /\ page = "events"
                 /\ s = Shortcut("page", "reset-live-events-filters", "c", "Current Page", FALSE)
           /\ \A s, t \in PageShortcuts(page) : s = t
           /\ page = "events" => PageShortcuts(page) # {}
<1>1. ASSUME NEW s \in PageShortcuts(page)
      PROVE  page = "events" /\ s = Shortcut("page", "reset-live-events-filters", "c", "Current Page", FALSE)
      BY <1>1 DEF PageShortcuts
<1>2. ASSUME NEW s, s = Shortcut("page", "reset-live-events-filters", "c", "Current Page", FALSE)
      PROVE  s.owner = "page" /\ s.section = "Current Page" /\ s.key = "c"
      BY <1>2 DEF Shortcut
<1>3. page = "events" => PageShortcuts(page) # {}
      BY DEF PageShortcuts
<1>4. \A s, t \in PageShortcuts(page) : s = t
      BY DEF PageShortcuts
<1>5. QED  BY <1>1, <1>2, <1>3, <1>4

LEMMA PageComes ==
    ASSUME ShortcutsInv, NEW page \in {"events", "other"}, ComesTo(page)
    PROVE  ShortcutsInv'
<1>1. shell' = (IF page = shell.page THEN shell ELSE Shell(page, shell.sidebar))
      BY DEF ComesTo
<1>2. /\ shell'.page = page /\ shell'.sidebar = shell.sidebar
      /\ DOMAIN shell' = {"page", "sidebar", "field", "filtered"}
      BY <1>1 DEF Shell, ShortcutsInv
<1>3. shortcuts' = {s \in shortcuts : s.owner # "page"} \cup PageShortcuts(page)
      BY DEF ComesTo, Registered
<1>4. {s \in shortcuts : s.owner # "page"} = AppShortcuts(shell.sidebar)
      BY AppShortcutIs, PageShortcutIs DEF ShortcutsInv
<1>5. QED  BY <1>2, <1>3, <1>4 DEF ShortcutsInv

LEMMA SidebarSets ==
    ASSUME ShortcutsInv, NEW open \in BOOLEAN, SetsSidebar(open)
    PROVE  ShortcutsInv' /\ shell'.sidebar = open
<1>1. shell' = [shell EXCEPT !.sidebar = open]
      BY DEF SetsSidebar
<1>2. /\ shell'.page = shell.page /\ shell'.sidebar = open
      /\ DOMAIN shell' = {"page", "sidebar", "field", "filtered"}
      BY <1>1 DEF ShortcutsInv
<1>3. shortcuts' = {s \in shortcuts : s.owner # "app"} \cup AppShortcuts(open)
      BY DEF SetsSidebar, Registered
<1>4. {s \in shortcuts : s.owner # "app"} = PageShortcuts(shell.page)
      BY AppShortcutIs, PageShortcutIs DEF ShortcutsInv
<1>5. QED  BY <1>2, <1>3, <1>4 DEF ShortcutsInv

(* What a key does, by the name it is registered under.                      *)
LEMMA KeyDoes ==
    ASSUME ShortcutsInv, NEW key, PressesKey(key)
    PROVE  \/ key \in {"mod+k", "/"} /\ FocusesSearch
           \/ key = "?" /\ OpensHelp
           \/ key = "mod+b" /\ SetsSidebar(~shell.sidebar)
           \/ key = "c" /\ shell.page = "events" /\ ResetsFilters
<1>1. PICK s \in shortcuts :
        /\ s.key = key
        /\ CASE s.id \in {"focus-search", "focus-search-alt"} -> FocusesSearch
             [] s.id = "open-help" -> OpensHelp
             [] s.id = "toggle-sidebar" -> SetsSidebar(s.sets)
             [] OTHER -> ResetsFilters
      BY DEF PressesKey
<1>2. CASE s = Shortcut("app", "focus-search", "mod+k", "Global", TRUE)
      BY <1>1, <1>2 DEF Shortcut
<1>3. CASE s = Shortcut("app", "focus-search-alt", "/", "Global", TRUE)
      BY <1>1, <1>3 DEF Shortcut
<1>4. CASE s = Shortcut("app", "open-help", "?", "Global", TRUE)
      BY <1>1, <1>4 DEF Shortcut
<1>5. CASE s = Shortcut("app", "toggle-sidebar", "mod+b", "Global", ~shell.sidebar)
      BY <1>1, <1>5 DEF Shortcut
<1>6. CASE s \in PageShortcuts(shell.page)
  <2>1. shell.page = "events" /\ s = Shortcut("page", "reset-live-events-filters", "c", "Current Page", FALSE)
        BY <1>6, PageShortcutIs
  <2>2. QED  BY <1>1, <2>1 DEF Shortcut
<1>7. QED  BY <1>2, <1>3, <1>4, <1>5, <1>6, AppShortcutIs DEF ShortcutsInv

LEMMA KeysKeep ==
    ASSUME ShortcutsInv, UNCHANGED <<shell, shortcuts>> \/ ResetsFilters \/ EntersFilters
    PROVE  ShortcutsInv'
<1>1. /\ shell'.page = shell.page /\ shell'.sidebar = shell.sidebar
      /\ DOMAIN shell' = {"page", "sidebar", "field", "filtered"} /\ shortcuts' = shortcuts
      BY DEF ShortcutsInv, ResetsFilters, EntersFilters
<1>2. QED  BY <1>1 DEF ShortcutsInv

QuickAccessInv == DialogInv /\ ShortcutsInv

LEMMA KeysStepOf == ASSUME ShortcutsInv PROVE KeysStep
<1>1. ASSUME PressesKey("mod+b") PROVE shell'.sidebar # shell.sidebar
  <2>1. SetsSidebar(~shell.sidebar)
        BY <1>1, KeyDoes
  <2>2. shell'.sidebar = ~shell.sidebar
        BY <2>1, SidebarSets DEF ShortcutsInv
  <2>3. QED  BY <2>2 DEF ShortcutsInv
<1>2. ASSUME PressesKey("c") PROVE shell.page = "events" /\ ~shell'.filtered
  <2>1. shell.page = "events" /\ ResetsFilters
        BY <1>2, KeyDoes
  <2>2. QED  BY <2>1 DEF ResetsFilters, ShortcutsInv
<1>3. QED  BY <1>1, <1>2 DEF KeysStep

LEMMA InitQuickAccess == PageQueriesInit /\ QuickAccessInit => QuickAccessInv
<1> SUFFICES ASSUME PageQueriesInit, QuickAccessInit PROVE QuickAccessInv
    OBVIOUS
<1>1. SearchShape /\ QuickSearchInv
      BY DEF PageQueriesInit, SearchShape, QuickSearchInv
<1>2. InList /\ highlight \in Nat
  <2>1. Items(typed, results) \in Seq(STRING)
        BY <1>1, ItemsAreListed DEF SearchShape
  <2>2. Items(typed, results) # <<>> => Len(Items(typed, results)) > 0
        BY <2>1
  <2>3. QED  BY <2>2 DEF InList, QuickAccessInit
<1>3. ShortcutsInv
      BY DEF QuickAccessInit, ShortcutsInv, Shell, PageShortcuts
<1>4. QED  BY <1>1, <1>2, <1>3 DEF QuickAccessInv, DialogInv

LEMMA QuickAccessStep ==
    QuickAccessInv /\ [QuickAccessNext]_quickVars => QuickAccessInv' /\ EnterStep /\ KeysStep
<1> SUFFICES ASSUME QuickAccessInv, [QuickAccessNext]_quickVars PROVE QuickAccessInv' /\ EnterStep
    BY KeysStepOf DEF QuickAccessInv
<1> USE DEF QuickAccessInv
<1>1. CASE FocusesSearch
      BY <1>1, FocusKeeps, KeysKeep DEF FocusesSearch
<1>2. CASE OpensHelp \/ ClosesHelp \/ ClosesDialog
  <2>1. UNCHANGED <<pageVars, highlight, went, shell, shortcuts>> /\ (dialog' => dialog)
        BY <1>2 DEF OpensHelp, ClosesHelp, ClosesDialog
  <2>2. QED  BY <2>1, DialogLeftAlone, KeysKeep
<1>3. CASE SearchGoesOn
  <2>1. /\ Searches \/ \E text \in searches : SearchArrives(text) \/ SearchFails(text)
        /\ highlight' = Clamped(highlight, Items(typed, results'))
        /\ UNCHANGED <<dialog, help, went, shell, shortcuts>>
        BY <1>3 DEF SearchGoesOn
  <2>2. SearchShape' /\ QuickSearchInv' /\ typed' = typed
        BY <2>1, SearchingKeeps DEF DialogInv
  <2>3. QED  BY <2>1, <2>2, ListKeeps, KeysKeep
<1>4. ASSUME NEW text \in Typed \cup {""}, TypesText(text) PROVE QuickAccessInv' /\ EnterStep
  <2>1. /\ Types(text) /\ highlight' = Clamped(highlight, Items(text, results'))
        /\ UNCHANGED <<dialog, help, went, shell, shortcuts>>
        BY <1>4 DEF TypesText
  <2>2. SearchShape' /\ QuickSearchInv' /\ typed' = text
        BY <2>1, TypingKeeps DEF DialogInv, Types
  <2>3. QED  BY <2>1, <2>2, ListKeeps, KeysKeep
<1>5. ASSUME NEW open \in BOOLEAN, SetsSidebar(open) PROVE QuickAccessInv' /\ EnterStep
      BY <1>5, SidebarSets, DialogLeftAlone DEF SetsSidebar
<1>6. CASE ResetsFilters
      BY <1>6, DialogLeftAlone, KeysKeep DEF ResetsFilters
<1>7. ASSUME NEW key, PressesKey(key) PROVE QuickAccessInv' /\ EnterStep
  <2>1. (~shell.sidebar) \in BOOLEAN
        OBVIOUS
  <2>2. QED  BY <1>1, <1>2, <1>5, <1>6, <1>7, <2>1, KeyDoes
<1>8. ASSUME NEW page \in {"events", "other"}, GoesToPage(page) PROVE QuickAccessInv' /\ EnterStep
      BY <1>8, PageComes, DialogLeftAlone DEF GoesToPage
<1>9. CASE EntersFilters
      BY <1>9, DialogLeftAlone, KeysKeep DEF EntersFilters
<1>10. CASE (\E by \in {-1, 1} : Moves(by)) \/ \E i \in 0..(Len(Displayed) - 1) : PointsAt(i)
  <2>1. UNCHANGED <<shell, shortcuts>>
        BY <1>10 DEF Moves, PointsAt
  <2>2. QED  BY <1>10, <2>1, PointingKeeps, KeysKeep
<1>11. CASE PressesEnter \/ \E i \in 0..(Len(Displayed) - 1) : Clicks(i)
  <2>1. ComesTo("other")
        BY <1>11 DEF PressesEnter, Clicks, GoesTo
  <2>2. QED  BY <1>11, <2>1, GoingKeeps, PageComes
<1>12. CASE UNCHANGED quickVars
  <2>1. UNCHANGED <<pageVars, highlight, went, shell, shortcuts, dialog>>
        BY <1>12 DEF quickVars, dialogVars
  <2>2. QED  BY <2>1, DialogLeftAlone, KeysKeep
<1>13. QED
  BY <1>1, <1>2, <1>3, <1>4, <1>7, <1>8, <1>9, <1>10, <1>11, <1>12 DEF QuickAccessNext

LEMMA DisplayedIsList == ASSUME DialogInv, Displayed # <<>> PROVE Displayed = ListFor(typed)
<1>1. Displayed = Items(typed, results) /\ results = typed /\ typed \in Typed \cup {""}
      BY DEF Displayed, DialogInv, QuickSearchInv, SearchShape
<1>2. QED  BY <1>1 DEF Items, ListFor

(* Whatever arrives while the user types and moves: a list that is shown is  *)
(* that of the text in the field, with one item highlighted, which Enter     *)
(* opens (highlightedIndex, sections, handleKeyDown).                        *)
THEOREM EnterOpensTheShown == QuickAccessSpec => EnterOpensWhatIsShown
<1> DEFINE OnDisplay == dialog /\ Displayed # <<>> => highlight < Len(Displayed) /\ Displayed = ListFor(typed)
           Opens ==
              /\ PressesEnter /\ Displayed # <<>> => went'[1] = ListFor(typed)[highlight + 1]
              /\ went' # went /\ Displayed # <<>> => went'[1] \in Seqs!ToSet(ListFor(typed)) /\ ~dialog'
              /\ dialog' /\ ~dialog => typed' = "" /\ ~searching' /\ ~searchError'
<1>1. QuickAccessInv => OnDisplay
  <2> SUFFICES ASSUME QuickAccessInv, Displayed # <<>>
               PROVE  highlight < Len(Displayed) /\ Displayed = ListFor(typed)
      OBVIOUS
  <2>1. Displayed = Items(typed, results)
        BY DEF Displayed
  <2>2. highlight < Len(Displayed)
        BY <2>1 DEF QuickAccessInv, DialogInv, InList
  <2>3. QED  BY <2>2, DisplayedIsList DEF QuickAccessInv
<1>2. QuickAccessInv /\ [QuickAccessNext]_quickVars => Opens
  <2> SUFFICES ASSUME QuickAccessInv, [QuickAccessNext]_quickVars PROVE Opens
      OBVIOUS
  <2>1. EnterStep
        BY QuickAccessStep
  <2>2. Displayed # <<>> => Displayed = ListFor(typed)
        BY DisplayedIsList DEF QuickAccessInv
  <2>3. ASSUME PressesEnter, Displayed # <<>> PROVE went'[1] = ListFor(typed)[highlight + 1]
    <3>1. Displayed = Items(typed, results)
          BY <2>3 DEF Displayed
    <3>2. went' = <<Items(typed, results)[highlight + 1], typed>>
          BY <2>3 DEF PressesEnter, GoesTo
    <3>3. QED  BY <2>2, <2>3, <3>1, <3>2
  <2>4. QED  BY <2>1, <2>2, <2>3 DEF EnterStep
<1>3. QuickAccessSpec => []OnDisplay
      BY <1>1, InitQuickAccess, QuickAccessStep, PTL DEF QuickAccessSpec
<1>4. QuickAccessSpec => [][Opens]_quickVars
      BY <1>2, InitQuickAccess, QuickAccessStep, PTL DEF QuickAccessSpec
<1>5. QED  BY <1>3, <1>4 DEF EnterOpensWhatIsShown

(* Pages come and go: the dialog of the shortcuts lists what the keys do on  *)
(* the page that is open, and no key is left to a handler of another         *)
(* (registerShortcuts, unregisterShortcuts, toggleSidebar).                  *)
THEOREM KeysDoAsTold == QuickAccessSpec => HelpTellsWhatKeysDo
<1> DEFINE AsListed ==
       /\ Section("Current Page") # {} <=> shell.page = "events"
       /\ \A s, t \in shortcuts : s.key = t.key => s = t
<1>1. QuickAccessInv => AsListed
  <2> SUFFICES ASSUME ShortcutsInv PROVE AsListed
      BY DEF QuickAccessInv
  <2>1. \A s \in AppShortcuts(shell.sidebar) : s.section = "Global" /\ s.key \in {"mod+k", "/", "?", "mod+b"}
        BY AppShortcutIs DEF ShortcutsInv
  <2>2. \A s, t \in AppShortcuts(shell.sidebar) : s.key = t.key => s = t
        BY AppShortcutIs DEF ShortcutsInv
  <2>3. /\ \A s \in PageShortcuts(shell.page) : s.section = "Current Page" /\ s.key = "c"
        /\ \A s, t \in PageShortcuts(shell.page) : s = t
        BY PageShortcutIs
  <2>4. Section("Current Page") = PageShortcuts(shell.page)
        BY <2>1, <2>3 DEF Section, ShortcutsInv
  <2>5. \A s, t \in shortcuts : s.key = t.key => s = t
        BY <2>1, <2>2, <2>3 DEF ShortcutsInv
  <2>6. (PageShortcuts(shell.page) # {}) <=> (shell.page = "events")
        BY PageShortcutIs
  <2>7. QED  BY <2>4, <2>5, <2>6
<1>2. QuickAccessSpec => []AsListed
      BY <1>1, InitQuickAccess, QuickAccessStep, PTL DEF QuickAccessSpec
<1>3. QuickAccessSpec => [][KeysStep]_quickVars
      BY InitQuickAccess, QuickAccessStep, PTL DEF QuickAccessSpec
<1>4. QED  BY <1>2, <1>3 DEF HelpTellsWhatKeysDo, KeysStep

-----------------------------------------------------------------------------
(* Two tasks that are compared are two.                                      *)
CompareInv ==
    place.at = "compare" =>
        /\ DOMAIN place = {"at", "left", "right", "type"}
        /\ Nobody \notin {place.left, place.right} => place.left # place.right

LEMMA CompareStep == CompareInv /\ [TaskPageNext]_taskPageVars => CompareInv'
<1> SUFFICES ASSUME CompareInv, [TaskPageNext]_taskPageVars PROVE CompareInv'
    OBVIOUS
<1>1. ASSUME place'.at = "task" \/ place' = Elsewhere PROVE CompareInv'
      BY <1>1 DEF CompareInv, Elsewhere
<1>2. ASSUME NEW l, NEW type, place' = ComparePlace(l, Nobody, type) PROVE CompareInv'
      BY <1>2 DEF CompareInv, ComparePlace
<1>3. ASSUME NEW t \in Openable, PicksTask(t) PROVE CompareInv'
  <2>1. t \notin {place.left, place.right} /\ DOMAIN place = {"at", "left", "right", "type"}
        BY <1>3 DEF PicksTask, Candidates, CompareInv
  <2>2. CASE place' = [place EXCEPT !.left = t]
        BY <2>1, <2>2 DEF CompareInv
  <2>3. CASE place' = [place EXCEPT !.right = t]
        BY <2>1, <2>3 DEF CompareInv
  <2>4. QED  BY <1>3, <2>2, <2>3 DEF PicksTask
<1>4. ASSUME place' = place PROVE CompareInv'
      BY <1>4 DEF CompareInv
<1>5. ASSUME NEW t \in Openable, EntersTask(t) \/ FollowsLink(t) PROVE place'.at = "task"
      BY <1>5 DEF EntersTask, FollowsLink, TaskPlace
<1>6. FindsSimilar => place' = Elsewhere
      BY DEF FindsSimilar, LeavesFor
<1>7. StartsComparison => place' = ComparePlace(view.task, Nobody, TypeOfTask[view.task])
      BY DEF StartsComparison, LeavesFor
<1>8. OpensPicker => place' = ComparePlace(Nobody, Nobody, Nobody)
      BY DEF OpensPicker
<1>9. SnapshotArrives \/ LiveArrives \/ CallRejected \/ Refreshed \/ Rewritten \/ UNCHANGED taskPageVars
      => place' = place
      BY DEF SnapshotArrives, LiveArrives, CallRejected, Refreshed, Rewritten, taskPageVars
<1>10. QED  BY <1>1, <1>2, <1>3, <1>4, <1>5, <1>6, <1>7, <1>8, <1>9 DEF TaskPageNext

(* Whatever the user has picked, and whatever is withheld: two tasks that    *)
(* are compared are two, what differs of them is marked unless the card is   *)
(* restricted, and arguments or results are called identical only if they    *)
(* are (TaskComparisonPicker, TaskComparisonView).                           *)
THEOREM TwoAreCompared ==
    TaskPageSpec => [](place.at = "compare" /\ Nobody \notin {place.left, place.right} => ComparesTwo)
<1>1. TaskPageInit => CompareInv
      BY DEF TaskPageInit, CompareInv, Elsewhere
<1>2. CompareInv => (place.at = "compare" /\ Nobody \notin {place.left, place.right} => ComparesTwo)
  <2> SUFFICES ASSUME place.left # place.right PROVE ComparesTwo
      BY DEF CompareInv
  <2>1. ASSUME NEW card \in Cards, FieldsOf(card) \cap denied = {}
        PROVE  MarkedIn(card) = {f \in FieldsOf(card) : Values[place.left][f] # Values[place.right][f]}
        BY <2>1 DEF MarkedIn, Differs, ReadField
  <2>2. ASSUME NEW card \in Cards
        PROVE  JudgedBy(card) = FieldsOf(card) \cap {"input", "result"} /\ MarkedIn(card) \subseteq FieldsOf(card)
        BY DEF JudgedBy, FieldsOf, MarkedIn
  <2>3. QED  BY <2>1, <2>2 DEF ComparesTwo, Verdict
<1>3. QED  BY <1>1, <1>2, CompareStep, PTL DEF TaskPageSpec

-----------------------------------------------------------------------------
(* The guided tour.  The pages that the user has been at keep up with the    *)
(* step, and the tour knows what it has done to the demo.                    *)
Stops == {"dashboard", "task", "worker", "explorer", "settings"}
Routes == [at : Stops, state : {"loading", "found", "missing"}, timeline : BOOLEAN]
Tours == [run : BOOLEAN, stepIndex : Nat, demoMode : BOOLEAN]
Journeys == [starts : Nat, demo : BOOLEAN, touched : BOOLEAN,
             seen : SUBSET (Stops \cup {"timeline"}), twice : BOOLEAN]

Paced(n, seen) ==
    /\ n >= 2 => "task" \in seen
    /\ n >= 5 => "timeline" \in seen
    /\ n >= 8 => "worker" \in seen
    /\ n >= 11 => "explorer" \in seen

TourShape ==
    /\ tour \in Tours /\ demo \in BOOLEAN /\ route \in Routes /\ toured \in Journeys
    /\ tip \in -1..13 /\ awaited \in Nat

PaceInv ==
    ~toured.twice =>
        /\ awaited <= 1 /\ (awaited > 0 => tour.stepIndex = 0)
        /\ tour.run => Paced(tour.stepIndex, toured.seen)

DemoInv ==
    /\ ~tour.run => ~tour.demoMode
    /\ tour.run /\ ~toured.touched => (toured.demo <=> demo /\ ~tour.demoMode)

TourInv == TourShape /\ PaceInv /\ DemoInv

TourStep ==
    /\ (ClosesTour \/ LosesTarget \/ FinishesTour) /\ ~toured.touched => demo' = toured.demo
    /\ tour'.run /\ ~tour.run => toured'.starts > toured.starts \/ awaited > 0

LEMMA StepsOfTour ==
    /\ Len(TourSteps) = 14
    /\ \A n \in 0..13 : LeftForward(TourSteps[n + 1]) => n \notin {1, 4, 7, 10}
<1>1. /\ Len(TaskSteps) = 8 /\ Len(WorkerSteps) = 6
      /\ \A n \in 1..8 : TourSteps[n] = TaskSteps[n]
      /\ Len(TourSteps) = 14 /\ \A n \in 9..14 : TourSteps[n] = WorkerSteps[n - 8]
      BY DEF TourSteps, TaskSteps, WorkerSteps
<1>2. /\ TaskSteps[2].buttons = {} /\ TaskSteps[5].buttons = {} /\ TaskSteps[8].buttons = {}
      /\ WorkerSteps[3].buttons = {}
      BY DEF TaskSteps, WorkerSteps, Step
<1>4. /\ TourSteps[2] = TaskSteps[2] /\ TourSteps[5] = TaskSteps[5] /\ TourSteps[8] = TaskSteps[8]
      /\ TourSteps[11] = WorkerSteps[3]
      BY <1>1
<1>5. ASSUME NEW n \in {1, 4, 7, 10} PROVE TourSteps[n + 1].buttons = {}
      BY <1>2, <1>4
<1>6. QED  BY <1>1, <1>5 DEF LeftForward

(* A page takes the tour on only where the step before waits for it.         *)
LEMMA OnLoad ==
    ASSUME NEW t \in Tours, NEW p \in Routes
    PROVE  LET u == ChangedOnLoad(t, p)
           IN  /\ u \in Tours /\ u.run = t.run /\ u.demoMode = t.demoMode
               /\ t.stepIndex = 0 => u.stepIndex = 0
               /\ \A seen : Paced(t.stepIndex, seen \cup Seen(p)) => Paced(u.stepIndex, seen \cup Seen(p))
<1> DEFINE u == ChangedOnLoad(t, p)
<1>1. ComesUp(p) \in {{}, {2}, {2, 5}, {8}, {11}}
      BY DEF ComesUp, Routes
<1>2. /\ 2 \in ComesUp(p) => "task" \in Seen(p)
      /\ 5 \in ComesUp(p) => "timeline" \in Seen(p)
      /\ 8 \in ComesUp(p) => "worker" \in Seen(p)
      /\ 11 \in ComesUp(p) => "explorer" \in Seen(p)
      BY DEF ComesUp, Seen, TimelineUp, Routes
<1>3. CASE u = t
      BY <1>3
<1>4. CASE u # t
  <2>1. u = [t EXCEPT !.stepIndex = @ + 1] /\ t.stepIndex + 1 \in ComesUp(p)
        BY <1>4 DEF ChangedOnLoad
  <2>2. u \in Tours /\ u.run = t.run /\ u.demoMode = t.demoMode /\ u.stepIndex = t.stepIndex + 1
        BY <2>1 DEF Tours
  <2>3. t.stepIndex \in Nat
        BY DEF Tours
  <2> HIDE DEF u
  <2>4. t.stepIndex # 0
        BY <1>1, <2>1
  <2>5. ASSUME NEW seen, Paced(t.stepIndex, seen \cup Seen(p)) PROVE Paced(u.stepIndex, seen \cup Seen(p))
        BY <1>1, <1>2, <2>1, <2>2, <2>3, <2>5 DEF Paced
  <2>6. QED  BY <2>2, <2>4, <2>5 DEF u
<1>5. QED  BY <1>3, <1>4

LEMMA SeenTyped == ASSUME NEW p \in Routes PROVE Seen(p) \subseteq Stops \cup {"timeline"}
BY DEF Seen, Routes, Stops

LEMMA BecomesKeeps ==
    ASSUME TourInv, NEW t \in Tours, NEW p \in Routes, Becomes(t, p), awaited' \in Nat, demo' \in BOOLEAN,
           IF t.run THEN (demo' <=> demo) /\ t.demoMode = tour.demoMode ELSE ~t.demoMode,
           ~toured.twice => /\ awaited' <= awaited /\ (awaited' > 0 => t.stepIndex = 0)
                            /\ t.run => Paced(t.stepIndex, toured.seen \cup Seen(p))
    PROVE  TourInv' /\ tour'.run = t.run
<1>1. /\ tour' \in Tours /\ tour'.run = t.run /\ tour'.demoMode = t.demoMode
      /\ t.stepIndex = 0 => tour'.stepIndex = 0
      /\ Paced(t.stepIndex, toured.seen \cup Seen(p)) => Paced(tour'.stepIndex, toured.seen \cup Seen(p))
      BY OnLoad DEF Becomes
<1>2. /\ toured'.starts = toured.starts
      /\ toured'.demo = IF tour.run THEN toured.demo ELSE t.run /\ demo
      /\ toured'.touched = (t.run /\ toured.touched)
      /\ toured'.seen = IF t.run THEN toured.seen \cup Seen(p) ELSE {}
      /\ toured'.twice = toured.twice
      BY DEF Becomes
<1>3. TourShape'
  <2>1. t.run \in BOOLEAN
        BY DEF Tours
  <2>2. toured' \in Journeys
        BY <2>1, SeenTyped DEF Becomes, Journeys, TourInv, TourShape, Tours
  <2>3. QED  BY <1>1, <2>2 DEF Becomes, TourInv, TourShape
<1>4. PaceInv'
      BY <1>1, <1>2 DEF TourInv, TourShape, PaceInv
<1>5. DemoInv'
  <2>1. ~tour'.run => ~tour'.demoMode
        BY <1>1
  <2>2. ASSUME tour'.run, ~toured'.touched PROVE toured'.demo <=> demo' /\ ~tour'.demoMode
    <3>1. t.run /\ ~toured.touched /\ (demo' <=> demo) /\ t.demoMode = tour.demoMode
          BY <1>1, <1>2, <2>2
    <3>2. CASE tour.run
      <4>1. toured'.demo = toured.demo
            BY <1>2, <3>2
      <4>2. toured.demo <=> demo /\ ~tour.demoMode
            BY <3>1, <3>2 DEF TourInv, DemoInv
      <4>3. QED  BY <1>1, <3>1, <4>1, <4>2
    <3>3. CASE ~tour.run
      <4>1. toured'.demo = demo
            BY <1>2, <3>1, <3>3 DEF TourInv, TourShape
      <4>2. ~tour.demoMode
            BY <3>3 DEF TourInv, DemoInv
      <4>3. QED  BY <1>1, <3>1, <4>1, <4>2
    <3>4. QED  BY <3>2, <3>3
  <2>3. QED  BY <2>1, <2>2 DEF DemoInv
<1>6. QED  BY <1>1, <1>3, <1>4, <1>5 DEF TourInv

LEMMA InitTour == TourInit => TourInv
<1> SUFFICES ASSUME TourInit PROVE TourInv
    OBVIOUS
<1>1. TourShape
  <2>1. tour \in Tours /\ demo \in BOOLEAN
        BY DEF TourInit, Tours
  <2>2. route \in Routes
        BY DEF TourInit, Routes, Stops, Page
  <2>3. toured \in Journeys
        BY DEF TourInit, Journeys
  <2>4. tip \in -1..13 /\ awaited \in Nat
        BY DEF TourInit
  <2>5. QED  BY <2>1, <2>2, <2>3, <2>4 DEF TourShape
<1>2. QED  BY <1>1 DEF TourInit, TourInv, PaceInv, DemoInv

(* What changes nothing but the page.                                        *)
LEMMA WandersKeeps ==
    ASSUME TourInv, NEW p \in Routes, Becomes(tour, p), UNCHANGED <<demo, awaited>>
    PROVE  TourInv' /\ tour'.run = tour.run
<1>1. Paced(tour.stepIndex, toured.seen) => Paced(tour.stepIndex, toured.seen \cup Seen(p))
      BY DEF Paced
<1>2. tour \in Tours /\ awaited' \in Nat /\ demo' \in BOOLEAN
      BY DEF TourInv, TourShape
<1>3. QED  BY <1>1, <1>2, BecomesKeeps DEF TourInv, PaceInv, DemoInv, TourShape

LEMMA StopsKeeps ==
    ASSUME TourInv, StopsTour, UNCHANGED awaited
    PROVE  TourInv' /\ ~tour'.run
<1> DEFINE t == [tour EXCEPT !.run = FALSE, !.demoMode = FALSE]
           p == IF demo' = demo THEN route ELSE Page(route.at)
<1>1. t \in Tours /\ t.run = FALSE /\ t.demoMode = FALSE /\ t.stepIndex = tour.stepIndex
      BY DEF TourInv, TourShape, Tours
<1>2. p \in Routes
      BY DEF TourInv, TourShape, Routes, Page
<1>3. demo' \in BOOLEAN /\ awaited' = awaited /\ awaited \in Nat
      BY DEF StopsTour, TourInv, TourShape
<1>4. Becomes(t, p)
      BY DEF StopsTour
<1>5. ~toured.twice => awaited' <= awaited /\ (awaited' > 0 => t.stepIndex = 0)
      BY <1>1, <1>3 DEF TourInv, PaceInv
<1> HIDE DEF t, p
<1>6. QED  BY <1>1, <1>2, <1>3, <1>4, <1>5, BecomesKeeps

(* A tour that ends leaves the demo as it found it.                          *)
LEMMA DemoIsGivenBack ==
    ASSUME TourInv, tour.run, StopsTour, ~toured.touched
    PROVE  demo' = toured.demo
<1>1. toured.demo <=> demo /\ ~tour.demoMode
      BY DEF TourInv, DemoInv
<1>2. demo' = (demo /\ ~tour.demoMode)
      BY DEF StopsTour
<1>3. toured.demo \in BOOLEAN
      BY DEF TourInv, TourShape, Journeys
<1>4. QED  BY <1>1, <1>2, <1>3

LEMMA StartsKeeps == ASSUME TourInv, StartsTour PROVE TourInv' /\ TourStep
<1>1. /\ tour' \in Tours /\ tour'.run /\ tour'.stepIndex = 0 /\ tour'.demoMode = tour.demoMode
      /\ UNCHANGED <<demo, route, awaited>> /\ tip' \in {tip, -1}
      BY DEF StartsTour, TourInv, TourShape, Tours
<1>2. /\ toured'.starts = toured.starts + 1 /\ toured'.twice = (awaited > 1)
      /\ toured'.demo = IF tour.run THEN toured.demo ELSE demo
      /\ toured'.touched = (tour.run /\ toured.touched)
      BY DEF StartsTour
<1>3. TourShape'
  <2>1. toured' \in Journeys
        BY DEF StartsTour, TourInv, TourShape, Journeys, Tours
  <2>2. QED  BY <1>1, <2>1 DEF TourInv, TourShape
<1>4. PaceInv'
  <2>1. awaited \in Nat /\ (toured'.twice <=> awaited > 1)
        BY <1>2 DEF TourInv, TourShape
  <2>2. \A seen : Paced(0, seen)
        BY DEF Paced
  <2>3. QED  BY <1>1, <2>1, <2>2 DEF PaceInv
<1>5. DemoInv'
  <2>1. CASE tour.run
        BY <1>1, <1>2, <2>1 DEF DemoInv, TourInv
  <2>2. CASE ~tour.run
    <3>1. toured'.demo = demo /\ ~tour.demoMode
          BY <1>2, <2>2 DEF TourInv, DemoInv
    <3>2. QED  BY <1>1, <3>1 DEF DemoInv
  <2>3. QED  BY <2>1, <2>2
<1>6. toured'.starts > toured.starts
      BY <1>2 DEF TourInv, TourShape, Journeys
<1>7. TourStep
  <2>1. ClosesTour \/ LosesTarget \/ FinishesTour => ~tour'.run
    <3>1. StopsTour => ~ChangedOnLoad([tour EXCEPT !.run = FALSE, !.demoMode = FALSE],
                                     IF demo' = demo THEN route ELSE Page(route.at)).run
          BY DEF ChangedOnLoad, TourInv, TourShape, Tours
    <3>2. QED  BY <3>1 DEF ClosesTour, LosesTarget, FinishesTour, StopsTour, Becomes
  <2>2. QED  BY <1>1, <1>6, <2>1 DEF TourStep
<1>8. QED  BY <1>3, <1>4, <1>5, <1>7 DEF TourInv

LEMMA StartingKeeps ==
    ASSUME TourInv, Starting, tour' \in Tours, tour'.run = tour.run, tour'.stepIndex = tour.stepIndex,
           route' \in Routes, demo' \in BOOLEAN,
           \/ (demo' <=> demo) /\ tour'.demoMode = tour.demoMode
           \/ ~demo /\ tour'.demoMode
    PROVE  TourInv'
<1>1. /\ awaited' = awaited + 1 /\ tip' = -1 /\ tour.run /\ tour.stepIndex = 0
      /\ toured' = [toured EXCEPT !.twice = @ \/ awaited > 0]
      BY DEF Starting, TipUp
<1>2. /\ toured' \in Journeys /\ toured'.seen = toured.seen /\ toured'.demo = toured.demo
      /\ toured'.touched = toured.touched /\ toured'.twice = (toured.twice \/ awaited > 0)
      BY <1>1 DEF TourInv, TourShape, Journeys
<1>3. TourShape'
      BY <1>1, <1>2 DEF TourInv, TourShape
<1>4. PaceInv'
  <2>1. toured'.twice <=> toured.twice \/ awaited > 0
        BY <1>2
  <2>2. awaited > 0 \/ awaited = 0
        BY DEF TourInv, TourShape
  <2>3. ~toured'.twice => ~toured.twice /\ awaited' = 1
        BY <1>1, <2>1, <2>2
  <2>4. QED  BY <1>1, <1>2, <2>3 DEF TourInv, PaceInv
<1>5. DemoInv'
      BY <1>1, <1>2 DEF TourInv, DemoInv
<1>6. QED  BY <1>3, <1>4, <1>5 DEF TourInv

LEMMA ForwardKeeps == ASSUME TourInv, Forward PROVE TourInv' /\ tour'.run = tour.run
<1> DEFINE t == [tour EXCEPT !.stepIndex = @ + 1]
<1>1. t \in Tours /\ t.run = tour.run /\ t.demoMode = tour.demoMode /\ t.stepIndex = tour.stepIndex + 1
      BY DEF TourInv, TourShape, Tours
<1>2. tour.stepIndex \in 1..13 /\ LeftForward(TourSteps[tour.stepIndex + 1]) /\ tour.run
      BY DEF Forward, TipUp, StepOn, TourInv, TourShape, Tours
<1>3. tour.stepIndex \notin {1, 4, 7, 10}
      BY <1>2, StepsOfTour
<1>4. Becomes(t, route) /\ UNCHANGED <<demo, awaited>>
      BY DEF Forward
<1> HIDE DEF t
<1>5. Paced(tour.stepIndex, toured.seen) => Paced(t.stepIndex, toured.seen \cup Seen(route))
      BY <1>1, <1>2, <1>3 DEF Paced
<1>6. ~toured.twice => awaited' <= awaited /\ (awaited' > 0 => t.stepIndex = 0)
      BY <1>2, <1>4 DEF TourInv, PaceInv, TourShape
<1>7. t.run => (demo' <=> demo) /\ t.demoMode = tour.demoMode
      BY <1>1, <1>4
<1>8. QED  BY <1>1, <1>2, <1>4, <1>5, <1>6, <1>7, BecomesKeeps DEF TourInv, TourShape, PaceInv

LEMMA BackKeeps == ASSUME TourInv, Back PROVE TourInv' /\ tour'.run = tour.run
<1> DEFINE t == [tour EXCEPT !.stepIndex = @ - 1]
<1>1. tour.stepIndex \in 1..13 /\ tour.run
      BY DEF Back, TipUp, TourInv, TourShape, Tours
<1>2. t \in Tours /\ t.run = tour.run /\ t.demoMode = tour.demoMode /\ t.stepIndex = tour.stepIndex - 1
  <2>1. tour.stepIndex - 1 \in Nat
        BY <1>1
  <2>2. QED  BY <2>1 DEF TourInv, TourShape, Tours
<1>3. Becomes(t, route) /\ UNCHANGED <<demo, awaited>>
      BY DEF Back
<1> HIDE DEF t
<1>4. Paced(tour.stepIndex, toured.seen) => Paced(t.stepIndex, toured.seen \cup Seen(route))
      BY <1>1, <1>2 DEF Paced
<1>5. ~toured.twice => awaited' <= awaited /\ (awaited' > 0 => t.stepIndex = 0)
      BY <1>1, <1>3 DEF TourInv, PaceInv, TourShape
<1>6. t.run => (demo' <=> demo) /\ t.demoMode = tour.demoMode
      BY <1>2, <1>3
<1>7. QED  BY <1>1, <1>2, <1>3, <1>4, <1>5, <1>6, BecomesKeeps DEF TourInv, TourShape, PaceInv

LEMMA LandsKeeps == ASSUME TourInv, Lands PROVE TourInv'
<1> DEFINE t == [tour EXCEPT !.run = TRUE, !.stepIndex = @ + 1]
<1>1. t \in Tours /\ t.run = TRUE /\ t.demoMode = tour.demoMode /\ t.stepIndex = tour.stepIndex + 1
  <2>1. tour.stepIndex + 1 \in Nat
        BY DEF TourInv, TourShape, Tours
  <2>2. ASSUME NEW n \in Nat, NEW u, u = [tour EXCEPT !.run = TRUE, !.stepIndex = n]
        PROVE  u \in Tours /\ u.run = TRUE /\ u.demoMode = tour.demoMode /\ u.stepIndex = n
        BY <2>2 DEF TourInv, TourShape, Tours
  <2>3. QED  BY <2>1, <2>2
<1>2. PICK p \in {Page("dashboard"), route} : Becomes(t, p)
      BY DEF Lands
<1>3. p \in Routes
  <2>1. Page("dashboard") \in Routes
        BY DEF Routes, Stops, Page
  <2>2. QED  BY <1>2, <2>1 DEF TourInv, TourShape
<1>4. awaited' = awaited - 1 /\ awaited > 0 /\ demo' = demo /\ awaited \in Nat
      BY DEF Lands, TourInv, TourShape
<1> HIDE DEF t
<1>5. ~toured.twice => awaited' = 0 /\ t.stepIndex = 1
      BY <1>1, <1>4 DEF TourInv, PaceInv
<1>6. t.stepIndex = 1 => Paced(t.stepIndex, toured.seen \cup Seen(p))
      BY DEF Paced
<1>7. awaited' \in Nat /\ demo' \in BOOLEAN
      BY <1>4 DEF TourInv, TourShape
<1>8. ~toured.twice => /\ awaited' <= awaited /\ (awaited' > 0 => t.stepIndex = 0)
                       /\ t.run => Paced(t.stepIndex, toured.seen \cup Seen(p))
      BY <1>4, <1>5, <1>6
<1>9. IF t.run THEN (demo' <=> demo) /\ t.demoMode = tour.demoMode ELSE ~t.demoMode
      BY <1>1, <1>4
<1>10. t \in Tours
      BY <1>1
<1>11. QED  BY <1>2, <1>3, <1>7, <1>8, <1>9, <1>10, BecomesKeeps

LEMMA TourNextKeeps == TourInv /\ [TourNext]_tourVars => TourInv' /\ TourStep
<1> SUFFICES ASSUME TourInv, [TourNext]_tourVars PROVE TourInv' /\ TourStep
    OBVIOUS
<1>1. ASSUME ClosesTour \/ LosesTarget \/ FinishesTour PROVE TourInv' /\ TourStep
  <2>1. tour.run /\ StopsTour /\ UNCHANGED awaited
        BY <1>1 DEF ClosesTour, LosesTarget, FinishesTour, TipUp
  <2>2. QED  BY <2>1, StopsKeeps, DemoIsGivenBack DEF TourStep
<1> DEFINE Ends == ClosesTour \/ LosesTarget \/ FinishesTour
<1>2. ASSUME ~Ends, TourInv', tour'.run = tour.run \/ awaited > 0 PROVE TourInv' /\ TourStep
      BY <1>2 DEF TourStep
<1> HIDE DEF Ends
<1>3. CASE StartsTour
      BY <1>3, StartsKeeps
<1>4. ASSUME ShowsStep PROVE TourInv' /\ tour'.run = tour.run
  <2>1. tip' \in 0..13 /\ UNCHANGED <<tour, demo, route, awaited, toured>>
        BY <1>4, StepsOfTour DEF ShowsStep, TourInv, TourShape, Tours
  <2>2. QED  BY <2>1 DEF TourInv, TourShape, PaceInv, DemoInv
<1>5. ASSUME Start \/ StartWithDemo PROVE TourInv' /\ tour'.run = tour.run
  <2>1. CASE Start
        BY <2>1, StartingKeeps DEF Start, TourInv, TourShape
  <2>2. CASE StartWithDemo
    <3>1. /\ tour' \in Tours /\ tour'.run = tour.run /\ tour'.stepIndex = tour.stepIndex /\ tour'.demoMode
          /\ ~demo /\ demo' = TRUE /\ route' \in Routes
          BY <2>2 DEF StartWithDemo, TourInv, TourShape, Tours, Routes, Page
    <3>2. QED  BY <2>2, <3>1, StartingKeeps DEF StartWithDemo
  <2>3. QED  BY <1>5, <2>1, <2>2
<1>6. ASSUME NEW at \in Stops, Goes(at) PROVE TourInv' /\ tour'.run = tour.run
  <2>1. (IF at = route.at THEN [route EXCEPT !.state = "loading"] ELSE Page(at)) \in Routes
        BY DEF TourInv, TourShape, Routes, Page
  <2>2. QED  BY <1>6, <2>1, WandersKeeps DEF Goes
<1>7. ASSUME PageLoads PROVE TourInv' /\ tour'.run = tour.run
  <2>1. PICK state \in {"found", "missing"} : Becomes(tour, [route EXCEPT !.state = state])
        BY <1>7 DEF PageLoads
  <2>2. [route EXCEPT !.state = state] \in Routes
        BY DEF TourInv, TourShape, Routes
  <2>3. QED  BY <1>7, <2>1, <2>2, WandersKeeps DEF PageLoads
<1>8. ASSUME SelectsChart PROVE TourInv' /\ tour'.run = tour.run
  <2>1. [route EXCEPT !.timeline = ~@] \in Routes
        BY DEF TourInv, TourShape, Routes
  <2>2. QED  BY <1>8, <2>1, WandersKeeps DEF SelectsChart
<1>9. ASSUME ComesUpAnew PROVE TourInv' /\ tour'.run = tour.run
      BY <1>9 DEF ComesUpAnew, TourInv, TourShape, PaceInv, DemoInv, Routes, Page
<1>10. ASSUME SetsDemo PROVE TourInv' /\ tour'.run = tour.run
  <2>1. /\ toured' \in Journeys /\ toured'.touched = tour.run /\ toured'.twice = toured.twice
        /\ toured'.seen = toured.seen
        BY <1>10 DEF SetsDemo, TourInv, TourShape, Journeys, Tours
  <2>2. demo' \in BOOLEAN /\ tip' = -1 /\ UNCHANGED <<tour, route, awaited>>
        BY <1>10 DEF SetsDemo, TourInv, TourShape
  <2>3. QED  BY <2>1, <2>2 DEF TourInv, TourShape, PaceInv, DemoInv
<1>11. ASSUME ReloadsTour PROVE TourInv' /\ (tour'.run => tour.run)
  <2>1. tour' \in Tours /\ ~tour'.run /\ ~tour'.demoMode /\ awaited' = 0 /\ tip' = -1
        BY <1>11 DEF ReloadsTour, Tours
  <2>2. route' \in Routes /\ UNCHANGED <<demo, toured>>
        BY <1>11 DEF ReloadsTour, Routes, Page, TourInv, TourShape
  <2>3. QED  BY <2>1, <2>2 DEF TourInv, TourShape, PaceInv, DemoInv
<1>12. CASE UNCHANGED tourVars
  <2>1. TourInv' /\ tour' = tour
        BY <1>12 DEF tourVars, TourInv, TourShape, PaceInv, DemoInv
  <2>2. QED  BY <1>1, <1>2, <2>1 DEF Ends
<1>13. Lands => awaited > 0
      BY DEF Lands
<1>14. QED
  BY <1>1, <1>2, <1>3, <1>4, <1>5, <1>6, <1>7, <1>8, <1>9, <1>10, <1>11, <1>12, <1>13,
     ForwardKeeps, BackKeeps, LandsKeeps
  DEF Ends, TourNext, Stops, TourStep

(* However the user wanders, and the connection comes and goes, no step is   *)
(* on the screen before the user has been at the pages of those before it,   *)
(* the demo is left as it was found, and a tour that has ended comes back    *)
(* only with a navigation it had begun (handleTourEvent,                     *)
(* useTourChangeStepOnLoad).                                                 *)
THEOREM TourIsPaced == TourSpec => TourKeepsPace
<1> DEFINE OnScreen ==
       tour.run /\ tip = tour.stepIndex /\ ~toured.twice =>
            /\ tip >= 2 => "task" \in toured.seen
            /\ tip >= 5 => "timeline" \in toured.seen
            /\ tip >= 8 => "worker" \in toured.seen
            /\ tip >= 11 => "explorer" \in toured.seen
<1>1. TourInv => OnScreen
      BY DEF TourInv, PaceInv, Paced
<1>2. TourSpec => []OnScreen
      BY <1>1, InitTour, TourNextKeeps, PTL DEF TourSpec
<1>3. TourSpec => [][TourStep]_tourVars
      BY InitTour, TourNextKeeps, PTL DEF TourSpec
<1>4. QED  BY <1>2, <1>3 DEF TourKeepsPace, TourStep

(* What leads the user about, the quick search, the keys and the tour        *)
(* (quick-access-dialog.tsx, use-keyboard-shortcuts.tsx, joyride-tour.tsx),  *)
(* however the three are interleaved: none takes the user where they did not *)
(* ask to go.                                                                *)
THEOREM UserIsAlwaysLed == QuickAccessSpec /\ TourSpec => UserIsLed
BY EnterOpensTheShown, KeysDoAsTold, TourIsPaced DEF UserIsLed

-----------------------------------------------------------------------------
(* The demo.  Only the loop that generates a family writes the rows of its   *)
(* tasks, apart from the mark of the heartbeats, and a task is not sent or   *)
(* received after it has started.                                            *)
EventsOf(f) == [task : ToSet(f), kind : DOMAIN StateOf]
Early == {"sent", "received"}
LastOf(t) == StateOf[Last(events[t])]
Generated(f) == [t \in {u \in ToSet(f) : events[u] # <<>>} |-> LastOf(t)]

SentFirst(s) ==
    \A k \in DOMAIN s : s[k].kind \in Early =>
        \A j \in 1..k - 1 : s[j].task = s[k].task => s[j].kind # "started"

NoneEarly(s) == \A k \in DOMAIN s : s[k].kind \notin Early
NoneEarlyOf(t, s) == \A k \in DOMAIN s : s[k].kind \in Early => s[k].task # t

(* The events that a loop is still to insert.                                *)
Coming(p) == {k \in DOMAIN p.script : p.at = "event" \/ k > 1}

Generates(p) ==
    /\ p.at \in {"event", "touch", "read", "write"} /\ p.family \in used
    /\ p.script \in Seq(EventsOf(p.family)) /\ p.script # <<>> /\ SentFirst(p.script)
    /\ \A k \in Coming(p) : p.script[k].kind \in Early => tasks[p.script[k].task].state # "STARTED"
    /\ p.at = "write" => p.members = Generated(p.family)

Beats(p) == p.at \in {"inspect", "report", "mark"} /\ p.family = <<>>

LoopOK(l) ==
    /\ DOMAIN loops[l] = DOMAIN Idle
    /\ loops[l] = Idle \/ Generates(loops[l]) \/ Beats(loops[l])

LoopsInv ==
    /\ DOMAIN loops = Loop
    /\ \A l \in Loop : LoopOK(l)
    /\ \A l, m \in Loop : l # m /\ loops[l].family = loops[m].family => loops[l].family = <<>>

RowOf(t) ==
    /\ events[t] \in Seq(DOMAIN StateOf)
    /\ IF events[t] = <<>> THEN tasks[t] = NoRow
       ELSE /\ DOMAIN tasks[t] = {"state", "active"} /\ tasks[t].state = LastOf(t)
            /\ tasks[t].active \in BOOLEAN
            /\ tasks[t].active => tasks[t].state = "STARTED"

RowsInv ==
    /\ DOMAIN events = Member /\ DOMAIN tasks = Member /\ DOMAIN summaries = Families
    /\ \A t \in Member : RowOf(t)
    /\ used \subseteq Families
    /\ \A f \in Families \ used : \A t \in ToSet(f) : events[t] = <<>>

StagesInv ==
    /\ stage \in {"downloading", "connecting"} => database = "none"
    /\ stage # "ready" => todo = <<>> /\ timers = {} /\ used = {} /\ loops = [l \in Loop |-> Idle]
    /\ \A l \in {"single", "workflow"} : todo # <<>> \/ l \in timers => loops[l] = Idle
    /\ todo # <<>> => timers \cap {"single", "workflow"} = {}

SummedUp(f) == summaries[f] = Aggregate(Generated(f))

GeneratorInv ==
    /\ LoopsInv /\ RowsInv /\ StagesInv
    /\ database = "open" => \A f \in used : Rests(f) => SummedUp(f)

LEMMA SentIs ==
    ASSUME NEW t
    PROVE  /\ Len(Sent(t)) = 3
           /\ Sent(t)[1].kind = "sent" /\ Sent(t)[2].kind = "received" /\ Sent(t)[3].kind = "started"
           /\ \A k \in 1..3 : Sent(t)[k].task = t
BY DEF Sent, Event, StateOf

LEMMA Joined ==
    ASSUME NEW E, NEW a \in Seq(E), NEW b \in Seq(E)
    PROVE  /\ a \o b \in Seq(E) /\ Len(a \o b) = Len(a) + Len(b)
           /\ \A k \in 1..Len(a) : (a \o b)[k] = a[k]
           /\ \A k \in 1..Len(a) + Len(b) : k > Len(a) => (a \o b)[k] = b[k - Len(a)]
<1>1. /\ a \o b \in Seq(E) /\ Len(a \o b) = Len(a) + Len(b)
      /\ \A i \in 1 .. Len(a) + Len(b) :
            (a \o b)[i] = IF i <= Len(a) THEN a[i] ELSE b[i - Len(a)]
      BY ConcatProperties, Zenon
<1> DEFINE s == a \o b
<1> HIDE DEF s
<1>2. Len(a) \in Nat /\ Len(b) \in Nat
      OBVIOUS
<1>3. \A k \in 1..Len(a) : s[k] = a[k]
      BY <1>1, <1>2 DEF s
<1>4. \A k \in 1..Len(a) + Len(b) : k > Len(a) => s[k] = b[k - Len(a)]
      BY <1>1, <1>2 DEF s
<1>5. QED  BY <1>1, <1>3, <1>4 DEF s

LEMMA ScriptJoins ==
    ASSUME NEW f, NEW t \in ToSet(f), NEW b \in Seq(EventsOf(f)),
           NoneEarlyOf(t, b), SentFirst(b)
    PROVE  LET s == Sent(t) \o b
           IN  s \in Seq(EventsOf(f)) /\ s # <<>> /\ SentFirst(s)
<1> DEFINE E == EventsOf(f)
           a == Sent(t)
           s == a \o b
<1>1. a \in Seq(E)
      BY DEF Sent, Event, StateOf, EventsOf
<1>2. Len(a) = 3 /\ Len(b) \in Nat /\ DOMAIN b = 1..Len(b)
      BY SentIs
<1>3. \A k \in 1..3 : a[k].task = t /\ (a[k].kind = "started" => k = 3)
      BY SentIs
<1>4. b \in Seq(E)
      OBVIOUS
<1> HIDE DEF E, a
<1>5. /\ s \in Seq(E) /\ Len(s) = Len(a) + Len(b)
      /\ \A k \in 1..Len(a) : s[k] = a[k]
      /\ \A k \in 1..Len(a) + Len(b) : k > Len(a) => s[k] = b[k - Len(a)]
      BY <1>1, <1>4, Joined, Zenon
<1> HIDE DEF s
<1>6. /\ s \in Seq(E) /\ Len(s) = 3 + Len(b)
      /\ \A k \in 1..3 : s[k] = a[k]
      /\ \A k \in 1..3 + Len(b) : k > 3 => s[k] = b[k - 3]
      BY <1>5, <1>2
<1>7. DOMAIN s = 1..3 + Len(b)
      BY <1>6
<1>8. SentFirst(s)
  <2> SUFFICES ASSUME NEW k \in 1..3 + Len(b), s[k].kind \in Early,
                      NEW j \in 1..k - 1, s[j].task = s[k].task
               PROVE  s[j].kind # "started"
      BY <1>7 DEF SentFirst
  <2>1. CASE k <= 3
        BY <2>1, <1>3, <1>6
  <2>2. CASE k > 3 /\ j <= 3
        BY <2>2, <1>2, <1>3, <1>6 DEF NoneEarlyOf
  <2>3. CASE k > 3 /\ j > 3
    <3>1. s[k] = b[k - 3] /\ k - 3 \in DOMAIN b /\ s[j] = b[j - 3] /\ j - 3 \in 1..(k - 3) - 1
          BY <2>3, <1>2, <1>6
    <3>2. QED  BY <3>1 DEF SentFirst
  <2>4. QED  BY <2>1, <2>2, <2>3, <1>2
<1>9. s # <<>>
      BY <1>6, <1>2
<1>10. QED  BY <1>6, <1>8, <1>9 DEF s, E, a

LEMMA LateEnds ==
    ASSUME NEW f, NEW t \in ToSet(f), NEW e \in Endings(t) \cup {Retrial(t)}
    PROVE  e \in Seq(EventsOf(f)) /\ SentFirst(e) /\ NoneEarly(e)
<1>1. CASE e = <<Event(t, "succeeded")>>
  <2>1. e \in Seq(EventsOf(f)) /\ DOMAIN e = {1} /\ e[1].kind = "succeeded"
        BY <1>1 DEF Event, EventsOf, StateOf
  <2>2. QED  BY <2>1 DEF SentFirst, NoneEarly, Early
<1>2. CASE e = <<Event(t, "failed")>>
  <2>1. e \in Seq(EventsOf(f)) /\ DOMAIN e = {1} /\ e[1].kind = "failed"
        BY <1>2 DEF Event, EventsOf, StateOf
  <2>2. QED  BY <2>1 DEF SentFirst, NoneEarly, Early
<1>3. CASE e = <<Event(t, "retried"), Event(t, "started"), Event(t, "succeeded")>>
  <2>1. /\ e \in Seq(EventsOf(f)) /\ DOMAIN e = 1..3
        /\ e[1].kind = "retried" /\ e[2].kind = "started" /\ e[3].kind = "succeeded"
        BY <1>3 DEF Event, EventsOf, StateOf
  <2>2. \A k \in DOMAIN e : e[k].kind \notin Early
        BY <2>1 DEF Early
  <2>3. QED  BY <2>1, <2>2 DEF SentFirst, NoneEarly
<1>4. QED  BY <1>1, <1>2, <1>3 DEF Endings, Retrial

LEMMA FamilyIs ==
    ASSUME NEW f \in Families
    PROVE  /\ f \in Seq(ToSet(f)) /\ f # <<>> /\ f[1] \in ToSet(f) /\ ToSet(f) \subseteq Member
           /\ \A k, n \in DOMAIN f : f[k] = f[n] => k = n
<1>1. ToSet(f) \subseteq Member
      BY DEF Member
<1>2. CASE f \in Workflow
  <2>1. f \in Seq(ToSet(f)) /\ Len(f) > 1 /\ \A k, n \in DOMAIN f : f[k] = f[n] => k = n
        BY <1>2, DemoAssumption DEF IsInjective
  <2>2. 1 \in DOMAIN f /\ f # <<>>
        BY <2>1
  <2>3. QED  BY <1>1, <2>1, <2>2 DEF ToSet
<1>3. ASSUME NEW t \in Single, f = <<t>> PROVE f \in Seq(ToSet(f)) /\ f # <<>> /\ DOMAIN f = {1}
      BY <1>3 DEF ToSet
<1>4. QED  BY <1>1, <1>2, <1>3 DEF Families, ToSet

LEMMA KindsOfChild ==
    ASSUME NEW end \in {"succeeded", "failed"}, NEW j \in 1..4
    PROVE  LET kind == <<"sent", "received", "started", end>>[j]
           IN  /\ kind \in DOMAIN StateOf
               /\ kind \in Early => j <= 2
               /\ kind = "started" => j = 3
<1>1. j = 1 \/ j = 2 \/ j = 3 \/ j = 4
      OBVIOUS
<1>2. QED  BY <1>1 DEF StateOf, Early

LEMMA ChildrenAre ==
    ASSUME NEW f \in Workflow, NEW ends \in [2..Len(f) -> {"succeeded", "failed"}]
    PROVE  LET c == OfChildren(f, ends) IN
           c \in Seq(EventsOf(f)) /\ SentFirst(c) /\ NoneEarlyOf(f[1], c)
<1> DEFINE last == Len(f)
           n(k) == 2 + (k - 1) \div 4
           m(k) == 1 + ((k - 1) % 4)
           kind(i, j) == <<"sent", "received", "started", ends[i]>>[j]
           c == OfChildren(f, ends)
<1>1. f \in Families /\ last \in Nat /\ last > 1 /\ DOMAIN f = 1..last
      BY DemoAssumption DEF Families
<1>2. \A i \in 2..last : f[i] \in ToSet(f)
      BY <1>1 DEF ToSet
<1>3. \A i \in 2..last, j \in 1..4 :
        /\ kind(i, j) \in DOMAIN StateOf
        /\ kind(i, j) \in Early => j <= 2
        /\ kind(i, j) = "started" => j = 3
  <2> TAKE i \in 2..last, j \in 1..4
  <2>1. ends[i] \in {"succeeded", "failed"}
        OBVIOUS
  <2>2. QED  BY <2>1, KindsOfChild
<1>4. /\ DOMAIN c = 1..4 * (last - 1)
      /\ \A k \in 1..4 * (last - 1) : c[k] = Event(f[n(k)], kind(n(k), m(k)))
      BY DEF OfChildren
<1> HIDE DEF last, kind, c
<1>5. ASSUME NEW k \in 1..4 * (last - 1)
      PROVE  n(k) \in 2..last /\ m(k) \in 1..4 /\ k = 4 * (n(k) - 2) + m(k)
  <2> DEFINE q == (k - 1) \div 4
             r == (k - 1) % 4
  <2>1. q \in Int /\ r \in 0..3 /\ k - 1 = 4 * q + r
        OBVIOUS
  <2> HIDE DEF q, r
  <2>2. q >= 0 /\ q <= last - 2
        BY <2>1, <1>1
  <2>3. n(k) = 2 + q /\ m(k) = 1 + r
        BY DEF q, r
  <2> HIDE DEF n, m
  <2>4. QED  BY <2>1, <2>2, <2>3, <1>1
<1> HIDE DEF n, m
<1>6. ASSUME NEW k \in 1..4 * (last - 1)
      PROVE  /\ c[k].task = f[n(k)] /\ c[k].kind = kind(n(k), m(k)) /\ c[k] \in EventsOf(f)
             /\ n(k) \in 2..last
  <2>1. c[k] = [task |-> f[n(k)], kind |-> kind(n(k), m(k))]
        BY <1>4 DEF Event
  <2>2. f[n(k)] \in ToSet(f) /\ kind(n(k), m(k)) \in DOMAIN StateOf
        BY <1>2, <1>3, <1>5
  <2>3. QED  BY <2>1, <2>2, <1>5 DEF EventsOf
<1>7. c \in Seq(EventsOf(f))
  <2>1. 4 * (last - 1) \in Nat
        BY <1>1
  <2>2. c = [k \in 1..4 * (last - 1) |-> c[k]]
        BY <1>4 DEF c, OfChildren, last
  <2>3. c \in [1..4 * (last - 1) -> EventsOf(f)]
        BY <2>2, <1>6
  <2> DEFINE d == 4 * (last - 1)
  <2> HIDE DEF d
  <2>4. d \in Nat /\ c \in [1..d -> EventsOf(f)]
        BY <2>1, <2>3 DEF d
  <2>5. QED  BY <2>4
<1>8. \A k \in DOMAIN c : c[k].task # f[1]
  <2> TAKE k \in DOMAIN c
  <2>1. c[k].task = f[n(k)] /\ n(k) \in 2..last
        BY <1>4, <1>6
  <2>2. 1 \in DOMAIN f /\ n(k) \in DOMAIN f /\ n(k) # 1
        BY <2>1, <1>1
  <2>3. QED  BY <2>1, <2>2, <1>1, FamilyIs
<1>9. SentFirst(c)
  <2> SUFFICES ASSUME NEW k \in DOMAIN c, c[k].kind \in Early,
                      NEW j \in 1..k - 1, c[j].task = c[k].task
               PROVE  c[j].kind # "started"
      BY DEF SentFirst
  <2>1. k \in 1..4 * (last - 1) /\ j \in 1..4 * (last - 1)
        BY <1>1, <1>4
  <2>2. f[n(k)] = f[n(j)] /\ n(k) \in 2..last /\ n(j) \in 2..last
        BY <2>1, <1>6
  <2>3. n(j) = n(k)
    <3>1. n(k) \in DOMAIN f /\ n(j) \in DOMAIN f
          BY <2>2, <1>1
    <3>2. QED  BY <3>1, <2>2, <1>1, FamilyIs
  <2>4. /\ m(k) \in 1..4 /\ m(j) \in 1..4
        /\ k = 4 * (n(k) - 2) + m(k) /\ j = 4 * (n(j) - 2) + m(j)
        BY <2>1, <1>5
  <2>5. m(k) <= 2
        BY <2>1, <2>2, <2>4, <1>3, <1>6
  <2>6. m(j) < m(k)
        BY <2>1, <2>2, <2>3, <2>4
  <2>7. m(j) # 3
        BY <2>4, <2>5, <2>6
  <2>8. c[j].kind = kind(n(j), m(j))
        BY <2>1, <1>6
  <2>9. QED  BY <2>2, <2>4, <2>7, <2>8, <1>3
<1>10. QED  BY <1>7, <1>8, <1>9 DEF c, NoneEarlyOf

LEMMA EndJoins ==
    ASSUME NEW f, NEW b \in Seq(EventsOf(f)), SentFirst(b),
           NEW e \in Seq(EventsOf(f)), NoneEarly(e), NEW t, NoneEarlyOf(t, b)
    PROVE  LET s == b \o e
           IN  s \in Seq(EventsOf(f)) /\ SentFirst(s) /\ NoneEarlyOf(t, s)
<1> DEFINE s == b \o e
           n == Len(b)
           m == Len(e)
<1>1. /\ s \in Seq(EventsOf(f)) /\ Len(s) = n + m
      /\ \A k \in 1..n : s[k] = b[k]
      /\ \A k \in 1..n + m : k > n => s[k] = e[k - n]
      BY Joined, Zenon
<1>2. n \in Nat /\ m \in Nat /\ DOMAIN b = 1..n /\ DOMAIN e = 1..m
      OBVIOUS
<1> HIDE DEF s, n, m
<1>3. DOMAIN s = 1..n + m
      BY <1>1
<1>4. \A k \in 1..n + m : s[k].kind \in Early => k \in 1..n
  <2> SUFFICES ASSUME NEW k \in 1..n + m, k > n PROVE s[k].kind \notin Early
      BY <1>2
  <2>1. s[k] = e[k - n] /\ k - n \in 1..m
        BY <1>1, <1>2
  <2>2. QED  BY <2>1, <1>2 DEF NoneEarly
<1>5. NoneEarlyOf(t, s)
      BY <1>1, <1>2, <1>3, <1>4 DEF NoneEarlyOf
<1>6. SentFirst(s)
  <2> SUFFICES ASSUME NEW k \in 1..n + m, s[k].kind \in Early,
                      NEW j \in 1..k - 1, s[j].task = s[k].task
               PROVE  s[j].kind # "started"
      BY <1>3 DEF SentFirst
  <2>1. k \in 1..n
        BY <1>4
  <2>2. j \in 1..n /\ s[k] = b[k] /\ s[j] = b[j]
        BY <1>1, <1>2, <2>1
  <2>3. QED  BY <1>2, <2>1, <2>2 DEF SentFirst
<1>7. QED  BY <1>1, <1>5, <1>6 DEF s

LEMMA Shortened ==
    ASSUME NEW E, NEW a \in Seq(E), Len(a) = 3, NEW n \in 2..3
    PROVE  LET s == SubSeq(a, 1, n)
           IN  s \in Seq(E) /\ Len(s) = n /\ \A k \in 1..n : s[k] = a[k]
<1>1. SubSeq(a, 1, n) \in Seq(E)
      OBVIOUS
<1>2. Len(SubSeq(a, 1, n)) = n
      OBVIOUS
<1>3. \A k \in 1..n : SubSeq(a, 1, n)[k] = a[k]
      OBVIOUS
<1>4. QED  BY <1>1, <1>2, <1>3, Zenon

LEMMA ScriptsAre ==
    ASSUME NEW f \in Families, NEW piece \in {"workflow", "single", "partial"},
           NEW s \in ScriptsOf(piece, f)
    PROVE  s \in Seq(EventsOf(f)) /\ s # <<>> /\ SentFirst(s)
<1>1. f[1] \in ToSet(f)
      BY FamilyIs
<1>2. CASE piece = "single"
  <2>1. PICK e \in Endings(f[1]) \cup {Retrial(f[1])} : s = Sent(f[1]) \o e
        BY <1>2 DEF ScriptsOf, Lifecycles
  <2>2. e \in Seq(EventsOf(f)) /\ SentFirst(e) /\ NoneEarlyOf(f[1], e)
        BY <1>1, LateEnds DEF NoneEarly, NoneEarlyOf
  <2>3. QED  BY <1>1, <2>1, <2>2, ScriptJoins, Zenon
<1>3. CASE piece = "workflow"
  <2>1. f \in Workflow /\ s \in WorkflowScripts(f)
        BY <1>3 DEF ScriptsOf
  <2>2. PICK ends \in [2..Len(f) -> {"succeeded", "failed"}] :
            s \in {Sent(f[1]) \o (OfChildren(f, ends) \o e) : e \in Endings(f[1])}
        BY <2>1, Zenon DEF WorkflowScripts
  <2> DEFINE c == OfChildren(f, ends)
  <2>3. PICK e \in Endings(f[1]) : s = Sent(f[1]) \o (c \o e)
        BY <2>2
  <2>4. c \in Seq(EventsOf(f)) /\ SentFirst(c) /\ NoneEarlyOf(f[1], c)
        BY <2>1, ChildrenAre, Zenon
  <2>5. e \in Seq(EventsOf(f)) /\ NoneEarly(e)
        BY <1>1, LateEnds, Zenon
  <2> DEFINE b == c \o e
  <2> HIDE DEF c
  <2>6. b \in Seq(EventsOf(f)) /\ SentFirst(b) /\ NoneEarlyOf(f[1], b)
        BY <2>4, <2>5, EndJoins, Zenon
  <2>7. s = Sent(f[1]) \o b
        BY <2>3
  <2> HIDE DEF b
  <2>8. QED  BY <1>1, <2>6, <2>7, ScriptJoins, Zenon
<1>4. CASE piece = "partial"
  <2>1. PICK n \in 2..3 : s = SubSeq(Sent(f[1]), 1, n)
        BY <1>4 DEF ScriptsOf, PartialScripts
  <2>0. n \in Int /\ 1 \in Int
        OBVIOUS
  <2> DEFINE a == Sent(f[1])
             E == EventsOf(f)
  <2>2. a \in Seq(E)
        BY <1>1 DEF Sent, Event, StateOf, EventsOf
  <2>3. Len(a) = 3 /\ a[1].kind = "sent" /\ a[2].kind = "received"
        /\ a[3].kind = "started"
        BY SentIs
  <2> HIDE DEF a, E
  <2>4. /\ s \in Seq(E) /\ DOMAIN s = 1..n /\ \A k \in 1..n : s[k] = a[k]
    <3>1. s = SubSeq(a, 1, n)
          BY <2>1 DEF a
    <3>2. s \in Seq(E) /\ Len(s) = n /\ \A k \in 1..n : s[k] = a[k]
          BY <2>2, <2>3, <3>1, Shortened, Zenon
    <3>3. QED  BY <3>2
  <2>5. \A k \in 1..n : s[k].kind \in Early => k <= 2
        BY <2>3, <2>4 DEF Early
  <2>6. SentFirst(s)
    <3> SUFFICES ASSUME NEW k \in 1..n, s[k].kind \in Early, NEW j \in 1..k - 1
                 PROVE  s[j].kind # "started"
        BY <2>4 DEF SentFirst
    <3>1. j = 1
          BY <2>5
    <3>2. QED  BY <3>1, <2>3, <2>4
  <2>7. QED  BY <2>4, <2>6 DEF E
<1>5. QED  BY <1>2, <1>3, <1>4

LEMMA InitGenerator == DemoInit => GeneratorInv
<1> SUFFICES ASSUME DemoInit PROVE GeneratorInv
    OBVIOUS
<1>1. LoopsInv
      BY DEF DemoInit, LoopsInv, LoopOK, Idle
<1>2. RowsInv
      BY FamilyIs DEF DemoInit, RowsInv, RowOf
<1>3. StagesInv
      BY DEF DemoInit, StagesInv, Loop
<1>4. QED  BY <1>1, <1>2, <1>3 DEF GeneratorInv, DemoInit

LEMMA GeneratedSame ==
    ASSUME NEW f, \A t \in ToSet(f) : events'[t] = events[t]
    PROVE  Generated(f)' = Generated(f)
<1>1. {t \in ToSet(f) : events'[t] # <<>>} = {t \in ToSet(f) : events[t] # <<>>}
      OBVIOUS
<1>2. \A t \in ToSet(f) : StateOf[Last(events'[t])] = StateOf[Last(events[t])]
      OBVIOUS
<1>3. QED  BY <1>1, <1>2 DEF Generated, LastOf

LEMMA LoopStays ==
    ASSUME NEW l \in Loop, LoopOK(l), loops'[l] = loops[l], used \subseteq used',
           \A t \in ToSet(loops[l].family) :
                tasks'[t].state = tasks[t].state /\ events'[t] = events[t]
    PROVE  LoopOK(l)'
<1>1. CASE Generates(loops[l])
  <2> DEFINE p == loops[l]
  <2>1. /\ p.at \in {"event", "touch", "read", "write"} /\ p.family \in used'
        /\ p.script \in Seq(EventsOf(p.family)) /\ p.script # <<>> /\ SentFirst(p.script)
        BY <1>1 DEF Generates
  <2>2. \A k \in Coming(p) : p.script[k].kind \in Early => tasks'[p.script[k].task].state # "STARTED"
    <3> SUFFICES ASSUME NEW k \in Coming(p), p.script[k].kind \in Early
                 PROVE  tasks'[p.script[k].task].state # "STARTED"
        OBVIOUS
    <3>1. p.script[k].task \in ToSet(p.family)
      <4> DEFINE E == EventsOf(p.family)
                 s == p.script
      <4>1. s \in Seq(E) /\ k \in DOMAIN s
            BY <2>1 DEF Coming
      <4> HIDE DEF E, s
      <4>2. s[k] \in E
            BY <4>1
      <4>3. QED  BY <4>2 DEF E, s, EventsOf
    <3>2. tasks[p.script[k].task].state # "STARTED"
          BY <1>1 DEF Generates
    <3>3. QED  BY <3>1, <3>2
  <2>3. p.at = "write" => p.members = Generated(p.family)'
        BY <1>1, GeneratedSame DEF Generates
  <2>4. Generates(loops[l])'
        BY <2>1, <2>2, <2>3 DEF Generates, Coming, Generated, LastOf
  <2>5. QED  BY <2>4 DEF LoopOK
<1>2. CASE loops[l] = Idle \/ Beats(loops[l])
      BY <1>2 DEF LoopOK, Beats
<1>3. QED  BY <1>1, <1>2 DEF LoopOK

LEMMA Apart ==
    ASSUME LoopsInv, RowsInv, NEW l \in Loop, NEW m \in Loop, l # m
    PROVE  /\ ToSet(loops[l].family) \cap ToSet(loops[m].family) = {}
           /\ ToSet(loops[m].family) \subseteq Member
<1>1. ASSUME NEW n \in Loop PROVE loops[n].family \in used \/ loops[n].family = <<>>
      BY DEF LoopsInv, LoopOK, Generates, Beats, Idle
<1>2. ToSet(<<>>) = {}
      BY DEF ToSet
<1>3. ASSUME NEW n \in Loop, loops[n].family \in used
      PROVE  loops[n].family \in Families /\ ToSet(loops[n].family) \subseteq Member
      BY <1>3, FamilyIs DEF RowsInv
<1>4. loops[l].family = loops[m].family => loops[l].family = <<>>
      BY DEF LoopsInv
<1>5. QED  BY <1>1, <1>2, <1>3, <1>4, DemoAssumption

LEMMA LoopMoves ==
    ASSUME LoopsInv, RowsInv, NEW l \in Loop, DOMAIN loops' = Loop,
           \A m \in Loop \ {l} : loops'[m] = loops[m],
           LoopOK(l)', used \subseteq used',
           loops'[l].family \in {<<>>, loops[l].family} \/ loops'[l].family \notin used,
           \A t \in Member \ ToSet(loops[l].family) :
                tasks'[t].state = tasks[t].state /\ events'[t] = events[t]
    PROVE  LoopsInv'
<1>1. ASSUME NEW m \in Loop, m # l PROVE LoopOK(m)'
  <2>1. \A t \in ToSet(loops[m].family) :
            tasks'[t].state = tasks[t].state /\ events'[t] = events[t]
        BY <1>1, Apart
  <2>2. QED  BY <1>1, <2>1, LoopStays DEF LoopsInv
<1>2. \A m \in Loop : loops[m].family \in used \/ loops[m].family = <<>>
      BY DEF LoopsInv, LoopOK, Generates, Beats, Idle
<1>3. ASSUME NEW m \in Loop, NEW n \in Loop, m # n, loops'[m].family = loops'[n].family
      PROVE  loops'[m].family = <<>>
      BY <1>2, <1>3 DEF LoopsInv
<1>4. QED  BY <1>1, <1>3 DEF LoopsInv

LEMMA StaysSummedUp ==
    ASSUME NEW f, SummedUp(f), summaries'[f] = summaries[f],
           \A t \in ToSet(f) : events'[t] = events[t]
    PROVE  SummedUp(f)'
<1>1. Generated(f)' = Generated(f)
      BY GeneratedSame
<1>2. summaries'[f] = Aggregate(Generated(f)')
      BY <1>1 DEF SummedUp
<1>3. QED  BY <1>2 DEF SummedUp

(* A loop that takes an event: its task follows its events.                  *)
LEMMA EventOf ==
    ASSUME NEW p, Generates(p), NEW k \in DOMAIN p.script
    PROVE  p.script[k].task \in ToSet(p.family) /\ p.script[k].kind \in DOMAIN StateOf
<1> DEFINE E == EventsOf(p.family)
           s == p.script
<1>1. s \in Seq(E) /\ k \in DOMAIN s
      BY DEF Generates
<1> HIDE DEF E, s
<1>2. s[k] \in E
      BY <1>1
<1>3. QED  BY <1>2 DEF E, s, EventsOf

LEMMA ScriptIs ==
    ASSUME NEW p, Generates(p)
    PROVE  /\ Len(p.script) \in Nat \ {0} /\ DOMAIN p.script = 1..Len(p.script)
           /\ Head(p.script) = p.script[1]
<1>1. p.script \in Seq(EventsOf(p.family)) /\ p.script # <<>>
      BY DEF Generates
<1>2. QED  BY <1>1

LEMMA RowFollows ==
    ASSUME NEW t \in Member, RowOf(t), NEW kind \in DOMAIN StateOf,
           kind \in Early => tasks[t].state # "STARTED",
           events'[t] = Append(events[t], kind), tasks'[t] = RowAfter(tasks[t], kind)
    PROVE  /\ RowOf(t)' /\ events'[t] # <<>>
           /\ tasks'[t].state = "STARTED" => kind = "started"
<1>1. events[t] \in Seq(DOMAIN StateOf)
      BY DEF RowOf
<1>2. /\ events'[t] \in Seq(DOMAIN StateOf) /\ events'[t] # <<>>
      /\ events'[t][Len(events'[t])] = kind
      BY <1>1
<1>3. tasks[t].active \in BOOLEAN /\ (tasks[t].active => tasks[t].state = "STARTED")
  <2>1. CASE events[t] = <<>>
    <3>1. tasks[t] = NoRow
          BY <2>1 DEF RowOf
    <3>2. tasks[t].active = FALSE
          BY <3>1 DEF NoRow
    <3>3. QED  BY <3>2
  <2>2. CASE events[t] # <<>>
        BY <2>2 DEF RowOf
  <2>3. QED  BY <2>1, <2>2
<1>4. /\ DOMAIN tasks'[t] = {"state", "active"} /\ tasks'[t].state = StateOf[kind]
      /\ tasks'[t].active = CASE kind = "started" -> TRUE
                              [] kind \in {"sent", "received"} -> tasks[t].active
                              [] OTHER -> FALSE
      BY DEF RowAfter
<1>5. kind \in {"sent", "received", "started", "succeeded", "failed", "retried"}
      BY DEF StateOf
<1>6. (StateOf[kind] = "STARTED") <=> kind = "started"
      BY <1>5 DEF StateOf
<1>7. tasks'[t].active \in BOOLEAN /\ (tasks'[t].active => tasks'[t].state = "STARTED")
  <2>1. CASE kind = "started"
        BY <2>1, <1>4, <1>6
  <2>2. CASE kind \in {"sent", "received"}
        BY <2>2, <1>3, <1>4 DEF Early
  <2>3. CASE kind \notin {"sent", "received", "started"}
        BY <2>3, <1>4
  <2>4. QED  BY <2>1, <2>2, <2>3
<1>8. RowOf(t)'
      BY <1>2, <1>4, <1>7 DEF RowOf, LastOf, Last
<1>9. QED  BY <1>2, <1>4, <1>6, <1>8

(* A loop leaves or goes on: what must hold of it then.                      *)
LEMMA IsIdle == ASSUME NEW l \in Loop, loops'[l] = Idle PROVE LoopOK(l)' /\ loops'[l].family = <<>>
BY DEF LoopOK, Idle

LEMMA IsBeating ==
    ASSUME NEW l \in Loop, NEW p, p.family = <<>>, p.at \in {"inspect", "report", "mark"},
           DOMAIN p = DOMAIN Idle, loops'[l] = p
    PROVE  LoopOK(l)'
BY DEF LoopOK, Beats

LEMMA Restful ==
    ASSUME NEW l \in Loop, DOMAIN loops' = Loop, \A m \in Loop \ {l} : loops'[m] = loops[m],
           NEW f, f # loops[l].family, Rests(f)'
    PROVE  Rests(f)
BY DEF Rests

(* A step of one loop.                                                       *)
LEMMA GeneratorStep ==
    ASSUME GeneratorInv, RowsInv', StagesInv', NEW l \in Loop, NEW f, f = loops[l].family,
           DOMAIN loops' = Loop, \A m \in Loop \ {l} : loops'[m] = loops[m], LoopOK(l)',
           loops'[l].family \in {<<>>, f} \/ loops'[l].family \notin used,
           used \subseteq used', used' \subseteq used \cup {loops'[l].family},
           \A t \in Member \ ToSet(f) : tasks'[t].state = tasks[t].state /\ events'[t] = events[t],
           \A g \in Families : g # f => summaries'[g] = summaries[g],
           database = "open" /\ f \in used /\ loops'[l].family # f => SummedUp(f)',
           database' = database
    PROVE  GeneratorInv'
<1>1. LoopsInv'
      BY LoopMoves DEF GeneratorInv
<1>2. f = <<>> \/ f \in Families
      BY DEF GeneratorInv, RowsInv, LoopsInv, LoopOK, Idle, Generates, Beats
<1>3. ToSet(<<>>) = {}
      BY DEF ToSet
<1>4. ASSUME database' = "open", NEW g \in used', Rests(g)' PROVE SummedUp(g)'
  <2>1. g \in used /\ g # loops'[l].family /\ g \in Families
        BY <1>4 DEF Rests, GeneratorInv, RowsInv
  <2>2. CASE g = f
        BY <2>1, <2>2, <1>4
  <2>3. CASE g # f
    <3>1. SummedUp(g)
          BY <1>4, <2>1, <2>3, Restful DEF GeneratorInv
    <3>2. ToSet(g) \cap ToSet(f) = {} /\ ToSet(g) \subseteq Member
          BY <1>2, <1>3, <2>1, <2>3, DemoAssumption, FamilyIs
    <3>3. \A t \in ToSet(g) : events'[t] = events[t]
          BY <3>2
    <3>4. QED  BY <2>1, <2>3, <3>1, <3>3, StaysSummedUp
  <2>4. QED  BY <2>2, <2>3
<1>5. QED  BY <1>1, <1>4 DEF GeneratorInv

(* A loop that is under way does not fire, and the seeds are done when it is *)
(* one of the timers'.                                                       *)
LEMMA StagesKept ==
    ASSUME GeneratorInv, NEW l \in Loop, loops[l] # Idle, DOMAIN loops' = Loop,
           \A m \in Loop \ {l} : loops'[m] = loops[m],
           UNCHANGED <<stage, database, used>>, todo' \in {todo, <<>>},
           timers' = timers \/ (loops'[l] = Idle /\ timers' = timers \cup {l})
    PROVE  StagesInv'
<1>1. stage = "ready"
      BY DEF GeneratorInv, StagesInv
<1>2. todo' # <<>> => todo # <<>>
      OBVIOUS
<1>3. l \in {"single", "workflow"} => todo = <<>> /\ l \notin timers
      BY DEF GeneratorInv, StagesInv
<1>4. ASSUME NEW m \in {"single", "workflow"}, todo' # <<>> \/ m \in timers'
      PROVE  loops'[m] = Idle
  <2>1. CASE m = l
        BY <1>2, <1>3, <1>4, <2>1
  <2>2. CASE m # l
    <3>1. todo # <<>> \/ m \in timers
          BY <1>2, <1>4, <2>2
    <3>2. m \in Loop
          BY DEF Loop
    <3>3. QED  BY <2>2, <3>1, <3>2 DEF GeneratorInv, StagesInv
  <2>3. QED  BY <2>1, <2>2
<1>5. todo' # <<>> => timers' \cap {"single", "workflow"} = {}
      BY <1>2, <1>3 DEF GeneratorInv, StagesInv
<1>6. QED  BY <1>1, <1>4, <1>5 DEF StagesInv

LEMMA Placed ==
    ASSUME LoopsInv, NEW l \in Loop, NEW p, Places(l, p)
    PROVE  /\ DOMAIN loops' = Loop /\ \A m \in Loop \ {l} : loops'[m] = loops[m]
           /\ DOMAIN loops'[l] = DOMAIN Idle /\ loops'[l].at = p
           /\ loops'[l].script = loops[l].script /\ loops'[l].family = loops[l].family
           /\ loops'[l].members = loops[l].members
BY DEF Places, LoopsInv, LoopOK, Idle

LEMMA AtIts ==
    ASSUME LoopsInv, NEW l \in Loop, loops[l] # Idle
    PROVE  /\ loops[l].at \in {"event", "touch", "read", "write"} =>
                    Generates(loops[l])
           /\ loops[l].at \in {"inspect", "report", "mark"} => Beats(loops[l])
BY DEF LoopsInv, LoopOK, Generates, Beats, Idle

LEMMA NotIdle == ASSUME NEW l, loops[l].at # "idle" PROVE loops[l] # Idle
BY DEF Idle

LEMMA InsertsEventKeeps ==
    ASSUME GeneratorInv, NEW l \in Loop, InsertsEvent(l)
    PROVE  GeneratorInv'
<1> DEFINE f == loops[l].family
           s == loops[l].script
<1> PICK t, kind : t = Current(l).task /\ kind = Current(l).kind
    OBVIOUS
<1>1. /\ loops[l].at = "event" /\ Places(l, "touch")
      /\ events' = [events EXCEPT ![t] = Append(@, kind)]
      /\ tasks' = [tasks EXCEPT ![t] = RowAfter(@, kind)]
      /\ UNCHANGED <<stage, database, todo, used, timers, summaries>>
      BY DEF InsertsEvent, Only, MayQuery, provider
<1>2. LoopsInv /\ RowsInv
      BY DEF GeneratorInv
<1>3. loops[l] # Idle /\ Generates(loops[l])
      BY <1>1, <1>2, NotIdle, AtIts
<1>4. f \in used /\ f \in Families /\ ToSet(f) \subseteq Member
      BY <1>2, <1>3, FamilyIs DEF Generates, RowsInv
<1>5. s[1].task = t /\ s[1].kind = kind /\ 1 \in DOMAIN s /\ t \in ToSet(f) /\ kind \in DOMAIN StateOf
      BY <1>3, EventOf, ScriptIs DEF Current
<1>6. kind \in Early => tasks[t].state # "STARTED"
      BY <1>1, <1>3, <1>5 DEF Generates, Coming
<1>7. /\ DOMAIN events = Member /\ DOMAIN tasks = Member /\ t \in Member
      /\ events'[t] = Append(events[t], kind) /\ tasks'[t] = RowAfter(tasks[t], kind)
      /\ \A u \in Member \ {t} : events'[u] = events[u] /\ tasks'[u] = tasks[u]
      /\ DOMAIN events' = Member /\ DOMAIN tasks' = Member
      BY <1>1, <1>2, <1>4, <1>5 DEF RowsInv
<1>8. RowOf(t)' /\ (tasks'[t].state = "STARTED" => kind = "started")
  <2>1. RowOf(t)
        BY <1>2, <1>7 DEF RowsInv
  <2>2. QED  BY <2>1, <1>5, <1>6, <1>7, RowFollows
<1>9. RowsInv'
  <2>1. ASSUME NEW u \in Member PROVE RowOf(u)'
    <3>1. CASE u = t
          BY <3>1, <1>8
    <3>2. CASE u # t
      <4>1. RowOf(u) /\ events'[u] = events[u] /\ tasks'[u] = tasks[u]
            BY <3>2, <1>2, <1>7 DEF RowsInv
      <4>2. QED  BY <4>1 DEF RowOf, LastOf
    <3>3. QED  BY <3>1, <3>2
  <2>2. ASSUME NEW g \in Families \ used, NEW u \in ToSet(g) PROVE events'[u] = <<>>
    <3>1. u \in Member /\ u # t
      <4>1. ToSet(g) \cap ToSet(f) = {}
            BY <1>4, DemoAssumption
      <4>2. ToSet(g) \subseteq Member
            BY FamilyIs
      <4>3. QED  BY <4>1, <4>2, <1>5
    <3>2. QED  BY <3>1, <1>2, <1>7 DEF RowsInv
  <2>3. DOMAIN summaries' = Families /\ used' \subseteq Families
        BY <1>1, <1>2 DEF RowsInv
  <2>4. QED  BY <2>1, <2>2, <2>3, <1>1, <1>7 DEF RowsInv
<1>10. LoopOK(l)'
  <2>1. /\ DOMAIN loops' = Loop /\ \A m \in Loop \ {l} : loops'[m] = loops[m]
        /\ DOMAIN loops'[l] = DOMAIN Idle /\ loops'[l].at = "touch"
        /\ loops'[l].script = s /\ loops'[l].family = f
        BY <1>1, <1>2, Placed
  <2>2. ASSUME NEW k \in DOMAIN s, k > 1, s[k].kind \in Early
        PROVE  tasks'[s[k].task].state # "STARTED"
    <3>1. s[k].task \in Member /\ k \in Nat
          BY <1>3, <1>4, EventOf, ScriptIs
    <3>2. CASE s[k].task = t
      <4>1. 1 \in 1..k - 1
            BY <2>2, <3>1
      <4>2. kind # "started"
            BY <1>3, <1>5, <2>2, <3>2, <4>1 DEF Generates, SentFirst
      <4>3. QED  BY <1>8, <3>2, <4>2
    <3>3. CASE s[k].task # t
          BY <1>1, <1>3, <1>7, <2>2, <3>1, <3>3 DEF Generates, Coming
    <3>4. QED  BY <3>2, <3>3
  <2>3. f \in used' /\ s \in Seq(EventsOf(f)) /\ s # <<>> /\ SentFirst(s)
        BY <1>1, <1>3 DEF Generates
  <2>4. Generates(loops[l])'
        BY <2>1, <2>2, <2>3 DEF Generates, Coming
  <2>5. QED  BY <2>1, <2>4 DEF LoopOK
<1>11. /\ DOMAIN loops' = Loop /\ \A m \in Loop \ {l} : loops'[m] = loops[m]
       /\ loops'[l].family = f
       BY <1>1, <1>2, Placed
<1>12. StagesInv'
       BY <1>1, <1>3, <1>11, StagesKept
<1>13. \A u \in Member \ ToSet(f) : tasks'[u].state = tasks[u].state /\ events'[u] = events[u]
       BY <1>5, <1>7
<1>14. QED  BY <1>1, <1>9, <1>10, <1>11, <1>12, <1>13, GeneratorStep

LEMMA RowsStay ==
    ASSUME RowsInv, UNCHANGED <<events, tasks, used>>, DOMAIN summaries' = DOMAIN summaries
    PROVE  RowsInv'
<1>1. ASSUME NEW t \in Member PROVE RowOf(t)'
  <2>1. RowOf(t)
        BY DEF RowsInv
  <2>2. QED  BY <2>1 DEF RowOf, LastOf
<1>2. QED  BY <1>1 DEF RowsInv

(* A step of a loop that has its place and what it read to itself.           *)
LEMMA TouchesKeeps ==
    ASSUME GeneratorInv, NEW l \in Loop, TouchesWorkflow(l)
    PROVE  GeneratorInv'
<1> DEFINE f == loops[l].family
<1>1. /\ loops[l].at = "touch" /\ Places(l, "read")
      /\ DOMAIN summaries' = DOMAIN summaries
      /\ \A g \in Families : g # f => summaries'[g] = summaries[g]
      /\ UNCHANGED <<stage, database, todo, used, timers, events, tasks>>
      BY DEF TouchesWorkflow, Only, MayQuery, provider, GeneratorInv, RowsInv
<1>2. LoopsInv /\ RowsInv
      BY DEF GeneratorInv
<1>3. loops[l] # Idle /\ Generates(loops[l])
      BY <1>1, <1>2, NotIdle, AtIts
<1>4. /\ DOMAIN loops' = Loop /\ \A m \in Loop \ {l} : loops'[m] = loops[m]
      /\ DOMAIN loops'[l] = DOMAIN Idle /\ loops'[l].at = "read"
      /\ loops'[l].script = loops[l].script /\ loops'[l].family = f
      BY <1>1, <1>2, Placed
<1>5. LoopOK(l)'
      BY <1>1, <1>3, <1>4 DEF LoopOK, Generates, Coming
<1>6. RowsInv'
      BY <1>1, <1>2, RowsStay
<1>7. StagesInv'
      BY <1>1, <1>3, <1>4, StagesKept
<1>8. QED  BY <1>1, <1>4, <1>5, <1>6, <1>7, GeneratorStep

LEMMA RowsOfFamily ==
    ASSUME RowsInv, NEW f \in Families
    PROVE  LET rows == {t \in ToSet(f) : tasks[t] # NoRow}
           IN  [t \in rows |-> tasks[t].state] = Generated(f)
<1> DEFINE rows == {t \in ToSet(f) : tasks[t] # NoRow}
<1>1. ASSUME NEW t \in ToSet(f)
      PROVE  (tasks[t] # NoRow <=> events[t] # <<>>) /\ (events[t] # <<>> => tasks[t].state = LastOf(t))
  <2>1. RowOf(t)
        BY FamilyIs DEF RowsInv
  <2>2. CASE events[t] = <<>>
        BY <2>1, <2>2 DEF RowOf
  <2>3. CASE events[t] # <<>>
    <3>1. tasks[t].state = LastOf(t) /\ Last(events[t]) \in DOMAIN StateOf
          BY <2>1, <2>3 DEF RowOf, Last
    <3>2. LastOf(t) # "none"
          BY <3>1 DEF LastOf, StateOf
    <3>3. QED  BY <2>3, <3>1, <3>2 DEF NoRow
  <2>4. QED  BY <2>2, <2>3
<1>2. rows = {t \in ToSet(f) : events[t] # <<>>}
      BY <1>1
<1>3. QED  BY <1>1, <1>2 DEF Generated

LEMMA ReadsKeeps ==
    ASSUME GeneratorInv, NEW l \in Loop, ReadsMembers(l)
    PROVE  GeneratorInv'
<1> PICK f : f = loops[l].family
    OBVIOUS
<1> DEFINE rows == {t \in ToSet(f) : tasks[t] # NoRow}
<1>1. /\ loops[l].at = "read"
      /\ loops' = [loops EXCEPT ![l].at = "write", ![l].members = [t \in rows |-> tasks[t].state]]
      /\ UNCHANGED <<stage, database, todo, used, timers, events, tasks, summaries>>
      BY DEF ReadsMembers, Only, MayQuery, provider, tables
<1>2. LoopsInv /\ RowsInv
      BY DEF GeneratorInv
<1>3. loops[l] # Idle /\ Generates(loops[l])
      BY <1>1, <1>2, NotIdle, AtIts
<1>4. f \in used /\ f \in Families
      BY <1>2, <1>3 DEF Generates, RowsInv
<1>5. [t \in rows |-> tasks[t].state] = Generated(f)
      BY <1>2, <1>4, RowsOfFamily
<1>6. Generated(f)' = Generated(f)
      BY <1>1, GeneratedSame
<1> HIDE DEF rows
<1>7. loops' = [loops EXCEPT ![l].at = "write", ![l].members = Generated(f)]
      BY <1>1, <1>5
<1>8. DOMAIN loops = Loop /\ DOMAIN loops[l] = DOMAIN Idle
      BY <1>2 DEF LoopsInv, LoopOK
<1>9. /\ DOMAIN loops' = Loop /\ \A m \in Loop \ {l} : loops'[m] = loops[m]
      /\ DOMAIN loops'[l] = DOMAIN Idle /\ loops'[l].at = "write"
      /\ loops'[l].script = loops[l].script /\ loops'[l].family = f
      /\ loops'[l].members = Generated(f)
      BY <1>7, <1>8 DEF Idle
<1>10. Generates(loops[l])'
  <2>1. loops'[l].members = [t \in {u \in ToSet(loops'[l].family) : events'[u] # <<>>} |->
                                StateOf[Last(events'[t])]]
        BY <1>6, <1>9 DEF Generated, LastOf
  <2>2. QED  BY <1>1, <1>3, <1>4, <1>9, <2>1 DEF Generates, Coming, Generated, LastOf
<1>11. LoopOK(l)'
       BY <1>9, <1>10 DEF LoopOK
<1>12. RowsInv'
       BY <1>1, <1>2, RowsStay
<1>13. StagesInv'
       BY <1>1, <1>3, <1>9, StagesKept
<1>14. QED  BY <1>1, <1>9, <1>11, <1>12, <1>13, GeneratorStep

LEMMA ShorterScript ==
    ASSUME NEW E, NEW s \in Seq(E), s # <<>>, Len(s) # 1, SentFirst(s)
    PROVE  /\ Tail(s) \in Seq(E) /\ Tail(s) # <<>> /\ SentFirst(Tail(s))
           /\ \A k \in DOMAIN Tail(s) : Tail(s)[k] = s[k + 1] /\ k + 1 \in DOMAIN s /\ k + 1 > 1
<1> DEFINE u == Tail(s)
           n == Len(s)
<1>0. Len(s) \in Nat \ {0}
      BY EmptySeq, Zenon
<1>1. n \in Nat /\ n > 1 /\ DOMAIN s = 1..n
  <2>1. DOMAIN s = 1..Len(s)
        BY LenProperties, Zenon
  <2>2. QED  BY <1>0, <2>1
<1>2. u \in Seq(E) /\ Len(u) = n - 1 /\ \A k \in 1..n - 1 : u[k] = s[k + 1]
      BY <1>1
<1> HIDE DEF u, n
<1>3. u # <<>> /\ DOMAIN u = 1..n - 1
      BY <1>1, <1>2
<1>4. SentFirst(u)
  <2> SUFFICES ASSUME NEW k \in 1..n - 1, u[k].kind \in Early,
                      NEW j \in 1..k - 1, u[j].task = u[k].task
               PROVE  u[j].kind # "started"
      BY <1>3 DEF SentFirst
  <2>1. u[k] = s[k + 1] /\ u[j] = s[j + 1] /\ k + 1 \in DOMAIN s /\ j + 1 \in 1..(k + 1) - 1
        BY <1>1, <1>2
  <2>2. QED  BY <2>1 DEF SentFirst
<1>5. \A k \in 1..n - 1 : u[k] = s[k + 1] /\ k + 1 \in DOMAIN s /\ k + 1 > 1
      BY <1>1, <1>2
<1>6. QED  BY <1>2, <1>3, <1>4, <1>5 DEF u

LEMMA WritesKeeps ==
    ASSUME GeneratorInv, NEW l \in Loop, WritesWorkflow(l)
    PROVE  GeneratorInv'
<1> PICK f : f = loops[l].family
    OBVIOUS
<1> PICK s : s = loops[l].script
    OBVIOUS
<1>1. /\ loops[l].at = "write"
      /\ summaries' = [summaries EXCEPT ![f] = Aggregate(loops[l].members)]
      /\ UNCHANGED <<stage, database, todo, used, events, tasks>>
      BY DEF WritesWorkflow, Only, MayQuery, provider
<1>2. LoopsInv /\ RowsInv
      BY DEF GeneratorInv
<1>3. loops[l] # Idle /\ Generates(loops[l])
      BY <1>1, <1>2, NotIdle, AtIts
<1>4. /\ f \in used /\ f \in Families /\ loops[l].members = Generated(f) /\ f # <<>>
      /\ s \in Seq(EventsOf(f)) /\ s # <<>> /\ SentFirst(s)
      BY <1>1, <1>2, <1>3, FamilyIs DEF Generates, RowsInv
<1>5. /\ DOMAIN summaries = Families
      /\ DOMAIN summaries' = Families /\ summaries'[f] = Aggregate(Generated(f))
      /\ \A g \in Families : g # f => summaries'[g] = summaries[g]
      BY <1>1, <1>2, <1>4 DEF RowsInv
<1>6. Generated(f)' = Generated(f)
      BY <1>1, GeneratedSame
<1>7. SummedUp(f)'
  <2>1. summaries'[f] = Aggregate(Generated(f)')
        BY <1>5, <1>6
  <2>2. QED  BY <2>1 DEF SummedUp
<1>8. RowsInv'
      BY <1>1, <1>2, <1>5, RowsStay
<1>9. DOMAIN loops = Loop /\ DOMAIN loops[l] = DOMAIN Idle
      BY <1>2 DEF LoopsInv, LoopOK
<1>10. CASE Len(s) = 1
  <2>1. loops' = [loops EXCEPT ![l] = Idle] /\ timers' \in {timers, timers \cup {l}}
        BY <1>10 DEF WritesWorkflow, Only, Finishes
  <2>2. DOMAIN loops' = Loop /\ loops'[l] = Idle /\ \A m \in Loop \ {l} : loops'[m] = loops[m]
        BY <2>1, <1>9
  <2>3. LoopOK(l)' /\ loops'[l].family = <<>>
        BY <2>2, IsIdle
  <2>4. StagesInv'
        BY <1>1, <1>3, <2>1, <2>2, StagesKept
  <2>5. QED  BY <1>1, <1>5, <1>7, <1>8, <2>2, <2>3, <2>4, GeneratorStep
<1>11. CASE Len(s) # 1
  <2>1. /\ loops' = [loops EXCEPT ![l].at = "event", ![l].script = Tail(@), ![l].members = <<>>]
        /\ timers' = timers
        BY <1>11 DEF WritesWorkflow, Only
  <2>2. /\ DOMAIN loops' = Loop /\ \A m \in Loop \ {l} : loops'[m] = loops[m]
        /\ DOMAIN loops'[l] = DOMAIN Idle /\ loops'[l].at = "event"
        /\ loops'[l].script = Tail(s) /\ loops'[l].family = f
        BY <2>1, <1>9 DEF Idle
  <2>3. /\ Tail(s) \in Seq(EventsOf(f)) /\ Tail(s) # <<>> /\ SentFirst(Tail(s))
        /\ \A k \in DOMAIN Tail(s) : Tail(s)[k] = s[k + 1] /\ k + 1 \in DOMAIN s /\ k + 1 > 1
        BY <1>4, <1>11, ShorterScript
  <2> PICK u : u = Tail(s)
      OBVIOUS
  <2>4. ASSUME NEW k \in DOMAIN u, u[k].kind \in Early PROVE tasks'[u[k].task].state # "STARTED"
    <3>1. u[k] = s[k + 1] /\ k + 1 \in Coming(loops[l])
          BY <2>3 DEF Coming
    <3>2. tasks[s[k + 1].task].state # "STARTED"
          BY <1>3, <2>4, <3>1 DEF Generates
    <3>3. QED  BY <1>1, <3>1, <3>2
  <2>5. Generates(loops[l])'
        BY <1>1, <1>4, <2>2, <2>3, <2>4 DEF Generates, Coming
  <2>6. LoopOK(l)'
        BY <2>2, <2>5 DEF LoopOK
  <2>7. StagesInv'
        BY <1>1, <1>3, <2>1, <2>2, StagesKept
  <2>8. QED  BY <1>1, <1>5, <1>8, <2>2, <2>6, <2>7, GeneratorStep
<1>12. QED  BY <1>10, <1>11

LEMMA InspectsKeeps ==
    ASSUME GeneratorInv, NEW l \in Loop, Inspects(l) \/ Reports(l)
    PROVE  GeneratorInv'
<1>1. /\ loops[l].at \in {"inspect", "report"}
      /\ UNCHANGED <<stage, database, todo, used, timers, events, tasks, summaries>>
      BY DEF Inspects, Reports, Only, MayQuery, provider, tables
<1>2. LoopsInv /\ RowsInv
      BY DEF GeneratorInv
<1>3. loops[l] # Idle /\ Beats(loops[l])
      BY <1>1, <1>2, NotIdle, AtIts
<1>4. DOMAIN loops = Loop /\ DOMAIN loops[l] = DOMAIN Idle
      BY <1>2 DEF LoopsInv, LoopOK
<1>5. /\ DOMAIN loops' = Loop /\ \A m \in Loop \ {l} : loops'[m] = loops[m]
      /\ DOMAIN loops'[l] = DOMAIN Idle /\ loops'[l].at \in {"report", "mark"}
      /\ loops'[l].family = loops[l].family
  <2>1. CASE Inspects(l)
    <3> PICK seen : seen = StartedOn(WorkerNow(l))
        OBVIOUS
    <3>1. loops' = [loops EXCEPT ![l].at = "report", ![l].members = seen]
          BY <2>1 DEF Inspects, Only
    <3>2. QED  BY <3>1, <1>4 DEF Idle
  <2>2. CASE Reports(l)
        BY <2>2, <1>2, Placed DEF Reports, Only
  <2>3. QED  BY <2>1, <2>2
<1>6. LoopOK(l)' /\ loops'[l].family = <<>>
      BY <1>3, <1>5, IsBeating DEF Beats
<1>7. RowsInv'
      BY <1>1, <1>2, RowsStay
<1>8. StagesInv'
      BY <1>1, <1>3, <1>5, StagesKept
<1>9. QED  BY <1>1, <1>5, <1>6, <1>7, <1>8, GeneratorStep

LEMMA MarksKeeps ==
    ASSUME GeneratorInv, NEW l \in Loop, MarksActive(l)
    PROVE  GeneratorInv'
<1>1. /\ loops[l].at = "mark"
      /\ tasks' = [t \in Member |->
                    IF t \in Marked(l) THEN [tasks[t] EXCEPT !.active = TRUE] ELSE tasks[t]]
      /\ UNCHANGED <<stage, database, todo, used, events, summaries>>
      BY DEF MarksActive, Only, MayQuery, provider
<1>2. LoopsInv /\ RowsInv
      BY DEF GeneratorInv
<1>3. loops[l] # Idle /\ Beats(loops[l])
      BY <1>1, <1>2, NotIdle, AtIts
<1>4. DOMAIN loops = Loop /\ DOMAIN loops[l] = DOMAIN Idle
      BY <1>2 DEF LoopsInv, LoopOK
<1>5. /\ DOMAIN loops' = Loop /\ \A m \in Loop \ {l} : loops'[m] = loops[m]
      /\ LoopOK(l)' /\ loops'[l].family = <<>>
      /\ timers' = timers \/ (loops'[l] = Idle /\ timers' = timers \cup {l})
  <2>1. CASE loops[l].worker < Len(Workers) /\ Running
    <3>1. /\ loops' = [loops EXCEPT ![l].at = "inspect", ![l].members = <<>>, ![l].worker = @ + 1]
          /\ timers' = timers
          BY <2>1 DEF MarksActive, Only
    <3>2. /\ DOMAIN loops' = Loop /\ \A m \in Loop \ {l} : loops'[m] = loops[m]
          /\ DOMAIN loops'[l] = DOMAIN Idle /\ loops'[l].at = "inspect"
          /\ loops'[l].family = loops[l].family
          BY <3>1, <1>4 DEF Idle
    <3>3. LoopOK(l)' /\ loops'[l].family = <<>>
          BY <1>3, <3>2, IsBeating DEF Beats
    <3>4. QED  BY <3>1, <3>2, <3>3
  <2>2. CASE ~(loops[l].worker < Len(Workers) /\ Running)
    <3>1. loops' = [loops EXCEPT ![l] = Idle] /\ timers' \in {timers, timers \cup {l}}
          BY <2>2 DEF MarksActive, Only, Finishes
    <3>2. DOMAIN loops' = Loop /\ loops'[l] = Idle /\ \A m \in Loop \ {l} : loops'[m] = loops[m]
          BY <3>1, <1>4
    <3>3. QED  BY <3>1, <3>2, IsIdle
  <2>3. QED  BY <2>1, <2>2
<1>6. ASSUME NEW t \in Member PROVE RowOf(t)' /\ tasks'[t].state = tasks[t].state
  <2>1. RowOf(t) /\ events'[t] = events[t]
        BY <1>1, <1>2 DEF RowsInv
  <2>2. CASE tasks[t].state = "STARTED"
    <3>1. events[t] # <<>>
          BY <2>1, <2>2 DEF RowOf, NoRow
    <3>2. /\ DOMAIN tasks[t] = {"state", "active"} /\ tasks[t].state = LastOf(t)
          /\ tasks[t].active \in BOOLEAN
          BY <2>1, <3>1 DEF RowOf
    <3>3. /\ DOMAIN tasks'[t] = {"state", "active"} /\ tasks'[t].state = tasks[t].state
          /\ tasks'[t].active \in BOOLEAN
      <4>1. CASE t \in Marked(l)
        <5>1. tasks'[t] = [tasks[t] EXCEPT !.active = TRUE]
              BY <1>1, <4>1
        <5>2. tasks'[t].active = TRUE /\ tasks'[t].state = tasks[t].state
              BY <3>2, <5>1
        <5>3. DOMAIN tasks'[t] = {"state", "active"}
              BY <3>2, <5>1
        <5>4. QED  BY <5>2, <5>3
      <4>2. CASE t \notin Marked(l)
            BY <1>1, <3>2, <4>2
      <4>3. QED  BY <4>1, <4>2
    <3>4. QED  BY <2>1, <2>2, <3>1, <3>2, <3>3 DEF RowOf, LastOf
  <2>3. CASE tasks[t].state # "STARTED"
    <3>1. t \notin Marked(l)
          BY <2>3 DEF Marked, StartedOn
    <3>2. tasks'[t] = tasks[t]
          BY <1>1, <3>1
    <3>3. QED  BY <2>1, <3>2 DEF RowOf, LastOf
  <2>4. QED  BY <2>2, <2>3
<1>7. RowsInv'
      BY <1>1, <1>2, <1>6 DEF RowsInv
<1>8. StagesInv'
      BY <1>1, <1>3, <1>5, StagesKept
<1>9. loops[l].family = <<>>
      BY <1>3 DEF Beats
<1>10. QED  BY <1>1, <1>5, <1>6, <1>7, <1>8, <1>9, GeneratorStep

LEMMA RejectedKeeps ==
    ASSUME GeneratorInv, NEW l \in Loop, QueryRejected(l)
    PROVE  GeneratorInv'
<1>1. /\ loops[l] # Idle /\ database = "closed"
      /\ loops' = [loops EXCEPT ![l] = Idle] /\ timers' \in {timers, timers \cup {l}}
      /\ todo' \in {todo, <<>>}
      /\ UNCHANGED <<stage, database, used, events, tasks, summaries>>
      BY DEF QueryRejected, Finishes, provider, tables
<1>2. LoopsInv /\ RowsInv
      BY DEF GeneratorInv
<1>3. DOMAIN loops = Loop /\ DOMAIN loops[l] = DOMAIN Idle
      BY <1>2 DEF LoopsInv, LoopOK
<1>4. DOMAIN loops' = Loop /\ loops'[l] = Idle /\ \A m \in Loop \ {l} : loops'[m] = loops[m]
      BY <1>1, <1>3
<1>5. LoopOK(l)' /\ loops'[l].family = <<>>
      BY <1>4, IsIdle
<1>6. RowsInv'
      BY <1>1, <1>2, RowsStay
<1>7. StagesInv'
      BY <1>1, <1>4, StagesKept
<1>8. QED  BY <1>1, <1>4, <1>5, <1>6, <1>7, GeneratorStep

LEMMA BeginsKeeps ==
    ASSUME GeneratorInv, NEW l \in Loop, NEW piece \in {"workflow", "single", "partial"},
           loops[l] = Idle, stage = "ready", Begins(l, piece), StagesInv',
           UNCHANGED <<database, events, tasks, summaries>>
    PROVE  GeneratorInv'
<1>0. PICK f \in Families \ used : \E s \in ScriptsOf(piece, f) :
            /\ used' = used \cup {f}
            /\ loops' = [loops EXCEPT ![l] = [Idle EXCEPT !.at = "event", !.script = s, !.family = f]]
      BY DEF Begins
<1>1. PICK s \in ScriptsOf(piece, f) :
            /\ used' = used \cup {f}
            /\ loops' = [loops EXCEPT ![l] = [Idle EXCEPT !.at = "event", !.script = s, !.family = f]]
      BY <1>0
<1>2. LoopsInv /\ RowsInv
      BY DEF GeneratorInv
<1>3. DOMAIN loops = Loop
      BY <1>2 DEF LoopsInv
<1>4. /\ DOMAIN loops' = Loop /\ \A m \in Loop \ {l} : loops'[m] = loops[m]
      /\ DOMAIN loops'[l] = DOMAIN Idle /\ loops'[l].at = "event"
      /\ loops'[l].script = s /\ loops'[l].family = f
      BY <1>1, <1>3 DEF Idle
<1>5. s \in Seq(EventsOf(f)) /\ s # <<>> /\ SentFirst(s)
      BY ScriptsAre, Zenon
<1>6. ASSUME NEW k \in DOMAIN s PROVE tasks'[s[k].task].state # "STARTED"
  <2>1. s[k].task \in ToSet(f)
    <3> DEFINE E == EventsOf(f)
    <3>1. s \in Seq(E)
          BY <1>5
    <3> HIDE DEF E
    <3>2. s[k] \in E
          BY <3>1
    <3>3. QED  BY <3>2 DEF E, EventsOf
  <2>2. s[k].task \in Member /\ events[s[k].task] = <<>>
        BY <1>2, <2>1, FamilyIs DEF RowsInv
  <2>3. tasks[s[k].task] = NoRow
        BY <1>2, <2>2 DEF RowsInv, RowOf
  <2>4. QED  BY <2>3 DEF NoRow
<1>7. Generates(loops[l])'
      BY <1>1, <1>4, <1>5, <1>6 DEF Generates, Coming
<1>8. LoopOK(l)'
      BY <1>4, <1>7 DEF LoopOK
<1>9. RowsInv'
  <2>1. ASSUME NEW t \in Member PROVE RowOf(t)'
    <3>1. RowOf(t)
          BY <1>2 DEF RowsInv
    <3>2. QED  BY <3>1 DEF RowOf, LastOf
  <2>2. QED  BY <1>1, <1>2, <2>1 DEF RowsInv
<1>10. loops[l].family = <<>> /\ <<>> \notin used
  <2>1. \A g \in Families : g # <<>>
        BY FamilyIs
  <2>2. QED  BY <1>2, <2>1 DEF Idle, RowsInv
<1>11. loops'[l].family \notin used /\ used \subseteq used' /\ used' \subseteq used \cup {loops'[l].family}
       BY <1>1, <1>4
<1>12. QED  BY <1>4, <1>8, <1>9, <1>10, <1>11, GeneratorStep

LEMMA BeatsKeeps ==
    ASSUME GeneratorInv, NEW l \in {"seed", "beat"}, loops[l] = Idle, stage = "ready",
           loops' = [loops EXCEPT ![l] = [Idle EXCEPT !.at = "inspect", !.worker = 1]],
           todo = <<>> => todo' = <<>>,
           UNCHANGED <<stage, database, timers, used, events, tasks, summaries>>
    PROVE  GeneratorInv'
<1>1. LoopsInv /\ RowsInv /\ l \in Loop
      BY DEF GeneratorInv, Loop
<1>2. DOMAIN loops = Loop
      BY <1>1 DEF LoopsInv
<1>3. /\ DOMAIN loops' = Loop /\ \A m \in Loop \ {l} : loops'[m] = loops[m]
      /\ DOMAIN loops'[l] = DOMAIN Idle /\ loops'[l].at = "inspect" /\ loops'[l].family = <<>>
      BY <1>1, <1>2 DEF Idle
<1>4. LoopOK(l)'
      BY <1>1, <1>3, IsBeating
<1>5. RowsInv'
      BY <1>1, RowsStay
<1>6. StagesInv'
      BY <1>3 DEF GeneratorInv, StagesInv, Loop
<1>7. loops[l].family = <<>>
      BY DEF Idle
<1>8. QED  BY <1>1, <1>3, <1>4, <1>5, <1>6, <1>7, GeneratorStep

(* What leaves the loops and the tables alone.                               *)
LEMMA LoopsStay ==
    ASSUME GeneratorInv, StagesInv', UNCHANGED <<loops, used, events, tasks, summaries>>,
           database' = "open" => database = "open" \/ used = {}
    PROVE  GeneratorInv'
<1>1. LoopsInv /\ RowsInv
      BY DEF GeneratorInv
<1>2. RowsInv'
      BY <1>1, RowsStay
<1>3. LoopsInv'
  <2>1. ASSUME NEW l \in Loop PROVE LoopOK(l)'
        BY <1>1, LoopStays DEF LoopsInv
  <2>2. QED  BY <1>1, <2>1 DEF LoopsInv
<1>4. ASSUME database' = "open", NEW g \in used', Rests(g)' PROVE SummedUp(g)'
  <2>1. Rests(g) /\ g \in used /\ database = "open"
        BY <1>4 DEF Rests
  <2>2. SummedUp(g)
        BY <2>1 DEF GeneratorInv
  <2>3. QED  BY <2>2, StaysSummedUp
<1>5. QED  BY <1>2, <1>3, <1>4 DEF GeneratorInv

LEMMA GeneratorStepIs == GeneratorInv /\ [DemoNext]_demoVars => GeneratorInv'
<1> SUFFICES ASSUME GeneratorInv, [DemoNext]_demoVars PROVE GeneratorInv'
    OBVIOUS
<1>1. StagesInv /\ LoopsInv /\ RowsInv
      BY DEF GeneratorInv
<1>2. CASE Downloads
  <2>1. StagesInv'
        BY <1>1, <1>2 DEF Downloads, StagesInv, tables
  <2>2. QED  BY <1>2, <2>1, LoopsStay DEF Downloads, tables
<1>3. CASE OpensDatabase
  <2>1. StagesInv' /\ used = {}
        BY <1>1, <1>3 DEF OpensDatabase, StagesInv, tables
  <2>2. QED  BY <1>3, <2>1, LoopsStay DEF OpensDatabase, tables
<1>4. CASE Defines
  <2>1. StagesInv' /\ used = {}
        BY <1>1, <1>4 DEF Defines, StagesInv, tables, Loop
  <2>2. QED  BY <1>4, <2>1, LoopsStay DEF Defines, tables
<1>5. CASE Unmounts
  <2>1. StagesInv'
        BY <1>1, <1>5 DEF Unmounts, StagesInv, tables
  <2>2. database' = "open" => database = "open"
        BY <1>5 DEF Unmounts
  <2>3. QED  BY <1>5, <2>1, <2>2, LoopsStay DEF Unmounts, tables
<1>6. CASE SeedsWorkers
  <2>1. StagesInv'
        BY <1>1, <1>6 DEF SeedsWorkers, StagesInv, provider
  <2>2. QED  BY <1>6, <2>1, LoopsStay DEF SeedsWorkers, provider
<1>7. CASE ArmsTimers
  <2>1. StagesInv'
        BY <1>1, <1>7 DEF ArmsTimers, StagesInv, provider
  <2>2. QED  BY <1>7, <2>1, LoopsStay DEF ArmsTimers, provider, tables
<1>8. CASE Seeds
  <2>1. stage = "ready" /\ stage' = "ready"
        BY <1>1, <1>8 DEF Seeds, StagesInv, provider
  <2>2. CASE Running
    <3>1. StagesInv'
      <4>1. todo # <<>> /\ Begins("seed", Head(todo)) /\ UNCHANGED <<stage, timers, database>>
            BY <1>8, <2>2 DEF Seeds, provider
      <4>2. ASSUME NEW m \in {"single", "workflow"} PROVE loops'[m] = loops[m]
            BY <1>1, <4>1 DEF Begins, LoopsInv, Loop
      <4>3. QED  BY <1>1, <2>1, <4>1, <4>2 DEF StagesInv
    <3>2. QED  BY <1>8, <2>1, <2>2, <3>1, BeginsKeeps DEF Seeds, provider, tables, Loop
  <2>3. CASE ~Running
    <3>1. StagesInv'
          BY <1>1, <1>8, <2>1, <2>3 DEF Seeds, StagesInv, provider
    <3>2. QED  BY <1>8, <2>3, <3>1, LoopsStay DEF Seeds, provider, tables
  <2>4. QED  BY <2>2, <2>3
<1>9. CASE SeedsBeat
  <2>1. stage = "ready" /\ todo # <<>>
        BY <1>1, <1>9 DEF SeedsBeat, StagesInv
  <2>2. CASE Running
        BY <1>9, <2>1, <2>2, BeatsKeeps DEF SeedsBeat, provider, tables
  <2>3. CASE ~Running
    <3>1. StagesInv'
          BY <1>1, <1>9, <2>1, <2>3 DEF SeedsBeat, StagesInv, provider
    <3>2. QED  BY <1>9, <2>3, <3>1, LoopsStay DEF SeedsBeat, provider, tables
  <2>4. QED  BY <2>2, <2>3
<1>10. CASE BeatFires
  <2>1. stage = "ready"
        BY <1>1, <1>10 DEF BeatFires, StagesInv
  <2>2. QED  BY <1>10, <2>1, BeatsKeeps DEF BeatFires, provider, tables
<1>11. ASSUME NEW l \in Loop, TimeoutFires(l) PROVE GeneratorInv'
  <2>1. stage = "ready" /\ loops[l] = Idle /\ l \in {"single", "workflow"} /\ todo = <<>>
        BY <1>1, <1>11 DEF TimeoutFires, StagesInv
  <2>2. StagesInv'
        BY <1>1, <1>11, <2>1 DEF TimeoutFires, StagesInv, provider, Begins, LoopsInv
  <2>3. QED  BY <1>11, <2>1, <2>2, BeginsKeeps DEF TimeoutFires, provider, tables
<1>12. ASSUME NEW l \in Loop, Steps(l) PROVE GeneratorInv'
       BY <1>12, InsertsEventKeeps, TouchesKeeps, ReadsKeeps, WritesKeeps, InspectsKeeps,
          MarksKeeps, RejectedKeeps DEF Steps
<1>13. CASE UNCHANGED demoVars
  <2>1. StagesInv'
        BY <1>1, <1>13 DEF demoVars, provider, tables, StagesInv
  <2>2. QED  BY <1>13, <2>1, LoopsStay DEF demoVars, provider, tables
<1>14. QED  BY <1>2, <1>3, <1>4, <1>5, <1>6, <1>7, <1>8, <1>9, <1>10, <1>11, <1>12, <1>13
            DEF DemoNext, Starts, SeedsNext

(* Whatever the loops of the demo interleave, a task is in execution only    *)
(* when it has started, and a family that has been generated has the rows    *)
(* and the summary that its events add up to.                                *)
THEOREM DemoAddsUp == DemoSpec => []DemoAgrees
<1>1. GeneratorInv => DemoAgrees
  <2> SUFFICES ASSUME GeneratorInv PROVE DemoAgrees
      OBVIOUS
  <2>1. ASSUME NEW t \in Member
        PROVE  /\ tasks[t].active => tasks[t].state = "STARTED"
               /\ events[t] # <<>> => tasks[t].state = StateOf[Last(events[t])]
    <3>1. RowOf(t)
          BY DEF GeneratorInv, RowsInv
    <3>2. CASE events[t] = <<>>
      <4>1. tasks[t] = NoRow
            BY <3>1, <3>2 DEF RowOf
      <4>2. tasks[t].active = FALSE
            BY <4>1 DEF NoRow
      <4>3. QED  BY <3>2, <4>2
    <3>3. CASE events[t] # <<>>
          BY <3>1, <3>3 DEF RowOf, LastOf
    <3>4. QED  BY <3>2, <3>3
  <2>2. ASSUME database = "open", NEW f \in used, Rests(f)
        PROVE  /\ LET begun == {t \in ToSet(f) : events[t] # <<>>}
                  IN  summaries[f] = Aggregate([t \in begun |-> StateOf[Last(events[t])]])
               /\ ToSet(f) \subseteq Member
    <3>1. SummedUp(f) /\ f \in Families
          BY <2>2 DEF GeneratorInv, RowsInv
    <3>2. QED  BY <3>1, FamilyIs DEF SummedUp, Generated, LastOf
  <2>3. QED  BY <2>1, <2>2 DEF DemoAgrees
<1>2. QED  BY <1>1, InitGenerator, GeneratorStepIs, PTL DEF DemoSpec
=============================================================================
