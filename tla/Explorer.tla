------------------------------- MODULE Explorer -------------------------------
(* The explorer's chart and the parameters its user sets                     *)
(* (src/routes/explorer.tsx, src/components/explorer/                        *)
(* explorer-activity-chart.tsx, explorer-results-table.tsx,                  *)
(* filter-section.tsx, src/lib/time-range-utils.ts).  The server counts rows *)
(* by a grain of time and names each grain as a clock in UTC shows it,       *)
(* without saying so; the browser takes that for its own time.  The chart    *)
(* gathers the answer into buckets of its own between bounds it was given    *)
(* when the URL last changed, and a selection with the pointer becomes the   *)
(* range of the URL.                                                         *)
EXTENDS Integers, FiniteSets, Sequences

CONSTANTS
    Horizon,            \* bound on the time
    Hour,               \* the default range: what was updated so long ago or later
    Buckets,            \* BUCKET_COUNT
    Grains,             \* getTimeRangeBucketDuration: <<up to this length, grain>>, by length
    RowsOf,             \* [mode |-> rows]
    ValueOf,            \* of each row: what it is filtered by
    Columns,            \* [mode |-> columns], of which some can be sorted by
    Sortable,
    DefaultColumns,     \* [mode |-> columns]
    Zones,              \* by how much clocks of browsers may be ahead of UTC
    Pickable,           \* ranges, other than the default, that the picker may give
    MaxActs             \* bound on what the user does

ASSUME ExplorerAssumption ==
    /\ {Horizon, Hour, MaxActs} \subseteq Nat /\ Buckets \in Nat \ {0} /\ Hour > 0
    /\ Grains # <<>> /\ Grains \in Seq(Nat \X (Nat \ {0}))
    /\ \A i, j \in DOMAIN Grains : i < j => Grains[i][1] < Grains[j][1]
    /\ Zones \subseteq Int /\ Zones # {}
    /\ Pickable \subseteq {b \in [from : Int, to : Int] : b.from < b.to}
    /\ \A m \in DOMAIN RowsOf : /\ "last_updated" \in Columns[m] \cap Sortable
                               /\ DefaultColumns[m] \subseteq Columns[m]

VARIABLES
    clock,
    zone,               \* by how much the clock of this browser is ahead of UTC
    changed,            \* last_updated of each row
    search,             \* the URL: [mode, range, sort, ascending, selected, columns]
    bounds,             \* rangeBindings, of the last change of the range
    refreshing,         \* isFetching
    histogram,          \* the answer: rows, with the grain each was counted in
    facet,              \* the answer: how many rows of each value
    drag,               \* dragStartIndex and dragCurrentIndex
    acts

explorerPageVars == <<clock, zone, changed, search, bounds, refreshing, histogram, facet, drag, acts>>

Modes == DOMAIN RowsOf
ChartRows == UNION {RowsOf[m] : m \in Modes}
LastHour == [live |-> TRUE, from |-> 0, to |-> 0]
Static(from, to) == [live |-> FALSE, from |-> from, to |-> to]
NoDrag == <<>>

Smaller(x, y) == IF x <= y THEN x ELSE y
Larger(x, y) == IF x >= y THEN x ELSE y

-----------------------------------------------------------------------------
(* resolveTimeRangeBindings: a live range ends now.                          *)
Resolved(range) ==
    IF range.live THEN [from |-> clock - Hour, to |-> clock]
    ELSE [from |-> range.from, to |-> range.to]

Span(b) == b.to - b.from

GrainOf(b) ==
    LET fits == {i \in DOMAIN Grains : Span(b) <= Grains[i][1]}
    IN  IF fits = {} THEN Grains[Len(Grains)][2]
        ELSE Grains[CHOOSE i \in fits : \A j \in fits : i <= j][2]

(* What the query counts: what passes the filter, by the start of its grain, *)
(* which time::format writes as UTC has it, without a zone.                  *)
Counted(b) ==
    {[row |-> r, at |-> (changed[r] \div GrainOf(b)) * GrainOf(b)] :
        r \in {x \in RowsOf[search.mode] :
                 /\ changed[x] \in b.from..b.to
                 /\ search.selected # {} => ValueOf[x] \in search.selected}}

(* new Date(row.bucket): a time without a zone is taken for local time.      *)
ReadAsLocal(at) == at - zone

(* buildChartData: a bucket is no shorter than the unit of time, so that the *)
(* last of a short range are empty; buckets begin and end at whole units     *)
(* once they become a URL.                                                   *)
Scaled == Span(bounds) >= Buckets
BucketStart(i) == bounds.from + IF Scaled THEN (i * Span(bounds)) \div Buckets ELSE i
BucketEnd(i) == Smaller(BucketStart(i + 1), bounds.to)

(* Mutant: what begins before the range is not moved into it. *)
BucketOfUnclamped(at) ==
    LET into == Smaller(at - bounds.from, Larger(Span(bounds) - 1, 0))
    IN  Smaller(IF Scaled THEN (into * Buckets) \div Span(bounds) ELSE into, Buckets - 1)

BucketOf(at) ==
    LET into == Smaller(Larger(at - bounds.from, 0), Larger(Span(bounds) - 1, 0))
    IN  Smaller(IF Scaled THEN (into * Buckets) \div Span(bounds) ELSE into, Buckets - 1)

(* The bucket of the chart that is given what was counted in a grain.        *)
DrawnIn(p) == BucketOf(ReadAsLocal(p.at))

HasChart == Span(bounds) > 0
Overlay == ~refreshing /\ HasChart /\ histogram # {}

-----------------------------------------------------------------------------
ExplorerInit ==
    /\ clock = Hour + 1 /\ zone \in Zones /\ changed = [r \in ChartRows |-> 1]
    /\ \E m \in Modes :
          search = [mode |-> m, range |-> LastHour, sort |-> "last_updated", ascending |-> FALSE,
                    selected |-> {}, columns |-> [x \in Modes |-> {}]]
    /\ bounds = Resolved(LastHour) /\ refreshing = TRUE
    /\ histogram = {} /\ facet = [v \in {} |-> 0] /\ drag = NoDrag /\ acts = 0

Acts == acts < MaxActs /\ acts' = acts + 1
World == <<clock, zone, changed>>
Answer == <<histogram, facet>>

(* A new key is asked for.                                                   *)
Asks(s) == search' = s /\ refreshing' = TRUE

Ages == /\ clock < Horizon /\ clock' = clock + 1
        /\ UNCHANGED <<zone, changed, search, bounds, refreshing, histogram, facet, drag, acts>>

Touches(r) ==
    /\ changed[r] # clock /\ changed' = [changed EXCEPT ![r] = clock]
    /\ UNCHANGED <<clock, zone, search, bounds, refreshing, histogram, facet, drag, acts>>

(* refetchInterval: ranges that end now are asked for again.                 *)
LiveRefetch ==
    /\ ~refreshing /\ search.range.live /\ refreshing' = TRUE
    /\ UNCHANGED <<World, search, bounds, Answer, drag, acts>>

Replies ==
    /\ refreshing /\ refreshing' = FALSE
    /\ LET now == Counted(Resolved(search.range))
       IN  /\ histogram' = now
           /\ facet' = [v \in {ValueOf[p.row] : p \in now} |->
                            Cardinality({p \in now : ValueOf[p.row] = v})]
    /\ UNCHANGED <<World, search, bounds, drag, acts>>

(* The buttons of the mode: the sort is that of the new mode.                *)
SwitchesMode(m) ==
    /\ Acts /\ Asks([search EXCEPT !.mode = m, !.sort = "last_updated", !.ascending = FALSE])
    /\ UNCHANGED <<World, bounds, Answer, drag>>

(* AppTimeRangePicker, which may also be cleared: that is the default.       *)
PicksRange ==
    /\ Acts
    /\ \E range \in {LastHour} \cup {Static(b.from, b.to) : b \in Pickable} :
         range # search.range /\ Asks([search EXCEPT !.range = range]) /\ bounds' = Resolved(range)
    /\ UNCHANGED <<World, Answer, drag>>

(* FilterSection lists the values of the answer, of which a click takes one  *)
(* or gives it up.                                                           *)
TogglesValue(v) ==
    /\ Acts /\ v \in DOMAIN facet
    /\ Asks([search EXCEPT !.selected = IF v \in @ THEN @ \ {v} ELSE @ \cup {v}])
    /\ UNCHANGED <<World, bounds, Answer, drag>>

ClearsValues ==
    /\ Acts /\ search.selected # {} /\ Asks([search EXCEPT !.selected = {}])
    /\ UNCHANGED <<World, bounds, Answer, drag>>

(* No columns in the URL are the default columns.                            *)
VisibleColumns ==
    IF search.columns[search.mode] = {} THEN DefaultColumns[search.mode] ELSE search.columns[search.mode]

TogglesColumn(c) ==
    /\ Acts /\ c \in Columns[search.mode]
    /\ search' = [search EXCEPT !.columns[search.mode] =
                     IF c \in VisibleColumns THEN VisibleColumns \ {c} ELSE VisibleColumns \cup {c}]
    /\ UNCHANGED <<World, bounds, refreshing, Answer, drag>>

SortsBy(c) ==
    /\ Acts /\ c \in VisibleColumns \cap Sortable
    /\ Asks([search EXCEPT !.sort = c, !.ascending = ~(search.sort = c /\ search.ascending)])
    /\ UNCHANGED <<World, bounds, Answer, drag>>

(* The pointer, over buckets as they are now.  The overlay is gone while an  *)
(* answer is awaited, and with it the end of a drag: it goes on when the     *)
(* overlay is back.                                                          *)
Presses(i) ==
    /\ Acts /\ Overlay /\ drag = NoDrag /\ drag' = <<i, i>>
    /\ UNCHANGED <<World, search, bounds, refreshing, Answer>>

Drags(i) ==
    /\ Overlay /\ drag # NoDrag /\ drag[2] # i /\ drag' = <<drag[1], i>>
    /\ UNCHANGED <<World, search, bounds, refreshing, Answer, acts>>

(* commitSelection: nothing comes of buckets behind the end of the range.    *)
Commits(i) ==
    /\ Overlay /\ drag # NoDrag /\ drag' = NoDrag
    /\ LET from == BucketStart(Smaller(drag[1], i))
           to == BucketEnd(Larger(drag[1], i))
       IN  IF from < to
           THEN Asks([search EXCEPT !.range = Static(from, to)]) /\ bounds' = [from |-> from, to |-> to]
           ELSE UNCHANGED <<search, refreshing, bounds>>
    /\ UNCHANGED <<World, Answer, acts>>

ExplorerNext ==
    \/ Ages \/ LiveRefetch \/ Replies \/ PicksRange \/ ClearsValues
    \/ \E r \in ChartRows : Touches(r)
    \/ \E m \in Modes \ {search.mode} : SwitchesMode(m)
    \/ \E v \in DOMAIN facet : TogglesValue(v)
    \/ \E c \in Columns[search.mode] : TogglesColumn(c) \/ SortsBy(c)
    \/ \E i \in 0..(Buckets - 1) : Presses(i) \/ Drags(i) \/ Commits(i)

ExplorerSpec == ExplorerInit /\ [][ExplorerNext]_explorerPageVars

-----------------------------------------------------------------------------
(* The chart draws each row that is counted, in one bucket: that of the      *)
(* moment its grain is taken for, or of the end of the chart nearest to it,  *)
(* which those of a live range fall behind.  That is the moment the server   *)
(* meant where the clock is that of UTC; elsewhere all of it is as far off   *)
(* as the clock is ahead, and what is moved over an end is piled up there.   *)
(* It is sorted by what can be sorted by; and a selection is a part of what  *)
(* is drawn, never empty and never more (buildChartData, commitSelection,    *)
(* ExplorerPage).                                                            *)
ChartDrawsWhatIsCounted ==
    /\ [](/\ Overlay => \A p \in histogram :
                LET at == p.at - zone
                    i == DrawnIn(p)
                IN  /\ i \in 0..(Buckets - 1)
                    /\ IF at >= bounds.from THEN at >= BucketStart(i) ELSE i = 0
                    /\ \/ at <= BucketEnd(i)
                       \/ at > bounds.to /\ i = BucketOf(bounds.to)
          /\ search.sort \in Columns[search.mode] \cap Sortable)
    /\ [][drag # NoDrag /\ drag' = NoDrag /\ bounds' # bounds =>
             /\ bounds'.from \in bounds.from..bounds.to /\ bounds'.to \in bounds.from..bounds.to
             /\ bounds'.from < bounds'.to]_explorerPageVars
=============================================================================
