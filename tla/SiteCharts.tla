----------------------------- MODULE SiteCharts -----------------------------
(***************************************************************************)
(* The charts of site-src: LineChart.tsx, as the section Load of           *)
(* Results.tsx mounts it with one metric of lib/series.ts at a time (its   *)
(* axis is lib/format.ts's niceTicks), StallChart of Cpu.tsx and the table *)
(* Ablation of Results.tsx, whose rows open.                               *)
(*                                                                         *)
(* Abstractions: a measurement is a natural number with its largest seed;  *)
(* ticks are in thousandths; a plot is IW by IH units, and a logarithm is  *)
(* taken to whole decades.  Colours, dashes, whiskers, whose lower end is  *)
(* never above the median, and wording are left out.                       *)
(***************************************************************************)
EXTENDS Integers, SequencesExt, Orders

CONSTANTS
    Metrics, LogMetrics,  \* the keys of LOAD_META, and those with `log`
    Systems,              \* the series, 1..n in the order of SYSTEMS
    Rates,                \* data.load.rates
    Loads,                \* the data a run explores: [Metrics -> [Systems -> Seq]]
    Stalls,               \* pairs of series for StallChart: sequences of <<t, gap>>
    RowsOf,               \* data.ablation: the rows of each workload
    IW, IH                \* size of the plot

Null == [y |-> 0, max |-> 0]   \* a metric that is null, or a rate not run
MaxFigure == 360               \* bound: what the magnitudes of NiceTicks are enough for

(* The figures are positive.  build_site.py sorts the windows of a stall    *)
(* series; a window is there only if a gap was seen in it.                  *)
ASSUME ChartsAssumption ==
    /\ "goodput" \in Metrics /\ LogMetrics \subseteq Metrics
    /\ IsFiniteSet(Systems) /\ Systems \subseteq Nat
    /\ "A" \in DOMAIN RowsOf
    /\ Rates \in Seq(Nat) /\ Len(Rates) > 1
    /\ \A i, j \in DOMAIN Rates : i < j => Rates[i] < Rates[j]
    /\ {IW, IH} \subseteq Nat \ {0}
    /\ Loads \subseteq [Metrics -> [Systems -> [DOMAIN Rates -> [y : Nat, max : 0..MaxFigure]]]]
    /\ \A d \in Loads, m \in Metrics :
         /\ \E s \in Systems, i \in DOMAIN Rates : d[m][s][i] # Null
         /\ \A s \in Systems, i \in DOMAIN Rates :
              d[m][s][i] # Null => 0 < d[m][s][i].y /\ d[m][s][i].y <= d[m][s][i].max
    /\ \A p \in Stalls : \A k \in 1..2 :
         /\ p[k] \in Seq(Nat \X (1..MaxFigure)) /\ p[k] # <<>>
         /\ \A i, j \in DOMAIN p[k] : i < j => p[k][i][1] < p[k][j][1]

VARIABLES
    load, stall,    \* data.load and data.stall
    metric,         \* Load's
    active,         \* LineChart's: 0 for null, else the place in xs
    asTable,
    narrow,         \* w < 620, from useWidth
    hoverStall,     \* StallChart's hover: {} for null
    wl, opened      \* Ablation's wl and open: {} for null

chartVars == <<load, stall, metric, active, asTable, narrow, hoverStall, wl, opened>>

-----------------------------------------------------------------------------
(* lib/series.ts and lib/format.ts.                                         *)
Least(S) == CHOOSE x \in S : \A y \in S : x <= y
Greatest(S) == CHOOSE x \in S : \A y \in S : x >= y

(* loadSeries: the points of a system, its null metrics dropped.            *)
PointsByPlace(m, s) ==    \* mutant: the rates of the values before a gap
    LET kept == SelectSeq(load[m][s], LAMBDA v : v # Null)
    IN  [k \in DOMAIN kept |-> [x |-> Rates[k], y |-> kept[k].y, max |-> kept[k].max]]
Points(m, s) ==
    LET at == Ascending({i \in DOMAIN Rates : load[m][s][i] # Null})
    IN  [k \in DOMAIN at |-> [x |-> Rates[at[k]], y |-> load[m][s][at[k]].y,
                              max |-> load[m][s][at[k]].max]]

MAGNITUDES == {1, 10, 100, 1000, 10000}

(* niceTicks: multiples of a round step up to the first that covers max.    *)
NiceTicksBelow(max, count) ==    \* mutant: stops before the tick that covers max
    LET mag == Greatest({p \in MAGNITUDES : p * count <= max})
        step == Least({s \in {mag, 2 * mag, (5 * mag) \div 2, 5 * mag, 10 * mag} : s * count >= max})
    IN  [i \in 1..(1 + max \div step) |-> (i - 1) * step]
NiceTicks(max, count) ==
    LET mag == Greatest({p \in MAGNITUDES : p * count <= max})
        step == Least({s \in {mag, 2 * mag, (5 * mag) \div 2, 5 * mag, 10 * mag} : s * count >= max})
    IN  [i \in 1..(1 + (max + step - 1) \div step) |-> (i - 1) * step]

-----------------------------------------------------------------------------
(* LineChart: its axis, its places and its labels.                          *)
DMax(m) == 1080 * Greatest(UNION {{p.max : p \in ToSet(Points(m, s))} : s \in Systems})

LogTicks == <<100, 1000, 10000, 100000>>
Ticks(m) == IF m \in LogMetrics
            THEN AtPlaces(LogTicks, {i \in DOMAIN LogTicks : 2 * LogTicks[i] <= 3 * DMax(m)})
            ELSE NiceTicks(DMax(m), 5)
Top(m) == Greatest(ToSet(Ticks(m)))

X(x) == ((x - Rates[1]) * IW) \div (Last(Rates) - Rates[1])
DECADES == {10, 100, 1000, 10000, 100000}
Decades(v) == Cardinality({d \in DECADES : v >= d})
Y(m, y) == IF m \in LogMetrics THEN IH - (Decades(1000 * y) * IH) \div Decades(Top(m))
           ELSE IH - (1000 * y * IH) \div Top(m)

(* move: the first of the nearest places.                                   *)
Distance(a, b) == IF a < b THEN b - a ELSE a - b
Nearest(px) ==
    Least({i \in DOMAIN Rates : \A j \in DOMAIN Rates :
                                   Distance(X(Rates[i]), px) <= Distance(X(Rates[j]), px)})

(* The labels at the lines' ends, from the top down; one that is less than  *)
(* 15 below the label before it at the same place is pushed down.           *)
GAP == 15
Ends(m) ==
    LET last(s) == Last(Points(m, s))
        above == {st \in Systems \X Systems :
                     \/ Y(m, last(st[1]).y) < Y(m, last(st[2]).y)
                     \/ Y(m, last(st[1]).y) = Y(m, last(st[2]).y) /\ st[1] < st[2]}
        order == InOrder({s \in Systems : Points(m, s) # <<>>}, above)
    IN  [k \in DOMAIN order |-> [series |-> order[k], x |-> X(last(order[k]).x),
                                 y |-> Y(m, last(order[k]).y)]]
NudgedFromOwn(placed, b) ==    \* mutant: pushed down from its own place
    IF placed # <<>> /\ Last(placed).x = b.x /\ b.y - Last(placed).y < GAP
    THEN [b EXCEPT !.y = @ + GAP] ELSE b
Nudged(placed, b) ==
    IF placed # <<>> /\ Last(placed).x = b.x /\ b.y - Last(placed).y < GAP
    THEN [b EXCEPT !.y = Last(placed).y + GAP] ELSE b
Labels(m) == IF narrow THEN <<>>
             ELSE FoldLeft(LAMBDA placed, b : Append(placed, Nudged(placed, b)), <<>>, Ends(m))

(* The readout under the chart: for each series its point at the crosshair, *)
(* or Null, "not run".  The view as a table has a row of them for each rate.*)
Figure(m, s, x) ==
    LET here == {p \in ToSet(Points(m, s)) : p.x = x}
    IN  IF here = {} THEN Null ELSE LET p == CHOOSE p \in here : TRUE
                                    IN  [y |-> p.y, max |-> p.max]
Readout(m) == [s \in Systems |-> Figure(m, s, Rates[active])]
Table_(m) == [s \in Systems |-> [i \in DOMAIN Rates |-> Figure(m, s, Rates[i])]]

-----------------------------------------------------------------------------
(* The components.                                                          *)
ChartInit ==
    /\ load \in Loads /\ stall \in Stalls
    /\ metric = "goodput"
    /\ active = 0 /\ asTable = FALSE
    /\ narrow = FALSE
    /\ hoverStall = {}
    /\ wl = "A" /\ opened = {}

Crosshair(i) ==
    /\ ~asTable
    /\ active' = i
    /\ UNCHANGED <<load, stall, metric, asTable, narrow, hoverStall, wl, opened>>

MovePointer == \E px \in 0..IW : Crosshair(Nearest(px))
LeaveChart  == Crosshair(0)                   \* pointer leave, blur and Escape
FocusChart  == Crosshair(IF active = 0 THEN 1 ELSE active)
ArrowRight  == Crosshair(IF active < Len(Rates) THEN active + 1 ELSE Len(Rates))
ArrowLeft   == Crosshair(IF active <= 1 THEN 1 ELSE active - 1)

ToggleTable ==
    /\ asTable' = ~asTable
    /\ UNCHANGED <<load, stall, metric, active, narrow, hoverStall, wl, opened>>

(* key={metric}: another metric mounts another LineChart.                   *)
SetMetric(m) ==
    /\ m # metric
    /\ metric' = m
    /\ active' = 0 /\ asTable' = FALSE
    /\ UNCHANGED <<load, stall, narrow, hoverStall, wl, opened>>

Resize ==
    /\ narrow' = ~narrow
    /\ UNCHANGED <<load, stall, metric, active, asTable, hoverStall, wl, opened>>

(* StallChart's move: of each series the first window nearest to t.         *)
Near(s, t) == Least({i \in DOMAIN s : \A j \in DOMAIN s :
                                        Distance(s[i][1], t) <= Distance(s[j][1], t)})
(* Its axis: a tenth more than the longest gap of either series.            *)
GMax == 1100 * Greatest({p[2] : p \in ToSet(stall[1]) \cup ToSet(stall[2])})
StallTicks == NiceTicks(GMax, 4)

MoveStall ==
    /\ \E t \in 0..Greatest({p[1] : p \in ToSet(stall[1]) \cup ToSet(stall[2])}) :
         hoverStall' = {[t |-> stall[2][Near(stall[2], t)][1],
                         b |-> stall[1][Near(stall[1], t)][2],
                         i |-> stall[2][Near(stall[2], t)][2]]}
    /\ UNCHANGED <<load, stall, metric, active, asTable, narrow, wl, opened>>
LeaveStall ==
    /\ hoverStall' = {}
    /\ UNCHANGED <<load, stall, metric, active, asTable, narrow, wl, opened>>

PickWorkload(w) ==
    /\ wl' = w /\ opened' = {}
    /\ UNCHANGED <<load, stall, metric, active, asTable, narrow, hoverStall>>
ClickRow(r) ==
    /\ r \in RowsOf[wl]
    /\ opened' = IF opened = {r} THEN {} ELSE {r}
    /\ UNCHANGED <<load, stall, metric, active, asTable, narrow, hoverStall, wl>>

LineChartStep ==
    \/ MovePointer \/ LeaveChart \/ FocusChart \/ ArrowRight \/ ArrowLeft
    \/ ToggleTable \/ Resize
    \/ \E m \in Metrics : SetMetric(m)
StallStep == MoveStall \/ LeaveStall
AblationStep ==
    \/ \E w \in DOMAIN RowsOf : PickWorkload(w)
    \/ \E r \in RowsOf[wl] : ClickRow(r)
ChartNext == LineChartStep \/ StallStep \/ AblationStep

ChartSpec == ChartInit /\ [][ChartNext]_chartVars

-----------------------------------------------------------------------------
(* Properties.                                                              *)

(* What the readouts say is what was measured: wherever pointer, keys, a    *)
(* change of metric or of view have left the crosshair, it stands on a      *)
(* rate, each system's figure is its own at that rate and "not run" where   *)
(* there is none, there and in the table; the stall chart's two figures     *)
(* belong to one window when both series have all of them; the ablation's   *)
(* hint is about a row of the workload shown.                               *)
ReadoutsTellTheData ==
    /\ active # 0 => /\ active \in DOMAIN Rates
                     /\ Readout(metric) = [s \in Systems |-> load[metric][s][active]]
    /\ asTable => Table_(metric) = load[metric]
    /\ \A h \in hoverStall :
         {p[1] : p \in ToSet(stall[1])} = {p[1] : p \in ToSet(stall[2])} =>
             \E k \in DOMAIN stall[1] : stall[1][k] = <<h.t, h.b>> /\ stall[2][k] = <<h.t, h.i>>
    /\ opened \subseteq RowsOf[wl]

(* "Nudged apart so they never overlap" (LineChart): two labels at the same *)
(* place are GAP apart.  Each is compared with its neighbour only, so the   *)
(* code does not keep this when the label of another place is between them. *)
LabelsNeverOverlap ==
    LET l == Labels(metric)
    IN  \A i, j \in DOMAIN l : i < j /\ l[i].x = l[j].x => l[j].y - l[i].y >= GAP

(* What it does keep: labels at the same place which none from another      *)
(* place parts are GAP apart each, however many were pushed, in the order   *)
(* of their lines' ends.                                                    *)
LabelsApartUnlessParted ==
    LET l == Labels(metric)
    IN  \A i, j \in DOMAIN l :
            i < j /\ (\A k \in i..j : l[k].x = l[i].x) => l[j].y - l[i].y >= GAP * (j - i)

(* The axes of niceTicks, for a metric and for the stalls: they start at 0, *)
(* cover the largest value with no tick to spare, and have at most one tick *)
(* more than asked for.                                                     *)
CoversTo(ticks, max, count) ==
    /\ ticks[1] = 0 /\ Len(ticks) \in 2..(count + 1)
    /\ Last(ticks) >= max /\ ticks[Len(ticks) - 1] < max

AxisCoversTheData ==
    /\ metric \notin LogMetrics => CoversTo(Ticks(metric), DMax(metric), 5)
    /\ CoversTo(StallTicks, GMax, 4)

(* A chart shows its data inside the axes it draws ("Medians are lines, the *)
(* range across seeds is a whisker"): no point is above the last tick.      *)
NothingAboveTheAxis ==
    \A s \in Systems : \A p \in ToSet(Points(metric, s)) : 1000 * p.max <= Top(metric)
=============================================================================
