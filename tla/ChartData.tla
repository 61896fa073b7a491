----------------------------- MODULE ChartData -----------------------------
(***************************************************************************)
(* The points of the traffic chart (utils/chartData.js).  A bucket of the  *)
(* timeline is named by its minute.  A point that stands for no bucket has *)
(* the negative of the label it is drawn at.                               *)
(***************************************************************************)
EXTENDS Integers, FiniteSets

rangeConfig ==
  [r \in {"30m", "1h", "6h", "24h"} |->
     CASE r = "30m" -> [minutes |-> 30, points |-> 12, labelStep |-> 5]
       [] r = "1h"  -> [minutes |-> 60, points |-> 12, labelStep |-> 5]
       [] r = "6h"  -> [minutes |-> 360, points |-> 12, labelStep |-> 30]
       [] r = "24h" -> [minutes |-> 1440, points |-> 12, labelStep |-> 120]]

Point(t, allowed, rejected) == [t |-> t, allowed |-> allowed, rejected |-> rejected]

filtered(timeline, activeRange, now) ==
  {p \in timeline : p.t >= now - rangeConfig[activeRange].minutes}

AtLeast(least, n) == IF n > least THEN n ELSE least

\* A wave as high as the counters of all time: a || b is b when a is zero.
\* Math.round(0.18 * n) is the integer part of 0.18 * n + 0.5.
buildFallbackData(config, stats) ==
  LET maxAllowed  == AtLeast(1, IF stats.allowed # 0 THEN stats.allowed ELSE stats.requests)
      maxRejected == AtLeast(0, stats.rejected)
      wave(index) == IF index \in 2..4 \cup 7..9 THEN 1 ELSE 0
  IN {Point(-(index * config.labelStep), wave(index) * maxAllowed,
            IF wave(index) = 1 THEN (36 * maxRejected + 100) \div 200 ELSE 0)
        : index \in 0..(config.points - 1)}

\* Mutant: one point is not enough to draw.
DrawableFromTwo(points) == Cardinality(points) > 1

Drawable(points) == Cardinality(points) > 0

buildChartData(timeline, activeRange, stats, now) ==
  LET points == filtered(timeline, activeRange, now)
  IN IF Drawable(points) THEN points ELSE buildFallbackData(rangeConfig[activeRange], stats)
=============================================================================
