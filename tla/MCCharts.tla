------------------------------ MODULE MCCharts ------------------------------
EXTENDS SiteCharts, TLC
(* p99 time to first token in seconds, as published: the naive server is    *)
(* at 30 to 42, the full system at 1 to 14.                                 *)
Stat(y, max) == [y |-> y, max |-> max]
TwoMetrics == {"goodput", "ttft_p99"}
TwoSystems == 1..2
FourRates == <<1, 4, 6, 8>>
Goodput == <<<<Stat(1, 1), Stat(1, 1), Null, Null>>, <<Stat(1, 1), Stat(4, 4), Stat(2, 3), Stat(2, 2)>>>>
Ttft == <<<<Stat(30, 34), Stat(38, 43), Null, Null>>, <<Stat(1, 1), Stat(1, 1), Stat(7, 10), Stat(12, 14)>>>>
Published == {[m \in TwoMetrics |-> IF m = "goodput" THEN Goodput ELSE Ttft]}
LogOnes == {"ttft_p99"}
(* Three systems that end close together, the first of them at a lower rate:*)
(* drawn as large as LineChart is by default, where labels need 15 units.   *)
ThreeSystems == 1..3
Close == <<<<Stat(90, 95), Stat(98, 99), Null, Null>>,
           <<Stat(90, 95), Stat(95, 98), Stat(99, 99), Stat(100, 100)>>,
           <<Stat(90, 95), Stat(95, 98), Stat(96, 98), Stat(97, 98)>>>>
Crowded == {[m \in TwoMetrics |-> Close]}
SomeStalls == {<<<<<<0, 1>>, <<1, 2>>>>, <<<<0, 1>>, <<1, 9>>>>>>}
SomeRows == [A |-> {"m0", "m2"}, B |-> {"m0", "m3"}]
=============================================================================
