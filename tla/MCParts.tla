------------------------------ MODULE MCParts ------------------------------
(***************************************************************************)
(* The parts of the system that share no state with the scheduler or with  *)
(* each other, in one run: focus is the part that moves, the others stay   *)
(* in one of their initial states.                                         *)
(***************************************************************************)
EXTENDS SiteSimulations, SiteCharts, SiteDiagrams, SiteShell, KVCache, Detokenizer, TLC

CONSTANTS kv1, kv2

VARIABLE focus

Parts == {"batching", "paging", "linechart", "stall", "ablation", "system", "lifecycle",
          "kvdiagram", "sidebar", "spy", "cache", "detokenizer"}

(* SiteSimulations: six cells in two reservations, lengths up to 3.         *)
ShortOrder == <<3, 0, 5, 2, 4, 1>>
ShortStreams == [1..3 -> 1..3]
OneStream == <<1, 2, 3>>

(* SiteCharts: three systems at three rates, one of them with every pattern *)
(* of missing, low and high values.                                         *)
Stat(v, m) == [y |-> v, max |-> m]
TwoMetrics == {"goodput", "ttft_p99"}
LogOnes == {"ttft_p99"}
ThreeSystems == 1..3
ThreeRates == <<1, 2, 4>>
Ttft == <<<<Stat(1, 1), Null, Stat(30, 34)>>, <<Stat(1, 2), Stat(2, 2), Stat(9, 10)>>,
          <<Null, Stat(3, 3), Null>>>>
ManyLoads ==
    {[goodput |-> <<a, b, c>>, ttft_p99 |-> Ttft] :
        a \in [1..3 -> {Null, Stat(1, 2), Stat(9, 9)}],
        b \in {<<Stat(1, 1), Stat(2, 3), Stat(2, 2)>>, <<Null, Stat(4, 4), Stat(3, 7)>>,
               <<Stat(9, 12), Stat(2, 2), Null>>},
        c \in {<<Stat(1, 1), Stat(2, 2), Stat(2, 3)>>, <<Null, Null, Null>>}}
OneLoad == CHOOSE d \in ManyLoads : TRUE
TwoStalls == {<<<<<<0, 1>>, <<1, 2>>, <<2, 1>>>>, <<<<0, 2>>, <<1, 9>>, <<2, 3>>>>>>,
              <<<<<<0, 1>>, <<3, 2>>>>, <<<<1, 9>>>>>>}
OneStall == CHOOSE p \in TwoStalls : TRUE
SomeRows == [A |-> {"m0", "m2"}, B |-> {"m0", "m3"}, C |-> {"m5"}]

(* SiteDiagrams: the bounds of the page.                                    *)
Shuffled == [i \in 1..32 |-> (13 * i + 5) % 32]
PageBlockSizes == {4, 8, 16, 32}

(* SiteShell: a tall section between two short ones.                        *)
ThreeSections == <<<<0, 10>>, <<12, 512>>, <<512, 530>>>>
SomePositions == {0, 2, 4, 5, 7, 8, 502, 504, 508, 526}

(* KVCache and Detokenizer.                                                 *)
TwoKVReqs == {kv1, kv2}
EightTokens == {<<"a">>, <<"x">>, <<"w">>, <<"c">>, <<"f">>, <<"u">>, <<"c", "a">>,
                <<"a", "w", "c">>}

-----------------------------------------------------------------------------
PartsInit ==
    /\ focus \in Parts
    /\ stream \in IF focus = "batching" THEN Streams ELSE {OneStream}
    /\ final \in IF focus = "paging" THEN Finals ELSE {OneStream}
    /\ reduce \in IF focus \in Sims THEN BOOLEAN ELSE {FALSE}
    /\ load \in IF focus = "linechart" THEN Loads ELSE {OneLoad}
    /\ stall \in IF focus = "stall" THEN Stalls ELSE {OneStall}
    /\ stored \in IF focus = "sidebar" THEN {"none", "dark", "light"} ELSE {"none"}
    /\ blocked \in IF focus = "sidebar" THEN BOOLEAN ELSE {FALSE}
    /\ SimInit /\ ChartInit /\ DiagramInit /\ ShellInit /\ KVInit /\ DetokInit

OnlySims == UNCHANGED <<chartVars, diagramVars, shellVars, kvcVars, detokVars>>
OnlyCharts == UNCHANGED <<simVars, diagramVars, shellVars, kvcVars, detokVars>>
OnlyDiagrams == UNCHANGED <<simVars, chartVars, shellVars, kvcVars, detokVars>>
OnlyShell == UNCHANGED <<simVars, chartVars, diagramVars, kvcVars, detokVars>>
OnlyCache == UNCHANGED <<simVars, chartVars, diagramVars, shellVars, detokVars>>
OnlyDetokenizer == UNCHANGED <<simVars, chartVars, diagramVars, shellVars, kvcVars>>

PartsNext ==
    /\ UNCHANGED focus
    /\ \/ focus \in Sims /\ SimStep(focus) /\ OnlySims
       \/ focus = "linechart" /\ LineChartStep /\ OnlyCharts
       \/ focus = "stall" /\ StallStep /\ OnlyCharts
       \/ focus = "ablation" /\ AblationStep /\ OnlyCharts
       \/ focus = "system" /\ SystemStep /\ OnlyDiagrams
       \/ focus = "lifecycle" /\ LifecycleStep /\ OnlyDiagrams
       \/ focus = "kvdiagram" /\ KvStep /\ OnlyDiagrams
       \/ focus = "sidebar" /\ SidebarStep /\ OnlyShell
       \/ focus = "spy" /\ SpyStep /\ OnlyShell
       \/ focus = "cache" /\ KVNext /\ OnlyCache
       \/ focus = "detokenizer" /\ DetokNext /\ OnlyDetokenizer

PartsSpec ==
    PartsInit /\ [][PartsNext]_<<focus, simVars, chartVars, diagramVars, shellVars, kvcVars,
                                 detokVars>>
=============================================================================
