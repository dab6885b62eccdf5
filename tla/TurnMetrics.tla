---------------------------- MODULE TurnMetrics ----------------------------
(***************************************************************************)
(* telemetry/src/metrics.ts over the calls and their turns: the figures    *)
(* that are defined on the shape of a turn (who spoke, how fast, over      *)
(* whom) and never on its words, and the budgets a build is held to.       *)
(*                                                                         *)
(* A rate is its numerator; `agentTurns` and `finished` are the            *)
(* denominators.  A turn without a measured latency has NoLatency.         *)
(***************************************************************************)
EXTENDS Integers, FiniteSets, Sequences

NoLatency == -1

\* Nearest rank: of the values of a function, one that some turn really took and that p
\* percent of them do not exceed.
Percentile(values, p) ==
  LET sample == DOMAIN values
  IN IF sample = {} THEN 0
     ELSE CHOOSE v \in {values[i] : i \in sample} :
            /\ 100 * Cardinality({i \in sample : values[i] <= v}) >= p * Cardinality(sample)
            /\ 100 * Cardinality({i \in sample : values[i] < v}) < p * Cardinality(sample)

CONTAINED_OUTCOMES == {"BOOKED"}

AgentTurns(turns) == {i \in DOMAIN turns : turns[i].role = "agent"}

FirstWordLatencies(turns) ==
  [i \in {j \in AgentTurns(turns) : turns[j].firstWordLatencyMs # NoLatency} |->
     turns[i].firstWordLatencyMs]

TurnLatencies(turns) ==
  [i \in {j \in AgentTurns(turns) : turns[j].turnLatencyMs # NoLatency} |->
     turns[i].turnLatencyMs]

\* computeMetrics(), of a set of calls and the sequence of their turns.
TurnFigures(calls, turns) ==
  LET finished == {c \in calls : c.outcome # "none"}
  IN [calls |-> Cardinality(calls),
      finished |-> Cardinality(finished),
      contained |-> Cardinality({c \in finished : c.outcome \in CONTAINED_OUTCOMES}),
      agentTurns |-> Cardinality(AgentTurns(turns)),
      bargeIns |-> Cardinality({i \in AgentTurns(turns) : turns[i].bargeIn}),
      turnsTaken |-> Cardinality({i \in AgentTurns(turns) : turns[i].turnTakeOk}),
      firstWordP50 |-> Percentile(FirstWordLatencies(turns), 50),
      firstWordP95 |-> Percentile(FirstWordLatencies(turns), 95),
      turnP95 |-> Percentile(TurnLatencies(turns), 95)]

LATENCY_BUDGET == [firstWordP95 |-> 1200, turnP95 |-> 2000]

\* checkBudgets(): what regressed.  The rates are in tenths of a percent.
CheckBudgets(figures) ==
  {metric \in DOMAIN LATENCY_BUDGET : figures[metric] > LATENCY_BUDGET[metric]}
  \cup (IF figures.turnsTaken * 1000 < 960 * figures.agentTurns \/ figures.agentTurns = 0
        THEN {"turnTakeRate"} ELSE {})
  \cup (IF figures.bargeIns * 1000 > 135 * figures.agentTurns THEN {"bargeInRate"} ELSE {})

=============================================================================
