---------------------------- MODULE ClockedMemory ----------------------------
(***************************************************************************)
(* run_memory (_memory_run.py) drives a clocked model through the bridge   *)
(* of _clocked.py: in every cycle it queries the model until its answers   *)
(* to the ready/valid signals settle, ticks it once, and completes the     *)
(* instruction and data requests whose latency has passed.  The functional *)
(* strategy jumps over cycles in which nothing can happen; the timing      *)
(* strategy executes them all.  Here the same model is run with the one    *)
(* and then with the other.                                                *)
(*                                                                         *)
(* The model is any model: what it answers in a state to an input is       *)
(* chosen when it is first asked.  Asked for more than MaxAnswers answers, *)
(* it fails a check.                                                       *)
(***************************************************************************)
EXTENDS Integers, Sequences, FiniteSets, TLC

CONSTANTS States,       \* the model's registers
          Known,        \* the states without an unknown bit
          Reset,
          None,         \* no command, no pending request, no response yet
          Answers,      \* what a model may answer, see Answer
          MaxAnswers,
          Configs,      \* latencies and reset cycles, see Config
          MaxCycles,    \* cfg["max_cycles"]
          MaxQueries    \* the queries a cycle may take to settle

Channels == {"instruction", "data"}
Good == 0       \* an address of the memory, and one that faults
Bad == 1

\* One answer: the two commands, the event record, the next registers, and
\* whether the checks of the sample pass.
Answer ==
    [command : [Channels -> {None} \union [address : {Good, Bad}, write : BOOLEAN, value : {0, 1}]],
     event : {"none", "go", "stop"}, next : States, passes : BOOLEAN]

Config == [latency : [Channels -> Seq(Nat)], resets : SUBSET Nat]

ASSUME ConstantsAssumption ==
    /\ Known \subseteq States /\ Reset \in Known /\ Answers \subseteq Answer /\ Configs \subseteq Config
    /\ \A c \in Configs, ch \in Channels : c.latency[ch] # <<>>
    /\ MaxAnswers \in Nat /\ MaxCycles \in Nat /\ MaxQueries \in Nat

VARIABLES
    config,
    model,     \* the answers given so far: a partial function
    strategy,  \* the strategy of the current run
    cycle, registers, pending, count, data, events, stores, ticks, skipped,
    response,  \* the inputs of the next query, None before the first
    queries,   \* the queries of this cycle
    phase,     \* what the loop does next
    outcomes   \* how the runs ended

vars == <<config, model, strategy, cycle, registers, pending, count, data, events, stores,
          ticks, skipped, response, queries, phase, outcomes>>
clocked == <<cycle, registers, pending, count, data, events, stores, ticks, skipped>>

Silent == [ready |-> FALSE, fault |-> FALSE, value |-> 0]

Init ==
    /\ config \in Configs
    /\ model = <<>>
    /\ strategy = "timing"
    /\ cycle = 0 /\ registers = Reset /\ data = 0 /\ ticks = 0 /\ skipped = 0
    /\ pending = [ch \in Channels |-> None]
    /\ count = [ch \in Channels |-> 0]
    /\ events = <<>> /\ stores = <<>>
    /\ response = None /\ queries = 0 /\ phase = "cycle"
    /\ outcomes = <<>>

-----------------------------------------------------------------------------
(* PendingMemory.                                                          *)

Latency(ch) == config.latency[ch][(count[ch] % Len(config.latency[ch])) + 1]

Responds(ch, command) ==
    /\ command # None
    /\ IF pending[ch] # None THEN cycle >= pending[ch].due ELSE Latency(ch) = 0

Withdrawn(ch, command) == pending[ch] # None /\ command # pending[ch].command

Finish(ch, command, fires) ==
    IF command = None THEN pending[ch]
    ELSE IF fires THEN None
    ELSE IF pending[ch] # None THEN pending[ch]
    ELSE [command |-> command, due |-> cycle + Latency(ch)]

-----------------------------------------------------------------------------
(* One cycle.                                                              *)

\* The instruction image is constant; the data memory holds one word.
Reply(ch, command) ==
    LET ready == Responds(ch, command)
        valid == command = None \/ command.address = Good
    IN  [ready |-> ready, fault |-> ready /\ ~valid,
         value |-> IF ready /\ valid /\ ch = "data" THEN data ELSE 0]

Input == IF response = None THEN [ch \in Channels |-> Silent] ELSE response
Question == <<registers, Input>>
Refusal == [command |-> [ch \in Channels |-> None], event |-> "none", next |-> registers, passes |-> FALSE]
Possible ==
    IF Question \in DOMAIN model THEN {model[Question]}
    ELSE IF Cardinality(DOMAIN model) < MaxAnswers THEN Answers ELSE {Refusal}

Learn(a) == model' = IF a.passes THEN (Question :> a) @@ model ELSE model

Running == phase = "cycle" /\ cycle < MaxCycles

\* The driver raises an error, and writes no report.
Fail == phase' = "done" /\ outcomes' = (strategy :> [status |-> "error", cycles |-> cycle]) @@ outcomes

\* A reset cycle withdraws what is pending.
ResetCycle ==
    /\ Running /\ queries = 0 /\ cycle \in config.resets
    /\ registers' = Reset
    /\ pending' = [ch \in Channels |-> None]
    /\ ticks' = ticks + 1
    /\ cycle' = cycle + 1
    /\ UNCHANGED <<config, model, strategy, count, data, events, stores, skipped,
                   response, queries, phase, outcomes>>

\* Mutant: the settling loop has no limit.
Query_Endless ==
    /\ Running /\ ~(queries = 0 /\ cycle \in config.resets)
    /\ \E a \in Possible :
         LET following == [ch \in Channels |-> Reply(ch, a.command[ch])]
         IN  /\ Learn(a)
             /\ IF ~a.passes
                THEN Fail /\ UNCHANGED <<response, queries>>
                ELSE IF following = response
                THEN phase' = "tick" /\ UNCHANGED <<response, queries, outcomes>>
                ELSE phase' = "cycle" /\ response' = following /\ queries' = 1 /\ UNCHANGED outcomes
    /\ UNCHANGED <<config, strategy, clocked>>

Query ==
    /\ Running /\ ~(queries = 0 /\ cycle \in config.resets)
    /\ \E a \in Possible :
         LET following == [ch \in Channels |-> Reply(ch, a.command[ch])]
         IN  /\ Learn(a)
             /\ IF ~a.passes \/ (following # response /\ queries + 1 = MaxQueries)
                THEN Fail /\ UNCHANGED <<response, queries>>
                ELSE IF following = response
                THEN phase' = "tick" /\ UNCHANGED <<response, queries, outcomes>>
                ELSE phase' = "cycle" /\ response' = following /\ queries' = queries + 1 /\ UNCHANGED outcomes
    /\ UNCHANGED <<config, strategy, clocked>>

\* Mutant: the reset cycles are not deadlines.
NextEvent_NoReset(waiting) ==
    LET due == {waiting[ch].due : ch \in {c \in Channels : waiting[c] # None}}
        after == {n \in due : n > cycle} \union {MaxCycles}
    IN  CHOOSE n \in after : \A m \in after : n <= m

\* Where the functional strategy continues after an idle cycle: the next
\* response or reset, or the end.
NextEvent(waiting) ==
    LET due == {waiting[ch].due : ch \in {c \in Channels : waiting[c] # None}}
        after == {n \in due \union config.resets : n > cycle} \union {MaxCycles}
    IN  CHOOSE n \in after : \A m \in after : n <= m

Report(status, at) ==
    [status |-> status, cycles |-> at, events |-> events', stores |-> stores', data |-> data',
     registers |-> registers', count |-> count', ticks |-> ticks', skipped |-> skipped']

Tick ==
    LET a == model[Question]
        fires == [ch \in Channels |-> a.command[ch] # None /\ response[ch].ready]
        store == fires["data"] /\ a.command["data"].write /\ ~response["data"].fault
        stop == a.event = "stop"
        cancelled == stop /\ ~fires["instruction"]
        waiting == [ch \in Channels |->
                      IF ch = "instruction" /\ cancelled THEN None ELSE Finish(ch, a.command[ch], fires[ch])]
        idle == a.next = registers /\ registers \in Known /\ a.event = "none" /\ \A ch \in Channels : ~fires[ch]
        following == IF strategy = "functional" /\ idle THEN NextEvent(waiting) ELSE cycle + 1
    IN  /\ phase = "tick"
        /\ IF \E ch \in Channels : Withdrawn(ch, a.command[ch]) /\ ~(ch = "instruction" /\ cancelled)
           THEN Fail /\ UNCHANGED <<clocked, response, queries>>
           ELSE /\ registers' = a.next
                /\ data' = IF store THEN a.command["data"].value ELSE data
                /\ stores' = IF store THEN Append(stores, <<cycle, a.command["data"].value>>) ELSE stores
                /\ events' = IF a.event # "none" THEN Append(events, cycle) ELSE events
                /\ pending' = waiting
                /\ count' = [ch \in Channels |->
                               IF fires[ch] THEN count[ch] + 1 ELSE count[ch]]
                /\ ticks' = ticks + 1
                /\ cycle' = IF stop THEN cycle + 1 ELSE following
                /\ skipped' = IF stop THEN skipped ELSE skipped + (following - cycle - 1)
                /\ response' = None
                /\ queries' = 0
                /\ IF stop
                   THEN phase' = "done" /\ outcomes' = (strategy :> Report("event_stop", cycle + 1)) @@ outcomes
                   ELSE phase' = "cycle" /\ UNCHANGED outcomes
        /\ UNCHANGED <<config, model, strategy>>

\* The cycle budget is used up: the report is written, and the run fails.
Timeout ==
    /\ phase = "cycle" /\ cycle = MaxCycles
    /\ UNCHANGED clocked
    /\ outcomes' = (strategy :> Report("timeout", cycle)) @@ outcomes
    /\ phase' = "done"
    /\ UNCHANGED <<config, model, strategy, response, queries>>

\* The wall-time budget is used up.
GiveUp ==
    /\ Running /\ queries = 0
    /\ phase' = "abandoned"
    /\ UNCHANGED <<config, model, strategy, clocked, response, queries, outcomes>>

\* The same model is run again, with the other strategy.
Again ==
    /\ phase = "done" /\ strategy = "timing"
    /\ strategy' = "functional"
    /\ cycle' = 0 /\ registers' = Reset /\ data' = 0 /\ ticks' = 0 /\ skipped' = 0
    /\ pending' = [ch \in Channels |-> None]
    /\ count' = [ch \in Channels |-> 0]
    /\ events' = <<>> /\ stores' = <<>>
    /\ response' = None /\ queries' = 0 /\ phase' = "cycle"
    /\ UNCHANGED <<config, model, outcomes>>

Next == ResetCycle \/ Query \/ Tick \/ Timeout \/ GiveUp \/ Again

Spec == Init /\ [][Next]_vars /\ WF_vars(ResetCycle \/ Query \/ Tick \/ Timeout \/ Again)
-----------------------------------------------------------------------------
(***************************************************************************)
(* Folding is exact: a model that is run with both strategies ends both    *)
(* runs in the same way, at the same cycle, with the same events and       *)
(* stores at the same cycles, the same memory, registers and transactions; *)
(* and every cycle of a report was either executed or counted as skipped.  *)
(***************************************************************************)
FoldingExact ==
    /\ DOMAIN outcomes = {"timing", "functional"} =>
         LET timing == outcomes["timing"] functional == outcomes["functional"]
         IN  /\ timing.status = functional.status
             /\ \A f \in DOMAIN timing \ {"ticks", "skipped"} : timing[f] = functional[f]
    /\ \A s \in DOMAIN outcomes :
         outcomes[s].status # "error" => outcomes[s].ticks + outcomes[s].skipped = outcomes[s].cycles

(***************************************************************************)
(* Every run ends, with a report or with an error: a cycle settles or is   *)
(* given up after finitely many queries, and the loop moves on.            *)
(***************************************************************************)
RunEnds == <>(phase = "abandoned" \/ (strategy = "functional" /\ phase = "done"))
=============================================================================
