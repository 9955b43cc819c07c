-------------------------- MODULE SimExecutorProofs --------------------------
(***************************************************************************)
(* Proofs about module SimExecutor, and SimSystem and ObservationSlots     *)
(* under it, for every set of modules, slots, groups and limits and for    *)
(* any number of cycles; and about the loop of module SystemRunner, which  *)
(* drives an executor, for every configuration.                            *)
(***************************************************************************)
EXTENDS SimExecutor, FiniteSetTheorems, SequenceTheorems, TLAPS

States == {"New", "Created", "Configured", "Ready", "Completed", "Failed"}

Record == [value : Value, valid : BOOLEAN, path : BOOLEAN, epoch : Nat]
Gauges == [GaugeSlots -> [value : Value, lastUpdate : Nat]]
Events == SUBSET [epoch : 0 .. CounterMax, slot : EventSlots]

SystemTyped ==
  /\ current \in [Modules -> Data]
  /\ next \in [Modules -> Data \cup {NoNext}]
  /\ sysState \in {"PreBuild", "Built", "Ready", "Failed"}
  /\ cycle \in 0 .. CounterMax
  /\ slots \in [Slots -> Record \cup {Empty}]
  /\ events \in Events
  /\ gauges \in Gauges

CallsTyped ==
  /\ state \in States
  /\ maxTicks \in (Nat \ {0}) \cup {None}
  /\ maxDomainCycles \in (Nat \ {0}) \cup {None}
  /\ latched \in BOOLEAN
  /\ stepping \in BOOLEAN

\* A step evaluates a ready model that can count one more cycle.
StepReady == stepping => state = "Ready" /\ cycle # CounterMax

\* A ready model has not reached its limits.
WithinLimits ==
  state = "Ready" => \A n \in {maxTicks, maxDomainCycles} \ {None} : cycle < n

IInv ==
  /\ SystemTyped /\ CallsTyped /\ StepReady /\ WithinLimits
  /\ ObservationsCurrent /\ NothingOutlivesCall /\ FirstFailureKept

\* What the host sees of a step: a step of ModelApi or nothing.
View ==
  <<state, committedCycles, StopLimit,
    [data |-> current, gauges |-> gauges, events |-> events]>>

HostStep == Host!Next \/ View' = View

-----------------------------------------------------------------------------
(* Parts that several calls share.                                         *)

\* Observations stay current when neither they nor the cycle change.
LEMMA SameObservations ==
  ASSUME ObservationsCurrent, UNCHANGED <<cycle, events, gauges, committedCycles, gaugeSnapshots>>
  PROVE  ObservationsCurrent'
BY Zenon DEF ObservationsCurrent

\* The host's view stays the same when its parts do.
LEMMA SameView ==
  ASSUME UNCHANGED <<state, committedCycles, maxTicks, maxDomainCycles, current, gauges, events>>
  PROVE  View' = View
<1>1. StopLimit' = StopLimit
  BY Zenon DEF StopLimit
<1> QED BY <1>1, Zenon DEF View

\* discardAll leaves nothing prepared.
LEMMA Cleared ==
  ASSUME discardAll
  PROVE  /\ next' \in [Modules -> Data \cup {NoNext}] /\ slots' \in [Slots -> Record \cup {Empty}]
         /\ NothingOutlivesCall'
<1>1. next' = [m \in Modules |-> NoNext] /\ slots' = [s \in Slots |-> Empty]
  BY Zenon DEF discardAll, NothingPrepared, DiscardSlots
<1>2. next' \in [Modules -> Data \cup {NoNext}] /\ slots' \in [Slots -> Record \cup {Empty}]
  BY <1>1, Zenon
<1>3. NothingOutlivesCall'
  BY <1>1, Zenon DEF NothingOutlivesCall, NothingPrepared, Pending
<1> QED BY <1>2, <1>3, Zenon

\* A call that changes at most the error text, and not a latched one.
LEMMA QuietKeeps ==
  ASSUME IInv, latched => lastError' = lastError,
         UNCHANGED <<system, state, limits, committedCycles, gaugeSnapshots, latched, call,
                     failure>>
  PROVE  IInv' /\ HostStep
<1>1. UNCHANGED <<current, next, sysState, cycle, slots, events, gauges>>
  BY Zenon DEF system, modules, observations
<1>2. UNCHANGED <<state, maxTicks, maxDomainCycles, committedCycles, gaugeSnapshots, latched,
                  stepping, todo, failure>>
  BY Zenon DEF limits, call
<1>3. SystemTyped'
  BY <1>1, Zenon DEF IInv, SystemTyped
<1>4. CallsTyped'
  BY <1>2, Zenon DEF IInv, CallsTyped
<1>5. StepReady' /\ WithinLimits'
  BY <1>1, <1>2, Zenon DEF IInv, StepReady, WithinLimits
<1>6. ObservationsCurrent'
  BY <1>1, <1>2, SameObservations, Zenon DEF IInv
<1>7. NothingOutlivesCall'
  BY <1>1, <1>2, Zenon DEF IInv, NothingOutlivesCall, Pending
<1>8. FirstFailureKept'
  BY <1>2 DEF IInv, FirstFailureKept
<1>9. View' = View
  BY <1>1, <1>2, SameView, Zenon
<1> QED BY <1>3, <1>4, <1>5, <1>6, <1>7, <1>8, <1>9, Zenon DEF IInv, HostStep

\* A call that fails the model: it has discarded what was prepared, or there
\* was nothing to discard.
LEMMA FailKeeps ==
  ASSUME IInv, failExecution, state \in {"Configured", "Ready", "Completed", "Failed"},
         UNCHANGED <<current, cycle, events, gauges, limits, committedCycles, gaugeSnapshots>>,
         sysState' \in {"PreBuild", "Built", "Ready", "Failed"}, stepping' = FALSE,
         discardAll \/ (~stepping /\ UNCHANGED <<next, slots>>)
  PROVE  IInv' /\ HostStep
<1>1. UNCHANGED <<maxTicks, maxDomainCycles>>
  BY Zenon DEF limits
<1>2. state' = "Failed" /\ latched' = TRUE /\ failure' = lastError'
  BY Zenon DEF failExecution
<1>3. /\ next' \in [Modules -> Data \cup {NoNext}] /\ slots' \in [Slots -> Record \cup {Empty}]
      /\ NothingOutlivesCall'
  <2>1. CASE discardAll
    BY <2>1, Cleared, Zenon
  <2>2. CASE ~stepping /\ UNCHANGED <<next, slots>>
    BY <2>2, Zenon DEF IInv, SystemTyped, NothingOutlivesCall, Pending
  <2> QED BY <2>1, <2>2, Zenon
<1>4. SystemTyped'
  BY <1>3, Zenon DEF IInv, SystemTyped
<1>5. CallsTyped'
  BY <1>1, <1>2, Zenon DEF IInv, CallsTyped, States
<1>6. StepReady' /\ WithinLimits'
  BY <1>2, Zenon DEF StepReady, WithinLimits
<1>7. ObservationsCurrent'
  BY SameObservations, Zenon DEF IInv
<1>8. FirstFailureKept'
  BY <1>2, Zenon DEF FirstFailureKept
<1>9. HostStep
  <2>1. StopLimit' = StopLimit
    BY <1>1, Zenon DEF StopLimit
  <2>2. CASE state = "Failed"
    BY <1>2, <2>1, <2>2, Zenon DEF HostStep, View
  <2>3. CASE state \in {"Configured", "Ready", "Completed"}
    <3>1. Host!Fail
      BY <1>2, <2>1, <2>3, Zenon DEF Host!Fail
    <3> QED BY <3>1, Zenon DEF HostStep, Host!Next
  <2> QED BY <2>2, <2>3, Zenon
<1> QED BY <1>3, <1>4, <1>5, <1>6, <1>7, <1>8, <1>9, Zenon DEF IInv

-----------------------------------------------------------------------------
(* Construction, configuration and reset.                                  *)

\* The constructor commits nothing, whether Build succeeds or not.
LEMMA ConstructKeeps ==
  ASSUME IInv, ConstructInvalid \/ ConstructBuildFails \/ Construct
  PROVE  IInv' /\ HostStep
<1>1. /\ state = "New" /\ state' \in {"Created", "Failed"}
      /\ UNCHANGED <<limits, committedCycles, gaugeSnapshots, latched, call, failure>>
  BY Zenon DEF ConstructInvalid, ConstructBuildFails, Construct
<1>2. UNCHANGED <<maxTicks, maxDomainCycles, stepping>> /\ ~stepping /\ ~latched
  BY <1>1, Zenon DEF limits, call, IInv, StepReady, FirstFailureKept
<1>3. UNCHANGED <<current, cycle, events, gauges>>
  BY Zenon DEF ConstructInvalid, ConstructBuildFails, Construct, BuildFails, BuildSucceeds, system,
         modules, observations
<1>4. /\ sysState' \in {"PreBuild", "Built", "Ready", "Failed"}
      /\ discardAll \/ UNCHANGED <<next, slots>>
  BY Zenon DEF ConstructInvalid, ConstructBuildFails, Construct, BuildFails, BuildSucceeds, system,
         modules, observations, IInv, SystemTyped
<1>5. /\ next' \in [Modules -> Data \cup {NoNext}] /\ slots' \in [Slots -> Record \cup {Empty}]
      /\ NothingOutlivesCall'
  <2>1. CASE discardAll
    BY <2>1, Cleared, Zenon
  <2>2. CASE UNCHANGED <<next, slots>>
    BY <1>2, <2>2, Zenon DEF IInv, SystemTyped, NothingOutlivesCall, Pending
  <2> QED BY <1>4, <2>1, <2>2, Zenon
<1>6. SystemTyped'
  BY <1>3, <1>4, <1>5, Zenon DEF IInv, SystemTyped
<1>7. CallsTyped'
  BY <1>1, <1>2, Zenon DEF IInv, CallsTyped, States
<1>8. StepReady' /\ WithinLimits' /\ FirstFailureKept'
  BY <1>1, <1>2, Zenon DEF StepReady, WithinLimits, FirstFailureKept
<1>9. ObservationsCurrent'
  BY <1>1, <1>3, SameObservations, Zenon DEF IInv
<1>10. HostStep
  <2>1. StopLimit' = StopLimit
    BY <1>2, Zenon DEF StopLimit
  <2>2. Host!Create
    BY <1>1, <1>3, <2>1, Zenon DEF Host!Create
  <2> QED BY <2>2, Zenon DEF HostStep, Host!Next
<1> QED BY <1>5, <1>6, <1>7, <1>8, <1>9, <1>10, Zenon DEF IInv

\* The limit at which the model stops is the smaller one of those configured.
LEMMA ConfigureJsonKeeps ==
  ASSUME IInv, NEW ticks \in Limits \cup {None}, NEW domain \in Limits \cup {None},
         ConfigureJson(ticks, domain)
  PROVE  IInv' /\ HostStep
<1>1. UNCHANGED <<system, committedCycles, gaugeSnapshots, latched, call, failure>>
  BY Zenon DEF ConfigureJson
<1>2. CASE setError /\ UNCHANGED <<state, limits>>
  BY <1>1, <1>2, QuietKeeps, Zenon DEF setError
<1>3. CASE /\ state = "Created" /\ ticks # 0 /\ domain # 0
           /\ maxTicks' = ticks /\ maxDomainCycles' = domain /\ state' = "Configured"
  <2>1. UNCHANGED <<current, next, sysState, cycle, slots, events, gauges, stepping>>
    BY <1>1, Zenon DEF system, modules, observations, call
  <2>2. /\ ~latched /\ ~latched' /\ latched' \in BOOLEAN
        /\ ~stepping /\ ~stepping' /\ stepping' \in BOOLEAN
    BY <1>1, <1>3, <2>1, Zenon DEF IInv, CallsTyped, FirstFailureKept, StepReady
  <2>3. ticks \in (Nat \ {0}) \cup {None} /\ domain \in (Nat \ {0}) \cup {None}
    BY <1>3, LimitAssumption, Zenon
  <2>4. SystemTyped'
    BY <2>1, Zenon DEF IInv, SystemTyped
  <2>5. CallsTyped'
    BY <1>3, <2>2, <2>3, Zenon DEF CallsTyped, States
  <2>6. StepReady' /\ WithinLimits' /\ FirstFailureKept'
    BY <1>3, <2>2, Zenon DEF StepReady, WithinLimits, FirstFailureKept
  <2>7. ObservationsCurrent'
    BY <1>1, <2>1, SameObservations, Zenon DEF IInv
  <2>8. NothingOutlivesCall'
    BY <2>1, <2>2, Zenon DEF IInv, NothingOutlivesCall, Pending
  <2>9. \A n, k \in StopLimit' : n \in Nat \ {0} /\ n = k
    <3>1. ({maxTicks', maxDomainCycles'} \ {None}) \subseteq Nat \ {0}
      BY <1>3, <2>3, Zenon
    <3>2. \A n, k \in Nat : n <= k /\ k <= n => n = k
      OBVIOUS
    <3> QED BY <3>1, <3>2, Zenon DEF StopLimit
  <2>10. Host!Configure
    BY <1>1, <1>3, <2>1, <2>9, Zenon DEF Host!Configure
  <2> QED BY <2>4, <2>5, <2>6, <2>7, <2>8, <2>10, Zenon DEF IInv, HostStep, Host!Next
<1> QED BY <1>2, <1>3, Zenon DEF ConfigureJson

\* Reset starts from cycle 0 with nothing but the memories kept; a model that
\* was never built cannot be reset.
LEMMA ResetKeeps ==
  ASSUME IInv, Reset
  PROVE  IInv' /\ HostStep
<1>1. ~stepping /\ state # "New" /\ UNCHANGED <<limits, call>>
  BY Zenon DEF Reset, Callable
<1>2. UNCHANGED <<maxTicks, maxDomainCycles, stepping>> /\ stepping' = FALSE
  BY <1>1, Zenon DEF limits, call, IInv, CallsTyped
<1>3. CASE state \notin Resettable
  BY <1>1, <1>3, QuietKeeps, Zenon DEF Reset, setError
<1>4. CASE state \in Resettable /\ sysState' # "Ready"
  <2>1. ResetSystem /\ failExecution /\ UNCHANGED <<committedCycles, gaugeSnapshots>>
    BY <1>4, Zenon DEF Reset
  <2>2. UNCHANGED system
    BY <1>4, <2>1, Zenon DEF ResetSystem
  <2>3. UNCHANGED <<current, next, sysState, cycle, slots, events, gauges>>
    BY <2>2, Zenon DEF system, modules, observations
  <2> QED BY <1>1, <1>2, <1>4, <2>1, <2>3, FailKeeps, Zenon DEF IInv, SystemTyped, Resettable
<1>5. CASE state \in Resettable /\ sysState' = "Ready"
  <2>1. /\ ResetSystem /\ committedCycles' = 0 /\ gaugeSnapshots' = gauges' /\ state' = "Ready"
        /\ latched' = FALSE
    BY <1>5, Zenon DEF Reset
  <2>2. CanReset
    BY <1>5, <2>1, Zenon DEF ResetSystem, CanReset, system
  <2>3. /\ current' = [m \in Modules |-> IF m \in Memories THEN current[m] ELSE ResetData]
        /\ next' = NothingPrepared /\ ResetSlots /\ cycle' = 0
    BY <2>1, <2>2, Zenon DEF ResetSystem
  <2>4. /\ discardAll /\ events' = {}
        /\ gauges' = [s \in GaugeSlots |-> [value |-> 0, lastUpdate |-> 0]]
    BY <2>3, Zenon DEF discardAll, ResetSlots
  <2>5. /\ next' \in [Modules -> Data \cup {NoNext}] /\ slots' \in [Slots -> Record \cup {Empty}]
        /\ NothingOutlivesCall'
    BY <2>4, Cleared, Zenon
  <2>6. current' \in [Modules -> Data]
    BY <2>3, SystemAssumption, Zenon DEF IInv, SystemTyped
  <2>7. gauges' \in Gauges /\ events' \in Events /\ cycle' \in 0 .. CounterMax
    BY <2>3, <2>4, DescriptorAssumption, SystemAssumption DEF Gauges, Events, Value
  <2>8. SystemTyped'
    BY <1>5, <2>5, <2>6, <2>7, Zenon DEF SystemTyped
  <2>9. CallsTyped'
    BY <1>2, <2>1, Zenon DEF IInv, CallsTyped, States
  <2>10. WithinLimits'
    BY <1>2, <2>3 DEF IInv, CallsTyped, WithinLimits
  <2>11. StepReady' /\ FirstFailureKept'
    BY <1>2, <2>1, Zenon DEF StepReady, FirstFailureKept
  <2>12. ObservationsCurrent'
    BY <2>1, <2>3, <2>4, DescriptorAssumption DEF ObservationsCurrent
  <2>13. Host!Reset
    <3>1. StopLimit' = StopLimit
      BY <1>2, Zenon DEF StopLimit
    <3>2. ResetOf([data |-> current, gauges |-> gauges, events |-> events],
                  [data |-> current', gauges |-> gauges', events |-> events'])
      BY <2>3, <2>4, Zenon DEF ResetOf
    <3> QED BY <1>5, <2>1, <3>1, <3>2, Zenon DEF Host!Reset, Resettable
  <2> QED BY <2>5, <2>8, <2>9, <2>10, <2>11, <2>12, <2>13, Zenon DEF IInv, HostStep, Host!Next
<1> QED BY <1>3, <1>4, <1>5, Zenon

-----------------------------------------------------------------------------
(* Evaluation.                                                             *)

\* The lock is taken; the roots are still to be called.
LEMMA StepBeginsKeeps ==
  ASSUME IInv, StepBegins
  PROVE  IInv' /\ HostStep
<1>1. /\ state = "Ready" /\ cycle # CounterMax /\ stepping' = TRUE
      /\ UNCHANGED <<system, state, limits, committedCycles, gaugeSnapshots, lastError, latched,
                     failure>>
  BY Zenon DEF StepBegins
<1>2. UNCHANGED <<current, next, sysState, cycle, slots, events, gauges, maxTicks, maxDomainCycles>>
  BY <1>1, Zenon DEF system, modules, observations, limits
<1>3. SystemTyped'
  BY <1>2, Zenon DEF IInv, SystemTyped
<1>4. CallsTyped'
  BY <1>1, <1>2, Zenon DEF IInv, CallsTyped
<1>5. StepReady' /\ WithinLimits'
  BY <1>1, <1>2, Zenon DEF IInv, StepReady, WithinLimits
<1>6. ObservationsCurrent'
  BY <1>1, <1>2, SameObservations, Zenon DEF IInv
<1>7. NothingOutlivesCall' /\ FirstFailureKept'
  BY <1>1, Zenon DEF IInv, NothingOutlivesCall, FirstFailureKept
<1>8. View' = View
  BY <1>1, <1>2, SameView, Zenon
<1> QED BY <1>3, <1>4, <1>5, <1>6, <1>7, <1>8, Zenon DEF IInv, HostStep

\* What the Work of a root stages are snapshots.
LEMMA StagedTyped ==
  ASSUME NEW m, NEW staged \in Stagings(m), NEW s \in DOMAIN staged
  PROVE  staged[s].value \in Value /\ staged[s].valid \in BOOLEAN /\ staged[s].path \in BOOLEAN
<1>1. PICK S \in SUBSET SlotsOf[m] :
        staged \in {f \in [S -> UNION {Snapshot(t) : t \in S}] : \A t \in S : f[t] \in Snapshot(t)}
  BY Zenon DEF Stagings
<1>2. DOMAIN staged = S /\ \A t \in S : staged[t] \in Snapshot(t)
  BY <1>1, Zenon
<1>3. staged[s] \in [value : Value, valid : BOOLEAN, path : BOOLEAN]
  BY <1>2, Zenon DEF Snapshot
<1> QED BY <1>3, Zenon

\* Work prepares and stages, and commits nothing.
LEMMA StepWorkKeeps ==
  ASSUME IInv, NEW m \in Modules, NEW d \in Data, NEW staged \in Stagings(m), StepWork(m, d, staged)
  PROVE  IInv' /\ HostStep
<1>1. /\ stepping /\ next' = [next EXCEPT ![m] = d] /\ Stage(staged, cycle)
      /\ UNCHANGED <<current, sysState, cycle, events, gauges, state, limits, committedCycles,
                     gaugeSnapshots, lastError, latched, stepping, failure>>
  BY Zenon DEF StepWork, Work
<1>2. UNCHANGED <<maxTicks, maxDomainCycles>>
  BY <1>1, Zenon DEF limits
<1>3. cycle \in Nat
  BY SystemAssumption DEF IInv, SystemTyped
<1>4. slots' \in [Slots -> Record \cup {Empty}]
  <2> DEFINE rec(s) == [value |-> staged[s].value, valid |-> staged[s].valid,
                        path |-> staged[s].path, epoch |-> cycle]
  <2>1. slots' = [s \in Slots |-> IF s \in DOMAIN staged /\ ~Pending(s) THEN rec(s) ELSE slots[s]]
    BY <1>1, Zenon DEF Stage
  <2>2. ASSUME NEW s \in DOMAIN staged PROVE rec(s) \in Record
    BY <1>3, StagedTyped, Zenon DEF Record
  <2>3. \A s \in Slots : slots[s] \in Record \cup {Empty}
    BY Zenon DEF IInv, SystemTyped
  <2> HIDE DEF rec
  <2> QED BY <2>1, <2>2, <2>3, Zenon
<1>5. SystemTyped'
  BY <1>1, <1>4, Zenon DEF IInv, SystemTyped
<1>6. CallsTyped'
  BY <1>1, <1>2, Zenon DEF IInv, CallsTyped
<1>7. StepReady' /\ WithinLimits'
  BY <1>1, <1>2, Zenon DEF IInv, StepReady, WithinLimits
<1>8. ObservationsCurrent'
  BY <1>1, SameObservations, Zenon DEF IInv
<1>9. NothingOutlivesCall' /\ FirstFailureKept'
  BY <1>1, Zenon DEF IInv, NothingOutlivesCall, FirstFailureKept
<1>10. View' = View
  BY <1>1, <1>2, SameView, Zenon
<1> QED BY <1>5, <1>6, <1>7, <1>8, <1>9, <1>10, Zenon DEF IInv, HostStep

-----------------------------------------------------------------------------
(* The commit of a cycle.                                                  *)

\* Precommit has counted the events, so Xfer stores all that it takes over.
LEMMA AllStored ==
  ASSUME NEW S \in SUBSET Additions, Cardinality(Additions) <= EventCapacity
  PROVE  Stored(S) = S
<1>1. IsFiniteSet(Additions)
  BY DescriptorAssumption, FS_Subset, Zenon DEF Additions, EventSlots
<1>2. ASSUME NEW s \in S
      PROVE  Cardinality({t \in S : t <= s}) <= EventCapacity
  <2> DEFINE T == {t \in S : t <= s}
  <2>1. T \in SUBSET Additions
    BY Zenon
  <2>2. IsFiniteSet(T) /\ Cardinality(T) <= Cardinality(Additions)
    BY <1>1, <2>1, FS_Subset, Zenon
  <2>3. Cardinality(T) \in Nat /\ Cardinality(Additions) \in Nat
    BY <1>1, <2>2, FS_CardinalityType, Zenon
  <2> HIDE DEF T
  <2>4. Cardinality(T) <= EventCapacity
    BY <2>2, <2>3, DescriptorAssumption
  <2> QED BY <2>4, Zenon DEF T
<1> QED BY <1>2, Zenon DEF Stored

\* Events and gauges never share a group.
LEMMA EventGroup ==
  ASSUME NEW g \in Groups, NEW s \in g, s \in EventSlots
  PROVE  g \subseteq EventSlots
<1>1. ASSUME NEW t \in g, t \in GaugeSlots
      PROVE  FALSE
  <2>1. {t} \in Groups /\ t \in g \cap {t}
    BY <1>1, DescriptorAssumption, Zenon
  <2>2. g = {t}
    BY <2>1, DescriptorAssumption, Zenon
  <2> QED BY <1>1, <2>2, Zenon DEF EventSlots
<1> QED BY <1>1, Zenon DEF EventSlots, Slots

\* A group that Precommit accepted is taken over as a whole or not at all.
LEMMA GroupWhole ==
  ASSUME NEW e, Precommit(e), NEW g \in Groups,
         slots \in [Slots -> Record \cup {Empty}], e \in Nat
  PROVE  LET held == Committed(e + 1) \cap EventSlots \cap g IN held = {} \/ held = g
<1> SUFFICES ASSUME NEW s \in g, s \in Committed(e + 1), s \in EventSlots, NEW t \in g
             PROVE  t \in Committed(e + 1) /\ t \in EventSlots
  BY Zenon
<1>1. t \in EventSlots /\ t \in Slots
  BY EventGroup, Zenon DEF EventSlots
<1>2. Pending(s) /\ slots[s].valid /\ slots[s].path
  BY Zenon DEF Committed, Live
<1>3. /\ \A x \in g : Pending(x) /\ slots[x].epoch = e
      /\ \A x, y \in g : slots[x].path = slots[y].path
      /\ (\A x \in g : slots[x].path) => \A x, y \in g : slots[x].valid = slots[y].valid
  BY <1>2, Zenon DEF Precommit, GroupOK
<1>4. slots[t].path /\ slots[t].valid /\ Pending(t) /\ slots[t].epoch = e
  BY <1>2, <1>3, Zenon
<1> QED BY <1>1, <1>4, Zenon DEF Committed, Live

\* The gauges after a commit are known and not newer than the cycle.
LEMMA GaugesCommitted ==
  ASSUME SystemTyped, ObservationsCurrent, Precommit(cycle), XferSlots(cycle + 1),
         NEW s \in GaugeSlots
  PROVE  /\ gauges'[s].value \in Known /\ gauges'[s].lastUpdate \in Nat
         /\ gauges'[s].lastUpdate <= cycle + 1
<1>1. cycle \in Nat /\ s \in Slots /\ gauges[s].value \in Known /\ gauges[s].lastUpdate <= cycle
      /\ gauges[s].lastUpdate \in Nat
  BY SystemAssumption, DescriptorAssumption DEF SystemTyped, ObservationsCurrent, Gauges
<1>2. CASE s \in Committed(cycle + 1)
  <2>1. gauges'[s] = [value |-> slots[s].value, lastUpdate |-> cycle + 1]
    BY <1>2, Zenon DEF XferSlots
  <2>2. Live(s) /\ Pending(s)
    BY <1>2, Zenon DEF Committed, Live
  <2>3. {s} \in Groups
    BY DescriptorAssumption, Zenon
  <2>4. slots[s].value \in Known
    BY <2>2, <2>3, Zenon DEF Precommit, GroupOK
  <2> QED BY <1>1, <2>1, <2>4
<1>3. CASE s \notin Committed(cycle + 1)
  <2>1. gauges'[s] = gauges[s]
    BY <1>3, Zenon DEF XferSlots
  <2> QED BY <1>1, <2>1
<1> QED BY <1>2, <1>3, Zenon

\* A ready model completes exactly when the committed cycle is the smaller limit.
LEMMA StopsAtLimit ==
  ASSUME CallsTyped, WithinLimits, state = "Ready", cycle \in Nat
  PROVE  /\ LimitReached(cycle + 1) <=> cycle + 1 \in StopLimit
         /\ ~LimitReached(cycle + 1) =>
              \A n \in {maxTicks, maxDomainCycles} \ {None} : cycle + 1 < n
<1> DEFINE bounds == {maxTicks, maxDomainCycles} \ {None}
<1>1. bounds \subseteq Nat /\ \A n \in bounds : cycle < n
  BY Zenon DEF CallsTyped, WithinLimits
<1>2. \A n \in bounds : cycle + 1 <= n /\ (cycle + 1 >= n <=> n = cycle + 1)
  BY <1>1
<1>3. LimitReached(cycle + 1) <=> \E n \in bounds : cycle + 1 >= n
  BY DEF LimitReached, Reached
<1>4. cycle + 1 \in StopLimit <=> cycle + 1 \in bounds /\ \A k \in bounds : cycle + 1 <= k
  BY Zenon DEF StopLimit
<1> HIDE DEF bounds
<1>5. LimitReached(cycle + 1) <=> cycle + 1 \in StopLimit
  BY <1>2, <1>3, <1>4, Zenon
<1>6. ~LimitReached(cycle + 1) => \A n \in bounds : cycle + 1 < n
  BY <1>1, <1>2, <1>3
<1> QED BY <1>5, <1>6, Zenon DEF bounds

\* A commit takes over one evaluation as a whole, and is the Commit of the ABI.
LEMMA StepCommitsKeeps ==
  ASSUME IInv, StepCommits
  PROVE  IInv' /\ HostStep
<1>1. /\ stepping /\ Precommit(cycle) /\ XferSystem /\ committedCycles' = cycle'
      /\ gaugeSnapshots' = gauges' /\ stepping' = FALSE
      /\ UNCHANGED <<limits, latched, failure>>
  BY Zenon DEF StepCommits, Evaluated
<1>2. /\ current' = [m \in Modules |-> IF next[m] = NoNext THEN current[m] ELSE next[m]]
      /\ next' = NothingPrepared /\ cycle' = cycle + 1 /\ XferSlots(cycle + 1)
      /\ UNCHANGED sysState
  BY <1>1, Zenon DEF XferSystem
<1>3. /\ UNCHANGED <<maxTicks, maxDomainCycles>> /\ state = "Ready" /\ cycle \in Nat
      /\ cycle + 1 \in 0 .. CounterMax
  BY <1>1, SystemAssumption DEF limits, IInv, StepReady, SystemTyped
<1>4. ~latched /\ ~latched' /\ latched' \in BOOLEAN
  BY <1>1, <1>3, Zenon DEF IInv, CallsTyped, FirstFailureKept
<1> DEFINE C == Committed(cycle + 1) \cap EventSlots
<1>5. Stored(C) = C
  <2>1. C \subseteq Additions
    BY Zenon DEF Committed, Additions
  <2>2. Cardinality(Additions) <= EventCapacity
    BY <1>1, Zenon DEF Precommit
  <2> QED BY <2>1, <2>2, AllStored, Zenon
<1>6. events' = {[epoch |-> cycle + 1, slot |-> s] : s \in C}
  BY <1>2, <1>5, Zenon DEF XferSlots
<1>7. discardAll
  BY <1>2, Zenon DEF discardAll, XferSlots
<1>8. /\ next' \in [Modules -> Data \cup {NoNext}] /\ slots' \in [Slots -> Record \cup {Empty}]
      /\ NothingOutlivesCall'
  BY <1>7, Cleared, Zenon
<1>9. current' \in [Modules -> Data]
  BY <1>2, Zenon DEF IInv, SystemTyped
<1>10. events' \in Events
  BY <1>3, <1>6 DEF Events
<1>11. \A s \in GaugeSlots : /\ gauges'[s].value \in Known /\ gauges'[s].lastUpdate \in Nat
                             /\ gauges'[s].lastUpdate <= cycle + 1
  BY <1>1, <1>2, GaugesCommitted, Zenon DEF IInv
<1>12. gauges' \in Gauges
  <2>1. \A s \in GaugeSlots : s \in Slots /\ gauges[s] \in [value : Value, lastUpdate : Nat]
    BY DescriptorAssumption, Zenon DEF IInv, SystemTyped, Gauges
  <2>2. ASSUME NEW s \in GaugeSlots, s \in Committed(cycle + 1)
        PROVE  slots[s].value \in Value
    <3>1. slots[s] \in Record
      BY <2>1, <2>2, Zenon DEF Committed, Live, Pending, IInv, SystemTyped
    <3> QED BY <3>1, Zenon DEF Record
  <2> DEFINE new(s) == IF s \in Committed(cycle + 1)
                       THEN [value |-> slots[s].value, lastUpdate |-> cycle + 1] ELSE gauges[s]
  <2>3. \A s \in GaugeSlots : new(s) \in [value : Value, lastUpdate : Nat]
    BY <1>3, <2>1, <2>2
  <2>4. gauges' = [s \in GaugeSlots |-> new(s)]
    BY <1>2, Zenon DEF XferSlots
  <2> HIDE DEF new
  <2> QED BY <2>3, <2>4, Zenon DEF Gauges
<1>13. SystemTyped'
  BY <1>2, <1>3, <1>8, <1>9, <1>10, <1>12, Zenon DEF IInv, SystemTyped
<1>14. ObservationsCurrent'
  <2>1. \A e \in events' : e.epoch = cycle'
    BY <1>2, <1>6
  <2>2. {e.slot : e \in events'} = C
    <3> HIDE DEF C
    <3>1. ASSUME NEW x \in {e.slot : e \in events'}
          PROVE  x \in C
      BY <1>6
    <3>2. ASSUME NEW s \in C
          PROVE  s \in {e.slot : e \in events'}
      <4> DEFINE e == [epoch |-> cycle + 1, slot |-> s]
      <4>1. e \in events' /\ e.slot = s
        BY <1>6, Zenon
      <4> HIDE DEF e
      <4> QED BY <4>1, Zenon
    <3> QED BY <3>1, <3>2, Zenon
  <2>3. \A g \in Groups : C \cap g = {} \/ C \cap g = g
    BY <1>1, <1>3, GroupWhole, Zenon DEF IInv, SystemTyped
  <2> HIDE DEF C
  <2> QED BY <1>1, <1>2, <1>11, <2>1, <2>2, <2>3, Zenon DEF ObservationsCurrent
<1>15. /\ LimitReached(cycle + 1) <=> cycle + 1 \in StopLimit
       /\ ~LimitReached(cycle + 1) => \A n \in {maxTicks, maxDomainCycles} \ {None} : cycle + 1 < n
  BY <1>3, StopsAtLimit, Zenon DEF IInv
<1>16. state' = IF LimitReached(cycle + 1) THEN "Completed" ELSE "Ready"
  BY <1>2, <1>3, Zenon DEF StepCommits, stop
<1>17. CallsTyped'
  BY <1>1, <1>3, <1>4, <1>16, Zenon DEF IInv, CallsTyped, States
<1>18. StepReady' /\ FirstFailureKept'
  BY <1>1, <1>4, Zenon DEF StepReady, FirstFailureKept
<1>19. WithinLimits'
  BY <1>2, <1>3, <1>15, <1>16, Zenon DEF WithinLimits
<1>20. Host!Commit
  <2>1. StopLimit' = StopLimit
    BY <1>3, Zenon DEF StopLimit
  <2>2. [data |-> current, gauges |-> gauges, events |-> events]'
          \in [data : [Modules -> Data], gauges : [GaugeSlots -> [value : Value, lastUpdate : Nat]],
               events : SUBSET [epoch : 0 .. CounterMax, slot : EventSlots]]
    BY <1>9, <1>10, <1>12, Zenon DEF Gauges, Events
  <2>3. committedCycles' = committedCycles + 1 /\ committedCycles' = cycle + 1
    BY <1>1, <1>2, Zenon DEF IInv, ObservationsCurrent
  <2>4. state' = IF committedCycles' \in StopLimit THEN "Completed" ELSE "Ready"
    BY <1>15, <1>16, <2>3, Zenon
  <2> QED BY <1>3, <2>1, <2>2, <2>3, <2>4, Zenon DEF Host!Commit
<1> QED BY <1>8, <1>13, <1>14, <1>17, <1>18, <1>19, <1>20, Zenon DEF IInv, HostStep, Host!Next

-----------------------------------------------------------------------------
(* Together.                                                               *)

\* Calls that are refused, and the step of a model without work.
LEMMA RefusedKeeps ==
  ASSUME IInv, ConfigureRefused \/ StepRefused \/ StepNotReady \/ StepQuiescent \/ StatisticsFail
               \/ LastErrorRefused
  PROVE  IInv' /\ HostStep
<1>1. UNCHANGED <<system, state, limits, committedCycles, gaugeSnapshots, latched, call, failure>>
  BY Zenon DEF ConfigureRefused, StepRefused, StepNotReady, StepQuiescent, StatisticsFail,
               LastErrorRefused
<1>2. latched => lastError' = lastError
  <2>1. CASE StepQuiescent
    BY <2>1, Zenon DEF StepQuiescent, IInv, FirstFailureKept
  <2>2. CASE ConfigureRefused \/ StepRefused \/ StatisticsFail \/ LastErrorRefused
    BY <2>2, Zenon DEF ConfigureRefused, StepRefused, StatisticsFail, LastErrorRefused, setError
  <2>3. CASE StepNotReady
    BY <2>3, Zenon DEF StepNotReady, setError
  <2> QED BY <2>1, <2>2, <2>3, Zenon
<1> QED BY <1>1, <1>2, QuietKeeps, Zenon

\* Steps that fail: before, in or after the evaluation.
LEMMA StepFailsKeeps ==
  ASSUME IInv, StepOverflow \/ (\E m \in Modules : StepWorkThrows(m)) \/ StepCheckFails
  PROVE  IInv' /\ HostStep
<1>1. /\ failExecution /\ state = "Ready" /\ UNCHANGED <<limits, committedCycles, gaugeSnapshots>>
  BY Zenon DEF StepOverflow, StepWorkThrows, StepCheckFails, Evaluated, IInv, StepReady
<1>2. CASE StepOverflow
  <2>1. UNCHANGED <<current, next, sysState, cycle, slots, events, gauges, stepping>> /\ ~stepping
    BY <1>2, Zenon DEF StepOverflow, Callable, system, modules, observations, call
  <2>2. stepping' = FALSE
    BY <2>1, Zenon DEF IInv, CallsTyped
  <2> QED BY <1>1, <2>1, <2>2, FailKeeps, Zenon DEF IInv, SystemTyped
<1>3. CASE (\E m \in Modules : StepWorkThrows(m)) \/ StepCheckFails
  <2>1. /\ discardAll /\ sysState' = "Failed" /\ stepping' = FALSE
        /\ UNCHANGED <<current, cycle, events, gauges>>
    BY <1>3, Zenon DEF StepWorkThrows, WorkThrows, StepCheckFails, CheckFails
  <2> QED BY <1>1, <2>1, FailKeeps, Zenon
<1> QED BY <1>2, <1>3, Zenon

\* Init satisfies the invariant.
LEMMA Initial ==
  ASSUME Init
  PROVE  IInv /\ Host!Init
<1>1. /\ slots = [s \in Slots |-> Empty] /\ events = {}
      /\ gauges = [s \in GaugeSlots |-> [value |-> 0, lastUpdate |-> 0]]
      /\ current = [m \in Modules |-> PowerUp] /\ next = NothingPrepared
      /\ sysState = "PreBuild" /\ cycle = 0
  BY Zenon DEF Init, InitSystem, InitSlots
<1>2. /\ state = "New" /\ maxTicks = None /\ maxDomainCycles = None /\ committedCycles = 0
      /\ gaugeSnapshots = gauges /\ latched = FALSE /\ stepping = FALSE
  BY Zenon DEF Init
<1>3. current \in [Modules -> Data] /\ events \in Events /\ gauges \in Gauges
  BY <1>1, SystemAssumption, DescriptorAssumption, Zenon DEF Events, Gauges, Value
<1>4. SystemTyped
  BY <1>1, <1>3, SystemAssumption DEF SystemTyped, NothingPrepared
<1>5. CallsTyped
  BY <1>2, Zenon DEF CallsTyped, States
<1>6. StepReady /\ WithinLimits /\ FirstFailureKept
  BY <1>2, Zenon DEF StepReady, WithinLimits, FirstFailureKept
<1>7. ObservationsCurrent
  BY <1>1, <1>2, DescriptorAssumption DEF ObservationsCurrent
<1>8. NothingOutlivesCall
  BY <1>1, Zenon DEF NothingOutlivesCall, Pending
<1>9. Host!Init
  <2>1. StopLimit = {}
    BY <1>2, Zenon DEF StopLimit
  <2> QED BY <1>2, <1>3, <2>1, Zenon DEF Host!Init, Gauges, Events
<1> QED BY <1>4, <1>5, <1>6, <1>7, <1>8, <1>9, Zenon DEF IInv

\* Every call keeps the invariant and is a step of the ABI or invisible.
LEMMA Inductive ==
  ASSUME IInv, [Next]_vars
  PROVE  IInv' /\ HostStep
<1>1. CASE UNCHANGED vars
  <2>1. UNCHANGED <<system, state, limits, committedCycles, gaugeSnapshots, latched, call, failure,
                    lastError>>
    BY <1>1, Zenon DEF vars
  <2> QED BY <2>1, QuietKeeps, Zenon
<1>2. CASE ConstructInvalid \/ ConstructBuildFails \/ Construct
  BY <1>2, ConstructKeeps, Zenon
<1>3. CASE \E t, d \in Limits \cup {None} : ConfigureJson(t, d)
  BY <1>3, ConfigureJsonKeeps, Zenon
<1>4. CASE Reset
  BY <1>4, ResetKeeps, Zenon
<1>5. CASE ConfigureRefused \/ StepRefused \/ StepNotReady \/ StepQuiescent \/ StatisticsFail
           \/ LastErrorRefused
  BY <1>5, RefusedKeeps, Zenon
<1>6. CASE StepOverflow \/ (\E m \in Modules : StepWorkThrows(m)) \/ StepCheckFails
  BY <1>6, StepFailsKeeps, Zenon
<1>7. CASE StepBegins
  BY <1>7, StepBeginsKeeps, Zenon
<1>8. CASE \E m \in Modules, d \in Data : \E staged \in Stagings(m) : StepWork(m, d, staged)
  BY <1>8, StepWorkKeeps, Zenon
<1>9. CASE StepCommits
  BY <1>9, StepCommitsKeeps, Zenon
<1> QED BY <1>1, <1>2, <1>3, <1>4, <1>5, <1>6, <1>7, <1>8, <1>9, Zenon DEF Next

\* The invariant holds in every reachable state of the executor.
THEOREM Invariant == Spec => []IInv
<1>1. Init => IInv
  BY Initial, Zenon
<1>2. IInv /\ [Next]_vars => IInv'
  BY Inductive, Zenon
<1> QED BY <1>1, <1>2, PTL DEF Spec

\* What the executor reports is its last committed cycle, and the events of it
\* are whole groups, after any sequence of steps, failures and resets.
THEOREM Current == Spec => []ObservationsCurrent
<1>1. IInv => ObservationsCurrent
  BY Zenon DEF IInv
<1> QED BY <1>1, Invariant, PTL

\* No call leaves prepared state or pending snapshots to a later one.
THEOREM NothingLeft == Spec => []NothingOutlivesCall
<1>1. IInv => NothingOutlivesCall
  BY Zenon DEF IInv
<1> QED BY <1>1, Invariant, PTL

\* The error of a failed execution stays until a Reset succeeds.
THEOREM FailureKept == Spec => []FirstFailureKept
<1>1. IInv => FirstFailureKept
  BY Zenon DEF IInv
<1> QED BY <1>1, Invariant, PTL

\* The executor, root by root, implements the atomic life cycle of the ABI.
THEOREM Implements == Spec => ImplementsApi
<1>1. Init => Host!Init
  BY Initial, Zenon
<1>2. IInv /\ [Next]_vars => [Host!Next]_View
  BY Inductive, Zenon DEF HostStep
<1>3. Spec => Host!Init /\ [][Host!Next]_View
  BY <1>1, <1>2, Invariant, PTL DEF Spec
<1> QED BY <1>3, Zenon DEF ImplementsApi, Host!Spec, View

-----------------------------------------------------------------------------
(* The loop that drives an executor (module SystemRunner).                 *)

CONSTANTS RunGroups, RunGauges, MaxLimit

VARIABLES config, pc, cycles, run_events, lastUpdate, last, records, status, code,
          incomplete, stream, committed

\* The module under its own names; its variables are not those of SimExecutor.
Runner == INSTANCE SystemRunner WITH
  Groups <- RunGroups, Gauges <- RunGauges, events <- run_events

\* Finiteness and cardinality are the same in the module of the runner.
LEMMA RunnerFinite == \A S : Runner!IsFiniteSet(S) <=> IsFiniteSet(S)
BY Zenon DEF IsFiniteSet, Runner!IsFiniteSet

\* See RunnerFinite.
LEMMA RunnerCardinality == \A S : Runner!Cardinality(S) = Cardinality(S)
BY Zenon DEF Cardinality, Runner!Cardinality

\* The records of committed groups.
EventRecords == [kind : {"event"}, epoch : Nat, what : RunGroups]

\* The form of the state of a run.
RunTyped ==
  /\ config \in Runner!Configs
  /\ pc \in {"start", "drive", "step", "sample", "write", "finish", "report", "done"}
  /\ cycles \in 0 .. config.limit
  /\ run_events \subseteq RunGroups
  /\ lastUpdate \in [RunGauges -> 0 .. cycles]
  /\ last \in {"RUNNING", "TERMINATED", "QUIESCENT"}
  /\ records \in Seq(EventRecords)
  /\ committed \in Seq(EventRecords)

\* What is committed and not yet in the stream.
Unwritten ==
  CASE pc = "sample" /\ last # "QUIESCENT" -> Runner!RecordsOf(run_events \cup Runner!Updated, cycles)
    [] pc = "write" -> records
    [] OTHER -> <<>>

\* While the run goes on, the stream holds all the rest.
Underway ==
  pc # "done" =>
    IF config.sink
    THEN stream \in Seq(EventRecords) /\ committed = stream \o Unwritten
    ELSE stream = <<>>

\* A stream that has ended: records of the first n groups, and perhaps one of
\* another kind, which is a result only after all of them.
Ends(n) ==
  LET before == SubSeq(committed, 1, n)
  IN \/ stream = before
     \/ \E i \in DOMAIN stream :
          /\ stream[i].kind \in {"partial", "result"}
          /\ stream[i].kind = "result" => n = Len(committed)
          /\ stream = Append(before, stream[i])

\* A run that goes on has not reached its limit.
BelowLimit ==
  \/ pc \in {"start", "drive", "step"}
  \/ pc \in {"sample", "write"} /\ last = "RUNNING"
  => cycles < config.limit

\* A status that is a success, and the schedule it is checked against.
Successful ==
  /\ pc \in {"finish", "report", "done"} /\ code = 0 => status \in {"TERMINATED", "QUIESCENT"}
  /\ pc \in {"report", "done"} /\ code = 0 => (config.expected # 0 => cycles = config.expected)

\* What a run that is over has left in the stream.
Ended ==
  pc = "done" =>
    /\ \E n \in 0 .. Len(committed) : Ends(n)
    /\ code = 0 => IF config.sink THEN stream = Append(committed, Runner!Result) ELSE stream = <<>>

\* The inductive invariant of a run.
RunInv == RunTyped /\ Underway /\ BelowLimit /\ Successful /\ Ended

\* How many groups of S come before g: every number below the size of S is
\* that of one group, so RecordsOf finds a group for every place.
LEMMA GroupAtEveryPlace ==
  ASSUME NEW S, S \subseteq Nat, IsFiniteSet(S)
  PROVE  /\ Cardinality(S) \in Nat
         /\ \A i \in 1 .. Cardinality(S) : \E g \in S : Cardinality({h \in S : h < g}) = i - 1
         /\ \A g \in S : Cardinality({h \in S : h < g}) \in 0 .. (Cardinality(S) - 1)
         /\ \A g \in S, k \in S : g < k => Cardinality({h \in S : h < g}) < Cardinality({h \in S : h < k})
<1> DEFINE Before(g) == {h \in S : h < g}
           N == Cardinality(S)
           rank == [g \in S |-> Cardinality(Before(g))]
<1>1. N \in Nat
  BY FS_CardinalityType, Zenon
<1>2. ASSUME NEW g \in S PROVE IsFiniteSet(Before(g)) /\ Cardinality(Before(g)) \in 0 .. (N - 1)
  <2>1. Before(g) \in SUBSET S /\ g \notin Before(g)
    OBVIOUS
  <2>2. IsFiniteSet(Before(g)) /\ Cardinality(Before(g)) <= N /\ N # Cardinality(Before(g))
    <3> HIDE DEF Before
    <3> QED BY <2>1, FS_Subset, Zenon
  <2>3. Cardinality(Before(g)) \in Nat
    BY <2>2, FS_CardinalityType
  <2> HIDE DEF Before, N
  <2> QED BY <1>1, <2>2, <2>3
<1>3. ASSUME NEW g \in S, NEW k \in S, g < k PROVE Cardinality(Before(g)) < Cardinality(Before(k))
  <2>1. Before(g) \in SUBSET Before(k) /\ g \in Before(k) /\ g \notin Before(g)
    <3>1. g \in Nat /\ k \in Nat /\ g < k
      BY <1>3, Zenon
    <3>2. ASSUME NEW h \in S, h < g PROVE h < k
      <4>1. h \in Nat
        BY Zenon
      <4> QED BY <3>1, <3>2, <4>1
    <3>3. ~(g < g)
      BY <3>1
    <3> QED BY <3>1, <3>2, <3>3, Zenon
  <2>2. Cardinality(Before(g)) <= Cardinality(Before(k)) /\ Cardinality(Before(k)) # Cardinality(Before(g))
    <3> HIDE DEF Before
    <3> QED BY <1>2, <2>1, FS_Subset, Zenon
  <2> HIDE DEF Before, N
  <2> QED BY <1>1, <1>2, <2>2
<1>4. rank \in Injection(S, 0 .. (N - 1))
  <2>1. rank \in [S -> 0 .. (N - 1)]
    <3> HIDE DEF Before, N
    <3> QED BY <1>2, Zenon
  <2>2. ASSUME NEW g \in S, NEW k \in S, rank[g] = rank[k] PROVE g = k
    <3>1. g \in Nat /\ k \in Nat /\ (g < k \/ k < g \/ g = k)
      OBVIOUS
    <3> HIDE DEF Before, N
    <3>2. Cardinality(Before(g)) = Cardinality(Before(k))
      BY <2>2, Zenon
    <3> QED BY <1>1, <1>2, <1>3, <3>1, <3>2
  <2> HIDE DEF rank, N
  <2> QED BY <2>1, <2>2, Zenon DEF Injection, IsInjective
<1>5. IsFiniteSet(0 .. (N - 1)) /\ Cardinality(0 .. (N - 1)) = N
  <2> HIDE DEF N
  <2>1. 0 \in Int /\ N - 1 \in Int
    BY <1>1
  <2> QED BY <1>1, <2>1, FS_Interval
<1>6. rank \in Surjection(S, 0 .. (N - 1))
  <2> HIDE DEF rank
  <2> QED BY <1>4, <1>5, FS_Injection, Zenon
<1>7. ASSUME NEW i \in 1 .. N PROVE \E g \in S : Cardinality(Before(g)) = i - 1
  <2>1. i - 1 \in 0 .. (N - 1)
    BY <1>1
  <2>2. PICK g \in S : rank[g] = i - 1
    <3> HIDE DEF rank, N
    <3> QED BY <1>6, <2>1, Zenon DEF Surjection
  <2> QED BY <2>2, Zenon
<1> QED BY <1>1, <1>2, <1>3, <1>7, Zenon

\* The records of a set of groups: one for every group, in descriptor order.
LEMMA RecordsInOrder ==
  ASSUME Runner!RunnerAssumption, NEW S \in SUBSET RunGroups, NEW epoch \in Nat
  PROVE  /\ Runner!RecordsOf(S, epoch) \in Seq(EventRecords)
         /\ \A g \in S : \E i \in DOMAIN Runner!RecordsOf(S, epoch) : Runner!RecordsOf(S, epoch)[i] = Runner!Record(epoch, g)
         /\ \A i, j \in DOMAIN Runner!RecordsOf(S, epoch) :
              i < j => Runner!RecordsOf(S, epoch)[i].what < Runner!RecordsOf(S, epoch)[j].what
<1> DEFINE N == Cardinality(S)
           Rank(g) == Cardinality({h \in S : h < g})
           nth(i) == CHOOSE g \in S : Rank(g) = i - 1
           r == Runner!RecordsOf(S, epoch)
<1>1. S \subseteq Nat /\ IsFiniteSet(S) /\ S \subseteq RunGroups
  BY FS_Subset, RunnerFinite, Zenon DEF Runner!RunnerAssumption
<1>2. /\ N \in Nat
      /\ \A i \in 1 .. N : \E g \in S : Rank(g) = i - 1
      /\ \A g \in S : Rank(g) \in 0 .. (N - 1)
      /\ \A g \in S, k \in S : g < k => Rank(g) < Rank(k)
  BY <1>1, GroupAtEveryPlace, Zenon
<1>3. r = [i \in 1 .. N |-> Runner!Record(epoch, nth(i))]
  BY Zenon DEF Runner!RecordsOf, Cardinality, Runner!Cardinality
<1> HIDE DEF r, Rank, N
<1>4. ASSUME NEW i \in 1 .. N PROVE nth(i) \in S /\ Rank(nth(i)) = i - 1
  BY <1>2, Zenon
<1> HIDE DEF nth
<1>5. r \in Seq(EventRecords)
  <2>1. \A i \in 1 .. N : Runner!Record(epoch, nth(i)) \in EventRecords
    <3> SUFFICES ASSUME NEW i \in 1 .. N PROVE Runner!Record(epoch, nth(i)) \in EventRecords
      BY Zenon
    <3>1. nth(i) \in RunGroups
      BY <1>1, <1>4, Zenon
    <3> QED BY <3>1, Zenon DEF Runner!Record, EventRecords
  <2> QED BY <1>2, <1>3, <2>1, IsASeq
<1>6. ASSUME NEW g \in S PROVE \E i \in DOMAIN r : r[i] = Runner!Record(epoch, g)
  <2>1. \A k \in S : Rank(k) \in 0 .. (N - 1)
    BY <1>2, Zenon
  <2>2. Rank(g) + 1 \in 1 .. N
    BY <1>2, <2>1
  <2>3. nth(Rank(g) + 1) \in S /\ Rank(nth(Rank(g) + 1)) = Rank(g)
    BY <1>4, <2>1, <2>2
  <2>4. nth(Rank(g) + 1) = g
    <3>1. \A k \in S : k \in Nat
      BY <1>1, Zenon
    <3>2. \A k \in S : k # g => Rank(k) # Rank(g)
      BY <1>2, <2>1, <3>1
    <3> QED BY <2>3, <3>2, Zenon
  <2> QED BY <1>3, <2>2, <2>4, Zenon
<1>7. ASSUME NEW i \in DOMAIN r, NEW j \in DOMAIN r, i < j PROVE r[i].what < r[j].what
  <2>1. i \in 1 .. N /\ j \in 1 .. N
    BY <1>3, Zenon
  <2>2. r[i].what = nth(i) /\ r[j].what = nth(j)
    BY <1>3, <2>1, Zenon DEF Runner!Record
  <2>3. nth(i) \in Nat /\ nth(j) \in Nat /\ nth(i) \in S /\ nth(j) \in S
    BY <1>1, <1>4, <2>1, Zenon
  <2>4. Rank(nth(i)) = i - 1 /\ Rank(nth(j)) = j - 1
    BY <1>4, <2>1, Zenon
  <2>5. ~(nth(j) < nth(i)) /\ nth(i) # nth(j)
    BY <1>2, <1>7, <2>1, <2>3, <2>4
  <2> QED BY <2>2, <2>3, <2>5
<1> QED BY <1>5, <1>6, <1>7, Zenon DEF r

\* The first elements of a sequence, up to where another one was appended.
LEMMA FirstPart ==
  ASSUME NEW E, NEW s \in Seq(E), NEW t \in Seq(E)
  PROVE  Len(s) \in 0 .. Len(s \o t) /\ SubSeq(s \o t, 1, Len(s)) = s /\ s \o t \in Seq(E)
<1>1. /\ s \o t \in Seq(E) /\ Len(s \o t) = Len(s) + Len(t)
      /\ \A i \in 1 .. Len(s) + Len(t) : (s \o t)[i] = IF i <= Len(s) THEN s[i] ELSE t[i - Len(s)]
  BY ConcatProperties, Zenon
<1>2. Len(s) \in Nat /\ Len(t) \in Nat /\ DOMAIN s = 1 .. Len(s) /\ \A i \in 1 .. Len(s) : s[i] \in E
  BY LenProperties, ElementOfSeq, Zenon
<1>3. \A i \in 1 .. Len(s) : (s \o t)[i] = s[i]
  BY <1>1, <1>2
<1> DEFINE u == s \o t
<1> HIDE DEF u
<1>4. SubSeq(u, 1, Len(s)) \in Seq(E) /\ Len(SubSeq(u, 1, Len(s))) = Len(s)
      /\ \A i \in 1 .. Len(s) : SubSeq(u, 1, Len(s))[i] = u[i]
  <2>1. \A i \in 1 .. Len(s) : u[i] \in E
    BY <1>2, <1>3, Zenon DEF u
  <2>2. 1 \in Int /\ Len(s) \in Int
    BY <1>2
  <2> DEFINE v == SubSeq(u, 1, Len(s))
  <2>3. /\ v \in Seq(E) /\ Len(v) = IF 1 <= Len(s) THEN Len(s) - 1 + 1 ELSE 0
        /\ \A i \in 1 .. (Len(s) - 1 + 1) : v[i] = u[1 + i - 1]
    BY <2>1, <2>2, SubSeqProperties
  <2> HIDE DEF v
  <2>4. Len(v) = Len(s)
    BY <1>2, <2>3
  <2>5. ASSUME NEW i \in 1 .. Len(s) PROVE v[i] = u[i]
    <3>1. i \in 1 .. (Len(s) - 1 + 1) /\ 1 + i - 1 = i
      BY <1>2
    <3> QED BY <2>3, <3>1, Zenon
  <2> QED BY <2>3, <2>4, <2>5, Zenon DEF v
<1>5. SubSeq(u, 1, Len(s)) = s
  BY <1>3, <1>4, SeqEqual, Zenon DEF u
<1> QED BY <1>1, <1>2, <1>5 DEF u

\* A record moves from the records of the cycle to the stream.
LEMMA MoveFirst ==
  ASSUME NEW E, NEW s \in Seq(E), NEW t \in Seq(E), t # <<>>
  PROVE  /\ Head(t) \in E /\ Tail(t) \in Seq(E)
         /\ Append(s, Head(t)) \in Seq(E)
         /\ Append(s, Head(t)) \o Tail(t) = s \o t
<1>1. /\ Head(t) \in E /\ Tail(t) \in Seq(E) /\ Len(Tail(t)) = Len(t) - 1
      /\ \A i \in 1 .. Len(Tail(t)) : Tail(t)[i] = t[i + 1]
  BY HeadTailProperties, Zenon
<1>2. Append(s, Head(t)) = s \o <<Head(t)>> /\ Append(s, Head(t)) \in Seq(E)
  BY <1>1, AppendIsConcat, AppendProperties, Zenon
<1>3. <<Head(t)>> \o Tail(t) = t
  <2> DEFINE h == Head(t)
             u == Tail(t)
  <2>1. t[1] = h /\ Len(t) \in Nat /\ Len(t) # 0
    OBVIOUS
  <2> HIDE DEF h, u
  <2>2. <<h>> \in Seq(E)
    BY <1>1 DEF h
  <2>3. /\ <<h>> \o u \in Seq(E) /\ Len(<<h>> \o u) = 1 + Len(u)
        /\ \A i \in 1 .. (1 + Len(u)) : (<<h>> \o u)[i] = IF i <= 1 THEN h ELSE u[i - 1]
    BY <1>1, <2>2, ConcatProperties DEF u
  <2>4. Len(<<h>> \o u) = Len(t)
    BY <1>1, <2>1, <2>3 DEF u
  <2>5. ASSUME NEW i \in 1 .. Len(<<h>> \o u) PROVE (<<h>> \o u)[i] = t[i]
    <3>1. CASE i = 1
      BY <2>1, <2>3, <3>1
    <3>2. CASE i # 1
      <4>1. i \in 1 .. (1 + Len(u)) /\ ~(i <= 1) /\ i - 1 \in 1 .. Len(u) /\ (i - 1) + 1 = i
        BY <1>1, <2>1, <2>3, <3>2 DEF u
      <4>2. (<<h>> \o u)[i] = u[i - 1]
        BY <2>3, <4>1, Zenon
      <4>3. u[i - 1] = t[(i - 1) + 1]
        BY <1>1, <4>1, Zenon DEF u
      <4> QED BY <4>1, <4>2, <4>3, Zenon
    <3> QED BY <3>1, <3>2, Zenon
  <2>6. <<h>> \o u = t
    BY <2>3, <2>4, <2>5, SeqEqual, Zenon
  <2> QED BY <2>6, Zenon DEF h, u
<1>4. (s \o <<Head(t)>>) \o Tail(t) = s \o (<<Head(t)>> \o Tail(t))
  <2>1. <<Head(t)>> \in Seq(E)
    BY <1>1
  <2> QED BY <1>1, <2>1, ConcatAssociative
<1> QED BY <1>1, <1>2, <1>3, <1>4, Zenon

\* What a configuration holds.
LEMMA ConfigFields ==
  ASSUME Runner!RunnerAssumption, config \in Runner!Configs
  PROVE  /\ config.limit \in Nat \ {0} /\ config.sink \in BOOLEAN
         /\ config.expected \in Nat
<1>1. config \in [limit : 1 .. MaxLimit, driven : BOOLEAN, expected : 0 .. MaxLimit,
                  sink : BOOLEAN, roots : BOOLEAN]
  BY Zenon DEF Runner!Configs
<1> QED BY <1>1 DEF Runner!RunnerAssumption

\* What a cycle samples is a sequence of records.
LEMMA SampleTyped ==
  ASSUME RunTyped, Runner!RunnerAssumption
  PROVE  Runner!RecordsOf(run_events \cup Runner!Updated, cycles) \in Seq(EventRecords)
<1>1. config \in Runner!Configs /\ run_events \subseteq RunGroups /\ cycles \in 0 .. config.limit
  BY Zenon DEF RunTyped
<1>2. config.limit \in Nat
  BY <1>1, ConfigFields, Zenon
<1>3. Runner!Updated \subseteq RunGroups
  BY Zenon DEF Runner!Updated, Runner!RunnerAssumption
<1>4. run_events \cup Runner!Updated \in SUBSET RunGroups /\ cycles \in Nat
  BY <1>1, <1>2, <1>3
<1> QED BY <1>4, RecordsInOrder, Zenon

\* Types hold after a step that commits nothing and serialises nothing.
LEMMA TypedSame ==
  ASSUME RunTyped, UNCHANGED <<config, cycles, Runner!slots, committed>>,
         pc' \in {"start", "drive", "step", "sample", "write", "finish", "report", "done"},
         last' \in {"RUNNING", "TERMINATED", "QUIESCENT"}, records' \in Seq(EventRecords)
  PROVE  RunTyped'
BY Zenon DEF RunTyped, Runner!slots

\* While the run goes on, the stream holds the first of the committed records.
LEMMA StreamSoFar ==
  ASSUME RunInv, pc # "done", Runner!RunnerAssumption
  PROVE  \E n \in 0 .. Len(committed) :
           /\ stream = SubSeq(committed, 1, n)
           /\ Unwritten = <<>> /\ config.sink => n = Len(committed) /\ stream = committed
<1>1. CASE config.sink
  <2>1. stream \in Seq(EventRecords) /\ committed = stream \o Unwritten /\ committed \in Seq(EventRecords)
    BY <1>1, Zenon DEF RunInv, Underway, RunTyped
  <2>2. Unwritten \in Seq(EventRecords)
    <3>2. CASE pc = "sample" /\ last # "QUIESCENT"
      BY <3>2, SampleTyped, Zenon DEF Unwritten, RunInv
    <3>3. CASE pc = "write"
      BY <3>3, Zenon DEF Unwritten, RunInv, RunTyped
    <3>4. CASE ~(pc = "sample" /\ last # "QUIESCENT") /\ pc # "write"
      BY <3>4 DEF Unwritten
    <3> QED BY <3>2, <3>3, <3>4, Zenon
  <2>3. Len(stream) \in 0 .. Len(committed) /\ SubSeq(committed, 1, Len(stream)) = stream
    BY <2>1, <2>2, FirstPart, Zenon
  <2>4. Unwritten = <<>> => stream = committed
    BY <2>1, ConcatEmptySeq, Zenon
  <2> QED BY <2>3, <2>4, Zenon
<1>2. CASE ~config.sink
  <2>1. stream = <<>> /\ committed \in Seq(EventRecords)
    BY <1>2, Zenon DEF RunInv, Underway, RunTyped
  <2>2. SubSeq(committed, 1, 0) = <<>>
    BY SubSeqEmpty
  <2>3. 0 \in 0 .. Len(committed)
    BY <2>1
  <2> QED BY <1>2, <2>1, <2>2, <2>3, Zenon
<1> QED BY <1>1, <1>2, Zenon

\* Run returns an error and writes nothing more.
LEMMA Stops ==
  ASSUME RunInv, Runner!RunnerAssumption, pc # "done", pc' = "done", code' # 0,
         UNCHANGED <<config, cycles, Runner!slots, last, records, stream, committed>>
  PROVE  RunInv'
<1>1. RunTyped'
  BY TypedSame, Zenon DEF RunInv, RunTyped
<1>2. \E n \in 0 .. Len(committed) : stream = SubSeq(committed, 1, n)
  BY StreamSoFar, Zenon
<1>3. Ended'
  BY <1>2, Zenon DEF Ended, Ends
<1> QED BY <1>1, <1>3, Zenon DEF RunInv, Underway, BelowLimit, Successful

\* Run returns an error after an attempt to write the record r.
LEMMA StopsWriting ==
  ASSUME RunInv, Runner!RunnerAssumption, pc # "done", pc' = "done", code' # 0,
         UNCHANGED <<config, cycles, Runner!slots, last, records, committed>>,
         NEW n \in 0 .. Len(committed), stream = SubSeq(committed, 1, n),
         NEW r, r.kind \in {"partial", "result"}, r.kind = "result" => n = Len(committed),
         stream' = Append(stream, r)
  PROVE  RunInv'
<1>1. RunTyped'
  BY TypedSame, Zenon DEF RunInv, RunTyped
<1>2. Ends(n)'
  <2>1. committed \in Seq(EventRecords) /\ n \in Nat
    BY DEF RunInv, RunTyped
  <2> DEFINE before == SubSeq(committed, 1, n)
  <2>2. before \in Seq(EventRecords)
    BY <2>1, SubSeqProperties
  <2> HIDE DEF before
  <2>3. Len(before) + 1 \in DOMAIN Append(before, r) /\ Append(before, r)[Len(before) + 1] = r
    BY <2>2
  <2> QED BY <2>3, Zenon DEF Ends, before
<1>3. Ended'
  BY <1>2, Zenon DEF Ended
<1> QED BY <1>1, <1>3, Zenon DEF RunInv, Underway, BelowLimit, Successful

\* A step of the loop or of the report that changes no record.
LEMMA MovesOn ==
  ASSUME RunInv, UNCHANGED <<config, cycles, Runner!slots, records, stream, committed>>,
         pc # "done", pc' \in {"drive", "step", "sample", "finish", "report"},
         last' \in {"RUNNING", "TERMINATED", "QUIESCENT"},
         Unwritten = <<>>, pc' = "sample" => last' = "QUIESCENT",
         BelowLimit', Successful'
  PROVE  RunInv'
<1>1. RunTyped'
  BY TypedSame, Zenon DEF RunInv, RunTyped
<1>2. Unwritten' = <<>>
  <2>1. pc' # "write" /\ ~(pc' = "sample" /\ last' # "QUIESCENT")
    BY Zenon
  <2> QED BY <2>1, Zenon DEF Unwritten
<1>3. Underway'
  BY <1>2, Zenon DEF RunInv, Underway
<1> QED BY <1>1, <1>3, Zenon DEF RunInv, Ended

\* The step Start of the runner's loop preserves the invariant.
LEMMA StartStep ==
  ASSUME RunInv, Runner!Start
  PROVE  RunInv'
<1>1. BelowLimit' /\ Successful' /\ Unwritten = <<>>
  BY Zenon DEF Runner!Start, Runner!Goto, RunInv, BelowLimit, Successful, Unwritten, Runner!outcome
<1> QED BY <1>1, MovesOn, Zenon DEF Runner!Start, Runner!Goto, RunInv, RunTyped

\* The step DriveEnds of the runner's loop preserves the invariant.
LEMMA DriveEndsStep ==
  ASSUME RunInv, Runner!DriveEnds
  PROVE  RunInv'
<1>1. BelowLimit' /\ Successful' /\ Unwritten = <<>>
  BY Zenon DEF Runner!DriveEnds, Runner!Goto, RunInv, BelowLimit, Successful, Unwritten
<1> QED BY <1>1, MovesOn, Zenon DEF Runner!DriveEnds, Runner!Goto, RunInv, RunTyped

\* The step Drive of the runner's loop preserves the invariant.
LEMMA DriveStep ==
  ASSUME RunInv, Runner!Drive
  PROVE  RunInv'
<1>1. BelowLimit' /\ Successful' /\ Unwritten = <<>>
  BY Zenon DEF Runner!Drive, Runner!Goto, RunInv, BelowLimit, Successful, Unwritten
<1> QED BY <1>1, MovesOn, Zenon DEF Runner!Drive, Runner!Goto, RunInv, RunTyped

\* The step DriveTooFar of the runner's loop preserves the invariant.
LEMMA DriveTooFarStep ==
  ASSUME RunInv, Runner!DriveTooFar
  PROVE  RunInv'
<1>1. BelowLimit' /\ Successful' /\ Unwritten = <<>>
  BY DEF Runner!DriveTooFar, Runner!Goto, RunInv, BelowLimit, Successful, Unwritten
<1> QED BY <1>1, MovesOn, Zenon DEF Runner!DriveTooFar, Runner!Goto, RunInv, RunTyped

\* The step StepFails of the runner's loop preserves the invariant.
LEMMA StepFailsStep ==
  ASSUME RunInv, Runner!StepFails
  PROVE  RunInv'
<1>1. BelowLimit' /\ Successful' /\ Unwritten = <<>>
  BY DEF Runner!StepFails, Runner!Goto, RunInv, BelowLimit, Successful, Unwritten
<1> QED BY <1>1, MovesOn, Zenon DEF Runner!StepFails, Runner!Goto, RunInv, RunTyped

\* The step StepQuiescent of the runner's loop preserves the invariant.
LEMMA StepQuiescentStep ==
  ASSUME RunInv, Runner!StepQuiescent
  PROVE  RunInv'
<1>1. BelowLimit' /\ Successful' /\ Unwritten = <<>>
  BY Zenon DEF Runner!StepQuiescent, Runner!Goto, RunInv, BelowLimit, Successful, Unwritten
<1> QED BY <1>1, MovesOn, Zenon DEF Runner!StepQuiescent, Runner!Goto, RunInv, RunTyped

\* The step CycleDone of the runner's loop preserves the invariant.
LEMMA CycleDoneStep ==
  ASSUME RunInv, Runner!CycleDone
  PROVE  RunInv'
<1>1. BelowLimit' /\ Successful' /\ Unwritten = <<>>
  BY Zenon DEF Runner!CycleDone, Runner!Goto, RunInv, RunTyped, BelowLimit, Successful, Unwritten
<1> QED BY <1>1, MovesOn, Zenon DEF Runner!CycleDone, Runner!Goto, RunInv, RunTyped

\* The step CheckSchedule of the runner's loop preserves the invariant.
LEMMA CheckScheduleStep ==
  ASSUME RunInv, Runner!CheckSchedule
  PROVE  RunInv'
<1>1. BelowLimit' /\ Successful' /\ Unwritten = <<>>
  BY DEF Runner!CheckSchedule, Runner!Goto, RunInv, BelowLimit, Successful, Unwritten, Runner!outcome
<1> QED BY <1>1, MovesOn, Zenon DEF Runner!CheckSchedule, Runner!Goto, RunInv, RunTyped

\* The records of a cycle are those of the groups it has committed: its events,
\* and the gauges whose last update is this cycle.
LEMMA CommitStep ==
  ASSUME RunInv, Runner!RunnerAssumption, NEW S \in SUBSET RunGroups, Runner!Step(S)
  PROVE  RunInv'
<1>1. /\ config \in Runner!Configs /\ cycles \in 0 .. config.limit /\ config' = config /\ cycles' = cycles + 1
      /\ lastUpdate \in [RunGauges -> 0 .. cycles] /\ committed \in Seq(EventRecords)
      /\ pc = "step" /\ pc' = "sample" /\ stream' = stream
      /\ committed' = committed \o Runner!RecordsOf(S, cycles')
  BY Zenon DEF RunInv, RunTyped, Runner!Step, Runner!Goto
<1>2. config.limit \in Nat /\ cycles < config.limit /\ config.sink \in BOOLEAN
  BY <1>1, ConfigFields DEF RunInv, BelowLimit
<1>3. cycles' \in 0 .. config'.limit /\ cycles' \in Nat /\ cycles \in Nat
  BY <1>1, <1>2
<1>4. Runner!RecordsOf(S, cycles') \in Seq(EventRecords)
  BY <1>3, RecordsInOrder, Zenon
<1>5. committed' \in Seq(EventRecords)
  BY <1>1, <1>4, ConcatProperties, Zenon
<1>6. lastUpdate' \in [RunGauges -> 0 .. cycles']
  <2>1. \A g \in RunGauges : lastUpdate[g] \in 0 .. cycles' /\ cycles' \in 0 .. cycles'
    BY <1>1, <1>3
  <2> QED BY <2>1, Zenon DEF Runner!Step
<1>7. RunTyped'
  BY <1>1, <1>3, <1>5, <1>6, Zenon DEF RunInv, RunTyped, Runner!Step
<1>8. (run_events \cup Runner!Updated)' = S
  <2>1. \A g \in RunGauges : lastUpdate'[g] = cycles' <=> g \in S
    <3>1. \A g \in RunGauges : lastUpdate[g] # cycles'
      BY <1>1, <1>3
    <3> QED BY <3>1, Zenon DEF Runner!Step
  <2>2. Runner!Updated' = RunGauges \cap S
    BY <2>1, Zenon DEF Runner!Updated
  <2> QED BY <2>2, Zenon DEF Runner!Step
<1>9. Underway'
  <2>1. last' # "QUIESCENT"
    BY Zenon DEF Runner!Step
  <2>2. Unwritten' = Runner!RecordsOf(S, cycles')
    BY <1>1, <1>8, <2>1, Zenon DEF Unwritten
  <2>3. CASE config.sink
    <3>1. stream \in Seq(EventRecords) /\ committed = stream \o <<>>
      BY <1>1, <2>3 DEF RunInv, Underway, Unwritten
    <3>2. committed = stream
      BY <3>1, ConcatEmptySeq, Zenon
    <3> QED BY <1>1, <2>2, <2>3, <3>1, <3>2, Zenon DEF Underway
  <2>4. CASE ~config.sink
    BY <1>1, <2>4, Zenon DEF RunInv, Underway
  <2> QED BY <2>3, <2>4, Zenon
<1>10. BelowLimit'
  BY <1>1, <1>2, <1>3 DEF BelowLimit, Runner!Step, Runner!LimitReached
<1> QED BY <1>1, <1>7, <1>9, <1>10, Zenon DEF RunInv, Successful, Ended

\* Reading the slots: what was committed and not yet written becomes records.
LEMMA CollectStep ==
  ASSUME RunInv, Runner!RunnerAssumption, Runner!Collect
  PROVE  RunInv'
<1>1. records' \in Seq(EventRecords)
  BY SampleTyped DEF Runner!Collect, RunInv
<1>2. RunTyped'
  BY <1>1, TypedSame, Zenon DEF RunInv, RunTyped, Runner!Collect, Runner!Goto
<1>3. Unwritten' = Unwritten
  BY Zenon DEF Runner!Collect, Runner!Goto, Unwritten
<1>4. Underway'
  BY <1>3, Zenon DEF RunInv, Underway, Runner!Collect, Runner!Goto
<1> QED BY <1>2, <1>4, Zenon DEF RunInv, BelowLimit, Successful, Ended, Runner!Collect, Runner!Goto

\* The first record moves to the stream.
LEMMA WriteRecordStep ==
  ASSUME RunInv, Runner!WriteRecord
  PROVE  RunInv'
<1>1. records \in Seq(EventRecords) /\ records # <<>> /\ records' = Tail(records) /\ pc = "write" /\ pc' = "write"
  BY Zenon DEF RunInv, RunTyped, Runner!WriteRecord
<1>2. records' \in Seq(EventRecords)
  BY <1>1, HeadTailProperties, Zenon
<1>3. RunTyped'
  BY <1>1, <1>2, TypedSame, Zenon DEF RunInv, RunTyped, Runner!WriteRecord
<1>4. Underway'
  <2>1. CASE config.sink
    <3>1. stream \in Seq(EventRecords) /\ committed = stream \o records
      BY <1>1, <2>1, Zenon DEF RunInv, Underway, Unwritten
    <3>2. stream' = Append(stream, Head(records)) /\ committed' = committed /\ config' = config
      BY <2>1 DEF Runner!WriteRecord, Runner!Put
    <3>3. stream' \in Seq(EventRecords) /\ committed' = stream' \o records'
      BY <1>1, <3>1, <3>2, MoveFirst
    <3> QED BY <1>1, <2>1, <3>2, <3>3 DEF Underway, Unwritten
  <2>2. CASE ~config.sink
    BY <1>1, <2>2, Zenon DEF RunInv, Underway, Runner!WriteRecord, Runner!Put
  <2> QED BY <2>1, <2>2
<1> QED BY <1>1, <1>3, <1>4, Zenon DEF RunInv, BelowLimit, Successful, Ended, Runner!WriteRecord

\* A write that fails ends the stream, perhaps within a record.
LEMMA WriteFailsStep ==
  ASSUME RunInv, Runner!RunnerAssumption, Runner!WriteFails
  PROVE  RunInv'
<1>1. /\ pc = "write" /\ pc' = "done" /\ code' # 0 /\ records \in Seq(EventRecords) /\ records # <<>>
      /\ UNCHANGED <<config, cycles, Runner!slots, last, records, committed>> /\ config.sink
      /\ stream \in Seq(EventRecords) /\ committed = stream \o records
  BY DEF RunInv, RunTyped, Underway, Unwritten, Runner!WriteFails, Runner!Return, Runner!Goto, Runner!PutFails
<1> DEFINE r == Head(records)
<1>2. /\ r \in EventRecords /\ Tail(records) \in Seq(EventRecords)
      /\ Append(stream, r) \in Seq(EventRecords) /\ Append(stream, r) \o Tail(records) = committed
  BY <1>1, MoveFirst
<1>3. stream' \in {stream, Append(stream, Runner!Partial(r)), Append(stream, r)}
  BY Zenon DEF Runner!WriteFails, Runner!PutFails
<1> HIDE DEF r
<1>4. CASE stream' = stream
  BY <1>1, <1>4, Stops, Zenon
<1>5. CASE stream' = Append(stream, Runner!Partial(r))
  <2>1. Len(stream) \in 0 .. Len(committed) /\ stream = SubSeq(committed, 1, Len(stream))
    BY <1>1, FirstPart, Zenon
  <2>2. Runner!Partial(r).kind = "partial"
    BY <1>2, Zenon DEF Runner!Partial, EventRecords
  <2> DEFINE p == Runner!Partial(r)
  <2>3. PICK n \in 0 .. Len(committed) : stream = SubSeq(committed, 1, n)
    BY <2>1, Zenon
  <2>4. p.kind \in {"partial", "result"} /\ (p.kind = "result" => n = Len(committed))
    BY <2>2, Zenon
  <2>5. /\ stream' = Append(stream, p) /\ pc # "done" /\ pc' = "done" /\ code' # 0
        /\ UNCHANGED <<config, cycles, Runner!slots, last, records, committed>>
    BY <1>1, <1>5, Zenon
  <2> HIDE DEF p
  <2> QED BY <2>3, <2>4, <2>5, StopsWriting
<1>6. CASE stream' = Append(stream, r)
  <2> DEFINE s == Append(stream, r)
  <2>1. Len(s) \in 0 .. Len(committed) /\ s = SubSeq(committed, 1, Len(s))
    <3> HIDE DEF s
    <3>1. s \in Seq(EventRecords) /\ s \o Tail(records) = committed
      BY <1>2, Zenon DEF s
    <3> QED BY <1>2, <3>1, FirstPart, Zenon
  <2>2. Ended'
    BY <1>1, <1>6, <2>1, Zenon DEF Ended, Ends
  <2>3. RunTyped'
    BY <1>1, TypedSame, Zenon DEF RunInv, RunTyped
  <2> QED BY <1>1, <2>2, <2>3, Zenon DEF RunInv, Underway, BelowLimit, Successful
<1> QED BY <1>3, <1>4, <1>5, <1>6, Zenon

\* At the report, the stream holds every committed record.
LEMMA AtReport ==
  ASSUME RunInv, Runner!RunnerAssumption, pc = "report"
  PROVE  /\ committed \in Seq(EventRecords) /\ Len(committed) \in 0 .. Len(committed)
         /\ SubSeq(committed, 1, Len(committed)) = committed
         /\ IF config.sink THEN stream = committed ELSE stream = <<>>
<1>1. committed \in Seq(EventRecords)
  BY Zenon DEF RunInv, RunTyped
<1>2. Len(committed) \in 0 .. Len(committed)
  BY <1>1
<1>3. SubSeq(committed, 1, Len(committed)) = committed
  BY <1>1, SubSeqFull
<1>4. CASE config.sink
  <2>1. stream \in Seq(EventRecords) /\ committed = stream \o <<>>
    BY <1>4, Zenon DEF RunInv, Underway, Unwritten
  <2> QED BY <1>1, <1>2, <1>3, <1>4, <2>1, ConcatEmptySeq, Zenon
<1>5. CASE ~config.sink
  BY <1>1, <1>2, <1>3, <1>5, Zenon DEF RunInv, Underway
<1> QED BY <1>4, <1>5, Zenon

\* The same for the write of the result.
LEMMA ReportFailsStep ==
  ASSUME RunInv, Runner!RunnerAssumption, Runner!ReportFails
  PROVE  RunInv'
<1>1. /\ pc = "report" /\ pc' = "done" /\ code' # 0
      /\ UNCHANGED <<config, cycles, Runner!slots, last, records, committed>>
  BY DEF Runner!ReportFails, Runner!Return, Runner!Goto
<1>2. CASE stream' = stream
  BY <1>1, <1>2, Stops
<1>3. CASE stream' # stream
  <2>1. config.sink /\ stream' \in {stream, Append(stream, Runner!Partial(Runner!Result)), Append(stream, Runner!Result)}
    BY <1>3, Zenon DEF Runner!ReportFails, Runner!PutFails
  <2>2. PICK r \in {Runner!Partial(Runner!Result), Runner!Result} : stream' = Append(stream, r)
    BY <1>3, <2>1, Zenon
  <2>3. r.kind \in {"partial", "result"}
    BY DEF Runner!Partial, Runner!Result
  <2>4. Len(committed) \in 0 .. Len(committed) /\ stream = SubSeq(committed, 1, Len(committed))
    BY <1>1, <2>1, AtReport
  <2> QED BY <1>1, <2>2, <2>3, <2>4, StopsWriting
<1> QED BY <1>2, <1>3, Zenon

\* The result follows the records of everything that was committed.
LEMMA WriteResultStep ==
  ASSUME RunInv, Runner!RunnerAssumption, Runner!WriteResult
  PROVE  RunInv'
<1>1. /\ pc = "report" /\ pc' = "done" /\ code' = code /\ status' = status
      /\ UNCHANGED <<config, cycles, Runner!slots, last, records, committed>>
      /\ stream' = IF config.sink THEN Append(stream, Runner!Result) ELSE stream
  BY Zenon DEF Runner!WriteResult, Runner!Return, Runner!Goto, Runner!Put
<1>2. Runner!Result' = Runner!Result /\ Runner!Result.kind = "result"
  BY <1>1, Zenon DEF Runner!Result
<1>3. RunTyped'
  BY <1>1, TypedSame, Zenon DEF RunInv, RunTyped
<1>4. Successful'
  BY <1>1, Zenon DEF RunInv, Successful
<1>5. Ended'
  <2>1. /\ committed \in Seq(EventRecords) /\ Len(committed) \in 0 .. Len(committed)
        /\ SubSeq(committed, 1, Len(committed)) = committed
        /\ IF config.sink THEN stream = committed ELSE stream = <<>>
    BY <1>1, AtReport
  <2>2. CASE config.sink
    <3>1. stream' = Append(committed, Runner!Result)
      BY <1>1, <2>1, <2>2, Zenon
    <3>2. Len(committed) + 1 \in DOMAIN Append(committed, Runner!Result)
          /\ Append(committed, Runner!Result)[Len(committed) + 1] = Runner!Result
      BY <2>1
    <3>3. Ends(Len(committed))'
      BY <1>1, <1>2, <2>1, <3>1, <3>2 DEF Ends
    <3> QED BY <1>1, <1>2, <2>1, <2>2, <3>1, <3>3 DEF Ended
  <2>3. CASE ~config.sink
    <3>1. SubSeq(committed, 1, 0) = <<>> /\ 0 \in 0 .. Len(committed)
      BY <2>1, SubSeqEmpty
    <3>2. stream' = <<>>
      BY <1>1, <2>1, <2>3, Zenon
    <3>3. Ends(0)'
      BY <1>1, <3>1, <3>2, Zenon DEF Ends
    <3> QED BY <1>1, <2>3, <3>1, <3>2, <3>3, Zenon DEF Ended
  <2> QED BY <2>2, <2>3, Zenon
<1> QED BY <1>1, <1>3, <1>4, <1>5, Zenon DEF RunInv, Underway, BelowLimit

\* The invariant holds before the run.
LEMMA RunInitial ==
  ASSUME Runner!RunnerAssumption, Runner!Init
  PROVE  RunInv
<1>1. config.limit \in Nat \ {0}
  BY ConfigFields, Zenon DEF Runner!Init
<1>2. cycles \in 0 .. config.limit /\ cycles < config.limit /\ lastUpdate \in [RunGauges -> 0 .. cycles]
  <2>1. cycles = 0 /\ lastUpdate = [g \in RunGauges |-> 0]
    BY Zenon DEF Runner!Init
  <2>2. 0 \in 0 .. config.limit /\ 0 < config.limit /\ 0 \in 0 .. 0
    BY <1>1
  <2> QED BY <2>1, <2>2, Zenon
<1>3. RunTyped
  <2>1. <<>> \in Seq(EventRecords)
    OBVIOUS
  <2> QED BY <1>2, <2>1, Zenon DEF Runner!Init, RunTyped
<1>4. <<>> \o <<>> = <<>> /\ <<>> \in Seq(EventRecords)
  BY ConcatEmptySeq
<1>5. Underway
  BY <1>4 DEF Runner!Init, Underway, Unwritten
<1> QED BY <1>2, <1>3, <1>5, Zenon DEF RunInv, Runner!Init, BelowLimit, Successful, Ended

\* Every step preserves the invariant.
LEMMA RunStep ==
  ASSUME Runner!RunnerAssumption, RunInv, [Runner!Next]_(Runner!vars)
  PROVE  RunInv'
<1>1. CASE Runner!Refuse
  BY <1>1, Stops DEF Runner!Refuse, Runner!Return, Runner!Goto
<1>2. CASE Runner!Throw
  BY <1>2, Stops DEF Runner!Throw, Runner!Return, Runner!Goto
<1>3. CASE UNCHANGED Runner!vars
  <2>1. RunTyped'
    BY <1>3, TypedSame, Zenon DEF Runner!vars, Runner!slots, RunInv, RunTyped
  <2>2. Unwritten' = Unwritten /\ Runner!Result' = Runner!Result
    BY <1>3, Zenon DEF Runner!vars, Runner!slots, Runner!outcome, Unwritten, Runner!Updated, Runner!Result
  <2>3. Underway' /\ BelowLimit' /\ Successful'
    BY <1>3, <2>2, Zenon DEF Runner!vars, Runner!slots, Runner!outcome, RunInv, Underway, BelowLimit, Successful
  <2>4. Ended'
    BY <1>3, <2>2, Zenon DEF Runner!vars, Runner!slots, Runner!outcome, RunInv, Ended, Ends
  <2> QED BY <2>1, <2>3, <2>4, Zenon DEF RunInv
<1>4. CASE Runner!Progress
  BY <1>4, StartStep, DriveEndsStep, DriveStep, DriveTooFarStep, StepFailsStep, StepQuiescentStep,
     CommitStep, CollectStep, WriteRecordStep, CycleDoneStep, CheckScheduleStep, WriteResultStep
     DEF Runner!Progress
<1>5. CASE Runner!Done
  BY <1>3, <1>5, Zenon DEF Runner!Done
<1> QED BY <1>1, <1>2, <1>3, <1>4, <1>5, WriteFailsStep, ReportFailsStep, Zenon DEF Runner!Next

\* A prefix of the committed records.
LEMMA PrefixOfCommitted ==
  ASSUME NEW E, NEW c \in Seq(E), NEW n \in 0 .. Len(c)
  PROVE  SubSeq(c, 1, n) \in Seq(E) /\ Len(SubSeq(c, 1, n)) = n
<1> DEFINE s == SubSeq(c, 1, n)
<1>1. n \in Nat /\ Len(c) \in Nat /\ n <= Len(c) /\ \A i \in 1 .. n : c[i] \in E
  OBVIOUS
<1>2. s \in Seq(E) /\ Len(s) = n
  <2>1. s \in Seq(E) /\ Len(s) = IF 1 <= n THEN n - 1 + 1 ELSE 0
    BY <1>1, SubSeqProperties
  <2> QED BY <1>1, <2>1
<1> QED BY <1>2, Zenon

\* A stream of observations and nothing else.
LEMMA PlainStream ==
  ASSUME committed \in Seq(EventRecords), NEW n \in 0 .. Len(committed), stream = SubSeq(committed, 1, n)
  PROVE  Runner!StreamFaithful /\ Runner!Written = stream
<1>1. stream \in Seq(EventRecords)
  BY PrefixOfCommitted, Zenon
<1>2. \A i \in DOMAIN stream : stream[i].kind = "event"
  <2>1. \A i \in DOMAIN stream : stream[i] \in EventRecords
    BY <1>1
  <2> QED BY <2>1, Zenon DEF EventRecords
<1>3. stream # <<>> => Len(stream) \in DOMAIN stream
  BY <1>1
<1>4. Runner!Written = stream
  BY <1>2, <1>3, Zenon DEF Runner!Written
<1> QED BY <1>1, <1>2, <1>4, Zenon DEF Runner!StreamFaithful

\* A sequence to which a value of any kind is appended.
LEMMA AppendAny ==
  ASSUME NEW E, NEW s \in Seq(E), NEW r
  PROVE  /\ DOMAIN Append(s, r) = 1 .. (Len(s) + 1) /\ Len(Append(s, r)) = Len(s) + 1
         /\ Append(s, r) # <<>> /\ Append(s, r)[Len(s) + 1] = r
         /\ \A i \in 1 .. Len(s) : Append(s, r)[i] = s[i]
<1> DEFINE F == E \cup {r}
           t == Append(s, r)
<1>1. s \in Seq(F) /\ r \in F
  <2>1. E \subseteq F /\ r \in F
    BY Zenon
  <2> HIDE DEF F
  <2> QED BY <2>1, SeqMonotonic, Zenon
<1> HIDE DEF F
<1>2. /\ t \in Seq(F) /\ t # <<>> /\ Len(t) = Len(s) + 1
      /\ \A i \in 1 .. Len(s) : t[i] = s[i]
      /\ t[Len(s) + 1] = r
  BY <1>1, AppendProperties
<1> HIDE DEF t
<1>3. DOMAIN t = 1 .. Len(t)
  BY <1>2, LenProperties, Zenon
<1> QED BY <1>2, <1>3, Zenon DEF t

\* A stream that ends with a record of another kind.
LEMMA ClosedStream ==
  ASSUME committed \in Seq(EventRecords), NEW n \in 0 .. Len(committed), NEW r,
         NEW before, before = SubSeq(committed, 1, n),
         stream = Append(before, r), r.kind \in {"partial", "result"},
         r.kind = "result" => n = Len(committed), pc = "done"
  PROVE  /\ Runner!StreamFaithful /\ Runner!Written = before
         /\ stream # <<>> /\ stream[Len(stream)] = r
<1>1. before \in Seq(EventRecords) /\ Len(before) = n
  BY PrefixOfCommitted, Zenon
<1>2. r.kind = "result" => before = committed
  BY SubSeqFull, Zenon
<1>3. ASSUME NEW s \in Seq(EventRecords)
      PROVE  /\ DOMAIN Append(s, r) = 1 .. (Len(s) + 1) /\ Len(Append(s, r)) = Len(s) + 1
             /\ Append(s, r) # <<>> /\ Append(s, r)[Len(s) + 1] = r
             /\ \A i \in 1 .. Len(s) : Append(s, r)[i] = s[i]
  BY AppendAny
<1>4. /\ DOMAIN stream = 1 .. (Len(before) + 1) /\ Len(stream) = Len(before) + 1 /\ stream # <<>>
      /\ stream[Len(stream)] = r
      /\ \A i \in 1 .. Len(before) : stream[i] = before[i]
  BY <1>1, <1>3, Zenon
<1>5. SubSeq(stream, 1, Len(stream) - 1) = before
  <2>1. Len(before) \in Nat /\ Len(stream) - 1 = Len(before)
    BY <1>1, <1>4
  <2>2. SubSeq(stream, 1, Len(before)) = before
    <3> DEFINE v == SubSeq(stream, 1, Len(before))
    <3>1. \A i \in 1 .. Len(before) : stream[i] \in EventRecords
      BY <1>1, <1>4
    <3>2. v \in Seq(EventRecords) /\ Len(v) = Len(before) /\ \A i \in 1 .. Len(before) : v[i] = stream[i]
      <4>1. /\ v \in Seq(EventRecords) /\ Len(v) = IF 1 <= Len(before) THEN Len(before) - 1 + 1 ELSE 0
            /\ \A i \in 1 .. (Len(before) - 1 + 1) : v[i] = stream[1 + i - 1]
        BY <2>1, <3>1, SubSeqProperties
      <4> HIDE DEF v
      <4>2. ASSUME NEW i \in 1 .. Len(before) PROVE v[i] = stream[i]
        <5>1. i \in 1 .. (Len(before) - 1 + 1) /\ 1 + i - 1 = i
          BY <2>1
        <5> QED BY <4>1, <5>1, Zenon
      <4> QED BY <2>1, <4>1, <4>2
    <3> HIDE DEF v
    <3>3. v = before
      BY <1>1, <1>4, <3>2, SeqEqual
    <3> QED BY <3>3, Zenon DEF v
  <2> QED BY <2>1, <2>2, Zenon
<1>6. Runner!Written = before
  BY <1>4, <1>5, Zenon DEF Runner!Written
<1>7. \A i \in DOMAIN stream : i # Len(stream) => stream[i].kind = "event"
  <2>1. \A i \in 1 .. Len(before) : stream[i] \in EventRecords
    BY <1>1, <1>4
  <2>2. \A i \in DOMAIN stream : i # Len(stream) => i \in 1 .. Len(before)
    BY <1>1, <1>4
  <2> QED BY <2>1, <2>2, Zenon DEF EventRecords
<1>8. Runner!StreamFaithful
  BY <1>1, <1>2, <1>4, <1>6, <1>7 DEF Runner!StreamFaithful
<1> QED BY <1>4, <1>6, <1>8, Zenon

\* The invariant implies StreamFaithful.
LEMMA RunFaithful ==
  ASSUME Runner!RunnerAssumption, RunInv
  PROVE  Runner!StreamFaithful
<1>1. committed \in Seq(EventRecords)
  BY Zenon DEF RunInv, RunTyped
<1>2. CASE pc # "done"
  BY <1>1, <1>2, StreamSoFar, PlainStream, Zenon
<1>3. CASE pc = "done"
  <2>1. PICK n \in 0 .. Len(committed) : Ends(n)
    BY <1>3, Zenon DEF RunInv, Ended
  <2>2. CASE stream = SubSeq(committed, 1, n)
    BY <1>1, <2>2, PlainStream, Zenon
  <2>3. CASE stream # SubSeq(committed, 1, n)
    <3>1. PICK i \in DOMAIN stream :
            /\ stream[i].kind \in {"partial", "result"}
            /\ stream[i].kind = "result" => n = Len(committed)
            /\ stream = Append(SubSeq(committed, 1, n), stream[i])
      BY <2>1, <2>3, Zenon DEF Ends
    <3> DEFINE r == stream[i]
    <3>2. /\ r.kind \in {"partial", "result"} /\ (r.kind = "result" => n = Len(committed))
          /\ stream = Append(SubSeq(committed, 1, n), r)
      BY <3>1, Zenon
    <3> HIDE DEF r
    <3> QED BY <1>1, <1>3, <3>2, ClosedStream, Zenon
  <2> QED BY <2>2, <2>3, Zenon
<1> QED BY <1>2, <1>3, Zenon

\* The invariant implies SuccessMeansComplete.
LEMMA RunComplete ==
  ASSUME Runner!RunnerAssumption, RunInv
  PROVE  Runner!SuccessMeansComplete
<1> SUFFICES ASSUME pc = "done", code = 0
             PROVE  /\ status \in {"TERMINATED", "QUIESCENT"}
                    /\ cycles <= config.limit
                    /\ config.expected # 0 => cycles = config.expected
                    /\ config.sink => stream # <<>> /\ stream[Len(stream)] = Runner!Result /\ Runner!Written = committed
  BY Zenon DEF Runner!SuccessMeansComplete
<1>1. status \in {"TERMINATED", "QUIESCENT"} /\ (config.expected # 0 => cycles = config.expected)
  BY Zenon DEF RunInv, Successful
<1>2. committed \in Seq(EventRecords) /\ cycles \in 0 .. config.limit /\ config \in Runner!Configs
  BY Zenon DEF RunInv, RunTyped
<1>3. cycles <= config.limit
  BY <1>2, ConfigFields
<1>4. ASSUME config.sink PROVE stream # <<>> /\ stream[Len(stream)] = Runner!Result /\ Runner!Written = committed
  <2>1. stream = Append(committed, Runner!Result)
    BY <1>4, Zenon DEF RunInv, Ended
  <2>2. SubSeq(committed, 1, Len(committed)) = committed /\ Len(committed) \in 0 .. Len(committed)
    BY <1>2, SubSeqFull
  <2>3. Runner!Result.kind \in {"partial", "result"}
    BY Zenon DEF Runner!Result
  <2> DEFINE r == Runner!Result
  <2> HIDE DEF r
  <2>4. stream = Append(SubSeq(committed, 1, Len(committed)), r) /\ r.kind \in {"partial", "result"}
    BY <2>1, <2>2, <2>3 DEF r
  <2>5. stream # <<>> /\ stream[Len(stream)] = r /\ Runner!Written = SubSeq(committed, 1, Len(committed))
    BY <1>2, <2>2, <2>4, ClosedStream, Zenon
  <2> QED BY <2>2, <2>5, Zenon DEF r
<1> QED BY <1>1, <1>3, <1>4, Zenon

\* The inductive invariant holds in every reachable state.
THEOREM RunnerInvariant == Runner!RunnerAssumption => (Runner!Spec => []RunInv)
<1> SUFFICES ASSUME Runner!RunnerAssumption PROVE Runner!Spec => []RunInv
  BY Zenon
<1>1. Runner!Init => RunInv
  BY RunInitial, Zenon
<1>2. RunInv /\ [Runner!Next]_(Runner!vars) => RunInv'
  BY RunStep, Zenon
<1> QED BY <1>1, <1>2, PTL DEF Runner!Spec

\* For any groups, limit and schedule, the stream holds the records of the first
\* groups that were committed, in order, and a result only after all of them.
THEOREM RunnerStreamFaithful == Runner!RunnerAssumption => (Runner!Spec => []Runner!StreamFaithful)
<1> SUFFICES ASSUME Runner!RunnerAssumption PROVE Runner!Spec => []Runner!StreamFaithful
  BY Zenon
<1>1. Runner!Spec => []RunInv
  BY RunnerInvariant, Zenon
<1>2. RunInv => Runner!StreamFaithful
  BY RunFaithful, Zenon
<1> QED BY <1>1, <1>2, PTL

\* For any limit and schedule, Run returns 0 only when the model terminated or is
\* quiescent, the schedule was reached and everything is in the stream.
THEOREM RunnerSuccess == Runner!RunnerAssumption => (Runner!Spec => []Runner!SuccessMeansComplete)
<1> SUFFICES ASSUME Runner!RunnerAssumption PROVE Runner!Spec => []Runner!SuccessMeansComplete
  BY Zenon
<1>1. Runner!Spec => []RunInv
  BY RunnerInvariant, Zenon
<1>2. RunInv => Runner!SuccessMeansComplete
  BY RunComplete, Zenon
<1> QED BY <1>1, <1>2, PTL

=============================================================================
