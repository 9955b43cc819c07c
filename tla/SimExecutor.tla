---------------------------- MODULE SimExecutor ----------------------------
(***************************************************************************)
(* gfsim::SimExecutor (include/gfsim/SimExecutor.h and                     *)
(* runtime/sim_executor.cpp): the calls of the model ABI over one system.  *)
(* Every call holds callLock_ from its first to its last statement.  Step  *)
(* is the only call in which something can fail half-way and is modelled   *)
(* root by root; the others are one action each.                           *)
(***************************************************************************)
EXTENDS SimSystem

CONSTANTS Limits,   \* limits a host configures; 0 is refused
          None      \* no limit

ASSUME LimitAssumption == Limits \subseteq Nat /\ None \notin Nat

VARIABLES
  state,            \* SimExecutorState, "New" before the constructor has run
  maxTicks, maxDomainCycles,
  stopReason, stopReasonUpdate,
  committedCycles,
  gaugeSnapshots,
  lastError,        \* "" for none, "refused" for a refused call, "failed" for a failed
                    \* execution, "fallback" for either when the text cannot be built
  latched,          \* executionFailureLatched_
  stepping,         \* callLock_ is held by a Step that evaluates
  todo,             \* roots whose Work it has not called
  failure           \* history: the error of the last failed execution

limits == <<maxTicks, maxDomainCycles>>
stop == <<stopReason, stopReasonUpdate>>
call == <<stepping, todo>>
vars == <<system, state, limits, stop, committedCycles, gaugeSnapshots,
          lastError, latched, call, failure>>

Init ==
  /\ InitSystem
  /\ state = "New"
  /\ maxTicks = None /\ maxDomainCycles = None
  /\ stopReason = "None" /\ stopReasonUpdate = 0
  /\ committedCycles = 0
  /\ gaugeSnapshots = gauges
  /\ lastError = ""
  /\ latched = FALSE
  /\ stepping = FALSE /\ todo = {}
  /\ failure = ""

\* Mutant: the latch is ignored.
setError_Overwrites == lastError' \in {"refused", "fallback"}

\* setError without replaceExecutionFailure; building the text may fail.
setError ==
  IF latched THEN UNCHANGED lastError ELSE lastError' \in {"refused", "fallback"}

clearError == lastError' = ""

\* An execution failure replaces any error and is latched.
failExecution ==
  /\ state' = "Failed"
  /\ lastError' \in {"failed", "fallback"}
  /\ latched' = TRUE
  /\ failure' = lastError'

-----------------------------------------------------------------------------
(* Construction, configuration and reset.                                  *)

\* Report metadata that does not fit, or an exception before Build.
ConstructInvalid ==
  /\ state = "New"
  /\ state' = "Failed"
  /\ setError
  /\ UNCHANGED <<system, limits, stop, committedCycles, gaugeSnapshots, latched,
                 call, failure>>

ConstructBuildFails ==
  /\ state = "New"
  /\ BuildFails
  /\ state' = "Failed"
  /\ setError
  /\ UNCHANGED <<limits, stop, committedCycles, gaugeSnapshots, latched, call, failure>>

Construct ==
  /\ state = "New"
  /\ BuildSucceeds
  /\ state' = "Created"
  /\ clearError
  /\ UNCHANGED <<limits, stop, committedCycles, gaugeSnapshots, latched, call, failure>>

\* The lock is free and the constructor has run.
Callable == ~stepping /\ state # "New"

ConfigureJson(ticks, domain) ==
  /\ Callable
  /\ IF state # "Created"
     THEN setError /\ UNCHANGED <<state, limits>>
     ELSE IF ticks = 0 \/ domain = 0
     THEN setError /\ UNCHANGED <<state, limits>>
     ELSE /\ maxTicks' = ticks
          /\ maxDomainCycles' = domain
          /\ state' = "Configured"
          /\ clearError
  /\ UNCHANGED <<system, stop, committedCycles, gaugeSnapshots, latched, call, failure>>

\* The buffer or its text is refused, or parsing throws.
ConfigureRefused ==
  /\ Callable
  /\ state = "Created"
  /\ setError
  /\ UNCHANGED <<system, state, limits, stop, committedCycles, gaugeSnapshots,
                 latched, call, failure>>

Resettable == {"Configured", "Ready", "Completed", "Failed"}

Reset ==
  /\ Callable
  /\ IF state \notin Resettable
     THEN /\ setError
          /\ UNCHANGED <<system, state, stop, committedCycles, gaugeSnapshots,
                         latched, failure>>
     ELSE /\ ResetSystem
          /\ IF sysState' # "Ready"
             THEN /\ failExecution
                  /\ UNCHANGED <<stop, committedCycles, gaugeSnapshots>>
             ELSE /\ stopReason' = "None" /\ stopReasonUpdate' = 0
                  /\ committedCycles' = 0
                  /\ gaugeSnapshots' = gauges'
                  /\ state' = "Ready"
                  /\ latched' = FALSE
                  /\ clearError
                  /\ UNCHANGED failure
  /\ UNCHANGED <<limits, call>>

-----------------------------------------------------------------------------
(* Step.                                                                   *)

\* A null result, or one of another layout.
StepRefused ==
  /\ Callable
  /\ setError
  /\ UNCHANGED <<system, state, limits, stop, committedCycles, gaugeSnapshots,
                 latched, call, failure>>

StepNotReady ==
  /\ Callable
  /\ state # "Ready"
  /\ IF state = "Failed" THEN UNCHANGED lastError ELSE setError
  /\ UNCHANGED <<system, state, limits, stop, committedCycles, gaugeSnapshots,
                 latched, call, failure>>

\* The executor fails; the system stays Ready.
StepOverflow ==
  /\ Callable
  /\ state = "Ready"
  /\ cycle = CounterMax
  /\ failExecution
  /\ UNCHANGED <<system, limits, stop, committedCycles, gaugeSnapshots, call>>

\* No root has work.
StepQuiescent ==
  /\ Callable
  /\ state = "Ready"
  /\ cycle # CounterMax
  /\ clearError
  /\ UNCHANGED <<system, state, limits, stop, committedCycles, gaugeSnapshots,
                 latched, call, failure>>

StepBegins ==
  /\ Callable
  /\ state = "Ready"
  /\ cycle # CounterMax
  /\ stepping' = TRUE
  /\ todo' = Modules
  /\ UNCHANGED <<system, state, limits, stop, committedCycles, gaugeSnapshots,
                 lastError, latched, failure>>

First(m) == m \in todo /\ \A k \in todo : m <= k

StepWork(m, d, staged) ==
  /\ stepping
  /\ First(m)
  /\ Work(m, d, staged)
  /\ todo' = todo \ {m}
  /\ UNCHANGED <<state, limits, stop, committedCycles, gaugeSnapshots, lastError,
                 latched, stepping, failure>>

StepWorkThrows(m) ==
  /\ stepping
  /\ First(m)
  /\ WorkThrows(m)
  /\ failExecution
  /\ stepping' = FALSE /\ todo' = {}
  /\ UNCHANGED <<limits, stop, committedCycles, gaugeSnapshots>>

Evaluated == stepping /\ todo = {}

\* Precheck may refuse any step, Precommit refuses what it must.
StepCheckFails ==
  /\ Evaluated
  /\ CheckFails
  /\ failExecution
  /\ stepping' = FALSE
  /\ UNCHANGED <<limits, stop, committedCycles, gaugeSnapshots, todo>>

Reached(bound, n) == bound # None /\ n >= bound

LimitReached(n) == Reached(maxTicks, n) \/ Reached(maxDomainCycles, n)

StepCommits ==
  /\ Evaluated
  /\ Precommit(cycle)
  /\ XferSystem
  /\ committedCycles' = cycle'
  /\ gaugeSnapshots' = gauges'
  /\ IF LimitReached(cycle')
     THEN /\ stopReason' = IF Reached(maxTicks, cycle') THEN "MaxTicks" ELSE "MaxDomainCycles"
          /\ stopReasonUpdate' = cycle'
          /\ state' = "Completed"
     ELSE UNCHANGED <<stop, state>>
  /\ clearError
  /\ stepping' = FALSE
  /\ UNCHANGED <<limits, latched, todo, failure>>

-----------------------------------------------------------------------------
(* StatisticsJson and LastError; the buffers themselves are not state that *)
(* another call depends on.                                                *)

\* No result, not initialised, or an exception.
StatisticsFail ==
  /\ Callable
  /\ setError
  /\ UNCHANGED <<system, state, limits, stop, committedCycles, gaugeSnapshots,
                 latched, call, failure>>

LastErrorRefused ==
  /\ Callable
  /\ setError
  /\ UNCHANGED <<system, state, limits, stop, committedCycles, gaugeSnapshots,
                 latched, call, failure>>

\* Evaluation may leave slots of the module unstaged.
Stagings(m) ==
  UNION {{f \in [S -> UNION {Snapshot(s) : s \in S}] : \A s \in S : f[s] \in Snapshot(s)} :
           S \in SUBSET SlotsOf[m]}

Next ==
  \/ ConstructInvalid
  \/ ConstructBuildFails
  \/ Construct
  \/ \E t, d \in Limits \cup {None} : ConfigureJson(t, d)
  \/ ConfigureRefused
  \/ Reset
  \/ StepRefused
  \/ StepNotReady
  \/ StepOverflow
  \/ StepQuiescent
  \/ StepBegins
  \/ \E m \in Modules, d \in Data : \E staged \in Stagings(m) : StepWork(m, d, staged)
  \/ \E m \in Modules : StepWorkThrows(m)
  \/ StepCheckFails
  \/ StepCommits
  \/ StatisticsFail
  \/ LastErrorRefused

Spec == Init /\ [][Next]_vars

-----------------------------------------------------------------------------
(* Properties.                                                             *)

\* What an initialised model reports always describes its last committed cycle,
\* whatever failed since.  The statistics can always be built: every gauge that
\* a report names holds a known value, and none is newer than the cycle.  The
\* committed events are those of that cycle, and a group is there as a whole or
\* not at all: "Precommit already validated the frozen groups before hardware
\* Xfer" (system_runner.cpp:611), so the capacity never cuts a group off.
ObservationsCurrent ==
  /\ committedCycles = cycle
  /\ gaugeSnapshots = gauges
  /\ \A s \in GaugeSlots : gauges[s].value \in Known /\ gauges[s].lastUpdate <= cycle
  /\ \A e \in events : e.epoch = cycle
  /\ \A g \in Groups : LET held == {e.slot : e \in events} \cap g IN
       held = {} \/ held = g

\* Nothing outlives the call that prepared it: between calls no root and no
\* slot holds prepared state, so a later step, after a failure and a reset,
\* never commits what an earlier one staged.
NothingOutlivesCall ==
  ~stepping => next = NothingPrepared /\ \A s \in Slots : ~Pending(s)

\* The error of a failed execution is what the host reads until a Reset
\* succeeds, however many other calls are refused in between.
FirstFailureKept == latched => state = "Failed" /\ lastError = failure

\* What a host sees: the state, with a step atomic.
StopLimit ==
  LET bounds == {maxTicks, maxDomainCycles} \ {None}
  IN {n \in bounds : \A k \in bounds : n <= k}

ResetOf(old, new) ==
  /\ new.gauges = [s \in GaugeSlots |-> [value |-> 0, lastUpdate |-> 0]]
  /\ new.events = {}
  /\ \A m \in Modules : new.data[m] = IF m \in Memories THEN old.data[m] ELSE ResetData

Host == INSTANCE ModelApi WITH
  mode <- state, cycles <- committedCycles, limit <- StopLimit,
  contents <- [data |-> current, gauges |-> gauges, events |-> events],
  Contents <- [data : [Modules -> Data],
               gauges : [GaugeSlots -> [value : Value, lastUpdate : Nat]],
               events : SUBSET [epoch : 0 .. CounterMax, slot : EventSlots]],
  IsReset <- ResetOf

\* The executor gives the host the atomic life cycle of the ABI: a step that
\* fails in the middle, at any root, has committed nothing; a failed model
\* leaves that state only through Reset, which restores everything but
\* memories; the model completes exactly at the smaller of its limits.
ImplementsApi == Host!Spec

=============================================================================
