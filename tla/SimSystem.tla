----------------------------- MODULE SimSystem -----------------------------
(***************************************************************************)
(* gfsim::SimSystem (include/gfsim/SimSystem.h): root modules with         *)
(* committed and prepared state, evaluated one after the other and         *)
(* transferred or discarded together, with their observations.             *)
(*                                                                         *)
(* The operators below are the parts of the calls; module SimExecutor      *)
(* makes the calls of them.                                                *)
(***************************************************************************)
EXTENDS ObservationSlots

CONSTANTS Modules,      \* root modules, 1 .. n in registration order
          Memories,     \* those whose Reset retains the contents
          Data,         \* states of a module
          PowerUp,      \* the state of a module after construction
          ResetData,    \* and after Reset
          NoNext,       \* nothing is prepared
          SlotsOf,      \* slots that the Work of a module stages
          CounterMax    \* bound: stands for the largest 64-bit cycle count

ASSUME SystemAssumption ==
  /\ Modules \subseteq Nat /\ IsFiniteSet(Modules)
  /\ Memories \subseteq Modules
  /\ {PowerUp, ResetData} \subseteq Data /\ NoNext \notin Data
  /\ SlotsOf \in [Modules -> SUBSET Slots]
  /\ CounterMax \in Nat

VARIABLES current, next,   \* committed and prepared state of the modules
          sysState,        \* "PreBuild", "Built", "Ready" or "Failed"
          buildCompleted,
          cycle

modules == <<current, next>>
system == <<modules, sysState, buildCompleted, cycle, observations>>

NothingPrepared == [m \in Modules |-> NoNext]

InitSystem ==
  /\ InitSlots
  /\ current = [m \in Modules |-> PowerUp]
  /\ next = NothingPrepared
  /\ sysState = "PreBuild"
  /\ buildCompleted = FALSE
  /\ cycle = 0

discardAll == next' = NothingPrepared /\ DiscardSlots

\* Build: a module's Build throws, or FinalizeBuild refuses.
BuildFails ==
  /\ discardAll
  /\ sysState' = "Failed"
  /\ UNCHANGED <<current, buildCompleted, cycle, events, gauges>>

BuildSucceeds ==
  /\ sysState' = "Built"
  /\ buildCompleted' = TRUE
  /\ UNCHANGED <<modules, cycle, observations>>

\* The Work of one root: it prepares a state and stages observations ...
Work(m, d, staged) ==
  /\ next' = [next EXCEPT ![m] = d]
  /\ Stage(staged, cycle)
  /\ UNCHANGED <<current, sysState, buildCompleted, cycle, events, gauges>>

\* Mutant: what the modules before it prepared stays.
WorkThrows_KeepNext(m) ==
  /\ sysState' = "Failed"
  /\ UNCHANGED <<next, current, buildCompleted, cycle, observations>>

\* ... or throws: Step catches and Xfer discards what every root and the
\* observations have prepared so far.
WorkThrows(m) ==
  /\ discardAll
  /\ sysState' = "Failed"
  /\ UNCHANGED <<current, buildCompleted, cycle, events, gauges>>

\* Mutant: roots are transferred before the check, observations with it.
CheckFails_ModulesFirst ==
  /\ current' = [m \in Modules |-> IF next[m] = NoNext THEN current[m] ELSE next[m]]
  /\ discardAll
  /\ sysState' = "Failed"
  /\ UNCHANGED <<buildCompleted, cycle, events, gauges>>

\* Xfer, when Precheck or Precommit refuses.
CheckFails ==
  /\ discardAll
  /\ sysState' = "Failed"
  /\ UNCHANGED <<current, buildCompleted, cycle, events, gauges>>

\* Xfer, once Precheck and Precommit have accepted.
XferSystem ==
  /\ current' = [m \in Modules |-> IF next[m] = NoNext THEN current[m] ELSE next[m]]
  /\ next' = NothingPrepared
  /\ cycle' = cycle + 1
  /\ XferSlots(cycle')
  /\ UNCHANGED <<sysState, buildCompleted>>

CanReset == sysState \in {"Built", "Ready"} \/ (sysState = "Failed" /\ buildCompleted)

ResetSystem ==
  IF CanReset
  THEN /\ current' = [m \in Modules |-> IF m \in Memories THEN current[m] ELSE ResetData]
       /\ next' = NothingPrepared
       /\ ResetSlots
       /\ cycle' = 0
       /\ sysState' = "Ready"
       /\ UNCHANGED buildCompleted
  ELSE UNCHANGED system

=============================================================================
