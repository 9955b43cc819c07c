-------------------------- MODULE ObservationSlots --------------------------
(***************************************************************************)
(* gfsim::ObservationSlots (include/gfsim/ObservationSlot.h): the events   *)
(* and gauges that a simulation step stages while it evaluates and that    *)
(* are checked and committed with it.                                      *)
(*                                                                         *)
(* Slots are descriptors in their configured order.  A group is a set of   *)
(* slots that one record of the event stream is made of; a gauge is a      *)
(* group of its own.  A value is a known one or Unknown, which stands for  *)
(* every four-state value with an unknown bit (SlotValueKind::Bits4); the  *)
(* values of events decide nothing and are left out.                       *)
(***************************************************************************)
EXTENDS Naturals, FiniteSets

CONSTANTS Groups,          \* a partition of the slots, 1 .. n
          GaugeSlots,      \* the slots that are gauges
          EventCapacity,
          Known, Unknown,  \* values; 0 is the value of a gauge after Reset
          Empty            \* a slot with nothing pending

Slots == UNION Groups
EventSlots == Slots \ GaugeSlots
Value == Known \cup {Unknown}

\* Configure accepts complete groups only, gauges in groups of one.
ASSUME DescriptorAssumption ==
  /\ {} \notin Groups
  /\ \A g, h \in Groups : g = h \/ g \cap h = {}
  /\ GaugeSlots \subseteq Slots /\ \A s \in GaugeSlots : {s} \in Groups
  /\ IsFiniteSet(Slots) /\ Slots \subseteq Nat
  /\ EventCapacity \in Nat
  /\ 0 \in Known /\ Unknown \notin Known

VARIABLES slots,    \* pending snapshots
          events,   \* committed events of the last step
          gauges    \* committed gauges

observations == <<slots, events, gauges>>

\* Only a gauge on its path has a value that is looked at.
Snapshot(s) ==
  {r \in [value : Value, valid : BOOLEAN, path : BOOLEAN] :
     (s \in GaugeSlots /\ r.valid /\ r.path) \/ r.value = 0}

InitSlots ==
  /\ slots = [s \in Slots |-> Empty]
  /\ events = {}
  /\ gauges = [s \in GaugeSlots |-> [value |-> 0, lastUpdate |-> 0]]

Pending(s) == slots[s] # Empty
Live(s) == Pending(s) /\ slots[s].valid /\ slots[s].path

\* Calls of Stage in one evaluation, at the given epoch: a slot that is already
\* pending keeps its snapshot.
Stage(staged, epoch) ==
  slots' = [s \in Slots |->
    IF s \in DOMAIN staged /\ ~Pending(s)
    THEN [value |-> staged[s].value, valid |-> staged[s].valid,
          path |-> staged[s].path, epoch |-> epoch]
    ELSE slots[s]]

\* The check of one group against the evaluation epoch.
GroupOK(g, epoch) ==
  (\E s \in g : Pending(s)) =>
    /\ \A s \in g : Pending(s) /\ slots[s].epoch = epoch
    /\ \A s, t \in g : slots[s].path = slots[t].path
    /\ (\A s \in g : slots[s].path) => \A s, t \in g : slots[s].valid = slots[t].valid
    /\ \A s \in g \cap GaugeSlots : Live(s) => slots[s].value \in Known

Additions == {s \in EventSlots : Live(s)}

\* Mutant: the capacity is only looked at by Xfer.
Precommit_NoCapacity(epoch) == \A g \in Groups : GroupOK(g, epoch)

Precommit(epoch) ==
  /\ \A g \in Groups : GroupOK(g, epoch)
  /\ Cardinality(Additions) <= EventCapacity

DiscardSlots == slots' = [s \in Slots |-> Empty]

\* What Xfer takes over: the live snapshots of the epoch before.
Committed(epoch) == {s \in Slots : Live(s) /\ slots[s].epoch + 1 = epoch}

\* push_back in slot order until the capacity is reached.
Stored(S) == {s \in S : Cardinality({t \in S : t <= s}) <= EventCapacity}

XferSlots(epoch) ==
  /\ events' = {[epoch |-> epoch, slot |-> s] : s \in Stored(Committed(epoch) \cap EventSlots)}
  /\ gauges' = [s \in GaugeSlots |->
                 IF s \in Committed(epoch)
                 THEN [value |-> slots[s].value, lastUpdate |-> epoch]
                 ELSE gauges[s]]
  /\ DiscardSlots

ResetSlots ==
  /\ DiscardSlots
  /\ events' = {}
  /\ gauges' = [s \in GaugeSlots |-> [value |-> 0, lastUpdate |-> 0]]

=============================================================================
