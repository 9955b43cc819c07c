------------------------ MODULE RegisterMemoryProofs -------------------------
(***************************************************************************)
(* Proofs about what an emitted design keeps its state in.  Module         *)
(* DesignStep: any number of families of any size, any payloads, with and  *)
(* without the pool.  Module MemLockstep: memories of any depth, any lanes *)
(* and values and one or two ports.                                        *)
(***************************************************************************)
EXTENDS DesignStep, TLAPS

\* The variables of the families are functions of families and lanes.
Shape ==
  /\ DOMAIN pending = Families /\ DOMAIN completed = Families
  /\ DOMAIN completedCount = Families /\ DOMAIN at = Families
  /\ \A f \in Families : DOMAIN pending[f] = Lanes(f)

\* Both designs hold the same registers at all times, also within a step ...
SameRegisters ==
  \A f \in Families : \A l \in Lanes(f) :
    /\ current[f][l].q = q_current[<<f, l>>]
    /\ current[f][l].clock = clock_current[<<f, l>>]

\* ... and all of them have sampled the same level of the clock.
OneClock == \E b \in BOOLEAN : \A f \in Families : \A l \in Lanes(f) : current[f][l].clock = b

\* Every Verilog leaf has prepared by the pins of the step.
LeafPrepared(r) ==
  LET p == pins.lane[r]
      error == V!Error(r, pins.clk, pins.rst, p) IN
  /\ preparation_error[r] = error /\ pending_valid[r] = ~error
  /\ ~error => /\ q_pending[r] = V!next_q(q_current[r], V!Rising(r, pins.clk), pins.rst, p)
               /\ clock_pending[r] = (pins.clk = "1")

LaneThrows(f, l) == Throws(current[f][l], pins.clk, pins.rst, pins.lane[<<f, l>>])
LaneWorked(f, l) == Worked(current[f][l], pins.clk, pins.rst, pins.lane[<<f, l>>])

\* How far a family has come: its lanes before the next one are prepared, or
\* the next one has thrown.
FamilyPrepared(f) ==
  IF f \in threw THEN at[f] \in Lanes(f) /\ LaneThrows(f, at[f])
  ELSE /\ at[f] \in 1 .. Size[f] + 1
       /\ completed[f] = 1 .. (at[f] - 1) /\ completedCount[f] = at[f] - 1
       /\ \A l \in 1 .. (at[f] - 1) : ~LaneThrows(f, l) /\ pending[f][l] = LaneWorked(f, l)

NothingHeld(f) ==
  /\ completed[f] = {} /\ completedCount[f] = 0
  /\ \A l \in Lanes(f) : ~pending[f][l].valid

Stepping ==
  IF phase = "work"
  THEN /\ threw \subseteq Families
       /\ \A r \in Registers : LeafPrepared(r)
       /\ \A f \in Families : FamilyPrepared(f)
  ELSE \A f \in Families : NothingHeld(f)

PinsTyped == pins.clk \in Pin /\ pins.rst \in Pin

IInv == Shape /\ SameRegisters /\ OneClock /\ PinsTyped /\ Stepping

-----------------------------------------------------------------------------
(* Registers as pairs, and the one leaf against the other.                 *)

\* A register is a family and a lane of it.
LEMMA Index ==
  ASSUME NEW r \in Registers
  PROVE  r[1] \in Families /\ r[2] \in Lanes(r[1]) /\ r = <<r[1], r[2]>>
<1>1. PICK f \in Families : r \in {f} \X Lanes(f)
  BY Zenon DEF Registers
<1> QED BY <1>1

\* Every lane of a family is a register.
LEMMA IsRegister ==
  ASSUME NEW f \in Families, NEW l \in Lanes(f)
  PROVE  <<f, l>> \in Registers
<1>1. <<f, l>> \in {f} \X Lanes(f)
  BY Zenon
<1> QED BY <1>1, Zenon DEF Registers

\* A family is a positive number and has at least one lane.
LEMMA Sizes ==
  /\ Own \in Families /\ Own = Len(Size) /\ Families = 1 .. Len(Size) /\ Len(Size) \in Nat
  /\ \A f \in Families : Size[f] \in Nat /\ Size[f] > 0 /\ 1 \in Lanes(f)
BY SizeAssumption DEF Own, Families, Lanes

\* The kernel sees an edge, and throws, exactly where the Verilog leaf sees an
\* edge and reports an error.
LEMMA SameLeaf ==
  ASSUME SameRegisters, NEW f \in Families, NEW l \in Lanes(f), NEW clk, NEW rst, NEW p
  PROVE  /\ Throws(current[f][l], clk, rst, p) <=> V!Error(<<f, l>>, clk, rst, p)
         /\ Rising(current[f][l], clk) <=> V!Rising(<<f, l>>, clk)
         /\ current[f][l].q = q_current[<<f, l>>]
<1>1. current[f][l].q = q_current[<<f, l>>] /\ current[f][l].clock = clock_current[<<f, l>>]
  BY Zenon DEF SameRegisters
<1>2. Rising(current[f][l], clk) <=> V!Rising(<<f, l>>, clk)
  BY <1>1, Zenon DEF Rising, V!Rising
<1>3. Throws(current[f][l], clk, rst, p) <=> V!Error(<<f, l>>, clk, rst, p)
  BY <1>2, Zenon DEF Throws, V!Error, V!edge_control_error
<1> QED BY <1>1, <1>2, <1>3, Zenon

\* After discard of every family nothing is held.
LEMMA Discards ==
  ASSUME discard(Families)
  PROVE  /\ \A f \in Families : NothingHeld(f)'
         /\ DOMAIN pending' = Families /\ DOMAIN completed' = Families
         /\ DOMAIN completedCount' = Families /\ \A f \in Families : DOMAIN pending'[f] = Lanes(f)
<1>1. /\ pending' = [f \in Families |-> [l \in Lanes(f) |-> Discarded(current'[f][l])]]
      /\ completed' = [f \in Families |-> {}]
      /\ completedCount' = [f \in Families |-> 0]
  BY Zenon DEF discard
<1>2. \A f \in Families : DOMAIN pending'[f] = Lanes(f)
  BY <1>1, Zenon
<1>3. ASSUME NEW f \in Families
      PROVE  NothingHeld(f)'
  <2>1. completed'[f] = {} /\ completedCount'[f] = 0
    BY <1>1, Zenon
  <2>2. ASSUME NEW l \in Lanes(f)
        PROVE  ~pending'[f][l].valid
    <3>1. pending'[f][l] = Discarded(current'[f][l])
      BY <1>1, Zenon
    <3> QED BY <3>1 DEF Discarded
  <2> QED BY <2>1, <2>2, Zenon DEF NothingHeld
<1> QED BY <1>1, <1>2, <1>3, Zenon

-----------------------------------------------------------------------------
(* One lemma per action.                                                   *)

\* The pins of a step are one-bit values.
LEMMA PinLevels ==
  ASSUME NEW in \in Inputs \cup ResetInputs
  PROVE  in.clk \in Pin /\ in.rst \in Pin
BY Zenon DEF Inputs, ResetInputs, InputsWith, Pin

\* Init satisfies the invariant.
LEMMA Initial ==
  ASSUME Init
  PROVE  IInv
<1>1. /\ current = [f \in Families |-> [l \in Lanes(f) |-> [q |-> Unknown, clock |-> FALSE]]]
      /\ pending = [f \in Families |-> [l \in Lanes(f) |-> Discarded(current[f][l])]]
      /\ completed = [f \in Families |-> {}] /\ completedCount = [f \in Families |-> 0]
      /\ at = [f \in Families |-> 1] /\ phase = "idle"
      /\ q_current = [r \in Registers |-> Unknown] /\ clock_current = [r \in Registers |-> FALSE]
      /\ pins \in InputsWith("0", "x", {Idle})
  BY Zenon DEF Init, InitFamilies, V!Init
<1>2. Shape
  BY <1>1, Zenon DEF Shape
<1>3. SameRegisters
  BY <1>1, IsRegister, Zenon DEF SameRegisters
<1>4. OneClock
  BY <1>1, Zenon DEF OneClock
<1>5. PinsTyped
  BY <1>1, Zenon DEF PinsTyped, InputsWith, Pin
<1>6. ASSUME NEW f \in Families
      PROVE  NothingHeld(f)
  BY <1>1, Zenon DEF NothingHeld, Discarded
<1>7. Stepping
  BY <1>1, <1>6, Zenon DEF Stepping
<1> QED BY <1>2, <1>3, <1>4, <1>5, <1>7, Zenon DEF IInv

\* Work begins with nothing prepared in C++ and every Verilog leaf prepared.
LEMMA BeginKeeps ==
  ASSUME IInv, NEW in \in Inputs, Begin(in)
  PROVE  IInv'
<1>1. /\ phase = "idle" /\ phase' = "work" /\ pins' = in /\ at' = [f \in Families |-> 1]
      /\ threw' = {} /\ V!Prepare(in.clk, in.rst, in.lane)
      /\ UNCHANGED <<current, pending, completed, completedCount>>
  BY Zenon DEF Begin, cpp
<1>2. UNCHANGED <<q_current, clock_current>>
  BY <1>1, Zenon DEF V!Prepare, V!registers
<1>3. Shape'
  BY <1>1, Zenon DEF IInv, Shape
<1>4. SameRegisters' /\ OneClock'
  BY <1>1, <1>2, Zenon DEF IInv, SameRegisters, OneClock
<1>5. PinsTyped'
  BY <1>1, PinLevels, Zenon DEF PinsTyped
<1>6. ASSUME NEW r \in Registers
      PROVE  LeafPrepared(r)'
  <2>1. /\ preparation_error'[r] = V!Error(r, in.clk, in.rst, in.lane[r])
        /\ pending_valid'[r] = ~V!Error(r, in.clk, in.rst, in.lane[r])
    BY <1>1, Zenon DEF V!Prepare
  <2>2. ~V!Error(r, in.clk, in.rst, in.lane[r]) =>
          /\ q_pending'[r] = V!next_q(q_current[r], V!Rising(r, in.clk), in.rst, in.lane[r])
          /\ clock_pending'[r] = (in.clk = "1")
    BY <1>1, Zenon DEF V!Prepare
  <2> QED BY <1>1, <1>2, <2>1, <2>2, Zenon DEF LeafPrepared, V!Error, V!Rising
<1>7. ASSUME NEW f \in Families
      PROVE  FamilyPrepared(f)'
  <2>1. completed'[f] = {} /\ completedCount'[f] = 0
    BY <1>1, Zenon DEF IInv, Stepping, NothingHeld
  <2>2. at'[f] = 1 /\ f \notin threw' /\ 1 .. (1 - 1) = {} /\ 1 \in 1 .. Size[f] + 1
    BY <1>1, Sizes
  <2> QED BY <2>1, <2>2 DEF FamilyPrepared
<1>8. Stepping'
  BY <1>1, <1>6, <1>7, Zenon DEF Stepping
<1> QED BY <1>3, <1>4, <1>5, <1>8, Zenon DEF IInv

\* A family samples its next lane or throws there; the others keep what they
\* have prepared.
LEMMA WorkLaneKeeps ==
  ASSUME IInv, NEW f \in Families, WorkLane(f)
  PROVE  IInv'
<1> DEFINE l == at[f]
<1>1. /\ phase = "work" /\ ~Finished(f) /\ UNCHANGED <<phase, pins, verilog>>
  BY Zenon DEF WorkLane, MayRun
<1>2. UNCHANGED <<q_current, clock_current, q_pending, clock_pending, pending_valid,
                  preparation_error>>
  BY <1>1, Zenon DEF verilog
<1>3. f \notin threw /\ FamilyPrepared(f) /\ l \in Lanes(f)
  BY <1>1, Sizes DEF Finished, IInv, Stepping, FamilyPrepared, Lanes
<1>4. /\ Shape /\ threw \subseteq Families
      /\ \A r \in Registers : LeafPrepared(r)
      /\ \A g \in Families : FamilyPrepared(g)
  BY <1>1, Zenon DEF IInv, Stepping
<1>5. ASSUME UNCHANGED current
      PROVE  SameRegisters' /\ OneClock' /\ PinsTyped' /\ \A r \in Registers : LeafPrepared(r)'
  <2>1. SameRegisters' /\ OneClock' /\ PinsTyped'
    BY <1>1, <1>2, <1>5, Zenon DEF IInv, SameRegisters, OneClock, PinsTyped
  <2>2. ASSUME NEW r \in Registers PROVE LeafPrepared(r)'
    BY <1>1, <1>2, <1>4, Zenon DEF LeafPrepared, V!Error, V!Rising
  <2> QED BY <2>1, <2>2, Zenon
<1>6. ASSUME NEW g \in Families, g \in threw' <=> g \in threw,
             UNCHANGED <<current, pending[g], completed[g], completedCount[g], at[g]>>
      PROVE  FamilyPrepared(g)'
  <2>1. \A k : LaneThrows(g, k)' = LaneThrows(g, k) /\ LaneWorked(g, k)' = LaneWorked(g, k)
    BY <1>1, <1>6, Zenon DEF LaneThrows, LaneWorked
  <2>2. /\ pending'[g] = pending[g] /\ completed'[g] = completed[g]
        /\ completedCount'[g] = completedCount[g] /\ at'[g] = at[g]
    BY <1>6, Zenon
  <2> QED BY <1>4, <1>6, <2>1, <2>2, Zenon DEF FamilyPrepared
<1>7. CASE LaneThrows(f, l)
  <2>1. WorkThrows(f) /\ threw' = threw \cup {f} /\ UNCHANGED at
    BY <1>7, Zenon DEF WorkLane, LaneThrows
  <2>2. /\ UNCHANGED current
        /\ pending' = [g \in Families |->
                         IF g \in {f} THEN [k \in Lanes(g) |-> Discarded(current'[g][k])]
                         ELSE pending[g]]
        /\ completed' = [g \in Families |-> IF g \in {f} THEN {} ELSE completed[g]]
        /\ completedCount' = [g \in Families |-> IF g \in {f} THEN 0 ELSE completedCount[g]]
    BY <2>1, Zenon DEF WorkThrows, discard
  <2>3. Shape'
    BY <1>4, <2>1, <2>2, Zenon DEF Shape
  <2>4. FamilyPrepared(f)'
    <3>1. f \in threw' /\ at'[f] = l /\ LaneThrows(f, l)'
      BY <1>1, <1>7, <2>1, <2>2, Zenon DEF LaneThrows
    <3> QED BY <1>3, <3>1, Zenon DEF FamilyPrepared
  <2>5. ASSUME NEW g \in Families, g # f
        PROVE  FamilyPrepared(g)'
    <3>1. UNCHANGED <<current, pending[g], completed[g], completedCount[g], at[g]>>
      BY <2>1, <2>2, <2>5, Zenon
    <3>2. g \in threw' <=> g \in threw
      BY <2>1, <2>5, Zenon
    <3> QED BY <1>6, <3>1, <3>2, Zenon
  <2>6. \A g \in Families : FamilyPrepared(g)'
    BY <2>4, <2>5, Zenon
  <2>7. threw' \subseteq Families /\ phase' = "work"
    BY <1>1, <1>4, <2>1, Zenon
  <2> QED BY <1>5, <2>2, <2>3, <2>6, <2>7, Zenon DEF IInv, Stepping
<1>8. CASE ~LaneThrows(f, l)
  <2>1. /\ work(f, l, pins.clk, pins.rst, pins.lane[<<f, l>>])
        /\ at' = [at EXCEPT ![f] = l + 1] /\ UNCHANGED threw
    BY <1>8, Zenon DEF WorkLane, LaneThrows
  <2>2. completed[f] = 1 .. (l - 1) /\ completedCount[f] = l - 1 /\ l \in 1 .. Size[f] /\ l \in Nat
    BY <1>3 DEF FamilyPrepared, Lanes
  <2>3. /\ UNCHANGED current /\ pending' = [pending EXCEPT ![f][l] = LaneWorked(f, l)]
        /\ completed' = [completed EXCEPT ![f] = @ \cup {l}]
        /\ completedCount' = [completedCount EXCEPT ![f] = @ + 1]
    BY <2>1, <2>2 DEF work, LaneWorked
  <2>4. Shape'
    BY <1>4, <2>1, <2>3, Zenon DEF Shape
  <2>5. FamilyPrepared(f)'
    <3>1. at'[f] = l + 1 /\ f \notin threw' /\ l + 1 \in 1 .. Size[f] + 1
      BY <1>3, <1>4, <2>1, <2>2, Sizes DEF Shape
    <3>2. completed'[f] = 1 .. ((l + 1) - 1)
      BY <1>4, <2>2, <2>3 DEF Shape
    <3>3. completedCount'[f] = (l + 1) - 1
      BY <1>4, <2>2, <2>3 DEF Shape
    <3>4. \A k \in 1 .. (l - 1) : pending'[f][k] = pending[f][k]
      BY <1>4, <2>2, <2>3 DEF Shape
    <3>5. pending'[f][l] = LaneWorked(f, l)
      BY <1>3, <1>4, <2>3, Zenon DEF Shape
    <3>6. ASSUME NEW k \in 1 .. ((l + 1) - 1)
          PROVE  ~LaneThrows(f, k)' /\ pending'[f][k] = LaneWorked(f, k)'
      <4>1. ~LaneThrows(f, k) /\ pending'[f][k] = LaneWorked(f, k)
        <5>1. k \in 1 .. (l - 1) \/ k = l
          BY <2>2
        <5> QED BY <1>3, <1>8, <3>4, <3>5, <5>1, Zenon DEF FamilyPrepared
      <4> QED BY <1>1, <2>3, <4>1, Zenon DEF LaneThrows, LaneWorked
    <3>7. /\ at'[f] \in 1 .. Size[f] + 1
          /\ completed'[f] = 1 .. (at'[f] - 1) /\ completedCount'[f] = at'[f] - 1
      BY <3>1, <3>2, <3>3, Zenon
    <3>8. \A k \in 1 .. (at'[f] - 1) : ~LaneThrows(f, k)' /\ pending'[f][k] = LaneWorked(f, k)'
      BY <3>1, <3>6, Zenon
    <3> QED BY <3>1, <3>7, <3>8, Zenon DEF FamilyPrepared
  <2>6. ASSUME NEW g \in Families, g # f
        PROVE  FamilyPrepared(g)'
    <3>1. UNCHANGED <<current, pending[g], completed[g], completedCount[g], at[g]>>
      BY <1>4, <2>1, <2>3, <2>6, Zenon DEF Shape
    <3> QED BY <1>6, <2>1, <3>1, Zenon
  <2>7. \A g \in Families : FamilyPrepared(g)'
    BY <2>5, <2>6, Zenon
  <2>8. threw' \subseteq Families /\ phase' = "work"
    BY <1>1, <1>4, <2>1, Zenon
  <2> QED BY <1>5, <2>3, <2>4, <2>7, <2>8, Zenon DEF IInv, Stepping
<1> QED BY <1>7, <1>8, Zenon

\* A failed or refused step discards everything and commits nothing.
LEMMA FailKeeps ==
  ASSUME IInv, Fail \/ Refuse
  PROVE  IInv' /\ UNCHANGED current
<1>1. /\ phase' = "failed" /\ DiscardNext /\ V!Discard /\ UNCHANGED <<pins, at>>
  BY Zenon DEF Fail, Refuse
<1>2. UNCHANGED <<current, q_current, clock_current>> /\ discard(Families)
  BY <1>1, Zenon DEF DiscardNext, V!Discard, V!registers
<1>3. Shape'
  BY <1>1, <1>2, Discards, Zenon DEF IInv, Shape
<1>4. SameRegisters' /\ OneClock' /\ PinsTyped'
  BY <1>1, <1>2, Zenon DEF IInv, SameRegisters, OneClock, PinsTyped
<1>5. Stepping'
  BY <1>1, <1>2, Discards, Zenon DEF Stepping
<1> QED BY <1>2, <1>3, <1>4, <1>5, Zenon DEF IInv

\* When all families have finished without an exception, each lane has been
\* prepared and no leaf reports an error.
LEMMA AllPrepared ==
  ASSUME IInv, phase = "work", threw = {}, \A f \in Families : Finished(f),
         NEW f \in Families, NEW l \in Lanes(f)
  PROVE  /\ completedCount[f] = Size[f] /\ pending[f][l] = LaneWorked(f, l) /\ ~LaneThrows(f, l)
         /\ ~preparation_error[<<f, l>>] /\ pending_valid[<<f, l>>]
         /\ q_pending[<<f, l>>] = LaneWorked(f, l).q
         /\ clock_pending[<<f, l>>] = LaneWorked(f, l).clock
<1>1. FamilyPrepared(f) /\ f \notin threw /\ at[f] > Size[f]
  BY Zenon DEF IInv, Stepping, Finished
<1>2. at[f] = Size[f] + 1
  BY <1>1, Sizes DEF FamilyPrepared
<1>3. l \in 1 .. (at[f] - 1) /\ at[f] - 1 = Size[f]
  BY <1>2, Sizes DEF Lanes
<1>4. completedCount[f] = Size[f] /\ pending[f][l] = LaneWorked(f, l) /\ ~LaneThrows(f, l)
  BY <1>1, <1>3, Zenon DEF FamilyPrepared
<1>5. LeafPrepared(<<f, l>>)
  BY IsRegister, Zenon DEF IInv, Stepping
<1>6. ~V!Error(<<f, l>>, pins.clk, pins.rst, pins.lane[<<f, l>>])
  BY <1>4, SameLeaf, Zenon DEF IInv, LaneThrows
<1>7. /\ ~preparation_error[<<f, l>>] /\ pending_valid[<<f, l>>]
      /\ q_pending[<<f, l>>] = V!next_q(q_current[<<f, l>>], V!Rising(<<f, l>>, pins.clk), pins.rst,
                                        pins.lane[<<f, l>>])
      /\ clock_pending[<<f, l>>] = (pins.clk = "1")
  BY <1>5, <1>6, Zenon DEF LeafPrepared
<1>8. q_pending[<<f, l>>] = LaneWorked(f, l).q
  <2>1. /\ Rising(current[f][l], pins.clk) <=> V!Rising(<<f, l>>, pins.clk)
        /\ current[f][l].q = q_current[<<f, l>>]
    BY SameLeaf, Zenon DEF IInv
  <2> QED BY <1>7, <2>1, Zenon DEF V!next_q, LaneWorked, Worked
<1>9. clock_pending[<<f, l>>] = LaneWorked(f, l).clock
  BY <1>7, Zenon DEF LaneWorked, Worked
<1> QED BY <1>4, <1>7, <1>8, <1>9, Zenon

\* A commit moves every lane of both designs by what it has prepared.
LEMMA CommitMoves ==
  ASSUME IInv, Commit, NEW f \in Families, NEW l \in Lanes(f)
  PROVE  /\ current'[f][l].q = LaneWorked(f, l).q /\ q_current'[<<f, l>>] = LaneWorked(f, l).q
         /\ current'[f][l].clock = (pins.clk = "1") /\ clock_current'[<<f, l>>] = (pins.clk = "1")
         /\ ~LaneThrows(f, l)
<1>1. phase = "work" /\ threw = {} /\ (\A g \in Families : Finished(g)) /\ xfer /\ V!Commit
  BY Sizes, Zenon DEF Commit
<1>2. /\ completedCount[f] = Size[f] /\ pending[f][l] = LaneWorked(f, l) /\ ~LaneThrows(f, l)
      /\ pending_valid[<<f, l>>] /\ q_pending[<<f, l>>] = LaneWorked(f, l).q
      /\ clock_pending[<<f, l>>] = LaneWorked(f, l).clock
  BY <1>1, AllPrepared, Zenon
<1>3. LaneWorked(f, l).valid = TRUE /\ LaneWorked(f, l).clock = (pins.clk = "1")
  BY Zenon DEF LaneWorked, Worked
<1>4. current'[f][l] = Transferred(current[f][l], pending[f][l])
  BY <1>1, <1>2, Zenon DEF xfer
<1>5. current'[f][l].q = LaneWorked(f, l).q /\ current'[f][l].clock = LaneWorked(f, l).clock
  BY <1>2, <1>3, <1>4 DEF Transferred
<1>6. <<f, l>> \in Registers
  BY IsRegister, Zenon
<1>7. /\ q_current'[<<f, l>>] = q_pending[<<f, l>>]
      /\ clock_current'[<<f, l>>] = clock_pending[<<f, l>>]
  BY <1>1, <1>2, <1>6, Zenon DEF V!Commit
<1> QED BY <1>2, <1>3, <1>5, <1>7, Zenon

\* A commit keeps the invariant.
LEMMA CommitKeeps ==
  ASSUME IInv, Commit
  PROVE  IInv'
<1>1. phase' = "idle" /\ xfer /\ UNCHANGED <<pins, at>>
  BY Zenon DEF Commit
<1>2. discard(Families)
  BY <1>1, Zenon DEF xfer
<1>3. Shape'
  BY <1>1, <1>2, Discards, Zenon DEF IInv, Shape
<1>4. SameRegisters'
  <2>1. ASSUME NEW f \in Families, NEW l \in Lanes(f)
        PROVE  /\ current'[f][l].q = q_current'[<<f, l>>]
               /\ current'[f][l].clock = clock_current'[<<f, l>>]
    BY CommitMoves, Zenon
  <2> QED BY <2>1, Zenon DEF SameRegisters
<1>5. OneClock'
  <2>1. \A f \in Families : \A l \in Lanes(f) : current'[f][l].clock = (pins.clk = "1")
    BY CommitMoves, Zenon
  <2>2. (pins.clk = "1") \in BOOLEAN
    BY Zenon
  <2> QED BY <2>1, <2>2, Zenon DEF OneClock
<1>6. PinsTyped'
  BY <1>1, Zenon DEF IInv, PinsTyped
<1>7. Stepping'
  BY <1>1, <1>2, Discards, Zenon DEF Stepping
<1> QED BY <1>3, <1>4, <1>5, <1>6, <1>7, Zenon DEF IInv

\* A reset moves every lane of both designs to its initial value.
LEMMA ResetMoves ==
  ASSUME NEW in \in ResetInputs, Reset(in), NEW f \in Families, NEW l \in Lanes(f)
  PROVE  /\ current'[f][l].q = in.lane[<<f, l>>].init /\ current'[f][l].clock = FALSE
         /\ q_current'[<<f, l>>] = in.lane[<<f, l>>].init /\ clock_current'[<<f, l>>] = FALSE
<1>1. /\ reset([g \in Families |-> [k \in Lanes(g) |-> in.lane[<<g, k>>].init]])
      /\ V!HostReset([r \in Registers |-> in.lane[r].init])
  BY Zenon DEF Reset
<1>2. current'[f][l] = Transferred(current[f][l], ResetTo([init |-> in.lane[<<f, l>>].init]))
  BY <1>1, Zenon DEF reset
<1>3. current'[f][l].q = in.lane[<<f, l>>].init /\ current'[f][l].clock = FALSE
  BY <1>2 DEF Transferred, ResetTo
<1>4. q_current'[<<f, l>>] = in.lane[<<f, l>>].init /\ clock_current'[<<f, l>>] = FALSE
  BY <1>1, IsRegister, Zenon DEF V!HostReset
<1> QED BY <1>3, <1>4, Zenon

\* A reset keeps the invariant.
LEMMA ResetKeeps ==
  ASSUME IInv, NEW in \in ResetInputs, Reset(in)
  PROVE  IInv'
<1>1. /\ phase' = "idle" /\ pins' = in /\ UNCHANGED at
      /\ reset([g \in Families |-> [k \in Lanes(g) |-> in.lane[<<g, k>>].init]])
  BY Zenon DEF Reset
<1>2. discard(Families)
  BY <1>1, Zenon DEF reset
<1>3. Shape'
  BY <1>1, <1>2, Discards, Zenon DEF IInv, Shape
<1>4. SameRegisters' /\ OneClock'
  <2>1. ASSUME NEW f \in Families, NEW l \in Lanes(f)
        PROVE  /\ current'[f][l].q = q_current'[<<f, l>>]
               /\ current'[f][l].clock = clock_current'[<<f, l>>]
               /\ current'[f][l].clock = FALSE
    BY ResetMoves, Zenon
  <2>2. SameRegisters'
    BY <2>1, Zenon DEF SameRegisters
  <2>3. FALSE \in BOOLEAN
    BY Zenon
  <2>4. OneClock'
    BY <2>1, <2>3, Zenon DEF OneClock
  <2> QED BY <2>2, <2>4, Zenon
<1>5. PinsTyped'
  BY <1>1, PinLevels, Zenon DEF PinsTyped
<1>6. Stepping'
  BY <1>1, <1>2, Discards, Zenon DEF Stepping
<1> QED BY <1>3, <1>4, <1>5, <1>6, Zenon DEF IInv

-----------------------------------------------------------------------------
(* The registers as one array.                                             *)

Registered == <<[r \in Registers |-> current[r[1]][r[2]].q],
                [r \in Registers |-> current[r[1]][r[2]].clock]>>

\* A commit is an edge or a level of the whole array.
LEMMA CommitIsStep ==
  ASSUME IInv, Commit
  PROVE  Array!Next
<1> DEFINE qs == [r \in Registers |-> current[r[1]][r[2]].q]
           clocks == [r \in Registers |-> current[r[1]][r[2]].clock]
<1>1. ASSUME NEW r \in Registers
      PROVE  /\ current'[r[1]][r[2]].q = LaneWorked(r[1], r[2]).q
             /\ current'[r[1]][r[2]].clock = (pins.clk = "1")
             /\ ~LaneThrows(r[1], r[2]) /\ r = <<r[1], r[2]>>
  BY CommitMoves, Index, Zenon
<1>2. PICK b \in BOOLEAN : \A r \in Registers : current[r[1]][r[2]].clock = b
  BY Index, Zenon DEF IInv, OneClock
<1>3. PICK r0 : r0 \in Registers
  BY Sizes, IsRegister, Zenon
<1>4. pins.clk \in {"0", "1"} /\ pins.rst \in Pin
  BY <1>1, <1>3, Zenon DEF IInv, PinsTyped, Pin, LaneThrows, Throws
<1>5. clocks' = [r \in Registers |-> pins.clk = "1"]
  BY <1>1, Zenon
<1>6. CASE pins.clk = "0" \/ b
  <2>1. ASSUME NEW r \in Registers
        PROVE  current'[r[1]][r[2]].q = current[r[1]][r[2]].q
    BY <1>1, <1>2, <1>6, Zenon DEF LaneWorked, Worked, Rising
  <2>2. qs' = qs
    BY <2>1, Zenon
  <2>3. pins.clk = "0" \/ (pins.clk = "1" /\ \A r \in Registers : clocks[r])
    BY <1>2, <1>4, <1>6, Zenon
  <2>4. Array!Level
    BY <1>5, <2>2, <2>3, Zenon DEF Array!Level
  <2> QED BY <2>4, Zenon DEF Array!Next
<1>7. CASE pins.clk = "1" /\ ~b
  <2>1. ASSUME NEW r \in Registers
        PROVE  /\ ~clocks[r] /\ Array!Known(r)
               /\ current'[r[1]][r[2]].q = Array!Loaded(r)
    <3>1. ~current[r[1]][r[2]].clock
      BY <1>2, <1>7, Zenon
    <3>2. Rising(current[r[1]][r[2]], pins.clk)
      BY <1>7, <3>1, Zenon DEF Rising
    <3>3. Array!Known(r)
      BY <1>1, <1>4, <3>2, Zenon DEF LaneThrows, Throws, Array!Known, Pin
    <3>4. LaneWorked(r[1], r[2]).q = Array!Loaded(r)
      BY <1>1, <3>2, Zenon DEF LaneWorked, Worked, Array!Loaded
    <3> QED BY <1>1, <3>1, <3>3, <3>4, Zenon
  <2>2. qs' = [r \in Registers |-> Array!Loaded(r)]
    BY <2>1, Zenon
  <2>3. Array!Edge
    BY <1>5, <1>7, <2>1, <2>2, Zenon DEF Array!Edge
  <2> QED BY <2>3, Zenon DEF Array!Next
<1> QED BY <1>4, <1>6, <1>7, Zenon

\* A reset of the design is a reset of the array.
LEMMA ResetIsStep ==
  ASSUME NEW in \in ResetInputs, Reset(in)
  PROVE  Array!Next
<1>1. ASSUME NEW r \in Registers
      PROVE  /\ current'[r[1]][r[2]].q = pins'.lane[r].init
             /\ current'[r[1]][r[2]].clock = FALSE
  <2>1. /\ current'[r[1]][r[2]].q = in.lane[<<r[1], r[2]>>].init
        /\ current'[r[1]][r[2]].clock = FALSE
    BY ResetMoves, Index, Zenon
  <2>2. pins' = in /\ r = <<r[1], r[2]>>
    BY Index, Zenon DEF Reset
  <2> QED BY <2>1, <2>2, Zenon
<1>2. Array!Reset
  BY <1>1, Zenon DEF Array!Reset
<1> QED BY <1>2, Zenon DEF Array!Next

\* Every step keeps the invariant and is a step of the array or invisible in it.
LEMMA Inductive ==
  ASSUME IInv, [Next]_vars
  PROVE  IInv' /\ [Array!Next]_Registered
<1>1. ASSUME UNCHANGED current PROVE Registered' = Registered
  BY <1>1, Zenon DEF Registered
<1>2. CASE \E in \in Inputs : Begin(in)
  <2>1. UNCHANGED current
    BY <1>2, Zenon DEF Begin, cpp
  <2> QED BY <1>1, <1>2, <2>1, BeginKeeps, Zenon
<1>3. CASE \E f \in Families : WorkLane(f)
  <2>1. UNCHANGED current
    BY <1>3, Zenon DEF WorkLane, WorkThrows, work
  <2> QED BY <1>1, <1>3, <2>1, WorkLaneKeeps, Zenon
<1>4. CASE Fail \/ Refuse
  BY <1>1, <1>4, FailKeeps, Zenon
<1>5. CASE Commit
  BY <1>5, CommitKeeps, CommitIsStep, Zenon
<1>6. CASE \E in \in ResetInputs : Reset(in)
  BY <1>6, ResetKeeps, ResetIsStep, Zenon
<1>7. CASE UNCHANGED vars
  <2>1. UNCHANGED <<current, pending, completed, completedCount, q_current, clock_current,
                    q_pending, clock_pending, pending_valid, preparation_error, phase, pins, at,
                    threw>>
    BY <1>7, Zenon DEF vars, cpp, verilog
  <2>2. Shape' /\ SameRegisters' /\ OneClock' /\ PinsTyped'
    BY <2>1, Zenon DEF IInv, Shape, SameRegisters, OneClock, PinsTyped
  <2>3. ASSUME NEW r \in Registers PROVE LeafPrepared(r)' <=> LeafPrepared(r)
    BY <2>1, Zenon DEF LeafPrepared, V!Error, V!Rising
  <2>4. ASSUME NEW f \in Families
        PROVE  (FamilyPrepared(f)' <=> FamilyPrepared(f)) /\ (NothingHeld(f)' <=> NothingHeld(f))
    BY <2>1, Zenon DEF FamilyPrepared, LaneThrows, LaneWorked, NothingHeld
  <2>5. Stepping'
    BY <2>1, <2>3, <2>4, Zenon DEF IInv, Stepping
  <2> QED BY <1>1, <2>1, <2>2, <2>5, Zenon DEF IInv
<1> QED BY <1>2, <1>3, <1>4, <1>5, <1>6, <1>7, Zenon DEF Next

-----------------------------------------------------------------------------
(* Theorems.                                                               *)

\* Both designs agree when Work has ended and between steps.
LEMMA Agree ==
  ASSUME IInv
  PROVE  VerilogAgrees
<1>1. ASSUME phase = "work", TasksEnded, threw # {} \/ Finished(Own)
      PROVE  threw # {} <=> V!local_error
  <2>1. CASE threw # {}
    <3>1. PICK f \in Families : f \in threw
      BY <1>1, <2>1, Zenon DEF IInv, Stepping
    <3>2. at[f] \in Lanes(f) /\ LaneThrows(f, at[f])
      BY <1>1, <3>1, Zenon DEF IInv, Stepping, FamilyPrepared
    <3>3. V!Error(<<f, at[f]>>, pins.clk, pins.rst, pins.lane[<<f, at[f]>>])
      BY <3>2, SameLeaf, Zenon DEF IInv, LaneThrows
    <3>4. <<f, at[f]>> \in Registers /\ LeafPrepared(<<f, at[f]>>)
      BY <1>1, <3>2, IsRegister, Zenon DEF IInv, Stepping
    <3>5. preparation_error[<<f, at[f]>>]
      BY <3>3, <3>4, Zenon DEF LeafPrepared
    <3> QED BY <2>1, <3>4, <3>5, Zenon DEF V!local_error
  <2>2. CASE threw = {}
    <3>1. \A f \in Families : Finished(f)
      BY <1>1, <2>2, Zenon DEF TasksEnded, Tasks
    <3>2. ASSUME NEW r \in Registers
          PROVE  ~preparation_error[r] /\ pending_valid[r]
      BY <1>1, <2>2, <3>1, AllPrepared, Index
    <3> QED BY <2>2, <3>2, Zenon DEF V!local_error
  <2> QED BY <2>1, <2>2, Zenon
<1>2. \A r \in Registers : current[r[1]][r[2]].q = q_current[r]
  BY Index, Zenon DEF IInv, SameRegisters
<1> QED BY <1>1, <1>2, Zenon DEF VerilogAgrees

\* The invariant holds in every reachable state of the two designs.
THEOREM Invariant == Spec => []IInv
<1>1. Init => IInv
  BY Initial, Zenon
<1>2. IInv /\ [Next]_vars => IInv'
  BY Inductive, Zenon
<1> QED BY <1>1, <1>2, PTL DEF Spec

\* Between steps no family of the C++ design holds a prepared lane.
THEOREM NothingKept == Spec => []NothingPrepared
<1>1. IInv => NothingPrepared
  BY Zenon DEF IInv, Stepping, NothingHeld, NothingPrepared
<1> QED BY <1>1, Invariant, PTL

\* The C++ and the Verilog design fail in the same steps and hold the same
\* registers between them.
THEOREM Agreement == Spec => []VerilogAgrees
<1>1. IInv => VerilogAgrees
  BY Agree, Zenon
<1> QED BY <1>1, Invariant, PTL

\* The registers of the C++ design change like one array.
THEOREM Implements == Spec => ImplementsRegisters
<1>1. Init => Array!Init
  <2> SUFFICES ASSUME Init PROVE Array!Init
    BY Zenon
  <2>1. \A f \in Families : \A l \in Lanes(f) :
          current[f][l].q = Unknown /\ current[f][l].clock = FALSE
    BY Zenon DEF Init, InitFamilies
  <2>2. \A r \in Registers : current[r[1]][r[2]].q = Unknown /\ current[r[1]][r[2]].clock = FALSE
    BY <2>1, Index, Zenon
  <2> QED BY <2>2, Zenon DEF Array!Init
<1>2. IInv /\ [Next]_vars => [Array!Next]_Registered
  BY Inductive, Zenon
<1>3. Spec => Array!Init /\ [][Array!Next]_Registered
  BY <1>1, <1>2, Invariant, PTL DEF Spec
<1> QED BY <1>3, PTL DEF ImplementsRegisters, Array!Spec, Registered

-----------------------------------------------------------------------------
(* A memory and its Verilog leaf (module MemLockstep).                     *)

CONSTANTS Shapes, Values, Zero

VARIABLES shape, memory, q, idle, live, clock, mem_pending, request,
          v_mem, v_rdata, v_idle, v_live, v_clock, v_pending_valid, v_error,
          v_write, v_read, v_clock_pending

\* The module under its own names; its variables are not those of DesignStep.
Memory == INSTANCE MemLockstep WITH pending <- mem_pending

\* The memory's registers; an answer is there for two edges.
MemTyped ==
  /\ shape \in [depth : Nat \ {0}, lanes : Nat \ {0}, ports : {1, 2}]
  /\ memory \in [Memory!Addresses -> Memory!Word]
  /\ q \in [Memory!Ports -> Memory!Word \cup {Unknown}]
  /\ live \in [Memory!Ports -> BOOLEAN] /\ idle \in [Memory!Ports -> Nat]
  /\ clock \in BOOLEAN
  /\ Zero \in Values /\ Unknown \notin Memory!Word
  /\ \A p \in Memory!Ports : live[p] => idle[p] < 2
  /\ \A p \in Memory!Ports : live[p] <=> q[p] # Unknown

\* The leaf holds the same.
SameMemory ==
  /\ v_mem = memory /\ v_rdata = q /\ v_idle = idle /\ v_live = live /\ v_clock = clock

\* What is prepared is what an evaluation in this state prepares, on both sides:
\* nothing, no edge, a reset or an edge.
PreparedNothing == ~mem_pending.valid /\ ~v_pending_valid /\ request = {}

\* Both have prepared a transition without an edge.
HoldPrepared(k) ==
  /\ mem_pending = [Memory!Discarded EXCEPT !.valid = TRUE, !.clock = k]
  /\ v_write = Memory!Verilog!NoWrite /\ v_read = [p \in Memory!Ports |-> Memory!Verilog!current_read(p)]
  /\ v_clock_pending = k /\ request = {}

\* Both have prepared to invalidate their answers.
ResetPrepared(k) ==
  /\ mem_pending = Memory!Invalidated(k)
  /\ v_write = Memory!Verilog!NoWrite /\ v_read = Memory!Verilog!NoRead
  /\ v_clock_pending = k /\ request = {}

\* Both have prepared the edge with the write w and the reads r.
EdgePrepared(w, r) ==
  /\ Memory!EdgeKnown(w, r)
  /\ mem_pending = Memory!Transaction(w, r)
  /\ v_write = IF w.valid = "1" /\ w.addr < Memory!Depth
               THEN [index |-> w.addr, bits |-> w.data, enable |-> w.strb]
               ELSE Memory!Verilog!NoWrite
  /\ v_read = [p \in Memory!Ports |-> Memory!Verilog!next_read(p, r[p].en, r[p].addr)]
  /\ v_clock_pending = TRUE /\ request = {[w |-> w, r |-> r]}

\* Both have prepared the same, or neither has prepared anything.
PreparedAlike ==
  /\ v_error \in BOOLEAN
  /\ \/ PreparedNothing
     \/ /\ v_pending_valid = TRUE /\ ~v_error
        /\ \/ \E k \in BOOLEAN : HoldPrepared(k) \/ ResetPrepared(k)
           \/ \E w \in Memory!WritePins, r \in [Memory!Ports -> Memory!ReadPins] : EdgePrepared(w, r)

\* The inductive invariant of the kernel and the leaf side by side.
LockstepInv == MemTyped /\ SameMemory /\ PreparedAlike

\* The shape of a memory, and the words it holds.
LEMMA MemNumbers ==
  ASSUME MemTyped
  PROVE  /\ Memory!Depth \in Nat \ {0} /\ shape.lanes \in Nat \ {0} /\ shape.ports \in {1, 2}
         /\ 0 \in Memory!Addresses /\ Memory!ZeroWord \in Memory!Word
         /\ \A a \in Memory!Addresses : memory[a] = [l \in Memory!Lanes |-> memory[a][l]] /\ memory[a] \in Memory!Word
<1>1. Memory!Depth \in Nat \ {0} /\ shape.lanes \in Nat \ {0} /\ shape.ports \in {1, 2}
  BY Zenon DEF MemTyped, Memory!Depth
<1>2. 0 \in Memory!Addresses
  BY <1>1 DEF Memory!Addresses
<1>3. Memory!ZeroWord \in Memory!Word
  BY Zenon DEF MemTyped, Memory!ZeroWord, Memory!Word
<1>4. \A a \in Memory!Addresses : memory[a] = [l \in Memory!Lanes |-> memory[a][l]] /\ memory[a] \in Memory!Word
  BY Zenon DEF MemTyped, Memory!Word
<1> QED BY <1>1, <1>2, <1>3, <1>4, Zenon

\* The leaf has the sizes of the kernel.
LEMMA VerilogNames ==
  /\ Memory!Verilog!Depth = Memory!Depth /\ Memory!Verilog!Lanes = Memory!Lanes /\ Memory!Verilog!Ports = Memory!Ports
  /\ Memory!Verilog!ZeroWord = Memory!ZeroWord
BY Zenon DEF Memory!Verilog!Depth, Memory!Verilog!Lanes, Memory!Verilog!Ports, Memory!Verilog!ZeroWord, Memory!Depth, Memory!Lanes, Memory!Ports, Memory!ZeroWord

\* What an accepted edge knows.
LEMMA EdgeOperands ==
  ASSUME MemTyped, NEW w \in Memory!WritePins, NEW r \in [Memory!Ports -> Memory!ReadPins], Memory!EdgeKnown(w, r)
  PROVE  /\ w.valid \in {"0", "1"}
         /\ w.valid = "1" => w.addr \in Nat /\ w.data \in Memory!Word /\ w.strb \in SUBSET Memory!Lanes
         /\ \A p \in Memory!Ports : r[p].en \in {"0", "1"} /\ (r[p].en = "1" => r[p].addr \in Nat)
<1>0. Memory!Depth \in Nat
  BY MemNumbers, Zenon
<1>1. w.valid \in {"0", "1"}
  BY Zenon DEF Memory!WritePins, Memory!EdgeKnown
<1>2. ASSUME w.valid = "1" PROVE w.addr \in Nat /\ w.data \in Memory!Word /\ w.strb \in SUBSET Memory!Lanes
  <2>1. w.addr \in Memory!AddressPin /\ w.data \in Memory!WordPin /\ w.strb \in Memory!StrobePin
    BY <1>2, Zenon DEF Memory!WritePins
  <2>2. w.addr # Unknown /\ w.data # Unknown /\ w.strb # Unknown
    BY <1>2, Zenon DEF Memory!EdgeKnown
  <2> QED BY <1>0, <2>1, <2>2 DEF Memory!AddressPin, Memory!WordPin, Memory!StrobePin
<1>3. ASSUME NEW p \in Memory!Ports PROVE r[p].en \in {"0", "1"} /\ (r[p].en = "1" => r[p].addr \in Nat)
  <2>1. r[p] \in Memory!ReadPins /\ r[p].en # "x" /\ (r[p].en = "1" => r[p].addr # Unknown)
    BY Zenon DEF Memory!EdgeKnown
  <2>2. r[p].en \in {"0", "1"} /\ (r[p].en = "1" => r[p].addr \in Memory!AddressPin)
    BY <2>1, Zenon DEF Memory!ReadPins
  <2> QED BY <1>0, <2>1, <2>2 DEF Memory!AddressPin
<1> QED BY <1>1, <1>2, <1>3, Zenon

-----------------------------------------------------------------------------
(* What a commit makes of the registers.                                   *)

\* A transition without an edge changes nothing but the clock in the kernel.
LEMMA KernelHold ==
  ASSUME MemTyped, NEW k, mem_pending = [Memory!Discarded EXCEPT !.valid = TRUE, !.clock = k], Memory!Xfer
  PROVE  memory' = memory /\ q' = q /\ live' = live /\ idle' = idle /\ clock' = k
<1>1. /\ mem_pending.write = FALSE /\ mem_pending.clock = k /\ mem_pending.idle = idle
      /\ mem_pending.read = [p \in Memory!Ports |-> FALSE] /\ mem_pending.invalidate = [p \in Memory!Ports |-> FALSE]
  BY Zenon DEF Memory!Discarded
<1>2. q = [p \in Memory!Ports |-> q[p]] /\ live = [p \in Memory!Ports |-> live[p]]
  BY Zenon DEF MemTyped
<1>3. \A p \in Memory!Ports : ~mem_pending.read[p] /\ ~mem_pending.invalidate[p]
  BY <1>1, Zenon
<1>4. q' = [p \in Memory!Ports |-> IF mem_pending.read[p] \/ mem_pending.invalidate[p] THEN mem_pending.q[p] ELSE q[p]]
      /\ live' = [p \in Memory!Ports |-> IF mem_pending.read[p] \/ mem_pending.invalidate[p]
                              THEN mem_pending.read[p] ELSE live[p]]
  BY Zenon DEF Memory!Xfer
<1>5. q' = q /\ live' = live
  BY <1>2, <1>3, <1>4, Zenon
<1> QED BY <1>1, <1>5, Zenon DEF Memory!Xfer

\* A commit without a write enables no lane of entry 0.
LEMMA VerilogKeeps ==
  ASSUME MemTyped, SameMemory, v_write = Memory!Verilog!NoWrite, Memory!Verilog!CommitTransition
  PROVE  v_mem' = memory
<1>1. v_write.index = 0 /\ v_write.enable = {}
  BY Zenon DEF Memory!Verilog!NoWrite
<1>2. v_mem' = [v_mem EXCEPT ![v_write.index] =
                  [l \in Memory!Lanes |-> IF l \in v_write.enable THEN v_write.bits[l] ELSE v_mem[v_write.index][l]]]
  BY VerilogNames, Zenon DEF Memory!Verilog!CommitTransition, MemTyped, SameMemory
<1>3. v_mem = memory /\ 0 \in Memory!Addresses /\ memory \in [Memory!Addresses -> Memory!Word]
      /\ memory[0] = [l \in Memory!Lanes |-> memory[0][l]]
  BY MemNumbers, Zenon DEF SameMemory, MemTyped
<1>4. [l \in Memory!Lanes |-> IF l \in {} THEN v_write.bits[l] ELSE memory[0][l]] = memory[0]
  BY <1>3, Zenon
<1>5. v_mem' = [memory EXCEPT ![0] = memory[0]]
  BY <1>1, <1>2, <1>3, <1>4, Zenon
<1> QED BY <1>3, <1>5, Zenon

\* Nor does it in the leaf.
LEMMA VerilogHold ==
  ASSUME MemTyped, SameMemory, v_write = Memory!Verilog!NoWrite,
         v_read = [p \in Memory!Ports |-> Memory!Verilog!current_read(p)], Memory!Verilog!CommitTransition
  PROVE  v_mem' = memory /\ v_rdata' = q /\ v_live' = live /\ v_idle' = idle
         /\ v_clock' = v_clock_pending
<1>4. v_mem' = memory
  BY VerilogKeeps, Zenon
<1>5. \A p \in Memory!Ports : /\ v_read[p].q = q[p] /\ v_read[p].idle = idle[p] /\ v_read[p].live = live[p]
  BY Zenon DEF Memory!Verilog!current_read, SameMemory
<1>6. q = [p \in Memory!Ports |-> q[p]] /\ live = [p \in Memory!Ports |-> live[p]] /\ idle = [p \in Memory!Ports |-> idle[p]]
  BY Zenon DEF MemTyped
<1>7. /\ v_rdata' = [p \in Memory!Ports |-> v_read[p].q] /\ v_idle' = [p \in Memory!Ports |-> v_read[p].idle]
      /\ v_live' = [p \in Memory!Ports |-> v_read[p].live]
  BY VerilogNames, Zenon DEF Memory!Verilog!CommitTransition
<1> QED BY <1>4, <1>5, <1>6, <1>7, Zenon DEF Memory!Verilog!CommitTransition

\* A reset invalidates every answer in the kernel and keeps the words.
LEMMA KernelReset ==
  ASSUME MemTyped, NEW k, mem_pending = Memory!Invalidated(k), Memory!Xfer
  PROVE  /\ memory' = memory /\ clock' = k
         /\ q' = [p \in Memory!Ports |-> Unknown] /\ live' = [p \in Memory!Ports |-> FALSE]
         /\ idle' = [p \in Memory!Ports |-> 0]
<1>1. /\ mem_pending.write = FALSE /\ mem_pending.clock = k /\ mem_pending.idle = [p \in Memory!Ports |-> 0]
      /\ mem_pending.read = [p \in Memory!Ports |-> FALSE] /\ mem_pending.invalidate = [p \in Memory!Ports |-> TRUE]
      /\ mem_pending.q = [p \in Memory!Ports |-> Unknown]
  BY Zenon DEF Memory!Discarded, Memory!Invalidated
<1>3. \A p \in Memory!Ports : mem_pending.read[p] = FALSE /\ mem_pending.invalidate[p] /\ mem_pending.q[p] = Unknown
  BY <1>1, Zenon
<1>4. q' = [p \in Memory!Ports |-> IF mem_pending.read[p] \/ mem_pending.invalidate[p] THEN mem_pending.q[p] ELSE q[p]]
      /\ live' = [p \in Memory!Ports |-> IF mem_pending.read[p] \/ mem_pending.invalidate[p]
                              THEN mem_pending.read[p] ELSE live[p]]
  BY Zenon DEF Memory!Xfer
<1>5. q' = [p \in Memory!Ports |-> Unknown] /\ live' = [p \in Memory!Ports |-> FALSE]
  BY <1>3, <1>4, Zenon
<1> QED BY <1>1, <1>5, Zenon DEF Memory!Xfer

\* So it does in the leaf.
LEMMA VerilogReset ==
  ASSUME MemTyped, SameMemory, v_write = Memory!Verilog!NoWrite, v_read = Memory!Verilog!NoRead,
         Memory!Verilog!CommitTransition
  PROVE  /\ v_mem' = memory /\ v_clock' = v_clock_pending
         /\ v_rdata' = [p \in Memory!Ports |-> Unknown] /\ v_live' = [p \in Memory!Ports |-> FALSE]
         /\ v_idle' = [p \in Memory!Ports |-> 0]
<1>4. v_mem' = memory
  BY VerilogKeeps, Zenon
<1>5. \A p \in Memory!Ports : /\ v_read[p].q = Unknown /\ v_read[p].idle = 0 /\ v_read[p].live = FALSE
  BY VerilogNames, Zenon DEF Memory!Verilog!NoRead
<1>7. /\ v_rdata' = [p \in Memory!Ports |-> v_read[p].q] /\ v_idle' = [p \in Memory!Ports |-> v_read[p].idle]
      /\ v_live' = [p \in Memory!Ports |-> v_read[p].live]
  BY VerilogNames, Zenon DEF Memory!Verilog!CommitTransition
<1> QED BY <1>4, <1>5, <1>7, Zenon DEF Memory!Verilog!CommitTransition

\* What an edge makes of entry a and of the answer at port p.
WrittenEntry(w, a) ==
  IF w.valid = "1" /\ w.addr = a THEN Memory!Masked(memory[a], w.data, w.strb) ELSE memory[a]
\* The answer at port p ends with this edge.
Expires(p) == live[p] /\ idle[p] + 1 >= 2
\* The answer at port p after an edge with the reads r.
NextData(r, p) == IF r[p].en = "1" THEN Memory!Entry(r[p].addr) ELSE IF Expires(p) THEN Unknown ELSE q[p]
\* Whether there is one.
NextLive(r, p) == r[p].en = "1" \/ (live[p] /\ ~Expires(p))
\* For how many edges it has been there.
NextIdle(r, p) == IF r[p].en = "1" THEN 0 ELSE IF live[p] THEN idle[p] + 1 ELSE idle[p]

\* What an edge makes of the kernel's words and answers.
LEMMA KernelEdge ==
  ASSUME MemTyped, NEW w \in Memory!WritePins, NEW r \in [Memory!Ports -> Memory!ReadPins], Memory!EdgeKnown(w, r),
         mem_pending = Memory!Transaction(w, r), Memory!Xfer
  PROVE  /\ clock' = TRUE
         /\ memory' = [a \in Memory!Addresses |-> WrittenEntry(w, a)]
         /\ q' = [p \in Memory!Ports |-> NextData(r, p)] /\ live' = [p \in Memory!Ports |-> NextLive(r, p)]
         /\ idle' = [p \in Memory!Ports |-> NextIdle(r, p)]
<1> DEFINE write == w.valid = "1" /\ w.addr < Memory!Depth
           read == [p \in Memory!Ports |-> r[p].en = "1"]
           wait == [p \in Memory!Ports |-> Memory!Waited(p, read[p])]
           invalidate == [p \in Memory!Ports |-> ~read[p] /\ live[p] /\ wait[p] >= 2]
           data == [p \in Memory!Ports |-> IF read[p] THEN Memory!Entry(r[p].addr) ELSE Unknown]
<1>0. /\ Memory!Depth \in Nat \ {0} /\ memory \in [Memory!Addresses -> Memory!Word] /\ live \in [Memory!Ports -> BOOLEAN]
      /\ idle \in [Memory!Ports -> Nat]
  BY MemNumbers, Zenon DEF MemTyped
<1>1. /\ mem_pending.clock = TRUE /\ mem_pending.write = write
      /\ mem_pending.address = IF write THEN w.addr ELSE 0
      /\ mem_pending.data = IF write THEN Memory!Masked(memory[w.addr], w.data, w.strb) ELSE Memory!ZeroWord
      /\ mem_pending.read = read /\ mem_pending.idle = wait /\ mem_pending.invalidate = invalidate
      /\ mem_pending.q = data
  <2>1. mem_pending = [Memory!Discarded EXCEPT !.valid = TRUE, !.clock = TRUE,
                     !.write = write,
                     !.address = IF write THEN w.addr ELSE 0,
                     !.data = IF write THEN Memory!Masked(memory[w.addr], w.data, w.strb) ELSE Memory!ZeroWord,
                     !.read = read, !.idle = wait, !.invalidate = invalidate, !.q = data]
    BY Zenon DEF Memory!Transaction
  <2> HIDE DEF write, read, wait, invalidate, data
  <2> QED BY <2>1, Zenon DEF Memory!Discarded
<1>2. ASSUME NEW p \in Memory!Ports
      PROVE  /\ read[p] = (r[p].en = "1") /\ wait[p] = NextIdle(r, p)
             /\ invalidate[p] = (r[p].en # "1" /\ Expires(p))
             /\ data[p] = IF r[p].en = "1" THEN Memory!Entry(r[p].addr) ELSE Unknown
  <2>1. read[p] = (r[p].en = "1")
    BY Zenon
  <2>2. wait[p] = NextIdle(r, p)
    BY <2>1, Zenon DEF Memory!Waited, NextIdle
  <2>3. invalidate[p] = (r[p].en # "1" /\ Expires(p))
    <3>1. invalidate[p] = (~read[p] /\ live[p] /\ wait[p] >= 2)
      BY Zenon
    <3>2. CASE r[p].en = "1"
      BY <2>1, <3>1, <3>2, Zenon
    <3>3. CASE r[p].en # "1"
      <4>1. live[p] => wait[p] = idle[p] + 1
        BY <2>2, <3>3, Zenon DEF NextIdle
      <4>2. live[p] \in BOOLEAN
        BY <1>0, Zenon
      <4>3. (~read[p] /\ live[p] /\ wait[p] >= 2) <=> Expires(p)
        <5> HIDE DEF read, wait, invalidate
        <5> QED BY <2>1, <3>3, <4>1, Zenon DEF Expires
      <4> HIDE DEF read, wait, invalidate
      <4> QED BY <3>1, <3>3, <4>3, Zenon DEF Expires
    <3> QED BY <3>2, <3>3, Zenon
  <2>4. data[p] = IF r[p].en = "1" THEN Memory!Entry(r[p].addr) ELSE Unknown
    BY <2>1, Zenon
  <2> QED BY <2>1, <2>2, <2>3, <2>4, Zenon
<1>3. /\ q' = [p \in Memory!Ports |-> IF mem_pending.read[p] \/ mem_pending.invalidate[p] THEN mem_pending.q[p] ELSE q[p]]
      /\ live' = [p \in Memory!Ports |-> IF mem_pending.read[p] \/ mem_pending.invalidate[p]
                              THEN mem_pending.read[p] ELSE live[p]]
      /\ idle' = mem_pending.idle /\ clock' = mem_pending.clock
      /\ memory' = IF mem_pending.write THEN [memory EXCEPT ![mem_pending.address] = mem_pending.data] ELSE memory
  BY Zenon DEF Memory!Xfer
<1>4. memory' = [a \in Memory!Addresses |-> WrittenEntry(w, a)]
  <2>1. CASE write
    <3>1. w.valid = "1" /\ w.addr \in Memory!Addresses
      BY <1>0, <2>1, EdgeOperands DEF Memory!Addresses
    <3>2. memory' = [memory EXCEPT ![w.addr] = Memory!Masked(memory[w.addr], w.data, w.strb)]
      BY <1>1, <1>3, <2>1, Zenon
    <3> QED BY <1>0, <3>1, <3>2, Zenon DEF WrittenEntry
  <2>2. CASE ~write
    <3>1. memory' = memory
      BY <1>1, <1>3, <2>2, Zenon
    <3>2. \A a \in Memory!Addresses : ~(w.valid = "1" /\ w.addr = a)
      BY <1>0, <2>2, EdgeOperands DEF Memory!Addresses
    <3> QED BY <1>0, <3>1, <3>2, Zenon DEF WrittenEntry
  <2> QED BY <2>1, <2>2, Zenon
<1> HIDE DEF read, wait, invalidate, data
<1>5. idle' = [p \in Memory!Ports |-> NextIdle(r, p)]
  <2>1. wait = [p \in Memory!Ports |-> wait[p]]
    BY Zenon DEF wait
  <2> QED BY <1>1, <1>2, <1>3, <2>1, Zenon
<1>6. ASSUME NEW p \in Memory!Ports
      PROVE  /\ (IF mem_pending.read[p] \/ mem_pending.invalidate[p] THEN mem_pending.q[p] ELSE q[p]) = NextData(r, p)
             /\ (IF mem_pending.read[p] \/ mem_pending.invalidate[p] THEN mem_pending.read[p] ELSE live[p]) = NextLive(r, p)
  <2>0. live[p] \in BOOLEAN
    BY <1>0, Zenon
  <2>1. CASE r[p].en = "1"
    <3>1. mem_pending.read[p] = TRUE /\ mem_pending.q[p] = Memory!Entry(r[p].addr)
      BY <1>1, <1>2, <2>1, Zenon
    <3> QED BY <2>1, <3>1, Zenon DEF NextData, NextLive
  <2>2. CASE r[p].en # "1" /\ Expires(p)
    <3>1. mem_pending.read[p] = FALSE /\ mem_pending.invalidate[p] = TRUE /\ mem_pending.q[p] = Unknown
      BY <1>1, <1>2, <2>2, Zenon
    <3> QED BY <2>2, <3>1, Zenon DEF NextData, NextLive
  <2>3. CASE r[p].en # "1" /\ ~Expires(p)
    <3>1. mem_pending.read[p] = FALSE /\ mem_pending.invalidate[p] = FALSE
      BY <1>1, <1>2, <2>3, Zenon
    <3> QED BY <2>0, <2>3, <3>1, Zenon DEF NextData, NextLive
  <2> QED BY <2>1, <2>2, <2>3, Zenon
<1>7. q' = [p \in Memory!Ports |-> NextData(r, p)] /\ live' = [p \in Memory!Ports |-> NextLive(r, p)]
  BY <1>3, <1>6, Zenon
<1> QED BY <1>1, <1>3, <1>4, <1>5, <1>7, Zenon

\* It makes the same of the leaf's.
LEMMA VerilogEdge ==
  ASSUME MemTyped, SameMemory, NEW w \in Memory!WritePins, NEW r \in [Memory!Ports -> Memory!ReadPins], Memory!EdgeKnown(w, r),
         v_write = IF w.valid = "1" /\ w.addr < Memory!Depth
                   THEN [index |-> w.addr, bits |-> w.data, enable |-> w.strb]
                   ELSE Memory!Verilog!NoWrite,
         v_read = [p \in Memory!Ports |-> Memory!Verilog!next_read(p, r[p].en, r[p].addr)],
         Memory!Verilog!CommitTransition
  PROVE  /\ v_clock' = v_clock_pending
         /\ v_mem' = [a \in Memory!Addresses |-> WrittenEntry(w, a)]
         /\ v_rdata' = [p \in Memory!Ports |-> NextData(r, p)] /\ v_live' = [p \in Memory!Ports |-> NextLive(r, p)]
         /\ v_idle' = [p \in Memory!Ports |-> NextIdle(r, p)]
<1>0. /\ Memory!Depth \in Nat \ {0} /\ memory \in [Memory!Addresses -> Memory!Word] /\ live \in [Memory!Ports -> BOOLEAN]
      /\ idle \in [Memory!Ports -> Nat]
      /\ v_mem = memory /\ v_rdata = q /\ v_idle = idle /\ v_live = live
  BY MemNumbers, Zenon DEF MemTyped, SameMemory
<1>1. v_mem' = [a \in Memory!Addresses |-> WrittenEntry(w, a)]
  <2>1. CASE w.valid = "1" /\ w.addr < Memory!Depth
    <3>1. w.addr \in Memory!Addresses
      BY <1>0, <2>1, EdgeOperands DEF Memory!Addresses
    <3>2. v_write.index = w.addr /\ v_write.bits = w.data /\ v_write.enable = w.strb
      BY <2>1, Zenon
    <3>3. v_mem' = [v_mem EXCEPT ![v_write.index] =
                      [l \in Memory!Lanes |-> IF l \in v_write.enable THEN v_write.bits[l] ELSE v_mem[v_write.index][l]]]
      BY VerilogNames, Zenon DEF Memory!Verilog!CommitTransition, MemTyped, SameMemory
    <3>4. v_mem' = [memory EXCEPT ![w.addr] = Memory!Masked(memory[w.addr], w.data, w.strb)]
      BY <1>0, <3>2, <3>3, Zenon DEF Memory!Masked
    <3> QED BY <1>0, <2>1, <3>1, <3>4, Zenon DEF WrittenEntry
  <2>2. CASE ~(w.valid = "1" /\ w.addr < Memory!Depth)
    <3>1. v_mem' = memory
      BY <2>2, VerilogKeeps, Zenon
    <3>2. \A a \in Memory!Addresses : ~(w.valid = "1" /\ w.addr = a)
      BY <1>0, <2>2, EdgeOperands DEF Memory!Addresses
    <3> QED BY <1>0, <3>1, <3>2, Zenon DEF WrittenEntry
  <2> QED BY <2>1, <2>2, Zenon
<1>2. ASSUME NEW p \in Memory!Ports
      PROVE  /\ v_read[p].q = NextData(r, p) /\ v_read[p].live = NextLive(r, p)
             /\ v_read[p].idle = NextIdle(r, p)
  <2>0. live[p] \in BOOLEAN /\ idle[p] \in Nat /\ v_read[p] = Memory!Verilog!next_read(p, r[p].en, r[p].addr)
    BY <1>0, Zenon
  <2>1. CASE r[p].en = "1"
    <3>1. v_read[p] = [q |-> Memory!Entry(r[p].addr), idle |-> 0, live |-> TRUE]
      BY <1>0, <2>0, <2>1, VerilogNames, Zenon DEF Memory!Verilog!next_read, Memory!Verilog!read_entry, Memory!Entry
    <3>2. v_read[p].q = Memory!Entry(r[p].addr) /\ v_read[p].idle = 0 /\ v_read[p].live = TRUE
      BY <3>1
    <3>3. NextData(r, p) = Memory!Entry(r[p].addr) /\ NextIdle(r, p) = 0
      BY <2>1, Zenon DEF NextData, NextIdle
    <3>4. NextLive(r, p) = TRUE
      BY <2>1, Zenon DEF NextLive
    <3> QED BY <3>2, <3>3, <3>4, Zenon
  <2>2. CASE r[p].en # "1" /\ ~live[p]
    <3>1. v_read[p] = [q |-> q[p], idle |-> idle[p], live |-> live[p]]
      BY <1>0, <2>0, <2>2, Zenon DEF Memory!Verilog!next_read, Memory!Verilog!current_read
    <3> QED BY <2>0, <2>2, <3>1 DEF NextData, NextLive, NextIdle, Expires
  <2>3. CASE r[p].en # "1" /\ live[p] /\ idle[p] + 1 >= 2
    <3>1. v_read[p] = [q |-> Unknown, idle |-> idle[p] + 1, live |-> FALSE]
      BY <1>0, <2>0, <2>3, Zenon DEF Memory!Verilog!next_read, Memory!Verilog!LIVE_WINDOW
    <3>2. v_read[p].q = Unknown /\ v_read[p].idle = idle[p] + 1 /\ v_read[p].live = FALSE
      BY <3>1
    <3>3. NextData(r, p) = Unknown /\ NextIdle(r, p) = idle[p] + 1
      BY <2>3, Zenon DEF NextData, NextIdle, Expires
    <3>4. NextLive(r, p) = FALSE
      BY <2>3, Zenon DEF NextLive, Expires
    <3> QED BY <3>2, <3>3, <3>4, Zenon
  <2>4. CASE r[p].en # "1" /\ live[p] /\ ~(idle[p] + 1 >= 2)
    <3>1. v_read[p] = [Memory!Verilog!current_read(p) EXCEPT !.idle = idle[p] + 1]
      BY <1>0, <2>0, <2>4, Zenon DEF Memory!Verilog!next_read, Memory!Verilog!LIVE_WINDOW
    <3>2. v_read[p] = [q |-> q[p], idle |-> idle[p] + 1, live |-> live[p]]
      BY <1>0, <3>1, Zenon DEF Memory!Verilog!current_read
    <3>3. v_read[p].q = q[p] /\ v_read[p].idle = idle[p] + 1 /\ v_read[p].live = live[p]
      BY <3>2
    <3>4. NextData(r, p) = q[p] /\ NextIdle(r, p) = idle[p] + 1
      BY <2>4, Zenon DEF NextData, NextIdle, Expires
    <3>5. NextLive(r, p) = live[p]
      BY <2>0, <2>4, Zenon DEF NextLive, Expires
    <3> QED BY <3>3, <3>4, <3>5, Zenon
  <2> QED BY <2>1, <2>2, <2>3, <2>4, Zenon
<1>3. /\ v_rdata' = [p \in Memory!Ports |-> v_read[p].q] /\ v_idle' = [p \in Memory!Ports |-> v_read[p].idle]
      /\ v_live' = [p \in Memory!Ports |-> v_read[p].live] /\ v_clock' = v_clock_pending
  BY VerilogNames, Zenon DEF Memory!Verilog!CommitTransition
<1> QED BY <1>1, <1>2, <1>3, Zenon

\* What depends on the instance only.
LEMMA SameShape ==
  ASSUME UNCHANGED shape
  PROVE  /\ Memory!Depth' = Memory!Depth /\ Memory!Lanes' = Memory!Lanes /\ Memory!Ports' = Memory!Ports /\ Memory!Addresses' = Memory!Addresses
         /\ Memory!Word' = Memory!Word /\ Memory!ZeroWord' = Memory!ZeroWord
         /\ Memory!WritePins' = Memory!WritePins /\ Memory!ReadPins' = Memory!ReadPins
         /\ Memory!Verilog!NoWrite' = Memory!Verilog!NoWrite /\ Memory!Verilog!NoRead' = Memory!Verilog!NoRead
<1>1. /\ Memory!Depth' = Memory!Depth /\ Memory!Lanes' = Memory!Lanes /\ Memory!Ports' = Memory!Ports
  BY Zenon DEF Memory!Depth, Memory!Lanes, Memory!Ports
<1>2. /\ Memory!Addresses' = Memory!Addresses /\ Memory!Word' = Memory!Word /\ Memory!ZeroWord' = Memory!ZeroWord
  BY <1>1, Zenon DEF Memory!Addresses, Memory!Word, Memory!ZeroWord
<1>3. Memory!AddressPin' = Memory!AddressPin /\ Memory!WordPin' = Memory!WordPin /\ Memory!StrobePin' = Memory!StrobePin
  BY <1>1, <1>2, Zenon DEF Memory!AddressPin, Memory!WordPin, Memory!StrobePin
<1>4. Memory!WritePins' = Memory!WritePins /\ Memory!ReadPins' = Memory!ReadPins
  BY <1>3, Zenon DEF Memory!WritePins, Memory!ReadPins
<1>5. Memory!Verilog!NoWrite' = Memory!Verilog!NoWrite
  BY Zenon DEF Memory!Verilog!NoWrite, Memory!Verilog!ZeroWord, Memory!Verilog!Lanes
<1>6. Memory!Verilog!NoRead' = Memory!Verilog!NoRead
  BY Zenon DEF Memory!Verilog!NoRead, Memory!Verilog!Ports
<1> QED BY <1>1, <1>2, <1>4, <1>5, <1>6, Zenon

\* A step that changes no register keeps what is computed from the registers.
LEMMA RegistersKept ==
  ASSUME UNCHANGED shape, UNCHANGED Memory!contents, UNCHANGED Memory!Verilog!registers
  PROVE  /\ Memory!Discarded' = Memory!Discarded /\ Memory!Response' = Memory!Response
         /\ \A k : Memory!Invalidated(k)' = Memory!Invalidated(k)
         /\ \A w, r : Memory!Transaction(w, r)' = Memory!Transaction(w, r) /\ Memory!EdgeKnown(w, r)' = Memory!EdgeKnown(w, r)
         /\ \A p : Memory!Verilog!current_read(p)' = Memory!Verilog!current_read(p)
         /\ \A p, e, a : Memory!Verilog!next_read(p, e, a)' = Memory!Verilog!next_read(p, e, a)
         /\ MemTyped => MemTyped'
         /\ SameMemory => SameMemory'
<1>1. /\ memory' = memory /\ q' = q /\ live' = live /\ idle' = idle /\ clock' = clock
      /\ shape' = shape
  BY Zenon DEF Memory!contents
<1>2. /\ v_mem' = v_mem /\ v_rdata' = v_rdata /\ v_idle' = v_idle /\ v_live' = v_live
      /\ v_clock' = v_clock
  BY Zenon DEF Memory!Verilog!registers
<1>3. /\ Memory!Depth' = Memory!Depth /\ Memory!Lanes' = Memory!Lanes /\ Memory!Ports' = Memory!Ports /\ Memory!Addresses' = Memory!Addresses
      /\ Memory!Word' = Memory!Word /\ Memory!ZeroWord' = Memory!ZeroWord
  BY SameShape, Zenon
<1>4. Memory!Discarded' = Memory!Discarded
  BY <1>1, <1>3, Zenon DEF Memory!Discarded
<1>5. Memory!Response' = Memory!Response
  BY <1>1, <1>3, Zenon DEF Memory!Response
<1>6. ASSUME NEW k PROVE Memory!Invalidated(k)' = Memory!Invalidated(k)
  BY <1>3, <1>4, Zenon DEF Memory!Invalidated
<1>7. ASSUME NEW w, NEW r PROVE Memory!Transaction(w, r)' = Memory!Transaction(w, r)
  BY <1>1, <1>3, <1>4, Zenon DEF Memory!Transaction, Memory!Waited, Memory!Masked, Memory!Entry
<1>8. ASSUME NEW w, NEW r PROVE Memory!EdgeKnown(w, r)' = Memory!EdgeKnown(w, r)
  BY <1>3, Zenon DEF Memory!EdgeKnown
<1>9. ASSUME NEW p PROVE Memory!Verilog!current_read(p)' = Memory!Verilog!current_read(p)
  BY <1>2, Zenon DEF Memory!Verilog!current_read
<1>10. ASSUME NEW p, NEW e, NEW a PROVE Memory!Verilog!next_read(p, e, a)' = Memory!Verilog!next_read(p, e, a)
  <2>1. Memory!Verilog!read_entry(a)' = Memory!Verilog!read_entry(a)
    BY <1>1, <1>2, Zenon DEF Memory!Verilog!read_entry, Memory!Verilog!Depth, Memory!Verilog!ZeroWord, Memory!Verilog!Lanes
  <2> QED BY <1>2, <1>9, <2>1, Zenon DEF Memory!Verilog!next_read, Memory!Verilog!LIVE_WINDOW
<1>11. MemTyped => MemTyped'
  BY <1>1, <1>3, Zenon DEF MemTyped
<1>12. SameMemory => SameMemory'
  BY <1>1, <1>2, Zenon DEF SameMemory
<1> QED BY <1>4, <1>5, <1>6, <1>7, <1>8, <1>9, <1>10, <1>11, <1>12, Zenon

\* Preparation leaves the registers alone, so what it prepares fits the new state.
LEMMA HoldKept ==
  ASSUME UNCHANGED shape, UNCHANGED Memory!contents, UNCHANGED Memory!Verilog!registers,
         NEW k, mem_pending' = [Memory!Discarded EXCEPT !.valid = TRUE, !.clock = k],
         v_write' = Memory!Verilog!NoWrite, v_read' = [p \in Memory!Ports |-> Memory!Verilog!current_read(p)],
         v_clock_pending' = k, request' = {}
  PROVE  HoldPrepared(k)'
BY SameShape, RegistersKept, Zenon DEF HoldPrepared

\* A prepared reset, after the step that prepares it.
LEMMA ResetKept ==
  ASSUME UNCHANGED shape, UNCHANGED Memory!contents, UNCHANGED Memory!Verilog!registers,
         NEW k, mem_pending' = Memory!Invalidated(k), v_write' = Memory!Verilog!NoWrite,
         v_read' = Memory!Verilog!NoRead, v_clock_pending' = k, request' = {}
  PROVE  ResetPrepared(k)'
BY SameShape, RegistersKept, Zenon DEF ResetPrepared

\* A prepared edge, after the step that prepares it.
LEMMA EdgeKept ==
  ASSUME UNCHANGED shape, UNCHANGED Memory!contents, UNCHANGED Memory!Verilog!registers,
         NEW w, NEW r, Memory!EdgeKnown(w, r), mem_pending' = Memory!Transaction(w, r),
         v_write' = IF w.valid = "1" /\ w.addr < Memory!Depth
                    THEN [index |-> w.addr, bits |-> w.data, enable |-> w.strb]
                    ELSE Memory!Verilog!NoWrite,
         v_read' = [p \in Memory!Ports |-> Memory!Verilog!next_read(p, r[p].en, r[p].addr)],
         v_clock_pending' = TRUE, request' = {[w |-> w, r |-> r]}
  PROVE  EdgePrepared(w, r)'
<1>1. Memory!EdgeKnown(w, r)'
  BY SameShape, Zenon DEF Memory!EdgeKnown
<1> QED BY <1>1, SameShape, RegistersKept, Zenon DEF EdgePrepared

\* The parts of an input of the memory.
LEMMA MemPinsTyped ==
  ASSUME NEW i \in Memory!Pins
  PROVE  i.clk \in Memory!Pin /\ i.rst \in Memory!Pin /\ i.w \in Memory!WritePins /\ i.r \in [Memory!Ports -> Memory!ReadPins]
<1>1. CASE i \in [clk : {"1"}, rst : {"0"}, w : Memory!WritePins, r : [Memory!Ports -> Memory!ReadPins]]
  BY <1>1, Zenon DEF Memory!Pin
<1>2. CASE i \in [clk : Memory!Pin, rst : Memory!Pin,
                  w : {[valid |-> "x", addr |-> Unknown, data |-> Unknown, strb |-> Unknown]},
                  r : {[p \in Memory!Ports |-> [en |-> "x", addr |-> Unknown]]}]
  <2>1. [valid |-> "x", addr |-> Unknown, data |-> Unknown, strb |-> Unknown] \in Memory!WritePins
    BY Zenon DEF Memory!WritePins
  <2>2. [p \in Memory!Ports |-> [en |-> "x", addr |-> Unknown]] \in [Memory!Ports -> Memory!ReadPins]
    BY Zenon DEF Memory!ReadPins
  <2> QED BY <1>2, <2>1, <2>2, Zenon
<1> QED BY <1>1, <1>2, Zenon DEF Memory!Pins

\* An evaluation prepares the same in both, or makes both fail.
LEMMA EvaluateAlike ==
  ASSUME LockstepInv, NEW clk \in Memory!Pin, NEW rst \in Memory!Pin, NEW w \in Memory!WritePins,
         NEW r \in [Memory!Ports -> Memory!ReadPins], Memory!BothEvaluate(clk, rst, w, r), UNCHANGED shape
  PROVE  /\ PreparedAlike' /\ UNCHANGED Memory!contents /\ UNCHANGED Memory!Verilog!registers
<1> DEFINE error == clk = "x" \/ (Memory!Verilog!Rising(clk) /\ Memory!Verilog!ControlError(rst, w, r))
<1>0. /\ clock \in BOOLEAN /\ v_clock = clock
  BY Zenon DEF LockstepInv, MemTyped, SameMemory
<1>1. UNCHANGED Memory!contents /\ UNCHANGED Memory!Verilog!registers
  BY Zenon DEF Memory!BothEvaluate, Memory!Work, Memory!Verilog!Prepare
<1>2. /\ mem_pending' = IF clk = "x" THEN Memory!Discarded
                    ELSE IF clock \/ clk = "0" THEN [Memory!Discarded EXCEPT !.valid = TRUE, !.clock = clk = "1"]
                    ELSE IF rst = "x" THEN Memory!Discarded
                    ELSE IF rst = "1" THEN Memory!Invalidated(TRUE)
                    ELSE IF Memory!EdgeKnown(w, r) THEN Memory!Transaction(w, r)
                    ELSE Memory!Discarded
      /\ request' = IF Memory!Accesses(clk, rst, w, r) THEN {[w |-> w, r |-> r]} ELSE {}
  BY Zenon DEF Memory!BothEvaluate, Memory!Work
<1>3. /\ v_error' = error /\ v_pending_valid' = ~error
      /\ v_clock_pending' = IF error THEN v_clock ELSE clk = "1"
      /\ IF error \/ ~Memory!Verilog!Rising(clk) THEN Memory!Verilog!Hold
         ELSE IF rst = "1" THEN Memory!Verilog!Invalidate
         ELSE Memory!Verilog!Transition(w, r)
  BY Zenon DEF Memory!BothEvaluate, Memory!Verilog!Prepare
<1>4. Memory!Verilog!Rising(clk) <=> ~clock /\ clk = "1"
  BY <1>0, Zenon DEF Memory!Verilog!Rising
<1>5. Memory!Verilog!ControlError(rst, w, r) <=> rst = "x" \/ (rst = "0" /\ ~Memory!EdgeKnown(w, r))
  BY VerilogNames, Zenon DEF Memory!Verilog!ControlError, Memory!EdgeKnown
<1>6. error \in BOOLEAN
  BY Zenon
<1>7. error <=> clk = "x" \/ (~clock /\ clk = "1" /\ (rst = "x" \/ (rst = "0" /\ ~Memory!EdgeKnown(w, r))))
  BY <1>4, <1>5, Zenon
<1>8. Memory!Accesses(clk, rst, w, r) <=> ~clock /\ clk = "1" /\ rst = "0" /\ Memory!EdgeKnown(w, r)
  BY Zenon DEF Memory!Accesses
<1>9. (clk = "0" \/ clk = "1" \/ clk = "x") /\ (rst = "0" \/ rst = "1" \/ rst = "x")
  BY Zenon DEF Memory!Pin
<1> HIDE DEF error
<1>10. CASE error
  <2>1. mem_pending' = Memory!Discarded /\ request' = {}
    BY <1>0, <1>2, <1>7, <1>8, <1>9, <1>10, Zenon
  <2>2. v_error' = TRUE /\ v_pending_valid' = FALSE
    BY <1>3, <1>6, <1>10, Zenon
  <2>3. mem_pending'.valid = FALSE
    BY <2>1, Zenon DEF Memory!Discarded
  <2> QED BY <1>1, <2>1, <2>2, <2>3, Zenon DEF PreparedAlike, PreparedNothing
<1>11. ASSUME ~error,
              \/ \E k \in BOOLEAN : HoldPrepared(k)' \/ ResetPrepared(k)'
              \/ \E a \in Memory!WritePins, b \in [Memory!Ports -> Memory!ReadPins] : EdgePrepared(a, b)'
       PROVE  PreparedAlike'
  <2>1. v_error' = FALSE /\ v_pending_valid' = TRUE
    BY <1>3, <1>6, <1>11, Zenon
  <2>2. Memory!Ports' = Memory!Ports /\ Memory!WritePins' = Memory!WritePins /\ Memory!ReadPins' = Memory!ReadPins
    BY SameShape, Zenon
  <2> QED BY <1>11, <2>1, <2>2, Zenon DEF PreparedAlike
<1>12. CASE ~error /\ ~(~clock /\ clk = "1")
  <2>1. PICK k \in BOOLEAN : k = (clk = "1")
    BY Zenon
  <2>2. clk # "x" /\ (clock \/ clk = "0")
    BY <1>7, <1>9, <1>12, Zenon
  <2>3. mem_pending' = [Memory!Discarded EXCEPT !.valid = TRUE, !.clock = k] /\ request' = {}
    BY <1>2, <1>8, <1>12, <2>1, <2>2, Zenon
  <2>4. /\ v_write' = Memory!Verilog!NoWrite /\ v_read' = [p \in Memory!Ports |-> Memory!Verilog!current_read(p)]
        /\ v_clock_pending' = k
    BY <1>3, <1>4, <1>12, <2>1, VerilogNames, Zenon DEF Memory!Verilog!Hold
  <2>5. HoldPrepared(k)'
    BY <1>1, <2>3, <2>4, HoldKept, Zenon
  <2> QED BY <1>1, <1>11, <1>12, <2>5, Zenon
<1>13. CASE ~error /\ ~clock /\ clk = "1" /\ rst = "1"
  <2>1. mem_pending' = Memory!Invalidated(TRUE) /\ request' = {}
    BY <1>2, <1>8, <1>13, Zenon
  <2>2. /\ v_write' = Memory!Verilog!NoWrite /\ v_read' = Memory!Verilog!NoRead
    BY <1>3, <1>4, <1>13, Zenon DEF Memory!Verilog!Invalidate
  <2>3. v_clock_pending' = TRUE
    BY <1>3, <1>13, Zenon
  <2>4. ResetPrepared(TRUE)'
    BY <1>1, <2>1, <2>2, <2>3, ResetKept, Zenon
  <2> QED BY <1>1, <1>11, <1>13, <2>4, Zenon
<1>14. CASE ~error /\ ~clock /\ clk = "1" /\ rst # "1"
  <2>0. rst = "0" /\ Memory!EdgeKnown(w, r)
    BY <1>7, <1>9, <1>14, Zenon
  <2>1. mem_pending' = Memory!Transaction(w, r) /\ request' = {[w |-> w, r |-> r]}
    BY <1>2, <1>8, <1>14, <2>0, Zenon
  <2>2. /\ v_write' = IF w.valid = "1" /\ w.addr < Memory!Depth
                       THEN [index |-> w.addr, bits |-> w.data, enable |-> w.strb]
                       ELSE Memory!Verilog!NoWrite
        /\ v_read' = [p \in Memory!Ports |-> Memory!Verilog!next_read(p, r[p].en, r[p].addr)]
    BY <1>3, <1>4, <1>14, VerilogNames, Zenon DEF Memory!Verilog!Transition
  <2>3. v_clock_pending' = TRUE
    BY <1>3, <1>14, Zenon
  <2>4. EdgePrepared(w, r)'
    BY <1>1, <2>0, <2>1, <2>2, <2>3, EdgeKept, Zenon
  <2> QED BY <1>1, <1>11, <1>14, <2>4, Zenon
<1> QED BY <1>10, <1>12, <1>13, <1>14, Zenon

-----------------------------------------------------------------------------
(* The abstract memory.                                                    *)

\* The abstract memory has the sizes and the words of the kernel.
LEMMA AbstractNames ==
  /\ Memory!Abstract!Lanes = Memory!Lanes /\ Memory!Abstract!Ports = Memory!Ports
  /\ \A a : Memory!Abstract!Entry(a) = Memory!Entry(a)
BY Zenon DEF Memory!Abstract!Lanes, Memory!Abstract!Ports, Memory!Abstract!Entry, Memory!Abstract!ZeroWord, Memory!Abstract!Lanes,
             Memory!Lanes, Memory!Ports, Memory!Entry, Memory!ZeroWord, Memory!Depth

\* An edge of the kernel is an edge of the abstract memory and keeps the registers typed.
LEMMA EdgeStep ==
  ASSUME MemTyped, NEW w \in Memory!WritePins, NEW r \in [Memory!Ports -> Memory!ReadPins], Memory!EdgeKnown(w, r),
         request = {[w |-> w, r |-> r]}, request' = {}, UNCHANGED shape,
         clock' = TRUE,
         memory' = [a \in Memory!Addresses |-> WrittenEntry(w, a)],
         q' = [p \in Memory!Ports |-> NextData(r, p)], live' = [p \in Memory!Ports |-> NextLive(r, p)],
         idle' = [p \in Memory!Ports |-> NextIdle(r, p)]
  PROVE  MemTyped' /\ Memory!Abstract!Edge
<1>0. /\ Memory!Depth \in Nat \ {0} /\ memory \in [Memory!Addresses -> Memory!Word] /\ live \in [Memory!Ports -> BOOLEAN]
      /\ idle \in [Memory!Ports -> Nat] /\ Memory!ZeroWord \in Memory!Word /\ q \in [Memory!Ports -> Memory!Word \cup {Unknown}]
      /\ Unknown \notin Memory!Word
      /\ \A p \in Memory!Ports : live[p] => idle[p] < 2
      /\ \A p \in Memory!Ports : live[p] <=> q[p] # Unknown
  BY MemNumbers, Zenon DEF MemTyped
<1>1. /\ Memory!Depth' = Memory!Depth /\ Memory!Ports' = Memory!Ports /\ Memory!Addresses' = Memory!Addresses /\ Memory!Word' = Memory!Word
  BY SameShape, Zenon
<1>2. \A a \in Memory!Addresses : WrittenEntry(w, a) \in Memory!Word
  <2> SUFFICES ASSUME NEW a \in Memory!Addresses PROVE WrittenEntry(w, a) \in Memory!Word
    BY Zenon
  <2>1. memory[a] \in Memory!Word
    BY <1>0, Zenon
  <2>2. CASE w.valid = "1"
    <3>1. w.data \in Memory!Word
      BY <2>2, EdgeOperands, Zenon
    <3>2. Memory!Masked(memory[a], w.data, w.strb) \in Memory!Word
      BY <2>1, <3>1, Zenon DEF Memory!Masked, Memory!Word
    <3> QED BY <2>1, <3>2, Zenon DEF WrittenEntry
  <2>3. CASE w.valid # "1"
    BY <2>1, <2>3, Zenon DEF WrittenEntry
  <2> QED BY <2>2, <2>3, Zenon
<1>3. ASSUME NEW p \in Memory!Ports, r[p].en = "1" PROVE Memory!Entry(r[p].addr) \in Memory!Word
  <2>1. r[p].addr \in Nat
    BY <1>3, EdgeOperands, Zenon
  <2> QED BY <1>0, <2>1 DEF Memory!Entry, Memory!Addresses
<1>4. ASSUME NEW p \in Memory!Ports
      PROVE  /\ NextData(r, p) \in Memory!Word \cup {Unknown} /\ NextLive(r, p) \in BOOLEAN
             /\ NextIdle(r, p) \in Nat
             /\ NextLive(r, p) => NextIdle(r, p) < 2
             /\ NextLive(r, p) <=> NextData(r, p) # Unknown
  <2>0. /\ live[p] \in BOOLEAN /\ idle[p] \in Nat /\ q[p] \in Memory!Word \cup {Unknown}
        /\ (live[p] => idle[p] < 2) /\ (live[p] <=> q[p] # Unknown)
    BY <1>0, Zenon
  <2>1. CASE r[p].en = "1"
    BY <1>0, <1>3, <2>1 DEF NextData, NextLive, NextIdle
  <2>2. CASE r[p].en # "1"
    BY <2>0, <2>2 DEF NextData, NextLive, NextIdle, Expires
  <2> QED BY <2>1, <2>2, Zenon
<1>5. MemTyped'
  <2>1. memory' \in [Memory!Addresses -> Memory!Word] /\ q' \in [Memory!Ports -> Memory!Word \cup {Unknown}]
        /\ live' \in [Memory!Ports -> BOOLEAN] /\ idle' \in [Memory!Ports -> Nat]
    BY <1>2, <1>4, Zenon
  <2>2. /\ shape' = shape /\ clock' \in BOOLEAN
        /\ shape \in [depth : Nat \ {0}, lanes : Nat \ {0}, ports : {1, 2}]
        /\ Zero \in Values
    BY Zenon DEF MemTyped
  <2>3. memory' \in [Memory!Addresses' -> Memory!Word']
    BY <1>1, <2>1, Zenon
  <2>4. q' \in [Memory!Ports' -> Memory!Word' \cup {Unknown}]
    BY <1>1, <2>1, Zenon
  <2>5. live' \in [Memory!Ports' -> BOOLEAN] /\ idle' \in [Memory!Ports' -> Nat]
    BY <1>1, <2>1, Zenon
  <2>6. Unknown \notin Memory!Word'
    BY <1>0, <1>1, Zenon
  <2>7. ASSUME NEW p \in Memory!Ports'
        PROVE  /\ live'[p] => idle'[p] < 2
               /\ live'[p] <=> q'[p] # Unknown
    <3>1. p \in Memory!Ports
      BY <1>1, Zenon
    <3> QED BY <1>4, <3>1, Zenon
  <2> QED BY <2>2, <2>3, <2>4, <2>5, <2>6, <2>7, Zenon DEF MemTyped
<1>6. PICK e : e = [w |-> w, r |-> r]
  BY Zenon
<1>7. e \in request /\ e.w = w /\ e.r = r
  BY <1>6, Zenon
<1>8. memory' = [a \in DOMAIN memory |->
                 [l \in Memory!Abstract!Lanes |->
                    IF e.w.valid = "1" /\ e.w.addr = a /\ l \in e.w.strb
                    THEN e.w.data[l] ELSE memory[a][l]]]
  <2>1. ASSUME NEW a \in Memory!Addresses
        PROVE  WrittenEntry(w, a) = [l \in Memory!Lanes |-> IF w.valid = "1" /\ w.addr = a /\ l \in w.strb
                                                    THEN w.data[l] ELSE memory[a][l]]
    <3>1. memory[a] = [l \in Memory!Lanes |-> memory[a][l]]
      BY MemNumbers, Zenon
    <3>2. CASE w.valid = "1" /\ w.addr = a
      BY <3>2, Zenon DEF WrittenEntry, Memory!Masked
    <3>3. CASE ~(w.valid = "1" /\ w.addr = a)
      BY <3>1, <3>3, Zenon DEF WrittenEntry
    <3> QED BY <3>2, <3>3, Zenon
  <2>2. DOMAIN memory = Memory!Addresses
    BY <1>0, Zenon
  <2>3. memory' = [a \in Memory!Addresses |->
                     [l \in Memory!Lanes |-> IF w.valid = "1" /\ w.addr = a /\ l \in w.strb
                                      THEN w.data[l] ELSE memory[a][l]]]
    BY <2>1, Zenon
  <2> QED BY <1>7, <2>2, <2>3, AbstractNames, Zenon
<1>9. Memory!Response' = [p \in Memory!Abstract!Ports |->
                    IF e.r[p].en = "1"
                    THEN {[data |-> Memory!Abstract!Entry(e.r[p].addr), age |-> 0]}
                    ELSE Memory!Abstract!Older(Memory!Response[p])]
  <2>1. ASSUME NEW p \in Memory!Ports
        PROVE  (IF NextLive(r, p) THEN {[data |-> NextData(r, p), age |-> NextIdle(r, p)]} ELSE {})
                 = IF r[p].en = "1" THEN {[data |-> Memory!Entry(r[p].addr), age |-> 0]}
                   ELSE Memory!Abstract!Older(Memory!Response[p])
    <3>0. /\ live[p] \in BOOLEAN /\ idle[p] \in Nat /\ (live[p] => idle[p] < 2)
      BY <1>0, Zenon
    <3>1. CASE r[p].en = "1"
      BY <3>1, Zenon DEF NextLive, NextData, NextIdle
    <3>2. CASE r[p].en # "1" /\ ~live[p]
      <4>1. Memory!Response[p] = {}
        BY <3>2, Zenon DEF Memory!Response
      <4>2. Memory!Abstract!Older(Memory!Response[p]) = {}
        BY <4>1, Zenon DEF Memory!Abstract!Older
      <4>3. ~NextLive(r, p)
        BY <3>2, Zenon DEF NextLive
      <4> QED BY <3>2, <4>2, <4>3, Zenon
    <3>3. CASE r[p].en # "1" /\ live[p] /\ idle[p] = 1
      <4>1. Memory!Response[p] = {[data |-> q[p], age |-> 1]}
        BY <3>3, Zenon DEF Memory!Response
      <4>2. Memory!Abstract!Older(Memory!Response[p]) = {}
        BY <4>1 DEF Memory!Abstract!Older
      <4>3. ~NextLive(r, p)
        BY <3>3 DEF NextLive, Expires
      <4> QED BY <3>3, <4>2, <4>3, Zenon
    <3>4. CASE r[p].en # "1" /\ live[p] /\ idle[p] = 0
      <4>1. Memory!Response[p] = {[data |-> q[p], age |-> 0]}
        BY <3>4, Zenon DEF Memory!Response
      <4>2. Memory!Abstract!Older(Memory!Response[p]) = {[data |-> q[p], age |-> 1]}
        <5>1. PICK t : t = [data |-> q[p], age |-> 0]
          BY Zenon
        <5>2. t.age = 0 /\ [t EXCEPT !.age = 1] = [data |-> q[p], age |-> 1]
          BY <5>1
        <5>3. {x \in Memory!Response[p] : x.age = 0} = {t}
          BY <4>1, <5>1, <5>2, Zenon
        <5>4. Memory!Abstract!Older(Memory!Response[p]) = {[x EXCEPT !.age = 1] : x \in {t}}
          BY <5>3, Zenon DEF Memory!Abstract!Older
        <5>5. {[x EXCEPT !.age = 1] : x \in {t}} = {[t EXCEPT !.age = 1]}
          BY Zenon
        <5> QED BY <5>2, <5>4, <5>5, Zenon
      <4>3. NextLive(r, p) /\ NextData(r, p) = q[p] /\ NextIdle(r, p) = 1
        BY <3>4 DEF NextLive, NextData, NextIdle, Expires
      <4>4. r[p].en # "1"
        BY <3>4, Zenon
      <4> QED BY <4>2, <4>3, <4>4, Zenon
    <3> QED BY <3>0, <3>1, <3>2, <3>3, <3>4
  <2>2. Memory!Response' = [p \in Memory!Ports |-> IF live'[p] THEN {[data |-> q'[p], age |-> idle'[p]]} ELSE {}]
    BY <1>1, Zenon DEF Memory!Response
  <2>3. \A p \in Memory!Ports : live'[p] = NextLive(r, p) /\ q'[p] = NextData(r, p) /\ idle'[p] = NextIdle(r, p)
    BY Zenon
  <2> QED BY <1>7, <2>1, <2>2, <2>3, AbstractNames, Zenon
<1> QED BY <1>5, <1>7, <1>8, <1>9, Zenon DEF Memory!Abstract!Edge

\* A new pair satisfies the invariant and is an abstract memory.
LEMMA MemInitial ==
  ASSUME Memory!ShapesAssumption, Memory!BothInit
  PROVE  LockstepInv /\ Memory!Abstract!Init
<1>1. /\ shape \in Shapes /\ shape \in [depth : Nat \ {0}, lanes : Nat \ {0}, ports : {1, 2}]
      /\ Zero \in Values /\ Unknown \notin Memory!Word
  <2>1. shape \in Shapes
    BY Zenon DEF Memory!BothInit, Memory!Init
  <2>2. Unknown \notin [1 .. shape.lanes -> Values]
    BY <2>1, Zenon DEF Memory!ShapesAssumption
  <2> QED BY <2>1, <2>2, Zenon DEF Memory!ShapesAssumption, Memory!Word, Memory!Lanes
<1>2. /\ memory = [a \in Memory!Addresses |-> Memory!ZeroWord] /\ q = [p \in Memory!Ports |-> Unknown]
      /\ live = [p \in Memory!Ports |-> FALSE] /\ idle = [p \in Memory!Ports |-> 0] /\ clock = FALSE
      /\ mem_pending = Memory!Discarded /\ request = {}
  BY Zenon DEF Memory!BothInit, Memory!Init
<1>3. Memory!ZeroWord \in Memory!Word
  BY <1>1, Zenon DEF Memory!ZeroWord, Memory!Word
<1>4. MemTyped
  <2>1. memory \in [Memory!Addresses -> Memory!Word] /\ q \in [Memory!Ports -> Memory!Word \cup {Unknown}]
        /\ live \in [Memory!Ports -> BOOLEAN] /\ idle \in [Memory!Ports -> Nat]
    BY <1>2, <1>3, Zenon
  <2>2. \A p \in Memory!Ports : live[p] = FALSE /\ q[p] = Unknown
    BY <1>2, Zenon
  <2> QED BY <1>1, <1>2, <2>1, <2>2, Zenon DEF MemTyped
<1>5. SameMemory
  BY <1>2, VerilogNames, Zenon DEF Memory!BothInit, Memory!Verilog!Init, SameMemory, Memory!Addresses
<1>6. PreparedAlike
  <2>1. mem_pending.valid = FALSE
    BY <1>2, Zenon DEF Memory!Discarded
  <2>2. v_pending_valid = FALSE /\ v_error = FALSE
    BY Zenon DEF Memory!BothInit, Memory!Verilog!Init
  <2> QED BY <1>2, <2>1, <2>2, Zenon DEF PreparedAlike, PreparedNothing
<1>7. Memory!Abstract!Init
  <2>1. Memory!Response = [p \in Memory!Ports |-> {}]
    BY <1>2, Zenon DEF Memory!Response
  <2> QED BY <1>2, <2>1, AbstractNames, Zenon DEF Memory!Abstract!Init, Memory!Abstract!ZeroWord, Memory!Abstract!Lanes,
                                             Memory!Addresses, Memory!Depth, Memory!ZeroWord, Memory!Lanes
<1> QED BY <1>4, <1>5, <1>6, <1>7, Zenon DEF LockstepInv

\* A commit preserves the invariant and is a step of the abstract memory.
LEMMA CommitStep ==
  ASSUME LockstepInv, Memory!BothCommit, UNCHANGED shape
  PROVE  LockstepInv' /\ [Memory!Abstract!Next]_<<shape, memory, Memory!Response, request>>
<1>0. MemTyped /\ SameMemory /\ PreparedAlike /\ Memory!Xfer /\ mem_pending.valid
  BY Zenon DEF LockstepInv, Memory!BothCommit, Memory!Xfer
<1>1. /\ v_pending_valid = TRUE /\ ~v_error /\ v_error \in BOOLEAN
      /\ \/ \E k \in BOOLEAN : HoldPrepared(k) \/ ResetPrepared(k)
         \/ \E w \in Memory!WritePins, r \in [Memory!Ports -> Memory!ReadPins] : EdgePrepared(w, r)
  BY <1>0, Zenon DEF PreparedAlike, PreparedNothing
<1>2. Memory!Verilog!CommitTransition
  BY <1>1, Zenon DEF Memory!BothCommit, Memory!Verilog!Commit
<1>3. PreparedAlike' /\ request' = {}
  <2>1. v_pending_valid' = FALSE /\ v_error' = v_error
    BY Zenon DEF Memory!BothCommit, Memory!Verilog!Commit
  <2>2. mem_pending' = Memory!Discarded' /\ request' = {}
    BY <1>0, Zenon DEF Memory!Xfer
  <2>3. mem_pending'.valid = FALSE
    <3>1. Memory!Discarded' = [valid |-> FALSE, clock |-> clock', write |-> FALSE, address |-> 0, data |-> Memory!ZeroWord',
                        read |-> [p \in Memory!Ports' |-> FALSE], invalidate |-> [p \in Memory!Ports' |-> FALSE],
                        idle |-> idle', q |-> [p \in Memory!Ports' |-> Unknown]]
      BY Zenon DEF Memory!Discarded
    <3> QED BY <2>2, <3>1, Zenon
  <2>4. v_error' \in BOOLEAN
    BY <1>1, <2>1, Zenon
  <2> QED BY <2>1, <2>2, <2>3, <2>4, Zenon DEF PreparedAlike, PreparedNothing
<1>4. /\ Memory!Ports' = Memory!Ports /\ Memory!Addresses' = Memory!Addresses /\ Memory!Word' = Memory!Word
  BY SameShape, Zenon
<1>5. ASSUME NEW k \in BOOLEAN, HoldPrepared(k)
      PROVE  LockstepInv' /\ [Memory!Abstract!Next]_<<shape, memory, Memory!Response, request>>
  <2>1. memory' = memory /\ q' = q /\ live' = live /\ idle' = idle /\ clock' = k /\ request = {}
    BY <1>0, <1>5, KernelHold, Zenon DEF HoldPrepared
  <2>2. v_mem' = memory /\ v_rdata' = q /\ v_live' = live /\ v_idle' = idle /\ v_clock' = k
    BY <1>0, <1>2, <1>5, VerilogHold, Zenon DEF HoldPrepared
  <2>3. MemTyped'
    BY <1>0, <1>4, <2>1, Zenon DEF MemTyped
  <2>4. SameMemory'
    BY <2>1, <2>2, Zenon DEF SameMemory
  <2>5. Memory!Response' = Memory!Response
    BY <1>4, <2>1, Zenon DEF Memory!Response
  <2> QED BY <1>3, <2>1, <2>3, <2>4, <2>5, Zenon DEF LockstepInv
<1>6. ASSUME NEW k \in BOOLEAN, ResetPrepared(k)
      PROVE  LockstepInv' /\ [Memory!Abstract!Next]_<<shape, memory, Memory!Response, request>>
  <2>1. /\ memory' = memory /\ clock' = k
        /\ q' = [p \in Memory!Ports |-> Unknown] /\ live' = [p \in Memory!Ports |-> FALSE]
        /\ idle' = [p \in Memory!Ports |-> 0]
    BY <1>0, <1>6, KernelReset, Zenon DEF ResetPrepared
  <2>2. /\ v_mem' = memory /\ v_clock' = k
        /\ v_rdata' = [p \in Memory!Ports |-> Unknown] /\ v_live' = [p \in Memory!Ports |-> FALSE]
        /\ v_idle' = [p \in Memory!Ports |-> 0]
    BY <1>0, <1>2, <1>6, VerilogReset, Zenon DEF ResetPrepared
  <2>3. MemTyped'
    <3>1. /\ q' \in [Memory!Ports -> Memory!Word \cup {Unknown}] /\ live' \in [Memory!Ports -> BOOLEAN]
          /\ idle' \in [Memory!Ports -> Nat]
          /\ \A p \in Memory!Ports : live'[p] = FALSE /\ q'[p] = Unknown
      BY <2>1, Zenon
    <3> QED BY <1>0, <1>4, <2>1, <3>1, Zenon DEF MemTyped
  <2>4. SameMemory'
    BY <2>1, <2>2, Zenon DEF SameMemory
  <2>5. Memory!Response' = [p \in Memory!Ports |-> {}]
    <3>1. Memory!Response' = [p \in Memory!Ports |-> IF live'[p] THEN {[data |-> q'[p], age |-> idle'[p]]} ELSE {}]
      BY <1>4, Zenon DEF Memory!Response
    <3>2. \A p \in Memory!Ports : ~live'[p]
      BY <2>1, Zenon
    <3> QED BY <3>1, <3>2, Zenon
  <2>6. Memory!Abstract!Reset
    BY <1>3, <2>1, <2>5, AbstractNames, Zenon DEF Memory!Abstract!Reset
  <2> QED BY <1>3, <2>3, <2>4, <2>6, Zenon DEF LockstepInv, Memory!Abstract!Next
<1>7. ASSUME NEW w \in Memory!WritePins, NEW r \in [Memory!Ports -> Memory!ReadPins], EdgePrepared(w, r)
      PROVE  LockstepInv' /\ [Memory!Abstract!Next]_<<shape, memory, Memory!Response, request>>
  <2>0. Memory!EdgeKnown(w, r) /\ request = {[w |-> w, r |-> r]} /\ v_clock_pending = TRUE
    BY <1>7, Zenon DEF EdgePrepared
  <2>1. /\ clock' = TRUE
        /\ memory' = [a \in Memory!Addresses |-> WrittenEntry(w, a)]
        /\ q' = [p \in Memory!Ports |-> NextData(r, p)] /\ live' = [p \in Memory!Ports |-> NextLive(r, p)]
        /\ idle' = [p \in Memory!Ports |-> NextIdle(r, p)]
    BY <1>0, <1>7, KernelEdge, Zenon DEF EdgePrepared
  <2>2. /\ v_clock' = TRUE
        /\ v_mem' = [a \in Memory!Addresses |-> WrittenEntry(w, a)]
        /\ v_rdata' = [p \in Memory!Ports |-> NextData(r, p)] /\ v_live' = [p \in Memory!Ports |-> NextLive(r, p)]
        /\ v_idle' = [p \in Memory!Ports |-> NextIdle(r, p)]
    BY <1>0, <1>2, <1>7, <2>0, VerilogEdge, Zenon DEF EdgePrepared
  <2>3. MemTyped' /\ Memory!Abstract!Edge
    BY <1>0, <1>3, <2>0, <2>1, EdgeStep, Zenon
  <2>4. SameMemory'
    BY <2>1, <2>2, Zenon DEF SameMemory
  <2> QED BY <1>3, <2>3, <2>4, Zenon DEF LockstepInv, Memory!Abstract!Next
<1> QED BY <1>1, <1>5, <1>6, <1>7, Zenon

\* Every step preserves the invariant and is a step of the abstract memory, or
\* changes nothing that it shows.
LEMMA MemStep ==
  ASSUME LockstepInv, [Memory!BothNext]_<<Memory!vars, Memory!verilogVars>>
  PROVE  LockstepInv' /\ [Memory!Abstract!Next]_<<shape, memory, Memory!Response, request>>
<1>0. MemTyped /\ SameMemory /\ PreparedAlike
  BY Zenon DEF LockstepInv
<1>1. ASSUME UNCHANGED shape, UNCHANGED Memory!contents, UNCHANGED Memory!Verilog!registers, PreparedAlike'
      PROVE  LockstepInv' /\ [Memory!Abstract!Next]_<<shape, memory, Memory!Response, request>>
  <2>1. MemTyped' /\ SameMemory' /\ Memory!Response' = Memory!Response
    BY <1>0, <1>1, RegistersKept, Zenon
  <2>2. memory' = memory
    BY <1>1, Zenon DEF Memory!contents
  <2>3. Memory!Abstract!Ask
    BY <2>1, <2>2, Zenon DEF Memory!Abstract!Ask
  <2> QED BY <1>1, <2>1, <2>3, Zenon DEF LockstepInv, Memory!Abstract!Next
<1>2. ASSUME NEW i \in Memory!Pins, Memory!BothEvaluate(i.clk, i.rst, i.w, i.r), UNCHANGED shape
      PROVE  LockstepInv' /\ [Memory!Abstract!Next]_<<shape, memory, Memory!Response, request>>
  <2>1. PICK clk \in Memory!Pin, rst \in Memory!Pin, w \in Memory!WritePins, r \in [Memory!Ports -> Memory!ReadPins] :
          Memory!BothEvaluate(clk, rst, w, r)
    BY <1>2, MemPinsTyped, Zenon
  <2>2. PreparedAlike' /\ UNCHANGED Memory!contents /\ UNCHANGED Memory!Verilog!registers
    BY <1>2, <2>1, EvaluateAlike, Zenon
  <2> QED BY <1>1, <1>2, <2>2, Zenon
<1>3. CASE Memory!BothCommit /\ UNCHANGED shape
  BY <1>3, CommitStep, Zenon
<1>4. CASE (Memory!BothRefuse \/ Memory!BothDiscard) /\ UNCHANGED shape
  <2>1. UNCHANGED Memory!contents /\ mem_pending' = Memory!Discarded /\ request' = {}
    BY <1>4, Zenon DEF Memory!BothRefuse, Memory!BothDiscard, Memory!Discard
  <2>2. UNCHANGED Memory!Verilog!registers
    BY <1>4, Zenon DEF Memory!BothRefuse, Memory!BothDiscard, Memory!Verilog!Commit, Memory!Verilog!Discard
  <2>3. v_pending_valid' = FALSE /\ (v_error' = v_error \/ v_error' = FALSE)
    BY <1>4, Zenon DEF Memory!BothRefuse, Memory!BothDiscard, Memory!Verilog!Commit, Memory!Verilog!Discard
  <2>4. mem_pending'.valid = FALSE
    BY <2>1, Zenon DEF Memory!Discarded
  <2>5. v_error' \in BOOLEAN
    BY <1>0, <2>3, Zenon DEF PreparedAlike
  <2>6. PreparedAlike'
    BY <2>1, <2>3, <2>4, <2>5, Zenon DEF PreparedAlike, PreparedNothing
  <2> QED BY <1>1, <1>4, <2>1, <2>2, <2>6, Zenon
<1>5. CASE Memory!BothReset /\ UNCHANGED shape
  <2>1. UNCHANGED Memory!contents /\ mem_pending' = Memory!Invalidated(FALSE) /\ request' = {}
    BY <1>5, Zenon DEF Memory!BothReset, Memory!Reset
  <2>2. /\ UNCHANGED Memory!Verilog!registers /\ v_write' = Memory!Verilog!NoWrite /\ v_read' = Memory!Verilog!NoRead
        /\ v_clock_pending' = FALSE /\ v_error' = FALSE /\ v_pending_valid' = TRUE
    BY <1>5, Zenon DEF Memory!BothReset, Memory!Verilog!HostReset, Memory!Verilog!Invalidate
  <2>3. ResetPrepared(FALSE)'
    BY <1>5, <2>1, <2>2, ResetKept, Zenon
  <2>4. PreparedAlike'
    <3>1. \E k \in BOOLEAN : HoldPrepared(k)' \/ ResetPrepared(k)'
      BY <2>3, Zenon
    <3>2. v_error' \in BOOLEAN /\ ~v_error'
      BY <2>2, Zenon
    <3> QED BY <2>2, <3>1, <3>2, Zenon DEF PreparedAlike
  <2> QED BY <1>1, <1>5, <2>1, <2>2, <2>4, Zenon
<1>6. CASE UNCHANGED <<Memory!vars, Memory!verilogVars>>
  <2>1. /\ UNCHANGED shape /\ UNCHANGED Memory!contents /\ UNCHANGED Memory!Verilog!registers
        /\ mem_pending' = mem_pending /\ request' = request
        /\ v_pending_valid' = v_pending_valid /\ v_error' = v_error /\ v_write' = v_write
        /\ v_read' = v_read /\ v_clock_pending' = v_clock_pending
    BY <1>6, Zenon DEF Memory!vars, Memory!verilogVars, Memory!Verilog!registers
  <2>2. PreparedAlike'
    <3>1. CASE PreparedNothing
      <4>1. ~mem_pending'.valid /\ ~v_pending_valid' /\ request' = {} /\ v_error' \in BOOLEAN
        BY <1>0, <2>1, <3>1, Zenon DEF PreparedAlike, PreparedNothing
      <4> QED BY <4>1, Zenon DEF PreparedAlike, PreparedNothing
    <3>2. CASE ~PreparedNothing
      <4>1. /\ v_pending_valid = TRUE /\ ~v_error /\ v_error \in BOOLEAN
            /\ \/ \E k \in BOOLEAN : HoldPrepared(k) \/ ResetPrepared(k)
               \/ \E w \in Memory!WritePins, r \in [Memory!Ports -> Memory!ReadPins] : EdgePrepared(w, r)
        BY <1>0, <3>2, Zenon DEF PreparedAlike
      <4>2. ASSUME NEW k \in BOOLEAN, HoldPrepared(k) PROVE HoldPrepared(k)'
        BY <2>1, <4>2, HoldKept, Zenon DEF HoldPrepared
      <4>3. ASSUME NEW k \in BOOLEAN, ResetPrepared(k) PROVE ResetPrepared(k)'
        BY <2>1, <4>3, ResetKept, Zenon DEF ResetPrepared
      <4>4. ASSUME NEW w, NEW r, EdgePrepared(w, r) PROVE EdgePrepared(w, r)'
        BY <2>1, <4>4, EdgeKept, Zenon DEF EdgePrepared
      <4>5. Memory!Ports' = Memory!Ports /\ Memory!WritePins' = Memory!WritePins /\ Memory!ReadPins' = Memory!ReadPins
        BY <2>1, SameShape, Zenon
      <4>6. v_pending_valid' = TRUE /\ ~v_error' /\ v_error' \in BOOLEAN
        BY <2>1, <4>1, Zenon
      <4>7. \/ \E k \in BOOLEAN : HoldPrepared(k)' \/ ResetPrepared(k)'
            \/ \E w \in Memory!WritePins', r \in [Memory!Ports' -> Memory!ReadPins'] : EdgePrepared(w, r)'
        BY <4>1, <4>2, <4>3, <4>4, <4>5, Zenon
      <4> QED BY <4>6, <4>7, Zenon DEF PreparedAlike
    <3> QED BY <3>1, <3>2, Zenon
  <2> QED BY <1>1, <2>1, <2>2, Zenon
<1> QED BY <1>2, <1>3, <1>4, <1>5, <1>6, Zenon DEF Memory!BothNext

\* The invariant implies what an observer of the pins sees.
LEMMA MemAgrees ==
  ASSUME LockstepInv
  PROVE  Memory!VerilogAgrees
<1>1. MemTyped /\ SameMemory /\ PreparedAlike
  BY Zenon DEF LockstepInv
<1>2. mem_pending.valid <=> ~Memory!Verilog!local_error
  <2>1. CASE PreparedNothing
    BY <2>1, Zenon DEF PreparedNothing, Memory!Verilog!local_error
  <2>2. CASE ~PreparedNothing
    <3>1. /\ v_pending_valid = TRUE /\ ~v_error
          /\ \/ \E k \in BOOLEAN : HoldPrepared(k) \/ ResetPrepared(k)
             \/ \E w \in Memory!WritePins, r \in [Memory!Ports -> Memory!ReadPins] : EdgePrepared(w, r)
      BY <1>1, <2>2, Zenon DEF PreparedAlike
    <3>2. ASSUME NEW k \in BOOLEAN, HoldPrepared(k) \/ ResetPrepared(k) PROVE mem_pending.valid = TRUE
      BY <3>2, Zenon DEF HoldPrepared, ResetPrepared, Memory!Invalidated, Memory!Discarded
    <3>3. ASSUME NEW w \in Memory!WritePins, NEW r \in [Memory!Ports -> Memory!ReadPins], EdgePrepared(w, r)
          PROVE  mem_pending.valid = TRUE
      BY <3>3, Zenon DEF EdgePrepared, Memory!Transaction, Memory!Discarded
    <3>4. mem_pending.valid
      BY <3>1, <3>2, <3>3, Zenon
    <3> QED BY <3>1, <3>4, Zenon DEF Memory!Verilog!local_error
  <2> QED BY <2>1, <2>2, Zenon
<1> QED BY <1>1, <1>2, Zenon DEF SameMemory, MemTyped, Memory!VerilogAgrees

\* The kernel and the leaf hold the same words and answers and have prepared the
\* same transition in every reachable state.
THEOREM MemoryInvariant == Memory!ShapesAssumption => (Memory!LockstepSpec => []LockstepInv)
<1> SUFFICES ASSUME Memory!ShapesAssumption PROVE Memory!LockstepSpec => []LockstepInv
  BY Zenon
<1>1. Memory!BothInit => LockstepInv
  BY MemInitial, Zenon
<1>2. LockstepInv /\ [Memory!BothNext]_<<Memory!vars, Memory!verilogVars>> => LockstepInv'
  BY MemStep, Zenon
<1> QED BY <1>1, <1>2, PTL DEF Memory!LockstepSpec

\* sync_mem.h and the leaves sync_mem.v and sync_mem_dp.v give the same answers and
\* refuse the same inputs, for every depth, number of lanes and ports.
THEOREM MemoryVerilogAgrees == Memory!ShapesAssumption => (Memory!LockstepSpec => []Memory!VerilogAgrees)
<1> SUFFICES ASSUME Memory!ShapesAssumption PROVE Memory!LockstepSpec => []Memory!VerilogAgrees
  BY Zenon
<1>1. Memory!LockstepSpec => []LockstepInv
  BY MemoryInvariant, Zenon
<1>2. LockstepInv => Memory!VerilogAgrees
  BY MemAgrees, Zenon
<1> QED BY <1>1, <1>2, PTL

\* Both implement a memory whose edges are atomic: reads see the words before the
\* write of the same edge, and an answer can be seen for two edges.
THEOREM MemoryImplemented == Memory!ShapesAssumption => (Memory!LockstepSpec => Memory!ImplementsMemory)
<1> SUFFICES ASSUME Memory!ShapesAssumption PROVE Memory!LockstepSpec => Memory!ImplementsMemory
  BY Zenon
<1>1. Memory!BothInit => LockstepInv /\ Memory!Abstract!Init
  BY MemInitial, Zenon
<1>2. LockstepInv /\ [Memory!BothNext]_<<Memory!vars, Memory!verilogVars>>
        => LockstepInv' /\ [Memory!Abstract!Next]_<<shape, memory, Memory!Response, request>>
  BY MemStep, Zenon
<1> QED BY <1>1, <1>2, PTL DEF Memory!LockstepSpec, Memory!ImplementsMemory, Memory!Abstract!Spec

=============================================================================
