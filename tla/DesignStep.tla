----------------------------- MODULE DesignStep -----------------------------
(***************************************************************************)
(* One step of an emitted design, in C++ and in Verilog side by side.      *)
(*                                                                         *)
(* C++ (HardwareEmitCppDefinition.cpp): Work of the root first runs the    *)
(* independent subtrees, on the pool of module WorkExecutor or one after   *)
(* the other, and then samples its own leaves; an exception discards       *)
(* everything and fails the step, otherwise Xfer commits.                  *)
(*                                                                         *)
(* Verilog (FinalEmitVerilog.cpp): pyc_step prepares every leaf at once    *)
(* and commits when no leaf reports an error.                              *)
(***************************************************************************)
EXTENDS RegisterFamily

\* The leaves of the root itself are the last family; each other one is a subtree.
Own == Len(Size)
Tasks == Families \ {Own}
Registers == UNION {{f} \X Lanes(f) : f \in Families}

VARIABLES
  pool,     \* pyc_work_executor_ is there
  phase,    \* "idle", "work", "failed"
  pins,     \* the inputs of the step: clk and rst, and en, d and init of every lane
  at,       \* the lane that a family samples next
  threw,    \* subtrees whose Work has thrown
  q_current, clock_current, q_pending, clock_pending, pending_valid, preparation_error

cpp == <<current, pending, completed, completedCount>>
verilog == <<q_current, clock_current, q_pending, clock_pending, pending_valid, preparation_error>>
vars == <<cpp, verilog, pool, phase, pins, at, threw>>

V == INSTANCE VerilogDffe WITH Leaves <- Registers, X <- Unknown

-----------------------------------------------------------------------------
(* Inputs.  A pin that cannot matter is unknown.                           *)

Idle == [en |-> "x", d |-> Unknown, init |-> Unknown]
LoadPins == {[Idle EXCEPT !.en = "0"], Idle} \cup {[Idle EXCEPT !.en = "1", !.d = v] : v \in Payload}
InitPins == {[Idle EXCEPT !.init = v] : v \in Payload}

InputsWith(clk, rst, lanes) == [clk : {clk}, rst : {rst}, lane : [Registers -> lanes]]

Inputs ==
  InputsWith("x", "x", {Idle}) \cup InputsWith("0", "x", {Idle}) \cup InputsWith("1", "x", {Idle})
    \cup InputsWith("1", "1", {Idle} \cup {[Idle EXCEPT !.en = "1", !.init = v] : v \in Data})
    \cup InputsWith("1", "0", LoadPins)

ResetInputs == InputsWith("0", "x", InitPins)

-----------------------------------------------------------------------------
Init ==
  /\ InitFamilies /\ V!Init
  /\ pool \in BOOLEAN
  /\ phase = "idle" /\ threw = {}
  /\ pins \in InputsWith("0", "x", {Idle})
  /\ at = [f \in Families |-> 1]

\* Pins settle; Work begins and every Verilog leaf prepares.
Begin(in) ==
  /\ phase = "idle"
  /\ phase' = "work" /\ pins' = in
  /\ at' = [f \in Families |-> 1] /\ threw' = {}
  /\ V!Prepare(in.clk, in.rst, in.lane)
  /\ UNCHANGED <<cpp, pool>>

Finished(f) == f \in threw \/ at[f] > Size[f]

\* The tasks have ended: all of them on the pool, up to the first exception without it.
TasksEnded ==
  \/ \A f \in Tasks : Finished(f)
  \/ ~pool /\ threw # {}

\* Subtrees run at the same time on the pool, and in their order without it.
MayRun(f) ==
  /\ phase = "work" /\ ~Finished(f)
  /\ IF f = Own THEN TasksEnded /\ threw = {}
     ELSE pool \/ (threw = {} /\ \A g \in Tasks : g < f => Finished(g))

\* A family samples its next lane; when that throws, its owner's Work ends.
WorkLane(f) ==
  LET l == at[f]
      in == pins.lane[<<f, l>>] IN
  /\ MayRun(f)
  /\ IF Throws(current[f][l], pins.clk, pins.rst, in)
     THEN WorkThrows(f) /\ threw' = threw \cup {f} /\ UNCHANGED at
     ELSE work(f, l, pins.clk, pins.rst, in) /\ at' = [at EXCEPT ![f] = l + 1] /\ UNCHANGED threw
  /\ UNCHANGED <<pool, phase, pins, verilog>>

\* Mutant: only the subtrees that threw are discarded.
DiscardNext_Threw == UNCHANGED current /\ discard(threw)

\* DiscardNext of the root, in its catch clause or by the system that refuses the commit.
DiscardNext == UNCHANGED current /\ discard(Families)

Fail ==
  /\ phase = "work" /\ threw # {} /\ TasksEnded
  /\ phase' = "failed"
  /\ DiscardNext /\ V!Discard
  /\ UNCHANGED <<pool, pins, at, threw>>

\* An inconsistent observation group refuses the step in both, and so does a
\* snapshot of checks that is incomplete or reports a sampling error: any step
\* in which no leaf failed may be refused.
Refuse ==
  /\ phase = "work" /\ \A f \in Families : Finished(f) /\ threw = {}
  /\ phase' = "failed"
  /\ DiscardNext /\ V!Discard
  /\ UNCHANGED <<pool, pins, at, threw>>

Commit ==
  /\ phase = "work" /\ \A f \in Families : Finished(f) /\ threw = {}
  /\ phase' = "idle"
  /\ xfer /\ V!Commit
  /\ UNCHANGED <<pool, pins, at, threw>>

\* Reset and Xfer of the root; a Verilog simulation begins with the same.
Reset(in) ==
  /\ phase \in {"idle", "failed"}
  /\ phase' = "idle" /\ pins' = in
  /\ reset([f \in Families |-> [l \in Lanes(f) |-> in.lane[<<f, l>>].init]])
  /\ V!HostReset([r \in Registers |-> in.lane[r].init])
  /\ UNCHANGED <<pool, at, threw>>

Next ==
  \/ \E in \in Inputs : Begin(in)
  \/ \E f \in Families : WorkLane(f)
  \/ Fail
  \/ Refuse
  \/ Commit
  \/ \E in \in ResetInputs : Reset(in)

Spec == Init /\ [][Next]_vars

-----------------------------------------------------------------------------
(* Properties.                                                             *)

\* Between steps no family holds a prepared lane: whatever a failed subtree, its
\* neighbours on the pool or the root had prepared, a later Xfer cannot commit it.
NothingPrepared ==
  phase # "work" => \A f \in Families :
                      completedCount[f] = 0 /\ \A l \in Lanes(f) : ~pending[f][l].valid

\* When Work of the C++ design has ended, it has thrown exactly if a leaf of the
\* Verilog design reports an error, whichever subtree failed first and whether
\* or not the others were still run; and outside a step both designs hold the
\* same values in all registers.
VerilogAgrees ==
  /\ phase = "work" /\ TasksEnded /\ (threw # {} \/ Finished(Own)) => (threw # {} <=> V!local_error)
  /\ phase # "work" => \A r \in Registers : current[r[1]][r[2]].q = q_current[r]

Array == INSTANCE RegisterArray WITH
  X <- Unknown,
  q <- [r \in Registers |-> current[r[1]][r[2]].q],
  clock <- [r \in Registers |-> current[r[1]][r[2]].clock]

\* However subtrees interleave, fail or are reset, the registers of the C++
\* design change like one array, all in one step by the pins of that step.
ImplementsRegisters == Array!Spec

=============================================================================
