---------------------------- MODULE VerilogDffe ----------------------------
(***************************************************************************)
(* The managed Verilog register (include/verilog/dffe.v, pyc_managed = 1), *)
(* one for every lane of every family, and the phases in which the         *)
(* emitted root drives all of them.                                        *)
(***************************************************************************)
EXTENDS Integers, FourState

CONSTANTS Leaves, X

VARIABLES q_current, clock_current,
          q_pending, clock_pending, pending_valid, preparation_error

registers == <<q_current, clock_current>>

Init ==
  /\ q_current = [i \in Leaves |-> X] /\ clock_current = [i \in Leaves |-> FALSE]
  /\ q_pending = q_current /\ clock_pending = clock_current
  /\ pending_valid = [i \in Leaves |-> FALSE]
  /\ preparation_error = [i \in Leaves |-> FALSE]

Rising(i, clk) == ~clock_current[i] /\ clk = "1"

\* Mutant: the enable decides before reset does.
next_q_EnableFirst(q, rising, rst, p) ==
  IF ~rising THEN q ELSE IF p.en = "1" THEN p.d ELSE IF rst = "1" THEN p.init ELSE q

next_q(q, rising, rst, p) ==
  IF ~rising THEN q ELSE IF rst = "1" THEN p.init ELSE IF p.en = "1" THEN p.d ELSE q

edge_control_error(rising, rst, en) == rising /\ (rst = "x" \/ (rst = "0" /\ en = "x"))

Error(i, clk, rst, p) == clk = "x" \/ edge_control_error(Rising(i, clk), rst, p.en)

\* PREPARE
Prepare(clk, rst, pins) ==
  /\ preparation_error' = [i \in Leaves |-> Error(i, clk, rst, pins[i])]
  /\ pending_valid' = [i \in Leaves |-> ~Error(i, clk, rst, pins[i])]
  /\ q_pending' = [i \in Leaves |->
                     IF Error(i, clk, rst, pins[i]) THEN q_current[i]
                     ELSE next_q(q_current[i], Rising(i, clk), rst, pins[i])]
  /\ clock_pending' = [i \in Leaves |->
                         IF Error(i, clk, rst, pins[i]) THEN clock_current[i] ELSE clk = "1"]
  /\ UNCHANGED registers

\* COMMIT, with the permission of the root.
Commit ==
  /\ q_current' = [i \in Leaves |-> IF pending_valid[i] THEN q_pending[i] ELSE q_current[i]]
  /\ clock_current' = [i \in Leaves |-> IF pending_valid[i] THEN clock_pending[i]
                                        ELSE clock_current[i]]
  /\ pending_valid' = [i \in Leaves |-> FALSE]
  /\ UNCHANGED <<q_pending, clock_pending, preparation_error>>

\* DISCARD
Discard ==
  /\ pending_valid' = [i \in Leaves |-> FALSE]
  /\ preparation_error' = [i \in Leaves |-> FALSE]
  /\ UNCHANGED <<registers, q_pending, clock_pending>>

\* RESET_PREPARE and the COMMIT that follows it.
HostReset(init) ==
  /\ q_current' = init /\ q_pending' = init
  /\ clock_current' = [i \in Leaves |-> FALSE] /\ clock_pending' = [i \in Leaves |-> FALSE]
  /\ pending_valid' = [i \in Leaves |-> FALSE]
  /\ preparation_error' = [i \in Leaves |-> FALSE]

\* The errors of all leaves, or-ed on their way to the root.
local_error == \E i \in Leaves : preparation_error[i] \/ ~pending_valid[i]

=============================================================================
