--------------------------- MODULE VerilogSyncMem ---------------------------
(***************************************************************************)
(* The managed Verilog memories (include/verilog/sync_mem.v and            *)
(* sync_mem_dp.v with pyc_managed = 1), for any number of read ports: the  *)
(* phases PREPARE, COMMIT, DISCARD and host Reset.                         *)
(***************************************************************************)
EXTENDS Integers, FourState

CONSTANTS Zero, X

VARIABLES shape,
          mem, rdata, idle_current, live_current, clock_current,
          pending_valid, preparation_error,
          write_candidate, read_candidate, clock_pending

registers == <<mem, rdata, idle_current, live_current, clock_current>>

Depth == shape.depth
Lanes == 1 .. shape.lanes
Ports == 1 .. shape.ports

ZeroWord == [l \in Lanes |-> Zero]
NoWrite == [index |-> 0, bits |-> ZeroWord, enable |-> {}]
NoRead == [p \in Ports |-> [q |-> X, idle |-> 0, live |-> FALSE]]

Init ==
  /\ mem = [a \in 0 .. Depth - 1 |-> ZeroWord]
  /\ rdata = [p \in Ports |-> X]
  /\ idle_current = [p \in Ports |-> 0] /\ live_current = [p \in Ports |-> FALSE]
  /\ clock_current = FALSE
  /\ pending_valid = FALSE /\ preparation_error = FALSE
  /\ write_candidate = NoWrite
  /\ read_candidate = NoRead
  /\ clock_pending = FALSE

\* Mutant: one edge longer.
LIVE_WINDOW_Long == 3

LIVE_WINDOW == 2

read_entry(address) == IF address < Depth THEN mem[address] ELSE ZeroWord

current_read(p) == [q |-> rdata[p], idle |-> idle_current[p], live |-> live_current[p]]

\* next_read at a rising edge without reset.
next_read(p, en, address) ==
  IF en = "1" THEN [q |-> read_entry(address), idle |-> 0, live |-> TRUE]
  ELSE IF ~live_current[p] THEN current_read(p)
  ELSE LET n == idle_current[p] + 1
       IN IF n >= LIVE_WINDOW THEN [q |-> X, idle |-> n, live |-> FALSE]
          ELSE [current_read(p) EXCEPT !.idle = n]

\* The candidates of prepare_transition: without an edge, at a reset, at an edge.
Hold ==
  /\ write_candidate' = NoWrite
  /\ read_candidate' = [p \in Ports |-> current_read(p)]

Invalidate ==
  /\ write_candidate' = NoWrite
  /\ read_candidate' = NoRead

Transition(w, r) ==
  /\ write_candidate' = IF w.valid = "1" /\ w.addr < Depth
                        THEN [index |-> w.addr, bits |-> w.data, enable |-> w.strb]
                        ELSE NoWrite
  /\ read_candidate' = [p \in Ports |-> next_read(p, r[p].en, r[p].addr)]

Rising(clk) == ~clock_current /\ clk = "1"

\* edge_control_error
ControlError(rst, w, r) ==
  \/ rst = "x"
  \/ /\ rst = "0"
     /\ \/ w.valid = "x" \/ \E p \in Ports : r[p].en = "x"
        \/ \E p \in Ports : r[p].en = "1" /\ r[p].addr = X
        \/ w.valid = "1" /\ (w.addr = X \/ w.data = X \/ w.strb = X)

Prepare(clk, rst, w, r) ==
  LET error == clk = "x" \/ (Rising(clk) /\ ControlError(rst, w, r))
  IN /\ preparation_error' = error
     /\ pending_valid' = ~error
     /\ clock_pending' = IF error THEN clock_current ELSE clk = "1"
     /\ IF error \/ ~Rising(clk) THEN Hold
        ELSE IF rst = "1" THEN Invalidate
        ELSE Transition(w, r)
     /\ UNCHANGED registers

\* Candidates that are not read again.
Forget == write_candidate' = NoWrite /\ read_candidate' = NoRead /\ clock_pending' = FALSE

CommitTransition ==
  /\ mem' = LET c == write_candidate
            IN [mem EXCEPT ![c.index] =
                  [l \in Lanes |-> IF l \in c.enable THEN c.bits[l] ELSE @[l]]]
  /\ rdata' = [p \in Ports |-> read_candidate[p].q]
  /\ idle_current' = [p \in Ports |-> read_candidate[p].idle]
  /\ live_current' = [p \in Ports |-> read_candidate[p].live]
  /\ clock_current' = clock_pending

Commit(root_commit_ok) ==
  /\ IF pending_valid /\ root_commit_ok THEN CommitTransition ELSE UNCHANGED registers
  /\ pending_valid' = FALSE
  /\ Forget
  /\ UNCHANGED preparation_error

Discard ==
  /\ pending_valid' = FALSE /\ preparation_error' = FALSE
  /\ Forget
  /\ UNCHANGED registers

HostReset ==
  /\ Invalidate
  /\ clock_pending' = FALSE
  /\ preparation_error' = FALSE /\ pending_valid' = TRUE
  /\ UNCHANGED registers

local_error == preparation_error \/ ~pending_valid

=============================================================================
