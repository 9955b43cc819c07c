---------------------------- MODULE VerilogFifo ----------------------------
(***************************************************************************)
(* The managed Verilog leaf of a queue lane (include/verilog/fifo.v with   *)
(* pyc_managed = 1): a root drives pyc_phase through PREPARE and COMMIT or *)
(* DISCARD, and through host Reset.  Registers are X until the first reset *)
(* is committed; a register of w bits wraps at 2^w.                        *)
(***************************************************************************)
EXTENDS Integers, FourState, BitWidth

CONSTANT X

VARIABLES shape,        \* DEPTH, LATENCY and READY_POLICY, which do not change
          initialized, clock_current,
          storage, rd, wr, count,
          deadline, tick, mature_ptr, eligible_count,
          pending_valid, preparation_error,
          candidate     \* candidate, timing_candidate and clock_pending

registers == <<initialized, clock_current, storage, rd, wr, count,
               deadline, tick, mature_ptr, eligible_count>>

Depth == shape.depth
Latency == shape.latency
DownstreamPop == shape.policy = "DownstreamPop"
Slots == 0 .. Depth - 1

CountModulus == Width[Depth]              \* COUNT_BITS
TimestampModulus == Width[Latency - 1]    \* TIMESTAMP_BITS = $clog2(Latency)
Delay == Latency - 1

Next1(ptr) == IF ptr = Depth - 1 THEN 0 ELSE ptr + 1
Count(n, up, down) == IF up = down THEN n
                      ELSE (IF up THEN n + 1 ELSE n - 1) % CountModulus

-----------------------------------------------------------------------------

out_valid == IF ~initialized THEN "x"
             ELSE Bit((IF Latency = 1 THEN count ELSE eligible_count) # 0)
do_pop(out_ready) == And(out_valid, out_ready)
in_ready(out_ready) ==
  IF ~initialized THEN "x"
  ELSE IF DownstreamPop THEN Or(Bit(count < Depth), do_pop(out_ready))
  ELSE Bit(count < Depth)
do_push(in_valid, out_ready) == And(in_valid, in_ready(out_ready))

Init ==
  /\ initialized = FALSE /\ clock_current = FALSE
  /\ storage = [s \in Slots |-> X] /\ deadline = [s \in Slots |-> X]
  /\ rd = X /\ wr = X /\ count = X
  /\ tick = X /\ mature_ptr = X /\ eligible_count = X
  /\ pending_valid = FALSE /\ preparation_error = FALSE
  /\ candidate = X

\* The candidate that leaves everything as it is.
Hold(clock) ==
  [initialized |-> initialized, rd |-> rd, wr |-> wr, count |-> count,
   write_token |-> FALSE, token |-> X, tick |-> tick, mature_ptr |-> mature_ptr,
   eligible_count |-> eligible_count, write_deadline |-> X, clock |-> clock]

ResetCandidate(clock) ==
  [Hold(clock) EXCEPT !.initialized = TRUE, !.rd = 0, !.wr = 0, !.count = 0,
                      !.tick = 0, !.mature_ptr = 0, !.eligible_count = 0]

\* next_base and next_timing at a rising edge of an initialised queue.
Transition(push, pop, token) ==
  LET now == (tick + 1) % TimestampModulus
      mature == /\ Latency > 1
                /\ count > eligible_count
                /\ deadline[mature_ptr] = now
  IN [Hold(TRUE) EXCEPT
        !.wr = IF push THEN Next1(wr) ELSE wr,
        !.rd = IF pop THEN Next1(rd) ELSE rd,
        !.count = Count(count, push, pop),
        !.write_token = push,
        !.token = IF push THEN token ELSE X,
        !.tick = now,
        !.mature_ptr = IF mature THEN Next1(mature_ptr) ELSE mature_ptr,
        !.eligible_count = IF Latency = 1 THEN eligible_count
                           ELSE Count(eligible_count, mature, pop),
        !.write_deadline = IF push THEN (now + Delay) % TimestampModulus ELSE X]

Rising(clk) == ~clock_current /\ clk = "1"

\* edge_control_error
ControlError(clk, rst, push, pop) ==
  clk = "x" \/ (Rising(clk) /\ (rst = "x" \/ (rst = "0" /\ (push = "x" \/ pop = "x"))))

\* PREPARE freezes the whole transaction.
Prepare(clk, rst, in_valid, in_data, out_ready) ==
  LET push == do_push(in_valid, out_ready)
      pop == do_pop(out_ready)
      error == ControlError(clk, rst, push, pop)
  IN /\ preparation_error' = error
     /\ pending_valid' = ~error
     /\ candidate' = IF error THEN Hold(clock_current)
                     ELSE IF ~Rising(clk) THEN Hold(clk = "1")
                     ELSE IF rst = "1" THEN ResetCandidate(TRUE)
                     ELSE IF initialized THEN Transition(push = "1", pop = "1", in_data)
                     ELSE Hold(TRUE)
     /\ UNCHANGED registers

\* commit_transition and the clock.
CommitTransition ==
  /\ initialized' = candidate.initialized
  /\ clock_current' = candidate.clock
  /\ rd' = candidate.rd /\ wr' = candidate.wr /\ count' = candidate.count
  /\ tick' = candidate.tick
  /\ mature_ptr' = candidate.mature_ptr
  /\ eligible_count' = candidate.eligible_count
  /\ storage' = IF candidate.write_token
                THEN [storage EXCEPT ![wr] = candidate.token] ELSE storage
  /\ deadline' = IF candidate.write_token
                 THEN [deadline EXCEPT ![wr] = candidate.write_deadline] ELSE deadline

\* Mutant: the root's permission is not asked for.
Commit_Unasked(root_commit_ok) ==
  /\ IF pending_valid THEN CommitTransition ELSE UNCHANGED registers
  /\ pending_valid' = FALSE
  /\ candidate' = X
  /\ UNCHANGED preparation_error

\* COMMIT transfers the frozen candidate if the root permits it; the candidate
\* is not read again.
Commit(root_commit_ok) ==
  /\ IF pending_valid /\ root_commit_ok THEN CommitTransition ELSE UNCHANGED registers
  /\ pending_valid' = FALSE
  /\ candidate' = X
  /\ UNCHANGED preparation_error

Discard ==
  /\ pending_valid' = FALSE /\ preparation_error' = FALSE
  /\ candidate' = X
  /\ UNCHANGED registers

HostReset ==
  /\ candidate' = ResetCandidate(FALSE)
  /\ pending_valid' = TRUE /\ preparation_error' = FALSE
  /\ UNCHANGED registers

local_error == preparation_error \/ ~pending_valid

=============================================================================
