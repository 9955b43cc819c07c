---------------------------- MODULE FifoLockstep ----------------------------
(***************************************************************************)
(* The C++ and the Verilog queue lane on the same pins and under the same  *)
(* root: each evaluation is committed on both sides or on neither.         *)
(***************************************************************************)
EXTENDS Fifo

VARIABLES v_initialized, v_clock, v_storage, v_rd, v_wr, v_count,
          v_deadline, v_tick, v_mature_ptr, v_eligible_count,
          v_pending_valid, v_error, v_candidate

Verilog == INSTANCE VerilogFifo WITH
  X <- Unknown,
  initialized <- v_initialized, clock_current <- v_clock, storage <- v_storage,
  rd <- v_rd, wr <- v_wr, count <- v_count, deadline <- v_deadline, tick <- v_tick,
  mature_ptr <- v_mature_ptr, eligible_count <- v_eligible_count,
  pending_valid <- v_pending_valid, preparation_error <- v_error,
  candidate <- v_candidate

bothVars == <<vars, v_initialized, v_clock, v_storage, v_rd, v_wr, v_count, v_deadline,
              v_tick, v_mature_ptr, v_eligible_count, v_pending_valid, v_error, v_candidate>>

BothInit == Init /\ Verilog!Init

BothEvaluate(clk, rst, in_valid, in_data, out_ready) ==
  /\ Work(clk, rst, in_valid, in_data, out_ready)
  /\ Verilog!Prepare(clk, rst, in_valid, in_data, out_ready)

BothCommit == Xfer /\ Verilog!Commit(TRUE)

\* Another leaf refuses.
BothRefuse == Discard /\ Verilog!Commit(FALSE)

BothDiscard == Discard /\ Verilog!Discard

BothReset == Reset /\ Verilog!HostReset

BothNext ==
  /\ UNCHANGED shape
  /\ \/ \E clk, rst, in_valid, out_ready \in Pin, in_data \in Payload :
          BothEvaluate(clk, rst, in_valid, in_data, out_ready)
     \/ BothCommit
     \/ BothRefuse
     \/ BothDiscard
     \/ BothReset

LockstepSpec == BothInit /\ [][BothNext]_bothVars

-----------------------------------------------------------------------------
(* Properties.                                                             *)

\* The two lanes accept and refuse the same evaluations: the leaf reports an
\* error exactly when the kernel has thrown or nothing is prepared.  Their pins
\* agree in every committed state, unknown ones included, for every value that
\* the consumer drives: a simulation and the RTL that is emitted from the same
\* design cannot be told apart at a queue.
VerilogAgrees ==
  /\ pending.valid <=> ~Verilog!local_error
  /\ readValid = Verilog!out_valid
  /\ \A r \in Pin : readReady(r) = Verilog!in_ready(r)
  /\ readValid = "1" => storage[rd] = v_storage[v_rd]

=============================================================================
