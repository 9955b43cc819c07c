---------------------------- MODULE MemLockstep ----------------------------
(***************************************************************************)
(* The C++ and the Verilog memory on the same pins and under the same root *)
(***************************************************************************)
EXTENDS SyncMem

VARIABLES v_mem, v_rdata, v_idle, v_live, v_clock, v_pending_valid, v_error,
          v_write, v_read, v_clock_pending

Verilog == INSTANCE VerilogSyncMem WITH
  X <- Unknown, mem <- v_mem, rdata <- v_rdata, idle_current <- v_idle,
  live_current <- v_live, clock_current <- v_clock, pending_valid <- v_pending_valid,
  preparation_error <- v_error, write_candidate <- v_write, read_candidate <- v_read,
  clock_pending <- v_clock_pending

verilogVars == <<v_mem, v_rdata, v_idle, v_live, v_clock, v_pending_valid, v_error,
                 v_write, v_read, v_clock_pending>>

BothInit == Init /\ Verilog!Init

BothEvaluate(clk, rst, w, r) == Work(clk, rst, w, r) /\ Verilog!Prepare(clk, rst, w, r)

BothCommit == Xfer /\ Verilog!Commit(TRUE)

\* Another leaf refuses.
BothRefuse == Discard /\ Verilog!Commit(FALSE)

BothDiscard == Discard /\ Verilog!Discard

BothReset == Reset /\ Verilog!HostReset

BothNext ==
  /\ UNCHANGED shape
  /\ \/ \E i \in Pins : BothEvaluate(i.clk, i.rst, i.w, i.r)
     \/ BothCommit
     \/ BothRefuse
     \/ BothDiscard
     \/ BothReset

LockstepSpec == BothInit /\ [][BothNext]_<<vars, verilogVars>>

-----------------------------------------------------------------------------
(* Properties.                                                             *)

\* The kernel implements the memory with answers that expire, whatever the
\* four-state pins, discards and resets; a refused evaluation asks for nothing.
ImplementsMemory == Abstract!Spec

\* The leaf reports an error exactly when the kernel has thrown or nothing is
\* prepared.  Contents, answers and their lifetime agree in every committed
\* state, and an answer that has expired is unknown on both sides.
VerilogAgrees ==
  /\ pending.valid <=> ~Verilog!local_error
  /\ memory = v_mem
  /\ q = v_rdata /\ live = v_live
  /\ \A p \in Ports : live[p] <=> q[p] # Unknown

=============================================================================
