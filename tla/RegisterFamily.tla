--------------------------- MODULE RegisterFamily ---------------------------
(***************************************************************************)
(* Families of registers of the C++ runtime: dffe_kernel (gfsim/dff.h)     *)
(* under collection_storage (gfsim/collection.h).  An owner evaluates the  *)
(* lanes of its family one after the other; the family is then transferred *)
(* or discarded.                                                           *)
(***************************************************************************)
EXTENDS Integers, Sequences, FourState

CONSTANTS Size,       \* size() of every collection_storage
          Data,       \* payloads without unknown bits
          Unknown     \* a payload with unknown bits

ASSUME SizeAssumption == Size \in Seq(Nat \ {0}) /\ Len(Size) > 0

Families == DOMAIN Size
Lanes(f) == 1 .. Size[f]
Payload == Data \cup {Unknown}

VARIABLES current, pending,           \* current_[lane], pending_[lane]
          completed, completedCount   \* completed_, as a set of lanes, and completedCount_

-----------------------------------------------------------------------------
(* dffe_kernel, on the state of one lane.                                  *)

Discarded(c) == [q |-> c.q, clock |-> c.clock, valid |-> FALSE]

\* evaluateSampledClock
Rising(c, clk) == ~c.clock /\ clk = "1"

\* work throws: an unknown clock, or an unknown reset or enable at an edge.
Throws(c, clk, rst, p) ==
  clk = "x" \/ (Rising(c, clk) /\ (rst = "x" \/ (rst = "0" /\ p.en = "x")))

Worked(c, clk, rst, p) ==
  [valid |-> TRUE, clock |-> clk = "1",
   q |-> IF ~Rising(c, clk) THEN c.q
         ELSE IF rst = "1" THEN p.init ELSE IF p.en = "1" THEN p.d ELSE c.q]

\* Mutant: reset leaves the sampled clock high, which hides the next edge.
ResetTo_High(p) == [valid |-> TRUE, clock |-> TRUE, q |-> p.init]

ResetTo(p) == [valid |-> TRUE, clock |-> FALSE, q |-> p.init]

\* xfer: a lane without a valid evaluation keeps its state.
Transferred(c, n) == IF n.valid THEN [q |-> n.q, clock |-> n.clock] ELSE c

-----------------------------------------------------------------------------
(* collection_storage.                                                     *)

InitFamilies ==
  /\ current = [f \in Families |-> [l \in Lanes(f) |-> [q |-> Unknown, clock |-> FALSE]]]
  /\ pending = [f \in Families |-> [l \in Lanes(f) |-> Discarded(current[f][l])]]
  /\ completed = [f \in Families |-> {}]
  /\ completedCount = [f \in Families |-> 0]

\* discard() of the families in S, over the state that their lanes have now.
discard(S) ==
  /\ pending' = [f \in Families |-> IF f \in S THEN [l \in Lanes(f) |-> Discarded(current'[f][l])]
                                    ELSE pending[f]]
  /\ completed' = [f \in Families |-> IF f \in S THEN {} ELSE completed[f]]
  /\ completedCount' = [f \in Families |-> IF f \in S THEN 0 ELSE completedCount[f]]

\* work(lane, ...): when the kernel throws, the whole family is discarded.
WorkThrows(f) == UNCHANGED current /\ discard({f})

work(f, l, clk, rst, p) ==
  /\ pending' = [pending EXCEPT ![f][l] = Worked(current[f][l], clk, rst, p)]
  /\ completed' = [completed EXCEPT ![f] = @ \cup {l}]
  /\ completedCount' = IF l \in completed[f] THEN completedCount
                       ELSE [completedCount EXCEPT ![f] = @ + 1]
  /\ UNCHANGED current

\* xfer of every family: only a whole family moves, and all of its lanes do.
xfer ==
  /\ current' = [f \in Families |->
                   IF completedCount[f] = Size[f]
                   THEN [l \in Lanes(f) |-> Transferred(current[f][l], pending[f][l])]
                   ELSE current[f]]
  /\ discard(Families)

\* reset of every family and the xfer that follows it.
reset(init) ==
  /\ current' = [f \in Families |->
                   [l \in Lanes(f) |->
                      Transferred(current[f][l], ResetTo([init |-> init[f][l]]))]]
  /\ discard(Families)

=============================================================================
