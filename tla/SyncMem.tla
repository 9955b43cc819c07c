------------------------------- MODULE SyncMem -------------------------------
(***************************************************************************)
(* gfsim::sync_mem_kernel (include/gfsim/sync_mem.h): a memory with one    *)
(* write port and one or two read ports.  Reads sample the contents before *)
(* the edge; a response expires at the second rising edge without a read;  *)
(* reset invalidates responses and keeps the contents.                     *)
(*                                                                         *)
(* An entry is a function from byte lanes to values.                       *)
(***************************************************************************)
EXTENDS Integers, FourState

CONSTANTS Values,      \* of a byte lane
          Zero,        \* the value zero
          Unknown,     \* unknown bits, on a pin or in a response
          Shapes       \* instances of the template: entries, byte lanes, read ports

ASSUME ShapesAssumption ==
  /\ Zero \in Values
  /\ Shapes \subseteq [depth : Nat \ {0}, lanes : Nat \ {0}, ports : {1, 2}]
  /\ \A s \in Shapes : Unknown \notin [1 .. s.lanes -> Values]

VARIABLES
  shape,
  memory, q, live, idle, clock,   \* Current
  pending,                        \* Pending
  request                         \* history: the accesses that pending stands for, if any

contents == <<memory, q, live, idle, clock>>
vars == <<shape, contents, pending, request>>

Depth == shape.depth
Lanes == 1 .. shape.lanes
Ports == 1 .. shape.ports
Addresses == 0 .. Depth - 1
Word == [Lanes -> Values]

\* What a pin may carry: Depth stands for every address out of range.
AddressPin == 0 .. Depth \cup {Unknown}
WordPin == Word \cup {Unknown}
StrobePin == (SUBSET Lanes) \cup {Unknown}

ZeroWord == [l \in Lanes |-> Zero]

\* discard(current, pending); pending.q is read only after a read or an invalidation.
Discarded ==
  [valid |-> FALSE, clock |-> clock, write |-> FALSE, address |-> 0, data |-> ZeroWord,
   read |-> [p \in Ports |-> FALSE], invalidate |-> [p \in Ports |-> FALSE],
   idle |-> idle, q |-> [p \in Ports |-> Unknown]]

Init ==
  /\ shape \in Shapes
  /\ memory = [a \in Addresses |-> ZeroWord]
  /\ q = [p \in Ports |-> Unknown]
  /\ live = [p \in Ports |-> FALSE]
  /\ idle = [p \in Ports |-> 0]
  /\ clock = FALSE
  /\ pending = Discarded /\ request = {}

\* invalidate(pending)
Invalidated(c) ==
  [Discarded EXCEPT !.valid = TRUE, !.clock = c,
     !.invalidate = [p \in Ports |-> TRUE], !.idle = [p \in Ports |-> 0]]

\* memory_strobe
Masked(old, new, strobe) == [l \in Lanes |-> IF l \in strobe THEN new[l] ELSE old[l]]

\* What the entry reads as; addresses beyond the end read as zero.
Entry(a) == IF a < Depth THEN memory[a] ELSE ZeroWord

\* Controls are known, and what an enabled port needs is too.
EdgeKnown(w, r) ==
  /\ w.valid # "x" /\ \A p \in Ports : r[p].en # "x"
  /\ w.valid = "1" => w.addr # Unknown /\ w.data # Unknown /\ w.strb # Unknown
  /\ \A p \in Ports : r[p].en = "1" => r[p].addr # Unknown

\* Mutant: a read does not start a new count.
Waited_NoRestart(p, read) == IF live[p] THEN idle[p] + 1 ELSE idle[p]

\* Edges without a read that the answer of the port has seen.
Waited(p, read) == IF read THEN 0 ELSE IF live[p] THEN idle[p] + 1 ELSE idle[p]

\* A posedge without reset.
Transaction(w, r) ==
  LET write == w.valid = "1" /\ w.addr < Depth
      read == [p \in Ports |-> r[p].en = "1"]
      wait == [p \in Ports |-> Waited(p, read[p])]
  IN [Discarded EXCEPT !.valid = TRUE, !.clock = TRUE,
        !.write = write,
        !.address = IF write THEN w.addr ELSE 0,
        !.data = IF write THEN Masked(memory[w.addr], w.data, w.strb) ELSE ZeroWord,
        !.read = read,
        !.idle = wait,
        !.invalidate = [p \in Ports |-> ~read[p] /\ live[p] /\ wait[p] >= 2],
        !.q = [p \in Ports |-> IF read[p] THEN Entry(r[p].addr) ELSE Unknown]]

\* A posedge without reset that is not refused.
Accesses(clk, rst, w, r) == ~clock /\ clk = "1" /\ rst = "0" /\ EdgeKnown(w, r)

Work(clk, rst, w, r) ==
  /\ pending' =
       IF clk = "x" THEN Discarded                    \* throws
       ELSE IF clock \/ clk = "0" THEN [Discarded EXCEPT !.valid = TRUE, !.clock = clk = "1"]
       ELSE IF rst = "x" THEN Discarded               \* throws
       ELSE IF rst = "1" THEN Invalidated(TRUE)
       ELSE IF EdgeKnown(w, r) THEN Transaction(w, r)
       ELSE Discarded                                 \* throws
  /\ request' = IF Accesses(clk, rst, w, r) THEN {[w |-> w, r |-> r]} ELSE {}
  /\ UNCHANGED contents

Discard == pending' = Discarded /\ request' = {} /\ UNCHANGED contents

\* The host's Reset, followed by Xfer.
Reset == pending' = Invalidated(FALSE) /\ request' = {} /\ UNCHANGED contents

Xfer ==
  /\ pending.valid
  /\ clock' = pending.clock
  /\ memory' = IF pending.write THEN [memory EXCEPT ![pending.address] = pending.data]
               ELSE memory
  /\ q' = [p \in Ports |-> IF pending.read[p] \/ pending.invalidate[p]
                           THEN pending.q[p] ELSE q[p]]
  /\ live' = [p \in Ports |-> IF pending.read[p] \/ pending.invalidate[p]
                              THEN pending.read[p] ELSE live[p]]
  /\ idle' = pending.idle
  /\ pending' = Discarded'
  /\ request' = {}

\* The pins of an evaluation.  Those that are not looked at are left unknown:
\* the operands of a port that is not enabled, and all ports unless clk is high
\* and rst is low.
WritePins ==
  [valid : {"0", "x"}, addr : {Unknown}, data : {Unknown}, strb : {Unknown}]
    \cup [valid : {"1"}, addr : AddressPin, data : WordPin, strb : StrobePin]
ReadPins == [en : {"0", "x"}, addr : {Unknown}] \cup [en : {"1"}, addr : AddressPin]
Pins ==
  [clk : Pin, rst : Pin,
   w : {[valid |-> "x", addr |-> Unknown, data |-> Unknown, strb |-> Unknown]},
   r : {[p \in Ports |-> [en |-> "x", addr |-> Unknown]]}]
    \cup [clk : {"1"}, rst : {"0"}, w : WritePins, r : [Ports -> ReadPins]]

Next ==
  /\ UNCHANGED shape
  /\ \/ \E i \in Pins : Work(i.clk, i.rst, i.w, i.r)
     \/ Discard
     \/ Reset
     \/ Xfer

Spec == Init /\ [][Next]_vars

-----------------------------------------------------------------------------
(* Properties.                                                             *)

Response == [p \in Ports |-> IF live[p] THEN {[data |-> q[p], age |-> idle[p]]} ELSE {}]

Abstract == INSTANCE ResponseMemory WITH mem <- memory, answer <- Response

=============================================================================
