-------------------------------- MODULE Fifo --------------------------------
(***************************************************************************)
(* gfsim::fifo_kernel (include/gfsim/fifo.h): one queue lane of the C++    *)
(* simulation runtime.  Work prepares a transaction from the committed     *)
(* state and the four-state input pins; the system then either transfers   *)
(* or discards it.                                                         *)
(*                                                                         *)
(* Eligibility is kept as a count; deadlines are timestamps that wrap      *)
(* around at the least power of two above Latency - 1, and only the        *)
(* deadline of the oldest entry that is not eligible is compared.          *)
(***************************************************************************)
EXTENDS Integers, Sequences, FourState, BitWidth

CONSTANTS Tokens,      \* payloads
          Unknown,     \* a payload with unknown bits
          Shapes       \* instances of the template

\* Depth, AvailabilityLatency and Policy, the template's parameters.
ASSUME ShapesAssumption ==
  Shapes \subseteq [depth : Nat \ {0}, latency : Nat \ {0},
                    policy : {"LocalOccupancy", "DownstreamPop"}]

VARIABLES
  shape,                         \* the instance
  initialized, clock,            \* Current
  storage, rd, wr, count,
  deadline, tick, mature_ptr, eligible_count,   \* Current.timing, if Latency > 1
  pending                        \* Pending

ring   == <<storage, rd, wr, count>>
timing == <<deadline, tick, mature_ptr, eligible_count>>
vars == <<shape, initialized, clock, ring, timing, pending>>

Depth == shape.depth
Latency == shape.latency
DownstreamPop == shape.policy = "DownstreamPop"

Slots == 0 .. Depth - 1
Payload == Tokens \cup {Unknown}

\* 2^TimestampWidth
Modulus == Width[Latency - 1]
wrapTick(t) == t % Modulus

-----------------------------------------------------------------------------
(* Outputs, from committed state.                                          *)

eligibleCount == IF Latency = 1 THEN count ELSE eligible_count

readValid == IF initialized THEN Bit(eligibleCount # 0) ELSE "x"

readReady(out_ready) ==
  IF ~initialized THEN "x"
  ELSE IF DownstreamPop THEN Or(Bit(count < Depth), And(readValid, out_ready))
  ELSE Bit(count < Depth)

-----------------------------------------------------------------------------

\* discard(current, pending)
Discarded ==
  [valid |-> FALSE, clock |-> clock, reset |-> FALSE, push |-> FALSE, pop |-> FALSE,
   advance |-> FALSE, mature |-> FALSE, token |-> Unknown]

Init ==
  /\ shape \in Shapes
  /\ initialized = FALSE /\ clock = FALSE
  /\ storage = [s \in Slots |-> Unknown]
  /\ rd = 0 /\ wr = 0 /\ count = 0
  /\ deadline = [s \in Slots |-> 0]
  /\ tick = 0 /\ mature_ptr = 0 /\ eligible_count = 0
  /\ pending = Discarded

\* Only the deadline of the oldest entry that is not eligible is looked at.
Matures == count > eligible_count /\ deadline[mature_ptr] = wrapTick(tick + 1)

\* The transaction at a posedge without reset.
Transaction(in_valid, in_data, out_ready) ==
  LET pop == And(readValid, out_ready)
      push == And(in_valid, readReady(out_ready))
      timed == Latency > 1 /\ initialized
  IN IF push = "x" \/ pop = "x" THEN Discarded        \* throws
     ELSE [Discarded EXCEPT !.valid = TRUE, !.clock = TRUE,
             !.push = push = "1", !.pop = pop = "1",
             !.token = IF push = "1" THEN in_data ELSE Unknown,
             !.advance = timed,
             !.mature = timed /\ Matures]

Work(clk, rst, in_valid, in_data, out_ready) ==
  /\ pending' =
       IF clk = "x" THEN Discarded                    \* throws
       ELSE IF clock \/ clk = "0" THEN [Discarded EXCEPT !.valid = TRUE, !.clock = clk = "1"]
       ELSE IF rst = "x" THEN Discarded               \* throws
       ELSE IF rst = "1" THEN [Discarded EXCEPT !.valid = TRUE, !.clock = TRUE, !.reset = TRUE]
       ELSE Transaction(in_valid, in_data, out_ready)
  /\ UNCHANGED <<initialized, clock, ring, timing>>

Discard == pending' = Discarded /\ UNCHANGED <<initialized, clock, ring, timing>>

\* The host's Reset, followed by Xfer.
Reset ==
  /\ pending' = [Discarded EXCEPT !.valid = TRUE, !.reset = TRUE, !.clock = FALSE]
  /\ UNCHANGED <<initialized, clock, ring, timing>>

Succ(s) == IF s = Depth - 1 THEN 0 ELSE s + 1

Step(up, down, n) == IF up = down THEN n ELSE IF up THEN n + 1 ELSE n - 1

\* The deadline of an entry that is pushed in the cycle that starts at tick t.
DeadlineFrom(t) == wrapTick(t + (Latency - 1))

\* Mutant: the deadline counts from the tick before the edge.
XferTiming_OldTick ==
  /\ tick' = IF pending.advance THEN wrapTick(tick + 1) ELSE tick
  /\ mature_ptr' = IF pending.mature THEN Succ(mature_ptr) ELSE mature_ptr
  /\ eligible_count' = Step(pending.mature, pending.pop, eligible_count)
  /\ deadline' = IF pending.push THEN [deadline EXCEPT ![wr] = DeadlineFrom(tick)]
                 ELSE deadline

XferTiming ==
  IF Latency = 1 THEN UNCHANGED timing
  ELSE /\ tick' = IF pending.advance THEN wrapTick(tick + 1) ELSE tick
       /\ mature_ptr' = IF pending.mature THEN Succ(mature_ptr) ELSE mature_ptr
       /\ eligible_count' = Step(pending.mature, pending.pop, eligible_count)
       /\ deadline' = IF pending.push THEN [deadline EXCEPT ![wr] = DeadlineFrom(tick')]
                      ELSE deadline

XferRing ==
  /\ storage' = IF pending.push THEN [storage EXCEPT ![wr] = pending.token] ELSE storage
  /\ wr' = IF pending.push THEN Succ(wr) ELSE wr
  /\ rd' = IF pending.pop THEN Succ(rd) ELSE rd
  /\ count' = Step(pending.push, pending.pop, count)

Xfer ==
  /\ pending.valid
  /\ clock' = pending.clock
  /\ pending' = Discarded'
  /\ IF pending.reset
     THEN /\ initialized' = TRUE
          /\ rd' = 0 /\ wr' = 0 /\ count' = 0
          /\ tick' = 0 /\ mature_ptr' = 0 /\ eligible_count' = 0
          /\ UNCHANGED <<storage, deadline>>
     ELSE IF initialized
     THEN XferTiming /\ XferRing /\ UNCHANGED initialized
     ELSE UNCHANGED <<initialized, ring, timing>>

Next ==
  /\ UNCHANGED shape
  /\ \/ \E clk, rst, in_valid, out_ready \in Pin, in_data \in Payload :
          Work(clk, rst, in_valid, in_data, out_ready)
     \/ Discard
     \/ Reset
     \/ Xfer

Spec == Init /\ [][Next]_vars

-----------------------------------------------------------------------------
(* Properties.                                                             *)

\* The slot of the i-th oldest entry and the edges it still has to wait.
SlotOf(i) == (rd + i - 1) % Depth
Wait(i) == IF i <= eligibleCount THEN 0 ELSE (deadline[SlotOf(i)] - tick) % Modulus

Contents == [i \in 1 .. count |-> [token |-> storage[SlotOf(i)], left |-> Wait(i)]]

Abstract == INSTANCE LatencyQueue WITH on <- initialized, q <- Contents, Tokens <- Payload

\* A lane with wrapping timestamps implements the latency queue: no token is
\* lost, duplicated, reordered, released early or held back, through any number
\* of timestamp wraps, discarded transactions and resets.
ImplementsQueue == Abstract!Spec

=============================================================================
