----------------------------- MODULE QueueProofs -----------------------------
(***************************************************************************)
(* Proofs about the queue lane of module Fifo and its Verilog leaf, for    *)
(* any depth, latency, policy and payload.  What a width or a ring of any  *)
(* size does is shown by induction over the naturals, as the absence of a  *)
(* least counterexample.                                                   *)
(***************************************************************************)
EXTENDS FifoLockstep, WellFoundedInduction, SequenceTheorems, TLAPS

\* Every nonempty set of natural numbers has a least element.
LEMMA LeastExists ==
  ASSUME NEW F \in SUBSET Nat, F # {}
  PROVE  \E m \in F : \A i \in F : m <= i
<1> DEFINE R == {s \in Nat \X Nat : s[1] < s[2]}
<1>1. IsWellFoundedOn(R, Nat)
  BY NatLessThanWellFounded, Zenon DEF OpToRel
<1>2. \A i, m \in Nat : <<i, m>> \notin R => m <= i
  OBVIOUS
<1> HIDE DEF R
<1>3. PICK m \in F : \A i \in F : <<i, m>> \notin R
  BY <1>1, WFMin, Zenon
<1> QED
  BY <1>2, <1>3, Zenon

\* g satisfies the equation of Width up to n.
WidthUpTo(g, n) ==
  /\ g \in [0 .. n -> Nat]
  /\ \A i \in 0 .. n : g[i] = IF i = 0 THEN 1 ELSE 2 * g[i \div 2]

\* Halving a positive number gives a smaller one, and loses at most one.
LEMMA Half ==
  ASSUME NEW n \in Nat, n # 0
  PROVE  n \div 2 \in 0 .. (n - 1) /\ n < 2 * (n \div 2) + 2
OBVIOUS

\* Two functions that satisfy the equation agree where both are defined.
LEMMA WidthUnique ==
  ASSUME NEW m \in Nat, NEW n \in Nat, NEW g, NEW h, WidthUpTo(g, m), WidthUpTo(h, n)
  PROVE  \A i \in Nat : i <= m /\ i <= n => g[i] = h[i]
<1> DEFINE Differ == {i \in Nat : i <= m /\ i <= n /\ g[i] # h[i]}
<1> SUFFICES ASSUME Differ # {} PROVE FALSE
  BY Zenon
<1>1. PICK i \in Differ : \A j \in Differ : i <= j
  <2>1. Differ \in SUBSET Nat
    BY Zenon
  <2> HIDE DEF Differ
  <2> QED BY <2>1, LeastExists, Zenon
<1>2. i \in Nat /\ i <= m /\ i <= n /\ g[i] # h[i]
  BY <1>1, Zenon
<1>3. i # 0
  BY <1>2 DEF WidthUpTo
<1>4. i \div 2 \in Nat /\ i \div 2 < i
  BY <1>2, <1>3, Half
<1>5. i \div 2 \notin Differ
  <2>1. ~(i <= i \div 2)
    BY <1>2, <1>4
  <2> HIDE DEF Differ
  <2> QED BY <1>1, <2>1, Zenon
<1>6. g[i \div 2] = h[i \div 2]
  BY <1>2, <1>4, <1>5
<1>7. g[i] = 2 * g[i \div 2] /\ h[i] = 2 * h[i \div 2]
  BY <1>2, <1>3 DEF WidthUpTo
<1> QED BY <1>2, <1>6, <1>7, Zenon

\* There is one up to every n.
LEMMA WidthUpToExists ==
  \A n \in Nat : \E g : WidthUpTo(g, n)
<1> DEFINE Without == {n \in Nat : ~\E g : WidthUpTo(g, n)}
<1> SUFFICES ASSUME Without # {} PROVE FALSE
  BY Zenon
<1>1. PICK n \in Without : \A k \in Without : n <= k
  <2>1. Without \in SUBSET Nat
    BY Zenon
  <2> HIDE DEF Without
  <2> QED BY <2>1, LeastExists, Zenon
<1>2. n \in Nat /\ ~\E g : WidthUpTo(g, n)
  BY <1>1, Zenon
<1>3. n # 0
  <2>1. WidthUpTo([i \in 0 .. 0 |-> 1], 0)
    BY DEF WidthUpTo
  <2> QED BY <1>2, <2>1, Zenon
<1>4. PICK g : WidthUpTo(g, n - 1)
  <2>1. n - 1 \in Nat /\ ~(n <= n - 1)
    BY <1>2, <1>3
  <2>2. n - 1 \notin Without
    <3> HIDE DEF Without
    <3> QED BY <1>1, <2>1, Zenon
  <2> QED BY <2>1, <2>2, Zenon
<1>5. n \div 2 \in 0 .. (n - 1)
  BY <1>2, <1>3, Half, Zenon
<1> DEFINE h == [i \in 0 .. n |-> IF i = n THEN 2 * g[n \div 2] ELSE g[i]]
<1>6. h \in [0 .. n -> Nat]
  BY <1>2, <1>3, <1>4, <1>5 DEF WidthUpTo
<1>7. ASSUME NEW i \in 0 .. n PROVE h[i] = IF i = 0 THEN 1 ELSE 2 * h[i \div 2]
  <2>1. CASE i = n
    BY <1>2, <1>3, <1>5, <2>1
  <2>2. CASE i # n
    <3>1. i \in 0 .. (n - 1) /\ h[i] = g[i]
      BY <1>2, <2>2
    <3>2. i # 0 => i \div 2 \in 0 .. (n - 1) /\ i \div 2 # n
      BY <1>2, <3>1, Half
    <3>3. i # 0 => h[i \div 2] = g[i \div 2]
      BY <1>2, <3>2
    <3>4. g[i] = IF i = 0 THEN 1 ELSE 2 * g[i \div 2]
      BY <1>4, <3>1, Zenon DEF WidthUpTo
    <3> QED BY <3>1, <3>3, <3>4, Zenon
  <2> QED BY <2>1, <2>2, Zenon
<1>8. WidthUpTo(h, n)
  BY <1>6, <1>7, Zenon DEF WidthUpTo
<1> QED BY <1>2, <1>8, Zenon

\* The equation of Width has a solution, so Width is one.
LEMMA WidthEquation ==
  ASSUME NEW n \in Nat
  PROVE  Width[n] = IF n = 0 THEN 1 ELSE 2 * Width[n \div 2]
<1> DEFINE G(k) == CHOOSE g : WidthUpTo(g, k)
           W == [k \in Nat |-> G(k)[k]]
<1>1. ASSUME NEW k \in Nat PROVE WidthUpTo(G(k), k)
  BY WidthUpToExists, Zenon
<1>2. ASSUME NEW k \in Nat PROVE W[k] = IF k = 0 THEN 1 ELSE 2 * W[k \div 2]
  <2>1. G(k)[k] = IF k = 0 THEN 1 ELSE 2 * G(k)[k \div 2]
    <3> HIDE DEF G
    <3>1. k \in 0 .. k
      OBVIOUS
    <3> QED BY <1>1, <3>1, Zenon DEF WidthUpTo
  <2>2. ASSUME k # 0 PROVE G(k)[k \div 2] = G(k \div 2)[k \div 2]
    <3>1. k \div 2 \in Nat /\ k \div 2 <= k /\ k \div 2 <= k \div 2
      BY <2>2, Half
    <3> HIDE DEF G
    <3> QED BY <1>1, <3>1, WidthUnique
  <2>3. k # 0 => k \div 2 \in Nat
    BY Half
  <2> HIDE DEF G
  <2> QED BY <2>1, <2>2, <2>3, Zenon
<1>3. W = [k \in Nat |-> IF k = 0 THEN 1 ELSE 2 * W[k \div 2]]
  <2>1. W = [k \in Nat |-> W[k]]
    OBVIOUS
  <2> HIDE DEF W
  <2> QED BY <1>2, <2>1, Zenon
<1>4. \E f : f = [k \in Nat |-> IF k = 0 THEN 1 ELSE 2 * f[k \div 2]]
  BY <1>3, Zenon
<1>5. Width = [k \in Nat |-> IF k = 0 THEN 1 ELSE 2 * Width[k \div 2]]
  BY <1>4, Zenon DEF Width
<1> QED BY <1>5, Zenon

\* A register of Width[n] values holds n.
LEMMA WidthHolds ==
  \A n \in Nat : Width[n] \in Nat /\ n < Width[n]
<1> DEFINE Bad == {n \in Nat : ~(Width[n] \in Nat /\ n < Width[n])}
<1> SUFFICES ASSUME Bad # {} PROVE FALSE
  BY Zenon
<1>1. PICK n \in Bad : \A k \in Bad : n <= k
  <2>1. Bad \in SUBSET Nat
    BY Zenon
  <2> HIDE DEF Bad
  <2> QED BY <2>1, LeastExists, Zenon
<1>2. n \in Nat /\ ~(Width[n] \in Nat /\ n < Width[n])
  BY <1>1, Zenon
<1>3. n # 0
  BY <1>2, WidthEquation
<1>4. n \div 2 \in Nat /\ ~(n <= n \div 2) /\ n < 2 * (n \div 2) + 2
  BY <1>2, <1>3, Half
<1>5. n \div 2 \notin Bad
  <2> HIDE DEF Bad
  <2> QED BY <1>1, <1>4, Zenon
<1>6. Width[n \div 2] \in Nat /\ n \div 2 < Width[n \div 2]
  BY <1>4, <1>5, Zenon
<1>7. Width[n] = 2 * Width[n \div 2]
  BY <1>2, <1>3, WidthEquation, Zenon
<1> QED BY <1>2, <1>4, <1>6, <1>7

\* The ticks until the entry at position i of the ring becomes eligible.
Waiting(i) == (deadline[SlotOf(i)] - tick) % Modulus

\* The lane's registers.
LaneTyped ==
  /\ shape \in [depth : Nat \ {0}, latency : Nat \ {0},
                policy : {"LocalOccupancy", "DownstreamPop"}]
  /\ initialized \in BOOLEAN /\ clock \in BOOLEAN
  /\ storage \in [Slots -> Payload] /\ deadline \in [Slots -> 0 .. Modulus - 1]
  /\ rd \in Slots /\ wr \in Slots /\ mature_ptr \in Slots
  /\ count \in 0 .. Depth /\ eligible_count \in 0 .. count
  /\ tick \in 0 .. Modulus - 1

\* The entries lie in the ring from rd to wr, the first that is not eligible at mature_ptr.
RingInv ==
  /\ wr = SlotOf(count + 1)
  /\ IF Latency = 1 THEN eligible_count = 0 ELSE mature_ptr = SlotOf(eligible_count + 1)
  /\ ~initialized => count = 0

\* No deadline has been passed, and they are in the order of the entries.
TimingInv ==
  Latency > 1 =>
    /\ \A i \in eligible_count + 1 .. count : Waiting(i) \in 1 .. Latency - 1
    /\ \A i, j \in eligible_count + 1 .. count : i < j => Waiting(i) < Waiting(j)

\* The form of a prepared transaction.
PendingTyped ==
  pending \in [valid : BOOLEAN, clock : BOOLEAN, reset : BOOLEAN, push : BOOLEAN,
               pop : BOOLEAN, advance : BOOLEAN, mature : BOOLEAN, token : Payload]

\* What is prepared still fits the state that it was prepared from.
PendingInv ==
  /\ PendingTyped
  /\ pending.push \/ pending.pop \/ pending.advance => initialized
  /\ pending.pop => eligibleCount # 0
  /\ pending.push => count < Depth \/ (DownstreamPop /\ pending.pop)
  /\ pending.advance => Latency > 1
  /\ Latency > 1 /\ (pending.push \/ pending.pop) => pending.advance
  /\ pending.mature = (pending.advance /\ Matures)

\* The inductive invariant of one lane.
LaneInv == LaneTyped /\ RingInv /\ TimingInv /\ PendingInv

\* The leaf and the kernel hold the same registers, as far as they are known.
SameLane ==
  /\ v_initialized = initialized /\ v_clock = clock
  /\ v_storage = storage
  /\ DOMAIN v_deadline = Slots
  /\ initialized => v_rd = rd /\ v_wr = wr /\ v_count = count
  /\ initialized /\ Latency > 1 =>
       /\ v_tick = tick /\ v_mature_ptr = mature_ptr /\ v_eligible_count = eligible_count
       /\ \A i \in eligible_count + 1 .. count : v_deadline[SlotOf(i)] = deadline[SlotOf(i)]

\* The leaf's candidate is the outcome of what the kernel has prepared.
CandidateInv(c, t) ==
  /\ c.clock = t.clock
  /\ c.initialized = (initialized \/ t.reset)
  /\ t.reset =>
       /\ c.rd = 0 /\ c.wr = 0 /\ c.count = 0 /\ ~c.write_token
       /\ c.tick = 0 /\ c.mature_ptr = 0 /\ c.eligible_count = 0
  /\ ~t.reset =>
       /\ c.write_token = t.push
       /\ t.push => c.token = t.token
  /\ ~t.reset /\ initialized =>
       /\ c.rd = IF t.pop THEN Succ(rd) ELSE rd
       /\ c.wr = IF t.push THEN Succ(wr) ELSE wr
       /\ c.count = Step(t.push, t.pop, count)
  /\ ~t.reset /\ initialized /\ Latency > 1 =>
       /\ c.tick = IF t.advance THEN wrapTick(tick + 1) ELSE tick
       /\ c.mature_ptr = IF t.mature THEN Succ(mature_ptr) ELSE mature_ptr
       /\ c.eligible_count = Step(t.mature, t.pop, eligible_count)
       /\ t.push => c.write_deadline = DeadlineFrom(c.tick)

\* The kernel and the leaf have both prepared a transition or both have none.
PreparedAlike ==
  /\ v_error \in BOOLEAN /\ v_pending_valid \in BOOLEAN
  /\ v_pending_valid => ~v_error
  /\ pending.valid = v_pending_valid
  /\ pending.valid => CandidateInv(v_candidate, pending)

\* The inductive invariant of the kernel and the leaf side by side.
LockstepInv == LaneInv /\ SameLane /\ PreparedAlike

-----------------------------------------------------------------------------
(* Positions in a ring of d slots and timestamps that wrap at m.           *)

\* The k-th slot after r.
LEMMA RingPosition ==
  ASSUME NEW d \in Nat \ {0}, NEW r \in 0 .. d - 1, NEW k \in 0 .. d
  PROVE  /\ (r + k) % d \in 0 .. d - 1
         /\ (r + k) % d = IF r + k < d THEN r + k ELSE r + k - d
<1>1. CASE r + k < d
  BY <1>1
<1>2. CASE r + k >= d
  BY <1>2
<1> QED BY <1>1, <1>2

\* The slot after the k-th one, and the k-th one seen from the next start.
LEMMA RingSuccessor ==
  ASSUME NEW d \in Nat \ {0}, NEW r \in 0 .. d - 1, NEW k \in 0 .. d - 1
  PROVE  /\ (IF (r + k) % d = d - 1 THEN 0 ELSE ((r + k) % d) + 1) = (r + (k + 1)) % d
         /\ ((IF r = d - 1 THEN 0 ELSE r + 1) + k) % d = (r + (k + 1)) % d
<1> DEFINE s == IF r = d - 1 THEN 0 ELSE r + 1
<1>1. /\ s \in 0 .. d - 1 /\ k \in 0 .. d /\ k + 1 \in 0 .. d
  OBVIOUS
<1>2. (r + k) % d = IF r + k < d THEN r + k ELSE r + k - d
  BY <1>1, RingPosition, Zenon
<1>3. (r + (k + 1)) % d = IF r + (k + 1) < d THEN r + (k + 1) ELSE r + (k + 1) - d
  BY <1>1, RingPosition, Zenon
<1>4. (s + k) % d = IF s + k < d THEN s + k ELSE s + k - d
  <2> HIDE DEF s
  <2> QED BY <1>1, RingPosition, Zenon
<1>5. (IF (r + k) % d = d - 1 THEN 0 ELSE ((r + k) % d) + 1) = (r + (k + 1)) % d
  BY <1>2, <1>3
<1>6. (s + k) % d = (r + (k + 1)) % d
  BY <1>3, <1>4
<1> QED BY <1>5, <1>6, Zenon

\* Fewer than d steps apart, the slots of a ring differ.
LEMMA RingDistinct ==
  ASSUME NEW d \in Nat \ {0}, NEW r \in 0 .. d - 1, NEW j \in 0 .. d, NEW k \in 0 .. d,
         j < k, k < d \/ j # 0
  PROVE  (r + j) % d # (r + k) % d
<1>1. (r + j) % d = IF r + j < d THEN r + j ELSE r + j - d
  BY RingPosition, Zenon
<1>2. (r + k) % d = IF r + k < d THEN r + k ELSE r + k - d
  BY RingPosition, Zenon
<1> QED BY <1>1, <1>2

\* One tick later an entry waits one tick less, and it is due when it waited one.
LEMMA TickPassed ==
  ASSUME NEW m \in Nat, 1 < m, NEW e \in 0 .. m - 1, NEW t \in 0 .. m - 1
  PROVE  /\ (t + 1) % m \in 0 .. m - 1
         /\ (e - t) % m \in 0 .. m - 1
         /\ (e - t) % m # 0 => (e - ((t + 1) % m)) % m = ((e - t) % m) - 1
         /\ (e = (t + 1) % m) <=> ((e - t) % m = 1)
<1>1. (t + 1) % m = IF t = m - 1 THEN 0 ELSE t + 1
  OBVIOUS
<1>2. (e - t) % m = IF e >= t THEN e - t ELSE e - t + m
  <2>1. CASE e >= t BY <2>1
  <2>2. CASE e < t BY <2>2
  <2> QED BY <2>1, <2>2
<1>3. ASSUME NEW u \in 0 .. m - 1
      PROVE  (e - u) % m = IF e >= u THEN e - u ELSE e - u + m
  <2>1. CASE e >= u BY <2>1
  <2>2. CASE e < u BY <2>2
  <2> QED BY <2>1, <2>2
<1>4. (t + 1) % m \in 0 .. m - 1
  BY <1>1
<1>5. (e - ((t + 1) % m)) % m
        = IF e >= (t + 1) % m THEN e - ((t + 1) % m) ELSE e - ((t + 1) % m) + m
  BY <1>3, <1>4, Zenon
<1>6. (e - t) % m # 0 => (e - ((t + 1) % m)) % m = ((e - t) % m) - 1
  BY <1>1, <1>2, <1>5
<1>7. (e = (t + 1) % m) <=> ((e - t) % m = 1)
  BY <1>1, <1>2
<1> QED BY <1>2, <1>4, <1>6, <1>7

\* A timestamp l ticks ahead of t is at distance l from it, although both wrap.
LEMMA TickAhead ==
  ASSUME NEW m \in Nat, NEW l \in 1 .. m - 1, NEW t \in 0 .. m - 1
  PROVE  (t + l) % m \in 0 .. m - 1 /\ (((t + l) % m) - t) % m = l
<1>1. (t + l) % m = IF t + l < m THEN t + l ELSE t + l - m
  <2>1. CASE t + l < m BY <2>1
  <2>2. CASE t + l >= m BY <2>2
  <2> QED BY <2>1, <2>2
<1> DEFINE e == (t + l) % m
<1>2. e \in 0 .. m - 1
  BY <1>1
<1>3. (e - t) % m = IF e >= t THEN e - t ELSE e - t + m
  <2> HIDE DEF e
  <2>1. CASE e >= t BY <1>2, <2>1
  <2>2. CASE e < t BY <1>2, <2>2
  <2> QED BY <1>2, <2>1, <2>2
<1> QED BY <1>1, <1>2, <1>3

\* The numbers of a lane.
LEMMA LaneNumbers ==
  ASSUME LaneTyped
  PROVE  /\ Depth \in Nat \ {0} /\ Latency \in Nat \ {0}
         /\ Modulus \in Nat /\ Latency <= Modulus
         /\ rd \in 0 .. Depth - 1 /\ count \in Nat /\ count <= Depth
         /\ eligible_count \in Nat /\ eligible_count <= count
         /\ tick \in 0 .. Modulus - 1
<1>1. Depth \in Nat \ {0} /\ Latency \in Nat \ {0}
  BY Zenon DEF LaneTyped, Depth, Latency
<1>2. Width[Latency - 1] \in Nat /\ Latency - 1 < Width[Latency - 1]
  BY <1>1, WidthHolds
<1> QED BY <1>1, <1>2 DEF LaneTyped, Slots, Modulus

\* The slot of an entry is one of the ring.
LEMMA SlotPosition ==
  ASSUME LaneTyped, NEW i \in 1 .. Depth + 1
  PROVE  SlotOf(i) = (rd + (i - 1)) % Depth /\ SlotOf(i) \in Slots
<1>1. Depth \in Nat \ {0} /\ rd \in 0 .. Depth - 1
  BY LaneNumbers, Zenon
<1>2. i - 1 \in 0 .. Depth
  BY <1>1
<1>3. SlotOf(i) = (rd + (i - 1)) % Depth
  BY Zenon DEF SlotOf
<1>4. (rd + (i - 1)) % Depth \in 0 .. Depth - 1
  BY <1>1, <1>2, RingPosition, Zenon
<1> QED BY <1>3, <1>4, Zenon DEF Slots

\* Two entries of the ring have two slots.
LEMMA SlotsDistinct ==
  ASSUME LaneTyped, NEW i \in 1 .. Depth + 1, NEW j \in 1 .. Depth + 1,
         i < j, j <= Depth \/ i # 1
  PROVE  SlotOf(i) # SlotOf(j)
<1>1. Depth \in Nat \ {0} /\ rd \in 0 .. Depth - 1
  BY LaneNumbers, Zenon
<1>2. i - 1 \in 0 .. Depth /\ j - 1 \in 0 .. Depth /\ i - 1 < j - 1
      /\ (j - 1 < Depth \/ i - 1 # 0)
  BY <1>1
<1>3. (rd + (i - 1)) % Depth # (rd + (j - 1)) % Depth
  BY <1>1, <1>2, RingDistinct, Zenon
<1> QED BY <1>3, SlotPosition, Zenon

\* The next slot is that of the next entry, also after a pop has moved rd.
LEMMA SlotSuccessor ==
  ASSUME LaneTyped, NEW i \in 1 .. Depth
  PROVE  /\ Succ(SlotOf(i)) = SlotOf(i + 1)
         /\ (Succ(rd) + (i - 1)) % Depth = SlotOf(i + 1)
         /\ Succ(rd) \in Slots
<1>1. Depth \in Nat \ {0} /\ rd \in 0 .. Depth - 1
  BY LaneNumbers, Zenon
<1>2. i - 1 \in 0 .. Depth - 1 /\ (i - 1) + 1 = (i + 1) - 1
      /\ i \in 1 .. Depth + 1 /\ i + 1 \in 1 .. Depth + 1
  BY <1>1
<1>3. /\ SlotOf(i) = (rd + (i - 1)) % Depth
      /\ SlotOf(i + 1) = (rd + ((i - 1) + 1)) % Depth
  BY <1>2, SlotPosition, Zenon
<1>4. PICK k \in 0 .. Depth - 1 : k = i - 1
  BY <1>2, Zenon
<1>5. /\ (IF (rd + k) % Depth = Depth - 1 THEN 0 ELSE ((rd + k) % Depth) + 1) = (rd + (k + 1)) % Depth
      /\ ((IF rd = Depth - 1 THEN 0 ELSE rd + 1) + k) % Depth = (rd + (k + 1)) % Depth
  BY <1>1, RingSuccessor, Zenon
<1>6. Succ(SlotOf(i)) = SlotOf(i + 1)
  BY <1>3, <1>4, <1>5, Zenon DEF Succ
<1>7. (Succ(rd) + k) % Depth = SlotOf(i + 1)
  BY <1>3, <1>4, <1>5, Zenon DEF Succ
<1>8. Succ(rd) \in Slots
  BY <1>1, <1>4 DEF Succ, Slots
<1> QED BY <1>6, <1>4, <1>7, <1>8, Zenon

\* An entry that leaves is the oldest one, which was eligible.
LEMMA PopCount ==
  ASSUME LaneInv, NEW p \in {0, 1}, p = 1 <=> pending.pop
  PROVE  p <= count /\ (Latency > 1 => p <= eligible_count)
         /\ (pending.push => count - p < Depth)
<1>1. pending.pop => eligibleCount # 0
  BY Zenon DEF LaneInv, PendingInv
<1>2. eligibleCount = IF Latency = 1 THEN count ELSE eligible_count
  BY Zenon DEF eligibleCount
<1>3. pending.push => count < Depth \/ pending.pop
  BY Zenon DEF LaneInv, PendingInv
<1> QED BY <1>1, <1>2, <1>3, LaneNumbers DEF LaneInv

\* How an edge moves the ring: the entries that stay keep their slots and come
\* one position nearer when one leaves; the slot that is written held none of them.
LEMMA RingMoves ==
  ASSUME LaneInv, XferRing, UNCHANGED shape, NEW p \in {0, 1}, p = 1 <=> pending.pop
  PROVE  /\ count' = IF pending.push THEN (count - p) + 1 ELSE count - p
         /\ count' \in 0 .. Depth
         /\ rd' \in Slots
         /\ \A i \in 1 .. (count - p) + 1 : (rd' + (i - 1)) % Depth = SlotOf(i + p)
         /\ pending.push => \A i \in 1 .. count - p : SlotOf(i + p) # wr
         /\ wr' = (rd' + ((count' + 1) - 1)) % Depth /\ wr' \in Slots
         /\ storage' \in [Slots -> Payload]
         /\ \A i \in 1 .. count - p : storage'[SlotOf(i + p)] = storage[SlotOf(i + p)]
         /\ pending.push => storage'[SlotOf((count - p) + 1 + p)] = pending.token
<1>0. /\ LaneTyped /\ Depth \in Nat \ {0} /\ rd \in 0 .. Depth - 1 /\ count \in Nat /\ count <= Depth
      /\ wr = SlotOf(count + 1)
  BY LaneNumbers, Zenon DEF LaneInv, RingInv
<1>1. p <= count /\ (pending.push => count - p < Depth)
  BY PopCount, Zenon
<1>t. pending.push \in BOOLEAN /\ pending.pop \in BOOLEAN /\ pending.token \in Payload
  BY Zenon DEF LaneInv, PendingInv, PendingTyped
<1>2. count' = IF pending.push THEN (count - p) + 1 ELSE count - p
  <2>1. CASE pending.pop
    <3>1. p = 1 BY <2>1, Zenon
    <3>2. count' = IF pending.push THEN count ELSE count - 1
      BY <2>1, <1>t, Zenon DEF XferRing, Step
    <3> QED BY <3>1, <3>2, <1>0
  <2>2. CASE ~pending.pop
    <3>1. p = 0 BY <2>2, Zenon
    <3>2. count' = IF pending.push THEN count + 1 ELSE count
      BY <2>2, <1>t, Zenon DEF XferRing, Step
    <3> QED BY <3>1, <3>2, <1>0
  <2> QED BY <2>1, <2>2, Zenon
<1>3. count' \in 0 .. Depth
  BY <1>0, <1>1, <1>2
<1>4. /\ rd' \in Slots
      /\ \A i \in 1 .. (count - p) + 1 : (rd' + (i - 1)) % Depth = SlotOf(i + p)
  <2>1. CASE pending.pop
    <3>1. p = 1 /\ rd' = Succ(rd)
      BY <2>1, Zenon DEF XferRing
    <3>2. \A i \in 1 .. (count - p) + 1 : i \in 1 .. Depth
      BY <1>0, <1>1, <3>1
    <3>3. 1 \in 1 .. Depth
      BY <1>0
    <3> QED BY <1>0, <3>1, <3>2, <3>3, SlotSuccessor, Zenon
  <2>2. CASE ~pending.pop
    <3>1. p = 0 /\ rd' = rd
      BY <2>2, Zenon DEF XferRing
    <3>2. \A i \in 1 .. (count - p) + 1 : i \in 1 .. Depth + 1 /\ i + p = i
      BY <1>0, <1>1, <3>1
    <3>3. rd \in Slots
      BY <1>0, Zenon DEF Slots
    <3> QED BY <1>0, <3>1, <3>2, <3>3, SlotPosition, Zenon
  <2> QED BY <2>1, <2>2, Zenon
<1>5. ASSUME pending.push, NEW i \in 1 .. count - p PROVE SlotOf(i + p) # wr
  <2>1. /\ i + p \in 1 .. Depth + 1 /\ count + 1 \in 1 .. Depth + 1 /\ i + p < count + 1
        /\ (count + 1 <= Depth \/ i + p # 1)
    BY <1>0, <1>1, <1>5
  <2> QED BY <1>0, <2>1, SlotsDistinct, Zenon
<1>6. wr' = (rd' + ((count' + 1) - 1)) % Depth /\ wr' \in Slots
  <2>1. CASE pending.push
    <3>1. wr' = Succ(wr) /\ count' = (count - p) + 1
      BY <2>1, <1>2, Zenon DEF XferRing
    <3>2. CASE count < Depth
      <4>1. count + 1 \in 1 .. Depth /\ (count + 1) + 1 \in 1 .. Depth + 1
        BY <1>0, <3>2
      <4>2. wr' = SlotOf((count + 1) + 1) /\ wr' \in Slots
        BY <1>0, <3>1, <4>1, SlotSuccessor, SlotPosition, Zenon
      <4>3. CASE p = 0
        <5>1. rd' = rd /\ (count' + 1) - 1 = ((count + 1) + 1) - 1
          BY <1>0, <3>1, <4>3 DEF XferRing
        <5> QED BY <1>0, <4>1, <4>2, <5>1, SlotPosition, Zenon
      <4>4. CASE p = 1
        <5>1. rd' = Succ(rd) /\ (count' + 1) - 1 = (count + 1) - 1
          BY <1>0, <3>1, <4>4 DEF XferRing
        <5> QED BY <1>0, <4>1, <4>2, <5>1, SlotSuccessor, Zenon
      <4> QED BY <4>3, <4>4, Zenon
    <3>3. CASE count = Depth
      <4>p. p = 1
        BY <1>0, <1>1, <2>1, <3>3
      <4>1. rd' = Succ(rd) /\ (count' + 1) - 1 = Depth /\ wr = SlotOf(Depth + 1)
        BY <1>0, <3>1, <3>3, <4>p DEF XferRing
      <4>2. (rd + ((Depth + 1) - 1)) % Depth = rd
        <5>1. (Depth + 1) - 1 = Depth /\ Depth \in 0 .. Depth
          BY <1>0
        <5>2. (rd + Depth) % Depth = IF rd + Depth < Depth THEN rd + Depth ELSE rd + Depth - Depth
          BY <1>0, <5>1, RingPosition, Zenon
        <5>3. (rd + Depth) % Depth = rd
          BY <1>0, <5>2
        <5> QED BY <5>1, <5>3, Zenon
      <4>3. Depth + 1 \in 1 .. Depth + 1
        BY <1>0
      <4>4. wr = rd
        BY <1>0, <4>1, <4>2, <4>3, SlotPosition, Zenon
      <4>5. Succ(rd) \in 0 .. Depth - 1
        BY <1>0 DEF Succ
      <4>6. PICK s \in 0 .. Depth - 1 : s = Succ(rd)
        BY <4>5, Zenon
      <4>7. (s + Depth) % Depth = s
        <5>1. Depth \in 0 .. Depth
          BY <1>0
        <5>2. (s + Depth) % Depth = IF s + Depth < Depth THEN s + Depth ELSE s + Depth - Depth
          BY <1>0, <5>1, RingPosition, Zenon
        <5> QED BY <1>0, <5>2
      <4> QED BY <3>1, <4>1, <4>4, <4>6, <4>7, Zenon DEF Slots
    <3> QED BY <1>0, <3>2, <3>3
  <2>2. CASE ~pending.push
    <3>1. wr' = wr /\ count' = count - p
      BY <2>2, <1>2, Zenon DEF XferRing
    <3>2. (count - p) + 1 \in 1 .. (count - p) + 1 /\ ((count - p) + 1) + p = count + 1
          /\ count + 1 \in 1 .. Depth + 1
      BY <1>0, <1>1
    <3> QED BY <1>0, <1>4, <3>1, <3>2, SlotPosition, Zenon
  <2> QED BY <2>1, <2>2, Zenon
<1>7. wr \in Slots /\ storage \in [Slots -> Payload]
  BY Zenon DEF LaneInv, LaneTyped
<1>8. storage' = IF pending.push THEN [storage EXCEPT ![wr] = pending.token] ELSE storage
  BY Zenon DEF XferRing
<1>9. storage' \in [Slots -> Payload]
  BY <1>7, <1>8, <1>t, Zenon
<1>10. ASSUME NEW i \in 1 .. count - p PROVE storage'[SlotOf(i + p)] = storage[SlotOf(i + p)]
  <2>1. SlotOf(i + p) \in Slots
    <3>1. i + p \in 1 .. Depth + 1
      BY <1>0, <1>1
    <3> QED BY <1>0, <3>1, SlotPosition, Zenon
  <2> QED BY <1>5, <1>7, <1>8, <2>1, Zenon
<1>11. pending.push => storage'[SlotOf((count - p) + 1 + p)] = pending.token
  <2>1. (count - p) + 1 + p = count + 1
    BY <1>0
  <2> QED BY <1>0, <1>7, <1>8, <2>1, Zenon
<1> QED BY <1>2, <1>3, <1>4, <1>5, <1>6, <1>9, <1>10, <1>11, Zenon

\* The entry at mature_ptr becomes eligible at the next tick exactly if it waits
\* one tick; every other one that is not eligible waits longer.
LEMMA Maturity ==
  ASSUME LaneInv, Latency > 1
  PROVE  /\ 1 < Modulus
         /\ \A i \in eligible_count + 1 .. count :
              /\ deadline[SlotOf(i)] \in 0 .. Modulus - 1
              /\ Waiting(i) \in 1 .. Latency - 1
              /\ (deadline[SlotOf(i)] - wrapTick(tick + 1)) % Modulus = Waiting(i) - 1
              /\ i # eligible_count + 1 => Waiting(i) > 1
         /\ wrapTick(tick + 1) \in 0 .. Modulus - 1
         /\ Matures <=> eligible_count < count /\ Waiting(eligible_count + 1) = 1
<1>0. /\ LaneTyped /\ Depth \in Nat \ {0} /\ Latency \in Nat /\ Modulus \in Nat /\ Latency <= Modulus
      /\ count \in Nat /\ count <= Depth /\ eligible_count \in Nat /\ eligible_count <= count
      /\ tick \in 0 .. Modulus - 1 /\ mature_ptr = SlotOf(eligible_count + 1)
      /\ deadline \in [Slots -> 0 .. Modulus - 1]
  BY LaneNumbers DEF LaneInv, LaneTyped, RingInv
<1>1. 1 < Modulus
  BY <1>0
<1>2. ASSUME NEW i \in eligible_count + 1 .. count
      PROVE  deadline[SlotOf(i)] \in 0 .. Modulus - 1
  <2>1. i \in 1 .. Depth + 1
    BY <1>0
  <2> QED BY <1>0, <2>1, SlotPosition, Zenon
<1>3. ASSUME NEW i \in eligible_count + 1 .. count
      PROVE  /\ Waiting(i) \in 1 .. Latency - 1
             /\ (deadline[SlotOf(i)] - wrapTick(tick + 1)) % Modulus = Waiting(i) - 1
             /\ (deadline[SlotOf(i)] = wrapTick(tick + 1)) <=> (Waiting(i) = 1)
             /\ wrapTick(tick + 1) \in 0 .. Modulus - 1
  <2>1. Waiting(i) \in 1 .. Latency - 1
    BY Zenon DEF LaneInv, TimingInv
  <2>2. Waiting(i) # 0
    BY <1>0, <2>1
  <2>3. PICK e \in 0 .. Modulus - 1 : e = deadline[SlotOf(i)]
    BY <1>2, Zenon
  <2>4. /\ (tick + 1) % Modulus \in 0 .. Modulus - 1
        /\ (e - tick) % Modulus # 0 =>
             (e - ((tick + 1) % Modulus)) % Modulus = ((e - tick) % Modulus) - 1
        /\ (e = (tick + 1) % Modulus) <=> ((e - tick) % Modulus = 1)
    BY <1>0, <1>1, TickPassed, Zenon
  <2> QED BY <2>1, <2>2, <2>3, <2>4, Zenon DEF Waiting, wrapTick
<1>4. wrapTick(tick + 1) \in 0 .. Modulus - 1
  BY <1>0, <1>1 DEF wrapTick
<1>5. ASSUME NEW i \in eligible_count + 1 .. count, i # eligible_count + 1
      PROVE  Waiting(i) > 1
  <2>1. eligible_count + 1 \in eligible_count + 1 .. count /\ eligible_count + 1 < i
    BY <1>0, <1>5
  <2>2. Waiting(eligible_count + 1) < Waiting(i)
    BY <2>1, Zenon DEF LaneInv, TimingInv
  <2> QED BY <1>0, <1>3, <2>1, <2>2
<1>6. Matures <=> eligible_count < count /\ Waiting(eligible_count + 1) = 1
  <2>1. CASE eligible_count < count
    <3>1. eligible_count + 1 \in eligible_count + 1 .. count /\ count > eligible_count
      BY <1>0, <2>1
    <3>2. (deadline[mature_ptr] = wrapTick(tick + 1)) <=> (Waiting(eligible_count + 1) = 1)
      BY <1>0, <1>3, <3>1, Zenon
    <3> QED BY <2>1, <3>1, <3>2, Zenon DEF Matures
  <2>2. CASE ~(eligible_count < count)
    <3>1. ~(count > eligible_count)
      BY <1>0, <2>2, Zenon
    <3> QED BY <2>2, <3>1, Zenon DEF Matures
  <2> QED BY <2>1, <2>2, Zenon
<1> QED BY <1>1, <1>2, <1>3, <1>4, <1>5, <1>6, Zenon

\* How an edge moves the timing of a lane with a latency above one.
LEMMA TimingMoves ==
  ASSUME LaneInv, XferRing, XferTiming, UNCHANGED shape, Latency > 1, pending.advance,
         NEW p \in {0, 1}, p = 1 <=> pending.pop,
         NEW m \in {0, 1}, m = 1 <=> pending.mature
  PROVE  /\ tick' = wrapTick(tick + 1)
         /\ deadline' \in [Slots -> 0 .. Modulus - 1]
         /\ eligible_count' = (eligible_count - p) + m
         /\ eligible_count' \in 0 .. count - p
         /\ mature_ptr' = (rd' + ((eligible_count' + 1) - 1)) % Depth /\ mature_ptr' \in Slots
         /\ \A i \in 1 .. count - p : deadline'[SlotOf(i + p)] = deadline[SlotOf(i + p)]
         /\ pending.push => deadline'[wr] = wrapTick(wrapTick(tick + 1) + (Latency - 1))
<1>0. /\ LaneTyped /\ Depth \in Nat \ {0} /\ Latency \in Nat /\ Modulus \in Nat /\ Latency <= Modulus
      /\ rd \in 0 .. Depth - 1
      /\ count \in Nat /\ count <= Depth /\ eligible_count \in Nat /\ eligible_count <= count
      /\ tick \in 0 .. Modulus - 1 /\ mature_ptr = SlotOf(eligible_count + 1)
      /\ deadline \in [Slots -> 0 .. Modulus - 1] /\ wr \in Slots
  BY LaneNumbers DEF LaneInv, LaneTyped, RingInv
<1>t. pending.push \in BOOLEAN /\ pending.pop \in BOOLEAN /\ pending.mature \in BOOLEAN
  BY Zenon DEF LaneInv, PendingInv, PendingTyped
<1>1. p <= eligible_count
  BY PopCount, Zenon
<1>2. m = 1 => eligible_count < count
  BY Maturity, Zenon DEF LaneInv, PendingInv
<1>x. /\ tick' = IF pending.advance THEN wrapTick(tick + 1) ELSE tick
      /\ mature_ptr' = IF pending.mature THEN Succ(mature_ptr) ELSE mature_ptr
      /\ eligible_count' = Step(pending.mature, pending.pop, eligible_count)
      /\ deadline' = IF pending.push THEN [deadline EXCEPT ![wr] = DeadlineFrom(tick')]
                     ELSE deadline
  <2>1. Latency # 1
    BY <1>0
  <2> QED BY <2>1, Zenon DEF XferTiming
<1>3. tick' = wrapTick(tick + 1)
  BY <1>x, Zenon
<1>4. eligible_count' = (eligible_count - p) + m
  <2>1. CASE pending.pop
    <3>1. p = 1 BY <2>1, Zenon
    <3>2. eligible_count' = IF pending.mature THEN eligible_count ELSE eligible_count - 1
      BY <2>1, <1>t, <1>x, Zenon DEF Step
    <3> QED BY <3>1, <3>2, <1>0
  <2>2. CASE ~pending.pop
    <3>1. p = 0 BY <2>2, Zenon
    <3>2. eligible_count' = IF pending.mature THEN eligible_count + 1 ELSE eligible_count
      BY <2>2, <1>t, <1>x, Zenon DEF Step
    <3> QED BY <3>1, <3>2, <1>0
  <2> QED BY <2>1, <2>2, Zenon
<1>5. eligible_count' \in 0 .. count - p
  BY <1>0, <1>1, <1>2, <1>4
<1>6. mature_ptr' = (rd' + ((eligible_count' + 1) - 1)) % Depth /\ mature_ptr' \in Slots
  <2>1. mature_ptr' = SlotOf((eligible_count + 1) + m)
    <3>1. CASE m = 1
      <4>1. eligible_count + 1 \in 1 .. Depth
        BY <1>0, <1>2, <3>1
      <4> QED BY <1>0, <1>x, <3>1, <4>1, SlotSuccessor, Zenon
    <3>2. CASE m = 0
      BY <1>0, <1>x, <3>2
    <3> QED BY <3>1, <3>2, Zenon
  <2>2. PICK k \in 1 .. (count - p) + 1 : k = eligible_count' + 1
    <3>0. count - p \in Int
      BY <1>0
    <3>1. eligible_count' + 1 \in 1 .. (count - p) + 1
      <4>1. PICK e \in 0 .. count - p : e = eligible_count'
        BY <1>5, Zenon
      <4>2. e + 1 \in 1 .. (count - p) + 1
        BY <3>0
      <4> QED BY <4>1, <4>2, Zenon
    <3> QED BY <3>1, Zenon
  <2>3. k + p = (eligible_count + 1) + m /\ k + p \in 1 .. Depth + 1
    BY <1>0, <1>1, <1>4, <2>2
  <2>4. (rd' + (k - 1)) % Depth = SlotOf(k + p)
    <3>1. \A i \in 1 .. (count - p) + 1 : (rd' + (i - 1)) % Depth = SlotOf(i + p)
      BY RingMoves, Zenon
    <3> QED BY <3>1, Zenon
  <2> QED BY <1>0, <2>1, <2>2, <2>3, <2>4, SlotPosition, Zenon
<1>7. DeadlineFrom(tick') \in 0 .. Modulus - 1
  <2>1. Latency - 1 \in 1 .. Modulus - 1 /\ wrapTick(tick + 1) \in 0 .. Modulus - 1
    BY <1>0, Maturity
  <2>2. PICK t \in 0 .. Modulus - 1 : t = wrapTick(tick + 1)
    BY <2>1, Zenon
  <2>3. (t + (Latency - 1)) % Modulus \in 0 .. Modulus - 1
    BY <1>0, <2>1, TickAhead, Zenon
  <2> QED BY <1>3, <2>2, <2>3, Zenon DEF DeadlineFrom, wrapTick
<1>8. deadline' \in [Slots -> 0 .. Modulus - 1]
  BY <1>0, <1>7, <1>x, Zenon
<1>9. ASSUME NEW i \in 1 .. count - p PROVE deadline'[SlotOf(i + p)] = deadline[SlotOf(i + p)]
  <2>1. SlotOf(i + p) \in Slots
    <3>1. i + p \in 1 .. Depth + 1
      BY <1>0, <1>1
    <3> QED BY <1>0, <3>1, SlotPosition, Zenon
  <2>2. pending.push => SlotOf(i + p) # wr
    BY RingMoves, Zenon
  <2> QED BY <1>0, <1>x, <2>1, <2>2, Zenon
<1>10. pending.push => deadline'[wr] = wrapTick(wrapTick(tick + 1) + (Latency - 1))
  <2>1. pending.push => deadline'[wr] = DeadlineFrom(tick')
    BY <1>0, <1>x, Zenon
  <2> QED BY <1>3, <2>1, Zenon DEF DeadlineFrom
<1> QED BY <1>3, <1>4, <1>5, <1>6, <1>8, <1>9, <1>10, Zenon

\* What is derived from the shape stays when the shape does.
LEMMA SameShape ==
  ASSUME UNCHANGED shape
  PROVE  /\ Depth' = Depth /\ Latency' = Latency /\ Modulus' = Modulus /\ Slots' = Slots
         /\ DownstreamPop' = DownstreamPop
BY Zenon DEF Depth, Latency, Modulus, Slots, DownstreamPop

\* An edge with a latency above one: the entries that stay wait one tick less,
\* and the new one waits the whole delay.
LEMMA WaitingMoves ==
  ASSUME LaneInv, XferRing, XferTiming, UNCHANGED shape, Latency > 1, pending.advance,
         NEW p \in {0, 1}, p = 1 <=> pending.pop
  PROVE  /\ \A i \in 1 .. count - p : Wait(i)' = IF Wait(i + p) = 0 THEN 0 ELSE Wait(i + p) - 1
         /\ pending.push => \A i \in Nat : i = (count - p) + 1 => Wait(i)' = Latency - 1
         /\ TimingInv'
<1>0. /\ LaneTyped /\ Depth \in Nat \ {0} /\ Latency \in Nat /\ Modulus \in Nat /\ Latency <= Modulus
      /\ count \in Nat /\ count <= Depth /\ eligible_count \in Nat /\ eligible_count <= count
      /\ wr = SlotOf(count + 1) /\ Latency # 1
  BY LaneNumbers DEF LaneInv, LaneTyped, RingInv
<1>m. PICK m \in {0, 1} : m = 1 <=> pending.mature
  <2>1. CASE pending.mature
    BY <2>1, Zenon
  <2>2. CASE ~pending.mature
    BY <2>2
  <2> QED BY <2>1, <2>2, Zenon
<1>e. PICK e \in 0 .. count - p : e = eligible_count'
  BY <1>m, TimingMoves, Zenon
<1>1. e = (eligible_count - p) + m
  BY <1>m, <1>e, TimingMoves, Zenon
<1>2. p <= eligible_count
  BY PopCount, Zenon
<1>3. /\ Latency' = Latency /\ Modulus' = Modulus /\ Depth' = Depth
  BY SameShape, Zenon
<1>4. tick' = wrapTick(tick + 1)
  BY <1>m, TimingMoves, Zenon
<1>5. m = 1 <=> eligible_count < count /\ Waiting(eligible_count + 1) = 1
  BY <1>m, Maturity, Zenon DEF LaneInv, PendingInv
<1>6. ASSUME NEW i \in 1 .. (count - p) + 1 PROVE SlotOf(i)' = SlotOf(i + p)
  <2>1. (rd' + (i - 1)) % Depth = SlotOf(i + p)
    <3>1. \A k \in 1 .. (count - p) + 1 : (rd' + (k - 1)) % Depth = SlotOf(k + p)
      BY RingMoves, Zenon
    <3> QED BY <3>1, Zenon
  <2> QED BY <1>3, <2>1, Zenon DEF SlotOf
<1>7. ASSUME NEW i \in 1 .. count - p, i > e
      PROVE  /\ i + p \in eligible_count + 1 .. count
             /\ Waiting(i + p) \in 2 .. Latency - 1
             /\ Waiting(i)' = Waiting(i + p) - 1
  <2>1. i + p \in eligible_count + 1 .. count /\ i \in 1 .. (count - p) + 1
    BY <1>0, <1>1, <1>2, <1>7
  <2>2. /\ (deadline[SlotOf(i + p)] - wrapTick(tick + 1)) % Modulus = Waiting(i + p) - 1
        /\ Waiting(i + p) \in 1 .. Latency - 1
        /\ i + p # eligible_count + 1 => Waiting(i + p) > 1
    BY <2>1, Maturity, Zenon
  <2>3. Waiting(i + p) # 1
    <3>1. CASE i + p = eligible_count + 1
      <4>1. m = 0 /\ eligible_count < count
        BY <1>0, <1>1, <1>2, <1>7, <2>1, <3>1
      <4> QED BY <1>5, <3>1, <4>1
    <3>2. CASE i + p # eligible_count + 1
      BY <1>0, <2>2, <3>2
    <3> QED BY <3>1, <3>2, Zenon
  <2>4. deadline'[SlotOf(i + p)] = deadline[SlotOf(i + p)]
    BY <1>m, TimingMoves, Zenon
  <2>5. Waiting(i)' = (deadline'[SlotOf(i)'] - tick') % Modulus'
    BY Zenon DEF Waiting
  <2>6. SlotOf(i)' = SlotOf(i + p)
    BY <1>6, <2>1, Zenon
  <2>7. Waiting(i)' = Waiting(i + p) - 1
    BY <1>3, <1>4, <2>2, <2>4, <2>5, <2>6, Zenon
  <2> QED BY <1>0, <2>1, <2>2, <2>3, <2>7
<1>8. ASSUME pending.push, NEW i \in Nat, i = (count - p) + 1
      PROVE  Waiting(i)' = Latency - 1 /\ i > e
  <2>1. i \in 1 .. (count - p) + 1 /\ i + p = count + 1 /\ i > e
    BY <1>0, <1>2, <1>8
  <2>2. SlotOf(i)' = wr
    BY <1>0, <1>6, <2>1, Zenon
  <2>3. deadline'[wr] = wrapTick(wrapTick(tick + 1) + (Latency - 1))
    BY <1>m, <1>8, TimingMoves, Zenon
  <2>4. PICK t \in 0 .. Modulus - 1 : t = wrapTick(tick + 1)
    BY Maturity, Zenon
  <2>5. Latency - 1 \in 1 .. Modulus - 1
    BY <1>0
  <2>6. (((t + (Latency - 1)) % Modulus) - t) % Modulus = Latency - 1
    BY <1>0, <2>5, TickAhead, Zenon
  <2>7. Waiting(i)' = (deadline'[SlotOf(i)'] - tick') % Modulus'
    BY Zenon DEF Waiting
  <2> QED BY <1>3, <1>4, <2>1, <2>2, <2>3, <2>4, <2>6, <2>7, Zenon DEF wrapTick
<1>9. ASSUME NEW i \in 1 .. count - p
      PROVE  Wait(i)' = IF Wait(i + p) = 0 THEN 0 ELSE Wait(i + p) - 1
  <2>1. /\ Wait(i + p) = IF i + p <= eligible_count THEN 0 ELSE Waiting(i + p)
        /\ Wait(i)' = IF i <= e THEN 0 ELSE Waiting(i)'
    BY <1>0, <1>3, <1>e, Zenon DEF Wait, Waiting, eligibleCount
  <2>2. CASE i + p <= eligible_count
    <3>1. i <= e
      BY <1>0, <1>1, <1>2, <2>2
    <3> QED BY <2>1, <2>2, <3>1, Zenon
  <2>3. CASE ~(i + p <= eligible_count) /\ i <= e
    <3>1. m = 1 /\ i + p = eligible_count + 1
      BY <1>0, <1>1, <1>2, <2>3
    <3> QED BY <1>5, <2>1, <2>3, <3>1
  <2>4. CASE ~(i + p <= eligible_count) /\ ~(i <= e)
    <3>1. i > e
      BY <1>0, <2>4
    <3> QED BY <1>0, <1>7, <2>1, <2>4, <3>1
  <2> QED BY <2>2, <2>3, <2>4, Zenon
<1>10. ASSUME pending.push, NEW i \in Nat, i = (count - p) + 1 PROVE Wait(i)' = Latency - 1
  <2>1. Wait(i)' = IF i <= e THEN 0 ELSE Waiting(i)'
    BY <1>0, <1>3, <1>e, Zenon DEF Wait, Waiting, eligibleCount
  <2>2. ~(i <= e)
    BY <1>0, <1>8, <1>10
  <2> QED BY <1>8, <1>10, <2>1, <2>2, Zenon
<1>11. TimingInv'
  <2>1. PICK n \in Nat : n = count' /\ n = IF pending.push THEN (count - p) + 1 ELSE count - p
    <3>1. count' = IF pending.push THEN (count - p) + 1 ELSE count - p
      BY RingMoves, Zenon
    <3>2. count - p \in Nat
      BY <1>0, <1>2
    <3> QED BY <3>1, <3>2
  <2>2. ASSUME NEW i \in e + 1 .. n
        PROVE  /\ i \in 1 .. count - p /\ i > e => Waiting(i)' = Waiting(i + p) - 1
               /\ i \notin 1 .. count - p => pending.push /\ i = (count - p) + 1
                                             /\ Waiting(i)' = Latency - 1
               /\ Waiting(i)' \in 1 .. Latency - 1
    <3>1. CASE i \in 1 .. count - p
      <4>1. i > e
        BY <1>0
      <4> QED BY <1>0, <1>7, <3>1, <4>1
    <3>2. CASE i \notin 1 .. count - p
      <4>1. pending.push /\ i \in Nat /\ i = (count - p) + 1
        BY <1>0, <1>2, <2>1, <3>2
      <4> QED BY <1>0, <1>8, <3>2, <4>1
    <3> QED BY <3>1, <3>2, Zenon
  <2>3. ASSUME NEW i \in e + 1 .. n, NEW j \in e + 1 .. n, i < j
        PROVE  Waiting(i)' < Waiting(j)'
    <3>1. i \in 1 .. count - p /\ i > e
      BY <1>0, <1>2, <2>1, <2>3
    <3>2. /\ i + p \in eligible_count + 1 .. count /\ Waiting(i)' = Waiting(i + p) - 1
          /\ Waiting(i + p) \in 1 .. Latency - 1
      BY <1>0, <1>7, <3>1
    <3>3. CASE j \in 1 .. count - p
      <4>1. j > e
        BY <1>0
      <4>2. /\ j + p \in eligible_count + 1 .. count /\ Waiting(j)' = Waiting(j + p) - 1
            /\ Waiting(j + p) \in 1 .. Latency - 1
        BY <1>0, <1>7, <3>3, <4>1
      <4>3. i + p < j + p
        BY <1>0, <2>3
      <4>4. Waiting(i + p) < Waiting(j + p)
        BY <3>2, <4>2, <4>3, Zenon DEF LaneInv, TimingInv
      <4> QED BY <1>0, <3>2, <4>2, <4>4
    <3>4. CASE j \notin 1 .. count - p
      <4>1. Waiting(j)' = Latency - 1
        BY <2>2, <3>4, Zenon
      <4> QED BY <1>0, <3>2, <4>1
    <3> QED BY <3>3, <3>4, Zenon
  <2> QED BY <1>3, <1>e, <2>1, <2>2, <2>3, Zenon DEF TimingInv
<1> QED BY <1>9, <1>10, <1>11, Zenon

\* An entry of the abstract queue after one more edge.
Older(e) == [e EXCEPT !.left = IF @ = 0 THEN 0 ELSE @ - 1]

\* What an edge that pops makes of the entries of the abstract queue.
LEMMA AgedTail ==
  ASSUME NEW E, NEW s \in Seq(E), s # <<>>
  PROVE  Abstract!Aged(Tail(s)) = [i \in 1 .. Len(s) - 1 |-> Older(s[i + 1])]
<1>1. /\ Tail(s) \in Seq(E)
      /\ Len(Tail(s)) = Len(s) - 1
      /\ \A i \in 1 .. Len(Tail(s)) : Tail(s)[i] = s[i + 1]
  BY HeadTailProperties, Zenon
<1>2. Abstract!Aged(Tail(s)) = [i \in DOMAIN Tail(s) |-> Older(Tail(s)[i])]
  BY Zenon DEF Abstract!Aged, Older
<1>3. DOMAIN Tail(s) = 1 .. Len(s) - 1 /\ \A i \in 1 .. Len(s) - 1 : Tail(s)[i] = s[i + 1]
  BY <1>1
<1> QED BY <1>2, <1>3, Zenon

\* What one that pops nothing makes of them.
LEMMA AgedSame ==
  ASSUME NEW E, NEW s \in Seq(E)
  PROVE  Abstract!Aged(s) = [i \in 1 .. Len(s) |-> Older(s[i])]
<1>1. Abstract!Aged(s) = [i \in DOMAIN s |-> Older(s[i])]
  BY Zenon DEF Abstract!Aged, Older
<1>2. DOMAIN s = 1 .. Len(s)
  OBVIOUS
<1> QED BY <1>1, <1>2, Zenon

\* The entries r followed by the tokens p, each l edges away from its turn.
Entered(r, p, l) == r \o [i \in DOMAIN p |-> [token |-> p[i], left |-> l]]

\* The k entries r, and one more.
OneMore(r, k, t, l) == [i \in 1 .. k + 1 |-> IF i = k + 1 THEN [token |-> t, left |-> l] ELSE r[i]]

\* An edge that pushes nothing, and one that pushes t.
LEMMA PushedEntries ==
  ASSUME NEW k \in Nat, NEW r, r = [i \in 1 .. k |-> r[i]], NEW t, NEW l
  PROVE  Entered(r, <<>>, l) = r /\ Entered(r, <<t>>, l) = OneMore(r, k, t, l)
<1> DEFINE e == [token |-> t, left |-> l]
           E == {r[i] : i \in 1 .. k} \cup {e}
<1>0. r \in Seq(E) /\ Len(r) = k /\ DOMAIN r = 1 .. k /\ e \in E
  OBVIOUS
<1>1. [i \in DOMAIN <<>> |-> [token |-> <<>>[i], left |-> l]] = <<>>
  OBVIOUS
<1>2. [i \in DOMAIN <<t>> |-> [token |-> <<t>>[i], left |-> l]] = <<e>>
  OBVIOUS
<1> HIDE DEF e, E
<1>3. r \o <<>> = r
  BY <1>0
<1>4. r \o <<e>> = [i \in 1 .. k + 1 |-> IF i = k + 1 THEN e ELSE r[i]]
  BY <1>0
<1> QED BY <1>1, <1>2, <1>3, <1>4, Zenon DEF e, Entered, OneMore

\* An edge of an initialised lane keeps the invariant and is an edge of the queue.
LEMMA EdgeStep ==
  ASSUME LaneInv, XferRing, XferTiming, UNCHANGED <<shape, initialized>>, initialized,
         Latency > 1 => pending.advance
  PROVE  /\ \E pop \in BOOLEAN, pushed \in {<<>>} \cup {<<t>> : t \in Payload} :
              Abstract!Edge(pop, pushed)
         /\ RingInv' /\ TimingInv'
         /\ (clock' \in BOOLEAN => LaneTyped')
<1>0. /\ LaneTyped /\ Depth \in Nat \ {0} /\ Latency \in Nat \ {0}
      /\ count \in Nat /\ count <= Depth /\ eligible_count \in Nat /\ eligible_count <= count
      /\ wr = SlotOf(count + 1)
  BY LaneNumbers, Zenon DEF LaneInv, LaneTyped, RingInv
<1>t. pending.push \in BOOLEAN /\ pending.pop \in BOOLEAN /\ pending.token \in Payload
  BY Zenon DEF LaneInv, PendingInv, PendingTyped
<1>p. PICK p \in {0, 1} : p = 1 <=> pending.pop
  <2>1. CASE pending.pop
    BY <2>1, Zenon
  <2>2. CASE ~pending.pop
    BY <2>2
  <2> QED BY <2>1, <2>2, Zenon
<1>s. /\ Depth' = Depth /\ Latency' = Latency /\ Modulus' = Modulus /\ Slots' = Slots
  BY SameShape, Zenon
<1>1. p <= count /\ (pending.push => count - p < Depth)
  BY <1>p, PopCount, Zenon
<1>2. /\ count' = IF pending.push THEN (count - p) + 1 ELSE count - p
      /\ count' \in 0 .. Depth
      /\ rd' \in Slots
      /\ wr' = (rd' + ((count' + 1) - 1)) % Depth /\ wr' \in Slots
      /\ storage' \in [Slots -> Payload]
  BY <1>p, RingMoves, Zenon
<1>3. ASSUME NEW i \in 1 .. (count - p) + 1 PROVE SlotOf(i)' = SlotOf(i + p)
  <2>1. (rd' + (i - 1)) % Depth = SlotOf(i + p)
    <3>1. \A k \in 1 .. (count - p) + 1 : (rd' + (k - 1)) % Depth = SlotOf(k + p)
      BY <1>p, RingMoves, Zenon
    <3> QED BY <3>1, Zenon
  <2> QED BY <1>s, <2>1, Zenon DEF SlotOf
<1>4. ASSUME NEW i \in 1 .. count - p PROVE storage'[SlotOf(i)'] = storage[SlotOf(i + p)]
  <2>1. i \in 1 .. (count - p) + 1
    BY <1>0, <1>1
  <2>2. storage'[SlotOf(i + p)] = storage[SlotOf(i + p)]
    BY <1>p, RingMoves, Zenon
  <2> QED BY <1>3, <2>1, <2>2, Zenon
<1>5. ASSUME pending.push, NEW i \in Nat, i = (count - p) + 1
      PROVE  storage'[SlotOf(i)'] = pending.token
  <2>1. i \in 1 .. (count - p) + 1 /\ i + p = count + 1
    BY <1>0, <1>1, <1>5
  <2>2. SlotOf(i)' = wr
    BY <1>0, <1>3, <2>1, Zenon
  <2>3. storage'[wr] = pending.token
    BY <1>0, <1>5, Zenon DEF XferRing, LaneTyped
  <2> QED BY <2>2, <2>3, Zenon
<1>6. /\ \A i \in 1 .. count - p : Wait(i)' = IF Wait(i + p) = 0 THEN 0 ELSE Wait(i + p) - 1
      /\ pending.push => \A i \in Nat : i = (count - p) + 1 => Wait(i)' = Latency - 1
      /\ TimingInv'
  <2>1. CASE Latency > 1
    BY <1>p, <2>1, WaitingMoves, Zenon
  <2>2. CASE Latency = 1
    <3>1. ASSUME NEW i \in Nat, i <= count PROVE Wait(i) = 0
      BY <2>2, <3>1, Zenon DEF Wait, eligibleCount
    <3>2. ASSUME NEW i \in Nat, i <= count' PROVE Wait(i)' = 0
      BY <1>s, <2>2, <3>2, Zenon DEF Wait, eligibleCount
    <3>3. \A i \in 1 .. count - p : i \in Nat /\ i <= count' /\ i + p \in Nat /\ i + p <= count
      BY <1>0, <1>1, <1>2
    <3>4. pending.push => \A i \in Nat : i = (count - p) + 1 => i <= count'
      BY <1>0, <1>1, <1>2
    <3>5. Latency - 1 = 0
      BY <2>2
    <3>6. TimingInv'
      BY <1>s, <2>2 DEF TimingInv
    <3> QED BY <3>1, <3>2, <3>3, <3>4, <3>5, <3>6, Zenon
  <2> QED BY <1>0, <2>1, <2>2
<1>7. RingInv' /\ eligible_count' \in 0 .. count' /\ mature_ptr' \in Slots
      /\ tick' \in 0 .. Modulus - 1 /\ deadline' \in [Slots -> 0 .. Modulus - 1]
  <2>0. wr' = SlotOf(count + 1)'
    BY <1>2, <1>s, Zenon DEF SlotOf
  <2>1. CASE Latency > 1
    <3>m. PICK m \in {0, 1} : m = 1 <=> pending.mature
      <4>1. CASE pending.mature
        BY <4>1, Zenon
      <4>2. CASE ~pending.mature
        BY <4>2
      <4> QED BY <4>1, <4>2, Zenon
    <3>1. /\ tick' = wrapTick(tick + 1)
          /\ deadline' \in [Slots -> 0 .. Modulus - 1]
          /\ eligible_count' \in 0 .. count - p
          /\ mature_ptr' = (rd' + ((eligible_count' + 1) - 1)) % Depth /\ mature_ptr' \in Slots
      BY <1>p, <2>1, <3>m, TimingMoves, Zenon
    <3>2. mature_ptr' = SlotOf(eligible_count + 1)'
      BY <1>s, <3>1, Zenon DEF SlotOf
    <3>3. Latency' # 1
      BY <1>0, <1>s, <2>1
    <3>4. RingInv'
      BY <2>0, <3>2, <3>3, Zenon DEF RingInv
    <3>5. eligible_count' \in 0 .. count'
      <4>1. count - p \in Nat /\ count' \in Nat /\ count - p <= count'
        BY <1>0, <1>1, <1>2
      <4>2. PICK e \in 0 .. count - p : e = eligible_count'
        BY <3>1, Zenon
      <4>3. e \in 0 .. count'
        BY <4>1
      <4> QED BY <4>2, <4>3, Zenon
    <3>6. tick' \in 0 .. Modulus - 1
      BY <2>1, <3>1, Maturity, Zenon
    <3> QED BY <3>1, <3>4, <3>5, <3>6, Zenon
  <2>2. CASE Latency = 1
    <3>1. UNCHANGED timing /\ eligible_count = 0
      BY <2>2, Zenon DEF XferTiming, LaneInv, RingInv
    <3>2. RingInv'
      BY <1>s, <2>0, <2>2, <3>1, Zenon DEF RingInv, timing
    <3> QED BY <1>0, <1>2, <3>1, <3>2 DEF timing, LaneTyped
  <2> QED BY <1>0, <2>1, <2>2
<1>8. clock' \in BOOLEAN => LaneTyped'
  <2>1. shape' = shape /\ initialized' = initialized /\ Payload' = Payload
    BY Zenon DEF Payload
  <2> QED BY <1>0, <1>2, <1>7, <1>s, <2>1, Zenon DEF LaneTyped
<1> DEFINE pushed == IF pending.push THEN <<pending.token>> ELSE <<>>
<1>9. Abstract!Edge(pending.pop, pushed)
  <2> DEFINE r == Abstract!Aged(IF pending.pop THEN Tail(Contents) ELSE Contents)
  <2>c. Contents = [i \in 1 .. count |-> Contents[i]]
        /\ \A i \in 1 .. count : Contents[i] = [token |-> storage[SlotOf(i)], left |-> Wait(i)]
    BY Zenon DEF Contents
  <2>c1. \A i \in 1 .. count - p : i + p \in 1 .. count
    BY <1>0, <1>1
  <2>1. r = [i \in 1 .. count - p |-> Older(Contents[i + p])]
    <3>1. PICK s : s = Contents
      BY Zenon
    <3>2. s \in Seq({s[i] : i \in 1 .. count}) /\ Len(s) = count
      BY <1>0, <2>c, <3>1
    <3>3. CASE pending.pop
      <4>1. p = 1 /\ r = Abstract!Aged(Tail(s))
        BY <1>p, <3>1, <3>3, Zenon
      <4>2. s # <<>>
        <5>1. count # 0
          BY <1>0, <1>1, <4>1
        <5> QED BY <3>2, <5>1
      <4>3. Abstract!Aged(Tail(s)) = [i \in 1 .. count - 1 |-> Older(s[i + 1])]
        BY <3>2, <4>2, AgedTail, Zenon
      <4> QED BY <3>1, <4>1, <4>3, Zenon
    <3>4. CASE ~pending.pop
      <4>1. p = 0 /\ r = Abstract!Aged(s)
        BY <1>p, <3>1, <3>4, Zenon
      <4>2. Abstract!Aged(s) = [i \in 1 .. count |-> Older(s[i])]
        BY <3>2, AgedSame, Zenon
      <4>3. count - 0 = count /\ \A i \in 1 .. count : i + 0 = i
        BY <1>0
      <4> HIDE DEF r
      <4>4. [i \in 1 .. count |-> Older(s[i])] = [i \in 1 .. count - p |-> Older(s[i + p])]
        BY <4>1, <4>3, Zenon
      <4> QED BY <3>1, <4>1, <4>2, <4>4, Zenon
    <3> QED BY <3>3, <3>4, Zenon
  <2>2. ASSUME NEW i \in 1 .. count - p
        PROVE  Older(Contents[i + p])
                 = [token |-> storage'[SlotOf(i)'], left |-> Wait(i)']
    <3>1. Contents[i + p] = [token |-> storage[SlotOf(i + p)], left |-> Wait(i + p)]
      BY <2>c, <2>c1, Zenon
    <3>2. Older(Contents[i + p])
            = [token |-> storage[SlotOf(i + p)], left |-> IF Wait(i + p) = 0 THEN 0 ELSE Wait(i + p) - 1]
      BY <3>1 DEF Older
    <3> QED BY <1>4, <1>6, <3>2, Zenon
  <2>3. r = [i \in 1 .. count - p |-> [token |-> storage'[SlotOf(i)'], left |-> Wait(i)']]
    BY <2>1, <2>2, Zenon
  <2>4. Contents' = [i \in 1 .. count' |-> [token |-> storage'[SlotOf(i)'], left |-> Wait(i)']]
    BY Zenon DEF Contents
  <2> HIDE DEF r
  <2>5. count - p \in Nat /\ r = [i \in 1 .. count - p |-> r[i]]
    BY <1>0, <1>1, <2>3
  <2>e. /\ Entered(r, <<>>, Latency - 1) = r
        /\ Entered(r, <<pending.token>>, Latency - 1) = OneMore(r, count - p, pending.token, Latency - 1)
    BY <2>5, PushedEntries
  <2>6. Contents' = r \o [i \in DOMAIN pushed |-> [token |-> pushed[i], left |-> Latency - 1]]
    <3>1. CASE ~pending.push
      <4>1. pushed = <<>> /\ count' = count - p
        BY <1>2, <3>1, Zenon
      <4> HIDE DEF pushed
      <4>2. Entered(r, pushed, Latency - 1) = r
        BY <2>e, <4>1, Zenon
      <4> QED BY <2>3, <2>4, <4>1, <4>2, Zenon DEF Entered
    <3>2. CASE pending.push
      <4>1. pushed = <<pending.token>> /\ count' = (count - p) + 1
        BY <1>2, <3>2, Zenon
      <4> HIDE DEF pushed
      <4>2. Entered(r, pushed, Latency - 1) = OneMore(r, count - p, pending.token, Latency - 1)
        BY <2>e, <4>1, Zenon
      <4>3. ASSUME NEW i \in 1 .. (count - p) + 1
            PROVE  [token |-> storage'[SlotOf(i)'], left |-> Wait(i)']
                     = IF i = (count - p) + 1 THEN [token |-> pending.token, left |-> Latency - 1]
                       ELSE r[i]
        <5>1. CASE i = (count - p) + 1
          <6>1. i \in Nat
            BY <1>0, <1>1
          <6>2. storage'[SlotOf(i)'] = pending.token /\ Wait(i)' = Latency - 1
            BY <1>5, <1>6, <3>2, <5>1, <6>1, Zenon
          <6> QED BY <5>1, <6>2, Zenon
        <5>2. CASE i # (count - p) + 1
          <6>1. i \in 1 .. count - p
            BY <1>0, <1>1, <5>2
          <6>2. r[i] = [token |-> storage'[SlotOf(i)'], left |-> Wait(i)']
            BY <2>3, <6>1, Zenon
          <6> QED BY <5>2, <6>2, Zenon
        <5> QED BY <5>1, <5>2, Zenon
      <4> QED BY <2>4, <4>1, <4>2, <4>3, Zenon DEF Entered, OneMore
    <3> QED BY <1>t, <3>1, <3>2, Zenon
  <2>7. pending.pop => Abstract!Available
    <3> SUFFICES ASSUME pending.pop PROVE Abstract!Available
      BY Zenon
    <3>1. eligibleCount # 0 /\ eligibleCount = IF Latency = 1 THEN count ELSE eligible_count
      BY Zenon DEF LaneInv, PendingInv, eligibleCount
    <3>2. 1 \in 1 .. count /\ 1 <= eligibleCount
      BY <1>0, <3>1
    <3>3. Wait(1) = 0
      BY <3>2, Zenon DEF Wait
    <3>4. Contents # <<>> /\ Head(Contents) = Contents[1]
      <4>1. Contents \in Seq({Contents[i] : i \in 1 .. count}) /\ Len(Contents) = count
        BY <1>0, <2>c
      <4> QED BY <1>0, <3>2, <4>1
    <3> QED BY <2>c, <3>2, <3>3, <3>4 DEF Abstract!Available
  <2>8. Len(pushed) <= 1
    OBVIOUS
  <2>9. pushed # <<>> => Len(Contents) < Depth \/ (DownstreamPop /\ pending.pop)
    <3>1. pending.push => count < Depth \/ (DownstreamPop /\ pending.pop)
      BY Zenon DEF LaneInv, PendingInv
    <3>2. Len(Contents) = count
      BY <1>0, <2>c
    <3> QED BY <3>1, <3>2, Zenon
  <2>10. /\ Abstract!Depth = Depth /\ Abstract!Latency = Latency
         /\ Abstract!DownstreamPop = DownstreamPop
    BY Zenon DEF Abstract!Depth, Abstract!Latency, Abstract!DownstreamPop, Depth, Latency, DownstreamPop
  <2> HIDE DEF pushed
  <2> QED BY <2>6, <2>7, <2>8, <2>9, <2>10, Zenon DEF Abstract!Edge, r
<1>10. pushed \in {<<>>} \cup {<<t>> : t \in Payload}
  BY <1>t, Zenon
<1> HIDE DEF pushed
<1> QED BY <1>t, <1>6, <1>7, <1>8, <1>9, <1>10, Zenon

\* A step that leaves the registers alone leaves the entries alone.
LEMMA LaneSame ==
  ASSUME LaneTyped, RingInv, TimingInv, UNCHANGED <<shape, initialized, ring, timing>>
  PROVE  /\ RingInv' /\ TimingInv' /\ Contents' = Contents
         /\ (clock' \in BOOLEAN => LaneTyped')
         /\ eligibleCount' = eligibleCount /\ Matures' = Matures
<1>1. /\ shape' = shape /\ initialized' = initialized
      /\ storage' = storage /\ rd' = rd /\ wr' = wr /\ count' = count
      /\ deadline' = deadline /\ tick' = tick /\ mature_ptr' = mature_ptr
      /\ eligible_count' = eligible_count
  BY Zenon DEF ring, timing
<1>2. Depth' = Depth /\ Latency' = Latency /\ Slots' = Slots /\ Payload' = Payload
  BY <1>1, Zenon DEF Depth, Latency, Slots, Payload
<1>3. Modulus' = Modulus
  BY <1>2, Zenon DEF Modulus
<1>4. eligibleCount' = eligibleCount
  BY <1>1, <1>2, Zenon DEF eligibleCount
<1>5. ASSUME NEW i PROVE SlotOf(i)' = SlotOf(i) /\ Waiting(i)' = Waiting(i) /\ Wait(i)' = Wait(i)
  <2>1. SlotOf(i)' = SlotOf(i)
    BY <1>1, <1>2, Zenon DEF SlotOf
  <2>2. Waiting(i)' = Waiting(i)
    BY <1>1, <1>3, <2>1, Zenon DEF Waiting
  <2>3. Wait(i)' = Wait(i)
    BY <1>1, <1>3, <1>4, <2>1, Zenon DEF Wait
  <2> QED BY <2>1, <2>2, <2>3, Zenon
<1>6. RingInv'
  <2>1. SlotOf(count + 1)' = SlotOf(count + 1)
    BY <1>1, <1>2, Zenon DEF SlotOf
  <2>2. SlotOf(eligible_count + 1)' = SlotOf(eligible_count + 1)
    BY <1>1, <1>2, Zenon DEF SlotOf
  <2>3. wr' = SlotOf(count + 1)'
    BY <1>1, <2>1, Zenon DEF RingInv
  <2>4. ~initialized' => count' = 0
    BY <1>1 DEF RingInv
  <2>5. IF Latency' = 1 THEN eligible_count' = 0 ELSE mature_ptr' = SlotOf(eligible_count + 1)'
    BY <1>1, <1>2, <2>2, Zenon DEF RingInv
  <2> QED BY <2>3, <2>4, <2>5, Zenon DEF RingInv
<1>7. TimingInv'
  BY <1>1, <1>2, <1>5, Zenon DEF TimingInv
<1>8. Contents' = Contents
  <2>1. Contents' = [i \in 1 .. count' |-> [token |-> storage'[SlotOf(i)'], left |-> Wait(i)']]
    BY Zenon DEF Contents
  <2> QED BY <1>1, <1>5, <2>1, Zenon DEF Contents
<1>9. clock' \in BOOLEAN => LaneTyped'
  BY <1>1, <1>2, <1>3, Zenon DEF LaneTyped
<1>10. Matures' = Matures
  <2>1. wrapTick(tick + 1)' = wrapTick(tick + 1)
    BY <1>1, <1>3, Zenon DEF wrapTick
  <2> QED BY <1>1, <2>1, Zenon DEF Matures
<1> QED BY <1>4, <1>6, <1>7, <1>8, <1>9, <1>10, Zenon

\* Nothing prepared fits every state.
LEMMA DiscardedFits ==
  ASSUME clock' \in BOOLEAN, pending' = Discarded'
  PROVE  PendingInv'
<1>1. Unknown' \in Payload'
  BY Zenon DEF Payload
<1>2. Discarded' = [valid |-> FALSE, clock |-> clock', reset |-> FALSE, push |-> FALSE,
                    pop |-> FALSE, advance |-> FALSE, mature |-> FALSE, token |-> Unknown]
  BY Zenon DEF Discarded
<1>3. PendingTyped'
  BY <1>1, <1>2, Zenon DEF PendingTyped
<1>4. /\ pending'.push = FALSE /\ pending'.pop = FALSE /\ pending'.advance = FALSE
      /\ pending'.mature = FALSE
  BY <1>2, Zenon
<1> QED BY <1>3, <1>4, Zenon DEF PendingInv

\* A committed reset empties the lane.
LEMMA ResetStep ==
  ASSUME LaneTyped, UNCHANGED <<shape, storage, deadline>>, initialized' = TRUE,
         rd' = 0, wr' = 0, count' = 0, tick' = 0, mature_ptr' = 0, eligible_count' = 0
  PROVE  /\ Contents' = <<>> /\ RingInv' /\ TimingInv'
         /\ (clock' \in BOOLEAN => LaneTyped')
<1>0. Depth \in Nat \ {0} /\ Latency \in Nat \ {0} /\ Modulus \in Nat \ {0}
  BY LaneNumbers
<1>1. Depth' = Depth /\ Latency' = Latency /\ Modulus' = Modulus /\ Slots' = Slots
  BY SameShape, Zenon
<1>2. Payload' = Payload /\ shape' = shape /\ storage' = storage /\ deadline' = deadline
  BY Zenon DEF Payload
<1>3. Contents' = <<>>
  <2>1. Contents' = [i \in 1 .. 0 |-> [token |-> storage'[SlotOf(i)'], left |-> Wait(i)']]
    BY Zenon DEF Contents
  <2>2. 1 .. 0 = {}
    OBVIOUS
  <2> QED BY <2>1, <2>2
<1>4. (0 + ((0 + 1) - 1)) % Depth = 0
  BY <1>0
<1>5. RingInv'
  <2>1. SlotOf(count + 1)' = (0 + ((0 + 1) - 1)) % Depth /\ SlotOf(eligible_count + 1)' = (0 + ((0 + 1) - 1)) % Depth
    BY <1>1, Zenon DEF SlotOf
  <2> QED BY <1>4, <2>1, Zenon DEF RingInv
<1>6. TimingInv'
  <2>1. 0 + 1 .. 0 = {}
    OBVIOUS
  <2>2. (eligible_count' + 1) .. count' = {}
    BY <2>1, Zenon
  <2> QED BY <2>2, Zenon DEF TimingInv
<1>7. 0 \in Slots /\ 0 \in 0 .. Modulus - 1 /\ 0 \in 0 .. Depth /\ 0 \in 0 .. 0
  BY <1>0 DEF Slots
<1>8. clock' \in BOOLEAN => LaneTyped'
  BY <1>1, <1>2, <1>7, Zenon DEF LaneTyped
<1> QED BY <1>3, <1>5, <1>6, <1>8, Zenon

\* A commit is a reset or an edge of the queue, or nothing that the queue shows.
LEMMA XferStep ==
  ASSUME LaneInv, Xfer, UNCHANGED shape
  PROVE  /\ LaneInv'
         /\ [Abstract!Next]_<<shape, initialized, Contents>>
<1>0. LaneTyped /\ RingInv /\ TimingInv /\ PendingInv /\ PendingTyped
  BY Zenon DEF LaneInv, PendingInv
<1>1. clock' \in BOOLEAN /\ pending' = Discarded'
  BY <1>0, Zenon DEF Xfer, PendingTyped
<1>2. PendingInv'
  BY <1>1, DiscardedFits, Zenon
<1>3. CASE pending.reset
  <2>1. Contents' = <<>> /\ RingInv' /\ TimingInv' /\ LaneTyped' /\ initialized' = TRUE
    BY <1>0, <1>1, <1>3, ResetStep, Zenon DEF Xfer
  <2>2. Abstract!Reset
    BY <2>1, Zenon DEF Abstract!Reset
  <2> QED BY <1>2, <2>1, <2>2, Zenon DEF LaneInv, Abstract!Next
<1>4. CASE ~pending.reset /\ ~initialized
  <2>1. UNCHANGED <<shape, initialized, ring, timing>>
    BY <1>4, Zenon DEF Xfer
  <2> QED BY <1>0, <1>1, <1>2, <2>1, LaneSame, Zenon DEF LaneInv
<1>5. CASE ~pending.reset /\ initialized /\ (Latency > 1 => pending.advance)
  <2>1. XferTiming /\ XferRing /\ UNCHANGED initialized
    BY <1>5, Zenon DEF Xfer
  <2>2. /\ \E pop \in BOOLEAN, pushed \in {<<>>} \cup {<<t>> : t \in Payload} :
              Abstract!Edge(pop, pushed)
        /\ RingInv' /\ TimingInv' /\ LaneTyped'
    BY <1>1, <1>5, <2>1, EdgeStep, Zenon
  <2> QED BY <1>2, <2>2, Zenon DEF LaneInv, Abstract!Next
<1>6. CASE ~pending.reset /\ initialized /\ Latency > 1 /\ ~pending.advance
  <2>1. pending.push = FALSE /\ pending.pop = FALSE /\ pending.mature = FALSE /\ pending.advance = FALSE
    BY <1>0, <1>6, Zenon DEF PendingInv, PendingTyped
  <2>2. Latency # 1
    BY <1>0, <1>6, LaneNumbers
  <2>3. UNCHANGED <<shape, initialized, ring, timing>>
    BY <1>6, <2>1, <2>2, Zenon DEF Xfer, XferTiming, XferRing, Step, ring, timing
  <2> QED BY <1>0, <1>1, <1>2, <2>3, LaneSame, Zenon DEF LaneInv
<1> QED BY <1>3, <1>4, <1>5, <1>6, Zenon

\* A transaction that moves nothing fits every state.
LEMMA IdleFits ==
  ASSUME NEW v \in BOOLEAN, NEW c \in BOOLEAN, NEW r \in BOOLEAN,
         pending' = [valid |-> v, clock |-> c, reset |-> r, push |-> FALSE, pop |-> FALSE,
                     advance |-> FALSE, mature |-> FALSE, token |-> Unknown]
  PROVE  PendingInv'
<1>1. Unknown \in Payload'
  BY Zenon DEF Payload
<1>2. PendingTyped'
  BY <1>1, Zenon DEF PendingTyped
<1>3. /\ pending'.push = FALSE /\ pending'.pop = FALSE /\ pending'.advance = FALSE
      /\ pending'.mature = FALSE
  BY Zenon
<1> QED BY <1>2, <1>3, Zenon DEF PendingInv

\* What a posedge without reset prepares.
LEMMA TransactionFits ==
  ASSUME LaneInv, NEW in_valid \in Pin, NEW in_data \in Payload, NEW out_ready \in Pin,
         And(readValid, out_ready) # "x", And(in_valid, readReady(out_ready)) # "x",
         pending' = Transaction(in_valid, in_data, out_ready),
         UNCHANGED <<shape, initialized, clock, ring, timing>>
  PROVE  PendingInv'
<1> DEFINE pop == And(readValid, out_ready) = "1"
           push == And(in_valid, readReady(out_ready)) = "1"
           timed == Latency > 1 /\ initialized
<1>0. LaneTyped /\ RingInv /\ TimingInv /\ initialized \in BOOLEAN
  BY Zenon DEF LaneInv, LaneTyped
<1>1. /\ eligibleCount' = eligibleCount /\ Matures' = Matures
  BY <1>0, LaneSame, Zenon
<1>2. /\ Depth' = Depth /\ Latency' = Latency /\ DownstreamPop' = DownstreamPop
      /\ Payload' = Payload /\ count' = count /\ initialized' = initialized
  BY SameShape, Zenon DEF Payload, ring
<1>3. pending' = [valid |-> TRUE, clock |-> TRUE, reset |-> FALSE, push |-> push, pop |-> pop,
                  advance |-> timed, mature |-> timed /\ Matures,
                  token |-> IF push THEN in_data ELSE Unknown]
  BY Zenon DEF Transaction, Discarded
<1>4. pop => initialized /\ eligibleCount # 0
  BY Zenon DEF And, readValid, Bit
<1>5. push => initialized /\ (count < Depth \/ (DownstreamPop /\ pop))
  BY Zenon DEF And, Or, readReady, Bit
<1>6. push \in BOOLEAN /\ pop \in BOOLEAN /\ timed \in BOOLEAN /\ (timed /\ Matures) \in BOOLEAN
      /\ (IF push THEN in_data ELSE Unknown) \in Payload
  BY Zenon DEF Payload
<1> HIDE DEF pop, push
<1>7. PendingTyped'
  <2>1. pending' \in [valid : BOOLEAN, clock : BOOLEAN, reset : BOOLEAN, push : BOOLEAN,
                      pop : BOOLEAN, advance : BOOLEAN, mature : BOOLEAN, token : Payload]
    <3> HIDE DEF timed
    <3> QED BY <1>3, <1>6
  <2> QED BY <1>2, <2>1, Zenon DEF PendingTyped
<1>8. /\ pending'.push = push /\ pending'.pop = pop /\ pending'.advance = timed
      /\ pending'.mature = (timed /\ Matures)
  <2> HIDE DEF timed
  <2> QED BY <1>3
<1>a. /\ push \/ pop \/ timed => initialized
      /\ timed => Latency > 1
      /\ Latency > 1 /\ (push \/ pop) => timed
  BY <1>4, <1>5, Zenon
<1>9. /\ pending'.push \/ pending'.pop \/ pending'.advance => initialized'
      /\ pending'.pop => eligibleCount' # 0
      /\ pending'.push => count' < Depth' \/ (DownstreamPop' /\ pending'.pop)
      /\ pending'.advance => Latency' > 1
      /\ Latency' > 1 /\ (pending'.push \/ pending'.pop) => pending'.advance
      /\ pending'.mature = (pending'.advance /\ Matures')
  <2> HIDE DEF timed
  <2>1. pending'.push \/ pending'.pop \/ pending'.advance => initialized'
    <3>1. initialized => initialized'
      BY <1>2
    <3> QED BY <1>8, <1>a, <3>1, Zenon
  <2>2. pending'.pop => eligibleCount' # 0
    BY <1>1, <1>4, <1>8, Zenon
  <2>3. pending'.push => count' < Depth' \/ (DownstreamPop' /\ pending'.pop)
    BY <1>2, <1>5, <1>8, Zenon
  <2>4. pending'.advance => Latency' > 1
    BY <1>2, <1>8, <1>a, Zenon
  <2>5. Latency' > 1 /\ (pending'.push \/ pending'.pop) => pending'.advance
    BY <1>2, <1>8, <1>a, Zenon
  <2>6. pending'.mature = (pending'.advance /\ Matures')
    BY <1>1, <1>8, Zenon
  <2> QED BY <2>1, <2>2, <2>3, <2>4, <2>5, <2>6, Zenon
<1> QED BY <1>7, <1>9, Zenon DEF PendingInv

\* An evaluation prepares a transaction that fits the state, or nothing.
LEMMA WorkFits ==
  ASSUME LaneInv, NEW clk \in Pin, NEW rst \in Pin, NEW in_valid \in Pin,
         NEW in_data \in Payload, NEW out_ready \in Pin,
         Work(clk, rst, in_valid, in_data, out_ready), UNCHANGED shape
  PROVE  PendingInv'
<1>0. clock \in BOOLEAN /\ (clk = "1") \in BOOLEAN
  BY Zenon DEF LaneInv, LaneTyped
<1>1. ASSUME NEW v \in BOOLEAN, NEW c \in BOOLEAN, NEW r \in BOOLEAN,
             pending' = [Discarded EXCEPT !.valid = v, !.clock = c, !.reset = r]
      PROVE  PendingInv'
  <2>1. pending' = [valid |-> v, clock |-> c, reset |-> r, push |-> FALSE, pop |-> FALSE,
                    advance |-> FALSE, mature |-> FALSE, token |-> Unknown]
    BY <1>1, Zenon DEF Discarded
  <2> QED BY <2>1, IdleFits, Zenon
<1>2. CASE pending' = Discarded
  <2>1. PICK c \in BOOLEAN : c = clock
    BY <1>0, Zenon
  <2>2. pending' = [valid |-> FALSE, clock |-> c, reset |-> FALSE, push |-> FALSE, pop |-> FALSE,
                    advance |-> FALSE, mature |-> FALSE, token |-> Unknown]
    BY <1>2, <2>1, Zenon DEF Discarded
  <2> QED BY <2>2, IdleFits, Zenon
<1>3. CASE pending' = [Discarded EXCEPT !.valid = TRUE, !.clock = clk = "1"]
  <2>1. PICK c \in BOOLEAN : c = (clk = "1")
    BY <1>0, Zenon
  <2>2. pending' = [Discarded EXCEPT !.valid = TRUE, !.clock = c]
    BY <1>3, <2>1, Zenon
  <2>3. pending' = [valid |-> TRUE, clock |-> c, reset |-> FALSE, push |-> FALSE, pop |-> FALSE,
                    advance |-> FALSE, mature |-> FALSE, token |-> Unknown]
    BY <2>2, Zenon DEF Discarded
  <2> QED BY <2>3, IdleFits, Zenon
<1>4. CASE pending' = [Discarded EXCEPT !.valid = TRUE, !.clock = TRUE, !.reset = TRUE]
  BY <1>1, <1>4, Zenon
<1>5. CASE /\ pending' = Transaction(in_valid, in_data, out_ready)
           /\ And(readValid, out_ready) # "x" /\ And(in_valid, readReady(out_ready)) # "x"
  <2>1. UNCHANGED <<shape, initialized, clock, ring, timing>>
    BY Zenon DEF Work
  <2> QED BY <1>5, <2>1, TransactionFits, Zenon
<1>6. \/ pending' = Discarded
      \/ pending' = [Discarded EXCEPT !.valid = TRUE, !.clock = clk = "1"]
      \/ pending' = [Discarded EXCEPT !.valid = TRUE, !.clock = TRUE, !.reset = TRUE]
      \/ pending' = Transaction(in_valid, in_data, out_ready)
  BY Zenon DEF Work
<1>7. And(readValid, out_ready) = "x" \/ And(in_valid, readReady(out_ready)) = "x"
        => Transaction(in_valid, in_data, out_ready) = Discarded
  BY Zenon DEF Transaction
<1> QED BY <1>2, <1>3, <1>4, <1>5, <1>6, <1>7, Zenon

\* A new lane satisfies the invariant and is an empty queue.
LEMMA LaneInitial ==
  ASSUME ShapesAssumption, Init
  PROVE  LaneInv /\ Abstract!Init
<1>0. /\ Depth \in Nat \ {0} /\ Latency \in Nat \ {0} /\ Modulus \in Nat \ {0}
      /\ shape \in [depth : Nat \ {0}, latency : Nat \ {0}, policy : {"LocalOccupancy", "DownstreamPop"}]
  <2>1. shape \in [depth : Nat \ {0}, latency : Nat \ {0}, policy : {"LocalOccupancy", "DownstreamPop"}]
    BY Zenon DEF Init, ShapesAssumption
  <2>2. Depth \in Nat \ {0} /\ Latency \in Nat \ {0}
    BY <2>1, Zenon DEF Depth, Latency
  <2>3. Latency - 1 \in Nat
    BY <2>2
  <2> QED BY <2>1, <2>2, <2>3, WidthHolds DEF Modulus
<1>1. LaneTyped
  <2>1. 0 \in Slots /\ 0 \in 0 .. Modulus - 1 /\ 0 \in 0 .. Depth /\ 0 \in 0 .. 0
    BY <1>0 DEF Slots
  <2>2. storage \in [Slots -> Payload] /\ deadline \in [Slots -> 0 .. Modulus - 1]
    BY <2>1, Zenon DEF Init, Payload
  <2> QED BY <1>0, <2>1, <2>2, Zenon DEF Init, LaneTyped
<1>2. RingInv
  BY <1>0 DEF Init, RingInv, SlotOf
<1>3. TimingInv
  BY <1>0 DEF Init, TimingInv
<1>4. PendingInv
  <2>1. pending = [valid |-> FALSE, clock |-> FALSE, reset |-> FALSE, push |-> FALSE, pop |-> FALSE,
                   advance |-> FALSE, mature |-> FALSE, token |-> Unknown]
    BY Zenon DEF Init, Discarded
  <2>2. PendingTyped
    BY <2>1, Zenon DEF PendingTyped, Payload
  <2>3. /\ pending.push = FALSE /\ pending.pop = FALSE /\ pending.advance = FALSE
        /\ pending.mature = FALSE
    BY <2>1, Zenon
  <2> QED BY <2>2, <2>3, Zenon DEF PendingInv
<1>5. Abstract!Init
  <2>1. count = 0 /\ initialized = FALSE
    BY Zenon DEF Init
  <2>2. 1 .. 0 = {}
    OBVIOUS
  <2> QED BY <2>1, <2>2 DEF Abstract!Init, Contents
<1> QED BY <1>1, <1>2, <1>3, <1>4, <1>5, Zenon DEF LaneInv

\* A step of the lane keeps the invariant, and is a step of the queue or shows nothing.
LEMMA LaneStep ==
  ASSUME LaneInv, [Next]_vars
  PROVE  LaneInv' /\ [Abstract!Next]_<<shape, initialized, Contents>>
<1>0. LaneTyped /\ RingInv /\ TimingInv /\ PendingInv /\ clock \in BOOLEAN
  BY Zenon DEF LaneInv, LaneTyped
<1>1. ASSUME UNCHANGED <<shape, initialized, clock, ring, timing>>, PendingInv'
      PROVE  LaneInv' /\ [Abstract!Next]_<<shape, initialized, Contents>>
  <2>1. clock' \in BOOLEAN /\ UNCHANGED <<shape, initialized, ring, timing>>
    BY <1>0, <1>1, Zenon
  <2>2. RingInv' /\ TimingInv' /\ Contents' = Contents /\ LaneTyped'
    BY <1>0, <2>1, LaneSame, Zenon
  <2> QED BY <1>1, <2>1, <2>2, Zenon DEF LaneInv
<1>2. ASSUME NEW clk \in Pin, NEW rst \in Pin, NEW in_valid \in Pin,
             NEW in_data \in Payload, NEW out_ready \in Pin,
             Work(clk, rst, in_valid, in_data, out_ready), UNCHANGED shape
      PROVE  LaneInv' /\ [Abstract!Next]_<<shape, initialized, Contents>>
  <2>1. PendingInv'
    BY <1>2, WorkFits, Zenon
  <2>2. UNCHANGED <<shape, initialized, clock, ring, timing>>
    BY <1>2, Zenon DEF Work
  <2> QED BY <1>1, <2>1, <2>2, Zenon
<1>3. CASE Discard /\ UNCHANGED shape
  <2>1. clock' = clock /\ pending' = Discarded /\ UNCHANGED <<shape, initialized, clock, ring, timing>>
    BY <1>3, Zenon DEF Discard
  <2>2. Discarded' = Discarded
    BY <2>1, Zenon DEF Discarded
  <2>3. PendingInv'
    BY <1>0, <2>1, <2>2, DiscardedFits, Zenon
  <2> QED BY <1>1, <2>1, <2>3, Zenon
<1>4. CASE Reset /\ UNCHANGED shape
  <2>1. pending' = [valid |-> TRUE, clock |-> FALSE, reset |-> TRUE, push |-> FALSE, pop |-> FALSE,
                    advance |-> FALSE, mature |-> FALSE, token |-> Unknown]
    BY <1>4, Zenon DEF Reset, Discarded
  <2>2. PendingInv'
    BY <2>1, IdleFits, Zenon
  <2>3. UNCHANGED <<shape, initialized, clock, ring, timing>>
    BY <1>4, Zenon DEF Reset
  <2> QED BY <1>1, <2>2, <2>3, Zenon
<1>5. CASE Xfer /\ UNCHANGED shape
  BY <1>5, XferStep, Zenon
<1>6. CASE UNCHANGED vars
  <2>1. UNCHANGED <<shape, initialized, clock, ring, timing>> /\ pending' = pending
    BY <1>6, Zenon DEF vars
  <2>2. eligibleCount' = eligibleCount /\ Matures' = Matures
    BY <1>0, <2>1, LaneSame, Zenon
  <2>3. Depth' = Depth /\ Latency' = Latency /\ DownstreamPop' = DownstreamPop /\ Payload' = Payload
        /\ count' = count /\ initialized' = initialized
    BY <2>1, SameShape, Zenon DEF Payload, ring
  <2>4. PendingInv'
    <3>1. PendingTyped'
      BY <1>0, <2>1, <2>3, Zenon DEF PendingInv, PendingTyped
    <3>2. /\ pending'.push \/ pending'.pop \/ pending'.advance => initialized'
          /\ pending'.pop => eligibleCount' # 0
          /\ pending'.advance => Latency' > 1
      <4>1. initialized => initialized'
        BY <2>3, Zenon
      <4> QED BY <1>0, <2>1, <2>2, <2>3, <4>1, Zenon DEF PendingInv
    <3>3. Latency' > 1 /\ (pending'.push \/ pending'.pop) => pending'.advance
      BY <1>0, <2>1, <2>3, Zenon DEF PendingInv
    <3>4. pending'.push => count' < Depth' \/ (DownstreamPop' /\ pending'.pop)
      BY <1>0, <2>1, <2>3, Zenon DEF PendingInv
    <3>5. pending'.mature = (pending'.advance /\ Matures')
      BY <1>0, <2>1, <2>2, Zenon DEF PendingInv
    <3> QED BY <3>1, <3>2, <3>3, <3>4, <3>5, Zenon DEF PendingInv
  <2> QED BY <1>1, <2>1, <2>4, Zenon
<1> QED BY <1>2, <1>3, <1>4, <1>5, <1>6, Zenon DEF Next

\* A lane keeps its entries between rd and wr, and no deadline is ever passed.
THEOREM LaneInvariant == Spec => []LaneInv
<1>0. ShapesAssumption
  BY ShapesAssumption
<1>1. Init => LaneInv
  BY <1>0, LaneInitial, Zenon
<1>2. LaneInv /\ [Next]_vars => LaneInv'
  BY LaneStep, Zenon
<1> QED BY <1>1, <1>2, PTL DEF Spec

\* The ring of fifo.h with its wrapping timestamps implements a queue whose
\* entries age one by one (module LatencyQueue), for every depth, latency, policy
\* and payload, through reset, held clocks and discarded transactions.
THEOREM QueueRefinement == Spec => ImplementsQueue
<1>0. ShapesAssumption
  BY ShapesAssumption
<1>1. Init => LaneInv /\ Abstract!Init
  BY <1>0, LaneInitial, Zenon
<1>2. LaneInv /\ [Next]_vars => LaneInv' /\ [Abstract!Next]_<<shape, initialized, Contents>>
  BY LaneStep, Zenon
<1> QED BY <1>1, <1>2, PTL DEF Spec, ImplementsQueue, Abstract!Spec

\* The leaf's names for what the kernel also has.
LEMMA VerilogNames ==
  /\ Verilog!Depth = Depth /\ Verilog!Latency = Latency /\ Verilog!Slots = Slots
  /\ Verilog!DownstreamPop = DownstreamPop
  /\ Verilog!CountModulus = Width[Depth] /\ Verilog!TimestampModulus = Modulus
  /\ Verilog!Delay = Latency - 1
  /\ \A a, b : Verilog!And(a, b) = And(a, b) /\ Verilog!Or(a, b) = Or(a, b)
  /\ \A b : Verilog!Bit(b) = Bit(b)
  /\ \A s : Verilog!Next1(s) = Succ(s)
<1>1. /\ Verilog!Depth = Depth /\ Verilog!Latency = Latency
      /\ Verilog!DownstreamPop = DownstreamPop
  BY Zenon DEF Verilog!Depth, Verilog!Latency, Verilog!DownstreamPop, Depth, Latency, DownstreamPop
<1>2. Verilog!Width = Width
  BY Zenon DEF Verilog!Width, Width
<1>3. Verilog!Slots = Slots /\ Verilog!CountModulus = Width[Depth]
      /\ Verilog!TimestampModulus = Modulus /\ Verilog!Delay = Latency - 1
  BY <1>1, <1>2, Zenon DEF Verilog!Slots, Slots, Verilog!CountModulus, Verilog!TimestampModulus,
                           Modulus, Verilog!Delay
<1>4. /\ \A a, b : Verilog!And(a, b) = And(a, b) /\ Verilog!Or(a, b) = Or(a, b)
      /\ \A b : Verilog!Bit(b) = Bit(b)
  BY Zenon DEF Verilog!And, Verilog!Or, Verilog!Bit, And, Or, Bit
<1>5. \A s : Verilog!Next1(s) = Succ(s)
  BY <1>1, Zenon DEF Verilog!Next1, Succ
<1> QED BY <1>1, <1>3, <1>4, <1>5, Zenon

\* The leaf's counters are wide enough.
LEMMA CountAgrees ==
  ASSUME LaneTyped, NEW n \in 0 .. Depth, NEW up \in BOOLEAN, NEW down \in BOOLEAN,
         up /\ ~down => n < Depth, down /\ ~up => n # 0
  PROVE  Verilog!Count(n, up, down) = Step(up, down, n)
<1>1. Depth \in Nat \ {0} /\ Width[Depth] \in Nat /\ Depth < Width[Depth]
  BY LaneNumbers, WidthHolds, Zenon
<1>2. PICK d \in Nat : d = Width[Depth]
  BY <1>1, Zenon
<1>3. ASSUME NEW k \in 0 .. Depth PROVE k % d = k
  BY <1>1, <1>2
<1>4. Verilog!Count(n, up, down) = IF up = down THEN n ELSE (IF up THEN n + 1 ELSE n - 1) % d
  BY <1>2, VerilogNames, Zenon DEF Verilog!Count
<1>5. CASE up = down
  BY <1>4, <1>5, Zenon DEF Step
<1>6. CASE up /\ ~down
  <2>1. n + 1 \in 0 .. Depth
    BY <1>1, <1>6
  <2> QED BY <1>3, <1>4, <1>6, <2>1, Zenon DEF Step
<1>7. CASE down /\ ~up
  <2>1. n - 1 \in 0 .. Depth
    BY <1>1, <1>7
  <2> QED BY <1>3, <1>4, <1>7, <2>1, Zenon DEF Step
<1> QED BY <1>5, <1>6, <1>7, Zenon

\* The combinational outputs of the kernel and of the leaf are the same.
LEMMA OutputsAgree ==
  ASSUME LaneInv, SameLane
  PROVE  /\ readValid = Verilog!out_valid
         /\ \A r : readReady(r) = Verilog!in_ready(r)
         /\ \A r : And(readValid, r) = Verilog!do_pop(r)
         /\ \A v, r : And(v, readReady(r)) = Verilog!do_push(v, r)
         /\ readValid = "1" => storage[rd] = v_storage[v_rd]
<1>0. LaneTyped /\ Latency \in Nat \ {0}
  BY LaneNumbers, Zenon DEF LaneInv
<1>1. readValid = Verilog!out_valid
  <2>1. CASE ~initialized
    BY <2>1, Zenon DEF SameLane, readValid, Verilog!out_valid
  <2>2. CASE initialized /\ Latency = 1
    BY <2>2, VerilogNames, Zenon DEF SameLane, readValid, Verilog!out_valid, eligibleCount
  <2>3. CASE initialized /\ Latency # 1
    <3>1. Latency > 1
      BY <1>0, <2>3
    <3> QED BY <2>3, <3>1, VerilogNames, Zenon DEF SameLane, readValid, Verilog!out_valid, eligibleCount
  <2> QED BY <2>1, <2>2, <2>3, Zenon
<1>2. \A r : And(readValid, r) = Verilog!do_pop(r)
  BY <1>1, VerilogNames, Zenon DEF Verilog!do_pop
<1>3. ASSUME NEW r PROVE readReady(r) = Verilog!in_ready(r)
  <2>1. CASE ~initialized
    BY <2>1, Zenon DEF SameLane, readReady, Verilog!in_ready
  <2>2. CASE initialized
    BY <1>2, <2>2, VerilogNames, Zenon DEF SameLane, readReady, Verilog!in_ready
  <2> QED BY <2>1, <2>2, Zenon
<1>4. \A v, r : And(v, readReady(r)) = Verilog!do_push(v, r)
  BY <1>3, VerilogNames, Zenon DEF Verilog!do_push
<1>5. readValid = "1" => storage[rd] = v_storage[v_rd]
  BY Zenon DEF SameLane, readValid
<1> QED BY <1>1, <1>2, <1>3, <1>4, <1>5, Zenon

\* A candidate that holds everything goes with a transaction that moves nothing.
LEMMA HoldOutcome ==
  ASSUME LaneInv, SameLane, NEW k \in BOOLEAN, NEW t,
         t = [valid |-> TRUE, clock |-> k, reset |-> FALSE, push |-> FALSE, pop |-> FALSE,
              advance |-> FALSE, mature |-> FALSE, token |-> Unknown],
         NEW c, c = Verilog!Hold(k)
  PROVE  CandidateInv(c, t)
<1>1. /\ c.clock = k /\ c.initialized = v_initialized /\ c.rd = v_rd /\ c.wr = v_wr
      /\ c.count = v_count /\ c.write_token = FALSE /\ c.tick = v_tick
      /\ c.mature_ptr = v_mature_ptr /\ c.eligible_count = v_eligible_count
  BY Zenon DEF Verilog!Hold
<1>2. /\ t.clock = k /\ t.reset = FALSE /\ t.push = FALSE /\ t.pop = FALSE
      /\ t.advance = FALSE /\ t.mature = FALSE
  BY Zenon
<1>3. initialized \in BOOLEAN
  BY Zenon DEF LaneInv, LaneTyped
<1>4. /\ c.clock = t.clock /\ c.initialized = (initialized \/ t.reset)
      /\ c.write_token = t.push
  BY <1>1, <1>2, <1>3, Zenon DEF SameLane
<1>5. initialized =>
       /\ c.rd = IF t.pop THEN Succ(rd) ELSE rd
       /\ c.wr = IF t.push THEN Succ(wr) ELSE wr
       /\ c.count = Step(t.push, t.pop, count)
  BY <1>1, <1>2, Zenon DEF SameLane, Step
<1>6. initialized /\ Latency > 1 =>
       /\ c.tick = IF t.advance THEN wrapTick(tick + 1) ELSE tick
       /\ c.mature_ptr = IF t.mature THEN Succ(mature_ptr) ELSE mature_ptr
       /\ c.eligible_count = Step(t.mature, t.pop, eligible_count)
  BY <1>1, <1>2, Zenon DEF SameLane, Step
<1> QED BY <1>2, <1>4, <1>5, <1>6, Zenon DEF CandidateInv

\* Under reset the leaf's candidate is what the kernel has prepared.
LEMMA ResetOutcome ==
  ASSUME LaneInv, SameLane, NEW k \in BOOLEAN, NEW t,
         t = [valid |-> TRUE, clock |-> k, reset |-> TRUE, push |-> FALSE, pop |-> FALSE,
              advance |-> FALSE, mature |-> FALSE, token |-> Unknown],
         NEW c, c = Verilog!ResetCandidate(k)
  PROVE  CandidateInv(c, t)
<1>1. /\ c.clock = k /\ c.initialized = TRUE /\ c.rd = 0 /\ c.wr = 0
      /\ c.count = 0 /\ c.write_token = FALSE /\ c.tick = 0
      /\ c.mature_ptr = 0 /\ c.eligible_count = 0
  BY Zenon DEF Verilog!ResetCandidate, Verilog!Hold
<1>2. t.clock = k /\ t.reset = TRUE
  BY Zenon
<1>3. c.initialized = (initialized \/ t.reset)
  BY <1>1, <1>2, Zenon
<1> QED BY <1>1, <1>2, <1>3, Zenon DEF CandidateInv

\* The transition at an edge is the one that the kernel's transaction stands for.
LEMMA TransitionOutcome ==
  ASSUME LaneInv, SameLane, initialized,
         NEW push \in BOOLEAN, NEW pop \in BOOLEAN, NEW token,
         pop => eligibleCount # 0, push => count < Depth \/ pop,
         NEW t, t = [valid |-> TRUE, clock |-> TRUE, reset |-> FALSE, push |-> push, pop |-> pop,
                     advance |-> Latency > 1 /\ initialized,
                     mature |-> (Latency > 1 /\ initialized) /\ Matures,
                     token |-> IF push THEN token ELSE Unknown],
         NEW c, c = Verilog!Transition(push, pop, token)
  PROVE  CandidateInv(c, t)
<1>0. /\ LaneTyped /\ RingInv /\ Depth \in Nat \ {0} /\ Latency \in Nat \ {0}
      /\ count \in Nat /\ count <= Depth /\ eligible_count \in Nat /\ eligible_count <= count
  BY LaneNumbers, Zenon DEF LaneInv
<1>r. v_rd = rd /\ v_wr = wr /\ v_count = count /\ v_initialized = TRUE
  BY Zenon DEF SameLane
<1> DEFINE now == (v_tick + 1) % Verilog!TimestampModulus
           mature == /\ Verilog!Latency > 1
                     /\ v_count > v_eligible_count
                     /\ v_deadline[v_mature_ptr] = now
<1>1. c = [Verilog!Hold(TRUE) EXCEPT
             !.wr = IF push THEN Verilog!Next1(v_wr) ELSE v_wr,
             !.rd = IF pop THEN Verilog!Next1(v_rd) ELSE v_rd,
             !.count = Verilog!Count(v_count, push, pop),
             !.write_token = push,
             !.token = IF push THEN token ELSE Unknown,
             !.tick = now,
             !.mature_ptr = IF mature THEN Verilog!Next1(v_mature_ptr) ELSE v_mature_ptr,
             !.eligible_count = IF Verilog!Latency = 1 THEN v_eligible_count
                                ELSE Verilog!Count(v_eligible_count, mature, pop),
             !.write_deadline = IF push THEN (now + Verilog!Delay) % Verilog!TimestampModulus
                                ELSE Unknown]
  BY Zenon DEF Verilog!Transition
<1>m. mature \in BOOLEAN
  BY Zenon
<1> HIDE DEF now, mature
<1>2. /\ c.clock = TRUE /\ c.initialized = v_initialized
      /\ c.wr = IF push THEN Verilog!Next1(v_wr) ELSE v_wr
      /\ c.rd = IF pop THEN Verilog!Next1(v_rd) ELSE v_rd
      /\ c.count = Verilog!Count(v_count, push, pop)
      /\ c.write_token = push
      /\ push => c.token = token
      /\ c.tick = now
      /\ c.mature_ptr = IF mature THEN Verilog!Next1(v_mature_ptr) ELSE v_mature_ptr
      /\ Verilog!Latency # 1 => c.eligible_count = Verilog!Count(v_eligible_count, mature, pop)
      /\ push => c.write_deadline = (now + Verilog!Delay) % Verilog!TimestampModulus
  BY <1>1 DEF Verilog!Hold
<1>3. /\ t.clock = TRUE /\ t.reset = FALSE /\ t.push = push /\ t.pop = pop
      /\ t.advance = (Latency > 1 /\ initialized)
      /\ t.mature = ((Latency > 1 /\ initialized) /\ Matures)
      /\ push => t.token = token
  BY Zenon
<1>4. c.count = Step(push, pop, count)
  <2>1. count \in 0 .. Depth /\ (pop => count # 0)
    BY <1>0 DEF eligibleCount
  <2>2. Verilog!Count(count, push, pop) = Step(push, pop, count)
    BY <1>0, <2>1, CountAgrees, Zenon
  <2> QED BY <1>2, <1>r, <2>2, Zenon
<1>5. ASSUME Latency > 1
      PROVE  /\ c.tick = wrapTick(tick + 1)
             /\ c.mature_ptr = IF Matures THEN Succ(mature_ptr) ELSE mature_ptr
             /\ c.eligible_count = Step(Matures, pop, eligible_count)
             /\ push => c.write_deadline = DeadlineFrom(c.tick)
  <2>0. v_tick = tick /\ v_mature_ptr = mature_ptr /\ v_eligible_count = eligible_count
        /\ \A i \in eligible_count + 1 .. count : v_deadline[SlotOf(i)] = deadline[SlotOf(i)]
    BY <1>5, Zenon DEF SameLane
  <2>1. now = wrapTick(tick + 1)
    BY <2>0, VerilogNames, Zenon DEF now, wrapTick
  <2>2. Latency # 1 /\ mature_ptr = SlotOf(eligible_count + 1)
    BY <1>0, <1>5 DEF RingInv
  <2>3. count > eligible_count => v_deadline[mature_ptr] = deadline[mature_ptr]
    <3>1. count > eligible_count => eligible_count + 1 \in eligible_count + 1 .. count
      BY <1>0
    <3> QED BY <2>0, <2>2, <3>1, Zenon
  <2>4. mature <=> Matures
    BY <1>r, <1>5, <2>0, <2>1, <2>3, VerilogNames, Zenon DEF mature, Matures
  <2>5. Verilog!Count(eligible_count, mature, pop) = Step(mature, pop, eligible_count)
    <3>1. eligible_count \in 0 .. Depth /\ (pop => eligible_count # 0)
      BY <1>0, <2>2 DEF eligibleCount
    <3>2. mature => eligible_count < Depth
      BY <1>0, <2>4 DEF Matures
    <3> QED BY <1>0, <1>m, <3>1, <3>2, CountAgrees, Zenon
  <2>6. c.eligible_count = Step(mature, pop, eligible_count)
    BY <1>2, <2>0, <2>2, <2>5, VerilogNames, Zenon
  <2>7. c.eligible_count = Step(Matures, pop, eligible_count)
    <3>1. CASE Matures
      BY <2>4, <2>6, <3>1, Zenon DEF Step
    <3>2. CASE ~Matures
      BY <2>4, <2>6, <3>2, Zenon DEF Step
    <3> QED BY <3>1, <3>2, Zenon
  <2>8. c.mature_ptr = IF Matures THEN Succ(mature_ptr) ELSE mature_ptr
    BY <1>2, <2>0, <2>4, VerilogNames, Zenon
  <2>9. push => c.write_deadline = DeadlineFrom(c.tick)
    BY <1>2, VerilogNames, Zenon DEF DeadlineFrom, wrapTick
  <2> QED BY <1>2, <2>1, <2>7, <2>8, <2>9, Zenon
<1>6. /\ c.clock = t.clock /\ c.initialized = (initialized \/ t.reset) /\ c.write_token = t.push
      /\ t.push => c.token = t.token
  BY <1>2, <1>3, <1>r, Zenon
<1>7. /\ c.rd = IF t.pop THEN Succ(rd) ELSE rd
      /\ c.wr = IF t.push THEN Succ(wr) ELSE wr
      /\ c.count = Step(t.push, t.pop, count)
  BY <1>2, <1>3, <1>4, <1>r, VerilogNames, Zenon
<1>8. Latency > 1 =>
       /\ c.tick = IF t.advance THEN wrapTick(tick + 1) ELSE tick
       /\ c.mature_ptr = IF t.mature THEN Succ(mature_ptr) ELSE mature_ptr
       /\ c.eligible_count = Step(t.mature, t.pop, eligible_count)
       /\ t.push => c.write_deadline = DeadlineFrom(c.tick)
  <2> SUFFICES ASSUME Latency > 1
               PROVE /\ c.tick = IF t.advance THEN wrapTick(tick + 1) ELSE tick
                     /\ c.mature_ptr = IF t.mature THEN Succ(mature_ptr) ELSE mature_ptr
                     /\ c.eligible_count = Step(t.mature, t.pop, eligible_count)
                     /\ t.push => c.write_deadline = DeadlineFrom(c.tick)
    BY Zenon
  <2>1. t.advance = TRUE /\ (t.mature <=> Matures)
    BY <1>3, Zenon
  <2>2. Step(t.mature, t.pop, eligible_count) = Step(Matures, pop, eligible_count)
    <3>1. CASE Matures
      BY <1>3, <2>1, <3>1, Zenon DEF Step
    <3>2. CASE ~Matures
      <4>1. t.mature = FALSE /\ t.pop = pop
        BY <1>3, <3>2, Zenon
      <4>2. Matures = FALSE
        BY <3>2, Zenon DEF Matures
      <4> QED BY <4>1, <4>2, Zenon DEF Step
    <3> QED BY <3>1, <3>2, Zenon
  <2> QED BY <1>3, <1>5, <2>1, <2>2, Zenon
<1> QED BY <1>3, <1>6, <1>7, <1>8, Zenon DEF CandidateInv

\* A step that changes no register keeps the registers equal.
LEMMA SameLaneKept ==
  ASSUME SameLane, UNCHANGED <<shape, initialized, clock, ring, timing>>,
         UNCHANGED Verilog!registers
  PROVE  SameLane'
<1>1. /\ shape' = shape /\ initialized' = initialized /\ clock' = clock
      /\ storage' = storage /\ rd' = rd /\ wr' = wr /\ count' = count
      /\ deadline' = deadline /\ tick' = tick /\ mature_ptr' = mature_ptr
      /\ eligible_count' = eligible_count
  BY Zenon DEF ring, timing
<1>2. /\ v_initialized' = v_initialized /\ v_clock' = v_clock /\ v_storage' = v_storage
      /\ v_rd' = v_rd /\ v_wr' = v_wr /\ v_count' = v_count /\ v_deadline' = v_deadline
      /\ v_tick' = v_tick /\ v_mature_ptr' = v_mature_ptr
      /\ v_eligible_count' = v_eligible_count
  BY Zenon DEF Verilog!registers
<1>3. Depth' = Depth /\ Latency' = Latency /\ Slots' = Slots
  BY <1>1, SameShape, Zenon
<1>4. ASSUME NEW i PROVE SlotOf(i)' = SlotOf(i)
  BY <1>1, <1>3, Zenon DEF SlotOf
<1>5. v_initialized' = initialized' /\ v_clock' = clock' /\ v_storage' = storage'
      /\ DOMAIN v_deadline' = Slots'
  BY <1>1, <1>2, <1>3, Zenon DEF SameLane
<1>6. ASSUME initialized' PROVE v_rd' = rd' /\ v_wr' = wr' /\ v_count' = count'
  BY <1>1, <1>2, <1>6 DEF SameLane
<1>7. ASSUME initialized', Latency' > 1
      PROVE  /\ v_tick' = tick' /\ v_mature_ptr' = mature_ptr' /\ v_eligible_count' = eligible_count'
             /\ \A i \in eligible_count' + 1 .. count' : v_deadline'[SlotOf(i)'] = deadline'[SlotOf(i)']
  <2>1. initialized /\ Latency > 1
    BY <1>1, <1>3, <1>7
  <2>2. /\ v_tick = tick /\ v_mature_ptr = mature_ptr /\ v_eligible_count = eligible_count
        /\ \A i \in eligible_count + 1 .. count : v_deadline[SlotOf(i)] = deadline[SlotOf(i)]
    BY <2>1, Zenon DEF SameLane
  <2> QED BY <1>1, <1>2, <1>4, <2>2, Zenon
<1> QED BY <1>5, <1>6, <1>7, Zenon DEF SameLane

\* A step that changes no register keeps a candidate matched.
LEMMA CandidateKept ==
  ASSUME UNCHANGED <<shape, initialized, clock, ring, timing>>,
         CandidateInv(v_candidate', pending')
  PROVE  CandidateInv(v_candidate, pending)'
<1>1. /\ initialized' = initialized /\ rd' = rd /\ wr' = wr /\ count' = count
      /\ tick' = tick /\ mature_ptr' = mature_ptr /\ eligible_count' = eligible_count
  BY Zenon DEF ring, timing
<1>2. Depth' = Depth /\ Latency' = Latency /\ Modulus' = Modulus
  BY SameShape, Zenon
<1>3. Succ(rd)' = Succ(rd) /\ Succ(wr)' = Succ(wr) /\ Succ(mature_ptr)' = Succ(mature_ptr)
  BY <1>1, <1>2, Zenon DEF Succ
<1>4. wrapTick(tick + 1)' = wrapTick(tick + 1)
  BY <1>1, <1>2, Zenon DEF wrapTick
<1>5. DeadlineFrom(v_candidate.tick)' = DeadlineFrom(v_candidate'.tick)
  BY <1>2, Zenon DEF DeadlineFrom, wrapTick
<1>6. Step(pending.push, pending.pop, count)' = Step(pending'.push, pending'.pop, count)
      /\ Step(pending.mature, pending.pop, eligible_count)' = Step(pending'.mature, pending'.pop, eligible_count)
  BY <1>1, Zenon DEF Step
<1> DEFINE c == v_candidate'
           t == pending'
<1>7. /\ c.clock = t.clock /\ c.initialized = (initialized' \/ t.reset)
  BY <1>1 DEF CandidateInv
<1>8. /\ t.reset =>
           /\ c.rd = 0 /\ c.wr = 0 /\ c.count = 0 /\ ~c.write_token
           /\ c.tick = 0 /\ c.mature_ptr = 0 /\ c.eligible_count = 0
      /\ ~t.reset => c.write_token = t.push /\ (t.push => c.token = t.token)
  BY Zenon DEF CandidateInv
<1>9. ~t.reset /\ initialized' =>
       /\ c.rd = IF t.pop THEN Succ(rd)' ELSE rd'
       /\ c.wr = IF t.push THEN Succ(wr)' ELSE wr'
       /\ c.count = Step(pending.push, pending.pop, count)'
  <2>1. initialized' => initialized
    BY <1>1
  <2> QED BY <1>1, <1>3, <1>6, <2>1, Zenon DEF CandidateInv
<1>10. ~t.reset /\ initialized' /\ Latency' > 1 =>
       /\ c.tick = IF t.advance THEN wrapTick(tick + 1)' ELSE tick'
       /\ c.mature_ptr = IF t.mature THEN Succ(mature_ptr)' ELSE mature_ptr'
       /\ c.eligible_count = Step(pending.mature, pending.pop, eligible_count)'
       /\ t.push => c.write_deadline = DeadlineFrom(v_candidate.tick)'
  <2>1. initialized' => initialized
    BY <1>1
  <2>2. Latency' > 1 => Latency > 1
    BY <1>2, Zenon
  <2> QED BY <1>1, <1>3, <1>4, <1>5, <1>6, <2>1, <2>2, Zenon DEF CandidateInv
<1> QED BY <1>7, <1>8, <1>9, <1>10, Zenon DEF CandidateInv

\* The kernel throws exactly where the leaf reports an error, and otherwise they
\* prepare the same.
LEMMA EvaluateAlike ==
  ASSUME LockstepInv, NEW clk \in Pin, NEW rst \in Pin, NEW in_valid \in Pin,
         NEW in_data \in Payload, NEW out_ready \in Pin,
         BothEvaluate(clk, rst, in_valid, in_data, out_ready), UNCHANGED shape
  PROVE  PreparedAlike'
<1> DEFINE push == And(in_valid, readReady(out_ready))
           pop == And(readValid, out_ready)
           error == Verilog!ControlError(clk, rst, push, pop)
<1>0. LaneInv /\ SameLane /\ clock \in BOOLEAN /\ initialized \in BOOLEAN /\ v_clock = clock
      /\ v_initialized = initialized
  BY Zenon DEF LockstepInv, LaneInv, LaneTyped, SameLane
<1>1. UNCHANGED <<shape, initialized, clock, ring, timing>>
  BY Zenon DEF BothEvaluate, Work
<1>2. pending' =
       IF clk = "x" THEN Discarded
       ELSE IF clock \/ clk = "0" THEN [Discarded EXCEPT !.valid = TRUE, !.clock = clk = "1"]
       ELSE IF rst = "x" THEN Discarded
       ELSE IF rst = "1" THEN [Discarded EXCEPT !.valid = TRUE, !.clock = TRUE, !.reset = TRUE]
       ELSE Transaction(in_valid, in_data, out_ready)
  BY Zenon DEF BothEvaluate, Work
<1>3. /\ push = Verilog!do_push(in_valid, out_ready) /\ pop = Verilog!do_pop(out_ready)
  BY <1>0, OutputsAgree, Zenon
<1>4. /\ v_error' = error /\ v_pending_valid' = ~error
      /\ v_candidate' = IF error THEN Verilog!Hold(v_clock)
                        ELSE IF ~Verilog!Rising(clk) THEN Verilog!Hold(clk = "1")
                        ELSE IF rst = "1" THEN Verilog!ResetCandidate(TRUE)
                        ELSE IF v_initialized THEN Verilog!Transition(push = "1", pop = "1", in_data)
                        ELSE Verilog!Hold(TRUE)
  BY <1>3, Zenon DEF BothEvaluate, Verilog!Prepare
<1>5. Verilog!Rising(clk) <=> ~clock /\ clk = "1"
  BY <1>0, Zenon DEF Verilog!Rising
<1>6. error <=> clk = "x" \/ (~clock /\ clk = "1" /\ (rst = "x" \/ (rst = "0" /\ (push = "x" \/ pop = "x"))))
  BY <1>5, Zenon DEF Verilog!ControlError
<1>7. error \in BOOLEAN
  BY Zenon DEF Verilog!ControlError
<1>8. ASSUME error, pending' = Discarded PROVE PreparedAlike'
  <2>1. v_error' = TRUE /\ v_pending_valid' = FALSE
    BY <1>4, <1>7, <1>8, Zenon
  <2>2. pending'.valid = FALSE
    BY <1>8, Zenon DEF Discarded
  <2> QED BY <2>1, <2>2, Zenon DEF PreparedAlike
<1>9. ASSUME ~error, pending'.valid = TRUE, CandidateInv(v_candidate', pending') PROVE PreparedAlike'
  <2>1. v_error' = FALSE /\ v_pending_valid' = TRUE
    BY <1>4, <1>7, <1>9, Zenon
  <2>2. CandidateInv(v_candidate, pending)'
    BY <1>1, <1>9, CandidateKept, Zenon
  <2> QED BY <1>9, <2>1, <2>2, Zenon DEF PreparedAlike
<1>10. ASSUME NEW k \in BOOLEAN, ~error, v_candidate' = Verilog!Hold(k),
              pending' = [valid |-> TRUE, clock |-> k, reset |-> FALSE, push |-> FALSE, pop |-> FALSE,
                          advance |-> FALSE, mature |-> FALSE, token |-> Unknown]
       PROVE  PreparedAlike'
  <2>1. CandidateInv(v_candidate', pending')
    BY <1>0, <1>10, HoldOutcome, Zenon
  <2>2. pending'.valid = TRUE
    BY <1>10, Zenon
  <2> QED BY <1>9, <1>10, <2>1, <2>2, Zenon
<1>11. CASE clk = "x" \/ (~clock /\ clk = "1" /\ rst = "x")
  <2>1. error
    BY <1>6, <1>11, Zenon
  <2>2. pending' = Discarded
    BY <1>2, <1>11, Zenon
  <2> QED BY <1>8, <2>1, <2>2, Zenon
<1>12. CASE clk # "x" /\ (clock \/ clk = "0")
  <2>1. ~error /\ ~Verilog!Rising(clk)
    BY <1>5, <1>6, <1>12, Zenon
  <2>2. PICK k \in BOOLEAN : k = (clk = "1")
    BY Zenon
  <2>3. v_candidate' = Verilog!Hold(k)
    BY <1>4, <2>1, <2>2, Zenon
  <2>4. pending' = [Discarded EXCEPT !.valid = TRUE, !.clock = k]
    BY <1>2, <1>12, <2>2, Zenon
  <2>5. pending' = [valid |-> TRUE, clock |-> k, reset |-> FALSE, push |-> FALSE, pop |-> FALSE,
                    advance |-> FALSE, mature |-> FALSE, token |-> Unknown]
    BY <2>4, Zenon DEF Discarded
  <2> QED BY <1>10, <2>1, <2>3, <2>5, Zenon
<1>13. CASE ~clock /\ clk = "1" /\ rst = "1"
  <2>1. ~error /\ Verilog!Rising(clk)
    BY <1>5, <1>6, <1>13, Zenon
  <2>2. pending' = [valid |-> TRUE, clock |-> TRUE, reset |-> TRUE, push |-> FALSE, pop |-> FALSE,
                    advance |-> FALSE, mature |-> FALSE, token |-> Unknown]
    BY <1>2, <1>13, Zenon DEF Discarded
  <2>3. v_candidate' = Verilog!ResetCandidate(TRUE)
    BY <1>4, <1>13, <2>1, Zenon
  <2>4. CandidateInv(v_candidate', pending')
    BY <1>0, <2>2, <2>3, ResetOutcome, Zenon
  <2>5. pending'.valid = TRUE
    BY <2>2, Zenon
  <2> QED BY <1>9, <2>1, <2>4, <2>5, Zenon
<1>14. CASE ~clock /\ clk = "1" /\ rst = "0"
  <2>0. pending' = Transaction(in_valid, in_data, out_ready)
    BY <1>2, <1>14, Zenon
  <2>1. CASE push = "x" \/ pop = "x"
    <3>1. error
      BY <1>6, <1>14, <2>1, Zenon
    <3>2. pending' = Discarded
      BY <2>0, <2>1, Zenon DEF Transaction
    <3> QED BY <1>8, <3>1, <3>2, Zenon
  <2>2. CASE push # "x" /\ pop # "x"
    <3>1. ~error /\ Verilog!Rising(clk) /\ rst # "1"
      BY <1>5, <1>6, <1>14, <2>2, Zenon
    <3>2. PICK a \in BOOLEAN, b \in BOOLEAN : a = (push = "1") /\ b = (pop = "1")
      BY Zenon
    <3>3. pending' = [valid |-> TRUE, clock |-> TRUE, reset |-> FALSE, push |-> a, pop |-> b,
                      advance |-> Latency > 1 /\ initialized,
                      mature |-> (Latency > 1 /\ initialized) /\ Matures,
                      token |-> IF a THEN in_data ELSE Unknown]
      BY <2>0, <2>2, <3>2, Zenon DEF Transaction, Discarded
    <3>4. b => initialized /\ eligibleCount # 0
      BY <3>2, Zenon DEF And, readValid, Bit
    <3>5. a => initialized /\ (count < Depth \/ b)
      BY <3>2, Zenon DEF And, Or, readReady, Bit
    <3> HIDE DEF push, pop, error
    <3>6. pending'.valid = TRUE
      BY <3>3, Zenon
    <3>7. CASE initialized
      <4>1. v_candidate' = Verilog!Transition(a, b, in_data)
        BY <1>0, <1>4, <3>1, <3>2, <3>7, Zenon
      <4>2. CandidateInv(v_candidate', pending')
        BY <1>0, <3>3, <3>4, <3>5, <3>7, <4>1, TransitionOutcome, Zenon
      <4> QED BY <1>9, <3>1, <3>6, <4>2, Zenon
    <3>8. CASE ~initialized
      <4>1. v_candidate' = Verilog!Hold(TRUE)
        BY <1>0, <1>4, <3>1, <3>8, Zenon
      <4>2. pending' = [valid |-> TRUE, clock |-> TRUE, reset |-> FALSE, push |-> FALSE, pop |-> FALSE,
                        advance |-> FALSE, mature |-> FALSE, token |-> Unknown]
        BY <3>3, <3>4, <3>5, <3>8, Zenon
      <4> QED BY <1>10, <3>1, <4>1, <4>2
    <3> QED BY <3>7, <3>8, Zenon
  <2> QED BY <2>1, <2>2, Zenon
<1> QED
  <2>1. clk = "0" \/ clk = "1" \/ clk = "x"
    BY Zenon DEF Pin
  <2>2. rst = "0" \/ rst = "1" \/ rst = "x"
    BY Zenon DEF Pin
  <2> QED BY <1>0, <1>11, <1>12, <1>13, <1>14, <2>1, <2>2, Zenon

\* The deadlines of the entries that stay, and of the new one, are the same after an edge.
LEMMA DeadlinesAlike ==
  ASSUME LaneInv, SameLane, XferRing, XferTiming, UNCHANGED shape, Latency > 1, initialized,
         pending.advance,
         v_deadline' = IF pending.push THEN [v_deadline EXCEPT ![wr] = DeadlineFrom(tick')]
                       ELSE v_deadline
  PROVE  \A i \in eligible_count' + 1 .. count' : v_deadline'[SlotOf(i)'] = deadline'[SlotOf(i)']
<1>0. /\ LaneTyped /\ Depth \in Nat \ {0} /\ Latency \in Nat \ {0} /\ Latency # 1
      /\ count \in Nat /\ count <= Depth /\ eligible_count \in Nat /\ eligible_count <= count
      /\ wr = SlotOf(count + 1) /\ wr \in Slots /\ deadline \in [Slots -> 0 .. Modulus - 1]
      /\ DOMAIN v_deadline = Slots
  BY LaneNumbers DEF LaneInv, LaneTyped, RingInv, SameLane
<1>p. PICK p \in {0, 1} : p = 1 <=> pending.pop
  <2>1. CASE pending.pop
    BY <2>1, Zenon
  <2>2. CASE ~pending.pop
    BY <2>2
  <2> QED BY <2>1, <2>2, Zenon
<1>m. PICK m \in {0, 1} : m = 1 <=> pending.mature
  <2>1. CASE pending.mature
    BY <2>1, Zenon
  <2>2. CASE ~pending.mature
    BY <2>2
  <2> QED BY <2>1, <2>2, Zenon
<1>e. PICK e \in 0 .. count - p : e = eligible_count'
  BY <1>p, <1>m, TimingMoves, Zenon
<1>k. PICK k \in 0 .. Depth : k = count'
  BY <1>p, RingMoves, Zenon
<1>1. e = (eligible_count - p) + m
  BY <1>p, <1>m, <1>e, TimingMoves, Zenon
<1>2. k = IF pending.push THEN (count - p) + 1 ELSE count - p
  BY <1>p, <1>k, RingMoves, Zenon
<1>3. p <= eligible_count /\ p <= count
  BY <1>p, PopCount, Zenon
<1>4. Depth' = Depth
  BY SameShape, Zenon
<1>5. ASSUME NEW i \in 1 .. (count - p) + 1 PROVE SlotOf(i)' = SlotOf(i + p)
  <2>1. (rd' + (i - 1)) % Depth = SlotOf(i + p)
    <3>1. \A j \in 1 .. (count - p) + 1 : (rd' + (j - 1)) % Depth = SlotOf(j + p)
      BY <1>p, RingMoves, Zenon
    <3> QED BY <3>1, Zenon
  <2> QED BY <1>4, <2>1, Zenon DEF SlotOf
<1>6. deadline' = IF pending.push THEN [deadline EXCEPT ![wr] = DeadlineFrom(tick')] ELSE deadline
  BY <1>0, Zenon DEF XferTiming
<1>7. ASSUME NEW i \in e + 1 .. k PROVE v_deadline'[SlotOf(i)'] = deadline'[SlotOf(i)']
  <2>1. CASE i <= count - p
    <3>1. i \in 1 .. (count - p) + 1 /\ i \in 1 .. count - p /\ i + p \in eligible_count + 1 .. count
          /\ i + p \in 1 .. Depth + 1
      BY <1>0, <1>1, <1>3, <2>1
    <3>2. v_deadline[SlotOf(i + p)] = deadline[SlotOf(i + p)]
      BY <3>1, Zenon DEF SameLane
    <3>3. pending.push => SlotOf(i + p) # wr
      BY <1>p, <3>1, RingMoves, Zenon
    <3>4. SlotOf(i + p) \in Slots
      BY <1>0, <3>1, SlotPosition, Zenon
    <3>5. SlotOf(i)' = SlotOf(i + p)
      BY <1>5, <3>1, Zenon
    <3> HIDE DEF SlotOf
    <3> QED BY <1>0, <1>6, <3>2, <3>3, <3>4, <3>5, Zenon
  <2>2. CASE ~(i <= count - p)
    <3>1. pending.push /\ i = (count - p) + 1 /\ i + p = count + 1 /\ i \in 1 .. (count - p) + 1
      BY <1>0, <1>1, <1>2, <1>3, <2>2
    <3>2. SlotOf(i)' = wr
      BY <1>0, <1>5, <3>1, Zenon
    <3> QED BY <1>0, <1>6, <3>1, <3>2
  <2> QED BY <2>1, <2>2, Zenon
<1> QED BY <1>e, <1>k, <1>7, Zenon

\* A commit leaves the same registers on both sides.
LEMMA CommitAlike ==
  ASSUME LockstepInv, Xfer, Verilog!Commit(TRUE), UNCHANGED shape
  PROVE  SameLane' /\ PreparedAlike'
<1> DEFINE c == v_candidate
<1>0. /\ LaneInv /\ SameLane /\ LaneTyped /\ PendingInv /\ PendingTyped
      /\ initialized \in BOOLEAN /\ pending.valid /\ v_pending_valid /\ CandidateInv(c, pending)
      /\ v_error \in BOOLEAN
  <2>1. LaneInv /\ SameLane /\ PreparedAlike /\ pending.valid
    BY Zenon DEF LockstepInv, Xfer
  <2> QED BY <2>1, Zenon DEF LaneInv, LaneTyped, PendingInv, PreparedAlike
<1>1. /\ v_initialized' = c.initialized /\ v_clock' = c.clock
      /\ v_rd' = c.rd /\ v_wr' = c.wr /\ v_count' = c.count
      /\ v_tick' = c.tick /\ v_mature_ptr' = c.mature_ptr /\ v_eligible_count' = c.eligible_count
      /\ v_storage' = IF c.write_token THEN [v_storage EXCEPT ![v_wr] = c.token] ELSE v_storage
      /\ v_deadline' = IF c.write_token THEN [v_deadline EXCEPT ![v_wr] = c.write_deadline]
                       ELSE v_deadline
  BY <1>0, Zenon DEF Verilog!Commit, Verilog!CommitTransition
<1>2. PreparedAlike'
  <2>1. v_pending_valid' = FALSE /\ v_error' = v_error
    BY Zenon DEF Verilog!Commit
  <2>2. pending'.valid = FALSE
    <3>1. pending' = Discarded'
      BY Zenon DEF Xfer
    <3>2. Discarded' = [valid |-> FALSE, clock |-> clock', reset |-> FALSE, push |-> FALSE,
                    pop |-> FALSE, advance |-> FALSE, mature |-> FALSE, token |-> Unknown]
      BY Zenon DEF Discarded
    <3> QED BY <3>1, <3>2, Zenon
  <2>3. v_error' \in BOOLEAN
    BY <1>0, <2>1, Zenon
  <2> QED BY <2>1, <2>2, <2>3, Zenon DEF PreparedAlike
<1>3. Depth' = Depth /\ Latency' = Latency /\ Slots' = Slots
  BY SameShape, Zenon
<1>4. v_clock' = clock'
  BY <1>0, <1>1, Zenon DEF Xfer, CandidateInv
<1>5. /\ v_initialized = initialized /\ v_storage = storage /\ DOMAIN v_deadline = Slots
  BY <1>0, Zenon DEF SameLane
<1>6. CASE pending.reset
  <2>1. /\ initialized' = TRUE /\ rd' = 0 /\ wr' = 0 /\ count' = 0
        /\ tick' = 0 /\ mature_ptr' = 0 /\ eligible_count' = 0 /\ storage' = storage
    BY <1>6, Zenon DEF Xfer
  <2>2. /\ c.rd = 0 /\ c.wr = 0 /\ c.count = 0 /\ ~c.write_token
        /\ c.tick = 0 /\ c.mature_ptr = 0 /\ c.eligible_count = 0
    BY <1>0, <1>6, Zenon DEF CandidateInv
  <2>3. c.initialized = TRUE
    BY <1>0, <1>6, Zenon DEF CandidateInv
  <2>4. (0 + 1) .. 0 = {}
    OBVIOUS
  <2>5. eligible_count' + 1 .. count' = {}
    BY <2>1, <2>4, Zenon
  <2>6. v_storage' = storage' /\ DOMAIN v_deadline' = Slots'
    BY <1>1, <1>3, <1>5, <2>1, <2>2, Zenon
  <2>7. v_initialized' = initialized'
    BY <1>1, <2>1, <2>3, Zenon
  <2>8. v_rd' = rd' /\ v_wr' = wr' /\ v_count' = count' /\ v_tick' = tick'
        /\ v_mature_ptr' = mature_ptr' /\ v_eligible_count' = eligible_count'
    BY <1>1, <2>1, <2>2, Zenon
  <2> QED BY <1>2, <1>4, <2>5, <2>6, <2>7, <2>8, Zenon DEF SameLane
<1>7. CASE ~pending.reset /\ ~initialized
  <2>1. UNCHANGED <<initialized, ring, timing>>
    BY <1>7, Zenon DEF Xfer
  <2>2. initialized' = FALSE /\ storage' = storage
    BY <1>0, <1>7, <2>1, Zenon DEF ring
  <2>3. ~c.write_token /\ c.initialized = FALSE
    BY <1>0, <1>7 DEF CandidateInv, PendingInv
  <2>4. v_initialized' = initialized' /\ v_storage' = storage' /\ DOMAIN v_deadline' = Slots'
    BY <1>1, <1>3, <1>5, <2>2, <2>3
  <2> QED BY <1>2, <1>4, <2>2, <2>4, Zenon DEF SameLane
<1>8. CASE ~pending.reset /\ initialized
  <2>1. XferTiming /\ XferRing /\ initialized' = initialized
    BY <1>8, Zenon DEF Xfer
  <2>2. v_rd = rd /\ v_wr = wr /\ v_count = count
    BY <1>0, <1>8, Zenon DEF SameLane
  <2>3. /\ c.write_token = pending.push /\ (pending.push => c.token = pending.token)
        /\ c.rd = IF pending.pop THEN Succ(rd) ELSE rd
        /\ c.wr = IF pending.push THEN Succ(wr) ELSE wr
        /\ c.count = Step(pending.push, pending.pop, count)
    BY <1>0, <1>8, Zenon DEF CandidateInv
  <2>4. c.initialized = TRUE /\ initialized' = TRUE
    BY <1>0, <1>8, <2>1 DEF CandidateInv
  <2>5. v_rd' = rd' /\ v_wr' = wr' /\ v_count' = count'
    BY <1>1, <2>1, <2>3, Zenon DEF XferRing
  <2>6. v_storage' = storage'
    <3>1. CASE pending.push
      BY <1>1, <1>5, <2>1, <2>2, <2>3, <3>1, Zenon DEF XferRing
    <3>2. CASE ~pending.push
      BY <1>1, <1>5, <2>1, <2>2, <2>3, <3>2, Zenon DEF XferRing
    <3> QED BY <3>1, <3>2, Zenon
  <2>7. DOMAIN v_deadline' = Slots'
    BY <1>1, <1>3, <1>5, Zenon
  <2>8. v_initialized' = initialized'
    BY <1>1, <2>4, Zenon
  <2>9. ASSUME Latency > 1
        PROVE  /\ v_tick' = tick' /\ v_mature_ptr' = mature_ptr' /\ v_eligible_count' = eligible_count'
               /\ \A i \in eligible_count' + 1 .. count' : v_deadline'[SlotOf(i)'] = deadline'[SlotOf(i)']
    <3>0. Latency # 1
      BY <1>0, <2>9, LaneNumbers
    <3>1. /\ tick' = IF pending.advance THEN wrapTick(tick + 1) ELSE tick
          /\ mature_ptr' = IF pending.mature THEN Succ(mature_ptr) ELSE mature_ptr
          /\ eligible_count' = Step(pending.mature, pending.pop, eligible_count)
          /\ deadline' = IF pending.push THEN [deadline EXCEPT ![wr] = DeadlineFrom(tick')]
                      ELSE deadline
      BY <2>1, <3>0, Zenon DEF XferTiming
    <3>2. /\ c.tick = IF pending.advance THEN wrapTick(tick + 1) ELSE tick
          /\ c.mature_ptr = IF pending.mature THEN Succ(mature_ptr) ELSE mature_ptr
          /\ c.eligible_count = Step(pending.mature, pending.pop, eligible_count)
          /\ pending.push => c.write_deadline = DeadlineFrom(c.tick)
      BY <1>0, <1>8, <2>9, Zenon DEF CandidateInv
    <3>3. v_tick' = tick' /\ v_mature_ptr' = mature_ptr' /\ v_eligible_count' = eligible_count'
      BY <1>1, <3>1, <3>2, Zenon
    <3>4. v_deadline' = IF pending.push THEN [v_deadline EXCEPT ![wr] = DeadlineFrom(tick')]
                        ELSE v_deadline
      <4>1. CASE pending.push
        BY <1>1, <2>2, <2>3, <3>1, <3>2, <4>1, Zenon
      <4>2. CASE ~pending.push
        BY <1>1, <2>3, <4>2, Zenon
      <4> QED BY <4>1, <4>2, Zenon
    <3>5. CASE pending.advance
      <4>1. \A i \in eligible_count' + 1 .. count' : v_deadline'[SlotOf(i)'] = deadline'[SlotOf(i)']
        BY <1>0, <1>8, <2>1, <2>9, <3>4, <3>5, DeadlinesAlike, Zenon
      <4> QED BY <3>3, <4>1, Zenon
    <3>6. CASE ~pending.advance
      <4>1. pending.push = FALSE /\ pending.pop = FALSE /\ pending.mature = FALSE
        BY <1>0, <2>9, <3>6, Zenon DEF PendingInv, PendingTyped
      <4>2. /\ rd' = rd /\ count' = count /\ eligible_count' = eligible_count
            /\ deadline' = deadline /\ v_deadline' = v_deadline
        BY <2>1, <3>1, <3>4, <4>1, Zenon DEF XferRing, Step
      <4>3. \A i : SlotOf(i)' = SlotOf(i)
        BY <1>3, <4>2, Zenon DEF SlotOf
      <4>4. \A i \in eligible_count + 1 .. count : v_deadline[SlotOf(i)] = deadline[SlotOf(i)]
        BY <1>0, <1>8, <2>9, Zenon DEF SameLane
      <4> QED BY <3>3, <4>2, <4>3, <4>4, Zenon
    <3> QED BY <3>5, <3>6, Zenon
  <2>10. Latency' > 1 => Latency > 1
    BY <1>3, Zenon
  <2> QED BY <1>2, <1>4, <2>4, <2>5, <2>6, <2>7, <2>8, <2>9, <2>10, Zenon DEF SameLane
<1> QED BY <1>6, <1>7, <1>8, Zenon

\* The invariant holds of the two when they are created.
LEMMA LockstepInitial ==
  ASSUME ShapesAssumption, BothInit
  PROVE  LockstepInv
<1>1. LaneInv
  BY LaneInitial, Zenon DEF BothInit
<1>2. /\ initialized = FALSE /\ v_initialized = FALSE /\ clock = FALSE /\ v_clock = FALSE
      /\ storage = [s \in Slots |-> Unknown] /\ v_storage = [s \in Verilog!Slots |-> Unknown]
      /\ v_deadline = [s \in Verilog!Slots |-> Unknown]
      /\ v_pending_valid = FALSE /\ v_error = FALSE /\ pending = Discarded
  BY Zenon DEF BothInit, Init, Verilog!Init
<1>3. Verilog!Slots = Slots
  BY VerilogNames, Zenon
<1>4. SameLane
  BY <1>2, <1>3, Zenon DEF SameLane
<1>5. pending.valid = FALSE
  BY <1>2, Zenon DEF Discarded
<1>6. PreparedAlike
  BY <1>2, <1>5, Zenon DEF PreparedAlike
<1> QED BY <1>1, <1>4, <1>6, Zenon DEF LockstepInv

\* The kernel takes one of its own steps in every step of the pair.
LEMMA LaneWithin ==
  [BothNext]_bothVars => [Next]_vars
<1>1. BothNext => Next
  BY Zenon DEF BothNext, Next, BothEvaluate, BothCommit, BothRefuse, BothDiscard, BothReset
<1>2. UNCHANGED bothVars => UNCHANGED vars
  BY Zenon DEF bothVars
<1> QED BY <1>1, <1>2, Zenon

\* Every step of the pair preserves the invariant.
LEMMA LockstepStep ==
  ASSUME LockstepInv, [BothNext]_bothVars
  PROVE  LockstepInv'
<1>0. LaneInv /\ SameLane /\ PreparedAlike /\ clock \in BOOLEAN
  BY Zenon DEF LockstepInv, LaneInv, LaneTyped
<1>1. LaneInv'
  BY <1>0, LaneStep, LaneWithin, Zenon
<1> SUFFICES SameLane' /\ PreparedAlike'
  BY <1>1, Zenon DEF LockstepInv
<1>2. ASSUME NEW clk \in Pin, NEW rst \in Pin, NEW in_valid \in Pin,
             NEW in_data \in Payload, NEW out_ready \in Pin,
             BothEvaluate(clk, rst, in_valid, in_data, out_ready), UNCHANGED shape
      PROVE  SameLane' /\ PreparedAlike'
  <2>1. UNCHANGED <<shape, initialized, clock, ring, timing>> /\ UNCHANGED Verilog!registers
    BY <1>2, Zenon DEF BothEvaluate, Work, Verilog!Prepare
  <2>2. SameLane'
    BY <1>0, <2>1, SameLaneKept, Zenon
  <2>3. PreparedAlike'
    BY <1>2, EvaluateAlike, Zenon
  <2> QED BY <2>2, <2>3, Zenon
<1>3. CASE BothCommit /\ UNCHANGED shape
  BY <1>3, CommitAlike, Zenon DEF BothCommit
<1>4. CASE (BothRefuse \/ BothDiscard) /\ UNCHANGED shape
  <2>1. UNCHANGED <<shape, initialized, clock, ring, timing>> /\ pending' = Discarded
    BY <1>4, Zenon DEF BothRefuse, BothDiscard, Discard
  <2>2. UNCHANGED Verilog!registers
    BY <1>4, Zenon DEF BothRefuse, BothDiscard, Verilog!Commit, Verilog!Discard
  <2>3. SameLane'
    BY <1>0, <2>1, <2>2, SameLaneKept, Zenon
  <2>4. v_pending_valid' = FALSE /\ (v_error' = v_error \/ v_error' = FALSE)
    BY <1>4, Zenon DEF BothRefuse, BothDiscard, Verilog!Commit, Verilog!Discard
  <2>5. pending'.valid = FALSE
    BY <2>1, Zenon DEF Discarded
  <2>6. v_error' \in BOOLEAN
    BY <1>0, <2>4, Zenon DEF PreparedAlike
  <2>7. PreparedAlike'
    BY <2>4, <2>5, <2>6, Zenon DEF PreparedAlike
  <2> QED BY <2>3, <2>7, Zenon
<1>5. CASE BothReset /\ UNCHANGED shape
  <2>1. UNCHANGED <<shape, initialized, clock, ring, timing>>
    BY <1>5, Zenon DEF BothReset, Reset
  <2>2. /\ UNCHANGED Verilog!registers /\ v_candidate' = Verilog!ResetCandidate(FALSE)
        /\ v_pending_valid' = TRUE /\ v_error' = FALSE
    BY <1>5, Zenon DEF BothReset, Verilog!HostReset
  <2>3. SameLane'
    BY <1>0, <2>1, <2>2, SameLaneKept, Zenon
  <2>4. pending' = [valid |-> TRUE, clock |-> FALSE, reset |-> TRUE, push |-> FALSE, pop |-> FALSE,
                    advance |-> FALSE, mature |-> FALSE, token |-> Unknown]
    BY <1>5, Zenon DEF BothReset, Reset, Discarded
  <2>5. CandidateInv(v_candidate', pending')
    BY <1>0, <2>2, <2>4, ResetOutcome, Zenon
  <2>6. CandidateInv(v_candidate, pending)'
    BY <2>1, <2>5, CandidateKept, Zenon
  <2>7. pending'.valid = TRUE
    BY <2>4, Zenon
  <2>8. PreparedAlike'
    BY <2>2, <2>6, <2>7, Zenon DEF PreparedAlike
  <2> QED BY <2>3, <2>8, Zenon
<1>6. CASE UNCHANGED bothVars
  <2>1. /\ UNCHANGED <<shape, initialized, clock, ring, timing>> /\ UNCHANGED Verilog!registers
        /\ pending' = pending /\ v_pending_valid' = v_pending_valid /\ v_error' = v_error
        /\ v_candidate' = v_candidate
    BY <1>6, Zenon DEF bothVars, vars, Verilog!registers
  <2>2. SameLane'
    BY <1>0, <2>1, SameLaneKept, Zenon
  <2>3. pending.valid => CandidateInv(v_candidate', pending')
    BY <1>0, <2>1, Zenon DEF PreparedAlike
  <2>4. pending.valid => CandidateInv(v_candidate, pending)'
    BY <2>1, <2>3, CandidateKept, Zenon
  <2>5. pending'.valid = v_pending_valid' /\ v_error' \in BOOLEAN /\ v_pending_valid' \in BOOLEAN
        /\ (v_pending_valid' => ~v_error') /\ (pending'.valid => CandidateInv(v_candidate, pending)')
    BY <1>0, <2>1, <2>4, Zenon DEF PreparedAlike
  <2>6. PreparedAlike'
    BY <2>5, Zenon DEF PreparedAlike
  <2> QED BY <2>2, <2>6, Zenon
<1> QED BY <1>2, <1>3, <1>4, <1>5, <1>6, Zenon DEF BothNext

\* The invariant implies what an observer of the pins sees.
LEMMA LockstepAgrees ==
  ASSUME LockstepInv
  PROVE  VerilogAgrees
<1>1. LaneInv /\ SameLane /\ PreparedAlike
  BY Zenon DEF LockstepInv
<1>2. pending.valid <=> ~Verilog!local_error
  BY <1>1, Zenon DEF PreparedAlike, Verilog!local_error
<1> QED BY <1>1, <1>2, OutputsAgree, Zenon DEF VerilogAgrees

\* The kernel and the leaf hold the same registers and have prepared the same
\* transition in every reachable state.
THEOREM LockstepInvariant == LockstepSpec => []LockstepInv
<1>0. ShapesAssumption
  BY ShapesAssumption
<1>1. BothInit => LockstepInv
  BY <1>0, LockstepInitial, Zenon
<1>2. LockstepInv /\ [BothNext]_bothVars => LockstepInv'
  BY LockstepStep, Zenon
<1> QED BY <1>1, <1>2, PTL DEF LockstepSpec

\* fifo.h and fifo.v show the same outputs and refuse the same inputs, for
\* every depth, latency, policy and payload.
THEOREM QueueVerilogAgrees == LockstepSpec => []VerilogAgrees
<1>1. LockstepSpec => []LockstepInv
  BY LockstepInvariant, Zenon
<1>2. LockstepInv => VerilogAgrees
  BY LockstepAgrees, Zenon
<1> QED BY <1>1, <1>2, PTL

\* So the pair implements the abstract queue as well.
THEOREM QueueImplemented == LockstepSpec => ImplementsQueue
<1>1. BothInit => Init
  BY Zenon DEF BothInit
<1>2. [BothNext]_bothVars => [Next]_vars
  BY LaneWithin, Zenon
<1>3. Spec => ImplementsQueue
  BY QueueRefinement, Zenon
<1> QED BY <1>1, <1>2, <1>3, PTL DEF LockstepSpec, Spec

====
