------------------------- MODULE RuleLoweringProofs -------------------------
(***************************************************************************)
(* What the lowering of a rule keeps, for every rule: any number of        *)
(* statements, registers, queues and memories, nested to any depth.        *)
(***************************************************************************)
EXTENDS RuleLowering, SequenceTheorems, TLAPS

Bits == {"0", "1"}

PointType == [path : Bits, raw : Pin, kept : Bits, selected : BOOLEAN, live : BOOLEAN]

VersionsType == [Owners -> [data : Pin, intent : Pin]]

FrameType ==
    [arm : BOOLEAN, condition : Pin, selection : BOOLEAN,
     outer : PointType, inside : Bits, taken : BOOLEAN, entry : VersionsType,
     thenEnd : VersionsType, thenKept : Bits, outerDemand : [Pin -> Pin],
     thenDemand : [Pin -> Pin]]

ArmsType == UNION {[S -> BOOLEAN] : S \in SUBSET Nat}

AccessType ==
    [resource : Queues \union Memories, kind : {"pop", "push", "read", "write"},
     arms : ArmsType, raw : Pin, retained : Bits, began : BOOLEAN, ran : Pin]

\* Type correctness of the lowering.
Typed ==
    /\ pins \in [Queues -> [downstream : BOOLEAN, room : Pin, head : Pin, other : Pin]]
    /\ prefix \in Bits
    /\ point \in PointType
    /\ branches \in Seq(FrameType)
    /\ versions \in VersionsType
    /\ demand \in [Pin -> Pin]
    /\ flagged \in BOOLEAN
    /\ mode \in {"run", "held", "fault"}
    /\ state \in [Owners -> [value : Bits, written : BOOLEAN]]
    /\ popped \in [Queues -> [path : Pin, took : BOOLEAN]]
    /\ accesses \subseteq AccessType

Refines(vs) ==
    \A o \in Owners :
        /\ vs[o].data \in {"x", state[o].value}
        /\ vs[o].intent \in {"x", Bit(state[o].written)}

(***************************************************************************)
(* While the rule is running, the paths of a source point say whether the  *)
(* source is there; outside pure branches they are known.                  *)
(***************************************************************************)
PointOK(p, pure) ==
    /\ p.live => p.selected
    /\ p.raw = "1" => p.live
    /\ p.raw = "0" => ~p.live
    /\ mode = "run" =>
         /\ p.path = Bit(p.selected)
         /\ ~p.selected => p.raw = "0"
         /\ ~pure => p.live = p.selected /\ p.raw = Bit(p.live)

Pure(i) == i > 0 /\ ~branches[i].selection

FrameOK(b) ==
    /\ b.outer.live => b.condition \in {"x", Bit(b.taken)}
    /\ mode = "run" /\ b.selection /\ b.outer.live => b.condition # "x"
    /\ b.outer.live /\ b.arm /\ ~b.taken => Refines(b.entry)
    /\ b.outer.live /\ ~b.arm /\ b.taken => Refines(b.thenEnd)

\* Whether point p, inside the first n branches, is live as those branches say.
Follows(p, n) ==
    /\ n = 0 => p.live
    /\ p.live => \A j \in 1..n : branches[j].outer.live /\ branches[j].arm = branches[j].taken
    /\ n > 0 /\ branches[n].outer.live /\ branches[n].arm = branches[n].taken => p.live

Placed(p, n) == PointOK(p, Pure(n)) /\ Follows(p, n)

Framed ==
    \A i \in 1..Len(branches) :
        /\ FrameOK(branches[i])
        /\ Placed(branches[i].outer, i - 1)
        /\ branches[i].selection => ~Pure(i - 1)

Positioned == Placed(point, Len(branches))

EffectsPlaced ==
    /\ \A e \in effects : e.path \in Bits
    /\ mode = "run" => \A e \in effects : e.path = Bit(e.ran)

\* While the rule runs, the credit of a queue is what the source has popped.
Credited == mode = "run" => \A q \in Queues : popped[q].path = Credit(q)

\* The inductive invariant of the lowering.
IInv ==
    /\ Typed /\ AdmissionExact /\ EffectsPlaced /\ Credited
    /\ Positioned /\ Framed
    /\ point.live => Refines(versions)

-----------------------------------------------------------------------------
\* The connectives of the netlist stay in the values of a pin, K0 and K1 in bits.
LEMMA Connectives ==
    /\ \A a, b \in Pin : And(a, b) \in Pin /\ Or(a, b) \in Pin
    /\ \A a, b \in Bits : And(a, b) \in Bits
    /\ \A a \in Pin : Not(a) \in Pin /\ K1(a) \in Bits /\ K0(a) \in Bits
    /\ \A c, a, b \in Pin : Select(c, a, b) \in Pin
    /\ \A c, a, b \in Bits : Select(c, a, b) \in Bits
    /\ Bits \subseteq Pin
    /\ \A b : Bit(b) \in Bits
BY DEF And, Or, Not, K1, K0, Select, Bit, Pin, Bits

\* What a control contributes to the prefix is never unknown.
LEMMA BypassTypes ==
    ASSUME point \in PointType, NEW selection, NEW raw \in Pin
    PROVE  Bypass(selection, raw) \in Bits
BY DEF PointType, Bypass, Accepted, Or, K0, K1, Bit, Select, Pin, Bits

\* The invariant holds of the rule without statements.
LEMMA InitInv == Init => IInv
<1> SUFFICES ASSUME Init PROVE IInv
  OBVIOUS
<1>1. branches \in Seq(FrameType)
  BY DEF Init
<1>2. point \in PointType /\ prefix \in Bits /\ flagged \in BOOLEAN
  BY Zenon DEF Init, Root, PointType, Bits, Pin
<1>3. versions \in VersionsType
  BY DEF Init, VersionsType, Pin
<1>4. demand \in [Pin -> Pin]
  BY DEF Init
<1>5. state \in [Owners -> [value : Bits, written : BOOLEAN]]
  BY Zenon DEF Init, Bits
<1>6. popped \in [Queues -> [path : Pin, took : BOOLEAN]]
  BY DEF Init, Pin
<1>7. Typed
  BY <1>1, <1>2, <1>3, <1>4, <1>5, <1>6 DEF Init, Typed
<1>8. AdmissionExact /\ EffectsPlaced
  BY DEF Init, AdmissionExact, EffectsPlaced, Bit
<1>9. Positioned /\ Framed
  BY DEF Init, Positioned, Framed, Placed, PointOK, Follows, Pure, Root, Bit
<1>10. Refines(versions)
  BY Zenon DEF Init, Refines, Bit
<1>11. Credited
  BY DEF Init, Credited, Credit
<1> QED
  BY <1>7, <1>8, <1>9, <1>10, <1>11 DEF IInv

-----------------------------------------------------------------------------
(* Sequences of frames.                                                    *)

\* Two frames agree on everything the invariant is about.
SameFrame(c, b) ==
    /\ c.arm = b.arm /\ c.condition = b.condition /\ c.selection = b.selection
    /\ c.outer = b.outer /\ c.taken = b.taken /\ c.entry = b.entry /\ c.thenEnd = b.thenEnd
    /\ c.inside = b.inside /\ c.thenKept = b.thenKept
    /\ c.outerDemand = b.outerDemand /\ c.thenDemand = b.thenDemand

\* The stack of frames is as deep as before, and agrees frame by frame.
SameFrames ==
    /\ branches' \in Seq(FrameType) /\ Len(branches') = Len(branches)
    /\ \A i \in 1..Len(branches) : SameFrame(branches'[i], branches[i])

\* A statement with an effect leaves the open branches as they are.
LEMMA EffectKeepsFrames ==
    ASSUME Typed, NeedsSelection
    PROVE  SameFrames
<1> QED
  BY DEF NeedsSelection, SameFrames, SameFrame, Typed

\* A step that leaves the frames alone keeps what is known of them.
LEMMA FramesKept ==
    ASSUME Typed, Framed, Positioned, SameFrames, state' = state,
           mode' = "run" => mode = "run",
           point'.path = point.path, point'.raw = point.raw,
           point'.selected = point.selected, point'.live = point.live
    PROVE  Framed' /\ Positioned'
<1>1. Len(branches) \in Nat
  BY DEF Typed
<1>2. \A i \in 0..Len(branches) : Pure(i)' = Pure(i)
  BY <1>1 DEF Pure, SameFrames, SameFrame
<1>3. \A vs : Refines(vs)' = Refines(vs)
  BY DEF Refines
<1>4. ASSUME NEW i \in 1..Len(branches)
      PROVE  FrameOK(branches[i])'
  BY <1>3 DEF Framed, FrameOK, SameFrames, SameFrame
<1>5. ASSUME NEW p, NEW n \in 0..Len(branches), Placed(p, n)
      PROVE  Placed(p, n)'
  <2>1. PointOK(p, Pure(n))'
    BY <1>2, <1>5 DEF Placed, PointOK
  <2>2. Follows(p, n)'
    BY <1>1, <1>5 DEF Placed, Follows, SameFrames, SameFrame
  <2> QED
    BY <2>1, <2>2 DEF Placed
<1>6. Framed'
  <2> SUFFICES ASSUME NEW i \in 1..Len(branches)
               PROVE  /\ FrameOK(branches[i])'
                      /\ Placed(branches[i].outer, i - 1)'
                      /\ branches'[i].selection => ~Pure(i - 1)'
    BY DEF Framed, SameFrames
  <2>1. i - 1 \in 0..Len(branches) /\ branches'[i].outer = branches[i].outer
    BY <1>1 DEF SameFrames, SameFrame
  <2>2. Placed(branches[i].outer, i - 1)'
    BY <2>1, <1>5 DEF Framed
  <2>3. branches'[i].selection => ~Pure(i - 1)'
    BY <2>1, <1>2 DEF Framed, SameFrames, SameFrame
  <2> QED
    BY <1>4, <2>2, <2>3
<1>7. Positioned'
  <2>1. Placed(point, Len(branches))'
    <3>1. PointOK(point, Pure(Len(branches)))'
      BY <1>1, <1>2 DEF Positioned, Placed, PointOK, SameFrames
    <3>2. Follows(point, Len(branches))'
      BY <1>1 DEF Positioned, Placed, Follows, SameFrames, SameFrame
    <3> QED
      BY <3>1, <3>2 DEF Placed
  <2> QED
    BY <2>1 DEF Positioned, SameFrames
<1> QED
  BY <1>6, <1>7

-----------------------------------------------------------------------------
(* Controls.  `needed' and `ready' are what the source says of the control. *)

\* Two accesses that differ only in what is retained, or in the arms around them.
Alike(a, b) ==
    /\ a.resource = b.resource /\ a.kind = b.kind /\ a.raw = b.raw
    /\ a.began = b.began /\ a.ran = b.ran

SameAccesses(as, bs) ==
    /\ \A a \in as : \E b \in bs : Alike(a, b)
    /\ \A b \in bs : \E a \in as : Alike(a, b)

\* A control changes nothing of an access but its retained prefix.
LEMMA RetainTypes ==
    ASSUME NEW as, as \subseteq AccessType, NEW raw \in Bits
    PROVE  RetainControl(raw, as) \subseteq AccessType /\ SameAccesses(as, RetainControl(raw, as))
<1> DEFINE f(a) == IF a.kind = "read" \/ Disjoint(a.arms, Arms) THEN a
                   ELSE [a EXCEPT !.retained = And(@, raw)]
<1>1. \A a \in as : f(a) \in AccessType /\ Alike(a, f(a))
  BY Connectives, Zenon DEF AccessType, Alike
<1>2. RetainControl(raw, as) = {f(a) : a \in as}
  BY DEF RetainControl
<1> HIDE DEF f
<1> QED
  BY <1>1, <1>2, Zenon DEF SameAccesses

\* Accesses that are no pops of a queue give it no credit.
LEMMA CreditKept ==
    ASSUME NEW q,
           \A a \in accesses : \E b \in accesses' : Alike(a, b),
           \A b \in accesses' : \/ \E a \in accesses : Alike(a, b)
                                \/ ~(b.resource = q /\ b.kind = "pop")
    PROVE  Credit(q)' = Credit(q)
<1>1. (\E b \in accesses' : b.resource = q /\ b.kind = "pop" /\ b.raw = "1")
        <=> \E b \in accesses : b.resource = q /\ b.kind = "pop" /\ b.raw = "1"
  BY DEF Alike
<1>2. (\A b \in accesses' : b.resource = q /\ b.kind = "pop" => b.raw = "0")
        <=> \A b \in accesses : b.resource = q /\ b.kind = "pop" => b.raw = "0"
  BY DEF Alike
<1> QED
  BY <1>1, <1>2 DEF Credit

\* A pop adds its raw path to the credit of its queue.
LEMMA CreditAdded ==
    ASSUME NEW q, NEW a, a.resource = q, a.kind = "pop", a.raw \in Pin,
           SameAccesses(accesses \union {a}, accesses'), accesses \subseteq AccessType
    PROVE  Credit(q)' = Or(Credit(q), a.raw)
<1>1. \A b \in accesses : b.raw \in Pin
  BY DEF AccessType
<1>2. (\E b \in accesses' : b.resource = q /\ b.kind = "pop" /\ b.raw = "1")
        <=> a.raw = "1" \/ \E b \in accesses : b.resource = q /\ b.kind = "pop" /\ b.raw = "1"
  BY DEF SameAccesses, Alike
<1>3. (\A b \in accesses' : b.resource = q /\ b.kind = "pop" => b.raw = "0")
        <=> a.raw = "0" /\ \A b \in accesses : b.resource = q /\ b.kind = "pop" => b.raw = "0"
  BY DEF SameAccesses, Alike
<1> QED
  BY <1>1, <1>2, <1>3 DEF Credit, Or, Pin

\* A control that is passed, needed and met as its caller says keeps the invariant.
LEMMA ControlStep ==
    ASSUME IInv, NEW raw \in Pin, NEW needed \in Pin, NEW ready \in Pin,
           AdmitControl(FALSE, raw), Meet(needed, ready = "1", ready),
           point' = [point EXCEPT !.kept = And(@, Bypass(FALSE, raw))],
           SameFrames,
           mode = "run" /\ point.path = "0" => needed = "0",
           mode = "run" /\ point.path = "1" => raw = Select(needed, ready, "1"),
           pins' = pins, versions' = versions, effects' = effects, state' = state,
           demand' \in [Pin -> Pin], popped' \in [Queues -> [path : Pin, took : BOOLEAN]],
           accesses' \subseteq AccessType, Credited'
    PROVE  IInv'
<1> USE DEF IInv
<1>1. Bypass(FALSE, raw) \in Bits
  BY BypassTypes, Zenon DEF Typed
<1>2. /\ point' \in PointType /\ point'.path = point.path /\ point'.raw = point.raw
      /\ point'.selected = point.selected /\ point'.live = point.live
  BY <1>1, Connectives, Zenon DEF Typed, PointType
<1>3. mode' \in {"run", "held", "fault"} /\ (mode' = "run" => mode = "run")
  BY DEF Meet, Typed
<1>4. Typed'
  <2>1. prefix' \in Bits /\ flagged' \in BOOLEAN
    BY <1>1, Connectives, Zenon DEF AdmitControl, Typed
  <2> QED
    BY <1>2, <1>3, <2>1 DEF Typed, SameFrames
<1>5. AdmissionExact'
  <2>1. point.path \in Bits
    BY DEF Typed, PointType
  <2>2. CASE mode # "run"
    BY <2>1, <2>2 DEF AdmissionExact, AdmitControl, Meet, Bit, And, Bits, Typed
  <2>3. CASE mode = "run" /\ point.path = "0"
    BY <2>3, Zenon DEF AdmissionExact, AdmitControl, Meet, Bit, And, Bypass, Select
  <2>4. CASE mode = "run" /\ point.path = "1"
    BY <2>4, Zenon DEF AdmissionExact, AdmitControl, Meet, Bit, And, Bypass, Select, Accepted, K1, Pin
  <2> QED
    BY <2>1, <2>2, <2>3, <2>4 DEF Bits
<1>6. EffectsPlaced'
  BY <1>3 DEF EffectsPlaced
<1>7. Framed' /\ Positioned'
  BY <1>2, <1>3, FramesKept
<1>8. (point.live => Refines(versions))'
  BY <1>2 DEF Refines
<1> QED
  BY <1>4, <1>5, <1>6, <1>7, <1>8

\* The guard of a callable keeps the invariant.
LEMMA GuardStep ==
    ASSUME IInv, NEW raw \in Pin, Guard(raw)
    PROVE  IInv'
<1> USE DEF IInv
<1>1. SameFrames
  BY EffectKeepsFrames DEF Guard
<1>2. demand' \in [Pin -> Pin]
  BY Connectives DEF Guard, Boundary, Typed, Pin, Bits
<1>3. accesses' \subseteq AccessType /\ SameAccesses(accesses, accesses')
  BY BypassTypes, RetainTypes, Zenon DEF Guard, Typed
<1>4. Credited'
  <2>1. \A q : Credit(q)' = Credit(q)
    BY <1>3, CreditKept DEF SameAccesses
  <2> QED
    BY <2>1 DEF Credited, Guard, Meet
<1>5. ~Pure(Len(branches))
  BY DEF Guard, NeedsSelection, InPure, Pure, Typed
<1>6. mode = "run" => point.path = Bit(point.live)
  BY <1>5 DEF Positioned, Placed, PointOK
<1>7. Bit(point.live) \in Pin
  BY DEF Bit, Pin
<1>8. /\ mode = "run" /\ point.path = "0" => Bit(point.live) = "0"
      /\ mode = "run" /\ point.path = "1" => raw = Select(Bit(point.live), raw, "1")
  BY <1>6 DEF Select
<1> QED
  BY <1>1, <1>2, <1>3, <1>4, <1>7, <1>8, ControlStep, Zenon DEF Guard, Typed

\* The use of a value of another rule keeps the invariant.
LEMMA RequireStep ==
    ASSUME IInv, NEW available \in Pin, NEW authored \in Pin, Require(available, authored)
    PROVE  IInv'
<1> USE DEF IInv
<1> DEFINE path == And(point.raw, authored)
           raw == ValueRequire(path, available)
<1>1. path \in Pin /\ raw \in Pin
  BY Connectives DEF ValueRequire, Typed, PointType, Pin
<1>2. SameFrames
  BY DEF Require, SameFrames, SameFrame, Typed
<1>3. demand' \in [Pin -> Pin]
  BY <1>1, Connectives DEF Require, Boundary, Typed, Pin, Bits
<1>4. accesses' \subseteq AccessType /\ SameAccesses(accesses, accesses')
  BY <1>1, BypassTypes, RetainTypes, Zenon DEF Require, Typed
<1>5. Credited'
  <2>1. \A q : Credit(q)' = Credit(q)
    BY <1>4, CreditKept DEF SameAccesses
  <2> QED
    BY <2>1 DEF Credited, Require, Meet
<1>6. mode = "run" /\ point.path = "0" => path = "0"
  BY DEF Positioned, Placed, PointOK, And, Bit
<1>7. AdmitControl(FALSE, raw) /\ Meet(path, available = "1", available)
  BY Zenon DEF Require
<1>8. point' = [point EXCEPT !.kept = And(@, Bypass(FALSE, raw))]
  BY DEF Require
<1>9. raw = Select(path, available, "1")
  BY DEF ValueRequire
<1>10. /\ pins' = pins /\ versions' = versions /\ effects' = effects /\ state' = state
       /\ popped' \in [Queues -> [path : Pin, took : BOOLEAN]]
  BY DEF Require, Typed
<1> HIDE DEF path, raw, IInv
<1> QED
  BY <1>1, <1>2, <1>3, <1>4, <1>5, <1>6, <1>7, <1>8, <1>9, <1>10, ControlStep, Zenon

\* An access at the current point is an access.
LEMMA AccessTypes ==
    ASSUME Typed, NEW r \in Queues \union Memories,
           NEW kind \in {"pop", "push", "read", "write"}, NEW authored \in Pin
    PROVE  AccessAt(r, kind, authored, point.kept) \in AccessType
<1>1. DOMAIN branches \in SUBSET Nat /\ \A i \in DOMAIN branches : branches[i].arm \in BOOLEAN
  <2>1. DOMAIN branches = 1..Len(branches) /\ Len(branches) \in Nat
    BY DEF Typed
  <2>2. \A i \in 1..Len(branches) : branches[i] \in FrameType
    BY DEF Typed
  <2> QED
    BY <2>1, <2>2 DEF FrameType
<1>2. Arms \in [DOMAIN branches -> BOOLEAN]
  BY <1>1 DEF Arms
<1>3. Arms \in ArmsType
  BY <1>1, <1>2 DEF ArmsType
<1>4. And(point.raw, authored) \in Pin /\ point.kept \in Bits
  BY Connectives DEF Typed, PointType
<1>5. (IF point.live THEN authored ELSE "0") \in Pin
  BY DEF Pin
<1> QED
  BY <1>3, <1>4, <1>5 DEF AccessAt, AccessType

\* Outside pure branches, and while the rule runs, the raw path of an access is
\* its authored path where the source is.
LEMMA RawPath ==
    ASSUME IInv, NeedsSelection, mode = "run", NEW authored \in Pin
    PROVE  /\ point.path = Bit(point.live)
           /\ And(point.raw, authored) = IF point.live THEN authored ELSE "0"
<1>1. ~Pure(Len(branches))
  BY DEF IInv, NeedsSelection, InPure, Pure, Typed
<1>2. point.path = Bit(point.live) /\ point.raw = Bit(point.live)
  BY <1>1 DEF IInv, Positioned, Placed, PointOK
<1> QED
  BY <1>2 DEF And, Bit, Pin

\* A pop, push or peek keeps the invariant.
LEMMA QueueAccessStep ==
    ASSUME IInv, NEW q \in Queues, NEW kind \in {"pop", "push", "peek"}, NEW authored \in Pin,
           QueueAccess(q, kind, authored)
    PROVE  IInv'
<1> DEFINE bare == Ready(q, kind, Credit(q))
           raw == Select(And(point.raw, authored), bare, "1")
           serial == Ready(q, kind, popped[q].path)
           needed == IF point.live THEN authored ELSE "0"
           added == {AccessAt(q, kind, authored, point.kept) : k \in {kind} \ {"peek"}}
<1>0. Typed /\ NeedsSelection
  BY DEF IInv, QueueAccess
<1>1. Credit(q) \in Pin /\ popped[q].path \in Pin /\ pins[q].room \in Pin
      /\ pins[q].head \in Pin /\ pins[q].other \in Pin /\ point.raw \in Pin
  BY <1>0 DEF Typed, Credit, Pin, PointType
<1>2. bare \in Pin /\ serial \in Pin
  BY <1>1, Connectives DEF Ready
<1>3. raw \in Pin
  BY <1>1, <1>2, Connectives DEF Pin
<1>4. needed \in Pin
  BY DEF Pin
<1>5. SameFrames
  BY <1>0, EffectKeepsFrames
<1>6. demand' \in [Pin -> Pin]
  <2>1. \A c \in Pin : Select(authored, And(bare, c), c) \in Pin
    BY <1>2, Connectives, Zenon
  <2>2. demand' = [c \in Pin |-> demand[Select(authored, And(bare, c), c)]]
    BY DEF QueueAccess
  <2> HIDE DEF bare
  <2> QED
    BY <2>1, <2>2, <1>0 DEF Typed
<1>7. Bypass(FALSE, raw) \in Bits
  BY <1>0, <1>3, BypassTypes, Zenon DEF Typed
<1>8. added \subseteq AccessType
  BY <1>0, AccessTypes
<1>9. accesses' = RetainControl(Bypass(FALSE, raw), accesses \union added)
  BY DEF QueueAccess
<1>10. accesses' \subseteq AccessType /\ SameAccesses(accesses \union added, accesses')
  <2> HIDE DEF raw, added
  <2> QED BY <1>0, <1>7, <1>8, <1>9, RetainTypes, Zenon DEF Typed
<1>11. popped' \in [Queues -> [path : Pin, took : BOOLEAN]]
  BY <1>0, Connectives DEF QueueAccess, Typed
<1>12. mode' = "run" => mode = "run"
  BY DEF QueueAccess, Meet
<1>13. \A r \in Queues : r # q \/ kind # "pop" => popped'[r].path = popped[r].path /\ Credit(r)' = Credit(r)
  <2> SUFFICES ASSUME NEW r \in Queues, r # q \/ kind # "pop"
               PROVE  popped'[r].path = popped[r].path /\ Credit(r)' = Credit(r)
    OBVIOUS
  <2>1. popped'[r].path = popped[r].path
    BY <1>0 DEF QueueAccess, Typed
  <2>2. \A a \in added : a.resource = q /\ a.kind = kind
    BY DEF AccessAt
  <2>3. Credit(r)' = Credit(r)
    <3> HIDE DEF added
    <3>1. \A a \in accesses : \E b \in accesses' : Alike(a, b)
      BY <1>10 DEF SameAccesses
    <3>2. \A b \in accesses' : \/ \E a \in accesses : Alike(a, b)
                               \/ ~(b.resource = r /\ b.kind = "pop")
      BY <1>10, <2>2 DEF SameAccesses, Alike
    <3> QED
      BY <3>1, <3>2, CreditKept
  <2> QED
    BY <2>1, <2>3
<1>14. ASSUME kind = "pop", mode = "run" PROVE popped'[q].path = Or(popped[q].path, needed)
  BY <1>0, <1>1, <1>14 DEF QueueAccess, Typed, Or, Pin
<1>15. ASSUME kind = "pop", mode = "run" PROVE Credit(q)' = Or(Credit(q), needed)
  <2> DEFINE new == AccessAt(q, kind, authored, point.kept)
  <2>1. added = {new}
    BY <1>15
  <2>2. new.kind = "pop" /\ new.resource = q /\ new.raw = needed
    BY <1>0, <1>15, RawPath DEF AccessAt
  <2> HIDE DEF new, added, needed
  <2>3. Credit(q)' = Or(Credit(q), new.raw)
    BY <1>0, <1>4, <1>10, <2>1, <2>2, CreditAdded DEF Typed
  <2> QED
    BY <2>2, <2>3
<1>16. Credited'
  <2> HIDE DEF needed
  <2> QED BY <1>12, <1>13, <1>14, <1>15 DEF Credited, IInv
<1>17. mode = "run" => bare = serial
  BY DEF Credited, IInv
<1>18. /\ mode = "run" /\ point.path = "0" => needed = "0"
       /\ mode = "run" /\ point.path = "1" => raw = Select(needed, serial, "1")
  BY <1>0, <1>17, RawPath DEF Bit
<1>19. /\ AdmitControl(FALSE, raw) /\ Meet(needed, serial = "1", serial)
       /\ point' = [point EXCEPT !.kept = And(@, Bypass(FALSE, raw))]
       /\ pins' = pins /\ versions' = versions /\ effects' = effects /\ state' = state
  BY Zenon DEF QueueAccess
<1> HIDE DEF raw, needed, serial, bare, added
<1> QED
  BY <1>2, <1>3, <1>4, <1>5, <1>6, <1>10, <1>11, <1>16, <1>18, <1>19, ControlStep, Zenon

\* The use of a memory result keeps the invariant.
LEMMA MemoryResultStep ==
    ASSUME IInv, NEW m, NEW alive \in Pin, NEW authored \in Pin,
           MemoryResult(m, alive, authored)
    PROVE  IInv'
<1> DEFINE raw == Select(And(point.raw, authored), alive, "1")
           needed == IF point.live THEN authored ELSE "0"
<1>0. Typed /\ NeedsSelection
  BY DEF IInv, MemoryResult
<1>1. raw \in Pin /\ needed \in Pin
  BY <1>0, Connectives DEF Typed, PointType, Pin
<1>2. SameFrames
  BY <1>0, EffectKeepsFrames
<1>3. accesses' \subseteq AccessType /\ SameAccesses(accesses, accesses')
  BY <1>0, <1>1, BypassTypes, RetainTypes, Zenon DEF MemoryResult, Typed
<1>4. Credited'
  <2>1. \A q : Credit(q)' = Credit(q)
    BY <1>3, CreditKept DEF SameAccesses
  <2> QED
    BY <2>1 DEF Credited, MemoryResult, Meet, IInv
<1>5. /\ mode = "run" /\ point.path = "0" => needed = "0"
      /\ mode = "run" /\ point.path = "1" => raw = Select(needed, alive, "1")
  BY <1>0, RawPath DEF Bit
<1>6. /\ AdmitControl(FALSE, raw) /\ Meet(needed, alive = "1", alive)
      /\ point' = [point EXCEPT !.kept = And(@, Bypass(FALSE, raw))]
      /\ pins' = pins /\ versions' = versions /\ effects' = effects /\ state' = state
      /\ popped' = popped /\ demand' = demand
  BY Zenon DEF MemoryResult
<1> HIDE DEF raw, needed
<1> QED
  BY <1>0, <1>1, <1>2, <1>3, <1>4, <1>5, <1>6, ControlStep, Zenon DEF Typed

\* Statements without a control.
LEMMA MemoryAccessStep ==
    ASSUME IInv, NEW m \in Memories, NEW kind \in {"read", "write"}, NEW authored \in Pin,
           MemoryAccess(m, kind, authored)
    PROVE  IInv'
<1> DEFINE new == AccessAt(m, kind, authored, point.kept)
<1> USE DEF IInv
<1>1. SameFrames
  BY EffectKeepsFrames DEF MemoryAccess
<1>2. Framed' /\ Positioned'
  BY <1>1, FramesKept DEF MemoryAccess, meaning
<1>3. accesses' = accesses \union {new} /\ new \in AccessType /\ new.kind # "pop"
  BY AccessTypes DEF MemoryAccess, AccessAt
<1>4. Typed'
  <2> HIDE DEF new
  <2> QED BY <1>1, <1>3 DEF Typed, MemoryAccess, SameFrames, meaning
<1>5. Credited'
  <2> HIDE DEF new
  <2>1. \A q : Credit(q)' = Credit(q)
    BY <1>3, CreditKept DEF Alike
  <2> QED
    BY <2>1 DEF Credited, MemoryAccess, meaning
<1>6. AdmissionExact' /\ EffectsPlaced' /\ (point.live => Refines(versions))'
  BY DEF AdmissionExact, EffectsPlaced, Refines, MemoryAccess, meaning
<1> QED
  BY <1>2, <1>4, <1>5, <1>6

\* An assert or a log keeps the invariant.
LEMMA EffectStep ==
    ASSUME IInv, Effect
    PROVE  IInv'
<1> USE DEF IInv
<1>1. SameFrames
  BY EffectKeepsFrames DEF Effect
<1>2. Framed' /\ Positioned'
  BY <1>1, FramesKept DEF Effect, meaning
<1>3. Typed'
  BY <1>1 DEF Typed, Effect, SameFrames, meaning
<1>4. AdmissionExact' /\ Credited' /\ (point.live => Refines(versions))'
  BY DEF AdmissionExact, Credited, Credit, Refines, Effect, meaning
<1>5. EffectsPlaced'
  <2>1. "1" \in Pin
    BY DEF Pin
  <2>2. mode = "run" => point.path = Bit(point.live)
    BY <2>1, RawPath DEF Effect
  <2>3. point.path \in Bits
    BY DEF Typed, PointType
  <2> QED
    BY <2>2, <2>3 DEF EffectsPlaced, Effect, meaning
<1> QED
  BY <1>2, <1>3, <1>4, <1>5

\* A value is a pin, and what the source may take it for is a bit.
LEMMA ValueTypes ==
    ASSUME Typed, NEW v \in Pin \union Owners
    PROVE  Value(v) \in Pin /\ Meanings(v) \subseteq Bits
BY DEF Typed, Value, Meanings, Resolve, VersionsType, Pin, Bits

\* At a live point a value is unknown or what the source says it is.
LEMMA ValueMeans ==
    ASSUME IInv, point.live, NEW v \in Pin \union Owners, NEW r \in Meanings(v)
    PROVE  Value(v) \in {"x", r}
BY DEF IInv, Refines, Value, Meanings, Resolve, Pin

\* A register write keeps the invariant.
LEMMA WriteStep ==
    ASSUME IInv, NEW o \in Owners, NEW v \in Pin \union Owners, NEW authored \in Pin,
           Write(o, v, authored)
    PROVE  IInv'
<1> USE DEF IInv
<1>1. PICK r \in Meanings(v), a \in Resolve(authored) :
        state' = IF point.live /\ a = "1"
                 THEN [state EXCEPT ![o] = [value |-> r, written |-> TRUE]] ELSE state
  BY Zenon DEF Write
<1>2. r \in Bits /\ Value(v) \in Pin
  BY ValueTypes
<1>3. versions' \in VersionsType
  <2>1. Select(authored, Value(v), versions[o].data) \in Pin /\ Or(versions[o].intent, authored) \in Pin
    BY <1>2, Connectives DEF Typed, VersionsType
  <2> QED
    BY <2>1 DEF Write, Typed, VersionsType
<1>4. state' \in [Owners -> [value : Bits, written : BOOLEAN]]
  BY <1>1, <1>2 DEF Typed
<1>5. Typed'
  BY <1>3, <1>4 DEF Typed, Write
<1>6. AdmissionExact' /\ EffectsPlaced' /\ Credited' /\ Positioned'
  BY DEF AdmissionExact, EffectsPlaced, Credited, Credit, Positioned, Placed, PointOK,
         Pure, Follows, Write
<1>7. Framed'
  <2>1. CASE ~point.live
    <3>1. state' = state
      BY <2>1, <1>1
    <3>2. \A vs : Refines(vs)' = Refines(vs)
      BY <3>1 DEF Refines
    <3> QED
      BY <3>2, Zenon DEF Framed, FrameOK, Placed, PointOK, Pure, Follows, Write
  <2>2. CASE point.live
    <3>1. \A j \in 1..Len(branches) : branches[j].outer.live /\ branches[j].arm = branches[j].taken
      BY <2>2, Zenon DEF Positioned, Placed, Follows
    <3> QED
      BY <3>1, Zenon DEF Framed, FrameOK, Placed, PointOK, Pure, Follows, Write
  <2> QED
    BY <2>1, <2>2
<1>8. (point.live => Refines(versions))'
  <2> SUFFICES ASSUME point.live, NEW u \in Owners
               PROVE  /\ versions'[u].data \in {"x", state'[u].value}
                      /\ versions'[u].intent \in {"x", Bit(state'[u].written)}
    BY Zenon DEF Refines, Write
  <2>1. /\ versions[u].data \in {"x", state[u].value}
        /\ versions[u].intent \in {"x", Bit(state[u].written)}
    BY DEF Refines
  <2>2. CASE u # o
    BY <1>1, <2>1, <2>2, Zenon DEF Write, Typed, VersionsType
  <2>3. CASE u = o
    <3>1. versions'[u] = [data |-> Select(authored, Value(v), versions[o].data),
                          intent |-> Or(versions[o].intent, authored)]
      BY <2>3, Zenon DEF Write, Typed, VersionsType
    <3>2. Value(v) \in {"x", r} /\ authored \in {"x", a} /\ a \in Bits
      BY ValueMeans DEF Resolve, Pin, Bits
    <3>3. CASE a = "1"
      <4>1. state'[u] = [value |-> r, written |-> TRUE]
        BY <1>1, <2>3, <3>3, Zenon DEF Typed
      <4> QED
        BY <2>1, <2>3, <3>1, <3>2, <3>3, <4>1, SMTT(30) DEF Select, Or, Bit
    <3>4. CASE a = "0"
      BY <1>1, <2>1, <2>3, <3>1, <3>2, <3>4 DEF Select, Or, Bit
    <3> QED
      BY <3>2, <3>3, <3>4, Zenon DEF Bits
  <2> QED
    BY <2>2, <2>3
<1> QED
  BY <1>5, <1>6, <1>7, <1>8

-----------------------------------------------------------------------------
(* Branches.                                                               *)

\* What is known of a point depends on the frames around it only.
LEMMA PlacedKept ==
    ASSUME NEW n \in Nat, NEW p, Placed(p, n), mode' = "run" => mode = "run",
           \A j \in 1..n : SameFrame(branches'[j], branches[j])
    PROVE  Placed(p, n)'
<1>1. Pure(n)' = Pure(n)
  BY DEF Pure, SameFrame
<1>2. PointOK(p, Pure(n))'
  BY <1>1, Zenon DEF Placed, PointOK
<1>3. Follows(p, n)'
  BY DEF Placed, Follows, SameFrame
<1> QED
  BY <1>2, <1>3 DEF Placed

\* A frame below the changed ones keeps what is known of it.
LEMMA FrameKept ==
    ASSUME Framed, NEW n \in Nat, n <= Len(branches), Len(branches) \in Nat,
           mode' = "run" => mode = "run", state' = state,
           \A j \in 1..n : SameFrame(branches'[j], branches[j]),
           NEW i \in 1..n
    PROVE  /\ FrameOK(branches[i])'
           /\ Placed(branches[i].outer, i - 1)'
           /\ branches'[i].selection => ~Pure(i - 1)'
<1>0. /\ i \in 1..Len(branches) /\ i - 1 \in Nat /\ SameFrame(branches'[i], branches[i])
      /\ i - 1 > 0 => i - 1 \in 1..n
      /\ \A j \in 1..(i - 1) : j \in 1..n
  OBVIOUS
<1>1. /\ FrameOK(branches[i]) /\ Placed(branches[i].outer, i - 1)
      /\ branches[i].selection => ~Pure(i - 1)
  BY <1>0 DEF Framed
<1>2. FrameOK(branches[i])'
  <2>1. \A vs : Refines(vs)' = Refines(vs)
    BY DEF Refines
  <2> QED
    BY <1>0, <1>1, <2>1, Zenon DEF FrameOK, SameFrame
<1>3. ASSUME NEW p, Placed(p, i - 1) PROVE Placed(p, i - 1)'
  BY <1>0, <1>3, PlacedKept
<1>4. Placed(branches[i].outer, i - 1)'
  <2>1. branches'[i].outer = branches[i].outer
    BY <1>0 DEF SameFrame
  <2> QED
    BY <1>1, <1>3, <2>1
<1>5. branches'[i].selection => ~Pure(i - 1)'
  <2>1. Pure(i - 1)' = Pure(i - 1)
    BY <1>0, Zenon DEF SameFrame, Pure
  <2> QED
    BY <1>0, <1>1, <2>1 DEF SameFrame
<1> QED
  BY <1>2, <1>4, <1>5

\* A frame on top of the others.
LEMMA FramePushed ==
    ASSUME IInv, NEW f \in FrameType, NEW n \in Nat, n = Len(branches),
           branches' = Append(branches, f), f.outer = point,
           FrameOK(f)', f.selection => ~Pure(n),
           mode' = "run" => mode = "run", state' = state
    PROVE  /\ branches' \in Seq(FrameType) /\ Len(branches') = n + 1 /\ branches'[n + 1] = f
           /\ \A j \in 1..n : SameFrame(branches'[j], branches[j])
           /\ Framed'
<1>1. branches \in Seq(FrameType)
  BY DEF IInv, Typed
<1>2. /\ branches' \in Seq(FrameType) /\ Len(branches') = n + 1 /\ branches'[n + 1] = f
      /\ \A j \in 1..n : branches'[j] = branches[j]
  BY <1>1
<1>3. \A j \in 1..n : SameFrame(branches'[j], branches[j])
  BY <1>2 DEF SameFrame
<1>4. ASSUME NEW i \in 1..n
      PROVE  /\ FrameOK(branches[i])'
             /\ Placed(branches[i].outer, i - 1)'
             /\ branches'[i].selection => ~Pure(i - 1)'
  BY <1>1, <1>3, FrameKept DEF IInv
<1>5. Placed(f.outer, n)'
  <2>1. Placed(f.outer, n)
    BY DEF IInv, Positioned
  <2> QED
    BY <1>3, <2>1, PlacedKept
<1>6. f.selection => ~Pure(n)'
  BY <1>2 DEF Pure
<1>7. Framed'
  <2> SUFFICES ASSUME NEW i \in 1..(n + 1)
               PROVE  /\ FrameOK(branches[i])'
                      /\ Placed(branches[i].outer, i - 1)'
                      /\ branches'[i].selection => ~Pure(i - 1)'
    BY <1>2 DEF Framed
  <2>1. CASE i \in 1..n
    BY <1>4, <2>1
  <2>2. CASE i = n + 1
    <3>1. i - 1 = n
      BY <2>2
    <3> QED
      BY <1>2, <1>5, <1>6, <2>2, <3>1
  <2> QED
    BY <2>1, <2>2
<1> QED
  BY <1>2, <1>3, <1>7, Zenon

\* A point follows the branches around it and the top one.
LEMMA FollowsTop ==
    ASSUME NEW n \in Nat, Len(branches') = n + 1,
           NEW outer, branches'[n + 1].outer = outer, Follows(outer, n)',
           point'.live = (outer.live /\ branches'[n + 1].arm = branches'[n + 1].taken)
    PROVE  Follows(point, Len(branches))'
<1>1. ASSUME point'.live, NEW j \in 1..(n + 1)
      PROVE  branches'[j].outer.live /\ branches'[j].arm = branches'[j].taken
  <2>1. CASE j \in 1..n
    BY <1>1, <2>1, Zenon DEF Follows
  <2>2. CASE j = n + 1
    BY <1>1, <2>2, Zenon
  <2> QED
    BY <2>1, <2>2
<1>2. n + 1 # 0
  OBVIOUS
<1>3. point'.live => \A j \in 1..(n + 1) :
                        branches'[j].outer.live /\ branches'[j].arm = branches'[j].taken
  BY <1>1
<1>4. branches'[n + 1].outer.live /\ branches'[n + 1].arm = branches'[n + 1].taken => point'.live
  BY Zenon
<1> QED
  BY <1>2, <1>3, <1>4 DEF Follows

\* Opening a pure branch keeps the invariant.
LEMMA PureBranchStep ==
    ASSUME IInv, NEW v \in Pin \union Owners, PureBranch(v)
    PROVE  IInv'
<1>0. Typed
  BY DEF IInv
<1>1. PICK taken \in BOOLEAN :
        /\ Bit(taken) \in Meanings(v)
        /\ branches' = Append(branches, Frame(v, FALSE, taken, point.kept))
        /\ point' = [point EXCEPT !.raw = And(@, Value(v)), !.live = @ /\ taken]
  BY Zenon DEF PureBranch
<1>2. PICK n \in Nat : n = Len(branches)
  BY <1>0 DEF Typed
<1>3. PICK f : f = Frame(v, FALSE, taken, point.kept)
  BY Zenon
<1>4. Value(v) \in Pin
  BY <1>0, ValueTypes
<1>5. f \in FrameType
  BY <1>0, <1>3, <1>4, Zenon DEF Frame, FrameType, Typed, PointType, Identity, Bits
<1>6. UNCHANGED <<pins, prefix, versions, demand, flagged, effects, accesses, mode, state, popped>>
  BY DEF PureBranch, meaning
<1>7. \A vs : Refines(vs)' = Refines(vs)
  BY <1>6 DEF Refines
<1>8. point.live => Value(v) \in {"x", Bit(taken)}
  BY <1>1, ValueMeans
<1>9. /\ f.outer = point /\ f.selection = FALSE /\ f.arm = TRUE /\ f.taken = taken
      /\ f.condition = Value(v) /\ f.entry = versions
  BY <1>3 DEF Frame
<1>10. FrameOK(f)'
  BY <1>6, <1>7, <1>8, <1>9 DEF FrameOK, IInv
<1>11. /\ branches' \in Seq(FrameType) /\ Len(branches') = n + 1 /\ branches'[n + 1] = f
       /\ \A j \in 1..n : SameFrame(branches'[j], branches[j])
       /\ Framed'
  BY <1>1, <1>2, <1>3, <1>5, <1>6, <1>9, <1>10, FramePushed, Zenon
<1>12. /\ point' \in PointType /\ point'.path = point.path /\ point'.selected = point.selected
       /\ point'.raw = And(point.raw, Value(v)) /\ point'.live = (point.live /\ taken)
  BY <1>0, <1>1, <1>4, Connectives, Zenon DEF Typed, PointType
<1>13. Placed(point, n)
  BY <1>2 DEF IInv, Positioned
<1>14. PointOK(point, Pure(Len(branches)))'
  <2>1. Pure(Len(branches))'
    BY <1>9, <1>11 DEF Pure
  <2> QED
    BY <1>6, <1>8, <1>12, <1>13, <2>1, Zenon DEF Placed, PointOK, And, Bit
<1>15. Follows(point, Len(branches))'
  <2>1. PICK p : p = point
    OBVIOUS
  <2>2. Placed(p, n)'
    BY <1>6, <1>11, <1>13, <2>1, PlacedKept
  <2> QED
    BY <1>9, <1>11, <1>12, <2>1, <2>2, FollowsTop, Zenon DEF Placed
<1>16. Positioned'
  BY <1>14, <1>15 DEF Positioned, Placed
<1>17. Typed'
  BY <1>0, <1>6, <1>11, <1>12 DEF Typed
<1>18. AdmissionExact' /\ EffectsPlaced' /\ Credited' /\ (point.live => Refines(versions))'
  BY <1>6, <1>12, Zenon DEF IInv, AdmissionExact, EffectsPlaced, Credited, Credit, Refines
<1> QED
  BY <1>11, <1>16, <1>17, <1>18 DEF IInv

\* Opening a branch with a control of its own keeps the invariant.
LEMMA SelectionBranchStep ==
    ASSUME IInv, NEW v \in Pin \union Owners, SelectionBranch(v)
    PROVE  IInv'
<1> DEFINE raw == Value(v)
           kept == And(point.kept, Bypass(TRUE, raw))
<1>0. Typed
  BY DEF IInv
<1>1. PICK taken \in BOOLEAN :
        /\ Bit(taken) \in Meanings(v)
        /\ branches' = Append(branches, Frame(v, TRUE, taken, kept))
        /\ point' = [path |-> And(point.path, K1(raw)), raw |-> And(point.raw, raw),
                     kept |-> kept, selected |-> point.selected /\ taken,
                     live |-> point.live /\ taken]
  BY Zenon DEF SelectionBranch
<1>2. PICK n \in Nat : n = Len(branches)
  BY <1>0 DEF Typed
<1>3. PICK f : f = Frame(v, TRUE, taken, kept)
  BY Zenon
<1>4. raw \in Pin /\ Bypass(TRUE, raw) \in Bits
  BY <1>0, ValueTypes, BypassTypes, Zenon DEF Typed
<1>5. kept \in Bits
  BY <1>0, <1>4, Connectives, Zenon DEF Typed, PointType
<1>6. f \in FrameType
  <2> HIDE DEF kept, raw
  <2> QED BY <1>0, <1>3, <1>4, <1>5, Zenon DEF Frame, FrameType, Typed, PointType, Identity, Bits, raw
<1>7. /\ f.outer = point /\ f.selection = TRUE /\ f.arm = TRUE /\ f.taken = taken
      /\ f.condition = raw /\ f.entry = versions
  BY <1>3 DEF Frame
<1>8. /\ UNCHANGED <<pins, versions, effects, state, popped>> /\ demand' = Identity
      /\ AdmitControl(TRUE, raw) /\ Meet(Bit(point.live), raw # "x", raw) /\ ~InPure
      /\ accesses' = RetainControl(Bypass(TRUE, raw), accesses)
  BY Zenon DEF SelectionBranch
<1>9. \A vs : Refines(vs)' = Refines(vs)
  BY <1>8, Zenon DEF Refines
<1>10. point.live => raw \in {"x", Bit(taken)}
  BY <1>1, ValueMeans, Zenon
<1>11. ~Pure(n)
  BY <1>2, <1>8 DEF InPure, Pure
<1>12. /\ mode' \in {"run", "held", "fault"} /\ (mode' = "run" => mode = "run")
       /\ mode' = "run" /\ point.live => raw # "x"
  BY <1>0, <1>8 DEF Meet, Typed, Bit
<1>13. Placed(point, n)
  BY <1>2 DEF IInv, Positioned
<1>14. mode = "run" => point.path = Bit(point.live) /\ point.raw = Bit(point.live)
                       /\ point.live = point.selected
  BY <1>11, <1>13 DEF Placed, PointOK
<1>15. FrameOK(f)'
  BY <1>7, <1>9, <1>10, <1>12, <1>8, Zenon DEF FrameOK, IInv
<1>16. /\ branches' \in Seq(FrameType) /\ Len(branches') = n + 1 /\ branches'[n + 1] = f
       /\ \A j \in 1..n : SameFrame(branches'[j], branches[j])
       /\ Framed'
  <2> HIDE DEF kept, raw
  <2> QED BY <1>1, <1>2, <1>3, <1>6, <1>7, <1>8, <1>11, <1>12, <1>15, FramePushed, Zenon
<1>17. /\ point' \in PointType /\ point'.path = And(point.path, K1(raw))
       /\ point'.selected = (point.selected /\ taken) /\ point'.live = (point.live /\ taken)
       /\ point'.raw = And(point.raw, raw)
  <2>1. And(point.path, K1(raw)) \in Bits /\ And(point.raw, raw) \in Pin
        /\ point.selected \in BOOLEAN /\ point.live \in BOOLEAN
    BY <1>0, <1>4, Connectives, Zenon DEF Typed, PointType
  <2> HIDE DEF kept, raw
  <2> QED BY <1>1, <1>5, <2>1, Zenon DEF PointType
<1>18. PointOK(point, Pure(Len(branches)))'
  <2> HIDE DEF kept, raw
  <2>1. /\ point'.live => point'.selected
        /\ point'.raw = "1" => point'.live
        /\ point'.raw = "0" => ~point'.live
    BY <1>10, <1>13, <1>17, Zenon DEF Placed, PointOK, And, Bit
  <2>2. mode' = "run" => /\ point'.path = Bit(point'.selected)
                         /\ point'.live = point'.selected /\ point'.raw = Bit(point'.live)
    BY <1>4, <1>10, <1>12, <1>14, <1>17, Zenon DEF And, Bit, K1, Pin
  <2> QED
    BY <2>1, <2>2, Zenon DEF PointOK, Bit
<1>19. Follows(point, Len(branches))'
  <2>1. PICK p : p = point
    OBVIOUS
  <2>2. Placed(p, n)'
    BY <1>12, <1>16, <1>13, <2>1, PlacedKept
  <2> QED
    BY <1>7, <1>16, <1>17, <2>1, <2>2, FollowsTop, Zenon DEF Placed
<1>20. Positioned'
  BY <1>18, <1>19 DEF Positioned, Placed
<1>21. accesses' \subseteq AccessType /\ SameAccesses(accesses, accesses')
  BY <1>0, <1>4, <1>8, RetainTypes, Zenon DEF Typed
<1>22. Typed'
  <2>1. prefix' \in Bits /\ flagged' \in BOOLEAN /\ demand' \in [Pin -> Pin]
    BY <1>0, <1>4, <1>8, Connectives, Zenon DEF AdmitControl, Typed, Identity
  <2> QED
    BY <1>0, <1>8, <1>12, <1>16, <1>17, <1>21, <2>1, Zenon DEF Typed
<1>23. AdmissionExact'
  <2> HIDE DEF raw, kept
  <2>1. CASE mode # "run"
    BY <1>0, <1>4, <1>8, <2>1 DEF IInv, AdmissionExact, AdmitControl, Meet, Bit, And, Bits, Typed
  <2>2. CASE mode = "run"
    BY <1>4, <1>8, <1>14, <2>2, Zenon DEF IInv, AdmissionExact, AdmitControl, Meet, Bit, And, Bypass,
                                   Select, Accepted, Or, K0, K1, Pin
  <2> QED
    BY <2>1, <2>2
<1>24. Credited'
  <2>1. \A q : Credit(q)' = Credit(q)
    BY <1>21, CreditKept DEF SameAccesses
  <2> QED
    BY <1>8, <1>12, <2>1 DEF Credited, IInv
<1>25. EffectsPlaced' /\ (point.live => Refines(versions))'
  BY <1>8, <1>12, <1>17, Zenon DEF IInv, EffectsPlaced, Refines
<1> QED
  BY <1>16, <1>20, <1>22, <1>23, <1>24, <1>25 DEF IInv

\* Starting the second arm keeps the invariant.
LEMMA ElseStep ==
    ASSUME IInv, Else
    PROVE  IInv'
<1>0. Typed
  BY DEF IInv
<1>1. PICK n \in Nat : n + 1 = Len(branches)
  <2>1. Len(branches) \in Nat /\ Len(branches) # 0
    BY <1>0 DEF Else, Typed
  <2> QED
    BY <2>1, SMTT(30)
<1>2. PICK b : b = branches[n + 1]
  OBVIOUS
<1>3. b \in FrameType /\ b.arm /\ FrameOK(b) /\ Placed(b.outer, n) /\ (b.selection => ~Pure(n))
  <2>1. n + 1 \in 1..Len(branches) /\ (n + 1) - 1 = n
    BY <1>1
  <2> QED
    BY <1>0, <1>1, <1>2, <2>1 DEF Else, Innermost, Typed, IInv, Framed
<1>4. PICK g : g = [b EXCEPT !.arm = FALSE, !.thenEnd = versions, !.thenKept = point.kept,
                             !.thenDemand = demand]
  OBVIOUS
<1>5. /\ branches' = [branches EXCEPT ![n + 1] = g]
      /\ versions' = b.entry
      /\ point' = [path |-> IF b.selection THEN And(b.outer.path, K0(b.condition)) ELSE b.outer.path,
                   raw |-> And(b.outer.raw, Not(b.condition)), kept |-> b.inside,
                   selected |-> b.outer.selected /\ (b.selection => ~b.taken),
                   live |-> b.outer.live /\ ~b.taken]
      /\ demand' = IF b.selection THEN Identity ELSE demand
      /\ UNCHANGED <<pins, prefix, flagged, effects, accesses, mode, state, popped>>
  BY <1>1, <1>2, <1>4, Zenon DEF Else, Innermost, meaning
<1>6. g \in FrameType
  BY <1>0, <1>3, <1>4, Zenon DEF FrameType, Typed, PointType
<1>7. /\ branches' \in Seq(FrameType) /\ Len(branches') = n + 1 /\ branches'[n + 1] = g
      /\ \A j \in 1..n : branches'[j] = branches[j]
  BY <1>0, <1>1, <1>5, <1>6, SMTT(30) DEF Typed
<1>8. \A j \in 1..n : SameFrame(branches'[j], branches[j])
  BY <1>7 DEF SameFrame
<1>9. /\ g.outer = b.outer /\ g.arm = FALSE /\ g.taken = b.taken /\ g.condition = b.condition
      /\ g.selection = b.selection /\ g.entry = b.entry /\ g.thenEnd = versions
  BY <1>3, <1>4 DEF FrameType
<1>10. \A vs : Refines(vs)' = Refines(vs)
  BY <1>5, Zenon DEF Refines
<1>11. b.outer.live /\ b.taken => Refines(versions)
  BY <1>1, <1>2, <1>3, SMTT(30) DEF IInv, Positioned, Placed, Follows, FrameType
<1>12. FrameOK(g)'
  BY <1>3, <1>5, <1>9, <1>10, <1>11, Zenon DEF FrameOK
<1>13. Placed(b.outer, n)'
  BY <1>3, <1>5, <1>8, PlacedKept, Zenon
<1>14. Framed'
  <2> SUFFICES ASSUME NEW i \in 1..(n + 1)
               PROVE  /\ FrameOK(branches[i])'
                      /\ Placed(branches[i].outer, i - 1)'
                      /\ branches'[i].selection => ~Pure(i - 1)'
    BY <1>7 DEF Framed
  <2>1. CASE i \in 1..n
    BY <1>1, <1>5, <1>8, <2>1, FrameKept, SMTT(30) DEF IInv
  <2>2. CASE i = n + 1
    <3>1. i - 1 = n
      BY <2>2
    <3>2. b.selection => ~Pure(n)'
      BY <1>3, <1>7 DEF Pure
    <3> QED
      BY <1>7, <1>9, <1>12, <1>13, <2>2, <3>1, <3>2
  <2> QED
    BY <2>1, <2>2
<1>15. /\ point' \in PointType
       /\ point'.path = IF b.selection THEN And(b.outer.path, K0(b.condition)) ELSE b.outer.path
       /\ point'.raw = And(b.outer.raw, Not(b.condition))
       /\ point'.selected = (b.outer.selected /\ (b.selection => ~b.taken))
       /\ point'.live = (b.outer.live /\ ~b.taken)
  <2>1. /\ b.outer \in PointType /\ b.condition \in Pin /\ b.inside \in Bits
        /\ b.selection \in BOOLEAN /\ b.taken \in BOOLEAN
    BY <1>3 DEF FrameType
  <2>2. And(b.outer.path, K0(b.condition)) \in Bits /\ And(b.outer.raw, Not(b.condition)) \in Pin
    BY <2>1, Connectives, Zenon DEF PointType
  <2> QED
    BY <1>5, <2>1, <2>2, Zenon DEF PointType
<1>16. PointOK(point, Pure(Len(branches)))'
  <2>1. Pure(Len(branches))' = ~b.selection
    BY <1>3, <1>7, <1>9, SMTT(30) DEF Pure, FrameType
  <2>2. /\ point'.live => point'.selected
        /\ point'.raw = "1" => point'.live
        /\ point'.raw = "0" => ~point'.live
    BY <1>3, <1>15, Zenon DEF Placed, PointOK, FrameOK, And, Not, Bit, FrameType, Pin
  <2>3. ASSUME mode' = "run", b.selection
        PROVE  /\ point'.path = Bit(point'.selected)
               /\ point'.live = point'.selected /\ point'.raw = Bit(point'.live)
    <3>1. b.outer.path = Bit(b.outer.live) /\ b.outer.raw = Bit(b.outer.live)
          /\ b.outer.live = b.outer.selected /\ b.outer.live \in BOOLEAN
      BY <1>3, <1>5, <2>3, Zenon DEF Placed, PointOK, FrameType, PointType
    <3>2. b.outer.live => b.condition = Bit(b.taken)
      BY <1>3, <1>5, <2>3, Zenon DEF FrameOK
    <3> QED
      BY <1>3, <1>15, <2>3, <3>1, <3>2, Zenon DEF And, Not, K0, Bit, FrameType
  <2>4. ASSUME mode' = "run", ~b.selection
        PROVE  point'.path = Bit(point'.selected) /\ (~point'.selected => point'.raw = "0")
    BY <1>3, <1>5, <1>15, <2>4, Zenon DEF Placed, PointOK, And, Bit
  <2> QED
    BY <2>1, <2>2, <2>3, <2>4, Zenon DEF PointOK, Bit
<1>17. Follows(point, Len(branches))'
  BY <1>3, <1>7, <1>9, <1>13, <1>15, FollowsTop, Zenon DEF Placed, FrameType
<1>18. Positioned'
  BY <1>16, <1>17 DEF Positioned, Placed
<1>19. Typed'
  BY <1>0, <1>3, <1>5, <1>7, <1>15, Zenon DEF Typed, FrameType, Identity
<1>20. (point.live => Refines(versions))'
  <2>1. b.outer.live /\ ~b.taken => Refines(b.entry)
    BY <1>3 DEF FrameOK
  <2> QED
    BY <1>5, <1>15, <2>1, Zenon DEF Refines
<1>21. AdmissionExact' /\ EffectsPlaced' /\ Credited'
  BY <1>5, Zenon DEF IInv, AdmissionExact, EffectsPlaced, Credited, Credit
<1> QED
  BY <1>14, <1>18, <1>19, <1>20, <1>21 DEF IInv

\* Joining the two arms keeps the invariant.
LEMMA EndBranchStep ==
    ASSUME IInv, EndBranch
    PROVE  IInv'
<1>0. Typed
  BY DEF IInv
<1>1. PICK n \in Nat : n + 1 = Len(branches)
  <2>1. Len(branches) \in Nat /\ Len(branches) # 0
    BY <1>0 DEF EndBranch, Typed
  <2> QED
    BY <2>1, SMTT(30)
<1>2. PICK b : b = branches[n + 1]
  OBVIOUS
<1>3. b \in FrameType /\ ~b.arm /\ FrameOK(b) /\ Placed(b.outer, n)
  <2>1. n + 1 \in 1..Len(branches) /\ (n + 1) - 1 = n
    BY <1>1
  <2> QED
    BY <1>0, <1>1, <1>2, <2>1 DEF EndBranch, Innermost, Typed, IInv, Framed
<1>4. /\ branches' = SubSeq(branches, 1, n)
      /\ versions' = Join(b)
      /\ point' = [b.outer EXCEPT !.kept = And(b.thenKept, point.kept)]
      /\ demand' = DemandJoin(b)
      /\ accesses' = {[a EXCEPT !.arms = [i \in DOMAIN @ \cap 1..n |-> @[i]]] : a \in accesses}
      /\ UNCHANGED <<pins, prefix, flagged, effects, mode, state, popped>>
  <2>1. Len(branches) - 1 = n /\ Innermost = b
    BY <1>1, <1>2 DEF Innermost
  <2> QED
    BY <2>1, Zenon DEF EndBranch, meaning
<1>5. /\ branches' \in Seq(FrameType) /\ Len(branches') = n
      /\ \A j \in 1..n : branches'[j] = branches[j]
  BY <1>0, <1>1, <1>4 DEF Typed
<1>6. \A j \in 1..n : SameFrame(branches'[j], branches[j])
  BY <1>5 DEF SameFrame
<1>7. Framed'
  BY <1>1, <1>4, <1>5, <1>6, FrameKept, SMTT(30) DEF IInv, Framed
<1>8. /\ point' \in PointType /\ point'.path = b.outer.path /\ point'.raw = b.outer.raw
      /\ point'.selected = b.outer.selected /\ point'.live = b.outer.live
  BY <1>0, <1>3, <1>4, Connectives, Zenon DEF FrameType, PointType, Typed
<1>9. Positioned'
  <2>1. Placed(b.outer, n)'
    BY <1>3, <1>4, <1>6, PlacedKept
  <2> QED
    BY <1>5, <1>8, <2>1, Zenon DEF Positioned, Placed, PointOK, Follows, Pure
<1>10. versions' \in VersionsType
  BY <1>0, <1>3, <1>4, Connectives DEF Join, VersionsType, FrameType, Typed
<1>11. demand' \in [Pin -> Pin]
  BY <1>0, <1>3, <1>4, Connectives DEF DemandJoin, FrameType, Typed
<1>12. accesses' \subseteq AccessType /\ SameAccesses(accesses, accesses')
  <2> DEFINE f(a) == [a EXCEPT !.arms = [i \in DOMAIN a.arms \cap 1..n |-> a.arms[i]]]
  <2>1. ASSUME NEW a \in accesses
        PROVE  f(a) \in AccessType /\ Alike(a, f(a))
    <3>1. a \in AccessType
      BY <1>0 DEF Typed
    <3>2. PICK S \in SUBSET Nat : a.arms \in [S -> BOOLEAN]
      BY <3>1 DEF AccessType, ArmsType
    <3> DEFINE cut == [i \in DOMAIN a.arms \cap 1..n |-> a.arms[i]]
    <3>3. cut \in [S \cap 1..n -> BOOLEAN] /\ S \cap 1..n \in SUBSET Nat
      BY <3>2
    <3>4. cut \in ArmsType
      BY <3>3, Zenon DEF ArmsType
    <3> HIDE DEF cut
    <3>5. f(a) = [a EXCEPT !.arms = cut]
      BY DEF cut
    <3> QED
      BY <3>1, <3>4, <3>5 DEF AccessType, Alike
  <2>2. accesses' = {f(a) : a \in accesses}
    BY <1>4
  <2> HIDE DEF f
  <2> QED
    BY <2>1, <2>2 DEF SameAccesses
<1>13. Typed'
  BY <1>0, <1>4, <1>5, <1>8, <1>10, <1>11, <1>12, Zenon DEF Typed
<1>14. Credited'
  <2>1. \A q : Credit(q)' = Credit(q)
    BY <1>12, CreditKept DEF SameAccesses
  <2> QED
    BY <1>4, <2>1 DEF Credited, IInv
<1>15. AdmissionExact' /\ EffectsPlaced'
  BY <1>4 DEF IInv, AdmissionExact, EffectsPlaced
<1>16. (point.live => Refines(versions))'
  <2> SUFFICES ASSUME b.outer.live, NEW o \in Owners
               PROVE  /\ versions'[o].data \in {"x", state[o].value}
                      /\ versions'[o].intent \in {"x", Bit(state[o].written)}
    BY <1>4, <1>8 DEF Refines
  <2>1. versions'[o] = [data |-> Select(b.condition, b.thenEnd[o].data, versions[o].data),
                        intent |-> Select(b.condition, b.thenEnd[o].intent, versions[o].intent)]
    BY <1>4 DEF Join
  <2>2. b.condition \in {"x", Bit(b.taken)} /\ b.taken \in BOOLEAN
    BY <1>3 DEF FrameOK, FrameType
  <2>3. CASE b.taken
    <3>1. /\ b.thenEnd[o].data \in {"x", state[o].value}
          /\ b.thenEnd[o].intent \in {"x", Bit(state[o].written)}
      BY <1>3, <2>3, Zenon DEF FrameOK, Refines
    <3> QED
      BY <2>1, <2>2, <2>3, <3>1, SMTT(30) DEF Select, Bit
  <2>4. CASE ~b.taken
    <3>1. point.live
      BY <1>1, <1>2, <1>3, <2>4, SMTT(30) DEF IInv, Positioned, Placed, Follows, FrameType
    <3>2. /\ versions[o].data \in {"x", state[o].value}
          /\ versions[o].intent \in {"x", Bit(state[o].written)}
      BY <3>1, Zenon DEF IInv, Refines
    <3> QED
      BY <2>1, <2>2, <2>4, <3>2, SMTT(30) DEF Select, Bit
  <2> QED
    BY <2>2, <2>3, <2>4
<1> QED
  BY <1>7, <1>9, <1>13, <1>14, <1>15, <1>16 DEF IInv

-----------------------------------------------------------------------------
\* Every statement and every end of a branch keeps the invariant.
LEMMA NextInv == IInv /\ [Next]_vars => IInv'
<1> SUFFICES ASSUME IInv, [Next]_vars PROVE IInv'
  OBVIOUS
<1>1. Authored \subseteq Pin
  BY ConstantsAssumption
<1>2. ASSUME NEW raw \in Pin, Guard(raw) PROVE IInv'
  BY <1>2, GuardStep
<1>3. ASSUME NEW available \in Pin, NEW authored \in Authored, Require(available, authored)
      PROVE  IInv'
  BY <1>1, <1>3, RequireStep
<1>4. ASSUME NEW v \in Pin \union Owners, SelectionBranch(v) PROVE IInv'
  BY <1>4, SelectionBranchStep
<1>5. ASSUME NEW v \in Pin \union Owners, PureBranch(v) PROVE IInv'
  BY <1>5, PureBranchStep
<1>6. CASE Effect
  BY <1>6, EffectStep
<1>7. ASSUME NEW o \in Owners, NEW v \in Pin \union Owners, NEW authored \in Authored,
             Write(o, v, authored)
      PROVE  IInv'
  BY <1>1, <1>7, WriteStep
<1>8. ASSUME NEW m \in Memories, NEW authored \in Authored, NEW kind \in {"read", "write"},
             MemoryAccess(m, kind, authored)
      PROVE  IInv'
  BY <1>1, <1>8, MemoryAccessStep
<1>9. ASSUME NEW m \in Memories, NEW authored \in Authored, NEW alive \in Pin,
             MemoryResult(m, alive, authored)
      PROVE  IInv'
  BY <1>1, <1>9, MemoryResultStep
<1>10. ASSUME NEW q \in Queues, NEW kind \in {"pop", "push", "peek"}, NEW authored \in Authored,
              QueueAccess(q, kind, authored)
       PROVE  IInv'
  BY <1>1, <1>10, QueueAccessStep
<1>11. CASE Else
  BY <1>11, ElseStep
<1>12. CASE EndBranch
  BY <1>12, EndBranchStep
<1>13. CASE UNCHANGED vars
  <2>1. /\ UNCHANGED <<pins, prefix, point, branches, versions, demand, flagged, effects>>
        /\ UNCHANGED <<accesses, mode, state, popped>>
    BY <1>13 DEF vars, lowering, meaning
  <2>2. Typed'
    BY <2>1 DEF IInv, Typed
  <2>3. AdmissionExact' /\ EffectsPlaced'
    BY <2>1 DEF IInv, AdmissionExact, EffectsPlaced
  <2>4. Credited'
    BY <2>1 DEF IInv, Credited, Credit
  <2>5. Positioned'
    BY <2>1, Zenon DEF IInv, Positioned, Placed, PointOK, Follows, Pure
  <2>6. Framed'
    BY <2>1, Zenon DEF IInv, Framed, Placed, PointOK, Follows, Pure, FrameOK, Refines
  <2>7. point'.live => Refines(versions)'
    BY <2>1 DEF IInv, Refines
  <2> QED BY <2>2, <2>3, <2>4, <2>5, <2>6, <2>7 DEF IInv
<1>14. CASE ControlStatement
  BY <1>2, <1>3, <1>4, <1>5, <1>6, <1>14 DEF ControlStatement
<1>15. CASE MemoryStatement
  BY <1>8, <1>9, <1>15 DEF MemoryStatement
<1> QED
  BY <1>7, <1>10, <1>11, <1>12, <1>13, <1>14, <1>15 DEF Next, WriteStatement, QueueStatement

\* The inductive invariant holds of every rule.
THEOREM Invariant == Spec => []IInv
<1>1. Init => IInv
  BY InitInv
<1>2. IInv /\ [Next]_vars => IInv'
  BY NextInv
<1> QED
  BY <1>1, <1>2, PTL DEF Spec

(***************************************************************************)
(* For every rule: the admission prefix the lowering builds is true        *)
(* exactly when the source reaches the end, and an unknown control is      *)
(* recorded exactly when the source is at fault.                           *)
(***************************************************************************)
THEOREM AdmissionCorrect == Spec => []AdmissionExact
<1>1. IInv => AdmissionExact
  BY DEF IInv
<1> QED
  BY <1>1, Invariant, PTL

(***************************************************************************)
(* For every rule: asserts and logs take effect exactly where the source   *)
(* executes them.                                                          *)
(***************************************************************************)
THEOREM EffectsCorrect == Spec => []EffectsExact
<1>1. IInv => EffectsExact
  BY DEF IInv, EffectsExact, EffectsPlaced, EffectPath, AdmissionExact, And, Bit, Bits
<1> QED
  BY <1>1, Invariant, PTL

(***************************************************************************)
(* For every rule: the candidates and the write enables are those of the   *)
(* source, whatever the unknown inputs are.                                *)
(***************************************************************************)
THEOREM CandidatesCorrect == Spec => []CandidatesSound
<1>1. IInv => CandidatesSound
  <2> SUFFICES ASSUME IInv, Complete, NEW o \in Owners
               PROVE  /\ versions[o].data \in {"x", state[o].value}
                      /\ WriteEnable(o) # "x" =>
                           (WriteEnable(o) = "1" <=> mode = "run" /\ state[o].written)
    BY DEF CandidatesSound
  <2>1. point.live
    BY Zenon DEF IInv, Complete, Positioned, Placed, Follows
  <2>2. /\ versions[o].data \in {"x", state[o].value}
        /\ versions[o].intent \in {"x", Bit(state[o].written)}
    BY <2>1 DEF IInv, Refines
  <2> QED
    BY <2>2 DEF IInv, AdmissionExact, WriteEnable, And, Bit
<1> QED
  BY <1>1, Invariant, PTL
=============================================================================
