------------------------ MODULE RuleResourceProofs ------------------------
(***************************************************************************)
(* What the accesses of a rule and its resource demand say of the source,  *)
(* for every rule: any number of statements, registers, queues and         *)
(* memories, nested to any depth.                                          *)
(***************************************************************************)
EXTENDS RuleLoweringProofs

-----------------------------------------------------------------------------
(* The shape of the branches around a point, whatever the mode.            *)

\* The point at the given depth.
Level(n) == IF n < Len(branches) THEN branches[n + 1].outer ELSE point

(***************************************************************************)
(* Of a point inside the first n branches: a selected path decides all     *)
(* selections around it, a decided condition rules out the raw path of the *)
(* other arm, and only pure branches make a difference between selected    *)
(* and live.                                                               *)
(***************************************************************************)
Traced(p, n) ==
    /\ p.path = "1" => \A j \in 1..n : branches[j].selection => branches[j].condition = Bit(branches[j].arm)
    /\ \A j \in 1..n : branches[j].condition = Bit(~branches[j].arm) => p.raw = "0"
    /\ ~Pure(n) => p.live = p.selected

Traces ==
    /\ Traced(point, Len(branches))
    /\ \A i \in 1..Len(branches) :
         /\ Traced(branches[i].outer, i - 1)
         /\ branches[i].selection => \A j \in 1..i : branches[j].selection
         /\ ~branches[i].selection => branches[i].outer.selected = point.selected

-----------------------------------------------------------------------------
(* What an access retains of the controls.                                 *)

\* A rule that runs has passed every control.
Passed ==
    mode = "run" =>
      /\ point.kept = "1"
      /\ \A i \in 1..Len(branches) : branches[i].inside = "1" /\ branches[i].thenKept = "1"

\* A control has failed at depth n or below.
FailedFrom(n) ==
    \/ point.kept = "0"
    \/ \E j \in (n + 1)..Len(branches) : ~branches[j].arm /\ branches[j].thenKept = "0"

\* A rule that has stopped retains that, or is in an arm that is not reached.
Stopped ==
    mode # "run" =>
      /\ \A n \in 0..Len(branches) : Pure(n) \/ Level(n).raw = "0" \/ FailedFrom(n)
      /\ \A i \in 1..Len(branches) :
           branches[i].selection /\ branches[i].arm =>
             branches[i].outer.raw = "0" \/ branches[i].inside = "0" \/ branches[i].condition = "1"

\* A decided condition rules out the raw path of an access in the other arm.
Within(a) ==
    \A i \in DOMAIN a.arms :
      /\ i \in 1..Len(branches) /\ branches[i].selection
      /\ branches[i].condition = Bit(~a.arms[i]) => a.raw = "0"

\* What an access proposes so far is what the source has done or is about to do.
Proposed(a) ==
    IF a.kind = "read" THEN And(a.retained, a.raw) = IF a.began THEN a.ran ELSE "0"
    ELSE IF mode = "run" THEN a.raw = a.ran
    ELSE a.kind = "write" \/ a.retained = "0" \/ a.raw = "0"

Sound(a) == Within(a) /\ Proposed(a) /\ (mode = "run" => a.retained = "1")

\* The queue of an access was ready for it.
Held(a) ==
    a.raw = "1" =>
      /\ a.kind = "pop" => pins[a.resource].head = "1"
      /\ a.kind = "push" /\ pins[a.resource].room # "1" =>
           /\ pins[a.resource].downstream /\ pins[a.resource].head = "1"
           /\ pins[a.resource].other = "1" \/ Credit(a.resource) = "1"

\* Of the accesses of a port at most one is reached.
Single(as) ==
    \A a, b \in as :
      a.kind \in {"pop", "push"} /\ a.kind = b.kind /\ a.resource = b.resource
        /\ a.raw # "0" /\ b.raw # "0" => a = b

\* What the proofs know of the accesses, and of the demand (DInv).
AInv ==
    /\ Passed /\ Stopped
    /\ \A a \in accesses : Sound(a)
    /\ mode = "run" => Single(accesses) /\ \A a \in accesses : Held(a)

-----------------------------------------------------------------------------
(* What the demand tells of the supply.                                    *)

\* The demand so far of the region at depth n.
Region(n) ==
    IF n < Len(branches) /\ branches[n + 1].selection THEN branches[n + 1].outerDemand ELSE demand

\* The demand of a region in which the rule has ended, was refused or neither,
\* when that of the rest is r.
Outcome(s, r) == IF s = "open" THEN r ELSE Bit(s = "free")

\* Where it is known, demand d is that outcome.
Tells(d, s) == \A c \in Pin, r \in Bits : c \in {"x", r} => d[c] \in {"x", Outcome(s, r)}

\* The first arm of branch i was taken and has ended.
ThenTaken(i) ==
    branches[i].selection /\ branches[i].outer.live /\ ~branches[i].arm /\ branches[i].taken

\* The depth of the innermost selection.
Topped == \E m \in 0..Len(branches) : ~Pure(m) /\ (m < Len(branches) => ~branches[m + 1].selection)

\* Where it is known, the credit of a queue is what the source has taken from it.
Taking ==
    \A q \in Queues : /\ Credit(q) \in {"x", Bit(popped[q].took)}
                      /\ popped[q].path \in {"x", Bit(popped[q].took)}

\* While the source goes on, every live region and every arm taken passes on what the
\* rest asks for.
Supplied ==
    supply = "open" =>
      /\ \A n \in 0..Len(branches) : ~Pure(n) /\ Level(n).live => Tells(Region(n), "open")
      /\ \A i \in 1..Len(branches) : ThenTaken(i) => Tells(branches[i].thenDemand, "open")

\* Once the rule has ended or was refused, some region or arm the source took says so
\* and the regions around it pass it on.
Settled ==
    supply # "open" =>
      \E m \in 0..Len(branches) :
        /\ ~Pure(m)
        /\ \A n \in 0..(m - 1) : Tells(Region(n), "open")
        /\ \/ Level(m).live /\ Tells(Region(m), supply)
           \/ m > 0 /\ ThenTaken(m) /\ Tells(branches[m].thenDemand, supply)

DInv ==
    /\ supply \in {"open", "free", "refused"} /\ (supply = "refused" => mode # "run")
    /\ Topped /\ Taking /\ Supplied /\ Settled

-----------------------------------------------------------------------------
(* The shape of the branches.                                              *)

\* What a step that leaves the frames and the path of the point alone keeps.
SamePlace ==
    /\ SameFrames
    /\ point'.path = point.path /\ point'.raw = point.raw
    /\ point'.selected = point.selected /\ point'.live = point.live

\* The trace of a point depends on the frames around it only.
LEMMA TracedKept ==
    ASSUME NEW n \in Nat, NEW p, Traced(p, n),
           \A j \in 1..n : SameFrame(branches'[j], branches[j])
    PROVE  Traced(p, n)'
<1>1. Pure(n)' = Pure(n)
  BY DEF Pure, SameFrame
<1>2. p.path = "1" => \A j \in 1..n : branches'[j].selection => branches'[j].condition = Bit(branches'[j].arm)
  BY Zenon DEF Traced, SameFrame
<1>3. \A j \in 1..n : branches'[j].condition = Bit(~branches'[j].arm) => p.raw = "0"
  BY Zenon DEF Traced, SameFrame
<1> QED
  BY <1>1, <1>2, <1>3, Zenon DEF Traced

\* So do the traces of the frames themselves.
LEMMA OuterTraced ==
    ASSUME Traces, NEW n \in Nat, n <= Len(branches), Len(branches) \in Nat,
           \A j \in 1..n : SameFrame(branches'[j], branches[j]),
           NEW i \in 1..n
    PROVE  /\ Traced(branches[i].outer, i - 1)'
           /\ branches'[i].selection => \A j \in 1..i : branches'[j].selection
<1>0. /\ i \in 1..Len(branches) /\ i - 1 \in Nat /\ i \in Nat /\ SameFrame(branches'[i], branches[i])
      /\ \A j \in 1..(i - 1) : j \in 1..n
      /\ \A j \in 1..i : j \in 1..n
  OBVIOUS
<1>1. ASSUME NEW p, Traced(p, i - 1) PROVE Traced(p, i - 1)'
  BY <1>0, <1>1, TracedKept, Zenon
<1>2. Traced(branches[i].outer, i - 1) /\ (branches[i].selection => \A j \in 1..i : branches[j].selection)
  BY <1>0, Zenon DEF Traces
<1>3. branches'[i].outer = branches[i].outer
  BY <1>0, Zenon DEF SameFrame
<1>4. Traced(branches[i].outer, i - 1)'
  BY <1>1, <1>2, <1>3, Zenon
<1>5. branches'[i].selection => \A j \in 1..i : branches'[j].selection
  BY <1>0, <1>2, Zenon DEF SameFrame
<1> QED
  BY <1>4, <1>5, Zenon

\* A step that leaves the place alone keeps the shape of the branches.
LEMMA TracesKept ==
    ASSUME Typed, Traces, SamePlace
    PROVE  Traces'
<1>1. PICK n \in Nat : n = Len(branches)
  BY DEF Typed
<1>2. Len(branches') = n /\ \A j \in 1..n : SameFrame(branches'[j], branches[j])
  BY <1>1, Zenon DEF SamePlace, SameFrames
<1>3. ASSUME NEW i \in 1..n
      PROVE  /\ Traced(branches[i].outer, i - 1)'
             /\ branches'[i].selection => \A j \in 1..i : branches'[j].selection
             /\ ~branches'[i].selection => branches'[i].outer.selected = point'.selected
  <2>1. /\ Traced(branches[i].outer, i - 1)'
        /\ branches'[i].selection => \A j \in 1..i : branches'[j].selection
    BY <1>1, <1>2, OuterTraced
  <2>2. ~branches'[i].selection => branches'[i].outer.selected = point'.selected
    BY <1>1, <1>2 DEF Traces, SameFrame, SamePlace
  <2> QED
    BY <2>1, <2>2, Zenon
<1>4. Traced(point, n)'
  <2>1. PICK p : p = point
    BY Zenon
  <2>2. Traced(p, n)'
    BY <1>1, <1>2, <2>1, TracedKept, Zenon DEF Traces
  <2>3. p.path = point'.path /\ p.raw = point'.raw /\ p.live = point'.live /\ p.selected = point'.selected
    BY <2>1, Zenon DEF SamePlace
  <2> QED
    BY <2>2, <2>3, Zenon DEF Traced, Pure
<1> QED
  BY <1>2, <1>3, <1>4, Zenon DEF Traces

\* A point directly inside the innermost branch.
LEMMA TracedTop ==
    ASSUME NEW n \in Nat, NEW f, Len(branches') = n + 1, branches'[n + 1] = f, Traced(f.outer, n)',
           point'.path = "1" => f.outer.path = "1" /\ (f.selection => f.condition = Bit(f.arm)),
           f.outer.raw = "0" \/ f.condition = Bit(~f.arm) => point'.raw = "0",
           f.selection => point'.live = point'.selected
    PROVE  Traced(point, Len(branches))'
<1>0. n + 1 \in 1..(n + 1) /\ n + 1 > 0 /\ \A j \in 1..(n + 1) : j \in 1..n \/ j = n + 1
  OBVIOUS
<1>1. point'.path = "1" => \A j \in 1..(n + 1) : branches'[j].selection => branches'[j].condition = Bit(branches'[j].arm)
  BY <1>0, Zenon DEF Traced
<1>2. \A j \in 1..(n + 1) : branches'[j].condition = Bit(~branches'[j].arm) => point'.raw = "0"
  BY <1>0, Zenon DEF Traced
<1>3. ~Pure(n + 1)' => point'.live = point'.selected
  BY <1>0, Zenon DEF Pure
<1> QED
  BY <1>1, <1>2, <1>3, Zenon DEF Traced

\* A branch begins: frame f around the n that are open.
Pushed(n, f) ==
    /\ n = Len(branches) /\ f \in FrameType /\ (f.selection => ~Pure(n))
    /\ Len(branches') = n + 1 /\ branches'[n + 1] = f
    /\ \A j \in 1..n : branches'[j] = branches[j]
    /\ f.outer = point /\ f.arm = TRUE /\ f.thenKept = "1" /\ f.outerDemand = demand
    /\ point'.path = IF f.selection THEN And(point.path, K1(f.condition)) ELSE point.path
    /\ point'.raw = And(point.raw, f.condition)
    /\ point'.kept = f.inside
    /\ point'.selected = (point.selected /\ (f.selection => f.taken))
    /\ point'.live = (point.live /\ f.taken)

\* The second arm of the innermost branch begins: frame b becomes g.
Turned(n, b, g) ==
    /\ n + 1 = Len(branches) /\ b = branches[n + 1] /\ b \in FrameType /\ b.arm
    /\ g \in FrameType
    /\ Len(branches') = n + 1 /\ branches'[n + 1] = g
    /\ \A j \in 1..n : branches'[j] = branches[j]
    /\ g.outer = b.outer /\ g.arm = FALSE /\ g.taken = b.taken /\ g.condition = b.condition
    /\ g.selection = b.selection /\ g.inside = b.inside /\ g.outerDemand = b.outerDemand
    /\ g.thenKept = point.kept /\ g.thenDemand = demand
    /\ point'.path = IF b.selection THEN And(b.outer.path, K0(b.condition)) ELSE b.outer.path
    /\ point'.raw = And(b.outer.raw, Not(b.condition))
    /\ point'.kept = b.inside
    /\ point'.selected = (b.outer.selected /\ (b.selection => ~b.taken))
    /\ point'.live = (b.outer.live /\ ~b.taken)
    /\ demand' = IF b.selection THEN Identity ELSE demand
    /\ UNCHANGED <<pins, prefix, accesses, mode, popped, supply>>

\* The innermost branch b ends.
Popped(n, b) ==
    /\ n + 1 = Len(branches) /\ b = branches[n + 1] /\ b \in FrameType /\ ~b.arm
    /\ Len(branches') = n
    /\ \A j \in 1..n : branches'[j] = branches[j]
    /\ point'.path = b.outer.path /\ point'.raw = b.outer.raw
    /\ point'.kept = And(b.thenKept, point.kept)
    /\ point'.selected = b.outer.selected /\ point'.live = b.outer.live
    /\ demand' = DemandJoin(b)
    /\ accesses' = {[a EXCEPT !.arms = [i \in DOMAIN @ \cap 1..n |-> @[i]]] : a \in accesses}
    /\ UNCHANGED <<pins, prefix, mode, popped, supply>>

\* What PureBranch does to the branches and the point.
LEMMA PureShape ==
    ASSUME Typed, NEW v \in Pin \union Owners, PureBranch(v)
    PROVE  \E n \in Nat : \E f : Pushed(n, f) /\ ~f.selection /\ f.inside = point.kept
<1>1. PICK taken \in BOOLEAN :
        /\ branches' = Append(branches, Frame(v, FALSE, taken, point.kept))
        /\ point' = [point EXCEPT !.raw = And(@, Value(v)), !.live = @ /\ taken]
  BY Zenon DEF PureBranch
<1>2. PICK n \in Nat : n = Len(branches)
  BY DEF Typed
<1>3. PICK f : f = Frame(v, FALSE, taken, point.kept)
  BY Zenon
<1>4. Value(v) \in Pin
  BY ValueTypes, Zenon
<1>5. f \in FrameType
  BY <1>3, <1>4, Zenon DEF Frame, FrameType, Typed, PointType, Identity, Bits
<1>6. /\ f.outer = point /\ f.selection = FALSE /\ f.arm = TRUE /\ f.taken = taken
      /\ f.condition = Value(v) /\ f.thenKept = "1" /\ f.inside = point.kept /\ f.outerDemand = demand
  BY <1>3, Zenon DEF Frame
<1>7. /\ Len(branches') = n + 1 /\ branches'[n + 1] = f
      /\ \A j \in 1..n : branches'[j] = branches[j]
  <2>1. branches \in Seq(FrameType) /\ branches' = Append(branches, f)
    BY <1>1, <1>3, Zenon DEF Typed
  <2> QED
    BY <1>2, <1>5, <2>1
<1>8. /\ point'.path = point.path /\ point'.raw = And(point.raw, Value(v))
      /\ point'.kept = point.kept /\ point'.selected = point.selected
      /\ point'.live = (point.live /\ taken)
  BY <1>1, Zenon DEF Typed, PointType
<1>9. point.selected \in BOOLEAN
  BY Zenon DEF Typed, PointType
<1>10. point'.selected = (point.selected /\ (f.selection => f.taken))
  BY <1>6, <1>8, <1>9, Zenon
<1>11. Pushed(n, f)
  BY <1>2, <1>5, <1>6, <1>7, <1>8, <1>10, Zenon DEF Pushed
<1> QED
  BY <1>6, <1>11, Zenon

\* What SelectionBranch does to them.
LEMMA SelectionShape ==
    ASSUME Typed, NEW v \in Pin \union Owners, SelectionBranch(v)
    PROVE  \E n \in Nat : \E f :
             /\ Pushed(n, f) /\ f.selection /\ f.condition = Value(v)
             /\ f.inside = And(point.kept, Bypass(TRUE, Value(v)))
<1> DEFINE raw == Value(v)
           kept == And(point.kept, Bypass(TRUE, raw))
<1>1. PICK taken \in BOOLEAN :
        /\ branches' = Append(branches, Frame(v, TRUE, taken, kept))
        /\ point' = [path |-> And(point.path, K1(raw)), raw |-> And(point.raw, raw),
                     kept |-> kept, selected |-> point.selected /\ taken,
                     live |-> point.live /\ taken]
  BY Zenon DEF SelectionBranch
<1>2. PICK n \in Nat : n = Len(branches)
  BY DEF Typed
<1>3. PICK f : f = Frame(v, TRUE, taken, kept)
  BY Zenon
<1>4. raw \in Pin /\ Bypass(TRUE, raw) \in Bits
  BY ValueTypes, BypassTypes, Zenon DEF Typed
<1>5. kept \in Bits
  BY <1>4, Connectives, Zenon DEF Typed, PointType
<1>6. f \in FrameType
  <2> HIDE DEF kept, raw
  <2> QED BY <1>3, <1>4, <1>5, Zenon DEF Frame, FrameType, Typed, PointType, Identity, Bits, raw
<1>7. /\ f.outer = point /\ f.selection = TRUE /\ f.arm = TRUE /\ f.taken = taken
      /\ f.condition = raw /\ f.thenKept = "1" /\ f.inside = kept /\ f.outerDemand = demand
  BY <1>3, Zenon DEF Frame
<1>8. ~Pure(n)
  BY <1>2 DEF SelectionBranch, InPure, Pure, Typed
<1> HIDE DEF raw, kept
<1>9. /\ Len(branches') = n + 1 /\ branches'[n + 1] = f
      /\ \A j \in 1..n : branches'[j] = branches[j]
  <2>1. branches \in Seq(FrameType) /\ branches' = Append(branches, f)
    BY <1>1, <1>3, Zenon DEF Typed
  <2> QED
    BY <1>2, <1>6, <2>1
<1>10. /\ point'.path = And(point.path, K1(raw)) /\ point'.raw = And(point.raw, raw)
       /\ point'.kept = kept /\ point'.selected = (point.selected /\ taken)
       /\ point'.live = (point.live /\ taken)
  BY <1>1, Zenon
<1>11. point'.selected = (point.selected /\ (f.selection => f.taken))
  BY <1>7, <1>10, Zenon
<1>12. Pushed(n, f)
  BY <1>2, <1>6, <1>7, <1>8, <1>9, <1>10, <1>11, Zenon DEF Pushed
<1> QED
  BY <1>7, <1>12, Zenon DEF raw, kept

\* What Else does to them, to the demand and to the rest.
LEMMA ElseShape ==
    ASSUME Typed, Else
    PROVE  \E n \in Nat : \E b, g : Turned(n, b, g)
<1>1. PICK n \in Nat : n + 1 = Len(branches)
  <2>1. Len(branches) \in Nat /\ Len(branches) # 0
    BY DEF Else, Typed
  <2> QED
    BY <2>1, SMTT(30)
<1>2. PICK b : b = branches[n + 1]
  BY Zenon
<1>3. b \in FrameType /\ b.arm
  <2>1. n + 1 \in 1..Len(branches)
    BY <1>1
  <2> QED
    BY <1>1, <1>2, <2>1 DEF Else, Innermost, Typed
<1>4. PICK g : g = [b EXCEPT !.arm = FALSE, !.thenEnd = versions, !.thenKept = point.kept,
                             !.thenDemand = demand]
  BY Zenon
<1>5. /\ branches' = [branches EXCEPT ![n + 1] = g]
      /\ point' = [path |-> IF b.selection THEN And(b.outer.path, K0(b.condition)) ELSE b.outer.path,
                   raw |-> And(b.outer.raw, Not(b.condition)), kept |-> b.inside,
                   selected |-> b.outer.selected /\ (b.selection => ~b.taken),
                   live |-> b.outer.live /\ ~b.taken]
      /\ demand' = IF b.selection THEN Identity ELSE demand
      /\ UNCHANGED <<pins, prefix, accesses, mode, popped, supply>>
  BY <1>1, <1>2, <1>4, Zenon DEF Else, Innermost, meaning
<1>6. g \in FrameType
  BY <1>3, <1>4, Zenon DEF FrameType, Typed, PointType
<1>7. /\ Len(branches') = n + 1 /\ branches'[n + 1] = g
      /\ \A j \in 1..n : branches'[j] = branches[j]
  BY <1>1, <1>5, <1>6, SMTT(30) DEF Typed
<1>8. /\ g.outer = b.outer /\ g.arm = FALSE /\ g.taken = b.taken /\ g.condition = b.condition
      /\ g.selection = b.selection /\ g.inside = b.inside /\ g.outerDemand = b.outerDemand
      /\ g.thenKept = point.kept /\ g.thenDemand = demand
  BY <1>3, <1>4, Zenon DEF FrameType
<1>9. /\ point'.path = IF b.selection THEN And(b.outer.path, K0(b.condition)) ELSE b.outer.path
      /\ point'.raw = And(b.outer.raw, Not(b.condition))
      /\ point'.kept = b.inside
      /\ point'.selected = (b.outer.selected /\ (b.selection => ~b.taken))
      /\ point'.live = (b.outer.live /\ ~b.taken)
  BY <1>5, Zenon
<1>10. Turned(n, b, g)
  BY <1>1, <1>2, <1>3, <1>5, <1>6, <1>7, <1>8, <1>9, Zenon DEF Turned
<1> QED
  BY <1>10, Zenon

\* What EndBranch does to them, to the demand and to the accesses.
LEMMA EndShape ==
    ASSUME Typed, EndBranch
    PROVE  \E n \in Nat : \E b : Popped(n, b)
<1>1. PICK n \in Nat : n + 1 = Len(branches)
  <2>1. Len(branches) \in Nat /\ Len(branches) # 0
    BY DEF EndBranch, Typed
  <2> QED
    BY <2>1, SMTT(30)
<1>2. PICK b : b = branches[n + 1]
  BY Zenon
<1>3. b \in FrameType /\ ~b.arm
  <2>1. n + 1 \in 1..Len(branches)
    BY <1>1
  <2> QED
    BY <1>1, <1>2, <2>1 DEF EndBranch, Innermost, Typed
<1>4. /\ branches' = SubSeq(branches, 1, n)
      /\ point' = [b.outer EXCEPT !.kept = And(b.thenKept, point.kept)]
      /\ demand' = DemandJoin(b)
      /\ accesses' = {[a EXCEPT !.arms = [i \in DOMAIN @ \cap 1..n |-> @[i]]] : a \in accesses}
      /\ UNCHANGED <<pins, prefix, mode, popped, supply>>
  <2>1. Len(branches) - 1 = n /\ Innermost = b
    BY <1>1, <1>2 DEF Innermost
  <2> QED
    BY <2>1, Zenon DEF EndBranch, meaning
<1>5. Len(branches') = n /\ \A j \in 1..n : branches'[j] = branches[j]
  BY <1>1, <1>4 DEF Typed
<1>6. /\ point'.path = b.outer.path /\ point'.raw = b.outer.raw
      /\ point'.kept = And(b.thenKept, point.kept)
      /\ point'.selected = b.outer.selected /\ point'.live = b.outer.live
  BY <1>3, <1>4, Zenon DEF FrameType, PointType
<1>7. Popped(n, b)
  BY <1>1, <1>2, <1>3, <1>4, <1>5, <1>6, Zenon DEF Popped
<1> QED
  BY <1>7, Zenon

\* A branch that begins keeps the shape of the branches.
LEMMA TracesPushed ==
    ASSUME Typed, Traces, NEW n \in Nat, NEW f, Pushed(n, f)
    PROVE  Traces'
<1>1. \A j \in 1..n : SameFrame(branches'[j], branches[j])
  BY Zenon DEF Pushed, SameFrame
<1>2. n = Len(branches) /\ Len(branches') = n + 1 /\ branches'[n + 1] = f /\ n <= Len(branches)
  BY DEF Pushed
<1>3. Traced(f.outer, n)'
  BY <1>1, <1>2, TracedKept, Zenon DEF Traces, Pushed
<1>4. f.condition \in Pin /\ f.selection \in BOOLEAN /\ point.path \in Bits /\ point.selected \in BOOLEAN
  BY Zenon DEF Pushed, FrameType, Typed, PointType
<1>5. point'.path = "1" => f.outer.path = "1" /\ (f.selection => f.condition = Bit(f.arm))
  BY <1>4, Zenon DEF Pushed, And, K1, Bit, Bits
<1>6. f.outer.raw = "0" \/ f.condition = Bit(~f.arm) => point'.raw = "0"
  BY <1>4, Zenon DEF Pushed, And, Bit
<1>7. f.selection => point'.live = point'.selected
  <2>1. ~Pure(n) => point.live = point.selected
    BY <1>2, Zenon DEF Traces, Traced
  <2> QED
    BY <2>1, Zenon DEF Pushed
<1>8. Traced(point, Len(branches))'
  BY <1>2, <1>3, <1>5, <1>6, <1>7, TracedTop, Zenon
<1>9. f.selection => \A j \in 1..n : branches[j].selection
  <2>1. n = 0 \/ n \in 1..Len(branches)
    BY <1>2
  <2> QED
    BY <1>2, <2>1 DEF Traces, Pushed, Pure
<1>10. ~f.selection => point'.selected = point.selected
  BY <1>4, Zenon DEF Pushed
<1>11. ASSUME NEW i \in 1..(n + 1)
       PROVE  /\ Traced(branches[i].outer, i - 1)'
              /\ branches'[i].selection => \A j \in 1..i : branches'[j].selection
              /\ ~branches'[i].selection => branches'[i].outer.selected = point'.selected
  <2>1. CASE i \in 1..n
    <3>1. /\ Traced(branches[i].outer, i - 1)'
          /\ branches'[i].selection => \A j \in 1..i : branches'[j].selection
      BY <1>1, <1>2, <2>1, OuterTraced, Zenon
    <3>2. ~branches[i].selection => branches[i].outer.selected = point.selected
      BY <1>2, <2>1, Zenon DEF Traces
    <3>3. branches'[i] = branches[i]
      BY <2>1, Zenon DEF Pushed
    <3> QED
      BY <1>9, <1>10, <2>1, <3>1, <3>2, <3>3, Zenon
  <2>2. CASE i = n + 1
    <3>1. i - 1 = n /\ \A j \in 1..i : j \in 1..n \/ j = n + 1
      BY <2>2
    <3>2. f.selection => \A j \in 1..i : branches'[j].selection
      BY <1>2, <1>9, <3>1, Zenon DEF Pushed
    <3>3. ~f.selection => f.outer.selected = point'.selected
      BY <1>10, Zenon DEF Pushed
    <3> QED
      BY <1>2, <1>3, <2>2, <3>1, <3>2, <3>3, Zenon
  <2> QED
    BY <2>1, <2>2
<1> QED
  BY <1>2, <1>8, <1>11, Zenon DEF Traces

\* So does its second arm.
LEMMA TracesTurned ==
    ASSUME Typed, Traces, NEW n \in Nat, NEW b, NEW g, Turned(n, b, g)
    PROVE  Traces'
<1>1. \A j \in 1..n : SameFrame(branches'[j], branches[j])
  BY Zenon DEF Turned, SameFrame
<1>2. /\ n + 1 = Len(branches) /\ Len(branches') = n + 1 /\ branches'[n + 1] = g
      /\ n <= Len(branches) /\ n + 1 \in 1..Len(branches) /\ (n + 1) - 1 = n
  BY DEF Turned
<1>3. /\ Traced(b.outer, n)
      /\ b.selection => \A j \in 1..(n + 1) : branches[j].selection
      /\ ~b.selection => b.outer.selected = point.selected
  BY <1>2, Zenon DEF Traces, Turned
<1>4. Traced(b.outer, n)'
  BY <1>1, <1>3, TracedKept, Zenon
<1>5. /\ b.condition \in Pin /\ b.selection \in BOOLEAN /\ b.outer.path \in Bits
      /\ b.outer.selected \in BOOLEAN /\ g.outer = b.outer
  BY Zenon DEF Turned, FrameType, PointType
<1>6. point'.path = "1" => g.outer.path = "1" /\ (g.selection => g.condition = Bit(g.arm))
  BY <1>5, Zenon DEF Turned, And, K0, Bit, Bits
<1>7. g.outer.raw = "0" \/ g.condition = Bit(~g.arm) => point'.raw = "0"
  BY <1>5, Zenon DEF Turned, And, Not, Bit
<1>8. g.selection => point'.live = point'.selected
  <2>1. b.selection => ~Pure(n)
    BY <1>3 DEF Pure
  <2>2. ~Pure(n) => b.outer.live = b.outer.selected
    BY <1>3, Zenon DEF Traced
  <2> QED
    BY <2>1, <2>2, Zenon DEF Turned
<1>9. Traced(point, Len(branches))'
  <2>1. Traced(g.outer, n)'
    BY <1>4, <1>5, Zenon
  <2> QED
    BY <1>2, <1>6, <1>7, <1>8, <2>1, TracedTop, Zenon
<1>10. ~b.selection => point'.selected = b.outer.selected
  BY <1>5, Zenon DEF Turned
<1>11. ASSUME NEW i \in 1..(n + 1)
       PROVE  /\ Traced(branches[i].outer, i - 1)'
              /\ branches'[i].selection => \A j \in 1..i : branches'[j].selection
              /\ ~branches'[i].selection => branches'[i].outer.selected = point'.selected
  <2>1. CASE i \in 1..n
    <3>1. /\ Traced(branches[i].outer, i - 1)'
          /\ branches'[i].selection => \A j \in 1..i : branches'[j].selection
      BY <1>1, <1>2, <2>1, OuterTraced
    <3>2. ~branches[i].selection => branches[i].outer.selected = point.selected
      BY <1>2, Zenon DEF Traces
    <3>3. branches'[i] = branches[i]
      BY <2>1, Zenon DEF Turned
    <3> QED
      BY <1>3, <1>10, <2>1, <3>1, <3>2, <3>3, Zenon
  <2>2. CASE i = n + 1
    <3>1. i - 1 = n /\ \A j \in 1..i : j \in 1..n \/ j = n + 1
      BY <2>2
    <3>2. g.selection => \A j \in 1..i : branches'[j].selection
      BY <1>2, <1>3, <2>2, <3>1, Zenon DEF Turned
    <3>3. ~g.selection => g.outer.selected = point'.selected
      BY <1>5, <1>10, Zenon DEF Turned
    <3> QED
      BY <1>2, <1>4, <1>5, <2>2, <3>1, <3>2, <3>3, Zenon
  <2> QED
    BY <2>1, <2>2
<1> QED
  BY <1>2, <1>9, <1>11, Zenon DEF Traces

\* So does its end.
LEMMA TracesPopped ==
    ASSUME Typed, Traces, NEW n \in Nat, NEW b, Popped(n, b)
    PROVE  Traces'
<1>1. \A j \in 1..n : SameFrame(branches'[j], branches[j])
  BY Zenon DEF Popped, SameFrame
<1>2. /\ n + 1 = Len(branches) /\ Len(branches') = n
      /\ n <= Len(branches) /\ n + 1 \in 1..Len(branches) /\ (n + 1) - 1 = n
  BY DEF Popped
<1>3. /\ Traced(b.outer, n)
      /\ b.selection => \A j \in 1..(n + 1) : branches[j].selection
      /\ ~b.selection => b.outer.selected = point.selected
  BY <1>2, Zenon DEF Traces, Popped
<1>4. Traced(b.outer, n)'
  BY <1>1, <1>3, TracedKept, Zenon
<1>5. Traced(point, Len(branches))'
  BY <1>2, <1>4, Zenon DEF Traced, Popped, Pure
<1>6. ASSUME NEW i \in 1..n
      PROVE  /\ Traced(branches[i].outer, i - 1)'
             /\ branches'[i].selection => \A j \in 1..i : branches'[j].selection
             /\ ~branches'[i].selection => branches'[i].outer.selected = point'.selected
  <2>1. /\ Traced(branches[i].outer, i - 1)'
        /\ branches'[i].selection => \A j \in 1..i : branches'[j].selection
    BY <1>1, <1>2, OuterTraced
  <2>2. ~branches[i].selection => branches[i].outer.selected = point.selected
    BY <1>2 DEF Traces
  <2>3. branches'[i] = branches[i] /\ point'.selected = b.outer.selected /\ i \in 1..(n + 1)
    BY DEF Popped
  <2> QED
    BY <1>3, <2>1, <2>2, <2>3, Zenon
<1> QED
  BY <1>2, <1>5, <1>6, Zenon DEF Traces

-----------------------------------------------------------------------------
(* Accesses.                                                               *)

\* What becomes of an access at a control.
Kept(k, a) ==
    IF a.kind = "read" \/ Disjoint(a.arms, Arms) THEN a
    ELSE [a EXCEPT !.retained = And(@, k)]

\* A rule goes on exactly past a control that passes.
LEMMA ControlPassed ==
    ASSUME AdmissionExact, AdmissionExact', NEW k \in Bits, prefix' = And(prefix, k)
    PROVE  mode' = "run" <=> mode = "run" /\ k = "1"
BY Zenon DEF AdmissionExact, And, Bit, Bits

\* A control that fails on a selected path reaches the accesses of the other arms
\* only where those are ruled out.
LEMMA AccessKept ==
    ASSUME Typed, Traces, NEW k \in Bits, NEW a \in AccessType, Sound(a), NEW b, b = Kept(k, a),
           mode' = "run" <=> mode = "run" /\ k = "1",
           k = "0" => point.path = "1"
    PROVE  /\ b \in AccessType /\ Alike(a, b) /\ b.arms = a.arms
           /\ mode' = "run" => b.retained = "1"
           /\ Proposed(b)'
<1>2. b \in AccessType /\ Alike(a, b) /\ b.arms = a.arms
  BY Connectives, Zenon DEF AccessType, Alike, Kept
<1>3. b.retained = IF a.kind = "read" \/ Disjoint(a.arms, Arms) THEN a.retained ELSE And(a.retained, k)
  BY Zenon DEF AccessType, Kept
<1>4. ASSUME Disjoint(a.arms, Arms), k = "0" PROVE a.raw = "0"
  <2>1. PICK i \in DOMAIN a.arms \cap DOMAIN Arms : a.arms[i] # Arms[i]
    BY <1>4, Zenon DEF Disjoint
  <2>2. PICK S \in SUBSET Nat : a.arms \in [S -> BOOLEAN]
    BY Zenon DEF AccessType, ArmsType
  <2>3. a.arms[i] \in BOOLEAN
    BY <2>1, <2>2, Zenon
  <2>4. i \in 1..Len(branches) /\ branches[i].selection
        /\ (branches[i].condition = Bit(~a.arms[i]) => a.raw = "0")
    BY <2>1, Zenon DEF Sound, Within
  <2>5. Arms[i] = branches[i].arm /\ branches[i].arm \in BOOLEAN
    <3>1. branches[i] \in FrameType /\ i \in DOMAIN branches
      BY <2>4 DEF Typed
    <3> QED
      BY <3>1, Zenon DEF Arms, FrameType
  <2>6. branches[i].condition = Bit(branches[i].arm)
    BY <1>4, <2>4, Zenon DEF Traces, Traced
  <2>7. branches[i].arm = ~a.arms[i]
    BY <2>1, <2>3, <2>5, Zenon
  <2> QED
    BY <2>4, <2>6, <2>7, Zenon
<1>5. mode' = "run" => b.retained = "1"
  BY <1>3, Zenon DEF Sound, And
<1>6. b.kind = a.kind /\ b.raw = a.raw /\ b.ran = a.ran /\ b.began = a.began
  BY <1>2, Zenon DEF Alike
<1>7. Proposed(b)'
  <2>1. CASE a.kind = "read"
    BY <1>3, <1>6, <2>1, Zenon DEF Sound, Proposed
  <2>2. CASE a.kind # "read" /\ mode' = "run"
    BY <1>6, <2>2, Zenon DEF Sound, Proposed
  <2>3. CASE a.kind # "read" /\ mode' # "run"
    BY <1>3, <1>4, <1>6, <2>3, Zenon DEF Sound, Proposed, And, Bits
  <2> QED
    BY <2>1, <2>2, <2>3, Zenon
<1> QED
  BY <1>2, <1>5, <1>7, Zenon

\* The accesses after a step whose frames go on.
LEMMA AccessesKept ==
    ASSUME Typed, Traces, NEW k \in Bits, NEW as, as \subseteq AccessType,
           accesses \subseteq as, accesses' = {Kept(k, a) : a \in as},
           \A a \in as : Sound(a),
           mode' = "run" <=> mode = "run" /\ k = "1",
           k = "0" => point.path = "1",
           mode' = "run" => Single(as) /\ \A a \in as : Held(a),
           pins' = pins,
           Len(branches) <= Len(branches'), Len(branches') \in Nat,
           \A j \in 1..Len(branches) : SameFrame(branches'[j], branches[j])
    PROVE  /\ \A a \in accesses' : Sound(a)'
           /\ mode' = "run" => Single(accesses)' /\ \A a \in accesses' : Held(a)'
<1>0. Len(branches) \in Nat
  BY DEF Typed
<1>1. ASSUME NEW a \in as, NEW b, b = Kept(k, a)
      PROVE  /\ Alike(a, b) /\ b.arms = a.arms
             /\ mode' = "run" => b.retained = "1"
             /\ Proposed(b)'
  BY <1>1, AccessKept, Zenon
<1>2. \A q : Credit(q) = "1" => Credit(q)' = "1"
  <2> SUFFICES ASSUME NEW q, Credit(q) = "1" PROVE Credit(q)' = "1"
    BY Zenon
  <2>1. PICK a \in accesses : a.resource = q /\ a.kind = "pop" /\ a.raw = "1"
    BY Zenon DEF Credit
  <2>2. PICK b : b = Kept(k, a)
    BY Zenon
  <2>3. b \in accesses' /\ Alike(a, b)
    BY <1>1, <2>2, Zenon
  <2>4. b.resource = q /\ b.kind = "pop" /\ b.raw = "1"
    BY <2>1, <2>3, Zenon DEF Alike
  <2> QED
    BY <2>3, <2>4, Zenon DEF Credit
<1>3. ASSUME NEW a \in as, NEW b, b = Kept(k, a) PROVE Sound(b)' /\ (mode' = "run" => Held(b)')
  <2>1. Alike(a, b) /\ b.arms = a.arms /\ Proposed(b)' /\ (mode' = "run" => b.retained = "1")
    BY <1>1, <1>3, Zenon
  <2>2. Within(a)
    BY Zenon DEF Sound
  <2>3. Within(b)'
    <3> SUFFICES ASSUME NEW i \in DOMAIN a.arms
                 PROVE  /\ i \in 1..Len(branches') /\ branches'[i].selection
                        /\ branches'[i].condition = Bit(~a.arms[i]) => a.raw = "0"
      BY <2>1, Zenon DEF Within, Alike
    <3>1. /\ i \in 1..Len(branches) /\ branches[i].selection
          /\ branches[i].condition = Bit(~a.arms[i]) => a.raw = "0"
      BY <2>2, Zenon DEF Within
    <3>2. i \in 1..Len(branches')
      BY <1>0, <3>1
    <3> QED
      BY <3>1, <3>2, Zenon DEF SameFrame
  <2>4. mode' = "run" => Held(b)'
    BY <1>2, <2>1, Zenon DEF Held, Alike
  <2> QED
    BY <2>1, <2>3, <2>4, Zenon DEF Sound
<1>4. ASSUME mode' = "run" PROVE Single(accesses)'
  <2> SUFFICES ASSUME NEW c \in accesses', NEW d \in accesses',
                      c.kind \in {"pop", "push"}, c.kind = d.kind, c.resource = d.resource,
                      c.raw # "0", d.raw # "0"
               PROVE  c = d
    BY Zenon DEF Single
  <2>0. PICK a \in as, b \in as : c = Kept(k, a) /\ d = Kept(k, b)
    BY Zenon
  <2>1. Alike(a, c) /\ Alike(b, d)
    BY <1>1, <2>0, Zenon
  <2>2. a = b
    BY <1>4, <2>1, Zenon DEF Single, Alike
  <2> QED
    BY <2>0, <2>2, Zenon
<1> QED
  BY <1>3, <1>4, Zenon

-----------------------------------------------------------------------------
(* The controls that the points and the frames retain.                     *)

\* A control keeps, and one that fails establishes, what is retained of a failure.
LEMMA StoppedKept ==
    ASSUME Typed, Traces, Passed, Stopped, SamePlace, NEW k \in Bits,
           point'.kept = And(point.kept, k),
           mode' = "run" <=> mode = "run" /\ k = "1",
           k = "0" => point.path = "1"
    PROVE  Passed' /\ Stopped'
<1>1. PICK n \in Nat : n = Len(branches)
  BY DEF Typed
<1>2. Len(branches') = n /\ \A j \in 1..n : SameFrame(branches'[j], branches[j])
  BY <1>1, Zenon DEF SamePlace, SameFrames
<1>3. Passed'
  <2>1. mode' = "run" => point'.kept = "1"
    BY Zenon DEF Passed, And
  <2> QED
    BY <1>1, <1>2, <2>1, Zenon DEF Passed, SameFrame
<1>4. ASSUME mode' # "run", NEW m \in 0..n
      PROVE  Pure(m)' \/ Level(m)'.raw = "0" \/ FailedFrom(m)'
  <2>1. CASE k = "0"
    BY <2>1, Zenon DEF And, FailedFrom
  <2>2. CASE k = "1"
    <3>1. Pure(m) \/ Level(m).raw = "0" \/ FailedFrom(m)
      BY <1>1, <1>4, <2>2, Zenon DEF Stopped
    <3>2. Pure(m) => Pure(m)'
      BY <1>2 DEF Pure, SameFrame
    <3>3. Level(m)'.raw = Level(m).raw
      BY <1>1, <1>2 DEF Level, SameFrame, SamePlace
    <3>4. FailedFrom(m) => FailedFrom(m)'
      <4>1. \A j \in (m + 1)..n : SameFrame(branches'[j], branches[j])
        BY <1>2
      <4> QED
        BY <1>1, <1>2, <4>1, Zenon DEF FailedFrom, SameFrame, And
    <3> QED
      BY <3>1, <3>2, <3>3, <3>4, Zenon
  <2> QED
    BY <2>1, <2>2, Zenon DEF Bits
<1>5. ASSUME mode' # "run", NEW i \in 1..n, branches[i].selection, branches[i].arm
      PROVE  branches[i].outer.raw = "0" \/ branches[i].inside = "0" \/ branches[i].condition = "1"
  <2>1. CASE k = "0"
    BY <1>1, <1>5, <2>1, Zenon DEF Traces, Traced, Bit
  <2>2. CASE k = "1"
    BY <1>1, <1>5, <2>2, Zenon DEF Stopped
  <2> QED
    BY <2>1, <2>2, Zenon DEF Bits
<1>6. Stopped'
  <2>1. mode' # "run" => \A i \in 1..n : branches'[i].selection /\ branches'[i].arm =>
          branches'[i].outer.raw = "0" \/ branches'[i].inside = "0" \/ branches'[i].condition = "1"
    BY <1>2, <1>5, Zenon DEF SameFrame
  <2> QED
    BY <1>2, <1>4, <2>1, Zenon DEF Stopped
<1> QED
  BY <1>3, <1>6, Zenon

\* A branch that begins keeps it, inside and around the branch.
LEMMA StoppedPushed ==
    ASSUME Typed, Traces, Passed, Stopped, NEW n \in Nat, NEW f, Pushed(n, f), NEW k \in Bits,
           f.inside = And(point.kept, k),
           mode' = "run" <=> mode = "run" /\ k = "1",
           k = "0" => point.path = "1"
    PROVE  Passed' /\ Stopped'
<1>1. n = Len(branches) /\ Len(branches') = n + 1 /\ branches'[n + 1] = f /\ f.arm /\ f.outer = point
      /\ f.thenKept = "1" /\ point'.kept = f.inside /\ point'.raw = And(point.raw, f.condition)
  BY Zenon DEF Pushed
<1>2. \A j \in 1..n : branches'[j] = branches[j]
  BY Zenon DEF Pushed
<1>3. \A j \in 1..(n + 1) : j \in 1..n \/ j = n + 1
  OBVIOUS
<1>4. Passed'
  <2>1. mode' = "run" => f.inside = "1"
    BY Zenon DEF Passed, And
  <2> QED
    BY <1>1, <1>2, <1>3, <2>1 DEF Passed
<1>5. ASSUME mode' # "run", k = "1" PROVE ~Pure(n) => point.raw = "0" \/ point.kept = "0"
  <2>1. Pure(n) \/ Level(n).raw = "0" \/ FailedFrom(n)
    BY <1>1, <1>5 DEF Stopped
  <2>2. Level(n) = point
    BY <1>1 DEF Level
  <2>3. FailedFrom(n) => point.kept = "0"
    BY <1>1 DEF FailedFrom
  <2> QED
    BY <2>1, <2>2, <2>3, Zenon
<1>6. ASSUME mode' # "run", NEW m \in 0..(n + 1)
      PROVE  Pure(m)' \/ Level(m)'.raw = "0" \/ FailedFrom(m)'
  <2>1. CASE k = "0"
    BY <1>1, <2>1, Zenon DEF And, FailedFrom
  <2>2. CASE k = "1" /\ m \in 0..n
    <3>1. Pure(m) \/ Level(m).raw = "0" \/ FailedFrom(m)
      BY <1>1, <1>6, <2>2, Zenon DEF Stopped
    <3>2. Pure(m) => Pure(m)'
      BY <1>2, <2>2 DEF Pure
    <3>3. Level(m)' = Level(m)
      BY <1>1, <1>2, <2>2 DEF Level
    <3>4. FailedFrom(m) => FailedFrom(m)'
      <4>1. \A j \in (m + 1)..n : branches'[j] = branches[j] /\ j \in (m + 1)..(n + 1)
        BY <1>2, <2>2
      <4> QED
        BY <1>1, <4>1, Zenon DEF FailedFrom, And
    <3> QED
      BY <3>1, <3>2, <3>3, <3>4, Zenon
  <2>3. CASE k = "1" /\ m = n + 1
    <3>1. ~f.selection => Pure(m)'
      BY <1>1, <2>3 DEF Pure
    <3>2. f.selection => ~Pure(n)
      BY Zenon DEF Pushed
    <3>3. Level(m)' = point'
      BY <1>1, <2>3 DEF Level
    <3>4. f.selection => point'.raw = "0" \/ point'.kept = "0"
      BY <1>1, <1>5, <1>6, <2>3, <3>2, Zenon DEF And
    <3> QED
      BY <3>1, <3>3, <3>4, Zenon DEF FailedFrom
  <2> QED
    BY <2>1, <2>2, <2>3 DEF Bits
<1>7. ASSUME mode' # "run", NEW i \in 1..(n + 1), branches'[i].selection, branches'[i].arm
      PROVE  branches'[i].outer.raw = "0" \/ branches'[i].inside = "0" \/ branches'[i].condition = "1"
  <2>1. CASE i \in 1..n /\ k = "0"
    BY <1>1, <1>2, <1>7, <2>1 DEF Traces, Traced, Bit
  <2>2. CASE i \in 1..n /\ k = "1"
    BY <1>1, <1>2, <1>7, <2>2, Zenon DEF Stopped
  <2>3. CASE i = n + 1
    <3>1. ~Pure(n)
      BY <1>1, <1>7, <2>3, Zenon DEF Pushed
    <3> QED
      BY <1>1, <1>5, <1>7, <2>3, <3>1, Zenon DEF And, Bits
  <2> QED
    BY <2>1, <2>2, <2>3 DEF Bits
<1>8. Stopped'
  BY <1>1, <1>6, <1>7, Zenon DEF Stopped
<1> QED
  BY <1>4, <1>8, Zenon

\* The second arm starts from what the branch started from.
LEMMA StoppedTurned ==
    ASSUME Typed, Passed, Stopped, NEW n \in Nat, NEW b, NEW g, Turned(n, b, g)
    PROVE  Passed' /\ Stopped'
<1>1. /\ n + 1 = Len(branches) /\ Len(branches') = n + 1 /\ branches'[n + 1] = g /\ b = branches[n + 1]
      /\ b.arm /\ ~g.arm /\ g.outer = b.outer /\ g.selection = b.selection /\ g.inside = b.inside
      /\ g.thenKept = point.kept /\ point'.kept = b.inside
      /\ point'.raw = And(b.outer.raw, Not(b.condition)) /\ mode' = mode
  BY Zenon DEF Turned
<1>2. \A j \in 1..n : branches'[j] = branches[j]
  BY Zenon DEF Turned
<1>3. (\A j \in 1..(n + 1) : j \in 1..n \/ j = n + 1) /\ n + 1 \in 1..(n + 1)
  OBVIOUS
<1>4. Passed'
  BY <1>1, <1>2, <1>3 DEF Passed
<1>5. ASSUME mode # "run", NEW m \in 0..(n + 1)
      PROVE  Pure(m)' \/ Level(m)'.raw = "0" \/ FailedFrom(m)'
  <2>1. CASE m \in 0..n
    <3>1. Pure(m) \/ Level(m).raw = "0" \/ FailedFrom(m)
      BY <1>1, <1>5, Zenon DEF Stopped
    <3>2. Pure(m) => Pure(m)'
      BY <1>2, <2>1 DEF Pure
    <3>3. Level(m)' = Level(m)
      <4>1. m + 1 \in 1..n \/ m + 1 = n + 1
        BY <2>1
      <4> QED
        BY <1>1, <1>2, <2>1, <4>1 DEF Level
    <3>4. FailedFrom(m) => FailedFrom(m)'
      <4>1. /\ n + 1 \in (m + 1)..(n + 1)
            /\ \A j \in (m + 1)..(n + 1) : j = n + 1 \/ branches'[j] = branches[j]
        BY <1>2, <2>1
      <4> QED
        BY <1>1, <4>1, Zenon DEF FailedFrom
    <3> QED
      BY <3>1, <3>2, <3>3, <3>4, Zenon
  <2>2. CASE m = n + 1
    <3>1. b.selection => b.outer.raw = "0" \/ b.inside = "0" \/ b.condition = "1"
      BY <1>1, <1>3, <1>5, Zenon DEF Stopped
    <3>2. b.selection => point'.raw = "0" \/ point'.kept = "0"
      BY <1>1, <3>1, Zenon DEF And, Not
    <3>3. Level(m)' = point' /\ (~b.selection => Pure(m)')
      BY <1>1, <2>2 DEF Level, Pure
    <3> QED
      BY <3>2, <3>3, Zenon DEF FailedFrom
  <2> QED
    BY <2>1, <2>2
<1>6. ASSUME mode # "run", NEW i \in 1..(n + 1), branches'[i].selection, branches'[i].arm
      PROVE  branches'[i].outer.raw = "0" \/ branches'[i].inside = "0" \/ branches'[i].condition = "1"
  BY <1>1, <1>2, <1>3, <1>6 DEF Stopped
<1>7. Stopped'
  BY <1>1, <1>5, <1>6, Zenon DEF Stopped
<1> QED
  BY <1>4, <1>7, Zenon

\* The end of a branch joins what its arms retain.
LEMMA StoppedPopped ==
    ASSUME Typed, Passed, Stopped, NEW n \in Nat, NEW b, Popped(n, b)
    PROVE  Passed' /\ Stopped'
<1>1. /\ n + 1 = Len(branches) /\ Len(branches') = n /\ b = branches[n + 1]
      /\ ~b.arm /\ point'.kept = And(b.thenKept, point.kept) /\ point'.raw = b.outer.raw
      /\ mode' = mode
  BY Zenon DEF Popped
<1>2. (\A j \in 1..n : branches'[j] = branches[j] /\ j \in 1..(n + 1)) /\ n + 1 \in 1..(n + 1)
  BY DEF Popped
<1>3. Passed'
  <2>1. mode' = "run" => point'.kept = "1"
    BY <1>1, <1>2, Zenon DEF Passed, And
  <2> QED
    BY <1>1, <1>2, <2>1, Zenon DEF Passed
<1>4. ASSUME mode # "run", NEW m \in 0..n
      PROVE  Pure(m)' \/ Level(m)'.raw = "0" \/ FailedFrom(m)'
  <2>1. Pure(m) \/ Level(m).raw = "0" \/ FailedFrom(m)
    BY <1>1, <1>4 DEF Stopped
  <2>2. Pure(m) => Pure(m)'
    BY <1>2 DEF Pure
  <2>3. Level(m)'.raw = Level(m).raw
    <3>1. m + 1 \in 1..n \/ m = n
      OBVIOUS
    <3> QED
      BY <1>1, <1>2, <3>1 DEF Level
  <2>4. FailedFrom(m) => FailedFrom(m)'
    <3>1. \A j \in (m + 1)..(n + 1) : j = n + 1 \/ (j \in (m + 1)..n /\ branches'[j] = branches[j])
      BY <1>2
    <3> QED
      BY <1>1, <3>1, Zenon DEF FailedFrom, And
  <2> QED
    BY <2>1, <2>2, <2>3, <2>4, Zenon
<1>5. ASSUME mode # "run", NEW i \in 1..n, branches'[i].selection, branches'[i].arm
      PROVE  branches'[i].outer.raw = "0" \/ branches'[i].inside = "0" \/ branches'[i].condition = "1"
  BY <1>1, <1>2, <1>5, Zenon DEF Stopped
<1>6. Stopped'
  BY <1>1, <1>4, <1>5, Zenon DEF Stopped
<1> QED
  BY <1>3, <1>6, Zenon

-----------------------------------------------------------------------------
(* Statements.                                                             *)

\* Only a control on a selected path can fail.
LEMMA BypassPath ==
    ASSUME point \in PointType, NEW selection, NEW raw, Bypass(selection, raw) = "0"
    PROVE  point.path = "1"
BY Zenon DEF PointType, Bypass, Select, Bits

\* A control that passes leaves every access as it is.
LEMMA KeptPassed ==
    ASSUME NEW as, as \subseteq AccessType
    PROVE  as = {Kept("1", a) : a \in as}
<1>1. ASSUME NEW a \in as PROVE Kept("1", a) = a
  <2>1. a \in AccessType /\ And(a.retained, "1") = a.retained
    BY Zenon DEF AccessType, And, Bits
  <2>2. [a EXCEPT !.retained = And(@, "1")] = a
    BY <2>1, Zenon DEF AccessType
  <2> QED
    BY <2>2, Zenon DEF Kept
<1> QED
  BY <1>1, Zenon

\* A control k of a straight statement, which may add accesses.
LEMMA StraightKept ==
    ASSUME IInv, IInv', Traces, AInv, SamePlace, NEW k \in Bits,
           k = "0" => point.path = "1",
           point'.kept = And(point.kept, k), prefix' = And(prefix, k), pins' = pins,
           NEW as, as \subseteq AccessType, accesses \subseteq as,
           accesses' = {Kept(k, a) : a \in as},
           \A a \in as : Sound(a),
           mode' = "run" => Single(as) /\ \A a \in as : Held(a)
    PROVE  Traces' /\ AInv'
<1>1. mode' = "run" <=> mode = "run" /\ k = "1"
  BY ControlPassed, Zenon DEF IInv
<1>2. Typed /\ Len(branches) \in Nat
  BY DEF IInv, Typed
<1>3. Traces'
  BY <1>2, TracesKept, Zenon
<1>4. Passed' /\ Stopped'
  BY <1>1, <1>2, StoppedKept, Zenon DEF AInv
<1>5. /\ Len(branches) <= Len(branches') /\ Len(branches') \in Nat
      /\ \A j \in 1..Len(branches) : SameFrame(branches'[j], branches[j])
  BY <1>2 DEF SamePlace, SameFrames
<1>6. /\ \A a \in accesses' : Sound(a)'
      /\ mode' = "run" => Single(accesses)' /\ \A a \in accesses' : Held(a)'
  BY <1>1, <1>2, <1>5, AccessesKept, Zenon
<1> QED
  BY <1>3, <1>4, <1>6, Zenon DEF AInv

\* A control without an access of its own.
LEMMA ControlKept ==
    ASSUME IInv, IInv', Traces, AInv, SamePlace, NEW raw \in Pin,
           AdmitControl(FALSE, raw), accesses' = RetainControl(Bypass(FALSE, raw), accesses),
           point'.kept = And(point.kept, Bypass(FALSE, raw)), pins' = pins
    PROVE  Traces' /\ AInv'
<1>1. PICK k \in Bits : k = Bypass(FALSE, raw)
  BY BypassTypes, Zenon DEF IInv, Typed
<1>2. k = "0" => point.path = "1"
  BY <1>1, BypassPath, Zenon DEF IInv, Typed
<1>3. prefix' = And(prefix, k) /\ point'.kept = And(point.kept, k)
  BY <1>1, Zenon DEF AdmitControl
<1>4. accesses' = {Kept(k, a) : a \in accesses}
  BY <1>1, Zenon DEF RetainControl, Kept
<1>5. mode' = "run" => mode = "run"
  BY <1>3, ControlPassed, Zenon DEF IInv
<1>6. /\ \A a \in accesses : Sound(a)
      /\ mode' = "run" => Single(accesses) /\ \A a \in accesses : Held(a)
  BY <1>5, Zenon DEF AInv
<1>7. accesses \subseteq AccessType
  BY Zenon DEF IInv, Typed
<1> QED
  BY <1>2, <1>3, <1>4, <1>6, <1>7, StraightKept, Zenon

\* A statement without a control.
LEMMA StatementKept ==
    ASSUME IInv, IInv', Traces, AInv, SamePlace, point' = point, prefix' = prefix, pins' = pins,
           NEW as, as \subseteq AccessType, accesses \subseteq as, accesses' = as,
           \A a \in as : Sound(a),
           mode' = "run" => Single(as) /\ \A a \in as : Held(a)
    PROVE  Traces' /\ AInv'
<1>1. as = {Kept("1", a) : a \in as}
  BY KeptPassed, Zenon
<1>2. point.kept \in Bits /\ prefix \in Bits /\ "1" \in Bits
  BY Zenon DEF IInv, Typed, PointType, Bits
<1>3. point'.kept = And(point.kept, "1") /\ prefix' = And(prefix, "1")
  BY <1>2, Zenon DEF And, Bits
<1>4. accesses' = {Kept("1", a) : a \in as}
  BY <1>1, Zenon
<1>5. "1" # "0"
  BY Zenon
<1> QED
  BY <1>2, <1>3, <1>4, <1>5, StraightKept, Zenon

\* A new access says what the source does, as far as it goes.
LEMMA AccessSound ==
    ASSUME IInv, Traces, AInv, NeedsSelection, NEW r, NEW kind, NEW authored \in Pin,
           NEW a, a = AccessAt(r, kind, authored, point.kept)
    PROVE  Sound(a)
<1>0. Typed /\ Len(branches) \in Nat /\ DOMAIN branches = 1..Len(branches)
  BY DEF IInv, Typed
<1>1. /\ a.kind = kind /\ a.arms = Arms /\ a.raw = And(point.raw, authored)
      /\ a.retained = point.kept /\ a.began = (mode = "run")
      /\ a.ran = IF point.live THEN authored ELSE "0"
  BY Zenon DEF AccessAt
<1>2. DOMAIN a.arms = 1..Len(branches) /\ \A i \in 1..Len(branches) : a.arms[i] = branches[i].arm
  BY <1>0, <1>1, Zenon DEF Arms
<1>3. ~Pure(Len(branches))
  BY <1>0 DEF NeedsSelection, InPure, Pure
<1>4. \A i \in 1..Len(branches) : branches[i].selection
  <2>1. Len(branches) = 0 \/ Len(branches) \in 1..Len(branches)
    BY <1>0
  <2> QED
    BY <1>0, <1>3, <2>1 DEF Traces, Pure
<1>5. Within(a)
  BY <1>1, <1>2, <1>4, Zenon DEF Within, Traces, Traced, And
<1>6. point.kept \in Bits /\ point.raw \in Pin
  BY <1>0, Zenon DEF Typed, PointType
<1>7. CASE mode = "run"
  <2>1. a.raw = a.ran /\ a.raw \in Pin
    BY <1>1, <1>6, <1>7, RawPath, Connectives, Zenon
  <2>2. a.retained = "1"
    BY <1>1, <1>7, Zenon DEF AInv, Passed
  <2>3. And(a.retained, a.raw) = a.ran /\ a.began
    BY <1>1, <1>7, <2>1, <2>2, Zenon DEF And, Pin
  <2> QED
    BY <1>5, <1>7, <2>1, <2>2, <2>3, Zenon DEF Sound, Proposed
<1>8. CASE mode # "run"
  <2>1. point.raw = "0" \/ point.kept = "0"
    <3>1. Pure(Len(branches)) \/ Level(Len(branches)).raw = "0" \/ FailedFrom(Len(branches))
      BY <1>0, <1>8 DEF AInv, Stopped
    <3>2. Level(Len(branches)) = point
      BY <1>0 DEF Level
    <3>3. FailedFrom(Len(branches)) => point.kept = "0"
      BY <1>0 DEF FailedFrom
    <3> QED
      BY <1>3, <3>1, <3>2, <3>3, Zenon
  <2>2. And(a.retained, a.raw) = "0" /\ (a.retained = "0" \/ a.raw = "0") /\ ~a.began
    BY <1>1, <1>8, <2>1, Zenon DEF And
  <2> QED
    BY <1>5, <1>8, <2>2, Zenon DEF Sound, Proposed
<1> QED
  BY <1>7, <1>8, Zenon

\* The guard of a callable keeps the accesses sound.
LEMMA GuardKeeps ==
    ASSUME IInv, IInv', Traces, AInv, NEW raw \in Pin, Guard(raw)
    PROVE  Traces' /\ AInv'
<1>1. SameFrames
  BY EffectKeepsFrames, Zenon DEF Guard, IInv
<1>2. /\ AdmitControl(FALSE, raw) /\ accesses' = RetainControl(Bypass(FALSE, raw), accesses)
      /\ point' = [point EXCEPT !.kept = And(@, Bypass(FALSE, raw))] /\ pins' = pins
  BY Zenon DEF Guard
<1>3. SamePlace /\ point'.kept = And(point.kept, Bypass(FALSE, raw))
  BY <1>1, <1>2, Zenon DEF SamePlace, IInv, Typed, PointType
<1> QED
  BY <1>2, <1>3, ControlKept, Zenon

\* A required value keeps the accesses sound.
LEMMA RequireKeeps ==
    ASSUME IInv, IInv', Traces, AInv, NEW available \in Pin, NEW authored \in Pin,
           Require(available, authored)
    PROVE  Traces' /\ AInv'
<1>0. PICK raw : raw = ValueRequire(And(point.raw, authored), available)
  BY Zenon
<1>1. raw \in Pin
  BY <1>0, Connectives DEF ValueRequire, IInv, Typed, PointType, Pin
<1>2. SameFrames
  BY Zenon DEF Require, SameFrames, SameFrame, IInv, Typed
<1>3. /\ AdmitControl(FALSE, raw) /\ accesses' = RetainControl(Bypass(FALSE, raw), accesses)
      /\ point' = [point EXCEPT !.kept = And(@, Bypass(FALSE, raw))] /\ pins' = pins
  BY <1>0, Zenon DEF Require
<1>4. SamePlace /\ point'.kept = And(point.kept, Bypass(FALSE, raw))
  BY <1>2, <1>3, Zenon DEF SamePlace, IInv, Typed, PointType
<1> QED
  BY <1>1, <1>3, <1>4, ControlKept, Zenon

\* The result of an earlier memory request keeps the accesses sound.
LEMMA MemoryResultKeeps ==
    ASSUME IInv, IInv', Traces, AInv, NEW m, NEW alive \in Pin, NEW authored \in Pin,
           MemoryResult(m, alive, authored)
    PROVE  Traces' /\ AInv'
<1>0. PICK raw : raw = Select(And(point.raw, authored), alive, "1")
  BY Zenon
<1>1. raw \in Pin
  BY <1>0, Connectives DEF IInv, Typed, PointType, Pin
<1>2. SameFrames
  BY EffectKeepsFrames, Zenon DEF MemoryResult, IInv
<1>3. /\ AdmitControl(FALSE, raw) /\ accesses' = RetainControl(Bypass(FALSE, raw), accesses)
      /\ point' = [point EXCEPT !.kept = And(@, Bypass(FALSE, raw))] /\ pins' = pins
  BY <1>0, Zenon DEF MemoryResult
<1>4. SamePlace /\ point'.kept = And(point.kept, Bypass(FALSE, raw))
  BY <1>2, <1>3, Zenon DEF SamePlace, IInv, Typed, PointType
<1> QED
  BY <1>1, <1>3, <1>4, ControlKept, Zenon

\* A memory access adds a sound access.
LEMMA MemoryAccessKeeps ==
    ASSUME IInv, IInv', Traces, AInv, NEW m \in Memories, NEW kind \in {"read", "write"},
           NEW authored \in Pin, MemoryAccess(m, kind, authored)
    PROVE  Traces' /\ AInv'
<1>1. SameFrames /\ point' = point /\ prefix' = prefix /\ pins' = pins /\ mode' = mode /\ NeedsSelection
  BY EffectKeepsFrames, Zenon DEF MemoryAccess, IInv, meaning
<1>2. PICK new : new = AccessAt(m, kind, authored, point.kept)
  BY Zenon
<1>3. new \in AccessType /\ new.kind = kind /\ Sound(new)
  <2>1. new \in AccessType
    BY <1>2, AccessTypes, Zenon DEF IInv
  <2>2. Sound(new)
    BY <1>1, <1>2, AccessSound, Zenon
  <2> QED
    BY <1>2, <2>1, <2>2, Zenon DEF AccessAt
<1>4. PICK as : as = accesses \union {new}
  BY Zenon
<1>5. as \subseteq AccessType /\ accesses \subseteq as /\ accesses' = as
  BY <1>2, <1>3, <1>4, Zenon DEF MemoryAccess, IInv, Typed
<1>6. \A a \in as : Sound(a)
  BY <1>3, <1>4, Zenon DEF AInv
<1>7. mode' = "run" => Single(as) /\ \A a \in as : Held(a)
  <2>1. new.kind # "pop" /\ new.kind # "push"
    BY <1>3, Zenon
  <2>2. Held(new)
    BY <2>1, Zenon DEF Held
  <2> QED
    BY <1>1, <1>4, <2>1, <2>2, Zenon DEF AInv, Single
<1>8. SamePlace
  BY <1>1, Zenon DEF SamePlace
<1> QED
  BY <1>1, <1>5, <1>6, <1>7, <1>8, StatementKept, Zenon

\* A write, an effect or a step of something else keeps the accesses sound.
LEMMA OtherKeeps ==
    ASSUME IInv, IInv', Traces, AInv, SameFrames,
           UNCHANGED <<pins, prefix, point, accesses, mode>>
    PROVE  Traces' /\ AInv'
<1>1. SamePlace
  BY Zenon DEF SamePlace
<1>2. accesses \subseteq AccessType /\ accesses' = accesses
  BY Zenon DEF IInv, Typed
<1>3. /\ \A a \in accesses : Sound(a)
      /\ mode' = "run" => Single(accesses) /\ \A a \in accesses : Held(a)
  BY Zenon DEF AInv
<1> QED
  BY <1>1, <1>2, <1>3, StatementKept, Zenon

\* A second access of a port that the source reaches rules out the first.
LEMMA OtherArm ==
    ASSUME IInv, Traces, NEW a \in AccessType, Within(a), Disjoint(a.arms, Arms),
           mode = "run", point.live, NeedsSelection
    PROVE  a.raw = "0"
<1>1. PICK i \in DOMAIN a.arms \cap DOMAIN Arms : a.arms[i] # Arms[i]
  BY Zenon DEF Disjoint
<1>2. PICK S \in SUBSET Nat : a.arms \in [S -> BOOLEAN]
  BY Zenon DEF AccessType, ArmsType
<1>3. a.arms[i] \in BOOLEAN
  BY <1>1, <1>2, Zenon
<1>4. i \in 1..Len(branches) /\ branches[i].selection
      /\ (branches[i].condition = Bit(~a.arms[i]) => a.raw = "0")
  BY <1>1, Zenon DEF Within
<1>5. branches[i] \in FrameType /\ i \in DOMAIN branches
  BY <1>4 DEF IInv, Typed
<1>6. Arms[i] = branches[i].arm /\ branches[i].arm \in BOOLEAN
  BY <1>5, Zenon DEF Arms, FrameType
<1>7. branches[i].outer.live /\ branches[i].arm = branches[i].taken /\ FrameOK(branches[i])
  BY <1>4, Zenon DEF IInv, Positioned, Placed, Follows, Framed
<1>8. branches[i].condition = Bit(branches[i].arm)
  BY <1>4, <1>7, Zenon DEF FrameOK
<1>9. branches[i].arm = ~a.arms[i]
  BY <1>1, <1>3, <1>6, Zenon
<1> QED
  BY <1>4, <1>8, <1>9, Zenon

\* A queue access adds a sound access, for which the queue is ready while the rule runs.
LEMMA QueueAccessKeeps ==
    ASSUME IInv, IInv', Traces, AInv, NEW q \in Queues, NEW kind \in {"pop", "push", "peek"},
           NEW authored \in Pin, QueueAccess(q, kind, authored)
    PROVE  Traces' /\ AInv'
<1>0. Typed /\ NeedsSelection
  BY Zenon DEF IInv, QueueAccess
<1>1. PICK ready : ready = Ready(q, kind, Credit(q))
  BY Zenon
<1>2. PICK raw : raw = Select(And(point.raw, authored), ready, "1")
  BY Zenon
<1>3. Credit(q) \in Pin /\ pins[q].room \in Pin /\ pins[q].head \in Pin /\ pins[q].other \in Pin
      /\ point.raw \in Pin
  BY <1>0, Zenon DEF Typed, Credit, Pin, PointType
<1>4. ready \in Pin
  BY <1>1, <1>3, Connectives, Zenon DEF Ready
<1>5. raw \in Pin
  BY <1>2, <1>3, <1>4, Connectives DEF Pin
<1>6. PICK k \in Bits : k = Bypass(FALSE, raw)
  BY <1>0, <1>5, BypassTypes, Zenon DEF Typed
<1>7. PICK new : new = AccessAt(q, kind, authored, point.kept)
  BY Zenon
<1>8. PICK as : as = accesses \union {new : j \in {kind} \ {"peek"}}
  BY Zenon
<1>9. /\ AdmitControl(FALSE, raw) /\ accesses' = RetainControl(k, as)
      /\ point' = [point EXCEPT !.kept = And(@, k)] /\ pins' = pins
      /\ kind # "peek" => \A a \in accesses : a.resource = q /\ a.kind = kind => Disjoint(a.arms, Arms)
  BY <1>1, <1>2, <1>6, <1>7, <1>8, Zenon DEF QueueAccess
<1>10. prefix' = And(prefix, k) /\ accesses' = {Kept(k, a) : a \in as}
  BY <1>6, <1>9, Zenon DEF AdmitControl, RetainControl, Kept
<1>11. SamePlace /\ point'.kept = And(point.kept, k)
  <2>1. SameFrames
    BY <1>0, EffectKeepsFrames, Zenon
  <2> QED
    BY <1>0, <1>9, <2>1, Zenon DEF SamePlace, Typed, PointType
<1>12. k = "0" => point.path = "1"
  BY <1>0, <1>6, BypassPath, Zenon DEF Typed
<1>13. \A a \in as : a \in accesses \/ (a = new /\ kind # "peek")
  BY <1>8, Zenon
<1>14. kind # "peek" => new \in AccessType
  BY <1>0, <1>7, AccessTypes, Zenon
<1>15. as \subseteq AccessType /\ accesses \subseteq as
  BY <1>0, <1>8, <1>13, <1>14, Zenon DEF Typed
<1>16. \A a \in as : Sound(a)
  <2>1. Sound(new)
    BY <1>0, <1>7, AccessSound, Zenon
  <2> QED
    BY <1>13, <2>1, Zenon DEF AInv
<1>17. new.kind = kind /\ new.resource = q /\ new.raw = And(point.raw, authored)
  BY <1>7, Zenon DEF AccessAt
<1>18. mode' = "run" => mode = "run" /\ k = "1"
  BY <1>10, ControlPassed, Zenon DEF IInv
<1>19. ASSUME mode' = "run", kind # "peek" PROVE Held(new)
  <2> SUFFICES ASSUME new.raw = "1"
               PROVE  /\ kind = "pop" => pins[q].head = "1"
                      /\ kind = "push" /\ pins[q].room # "1" =>
                           /\ pins[q].downstream /\ pins[q].head = "1"
                           /\ pins[q].other = "1" \/ Credit(q) = "1"
    BY <1>17, Zenon DEF Held
  <2>1. point.path = Bit(point.live) /\ new.raw = IF point.live THEN authored ELSE "0"
    BY <1>0, <1>17, <1>18, <1>19, RawPath, Zenon
  <2>2. point.path = "1"
    BY <2>1, Zenon DEF Bit
  <2>3. raw = ready /\ raw = "1"
    BY <1>2, <1>6, <1>17, <1>18, <1>19, <2>2, Zenon DEF Select, Bypass, Accepted, K1, Bit
  <2> QED
    BY <1>1, <1>3, <2>3, Zenon DEF Ready, Or, And, Pin
<1>20. ASSUME mode' = "run", kind # "peek", new.raw # "0",
              NEW a \in accesses, a.kind = kind, a.resource = q
       PROVE  a.raw = "0"
  <2>1. point.live
    BY <1>0, <1>17, <1>18, <1>20, RawPath, Zenon
  <2>2. a \in AccessType /\ Within(a) /\ Disjoint(a.arms, Arms)
    BY <1>0, <1>9, <1>20, Zenon DEF Typed, AInv, Sound
  <2> QED
    BY <1>0, <1>18, <1>20, <2>1, <2>2, OtherArm, Zenon
<1>21. mode' = "run" => Single(as) /\ \A a \in as : Held(a)
  <2> SUFFICES ASSUME mode' = "run" PROVE Single(as) /\ \A a \in as : Held(a)
    BY Zenon
  <2>1. Single(accesses) /\ \A a \in accesses : Held(a)
    BY <1>18, Zenon DEF AInv
  <2>2. \A a \in as : Held(a)
    BY <1>13, <1>19, <2>1, Zenon
  <2>3. Single(as)
    BY <1>13, <1>17, <1>20, <2>1, Zenon DEF Single
  <2> QED
    BY <2>2, <2>3, Zenon
<1> QED
  BY <1>10, <1>11, <1>12, <1>9, <1>15, <1>16, <1>21, StraightKept, Zenon

\* The start of a selection keeps the accesses sound.
LEMMA SelectionKeeps ==
    ASSUME IInv, IInv', Traces, AInv, NEW v \in Pin \union Owners, SelectionBranch(v)
    PROVE  Traces' /\ AInv'
<1>0. Typed /\ Len(branches) \in Nat
  BY DEF IInv, Typed
<1>1. PICK n \in Nat : \E f :
        /\ Pushed(n, f) /\ f.selection /\ f.condition = Value(v)
        /\ f.inside = And(point.kept, Bypass(TRUE, Value(v)))
  BY <1>0, SelectionShape, Zenon
<1>2. PICK f : Pushed(n, f) /\ f.inside = And(point.kept, Bypass(TRUE, Value(v)))
  BY <1>1, Zenon
<1>3. PICK k \in Bits : k = Bypass(TRUE, Value(v))
  BY <1>0, ValueTypes, BypassTypes, Zenon DEF Typed
<1>4. k = "0" => point.path = "1"
  BY <1>0, <1>3, BypassPath, Zenon DEF Typed
<1>5. prefix' = And(prefix, k) /\ accesses' = {Kept(k, a) : a \in accesses} /\ pins' = pins
  BY <1>3, Zenon DEF SelectionBranch, AdmitControl, RetainControl, Kept
<1>6. mode' = "run" <=> mode = "run" /\ k = "1"
  BY <1>5, ControlPassed, Zenon DEF IInv
<1>7. Traces'
  BY <1>0, <1>2, TracesPushed, Zenon
<1>8. Passed' /\ Stopped'
  BY <1>0, <1>2, <1>3, <1>4, <1>6, StoppedPushed, Zenon DEF AInv
<1>9. /\ Len(branches) <= Len(branches') /\ Len(branches') \in Nat
      /\ \A j \in 1..Len(branches) : SameFrame(branches'[j], branches[j])
  <2>1. n = Len(branches) /\ Len(branches') = n + 1 /\ \A j \in 1..n : branches'[j] = branches[j]
    BY <1>2, Zenon DEF Pushed
  <2> QED
    BY <2>1 DEF SameFrame
<1>10. /\ \A a \in accesses : Sound(a)
       /\ mode' = "run" => Single(accesses) /\ \A a \in accesses : Held(a)
       /\ accesses \subseteq AccessType
  BY <1>0, <1>6, Zenon DEF AInv, Typed
<1>11. /\ \A a \in accesses' : Sound(a)'
       /\ mode' = "run" => Single(accesses)' /\ \A a \in accesses' : Held(a)'
  BY <1>0, <1>4, <1>5, <1>6, <1>9, <1>10, AccessesKept, Zenon
<1> QED
  BY <1>7, <1>8, <1>11, Zenon DEF AInv

\* The start of a pure branch keeps the accesses sound.
LEMMA PureKeeps ==
    ASSUME IInv, Traces, AInv, NEW v \in Pin \union Owners, PureBranch(v)
    PROVE  Traces' /\ AInv'
<1>0. Typed /\ Len(branches) \in Nat
  BY DEF IInv, Typed
<1>1. PICK n \in Nat : \E f : Pushed(n, f) /\ ~f.selection /\ f.inside = point.kept
  BY <1>0, PureShape, Zenon
<1>2. PICK f : Pushed(n, f) /\ f.inside = point.kept
  BY <1>1, Zenon
<1>3. accesses' = accesses /\ pins' = pins /\ mode' = mode
  BY Zenon DEF PureBranch, meaning
<1>4. PICK k \in Bits : k = "1"
  BY Zenon DEF Bits
<1>5. f.inside = And(point.kept, k) /\ k # "0" /\ (mode' = "run" <=> mode = "run" /\ k = "1")
  <2>1. point.kept \in Bits
    BY <1>0, Zenon DEF Typed, PointType
  <2> QED
    BY <1>2, <1>3, <1>4, <2>1, Zenon DEF And, Bits
<1>6. Traces'
  BY <1>0, <1>2, TracesPushed, Zenon
<1>7. Passed' /\ Stopped'
  BY <1>0, <1>2, <1>5, StoppedPushed, Zenon DEF AInv
<1>8. /\ Len(branches) <= Len(branches') /\ Len(branches') \in Nat
      /\ \A j \in 1..Len(branches) : SameFrame(branches'[j], branches[j])
  <2>1. n = Len(branches) /\ Len(branches') = n + 1 /\ \A j \in 1..n : branches'[j] = branches[j]
    BY <1>2, Zenon DEF Pushed
  <2> QED
    BY <2>1 DEF SameFrame
<1>9. /\ \A a \in accesses : Sound(a)
      /\ mode' = "run" => Single(accesses) /\ \A a \in accesses : Held(a)
      /\ accesses \subseteq AccessType
  BY <1>0, <1>3, Zenon DEF AInv, Typed
<1>10. accesses' = {Kept(k, a) : a \in accesses}
  BY <1>3, <1>4, <1>9, KeptPassed, Zenon
<1>11. /\ \A a \in accesses' : Sound(a)'
       /\ mode' = "run" => Single(accesses)' /\ \A a \in accesses' : Held(a)'
  BY <1>0, <1>3, <1>5, <1>8, <1>9, <1>10, AccessesKept, Zenon
<1> QED
  BY <1>6, <1>7, <1>11, Zenon DEF AInv

\* The second arm keeps the accesses sound.
LEMMA ElseKeeps ==
    ASSUME IInv, Traces, AInv, Else
    PROVE  Traces' /\ AInv'
<1>0. Typed /\ Len(branches) \in Nat
  BY DEF IInv, Typed
<1>1. PICK n \in Nat : \E b, g : Turned(n, b, g)
  BY <1>0, ElseShape, Zenon
<1>2. PICK b, g : Turned(n, b, g)
  BY <1>1, Zenon
<1>3. Traces'
  BY <1>0, <1>2, TracesTurned, Zenon
<1>4. Passed' /\ Stopped'
  BY <1>0, <1>2, StoppedTurned, Zenon DEF AInv
<1>5. accesses' = accesses /\ pins' = pins /\ mode' = mode
  BY <1>2, Zenon DEF Turned
<1>6. /\ Len(branches') = Len(branches)
      /\ \A j \in 1..Len(branches) : /\ branches'[j].condition = branches[j].condition
                                     /\ branches'[j].selection = branches[j].selection
  <2>1. \A j \in 1..(n + 1) : j = n + 1 \/ branches'[j] = branches[j]
    BY <1>2 DEF Turned
  <2> QED
    BY <1>2, <2>1, Zenon DEF Turned
<1>7. ASSUME NEW a \in accesses PROVE Sound(a)'
  <2>1. Within(a)'
    BY <1>6 DEF AInv, Sound, Within
  <2>2. Proposed(a)' /\ (mode' = "run" => a.retained = "1")
    BY <1>5, Zenon DEF AInv, Sound, Proposed
  <2> QED
    BY <2>1, <2>2, Zenon DEF Sound
<1>8. mode' = "run" => Single(accesses)' /\ \A a \in accesses' : Held(a)'
  BY <1>5, Zenon DEF AInv, Single, Held, Credit
<1> QED
  BY <1>3, <1>4, <1>5, <1>7, <1>8, Zenon DEF AInv

\* The end of a branch keeps the accesses sound, although it forgets their innermost arm.
LEMMA EndKeeps ==
    ASSUME IInv, Traces, AInv, EndBranch
    PROVE  Traces' /\ AInv'
<1>0. Typed /\ Len(branches) \in Nat
  BY DEF IInv, Typed
<1>1. PICK n \in Nat : \E b : Popped(n, b)
  BY <1>0, EndShape, Zenon
<1>2. PICK b : Popped(n, b)
  BY <1>1, Zenon
<1>3. Traces'
  BY <1>0, <1>2, TracesPopped, Zenon
<1>4. Passed' /\ Stopped'
  BY <1>0, <1>2, StoppedPopped, Zenon DEF AInv
<1> DEFINE cut(a) == [a EXCEPT !.arms = [i \in DOMAIN a.arms \cap 1..n |-> a.arms[i]]]
<1>5. accesses' = {cut(a) : a \in accesses} /\ pins' = pins /\ mode' = mode
  BY <1>2, Zenon DEF Popped
<1>6. Len(branches') = n /\ n + 1 = Len(branches) /\ \A j \in 1..n : branches'[j] = branches[j]
  BY <1>2, Zenon DEF Popped
<1>7. ASSUME NEW a \in accesses, NEW c, c = cut(a)
      PROVE  /\ Alike(a, c) /\ c.retained = a.retained
             /\ DOMAIN c.arms = DOMAIN a.arms \cap 1..n /\ \A i \in DOMAIN c.arms : c.arms[i] = a.arms[i]
  <2>1. a \in AccessType
    BY <1>0, Zenon DEF Typed
  <2>2. PICK arms : arms = [i \in DOMAIN a.arms \cap 1..n |-> a.arms[i]]
    BY Zenon
  <2>3. c = [a EXCEPT !.arms = arms]
    BY <1>7, <2>2, Zenon
  <2>4. Alike(a, c) /\ c.retained = a.retained /\ c.arms = arms
    BY <2>1, <2>3, Zenon DEF AccessType, Alike
  <2> QED
    BY <2>2, <2>4, Zenon
<1> HIDE DEF cut
<1>8. \A q : Credit(q)' = Credit(q)
  <2>1. \A a \in accesses : \E c \in accesses' : Alike(a, c)
    BY <1>5, <1>7, Zenon
  <2>2. \A c \in accesses' : \E a \in accesses : Alike(a, c)
    BY <1>5, <1>7, Zenon
  <2> QED
    BY <2>1, <2>2, CreditKept, Zenon
<1>9. ASSUME NEW a \in accesses, NEW c, c = cut(a) PROVE Sound(c)' /\ (mode' = "run" => Held(c)')
  <2>1. /\ Alike(a, c) /\ c.retained = a.retained
        /\ DOMAIN c.arms = DOMAIN a.arms \cap 1..n /\ \A i \in DOMAIN c.arms : c.arms[i] = a.arms[i]
    BY <1>7, <1>9, Zenon
  <2>2. Sound(a) /\ (mode = "run" => Held(a))
    BY Zenon DEF AInv
  <2>3. Within(c)'
    BY <1>6, <2>1, <2>2, Zenon DEF Sound, Within, Alike
  <2>4. Proposed(c)' /\ (mode' = "run" => c.retained = "1")
    BY <1>5, <2>1, <2>2, Zenon DEF Sound, Proposed, Alike
  <2>5. mode' = "run" => Held(c)'
    BY <1>5, <1>8, <2>1, <2>2, Zenon DEF Held, Alike
  <2> QED
    BY <2>3, <2>4, <2>5, Zenon DEF Sound
<1>10. mode' = "run" => Single(accesses)'
  <2> SUFFICES ASSUME mode' = "run", NEW c \in accesses', NEW d \in accesses',
                      c.kind \in {"pop", "push"}, c.kind = d.kind, c.resource = d.resource,
                      c.raw # "0", d.raw # "0"
               PROVE  c = d
    BY Zenon DEF Single
  <2>1. PICK a \in accesses, e \in accesses : c = cut(a) /\ d = cut(e)
    BY <1>5, Zenon
  <2>2. Alike(a, c) /\ Alike(e, d)
    BY <1>7, <2>1, Zenon
  <2>3. Single(accesses)
    BY <1>5, Zenon DEF AInv
  <2>4. a = e
    BY <2>2, <2>3, Zenon DEF Single, Alike
  <2> QED
    BY <2>1, <2>4, Zenon
<1> QED
  BY <1>3, <1>4, <1>5, <1>9, <1>10, Zenon DEF AInv

-----------------------------------------------------------------------------
(* Demand.                                                                 *)

\* A demand that tells nothing more of the rest.
LEMMA TellsClosed ==
    ASSUME NEW d, NEW s \in {"free", "refused"}, Tells(d, s), NEW c \in Pin
    PROVE  d[c] \in {"x", Bit(s = "free")}
<1>1. \E r \in Bits : c \in {"x", r}
  BY Zenon DEF Pin, Bits
<1> QED
  BY <1>1, Zenon DEF Tells, Outcome

\* And conversely.
LEMMA ClosedTells ==
    ASSUME NEW d, NEW s \in {"free", "refused"}, \A c \in Pin : d[c] \in {"x", Bit(s = "free")}
    PROVE  Tells(d, s)
BY Zenon DEF Tells, Outcome

\* Feeding a demand that goes on with what is told of the rest.
LEMMA TellsThrough ==
    ASSUME NEW d \in [Pin -> Pin], NEW h \in [Pin -> Pin], NEW e, e = [c \in Pin |-> d[h[c]]],
           NEW s \in {"open", "free", "refused"}, Tells(d, "open"), Tells(h, s)
    PROVE  Tells(e, s)
<1> SUFFICES ASSUME NEW c \in Pin, NEW r \in Bits, c \in {"x", r}
             PROVE  e[c] \in {"x", Outcome(s, r)}
  BY Zenon DEF Tells
<1>1. h[c] \in {"x", Outcome(s, r)} /\ Outcome(s, r) \in Bits /\ h[c] \in Pin
  BY Zenon DEF Tells, Outcome, Bit, Bits
<1>2. \A u \in Bits : h[c] \in {"x", u} => d[h[c]] \in {"x", u}
  BY <1>1, Zenon DEF Tells, Outcome
<1> QED
  BY <1>1, <1>2, Zenon

\* Nothing changes what a rule that has ended or was refused asks for.
LEMMA TellsPast ==
    ASSUME NEW d \in [Pin -> Pin], NEW h \in [Pin -> Pin], NEW e, e = [c \in Pin |-> d[h[c]]],
           NEW s \in {"free", "refused"}, Tells(d, s)
    PROVE  Tells(e, s)
<1>1. \A c \in Pin : h[c] \in Pin /\ e[c] = d[h[c]]
  BY Zenon
<1>2. \A c \in Pin : e[c] \in {"x", Bit(s = "free")}
  BY <1>1, TellsClosed, Zenon
<1> QED
  BY <1>2, ClosedTells, Zenon

\* The levels around a selection.
LEMMA Levels ==
    ASSUME IInv, Traces, NEW m \in 0..Len(branches), ~Pure(m)
    PROVE  /\ Level(m).live = Level(m).selected
           /\ \A j \in 1..m : branches[j].selection
           /\ \A j \in 0..(m - 1) : ~Pure(j) /\ Region(j) = branches[j + 1].outerDemand
                                    /\ Level(j) = branches[j + 1].outer
           /\ Level(m).live => \A j \in 0..(m - 1) : Level(j).live
           /\ m < Len(branches) /\ ~branches[m + 1].selection => Level(m).selected = point.selected
<1>0. Len(branches) \in Nat /\ m \in Nat /\ m <= Len(branches)
  BY DEF IInv, Typed
<1>1. Placed(Level(m), m) /\ Traced(Level(m), m)
  <2>1. CASE m = Len(branches)
    <3>1. Level(m) = point
      BY <1>0, <2>1 DEF Level
    <3> QED
      BY <2>1, <3>1, Zenon DEF IInv, Positioned, Traces
  <2>2. CASE m < Len(branches)
    <3>1. Level(m) = branches[m + 1].outer /\ m + 1 \in 1..Len(branches) /\ (m + 1) - 1 = m
      BY <1>0, <2>2 DEF Level
    <3>2. Placed(branches[m + 1].outer, (m + 1) - 1) /\ Traced(branches[m + 1].outer, (m + 1) - 1)
      BY <3>1, Zenon DEF IInv, Framed, Traces
    <3> QED
      BY <3>1, <3>2, Zenon
  <2> QED
    BY <1>0, <2>1, <2>2
<1>2. Level(m).live = Level(m).selected
  BY <1>1, Zenon DEF Traced
<1>3. \A j \in 1..m : branches[j].selection
  <2>1. m = 0 \/ (m > 0 /\ m \in 1..Len(branches))
    BY <1>0
  <2> QED
    BY <2>1 DEF Traces, Pure
<1>4. \A j \in 0..(m - 1) : ~Pure(j) /\ Region(j) = branches[j + 1].outerDemand
                            /\ Level(j) = branches[j + 1].outer
  <2> SUFFICES ASSUME NEW j \in 0..(m - 1)
               PROVE  ~Pure(j) /\ Region(j) = branches[j + 1].outerDemand
                      /\ Level(j) = branches[j + 1].outer
    BY Zenon
  <2>1. j + 1 \in 1..m /\ j < Len(branches) /\ (j > 0 => j \in 1..m)
    BY <1>0
  <2> QED
    BY <1>3, <2>1, Zenon DEF Pure, Region, Level
<1>5. Level(m).live => \A j \in 0..(m - 1) : Level(j).live
  <2>1. \A j \in 0..(m - 1) : j + 1 \in 1..m
    BY <1>0
  <2> QED
    BY <1>1, <1>4, <2>1, Zenon DEF Placed, Follows
<1>6. m < Len(branches) /\ ~branches[m + 1].selection => Level(m).selected = point.selected
  <2> SUFFICES ASSUME m < Len(branches), ~branches[m + 1].selection
               PROVE  Level(m).selected = point.selected
    BY Zenon
  <2>1. Level(m) = branches[m + 1].outer /\ m + 1 \in 1..Len(branches)
    BY <1>0 DEF Level
  <2> QED
    BY <2>1, Zenon DEF Traces
<1> QED
  BY <1>2, <1>3, <1>4, <1>5, <1>6, Zenon

\* A statement passes what it tells of the rest to the demand so far.
LEMMA DemandKept ==
    ASSUME IInv, Traces, SamePlace, NEW h \in [Pin -> Pin], demand' = [c \in Pin |-> demand[h[c]]],
           supply \in {"open", "free", "refused"}, supply' \in {"open", "free", "refused"},
           supply # "open" => supply' = supply,
           supply = "open" /\ point.selected => Tells(h, supply'),
           ~point.selected => supply' = supply,
           Topped, Supplied, Settled
    PROVE  Topped' /\ Supplied' /\ Settled'
<1>0. PICK l \in Nat : l = Len(branches)
  BY DEF IInv, Typed
<1>1. Len(branches') = l /\ \A j \in 1..l : SameFrame(branches'[j], branches[j])
  BY <1>0, Zenon DEF SamePlace, SameFrames
<1>2. \A n \in 0..l : /\ Pure(n)' = Pure(n) /\ Level(n)'.live = Level(n).live
                      /\ n < l => branches'[n + 1].selection = branches[n + 1].selection
  <2> SUFFICES ASSUME NEW n \in 0..l
               PROVE  /\ Pure(n)' = Pure(n) /\ Level(n)'.live = Level(n).live
                      /\ n < l => branches'[n + 1].selection = branches[n + 1].selection
    BY Zenon
  <2>1. (n > 0 => SameFrame(branches'[n], branches[n]))
        /\ (n < l => SameFrame(branches'[n + 1], branches[n + 1]))
    BY <1>1
  <2> QED
    BY <1>0, <1>1, <2>1, Zenon DEF Pure, Level, SameFrame, SamePlace
<1>3. Topped'
  BY <1>0, <1>1, <1>2, Zenon DEF Topped
<1>4. ASSUME NEW n \in 0..l, n < l, branches[n + 1].selection PROVE Region(n)' = Region(n)
  <2>1. SameFrame(branches'[n + 1], branches[n + 1])
    BY <1>1, <1>4
  <2> QED
    BY <1>0, <1>1, <1>4, <2>1, Zenon DEF Region, SameFrame
<1>5. ASSUME NEW n \in 0..l, ~(n < l /\ branches[n + 1].selection)
      PROVE  Region(n) = demand /\ Region(n)' = demand'
  BY <1>0, <1>1, <1>2, <1>5, Zenon DEF Region
<1>6. ASSUME NEW n \in 0..l, ~(n < l /\ branches[n + 1].selection), ~Pure(n)
      PROVE  Level(n).live = point.selected
  <2>1. /\ Level(n).live = Level(n).selected
        /\ n < Len(branches) /\ ~branches[n + 1].selection => Level(n).selected = point.selected
    BY <1>0, <1>6, Levels, Zenon
  <2>2. n = l => Level(n) = point
    BY <1>0 DEF Level
  <2> QED
    BY <1>0, <1>6, <2>1, <2>2
<1>7. \A i \in 1..l : ThenTaken(i)' = ThenTaken(i) /\ branches'[i].thenDemand = branches[i].thenDemand
  BY <1>1, Zenon DEF ThenTaken, SameFrame
<1>8. demand \in [Pin -> Pin]
  BY Zenon DEF IInv, Typed
<1>9. Supplied'
  <2> SUFFICES ASSUME supply' = "open"
               PROVE  /\ \A n \in 0..l : ~Pure(n)' /\ Level(n)'.live => Tells(Region(n)', "open")
                      /\ \A i \in 1..l : ThenTaken(i)' => Tells(branches'[i].thenDemand, "open")
    BY <1>1, Zenon DEF Supplied, Tells, Outcome
  <2>1. supply = "open"
    BY Zenon
  <2>2. ASSUME NEW n \in 0..l, ~Pure(n)', Level(n)'.live PROVE Tells(Region(n)', "open")
    <3>1. ~Pure(n) /\ Level(n).live
      BY <1>2, <2>2, Zenon
    <3>2. Tells(Region(n), "open")
      BY <1>0, <2>1, <3>1, Zenon DEF Supplied
    <3>3. CASE n < l /\ branches[n + 1].selection
      BY <1>4, <3>2, <3>3, Zenon
    <3>4. CASE ~(n < l /\ branches[n + 1].selection)
      <4>1. point.selected
        BY <1>6, <3>1, <3>4, Zenon
      <4>2. Tells(h, "open") /\ Tells(demand, "open")
        BY <1>5, <2>1, <3>2, <3>4, <4>1, Zenon
      <4>3. Tells(demand', "open")
        BY <1>8, <4>2, TellsThrough, Zenon
      <4> QED
        BY <1>5, <3>4, <4>3, Zenon
    <3> QED
      BY <3>3, <3>4, Zenon
  <2>3. \A i \in 1..l : ThenTaken(i)' => Tells(branches'[i].thenDemand, "open")
    BY <1>0, <1>7, <2>1, Zenon DEF Supplied
  <2> QED
    BY <2>2, <2>3, Zenon
<1>10. ASSUME supply' # "open"
       PROVE  \E m \in 0..l :
                /\ ~Pure(m)'
                /\ \A n \in 0..(m - 1) : Tells(Region(n)', "open")
                /\ \/ Level(m)'.live /\ Tells(Region(m)', supply')
                   \/ m > 0 /\ ThenTaken(m)' /\ Tells(branches'[m].thenDemand, supply')
  <2>1. CASE supply = "open"
    <3>1. PICK m \in 0..l : ~Pure(m) /\ (m < l => ~branches[m + 1].selection)
      BY <1>0, Zenon DEF Topped
    <3>2. point.selected
      BY <1>10, <2>1, Zenon
    <3>3. Level(m).live
      BY <1>6, <3>1, <3>2, Zenon
    <3>4. \A n \in 0..(m - 1) : ~Pure(n) /\ Level(n).live /\ n \in 0..l /\ n < l
                                /\ branches[n + 1].selection
      <4>1. /\ \A j \in 1..m : branches[j].selection
            /\ \A j \in 0..(m - 1) : ~Pure(j)
            /\ Level(m).live => \A j \in 0..(m - 1) : Level(j).live
        BY <1>0, <3>1, Levels, Zenon
      <4>2. \A n \in 0..(m - 1) : n + 1 \in 1..m /\ n \in 0..l /\ n < l
        OBVIOUS
      <4> QED
        BY <3>3, <4>1, <4>2, Zenon
    <3>5. \A n \in 0..(m - 1) : Tells(Region(n)', "open")
      BY <1>0, <1>4, <2>1, <3>4, Zenon DEF Supplied
    <3>6. Tells(demand, "open")
      BY <1>0, <1>5, <2>1, <3>1, <3>3, Zenon DEF Supplied
    <3>7. Tells(demand', supply')
      BY <1>8, <2>1, <3>2, <3>6, TellsThrough
    <3>8. Level(m)'.live /\ ~Pure(m)' /\ Region(m)' = demand'
      BY <1>2, <1>5, <3>1, <3>3, Zenon
    <3> QED
      BY <3>5, <3>7, <3>8, Zenon
  <2>2. CASE supply # "open"
    <3>0. supply' = supply
      BY <2>2, Zenon
    <3>1. PICK m \in 0..l :
            /\ ~Pure(m)
            /\ \A n \in 0..(m - 1) : Tells(Region(n), "open")
            /\ \/ Level(m).live /\ Tells(Region(m), supply)
               \/ m > 0 /\ ThenTaken(m) /\ Tells(branches[m].thenDemand, supply)
      BY <1>0, <2>2, Zenon DEF Settled
    <3>2. \A n \in 0..(m - 1) : Tells(Region(n)', "open")
      <4>1. \A j \in 1..m : branches[j].selection
        BY <1>0, <3>1, Levels, Zenon
      <4>2. \A n \in 0..(m - 1) : n + 1 \in 1..m /\ n \in 0..l /\ n < l
        OBVIOUS
      <4> QED
        BY <1>4, <3>1, <4>1, <4>2, Zenon
    <3>3. Tells(Region(m), supply) => Tells(Region(m)', supply')
      <4>1. CASE m < l /\ branches[m + 1].selection
        BY <1>4, <3>0, <4>1, Zenon
      <4>2. CASE ~(m < l /\ branches[m + 1].selection)
        BY <1>5, <1>8, <2>2, <3>0, <4>2, TellsPast, Zenon
      <4> QED
        BY <4>1, <4>2, Zenon
    <3>4. m > 0 /\ ThenTaken(m) => ThenTaken(m)' /\ branches'[m].thenDemand = branches[m].thenDemand
      <4>1. m > 0 => m \in 1..l
        OBVIOUS
      <4> QED
        BY <1>7, <4>1, Zenon
    <3>5. ~Pure(m)' /\ (Level(m).live => Level(m)'.live)
      BY <1>2, <3>1, Zenon
    <3>6. \/ Level(m)'.live /\ Tells(Region(m)', supply')
          \/ m > 0 /\ ThenTaken(m)' /\ Tells(branches'[m].thenDemand, supply')
      BY <3>0, <3>1, <3>3, <3>4, <3>5, Zenon
    <3> QED
      BY <3>2, <3>5, <3>6, Zenon
  <2> QED
    BY <2>1, <2>2, Zenon
<1>11. Settled'
  BY <1>1, <1>10, Zenon DEF Settled, Tells, Outcome
<1> QED
  BY <1>3, <1>9, <1>11, Zenon

\* A region without statements asks for what the rest asks for.
LEMMA IdentityTells == Identity \in [Pin -> Pin] /\ Tells(Identity, "open")
BY Zenon DEF Identity, Tells, Outcome

\* What a step that leaves the regions around it alone keeps of them.
LEMMA RegionsKept ==
    ASSUME NEW l \in Nat, supply' = supply,
           \A n \in 0..l : Pure(n)' = Pure(n) /\ Level(n)'.live = Level(n).live /\ Region(n)' = Region(n),
           \A i \in 1..l : ThenTaken(i)' = ThenTaken(i)
                           /\ branches'[i].thenDemand = branches[i].thenDemand,
           NEW m \in 0..l,
           ~Pure(m), \A n \in 0..(m - 1) : Tells(Region(n), "open"),
           \/ Level(m).live /\ Tells(Region(m), supply)
           \/ m > 0 /\ ThenTaken(m) /\ Tells(branches[m].thenDemand, supply)
    PROVE  /\ ~Pure(m)'
           /\ \A n \in 0..(m - 1) : Tells(Region(n)', "open")
           /\ \/ Level(m)'.live /\ Tells(Region(m)', supply')
              \/ m > 0 /\ ThenTaken(m)' /\ Tells(branches'[m].thenDemand, supply')
<1>1. (m > 0 => m \in 1..l) /\ \A n \in 0..(m - 1) : n \in 0..l
  OBVIOUS
<1>2. ~Pure(m)' /\ \A n \in 0..(m - 1) : Tells(Region(n)', "open")
  BY <1>1, Zenon
<1>3. \/ Level(m)'.live /\ Tells(Region(m)', supply')
      \/ m > 0 /\ ThenTaken(m)' /\ Tells(branches'[m].thenDemand, supply')
  <2>1. CASE Level(m).live /\ Tells(Region(m), supply)
    BY <2>1, Zenon
  <2>2. CASE m > 0 /\ ThenTaken(m) /\ Tells(branches[m].thenDemand, supply)
    BY <1>1, <2>2, Zenon
  <2> QED
    BY <2>1, <2>2, Zenon
<1> QED
  BY <1>2, <1>3, Zenon

\* A branch that begins opens a region of its own.
LEMMA DemandPushed ==
    ASSUME IInv, Traces, NEW n \in Nat, NEW f, Pushed(n, f), supply' = supply,
           demand' = IF f.selection THEN Identity ELSE demand,
           Topped, Supplied, Settled
    PROVE  Topped' /\ Supplied' /\ Settled'
<1>1. /\ n = Len(branches) /\ Len(branches') = n + 1 /\ branches'[n + 1] = f
      /\ f.outer = point /\ f.arm = TRUE /\ f.outerDemand = demand /\ (f.selection => ~Pure(n))
  BY Zenon DEF Pushed
<1>2. \A j \in 1..n : branches'[j] = branches[j]
  BY Zenon DEF Pushed
<1>3. f.selection => \A j \in 1..n : branches[j].selection
  <2>1. n \in 0..Len(branches)
    BY <1>1
  <2> QED
    BY <1>1, <2>1, Levels, Zenon
<1>4. \A m \in 0..n : /\ Pure(m)' = Pure(m) /\ Level(m)'.live = Level(m).live /\ Region(m)' = Region(m)
                      /\ m < n => branches'[m + 1].selection = branches[m + 1].selection
  <2> SUFFICES ASSUME NEW m \in 0..n
               PROVE  /\ Pure(m)' = Pure(m) /\ Level(m)'.live = Level(m).live /\ Region(m)' = Region(m)
                      /\ m < n => branches'[m + 1].selection = branches[m + 1].selection
    BY Zenon
  <2>1. Pure(m)' = Pure(m)
    BY <1>2 DEF Pure
  <2>2. CASE m < n
    <3>1. branches'[m + 1] = branches[m + 1] /\ m + 1 \in 1..n
      BY <1>2, <2>2
    <3>2. Level(m)' = Level(m)
      BY <1>1, <2>2, <3>1 DEF Level
    <3>3. Region(m)' = Region(m)
      BY <1>1, <1>3, <2>2, <3>1 DEF Region
    <3> QED
      BY <2>1, <3>1, <3>2, <3>3, Zenon
  <2>3. CASE m = n
    <3>1. Level(m)' = Level(m)
      BY <1>1, <2>3 DEF Level
    <3>2. Region(m)' = Region(m)
      BY <1>1, <2>3 DEF Region
    <3> QED
      BY <2>1, <2>3, <3>1, <3>2
  <2> QED
    BY <2>2, <2>3
<1>5. \A i \in 1..n : ThenTaken(i)' = ThenTaken(i) /\ branches'[i].thenDemand = branches[i].thenDemand
  BY <1>2, Zenon DEF ThenTaken
<1>6. Topped'
  <2>1. CASE f.selection
    <3>1. n + 1 \in 0..(n + 1) /\ ~Pure(n + 1)' /\ ~(n + 1 < n + 1)
      BY <1>1, <2>1 DEF Pure
    <3> QED
      BY <1>1, <3>1, Zenon DEF Topped
  <2>2. CASE ~f.selection
    <3>1. PICK m \in 0..n : ~Pure(m) /\ (m < n => ~branches[m + 1].selection)
      BY <1>1, Zenon DEF Topped
    <3>2. m \in 0..(n + 1) /\ ~Pure(m)' /\ ~branches'[m + 1].selection
      <4>1. m < n \/ m = n
        OBVIOUS
      <4> QED
        BY <1>1, <1>4, <2>2, <3>1, <4>1
    <3> QED
      BY <1>1, <3>2, Zenon DEF Topped
  <2> QED
    BY <2>1, <2>2, Zenon
<1>7. Supplied'
  <2> SUFFICES ASSUME supply = "open"
               PROVE  /\ \A m \in 0..(n + 1) : ~Pure(m)' /\ Level(m)'.live => Tells(Region(m)', "open")
                      /\ \A i \in 1..(n + 1) : ThenTaken(i)' => Tells(branches'[i].thenDemand, "open")
    BY <1>1, Zenon DEF Supplied, Tells, Outcome
  <2>1. ASSUME NEW m \in 0..(n + 1), ~Pure(m)', Level(m)'.live PROVE Tells(Region(m)', "open")
    <3>1. CASE m \in 0..n
      BY <1>1, <1>4, <2>1, <3>1, Zenon DEF Supplied
    <3>2. CASE m = n + 1
      <4>1. f.selection /\ Region(m)' = demand'
        BY <1>1, <2>1, <3>2 DEF Pure, Region
      <4> QED
        BY <4>1, IdentityTells, Zenon
    <3> QED
      BY <3>1, <3>2
  <2>2. ASSUME NEW i \in 1..(n + 1), ThenTaken(i)' PROVE Tells(branches'[i].thenDemand, "open")
    <3>1. CASE i \in 1..n
      BY <1>1, <1>5, <2>2, <3>1, Zenon DEF Supplied
    <3>2. CASE i = n + 1
      BY <1>1, <2>2, <3>2, Zenon DEF ThenTaken
    <3> QED
      BY <3>1, <3>2
  <2> QED
    BY <2>1, <2>2, Zenon
<1>8. ASSUME supply # "open"
      PROVE  \E m \in 0..(n + 1) :
               /\ ~Pure(m)'
               /\ \A k \in 0..(m - 1) : Tells(Region(k)', "open")
               /\ \/ Level(m)'.live /\ Tells(Region(m)', supply')
                  \/ m > 0 /\ ThenTaken(m)' /\ Tells(branches'[m].thenDemand, supply')
  <2>1. PICK m \in 0..n :
          /\ ~Pure(m)
          /\ \A k \in 0..(m - 1) : Tells(Region(k), "open")
          /\ \/ Level(m).live /\ Tells(Region(m), supply)
             \/ m > 0 /\ ThenTaken(m) /\ Tells(branches[m].thenDemand, supply)
    BY <1>1, <1>8, Zenon DEF Settled
  <2>2. m \in 0..(n + 1)
    OBVIOUS
  <2> QED
    BY <1>4, <1>5, <2>1, <2>2, RegionsKept, Zenon
<1>9. Settled'
  BY <1>1, <1>8, Zenon DEF Settled, Tells, Outcome
<1> QED
  BY <1>6, <1>7, <1>9, Zenon

\* Its second arm opens another, beside what the first asks for.
LEMMA DemandTurned ==
    ASSUME IInv, Traces, NEW n \in Nat, NEW b, NEW g, Turned(n, b, g), Topped, Supplied, Settled
    PROVE  Topped' /\ Supplied' /\ Settled'
<1>1. /\ n + 1 = Len(branches) /\ Len(branches') = n + 1 /\ branches'[n + 1] = g /\ b = branches[n + 1]
      /\ b \in FrameType /\ b.arm /\ ~g.arm /\ g.outer = b.outer /\ g.taken = b.taken
      /\ g.selection = b.selection /\ g.outerDemand = b.outerDemand /\ g.thenDemand = demand
      /\ demand' = (IF b.selection THEN Identity ELSE demand) /\ supply' = supply
      /\ n + 1 \in 1..Len(branches)
  BY DEF Turned
<1>2. \A j \in 1..n : branches'[j] = branches[j]
  BY Zenon DEF Turned
<1>3. b.selection => \A j \in 1..(n + 1) : branches[j].selection
  BY <1>1, Zenon DEF Traces
<1>4. \A m \in 0..n : /\ Pure(m)' = Pure(m) /\ Level(m)'.live = Level(m).live /\ Region(m)' = Region(m)
                      /\ branches'[m + 1].selection = branches[m + 1].selection
  <2> SUFFICES ASSUME NEW m \in 0..n
               PROVE  /\ Pure(m)' = Pure(m) /\ Level(m)'.live = Level(m).live /\ Region(m)' = Region(m)
                      /\ branches'[m + 1].selection = branches[m + 1].selection
    BY Zenon
  <2>1. Pure(m)' = Pure(m)
    BY <1>2 DEF Pure
  <2>2. /\ branches'[m + 1].selection = branches[m + 1].selection
        /\ branches'[m + 1].outer = branches[m + 1].outer
        /\ branches'[m + 1].outerDemand = branches[m + 1].outerDemand
    <3>1. m + 1 \in 1..n \/ m + 1 = n + 1
      OBVIOUS
    <3> QED
      BY <1>1, <1>2, <3>1, Zenon
  <2>3. Level(m)' = Level(m)
    BY <1>1, <2>2 DEF Level
  <2>4. Region(m)' = Region(m)
    <3>1. m + 1 \in 1..(n + 1)
      OBVIOUS
    <3> QED
      BY <1>1, <1>3, <2>2, <3>1 DEF Region
  <2> QED
    BY <2>1, <2>2, <2>3, <2>4, Zenon
<1>5. \A i \in 1..n : ThenTaken(i)' = ThenTaken(i) /\ branches'[i].thenDemand = branches[i].thenDemand
  BY <1>2, Zenon DEF ThenTaken
<1>6. Pure(n + 1)' = Pure(n + 1) /\ (~Pure(n + 1) <=> b.selection)
      /\ Level(n + 1) = point /\ Region(n + 1) = demand /\ Region(n + 1)' = demand'
  BY <1>1 DEF Pure, Level, Region, FrameType
<1>7. (b.outer.live /\ b.taken => point.live) /\ (point.live => b.outer.live /\ b.taken)
  BY <1>1 DEF IInv, Positioned, Placed, Follows, FrameType
<1>8. Topped'
  <2>1. \A m \in 0..(n + 1) : Pure(m)' = Pure(m)
                              /\ (m < n + 1 => branches'[m + 1].selection = branches[m + 1].selection)
    <3>1. \A m \in 0..(n + 1) : m \in 0..n \/ m = n + 1
      OBVIOUS
    <3> QED
      BY <1>4, <1>6, <3>1
  <2> QED
    BY <1>1, <2>1, Zenon DEF Topped
<1>9. Supplied'
  <2> SUFFICES ASSUME supply = "open"
               PROVE  /\ \A m \in 0..(n + 1) : ~Pure(m)' /\ Level(m)'.live => Tells(Region(m)', "open")
                      /\ \A i \in 1..(n + 1) : ThenTaken(i)' => Tells(branches'[i].thenDemand, "open")
    BY <1>1, Zenon DEF Supplied, Tells, Outcome
  <2>1. ASSUME NEW m \in 0..(n + 1), ~Pure(m)', Level(m)'.live PROVE Tells(Region(m)', "open")
    <3>1. CASE m \in 0..n
      BY <1>1, <1>4, <2>1, <3>1, Zenon DEF Supplied
    <3>2. CASE m = n + 1
      BY <1>1, <1>6, <2>1, <3>2, IdentityTells, Zenon
    <3> QED
      BY <3>1, <3>2
  <2>2. ASSUME NEW i \in 1..(n + 1), ThenTaken(i)' PROVE Tells(branches'[i].thenDemand, "open")
    <3>1. CASE i \in 1..n
      BY <1>1, <1>5, <2>2, <3>1, Zenon DEF Supplied
    <3>2. CASE i = n + 1
      <4>1. b.selection /\ b.outer.live /\ b.taken
        BY <1>1, <2>2, <3>2, Zenon DEF ThenTaken
      <4>2. n + 1 \in 0..Len(branches)
        BY <1>1
      <4>3. Tells(demand, "open")
        BY <1>6, <1>7, <4>1, <4>2, Zenon DEF Supplied
      <4> QED
        BY <1>1, <3>2, <4>3, Zenon
    <3> QED
      BY <3>1, <3>2
  <2> QED
    BY <2>1, <2>2, Zenon
<1>10. ASSUME supply # "open"
       PROVE  \E m \in 0..(n + 1) :
               /\ ~Pure(m)'
               /\ \A k \in 0..(m - 1) : Tells(Region(k)', "open")
               /\ \/ Level(m)'.live /\ Tells(Region(m)', supply')
                  \/ m > 0 /\ ThenTaken(m)' /\ Tells(branches'[m].thenDemand, supply')
  <2>1. PICK m \in 0..(n + 1) :
          /\ ~Pure(m)
          /\ \A k \in 0..(m - 1) : Tells(Region(k), "open")
          /\ \/ Level(m).live /\ Tells(Region(m), supply)
             \/ m > 0 /\ ThenTaken(m) /\ Tells(branches[m].thenDemand, supply)
    BY <1>1, <1>10, Zenon DEF Settled
  <2>2. CASE m \in 0..n
    BY <1>1, <1>4, <1>5, <2>1, <2>2, RegionsKept, Zenon
  <2>3. CASE m = n + 1
    <3>1. ~ThenTaken(m)
      BY <1>1, <2>3, Zenon DEF ThenTaken
    <3>2. point.live /\ Tells(demand, supply) /\ b.selection
      BY <1>6, <2>1, <2>3, <3>1, Zenon
    <3>3. ThenTaken(m)' /\ branches'[m].thenDemand = demand /\ m > 0
      <4>1. b.outer.live /\ b.taken
        BY <1>7, <3>2, Zenon
      <4>2. g.selection /\ g.outer.live /\ ~g.arm /\ g.taken
        BY <1>1, <3>2, <4>1, Zenon
      <4>3. ThenTaken(m)'
        BY <1>1, <2>3, <4>2, Zenon DEF ThenTaken
      <4> QED
        BY <1>1, <2>3, <4>3
    <3>4. \A k \in 0..(m - 1) : Tells(Region(k)', "open")
      <4>1. \A k \in 0..(m - 1) : k \in 0..n
        BY <2>3
      <4> QED
        BY <1>4, <2>1, <4>1, Zenon
    <3>5. ~Pure(m)' /\ Tells(branches'[m].thenDemand, supply')
      BY <1>1, <1>6, <2>1, <2>3, <3>2, <3>3, Zenon
    <3> QED
      BY <3>3, <3>4, <3>5, Zenon
  <2> QED
    BY <2>2, <2>3
<1>11. Settled'
  BY <1>1, <1>10, Zenon DEF Settled, Tells, Outcome
<1> QED
  BY <1>8, <1>9, <1>11, Zenon

\* The demand of a branch is that of the arm the source takes.
LEMMA JoinTells ==
    ASSUME NEW t \in [Pin -> Pin], NEW e \in [Pin -> Pin], NEW taken \in BOOLEAN,
           NEW x \in {"x", Bit(taken)}, NEW s, taken => Tells(t, s), ~taken => Tells(e, s),
           NEW h, h = [c \in Pin |-> Select(x, t[c], e[c])]
    PROVE  h \in [Pin -> Pin] /\ Tells(h, s)
<1>1. x \in Pin
  BY Zenon DEF Pin, Bit
<1>2. \A c \in Pin : Select(x, t[c], e[c]) \in Pin
  BY <1>1, Connectives, Zenon
<1>3. h \in [Pin -> Pin]
  BY <1>2, Zenon
<1>4. ASSUME NEW c \in Pin, NEW r \in Bits, c \in {"x", r} PROVE h[c] \in {"x", Outcome(s, r)}
  <2>1. h[c] = Select(x, t[c], e[c])
    BY <1>4, Zenon
  <2>2. CASE taken
    <3>1. t[c] \in {"x", Outcome(s, r)}
      BY <1>4, <2>2, Zenon DEF Tells
    <3> QED
      BY <2>1, <2>2, <3>1, Zenon DEF Select, Bit
  <2>3. CASE ~taken
    <3>1. e[c] \in {"x", Outcome(s, r)}
      BY <1>4, <2>3, Zenon DEF Tells
    <3> QED
      BY <2>1, <2>3, <3>1, Zenon DEF Select, Bit
  <2> QED
    BY <2>2, <2>3, Zenon
<1> QED
  BY <1>3, <1>4, Zenon DEF Tells

\* Its end joins what the arms ask for.
LEMMA DemandPopped ==
    ASSUME IInv, Traces, NEW n \in Nat, NEW b, Popped(n, b), Topped, Supplied, Settled,
           supply \in {"open", "free", "refused"}
    PROVE  Topped' /\ Supplied' /\ Settled'
<1>1. /\ n + 1 = Len(branches) /\ Len(branches') = n /\ b = branches[n + 1] /\ b \in FrameType /\ ~b.arm
      /\ point'.live = b.outer.live /\ demand' = DemandJoin(b) /\ supply' = supply
      /\ n + 1 \in 1..Len(branches) /\ (n + 1) - 1 = n
  BY DEF Popped
<1>2. \A j \in 1..n : branches'[j] = branches[j]
  BY Zenon DEF Popped
<1>3. b.selection => \A j \in 1..(n + 1) : branches[j].selection
  BY <1>1, Zenon DEF Traces
<1>4. \A m \in 0..n : /\ Pure(m)' = Pure(m) /\ Level(m)'.live = Level(m).live
                      /\ m < n => Region(m)' = Region(m) /\ branches'[m + 1].selection = branches[m + 1].selection
  <2> SUFFICES ASSUME NEW m \in 0..n
               PROVE  /\ Pure(m)' = Pure(m) /\ Level(m)'.live = Level(m).live
                      /\ m < n => /\ Region(m)' = Region(m)
                                  /\ branches'[m + 1].selection = branches[m + 1].selection
    BY Zenon
  <2>1. Pure(m)' = Pure(m)
    BY <1>2 DEF Pure
  <2>2. CASE m < n
    <3>1. branches'[m + 1] = branches[m + 1] /\ m + 1 \in 1..(n + 1)
      BY <1>2, <2>2
    <3>2. Level(m)' = Level(m)
      BY <1>1, <2>2, <3>1 DEF Level
    <3>3. Region(m)' = Region(m)
      BY <1>1, <1>3, <2>2, <3>1 DEF Region, DemandJoin
    <3> QED
      BY <2>1, <3>1, <3>2, <3>3, Zenon
  <2>3. CASE m = n
    BY <1>1, <2>1, <2>3 DEF Level
  <2> QED
    BY <2>2, <2>3
<1>5. \A i \in 1..n : ThenTaken(i)' = ThenTaken(i) /\ branches'[i].thenDemand = branches[i].thenDemand
  BY <1>2, Zenon DEF ThenTaken
<1>6. /\ (~Pure(n + 1) <=> b.selection) /\ Level(n + 1) = point /\ Region(n + 1) = demand
      /\ Region(n)' = demand' /\ (b.selection => Region(n) = b.outerDemand)
      /\ ~b.selection => Region(n) = demand /\ demand' = demand
      /\ Level(n) = b.outer
  BY <1>1, SMTT(30) DEF Pure, Level, Region, DemandJoin, FrameType
<1>7. b.outer.live => /\ b.condition \in {"x", Bit(b.taken)}
                      /\ ~b.taken => point.live
  BY <1>1 DEF IInv, Framed, FrameOK, Positioned, Placed, Follows, FrameType
<1>8. point.live => b.outer.live /\ ~b.taken
  BY <1>1, Zenon DEF IInv, Positioned, Placed, Follows, FrameType
<1>9. /\ b.thenDemand \in [Pin -> Pin] /\ b.outerDemand \in [Pin -> Pin] /\ demand \in [Pin -> Pin]
      /\ b.taken \in BOOLEAN
  BY <1>1, Zenon DEF FrameType, IInv, Typed
<1>10. ASSUME b.selection, b.outer.live, Tells(b.outerDemand, "open"),
              b.taken => Tells(b.thenDemand, supply), ~b.taken => Tells(demand, supply)
       PROVE  Tells(demand', supply)
  <2>1. PICK h : h = [c \in Pin |-> Select(b.condition, b.thenDemand[c], demand[c])]
    BY Zenon
  <2>2. h \in [Pin -> Pin] /\ Tells(h, supply)
    <3>1. b.condition \in {"x", Bit(b.taken)}
      BY <1>7, <1>10, Zenon
    <3> QED
      BY <1>9, <1>10, <2>1, <3>1, JoinTells
  <2>3. demand' = [c \in Pin |-> b.outerDemand[h[c]]]
    BY <1>1, <1>10, <2>1, Zenon DEF DemandJoin
  <2> QED
    BY <1>9, <1>10, <2>2, <2>3, TellsThrough
<1>11. Topped'
  <2>1. PICK m \in 0..(n + 1) : ~Pure(m) /\ (m < n + 1 => ~branches[m + 1].selection)
    BY <1>1, Zenon DEF Topped
  <2>2. CASE m \in 0..n
    BY <1>1, <1>4, <2>1, <2>2 DEF Topped
  <2>3. CASE m = n + 1
    <3>1. ~Pure(n) /\ n \in 0..n
      <4>1. n > 0 => n \in 1..(n + 1)
        OBVIOUS
      <4> QED
        BY <1>3, <1>6, <2>1, <2>3, <4>1 DEF Pure
    <3>2. ~Pure(n)'
      BY <1>4, <3>1, Zenon
    <3> QED
      BY <1>1, <3>1, <3>2 DEF Topped
  <2> QED
    BY <2>2, <2>3
<1>12. Supplied'
  <2> SUFFICES ASSUME supply = "open"
               PROVE  /\ \A m \in 0..n : ~Pure(m)' /\ Level(m)'.live => Tells(Region(m)', "open")
                      /\ \A i \in 1..n : ThenTaken(i)' => Tells(branches'[i].thenDemand, "open")
    BY <1>1, Zenon DEF Supplied, Tells, Outcome
  <2>1. ASSUME NEW m \in 0..n, ~Pure(m)', Level(m)'.live PROVE Tells(Region(m)', "open")
    <3>0. m \in 0..Len(branches) /\ ~Pure(m) /\ Level(m).live
      BY <1>1, <1>4, <2>1
    <3>1. Tells(Region(m), "open")
      BY <3>0, Zenon DEF Supplied
    <3>2. CASE m < n
      BY <1>4, <3>1, <3>2, Zenon
    <3>3. CASE m = n /\ ~b.selection
      BY <1>6, <3>1, <3>3, Zenon
    <3>4. CASE m = n /\ b.selection
      <4>1. b.outer.live
        BY <1>6, <3>0, <3>4, Zenon
      <4>2. b.taken => Tells(b.thenDemand, "open")
        <5>1. b.taken => ThenTaken(n + 1)
          BY <1>1, <3>4, <4>1, Zenon DEF ThenTaken
        <5> QED
          BY <1>1, <5>1, Zenon DEF Supplied
      <4>3. ~b.taken => Tells(demand, "open")
        <5>1. n + 1 \in 0..Len(branches)
          BY <1>1
        <5> QED
          BY <1>6, <1>7, <3>4, <4>1, <5>1, Zenon DEF Supplied
      <4> QED
        BY <1>6, <1>10, <3>1, <3>4, <4>1, <4>2, <4>3
    <3> QED
      BY <3>2, <3>3, <3>4
  <2>2. \A i \in 1..n : ThenTaken(i)' => Tells(branches'[i].thenDemand, "open")
    <3>1. \A i \in 1..n : i \in 1..Len(branches)
      BY <1>1
    <3> QED
      BY <1>5, <3>1, Zenon DEF Supplied
  <2> QED
    BY <2>1, <2>2, Zenon
<1>13. ASSUME supply # "open"
       PROVE  \E m \in 0..n :
               /\ ~Pure(m)'
               /\ \A k \in 0..(m - 1) : Tells(Region(k)', "open")
               /\ \/ Level(m)'.live /\ Tells(Region(m)', supply')
                  \/ m > 0 /\ ThenTaken(m)' /\ Tells(branches'[m].thenDemand, supply')
  <2>1. PICK m \in 0..(n + 1) :
          /\ ~Pure(m)
          /\ \A k \in 0..(m - 1) : Tells(Region(k), "open")
          /\ \/ Level(m).live /\ Tells(Region(m), supply)
             \/ m > 0 /\ ThenTaken(m) /\ Tells(branches[m].thenDemand, supply)
    BY <1>1, <1>13, Zenon DEF Settled
  <2>2. \A k \in 0..(m - 1) : k < n => Tells(Region(k)', "open")
    <3>1. \A k \in 0..(m - 1) : k < n => k \in 0..n
      OBVIOUS
    <3> QED
      BY <1>4, <2>1, <3>1, Zenon
  <2>3. CASE m \in 0..n
    <3>1. ~Pure(m)' /\ (Level(m).live => Level(m)'.live) /\ \A k \in 0..(m - 1) : k < n
      BY <1>4, <2>1, <2>3
    <3>2. m > 0 /\ ThenTaken(m) => ThenTaken(m)' /\ branches'[m].thenDemand = branches[m].thenDemand
      <4>1. m > 0 => m \in 1..n
        BY <2>3
      <4> QED
        BY <1>5, <4>1, Zenon
    <3>3. Tells(Region(m), supply) => Tells(Region(m)', supply')
      <4>1. CASE m < n
        BY <1>1, <1>4, <2>3, <4>1, Zenon
      <4>2. CASE m = n /\ ~b.selection
        BY <1>1, <1>6, <4>2, Zenon
      <4>3. CASE m = n /\ b.selection
        <5> SUFFICES ASSUME Tells(b.outerDemand, supply) PROVE Tells(demand', supply)
          BY <1>1, <1>6, <4>3, Zenon
        <5>1. PICK h : h = [c \in Pin |-> Select(b.condition, b.thenDemand[c], demand[c])]
          BY Zenon
        <5>2. h \in [Pin -> Pin]
          <6>1. b.condition \in Pin
            BY <1>1, Zenon DEF FrameType
          <6>2. \A c \in Pin : Select(b.condition, b.thenDemand[c], demand[c]) \in Pin
            BY <1>9, <6>1, Connectives, Zenon
          <6> QED
            BY <5>1, <6>2, Zenon
        <5>3. demand' = [c \in Pin |-> b.outerDemand[h[c]]]
          BY <1>1, <4>3, <5>1, Zenon DEF DemandJoin
        <5> QED
          BY <1>9, <1>13, <5>2, <5>3, TellsPast, Zenon
      <4> QED
        BY <2>3, <4>1, <4>2, <4>3
    <3>4. \/ Level(m)'.live /\ Tells(Region(m)', supply')
          \/ m > 0 /\ ThenTaken(m)' /\ Tells(branches'[m].thenDemand, supply')
      <4>1. CASE Level(m).live /\ Tells(Region(m), supply)
        BY <3>1, <3>3, <4>1, Zenon
      <4>2. CASE m > 0 /\ ThenTaken(m) /\ Tells(branches[m].thenDemand, supply)
        BY <1>1, <3>2, <4>2, Zenon
      <4> QED
        BY <2>1, <4>1, <4>2, Zenon
    <3> QED
      BY <2>2, <2>3, <3>1, <3>4, Zenon
  <2>4. CASE m = n + 1
    <3>1. b.selection /\ Tells(b.outerDemand, "open")
      <4>1. b.selection /\ n \in 0..(m - 1)
        BY <1>6, <2>1, <2>4
      <4> QED
        BY <1>6, <2>1, <4>1, Zenon
    <3>2. b.outer.live /\ Tells(IF b.taken THEN b.thenDemand ELSE demand, supply)
      <4>1. CASE Level(m).live /\ Tells(Region(m), supply)
        BY <1>6, <1>8, <2>4, <4>1, Zenon
      <4>2. CASE ThenTaken(m) /\ Tells(branches[m].thenDemand, supply)
        BY <1>1, <2>4, <4>2, Zenon DEF ThenTaken
      <4> QED
        BY <2>1, <4>1, <4>2, Zenon
    <3>3. Tells(demand', supply)
      BY <1>10, <3>1, <3>2, Zenon
    <3>4. ~Pure(n)' /\ Level(n)'.live /\ n \in 0..n
      <4>1. n > 0 => n \in 1..(n + 1)
        OBVIOUS
      <4>2. ~Pure(n)
        BY <1>3, <3>1, <4>1, Zenon DEF Pure
      <4>3. n \in 0..n
        OBVIOUS
      <4> QED
        BY <1>4, <1>6, <3>2, <4>2, <4>3, Zenon
    <3>5. \A k \in 0..(n - 1) : Tells(Region(k)', "open")
      <4>1. \A k \in 0..(n - 1) : k \in 0..(m - 1) /\ k < n
        BY <2>4
      <4> QED
        BY <2>2, <4>1, Zenon
    <3> QED
      BY <1>1, <1>6, <3>3, <3>4, <3>5, Zenon
  <2> QED
    BY <2>3, <2>4
<1>14. Settled'
  BY <1>1, <1>13, Zenon DEF Settled, Tells, Outcome
<1> QED
  BY <1>11, <1>12, <1>14, Zenon

-----------------------------------------------------------------------------
(* What each statement does to the demand.                                 *)

\* A step that gives no queue a credit takes nothing from one.
LEMMA TakingKept ==
    ASSUME Taking, popped' = popped, \A q : Credit(q)' = Credit(q)
    PROVE  Taking'
BY Zenon DEF Taking

\* Nor does a control.
LEMMA RetainCredit ==
    ASSUME accesses \subseteq AccessType, NEW k \in Bits, accesses' = RetainControl(k, accesses)
    PROVE  \A q : Credit(q)' = Credit(q)
<1>1. SameAccesses(accesses, accesses')
  BY RetainTypes, Zenon
<1> QED
  BY <1>1, CreditKept, Zenon DEF SameAccesses

\* A statement without a resource, past which nothing is asked for unless `raw' holds.
LEMMA BoundaryDemand ==
    ASSUME IInv, Traces, DInv, SamePlace, NEW raw \in Pin,
           demand' = [c \in Pin |-> demand[Boundary(raw, c)]], Supply(point.selected, raw),
           popped' = popped, \A q : Credit(q)' = Credit(q), mode' = "run" => mode = "run"
    PROVE  DInv'
<1>1. PICK h : h = [c \in Pin |-> Boundary(raw, c)]
  BY Zenon
<1>2. h \in [Pin -> Pin]
  <2>1. \A c \in Pin : Boundary(raw, c) \in Pin
    BY Zenon DEF Boundary, Select, K1, Bit, Pin
  <2> QED
    BY <1>1, <2>1, Zenon
<1>3. demand' = [c \in Pin |-> demand[h[c]]]
  BY <1>1, Zenon
<1>4. /\ supply \in {"open", "free", "refused"} /\ supply' \in {"open", "free", "refused"}
      /\ supply # "open" => supply' = supply
      /\ ~point.selected => supply' = supply
      /\ supply' = "refused" => supply = "refused"
  BY Zenon DEF DInv, Supply
<1>5. supply = "open" /\ point.selected => Tells(h, supply')
  <2>1. supply = "open" /\ point.selected => supply' = IF raw = "1" THEN "open" ELSE "free"
    BY Zenon DEF Supply
  <2>2. \A c \in Pin : h[c] = IF raw = "1" THEN c ELSE "1"
    BY <1>1, Zenon DEF Boundary, Select, K1, Bit, Pin
  <2> QED
    BY <2>1, <2>2, Zenon DEF Tells, Outcome, Bit
<1>6. Topped' /\ Supplied' /\ Settled'
  BY <1>2, <1>3, <1>4, <1>5, DemandKept, Zenon DEF DInv
<1>7. Taking'
  BY TakingKept, Zenon DEF DInv
<1> QED
  BY <1>4, <1>6, <1>7, Zenon DEF DInv

\* A statement that is no boundary and asks for nothing.
LEMMA PlainDemand ==
    ASSUME IInv, Traces, DInv, SamePlace, UNCHANGED <<demand, popped, supply>>,
           \A q : Credit(q)' = Credit(q), mode' = "run" => mode = "run"
    PROVE  DInv'
<1>1. PICK h : h = Identity
  BY Zenon
<1>2. h \in [Pin -> Pin] /\ Tells(h, "open") /\ \A c \in Pin : h[c] = c
  BY <1>1, IdentityTells, Zenon DEF Identity
<1>3. demand' = [c \in Pin |-> demand[h[c]]]
  BY <1>2, Zenon DEF IInv, Typed
<1>4. supply \in {"open", "free", "refused"} /\ supply' = supply
  BY Zenon DEF DInv
<1>5. Topped' /\ Supplied' /\ Settled'
  BY <1>2, <1>3, <1>4, DemandKept, Zenon DEF DInv
<1>6. Taking'
  BY TakingKept, Zenon DEF DInv
<1> QED
  BY <1>4, <1>5, <1>6, Zenon DEF DInv

\* What is known of the credit of a queue decides whether it is ready, or nothing.
LEMMA ReadyTells ==
    ASSUME Typed, NEW q \in Queues, NEW kind, NEW took \in BOOLEAN, NEW credit \in {"x", Bit(took)},
           NEW r \in Resolve(Ready(q, kind, Bit(took)))
    PROVE  Ready(q, kind, credit) \in {"x", r} /\ r \in Bits
<1>1. pins[q].room \in Pin /\ pins[q].head \in Pin /\ pins[q].other \in Pin
  BY Zenon DEF Typed
<1>2. CASE kind # "push"
  BY <1>1, <1>2, Zenon DEF Ready, Resolve, Pin, Bits
<1>3. CASE kind = "push" /\ ~pins[q].downstream
  BY <1>1, <1>3, Zenon DEF Ready, Resolve, Pin, Bits
<1>4. CASE kind = "push" /\ pins[q].downstream
  <2>1. \A c : Ready(q, kind, c) = Or(pins[q].room, And(pins[q].head, Or(c, pins[q].other)))
    BY <1>4, Zenon DEF Ready
  <2>2. CASE took
    BY <1>1, <2>1, <2>2, Zenon DEF Resolve, Pin, Bits, Or, And, Bit
  <2>3. CASE ~took
    BY <1>1, <2>1, <2>3, Zenon DEF Resolve, Pin, Bits, Or, And, Bit
  <2> QED
    BY <2>2, <2>3, Zenon
<1> QED
  BY <1>2, <1>3, <1>4, Zenon

\* An access asks for its resource where it is reached, and passes the rest on.
LEMMA AccessTells ==
    ASSUME NEW authored \in Pin, NEW ready \in Pin, NEW a \in Resolve(authored), NEW r \in Bits,
           ready \in {"x", r}, NEW h, h = [c \in Pin |-> Select(authored, And(ready, c), c)]
    PROVE  h \in [Pin -> Pin] /\ Tells(h, IF a = "1" /\ r = "0" THEN "refused" ELSE "open")
<1>1. \A c \in Pin : h[c] = Select(authored, And(ready, c), c) /\ h[c] \in Pin
  BY Connectives, Zenon
<1>2. h \in [Pin -> Pin]
  BY <1>1, Zenon
<1>3. CASE a = "1" /\ r = "0"
  <2>1. \A c \in Pin : h[c] \in {"x", "0"}
    BY <1>1, <1>3, Zenon DEF Select, And, Resolve, Pin
  <2> QED
    BY <1>2, <1>3, <2>1, Zenon DEF Tells, Outcome, Bit
<1>4. CASE ~(a = "1" /\ r = "0")
  <2>1. \A c \in Pin : h[c] \in {"x", c}
    BY <1>1, <1>4, Zenon DEF Select, And, Resolve, Pin, Bits
  <2>2. \A c \in Pin, u \in Bits : c \in {"x", u} => h[c] \in {"x", u}
    BY <2>1, Zenon
  <2> QED
    BY <1>2, <1>4, <2>2, Zenon DEF Tells, Outcome
<1> QED
  BY <1>3, <1>4, Zenon

\* What a queue has been asked to give, and what the source has taken from it.
LEMMA TakenTells ==
    ASSUME NEW took \in BOOLEAN, NEW credit \in {"x", Bit(took)}, NEW path \in Pin, NEW a \in Bits,
           path \in {"x", a}
    PROVE  Or(credit, path) \in {"x", Bit(took \/ a = "1")}
BY Zenon DEF Or, Bit, Bits

\* The credit of a queue after an access of it or of another.
LEMMA QueueCredit ==
    ASSUME IInv, NEW q \in Queues, NEW kind \in {"pop", "push", "peek"},
           NEW authored \in Pin, QueueAccess(q, kind, authored)
    PROVE  /\ \A p : p # q \/ kind # "pop" => Credit(p)' = Credit(p)
           /\ kind = "pop" => Credit(q)' = Or(Credit(q), And(point.raw, authored))
<1>0. Typed
  BY Zenon DEF IInv
<1>1. PICK raw : raw = Select(And(point.raw, authored), Ready(q, kind, Credit(q)), "1")
  BY Zenon
<1>2. Credit(q) \in Pin /\ pins[q].room \in Pin /\ pins[q].head \in Pin /\ pins[q].other \in Pin
      /\ point.raw \in Pin
  BY <1>0, Zenon DEF Typed, Credit, Pin, PointType
<1>3. Ready(q, kind, Credit(q)) \in Pin
  BY <1>2, Connectives, Zenon DEF Ready
<1>4. raw \in Pin
  BY <1>1, <1>2, <1>3, Connectives DEF Pin
<1>5. PICK k \in Bits : k = Bypass(FALSE, raw)
  BY <1>0, <1>4, BypassTypes, Zenon DEF Typed
<1>6. PICK new : new = AccessAt(q, kind, authored, point.kept)
  BY Zenon
<1>7. PICK as : as = accesses \union {new : j \in {kind} \ {"peek"}}
  BY Zenon
<1>8. accesses' = RetainControl(k, as)
  BY <1>1, <1>5, <1>6, <1>7, Zenon DEF QueueAccess
<1>9. kind # "peek" => new \in AccessType
  BY <1>0, <1>6, AccessTypes, Zenon
<1>10. as \subseteq AccessType /\ accesses \subseteq AccessType
  BY <1>0, <1>7, <1>9, Zenon DEF Typed
<1>11. SameAccesses(as, accesses')
  BY <1>8, <1>10, RetainTypes, Zenon
<1>12. new.resource = q /\ new.kind = kind /\ new.raw = And(point.raw, authored) /\ new.raw \in Pin
  BY <1>2, <1>6, Connectives, Zenon DEF AccessAt
<1>13. ASSUME NEW p, p # q \/ kind # "pop" PROVE Credit(p)' = Credit(p)
  <2>1. \A a \in accesses : \E b \in accesses' : Alike(a, b)
    BY <1>7, <1>11, Zenon DEF SameAccesses
  <2>2. ASSUME NEW b \in accesses'
        PROVE  (\E a \in accesses : Alike(a, b)) \/ ~(b.resource = p /\ b.kind = "pop")
    <3>1. PICK a \in as : Alike(a, b)
      BY <1>11, Zenon DEF SameAccesses
    <3>2. a \in accesses \/ a = new
      BY <1>7, Zenon
    <3> QED
      BY <1>12, <1>13, <3>1, <3>2, Zenon DEF Alike
  <2> QED
    BY <2>1, <2>2, CreditKept, Zenon
<1>14. ASSUME kind = "pop" PROVE Credit(q)' = Or(Credit(q), new.raw)
  <2>1. as = accesses \union {new}
    BY <1>7, <1>14, Zenon
  <2> QED
    BY <1>10, <1>11, <1>12, <1>14, <2>1, CreditAdded, Zenon
<1> QED
  BY <1>12, <1>13, <1>14, Zenon

\* A queue access asks for what the source asks for, and a refused rule does not go on.
LEMMA QueueDemand ==
    ASSUME IInv, Traces, DInv, NEW q \in Queues, NEW kind \in {"pop", "push", "peek"},
           NEW authored \in Pin, QueueAccess(q, kind, authored)
    PROVE  DInv'
<1>0. Typed /\ NeedsSelection /\ Taking
  BY Zenon DEF IInv, QueueAccess, DInv
<1>1. PICK a \in Resolve(authored), r \in Resolve(Ready(q, kind, Bit(popped[q].took))) :
        /\ supply' = IF supply = "open" /\ point.live /\ a = "1" /\ r = "0"
                     THEN "refused" ELSE supply
        /\ popped' = IF kind = "pop" /\ point.live
                     THEN [popped EXCEPT ![q] = [path |-> Or(@.path, authored),
                                                 took |-> @.took \/ a = "1"]]
                     ELSE popped
  BY Zenon DEF QueueAccess
<1>2. PICK ready : ready = Ready(q, kind, Credit(q))
  BY Zenon
<1>3. PICK serial : serial = Ready(q, kind, popped[q].path)
  BY Zenon
<1>4. /\ demand' = [c \in Pin |-> demand[Select(authored, And(ready, c), c)]]
      /\ Meet(IF point.live THEN authored ELSE "0", serial = "1", serial)
  BY <1>2, <1>3, Zenon DEF QueueAccess
<1>5. /\ popped[q].took \in BOOLEAN /\ popped[q].path \in Pin
      /\ Credit(q) \in {"x", Bit(popped[q].took)} /\ popped[q].path \in {"x", Bit(popped[q].took)}
  BY <1>0, Zenon DEF Typed, Taking
<1>6. ready \in {"x", r} /\ serial \in {"x", r} /\ r \in Bits
  BY <1>0, <1>2, <1>3, <1>5, ReadyTells, Zenon
<1>7. a \in Bits /\ authored \in {"x", a}
  BY Zenon DEF Resolve, Pin, Bits
<1>8. PICK h : h = [c \in Pin |-> Select(authored, And(ready, c), c)]
  BY Zenon
<1>9. h \in [Pin -> Pin] /\ Tells(h, IF a = "1" /\ r = "0" THEN "refused" ELSE "open")
  <2>1. ready \in Pin
    BY <1>6, Zenon DEF Pin, Bits
  <2> QED
    BY <1>6, <1>8, <2>1, AccessTells, Zenon
<1>10. SamePlace
  <2>1. SameFrames
    BY <1>0, EffectKeepsFrames, Zenon
  <2>2. \E k : point' = [point EXCEPT !.kept = k]
    BY Zenon DEF QueueAccess
  <2> QED
    BY <1>0, <2>1, <2>2, Zenon DEF SamePlace, Typed, PointType
<1>11. point.live = point.selected
  <2>1. ~Pure(Len(branches))
    BY <1>0 DEF NeedsSelection, InPure, Pure, Typed
  <2> QED
    BY <2>1, Zenon DEF Traces, Traced
<1>12. demand' = [c \in Pin |-> demand[h[c]]]
  BY <1>4, <1>8, Zenon
<1>13. supply \in {"open", "free", "refused"} /\ supply' \in {"open", "free", "refused"}
       /\ (supply # "open" => supply' = supply)
  BY <1>1, Zenon DEF DInv
<1>14. ~point.selected => supply' = supply
  BY <1>1, <1>11, Zenon
<1>15. supply = "open" /\ point.selected => Tells(h, supply')
  BY <1>1, <1>9, <1>11, Zenon
<1>16. Topped' /\ Supplied' /\ Settled'
  BY <1>9, <1>10, <1>12, <1>13, <1>14, <1>15, DemandKept, Zenon DEF DInv
<1>17. supply' = "refused" => mode' # "run"
  <2>1. CASE supply = "refused"
    BY <2>1, <1>4, Zenon DEF DInv, Meet
  <2>2. CASE supply # "refused" /\ supply' = "refused"
    <3>1. point.live /\ a = "1" /\ r = "0"
      BY <1>1, <2>2, Zenon
    <3>2. authored # "0" /\ serial # "1"
      BY <1>6, <1>7, <3>1, Zenon
    <3>3. mode' = IF mode # "run" THEN mode
                  ELSE IF authored = "1" /\ serial = "0" THEN "held" ELSE "fault"
      BY <1>4, <3>1, <3>2, Zenon DEF Meet
    <3> QED
      BY <3>3, Zenon
  <2> QED
    BY <2>1, <2>2, Zenon
<1>18. Taking'
  <2> SUFFICES ASSUME NEW p \in Queues
               PROVE  /\ Credit(p)' \in {"x", Bit(popped'[p].took)}
                      /\ popped'[p].path \in {"x", Bit(popped'[p].took)}
    BY Zenon DEF Taking
  <2>1. CASE p # q \/ kind # "pop"
    <3>1. Credit(p)' = Credit(p)
      BY <2>1, QueueCredit, Zenon
    <3>2. popped'[p] = popped[p]
      BY <1>0, <1>1, <2>1, Zenon DEF Typed
    <3> QED
      BY <1>0, <3>1, <3>2, Zenon DEF Taking
  <2>2. CASE p = q /\ kind = "pop"
    <3>1. Credit(q)' = Or(Credit(q), And(point.raw, authored))
      BY <2>2, QueueCredit, Zenon
    <3>2. /\ point.raw \in Pin /\ And(point.raw, authored) \in Pin
          /\ (point.raw = "1" => point.live) /\ (point.raw = "0" => ~point.live)
      BY <1>0, Connectives, Zenon DEF Typed, PointType, IInv, Positioned, Placed, PointOK
    <3>3. CASE point.live
      <4>1. popped'[q].path = Or(popped[q].path, authored) /\ popped'[q].took = (popped[q].took \/ a = "1")
        BY <1>0, <1>1, <2>2, <3>3 DEF Typed
      <4>2. And(point.raw, authored) \in {"x", a}
        BY <1>7, <3>2, <3>3, Zenon DEF And, Pin, Bits
      <4>3. Or(Credit(q), And(point.raw, authored)) \in {"x", Bit(popped[q].took \/ a = "1")}
        <5>1. PICK path \in Pin : path = And(point.raw, authored)
          BY <3>2, Zenon
        <5>2. path \in {"x", a}
          BY <4>2, <5>1, Zenon
        <5>3. Or(Credit(q), path) \in {"x", Bit(popped[q].took \/ a = "1")}
          BY <1>5, <1>7, <5>2, TakenTells
        <5> QED
          BY <5>1, <5>3, Zenon
      <4>4. Or(popped[q].path, authored) \in {"x", Bit(popped[q].took \/ a = "1")}
        BY <1>5, <1>7, TakenTells
      <4> QED
        BY <2>2, <3>1, <4>1, <4>3, <4>4, Zenon
    <3>4. CASE ~point.live
      <4>1. popped' = popped
        BY <1>1, <3>4, Zenon
      <4>2. And(point.raw, authored) \in {"x", "0"}
        BY <3>2, <3>4, Zenon DEF And, Pin
      <4>3. Or(Credit(q), And(point.raw, authored)) \in {"x", Bit(popped[q].took)}
        BY <1>5, <4>2, Zenon DEF Or, Bit
      <4> QED
        BY <1>5, <2>2, <3>1, <4>1, <4>3, Zenon
    <3> QED
      BY <3>3, <3>4, Zenon
  <2> QED
    BY <2>1, <2>2, Zenon
<1> QED
  BY <1>13, <1>16, <1>17, <1>18, Zenon DEF DInv

\* Past a guard that does not hold nothing is asked for.
LEMMA GuardDemand ==
    ASSUME IInv, Traces, DInv, NEW raw \in Pin, Guard(raw)
    PROVE  DInv'
<1>1. SameFrames
  BY EffectKeepsFrames, Zenon DEF Guard, IInv
<1>2. /\ point' = [point EXCEPT !.kept = And(@, Bypass(FALSE, raw))]
      /\ accesses' = RetainControl(Bypass(FALSE, raw), accesses)
      /\ demand' = [c \in Pin |-> demand[Boundary(raw, c)]] /\ Supply(point.selected, raw)
      /\ popped' = popped
  BY Zenon DEF Guard
<1>3. SamePlace
  BY <1>1, <1>2, Zenon DEF SamePlace, IInv, Typed, PointType
<1>4. \A q : Credit(q)' = Credit(q)
  BY <1>2, BypassTypes, RetainCredit, Zenon DEF IInv, Typed
<1>5. mode' = "run" => mode = "run"
  BY Zenon DEF Guard, Meet
<1> QED
  BY <1>2, <1>3, <1>4, <1>5, BoundaryDemand, Zenon

\* Past a required value that is not there nothing is asked for.
LEMMA RequireDemand ==
    ASSUME IInv, Traces, DInv, NEW available \in Pin, NEW authored \in Pin,
           Require(available, authored)
    PROVE  DInv'
<1>0. PICK raw : raw = ValueRequire(And(point.raw, authored), available)
  BY Zenon
<1>1. raw \in Pin
  BY <1>0, Connectives DEF ValueRequire, IInv, Typed, PointType, Pin
<1>2. SameFrames
  BY Zenon DEF Require, SameFrames, SameFrame, IInv, Typed
<1>3. /\ point' = [point EXCEPT !.kept = And(@, Bypass(FALSE, raw))]
      /\ accesses' = RetainControl(Bypass(FALSE, raw), accesses)
      /\ demand' = [c \in Pin |-> demand[Boundary(raw, c)]] /\ Supply(point.selected, raw)
      /\ popped' = popped
  BY <1>0, Zenon DEF Require
<1>4. SamePlace
  BY <1>2, <1>3, Zenon DEF SamePlace, IInv, Typed, PointType
<1>5. \A q : Credit(q)' = Credit(q)
  BY <1>1, <1>3, BypassTypes, RetainCredit, Zenon DEF IInv, Typed
<1>6. mode' = "run" => mode = "run"
  BY Zenon DEF Require, Meet
<1> QED
  BY <1>1, <1>3, <1>4, <1>5, <1>6, BoundaryDemand

\* The result of an earlier memory request is no boundary of the demand.
LEMMA MemoryResultDemand ==
    ASSUME IInv, Traces, DInv, NEW m, NEW alive \in Pin, NEW authored \in Pin,
           MemoryResult(m, alive, authored)
    PROVE  DInv'
<1>0. PICK raw : raw = Select(And(point.raw, authored), alive, "1")
  BY Zenon
<1>1. raw \in Pin
  BY <1>0, Connectives DEF IInv, Typed, PointType, Pin
<1>2. SameFrames
  BY EffectKeepsFrames, Zenon DEF MemoryResult, IInv
<1>3. /\ point' = [point EXCEPT !.kept = And(@, Bypass(FALSE, raw))]
      /\ accesses' = RetainControl(Bypass(FALSE, raw), accesses)
      /\ UNCHANGED <<demand, popped, supply>>
  BY <1>0, Zenon DEF MemoryResult
<1>4. SamePlace
  BY <1>2, <1>3, Zenon DEF SamePlace, IInv, Typed, PointType
<1>5. \A q : Credit(q)' = Credit(q)
  BY <1>1, <1>3, BypassTypes, RetainCredit, Zenon DEF IInv, Typed
<1>6. mode' = "run" => mode = "run"
  BY Zenon DEF MemoryResult, Meet
<1> QED
  BY <1>3, <1>4, <1>5, <1>6, PlainDemand, Zenon

\* A memory access asks for no queue.
LEMMA MemoryAccessDemand ==
    ASSUME IInv, Traces, DInv, NEW m \in Memories, NEW kind \in {"read", "write"},
           NEW authored \in Pin, MemoryAccess(m, kind, authored)
    PROVE  DInv'
<1>1. SameFrames /\ point' = point /\ mode' = mode /\ UNCHANGED <<demand, popped, supply>>
  BY EffectKeepsFrames, Zenon DEF MemoryAccess, IInv, meaning
<1>2. PICK new : new = AccessAt(m, kind, authored, point.kept)
  BY Zenon
<1>3. accesses' = accesses \union {new} /\ new.kind # "pop"
  BY <1>2, Zenon DEF MemoryAccess, AccessAt
<1>4. \A q : Credit(q)' = Credit(q)
  BY <1>3, CreditKept, Zenon DEF Alike
<1>5. SamePlace
  BY <1>1, Zenon DEF SamePlace
<1> QED
  BY <1>1, <1>4, <1>5, PlainDemand, Zenon

\* A write, an effect, or a step of something else.
LEMMA OtherDemand ==
    ASSUME IInv, Traces, DInv, SameFrames, UNCHANGED <<point, demand, accesses, mode, popped, supply>>
    PROVE  DInv'
<1>1. SamePlace
  BY Zenon DEF SamePlace
<1>2. \A q : Credit(q)' = Credit(q)
  BY Zenon DEF Credit
<1> QED
  BY <1>1, <1>2, PlainDemand, Zenon

\* The start of a selection keeps what the demand tells.
LEMMA SelectionDemand ==
    ASSUME IInv, Traces, DInv, NEW v \in Pin \union Owners, SelectionBranch(v)
    PROVE  DInv'
<1>0. Typed
  BY Zenon DEF IInv
<1>1. PICK n \in Nat : \E f : Pushed(n, f) /\ f.selection
  BY <1>0, SelectionShape, Zenon
<1>2. PICK f : Pushed(n, f) /\ f.selection
  BY <1>1, Zenon
<1>3. demand' = Identity /\ supply' = supply /\ popped' = popped
      /\ accesses' = RetainControl(Bypass(TRUE, Value(v)), accesses)
  BY Zenon DEF SelectionBranch
<1>4. Topped' /\ Supplied' /\ Settled'
  BY <1>2, <1>3, DemandPushed, Zenon DEF DInv
<1>5. \A q : Credit(q)' = Credit(q)
  BY <1>0, <1>3, ValueTypes, BypassTypes, RetainCredit, Zenon DEF Typed
<1>6. Taking'
  BY <1>3, <1>5, TakingKept, Zenon DEF DInv
<1>7. mode' = "run" => mode = "run"
  BY Zenon DEF SelectionBranch, Meet
<1> QED
  BY <1>3, <1>4, <1>6, <1>7, Zenon DEF DInv

\* The start of a pure branch keeps what the demand tells.
LEMMA PureDemand ==
    ASSUME IInv, Traces, DInv, NEW v \in Pin \union Owners, PureBranch(v)
    PROVE  DInv'
<1>0. Typed
  BY Zenon DEF IInv
<1>1. PICK n \in Nat : \E f : Pushed(n, f) /\ ~f.selection
  BY <1>0, PureShape, Zenon
<1>2. PICK f : Pushed(n, f) /\ ~f.selection
  BY <1>1, Zenon
<1>3. UNCHANGED <<demand, supply, popped, accesses, mode>>
  BY Zenon DEF PureBranch, meaning
<1>4. Topped' /\ Supplied' /\ Settled'
  BY <1>2, <1>3, DemandPushed, Zenon DEF DInv
<1>5. Taking'
  BY <1>3, TakingKept DEF DInv, Credit
<1> QED
  BY <1>3, <1>4, <1>5, Zenon DEF DInv

\* The second arm keeps what the demand tells.
LEMMA ElseDemand ==
    ASSUME IInv, Traces, DInv, Else
    PROVE  DInv'
<1>1. PICK n \in Nat : \E b, g : Turned(n, b, g)
  BY ElseShape, Zenon DEF IInv
<1>2. PICK b, g : Turned(n, b, g)
  BY <1>1, Zenon
<1>3. UNCHANGED <<supply, popped, accesses, mode>>
  BY <1>2, Zenon DEF Turned
<1>4. Topped' /\ Supplied' /\ Settled'
  BY <1>2, DemandTurned DEF DInv
<1>5. Taking'
  BY <1>3, TakingKept, Zenon DEF DInv, Credit
<1> QED
  BY <1>3, <1>4, <1>5 DEF DInv

\* The end of a branch keeps what the demand tells.
LEMMA EndDemand ==
    ASSUME IInv, Traces, DInv, EndBranch
    PROVE  DInv'
<1>1. PICK n \in Nat : \E b : Popped(n, b)
  BY EndShape, Zenon DEF IInv
<1>2. PICK b : Popped(n, b)
  BY <1>1, Zenon
<1>3. UNCHANGED <<supply, popped, mode>>
      /\ accesses' = {[a EXCEPT !.arms = [i \in DOMAIN @ \cap 1..n |-> @[i]]] : a \in accesses}
  BY <1>2, Zenon DEF Popped
<1>4. Topped' /\ Supplied' /\ Settled'
  BY <1>2, DemandPopped DEF DInv
<1>5. \A q : Credit(q)' = Credit(q)
  <2> DEFINE f(a) == [a EXCEPT !.arms = [i \in DOMAIN @ \cap 1..n |-> @[i]]]
  <2>1. \A a \in accesses : Alike(a, f(a))
    BY Zenon DEF IInv, Typed, AccessType, Alike
  <2>2. accesses' = {f(a) : a \in accesses}
    BY <1>3, Zenon
  <2> HIDE DEF f
  <2> QED
    BY <2>1, <2>2, CreditKept, Zenon
<1>6. Taking'
  BY <1>3, <1>5, TakingKept, Zenon DEF DInv
<1> QED
  BY <1>3, <1>4, <1>6, Zenon DEF DInv

-----------------------------------------------------------------------------
(* The whole rule.                                                         *)

\* The inductive invariant of the accesses and of the demand.
RuleInv == IInv /\ Traces /\ AInv /\ DInv

\* The invariant holds of the empty rule.
LEMMA InitRule == Init => RuleInv
<1> SUFFICES ASSUME Init PROVE RuleInv
  BY Zenon
<1>1. IInv
  BY InitInv, Zenon
<1>2. /\ branches = <<>> /\ Len(branches) = 0 /\ point = Root /\ accesses = {} /\ mode = "run"
      /\ demand = Identity /\ supply = "open" /\ popped = [q \in Queues |-> [path |-> "0", took |-> FALSE]]
  BY Zenon DEF Init, Identity
<1>3. ~Pure(0) /\ Level(0) = Root /\ Region(0) = Identity
  BY <1>2 DEF Pure, Level, Region
<1>4. Traces
  BY <1>2, <1>3 DEF Traces, Traced, Root
<1>5. AInv
  BY <1>2 DEF AInv, Passed, Stopped, Single, Root
<1>6. Topped /\ Settled
  BY <1>2, <1>3 DEF Topped, Settled
<1>7. Supplied
  BY <1>2, <1>3, IdentityTells DEF Supplied
<1>8. Taking
  BY <1>2, Zenon DEF Taking, Credit, Bit
<1> QED
  BY <1>1, <1>2, <1>4, <1>5, <1>6, <1>7, <1>8, Zenon DEF RuleInv, DInv

\* Every statement keeps the invariant.
LEMMA NextRule == RuleInv /\ [Next]_vars => RuleInv'
<1> SUFFICES ASSUME RuleInv, [Next]_vars PROVE RuleInv'
  BY Zenon
<1>0. IInv /\ Traces /\ AInv /\ DInv /\ IInv'
  BY NextInv, Zenon DEF RuleInv
<1> SUFFICES Traces' /\ AInv' /\ DInv'
  BY <1>0, Zenon DEF RuleInv
<1>1. Authored \subseteq Pin
  BY ConstantsAssumption, Zenon
<1>2. ASSUME NEW raw \in Pin, Guard(raw) PROVE Traces' /\ AInv' /\ DInv'
  BY <1>0, <1>2, GuardKeeps, GuardDemand, Zenon
<1>3. ASSUME NEW available \in Pin, NEW authored \in Authored, Require(available, authored)
      PROVE  Traces' /\ AInv' /\ DInv'
  BY <1>0, <1>1, <1>3, RequireKeeps, RequireDemand
<1>4. ASSUME NEW v \in Pin \union Owners, SelectionBranch(v) PROVE Traces' /\ AInv' /\ DInv'
  BY <1>0, <1>4, SelectionKeeps, SelectionDemand, Zenon
<1>5. ASSUME NEW v \in Pin \union Owners, PureBranch(v) PROVE Traces' /\ AInv' /\ DInv'
  BY <1>0, <1>5, PureKeeps, PureDemand, Zenon
<1>6. CASE Effect
  <2>1. SameFrames /\ UNCHANGED <<pins, prefix, point, accesses, mode, demand, popped, supply>>
    BY <1>0, <1>6, EffectKeepsFrames DEF Effect, IInv, meaning
  <2> QED
    BY <1>0, <2>1, OtherKeeps, OtherDemand
<1>7. ASSUME NEW o \in Owners, NEW v \in Pin \union Owners, NEW authored \in Authored,
             Write(o, v, authored)
      PROVE  Traces' /\ AInv' /\ DInv'
  <2>1. UNCHANGED <<pins, prefix, point, branches, accesses, mode, demand, popped, supply>>
    BY <1>7, Zenon DEF Write
  <2>2. SameFrames
    BY <1>0, <2>1, Zenon DEF SameFrames, SameFrame, IInv, Typed
  <2> QED
    BY <1>0, <2>1, <2>2, OtherKeeps, OtherDemand, Zenon
<1>8. ASSUME NEW m \in Memories, NEW authored \in Authored, NEW kind \in {"read", "write"},
             MemoryAccess(m, kind, authored)
      PROVE  Traces' /\ AInv' /\ DInv'
  BY <1>0, <1>1, <1>8, MemoryAccessKeeps, MemoryAccessDemand, Zenon
<1>9. ASSUME NEW m \in Memories, NEW authored \in Authored, NEW alive \in Pin,
             MemoryResult(m, alive, authored)
      PROVE  Traces' /\ AInv' /\ DInv'
  BY <1>0, <1>1, <1>9, MemoryResultKeeps, MemoryResultDemand
<1>10. ASSUME NEW q \in Queues, NEW kind \in {"pop", "push", "peek"}, NEW authored \in Authored,
              QueueAccess(q, kind, authored)
       PROVE  Traces' /\ AInv' /\ DInv'
  BY <1>0, <1>1, <1>10, QueueAccessKeeps, QueueDemand, Zenon
<1>11. CASE Else
  BY <1>0, <1>11, ElseKeeps, ElseDemand, Zenon
<1>12. CASE EndBranch
  BY <1>0, <1>12, EndKeeps, EndDemand, Zenon
<1>13. CASE UNCHANGED vars
  <2>1. UNCHANGED <<pins, prefix, point, branches, accesses, mode, demand, popped, supply>>
    BY <1>13, Zenon DEF vars, lowering, meaning
  <2>2. SameFrames
    BY <1>0, <2>1 DEF SameFrames, SameFrame, IInv, Typed
  <2> QED
    BY <1>0, <2>1, <2>2, OtherKeeps, OtherDemand, Zenon
<1>14. CASE ControlStatement
  BY <1>2, <1>3, <1>4, <1>5, <1>6, <1>14, Zenon DEF ControlStatement
<1>15. CASE MemoryStatement
  BY <1>8, <1>9, <1>15, Zenon DEF MemoryStatement
<1> QED
  BY <1>7, <1>10, <1>11, <1>12, <1>13, <1>14, <1>15 DEF Next, WriteStatement, QueueStatement

\* The invariant of the accesses and of the demand holds of every rule.
THEOREM RuleInvariant == Spec => []RuleInv
<1>1. Init => RuleInv
  BY InitRule, Zenon
<1>2. RuleInv /\ [Next]_vars => RuleInv'
  BY NextRule, Zenon
<1> QED
  BY <1>1, <1>2, PTL DEF Spec

(***************************************************************************)
(* For every rule: a queue is pushed or popped and a memory written        *)
(* exactly where the source does so, although each access retains only     *)
(* the controls of the arms it does not exclude; an asynchronous read is   *)
(* issued exactly where the source reaches it.                             *)
(***************************************************************************)
THEOREM ProposalsCorrect == Spec => []ProposalsExact
<1>1. RuleInv => ProposalsExact
  <2> SUFFICES ASSUME RuleInv, NEW a \in accesses
               PROVE  ProposalPath(a) = IF (IF a.kind = "read" THEN a.began ELSE mode = "run")
                                        THEN a.ran ELSE "0"
    BY Zenon DEF ProposalsExact
  <2>1. /\ a \in AccessType /\ Sound(a) /\ prefix = Bit(mode = "run")
        /\ a.raw \in Pin /\ a.retained \in Bits
    BY Zenon DEF RuleInv, IInv, AInv, Typed, AdmissionExact, AccessType
  <2>2. CASE a.kind = "read"
    BY <2>1, <2>2, Zenon DEF Sound, Proposed, ProposalPath
  <2>3. CASE a.kind # "read" /\ mode = "run"
    <3>1. a.raw = a.ran /\ a.retained = "1" /\ prefix = "1"
      BY <2>1, <2>3, Zenon DEF Sound, Proposed, Bit
    <3> QED
      BY <2>1, <2>3, <3>1, Zenon DEF ProposalPath, And, Pin
  <2>4. CASE a.kind # "read" /\ mode # "run"
    <3>1. prefix = "0" /\ (a.kind = "write" \/ a.retained = "0" \/ a.raw = "0")
      BY <2>1, <2>4, Zenon DEF Sound, Proposed, Bit
    <3> QED
      BY <2>4, <3>1, Zenon DEF ProposalPath, And
  <2> QED
    BY <2>2, <2>3, <2>4, Zenon
<1> QED
  BY <1>1, RuleInvariant, PTL

(***************************************************************************)
(* For every rule: what it pops has a head, what it pushes has room or a   *)
(* head that leaves in the same cycle, and each port gets at most one      *)
(* proposal.                                                               *)
(***************************************************************************)
THEOREM ResourcesCorrect == Spec => []ResourcesHeld
<1>1. RuleInv => ResourcesHeld
  <2> SUFFICES ASSUME RuleInv, NEW a \in accesses, a.kind \in {"pop", "push"}, ProposalPath(a) # "0"
               PROVE  /\ a.kind = "pop" /\ ProposalPath(a) = "1" => pins[a.resource].head = "1"
                      /\ a.kind = "push" /\ ProposalPath(a) = "1" /\ pins[a.resource].room # "1" =>
                           /\ pins[a.resource].downstream /\ pins[a.resource].head = "1"
                           /\ \/ pins[a.resource].other = "1"
                              \/ \E p \in accesses : /\ p.kind = "pop" /\ p.resource = a.resource
                                                     /\ ProposalPath(p) = "1"
                      /\ \A p \in accesses : p.resource = a.resource /\ p.kind = a.kind
                                             /\ ProposalPath(p) # "0" => p = a
    BY Zenon DEF ResourcesHeld
  <2>1. \A p \in accesses : Sound(p) /\ p.raw \in Pin
    BY Zenon DEF RuleInv, IInv, AInv, Typed, AccessType
  <2>2. mode = "run"
    BY <2>1, Zenon DEF Sound, Proposed, ProposalPath, And
  <2>3. \A p \in accesses : p.kind \in {"pop", "push"} => ProposalPath(p) = p.raw
    BY <2>1, <2>2, Zenon DEF Sound, ProposalPath, And, Pin
  <2>4. Single(accesses) /\ Held(a)
    BY <2>2, Zenon DEF RuleInv, AInv
  <2>5. \A p \in accesses : p.resource = a.resource /\ p.kind = a.kind
                            /\ ProposalPath(p) # "0" => p = a
    BY <2>3, <2>4, Zenon DEF Single
  <2>6. Credit(a.resource) = "1" =>
          \E p \in accesses : p.kind = "pop" /\ p.resource = a.resource /\ ProposalPath(p) = "1"
    BY <2>3, Zenon DEF Credit
  <2> QED
    BY <2>3, <2>4, <2>5, <2>6, Zenon DEF Held
<1> QED
  BY <1>1, RuleInvariant, PTL

(***************************************************************************)
(* For every rule: the knownness checks are waived only when a queue       *)
(* refuses the rule whatever the unknown inputs are, and never for a rule  *)
(* that fires.                                                             *)
(***************************************************************************)
THEOREM WaivedCorrect == Spec => []WaivedOnlyIfRefused
<1>1. RuleInv => WaivedOnlyIfRefused
  <2> SUFFICES ASSUME RuleInv, Complete
               PROVE  /\ MayExecute = "0" => supply = "refused" /\ mode # "run"
                      /\ demand["1"] = "1" => supply # "refused"
    BY Zenon DEF WaivedOnlyIfRefused
  <2>1. Len(branches) = 0 /\ point.live
    BY Zenon DEF RuleInv, IInv, Complete, Positioned, Placed, Follows
  <2>2. ~Pure(0) /\ Level(0) = point /\ Region(0) = demand /\ 0 \in 0..Len(branches)
    BY <2>1 DEF Pure, Level, Region
  <2>3. supply \in {"open", "free", "refused"} /\ Tells(demand, supply)
    <3>1. CASE supply = "open"
      BY <2>1, <2>2, <3>1, Zenon DEF RuleInv, DInv, Supplied
    <3>2. CASE supply # "open"
      <4>1. PICK m \in 0..Len(branches) :
              \/ Level(m).live /\ Tells(Region(m), supply)
              \/ m > 0 /\ ThenTaken(m) /\ Tells(branches[m].thenDemand, supply)
        BY <3>2, Zenon DEF RuleInv, DInv, Settled
      <4>2. m = 0
        BY <2>1
      <4> QED
        BY <2>2, <4>1, <4>2 DEF RuleInv, DInv
    <3> QED
      BY <3>1, <3>2, Zenon
  <2>4. "1" \in Pin /\ "1" \in Bits
    BY Zenon DEF Pin, Bits
  <2>5. demand["1"] \in {"x", Outcome(supply, "1")}
    BY <2>3, <2>4, Zenon DEF Tells
  <2> QED
    BY <2>3, <2>5, Zenon DEF RuleInv, DInv, MayExecute, Not, K0, Bit, Outcome
<1> QED
  BY <1>1, RuleInvariant, PTL
=============================================================================
