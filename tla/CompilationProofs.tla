------------------------- MODULE CompilationProofs --------------------------
(***************************************************************************)
(* Proofs about what the compiler relies on.  Module WriteGrants: the      *)
(* grant proof is sound, what it caches about a node holds of every        *)
(* valuation of the expressions, so the writes it separates never meet.    *)
(* Module ExecutionModel: the entries derived from a model are serial, for *)
(* any rows, queues and intervals.                                         *)
(***************************************************************************)
EXTENDS WriteGrants, Integers, SequenceTheorems, TLAPS

(***************************************************************************)
(* A valuation gives every node a value, and obeys the operators.          *)
(***************************************************************************)
Obeys(v, n) ==
    IF constant(n) # <<>> THEN v[n] = {constant(n)[1]}
    ELSE nodes[n].kind # "raw" => v[n] = Eval(nodes[n], v)

Consistent(v) == \A n \in DOMAIN nodes : Obeys(v, n)

Codes == {<<>>} \cup {<<k>> : k \in Nat}

Holds(f, v) ==
    /\ f.holds \in BOOLEAN
    /\ f.code \in Codes
    /\ IF f.code = <<>> THEN v[f.node] = Known(f.holds)
       ELSE Equal(v[f.node], {f.code[1]}) = Bit(f.holds)

Holding(r, v) == r.possible = TRUE /\ \A f \in r.facts : Holds(f, v)

Collisions == {<<>>} \cup {<<a, b>> : a, b \in DOMAIN nodes}

\* The two addresses of a collision may be the same.
Meets(c, v) == c = <<>> \/ v[c[1]] \cap v[c[2]] # {}

-----------------------------------------------------------------------------
\* Only a known bit reads as known.
LEMMA ReadKnown ==
    ASSUME NEW w, NEW p \in BOOLEAN
    PROVE  Read(w) = Bit(p) <=> w = Known(p)
BY DEF Read, Bit, Known

\* The three values of a bit are different.
LEMMA KnownDiffers == {1} # {0} /\ {0, 1} # {0} /\ {0, 1} # {1}
<1>1. 1 \in {1} /\ 1 \notin {0} /\ 0 \in {0, 1} /\ 1 \in {0, 1} /\ 0 \notin {1}
    OBVIOUS
<1>2. QED
    BY <1>1, Zenon

\* Only a known bit makes a known value.
LEMMA VectorKnown ==
    ASSUME NEW b \in Pin, NEW p \in BOOLEAN
    PROVE  Vector(b) = Known(p) <=> b = Bit(p)
BY KnownDiffers DEF Vector, Known, Bit, Pin

\* A comparison is known to fail when no number is in both values.
LEMMA EqualPin ==
    ASSUME NEW w, NEW u
    PROVE  /\ Equal(w, u) \in Pin
           /\ Equal(w, u) = "0" <=> w \cap u = {}
BY DEF Equal, Pin

\* Two facts that hold of one valuation do not contradict each other.
LEMMA HoldNoContradiction ==
    ASSUME NEW v, NEW f, NEW g, Holds(f, v), Holds(g, v)
    PROVE  ~contradictory(f, g)
<1>1. SUFFICES ASSUME contradictory(f, g) PROVE FALSE
    OBVIOUS
<1>2. f.node = g.node /\ f.holds \in BOOLEAN /\ g.holds \in BOOLEAN
    BY <1>1 DEF contradictory, Holds
<1>3. CASE f.code = <<>> \/ g.code = <<>>
    <2>1. f.code = <<>> /\ g.code = <<>> /\ f.holds # g.holds
        BY <1>1, <1>3 DEF contradictory
    <2>2. Known(f.holds) = Known(g.holds)
        BY <2>1, <1>2 DEF Holds
    <2>3. QED
        BY <2>1, <2>2, <1>2 DEF Known
<1>4. CASE f.code # <<>> /\ g.code # <<>> /\ f.code = g.code
    <2>1. f.holds # g.holds
        BY <1>1, <1>4 DEF contradictory
    <2>2. Bit(f.holds) = Bit(g.holds)
        BY <1>4, <1>2 DEF Holds
    <2>3. QED
        BY <2>1, <2>2, <1>2 DEF Bit
<1>5. CASE f.code # <<>> /\ g.code # <<>> /\ f.code # g.code
    <2>1. f.holds /\ g.holds
        BY <1>1, <1>5 DEF contradictory
    <2>2. PICK a \in Nat : f.code = <<a>>
        BY <1>5 DEF Holds, Codes
    <2>3. PICK b \in Nat : g.code = <<b>>
        BY <1>5 DEF Holds, Codes
    <2>4. Equal(v[f.node], {a}) = "1" /\ Equal(v[f.node], {b}) = "1"
        BY <2>1, <2>2, <2>3, <1>2, <1>5 DEF Holds, Bit
    <2>5. v[f.node] = {a} /\ v[f.node] = {b}
        BY <2>4 DEF Equal
    <2>6. a = b
        BY <2>5
    <2>7. QED
        BY <2>6, <2>2, <2>3, <1>5
<1>6. QED
    BY <1>3, <1>4, <1>5

\* A fact that holds is appended without a contradiction.
LEMMA AppendHolds ==
    ASSUME NEW v, NEW r, NEW f, Holding(r, v), Holds(f, v)
    PROVE  Holding(append(r, f), v)
<1>1. \A g \in r.facts : ~contradictory(g, f)
    BY HoldNoContradiction DEF Holding
<1>2. append(r, f) = Facts(r.facts \cup {f})
    BY <1>1 DEF append, Holding
<1>3. QED
    BY <1>2 DEF Holding, Facts

\* Results that hold of one valuation hold together.
LEMMA ConjunctionHolds ==
    ASSUME NEW v, NEW rs, \A r \in rs : Holding(r, v)
    PROVE  Holding(conjunction(rs), v)
<1>1. \A f \in AllFacts(rs) : Holds(f, v)
    BY DEF AllFacts, Holding
<1>2. \A f, g \in AllFacts(rs) : ~contradictory(f, g)
    BY <1>1, HoldNoContradiction
<1>3. \A r \in rs : r.possible
    BY DEF Holding
<1>4. conjunction(rs) = Facts(AllFacts(rs))
    BY <1>2, <1>3 DEF conjunction
<1>5. QED
    BY <1>1, <1>4 DEF Holding, Facts

\* What the open alternatives share holds when one of them does.
LEMMA AlternativesHold ==
    ASSUME NEW v, NEW rs, NEW r \in rs, Holding(r, v)
    PROVE  Holding(alternatives(rs), v)
<1> DEFINE open == {s \in rs : s.possible}
<1>1. r \in open
    BY DEF Holding
<1>2. alternatives(rs) = Facts({f \in AllFacts(open) : \A s \in open : f \in s.facts})
    BY <1>1 DEF alternatives
<1>3. QED
    BY <1>1, <1>2 DEF Holding, Facts

-----------------------------------------------------------------------------
\* What the assumption on designs says of the nodes.
LEMMA NodesTyped ==
    ASSUME design \in Designs
    PROVE  /\ Len(nodes) \in Nat /\ DOMAIN nodes = 1..Len(nodes)
           /\ \A n \in DOMAIN nodes :
                IsNode(nodes, n) /\ nodes[n].kind \in {"raw", "eq", "ne"} \cup Logic
<1> DEFINE Views == [kind : {"raw", "eq", "ne"} \cup Logic, args : Seq(Nat),
                     width : Nat \ {0}, code : Seq(Nat)]
<1>1. nodes \in Seq(Views) /\ \A n \in DOMAIN nodes : IsNode(nodes, n)
    BY DesignsAssumption, Zenon DEF WellFormed, nodes
<1>2. \A w \in Views : w.kind \in {"raw", "eq", "ne"} \cup Logic
    OBVIOUS
<1> HIDE DEF Views
<1>3. Len(nodes) \in Nat /\ DOMAIN nodes = 1..Len(nodes) /\ \A n \in DOMAIN nodes : nodes[n] \in Views
    BY <1>1
<1>4. QED
    BY <1>1, <1>2, <1>3

\* What IsNode says of the constants.
LEMMA ConstantsTyped ==
    ASSUME design \in Designs, NEW n \in DOMAIN nodes
    PROVE  /\ constant(n) \in Codes
           /\ nodes[n].width = 1 /\ constant(n) # <<>> => constant(n) \in {<<0>>, <<1>>}
<1>1. WellFormed(design)
    BY DesignsAssumption
<1>2. IsNode(nodes, n)
    BY <1>1 DEF WellFormed, nodes
<1>3. CASE constant(n) = <<>>
    BY <1>3 DEF Codes
<1>4. CASE constant(n) # <<>>
    <2> DEFINE k == constant(n)[1]
    <2>1. constant(n) = <<k>> /\ k \in 0..(2^(nodes[n].width) - 1)
        BY <1>2, <1>4 DEF IsNode, constant
    <2>2. k \in Nat
        BY <2>1
    <2>3. nodes[n].width = 1 => k \in {0, 1}
        <3>1. ASSUME nodes[n].width = 1 PROVE k \in 0..1
            <4>1. 2^1 = 2
                OBVIOUS
            <4>2. QED
                BY <2>1, <3>1, <4>1
        <3>2. QED
            BY <3>1
    <2>4. QED
        BY <2>1, <2>2, <2>3 DEF Codes
<1>5. QED
    BY <1>3, <1>4

\* Nodes the proof takes for one address have one value.
LEMMA SameAddressValue ==
    ASSUME NEW v, Consistent(v), NEW n \in DOMAIN nodes, NEW m \in DOMAIN nodes, sameAddress(n, m)
    PROVE  v[n] = v[m]
<1>1. CASE n = m
    BY <1>1
<1>2. CASE constant(n) # <<>> /\ constant(n) = constant(m)
    BY <1>2, Zenon DEF Consistent, Obeys
<1>3. QED
    BY <1>1, <1>2 DEF sameAddress

\* A comparison known to fail rules the collision out; against a constant it is a fact.
LEMMA CompareSound ==
    ASSUME design \in Designs, NEW v, Consistent(v), NEW c \in Collisions, Meets(c, v),
           NEW l \in DOMAIN nodes, NEW r \in DOMAIN nodes, NEW equal \in BOOLEAN,
           Equal(v[l], v[r]) = Bit(equal)
    PROVE  Holding(requiredCompare(c, l, r, equal), v)
<1> DEFINE start == IF collisionComparison(l, r, c) /\ ~equal THEN Impossible ELSE Facts({})
<1>1. ~(collisionComparison(l, r, c) /\ ~equal)
    <2>1. SUFFICES ASSUME collisionComparison(l, r, c), ~equal PROVE FALSE
        OBVIOUS
    <2>2. c # <<>> /\ c[1] \in DOMAIN nodes /\ c[2] \in DOMAIN nodes
        <3>1. c # <<>>
            BY <2>1 DEF collisionComparison
        <3>2. PICK a \in DOMAIN nodes, b \in DOMAIN nodes : c = <<a, b>>
            BY <3>1 DEF Collisions
        <3>3. QED
            BY <3>1, <3>2
    <2>3. v[l] \cap v[r] = {}
        BY <2>1, EqualPin DEF Bit
    <2>4. \/ v[l] = v[c[1]] /\ v[r] = v[c[2]]
          \/ v[l] = v[c[2]] /\ v[r] = v[c[1]]
        <3>1. CASE sameAddress(l, c[1]) /\ sameAddress(r, c[2])
            BY <3>1, <2>2, SameAddressValue
        <3>2. CASE sameAddress(l, c[2]) /\ sameAddress(r, c[1])
            BY <3>2, <2>2, SameAddressValue
        <3>3. QED
            BY <3>1, <3>2, <2>1, <2>2, SameAddressValue DEF collisionComparison
    <2>5. v[c[1]] \cap v[c[2]] = {}
        BY <2>3, <2>4
    <2>6. QED
        BY <2>2, <2>5 DEF Meets
<1>2. Holding(start, v)
    BY <1>1 DEF Holding, Facts
<1>3. constant(l) \in Codes /\ constant(r) \in Codes
    BY ConstantsTyped
<1>4. /\ constant(l) # <<>> => v[l] = {constant(l)[1]}
      /\ constant(r) # <<>> => v[r] = {constant(r)[1]}
    BY DEF Consistent, Obeys
<1>5. CASE constant(l) # <<>> /\ constant(r) # <<>>
    <2>1. PICK a \in Nat, b \in Nat : constant(l) = <<a>> /\ constant(r) = <<b>>
        BY <1>3, <1>5 DEF Codes
    <2>2. Equal({a}, {b}) = Bit(equal)
        BY <1>4, <1>5, <2>1
    <2>3. (a = b) = equal
        <3>1. CASE a = b
            <4>1. Equal({a}, {b}) = "1"
                BY <3>1 DEF Equal
            <4>2. QED
                BY <4>1, <2>2, <3>1 DEF Bit
        <3>2. CASE a # b
            <4>1. Equal({a}, {b}) = "0"
                BY <3>2 DEF Equal
            <4>2. QED
                BY <4>1, <2>2, <3>2 DEF Bit
        <3>3. QED
            BY <3>1, <3>2
    <2>4. (constant(l) = constant(r)) = equal
        BY <2>1, <2>3
    <2>5. requiredCompare(c, l, r, equal) = start
        BY <1>5, <2>4 DEF requiredCompare
    <2>6. QED
        BY <2>5, <1>2
<1>6. CASE constant(l) # <<>> /\ constant(r) = <<>>
    <2>1. Equal(v[r], {constant(l)[1]}) = Bit(equal)
        <3>1. \A x, y : Equal(x, y) = Equal(y, x)
            BY DEF Equal
        <3>2. QED
            BY <3>1, <1>4, <1>6, Zenon
    <2>2. Holds(Fact(r, equal, constant(l)), v)
        BY <2>1, <1>3, <1>6 DEF Holds, Fact
    <2>3. requiredCompare(c, l, r, equal) = append(start, Fact(r, equal, constant(l)))
        BY <1>6 DEF requiredCompare
    <2>4. QED
        BY <2>2, <2>3, <1>2, AppendHolds
<1>7. CASE constant(l) = <<>> /\ constant(r) # <<>>
    <2>1. Equal(v[l], {constant(r)[1]}) = Bit(equal)
        BY <1>4, <1>7, Zenon
    <2>2. Holds(Fact(l, equal, constant(r)), v)
        BY <2>1, <1>3, <1>7 DEF Holds, Fact
    <2>3. requiredCompare(c, l, r, equal) = append(start, Fact(l, equal, constant(r)))
        BY <1>7 DEF requiredCompare
    <2>4. QED
        BY <2>2, <2>3, <1>2, AppendHolds
<1>8. CASE constant(l) = <<>> /\ constant(r) = <<>>
    BY <1>8, <1>2 DEF requiredCompare
<1>9. QED
    BY <1>5, <1>6, <1>7, <1>8

\* A one-bit constant is known to be what Truth says.
LEMMA TruthKnown ==
    ASSUME design \in Designs, NEW v, Consistent(v), NEW n \in DOMAIN nodes,
           nodes[n].width = 1, constant(n) # <<>>, NEW p \in BOOLEAN
    PROVE  v[n] = Known(p) <=> Truth(n) = p
<1>1. v[n] = {constant(n)[1]}
    BY DEF Consistent, Obeys
<1>2. constant(n) \in {<<0>>, <<1>>}
    BY ConstantsTyped
<1>3. CASE constant(n) = <<0>>
    <2>1. v[n] = {0} /\ Truth(n) = FALSE
        BY <1>1, <1>3 DEF Truth
    <2>2. QED
        BY <2>1, KnownDiffers, Zenon DEF Known
<1>4. CASE constant(n) = <<1>>
    <2>1. v[n] = {1} /\ Truth(n) = TRUE
        BY <1>1, <1>4 DEF Truth
    <2>2. QED
        BY <2>1, KnownDiffers, Zenon DEF Known
<1>5. QED
    BY <1>2, <1>3, <1>4

\* What is cached of the operand m under the collision c holds of v.
OperandHolds(c, m, v) ==
    \A q \in BOOLEAN : v[m] = Known(q) => Holding(Operand(c, m, q), v)

\* A known result comes from the selected arm, or from both when the guard is unknown.
LEMMA SelectSound ==
    ASSUME design \in Designs, NEW v, Consistent(v), NEW c,
           NEW guard \in DOMAIN nodes, NEW yes \in DOMAIN nodes, NEW no \in DOMAIN nodes,
           nodes[yes].width = 1, nodes[no].width = 1, NEW p \in BOOLEAN,
           OperandHolds(c, guard, v), OperandHolds(c, yes, v), OperandHolds(c, no, v),
           Select(Read(v[guard]), Read(v[yes]), Read(v[no])) = Bit(p)
    PROVE  Holding(requiredSelect(c, guard, yes, no, p), v)
<1> DEFINE Of(n, q) == Operand(c, n, q)
           fixed == {n \in {yes, no} : constant(n) # <<>>}
           T == v[guard] = Known(TRUE) /\ v[yes] = Known(p)
           F == v[guard] = Known(FALSE) /\ v[no] = Known(p)
           X == v[yes] = Known(p) /\ v[no] = Known(p)
           gT == Of(guard, TRUE)
           gF == Of(guard, FALSE)
           y == Of(yes, p)
           n0 == Of(no, p)
<1>1. T \/ F \/ X
    <2>1. \/ Read(v[guard]) = "1" /\ Read(v[yes]) = Bit(p)
          \/ Read(v[guard]) = "0" /\ Read(v[no]) = Bit(p)
          \/ Read(v[yes]) = Bit(p) /\ Read(v[no]) = Bit(p)
        BY DEF Select, Bit
    <2>2. Bit(TRUE) = "1" /\ Bit(FALSE) = "0"
        BY DEF Bit
    <2>3. QED
        BY <2>1, <2>2, ReadKnown, Zenon
<1>2. /\ v[guard] = Known(TRUE) => Holding(gT, v)
      /\ v[guard] = Known(FALSE) => Holding(gF, v)
      /\ v[yes] = Known(p) => Holding(y, v)
      /\ v[no] = Known(p) => Holding(n0, v)
    BY Zenon DEF OperandHolds
<1>3. /\ yes \in fixed => (v[yes] = Known(p) <=> Truth(yes) = p)
      /\ no \in fixed => (v[no] = Known(p) <=> Truth(no) = p)
    BY TruthKnown
<1>4. Truth(yes) \in BOOLEAN /\ Truth(no) \in BOOLEAN
    BY DEF Truth
<1>5. CASE yes = no
    <2>1. v[yes] = Known(p)
        BY <1>1, <1>5, Zenon
    <2>2. requiredSelect(c, guard, yes, no, p) = y
        BY <1>5 DEF requiredSelect
    <2>3. QED
        BY <2>1, <2>2, <1>2
<1>6. CASE yes # no /\ fixed = {yes, no} /\ Truth(yes) = Truth(no)
    <2>1. Truth(yes) = p
        BY <1>1, <1>3, <1>6, Zenon
    <2>2. requiredSelect(c, guard, yes, no, p) = Facts({})
        BY <1>6, <2>1, SMTT(30) DEF requiredSelect
    <2>3. QED
        BY <2>2 DEF Holding, Facts
<1>7. CASE yes # no /\ fixed = {yes, no} /\ Truth(yes) # Truth(no)
    <2>1. requiredSelect(c, guard, yes, no, p) = Of(guard, Truth(yes) = p)
        BY <1>7 DEF requiredSelect
    <2>2. v[guard] = Known(Truth(yes) = p)
        <3>1. CASE Truth(yes) = p
            BY <3>1, <1>1, <1>3, <1>4, <1>7, Zenon
        <3>2. CASE Truth(yes) # p
            BY <3>2, <1>1, <1>3, <1>4, <1>7, Zenon
        <3>3. QED
            BY <3>1, <3>2
    <2>3. QED
        BY <2>1, <2>2, Zenon DEF OperandHolds
<1>8. CASE yes # no /\ fixed = {no}
    <2>1. CASE p # Truth(no)
        <3>1. T
            BY <2>1, <1>1, <1>3, <1>8, Zenon
        <3>2. requiredSelect(c, guard, yes, no, p) = conjunction({gT, y})
            BY <2>1, <1>8 DEF requiredSelect
        <3>3. QED
            BY <3>1, <3>2, <1>2, ConjunctionHolds, Zenon
    <2>2. CASE p = Truth(no)
        <3>1. Holding(gF, v) \/ Holding(y, v)
            BY <1>1, <1>2, Zenon
        <3>2. requiredSelect(c, guard, yes, no, p) = alternatives({gF, y})
            BY <2>2, <1>8 DEF requiredSelect
        <3>3. QED
            BY <3>1, <3>2, AlternativesHold, Zenon
    <2>3. QED
        BY <2>1, <2>2
<1>9. CASE yes # no /\ fixed = {yes}
    <2>1. CASE p # Truth(yes)
        <3>1. F
            BY <2>1, <1>1, <1>3, <1>9, Zenon
        <3>2. requiredSelect(c, guard, yes, no, p) = conjunction({gF, n0})
            BY <2>1, <1>9 DEF requiredSelect
        <3>3. QED
            BY <3>1, <3>2, <1>2, ConjunctionHolds, Zenon
    <2>2. CASE p = Truth(yes)
        <3>1. Holding(gT, v) \/ Holding(n0, v)
            BY <1>1, <1>2, Zenon
        <3>2. requiredSelect(c, guard, yes, no, p) = alternatives({gT, n0})
            BY <2>2, <1>9 DEF requiredSelect
        <3>3. QED
            BY <3>1, <3>2, AlternativesHold, Zenon
    <2>3. QED
        BY <2>1, <2>2
<1>10. CASE yes # no /\ fixed = {}
    <2> DEFINE arms == {conjunction({gT, y}), conjunction({gF, n0}), conjunction({y, n0})}
    <2>1. requiredSelect(c, guard, yes, no, p) = alternatives(arms)
        BY <1>10 DEF requiredSelect
    <2>2. \E r \in arms : Holding(r, v)
        <3>1. CASE T
            <4>1. Holding(conjunction({gT, y}), v)
                BY <3>1, <1>2, ConjunctionHolds, Zenon
            <4>2. QED
                BY <4>1
        <3>2. CASE F
            <4>1. Holding(conjunction({gF, n0}), v)
                BY <3>2, <1>2, ConjunctionHolds, Zenon
            <4>2. QED
                BY <4>1
        <3>3. CASE X
            <4>1. Holding(conjunction({y, n0}), v)
                BY <3>3, <1>2, ConjunctionHolds
            <4>2. QED
                BY <4>1
        <3>4. QED
            BY <1>1, <3>1, <3>2, <3>3, Zenon
    <2>3. QED
        BY <2>1, <2>2, AlternativesHold, Zenon
<1>11. fixed \in {{}, {yes}, {no}, {yes, no}}
    OBVIOUS
<1>12. QED
    BY <1>5, <1>6, <1>7, <1>8, <1>9, <1>10, <1>11

\* One level of the recursion is sound when the levels below it are.
LEMMA RequiredSound ==
    ASSUME design \in Designs, NEW v, Consistent(v), NEW c \in Collisions, Meets(c, v),
           NEW n \in DOMAIN nodes, nodes[n].width = 1, NEW p \in BOOLEAN, v[n] = Known(p),
           \A m \in DOMAIN nodes : m < n /\ nodes[m].width = 1 => OperandHolds(c, m, v)
    PROVE  Holding(required(c, n, p), v)
<1> DEFINE d == nodes[n]
           Of(k, q) == Operand(c, d.args[k], q)
           start == IF constant(n) = <<>> THEN requiredLogic(c, d, p)
                    ELSE IF Truth(n) = p THEN Facts({}) ELSE Impossible
<1>1. IsNode(nodes, n) /\ n \in Nat /\ d.kind \in {"raw", "eq", "ne"} \cup Logic
    BY NodesTyped
<1>2. \A k \in DOMAIN d.args : d.args[k] \in DOMAIN nodes /\ d.args[k] < n
    <2>1. \A k \in DOMAIN d.args : d.args[k] \in 1..(n - 1)
        BY <1>1 DEF IsNode
    <2>2. 1..(n - 1) \subseteq DOMAIN nodes
        BY <1>1, NodesTyped
    <2>3. QED
        BY <2>1, <2>2, <1>1
<1>3. d.kind \in Logic => \A k \in DOMAIN d.args : OperandHolds(c, d.args[k], v)
    BY <1>1, <1>2 DEF IsNode
<1>4. DOMAIN d.args = 1..Arity(d.kind)
    BY <1>1 DEF IsNode
<1>5. Holds(Fact(n, p, <<>>), v)
    BY DEF Holds, Fact, Codes
<1>6. Holding(start, v)
    <2>1. CASE constant(n) # <<>>
        <3>1. Truth(n) = p
            BY <2>1, TruthKnown
        <3>2. QED
            BY <2>1, <3>1 DEF Holding, Facts
    <2>2. CASE constant(n) = <<>> /\ d.kind = "raw"
        BY <2>2 DEF Holding, Facts, requiredLogic
    <2>3. CASE constant(n) = <<>> /\ d.kind # "raw"
        <3>1. v[n] = Eval(d, v)
            BY <2>3 DEF Consistent, Obeys
        <3>2. CASE d.kind = "not"
            <4>1. 1 \in DOMAIN d.args
                BY <3>2, <1>4 DEF Arity
            <4>2. Vector(Not(Read(v[d.args[1]]))) = Known(p)
                BY <3>1, <3>2 DEF Eval
            <4>3. Not(Read(v[d.args[1]])) = Bit(p)
                BY <4>2, VectorKnown DEF Not, Pin
            <4>4. Read(v[d.args[1]]) = Bit(~p)
                BY <4>3 DEF Not, Bit
            <4>5. v[d.args[1]] = Known(~p)
                BY <4>4, ReadKnown, Zenon
            <4>6. Holding(Of(1, ~p), v)
                BY <4>1, <4>5, <1>3, <3>2, Zenon DEF OperandHolds, Logic
            <4>7. QED
                BY <4>6, <2>3, <3>2 DEF requiredLogic
        <3>3. CASE d.kind \in {"and", "or"}
            <4>1. 1 \in DOMAIN d.args /\ 2 \in DOMAIN d.args
                BY <3>3, <1>4 DEF Arity
            <4> DEFINE a == Read(v[d.args[1]])
                       b == Read(v[d.args[2]])
                       both == (d.kind = "and") = p
            <4>2. /\ d.kind = "and" => And(a, b) = Bit(p)
                  /\ d.kind = "or" => Or(a, b) = Bit(p)
                <5>1. And(a, b) \in Pin /\ Or(a, b) \in Pin
                    BY DEF And, Or, Pin
                <5>2. /\ d.kind = "and" => Vector(And(a, b)) = Known(p)
                      /\ d.kind = "or" => Vector(Or(a, b)) = Known(p)
                    BY <3>1, <3>3 DEF Eval
                <5>3. QED
                    BY <5>1, <5>2, VectorKnown
            <4>3. IF both THEN a = Bit(p) /\ b = Bit(p) ELSE a = Bit(p) \/ b = Bit(p)
                BY <4>2, <3>3 DEF And, Or, Bit
            <4>4. /\ a = Bit(p) => Holding(Of(1, p), v)
                  /\ b = Bit(p) => Holding(Of(2, p), v)
                BY <4>1, <1>3, <3>3, ReadKnown DEF OperandHolds, Logic
            <4>5. start = IF both THEN conjunction({Of(1, p), Of(2, p)})
                                  ELSE alternatives({Of(1, p), Of(2, p)})
                BY <2>3, <3>3 DEF requiredLogic
            <4>6. CASE both
                BY <4>3, <4>4, <4>5, <4>6, ConjunctionHolds
            <4>7. CASE ~both
                BY <4>3, <4>4, <4>5, <4>7, AlternativesHold, SMTT(30)
            <4>8. QED
                BY <4>6, <4>7
        <3>4. CASE d.kind = "select"
            <4>1. 1 \in DOMAIN d.args /\ 2 \in DOMAIN d.args /\ 3 \in DOMAIN d.args
                BY <3>4, <1>4 DEF Arity
            <4> DEFINE s == Select(Read(v[d.args[1]]), Read(v[d.args[2]]), Read(v[d.args[3]]))
            <4>2. s \in Pin /\ Vector(s) = Known(p)
                BY <3>1, <3>4, Zenon DEF Eval, Select, Read, Pin
            <4>3. s = Bit(p)
                BY <4>2, VectorKnown
            <4>4. nodes[d.args[2]].width = 1 /\ nodes[d.args[3]].width = 1
                BY <4>1, <1>1, <3>4 DEF IsNode, Logic
            <4>5. Holding(requiredSelect(c, d.args[1], d.args[2], d.args[3], p), v)
                BY <4>1, <4>3, <4>4, <1>2, <1>3, <3>4, SelectSound DEF Logic
            <4>6. QED
                BY <4>5, <2>3, <3>4 DEF requiredLogic
        <3>5. CASE d.kind \in {"eq", "ne"}
            <4>1. 1 \in DOMAIN d.args /\ 2 \in DOMAIN d.args
                BY <3>5, <1>4 DEF Arity
            <4> DEFINE e == Equal(v[d.args[1]], v[d.args[2]])
                       equal == (d.kind = "eq") = p
            <4>2. e \in Pin /\ Not(e) \in Pin
                BY EqualPin DEF Not, Pin
            <4>3. /\ d.kind = "eq" => Vector(e) = Known(p)
                  /\ d.kind = "ne" => Vector(Not(e)) = Known(p)
                BY <3>1, <3>5 DEF Eval
            <4>4. /\ d.kind = "eq" => e = Bit(p)
                  /\ d.kind = "ne" => Not(e) = Bit(p)
                BY <4>2, <4>3, VectorKnown
            <4>5. e = Bit(equal)
                BY <4>2, <4>4, <3>5 DEF Not, Bit, Pin
            <4>6. Holding(requiredCompare(c, d.args[1], d.args[2], equal), v)
                BY <4>1, <4>5, <1>2, CompareSound, Zenon
            <4>7. QED
                BY <4>6, <2>3, <3>5 DEF requiredLogic
        <3>6. QED
            BY <1>1, <2>3, <3>2, <3>3, <3>4, <3>5 DEF Logic
    <2>4. QED
        BY <2>1, <2>2, <2>3
<1>7. required(c, n, p) = append(start, Fact(n, p, <<>>))
    BY DEF required
<1>8. QED
    BY <1>5, <1>6, <1>7, AppendHolds

-----------------------------------------------------------------------------
PathKnown(a, v) == \A t \in path(a) : v[t[1]] = Known(t[2])

\* What the compiler owes for a pair it lets pass.
Separated(ab) ==
    \/ FieldsDisjoint(ab)
    \/ \A v : Consistent(v) /\ PathKnown(ab[1], v) /\ PathKnown(ab[2], v) =>
                Indexed(ab) /\ v[Indices(ab)[1]] \cap v[Indices(ab)[2]] = {}

Assumed(ab) == IF Indexed(ab) THEN Indices(ab) ELSE <<>>

CacheSound ==
    \A c \in Collisions, n \in DOMAIN nodes, p \in BOOLEAN :
        Key(c, n, p) \in DOMAIN cache =>
            \A v : Consistent(v) /\ Meets(c, v) /\ v[n] = Known(p) =>
                        Holding(cache[Key(c, n, p)], v)

ProofInv ==
    /\ design \in Designs
    /\ todo \subseteq Pairs
    /\ query = <<>> \/ \E ab \in todo : query = <<ab, Assumed(ab)>>
    /\ CacheSound
    /\ \A ab \in Pairs \ todo : Separated(ab)
    /\ phase = "run" => todo = {}

ValuesInv ==
    /\ values \in Seq(SUBSET Nat)
    /\ Len(values) <= Len(nodes)
    /\ \A n \in DOMAIN values : Obeys(values, n)

\* What depends on the design alone does not change with a step.
LEMMA Rigid ==
    ASSUME design' = design
    PROVE  /\ nodes' = nodes /\ writers' = writers /\ Pairs' = Pairs /\ Collisions' = Collisions
           /\ \A v, n : Obeys(v, n)' <=> Obeys(v, n)
           /\ \A v : Consistent(v)' <=> Consistent(v)
           /\ \A ab : Separated(ab)' <=> Separated(ab)
           /\ \A ab : Assumed(ab)' = Assumed(ab)
<1>1. nodes' = nodes /\ writers' = writers
    BY DEF nodes, writers
<1>2. Pairs' = Pairs /\ Collisions' = Collisions
    BY <1>1 DEF Pairs, Writes, Collisions
<1>3. \A v, n : Obeys(v, n)' <=> Obeys(v, n)
    BY <1>1 DEF Obeys, constant
<1>4. \A v : Consistent(v)' <=> Consistent(v)
    BY <1>1, <1>3 DEF Consistent
<1>5. \A ab : Assumed(ab)' = Assumed(ab)
    BY DEF Assumed, Indexed, Indices
<1>6. \A a, v : PathKnown(a, v)' <=> PathKnown(a, v)
    BY <1>1 DEF PathKnown, path
<1>7. \A ab : Separated(ab)' <=> Separated(ab)
    BY <1>4, <1>6 DEF Separated, FieldsDisjoint, Indexed, Indices
<1>8. QED
    BY <1>1, <1>2, <1>3, <1>4, <1>5, <1>7

\* What the assumption on designs says of a write.
LEMMA WriteTyped ==
    ASSUME design \in Designs, NEW a \in Writes
    PROVE  /\ a.of \in DOMAIN writers /\ a.write \in writers[a.of].writes
           /\ a.write.index \in DOMAIN nodes \cup {None}
           /\ \A t \in path(a) : t[1] \in DOMAIN nodes /\ nodes[t[1]].width = 1 /\ t[2] \in BOOLEAN
<1> DEFINE Terms == Conditions(nodes)
           Guards == [node : DOMAIN nodes, under : SUBSET Terms]
           Written == [path : SUBSET Terms, field : Fields \cup {Whole}, index : DOMAIN nodes \cup {None}]
           Rules == [guards : SUBSET Guards, writes : SUBSET Written]
<1>1. /\ writers \in Seq(Rules)
      /\ \A i \in DOMAIN writers : \A g \in writers[i].guards : nodes[g.node].width = 1
    BY DesignsAssumption, Zenon DEF WellFormed, nodes, writers
<1>2. \A t \in Terms : t[1] \in DOMAIN nodes /\ nodes[t[1]].width = 1 /\ t[2] \in BOOLEAN
    BY DEF Conditions
<1> HIDE DEF Terms
<1>3. \A w \in Rules : w.guards \subseteq Guards /\ w.writes \subseteq Written
    OBVIOUS
<1>4. /\ \A g \in Guards : g.node \in DOMAIN nodes
      /\ \A w \in Written : w.path \subseteq Terms /\ w.index \in DOMAIN nodes \cup {None}
    OBVIOUS
<1> HIDE DEF Rules, Guards, Written
<1>5. a.of \in DOMAIN writers /\ a.write \in writers[a.of].writes
    <2>1. PICK i \in DOMAIN writers : a \in {[of |-> i, write |-> w] : w \in writers[i].writes}
        BY DEF Writes
    <2>2. QED
        BY <2>1
<1>6. writers[a.of] \in Rules
    BY <1>1, <1>5
<1>7. a.write \in Written /\ writers[a.of].guards \subseteq Guards
    BY <1>3, <1>5, <1>6
<1>8. ASSUME NEW t \in path(a)
      PROVE  t[1] \in DOMAIN nodes /\ nodes[t[1]].width = 1 /\ t[2] \in BOOLEAN
    <2>1. CASE t \in a.write.path
        BY <2>1, <1>2, <1>4, <1>7
    <2>2. CASE \E g \in writers[a.of].guards : t = <<g.node, TRUE>>
        <3>1. PICK g \in writers[a.of].guards : t = <<g.node, TRUE>>
            BY <2>2
        <3>2. g.node \in DOMAIN nodes /\ nodes[g.node].width = 1
            BY <1>1, <1>4, <1>5, <1>7
        <3>3. QED
            BY <3>1, <3>2
    <2>3. QED
        BY <2>1, <2>2, Zenon DEF path
<1>9. QED
    BY <1>4, <1>5, <1>7, <1>8

\* What the assumption on designs says of a pair of writes.
LEMMA PairTyped ==
    ASSUME design \in Designs, NEW ab \in Pairs
    PROVE  /\ ab[1] \in Writes /\ ab[2] \in Writes
           /\ Assumed(ab) \in Collisions
<1>1. ab[1] \in Writes /\ ab[2] \in Writes
    BY DEF Pairs
<1>2. Indexed(ab) => ab[1].write.index \in DOMAIN nodes /\ ab[2].write.index \in DOMAIN nodes
    BY <1>1, WriteTyped DEF Indexed
<1>3. QED
    BY <1>1, <1>2 DEF Assumed, Indices, Collisions

\* A pair that is skipped writes different fields or different elements.
LEMMA SkipSeparates ==
    ASSUME design \in Designs, NEW ab \in Pairs, FieldsDisjoint(ab) \/ ConstantsDiffer(ab)
    PROVE  Separated(ab)
<1>1. CASE FieldsDisjoint(ab)
    BY <1>1 DEF Separated
<1>2. CASE ConstantsDiffer(ab)
    <2> DEFINE i == ab[1].write.index
               j == ab[2].write.index
    <2>1. /\ Indexed(ab) /\ Indices(ab)[1] = i /\ Indices(ab)[2] = j
          /\ constant(i) # <<>> /\ constant(j) # <<>> /\ constant(i) # constant(j)
        BY <1>2 DEF ConstantsDiffer, Indices
    <2>2. i \in DOMAIN nodes /\ j \in DOMAIN nodes
        BY <2>1, PairTyped, WriteTyped DEF Indexed
    <2>3. PICK a \in Nat, b \in Nat : constant(i) = <<a>> /\ constant(j) = <<b>>
        BY <2>1, <2>2, ConstantsTyped DEF Codes
    <2>4. a # b
        BY <2>1, <2>3
    <2>5. ASSUME NEW v, Consistent(v)
          PROVE  v[i] \cap v[j] = {}
        <3>1. v[i] = {a} /\ v[j] = {b}
            BY <2>1, <2>2, <2>3, <2>5 DEF Consistent, Obeys
        <3>2. QED
            BY <3>1, <2>4
    <2>6. QED
        BY <2>1, <2>5 DEF Separated
<1>3. QED
    BY <1>1, <1>2

\* A pair whose paths are contradictory under the collision is separated.
LEMMA AnswerSeparates ==
    ASSUME design \in Designs, CacheSound, NEW ab \in Pairs,
           \A n \in DOMAIN nodes, p \in BOOLEAN :
               nodes[n].width = 1 => Key(Assumed(ab), n, p) \in DOMAIN cache,
           disjoint(Assumed(ab), ab[1], ab[2])
    PROVE  Separated(ab)
<1> DEFINE c == Assumed(ab)
<1>1. c \in Collisions /\ ab[1] \in Writes /\ ab[2] \in Writes
    BY PairTyped
<1>2. ASSUME NEW v, Consistent(v), PathKnown(ab[1], v), PathKnown(ab[2], v), Meets(c, v)
      PROVE  FALSE
    <2>1. ASSUME NEW a \in {ab[1], ab[2]} PROVE Holding(PathResult(c, a), v)
        <3>1. a \in Writes /\ PathKnown(a, v)
            BY <1>1, <1>2, <2>1
        <3>2. ASSUME NEW t \in path(a) PROVE Holding(Operand(c, t[1], t[2]), v)
            <4>1. t[1] \in DOMAIN nodes /\ nodes[t[1]].width = 1 /\ t[2] \in BOOLEAN
                BY <3>1, <3>2, WriteTyped
            <4>2. v[t[1]] = Known(t[2])
                BY <3>1, <3>2 DEF PathKnown
            <4>3. QED
                BY <4>1, <4>2, <1>1, <1>2 DEF CacheSound, Operand
        <3>3. QED
            BY <3>2, ConjunctionHolds DEF PathResult
    <2>2. Holding(conjunction({PathResult(c, ab[1]), PathResult(c, ab[2])}), v)
        BY <2>1, ConjunctionHolds
    <2>3. QED
        BY <2>2 DEF disjoint, Holding
<1>3. ASSUME NEW v, Consistent(v), PathKnown(ab[1], v), PathKnown(ab[2], v)
      PROVE  Indexed(ab) /\ v[Indices(ab)[1]] \cap v[Indices(ab)[2]] = {}
    BY <1>2, <1>3 DEF Meets, Assumed
<1>4. QED
    BY <1>3 DEF Separated

\* An entry added to the cache is sound: its operands were answered before it.
LEMMA RequireSound ==
    ASSUME ProofInv, Require
    PROVE  CacheSound'
<1> USE DEF ProofInv
<1>1. design' = design /\ design \in Designs /\ query # <<>>
    BY DEF Require
<1>2. PICK ab \in todo : query = <<ab, Assumed(ab)>>
    BY <1>1
<1> DEFINE c == Assumed(ab)
<1>3. query[2] = c /\ c \in Collisions
    BY <1>2, PairTyped
<1>4. PICK n \in Open :
        /\ \A m \in Open : n <= m
        /\ cache' = [k \in DOMAIN cache \cup {Key(c, n, p) : p \in BOOLEAN} |->
                        IF k \in DOMAIN cache THEN cache[k] ELSE required(c, n, k[3])]
    BY <1>3 DEF Require
<1>5. n \in DOMAIN nodes /\ nodes[n].width = 1 /\ n \in Nat
    BY <1>4, NodesTyped DEF Open
<1>6. \A m \in DOMAIN nodes, q \in BOOLEAN :
        m < n /\ nodes[m].width = 1 => Key(c, m, q) \in DOMAIN cache
    <2>1. \A m \in DOMAIN nodes : m < n => m \notin Open
        BY <1>4, <1>5, NodesTyped
    <2>2. QED
        BY <2>1, <1>3 DEF Open
<1>7. SUFFICES ASSUME NEW e \in Collisions, NEW m \in DOMAIN nodes, NEW p \in BOOLEAN,
                      Key(e, m, p) \in DOMAIN cache',
                      NEW v, Consistent(v), Meets(e, v), v[m] = Known(p)
               PROVE  Holding(cache'[Key(e, m, p)], v)
    BY <1>1, Rigid DEF CacheSound, Meets, Key
<1>8. CASE Key(e, m, p) \in DOMAIN cache
    <2>1. cache'[Key(e, m, p)] = cache[Key(e, m, p)]
        BY <1>4, <1>8
    <2>2. QED
        BY <2>1, <1>7, <1>8 DEF CacheSound
<1>9. CASE Key(e, m, p) \notin DOMAIN cache
    <2>1. PICK q \in BOOLEAN : Key(e, m, p) = Key(c, n, q)
        BY <1>4, <1>7, <1>9
    <2>2. e = c /\ m = n /\ p = q
        BY <2>1 DEF Key
    <2>3. cache'[Key(e, m, p)] = required(c, n, p)
        BY <1>4, <1>9, <2>2 DEF Key
    <2>4. ASSUME NEW l \in DOMAIN nodes, l < n, nodes[l].width = 1
          PROVE  OperandHolds(c, l, v)
        BY <1>3, <1>6, <1>7, <2>2, <2>4 DEF CacheSound, OperandHolds, Operand
    <2>5. QED
        BY <1>1, <1>3, <1>5, <1>7, <2>2, <2>3, <2>4, RequiredSound
<1>10. QED
    BY <1>8, <1>9

\* When nothing is open, every node has been answered under the collision.
LEMMA AllAnswered ==
    ASSUME query # <<>>, Open = {}
    PROVE  \A n \in DOMAIN nodes, p \in BOOLEAN :
               nodes[n].width = 1 => Key(query[2], n, p) \in DOMAIN cache
BY DEF Open

\* The proof is sound in every state: cached facts hold, and what is let pass is separated.
THEOREM ProofSound == Spec => []ProofInv
<1>1. Init => ProofInv
    <2>1. SUFFICES ASSUME Init PROVE ProofInv
        OBVIOUS
    <2>2. DOMAIN cache = {}
        BY <2>1 DEF Init
    <2>3. CacheSound
        BY <2>2 DEF CacheSound
    <2>4. QED
        BY <2>1, <2>3 DEF Init, ProofInv
<1>2. ProofInv /\ [Next]_vars => ProofInv'
    <2> SUFFICES ASSUME ProofInv, [Next]_vars PROVE ProofInv'
        OBVIOUS
    <2>1. design' = design
        BY DEF Next, Prove, Run, Skip, Decline, Ask, Require, Exhaust, Answer, Admit,
               Evaluate, materializeDomainCommit, NextCycle, vars
    <2>2. cache' = cache => CacheSound'
        BY <2>1, Rigid, Zenon DEF ProofInv, CacheSound, Meets, Key
    <2>3. ASSUME todo' \subseteq todo,
                 \A ab \in todo \ todo' : Separated(ab),
                 CacheSound',
                 query' = <<>> \/ \E ab \in todo' : query' = <<ab, Assumed(ab)>>,
                 phase' = "run" => todo' = {}
          PROVE  ProofInv'
        <3>1. design' \in Designs /\ todo' \subseteq Pairs'
            BY <2>1, <2>3, Rigid DEF ProofInv
        <3>2. \A ab \in Pairs \ todo' : Separated(ab)
            BY <2>3 DEF ProofInv
        <3>3. (\A ab \in Pairs \ todo : Separated(ab))'
            BY <3>2, <2>1, Rigid
        <3>4. (query = <<>> \/ \E ab \in todo : query = <<ab, Assumed(ab)>>)'
            BY <2>1, <2>3, Rigid
        <3>5. QED
            BY <3>1, <3>3, <3>4, <2>3 DEF ProofInv
    <2>4. ASSUME UNCHANGED <<todo, query, cache>>, phase' \in {phase, "refused"} PROVE ProofInv'
        BY <2>2, <2>3, <2>4 DEF ProofInv
    <2>5. ASSUME phase = "prove", NEW ab \in todo, Skip(ab) PROVE ProofInv'
        <3>1. Separated(ab)
            BY <2>5, SkipSeparates DEF ProofInv, Skip
        <3>2. todo' = todo \ {ab} /\ query' = <<>> /\ cache' = cache /\ phase' = "prove"
            BY <2>5 DEF Skip
        <3>3. QED
            BY <3>1, <3>2, <2>2, <2>3
    <2>6. ASSUME phase = "prove", NEW ab \in todo, Ask(ab) PROVE ProofInv'
        <3>1. query' = <<ab, Assumed(ab)>> /\ todo' = todo /\ cache' = cache /\ phase' = "prove"
            BY <2>6 DEF Ask, Assumed
        <3>2. QED
            BY <3>1, <2>2, <2>3
    <2>7. CASE phase = "prove" /\ Require
        <3>1. todo' = todo /\ query' = query /\ phase' = "prove"
            BY <2>7 DEF Require
        <3>2. CacheSound'
            BY <2>7, RequireSound
        <3>3. QED
            BY <3>1, <3>2, <2>3 DEF ProofInv
    <2>8. CASE phase = "prove" /\ Answer
        <3>1. PICK ab \in todo : query = <<ab, Assumed(ab)>>
            BY <2>8 DEF ProofInv, Answer
        <3>2. query[1] = ab /\ query[2] = Assumed(ab) /\ ab \in Pairs /\ cache' = cache
            BY <2>8, <3>1 DEF ProofInv, Answer
        <3>3. CASE disjoint(query[2], query[1][1], query[1][2])
            <4>1. \A n \in DOMAIN nodes, p \in BOOLEAN :
                    nodes[n].width = 1 => Key(Assumed(ab), n, p) \in DOMAIN cache
                BY <2>8, <3>2, AllAnswered DEF Answer
            <4>2. Separated(ab)
                BY <3>2, <3>3, <4>1, AnswerSeparates DEF ProofInv
            <4>3. todo' = todo \ {ab} /\ query' = <<>> /\ phase' = "prove"
                BY <2>8, <3>2, <3>3 DEF Answer
            <4>4. QED
                BY <3>2, <4>2, <4>3, <2>2, <2>3
        <3>4. CASE ~disjoint(query[2], query[1][1], query[1][2])
            BY <2>4, <2>8, <3>2, <3>4 DEF Answer
        <3>5. QED
            BY <3>3, <3>4
    <2>9. CASE phase = "prove" /\ Admit
        <3>1. todo' = {} /\ todo = {} /\ query' = <<>> /\ cache' = cache
            BY <2>9 DEF Admit, proving
        <3>2. QED
            BY <3>1, <2>2, <2>3
    <2>10. CASE Run \/ UNCHANGED vars
        BY <2>4, <2>10 DEF Run, Evaluate, materializeDomainCommit, NextCycle, vars, proving
    <2>11. ASSUME NEW ab \in todo, Decline(ab) PROVE ProofInv'
        BY <2>4, <2>11 DEF Decline, proving
    <2>12. CASE Exhaust
        BY <2>4, <2>12 DEF Exhaust, proving
    <2>13. QED
        BY <2>5, <2>6, <2>7, <2>8, <2>9, <2>10, <2>11, <2>12 DEF Next, Prove
<1>3. QED
    BY <1>1, <1>2, PTL DEF Spec

-----------------------------------------------------------------------------
\* The value of a node depends only on the nodes before it.
LEMMA EvalLocal ==
    ASSUME design \in Designs, NEW n \in DOMAIN nodes, nodes[n].kind # "raw", NEW v, NEW w,
           \A m \in 1..(n - 1) : v[m] = w[m]
    PROVE  Eval(nodes[n], v) = Eval(nodes[n], w)
<1> DEFINE d == nodes[n]
<1>1. /\ d.kind \in {"eq", "ne"} \cup Logic /\ DOMAIN d.args = 1..Arity(d.kind)
      /\ \A k \in DOMAIN d.args : v[d.args[k]] = w[d.args[k]]
    BY NodesTyped DEF IsNode
<1>2. CASE d.kind = "not"
    BY <1>1, <1>2 DEF Eval, Arity
<1>3. CASE d.kind \in {"and", "or", "eq", "ne"}
    <2>1. v[d.args[1]] = w[d.args[1]] /\ v[d.args[2]] = w[d.args[2]]
        BY <1>1, <1>3 DEF Arity
    <2>2. QED
        BY <1>3, <2>1 DEF Eval
<1>4. CASE d.kind = "select"
    <2>1. v[d.args[1]] = w[d.args[1]] /\ v[d.args[2]] = w[d.args[2]] /\ v[d.args[3]] = w[d.args[3]]
        BY <1>1, <1>4 DEF Arity
    <2>2. QED
        BY <1>4, <2>1 DEF Eval
<1>5. QED
    BY <1>1, <1>2, <1>3, <1>4 DEF Logic

\* A node is given a set of numbers.
LEMMA OutcomesTyped ==
    ASSUME design \in Designs, NEW n \in DOMAIN nodes
    PROVE  Outcomes(nodes[n]) \subseteq SUBSET Nat
<1> DEFINE d == nodes[n]
<1>1. CASE d.code # <<>>
    <2>1. PICK k \in Nat : d.code = <<k>>
        BY <1>1, ConstantsTyped DEF Codes, constant
    <2>2. QED
        BY <1>1, <2>1 DEF Outcomes
<1>2. CASE d.code = <<>> /\ d.kind = "raw"
    <2>1. \A v \in Patterns(d.width) : \A k \in v : k \in Nat
        BY DEF Patterns
    <2>2. QED
        BY <1>2, <2>1 DEF Outcomes
<1>3. CASE d.code = <<>> /\ d.kind # "raw"
    <2>1. \A b : Vector(b) \in SUBSET Nat
        BY DEF Vector
    <2>2. Eval(d, values) \in SUBSET Nat
        <3>1. d.kind \in {"not", "and", "or", "select", "eq", "ne"}
            BY <1>3, NodesTyped DEF Logic
        <3>2. QED
            BY <2>1, <3>1 DEF Eval
    <2>3. QED
        BY <1>3, <2>2 DEF Outcomes
<1>4. QED
    BY <1>1, <1>2, <1>3

\* The values of a cycle obey the operators.
THEOREM ValuesObey == Spec => []ValuesInv
<1>1. Init => ValuesInv
    <2>1. SUFFICES ASSUME Init PROVE ValuesInv
        OBVIOUS
    <2>2. values = <<>> /\ Len(nodes) \in Nat
        BY <2>1, NodesTyped DEF Init
    <2>3. QED
        BY <2>2 DEF ValuesInv
<1>2. ProofInv /\ ValuesInv /\ [Next]_vars => ValuesInv'
    <2> SUFFICES ASSUME ProofInv, ValuesInv, [Next]_vars PROVE ValuesInv'
        OBVIOUS
    <2>1. design' = design /\ design \in Designs
        BY DEF ProofInv, Next, Prove, Run, Skip, Decline, Ask, Require, Exhaust, Answer, Admit,
               Evaluate, materializeDomainCommit, NextCycle, vars
    <2>2. CASE values' = values
        BY <2>1, <2>2, Rigid DEF ValuesInv
    <2>3. CASE NextCycle
        <3>1. values' = <<>> /\ Len(nodes)' \in Nat
            BY <2>1, <2>3, NodesTyped, Rigid DEF NextCycle
        <3>2. QED
            BY <3>1 DEF ValuesInv
    <2>4. CASE Evaluate
        <3> DEFINE n == Len(values) + 1
                   d == nodes[n]
        <3>1. n \in DOMAIN nodes /\ n \in Nat /\ n <= Len(nodes)
            BY <2>1, <2>4, NodesTyped DEF Evaluate, ValuesInv
        <3>2. PICK v \in Outcomes(d) : values' = Append(values, v)
            BY <2>4 DEF Evaluate
        <3>3. v \in SUBSET Nat
            BY <2>1, <3>1, <3>2, OutcomesTyped
        <3>4. /\ values' \in Seq(SUBSET Nat) /\ Len(values') = n /\ DOMAIN values' = 1..n
              /\ values'[n] = v
              /\ \A m \in 1..(n - 1) : m \in DOMAIN values /\ values'[m] = values[m]
            BY <3>2, <3>3 DEF ValuesInv
        <3>5. ASSUME NEW m \in 1..n PROVE Obeys(values', m)
            <4>1. m \in DOMAIN nodes /\ \A k \in 1..(m - 1) : values'[k] = values[k]
                BY <2>1, <3>1, <3>4, <3>5, NodesTyped
            <4>2. nodes[m].kind # "raw" => Eval(nodes[m], values') = Eval(nodes[m], values)
                BY <2>1, <4>1, EvalLocal
            <4>3. CASE m = n
                BY <3>2, <3>4, <4>2, <4>3 DEF Obeys, Outcomes, constant
            <4>4. CASE m # n
                <5>1. m \in 1..(n - 1)
                    BY <3>1, <3>5, <4>4
                <5>2. Obeys(values, m) /\ values'[m] = values[m]
                    BY <3>4, <5>1 DEF ValuesInv
                <5>3. QED
                    BY <4>2, <5>2 DEF Obeys
            <4>5. QED
                BY <4>3, <4>4
        <3>6. (\A m \in DOMAIN values : Obeys(values, m))'
            BY <2>1, <3>4, <3>5 DEF Obeys, constant, nodes
        <3>7. QED
            BY <2>1, <3>1, <3>4, <3>6, Rigid DEF ValuesInv
    <2>5. QED
        BY <2>2, <2>3, <2>4 DEF Next, Prove, Run, Skip, Decline, Ask, Require, Exhaust, Answer,
           Admit, materializeDomainCommit, running, vars
<1>3. QED
    BY <1>1, <1>2, ProofSound, PTL DEF Spec

\* A conjunction is true only of true conditions.
LEMMA ConjunctKnown ==
    ASSUME NEW ts, \A t \in ts : t[2] \in BOOLEAN
    PROVE  Conjunct(ts) = "1" <=> \A t \in ts : values[t[1]] = Known(t[2])
<1>1. ASSUME NEW t \in ts PROVE Condition(t) = "1" <=> values[t[1]] = Known(t[2])
    <2>1. t[2] \in BOOLEAN
        OBVIOUS
    <2>2. Condition(t) = "1" <=> Read(values[t[1]]) = Bit(t[2])
        BY <2>1 DEF Condition, Bit, Not
    <2>3. QED
        BY <2>1, <2>2, ReadKnown
<1>2. Conjunct(ts) = "1" <=> \A t \in ts : Condition(t) = "1"
    BY DEF Conjunct, Every
<1>3. QED
    BY <1>1, <1>2

\* A write that is granted knows its conditions and the guards on its way.
LEMMA GrantedKnown ==
    ASSUME design \in Designs, NEW a \in Writes, Granted(a)
    PROVE  PathKnown(a, values)
<1>1. Fire(a.of) = "1" /\ Conjunct(a.write.path) = "1"
    BY DEF Granted, And, rawPath
<1>2. \A t \in path(a) : t[2] \in BOOLEAN
    BY WriteTyped
<1>3. \A t \in a.write.path : values[t[1]] = Known(t[2])
    BY <1>1, <1>2, ConjunctKnown, Zenon DEF path
<1>4. ASSUME NEW g \in writers[a.of].guards, g.under \subseteq a.write.path
      PROVE  values[g.node] = Known(TRUE)
    <2>1. Conjunct(g.under) = "1"
        BY <1>2, <1>3, <1>4, ConjunctKnown, Zenon DEF path
    <2>2. Select(Conjunct(g.under), K1(Read(values[g.node])), "1") = "1"
        BY <1>1, <1>4 DEF Fire, Every
    <2>3. Read(values[g.node]) = "1"
        BY <2>1, <2>2 DEF Select, K1, Bit
    <2>4. QED
        BY <2>3 DEF Read, Known
<1>5. ASSUME NEW t \in path(a) PROVE values[t[1]] = Known(t[2])
    <2>1. CASE t \in a.write.path
        BY <1>3, <2>1
    <2>2. CASE \E g \in writers[a.of].guards : g.under \subseteq a.write.path /\ t = <<g.node, TRUE>>
        <3>1. PICK g \in writers[a.of].guards : g.under \subseteq a.write.path /\ t = <<g.node, TRUE>>
            BY <2>2
        <3>2. t[1] = g.node /\ t[2] = TRUE
            BY <3>1
        <3>3. QED
            BY <3>1, <3>2, <1>4, Zenon
    <2>3. QED
        BY <2>1, <2>2, Zenon DEF path
<1>6. QED
    BY <1>5 DEF PathKnown

(***************************************************************************)
(* For every design the proof admits, in every cycle: two granted writes   *)
(* of different rules are at different fields or at addresses known to     *)
(* differ.                                                                 *)
(***************************************************************************)
THEOREM Exclusive == Spec => []GrantsExclusive
<1>1. ProofInv /\ ValuesInv => GrantsExclusive
    <2> SUFFICES ASSUME ProofInv, ValuesInv, Settled, NEW ab \in Pairs,
                        Granted(ab[1]), Granted(ab[2])
                 PROVE  \/ FieldsDisjoint(ab)
                        \/ Indexed(ab) /\ values[Indices(ab)[1]] \cap values[Indices(ab)[2]] = {}
        BY DEF GrantsExclusive
    <2>1. design \in Designs /\ Separated(ab)
        BY DEF ProofInv, Settled
    <2>2. Consistent(values)
        <3>1. DOMAIN values = DOMAIN nodes
            BY <2>1, NodesTyped DEF ValuesInv, Settled
        <3>2. QED
            BY <3>1 DEF Consistent, ValuesInv
    <2>3. PathKnown(ab[1], values) /\ PathKnown(ab[2], values)
        BY <2>1, PairTyped, GrantedKnown
    <2>4. QED
        BY <2>1, <2>2, <2>3 DEF Separated
<1>2. QED
    BY <1>1, ProofSound, ValuesObey, PTL

-----------------------------------------------------------------------------
\* A write of an enabled rule that masks a leaf is granted and selects that leaf.
LEMMA EffectiveGranted ==
    ASSUME NEW i \in DOMAIN writers, NEW l, Effective(i, l) = "1"
    PROVE  \E a \in Writes :
              /\ a.of = i /\ Granted(a)
              /\ a.write.field \in {Whole, l[2]}
              /\ a.write.index # None => values[a.write.index] = {l[1]}
<1>1. Enable(i) = "1" /\ Some({Mask(w, l) : w \in writers[i].writes}) = "1"
    BY DEF Effective, And
<1>2. PICK w \in writers[i].writes : Mask(w, l) = "1"
    BY <1>1 DEF Some
<1>3. Fire(i) = "1"
    BY <1>1 DEF Enable, And
<1>4. w.field \in {Whole, l[2]} /\ rawPath(w) = "1"
    BY <1>2 DEF Mask, And
<1>5. w.index # None => values[w.index] = {l[1]}
    <2>1. SUFFICES ASSUME w.index # None PROVE values[w.index] = {l[1]}
        OBVIOUS
    <2>2. Equal({l[1]}, values[w.index]) = "1"
        BY <1>2, <1>4, <2>1 DEF Mask, And
    <2>3. QED
        BY <2>2 DEF Equal
<1> DEFINE a == [of |-> i, write |-> w]
<1>6. a \in Writes
    BY DEF Writes
<1>7. Granted(a)
    BY <1>3, <1>4 DEF Granted, And
<1>8. QED
    BY <1>4, <1>5, <1>6, <1>7

\* At most one writer is effective at a leaf.
LEMMA OneWriter ==
    ASSUME GrantsExclusive, Settled, Len(writers) \in Nat, DOMAIN writers = 1..Len(writers),
           NEW i \in DOMAIN writers, NEW j \in DOMAIN writers, i < j, NEW l,
           Effective(i, l) = "1", Effective(j, l) = "1"
    PROVE  FALSE
<1>1. PICK a \in Writes : /\ a.of = i /\ Granted(a)
                          /\ a.write.field \in {Whole, l[2]}
                          /\ a.write.index # None => values[a.write.index] = {l[1]}
    BY EffectiveGranted, Zenon
<1>2. PICK b \in Writes : /\ b.of = j /\ Granted(b)
                          /\ b.write.field \in {Whole, l[2]}
                          /\ b.write.index # None => values[b.write.index] = {l[1]}
    BY EffectiveGranted, Zenon
<1> DEFINE ab == <<a, b>>
<1>3. ab \in Pairs
    BY <1>1, <1>2 DEF Pairs
<1>4. FieldsDisjoint(ab) \/ (Indexed(ab) /\ values[Indices(ab)[1]] \cap values[Indices(ab)[2]] = {})
    BY <1>1, <1>2, <1>3, Zenon DEF GrantsExclusive
<1>5. ~FieldsDisjoint(ab)
    BY <1>1, <1>2 DEF FieldsDisjoint
<1>6. CASE Indexed(ab) /\ values[Indices(ab)[1]] \cap values[Indices(ab)[2]] = {}
    <2>1. values[a.write.index] = {l[1]} /\ values[b.write.index] = {l[1]}
        BY <1>1, <1>2, <1>6 DEF Indexed
    <2>2. QED
        BY <1>6, <2>1, Zenon DEF Indices
<1>7. QED
    BY <1>4, <1>5, <1>6

Leaves == Ordinals \X Fields

Wrote(k, l) == {i \in 1..k : Effective(i, l) = "1"}

\* The merge of the writers so far.
MergedSoFar ==
    /\ \A l \in Leaves :
        (\A i \in 1..commit.count : Effective(i, l) # "x") =>
            commit.data[l] = IF Wrote(commit.count, l) = {} THEN {0} ELSE Wrote(commit.count, l)
    /\ commit.enable = "0" => \A i \in 1..commit.count : Enable(i) = "0"
    /\ commit.enable = "1" => \A i \in 1..commit.count : Enable(i) # "x"

CommitInv ==
    /\ commit.count \in 0..Len(writers)
    /\ commit.enable \in Pin
    /\ commit.count > 0 => Settled
    /\ MergedSoFar

\* The writers are numbered from 1.
LEMMA WritersTyped ==
    ASSUME design \in Designs
    PROVE  Len(writers) \in Nat /\ DOMAIN writers = 1..Len(writers)
<1>1. \A S : \A s \in Seq(S) : Len(s) \in Nat /\ DOMAIN s = 1..Len(s)
    OBVIOUS
<1>2. \E S : writers \in Seq(S)
    BY DesignsAssumption, Zenon DEF WellFormed, writers
<1>3. QED
    BY <1>1, <1>2

\* Nothing is merged yet.
LEMMA IdleMerged ==
    ASSUME commit = Idle
    PROVE  commit.count = 0 /\ commit.enable = "0" /\ MergedSoFar
<1>1. commit.count = 0 /\ commit.enable = "0" /\ \A l \in Leaves : commit.data[l] = {0}
    BY DEF Idle, Leaves
<1>2. \A l : Wrote(commit.count, l) = {}
    BY <1>1 DEF Wrote
<1>3. QED
    BY <1>1, <1>2 DEF MergedSoFar

\* The enables depend on the design and the values of the cycle alone.
LEMMA EnablesRigid ==
    ASSUME design' = design, values' = values
    PROVE  /\ \A j, l : Effective(j, l)' = Effective(j, l)
           /\ \A j : Enable(j)' = Enable(j)
           /\ Len(writers)' = Len(writers)
<1>1. writers' = writers
    BY DEF writers
<1>2. /\ \A ts : Conjunct(ts)' = Conjunct(ts)
      /\ \A w : rawPath(w)' = rawPath(w)
    BY DEF Conjunct, Condition, rawPath
<1>3. \A j : Enable(j)' = Enable(j)
    BY <1>1, <1>2, Zenon DEF Enable, Fire
<1>4. \A w, l : Mask(w, l)' = Mask(w, l)
    BY <1>2 DEF Mask
<1>5. QED
    BY <1>1, <1>3, <1>4 DEF Effective

\* Merging one more writer.
LEMMA MergeStep ==
    ASSUME design \in Designs, GrantsExclusive, CommitInv, phase = "run", materializeDomainCommit
    PROVE  CommitInv'
<1> DEFINE k == commit.count
           i == k + 1
<1>1. /\ k \in Nat /\ i \in DOMAIN writers /\ Len(writers) \in Nat
      /\ DOMAIN writers = 1..Len(writers) /\ i <= Len(writers)
    BY WritersTyped DEF CommitInv, materializeDomainCommit
<1>2. Settled /\ Settled'
    BY Zenon DEF Settled, materializeDomainCommit, nodes
<1>3. /\ commit'.count = i
      /\ commit'.enable = IF i = 1 THEN Enable(i) ELSE Combined(commit.enable, Enable(i))
      /\ \A l \in Leaves : commit'.data[l] = Merge(commit.data[l], Effective(i, l), {i})
    BY DEF materializeDomainCommit, Leaves
<1>4. /\ \A j, l : Effective(j, l)' = Effective(j, l)
      /\ \A j : Enable(j)' = Enable(j)
      /\ Len(writers)' = Len(writers)
    <2>1. design' = design /\ values' = values
        BY DEF materializeDomainCommit
    <2>2. QED
        BY <2>1, EnablesRigid
<1>5. ASSUME NEW l \in Leaves, \A j \in 1..i : Effective(j, l) # "x"
      PROVE  commit'.data[l] = IF Wrote(i, l) = {} THEN {0} ELSE Wrote(i, l)
    <2>1. commit.data[l] = IF Wrote(k, l) = {} THEN {0} ELSE Wrote(k, l)
        BY <1>1, <1>5 DEF CommitInv, MergedSoFar
    <2>2. Effective(i, l) \in {"0", "1"}
        BY <1>1, <1>5 DEF Effective, And
    <2>3. CASE Effective(i, l) = "0"
        <3>1. Wrote(i, l) = Wrote(k, l)
            BY <1>1, <2>3 DEF Wrote
        <3>2. QED
            BY <1>3, <2>1, <2>3, <3>1, Zenon DEF Merge
    <2>4. CASE Effective(i, l) = "1"
        <3>1. \A j \in 1..k : Effective(j, l) # "1"
            BY <1>1, <1>2, <2>4, OneWriter, SMTT(30)
        <3>2. Wrote(i, l) = {i}
            BY <1>1, <2>4, <3>1 DEF Wrote
        <3>3. QED
            BY <1>3, <2>4, <3>2, Zenon DEF Merge
    <2>5. QED
        BY <2>2, <2>3, <2>4
<1>6. /\ commit'.enable = "0" => \A j \in 1..i : Enable(j) = "0"
      /\ commit'.enable = "1" => \A j \in 1..i : Enable(j) # "x"
    <2>1. CASE i = 1
        BY <1>1, <1>3, <2>1
    <2>2. CASE i # 1
        <3>1. /\ commit'.enable = "0" => commit.enable = "0" /\ Enable(i) = "0"
              /\ commit'.enable = "1" => commit.enable \in {"0", "1"} /\ Enable(i) # "x"
            BY <1>3, <2>2 DEF Combined, Or, CommitInv, Pin
        <3>2. \A j \in 1..i : j = i \/ j \in 1..k
            BY <1>1
        <3>3. QED
            BY <3>1, <3>2 DEF CommitInv, MergedSoFar
    <2>3. QED
        BY <2>1, <2>2
<1>7. MergedSoFar'
    BY <1>3, <1>4, <1>5, <1>6, Zenon DEF MergedSoFar, Wrote, Leaves
<1>8. commit'.enable \in Pin
    BY <1>3 DEF Combined, Enable, And, Or, Pin
<1>9. QED
    BY <1>1, <1>2, <1>3, <1>4, <1>7, <1>8 DEF CommitInv

(***************************************************************************)
(* For every design the proof admits, in every cycle: the merged owner     *)
(* holds at a leaf what its one writer wrote, or what it had.              *)
(***************************************************************************)
THEOREM Exact == Spec => []CommitExact
<1>1. Init => CommitInv
    <2>1. SUFFICES ASSUME Init PROVE CommitInv
        OBVIOUS
    <2>2. Len(writers) \in Nat
        BY <2>1, WritersTyped DEF Init
    <2>3. QED
        BY <2>1, <2>2, IdleMerged DEF Init, CommitInv, Pin
<1>2. ProofInv /\ GrantsExclusive /\ CommitInv /\ [Next]_vars => CommitInv'
    <2> SUFFICES ASSUME ProofInv, GrantsExclusive, CommitInv, [Next]_vars PROVE CommitInv'
        OBVIOUS
    <2>1. /\ design' = design /\ design \in Designs
          /\ Len(writers) \in Nat /\ Len(writers)' = Len(writers)
        <3>1. design' = design /\ design \in Designs
            BY DEF ProofInv, Next, Prove, Run, Skip, Decline, Ask, Require, Exhaust, Answer, Admit,
                   Evaluate, materializeDomainCommit, NextCycle, vars
        <3>2. QED
            BY <3>1, WritersTyped, Rigid
    <2>2. CASE Run /\ materializeDomainCommit
        BY <2>1, <2>2, MergeStep DEF Run
    <2>3. CASE commit'.count = 0 /\ commit'.enable \in Pin /\ MergedSoFar'
        BY <2>1, <2>3 DEF CommitInv
    <2>4. CASE Run /\ NextCycle
        <3>1. commit' = Idle
            BY <2>4 DEF NextCycle
        <3>2. commit'.count = 0 /\ commit'.enable = "0" /\ \A l \in Leaves : commit'.data[l] = {0}
            BY <3>1 DEF Idle, Leaves
        <3>3. \A l : Wrote(commit.count, l)' = {}
            BY <3>2 DEF Wrote
        <3>4. MergedSoFar'
            BY <3>2, <3>3, SMTT(30) DEF MergedSoFar, Leaves
        <3>5. QED
            BY <2>3, <3>2, <3>4 DEF Pin
    <2>5. CASE commit' = commit /\ commit.count = 0
        <3>1. \A l : Wrote(commit.count, l) = {} /\ Wrote(commit.count, l)' = {}
            BY <2>5 DEF Wrote
        <3>2. \A l \in Leaves : commit.data[l] = {0}
            BY <2>5, <3>1 DEF CommitInv, MergedSoFar
        <3>3. MergedSoFar'
            BY <2>5, <3>1, <3>2, SMTT(30) DEF MergedSoFar, Leaves
        <3>4. QED
            BY <2>3, <2>5, <3>3 DEF CommitInv
    <2>6. CASE UNCHANGED vars
        <3>1. design' = design /\ values' = values /\ commit' = commit /\ phase' = phase
            BY <2>6 DEF vars, running
        <3>2. /\ \A j, l : Effective(j, l)' = Effective(j, l)
              /\ \A j : Enable(j)' = Enable(j)
            BY <3>1, EnablesRigid
        <3>3. MergedSoFar'
            BY <3>1, <3>2, Zenon DEF CommitInv, MergedSoFar, Wrote, Leaves
        <3>4. Settled' <=> Settled
            BY <3>1 DEF Settled, nodes
        <3>5. QED
            BY <2>1, <3>1, <3>3, <3>4 DEF CommitInv
    <2>7. commit.count # 0 => phase = "run" /\ Len(values) = Len(nodes)
        BY <2>1, WritersTyped DEF CommitInv, Settled
    <2>8. CASE Run /\ Evaluate
        <3>1. Len(values) < Len(nodes) /\ commit' = commit
            BY <2>8 DEF Evaluate
        <3>2. commit.count = 0
            BY <3>1, <2>1, <2>7, NodesTyped
        <3>3. QED
            BY <3>1, <3>2, <2>5
    <2>9. CASE Prove
        BY <2>5, <2>7, <2>9 DEF Prove, Skip, Decline, Ask, Require, Exhaust, Answer, Admit, running
    <2>10. QED
        BY <2>2, <2>4, <2>6, <2>8, <2>9 DEF Next, Run
<1>3. ProofInv /\ CommitInv => CommitExact
    <2> SUFFICES ASSUME ProofInv, CommitInv, Settled, commit.count = Len(writers) PROVE CommitExact
        BY Zenon DEF CommitExact
    <2>1. DOMAIN writers = 1..commit.count
        BY WritersTyped DEF ProofInv
    <2>2. ASSUME NEW l \in Leaves, \A i \in DOMAIN writers : Effective(i, l) # "x"
          PROVE  commit.data[l] = IF Wrote(commit.count, l) = {} THEN {0} ELSE Wrote(commit.count, l)
        BY <2>1, <2>2 DEF CommitInv, MergedSoFar
    <2>3. ASSUME commit.enable = "0", NEW l \in Leaves PROVE commit.data[l] = {0}
        <3>1. \A i \in DOMAIN writers : Effective(i, l) = "0"
            BY <2>1, <2>3 DEF CommitInv, MergedSoFar, Effective, And
        <3>2. Wrote(commit.count, l) = {}
            BY <2>1, <3>1 DEF Wrote
        <3>3. QED
            BY <2>2, <3>1, <3>2
    <2>4. commit.enable = "1" => \A i \in DOMAIN writers : Enable(i) # "x"
        BY <2>1 DEF CommitInv, MergedSoFar
    <2>5. QED
        BY <2>1, <2>2, <2>3, <2>4, Zenon DEF CommitExact, Leaves, Wrote
<1>4. QED
    BY <1>1, <1>2, <1>3, ProofSound, Exclusive, PTL DEF Spec

-----------------------------------------------------------------------------
(* A model between two queues (module ExecutionModel).                     *)

CONSTANTS Rows, MaxRows, Profiles, Starts, CounterModulus

VARIABLES rows, profile, start, strategy, cycle, cursor, on, incoming, outgoing, gap,
          processed, accepted, published, status

\* The module under its own names; its variables are not those of WriteGrants.
Execution == INSTANCE ExecutionModel

\* The entries of a queue of tokens in T.
Queued(T) == [token : T, left : Nat]

\* The form of the state; the functional entry has no queues.
ExecTyped ==
    /\ rows \in [1..MaxRows -> Rows] /\ profile \in Profiles
    /\ cursor \in Nat \ {0}
    /\ incoming \in Seq(Queued(Nat)) /\ outgoing \in Seq(Queued(Seq(Nat)))
    /\ processed \in Seq(Nat) /\ published \in Seq(Seq(Nat))
    /\ accepted \in Nat
    /\ strategy = "functional" => incoming = <<>> /\ outgoing = <<>>

\* R holds the responses to the requests in p that have one, in order, each
\* computed from the history up to its request.
Answers(R, p) ==
    /\ Execution!Lists([i \in DOMAIN R |-> Len(R[i])], {k \in DOMAIN p : rows[p[k]].valid})
    /\ \A i \in DOMAIN R : R[i] = SubSeq(p, 1, Len(R[i]))

\* c is a followed by b.
Joins(c, a, b) == c = a \o b

\* The inductive invariant: both properties hold of every state with that form.
ExecInv == ExecTyped /\ Execution!SerialExecution /\ Execution!FailsAtFirstUnknown

\* The first element of a sequence is appended to another one.
LEMMA MoveFirst ==
  ASSUME NEW E, NEW s \in Seq(E), NEW t \in Seq(E), t # <<>>
  PROVE  /\ Head(t) \in E /\ Tail(t) \in Seq(E)
         /\ Append(s, Head(t)) \in Seq(E)
         /\ Append(s, Head(t)) \o Tail(t) = s \o t
<1>1. /\ Head(t) \in E /\ Tail(t) \in Seq(E) /\ Len(Tail(t)) = Len(t) - 1
      /\ \A i \in 1 .. Len(Tail(t)) : Tail(t)[i] = t[i + 1]
  BY HeadTailProperties, Zenon
<1>2. Append(s, Head(t)) = s \o <<Head(t)>> /\ Append(s, Head(t)) \in Seq(E)
  BY <1>1, AppendIsConcat, AppendProperties, Zenon
<1>3. <<Head(t)>> \o Tail(t) = t
  <2> DEFINE h == Head(t)
             u == Tail(t)
  <2>1. t[1] = h /\ Len(t) \in Nat /\ Len(t) # 0
    OBVIOUS
  <2> HIDE DEF h, u
  <2>2. <<h>> \in Seq(E)
    BY <1>1 DEF h
  <2>3. /\ <<h>> \o u \in Seq(E) /\ Len(<<h>> \o u) = 1 + Len(u)
        /\ \A i \in 1 .. (1 + Len(u)) : (<<h>> \o u)[i] = IF i <= 1 THEN h ELSE u[i - 1]
    BY <1>1, <2>2, ConcatProperties DEF u
  <2>4. Len(<<h>> \o u) = Len(t)
    BY <1>1, <2>1, <2>3 DEF u
  <2>5. ASSUME NEW i \in 1 .. Len(<<h>> \o u) PROVE (<<h>> \o u)[i] = t[i]
    <3>1. CASE i = 1
      BY <2>1, <2>3, <3>1
    <3>2. CASE i # 1
      <4>1. i \in 1 .. (1 + Len(u)) /\ ~(i <= 1) /\ i - 1 \in 1 .. Len(u) /\ (i - 1) + 1 = i
        BY <1>1, <2>1, <2>3, <3>2 DEF u
      <4>2. (<<h>> \o u)[i] = u[i - 1]
        BY <2>3, <4>1, Zenon
      <4>3. u[i - 1] = t[(i - 1) + 1]
        BY <1>1, <4>1, Zenon DEF u
      <4> QED BY <4>1, <4>2, <4>3, Zenon
    <3> QED BY <3>1, <3>2, Zenon
  <2>6. <<h>> \o u = t
    BY <2>3, <2>4, <2>5, SeqEqual, Zenon
  <2> QED BY <2>6, Zenon DEF h, u
<1>4. (s \o <<Head(t)>>) \o Tail(t) = s \o (<<Head(t)>> \o Tail(t))
  <2>1. <<Head(t)>> \in Seq(E)
    BY <1>1
  <2> QED BY <1>1, <2>1, ConcatAssociative
<1> QED BY <1>1, <1>2, <1>3, <1>4, Zenon

\* The tokens of a queue: a sequence, whose first is that of the first entry.
LEMMA TokensTyped ==
  ASSUME NEW T, NEW q \in Seq(Queued(T))
  PROVE  /\ Execution!Tokens(q) \in Seq(T) /\ Len(Execution!Tokens(q)) = Len(q) /\ DOMAIN Execution!Tokens(q) = 1 .. Len(q)
         /\ \A i \in 1 .. Len(q) : Execution!Tokens(q)[i] = q[i].token /\ q[i].token \in T /\ q[i].left \in Nat
<1>1. Len(q) \in Nat /\ DOMAIN q = 1 .. Len(q) /\ \A i \in 1 .. Len(q) : q[i] \in Queued(T)
  OBVIOUS
<1>2. \A i \in 1 .. Len(q) : q[i].token \in T /\ q[i].left \in Nat
  BY <1>1, Zenon DEF Queued
<1>3. Execution!Tokens(q) = [i \in 1 .. Len(q) |-> q[i].token]
  BY <1>1, Zenon DEF Execution!Tokens
<1> HIDE DEF Execution!Tokens
<1>4. Execution!Tokens(q) \in Seq(T) /\ DOMAIN Execution!Tokens(q) = 1 .. Len(q)
  BY <1>1, <1>2, <1>3, IsASeq
<1>5. Len(Execution!Tokens(q)) = Len(q)
  BY <1>1, <1>4
<1> QED BY <1>2, <1>3, <1>4, <1>5, Zenon

\* The tokens of a queue without its head.
LEMMA TokensTail ==
  ASSUME NEW T, NEW q \in Seq(Queued(T)), q # <<>>
  PROVE  /\ Execution!Tokens(q) # <<>> /\ Head(Execution!Tokens(q)) = Head(q).token
         /\ Tail(q) \in Seq(Queued(T)) /\ Tail(Execution!Tokens(q)) = Execution!Tokens(Tail(q))
<1>1. /\ Execution!Tokens(q) \in Seq(T) /\ Len(Execution!Tokens(q)) = Len(q)
      /\ \A i \in 1 .. Len(q) : Execution!Tokens(q)[i] = q[i].token
  BY TokensTyped, Zenon
<1>2. Len(q) \in Nat /\ Len(q) # 0 /\ q[1] = Head(q)
  OBVIOUS
<1>3. /\ Tail(q) \in Seq(Queued(T)) /\ Len(Tail(q)) = Len(q) - 1
      /\ \A i \in 1 .. Len(Tail(q)) : Tail(q)[i] = q[i + 1]
  BY HeadTailProperties, Zenon
<1>4. Execution!Tokens(q) # <<>> /\ Head(Execution!Tokens(q)) = Execution!Tokens(q)[1]
  BY <1>1, <1>2
<1>5. /\ Tail(Execution!Tokens(q)) \in Seq(T) /\ Len(Tail(Execution!Tokens(q))) = Len(Execution!Tokens(q)) - 1
      /\ \A i \in 1 .. Len(Tail(Execution!Tokens(q))) : Tail(Execution!Tokens(q))[i] = Execution!Tokens(q)[i + 1]
  BY <1>1, <1>4, HeadTailProperties, Zenon
<1>6. /\ Execution!Tokens(Tail(q)) \in Seq(T) /\ Len(Execution!Tokens(Tail(q))) = Len(Tail(q))
      /\ \A i \in 1 .. Len(Tail(q)) : Execution!Tokens(Tail(q))[i] = Tail(q)[i].token
  BY <1>3, TokensTyped, Zenon
<1>7. ASSUME NEW i \in 1 .. Len(Tail(Execution!Tokens(q))) PROVE Tail(Execution!Tokens(q))[i] = Execution!Tokens(Tail(q))[i]
  <2>1. i \in 1 .. Len(Tail(q)) /\ i + 1 \in 1 .. Len(q)
    BY <1>1, <1>2, <1>3, <1>5
  <2> QED BY <1>1, <1>3, <1>5, <1>6, <2>1, Zenon
<1>8. Len(Tail(Execution!Tokens(q))) = Len(Execution!Tokens(Tail(q)))
  BY <1>1, <1>3, <1>5, <1>6, Zenon
<1>9. Tail(Execution!Tokens(q)) = Execution!Tokens(Tail(q))
  BY <1>5, <1>6, <1>7, <1>8, SeqEqual, Zenon
<1> QED BY <1>1, <1>2, <1>3, <1>4, <1>9

\* The tokens of two queues, one behind the other.
LEMMA TokensConcat ==
  ASSUME NEW T, NEW q \in Seq(Queued(T)), NEW r \in Seq(Queued(T))
  PROVE  q \o r \in Seq(Queued(T)) /\ Execution!Tokens(q \o r) = Execution!Tokens(q) \o Execution!Tokens(r)
<1>1. /\ q \o r \in Seq(Queued(T)) /\ Len(q \o r) = Len(q) + Len(r)
      /\ \A i \in 1 .. Len(q) + Len(r) : (q \o r)[i] = IF i <= Len(q) THEN q[i] ELSE r[i - Len(q)]
  BY ConcatProperties, Zenon
<1>2. /\ Execution!Tokens(q) \in Seq(T) /\ Len(Execution!Tokens(q)) = Len(q) /\ Len(q) \in Nat
      /\ \A i \in 1 .. Len(q) : Execution!Tokens(q)[i] = q[i].token
  BY TokensTyped
<1>3. /\ Execution!Tokens(r) \in Seq(T) /\ Len(Execution!Tokens(r)) = Len(r) /\ Len(r) \in Nat
      /\ \A i \in 1 .. Len(r) : Execution!Tokens(r)[i] = r[i].token
  BY TokensTyped
<1>4. /\ Execution!Tokens(q) \o Execution!Tokens(r) \in Seq(T) /\ Len(Execution!Tokens(q) \o Execution!Tokens(r)) = Len(q) + Len(r)
      /\ \A i \in 1 .. Len(q) + Len(r) :
           (Execution!Tokens(q) \o Execution!Tokens(r))[i] = IF i <= Len(q) THEN Execution!Tokens(q)[i] ELSE Execution!Tokens(r)[i - Len(q)]
  <2> DEFINE a == Execution!Tokens(q)
             b == Execution!Tokens(r)
  <2>1. a \in Seq(T) /\ b \in Seq(T) /\ Len(a) = Len(q) /\ Len(b) = Len(r)
    BY <1>2, <1>3, Zenon
  <2> HIDE DEF a, b
  <2>2. /\ a \o b \in Seq(T) /\ Len(a \o b) = Len(a) + Len(b)
        /\ \A i \in 1 .. Len(a) + Len(b) : (a \o b)[i] = IF i <= Len(a) THEN a[i] ELSE b[i - Len(a)]
    BY <2>1, ConcatProperties, Zenon
  <2>3. /\ a \o b \in Seq(T) /\ Len(a \o b) = Len(q) + Len(r)
        /\ \A i \in 1 .. Len(q) + Len(r) : (a \o b)[i] = IF i <= Len(q) THEN a[i] ELSE b[i - Len(q)]
    BY <2>1, <2>2, Zenon
  <2> QED BY <2>3, Zenon DEF a, b
<1> DEFINE s == q \o r
<1> HIDE DEF s
<1>5. /\ Execution!Tokens(s) \in Seq(T) /\ Len(Execution!Tokens(s)) = Len(s)
      /\ \A i \in 1 .. Len(s) : Execution!Tokens(s)[i] = s[i].token
  BY <1>1, TokensTyped, Zenon DEF s
<1>6. ASSUME NEW i \in 1 .. Len(q) + Len(r) PROVE Execution!Tokens(s)[i] = (Execution!Tokens(q) \o Execution!Tokens(r))[i]
  <2>1. Execution!Tokens(s)[i] = s[i].token
    BY <1>1, <1>5, Zenon DEF s
  <2>2. CASE i <= Len(q)
    <3>1. i \in 1 .. Len(q)
      BY <1>2, <1>3, <2>2
    <3> QED BY <1>1, <1>2, <1>4, <2>1, <2>2, <3>1, Zenon DEF s
  <2>3. CASE ~(i <= Len(q))
    <3>1. i - Len(q) \in 1 .. Len(r)
      BY <1>2, <1>3, <2>3
    <3> QED BY <1>1, <1>3, <1>4, <2>1, <2>3, <3>1, Zenon DEF s
  <2> QED BY <2>2, <2>3, Zenon
<1>7. Execution!Tokens(s) = Execution!Tokens(q) \o Execution!Tokens(r)
  <2>1. Len(Execution!Tokens(s)) = Len(Execution!Tokens(q) \o Execution!Tokens(r))
    BY <1>1, <1>4, <1>5, Zenon DEF s
  <2> QED BY <1>1, <1>4, <1>5, <1>6, <2>1, SeqEqual, Zenon DEF s
<1> QED BY <1>1, <1>7, Zenon DEF s

\* A cycle changes the entries' waiting times only.
LEMMA AgedTokens ==
  ASSUME NEW T, NEW q \in Seq(Queued(T)), NEW s \in Seq(Queued(T)), DOMAIN s = DOMAIN q,
         \A i \in DOMAIN q : s[i].token = q[i].token
  PROVE  Execution!Tokens(s) = Execution!Tokens(q)
BY Zenon DEF Execution!Tokens

\* Ageing the entries of the ingress queue does not change their tokens.
LEMMA IngressAged ==
  ASSUME NEW T, NEW q \in Seq(Queued(T))
  PROVE  Execution!Ingress!Aged(q) \in Seq(Queued(T)) /\ Execution!Tokens(Execution!Ingress!Aged(q)) = Execution!Tokens(q)
<1> DEFINE a == Execution!Ingress!Aged(q)
           older(x) == [x EXCEPT !.left = IF @ = 0 THEN 0 ELSE @ - 1]
<1>1. a = [i \in DOMAIN q |-> older(q[i])]
  BY Zenon DEF Execution!Ingress!Aged
<1>2. Len(q) \in Nat /\ DOMAIN q = 1 .. Len(q) /\ \A i \in 1 .. Len(q) : q[i] \in Queued(T)
  OBVIOUS
<1>3. \A x \in Queued(T) : older(x) \in Queued(T) /\ older(x).token = x.token
  BY DEF Queued
<1> HIDE DEF a, older
<1>4. a = [i \in 1 .. Len(q) |-> older(q[i])] /\ \A i \in 1 .. Len(q) : older(q[i]) \in Queued(T)
  BY <1>1, <1>2, <1>3, Zenon
<1>5. a \in Seq(Queued(T)) /\ DOMAIN a = DOMAIN q
  BY <1>2, <1>4, IsASeq
<1>6. \A i \in DOMAIN q : a[i].token = q[i].token
  BY <1>2, <1>3, <1>4, Zenon
<1> QED BY <1>5, <1>6, AgedTokens, Zenon DEF a

\* Nor does it change those of the egress queue.
LEMMA EgressAged ==
  ASSUME NEW T, NEW q \in Seq(Queued(T))
  PROVE  Execution!Egress!Aged(q) \in Seq(Queued(T)) /\ Execution!Tokens(Execution!Egress!Aged(q)) = Execution!Tokens(q)
BY IngressAged, Zenon DEF Execution!Ingress!Aged, Execution!Egress!Aged

\* What enters a queue.
LEMMA EnteringTokens ==
  ASSUME NEW T, NEW p \in Seq(T), NEW w \in Nat
  PROVE  /\ [i \in DOMAIN p |-> [token |-> p[i], left |-> w]] \in Seq(Queued(T))
         /\ Execution!Tokens([i \in DOMAIN p |-> [token |-> p[i], left |-> w]]) = p
<1> DEFINE e == [i \in DOMAIN p |-> [token |-> p[i], left |-> w]]
<1>1. Len(p) \in Nat /\ DOMAIN p = 1 .. Len(p) /\ \A i \in 1 .. Len(p) : p[i] \in T
  OBVIOUS
<1>2. \A i \in 1 .. Len(p) : [token |-> p[i], left |-> w] \in Queued(T)
  BY <1>1, Zenon DEF Queued
<1>3. e \in Seq(Queued(T))
  BY <1>1, <1>2, IsASeq
<1>4. Execution!Tokens(e) = [i \in DOMAIN p |-> p[i]]
  BY Zenon DEF Execution!Tokens
<1> QED BY <1>3, <1>4

\* Concatenation is associative.
LEMMA JoinsAssociative ==
  ASSUME NEW T, NEW s \in Seq(T), NEW t \in Seq(T), NEW u \in Seq(T), NEW v, Joins(v, s, t),
         NEW w, Joins(w, t, u), NEW x, Joins(x, v, u)
  PROVE  Joins(x, s, w)
<1>1. (s \o t) \o u = s \o (t \o u)
  BY ConcatAssociative
<1> QED BY <1>1, Zenon DEF Joins

\* The tokens that have left a queue and those in it are one sequence, h, to
\* which a cycle adds what enters, if none leaves ...
LEMMA QueueKeeps ==
  ASSUME NEW T, NEW q \in Seq(Queued(T)), NEW out \in Seq(T), NEW r \in Seq(Queued(T)),
         NEW e \in Seq(Queued(T)), Execution!Tokens(r) = Execution!Tokens(q), NEW h, Joins(h, out, Execution!Tokens(q)),
         NEW f, Joins(f, r, e), NEW g, Joins(g, h, Execution!Tokens(e))
  PROVE  Joins(g, out, Execution!Tokens(f))
<1>1. Execution!Tokens(q) \in Seq(T) /\ Execution!Tokens(e) \in Seq(T)
  BY TokensTyped, Zenon
<1>2. Joins(Execution!Tokens(f), Execution!Tokens(r), Execution!Tokens(e))
  BY TokensConcat, Zenon DEF Joins
<1> QED BY <1>1, <1>2, JoinsAssociative

\* ... and if one does.
LEMMA QueueLoses ==
  ASSUME NEW T, NEW q \in Seq(Queued(T)), NEW out \in Seq(T), NEW r \in Seq(Queued(T)),
         NEW e \in Seq(Queued(T)), q # <<>>, Execution!Tokens(r) = Execution!Tokens(Tail(q)), NEW h, Joins(h, out, Execution!Tokens(q)),
         NEW f, Joins(f, r, e), NEW g, Joins(g, h, Execution!Tokens(e))
  PROVE  /\ Append(out, Head(q).token) \in Seq(T)
         /\ Joins(g, Append(out, Head(q).token), Execution!Tokens(f))
<1>1. /\ Execution!Tokens(q) # <<>> /\ Head(Execution!Tokens(q)) = Head(q).token /\ Tail(q) \in Seq(Queued(T))
      /\ Tail(Execution!Tokens(q)) = Execution!Tokens(Tail(q)) /\ Execution!Tokens(q) \in Seq(T)
  BY TokensTail, TokensTyped, Zenon
<1>2. PICK t \in Seq(T) : t = Execution!Tokens(q)
  BY <1>1, Zenon
<1>3. /\ Append(out, Head(t)) \in Seq(T) /\ Append(out, Head(t)) \o Tail(t) = out \o t
  <2>1. t # <<>>
    BY <1>1, <1>2, Zenon
  <2> QED BY <2>1, MoveFirst, Zenon
<1>4. PICK s \in Seq(T) : s = Append(out, Head(q).token)
  BY <1>1, <1>2, <1>3, Zenon
<1>5. Joins(h, s, Execution!Tokens(r))
  BY <1>1, <1>2, <1>3, <1>4, Zenon DEF Joins
<1>6. Joins(g, s, Execution!Tokens(f))
  BY <1>5, QueueKeeps, Zenon
<1> QED BY <1>4, <1>6, Zenon

\* A list grows by a larger element.
LEMMA ListGrows ==
  ASSUME NEW s \in Seq(Nat), NEW S \in SUBSET Nat, Execution!Lists(s, S), NEW t \in Nat, \A x \in S : x < t
  PROVE  Execution!Lists(Append(s, t), S \cup {t})
<1>1. Len(s) \in Nat /\ DOMAIN s = 1 .. Len(s) /\ \A i \in 1 .. Len(s) : s[i] \in Nat
  OBVIOUS
<1> DEFINE a == Append(s, t)
<1>2. /\ DOMAIN a = 1 .. (Len(s) + 1) /\ a[Len(s) + 1] = t
      /\ \A i \in 1 .. Len(s) : a[i] = s[i]
  OBVIOUS
<1> HIDE DEF a
<1>3. {s[i] : i \in DOMAIN s} = S /\ \A i, j \in DOMAIN s : i < j => s[i] < s[j]
  BY Zenon DEF Execution!Lists
<1>4. {a[i] : i \in DOMAIN a} = S \cup {t}
  <2>1. \A i \in DOMAIN a : a[i] \in S \cup {t}
    BY <1>1, <1>2, <1>3
  <2>2. \A x \in S : \E i \in DOMAIN a : a[i] = x
    <3>1. \A x \in S : \E i \in 1 .. Len(s) : s[i] = x
      BY <1>1, <1>3, Zenon
    <3> QED BY <1>1, <1>2, <3>1
  <2>3. Len(s) + 1 \in DOMAIN a
    BY <1>1, <1>2
  <2> QED BY <1>2, <2>1, <2>2, <2>3, Zenon
<1>5. ASSUME NEW i \in DOMAIN a, NEW j \in DOMAIN a, i < j PROVE a[i] < a[j]
  <2>1. i \in 1 .. Len(s) /\ a[i] = s[i]
    BY <1>1, <1>2, <1>5
  <2>2. CASE j = Len(s) + 1
    <3>1. s[i] \in S
      BY <1>1, <1>3, <2>1, Zenon
    <3> QED BY <1>2, <2>1, <2>2, <3>1, Zenon
  <2>3. CASE j # Len(s) + 1
    <3>1. j \in 1 .. Len(s) /\ a[j] = s[j]
      BY <1>1, <1>2, <2>3
    <3> QED BY <1>1, <1>3, <1>5, <2>1, <3>1, Zenon
  <2> QED BY <2>2, <2>3, Zenon
<1> QED BY <1>4, <1>5, Zenon DEF Execution!Lists, a

\* Multiples of m are at least m apart.
LEMMA MultiplesApart ==
  ASSUME NEW m \in Nat, NEW c \in Nat, NEW d \in Nat, c < d
  PROVE  m * c + m <= m * d
<1>1. PICK e \in Nat : d = (c + 1) + e
  <2>1. d - (c + 1) \in Nat /\ d = (c + 1) + (d - (c + 1))
    OBVIOUS
  <2> QED BY <2>1, Zenon
<1>2. m * ((c + 1) + e) = m * c + m + m * e
  BY Z3
<1>3. m * e \in Nat /\ m * c \in Nat /\ m * d \in Nat
  BY Z3
<1> QED BY <1>1, <1>2, <1>3

\* The remainder is the only one.
LEMMA RemainderUnique ==
  ASSUME NEW m \in Nat \ {0}, NEW d \in Nat, NEW r \in 0 .. (m - 1)
  PROVE  (m * d + r) % m = r
<1>0. PICK k \in Nat : k = m * d + r
  <2>1. m * d + r \in Nat
    BY Z3
  <2> QED BY <2>1, Zenon
<1>1. k % m \in 0 .. (m - 1) /\ k \div m \in Nat /\ k = m * (k \div m) + (k % m)
  BY Z3
<1>2. PICK c \in Nat : c = k \div m
  BY <1>1, Zenon
<1>3. PICK s \in 0 .. (m - 1) : s = k % m
  BY <1>1, Zenon
<1>4. m * c + s = m * d + r /\ m * c \in Nat /\ m * d \in Nat
  BY <1>0, <1>1, <1>2, <1>3, Z3
<1>5. ~(c < d)
  <2> SUFFICES ASSUME c < d PROVE FALSE
    BY Zenon
  <2>1. m * c + m <= m * d
    BY MultiplesApart, Zenon
  <2> QED BY <1>4, <2>1
<1>6. ~(d < c)
  <2> SUFFICES ASSUME d < c PROVE FALSE
    BY Zenon
  <2>1. m * d + m <= m * c
    BY MultiplesApart, Zenon
  <2> QED BY <1>4, <2>1
<1>7. c = d
  BY <1>5, <1>6
<1> QED BY <1>0, <1>3, <1>4, <1>7

\* Counting with a counter that wraps.
LEMMA CountWraps ==
  ASSUME NEW n \in Nat, NEW m \in Nat \ {0}
  PROVE  ((n % m) + 1) % m = (n + 1) % m
<1>1. n % m \in 0 .. (m - 1) /\ n = m * (n \div m) + (n % m) /\ n \div m \in Nat
  BY Z3
<1>2. PICK d \in Nat : d = n \div m
  BY <1>1, Zenon
<1>3. PICK r \in 0 .. (m - 1) : r = n % m
  BY <1>1, Zenon
<1>4. n = m * d + r /\ m * d \in Nat
  BY <1>1, <1>2, <1>3, Z3
<1> SUFFICES (r + 1) % m = (n + 1) % m
  BY <1>3, Zenon
<1>5. CASE r + 1 < m
  <2>1. PICK k \in Nat, t \in 0 .. (m - 1) : k = n + 1 /\ t = r + 1 /\ k = m * d + t
    <3>1. n + 1 \in Nat /\ r + 1 \in 0 .. (m - 1) /\ n + 1 = m * d + (r + 1)
      BY <1>4, <1>5
    <3> QED BY <3>1, Zenon
  <2>2. t = m * 0 + t /\ t \in Nat
    OBVIOUS
  <2>3. k % m = t
    <3>1. k = m * d + t
      BY <2>1, Zenon
    <3> QED BY <3>1, RemainderUnique, Zenon
  <2>4. t % m = t
    BY <2>2, RemainderUnique, Zenon
  <2> QED BY <2>1, <2>3, <2>4, Zenon
<1>6. CASE r + 1 = m
  <2>1. m * (d + 1) = m * d + m
    BY Z3
  <2>2. PICK k \in Nat, e \in Nat, z \in 0 .. (m - 1) : k = n + 1 /\ e = d + 1 /\ z = 0 /\ k = m * e + z
    <3>1. n + 1 \in Nat /\ d + 1 \in Nat /\ 0 \in 0 .. (m - 1) /\ n + 1 = m * (d + 1) + 0
      BY <1>4, <1>6, <2>1
    <3> QED BY <3>1, Zenon
  <2>3. k % m = z
    <3>1. k = m * e + z
      BY <2>2, Zenon
    <3> QED BY <3>1, RemainderUnique, Zenon
  <2>4. m % m = z
    <3>1. m = m * 1 + z /\ m \in Nat
      BY <2>2
    <3> QED BY <3>1, RemainderUnique
  <2> QED BY <1>6, <2>2, <2>3, <2>4, Zenon
<1> QED BY <1>5, <1>6

\* Prefixes of a sequence to which an element is appended.
LEMMA PrefixKept ==
  ASSUME NEW p \in Seq(Nat), NEW t \in Nat, NEW k \in 0 .. Len(p)
  PROVE  /\ SubSeq(Append(p, t), 1, k) = SubSeq(p, 1, k)
         /\ Len(Append(p, t)) = Len(p) + 1
         /\ SubSeq(Append(p, t), 1, Len(p) + 1) = Append(p, t)
<1>1. Append(p, t) \in Seq(Nat) /\ Len(Append(p, t)) = Len(p) + 1
      /\ \A i \in 1 .. Len(p) : Append(p, t)[i] = p[i]
  BY AppendProperties
<1> DEFINE a == Append(p, t)
<1> HIDE DEF a
<1>2. k \in Int /\ k <= Len(p) /\ Len(p) \in Nat /\ Len(a) = Len(p) + 1
  BY <1>1 DEF a
<1>3. SubSeq(a, 1, Len(a)) = a
  BY <1>1, SubSeqFull, Zenon DEF a
<1>4. SubSeq(a, 1, k) = SubSeq(p, 1, k)
  <2>1. \A i \in 1 .. k : a[i] = p[i] /\ p[i] \in Nat
    BY <1>1, <1>2 DEF a
  <2>2. SubSeq(p, 1, k) = [i \in 1 .. k |-> p[i]] /\ SubSeq(a, 1, k) = [i \in 1 .. k |-> a[i]]
    BY <1>1, <1>2 DEF a
  <2> QED BY <2>1, <2>2, Zenon
<1> QED BY <1>2, <1>3, <1>4, Zenon DEF a

\* Every response belongs to a request that has been processed.
LEMMA ResponseLengths ==
  ASSUME NEW p \in Seq(Nat), NEW R \in Seq(Seq(Nat)), Answers(R, p)
  PROVE  \A i \in DOMAIN R : Len(R[i]) \in 1 .. Len(p)
<1> DEFINE lens == [i \in DOMAIN R |-> Len(R[i])]
<1>1. {lens[i] : i \in DOMAIN lens} = {k \in DOMAIN p : rows[p[k]].valid}
  BY Zenon DEF Answers, Execution!Lists
<1>2. DOMAIN p = 1 .. Len(p) /\ DOMAIN lens = DOMAIN R
  OBVIOUS
<1>3. ASSUME NEW i \in DOMAIN R PROVE lens[i] \in 1 .. Len(p)
  <2> HIDE DEF lens
  <2> QED BY <1>1, <1>2, Zenon
<1> QED BY <1>3, Zenon

\* A request without a response.
LEMMA SilentRequest ==
  ASSUME NEW p \in Seq(Nat), NEW R \in Seq(Seq(Nat)), Answers(R, p), NEW t \in Nat, ~rows[t].valid
  PROVE  Answers(R, Append(p, t))
<1>1. DOMAIN p = 1 .. Len(p) /\ Len(p) \in Nat
      /\ DOMAIN Append(p, t) = 1 .. (Len(p) + 1) /\ Append(p, t)[Len(p) + 1] = t
      /\ \A i \in 1 .. Len(p) : Append(p, t)[i] = p[i]
  OBVIOUS
<1> DEFINE a == Append(p, t)
<1> HIDE DEF a
<1>2. {k \in DOMAIN a : rows[a[k]].valid} = {k \in DOMAIN p : rows[p[k]].valid}
  <2>1. \A k \in DOMAIN a : k \in DOMAIN p \/ k = Len(p) + 1
    BY <1>1 DEF a
  <2>2. \A k \in DOMAIN p : k \in DOMAIN a /\ a[k] = p[k]
    BY <1>1 DEF a
  <2>3. ~rows[a[Len(p) + 1]].valid
    BY <1>1, Zenon DEF a
  <2> QED BY <2>1, <2>2, <2>3, Zenon
<1>3. \A i \in DOMAIN R : SubSeq(a, 1, Len(R[i])) = SubSeq(p, 1, Len(R[i]))
  <2> SUFFICES ASSUME NEW i \in DOMAIN R PROVE SubSeq(a, 1, Len(R[i])) = SubSeq(p, 1, Len(R[i]))
    BY Zenon
  <2>1. Len(R[i]) \in 0 .. Len(p)
    BY <1>1, ResponseLengths
  <2> QED BY <2>1, PrefixKept, Zenon DEF a
<1>4. Answers(R, a)
  BY <1>2, <1>3, Zenon DEF Answers
<1> QED BY <1>4, Zenon DEF a

\* A request with one.
LEMMA AnsweredRequest ==
  ASSUME NEW p \in Seq(Nat), NEW R \in Seq(Seq(Nat)), Answers(R, p), NEW t \in Nat, rows[t].valid
  PROVE  Answers(Append(R, Append(p, t)), Append(p, t))
<1>1. DOMAIN p = 1 .. Len(p) /\ Len(p) \in Nat
      /\ DOMAIN Append(p, t) = 1 .. (Len(p) + 1) /\ Append(p, t)[Len(p) + 1] = t
      /\ Append(p, t) \in Seq(Nat) /\ Len(Append(p, t)) = Len(p) + 1
      /\ \A i \in 1 .. Len(p) : Append(p, t)[i] = p[i]
  OBVIOUS
<1> DEFINE a == Append(p, t)
           Q == Append(R, a)
           lens == [i \in DOMAIN R |-> Len(R[i])]
           more == [i \in DOMAIN Q |-> Len(Q[i])]
           V == {k \in DOMAIN p : rows[p[k]].valid}
<1>2. SubSeq(a, 1, Len(a)) = a
  BY <1>1, SubSeqFull, Zenon
<1> HIDE DEF a
<1>3. {k \in DOMAIN a : rows[a[k]].valid} = V \cup {Len(p) + 1}
  <2>1. \A k \in DOMAIN a : k \in DOMAIN p \/ k = Len(p) + 1
    BY <1>1 DEF a
  <2>2. \A k \in DOMAIN p : k \in DOMAIN a /\ a[k] = p[k]
    BY <1>1 DEF a
  <2>3. rows[a[Len(p) + 1]].valid /\ Len(p) + 1 \in DOMAIN a
    BY <1>1 DEF a
  <2> QED BY <2>1, <2>2, <2>3, Zenon
<1>4. Execution!Lists(lens, V) /\ \A i \in DOMAIN R : R[i] = SubSeq(p, 1, Len(R[i])) /\ Len(R[i]) \in 1 .. Len(p)
  BY ResponseLengths, Zenon DEF Answers
<1>5. /\ a \in Seq(Nat) /\ Len(R) \in Nat /\ DOMAIN R = 1 .. Len(R) /\ DOMAIN Q = 1 .. (Len(R) + 1)
      /\ Q[Len(R) + 1] = a /\ \A i \in 1 .. Len(R) : Q[i] = R[i]
  <2>1. a \in Seq(Nat)
    BY <1>1, Zenon DEF a
  <2> QED BY <2>1
<1> HIDE DEF Q
<1>6. lens \in Seq(Nat) /\ Len(lens) = Len(R)
  BY <1>4, <1>5
<1>7. more = Append(lens, Len(p) + 1)
  <2>1. more = [i \in 1 .. (Len(R) + 1) |-> IF i = Len(R) + 1 THEN Len(p) + 1 ELSE lens[i]]
    <3>1. \A i \in 1 .. (Len(R) + 1) : i # Len(R) + 1 => i \in 1 .. Len(R)
      BY <1>5
    <3>2. Len(Q[Len(R) + 1]) = Len(p) + 1
      BY <1>1, <1>5, Zenon DEF a
    <3> QED BY <1>5, <3>1, <3>2, Zenon
  <2> HIDE DEF lens
  <2>2. Append(lens, Len(p) + 1) = [i \in 1 .. (Len(R) + 1) |-> IF i = Len(R) + 1 THEN Len(p) + 1 ELSE lens[i]]
    BY <1>1, <1>5, <1>6
  <2> QED BY <2>1, <2>2, Zenon
<1>8. Execution!Lists(more, V \cup {Len(p) + 1})
  <2>1. V \in SUBSET Nat /\ (\A x \in V : x < Len(p) + 1) /\ Len(p) + 1 \in Nat
    BY <1>1
  <2> HIDE DEF lens, V
  <2>2. Execution!Lists(Append(lens, Len(p) + 1), V \cup {Len(p) + 1})
    BY <1>4, <1>6, <2>1, ListGrows, Zenon
  <2> HIDE DEF more
  <2> QED BY <1>7, <2>2, Zenon
<1>9. \A i \in DOMAIN Q : Q[i] = SubSeq(a, 1, Len(Q[i]))
  <2> SUFFICES ASSUME NEW i \in DOMAIN Q PROVE Q[i] = SubSeq(a, 1, Len(Q[i]))
    BY Zenon
  <2>1. CASE i = Len(R) + 1
    BY <1>2, <1>5, <2>1, Zenon
  <2>2. CASE i # Len(R) + 1
    <3>1. i \in DOMAIN R /\ Q[i] = R[i]
      BY <1>5, <2>2
    <3>2. Len(R[i]) \in 0 .. Len(p) /\ R[i] = SubSeq(p, 1, Len(R[i]))
      BY <1>1, <1>4, <3>1
    <3>3. SubSeq(a, 1, Len(R[i])) = SubSeq(p, 1, Len(R[i]))
      BY <3>2, PrefixKept, Zenon DEF a
    <3> QED BY <3>1, <3>2, <3>3, Zenon
  <2> QED BY <2>1, <2>2, Zenon
<1>10. Answers(Q, a)
  BY <1>3, <1>8, <1>9, Zenon DEF Answers
<1> QED BY <1>10, Zenon DEF Q, a

\* The requests that were accepted: processed already, or waiting.
Requests == processed \o Execution!Tokens(incoming)
\* The valid responses: published already, or waiting.
Responses == published \o Execution!Tokens(outgoing)

\* The parts of SerialExecution.
LEMMA SerialParts ==
  Execution!SerialExecution <=> /\ Execution!Lists(Requests, Execution!Enabled(cursor)) /\ Answers(Responses, processed)
                      /\ accepted = Len(Requests) % CounterModulus
BY Zenon DEF Execution!SerialExecution, Answers, Requests, Responses

\* The parts of SerialExecution, after a step.
LEMMA SerialNext ==
  ASSUME Execution!Lists(Requests', Execution!Enabled(cursor)'), Answers(Responses, processed)',
         accepted' = Len(Requests') % CounterModulus
  PROVE  Execution!SerialExecution'
BY Zenon DEF Execution!SerialExecution, Answers, Requests, Responses

\* Requests and responses are sequences.
LEMMA HistoriesTyped ==
  ASSUME ExecTyped
  PROVE  Requests \in Seq(Nat) /\ Responses \in Seq(Seq(Nat))
<1>1. /\ incoming \in Seq(Queued(Nat)) /\ outgoing \in Seq(Queued(Seq(Nat)))
      /\ processed \in Seq(Nat) /\ published \in Seq(Seq(Nat))
  BY Zenon DEF ExecTyped
<1>2. Execution!Tokens(incoming) \in Seq(Nat) /\ Execution!Tokens(outgoing) \in Seq(Seq(Nat))
  BY <1>1, TokensTyped, Zenon
<1> DEFINE a == Execution!Tokens(incoming)
           b == Execution!Tokens(outgoing)
<1> HIDE DEF a, b
<1>3. processed \o a \in Seq(Nat) /\ published \o b \in Seq(Seq(Nat))
  BY <1>1, <1>2, ConcatProperties, Zenon DEF a, b
<1> QED BY <1>3, Zenon DEF a, b, Requests, Responses

\* The offered row asks for work and is accepted.
LEMMA Accepted ==
  ASSUME Execution!ConstantsAssumption, cursor \in Nat \ {0}, NEW req \in Seq(Nat), Execution!Lists(req, Execution!Enabled(cursor)),
         accepted = Len(req) % CounterModulus, rows' = rows,
         Execution!Offer.active = "1", Execution!Offer.enable = "1", cursor' = cursor + 1, Execution!Count
  PROVE  /\ Execution!Lists(req \o <<cursor>>, Execution!Enabled(cursor)')
         /\ accepted' = Len(req \o <<cursor>>) % CounterModulus /\ accepted' \in Nat
<1>1. Execution!Enabled(cursor)' = Execution!Enabled(cursor) \cup {cursor}
  <2>1. 1 .. (cursor' - 1) = (1 .. (cursor - 1)) \cup {cursor}
    OBVIOUS
  <2>2. rows[cursor].active = "1" /\ rows[cursor].enable = "1"
    BY Zenon DEF Execution!Offer
  <2> QED BY <2>1, <2>2, Zenon DEF Execution!Enabled
<1>2. Append(req, cursor) = req \o <<cursor>> /\ Len(Append(req, cursor)) = Len(req) + 1 /\ Len(req) \in Nat
  BY AppendIsConcat, AppendProperties
<1>3. Execution!Enabled(cursor) \in SUBSET Nat /\ \A x \in Execution!Enabled(cursor) : x < cursor
  BY DEF Execution!Enabled
<1>4. Execution!Lists(Append(req, cursor), Execution!Enabled(cursor) \cup {cursor})
  BY <1>3, ListGrows, Zenon
<1>5. accepted' = (Len(req) + 1) % CounterModulus /\ accepted' \in Nat
  <2>1. CounterModulus \in Nat \ {0}
    BY Zenon DEF Execution!ConstantsAssumption
  <2>2. PICK n \in Nat : n = Len(req)
    BY <1>2, Zenon
  <2>3. accepted' = ((n % CounterModulus) + 1) % CounterModulus
    BY <2>2, Zenon DEF Execution!Count
  <2>4. ((n % CounterModulus) + 1) % CounterModulus = (n + 1) % CounterModulus
    BY <2>1, CountWraps, Zenon
  <2>5. (n + 1) % CounterModulus \in Nat
    BY <2>1, Z3
  <2> QED BY <2>2, <2>3, <2>4, <2>5, Zenon
<1> QED BY <1>1, <1>2, <1>4, <1>5, Zenon

\* It does not ask for work, or is not accepted.
LEMMA NotAccepted ==
  ASSUME cursor \in Nat \ {0}, NEW req, Execution!Lists(req, Execution!Enabled(cursor)), rows' = rows,
         cursor' = cursor \/ (cursor' = cursor + 1 /\ ~(Execution!Offer.active = "1" /\ Execution!Offer.enable = "1"))
  PROVE  Execution!Lists(req, Execution!Enabled(cursor)')
<1>1. Execution!Enabled(cursor)' = Execution!Enabled(cursor)
  <2>1. CASE cursor' = cursor
    BY <2>1, Zenon DEF Execution!Enabled
  <2>2. CASE cursor' = cursor + 1 /\ ~(Execution!Offer.active = "1" /\ Execution!Offer.enable = "1")
    <3>1. 1 .. (cursor' - 1) = (1 .. (cursor - 1)) \cup {cursor}
      BY <2>2
    <3> QED BY <2>2, <3>1, Zenon DEF Execution!Enabled, Execution!Offer
  <2> QED BY <2>1, <2>2, Zenon
<1> QED BY <1>1, Zenon

\* A row that has been passed has no unknown bit that matters.
LEMMA PassedClean ==
  ASSUME cursor \in Nat \ {0}, Execution!FailsAtFirstUnknown, rows' = rows, status' # "failed",
         cursor' = cursor \/ (cursor' = cursor + 1 /\ ~Execution!Faulty(Execution!Offer))
  PROVE  Execution!FailsAtFirstUnknown'
<1>1. \A i \in 1 .. (cursor' - 1) : ~Execution!Faulty(rows[i])
  BY DEF Execution!FailsAtFirstUnknown, Execution!Offer
<1> QED BY <1>1, Zenon DEF Execution!FailsAtFirstUnknown, Execution!Faulty

\* What an offered row is.
LEMMA OfferTyped ==
  ASSUME Execution!ConstantsAssumption, ExecTyped, Execution!Present
  PROVE  /\ Execution!Offer.active \in Execution!Pin /\ Execution!Offer.enable \in Execution!Pin /\ Execution!Offer.known \in BOOLEAN
         /\ Execution!Offer.valid \in BOOLEAN
<1>1. rows \in [1 .. MaxRows -> Rows] /\ cursor \in Nat \ {0} /\ Rows \subseteq Execution!Row /\ MaxRows \in Nat
  BY Zenon DEF ExecTyped, Execution!ConstantsAssumption
<1>2. Len(rows) = MaxRows
  BY <1>1
<1>3. rows[cursor] \in Execution!Row
  BY <1>1, <1>2 DEF Execution!Present
<1> QED BY <1>3, Zenon DEF Execution!Offer, Execution!Row

\* A sample that fails leaves the row it failed at.
LEMMA AbortStep ==
  ASSUME ExecInv, Execution!Abort, Execution!Faulty(Execution!Offer)
  PROVE  ExecInv'
<1>1. ExecTyped'
  BY Zenon DEF Execution!Abort, ExecInv, ExecTyped, Execution!inputs, Execution!architecture
<1>2. Execution!SerialExecution'
  <2>1. Requests' = Requests /\ Responses' = Responses /\ Execution!Enabled(cursor)' = Execution!Enabled(cursor)
    BY Zenon DEF Execution!Abort, Execution!inputs, Execution!architecture, Requests, Responses, Execution!Tokens, Execution!Enabled
  <2>2. Execution!Lists(Requests, Execution!Enabled(cursor)) /\ Answers(Responses, processed)
        /\ accepted = Len(Requests) % CounterModulus
    BY SerialParts, Zenon DEF ExecInv
  <2>3. Execution!Lists(Requests', Execution!Enabled(cursor)') /\ accepted' = Len(Requests') % CounterModulus
    BY <2>1, <2>2, Zenon DEF Execution!Abort, Execution!architecture
  <2>4. Answers(Responses, processed)'
    BY <2>1, <2>2, Zenon DEF Answers, Execution!Abort, Execution!inputs, Execution!architecture
  <2> QED BY <2>3, <2>4, SerialNext, Zenon
<1>3. Execution!FailsAtFirstUnknown'
  BY Zenon DEF ExecInv, Execution!FailsAtFirstUnknown, Execution!Abort, Execution!inputs, Execution!Faulty, Execution!Offer
<1> QED BY <1>1, <1>2, <1>3, Zenon DEF ExecInv

\* The functional entry: one row, one transaction.
LEMMA FunctionalStep ==
  ASSUME Execution!ConstantsAssumption, ExecInv, Execution!FunctionalCycle
  PROVE  ExecInv'
<1>1. ExecTyped /\ strategy = "functional" /\ status = "running" /\ Execution!Present
  BY Zenon DEF ExecInv, Execution!FunctionalCycle
<1>2. /\ Execution!Offer.active \in Execution!Pin /\ Execution!Offer.enable \in Execution!Pin /\ Execution!Offer.known \in BOOLEAN /\ Execution!Offer.valid \in BOOLEAN
  BY <1>1, OfferTyped, Zenon
<1>3. Execution!Executes <=> Execution!Offer.active = "1" /\ Execution!Offer.enable = "1"
  BY <1>1, <1>2, Zenon DEF Execution!Executes, Execution!And, Execution!Pin
<1>4. CASE Execution!Unclear \/ Execution!Refuses(Execution!Executes)
  <2>1. Execution!Faulty(Execution!Offer)
    BY <1>2, <1>3, <1>4, Zenon DEF Execution!Unclear, Execution!Refuses, Execution!Faulty
  <2> QED BY <1>4, <2>1, AbortStep, Zenon DEF Execution!FunctionalCycle
<1>5. CASE ~(Execution!Unclear \/ Execution!Refuses(Execution!Executes))
  <2>1. /\ processed' = IF Execution!Executes THEN Append(processed, cursor) ELSE processed
        /\ IF Execution!Executes THEN Execution!Count ELSE UNCHANGED accepted
        /\ published' = IF Execution!Executes /\ Execution!Offer.valid THEN Append(published, processed') ELSE published
        /\ Execution!Advance(Execution!Offer.active = "1")
        /\ UNCHANGED <<rows, profile, start, strategy>>
        /\ UNCHANGED <<cycle, on, incoming, outgoing, gap, status>>
    BY <1>5, Zenon DEF Execution!FunctionalCycle, Execution!inputs
  <2>2. /\ incoming = <<>> /\ outgoing = <<>> /\ cursor \in Nat \ {0}
        /\ processed \in Seq(Nat) /\ published \in Seq(Seq(Nat)) /\ accepted \in Nat
    BY <1>1, Zenon DEF ExecTyped
  <2>3. Execution!Tokens(<<>>) = <<>>
    BY DEF Execution!Tokens
  <2>4. /\ Requests = processed /\ Responses = published
        /\ Requests' = processed' \o <<>> /\ Responses' = published' \o <<>>
    BY <2>1, <2>2, <2>3, ConcatEmptySeq, Zenon DEF Requests, Responses, Execution!Tokens
  <2>5. /\ Execution!Lists(processed, Execution!Enabled(cursor)) /\ Answers(published, processed)
        /\ accepted = Len(processed) % CounterModulus
    BY <2>4, SerialParts, Zenon DEF ExecInv
  <2>6. /\ ~Execution!Faulty(Execution!Offer)
        /\ cursor' = cursor + 1
    <3>1. ~Execution!Faulty(Execution!Offer)
      BY <1>1, <1>2, <1>3, <1>5, Zenon DEF Execution!Unclear, Execution!Refuses, Execution!Faulty, Execution!Pin
    <3>2. Execution!Offer.active # "x"
      BY <1>1, <1>5, Zenon DEF Execution!Unclear
    <3> QED BY <1>1, <1>2, <2>1, <3>1, <3>2, Zenon DEF Execution!Advance, Execution!Pin
  <2>7. Execution!FailsAtFirstUnknown'
    BY <1>1, <2>1, <2>2, <2>6, PassedClean, Zenon DEF ExecInv
  <2>8. CASE Execution!Executes
    <3>1. processed' = Append(processed, cursor) /\ Execution!Count
      BY <2>1, <2>8, Zenon
    <3>2. processed' = processed \o <<cursor>> /\ processed' \in Seq(Nat)
      BY <2>2, <3>1, AppendIsConcat, AppendProperties
    <3>3. Execution!Lists(processed', Execution!Enabled(cursor)') /\ accepted' = Len(processed') % CounterModulus /\ accepted' \in Nat
      BY <1>3, <2>1, <2>2, <2>5, <2>6, <2>8, <3>1, <3>2, Accepted, Zenon
    <3>4. published' \in Seq(Seq(Nat)) /\ Answers(published', processed')
      <4>1. CASE Execution!Offer.valid
        <5>1. published' = Append(published, Append(processed, cursor))
          BY <2>1, <2>8, <3>1, <4>1, Zenon
        <5>2. rows[cursor].valid /\ cursor \in Nat
          BY <2>2, <4>1, Zenon DEF Execution!Offer
        <5>3. Answers(Append(published, Append(processed, cursor)), Append(processed, cursor))
          BY <2>2, <2>5, <5>2, AnsweredRequest, Zenon
        <5>4. published' = Append(published, processed') /\ processed' \in Seq(Nat)
          BY <3>1, <3>2, <5>1, Zenon
        <5>5. published' \in Seq(Seq(Nat))
          BY <2>2, <5>4, AppendProperties, Zenon
        <5> QED BY <3>1, <5>1, <5>3, <5>5, Zenon
      <4>2. CASE ~Execution!Offer.valid
        BY <2>1, <2>2, <2>5, <3>1, <4>2, SilentRequest, Zenon DEF Execution!Offer
      <4> QED BY <4>1, <4>2, Zenon
    <3>5. Requests' = processed' /\ Responses' = published'
      BY <2>4, <3>2, <3>4, ConcatEmptySeq, Zenon
    <3>6. Answers(Responses, processed)'
      BY <2>1, <3>4, <3>5, Zenon DEF Answers
    <3>7. Execution!SerialExecution'
      BY <3>3, <3>5, <3>6, SerialNext, Zenon
    <3>8. ExecTyped'
      BY <1>1, <2>1, <2>2, <2>6, <3>2, <3>3, <3>4 DEF ExecTyped
    <3> QED BY <2>7, <3>7, <3>8, Zenon DEF ExecInv
  <2>9. CASE ~Execution!Executes
    <3>1. processed' = processed /\ accepted' = accepted /\ published' = published
      BY <2>1, <2>9, Zenon
    <3>2. Execution!Lists(processed', Execution!Enabled(cursor)')
      BY <1>3, <2>1, <2>2, <2>5, <2>6, <2>9, <3>1, NotAccepted, Zenon
    <3>3. Requests' = processed' /\ Responses' = published'
      BY <2>2, <2>4, <3>1, ConcatEmptySeq, Zenon
    <3>4. Answers(Responses, processed)'
      BY <2>1, <2>5, <3>1, <3>3, Zenon DEF Answers
    <3>5. Execution!SerialExecution'
      BY <2>5, <3>1, <3>2, <3>3, <3>4, SerialNext, Zenon
    <3>6. ExecTyped'
      BY <1>1, <2>1, <2>2, <2>6, <3>1 DEF ExecTyped
    <3> QED BY <2>7, <3>5, <3>6, Zenon DEF ExecInv
  <2> QED BY <2>8, <2>9, Zenon
<1> QED BY <1>4, <1>5, Zenon

\* The ingress queue over one cycle: what has been processed and what waits
\* grow by what is pushed.
LEMMA IngressMoves ==
  ASSUME Execution!ConstantsAssumption, ExecTyped, NEW pushed \in Seq(Nat), Execution!Ingress!Edge(Execution!Issues, pushed),
         processed' = IF Execution!Issues THEN Execution!Result ELSE processed
  PROVE  /\ incoming' \in Seq(Queued(Nat)) /\ processed' \in Seq(Nat)
         /\ Requests' = Requests \o pushed
<1>1. incoming \in Seq(Queued(Nat)) /\ processed \in Seq(Nat) /\ profile \in Profiles
  BY Zenon DEF ExecTyped
<1>2. PICK w \in Nat : w = profile.ingress.latency - 1
  <2>1. profile.ingress.latency \in Nat \ {0}
    BY <1>1, Zenon DEF Execution!ConstantsAssumption
  <2> QED BY <2>1
<1> DEFINE e == [i \in DOMAIN pushed |-> [token |-> pushed[i], left |-> w]]
<1>3. e \in Seq(Queued(Nat)) /\ Execution!Tokens(e) = pushed
  BY EnteringTokens, Zenon
<1>4. incoming' = Execution!Ingress!Aged(IF Execution!Issues THEN Tail(incoming) ELSE incoming) \o e
  BY <1>2, Zenon DEF Execution!Ingress!Edge, Execution!Ingress!Latency
<1> HIDE DEF e
<1>7. Joins(Requests, processed, Execution!Tokens(incoming)) /\ Joins(Requests \o pushed, Requests, Execution!Tokens(e))
  BY <1>3, Zenon DEF Joins, Requests
<1>5. CASE Execution!Issues
  <2>1. incoming # <<>>
    BY <1>5, Zenon DEF Execution!Issues, Execution!Ingress!Available
  <2>2. Tail(incoming) \in Seq(Queued(Nat))
    BY <1>1, <2>1, TokensTail, Zenon
  <2> DEFINE r == Execution!Ingress!Aged(Tail(incoming))
  <2>3. r \in Seq(Queued(Nat)) /\ Execution!Tokens(r) = Execution!Tokens(Tail(incoming))
    BY <2>2, IngressAged, Zenon
  <2>4. Joins(incoming', r, e)
    BY <1>4, <1>5, Zenon DEF Joins
  <2> HIDE DEF r
  <2>5. processed' = Append(processed, Head(incoming).token)
    BY <1>5, Zenon DEF Execution!Result
  <2>6. /\ Append(processed, Head(incoming).token) \in Seq(Nat)
        /\ Joins(Requests \o pushed, Append(processed, Head(incoming).token), Execution!Tokens(incoming'))
    BY <1>1, <1>3, <1>7, <2>1, <2>3, <2>4, QueueLoses, Zenon
  <2>7. incoming' \in Seq(Queued(Nat))
    BY <1>3, <2>3, <2>4, ConcatProperties, Zenon DEF Joins
  <2> QED BY <2>5, <2>6, <2>7, Zenon DEF Requests, Execution!Tokens, Joins
<1>6. CASE ~Execution!Issues
  <2> DEFINE r == Execution!Ingress!Aged(incoming)
  <2>1. r \in Seq(Queued(Nat)) /\ Execution!Tokens(r) = Execution!Tokens(incoming)
    BY <1>1, IngressAged, Zenon
  <2>2. Joins(incoming', r, e) /\ processed' = processed
    BY <1>4, <1>6, Zenon DEF Joins
  <2> HIDE DEF r
  <2>3. Joins(Requests \o pushed, processed, Execution!Tokens(incoming'))
    BY <1>1, <1>3, <1>7, <2>1, <2>2, QueueKeeps
  <2>4. incoming' \in Seq(Queued(Nat))
    BY <1>3, <2>1, <2>2, ConcatProperties, Zenon DEF Joins
  <2> QED BY <1>1, <2>2, <2>3, <2>4, Zenon DEF Requests, Execution!Tokens, Joins
<1> QED BY <1>5, <1>6, Zenon

\* The egress queue likewise.
LEMMA EgressMoves ==
  ASSUME Execution!ConstantsAssumption, ExecTyped, NEW pushed \in Seq(Seq(Nat)), Execution!Egress!Edge(Execution!Takes, pushed),
         published' = IF Execution!Takes THEN Append(published, Head(outgoing).token) ELSE published
  PROVE  /\ outgoing' \in Seq(Queued(Seq(Nat))) /\ published' \in Seq(Seq(Nat))
         /\ Responses' = Responses \o pushed
<1> DEFINE T == Seq(Nat)
<1>1. outgoing \in Seq(Queued(T)) /\ published \in Seq(T) /\ profile \in Profiles /\ pushed \in Seq(T)
  BY Zenon DEF ExecTyped
<1> HIDE DEF T
<1>2. PICK w \in Nat : w = profile.egress.latency - 1
  <2>1. profile.egress.latency \in Nat \ {0}
    BY <1>1, Zenon DEF Execution!ConstantsAssumption
  <2> QED BY <2>1
<1> DEFINE e == [i \in DOMAIN pushed |-> [token |-> pushed[i], left |-> w]]
<1>3. e \in Seq(Queued(T)) /\ Execution!Tokens(e) = pushed
  BY <1>1, EnteringTokens, Zenon
<1>4. outgoing' = Execution!Egress!Aged(IF Execution!Takes THEN Tail(outgoing) ELSE outgoing) \o e
  BY <1>2, Zenon DEF Execution!Egress!Edge, Execution!Egress!Latency
<1> HIDE DEF e
<1>7. Joins(Responses, published, Execution!Tokens(outgoing)) /\ Joins(Responses \o pushed, Responses, Execution!Tokens(e))
  BY <1>3, Zenon DEF Joins, Responses
<1>5. CASE Execution!Takes
  <2>1. outgoing # <<>>
    BY <1>5, Zenon DEF Execution!Takes, Execution!Egress!Available
  <2>2. Tail(outgoing) \in Seq(Queued(T))
    BY <1>1, <2>1, TokensTail, Zenon
  <2> DEFINE r == Execution!Egress!Aged(Tail(outgoing))
  <2>3. r \in Seq(Queued(T)) /\ Execution!Tokens(r) = Execution!Tokens(Tail(outgoing))
    BY <2>2, EgressAged, Zenon
  <2>4. Joins(outgoing', r, e)
    BY <1>4, <1>5, Zenon DEF Joins
  <2> HIDE DEF r
  <2>5. published' = Append(published, Head(outgoing).token)
    BY <1>5, Zenon
  <2>6. /\ Append(published, Head(outgoing).token) \in Seq(T)
        /\ Joins(Responses \o pushed, Append(published, Head(outgoing).token), Execution!Tokens(outgoing'))
    BY <1>1, <1>3, <1>7, <2>1, <2>3, <2>4, QueueLoses, Zenon
  <2>7. outgoing' \in Seq(Queued(T))
    BY <1>3, <2>3, <2>4, ConcatProperties, Zenon DEF Joins
  <2> QED BY <2>5, <2>6, <2>7, Zenon DEF Responses, Execution!Tokens, Joins, T
<1>6. CASE ~Execution!Takes
  <2> DEFINE r == Execution!Egress!Aged(outgoing)
  <2>1. r \in Seq(Queued(T)) /\ Execution!Tokens(r) = Execution!Tokens(outgoing)
    BY <1>1, EgressAged, Zenon
  <2>2. Joins(outgoing', r, e) /\ published' = published
    BY <1>4, <1>6, Zenon DEF Joins
  <2> HIDE DEF r
  <2>3. Joins(Responses \o pushed, published, Execution!Tokens(outgoing'))
    BY <1>1, <1>3, <1>7, <2>1, <2>2, QueueKeeps
  <2>4. outgoing' \in Seq(Queued(T))
    BY <1>3, <2>1, <2>2, ConcatProperties, Zenon DEF Joins
  <2> QED BY <1>1, <2>2, <2>3, <2>4, Zenon DEF Responses, Execution!Tokens, Joins, T
<1> QED BY <1>5, <1>6, Zenon

\* The responses after a cycle of the timing entry.
LEMMA TimingResponses ==
  ASSUME ExecTyped, Answers(Responses, processed), rows' = rows,
         processed' = IF Execution!Issues THEN Execution!Result ELSE processed
  PROVE  /\ Execution!Response \in Seq(Seq(Nat))
         /\ Responses' = Responses \o Execution!Response => Answers(Responses, processed)'
<1>1. Responses \in Seq(Seq(Nat)) /\ processed \in Seq(Nat) /\ incoming \in Seq(Queued(Nat))
  BY HistoriesTyped, Zenon DEF ExecTyped
<1>2. CASE ~Execution!Issues
  <2>1. Execution!Response = <<>> /\ processed' = processed /\ Execution!Response \in Seq(Seq(Nat))
    BY <1>2 DEF Execution!Response
  <2>2. Responses \o <<>> = Responses
    BY <1>1, ConcatEmptySeq, Zenon
  <2> QED BY <2>1, <2>2, Zenon DEF Answers
<1>3. CASE Execution!Issues
  <2>1. PICK t \in Nat : t = Head(incoming).token
    <3>1. incoming # <<>>
      BY <1>3, Zenon DEF Execution!Issues, Execution!Ingress!Available
    <3>2. Head(incoming) \in Queued(Nat)
      BY <1>1, <3>1, HeadTailProperties, Zenon
    <3> QED BY <3>2, Zenon DEF Queued
  <2>2. processed' = Append(processed, t) /\ Append(processed, t) \in Seq(Nat)
    BY <1>1, <1>3, <2>1 DEF Execution!Result
  <2>3. CASE rows[t].valid
    <3>1. Execution!Response = <<Append(processed, t)>>
      BY <1>3, <2>1, <2>3, Zenon DEF Execution!Response, Execution!Result
    <3>2. PICK h \in Seq(Nat) : h = Append(processed, t)
      BY <2>2, Zenon
    <3>3. Append(Responses, h) = Responses \o <<h>> /\ <<h>> \in Seq(Seq(Nat))
      BY <1>1, AppendIsConcat
    <3>4. Answers(Append(Responses, Append(processed, t)), Append(processed, t))
      BY <1>1, <2>3, AnsweredRequest, Zenon
    <3>5. Responses' = Responses \o Execution!Response => Responses' = Append(Responses, h)
      BY <3>1, <3>2, <3>3, Zenon
    <3>6. ASSUME Responses' = Responses \o Execution!Response PROVE Answers(Responses', processed')
      BY <2>2, <3>2, <3>4, <3>5, <3>6, Zenon
    <3> QED BY <3>1, <3>2, <3>3, <3>6, Zenon DEF Answers
  <2>4. CASE ~rows[t].valid
    <3>1. Execution!Response = <<>> /\ Execution!Response \in Seq(Seq(Nat))
      BY <2>1, <2>4 DEF Execution!Response
    <3>2. Responses \o <<>> = Responses
      BY <1>1, ConcatEmptySeq, Zenon
    <3>3. Answers(Responses, Append(processed, t))
      BY <1>1, <2>4, SilentRequest, Zenon
    <3>4. ASSUME Responses' = Responses \o Execution!Response PROVE Answers(Responses', processed')
      BY <2>2, <3>1, <3>2, <3>3, <3>4, Zenon
    <3> QED BY <3>1, <3>4, Zenon DEF Answers
  <2> QED BY <2>3, <2>4, Zenon
<1> QED BY <1>2, <1>3, Zenon

\* A cycle of the timing entry preserves the invariant.
LEMMA TimingStep ==
  ASSUME Execution!ConstantsAssumption, ExecInv, Execution!TimingCycle
  PROVE  ExecInv'
<1>1. ExecTyped /\ strategy = "timing" /\ status = "running" /\ cursor \in Nat \ {0}
  BY Zenon DEF ExecInv, ExecTyped, Execution!TimingCycle
<1>2. ASSUME Execution!Present
      PROVE  /\ Execution!Offer.active \in Execution!Pin /\ Execution!Offer.enable \in Execution!Pin
             /\ Execution!Offer.known \in BOOLEAN /\ Execution!Offer.valid \in BOOLEAN
  BY <1>1, <1>2, OfferTyped, Zenon
<1>3. CASE Execution!Unclear \/ Execution!Refuses(Execution!Pushes)
  <2>1. Execution!Faulty(Execution!Offer)
    BY <1>3, Zenon DEF Execution!Unclear, Execution!Refuses, Execution!Pushes, Execution!Acknowledges, Execution!Faulty
  <2> QED BY <1>3, <2>1, AbortStep, Zenon DEF Execution!TimingCycle
<1>4. CASE ~(Execution!Unclear \/ Execution!Refuses(Execution!Pushes))
  <2> DEFINE pushed == IF Execution!Pushes THEN <<cursor>> ELSE <<>>
  <2>1. /\ Execution!Ingress!Edge(Execution!Issues, pushed) /\ Execution!Egress!Edge(Execution!Takes, Execution!Response)
        /\ processed' = IF Execution!Issues THEN Execution!Result ELSE processed
        /\ IF Execution!Pushes THEN Execution!Count ELSE UNCHANGED accepted
        /\ published' = IF Execution!Takes THEN Append(published, Head(outgoing).token) ELSE published
        /\ Execution!Advance(Execution!Acknowledges)
        /\ UNCHANGED <<rows, profile, start, strategy>> /\ UNCHANGED status
    BY <1>4, Zenon DEF Execution!TimingCycle, Execution!inputs
  <2>2. pushed \in Seq(Nat)
    BY <1>1
  <2>3. /\ Execution!Lists(Requests, Execution!Enabled(cursor)) /\ Answers(Responses, processed)
        /\ accepted = Len(Requests) % CounterModulus
        /\ Requests \in Seq(Nat) /\ Responses \in Seq(Seq(Nat))
    BY <1>1, SerialParts, HistoriesTyped, Zenon DEF ExecInv
  <2>4. Execution!Response \in Seq(Seq(Nat)) /\ (Responses' = Responses \o Execution!Response => Answers(Responses, processed)')
    BY <1>1, <2>1, <2>3, TimingResponses, Zenon
  <2>5. outgoing' \in Seq(Queued(Seq(Nat))) /\ published' \in Seq(Seq(Nat)) /\ Responses' = Responses \o Execution!Response
    BY <1>1, <2>1, <2>4, EgressMoves, Zenon
  <2>6. incoming' \in Seq(Queued(Nat)) /\ processed' \in Seq(Nat) /\ Requests' = Requests \o pushed
    <3> HIDE DEF pushed
    <3> QED BY <1>1, <2>1, <2>2, IngressMoves, Zenon
  <2>7. Answers(Responses, processed)'
    BY <2>4, <2>5, Zenon
  <2>8. cursor' = cursor \/ (cursor' = cursor + 1 /\ ~Execution!Faulty(Execution!Offer))
    <3>1. cursor' = cursor \/ (cursor' = cursor + 1 /\ Execution!Present /\ (Execution!Acknowledges \/ Execution!Offer.active = "0"))
      BY <2>1, Zenon DEF Execution!Advance
    <3>2. ASSUME Execution!Present, Execution!Acknowledges \/ Execution!Offer.active = "0" PROVE ~Execution!Faulty(Execution!Offer)
      BY <1>2, <1>4, <3>2, Zenon DEF Execution!Unclear, Execution!Refuses, Execution!Pushes, Execution!Acknowledges, Execution!Faulty, Execution!Pin
    <3> QED BY <3>1, <3>2, Zenon
  <2>9. Execution!FailsAtFirstUnknown'
    BY <1>1, <2>1, <2>8, PassedClean, Zenon DEF ExecInv
  <2>10. /\ Execution!Lists(Requests', Execution!Enabled(cursor)') /\ accepted' = Len(Requests') % CounterModulus
         /\ accepted' \in Nat
    <3>1. CASE Execution!Pushes
      <4>1. Execution!Offer.active = "1" /\ Execution!Offer.enable = "1" /\ cursor' = cursor + 1 /\ Execution!Count
        BY <2>1, <3>1, Zenon DEF Execution!Pushes, Execution!Acknowledges, Execution!Advance
      <4>2. Requests' = Requests \o <<cursor>>
        BY <2>6, <3>1, Zenon
      <4>3. PICK r \in Seq(Nat) : r = Requests
        BY <2>3, Zenon
      <4>4. /\ Execution!Lists(r \o <<cursor>>, Execution!Enabled(cursor)')
            /\ accepted' = Len(r \o <<cursor>>) % CounterModulus /\ accepted' \in Nat
        BY <1>1, <2>1, <2>3, <4>1, <4>3, Accepted, Zenon
      <4> QED BY <4>2, <4>3, <4>4, Zenon
    <3>2. CASE ~Execution!Pushes
      <4>1. accepted' = accepted /\ Requests' = Requests
        BY <2>1, <2>3, <2>6, <3>2, ConcatEmptySeq, Zenon
      <4>2. cursor' = cursor \/ (cursor' = cursor + 1 /\ ~(Execution!Offer.active = "1" /\ Execution!Offer.enable = "1"))
        BY <2>1, <3>2, Zenon DEF Execution!Advance, Execution!Pushes, Execution!Acknowledges
      <4>3. Execution!Lists(Requests, Execution!Enabled(cursor)')
        BY <1>1, <2>1, <2>3, <4>2, NotAccepted, Zenon
      <4>4. accepted \in Nat
        BY <1>1, Zenon DEF ExecTyped
      <4> QED BY <2>3, <4>1, <4>3, <4>4, Zenon
    <3> QED BY <3>1, <3>2, Zenon
  <2>11. Execution!SerialExecution'
    BY <2>7, <2>10, SerialNext, Zenon
  <2>12. ExecTyped'
    <3>1. rows' = rows /\ profile' = profile /\ strategy' # "functional"
      BY <1>1, <2>1, Zenon
    <3>2. cursor' \in Nat \ {0}
      BY <1>1, <2>8
    <3>3. rows \in [1 .. MaxRows -> Rows] /\ profile \in Profiles
      BY <1>1, Zenon DEF ExecTyped
    <3> HIDE DEF pushed
    <3> QED BY <2>5, <2>6, <2>10, <3>1, <3>2, <3>3, Zenon DEF ExecTyped
  <2> QED BY <2>9, <2>11, <2>12, Zenon DEF ExecInv
<1> QED BY <1>3, <1>4, Zenon

\* A step that leaves the histories alone.
LEMMA SameExecution ==
  ASSUME ExecInv, UNCHANGED <<Execution!inputs, cycle, cursor, Execution!architecture, published>>, status' = "failed" => status = "failed"
  PROVE  ExecInv'
<1>1. ExecTyped'
  BY Zenon DEF ExecInv, ExecTyped, Execution!inputs, Execution!architecture
<1>2. Execution!SerialExecution'
  <2>1. Requests' = Requests /\ Responses' = Responses /\ Execution!Enabled(cursor)' = Execution!Enabled(cursor)
    BY Zenon DEF Execution!inputs, Execution!architecture, Requests, Responses, Execution!Tokens, Execution!Enabled
  <2>2. Execution!Lists(Requests, Execution!Enabled(cursor)) /\ Answers(Responses, processed)
        /\ accepted = Len(Requests) % CounterModulus
    BY SerialParts, Zenon DEF ExecInv
  <2>3. Execution!Lists(Requests', Execution!Enabled(cursor)') /\ accepted' = Len(Requests') % CounterModulus
    BY <2>1, <2>2, Zenon DEF Execution!architecture
  <2>4. Answers(Responses, processed)'
    BY <2>1, <2>2, Zenon DEF Answers, Execution!inputs, Execution!architecture
  <2> QED BY <2>3, <2>4, SerialNext, Zenon
<1>3. Execution!FailsAtFirstUnknown'
  BY Zenon DEF ExecInv, Execution!FailsAtFirstUnknown, Execution!inputs, Execution!Faulty, Execution!Offer
<1> QED BY <1>1, <1>2, <1>3, Zenon DEF ExecInv

\* The invariant holds of a model that has just been reset.
LEMMA ExecInitial ==
  ASSUME Execution!ConstantsAssumption, Execution!Init
  PROVE  ExecInv
<1>1. ExecTyped
  BY DEF Execution!Init, ExecTyped
<1>2. Requests = <<>> /\ Responses = <<>> /\ processed = <<>> /\ accepted = 0 /\ cursor = 1
  BY DEF Execution!Init, Requests, Responses, Execution!Tokens
<1>3. Execution!Enabled(cursor) = {}
  BY <1>2 DEF Execution!Enabled
<1>4. Execution!Lists(<<>>, {}) /\ Answers(<<>>, <<>>)
  BY DEF Execution!Lists, Answers
<1>5. 0 % CounterModulus = 0
  BY DEF Execution!ConstantsAssumption
<1>6. Execution!SerialExecution
  BY <1>2, <1>3, <1>4, <1>5, SerialParts, Zenon
<1>7. Execution!FailsAtFirstUnknown
  BY DEF Execution!Init, Execution!FailsAtFirstUnknown
<1> QED BY <1>1, <1>6, <1>7, Zenon DEF ExecInv

\* Every step preserves the invariant.
LEMMA ExecStep ==
  ASSUME Execution!ConstantsAssumption, ExecInv, [Execution!Next]_(Execution!vars)
  PROVE  ExecInv'
<1>1. CASE Execution!Finish
  BY <1>1, SameExecution, Zenon DEF Execution!Finish
<1>2. CASE UNCHANGED Execution!vars
  BY <1>2, SameExecution, Zenon DEF Execution!vars
<1> QED BY <1>1, <1>2, TimingStep, FunctionalStep, Zenon DEF Execution!Next

\* The inductive invariant holds in every reachable state.
THEOREM ExecutionInvariant == Execution!ConstantsAssumption => (Execution!Spec => []ExecInv)
<1> SUFFICES ASSUME Execution!ConstantsAssumption PROVE Execution!Spec => []ExecInv
  BY Zenon
<1>1. Execution!Init => ExecInv
  BY ExecInitial, Zenon
<1>2. ExecInv /\ [Execution!Next]_(Execution!vars) => ExecInv'
  BY ExecStep, Zenon
<1> QED BY <1>1, <1>2, PTL DEF Execution!Spec

\* For any rows, queue depths, latencies and interval, the timing and the
\* functional entry process the accepted requests one by one in the order of the
\* rows, and publish each valid response once, computed from the requests up to it.
THEOREM ExecutionSerial == Execution!ConstantsAssumption => (Execution!Spec => []Execution!SerialExecution)
<1> SUFFICES ASSUME Execution!ConstantsAssumption PROVE Execution!Spec => []Execution!SerialExecution
  BY Zenon
<1>1. Execution!Spec => []ExecInv
  BY ExecutionInvariant, Zenon
<1>2. ExecInv => Execution!SerialExecution
  BY Zenon DEF ExecInv
<1> QED BY <1>1, <1>2, PTL

\* For any rows and queues, both entries fail exactly at the first row that asks
\* for work with unknown data, and have accepted nothing of it.
THEOREM ExecutionFails == Execution!ConstantsAssumption => (Execution!Spec => []Execution!FailsAtFirstUnknown)
<1> SUFFICES ASSUME Execution!ConstantsAssumption PROVE Execution!Spec => []Execution!FailsAtFirstUnknown
  BY Zenon
<1>1. Execution!Spec => []ExecInv
  BY ExecutionInvariant, Zenon
<1>2. ExecInv => Execution!FailsAtFirstUnknown
  BY Zenon DEF ExecInv
<1> QED BY <1>1, <1>2, PTL

=============================================================================
