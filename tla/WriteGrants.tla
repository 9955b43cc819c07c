---------------------------- MODULE WriteGrants -----------------------------
(***************************************************************************)
(* Several rules may write one state owner in one cycle when the compiler  *)
(* proves that no two of their writes can meet.  This module has the proof *)
(* (HardwareGrantProof.cpp), the pairs of writes it is asked about, and    *)
(* the equations that then merge the writers (materializeDomainCommit),    *)
(* evaluated on every input of a cycle.                                    *)
(*                                                                         *)
(* A value is the set of the numbers it may stand for: a four-state vector *)
(* with unknown bits stands for several.  Two values may be the same       *)
(* address when the sets meet, that is when no known bit differs.          *)
(***************************************************************************)
EXTENDS FourState, Naturals, Sequences

CONSTANTS
    Designs,  \* the expressions and the writers of one owner, see WellFormed
    Ordinals, \* the elements of the owner
    Fields    \* the fields of an element

VARIABLES
    design, \* .nodes: the expressions; .writers: the rules in schedule order
    phase,  \* proving, refused, or running the compiled design
    todo,   \* the pairs of writes still to be separated
    query,  \* the pair being separated, and the collision assumed for it
    cache,  \* what is required of a node: by collision, node and polarity
    values, \* of the nodes evaluated so far in this cycle
    commit  \* the writers merged so far, the data and the enable they make

proving == <<todo, query, cache>>
running == <<values, commit>>
vars == <<design, phase, proving, running>>

(***************************************************************************)
(* A node has a kind, operands among the nodes before it, a width and, for *)
(* a constant, its code.  A writer has guards, each evaluated under some   *)
(* conditions, and writes: the conditions of the write, the field and the  *)
(* index it selects.  A condition is a node and the truth value it takes.  *)
(***************************************************************************)
Whole == "whole" \* no field is selected
None == 0        \* no index is

Arity(kind) == CASE kind = "raw" -> 0
                 [] kind = "not" -> 1
                 [] kind = "select" -> 3
                 [] kind \in {"and", "or", "eq", "ne"} -> 2

Logic == {"not", "and", "or", "select"}

IsNode(nodes, n) ==
    LET d == nodes[n] IN
    /\ DOMAIN d.args = 1..Arity(d.kind)
    /\ \A k \in DOMAIN d.args : d.args[k] \in 1..(n - 1)
    /\ d.kind # "raw" => d.width = 1 /\ d.code = <<>>
    /\ d.kind \in Logic => \A k \in DOMAIN d.args : nodes[d.args[k]].width = 1
    /\ d.kind \in {"eq", "ne"} => nodes[d.args[1]].width = nodes[d.args[2]].width
    /\ d.code # <<>> => d.code[1] \in 0..(2^d.width - 1) /\ d.code = <<d.code[1]>>

Conditions(nodes) == {n \in DOMAIN nodes : nodes[n].width = 1} \X BOOLEAN

WellFormed(d) ==
    /\ d.nodes \in Seq([kind : {"raw", "eq", "ne"} \cup Logic, args : Seq(Nat),
                        width : Nat \ {0}, code : Seq(Nat)])
    /\ \A n \in DOMAIN d.nodes : IsNode(d.nodes, n)
    /\ d.writers \in Seq([guards : SUBSET [node : DOMAIN d.nodes, under : SUBSET Conditions(d.nodes)],
                          writes : SUBSET [path : SUBSET Conditions(d.nodes),
                                           field : Fields \cup {Whole},
                                           index : DOMAIN d.nodes \cup {None}]])
    /\ \A i \in DOMAIN d.writers : \A g \in d.writers[i].guards : d.nodes[g.node].width = 1

ASSUME DesignsAssumption ==
    /\ \A d \in Designs : WellFormed(d)
    /\ Whole \notin Fields

nodes == design.nodes
writers == design.writers

-----------------------------------------------------------------------------
(* The implication algebra.  A fact says that a node is known to be true   *)
(* or false, or with a code that it is known to equal or to differ from    *)
(* it.  A result is a set of facts, or that the case is impossible.        *)

Fact(n, holds, code) == [node |-> n, holds |-> holds, code |-> code]

Facts(fs) == [possible |-> TRUE, facts |-> fs]
Impossible == [possible |-> FALSE, facts |-> {}]

contradictory(f, g) ==
    /\ f.node = g.node
    /\ IF f.code = <<>> \/ g.code = <<>> THEN f.code = g.code /\ f.holds # g.holds
       ELSE IF f.code = g.code THEN f.holds # g.holds
       ELSE f.holds /\ g.holds

append(r, f) ==
    IF ~r.possible THEN r
    ELSE IF \E g \in r.facts : contradictory(g, f) THEN Impossible
    ELSE Facts(r.facts \cup {f})

AllFacts(rs) == UNION {r.facts : r \in rs}

conjunction(rs) ==
    IF \/ \E r \in rs : ~r.possible
       \/ \E f, g \in AllFacts(rs) : contradictory(f, g)
    THEN Impossible
    ELSE Facts(AllFacts(rs))

\* An impossible alternative leaves the others.
alternatives(rs) ==
    LET open == {r \in rs : r.possible} IN
    IF open = {} THEN Impossible
    ELSE Facts({f \in AllFacts(open) : \A r \in open : f \in r.facts})

constant(n) == nodes[n].code
Truth(n) == constant(n) # <<0>>

sameAddress(n, endpoint) ==
    n = endpoint \/ (constant(n) # <<>> /\ constant(n) = constant(endpoint))

collisionComparison(l, r, c) ==
    /\ c # <<>>
    /\ \/ sameAddress(l, c[1]) /\ sameAddress(r, c[2])
       \/ sameAddress(l, c[2]) /\ sameAddress(r, c[1])

\* Mutant: an answer given under one collision serves every query.
Key_Shared(c, n, p) == <<<<>>, n, p>>

Key(c, n, p) == <<c, n, p>>

\* An operand that was asked for before.
Operand(c, n, p) == cache[Key(c, n, p)]

requiredSelect(c, guard, yes, no, p) ==
    LET Of(n, q) == Operand(c, n, q)
        fixed == {n \in {yes, no} : constant(n) # <<>>} IN
    CASE yes = no -> Of(yes, p)
      [] yes # no /\ fixed = {yes, no} /\ Truth(yes) = Truth(no) ->
             IF Truth(yes) = p THEN Facts({}) ELSE Impossible
      [] yes # no /\ fixed = {yes, no} /\ Truth(yes) # Truth(no) -> Of(guard, Truth(yes) = p)
      [] yes # no /\ fixed = {no} ->
             IF p # Truth(no) THEN conjunction({Of(guard, TRUE), Of(yes, p)})
             ELSE alternatives({Of(guard, FALSE), Of(yes, p)})
      [] yes # no /\ fixed = {yes} ->
             IF p # Truth(yes) THEN conjunction({Of(guard, FALSE), Of(no, p)})
             ELSE alternatives({Of(guard, TRUE), Of(no, p)})
      [] yes # no /\ fixed = {} -> \* an unknown guard leaves what both arms agree on
             alternatives({conjunction({Of(guard, TRUE), Of(yes, p)}),
                           conjunction({Of(guard, FALSE), Of(no, p)}),
                           conjunction({Of(yes, p), Of(no, p)})})

\* Addresses that may be the same are not known to differ; nor need they be known equal.
requiredCompare(c, l, r, equal) ==
    LET start == IF collisionComparison(l, r, c) /\ ~equal THEN Impossible ELSE Facts({}) IN
    CASE constant(l) # <<>> /\ constant(r) # <<>> ->
             IF (constant(l) = constant(r)) = equal THEN start ELSE Impossible
      [] constant(l) # <<>> /\ constant(r) = <<>> -> append(start, Fact(r, equal, constant(l)))
      [] constant(l) = <<>> /\ constant(r) # <<>> -> append(start, Fact(l, equal, constant(r)))
      [] constant(l) = <<>> /\ constant(r) = <<>> -> start

requiredLogic(c, d, p) ==
    LET Of(k, q) == Operand(c, d.args[k], q) IN
    CASE d.kind = "not" -> Of(1, ~p)
      [] d.kind \in {"and", "or"} ->
             IF (d.kind = "and") = p THEN conjunction({Of(1, p), Of(2, p)})
             ELSE alternatives({Of(1, p), Of(2, p)})
      [] d.kind = "select" -> requiredSelect(c, d.args[1], d.args[2], d.args[3], p)
      [] d.kind \in {"eq", "ne"} ->
             requiredCompare(c, d.args[1], d.args[2], (d.kind = "eq") = p)
      [] d.kind = "raw" -> Facts({})

\* What is known when node n is known to have the truth value p.
required(c, n, p) ==
    append(IF constant(n) = <<>> THEN requiredLogic(c, nodes[n], p)
           ELSE IF Truth(n) = p THEN Facts({}) ELSE Impossible,
           Fact(n, p, <<>>))

-----------------------------------------------------------------------------
(* The pairs of writes of two rules, and the question asked about each.    *)

\* The writes of the rules.  The one with which a caller carries out what its
\* callee proposed (forwardedProposal) is not among them: the callee's stands for it.
\* A writer of the whole owner without rows of its own has one write, whose path is
\* the joined intent of its branches.
Writes == UNION {{[of |-> i, write |-> w] : w \in writers[i].writes} : i \in DOMAIN writers}

Pairs == {ab \in Writes \X Writes : ab[1].of < ab[2].of}

\* The conditions of a write, and the guards that are evaluated on its way.
path(a) ==
    a.write.path \cup
    {<<g.node, TRUE>> : g \in {h \in writers[a.of].guards : h.under \subseteq a.write.path}}

FieldsDisjoint(ab) ==
    /\ Whole \notin {ab[1].write.field, ab[2].write.field}
    /\ ab[1].write.field # ab[2].write.field

Indexed(ab) == None \notin {ab[1].write.index, ab[2].write.index}

Indices(ab) == <<ab[1].write.index, ab[2].write.index>>

ConstantsDiffer(ab) ==
    /\ Indexed(ab)
    /\ \A k \in {1, 2} : constant(Indices(ab)[k]) # <<>>
    /\ constant(Indices(ab)[1]) # constant(Indices(ab)[2])

\* Neither index is a constant and they differ in width: no claim is made.
Incomparable(ab) ==
    /\ Indexed(ab)
    /\ \A k \in {1, 2} : constant(Indices(ab)[k]) = <<>>
    /\ nodes[Indices(ab)[1]].width # nodes[Indices(ab)[2]].width

Idle == [data |-> [l \in Ordinals \X Fields |-> {0}], enable |-> "0", count |-> 0]

Init ==
    /\ design \in Designs
    /\ phase = "prove"
    /\ todo = Pairs
    /\ query = <<>>
    /\ cache = <<>>
    /\ values = <<>>
    /\ commit = Idle

\* The pair selects different fields or different constant elements.
Skip(ab) ==
    /\ query = <<>>
    /\ FieldsDisjoint(ab) \/ ConstantsDiffer(ab)
    /\ todo' = todo \ {ab}
    /\ UNCHANGED <<design, phase, query, cache, running>>

Decline(ab) ==
    /\ query = <<>>
    /\ ~FieldsDisjoint(ab) /\ Incomparable(ab)
    /\ phase' = "refused"
    /\ UNCHANGED <<design, proving, running>>

\* disjointAtAddress assumes that the two indices may be the same address.
Ask(ab) ==
    /\ query = <<>>
    /\ ~FieldsDisjoint(ab) /\ ~ConstantsDiffer(ab) /\ ~Incomparable(ab)
    /\ query' = <<ab, IF Indexed(ab) THEN Indices(ab) ELSE <<>>>>
    /\ UNCHANGED <<design, phase, todo, cache, running>>

Open == {n \in DOMAIN nodes : nodes[n].width = 1
                           /\ \E p \in BOOLEAN : Key(query[2], n, p) \notin DOMAIN cache}

(***************************************************************************)
(* One level of the recursion, operands first.  The code asks only for the *)
(* nodes and polarities its query reaches; an entry depends on nothing but *)
(* the entries of its operands, so the others change no answer.            *)
(***************************************************************************)
Require ==
    /\ query # <<>>
    /\ \E n \in Open :
        /\ \A m \in Open : n <= m
        /\ cache' = [k \in DOMAIN cache \cup {Key(query[2], n, p) : p \in BOOLEAN} |->
                        IF k \in DOMAIN cache THEN cache[k] ELSE required(query[2], n, k[3])]
    /\ UNCHANGED <<design, phase, todo, query, running>>

\* The work, depth, fact or query budget ends: the proof fails, not the pair.
Exhaust ==
    /\ query # <<>>
    /\ phase' = "refused"
    /\ UNCHANGED <<design, proving, running>>

PathResult(c, a) == conjunction({Operand(c, t[1], t[2]) : t \in path(a)})

disjoint(c, a, b) == ~conjunction({PathResult(c, a), PathResult(c, b)}).possible

Answer ==
    /\ query # <<>>
    /\ Open = {}
    /\ IF disjoint(query[2], query[1][1], query[1][2])
       THEN todo' = todo \ {query[1]} /\ query' = <<>> /\ UNCHANGED phase
       ELSE phase' = "refused" /\ UNCHANGED <<todo, query>>
    /\ UNCHANGED <<design, cache, running>>

Admit ==
    /\ todo = {} /\ query = <<>>
    /\ phase' = "run"
    /\ UNCHANGED <<design, proving, running>>

-----------------------------------------------------------------------------
(* One cycle of the compiled design: every node in order, then every       *)
(* writer merged into the owner's next value.                              *)

\* The numbers a vector of w four-state bits may stand for.
Patterns(w) ==
    {{k \in 0..(2^w - 1) : \A b \in 0..(w - 1) : v[b] \in {"x", Bit((k \div 2^b) % 2 = 1)}}
        : v \in [0..(w - 1) -> Pin]}

Known(p) == IF p THEN {1} ELSE {0}
Read(v) == IF v = {1} THEN "1" ELSE IF v = {0} THEN "0" ELSE "x"
Vector(b) == CASE b = "1" -> {1} [] b = "0" -> {0} [] OTHER -> {0, 1}

Equal(v, w) == IF v \cap w = {} THEN "0" ELSE IF \E k \in v : v = {k} /\ w = {k} THEN "1" ELSE "x"

\* What the operator of a node makes of the values of its operands.
Eval(d, v) ==
    LET Of(k) == Read(v[d.args[k]]) IN
    CASE d.kind = "not" -> Vector(Not(Of(1)))
      [] d.kind = "and" -> Vector(And(Of(1), Of(2)))
      [] d.kind = "or" -> Vector(Or(Of(1), Of(2)))
      [] d.kind = "select" -> Vector(Select(Of(1), Of(2), Of(3)))
      [] d.kind = "eq" -> Vector(Equal(v[d.args[1]], v[d.args[2]]))
      [] d.kind = "ne" -> Vector(Not(Equal(v[d.args[1]], v[d.args[2]])))

Outcomes(d) == IF d.code # <<>> THEN {{d.code[1]}}
               ELSE IF d.kind = "raw" THEN Patterns(d.width)
               ELSE {Eval(d, values)}

Evaluate ==
    /\ Len(values) < Len(nodes)
    /\ \E v \in Outcomes(nodes[Len(values) + 1]) : values' = Append(values, v)
    /\ UNCHANGED <<design, phase, proving, commit>>

Every(bits) == IF "0" \in bits THEN "0" ELSE IF bits \subseteq {"1"} THEN "1" ELSE "x"
Some(bits) == IF "1" \in bits THEN "1" ELSE IF bits \subseteq {"0"} THEN "0" ELSE "x"

Condition(t) == IF t[2] THEN Read(values[t[1]]) ELSE Not(Read(values[t[1]]))
Conjunct(ts) == Every({Condition(t) : t \in ts})

rawPath(w) == Conjunct(w.path)

\* A guard that is not reached does not hold the rule back.
Fire(i) == Every({Select(Conjunct(g.under), K1(Read(values[g.node])), "1") : g \in writers[i].guards})

\* The intent of a rule.  The join of two arms that both write makes it true where
\* this leaves it unknown; the masks of these writes are unknown all the same.
Enable(i) == And(Fire(i), Some({rawPath(w) : w \in writers[i].writes}))

\* Whether a write selects a leaf, and the address comparison when it has an index.
Mask(w, l) ==
    IF w.field \notin {Whole, l[2]} THEN "0"
    ELSE IF w.index = None THEN rawPath(w)
    ELSE And(rawPath(w), Equal({l[1]}, values[w.index]))

Effective(i, l) == And(Enable(i), Some({Mask(w, l) : w \in writers[i].writes}))

\* Data is named by the writers it may come from; 0 is what the owner holds.
Merge(base, guard, data) ==
    IF guard = "1" THEN data ELSE IF guard = "0" THEN base ELSE base \cup data

\* Mutant: a known enable hides an unknown one.
Combined_Or(e, f) == Or(e, f)

\* The common enable is unknown when either is.
Combined(e, f) == IF "x" \in {e, f} THEN "x" ELSE Or(e, f)

materializeDomainCommit ==
    /\ Len(values) = Len(nodes)
    /\ commit.count < Len(writers)
    /\ LET i == commit.count + 1 IN
       commit' = [data |-> [l \in Ordinals \X Fields |-> Merge(commit.data[l], Effective(i, l), {i})],
                  enable |-> IF i = 1 THEN Enable(i) ELSE Combined(commit.enable, Enable(i)),
                  count |-> i]
    /\ UNCHANGED <<design, phase, proving, values>>

NextCycle ==
    /\ Len(values) = Len(nodes)
    /\ commit.count = Len(writers)
    /\ values' = <<>>
    /\ commit' = Idle
    /\ UNCHANGED <<design, phase, proving>>

Prove == phase = "prove" /\ (\/ \E ab \in todo : Skip(ab) \/ Decline(ab) \/ Ask(ab)
                             \/ Require \/ Exhaust \/ Answer \/ Admit)
Run == phase = "run" /\ (Evaluate \/ materializeDomainCommit \/ NextCycle)

Next == Prove \/ Run

Spec == Init /\ [][Next]_vars

-----------------------------------------------------------------------------
Settled == phase = "run" /\ Len(values) = Len(nodes)

Granted(a) == And(Fire(a.of), rawPath(a.write)) = "1"

(***************************************************************************)
(* What disjoint and disjointAtAddress claim: two admitted writes of       *)
(* different rules are never both granted in one cycle unless they write   *)
(* different fields or addresses that are known to differ.  An unknown     *)
(* address counts as a collision.                                          *)
(***************************************************************************)
GrantsExclusive ==
    Settled => \A ab \in Pairs :
        Granted(ab[1]) /\ Granted(ab[2]) =>
            \/ FieldsDisjoint(ab)
            \/ Indexed(ab) /\ values[Indices(ab)[1]] \cap values[Indices(ab)[2]] = {}

(***************************************************************************)
(* What materializeDomainCommit and the common enable make of the writers: *)
(* a leaf where no writer's enable is unknown holds after the merge what   *)
(* its one writer wrote, whatever was merged after it, and keeps what it   *)
(* had when nobody wrote it.  A common enable that is false leaves every   *)
(* leaf alone, and one that is true rests on no unknown enable.            *)
(***************************************************************************)
CommitExact ==
    Settled /\ commit.count = Len(writers) =>
        /\ \A l \in Ordinals \X Fields :
            LET wrote == {i \in DOMAIN writers : Effective(i, l) = "1"} IN
            (\A i \in DOMAIN writers : Effective(i, l) # "x") =>
                commit.data[l] = IF wrote = {} THEN {0} ELSE wrote
        /\ commit.enable = "0" => \A l \in Ordinals \X Fields : commit.data[l] = {0}
        /\ commit.enable = "1" => \A i \in DOMAIN writers : Enable(i) # "x"

=============================================================================
