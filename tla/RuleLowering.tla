---------------------------- MODULE RuleLowering ----------------------------
(***************************************************************************)
(* How one rule becomes hardware: the pass that walks a rule's statements  *)
(* in source order, method calls expanded in place, gives every guard,     *)
(* branch, required value and resource a control, and materialises the     *)
(* equations of LowerTransactions.cpp over them.  The rule is not fixed:   *)
(* each step appends one statement, so the states with no open branch are  *)
(* the rules of any length whose branches nest at most MaxDepth deep.      *)
(*                                                                         *)
(* Beside the equations runs what the source means: one arm of a branch,   *)
(* statements in order, nothing at all when a guard is false.  There       *)
(* unknown data has some value, and an unknown control is a fault.         *)
(***************************************************************************)
EXTENDS FourState, Naturals, Sequences

CONSTANTS Owners,   \* the registers the rule writes
          Queues,   \* the queues it accesses
          Memories, \* the memories it accesses
          Authored, \* the values of the paths written in the source
          MaxDepth  \* bound on the nesting of branches

ASSUME ConstantsAssumption ==
    Owners \cap Pin = {} /\ Authored \subseteq Pin /\ MaxDepth \in Nat

VARIABLES
    pins,      \* of every queue: its ready policy, room, a head, another rule's pop
    prefix,    \* conjunction of the controls so far
    point,     \* the current source point, see Root
    branches,  \* the open branches, outermost first
    versions,  \* the candidate of every owner: data and raw intent
    demand,    \* the resource demand of the rule so far, given that of the rest
    flagged,   \* whether a reached control was unknown
    effects,   \* asserts and logs: the selected path
    accesses,  \* queue and memory accesses
    mode,      \* source semantics: running, held by a guard, or at fault
    state,     \* source semantics: the value of every owner, and whether it was written
    popped,    \* source semantics: the queues this rule has popped
    supply     \* source semantics: whether a queue has refused the rule

lowering == <<prefix, point, branches, versions, demand, flagged, effects, accesses>>
meaning == <<mode, state, popped, supply>>
vars == <<pins, lowering, meaning>>

(***************************************************************************)
(* path: the conjunction of the selections around the point; raw: that of  *)
(* all branch conditions; kept: the controls that no enclosing arm         *)
(* excludes.  selected and live: whether the source takes the selections,  *)
(* and all the branches, around the point.                                 *)
(***************************************************************************)
Root == [path |-> "1", raw |-> "1", kept |-> "1", selected |-> TRUE, live |-> TRUE]

Init ==
    /\ pins \in [Queues -> [downstream : BOOLEAN, room : Pin, head : Pin, other : Pin]]
    /\ prefix = "1"
    /\ point = Root
    /\ branches = <<>>
    /\ demand = [c \in Pin |-> c]
    /\ flagged = FALSE
    /\ effects = {}
    /\ accesses = {}
    /\ mode = "run"
    /\ popped = [q \in Queues |-> [path |-> "0", took |-> FALSE]]
    /\ supply = "open"
    /\ state \in [Owners -> [value : {"0", "1"}, written : {FALSE}]]
    /\ versions \in [Owners -> [data : Pin, intent : {"0"}]]
    /\ \A o \in Owners : versions[o].data \in {"x", state[o].value}

-----------------------------------------------------------------------------
(* A value is an input of the rule, or what an owner holds at this point.  *)

Value(v) == IF v \in Owners THEN versions[v].data ELSE v

Resolve(p) == IF p = "x" THEN {"0", "1"} ELSE {p}

Meanings(v) == IF v \in Owners THEN {state[v].value} ELSE Resolve(v)

(* The arms around a statement, and whether two statements exclude each other. *)
Arms == [i \in DOMAIN branches |-> branches[i].arm]

Disjoint(a, b) == \E i \in DOMAIN a \cap DOMAIN b : a[i] # b[i]

InPure == branches # <<>> /\ ~branches[Len(branches)].selection

\* A call, a check or a log makes selections of the branches around it.
NeedsSelection == ~InPure /\ UNCHANGED branches

-----------------------------------------------------------------------------
(* Admission: a control is passed when it is true, a selection when it is  *)
(* known, and either is passed by a rule that does not select it.          *)

Accepted(selection, raw) == IF selection THEN Or(K0(raw), K1(raw)) ELSE K1(raw)

\* Mutant: the control of an arm that is not selected must pass as well.
Bypass_Always(selection, raw) == Accepted(selection, raw)

Bypass(selection, raw) == Select(point.path, Accepted(selection, raw), "1")

AdmitControl(selection, raw) ==
    /\ prefix' = And(prefix, Bypass(selection, raw))
    /\ flagged' = (flagged \/ (And(prefix, point.path) = "1" /\ raw = "x"))

\* Mutant: an access is asked for as soon as it is reached, as a read is.
RetainControl_Early(raw, as) == as

\* The accesses whose retained prefix the control belongs to.
RetainControl(raw, as) ==
    {IF a.kind = "read" \/ Disjoint(a.arms, Arms) THEN a
     ELSE [a EXCEPT !.retained = And(@, raw)] : a \in as}

\* What the source says of a control that is needed as far as `needed' tells.
Meet(needed, passed, raw) ==
    mode' = IF mode # "run" \/ needed = "0" \/ passed THEN mode
            ELSE IF needed = "1" /\ raw = "0" THEN "held"
            ELSE "fault"

\* Mutant: what follows a false guard is still asked for.
Boundary_Open(raw, c) == c

\* Nothing after a guard that is not known to hold asks for a resource.
Boundary(raw, c) == Select(K1(raw), c, "1")

Supply(boundary, raw) ==
    supply' = IF supply = "open" /\ boundary /\ raw # "1" THEN "free" ELSE supply

\* The guard of a callable: the rule's own, or that of a method called here.
Guard(raw) ==
    /\ NeedsSelection
    /\ AdmitControl(FALSE, raw)
    /\ accesses' = RetainControl(Bypass(FALSE, raw), accesses)
    /\ point' = [point EXCEPT !.kept = And(@, Bypass(FALSE, raw))]
    /\ demand' = [c \in Pin |-> demand[Boundary(raw, c)]]
    /\ Meet(Bit(point.live), raw = "1", raw)
    /\ Supply(point.selected, raw)
    /\ UNCHANGED <<pins, versions, effects, state, popped>>

\* A use of a value that another rule may not produce in this cycle.
ValueRequire(path, available) == Select(path, available, "1")

Require(available, authored) ==
    LET path == And(point.raw, authored)
        raw == ValueRequire(path, available)
    IN  /\ AdmitControl(FALSE, raw)
        /\ accesses' = RetainControl(Bypass(FALSE, raw), accesses)
        /\ point' = [point EXCEPT !.kept = And(@, Bypass(FALSE, raw))]
        /\ demand' = [c \in Pin |-> demand[Boundary(raw, c)]]
        /\ Meet(path, available = "1", available)
        /\ Supply(point.selected, raw)
        /\ UNCHANGED <<pins, branches, versions, effects, state, popped>>

-----------------------------------------------------------------------------
(* Branches.  One that holds an effect, or that continues a loop, is a     *)
(* selection and has a control of its own, and so have those around it; a  *)
(* pure one only chooses between candidates.                               *)

Identity == [c \in Pin |-> c]

Frame(v, selection, taken, inside) ==
    [arm |-> TRUE, condition |-> Value(v), selection |-> selection,
     outer |-> point, inside |-> inside, taken |-> taken, entry |-> versions,
     thenEnd |-> versions, thenKept |-> "1", outerDemand |-> demand, thenDemand |-> Identity]

SelectionBranch(v) ==
    LET raw == Value(v)
        kept == And(point.kept, Bypass(TRUE, raw))
    IN  /\ Len(branches) < MaxDepth /\ ~InPure
        /\ AdmitControl(TRUE, raw)
        /\ accesses' = RetainControl(Bypass(TRUE, raw), accesses)
        /\ Meet(Bit(point.live), raw # "x", raw)
        /\ \E taken \in BOOLEAN :
             /\ Bit(taken) \in Meanings(v)
             /\ branches' = Append(branches, Frame(v, TRUE, taken, kept))
             /\ point' = [path |-> And(point.path, K1(raw)), raw |-> And(point.raw, raw),
                          kept |-> kept, selected |-> point.selected /\ taken,
                          live |-> point.live /\ taken]
        /\ demand' = Identity
        /\ UNCHANGED <<pins, versions, effects, state, popped, supply>>

PureBranch(v) ==
    /\ Len(branches) < MaxDepth
    /\ \E taken \in BOOLEAN :
         /\ Bit(taken) \in Meanings(v)
         /\ branches' = Append(branches, Frame(v, FALSE, taken, point.kept))
         /\ point' = [point EXCEPT !.raw = And(@, Value(v)), !.live = @ /\ taken]
    /\ UNCHANGED <<pins, prefix, versions, demand, flagged, effects, accesses, meaning>>

Innermost == branches[Len(branches)]

\* The second arm starts from the candidates the first one started from.
Else ==
    LET b == Innermost
    IN  /\ branches # <<>> /\ b.arm
        /\ branches' = [branches EXCEPT ![Len(branches)] =
             [@ EXCEPT !.arm = FALSE, !.thenEnd = versions, !.thenKept = point.kept,
                       !.thenDemand = demand]]
        /\ versions' = b.entry
        /\ point' = [path |-> IF b.selection THEN And(b.outer.path, K0(b.condition)) ELSE b.outer.path,
                     raw |-> And(b.outer.raw, Not(b.condition)),
                     kept |-> b.inside,
                     selected |-> b.outer.selected /\ (b.selection => ~b.taken),
                     live |-> b.outer.live /\ ~b.taken]
        /\ demand' = IF b.selection THEN Identity ELSE demand
        /\ UNCHANGED <<pins, prefix, flagged, effects, accesses, meaning>>

\* Mutant: the data joins, the intents do not.
Join_Intent(b) ==
    [o \in Owners |->
       [data |-> Select(b.condition, b.thenEnd[o].data, versions[o].data),
        intent |-> Or(b.thenEnd[o].intent, versions[o].intent)]]

Join(b) ==
    [o \in Owners |->
       [data |-> Select(b.condition, b.thenEnd[o].data, versions[o].data),
        intent |-> Select(b.condition, b.thenEnd[o].intent, versions[o].intent)]]

DemandJoin(b) ==
    IF b.selection
    THEN [c \in Pin |-> b.outerDemand[Select(b.condition, b.thenDemand[c], demand[c])]]
    ELSE demand

EndBranch ==
    LET b == Innermost
        depth == Len(branches) - 1
    IN  /\ branches # <<>> /\ ~b.arm
        /\ branches' = SubSeq(branches, 1, depth)
        /\ versions' = Join(b)
        /\ point' = [b.outer EXCEPT !.kept = And(b.thenKept, point.kept)]
        /\ demand' = DemandJoin(b)
        /\ accesses' = {[a EXCEPT !.arms = [i \in DOMAIN @ \cap 1..depth |-> @[i]]] : a \in accesses}
        /\ UNCHANGED <<pins, prefix, flagged, effects, meaning>>

-----------------------------------------------------------------------------
(* Statements.                                                             *)

Write(o, v, authored) ==
    /\ versions' = [versions EXCEPT ![o] =
         [data |-> Select(authored, Value(v), @.data), intent |-> Or(@.intent, authored)]]
    /\ \E r \in Meanings(v), a \in Resolve(authored) :
         state' = IF point.live /\ a = "1"
                  THEN [state EXCEPT ![o] = [value |-> r, written |-> TRUE]] ELSE state
    /\ UNCHANGED <<pins, prefix, point, branches, demand, flagged, effects, accesses,
                   mode, popped, supply>>

\* An assert or a log.
Effect ==
    /\ NeedsSelection
    /\ effects' = effects \union {[path |-> point.path, ran |-> point.live]}
    /\ UNCHANGED <<pins, prefix, point, versions, demand, flagged, accesses, meaning>>

\* An access, with the conjunction of the raw conditions around it.
AccessAt(r, kind, authored, kept) ==
    [resource |-> r, kind |-> kind, arms |-> Arms, raw |-> And(point.raw, authored),
     retained |-> kept, began |-> mode = "run", ran |-> IF point.live THEN authored ELSE "0"]

\* Mutant: a pop in this cycle makes room even in an empty queue.
Ready_NoHead(q, kind, credit) ==
    IF kind # "push" THEN pins[q].head
    ELSE IF ~pins[q].downstream THEN pins[q].room
    ELSE Or(pins[q].room, Or(credit, pins[q].other))

\* A head may be consumed; a slot may be filled when there is room or when the
\* head leaves in this cycle, by an earlier pop of this rule or by another rule.
Ready(q, kind, credit) ==
    IF kind # "push" THEN pins[q].head
    ELSE IF ~pins[q].downstream THEN pins[q].room
    ELSE Or(pins[q].room, And(pins[q].head, Or(credit, pins[q].other)))

\* The disjunction of the raw paths of the pops so far.
Credit(q) ==
    LET pops == {a \in accesses : a.resource = q /\ a.kind = "pop"}
    IN  IF \E a \in pops : a.raw = "1" THEN "1"
        ELSE IF \A a \in pops : a.raw = "0" THEN "0" ELSE "x"

QueueAccess(q, kind, authored) ==
    LET ready == Ready(q, kind, Credit(q))
        raw == Select(And(point.raw, authored), ready, "1")
        serial == Ready(q, kind, popped[q].path)
    IN  /\ NeedsSelection
        /\ kind # "peek" =>
             \A a \in accesses : a.resource = q /\ a.kind = kind => Disjoint(a.arms, Arms)
        /\ AdmitControl(FALSE, raw)
        /\ accesses' = RetainControl(Bypass(FALSE, raw), accesses \union
             {AccessAt(q, kind, authored, point.kept) : k \in {kind} \ {"peek"}})
        /\ point' = [point EXCEPT !.kept = And(@, Bypass(FALSE, raw))]
        /\ demand' = [c \in Pin |-> demand[Select(authored, And(ready, c), c)]]
        /\ Meet(IF point.live THEN authored ELSE "0", serial = "1", serial)
        /\ \E a \in Resolve(authored), r \in Resolve(Ready(q, kind, Bit(popped[q].took))) :
             /\ supply' = IF supply = "open" /\ point.live /\ a = "1" /\ r = "0"
                          THEN "refused" ELSE supply
             /\ popped' = IF kind = "pop" /\ point.live
                          THEN [popped EXCEPT ![q] = [path |-> Or(@.path, authored),
                                                      took |-> @.took \/ a = "1"]]
                          ELSE popped
        /\ UNCHANGED <<pins, versions, effects, state>>

\* An asynchronous read is asked for as soon as it is reached, a write with the rule.
MemoryAccess(m, kind, authored) ==
    /\ NeedsSelection
    /\ accesses' = accesses \union {AccessAt(m, kind, authored, point.kept)}
    /\ UNCHANGED <<pins, prefix, point, versions, demand, flagged, effects, meaning>>

\* The result of an earlier request, which may not have arrived.
MemoryResult(m, alive, authored) ==
    LET raw == Select(And(point.raw, authored), alive, "1")
    IN  /\ NeedsSelection
        /\ AdmitControl(FALSE, raw)
        /\ accesses' = RetainControl(Bypass(FALSE, raw), accesses)
        /\ point' = [point EXCEPT !.kept = And(@, Bypass(FALSE, raw))]
        /\ Meet(IF point.live THEN authored ELSE "0", alive = "1", alive)
        /\ UNCHANGED <<pins, versions, demand, effects, state, popped, supply>>

ControlStatement ==
    \/ \E raw \in Pin : Guard(raw)
    \/ \E available \in Pin, authored \in Authored : Require(available, authored)
    \/ \E v \in Pin \union Owners : SelectionBranch(v) \/ PureBranch(v)
    \/ Effect

WriteStatement ==
    \E o \in Owners, v \in Pin \union Owners, authored \in Authored : Write(o, v, authored)

MemoryStatement ==
    \E m \in Memories, authored \in Authored :
        \/ \E kind \in {"read", "write"} : MemoryAccess(m, kind, authored)
        \/ \E alive \in Pin : MemoryResult(m, alive, authored)

QueueStatement ==
    \E q \in Queues, kind \in {"pop", "push", "peek"}, authored \in Authored :
        QueueAccess(q, kind, authored)

Next ==
    \/ ControlStatement \/ WriteStatement \/ MemoryStatement \/ QueueStatement
    \/ Else \/ EndBranch

Spec == Init /\ [][Next]_vars
-----------------------------------------------------------------------------
(* The hardware of the complete rule.                                      *)

Complete == branches = <<>>

\* Mutant: a log of a rule that does not fire.
EffectPath_Reached(e) == e.path

EffectPath(e) == And(prefix, e.path)
WriteEnable(o) == And(prefix, versions[o].intent)
ProposalPath(a) == And(IF a.kind = "write" THEN prefix ELSE a.retained, a.raw)
MayExecute == Not(K0(demand["1"]))

(***************************************************************************)
(* The admission prefix is never unknown; it is true exactly when the      *)
(* source reaches the end of the rule so far, and a reached unknown        *)
(* control is recorded exactly when the source is at fault: a guard that   *)
(* turns false later does not withdraw it, one that was false before       *)
(* prevents it.                                                            *)
(***************************************************************************)
AdmissionExact ==
    /\ prefix = Bit(mode = "run")
    /\ flagged <=> mode = "fault"

(***************************************************************************)
(* An assert is evaluated and a log is emitted by the rules that fire and  *)
(* reach it in the source, and by no others.                               *)
(***************************************************************************)
EffectsExact == \A e \in effects : EffectPath(e) = Bit(mode = "run" /\ e.ran)

(***************************************************************************)
(* Whatever the unknown inputs are, the candidate the rule leaves in an    *)
(* owner is the value the source leaves there, where it is known, and the  *)
(* write enable is set when the source writes and clear when it does not.  *)
(***************************************************************************)
CandidatesSound ==
    Complete => \A o \in Owners :
        /\ versions[o].data \in {"x", state[o].value}
        /\ WriteEnable(o) # "x" => (WriteEnable(o) = "1" <=> mode = "run" /\ state[o].written)

(***************************************************************************)
(* A queue is pushed or popped, and a memory written, by the rules that    *)
(* fire and reach the access, although the prefix of an access leaves out  *)
(* the controls of the arms it excludes.  An asynchronous read is issued   *)
(* when it is reached, whatever comes after it.                            *)
(***************************************************************************)
ProposalsExact ==
    \A a \in accesses :
        ProposalPath(a) = IF (IF a.kind = "read" THEN a.began ELSE mode = "run")
                          THEN a.ran ELSE "0"

(***************************************************************************)
(* A rule that fires pops only a queue with a head and pushes only one     *)
(* with room or with a head that leaves in the same cycle; and it makes at *)
(* most one proposal on each port.                                         *)
(***************************************************************************)
ResourcesHeld ==
    \A a \in {p \in accesses : p.kind \in {"pop", "push"} /\ ProposalPath(p) # "0"} :
        /\ a.kind = "pop" /\ ProposalPath(a) = "1" => pins[a.resource].head = "1"
        /\ a.kind = "push" /\ ProposalPath(a) = "1" /\ pins[a.resource].room # "1" =>
             /\ pins[a.resource].downstream /\ pins[a.resource].head = "1"
             /\ \/ pins[a.resource].other = "1"
                \/ \E p \in accesses : p.kind = "pop" /\ p.resource = a.resource /\ ProposalPath(p) = "1"
        /\ \A p \in accesses : p.resource = a.resource /\ p.kind = a.kind /\ ProposalPath(p) # "0" => p = a

(***************************************************************************)
(* The knownness checks of a rule are waived only if, whatever the unknown *)
(* inputs are, a queue refuses the rule before any guard ends it; a rule   *)
(* that fires is never waived.                                             *)
(***************************************************************************)
WaivedOnlyIfRefused ==
    Complete =>
        /\ MayExecute = "0" => supply = "refused" /\ mode # "run"
        /\ demand["1"] = "1" => supply # "refused"
=============================================================================
