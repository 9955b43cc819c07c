--------------------------- MODULE MCWriteGrants ---------------------------
(***************************************************************************)
(* Designs over a condition A, two indices I and J and two constants: the  *)
(* expressions of a first derived node, those of a second over the first,  *)
(* and small menus of writers over them.  The third writer of Three is     *)
(* separated from one writer after the first two were from each other.     *)
(***************************************************************************)
EXTENDS WriteGrants

Raw(w) == [kind |-> "raw", args |-> <<>>, width |-> w, code |-> <<>>]
Const(w, k) == [kind |-> "raw", args |-> <<>>, width |-> w, code |-> <<k>>]
Op(kind, args) == [kind |-> kind, args |-> args, width |-> 1, code |-> <<>>]

A == 1
I == 2
J == 3
Zero == 4
One == 5
D == 6 \* the derived nodes
E == 7
Base == <<Raw(1), Raw(1), Raw(1), Const(1, 0), Const(1, 1)>>
Wide == <<Raw(1), Raw(1), Raw(2), Const(1, 0), Const(2, 1)>>

Compare == {Op(k, <<I, x>>) : k \in {"eq", "ne"}, x \in {J, Zero, One}}

First == {Op("not", <<A>>), Op("and", <<A, I>>), Op("or", <<A, J>>)} \cup Compare

Second == {Op("not", <<D>>), Op("and", <<A, D>>), Op("or", <<A, D>>),
           Op("eq", <<J, Zero>>), Op("ne", <<J, I>>), Op("eq", <<One, I>>), Op("eq", <<Zero, One>>),
           Op("select", <<D, A, A>>), Op("select", <<I, A, D>>), Op("select", <<D, J, A>>)} \cup
          {Op("select", <<A, y, z>>) : y \in {D, Zero, One}, z \in {D, Zero, One}}

Is(n) == {<<n, TRUE>>}
Isnt(n) == {<<n, FALSE>>}

Write(ts, f, n) == [path |-> ts, field |-> f, index |-> n]
Rule(gs, ws) == [guards |-> gs, writes |-> ws]
Single(ts, n) == Rule({}, {Write(ts, Whole, n)})

Two == {[nodes |-> Base \o <<d, e>>, writers |-> <<Single(t, at[1]), Single(u, at[2])>>] :
            d \in First, e \in Second, t \in {Is(A), Is(D), Isnt(D)}, u \in {Is(E), Isnt(E)},
            at \in {<<None, None>>, <<I, J>>, <<I, Zero>>}}

Three == {[nodes |-> Base \o <<d>>, writers |-> <<Single(t, I), Single(u, J), Single(w, n)>>] :
            d \in Compare, t \in {Is(D), Isnt(D)}, u \in {Is(A), Is(D)}, w \in {Is(A), Isnt(A)},
            n \in {None, One}}

\* Guards on the way to a write and beside it; a rule with two writes.
Guarded == {[nodes |-> Base \o <<d, Op("not", <<D>>)>>,
             writers |-> <<Rule({[node |-> D, under |-> s]}, {Write(t, f, I), Write(Isnt(A), "g", I)}),
                           Rule({[node |-> E, under |-> {}]}, {Write(Is(A), "f", at)})>>] :
            d \in Compare, s \in {{}, Is(A), Isnt(A)}, t \in {{}, Is(A)},
            f \in {Whole, "f", "g"}, at \in {None, Zero}}

\* Indices of different widths.
Widths == {[nodes |-> Wide \o <<Op(k, <<J, One>>)>>, writers |-> <<Single(t, n), Single(u, m)>>] :
            k \in {"eq", "ne"}, t \in {Is(A), Is(D)}, u \in {Isnt(A), Isnt(D), Is(A)},
            n \in {J, One}, m \in {I, J, Zero, One}}

MCDesigns == Two \cup Three \cup Guarded \cup Widths
=============================================================================
