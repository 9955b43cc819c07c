--------------------------- MODULE ResponseMemory ---------------------------
(***************************************************************************)
(* What a memory promises: each port answers a read with the entry as it   *)
(* was before the edge of the read, and the answer can be seen for two     *)
(* rising edges, until the next read or until reset.  Reset loses answers, *)
(* never contents.                                                         *)
(***************************************************************************)
EXTENDS Naturals

CONSTANT Zero

VARIABLES shape,    \* entries, byte lanes and read ports, which do not change
          mem,      \* entries
          answer,   \* answer[p]: nothing, or an entry and the edges it has been there
          request   \* nothing, or the write and the reads of the next edge

Lanes == 1 .. shape.lanes
Ports == 1 .. shape.ports
ZeroWord == [l \in Lanes |-> Zero]

\* Entries beyond the end read as zero and cannot be written.
Entry(a) == IF a < shape.depth THEN mem[a] ELSE ZeroWord

Init ==
  /\ mem = [a \in 0 .. shape.depth - 1 |-> ZeroWord]
  /\ answer = [p \in Ports |-> {}]
  /\ request = {}

\* Requests come and go; they change nothing by themselves.
Ask == UNCHANGED <<mem, answer>>

\* An answer is there for two edges.
Older(s) == {[r EXCEPT !.age = 1] : r \in {r \in s : r.age = 0}}

Edge ==
  \E e \in request :
    /\ mem' = [a \in DOMAIN mem |->
                 [l \in Lanes |->
                    IF e.w.valid = "1" /\ e.w.addr = a /\ l \in e.w.strb
                    THEN e.w.data[l] ELSE mem[a][l]]]
    /\ answer' = [p \in Ports |->
                    IF e.r[p].en = "1"
                    THEN {[data |-> Entry(e.r[p].addr), age |-> 0]}
                    ELSE Older(answer[p])]
    /\ request' = {}

Reset == answer' = [p \in Ports |-> {}] /\ request' = {} /\ UNCHANGED mem

Next == UNCHANGED shape /\ (Ask \/ Edge \/ Reset)

Spec == Init /\ [][Next]_<<shape, mem, answer, request>>

=============================================================================
