---------------------------- MODULE LatencyQueue ----------------------------
(***************************************************************************)
(* What a queue lane promises: tokens leave in the order in which they     *)
(* were accepted, each exactly once, and the one accepted at some clock    *)
(* edge can leave Latency edges later and not before.  left counts the     *)
(* edges that an entry still has to wait.                                  *)
(***************************************************************************)
EXTENDS Naturals, Sequences

CONSTANT Tokens

VARIABLES shape,   \* depth, latency and policy, which do not change
          on,      \* the queue has been reset once
          q        \* entries, oldest first

Depth == shape.depth
Latency == shape.latency
DownstreamPop == shape.policy = "DownstreamPop"

Entry == [token : Tokens, left : 0 .. Latency - 1]

Available == on /\ q # <<>> /\ Head(q).left = 0

Init == on = FALSE /\ q = <<>>

Aged(s) == [i \in DOMAIN s |-> [s[i] EXCEPT !.left = IF @ = 0 THEN 0 ELSE @ - 1]]

Reset == on' = TRUE /\ q' = <<>>

\* One clock edge: at most one entry leaves and at most one enters; under the
\* DownstreamPop policy an entry may enter a full queue that loses one.
Edge(pop, pushed) ==
  /\ on
  /\ pop => Available
  /\ Len(pushed) <= 1
  /\ pushed # <<>> => Len(q) < Depth \/ (DownstreamPop /\ pop)
  /\ q' = Aged(IF pop THEN Tail(q) ELSE q) \o
          [i \in DOMAIN pushed |-> [token |-> pushed[i], left |-> Latency - 1]]
  /\ UNCHANGED on

Next ==
  /\ UNCHANGED shape
  /\ Reset \/ \E pop \in BOOLEAN, pushed \in {<<>>} \cup {<<t>> : t \in Tokens} : Edge(pop, pushed)

Spec == Init /\ [][Next]_<<shape, on, q>>
=============================================================================
