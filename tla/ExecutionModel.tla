--------------------------- MODULE ExecutionModel ---------------------------
(***************************************************************************)
(* A request/response model and the program that feeds it.  The compiler   *)
(* (ExecutionProjection.cpp) admits a worker between two queues, with a    *)
(* submit method, a transfer rule and a take method of a fixed form, and   *)
(* derives two entries from it: the timing one keeps the queues and the    *)
(* issue gap, the functional one calls the worker directly.  The adapter   *)
(* (_model_run.py) offers the input rows to either.                        *)
(*                                                                         *)
(* The worker is any deterministic one: its state is the sequence of the   *)
(* requests it has processed, and so is a response.  A request is named by *)
(* its row.                                                                *)
(***************************************************************************)
EXTENDS Integers, Sequences, FourState

CONSTANTS
    Rows,             \* the records of the input file
    MaxRows,
    Profiles,         \* the queues and the interval of a model
    Starts,           \* --consumer-start
    CounterModulus    \* of the acceptance counter, 2^8 in the examples

\* A request has its enable bit, is known or not in the other fields, and is
\* answered by a valid response or not.
Row == [active : Pin, enable : Pin, known : BOOLEAN, valid : BOOLEAN]

ASSUME ConstantsAssumption ==
    /\ Rows \subseteq Row
    /\ MaxRows \in Nat /\ Starts \subseteq Nat /\ CounterModulus \in Nat \ {0}
    /\ \A p \in Profiles :
         /\ {p.ingress.depth, p.ingress.latency, p.egress.depth, p.egress.latency} \subseteq Nat \ {0}
         /\ p.interval \in {1, 2}

VARIABLES
    rows, profile, start, strategy,     \* the run's inputs
    cycle,       \* the rising samples, up to start
    cursor,      \* the row that is offered next
    on,          \* the queues have been reset
    incoming, outgoing, gap,            \* ingress, egress, wait_state
    processed,   \* the worker
    accepted,    \* the acceptance counter
    published,   \* the valid completions that were seen
    status

inputs == <<rows, profile, start, strategy>>
architecture == <<on, incoming, outgoing, gap, processed, accepted>>
vars == <<inputs, cycle, cursor, architecture, published, status>>

Ingress == INSTANCE LatencyQueue WITH Tokens <- Nat, shape <- profile.ingress, q <- incoming
Egress == INSTANCE LatencyQueue WITH Tokens <- Seq(Nat), shape <- profile.egress, q <- outgoing

Init ==
    /\ rows \in [1..MaxRows -> Rows]
    /\ profile \in Profiles /\ start \in Starts
    /\ strategy \in {"timing", "functional"}
    /\ cycle = 0 /\ cursor = 1
    /\ on = TRUE /\ incoming = <<>> /\ outgoing = <<>> /\ gap = FALSE
    /\ processed = <<>> /\ accepted = 0
    /\ published = <<>>
    /\ status = "running"

Present == cursor <= Len(rows)
Offer == rows[cursor]

Count == accepted' = (accepted + 1) % CounterModulus

\* An offer that the model does not answer is repeated.
Advance(acknowledged) ==
    cursor' = IF Present /\ (acknowledged \/ Offer.active = "0") THEN cursor + 1 ELSE cursor

\* Unknown controls of an offer.
Unclear == Present /\ (Offer.active = "x" \/ (Offer.active = "1" /\ Offer.enable = "x"))

\* A sample that fails is discarded, and the adapter gives up.
Abort ==
    /\ status' = "failed"
    /\ UNCHANGED <<inputs, cycle, cursor, architecture, published>>

-----------------------------------------------------------------------------
(* The timing entry: the three transactions of one rising sample, which    *)
(* all see the old state.                                                  *)

Takes == cycle >= start /\ Egress!Available

\* The transfer rule: a request, and room for its response if that is valid.
Issues ==
    /\ ~gap /\ Ingress!Available
    /\ rows[Head(incoming).token].valid =>
         Len(outgoing) < profile.egress.depth \/ Takes

Result == Append(processed, Head(incoming).token)

\* Mutant: an invalid response is published as well.
Response_Always == IF Issues THEN <<Result>> ELSE <<>>

\* What the transfer rule pushes.
Response == IF Issues /\ rows[Head(incoming).token].valid THEN <<Result>> ELSE <<>>

\* submit: only an enabled request needs room, which a transfer makes.
Acknowledges ==
    /\ Present /\ Offer.active = "1"
    /\ Offer.enable = "1" => Len(incoming) < profile.ingress.depth \/ Issues

Pushes == Acknowledges /\ Offer.enable = "1"

\* Mutant: the request is not looked at before it is accepted.
Refuses_Never(taken) == FALSE

\* execution admission requires known request data
Refuses(taken) == taken /\ ~Offer.known

\* Mutant: the gap is set and never cleared.
NextGap_Stuck == profile.interval = 2 /\ (gap \/ Issues)

\* wait_state: a cycle in which it is set clears it.
NextGap == profile.interval = 2 /\ ~gap /\ Issues

TimingCycle ==
    /\ strategy = "timing" /\ status = "running"
    /\ IF Unclear \/ Refuses(Pushes)
       THEN Abort
       ELSE /\ Ingress!Edge(Issues, IF Pushes THEN <<cursor>> ELSE <<>>)
            /\ Egress!Edge(Takes, Response)
            /\ gap' = NextGap
            /\ processed' = IF Issues THEN Result ELSE processed
            /\ IF Pushes THEN Count ELSE UNCHANGED accepted
            /\ published' = IF Takes THEN Append(published, Head(outgoing).token) ELSE published
            /\ Advance(Acknowledges)
            /\ cycle' = IF cycle < start THEN cycle + 1 ELSE cycle
            /\ UNCHANGED <<inputs, status>>

-----------------------------------------------------------------------------
(* The functional entry: one transaction for one row.                      *)

Executes == Present /\ And(Offer.enable, Offer.active) = "1"

FunctionalCycle ==
    /\ strategy = "functional" /\ status = "running" /\ Present
    /\ IF Unclear \/ Refuses(Executes)
       THEN Abort
       ELSE /\ processed' = IF Executes THEN Append(processed, cursor) ELSE processed
            /\ IF Executes THEN Count ELSE UNCHANGED accepted
            /\ published' = IF Executes /\ Offer.valid THEN Append(published, processed') ELSE published
            /\ Advance(Offer.active = "1")
            /\ UNCHANGED <<inputs, cycle, on, incoming, outgoing, gap, status>>

\* The timing entry is given any number of cycles, the functional one as many as rows.
Finish ==
    /\ status = "running"
    /\ strategy = "functional" => ~Present
    /\ status' = IF Present THEN "unaccepted" ELSE "success"
    /\ UNCHANGED <<inputs, cycle, cursor, architecture, published>>

Next == TimingCycle \/ FunctionalCycle \/ Finish

Spec == Init /\ [][Next]_vars /\ WF_vars(TimingCycle) /\ WF_vars(FunctionalCycle)
-----------------------------------------------------------------------------
Tokens(q) == [i \in DOMAIN q |-> q[i].token]

\* The rows before n that ask for work.
Enabled(n) == {i \in 1..(n - 1) : rows[i].active = "1" /\ rows[i].enable = "1"}

\* The elements of S, each once, in ascending order.
Lists(s, S) == {s[i] : i \in DOMAIN s} = S /\ \A i, j \in DOMAIN s : i < j => s[i] < s[j]

(***************************************************************************)
(* Timing is invisible in the results: with either entry, at every moment, *)
(* the worker has processed the accepted requests in the order of the      *)
(* rows, each once, except for those still in the ingress queue; exactly   *)
(* the valid responses, each computed from that serial history, have been  *)
(* seen or are in the egress queue; and the counter counts every accepted  *)
(* request once.                                                           *)
(***************************************************************************)
SerialExecution ==
    LET requests == processed \o Tokens(incoming)
        responses == published \o Tokens(outgoing)
    IN /\ Lists(requests, Enabled(cursor))
       /\ Lists([i \in DOMAIN responses |-> Len(responses[i])],
                {k \in DOMAIN processed : rows[processed[k]].valid})
       /\ \A i \in DOMAIN responses : responses[i] = SubSeq(processed, 1, Len(responses[i]))
       /\ accepted = Len(requests) % CounterModulus

\* The first row with an unknown bit that the model may not ignore.
Faulty(r) == r.active = "x" \/ (r.active = "1" /\ (r.enable = "x" \/ (r.enable = "1" /\ ~r.known)))

(***************************************************************************)
(* A run fails at the first row that asks for work, or may do so, with     *)
(* unknown data, with both entries alike; unknown data in rows that ask    *)
(* for nothing fails no run.                                               *)
(***************************************************************************)
FailsAtFirstUnknown ==
    /\ \A i \in 1..(cursor - 1) : ~Faulty(rows[i])
    /\ status = "failed" => Faulty(Offer)

(***************************************************************************)
(* However the queues fill up, and whenever the consumer starts, a run     *)
(* with enough cycles accepts every row and empties both queues.           *)
(***************************************************************************)
Drains == <>(status # "running" \/ (~Present /\ incoming = <<>> /\ outgoing = <<>>))
=============================================================================
