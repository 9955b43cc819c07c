-------------------------- MODULE MCExecutionModel --------------------------
EXTENDS ExecutionModel

\* Idle, disabled with unknown data, valid, invalid, and three faulty rows.
MCRows ==
    {[active |-> "0", enable |-> "x", known |-> FALSE, valid |-> FALSE],
     [active |-> "1", enable |-> "0", known |-> FALSE, valid |-> FALSE],
     [active |-> "1", enable |-> "1", known |-> TRUE, valid |-> TRUE],
     [active |-> "1", enable |-> "1", known |-> TRUE, valid |-> FALSE],
     [active |-> "x", enable |-> "1", known |-> TRUE, valid |-> TRUE],
     [active |-> "1", enable |-> "x", known |-> TRUE, valid |-> TRUE],
     [active |-> "1", enable |-> "1", known |-> FALSE, valid |-> TRUE]}

Queue(d, l) == [depth |-> d, latency |-> l, policy |-> "DownstreamPop"]

\* TimedWordPipeline, TimedWordPipelineAlt and TimedDigestPipeline.
MCProfiles ==
    {[ingress |-> Queue(2, 1), egress |-> Queue(2, 3), interval |-> 1],
     [ingress |-> Queue(1, 1), egress |-> Queue(1, 1), interval |-> 2],
     [ingress |-> Queue(1, 2), egress |-> Queue(2, 1), interval |-> 1]}
=============================================================================
