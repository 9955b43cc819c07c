--------------------------- MODULE MCRuleLowering ---------------------------
(***************************************************************************)
(* The rules of at most MaxLength statements whose branches nest at most   *)
(* MaxDepth deep: with registers and a memory, or with a queue in every    *)
(* state.                                                                  *)
(***************************************************************************)
EXTENDS RuleLowering

CONSTANT MaxLength

VARIABLES focus,  \* which resources the rule is about
          length  \* its statements so far

MCInit ==
    /\ Init
    /\ length = 0
    /\ \/ focus = "state" /\ \A q \in Queues : pins[q] = [downstream |-> FALSE, room |-> "1",
                                                          head |-> "1", other |-> "0"]
       \/ /\ focus = "queues"
          /\ \A q \in Queues : pins[q].downstream \/ pins[q].other = "0"
          /\ \A o \in Owners : versions[o].data = "1"

MCNext ==
    /\ UNCHANGED focus
    /\ \/ /\ length < MaxLength
          /\ \/ ControlStatement
             \/ focus = "state" /\ (WriteStatement \/ MemoryStatement)
             \/ focus = "queues" /\ QueueStatement
          /\ length' = length + 1
       \/ (Else \/ EndBranch) /\ UNCHANGED length

MCSpec == MCInit /\ [][MCNext]_<<vars, focus, length>>
=============================================================================
