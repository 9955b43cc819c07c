--------------------------- MODULE RegisterArray ---------------------------
(***************************************************************************)
(* What the registers of a design promise: they are one array that changes *)
(* in single steps.  An edge moves every register by the pins of the step, *)
(* a level that is no edge only moves the clock, and a reset initializes   *)
(* all.  Nothing else is ever visible.                                     *)
(***************************************************************************)
CONSTANTS Registers, X

VARIABLES q, clock,   \* of every register
          pins        \* the inputs of the step

Init == q = [r \in Registers |-> X] /\ clock = [r \in Registers |-> FALSE]

Loaded(r) == IF pins.rst = "1" THEN pins.lane[r].init
             ELSE IF pins.lane[r].en = "1" THEN pins.lane[r].d ELSE q[r]

Known(r) == pins.rst = "1" \/ (pins.rst = "0" /\ pins.lane[r].en # "x")

Level ==
  /\ pins.clk = "0" \/ (pins.clk = "1" /\ \A r \in Registers : clock[r])
  /\ clock' = [r \in Registers |-> pins.clk = "1"] /\ q' = q

Edge ==
  /\ pins.clk = "1" /\ \A r \in Registers : ~clock[r] /\ Known(r)
  /\ clock' = [r \in Registers |-> TRUE]
  /\ q' = [r \in Registers |-> Loaded(r)]

Reset ==
  /\ clock' = [r \in Registers |-> FALSE]
  /\ q' = [r \in Registers |-> pins'.lane[r].init]

Next == Level \/ Edge \/ Reset

Spec == Init /\ [][Next]_<<q, clock>>

=============================================================================
