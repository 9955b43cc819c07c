--------------------------- MODULE MCSystemRunner ---------------------------
(* Two event groups with a gauge between them in descriptor order.         *)
EXTENDS SystemRunner

MCGroups == {1, 2, 3}
MCGauges == {2}

=============================================================================
