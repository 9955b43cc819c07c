---------------------------- MODULE MCDesignStep ----------------------------
(***************************************************************************)
(* Two subtrees, of two registers and of one, and one register of the root.*)
(***************************************************************************)
EXTENDS DesignStep

MCSize == <<2, 1, 1>>

=============================================================================
