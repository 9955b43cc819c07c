------------------------------ MODULE BitWidth ------------------------------
(***************************************************************************)
(* Registers of a width that depends on the largest number they hold.      *)
(***************************************************************************)
EXTENDS Naturals

\* 2^bit_width(n): the values of the register that is just wide enough for n.
Width[n \in Nat] == IF n = 0 THEN 1 ELSE 2 * Width[n \div 2]

=============================================================================
