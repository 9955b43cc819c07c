----------------------------- MODULE FourState -----------------------------
(***************************************************************************)
(* One-bit four-state logic (include/gfsim/four_state.h): "x" stands for   *)
(* unknown and for high impedance, which the operators treat alike.        *)
(***************************************************************************)

Pin == {"0", "1", "x"}

Bit(b) == IF b THEN "1" ELSE "0"

Not(a) == CASE a = "0" -> "1" [] a = "1" -> "0" [] OTHER -> "x"

\* A dominant operand decides whatever the other is.
And(a, b) == IF a = "0" \/ b = "0" THEN "0" ELSE IF a = "1" /\ b = "1" THEN "1" ELSE "x"
Or(a, b) == IF a = "1" \/ b = "1" THEN "1" ELSE IF a = "0" /\ b = "0" THEN "0" ELSE "x"

\* An unknown condition leaves what both arms agree on.
Select(c, a, b) == IF c = "1" THEN a ELSE IF c = "0" THEN b ELSE IF a = b THEN a ELSE "x"

\* case_eq against a literal: never unknown itself.
K1(a) == Bit(a = "1")
K0(a) == Bit(a = "0")

=============================================================================
