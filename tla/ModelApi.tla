------------------------------ MODULE ModelApi ------------------------------
(***************************************************************************)
(* The life cycle that the model ABI promises its host                     *)
(* (include/gfsim/model_api.h): a step commits one cycle as a whole or     *)
(* fails and changes nothing but the mode, a failed model only leaves that *)
(* mode through reset, and a limit stops the model exactly when its cycle  *)
(* is reached.                                                             *)
(***************************************************************************)
EXTENDS Naturals

CONSTANTS Contents,      \* what a host can observe of a model
          IsReset(_, _)  \* contents before and after a reset

VARIABLES mode,      \* "New", "Created", "Configured", "Ready", "Completed", "Failed"
          cycles,    \* committed cycles
          limit,     \* {} or the cycle at which the model stops
          contents

Init ==
  /\ mode = "New"
  /\ cycles = 0
  /\ limit = {}
  /\ contents \in Contents

Create ==
  /\ mode = "New"
  /\ mode' \in {"Created", "Failed"}
  /\ UNCHANGED <<cycles, limit, contents>>

Configure ==
  /\ mode = "Created"
  /\ mode' = "Configured"
  /\ \A n, k \in limit' : n \in Nat \ {0} /\ n = k
  /\ UNCHANGED <<cycles, contents>>

Reset ==
  /\ mode \in {"Configured", "Ready", "Completed", "Failed"}
  /\ mode' = "Ready"
  /\ cycles' = 0
  /\ IsReset(contents, contents')
  /\ UNCHANGED limit

Commit ==
  /\ mode = "Ready"
  /\ cycles' = cycles + 1
  /\ mode' = IF cycles' \in limit THEN "Completed" ELSE "Ready"
  /\ contents' \in Contents
  /\ UNCHANGED limit

Fail ==
  /\ mode \in {"Configured", "Ready", "Completed"}
  /\ mode' = "Failed"
  /\ UNCHANGED <<cycles, limit, contents>>

Next == Create \/ Configure \/ Reset \/ Commit \/ Fail

Spec == Init /\ [][Next]_<<mode, cycles, limit, contents>>
=============================================================================
