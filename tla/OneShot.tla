------------------------------ MODULE OneShot ------------------------------
(***************************************************************************)
(* What an account promises: signed operations take effect as wholes, in   *)
(* transactions that commit any number of them at a time, and no two       *)
(* operations that share a single-use value ever both do.                  *)
(***************************************************************************)
CONSTANTS
  Unit,         \* the signed operations
  Effects(_),   \* all that an operation does to the world
  Nonces(_)     \* the single-use values that it consumes

VARIABLE
  done          \* the effects of the committed transactions

Executed == {u \in Unit : Effects(u) # {} /\ Effects(u) \subseteq done}

\* A transaction commits the operations in B.
Commit(B) ==
  /\ \A u \in B : Effects(u) \cap done = {}
  /\ \A u \in B, v \in B \cup Executed : u # v => Nonces(u) \cap Nonces(v) = {}
  /\ done' = done \cup UNION {Effects(u) : u \in B}

Init == done = {}

Next == \E B \in SUBSET Unit : Commit(B)

Spec == Init /\ [][Next]_done
=============================================================================
