------------------------------ MODULE MCSsoChange -----------------------------
(* Instances of SsoChange for TLC. *)
EXTENDS SsoChange, TLC

(* Every key derives a branch of its own. *)
MCOwnBranch == [k \in Keys |-> k]

(* The routes treat all handlers alike. *)
MCHandlerSymmetry == Permutations(Handlers)
===============================================================================
