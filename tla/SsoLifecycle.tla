----------------------------- MODULE SsoLifecycle -----------------------------
(***************************************************************************)
(* What a client of the change-request API may rely on, with no processes, *)
(* no GitHub and no failures: the state machine of a request (ADR-0009     *)
(* D-MSSO-13, with the cancel edges of the route) and the rule of one      *)
(* active request per file (D-MSSO-9).                                     *)
(***************************************************************************)
CONSTANT Keys

VARIABLE stage   \* [Keys -> stage]; "none" before the request exists

Active == {"submitted", "pr_open", "unknown_recovering"}

Edges == {
  <<"submitted", "pr_open">>,          \* branch and pull request created or found
  <<"submitted", "unknown_recovering">>, \* the outcome of the write is unknown
  <<"submitted", "failed">>,           \* refused, not found, or cancelled
  <<"unknown_recovering", "pr_open">>, \* found on GitHub
  <<"unknown_recovering", "submitted">>, \* branch only: the writer runs again
  <<"unknown_recovering", "failed">>,  \* nothing found, or cancelled
  <<"pr_open", "merged">>,
  <<"pr_open", "rejected">>,
  <<"pr_open", "failed">>,             \* cancelled
  <<"merged", "applied">> }

Init == stage = [k \in Keys |-> "none"]

Open(k) ==
  /\ stage[k] = "none"
  /\ \A j \in Keys : stage[j] \notin Active
  /\ stage' = [stage EXCEPT ![k] = "submitted"]

Move(k, to) ==
  /\ <<stage[k], to>> \in Edges
  /\ stage' = [stage EXCEPT ![k] = to]

Next == \E k \in Keys : Open(k) \/ \E e \in Edges : Move(k, e[2])

Spec == Init /\ [][Next]_stage
===============================================================================
