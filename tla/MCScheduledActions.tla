------------------------- MODULE MCScheduledActions -------------------------
(* TLC instance of ScheduledActions: two actions of one intent, one asking  *)
(* for every revalidation and one for an open task and a purchase only.     *)
EXTENDS ScheduledActions, TLC

CONSTANTS a1, a2, s1, s2, c1, c2, m1, m2

MCIntentOf == [a \in Actions |-> "b2b_request"]
MCPolicyOf == [a \in Actions |-> IF a = a1 THEN {"open", "purchase", "call"} ELSE {"open", "purchase"}]

=============================================================================
