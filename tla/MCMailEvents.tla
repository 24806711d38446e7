----------------------------- MODULE MCMailEvents -----------------------------
(* TLC instance: one mail, its caller, a worker, an administrator and two    *)
(* events about it, in two requests; requests and events are symmetric.      *)
EXTENDS MailEvents, TLC

MCSymmetry == Permutations(Events) \cup Permutations(Hooks)
=============================================================================
