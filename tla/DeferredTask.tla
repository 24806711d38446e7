---------------------------- MODULE DeferredTask ----------------------------
(***************************************************************************)
(* What a deferred workflow action promises, whoever sweeps, cancels,      *)
(* routes or crashes: it stays hidden until it becomes one visible staff   *)
(* task or is dropped for good, and nothing leaves either end.             *)
(***************************************************************************)
CONSTANT Actions

VARIABLE state

DTInit == state = [a \in Actions |-> "absent"]

Become(a, from, to) ==
    /\ state[a] = from
    /\ state' = [state EXCEPT ![a] = to]

Defer(a)  == Become(a, "absent", "hidden")
Reveal(a) == Become(a, "hidden", "visible")
Drop(a)   == Become(a, "hidden", "dropped")

DTNext == \E a \in Actions : Defer(a) \/ Reveal(a) \/ Drop(a)

DTSpec == DTInit /\ [][DTNext]_state

=============================================================================
