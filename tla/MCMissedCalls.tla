----------------------------- MODULE MCMissedCalls -----------------------------
(* TLC instance: a call with a missed event of one ring group member, an     *)
(* answer if there is one, and the backfill; one error or death.             *)
EXTENDS MissedCalls, TLC

CONSTANTS missed, answered

MCKind == (missed :> "missed") @@ (answered :> "answered") @@ (Poll :> "outcome")
=============================================================================
