---------------------------- MODULE MCMailCampaign ----------------------------
(* TLC instance: one member, two requests about suppressions, a worker and an *)
(* employee; the requests and the suppression rows are symmetric.             *)
EXTENDS MailCampaign, TLC
CONSTANTS a

MCMembers == <<a>>
MCSymmetry == Permutations(Clerks) \cup Permutations(Rows)
=============================================================================
