---------------------------- MODULE MCWebhookInbox ----------------------------
(* TLC instance: an order is created, which calls for two mails, and updated, *)
(* which calls for the second of them again.                                  *)
EXTENDS WebhookInbox, TLC

CONSTANTS w1, w2, m1, m2

MCMailsOf == (w1 :> <<m1, m2>>) @@ (w2 :> <<m2>>)
=============================================================================
