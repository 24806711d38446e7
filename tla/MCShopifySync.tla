--------------------------- MODULE MCShopifySync ---------------------------
(* TLC instance of ShopifySync: workers and request slots are symmetric in  *)
(* the safety runs.                                                         *)
EXTENDS ShopifySync, TLC

CONSTANTS w1, w2, q1, q2, orders

Symmetric == Permutations(Workers) \cup Permutations(Requests)

=============================================================================
