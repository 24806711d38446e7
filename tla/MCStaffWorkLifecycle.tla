------------------------ MODULE MCStaffWorkLifecycle ------------------------
(* TLC instance: a customer without a stored phone or e-mail.  Two signals   *)
(* are of unknown contacts, by phone and by both identities, and two are     *)
(* resolved to the customer, one by e-mail and one by phone.                 *)
EXTENDS StaffWorkLifecycle, TLC

CONSTANTS e1, e2, e3, e4, c1, phone, mail

MCEventCustomer == (e1 :> None) @@ (e2 :> c1) @@ (e3 :> None) @@ (e4 :> c1)
MCEventKeys == (e1 :> {phone}) @@ (e2 :> {mail}) @@ (e3 :> {phone, mail}) @@ (e4 :> {phone})
MCCustomerKeys == c1 :> {}
MCEventAt == (e1 :> 2) @@ (e2 :> 1) @@ (e3 :> 3) @@ (e4 :> 2)
MCLockRank == (<<"contact", mail>> :> 1) @@ (<<"contact", phone>> :> 2)
              @@ (<<"customer", c1>> :> 3)
MCSymmetry == Permutations(Calls)
=============================================================================
