----------------------------- MODULE MCBilling -----------------------------
(***************************************************************************)
(* Small instances of Billing for TLC.  No action tells two orders, two    *)
(* subscriptions or two request slots apart.                               *)
(***************************************************************************)
EXTENDS Billing, TLC

Symmetry == Permutations(Orders) \cup Permutations(Subs) \cup Permutations(Requests)

=============================================================================
