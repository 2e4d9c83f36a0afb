------------------------------ MODULE MCMailbox ------------------------------
(* Mailbox for TLC: a letter of each kind.                                   *)
EXTENDS Mailbox, TLC

CONSTANTS m1, m2, m3

MCKindsOf == (m1 :> {"local"}) @@ (m2 :> {"link"}) @@ (m3 :> {"system"})
=============================================================================
