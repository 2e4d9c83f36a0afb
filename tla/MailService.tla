---------------------------- MODULE MailService ----------------------------
(***************************************************************************)
(* What NetBBS Link mail promises its users, whatever nodes, relays and    *)
(* retries are in between: a letter reaches its recipient's mailbox at     *)
(* most once, and what its sender is told came from the recipient.         *)
(*                                                                         *)
(* A letter that was given up may still arrive, and one that was refused   *)
(* may be accepted when it is sent again: "delivered" is reported only of  *)
(* a letter that is there, but an earlier refusal may be reported late.    *)
(***************************************************************************)
EXTENDS Naturals

CONSTANT Letters

VARIABLES
    report,   \* what the sender's Sent folder says of each letter
    copies,   \* how often it was put into its recipient's mailbox
    refused   \* letters a node of the recipient's has refused

vars == <<report, copies, refused>>

Report == {"unsent", "pending", "delivered", "bounced", "expired"}

Init ==
    /\ report = [l \in Letters |-> "unsent"]
    /\ copies = [l \in Letters |-> 0]
    /\ refused = {}

Tell(l, r) == report' = [report EXCEPT ![l] = r] /\ UNCHANGED <<copies, refused>>

Sent(l) == report[l] # "unsent"

Post(l) == ~Sent(l) /\ Tell(l, "pending")

Accept(l) ==
    /\ Sent(l)
    /\ copies[l] = 0
    /\ copies' = [copies EXCEPT ![l] = 1]
    /\ UNCHANGED <<report, refused>>

Refuse(l) ==
    /\ Sent(l)
    /\ refused' = refused \cup {l}
    /\ UNCHANGED <<report, copies>>

TellDelivered(l) == Sent(l) /\ copies[l] = 1 /\ Tell(l, "delivered")
TellBounced(l) == Sent(l) /\ l \in refused /\ Tell(l, "bounced")
TryAgain(l) == report[l] = "expired" /\ Tell(l, "pending")

(* One or several letters at a time: the time-outs of one pass. *)
GiveUp(S) ==
    /\ \A l \in S : report[l] = "pending"
    /\ report' = [l \in Letters |-> IF l \in S THEN "expired" ELSE report[l]]
    /\ UNCHANGED <<copies, refused>>

Next ==
    \/ \E l \in Letters :
          \/ Post(l) \/ Accept(l) \/ Refuse(l)
          \/ TellDelivered(l) \/ TellBounced(l) \/ TryAgain(l)
    \/ \E S \in SUBSET Letters : GiveUp(S)

Spec == Init /\ [][Next]_vars
=============================================================================
