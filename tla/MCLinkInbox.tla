----------------------------- MODULE MCLinkInbox -----------------------------
(* Instances of LinkInbox for TLC. *)
EXTENDS LinkInbox, TLC

(* The server's requests are interchangeable: no action compares them, and
   no default value names one.  (The letters are not declared symmetric:
   NoJob names one of them.) *)
RequestSymmetry == Permutations(Requests)

=============================================================================
