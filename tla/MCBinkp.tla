------------------------------- MODULE MCBinkp -------------------------------
(* Binkp for TLC: two files of the caller, one of the answerer.              *)
EXTENDS Binkp

CONSTANTS c1, c2, a1

MCFilesOf == [s \in Sides |-> IF s = "caller" THEN {c1, c2} ELSE {a1}]

\* A session without passwords, one the answerer holds no password for, one
\* with, and two that must be refused.
MCLogins ==
    {[password |-> "none", expected |-> FALSE], [password |-> "right", expected |-> FALSE],
     [password |-> "right", expected |-> TRUE], [password |-> "none", expected |-> TRUE],
     [password |-> "wrong", expected |-> TRUE]}
=============================================================================
