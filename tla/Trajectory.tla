----------------------------- MODULE Trajectory -----------------------------
(***************************************************************************)
(* Every attempt at one logical operation and what they add up to           *)
(* (models.Trajectory).  A trajectory is the sequence of its invocations;   *)
(* of each, `ok` is what the caller got, `executed` whether the target      *)
(* acknowledged the call, `args` the fingerprint of its arguments.          *)
(***************************************************************************)
EXTENDS Naturals, Sequences, FiniteSets

Attempts(t) == Len(t)

(* A failure later turned into a success. *)
Recovered(t) ==
    \E i, j \in DOMAIN t : i < j /\ ~t[i].ok /\ t[j].ok

Acknowledged(t) == {i \in DOMAIN t : t[i].executed = "yes"}

(* Acknowledged again, with arguments acknowledged before. *)
Duplicates(t) ==
    Cardinality({j \in Acknowledged(t) :
                    \E i \in Acknowledged(t) : i < j /\ t[i].args = t[j].args})

LoopDetected(t) == Attempts(t) >= 3 /\ ~Recovered(t)

FinalStatus(t) ==
    IF t = << >> THEN "empty"
    ELSE IF t[Len(t)].ok THEN "success" ELSE "failed"
=============================================================================
