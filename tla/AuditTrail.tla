----------------------------- MODULE AuditTrail -----------------------------
(***************************************************************************)
(* What the oracle promises of its log (pignus/oracle.py, "An append-only  *)
(* record of everything the oracle has signed"): what can be read of it    *)
(* stays where it is, and comes behind all there was.                      *)
(***************************************************************************)
EXTENDS Integers

CONSTANT Attestations

VARIABLE record     \* a set of entries: an attestation, and where it is

(* Places are a file and a place in it. *)
Before(p, q) == p[1] < q[1] \/ (p[1] = q[1] /\ p[2] < q[2])

Init == record = {}

Next ==
    \E e \in record' :
        /\ e.att \in Attestations
        /\ record' = record \cup {e}
        /\ \A f \in record : Before(f.at, e.at)

Spec == Init /\ [][Next]_record
=============================================================================
