----------------------------- MODULE TakeLadder -----------------------------
(***************************************************************************)
(* What the relay promises of a cross-chain take (pignus/book.py, "A       *)
(* take's status only ever moves FORWARD"): its steps are climbed and      *)
(* never descended, nothing that was written of it is lost, and it is      *)
(* forgotten only when nothing further can happen to it.                   *)
(***************************************************************************)
EXTENDS Integers

CONSTANTS Takes, Facts

VARIABLES status, facts

(* TAKE_ORDER, with the steps no report of a responder reaches left out;   *)
(* above them the step that ends a take wherever it was.                   *)
Rank == [none |-> 0, requested |-> 1, reserved |-> 2, pending |-> 3,
         signed |-> 4, disbursed |-> 5, live |-> 6, claimed |-> 7,
         refunded |-> 8, pruned |-> 9]
Statuses == DOMAIN Rank
Terminal == {"refunded"}

(* Nothing further can happen to a take of these facts. *)
RunOut(F) == F \cap {"claimed", "refunded"} # {} \/ "presig" \notin F

TypeOK ==
    /\ status \in [Takes -> Statuses]
    /\ facts \in [Takes -> SUBSET Facts]

Init ==
    /\ status = [t \in Takes |-> "none"]
    /\ facts = [t \in Takes |-> {}]

Moves(t) ==
    /\ facts[t] \subseteq facts'[t]
    /\ Rank[status[t]] <= Rank[status'[t]]
    /\ status'[t] = "pruned" => RunOut(facts'[t])

Next ==
    /\ status' \in [Takes -> Statuses] /\ facts' \in [Takes -> SUBSET Facts]
    /\ \A t \in Takes : Moves(t)

Spec == Init /\ [][Next]_<<status, facts>>
=============================================================================
