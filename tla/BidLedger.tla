------------------------------ MODULE BidLedger ------------------------------
(***************************************************************************)
(* What the table wb_bid_actions promises its readers: the life of an      *)
(* automated bid action.  An action is claimed (or refused for good as     *)
(* "blocked"), at most one external write is made for it and only while it *)
(* is pending, its outcome is reported or reconciled, and a settled action *)
(* never changes again.                                                    *)
(***************************************************************************)
EXTENDS Naturals, Sequences

VARIABLE ledger   \* sequence of [status, written]

Open == {"pending", "unknown"}

Init == ledger = <<>>

Claim == \E s \in {"pending", "blocked"} :
    ledger' = Append(ledger, [status |-> s, written |-> FALSE])

\* The external write: once, and only for a pending action.
Write(i) ==
    /\ ledger[i].status = "pending"
    /\ ~ledger[i].written
    /\ ledger' = [ledger EXCEPT ![i].written = TRUE]

\* The worker that claimed the action reports what became of it.
Report(i) == \E s \in {"blocked", "applied", "failed", "unknown"} :
    /\ ledger[i].status = "pending"
    /\ ledger[i].written <=> s # "blocked"
    /\ ledger' = [ledger EXCEPT ![i].status = s]

\* A later observation settles an action nobody reported the outcome of.
Reconcile(i) == \E s \in {"applied", "not_applied", "superseded"} :
    /\ ledger[i].status \in Open
    /\ ledger' = [ledger EXCEPT ![i].status = s]

Next == \/ Claim
        \/ \E i \in DOMAIN ledger : Write(i) \/ Report(i) \/ Reconcile(i)

Spec == Init /\ [][Next]_ledger
=============================================================================
