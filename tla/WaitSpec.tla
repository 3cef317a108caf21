------------------------------- MODULE WaitSpec -------------------------------
(***************************************************************************)
(* What a confirmation wait of the aether SDK promises its caller, with    *)
(* no polling, no timers and no RPCs: wait_for_transaction and             *)
(* wait_for_job_completion each end exactly once, by a timeout only after  *)
(* the deadline, within a grace period after it, and otherwise with an     *)
(* outcome that matches the ledger's record at the moment the wait ends.   *)
(* The ledger is unconstrained: it may change any record at any time.      *)
(***************************************************************************)
EXTENDS Naturals

CONSTANTS
    TxWaits,     \* transaction waits
    JobWaits,    \* job waits
    Timeout,     \* the timeout argument
    Grace,       \* how long past the timeout a wait may still be running
    Absent,      \* the node has no record
    JobStatus,
    ReceiptStatus

Waits == TxWaits \cup JobWaits

\* The outcomes of a wait, as in CompletionTracker.
Outcome == {"returned", "TimeoutError", "NotFound", "Challenged", "RpcError"}

VARIABLES
    clock,       \* clock[w]: time since wait w started
    ended,       \* ended[w]: wait w has returned or raised
    outcome,     \* outcome[w]: how it ended and the record it ended on
    remote       \* remote[w]: the ledger's record

avars == <<clock, ended, outcome, remote>>

\* The records the ledger may hold for a wait.
Records(w) == IF w \in TxWaits THEN {Absent} \cup ReceiptStatus
                               ELSE {Absent} \cup JobStatus

\* The records a wait of that kind returns to its caller.
Returnable(w) == IF w \in TxWaits THEN ReceiptStatus
                                  ELSE {"completed", "settled"}

\* What may end wait w with outcome out: only a timeout once the deadline
\* has passed; "not found" and "challenged" only for a job wait, the latter
\* only on a challenged record; a raised RPC error only for a transaction
\* wait (get_job turns errors into "not found").
Allowed(w, out) ==
    CASE out = "returned"     -> remote[w] \in Returnable(w)
      [] out = "TimeoutError" -> clock[w] >= Timeout
      [] out = "NotFound"     -> w \in JobWaits
      [] out = "Challenged"   -> w \in JobWaits /\ remote[w] = "challenged"
      [] out = "RpcError"     -> w \in TxWaits

End(w, out) ==
    /\ ~ended[w]
    /\ Allowed(w, out)
    /\ ended' = [ended EXCEPT ![w] = TRUE]
    /\ outcome' = [outcome EXCEPT ![w] = [out |-> out, at |-> remote[w]]]
    /\ UNCHANGED <<clock, remote>>

\* Time passes for every running wait; none runs past the grace period.
Tick ==
    /\ \E w \in Waits : ~ended[w]
    /\ \A w \in Waits : ~ended[w] => clock[w] + 1 < Timeout + Grace
    /\ clock' = [w \in Waits |-> IF ended[w] THEN clock[w] ELSE clock[w] + 1]
    /\ UNCHANGED <<ended, outcome, remote>>

\* The ledger replaces one record.
Ledger(w) ==
    /\ \E r \in Records(w) : remote' = [remote EXCEPT ![w] = r]
    /\ UNCHANGED <<clock, ended, outcome>>

Init ==
    /\ clock = [w \in Waits |-> 0]
    /\ ended = [w \in Waits |-> FALSE]
    /\ outcome = [w \in Waits |-> [out |-> "none", at |-> Absent]]
    /\ remote \in {f \in [Waits -> {Absent} \cup JobStatus \cup ReceiptStatus] :
                      \A w \in Waits : f[w] \in Records(w)}

Next ==
    \/ \E w \in Waits, out \in Outcome : End(w, out)
    \/ Tick
    \/ \E w \in Waits : Ledger(w)

SafeSpec == Init /\ [][Next]_avars

\* Every wait ends.
Spec == SafeSpec /\ \A w \in Waits : WF_avars(\E out \in Outcome : End(w, out))

=============================================================================
