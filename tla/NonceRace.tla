------------------------------ MODULE NonceRace ------------------------------
(***************************************************************************)
(* Helper calls that sign transactions for one keypair (aether package).   *)
(*                                                                         *)
(* Every helper that produces a transaction (AIJobHelper.submit_job,       *)
(* accept_job, submit_result, challenge_result, claim_payment, and the     *)
(* StakingHelper and GovernanceHelper equivalents) runs                    *)
(*     nonce = await self.client.get_nonce(self.keypair.address)           *)
(*     data = <encode>;  return await TransactionBuilder.call(...).sign()  *)
(* and its caller then runs                                                *)
(*     tx_hash = await client.send_transaction(tx)                         *)
(*     await client.wait_for_transaction(tx_hash)                          *)
(* TransactionBuilder.sign is declared async but never suspends, so the    *)
(* encoding, the signature and the send request follow the nonce read     *)
(* without a scheduling point.  The node reports the account nonce of     *)
(* included transactions only.                                             *)
(*                                                                         *)
(* The caller is either sequential, as in examples 01 to 04 (one task      *)
(* after the other, and an exception ends the script), or asyncio.gather  *)
(* of all tasks, as in example 05.                                         *)
(***************************************************************************)
EXTENDS Integers, FiniteSets

CONSTANTS
    N,       \* number of helper calls the script makes
    Gather,  \* TRUE: asyncio.gather of all calls; FALSE: one after the other
    MaxStartNonce  \* bound on the nonce the account has when the script starts

ASSUME NAssumption == N \in Nat \ {0}
ASSUME GatherAssumption == Gather \in BOOLEAN
ASSUME StartNonceAssumption == MaxStartNonce \in Nat

Tasks == 1..N

\* No nonce read yet.
NoNonce == -1

\* How a helper call and its wait ended.
Outcome == {"none", "ok", "RpcError", "TimeoutError"}

VARIABLES
    pc,            \* pc[t]: "idle", "reading" (get_nonce), "sending",
                   \*        "waiting" (wait_for_transaction), "done"
    nonce,         \* nonce[t]: the nonce task t signed with
    outcome,       \* outcome[t]: how task t ended
    accountNonce,  \* the node: nonce of the sender's next includable transaction
    mempool,       \* the node: transactions received and not yet included or dropped
    included       \* the node: transactions included in a block

clientVars == <<pc, nonce, outcome>>
nodeVars == <<accountNonce, mempool, included>>
vars == <<pc, nonce, outcome, accountNonce, mempool, included>>

\* The transaction task t signed; tasks differ in their call data.
Tx(t) == [task |-> t, nonce |-> nonce[t]]

TxRecord == [task : Tasks, nonce : Nat]

TypeOK ==
    /\ pc \in [Tasks -> {"idle", "reading", "sending", "waiting", "done"}]
    /\ nonce \in [Tasks -> {NoNonce} \cup Nat]
    /\ outcome \in [Tasks -> Outcome]
    /\ accountNonce \in Nat
    /\ mempool \subseteq TxRecord
    /\ included \subseteq TxRecord

-----------------------------------------------------------------------------
(* The caller.                                                             *)

\* A sequential script stops at the first exception.
Aborted == ~Gather /\ \E u \in Tasks : outcome[u] \notin {"none", "ok"}

\* Mutant: a call starts before the earlier calls' receipts were seen.
StartUnordered(t) ==
    /\ pc[t] = "idle"
    /\ pc' = [pc EXCEPT ![t] = "reading"]
    /\ UNCHANGED <<nonce, outcome, nodeVars>>

\* The script calls the helper of task t; its argument checks pass and it
\* sends getAccount.
Start(t) ==
    /\ pc[t] = "idle"
    /\ Gather \/ \A u \in 1..(t - 1) : outcome[u] = "ok"
    /\ pc' = [pc EXCEPT ![t] = "reading"]
    /\ UNCHANGED <<nonce, outcome, nodeVars>>

\* The helper call (or the wait) of task t raised.
Fail(t, why) ==
    /\ pc' = [pc EXCEPT ![t] = "done"]
    /\ outcome' = [outcome EXCEPT ![t] = why]

-----------------------------------------------------------------------------
(* The helper and the caller's send and wait.                              *)

\* Mutant: the nonce read by the first call is reused by every later call.
NonceReturnsCached(t) ==
    /\ pc[t] = "reading"
    /\ \/ /\ pc' = [pc EXCEPT ![t] = "sending"]
          /\ nonce' = [nonce EXCEPT ![t] = IF t = 1 THEN accountNonce
                                                   ELSE nonce[1]]
          /\ UNCHANGED outcome
       \/ Fail(t, "RpcError") /\ UNCHANGED nonce
    /\ UNCHANGED nodeVars

\* Mutant: the helper signs with the account nonce plus one.
NonceReturnsPlusOne(t) ==
    /\ pc[t] = "reading"
    /\ \/ /\ pc' = [pc EXCEPT ![t] = "sending"]
          /\ nonce' = [nonce EXCEPT ![t] = accountNonce + 1]
          /\ UNCHANGED outcome
       \/ Fail(t, "RpcError") /\ UNCHANGED nonce
    /\ UNCHANGED nodeVars

\* get_nonce returns the account nonce (or _call raises).  The helper then
\* encodes, builds and signs with it and the caller sends the envelope,
\* all without suspending.
NonceReturns(t) ==
    /\ pc[t] = "reading"
    /\ \/ /\ pc' = [pc EXCEPT ![t] = "sending"]
          /\ nonce' = [nonce EXCEPT ![t] = accountNonce]
          /\ UNCHANGED outcome
       \/ Fail(t, "RpcError") /\ UNCHANGED nonce
    /\ UNCHANGED nodeVars

\* send_transaction returns.  The node took the transaction and answered
\* with its hash; or the request failed before reaching the node; or the
\* node took it and the response was lost, so the call raises anyway.
SendReturns(t) ==
    /\ pc[t] = "sending"
    /\ \/ /\ mempool' = mempool \cup {Tx(t)}
          /\ pc' = [pc EXCEPT ![t] = "waiting"]
          /\ UNCHANGED outcome
       \/ Fail(t, "RpcError") /\ UNCHANGED mempool
       \/ Fail(t, "RpcError") /\ mempool' = mempool \cup {Tx(t)}
    /\ UNCHANGED <<nonce, accountNonce, included>>

\* wait_for_transaction sees the receipt of task t's transaction.
ReceiptSeen(t) ==
    /\ pc[t] = "waiting"
    /\ Tx(t) \in included
    /\ pc' = [pc EXCEPT ![t] = "done"]
    /\ outcome' = [outcome EXCEPT ![t] = "ok"]
    /\ UNCHANGED <<nonce, nodeVars>>

\* wait_for_transaction raises TimeoutError (or the Exception of a failed
\* probe) before it sees a receipt; CompletionTracker shows both can
\* happen at any time.
WaitFails(t) ==
    /\ pc[t] = "waiting"
    /\ Fail(t, "TimeoutError")
    /\ UNCHANGED <<nonce, nodeVars>>

-----------------------------------------------------------------------------
(* The node (environment): a transaction is included only with the         *)
(* sender's next nonce; one whose nonce is already used is dropped.        *)

Include(tx) ==
    /\ tx \in mempool
    /\ tx.nonce = accountNonce
    /\ included' = included \cup {tx}
    /\ mempool' = mempool \ {tx}
    /\ accountNonce' = accountNonce + 1
    /\ UNCHANGED clientVars

Drop(tx) ==
    /\ tx \in mempool
    /\ tx.nonce < accountNonce
    /\ mempool' = mempool \ {tx}
    /\ UNCHANGED <<accountNonce, included, clientVars>>

\* The script has nothing left to do.
ClientFinished ==
    \A t \in Tasks : pc[t] = "done" \/ (pc[t] = "idle" /\ Aborted)

Terminated == ClientFinished /\ UNCHANGED vars

-----------------------------------------------------------------------------
Init ==
    /\ pc = [t \in Tasks |-> "idle"]
    /\ nonce = [t \in Tasks |-> NoNonce]
    /\ outcome = [t \in Tasks |-> "none"]
    /\ accountNonce \in 0..MaxStartNonce
    /\ mempool = {}
    /\ included = {}

Next ==
    \/ \E t \in Tasks :
          \/ Start(t) \/ NonceReturns(t) \/ SendReturns(t)
          \/ ReceiptSeen(t) \/ WaitFails(t)
    \/ \E tx \in mempool : Include(tx) \/ Drop(tx)
    \/ Terminated

\* The script's statements run, every awaited RPC ends (httpx timeout) and
\* a wait that sees no receipt raises TimeoutError (CompletionTracker's
\* EveryWaitEnds).  The node is assumed to include, eventually, a pending
\* transaction that carries the sender's next nonce, and to evict one whose
\* nonce is already used.
Fairness ==
    /\ \A t \in Tasks : /\ WF_vars(Start(t))
                        /\ WF_vars(NonceReturns(t))
                        /\ WF_vars(SendReturns(t))
                        /\ WF_vars(ReceiptSeen(t) \/ WaitFails(t))
    /\ WF_vars(\E tx \in mempool : Include(tx))
    /\ WF_vars(\E tx \in mempool : Drop(tx))

Spec == Init /\ [][Next]_vars /\ Fairness

-----------------------------------------------------------------------------
(* Properties.                                                             *)

\* No two helper calls sign transactions with the same nonce, so none of
\* them is dropped by the node as a replay.
NoncesDistinct ==
    \A t, u \in Tasks :
        t # u /\ nonce[t] # NoNonce /\ nonce[u] # NoNonce => nonce[t] # nonce[u]

\* Every transaction the node received from a helper call is eventually
\* included: none of them carries a nonce the node can never accept.
AcceptedTxIncluded ==
    \A t \in Tasks : (nonce[t] # NoNonce /\ Tx(t) \in mempool) ~> (Tx(t) \in included)

\* Every transaction the node received is eventually included or evicted:
\* no helper call leaves a transaction pending for ever, whatever the
\* interleaving of get_nonce calls.
TxSettles ==
    \A t \in Tasks : (nonce[t] # NoNonce /\ Tx(t) \in mempool) ~> (Tx(t) \notin mempool)


\* In a sequential script (examples 01 to 04) the node includes the
\* transaction of a helper call only in a step after it included those of
\* all earlier calls: the script's transactions reach the ledger in the
\* order it made the calls, because each call starts only once
\* wait_for_transaction saw the previous receipt.
IncludedInCallOrder ==
    [][\A t \in Tasks :
          Tx(t) \notin included /\ (Tx(t) \in included)' =>
              \A u \in 1..(t - 1) : (Tx(u) \in included)']_vars

=============================================================================
