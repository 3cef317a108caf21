--------------------------- MODULE NonceRace_proofs ---------------------------
(***************************************************************************)
(* Proofs about NonceRace, for every number of helper calls and every      *)
(* starting account nonce.                                                 *)
(***************************************************************************)
EXTENDS NonceRace, TLAPS

-----------------------------------------------------------------------------
(* Type correctness.                                                       *)

\* A task has a nonce exactly from the moment get_nonce returned to it:
\* it never sends an envelope without one.
NonceRead ==
    \A t \in Tasks : pc[t] \in {"sending", "waiting"} => nonce[t] # NoNonce

TypeInv == TypeOK /\ NonceRead

LEMMA TypeInvStep == TypeInv /\ [Next]_vars => TypeInv'
<1>. USE NAssumption
<1> SUFFICES ASSUME TypeInv, [Next]_vars PROVE TypeInv'
  OBVIOUS
<1>1. ASSUME NEW t \in Tasks, Start(t) PROVE TypeInv'
  BY <1>1 DEF Start, TypeInv, TypeOK, NonceRead, nodeVars
<1>2. ASSUME NEW t \in Tasks, NonceReturns(t) PROVE TypeInv'
  BY <1>2 DEF NonceReturns, Fail, TypeInv, TypeOK, NonceRead, nodeVars,
              Outcome, NoNonce
<1>3. ASSUME NEW t \in Tasks, SendReturns(t) PROVE TypeInv'
  <2>1. Tx(t) \in TxRecord
    BY <1>3 DEF SendReturns, TypeInv, TypeOK, NonceRead, Tx, TxRecord, NoNonce
  <2>. QED
    BY <1>3, <2>1 DEF SendReturns, Fail, TypeInv, TypeOK, NonceRead, Outcome
<1>4. ASSUME NEW t \in Tasks, ReceiptSeen(t) PROVE TypeInv'
  BY <1>4 DEF ReceiptSeen, TypeInv, TypeOK, NonceRead, nodeVars, Outcome
<1>5. ASSUME NEW t \in Tasks, WaitFails(t) PROVE TypeInv'
  BY <1>5 DEF WaitFails, Fail, TypeInv, TypeOK, NonceRead, nodeVars, Outcome
<1>6. ASSUME NEW tx \in mempool, Include(tx) PROVE TypeInv'
  BY <1>6 DEF Include, TypeInv, TypeOK, NonceRead, clientVars, TxRecord
<1>7. ASSUME NEW tx \in mempool, Drop(tx) PROVE TypeInv'
  BY <1>7 DEF Drop, TypeInv, TypeOK, NonceRead, clientVars
<1>8. CASE Terminated
  BY <1>8 DEF Terminated, vars, TypeInv, TypeOK, NonceRead
<1>9. CASE UNCHANGED vars
  BY <1>9 DEF vars, TypeInv, TypeOK, NonceRead
<1>. QED
  BY <1>1, <1>2, <1>3, <1>4, <1>5, <1>6, <1>7, <1>8, <1>9 DEF Next

\* Every reachable state is well typed, and a task that sends or waits
\* holds the nonce it read.
THEOREM TypeCorrect == Spec => []TypeOK
<1>1. Init => TypeInv
  BY StartNonceAssumption
     DEF Init, TypeInv, TypeOK, NonceRead, Outcome, NoNonce
<1>2. TypeInv => TypeOK
  BY DEF TypeInv
<1>. QED
  BY <1>1, <1>2, TypeInvStep, PTL DEF Spec

-----------------------------------------------------------------------------
(* Distinct nonces for a sequential caller.                                *)

\* NoncesDistinct is not inductive.  A sequential script starts a call only
\* once every earlier call has returned its receipt; a returned receipt
\* means the transaction was included; an included transaction's nonce is
\* below the account nonce; so each call reads a nonce above those of all
\* earlier calls.
SeqInv ==
    /\ \A t \in Tasks : pc[t] # "idle" => \A u \in 1..(t - 1) : outcome[u] = "ok"
    /\ \A u \in Tasks : outcome[u] = "ok" => pc[u] = "done" /\ Tx(u) \in included
    /\ \A tx \in included : tx.nonce < accountNonce
    /\ \A t \in Tasks : nonce[t] # NoNonce => pc[t] \notin {"idle", "reading"}
    /\ \A t, u \in Tasks : u < t /\ nonce[t] # NoNonce => nonce[u] < nonce[t]

LEMMA InitSeqInv == Init => SeqInv
BY DEF Init, SeqInv

LEMMA SeqInvStep ==
    ASSUME ~Gather, TypeInv, SeqInv, [Next]_vars
    PROVE  SeqInv'
<1>. USE NAssumption DEF Tasks, NoNonce
<1>1. ASSUME NEW t \in Tasks, Start(t) PROVE SeqInv'
  BY <1>1 DEF Start, SeqInv, Tx, nodeVars
<1>2. ASSUME NEW t \in Tasks, NonceReturns(t) PROVE SeqInv'
  <2>1. pc[t] = "reading" /\ outcome[t] # "ok"
    BY <1>2 DEF NonceReturns, SeqInv
  <2>2. \A u \in Tasks : u > t => pc[u] = "idle" /\ nonce[u] = NoNonce
    BY <2>1 DEF SeqInv, TypeInv, TypeOK
  <2>3. \A u \in 1..(t - 1) : nonce[u] < accountNonce
    <3> SUFFICES ASSUME NEW u \in 1..(t - 1) PROVE nonce[u] < accountNonce
      OBVIOUS
    <3>1. Tx(u) \in included
      BY <2>1 DEF SeqInv
    <3>2. Tx(u).nonce = nonce[u]
      BY DEF Tx
    <3>. QED
      BY <3>1, <3>2 DEF SeqInv
  <2>4. CASE /\ pc' = [pc EXCEPT ![t] = "sending"]
             /\ nonce' = [nonce EXCEPT ![t] = accountNonce]
             /\ UNCHANGED outcome
    BY <1>2, <2>1, <2>2, <2>3, <2>4
       DEF NonceReturns, SeqInv, Tx, nodeVars, TypeInv, TypeOK, NoNonce
  <2>5. CASE Fail(t, "RpcError") /\ UNCHANGED nonce
    BY <1>2, <2>1, <2>2, <2>5 DEF NonceReturns, Fail, SeqInv, Tx, nodeVars,
                                  TypeInv, TypeOK
  <2>. QED
    BY <1>2, <2>4, <2>5 DEF NonceReturns
<1>3. ASSUME NEW t \in Tasks, SendReturns(t) PROVE SeqInv'
  <2>1. pc[t] = "sending" /\ outcome[t] # "ok"
    BY <1>3 DEF SendReturns, SeqInv
  <2>2. \A u \in Tasks : u > t => pc[u] = "idle"
    BY <2>1 DEF SeqInv, TypeInv, TypeOK
  <2>. QED
    BY <1>3, <2>1, <2>2 DEF SendReturns, Fail, SeqInv, Tx, TypeInv, TypeOK
<1>4. ASSUME NEW t \in Tasks, ReceiptSeen(t) PROVE SeqInv'
  BY <1>4 DEF ReceiptSeen, SeqInv, Tx, nodeVars, TypeInv, TypeOK
<1>5. ASSUME NEW t \in Tasks, WaitFails(t) PROVE SeqInv'
  <2>1. pc[t] = "waiting" /\ outcome[t] # "ok"
    BY <1>5 DEF WaitFails, SeqInv
  <2>2. \A u \in Tasks : u > t => pc[u] = "idle"
    BY <2>1 DEF SeqInv, TypeInv, TypeOK
  <2>. QED
    BY <1>5, <2>1, <2>2 DEF WaitFails, Fail, SeqInv, Tx, nodeVars, TypeInv,
                            TypeOK
<1>6. ASSUME NEW tx \in mempool, Include(tx) PROVE SeqInv'
  BY <1>6 DEF Include, SeqInv, Tx, clientVars, TypeInv, TypeOK, TxRecord
<1>7. ASSUME NEW tx \in mempool, Drop(tx) PROVE SeqInv'
  BY <1>7 DEF Drop, SeqInv, Tx, clientVars
<1>8. CASE Terminated
  BY <1>8 DEF Terminated, vars, SeqInv, Tx
<1>9. CASE UNCHANGED vars
  BY <1>9 DEF vars, SeqInv, Tx
<1>. QED
  BY <1>1, <1>2, <1>3, <1>4, <1>5, <1>6, <1>7, <1>8, <1>9 DEF Next

\* For any number of calls and any starting nonce, a script that calls the
\* helpers one after the other, awaiting each wait_for_transaction (examples
\* 01 to 04), never signs two transactions with the same nonce.
THEOREM SequentialNoncesDistinct == ~Gather => (Spec => []NoncesDistinct)
<1> SUFFICES ASSUME ~Gather PROVE Spec => []NoncesDistinct
  OBVIOUS
<1>1. Init => TypeInv
  BY StartNonceAssumption
     DEF Init, TypeInv, TypeOK, NonceRead, Outcome, NoNonce
<1>2. TypeInv /\ SeqInv => NoncesDistinct
  BY NAssumption DEF TypeInv, TypeOK, SeqInv, NoncesDistinct, Tasks, NoNonce
<1>. QED
  BY <1>1, <1>2, InitSeqInv, TypeInvStep, SeqInvStep, PTL DEF Spec

-----------------------------------------------------------------------------
(* Inclusion in call order for a sequential caller.                        *)

\* The step formula of IncludedInCallOrder.
InOrder ==
    \A t \in Tasks :
        Tx(t) \notin included /\ (Tx(t) \in included)' =>
            \A u \in 1..(t - 1) : (Tx(u) \in included)'

\* A step that includes nothing newly includes no task's transaction, so
\* InOrder holds for it vacuously.
LEMMA NoNewInclusion ==
    ASSUME \A t \in Tasks : (Tx(t) \in included)' => Tx(t) \in included
    PROVE  InOrder
BY DEF InOrder

\* Only Include adds to included, and get_nonce's answer is the account
\* nonce, which no included transaction carries.
LEMMA InOrderStep ==
    ASSUME ~Gather, TypeInv, SeqInv, [Next]_vars
    PROVE  InOrder
<1>. USE NAssumption DEF Tasks, NoNonce
<1>1. ASSUME NEW tx \in mempool, Include(tx) PROVE InOrder
  <2> SUFFICES ASSUME NEW t \in Tasks, Tx(t) \notin included,
                      (Tx(t) \in included)', NEW u \in 1..(t - 1)
               PROVE  (Tx(u) \in included)'
    BY DEF InOrder
  <2>1. nonce' = nonce /\ included' = included \cup {tx}
    BY <1>1 DEF Include, clientVars
  <2>2. Tx(t) = tx
    BY <2>1 DEF Tx
  <2>3. nonce[t] # NoNonce
    BY <2>2 DEF TypeInv, TypeOK, TxRecord, Tx
  <2>4. pc[t] # "idle"
    BY <2>3 DEF SeqInv
  <2>5. Tx(u) \in included
    BY <2>4 DEF SeqInv
  <2>. QED
    BY <2>1, <2>5 DEF Tx
<1>2. ASSUME NEW t \in Tasks, NonceReturns(t) PROVE InOrder
  <2> SUFFICES ASSUME NEW v \in Tasks, (Tx(v) \in included)'
               PROVE  Tx(v) \in included
    BY NoNewInclusion
  <2>1. included' = included /\ accountNonce' = accountNonce
    BY <1>2 DEF NonceReturns, nodeVars
  <2>2. CASE nonce' = [nonce EXCEPT ![t] = accountNonce]
    <3>1. CASE v = t
      <4>1. [task |-> t, nonce |-> accountNonce] \in included
        BY <2>1, <2>2, <3>1 DEF Tx, TypeInv, TypeOK
      <4>2. \A tx \in included : tx.nonce < accountNonce
        BY DEF SeqInv
      <4>3. [task |-> t, nonce |-> accountNonce].nonce = accountNonce
        OBVIOUS
      <4>. QED
        BY <4>1, <4>2, <4>3, <2>1 DEF TypeInv, TypeOK
    <3>2. CASE v # t
      BY <2>1, <2>2, <3>2 DEF Tx, TypeInv, TypeOK
    <3>. QED
      BY <3>1, <3>2
  <2>3. CASE nonce' = nonce
    BY <2>1, <2>3 DEF Tx
  <2>. QED
    BY <1>2, <2>2, <2>3 DEF NonceReturns
<1>3. CASE included' = included /\ nonce' = nonce
  BY <1>3, NoNewInclusion DEF Tx
<1>4. ASSUME NEW t \in Tasks,
             Start(t) \/ SendReturns(t) \/ ReceiptSeen(t) \/ WaitFails(t)
      PROVE  included' = included /\ nonce' = nonce
  BY <1>4 DEF Start, SendReturns, ReceiptSeen, WaitFails, nodeVars
<1>5. ASSUME NEW tx \in mempool, Drop(tx) PROVE included' = included /\ nonce' = nonce
  BY <1>5 DEF Drop, clientVars
<1>6. CASE Terminated \/ UNCHANGED vars
  <2>1. included' = included /\ nonce' = nonce
    BY <1>6 DEF Terminated, vars
  <2>. QED
    BY <2>1, NoNewInclusion DEF Tx
<1>. QED
  BY <1>1, <1>2, <1>3, <1>4, <1>5, <1>6 DEF Next

\* For any number of calls and any starting nonce, a script that calls the
\* helpers one after the other (examples 01 to 04) has its transactions
\* included in the order of the calls.
THEOREM SequentialInclusionOrder == ~Gather => (Spec => IncludedInCallOrder)
<1> SUFFICES ASSUME ~Gather PROVE Spec => IncludedInCallOrder
  OBVIOUS
<1>1. Init => TypeInv /\ SeqInv
  BY StartNonceAssumption, InitSeqInv
     DEF Init, TypeInv, TypeOK, NonceRead, Outcome, NoNonce
<1>2. TypeInv /\ SeqInv /\ [Next]_vars => (TypeInv /\ SeqInv)'
  BY TypeInvStep, SeqInvStep
<1>3. TypeInv /\ SeqInv /\ [Next]_vars => [InOrder]_vars
  BY InOrderStep
<1>. QED
  BY <1>1, <1>2, <1>3, PTL DEF Spec, IncludedInCallOrder, InOrder

=============================================================================
