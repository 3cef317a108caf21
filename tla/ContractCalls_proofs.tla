------------------------- MODULE ContractCalls_proofs -------------------------
(***************************************************************************)
(* Proofs about ContractCalls, for every set of tasks, arguments and       *)
(* proposals: the properties calls_safety checks on two tasks hold for any *)
(* number of concurrent helper calls.                                      *)
(***************************************************************************)
EXTENDS ContractCalls, TLAPS

-----------------------------------------------------------------------------
(* The arguments of a call.                                                *)

\* A call's arguments are those of its method.
LEMMA CallParams ==
    ASSUME NEW c \in Calls
    PROVE  c.m \in DOMAIN Params /\ c.p \in Params[c.m]
BY DEF Calls

\* The methods, and those that move an amount.
LEMMA Methods ==
    /\ DOMAIN Params = {"submitJob", "acceptJob", "submitResult",
                        "challengeResult", "claimPayment", "registerValidator",
                        "delegate", "undelegate", "claimRewards",
                        "createProposal", "vote", "executeProposal"}
    /\ DOMAIN MovedParam = {"submitJob", "challengeResult", "registerValidator",
                            "delegate"}
BY DEF Params, MovedParam

\* The amount a call attaches is an integer.
LEMMA CallValueInt ==
    ASSUME NEW c \in Calls
    PROVE  CallValue(c) \in Int
<1>1. c.m \in DOMAIN Params /\ c.p \in Params[c.m]
  BY CallParams
<1>. QED
  BY <1>1, Methods, CallsAssumption
     DEF Params, CallValue, AIValue, StakingValue, Contract

\* Each helper attaches the amount its signature names.
LEMMA CallValueMoves ==
    ASSUME NEW c \in Calls
    PROVE  CallValue(c) = Moves(c)
<1>1. c.m \in DOMAIN Params
  BY CallParams
<1>. QED
  BY <1>1, Methods
     DEF CallValue, AIValue, StakingValue, Contract, Moves, MovedParam

\* A call that passes ArgCheck has arguments in the documented ranges.
LEMMA CheckedInRange ==
    ASSUME NEW c \in Calls, ArgCheck(c) = "ok"
    PROVE  InDocumentedRange(c)
<1>1. c.m \in DOMAIN Params /\ c.p \in Params[c.m]
  BY CallParams
<1>. QED
  BY <1>1, Methods, CallsAssumption
     DEF Params, ArgCheck, AIArgCheck, StakingArgCheck, GovArgCheck, Contract,
         InDocumentedRange

\* A failing argument check names one of the reasons a helper raises.
LEMMA ArgCheckReason ==
    ASSUME NEW c \in Calls, ArgCheck(c) # "ok"
    PROVE  ArgCheck(c) \in Reasons
<1>1. AIArgCheck(c) \in {"aic_amount", "challenge_stake", "ok"}
  BY DEF AIArgCheck
<1>2. StakingArgCheck(c) \in {"commission", "ok"}
  BY DEF StakingArgCheck
<1>3. GovArgCheck(c) \in {"title", "description", "ok"}
  BY DEF GovArgCheck
<1>. QED
  BY <1>1, <1>2, <1>3 DEF ArgCheck, Reasons

-----------------------------------------------------------------------------
(* The type invariant, split along the two kinds of task.                  *)

\* The conjuncts of TypeOK about the signing helpers and the node.
SigTypeOK ==
    /\ pc \in [Tasks -> {"start", "proposal", "nonce", "done"}]
    /\ call \in [Tasks -> Calls]
    /\ proposal \in [ProposalIds -> {Absent} \cup ProposalStatus]
    /\ result \in [Tasks -> {[out |-> "none"]} \cup [out : {"raised"}, why : Reasons]
                             \cup [out : {"tx"}, tx : signed]]
    /\ \A tx \in signed : tx.intent \in Calls /\ tx.value \in 0..(ValueLimit - 1)
    /\ wasPassed \in [Tasks -> SUBSET ProposalIds]

\* The conjuncts of TypeOK about the receipt checks.
CheckTypeOK ==
    /\ step \in [Checks -> {"start", "wait", "getVCR", "verify", "done"}]
    /\ jobOf \in [Checks -> Hashes]
    /\ outcome \in [Checks -> {[out |-> "none"], [out |-> "novcr"]}
                               \cup [out : {"raised"}, why : CheckReasons]
                               \cup [out : {"verdict"}, verdict : Verdicts]]
    /\ forwarded \subseteq [job : Hashes, vcr : Vcrs]

LEMMA TypeOKSplit == TypeOK <=> SigTypeOK /\ CheckTypeOK
  BY DEF TypeOK, SigTypeOK, CheckTypeOK

\* A task that raises keeps the state well typed, whatever the reason.
LEMMA RaiseType ==
  ASSUME SigTypeOK, NEW t \in Tasks, NEW why \in Reasons,
         pc' = [pc EXCEPT ![t] = "done"],
         result' = [result EXCEPT ![t] = [out |-> "raised", why |-> why]],
         UNCHANGED <<proposal, signed>>,
         call' \in [Tasks -> Calls],
         wasPassed' \in [Tasks -> SUBSET ProposalIds]
  PROVE  SigTypeOK'
<1>1. pc' \in [Tasks -> {"start", "proposal", "nonce", "done"}]
  BY DEF SigTypeOK
<1>2. result'[t] \in [out : {"raised"}, why : Reasons]
  BY DEF SigTypeOK
<1>3. result' \in [Tasks -> {[out |-> "none"]}
                            \cup [out : {"raised"}, why : Reasons]
                            \cup [out : {"tx"}, tx : signed']]
  BY <1>2 DEF SigTypeOK
<1>. QED
  BY <1>1, <1>3 DEF SigTypeOK

-----------------------------------------------------------------------------
(* The inductive invariant.                                                *)

\* A task suspended in an RPC passed the argument checks; only
\* execute_proposal waits in get_proposal; a running task has seen every
\* proposal that is passed now; one that resumes after get_nonce in
\* execute_proposal has seen its proposal passed; a result is final.
Guarded ==
    \A t \in Tasks : pc[t] \in {"proposal", "nonce"} => ArgCheck(call[t]) = "ok"

OnlyExecuteReads ==
    \A t \in Tasks : pc[t] = "proposal" => call[t].m = "executeProposal"

PassedSeen ==
    \A t \in Tasks : pc[t] \in {"proposal", "nonce"} =>
        \A i \in ProposalIds : proposal[i] = "passed" => i \in wasPassed[t]

ExecReady ==
    \A t \in Tasks : pc[t] = "nonce" /\ call[t].m = "executeProposal"
        => call[t].p[1] \in wasPassed[t]

ResultFinal ==
    \A t \in Tasks : result[t].out # "none" => pc[t] = "done"

SigInv ==
    /\ SigTypeOK /\ Guarded /\ OnlyExecuteReads /\ PassedSeen /\ ExecReady
    /\ ResultFinal

\* Some call exists (claim_rewards takes no arguments), so Init's CHOOSE
\* picks a call.
LEMMA CallsNonEmpty == [m |-> "claimRewards", p |-> <<TRUE, TRUE>>] \in Calls
<1>1. "claimRewards" \in DOMAIN Params /\ Params["claimRewards"] = {TRUE} \X {TRUE}
  BY DEF Params
<1>2. [m |-> "claimRewards", p |-> <<TRUE, TRUE>>]
        \in [m : {"claimRewards"}, p : Params["claimRewards"]]
  BY <1>1
<1>3. \E m \in DOMAIN Params :
        [m |-> "claimRewards", p |-> <<TRUE, TRUE>>] \in [m : {m}, p : Params[m]]
  BY <1>1, <1>2
<1>. QED
  BY <1>3 DEF Calls

LEMMA InitSigInv == Init => SigInv
<1> SUFFICES ASSUME Init PROVE SigInv
  OBVIOUS
<1>1. (CHOOSE c \in Calls : TRUE) \in Calls
  BY CallsNonEmpty
<1>. QED
  BY <1>1 DEF Init, SigInv, SigTypeOK, Guarded, OnlyExecuteReads, PassedSeen,
              ExecReady, ResultFinal

LEMMA SigInvStep == SigInv /\ [Next]_vars => SigInv'
<1> SUFFICES ASSUME SigInv, [Next]_vars PROVE SigInv'
  OBVIOUS
<1> USE DEF SigInv
<1>1. ASSUME NEW t \in Tasks, NEW c \in Calls, NEW k \in BOOLEAN,
             Invoke(t, c, k)
      PROVE  SigInv'
  <2>1. pc[t] = "start" /\ result[t].out = "none"
    BY <1>1 DEF Invoke, ResultFinal, SigTypeOK
  <2>2. UNCHANGED <<proposal, signed>> /\ call' = [call EXCEPT ![t] = c]
        /\ wasPassed' = [wasPassed EXCEPT
                           ![t] = {i \in ProposalIds : proposal[i] = "passed"}]
    BY <1>1 DEF Invoke
  <2>6. call' \in [Tasks -> Calls] /\ wasPassed' \in [Tasks -> SUBSET ProposalIds]
    BY <2>2 DEF SigTypeOK
  <2>3. CASE ~k /\ Raise(t, "keypair")
    <3>1. /\ pc' = [pc EXCEPT ![t] = "done"]
          /\ result' = [result EXCEPT ![t] = [out |-> "raised", why |-> "keypair"]]
      BY <2>3 DEF Raise
    <3>7. "keypair" \in Reasons
      BY DEF Reasons
    <3>2. SigTypeOK'
      BY <2>1, <2>2, <2>3, <2>6, <3>7, <3>1, RaiseType DEF SigTypeOK
    <3>3. (Guarded /\ OnlyExecuteReads /\ PassedSeen /\ ExecReady)'
      BY <2>1, <2>2, <2>3, <3>1 DEF SigTypeOK, Guarded, OnlyExecuteReads, PassedSeen, ExecReady
    <3>4. ResultFinal'
      BY <2>1, <2>2, <2>3, <3>1 DEF SigTypeOK, ResultFinal
    <3>. QED
      BY <3>2, <3>3, <3>4
  <2>4. CASE k /\ ArgCheck(c) # "ok" /\ Raise(t, ArgCheck(c))
    <3>1. /\ pc' = [pc EXCEPT ![t] = "done"]
          /\ result' = [result EXCEPT ![t] = [out |-> "raised", why |-> ArgCheck(c)]]
      BY <2>4 DEF Raise
    <3>0. ArgCheck(c) \in Reasons
      BY <2>4, ArgCheckReason
    <3>2. SigTypeOK'
      BY <2>1, <2>2, <2>4, <2>6, <3>0, <3>1, RaiseType DEF SigTypeOK
    <3>3. (Guarded /\ OnlyExecuteReads /\ PassedSeen /\ ExecReady)'
      BY <2>1, <2>2, <2>4, <3>0, <3>1 DEF SigTypeOK, Guarded, OnlyExecuteReads, PassedSeen, ExecReady
    <3>4. ResultFinal'
      BY <2>1, <2>2, <2>4, <3>0, <3>1 DEF SigTypeOK, ResultFinal
    <3>. QED
      BY <3>2, <3>3, <3>4
  <2>5. CASE /\ k /\ ArgCheck(c) = "ok"
             /\ pc' = [pc EXCEPT ![t] = IF c.m = "executeProposal"
                                        THEN "proposal" ELSE "nonce"]
             /\ UNCHANGED result
    BY <2>1, <2>2, <2>5 DEF SigTypeOK, Guarded, OnlyExecuteReads, PassedSeen,
       ExecReady, ResultFinal
  <2>. QED
    BY <1>1, <2>3, <2>4, <2>5 DEF Invoke
<1>2. ASSUME NEW t \in Tasks, ProposalReturns(t) PROVE SigInv'
  <2> DEFINE st == proposal[call[t].p[1]]
  <2>1. pc[t] = "proposal" /\ call[t].m = "executeProposal"
        /\ UNCHANGED <<call, proposal, signed, wasPassed>>
    BY <1>2 DEF ProposalReturns, OnlyExecuteReads
  <2>2. call[t].p[1] \in ProposalIds
    <3>1. call[t] \in Calls
      BY DEF SigTypeOK
    <3>2. call[t].p \in Params[call[t].m]
      BY <3>1, CallParams
    <3>3. Params["executeProposal"] = ProposalIds \X {TRUE}
      BY DEF Params
    <3>4. call[t].p \in ProposalIds \X {TRUE}
      BY <2>1, <3>2, <3>3
    <3>. QED
      BY <3>4
  <2>3. CASE Raise(t, "not found")
    <3>1. /\ pc' = [pc EXCEPT ![t] = "done"]
          /\ result' = [result EXCEPT ![t] = [out |-> "raised", why |-> "not found"]]
      BY <2>3 DEF Raise
    <3>7. "not found" \in Reasons
      BY DEF Reasons
    <3>2. SigTypeOK'
      BY <2>1, <2>3, <2>1, <3>7, <3>1, RaiseType DEF SigTypeOK
    <3>3. (Guarded /\ OnlyExecuteReads /\ PassedSeen /\ ExecReady)'
      BY <2>1, <2>3, <3>1 DEF SigTypeOK, Guarded, OnlyExecuteReads, PassedSeen, ExecReady
    <3>4. ResultFinal'
      BY <2>1, <2>3, <3>1 DEF SigTypeOK, ResultFinal
    <3>. QED
      BY <3>2, <3>3, <3>4
  <2>4. CASE st \notin {Absent, "passed"} /\ Raise(t, "not passed")
    <3>1. /\ pc' = [pc EXCEPT ![t] = "done"]
          /\ result' = [result EXCEPT ![t] = [out |-> "raised", why |-> "not passed"]]
      BY <2>4 DEF Raise
    <3>7. "not passed" \in Reasons
      BY DEF Reasons
    <3>2. SigTypeOK'
      BY <2>1, <2>4, <2>1, <3>7, <3>1, RaiseType DEF SigTypeOK
    <3>3. (Guarded /\ OnlyExecuteReads /\ PassedSeen /\ ExecReady)'
      BY <2>1, <2>4, <3>1 DEF SigTypeOK, Guarded, OnlyExecuteReads, PassedSeen, ExecReady
    <3>4. ResultFinal'
      BY <2>1, <2>4, <3>1 DEF SigTypeOK, ResultFinal
    <3>. QED
      BY <3>2, <3>3, <3>4
  <2>5. CASE st = "passed" /\ pc' = [pc EXCEPT ![t] = "nonce"]
             /\ UNCHANGED result
    <3>1. call[t].p[1] \in wasPassed[t]
      BY <2>1, <2>2, <2>5 DEF PassedSeen
    <3>. QED
      BY <2>1, <2>5, <3>1 DEF SigTypeOK, Guarded, OnlyExecuteReads, PassedSeen,
         ExecReady, ResultFinal
  <2>. QED
    BY <1>2, <2>3, <2>4, <2>5 DEF ProposalReturns
<1>3. ASSUME NEW t \in Tasks, NonceReturns(t) PROVE SigInv'
  <2> DEFINE c == call[t]
  <2>1. pc[t] = "nonce" /\ c \in Calls /\ ArgCheck(c) = "ok"
        /\ UNCHANGED <<call, proposal, wasPassed>>
    BY <1>3 DEF NonceReturns, SigTypeOK, Guarded
  <2>2. CASE Raise(t, "RpcError") /\ UNCHANGED signed
    <3>1. /\ pc' = [pc EXCEPT ![t] = "done"]
          /\ result' = [result EXCEPT ![t] = [out |-> "raised", why |-> "RpcError"]]
      BY <2>2 DEF Raise
    <3>7. "RpcError" \in Reasons
      BY DEF Reasons
    <3>2. SigTypeOK'
      BY <2>1, <2>2, <2>1, <3>7, <3>1, RaiseType DEF SigTypeOK
    <3>3. (Guarded /\ OnlyExecuteReads /\ PassedSeen /\ ExecReady)'
      BY <2>1, <2>2, <3>1 DEF SigTypeOK, Guarded, OnlyExecuteReads, PassedSeen, ExecReady
    <3>4. ResultFinal'
      BY <2>1, <2>2, <3>1 DEF SigTypeOK, ResultFinal
    <3>. QED
      BY <3>2, <3>3, <3>4
  <2>3. CASE EncodeFails(c) /\ Raise(t, "fromhex") /\ UNCHANGED signed
    <3>1. /\ pc' = [pc EXCEPT ![t] = "done"]
          /\ result' = [result EXCEPT ![t] = [out |-> "raised", why |-> "fromhex"]]
      BY <2>3 DEF Raise
    <3>7. "fromhex" \in Reasons
      BY DEF Reasons
    <3>2. SigTypeOK'
      BY <2>1, <2>3, <2>1, <3>7, <3>1, RaiseType DEF SigTypeOK
    <3>3. (Guarded /\ OnlyExecuteReads /\ PassedSeen /\ ExecReady)'
      BY <2>1, <2>3, <3>1 DEF SigTypeOK, Guarded, OnlyExecuteReads, PassedSeen, ExecReady
    <3>4. ResultFinal'
      BY <2>1, <2>3, <3>1 DEF SigTypeOK, ResultFinal
    <3>. QED
      BY <3>2, <3>3, <3>4
  <2>4. CASE /\ ~(0 <= CallValue(c) /\ CallValue(c) < ValueLimit)
             /\ Raise(t, "struct.error") /\ UNCHANGED signed
    <3>1. /\ pc' = [pc EXCEPT ![t] = "done"]
          /\ result' = [result EXCEPT ![t] = [out |-> "raised", why |-> "struct.error"]]
      BY <2>4 DEF Raise
    <3>7. "struct.error" \in Reasons
      BY DEF Reasons
    <3>2. SigTypeOK'
      BY <2>1, <2>4, <2>1, <3>7, <3>1, RaiseType DEF SigTypeOK
    <3>3. (Guarded /\ OnlyExecuteReads /\ PassedSeen /\ ExecReady)'
      BY <2>1, <2>4, <3>1 DEF SigTypeOK, Guarded, OnlyExecuteReads, PassedSeen, ExecReady
    <3>4. ResultFinal'
      BY <2>1, <2>4, <3>1 DEF SigTypeOK, ResultFinal
    <3>. QED
      BY <3>2, <3>3, <3>4
  <2>5. CASE /\ 0 <= CallValue(c) /\ CallValue(c) < ValueLimit
             /\ pc' = [pc EXCEPT ![t] = "done"]
             /\ result' = [result EXCEPT ![t] = [out |-> "tx", tx |-> Tx(c)]]
             /\ signed' = signed \cup {Tx(c)}
    <3>1. Tx(c).intent \in Calls /\ Tx(c).value \in 0..(ValueLimit - 1)
      BY <2>1, <2>5, CallValueInt, CallsAssumption DEF Tx
    <3>4. SigTypeOK'
      BY <2>1, <2>5, <3>1 DEF SigTypeOK
    <3>5. (Guarded /\ OnlyExecuteReads /\ PassedSeen /\ ExecReady /\ ResultFinal)'
      BY <2>1, <2>5 DEF SigTypeOK, Guarded, OnlyExecuteReads, PassedSeen,
         ExecReady, ResultFinal
    <3>. QED
      BY <3>4, <3>5
  <2>. QED
    BY <1>3, <2>2, <2>3, <2>4, <2>5 DEF NonceReturns
<1>4. ASSUME NEW i \in ProposalIds, NEW st \in {Absent} \cup ProposalStatus,
             Node(i, st)
      PROVE  SigInv'
  BY <1>4 DEF Node, SigTypeOK, Guarded, OnlyExecuteReads, PassedSeen,
     ExecReady, ResultFinal
<1>5. CASE UNCHANGED vars
  BY <1>5 DEF vars, SigTypeOK, Guarded, OnlyExecuteReads, PassedSeen,
     ExecReady, ResultFinal
<1>6. ASSUME NEW k \in Checks,
             \/ \E j \in Hashes, how \in {"wait", "getVCR"} : CheckStart(k, j, how)
             \/ VcrReturns(k) \/ WaitReturns(k) \/ VerifyReturns(k)
      PROVE  SigInv'
  <2>1. UNCHANGED <<pc, call, result, proposal, signed, wasPassed>>
    BY <1>6 DEF CheckStart, VcrReturns, WaitReturns, VerifyReturns
  <2>. QED
    BY <2>1 DEF SigTypeOK, Guarded, OnlyExecuteReads, PassedSeen,
     ExecReady, ResultFinal
<1>. QED
  BY <1>1, <1>2, <1>3, <1>4, <1>5, <1>6 DEF Next

\* The receipt checks stay well typed; the signing steps leave them alone.
LEMMA CheckTypeStep == CheckTypeOK /\ [Next]_vars => CheckTypeOK'
<1> SUFFICES ASSUME CheckTypeOK, [Next]_vars PROVE CheckTypeOK'
  OBVIOUS
<1>1. CASE UNCHANGED checkVars
  BY <1>1 DEF checkVars, CheckTypeOK
<1>2. ASSUME NEW k \in Checks, NEW j \in Hashes, NEW how \in {"wait", "getVCR"},
             CheckStart(k, j, how)
      PROVE  CheckTypeOK'
  BY <1>2 DEF CheckStart, CheckTypeOK
<1>3. ASSUME NEW k \in Checks, VcrReturns(k) PROVE CheckTypeOK'
  <2>1. CASE CheckEnds(k, [out |-> "novcr"]) /\ UNCHANGED jobOf
    BY <2>1 DEF CheckEnds, CheckTypeOK
  <2>2. ASSUME NEW v \in Vcrs, VerifyVcr(k, v), UNCHANGED jobOf
        PROVE  CheckTypeOK'
    BY <2>2 DEF VerifyVcr, CheckTypeOK
  <2>. QED
    BY <1>3, <2>1, <2>2 DEF VcrReturns
<1>4. ASSUME NEW k \in Checks, WaitReturns(k) PROVE CheckTypeOK'
  <2>1. "wait" \in CheckReasons /\ "AttributeError" \in CheckReasons
    BY DEF CheckReasons
  <2>2. CASE CheckEnds(k, [out |-> "raised", why |-> "wait"]) /\ UNCHANGED jobOf
    BY <2>1, <2>2 DEF CheckEnds, CheckTypeOK
  <2>3. ASSUME NEW rec \in JobRecords,
               IF rec.result \/ rec.vcr # Absent
               THEN CheckEnds(k, [out |-> "raised", why |-> "AttributeError"])
               ELSE CheckEnds(k, [out |-> "novcr"]),
               UNCHANGED jobOf
        PROVE  CheckTypeOK'
    <3>1. CASE rec.result \/ rec.vcr # Absent
      BY <2>1, <2>3, <3>1 DEF CheckEnds, CheckTypeOK
    <3>2. CASE ~(rec.result \/ rec.vcr # Absent)
      BY <2>3, <3>2 DEF CheckEnds, CheckTypeOK
    <3>. QED
      BY <3>1, <3>2
  <2>. QED
    BY <1>4, <2>2, <2>3 DEF WaitReturns
<1>5. ASSUME NEW k \in Checks, VerifyReturns(k) PROVE CheckTypeOK'
  <2>1. "RpcError" \in CheckReasons
    BY DEF CheckReasons
  <2>2. ASSUME NEW d \in Verdicts,
               CheckEnds(k, [out |-> "verdict", verdict |-> d]), UNCHANGED jobOf
        PROVE  CheckTypeOK'
    BY <2>2 DEF CheckEnds, CheckTypeOK
  <2>3. CASE CheckEnds(k, [out |-> "raised", why |-> "RpcError"]) /\ UNCHANGED jobOf
    BY <2>1, <2>3 DEF CheckEnds, CheckTypeOK
  <2>. QED
    BY <1>5, <2>2, <2>3 DEF VerifyReturns
<1>6. ASSUME NEW t \in Tasks,
             \/ \E c \in Calls, h \in BOOLEAN : Invoke(t, c, h)
             \/ ProposalReturns(t) \/ NonceReturns(t)
      PROVE  UNCHANGED checkVars
  BY <1>6 DEF Invoke, ProposalReturns, NonceReturns
<1>7. ASSUME NEW i \in ProposalIds, NEW st \in {Absent} \cup ProposalStatus,
             Node(i, st)
      PROVE  UNCHANGED checkVars
  BY <1>7 DEF Node
<1>8. CASE UNCHANGED vars
  BY <1>8 DEF vars, CheckTypeOK
<1>. QED
  BY <1>1, <1>2, <1>3, <1>4, <1>5, <1>6, <1>7, <1>8 DEF Next

\* The whole inductive invariant.
IInv == SigInv /\ CheckTypeOK

LEMMA InitIInv == Init => IInv
<1>1. Init => CheckTypeOK
  BY CallsAssumption DEF Init, CheckTypeOK
<1>. QED
  BY <1>1, InitSigInv DEF IInv

LEMMA IInvStep == IInv /\ [Next]_vars => IInv'
  BY SigInvStep, CheckTypeStep DEF IInv

-----------------------------------------------------------------------------
(* The theorems.                                                           *)

\* Whatever the helper calls and the receipt checks do between their
\* awaits, every variable keeps its type: a call's outcome is one of the
\* reasons the helpers raise, a check's one of the outcomes example 04
\* reaches.
THEOREM CallsTypeCorrect == Spec => []TypeOK
<1>1. IInv => TypeOK
  BY TypeOKSplit DEF IInv, SigInv
<1>. QED
  BY <1>1, InitIInv, IInvStep, PTL DEF Spec

-----------------------------------------------------------------------------
(* The refinement of CallSpec.                                             *)

\* The abstract status after a call's pc changes.
LEMMA StatusUpdate ==
    ASSUME SigTypeOK, NEW t \in Tasks,
           NEW v \in {"start", "proposal", "nonce", "done"},
           pc' = [pc EXCEPT ![t] = v]
    PROVE  CallStatus' = [CallStatus EXCEPT
                            ![t] = IF v = "start" THEN "idle"
                                   ELSE IF v = "done" THEN "done" ELSE "running"]
BY DEF CallStatus, SigTypeOK

\* A helper that raises after an await is a Return that fails.
LEMMA RaiseRefines ==
    ASSUME SigTypeOK, NEW t \in Tasks, NEW why \in Reasons,
           pc[t] \in {"proposal", "nonce"}, Raise(t, why),
           UNCHANGED <<call, proposal, signed, wasPassed>>
    PROVE  CS!Return(t)
<1>1. CallStatus[t] = "running"
  BY DEF CallStatus, SigTypeOK
<1>2. CallStatus' = [CallStatus EXCEPT ![t] = "done"]
  BY StatusUpdate DEF Raise
<1>. QED
  BY <1>1, <1>2 DEF Raise, CS!Return, CS!Fail

\* Invoke is a Call: it raises at once, or the call starts to run.
LEMMA InvokeRefines ==
    ASSUME SigTypeOK, NEW t \in Tasks, NEW c \in Calls, NEW k \in BOOLEAN,
           Invoke(t, c, k)
    PROVE  CS!Call(t, c)
<1>1. CallStatus[t] = "idle"
  BY DEF Invoke, CallStatus
<1>2. /\ call' = [call EXCEPT ![t] = c]
      /\ wasPassed' = [wasPassed EXCEPT ![t] = CS!PassedNow]
      /\ UNCHANGED <<proposal, signed>>
  BY DEF Invoke, CS!PassedNow
<1>3. \/ CallStatus' = [CallStatus EXCEPT ![t] = "running"] /\ UNCHANGED result
      \/ \E why \in Reasons : CS!Fail(t, why)
  <2>1. CASE ~k /\ Raise(t, "keypair")
    <3>1. "keypair" \in Reasons
      BY DEF Reasons
    <3>2. CallStatus' = [CallStatus EXCEPT ![t] = "done"]
      BY <2>1, StatusUpdate DEF Raise
    <3>. QED
      BY <2>1, <3>1, <3>2 DEF Raise, CS!Fail
  <2>2. CASE k /\ ArgCheck(c) # "ok" /\ Raise(t, ArgCheck(c))
    <3>1. ArgCheck(c) \in Reasons
      BY <2>2, ArgCheckReason
    <3>2. CallStatus' = [CallStatus EXCEPT ![t] = "done"]
      BY <2>2, StatusUpdate DEF Raise
    <3>. QED
      BY <2>2, <3>1, <3>2 DEF Raise, CS!Fail
  <2>3. CASE /\ pc' = [pc EXCEPT ![t] = IF c.m = "executeProposal"
                                        THEN "proposal" ELSE "nonce"]
             /\ UNCHANGED result
    <3>1. (IF c.m = "executeProposal" THEN "proposal" ELSE "nonce")
              \in {"start", "proposal", "nonce", "done"}
      OBVIOUS
    <3>2. CallStatus' = [CallStatus EXCEPT ![t] = "running"]
      BY <2>3, <3>1, StatusUpdate
    <3>. QED
      BY <2>3, <3>2
  <2>. QED
    BY <2>1, <2>2, <2>3 DEF Invoke
<1>. QED
  BY <1>1, <1>2, <1>3 DEF CS!Call

LEMMA InitRefinesCalls == Init => CS!Init
BY DEF Init, CS!Init, CallStatus

\* Every step of the helpers, the node or the receipt checks is a step of
\* CallSpec or leaves its variables alone.
LEMMA CallStepRefines == IInv /\ [Next]_vars => [CS!Next]_CS!vars
<1> SUFFICES ASSUME IInv, [Next]_vars PROVE [CS!Next]_CS!vars
  OBVIOUS
<1>. SigTypeOK /\ Guarded /\ ExecReady
  BY DEF IInv, SigInv
<1>1. ASSUME NEW t \in Tasks, NEW c \in Calls, NEW k \in BOOLEAN, Invoke(t, c, k)
      PROVE  [CS!Next]_CS!vars
  BY <1>1, InvokeRefines DEF CS!Next
<1>2. ASSUME NEW t \in Tasks, ProposalReturns(t) PROVE [CS!Next]_CS!vars
  <2>1. pc[t] = "proposal" /\ UNCHANGED <<call, proposal, signed, wasPassed>>
    BY <1>2 DEF ProposalReturns
  <2>2. CASE Raise(t, "not found") \/ Raise(t, "not passed")
    <3>1. "not found" \in Reasons /\ "not passed" \in Reasons
      BY DEF Reasons
    <3>. QED
      BY <2>1, <2>2, <3>1, RaiseRefines DEF CS!Next
  <2>3. CASE pc' = [pc EXCEPT ![t] = "nonce"] /\ UNCHANGED result
    <3>1. CallStatus' = CallStatus
      BY <2>1, <2>3 DEF CallStatus, SigTypeOK
    <3>. QED
      BY <2>1, <2>3, <3>1 DEF CS!vars
  <2>. QED
    BY <1>2, <2>2, <2>3 DEF ProposalReturns
<1>3. ASSUME NEW t \in Tasks, NonceReturns(t) PROVE [CS!Next]_CS!vars
  <2> DEFINE c == call[t]
  <2>1. pc[t] = "nonce" /\ UNCHANGED <<call, proposal, wasPassed>>
    BY <1>3 DEF NonceReturns
  <2>2. CASE (Raise(t, "RpcError") \/ Raise(t, "fromhex") \/ Raise(t, "struct.error"))
             /\ UNCHANGED signed
    <3>1. {"RpcError", "fromhex", "struct.error"} \subseteq Reasons
      BY DEF Reasons
    <3>. QED
      BY <2>1, <2>2, <3>1, RaiseRefines DEF CS!Next
  <2>3. CASE /\ 0 <= CallValue(c) /\ CallValue(c) < ValueLimit
             /\ pc' = [pc EXCEPT ![t] = "done"]
             /\ result' = [result EXCEPT ![t] = [out |-> "tx", tx |-> Tx(c)]]
             /\ signed' = signed \cup {Tx(c)}
    <3>1. c \in Calls /\ ArgCheck(c) = "ok"
      BY <2>1 DEF SigTypeOK, Guarded
    <3>2. /\ Tx(c).to = Contract(c.m)
          /\ Tx(c).value = Moves(c)
          /\ InDocumentedRange(c)
      BY <3>1, CallValueMoves, CheckedInRange DEF Tx
    <3>3. 0 <= Tx(c).value /\ Tx(c).value < ValueLimit
      BY <2>3 DEF Tx
    <3>4. c.m = "executeProposal" => c.p[1] \in wasPassed[t]
      BY <2>1 DEF ExecReady
    <3>5. Promised(c, wasPassed[t])
      BY <3>2, <3>3, <3>4 DEF Promised
    <3>6. CallStatus[t] = "running" /\ CallStatus' = [CallStatus EXCEPT ![t] = "done"]
      BY <2>1, <2>3, StatusUpdate DEF CallStatus
    <3>. QED
      BY <2>1, <2>3, <3>5, <3>6 DEF CS!Return, CS!Next
  <2>. QED
    BY <1>3, <2>2, <2>3 DEF NonceReturns
<1>4. ASSUME NEW i \in ProposalIds, NEW st \in {Absent} \cup ProposalStatus,
             Node(i, st)
      PROVE  [CS!Next]_CS!vars
  <2>1. CallStatus' = CallStatus
    BY <1>4 DEF Node, CallStatus
  <2>2. wasPassed' = [u \in Tasks |->
                        IF st = "passed" /\ CallStatus[u] # "done"
                        THEN wasPassed[u] \cup {i} ELSE wasPassed[u]]
    BY <1>4 DEF Node, CallStatus
  <2>. QED
    BY <1>4, <2>1, <2>2 DEF Node, CS!Env, CS!Next
<1>5. CASE UNCHANGED <<pc, call, result, proposal, signed, wasPassed>>
  BY <1>5 DEF CS!vars, CallStatus
<1>6. ASSUME NEW k \in Checks, NEW j \in Hashes, NEW how \in {"wait", "getVCR"},
             CheckStart(k, j, how)
      PROVE  UNCHANGED <<pc, call, result, proposal, signed, wasPassed>>
  BY <1>6 DEF CheckStart
<1>7. ASSUME NEW k \in Checks, VcrReturns(k) \/ WaitReturns(k) \/ VerifyReturns(k)
      PROVE  UNCHANGED <<pc, call, result, proposal, signed, wasPassed>>
  BY <1>7 DEF VcrReturns, WaitReturns, VerifyReturns, CheckEnds, VerifyVcr
<1>. QED
  BY <1>1, <1>2, <1>3, <1>4, <1>5, <1>6, <1>7 DEF Next, vars

\* However many helper calls interleave at their awaits, and whatever the
\* node does meanwhile, each call behaves as one atomic call and one atomic
\* return, and it returns only a transaction the helper promises.
THEOREM RefinesCallSpec == Spec => ImplementsCallSpec
<1>. QED
  BY InitIInv, IInvStep, InitRefinesCalls, CallStepRefines, PTL
     DEF Spec, CS!Spec, ImplementsCallSpec

=============
