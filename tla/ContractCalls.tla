----------------------------- MODULE ContractCalls -----------------------------
(***************************************************************************)
(* The transaction-producing helpers of the aether package: AIJobHelper    *)
(* (ai.py), StakingHelper (staking.py) and GovernanceHelper                *)
(* (governance.py).  Each helper method checks for a keypair and its       *)
(* arguments, awaits get_nonce (execute_proposal first awaits              *)
(* get_proposal), encodes its call data and signs a contract call with     *)
(* TransactionBuilder.call(...).sign().  Several calls may be in flight as *)
(* asyncio tasks; the node may change any proposal between their awaits.   *)
(*                                                                         *)
(* Call data is a sequence of chunks, one per byte where a cut can fall:   *)
(* a method name is its first four characters, one byte each (the names    *)
(* are ASCII), and the rest of the name as one chunk; json.dumps(params)   *)
(* is one chunk holding the parameters; bytes.fromhex(h[2:]) and raw bytes  *)
(* are one chunk each.  Every name has at least four characters, so the    *)
(* cut [:4] of _encode_call falls inside the name.  The nonce a call reads *)
(* is left to NonceRace, which models it; here get_nonce returns or        *)
(* raises.  sign() is TxCodec's: every field is set, so build() succeeds,  *)
(* and _serialize raises struct.error for a value out of "<Q" range.       *)
(*                                                                         *)
(* The receipt checks are the callers of get_vcr and verify_vcr: a task    *)
(* that fetches a job's VCR with get_vcr and hands it to verify_vcr, and   *)
(* the tail of example 04, which verifies job.vcr after                    *)
(* wait_for_job_completion.  _call returns the node's JSON as Python       *)
(* values, and AIJob(...) keeps them: job.result is a str and job.vcr a    *)
(* dict, where VerifiableComputeReceipt(...) in get_vcr builds an          *)
(* object.  A receipt check and a signing helper share no state, so a      *)
(* behaviour runs either helper calls or receipt checks.                   *)
(***************************************************************************)
EXTENDS Integers, Sequences, FiniteSets

CONSTANTS
    Tasks,          \* concurrent helper calls
    Hashes,         \* texts passed as model_hash and job_id
    BadHex,         \* those whose h[2:] bytes.fromhex rejects
    Blobs,          \* byte strings passed as input_data and result
    Ints,           \* integers passed as amounts, stakes and commission
    Lengths,        \* lengths of the title and description texts
    Addresses,      \* validator addresses
    ProposalIds,
    ValueLimit,     \* 2^64: "<Q" packs 0 .. ValueLimit - 1
    Absent,         \* the node has no proposal with that id; None
    Checks          \* concurrent receipt checks

ASSUME CallsAssumption ==
    /\ BadHex \subseteq Hashes /\ Hashes # {}
    /\ Ints \subseteq Int /\ Lengths \subseteq Nat
    /\ ValueLimit \in Nat \ {0}

ProposalStatus == {"active", "passed", "rejected", "executed"}

\* The parameters of each helper method, in the order of its signature.
Params == [
    submitJob         |-> Hashes \X Blobs \X Ints,
    acceptJob         |-> Hashes \X {TRUE},
    submitResult      |-> Hashes \X Blobs,
    challengeResult   |-> Hashes \X Ints,
    claimPayment      |-> Hashes \X {TRUE},
    registerValidator |-> Ints \X Ints,
    delegate          |-> Addresses \X Ints,
    undelegate        |-> Addresses \X Ints,
    claimRewards      |-> {TRUE} \X {TRUE},
    createProposal    |-> Lengths \X Lengths,
    vote              |-> ProposalIds \X BOOLEAN,
    executeProposal   |-> ProposalIds \X {TRUE}]

Calls == UNION {[m : {m}, p : Params[m]] : m \in DOMAIN Params}

VARIABLES
    pc,         \* pc[t]: "start", "proposal", "nonce" or "done"
    call,       \* call[t]: the method and arguments task t was called with
    result,     \* result[t]: what the call returned or raised
    proposal,   \* proposal[i]: the node's status of proposal i
    signed,     \* history: every transaction a helper returned
    wasPassed   \* wasPassed[t]: proposals passed at some point of task t

VARIABLES
    step,       \* step[k]: "start", "wait", "getVCR", "verify" or "done"
    jobOf,      \* jobOf[k]: the job id receipt check k is about
    outcome,    \* outcome[k]: what the check ended with
    forwarded   \* history: every request the verifier was sent

checkVars == <<step, jobOf, outcome, forwarded>>

vars == <<pc, call, result, proposal, signed, wasPassed, step, jobOf,
          outcome, forwarded>>

-----------------------------------------------------------------------------
(* The helpers' constants and call data.                                   *)

\* STAKING_CONTRACT, GOVERNANCE_CONTRACT, JOB_ESCROW_CONTRACT.
Contract(m) ==
    CASE m \in {"registerValidator", "delegate", "undelegate", "claimRewards"}
              -> "staking"
      [] m \in {"createProposal", "vote", "executeProposal"} -> "governance"
      [] OTHER -> "escrow"

\* The UTF-8 bytes of each method name.
Utf8 == [
    submitJob         |-> <<"s", "u", "b", "m", "itJob">>,
    acceptJob         |-> <<"a", "c", "c", "e", "ptJob">>,
    submitResult      |-> <<"s", "u", "b", "m", "itResult">>,
    challengeResult   |-> <<"c", "h", "a", "l", "lengeResult">>,
    claimPayment      |-> <<"c", "l", "a", "i", "mPayment">>,
    registerValidator |-> <<"r", "e", "g", "i", "sterValidator">>,
    delegate          |-> <<"d", "e", "l", "e", "gate">>,
    undelegate        |-> <<"u", "n", "d", "e", "legate">>,
    claimRewards      |-> <<"c", "l", "a", "i", "mRewards">>,
    createProposal    |-> <<"c", "r", "e", "a", "teProposal">>,
    vote              |-> <<"v", "o", "t", "e">>,
    executeProposal   |-> <<"e", "x", "e", "c", "uteProposal">>]

\* _encode_call: (method + json.dumps(params)).encode()[:4].
EncodeCall(m, params) == SubSeq(Utf8[m] \o <<[json |-> params]>>, 1, 4)

\* _encode_job_submission and _encode_result_submission: four bytes of the
\* name, the bytes of the hex text, the raw bytes.
EncodeWithHash(m, h, blob) ==
    SubSeq(Utf8[m], 1, 4) \o <<[hex |-> h], [raw |-> blob]>>

\* The data each method encodes, with the parameters it passes.
CallData(c) ==
    CASE c.m \in {"submitJob", "submitResult"}
              -> EncodeWithHash(c.m, c.p[1], c.p[2])
      [] c.m = "registerValidator" -> EncodeCall(c.m, <<c.p[2]>>)
      [] c.m = "delegate"          -> EncodeCall(c.m, <<c.p[1]>>)
      [] c.m = "claimRewards"      -> EncodeCall(c.m, <<>>)
      [] c.m = "createProposal"    -> EncodeCall(c.m, <<c.p[1], c.p[2], 100800>>)
      [] c.m \in {"vote", "undelegate"} -> EncodeCall(c.m, c.p)
      [] OTHER                     -> EncodeCall(c.m, <<c.p[1]>>)

\* The value argument of TransactionBuilder.call in ai.py: submit_job
\* passes aic_amount, challenge_result challenge_stake; the others none.
AIValue(c) ==
    CASE c.m = "submitJob" -> c.p[3]
      [] c.m = "challengeResult" -> c.p[2]
      [] OTHER -> 0

\* Mutant: register_validator passes its commission as the value.
StakingValueCommission(c) ==
    CASE c.m = "registerValidator" -> c.p[2]
      [] c.m = "delegate" -> c.p[2]
      [] OTHER -> 0

\* The value argument in staking.py: register_validator passes stake,
\* delegate amount; undelegate and claim_rewards none.
StakingValue(c) ==
    CASE c.m = "registerValidator" -> c.p[1]
      [] c.m = "delegate" -> c.p[2]
      [] OTHER -> 0

\* The value of TransactionBuilder.call (default 0; governance passes none).
CallValue(c) ==
    CASE Contract(c.m) = "escrow" -> AIValue(c)
      [] Contract(c.m) = "staking" -> StakingValue(c)
      [] OTHER -> 0

\* Why a helper raised: the keypair check, one of the argument checks, a
\* proposal that is missing or not passed, the RPC error of get_nonce,
\* bytes.fromhex, and struct.pack of the value.
Reasons == {"keypair", "aic_amount", "challenge_stake", "commission", "title",
            "description", "not found", "not passed", "RpcError", "fromhex",
            "struct.error"}

\* The argument checks of ai.py: the name of the failing one, or "ok".
AIArgCheck(c) ==
    CASE c.m = "submitJob" /\ c.p[3] <= 0 -> "aic_amount"
      [] c.m = "challengeResult" /\ c.p[2] <= 0 -> "challenge_stake"
      [] OTHER -> "ok"

\* The one argument check of staking.py, on register_validator's
\* commission; stake and the amounts are not checked.
StakingArgCheck(c) ==
    IF c.m = "registerValidator" /\ (c.p[2] < 0 \/ c.p[2] > 10000)
    THEN "commission" ELSE "ok"

\* The checks of create_proposal, title first.
GovArgCheck(c) ==
    CASE c.m = "createProposal" /\ ~(1 <= c.p[1] /\ c.p[1] <= 256) -> "title"
      [] c.m = "createProposal" /\ ~(1 <= c.p[2] /\ c.p[2] <= 10000)
              -> "description"
      [] OTHER -> "ok"

\* The argument checks before the first await of the method's helper.
ArgCheck(c) ==
    CASE Contract(c.m) = "escrow" -> AIArgCheck(c)
      [] Contract(c.m) = "staking" -> StakingArgCheck(c)
      [] OTHER -> GovArgCheck(c)

\* bytes.fromhex(h[2:]) raises ValueError in the encoders that use it.
EncodeFails(c) == c.m \in {"submitJob", "submitResult"} /\ c.p[1] \in BadHex

\* The transaction sign() returns; the signature is ideal and omitted.
Tx(c) == [to |-> Contract(c.m), value |-> CallValue(c), data |-> CallData(c),
          intent |-> c]

-----------------------------------------------------------------------------
(* The helper methods, one step per stretch between awaits.                *)

Raise(t, why) ==
    /\ pc' = [pc EXCEPT ![t] = "done"]
    /\ result' = [result EXCEPT ![t] = [out |-> "raised", why |-> why]]

\* Entry: the keypair check, the argument checks, then the first await.
Invoke(t, c, hasKeypair) ==
    /\ pc[t] = "start"
    /\ \A k \in Checks : step[k] = "start"
    /\ call' = [call EXCEPT ![t] = c]
    /\ wasPassed' = [wasPassed EXCEPT
                        ![t] = {i \in ProposalIds : proposal[i] = "passed"}]
    /\ \/ ~hasKeypair /\ Raise(t, "keypair")
       \/ hasKeypair /\ ArgCheck(c) # "ok" /\ Raise(t, ArgCheck(c))
       \/ /\ hasKeypair /\ ArgCheck(c) = "ok"
          /\ pc' = [pc EXCEPT ![t] = IF c.m = "executeProposal"
                                     THEN "proposal" ELSE "nonce"]
          /\ UNCHANGED result
    /\ UNCHANGED <<proposal, signed>>
    /\ UNCHANGED checkVars

\* execute_proposal resumes after get_proposal: None (no record, or any
\* RPC error, which get_proposal swallows) or a status other than passed
\* raises ValueError (an RPC error can end any read this way, so "not
\* found" is possible whatever the node holds); otherwise it goes on to get_nonce.
ProposalReturns(t) ==
    LET st == proposal[call[t].p[1]]
    IN  /\ pc[t] = "proposal"
        /\ \/ Raise(t, "not found")
           \/ st \notin {Absent, "passed"} /\ Raise(t, "not passed")
           \/ st = "passed" /\ pc' = [pc EXCEPT ![t] = "nonce"]
                            /\ UNCHANGED result
        /\ UNCHANGED <<call, proposal, signed, wasPassed>>
        /\ UNCHANGED checkVars

\* Mutant: sign() packs the value without a range check.
NonceReturnsUnpacked(t) ==
    LET c == call[t]
    IN  /\ pc[t] = "nonce"
        /\ \/ Raise(t, "RpcError") /\ UNCHANGED signed
           \/ EncodeFails(c) /\ Raise(t, "fromhex") /\ UNCHANGED signed
           \/ /\ ~EncodeFails(c)
              /\ pc' = [pc EXCEPT ![t] = "done"]
              /\ result' = [result EXCEPT ![t] = [out |-> "tx", tx |-> Tx(c)]]
              /\ signed' = signed \cup {Tx(c)}
        /\ UNCHANGED <<call, proposal, wasPassed>>
        /\ UNCHANGED checkVars

\* The helper resumes after get_nonce: it raised; or the encoder raises;
\* or sign() runs to the end with no await inside: struct.error for a
\* value out of range, else the signed transaction is returned.
NonceReturns(t) ==
    LET c == call[t]
    IN  /\ pc[t] = "nonce"
        /\ \/ Raise(t, "RpcError") /\ UNCHANGED signed
           \/ EncodeFails(c) /\ Raise(t, "fromhex") /\ UNCHANGED signed
           \/ /\ ~EncodeFails(c)
              /\ ~(0 <= CallValue(c) /\ CallValue(c) < ValueLimit)
              /\ Raise(t, "struct.error") /\ UNCHANGED signed
           \/ /\ ~EncodeFails(c)
              /\ 0 <= CallValue(c) /\ CallValue(c) < ValueLimit
              /\ pc' = [pc EXCEPT ![t] = "done"]
              /\ result' = [result EXCEPT ![t] = [out |-> "tx", tx |-> Tx(c)]]
              /\ signed' = signed \cup {Tx(c)}
        /\ UNCHANGED <<call, proposal, wasPassed>>
        /\ UNCHANGED checkVars

\* The node changes a proposal's status.
Node(i, st) ==
    /\ proposal' = [proposal EXCEPT ![i] = st]
    /\ wasPassed' = [t \in Tasks |->
                       IF st = "passed" /\ pc[t] # "done"
                       THEN wasPassed[t] \cup {i} ELSE wasPassed[t]]
    /\ UNCHANGED <<pc, call, result, signed>>
    /\ UNCHANGED checkVars

-----------------------------------------------------------------------------
(* The receipt checks: get_vcr, verify_vcr and example 04's tail.          *)

\* A receipt as the node returns it: of the fields of
\* VerifiableComputeReceipt only job_id is told apart here.
Vcrs == [job_id : Hashes]

\* A completed job as wait_for_job_completion returns it: whether its
\* result text is non-empty, and its vcr (a dict) or None.
JobRecords == [result : BOOLEAN, vcr : Vcrs \cup {Absent}]

\* ai_verifyVCR's answer, three flags passed back unchanged.
Verdicts == [valid : BOOLEAN, kzg_valid : BOOLEAN, tee_valid : BOOLEAN]

\* Why a receipt check raised: the wait's TimeoutError or ValueError,
\* the AttributeError of str.decode or dict.__dict__, an RPC error.
CheckReasons == {"wait", "AttributeError", "RpcError"}

\* verify_vcr sends vcr.__dict__ to the verifier; it checks nothing first.
VerifyVcr(k, v) ==
    /\ step' = [step EXCEPT ![k] = "verify"]
    /\ forwarded' = forwarded \cup {[job |-> jobOf[k], vcr |-> v]}
    /\ UNCHANGED outcome

CheckEnds(k, out) ==
    /\ step' = [step EXCEPT ![k] = "done"]
    /\ outcome' = [outcome EXCEPT ![k] = out]
    /\ UNCHANGED forwarded

\* A check starts, about job j, with get_vcr(j) or with the wait.
CheckStart(k, j, how) ==
    /\ step[k] = "start"
    /\ \A t \in Tasks : pc[t] = "start"
    /\ step' = [step EXCEPT ![k] = how]
    /\ jobOf' = [jobOf EXCEPT ![k] = j]
    /\ UNCHANGED <<outcome, forwarded>>
    /\ UNCHANGED <<pc, call, result, proposal, signed, wasPassed>>

\* get_vcr returns: None for no data and for any exception (the bare
\* except), else the receipt, which goes to verify_vcr.
VcrReturns(k) ==
    /\ step[k] = "getVCR"
    /\ \/ CheckEnds(k, [out |-> "novcr"])
       \/ \E v \in Vcrs : VerifyVcr(k, v)
    /\ UNCHANGED jobOf
    /\ UNCHANGED <<pc, call, result, proposal, signed, wasPassed>>

\* Example 04 after wait_for_job_completion: the wait raised; or a
\* non-empty job.result (a str) fails at .decode(); or job.vcr (a dict)
\* fails at vcr.__dict__ inside verify_vcr before any request; or there
\* is no vcr to verify.
WaitReturns(k) ==
    /\ step[k] = "wait"
    /\ \/ CheckEnds(k, [out |-> "raised", why |-> "wait"])
       \/ \E rec \in JobRecords :
             IF rec.result \/ rec.vcr # Absent
             THEN CheckEnds(k, [out |-> "raised", why |-> "AttributeError"])
             ELSE CheckEnds(k, [out |-> "novcr"])
    /\ UNCHANGED jobOf
    /\ UNCHANGED <<pc, call, result, proposal, signed, wasPassed>>

\* verify_vcr's RPC returns the verifier's flags, or raises.
VerifyReturns(k) ==
    /\ step[k] = "verify"
    /\ \/ \E d \in Verdicts : CheckEnds(k, [out |-> "verdict", verdict |-> d])
       \/ CheckEnds(k, [out |-> "raised", why |-> "RpcError"])
    /\ UNCHANGED jobOf
    /\ UNCHANGED <<pc, call, result, proposal, signed, wasPassed>>

Init ==
    /\ pc = [t \in Tasks |-> "start"]
    /\ call = [t \in Tasks |-> CHOOSE c \in Calls : TRUE]
    /\ result = [t \in Tasks |-> [out |-> "none"]]
    /\ proposal \in [ProposalIds -> {Absent} \cup ProposalStatus]
    /\ signed = {}
    /\ wasPassed = [t \in Tasks |-> {}]
    /\ step = [k \in Checks |-> "start"]
    /\ jobOf = [k \in Checks |-> CHOOSE j \in Hashes : TRUE]
    /\ outcome = [k \in Checks |-> [out |-> "none"]]
    /\ forwarded = {}

Next ==
    \/ \E t \in Tasks, c \in Calls, k \in BOOLEAN : Invoke(t, c, k)
    \/ \E t \in Tasks : ProposalReturns(t) \/ NonceReturns(t)
    \/ \E i \in ProposalIds, st \in {Absent} \cup ProposalStatus : Node(i, st)
    \/ \E k \in Checks, j \in Hashes, how \in {"wait", "getVCR"} :
          CheckStart(k, j, how)
    \/ \E k \in Checks : VcrReturns(k) \/ WaitReturns(k) \/ VerifyReturns(k)

Spec == Init /\ [][Next]_vars

-----------------------------------------------------------------------------
(* Properties.                                                             *)

\* The type invariant; every signed value is one "<Q" packs.
TypeOK ==
    /\ pc \in [Tasks -> {"start", "proposal", "nonce", "done"}]
    /\ call \in [Tasks -> Calls]
    /\ proposal \in [ProposalIds -> {Absent} \cup ProposalStatus]
    /\ result \in [Tasks -> {[out |-> "none"]} \cup [out : {"raised"}, why : Reasons]
                             \cup [out : {"tx"}, tx : signed]]
    /\ \A tx \in signed : tx.intent \in Calls /\ tx.value \in 0..(ValueLimit - 1)
    /\ wasPassed \in [Tasks -> SUBSET ProposalIds]
    /\ step \in [Checks -> {"start", "wait", "getVCR", "verify", "done"}]
    /\ jobOf \in [Checks -> Hashes]
    /\ outcome \in [Checks -> {[out |-> "none"], [out |-> "novcr"]}
                               \cup [out : {"raised"}, why : CheckReasons]
                               \cup [out : {"verdict"}, verdict : Verdicts]]
    /\ forwarded \subseteq [job : Hashes, vcr : Vcrs]

\* The parameter that names the amount each method moves, by the names in
\* its signature: submit_job's aic_amount, challenge_result's
\* challenge_stake, register_validator's stake, delegate's amount.
MovedParam == [submitJob |-> 3, challengeResult |-> 2, registerValidator |-> 1,
               delegate |-> 2]

\* The amount a call moves; the other methods move none.
Moves(c) == IF c.m \in DOMAIN MovedParam THEN c.p[MovedParam[c.m]] ELSE 0

\* The ranges the helpers' error messages state.
InDocumentedRange(c) ==
    /\ c.m = "submitJob" => c.p[3] > 0
    /\ c.m = "challengeResult" => c.p[2] > 0
    /\ c.m = "registerValidator" => 0 <= c.p[2] /\ c.p[2] <= 10000
    /\ c.m = "createProposal" =>
          /\ 1 <= c.p[1] /\ c.p[1] <= 256
          /\ 1 <= c.p[2] /\ c.p[2] <= 10000

\* A contract reads a call from its data and value: two signed calls to
\* one contract with the same value and data are the same call, so the
\* method and every argument reach the contract.
CallDataDeterminesIntent ==
    \A t1, t2 \in signed :
        t1.to = t2.to /\ t1.value = t2.value /\ t1.data = t2.data
            => t1.intent = t2.intent


\* Spec section 4.5: a receipt whose job_id is not the id of the job under
\* test is rejected locally, without a request to the external verifier.
\* get_vcr returns whatever receipt the node holds and verify_vcr forwards
\* it as it is.
ForwardedOnlyCrossChecked ==
    \A f \in forwarded : f.vcr.job_id = f.job

-----------------------------------------------------------------------------
(* Refinement of CallSpec.                                                 *)

\* What a helper may sign, by its docstring and its error messages: a
\* transaction to the method's contract with the amount it moves, packable
\* by "<Q", from arguments in the documented ranges, and for
\* execute_proposal a proposal passed while the call ran.
Promised(c, P) ==
    /\ Tx(c).to = Contract(c.m)
    /\ Tx(c).value = Moves(c)
    /\ 0 <= Tx(c).value /\ Tx(c).value < ValueLimit
    /\ InDocumentedRange(c)
    /\ c.m = "executeProposal" => c.p[1] \in P

\* A call is idle before Invoke, done once it raised or returned, and
\* running while it waits in get_proposal or get_nonce.
CallStatus ==
    [t \in Tasks |-> IF pc[t] = "start" THEN "idle"
                     ELSE IF pc[t] = "done" THEN "done" ELSE "running"]

CS == INSTANCE CallSpec
        WITH status <- CallStatus, acall <- call, aresult <- result,
             passed <- wasPassed, ProposalStates <- {Absent} \cup ProposalStatus,
             MkTx <- Tx, Allowed <- Promised

\* However the helper calls interleave at their awaits, and whatever the
\* node does meanwhile, each call behaves as one atomic call and one atomic
\* return that signs only what the helper promises.
ImplementsCallSpec == CS!Spec

=============================================================================
