----------------------------- MODULE TransferHash -----------------------------
(***************************************************************************)
(* The aether_sdk package (src/sdks/python/src/aether_sdk): AetherClient, *)
(* TransferBuilder, JobBuilder and Transaction.  The client normalizes its *)
(* endpoint and hands out builders; the caller uses one builder at a time, *)
(* and one kind of builder per behaviour: the two kinds share no state (a  *)
(* transfer reads only the config, a job only the endpoint and the clock), *)
(* so their interleavings add nothing to a property of either.            *)
(* The setters validate their argument before they store it; build()      *)
(* checks the required fields.  A transfer's Transaction validates every   *)
(* field in __post_init__ and defaults writes to [recipient]; hash() is    *)
(* the SHA-256 of json.dumps of the fields (signature excluded).  A job    *)
(* request becomes a JobSubmission either through the builder's           *)
(* to_submission() or the client's prepare_job_submission().              *)
(*                                                                         *)
(* A text is a record: whether it starts with "0x" (ensure_hex), its       *)
(* length where a check reads it, and which text it is.  SHA-256 is ideal  *)
(* and json.dumps is what it does to each field, so hash() is the JSON     *)
(* payload itself: two transactions share a hash exactly when they share   *)
(* a payload.  An endpoint is a base text and its number of trailing "/". *)
(***************************************************************************)
EXTENDS Integers, Sequences, FiniteSets

CONSTANTS
    Recipients,  \* texts a caller passes to to() and as sender
    PublicKeys,  \* texts passed as sender_public_key
    Signatures,  \* texts passed as signature
    Amounts,     \* integers passed to amount(), fee() and gas_limit()
    Memos,       \* strings passed to memo()
    Nonces,      \* integers passed as nonce
    DefaultFee,  \* ClientConfig.default_fee
    DefaultGas,  \* ClientConfig.default_gas_limit
    MaxBuilds,   \* bound on the number of build() calls
    MaxJobBuilds, \* bound on those of a job builder
    None,        \* Python's None
    Endpoints,   \* endpoint texts passed to AetherClient and JobBuilder
    JobIds,      \* texts passed to id(); len is that of job_id.strip()
    Hashes,      \* texts passed to model() and input()
    Expiries,    \* integers passed to expires_at()
    Metadata,    \* dicts passed to with_metadata()
    DefaultMaxFee, \* JobBuilder's initial _max_fee, 1_000_000
    MaxTime      \* bound on int(time.time()) in the model

Text == [hex : BOOLEAN, len : Nat, id : Nat]

ASSUME TransferAssumption ==
    /\ Recipients \cup PublicKeys \cup Signatures \subseteq Text
    /\ Amounts \cup Nonces \cup {DefaultFee, DefaultGas} \subseteq Int
    /\ None \notin Memos
    /\ MaxBuilds \in Nat /\ MaxJobBuilds \in Nat
    /\ Endpoints \subseteq [base : STRING, slashes : Nat]
    /\ JobIds \cup Hashes \subseteq Text
    /\ Expiries \cup {DefaultMaxFee} \subseteq Int /\ MaxTime \in Nat
    /\ None \notin Metadata

VARIABLES
    client,      \* the AetherClient's endpoint, None before one exists
    builder,     \* the fields of the builder in use, and its kind
    result,      \* what the last call raised or returned
    emitted,     \* history: every Transaction build() returned
    builds,      \* number of build() calls so far
    now          \* int(time.time())

vars == <<client, builder, result, emitted, builds, now>>

-----------------------------------------------------------------------------
(* The validators of types.py.                                             *)

\* ensure_hex: the text starts with "0x".
IsHex(v) == v.hex

\* ensure_positive_int.
IsPositive(n) == n > 0

\* The setters that validate, with the check each one applies.
Valid(f, x) ==
    CASE f = "recipient" -> IsHex(x)
      [] f = "memo"      -> TRUE
      [] f \in {"amount", "fee", "gas_limit"} -> IsPositive(x)

-----------------------------------------------------------------------------
(* Transaction.                                                            *)

\* Mutant: __post_init__ leaves out the nonce check.
PostInitChecksNoNonce(tx) ==
    <<[ok |-> IsHex(tx.sender), field |-> "sender"],
      [ok |-> IsHex(tx.sender_public_key), field |-> "sender_public_key"],
      [ok |-> IsHex(tx.recipient), field |-> "recipient"],
      [ok |-> IsHex(tx.signature), field |-> "signature"],
      [ok |-> IsPositive(tx.amount), field |-> "amount"],
      [ok |-> IsPositive(tx.fee), field |-> "fee"],
      [ok |-> IsPositive(tx.gas_limit), field |-> "gas_limit"],
      [ok |-> TRUE, field |-> "nonce + 1"],
      [ok |-> tx.signature.len >= 66, field |-> "signature length"]>>

\* __post_init__'s checks, in order, with the field each names.
PostInitChecks(tx) ==
    <<[ok |-> IsHex(tx.sender), field |-> "sender"],
      [ok |-> IsHex(tx.sender_public_key), field |-> "sender_public_key"],
      [ok |-> IsHex(tx.recipient), field |-> "recipient"],
      [ok |-> IsHex(tx.signature), field |-> "signature"],
      [ok |-> IsPositive(tx.amount), field |-> "amount"],
      [ok |-> IsPositive(tx.fee), field |-> "fee"],
      [ok |-> IsPositive(tx.gas_limit), field |-> "gas_limit"],
      [ok |-> IsPositive(tx.nonce + 1), field |-> "nonce + 1"],
      [ok |-> tx.signature.len >= 66, field |-> "signature length"]>>

\* The first failing check of __post_init__, if any.
FirstFailure(tx) ==
    LET c == PostInitChecks(tx)
        bad == {i \in 1..9 : ~c[i].ok}
    IN  IF bad = {} THEN 0
        ELSE CHOOSE i \in bad : \A j \in bad : i <= j

\* json.dumps: str(amount) and str(fee) are JSON strings, the other
\* integers JSON numbers, a None memo is null.
JsonString(x) == [str |-> x]

JsonNull == [null |-> TRUE]

JsonMemo(m) == IF m = None THEN JsonNull ELSE JsonString(m)

\* hash(): the digest of the sorted-key JSON payload.
Hash(tx) ==
    [nonce |-> tx.nonce, sender |-> tx.sender,
     sender_public_key |-> tx.sender_public_key, recipient |-> tx.recipient,
     amount |-> JsonString(tx.amount), fee |-> JsonString(tx.fee),
     gas_limit |-> tx.gas_limit, memo |-> JsonMemo(tx.memo),
     reads |-> tx.reads, writes |-> tx.writes]

-----------------------------------------------------------------------------
(* TransferBuilder.                                                        *)

Unset == [kind |-> "transfer", recipient |-> None, amount |-> None, memo |-> None,
          fee |-> DefaultFee, gas_limit |-> DefaultGas]

\* AetherClient.transfer(): a new builder; __post_init__ copies the config.
New ==
    /\ client # None /\ builder.kind # "job"
    /\ builder' = Unset
    /\ UNCHANGED <<client, result, emitted, builds, now>>

\* to, amount, memo, fee, gas_limit: validate, then store; a rejected
\* value raises ValueError and leaves the builder as it was.
Set(f, x) ==
    /\ builder.kind = "transfer"
    /\ \/ Valid(f, x) /\ builder' = [builder EXCEPT ![f] = x]
                      /\ result' = [out |-> "self"]
       \/ ~Valid(f, x) /\ result' = [out |-> "ValueError", field |-> f]
                       /\ UNCHANGED builder
    /\ UNCHANGED <<client, emitted, builds, now>>

\* The Transaction that build() constructs, before __post_init__ runs.
Draft(sender, pk, sig, nonce) ==
    [nonce |-> nonce, sender |-> sender, sender_public_key |-> pk,
     recipient |-> builder.recipient, amount |-> builder.amount,
     fee |-> builder.fee, gas_limit |-> builder.gas_limit,
     memo |-> builder.memo, signature |-> sig, reads |-> <<>>,
     writes |-> <<builder.recipient>>]

\* build(sender=, sender_public_key=, signature=, nonce=).
Build(sender, pk, sig, nonce) ==
    LET tx == Draft(sender, pk, sig, nonce)
        i == FirstFailure(tx)
    IN  /\ builder.kind = "transfer"
        /\ builds < MaxBuilds
        /\ builds' = builds + 1
        /\ \/ builder.recipient = None
              /\ result' = [out |-> "ValueError", field |-> "recipient"]
              /\ UNCHANGED emitted
           \/ builder.recipient # None /\ builder.amount = None
              /\ result' = [out |-> "ValueError", field |-> "amount"]
              /\ UNCHANGED emitted
           \/ builder.recipient # None /\ builder.amount # None /\ i # 0
              /\ result' = [out |-> "ValueError",
                            field |-> PostInitChecks(tx)[i].field]
              /\ UNCHANGED emitted
           \/ builder.recipient # None /\ builder.amount # None /\ i = 0
              /\ result' = [out |-> "tx", tx |-> tx]
              /\ emitted' = emitted \cup {tx}
        /\ UNCHANGED <<client, builder, now>>

-----------------------------------------------------------------------------
(* AetherClient and JobBuilder.                                            *)

\* endpoint.rstrip("/").
RStrip(e) == [e EXCEPT !.slashes = 0]

IsEmpty(e) == e.base = "" /\ e.slashes = 0

\* _normalize_endpoint: an empty endpoint raises, any other is stripped.
NormalizeEndpoint(e) == RStrip(e)

\* AetherClient(endpoint): __post_init__ normalizes the endpoint.
NewClient(e) ==
    /\ \/ ~IsEmpty(e) /\ client' = NormalizeEndpoint(e)
                     /\ result' = [out |-> "client"]
       \/ IsEmpty(e) /\ result' = [out |-> "ValueError", field |-> "endpoint"]
                   /\ UNCHANGED client
    /\ UNCHANGED <<builder, emitted, builds, now>>

\* JobBuilder(endpoint).__init__.
JobUnset(e) ==
    [kind |-> "job", endpoint |-> RStrip(e), job_id |-> None,
     model_hash |-> None, input_hash |-> None, max_fee |-> DefaultMaxFee,
     expires_at |-> None, metadata |-> None]

\* client.job(), or a JobBuilder constructed directly.
NewJob(e) ==
    /\ builder.kind # "transfer"
    /\ builder' = JobUnset(e)
    /\ UNCHANGED <<client, result, emitted, builds, now>>

\* id, model, input, max_fee, expires_at, with_metadata, with the check
\* each applies; expires_at reads the clock.
JobValid(f, x) ==
    CASE f = "job_id" -> x.len > 0
      [] f \in {"model_hash", "input_hash"} -> IsHex(x)
      [] f = "max_fee" -> IsPositive(x)
      [] f = "expires_at" -> IsPositive(x) /\ x > now
      [] f = "metadata" -> TRUE

JobSet(f, x) ==
    /\ builder.kind = "job"
    /\ \/ JobValid(f, x) /\ builder' = [builder EXCEPT ![f] = x]
                         /\ result' = [out |-> "self"]
       \/ ~JobValid(f, x) /\ result' = [out |-> "ValueError", field |-> f]
                          /\ UNCHANGED builder
    /\ UNCHANGED <<client, emitted, builds, now>>

\* build() tests these fields for None, in this order.
JobRequired == <<"job_id", "model_hash", "input_hash", "expires_at">>

Request == [f \in {"job_id", "model_hash", "input_hash", "max_fee",
                   "expires_at", "metadata"} |-> builder[f]]

\* JobSubmission(url=f"{endpoint}/v1/jobs", method="POST", headers, body).
JobSubmission(e, job) ==
    [url |-> [endpoint |-> e, path |-> "/v1/jobs"], method |-> "POST",
     headers |-> "application/json", body |-> job]

\* build() raises for the first required field that is None.
JobMissing == {i \in 1..4 : builder[JobRequired[i]] = None}

FirstMissing == CHOOSE i \in JobMissing : \A j \in JobMissing : i <= j

\* build(), or to_submission(), which calls build() and wraps the request.
JobBuild(wrap) ==
    /\ builder.kind = "job"
    /\ builds < MaxJobBuilds
    /\ builds' = builds + 1
    /\ \/ JobMissing # {}
          /\ result' = [out |-> "ValueError", field |-> JobRequired[FirstMissing]]
       \/ JobMissing = {} /\ ~wrap
          /\ result' = [out |-> "job", job |-> Request]
       \/ JobMissing = {} /\ wrap
          /\ result' = [out |-> "submission",
                        sub |-> JobSubmission(builder.endpoint, Request)]
    /\ UNCHANGED <<client, builder, emitted, now>>

\* client.prepare_job_submission(job) on the request build() returned.
PrepareJob ==
    /\ client # None /\ result.out = "job"
    /\ result' = [out |-> "submission", sub |-> JobSubmission(client, result.job)]
    /\ UNCHANGED <<client, builder, emitted, builds, now>>

\* A second passes (only a job builder reads the clock).
Tick ==
    /\ builder.kind = "job" /\ now < MaxTime
    /\ now' = now + 1
    /\ UNCHANGED <<client, builder, result, emitted, builds>>

Init ==
    /\ client = None
    /\ builder = [kind |-> "none"]
    /\ result = [out |-> "none"]
    /\ emitted = {}
    /\ builds = 0
    /\ now = 1

Next ==
    \/ \E e \in Endpoints : NewClient(e)
    \/ New
    \/ client # None /\ NewJob(client)
    \/ \E e \in Endpoints : NewJob(e)
    \/ \E x \in JobIds : JobSet("job_id", x)
    \/ \E x \in Hashes : JobSet("model_hash", x) \/ JobSet("input_hash", x)
    \/ \E x \in Amounts : JobSet("max_fee", x)
    \/ \E x \in Expiries : JobSet("expires_at", x)
    \/ \E x \in Metadata : JobSet("metadata", x)
    \/ \E wrap \in BOOLEAN : JobBuild(wrap)
    \/ PrepareJob
    \/ Tick
    \/ \E r \in Recipients : Set("recipient", r)
    \/ \E n \in Amounts : Set("amount", n) \/ Set("fee", n) \/ Set("gas_limit", n)
    \/ \E m \in Memos : Set("memo", m)
    \/ \E s \in Recipients, pk \in PublicKeys, sig \in Signatures, n \in Nonces :
          Build(s, pk, sig, n)

Spec == Init /\ [][Next]_vars

-----------------------------------------------------------------------------
(* Properties.                                                             *)

\* The texts ensure_hex accepts, and the integers ensure_positive_int does.
HexTexts(S) == {x \in S : IsHex(x)}

PositiveInts(S) == {n \in S : IsPositive(n)}

\* A transfer as the spec types it: hex addresses and key, a positive
\* amount, fee and gas limit, a nonce that is not negative, and the
\* recipient as the one key written.
Transfers ==
    {tx \in [nonce : {n \in Nonces : n >= 0}, sender : HexTexts(Recipients),
             sender_public_key : HexTexts(PublicKeys),
             recipient : HexTexts(Recipients),
             amount : PositiveInts(Amounts),
             fee : PositiveInts(Amounts \cup {DefaultFee}),
             gas_limit : PositiveInts(Amounts \cup {DefaultGas}),
             memo : Memos \cup {None}, signature : HexTexts(Signatures),
             reads : {<<>>}, writes : Seq(Recipients)] :
        tx.writes = <<tx.recipient>>}

\* The type invariant.  Every transfer build() returned has the types the
\* spec gives a Transaction, whether its fee and gas limit came from the
\* config or from a setter; the setters' checks and __post_init__'s
\* overlap, and only __post_init__ sees the nonce.
TypeOK ==
    /\ client \in {None} \cup {NormalizeEndpoint(e) : e \in Endpoints}
    /\ builder.kind \in {"none", "transfer", "job"}
    /\ result.out \in {"none", "self", "client", "ValueError", "tx", "job",
                       "submission"}
    /\ emitted \subseteq Transfers
    /\ builds \in Nat /\ now \in 1..MaxTime

\* The fields a hash commits to: all but the signature.
Unsigned(tx) == [f \in DOMAIN tx \ {"signature"} |-> tx[f]]

\* An absent memo read as the empty one.
AbsentAsEmpty(tx) == IF tx.memo = None THEN [tx EXCEPT !.memo = ""] ELSE tx

\* Spec section 4.2: an absent memo and an empty one encode alike, so two
\* transfers that differ only there share a hash.  hash() puts memo into
\* the JSON payload as it is, null for None and "" for the empty string.
AbsentMemoHashesAsEmpty ==
    \A t1, t2 \in emitted :
        Unsigned(AbsentAsEmpty(t1)) = Unsigned(AbsentAsEmpty(t2))
            => Hash(t1) = Hash(t2)

=============================================================================
