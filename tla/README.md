# Formal models of the Aether Python SDKs

This directory holds TLA+ models of the client libraries under `src/`,
TLC configurations that check them on small instances, and TLAPS proofs
that hold for every value of their constants.

## 1. The system

The repository has two Python client packages for the Aether ledger. Neither
implements the ledger; both build, sign and submit transactions and AI jobs,
and track them through a remote node's JSON-RPC interface.

* `src/sdk/python/src/aether` (package `aether`, asynchronous):
  * `keypair.py`: **Signer**. Ed25519 keys, `from_seed` (secret = SHA-256 of
    the seed), `sign`, `verify` (never raises) and the address, which is the
    last 20 bytes of SHA-256 of the public key. Stateless apart from the key.
  * `transaction.py`: **TransactionBuilder**. Fluent setters for from, to,
    value, data and nonce. `build()` checks that four fields are not None.
    `sign()` calls `_serialize`, the canonical codec: the UTF-8 of both
    address strings, then `<Q` value, data, and `<I` nonce. It hashes the
    result with SHA-256, signs the digest and writes `signature` and `hash`
    into the (mutable) transaction.
  * `client.py`: **AetherClient**. `_call` does a JSON-RPC POST through httpx
    with a 30 s client timeout and raises `Exception` on an HTTP or RPC
    error. The per-method wrappers, `send_transaction` (the envelope) and
    **`wait_for_transaction`** (a polling loop) sit on top of it.
  * `ai.py`: **AIJobHelper**. Each helper (`submit_job`, `accept_job`,
    `submit_result`, `challenge_result`, `claim_payment`) reads the account
    nonce over RPC, encodes call data, then builds and signs a call to the
    escrow contract. `get_job` and `get_vcr` swallow every exception.
    `verify_vcr` forwards a VCR to the node, and
    **`wait_for_job_completion`** is the second polling loop.
  * `staking.py` and `governance.py`: the same pattern (check arguments,
    read the nonce, encode a call, sign) for staking and governance.
  * `types.py`: the dataclasses, including the job lifecycle `JobStatus` and
    `TransactionReceipt.status`.
* `src/sdks/python/src/aether_sdk` (package `aether_sdk`, synchronous):
  * `TransferBuilder` validates its setters and builds a `Transaction`;
    `__post_init__` checks it again.
  * `Transaction.hash()` is a SHA-256 over a sorted-key JSON payload.
  * `JobBuilder` and `AetherClient.prepare_job_submission` build an HTTP
    request value; `submit` only hashes.

How the parts interact: a helper calls `get_nonce` (an RPC), then the
builder, codec and signer (pure code). `send_transaction` is an RPC. A
completion wait then polls an RPC until the ledger's record is terminal.
There are no callbacks and no shared mutable state between tasks except the
client object. Its `_request_id` is incremented and read with no await in
between, so under asyncio that cannot interleave. The ledger lives
entirely on the node.

The hard behaviours:

* **Concurrency.** Several asyncio tasks share one event loop and one
  client. Example 05 gathers N submissions, then N waits. A task suspends
  only at an `await`, so the interleavings happen at the RPCs and the
  sleeps.
* **Timing.** Each wait's deadline is tested only at the loop head. An
  in-flight RPC can take up to the httpx timeout, and the loop sleeps
  between probes.
* **Failure.** An RPC may fail. `get_job` turns every failure into None, but
  `wait_for_transaction` lets it propagate. The ledger may never include a
  transaction or advance a job.
* **Stale reads.** The nonce is read before an await and used after it.
  Polling sees one snapshot of the job per interval.
* **Encodings.** The canonical byte layout, the 4-byte call selector and the
  JSON hash decide which distinct intents end up with the same bytes.

The properties that make each part correct are listed with the hazards in
`PROJECT.json` and in section 3.

## 2. Plan

Modules in order of importance. Each component gets a module, an `MC_`
module and its `.cfg` files, and a `_proofs` module where proofs are
worthwhile.

1. **CompletionTracker** (done). Both polling loops as concurrent tasks on
   a discrete event-loop clock, with the ledger as environment. Safety: the
   end-time bound, and the exceptions each wait can raise. Liveness: every
   wait ends. The spec's tighter timeout bound is recorded, no longer
   run. Proved: the type invariant, the
   end-time bound and the refinement of WaitSpec.
2. **NonceRace** (done). Helper calls for one keypair: `get_nonce`, then
   encode and sign, then `send_transaction`, then `wait_for_transaction`,
   from a sequential or a gathered caller. The ledger includes a
   transaction only if its nonce equals the account nonce. Safety: no nonce
   signed twice (violated under `asyncio.gather`). Liveness: every received
   transaction is included (sequential) or settles (gathered). Proved: the
   type invariant and the sequential nonce invariant.
3. **TxCodec** (done). The builder's setters, `build()` and `sign()` with
   `_serialize` as a byte sequence. The finding is that unchecked address
   texts make two transactions share their signed bytes. Proved: the layout of
   every signed transaction, and that it decodes back to the transaction
   (`TxCodec_proofs`, with the integer lemmas in `TxCodecInts_proofs`).
4. **ContractCalls** (done). Every signing helper of `ai.py`, `staking.py`
   and `governance.py` with its guards, awaits and encoder. The finding is
   that `_encode_call` drops every parameter. Proved: the type invariant
   and the refinement of CallSpec for any number of concurrent calls. The
   receipt checks (item 6) are tasks of the same module.
5. **TransferHash** (done). The `aether_sdk` client, both builders,
   `__post_init__` and `hash()`. Safety: every transaction `build()`
   returns has the spec's types. The finding is that memo None and memo ''
   hash apart (`transfer_memo`).
6. **Receipt checks** (done, in ContractCalls). `get_vcr`, `verify_vcr` and
   the verify step of example 04. The finding is that a receipt naming
   another job reaches the verifier (`calls_vcr`). In the model, example
   04's own flow never reaches the verifier, because `AIJob` keeps
   `job.vcr` as a dict. `submit_result`, which drops the VCR, is a signing
   helper of the same module.
7. **BatchJobs** (not built; see section 8). It would compose NonceRace
   and CompletionTracker as in example 05, with the job id taken from the
   submission's hash.
8. Abstract specification **WaitSpec** (done): `Waiting -> Terminal(success |
   failure) | TimedOut`, with a refinement mapping from CompletionTracker
   (`pc`, `result`) checked as a PROPERTY and proved step by step.
9. Abstract specification **CallSpec** (done): a helper call as one atomic
   `Call` and one atomic `Return`, with a refinement mapping from
   ContractCalls checked as a PROPERTY and proved step by step.

Theorems proved:
* the type invariants of CompletionTracker, NonceRace and ContractCalls;
* the nonce invariant of the sequential NonceRace, and its inclusion in
  call order (an action property);
* the refinement of WaitSpec by CompletionTracker;
* the codec layout lemma, the layout of every signed transaction, and
  that every signed transaction decodes back to itself (`EmittedDecodes`,
  for addresses of the fixed length), from the round trip of
  `struct.pack` through Horner's rule;
* ContractCalls' refinement of CallSpec, whose value is the amount each
  method's signature names.

## 3. CompletionTracker

Sources: `client.py` (`_call`, `get_transaction_receipt`,
`wait_for_transaction`) and `ai.py` (`get_job`, `wait_for_job_completion`).

**State.**

| variable | code |
|---|---|
| `elapsed[w]` | `loop.time() - start_time` of wait `w` |
| `timer[w]` | when the awaited RPC (httpx timeout) or `asyncio.sleep` ends |
| `pc[w]` | loop head / awaiting RPC / sleeping / returned or raised |
| `result[w]` | how the wait ended and the ledger value it decided on |
| `remote[w]` | the node's receipt or job record (environment) |

**Actions.** Each action is the code of one task from one await to the
next.

* `Poll`: the while test passes and the RPC is sent.
* `GiveUp`: the test fails and `TimeoutError` is raised.
* `ReceiptReturns`: the response reaches `wait_for_transaction`. The call
  raises, or the receipt (of any status) is returned, or the loop sleeps.
* `JobReturns`: the response reaches `wait_for_job_completion` through
  `GetJob`, which yields the record or None on any failure. None raises
  not-found, completed or settled is returned, challenged raises, and
  anything else sleeps.
* `Tick`: the loop is idle and the clock advances. It never passes a
  pending timer.
* `IncludeTx` and `AdvanceJob`: the ledger, along the lifecycle of spec
  section 3.
* `Terminated`: all waits are over.

**Fairness.** Weak fairness on every wait action and on `Tick`. asyncio
runs every ready task, time passes, and httpx answers or raises within its
timeout, so an awaited RPC always ends. The ledger gets no fairness.
Time is discrete. `PollInterval >= 1` is assumed (`TimeAssumption`),
because `asyncio.sleep(0)` would let a loop spin with a frozen discrete
clock. `MaxElapsed` caps the clock, and the assumption
`MaxElapsed >= Timeout + RpcLatency + PollInterval` makes the cap
unreachable, so it never cuts a behaviour short.

**Runs.**

| run | checks | result |
|---|---|---|
| `tracker_safety` | `TypeOK`, `WaitBounded` | pass, 3.8M states |
| `tracker_liveness` | `EveryWaitEnds`, `ImplementsWaitSpec` | pass, 20K states |

* `tracker_safety`: one transaction wait and two job waits (symmetric),
  Timeout 4, PollInterval 1, RpcLatency 1. Each wait probes up to four
  times, and every ledger interleaving between the probes is explored.
* `tracker_liveness`: one wait of each kind (no symmetry, because symmetry
  is unsound for liveness).
* A job that is challenged and then settled between two polls is returned
  as a success. TLC reaches this, but it is what spec section 3 allows:
  settled follows challenged and is a terminal success. So no property
  calls it wrong.
* `WaitBounded` is tight. The last probe may start at `Timeout - 1`, take
  the whole `RpcLatency`, and be followed by one more sleep. TLC reaches
  `elapsed = Timeout + RpcLatency + PollInterval - 1` on a running wait.
  The `PollAtDeadline` mutant, which probes once more at the deadline,
  breaks the bound.
* Seen in the model, no longer run: `TimeoutWithinPollInterval`, the spec's
  bound `timeout + poll_interval`. It fails once an RPC takes more than one
  tick: with RpcLatency 2 a probe sent just before the deadline returns
  after it, and one more sleep follows. `WaitBounded`, checked above and
  proved as `WaitBoundedThm`, states the bound the code does keep:
  `timeout + rpc latency + poll_interval`. The run that showed the spec's
  bound failing was retired to make room for `calls_vcr`, since the
  proved bound already records the difference.

  The findings in `PROJECT.json` give the lines.

* Seen in the code, not run: `get_job` swallows every exception with a bare
  `except` (ai.py:29), so a single failed `get_job` ends a job wait as "not
  found" for a job that exists. Spec sections 7 and 9 keep the two apart.
  The model has this outcome (`GetJob` may hand back None whatever the node
  holds), and one stubbed call shows it, so no run is spent on it.

**What is proved** (`CompletionTracker_proofs`, TLAPS). The proofs assume
only `WaitsAssumption` (the two wait sets are finite and disjoint) and
`TimeAssumption`.

* `TypeCorrect`: `Spec => []TypeOK`, by induction over `Next`, one step
  per action.
* `WaitBoundedThm`: `Spec => []WaitBounded`.
  `WaitBounded` is not inductive, because it says nothing about the timer
  a suspended wait is waiting for. The strengthening `TimerInv` says:
  - a waiting probe was sent before the deadline, and its timer is
    `< Timeout + RpcLatency`;
  - a sleep's timer is `< Timeout + RpcLatency + PollInterval`;
  - the clock never passes a pending timer;
  - a wait is at the loop head only at elapsed 0.

  TLC checked `TypeOK /\ TimerInv` as an invariant (10.9M states) before
  the proof was written.
* `RefinesWaitSpec`: `Spec => WS!SafeSpec`. The initial states map to
  initial states, and under `TypeOK /\ TimerInv` every step maps to an
  abstract step or a stutter:
  - `Poll`, `Sleep` and a wake-up are stutters;
  - `GiveUp`, and each `Finish`, are `End`;
  - `Tick` is the abstract `Tick`. Its grace guard is exactly what
    `TimerInv` gives for an idle wait;
  - ledger moves are `Ledger`.

**The abstract wait** (`WaitSpec`). The abstract wait has no timers and no
RPCs. A wait has a clock and ends exactly once. It may end:
* by a timeout, only once the clock has reached `Timeout`;
* by "returned", only on a record its caller may receive (any receipt, or
  a completed or settled job);
* by "challenged", only on a challenged record;
* by "not found", only for a job wait;
* by a raised RPC error, only for a transaction wait.

Time cannot pass a running wait's clock beyond `Timeout + Grace`, and every
wait ends (weak fairness on `End`). `CompletionTracker` instantiates it as
`WS`:
* `ended[w]` is `pc[w] = "done"`;
* `clock` is `elapsed`;
* `outcome` is `result`;
* `Grace` is `RpcLatency + PollInterval`.

`tracker_liveness` checks the whole of `WS!Spec`, fairness included, for one
wait of each kind.

**Only model-checked.** `EveryWaitEnds`, and the fairness part of
`ImplementsWaitSpec`, are liveness, which is outside TLAPS. The violation runs record disagreements; they are not proved.

## 4. NonceRace

Sources: `ai.py` (`submit_job` and the other helpers, lines 47-62 and
alike), `client.py` (`get_nonce`, `send_transaction`, `_call`,
`wait_for_transaction`), `transaction.py` (`sign`), examples 04 and 05.

**State.**

| variable | code |
|---|---|
| `pc[t]` | helper call `t`: not called / awaiting `get_nonce` / awaiting `send_transaction` / awaiting `wait_for_transaction` / returned or raised |
| `nonce[t]` | the nonce the helper signed with (`-1` before `get_nonce` returns) |
| `outcome[t]` | `ok` (receipt seen), `RpcError` (`_call` raised), `TimeoutError` |
| `accountNonce` | the node's account nonce: the nonce of the next includable transaction |
| `mempool`, `included` | the node's pending and included transactions |

A transaction is the record of its task and nonce. Tasks differ in their
call data, so two tasks never produce the same transaction.

**Actions.**

* `Start`: the caller calls the helper. Its argument checks pass and it
  sends `getAccount`. A sequential caller (`Gather = FALSE`) starts call
  `t` only after every earlier call returned its receipt. There is no
  handler around the submissions in examples 01 to 04, so the first
  exception ends the script (`Aborted`).
* `NonceReturns`: `get_nonce` returns the account nonce, or raises. The
  encoding, `TransactionBuilder.sign` (declared async, never suspends) and
  the send request follow with no scheduling point, so they are one step.
  Example 05 calls `get_nonce` once more before the helper and discards the
  result. That adds one await but no state.
* `SendReturns`: the node took the envelope and answered. Or the request
  failed before it reached the node. Or the node took it and the response
  was lost, so the call raises anyway.
* `ReceiptSeen`, `WaitFails`: the two ways `wait_for_transaction` ends.
  `CompletionTracker` shows both happen in every state of the ledger.
* `Include`, `Drop`: the node. They come from the spec's nonce rule,
  because the ledger is not in this repository.

**Fairness.** Weak fairness on each task's steps: the script runs, every
RPC ends within the httpx timeout, and every wait ends
(`CompletionTracker`'s `EveryWaitEnds`). The node is assumed to include a
transaction that carries the next nonce, and to evict a replay.

**Runs.**

| run | checks | result |
|---|---|---|
| `nonce_sequential` | `NoncesDistinct`, `AcceptedTxIncluded`, `IncludedInCallOrder` | pass |
| `nonce_gather_settles` | `TxSettles` | pass, 11k states |
| `nonce_gather` | `NoncesDistinct` | violated |

* `nonce_sequential` uses four calls and a starting nonce of 0 to 2, with
  every failure point. The sequential state space is small by nature: only
  one call is in flight at a time.
* `nonce_gather_settles` uses three gathered calls and a starting nonce of
  0 or 1. Every interleaving of reads, sends, includes and evictions is
  explored.
* `nonce_gather`: two gathered calls read the same nonce. This is example
  05's batch, and a finding in `PROJECT.json`.

**What is proved** (`NonceRace_proofs`).

* `TypeCorrect`: `Spec => []TypeOK`. It is proved through `TypeInv`, which
  adds `NonceRead`: a task that sends or waits holds a nonce.
* `SequentialNoncesDistinct`: `~Gather => (Spec => []NoncesDistinct)`, for
  every `N` and every starting nonce. The inductive invariant `SeqInv`
  says:
  - a started call has only predecessors that returned `ok`;
  - `ok` means done and included;
  - an included nonce is below the account nonce;
  - a nonce is only held after `get_nonce` returned;
  - nonces increase with the call index.

  When `get_nonce` returns to call `t`, every earlier call's transaction is
  included, so the account nonce read exceeds all earlier nonces. No later
  call has started, so none holds a nonce. TLC checked `TypeInv /\ SeqInv`
  before the proof was written.
* `SequentialInclusionOrder`: `~Gather => (Spec => IncludedInCallOrder)`.
  The action property says that a step which newly includes call `t`'s
  transaction has already included those of calls `1..t-1`. It follows
  from the same invariant, one step at a time (`InOrderStep`):
  - Only `Include` adds to `included`. The transaction it includes is in
    the mempool, so it carries a nonce. A call that holds a nonce has
    started, and a started call's predecessors all saw their receipts, so
    their transactions are included.
  - `NonceReturns` changes a transaction by giving it the account nonce,
    and no included transaction carries that nonce. So it cannot make a
    task's transaction included either.

  Under `asyncio.gather`, TLC finds the property violated: two gathered
  calls can read one nonce, and the later call's transaction is included
  first. A `Start` that does not wait for the previous receipt
  (`StartUnordered`) breaks it as well.

**Only model-checked.** The two liveness properties.

## 5. TxCodec

`TxCodec` models `TransactionBuilder` (`aether/transaction.py`).

**State.** `builder` holds the five private fields, with `None` for a field
that is not set. `result` holds the outcome of the last `sign()`: none yet,
`ValueError` naming a field, `struct.error`, or the signed transaction
together with its bytes.

**Actions.**
* `New` is `__init__`.
* `SetField(f, x)` is each of the five setters. `transfer` and `call` are
  chains of these setters.
* `Sign` is `build()` followed by `_serialize`:
  - `BuildFails(i)` raises `ValueError` for the first `None` field, in the
    order `build()` tests them;
  - `struct.pack` raises `struct.error` for an integer outside
    `0..ByteBase^w - 1` (`Packable`: not negative, and nothing left after
    `w` digit shifts);
  - otherwise the transaction is signed.

**Data.** Bytes are `0..ByteBase-1`.
* An address is the sequence of the bytes of its text. `.encode()` of an
  ASCII text gives one byte per character. `MC_TxCodec` takes the bytes to
  be the codes of four characters, `'0'`, `'x'`, `'a'` and `'b'`
  (`ByteBase = 4`), and writes each address as its text (`Utf8`). A
  well-formed address there is `0x` and one hex digit, three bytes.
* `Pack(n, w)` is the little-endian base-`ByteBase` digit string of `n`.
  Its `i`-th byte is `Shifts(n, w)[i - 1] % ByteBase`, where `Shifts(n, w)[i]`
  is `n` with `i` digits shifted out (`n \div ByteBase^i`), computed one
  digit at a time. `LEValue` reads a byte string back by Horner's rule
  (`HornerLE`). Both are recursive functions rather than `^`, which the
  provers treat as opaque. A TLC check showed that they agree with the
  power-based forms for bases 2 and 3, integers -10..90 and widths up to 4.
  The real widths are 8 bytes for the value and 4 for the nonce; the model
  shrinks them to 2 and 1 digits in base 4, so the range check is reached.
* SHA-256 and Ed25519 are ideal. Two transactions share a hash exactly when
  they share bytes, so the model keeps only the bytes.

**Properties.**
* `EmittedDecodes` reads the signed bytes back at the fixed widths, using
  the reference decoder `Decode` and `LEValue`. The result must equal the
  transaction, with absent data read as empty.
* `SignedBytesUnique` compares the signed bytes with those of every other
  transaction the builder could sign from the same inputs (`Buildable`).
  No other transaction may serialize to them, so none shares the hash and
  the signature.

**Runs.**
* `codec_layout` passes (50K states). It uses the addresses `"0xa"` and
  `"0xb"`, the amounts -1, 0, 15 and 16 (-1 and 16 are out of range), the
  nonces 0, 3 and 4 (4 is out of range), and payloads of 0 to 2 bytes.
* `codec_collision` adds the texts `"0xa0x"` and `"b"`, which the setters
  accept. TLC signs `from="0xa0x"`, `to="b"`. Its bytes are those of
  `from="0xa"`, `to="0xb"` with the same value, data and nonce, so
  `SignedBytesUnique` fails. This is a finding: the builder never checks
  an address, and `_serialize` has no length prefix.

**What is proved** (`TxCodec_proofs`). `SerializeLayout` holds for every
byte base, address length and width, and for any integer fields. The bytes
`Serialize` gives for fixed-length addresses are `Decodable`, and cutting
them at the fixed widths gives back `from`, `to`, the data, `Pack(value)`
and `Pack(nonce)`. The argument rests on two slicing lemmas about `\o`:
* `SplitConcat`: both halves of a concatenation are recovered;
* `PrefixSlice`: a slice inside the left part ignores the right part.

`SignedLayout` lifts this to the specification. If every address has
length `AddrLen`, then for every transaction `sign()` returns
(`Spec => []EmittedLayout`):
* its bytes are `Decodable`;
* cut at the fixed widths they give its addresses and its data;
* its value and nonce slices are the `struct.pack` digits of integers that
  are in range.

The inductive invariant `SignedInv` adds three facts to `TypeOK`:
* a signed result is the builder's own record;
* its bytes are `Serialize` of it;
* both integers passed `Packable`, because `sign()` raises `struct.error`
  before it signs otherwise.

`BuiltFields` carries `build()`'s None checks into the field types.
`codec_collision` shows that the hypothesis on the addresses cannot be
dropped: without it, the signed bytes of one transaction are those of
another.

`SignedDecodes` proves `EmittedDecodes` itself under the same hypothesis
on the addresses (`Spec => []EmittedDecodes`). It adds one step to
`EmittedLayout`: going from the packed digits back to the integer. That step
is `RoundTrip`: `LEValue(Pack(n, w)) = n` whenever `Shifts(n, w)[w] = 0`.
The lemmas for it are in `TxCodecInts_proofs`:
* The library's induction theorems take an operator parameter, which the
  installed provers cannot instantiate. The lemmas argue from a least
  counterexample instead (`NatMin`, from `WellFoundedInduction`'s `WFMin`).
* `RecurrenceExists` shows that a recurrence on `0..m` has a solution, and
  `EqualUpTo` shows that two functions with the same start and the same
  step agree on `0..m`.
* From those, `ShiftsDef` and `HornerDef` give the defining equations of
  the two recursive functions.
* `DivMod` gives `(x % B) + B * (x \div B) = x`.
* With these, `RoundTrip` shows that Horner's rule run from the last byte
  meets the shifts in reverse order: `HornerLE(Pack(n, w))[i] =
  Shifts(n, w)[w - i]`. At `i = w` this is `n`.

## 6. TransferHash

`TransferHash` models the `aether_sdk` package: `client.py`, `builders.py`,
`transaction.py` and `types.py`. The caller makes an `AetherClient` and
then uses one builder at a time. Each behaviour uses builders of one kind,
either transfers or jobs. The two kinds share no state (a transfer reads
only the config, a job only the endpoint and the clock), so interleaving
them would add states and nothing to a property of either.

**State.**
* `client` is the client's normalized endpoint.
* `builder` holds the fields of the builder in use and its kind. A
  transfer builder's `fee` and `gas_limit` start at the `ClientConfig`
  defaults. A job builder's `max_fee` starts at 1_000_000.
* `result` is the last call's return or exception.
* `emitted` is a history of the transactions `build()` returned.
* `builds` counts the calls of `build()`. It is capped by `MaxBuilds` in
  a transfer session and by `MaxJobBuilds` in a job session.
* `now` is `int(time.time())`. It advances by `Tick`, up to `MaxTime`.

**Actions.**
* `NewClient` is `AetherClient(endpoint)`. `_normalize_endpoint` raises
  for "" and strips every trailing "/", so "/" becomes "".
* `New` is `AetherClient.transfer()`. `NewJob` is `client.job()`, or a
  `JobBuilder` constructed directly on any endpoint.
* `Set(f, x)` is each setter. The setter validates its argument with
  `ensure_hex` or `ensure_positive_int`, stores it or raises, and leaves
  the builder unchanged when it raises.
* `Build` is `build()`. It checks that recipient and amount are set and
  forms the `Transaction` (`Draft`). `__post_init__`'s nine checks then run
  in order (`PostInitChecks`, `FirstFailure`), and `writes` defaults to the
  recipient.
* `JobSet` is each `JobBuilder` setter with its check: a non-blank id, hex
  hashes, a positive fee, and an expiry that is positive and after the
  clock. `JobBuild` is `build()` (None checks in order) or
  `to_submission()`. `PrepareJob` is `prepare_job_submission`.

**Data.** A text is a record of its `0x` prefix, its length and its
identity. `hash()` is the JSON payload itself, since SHA-256 is ideal:
* `str(amount)` and `str(fee)` are JSON strings;
* a None memo is JSON null.

**Runs.** Both runs use one instance. Two builds are made over one hex
and one bare address, amounts 0 to 2 (0 is rejected), the memos "" and
"m" and no memo, nonces -1 and 0, and signatures of 130 and 64
characters. Job builders are made on the endpoints "", "/" and "h/", with a
blank and a non-blank id, a hex and a bare hash, the expiries 1 (equal to
the clock) and 2, and one clock tick.
* `transfer_build` passes with 354K states in about 15 seconds. It checks
  `TypeOK`, whose main conjunct is that every transaction `build()`
  returned has the types the spec gives a transfer: hex addresses, key and
  signature, a positive amount, fee and gas limit, a nonce that is not
  negative, and the recipient as the one key written. These are guaranteed
  only by `__post_init__`, which runs after the builder's own checks and
  covers what they miss (the builder never checks the nonce or the
  signature). The mutant whose `__post_init__` skips the nonce check
  breaks it.
* `transfer_memo` is violated. A transfer built without a memo and the
  same transfer built with `memo("")` hash apart, because `hash()` writes
  JSON null for the one and "" for the other
  (`AbsentMemoHashesAsEmpty`). Spec section 4.2 says an absent memo and
  an empty one encode alike.

**Seen in the code, not run.** Three disagreements are plain in a single
call, so no run is spent on them:
* `expires_at()` compares the expiry with the clock only when it is set.
  The model reaches `build()` returning a request whose expiry is already
  past, once the clock ticks between the two calls. The code promises
  nothing about the built request, so this is a hazard, not a run.
* `__post_init__` tests `len(signature) < 66`. It therefore accepts `0x`
  and 64 hex digits (32 bytes), which is what the unit test passes. The
  check's own message and spec section 2 say 64 bytes.
* `wait_for_transaction` returns a receipt whose status is `failed` just as
  it returns a successful one (client.py:165). Spec section 4.4 says a
  failed receipt is surfaced as an error.

## 7. ContractCalls

`ContractCalls` models the twelve methods that produce a signed contract
call: `submit_job`, `accept_job`, `submit_result`, `challenge_result` and
`claim_payment` (ai.py); `register_validator`, `delegate`, `undelegate`
and `claim_rewards` (staking.py); `create_proposal`, `vote` and
`execute_proposal` (governance.py). Each call is an asyncio task in
`Tasks`, and the node may change the proposal at any moment (`Node`).

**State.** `pc[t]` is where task `t` is suspended: before its first step,
in `get_proposal` (only `execute_proposal`), in `get_nonce`, or done.
`call[t]` is the method and its arguments (`Calls`, one record set per
method from `Params`). `result[t]` is what it returned or raised.
`proposal` is the node's status of each proposal. Two history variables
serve the properties: `signed` holds every transaction a helper
returned, and `wasPassed[t]` holds the proposals that were passed at some
moment while `t` ran.

**Actions**, one per stretch of code between two awaits:
* `Invoke` runs the keypair check and the argument checks, then suspends
  in the first RPC. `ArgCheck` dispatches on the contract to each file's
  checks, in source order: `AIArgCheck` (the positive `aic_amount` and
  challenge stake), `StakingArgCheck` (the commission range) and
  `GovArgCheck` (title and description lengths).
* `ProposalReturns` is `execute_proposal` resuming after `get_proposal`.
  It raises "not found" for a missing record and for any RPC error
  (`get_proposal` swallows both), raises if the status is not `passed`,
  and otherwise goes on to `get_nonce`.
* `NonceReturns` is the resumption after `get_nonce`. The RPC may raise;
  `bytes.fromhex` may raise on a malformed hash (`EncodeFails`); sign()
  raises `struct.error` for a value outside `"<Q"`; otherwise the
  transaction `Tx(c)` is returned and recorded. Its value is `CallValue(c)`,
  which is defined per file as the code passes it: `aic_amount` for
  `submit_job`, the stake for `challenge_result` (`AIValue`), the stake
  for `register_validator` and the amount for `delegate` (`StakingValue`),
  and 0 for every other method. `register_validator` checks only the
  commission, so a negative stake passes `Invoke`, waits in `get_nonce`,
  and only then fails in `struct.pack`: the RPC has been made for a call
  that was never going to sign. The model reaches that path in
  calls_safety.

**Data.** Call data is a sequence of chunks in which every byte a cut can
separate is its own chunk. A method name is its first four characters,
then the rest of the name as one chunk (`Utf8`), and `json.dumps(params)`
is one chunk holding the parameters. `EncodeCall` is the code's
`.encode()[:4]` on that sequence. The nonce is NonceRace's concern and is
left out; the signature is ideal and omitted.

**Receipt checks.** `Checks` are tasks of their own, with `step`, `jobOf`,
`outcome` and the history `forwarded`, which holds every request sent to
`ai_verifyVCR`. A receipt is `[job_id]`: the property tells receipts
apart by nothing else. The verifier is external and may answer any of
its three flags (`Verdicts`). The three actions:
* `VcrReturns` is `get_vcr`. The node returns any receipt, or None. None
  covers both no data and any exception, which the bare except swallows.
  A receipt goes straight to `verify_vcr` (`VerifyVcr`), which sends it
  without checking anything.
* `WaitReturns` is example 04 after `wait_for_job_completion`. The wait's
  own behaviour is CompletionTracker's; here it either raised or returned
  a completed job. `AIJob(**data)` keeps the node's JSON values, so
  `job.result` is a str and `job.vcr` a dict. A non-empty result fails at
  `.decode()`. A vcr fails at `vcr.__dict__` inside `verify_vcr`, before
  any request is sent. Only a job with neither ends without an error.
* `VerifyReturns` is the verifier's answer, passed back unchanged, or the
  RPC error.

A receipt check and a signing helper share no variable. So a behaviour
runs one kind or the other (`CheckStart` and `Invoke` each wait until no
task of the other kind has started). Each kind's properties are
unaffected by the other's steps, and the state space is the sum of the
two instead of their product.

**Runs.**
* `calls_safety` passes with 370K states in about 85 seconds. It uses two concurrent tasks
  (symmetric) and one proposal, whose status the node may change between
  every two steps. It has two hashes, one of them not hex, and the
  integers -1, 0, 10000 and 10001. Those are the boundaries of the
  positivity and commission checks, and -1 is also outside `"<Q"`
  (`ValueLimit` only needs to exceed 10001 for that). Title and
  description lengths are 1, 257 and 10001, the values just inside and
  just outside each bound. The run checks two properties:
  - `TypeOK` includes that every signed value is packable. The mutant that
    signs without the range check breaks it.
  - `ImplementsCallSpec`: the helpers implement `CallSpec` (below). Each
    signed call goes to its method's contract, carries as its value the
    amount its method's signature names (`Moves`), has arguments in the
    documented ranges, and, for `execute_proposal`, follows a moment of
    the call at which the proposal was passed. The mutant in which
    `register_validator` passes its commission as the value breaks it.
  Two receipt checks about the hashes h1 and h2 run in the same run; their
  steps fire there, and no property of the run is about them.
* `calls_vcr` is violated, in three steps. A check calls `get_vcr(h1)`, the
  node returns a receipt with `job_id` h2, and `verify_vcr` forwards it.
  Spec section 4.5 requires such a receipt to be rejected locally,
  without a request (`ForwardedOnlyCrossChecked`). The spec's other two
  local checks, provider and result hash, cannot fail here, because no
  code performs them and the model does not distinguish those fields.
  Example 04's wait path never reaches the verifier. This is a
  consequence of the code, translated in `WaitReturns`, not the result of
  a check: both of that path's uses of the job's fields raise
  AttributeError first. The hazard list records it at
  `04_ai_job.py:54`.
* `calls_data` is violated. `accept_job(h1)` and `accept_job(h2)` sign the
  same value and the same data `"acce"` for the escrow contract. Every
  helper that goes through `_encode_call` loses its parameters in the
  same way. `vote` cannot tell for from against, `delegate` cannot name a
  validator, and `undelegate` cannot name an amount.
* Seen in the model, not a violation: `submit_job` and `submit_result`
  share the selector `subm` and the same layout. They are told apart only
  by their value (`aic_amount` against 0). `_encode_result_submission`
  also drops the VCR.

**What is proved** (`ContractCalls_proofs`). `CallsTypeCorrect` proves
`Spec => []TypeOK`, and `RefinesCallSpec` proves
`Spec => ImplementsCallSpec`, for every set of tasks, hashes, integers,
lengths, addresses and proposals that `CallsAssumption` allows. `TypeOK` is
not inductive, so both rest on one inductive invariant `IInv`. TLC checked
`IInv` on the calls_safety instance before it was proved. `IInv` is
`SigInv /\ CheckTypeOK`. The receipt checks share no variable with the
signing helpers, so the proof splits `TypeOK` (`TypeOKSplit`) into the two
parts:
* `CheckTypeStep` shows that the checks stay well typed.
* `SigInvStep` covers the rest. Every receipt step leaves its variables
  unchanged.

`SigInv` adds five conjuncts to the checked properties:
* `Guarded`: a task suspended in an RPC passed `ArgCheck`. Signing happens
  after the await, so without this conjunct the ranges that `Promised`
  requires could not be carried across the suspension.
* `OnlyExecuteReads`: only `execute_proposal` waits in `get_proposal`.
* `PassedSeen`: a running task's `wasPassed` holds every proposal that is
  passed now. This is why `Node` may pass a proposal at any moment without
  breaking the next conjunct.
* `ExecReady`: a task of `execute_proposal` waiting in `get_nonce` has seen
  its proposal passed. It carries the status test across the second
  await.
* `ResultFinal`: a task with a result is done. So nothing can overwrite a
  returned transaction.

Three lemmas do most of the work:
* `CheckedInRange`: a call that passes `ArgCheck` is in the documented
  ranges.
* `CallValueMoves`: the value each file's code passes (`CallValue`) is
  the amount the method's signature names (`Moves`). The two are written
  independently, one from the call sites and one as a table of parameter
  positions (`MovedParam`).
* `ArgCheckReason`: a failing check names one of `Reasons`.

The argument checks are a CASE, and the provers need it split one
condition at a time. The raise reasons are typed by the finite set
`Reasons` rather than by `STRING`, because the provers cannot show that
a string literal is a member of `STRING`.

**The abstract promise** (`CallSpec`). `CallSpec` states what a caller of
any signing helper can rely on, with the awaits hidden:
* `Call(t, c)` is the call being made. It raises before its first await
  (a key pair missing, or an argument check failing), or it runs.
  `passed[t]` starts as the proposals passed at that moment.
* `Return(t)` ends a running call. It raises one of `Reasons`, or it
  returns `MkTx(c)` and adds it to `signed`. It may return only when
  `Allowed(c, passed[t])` holds.
* `Env(i, st)` is the node changing a proposal. A call still running
  records a proposal that becomes passed.

The mapping in `ContractCalls` works as follows:
* `CallStatus` maps `pc` to `idle`, `running` or `done`.
* `call`, `result` and `wasPassed` map to `acall`, `aresult` and `passed`.
* `MkTx` is `Tx`.
* `Allowed` is `Promised`:
  - the contract of the method;
  - the value `Moves(c)`, within `"<Q"`;
  - the arguments in their documented range;
  - for `execute_proposal`, a proposal passed during the call.

`Invoke` is `Call`, and a raise after an await is `Return`. The step of
`execute_proposal` past `get_proposal` is a stutter, as are the steps of
the receipt checks. `Node` is `Env`.

`RefinesCallSpec` proves `Spec => ImplementsCallSpec` (that is, `CS!Spec`). It follows the same pattern as
the WaitSpec refinement:
* `InitRefinesCalls`: `Init => CS!Init`.
* `CallStepRefines`: under `IInv`, every step is a `CallSpec` step or a
  stutter. It has one case per action.
* Two lemmas cover the raises:
  - `InvokeRefines` covers the immediate ones;
  - `RaiseRefines` covers the ones after an await.

The successful `NonceReturns` is the only step that needs `IInv`'s
strengthening:
* `Guarded`, `CheckedInRange` and `CallValueMoves` give the contract,
  the value and the ranges.
* `ExecReady` gives the passed proposal.

Besides the contract, value and ranges of each signed call, the refinement
states:
* each call returns at most once;
* it returns only what it signed;
* `passed` is exactly the proposals that were passed while it ran.

## 8. Not modelled, and why

* Ed25519, SHA-256, httpx and JSON are I/O or cryptography. Where an
  encoding model needs them, they are ideal functions. The `Keypair`
  class is not modelled: with an ideal scheme, every property of
  `sign`, `verify` and `public_key_to_address` holds by construction.
  The one question that matters is at the call site:
  `TransactionBuilder.sign` never checks that the transaction's sender is
  the key's address. It is listed as a hazard.
* Example 05 as a whole (`05_batch_jobs.py`). Its submission phase is
  NonceRace's gather mode, and its waits are CompletionTracker's job
  waits. What is left is the report. `wait_for_job` calls
  `job.result.decode()` on what `get_job` keeps; that conversion is the
  one `WaitReturns` models for example 04. Checking it for the batch
  would need a composition of the two modules with a run of its own. The
  run budget is spent on the questions above.
* `Block`, validator, delegation and proposal reads are plain RPC
  forwarding with no state in the SDK.
* Request ids in `_call` cannot interleave under asyncio (see section 1).
* The ledger's own rules. Only its observable behaviour is modelled, as
  environment actions taken from spec sections 3 and 6.
