-------------------------- MODULE CompletionTracker --------------------------
(***************************************************************************)
(* The two polling loops of the aether SDK (src/sdk/python/src/aether):    *)
(*                                                                         *)
(*   AetherClient.wait_for_transaction   (client.py)  polls                *)
(*       get_transaction_receipt until a receipt exists;                   *)
(*   AIJobHelper.wait_for_job_completion (ai.py)      polls get_job until  *)
(*       the job is completed/settled, or raises on a missing or           *)
(*       challenged job.                                                   *)
(*                                                                         *)
(* Any number of waits run concurrently as asyncio tasks on one event      *)
(* loop.  A wait only suspends at two awaits: the RPC (an httpx POST that  *)
(* returns or fails within the client's own timeout, RpcLatency ticks) and *)
(* asyncio.sleep(poll_interval).  Code between two awaits runs atomically, *)
(* so each action below is the code of one task from one await to the     *)
(* next.  The event-loop clock is discrete: elapsed[w] is                  *)
(* loop.time() - start_time of wait w, and it advances (Tick) only when no *)
(* task is runnable, as asyncio only advances to the next timer when idle. *)
(*                                                                         *)
(* The remote ledger is the environment: a receipt appears once, a job     *)
(* moves along its lifecycle.  It owes the client nothing (no fairness).   *)
(***************************************************************************)
EXTENDS Naturals, FiniteSets

CONSTANTS
    TxWaits,       \* concurrent calls of wait_for_transaction, one per hash
    JobWaits,      \* concurrent calls of wait_for_job_completion, one per job
    Timeout,       \* the timeout argument, in clock ticks
    PollInterval,  \* the poll_interval argument, in clock ticks
    RpcLatency,    \* ticks within which httpx returns or raises (client timeout)
    MaxElapsed     \* bound on a wait's clock; never reached (see TimeAssumption)

ASSUME WaitsAssumption ==
    /\ IsFiniteSet(TxWaits) /\ IsFiniteSet(JobWaits)
    /\ TxWaits \cap JobWaits = {}

\* asyncio.sleep(0) would let a loop spin without the clock moving, which a
\* discrete clock cannot represent; the code's defaults are 1.0s and 2.0s.
ASSUME TimeAssumption ==
    /\ Timeout \in Nat
    /\ PollInterval \in Nat \ {0}
    /\ RpcLatency \in Nat
    /\ MaxElapsed \in Nat
    /\ MaxElapsed >= Timeout + RpcLatency + PollInterval

Waits == TxWaits \cup JobWaits

\* "None" from the node: no receipt yet / no such job.
Absent == "absent"

\* JobStatus, types.py
JobStatus == {"pending", "assigned", "computing", "completed", "challenged", "settled"}

\* TransactionReceipt.status, types.py
ReceiptStatus == {"success", "failed"}

RemoteValue == {Absent} \cup JobStatus \cup ReceiptStatus

\* How a wait ended: it returned the fetched object, or raised
\* TimeoutError, ValueError("... not found"), ValueError("... challenged"),
\* or the Exception that _call raises on an HTTP or RPC error.
Outcome == {"returned", "TimeoutError", "NotFound", "Challenged", "RpcError"}

NoResult == [out |-> "none", at |-> Absent]

VARIABLES
    elapsed,     \* elapsed[w]: event-loop time since w read start_time
    timer,       \* timer[w]: elapsed time at which the awaited RPC or sleep ends
    pc,          \* pc[w]: "loop" (at the while test), "probing", "sleeping", "done"
    result,      \* result[w]: outcome, and the remote value the deciding step saw
    remote       \* remote[w]: the ledger's receipt or job record that w watches

trackerVars == <<elapsed, timer, pc, result>>
ledgerVars == <<remote>>
vars == <<elapsed, timer, pc, result, remote>>

TypeOK ==
    /\ elapsed \in [Waits -> 0..MaxElapsed]
    /\ timer \in [Waits -> Nat]
    /\ pc \in [Waits -> {"loop", "probing", "sleeping", "done"}]
    /\ result \in [Waits -> [out : Outcome \cup {"none"}, at : RemoteValue]]
    /\ \A w \in TxWaits : result[w].out \in {"none", "returned", "TimeoutError", "RpcError"}
    /\ remote \in [Waits -> RemoteValue]
    /\ \A w \in TxWaits : remote[w] \in {Absent} \cup ReceiptStatus
    /\ \A w \in JobWaits : remote[w] \in {Absent} \cup JobStatus

-----------------------------------------------------------------------------
(* The ledger (environment, not code of this repository).                  *)

\* Job lifecycle: pending -> assigned -> computing -> {completed | challenged}
\* -> settled; a job record appears when its submission is included.
JobSuccessors(s) ==
    CASE s = Absent       -> {"pending"}
      [] s = "pending"    -> {"assigned"}
      [] s = "assigned"   -> {"computing"}
      [] s = "computing"  -> {"completed", "challenged"}
      [] s = "completed"  -> {"settled"}
      [] s = "challenged" -> {"settled"}
      [] s = "settled"    -> {}

\* The node includes the transaction: its receipt exists from now on.
IncludeTx(w) ==
    /\ remote[w] = Absent
    /\ \E s \in ReceiptStatus : remote' = [remote EXCEPT ![w] = s]
    /\ UNCHANGED trackerVars

\* The job moves one step along its lifecycle.
AdvanceJob(w) ==
    /\ \E s \in JobSuccessors(remote[w]) : remote' = [remote EXCEPT ![w] = s]
    /\ UNCHANGED trackerVars

-----------------------------------------------------------------------------
(* The waits.                                                              *)

\* The task is at the while test: first entry, or its sleep has ended.
Runnable(w) ==
    \/ pc[w] = "loop"
    \/ pc[w] = "sleeping" /\ elapsed[w] >= timer[w]

\* The task is suspended in an await that has not ended yet.
Idle(w) == pc[w] \in {"probing", "sleeping"} /\ elapsed[w] < timer[w]

\* Mutant: the while test compares with <= instead of <.
PollAtDeadline(w) ==
    /\ Runnable(w)
    /\ elapsed[w] <= Timeout
    /\ pc' = [pc EXCEPT ![w] = "probing"]
    /\ timer' = [timer EXCEPT ![w] = elapsed[w] + RpcLatency]
    /\ UNCHANGED <<elapsed, result, ledgerVars>>

\* Mutant: start_time is read inside the loop, so every probe restarts it.
PollRestartsClock(w) ==
    /\ Runnable(w)
    /\ elapsed[w] < Timeout
    /\ pc' = [pc EXCEPT ![w] = "probing"]
    /\ elapsed' = [elapsed EXCEPT ![w] = 0]
    /\ timer' = [timer EXCEPT ![w] = RpcLatency]
    /\ UNCHANGED <<result, ledgerVars>>

\* The while test passes; the task sends the RPC and awaits the response.
Poll(w) ==
    /\ Runnable(w)
    /\ elapsed[w] < Timeout
    /\ pc' = [pc EXCEPT ![w] = "probing"]
    /\ timer' = [timer EXCEPT ![w] = elapsed[w] + RpcLatency]
    /\ UNCHANGED <<elapsed, result, ledgerVars>>

\* The while test fails: raise TimeoutError.
GiveUp(w) ==
    /\ Runnable(w)
    /\ elapsed[w] >= Timeout
    /\ pc' = [pc EXCEPT ![w] = "done"]
    /\ result' = [result EXCEPT ![w] = [out |-> "TimeoutError", at |-> remote[w]]]
    /\ UNCHANGED <<elapsed, timer, ledgerVars>>

\* The wait ends with outcome out, decided on the record the node returned.
Finish(w, out) ==
    /\ pc' = [pc EXCEPT ![w] = "done"]
    /\ result' = [result EXCEPT ![w] = [out |-> out, at |-> remote[w]]]
    /\ UNCHANGED <<elapsed, timer>>

\* The wait goes to asyncio.sleep(poll_interval).
Sleep(w) ==
    /\ pc' = [pc EXCEPT ![w] = "sleeping"]
    /\ timer' = [timer EXCEPT ![w] = elapsed[w] + PollInterval]
    /\ UNCHANGED <<elapsed, result>>

\* Mutant: a missing receipt raises "not found", as the job wait does.
ReceiptReturnsAbsentNotFound(w) ==
    /\ pc[w] = "probing"
    /\ \/ Finish(w, "RpcError")
       \/ remote[w] # Absent /\ Finish(w, "returned")
       \/ remote[w] = Absent /\ Finish(w, "NotFound")
    /\ UNCHANGED ledgerVars

\* get_transaction_receipt returns to wait_for_transaction.  An HTTP error,
\* an RPC error or a malformed receipt raises out of _call and out of the
\* wait; otherwise any receipt, whatever its status, is returned.
ReceiptReturns(w) ==
    /\ pc[w] = "probing"
    /\ \/ Finish(w, "RpcError")
       \/ remote[w] # Absent /\ Finish(w, "returned")
       \/ remote[w] = Absent /\ Sleep(w)
    /\ UNCHANGED ledgerVars

\* What get_job hands back: the node's record, or None, which it also
\* returns when the call raises (HTTP error, RPC error, malformed job).
GetJob(w) == {remote[w], Absent}

\* get_job returns to wait_for_job_completion, which classifies the job.
JobReturns(w) ==
    /\ pc[w] = "probing"
    /\ \E job \in GetJob(w) :
          \/ job = Absent /\ Finish(w, "NotFound")
          \/ job \in {"completed", "settled"} /\ Finish(w, "returned")
          \/ job = "challenged" /\ Finish(w, "Challenged")
          \/ job \in {"pending", "assigned", "computing"} /\ Sleep(w)
    /\ UNCHANGED ledgerVars

\* The event loop is idle: the clock moves to the next tick.
Tick ==
    /\ \E w \in Waits : pc[w] # "done"
    /\ \A w \in Waits : pc[w] = "done" \/ Idle(w)
    /\ \A w \in Waits : pc[w] # "done" => elapsed[w] < MaxElapsed
    /\ elapsed' = [w \in Waits |-> IF pc[w] = "done" THEN elapsed[w]
                                                     ELSE elapsed[w] + 1]
    /\ UNCHANGED <<timer, pc, result, ledgerVars>>

\* Every wait has ended.
Terminated ==
    /\ \A w \in Waits : pc[w] = "done"
    /\ UNCHANGED vars

-----------------------------------------------------------------------------
Init ==
    /\ elapsed = [w \in Waits |-> 0]
    /\ timer = [w \in Waits |-> 0]
    /\ pc = [w \in Waits |-> "loop"]
    /\ result = [w \in Waits |-> NoResult]
    /\ remote \in {f \in [Waits -> RemoteValue] :
                      /\ \A w \in TxWaits : f[w] \in {Absent} \cup ReceiptStatus
                      /\ \A w \in JobWaits : f[w] \in {Absent} \cup JobStatus}

Next ==
    \/ \E w \in Waits : Poll(w) \/ GiveUp(w)
    \/ \E w \in TxWaits : ReceiptReturns(w) \/ IncludeTx(w)
    \/ \E w \in JobWaits : JobReturns(w) \/ AdvanceJob(w)
    \/ Tick
    \/ Terminated

\* asyncio runs every ready task, the clock advances, and httpx answers or
\* raises within its timeout; the ledger is under no obligation.
Fairness ==
    /\ \A w \in Waits : WF_vars(Poll(w)) /\ WF_vars(GiveUp(w))
    /\ \A w \in TxWaits : WF_vars(ReceiptReturns(w))
    /\ \A w \in JobWaits : WF_vars(JobReturns(w))
    /\ WF_vars(Tick)

Spec == Init /\ [][Next]_vars /\ Fairness

-----------------------------------------------------------------------------
(* Properties.                                                             *)

\* A wait that is still running has been running for less than
\* timeout + RPC latency + poll_interval: the while test is the only
\* deadline check, so the last probe may start just before the deadline,
\* take the whole httpx timeout, and be followed by one more sleep.
WaitBounded ==
    \A w \in Waits : pc[w] # "done" => elapsed[w] < Timeout + RpcLatency + PollInterval

\* Every wait, of either kind, eventually returns or raises, whatever the
\* ledger does.
EveryWaitEnds == \A w \in Waits : <>(pc[w] = "done")

\* Spec section 8: a wait on a probe that stays pending raises Timeout no
\* later than timeout + one poll interval.
TimeoutWithinPollInterval ==
    \A w \in Waits : pc[w] # "done" => elapsed[w] <= Timeout + PollInterval

-----------------------------------------------------------------------------
(* Refinement: the polling loops implement the abstract wait.  A wait has  *)
(* ended when its task is done; the loop clock is the abstract clock; a    *)
(* probe, a sleep and a wake-up are stutters of the abstract wait.         *)

WS == INSTANCE WaitSpec WITH
          clock <- elapsed,
          ended <- [w \in Waits |-> pc[w] = "done"],
          outcome <- result,
          Grace <- RpcLatency + PollInterval

\* The waits end once each, only on an outcome the ledger's record at that
\* moment justifies, time out only after the deadline, run at most
\* latency + poll interval past it, and all end (wait_for_transaction and
\* wait_for_job_completion together with the node).
ImplementsWaitSpec == WS!Spec

=============================================================================
