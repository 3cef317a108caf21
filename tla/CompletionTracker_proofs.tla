----------------------- MODULE CompletionTracker_proofs -----------------------
(***************************************************************************)
(* Proofs about CompletionTracker, for every value of the constants that   *)
(* satisfies WaitsAssumption and TimeAssumption.                           *)
(***************************************************************************)
EXTENDS CompletionTracker, TLAPS

-----------------------------------------------------------------------------
(* Type correctness.                                                       *)

\* The successor of a job state in the lifecycle is again a job state.
LEMMA JobSuccessorsType ==
    ASSUME NEW s \in {Absent} \cup JobStatus
    PROVE  JobSuccessors(s) \subseteq JobStatus
BY DEF JobSuccessors, JobStatus, Absent

\* Every reachable state is well typed; in particular a transaction wait
\* only ever ends by returning, by TimeoutError or by the RPC's Exception.
THEOREM TypeCorrect == Spec => []TypeOK
<1>. USE WaitsAssumption, TimeAssumption
<1>1. Init => TypeOK
  BY DEF Init, TypeOK, NoResult, Waits, RemoteValue, Outcome
<1>2. TypeOK /\ [Next]_vars => TypeOK'
  <2> SUFFICES ASSUME TypeOK, [Next]_vars PROVE TypeOK'
    OBVIOUS
  <2>1. ASSUME NEW w \in Waits, Poll(w) PROVE TypeOK'
    BY <2>1 DEF Poll, TypeOK, ledgerVars
  <2>2. ASSUME NEW w \in Waits, GiveUp(w) PROVE TypeOK'
    BY <2>2 DEF GiveUp, TypeOK, ledgerVars, Outcome, RemoteValue
  <2>3. ASSUME NEW w \in TxWaits, ReceiptReturns(w) PROVE TypeOK'
    BY <2>3 DEF ReceiptReturns, Finish, Sleep, TypeOK, ledgerVars, Outcome,
                RemoteValue, Waits
  <2>4. ASSUME NEW w \in TxWaits, IncludeTx(w) PROVE TypeOK'
    BY <2>4 DEF IncludeTx, TypeOK, trackerVars, RemoteValue, ReceiptStatus,
                Waits
  <2>5. ASSUME NEW w \in JobWaits, JobReturns(w) PROVE TypeOK'
    <3>1. w \notin TxWaits
      BY WaitsAssumption
    <3>. QED
      BY <2>5, <3>1 DEF JobReturns, Finish, Sleep, TypeOK, ledgerVars,
                        Outcome, RemoteValue, Waits
  <2>6. ASSUME NEW w \in JobWaits, AdvanceJob(w) PROVE TypeOK'
    <3>1. PICK s \in JobSuccessors(remote[w]) : remote' = [remote EXCEPT ![w] = s]
      BY <2>6 DEF AdvanceJob
    <3>2. s \in JobStatus
      BY JobSuccessorsType DEF TypeOK
    <3>3. w \notin TxWaits
      BY WaitsAssumption
    <3>. QED
      BY <2>6, <3>1, <3>2, <3>3 DEF AdvanceJob, TypeOK, trackerVars,
                                    RemoteValue, Waits
  <2>7. CASE Tick
    BY <2>7 DEF Tick, TypeOK, ledgerVars
  <2>8. CASE Terminated
    BY <2>8 DEF Terminated, TypeOK, vars
  <2>9. CASE UNCHANGED vars
    BY <2>9 DEF TypeOK, vars
  <2>. QED
    BY <2>1, <2>2, <2>3, <2>4, <2>5, <2>6, <2>7, <2>8, <2>9 DEF Next, Waits
<1>. QED
  BY <1>1, <1>2, PTL DEF Spec

-----------------------------------------------------------------------------
(* The deadline bound.                                                     *)

\* WaitBounded is not inductive by itself: it says nothing of the timer a
\* suspended wait is waiting for.  A probe is only sent before the deadline
\* and its timer is the send time plus the RPC latency; a sleep starts
\* during a probe and lasts one poll interval; the clock never passes a
\* pending timer, and a wait is only at the loop head before its first step.
TimerInv ==
    \A w \in Waits :
        /\ pc[w] = "loop" => elapsed[w] = 0
        /\ pc[w] = "probing" =>
               elapsed[w] <= timer[w] /\ timer[w] < Timeout + RpcLatency
        /\ pc[w] = "sleeping" =>
               elapsed[w] <= timer[w]
               /\ timer[w] < Timeout + RpcLatency + PollInterval

IInv == TypeOK /\ TimerInv

LEMMA InitTimerInv == Init => TimerInv
BY DEF Init, TimerInv

LEMMA TimerInvStep == TypeOK /\ TimerInv /\ [Next]_vars => TimerInv'
<1>. USE WaitsAssumption, TimeAssumption
<1> SUFFICES ASSUME TypeOK, TimerInv, [Next]_vars PROVE TimerInv'
  OBVIOUS
<1>1. ASSUME NEW w \in Waits, Poll(w) PROVE TimerInv'
  BY <1>1 DEF Poll, Runnable, TimerInv, TypeOK
<1>2. ASSUME NEW w \in Waits, GiveUp(w) PROVE TimerInv'
  BY <1>2 DEF GiveUp, TimerInv, TypeOK
<1>3. ASSUME NEW w \in TxWaits, ReceiptReturns(w) PROVE TimerInv'
  BY <1>3 DEF ReceiptReturns, Finish, Sleep, TimerInv, TypeOK, Waits
<1>4. ASSUME NEW w \in TxWaits, IncludeTx(w) PROVE TimerInv'
  BY <1>4 DEF IncludeTx, trackerVars, TimerInv
<1>5. ASSUME NEW w \in JobWaits, JobReturns(w) PROVE TimerInv'
  BY <1>5 DEF JobReturns, Finish, Sleep, TimerInv, TypeOK, Waits
<1>6. ASSUME NEW w \in JobWaits, AdvanceJob(w) PROVE TimerInv'
  BY <1>6 DEF AdvanceJob, trackerVars, TimerInv
<1>7. CASE Tick
  BY <1>7 DEF Tick, Idle, TimerInv, TypeOK
<1>8. CASE Terminated
  BY <1>8 DEF Terminated, vars, TimerInv
<1>9. CASE UNCHANGED vars
  BY <1>9 DEF vars, TimerInv
<1>. QED
  BY <1>1, <1>2, <1>3, <1>4, <1>5, <1>6, <1>7, <1>8, <1>9 DEF Next, Waits

\* Whatever the timeout, poll interval and RPC latency, no wait of either
\* kind is still running once timeout + latency + poll_interval have
\* elapsed since it read start_time (wait_for_transaction and
\* wait_for_job_completion end by then, with a result or an exception).
THEOREM WaitBoundedThm == Spec => []WaitBounded
<1>. USE TimeAssumption
<1>1. TypeOK /\ TimerInv => WaitBounded
  BY DEF TypeOK, TimerInv, WaitBounded
<1>. QED
  BY <1>1, TypeCorrect, InitTimerInv, TimerInvStep, PTL DEF Spec

-----------------------------------------------------------------------------
(* Refinement of the abstract wait.                                        *)

LEMMA InitRefines == Init => WS!Init
<1>. USE WaitsAssumption
<1> SUFFICES ASSUME Init PROVE WS!Init
  OBVIOUS
<1>1. \A w \in Waits : remote[w] \in WS!Records(w)
  BY DEF Init, WS!Records, Waits
<1>. QED
  BY <1>1 DEF Init, WS!Init, NoResult, RemoteValue, Waits, WS!Waits

\* A task that reaches "done" ends its wait.
LEMMA EndStep ==
    ASSUME NEW w \in Waits, NEW out, pc[w] # "done", TypeOK,
           pc' = [pc EXCEPT ![w] = "done"],
           result' = [result EXCEPT ![w] = [out |-> out, at |-> remote[w]]],
           UNCHANGED <<elapsed, remote>>,
           WS!Allowed(w, out)
    PROVE  WS!End(w, out)
BY DEF WS!End, TypeOK

THEOREM RefinesWaitSpec == Spec => WS!SafeSpec
<1>. USE WaitsAssumption, TimeAssumption
<1>1. TypeOK /\ TimerInv /\ [Next]_vars => [WS!Next]_WS!avars
  <2> SUFFICES ASSUME TypeOK, TimerInv, [Next]_vars PROVE [WS!Next]_WS!avars
    OBVIOUS
  <2>1. ASSUME NEW w \in Waits, Poll(w) PROVE [WS!Next]_WS!avars
    <3>1. UNCHANGED WS!avars
      BY <2>1 DEF Poll, Runnable, ledgerVars, WS!avars, TypeOK
    <3>. QED
      BY <3>1
  <2>2. ASSUME NEW w \in Waits, GiveUp(w) PROVE [WS!Next]_WS!avars
    <3>1. WS!End(w, "TimeoutError")
      BY <2>2, EndStep DEF GiveUp, Runnable, ledgerVars, WS!Allowed
    <3>. QED
      BY <3>1 DEF WS!Next, WS!Outcome, WS!Waits, Waits
  <2>3. ASSUME NEW w \in TxWaits, ReceiptReturns(w) PROVE [WS!Next]_WS!avars
    <3>1. w \in Waits /\ pc[w] = "probing"
      BY <2>3 DEF ReceiptReturns, Waits
    <3>2. CASE Finish(w, "RpcError")
      <4>1. WS!End(w, "RpcError")
        BY <2>3, <3>1, <3>2, EndStep DEF ReceiptReturns, Finish, ledgerVars,
                                         WS!Allowed
      <4>. QED
        BY <3>1, <4>1 DEF WS!Next, WS!Outcome, WS!Waits, Waits
    <3>3. CASE remote[w] # Absent /\ Finish(w, "returned")
      <4>1. remote[w] \in ReceiptStatus
        BY <3>3 DEF TypeOK
      <4>2. WS!End(w, "returned")
        BY <2>3, <3>1, <3>3, <4>1, EndStep DEF ReceiptReturns, Finish,
                                               ledgerVars, WS!Allowed,
                                               WS!Returnable
      <4>. QED
        BY <3>1, <4>2 DEF WS!Next, WS!Outcome, WS!Waits, Waits
    <3>4. CASE remote[w] = Absent /\ Sleep(w)
      <4>1. UNCHANGED WS!avars
        BY <2>3, <3>1, <3>4 DEF ReceiptReturns, Sleep, ledgerVars, WS!avars,
                                TypeOK
      <4>. QED
        BY <4>1
    <3>. QED
      BY <2>3, <3>2, <3>3, <3>4 DEF ReceiptReturns
  <2>4. ASSUME NEW w \in JobWaits, JobReturns(w) PROVE [WS!Next]_WS!avars
    <3>1. w \in Waits /\ pc[w] = "probing" /\ w \notin TxWaits
      BY <2>4 DEF JobReturns, Waits
    <3>2. PICK job \in GetJob(w) :
               /\ \/ job = Absent /\ Finish(w, "NotFound")
                  \/ job \in {"completed", "settled"} /\ Finish(w, "returned")
                  \/ job = "challenged" /\ Finish(w, "Challenged")
                  \/ job \in {"pending", "assigned", "computing"} /\ Sleep(w)
               /\ UNCHANGED ledgerVars
      BY <2>4 DEF JobReturns
    <3>3. CASE job = Absent /\ Finish(w, "NotFound")
      <4>1. WS!End(w, "NotFound")
        BY <3>1, <3>2, <3>3, EndStep DEF Finish, ledgerVars, WS!Allowed
      <4>. QED
        BY <3>1, <4>1 DEF WS!Next, WS!Outcome, WS!Waits, Waits
    <3>4. CASE job \in {"completed", "settled"} /\ Finish(w, "returned")
      <4>1. job = remote[w]
        BY <3>4 DEF GetJob, Absent
      <4>2. WS!End(w, "returned")
        BY <3>1, <3>2, <3>4, <4>1, EndStep DEF Finish, ledgerVars,
                                               WS!Allowed, WS!Returnable
      <4>. QED
        BY <3>1, <4>2 DEF WS!Next, WS!Outcome, WS!Waits, Waits
    <3>5. CASE job = "challenged" /\ Finish(w, "Challenged")
      <4>1. job = remote[w]
        BY <3>5 DEF GetJob, Absent
      <4>2. WS!End(w, "Challenged")
        BY <3>1, <3>2, <3>5, <4>1, EndStep DEF Finish, ledgerVars, WS!Allowed
      <4>. QED
        BY <3>1, <4>2 DEF WS!Next, WS!Outcome, WS!Waits, Waits
    <3>6. CASE job \in {"pending", "assigned", "computing"} /\ Sleep(w)
      <4>1. UNCHANGED WS!avars
        BY <3>1, <3>2, <3>6 DEF Sleep, ledgerVars, WS!avars, TypeOK
      <4>. QED
        BY <4>1
    <3>. QED
      BY <3>2, <3>3, <3>4, <3>5, <3>6
  <2>5. ASSUME NEW w \in TxWaits, IncludeTx(w) PROVE [WS!Next]_WS!avars
    <3>1. PICK s \in ReceiptStatus : remote' = [remote EXCEPT ![w] = s]
      BY <2>5 DEF IncludeTx
    <3>2. WS!Ledger(w)
      BY <2>5, <3>1 DEF IncludeTx, trackerVars, WS!Ledger, WS!Records,
                        ReceiptStatus, WS!avars
    <3>. QED
      BY <3>2 DEF WS!Next, WS!Waits, Waits
  <2>6. ASSUME NEW w \in JobWaits, AdvanceJob(w) PROVE [WS!Next]_WS!avars
    <3>1. PICK s \in JobSuccessors(remote[w]) : remote' = [remote EXCEPT ![w] = s]
      BY <2>6 DEF AdvanceJob
    <3>2. s \in JobStatus /\ w \notin TxWaits
      BY JobSuccessorsType DEF TypeOK
    <3>3. WS!Ledger(w)
      BY <2>6, <3>1, <3>2 DEF AdvanceJob, trackerVars, WS!Ledger, WS!Records
    <3>. QED
      BY <3>3 DEF WS!Next, WS!Waits, Waits
  <2>7. CASE Tick
    <3>1. \A w \in Waits : pc[w] # "done" => elapsed[w] + 1 < Timeout + (RpcLatency + PollInterval)
      BY <2>7 DEF Tick, Idle, TimerInv, TypeOK
    <3>2. pc' = pc /\ result' = result /\ UNCHANGED ledgerVars
      BY <2>7 DEF Tick
    <3>3. WS!Tick
      BY <2>7, <3>1, <3>2 DEF Tick, ledgerVars, WS!Tick, WS!Waits, Waits
    <3>. QED
      BY <3>3 DEF WS!Next
  <2>8. CASE Terminated \/ UNCHANGED vars
    BY <2>8 DEF Terminated, vars, WS!avars
  <2>. QED
    BY <2>1, <2>2, <2>3, <2>4, <2>5, <2>6, <2>7, <2>8 DEF Next, Waits
<1>. QED
  BY <1>1, InitRefines, TypeCorrect, InitTimerInv, TimerInvStep, PTL
     DEF Spec, WS!SafeSpec

=============================================================================
