------------------------------- MODULE CallSpec -------------------------------
(***************************************************************************)
(* What a signing helper of AIJobHelper, StakingHelper and                 *)
(* GovernanceHelper promises its caller, with the awaits inside it hidden: *)
(* a call is made once; it either raises at once (a failed check) or runs; *)
(* a running call ends once, by raising or by returning a signed           *)
(* transaction, and it returns one only when the call is Allowed given the *)
(* proposals that were passed at some moment while it ran.  The node may   *)
(* change a proposal's status at any time.                                 *)
(***************************************************************************)
CONSTANTS
    Tasks,           \* the helper calls the caller makes
    Calls,           \* a method and its arguments
    ProposalIds,
    ProposalStates,  \* what the node may hold for a proposal id
    Reasons,         \* why a call may raise
    MkTx(_),         \* the transaction a call signs
    Allowed(_, _)    \* Allowed(c, P): c may be signed, P passed during it

VARIABLES
    status,    \* status[t]: "idle", "running" or "done"
    acall,     \* acall[t]: what call t was made with
    aresult,   \* aresult[t]: what it raised or returned
    proposal,  \* the node's proposal statuses
    signed,    \* every transaction a call returned
    passed     \* passed[t]: the proposals passed at some moment of call t

vars == <<status, acall, aresult, proposal, signed, passed>>

PassedNow == {i \in ProposalIds : proposal[i] = "passed"}

Init ==
    /\ status = [t \in Tasks |-> "idle"]
    /\ acall = [t \in Tasks |-> CHOOSE c \in Calls : TRUE]
    /\ aresult = [t \in Tasks |-> [out |-> "none"]]
    /\ proposal \in [ProposalIds -> ProposalStates]
    /\ signed = {}
    /\ passed = [t \in Tasks |-> {}]

Fail(t, why) ==
    /\ status' = [status EXCEPT ![t] = "done"]
    /\ aresult' = [aresult EXCEPT ![t] = [out |-> "raised", why |-> why]]

\* The call is made; it raises before its first await, or it runs.
Call(t, c) ==
    /\ status[t] = "idle"
    /\ acall' = [acall EXCEPT ![t] = c]
    /\ passed' = [passed EXCEPT ![t] = PassedNow]
    /\ \/ status' = [status EXCEPT ![t] = "running"] /\ UNCHANGED aresult
       \/ \E why \in Reasons : Fail(t, why)
    /\ UNCHANGED <<proposal, signed>>

\* The call ends: it raises, or it returns the transaction it signed.
Return(t) ==
    /\ status[t] = "running"
    /\ \/ \E why \in Reasons : Fail(t, why) /\ UNCHANGED signed
       \/ /\ Allowed(acall[t], passed[t])
          /\ status' = [status EXCEPT ![t] = "done"]
          /\ aresult' = [aresult EXCEPT ![t] = [out |-> "tx", tx |-> MkTx(acall[t])]]
          /\ signed' = signed \cup {MkTx(acall[t])}
    /\ UNCHANGED <<acall, proposal, passed>>

\* The node changes a proposal's status.
Env(i, st) ==
    /\ proposal' = [proposal EXCEPT ![i] = st]
    /\ passed' = [t \in Tasks |->
                    IF st = "passed" /\ status[t] # "done"
                    THEN passed[t] \cup {i} ELSE passed[t]]
    /\ UNCHANGED <<status, acall, aresult, signed>>

Next ==
    \/ \E t \in Tasks, c \in Calls : Call(t, c)
    \/ \E t \in Tasks : Return(t)
    \/ \E i \in ProposalIds, st \in ProposalStates : Env(i, st)

Spec == Init /\ [][Next]_vars

=============================================================================
