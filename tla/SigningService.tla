--------------------------- MODULE SigningService ---------------------------
(***************************************************************************)
(* What CTVEmulator::sign promises its callers, whatever the emulator is   *)
(* made of (emulator-trait/src/emulator.rs): a call on a transaction ends  *)
(* with that transaction signed by every oracle it needs, or with an       *)
(* error.  Signatures are only added while the call runs.                  *)
(***************************************************************************)
CONSTANTS Callers, Txs, Oracles, Needed   \* Needed[t]: oracles t's calls need

VARIABLE job    \* by caller: [status, tx, sigs]

Statuses == {"idle", "busy", "signed", "failed"}

NoJob(status) == [status |-> status, tx |-> "none", sigs |-> {}]

Init == job = [t \in Callers |-> NoJob("idle")]

Begin(t, tx) ==
    /\ job[t].status # "busy"
    /\ job' = [job EXCEPT ![t] = [status |-> "busy", tx |-> tx, sigs |-> {}]]

Sign(t, o) ==
    /\ job[t].status = "busy" /\ o \in Needed[t]
    /\ job' = [job EXCEPT ![t] = [status |-> "busy", tx |-> job[t].tx,
                                  sigs |-> job[t].sigs \cup {o}]]

\* The last signature and the return are one step for the caller.
Return(t) ==
    /\ job[t].status = "busy"
    /\ \E o \in Needed[t] :
         /\ job[t].sigs \cup {o} = Needed[t]
         /\ job' = [job EXCEPT ![t] = [status |-> "signed", tx |-> job[t].tx,
                                       sigs |-> Needed[t]]]

Abort(t) ==
    /\ job[t].status = "busy"
    /\ job' = [job EXCEPT ![t] = NoJob("failed")]

\* The process of some callers ends, and with it their calls.
Restart(T) ==
    job' = [t \in Callers |->
              IF t \in T THEN NoJob("idle") ELSE job[t]]

Next ==
    \/ \E t \in Callers :
         \/ \E tx \in Txs : Begin(t, tx)
         \/ \E o \in Oracles : Sign(t, o)
         \/ Return(t) \/ Abort(t)
    \/ \E T \in SUBSET Callers : Restart(T)

Spec == Init /\ [][Next]_job
=============================================================================
