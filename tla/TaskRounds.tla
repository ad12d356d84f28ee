----------------------------- MODULE TaskRounds -----------------------------
(***************************************************************************)
(* What reconnectPrinterSockets promises, without the adapters' states: a  *)
(* run of the task first reauthenticates a batch of adapters, waits for all*)
(* of them, then sets up another batch, waits for all of these, and only   *)
(* then may the next run start.  An adapter is in the batch at most once.  *)
(***************************************************************************)
CONSTANT Adapters

VARIABLES phase,   \* "idle", "reauth" or "open"
          pending  \* adapters of the batch that have not settled

Init == phase = "idle" /\ pending = {}

StartReauth(batch) ==
  /\ phase = "idle"
  /\ batch # {}
  /\ phase' = "reauth"
  /\ pending' = batch

StartOpen(batch) ==
  /\ phase = "idle"
  /\ batch # {}
  /\ phase' = "open"
  /\ pending' = batch

Settle(a) ==
  /\ a \in pending
  /\ pending # {a}
  /\ pending' = pending \ {a}
  /\ phase' = phase

\* The last reauth settles, with the second batch in the same step.
SettleLastReauth(batch) ==
  /\ phase = "reauth"
  /\ \E a \in pending : pending = {a}
  /\ phase' = IF batch = {} THEN "idle" ELSE "open"
  /\ pending' = batch

SettleLastOpen ==
  /\ phase = "open"
  /\ \E a \in pending : pending = {a}
  /\ phase' = "idle"
  /\ pending' = {}

Next ==
  \/ \E batch \in SUBSET Adapters :
       StartReauth(batch) \/ StartOpen(batch) \/ SettleLastReauth(batch)
  \/ \E a \in Adapters : Settle(a)
  \/ SettleLastOpen

Spec == Init /\ [][Next]_<<phase, pending>>
=============================================================================
