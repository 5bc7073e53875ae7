---------------------------- MODULE ConnectorCalls ----------------------------
(***************************************************************************)
(* What the executor promises about the calls it makes to a payment        *)
(* provider, with no mention of leases, clocks, crashes or retries         *)
(* (packages/engine/src/executor.ts, the comments of the class and of      *)
(* reconcile): an attempt is on record before the provider hears of it, an *)
(* idempotency key and a capability token reach the provider at most once, *)
(* and a record is closed only on what the provider has seen.              *)
(***************************************************************************)
CONSTANTS
  Requests,   \* the calls of execute
  Keys,       \* idempotency keys
  KeyOf,      \* the key each request derives
  TokenOf     \* the capability token each request carries

VARIABLES
  record,     \* each key's attempt: absent, open, or closed
  calls       \* the requests whose call the provider has taken

vars == <<record, calls>>

Init ==
  /\ record = [k \in Keys |-> "absent"]
  /\ calls = {}

Record(k) ==
  /\ record[k] = "absent"
  /\ record' = [record EXCEPT ![k] = "open"]
  /\ UNCHANGED calls

Call(r) ==
  /\ record[KeyOf[r]] = "open"
  /\ \A s \in calls : KeyOf[s] # KeyOf[r] /\ TokenOf[s] # TokenOf[r]
  /\ calls' = calls \cup {r}
  /\ UNCHANGED record

Close(k) ==
  /\ record[k] = "open"
  /\ \E r \in calls : KeyOf[r] = k
  /\ record' = [record EXCEPT ![k] = "closed"]
  /\ UNCHANGED calls

Next ==
  \/ \E k \in Keys : Record(k) \/ Close(k)
  \/ \E r \in Requests : Call(r)

Spec == Init /\ [][Next]_vars
=============================================================================
