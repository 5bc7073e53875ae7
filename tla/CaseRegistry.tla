---------------------------- MODULE CaseRegistry ----------------------------
(***************************************************************************)
(* What opening a case and appending to it promise, with no mention of     *)
(* logs, transactions, locks, snapshots or failures (the comments of       *)
(* packages/engine/src/case-manager.ts and packages/db/src/case-events.ts):*)
(* a case opens only where its obligation has none open, all at once; it   *)
(* moves along the transitions and no others; the move that ends it takes  *)
(* everything queued for it along; and it stays in the state it ended in.  *)
(***************************************************************************)

CONSTANTS
  Cases,
  ObligationOf,
  Actions,  \* what may be queued for a case
  First,    \* the state a case opens in
  Finals,   \* the states that end a case
  Moves     \* the pairs of states a case may go through

VARIABLES
  opened,   \* the cases that exist
  closed,   \* those with a terminal reason
  state,    \* the state of each case
  queued    \* what is queued for each case

vars == <<opened, closed, state, queued>>

Init ==
  /\ opened = {} /\ closed = {}
  /\ state = [c \in Cases |-> First]
  /\ queued = [c \in Cases |-> {}]

Open(c) ==
  /\ c \notin opened
  /\ \A d \in opened \ closed : ObligationOf[d] # ObligationOf[c]
  /\ opened' = opened \cup {c}
  /\ UNCHANGED <<closed, state, queued>>

(* An event moves a case, or leaves it where it is; only one into a final  *)
(* state can close it, and no event moves it from there.                   *)
Append(c) ==
  LET s == state'[c] IN
  /\ c \in opened
  /\ <<state[c], s>> \in Moves /\ (state[c] \in Finals => s = state[c])
  /\ state' = [state EXCEPT ![c] = s]
  /\ closed' \in {closed} \cup (IF s \in Finals THEN {closed \cup {c}} ELSE {})
  /\ queued' = IF s \in Finals THEN [queued EXCEPT ![c] = {}] ELSE queued
  /\ UNCHANGED opened

Queue(c, a) ==
  /\ c \in opened
  /\ \A d \in Cases : a \notin queued[d]
  /\ queued' = [queued EXCEPT ![c] = @ \cup {a}]
  /\ UNCHANGED <<opened, closed, state>>

Settle(c, a) ==
  /\ a \in queued[c]
  /\ queued' = [queued EXCEPT ![c] = @ \ {a}]
  /\ UNCHANGED <<opened, closed, state>>

Next ==
  \E c \in Cases :
    \/ Open(c) \/ Append(c)
    \/ \E a \in Actions : Queue(c, a) \/ Settle(c, a)

Spec == Init /\ [][Next]_vars
=============================================================================
