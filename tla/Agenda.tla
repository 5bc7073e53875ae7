------------------------------- MODULE Agenda -------------------------------
(***************************************************************************)
(* What the durable scheduler promises about the actions it holds, with no *)
(* mention of ticks, locks, leases, hangs or deaths (the comments of       *)
(* packages/engine/src/scheduler.ts): an action is run at least once, and  *)
(* maybe by a worker that has lost it, but never before it is due; it is   *)
(* settled once; and what ends a case settles whatever is outstanding for  *)
(* it at that moment.                                                      *)
(***************************************************************************)
EXTENDS Naturals

CONSTANTS
  Rows,    \* the actions that may be scheduled
  Cases,
  CaseOf,  \* the case of each
  FireAt   \* when each is due

VARIABLES
  entry,   \* absent, open, done or cancelled
  ran,     \* the actions that somebody has run
  ended,   \* the cases that have ended
  now      \* the clock

vars == <<entry, ran, ended, now>>

Init ==
  /\ entry = [r \in Rows |-> "absent"]
  /\ ran = {} /\ ended = {} /\ now = 0

Enter(r) ==
  /\ entry[r] = "absent"
  /\ entry' = [entry EXCEPT ![r] = "open"]
  /\ UNCHANGED <<ran, ended, now>>

Attempt(r) ==
  /\ entry[r] # "absent" /\ FireAt[r] <= now
  /\ ran' = ran \cup {r}
  /\ UNCHANGED <<entry, ended, now>>

(* What is done was run, or its case had ended.                            *)
Finish(r) ==
  /\ entry[r] = "open"
  /\ r \in ran \/ CaseOf[r] \in ended
  /\ entry' = [entry EXCEPT ![r] = "done"]
  /\ UNCHANGED <<ran, ended, now>>

(* The terminal write and its cancellations are one.                       *)
End(c) ==
  /\ c \notin ended
  /\ ended' = ended \cup {c}
  /\ entry' = [r \in Rows |-> IF CaseOf[r] = c /\ entry[r] = "open" THEN "cancelled" ELSE entry[r]]
  /\ UNCHANGED <<ran, now>>

Pass ==
  /\ now' = now + 1
  /\ UNCHANGED <<entry, ran, ended>>

Next ==
  \/ \E r \in Rows : Enter(r) \/ Attempt(r) \/ Finish(r)
  \/ \E c \in Cases : End(c)
  \/ Pass

Spec == Init /\ [][Next]_vars
=============================================================================
