------------------------------- MODULE Stream -------------------------------
(***************************************************************************)
(* The ledger and the two views that follow it: the server-sent events of  *)
(* the console and the terminal (packages/db/src/ledger.ts, packages/      *)
(* console/src/stream.ts, packages/tui/src/tui.ts).                        *)
(*                                                                         *)
(* An entry takes its id when it is inserted and becomes visible when its  *)
(* transaction commits: ids are not committed in their order.  A view      *)
(* remembers the id of the last line it has shown, and its poll returns    *)
(* the next Limit entries, of which it shows those that have a kind.       *)
(***************************************************************************)
EXTENDS Integers, FiniteSets

CONSTANTS
  Views,
  Limit,   \* entries that one poll reads
  MaxId    \* bound: the last id

ASSUME StreamAssumption == Limit \in Nat \ {0} /\ MaxId \in Nat

Ids == 1..MaxId

VARIABLES
  entry,     \* ledger: absent, open (inserted, not committed), there, or rolled back
  hasKind,   \* the entries whose event_type is in KINDS
  next,      \* the sequence of the ids
  cursor,    \* of each view
  start,     \* the cursor each view was opened with
  shown,     \* the lines each view has shown since
  overtaken  \* history: the entries committed behind the cursor of a view

streamVars == <<entry, hasKind, next, cursor, start, shown, overtaken>>

StreamInit ==
  /\ entry = [i \in Ids |-> "absent"]
  /\ hasKind = {} /\ next = 1
  /\ cursor = [v \in Views |-> 0] /\ start = [v \in Views |-> 0]
  /\ shown = [v \in Views |-> {}] /\ overtaken = [v \in Views |-> {}]

(* Ledger.append, in a transaction of its own or in the caller's.          *)
Append ==
  /\ next <= MaxId
  /\ entry' = [entry EXCEPT ![next] = "open"]
  /\ hasKind' \in {hasKind, hasKind \cup {next}}
  /\ next' = next + 1
  /\ UNCHANGED <<cursor, start, shown, overtaken>>

Commit(i) ==
  /\ entry[i] = "open"
  /\ entry' = [entry EXCEPT ![i] = "there"]
  /\ overtaken' = [v \in Views |-> IF i <= cursor[v] THEN overtaken[v] \cup {i} ELSE overtaken[v]]
  /\ UNCHANGED <<hasKind, next, cursor, start, shown>>

RollBack(i) ==
  /\ entry[i] = "open"
  /\ entry' = [entry EXCEPT ![i] = "gone"]
  /\ UNCHANGED <<hasKind, next, cursor, start, shown, overtaken>>

(* readSince: WHERE id > cursor ORDER BY id LIMIT.  What has no kind is    *)
(* dropped after the limit.                                                *)
AfterInclusive(v) == {i \in Ids : entry[i] = "there" /\ i >= cursor[v]}
After(v) == {i \in Ids : entry[i] = "there" /\ i > cursor[v]}
RowsNewestFirst(v) == {i \in After(v) : Cardinality({j \in After(v) : j >= i}) <= Limit}
Rows(v) == {i \in After(v) : Cardinality({j \in After(v) : j <= i}) <= Limit}
Lines(v) == Rows(v) \cap hasKind

Lasts(v) == {l \in Lines(v) : \A i \in Lines(v) : i <= l}

PollFullPages(v) ==
  /\ Cardinality(Rows(v)) = Limit
  /\ \E last \in Lasts(v) : cursor' = [cursor EXCEPT ![v] = last]
  /\ shown' = [shown EXCEPT ![v] = shown[v] \cup Lines(v)]
  /\ UNCHANGED <<entry, hasKind, next, start, overtaken>>

(* One poll.  The cursor moves with the lines shown, and not with the rows *)
(* read.                                                                   *)
Poll(v) ==
  /\ \E last \in Lasts(v) : cursor' = [cursor EXCEPT ![v] = last]
  /\ shown' = [shown EXCEPT ![v] = shown[v] \cup Lines(v)]
  /\ UNCHANGED <<entry, hasKind, next, start, overtaken>>

(* A view that is opened again starts from the id it is given.             *)
Reopen(v) ==
  /\ \E i \in 0..cursor[v] :
       /\ i # start[v]
       /\ cursor' = [cursor EXCEPT ![v] = i]
       /\ start' = [start EXCEPT ![v] = i]
       /\ shown' = [shown EXCEPT ![v] = {}]
       /\ overtaken' = [overtaken EXCEPT ![v] = {}]
  /\ UNCHANGED <<entry, hasKind, next>>

StreamNext ==
  \/ Append
  \/ \E i \in Ids : Commit(i) \/ RollBack(i)
  \/ \E v \in Views : Poll(v) \/ Reopen(v)

StreamSpec == StreamInit /\ [][StreamNext]_streamVars /\ \A v \in Views : WF_streamVars(Poll(v))

-----------------------------------------------------------------------------
StreamTypeOK ==
  /\ entry \in [Ids -> {"absent", "open", "there", "gone"}]
  /\ hasKind \subseteq Ids /\ next \in 1..(MaxId + 1)
  /\ cursor \in [Views -> 0..MaxId] /\ start \in [Views -> 0..MaxId]
  /\ shown \in [Views -> SUBSET Ids] /\ overtaken \in [Views -> SUBSET Ids]

(* A view never shows a line twice and never goes back: what a poll shows  *)
(* comes after everything the view has shown since it was opened.          *)
FollowsInOrder ==
  [][\A v \in Views : Poll(v) => \A i \in Lines(v), j \in shown[v] : j < i]_streamVars

(* The only lines a view passes by are those that were committed behind    *)
(* its cursor: the ledger is append-only, but not monotonic.               *)
Skipped(v) ==
  {i \in Ids : entry[i] = "there" /\ i \in hasKind /\ start[v] < i /\ i <= cursor[v] /\ i \notin shown[v]}
SkippedWereOvertaken == \A v \in Views : Skipped(v) \subseteq overtaken[v]

(* A view that stays open shows every line in the end, unless the line was *)
(* committed behind the cursor, or a whole page without a kind lies before *)
(* it: then every poll reads that page again and the cursor never moves.   *)
Stalled(v) == Cardinality(Rows(v)) = Limit /\ Lines(v) = {}
EveryLineIsShown ==
  \A v \in Views :
    \/ []<><<Reopen(v)>>_streamVars
    \/ \A i \in Ids :
         []<>(i \in shown[v] \cup overtaken[v] \/ i <= start[v] \/ Stalled(v)
                \/ entry[i] # "there" \/ i \notin hasKind)
=============================================================================
