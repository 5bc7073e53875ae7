------------------------ MODULE ContactAndStreamProofs ------------------------
(***************************************************************************)
(* Theorems about the two components at the edges: ContactPolicy, which    *)
(* decides what goes out to a customer, for any steps, caps, windows and   *)
(* quiet hours; and Stream, which shows what has happened, for any number  *)
(* of views, any page and any ids.  The two share nothing.                 *)
(***************************************************************************)
EXTENDS ContactPolicy, Stream, FiniteSetTheorems, TLAPS

-----------------------------------------------------------------------------
(* Arithmetic: an integer is its quotient and its rest.                    *)
LEMMA QuotientAndRest ==
  ASSUME NEW t \in Int, NEW d \in Nat \ {0}
  PROVE  t = d * (t \div d) + (t % d) /\ t \div d \in Int /\ t % d \in 0..(d - 1)
<1> DEFINE q == t \div d
           m == t % d
<1>1. q \in Int /\ m \in 0..(d - 1)
  OBVIOUS
<1>2. t = d * q + m
  <2> HIDE DEF q, m
  <2> SUFFICES ASSUME q = t \div d, m = t % d PROVE t = d * q + m
    BY DEF q, m
  <2> QED BY <1>1, SMT
<1>3. QED BY <1>1, <1>2

LEMMA RestIsUnique ==
  ASSUME NEW q \in Int, NEW d \in Nat \ {0}, NEW m \in 0..(d - 1)
  PROVE  (d * q + m) % d = m
OBVIOUS

LEMMA WindowIsInRange ==
  ASSUME NEW k \in DOMAIN Caps, NEW t \in 0..MaxTime
  PROVE  WindowOf(k, t) \in 0..MaxTime
<1>1. t \in Nat /\ MaxTime \in Nat /\ Caps[k].window \in Nat \ {0}
  BY ContactAssumption
<1>2. t \div Caps[k].window \in 0..t
  BY <1>1
<1>3. QED BY <1>1, <1>2 DEF WindowOf

LEMMA MaxOfTwo ==
  ASSUME NEW a \in Int, NEW b \in Int
  PROVE  /\ Max({a, b}) \in {a, b}
         /\ a <= Max({a, b}) /\ b <= Max({a, b})
<1>1. \E x \in {a, b} : \A y \in {a, b} : x >= y
  <2>1. CASE a <= b
    BY <2>1
  <2>2. CASE ~(a <= b)
    BY <2>2
  <2>3. QED BY <2>1, <2>2
<1>2. Max({a, b}) \in {a, b} /\ \A y \in {a, b} : Max({a, b}) >= y
  BY <1>1 DEF Max
<1>3. QED BY <1>2

-----------------------------------------------------------------------------
(* The hours since quiet hours began.                                      *)
LEMMA HoursSince ==
  ASSUME NEW t \in Nat, NEW s \in 0..(Day - 1)
  PROVE  (t + Day - s) % Day = IF t % Day >= s THEN (t % Day) - s ELSE (t % Day) + Day - s
<1> DEFINE q == t \div Day
           m == t % Day
<1>1. t = Day * q + m /\ q \in Int /\ m \in 0..(Day - 1)
  BY ContactAssumption, QuotientAndRest
<1> HIDE DEF q, m
<1>2. CASE m >= s
  <2>1. Day * (q + 1) = Day * q + Day
    BY <1>1, ContactAssumption
  <2>2. t + Day - s = Day * (q + 1) + (m - s)
    BY <1>1, <2>1, ContactAssumption
  <2>3. (Day * (q + 1) + (m - s)) % Day = m - s
    BY <1>1, <1>2, ContactAssumption, RestIsUnique
  <2>4. QED BY <1>2, <2>2, <2>3 DEF m
<1>3. CASE m < s
  <2>1. t + Day - s = Day * q + (m + Day - s)
    BY <1>1, ContactAssumption
  <2>2. (Day * q + (m + Day - s)) % Day = m + Day - s
    BY <1>1, <1>3, ContactAssumption, RestIsUnique
  <2>3. QED BY <1>1, <1>3, <2>1, <2>2, ContactAssumption DEF m
<1>4. QED BY <1>1, <1>2, <1>3, ContactAssumption

(* inQuietHours says of an instant that it lies between the two hours,     *)
(* whether or not they wrap midnight, and whichever they are: the code's   *)
(* two ranges are one stretch of the clock.                                *)
THEOREM QuietHoursAreOneStretch ==
  ASSUME NEW t \in Nat
  PROVE  InQuietHours(t) <=> Quiet(t)
<1> DEFINE m == t % Day
           e == (QuietEnd + Day - QuietStart) % Day
           n == (t + Day - QuietStart) % Day
<1>1. QuietEnd \in Nat /\ QuietStart \in 0..(Day - 1) /\ Day \in Nat \ {0}
  BY ContactAssumption
<1>2. m \in 0..(Day - 1) /\ QuietEnd % Day = QuietEnd
  BY ContactAssumption
<1>3. n = IF m >= QuietStart THEN m - QuietStart ELSE m + Day - QuietStart
  BY <1>1, HoursSince
<1>4. e = IF QuietEnd % Day >= QuietStart THEN (QuietEnd % Day) - QuietStart
                                          ELSE (QuietEnd % Day) + Day - QuietStart
  BY <1>1, HoursSince
<1>5. e = IF QuietEnd >= QuietStart THEN QuietEnd - QuietStart ELSE QuietEnd + Day - QuietStart
  BY <1>2, <1>4
<1>6. /\ InQuietHours(t) <=> IF QuietStart > QuietEnd THEN m >= QuietStart \/ m < QuietEnd
                                                      ELSE m >= QuietStart /\ m < QuietEnd
      /\ Quiet(t) <=> n < e
  BY DEF InQuietHours, Quiet
<1> HIDE DEF m, e, n
<1>7. QED BY <1>2, <1>3, <1>5, <1>6, ContactAssumption

-----------------------------------------------------------------------------
(* The strengthening.  What a request has kept follows from where it is.   *)
Nowhere == [k \in DOMAIN Caps |-> NoWindow]

FollowsAt(r) ==
  /\ At(r, "ready") => req[r] = Start
  /\ At(r, "mint") => step[r].action \notin Contact
  /\ ~At(r, "done") => req[r].spent = Nowhere
  /\ req[r].at # Never => req[r].pc \in {"made", "told", "done", "failed"}
Follows == \A r \in Requests : FollowsAt(r)

(* A budget holds the steps that were counted in it.                       *)
Counted(k, w) == {r \in Requests : req[r].spent[k] = w}
UsedCounts ==
  \A k \in DOMAIN Caps, w \in 0..MaxTime : used[<<k, w>>] = Cardinality(Counted(k, w))

(* The steps that have read a budget and may yet spend it, or have: no     *)
(* more than the cap and those that were there beside the last to read it. *)
OnTheWay == {"global", "mint", "token", "calling", "made", "told"}
Readers(k, w) ==
  {r \in Requests :
     /\ step[r].action \in Contact /\ k \in {step[r].channel, Every} /\ req[r].read[k] = w
     /\ req[r].pc \in OnTheWay \/ (At(r, "done") /\ req[r].spent[k] = w)}
ReadersFit ==
  \A k \in DOMAIN Caps, w \in 0..MaxTime :
    Cardinality(Readers(k, w)) <= Caps[k].max + Max({peak - 1, 0})

(* A contact on its way was minted outside quiet hours, a lifetime ago at  *)
(* the most.                                                               *)
Covers(t) == \E b \in 0..t : t - b <= Lifetime /\ ~InQuietHours(b)
CoveredAt(r) ==
  step[r].action \in Contact =>
    /\ At(r, "global") => ~InQuietHours(now)
    /\ At(r, "token") => \E b \in 0..now : req[r].until = b + Lifetime /\ ~InQuietHours(b)
    /\ At(r, "calling") => Covers(now)
    /\ req[r].at # Never => Covers(req[r].at)
Covered == \A r \in Requests : CoveredAt(r)

ContactInv ==
  /\ TypeOK
  /\ Follows
  /\ UsedCounts
  /\ ReadersFit
  /\ Covered

RequestType ==
  [pc : Pcs, until : 0..(MaxTime + Lifetime), at : 0..Never, late : BOOLEAN,
   read : [DOMAIN Caps -> NoWindow..MaxTime], spent : [DOMAIN Caps -> NoWindow..MaxTime]]
PeakFollows == peak' = Max({peak, Cardinality(Between')})

LEMMA SubsetOfRequests ==
  ASSUME NEW S, S \subseteq Requests
  PROVE  IsFiniteSet(S) /\ Cardinality(S) \in 0..Cardinality(Requests)
<1>1. IsFiniteSet(Requests)
  BY ContactAssumption
<1>2. IsFiniteSet(S) /\ Cardinality(S) <= Cardinality(Requests)
  BY <1>1, FS_Subset
<1>3. Cardinality(S) \in Nat /\ Cardinality(Requests) \in Nat
  BY <1>1, <1>2, FS_CardinalityType
<1>4. QED BY <1>2, <1>3

LEMMA PeakGrows ==
  ASSUME ContactInv, PeakFollows
  PROVE  /\ peak' \in 0..Cardinality(Requests)
         /\ peak <= peak' /\ Cardinality(Between') <= peak'
<1> DEFINE many == Cardinality(Between')
<1>1. many \in 0..Cardinality(Requests)
  BY SubsetOfRequests DEF Between
<1>2. Cardinality(Requests) \in Nat /\ peak \in 0..Cardinality(Requests)
  BY SubsetOfRequests DEF ContactInv, TypeOK
<1>3. peak' = Max({peak, many})
  BY DEF PeakFollows
<1> HIDE DEF many
<1>4. many \in Int /\ peak \in Int
  BY <1>1, <1>2
<1>5. Max({peak, many}) \in {peak, many} /\ peak <= Max({peak, many}) /\ many <= Max({peak, many})
  BY <1>4, MaxOfTwo
<1>6. peak' \in 0..Cardinality(Requests) /\ peak <= peak' /\ many <= peak'
  BY <1>1, <1>2, <1>3, <1>5
<1>7. QED BY <1>6 DEF many

(* What the cap and the peak leave room for only grows.                    *)
LEMMA AllowanceGrows ==
  ASSUME NEW p \in Nat, NEW p1 \in Nat, p <= p1
  PROVE  /\ Max({p - 1, 0}) \in Nat
         /\ Max({p - 1, 0}) <= Max({p1 - 1, 0})
         /\ p - 1 <= Max({p - 1, 0})
<1>1. /\ Max({p - 1, 0}) \in {p - 1, 0} /\ p - 1 <= Max({p - 1, 0}) /\ 0 <= Max({p - 1, 0})
  BY MaxOfTwo
<1>2. /\ Max({p1 - 1, 0}) \in {p1 - 1, 0} /\ p1 - 1 <= Max({p1 - 1, 0}) /\ 0 <= Max({p1 - 1, 0})
  BY MaxOfTwo
<1>3. QED BY <1>1, <1>2

LEMMA AllowanceIsNat ==
  ASSUME ContactInv
  PROVE  Max({peak - 1, 0}) \in Nat
<1>1. peak \in Nat
  BY SubsetOfRequests DEF ContactInv, TypeOK
<1>2. QED BY <1>1, AllowanceGrows

LEMMA UnionIsSmall ==
  ASSUME NEW S, NEW A, NEW B, S \subseteq A \cup B, IsFiniteSet(A), IsFiniteSet(B)
  PROVE  Cardinality(S) <= Cardinality(A) + Cardinality(B)
<1>1. /\ IsFiniteSet(A \cup B) /\ IsFiniteSet(A \cap B)
      /\ Cardinality(A \cup B) = Cardinality(A) + Cardinality(B) - Cardinality(A \cap B)
  BY FS_Union, FS_Intersection
<1>2. IsFiniteSet(S) /\ Cardinality(S) <= Cardinality(A \cup B)
  BY <1>1, FS_Subset
<1>3. /\ Cardinality(S) \in Nat /\ Cardinality(A) \in Nat /\ Cardinality(B) \in Nat
      /\ Cardinality(A \cap B) \in Nat
  BY <1>1, <1>2, FS_CardinalityType
<1>4. QED BY <1>1, <1>2, <1>3

-----------------------------------------------------------------------------
LEMMA ContactInitIsInductive == Init => ContactInv
<1> SUFFICES ASSUME Init PROVE ContactInv
  OBVIOUS
<1>1. Start \in RequestType /\ Start.spent = Nowhere /\ Start.at = Never /\ Start.pc = "ready"
  BY ContactAssumption DEF Start, RequestType, Pcs, Never, NoWindow, Nowhere
<1>2. \A r \in Requests : req[r] = Start
  BY DEF Init
<1>3. Cardinality({}) = 0 /\ Cardinality(Requests) \in Nat
  BY FS_EmptySet, SubsetOfRequests
<1>4. TypeOK
  <2>1. req \in [Requests -> RequestType]
    BY <1>1 DEF Init
  <2>2. used \in [(DOMAIN Caps) \X (0..MaxTime) -> 0..Cardinality(Requests)]
    BY <1>3 DEF Init
  <2>3. ended \in [Cases -> Endings \cup {"no"}]
    BY DEF Init
  <2>4. now \in 0..MaxTime /\ peak \in 0..Cardinality(Requests)
    BY <1>3, ContactAssumption DEF Init
  <2>5. \A r \in Requests : step[r] \in Variants[r]
    BY DEF Init
  <2>6. QED BY <2>1, <2>2, <2>3, <2>4, <2>5 DEF TypeOK, RequestType
<1>5. Follows
  BY <1>1, <1>2 DEF Follows, FollowsAt, At
<1>6. UsedCounts
  <2> SUFFICES ASSUME NEW k \in DOMAIN Caps, NEW w \in 0..MaxTime
               PROVE  used[<<k, w>>] = Cardinality(Counted(k, w))
    BY DEF UsedCounts
  <2>1. \A r \in Requests : req[r].spent[k] = -1
    BY <1>1, <1>2 DEF Nowhere, NoWindow
  <2>2. Counted(k, w) = {}
    BY <2>1 DEF Counted
  <2>3. QED BY <2>2, <1>3 DEF Init
<1>7. ReadersFit
  <2> SUFFICES ASSUME NEW k \in DOMAIN Caps, NEW w \in 0..MaxTime
               PROVE  Cardinality(Readers(k, w)) <= Caps[k].max + Max({peak - 1, 0})
    BY DEF ReadersFit
  <2>1. \A r \in Requests : req[r].pc \notin OnTheWay /\ ~At(r, "done")
    BY <1>1, <1>2 DEF OnTheWay, At
  <2>2. Readers(k, w) = {}
    BY <2>1 DEF Readers
  <2>3. peak \in Nat /\ Max({peak - 1, 0}) \in Nat
    <3>1. peak \in Nat
      BY DEF Init
    <3>2. QED BY <3>1, AllowanceGrows
  <2>4. Caps[k].max \in Nat
    BY ContactAssumption
  <2>5. QED BY <2>2, <2>3, <2>4, <1>3
<1>8. Covered
  BY <1>1, <1>2 DEF Covered, CoveredAt, At
<1>9. QED BY <1>4, <1>5, <1>6, <1>7, <1>8 DEF ContactInv

(* A step of one request that leaves the budgets alone keeps the invariant *)
(* when the request is where it may be, and becomes a reader of a budget   *)
(* only while the budget has room.                                         *)
LEMMA ReadersStayBounded ==
  ASSUME ContactInv, PeakFollows, NEW r \in Requests,
         NEW k \in DOMAIN Caps, NEW w \in 0..MaxTime,
         UNCHANGED step,
         \A q \in Requests \ {r} : req'[q] = req[q],
         r \in Readers(k, w)' =>
           r \in Readers(k, w) \/ (r \in Between' /\ used[<<k, w>>] < Caps[k].max)
  PROVE  (Cardinality(Readers(k, w)) <= Caps[k].max + Max({peak - 1, 0}))'
<1>1. peak \in Nat /\ peak' \in Nat /\ peak <= peak' /\ Cardinality(Between') <= peak'
  <2>1. Cardinality(Requests) \in Nat
    BY SubsetOfRequests
  <2>2. QED BY <2>1, PeakGrows DEF ContactInv, TypeOK
<1>2. /\ Max({peak - 1, 0}) \in Nat /\ Max({peak' - 1, 0}) \in Nat
      /\ Max({peak - 1, 0}) <= Max({peak' - 1, 0}) /\ peak' - 1 <= Max({peak' - 1, 0})
  BY <1>1, AllowanceGrows
<1>3. Caps[k].max \in Nat
  BY ContactAssumption
<1>4. /\ IsFiniteSet(Readers(k, w)) /\ Cardinality(Readers(k, w)) \in Nat
      /\ IsFiniteSet(Readers(k, w)') /\ Cardinality(Readers(k, w)') \in Nat
      /\ IsFiniteSet(Between') /\ Cardinality(Between') \in Nat
      /\ IsFiniteSet(Counted(k, w)) /\ Cardinality(Counted(k, w)) \in Nat
  BY SubsetOfRequests DEF Readers, Between, Counted
<1>5. \A q \in Requests \ {r} : q \in Readers(k, w)' => q \in Readers(k, w)
  BY DEF Readers, At
<1>6. CASE Readers(k, w)' \subseteq Readers(k, w)
  <2>1. Cardinality(Readers(k, w)') <= Cardinality(Readers(k, w))
    BY <1>4, <1>6, FS_Subset
  <2>2. Cardinality(Readers(k, w)) <= Caps[k].max + Max({peak - 1, 0})
    BY DEF ContactInv, ReadersFit
  <2>3. QED BY <1>2, <1>3, <1>4, <2>1, <2>2
<1>7. CASE ~(Readers(k, w)' \subseteq Readers(k, w))
  <2>1. r \in Readers(k, w)' /\ r \in Between' /\ used[<<k, w>>] < Caps[k].max
    BY <1>5, <1>7 DEF Readers
  <2>2. Readers(k, w)' \subseteq Between' \cup Counted(k, w)
    <3> SUFFICES ASSUME NEW q \in Readers(k, w)' PROVE q \in Between' \cup Counted(k, w)
      OBVIOUS
    <3>1. CASE q = r
      BY <2>1, <3>1
    <3>2. CASE q # r
      <4>1. q \in Requests \ {r} /\ req'[q] = req[q]
        BY <3>2 DEF Readers
      <4>2. CASE req'[q].pc \in OnTheWay
        BY <4>1, <4>2 DEF Readers, OnTheWay, Between
      <4>3. CASE req'[q].pc \notin OnTheWay
        BY <4>1, <4>3 DEF Readers, Counted
      <4>4. QED BY <4>2, <4>3
    <3>3. QED BY <3>1, <3>2
  <2>3. Cardinality(Readers(k, w)') <= Cardinality(Between') + Cardinality(Counted(k, w))
    BY <1>4, <2>2, UnionIsSmall
  <2>4. Cardinality(Counted(k, w)) = used[<<k, w>>]
    BY DEF ContactInv, UsedCounts
  <2>5. Cardinality(Readers(k, w)') <= peak' + (Caps[k].max - 1)
    BY <1>1, <1>3, <1>4, <2>1, <2>3, <2>4
  <2>6. QED BY <1>1, <1>2, <1>3, <1>4, <2>5
<1>8. QED BY <1>6, <1>7

LEMMA OneMoves ==
  ASSUME ContactInv, PeakFollows, NEW r \in Requests,
         UNCHANGED <<step, used, now>>, ended' \in [Cases -> Endings \cup {"no"}],
         req' \in [Requests -> RequestType],
         \A q \in Requests \ {r} : req'[q] = req[q],
         req'[r].spent = req[r].spent,
         FollowsAt(r)', CoveredAt(r)',
         \A k \in DOMAIN Caps, w \in 0..MaxTime :
           r \in Readers(k, w)' =>
             r \in Readers(k, w) \/ (r \in Between' /\ used[<<k, w>>] < Caps[k].max)
  PROVE  ContactInv'
<1>1. TypeOK'
  <2>1. peak' \in 0..Cardinality(Requests)
    BY PeakGrows
  <2>2. QED BY <2>1 DEF ContactInv, TypeOK, RequestType
<1>2. Follows'
  <2> SUFFICES ASSUME NEW q \in Requests PROVE FollowsAt(q)'
    BY DEF Follows
  <2>1. CASE q # r
    BY <2>1 DEF ContactInv, Follows, FollowsAt, At
  <2>2. QED BY <2>1
<1>3. Covered'
  <2> SUFFICES ASSUME NEW q \in Requests PROVE CoveredAt(q)'
    BY DEF Covered
  <2>1. CASE q # r
    <3>1. req'[q] = req[q] /\ CoveredAt(q)
      BY <2>1 DEF ContactInv, Covered
    <3>2. QED BY <3>1 DEF CoveredAt, Covers, At
  <2>2. QED BY <2>1
<1>4. UsedCounts'
  <2>1. \A k, w : Counted(k, w)' = Counted(k, w)
    BY DEF Counted
  <2>2. QED BY <2>1 DEF ContactInv, UsedCounts
<1>5. ReadersFit'
  BY ReadersStayBounded DEF ReadersFit
<1>6. QED BY <1>1, <1>2, <1>3, <1>4, <1>5 DEF ContactInv
(* A step that ends before it has contacted anybody has kept nothing.      *)
LEMMA StoppedKeeps ==
  ASSUME ContactInv, PeakFollows, NEW r \in Requests,
         UNCHANGED <<step, used, ended, now>>,
         NEW pc \in {"blocked", "failed"}, Stopped(r, pc), ~At(r, "done")
  PROVE  ContactInv'
<1>1. req \in [Requests -> RequestType]
  BY DEF ContactInv, TypeOK, RequestType
<1>2. /\ req'[r] = [Start EXCEPT !.pc = pc]
      /\ req' = [req EXCEPT ![r] = [Start EXCEPT !.pc = pc]]
      /\ \A q \in Requests \ {r} : req'[q] = req[q]
  BY <1>1 DEF Stopped
<1>3. /\ [Start EXCEPT !.pc = pc] \in RequestType
      /\ req'[r].pc = pc /\ req'[r].at = Never /\ req'[r].spent = Nowhere
  <2>1. Start \in RequestType /\ Start.at = Never /\ Start.spent = Nowhere
    BY ContactAssumption DEF Start, RequestType, Pcs, Never, NoWindow, Nowhere
  <2>2. pc \in Pcs
    BY DEF Pcs
  <2>3. [Start EXCEPT !.pc = pc] \in RequestType
    BY <2>1, <2>2 DEF RequestType
  <2>4. req'[r].pc = pc /\ req'[r].at = Start.at /\ req'[r].spent = Start.spent
    BY <1>2 DEF Start
  <2>5. QED BY <2>1, <2>3, <2>4
<1>4. req' \in [Requests -> RequestType]
  BY <1>1, <1>2, <1>3
<1>5. req[r].spent = Nowhere
  BY DEF ContactInv, Follows, FollowsAt
<1>6. Never' = Never /\ FollowsAt(r)' /\ CoveredAt(r)'
  BY <1>3 DEF FollowsAt, CoveredAt, At, Never
<1>7. \A k, w : r \notin Readers(k, w)'
  BY <1>3 DEF Readers, OnTheWay, At
<1>8. ended' \in [Cases -> Endings \cup {"no"}]
  BY DEF ContactInv, TypeOK
<1>9. QED BY <1>3, <1>4, <1>5, <1>2, <1>6, <1>7, <1>8, OneMoves

(* The budgets a step has read when it has read one more.                  *)
LEMMA ReadTypes ==
  ASSUME ContactInv, NEW r \in Requests, NEW k
  PROVE  /\ Read(r, k) \in [DOMAIN Caps -> NoWindow..MaxTime]
         /\ \A c \in DOMAIN Caps : Read(r, k)[c] = IF c = k THEN WindowOf(k, now) ELSE req[r].read[c]
         /\ k \in DOMAIN Caps => WindowOf(k, now) \in 0..MaxTime
<1>1. now \in 0..MaxTime /\ req[r].read \in [DOMAIN Caps -> NoWindow..MaxTime]
  BY DEF ContactInv, TypeOK
<1>2. k \in DOMAIN Caps => WindowOf(k, now) \in 0..MaxTime
  BY <1>1, WindowIsInRange
<1>3. QED BY <1>1, <1>2 DEF Read, NoWindow

LEMMA EvaluateKeeps ==
  ASSUME ContactInv, PeakFollows, NEW r \in Requests, Evaluate(r)
  PROVE  ContactInv'
<1> DEFINE turnsAway == Blocks(step[r]) \/ (step[r].action \in Contact /\ ~Room(step[r].channel))
<1>1. CASE turnsAway
  <2>1. Stopped(r, "blocked") /\ ~At(r, "done")
    BY <1>1 DEF Evaluate, At
  <2>2. QED BY <2>1, StoppedKeeps DEF Evaluate
<1>2. CASE ~turnsAway
  <2> DEFINE pc == IF step[r].action \in Contact THEN "global" ELSE "mint"
             channel == step[r].channel
             x == [req[r] EXCEPT !.late = OptedOut, !.read = Read(r, channel), !.pc = pc]
  <2>1. req[r] = Start
    BY DEF Evaluate, ContactInv, Follows, FollowsAt
  <2>2. req \in [Requests -> RequestType]
    BY DEF ContactInv, TypeOK, RequestType
  <2>3. req' = [req EXCEPT ![r] = x]
    BY <1>2, <2>2 DEF Evaluate
  <2>4. OptedOut \in BOOLEAN /\ Read(r, channel) \in [DOMAIN Caps -> NoWindow..MaxTime] /\ pc \in Pcs
    BY ReadTypes DEF OptedOut, Pcs
  <2>5. x \in RequestType
    BY <2>2, <2>4 DEF RequestType
  <2>6. /\ req' \in [Requests -> RequestType] /\ \A q \in Requests \ {r} : req'[q] = req[q]
        /\ req'[r] = x
    BY <2>2, <2>3, <2>5
  <2>7. /\ req'[r].pc = pc /\ req'[r].at = Never /\ req'[r].spent = Nowhere
        /\ req'[r].read = Read(r, channel) /\ req[r].spent = Nowhere
        /\ \A c \in DOMAIN Caps : req[r].read[c] = -1
    BY <2>1, <2>6 DEF Start, Nowhere, NoWindow
  <2>8. FollowsAt(r)' /\ CoveredAt(r)'
    <3>1. step' = step /\ now' = now /\ (step[r].action \in Contact => ~InQuietHours(now))
      BY <1>2 DEF Evaluate, Blocks
    <3>2. QED BY <2>7, <3>1 DEF FollowsAt, CoveredAt, At, Never
  <2>9. ASSUME NEW k \in DOMAIN Caps, NEW w \in 0..MaxTime, r \in Readers(k, w)'
        PROVE  r \in Between' /\ used[<<k, w>>] < Caps[k].max
    <3>1. step[r].action \in Contact /\ pc = "global" /\ Read(r, channel)[k] = w
      BY <2>7, <2>9 DEF Evaluate, Readers
    <3>2. k = channel /\ w = WindowOf(k, now)
      BY <2>7, <2>9, <3>1, ReadTypes
    <3>3. used[<<k, w>>] < Caps[k].max
      BY <1>2, <3>1, <3>2 DEF Room
    <3>4. r \in Between'
      BY <2>7, <3>1 DEF Between, Evaluate
    <3>5. QED BY <3>3, <3>4
  <2>10. ended' \in [Cases -> Endings \cup {"no"}]
    BY DEF ContactInv, TypeOK, Evaluate
  <2> HIDE DEF x, pc
  <2>11. QED BY <2>6, <2>7, <2>8, <2>9, <2>10, OneMoves DEF Evaluate
<1>3. QED BY <1>1, <1>2
LEMMA MintKeeps ==
  ASSUME ContactInv, PeakFollows, NEW r \in Requests, Mint(r)
  PROVE  ContactInv'
<1> DEFINE turnsAway == (At(r, "global") /\ ~Room(Every)) \/ NeedsApproval(step[r])
<1>1. CASE turnsAway
  <2>1. Stopped(r, "blocked") /\ ~At(r, "done")
    BY <1>1 DEF Mint, At
  <2>2. QED BY <2>1, StoppedKeeps DEF Mint
<1>2. CASE ~turnsAway
  <2> DEFINE x == [req[r] EXCEPT !.pc = "token", !.until = NotAfter, !.read = Read(r, Every)]
  <2>1. /\ req[r].pc \in {"global", "mint"} /\ req[r].spent = Nowhere /\ req[r].at = Never
        /\ req[r].pc = "mint" => step[r].action \notin Contact
    BY DEF Mint, ContactInv, Follows, FollowsAt, At
  <2>2. req \in [Requests -> RequestType] /\ now \in 0..MaxTime
    BY DEF ContactInv, TypeOK, RequestType
  <2>3. req' = [req EXCEPT ![r] = x]
    BY <1>2, <2>2 DEF Mint
  <2>4. Read(r, Every) \in [DOMAIN Caps -> NoWindow..MaxTime] /\ NotAfter \in 0..(MaxTime + Lifetime)
    BY <2>2, ReadTypes, ContactAssumption DEF NotAfter
  <2>5. x \in RequestType
    BY <2>2, <2>4 DEF RequestType, Pcs
  <2>6. /\ req' \in [Requests -> RequestType] /\ \A q \in Requests \ {r} : req'[q] = req[q]
        /\ req'[r] = x
    BY <2>2, <2>3, <2>5
  <2>7. /\ req'[r].pc = "token" /\ req'[r].at = Never /\ req'[r].spent = Nowhere
        /\ req'[r].read = Read(r, Every) /\ req'[r].until = now + Lifetime
    BY <2>1, <2>2, <2>6 DEF RequestType, NotAfter
  <2>8. FollowsAt(r)'
    BY <2>7 DEF FollowsAt, At, Never
  <2>9. CoveredAt(r)'
    <3>1. step' = step /\ now' = now
      BY DEF Mint
    <3>2. step[r].action \in Contact => ~InQuietHours(now)
      BY <2>1 DEF ContactInv, Covered, CoveredAt, At
    <3>3. now \in 0..now
      BY <2>2
    <3>4. QED BY <2>7, <3>1, <3>2, <3>3 DEF CoveredAt, At, Never
  <2>10. ASSUME NEW k \in DOMAIN Caps, NEW w \in 0..MaxTime, r \in Readers(k, w)'
         PROVE  r \in Readers(k, w) \/ (r \in Between' /\ used[<<k, w>>] < Caps[k].max)
    <3>1. /\ step[r].action \in Contact /\ k \in {step[r].channel, Every}
          /\ Read(r, Every)[k] = w
      BY <2>7, <2>10 DEF Mint, Readers
    <3>2. req[r].pc = "global"
      BY <2>1, <3>1
    <3>3. CASE k = Every
      <4>1. w = WindowOf(k, now) /\ Room(k)
        BY <1>2, <3>1, <3>2, <3>3, ReadTypes DEF At
      <4>2. used[<<k, w>>] < Caps[k].max
        BY <4>1 DEF Room
      <4>3. r \in Between'
        BY <2>7, <3>1 DEF Between, Mint
      <4>4. QED BY <4>2, <4>3
    <3>4. CASE k # Every
      <4>1. req[r].read[k] = w
        BY <3>1, <3>4, ReadTypes
      <4>2. QED BY <3>1, <3>2, <4>1 DEF Readers, OnTheWay
    <3>5. QED BY <3>3, <3>4
  <2>11. ended' \in [Cases -> Endings \cup {"no"}]
    BY DEF ContactInv, TypeOK, Mint
  <2> HIDE DEF x
  <2>12. QED BY <2>1, <2>6, <2>7, <2>8, <2>9, <2>10, <2>11, OneMoves DEF Mint
<1>3. QED BY <1>1, <1>2

LEMMA AdmitKeeps ==
  ASSUME ContactInv, PeakFollows, NEW r \in Requests, Admit(r)
  PROVE  ContactInv'
<1>1. CASE ~Admits(r)
  <2>1. Stopped(r, "failed") /\ ~At(r, "done")
    BY <1>1 DEF Admit, At
  <2>2. QED BY <2>1, StoppedKeeps DEF Admit
<1>2. CASE Admits(r)
  <2> DEFINE x == [req[r] EXCEPT !.pc = "calling", !.until = 0]
  <2>1. req[r].pc = "token" /\ req[r].spent = Nowhere /\ req[r].at = Never
    BY DEF Admit, ContactInv, Follows, FollowsAt, At
  <2>2. req \in [Requests -> RequestType] /\ now \in 0..MaxTime
    BY DEF ContactInv, TypeOK, RequestType
  <2>3. x \in RequestType
    <3>1. "calling" \in Pcs /\ 0 \in 0..(MaxTime + Lifetime)
      BY ContactAssumption DEF Pcs
    <3>2. QED BY <2>2, <3>1 DEF RequestType
  <2>4. /\ req' \in [Requests -> RequestType] /\ \A q \in Requests \ {r} : req'[q] = req[q]
        /\ req'[r] = x
    BY <1>2, <2>2, <2>3 DEF Admit
  <2>5. /\ req'[r].pc = "calling" /\ req'[r].at = Never /\ req'[r].spent = Nowhere
        /\ req'[r].read = req[r].read
    BY <2>1, <2>2, <2>4 DEF RequestType
  <2>6. FollowsAt(r)'
    BY <2>5 DEF FollowsAt, At, Never
  <2>7. CoveredAt(r)'
    <3>1. step' = step /\ now' = now
      BY DEF Admit
    <3>2. step[r].action \in Contact => Covers(now)
      <4> SUFFICES ASSUME step[r].action \in Contact PROVE Covers(now)
        OBVIOUS
      <4>1. PICK b \in 0..now : req[r].until = b + Lifetime /\ ~InQuietHours(b)
        BY <2>1 DEF ContactInv, Covered, CoveredAt, At
      <4>2. now - b <= Lifetime
        BY <1>2, <2>2, <4>1, ContactAssumption DEF Admits
      <4>3. QED BY <4>1, <4>2 DEF Covers
    <3>3. QED BY <2>5, <3>1, <3>2 DEF CoveredAt, Covers, At, Never
  <2>8. \A k, w : r \in Readers(k, w)' => r \in Readers(k, w)
    BY <2>1, <2>5 DEF Admit, Readers, OnTheWay
  <2>9. ended' \in [Cases -> Endings \cup {"no"}]
    BY DEF ContactInv, TypeOK, Admit
  <2> HIDE DEF x
  <2>10. QED BY <2>1, <2>4, <2>5, <2>6, <2>7, <2>8, <2>9, OneMoves DEF Admit
<1>3. QED BY <1>1, <1>2

LEMMA RefuseKeeps ==
  ASSUME ContactInv, PeakFollows, NEW r \in Requests, Refuse(r)
  PROVE  ContactInv'
BY StoppedKeeps DEF Refuse, At

LEMMA CallKeeps ==
  ASSUME ContactInv, PeakFollows, NEW r \in Requests, Call(r)
  PROVE  ContactInv'
<1>1. PICK pc \in {"made", "failed"} : req' = [req EXCEPT ![r].pc = pc, ![r].at = now]
  BY DEF Call
<1> DEFINE x == [req[r] EXCEPT !.pc = pc, !.at = now]
<1>2. req[r].pc = "calling" /\ req[r].spent = Nowhere
  BY DEF Call, ContactInv, Follows, FollowsAt, At
<1>3. req \in [Requests -> RequestType] /\ now \in 0..MaxTime
  BY DEF ContactInv, TypeOK, RequestType
<1>4. pc \in Pcs /\ now \in 0..Never
  BY <1>3, ContactAssumption DEF Pcs, Never
<1>5. x \in RequestType
  BY <1>3, <1>4 DEF RequestType
<1>6. /\ req' \in [Requests -> RequestType] /\ \A q \in Requests \ {r} : req'[q] = req[q]
      /\ req'[r] = x
  BY <1>1, <1>3, <1>5
<1>7. /\ req'[r].pc = pc /\ req'[r].at = now /\ req'[r].spent = Nowhere
      /\ req'[r].read = req[r].read
  BY <1>2, <1>3, <1>6 DEF RequestType
<1>8. FollowsAt(r)'
  BY <1>7 DEF FollowsAt, At
<1>9. CoveredAt(r)'
  <2>1. step' = step /\ (step[r].action \in Contact => Covers(now))
    BY <1>2 DEF Call, ContactInv, Covered, CoveredAt, At
  <2>2. QED BY <1>7, <2>1 DEF CoveredAt, Covers, At
<1>10. \A k, w : r \in Readers(k, w)' => r \in Readers(k, w)
  BY <1>2, <1>7 DEF Call, Readers, OnTheWay, At
<1>11. ended' \in [Cases -> Endings \cup {"no"}]
  BY DEF ContactInv, TypeOK, Call
<1> HIDE DEF x
<1>12. QED BY <1>2, <1>6, <1>7, <1>8, <1>9, <1>10, <1>11, OneMoves DEF Call
LEMMA NoteKeeps ==
  ASSUME ContactInv, PeakFollows, NEW r \in Requests, Note(r)
  PROVE  ContactInv'
<1> DEFINE pc == IF ~Live(r) THEN "failed" ELSE IF step[r].action \in Contact THEN "told" ELSE "done"
           x == [req[r] EXCEPT !.pc = pc]
<1>1. req[r].pc = "made" /\ req[r].spent = Nowhere
  BY DEF Note, ContactInv, Follows, FollowsAt, At
<1>2. req \in [Requests -> RequestType]
  BY DEF ContactInv, TypeOK, RequestType
<1>3. pc \in {"failed", "told", "done"} /\ (pc = "done" => step[r].action \notin Contact)
  OBVIOUS
<1>4. req' = [req EXCEPT ![r].pc = pc]
  BY DEF Note, GoTo
<1> HIDE DEF pc
<1>5. pc \in Pcs
  BY <1>3 DEF Pcs
<1>6. x \in RequestType
  BY <1>2, <1>5 DEF RequestType
<1>7. /\ req' \in [Requests -> RequestType] /\ \A q \in Requests \ {r} : req'[q] = req[q]
      /\ req'[r] = x
  BY <1>2, <1>4, <1>6
<1>8. /\ req'[r].pc = pc /\ req'[r].at = req[r].at /\ req'[r].spent = Nowhere
      /\ req'[r].read = req[r].read
  BY <1>1, <1>2, <1>7 DEF RequestType
<1>9. FollowsAt(r)'
  BY <1>3, <1>8 DEF FollowsAt, At
<1>10. CoveredAt(r)'
  <2>1. step' = step /\ (step[r].action \in Contact /\ req[r].at # Never => Covers(req[r].at))
    BY DEF Note, ContactInv, Covered, CoveredAt
  <2>2. QED BY <1>3, <1>8, <2>1 DEF CoveredAt, Covers, At, Never
<1>11. \A k, w : r \in Readers(k, w)' => r \in Readers(k, w)
  BY <1>1, <1>3, <1>8 DEF Note, Readers, OnTheWay, At
<1>12. ended' \in [Cases -> Endings \cup {"no"}]
  BY DEF ContactInv, TypeOK, Note
<1> HIDE DEF x
<1>13. QED BY <1>1, <1>7, <1>8, <1>9, <1>10, <1>11, <1>12, OneMoves DEF Note

(* The two counters and the histories of what was spent move together.     *)
LEMMA ConsumeKeeps ==
  ASSUME ContactInv, PeakFollows, NEW r \in Requests, Consume(r)
  PROVE  ContactInv'
<1> DEFINE caps == CapsFor(step[r].channel)
           spent == [k \in DOMAIN Caps |-> IF k \in caps THEN WindowOf(k, now) ELSE NoWindow]
           x == [req[r] EXCEPT !.pc = "done", !.spent = spent]
<1>1. req[r].pc = "told" /\ req[r].spent = Nowhere
  BY DEF Consume, ContactInv, Follows, FollowsAt, At
<1>2. req \in [Requests -> RequestType] /\ now \in 0..MaxTime
  BY DEF ContactInv, TypeOK, RequestType
<1>3. \A k \in DOMAIN Caps : WindowOf(k, now) \in 0..MaxTime
  BY <1>2, WindowIsInRange
<1>4. spent \in [DOMAIN Caps -> NoWindow..MaxTime]
  BY <1>3, ContactAssumption DEF NoWindow
<1>5. x \in RequestType
  BY <1>2, <1>4 DEF RequestType, Pcs
<1>6. /\ req' \in [Requests -> RequestType] /\ \A q \in Requests \ {r} : req'[q] = req[q]
      /\ req'[r] = x
  BY <1>2, <1>5 DEF Consume
<1>7. /\ req'[r].pc = "done" /\ req'[r].at = req[r].at /\ req'[r].spent = spent
      /\ req'[r].read = req[r].read
  BY <1>2, <1>6 DEF RequestType
<1>8. DOMAIN used = (DOMAIN Caps) \X (0..MaxTime)
  BY DEF ContactInv, TypeOK
<1>9. used' = [kw \in DOMAIN used |->
                 IF kw[1] \in caps /\ kw[2] = WindowOf(kw[1], now) THEN used[kw] + 1 ELSE used[kw]]
  BY DEF Consume
<1>10. UNCHANGED <<step, ended, now>>
  BY DEF Consume
<1> HIDE DEF x, caps
<1>11. ASSUME NEW k \in DOMAIN Caps, NEW w \in 0..MaxTime
       PROVE  (used[<<k, w>>] = Cardinality(Counted(k, w)))'
  <2>1. used'[<<k, w>>] = IF k \in caps /\ w = WindowOf(k, now) THEN used[<<k, w>>] + 1 ELSE used[<<k, w>>]
    BY <1>8, <1>9
  <2>2. used[<<k, w>>] = Cardinality(Counted(k, w)) /\ IsFiniteSet(Counted(k, w))
    BY SubsetOfRequests DEF ContactInv, UsedCounts, Counted
  <2>3. r \notin Counted(k, w)
    BY <1>1 DEF Counted, Nowhere, NoWindow
  <2>4. CASE k \in caps /\ w = WindowOf(k, now)
    <3>1. Counted(k, w)' = Counted(k, w) \cup {r}
      BY <1>6, <1>7, <2>4 DEF Counted
    <3>2. Cardinality(Counted(k, w) \cup {r}) = Cardinality(Counted(k, w)) + 1
      BY <2>2, <2>3, FS_AddElement
    <3>3. QED BY <2>1, <2>2, <2>4, <3>1, <3>2
  <2>5. CASE ~(k \in caps /\ w = WindowOf(k, now))
    <3>1. spent[k] # w
      BY <2>5 DEF NoWindow
    <3>2. Counted(k, w)' = Counted(k, w)
      BY <1>6, <1>7, <2>3, <3>1 DEF Counted
    <3>3. QED BY <2>1, <2>2, <2>5, <3>2
  <2>6. QED BY <2>4, <2>5
<1>12. TypeOK'
  <2>1. used' \in [(DOMAIN Caps) \X (0..MaxTime) -> 0..Cardinality(Requests)]
    <3>1. ASSUME NEW k \in DOMAIN Caps, NEW w \in 0..MaxTime
          PROVE  used'[<<k, w>>] \in 0..Cardinality(Requests)
      <4>1. Counted(k, w)' \subseteq Requests
        BY DEF Counted
      <4>2. QED BY <4>1, <1>11, SubsetOfRequests
    <3>2. ASSUME NEW kw \in (DOMAIN Caps) \X (0..MaxTime)
          PROVE  used'[kw] \in 0..Cardinality(Requests)
      <4>1. PICK k \in DOMAIN Caps, w \in 0..MaxTime : kw = <<k, w>>
        OBVIOUS
      <4>2. QED BY <3>1, <4>1
    <3>3. used' = [kw \in (DOMAIN Caps) \X (0..MaxTime) |-> used'[kw]]
      BY <1>8, <1>9
    <3>4. QED BY <3>2, <3>3
  <2>2. peak' \in 0..Cardinality(Requests)
    BY PeakGrows
  <2>3. QED BY <1>6, <1>10, <2>1, <2>2 DEF ContactInv, TypeOK, RequestType
<1>13. Follows'
  <2> SUFFICES ASSUME NEW q \in Requests PROVE FollowsAt(q)'
    BY DEF Follows
  <2>1. CASE q # r
    BY <1>6, <1>10, <2>1 DEF ContactInv, Follows, FollowsAt, At
  <2>2. CASE q = r
    BY <1>7, <2>2 DEF FollowsAt, At
  <2>3. QED BY <2>1, <2>2
<1>14. UsedCounts'
  BY <1>11 DEF UsedCounts
<1>15. ReadersFit'
  <2> SUFFICES ASSUME NEW k \in DOMAIN Caps, NEW w \in 0..MaxTime
               PROVE  (Cardinality(Readers(k, w)) <= Caps[k].max + Max({peak - 1, 0}))'
    BY DEF ReadersFit
  <2>1. r \in Readers(k, w)' => r \in Readers(k, w)
    BY <1>1, <1>7, <1>10 DEF Readers, OnTheWay
  <2>2. QED BY <1>6, <1>10, <2>1, ReadersStayBounded
<1>16. Covered'
  <2> SUFFICES ASSUME NEW q \in Requests PROVE CoveredAt(q)'
    BY DEF Covered
  <2>1. CASE q # r
    <3>1. req'[q] = req[q] /\ CoveredAt(q)
      BY <1>6, <2>1 DEF ContactInv, Covered
    <3>2. QED BY <1>10, <3>1 DEF CoveredAt, Covers, At
  <2>2. CASE q = r
    <3>1. step[r].action \in Contact /\ req[r].at # Never => Covers(req[r].at)
      BY DEF ContactInv, Covered, CoveredAt
    <3>2. QED BY <1>7, <1>10, <2>2, <3>1 DEF CoveredAt, Covers, At, Never
  <2>3. QED BY <2>1, <2>2
<1>17. QED BY <1>12, <1>13, <1>14, <1>15, <1>16 DEF ContactInv
LEMMA ReadersKept ==
  ASSUME ContactInv, PeakFollows, UNCHANGED <<step, req>>
  PROVE  ReadersFit'
<1> SUFFICES ASSUME NEW k \in DOMAIN Caps, NEW w \in 0..MaxTime
             PROVE  (Cardinality(Readers(k, w)) <= Caps[k].max + Max({peak - 1, 0}))'
  BY DEF ReadersFit
<1>1. Readers(k, w)' = Readers(k, w)
  BY DEF Readers, At
<1>2. Cardinality(Readers(k, w)) \in Nat /\ Caps[k].max \in Nat
  BY SubsetOfRequests, ContactAssumption DEF Readers
<1>3. Cardinality(Readers(k, w)) <= Caps[k].max + Max({peak - 1, 0})
  BY DEF ContactInv, ReadersFit
<1>4. peak \in Nat /\ peak' \in Nat /\ peak <= peak'
  BY PeakGrows, SubsetOfRequests DEF ContactInv, TypeOK
<1>5. /\ Max({peak - 1, 0}) \in Nat /\ Max({peak' - 1, 0}) \in Nat
      /\ Max({peak - 1, 0}) <= Max({peak' - 1, 0})
  BY <1>4, AllowanceGrows
<1>6. QED BY <1>1, <1>2, <1>3, <1>5

LEMMA EndKeeps ==
  ASSUME ContactInv, PeakFollows, NEW c \in Cases, End(c)
  PROVE  ContactInv'
<1>1. UNCHANGED <<step, req, used, now>> /\ ended' \in [Cases -> Endings \cup {"no"}]
  BY DEF End, ContactInv, TypeOK
<1>2. req \in [Requests -> RequestType] /\ peak' \in 0..Cardinality(Requests)
  BY PeakGrows DEF ContactInv, TypeOK, RequestType
<1>3. TypeOK'
  BY <1>1, <1>2 DEF ContactInv, TypeOK
<1>4. Follows' /\ UsedCounts' /\ Covered'
  BY <1>1 DEF ContactInv, Follows, FollowsAt, UsedCounts, Counted, Covered, CoveredAt, Covers, At
<1>5. ReadersFit'
  BY <1>1, ReadersKept
<1>6. QED BY <1>3, <1>4, <1>5 DEF ContactInv

(* Time passes where nobody stands between two points of one moment.       *)
LEMMA PassKeeps ==
  ASSUME ContactInv, PeakFollows, Pass
  PROVE  ContactInv'
<1>1. /\ UNCHANGED <<step, req, used, ended>> /\ now' = now + 1
      /\ now \in 0..MaxTime /\ now < MaxTime /\ now' \in 0..MaxTime
  BY ContactAssumption DEF Pass, ContactInv, TypeOK
<1>2. peak' \in 0..Cardinality(Requests)
  BY PeakGrows
<1>3. TypeOK'
  BY <1>1, <1>2 DEF ContactInv, TypeOK
<1>4. Follows' /\ UsedCounts'
  BY <1>1 DEF ContactInv, Follows, FollowsAt, UsedCounts, Counted, At
<1>5. ReadersFit'
  BY <1>1, ReadersKept
<1>6. Covered'
  <2> SUFFICES ASSUME NEW r \in Requests PROVE CoveredAt(r)'
    BY DEF Covered
  <2>1. ~At(r, "global") /\ ~At(r, "calling")
    BY DEF Pass, At
  <2>2. CoveredAt(r) /\ 0..now \subseteq 0..now'
    BY <1>1 DEF ContactInv, Covered
  <2>3. QED BY <1>1, <2>1, <2>2 DEF CoveredAt, Covers, At
<1>7. QED BY <1>3, <1>4, <1>5, <1>6 DEF ContactInv

LEMMA ContactStepIsInductive == ContactInv /\ [Next]_vars => ContactInv'
<1> SUFFICES ASSUME ContactInv, [Next]_vars PROVE ContactInv'
  OBVIOUS
<1>1. CASE Next
  <2>1. PeakFollows
    BY <1>1 DEF Next, PeakFollows
  <2>2. CASE \E r \in Requests : Run(r)
    BY <2>1, <2>2, EvaluateKeeps, MintKeeps, AdmitKeeps, RefuseKeeps, CallKeeps, NoteKeeps,
       ConsumeKeeps DEF Run
  <2>3. CASE \E c \in Cases : End(c)
    BY <2>1, <2>3, EndKeeps
  <2>4. CASE Pass
    BY <2>1, <2>4, PassKeeps
  <2>5. QED BY <1>1, <2>2, <2>3, <2>4 DEF Next
<1>2. CASE UNCHANGED vars
  <2>1. UNCHANGED <<step, req, used, ended, now, peak>>
    BY <1>2 DEF vars
  <2>2. TypeOK' /\ UsedCounts'
    BY <2>1 DEF ContactInv, TypeOK, UsedCounts, Counted
  <2>3. Follows' /\ Covered'
    BY <2>1 DEF ContactInv, Follows, FollowsAt, Covered, CoveredAt, Covers, At
  <2>4. ReadersFit'
    BY <2>1 DEF ContactInv, ReadersFit, Readers, At
  <2>5. QED BY <2>2, <2>3, <2>4 DEF ContactInv
<1>3. QED BY <1>1, <1>2

(* Every reachable state of the contact policy satisfies the strengthening.*)
THEOREM ContactInvariance == Spec => []ContactInv
<1>1. QED BY ContactInitIsInductive, ContactStepIsInductive, PTL DEF Spec

(* The types of the steps, the budgets, the endings and the clock.         *)
THEOREM ContactTypesCorrect == Spec => []TypeOK
BY ContactInvariance, PTL DEF ContactInv

(* A cap holds in each of its windows, but for the strays and for those    *)
(* that were authorized beside each other.                                 *)
THEOREM CapsBound == Spec => []CapsBoundContacts
<1>1. ContactInv => CapsBoundContacts
  <2> SUFFICES ASSUME ContactInv, NEW k \in DOMAIN Caps, NEW w \in 0..MaxTime
               PROVE  Cardinality(In(k, w)) <= Caps[k].max + Cardinality(Strays(k, w)) + Max({peak - 1, 0})
    BY DEF CapsBoundContacts
  <2>1. In(k, w) \subseteq Readers(k, w) \cup Strays(k, w)
    <3> SUFFICES ASSUME NEW r \in In(k, w), r \notin Strays(k, w) PROVE r \in Readers(k, w)
      OBVIOUS
    <3>1. /\ r \in Requests /\ step[r].action \in Contact /\ k \in {step[r].channel, Every}
          /\ req[r].at # Never /\ WindowOf(k, req[r].at) = w
      BY DEF In, Contacted
    <3>2. /\ req[r].read[k] = w
          /\ req[r].pc \in {"done", "failed"} => req[r].spent[k] = w
      BY <3>1 DEF Strays, Stray
    <3>3. req[r].pc \in {"made", "told", "done"}
      <4>1. req[r].pc \in {"made", "told", "done", "failed"}
        BY <3>1 DEF ContactInv, Follows, FollowsAt
      <4>2. req[r].pc # "failed"
        BY <3>1, <3>2 DEF ContactInv, Follows, FollowsAt, Nowhere, NoWindow, At
      <4>3. QED BY <4>1, <4>2
    <3>4. QED BY <3>1, <3>2, <3>3 DEF Readers, OnTheWay, At
  <2>2. /\ IsFiniteSet(Readers(k, w)) /\ IsFiniteSet(Strays(k, w))
        /\ Cardinality(Readers(k, w)) \in Nat /\ Cardinality(Strays(k, w)) \in Nat
        /\ Cardinality(In(k, w)) \in Nat
    BY SubsetOfRequests DEF Readers, Strays, In, Contacted
  <2>3. Cardinality(In(k, w)) <= Cardinality(Readers(k, w)) + Cardinality(Strays(k, w))
    BY <2>1, <2>2, UnionIsSmall
  <2>4. Cardinality(Readers(k, w)) <= Caps[k].max + Max({peak - 1, 0})
    BY DEF ContactInv, ReadersFit
  <2>5. Caps[k].max \in Nat /\ Max({peak - 1, 0}) \in Nat
    BY ContactAssumption, AllowanceIsNat
  <2>6. QED BY <2>2, <2>3, <2>4, <2>5
<1>2. QED BY <1>1, ContactInvariance, PTL

(* Nobody is contacted deeper into quiet hours than a token lives, however *)
(* long a step waits between its token and its call.                       *)
THEOREM QuietSlipBound == Spec => []QuietSlipIsBounded
<1>1. ContactInv => QuietSlipIsBounded
  <2> SUFFICES ASSUME ContactInv, NEW r \in Contacted(Every)
               PROVE  \E t \in 0..req[r].at : req[r].at - t <= Lifetime /\ ~Quiet(t)
    BY DEF QuietSlipIsBounded
  <2>1. r \in Requests /\ step[r].action \in Contact /\ req[r].at # Never /\ req[r].at \in Nat
    BY ContactAssumption DEF Contacted, ContactInv, TypeOK, Never
  <2>2. PICK t \in 0..req[r].at : req[r].at - t <= Lifetime /\ ~InQuietHours(t)
    BY <2>1 DEF ContactInv, Covered, CoveredAt, Covers
  <2>3. t \in Nat
    BY <2>1
  <2>4. QED BY <2>2, <2>3, QuietHoursAreOneStretch
<1>2. QED BY <1>1, ContactInvariance, PTL
-----------------------------------------------------------------------------
(* Stream.                                                                 *)

(* A page that reaches a row reaches every row before it.                  *)
LEMMA PageIsAPrefix ==
  ASSUME NEW v \in Views, StreamTypeOK,
         NEW last \in Rows(v), NEW i \in After(v), i <= last
  PROVE  i \in Rows(v)
<1> DEFINE To(n) == {j \in After(v) : j <= n}
<1>1. last \in Ids /\ i \in Ids /\ After(v) \subseteq Ids
  BY DEF Rows, After
<1>2. To(i) \subseteq To(last)
  BY <1>1 DEF Ids
<1>3. IsFiniteSet(To(last))
  <2>1. IsFiniteSet(Ids)
    BY StreamAssumption, FS_Interval DEF Ids
  <2>2. QED BY <2>1, <1>1, FS_Subset
<1>4. Cardinality(To(i)) <= Cardinality(To(last))
  BY <1>2, <1>3, FS_Subset
<1>5. Cardinality(To(last)) <= Limit
  BY DEF Rows
<1>6. Cardinality(To(i)) \in Nat /\ Cardinality(To(last)) \in Nat
  BY <1>2, <1>3, FS_Subset, FS_CardinalityType
<1>7. Cardinality(To(i)) <= Limit
  BY <1>4, <1>5, <1>6, StreamAssumption
<1>8. QED BY <1>7 DEF Rows

-----------------------------------------------------------------------------
(* The strengthening: what a view has shown lies up to its cursor.         *)
ShownIsBehind == \A v \in Views : \A i \in shown[v] : i <= cursor[v]

StreamInv ==
  /\ StreamTypeOK
  /\ ShownIsBehind
  /\ SkippedWereOvertaken

LEMMA StreamInitIsInductive == StreamInit => StreamInv
BY StreamAssumption DEF StreamInit, StreamInv, StreamTypeOK, ShownIsBehind, SkippedWereOvertaken, Skipped, Ids

LEMMA PollKeeps ==
  ASSUME StreamInv, NEW v \in Views, Poll(v)
  PROVE  StreamInv'
<1> USE DEF StreamInv
<1> PICK last \in Lasts(v) : cursor' = [cursor EXCEPT ![v] = last]
  BY DEF Poll
<1>1. last \in Lines(v) /\ \A i \in Lines(v) : i <= last
  BY DEF Lasts
<1>2. /\ Lines(v) \subseteq Ids
      /\ \A i \in Lines(v) : cursor[v] < i /\ entry[i] = "there" /\ i \in hasKind
  BY DEF Lines, Rows, After, StreamTypeOK, Ids
<1>3. StreamTypeOK'
  BY <1>1, <1>2 DEF Poll, StreamTypeOK, Ids
<1>4. ShownIsBehind'
  BY <1>1, <1>2 DEF Poll, ShownIsBehind, StreamTypeOK, Ids
<1>5. SkippedWereOvertaken'
  <2> SUFFICES ASSUME NEW u \in Views, NEW i \in Skipped(u)' PROVE i \in overtaken'[u]
    BY DEF SkippedWereOvertaken
  <2>1. i \in Ids /\ entry[i] = "there" /\ i \in hasKind /\ start[u] < i
    BY DEF Skipped, Poll
  <2>2. CASE u # v
    <3>1. i \in Skipped(u)
      BY <2>2 DEF Skipped, Poll, StreamTypeOK
    <3>2. QED BY <3>1 DEF SkippedWereOvertaken, Poll
  <2>3. CASE u = v
    <3>1. i <= last /\ i \notin shown[v] /\ i \notin Lines(v)
      BY <2>3 DEF Skipped, Poll, StreamTypeOK
    <3>2. CASE cursor[v] < i
      <4>1. i \in After(v)
        BY <2>1, <3>2 DEF After
      <4>2. i \in Rows(v)
        BY <4>1, <3>1, <1>1, PageIsAPrefix DEF Lines
      <4>3. QED BY <4>2, <3>1, <2>1 DEF Lines
    <3>3. CASE ~(cursor[v] < i)
      <4>1. i \in Skipped(v)
        BY <2>1, <2>3, <3>1, <3>3 DEF Skipped, StreamTypeOK, Ids
      <4>2. QED BY <4>1, <2>3 DEF SkippedWereOvertaken, Poll
    <3>4. QED BY <3>2, <3>3
  <2>4. QED BY <2>2, <2>3
<1>6. QED BY <1>3, <1>4, <1>5

LEMMA AppendKeeps == StreamInv /\ Append => StreamInv'
<1> SUFFICES ASSUME StreamInv, Append PROVE StreamInv'
  OBVIOUS
<1> USE DEF StreamInv
<1>1. StreamTypeOK'
  BY StreamAssumption DEF Append, StreamTypeOK, Ids
<1>2. ShownIsBehind'
  BY DEF Append, ShownIsBehind
<1>3. \A v \in Views : Skipped(v)' \subseteq Skipped(v)
  BY DEF Append, Skipped, StreamTypeOK, Ids
<1>4. SkippedWereOvertaken'
  BY <1>3 DEF SkippedWereOvertaken, Append
<1>5. QED BY <1>1, <1>2, <1>4

LEMMA CommitKeeps ==
  ASSUME StreamInv, NEW i \in Ids, Commit(i)
  PROVE  StreamInv'
<1> USE DEF StreamInv
<1>1. StreamTypeOK'
  BY DEF Commit, StreamTypeOK
<1>2. ShownIsBehind'
  BY DEF Commit, ShownIsBehind
<1>3. SkippedWereOvertaken'
  <2> SUFFICES ASSUME NEW v \in Views, NEW j \in Skipped(v)' PROVE j \in overtaken'[v]
    BY DEF SkippedWereOvertaken
  <2>1. CASE j = i
    BY <2>1 DEF Skipped, Commit
  <2>2. CASE j # i
    <3>1. j \in Skipped(v)
      BY <2>2 DEF Skipped, Commit, StreamTypeOK
    <3>2. QED BY <3>1 DEF SkippedWereOvertaken, Commit
  <2>3. QED BY <2>1, <2>2
<1>4. QED BY <1>1, <1>2, <1>3

LEMMA RollBackKeeps ==
  ASSUME StreamInv, NEW i \in Ids, RollBack(i)
  PROVE  StreamInv'
<1> USE DEF StreamInv
<1>1. StreamTypeOK'
  BY DEF RollBack, StreamTypeOK
<1>2. ShownIsBehind'
  BY DEF RollBack, ShownIsBehind
<1>3. \A v \in Views : Skipped(v)' \subseteq Skipped(v)
  BY DEF RollBack, Skipped, StreamTypeOK
<1>4. SkippedWereOvertaken'
  BY <1>3 DEF SkippedWereOvertaken, RollBack
<1>5. QED BY <1>1, <1>2, <1>4

LEMMA ReopenKeeps ==
  ASSUME StreamInv, NEW v \in Views, Reopen(v)
  PROVE  StreamInv'
<1> USE DEF StreamInv
<1> PICK n \in 0..cursor[v] :
      /\ cursor' = [cursor EXCEPT ![v] = n]
      /\ start' = [start EXCEPT ![v] = n]
      /\ shown' = [shown EXCEPT ![v] = {}]
      /\ overtaken' = [overtaken EXCEPT ![v] = {}]
  BY DEF Reopen
<1>1. n \in 0..MaxId
  BY StreamAssumption DEF StreamTypeOK
<1>2. StreamTypeOK'
  BY <1>1 DEF Reopen, StreamTypeOK
<1>3. ShownIsBehind'
  BY DEF ShownIsBehind, StreamTypeOK
<1>4. SkippedWereOvertaken'
  <2> SUFFICES ASSUME NEW u \in Views, NEW i \in Skipped(u)' PROVE i \in overtaken'[u]
    BY DEF SkippedWereOvertaken
  <2>1. u # v
    BY <1>1 DEF Skipped, StreamTypeOK, Ids
  <2>2. i \in Skipped(u)
    BY <2>1 DEF Skipped, Reopen, StreamTypeOK
  <2>3. QED BY <2>1, <2>2 DEF SkippedWereOvertaken, StreamTypeOK
<1>5. QED BY <1>2, <1>3, <1>4

LEMMA StreamStepIsInductive == StreamInv /\ [StreamNext]_streamVars => StreamInv'
<1> SUFFICES ASSUME StreamInv, [StreamNext]_streamVars PROVE StreamInv'
  OBVIOUS
<1>1. CASE Append
  BY <1>1, AppendKeeps
<1>2. CASE \E i \in Ids : Commit(i) \/ RollBack(i)
  BY <1>2, CommitKeeps, RollBackKeeps
<1>3. CASE \E v \in Views : Poll(v) \/ Reopen(v)
  BY <1>3, PollKeeps, ReopenKeeps
<1>4. CASE UNCHANGED streamVars
  BY <1>4 DEF streamVars, StreamInv, StreamTypeOK, ShownIsBehind, SkippedWereOvertaken, Skipped
<1>5. QED BY <1>1, <1>2, <1>3, <1>4 DEF StreamNext

(* StreamInvariance: every reachable state satisfies the strengthening.          *)
THEOREM StreamInvariance == StreamSpec => []StreamInv
<1>1. StreamInit => StreamInv
  BY StreamInitIsInductive
<1>2. StreamInv /\ [StreamNext]_streamVars => StreamInv'
  BY StreamStepIsInductive
<1>3. QED BY <1>1, <1>2, PTL DEF StreamSpec

(* The types of the ledger, the cursors and what the views have shown.     *)
THEOREM StreamTypesCorrect == StreamSpec => []StreamTypeOK
BY StreamInvariance, PTL DEF StreamInv

(* readSince and the cursor lose only what was committed behind the        *)
(* cursor, whatever the size of a page and wherever a view was opened.     *)
THEOREM OnlyTheOvertakenAreSkipped == StreamSpec => []SkippedWereOvertaken
BY StreamInvariance, PTL DEF StreamInv

(* What a poll shows comes after everything shown before.                  *)
LEMMA PollIsAhead ==
  ASSUME StreamInv, NEW v \in Views, NEW i \in Lines(v), NEW j \in shown[v]
  PROVE  j < i
<1>1. j \in Ids /\ i \in Ids /\ cursor[v] \in 0..MaxId
  BY DEF StreamInv, StreamTypeOK, Lines, Rows, After
<1>2. j <= cursor[v] /\ cursor[v] < i
  BY DEF StreamInv, ShownIsBehind, Lines, Rows, After
<1>3. QED BY <1>1, <1>2 DEF Ids

(* No line is shown twice, and none after a later one.                     *)
THEOREM ShownInOrder == StreamSpec => FollowsInOrder
<1>1. StreamInv => [\A v \in Views : Poll(v) => \A i \in Lines(v), j \in shown[v] : j < i]_streamVars
  BY PollIsAhead
<1>2. QED BY <1>1, StreamInvariance, PTL DEF FollowsInOrder
=============================================================================
