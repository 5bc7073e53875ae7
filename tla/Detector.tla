------------------------------ MODULE Detector ------------------------------
(***************************************************************************)
(* The segmented anomaly detector (packages/engine/src/detector.ts) and    *)
(* its statistics (packages/core/src/stats.ts) as operators over counts.   *)
(*                                                                         *)
(* A segment is the set of its <<dimension, value>> pairs and its own      *)
(* label.  An observation counts attempts and approvals in this window and *)
(* in the baseline.  The test compares z and not its p-value, which falls  *)
(* as z falls: z is a fraction under a square root, so its square is exact *)
(* in integers, here in tenths.                                            *)
(***************************************************************************)
EXTENDS Naturals, FiniteSets, FiniteSetsExt

CONSTANTS
  VolumeFloor,   \* attempts below which nothing is tested
  DwellWindows,  \* consecutive failing windows before an incident opens
  Critical       \* tenths of the square of z at the level alpha * k / m, for <<k, m>>

ASSUME DetectorAssumption ==
  /\ {VolumeFloor, DwellWindows} \subseteq Nat \ {0}
  /\ \A km \in DOMAIN Critical : Critical[km] \in Nat

IsAncestor(parent, child) == parent \subseteq child /\ parent # child

Rate(approvals, attempts) == (1000 * approvals) \div attempts
Drop(o) == Rate(o.baseApprovals, o.baseAttempts) - Rate(o.approvals, o.attempts)

(* twoProportionZTest: z < 0, and z * z in tenths, with the pooled rate.   *)
IsDrop(o) ==
  /\ o.attempts > 0 /\ o.baseAttempts > 0
  /\ o.approvals * o.baseAttempts < o.baseApprovals * o.attempts

ZSquared(o) ==
  LET all   == o.attempts + o.baseAttempts
      paid  == o.approvals + o.baseApprovals
      apart == o.baseApprovals * o.attempts - o.approvals * o.baseAttempts
  IN  (apart * apart * all)
        \div ((o.attempts * o.baseAttempts * paid * (all - paid)) \div 10)

(* benjaminiHochberg: the k-th smallest p-value of m passes at alpha k / m,*)
(* and so does everything before the last that passes.                     *)
Significant(drops) ==
  LET AtLeast(o) == {q \in drops : ZSquared(q) >= ZSquared(o)}
      passing == {o \in drops :
                    ZSquared(o) >= Critical[<<Cardinality(AtLeast(o)), Cardinality(drops)>>]}
  IN  {o \in drops : \E q \in passing : ZSquared(o) >= ZSquared(q)}

Tested(obs) == {o \in obs : o.attempts >= VolumeFloor}
Failing(obs) == Significant({o \in Tested(obs) : IsDrop(o)})

(* The hysteresis: what was tested and did not fail loses its count; what  *)
(* was not tested keeps it.  The counter is only ever compared with        *)
(* dwellWindows, so it stops there.                                        *)
DwellAfter(dwell, obs) ==
  [s \in DOMAIN dwell |->
     CASE \E o \in Failing(obs) : o.segment = s -> Min({dwell[s] + 1, DwellWindows})
       [] \A o \in Tested(obs) : o.segment # s  -> dwell[s]
       [] OTHER                                 -> 0]

(* Child suppression: whichever of parent and child explains the drop,     *)
(* with PARENT_EXPLAINS_RATIO as 9/10.                                     *)
CandidatesParentFirst(dwell, obs) ==
  LET dwelled == {o \in Failing(obs) : dwell[o.segment] >= DwellWindows}
  IN  {c \in dwelled :
         \A other \in dwelled :
           ~(IsAncestor(other.segment, c.segment) /\ 10 * Drop(other) >= 9 * Drop(c))}

Candidates(dwell, obs) ==
  LET dwelled == {o \in Failing(obs) : dwell[o.segment] >= DwellWindows}
  IN  {c \in dwelled :
         \A other \in dwelled :
           /\ ~(IsAncestor(other.segment, c.segment) /\ 10 * Drop(other) >= 9 * Drop(c))
           /\ ~(IsAncestor(c.segment, other.segment) /\ 10 * Drop(c) < 9 * Drop(other))}
=============================================================================
