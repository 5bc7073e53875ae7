----------------------------- MODULE MCIncident -----------------------------
(***************************************************************************)
(* Incident for TLC: three cases on gateway A, one of them at issuer H,    *)
(* and a ramp of two stages, so that a slice may have some of them or all. *)
(*                                                                         *)
(* The readings, against a baseline of 54 in 60: no traffic, a good        *)
(* window, one whose z only passes as the second of two (27 tenths are     *)
(* 1.645 squared, the one-sided 5 percent level, 38 are 1.96 squared, half *)
(* of it), and a deep drop.                                                *)
(***************************************************************************)
EXTENDS Incident

Gateway == {<<"gateway", "A">>}
Issuer == Gateway \cup {<<"issuer", "H">>}

Reading(attempts, approvals) ==
  [attempts |-> attempts, approvals |-> approvals, baseAttempts |-> 60, baseApprovals |-> 54]
Quiet == Reading(0, 0)
Good == Reading(30, 27)
Edge == Reading(30, 23)
Deep == Reading(30, 12)

Both(g, h) == [s \in {Gateway, Issuer} |-> IF s = Gateway THEN g ELSE h]

MCSegments == {Gateway, Issuer}
MCCovers == [s \in MCSegments |-> IF s = Gateway THEN {1, 2, 3} ELSE {1}]
MCReadings == {Both(Good, Quiet), Both(Deep, Deep), Both(Edge, Deep)}
MCCritical == [km \in {<<1, 1>>, <<1, 2>>, <<2, 2>>} |-> IF km = <<1, 2>> THEN 38 ELSE 27]
MCRamp == <<70, 100>>
=============================================================================
