---------------------------- MODULE MCForwarding ----------------------------
(* Instances of Forwarding for TLC: a target that answers, and one that    *)
(* the bridge makes offers to.                                             *)
EXTENDS Forwarding, TLC

CONSTANTS a, b, audio, video
TwoTargets == {a, b}
OneInitiator == {b}
BothKinds == {audio, video}
OneKind == {audio}
OneTarget == {a}

Come == {x \in Tracks : track[x].pump # "none"}

(* Tracks differ in their numbers only, they come in the order of these.   *)
InOrder == \A x \in Come, y \in Tracks : y < x => y \in Come

(* Two peer connections of targets, or a second track of the sender.       *)
TwoConnectsOrTracks == InOrder /\ (connects <= 1 \/ Cardinality(Come) <= 1)
=============================================================================
