---------------------------- MODULE MCMembership ----------------------------
(* Instances of Membership for TLC: two users, of whom the bridge makes    *)
(* offers to one; it is not the initiator of default senders.              *)
EXTENDS Membership, TLC

CONSTANTS a, b
TwoUsers == {a, b}
BackOnce == a :> 2 @@ b :> 1
OffersToB == {<<b, a>>}
=============================================================================
