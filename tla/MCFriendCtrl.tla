---------------------------- MODULE MCFriendCtrl ----------------------------
(***************************************************************************)
(* Instances of FriendCtrl for TLC.                                         *)
(***************************************************************************)
EXTENDS FriendCtrl, TLC

CONSTANTS alice, bob

MCUsers == {alice, bob}

\* alice has bob as a friend, bob does not have alice.
MCFriends == {<<alice, bob>>}

NoFriends == {}

WorkerSymmetry == Permutations(Workers)
=============================================================================
