----------------------------- MODULE MCPresence -----------------------------
(* Instances of Presence for TLC: two devices of a and one of its contact b,  *)
(* who opens the chat it shares with a and one of a with a third user.        *)
EXTENDS Presence, TLC

CONSTANTS ua, ub, uc, sa1, sa2, sb

OwnerOf == [s \in {sa1, sa2, sb} |-> IF s = sb THEN ub ELSE ua]
Friends == [u \in {ua, ub, uc} |-> IF u = ua THEN {ub, uc} ELSE {ua}]
ChatsOfA == {{ua, ub}, {ua, uc}}
DeviceSymmetry == Permutations({sa1, sa2})
=============================================================================
