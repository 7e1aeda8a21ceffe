---------------------------- MODULE MCVoiceRooms ----------------------------
(* Instances of VoiceRooms for TLC. *)
EXTENDS VoiceRooms, TLC

CONSTANTS u1, u2, s1, s2, s3, c1, c2, v1

OneUserSockets == [s \in {s1, s2} |-> u1]
OneServer == [c \in {c1, c2} |-> v1]

(* Tabs of one user, and rooms of one server, are interchangeable. *)
TabAndRoomSymmetry == Permutations({s1, s2}) \cup Permutations({c1, c2})
=============================================================================
