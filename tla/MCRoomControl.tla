--------------------------- MODULE MCRoomControl ----------------------------
(* An instance of RoomControl: a registered device whose grant ends, and a    *)
(* guest who asks for certificates, in one room.                              *)
EXTENDS RoomControl

CONSTANTS alice, bob, a1, b1, r1

MCUserOf == [d \in Device |-> IF d = b1 THEN bob ELSE alice]
MCFirstGrant == [d \in Device |-> IF d = a1 THEN 2 ELSE Never]
=============================================================================
