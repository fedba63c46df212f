---------------------------- MODULE MCDoorStation ----------------------------
(* Two images, of different length, for TLC. *)
EXTENDS DoorStation

MCImages == {<<"a1", "a2">>, <<"b1", "b2", "b3">>}
=============================================================================
