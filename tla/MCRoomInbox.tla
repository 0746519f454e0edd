---------------------------- MODULE MCRoomInbox ----------------------------
(* Instances of RoomInbox for TLC: the ids of m1, m2, m3 may repeat and be  *)
(* missing, so that pages are rejected too.                                *)
EXTENDS RoomInbox
=============================================================================
