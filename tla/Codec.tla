-------------------------------- MODULE Codec --------------------------------
(***************************************************************************)
(* What is promised of the sound hardware (codec, I2S port, SD card): it   *)
(* has at most one user at a time, and passes from one user to the next    *)
(* only after the first has given all of it back.  Offline the users are   *)
(* the player of the songs and the announcement (OfflineHandover), online  *)
(* they are the two kinds of player (Playback).                            *)
(***************************************************************************)
CONSTANT Owners

VARIABLE owner

Init == owner = "none"

Acquire(o) == owner = "none" /\ owner' = o
Release    == owner # "none" /\ owner' = "none"

Next == (\E o \in Owners : Acquire(o)) \/ Release

Spec == Init /\ [][Next]_owner
=============================================================================
