------------------------------ MODULE MCContainers -----------------------------
(***************************************************************************)
(* The two containers of src/Base, the fixed array with the missions and   *)
(* the ring buffer.  They share nothing: each is used while the other is   *)
(* as it was made.                                                         *)
(***************************************************************************)
EXTENDS MissionContainer, RingBuffer

MCInit == ContainerInit /\ Init

MCNext == \/ Init /\ ContainerNext /\ UNCHANGED vars
          \/ ContainerInit /\ Next /\ UNCHANGED contvars

MCSpec == MCInit /\ [][MCNext]_<<contvars, vars>>
================================================================================
