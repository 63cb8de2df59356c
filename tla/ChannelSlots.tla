------------------------------ MODULE ChannelSlots ------------------------------
(***************************************************************************)
(* What a listener promises to the processes that use it, whatever data    *)
(* structures it keeps: a connection holds at most one slot, no slot has   *)
(* two holders, a slot can be had again after it was given back, and a     *)
(* connection is turned away only while every slot is held.                *)
(***************************************************************************)
EXTENDS Naturals

CONSTANTS Conn, MaxConns

VARIABLES slot,      \* per connection: the slot it holds, 0 for none
          refused    \* connections that were turned away

slotvars == <<slot, refused>>

Held == {slot[c] : c \in Conn}

SlotsInit == slot = [c \in Conn |-> 0] /\ refused = {}

Occupy(c) ==
  /\ slot[c] = 0
  /\ \E i \in (1 .. (MaxConns - 1)) \ Held : slot' = [slot EXCEPT ![c] = i]
  /\ UNCHANGED refused

TurnAway(c) ==
  /\ slot[c] = 0
  /\ 1 .. (MaxConns - 1) \subseteq Held
  /\ refused' = refused \cup {c}
  /\ UNCHANGED slot

Vacate(c) ==
  /\ slot[c] # 0
  /\ slot' = [slot EXCEPT ![c] = 0]
  /\ UNCHANGED refused

SlotsNext == \E c \in Conn : Occupy(c) \/ TurnAway(c) \/ Vacate(c)

SlotsSpec == SlotsInit /\ [][SlotsNext]_slotvars
================================================================================
