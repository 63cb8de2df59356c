------------------------------- MODULE MissionBag ------------------------------
(***************************************************************************)
(* What the mission store of an avatar promises: a bag of mission ids with *)
(* room for Capacity entries, that answers whether a mission was created   *)
(* and whether one is there.                                               *)
(***************************************************************************)
EXTENDS Naturals

CONSTANTS MissionID, Capacity

VARIABLES held,     \* how many missions of each id there are
          size,     \* and how many together
          answer    \* what the last Create or Find returned

bagvars == <<held, size, answer>>

BagInit == held = [id \in MissionID |-> 0] /\ size = 0 /\ answer = "nullptr"

Create(id) ==
  IF size < Capacity
    THEN held' = [held EXCEPT ![id] = @ + 1] /\ size' = size + 1 /\ answer' = "mission"
    ELSE answer' = "nullptr" /\ UNCHANGED <<held, size>>

Remove(id) ==
  /\ held[id] > 0
  /\ held' = [held EXCEPT ![id] = @ - 1]
  /\ size' = size - 1
  /\ UNCHANGED answer

Find(id) ==
  /\ answer' = IF held[id] > 0 THEN "mission" ELSE "nullptr"
  /\ UNCHANGED <<held, size>>

BagNext == \E id \in MissionID : Create(id) \/ Remove(id) \/ Find(id)

BagSpec == BagInit /\ [][BagNext]_bagvars
================================================================================
