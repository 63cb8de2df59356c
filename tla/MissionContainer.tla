---------------------------- MODULE MissionContainer ---------------------------
(***************************************************************************)
(* The missions of an avatar (src/GameServer/MissionComponent.cpp) in the  *)
(* fixed array that holds them, Container_T of                             *)
(* src/Base/include/base_iterator.hpp.  A mission is its id: the store     *)
(* takes the same id more than once.  The assertion in Push is stated as a *)
(* property and does not stop the model: Push overwrites what it finds, as *)
(* it does when assertions are compiled out.                               *)
(***************************************************************************)
EXTENDS Naturals, FiniteSets

CONSTANTS MissionID, NULL, MAX_MISSION_COUNT

ASSUME NullAssumption == NULL \notin MissionID
ASSUME MaxAssumption == MAX_MISSION_COUNT \in Nat \ {0}

VARIABLES m_pItems,     \* the array of owning pointers
          m_nCurSize,
          answer        \* what the last CreateMission or GetMission returned

contvars == <<m_pItems, m_nCurSize, answer>>

Slot == 0 .. (MAX_MISSION_COUNT - 1)

ContainerTypeOK ==
  /\ m_pItems \in [Slot -> MissionID \cup {NULL}]
  /\ m_nCurSize \in 0 .. MAX_MISSION_COUNT
  /\ answer \in {"mission", "nullptr"}

ContainerInit ==
  /\ m_pItems = [i \in Slot |-> NULL]
  /\ m_nCurSize = 0
  /\ answer = "nullptr"

--------------------------------------------------------------------------------
Push(id) ==
  /\ m_pItems' = [m_pItems EXCEPT ![m_nCurSize] = id]
  /\ m_nCurSize' = m_nCurSize + 1

\* Mutant of RemoveAt: the last item is not moved into the gap.
RemoveAt_LastNotMoved(i) ==
  /\ m_pItems' = [m_pItems EXCEPT ![i] = NULL]
  /\ m_nCurSize' = m_nCurSize - 1

\* RemoveAt(i) with i below the size: the last item moves to slot i.  For the
\* last item itself that is a move onto itself, which leaves the pointer there
\* (the test that should catch it, line 68, is never true).
RemoveAt(i) ==
  LET last == m_nCurSize - 1
  IN  /\ m_pItems' = IF i = last THEN m_pItems
                     ELSE [m_pItems EXCEPT ![i] = m_pItems[last], ![last] = NULL]
      /\ m_nCurSize' = m_nCurSize - 1

\* Mutant of CreateMission: off by one at the limit.
CreateMission_NoLimit(id) == m_nCurSize <= MAX_MISSION_COUNT /\ Push(id) /\ answer' = "mission"

CreateMission(id) ==
  IF m_nCurSize < MAX_MISSION_COUNT
    THEN Push(id) /\ answer' = "mission"
    ELSE answer' = "nullptr" /\ UNCHANGED <<m_pItems, m_nCurSize>>

\* The iterator meets a mission id first at index i.
FirstAt(i, id) ==
  /\ i < m_nCurSize
  /\ m_pItems[i] = id
  /\ \A j \in Slot : j < i => m_pItems[j] # id

RemoveMission(id) == \E i \in Slot : FirstAt(i, id) /\ RemoveAt(i) /\ UNCHANGED answer

GetMission(id) ==
  /\ answer' = IF \E i \in Slot : FirstAt(i, id) THEN "mission" ELSE "nullptr"
  /\ UNCHANGED <<m_pItems, m_nCurSize>>

ContainerNext ==
  \E id \in MissionID : CreateMission(id) \/ RemoveMission(id) \/ GetMission(id)

ContainerSpec == ContainerInit /\ [][ContainerNext]_contvars

--------------------------------------------------------------------------------
\* The slot that the next Push fills is empty (assertion in Push,
\* base_iterator.hpp:59).
PushFindsEmptySlot == m_nCurSize < MAX_MISSION_COUNT => m_pItems[m_nCurSize] = NULL

\* The slots that hold a mission with this id.
SlotsOf(id) == {i \in Slot : i < m_nCurSize /\ m_pItems[i] = id}

Bag == INSTANCE MissionBag
         WITH Capacity <- MAX_MISSION_COUNT,
              held <- [id \in MissionID |-> Cardinality(SlotsOf(id))],
              size <- m_nCurSize

\* Whatever is left behind beyond the size, and however removals move the items: the
\* first Size() slots hold the missions created and not removed, a removal takes away
\* one mission of its id and no other, GetMission finds a mission exactly while one is
\* held, and a creation fails exactly while MAX_MISSION_COUNT of them are
\* (MissionComponent.cpp:19-60).
NoMissionLost == Bag!BagSpec
================================================================================
