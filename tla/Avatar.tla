--------------------------------- MODULE Avatar ---------------------------------
(***************************************************************************)
(* The experience and the level of an avatar, and the components that are  *)
(* told of their changes: src/GameServer/AvatarComponent.h and .cpp over   *)
(* the subject of src/Base/include/observer.hpp, wired as in Avatar.cpp.   *)
(*                                                                         *)
(* A change is stored, then the observers are called one by one, in the    *)
(* order of their addresses; a call of SetExp that raises the level makes  *)
(* two changes.  The steps in between are kept apart because an observer   *)
(* runs in them and sees the avatar as it is then.  An observer is taken   *)
(* to keep a copy of what it is told; the one in the code that looks,      *)
(* MissionComponent::OnUpdate, looks at the level.                         *)
(***************************************************************************)
EXTENDS Integers

CONSTANTS Observer, LEVEL_UP_EXP, LEVEL_MAX,
          Argument   \* the values that callers pass

ASSUME AvatarAssumption == /\ LEVEL_UP_EXP \in Nat \ {0}
                           /\ LEVEL_MAX \in Nat \ {0}
                           /\ Argument \subseteq Int

VARIABLES m_nLevel, m_nExp,
          told,      \* per observer, the last level and experience it was told
          call,      \* the call of SetExp or SetLevel in progress, or the last one
          notifying, \* the change that is being notified: "none", "level" or "exp"
          untold     \* the observers not called yet

vars == <<m_nLevel, m_nExp, told, call, notifying, untold>>

Level == 0 .. (LEVEL_MAX - 1)

Worth(level, exp) == level * LEVEL_UP_EXP + exp

Call == [op : {"none", "SetExp", "SetLevel"}, arg : Int, level : Level, exp : Int]

\* Avatar::InitComponents.
Init ==
  /\ m_nLevel = 0 /\ m_nExp = 0
  /\ told = [o \in Observer |-> [level |-> 0, exp |-> 0]]
  /\ call = [op |-> "none", arg |-> 0, level |-> 0, exp |-> 0]
  /\ notifying = "none" /\ untold = {}

Begin(op, n) ==
  /\ notifying = "none"
  /\ call' = [op |-> op, arg |-> n, level |-> m_nLevel, exp |-> m_nExp]
  /\ UNCHANGED told

Notify(change) == notifying' = change /\ untold' = Observer

\* AvatarItem::SetLevel and AvatarItem::SetExp.
Item_SetLevel(level) == m_nLevel' = level /\ UNCHANGED m_nExp /\ Notify("level")
Item_SetExp(exp)     == m_nExp' = exp /\ UNCHANGED m_nLevel /\ Notify("exp")

\* Mutant of SetExp_LevelUp: the experience is stored before the level.
SetExp_LevelUp_ExpFirst(n) ==
  /\ n >= LEVEL_UP_EXP /\ m_nLevel + 1 < LEVEL_MAX
  /\ Begin("SetExp", n)
  /\ m_nLevel' = m_nLevel + 1 /\ m_nExp' = n - LEVEL_UP_EXP /\ Notify("exp")

\* AvatarComponent::SetExp that raises the level; SetExp_Rest is its other half.
SetExp_LevelUp(n) ==
  /\ n >= LEVEL_UP_EXP /\ m_nLevel + 1 < LEVEL_MAX
  /\ Begin("SetExp", n)
  /\ Item_SetLevel(m_nLevel + 1)

\* Mutant of SetExp_AtTop: at the top level the surplus is given up for the level.
SetExp_AtTop_NotCapped(n) ==
  /\ n >= LEVEL_UP_EXP /\ m_nLevel + 1 >= LEVEL_MAX
  /\ Begin("SetExp", n)
  /\ Item_SetExp(n - LEVEL_UP_EXP)

SetExp_AtTop(n) ==
  /\ n >= LEVEL_UP_EXP /\ m_nLevel + 1 >= LEVEL_MAX
  /\ Begin("SetExp", n)
  /\ Item_SetExp(LEVEL_UP_EXP)

SetExp_Below(n) ==
  /\ n < LEVEL_UP_EXP
  /\ Begin("SetExp", n)
  /\ Item_SetExp(n)

\* Mutant of SetLevel: nLevel > LEVEL_MAX is refused.
SetLevel_UpToMax(n) ==
  /\ n > 0 /\ n <= LEVEL_MAX
  /\ Begin("SetLevel", n)
  /\ Item_SetLevel(n)

\* AvatarComponent::SetLevel; other arguments are ignored.
SetLevel(n) ==
  /\ n > 0 /\ n < LEVEL_MAX
  /\ Begin("SetLevel", n)
  /\ Item_SetLevel(n)

\* Mutant of OnUpdate: an observer is told the value of the call.
OnUpdate_Argument(o) ==
  /\ o \in untold
  /\ untold' = untold \ {o}
  /\ told' = [told EXCEPT ![o] = IF notifying = "level"
                                   THEN [@ EXCEPT !.level = m_nLevel]
                                   ELSE [@ EXCEPT !.exp = call.arg]]
  /\ UNCHANGED <<m_nLevel, m_nExp, call, notifying>>

\* ISubject::Notify calls OnUpdate of an observer.
OnUpdate(o) ==
  /\ o \in untold
  /\ untold' = untold \ {o}
  /\ told' = [told EXCEPT ![o] = IF notifying = "level"
                                   THEN [@ EXCEPT !.level = m_nLevel]
                                   ELSE [@ EXCEPT !.exp = m_nExp]]
  /\ UNCHANGED <<m_nLevel, m_nExp, call, notifying>>

\* SetExp after the level was raised and notified.
SetExp_Rest ==
  /\ notifying = "level" /\ untold = {} /\ call.op = "SetExp"
  /\ Item_SetExp(call.arg - LEVEL_UP_EXP)
  /\ UNCHANGED <<told, call>>

Return ==
  /\ untold = {}
  /\ \/ notifying = "exp"
     \/ notifying = "level" /\ call.op = "SetLevel"
  /\ notifying' = "none"
  /\ UNCHANGED <<m_nLevel, m_nExp, told, call, untold>>

Next ==
  \/ \E n \in Argument :
       SetExp_LevelUp(n) \/ SetExp_AtTop(n) \/ SetExp_Below(n) \/ SetLevel(n)
  \/ \E o \in Observer : OnUpdate(o)
  \/ SetExp_Rest
  \/ Return

Spec == Init /\ [][Next]_vars

--------------------------------------------------------------------------------
\* The type invariant; the level stays below LEVEL_MAX.
AvatarTypeOK ==
  /\ m_nLevel \in Level /\ m_nExp \in Int
  /\ told \in [Observer -> [level : Level, exp : Int]]
  /\ call \in Call
  /\ notifying \in {"none", "level", "exp"}
  /\ untold \subseteq Observer

\* Between calls every observer has the level and the experience of the avatar
\* (each Item_Set* notifies, also in the branches that change the argument).
ObserversInStep ==
  notifying = "none" => \A o \in Observer : told[o] = [level |-> m_nLevel, exp |-> m_nExp]

\* SetExp takes nothing away: when it returns, the experience that was set is
\* there, in points or in a level, or the avatar is full (AvatarComponent.cpp:20-31).
NothingLost ==
  (notifying = "none" /\ call.op = "SetExp") =>
    \/ Worth(m_nLevel, m_nExp) = Worth(call.level, call.arg)
    \/ /\ m_nLevel = LEVEL_MAX - 1 /\ m_nExp = LEVEL_UP_EXP
       /\ call.arg > LEVEL_UP_EXP

\* While experience is added, no observer ever has a copy that is worth less than
\* the avatar was before, at no step of a change of two parts: the level is raised
\* first, the points are taken off after (AvatarComponent.cpp:26-30).
NoDipSeen ==
  (call.op = "SetExp" /\ call.arg >= call.exp /\ call.exp <= LEVEL_UP_EXP) =>
    \A o \in Observer : Worth(told[o].level, told[o].exp) >= Worth(call.level, call.exp)
================================================================================
