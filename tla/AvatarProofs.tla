------------------------------ MODULE AvatarProofs ------------------------------
(***************************************************************************)
(* Proofs for module Avatar, for any observers, any LEVEL_UP_EXP and       *)
(* LEVEL_MAX, and any sequence of calls with integer arguments.            *)
(*                                                                         *)
(* The properties speak of the ends of calls; the invariant describes the  *)
(* steps inside one: which observers have been told of which part of the   *)
(* change, and how far the stored level and experience are from where the  *)
(* call began.                                                             *)
(***************************************************************************)
EXTENDS Avatar, TLAPS

\* An observer that was told of the pending change, or has none to be told of,
\* has the value of the avatar.
Told ==
  \A o \in Observer :
    /\ (notifying # "level" \/ o \notin untold) => told[o].level = m_nLevel
    /\ (notifying # "exp" \/ o \notin untold) => told[o].exp = m_nExp

\* One that was not has the value the avatar had when SetExp was called.
NotTold ==
  call.op = "SetExp" =>
    \A o \in untold :
      /\ notifying = "level" => told[o].level = call.level
      /\ notifying = "exp" => told[o].exp = call.exp

\* SetExp between the change of the level and that of the experience.
HalfWay ==
  (notifying = "level" /\ call.op = "SetExp") =>
    m_nLevel = call.level + 1 /\ m_nExp = call.exp /\ call.arg >= LEVEL_UP_EXP

\* SetExp when both are done.
Done ==
  (notifying # "level" /\ call.op = "SetExp") =>
    \/ m_nLevel = call.level /\ m_nExp = call.arg
    \/ m_nLevel = call.level + 1 /\ m_nExp = call.arg - LEVEL_UP_EXP
    \/ /\ m_nLevel = LEVEL_MAX - 1 /\ m_nLevel = call.level
       /\ m_nExp = LEVEL_UP_EXP /\ call.arg >= LEVEL_UP_EXP

Quiet == notifying = "none" => untold = {}

Inv == AvatarTypeOK /\ Told /\ NotTold /\ HalfWay /\ Done /\ Quiet

--------------------------------------------------------------------------------
\* A level is worth LEVEL_UP_EXP points.
LEMMA WorthOfLevels ==
  ASSUME NEW a \in Nat, NEW u \in Nat
  PROVE  /\ (a + 1) * u = a * u + u
         /\ a * u \in Nat
BY SMT

LEMMA InitInv == Init => Inv
BY AvatarAssumption DEF Init, Inv, AvatarTypeOK, Level, Call, Told, NotTold, HalfWay, Done, Quiet

--------------------------------------------------------------------------------
(* One lemma per group of actions. *)

\* The calls, all with every observer still to be told.
LEMMA SetExpInv ==
  ASSUME Inv, NEW n \in Argument,
         SetExp_LevelUp(n) \/ SetExp_AtTop(n) \/ SetExp_Below(n)
  PROVE  Inv'
<1> USE AvatarAssumption DEF Inv
<1>1. AvatarTypeOK'
  BY DEF AvatarTypeOK, Level, Call, SetExp_LevelUp, SetExp_AtTop, SetExp_Below,
         Begin, Item_SetLevel, Item_SetExp, Notify
<1>2. Told'
  BY DEF Told, Quiet, SetExp_LevelUp, SetExp_AtTop, SetExp_Below,
         Begin, Item_SetLevel, Item_SetExp, Notify
<1>3. NotTold'
  BY DEF NotTold, Told, Quiet, SetExp_LevelUp, SetExp_AtTop, SetExp_Below,
         Begin, Item_SetLevel, Item_SetExp, Notify
<1>4. HalfWay' /\ Quiet'
  BY DEF HalfWay, Quiet, SetExp_LevelUp, SetExp_AtTop, SetExp_Below,
         Begin, Item_SetLevel, Item_SetExp, Notify
<1>5. Done'
  BY DEF Done, AvatarTypeOK, Level, SetExp_LevelUp, SetExp_AtTop, SetExp_Below,
         Begin, Item_SetLevel, Item_SetExp, Notify
<1> QED BY <1>1, <1>2, <1>3, <1>4, <1>5

LEMMA SetLevelInv == ASSUME Inv, NEW n \in Argument, SetLevel(n) PROVE Inv'
<1> USE AvatarAssumption DEF Inv, SetLevel, Begin, Item_SetLevel, Notify
<1>1. AvatarTypeOK'
  BY DEF AvatarTypeOK, Level, Call
<1>2. Told'
  BY DEF Told, Quiet
<1>3. NotTold' /\ HalfWay' /\ Done' /\ Quiet'
  BY DEF NotTold, HalfWay, Done, Quiet
<1> QED BY <1>1, <1>2, <1>3

LEMMA OnUpdateInv == ASSUME Inv, NEW o \in Observer, OnUpdate(o) PROVE Inv'
<1> USE DEF Inv, OnUpdate
<1>1. AvatarTypeOK'
  BY DEF AvatarTypeOK, Level
<1>2. Told'
  <2>1. told' \in [Observer -> [level : Level, exp : Int]]
    BY <1>1 DEF AvatarTypeOK
  <2>2. ASSUME NEW p \in Observer, p # o PROVE told'[p] = told[p]
    BY <2>2 DEF AvatarTypeOK
  <2>3. \/ notifying = "level" /\ told'[o] = [told[o] EXCEPT !.level = m_nLevel]
        \/ notifying = "exp" /\ told'[o] = [told[o] EXCEPT !.exp = m_nExp]
    BY DEF AvatarTypeOK, Quiet
  <2> QED BY <2>2, <2>3 DEF Told, AvatarTypeOK
<1>3. NotTold'
  BY DEF NotTold, AvatarTypeOK
<1>4. HalfWay' /\ Done' /\ Quiet'
  BY DEF HalfWay, Done, Quiet
<1> QED BY <1>1, <1>2, <1>3, <1>4

LEMMA SetExp_RestInv == ASSUME Inv, SetExp_Rest PROVE Inv'
<1> USE AvatarAssumption DEF Inv, SetExp_Rest, Item_SetExp, Notify
<1>1. AvatarTypeOK'
  BY DEF AvatarTypeOK, Call, Level
<1>2. Told'
  BY DEF Told
<1>3. NotTold'
  BY DEF NotTold, Told, HalfWay
<1>4. HalfWay' /\ Done' /\ Quiet'
  BY DEF HalfWay, Done, Quiet, AvatarTypeOK, Call, Level
<1> QED BY <1>1, <1>2, <1>3, <1>4

LEMMA ReturnInv == ASSUME Inv, Return PROVE Inv'
BY DEF Inv, Return, AvatarTypeOK, Told, NotTold, HalfWay, Done, Quiet

LEMMA NextInv == Inv /\ [Next]_vars => Inv'
<1> SUFFICES ASSUME Inv, [Next]_vars PROVE Inv'
  OBVIOUS
<1>1. ASSUME NEW n \in Argument,
             SetExp_LevelUp(n) \/ SetExp_AtTop(n) \/ SetExp_Below(n)
      PROVE  Inv'
  BY <1>1, SetExpInv
<1>2. ASSUME NEW n \in Argument, SetLevel(n) PROVE Inv'
  BY <1>2, SetLevelInv
<1>3. ASSUME NEW o \in Observer, OnUpdate(o) PROVE Inv'
  BY <1>3, OnUpdateInv
<1>4. CASE SetExp_Rest
  BY <1>4, SetExp_RestInv
<1>5. CASE Return
  BY <1>5, ReturnInv
<1>6. CASE UNCHANGED vars
  BY <1>6 DEF vars, Inv, AvatarTypeOK, Told, NotTold, HalfWay, Done, Quiet
<1> QED BY <1>1, <1>2, <1>3, <1>4, <1>5, <1>6 DEF Next

LEMMA InvAlways == Spec => []Inv
BY InitInv, NextInv, PTL DEF Spec

--------------------------------------------------------------------------------
\* The level stays in 0 .. LEVEL_MAX - 1 whatever the callers of SetExp and
\* SetLevel pass.
THEOREM AvatarTypeCorrect == Spec => []AvatarTypeOK
<1>1. Inv => AvatarTypeOK
  BY DEF Inv
<1> QED BY <1>1, InvAlways, PTL

\* Between two calls each observer's copy is the avatar's state.
THEOREM AvatarObserversInStep == Spec => []ObserversInStep
<1>1. Inv => ObserversInStep
  <2> SUFFICES ASSUME Inv, notifying = "none", NEW o \in Observer
               PROVE  told[o] = [level |-> m_nLevel, exp |-> m_nExp]
    BY DEF ObserversInStep
  <2>1. told[o] \in [level : Level, exp : Int]
    BY DEF Inv, AvatarTypeOK
  <2>2. told[o].level = m_nLevel /\ told[o].exp = m_nExp
    BY DEF Inv, Told
  <2> QED BY <2>1, <2>2
<1> QED BY <1>1, InvAlways, PTL

\* SetExp turns points into a level and loses none, except at the top.
THEOREM AvatarNothingLost == Spec => []NothingLost
<1>1. Inv => NothingLost
  <2> SUFFICES ASSUME Inv, notifying = "none", call.op = "SetExp"
               PROVE  \/ Worth(m_nLevel, m_nExp) = Worth(call.level, call.arg)
                      \/ /\ m_nLevel = LEVEL_MAX - 1 /\ m_nExp = LEVEL_UP_EXP
                         /\ call.arg > LEVEL_UP_EXP
    BY DEF NothingLost
  <2>1. /\ call.level \in Nat /\ call.arg \in Int /\ LEVEL_UP_EXP \in Nat
        /\ m_nLevel \in Nat /\ call.level <= LEVEL_MAX - 1 /\ LEVEL_MAX \in Nat
    BY AvatarAssumption DEF Inv, AvatarTypeOK, Call, Level
  <2>2. CASE m_nLevel = call.level /\ m_nExp = call.arg
    BY <2>2 DEF Worth
  <2>3. CASE m_nLevel = call.level + 1 /\ m_nExp = call.arg - LEVEL_UP_EXP
    <3>1. (call.level + 1) * LEVEL_UP_EXP = call.level * LEVEL_UP_EXP + LEVEL_UP_EXP
      BY <2>1, WorthOfLevels
    <3>2. call.level * LEVEL_UP_EXP \in Nat
      BY <2>1, WorthOfLevels
    <3>3. DEFINE x == call.level * LEVEL_UP_EXP
    <3>4. (x + LEVEL_UP_EXP) + (call.arg - LEVEL_UP_EXP) = x + call.arg
      <4> HIDE DEF x
      <4>1. x \in Nat
        BY <3>2 DEF x
      <4> QED BY <4>1, <2>1
    <3> QED BY <2>3, <3>1, <3>4 DEF Worth
  <2>4. CASE /\ m_nLevel = LEVEL_MAX - 1 /\ m_nLevel = call.level
             /\ m_nExp = LEVEL_UP_EXP /\ call.arg >= LEVEL_UP_EXP
    <3>1. CASE call.arg > LEVEL_UP_EXP
      BY <2>4, <3>1
    <3>2. CASE call.arg = LEVEL_UP_EXP
      BY <2>4, <3>2 DEF Worth
    <3> QED BY <3>1, <3>2, <2>4, <2>1
  <2> QED BY <2>2, <2>3, <2>4 DEF Inv, Done
<1> QED BY <1>1, InvAlways, PTL

\* An observer that adds up what it was told never sees less than there was.
THEOREM AvatarNoDipSeen == Spec => []NoDipSeen
<1>1. Inv => NoDipSeen
  <2> SUFFICES ASSUME Inv, call.op = "SetExp", call.arg >= call.exp,
                      call.exp <= LEVEL_UP_EXP, NEW o \in Observer
               PROVE  Worth(told[o].level, told[o].exp) >= Worth(call.level, call.exp)
    BY DEF NoDipSeen
  <2> DEFINE l == told[o].level
             e == told[o].exp
             old == call.level * LEVEL_UP_EXP
  <2>1. /\ l \in Nat /\ e \in Int /\ LEVEL_UP_EXP \in Nat
        /\ call.level \in Nat /\ call.arg \in Int /\ call.exp \in Int
        /\ notifying \in {"none", "level", "exp"}
    BY AvatarAssumption DEF Inv, AvatarTypeOK, Call, Level
  \* Of the two parts of the change, it was told of neither, the first, or both.
  <2>2. \/ l = call.level /\ e = call.exp
        \/ l = call.level + 1 /\ e = call.exp
        \/ l = call.level /\ e = call.arg
        \/ l = call.level + 1 /\ e = call.arg - LEVEL_UP_EXP
        \/ l = call.level /\ e = LEVEL_UP_EXP
    <3>1. CASE notifying = "level"
      BY <3>1 DEF Inv, HalfWay, Told, NotTold
    <3>2. CASE notifying # "level"
      BY <3>2, <2>1 DEF Inv, Done, Told, NotTold
    <3> QED BY <3>1, <3>2
  <2>3. old \in Nat /\ (call.level + 1) * LEVEL_UP_EXP = old + LEVEL_UP_EXP
    BY <2>1, WorthOfLevels
  <2>4. l * LEVEL_UP_EXP + e >= old + call.exp
    <3>1. CASE l = call.level
      <4>1. l * LEVEL_UP_EXP = old
        BY <3>1
      <4>2. e >= call.exp
        BY <2>1, <2>2, <3>1
      <4> HIDE DEF l, e, old
      <4> QED BY <2>1, <2>3, <4>1, <4>2
    <3>2. CASE l = call.level + 1
      <4>1. l * LEVEL_UP_EXP = old + LEVEL_UP_EXP
        BY <3>2, <2>3
      <4>2. e >= call.exp - LEVEL_UP_EXP
        BY <2>1, <2>2, <3>2
      <4> HIDE DEF l, e, old
      <4> QED BY <2>1, <2>3, <4>1, <4>2
    <3> QED BY <2>2, <3>1, <3>2
  <2> QED BY <2>4 DEF Worth
<1> QED BY <1>1, InvAlways, PTL
================================================================================
