----------------------------- MODULE NetServerProofs ----------------------------
(***************************************************************************)
(* For every set of connections and every max_conns: channel indexes are   *)
(* neither lost nor doubled, map and channels agree, and the FIFO with the *)
(* map implements the abstract table of slots (ChannelSlots).              *)
(*                                                                         *)
(* The invariants are only inductive together: Admit and LoseAndRemove     *)
(* keep the partition because a channel in the map carries its own index   *)
(* (MapConsistent), and keep MapConsistent because the head of the FIFO    *)
(* names no channel (PoolPartition).                                       *)
(***************************************************************************)
EXTENDS NetServer, SequenceTheorems, TLAPS

\* A connection that has not been accepted carries no index.
FreshHasNoIndex == \A c \in Conn : m_eState[c] = "none" => m_channel_index[c] = 0

NetServerInv == NetServerTypeOK /\ MapConsistent /\ PoolPartition /\ FreshHasNoIndex

\* Appending a fresh element to a sequence without duplicates adds none, and
\* the range grows by that element.
LEMMA AppendFresh ==
  ASSUME NEW S, NEW s \in Seq(S), NEW e \in S,
         \A j, k \in DOMAIN s : s[j] = s[k] => j = k,
         \A j \in DOMAIN s : s[j] # e
  PROVE  /\ \A j, k \in DOMAIN Append(s, e) :
              Append(s, e)[j] = Append(s, e)[k] => j = k
         /\ \A x : (\E j \in DOMAIN Append(s, e) : Append(s, e)[j] = x)
                     <=> (x = e \/ \E j \in DOMAIN s : s[j] = x)
  <1> DEFINE t == Append(s, e)
  <1>1. /\ t \in Seq(S)
        /\ Len(t) = Len(s) + 1
        /\ \A j \in 1 .. Len(s) : t[j] = s[j]
        /\ t[Len(s) + 1] = e
    BY AppendProperties
  <1>2. DOMAIN s = 1 .. Len(s) /\ DOMAIN t = 1 .. (Len(s) + 1) /\ Len(s) \in Nat
    BY <1>1, LenProperties
  <1> HIDE DEF t
  <1>3. \A j, k \in DOMAIN t : t[j] = t[k] => j = k
    BY <1>1, <1>2
  <1>4. ASSUME NEW x
        PROVE  (\E j \in DOMAIN t : t[j] = x) <=> (x = e \/ \E j \in DOMAIN s : s[j] = x)
    BY <1>1, <1>2
  <1> QED  BY <1>3, <1>4 DEF t

\* Removing the head of a sequence without duplicates removes exactly that
\* element from its range.
LEMMA TailDropsHead ==
  ASSUME NEW S, NEW s \in Seq(S), s # << >>,
         \A j, k \in DOMAIN s : s[j] = s[k] => j = k
  PROVE  /\ \A j, k \in DOMAIN Tail(s) : Tail(s)[j] = Tail(s)[k] => j = k
         /\ \A x : (\E j \in DOMAIN Tail(s) : Tail(s)[j] = x)
                     <=> (x # Head(s) /\ \E j \in DOMAIN s : s[j] = x)
  <1> DEFINE t == Tail(s)
  <1>1. /\ Head(s) = s[1] /\ t \in Seq(S)
        /\ Len(t) = Len(s) - 1
        /\ \A j \in 1 .. Len(t) : t[j] = s[j + 1]
    BY HeadTailProperties
  <1>2. /\ DOMAIN s = 1 .. Len(s) /\ DOMAIN t = 1 .. (Len(s) - 1)
        /\ Len(s) \in Nat /\ Len(s) # 0
    BY <1>1, LenProperties, EmptySeq
  <1> HIDE DEF t
  <1>3. \A j, k \in DOMAIN t : t[j] = t[k] => j = k
    BY <1>1, <1>2, SMTT(40)
  <1>4. ASSUME NEW x
        PROVE  (\E j \in DOMAIN t : t[j] = x) <=> (x # Head(s) /\ \E j \in DOMAIN s : s[j] = x)
    <2>1. ASSUME NEW j \in DOMAIN t, t[j] = x
          PROVE  x # Head(s) /\ \E k \in DOMAIN s : s[k] = x
      BY <1>1, <1>2, <2>1
    <2>2. ASSUME x # Head(s), NEW j \in DOMAIN s, s[j] = x
          PROVE  \E k \in DOMAIN t : t[k] = x
      <3>1. j # 1  BY <1>1, <2>2
      <3>2. j - 1 \in DOMAIN t /\ t[j - 1] = s[(j - 1) + 1]  BY <1>1, <1>2, <3>1
      <3> QED  BY <2>2, <3>2, <1>2
    <2> QED  BY <2>1, <2>2
  <1> QED  BY <1>3, <1>4 DEF t

--------------------------------------------------------------------------------
LEMMA InitInv == NetServerInit => NetServerInv
  <1> SUFFICES ASSUME NetServerInit PROVE NetServerInv
    OBVIOUS
  <1> USE MaxConnsAssumption, NoConnAssumption
  <1>1. MaxConns - 1 \in Nat  OBVIOUS
  <1>2. m_freeindexes \in Seq(Index)
    BY <1>1 DEF NetServerInit, Index
  <1>3. NetServerTypeOK
    BY <1>2 DEF NetServerInit, NetServerTypeOK, ConnState, Index
  <1>4. MapConsistent
    BY DEF NetServerInit, MapConsistent, InMap, Index
  <1>5. PoolPartition
    BY DEF NetServerInit, PoolPartition, Index
  <1>6. FreshHasNoIndex
    BY DEF NetServerInit, FreshHasNoIndex
  <1> QED  BY <1>3, <1>4, <1>5, <1>6 DEF NetServerInv

LEMMA AdmitInv ==
  ASSUME NetServerInv, NEW c \in Conn, Admit(c)
  PROVE  NetServerInv'
  <1> DEFINE i == Head(m_freeindexes)
  <1> USE MaxConnsAssumption, NoConnAssumption
  <1>1. /\ m_freeindexes \in Seq(Index) /\ m_freeindexes # << >>
        /\ i \in Index /\ Tail(m_freeindexes) \in Seq(Index)
        /\ i = m_freeindexes[1] /\ 1 \in DOMAIN m_freeindexes
    BY HeadTailProperties, EmptySeq, LenProperties
       DEF NetServerInv, NetServerTypeOK, Admit
  <1>2. m_mapChannels[i] = NoConn
    BY <1>1 DEF NetServerInv, PoolPartition
  <1>3. Index \subseteq 0 .. (MaxConns - 1) /\ ~ InMap(c)
    BY DEF Index, InMap, Admit
  <1>4. NetServerTypeOK'
    BY <1>1, <1>3 DEF NetServerInv, NetServerTypeOK, Admit, ConnState
  <1> HIDE DEF i
  <1>5. /\ m_mapChannels' = [m_mapChannels EXCEPT ![i] = c]
        /\ m_channel_index' = [m_channel_index EXCEPT ![c] = i]
        /\ m_eState' = [m_eState EXCEPT ![c] = "eConnected"]
        /\ m_freeindexes' = Tail(m_freeindexes)
    BY DEF Admit, i
  <1>6. /\ m_mapChannels \in [Index -> Conn \cup {NoConn}]
        /\ m_eState \in [Conn -> ConnState]
        /\ m_channel_index \in [Conn -> 0 .. (MaxConns - 1)]
    BY DEF NetServerInv, NetServerTypeOK
  <1>7. MapConsistent'
    BY <1>1, <1>2, <1>3, <1>5, <1>6 DEF NetServerInv, MapConsistent, InMap
  <1>8. \A j, k \in DOMAIN m_freeindexes : m_freeindexes[j] = m_freeindexes[k] => j = k
    BY DEF NetServerInv, PoolPartition
  <1>9. /\ \A j, k \in DOMAIN Tail(m_freeindexes) :
              Tail(m_freeindexes)[j] = Tail(m_freeindexes)[k] => j = k
        /\ \A x : (\E j \in DOMAIN Tail(m_freeindexes) : Tail(m_freeindexes)[j] = x)
                     <=> (x # i /\ \E j \in DOMAIN m_freeindexes : m_freeindexes[j] = x)
    BY <1>1, <1>8, TailDropsHead DEF i
  <1>10. PoolPartition'
    BY <1>1, <1>5, <1>6, <1>9, ZenonT(60) DEF NetServerInv, PoolPartition
  <1>11. FreshHasNoIndex'
    BY <1>5, <1>6 DEF NetServerInv, FreshHasNoIndex
  <1> QED  BY <1>4, <1>7, <1>10, <1>11 DEF NetServerInv

LEMMA LoseAndRemoveInv ==
  ASSUME NetServerInv, NEW c \in Conn, LoseAndRemove(c)
  PROVE  NetServerInv'
  <1> DEFINE i == m_channel_index[c]
  <1> USE MaxConnsAssumption, NoConnAssumption
  <1>1. /\ m_eState[c] = "eConnected"
        /\ m_freeindexes' = Append(m_freeindexes, i)
        /\ m_mapChannels' = [m_mapChannels EXCEPT ![i] = NoConn]
        /\ m_eState' = [m_eState EXCEPT ![c] = "destroyed"]
        /\ m_channel_index' = m_channel_index
    BY DEF LoseAndRemove
  <1>2. i \in Index /\ m_mapChannels[i] = c
    BY <1>1 DEF NetServerInv, MapConsistent, InMap
  <1>3. /\ m_freeindexes \in Seq(Index)
        /\ m_mapChannels \in [Index -> Conn \cup {NoConn}]
        /\ m_eState \in [Conn -> ConnState]
        /\ m_channel_index \in [Conn -> 0 .. (MaxConns - 1)]
    BY DEF NetServerInv, NetServerTypeOK
  <1> HIDE DEF i
  <1>4. m_freeindexes' \in Seq(Index)
    BY <1>1, <1>2, <1>3, AppendProperties
  <1>5. NetServerTypeOK'
    BY <1>1, <1>2, <1>3, <1>4 DEF NetServerTypeOK, ConnState
  <1>6. MapConsistent'
    BY <1>1, <1>2, <1>3 DEF NetServerInv, MapConsistent, InMap, i
  <1>7. \A j \in DOMAIN m_freeindexes : m_freeindexes[j] # i
    BY <1>2 DEF NetServerInv, PoolPartition
  <1>8. \A j, k \in DOMAIN m_freeindexes : m_freeindexes[j] = m_freeindexes[k] => j = k
    BY DEF NetServerInv, PoolPartition
  <1>9. /\ \A j, k \in DOMAIN Append(m_freeindexes, i) :
              Append(m_freeindexes, i)[j] = Append(m_freeindexes, i)[k] => j = k
        /\ \A x : (\E j \in DOMAIN Append(m_freeindexes, i) : Append(m_freeindexes, i)[j] = x)
                     <=> (x = i \/ \E j \in DOMAIN m_freeindexes : m_freeindexes[j] = x)
    BY <1>2, <1>3, <1>7, <1>8, AppendFresh, ZenonT(30)
  <1>10. PoolPartition'
    BY <1>1, <1>2, <1>3, <1>9, ZenonT(60) DEF NetServerInv, PoolPartition
  <1>11. FreshHasNoIndex'
    BY <1>1, <1>3 DEF NetServerInv, FreshHasNoIndex
  <1> QED  BY <1>5, <1>6, <1>10, <1>11 DEF NetServerInv

\* The two steps that only change the state of a channel.
LEMMA StateOnlyInv ==
  ASSUME NetServerInv, NEW c \in Conn, Refuse(c) \/ LoseAndKeep(c)
  PROVE  NetServerInv'
  <1>1. /\ m_freeindexes' = m_freeindexes
        /\ m_mapChannels' = m_mapChannels
        /\ m_channel_index' = m_channel_index
        /\ m_eState' \in [Conn -> ConnState]
    BY DEF NetServerInv, NetServerTypeOK, Refuse, LoseAndKeep, ConnState
  <1>2. \A d \in Conn : InMap(d)' <=> InMap(d)
    BY DEF NetServerInv, NetServerTypeOK, InMap, Refuse, LoseAndKeep
  <1>3. NetServerTypeOK'
    BY <1>1 DEF NetServerInv, NetServerTypeOK
  <1>4. MapConsistent'
    BY <1>1, <1>2 DEF NetServerInv, NetServerTypeOK, MapConsistent
  <1>5. PoolPartition'
    BY <1>1 DEF NetServerInv, PoolPartition
  <1>6. FreshHasNoIndex'
    BY <1>1 DEF NetServerInv, NetServerTypeOK, FreshHasNoIndex, Refuse, LoseAndKeep
  <1> QED  BY <1>3, <1>4, <1>5, <1>6 DEF NetServerInv

LEMMA StepInv == NetServerInv /\ [NetServerNext]_nsvars => NetServerInv'
  <1> SUFFICES ASSUME NetServerInv, [NetServerNext]_nsvars PROVE NetServerInv'
    OBVIOUS
  <1>1. CASE UNCHANGED nsvars
    BY <1>1 DEF nsvars, NetServerInv, NetServerTypeOK, MapConsistent, PoolPartition,
                    FreshHasNoIndex, InMap
  <1>2. CASE NetServerNext
    <2> PICK c \in Conn : Admit(c) \/ Refuse(c) \/ LoseAndKeep(c) \/ LoseAndRemove(c)
      BY <1>2 DEF NetServerNext
    <2> QED  BY AdmitInv, LoseAndRemoveInv, StateOnlyInv
  <1> QED  BY <1>1, <1>2

LEMMA NetServerInvariant == NetServerSpec => []NetServerInv
  BY InitInv, StepInv, PTL DEF NetServerSpec

\* Channel indexes and channel states keep their types: no index outside the table
\* is ever put in the FIFO or given to a channel.
THEOREM NetServerTypeCorrect == NetServerSpec => []NetServerTypeOK
  <1>1. NetServerInv => NetServerTypeOK
    BY DEF NetServerInv
  <1> QED  BY NetServerInvariant, <1>1, PTL

\* No index is lost or doubled, whatever the number of connections and the order of
\* connects and disconnects.
THEOREM PoolIsSound == NetServerSpec => []PoolPartition
  <1>1. NetServerInv => PoolPartition
    BY DEF NetServerInv
  <1> QED  BY NetServerInvariant, <1>1, PTL

\* Every index in the map leads to the channel that carries it, and every live
\* channel is found under its own index: the assertion of RemoveChannel never fails.
THEOREM MapIsSound == NetServerSpec => []MapConsistent
  <1>1. NetServerInv => MapConsistent
    BY DEF NetServerInv
  <1> QED  BY NetServerInvariant, <1>1, PTL

--------------------------------------------------------------------------------
\* The abstract state, named: the slot each connection holds, and who was refused.
SlotOf == [c \in Conn |-> IF InMap(c) THEN m_channel_index[c] ELSE 0]
RefusedConns == {c \in Conn : m_eState[c] = "destroyed" /\ m_channel_index[c] = 0}

LEMMA AdmitOccupies ==
  ASSUME NetServerInv, NEW c \in Conn, Admit(c)
  PROVE  Slots!Occupy(c)
  <1> DEFINE i == Head(m_freeindexes)
  <1>1. /\ i \in Index /\ i = m_freeindexes[1] /\ 1 \in DOMAIN m_freeindexes
    BY HeadTailProperties, EmptySeq, LenProperties
       DEF NetServerInv, NetServerTypeOK, Admit
  <1>2. m_mapChannels[i] = NoConn
    BY <1>1 DEF NetServerInv, PoolPartition
  <1> HIDE DEF i
  <1>3. /\ m_channel_index' = [m_channel_index EXCEPT ![c] = i]
        /\ m_eState' = [m_eState EXCEPT ![c] = "eConnected"]
        /\ m_eState[c] = "none"
        /\ m_eState \in [Conn -> ConnState]
        /\ m_channel_index \in [Conn -> 0 .. (MaxConns - 1)]
    BY DEF Admit, i, NetServerInv, NetServerTypeOK
  <1>4. \A d \in Conn : SlotOf[d] # i
    BY <1>1, <1>2, NoConnAssumption
       DEF SlotOf, NetServerInv, MapConsistent, Index, NetServerTypeOK
  <1>5. SlotOf[c] = 0 /\ SlotOf' = [SlotOf EXCEPT ![c] = i]
    BY <1>3 DEF SlotOf, InMap
  <1>6. RefusedConns' = RefusedConns
    BY <1>3 DEF RefusedConns
  <1> QED  BY <1>1, <1>4, <1>5, <1>6 DEF Slots!Occupy, Slots!Held, SlotOf, RefusedConns, Index

LEMMA RefuseTurnsAway ==
  ASSUME NetServerInv, NEW c \in Conn, Refuse(c)
  PROVE  Slots!TurnAway(c)
  <1>1. /\ m_eState[c] = "none" /\ m_freeindexes = << >>
        /\ m_eState' = [m_eState EXCEPT ![c] = "destroyed"]
        /\ m_channel_index' = m_channel_index
        /\ m_eState \in [Conn -> ConnState]
        /\ m_channel_index[c] = 0
    BY DEF Refuse, NetServerInv, NetServerTypeOK, FreshHasNoIndex
  <1>2. ASSUME NEW i \in Index PROVE \E d \in Conn : SlotOf[d] = i
    <2>1. m_mapChannels[i] # NoConn
      BY <1>1 DEF NetServerInv, PoolPartition
    <2> QED  BY <2>1 DEF NetServerInv, NetServerTypeOK, MapConsistent, SlotOf
  <1>3. SlotOf' = SlotOf /\ SlotOf[c] = 0
    BY <1>1 DEF SlotOf, InMap
  <1>4. RefusedConns' = RefusedConns \cup {c}
    BY <1>1 DEF RefusedConns
  <1> QED  BY <1>2, <1>3, <1>4 DEF Slots!TurnAway, Slots!Held, SlotOf, RefusedConns, Index

LEMMA LoseAndRemoveVacates ==
  ASSUME NetServerInv, NEW c \in Conn, LoseAndRemove(c)
  PROVE  Slots!Vacate(c)
  <1>1. /\ m_eState[c] = "eConnected"
        /\ m_eState' = [m_eState EXCEPT ![c] = "destroyed"]
        /\ m_channel_index' = m_channel_index
        /\ m_eState \in [Conn -> ConnState]
        /\ m_channel_index[c] \in Index
    BY DEF LoseAndRemove, NetServerInv, NetServerTypeOK, MapConsistent, InMap
  <1>2. SlotOf[c] # 0 /\ SlotOf' = [SlotOf EXCEPT ![c] = 0]
    <2>1. SlotOf[c] # 0
      BY <1>1 DEF SlotOf, InMap, Index
    <2>2. \A d \in Conn : InMap(d)' <=> (InMap(d) /\ d # c)
      BY <1>1 DEF InMap
    <2> QED  BY <1>1, <2>1, <2>2 DEF SlotOf
  <1>3. RefusedConns' = RefusedConns
    BY <1>1 DEF RefusedConns, Index
  <1> QED  BY <1>2, <1>3 DEF Slots!Vacate, SlotOf, RefusedConns

LEMMA LoseAndKeepStutters ==
  ASSUME NetServerInv, NEW c \in Conn, LoseAndKeep(c)
  PROVE  SlotOf' = SlotOf /\ RefusedConns' = RefusedConns
  BY DEF LoseAndKeep, NetServerInv, NetServerTypeOK, SlotOf, RefusedConns, InMap

\* The listener's FIFO, map and channel states implement the table of slots:
\* a slot has one holder, and only a full table turns a connection away.
THEOREM SlotsRefinement == NetServerSpec => ImplementsSlots
  <1>1. NetServerInit => Slots!SlotsInit
    BY DEF NetServerInit, Slots!SlotsInit, InMap
  <1>2. NetServerInv /\ [NetServerNext]_nsvars => [Slots!SlotsNext]_(Slots!slotvars)
    <2> SUFFICES ASSUME NetServerInv, [NetServerNext]_nsvars
                 PROVE  [Slots!SlotsNext]_(Slots!slotvars)
      OBVIOUS
    <2>1. CASE UNCHANGED nsvars
      BY <2>1 DEF nsvars, Slots!slotvars, InMap
    <2>2. ASSUME NEW c \in Conn, Admit(c) \/ Refuse(c) \/ LoseAndRemove(c)
          PROVE  Slots!SlotsNext
      BY <2>2, AdmitOccupies, RefuseTurnsAway, LoseAndRemoveVacates DEF Slots!SlotsNext
    <2>3. ASSUME NEW c \in Conn, LoseAndKeep(c)
          PROVE  UNCHANGED Slots!slotvars
      BY <2>3, LoseAndKeepStutters DEF Slots!slotvars, SlotOf, RefusedConns
    <2> QED  BY <2>1, <2>2, <2>3 DEF NetServerNext
  <1> QED  BY InitInv, StepInv, <1>1, <1>2, PTL DEF NetServerSpec, ImplementsSlots, Slots!SlotsSpec
================================================================================
