------------------------------- MODULE NetServer -------------------------------
(***************************************************************************)
(* The listening side of a process (src/Net/src/NetServer.cpp) with the    *)
(* life of the NetChannel objects it creates (src/Net/src/NetChannel.cpp). *)
(*                                                                         *)
(* Every accepted connection gets a channel index taken from the front of  *)
(* a FIFO of free indexes and becomes an entry of m_mapChannels; index 0   *)
(* means "unregistered" and is never given out.  A connection that finds   *)
(* no free index is closed at once.  When a connection ends, the channel's *)
(* state becomes eDisconnected and the callback of the owning process runs *)
(* in the same event: it either calls RemoveChannel (the index goes to the *)
(* back of the FIFO and the channel is destroyed) or leaves the channel in *)
(* the map.                                                                *)
(***************************************************************************)
EXTENDS Naturals, Sequences

CONSTANTS Conn,      \* the connections that ever reach this listener
          NoConn,    \* "no channel under this index"
          MaxConns   \* the max_conns argument of the constructor

ASSUME NoConnAssumption == NoConn \notin Conn
ASSUME MaxConnsAssumption == MaxConns \in Nat \ {0}

Index == 1 .. (MaxConns - 1)

VARIABLES m_freeindexes,    \* FIFO of free channel indexes
          m_mapChannels,    \* index -> connection of the channel, or NoConn
          m_eState,         \* per connection: state of its NetChannel
          m_channel_index   \* per connection: low 16 bits of m_peer_info

nsvars == <<m_freeindexes, m_mapChannels, m_eState, m_channel_index>>

\* "none": not accepted yet; "destroyed": no NetChannel object any more.
ConnState == {"none", "eConnected", "eDisconnected", "destroyed"}

NetServerTypeOK ==
  /\ m_freeindexes \in Seq(Index)
  /\ m_mapChannels \in [Index -> Conn \cup {NoConn}]
  /\ m_eState \in [Conn -> ConnState]
  /\ m_channel_index \in [Conn -> 0 .. (MaxConns - 1)]

\* Mutant of NetServerInit: the FIFO starts with index 0, "unregistered".
NetServerInit_FromZero ==
  /\ m_freeindexes = [i \in 1 .. MaxConns |-> i - 1]
  /\ m_mapChannels = [i \in Index |-> NoConn]
  /\ m_eState = [c \in Conn |-> "none"]
  /\ m_channel_index = [c \in Conn |-> 0]

NetServerInit ==
  /\ m_freeindexes = [i \in Index |-> i]
  /\ m_mapChannels = [i \in Index |-> NoConn]
  /\ m_eState = [c \in Conn |-> "none"]
  /\ m_channel_index = [c \in Conn |-> 0]

\* GetChannel(nChannelIndex): the connection, or NoConn for a null pointer.
GetChannel(i) == IF i \in Index THEN m_mapChannels[i] ELSE NoConn

--------------------------------------------------------------------------------
\* Mutant of Admit: the index is read and not popped.
Admit_NotPopped(c) ==
  /\ m_eState[c] = "none"
  /\ m_freeindexes # << >>
  /\ LET i == Head(m_freeindexes)
     IN  /\ m_mapChannels' = [m_mapChannels EXCEPT ![i] = c]
         /\ m_channel_index' = [m_channel_index EXCEPT ![c] = i]
  /\ m_eState' = [m_eState EXCEPT ![c] = "eConnected"]
  /\ UNCHANGED m_freeindexes

\* OnConnect with an index left: the connection becomes channel i.
Admit(c) ==
  /\ m_eState[c] = "none"
  /\ m_freeindexes # << >>
  /\ LET i == Head(m_freeindexes)
     IN  /\ m_mapChannels' = [m_mapChannels EXCEPT ![i] = c]
         /\ m_channel_index' = [m_channel_index EXCEPT ![c] = i]
  /\ m_freeindexes' = Tail(m_freeindexes)
  /\ m_eState' = [m_eState EXCEPT ![c] = "eConnected"]

\* Mutant of Refuse: a connection is turned away with indexes left.
Refuse_Unchecked(c) ==
  /\ m_eState[c] = "none"
  /\ m_eState' = [m_eState EXCEPT ![c] = "destroyed"]
  /\ UNCHANGED <<m_freeindexes, m_mapChannels, m_channel_index>>

\* OnConnect without: pChannel.reset() destroys the channel, closing the socket.
Refuse(c) ==
  /\ m_eState[c] = "none"
  /\ m_freeindexes = << >>
  /\ m_eState' = [m_eState EXCEPT ![c] = "destroyed"]
  /\ UNCHANGED <<m_freeindexes, m_mapChannels, m_channel_index>>

\* Disconnected() or ConnectError() whose callback leaves the channel in the map.
LoseAndKeep(c) ==
  /\ m_eState[c] = "eConnected"
  /\ m_eState' = [m_eState EXCEPT ![c] = "eDisconnected"]
  /\ UNCHANGED <<m_freeindexes, m_mapChannels, m_channel_index>>

\* Mutant of LoseAndRemove: the map keeps the entry.
LoseAndRemove_NotErased(c) ==
  /\ m_eState[c] = "eConnected"
  /\ m_freeindexes' = Append(m_freeindexes, m_channel_index[c])
  /\ m_eState' = [m_eState EXCEPT ![c] = "destroyed"]
  /\ UNCHANGED <<m_mapChannels, m_channel_index>>

\* Mutant of LoseAndRemove: the index is not given back.
LoseAndRemove_NotPushed(c) ==
  /\ m_eState[c] = "eConnected"
  /\ m_mapChannels' = [m_mapChannels EXCEPT ![m_channel_index[c]] = NoConn]
  /\ m_eState' = [m_eState EXCEPT ![c] = "destroyed"]
  /\ UNCHANGED <<m_freeindexes, m_channel_index>>

\* Disconnected() or ConnectError() whose callback calls RemoveChannel: the last
\* reference to the channel goes with the callback.
LoseAndRemove(c) ==
  /\ m_eState[c] = "eConnected"
  /\ LET i == m_channel_index[c]
     IN  /\ m_freeindexes' = Append(m_freeindexes, i)
         /\ m_mapChannels' = [m_mapChannels EXCEPT ![i] = NoConn]
  /\ m_eState' = [m_eState EXCEPT ![c] = "destroyed"]
  /\ UNCHANGED m_channel_index

NetServerNext ==
  \E c \in Conn : Admit(c) \/ Refuse(c) \/ LoseAndKeep(c) \/ LoseAndRemove(c)

NetServerSpec == NetServerInit /\ [][NetServerNext]_nsvars

--------------------------------------------------------------------------------
\* A connection's channel is in the map exactly while the object exists.
InMap(c) == m_eState[c] \in {"eConnected", "eDisconnected"}

\* Map and channels agree: an index leads to the channel that carries it, and
\* back.  This is what RemoveChannel asserts (NetServer.cpp:85) and what every
\* send by channel index relies on (PacketProcessor.cpp:114-122).
MapConsistent ==
  /\ \A i \in Index : m_mapChannels[i] # NoConn =>
        /\ InMap(m_mapChannels[i])
        /\ m_channel_index[m_mapChannels[i]] = i
  /\ \A c \in Conn : InMap(c) =>
        /\ m_channel_index[c] \in Index
        /\ m_mapChannels[m_channel_index[c]] = c

\* Over any sequence of connects and disconnects no index is lost, and none is
\* handed out twice: each is in the FIFO exactly once or names a channel
\* (NetServer.cpp:30-32, 87-88, 142-145).
PoolPartition ==
  /\ \A j, k \in DOMAIN m_freeindexes :
        m_freeindexes[j] = m_freeindexes[k] => j = k
  /\ \A i \in Index :
        (\E j \in DOMAIN m_freeindexes : m_freeindexes[j] = i) <=>
           m_mapChannels[i] = NoConn

--------------------------------------------------------------------------------
\* What the rest of the program may rely on.
Slots == INSTANCE ChannelSlots
           WITH slot <- [c \in Conn |-> IF InMap(c) THEN m_channel_index[c] ELSE 0],
                refused <- {c \in Conn : /\ m_eState[c] = "destroyed"
                                         /\ m_channel_index[c] = 0}

\* The FIFO and the map implement the abstract table of slots.
ImplementsSlots == Slots!SlotsSpec
================================================================================
