-------------------------------- MODULE Cluster --------------------------------
(***************************************************************************)
(* The star of server processes: one CenterServer that every GateServer    *)
(* and WorldServer registers with, and that tells each of them about the   *)
(* others.  Sources: src/CenterServer, src/GateServer and src/WorldServer  *)
(* (PacketProcessor_*.cpp, ConnectionManager.cpp, ServerManager_Center.cpp)*)
(* over src/SrvLib (PacketProcessor.cpp, ServerManager.cpp) and src/Net.   *)
(*                                                                         *)
(* A member of Server is one run of a server process: it connects once, at *)
(* its start (no code reconnects), and a restart is another member.        *)
(* Processes are single-threaded event loops, so a callback is one step.   *)
(* A TCP connection is a FIFO in each direction; how many packets one read *)
(* callback finds is the kernel's choice, so every step reads one.  A      *)
(* broken connection is an error event at either end, at any moment; what  *)
(* was in flight to that end is then lost.  The Center is up from Init     *)
(* (after CenterServer::InitNetModule) to the end: no server outlives the  *)
(* loss of its Center connection as a member of the cluster.               *)
(*                                                                         *)
(* A PeerInfo is the record [type, channel]; peer_index is 0 in every      *)
(* PeerInfo of a server.  The packets on the way to the Center are all     *)
(* PktRegisterReq with the sender's bare type, so "up" counts them.        *)
(***************************************************************************)
EXTENDS Naturals, Sequences, SequencesExt

CONSTANTS Gate, World,       \* runs of gate and of world server processes
          NoConn,
          MaxConns,          \* MAX_CONNECTION of the Center
          FrontEndEvents,    \* which callback Accept registers for channel events
          MaxClients         \* bound: client connections one gate ever accepts

Server == Gate \cup World

ASSUME GateWorldAssumption == Gate \cap World = {}
ASSUME NoServerAssumption == NoConn \notin Server
ASSUME MaxConnsPositive == MaxConns \in Nat \ {0}
ASSUME MaxClientsAssumption == MaxClients \in Nat

\* PacketProcessor::Accept registers OnNetEvent_BackEnd (PacketProcessor.cpp:28);
\* the handlers of OnNetEvent_FrontEnd are written but never called.
ASSUME FrontEndEventsAssumption ==
  FrontEndEvents \in {"OnNetEvent_BackEnd", "OnNetEvent_FrontEnd"}

VARIABLES
  \* the Center: its listener, and what it knows
  m_freeindexes, m_mapChannels, m_eState, m_channel_index,
  m_peer_type,       \* per connection: peer type of the channel's m_peer_info
  registry,          \* m_ServerInfos of ServerManager_Center
  \* the servers
  proc,              \* "off", "running", "killed", or the line it aborted at
  backState,         \* state of m_pBackEnd; "none" for a null pointer
  backInfo,          \* m_peer_info of m_pBackEnd: the server's own PeerInfo
  view, viewTypes,   \* m_ServerInfos of ServerManager: its entries, its keys
  clients,           \* client connections a gate has accepted so far
  \* the network
  link,              \* handshake of the connection, and a refusal by the Center
  up, down           \* packets to the Center (a count), from the Center

centervars == <<m_freeindexes, m_mapChannels, m_eState, m_channel_index,
                m_peer_type, registry>>
servervars == <<proc, backState, backInfo, view, viewTypes, clients>>
netvars    == <<link, up, down>>
vars       == <<centervars, servervars, netvars>>

\* The Center's front end.
Listener == INSTANCE NetServer WITH Conn <- Server

--------------------------------------------------------------------------------
SyncTypes == {"gateserver", "gameserver", "worldserver"}
PeerType == SyncTypes \cup {"undefine", "centerserver"}
TypeOf(p) == IF p \in Gate THEN "gateserver" ELSE "worldserver"

Info(t, i) == [type |-> t, channel |-> i]
PeerInfo == [type : PeerType, channel : 0 .. (MaxConns - 1)]
CenterInfo == Info("centerserver", 0)

Packet == [name : {"RegisterAck", "SyncAdd", "SyncRemove"},
           dest : PeerInfo, infos : SUBSET PeerInfo]
Pkt(n, d, S) == [name |-> n, dest |-> d, infos |-> S]

TypeOK ==
  /\ Listener!NetServerTypeOK
  /\ m_peer_type \in [Server -> PeerType]
  /\ registry \subseteq PeerInfo
  /\ proc \in [Server -> {"off", "running", "killed",
                          "World:36", "ServerManager:56", "PacketProcessor:126"}]
  /\ backState \in [Server -> {"none", "eConnecting", "eConnected"}]
  /\ backInfo \in [Server -> PeerInfo]
  /\ view \in [Server -> SUBSET PeerInfo]
  /\ viewTypes \in [Server -> SUBSET PeerType]
  /\ clients \in [Server -> 0 .. MaxClients]
  /\ link \in [Server -> {"none", "backlog", "accepted", "refused"}]
  /\ up \in [Server -> Nat]
  /\ down \in [Server -> Seq(Packet)]

Init ==
  /\ Listener!NetServerInit
  /\ m_peer_type = [p \in Server |-> "undefine"]
  /\ registry = {CenterInfo}
  /\ proc = [p \in Server |-> "off"]
  /\ backState = [p \in Server |-> "none"]
  /\ backInfo = [p \in Server |-> Info(TypeOf(p), 0)]
  /\ view = [p \in Server |-> {}]
  /\ viewTypes = [p \in Server |-> {}]
  /\ clients = [p \in Server |-> 0]
  /\ link = [p \in Server |-> "none"]
  /\ up = [p \in Server |-> 0]
  /\ down = [p \in Server |-> << >>]

--------------------------------------------------------------------------------
(* The Center. *)

\* SendMsg to q's channel: written only while the channel is eConnected, and
\* received only by a process that still holds its end.
Reaches(q) == m_eState[q] = "eConnected" /\ backState[q] # "none"

\* Mutant of Told: a broadcast forgets the gates.
Told_NotGates(t, q) == {x \in registry : /\ x.type \in SyncTypes \ {t, "gateserver"}
                                         /\ Listener!GetChannel(x.channel) = q}

\* Registered servers of the two types that are told of a change of a server of
\* type t, and whose stored channel index leads to q now (SendPacket2Server).
Told(t, q) == {x \in registry : /\ x.type \in SyncTypes \ {t}
                                /\ Listener!GetChannel(x.channel) = q}

\* BroadCastServerInfoChanged, as it arrives at q after the packets s.
Broadcast(s, q, name, me) ==
  IF me.type \in SyncTypes /\ Reaches(q)
    THEN s \o SetToSeq({Pkt(name, x, {me}) : x \in Told(me.type, q)})
    ELSE s

\* Mutant of FullList: a new server is told of the Center only.
FullList_CenterOnly(t) == {x \in registry : x.type = "centerserver"}

\* What a new server of type t is told: the Center and the other two types.
FullList(t) == {x \in registry : x.type \in {"centerserver"} \cup (SyncTypes \ {t})}

\* Mutant of OnServerRemoved: nobody is told.
OnServerRemoved_Silent(p) ==
  /\ registry' = registry \ {Info(m_peer_type[p], m_channel_index[p])}
  /\ UNCHANGED down

\* Mutant of OnServerRemoved: the entry stays in m_ServerInfos.
OnServerRemoved_Kept(p) ==
  LET me == Info(m_peer_type[p], m_channel_index[p])
  IN  /\ down' = [q \in Server |-> IF q = p THEN down[q]
                                   ELSE Broadcast(down[q], q, "SyncRemove", me)]
      /\ UNCHANGED registry

\* DoFrontEnd_Disconnected and DoFrontEnd_ConnBreak of p's channel: what
\* OnServerRemoved tells the others, and forgets.
OnServerRemoved(p) ==
  LET me == Info(m_peer_type[p], m_channel_index[p])
  IN  /\ down' = [q \in Server |-> IF q = p THEN down[q]
                                   ELSE Broadcast(down[q], q, "SyncRemove", me)]
      /\ registry' = registry \ {me}

\* Mutant of ChannelLost: the index is freed, the server stays registered.
ChannelLost_StillRegistered(p) ==
  CASE FrontEndEvents = "OnNetEvent_FrontEnd" ->
         Listener!LoseAndRemove(p) /\ UNCHANGED <<registry, down>>
    [] FrontEndEvents = "OnNetEvent_BackEnd" ->
         Listener!LoseAndKeep(p) /\ UNCHANGED <<registry, down>>

\* The channel of p has ended.  The Center overrides DoFrontEnd_* only: with the
\* back-end callback registered, nothing happens and the channel stays.
ChannelLost(p) ==
  CASE FrontEndEvents = "OnNetEvent_FrontEnd" ->
         Listener!LoseAndRemove(p) /\ OnServerRemoved(p)
    [] FrontEndEvents = "OnNetEvent_BackEnd" ->
         Listener!LoseAndKeep(p) /\ UNCHANGED <<registry, down>>

\* The listener's accept callback.
OnConnect(p) ==
  /\ link[p] = "backlog"
  /\ \/ Listener!Admit(p) /\ link' = [link EXCEPT ![p] = "accepted"]
     \/ Listener!Refuse(p) /\ link' = [link EXCEPT ![p] = "refused"]
  /\ UNCHANGED <<servervars, m_peer_type, registry, up, down>>

\* Mutant of OnMessage_PktRegisterReq: the list goes to the bare type too.
PktRegisterReq_ListToType(p) ==
  LET t  == TypeOf(p)
      me == Info(t, m_channel_index[p])
      answer == <<Pkt("RegisterAck", Info(t, 0), {me}), Pkt("SyncAdd", Info(t, 0), FullList(t))>>
  IN  /\ m_eState[p] = "eConnected"
      /\ up[p] > 0
      /\ up' = [up EXCEPT ![p] = @ - 1]
      /\ m_peer_type' = [m_peer_type EXCEPT ![p] = t]
      /\ down' = [q \in Server |->
                    Broadcast(IF q = p /\ Reaches(p) THEN down[p] \o answer ELSE down[q],
                              q, "SyncAdd", me)]
      /\ registry' = registry \cup {me}
      /\ UNCHANGED <<servervars, link, m_freeindexes, m_mapChannels, m_eState,
                     m_channel_index>>

\* Mutant of OnMessage_PktRegisterReq: the acknowledgement goes to the new PeerInfo.
PktRegisterReq_AckToName(p) ==
  LET t  == TypeOf(p)
      me == Info(t, m_channel_index[p])
      answer == <<Pkt("RegisterAck", me, {me}), Pkt("SyncAdd", me, FullList(t))>>
  IN  /\ m_eState[p] = "eConnected"
      /\ up[p] > 0
      /\ up' = [up EXCEPT ![p] = @ - 1]
      /\ m_peer_type' = [m_peer_type EXCEPT ![p] = t]
      /\ down' = [q \in Server |->
                    Broadcast(IF q = p /\ Reaches(p) THEN down[p] \o answer ELSE down[q],
                              q, "SyncAdd", me)]
      /\ registry' = registry \cup {me}
      /\ UNCHANGED <<servervars, link, m_freeindexes, m_mapChannels, m_eState,
                     m_channel_index>>

\* OnMessage_PktRegisterReq on p's channel: label the channel, acknowledge to
\* the bare type the request came with, then OnServerAdded.
OnMessage_PktRegisterReq(p) ==
  LET t  == TypeOf(p)
      me == Info(t, m_channel_index[p])
      answer == <<Pkt("RegisterAck", Info(t, 0), {me}), Pkt("SyncAdd", me, FullList(t))>>
  IN  /\ m_eState[p] = "eConnected"
      /\ up[p] > 0
      /\ up' = [up EXCEPT ![p] = @ - 1]
      /\ m_peer_type' = [m_peer_type EXCEPT ![p] = t]
      /\ down' = [q \in Server |->
                    Broadcast(IF q = p /\ Reaches(p) THEN down[p] \o answer ELSE down[q],
                              q, "SyncAdd", me)]
      /\ registry' = registry \cup {me}
      /\ UNCHANGED <<servervars, link, m_freeindexes, m_mapChannels, m_eState,
                     m_channel_index>>

\* BEV_EVENT_EOF: the server closed its end and everything it sent was read.
Front_Eof(p) ==
  /\ link[p] = "accepted"
  /\ backState[p] = "none"
  /\ up[p] = 0
  /\ ChannelLost(p)
  /\ UNCHANGED <<servervars, link, up, m_peer_type>>

\* BEV_EVENT_ERROR: reset by the server or broken by the network; what was still
\* on its way to the Center is lost.
Front_Error(p) ==
  /\ link[p] = "accepted"
  /\ ChannelLost(p)
  /\ up' = [up EXCEPT ![p] = 0]
  /\ UNCHANGED <<servervars, link, m_peer_type>>

--------------------------------------------------------------------------------
(* Gate and world servers. *)

\* InitNetModule: Connect creates m_pBackEnd, labelled with the bare type.
Start(p) ==
  /\ proc[p] = "off"
  /\ proc' = [proc EXCEPT ![p] = "running"]
  /\ backState' = [backState EXCEPT ![p] = "eConnecting"]
  /\ UNCHANGED <<centervars, netvars, backInfo, view, viewTypes, clients>>

\* The kernel completes the handshake; each side hears of it on its own.
Handshake(p) ==
  /\ link[p] = "none"
  /\ backState[p] = "eConnecting"
  /\ link' = [link EXCEPT ![p] = "backlog"]
  /\ UNCHANGED <<centervars, servervars, up, down>>

\* Login2Center: SendMsg drops the request unless the back end is eConnected;
\* a connection the Center has given up carries nothing either.
Login2Center(p, state) ==
  up' = IF state = "eConnected" /\ m_eState[p] \in {"none", "eConnected"}
          THEN [up EXCEPT ![p] = @ + 1] ELSE up

\* DoBackEnd_Connected.
BackEnd_Connected(p) ==
  /\ backState[p] = "eConnecting"
  /\ link[p] # "none"
  /\ backState' = [backState EXCEPT ![p] = "eConnected"]
  /\ Login2Center(p, "eConnected")
  /\ UNCHANGED <<centervars, proc, backInfo, view, viewTypes, clients, link, down>>

\* m_pBackEnd.reset(): the channel is gone, and with it what it had not read.
DropBackEnd(p) ==
  /\ backState' = [backState EXCEPT ![p] = "none"]
  /\ down' = [down EXCEPT ![p] = << >>]

\* DoBackEnd_Disconnected: the Center closed the connection (it only does so to
\* refuse it).
BackEnd_Disconnected(p) ==
  /\ backState[p] = "eConnected"
  /\ link[p] = "refused"
  /\ DropBackEnd(p)
  /\ UNCHANGED <<centervars, proc, backInfo, view, viewTypes, clients, link, up>>

\* DoBackEnd_ConnBreak: the connection failed, or could not be made.
BackEnd_ConnBreak(p) ==
  /\ backState[p] # "none"
  /\ DropBackEnd(p)
  /\ UNCHANGED <<centervars, proc, backInfo, view, viewTypes, clients, link, up>>

\* The process dies, for a reason named by how.
Dies(p, how) == proc' = [proc EXCEPT ![p] = how] /\ DropBackEnd(p)

\* Killed from outside, or by an assertion this module does not model.
Kill(p) ==
  /\ proc[p] = "running"
  /\ Dies(p, "killed")
  /\ UNCHANGED <<centervars, backInfo, view, viewTypes, clients, link, up>>

Consume(p) == down' = [down EXCEPT ![p] = Tail(@)] /\ UNCHANGED <<proc, backState>>

\* A packet from the Center has been read, with the given first packet.
Receives(p, pkt) == backState[p] = "eConnected" /\ down[p] # << >> /\ pkt = Head(down[p])

\* ForwardPacketOnBackEnd hands over what is addressed to the server's own
\* PeerInfo.  PktRegisterAck: adopt the PeerInfo the Center assigned.
OnMessage_PktRegisterAck(p) ==
  LET pkt == Head(down[p])
  IN  /\ Receives(p, pkt)
      /\ pkt.dest = backInfo[p]
      /\ pkt.name = "RegisterAck"
      /\ backInfo' = [backInfo EXCEPT ![p] = CHOOSE x \in pkt.infos : TRUE]
      /\ Consume(p)
      /\ UNCHANGED <<centervars, view, viewTypes, clients, link, up>>

\* PktServerSync, add: enter the servers under their type.
OnMessage_PktServerSync_add(p) ==
  LET pkt == Head(down[p])
  IN  /\ Receives(p, pkt)
      /\ pkt.dest = backInfo[p]
      /\ pkt.name = "SyncAdd"
      /\ view' = [view EXCEPT ![p] = @ \cup pkt.infos]
      /\ viewTypes' = [viewTypes EXCEPT ![p] = @ \cup {x.type : x \in pkt.infos}]
      /\ Consume(p)
      /\ UNCHANGED <<centervars, backInfo, clients, link, up>>

\* PktServerSync, remove: the type must have had an entry before (line 56).
OnMessage_PktServerSync_remove(p) ==
  LET pkt == Head(down[p])
  IN  /\ Receives(p, pkt)
      /\ pkt.dest = backInfo[p]
      /\ pkt.name = "SyncRemove"
      /\ IF \A x \in pkt.infos : x.type \in viewTypes[p]
           THEN view' = [view EXCEPT ![p] = @ \ pkt.infos] /\ Consume(p)
           ELSE Dies(p, "ServerManager:56") /\ UNCHANGED view
      /\ UNCHANGED <<centervars, backInfo, viewTypes, clients, link, up>>

\* A packet for another PeerInfo: "wrong data" to a gate, which skips it, and
\* assert(0) to a world server (PacketProcessor_World.cpp:36).
WrongData(p) ==
  LET pkt == Head(down[p])
  IN  /\ Receives(p, pkt)
      /\ pkt.dest # backInfo[p]
      /\ IF p \in World THEN Dies(p, "World:36") ELSE Consume(p)
      /\ UNCHANGED <<centervars, backInfo, view, viewTypes, clients, link, up>>

BackEnd_Read(p) ==
  \/ OnMessage_PktRegisterAck(p)
  \/ OnMessage_PktServerSync_add(p)
  \/ OnMessage_PktServerSync_remove(p)
  \/ WrongData(p)

\* A client connects to gate g.  The gate's listener reports it to
\* OnNetEvent_BackEnd, hence to DoBackEnd_Connected: the gate registers once
\* more, through m_pBackEnd that it does not check.
ClientConnected(g) ==
  /\ FrontEndEvents = "OnNetEvent_BackEnd"
  /\ proc[g] = "running"
  /\ clients[g] < MaxClients
  /\ clients' = [clients EXCEPT ![g] = @ + 1]
  /\ IF backState[g] = "none"
       THEN Dies(g, "PacketProcessor:126") /\ UNCHANGED up
       ELSE Login2Center(g, backState[g]) /\ UNCHANGED <<proc, backState, down>>
  /\ UNCHANGED <<centervars, backInfo, view, viewTypes, link>>

\* One of g's clients leaves: reported to DoBackEnd_Disconnected or
\* DoBackEnd_ConnBreak, which drop the connection to the Center.
ClientDisconnected(g) ==
  /\ FrontEndEvents = "OnNetEvent_BackEnd"
  /\ proc[g] = "running"
  /\ clients[g] > 0
  /\ backState[g] # "none"
  /\ DropBackEnd(g)
  /\ UNCHANGED <<centervars, proc, backInfo, view, viewTypes, clients, link, up>>

--------------------------------------------------------------------------------
CenterStep(p) ==
  OnConnect(p) \/ OnMessage_PktRegisterReq(p) \/ Front_Eof(p) \/ Front_Error(p)

ServerStep(p) ==
  \/ Start(p) \/ Handshake(p)
  \/ BackEnd_Connected(p) \/ BackEnd_Disconnected(p) \/ BackEnd_ConnBreak(p)
  \/ BackEnd_Read(p) \/ Kill(p)

ClientStep(g) == ClientConnected(g) \/ ClientDisconnected(g)

Next ==
  \/ \E p \in Server : CenterStep(p) \/ ServerStep(p)
  \/ \E g \in Gate : ClientStep(g)

\* The event loops run on, and TCP delivers; nobody has to start, fail or leave.
Fairness ==
  \A p \in Server :
    /\ WF_vars(Handshake(p)) /\ WF_vars(OnConnect(p))
    /\ WF_vars(OnMessage_PktRegisterReq(p)) /\ WF_vars(Front_Eof(p))
    /\ WF_vars(BackEnd_Connected(p)) /\ WF_vars(BackEnd_Disconnected(p))
    /\ WF_vars(BackEnd_Read(p))

Spec == Init /\ [][Next]_vars /\ Fairness

--------------------------------------------------------------------------------
(* Safety. *)

\* The PeerInfo of the server whose channel is p's.
Registered(p) == Info(TypeOf(p), m_channel_index[p])

\* p is registered and both ends of its connection are in order.
Attached(p) ==
  /\ m_eState[p] = "eConnected"
  /\ m_peer_type[p] # "undefine"
  /\ backState[p] # "none"

\* What is known to somebody who knows v when he has read all of s: the last word
\* on x in s, or v where there is none, is that x is there.
Known(v, s) ==
  {x \in PeerInfo : \E k \in 0 .. Len(s) :
     /\ IF k = 0 THEN x \in v ELSE s[k].name = "SyncAdd" /\ x \in s[k].infos
     /\ \A j \in (k + 1) .. Len(s) : ~ (s[j].name = "SyncRemove" /\ x \in s[j].infos)}

\* What p will know when it has read all that is on its way to it.
WillKnow(p) == Known(view[p], down[p])

\* No change of the registry is lost between the Center and an attached server,
\* however registrations, disconnects and reads interleave: the server's map,
\* with the packets in flight applied, is the Center's map without the server's
\* own type (ServerManager_Center.cpp:14-59, ServerManager.cpp:42-64).
KnowsOrWillKnow == \A p \in Server : Attached(p) => WillKnow(p) = FullList(TypeOf(p))

\* A world server never meets its assert(0) for a packet addressed to somebody
\* else (PacketProcessor_World.cpp:36): the acknowledgement overtakes no
\* PktServerSync, and no channel index leads to a server other than the one
\* the packet names, even when the index has had another owner before.
WorldOnlyHearsItsName == \A p \in World : proc[p] # "World:36"

\* A gate may skip a repeated acknowledgement as "wrong data", but nothing the
\* Center tells it about the others (PacketProcessor_Gate.cpp:43-59), and it
\* never takes a packet for one of its clients' channels (line 50), which it
\* would while it has no channel index of its own.
NoSyncSkipped ==
  \A p \in Server :
    (backState[p] = "eConnected" /\ down[p] # << >> /\ Head(down[p]).dest # backInfo[p])
      => Head(down[p]).name = "RegisterAck" /\ backInfo[p].channel # 0

\* A PktServerSync never removes a server of a type its receiver never heard of
\* (assertion at ServerManager.cpp:56).
RemoveFindsType == \A p \in Server : proc[p] # "ServerManager:56"

\* The registry names live channels: a registered PeerInfo's channel index leads
\* to a channel of that peer type, that of a server of that type
\* (ConnectionManager.cpp:26-38, PacketProcessor_Center.cpp:56-69).
RegistryHasChannels ==
  \A x \in registry \ {CenterInfo} :
    /\ x.channel \in Listener!Index
    /\ m_mapChannels[x.channel] # NoConn
    /\ LET q == m_mapChannels[x.channel]
       IN  x = Registered(q) /\ m_peer_type[q] = x.type

\* The PeerInfo an attached server goes by leads back to it at the Center, so no
\* two attached servers go by the same one (PacketProcessor_Gate.cpp:148,
\* PacketProcessor_World.cpp:61).
IdentityRoutesBack ==
  \A p \in Server : (Attached(p) /\ backInfo[p].channel # 0) =>
                       Listener!GetChannel(backInfo[p].channel) = p

--------------------------------------------------------------------------------
(* What the servers may rely on. *)

\* What is known to somebody who knows v after each packet of s.
States(v, s) == [k \in 1 .. Len(s) |-> Known(v, SubSeq(s, 1, k))]

\* The entries that a server of type t is told of.
Concerns(t) == {x \in PeerInfo : x.type \in {"centerserver"} \cup (SyncTypes \ {t})}

\* The Center knows p by its PeerInfo.
Named(p) == m_eState[p] = "eConnected" /\ m_peer_type[p] # "undefine"

Nameless == Info("undefine", 0)
Names == [p \in Server |-> IF Named(p) THEN Registered(p) ELSE Nameless]
Subscribers == {p \in Server : Attached(p)}
Ahead == [p \in Server |-> States(view[p], down[p])]

Dir == INSTANCE Directory
         WITH Entry <- PeerInfo, Initial <- {CenterInfo}, NoEntry <- Nameless,
              Concern <- [p \in Server |-> Concerns(TypeOf(p))],
              name <- Names, told <- Subscribers, ahead <- Ahead

\* The packets implement the directory: every server goes through the states of the
\* Center's registry in their order, each of them a state that the registry was in,
\* whatever registrations and disconnects overlap (ServerManager_Center.cpp:14-95,
\* ServerManager.cpp:42-64).
ImplementsDirectory == Dir!DirectorySpec

--------------------------------------------------------------------------------
(* Liveness. *)

\* Once nobody starts or fails any more, every attached server knows exactly the
\* servers it should.
Convergence ==
  <>[](\A p \in Server : Attached(p) => view[p] = FullList(TypeOf(p)))

\* A server that got its connection gets its PeerInfo, or sees the connection
\* end; only a connection that failed at the Center's end alone leaves it waiting.
Answered ==
  \A p \in Server :
    backState[p] = "eConnected" ~>
      \/ backInfo[p].channel # 0
      \/ backState[p] = "none"
      \/ link[p] = "accepted" /\ m_eState[p] # "eConnected"
================================================================================
