------------------------------- MODULE GateFront -------------------------------
(***************************************************************************)
(* One GateServer between its clients and the Center: a client logs in,    *)
(* the gate asks the Center for permission, and answers with the list of   *)
(* roles.  Sources: src/GateServer (PacketProcessor_Gate.cpp, Guest.cpp,   *)
(* GuestManager.h, GateLoginManager.cpp), src/CenterServer                 *)
(* (LoginManager.cpp, ConnectionManager.cpp) and src/Client                *)
(* (GameState*.cpp, NetManagerClient.cpp).                                 *)
(*                                                                         *)
(* The Center is the queue of its connection with this gate: it answers    *)
(* every packet in order, as module Cluster has it.  A member of Client is *)
(* one run of the client program, which connects once.  The account data   *)
(* of a login is left out but for the fact that the guest has some.        *)
(***************************************************************************)
EXTENDS Naturals, Sequences

CONSTANTS Client,
          NoConn,
          MaxConns,        \* MAX_CONNECTION of the gate's listener
          GateIndex,       \* channel index the Center gives this gate
          FrontEndEvents   \* which callback Accept registers for channel events

ASSUME FrontEndEventsAssumption ==
  FrontEndEvents \in {"OnNetEvent_BackEnd", "OnNetEvent_FrontEnd"}
ASSUME NoClientAssumption == NoConn \notin Client
ASSUME GateIndexAssumption == MaxConns \in Nat \ {0} /\ GateIndex \in 1 .. 63

VARIABLES
  \* the gate
  m_freeindexes, m_mapChannels, m_eState, m_channel_index,  \* its listener
  m_peer_label,     \* per client channel: peer type and peer index
  guests,           \* GuestManager::m_mapGuests: the guest ids present
  guestCenter,      \* guests created when the Center's PeerInfo was known
  guestAccount,     \* guests whose InitAccountInfo was called
  gate,             \* "running", or the line it aborted at
  backState,        \* m_pBackEnd
  backChannel,      \* channel index in m_pBackEnd's PeerInfo, 0 before the ack
  knowsCenter,      \* ServerManager has the Center's PeerInfo
  toCenter, fromCenter,
  \* the clients
  m_CurGameState,
  link, toGate, toClient

listenervars == <<m_freeindexes, m_mapChannels, m_eState, m_channel_index>>
guestvars    == <<m_peer_label, guests, guestCenter, guestAccount>>
backvars     == <<backState, backChannel, knowsCenter, toCenter, fromCenter>>
clientvars   == <<m_CurGameState, link, toGate, toClient>>
vars         == <<listenervars, guestvars, gate, backvars, clientvars>>

Listener == INSTANCE NetServer WITH Conn <- Client

--------------------------------------------------------------------------------
\* The upper half of a client channel's PeerInfo: peer type and peer index, the
\* latter the channel index of the gate itself.
PeerLabel == [type : {"undefine", "gateserver"}, index : {0, GateIndex}]
Unlabelled == [type |-> "undefine", index |-> 0]
GateLabel(i) == [type |-> "gateserver", index |-> i]

\* A guest id is the PeerInfo of the client's channel.
GuestID == [label : PeerLabel, channel : 0 .. (MaxConns - 1)]
NoGuest == [label |-> Unlabelled, channel |-> 0]
IdOf(c) == [label |-> m_peer_label[c], channel |-> m_channel_index[c]]

\* "dest" tells whether the packet is addressed to somebody or to PeerInfo 0.
Packet == [name : {"PktRegisterReq", "PktRegisterAck", "PktServerSync",
                   "PktEnterPermissionReq", "PktEnterPermissionAck"},
           guest : GuestID, dest : BOOLEAN]
Pkt(name) == [name |-> name, guest |-> NoGuest, dest |-> TRUE]
PktFor(name, guest, dest) == [name |-> name, guest |-> guest, dest |-> dest]

TypeOK ==
  /\ Listener!NetServerTypeOK
  /\ m_peer_label \in [Client -> PeerLabel]
  /\ guests \subseteq GuestID /\ guestCenter \subseteq guests /\ guestAccount \subseteq guests
  /\ gate \in {"running", "Gate:80", "GateLoginManager:46", "PacketProcessor:126"}
  /\ backState \in {"none", "eConnecting", "eConnected"}
  /\ backChannel \in {0, GateIndex}
  /\ knowsCenter \in BOOLEAN
  /\ toCenter \in Seq(Packet) /\ fromCenter \in Seq(Packet)
  /\ m_CurGameState \in [Client -> {"eLoginForm", "eConnecting2Gate",
                          "eAccountCheckingPermission", "eAccountSelectingAvatar", "exited"}]
  /\ link \in [Client -> {"none", "backlog", "accepted", "refused"}]
  /\ toGate \in [Client -> 0 .. 1]
  /\ toClient \in [Client -> Nat]

\* GateServer::InitNetModule: Connect, then Accept.
Init ==
  /\ Listener!NetServerInit
  /\ m_peer_label = [c \in Client |-> Unlabelled]
  /\ guests = {} /\ guestCenter = {} /\ guestAccount = {}
  /\ gate = "running"
  /\ backState = "eConnecting" /\ backChannel = 0 /\ knowsCenter = FALSE
  /\ toCenter = << >> /\ fromCenter = << >>
  /\ m_CurGameState = [c \in Client |-> "eLoginForm"]
  /\ link = [c \in Client |-> "none"]
  /\ toGate = [c \in Client |-> 0]
  /\ toClient = [c \in Client |-> 0]

--------------------------------------------------------------------------------
(* The clients: the game states up to the choice of a role. *)

Exists(c) == m_CurGameState[c] \notin {"eLoginForm", "exited"}

\* GameState_eLoginForm::Enter goes on to eConnecting2Gate, which connects.
Client_Connect(c) ==
  /\ m_CurGameState[c] = "eLoginForm"
  /\ m_CurGameState' = [m_CurGameState EXCEPT ![c] = "eConnecting2Gate"]
  /\ UNCHANGED <<listenervars, guestvars, gate, backvars, link, toGate, toClient>>

\* The kernel completes the handshake, as long as the gate process lives.
Handshake(c) ==
  /\ gate = "running"
  /\ link[c] = "none"
  /\ m_CurGameState[c] = "eConnecting2Gate"
  /\ link' = [link EXCEPT ![c] = "backlog"]
  /\ UNCHANGED <<listenervars, guestvars, gate, backvars, m_CurGameState, toGate, toClient>>

\* DoBackEnd_Connected of the client: eAccountCheckingPermission sends
\* PktGameLoginReq.
Client_Connected(c) ==
  /\ m_CurGameState[c] = "eConnecting2Gate"
  /\ link[c] # "none"
  /\ m_CurGameState' = [m_CurGameState EXCEPT ![c] = "eAccountCheckingPermission"]
  /\ toGate' = [toGate EXCEPT ![c] = 1]
  /\ UNCHANGED <<listenervars, guestvars, gate, backvars, link, toClient>>

\* OnMessage_PktRoleListAck: eAccountSelectingAvatar, whatever the state was.
Client_OnMessage_PktRoleListAck(c) ==
  /\ Exists(c) /\ m_CurGameState[c] # "eConnecting2Gate"
  /\ toClient[c] > 0
  /\ toClient' = [toClient EXCEPT ![c] = @ - 1]
  /\ m_CurGameState' = [m_CurGameState EXCEPT ![c] = "eAccountSelectingAvatar"]
  /\ UNCHANGED <<listenervars, guestvars, gate, backvars, link, toGate>>

\* The player leaves; the operating system closes the connection.
Client_Exit(c) ==
  /\ Exists(c)
  /\ m_CurGameState' = [m_CurGameState EXCEPT ![c] = "exited"]
  /\ toClient' = [toClient EXCEPT ![c] = 0]
  /\ UNCHANGED <<listenervars, guestvars, gate, backvars, link, toGate>>

--------------------------------------------------------------------------------
(* The gate towards the Center. *)

\* SendPacket2BackEnd with m_pBackEnd non-null: SendMsg drops the packet unless
\* the channel is eConnected.
Send2Center(pkt) ==
  toCenter' = IF backState = "eConnected" THEN Append(toCenter, pkt) ELSE toCenter

\* m_pBackEnd.reset().
DropBackEnd ==
  /\ backState' = "none"
  /\ fromCenter' = << >>
  /\ toCenter' = << >>
  /\ UNCHANGED <<backChannel, knowsCenter>>

\* The gate dies; its variables keep the values it died with.
Aborts(line) == gate' = line /\ UNCHANGED backvars

\* DoBackEnd_Connected, for the connection to the Center itself.
BackEnd_Connected ==
  /\ gate = "running"
  /\ backState = "eConnecting"
  /\ backState' = "eConnected"
  /\ toCenter' = Append(toCenter, Pkt("PktRegisterReq"))
  /\ UNCHANGED <<listenervars, guestvars, gate, clientvars, backChannel, knowsCenter, fromCenter>>

\* DoBackEnd_Disconnected and DoBackEnd_ConnBreak.
BackEnd_Lost ==
  /\ gate = "running"
  /\ backState # "none"
  /\ DropBackEnd
  /\ UNCHANGED <<listenervars, guestvars, gate, clientvars>>

Reads(name) ==
  /\ gate = "running"
  /\ backState = "eConnected"
  /\ fromCenter # << >>
  /\ Head(fromCenter).name = name

\* The first acknowledgement gives the gate its channel index; the Center
\* addresses a later one to the bare type, which is then wrong data.
OnMessage_PktRegisterAck ==
  /\ Reads("PktRegisterAck")
  /\ backChannel' = GateIndex
  /\ fromCenter' = Tail(fromCenter)
  /\ UNCHANGED <<listenervars, guestvars, gate, clientvars, backState, knowsCenter, toCenter>>

\* The Center is in every list it sends to a server that registers.
OnMessage_PktServerSync ==
  /\ Reads("PktServerSync")
  /\ knowsCenter' = TRUE
  /\ fromCenter' = Tail(fromCenter)
  /\ UNCHANGED <<listenervars, guestvars, gate, clientvars, backState, backChannel, toCenter>>

\* PktEnterPermissionAck, addressed to a guest: handled if the peer index is the
\* gate's own and the channel is still there, else skipped.  The handler needs
\* the guest (line 46) and sends the role list to whoever has the channel now.
OnMessage_PktEnterPermissionAck ==
  LET guest == Head(fromCenter).guest
      c == Listener!GetChannel(guest.channel)
      mine == guest.label = GateLabel(backChannel) /\ c # NoConn
  IN  /\ Reads("PktEnterPermissionAck")
      /\ IF mine /\ guest \notin guests
           THEN Aborts("GateLoginManager:46") /\ UNCHANGED toClient
           ELSE /\ fromCenter' = Tail(fromCenter)
                /\ toClient' = IF mine /\ m_eState[c] = "eConnected" /\ Exists(c)
                                 THEN [toClient EXCEPT ![c] = @ + 1] ELSE toClient
                /\ UNCHANGED <<gate, backState, backChannel, knowsCenter, toCenter>>
      /\ UNCHANGED <<listenervars, guestvars, m_CurGameState, link, toGate>>

--------------------------------------------------------------------------------
(* The Center's end of the connection. *)

\* ConnectionManager::OnMessage_PktRegisterReq.
Center_PktRegisterReq ==
  /\ toCenter # << >> /\ Head(toCenter).name = "PktRegisterReq"
  /\ toCenter' = Tail(toCenter)
  /\ fromCenter' = fromCenter \o <<Pkt("PktRegisterAck"), Pkt("PktServerSync")>>
  /\ UNCHANGED <<listenervars, guestvars, gate, clientvars, backState, backChannel, knowsCenter>>

\* LoginManager::OnMessage_PktEnterPermissionReq grants every request.  One that
\* is addressed to PeerInfo 0, for want of the Center's, is routed to channel 0
\* and dropped (ForwardPacketOnFrontEnd, lines 37-48).
Center_PktEnterPermissionReq ==
  /\ toCenter # << >> /\ Head(toCenter).name = "PktEnterPermissionReq"
  /\ fromCenter' = IF Head(toCenter).dest
                     THEN Append(fromCenter,
                                 PktFor("PktEnterPermissionAck", Head(toCenter).guest, TRUE))
                     ELSE fromCenter
  /\ toCenter' = Tail(toCenter)
  /\ UNCHANGED <<listenervars, guestvars, gate, clientvars, backState, backChannel, knowsCenter>>

--------------------------------------------------------------------------------
(* The gate towards its clients. *)

\* GuestManager::CreateGuest: a new Guest, also under an id that is in use.
CreateGuest(id) ==
  /\ guests' = guests \cup {id}
  /\ guestCenter' = IF knowsCenter THEN guestCenter \cup {id} ELSE guestCenter \ {id}
  /\ guestAccount' = guestAccount \ {id}

\* Mutant of DoFrontEnd_Connected: the guest is created before the channel has
\* its label.
DoFrontEnd_Connected_GuestFirst(c) ==
  IF backState = "none"
    THEN UNCHANGED guestvars
    ELSE /\ m_peer_label' = [m_peer_label EXCEPT ![c] = GateLabel(backChannel)]
         /\ CreateGuest([label |-> Unlabelled, channel |-> Head(m_freeindexes)])

\* Mutant of DoFrontEnd_Connected: SetPeerIndex is not called.
DoFrontEnd_Connected_NoIndex(c) ==
  IF backState = "none"
    THEN UNCHANGED guestvars
    ELSE /\ m_peer_label' = [m_peer_label EXCEPT ![c] = GateLabel(0)]
         /\ CreateGuest([label |-> GateLabel(0), channel |-> Head(m_freeindexes)])

\* DoFrontEnd_Connected: without a back end the client is neither labelled nor
\* closed.
DoFrontEnd_Connected(c) ==
  IF backState = "none"
    THEN UNCHANGED guestvars
    ELSE LET label == GateLabel(backChannel)
         IN  /\ m_peer_label' = [m_peer_label EXCEPT ![c] = label]
             /\ CreateGuest([label |-> label, channel |-> Head(m_freeindexes)])

\* The same event through OnNetEvent_BackEnd: DoBackEnd_Connected, Login2Center,
\* with m_pBackEnd unchecked.
DoBackEnd_Connected_ForClient ==
  IF backState = "none"
    THEN Aborts("PacketProcessor:126")
    ELSE /\ Send2Center(Pkt("PktRegisterReq"))
         /\ UNCHANGED <<gate, backState, backChannel, knowsCenter, fromCenter>>

\* The listener's accept callback, with an index left and without.
OnConnect(c) ==
  /\ gate = "running"
  /\ link[c] = "backlog"
  /\ Listener!Admit(c)
  /\ link' = [link EXCEPT ![c] = "accepted"]
  /\ CASE FrontEndEvents = "OnNetEvent_FrontEnd" ->
            DoFrontEnd_Connected(c) /\ UNCHANGED <<gate, backvars>>
       [] FrontEndEvents = "OnNetEvent_BackEnd" ->
            DoBackEnd_Connected_ForClient /\ UNCHANGED guestvars
  /\ UNCHANGED <<m_CurGameState, toGate, toClient>>

OnConnect_Refused(c) ==
  /\ gate = "running"
  /\ link[c] = "backlog"
  /\ Listener!Refuse(c)
  /\ link' = [link EXCEPT ![c] = "refused"]
  /\ UNCHANGED <<guestvars, gate, backvars, m_CurGameState, toGate, toClient>>

\* ForwardPacketOnFrontEnd with PktGameLoginReq: the guest is looked up by the
\* channel's PeerInfo (line 80 without one), gets its account, and permission is
\* asked of the Center through m_pBackEnd, unchecked.
OnMessage_PktGameLoginReq(c) ==
  /\ gate = "running"
  /\ m_eState[c] = "eConnected"
  /\ toGate[c] = 1
  /\ toGate' = [toGate EXCEPT ![c] = 0]
  /\ IF IdOf(c) \notin guests
       THEN Aborts("Gate:80") /\ UNCHANGED guestAccount
       ELSE /\ guestAccount' = guestAccount \cup {IdOf(c)}
            /\ IF backState = "none"
                 THEN Aborts("PacketProcessor:126")
                 ELSE /\ Send2Center(PktFor("PktEnterPermissionReq", IdOf(c),
                                         IdOf(c) \in guestCenter))
                      /\ UNCHANGED <<gate, backState, backChannel, knowsCenter, fromCenter>>
  /\ UNCHANGED <<listenervars, m_peer_label, guests, guestCenter, m_CurGameState, link, toClient>>

\* Mutant of ChannelLost: RemoveGuest instead of RemoveChannel.
ChannelLost_RemoveGuest(c) ==
  /\ Listener!LoseAndKeep(c)
  /\ guests' = guests \ {IdOf(c)}
  /\ guestCenter' = guestCenter \ {IdOf(c)}
  /\ guestAccount' = guestAccount \ {IdOf(c)}
  /\ UNCHANGED <<m_peer_label, backvars>>

\* The end of a client's channel: removed by DoFrontEnd_*, the guest stays; or,
\* through OnNetEvent_BackEnd, m_pBackEnd is reset and the channel stays.
ChannelLost(c) ==
  CASE FrontEndEvents = "OnNetEvent_FrontEnd" ->
         Listener!LoseAndRemove(c) /\ UNCHANGED <<guestvars, backvars>>
    [] FrontEndEvents = "OnNetEvent_BackEnd" ->
         Listener!LoseAndKeep(c) /\ DropBackEnd /\ UNCHANGED guestvars

\* BEV_EVENT_EOF once the client's last packet was read.
Front_Eof(c) ==
  /\ gate = "running"
  /\ m_CurGameState[c] = "exited" /\ toGate[c] = 0
  /\ ChannelLost(c)
  /\ UNCHANGED <<gate, clientvars>>

\* BEV_EVENT_ERROR: what the client had sent is lost.
Front_Error(c) ==
  /\ gate = "running"
  /\ ChannelLost(c)
  /\ toGate' = [toGate EXCEPT ![c] = 0]
  /\ UNCHANGED <<gate, m_CurGameState, link, toClient>>

--------------------------------------------------------------------------------
ClientStep(c) ==
  \/ Client_Connect(c) \/ Handshake(c) \/ Client_Connected(c)
  \/ Client_OnMessage_PktRoleListAck(c) \/ Client_Exit(c)

GateStep(c) ==
  \/ OnConnect(c) \/ OnConnect_Refused(c)
  \/ OnMessage_PktGameLoginReq(c) \/ Front_Eof(c) \/ Front_Error(c)

BackEndStep ==
  \/ BackEnd_Connected \/ BackEnd_Lost
  \/ OnMessage_PktRegisterAck \/ OnMessage_PktServerSync \/ OnMessage_PktEnterPermissionAck
  \/ Center_PktRegisterReq \/ Center_PktEnterPermissionReq

Next == BackEndStep \/ \E c \in Client : ClientStep(c) \/ GateStep(c)

\* Event loops run and TCP delivers.  Nobody must connect, leave or fail.
Fairness ==
  /\ WF_vars(BackEnd_Connected)
  /\ WF_vars(OnMessage_PktRegisterAck) /\ WF_vars(OnMessage_PktServerSync)
  /\ WF_vars(OnMessage_PktEnterPermissionAck)
  /\ WF_vars(Center_PktRegisterReq) /\ WF_vars(Center_PktEnterPermissionReq)
  /\ \A c \in Client :
       /\ WF_vars(Handshake(c)) /\ WF_vars(Client_Connected(c))
       /\ WF_vars(Client_OnMessage_PktRoleListAck(c))
       /\ WF_vars(OnConnect(c)) /\ WF_vars(OnMessage_PktGameLoginReq(c))

Spec == Init /\ [][Next]_vars /\ Fairness

--------------------------------------------------------------------------------
\* Every packet of a client is from a known guest: the gate's assert(0)
\* (PacketProcessor_Gate.cpp:78-82) is never met.
EveryClientIsAGuest == gate # "Gate:80"

\* A permission that comes back always finds its guest, even when the client has
\* left meanwhile or another client has its channel index (assertion at
\* GateLoginManager.cpp:46).
AckFindsGuest == gate # "GateLoginManager:46"

\* While the gate has its Center no sequence of connects, logins and leaves takes
\* it down: every client that was let in is a guest by the time its login is read
\* (line 80), and m_pBackEnd is there to send through (PacketProcessor.cpp:126).
GateDiesOnlyWithoutCenter == gate # "running" => backState = "none"

\* A client that logs in through a gate that knew the Center when the client
\* connected gets its roles, unless a connection is lost or it leaves.
LoginAnswered ==
  \A c \in Client :
    (m_CurGameState[c] = "eAccountCheckingPermission" /\ IdOf(c) \in guestCenter) ~>
      \/ m_CurGameState[c] # "eAccountCheckingPermission"
      \/ m_eState[c] # "eConnected"
      \/ backState = "none"
================================================================================
