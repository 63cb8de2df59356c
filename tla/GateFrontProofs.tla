---------------------------- MODULE GateFrontProofs ----------------------------
(***************************************************************************)
(* For every set of clients and every size of the gate's channel table: a  *)
(* permission that comes back finds its guest, and, when Accept registers  *)
(* the callback meant for clients, the gate aborts only after it has lost  *)
(* the Center.                                                             *)
(*                                                                         *)
(* Guests are never removed, so that the packets between gate and Center   *)
(* name guests (GateInv), and a client that has a channel is a guest under *)
(* the PeerInfo it has, unless it was let in without a back end, which     *)
(* never comes back (AdmittedInv).  That no other client's PeerInfo        *)
(* changes with an admission rests on the channel table (NetServerProofs). *)
(***************************************************************************)
EXTENDS GateFront, SequenceTheorems, TLAPS

Table == INSTANCE NetServerProofs WITH Conn <- Client

\* Packets that name a guest, if they are about one.
Of(G) == {pkt \in Packet :
            pkt.name \in {"PktEnterPermissionReq", "PktEnterPermissionAck"} => pkt.guest \in G}

GateInv ==
  /\ TypeOK
  /\ Table!NetServerInv
  /\ toCenter \in Seq(Of(guests)) /\ fromCenter \in Seq(Of(guests))
  /\ AckFindsGuest

\* For a gate whose client events go to OnNetEvent_FrontEnd.
AdmittedInv ==
  /\ \A c \in Client : m_eState[c] = "eConnected" => IdOf(c) \in guests \/ backState = "none"
  /\ GateDiesOnlyWithoutCenter

--------------------------------------------------------------------------------
LEMMA SeqMonotone ==
  ASSUME NEW S, NEW T, S \subseteq T, NEW s \in Seq(S)
  PROVE  s \in Seq(T)
  <1>1. Len(s) \in Nat /\ s \in [1 .. Len(s) -> S]
    BY LenProperties
  <1> QED  BY <1>1, SeqDef

LEMMA Constants ==
  /\ MaxConns \in Nat \ {0} /\ NoConn \notin Client
  /\ 0 \in 0 .. (MaxConns - 1)
  /\ \A i \in {0, GateIndex} : GateLabel(i) \in PeerLabel
  /\ Unlabelled \in PeerLabel /\ NoGuest \in GuestID
  /\ \A name \in {"PktRegisterReq", "PktRegisterAck", "PktServerSync"} :
       Pkt(name) \in Packet /\ Pkt(name).name = name
  BY NoClientAssumption, GateIndexAssumption
     DEF GateLabel, Unlabelled, PeerLabel, NoGuest, GuestID, Pkt, Packet

LEMMA PlainPacket ==
  ASSUME NEW name \in {"PktRegisterReq", "PktRegisterAck", "PktServerSync"}, NEW G
  PROVE  Pkt(name) \in Of(G)
  BY Constants DEF Of

LEMMA GuestPacket ==
  ASSUME NEW name \in {"PktEnterPermissionReq", "PktEnterPermissionAck"},
         NEW G \in SUBSET GuestID, NEW g \in G, NEW dest \in BOOLEAN
  PROVE  PktFor(name, g, dest) \in Of(G)
  BY DEF Of, PktFor, Packet

LEMMA TypeFacts ==
  ASSUME GateInv
  PROVE  /\ m_eState \in [Client -> Listener!ConnState]
         /\ m_channel_index \in [Client -> 0 .. (MaxConns - 1)]
         /\ \A c \in Client : IdOf(c) \in GuestID
  BY DEF GateInv, TypeOK, Listener!NetServerTypeOK, IdOf, GuestID

LEMMA TableSame ==
  ASSUME Table!NetServerInv, UNCHANGED listenervars
  PROVE  Table!NetServerInv' /\ (Listener!NetServerTypeOK => Listener!NetServerTypeOK')
  <1>1. UNCHANGED Table!nsvars
    BY DEF Table!nsvars, listenervars
  <1>2. Table!NetServerInv'
    BY <1>1, Constants, Table!StepInv
  <1> QED  BY <1>2 DEF listenervars, Listener!NetServerTypeOK

LEMMA TableStep ==
  ASSUME Table!NetServerInv, NEW c \in Client,
         \/ Listener!Admit(c) \/ Listener!Refuse(c)
         \/ Listener!LoseAndKeep(c) \/ Listener!LoseAndRemove(c)
  PROVE  Table!NetServerInv' /\ Listener!NetServerTypeOK'
  <1>1. /\ Listener!Admit(c) => Table!Admit(c)
        /\ Listener!Refuse(c) => Table!Refuse(c)
        /\ Listener!LoseAndKeep(c) => Table!LoseAndKeep(c)
        /\ Listener!LoseAndRemove(c) => Table!LoseAndRemove(c)
    BY DEF Listener!Admit, Listener!Refuse, Listener!LoseAndKeep, Listener!LoseAndRemove,
           Table!Admit, Table!Refuse, Table!LoseAndKeep, Table!LoseAndRemove
  <1>2. Table!NetServerInv'
    BY <1>1, Constants, Table!AdmitInv, Table!StateOnlyInv, Table!LoseAndRemoveInv
  <1> QED  BY <1>2 DEF Table!NetServerInv, Table!NetServerTypeOK, Table!Index, Table!ConnState,
                      Listener!NetServerTypeOK, Listener!Index, Listener!ConnState

--------------------------------------------------------------------------------
(* The steps towards the Center. *)

\* A packet sent to the Center names a guest, if the one given does.
LEMMA SendOK ==
  ASSUME GateInv, NEW pkt \in Of(guests), Send2Center(pkt)
  PROVE  toCenter' \in Seq(Of(guests))
  BY AppendProperties DEF Send2Center, GateInv

\* What is left to show of a step that changes neither listener nor guests.
LEMMA MailStep ==
  ASSUME GateInv, UNCHANGED listenervars, UNCHANGED guestvars,
         toCenter' \in Seq(Of(guests)), fromCenter' \in Seq(Of(guests)),
         gate' \in {"running", "Gate:80", "PacketProcessor:126"} \/ gate' = gate,
         backState' \in {"none", "eConnecting", "eConnected"},
         backChannel' \in {0, GateIndex}, knowsCenter' \in BOOLEAN,
         m_CurGameState' \in [Client -> {"eLoginForm", "eConnecting2Gate",
                          "eAccountCheckingPermission", "eAccountSelectingAvatar", "exited"}],
         link' \in [Client -> {"none", "backlog", "accepted", "refused"}],
         toGate' \in [Client -> 0 .. 1], toClient' \in [Client -> Nat]
  PROVE  GateInv'
  <1>1. Of(guests) \subseteq Packet
    BY DEF Of
  <1>2. toCenter' \in Seq(Packet) /\ fromCenter' \in Seq(Packet)
    BY <1>1, SeqMonotone
  <1>3. Table!NetServerInv' /\ Listener!NetServerTypeOK'
    BY TableSame DEF GateInv, TypeOK
  <1>4. guests' = guests /\ guestCenter' = guestCenter /\ guestAccount' = guestAccount
        /\ m_peer_label' = m_peer_label
    BY DEF guestvars
  <1>5. TypeOK'
    BY <1>2, <1>3, <1>4 DEF GateInv, TypeOK
  <1>6. AckFindsGuest'
    BY DEF GateInv, AckFindsGuest
  <1> QED  BY <1>3, <1>4, <1>5, <1>6 DEF GateInv

LEMMA BackEndStepInv ==
  ASSUME GateInv, BackEndStep
  PROVE  GateInv'
  <1> DEFINE O == Of(guests)
  <1>1. toCenter \in Seq(O) /\ fromCenter \in Seq(O)
    BY DEF GateInv
  <1>2. /\ fromCenter # << >> => Head(fromCenter) \in O /\ Tail(fromCenter) \in Seq(O)
        /\ toCenter # << >> => Head(toCenter) \in O /\ Tail(toCenter) \in Seq(O)
    BY <1>1, HeadTailProperties
  <1>3. << >> \in Seq(O)
    BY EmptySeq
  <1>4. \A name \in {"PktRegisterReq", "PktRegisterAck", "PktServerSync"} : Pkt(name) \in O
    BY PlainPacket
  <1> HIDE DEF O
  <1>5. CASE BackEnd_Connected
    <2>1. toCenter' \in Seq(O)
      BY <1>1, <1>4, <1>5, AppendProperties DEF BackEnd_Connected
    <2> QED  BY <1>1, <1>5, <2>1, MailStep
             DEF BackEnd_Connected, GateInv, TypeOK, clientvars, O
  <1>6. CASE BackEnd_Lost
    BY <1>3, <1>6, MailStep
       DEF BackEnd_Lost, DropBackEnd, GateInv, TypeOK, clientvars, O
  <1>7. CASE OnMessage_PktRegisterAck
    BY <1>1, <1>2, <1>7, MailStep
       DEF OnMessage_PktRegisterAck, Reads, GateInv, TypeOK, clientvars, O
  <1>8. CASE OnMessage_PktServerSync
    BY <1>1, <1>2, <1>8, MailStep
       DEF OnMessage_PktServerSync, Reads, GateInv, TypeOK, clientvars, O
  <1>9. CASE OnMessage_PktEnterPermissionAck
    <2>1. Head(fromCenter).guest \in guests /\ Tail(fromCenter) \in Seq(O)
      BY <1>2, <1>9 DEF OnMessage_PktEnterPermissionAck, Reads, Of, O
    <2>2. /\ fromCenter' = Tail(fromCenter) /\ UNCHANGED <<gate, backState, backChannel, knowsCenter, toCenter>>
          /\ toClient' = toClient \/ \E c : toClient' = [toClient EXCEPT ![c] = @ + 1]
          /\ UNCHANGED <<listenervars, guestvars, m_CurGameState, link, toGate>>
      BY <1>9, <2>1 DEF OnMessage_PktEnterPermissionAck
    <2>3. toClient' \in [Client -> Nat]
      <3>1. toClient \in [Client -> Nat]
        BY DEF GateInv, TypeOK
      <3> QED  BY <2>2, <3>1
    <2> QED  BY <1>1, <2>1, <2>2, <2>3, MailStep DEF GateInv, TypeOK, O
  <1>10. CASE Center_PktRegisterReq
    <2>1. <<Pkt("PktRegisterAck"), Pkt("PktServerSync")>> \in Seq(O)
      BY <1>4
    <2>2. fromCenter' \in Seq(O)
      BY <1>1, <1>10, <2>1, ConcatProperties DEF Center_PktRegisterReq
    <2> QED  BY <1>2, <1>10, <2>2, MailStep
             DEF Center_PktRegisterReq, GateInv, TypeOK, clientvars, O
  <1>11. CASE Center_PktEnterPermissionReq
    <2>1. Head(toCenter).guest \in guests
      BY <1>2, <1>11 DEF Center_PktEnterPermissionReq, Of, O
    <2>2. PktFor("PktEnterPermissionAck", Head(toCenter).guest, TRUE) \in O
      BY <2>1, GuestPacket DEF GateInv, TypeOK, O
    <2>3. fromCenter' \in Seq(O)
      BY <1>1, <1>11, <2>2, AppendProperties DEF Center_PktEnterPermissionReq
    <2> QED  BY <1>2, <1>11, <2>3, MailStep
             DEF Center_PktEnterPermissionReq, GateInv, TypeOK, clientvars, O
  <1> QED  BY <1>5, <1>6, <1>7, <1>8, <1>9, <1>10, <1>11 DEF BackEndStep

--------------------------------------------------------------------------------
(* The steps of a client and of its channel. *)

GameState == {"eLoginForm", "eConnecting2Gate", "eAccountCheckingPermission",
              "eAccountSelectingAvatar", "exited"}

LEMMA ClientStepInv ==
  ASSUME GateInv, NEW c \in Client, ClientStep(c)
  PROVE  GateInv'
  <1>1. UNCHANGED listenervars /\ UNCHANGED guestvars /\ UNCHANGED backvars /\ gate' = gate
    BY DEF ClientStep, Client_Connect, Handshake, Client_Connected,
           Client_OnMessage_PktRoleListAck, Client_Exit
  <1>2. /\ m_CurGameState \in [Client -> GameState]
        /\ link \in [Client -> {"none", "backlog", "accepted", "refused"}]
        /\ toGate \in [Client -> 0 .. 1] /\ toClient \in [Client -> Nat]
    BY DEF GateInv, TypeOK, GameState
  <1>3. m_CurGameState' \in [Client -> GameState]
    BY <1>2 DEF GameState, ClientStep, Client_Connect, Handshake, Client_Connected,
                Client_OnMessage_PktRoleListAck, Client_Exit
  <1>4. link' \in [Client -> {"none", "backlog", "accepted", "refused"}]
    BY <1>2 DEF ClientStep, Client_Connect, Handshake, Client_Connected,
                Client_OnMessage_PktRoleListAck, Client_Exit
  <1>5. toGate' \in [Client -> 0 .. 1]
    BY <1>2 DEF ClientStep, Client_Connect, Handshake, Client_Connected,
                Client_OnMessage_PktRoleListAck, Client_Exit
  <1>6. toClient' \in [Client -> Nat]
    BY <1>2 DEF ClientStep, Client_Connect, Handshake, Client_Connected,
                Client_OnMessage_PktRoleListAck, Client_Exit
  <1> QED  BY <1>1, <1>3, <1>4, <1>5, <1>6, MailStep DEF GateInv, TypeOK, GameState, backvars

\* An admission gives the client the index at the head of the FIFO, and changes no
\* other client's PeerInfo.
LEMMA AdmitFacts ==
  ASSUME GateInv, NEW c \in Client, Listener!Admit(c)
  PROVE  /\ Head(m_freeindexes) \in 0 .. (MaxConns - 1)
         /\ m_eState[c] = "none"
         /\ m_eState' = [m_eState EXCEPT ![c] = "eConnected"]
         /\ m_channel_index' = [m_channel_index EXCEPT ![c] = Head(m_freeindexes)]
  <1>1. m_freeindexes \in Seq(Listener!Index) /\ m_freeindexes # << >>
    BY DEF GateInv, TypeOK, Listener!NetServerTypeOK, Listener!Admit
  <1>2. Head(m_freeindexes) \in Listener!Index
    BY <1>1, HeadTailProperties
  <1> QED  BY <1>2, Constants DEF Listener!Index, Listener!Admit

\* Guests are only ever added.
LEMMA OnConnectGuests ==
  ASSUME GateInv, NEW c \in Client, OnConnect(c)
  PROVE  /\ guests \subseteq guests' /\ guests' \subseteq GuestID
         /\ guestCenter' \subseteq guests' /\ guestAccount' \subseteq guests'
         /\ m_peer_label' \in [Client -> PeerLabel]
         /\ toCenter' \in Seq(Of(guests)) /\ fromCenter' = fromCenter
         /\ backState' = backState /\ backChannel' = backChannel /\ knowsCenter' = knowsCenter
         /\ gate' \in {"running", "PacketProcessor:126"}
  <1>1. Listener!Admit(c) /\ gate = "running"
    BY DEF OnConnect
  <1>2. Head(m_freeindexes) \in 0 .. (MaxConns - 1)
    BY <1>1, AdmitFacts
  <1>3. CASE FrontEndEvents = "OnNetEvent_FrontEnd"
    <2>1. DoFrontEnd_Connected(c) /\ UNCHANGED <<gate, backvars>>
      BY <1>3 DEF OnConnect
    <2>2. GateLabel(backChannel) \in PeerLabel
      BY Constants DEF GateInv, TypeOK
    <2>3. [label |-> GateLabel(backChannel), channel |-> Head(m_freeindexes)] \in GuestID
      BY <1>2, <2>2 DEF GuestID
    <2> QED  BY <1>1, <2>1, <2>2, <2>3
             DEF DoFrontEnd_Connected, CreateGuest, guestvars, backvars, GateInv, TypeOK
  <1>4. CASE FrontEndEvents = "OnNetEvent_BackEnd"
    <2>1. DoBackEnd_Connected_ForClient /\ UNCHANGED guestvars
      BY <1>4 DEF OnConnect
    <2>2. CASE backState = "none"
      BY <2>1, <2>2 DEF DoBackEnd_Connected_ForClient, Aborts, guestvars, backvars, GateInv, TypeOK
    <2>3. CASE backState # "none"
      BY <1>1, <2>1, <2>3, PlainPacket, SendOK
         DEF DoBackEnd_Connected_ForClient, guestvars, GateInv, TypeOK
    <2> QED  BY <2>2, <2>3
  <1> QED  BY <1>3, <1>4, FrontEndEventsAssumption

LEMMA OnConnectInv ==
  ASSUME GateInv, NEW c \in Client, OnConnect(c)
  PROVE  GateInv'
  <1> USE OnConnectGuests
  <1>1. Of(guests) \subseteq Of(guests') /\ Of(guests') \subseteq Packet
    BY DEF Of
  <1>2. toCenter' \in Seq(Of(guests')) /\ fromCenter' \in Seq(Of(guests'))
    BY <1>1, SeqMonotone DEF GateInv
  <1>3. toCenter' \in Seq(Packet) /\ fromCenter' \in Seq(Packet)
    BY <1>1, <1>2, SeqMonotone
  <1>4. Table!NetServerInv' /\ Listener!NetServerTypeOK'
    BY TableStep DEF GateInv, OnConnect
  <1>5. link' \in [Client -> {"none", "backlog", "accepted", "refused"}]
        /\ UNCHANGED <<m_CurGameState, toGate, toClient>>
    BY DEF OnConnect, GateInv, TypeOK
  <1>6. TypeOK'
    BY <1>3, <1>4, <1>5 DEF GateInv, TypeOK
  <1> QED  BY <1>2, <1>4, <1>6 DEF GateInv, AckFindsGuest

\* The steps that change the table and leave the guests.
LEMMA TableOnlyInv ==
  ASSUME GateInv, NEW c \in Client, OnConnect_Refused(c) \/ Front_Eof(c) \/ Front_Error(c)
  PROVE  GateInv'
  <1>1. /\ Listener!Refuse(c) \/ Listener!LoseAndRemove(c) \/ Listener!LoseAndKeep(c)
        /\ UNCHANGED guestvars /\ gate' = gate /\ (UNCHANGED backvars \/ DropBackEnd)
    BY FrontEndEventsAssumption DEF OnConnect_Refused, Front_Eof, Front_Error, ChannelLost
  <1>2. Table!NetServerInv' /\ Listener!NetServerTypeOK'
    BY <1>1, TableStep DEF GateInv
  <1>3. /\ link' \in [Client -> {"none", "backlog", "accepted", "refused"}]
        /\ toGate' \in [Client -> 0 .. 1]
        /\ UNCHANGED <<m_CurGameState, toClient>>
    <2>1. /\ link \in [Client -> {"none", "backlog", "accepted", "refused"}]
          /\ toGate \in [Client -> 0 .. 1]
      BY DEF GateInv, TypeOK
    <2>2. CASE OnConnect_Refused(c)
      BY <2>1, <2>2 DEF OnConnect_Refused
    <2>3. CASE Front_Eof(c)
      BY <2>1, <2>3 DEF Front_Eof, clientvars
    <2>4. CASE Front_Error(c)
      BY <2>1, <2>4 DEF Front_Error
    <2> QED  BY <2>2, <2>3, <2>4
  <1>4. << >> \in Seq(Of(guests)) /\ << >> \in Seq(Packet)
    BY EmptySeq
  <1>5. /\ toCenter' \in Seq(Of(guests)) /\ fromCenter' \in Seq(Of(guests))
        /\ toCenter' \in Seq(Packet) /\ fromCenter' \in Seq(Packet)
        /\ backState' \in {"none", "eConnecting", "eConnected"}
        /\ backChannel' = backChannel /\ knowsCenter' = knowsCenter
    BY <1>1, <1>4 DEF backvars, DropBackEnd, GateInv, TypeOK
  <1>6. TypeOK'
    BY <1>1, <1>2, <1>3, <1>5 DEF guestvars, GateInv, TypeOK
  <1> QED  BY <1>1, <1>2, <1>5, <1>6 DEF guestvars, GateInv, AckFindsGuest

LEMMA LoginReqInv ==
  ASSUME GateInv, NEW c \in Client, OnMessage_PktGameLoginReq(c)
  PROVE  GateInv'
  <1>1. /\ gate = "running" /\ UNCHANGED listenervars
        /\ UNCHANGED <<m_peer_label, guests, guestCenter, m_CurGameState, link, toClient>>
        /\ toGate' \in [Client -> 0 .. 1]
    BY DEF OnMessage_PktGameLoginReq, GateInv, TypeOK
  <1>2. guestAccount' \subseteq guests /\ gate' \in {"running", "Gate:80", "PacketProcessor:126"}
    BY <1>1 DEF OnMessage_PktGameLoginReq, Aborts, GateInv, TypeOK
  <1>3. toCenter' \in Seq(Of(guests))
    <2>1. CASE UNCHANGED backvars
      BY <2>1 DEF backvars, GateInv
    <2>2. CASE /\ IdOf(c) \in guests
               /\ Send2Center(PktFor("PktEnterPermissionReq", IdOf(c), IdOf(c) \in guestCenter))
      <3>1. (IdOf(c) \in guestCenter) \in BOOLEAN
        OBVIOUS
      <3>2. PktFor("PktEnterPermissionReq", IdOf(c), IdOf(c) \in guestCenter) \in Of(guests)
        BY <2>2, <3>1, GuestPacket DEF GateInv, TypeOK
      <3> QED  BY <2>2, <3>2, SendOK
    <2> QED  BY <2>1, <2>2 DEF OnMessage_PktGameLoginReq, Aborts
  <1>4. UNCHANGED <<fromCenter, backState, backChannel, knowsCenter>>
    BY DEF OnMessage_PktGameLoginReq, Aborts, backvars
  <1>5. Of(guests) \subseteq Packet
    BY DEF Of
  <1>6. toCenter' \in Seq(Packet)
    BY <1>3, <1>5, SeqMonotone
  <1>7. Table!NetServerInv' /\ Listener!NetServerTypeOK'
    BY <1>1, TableSame DEF GateInv, TypeOK
  <1>8. TypeOK'
    BY <1>1, <1>2, <1>4, <1>6, <1>7 DEF GateInv, TypeOK
  <1> QED  BY <1>1, <1>2, <1>3, <1>4, <1>7, <1>8 DEF GateInv, AckFindsGuest

LEMMA GateInitInv == Init => GateInv
  <1> SUFFICES ASSUME Init PROVE GateInv
    OBVIOUS
  <1>1. Table!NetServerInv
    BY Constants, Table!InitInv DEF Init, Listener!NetServerInit, Table!NetServerInit,
                                    Listener!Index, Table!Index
  <1>2. Listener!NetServerTypeOK
    BY <1>1 DEF Table!NetServerInv, Table!NetServerTypeOK, Table!Index, Table!ConnState,
                Listener!NetServerTypeOK, Listener!Index, Listener!ConnState
  <1>3. TypeOK
    <2>1. /\ m_peer_label \in [Client -> PeerLabel]
          /\ toCenter \in Seq(Packet) /\ fromCenter \in Seq(Packet)
      BY Constants, EmptySeq DEF Init
    <2>2. /\ m_CurGameState \in [Client -> GameState]
          /\ link \in [Client -> {"none", "backlog", "accepted", "refused"}]
      BY DEF Init, GameState
    <2>3. toGate \in [Client -> 0 .. 1] /\ toClient \in [Client -> Nat]
      BY DEF Init
    <2> QED  BY <1>2, <2>1, <2>2, <2>3 DEF Init, TypeOK, GameState
  <1>4. << >> \in Seq(Of(guests))
    BY EmptySeq
  <1> QED  BY <1>1, <1>3, <1>4 DEF Init, GateInv, AckFindsGuest

LEMMA GateStepInv == GateInv /\ [Next]_vars => GateInv'
  <1> SUFFICES ASSUME GateInv, [Next]_vars PROVE GateInv'
    OBVIOUS
  <1>1. CASE UNCHANGED vars
    BY <1>1, MailStep DEF vars, clientvars, backvars, GateInv, TypeOK
  <1>2. CASE Next
    BY <1>2, BackEndStepInv, ClientStepInv, OnConnectInv, TableOnlyInv, LoginReqInv
       DEF Next, GateStep
  <1> QED  BY <1>1, <1>2

LEMMA GateInvariant == Spec => []GateInv
  BY GateInitInv, GateStepInv, PTL DEF Spec

\* Guests, packets and channels keep their types, whoever connects and leaves.
THEOREM GateTypeCorrect == Spec => []TypeOK
  <1>1. GateInv => TypeOK
    BY DEF GateInv
  <1> QED  BY GateInvariant, <1>1, PTL

\* No permission ever comes back for a guest the gate does not have: the assertion at
\* GateLoginManager.cpp:46 holds for every client and every reuse of an index.
THEOREM AckAlwaysFindsGuest == Spec => []AckFindsGuest
  <1>1. GateInv => AckFindsGuest
    BY DEF GateInv
  <1> QED  BY GateInvariant, <1>1, PTL

--------------------------------------------------------------------------------
(* The gate whose client events go to OnNetEvent_FrontEnd. *)

\* A step that lets nobody in keeps the admitted ones guests, unless it aborts.
LEMMA AdmittedFrame ==
  ASSUME AdmittedInv, gate' = gate \/ backState = "none",
         backState = "none" => backState' = "none",
         guests' = guests, m_peer_label' = m_peer_label, m_channel_index' = m_channel_index,
         \A c \in Client : m_eState'[c] = "eConnected" => m_eState[c] = "eConnected"
  PROVE  AdmittedInv'
  BY DEF AdmittedInv, GateDiesOnlyWithoutCenter, IdOf

LEMMA AdmittedStep ==
  ASSUME FrontEndEvents = "OnNetEvent_FrontEnd", GateInv, AdmittedInv, Next
  PROVE  AdmittedInv'
  <1>1. CASE BackEndStep
    <2>1. UNCHANGED listenervars /\ UNCHANGED guestvars
          /\ (backState = "none" => backState' = "none")
      BY <1>1 DEF BackEndStep, BackEnd_Connected, BackEnd_Lost, DropBackEnd,
                  OnMessage_PktRegisterAck, OnMessage_PktServerSync,
                  OnMessage_PktEnterPermissionAck, Reads, Aborts, backvars,
                  Center_PktRegisterReq, Center_PktEnterPermissionReq
    <2>2. gate' = gate
      <3>1. CASE OnMessage_PktEnterPermissionAck
        <4>1. Head(fromCenter) \in Of(guests)
          BY <3>1, HeadTailProperties DEF OnMessage_PktEnterPermissionAck, Reads, GateInv
        <4> QED  BY <3>1, <4>1 DEF OnMessage_PktEnterPermissionAck, Reads, Of
      <3>2. CASE ~ OnMessage_PktEnterPermissionAck
        BY <1>1, <3>2 DEF BackEndStep, BackEnd_Connected, BackEnd_Lost,
                  OnMessage_PktRegisterAck, OnMessage_PktServerSync,
                  Center_PktRegisterReq, Center_PktEnterPermissionReq
      <3> QED  BY <3>1, <3>2
    <2> QED  BY <2>1, <2>2, AdmittedFrame DEF listenervars, guestvars
  <1>2. ASSUME NEW c \in Client, ClientStep(c)
        PROVE  AdmittedInv'
    <2>1. UNCHANGED listenervars /\ UNCHANGED guestvars /\ UNCHANGED backvars /\ gate' = gate
      BY <1>2 DEF ClientStep, Client_Connect, Handshake, Client_Connected,
                  Client_OnMessage_PktRoleListAck, Client_Exit
    <2> QED  BY <2>1, AdmittedFrame DEF listenervars, guestvars, backvars
  <1>3. ASSUME NEW c \in Client, OnConnect(c)
        PROVE  AdmittedInv'
    <2>1. Listener!Admit(c) /\ DoFrontEnd_Connected(c) /\ UNCHANGED <<gate, backvars>>
      BY <1>3 DEF OnConnect
    <2>2. gate' = gate /\ backState' = backState
      BY <2>1 DEF backvars
    <2>3. CASE backState = "none"
      BY <2>2, <2>3 DEF AdmittedInv, GateDiesOnlyWithoutCenter
    <2>4. CASE backState # "none"
      <3> DEFINE id == [label |-> GateLabel(backChannel), channel |-> Head(m_freeindexes)]
      <3>1. /\ m_peer_label' = [m_peer_label EXCEPT ![c] = GateLabel(backChannel)]
            /\ guests' = guests \cup {id}
        BY <2>1, <2>4 DEF DoFrontEnd_Connected, CreateGuest
      <3>2. /\ m_eState' = [m_eState EXCEPT ![c] = "eConnected"]
            /\ m_channel_index' = [m_channel_index EXCEPT ![c] = Head(m_freeindexes)]
        BY <2>1, AdmitFacts
      <3>3. IdOf(c)' = id
        BY <3>1, <3>2, TypeFacts DEF IdOf, GateInv, TypeOK
      <3>4. \A d \in Client \ {c} : IdOf(d)' = IdOf(d) /\ m_eState'[d] = m_eState[d]
        BY <3>1, <3>2, TypeFacts DEF IdOf, GateInv, TypeOK
      <3>5. \A d \in Client : m_eState'[d] = "eConnected" => IdOf(d)' \in guests'
        BY <2>4, <3>1, <3>3, <3>4 DEF AdmittedInv
      <3> QED  BY <2>2, <3>5 DEF AdmittedInv, GateDiesOnlyWithoutCenter
    <2> QED  BY <2>3, <2>4
  <1>4. ASSUME NEW c \in Client, OnConnect_Refused(c) \/ Front_Eof(c) \/ Front_Error(c)
        PROVE  AdmittedInv'
    <2>1. /\ Listener!Refuse(c) \/ Listener!LoseAndRemove(c)
          /\ UNCHANGED guestvars /\ UNCHANGED backvars /\ gate' = gate
      BY <1>4 DEF OnConnect_Refused, Front_Eof, Front_Error, ChannelLost
    <2>2. /\ m_channel_index' = m_channel_index
          /\ \A d \in Client : m_eState'[d] = "eConnected" => m_eState[d] = "eConnected"
      BY <2>1, TypeFacts DEF Listener!Refuse, Listener!LoseAndRemove
    <2> QED  BY <2>1, <2>2, AdmittedFrame DEF guestvars, backvars
  <1>5. ASSUME NEW c \in Client, OnMessage_PktGameLoginReq(c)
        PROVE  AdmittedInv'
    <2>1. /\ UNCHANGED listenervars /\ m_eState[c] = "eConnected"
          /\ UNCHANGED <<m_peer_label, guests, backState>>
      BY <1>5 DEF OnMessage_PktGameLoginReq, Aborts, backvars
    <2>2. gate' = gate \/ backState = "none"
      BY <1>5, <2>1 DEF OnMessage_PktGameLoginReq, AdmittedInv
    <2> QED  BY <2>1, <2>2, AdmittedFrame DEF listenervars
  <1> QED  BY <1>1, <1>2, <1>3, <1>4, <1>5 DEF Next, GateStep

\* With the callback meant for clients, no sequence of connects, logins and leaves
\* takes the gate down while it has its Center.
THEOREM GateOutlivesItsClients ==
  ASSUME FrontEndEvents = "OnNetEvent_FrontEnd"
  PROVE  Spec => []GateDiesOnlyWithoutCenter
  <1>1. Init => AdmittedInv
    BY DEF Init, Listener!NetServerInit, AdmittedInv, GateDiesOnlyWithoutCenter
  <1>2. GateInv /\ AdmittedInv /\ [Next]_vars => AdmittedInv'
    <2> SUFFICES ASSUME GateInv, AdmittedInv, [Next]_vars PROVE AdmittedInv'
      OBVIOUS
    <2>1. CASE UNCHANGED vars
      BY <2>1, AdmittedFrame DEF vars, listenervars, guestvars, backvars
    <2> QED  BY <2>1, AdmittedStep
  <1>3. AdmittedInv => GateDiesOnlyWithoutCenter
    BY DEF AdmittedInv
  <1> QED  BY GateInvariant, <1>1, <1>2, <1>3, PTL DEF Spec
================================================================================
