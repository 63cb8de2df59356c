------------------------------ MODULE PeerAddress ------------------------------
(***************************************************************************)
(* PeerInfo, the word that names a server or a client, and how packets are *)
(* routed by it: src/Net/include/NetDefine.h and NetChannel.h, registration *)
(* in CenterServer/ConnectionManager.cpp, the labelling of clients in       *)
(* GateServer/PacketProcessor_Gate.cpp, and ForwardPacketOnFrontEnd of the  *)
(* Center and ForwardPacketOnBackEnd of the gate.                           *)
(*                                                                         *)
(* Words are the code's, with the masks and shifts as arithmetic.  The      *)
(* layout is peer type (8 bits), peer index (8), channel index (16); the    *)
(* types that exist are below 128, so a word is never negative.  Gates are  *)
(* servers that stay; clients come and go.  What is sent to whom, and when, *)
(* is in modules Cluster and GateFront; here any word may be routed at any  *)
(* time.                                                                    *)
(***************************************************************************)
EXTENDS Naturals

CONSTANTS Gate, Client, GateOf,
          CenterIndex,   \* channel indexes the Center gives to servers
          GuestIndex     \* channel indexes a gate gives to clients

\* The fields are a byte, a byte and an uint16_t.
TwoTo8  == 256
TwoTo16 == 65536

Byte   == 0 .. (TwoTo8 - 1)
Uint16 == 0 .. (TwoTo16 - 1)

\* CenterServer's MAX_CONNECTION is 64, GateServer's 1024.
ASSUME PeerAddressAssumption ==
  /\ CenterIndex \subseteq Byte \ {0}
  /\ GuestIndex \subseteq Uint16 \ {0}
  /\ GateOf \in [Client -> Gate]

gateserver == 3   \* PeerType_t

\* PeerInfo::parse and the getters of NetChannel.
PeerType(word)     == (word \div TwoTo16) \div TwoTo8
PeerIndex(word)    == (word \div TwoTo16) % TwoTo8
ChannelIndex(word) == word % TwoTo16

\* PeerInfo::serialize.
serialize(type, peer, channel) == (type * TwoTo8 + peer) * TwoTo16 + channel

\* Mutant of SetPeerType: the rest of the word is masked off.
SetPeerType_Only(word, type) == serialize(type, 0, 0)

\* The setters of NetChannel keep the two other fields by a mask.
SetPeerType(word, type) == serialize(type, PeerIndex(word), ChannelIndex(word))

\* Mutant of SetPeerIndex: the lower half of the word is masked off too.
SetPeerIndex_DropChannel(word, peer) == serialize(PeerType(word), peer, 0)

SetPeerIndex(word, peer) == serialize(PeerType(word), peer, ChannelIndex(word))

SetChannelIndex(word, channel) == serialize(PeerType(word), PeerIndex(word), channel)

uint8_t(n) == n % TwoTo8

VARIABLES
  center,   \* per gate, the word of its channel at the Center, 0 without one
  ack,      \* per gate, the PeerInfo in a PktRegisterAck on its way, or 0
  back,     \* per gate, the word of m_pBackEnd
  guest     \* per client, the word of its channel at its gate, 0 without one

vars == <<center, ack, back, guest>>

--------------------------------------------------------------------------------
\* PacketProcessor::Connect of every gate: SetPeerType.
Init ==
  /\ center = [g \in Gate |-> 0]
  /\ ack = [g \in Gate |-> 0]
  /\ back = [g \in Gate |-> SetPeerType(0, gateserver)]
  /\ guest = [c \in Client |-> 0]

\* NetServer::OnConnect at the Center, with a free index.
Center_OnConnect(g) ==
  /\ center[g] = 0
  /\ \E i \in CenterIndex :
       /\ \A h \in Gate : ChannelIndex(center[h]) # i
       /\ center' = [center EXCEPT ![g] = SetChannelIndex(0, i)]
  /\ UNCHANGED <<ack, back, guest>>

\* OnMessage_PktRegisterReq: the channel is labelled, and the PeerInfo that came
\* with the request, completed by the channel index, is sent back.
OnMessage_PktRegisterReq(g) ==
  LET src == serialize(gateserver, 0, 0)
      i   == ChannelIndex(center[g])
  IN  /\ center[g] # 0 /\ PeerType(center[g]) = 0
      /\ center' = [center EXCEPT ![g] = SetPeerType(@, PeerType(src))]
      /\ ack' = [ack EXCEPT ![g] = serialize(PeerType(src), PeerIndex(src), i)]
      /\ UNCHANGED <<back, guest>>

\* OnMessage_PktRegisterAck: SetPeerInfo.
OnMessage_PktRegisterAck(g) ==
  /\ ack[g] # 0
  /\ back' = [back EXCEPT ![g] = ack[g]]
  /\ ack' = [ack EXCEPT ![g] = 0]
  /\ UNCHANGED <<center, guest>>

FreeAt(g) == {j \in GuestIndex : \A d \in Client : GateOf[d] = g => ChannelIndex(guest[d]) # j}

\* NetServer::OnConnect at the gate, and DoFrontEnd_Connected.
DoFrontEnd_Connected(c) ==
  LET word(j) == SetPeerType(SetChannelIndex(0, j), gateserver)
      index   == uint8_t(ChannelIndex(back[GateOf[c]]))
  IN  /\ guest[c] = 0
      /\ \E j \in FreeAt(GateOf[c]) : guest' = [guest EXCEPT ![c] = SetPeerIndex(word(j), index)]
      /\ UNCHANGED <<center, ack, back>>

\* DoFrontEnd_Disconnected, DoFrontEnd_ConnBreak: the index is free again.
DoFrontEnd_Disconnected(c) ==
  /\ guest[c] # 0
  /\ guest' = [guest EXCEPT ![c] = 0]
  /\ UNCHANGED <<center, ack, back>>

Next ==
  \/ \E g \in Gate :
       Center_OnConnect(g) \/ OnMessage_PktRegisterReq(g) \/ OnMessage_PktRegisterAck(g)
  \/ \E c \in Client : DoFrontEnd_Connected(c) \/ DoFrontEnd_Disconnected(c)

Spec == Init /\ [][Next]_vars

--------------------------------------------------------------------------------
(* Routing of a packet whose destination is a word. *)

\* Mutant of Hop: the channel index is looked up at the Center.
Hop_ChannelIndex(dest) == {g \in Gate : center[g] # 0 /\ ChannelIndex(center[g]) = ChannelIndex(dest)}

\* ForwardPacketOnFrontEnd of the Center: the gates a packet is passed on to.
Hop(dest) ==
  LET i == IF PeerIndex(dest) = 0 THEN ChannelIndex(dest) ELSE PeerIndex(dest)
  IN  {g \in Gate : center[g] # 0 /\ ChannelIndex(center[g]) = i}

\* ForwardPacketOnBackEnd of a gate: its handlers run for the gate itself, or for
\* the channel of a client.
HandledByGate(g, dest) == PeerType(dest) = gateserver /\ back[g] = dest

HandledFor(g, dest) ==
  {c \in Client :
     /\ GateOf[c] = g /\ guest[c] # 0
     /\ PeerType(dest) = gateserver /\ back[g] # dest
     /\ PeerIndex(dest) = ChannelIndex(back[g])
     /\ ChannelIndex(guest[c]) = ChannelIndex(dest)}

--------------------------------------------------------------------------------
\* The type invariant: a PeerInfo is one of the forms of the layout comment.
PeerAddressTypeOK ==
  LET word(peers, channels) ==
        {serialize(gateserver, p, i) : p \in peers, i \in channels}
  IN  /\ center \in [Gate -> {0} \cup CenterIndex \cup word({0}, CenterIndex)]
      /\ ack \in [Gate -> {0} \cup word({0}, CenterIndex)]
      /\ back \in [Gate -> word({0}, {0} \cup CenterIndex)]
      /\ guest \in [Client -> {0} \cup word({0} \cup CenterIndex, GuestIndex)]

\* A registered gate and the Center agree on the gate's PeerInfo, and a packet to
\* it reaches this gate, which takes it for itself.
GateIsReached ==
  \A g \in Gate : ChannelIndex(back[g]) # 0 =>
    /\ back[g] = center[g]
    /\ Hop(back[g]) = {g}
    /\ HandledByGate(g, back[g])

\* A packet to a client that connected after its gate was registered goes through
\* the two routers to that client and to nobody else, and it is not mistaken for a
\* packet to a gate (uint8_t peer index against uint16_t channel index).
ClientIsReached ==
  \A c \in Client : (guest[c] # 0 /\ PeerIndex(guest[c]) # 0) =>
    /\ Hop(guest[c]) = {GateOf[c]}
    /\ \A g \in Gate : ~HandledByGate(g, guest[c])
    /\ HandledFor(GateOf[c], guest[c]) = {c}
================================================================================
