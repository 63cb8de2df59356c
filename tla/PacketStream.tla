------------------------------ MODULE PacketStream -----------------------------
(***************************************************************************)
(* Packets as bytes between a client, its gate and the Center: the two     *)
(* layouts (src/Net/src/Packet.cpp), the cutting of a byte stream into     *)
(* packets (ReadMessage in src/SrvLib/src/PacketProcessor.cpp and in       *)
(* src/Client/NetManagerClient.cpp), and the gate that passes a packet of  *)
(* one layout on in the other (PacketProcessor_Gate.cpp).                  *)
(*                                                                         *)
(* A message is the bytes from the length of its name to the end of its    *)
(* data.  The sizes of the fields keep their proportions: a length is two  *)
(* digits of base Base (256 in the code), an int is IntSize bytes (4), all *)
(* equal, since nothing looks into one.  The client is a guest of the gate *)
(* and the connections hold: modules GateFront and Cluster have the rest.  *)
(***************************************************************************)
EXTENDS Naturals, SequencesExt

CONSTANTS Base, IntSize,
          MAX_PACKET_SIZE, MAX_APPENDDATA_SIZE,
          Message,      \* the messages sent: sequences of bytes
          Gate, Center, \* the destinations a client can name
          Guest,        \* the guest id of the client, the owner of what it sends
          Client,       \* the PeerInfo that addresses it: its channel, with type client
          MaxPackets,   \* how many packets the client and the Center send together
          adler32(_)    \* zlib's checksum of a message, an int of equal bytes here

HeaderC == 2 + IntSize      \* PacketC::HEADER_SIZE: size, owner
HeaderS == 4 + IntSize      \* PacketS::HEADER_SIZE: size, size without destinations, owner
ExData  == 2 + IntSize      \* PacketC::EX_DATA_SIZE

Byte == 0 .. (Base - 1)

ASSUME LayoutAssumption == /\ Base \in Nat \ {0, 1}
                           /\ IntSize \in Nat \ {0}
                           /\ MAX_PACKET_SIZE \in 1 .. (Base * Base - 1)
                           /\ MAX_APPENDDATA_SIZE \in Nat /\ MAX_APPENDDATA_SIZE >= IntSize

\* msg.ByteSize() <= MAX_MSG_SIZE, asserted by both constructors.
ASSUME MessageAssumption ==
  \A m \in Message : /\ m \in Seq(Byte) /\ adler32(m) \in Byte
                      /\ Len(m) + HeaderS + IntSize + MAX_APPENDDATA_SIZE <= MAX_PACKET_SIZE

ASSUME AddressAssumption == {Gate, Center, Guest, Client} \subseteq Byte /\ Gate # Center

Receiver == {"gate", "center", "client"}

Link == {"client>gate", "gate>center", "center>gate", "gate>client"}

VARIABLES wire,      \* per link, bytes the receiver's kernel does not have yet
          evbuf,     \* per link, bytes in the receiver's evbuffer
          sent,      \* what was sent to "gate", "center" and "client": [owner, msg]
          got        \* what they handled: [owner, msg]

vars == <<wire, evbuf, sent, got>>

--------------------------------------------------------------------------------
(* The layouts. *)

Uint16(n) == <<n \div Base, n % Base>>            \* htons
Value(b)  == b[1] * Base + b[2]                   \* ntohs
Int32(v)  == [i \in 1 .. IntSize |-> v]

Checksum(m) == Int32(adler32(m))

\* PacketC(msg) and SetOwner: size, owner, message, checksum.
PacketC(owner, m) ==
  Uint16(HeaderC + Len(m) + IntSize) \o Int32(owner) \o m \o Checksum(m)

\* PacketS(msg), AppendDestination and SetOwner.
PacketS(owner, m, dest) ==
  LET dataSize == HeaderS - 2 + Len(m) + IntSize
  IN  Uint16(2 + dataSize + IntSize) \o Uint16(dataSize) \o Int32(owner)
        \o m \o Checksum(m) \o Int32(dest)

\* A PacketC as it was received, without the room that the gate leaves around it.
MsgC(b)   == SubSeq(b, HeaderC + 1, Len(b) - IntSize)
ValidC(b) == SubSeq(b, Len(b) - IntSize + 1, Len(b)) = Checksum(MsgC(b))
OwnerC(b) == b[3]

\* A PacketS as it was received; m_DataSize is read from it by is_valid.
DataSize(b) == Value(SubSeq(b, 3, 4))
MsgS(b)     == SubSeq(b, HeaderS + 1, 2 + DataSize(b) - IntSize)
ValidS(b)   == SubSeq(b, 2 + DataSize(b) - IntSize + 1, 2 + DataSize(b)) = Checksum(MsgS(b))
OwnerS(b)   == b[5]
DestS(b)    == b[2 + DataSize(b) + 1]

\* Mutant of RelayUp: the owner that the client wrote is left in place.
RelayUp_OwnerKept(b, owner, dest) ==
  Uint16(Len(b) + ExData) \o b \o Int32(dest)

\* ForwardPacketOnFrontEnd: PacketC(size, EX_DATA_SIZE) left two bytes before the
\* client's packet and an int behind it; with the new size, the guest as owner
\* and the destination they make a PacketS.
RelayUp(b, owner, dest) ==
  Uint16(Len(b) + ExData) \o SubSeq(b, 1, 2) \o Int32(owner)
    \o SubSeq(b, HeaderC + 1, Len(b)) \o Int32(dest)

\* Mutant of RelayDown: the whole packet is sent, destinations included.
RelayDown_All(b) == SubSeq(b, 3, Len(b))

\* ForwardPacketOnBackEnd: GetDataBuffer and GetDataSize of a PacketS are a PacketC.
RelayDown(b) == SubSeq(b, 3, 2 + DataSize(b))

--------------------------------------------------------------------------------
(* ReadMessage. *)

\* Mutant of Whole: readable > total_len.
Whole_Strict(buf) ==
  /\ Len(buf) >= 2
  /\ Value(SubSeq(buf, 1, 2)) \in 2 .. MAX_PACKET_SIZE
  /\ Value(SubSeq(buf, 1, 2)) < Len(buf)

\* A buffer begins with a whole packet.
Whole(buf) ==
  /\ Len(buf) >= 2
  /\ Value(SubSeq(buf, 1, 2)) \in 2 .. MAX_PACKET_SIZE
  /\ Value(SubSeq(buf, 1, 2)) <= Len(buf)

\* One turn of the loop: a whole packet goes from the evbuffer to m_queueRead.  An
\* invalid length ends the loop like a partial packet: the caller ignores the error.
Turn ==
  [s \in [evbuf : Seq(Byte), queue : Seq(Seq(Byte))] |->
     LET total_len == Value(SubSeq(s.evbuf, 1, 2))
     IN  IF Whole(s.evbuf)
           THEN [evbuf |-> SubSeq(s.evbuf, total_len + 1, Len(s.evbuf)),
                 queue |-> Append(s.queue, SubSeq(s.evbuf, 1, total_len))]
           ELSE s]

\* What the loop leaves of a buffer, and m_queueRead.  Every packet takes two bytes
\* or more, which bounds the turns.
ReadMessage(buf) ==
  LET turn[n \in 0 .. Len(buf) \div 2] ==
        IF n = 0 THEN [evbuf |-> buf, queue |-> << >>] ELSE Turn[turn[n - 1]]
  IN  turn[Len(buf) \div 2]

--------------------------------------------------------------------------------
Init ==
  /\ wire = [l \in Link |-> << >>]
  /\ evbuf = [l \in Link |-> << >>]
  /\ sent = [p \in Receiver |-> << >>]
  /\ got = [p \in Receiver |-> << >>]

Write(l, b) == wire' = [wire EXCEPT ![l] = @ \o b]

\* A packet is sent that p is to handle.
Send(p, owner, m) ==
  /\ Len(sent["gate"]) + Len(sent["center"]) + Len(sent["client"]) < MaxPackets
  /\ sent' = [sent EXCEPT ![p] = Append(@, [owner |-> owner, msg |-> m])]
  /\ UNCHANGED <<evbuf, got>>

\* NetManagerClient::SendPacket: the owner field carries the destination's type.
Client_SendPacket(m) ==
  \/ Send("gate", Guest, m) /\ Write("client>gate", PacketC(Gate, m))
  \/ Send("center", Guest, m) /\ Write("client>gate", PacketC(Center, m))

\* PacketProcessor_Center::SendPacket with the address of a client.
Center_SendPacket(m) ==
  Send("client", Center, m) /\ Write("center>gate", PacketS(Center, m, Client))

\* The kernel delivers any number of bytes.
Arrive(l) ==
  \E n \in 1 .. Len(wire[l]) :
    /\ evbuf' = [evbuf EXCEPT ![l] = @ \o SubSeq(wire[l], 1, n)]
    /\ wire' = [wire EXCEPT ![l] = SubSeq(@, n + 1, Len(@))]
    /\ UNCHANGED <<sent, got>>

\* The read callback of l finds whole packets, and ReadMessage takes them out.
Consume(l, read) ==
  /\ evbuf' = [evbuf EXCEPT ![l] = read.evbuf]
  /\ UNCHANGED sent

\* What the loop over m_queueRead puts together, packet by packet.
ForEach(queue, f) == FlattenSeq([i \in DOMAIN queue |-> f[queue[i]]])

Handle(p, handled) == got' = [got EXCEPT ![p] = @ \o handled]

\* ForwardPacketOnFrontEnd of the gate: a valid packet for the gate is handled,
\* others go on to the Center.
Gate_Handled ==
  [b \in Seq(Byte) |->
     IF ValidC(b) /\ OwnerC(b) = Gate THEN << [owner |-> Guest, msg |-> MsgC(b)] >> ELSE << >>]
Gate_SentUp ==
  [b \in Seq(Byte) |->
     IF ValidC(b) /\ OwnerC(b) # Gate THEN RelayUp(b, Guest, OwnerC(b)) ELSE << >>]

Gate_OnMessage_FrontEnd ==
  /\ Whole(evbuf["client>gate"])
  /\ LET read == ReadMessage(evbuf["client>gate"])
     IN  /\ Consume("client>gate", read)
         /\ Handle("gate", ForEach(read.queue, Gate_Handled))
         /\ Write("gate>center", ForEach(read.queue, Gate_SentUp))

\* ForwardPacketOnBackEnd of the gate, for packets addressed to its client.
Gate_SentDown ==
  [b \in Seq(Byte) |-> IF ValidS(b) /\ DestS(b) = Client THEN RelayDown(b) ELSE << >>]

Gate_OnMessage_BackEnd ==
  /\ Whole(evbuf["center>gate"])
  /\ LET read == ReadMessage(evbuf["center>gate"])
     IN  /\ Consume("center>gate", read)
         /\ Write("gate>client", ForEach(read.queue, Gate_SentDown))
         /\ UNCHANGED got

\* ForwardPacketOnFrontEnd of the Center.
Center_Handled ==
  [b \in Seq(Byte) |->
     IF ValidS(b) /\ DestS(b) = Center THEN << [owner |-> OwnerS(b), msg |-> MsgS(b)] >> ELSE << >>]

Center_OnMessage ==
  /\ Whole(evbuf["gate>center"])
  /\ LET read == ReadMessage(evbuf["gate>center"])
     IN  /\ Consume("gate>center", read)
         /\ Handle("center", ForEach(read.queue, Center_Handled))
         /\ UNCHANGED wire

\* NetManagerClient::ProcessMessage.
Client_Handled ==
  [b \in Seq(Byte) |-> IF ValidC(b) THEN << [owner |-> OwnerC(b), msg |-> MsgC(b)] >> ELSE << >>]

Client_OnMessage ==
  /\ Whole(evbuf["gate>client"])
  /\ LET read == ReadMessage(evbuf["gate>client"])
     IN  /\ Consume("gate>client", read)
         /\ Handle("client", ForEach(read.queue, Client_Handled))
         /\ UNCHANGED wire

OnMessage ==
  \/ Gate_OnMessage_FrontEnd \/ Gate_OnMessage_BackEnd
  \/ Center_OnMessage \/ Client_OnMessage

Next ==
  \/ \E m \in Message : Client_SendPacket(m) \/ Center_SendPacket(m)
  \/ \E l \in Link : Arrive(l)
  \/ OnMessage

\* TCP delivers, and the event loops run.  Nobody has to send.
Fairness ==
  /\ \A l \in Link : WF_vars(Arrive(l))
  /\ WF_vars(Gate_OnMessage_FrontEnd) /\ WF_vars(Gate_OnMessage_BackEnd)
  /\ WF_vars(Center_OnMessage) /\ WF_vars(Client_OnMessage)

Spec == Init /\ [][Next]_vars /\ Fairness

--------------------------------------------------------------------------------
\* The type invariant: no garbled message is ever handled.
TypeOK ==
  /\ wire \in [Link -> Seq(Byte)] /\ evbuf \in [Link -> Seq(Byte)]
  /\ {sent, got} \subseteq [Receiver -> Seq([owner : Byte, msg : Message])]

\* However TCP cuts the streams, through both layouts and the two relays of the
\* gate: every receiver handles the messages sent to it, whole, in order, once
\* each, with the right owner (ReadMessage, is_valid, ForwardPacketOn*).
InOrder == \A p \in Receiver : IsPrefix(got[p], sent[p])

\* Every packet sent is handled: none is dropped as invalid or left waiting in an
\* evbuffer, not even the longest that the constructors admit (MaxPackets ends the
\* sending).
Delivered == <>[](\A p \in Receiver : Len(got[p]) = Len(sent[p]))
================================================================================
