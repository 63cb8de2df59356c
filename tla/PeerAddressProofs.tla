--------------------------- MODULE PeerAddressProofs ---------------------------
(***************************************************************************)
(* Proofs for module PeerAddress: for any number of gates and clients, a   *)
(* PeerInfo leads back to the gate or the client that it names.            *)
(*                                                                         *)
(* The arithmetic of the word is settled by two lemmas, after which every  *)
(* word is taken apart by its fields.                                      *)
(***************************************************************************)
EXTENDS PeerAddress, TLAPS

--------------------------------------------------------------------------------
(* Shifts and masks. *)

LEMMA Widths ==
  /\ TwoTo8 \in Nat \ {0} /\ TwoTo16 \in Nat \ {0}
  /\ 0 \in Byte /\ 0 \in Uint16 /\ Byte \subseteq Uint16
  /\ Byte \subseteq Nat /\ Uint16 \subseteq Nat
<1>1. TwoTo8 \in Nat \ {0} /\ TwoTo16 \in Nat \ {0} /\ TwoTo8 < TwoTo16
  BY SMT DEF TwoTo8, TwoTo16
<1> QED BY <1>1 DEF Byte, Uint16

\* Two multiples of d with remainders differ when the factors do.
LEMMA Apart ==
  ASSUME NEW d \in Nat \ {0}, NEW m \in Nat, NEW n \in Nat, m < n,
         NEW s \in 0 .. (d - 1), NEW t \in 0 .. (d - 1)
  PROVE  m * d + s # n * d + t
<1>1. PICK k \in Nat : n = m + 1 + k
  <2>1. n - (m + 1) \in Nat /\ n = m + 1 + (n - (m + 1))
    OBVIOUS
  <2> QED BY <2>1
<1>2. n * d = m * d + d + k * d
  BY <1>1, SMT
<1>3. m * d \in Nat /\ n * d \in Nat /\ k * d \in Nat
  BY <1>1, SMT
<1> DEFINE x == m * d
           y == n * d
           z == k * d
<1>4. x \in Nat /\ y \in Nat /\ z \in Nat /\ y = x + d + z
  BY <1>2, <1>3
<1> HIDE DEF x, y, z
<1>5. x + s # y + t
  BY <1>4
<1> QED BY <1>5 DEF x, y

\* Quotient and remainder are unique.
LEMMA Division ==
  ASSUME NEW d \in Nat \ {0}, NEW q \in Nat, NEW r \in 0 .. (d - 1)
  PROVE  (q * d + r) \div d = q /\ (q * d + r) % d = r
<1> DEFINE a  == q * d + r
<1>1. a \in Nat /\ a = q * d + r
  OBVIOUS
<1> HIDE DEF a
<1> DEFINE q2 == a \div d
           r2 == a % d
<1>2. a = q2 * d + r2 /\ r2 \in 0 .. (d - 1) /\ q2 \in Nat
  BY <1>1, SMT
<1> HIDE DEF q2, r2
<1>3. q = q2
  <2>1. ~(q < q2) /\ ~(q2 < q)
    BY <1>1, <1>2, Apart
  <2> QED BY <2>1, <1>2
<1>4. r = r2
  <2> DEFINE x == q * d
  <2>1. x \in Nat /\ x + r = x + r2
    BY <1>1, <1>2, <1>3
  <2> HIDE DEF x
  <2> QED BY <2>1, <1>2
<1> QED BY <1>3, <1>4 DEF a, q2, r2

\* parse undoes serialize.
LEMMA FieldsOfWord ==
  ASSUME NEW t \in Nat, NEW p \in Byte, NEW i \in Uint16
  PROVE  /\ serialize(t, p, i) \in Nat
         /\ PeerType(serialize(t, p, i)) = t
         /\ PeerIndex(serialize(t, p, i)) = p
         /\ ChannelIndex(serialize(t, p, i)) = i
<1> DEFINE h == t * TwoTo8 + p
<1>1. h \in Nat /\ p \in 0 .. (TwoTo8 - 1) /\ i \in 0 .. (TwoTo16 - 1)
  BY Widths DEF Byte, Uint16
<1>2. serialize(t, p, i) = h * TwoTo16 + i
  BY DEF serialize
<1>3. h \div TwoTo8 = t /\ h % TwoTo8 = p
  BY <1>1, Widths, Division
<1> HIDE DEF h
<1>4. (h * TwoTo16 + i) \div TwoTo16 = h /\ (h * TwoTo16 + i) % TwoTo16 = i
  BY <1>1, Widths, Division
<1>5. serialize(t, p, i) \in Nat
  BY <1>1, <1>2, Widths
<1>6. PeerType(serialize(t, p, i)) = t
  BY <1>2, <1>3, <1>4 DEF PeerType
<1>7. PeerIndex(serialize(t, p, i)) = p
  BY <1>2, <1>3, <1>4 DEF PeerIndex
<1>8. ChannelIndex(serialize(t, p, i)) = i
  BY <1>2, <1>4 DEF ChannelIndex
<1> QED BY <1>5, <1>6, <1>7, <1>8

\* Each setter changes its field only.
LEMMA SettersOfWord ==
  ASSUME NEW t \in Nat, NEW p \in Byte, NEW i \in Uint16, NEW u, NEW q, NEW j
  PROVE  /\ SetPeerType(serialize(t, p, i), u) = serialize(u, p, i)
         /\ SetPeerIndex(serialize(t, p, i), q) = serialize(t, q, i)
         /\ SetChannelIndex(serialize(t, p, i), j) = serialize(t, p, j)
BY FieldsOfWord DEF SetPeerType, SetPeerIndex, SetChannelIndex

\* The words of the model: a channel index alone, and a labelled one.
Word(p, i) == serialize(gateserver, p, i)

LEMMA Words ==
  ASSUME NEW p \in Byte, NEW i \in Uint16
  PROVE  /\ PeerType(i) = 0 /\ PeerIndex(i) = 0 /\ ChannelIndex(i) = i
         /\ PeerType(Word(p, i)) = gateserver
         /\ PeerIndex(Word(p, i)) = p
         /\ ChannelIndex(Word(p, i)) = i
         /\ Word(p, i) # 0
         /\ SetChannelIndex(0, i) = i
         /\ SetPeerType(i, gateserver) = Word(0, i)
         /\ SetPeerIndex(Word(0, i), p) = Word(p, i)
<1>1. 0 \in Nat /\ 0 \in Byte /\ 0 \in Uint16 /\ gateserver \in Nat /\ gateserver # 0
  BY Widths DEF gateserver
<1>2. serialize(0, 0, i) = i /\ serialize(0, 0, 0) = 0
  BY Widths DEF serialize
<1>3. PeerType(i) = 0 /\ PeerIndex(i) = 0 /\ ChannelIndex(i) = i
  BY <1>1, <1>2, FieldsOfWord
<1>4. /\ PeerType(Word(p, i)) = gateserver
      /\ PeerIndex(Word(p, i)) = p
      /\ ChannelIndex(Word(p, i)) = i
  BY <1>1, FieldsOfWord DEF Word
<1>5. Word(p, i) # 0
  BY <1>1, <1>2, <1>4, FieldsOfWord
<1>6. SetChannelIndex(0, i) = i
  BY <1>1, <1>2, SettersOfWord
<1>7. SetPeerType(i, gateserver) = Word(0, i)
  BY <1>1, <1>2, SettersOfWord DEF Word
<1>8. SetPeerIndex(Word(0, i), p) = Word(p, i)
  BY <1>1, SettersOfWord DEF Word
<1> QED BY <1>3, <1>4, <1>5, <1>6, <1>7, <1>8

--------------------------------------------------------------------------------
(* The inductive invariant. *)

Types ==
  /\ center \in [Gate -> {0} \cup CenterIndex \cup {Word(0, i) : i \in CenterIndex}]
  /\ ack \in [Gate -> {0} \cup {Word(0, i) : i \in CenterIndex}]
  /\ back \in [Gate -> {Word(0, 0)} \cup {Word(0, i) : i \in CenterIndex}]
  /\ guest \in [Client -> {0} \cup {Word(p, j) : p \in {0} \cup CenterIndex, j \in GuestIndex}]

\* The Center's listener gives an index to one gate at a time, a gate's to one client.
CenterDistinct ==
  \A g, h \in Gate :
    g # h /\ center[g] # 0 => ChannelIndex(center[g]) # ChannelIndex(center[h])

GuestsDistinct ==
  \A c, d \in Client :
    c # d /\ GateOf[c] = GateOf[d] /\ guest[c] # 0
      => ChannelIndex(guest[c]) # ChannelIndex(guest[d])

\* A gate learns the word of its channel at the Center, once.
Registered ==
  \A g \in Gate :
    /\ PeerType(center[g]) = 0 => ack[g] = 0 /\ back[g] = Word(0, 0)
    /\ ack[g] # 0 => ack[g] = center[g] /\ back[g] = Word(0, 0)
    /\ back[g] # Word(0, 0) => back[g] = center[g]

\* A client is labelled with the index of its gate, or before the gate has one.
Labelled ==
  \A c \in Client :
    PeerIndex(guest[c]) # 0 => PeerIndex(guest[c]) = ChannelIndex(back[GateOf[c]])

Inv == Types /\ CenterDistinct /\ GuestsDistinct /\ Registered /\ Labelled

\* The fields of every word in a state.
LEMMA Shapes ==
  ASSUME Types
  PROVE  /\ \A g \in Gate :
              /\ \/ center[g] = 0 /\ ChannelIndex(center[g]) = 0 /\ PeerType(center[g]) = 0
                 \/ \E i \in CenterIndex :
                      /\ center[g] \in {i, Word(0, i)} /\ center[g] # 0
                      /\ ChannelIndex(center[g]) = i
                      /\ PeerType(center[g]) = IF center[g] = i THEN 0 ELSE gateserver
              /\ \E i \in {0} \cup CenterIndex :
                   back[g] = Word(0, i) /\ ChannelIndex(back[g]) = i
         /\ \A c \in Client :
              \/ guest[c] = 0 /\ ChannelIndex(guest[c]) = 0 /\ PeerIndex(guest[c]) = 0
              \/ \E p \in {0} \cup CenterIndex, j \in GuestIndex :
                   /\ guest[c] = Word(p, j) /\ guest[c] # 0
                   /\ ChannelIndex(guest[c]) = j /\ PeerIndex(guest[c]) = p
<1>1. /\ {0} \cup CenterIndex \subseteq Byte /\ {0} \cup CenterIndex \subseteq Uint16
      /\ 0 \in Uint16 /\ 0 \in Byte /\ 0 \notin CenterIndex
      /\ GuestIndex \subseteq Uint16 /\ gateserver # 0
  BY PeerAddressAssumption, Widths DEF gateserver
<1>2. \A p \in Byte, i \in Uint16 :
        /\ PeerType(i) = 0 /\ PeerIndex(i) = 0 /\ ChannelIndex(i) = i
        /\ PeerType(Word(p, i)) = gateserver
        /\ PeerIndex(Word(p, i)) = p
        /\ ChannelIndex(Word(p, i)) = i
        /\ Word(p, i) # 0
  BY Words
<1>3. ASSUME NEW g \in Gate
      PROVE  \/ center[g] = 0 /\ ChannelIndex(center[g]) = 0 /\ PeerType(center[g]) = 0
             \/ \E i \in CenterIndex :
                  /\ center[g] \in {i, Word(0, i)} /\ center[g] # 0
                  /\ ChannelIndex(center[g]) = i
                  /\ PeerType(center[g]) = IF center[g] = i THEN 0 ELSE gateserver
  <2>1. CASE center[g] = 0
    BY <2>1, <1>1, <1>2
  <2>2. CASE center[g] \in CenterIndex
    BY <2>2, <1>1, <1>2
  <2>3. CASE \E i \in CenterIndex : center[g] = Word(0, i)
    BY <2>3, <1>1, <1>2
  <2> QED BY <2>1, <2>2, <2>3 DEF Types
<1>4. ASSUME NEW g \in Gate
      PROVE  \E i \in {0} \cup CenterIndex : back[g] = Word(0, i) /\ ChannelIndex(back[g]) = i
  <2>1. PICK i \in {0} \cup CenterIndex : back[g] = Word(0, i)
    BY DEF Types
  <2> QED BY <2>1, <1>1, <1>2
<1>5. ASSUME NEW c \in Client
      PROVE  \/ guest[c] = 0 /\ ChannelIndex(guest[c]) = 0 /\ PeerIndex(guest[c]) = 0
             \/ \E p \in {0} \cup CenterIndex, j \in GuestIndex :
                  /\ guest[c] = Word(p, j) /\ guest[c] # 0
                  /\ ChannelIndex(guest[c]) = j /\ PeerIndex(guest[c]) = p
  <2>1. CASE guest[c] = 0
    BY <2>1, <1>1, <1>2
  <2>2. CASE \E p \in {0} \cup CenterIndex, j \in GuestIndex : guest[c] = Word(p, j)
    BY <2>2, <1>1, <1>2
  <2> QED BY <2>1, <2>2 DEF Types
<1> QED BY <1>3, <1>4, <1>5

LEMMA InitInv == Init => Inv
<1> SUFFICES ASSUME Init PROVE Inv
  OBVIOUS
<1>1. 0 \in Byte /\ 0 \in Uint16
  BY Widths
<1>2. SetPeerType(0, gateserver) = Word(0, 0) /\ PeerIndex(0) = 0 /\ PeerType(0) = 0
  BY <1>1, Words
<1> QED BY <1>2 DEF Init, Inv, Types, CenterDistinct, GuestsDistinct, Registered, Labelled

--------------------------------------------------------------------------------
(* One lemma per action. *)

LEMMA Center_OnConnectInv == ASSUME Inv, NEW g \in Gate, Center_OnConnect(g) PROVE Inv'
<1>1. PICK i \in CenterIndex : /\ \A h \in Gate : ChannelIndex(center[h]) # i
                               /\ center' = [center EXCEPT ![g] = SetChannelIndex(0, i)]
  BY DEF Center_OnConnect
<1>2. i \in Uint16 /\ 0 \in Byte
  BY PeerAddressAssumption, Widths
<1>3. SetChannelIndex(0, i) = i /\ ChannelIndex(i) = i /\ PeerType(i) = 0
  BY <1>2, Words
<1>4. /\ center' = [center EXCEPT ![g] = i] /\ center[g] = 0
      /\ UNCHANGED <<ack, back, guest>>
  BY <1>1, <1>3 DEF Center_OnConnect
<1>5. ack[g] = 0 /\ back[g] = Word(0, 0)
  BY <1>4, Shapes DEF Inv, Registered
<1>6. Types'
  BY <1>4 DEF Inv, Types
<1>7. CenterDistinct'
  BY <1>1, <1>3, <1>4 DEF Inv, Types, CenterDistinct
<1>8. Registered'
  BY <1>3, <1>4, <1>5 DEF Inv, Types, Registered
<1>9. GuestsDistinct' /\ Labelled'
  BY <1>4 DEF Inv, GuestsDistinct, Labelled
<1> QED BY <1>6, <1>7, <1>8, <1>9 DEF Inv

LEMMA OnMessage_PktRegisterReqInv ==
  ASSUME Inv, NEW g \in Gate, OnMessage_PktRegisterReq(g)
  PROVE  Inv'
<1>1. PICK i \in CenterIndex : center[g] = i /\ ChannelIndex(center[g]) = i
  BY Shapes DEF Inv, OnMessage_PktRegisterReq, gateserver
<1>2. i \in Uint16 /\ 0 \in Byte /\ 0 \in Uint16
  BY PeerAddressAssumption, Widths
<1>3. /\ SetPeerType(i, gateserver) = Word(0, i)
      /\ ChannelIndex(Word(0, i)) = i /\ PeerType(Word(0, i)) = gateserver
      /\ PeerType(Word(0, 0)) = gateserver /\ PeerIndex(Word(0, 0)) = 0
  BY <1>2, Words
<1>4. /\ center' = [center EXCEPT ![g] = Word(0, i)]
      /\ ack' = [ack EXCEPT ![g] = Word(0, i)]
      /\ PeerType(center[g]) = 0
      /\ UNCHANGED <<back, guest>>
  BY <1>1, <1>3 DEF OnMessage_PktRegisterReq, Word
<1>5. back[g] = Word(0, 0)
  BY <1>4 DEF Inv, Registered
<1>6. Types'
  BY <1>4 DEF Inv, Types
<1>7. CenterDistinct'
  <2>1. \A h \in Gate : ChannelIndex(center'[h]) = ChannelIndex(center[h])
    BY <1>1, <1>3, <1>4 DEF Inv, Types
  <2>2. center[g] # 0 /\ \A h \in Gate : h # g => center'[h] = center[h]
    BY <1>4 DEF Inv, Types, OnMessage_PktRegisterReq
  <2> QED BY <2>1, <2>2 DEF Inv, CenterDistinct
<1>8. Registered'
  BY <1>3, <1>4, <1>5 DEF Inv, Types, Registered, gateserver
<1>9. GuestsDistinct' /\ Labelled'
  BY <1>4 DEF Inv, GuestsDistinct, Labelled
<1> QED BY <1>6, <1>7, <1>8, <1>9 DEF Inv

LEMMA OnMessage_PktRegisterAckInv ==
  ASSUME Inv, NEW g \in Gate, OnMessage_PktRegisterAck(g)
  PROVE  Inv'
<1>1. /\ ack[g] # 0 /\ ack[g] = center[g] /\ back[g] = Word(0, 0)
      /\ back' = [back EXCEPT ![g] = ack[g]] /\ ack' = [ack EXCEPT ![g] = 0]
      /\ UNCHANGED <<center, guest>>
  BY DEF Inv, Registered, OnMessage_PktRegisterAck
<1>2. Types'
  BY <1>1 DEF Inv, Types
<1>3. PeerType(center[g]) # 0
  BY <1>1 DEF Inv, Registered
<1>4. Registered'
  BY <1>1, <1>3 DEF Inv, Types, Registered
<1>5. CenterDistinct' /\ GuestsDistinct'
  BY <1>1 DEF Inv, CenterDistinct, GuestsDistinct
<1>6. Labelled'
  <2> SUFFICES ASSUME NEW c \in Client, PeerIndex(guest[c]) # 0
               PROVE  PeerIndex(guest[c]) = ChannelIndex(back'[GateOf[c]])
    BY <1>1 DEF Labelled
  <2>1. PeerIndex(guest[c]) = ChannelIndex(back[GateOf[c]])
    BY DEF Inv, Labelled
  <2>2. ChannelIndex(Word(0, 0)) = 0
    BY Words, Widths
  <2>3. GateOf[c] # g
    BY <1>1, <2>1, <2>2
  <2> QED BY <1>1, <2>1, <2>3, PeerAddressAssumption DEF Inv, Types
<1> QED BY <1>2, <1>4, <1>5, <1>6 DEF Inv

LEMMA DoFrontEnd_ConnectedInv ==
  ASSUME Inv, NEW c \in Client, DoFrontEnd_Connected(c)
  PROVE  Inv'
<1> DEFINE g == GateOf[c]
           p == ChannelIndex(back[g])
<1>1. g \in Gate /\ p \in {0} \cup CenterIndex /\ {0} \cup CenterIndex \subseteq Byte
  BY Shapes, PeerAddressAssumption, Widths DEF Inv
<1>2. uint8_t(p) = p
  <2> HIDE DEF p
  <2>1. p \in Byte /\ 0 * TwoTo8 + p = p
    BY <1>1, Widths
  <2>2. (0 * TwoTo8 + p) % TwoTo8 = p
    BY <2>1, Widths, Division DEF Byte
  <2> QED BY <2>1, <2>2 DEF uint8_t
<1>3. PICK j \in FreeAt(g) :
        guest' = [guest EXCEPT ![c] =
                    SetPeerIndex(SetPeerType(SetChannelIndex(0, j), gateserver), uint8_t(p))]
  BY DEF DoFrontEnd_Connected
<1>4. j \in GuestIndex /\ j \in Uint16
  BY PeerAddressAssumption, Widths DEF FreeAt
<1>5. guest' = [guest EXCEPT ![c] = Word(p, j)] /\ UNCHANGED <<center, ack, back>>
  <2>1. /\ SetChannelIndex(0, j) = j
        /\ SetPeerType(j, gateserver) = Word(0, j)
        /\ SetPeerIndex(Word(0, j), p) = Word(p, j)
    <3> HIDE DEF p
    <3> QED BY <1>1, <1>4, Words
  <2> QED BY <1>2, <1>3, <2>1 DEF DoFrontEnd_Connected
<1>6. ChannelIndex(Word(p, j)) = j /\ PeerIndex(Word(p, j)) = p
  BY <1>1, <1>4, Words
<1>7. Types'
  BY <1>1, <1>4, <1>5, SMTT(40) DEF Inv, Types
<1>8. GuestsDistinct'
  <2>1. \A d \in Client : GateOf[d] = g => ChannelIndex(guest[d]) # j
    BY <1>3 DEF FreeAt
  <2>2. guest'[c] = Word(p, j) /\ \A d \in Client : d # c => guest'[d] = guest[d]
    BY <1>5 DEF Inv, Types
  <2> HIDE DEF p
  <2> QED BY <1>6, <2>1, <2>2 DEF Inv, GuestsDistinct
<1>9. Labelled'
  <2>1. guest'[c] = Word(p, j) /\ \A d \in Client : d # c => guest'[d] = guest[d]
    BY <1>5 DEF Inv, Types
  <2> QED BY <1>5, <1>6, <2>1 DEF Inv, Labelled
<1>10. CenterDistinct' /\ Registered'
  BY <1>5 DEF Inv, CenterDistinct, Registered
<1> QED BY <1>7, <1>8, <1>9, <1>10 DEF Inv

LEMMA DoFrontEnd_DisconnectedInv ==
  ASSUME Inv, NEW c \in Client, DoFrontEnd_Disconnected(c)
  PROVE  Inv'
<1>1. guest' = [guest EXCEPT ![c] = 0] /\ guest[c] # 0 /\ UNCHANGED <<center, ack, back>>
  BY DEF DoFrontEnd_Disconnected
<1>2. guest'[c] = 0 /\ \A d \in Client : d # c => guest'[d] = guest[d]
  BY <1>1 DEF Inv, Types
<1>3. PeerIndex(0) = 0 /\ ChannelIndex(0) = 0
  BY Words, Widths
<1>4. Types'
  BY <1>1 DEF Inv, Types
<1>5. GuestsDistinct'
  <2>1. \A d \in Client : guest[d] # 0 => ChannelIndex(guest[d]) # 0
    BY Shapes, PeerAddressAssumption DEF Inv
  <2> QED BY <1>2, <1>3, <2>1 DEF Inv, GuestsDistinct
<1>6. Labelled'
  BY <1>1, <1>2, <1>3 DEF Inv, Labelled
<1>7. CenterDistinct' /\ Registered'
  BY <1>1 DEF Inv, CenterDistinct, Registered
<1> QED BY <1>4, <1>5, <1>6, <1>7 DEF Inv

LEMMA NextInv == Inv /\ [Next]_vars => Inv'
<1> SUFFICES ASSUME Inv, [Next]_vars PROVE Inv'
  OBVIOUS
<1>1. ASSUME NEW g \in Gate, Center_OnConnect(g) PROVE Inv'
  BY <1>1, Center_OnConnectInv
<1>2. ASSUME NEW g \in Gate, OnMessage_PktRegisterReq(g) PROVE Inv'
  BY <1>2, OnMessage_PktRegisterReqInv
<1>3. ASSUME NEW g \in Gate, OnMessage_PktRegisterAck(g) PROVE Inv'
  BY <1>3, OnMessage_PktRegisterAckInv
<1>4. ASSUME NEW c \in Client, DoFrontEnd_Connected(c) PROVE Inv'
  BY <1>4, DoFrontEnd_ConnectedInv
<1>5. ASSUME NEW c \in Client, DoFrontEnd_Disconnected(c) PROVE Inv'
  BY <1>5, DoFrontEnd_DisconnectedInv
<1>6. CASE UNCHANGED vars
  BY <1>6 DEF vars, Inv, Types, CenterDistinct, GuestsDistinct, Registered, Labelled
<1> QED BY <1>1, <1>2, <1>3, <1>4, <1>5, <1>6 DEF Next

LEMMA InvAlways == Spec => []Inv
BY InitInv, NextInv, PTL DEF Spec

--------------------------------------------------------------------------------
\* Every word has one of the forms of the layout comment in NetDefine.h.
THEOREM PeerAddressTypeCorrect == Spec => []PeerAddressTypeOK
<1>1. Inv => PeerAddressTypeOK
  BY DEF Inv, Types, PeerAddressTypeOK, Word
<1> QED BY <1>1, InvAlways, PTL

\* A packet for a registered gate reaches this gate alone.
THEOREM GateAlwaysReached == Spec => []GateIsReached
<1>1. Inv => GateIsReached
  <2> SUFFICES ASSUME Inv, NEW g \in Gate, ChannelIndex(back[g]) # 0
               PROVE  /\ back[g] = center[g]
                      /\ Hop(back[g]) = {g}
                      /\ HandledByGate(g, back[g])
    BY DEF GateIsReached
  <2>1. PICK i \in {0} \cup CenterIndex : back[g] = Word(0, i) /\ ChannelIndex(back[g]) = i
    BY Shapes DEF Inv
  <2>2. /\ 0 \in Byte /\ 0 \in Uint16 /\ i \in Uint16 /\ i # 0
    BY <2>1, PeerAddressAssumption, Widths
  <2>3. /\ PeerType(back[g]) = gateserver /\ PeerIndex(back[g]) = 0 /\ back[g] # 0
        /\ ChannelIndex(Word(0, 0)) = 0
    BY <2>1, <2>2, Words
  <2>4. back[g] = center[g]
    BY <2>3 DEF Inv, Registered
  <2>5. Hop(back[g]) = {h \in Gate : center[h] # 0 /\ ChannelIndex(center[h]) = i}
    BY <2>1, <2>3 DEF Hop
  <2>6. Hop(back[g]) = {g}
    BY <2>1, <2>3, <2>4, <2>5 DEF Inv, CenterDistinct
  <2> QED BY <2>3, <2>4, <2>6 DEF HandledByGate
<1> QED BY <1>1, InvAlways, PTL

\* A packet for a client that connected to a registered gate reaches this client
\* alone, by way of its gate.
THEOREM ClientAlwaysReached == Spec => []ClientIsReached
<1>1. Inv => ClientIsReached
  <2> SUFFICES ASSUME Inv, NEW c \in Client, guest[c] # 0, PeerIndex(guest[c]) # 0
               PROVE  /\ Hop(guest[c]) = {GateOf[c]}
                      /\ \A g \in Gate : ~HandledByGate(g, guest[c])
                      /\ HandledFor(GateOf[c], guest[c]) = {c}
    BY DEF ClientIsReached
  <2> DEFINE g == GateOf[c]
  <2>1. PICK p \in {0} \cup CenterIndex, j \in GuestIndex :
          /\ guest[c] = Word(p, j)
          /\ ChannelIndex(guest[c]) = j /\ PeerIndex(guest[c]) = p
    BY Shapes DEF Inv
  <2>2. /\ g \in Gate /\ p \in Byte /\ j \in Uint16 /\ p # 0
        /\ 0 \in Byte /\ 0 \in Uint16
    BY <2>1, PeerAddressAssumption, Widths
  <2>3. PeerType(guest[c]) = gateserver /\ PeerIndex(Word(0, 0)) = 0 /\ ChannelIndex(Word(0, 0)) = 0
    BY <2>1, <2>2, Words
  <2>4. p = ChannelIndex(back[g])
    BY <2>1 DEF Inv, Labelled
  <2>5. back[g] = center[g] /\ center[g] # 0
    BY <2>2, <2>3, <2>4, Shapes DEF Inv, Registered
  <2>6. Hop(guest[c]) = {g}
    <3>1. Hop(guest[c]) = {h \in Gate : center[h] # 0 /\ ChannelIndex(center[h]) = p}
      BY <2>1, <2>2 DEF Hop
    <3> QED BY <2>2, <2>4, <2>5, <3>1 DEF Inv, CenterDistinct
  <2>7. ASSUME NEW h \in Gate PROVE back[h] # guest[c]
    <3>1. PICK i \in {0} \cup CenterIndex : back[h] = Word(0, i)
      BY Shapes DEF Inv
    <3>2. i \in Uint16
      BY PeerAddressAssumption, Widths
    <3>3. PeerIndex(back[h]) = 0
      BY <2>2, <3>1, <3>2, Words
    <3> QED BY <3>3
  <2>8. HandledFor(g, guest[c]) = {c}
    <3>1. HandledFor(g, guest[c]) =
            {d \in Client : GateOf[d] = g /\ guest[d] # 0 /\ ChannelIndex(guest[d]) = j}
      BY <2>1, <2>2, <2>3, <2>4, <2>7 DEF HandledFor
    <3> QED BY <2>1, <3>1 DEF Inv, GuestsDistinct
  <2> QED BY <2>6, <2>7, <2>8 DEF HandledByGate
<1> QED BY <1>1, InvAlways, PTL
================================================================================
