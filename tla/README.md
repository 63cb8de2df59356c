# TerraX: a TLA+ model of the server cluster

TerraX is a C++ framework for an online game: a star of server processes that
talk protobuf packets over libevent connections. This directory holds TLA+
modules translated from its source, TLC configurations that check them on small
instances, and TLAPS proofs of the properties that matter most. Paths below are
relative to the repository (`src/` here).

## 1. The system

### 1.1 Components, their state and operations

| Component | State | Operations | Hard behaviour |
|---|---|---|---|
| **NetServer** (`Net/src/NetServer.cpp`) | `m_freeindexes` (FIFO of channel indexes), `m_mapChannels` | `OnConnect`, `GetChannel`, `RemoveChannel` | exhaustion of indexes, reuse of an index, the two structures drifting apart |
| **NetChannel** (`Net/src/NetChannel.cpp`) | `m_eState`, `m_peer_info` (type, peer index, channel index in one word) | `Connected`, `Disconnected`, `ConnectError`, `SendMsg`, `OnMessage` | events of the two ends of a connection in any order; sends on a dead channel are dropped silently |
| **PacketProcessor** (`SrvLib/src/PacketProcessor.cpp`) | `m_pBackEnd`, `m_pFrontEnd`, `m_queueRead` | `Connect`, `Accept`, `ProcessMessage`, `SendPacket2*`, `OnNetEvent_*` | which callback is registered for which channel; a null `m_pBackEnd` |
| **ServerManager** (`SrvLib/src/ServerManager.cpp`) | `m_ServerInfos`: type to set of PeerInfos | `OnMessage_PktServerSync` | a remove before any add |
| **CenterServer** (`CenterServer/`) | `m_ServerInfos` of all servers | `OnMessage_PktRegisterReq`, `OnServerAdded`, `OnServerRemoved`, `OnMessage_PktEnterPermissionReq` | registrations and departures interleaved with broadcasts by stored channel index |
| **GateServer** (`GateServer/`) | its PeerInfo, the servers it knows, `GuestManager::m_mapGuests` | login to the Center, guests, client login, role list | answers for clients that left; clients that connect before the gate is registered or after it lost the Center |
| **WorldServer** (`WorldServer/`) | its PeerInfo, the servers it knows | login to the Center, syncs | aborts on any packet that is not addressed to it |
| **Client** (`Client/`) | `m_CurGameState` | connect, login, role list | a refused or lost connection leaves it where it is |
| **Mission store** (`GameServer/MissionComponent.cpp`, `Base/include/base_iterator.hpp`) | a fixed array and a size | `CreateMission`, `RemoveMission`, `GetMission` | removal of the last item |
| **Packets** (`Net/src/Packet.cpp`, `ReadMessage`) | bytes in the evbuffer of a channel | `PacketS`, `PacketC`, `is_valid`, the relays of the gate | a stream cut anywhere; two layouts, one turned into the other in place |
| **PeerInfo** (`Net/include/NetDefine.h`) | one 32-bit word | `parse`, `serialize`, the setters of `NetChannel` | masks, shifts and a narrowing cast between routers that must agree |
| **Avatar** (`GameServer/AvatarComponent.cpp`, `Base/include/observer.hpp`) | `m_nLevel`, `m_nExp`, the observers | `SetExp`, `SetLevel`, `Notify` | two notifications in one change; limits |
| **Data pool** (`LoginServer/DataPoolConfig.h`, `DataPool.h`, `main.cpp`, `Base/include/dynamic_bitset.hpp`) | tables of columns; rows: a byte buffer and a bitset of changed fields | `LoadTables`, `PushProperty`, `SetValue`, `SetValueString`, `GetValue`, `CreateItem`, `SetItemID`, `GetItemID` | fields that overlap, bits that share a word, one field addressed by name and by place |
| **Ring buffer** (`Base/include/ring_buffer.hpp`) | `in_`, `out_`, `buffer_` | `write`, `read`, `peek` | counters that overflow |

### 1.2 How they interact

Every gate and world server opens one connection to the Center when it starts
and never again. It sends `PktRegisterReq`; the Center labels the channel with
the server's type, answers `PktRegisterAck` with the server's PeerInfo (its type
and its channel index at the Center), then a `PktServerSync` that lists the
Center and the servers of the other types, and broadcasts the newcomer to those.
When a channel ends, `DoFrontEnd_Disconnected` or `DoFrontEnd_ConnBreak` should
broadcast a removal and free the channel index. A client connects to a gate,
which makes it a guest named by the PeerInfo of its channel; its
`PktGameLoginReq` becomes a `PktEnterPermissionReq` to the Center, whose answer
makes the gate send the list of roles.

Each process is one thread that runs the libevent loop
(`PacketProcessor::Tick`), so a callback is atomic and everything between
callbacks interleaves: reads, connects, ends of connections, in every process.
A connection is FIFO in each direction and can break at any moment, at one end
before the other. Nothing is persisted.

**The wiring of channel events.** `PacketProcessor::Accept` registers
`OnNetEvent_BackEnd` for accepted channels (`PacketProcessor.cpp:27-28`), where
`OnNetEvent_FrontEnd` is meant: nothing ever calls the `DoFrontEnd_*` handlers.
Much of the code rests on them, so the models have the constant
`FrontEndEvents`, and runs check both the program as built
(`"OnNetEvent_BackEnd"`) and the program its handlers are written for
(`"OnNetEvent_FrontEnd"`).

### 1.3 What makes each component correct

* **Listener**: no channel index is lost or given out twice; map and channels
  agree; a connection is refused only when every index is in use.
* **Cluster**: what a server knows, with what is on its way to it, is the
  Center's registry without the server's own type; no packet reaches a server
  under another's PeerInfo; registry entries lead to the channels of the servers
  they name; removals find what they remove; a server that stays connected is
  answered, and the views converge.
* **Gate**: only guests' packets are processed; the gate does not go down while
  it has its Center; an answer finds its guest; a login is answered.
* **Mission store**: it is a bag with bounded room, and finds what it holds.
* **Ring buffer**: it is a bounded queue of bytes, for as long as it lives.
* **Packets**: what is sent is handled, whole, once, in order and under the
  right owner, however the stream is cut.
* **PeerInfo**: a word leads the routers to the one server or client it names.
* **Avatar**: a gain loses nothing, and no observer ever sees it as a loss.
* **Data pool**: a field reads back what was written to it and not to another;
  exactly the written fields are marked; the field that is written by name is
  the one that is read by place.

## 2. The modules

| Module | Models | Composes |
|---|---|---|
| `ChannelSlots` | abstract table of slots: what a listener promises | |
| `NetServer` | `NetServer` and the life of its `NetChannel`s | refines `ChannelSlots` |
| `Directory` | abstract directory of servers: what the Center promises to those that register | |
| `Cluster` | Center, gate and world servers, the links between them | `Listener == INSTANCE NetServer` for the Center's front end; refines `Directory` |
| `GateFront` | one gate between its clients and the Center | `Listener == INSTANCE NetServer` for the gate's front end |
| `MissionBag` | abstract bag of missions | |
| `MissionContainer` | `MissionDB` over `Container_T` | refines `MissionBag` |
| `PacketStream` | the two packet layouts, `ReadMessage`, the relays of the gate, between a client, its gate and the Center | |
| `PeerAddress` | the PeerInfo word, registration and labelling as arithmetic on it, and the routing by it | |
| `Avatar` | `AvatarComponent` and its observers | |
| `DataPool` | `TableConfig`, `Column`, `Row`, `dynamic_bitset`, `ItemDB` | |
| `ByteQueue` | abstract bounded queue of bytes | |
| `RingBuffer` | `ring_buffer` | refines `ByteQueue` |
| `MCCluster`, `MCPacketStream`, `MCPeerAddress`, `MCAvatar`, `MCDataPool` | values and symmetry sets for TLC | |
| `MCContainers` | runs the two containers, one at a time | `MissionContainer`, `RingBuffer` |
| `NetServerProofs`, `ClusterProofs`, `GateFrontProofs`, `PacketProofs`, `PeerAddressProofs`, `ContainerProofs`, `AvatarProofs`, `DataPoolProofs` | theorems | each extends the module it is about (`PacketProofs` `PacketStream`; `ContainerProofs` `MissionContainer` and `RingBuffer`); `ClusterProofs` takes `NetServerProofs` by instantiation |

Definitions keep the names of the functions they model; `PROJECT.json` maps each
to its lines. Definitions introduced by a comment "Mutant of ..." are no part of
the model: they are faulty variants of the definition that follows, used to make
sure that a property would notice such a fault.

**`NetServer`.** Variables are the FIFO, the map, and per connection the channel
state and channel index. `Admit` and `Refuse` are the two branches of
`OnConnect`. The end of a channel is one event: the state changes and the
owner's callback runs, which calls `RemoveChannel` (`LoseAndRemove`) or does not
(`LoseAndKeep`). A connection that was refused or whose channel was removed has
no object any more.

**`Cluster`.** A member of `Gate` or `World` is one run of a process, so a
restart is another member; the sets can be as large as one likes in the proofs.
The Center's variables are those of its listener, the peer type of each channel,
and the registry. A server has its process state, its back-end channel
(`backState`, with `"none"` for a null `m_pBackEnd`), its PeerInfo (`backInfo`),
and `view` / `viewTypes`, the entries and the keys of `m_ServerInfos` (a key
stays when its set is emptied, and the assertion at `ServerManager.cpp:56` is
about keys). `link` is the state of the connection as the operating system sees
it; `up` counts the `PktRegisterReq`s on their way to the Center (they are all
alike) and `down` is the queue of packets on their way to the server. Every
callback of the code is one action; `OnMessage_PktRegisterReq` includes the
acknowledgement, the list, the broadcast and the insertion.

**`Directory`** knows no packets, acknowledgements or channel indexes: only the
registry, the name each server has in it, who is told of changes, and per server
the state it read last (`view`) and the states it was told of and has not read
(`ahead`). `Cluster` maps a packet on its way to the state that its receiver will
have after it, so that a list, an addition and a removal are all "the registry as
it is now, without your own type", and an acknowledgement is a state that comes
twice. `ImplementsDirectory` then says more than `KnowsOrWillKnow`: a server is
not only right in the end, every state on the way there is one that its share of
the registry was in, in the registry's order; and no two servers have a name in
common. What happens to an entry when its server is lost depends on the wiring:
`Leave` (front-end callback, the others are told) or `Forget` (as built, the entry
stays).

**`GateFront`.** The Center is reduced to the queue in each direction and the two
handlers that answer a gate, in the order module `Cluster` establishes. A client
is one run of the client program. `gate` records where the gate aborted, if it
did; the other variables keep the values of that moment.

**`MissionContainer`.** The array with its stale pointers, as `RemoveAt` leaves
them. `base_iterator.hpp` needs small repairs before it compiles (the
constructor declared `virtual`, a missing semicolon, `Count` for `Size`,
`Iterator_T` used before its declaration); the model takes it with these.
`answer` is what the last `CreateMission` or `GetMission` returned, so that the
refinement speaks of it too.

**`RingBuffer`.** `in_` and `out_` only grow, so in a long life they pass the end
of an `int`. That is undefined in C++; the model takes the outcome that every
compiler of the two platforms produces for these expressions, arithmetic modulo
the width, and shows that the buffer then goes on working, because its size is a
power of two (the assertion of the constructor). The asserts in `write`, `read`
and `peek` are left out: with them the calls that are cut would stop the program
instead. Nothing in the repository uses the class.

**`PacketStream`.** One level below `Cluster` and `GateFront`: a packet is a
sequence of bytes. `wire` and `evbuf` are, per direction, the bytes on their way
and those the receiver's evbuffer holds; `Arrive` moves any number of them, and
an `OnMessage` action is one read callback: `ReadMessage` takes the whole packets
out, one in each `Turn` of its loop, and leaves the rest; then each packet is
given to the forwarding function, one after another (`ForEach`). An invalid
length ends the loop like a partial packet does, since the caller ignores the
error. The client is a guest and the connections hold (the two modules above have
the rest). `sent` and `got` are histories. `adler32` is a constant, since nothing
but its dependence on the message matters. A packet has
one destination, the only case the code makes. Nothing looks into an int, so its
bytes are all equal; lengths are two digits to a small base, and
`MAX_PACKET_SIZE` is chosen so that the longest message that the constructors
admit occurs and both digits are used. No code sends to a client through the
Center yet; `Center_SendPacket` is the function that would.

**`PeerAddress`.** Words are the code's 32 bits, masks and shifts written as
division and remainder. The actions are the assignments to PeerInfos along
registration and a client's connection; `Hop`, `HandledByGate` and `HandledFor`
are the conditions of the two routers, applied in the properties to any word at
any time.

**`Avatar`.** A call of `SetExp` is the storing of a value, the calls of the
observers one by one, and for a rise of the level the same again for the
experience (`SetExp_Rest`). An observer is taken to keep what it is told. The
order of observers is that of their addresses, so any order.

**`DataPool`.** A step of loading is one file opened (`LoadFile`) or one property
pushed (`ParseFromDoc`); nothing runs beside it, and `ItemDB` is made when all
files are read. A directory lists its files in any order. A row is its buffer and
its bitset. Tables are as general as the code takes them: properties of any name
and type in any order, and several files of one name, whose properties
`LoadFile` puts into one table (`DataPoolConfig.h:58`), where the name map leads
to the later copy. The repository has examples of each. `LoginServer/item.json`
and `avatar.json` have "char16" and "int32", the text first. The tables below
`Tools/jsondata` have "string" and "int", to which `PushProperty` gives no room
(`DataPool.h:73`): such a field begins where the next one does, and a row of such
fields alone is empty. `Tools/jsondata/Server/item/item.json` and
`Tools/jsondata/Client/item/item.json` have one name.

The assertions are compiled in, and `process` is the line of the one that failed:
an `int` written to or read from a field of another size (lines 43 and 32), a
name that the table does not have (87), a place that it does not have (82), a
table that no file has (`DataPoolConfig.h:42`). In a build without them `SetItemID`
on the tables of `Tools/jsondata` writes four bytes behind the row: that is
mutant `SetNumber_NoAssert`, which breaks `DataPoolTypeOK`. The calls are those of
`ItemDB` and their like: `SetNumber` by a name of `NumberName`, `SetText` by one of
`TextName`, whatever the type of the field there, and `GetItemID` by place
(`GetItemIDFails` is what it changes, when an assertion fails). `main.cpp` writes one
value into one field each and takes a literal for the argument it is given; here
any value is written. `SetValueString` does not add the offset of its field, so
texts go to the front of the row. The properties say what that leaves alone, by
a condition on the field and never by an assumption on the tables:

- `NumbersReadBack` claims nothing of a number in reach of a text, that is, one
  nearer to the front than some text field is long (`OutOfReach`). A number in
  front of its text, as in table `bag` of the run, is overwritten.
- `TextReadsBack` claims nothing of a text that is not at the front, or of one of
  several with room (`OnlyText`).
- `ChangedExactly` claims nothing of a table with more fields than a word has
  bits where the bitset takes the word to be longer: the model has the word size
  by which the bitset indexes apart from the 32 bits of a word.
- `ItemIDReadsBack` is about tables that come from one file with the item id as
  its second property (`ItemFile`): with another place, or a second file of that
  name, `SetItemID` and `GetItemID` may use different fields.

`written` is a history.

## 3. Plan

Done: the listener, the cluster, the gate's client side, the mission store, the
ring buffer, packets, PeerInfo, avatar, data pool; proofs of every invariant
that a passing run checks, and of the four refinements.

What could follow:

1. A small composition of `GateFront` with a client's messages cut as in
   `PacketStream`.
2. The game server, once its network code is no longer commented out.

## 4. The runs

| Run | Instance | Checks |
|---|---|---|
| `net_server` | 5 connections, 3 indexes | type, `MapConsistent`, `PoolPartition`, `ImplementsSlots` |
| `cluster_as_built` | 2 gates, 1 world, 2 indexes, 1 client per gate, back-end callback | type, `KnowsOrWillKnow`, `NoSyncSkipped` |
| `cluster_front_end` | the same, front-end callback | `KnowsOrWillKnow`, `WorldOnlyHearsItsName`, `RemoveFindsType`, `RegistryHasChannels`, `IdentityRoutesBack`, `ImplementsDirectory` |
| `cluster_converges` | 1 gate, 1 world, front-end callback | `Convergence`, `Answered` |
| `gate_front` | 3 clients, 1 index, front-end callback | `AckFindsGuest`, `GateDiesOnlyWithoutCenter`, `LoginAnswered` |
| `gate_as_built` | 2 clients, back-end callback | violates `EveryClientIsAGuest` |
| `containers` | 3 mission ids, 4 slots; 4 places, 2 byte values, counters of 16 values | `NoMissionLost`, `ImplementsQueue` |
| `container_assert` | 2 mission ids, 3 slots | violates `PushFindsEmptySlot` |
| `packets` | 3 packets, of the client to gate or Center, of the Center to the client, 2 messages | `InOrder`, `Delivered` |
| `peer_address` | 2 gates, 3 clients, indexes 1, 2, 255 and 1023 | `GateIsReached`, `ClientIsReached` |
| `avatar` | 3 observers, 4 levels of 10 points, 12 arguments | `ObserversInStep`, `NothingLost`, `NoDipSeen` |
| `data_pool` | 6 files for 5 tables and a name without one, 2 rows, words of 2 bits | type (no write leaves its row), `NumbersReadBack`, `TextReadsBack`, `ChangedExactly`, `ItemIDReadsBack` |

**Bounds.** `MaxConns` is the argument of the listener's constructor (a few
thousand would only repeat what three indexes show): with one connection more
than indexes there is a refusal, and with the front-end callback a reuse, under
a server that has broadcasts on their way. Two gates and a world give broadcasts
between types, and two servers of one type. `MaxClients` bounds how often a gate
registers again for a client (as built); one is enough for a repeated
acknowledgement to overlap with everything else. The liveness properties of the
cluster run with two servers: with three the behaviour graph is several times
larger, and what a third server adds, broadcasts that overlap, is in
`KnowsOrWillKnow`, from which `Convergence` follows once the mail is read. In
`GateFront` three clients over one index give a refusal, and a reuse, twice,
while an answer for the former owner is on its way; the gate's queues then hold
packets for several clients, whose guests share nothing else. The other
variables are bounded by the protocol. No bound appears in a guard of the
proofs' modules except `MaxClients`, which is a constant like the others there.

`MaxPackets` bounds the packets sent: three lie in a stream as one whole, one
partial and one behind it. `PeerAddress` takes the smallest indexes, which
coincide between gates and clients, and the largest that fit their fields.
Arguments of `SetExp` lie on both sides of every limit, one is worth more than
two levels, one is negative. A text is shorter than, as long as, and longer than
its field, and longer than the whole row. The tables of `DataPool` are one like
`LoginServer/item.json`, one with the text behind a number, one with the types of
`Tools/jsondata`, one from two files of one name, and one of a single field, so that
every assertion fails somewhere; three fields need two words of two bits. Four slots leave room for a removal in front, in
the middle and at the end. Counters of sixteen values come round their end after
sixteen bytes, at every place of the buffer of four, full and empty; one value of
`INT_RANGE` is like another as long as the size divides the range. `MaxLen` bounds
the length of a call and is the size of the buffer, so that calls are cut whenever
it is not empty.

**Deadlock** is not checked where the system may rest: all servers have been
killed, all clients have left, every packet was handled, or an assertion ended the
process (`DataPool`). The other modules
never rest.

**Fairness.** Weak fairness of the steps an event loop takes when there is
something to do: the handshake, accepting, reading, the end-of-file after a
close. Each loop runs for ever (`Run`, `Tick`) and libevent reports every ready
event. In `PacketStream` TCP delivers what was written, since the connections
hold there, and sending is not fair. Starting, failing, killing and leaving are
not fair: nobody has to. An error that one end sees need not be seen at the
other (a connection broken without a packet), which is why `Answered` and
`LoginAnswered` except servers and clients whose connection failed at the far
end alone.

**What the two violations show.** As built, `EveryClientIsAGuest` fails with the
first login, by the wiring described above (`PacketProcessor_Gate.cpp:80`).
`PushFindsEmptySlot` fails after the creation and removal of one mission: the
test for the last item (`base_iterator.hpp:68`) sits inside a condition that
excludes it.

## 5. The proofs

`NetServerProofs` proves for every set of connections and every table size that
`NetServerInv` (type, `MapConsistent`, `PoolPartition`, and that a connection
that was not accepted has no index) is inductive, hence `NetServerTypeCorrect`,
`MapIsSound` and `PoolIsSound`; and `SlotsRefinement`, that every step of the
listener is a step of `ChannelSlots` or leaves it unchanged. The invariant needs
all parts together: that an appended index is not yet in the FIFO follows from
the map still naming its channel.

`ClusterProofs` proves, for every set of servers, every table size and both
wirings, `ClusterTypeOK`, `WorldSafe`, `GateSkipsNoSync`, `RegistrySound` and
`IdentitySound`. The argument is about the mail of each server (`MailInv`):
everything on its way to p is an acknowledgement addressed to p's bare type or a
sync addressed to p's PeerInfo, and while p does not have its PeerInfo the first
packet is an acknowledgement. A broadcast keeps this since the registry entry it
follows leads to the channel of an acknowledged server
(`RegistryHasChannels`), which in turn rests on the listener's invariant, taken
from `NetServerProofs` by instantiation. A world server registers once
(`OnceInv`), so it never sees a second acknowledgement, which would abort it; a
gate may, and skips it.

It proves for the same clusters `NoChangeIsLost`
(`KnowsOrWillKnow`) and `RemovalsFindTheirType`. What a server will know, once it
has read what is on its way, is defined by the last word on each PeerInfo
(`Known`) and not by folding over the queue, so that it can be proved about: a
packet at the end of the queue changes it as the registry changes, and a packet
read from its front leaves it as it is. A registration adds two packets for the
newcomer, whose list replaces nothing that is still on its way, since it knows and
will know a part of that list only. The second theorem rests on the first: a
removal goes to attached servers, they know the server that is removed, so they
have heard of its type, or a packet in front of the removal tells them.

`DirectoryRefinement` is the refinement of `Directory`, again for every set of
servers, every table size and both wirings, under the same invariant (`ClusterInv`
and `KnowAll`). It goes step by step: a registration is `Enter` (`RegisterEnters`),
the end of a channel `Leave`, `Forget` or a stutter if the server never registered
(`ChannelLostLeaves`), a closed back end `HangUp` (`DropHangsUp`), each packet read
`Read` (`TakesReads`), and everything else a stutter (`QuietSteps`). Two lemmas
carry it: a packet that is sent adds one state at the end of those ahead, and a
packet that is read takes the first away and leaves the others as they are
(`StatesGrow`, `StatesRead`). That the state added is the receiver's share of the
registry needs `KnowInv`, and that no name is taken twice the listener's invariant.

`GateFrontProofs` proves for every set of clients and every table size
`GateTypeCorrect` and `AckAlwaysFindsGuest` (both wirings), and
`GateOutlivesItsClients` for the wiring the handlers are written for; as built it
is false, which run `gate_as_built` shows from the other side. Guests are never
removed, so every packet between gate and Center names a guest (`GateInv`); a
client that has a channel is a guest, or was let in after the Center was lost
(`AdmittedInv`), and admitting another client changes no label but its own,
because the listener gives out no index twice.

`ContainerProofs` proves for every limit `ContainerTypeCorrect`, and
`ContainerIsABag`, the refinement: the number of slots with an id grows by one
with a push, and shrinks by one with a removal, also where the last item moves
into the gap, since it gives up one slot for another. The invariant is that every
slot below the size holds a mission; what lies beyond it does not matter.

It proves for every size and every range of the counters `RingBufferTypeCorrect`
and `RingBufferIsAQueue`, the refinement of `ByteQueue`. The invariant says that
for some number of unread bytes, at most the size, the writer's counter is the
reader's plus that number, modulo the range of an `int`. The difference of the
counters, read as an `int`, is then that number, on whichever side of the range's
end the two are; and since the size goes into the range, the end of the range is
the end of a turn of the buffer, so that masking finds the same places before and
after it. The rest compares places byte by byte: a write leaves the unread bytes
where they are, and a read moves the first place only.

`PacketProofs` proves `PacketTypeCorrect` and `PacketsInOrder`, for every base,
size of an int, set of messages that the constructors admit, checksum and number
of packets. The invariant (`Flow`) names the packets in flight on the four links:
the evbuffer and the wire of a link are together the concatenation of their
encodings, so a cut may lie anywhere; and what was handled, followed by the
contents of what is in flight, is what was sent. For the Center these are the
packets between gate and Center followed by those of the client that the gate will
pass on. The invariant is needed because neither a byte on the wire nor an evbuffer
says by itself where a packet begins. Two things carry the proof. `ReadMessageTakes`:
from a buffer that begins such a stream the loop takes packets of the stream, the
first ones, and leaves a buffer that begins the stream of the others, whether the
loop ends for want of bytes or at the bound of its turns. And the layouts:
`PacketCReads` and `PacketSReads` say that a receiver reads in a packet the owner,
message and destination that were put there and finds the checksum right, that
the length is within the limits `ReadMessage` tests and fits two digits, and
`PacketSIs` that a relay of the gate makes the same bytes as the constructor of the
other layout would. `ReadMessage` and the library's `FlattenSeq` are recursive
functions, of which a prover knows nothing until they are shown to exist
(`TurningExists`, `FlatteningExists`); what is said of all their arguments is said
by induction. The library's theorems on induction take a predicate as a parameter,
which the provers cannot instantiate; here induction is stated over sets of numbers
(`Induction`), from the theorem that a set of numbers has a least member.

`DataPoolProofs` proves for all files, tables, texts and numbers
`DataPoolTypeCorrect`, `NumbersAlwaysReadBack`, `TextAlwaysReadsBack`,
`ChangedIsExact` and `ItemIDAlwaysReadsBack`. No property of a table is assumed:
what the properties except, they except in their own conditions (section 2). The
invariant has three layers. Any column, from whatever files, has its fields one
behind the other, those without room included, and its names lead to different
fields (`ColOK`). The column of a table with one file has the properties of that
file, and a name that occurs once leads to its own (`FromFile`); only
`ItemIDAlwaysReadsBack` needs this. A row holds, name by name, what was written
(`RowOK`). Beside them, `GetItemID` has failed only where there is no number at
its place.

`PeerAddressProofs` proves, for every set of gates and clients and all channel
indexes that fit their fields, `PeerAddressTypeCorrect`, `GateAlwaysReached` and
`ClientAlwaysReached`. Below them is one lemma on the word: a word made of a
type, a peer index and a channel index has these three as its parts, whatever
they are, so that each setter changes its own part only. The invariant above it
says how the words of one registration relate: an acknowledgement on its way and
the gate's own word are the Center's label of its channel, labels of two gates
have different indexes, and a guest's word has the index of its gate and an index
that no other client of the gate has.

`AvatarProofs` proves for every set of observers, every limit and every argument
`AvatarTypeCorrect`, `AvatarObserversInStep`, `AvatarNothingLost` and
`AvatarNoDipSeen`. The invariant says what holds in the middle of a call: an
observer that was called has the new value of the part being notified, one that
was not has the value from before, and while the level is notified the experience
is still the one from before the call.

The proofs rest on the named assumptions on the constants (in `Cluster`: the two
kinds of server are disjoint, `NoConn` is no server, `MaxConns` is a positive
number, the callback is one of the two; in `PeerAddress`: indexes fit their
fields; in `Avatar`: the limits are positive numbers; in `GateFront`: `NoConn` is
no client, the gate's index is that of a channel, the callback is one of the two;
in `PacketStream`: a base of at least two, an int of at least one byte, limits
that a length of two digits can express, messages that the assertion of the
constructors admits, four addresses, of which the gate's and the Center's differ;
in `MissionContainer`: `NULL` is no mission, the limit is positive; in
`RingBuffer`: the size is positive and goes a multiple of four times into the
range of an `int`, as every power of two does that is one; in `DataPool`:
properties have a name and a type, sizes are positive numbers, a number has the
size of "int32", the names used for numbers are not used for texts and "ItemID" is
one of them, and `Unset` and `nullptr` are none of the values they stand beside;
nothing is assumed of which names and types a table has, where its texts are, or
how files are named) and on nothing else.

**Only model-checked:** the liveness properties `Convergence`, `Answered`,
`LoginAnswered` and `Delivered`: fairness and ENABLED are beyond the prover. The
fairness part of a specification is not used in any proof.

## 6. What is not modelled

The inside of a message (names, protobuf parsing), and checksums beyond their
dependence on every byte. What no code sends: packets with several destinations,
packets from server to server through the Center, `PktServerSync` updates. Bytes
that no constructor of the repository wrote. Two branches of
`PacketProcessor_Gate::ForwardPacketOnBackEnd` in modules where no packet takes
them: in `Cluster` the one for the channel of a client (lines 50-55), which a list
of servers takes only when `NoSyncSkipped` is violated, and in `GateFront` the
one for the gate itself (45-49), as a permission is addressed to a guest. Game servers take part as a peer
type only: `GameServer` has its network code commented out. Functions without a
caller (`CloseAll`, `ForceClose`, `SetThreadNum`, `AttachAvatar`, `count` and
its like of the bitset, ...). The Center's own end:
no server outlives it as a member of a cluster. The parsing of a JSON file below
its properties, the C# tools, generated and vendored code: most of the lines of
the repository are vendored headers (protobuf, rapidjson, libevent, zlib) and
generated message classes. Of its own code, what is left has no behaviour: the
world server's item classes and the game server's are interfaces or declarations
that nothing instantiates, the timers wrap the clock, the event templates keep no
state.
