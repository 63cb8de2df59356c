------------------------------ MODULE ClusterProofs -----------------------------
(***************************************************************************)
(* For every set of gate and world servers, every size of the Center's     *)
(* channel table and both wirings of the channel events: a world server    *)
(* never aborts over a packet for somebody else, a gate skips nothing but  *)
(* a repeated acknowledgement, the registry names live channels, and the   *)
(* PeerInfo a server goes by leads back to it.                             *)
(*                                                                         *)
(* The argument is about the mail of each server.  Everything on the way   *)
(* to p is an acknowledgement addressed to p's bare type, or a sync        *)
(* addressed to p's own PeerInfo; and while p does not have its PeerInfo,  *)
(* the first packet is the acknowledgement (MailInv).  A broadcast keeps   *)
(* this because the registry entry it follows leads to the channel of a    *)
(* server that was acknowledged (RegistryHasChannels), which in turn rests *)
(* on the soundness of the channel table (NetServerProofs).  A world       *)
(* server asks once, so that it has one acknowledgement in its life        *)
(* (OnceInv).                                                              *)
(***************************************************************************)
EXTENDS Cluster, SequenceTheorems, FiniteSetTheorems, TLAPS

Table == INSTANCE NetServerProofs WITH Conn <- Server

Bare(p) == Info(TypeOf(p), 0)

\* A packet that may be on its way to p.
Proper(p, pkt) ==
  /\ m_channel_index[p] \in Listener!Index
  /\ pkt.name = "RegisterAck" => pkt.dest = Bare(p) /\ pkt.infos = {Registered(p)}
  /\ pkt.name # "RegisterAck" => pkt.dest = Registered(p)

\* How far the connection of p has come.
LinkInv(p) ==
  /\ proc[p] = "off" => link[p] = "none" /\ backState[p] = "none"
  /\ link[p] = "none" => up[p] = 0 /\ backState[p] # "eConnected"
  /\ link[p] \in {"none", "backlog"} => m_eState[p] = "none"
  /\ m_eState[p] = "none" => m_peer_type[p] = "undefine"
  /\ m_peer_type[p] \in {"undefine", TypeOf(p)}

\* What is on its way to p, and what p calls itself.
MailInv(p) ==
  /\ \A k \in 1 .. Len(down[p]) : Proper(p, down[p][k])
  /\ \/ backInfo[p] = Bare(p)
     \/ backInfo[p] = Registered(p) /\ m_channel_index[p] \in Listener!Index
  /\ m_peer_type[p] = "undefine" => down[p] = << >> /\ backInfo[p] = Bare(p)
  /\ (backInfo[p] = Bare(p) /\ down[p] # << >>) => down[p][1].name = "RegisterAck"
  /\ (backInfo[p] = Bare(p) /\ backState[p] # "none" /\ m_peer_type[p] # "undefine")
        => down[p] # << >>

\* A world server registers once.
OnceInv(p) ==
  /\ proc[p] # "World:36"
  /\ up[p] # 0 => up[p] = 1 /\ m_peer_type[p] = "undefine"
  /\ backState[p] = "eConnecting" => up[p] = 0 /\ m_peer_type[p] = "undefine"
  /\ \A k \in 1 .. Len(down[p]) :
        down[p][k].name = "RegisterAck" => k = 1 /\ backInfo[p] = Bare(p)

ClusterInv ==
  /\ TypeOK
  /\ Table!NetServerInv
  /\ RegistryHasChannels
  /\ \A p \in Server : LinkInv(p) /\ MailInv(p)
  /\ \A p \in World : OnceInv(p)

--------------------------------------------------------------------------------
LEMMA SetToSeqSmall ==
  ASSUME NEW e
  PROVE  SetToSeq({}) = << >> /\ SetToSeq({e}) = <<e>>
  <1>1. Cardinality({}) = 0 /\ Cardinality({e}) = 1
    BY FS_EmptySet, FS_Singleton
  <1>2. SetToSeq({}) = << >>
    <2>1. \A f \in [1 .. 0 -> {}] : f = << >>
      OBVIOUS
    <2>2. << >> \in [1 .. 0 -> {}] /\ IsInjective(<< >>)
      BY DEF IsInjective
    <2> QED  BY <1>1, <2>1, <2>2 DEF SetToSeq
  <1>3. SetToSeq({e}) = <<e>>
    <2>1. \A f \in [1 .. 1 -> {e}] : f = <<e>>
      OBVIOUS
    <2>2. <<e>> \in [1 .. 1 -> {e}] /\ IsInjective(<<e>>)
      BY DEF IsInjective
    <2> QED  BY <1>1, <2>1, <2>2 DEF SetToSeq
  <1> QED  BY <1>2, <1>3

LEMMA ConcatTwo ==
  ASSUME NEW S, NEW s \in Seq(S), NEW a \in S, NEW b \in S
  PROVE  LET t == s \o <<a, b>>
         IN  /\ t \in Seq(S) /\ Len(t) = Len(s) + 2 /\ Len(s) \in Nat
             /\ \A k \in 1 .. Len(s) : t[k] = s[k]
             /\ t[Len(s) + 1] = a /\ t[Len(s) + 2] = b
  <1>1. <<a, b>> \in Seq(S) /\ Len(<<a, b>>) = 2
    OBVIOUS
  <1>2. Len(s) \in Nat
    BY LenProperties
  <1> DEFINE t == s \o <<a, b>>
  <1>3. /\ t \in Seq(S) /\ Len(t) = Len(s) + 2
        /\ \A i \in 1 .. (Len(s) + 2) : t[i] = IF i <= Len(s) THEN s[i] ELSE <<a, b>>[i - Len(s)]
    BY <1>1, ConcatProperties
  <1> QED  BY <1>1, <1>2, <1>3

\* The facts proved of the channel table, in the names of Cluster.
LEMMA TableInit == Listener!NetServerInit => Table!NetServerInv
  BY NoServerAssumption, MaxConnsPositive, Table!InitInv DEF Listener!NetServerInit, Table!NetServerInit, Listener!Index, Table!Index

LEMMA TableStep ==
  ASSUME Table!NetServerInv, NEW p \in Server,
         \/ Listener!Admit(p) \/ Listener!Refuse(p)
         \/ Listener!LoseAndKeep(p) \/ Listener!LoseAndRemove(p)
  PROVE  Table!NetServerInv'
  <1>1. /\ Listener!Admit(p) => Table!Admit(p)
        /\ Listener!Refuse(p) => Table!Refuse(p)
        /\ Listener!LoseAndKeep(p) => Table!LoseAndKeep(p)
        /\ Listener!LoseAndRemove(p) => Table!LoseAndRemove(p)
    BY DEF Listener!Admit, Listener!Refuse, Listener!LoseAndKeep, Listener!LoseAndRemove,
           Table!Admit, Table!Refuse, Table!LoseAndKeep, Table!LoseAndRemove
  <1> QED  BY <1>1, NoServerAssumption, MaxConnsPositive,
          Table!AdmitInv, Table!StateOnlyInv, Table!LoseAndRemoveInv

LEMMA TableSame ==
  ASSUME Table!NetServerInv,
         UNCHANGED <<m_freeindexes, m_mapChannels, m_eState, m_channel_index>>
  PROVE  Table!NetServerInv'
  <1>1. UNCHANGED Table!nsvars
    BY DEF Table!nsvars
  <1> QED  BY <1>1, NoServerAssumption, MaxConnsPositive, Table!StepInv

LEMMA TableFacts ==
  ASSUME Table!NetServerInv
  PROVE  /\ Listener!NetServerTypeOK
         /\ \A i \in Listener!Index : m_mapChannels[i] # NoConn =>
               /\ m_eState[m_mapChannels[i]] \in {"eConnected", "eDisconnected"}
               /\ m_channel_index[m_mapChannels[i]] = i
         /\ \A p \in Server : m_eState[p] \in {"eConnected", "eDisconnected"} =>
               /\ m_channel_index[p] \in Listener!Index
               /\ m_mapChannels[m_channel_index[p]] = p
  BY DEF Table!NetServerInv, Table!NetServerTypeOK, Table!MapConsistent, Table!InMap,
         Table!Index, Table!ConnState, Listener!NetServerTypeOK, Listener!Index,
         Listener!ConnState

--------------------------------------------------------------------------------
(* What the steps have in common. *)

LEMMA ConstFacts ==
  /\ \A p \in Server : TypeOf(p) \in PeerType /\ TypeOf(p) \in SyncTypes
  /\ \A p \in World : p \in Server /\ TypeOf(p) = "worldserver"
  /\ MaxConns \in Nat /\ MaxConns # 0
  /\ Listener!Index \subseteq 0 .. (MaxConns - 1) /\ 0 \notin Listener!Index
  /\ \A t \in PeerType, i \in 0 .. (MaxConns - 1) : Info(t, i) \in PeerInfo
  /\ CenterInfo \in PeerInfo
  BY MaxConnsPositive, GateWorldAssumption
     DEF Server, TypeOf, PeerType, SyncTypes, Listener!Index, Info, PeerInfo, CenterInfo

LEMMA TypeFacts ==
  ASSUME TypeOK
  PROVE  /\ m_eState \in [Server -> Listener!ConnState]
         /\ m_channel_index \in [Server -> 0 .. (MaxConns - 1)]
         /\ m_peer_type \in [Server -> PeerType]
         /\ \A p \in Server : /\ down[p] \in Seq(Packet)
                              /\ Registered(p) \in PeerInfo /\ Bare(p) \in PeerInfo
  <1> USE ConstFacts
  <1>1. 0 \in 0 .. (MaxConns - 1)  OBVIOUS
  <1> QED  BY <1>1 DEF TypeOK, Listener!NetServerTypeOK, Registered, Bare

\* A broadcast reaches q as nothing, or as one packet under q's own PeerInfo;
\* the latter only when q has been acknowledged.
LEMMA BroadcastCase ==
  ASSUME TypeOK, Table!NetServerInv, RegistryHasChannels,
         NEW q \in Server, NEW name, NEW me
  PROVE  \/ Broadcast(down[q], q, name, me) = down[q]
         \/ /\ Broadcast(down[q], q, name, me) =
                 Append(down[q], Pkt(name, Registered(q), {me}))
            /\ backState[q] # "none"
            /\ m_peer_type[q] # "undefine"
            /\ m_channel_index[q] \in Listener!Index
  <1>1. CASE ~ (me.type \in SyncTypes /\ Reaches(q))
    BY <1>1 DEF Broadcast
  <1>2. CASE me.type \in SyncTypes /\ Reaches(q)
    <2>1. ASSUME NEW x \in Told(me.type, q)
          PROVE  x = Registered(q) /\ m_peer_type[q] = x.type /\ x.type \in SyncTypes
      <3>1. x \in registry /\ x.type \in SyncTypes /\ Listener!GetChannel(x.channel) = q
        BY <2>1 DEF Told
      <3>2. x # CenterInfo
        BY <3>1 DEF CenterInfo, Info, SyncTypes
      <3>3. x.channel \in Listener!Index /\ m_mapChannels[x.channel] = q
        BY <3>1, <3>2 DEF RegistryHasChannels, Listener!GetChannel
      <3> QED  BY <3>1, <3>2, <3>3 DEF RegistryHasChannels
    <2>2. Reaches(q) => m_channel_index[q] \in Listener!Index
      BY TableFacts DEF Reaches
    <2>3. CASE Told(me.type, q) = {}
      <3>1. {Pkt(name, x, {me}) : x \in Told(me.type, q)} = {}
        BY <2>3
      <3>2. Broadcast(down[q], q, name, me) = down[q] \o << >>
        BY <1>2, <3>1, SetToSeqSmall DEF Broadcast
      <3> QED  BY <3>2, TypeFacts, ConcatEmptySeq
    <2>4. CASE Told(me.type, q) # {}
      <3>1. Told(me.type, q) = {Registered(q)}
        BY <2>1, <2>4
      <3>2. {Pkt(name, x, {me}) : x \in Told(me.type, q)} = {Pkt(name, Registered(q), {me})}
        BY <3>1
      <3>3. Broadcast(down[q], q, name, me) = down[q] \o <<Pkt(name, Registered(q), {me})>>
        BY <1>2, <3>2, SetToSeqSmall DEF Broadcast
      <3>4. down[q] \o <<Pkt(name, Registered(q), {me})>> =
              Append(down[q], Pkt(name, Registered(q), {me}))
        BY TypeFacts
      <3>5. m_peer_type[q] # "undefine"
        BY <2>1, <2>4 DEF SyncTypes
      <3> QED  BY <1>2, <2>2, <3>3, <3>4, <3>5 DEF Reaches
    <2> QED  BY <2>3, <2>4
  <1> QED  BY <1>1, <1>2

\* Mail that grows by a sync under the receiver's own PeerInfo stays in order.
LEMMA MailGrows ==
  ASSUME TypeOK, NEW q \in Server, NEW name \in {"SyncAdd", "SyncRemove"}, NEW S,
         Pkt(name, Registered(q), S) \in Packet,
         m_channel_index[q] \in Listener!Index,
         down'[q] = Append(down[q], Pkt(name, Registered(q), S)),
         m_channel_index'[q] = m_channel_index[q], m_peer_type'[q] = m_peer_type[q],
         backInfo'[q] = backInfo[q], backState'[q] = backState[q],
         proc'[q] = proc[q], up'[q] = up[q],
         m_peer_type[q] # "undefine", backState[q] # "none",
         MailInv(q)
  PROVE  MailInv(q)' /\ (OnceInv(q) => OnceInv(q)')
  <1> DEFINE pkt == Pkt(name, Registered(q), S)
             d == down[q]
  <1>1. d \in Seq(Packet)
    BY TypeFacts
  <1>2. /\ Len(down'[q]) = Len(d) + 1 /\ Len(d) \in Nat
        /\ \A k \in 1 .. Len(d) : down'[q][k] = d[k]
        /\ down'[q][Len(d) + 1] = pkt
    BY <1>1, AppendProperties, LenProperties
  <1>3. pkt.name = name /\ pkt.dest = Registered(q) /\ name # "RegisterAck"
    BY DEF Pkt
  <1>4. Registered(q)' = Registered(q)
    BY DEF Registered
  <1>5. d = << >> => backInfo[q] # Bare(q)
    BY DEF MailInv
  <1>6. down'[q] # << >>
    BY <1>1, AppendProperties
  <1>7. d # << >> => Len(d) # 0
    BY <1>1, EmptySeq
  <1> HIDE DEF pkt, d
  <1>8. \A k \in 1 .. Len(down'[q]) :
          (k \in 1 .. Len(d) /\ down'[q][k] = d[k]) \/ down'[q][k] = pkt
    BY <1>2
  <1>9. \A k \in 1 .. Len(down'[q]) : Proper(q, down[q][k])'
    BY <1>3, <1>4, <1>8 DEF Proper, MailInv, d
  <1>10. MailInv(q)'
    <2>1. backInfo'[q] = Bare(q) \/
            (backInfo'[q] = Registered(q)' /\ m_channel_index'[q] \in Listener!Index)
      BY <1>4 DEF MailInv
    <2>2. (backInfo'[q] = Bare(q) /\ down'[q] # << >>) => down'[q][1].name = "RegisterAck"
      BY <1>2, <1>5, <1>7 DEF MailInv, d
    <2> QED  BY <1>6, <1>9, <2>1, <2>2 DEF MailInv, Bare
  <1>11. OnceInv(q) => OnceInv(q)'
    BY <1>2, <1>3, <1>8 DEF OnceInv, Bare, d
  <1> QED  BY <1>10, <1>11

\* A server none of whose state changes keeps its invariants.
LEMMA Untouched ==
  ASSUME NEW q \in Server, LinkInv(q) /\ MailInv(q),
         m_channel_index'[q] = m_channel_index[q], m_peer_type'[q] = m_peer_type[q],
         m_eState'[q] = m_eState[q], link'[q] = link[q], up'[q] = up[q],
         proc'[q] = proc[q], backState'[q] = backState[q], backInfo'[q] = backInfo[q],
         down'[q] = down[q]
  PROVE  LinkInv(q)' /\ MailInv(q)' /\ (OnceInv(q) => OnceInv(q)')
  <1>1. LinkInv(q)'
    BY DEF LinkInv
  <1>2. MailInv(q)'
    BY DEF MailInv, Proper, Bare, Registered
  <1>3. OnceInv(q) => OnceInv(q)'
    BY DEF OnceInv, Bare
  <1> QED  BY <1>1, <1>2, <1>3

\* What is left to show of a step of server p alone.
LEMMA ServerStepFrame ==
  ASSUME ClusterInv, NEW p \in Server, UNCHANGED centervars, TypeOK',
         \A q \in Server \ {p} :
            /\ link'[q] = link[q] /\ up'[q] = up[q] /\ proc'[q] = proc[q]
            /\ backState'[q] = backState[q] /\ backInfo'[q] = backInfo[q]
            /\ down'[q] = down[q],
         LinkInv(p)', MailInv(p)', p \in World => OnceInv(p)'
  PROVE  ClusterInv'
  <1>1. UNCHANGED <<m_freeindexes, m_mapChannels, m_eState, m_channel_index>>
    BY DEF centervars
  <1>2. Table!NetServerInv'
    BY <1>1, TableSame DEF ClusterInv
  <1>3. RegistryHasChannels'
    BY DEF ClusterInv, RegistryHasChannels, Registered, centervars
  <1>4. ASSUME NEW q \in Server
        PROVE  LinkInv(q)' /\ MailInv(q)' /\ (q \in World => OnceInv(q)')
    <2>1. CASE q = p  BY <2>1
    <2>2. CASE q # p
      BY <2>2, Untouched DEF ClusterInv, centervars
    <2> QED  BY <2>1, <2>2
  <1> QED  BY <1>2, <1>3, <1>4, ConstFacts DEF ClusterInv

--------------------------------------------------------------------------------
(* The steps of the servers. *)

LEMMA StartInv ==
  ASSUME ClusterInv, NEW p \in Server, Start(p)
  PROVE  ClusterInv'
  <1>1. TypeOK'
    BY DEF ClusterInv, TypeOK, Start, centervars, netvars, Listener!NetServerTypeOK
  <1>2. LinkInv(p)' /\ MailInv(p)' /\ (p \in World => OnceInv(p)')
    <2>1. /\ proc[p] = "off" /\ proc'[p] = "running" /\ backState'[p] = "eConnecting"
          /\ link'[p] = link[p] /\ up'[p] = up[p] /\ down'[p] = down[p]
          /\ backInfo' = backInfo /\ UNCHANGED centervars
      BY DEF Start, ClusterInv, TypeOK, netvars
    <2>2. link[p] = "none" /\ up[p] = 0 /\ m_peer_type[p] = "undefine"
      BY <2>1 DEF ClusterInv, LinkInv
    <2>3. LinkInv(p)'
      BY <2>1, <2>2 DEF ClusterInv, LinkInv, centervars
    <2>4. MailInv(p)'
      BY <2>1, <2>2 DEF ClusterInv, MailInv, Proper, Bare, Registered, centervars
    <2>5. p \in World => OnceInv(p)'
      BY <2>1, <2>2 DEF ClusterInv, OnceInv, Bare, centervars
    <2> QED  BY <2>3, <2>4, <2>5
  <1> QED  BY <1>1, <1>2, ServerStepFrame DEF Start, netvars, ClusterInv, TypeOK

LEMMA HandshakeInv ==
  ASSUME ClusterInv, NEW p \in Server, Handshake(p)
  PROVE  ClusterInv'
  <1>1. TypeOK'
    BY DEF ClusterInv, TypeOK, Handshake, centervars, servervars, Listener!NetServerTypeOK
  <1>2. LinkInv(p)' /\ MailInv(p)' /\ (p \in World => OnceInv(p)')
    BY DEF Handshake, ClusterInv, TypeOK, centervars, servervars,
           LinkInv, MailInv, Proper, OnceInv, Bare, Registered
  <1> QED  BY <1>1, <1>2, ServerStepFrame DEF Handshake, servervars, ClusterInv, TypeOK

LEMMA BackEnd_ConnectedInv ==
  ASSUME ClusterInv, NEW p \in Server, BackEnd_Connected(p)
  PROVE  ClusterInv'
  <1>1. /\ UNCHANGED centervars /\ UNCHANGED <<proc, backInfo, link, down>>
        /\ backState' = [backState EXCEPT ![p] = "eConnected"]
        /\ backState[p] = "eConnecting" /\ link[p] # "none"
        /\ up' \in [Server -> Nat]
        /\ \A q \in Server \ {p} : up'[q] = up[q]
        /\ up'[p] \in {up[p], up[p] + 1}
    BY DEF BackEnd_Connected, Login2Center, ClusterInv, TypeOK
  <1>2. TypeOK'
    BY <1>1 DEF ClusterInv, TypeOK, BackEnd_Connected, centervars, Listener!NetServerTypeOK
  <1>3. LinkInv(p)' /\ MailInv(p)'
    BY <1>1 DEF ClusterInv, TypeOK, LinkInv, MailInv, Proper, Bare, Registered, centervars
  <1>4. p \in World => OnceInv(p)'
    BY <1>1 DEF ClusterInv, TypeOK, OnceInv, Bare, centervars
  <1> QED  BY <1>1, <1>2, <1>3, <1>4, ServerStepFrame DEF ClusterInv, TypeOK

\* Losing m_pBackEnd, with or without the process.
LEMMA DropInv ==
  ASSUME ClusterInv, NEW p \in Server, DropBackEnd(p), TypeOK',
         UNCHANGED <<centervars, backInfo, link>>,
         up' = up,
         \A q \in Server \ {p} : proc'[q] = proc[q],
         proc'[p] # "off" \/ proc'[p] = proc[p],
         p \in World => proc'[p] # "World:36"
  PROVE  ClusterInv'
  <1>1. /\ backState' = [backState EXCEPT ![p] = "none"]
        /\ down' = [down EXCEPT ![p] = << >>]
        /\ backState'[p] = "none" /\ down'[p] = << >>
    BY DEF DropBackEnd, ClusterInv, TypeOK
  <1>2. LinkInv(p)'
    BY <1>1 DEF ClusterInv, LinkInv, centervars
  <1>3. MailInv(p)'
    BY <1>1 DEF ClusterInv, MailInv, Proper, Bare, Registered, centervars
  <1>4. p \in World => OnceInv(p)'
    BY <1>1 DEF ClusterInv, OnceInv, Bare, centervars
  <1> QED  BY <1>1, <1>2, <1>3, <1>4, ServerStepFrame DEF ClusterInv, TypeOK

LEMMA BackEndLostInv ==
  ASSUME ClusterInv, NEW p \in Server,
         \/ BackEnd_Disconnected(p) \/ BackEnd_ConnBreak(p)
         \/ Kill(p) \/ ClientDisconnected(p)
  PROVE  ClusterInv'
  <1>1. /\ DropBackEnd(p) /\ UNCHANGED <<centervars, backInfo, view, viewTypes, link, up>>
        /\ clients' = clients
        /\ proc' = proc \/ proc' = [proc EXCEPT ![p] = "killed"]
    BY DEF BackEnd_Disconnected, BackEnd_ConnBreak, Kill, ClientDisconnected, Dies
  <1>2. TypeOK'
    BY <1>1 DEF ClusterInv, TypeOK, DropBackEnd, centervars, Listener!NetServerTypeOK
  <1>3. /\ \A q \in Server \ {p} : proc'[q] = proc[q]
        /\ proc'[p] = proc[p] \/ proc'[p] = "killed"
        /\ p \in World => proc'[p] # "World:36"
    BY <1>1 DEF ClusterInv, TypeOK, OnceInv
  <1> QED  BY <1>1, <1>2, <1>3, DropInv

LEMMA ClientConnectedInv ==
  ASSUME ClusterInv, NEW p \in Gate, ClientConnected(p)
  PROVE  ClusterInv'
  <1>1. p \in Server /\ p \notin World
    BY GateWorldAssumption DEF Server
  <1>2. CASE backState[p] = "none"
    <2>1. /\ DropBackEnd(p) /\ UNCHANGED <<centervars, backInfo, view, viewTypes, link, up>>
          /\ proc' = [proc EXCEPT ![p] = "PacketProcessor:126"]
          /\ clients' \in [Server -> 0 .. MaxClients]
      BY <1>1, <1>2, MaxClientsAssumption DEF ClientConnected, Dies, ClusterInv, TypeOK
    <2>2. TypeOK'
      BY <1>1, <2>1 DEF ClusterInv, TypeOK, DropBackEnd, centervars, Listener!NetServerTypeOK
    <2>3. /\ \A q \in Server \ {p} : proc'[q] = proc[q]
          /\ proc'[p] # "off"
      BY <1>1, <2>1 DEF ClusterInv, TypeOK
    <2> QED  BY <1>1, <2>1, <2>2, <2>3, DropInv
  <1>3. CASE backState[p] # "none"
    <2>1. /\ UNCHANGED <<centervars, backInfo, view, viewTypes, link, proc, backState, down>>
          /\ clients' \in [Server -> 0 .. MaxClients]
          /\ up' \in [Server -> Nat]
          /\ \A q \in Server \ {p} : up'[q] = up[q]
          /\ up'[p] = up[p] \/ backState[p] = "eConnected"
      <3>1. UNCHANGED <<centervars, backInfo, view, viewTypes, link, proc, backState, down>>
        BY <1>3 DEF ClientConnected
      <3>2. clients' \in [Server -> 0 .. MaxClients]
        BY <1>1, MaxClientsAssumption DEF ClientConnected, ClusterInv, TypeOK
      <3>3. Login2Center(p, backState[p])
        BY <1>3 DEF ClientConnected
      <3> QED  BY <1>1, <3>1, <3>2, <3>3 DEF Login2Center, ClusterInv, TypeOK
    <2>2. TypeOK'
      BY <2>1 DEF ClusterInv, TypeOK, centervars, Listener!NetServerTypeOK
    <2>3. LinkInv(p)' /\ MailInv(p)'
      BY <1>1, <2>1 DEF ClusterInv, LinkInv, MailInv, Proper, Bare, Registered, centervars
    <2> QED  BY <1>1, <2>1, <2>2, <2>3, ServerStepFrame
  <1> QED  BY <1>2, <1>3

\* Reading takes the head off the mail.
LEMMA MailShrinks ==
  ASSUME TypeOK, NEW p \in Server, down[p] # << >>,
         down'[p] = Tail(down[p])
  PROVE  /\ Head(down[p]) = down[p][1] /\ 1 \in 1 .. Len(down[p])
         /\ Head(down[p]) \in Packet
         /\ \A k \in 1 .. Len(down'[p]) : k + 1 \in 1 .. Len(down[p])
                                          /\ down'[p][k] = down[p][k + 1]
         /\ down'[p] # << >> => 1 \in 1 .. Len(down'[p])
  <1>1. down[p] \in Seq(Packet)
    BY TypeFacts
  <1> QED  BY <1>1, HeadTailProperties, LenProperties, EmptySeq

\* A server that holds its own PeerInfo, or whose first packet is not taken for
\* it, may read any packet; so may one that has just been given its PeerInfo.
LEMMA ReadInv ==
  ASSUME ClusterInv, NEW p \in Server, TypeOK', down[p] # << >>,
         UNCHANGED <<centervars, proc, backState, link, up>>,
         down' = [down EXCEPT ![p] = Tail(@)],
         \A q \in Server \ {p} : backInfo'[q] = backInfo[q],
         m_channel_index[p] \in Listener!Index,
         backInfo'[p] = Registered(p),
         \A k \in 2 .. Len(down[p]) : p \in World => down[p][k].name # "RegisterAck"
  PROVE  ClusterInv'
  <1>1. /\ UNCHANGED <<m_channel_index, m_peer_type, m_eState>>
        /\ Registered(p)' = Registered(p) /\ Bare(p)' = Bare(p)
    BY DEF centervars, Registered, Bare
  <1>2. down'[p] = Tail(down[p])
    BY DEF ClusterInv, TypeOK
  <1>3. \A k \in 1 .. Len(down'[p]) : /\ k + 1 \in 1 .. Len(down[p])
                                     /\ down'[p][k] = down[p][k + 1]
    BY <1>2, MailShrinks DEF ClusterInv
  <1>4. m_peer_type[p] # "undefine"
    BY DEF ClusterInv, MailInv
  <1>5. Registered(p) # Bare(p)
    BY ConstFacts DEF Registered, Bare, Info
  <1>6. LinkInv(p)'
    BY <1>1 DEF ClusterInv, LinkInv
  <1>7. MailInv(p)'
    <2>1. \A k \in 1 .. Len(down'[p]) : Proper(p, down[p][k])'
      BY <1>1, <1>3, SMTT(40) DEF ClusterInv, MailInv, Proper
    <2> QED  BY <1>1, <1>4, <1>5, <2>1 DEF MailInv
  <1>8. p \in World => OnceInv(p)'
    <2> SUFFICES ASSUME p \in World PROVE OnceInv(p)'
      OBVIOUS
    <2>1. \A k \in 1 .. Len(down'[p]) : down'[p][k].name # "RegisterAck"
      <3>1. \A k \in 1 .. Len(down'[p]) : k + 1 \in 2 .. Len(down[p])
        BY <1>3
      <3> QED  BY <1>3, <3>1
    <2> QED  BY <1>1, <2>1 DEF ClusterInv, OnceInv
  <1> QED  BY <1>6, <1>7, <1>8, ServerStepFrame DEF ClusterInv, TypeOK

\* The first packet is the acknowledgement exactly while p is waiting for it.
LEMMA HeadCase ==
  ASSUME ClusterInv, NEW p \in Server, down[p] # << >>
  PROVE  LET pkt == Head(down[p])
         IN  /\ Head(down[p]) = down[p][1]
             /\ m_channel_index[p] \in Listener!Index
             /\ pkt.name = "RegisterAck" => pkt.dest = Bare(p) /\ pkt.infos = {Registered(p)}
             /\ pkt.name # "RegisterAck" => pkt.dest = Registered(p)
             /\ backInfo[p] = Bare(p) => pkt.name = "RegisterAck"
             /\ backInfo[p] # Bare(p) => backInfo[p] = Registered(p)
             /\ \A k \in 1 .. Len(down[p]) :
                  p \in World /\ down[p][k].name = "RegisterAck" => k = 1 /\ backInfo[p] = Bare(p)
  <1>1. 1 \in 1 .. Len(down[p]) /\ Head(down[p]) = down[p][1]
    <2>1. down[p] \in Seq(Packet)
      BY TypeFacts DEF ClusterInv
    <2> QED  BY <2>1, HeadTailProperties, EmptySeq, LenProperties
  <1>2. Proper(p, down[p][1])
    BY <1>1 DEF ClusterInv, MailInv
  <1> QED  BY <1>1, <1>2 DEF ClusterInv, MailInv, Proper, OnceInv

LEMMA ReadTypes ==
  ASSUME ClusterInv, NEW p \in Server, down[p] # << >>
  PROVE  /\ Head(down[p]) \in Packet
         /\ [down EXCEPT ![p] = Tail(@)] \in [Server -> Seq(Packet)]
  <1>1. down[p] \in Seq(Packet)
    BY TypeFacts DEF ClusterInv
  <1>2. Head(down[p]) \in Packet /\ Tail(down[p]) \in Seq(Packet)
    BY <1>1, HeadTailProperties
  <1> QED  BY <1>2 DEF ClusterInv, TypeOK

LEMMA RegisterAckInv ==
  ASSUME ClusterInv, NEW p \in Server, OnMessage_PktRegisterAck(p)
  PROVE  ClusterInv'
  <1> DEFINE pkt == Head(down[p])
  <1>1. /\ down[p] # << >> /\ pkt.name = "RegisterAck" /\ pkt.dest = backInfo[p]
        /\ backInfo' = [backInfo EXCEPT ![p] = CHOOSE x \in pkt.infos : TRUE]
        /\ down' = [down EXCEPT ![p] = Tail(@)]
        /\ UNCHANGED <<centervars, proc, backState, view, viewTypes, clients, link, up>>
    BY DEF OnMessage_PktRegisterAck, Receives, Consume
  <1>2. /\ pkt.infos = {Registered(p)} /\ m_channel_index[p] \in Listener!Index
        /\ backInfo[p] = Bare(p)
    BY <1>1, HeadCase
  <1>3. (CHOOSE x \in pkt.infos : TRUE) = Registered(p)
    BY <1>2
  <1>4. backInfo' = [backInfo EXCEPT ![p] = Registered(p)] /\ Registered(p) \in PeerInfo
    BY <1>1, <1>3, TypeFacts DEF ClusterInv
  <1>5. TypeOK'
    <2>1. down' \in [Server -> Seq(Packet)]
      BY <1>1, ReadTypes
    <2>2. backInfo' \in [Server -> PeerInfo]
      BY <1>4 DEF ClusterInv, TypeOK
    <2> QED  BY <1>1, <2>1, <2>2 DEF ClusterInv, TypeOK, centervars, Listener!NetServerTypeOK
  <1>6. \A k \in 2 .. Len(down[p]) : p \in World => down[p][k].name # "RegisterAck"
    BY <1>1, HeadCase
  <1>7. backInfo'[p] = Registered(p) /\ \A q \in Server \ {p} : backInfo'[q] = backInfo[q]
    BY <1>4 DEF ClusterInv, TypeOK
  <1> QED  BY <1>1, <1>2, <1>5, <1>6, <1>7, ReadInv

\* A packet that is not an acknowledgement finds p under its own PeerInfo.
LEMMA SyncReadInv ==
  ASSUME ClusterInv, NEW p \in Server, down[p] # << >>,
         backInfo[p] # Bare(p), TypeOK',
         UNCHANGED <<centervars, proc, backState, backInfo, link, up>>,
         down' = [down EXCEPT ![p] = Tail(@)]
  PROVE  ClusterInv'
  <1>1. backInfo'[p] = Registered(p) /\ m_channel_index[p] \in Listener!Index
    BY HeadCase
  <1>2. \A k \in 2 .. Len(down[p]) : p \in World => down[p][k].name # "RegisterAck"
    BY HeadCase
  <1> QED  BY <1>1, <1>2, ReadInv

LEMMA SyncInv ==
  ASSUME ClusterInv, NEW p \in Server,
         OnMessage_PktServerSync_add(p) \/ OnMessage_PktServerSync_remove(p)
  PROVE  ClusterInv'
  <1> DEFINE pkt == Head(down[p])
  <1>1. /\ down[p] # << >> /\ pkt.name # "RegisterAck" /\ pkt.dest = backInfo[p]
        /\ UNCHANGED <<centervars, backInfo, clients, link, up>>
    BY DEF OnMessage_PktServerSync_add, OnMessage_PktServerSync_remove, Receives
  <1>2. backInfo[p] # Bare(p)
    BY <1>1, HeadCase
  <1>3. pkt \in Packet /\ pkt.infos \subseteq PeerInfo
    BY <1>1, ReadTypes DEF Packet
  <1>4. /\ view' \in [Server -> SUBSET PeerInfo]
        /\ viewTypes' \in [Server -> SUBSET PeerType]
    <2>1. {x.type : x \in pkt.infos} \subseteq PeerType
      BY <1>3 DEF PeerInfo
    <2>2. view \in [Server -> SUBSET PeerInfo] /\ viewTypes \in [Server -> SUBSET PeerType]
      BY DEF ClusterInv, TypeOK
    <2>3. CASE OnMessage_PktServerSync_add(p)
      BY <1>3, <2>1, <2>2, <2>3 DEF OnMessage_PktServerSync_add
    <2>4. CASE OnMessage_PktServerSync_remove(p)
      <3>1. viewTypes' = viewTypes /\ view' \in {view, [view EXCEPT ![p] = @ \ pkt.infos]}
        BY <2>4 DEF OnMessage_PktServerSync_remove
      <3> QED  BY <2>2, <3>1
    <2> QED  BY <2>3, <2>4
  <1>5. CASE Consume(p)
    <2>1. /\ UNCHANGED <<proc, backState>> /\ down' = [down EXCEPT ![p] = Tail(@)]
      BY <1>5 DEF Consume
    <2>2. TypeOK'
      BY <1>1, <1>4, <2>1, ReadTypes
         DEF ClusterInv, TypeOK, centervars, Listener!NetServerTypeOK
    <2> QED  BY <1>1, <1>2, <2>1, <2>2, SyncReadInv
  <1>6. CASE Dies(p, "ServerManager:56")
    <2>1. DropBackEnd(p) /\ proc' = [proc EXCEPT ![p] = "ServerManager:56"]
      BY <1>6 DEF Dies
    <2>2. TypeOK'
      BY <1>1, <1>4, <2>1 DEF ClusterInv, TypeOK, DropBackEnd, centervars,
                              Listener!NetServerTypeOK
    <2>3. /\ \A q \in Server \ {p} : proc'[q] = proc[q]
          /\ proc'[p] # "off" /\ proc'[p] # "World:36"
      BY <2>1 DEF ClusterInv, TypeOK
    <2> QED  BY <1>1, <2>1, <2>2, <2>3, DropInv
  <1> QED  BY <1>5, <1>6 DEF OnMessage_PktServerSync_add, OnMessage_PktServerSync_remove

\* Only a gate that has its PeerInfo meets wrong data.
LEMMA WrongDataInv ==
  ASSUME ClusterInv, NEW p \in Server, WrongData(p)
  PROVE  ClusterInv'
  <1> DEFINE pkt == Head(down[p])
  <1>1. /\ down[p] # << >> /\ pkt.dest # backInfo[p]
        /\ UNCHANGED <<centervars, backInfo, view, viewTypes, clients, link, up>>
    BY DEF WrongData, Receives
  <1>2. backInfo[p] # Bare(p) /\ pkt.name = "RegisterAck"
    BY <1>1, HeadCase
  <1>3. p \notin World
    <2>1. 1 \in 1 .. Len(down[p]) /\ Head(down[p]) = down[p][1]
      <3>1. down[p] \in Seq(Packet)
        BY TypeFacts DEF ClusterInv
      <3> QED  BY <1>1, <3>1, HeadTailProperties, EmptySeq, LenProperties
    <2> QED  BY <1>1, <1>2, <2>1, HeadCase
  <1>4. UNCHANGED <<proc, backState>> /\ down' = [down EXCEPT ![p] = Tail(@)]
    BY <1>3 DEF WrongData, Consume
  <1>5. TypeOK'
    BY <1>1, <1>4, ReadTypes DEF ClusterInv, TypeOK, centervars, Listener!NetServerTypeOK
  <1> QED  BY <1>1, <1>2, <1>4, <1>5, SyncReadInv

--------------------------------------------------------------------------------
(* The steps of the Center. *)

LEMMA OnConnectInv ==
  ASSUME ClusterInv, NEW p \in Server, OnConnect(p)
  PROVE  ClusterInv'
  <1>1. /\ link[p] = "backlog"
        /\ Listener!Admit(p) \/ Listener!Refuse(p)
        /\ UNCHANGED <<servervars, m_peer_type, registry, up, down>>
        /\ link' \in [Server -> {"none", "backlog", "accepted", "refused"}]
        /\ link'[p] \in {"accepted", "refused"}
        /\ \A q \in Server \ {p} : link'[q] = link[q]
    BY DEF OnConnect, ClusterInv, TypeOK
  <1>2. Table!NetServerInv'
    BY <1>1, TableStep DEF ClusterInv
  <1>3. Listener!NetServerTypeOK'
    BY <1>2, TableFacts, NoServerAssumption
       DEF Table!NetServerInv, Table!NetServerTypeOK, Listener!NetServerTypeOK,
           Table!Index, Listener!Index, Table!ConnState, Listener!ConnState
  <1>4. TypeOK'
    BY <1>1, <1>3 DEF ClusterInv, TypeOK, servervars
  <1>5. /\ m_eState[p] = "none" /\ m_eState'[p] # "none"
        /\ \A q \in Server \ {p} : /\ m_eState'[q] = m_eState[q]
                                   /\ m_channel_index'[q] = m_channel_index[q]
    BY <1>1 DEF Listener!Admit, Listener!Refuse, ClusterInv, TypeOK,
                Listener!NetServerTypeOK
  <1>6. m_peer_type[p] = "undefine"
    BY <1>5 DEF ClusterInv, LinkInv
  <1>7. RegistryHasChannels'
    <2> SUFFICES ASSUME NEW x \in registry \ {CenterInfo}
                 PROVE  /\ x.channel \in Listener!Index
                        /\ m_mapChannels'[x.channel] # NoConn
                        /\ x = Registered(m_mapChannels[x.channel])'
                        /\ m_peer_type[m_mapChannels'[x.channel]] = x.type
      BY <1>1 DEF RegistryHasChannels
    <2> DEFINE q == m_mapChannels[x.channel]
    <2>1. /\ x.channel \in Listener!Index /\ q # NoConn
          /\ x = Registered(q) /\ m_peer_type[q] = x.type
      BY DEF ClusterInv, RegistryHasChannels
    <2>2. q \in Server /\ q # p
      <3>1. q \in Server
        BY <2>1 DEF ClusterInv, TypeOK, Listener!NetServerTypeOK
      <3>2. m_eState[q] \in {"eConnected", "eDisconnected"}
        BY <2>1, TableFacts DEF ClusterInv
      <3> QED  BY <3>1, <3>2, <1>5
    <2>3. m_mapChannels'[x.channel] = q
      <3>1. CASE Listener!Refuse(p)
        BY <3>1 DEF Listener!Refuse
      <3>2. CASE Listener!Admit(p)
        <4>1. m_mapChannels[Head(m_freeindexes)] = NoConn
          <5>1. m_freeindexes \in Seq(Listener!Index) /\ m_freeindexes # << >>
            BY <3>2 DEF Listener!Admit, ClusterInv, TypeOK, Listener!NetServerTypeOK
          <5>2. /\ Head(m_freeindexes) = m_freeindexes[1] /\ 1 \in DOMAIN m_freeindexes
                /\ Head(m_freeindexes) \in Listener!Index
            BY <5>1, HeadTailProperties, EmptySeq, LenProperties
          <5> QED  BY <5>2 DEF ClusterInv, Table!NetServerInv, Table!PoolPartition,
                               Table!Index, Listener!Index
        <4> QED  BY <2>1, <3>2, <4>1
                 DEF Listener!Admit, ClusterInv, TypeOK, Listener!NetServerTypeOK
      <3> QED  BY <1>1, <3>1, <3>2
    <2> QED  BY <2>1, <2>2, <2>3, <1>5 DEF Registered
  <1>8. ASSUME NEW q \in Server
        PROVE  LinkInv(q)' /\ MailInv(q)' /\ (q \in World => OnceInv(q)')
    <2>1. CASE q # p
      BY <1>1, <1>5, <2>1, Untouched DEF ClusterInv, servervars
    <2>2. CASE q = p
      <3>1. down[p] = << >> /\ backInfo[p] = Bare(p)
        BY <1>6 DEF ClusterInv, MailInv
      <3>2. LinkInv(p)'
        BY <1>1, <1>5, <1>6 DEF ClusterInv, LinkInv, servervars
      <3>3. MailInv(p)'
        BY <1>1, <1>6, <3>1 DEF MailInv, Bare, servervars
      <3>4. p \in World => OnceInv(p)'
        BY <1>1, <3>1 DEF ClusterInv, OnceInv, Bare, servervars
      <3> QED  BY <2>2, <3>2, <3>3, <3>4
    <2> QED  BY <2>1, <2>2
  <1> QED  BY <1>2, <1>4, <1>7, <1>8, ConstFacts DEF ClusterInv

\* What a broadcast of me's arrival or departure does to the mail of q.
LEMMA BroadcastInv ==
  ASSUME ClusterInv, NEW q \in Server, NEW name \in {"SyncAdd", "SyncRemove"},
         NEW me \in PeerInfo,
         down'[q] = Broadcast(down[q], q, name, me),
         m_channel_index'[q] = m_channel_index[q], m_peer_type'[q] = m_peer_type[q],
         backInfo' = backInfo, backState' = backState, proc' = proc, up'[q] = up[q]
  PROVE  /\ MailInv(q)' /\ (q \in World => OnceInv(q)')
         /\ down'[q] \in Seq(Packet)
  <1>1. CASE down'[q] = down[q]
    <2>1. MailInv(q)'
      BY <1>1 DEF ClusterInv, MailInv, Proper, Bare, Registered
    <2>2. q \in World => OnceInv(q)'
      BY <1>1 DEF ClusterInv, OnceInv, Bare
    <2> QED  BY <1>1, <2>1, <2>2, TypeFacts DEF ClusterInv
  <1>2. CASE /\ down'[q] = Append(down[q], Pkt(name, Registered(q), {me}))
             /\ backState[q] # "none"
             /\ m_peer_type[q] # "undefine"
             /\ m_channel_index[q] \in Listener!Index
    <2>1. Pkt(name, Registered(q), {me}) \in Packet
      BY TypeFacts DEF Pkt, Packet, ClusterInv
    <2>2. down'[q] \in Seq(Packet)
      BY <1>2, <2>1, TypeFacts, AppendProperties DEF ClusterInv
    <2>3. MailInv(q)' /\ (OnceInv(q) => OnceInv(q)')
      BY <1>2, <2>1, MailGrows DEF ClusterInv
    <2> QED  BY <2>2, <2>3 DEF ClusterInv
  <1> QED  BY <1>1, <1>2, BroadcastCase DEF ClusterInv

\* The end of p's channel, reported as an end of file or as an error.
LEMMA ChannelLostInv ==
  ASSUME ClusterInv, NEW p \in Server, ChannelLost(p),
         UNCHANGED <<servervars, link, m_peer_type>>,
         link[p] = "accepted",
         up' \in {up, [up EXCEPT ![p] = 0]}
  PROVE  ClusterInv'
  <1> DEFINE me == Info(m_peer_type[p], m_channel_index[p])
  <1>1. Listener!LoseAndRemove(p) \/ Listener!LoseAndKeep(p)
    BY FrontEndEventsAssumption DEF ChannelLost
  <1>2. Table!NetServerInv'
    BY <1>1, TableStep DEF ClusterInv
  <1>3. /\ m_channel_index' = m_channel_index
        /\ m_eState[p] = "eConnected" /\ m_eState'[p] \in {"eDisconnected", "destroyed"}
        /\ \A q \in Server \ {p} : m_eState'[q] = m_eState[q]
    BY <1>1 DEF Listener!LoseAndRemove, Listener!LoseAndKeep, ClusterInv, TypeOK,
                Listener!NetServerTypeOK
  <1>4. me \in PeerInfo
    BY TypeFacts, ConstFacts DEF ClusterInv
  <1>5. ASSUME NEW q \in Server
        PROVE  \/ down'[q] = down[q]
               \/ down'[q] = Broadcast(down[q], q, "SyncRemove", me)
    BY FrontEndEventsAssumption DEF ChannelLost, OnServerRemoved
  <1>6. ASSUME NEW q \in Server
        PROVE  MailInv(q)' /\ (q \in World => OnceInv(q)') /\ down'[q] \in Seq(Packet)
    <2>1. up'[q] = up[q] \/ up'[q] = 0
      BY DEF ClusterInv, TypeOK
    <2>2. UNCHANGED <<proc, backState, backInfo, m_peer_type>>
      BY DEF servervars
    <2>3. CASE up'[q] = up[q]
      <3>1. CASE down'[q] = down[q]
        <4>1. MailInv(q)'
          BY <1>3, <2>2, <3>1 DEF ClusterInv, MailInv, Proper, Bare, Registered
        <4>2. q \in World => OnceInv(q)'
          BY <2>2, <2>3, <3>1 DEF ClusterInv, OnceInv, Bare
        <4> QED  BY <3>1, <4>1, <4>2, TypeFacts DEF ClusterInv
      <3>2. CASE down'[q] = Broadcast(down[q], q, "SyncRemove", me)
        BY <1>3, <1>4, <2>2, <2>3, <3>2, BroadcastInv
      <3> QED  BY <1>5, <3>1, <3>2
    <2>4. CASE up'[q] = 0 /\ q = p
      <3>1. down'[q] = down[q]
        BY <2>4, FrontEndEventsAssumption DEF ChannelLost, OnServerRemoved
      <3>2. MailInv(q)'
        BY <1>3, <2>2, <3>1 DEF ClusterInv, MailInv, Proper, Bare, Registered
      <3>3. q \in World => OnceInv(q)'
        BY <2>2, <2>4, <3>1 DEF ClusterInv, OnceInv, Bare
      <3> QED  BY <3>1, <3>2, <3>3, TypeFacts DEF ClusterInv
    <2>5. q # p => up'[q] = up[q]
      BY DEF ClusterInv, TypeOK
    <2> QED  BY <2>1, <2>3, <2>4, <2>5
  <1>7. ASSUME NEW q \in Server PROVE LinkInv(q)'
    <2>1. UNCHANGED <<proc, backState, backInfo, m_peer_type, link>>
      BY DEF servervars
    <2>2. up'[q] = up[q] \/ up'[q] = 0
      BY DEF ClusterInv, TypeOK
    <2> QED  BY <1>3, <2>1, <2>2 DEF ClusterInv, LinkInv
  <1>8. registry' = registry \/ registry' = registry \ {me}
    BY FrontEndEventsAssumption DEF ChannelLost, OnServerRemoved
  <1>9. TypeOK'
    <2>1. Listener!NetServerTypeOK'
      BY <1>2, TableFacts, NoServerAssumption
         DEF Table!NetServerInv, Table!NetServerTypeOK, Listener!NetServerTypeOK,
             Table!Index, Listener!Index, Table!ConnState, Listener!ConnState
    <2>2. down' \in [Server -> Seq(Packet)]
      <3>1. down' = [q \in Server |-> down'[q]]
        BY FrontEndEventsAssumption DEF ChannelLost, OnServerRemoved, ClusterInv, TypeOK
      <3> QED  BY <1>6, <3>1
    <2>3. up' \in [Server -> Nat]
      BY DEF ClusterInv, TypeOK
    <2> QED  BY <1>8, <2>1, <2>2, <2>3 DEF ClusterInv, TypeOK, servervars
  <1>10. RegistryHasChannels'
    <2> SUFFICES ASSUME NEW x \in registry' \ {CenterInfo}
                 PROVE  /\ x.channel \in Listener!Index
                        /\ m_mapChannels'[x.channel] # NoConn
                        /\ x = Registered(m_mapChannels[x.channel])'
                        /\ m_peer_type'[m_mapChannels'[x.channel]] = x.type
      BY DEF RegistryHasChannels
    <2> DEFINE q == m_mapChannels[x.channel]
    <2>1. /\ x.channel \in Listener!Index /\ q # NoConn
          /\ x = Registered(q) /\ m_peer_type[q] = x.type
      BY <1>8 DEF ClusterInv, RegistryHasChannels
    <2>2. m_mapChannels'[x.channel] = q
      <3>1. CASE Listener!LoseAndKeep(p)
        BY <3>1 DEF Listener!LoseAndKeep
      <3>2. CASE Listener!LoseAndRemove(p)
        <4>1. registry' = registry \ {me}
          <5>1. ~ Listener!LoseAndKeep(p)
            BY <3>2 DEF Listener!LoseAndKeep, Listener!LoseAndRemove, ClusterInv, TypeOK,
                        Listener!NetServerTypeOK
          <5> QED  BY <5>1, FrontEndEventsAssumption DEF ChannelLost, OnServerRemoved
        <4>2. x.channel # m_channel_index[p]
          <5> SUFFICES ASSUME x.channel = m_channel_index[p] PROVE FALSE
            OBVIOUS
          <5>1. q = p
            BY <1>3, TableFacts DEF ClusterInv
          <5>2. x = me
            BY <2>1, <5>1 DEF Registered, Info
          <5> QED  BY <4>1, <5>2
        <4> QED  BY <2>1, <3>2, <4>2
                 DEF Listener!LoseAndRemove, ClusterInv, TypeOK, Listener!NetServerTypeOK
      <3> QED  BY <1>1, <3>1, <3>2
    <2> QED  BY <1>3, <2>1, <2>2 DEF Registered
  <1> QED  BY <1>2, <1>6, <1>7, <1>9, <1>10, ConstFacts DEF ClusterInv

\* The server that registers hears nothing of it by the broadcast.
LEMMA NoEcho ==
  ASSUME ClusterInv, NEW p \in Server, NEW s \in Seq(Packet)
  PROVE  Broadcast(s, p, "SyncAdd", Registered(p)) = s
  <1>1. Registered(p).type = TypeOf(p)
    BY DEF Registered, Info
  <1>2. ASSUME NEW x \in Told(TypeOf(p), p) PROVE FALSE
    <2>1. /\ x \in registry /\ x.type \in SyncTypes /\ x.type # TypeOf(p)
          /\ Listener!GetChannel(x.channel) = p
      BY <1>2 DEF Told
    <2>2. x # CenterInfo
      BY <2>1 DEF CenterInfo, Info, SyncTypes
    <2>3. x.channel \in Listener!Index /\ m_mapChannels[x.channel] = p
      BY <2>1, <2>2 DEF ClusterInv, RegistryHasChannels, Listener!GetChannel
    <2>4. x = Registered(p)
      BY <2>1, <2>2, <2>3 DEF ClusterInv, RegistryHasChannels
    <2> QED  BY <1>1, <2>1, <2>4
  <1>3. {Pkt("SyncAdd", x, {Registered(p)}) : x \in Told(TypeOf(p), p)} = {}
    BY <1>2
  <1>4. Broadcast(s, p, "SyncAdd", Registered(p)) = s \o << >> \/
          Broadcast(s, p, "SyncAdd", Registered(p)) = s
    BY <1>1, <1>3, SetToSeqSmall DEF Broadcast
  <1> QED  BY <1>4, ConcatEmptySeq

LEMMA RegisterReqInv ==
  ASSUME ClusterInv, NEW p \in Server, OnMessage_PktRegisterReq(p)
  PROVE  ClusterInv'
  <1> DEFINE me == Registered(p)
             ack == Pkt("RegisterAck", Bare(p), {me})
             list == Pkt("SyncAdd", me, FullList(TypeOf(p)))
  <1>1. /\ m_eState[p] = "eConnected" /\ up[p] > 0
        /\ up' = [up EXCEPT ![p] = @ - 1]
        /\ m_peer_type' = [m_peer_type EXCEPT ![p] = TypeOf(p)]
        /\ registry' = registry \cup {me}
        /\ UNCHANGED <<servervars, link, m_freeindexes, m_mapChannels, m_eState,
                       m_channel_index>>
    BY DEF OnMessage_PktRegisterReq, Registered
  <1>2. UNCHANGED <<proc, backState, backInfo>>
    BY <1>1 DEF servervars
  <1>3. Table!NetServerInv'
    BY <1>1, TableSame DEF ClusterInv
  <1>4. me \in PeerInfo /\ m_channel_index[p] \in Listener!Index
    BY <1>1, TypeFacts, TableFacts DEF ClusterInv
  <1>5. ack \in Packet /\ list \in Packet
    <2>1. FullList(TypeOf(p)) \subseteq PeerInfo
      BY DEF FullList, ClusterInv, TypeOK
    <2> QED  BY <1>4, <2>1, TypeFacts DEF Pkt, Packet, ClusterInv
  <1>6. down' = [q \in Server |->
                   IF q = p THEN IF Reaches(p) THEN down[p] \o <<ack, list>> ELSE down[p]
                   ELSE Broadcast(down[q], q, "SyncAdd", me)]
    <2>1. down' = [q \in Server |->
                     Broadcast(IF q = p /\ Reaches(p) THEN down[p] \o <<ack, list>> ELSE down[q],
                               q, "SyncAdd", me)]
      BY DEF OnMessage_PktRegisterReq, Registered, Bare
    <2>2. down[p] \in Seq(Packet) /\ down[p] \o <<ack, list>> \in Seq(Packet)
      BY <1>5, TypeFacts DEF ClusterInv
    <2>3. /\ Broadcast(down[p], p, "SyncAdd", me) = down[p]
          /\ Broadcast(down[p] \o <<ack, list>>, p, "SyncAdd", me) = down[p] \o <<ack, list>>
      BY <2>2, NoEcho
    <2> QED  BY <2>1, <2>3
  <1>7. up[p] # 0 /\ up[p] \in Nat
    BY <1>1 DEF ClusterInv, TypeOK
  <1>8. LinkInv(p)' /\ MailInv(p)' /\ (p \in World => OnceInv(p)') /\ down'[p] \in Seq(Packet)
    <2> DEFINE d == down[p]
    <2>1. d \in Seq(Packet)
      BY TypeFacts DEF ClusterInv
    <2>2. LinkInv(p)'
      <3>1. link[p] # "none" /\ link[p] # "backlog"
        BY <1>1 DEF ClusterInv, LinkInv
      <3>2. proc[p] # "off"
        BY <3>1 DEF ClusterInv, LinkInv
      <3>3. m_peer_type'[p] = TypeOf(p)
        BY <1>1 DEF ClusterInv, TypeOK, Listener!NetServerTypeOK
      <3> QED  BY <1>1, <1>2, <3>1, <3>2, <3>3 DEF LinkInv
    <2>3. m_peer_type'[p] = TypeOf(p) /\ TypeOf(p) # "undefine"
      BY <1>1 DEF ClusterInv, TypeOK, TypeOf
    <2>4. p \in World => /\ m_peer_type[p] = "undefine" /\ up[p] = 1 /\ d = << >>
                         /\ backInfo[p] = Bare(p) /\ up'[p] = 0
                         /\ backState[p] # "eConnecting"
                         /\ proc[p] # "World:36"
      BY <1>1, <1>7 DEF ClusterInv, OnceInv, MailInv, TypeOK
    <2>5. CASE ~ Reaches(p)
      <3>1. down'[p] = d
        BY <1>6, <2>5
      <3>2. backState[p] = "none"
        BY <1>1, <2>5 DEF Reaches
      <3>3. MailInv(p)'
        BY <1>1, <1>2, <2>3, <3>1, <3>2 DEF ClusterInv, MailInv, Proper, Bare, Registered
      <3>4. p \in World => OnceInv(p)'
        BY <1>1, <1>2, <2>4, <3>1, <3>2 DEF ClusterInv, OnceInv, Bare
      <3> QED  BY <2>1, <2>2, <3>1, <3>3, <3>4
    <2>6. CASE Reaches(p)
      <3> DEFINE e == down'[p]
      <3>1. e = d \o <<ack, list>>
        BY <1>6, <2>6
      <3> HIDE DEF ack, list, d
      <3>3. /\ e \in Seq(Packet) /\ Len(e) = Len(d) + 2 /\ Len(d) \in Nat
            /\ \A k \in 1 .. Len(d) : e[k] = d[k]
            /\ e[Len(d) + 1] = ack /\ e[Len(d) + 2] = list
        BY <1>5, <2>1, <3>1, ConcatTwo
      <3>4. e # << >> /\ (d # << >> => Len(d) # 0) /\ (d = << >> => Len(d) = 0)
        BY <2>1, <3>3, EmptySeq, LenProperties
      <3>5. /\ ack.name = "RegisterAck" /\ ack.dest = Bare(p) /\ ack.infos = {me}
            /\ list.name = "SyncAdd" /\ list.dest = me
        BY DEF ack, list, Pkt
      <3>6. Registered(p)' = Registered(p) /\ Bare(p)' = Bare(p)
        BY <1>1 DEF Registered, Bare
      <3> HIDE DEF e
      <3>7. \A k \in 1 .. Len(e) :
              \/ k \in 1 .. Len(d) /\ e[k] = d[k]
              \/ k = Len(d) + 1 /\ e[k] = ack
              \/ k = Len(d) + 2 /\ e[k] = list
        BY <3>3
      <3>8. \A k \in 1 .. Len(e) : Proper(p, down[p][k])'
        BY <1>1, <1>4, <3>5, <3>6, <3>7 DEF ClusterInv, MailInv, Proper, d, e
      <3>9. backInfo[p] = Bare(p) => e[1].name = "RegisterAck"
        BY <3>3, <3>4, <3>5 DEF ClusterInv, MailInv, d
      <3>10. MailInv(p)'
        BY <1>1, <1>2, <2>3, <3>4, <3>6, <3>8, <3>9 DEF ClusterInv, MailInv, d, e
      <3>11. p \in World => OnceInv(p)'
        BY <1>2, <2>4, <3>4, <3>5, <3>6, <3>7 DEF OnceInv, e
      <3> QED  BY <2>2, <3>3, <3>10, <3>11 DEF e
    <2> QED  BY <2>5, <2>6
  <1>9. ASSUME NEW q \in Server, q # p
        PROVE  LinkInv(q)' /\ MailInv(q)' /\ (q \in World => OnceInv(q)')
               /\ down'[q] \in Seq(Packet)
    <2>1. /\ up'[q] = up[q] /\ m_peer_type'[q] = m_peer_type[q]
          /\ down'[q] = Broadcast(down[q], q, "SyncAdd", me)
      BY <1>1, <1>6, <1>9 DEF ClusterInv, TypeOK
    <2>2. MailInv(q)' /\ (q \in World => OnceInv(q)') /\ down'[q] \in Seq(Packet)
      BY <1>1, <1>2, <1>4, <2>1, BroadcastInv
    <2>3. LinkInv(q)'
      BY <1>1, <1>2, <2>1 DEF ClusterInv, LinkInv
    <2> QED  BY <2>2, <2>3
  <1>10. TypeOK'
    <2>1. down' \in [Server -> Seq(Packet)]
      <3>1. \A q \in Server : down'[q] \in Seq(Packet)
        BY <1>8, <1>9
      <3> QED  BY <1>6, <3>1
    <2>2. up' \in [Server -> Nat] /\ m_peer_type' \in [Server -> PeerType]
      BY <1>1, <1>7, ConstFacts DEF ClusterInv, TypeOK
    <2> QED  BY <1>1, <1>4, <2>1, <2>2
             DEF ClusterInv, TypeOK, servervars, Listener!NetServerTypeOK
  <1>11. RegistryHasChannels'
    <2> SUFFICES ASSUME NEW x \in registry' \ {CenterInfo}
                 PROVE  /\ x.channel \in Listener!Index
                        /\ m_mapChannels[x.channel] # NoConn
                        /\ x = Registered(m_mapChannels[x.channel])
                        /\ m_peer_type'[m_mapChannels[x.channel]] = x.type
      BY <1>1 DEF RegistryHasChannels, Registered
    <2>1. CASE x = me
      <3>1. x.channel = m_channel_index[p] /\ x.type = TypeOf(p)
        BY <2>1 DEF Registered, Info
      <3>2. m_mapChannels[x.channel] = p
        BY <1>1, <3>1, TableFacts DEF ClusterInv
      <3> QED  BY <1>1, <1>4, <2>1, <3>1, <3>2, NoServerAssumption DEF ClusterInv, TypeOK
    <2>2. CASE x \in registry \ {CenterInfo}
      <3>1. /\ x.channel \in Listener!Index /\ m_mapChannels[x.channel] # NoConn
            /\ x = Registered(m_mapChannels[x.channel])
            /\ m_peer_type[m_mapChannels[x.channel]] = x.type
        BY <2>2 DEF ClusterInv, RegistryHasChannels
      <3>2. x.type = TypeOf(m_mapChannels[x.channel])
        BY <3>1 DEF Registered, Info
      <3>3. m_mapChannels[x.channel] \in Server
        BY <3>1 DEF ClusterInv, TypeOK, Listener!NetServerTypeOK
      <3> QED  BY <1>1, <3>1, <3>2, <3>3 DEF ClusterInv, TypeOK
    <2> QED  BY <1>1, <2>1, <2>2
  <1> QED  BY <1>3, <1>8, <1>9, <1>10, <1>11, ConstFacts DEF ClusterInv

--------------------------------------------------------------------------------
(* The theorems. *)

LEMMA ClusterInit == Init => ClusterInv
  <1> SUFFICES ASSUME Init PROVE ClusterInv
    OBVIOUS
  <1> USE ConstFacts
  <1>1. Table!NetServerInv
    BY TableInit DEF Init
  <1>2. Listener!NetServerTypeOK
    BY <1>1, TableFacts
  <1>3. TypeOK
    BY <1>2, MaxClientsAssumption DEF Init, TypeOK, PeerType
  <1>4. RegistryHasChannels
    BY DEF Init, RegistryHasChannels
  <1>5. ASSUME NEW p \in Server
        PROVE  LinkInv(p) /\ MailInv(p) /\ OnceInv(p)
    <2>1. m_eState[p] = "none" /\ down[p] = << >>
      BY DEF Init, Listener!NetServerInit
    <2>2. LinkInv(p)
      BY <2>1 DEF Init, LinkInv
    <2>3. MailInv(p)
      BY <2>1 DEF Init, MailInv, Bare
    <2>4. OnceInv(p)
      BY <2>1 DEF Init, OnceInv
    <2> QED  BY <2>2, <2>3, <2>4
  <1> QED  BY <1>1, <1>3, <1>4, <1>5 DEF ClusterInv

LEMMA ClusterStep == ClusterInv /\ [Next]_vars => ClusterInv'
  <1> SUFFICES ASSUME ClusterInv, [Next]_vars PROVE ClusterInv'
    OBVIOUS
  <1>1. CASE UNCHANGED vars
    <2>1. UNCHANGED <<m_freeindexes, m_mapChannels, m_eState, m_channel_index,
                      m_peer_type, registry, proc, backState, backInfo, view, viewTypes,
                      clients, link, up, down>>
      BY <1>1 DEF vars, centervars, servervars, netvars
    <2>2. TypeOK'
      BY <2>1 DEF ClusterInv, TypeOK, Listener!NetServerTypeOK
    <2>3. Table!NetServerInv'
      BY <2>1, TableSame DEF ClusterInv
    <2>4. RegistryHasChannels'
      BY <2>1 DEF ClusterInv, RegistryHasChannels, Registered
    <2>5. ASSUME NEW q \in Server
          PROVE  LinkInv(q)' /\ MailInv(q)' /\ (OnceInv(q) => OnceInv(q)')
      BY <2>1, Untouched DEF ClusterInv
    <2> QED  BY <2>2, <2>3, <2>4, <2>5, ConstFacts DEF ClusterInv
  <1>2. ASSUME NEW p \in Server, CenterStep(p)
        PROVE  ClusterInv'
    <2>1. CASE OnConnect(p)
      BY <2>1, OnConnectInv
    <2>2. CASE OnMessage_PktRegisterReq(p)
      BY <2>2, RegisterReqInv
    <2>3. CASE Front_Eof(p)
      <3>1. up' = up /\ link[p] = "accepted" /\ UNCHANGED <<servervars, link, m_peer_type>>
        BY <2>3 DEF Front_Eof
      <3> QED  BY <2>3, <3>1, ChannelLostInv DEF Front_Eof
    <2>4. CASE Front_Error(p)
      <3>1. /\ up' = [up EXCEPT ![p] = 0] /\ link[p] = "accepted"
            /\ UNCHANGED <<servervars, link, m_peer_type>>
        BY <2>4 DEF Front_Error
      <3> QED  BY <2>4, <3>1, ChannelLostInv DEF Front_Error
    <2> QED  BY <1>2, <2>1, <2>2, <2>3, <2>4 DEF CenterStep
  <1>3. ASSUME NEW p \in Server, ServerStep(p)
        PROVE  ClusterInv'
    BY <1>3, StartInv, HandshakeInv, BackEnd_ConnectedInv, BackEndLostInv,
       RegisterAckInv, SyncInv, WrongDataInv DEF ServerStep, BackEnd_Read
  <1>4. ASSUME NEW g \in Gate, ClientStep(g)
        PROVE  ClusterInv'
    BY <1>4, ClientConnectedInv, BackEndLostInv DEF ClientStep, Server
  <1> QED  BY <1>1, <1>2, <1>3, <1>4 DEF Next

LEMMA ClusterInvariant == Spec => []ClusterInv
  BY ClusterInit, ClusterStep, PTL DEF Spec

\* Type correctness, for any number of servers and any size of channel table.
THEOREM ClusterTypeOK == Spec => []TypeOK
  <1>1. ClusterInv => TypeOK
    BY DEF ClusterInv
  <1> QED  BY <1>1, ClusterInvariant, PTL

\* No world server ever meets assert(0) at PacketProcessor_World.cpp:36.
THEOREM WorldSafe == Spec => []WorldOnlyHearsItsName
  <1>1. ClusterInv => WorldOnlyHearsItsName
    <2> SUFFICES ASSUME ClusterInv, NEW p \in World PROVE proc[p] # "World:36"
      BY DEF WorldOnlyHearsItsName
    <2> QED  BY DEF ClusterInv, OnceInv
  <1> QED  BY <1>1, ClusterInvariant, PTL

\* A gate skips as wrong data nothing but repeated acknowledgements, and takes
\* no packet of the Center for one of its clients.
THEOREM GateSkipsNoSync == Spec => []NoSyncSkipped
  <1>1. ClusterInv => NoSyncSkipped
    <2> SUFFICES ASSUME ClusterInv, NEW p \in Server,
                        down[p] # << >>, Head(down[p]).dest # backInfo[p]
                 PROVE  Head(down[p]).name = "RegisterAck" /\ backInfo[p].channel # 0
      BY DEF NoSyncSkipped
    <2>1. Head(down[p]).name = "RegisterAck" /\ backInfo[p] = Registered(p)
      BY HeadCase
    <2>2. m_channel_index[p] # 0 /\ Registered(p).channel = m_channel_index[p]
      BY HeadCase, ConstFacts DEF Registered, Info
    <2> QED  BY <2>1, <2>2
  <1> QED  BY <1>1, ClusterInvariant, PTL

\* The Center's registry names live channels of the right servers, so a packet
\* sent by a stored channel index reaches the server it names.
THEOREM RegistrySound == Spec => []RegistryHasChannels
  <1>1. ClusterInv => RegistryHasChannels
    BY DEF ClusterInv
  <1> QED  BY <1>1, ClusterInvariant, PTL

\* The PeerInfo an attached server goes by leads back to it, hence is its alone.
THEOREM IdentitySound == Spec => []IdentityRoutesBack
  <1>1. ClusterInv => IdentityRoutesBack
    <2> SUFFICES ASSUME ClusterInv, NEW p \in Server, Attached(p),
                        backInfo[p].channel # 0
                 PROVE  Listener!GetChannel(backInfo[p].channel) = p
      BY DEF IdentityRoutesBack
    <2>1. backInfo[p] = Registered(p)
      <3>1. backInfo[p] = Bare(p) \/ backInfo[p] = Registered(p)
        BY DEF ClusterInv, MailInv
      <3>2. Bare(p).channel = 0
        BY DEF Bare, Info
      <3> QED  BY <3>1, <3>2
    <2>2. backInfo[p].channel = m_channel_index[p]
      BY <2>1 DEF Registered, Info
    <2>3. /\ m_channel_index[p] \in Listener!Index
          /\ m_mapChannels[m_channel_index[p]] = p
      BY TableFacts DEF ClusterInv, Attached
    <2> QED  BY <2>2, <2>3 DEF Listener!GetChannel
  <1> QED  BY <1>1, ClusterInvariant, PTL

--------------------------------------------------------------------------------
(***************************************************************************)
(* For every set of servers and both wirings of the channel events: what   *)
(* an attached server knows, with the packets on their way to it applied,  *)
(* is what the Center's registry says, and no removal names a type its     *)
(* receiver never heard of.                                                *)
(*                                                                         *)
(* Known v s is what is known after v and all of s, Heard tells that every *)
(* removal in s comes after an entry of its type.  The lemmas say how both *)
(* change when s grows and when its head is read.  A removal reaches only  *)
(* servers that are attached, hence know the server that is removed, hence *)
(* have heard of its type: the second property rests on the first.         *)
(***************************************************************************)

\* Every removal in s is of a type in vt, or added before it in s.
Heard(vt, s) ==
  \A k \in 1 .. Len(s) : s[k].name = "SyncRemove" =>
    \A x \in s[k].infos :
      \/ x.type \in vt
      \/ \E j \in 1 .. (k - 1) : s[j].name = "SyncAdd" /\ \E y \in s[j].infos : y.type = x.type

KnowInv(p) ==
  /\ m_peer_type[p] = "undefine" => view[p] = {}
  /\ m_eState[p] = "eConnected" /\ m_peer_type[p] # "undefine" => Registered(p) \in registry
  /\ Attached(p) => WillKnow(p) = FullList(TypeOf(p))
  /\ \A x \in view[p] : x.type \in viewTypes[p]
  /\ Heard(viewTypes[p], down[p])
  /\ proc[p] # "ServerManager:56"

--------------------------------------------------------------------------------
(* Sequences of packets. *)

\* What a packet makes of a set of servers.
Applied(v, pkt) == CASE pkt.name = "SyncAdd"    -> v \cup pkt.infos
                     [] pkt.name = "SyncRemove" -> v \ pkt.infos
                     [] OTHER                   -> v

LEMMA AppendTwo ==
  ASSUME NEW s \in Seq(Packet), NEW a \in Packet, NEW b \in Packet
  PROVE  s \o <<a, b>> = Append(Append(s, a), b)
  <1>1. /\ Append(s, a) \in Seq(Packet) /\ Append(s, a) = s \o <<a>>
        /\ Append(Append(s, a), b) = Append(s, a) \o <<b>>
    BY AppendProperties, AppendIsConcat
  <1>2. (s \o <<a>>) \o <<b>> = s \o (<<a>> \o <<b>>)
    <2>1. <<a>> \in Seq(Packet) /\ <<b>> \in Seq(Packet)
      OBVIOUS
    <2> QED  BY <2>1, ConcatAssociative
  <1>3. <<a>> \o <<b>> = <<a, b>>
    <2>1. /\ <<a>> \in Seq(Packet) /\ <<b>> \in Seq(Packet) /\ <<a, b>> \in Seq(Packet)
          /\ Len(<<a>>) = 1 /\ Len(<<b>>) = 1 /\ Len(<<a, b>>) = 2
      OBVIOUS
    <2>2. /\ <<a>> \o <<b>> \in Seq(Packet) /\ Len(<<a>> \o <<b>>) = 2
          /\ (<<a>> \o <<b>>)[1] = <<a>>[1] /\ (<<a>> \o <<b>>)[2] = <<b>>[1]
      BY <2>1, ConcatProperties
    <2>3. \A i \in 1 .. 2 : (<<a>> \o <<b>>)[i] = <<a, b>>[i]
      BY <2>2
    <2> QED  BY <2>1, <2>2, <2>3, SeqEqual
  <1> QED  BY <1>1, <1>2, <1>3

LEMMA KnownNothing ==
  ASSUME NEW v \in SUBSET PeerInfo
  PROVE  Known(v, << >>) = v
  <1>1. Len(<< >>) = 0
    BY EmptySeq
  <1> QED  BY <1>1 DEF Known

LEMMA KnownGrows ==
  ASSUME NEW v \in SUBSET PeerInfo, NEW s \in Seq(Packet), NEW pkt \in Packet
  PROVE  Known(v, Append(s, pkt)) = Applied(Known(v, s), pkt)
  <1> DEFINE t == Append(s, pkt)
             n == Len(s)
  <1>1. /\ n \in Nat /\ Len(t) = n + 1
        /\ \A k \in 1 .. n : t[k] = s[k]
        /\ t[n + 1] = pkt
    BY AppendProperties, LenProperties
  <1>2. pkt.infos \subseteq PeerInfo
    BY DEF Packet
  <1> HIDE DEF t, n
  <1>3. ASSUME NEW x \in PeerInfo
        PROVE  x \in Known(v, t) <=> x \in Applied(Known(v, s), pkt)
    <2> DEFINE Word(r, k) == IF k = 0 THEN x \in v ELSE r[k].name = "SyncAdd" /\ x \in r[k].infos
               Gone(r, j) == r[j].name = "SyncRemove" /\ x \in r[j].infos
               Removed == pkt.name = "SyncRemove" /\ x \in pkt.infos
               Added == pkt.name = "SyncAdd" /\ x \in pkt.infos
    <2>1. /\ x \in Known(v, s) <=> \E k \in 0 .. n : Word(s, k) /\ \A j \in (k + 1) .. n : ~ Gone(s, j)
          /\ x \in Known(v, t) <=> \E k \in 0 .. (n + 1) : Word(t, k) /\ \A j \in (k + 1) .. (n + 1) : ~ Gone(t, j)
      BY <1>1 DEF Known, n
    <2>2. /\ \A k \in 0 .. n : Word(t, k) <=> Word(s, k)
          /\ \A j \in 1 .. n : Gone(t, j) <=> Gone(s, j)
          /\ Word(t, n + 1) <=> Added
          /\ Gone(t, n + 1) <=> Removed
      BY <1>1
    <2>3. x \in Applied(Known(v, s), pkt) <=> Added \/ (x \in Known(v, s) /\ ~ Removed)
      BY DEF Applied
    <2>4. ~ (Added /\ Removed)
      OBVIOUS
    <2> HIDE DEF Word, Gone, Added, Removed
    <2>5. ASSUME x \in Known(v, t) PROVE Added \/ (x \in Known(v, s) /\ ~ Removed)
      <3>1. PICK k \in 0 .. (n + 1) : Word(t, k) /\ \A j \in (k + 1) .. (n + 1) : ~ Gone(t, j)
        BY <2>1, <2>5
      <3>2. CASE k = n + 1
        BY <2>2, <3>1, <3>2
      <3>3. CASE k \in 0 .. n
        <4>1. Word(s, k) /\ \A j \in (k + 1) .. n : j \in 1 .. n /\ ~ Gone(s, j)
          BY <1>1, <2>2, <3>1, <3>3
        <4>2. ~ Removed
          BY <1>1, <2>2, <3>1, <3>3
        <4> QED  BY <2>1, <3>3, <4>1, <4>2
      <3> QED  BY <1>1, <3>2, <3>3
    <2>6. ASSUME Added PROVE x \in Known(v, t)
      <3>1. Word(t, n + 1) /\ \A j \in ((n + 1) + 1) .. (n + 1) : ~ Gone(t, j)
        BY <1>1, <2>2, <2>6
      <3> QED  BY <1>1, <2>1, <3>1
    <2>7. ASSUME x \in Known(v, s), ~ Removed PROVE x \in Known(v, t)
      <3>1. PICK k \in 0 .. n : Word(s, k) /\ \A j \in (k + 1) .. n : ~ Gone(s, j)
        BY <2>1, <2>7
      <3>2. \A j \in (k + 1) .. (n + 1) : ~ Gone(t, j)
        BY <1>1, <2>2, <2>7, <3>1
      <3>3. Word(t, k) /\ k \in 0 .. (n + 1)
        BY <1>1, <2>2, <3>1
      <3> QED  BY <2>1, <3>2, <3>3
    <2> QED  BY <2>3, <2>5, <2>6, <2>7
  <1>4. Known(v, t) \subseteq PeerInfo /\ Known(v, s) \subseteq PeerInfo
    BY DEF Known
  <1>5. Applied(Known(v, s), pkt) \subseteq PeerInfo
    BY <1>2, <1>4 DEF Applied
  <1> QED  BY <1>3, <1>4, <1>5 DEF t

\* Reading the head keeps what will be known.
LEMMA KnownRead ==
  ASSUME NEW v \in SUBSET PeerInfo, NEW s \in Seq(Packet), s # << >>
  PROVE  Known(Applied(v, Head(s)), Tail(s)) = Known(v, s)
  <1> DEFINE h == Head(s)
             t == Tail(s)
             n == Len(t)
             w == Applied(v, h)
  <1>1. /\ h = s[1] /\ h \in Packet /\ n \in Nat /\ Len(s) = n + 1
        /\ \A k \in 1 .. n : t[k] = s[k + 1]
    BY HeadTailProperties, LenProperties, EmptySeq
  <1> HIDE DEF t, n, h
  <1>2. ASSUME NEW x \in PeerInfo
        PROVE  x \in Known(w, t) <=> x \in Known(v, s)
    <2> DEFINE Word(u, r, k) == IF k = 0 THEN x \in u ELSE r[k].name = "SyncAdd" /\ x \in r[k].infos
               Gone(r, j) == r[j].name = "SyncRemove" /\ x \in r[j].infos
    <2>1. /\ x \in Known(w, t) <=> \E k \in 0 .. n : Word(w, t, k) /\ \A j \in (k + 1) .. n : ~ Gone(t, j)
          /\ x \in Known(v, s) <=> \E k \in 0 .. (n + 1) : Word(v, s, k) /\ \A j \in (k + 1) .. (n + 1) : ~ Gone(s, j)
      BY <1>1 DEF Known, n
    <2>2. /\ \A k \in 1 .. n : Word(w, t, k) <=> Word(v, s, k + 1)
          /\ \A j \in 1 .. n : Gone(t, j) <=> Gone(s, j + 1)
      BY <1>1
    <2>3. Word(w, t, 0) <=> Word(v, s, 1) \/ (Word(v, s, 0) /\ ~ Gone(s, 1))
      BY <1>1 DEF Applied
    <2> HIDE DEF Word, Gone, w
    <2>4. \A i \in 2 .. (n + 1) : i - 1 \in 1 .. n /\ (i - 1) + 1 = i
      BY <1>1
    <2>5. ASSUME x \in Known(w, t) PROVE x \in Known(v, s)
      <3>1. PICK k \in 0 .. n : Word(w, t, k) /\ \A j \in (k + 1) .. n : ~ Gone(t, j)
        BY <2>1, <2>5
      <3>2. \A j \in (k + 2) .. (n + 1) : ~ Gone(s, j)
        <4> SUFFICES ASSUME NEW j \in (k + 2) .. (n + 1) PROVE ~ Gone(s, j)
          OBVIOUS
        <4>1. j - 1 \in (k + 1) .. n /\ j - 1 \in 1 .. n /\ (j - 1) + 1 = j
          BY <1>1
        <4> QED  BY <2>2, <3>1, <4>1
      <3>3. CASE k # 0
        <4>1. k + 1 \in 0 .. (n + 1) /\ k \in 1 .. n /\ (k + 1) + 1 = k + 2
          BY <1>1, <3>3
        <4> QED  BY <2>1, <2>2, <3>1, <3>2, <4>1
      <3>4. CASE k = 0
        <4>1. CASE Word(v, s, 1)
          <5>1. 1 \in 0 .. (n + 1) /\ 1 + 1 = k + 2
            BY <1>1, <3>4
          <5> QED  BY <2>1, <3>2, <4>1, <5>1
        <4>2. CASE Word(v, s, 0) /\ ~ Gone(s, 1)
          <5>1. \A j \in (0 + 1) .. (n + 1) : j = 1 \/ j \in (k + 2) .. (n + 1)
            BY <1>1, <3>4
          <5>2. 0 \in 0 .. (n + 1)
            BY <1>1
          <5> QED  BY <2>1, <3>2, <4>2, <5>1, <5>2
        <4> QED  BY <2>3, <3>1, <3>4, <4>1, <4>2
      <3> QED  BY <3>3, <3>4
    <2>6. ASSUME x \in Known(v, s) PROVE x \in Known(w, t)
      <3>1. PICK k \in 0 .. (n + 1) : Word(v, s, k) /\ \A j \in (k + 1) .. (n + 1) : ~ Gone(s, j)
        BY <2>1, <2>6
      <3>2. \A j \in 1 .. n : j + 1 \in (k + 1) .. (n + 1) => ~ Gone(t, j)
        BY <2>2, <3>1
      <3>3. CASE k \in 2 .. (n + 1)
        <4>1. k - 1 \in 1 .. n /\ k - 1 \in 0 .. n /\ (k - 1) + 1 = k
          BY <1>1, <3>3
        <4>2. Word(w, t, k - 1)
          BY <2>2, <3>1, <4>1
        <4>3. \A j \in ((k - 1) + 1) .. n : j \in 1 .. n /\ j + 1 \in (k + 1) .. (n + 1)
          BY <1>1, <3>3
        <4> QED  BY <2>1, <3>2, <4>1, <4>2, <4>3
      <3>4. CASE k \in {0, 1}
        <4>1. Word(w, t, 0)
          <5>1. k = 0 => 1 \in (k + 1) .. (n + 1)
            BY <1>1
          <5> QED  BY <2>3, <3>1, <3>4, <5>1
        <4>2. \A j \in (0 + 1) .. n : j \in 1 .. n /\ j + 1 \in (k + 1) .. (n + 1)
          BY <1>1, <3>4
        <4>3. 0 \in 0 .. n
          BY <1>1
        <4> QED  BY <2>1, <3>2, <4>1, <4>2, <4>3
      <3> QED  BY <1>1, <3>3, <3>4
    <2> QED  BY <2>5, <2>6
  <1>3. Known(w, t) \subseteq PeerInfo /\ Known(v, s) \subseteq PeerInfo
    BY DEF Known
  <1>4. Known(w, t) = Known(v, s)
    BY <1>2, <1>3
  <1> QED  BY <1>4 DEF t, h

LEMMA HeardGrows ==
  ASSUME NEW vt, NEW s \in Seq(Packet), NEW pkt \in Packet, Heard(vt, s),
         pkt.name = "SyncRemove" =>
           \A x \in pkt.infos :
             \/ x.type \in vt
             \/ \E j \in 1 .. Len(s) : s[j].name = "SyncAdd" /\ \E y \in s[j].infos : y.type = x.type
  PROVE  Heard(vt, Append(s, pkt))
  <1> DEFINE t == Append(s, pkt)
             n == Len(s)
  <1>1. /\ n \in Nat /\ Len(t) = n + 1
        /\ \A k \in 1 .. n : t[k] = s[k]
        /\ t[n + 1] = pkt
    BY AppendProperties, LenProperties
  <1> HIDE DEF t
  <1>2. ASSUME NEW k \in 1 .. (n + 1), t[k].name = "SyncRemove", NEW x \in t[k].infos
        PROVE  \/ x.type \in vt
               \/ \E j \in 1 .. (k - 1) : t[j].name = "SyncAdd" /\ \E y \in t[j].infos : y.type = x.type
    <2>1. CASE k = n + 1
      <3>1. \/ x.type \in vt
            \/ \E j \in 1 .. n : s[j].name = "SyncAdd" /\ \E y \in s[j].infos : y.type = x.type
        BY <1>1, <1>2, <2>1
      <3>2. k - 1 = n
        BY <1>1, <2>1
      <3> QED  BY <1>1, <3>1, <3>2
    <2>2. CASE k \in 1 .. n
      <3>1. \/ x.type \in vt
            \/ \E j \in 1 .. (k - 1) : s[j].name = "SyncAdd" /\ \E y \in s[j].infos : y.type = x.type
        BY <1>1, <1>2, <2>2 DEF Heard
      <3>2. \A j \in 1 .. (k - 1) : t[j] = s[j]
        BY <1>1, <2>2
      <3> QED  BY <3>1, <3>2
    <2> QED  BY <1>1, <2>1, <2>2
  <1> QED  BY <1>1, <1>2 DEF Heard, t

LEMMA HeardRead ==
  ASSUME NEW vt, NEW s \in Seq(Packet), s # << >>, Heard(vt, s), NEW vt2,
         vt \subseteq vt2,
         Head(s).name = "SyncAdd" => \A y \in Head(s).infos : y.type \in vt2
  PROVE  Heard(vt2, Tail(s))
  <1> DEFINE t == Tail(s)
             n == Len(t)
  <1>1. /\ Head(s) = s[1] /\ n \in Nat /\ Len(s) = n + 1
        /\ \A k \in 1 .. n : t[k] = s[k + 1]
    BY HeadTailProperties, LenProperties, EmptySeq
  <1> HIDE DEF t, n
  <1>2. ASSUME NEW k \in 1 .. n, t[k].name = "SyncRemove", NEW x \in t[k].infos
        PROVE  \/ x.type \in vt2
               \/ \E j \in 1 .. (k - 1) : t[j].name = "SyncAdd" /\ \E y \in t[j].infos : y.type = x.type
    <2>1. \/ x.type \in vt
          \/ \E j \in 1 .. k : s[j].name = "SyncAdd" /\ \E y \in s[j].infos : y.type = x.type
      <3>1. k + 1 \in 1 .. Len(s) /\ s[k + 1].name = "SyncRemove" /\ x \in s[k + 1].infos
        BY <1>1, <1>2
      <3>2. \/ x.type \in vt
            \/ \E j \in 1 .. ((k + 1) - 1) : s[j].name = "SyncAdd" /\ \E y \in s[j].infos : y.type = x.type
        BY <3>1 DEF Heard
      <3>3. (k + 1) - 1 = k
        OBVIOUS
      <3> QED  BY <3>2, <3>3
    <2>2. CASE x.type \in vt
      BY <2>2
    <2>3. ASSUME NEW j \in 1 .. k, s[j].name = "SyncAdd", \E y \in s[j].infos : y.type = x.type
          PROVE  \/ x.type \in vt2
                 \/ \E i \in 1 .. (k - 1) : t[i].name = "SyncAdd" /\ \E y \in t[i].infos : y.type = x.type
      <3>1. CASE j = 1
        BY <1>1, <2>3, <3>1
      <3>2. CASE j # 1
        <4>1. j - 1 \in 1 .. (k - 1) /\ t[j - 1] = s[j]
          BY <1>1, <3>2
        <4> QED  BY <2>3, <4>1
      <3> QED  BY <3>1, <3>2
    <2> QED  BY <2>1, <2>2, <2>3
  <1> QED  BY <1>2 DEF Heard, t, n

--------------------------------------------------------------------------------
(* What the steps have in common. *)

LEMMA KnowTypes ==
  ASSUME ClusterInv, NEW p \in Server
  PROVE  /\ view[p] \in SUBSET PeerInfo /\ down[p] \in Seq(Packet)
         /\ m_peer_type[p] \in {"undefine", TypeOf(p)} /\ TypeOf(p) # "undefine"
         /\ m_peer_type[p] = "undefine" => down[p] = << >>
         /\ m_eState[p] = "none" => m_peer_type[p] = "undefine"
  BY DEF ClusterInv, TypeOK, LinkInv, MailInv, TypeOf

\* A step that tells q nothing, and attaches it no more than it was.
LEMMA KnowKept ==
  ASSUME NEW q \in Server, KnowInv(q),
         registry' = registry, m_peer_type'[q] = m_peer_type[q],
         view'[q] = view[q], viewTypes'[q] = viewTypes[q], proc'[q] # "ServerManager:56",
         \/ m_peer_type[q] = "undefine"
         \/ /\ m_channel_index'[q] = m_channel_index[q]
            /\ m_eState'[q] = "eConnected" => m_eState[q] = "eConnected"
            /\ backState'[q] # "none" => backState[q] # "none",
         down'[q] = down[q] \/ (down'[q] = << >> /\ backState'[q] = "none")
  PROVE  KnowInv(q)'
  <1>1. Heard(viewTypes'[q], << >>)
    <2>1. Len(<< >>) = 0
      BY EmptySeq
    <2> QED  BY <2>1 DEF Heard
  <1>2. Heard(viewTypes[q], down[q])'
    BY <1>1 DEF KnowInv
  <1>3. ASSUME Attached(q)' PROVE WillKnow(q)' = FullList(TypeOf(q))'
    <2>1. Attached(q) /\ down'[q] = down[q]
      BY <1>3 DEF Attached
    <2> QED  BY <2>1 DEF KnowInv, WillKnow, FullList
  <1>4. m_eState'[q] = "eConnected" /\ m_peer_type'[q] # "undefine" => Registered(q)' \in registry'
    BY DEF KnowInv, Registered
  <1> QED  BY <1>2, <1>3, <1>4 DEF KnowInv

\* The same for q, in a step of another server or of the Center with another.
LEMMA KnowUntouched ==
  ASSUME NEW q \in Server, KnowInv(q), registry' = registry,
         m_peer_type'[q] = m_peer_type[q], m_channel_index'[q] = m_channel_index[q],
         m_eState'[q] = m_eState[q], backState'[q] = backState[q], proc'[q] = proc[q],
         view'[q] = view[q], viewTypes'[q] = viewTypes[q], down'[q] = down[q]
  PROVE  KnowInv(q)'
  BY KnowKept DEF KnowInv

\* Reading a packet that p may read keeps what it will know.
LEMMA ReadKnow ==
  ASSUME ClusterInv, NEW p \in Server, KnowInv(p), down[p] # << >>,
         UNCHANGED centervars,
         backState'[p] = backState[p], proc'[p] = proc[p],
         down'[p] = Tail(down[p]),
         view'[p] = Applied(view[p], Head(down[p])),
         viewTypes'[p] = IF Head(down[p]).name = "SyncAdd"
                           THEN viewTypes[p] \cup {x.type : x \in Head(down[p]).infos}
                           ELSE viewTypes[p]
  PROVE  KnowInv(p)'
  <1> USE KnowTypes
  <1>1. WillKnow(p)' = WillKnow(p)
    BY KnownRead DEF WillKnow
  <1>2. FullList(TypeOf(p))' = FullList(TypeOf(p)) /\ (Attached(p)' <=> Attached(p))
    BY DEF FullList, Attached, centervars
  <1>3. \A x \in view'[p] : x.type \in viewTypes'[p]
    BY DEF KnowInv, Applied
  <1>4. Heard(viewTypes'[p], Tail(down[p]))
    BY HeardRead DEF KnowInv
  <1>5. m_peer_type'[p] # "undefine" /\ registry' = registry
        /\ (Registered(p)' = Registered(p)) /\ m_eState' = m_eState /\ m_peer_type' = m_peer_type
    BY DEF centervars, Registered
  <1> QED  BY <1>1, <1>2, <1>3, <1>4, <1>5 DEF KnowInv

KnowAll == \A p \in Server : KnowInv(p)

\* What is left to show of a step of p that leaves the Center alone.
LEMMA KnowFrame ==
  ASSUME KnowAll, NEW p \in Server, UNCHANGED centervars,
         \A q \in Server \ {p} :
            /\ backState'[q] = backState[q] /\ proc'[q] = proc[q] /\ down'[q] = down[q]
            /\ view'[q] = view[q] /\ viewTypes'[q] = viewTypes[q],
         KnowInv(p)'
  PROVE  KnowAll'
  <1>1. ASSUME NEW q \in Server \ {p} PROVE KnowInv(q)'
    BY KnowUntouched DEF KnowAll, centervars
  <1> QED  BY <1>1 DEF KnowAll

--------------------------------------------------------------------------------
(* The steps of the servers. *)

LEMMA ServerKnow ==
  ASSUME ClusterInv, KnowAll, NEW p \in Server,
         \/ Start(p) \/ Handshake(p) \/ BackEnd_Connected(p) \/ BackEnd_Disconnected(p)
         \/ BackEnd_ConnBreak(p) \/ Kill(p) \/ ClientStep(p)
  PROVE  KnowAll'
  <1>1. /\ UNCHANGED centervars /\ view' = view /\ viewTypes' = viewTypes
        /\ \A q \in Server \ {p} : /\ backState'[q] = backState[q] /\ proc'[q] = proc[q]
                                   /\ down'[q] = down[q]
    BY DEF Start, Handshake, BackEnd_Connected, BackEnd_Disconnected, BackEnd_ConnBreak, Kill,
           ClientStep, ClientConnected, ClientDisconnected, Dies, DropBackEnd, netvars, servervars,
           ClusterInv, TypeOK
  <1>2. proc'[p] # "ServerManager:56"
    <2>1. /\ proc[p] # "ServerManager:56" /\ proc \in [Server -> {"off", "running", "killed",
                          "World:36", "ServerManager:56", "PacketProcessor:126"}]
      BY DEF KnowAll, KnowInv, ClusterInv, TypeOK
    <2> QED  BY <2>1 DEF Start, Handshake, BackEnd_Connected, BackEnd_Disconnected, BackEnd_ConnBreak,
           Kill, ClientStep, ClientConnected, ClientDisconnected, Dies, servervars
  <1>3. down'[p] = down[p] \/ (down'[p] = << >> /\ backState'[p] = "none")
    BY DEF Start, Handshake, BackEnd_Connected, BackEnd_Disconnected, BackEnd_ConnBreak, Kill,
           ClientStep, ClientConnected, ClientDisconnected, Dies, DropBackEnd, netvars, servervars,
           ClusterInv, TypeOK
  <1>4. backState'[p] # "none" => backState[p] # "none" \/ m_peer_type[p] = "undefine"
    <2>1. CASE Start(p)
      BY <2>1 DEF Start, ClusterInv, LinkInv
    <2>2. CASE ~ Start(p)
      BY <2>2 DEF Handshake, BackEnd_Connected, BackEnd_Disconnected, BackEnd_ConnBreak, Kill,
           ClientStep, ClientConnected, ClientDisconnected, Dies, DropBackEnd, servervars,
           ClusterInv, TypeOK
    <2> QED  BY <2>1, <2>2
  <1>5. KnowInv(p)'
    BY <1>1, <1>2, <1>3, <1>4, KnowKept DEF KnowAll, centervars
  <1> QED  BY <1>1, <1>5, KnowFrame

\* p takes the first packet off its mail and does what it says.
Takes(p) ==
  /\ down[p] # << >> /\ Consume(p) /\ UNCHANGED centervars
  /\ view' = [view EXCEPT ![p] = Applied(@, Head(down[p]))]
  /\ viewTypes' = [viewTypes EXCEPT ![p] =
                     IF Head(down[p]).name = "SyncAdd"
                       THEN @ \cup {x.type : x \in Head(down[p]).infos} ELSE @]

\* Nothing to know in an acknowledgement, which is all a gate skips.
LEMMA AckTaken ==
  ASSUME ClusterInv, KnowAll, NEW p \in Server, OnMessage_PktRegisterAck(p) \/ WrongData(p)
  PROVE  Takes(p)
  <1>1. /\ down[p] # << >> /\ UNCHANGED <<centervars, view, viewTypes>>
        /\ Head(down[p]).name = "RegisterAck"
    <2>1. CASE OnMessage_PktRegisterAck(p)
      BY <2>1 DEF OnMessage_PktRegisterAck, Receives
    <2>2. CASE WrongData(p)
      <3>1. down[p] # << >> /\ Head(down[p]).dest # backInfo[p]
        BY <2>2 DEF WrongData, Receives
      <3> QED  BY <2>2, <3>1, HeadCase DEF WrongData
    <2> QED  BY <2>1, <2>2
  <1>2. Consume(p)
    <2>1. CASE WrongData(p)
      <3>1. p \notin World
        <4>1. down[p] \in Seq(Packet)
          BY KnowTypes
        <4>2. 1 \in 1 .. Len(down[p])
          BY <1>1, <4>1, EmptySeq, LenProperties
        <4>3. Head(down[p]).dest # backInfo[p]
          BY <2>1 DEF WrongData, Receives
        <4> QED  BY <1>1, <4>2, <4>3, HeadCase
      <3> QED  BY <2>1, <3>1 DEF WrongData
    <2>2. CASE OnMessage_PktRegisterAck(p)
      BY <2>2 DEF OnMessage_PktRegisterAck
    <2> QED  BY <2>1, <2>2
  <1>3. /\ view' = [view EXCEPT ![p] = Applied(@, Head(down[p]))]
        /\ viewTypes' = [viewTypes EXCEPT ![p] =
                           IF Head(down[p]).name = "SyncAdd"
                             THEN @ \cup {x.type : x \in Head(down[p]).infos} ELSE @]
    BY <1>1 DEF Applied, ClusterInv, TypeOK
  <1> QED  BY <1>1, <1>2, <1>3 DEF Takes

\* A removal that is read finds its type: it is the first packet, so that no other
\* can have brought the type.
LEMMA SyncTaken ==
  ASSUME ClusterInv, KnowAll, NEW p \in Server,
         OnMessage_PktServerSync_add(p) \/ OnMessage_PktServerSync_remove(p)
  PROVE  Takes(p)
  <1> DEFINE pkt == Head(down[p])
  <1>1. down[p] # << >> /\ UNCHANGED centervars
    BY DEF OnMessage_PktServerSync_add, OnMessage_PktServerSync_remove, Receives
  <1>2. CASE OnMessage_PktServerSync_add(p)
    <2>1. /\ pkt.name = "SyncAdd" /\ Consume(p)
          /\ view' = [view EXCEPT ![p] = @ \cup pkt.infos]
          /\ viewTypes' = [viewTypes EXCEPT ![p] = @ \cup {x.type : x \in pkt.infos}]
      BY <1>2 DEF OnMessage_PktServerSync_add
    <2>2. /\ view' = [view EXCEPT ![p] = Applied(@, pkt)]
          /\ viewTypes' = [viewTypes EXCEPT ![p] =
                             IF pkt.name = "SyncAdd"
                               THEN @ \cup {x.type : x \in pkt.infos} ELSE @]
      BY <2>1 DEF Applied
    <2> QED  BY <1>1, <2>1, <2>2 DEF Takes
  <1>3. CASE OnMessage_PktServerSync_remove(p)
    <2>1. pkt.name = "SyncRemove" /\ viewTypes' = viewTypes
      BY <1>3 DEF OnMessage_PktServerSync_remove
    <2>2. \A x \in pkt.infos : x.type \in viewTypes[p]
      <3>1. down[p] \in Seq(Packet)
        BY KnowTypes
      <3>2. 1 \in 1 .. Len(down[p]) /\ pkt = down[p][1]
        BY <1>1, <3>1, HeadTailProperties, EmptySeq, LenProperties
      <3>3. Heard(viewTypes[p], down[p])
        BY DEF KnowAll, KnowInv
      <3> QED  BY <2>1, <3>2, <3>3 DEF Heard
    <2>3. view' = [view EXCEPT ![p] = @ \ pkt.infos] /\ Consume(p)
      BY <1>3, <2>2 DEF OnMessage_PktServerSync_remove
    <2>4. /\ view' = [view EXCEPT ![p] = Applied(@, pkt)]
          /\ viewTypes' = [viewTypes EXCEPT ![p] =
                             IF pkt.name = "SyncAdd"
                               THEN @ \cup {x.type : x \in pkt.infos} ELSE @]
      BY <2>1, <2>3 DEF Applied, ClusterInv, TypeOK
    <2> QED  BY <1>1, <2>1, <2>3, <2>4 DEF Takes
  <1> QED  BY <1>2, <1>3

LEMMA ReadTakes ==
  ASSUME ClusterInv, KnowAll, NEW p \in Server, BackEnd_Read(p)
  PROVE  Takes(p)
  BY AckTaken, SyncTaken DEF BackEnd_Read

LEMMA TakesKnow ==
  ASSUME ClusterInv, KnowAll, NEW p \in Server, Takes(p)
  PROVE  KnowAll'
  <1>1. /\ down[p] # << >> /\ UNCHANGED <<centervars, proc, backState>>
        /\ down'[p] = Tail(down[p])
        /\ view'[p] = Applied(view[p], Head(down[p]))
        /\ viewTypes'[p] = IF Head(down[p]).name = "SyncAdd"
                             THEN viewTypes[p] \cup {x.type : x \in Head(down[p]).infos}
                             ELSE viewTypes[p]
        /\ \A q \in Server \ {p} : /\ down'[q] = down[q] /\ view'[q] = view[q]
                                   /\ viewTypes'[q] = viewTypes[q]
    BY DEF Takes, Consume, ClusterInv, TypeOK
  <1>2. KnowInv(p)'
    BY <1>1, ReadKnow DEF KnowAll
  <1> QED  BY <1>1, <1>2, KnowFrame

--------------------------------------------------------------------------------
(* The steps of the Center. *)

\* A broadcast reaches exactly the attached servers of the other types.
LEMMA BroadcastExact ==
  ASSUME ClusterInv, NEW q \in Server, KnowInv(q), NEW name, NEW me
  PROVE  Broadcast(down[q], q, name, me) =
           IF me.type \in SyncTypes /\ me.type # TypeOf(q) /\ Attached(q)
             THEN Append(down[q], Pkt(name, Registered(q), {me})) ELSE down[q]
  <1> USE KnowTypes
  <1>1. CASE ~ (me.type \in SyncTypes /\ Reaches(q))
    BY <1>1 DEF Broadcast, Reaches, Attached
  <1>2. CASE me.type \in SyncTypes /\ Reaches(q)
    <2>1. Registered(q).type = TypeOf(q) /\ Registered(q).channel = m_channel_index[q]
      BY DEF Registered, Info
    <2>2. ASSUME NEW x \in Told(me.type, q)
          PROVE  x = Registered(q) /\ me.type # TypeOf(q) /\ m_peer_type[q] # "undefine"
      <3>1. /\ x \in registry /\ x.type \in SyncTypes /\ x.type # me.type
            /\ Listener!GetChannel(x.channel) = q
        BY <2>2 DEF Told
      <3>2. x # CenterInfo
        BY <3>1 DEF CenterInfo, Info, SyncTypes
      <3>3. x.channel \in Listener!Index /\ m_mapChannels[x.channel] = q
        BY <3>1, <3>2, NoServerAssumption DEF Listener!GetChannel
      <3>4. x = Registered(q) /\ m_peer_type[q] = x.type
        BY <3>1, <3>2, <3>3 DEF ClusterInv, RegistryHasChannels
      <3> QED  BY <2>1, <3>1, <3>4 DEF SyncTypes
    <2>3. ASSUME me.type # TypeOf(q), m_peer_type[q] # "undefine"
          PROVE  Registered(q) \in Told(me.type, q)
      <3>1. m_eState[q] = "eConnected"
        BY <1>2 DEF Reaches
      <3>2. Listener!GetChannel(m_channel_index[q]) = q
        BY <3>1, TableFacts DEF ClusterInv, Listener!GetChannel
      <3>3. TypeOf(q) \in SyncTypes
        BY ConstFacts
      <3> QED  BY <2>1, <2>3, <3>1, <3>2, <3>3 DEF KnowInv, Told
    <2>4. CASE me.type # TypeOf(q) /\ m_peer_type[q] # "undefine"
      <3>1. Told(me.type, q) = {Registered(q)}
        BY <2>2, <2>3, <2>4
      <3>2. {Pkt(name, x, {me}) : x \in Told(me.type, q)} = {Pkt(name, Registered(q), {me})}
        BY <3>1
      <3>3. Broadcast(down[q], q, name, me) = down[q] \o <<Pkt(name, Registered(q), {me})>>
        BY <1>2, <3>2, SetToSeqSmall DEF Broadcast
      <3>4. down[q] \o <<Pkt(name, Registered(q), {me})>> =
              Append(down[q], Pkt(name, Registered(q), {me}))
        OBVIOUS
      <3>5. Attached(q)
        BY <1>2, <2>4 DEF Reaches, Attached
      <3> QED  BY <1>2, <2>4, <3>3, <3>4, <3>5
    <2>5. CASE ~ (me.type # TypeOf(q) /\ m_peer_type[q] # "undefine")
      <3>1. {Pkt(name, x, {me}) : x \in Told(me.type, q)} = {}
        BY <2>2, <2>5
      <3>2. Broadcast(down[q], q, name, me) = down[q] \o << >>
        BY <1>2, <3>1, SetToSeqSmall DEF Broadcast
      <3>3. down[q] \o << >> = down[q]
        BY ConcatEmptySeq
      <3> QED  BY <2>5, <3>2, <3>3 DEF Attached
    <2> QED  BY <2>4, <2>5
  <1> QED  BY <1>1, <1>2

\* The registry and what q will know change alike.
LEMMA BroadcastKnow ==
  ASSUME ClusterInv, NEW q \in Server, KnowInv(q), NEW me \in PeerInfo,
         me.type # "centerserver",
         NEW name \in {"SyncAdd", "SyncRemove"},
         down'[q] = Broadcast(down[q], q, name, me),
         registry' = IF name = "SyncAdd" THEN registry \cup {me} ELSE registry \ {me},
         name = "SyncRemove" => /\ me.type \in SyncTypes => me \in registry
                                /\ m_eState[q] = "eConnected" => me # Registered(q),
         m_peer_type'[q] = m_peer_type[q], m_channel_index'[q] = m_channel_index[q],
         m_eState'[q] = m_eState[q], backState'[q] = backState[q], proc'[q] = proc[q],
         view'[q] = view[q], viewTypes'[q] = viewTypes[q]
  PROVE  KnowInv(q)'
  <1> USE KnowTypes
  <1> DEFINE t == TypeOf(q)
             pkt == Pkt(name, Registered(q), {me})
  <1>1. (Attached(q)' <=> Attached(q)) /\ Registered(q)' = Registered(q)
    BY DEF Attached, Registered
  <1>2. m_eState'[q] = "eConnected" /\ m_peer_type'[q] # "undefine" => Registered(q)' \in registry'
    BY <1>1 DEF KnowInv
  <1>3. FullList(t)' = IF me.type \in SyncTypes /\ me.type # t
                         THEN IF name = "SyncAdd" THEN FullList(t) \cup {me} ELSE FullList(t) \ {me}
                         ELSE FullList(t)
    BY DEF FullList
  <1>4. CASE ~ (me.type \in SyncTypes /\ me.type # t /\ Attached(q))
    <2>1. down'[q] = down[q]
      BY <1>4, BroadcastExact
    <2>2. Attached(q) => WillKnow(q)' = FullList(t)'
      BY <1>3, <1>4, <2>1 DEF KnowInv, WillKnow
    <2> QED  BY <1>1, <1>2, <2>1, <2>2 DEF KnowInv
  <1>5. CASE me.type \in SyncTypes /\ me.type # t /\ Attached(q)
    <2>1. down'[q] = Append(down[q], pkt)
      BY <1>5, BroadcastExact
    <2>2. pkt \in Packet /\ pkt.name = name /\ pkt.infos = {me}
      BY TypeFacts DEF Pkt, Packet, ClusterInv
    <2> HIDE DEF pkt
    <2>3. WillKnow(q) = FullList(t)
      BY <1>5 DEF KnowInv
    <2>4. WillKnow(q)' = Applied(WillKnow(q), pkt)
      BY <2>1, <2>2, KnownGrows DEF WillKnow
    <2>5. WillKnow(q)' = FullList(t)'
      BY <1>3, <1>5, <2>2, <2>3, <2>4 DEF Applied
    <2>6. name = "SyncRemove" =>
            \/ me.type \in viewTypes[q]
            \/ \E j \in 1 .. Len(down[q]) : down[q][j].name = "SyncAdd"
                                            /\ \E y \in down[q][j].infos : y.type = me.type
      <3> SUFFICES ASSUME name = "SyncRemove"
                   PROVE  \/ me.type \in viewTypes[q]
                          \/ \E j \in 1 .. Len(down[q]) : down[q][j].name = "SyncAdd"
                                            /\ \E y \in down[q][j].infos : y.type = me.type
        OBVIOUS
      <3>1. me \in FullList(t)
        BY <1>5 DEF FullList
      <3>2. me \in Known(view[q], down[q])
        BY <2>3, <3>1 DEF WillKnow
      <3>3. \A x \in view[q] : x.type \in viewTypes[q]
        BY DEF KnowInv
      <3>4. PICK k \in 0 .. Len(down[q]) :
              IF k = 0 THEN me \in view[q] ELSE down[q][k].name = "SyncAdd" /\ me \in down[q][k].infos
        BY <3>2 DEF Known
      <3>5. CASE k = 0
        BY <3>3, <3>4, <3>5
      <3>6. CASE k # 0
        <4>1. k \in 1 .. Len(down[q])
          BY <3>6
        <4> QED  BY <3>4, <3>6, <4>1
      <3> QED  BY <3>5, <3>6
    <2>7. Heard(viewTypes[q], Append(down[q], pkt))
      BY <2>2, <2>6, HeardGrows DEF KnowInv
    <2> QED  BY <1>1, <1>2, <2>1, <2>5, <2>7 DEF KnowInv
  <1> QED  BY <1>4, <1>5

LEMMA OnConnectKnow ==
  ASSUME ClusterInv, KnowAll, NEW p \in Server, OnConnect(p)
  PROVE  KnowAll'
  <1>1. /\ m_eState[p] = "none"
        /\ UNCHANGED <<servervars, m_peer_type, registry, down>>
        /\ \A q \in Server \ {p} : /\ m_eState'[q] = m_eState[q]
                                   /\ m_channel_index'[q] = m_channel_index[q]
    BY DEF OnConnect, Listener!Admit, Listener!Refuse, ClusterInv, TypeOK,
           Listener!NetServerTypeOK
  <1>2. KnowInv(p)'
    BY <1>1, KnowTypes, KnowKept DEF KnowAll, KnowInv, servervars
  <1>3. ASSUME NEW q \in Server \ {p} PROVE KnowInv(q)'
    BY <1>1, KnowUntouched DEF KnowAll, servervars
  <1> QED  BY <1>2, <1>3 DEF KnowAll

LEMMA ChannelLostKnow ==
  ASSUME ClusterInv, KnowAll, NEW p \in Server, ChannelLost(p),
         UNCHANGED <<servervars, m_peer_type>>
  PROVE  KnowAll'
  <1> DEFINE me == Info(m_peer_type[p], m_channel_index[p])
  <1>1. /\ m_channel_index' = m_channel_index
        /\ m_eState[p] = "eConnected" /\ m_eState'[p] # "eConnected"
        /\ \A q \in Server \ {p} : m_eState'[q] = m_eState[q]
    BY FrontEndEventsAssumption DEF ChannelLost, Listener!LoseAndRemove, Listener!LoseAndKeep,
       ClusterInv, TypeOK, Listener!NetServerTypeOK
  <1>2. CASE FrontEndEvents = "OnNetEvent_BackEnd"
    <2>1. registry' = registry /\ down' = down
      BY <1>2 DEF ChannelLost
    <2>2. KnowInv(p)'
      BY <1>1, <2>1, KnowKept DEF KnowAll, KnowInv, servervars
    <2>3. ASSUME NEW q \in Server \ {p} PROVE KnowInv(q)'
      BY <1>1, <2>1, KnowUntouched DEF KnowAll, servervars
    <2> QED  BY <2>2, <2>3 DEF KnowAll
  <1>3. CASE FrontEndEvents = "OnNetEvent_FrontEnd"
    <2>1. /\ registry' = registry \ {me} /\ down'[p] = down[p]
          /\ \A q \in Server \ {p} : down'[q] = Broadcast(down[q], q, "SyncRemove", me)
      BY <1>3 DEF ChannelLost, OnServerRemoved
    <2>2. KnowInv(p)'
      <3>1. ~ Attached(p)'
        BY <1>1 DEF Attached
      <3> QED  BY <1>1, <2>1, <3>1 DEF KnowAll, KnowInv, servervars
    <2>3. /\ me \in PeerInfo /\ me.type = m_peer_type[p] /\ me.type # "centerserver"
          /\ me.type \in SyncTypes => me \in registry
      <3>1. me \in PeerInfo /\ me.type = m_peer_type[p]
        BY TypeFacts, ConstFacts DEF ClusterInv, Info
      <3>2. m_peer_type[p] # "undefine" => me = Registered(p)
        BY KnowTypes DEF Registered
      <3>3. "undefine" \notin SyncTypes /\ "centerserver" \notin SyncTypes
        BY DEF SyncTypes
      <3> QED  BY <1>1, <3>1, <3>2, <3>3, KnowTypes, ConstFacts DEF KnowAll, KnowInv
    <2>4. ASSUME NEW q \in Server \ {p} PROVE KnowInv(q)'
      <3>1. m_eState[q] = "eConnected" => me # Registered(q)
        <4>1. m_eState[q] = "eConnected" => m_channel_index[q] # m_channel_index[p]
          BY <1>1, TableFacts DEF ClusterInv
        <4> QED  BY <4>1 DEF Registered, Info
      <3>2. /\ m_peer_type'[q] = m_peer_type[q] /\ backState'[q] = backState[q]
            /\ proc'[q] = proc[q] /\ view'[q] = view[q] /\ viewTypes'[q] = viewTypes[q]
        BY DEF servervars
      <3> QED  BY <1>1, <2>1, <2>3, <3>1, <3>2, BroadcastKnow DEF KnowAll
    <2> QED  BY <2>2, <2>4 DEF KnowAll
  <1> QED  BY <1>2, <1>3, FrontEndEventsAssumption

\* A server that can be reached knows nothing but what it is told of.
LEMMA KnowsNoMore ==
  ASSUME ClusterInv, NEW p \in Server, KnowInv(p), Reaches(p)
  PROVE  WillKnow(p) \subseteq FullList(TypeOf(p))
  <1>1. CASE m_peer_type[p] = "undefine"
    <2>1. WillKnow(p) = {}
      BY <1>1, KnowTypes, KnownNothing DEF KnowInv, WillKnow
    <2> QED  BY <2>1
  <1>2. CASE m_peer_type[p] # "undefine"
    BY <1>2 DEF KnowInv, Attached, Reaches
  <1> QED  BY <1>1, <1>2

\* The answer to a registration: the acknowledgement, and the list of the others.
Ack(p) == Pkt("RegisterAck", Bare(p), {Registered(p)})
List(p) == Pkt("SyncAdd", Registered(p), FullList(TypeOf(p)))

LEMMA AnswerFacts ==
  ASSUME ClusterInv, NEW p \in Server
  PROVE  /\ Registered(p) \in PeerInfo /\ Registered(p).type = TypeOf(p)
         /\ TypeOf(p) \in SyncTypes /\ TypeOf(p) # "centerserver"
         /\ Ack(p) \in Packet /\ Ack(p).name = "RegisterAck"
         /\ List(p) \in Packet /\ List(p).name = "SyncAdd" /\ List(p).infos = FullList(TypeOf(p))
         /\ Append(down[p], Ack(p)) \in Seq(Packet)
  <1>1. /\ Registered(p) \in PeerInfo /\ Registered(p).type = TypeOf(p)
        /\ TypeOf(p) \in SyncTypes /\ TypeOf(p) # "centerserver"
    BY TypeFacts, ConstFacts DEF ClusterInv, Registered, Info, SyncTypes
  <1>2. FullList(TypeOf(p)) \subseteq PeerInfo
    BY DEF FullList, ClusterInv, TypeOK
  <1>3. /\ Ack(p) \in Packet /\ Ack(p).name = "RegisterAck"
        /\ List(p) \in Packet /\ List(p).name = "SyncAdd" /\ List(p).infos = FullList(TypeOf(p))
    BY <1>1, <1>2, TypeFacts DEF Ack, List, Pkt, Packet, ClusterInv
  <1>4. Append(down[p], Ack(p)) \in Seq(Packet)
    BY <1>3, KnowTypes, AppendProperties
  <1> QED  BY <1>1, <1>3, <1>4

\* What a registration does to the registry and to everybody's mail.
LEMMA RegisterMail ==
  ASSUME ClusterInv, NEW p \in Server, OnMessage_PktRegisterReq(p)
  PROVE  /\ m_eState[p] = "eConnected"
         /\ m_peer_type' = [m_peer_type EXCEPT ![p] = TypeOf(p)]
         /\ registry' = registry \cup {Registered(p)}
         /\ UNCHANGED <<proc, backState, view, viewTypes, m_eState, m_channel_index>>
         /\ down'[p] = IF Reaches(p) THEN Append(Append(down[p], Ack(p)), List(p)) ELSE down[p]
         /\ \A q \in Server \ {p} : down'[q] = Broadcast(down[q], q, "SyncAdd", Registered(p))
  <1>1. /\ m_eState[p] = "eConnected"
        /\ m_peer_type' = [m_peer_type EXCEPT ![p] = TypeOf(p)]
        /\ registry' = registry \cup {Registered(p)}
        /\ UNCHANGED <<proc, backState, view, viewTypes, m_eState, m_channel_index>>
        /\ down' = [q \in Server |->
                     Broadcast(IF q = p /\ Reaches(p) THEN down[p] \o <<Ack(p), List(p)>> ELSE down[q],
                               q, "SyncAdd", Registered(p))]
    BY DEF OnMessage_PktRegisterReq, Registered, Bare, Ack, List, servervars
  <1>2. down[p] \in Seq(Packet) /\ down[p] \o <<Ack(p), List(p)>> \in Seq(Packet)
    BY AnswerFacts, KnowTypes
  <1>3. down'[p] = IF Reaches(p) THEN down[p] \o <<Ack(p), List(p)>> ELSE down[p]
    BY <1>1, <1>2, NoEcho
  <1>4. down[p] \o <<Ack(p), List(p)>> = Append(Append(down[p], Ack(p)), List(p))
    BY AnswerFacts, KnowTypes, AppendTwo
  <1>5. \A q \in Server \ {p} : down'[q] = Broadcast(down[q], q, "SyncAdd", Registered(p))
    BY <1>1
  <1> QED  BY <1>1, <1>3, <1>4, <1>5

LEMMA RegisterReqKnow ==
  ASSUME ClusterInv, KnowAll, NEW p \in Server, OnMessage_PktRegisterReq(p)
  PROVE  KnowAll'
  <1> DEFINE me == Registered(p)
             t == TypeOf(p)
  <1>1. FullList(t)' = FullList(t)
    BY RegisterMail, AnswerFacts DEF FullList
  <1>2. m_peer_type'[p] = t
    BY RegisterMail DEF ClusterInv, TypeOK
  <1>3. KnowInv(p)'
    <2>1. Registered(p)' \in registry'
      BY RegisterMail DEF Registered
    <2>2. CASE ~ Reaches(p)
      <3>1. down'[p] = down[p] /\ ~ Attached(p)'
        BY <2>2, RegisterMail DEF Attached, Reaches
      <3> QED  BY <1>2, <2>1, <3>1, RegisterMail, AnswerFacts, KnowTypes DEF KnowAll, KnowInv
    <2>3. CASE Reaches(p)
      <3> DEFINE d == Append(Append(down[p], Ack(p)), List(p))
      <3>1. down'[p] = d
        BY <2>3, RegisterMail
      <3>2. Known(view[p], d) = WillKnow(p) \cup FullList(t)
        <4>1. Known(view[p], Append(down[p], Ack(p))) = WillKnow(p)
          <5>1. Known(view[p], Append(down[p], Ack(p))) = Applied(WillKnow(p), Ack(p))
            BY AnswerFacts, KnowTypes, KnownGrows DEF WillKnow
          <5> QED  BY <5>1, AnswerFacts DEF Applied
        <4>2. Known(view[p], d) = Applied(Known(view[p], Append(down[p], Ack(p))), List(p))
          BY AnswerFacts, KnowTypes, KnownGrows
        <4> QED  BY <4>1, <4>2, AnswerFacts DEF Applied
      <3>3. Heard(viewTypes[p], d)
        <4>1. Heard(viewTypes[p], Append(down[p], Ack(p)))
          BY AnswerFacts, KnowTypes, HeardGrows DEF KnowAll, KnowInv
        <4> QED  BY <4>1, AnswerFacts, HeardGrows
      <3> HIDE DEF d
      <3>4. WillKnow(p)' = FullList(t)'
        BY <1>1, <2>3, <3>1, <3>2, KnowsNoMore, RegisterMail DEF KnowAll, WillKnow, t
      <3>5. m_peer_type'[p] # "undefine" /\ view' = view /\ viewTypes' = viewTypes /\ proc' = proc
        BY <1>2, RegisterMail, KnowTypes
      <3> HIDE DEF t
      <3> QED  BY <2>1, <3>1, <3>3, <3>4, <3>5 DEF KnowAll, KnowInv, t
    <2> QED  BY <2>2, <2>3
  <1>4. ASSUME NEW q \in Server \ {p} PROVE KnowInv(q)'
    <2>1. /\ down'[q] = Broadcast(down[q], q, "SyncAdd", me)
          /\ m_peer_type'[q] = m_peer_type[q]
      BY RegisterMail DEF ClusterInv, TypeOK
    <2> QED  BY <2>1, RegisterMail, AnswerFacts, BroadcastKnow DEF KnowAll
  <1> QED  BY <1>3, <1>4 DEF KnowAll

--------------------------------------------------------------------------------
(* The theorems. *)

LEMMA KnowInit == Init => KnowAll
  <1> SUFFICES ASSUME Init, NEW p \in Server PROVE KnowInv(p)
    BY DEF KnowAll
  <1>1. /\ m_peer_type[p] = "undefine" /\ view[p] = {} /\ down[p] = << >>
        /\ proc[p] = "off" /\ Len(<< >>) = 0
    BY EmptySeq DEF Init
  <1> QED  BY <1>1 DEF KnowInv, Attached, Heard

LEMMA KnowStep == ClusterInv /\ KnowAll /\ [Next]_vars => KnowAll'
  <1> SUFFICES ASSUME ClusterInv, KnowAll, [Next]_vars PROVE KnowAll'
    OBVIOUS
  <1>1. CASE UNCHANGED vars
    <2>1. ASSUME NEW q \in Server PROVE KnowInv(q)'
      BY <1>1, KnowUntouched DEF KnowAll, vars, centervars, servervars, netvars
    <2> QED  BY <2>1 DEF KnowAll
  <1>2. ASSUME NEW p \in Server, CenterStep(p)
        PROVE  KnowAll'
    <2>1. CASE OnConnect(p)
      BY <2>1, OnConnectKnow
    <2>2. CASE OnMessage_PktRegisterReq(p)
      BY <2>2, RegisterReqKnow
    <2>3. CASE Front_Eof(p) \/ Front_Error(p)
      BY <2>3, ChannelLostKnow DEF Front_Eof, Front_Error
    <2> QED  BY <1>2, <2>1, <2>2, <2>3 DEF CenterStep
  <1>3. ASSUME NEW p \in Server, ServerStep(p)
        PROVE  KnowAll'
    BY <1>3, ServerKnow, ReadTakes, TakesKnow DEF ServerStep
  <1>4. ASSUME NEW g \in Gate, ClientStep(g)
        PROVE  KnowAll'
    BY <1>4, ServerKnow DEF Server
  <1> QED  BY <1>1, <1>2, <1>3, <1>4 DEF Next

LEMMA KnowInvariant == Spec => []KnowAll
  BY ClusterInit, ClusterStep, KnowInit, KnowStep, PTL DEF Spec

\* No change of the registry is lost, doubled or reordered on its way to an attached
\* server, for any number of servers, channels and reuses of a channel index.
THEOREM NoChangeIsLost == Spec => []KnowsOrWillKnow
  <1>1. KnowAll => KnowsOrWillKnow
    BY DEF KnowAll, KnowInv, KnowsOrWillKnow
  <1> QED  BY <1>1, KnowInvariant, PTL

\* The assertion at ServerManager.cpp:56 holds: every removal finds its type.
THEOREM RemovalsFindTheirType == Spec => []RemoveFindsType
  <1>1. KnowAll => RemoveFindsType
    BY DEF KnowAll, KnowInv, RemoveFindsType
  <1> QED  BY <1>1, KnowInvariant, PTL

--------------------------------------------------------------------------------
(***************************************************************************)
(* For every set of servers and both wirings: the packets implement the    *)
(* directory.  The states that p has ahead of it are what it will know     *)
(* after each packet on its way.  A packet that is sent adds one state at  *)
(* the end, and a packet that is read takes the first away (StatesGrow,    *)
(* StatesRead); that the state added is p's share of the registry is what  *)
(* KnowInv says.                                                           *)
(***************************************************************************)

LEMMA StatesEmpty ==
  ASSUME NEW v
  PROVE  States(v, << >>) = << >>
  <1>1. Len(<< >>) = 0
    BY EmptySeq
  <1>2. DOMAIN States(v, << >>) = {}
    BY <1>1 DEF States
  <1> QED  BY <1>1 DEF States

LEMMA StatesFacts ==
  ASSUME NEW v \in SUBSET PeerInfo, NEW s \in Seq(Packet)
  PROVE  /\ States(v, s) \in Seq(SUBSET PeerInfo)
         /\ Len(States(v, s)) = Len(s) /\ Len(s) \in Nat
         /\ \A k \in 1 .. Len(s) : States(v, s)[k] = Known(v, SubSeq(s, 1, k))
         /\ s # << >> => States(v, s) # << >>
  <1>1. Len(s) \in Nat /\ (s # << >> => Len(s) # 0)
    BY LenProperties, EmptySeq
  <1>2. \A k \in 1 .. Len(s) : Known(v, SubSeq(s, 1, k)) \in SUBSET PeerInfo
    BY DEF Known
  <1>3. States(v, s) \in [1 .. Len(s) -> SUBSET PeerInfo]
    BY <1>2 DEF States
  <1>4. States(v, s) \in Seq(SUBSET PeerInfo)
    BY <1>1, <1>3, SeqDef
  <1>5. Len(States(v, s)) = Len(s)
    BY <1>1, <1>3, <1>4, LenProperties
  <1>6. s # << >> => States(v, s) # << >>
    BY <1>1, <1>5, EmptySeq
  <1> QED  BY <1>1, <1>4, <1>5, <1>6 DEF States

LEMMA StatesGrow ==
  ASSUME NEW v \in SUBSET PeerInfo, NEW s \in Seq(Packet), NEW pkt \in Packet
  PROVE  States(v, Append(s, pkt)) = Append(States(v, s), Applied(Known(v, s), pkt))
  <1> DEFINE t == Append(s, pkt)
             n == Len(s)
             new == Applied(Known(v, s), pkt)
             u == Append(States(v, s), new)
  <1>1. /\ t \in Seq(Packet) /\ n \in Nat /\ Len(t) = n + 1
        /\ \A k \in 1 .. n : t[k] = s[k]
    BY AppendProperties, LenProperties
  <1>2. Known(v, t) = new
    BY KnownGrows
  <1>3. new \in SUBSET PeerInfo
    BY <1>2 DEF Known
  <1> HIDE DEF t, new
  <1>4. /\ u \in Seq(SUBSET PeerInfo) /\ Len(u) = n + 1
        /\ \A k \in 1 .. n : u[k] = Known(v, SubSeq(s, 1, k))
        /\ u[n + 1] = new
    BY <1>3, StatesFacts, AppendProperties
  <1>5. /\ States(v, t) \in Seq(SUBSET PeerInfo) /\ Len(States(v, t)) = n + 1
        /\ \A k \in 1 .. (n + 1) : States(v, t)[k] = Known(v, SubSeq(t, 1, k))
    BY <1>1, StatesFacts
  <1>6. \A k \in 1 .. n : SubSeq(t, 1, k) = SubSeq(s, 1, k)
    <2> SUFFICES ASSUME NEW k \in 1 .. n PROVE SubSeq(t, 1, k) = SubSeq(s, 1, k)
      OBVIOUS
    <2>1. /\ \A i \in 1 .. k : s[i] \in Packet /\ t[i] \in Packet
          /\ 1 \in Int /\ k \in Int /\ k \in Nat /\ k # 0
      BY <1>1, ElementOfSeq
    <2>2. /\ SubSeq(t, 1, k) \in Seq(Packet) /\ Len(SubSeq(t, 1, k)) = k
          /\ \A i \in 1 .. k : SubSeq(t, 1, k)[i] = t[i]
      BY <2>1, SubSeqProperties
    <2>3. /\ SubSeq(s, 1, k) \in Seq(Packet) /\ Len(SubSeq(s, 1, k)) = k
          /\ \A i \in 1 .. k : SubSeq(s, 1, k)[i] = s[i]
      BY <2>1, SubSeqProperties
    <2> QED  BY <1>1, <2>2, <2>3, SeqEqual
  <1>7. SubSeq(t, 1, n + 1) = t
    BY <1>1, SubSeqFull
  <1>8. \A k \in 1 .. (n + 1) : States(v, t)[k] = u[k]
    <2> SUFFICES ASSUME NEW k \in 1 .. (n + 1) PROVE States(v, t)[k] = u[k]
      OBVIOUS
    <2>1. CASE k = n + 1
      BY <1>2, <1>4, <1>5, <1>7, <2>1
    <2>2. CASE k \in 1 .. n
      BY <1>4, <1>5, <1>6, <2>2
    <2>3. n \in Nat
      BY <1>1
    <2> HIDE DEF n, u
    <2>4. k = n + 1 \/ k \in 1 .. n
      BY <2>3
    <2> QED  BY <2>1, <2>2, <2>4
  <1> QED  BY <1>4, <1>5, <1>8, SeqEqual DEF t, new

LEMMA StatesRead ==
  ASSUME NEW v \in SUBSET PeerInfo, NEW s \in Seq(Packet), s # << >>
  PROVE  /\ States(v, s) # << >>
         /\ Head(States(v, s)) = Applied(v, Head(s))
         /\ Tail(States(v, s)) = States(Applied(v, Head(s)), Tail(s))
  <1> DEFINE h == Head(s)
             t == Tail(s)
             n == Len(t)
             w == Applied(v, h)
  <1>1. /\ h = s[1] /\ h \in Packet /\ t \in Seq(Packet) /\ n \in Nat /\ Len(s) = n + 1
        /\ \A k \in 1 .. n : t[k] = s[k + 1]
    BY HeadTailProperties, LenProperties, EmptySeq
  <1>2. w \in SUBSET PeerInfo
    BY <1>1 DEF Applied, Packet
  <1> HIDE DEF h, t, n, w
  \* Everything after the first k + 1 packets is everything after k of the rest.
  <1>3. ASSUME NEW k \in 0 .. n
        PROVE  Known(v, SubSeq(s, 1, k + 1)) = Known(w, SubSeq(t, 1, k))
    <2> DEFINE r == SubSeq(s, 1, k + 1)
    <2>1. /\ \A i \in 1 .. (k + 1) : s[i] \in Packet
          /\ 1 \in Int /\ k + 1 \in Int /\ 1 <= k + 1 /\ k + 1 \in Nat
      BY <1>1, ElementOfSeq
    <2>2. /\ r \in Seq(Packet) /\ Len(r) = k + 1
          /\ \A i \in 1 .. (k + 1) : r[i] = s[i]
      BY <2>1, SubSeqProperties
    <2>3. r # << >>
      BY <2>2, EmptySeq
    <2>4. Head(r) = h /\ Tail(r) = SubSeq(s, 2, k + 1)
      BY <1>1, <2>1, HeadTailOfSubSeq
    <2>5. SubSeq(s, 2, k + 1) = SubSeq(t, 1, k)
      <3>1. \A i \in 1 .. k : t[i] \in Packet
        BY <1>1, ElementOfSeq DEF n
      <3>2. /\ SubSeq(t, 1, k) \in Seq(Packet) /\ Len(SubSeq(t, 1, k)) = k
            /\ \A i \in 1 .. k : SubSeq(t, 1, k)[i] = t[i]
        BY <1>1, <3>1, SubSeqProperties
      <3>3. /\ Tail(r) \in Seq(Packet) /\ Len(Tail(r)) = k
            /\ \A i \in 1 .. k : Tail(r)[i] = r[i + 1]
        BY <2>2, <2>3, HeadTailProperties
      <3>4. \A i \in 1 .. k : Tail(r)[i] = SubSeq(t, 1, k)[i]
        BY <1>1, <2>2, <3>2, <3>3
      <3> QED  BY <2>4, <3>2, <3>3, <3>4, SeqEqual
    <2> HIDE DEF r
    <2>6. Known(Applied(v, Head(r)), Tail(r)) = Known(v, r)
      BY <2>2, <2>3, KnownRead
    <2> QED  BY <2>4, <2>5, <2>6 DEF r, w
  <1>4. /\ States(v, s) \in Seq(SUBSET PeerInfo) /\ Len(States(v, s)) = n + 1
        /\ \A k \in 1 .. (n + 1) : States(v, s)[k] = Known(v, SubSeq(s, 1, k))
        /\ States(v, s) # << >>
    BY <1>1, StatesFacts
  <1>5. /\ States(w, t) \in Seq(SUBSET PeerInfo) /\ Len(States(w, t)) = n
        /\ \A k \in 1 .. n : States(w, t)[k] = Known(w, SubSeq(t, 1, k))
    BY <1>1, <1>2, StatesFacts DEF n
  <1>6. Head(States(v, s)) = w
    <2>1. Head(States(v, s)) = Known(v, SubSeq(s, 1, 0 + 1))
      BY <1>1, <1>4
    <2>2. Known(v, SubSeq(s, 1, 0 + 1)) = Known(w, SubSeq(t, 1, 0))
      BY <1>1, <1>3
    <2>3. SubSeq(t, 1, 0) = << >>
      BY SubSeqEmpty
    <2> QED  BY <1>2, <2>1, <2>2, <2>3, KnownNothing
  <1>7. Tail(States(v, s)) = States(w, t)
    <2>1. /\ Tail(States(v, s)) \in Seq(SUBSET PeerInfo) /\ Len(Tail(States(v, s))) = n
          /\ \A k \in 1 .. n : Tail(States(v, s))[k] = States(v, s)[k + 1]
      BY <1>1, <1>4, HeadTailProperties
    <2>2. \A k \in 1 .. n : Tail(States(v, s))[k] = States(w, t)[k]
      BY <1>1, <1>3, <1>4, <1>5, <2>1
    <2> QED  BY <1>5, <2>1, <2>2, SeqEqual
  <1> QED  BY <1>4, <1>6, <1>7 DEF h, t, w

\* The last of the states is what is known in the end.
LEMMA StatesLast ==
  ASSUME NEW v \in SUBSET PeerInfo, NEW s \in Seq(Packet)
  PROVE  (IF States(v, s) = << >> THEN v ELSE States(v, s)[Len(States(v, s))]) = Known(v, s)
  <1>1. CASE s = << >>
    BY <1>1, StatesEmpty, KnownNothing
  <1>2. CASE s # << >>
    <2>1. Len(s) \in 1 .. Len(s) /\ SubSeq(s, 1, Len(s)) = s
      BY <1>2, EmptySeq, LenProperties, SubSeqFull
    <2> QED  BY <1>2, <2>1, StatesFacts
  <1> QED  BY <1>1, <1>2

--------------------------------------------------------------------------------
(* The steps, as the directory sees them. *)

\* The variables of the directory, server by server.
LEMMA DirMap ==
  /\ \A q \in Server : /\ Names[q] = (IF Named(q) THEN Registered(q) ELSE Nameless)
                       /\ Names'[q] = (IF Named(q)' THEN Registered(q)' ELSE Nameless)
                       /\ Ahead[q] = States(view[q], down[q])
                       /\ Ahead'[q] = States(view'[q], down'[q])
                       /\ q \in Subscribers <=> Attached(q)
                       /\ q \in Subscribers' <=> Attached(q)'
  /\ Names = [q \in Server |-> Names[q]] /\ Names' = [q \in Server |-> Names'[q]]
  /\ Ahead = [q \in Server |-> Ahead[q]] /\ Ahead' = [q \in Server |-> Ahead'[q]]
  /\ Subscribers \subseteq Server /\ Subscribers' \subseteq Server
  <1>1. /\ \A q \in Server : /\ Names[q] = (IF Named(q) THEN Registered(q) ELSE Nameless)
                             /\ Names'[q] = (IF Named(q)' THEN Registered(q)' ELSE Nameless)
        /\ Names = [q \in Server |-> Names[q]] /\ Names' = [q \in Server |-> Names'[q]]
    BY DEF Names, Nameless
  <1>2. /\ \A q \in Server : /\ Ahead[q] = States(view[q], down[q])
                             /\ Ahead'[q] = States(view'[q], down'[q])
        /\ Ahead = [q \in Server |-> Ahead[q]] /\ Ahead' = [q \in Server |-> Ahead'[q]]
    BY DEF Ahead
  <1>3. /\ \A q \in Server : /\ q \in Subscribers <=> Attached(q)
                             /\ q \in Subscribers' <=> Attached(q)'
        /\ Subscribers \subseteq Server /\ Subscribers' \subseteq Server
    BY DEF Subscribers
  <1> QED  BY <1>1, <1>2, <1>3

\* What the directory tells p of is what FullList tells it of.
LEMMA ConcernFacts ==
  ASSUME ClusterInv, NEW p \in Server
  PROVE  /\ \A r : Dir!Share(p, r) = r \cap Concerns(TypeOf(p))
         /\ FullList(TypeOf(p)) = registry \cap Concerns(TypeOf(p))
         /\ \A me \in PeerInfo : me.type # "centerserver" =>
               (me \in Concerns(TypeOf(p)) <=> me.type \in SyncTypes /\ me.type # TypeOf(p))
         /\ Registered(p) \notin Concerns(TypeOf(p))
         /\ Registered(p) # Nameless
  <1>1. \A r : Dir!Share(p, r) = r \cap Concerns(TypeOf(p))
    BY DEF Dir!Share
  <1>2. registry \subseteq PeerInfo
    BY DEF ClusterInv, TypeOK
  <1>3. FullList(TypeOf(p)) = registry \cap Concerns(TypeOf(p))
    BY <1>2 DEF FullList, Concerns
  <1>4. \A me \in PeerInfo : me.type # "centerserver" =>
          (me \in Concerns(TypeOf(p)) <=> me.type \in SyncTypes /\ me.type # TypeOf(p))
    BY DEF Concerns
  <1>5. Registered(p) # Nameless
    <2>1. Registered(p).type = TypeOf(p) /\ Nameless.type = "undefine"
      BY DEF Registered, Nameless, Info
    <2>2. TypeOf(p) # "undefine"
      BY KnowTypes
    <2> QED  BY <2>1, <2>2
  <1> QED  BY <1>1, <1>3, <1>4, <1>5, AnswerFacts

LEMMA LatestKnown ==
  ASSUME ClusterInv, NEW p \in Server
  PROVE  Dir!Latest(p) = WillKnow(p)
  <1>1. Dir!Latest(p) = IF States(view[p], down[p]) = << >> THEN view[p]
                          ELSE States(view[p], down[p])[Len(States(view[p], down[p]))]
    BY DirMap DEF Dir!Latest
  <1> QED  BY <1>1, KnowTypes, StatesLast DEF WillKnow

\* A step that tells nobody anything.
LEMMA Quiet ==
  ASSUME UNCHANGED <<registry, view, down>>,
         \A q \in Server : /\ Named(q)' <=> Named(q)
                           /\ Named(q) => Registered(q)' = Registered(q)
                           /\ Attached(q)' <=> Attached(q)
  PROVE  UNCHANGED Dir!dirvars
  <1>1. \A q \in Server : /\ Names'[q] = Names[q] /\ Ahead'[q] = Ahead[q]
                          /\ q \in Subscribers' <=> q \in Subscribers
    BY DirMap
  <1>2. Names' = Names /\ Ahead' = Ahead
    BY <1>1, DirMap
  <1>3. Subscribers' = Subscribers
    BY <1>1, DirMap
  <1> QED  BY <1>2, <1>3 DEF Dir!dirvars

LEMMA QuietSteps ==
  ASSUME ClusterInv, NEW p \in Server,
         \/ OnConnect(p) \/ Start(p) \/ Handshake(p) \/ BackEnd_Connected(p)
         \/ ClientConnected(p) /\ backState[p] # "none"
  PROVE  UNCHANGED Dir!dirvars
  <1>1. CASE OnConnect(p)
    <2>1. /\ m_eState[p] = "none" /\ UNCHANGED <<m_peer_type, registry, view, down, backState>>
          /\ \A q \in Server \ {p} : /\ m_eState'[q] = m_eState[q]
                                     /\ m_channel_index'[q] = m_channel_index[q]
      BY <1>1 DEF OnConnect, Listener!Admit, Listener!Refuse, ClusterInv, TypeOK,
                  Listener!NetServerTypeOK, servervars
    <2>2. m_peer_type[p] = "undefine"
      BY <2>1, KnowTypes
    <2>3. \A q \in Server : /\ Named(q)' <=> Named(q)
                            /\ Named(q) => Registered(q)' = Registered(q)
                            /\ Attached(q)' <=> Attached(q)
      BY <2>1, <2>2 DEF Named, Registered, Attached
    <2> QED  BY <2>1, <2>3, Quiet
  <1>2. CASE ~ OnConnect(p)
    <2>1. UNCHANGED <<centervars, view, down>>
      BY <1>2 DEF Start, Handshake, BackEnd_Connected, ClientConnected, netvars, servervars
    <2>2. ASSUME NEW q \in Server PROVE Attached(q)' <=> Attached(q)
      <3>1. CASE Start(p)
        <4>1. m_peer_type[p] = "undefine"
          BY <3>1 DEF Start, ClusterInv, LinkInv
        <4>2. q # p => backState'[q] = backState[q]
          BY <3>1 DEF Start, ClusterInv, TypeOK
        <4> QED  BY <2>1, <4>1, <4>2 DEF Attached, centervars
      <3>2. CASE ~ Start(p)
        <4>1. backState'[q] # "none" <=> backState[q] # "none"
          BY <1>2, <3>2 DEF Handshake, BackEnd_Connected, ClientConnected, servervars, ClusterInv,
                            TypeOK
        <4> QED  BY <2>1, <4>1 DEF Attached, centervars
      <3> QED  BY <3>1, <3>2
    <2> QED  BY <2>1, <2>2, Quiet DEF Named, Registered, centervars
  <1> QED  BY <1>1, <1>2

\* p's end of the connection is closed, whoever closed it.
LEMMA DropHangsUp ==
  ASSUME ClusterInv, NEW p \in Server, DropBackEnd(p), UNCHANGED <<centervars, view>>
  PROVE  Dir!HangUp(p)
  <1>1. /\ down'[p] = << >> /\ backState'[p] = "none"
        /\ \A q \in Server \ {p} : down'[q] = down[q] /\ backState'[q] = backState[q]
    BY DEF DropBackEnd, ClusterInv, TypeOK
  <1>2. Names' = Names
    BY DEF Names, Named, Registered, centervars
  <1>3. Subscribers' = Subscribers \ {p}
    <2>1. \A q \in Server : Attached(q)' <=> Attached(q) /\ q # p
      BY <1>1 DEF Attached, centervars
    <2> QED  BY <2>1 DEF Subscribers
  <1>4. Ahead' = [Ahead EXCEPT ![p] = << >>]
    <2>1. \A q \in Server : Ahead'[q] = IF q = p THEN << >> ELSE Ahead[q]
      BY <1>1, DirMap, StatesEmpty
    <2> QED  BY <2>1, DirMap
  <1> QED  BY <1>2, <1>3, <1>4 DEF Dir!HangUp, centervars

LEMMA TakesReads ==
  ASSUME ClusterInv, NEW p \in Server, Takes(p)
  PROVE  Dir!Read(p)
  <1>1. /\ down[p] # << >> /\ UNCHANGED <<centervars, backState>>
        /\ down'[p] = Tail(down[p]) /\ view'[p] = Applied(view[p], Head(down[p]))
        /\ view' = [view EXCEPT ![p] = Applied(view[p], Head(down[p]))]
        /\ \A q \in Server \ {p} : down'[q] = down[q] /\ view'[q] = view[q]
    BY DEF Takes, Consume, ClusterInv, TypeOK
  <1>2. Names' = Names /\ Subscribers' = Subscribers
    BY <1>1 DEF Names, Named, Registered, Subscribers, Attached, centervars
  <1>3. /\ Ahead[p] # << >> /\ Head(Ahead[p]) = Applied(view[p], Head(down[p]))
        /\ Tail(Ahead[p]) = States(view'[p], down'[p])
    <2>1. Ahead[p] = States(view[p], down[p])
      BY DirMap
    <2>2. view[p] \in SUBSET PeerInfo /\ down[p] \in Seq(Packet)
      BY KnowTypes
    <2> QED  BY <1>1, <2>1, <2>2, StatesRead, ZenonT(60)
  <1>4. Ahead' = [Ahead EXCEPT ![p] = Tail(@)]
    <2>1. \A q \in Server : Ahead'[q] = IF q = p THEN Tail(Ahead[p]) ELSE Ahead[q]
      BY <1>1, <1>3, DirMap
    <2> QED  BY <2>1, DirMap
  <1> QED  BY <1>1, <1>2, <1>3, <1>4 DEF Dir!Read, centervars

\* A broadcast is the directory's news for q.
LEMMA BroadcastNews ==
  ASSUME ClusterInv, NEW q \in Server, KnowInv(q), NEW me \in PeerInfo,
         me.type # "centerserver", NEW name \in {"SyncAdd", "SyncRemove"},
         down'[q] = Broadcast(down[q], q, name, me), view'[q] = view[q],
         registry' = IF name = "SyncAdd" THEN registry \cup {me} ELSE registry \ {me}
  PROVE  Ahead'[q] = Dir!News(me)[q]
  <1> DEFINE pkt == Pkt(name, Registered(q), {me})
             r == registry' \cap Concerns(TypeOf(q))
  <1>1. Dir!News(me)[q] = IF Attached(q) /\ me \in Concerns(TypeOf(q))
                            THEN Append(Ahead[q], r) ELSE Ahead[q]
    BY DirMap, ConcernFacts DEF Dir!News
  <1>2. down'[q] = IF Attached(q) /\ me \in Concerns(TypeOf(q))
                     THEN Append(down[q], pkt) ELSE down[q]
    BY BroadcastExact, ConcernFacts
  <1>3. CASE Attached(q) /\ me \in Concerns(TypeOf(q))
    <2>1. pkt \in Packet /\ pkt.name = name /\ pkt.infos = {me}
      BY TypeFacts DEF Pkt, Packet, ClusterInv
    <2>2. Known(view[q], down[q]) = registry \cap Concerns(TypeOf(q))
      BY <1>3, ConcernFacts DEF KnowInv, WillKnow
    <2> HIDE DEF pkt
    <2>3. Applied(Known(view[q], down[q]), pkt) = r
      BY <1>3, <2>1, <2>2 DEF Applied
    <2>4. Ahead'[q] = Append(Ahead[q], r)
      <3>1. view[q] \in SUBSET PeerInfo /\ down[q] \in Seq(Packet)
        BY KnowTypes
      <3>2. States(view[q], Append(down[q], pkt)) = Append(States(view[q], down[q]), r)
        BY <2>1, <2>3, <3>1, StatesGrow
      <3>3. Ahead'[q] = States(view[q], Append(down[q], pkt))
        BY <1>2, <1>3, DirMap
      <3>4. Ahead[q] = States(view[q], down[q])
        BY DirMap
      <3> QED  BY <3>2, <3>3, <3>4
    <2> QED  BY <1>1, <1>3, <2>4
  <1>4. CASE ~ (Attached(q) /\ me \in Concerns(TypeOf(q)))
    BY <1>1, <1>2, <1>4, DirMap
  <1> QED  BY <1>3, <1>4

\* The Center takes note that p's connection has ended.
LEMMA ChannelLostLeaves ==
  ASSUME ClusterInv, KnowAll, NEW p \in Server, ChannelLost(p),
         UNCHANGED <<servervars, m_peer_type>>
  PROVE  Dir!Leave(p) \/ Dir!Forget(p) \/ UNCHANGED Dir!dirvars
  <1> DEFINE me == Info(m_peer_type[p], m_channel_index[p])
  <1>1. /\ UNCHANGED <<m_channel_index, m_peer_type, view, backState>>
        /\ m_eState[p] = "eConnected" /\ m_eState'[p] # "eConnected"
        /\ \A q \in Server \ {p} : m_eState'[q] = m_eState[q]
    BY FrontEndEventsAssumption DEF ChannelLost, Listener!LoseAndRemove, Listener!LoseAndKeep,
       ClusterInv, TypeOK, Listener!NetServerTypeOK, servervars
  <1>2. CASE m_peer_type[p] = "undefine"
    <2>1. registry' = registry /\ down' = down
      <3>1. CASE FrontEndEvents = "OnNetEvent_BackEnd"
        BY <3>1 DEF ChannelLost
      <3>2. CASE FrontEndEvents = "OnNetEvent_FrontEnd"
        <4>1. /\ registry' = registry \ {me}
              /\ down' = [q \in Server |-> IF q = p THEN down[q]
                                            ELSE Broadcast(down[q], q, "SyncRemove", me)]
          BY <3>2 DEF ChannelLost, OnServerRemoved
        <4>2. me.type = "undefine" /\ me.type \notin SyncTypes
          BY <1>2 DEF Info, SyncTypes
        <4>3. me \notin registry
          <5>1. me # CenterInfo
            BY <4>2 DEF CenterInfo, Info
          <5>2. \A q \in Server : Registered(q).type # "undefine"
            BY KnowTypes DEF Registered, Info
          <5>3. m_mapChannels \in [Listener!Index -> Server \cup {NoConn}]
            BY DEF ClusterInv, TypeOK, Listener!NetServerTypeOK
          <5> QED  BY <4>2, <5>1, <5>2, <5>3 DEF ClusterInv, RegistryHasChannels
        <4>4. \A q \in Server : Broadcast(down[q], q, "SyncRemove", me) = down[q]
          BY <4>2 DEF Broadcast
        <4>5. down = [q \in Server |-> down[q]]
          BY DEF ClusterInv, TypeOK
        <4> HIDE DEF me
        <4> QED  BY <4>1, <4>3, <4>4, <4>5
      <3> QED  BY <3>1, <3>2, FrontEndEventsAssumption
    <2>2. \A q \in Server : /\ Named(q)' <=> Named(q)
                            /\ Registered(q)' = Registered(q)
                            /\ Attached(q)' <=> Attached(q)
      BY <1>1, <1>2 DEF Named, Registered, Attached
    <2> QED  BY <1>1, <2>1, <2>2, Quiet
  <1>3. CASE m_peer_type[p] # "undefine"
    <2>1. Names[p] = Registered(p) /\ Registered(p) # Nameless /\ me = Registered(p)
      BY <1>1, <1>3, DirMap, ConcernFacts, KnowTypes DEF Named, Registered
    <2>2. Names' = [Names EXCEPT ![p] = Nameless]
      <3>1. \A q \in Server : Names'[q] = IF q = p THEN Nameless ELSE Names[q]
        BY <1>1, DirMap DEF Named, Registered
      <3> QED  BY <3>1, DirMap
    <2>3. Subscribers' = Subscribers \ {p}
      <3>1. \A q \in Server : Attached(q)' <=> Attached(q) /\ q # p
        BY <1>1 DEF Attached
      <3> QED  BY <3>1 DEF Subscribers
    <2>4. CASE FrontEndEvents = "OnNetEvent_BackEnd"
      <3>1. registry' = registry /\ down' = down
        BY <2>4 DEF ChannelLost
      <3>2. Ahead' = Ahead
        BY <1>1, <3>1 DEF Ahead
      <3> QED  BY <1>1, <2>1, <2>2, <2>3, <3>1, <3>2 DEF Dir!Forget
    <2>5. CASE FrontEndEvents = "OnNetEvent_FrontEnd"
      <3>1. /\ registry' = registry \ {me} /\ down'[p] = down[p]
            /\ \A q \in Server \ {p} : down'[q] = Broadcast(down[q], q, "SyncRemove", me)
        BY <2>5 DEF ChannelLost, OnServerRemoved
      <3>2. me \in PeerInfo /\ me.type # "centerserver" /\ me \notin Concerns(TypeOf(p))
        BY <2>1, AnswerFacts, ConcernFacts
      <3> HIDE DEF me
      <3>3. Ahead'[p] = Dir!News(me)[p]
        <4>1. Dir!News(me)[p] = Ahead[p]
          BY <3>2 DEF Dir!News
        <4> QED  BY <1>1, <3>1, <4>1, DirMap
      <3>4. ASSUME NEW q \in Server \ {p} PROVE Ahead'[q] = Dir!News(me)[q]
        BY <1>1, <3>1, <3>2, BroadcastNews DEF KnowAll
      <3>5. Dir!News(me) = [q \in Server |-> Dir!News(me)[q]]
        BY DEF Dir!News
      <3>6. Ahead' = Dir!News(me)
        BY <3>3, <3>4, <3>5, DirMap
      <3> QED  BY <1>1, <2>1, <2>2, <2>3, <3>1, <3>6 DEF Dir!Leave
    <2> QED  BY <2>4, <2>5, FrontEndEventsAssumption
  <1> QED  BY <1>2, <1>3

LEMMA RegisterEnters ==
  ASSUME ClusterInv, KnowAll, NEW p \in Server, OnMessage_PktRegisterReq(p)
  PROVE  Dir!Enter(p, Registered(p))
  <1> DEFINE me == Registered(p)
  <1>1. /\ m_eState[p] = "eConnected" /\ registry' = registry \cup {me}
        /\ UNCHANGED <<backState, view, m_eState, m_channel_index>>
        /\ m_peer_type'[p] = TypeOf(p) /\ TypeOf(p) # "undefine"
        /\ \A q \in Server \ {p} : m_peer_type'[q] = m_peer_type[q]
    BY RegisterMail, KnowTypes DEF ClusterInv, TypeOK
  <1>2. /\ me \in PeerInfo /\ me.type # "centerserver"
        /\ me # Nameless /\ me \notin Concerns(TypeOf(p))
    BY AnswerFacts, ConcernFacts
  <1>3. Names[p] \in {Nameless, me}
    BY DirMap
  <1>4. \A q \in Server \ {p} : Names[q] # me
    <2> SUFFICES ASSUME NEW q \in Server \ {p}, Named(q) PROVE Registered(q) # me
      BY <1>2, DirMap
    <2>1. m_channel_index[q] # m_channel_index[p]
      BY <1>1, TableFacts DEF ClusterInv, Named
    <2> QED  BY <2>1 DEF Registered, Info
  <1>5. Names' = [Names EXCEPT ![p] = me]
    <2>1. \A q \in Server : Names'[q] = IF q = p THEN me ELSE Names[q]
      BY <1>1, DirMap DEF Named, Registered
    <2> QED  BY <2>1, DirMap
  <1>6. Dir!News(me)[p] = Ahead[p] /\ Dir!News(me) = [q \in Server |-> Dir!News(me)[q]]
    BY <1>2 DEF Dir!News
  <1>7. ASSUME NEW q \in Server \ {p} PROVE Ahead'[q] = Dir!News(me)[q]
    <2> HIDE DEF me
    <2>1. down'[q] = Broadcast(down[q], q, "SyncAdd", me)
      BY RegisterMail DEF me
    <2> QED  BY <1>1, <1>2, <2>1, BroadcastNews DEF KnowAll
  <1>8. CASE ~ Reaches(p)
    <2>1. backState[p] = "none" /\ down'[p] = down[p]
      BY <1>1, <1>8, RegisterMail DEF Reaches
    <2>2. p \notin Subscribers /\ Subscribers' = Subscribers
      <3>1. \A q \in Server : Attached(q)' <=> Attached(q)
        BY <1>1, <2>1 DEF Attached
      <3>2. ~ Attached(p)
        BY <2>1 DEF Attached
      <3> QED  BY <3>1, <3>2 DEF Subscribers
    <2>3. Ahead'[p] = Ahead[p]
      BY <1>1, <2>1, DirMap
    <2> HIDE DEF me
    <2>4. Ahead' = Dir!News(me)
      BY <1>6, <1>7, <2>3, DirMap
    <2>5. Dir!Missed(p, me)
      BY <2>2, <2>4 DEF Dir!Missed
    <2> QED  BY <1>1, <1>2, <1>3, <1>4, <1>5, <2>5 DEF Dir!Enter, me
  <1>9. CASE Reaches(p)
    <2>1. Subscribers' = Subscribers \cup {p}
      <3>1. \A q \in Server : Attached(q)' <=> Attached(q) \/ q = p
        BY <1>1, <1>9 DEF Attached, Reaches
      <3> QED  BY <3>1 DEF Subscribers
    <2>2. p \in Subscribers \/ (view[p] = {} /\ Ahead[p] = << >>)
      <3> SUFFICES ASSUME p \notin Subscribers PROVE view[p] = {} /\ Ahead[p] = << >>
        OBVIOUS
      <3>1. m_peer_type[p] = "undefine"
        BY <1>9, DirMap DEF Attached, Reaches
      <3>2. view[p] = {} /\ down[p] = << >>
        BY <3>1, KnowTypes DEF KnowAll, KnowInv
      <3> QED  BY <3>2, DirMap, StatesEmpty
    <2>3. Ahead'[p] = Append(Append(Ahead[p], Dir!Latest(p)), Dir!Share(p, registry))
      <3> DEFINE d == Append(down[p], Ack(p))
      <3>1. /\ view[p] \in SUBSET PeerInfo /\ down[p] \in Seq(Packet)
            /\ d \in Seq(Packet) /\ Ack(p) \in Packet /\ List(p) \in Packet
        BY KnowTypes, AnswerFacts
      <3>2. Applied(Known(view[p], down[p]), Ack(p)) = WillKnow(p)
        BY AnswerFacts DEF Applied, WillKnow
      <3>3. Applied(Known(view[p], d), List(p)) = FullList(TypeOf(p))
        <4>1. Known(view[p], d) = WillKnow(p)
          BY <3>1, <3>2, KnownGrows
        <4>2. WillKnow(p) \subseteq FullList(TypeOf(p))
          BY <1>9, KnowsNoMore DEF KnowAll
        <4> QED  BY <4>1, <4>2, AnswerFacts DEF Applied
      <3>4. States(view[p], d) = Append(States(view[p], down[p]), WillKnow(p))
        BY <3>1, <3>2, StatesGrow
      <3> HIDE DEF d
      <3>5. States(view[p], Append(d, List(p))) = Append(States(view[p], d), FullList(TypeOf(p)))
        BY <3>1, <3>3, StatesGrow
      <3>6. Ahead'[p] = States(view[p], Append(d, List(p))) /\ Ahead[p] = States(view[p], down[p])
        BY <1>1, <1>9, RegisterMail, DirMap DEF d
      <3>7. Dir!Latest(p) = WillKnow(p) /\ Dir!Share(p, registry) = FullList(TypeOf(p))
        BY LatestKnown, ConcernFacts
      <3> QED  BY <3>4, <3>5, <3>6, <3>7
    <2> HIDE DEF me
    <2>4. Ahead' = [Dir!News(me) EXCEPT ![p] = Append(Append(Ahead[p], Dir!Latest(p)),
                                                     Dir!Share(p, registry))]
      BY <1>6, <1>7, <2>3, DirMap
    <2>5. Dir!Welcomed(p, me)
      BY <2>1, <2>2, <2>4 DEF Dir!Welcomed
    <2> QED  BY <1>1, <1>2, <1>3, <1>4, <1>5, <2>5 DEF Dir!Enter, me
  <1> QED  BY <1>8, <1>9

LEMMA DirInit == Init => Dir!DirectoryInit
  <1> SUFFICES ASSUME Init PROVE Dir!DirectoryInit
    OBVIOUS
  <1>1. \A q \in Server : /\ m_peer_type[q] = "undefine" /\ view[q] = {} /\ down[q] = << >>
    BY DEF Init
  <1>2. Names = [q \in Server |-> Nameless]
    BY <1>1 DEF Names, Named
  <1>3. Subscribers = {}
    BY <1>1 DEF Subscribers, Attached
  <1>4. Ahead = [q \in Server |-> << >>]
    BY <1>1, StatesEmpty DEF Ahead
  <1> QED  BY <1>2, <1>3, <1>4 DEF Init, Dir!DirectoryInit

LEMMA DirStep ==
  ASSUME ClusterInv, KnowAll, [Next]_vars
  PROVE  [Dir!DirectoryNext]_(Dir!dirvars)
  <1>1. CASE UNCHANGED vars
    BY <1>1, Quiet DEF vars, centervars, servervars, netvars, Named, Registered, Attached
  <1>2. ASSUME NEW p \in Server, OnMessage_PktRegisterReq(p)
        PROVE  Dir!DirectoryNext
    BY <1>2, RegisterEnters, AnswerFacts DEF Dir!DirectoryNext
  <1>3. ASSUME NEW p \in Server, Front_Eof(p) \/ Front_Error(p)
        PROVE  [Dir!DirectoryNext]_(Dir!dirvars)
    BY <1>3, ChannelLostLeaves DEF Front_Eof, Front_Error, Dir!DirectoryNext
  <1>4. ASSUME NEW p \in Server, BackEnd_Read(p)
        PROVE  Dir!DirectoryNext
    BY <1>4, ReadTakes, TakesReads DEF Dir!DirectoryNext
  <1>5. ASSUME NEW p \in Server,
               \/ BackEnd_Disconnected(p) \/ BackEnd_ConnBreak(p) \/ Kill(p)
               \/ ClientDisconnected(p)
               \/ ClientConnected(p) /\ backState[p] = "none"
        PROVE  Dir!DirectoryNext
    <2>1. DropBackEnd(p) /\ UNCHANGED <<centervars, view>>
      BY <1>5 DEF BackEnd_Disconnected, BackEnd_ConnBreak, Kill, ClientConnected,
                  ClientDisconnected, Dies
    <2> QED  BY <2>1, DropHangsUp DEF Dir!DirectoryNext
  <1>6. ASSUME NEW p \in Server,
               \/ OnConnect(p) \/ Start(p) \/ Handshake(p) \/ BackEnd_Connected(p)
               \/ ClientConnected(p) /\ backState[p] # "none"
        PROVE  UNCHANGED Dir!dirvars
    BY <1>6, QuietSteps
  <1>7. ASSUME NEW p \in Server, CenterStep(p) \/ ServerStep(p)
        PROVE  [Dir!DirectoryNext]_(Dir!dirvars)
    BY <1>2, <1>3, <1>4, <1>5, <1>6, <1>7 DEF CenterStep, ServerStep
  <1>8. ASSUME NEW g \in Gate, ClientStep(g)
        PROVE  [Dir!DirectoryNext]_(Dir!dirvars)
    BY <1>5, <1>6, <1>8 DEF ClientStep, Server
  <1> QED  BY <1>1, <1>7, <1>8 DEF Next

\* The packets of registration and synchronisation implement the directory: each server
\* sees the states of its share of the Center's registry, in their order and none left
\* out, for every set of servers, every table size and both wirings.
THEOREM DirectoryRefinement == Spec => ImplementsDirectory
  <1>1. ClusterInv /\ KnowAll /\ [Next]_vars => [Dir!DirectoryNext]_(Dir!dirvars)
    BY DirStep
  <1> QED  BY ClusterInvariant, KnowInvariant, DirInit, <1>1, PTL
           DEF Spec, ImplementsDirectory, Dir!DirectorySpec
================================================================================
