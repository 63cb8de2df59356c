------------------------------ MODULE PacketProofs ------------------------------
(***************************************************************************)
(* For every base and int size, every set of messages that the             *)
(* constructors admit and every checksum: what is handled is what was      *)
(* sent, in its order, however TCP cuts the streams.                       *)
(*                                                                         *)
(* The argument follows the bytes.  The evbuffer and the wire of a link    *)
(* are together the concatenation of the packets in flight on it, and what *)
(* is handled, followed by the contents of the packets in flight, is what  *)
(* was sent (Flow).  ReadMessage takes whole packets from the front of     *)
(* such a stream and leaves a stream of the others (ReadMessageTakes), and *)
(* the handlers read in a packet what the constructor put there            *)
(* (PacketCReads, PacketSReads).                                           *)
(*                                                                         *)
(* ReadMessage and FlattenSeq are recursive functions, and what is said of *)
(* them is said by induction: over sets of numbers (Induction), which have *)
(* a least missing member, and never over predicates.                      *)
(***************************************************************************)
EXTENDS PacketStream, SequenceTheorems, WellFoundedInduction, TLAPS

--------------------------------------------------------------------------------
(* Induction, in a form that needs no predicate as a parameter. *)

\* A set of numbers that has 0 and the successors of its members has them all.
LEMMA Induction ==
  ASSUME NEW S, 0 \in S, \A n \in Nat : n \in S => n + 1 \in S
  PROVE  Nat \subseteq S
  <1> DEFINE Missing == {n \in Nat : n \notin S}
  <1> SUFFICES ASSUME Missing # {} PROVE FALSE
    OBVIOUS
  <1>1. PICK m \in Missing : \A k \in Missing : ~ (<<k, m>> \in OpToRel(<, Nat))
    <2>1. Missing \subseteq Nat
      OBVIOUS
    <2> HIDE DEF Missing
    <2> QED  BY <2>1, NatLessThanWellFounded, WFMin
  <1>2. \A k \in Missing : ~ (k < m)
    BY <1>1 DEF OpToRel
  <1>3. m \in Nat /\ m # 0 /\ m - 1 \in Nat
    OBVIOUS
  <1>4. m - 1 \notin Missing
    BY <1>2, <1>3
  <1> QED  BY <1>3, <1>4

--------------------------------------------------------------------------------
(* Sequences of sequences. *)

\* The function by which FlattenSeq is defined.
Flattening(s, n, f) == f = [i \in 1 .. n |-> IF i = 1 THEN s[i] ELSE f[i - 1] \o s[i]]

\* Such a function, element by element.
LEMMA FlatteningEach ==
  ASSUME NEW s, NEW n \in Nat, NEW f, Flattening(s, n, f)
  PROVE  \A i \in 1 .. n : f[i] = IF i = 1 THEN s[i] ELSE f[i - 1] \o s[i]
  <1> DEFINE g == [i \in 1 .. n |-> IF i = 1 THEN s[i] ELSE f[i - 1] \o s[i]]
  <1>1. f = g
    BY DEF Flattening
  <1>2. \A i \in 1 .. n : g[i] = IF i = 1 THEN s[i] ELSE f[i - 1] \o s[i]
    OBVIOUS
  <1> HIDE DEF g
  <1> QED  BY <1>1, <1>2

\* There is such a function, hence FlattenSeq has the value that it describes.
LEMMA FlatteningExists ==
  ASSUME NEW s
  PROVE  \A n \in Nat : \E f : Flattening(s, n, f)
  <1> DEFINE S == {n \in Nat : \E f : Flattening(s, n, f)}
  <1>1. 0 \in S
    <2>1. Flattening(s, 0, [i \in 1 .. 0 |-> 0])
      BY DEF Flattening
    <2> QED  BY <2>1
  <1>2. ASSUME NEW n \in Nat, n \in S PROVE n + 1 \in S
    <2>1. PICK f : Flattening(s, n, f)
      BY <1>2
    <2> DEFINE g == [i \in 1 .. (n + 1) |-> IF i = 1 THEN s[i] ELSE f[i - 1] \o s[i]]
    <2>2. \A i \in 1 .. n : g[i] = f[i]
      <3>1. \A i \in 1 .. n : f[i] = IF i = 1 THEN s[i] ELSE f[i - 1] \o s[i]
        BY <2>1, FlatteningEach
      <3>2. \A i \in 1 .. (n + 1) : g[i] = IF i = 1 THEN s[i] ELSE f[i - 1] \o s[i]
        OBVIOUS
      <3> HIDE DEF g
      <3> QED  BY <3>1, <3>2
    <2>3. \A i \in 1 .. (n + 1) : i # 1 => i - 1 \in 1 .. n
      OBVIOUS
    <2>4. g = [i \in 1 .. (n + 1) |-> IF i = 1 THEN s[i] ELSE g[i - 1] \o s[i]]
      <3> DEFINE h == [i \in 1 .. (n + 1) |-> IF i = 1 THEN s[i] ELSE g[i - 1] \o s[i]]
      <3>1. ASSUME NEW i \in 1 .. (n + 1) PROVE g[i] = h[i]
        <4>1. g[i] = IF i = 1 THEN s[i] ELSE f[i - 1] \o s[i]
          OBVIOUS
        <4>2. h[i] = IF i = 1 THEN s[i] ELSE g[i - 1] \o s[i]
          OBVIOUS
        <4> HIDE DEF g, h
        <4> QED  BY <2>2, <2>3, <4>1, <4>2
      <3>2. g = h
        BY <3>1, Zenon
      <3> QED  BY <3>2
    <2> HIDE DEF g
    <2>5. Flattening(s, n + 1, g)
      BY <2>4 DEF Flattening
    <2>6. n + 1 \in Nat
      OBVIOUS
    <2> QED  BY <2>5, <2>6
  <1> HIDE DEF S
  <1>3. Nat \subseteq S
    BY <1>1, <1>2, Induction
  <1> QED  BY <1>3 DEF S

LEMMA FlattenIs ==
  ASSUME NEW s, Len(s) \in Nat \ {0}
  PROVE  \E f : Flattening(s, Len(s), f) /\ FlattenSeq(s) = f[Len(s)]
  <1> DEFINE f == CHOOSE g : Flattening(s, Len(s), g)
  <1>1. Flattening(s, Len(s), f)
    BY FlatteningExists
  <1>2. FlattenSeq(s) = f[Len(s)]
    BY DEF FlattenSeq, Flattening
  <1> QED  BY <1>1, <1>2

LEMMA FlattenEmpty == FlattenSeq(<< >>) = << >>
  BY EmptySeq DEF FlattenSeq

\* The concatenation of sequences over T is one.
LEMMA FlattenType ==
  ASSUME NEW T, NEW s \in Seq(Seq(T))
  PROVE  FlattenSeq(s) \in Seq(T)
  <1>1. CASE Len(s) = 0
    <2>1. s = << >>
      BY <1>1, EmptySeq
    <2> QED  BY <2>1, FlattenEmpty, EmptySeq
  <1>2. CASE Len(s) # 0
    <2>1. Len(s) \in Nat \ {0}
      BY <1>2, LenProperties
    <2>2. PICK f : Flattening(s, Len(s), f) /\ FlattenSeq(s) = f[Len(s)]
      BY <2>1, FlattenIs
    <2>3. \A i \in 1 .. Len(s) : f[i] = IF i = 1 THEN s[i] ELSE f[i - 1] \o s[i]
      BY <2>1, <2>2, FlatteningEach
    <2>4. \A i \in 1 .. Len(s) : s[i] \in Seq(T)
      BY ElementOfSeq
    <2> DEFINE S == {n \in Nat : n \in 1 .. Len(s) => f[n] \in Seq(T)}
    <2>5. 0 \in S
      OBVIOUS
    <2>6. ASSUME NEW n \in Nat, n \in S PROVE n + 1 \in S
      <3> SUFFICES ASSUME n + 1 \in 1 .. Len(s) PROVE f[n + 1] \in Seq(T)
        OBVIOUS
      <3>1. CASE n = 0
        BY <2>3, <2>4, <3>1
      <3>2. CASE n # 0
        <4>1. f[n] \in Seq(T) /\ s[n + 1] \in Seq(T)
          <5>1. n \in 1 .. Len(s)
            BY <2>1, <3>2
          <5> QED  BY <2>4, <2>6, <5>1
        <4>2. f[n + 1] = f[n] \o s[n + 1]
          <5>1. n + 1 # 1 /\ (n + 1) - 1 = n
            BY <3>2
          <5> QED  BY <2>3, <5>1
        <4> QED  BY <4>1, <4>2, ConcatProperties
      <3> QED  BY <3>1, <3>2
    <2> HIDE DEF S
    <2>7. Nat \subseteq S
      BY <2>5, <2>6, Induction
    <2> QED  BY <2>1, <2>2, <2>7 DEF S
  <1> QED  BY <1>1, <1>2

\* An appended sequence comes last in the concatenation.
LEMMA FlattenAppend ==
  ASSUME NEW T, NEW s \in Seq(Seq(T)), NEW x \in Seq(T)
  PROVE  FlattenSeq(Append(s, x)) = FlattenSeq(s) \o x
  <1> DEFINE t == Append(s, x)
             n == Len(s)
  <1>1. /\ n \in Nat /\ Len(t) = n + 1 /\ t[n + 1] = x
        /\ \A i \in 1 .. n : t[i] = s[i]
    BY AppendProperties, LenProperties
  <1> HIDE DEF t, n
  <1>2. PICK g : Flattening(t, n + 1, g) /\ FlattenSeq(t) = g[n + 1]
    BY <1>1, FlattenIs
  <1>3. \A i \in 1 .. (n + 1) : g[i] = IF i = 1 THEN t[i] ELSE g[i - 1] \o t[i]
    <2>1. n + 1 \in Nat \ {0} /\ Flattening(t, n + 1, g)
      BY <1>1, <1>2
    <2> QED  BY ONLY <2>1, FlatteningEach
  <1>4. CASE n = 0
    <2>1. s = << >>
      BY <1>4, EmptySeq DEF n
    <2>2. FlattenSeq(t) = x
      BY <1>1, <1>2, <1>3, <1>4
    <2>3. FlattenSeq(s) \o x = x
      BY <2>1, FlattenEmpty, ConcatEmptySeq
    <2> QED  BY <2>2, <2>3 DEF t
  <1>5. CASE n # 0
    <2>1. PICK f : Flattening(s, n, f) /\ FlattenSeq(s) = f[n]
      BY <1>1, <1>5, FlattenIs DEF n
    <2>2. \A i \in 1 .. n : f[i] = IF i = 1 THEN s[i] ELSE f[i - 1] \o s[i]
      BY <1>1, <2>1, FlatteningEach
    <2> DEFINE S == {k \in Nat : k \in 1 .. n => f[k] = g[k]}
    <2>3. 0 \in S
      OBVIOUS
    <2>4. ASSUME NEW k \in Nat, k \in S PROVE k + 1 \in S
      <3> SUFFICES ASSUME k + 1 \in 1 .. n PROVE f[k + 1] = g[k + 1]
        OBVIOUS
      <3>1. CASE k = 0
        BY <1>1, <1>3, <2>2, <3>1
      <3>2. CASE k # 0
        BY <1>1, <1>3, <2>2, <2>4, <3>2
      <3> QED  BY <3>1, <3>2
    <2> HIDE DEF S
    <2>5. Nat \subseteq S
      BY <2>3, <2>4, Induction
    <2>6. f[n] = g[n]
      <3>1. n \in 1 .. n
        BY <1>1, <1>5
      <3> QED  BY <1>1, <2>5, <3>1 DEF S
    <2>7. g[n + 1] = g[n] \o x
      <3>1. n + 1 \in 1 .. (n + 1) /\ n + 1 # 1 /\ (n + 1) - 1 = n
        BY <1>1, <1>5
      <3> QED  BY <1>1, <1>3, <3>1
    <2> QED  BY <1>2, <2>1, <2>6, <2>7 DEF t
  <1> QED  BY <1>4, <1>5

\* A property of sequences holds of all when it holds of the empty one and an
\* appended element keeps it: as a set, for the lemma above takes one.
LEMMA SequenceInduction ==
  ASSUME NEW T, NEW S, << >> \in S,
         \A s \in Seq(T), x \in T : s \in S => Append(s, x) \in S
  PROVE  Seq(T) \subseteq S
  <1> DEFINE N == {n \in Nat : \A s \in Seq(T) : Len(s) = n => s \in S}
  <1>1. 0 \in N
    BY EmptySeq
  <1>2. ASSUME NEW n \in Nat, n \in N PROVE n + 1 \in N
    <2> SUFFICES ASSUME NEW s \in Seq(T), Len(s) = n + 1 PROVE s \in S
      OBVIOUS
    <2>1. s # << >>
      BY EmptySeq
    <2>2. PICK r \in Seq(T), x \in T : s = Append(r, x)
      BY <2>1, SequenceEmptyOrAppend
    <2>3. Len(r) = n
      BY <2>2, AppendProperties, LenProperties
    <2> QED  BY <1>2, <2>2, <2>3
  <1> HIDE DEF N
  <1>3. Nat \subseteq N
    BY <1>1, <1>2, Induction
  <1> QED  BY <1>3, LenProperties DEF N

\* Append and concatenation associate.
LEMMA AppendConcat ==
  ASSUME NEW T, NEW s \in Seq(T), NEW r \in Seq(T), NEW x \in T
  PROVE  s \o Append(r, x) = Append(s \o r, x)
  <1>1. << x >> \in Seq(T)
    OBVIOUS
  <1>2. Append(r, x) = r \o << x >> /\ Append(s \o r, x) = (s \o r) \o << x >>
    BY AppendIsConcat, ConcatProperties
  <1> QED  BY <1>1, <1>2, ConcatAssociative

\* The concatenation of what two sequences of sequences hold.
LEMMA FlattenConcat ==
  ASSUME NEW T, NEW s \in Seq(Seq(T)), NEW t \in Seq(Seq(T))
  PROVE  FlattenSeq(s \o t) = FlattenSeq(s) \o FlattenSeq(t)
  <1> DEFINE S == {r \in Seq(Seq(T)) : FlattenSeq(s \o r) = FlattenSeq(s) \o FlattenSeq(r)}
  <1>1. << >> \in S
    BY FlattenEmpty, FlattenType, EmptySeq, ConcatEmptySeq
  <1>2. ASSUME NEW r \in Seq(Seq(T)), NEW x \in Seq(T), r \in S
        PROVE  Append(r, x) \in S
    <2>1. Append(r, x) \in Seq(Seq(T))
      BY AppendProperties
    <2>2. s \o Append(r, x) = Append(s \o r, x) /\ s \o r \in Seq(Seq(T))
      BY AppendConcat, ConcatProperties, SMTT(40)
    <2>3. FlattenSeq(s \o Append(r, x)) = FlattenSeq(s \o r) \o x
      BY <2>2, FlattenAppend
    <2>4. FlattenSeq(s) \in Seq(T) /\ FlattenSeq(r) \in Seq(T)
      BY FlattenType
    <2>5. FlattenSeq(Append(r, x)) = FlattenSeq(r) \o x
      BY FlattenAppend
    <2>6. FlattenSeq(s \o r) = FlattenSeq(s) \o FlattenSeq(r)
      BY <1>2
    <2>7. FlattenSeq(s \o Append(r, x)) = FlattenSeq(s) \o FlattenSeq(Append(r, x))
      BY <2>3, <2>4, <2>5, <2>6, ConcatAssociative, SMTT(40)
    <2> QED  BY <2>1, <2>7
  <1> HIDE DEF S
  <1>3. Seq(Seq(T)) \subseteq S
    BY <1>1, <1>2, SequenceInduction
  <1> QED  BY <1>3 DEF S

\* Of a single sequence.
LEMMA FlattenOne ==
  ASSUME NEW T, NEW x \in Seq(T)
  PROVE  FlattenSeq(<< x >>) = x
  <1>1. Append(<< >>, x) = << x >>
    OBVIOUS
  <1>2. FlattenSeq(Append(<< >>, x)) = << >> \o x
    BY FlattenAppend, FlattenEmpty, EmptySeq, ZenonT(60)
  <1> QED  BY <1>1, <1>2, ConcatEmptySeq

\* ForEach, on the empty sequence, on one element and on a concatenation.
Each(q, f) == [i \in DOMAIN q |-> f[q[i]]]

\* The values of f on A are in U.  (Not f \in [A -> U]: f may be defined on more.)
Maps(f, A, U) == \A x \in A : f[x] \in U

LEMMA EachType ==
  ASSUME NEW A, NEW U, NEW q \in Seq(A), NEW f, Maps(f, A, U)
  PROVE  /\ Each(q, f) \in Seq(U) /\ Len(Each(q, f)) = Len(q)
         /\ \A i \in 1 .. Len(q) : Each(q, f)[i] = f[q[i]]
  <1>1. DOMAIN q = 1 .. Len(q) /\ Len(q) \in Nat
    BY LenProperties
  <1>2. \A i \in 1 .. Len(q) : f[q[i]] \in U
    BY ElementOfSeq DEF Maps
  <1> QED  BY <1>1, <1>2 DEF Each

LEMMA EachConcat ==
  ASSUME NEW A, NEW q \in Seq(A), NEW r \in Seq(A), NEW f
  PROVE  Each(q \o r, f) = Each(q, f) \o Each(r, f)
  <1> DEFINE U == {f[x] : x \in A}
             s == q \o r
             a == Each(q, f)
             b == Each(r, f)
             c == Each(s, f)
  <1>1. /\ s \in Seq(A) /\ Len(s) = Len(q) + Len(r) /\ Len(q) \in Nat /\ Len(r) \in Nat
        /\ \A i \in 1 .. (Len(q) + Len(r)) : s[i] = IF i <= Len(q) THEN q[i] ELSE r[i - Len(q)]
    BY ConcatProperties, LenProperties
  <1>2. ASSUME NEW z \in Seq(A)
        PROVE  /\ Each(z, f) \in Seq(U) /\ Len(Each(z, f)) = Len(z)
               /\ \A i \in 1 .. Len(z) : Each(z, f)[i] = f[z[i]]
    <2>1. Maps(f, A, U)
      BY DEF Maps
    <2> HIDE DEF U
    <2> QED  BY <2>1, EachType
  <1> HIDE DEF s, U
  <1>3. /\ a \in Seq(U) /\ Len(a) = Len(q) /\ \A i \in 1 .. Len(q) : a[i] = f[q[i]]
        /\ b \in Seq(U) /\ Len(b) = Len(r) /\ \A i \in 1 .. Len(r) : b[i] = f[r[i]]
        /\ c \in Seq(U) /\ Len(c) = Len(s) /\ \A i \in 1 .. Len(s) : c[i] = f[s[i]]
    BY <1>1, <1>2
  <1> HIDE DEF a, b, c
  <1>4. a \in Seq(U) /\ b \in Seq(U)
    BY <1>3
  <1>5. /\ a \o b \in Seq(U) /\ Len(a \o b) = Len(a) + Len(b)
        /\ \A i \in 1 .. (Len(a) + Len(b)) :
             (a \o b)[i] = IF i <= Len(a) THEN a[i] ELSE b[i - Len(a)]
    BY <1>4, ConcatProperties
  <1>6. ASSUME NEW i \in 1 .. (Len(q) + Len(r)) PROVE c[i] = (a \o b)[i]
    <2> DEFINE j == i - Len(q)
    <2>1. CASE i \in 1 .. Len(q)
      <3>1. c[i] = f[q[i]]
        BY <1>1, <1>3, <2>1
      <3>2. (a \o b)[i] = f[q[i]]
        BY <1>1, <1>3, <1>5, <2>1
      <3> QED  BY <3>1, <3>2
    <2>2. CASE ~ (i <= Len(q))
      <3>1. j \in 1 .. Len(r)
        BY <1>1, <2>2
      <3>2. s[i] = r[j] /\ (a \o b)[i] = b[j]
        BY <1>1, <1>3, <1>5, <2>2
      <3> HIDE DEF j
      <3> QED  BY <1>1, <1>3, <3>1, <3>2, ZenonT(60)
    <2>3. i <= Len(q) => i \in 1 .. Len(q)
      BY <1>1
    <2> HIDE DEF j
    <2> QED  BY <2>1, <2>2, <2>3
  <1>7. c = a \o b
    <2> DEFINE d == a \o b
    <2>1. d \in Seq(U) /\ Len(c) = Len(d) /\ \A i \in 1 .. Len(c) : c[i] = d[i]
      BY <1>1, <1>3, <1>5, <1>6
    <2> HIDE DEF d
    <2>2. c = d
      BY <1>3, <2>1, SeqEqual
    <2> QED  BY <2>2 DEF d
  <1> QED  BY <1>7 DEF a, b, c, s

LEMMA ForEachType ==
  ASSUME NEW A, NEW T, NEW q \in Seq(A), NEW f, Maps(f, A, Seq(T))
  PROVE  ForEach(q, f) \in Seq(T)
  <1>1. Each(q, f) \in Seq(Seq(T))
    BY EachType
  <1> QED  BY <1>1, FlattenType DEF ForEach, Each

LEMMA ForEachEmpty ==
  ASSUME NEW f
  PROVE  ForEach(<< >>, f) = << >>
  <1>1. [i \in DOMAIN << >> |-> f[<< >>[i]]] = << >>
    OBVIOUS
  <1> QED  BY <1>1, FlattenEmpty DEF ForEach

\* The sequence of one element, by a name that the lemmas below can be matched with.
One(x) == << x >>

LEMMA OneIs ==
  ASSUME NEW A, NEW x \in A
  PROVE  One(x) \in Seq(A)
  BY DEF One

LEMMA ForEachOne ==
  ASSUME NEW A, NEW T, NEW x \in A, NEW f, Maps(f, A, Seq(T))
  PROVE  ForEach(One(x), f) = f[x]
  <1>1. [i \in DOMAIN << x >> |-> f[<< x >>[i]]] = << f[x] >>
    OBVIOUS
  <1>2. f[x] \in Seq(T)
    BY DEF Maps
  <1> QED  BY <1>1, <1>2, FlattenOne DEF ForEach, One

\* What ForEach makes of a concatenation.
LEMMA ForEachConcat ==
  ASSUME NEW A, NEW T, NEW q \in Seq(A), NEW r \in Seq(A), NEW f, Maps(f, A, Seq(T))
  PROVE  ForEach(q \o r, f) = ForEach(q, f) \o ForEach(r, f)
  <1> DEFINE U == Seq(T)
  <1>1. Each(q \o r, f) = Each(q, f) \o Each(r, f)
    BY EachConcat
  <1>2. Each(q, f) \in Seq(U) /\ Each(r, f) \in Seq(U)
    <2>1. Maps(f, A, U)
      BY DEF Maps
    <2> HIDE DEF U
    <2> QED  BY <2>1, EachType
  <1>3. FlattenSeq(Each(q, f) \o Each(r, f)) = FlattenSeq(Each(q, f)) \o FlattenSeq(Each(r, f))
    BY <1>2, FlattenConcat
  <1> QED  BY <1>1, <1>3 DEF ForEach, Each

LEMMA ForEachFirst ==
  ASSUME NEW A, NEW T, NEW x \in A, NEW q \in Seq(A), NEW f, Maps(f, A, Seq(T))
  PROVE  ForEach(One(x) \o q, f) = f[x] \o ForEach(q, f)
  <1>1. ForEach(One(x) \o q, f) = ForEach(One(x), f) \o ForEach(q, f)
    BY OneIs, ForEachConcat
  <1> QED  BY <1>1, ForEachOne

LEMMA ForEachLast ==
  ASSUME NEW A, NEW T, NEW x \in A, NEW q \in Seq(A), NEW f, Maps(f, A, Seq(T))
  PROVE  ForEach(q \o One(x), f) = ForEach(q, f) \o f[x]
  <1>1. ForEach(q \o One(x), f) = ForEach(q, f) \o ForEach(One(x), f)
    BY OneIs, ForEachConcat
  <1> QED  BY <1>1, ForEachOne

LEMMA EachLast ==
  ASSUME NEW A, NEW q \in Seq(A), NEW x \in A, NEW f
  PROVE  Each(q \o One(x), f) = Each(q, f) \o One(f[x]) /\ q \o One(x) \in Seq(A)
  <1>1. Each(One(x), f) = One(f[x])
    BY DEF Each, One
  <1>2. Each(q \o One(x), f) = Each(q, f) \o Each(One(x), f)
    BY OneIs, EachConcat, SMTT(40)
  <1>3. q \o One(x) \in Seq(A)
    BY OneIs, ConcatProperties
  <1> QED  BY <1>1, <1>2, <1>3

\* A first element.
LEMMA FirstAndRest ==
  ASSUME NEW A, NEW q \in Seq(A), q # << >>
  PROVE  \E x \in A, r \in Seq(A) : q = One(x) \o r
  <1>1. Len(q) \in Nat \ {0}
    BY EmptySeq
  <1>2. 1 \in 1 .. Len(q) /\ Len(q) \in 1 .. Len(q)
    BY <1>1
  <1>3. SubSeq(q, 1, Len(q)) = << q[1] >> \o SubSeq(q, 1 + 1, Len(q))
    BY <1>2, SubSeqRecursiveFirst
  <1>4. SubSeq(q, 1, Len(q)) = q
    BY SubSeqFull
  <1>5. SubSeq(q, 1 + 1, Len(q)) \in Seq(A) /\ q[1] \in A
    <2>1. \A i \in (1 + 1) .. Len(q) : q[i] \in A
      BY <1>1, ElementOfSeq
    <2> QED  BY <1>1, <1>2, <2>1, SubSeqProperties, ElementOfSeq
  <1> QED  BY <1>3, <1>4, <1>5 DEF One

--------------------------------------------------------------------------------
(* Reading a stream that is a concatenation of packets. *)

\* Two ways to cut a sequence in two: what is left of the longer first half.
CutTwice(a, b, c, d) == a \o b = c \o d /\ Len(c) <= Len(a)
Left(a, c)           == SubSeq(a, Len(c) + 1, Len(a))
CutLeft(T, a, b, c, d) ==
  SubSeq(a, 1, Len(c)) = c /\ Left(a, c) \in Seq(T) /\ Left(a, c) \o b = d

\* The shorter half begins the longer one.
LEMMA Cut ==
  ASSUME NEW T, NEW a \in Seq(T), NEW b \in Seq(T), NEW c \in Seq(T), NEW d \in Seq(T),
         CutTwice(a, b, c, d)
  PROVE  CutLeft(T, a, b, c, d)
  <1> DEFINE n == Len(c)
             e == SubSeq(a, n + 1, Len(a))
  <1>1. /\ n \in Nat /\ Len(a) \in Nat /\ Len(b) \in Nat /\ Len(d) \in Nat
        /\ \A i \in 1 .. Len(a) : a[i] \in T
        /\ n <= Len(a)
    BY LenProperties, ElementOfSeq DEF CutTwice
  <1>2. /\ Len(a) + Len(b) = n + Len(d)
        /\ \A i \in 1 .. (Len(a) + Len(b)) :
             (IF i <= Len(a) THEN a[i] ELSE b[i - Len(a)]) = IF i <= n THEN c[i] ELSE d[i - n]
    <2>1. /\ Len(a \o b) = Len(a) + Len(b)
          /\ \A i \in 1 .. (Len(a) + Len(b)) :
               (a \o b)[i] = IF i <= Len(a) THEN a[i] ELSE b[i - Len(a)]
      BY ConcatProperties
    <2>2. /\ Len(c \o d) = n + Len(d)
          /\ \A i \in 1 .. (n + Len(d)) : (c \o d)[i] = IF i <= n THEN c[i] ELSE d[i - n]
      BY ConcatProperties
    <2> QED  BY <2>1, <2>2 DEF CutTwice
  <1>3. SubSeq(a, 1, n) = c
    <2>1. /\ SubSeq(a, 1, n) \in Seq(T) /\ Len(SubSeq(a, 1, n)) = n
          /\ \A i \in 1 .. n : SubSeq(a, 1, n)[i] = a[i]
      BY <1>1, SubSeqProperties
    <2>2. \A i \in 1 .. n : a[i] = c[i]
      BY <1>1, <1>2
    <2> QED  BY <2>1, <2>2, SeqEqual
  <1>4. /\ e \in Seq(T) /\ Len(e) = Len(a) - n
        /\ \A i \in 1 .. (Len(a) - n) : e[i] = a[n + i]
    BY <1>1, SubSeqProperties
  <1> HIDE DEF e
  <1>5. e \o b = d
    <2>1. /\ e \o b \in Seq(T) /\ Len(e \o b) = Len(e) + Len(b)
          /\ \A i \in 1 .. (Len(e) + Len(b)) :
               (e \o b)[i] = IF i <= Len(e) THEN e[i] ELSE b[i - Len(e)]
      BY <1>4, ConcatProperties
    <2>2. Len(e \o b) = Len(d)
      BY <1>1, <1>2, <1>4, <2>1
    <2>3. ASSUME NEW i \in 1 .. Len(d) PROVE (e \o b)[i] = d[i]
      <3>1. n + i \in 1 .. (Len(a) + Len(b)) /\ ~ (n + i <= n) /\ (n + i) - n = i
        BY <1>1, <1>2
      <3>2. CASE i <= Len(e)
        <4>1. (e \o b)[i] = a[n + i] /\ n + i <= Len(a)
          <5>1. i \in 1 .. (Len(e) + Len(b)) /\ i \in 1 .. (Len(a) - n)
            BY <1>1, <1>4, <2>1, <2>2, <3>2
          <5> QED  BY <1>1, <1>4, <2>1, <3>2, <5>1
        <4> QED  BY <1>2, <3>1, <4>1
      <3>3. CASE ~ (i <= Len(e))
        <4>1. /\ (e \o b)[i] = b[i - Len(e)]
              /\ ~ (n + i <= Len(a)) /\ (n + i) - Len(a) = i - Len(e)
          BY <1>1, <1>2, <1>4, <2>1, <3>3, SMTT(40)
        <4> QED  BY <1>2, <3>1, <4>1
      <3> QED  BY <3>2, <3>3
    <2> QED  BY <2>1, <2>2, <2>3, SeqEqual
  <1> QED  BY <1>3, <1>4, <1>5 DEF e, CutLeft, Left

\* A sequence of bytes that begins with its own length, within the limits.
PacketOK(b) ==
  /\ b \in Seq(Byte) /\ Len(b) \in 2 .. MAX_PACKET_SIZE
  /\ Value(SubSeq(b, 1, 2)) = Len(b)

\* The values of enc on its domain are packets.
Packets(enc) == Maps(enc, DOMAIN enc, {b \in Seq(Byte) : PacketOK(b)})

LEMMA PacketsAre ==
  ASSUME NEW enc, Packets(enc)
  PROVE  Maps(enc, DOMAIN enc, Seq(Byte)) /\ \A x \in DOMAIN enc : PacketOK(enc[x])
  BY DEF Packets, Maps

Loop == [evbuf : Seq(Byte), queue : Seq(Seq(Byte))]

\* The first packet of a stream: when it is whole a turn takes it, and only it.
Begins(s, more, p, rest) == Whole(s.evbuf) /\ PacketOK(p) /\ s.evbuf \o more = p \o rest
Takes(s, more, p, rest) ==
  /\ Turn[s] \in Loop
  /\ Turn[s].queue = s.queue \o One(p)
  /\ Turn[s].evbuf \o more = rest

LEMMA TurnTakes ==
  ASSUME NEW s \in Loop, NEW more \in Seq(Byte), NEW p, NEW rest \in Seq(Byte),
         Begins(s, more, p, rest)
  PROVE  Takes(s, more, p, rest)
  <1> DEFINE buf == s.evbuf
  <1>1. /\ buf \in Seq(Byte) /\ s.queue \in Seq(Seq(Byte)) /\ p \in Seq(Byte)
        /\ Len(p) \in Nat /\ Len(p) >= 2 /\ Len(buf) \in Nat /\ Len(buf) >= 2
    <2>1. buf \in Seq(Byte) /\ s.queue \in Seq(Seq(Byte))
      BY DEF Loop
    <2>2. p \in Seq(Byte) /\ Len(p) \in 2 .. MAX_PACKET_SIZE
      BY DEF Begins, PacketOK
    <2>3. Len(buf) >= 2
      BY DEF Begins, Whole
    <2>4. Len(p) \in Nat /\ Len(buf) \in Nat
      BY <2>1, <2>2, LenProperties
    <2> QED  BY <2>1, <2>2, <2>3, <2>4, LayoutAssumption
  <1>2. buf \o more = p \o rest /\ Whole(buf) /\ PacketOK(p)
    BY DEF Begins
  <1> HIDE DEF buf
  <1>3. SubSeq(buf, 1, 2) = SubSeq(p, 1, 2)
    <2>1. 1 \in 1 .. Len(buf) /\ 2 \in 1 .. Len(buf) /\ 1 \in 1 .. Len(p) /\ 2 \in 1 .. Len(p)
      BY <1>1
    <2>2. SubSeq(buf \o more, 1, 2) = SubSeq(buf, 1, 2)
      BY <1>1, <2>1, SubSeqOfConcat1
    <2>3. SubSeq(p \o rest, 1, 2) = SubSeq(p, 1, 2)
      BY <1>1, <2>1, SubSeqOfConcat1
    <2> QED  BY <1>2, <2>2, <2>3
  <1>4. Value(SubSeq(buf, 1, 2)) = Len(p) /\ Len(p) <= Len(buf)
    BY <1>2, <1>3 DEF PacketOK, Whole
  <1>5. CutLeft(Byte, buf, more, p, rest)
    <2>1. CutTwice(buf, more, p, rest)
      BY <1>2, <1>4 DEF CutTwice
    <2>2. buf \in Seq(Byte)
      BY <1>1
    <2>3. p \in Seq(Byte)
      BY <1>1
    <2> QED  BY <2>1, <2>2, <2>3, Cut, Zenon
  <1>6. Turn[s] = [evbuf |-> Left(buf, p), queue |-> Append(s.queue, p)]
    BY <1>2, <1>4, <1>5 DEF Turn, Loop, buf, CutLeft, Left
  <1>7. Append(s.queue, p) \in Seq(Seq(Byte)) /\ Append(s.queue, p) = s.queue \o << p >>
    BY <1>1, AppendProperties, AppendIsConcat
  <1>8. Left(buf, p) \in Seq(Byte) /\ Left(buf, p) \o more = rest
    BY <1>5 DEF CutLeft
  <1>9. Turn[s].queue = Append(s.queue, p) /\ Turn[s].evbuf = Left(buf, p)
    BY <1>6
  <1>10. Turn[s] \in Loop
    BY <1>6, <1>7, <1>8 DEF Loop
  <1> QED  BY <1>7, <1>8, <1>9, <1>10, Zenon DEF Takes, One

\* A turn that finds no whole packet changes nothing.
LEMMA TurnStops ==
  ASSUME NEW s \in Loop, ~ Whole(s.evbuf)
  PROVE  Turn[s] = s
  BY DEF Turn, Loop

\* The function by which ReadMessage is defined.
Start(buf) == [evbuf |-> buf, queue |-> << >>]
Turning(buf, n, f) == f = [i \in 0 .. n |-> IF i = 0 THEN Start(buf) ELSE Turn[f[i - 1]]]

\* Such a function, turn by turn.
LEMMA TurningEach ==
  ASSUME NEW buf, NEW n \in Nat, NEW f, Turning(buf, n, f)
  PROVE  f[0] = Start(buf) /\ \A i \in 1 .. n : f[i] = Turn[f[i - 1]]
  <1> DEFINE g == [i \in 0 .. n |-> IF i = 0 THEN Start(buf) ELSE Turn[f[i - 1]]]
  <1>1. f = g
    BY DEF Turning
  <1>2. g[0] = Start(buf) /\ \A i \in 1 .. n : g[i] = Turn[f[i - 1]]
    OBVIOUS
  <1> HIDE DEF g
  <1> QED  BY <1>1, <1>2

\* There is such a function, hence ReadMessage has the value that it describes.
LEMMA TurningExists ==
  ASSUME NEW buf
  PROVE  \A n \in Nat : \E f : Turning(buf, n, f)
  <1> DEFINE S == {n \in Nat : \E f : Turning(buf, n, f)}
  <1>1. 0 \in S
    <2> DEFINE g == [i \in 0 .. 0 |-> Start(buf)]
               h == [i \in 0 .. 0 |-> IF i = 0 THEN Start(buf) ELSE Turn[g[i - 1]]]
    <2>1. \A i \in 0 .. 0 : g[i] = Start(buf) /\ h[i] = Start(buf)
      OBVIOUS
    <2> HIDE DEF g, h
    <2>2. g = h
      BY <2>1, Zenon DEF g, h
    <2>3. Turning(buf, 0, g)
      BY <2>2 DEF Turning, h
    <2> QED  BY <2>3
  <1>2. ASSUME NEW n \in Nat, n \in S PROVE n + 1 \in S
    <2>1. PICK f : Turning(buf, n, f)
      BY <1>2
    <2>2. f[0] = Start(buf) /\ \A i \in 1 .. n : f[i] = Turn[f[i - 1]]
      BY <2>1, TurningEach
    <2> DEFINE g == [i \in 0 .. (n + 1) |-> IF i = 0 THEN Start(buf) ELSE Turn[f[i - 1]]]
               h == [i \in 0 .. (n + 1) |-> IF i = 0 THEN Start(buf) ELSE Turn[g[i - 1]]]
    <2>3. g[0] = Start(buf) /\ \A i \in 1 .. (n + 1) : g[i] = Turn[f[i - 1]]
      OBVIOUS
    <2>4. h[0] = Start(buf) /\ \A i \in 1 .. (n + 1) : h[i] = Turn[g[i - 1]]
      OBVIOUS
    <2>5. \A i \in 1 .. (n + 1) : i - 1 = 0 \/ i - 1 \in 1 .. n
      OBVIOUS
    <2>6. \A i \in 0 .. (n + 1) : i = 0 \/ i \in 1 .. (n + 1)
      OBVIOUS
    <2>7. \A i \in 1 .. n : i \in 1 .. (n + 1)
      OBVIOUS
    <2> HIDE DEF g, h
    <2>8. \A i \in 1 .. (n + 1) : g[i - 1] = f[i - 1]
      BY <2>2, <2>3, <2>5, <2>7
    <2>9. \A i \in 0 .. (n + 1) : g[i] = h[i]
      BY <2>3, <2>4, <2>6, <2>8
    <2>10. g = h
      BY <2>9, Zenon DEF g, h
    <2>11. Turning(buf, n + 1, g)
      BY <2>10 DEF Turning, h
    <2>12. n + 1 \in Nat
      OBVIOUS
    <2> QED  BY <2>11, <2>12
  <1> HIDE DEF S
  <1>3. Nat \subseteq S
    BY <1>1, <1>2, Induction
  <1> QED  BY <1>3 DEF S

\* ReadMessage is the state after the last turn.
LEMMA ReadMessageIs ==
  ASSUME NEW buf \in Seq(Byte)
  PROVE  \E n \in Nat : \E f : Turning(buf, n, f) /\ ReadMessage(buf) = f[n]
  <1> DEFINE n == Len(buf) \div 2
             f == CHOOSE g : Turning(buf, n, g)
  <1>1. n \in Nat
    BY LenProperties
  <1>2. Turning(buf, n, f)
    BY <1>1, TurningExists
  <1>3. ReadMessage(buf) = f[n]
    BY DEF ReadMessage, Turning, Start
  <1> QED  BY <1>1, <1>2, <1>3

\* The state of the loop over a buffer that begins a stream of packets: it has taken
\* the first packets of the stream, and the others are left.
Taken(q, enc, more, s) ==
  /\ s \in Loop
  /\ \E r \in Seq(DOMAIN enc), t \in Seq(DOMAIN enc) :
       /\ q = r \o t
       /\ s.queue = Each(r, enc)
       /\ s.evbuf \o more = ForEach(t, enc)

\* A buffer with a whole packet holds the first packet of the stream.
LEMMA WholeIsNotEmpty ==
  ASSUME NEW buf \in Seq(Byte), NEW more \in Seq(Byte), Whole(buf)
  PROVE  buf \o more # << >>
  <1>1. Len(buf) \in Nat /\ Len(more) \in Nat /\ Len(buf) >= 2
    BY LenProperties DEF Whole
  <1>2. Len(buf \o more) = Len(buf) + Len(more)
    BY ConcatProperties
  <1>3. Len(<< >>) = 0
    OBVIOUS
  <1> QED  BY <1>1, <1>2, <1>3

LEMMA PacketsFirst ==
  ASSUME NEW enc, Packets(enc), NEW x \in DOMAIN enc, NEW q \in Seq(DOMAIN enc)
  PROVE  /\ ForEach(One(x) \o q, enc) = enc[x] \o ForEach(q, enc)
         /\ ForEach(q, enc) \in Seq(Byte) /\ PacketOK(enc[x])
  <1>1. Maps(enc, DOMAIN enc, Seq(Byte))
    BY PacketsAre
  <1>2. ForEach(One(x) \o q, enc) = enc[x] \o ForEach(q, enc)
    BY <1>1, ForEachFirst
  <1>3. ForEach(q, enc) \in Seq(Byte)
    BY <1>1, ForEachType
  <1>4. PacketOK(enc[x])
    BY PacketsAre
  <1> QED  BY <1>2, <1>3, <1>4

\* Every turn keeps it.
LEMMA TurnKeeps ==
  ASSUME NEW enc, Packets(enc), NEW q \in Seq(DOMAIN enc),
         NEW more \in Seq(Byte), NEW s, Taken(q, enc, more, s)
  PROVE  Taken(q, enc, more, Turn[s])
  <1> DEFINE X == DOMAIN enc
  <1>1. s \in Loop /\ s.evbuf \in Seq(Byte)
    BY DEF Taken, Loop
  <1>2. PICK r \in Seq(X), t \in Seq(X) : /\ q = r \o t
                                        /\ s.queue = Each(r, enc)
                                        /\ s.evbuf \o more = ForEach(t, enc)
    BY DEF Taken
  <1>3. CASE ~ Whole(s.evbuf)
    BY <1>1, <1>3, TurnStops
  <1>4. CASE Whole(s.evbuf)
    <2> HIDE DEF X
    <2>1. t # << >>
      <3>1. s.evbuf \o more # << >>
        BY <1>1, <1>4, WholeIsNotEmpty
      <3> QED  BY <1>2, <3>1, ForEachEmpty
    <2>2. PICK x \in X, u \in Seq(X) : t = One(x) \o u
      BY <2>1, FirstAndRest
    <2>3. /\ ForEach(One(x) \o u, enc) = enc[x] \o ForEach(u, enc)
          /\ ForEach(u, enc) \in Seq(Byte) /\ PacketOK(enc[x])
      BY PacketsFirst DEF X
    <2>4. Begins(s, more, enc[x], ForEach(u, enc))
      BY <1>2, <1>4, <2>2, <2>3 DEF Begins
    <2>5. Takes(s, more, enc[x], ForEach(u, enc))
      BY <1>1, <2>3, <2>4, TurnTakes
    <2>6. Each(r \o One(x), enc) = Each(r, enc) \o One(enc[x]) /\ r \o One(x) \in Seq(X)
      BY EachLast
    <2>7. q = (r \o One(x)) \o u
      <3>1. One(x) \in Seq(X)
        BY OneIs
      <3>2. (r \o One(x)) \o u = r \o (One(x) \o u)
        BY <3>1, ConcatAssociative, SMTT(40)
      <3> QED  BY <1>2, <2>2, <3>2
    <2> QED  BY <1>2, <2>5, <2>6, <2>7 DEF Taken, Takes, X
  <1> QED  BY <1>3, <1>4

\* What is read from such a buffer are the first packets of the stream, whole, and
\* what is left of it begins the stream of the others.
LEMMA ReadMessageTakes ==
  ASSUME NEW enc, Packets(enc), NEW q \in Seq(DOMAIN enc),
         NEW buf \in Seq(Byte), NEW more \in Seq(Byte), buf \o more = ForEach(q, enc)
  PROVE  Taken(q, enc, more, ReadMessage(buf))
  <1> DEFINE OK(s) == Taken(q, enc, more, s)
  <1>1. OK(Start(buf))
    <2>1. << >> \in Seq(DOMAIN enc) /\ << >> \in Seq(Seq(Byte)) /\ q = << >> \o q
      BY EmptySeq, ConcatEmptySeq
    <2>2. Each(<< >>, enc) = << >>
      BY DEF Each
    <2>3. Start(buf).queue = << >> /\ Start(buf).evbuf = buf /\ Start(buf) \in Loop
      BY <2>1 DEF Start, Loop
    <2> QED  BY <2>1, <2>2, <2>3 DEF Taken
  <1>2. \A s : OK(s) => OK(Turn[s])
    BY TurnKeeps
  <1>3. PICK n \in Nat : \E f : Turning(buf, n, f) /\ ReadMessage(buf) = f[n]
    BY ReadMessageIs
  <1>4. PICK f : Turning(buf, n, f) /\ ReadMessage(buf) = f[n]
    BY <1>3
  <1>5. f[0] = Start(buf) /\ \A i \in 1 .. n : f[i] = Turn[f[i - 1]]
    BY <1>4, TurningEach
  <1> HIDE DEF OK
  <1> DEFINE S == {i \in Nat : i \in 0 .. n => OK(f[i])}
  <1>6. 0 \in S
    BY <1>1, <1>5
  <1>7. ASSUME NEW i \in Nat, i \in S PROVE i + 1 \in S
    <2> SUFFICES ASSUME i + 1 \in 0 .. n PROVE OK(f[i + 1])
      OBVIOUS
    <2>1. i \in 0 .. n /\ i + 1 \in 1 .. n /\ (i + 1) - 1 = i
      OBVIOUS
    <2>2. f[i + 1] = Turn[f[i]]
      BY <1>5, <2>1
    <2> QED  BY <1>2, <1>7, <2>1, <2>2
  <1> HIDE DEF S
  <1>8. Nat \subseteq S
    BY <1>6, <1>7, Induction
  <1>9. n \in 0 .. n
    OBVIOUS
  <1>10. OK(ReadMessage(buf))
    BY <1>4, <1>8, <1>9 DEF S
  <1> QED  BY <1>10 DEF OK

--------------------------------------------------------------------------------
(* The layouts. *)

\* A part of the middle of a sequence.
LEMMA Inside ==
  ASSUME NEW T, NEW a \in Seq(T), NEW b \in Seq(T), NEW c \in Seq(T),
         NEW i \in Nat \ {0}, NEW j \in Nat, j <= Len(b), i <= j + 1
  PROVE  SubSeq((a \o b) \o c, Len(a) + i, Len(a) + j) = SubSeq(b, i, j)
  <1> DEFINE s == (a \o b) \o c
             k == Len(a)
             u == SubSeq(s, k + i, k + j)
             v == SubSeq(b, i, j)
  <1>1. k \in Nat /\ Len(b) \in Nat /\ Len(c) \in Nat
    BY LenProperties
  <1>2. /\ a \o b \in Seq(T) /\ Len(a \o b) = k + Len(b)
        /\ \A n \in 1 .. (k + Len(b)) : (a \o b)[n] = IF n <= k THEN a[n] ELSE b[n - k]
    BY ConcatProperties
  <1>3. /\ s \in Seq(T) /\ Len(s) = (k + Len(b)) + Len(c)
        /\ \A n \in 1 .. ((k + Len(b)) + Len(c)) :
             s[n] = IF n <= k + Len(b) THEN (a \o b)[n] ELSE c[n - (k + Len(b))]
    BY <1>2, ConcatProperties
  <1> HIDE DEF s
  <1>4. \A n \in 1 .. Len(b) : s[k + n] = b[n]
    <2> SUFFICES ASSUME NEW n \in 1 .. Len(b) PROVE s[k + n] = b[n]
      OBVIOUS
    <2>1. k + n \in 1 .. (k + Len(b)) /\ ~ (k + n <= k) /\ (k + n) - k = n
      BY <1>1
    <2>2. k + n \in 1 .. ((k + Len(b)) + Len(c)) /\ k + n <= k + Len(b)
      BY <1>1
    <2> QED  BY <1>2, <1>3, <2>1, <2>2
  <1>5. /\ u \in Seq(T) /\ Len(u) = IF k + i <= k + j THEN (k + j) - (k + i) + 1 ELSE 0
        /\ \A n \in 1 .. ((k + j) - (k + i) + 1) : u[n] = s[k + i + n - 1]
    <2>1. \A n \in (k + i) .. (k + j) : s[n] \in T
      <3>1. \A n \in (k + i) .. (k + j) : n \in 1 .. Len(s)
        BY <1>1, <1>3
      <3> QED  BY <1>3, <3>1, ElementOfSeq
    <2>2. k + i \in Int /\ k + j \in Int
      BY <1>1
    <2> QED  BY <2>1, <2>2, SubSeqProperties
  <1>6. /\ v \in Seq(T) /\ Len(v) = IF i <= j THEN j - i + 1 ELSE 0
        /\ \A n \in 1 .. (j - i + 1) : v[n] = b[i + n - 1]
    <2>1. \A n \in i .. j : b[n] \in T
      <3>1. \A n \in i .. j : n \in 1 .. Len(b)
        BY <1>1
      <3> QED  BY <3>1, ElementOfSeq
    <2> QED  BY <2>1, SubSeqProperties
  <1> HIDE DEF u, v
  <1>7. Len(u) = Len(v)
    BY <1>1, <1>5, <1>6
  <1>8. ASSUME NEW n \in 1 .. Len(u) PROVE u[n] = v[n]
    <2>1. n \in 1 .. ((k + j) - (k + i) + 1) /\ n \in 1 .. (j - i + 1)
      BY <1>1, <1>5
    <2>2. i + n - 1 \in 1 .. Len(b) /\ k + i + n - 1 = k + (i + n - 1)
      BY <1>1, <2>1
    <2>3. s[k + i + n - 1] = b[i + n - 1]
      BY <1>4, <2>2
    <2> QED  BY <1>5, <1>6, <2>1, <2>3
  <1>9. u = v
    BY <1>5, <1>6, <1>7, <1>8, SeqEqual
  <1> QED  BY <1>9 DEF u, v, s

\* The pieces of a \o b.
LEMMA Halves ==
  ASSUME NEW T, NEW a \in Seq(T), NEW b \in Seq(T)
  PROVE  /\ SubSeq(a \o b, 1, Len(a)) = a
         /\ SubSeq(a \o b, Len(a) + 1, Len(a) + Len(b)) = b
  <1>1. << >> \in Seq(T) /\ a \o << >> = a /\ << >> \o a = a /\ Len(<< >>) = 0
    BY EmptySeq, ConcatEmptySeq
  <1>2. Len(a) \in Nat /\ Len(b) \in Nat
    BY LenProperties
  <1>3. SubSeq((<< >> \o a) \o b, Len(<< >>) + 1, Len(<< >>) + Len(a)) = SubSeq(a, 1, Len(a))
    BY <1>1, <1>2, Inside
  <1>4. SubSeq((a \o b) \o << >>, Len(a) + 1, Len(a) + Len(b)) = SubSeq(b, 1, Len(b))
    BY <1>1, <1>2, Inside
  <1>5. (a \o b) \o << >> = a \o b
    BY ConcatProperties, ConcatEmptySeq
  <1> QED  BY <1>1, <1>2, <1>3, <1>4, <1>5, SubSeqFull

LEMMA Middle ==
  ASSUME NEW T, NEW a \in Seq(T), NEW b \in Seq(T), NEW c \in Seq(T)
  PROVE  SubSeq((a \o b) \o c, Len(a) + 1, Len(a) + Len(b)) = b
  <1>1. Len(b) \in Nat
    BY LenProperties
  <1>2. SubSeq((a \o b) \o c, Len(a) + 1, Len(a) + Len(b)) = SubSeq(b, 1, Len(b))
    BY <1>1, Inside
  <1> QED  BY <1>2, SubSeqFull

\* An element of the middle.
LEMMA MiddleAt ==
  ASSUME NEW T, NEW a \in Seq(T), NEW b \in Seq(T), NEW c \in Seq(T), NEW i \in 1 .. Len(b)
  PROVE  ((a \o b) \o c)[Len(a) + i] = b[i]
  <1>1. Len(a) \in Nat /\ Len(b) \in Nat /\ Len(c) \in Nat
    BY LenProperties
  <1>2. /\ a \o b \in Seq(T) /\ Len(a \o b) = Len(a) + Len(b)
        /\ \A n \in 1 .. (Len(a) + Len(b)) :
             (a \o b)[n] = IF n <= Len(a) THEN a[n] ELSE b[n - Len(a)]
    BY ConcatProperties
  <1>3. \A n \in 1 .. (Len(a \o b) + Len(c)) :
          ((a \o b) \o c)[n] = IF n <= Len(a \o b) THEN (a \o b)[n] ELSE c[n - Len(a \o b)]
    BY <1>2, ConcatProperties
  <1> DEFINE n == Len(a) + i
  <1>4. /\ n \in 1 .. (Len(a) + Len(b)) /\ ~ (n <= Len(a)) /\ n - Len(a) = i
        /\ n \in 1 .. (Len(a \o b) + Len(c)) /\ n <= Len(a \o b)
    BY <1>1, <1>2
  <1> HIDE DEF n
  <1>5. ((a \o b) \o c)[n] = b[i]
    BY <1>2, <1>3, <1>4
  <1> QED  BY <1>5 DEF n

\* A length in two digits.
LEMMA Uint16Value ==
  ASSUME NEW n \in Nat, n < Base * Base
  PROVE  /\ Uint16(n) \in Seq(Byte) /\ Len(Uint16(n)) = 2
         /\ Value(Uint16(n)) = n
  <1>1. Base \in Nat \ {0}
    BY LayoutAssumption
  <1>2. /\ n \div Base \in Nat /\ n % Base \in 0 .. (Base - 1)
        /\ n = Base * (n \div Base) + (n % Base)
    BY <1>1
  <1>3. n \div Base < Base
    <2> DEFINE d == n \div Base
    <2> SUFFICES ASSUME d >= Base PROVE FALSE
      BY <1>1, <1>2
    <2>1. Base * d >= Base * Base
      BY <1>1, <1>2
    <2> QED  BY <1>1, <1>2, <2>1
  <1>4. n \div Base \in Byte /\ n % Base \in Byte
    BY <1>1, <1>2, <1>3 DEF Byte
  <1>5. (n \div Base) * Base + (n % Base) = n
    BY <1>1, <1>2
  <1>6. Uint16(n) \in Seq(Byte) /\ Len(Uint16(n)) = 2
    BY <1>4 DEF Uint16
  <1>7. Value(Uint16(n)) = n
    BY <1>5 DEF Uint16, Value
  <1> QED  BY <1>6, <1>7

LEMMA Int32Type ==
  ASSUME NEW v \in Byte
  PROVE  /\ Int32(v) \in Seq(Byte) /\ Len(Int32(v)) = IntSize /\ IntSize \in Nat \ {0}
         /\ Int32(v)[1] = v
  BY LayoutAssumption DEF Int32

LEMMA ChecksumType ==
  ASSUME NEW m \in Message
  PROVE  m \in Seq(Byte) /\ Checksum(m) \in Seq(Byte) /\ Len(Checksum(m)) = IntSize
  BY MessageAssumption, Int32Type DEF Checksum

\* Concatenations of bytes.
LEMMA BytesConcat ==
  ASSUME NEW a \in Seq(Byte), NEW b \in Seq(Byte)
  PROVE  a \o b \in Seq(Byte) /\ Len(a \o b) = Len(a) + Len(b)
  BY ConcatProperties

LEMMA BytesAssociative ==
  ASSUME NEW a \in Seq(Byte), NEW b \in Seq(Byte), NEW c \in Seq(Byte)
  PROVE  (a \o b) \o c = a \o (b \o c)
  BY ConcatAssociative

LEMMA BytesHalves ==
  ASSUME NEW a \in Seq(Byte), NEW b \in Seq(Byte)
  PROVE  /\ SubSeq(a \o b, 1, Len(a)) = a
         /\ SubSeq(a \o b, Len(a) + 1, Len(a) + Len(b)) = b
  BY Halves

LEMMA BytesMiddle ==
  ASSUME NEW a \in Seq(Byte), NEW b \in Seq(Byte), NEW c \in Seq(Byte)
  PROVE  /\ SubSeq((a \o b) \o c, Len(a) + 1, Len(a) + Len(b)) = b
         /\ \A i \in 1 .. Len(b) : ((a \o b) \o c)[Len(a) + i] = b[i]
         /\ \A i \in Nat \ {0}, j \in Nat : j <= Len(b) /\ i <= j + 1 =>
              SubSeq((a \o b) \o c, Len(a) + i, Len(a) + j) = SubSeq(b, i, j)
  BY Middle, MiddleAt, Inside, SMTT(40)

\* The size of a PacketC.
SizeC(m) == HeaderC + Len(m) + IntSize

\* It is within the limits, and a length of two digits.
LEMMA SizeCIs ==
  ASSUME NEW m \in Message
  PROVE  /\ SizeC(m) \in Nat /\ SizeC(m) < Base * Base /\ SizeC(m) \in 2 .. MAX_PACKET_SIZE
         /\ 2 + SizeC(m) + IntSize \in Nat /\ 2 + SizeC(m) + IntSize < Base * Base
         /\ 2 + SizeC(m) + IntSize \in 2 .. MAX_PACKET_SIZE
         /\ SizeC(m) = 2 + IntSize + Len(m) + IntSize /\ Len(m) \in Nat /\ IntSize \in Nat \ {0}
  <1>1. Len(m) \in Nat
    BY ChecksumType, LenProperties
  <1>2. Len(m) + HeaderS + IntSize + MAX_APPENDDATA_SIZE <= MAX_PACKET_SIZE
    BY MessageAssumption
  <1>3. /\ IntSize \in Nat \ {0} /\ MAX_APPENDDATA_SIZE \in Nat /\ MAX_APPENDDATA_SIZE >= IntSize
        /\ MAX_PACKET_SIZE \in 1 .. (Base * Base - 1) /\ Base \in Nat
    BY LayoutAssumption
  <1> DEFINE B == Base * Base
  <1>4. B \in Nat
    BY <1>3
  <1>5. MAX_PACKET_SIZE \in 1 .. (B - 1)
    BY <1>3
  <1> HIDE DEF B
  <1>6. /\ SizeC(m) \in Nat /\ SizeC(m) < B /\ SizeC(m) \in 2 .. MAX_PACKET_SIZE
        /\ 2 + SizeC(m) + IntSize \in Nat /\ 2 + SizeC(m) + IntSize < B
        /\ 2 + SizeC(m) + IntSize \in 2 .. MAX_PACKET_SIZE
        /\ SizeC(m) = 2 + IntSize + Len(m) + IntSize
    <2>1. MAX_APPENDDATA_SIZE \in Nat /\ MAX_APPENDDATA_SIZE >= IntSize /\ IntSize \in Nat \ {0}
      BY <1>3
    <2> QED  BY <1>1, <1>2, <1>4, <1>5, <2>1 DEF SizeC, HeaderC, HeaderS
  <1> QED  BY <1>1, <1>3, <1>6 DEF B

\* What a receiver reads in a PacketC is what was put there.
ReadsC(b, owner, m) ==
  /\ OwnerC(b) = owner /\ MsgC(b) = m /\ ValidC(b)
  /\ SubSeq(b, HeaderC + 1, Len(b)) = m \o Checksum(m)

LEMMA PacketCReads ==
  ASSUME NEW owner \in Byte, NEW m \in Message
  PROVE  /\ PacketOK(PacketC(owner, m)) /\ Len(PacketC(owner, m)) = SizeC(m)
         /\ SubSeq(PacketC(owner, m), 1, 2) = Uint16(SizeC(m))
         /\ ReadsC(PacketC(owner, m), owner, m)
  <1> DEFINE U == Uint16(SizeC(m))
             I == Int32(owner)
             K == Checksum(m)
             b == PacketC(owner, m)
  <1>1. U \in Seq(Byte)
    BY SizeCIs, Uint16Value
  <1>2. Len(U) = 2 /\ Value(U) = SizeC(m)
    BY SizeCIs, Uint16Value
  <1>3. I \in Seq(Byte)
    BY Int32Type
  <1>4. Len(I) = IntSize /\ I[1] = owner
    BY Int32Type
  <1>5. K \in Seq(Byte)
    BY ChecksumType
  <1>6. m \in Seq(Byte)
    BY ChecksumType
  <1>7. Len(K) = IntSize
    BY ChecksumType
  <1>8. IntSize \in Nat \ {0} /\ Len(m) \in Nat /\ HeaderC = 2 + IntSize
    BY SizeCIs DEF HeaderC
  <1>9. SizeC(m) = 2 + IntSize + Len(m) + IntSize /\ SizeC(m) \in 2 .. MAX_PACKET_SIZE
    BY SizeCIs
  <1>10. b = ((U \o I) \o m) \o K
    BY DEF PacketC, SizeC
  <1> HIDE DEF U, I, K, b
  <1>11. U \o I \in Seq(Byte)
    BY <1>1, <1>3, BytesConcat
  <1>12. Len(U \o I) = 2 + IntSize
    BY <1>1, <1>2, <1>3, <1>4, BytesConcat
  <1>13. (U \o I) \o m \in Seq(Byte)
    BY <1>6, <1>11, BytesConcat
  <1>14. Len((U \o I) \o m) = (2 + IntSize) + Len(m)
    BY <1>6, <1>11, <1>12, BytesConcat
  <1>15. b \in Seq(Byte)
    BY <1>5, <1>10, <1>13, BytesConcat
  <1>16. Len(b) = ((2 + IntSize) + Len(m)) + IntSize
    BY <1>5, <1>7, <1>10, <1>13, <1>14, BytesConcat
  <1>17. m \o K \in Seq(Byte)
    BY <1>5, <1>6, BytesConcat
  <1>18. Len(m \o K) = Len(m) + IntSize
    BY <1>5, <1>6, <1>7, BytesConcat
  <1>19. b = (U \o I) \o (m \o K)
    <2>1. ((U \o I) \o m) \o K = (U \o I) \o (m \o K)
      BY <1>5, <1>6, <1>11, BytesAssociative
    <2> QED  BY <1>10, <2>1
  <1>20. SubSeq(b, HeaderC + 1, Len(b)) = m \o K
    <2>1. SubSeq((U \o I) \o (m \o K), Len(U \o I) + 1, Len(U \o I) + Len(m \o K)) = m \o K
      BY <1>11, <1>17, BytesHalves
    <2>2. HeaderC + 1 = Len(U \o I) + 1 /\ Len(b) = Len(U \o I) + Len(m \o K)
      BY <1>8, <1>12, <1>16, <1>18
    <2> QED  BY <1>19, <2>1, <2>2
  <1>21. MsgC(b) = m
    <2>1. SubSeq(((U \o I) \o m) \o K, Len(U \o I) + 1, Len(U \o I) + Len(m)) = m
      BY <1>5, <1>6, <1>11, BytesMiddle
    <2>2. HeaderC + 1 = Len(U \o I) + 1 /\ Len(b) - IntSize = Len(U \o I) + Len(m)
      BY <1>8, <1>12, <1>16
    <2> QED  BY <1>10, <2>1, <2>2 DEF MsgC
  <1>22. ValidC(b)
    <2> DEFINE V == (U \o I) \o m
    <2>1. SubSeq(V \o K, Len(V) + 1, Len(V) + Len(K)) = K
      BY <1>5, <1>13, BytesHalves
    <2>2. Len(b) - IntSize + 1 = Len(V) + 1 /\ Len(b) = Len(V) + Len(K)
      BY <1>7, <1>8, <1>14, <1>16
    <2>3. SubSeq(b, Len(b) - IntSize + 1, Len(b)) = K
      BY <1>10, <2>1, <2>2
    <2> QED  BY <1>21, <2>3 DEF ValidC, K
  <1>23. OwnerC(b) = owner
    <2>1. 1 \in 1 .. Len(I)
      BY <1>4, <1>8
    <2>2. ((U \o I) \o (m \o K))[Len(U) + 1] = I[1]
      BY <1>1, <1>3, <1>17, <2>1, BytesMiddle
    <2>3. Len(U) + 1 = 3
      BY <1>2
    <2> QED  BY <1>4, <1>19, <2>2, <2>3 DEF OwnerC
  <1>24. SubSeq(b, 1, 2) = U
    <2>1. I \o (m \o K) \in Seq(Byte)
      BY <1>3, <1>17, BytesConcat
    <2>2. (U \o I) \o (m \o K) = U \o (I \o (m \o K))
      BY <1>1, <1>3, <1>17, BytesAssociative
    <2>3. SubSeq(U \o (I \o (m \o K)), 1, Len(U)) = U
      BY <1>1, <2>1, BytesHalves
    <2> QED  BY <1>2, <1>19, <2>2, <2>3
  <1>25. Len(b) = SizeC(m)
    BY <1>8, <1>9, <1>16
  <1>26. PacketOK(b)
    BY <1>2, <1>9, <1>15, <1>24, <1>25 DEF PacketOK
  <1> QED  BY <1>20, <1>21, <1>22, <1>23, <1>24, <1>25, <1>26 DEF ReadsC, U, K, b

\* A PacketS is a PacketC between its size and its destination.
SizeS(m) == 2 + SizeC(m) + IntSize

\* PacketS is what the gate makes of a PacketC (RelayUp) and takes it out of (RelayDown).
LEMMA PacketSIs ==
  ASSUME NEW owner \in Byte, NEW m \in Message, NEW dest \in Byte
  PROVE  /\ PacketS(owner, m, dest) = (Uint16(SizeS(m)) \o PacketC(owner, m)) \o Int32(dest)
         /\ RelayUp(PacketC(dest, m), owner, dest) = PacketS(owner, m, dest)
  <1> DEFINE U1 == Uint16(SizeS(m))
             U2 == Uint16(SizeC(m))
             I == Int32(owner)
             K == Checksum(m)
             D == Int32(dest)
  <1>1. /\ HeaderS - 2 + Len(m) + IntSize = SizeC(m)
        /\ SizeC(m) + ExData = SizeS(m) /\ SizeC(m) \in Nat
    BY SizeCIs DEF HeaderS, HeaderC, ExData, SizeC, SizeS
  <1>2. PacketS(owner, m, dest) = ((((U1 \o U2) \o I) \o m) \o K) \o D
    BY <1>1 DEF PacketS, SizeS
  <1>3. PacketC(owner, m) = ((U2 \o I) \o m) \o K
    BY DEF PacketC, SizeC
  <1>4. RelayUp(PacketC(dest, m), owner, dest) = (((U1 \o U2) \o I) \o (m \o K)) \o D
    BY <1>1, PacketCReads DEF RelayUp, ReadsC
  <1>5. U1 \in Seq(Byte)
    BY SizeCIs, Uint16Value DEF SizeS
  <1>6. U2 \in Seq(Byte)
    BY SizeCIs, Uint16Value
  <1>7. I \in Seq(Byte)
    BY Int32Type
  <1>8. K \in Seq(Byte)
    BY ChecksumType
  <1>9. m \in Seq(Byte)
    BY ChecksumType
  <1> HIDE DEF U1, U2, I, K, D
  <1>10. U1 \o U2 \in Seq(Byte)
    BY <1>5, <1>6, BytesConcat
  <1>11. (U1 \o U2) \o I \in Seq(Byte)
    BY <1>7, <1>10, BytesConcat
  <1>12. U2 \o I \in Seq(Byte)
    BY <1>6, <1>7, BytesConcat
  <1>13. (U2 \o I) \o m \in Seq(Byte)
    BY <1>9, <1>12, BytesConcat
  <1>14. (((U1 \o U2) \o I) \o m) \o K = ((U1 \o U2) \o I) \o (m \o K)
    BY <1>8, <1>9, <1>11, BytesAssociative
  <1>15. (U1 \o U2) \o I = U1 \o (U2 \o I)
    BY <1>5, <1>6, <1>7, BytesAssociative
  <1>16. (U1 \o (U2 \o I)) \o m = U1 \o ((U2 \o I) \o m)
    BY <1>5, <1>9, <1>12, BytesAssociative
  <1>17. (U1 \o ((U2 \o I) \o m)) \o K = U1 \o (((U2 \o I) \o m) \o K)
    BY <1>5, <1>8, <1>13, BytesAssociative, ZenonT(60)
  <1>18. (((U1 \o U2) \o I) \o m) \o K = U1 \o PacketC(owner, m)
    BY <1>3, <1>15, <1>16, <1>17
  <1> QED  BY <1>2, <1>4, <1>14, <1>18 DEF U1, D

\* What a receiver reads in a PacketS is what was put there, and the gate takes a
\* PacketC out of it.
ReadsS(b, owner, m, dest) ==
  /\ OwnerS(b) = owner /\ MsgS(b) = m /\ ValidS(b) /\ DestS(b) = dest
  /\ RelayDown(b) = PacketC(owner, m)

LEMMA PacketSReads ==
  ASSUME NEW owner \in Byte, NEW m \in Message, NEW dest \in Byte
  PROVE  /\ PacketOK(PacketS(owner, m, dest))
         /\ ReadsS(PacketS(owner, m, dest), owner, m, dest)
  <1> DEFINE U == Uint16(SizeS(m))
             C == PacketC(owner, m)
             D == Int32(dest)
             b == PacketS(owner, m, dest)
  <1>1. U \in Seq(Byte)
    BY SizeCIs, Uint16Value DEF SizeS
  <1>2. Len(U) = 2 /\ Value(U) = SizeS(m)
    BY SizeCIs, Uint16Value DEF SizeS
  <1>3. C \in Seq(Byte)
    BY PacketCReads DEF PacketOK
  <1>4. /\ Len(C) = SizeC(m) /\ SubSeq(C, 1, 2) = Uint16(SizeC(m))
        /\ C[3] = owner /\ MsgC(C) = m /\ ValidC(C)
    BY PacketCReads DEF ReadsC, OwnerC
  <1>5. D \in Seq(Byte)
    BY Int32Type
  <1>6. Len(D) = IntSize /\ D[1] = dest
    BY Int32Type
  <1>7. /\ IntSize \in Nat \ {0} /\ Len(m) \in Nat /\ HeaderC = 2 + IntSize
        /\ HeaderS = 4 + IntSize
        /\ SizeC(m) = 2 + IntSize + Len(m) + IntSize /\ SizeS(m) = 2 + SizeC(m) + IntSize
        /\ SizeS(m) \in 2 .. MAX_PACKET_SIZE
    BY SizeCIs DEF HeaderC, HeaderS, SizeS
  <1>8. b = (U \o C) \o D
    BY PacketSIs
  <1>9. Value(Uint16(SizeC(m))) = SizeC(m)
    BY SizeCIs, Uint16Value
  <1> HIDE DEF U, C, D, b
  <1>10. U \o C \in Seq(Byte)
    BY <1>1, <1>3, BytesConcat
  <1>11. Len(U \o C) = 2 + SizeC(m)
    BY <1>1, <1>2, <1>3, <1>4, BytesConcat
  <1>12. b \in Seq(Byte)
    BY <1>5, <1>8, <1>10, BytesConcat
  <1>13. Len(b) = SizeS(m)
    <2>1. Len(b) = (2 + SizeC(m)) + IntSize
      BY <1>5, <1>6, <1>8, <1>10, <1>11, BytesConcat
    <2> QED  BY <1>7, <2>1
  <1>14. SubSeq(b, 1, 2) = U
    <2>1. C \o D \in Seq(Byte)
      BY <1>3, <1>5, BytesConcat
    <2>2. b = U \o (C \o D)
      BY <1>1, <1>3, <1>5, <1>8, BytesAssociative
    <2>3. SubSeq(U \o (C \o D), 1, Len(U)) = U
      BY <1>1, <2>1, BytesHalves
    <2> QED  BY <1>2, <2>2, <2>3
  <1>15. PacketOK(b)
    BY <1>2, <1>7, <1>12, <1>13, <1>14 DEF PacketOK
  <1>16. \A i \in Nat \ {0}, j \in Nat : j <= SizeC(m) /\ i <= j + 1 =>
            SubSeq(b, 2 + i, 2 + j) = SubSeq(C, i, j)
    <2>1. \A i \in Nat \ {0}, j \in Nat : j <= Len(C) /\ i <= j + 1 =>
            SubSeq((U \o C) \o D, Len(U) + i, Len(U) + j) = SubSeq(C, i, j)
      BY <1>1, <1>3, <1>5, BytesMiddle, SMTT(40)
    <2> QED  BY <1>2, <1>4, <1>8, <2>1
  <1>17. DataSize(b) = SizeC(m)
    <2>1. SubSeq(b, 2 + 1, 2 + 2) = SubSeq(C, 1, 2)
      BY <1>7, <1>16
    <2>2. 2 + 1 = 3 /\ 2 + 2 = 4
      OBVIOUS
    <2> QED  BY <1>4, <1>9, <2>1, <2>2 DEF DataSize
  <1>18. MsgS(b) = m
    <2>1. HeaderC + 1 \in Nat \ {0} /\ SizeC(m) - IntSize \in Nat
          /\ SizeC(m) - IntSize <= SizeC(m) /\ HeaderC + 1 <= SizeC(m) - IntSize + 1
      BY <1>7
    <2>2. SubSeq(b, 2 + (HeaderC + 1), 2 + (SizeC(m) - IntSize))
            = SubSeq(C, HeaderC + 1, SizeC(m) - IntSize)
      BY <1>16, <2>1
    <2>3. /\ 2 + (HeaderC + 1) = HeaderS + 1
          /\ 2 + (SizeC(m) - IntSize) = 2 + SizeC(m) - IntSize
      BY <1>7
    <2> QED  BY <1>4, <1>17, <2>2, <2>3 DEF MsgS, MsgC
  <1>19. ValidS(b)
    <2>1. SizeC(m) - IntSize + 1 \in Nat \ {0} /\ SizeC(m) \in Nat
          /\ SizeC(m) <= SizeC(m) /\ SizeC(m) - IntSize + 1 <= SizeC(m) + 1
      BY <1>7
    <2>2. SubSeq(b, 2 + (SizeC(m) - IntSize + 1), 2 + SizeC(m))
            = SubSeq(C, SizeC(m) - IntSize + 1, SizeC(m))
      BY <1>16, <2>1
    <2>3. 2 + (SizeC(m) - IntSize + 1) = 2 + SizeC(m) - IntSize + 1
      BY <1>7
    <2> QED  BY <1>4, <1>17, <1>18, <2>2, <2>3 DEF ValidS, ValidC
  <1>20. RelayDown(b) = C
    <2>1. SubSeq(b, 2 + 1, 2 + SizeC(m)) = SubSeq(C, 1, SizeC(m))
      BY <1>7, <1>16
    <2>2. SubSeq(C, 1, Len(C)) = C
      BY <1>3, SubSeqFull
    <2>3. 2 + 1 = 3
      OBVIOUS
    <2> QED  BY <1>4, <1>17, <2>1, <2>2, <2>3 DEF RelayDown
  <1>21. OwnerS(b) = owner
    <2>1. 3 \in 1 .. Len(C)
      BY <1>4, <1>7
    <2>2. ((U \o C) \o D)[Len(U) + 3] = C[3]
      BY <1>1, <1>3, <1>5, <2>1, BytesMiddle
    <2>3. Len(U) + 3 = 5
      BY <1>2
    <2> QED  BY <1>4, <1>8, <2>2, <2>3 DEF OwnerS
  <1>22. DestS(b) = dest
    <2>1. << >> \in Seq(Byte) /\ (U \o C) \o D = ((U \o C) \o D) \o << >>
      BY <1>8, <1>12, EmptySeq, ConcatEmptySeq
    <2>2. 1 \in 1 .. Len(D)
      BY <1>6, <1>7
    <2>3. (((U \o C) \o D) \o << >>)[Len(U \o C) + 1] = D[1]
      BY <1>5, <1>10, <2>1, <2>2, BytesMiddle
    <2> QED  BY <1>6, <1>8, <1>11, <1>17, <2>1, <2>3 DEF DestS
  <1> QED  BY <1>15, <1>18, <1>19, <1>20, <1>21, <1>22 DEF ReadsS, C, b

\* What a handler makes of packets, one by one, is what it makes of their contents.
LEMMA ForEachEach ==
  ASSUME NEW A, NEW q \in Seq(A), NEW f, NEW g, NEW h, \A x \in A : g[f[x]] = h[x]
  PROVE  ForEach(Each(q, f), g) = ForEach(q, h)
  <1>1. \A i \in DOMAIN q : g[f[q[i]]] = h[q[i]]
    BY ElementOfSeq, LenProperties
  <1>2. DOMAIN Each(q, f) = DOMAIN q /\ \A i \in DOMAIN q : Each(q, f)[i] = f[q[i]]
    BY DEF Each
  <1>3. [i \in DOMAIN Each(q, f) |-> g[Each(q, f)[i]]] = [i \in DOMAIN q |-> h[q[i]]]
    <2> HIDE DEF Each
    <2> QED  BY <1>1, <1>2
  <1> QED  BY <1>3 DEF ForEach

LEMMA ForEachForEach ==
  ASSUME NEW A, NEW B, NEW T, NEW f, NEW g, NEW h,
         Maps(f, A, Seq(B)), Maps(g, B, Seq(T)),
         \A x \in A : h[x] = ForEach(f[x], g)
  PROVE  \A q \in Seq(A) : ForEach(ForEach(q, f), g) = ForEach(q, h)
  <1> DEFINE S == {q \in Seq(A) : ForEach(ForEach(q, f), g) = ForEach(q, h)}
  <1>1. Maps(h, A, Seq(T))
    <2> SUFFICES ASSUME NEW x \in A PROVE h[x] \in Seq(T)
      BY DEF Maps
    <2>1. f[x] \in Seq(B) /\ h[x] = ForEach(f[x], g)
      BY DEF Maps
    <2> QED  BY <2>1, ForEachType
  <1>2. << >> \in S
    BY ForEachEmpty, EmptySeq
  <1>3. ASSUME NEW q \in Seq(A), NEW x \in A, q \in S PROVE Append(q, x) \in S
    <2>1. Append(q, x) = q \o One(x) /\ Append(q, x) \in Seq(A)
      BY AppendIsConcat, AppendProperties DEF One
    <2>2. ForEach(q \o One(x), f) = ForEach(q, f) \o f[x]
      BY ForEachLast
    <2>3. ForEach(q \o One(x), h) = ForEach(q, h) \o h[x]
      BY <1>1, ForEachLast
    <2>4. ForEach(q, f) \in Seq(B)
      BY ForEachType
    <2>5. f[x] \in Seq(B)
      BY DEF Maps
    <2>6. ForEach(ForEach(q, f) \o f[x], g) = ForEach(ForEach(q, f), g) \o ForEach(f[x], g)
      BY <2>4, <2>5, ForEachConcat
    <2>7. ForEach(ForEach(q, f), g) = ForEach(q, h)
      BY <1>3
    <2>8. h[x] = ForEach(f[x], g)
      OBVIOUS
    <2>9. ForEach(ForEach(Append(q, x), f), g) = ForEach(Append(q, x), h)
      BY <2>1, <2>2, <2>3, <2>6, <2>7, <2>8
    <2> QED  BY <2>1, <2>9
  <1> HIDE DEF S
  <1>4. Seq(A) \subseteq S
    BY <1>2, <1>3, SequenceInduction
  <1> QED  BY <1>4 DEF S

--------------------------------------------------------------------------------
(* What is in flight. *)

\* What the client sends, and to whom.
FromClient == [to : {"gate", "center"}, msg : Message]

\* The packets that each link carries.
UpC   == [x \in FromClient |-> PacketC(IF x.to = "gate" THEN Gate ELSE Center, x.msg)]
UpS   == [m \in Message |-> PacketS(Guest, m, Center)]
DownS == [m \in Message |-> PacketS(Center, m, Client)]
DownC == [m \in Message |-> PacketC(Center, m)]

\* What is handled of them, in the end, and what the gate passes on.
EntryOf(owner, m) == [owner |-> owner, msg |-> m]

ForGate   == [x \in FromClient |-> IF x.to = "gate" THEN One(EntryOf(Guest, x.msg)) ELSE << >>]
ForCenter == [x \in FromClient |-> IF x.to = "gate" THEN << >> ELSE One(x.msg)]
OfGuest   == [m \in Message |-> One(EntryOf(Guest, m))]
OfCenter  == [m \in Message |-> One(EntryOf(Center, m))]

\* A stream carries the packets of q, and nothing else.
Stream(e, w, q, enc) == e \o w = ForEach(q, enc)
Carries(l, q, enc) == Stream(evbuf[l], wire[l], q, enc)

\* The packets a, b, c and d in flight on the four links: with what was handled they
\* are what was sent, in its order.
Flow(a, b, c, d) ==
  /\ a \in Seq(FromClient) /\ {b, c, d} \subseteq Seq(Message)
  /\ Carries("client>gate", a, UpC) /\ Carries("gate>center", b, UpS)
  /\ Carries("center>gate", c, DownS) /\ Carries("gate>client", d, DownC)
  /\ sent["gate"] = got["gate"] \o ForEach(a, ForGate)
  /\ sent["center"] = got["center"] \o ForEach(b \o ForEach(a, ForCenter), OfGuest)
  /\ sent["client"] = got["client"] \o ForEach(d \o c, OfCenter)

IInv == TypeOK /\ \E a, b, c, d : Flow(a, b, c, d)

LEMMA Addresses == {Gate, Center, Guest, Client} \subseteq Byte /\ Gate # Center
  BY AddressAssumption

Entry == [owner : Byte, msg : Message]

\* What the links carry are packets within the limits that ReadMessage checks.
LEMMA PacketsInFlight ==
  /\ Packets(UpC) /\ DOMAIN UpC = FromClient
  /\ Packets(UpS) /\ DOMAIN UpS = Message
  /\ Packets(DownS) /\ DOMAIN DownS = Message
  /\ Packets(DownC) /\ DOMAIN DownC = Message
  <1>1. \A b : PacketOK(b) => b \in Seq(Byte)
    BY DEF PacketOK
  <1>2. \A o \in Byte, m \in Message : PacketOK(PacketC(o, m))
    BY PacketCReads
  <1>3. \A o, d \in Byte, m \in Message : PacketOK(PacketS(o, m, d))
    BY PacketSReads
  <1>4. \A x \in FromClient : x.msg \in Message
    BY DEF FromClient
  <1>5. Packets(UpC) /\ DOMAIN UpC = FromClient
    BY <1>1, <1>2, <1>4, Addresses DEF Packets, Maps, UpC
  <1>6. Packets(UpS) /\ DOMAIN UpS = Message
    BY <1>1, <1>3, Addresses DEF Packets, Maps, UpS
  <1>7. Packets(DownS) /\ DOMAIN DownS = Message
    BY <1>1, <1>3, Addresses DEF Packets, Maps, DownS
  <1>8. Packets(DownC) /\ DOMAIN DownC = Message
    BY <1>1, <1>2, Addresses DEF Packets, Maps, DownC
  <1> QED  BY <1>5, <1>6, <1>7, <1>8

\* What is handled of them are entries.
LEMMA ContentTypes ==
  /\ Maps(ForGate, FromClient, Seq(Entry)) /\ Maps(ForCenter, FromClient, Seq(Message))
  /\ Maps(OfGuest, Message, Seq(Entry)) /\ Maps(OfCenter, Message, Seq(Entry))
  <1>1. \A o \in Byte, m \in Message : One(EntryOf(o, m)) \in Seq(Entry)
    BY OneIs DEF EntryOf, Entry
  <1>2. \A m \in Message : One(m) \in Seq(Message)
    BY OneIs
  <1>3. << >> \in Seq(Entry) /\ << >> \in Seq(Message)
    BY EmptySeq
  <1>4. \A x \in FromClient : x.msg \in Message
    BY DEF FromClient
  <1> QED  BY <1>1, <1>2, <1>3, <1>4, Addresses DEF Maps, ForGate, ForCenter, OfGuest, OfCenter

\* What the handlers make of the packets on the links.
LEMMA HandlersRead ==
  /\ \A x \in FromClient : Gate_Handled[UpC[x]] = ForGate[x]
  /\ \A x \in FromClient : Gate_SentUp[UpC[x]] = ForEach(ForCenter[x], UpS)
  /\ \A m \in Message : Gate_SentDown[DownS[m]] = DownC[m]
  /\ \A m \in Message : Center_Handled[UpS[m]] = OfGuest[m]
  /\ \A m \in Message : Client_Handled[DownC[m]] = OfCenter[m]
  <1>1. \A o \in Byte, m \in Message :
          PacketC(o, m) \in Seq(Byte) /\ ReadsC(PacketC(o, m), o, m)
    BY PacketCReads DEF PacketOK
  <1>2. \A o, d \in Byte, m \in Message :
          PacketS(o, m, d) \in Seq(Byte) /\ ReadsS(PacketS(o, m, d), o, m, d)
    BY PacketSReads DEF PacketOK
  <1>3. \A x \in FromClient : x.msg \in Message
    BY DEF FromClient
  <1>4. ASSUME NEW x \in FromClient
        PROVE  Gate_Handled[UpC[x]] = ForGate[x] /\ Gate_SentUp[UpC[x]] = ForEach(ForCenter[x], UpS)
    <2> DEFINE m == x.msg
    <2>1. m \in Message
      BY <1>3
    <2>2. CASE x.to = "gate"
      <3> DEFINE b == PacketC(Gate, m)
      <3>1. UpC[x] = b /\ ForGate[x] = One(EntryOf(Guest, m)) /\ ForCenter[x] = << >>
        BY <2>2 DEF UpC, ForGate, ForCenter
      <3>2. b \in Seq(Byte) /\ ReadsC(b, Gate, m)
        BY <1>1, <2>1, Addresses
      <3> HIDE DEF b, m
      <3>3. Gate_Handled[b] = One(EntryOf(Guest, m))
        BY <3>2 DEF Gate_Handled, ReadsC, One, EntryOf
      <3>4. Gate_SentUp[b] = << >>
        BY <3>2 DEF Gate_SentUp, ReadsC
      <3> QED  BY <3>1, <3>3, <3>4, ForEachEmpty
    <2>3. CASE x.to # "gate"
      <3> DEFINE b == PacketC(Center, m)
      <3>1. UpC[x] = b /\ ForGate[x] = << >> /\ ForCenter[x] = One(m)
        BY <2>3 DEF UpC, ForGate, ForCenter
      <3>2. b \in Seq(Byte) /\ ReadsC(b, Center, m)
        BY <1>1, <2>1, Addresses
      <3>3. RelayUp(b, Guest, Center) = PacketS(Guest, m, Center)
        <4>1. RelayUp(PacketC(Center, m), Guest, Center) = PacketS(Guest, m, Center)
          BY <2>1, Addresses, PacketSIs
        <4> QED  BY <4>1
      <3> HIDE DEF b, m
      <3>4. Gate_Handled[b] = << >>
        BY <3>2, Addresses DEF Gate_Handled, ReadsC
      <3>5. Gate_SentUp[b] = PacketS(Guest, m, Center)
        BY <3>2, <3>3, Addresses DEF Gate_SentUp, ReadsC
      <3>6. ForEach(One(m), UpS) = UpS[m]
        BY <2>1, PacketsInFlight, PacketsAre, ForEachOne
      <3>7. UpS[m] = PacketS(Guest, m, Center)
        BY <2>1 DEF UpS
      <3> QED  BY <3>1, <3>4, <3>5, <3>6, <3>7
    <2> QED  BY <2>2, <2>3
  <1>5. ASSUME NEW m \in Message PROVE Gate_SentDown[DownS[m]] = DownC[m]
    <2> DEFINE b == PacketS(Center, m, Client)
    <2>1. b \in Seq(Byte) /\ ReadsS(b, Center, m, Client)
      BY <1>2, Addresses
    <2>2. DownS[m] = b /\ DownC[m] = PacketC(Center, m)
      BY DEF DownS, DownC
    <2> HIDE DEF b
    <2> QED  BY <2>1, <2>2 DEF Gate_SentDown, ReadsS
  <1>6. ASSUME NEW m \in Message PROVE Center_Handled[UpS[m]] = OfGuest[m]
    <2> DEFINE b == PacketS(Guest, m, Center)
    <2>1. b \in Seq(Byte) /\ ReadsS(b, Guest, m, Center)
      BY <1>2, Addresses
    <2>2. UpS[m] = b /\ OfGuest[m] = One(EntryOf(Guest, m))
      BY DEF UpS, OfGuest
    <2> HIDE DEF b
    <2> QED  BY <2>1, <2>2 DEF Center_Handled, ReadsS, One, EntryOf
  <1>7. ASSUME NEW m \in Message PROVE Client_Handled[DownC[m]] = OfCenter[m]
    <2> DEFINE b == PacketC(Center, m)
    <2>1. b \in Seq(Byte) /\ ReadsC(b, Center, m)
      BY <1>1, Addresses
    <2>2. DownC[m] = b /\ OfCenter[m] = One(EntryOf(Center, m))
      BY DEF DownC, OfCenter
    <2> HIDE DEF b
    <2> QED  BY <2>1, <2>2 DEF Client_Handled, ReadsC, One, EntryOf
  <1> QED  BY <1>4, <1>5, <1>6, <1>7

\* A packet written behind those in flight.
LEMMA WrittenBehind ==
  ASSUME NEW X, NEW enc, Maps(enc, X, Seq(Byte)), NEW q \in Seq(X), NEW n \in Seq(X),
         NEW e \in Seq(Byte), NEW w \in Seq(Byte), Stream(e, w, q, enc)
  PROVE  Stream(e, w \o ForEach(n, enc), q \o n, enc)
  <1>1. ForEach(n, enc) \in Seq(Byte)
    BY ForEachType
  <1>2. (e \o w) \o ForEach(n, enc) = e \o (w \o ForEach(n, enc))
    BY <1>1, BytesAssociative
  <1>3. ForEach(q \o n, enc) = ForEach(q, enc) \o ForEach(n, enc)
    BY ForEachConcat
  <1>4. e \o w = ForEach(q, enc)
    BY DEF Stream
  <1> QED  BY <1>2, <1>3, <1>4 DEF Stream

\* What was handled moves from the front of what is in flight.
LEMMA HandledMoves ==
  ASSUME NEW A, NEW T, NEW f, Maps(f, A, Seq(T)), NEW r \in Seq(A), NEW t \in Seq(A),
         NEW g \in Seq(T)
  PROVE  g \o ForEach(r \o t, f) = (g \o ForEach(r, f)) \o ForEach(t, f)
  <1>1. ForEach(r, f) \in Seq(T)
    BY ForEachType
  <1>2. ForEach(t, f) \in Seq(T)
    BY ForEachType
  <1>3. ForEach(r \o t, f) = ForEach(r, f) \o ForEach(t, f)
    BY ForEachConcat
  <1>4. (g \o ForEach(r, f)) \o ForEach(t, f) = g \o (ForEach(r, f) \o ForEach(t, f))
    BY <1>1, <1>2, ConcatAssociative, SMTT(40)
  <1> QED  BY <1>3, <1>4

LEMMA HandledFirst ==
  ASSUME NEW A, NEW T, NEW f, Maps(f, A, Seq(T)), NEW r \in Seq(A), NEW t \in Seq(A),
         NEW z \in Seq(A), NEW g \in Seq(T)
  PROVE  g \o ForEach((r \o t) \o z, f) = (g \o ForEach(r, f)) \o ForEach(t \o z, f)
  <1> DEFINE y == t \o z
  <1>1. y \in Seq(A)
    BY ConcatProperties
  <1>2. (r \o t) \o z = r \o y
    BY ConcatAssociative, SMTT(40)
  <1> HIDE DEF y
  <1>3. g \o ForEach(r \o y, f) = (g \o ForEach(r, f)) \o ForEach(y, f)
    BY <1>1, HandledMoves, SMTT(40)
  <1> QED  BY <1>2, <1>3 DEF y

\* What is in a stream comes out of it by ReadMessage, from its front.
Taking(l, q, r, t, enc) ==
  /\ r \in Seq(DOMAIN enc) /\ t \in Seq(DOMAIN enc) /\ q = r \o t
  /\ ReadMessage(evbuf[l]).queue = Each(r, enc)
  /\ ReadMessage(evbuf[l]).evbuf \in Seq(Byte)
  /\ ReadMessage(evbuf[l]).evbuf \o wire[l] = ForEach(t, enc)

LEMMA Reading ==
  ASSUME TypeOK, NEW l \in Link, NEW enc, Packets(enc), NEW q \in Seq(DOMAIN enc),
         Carries(l, q, enc)
  PROVE  \E r, t : Taking(l, q, r, t, enc)
  <1>1. evbuf[l] \in Seq(Byte) /\ wire[l] \in Seq(Byte)
    BY DEF TypeOK
  <1>2. evbuf[l] \o wire[l] = ForEach(q, enc)
    BY DEF Carries, Stream
  <1>3. Taken(q, enc, wire[l], ReadMessage(evbuf[l]))
    BY <1>1, <1>2, ReadMessageTakes
  <1> QED  BY <1>3 DEF Taken, Taking, Loop

LEMMA Writing ==
  ASSUME TypeOK, NEW l \in Link, NEW b \in Seq(Byte), Write(l, b)
  PROVE  /\ wire' \in [Link -> Seq(Byte)] /\ wire'[l] = wire[l] \o b
         /\ \A k \in Link \ {l} : wire'[k] = wire[k]
  <1>1. wire \in [Link -> Seq(Byte)] /\ wire[l] \in Seq(Byte)
    BY DEF TypeOK
  <1>2. wire[l] \o b \in Seq(Byte)
    BY <1>1, BytesConcat
  <1>3. wire' = [wire EXCEPT ![l] = wire[l] \o b]
    BY DEF Write
  <1> QED  BY <1>1, <1>2, <1>3

LEMMA Consuming ==
  ASSUME TypeOK, NEW l \in Link, NEW read, read.evbuf \in Seq(Byte), Consume(l, read)
  PROVE  /\ evbuf' \in [Link -> Seq(Byte)] /\ evbuf'[l] = read.evbuf
         /\ \A k \in Link \ {l} : evbuf'[k] = evbuf[k]
         /\ sent' = sent
  BY DEF TypeOK, Consume

LEMMA Handling ==
  ASSUME TypeOK, NEW p \in Receiver, NEW h \in Seq(Entry), Handle(p, h)
  PROVE  /\ got' \in [Receiver -> Seq(Entry)] /\ got'[p] = got[p] \o h
         /\ \A k \in Receiver \ {p} : got'[k] = got[k]
  <1>1. got \in [Receiver -> Seq(Entry)] /\ got[p] \in Seq(Entry)
    BY DEF TypeOK, Entry
  <1>2. got[p] \o h \in Seq(Entry)
    BY <1>1, ConcatProperties
  <1>3. got' = [got EXCEPT ![p] = got[p] \o h]
    BY DEF Handle
  <1> QED  BY <1>1, <1>2, <1>3

\* TypeOK with the names of this module.
LEMMA Types ==
  TypeOK <=> /\ wire \in [Link -> Seq(Byte)] /\ evbuf \in [Link -> Seq(Byte)]
             /\ sent \in [Receiver -> Seq(Entry)] /\ got \in [Receiver -> Seq(Entry)]
  BY DEF TypeOK, Entry

Links == "client>gate" \in Link /\ "gate>center" \in Link /\ "center>gate" \in Link
         /\ "gate>client" \in Link
LEMMA LinksAre == Links
  BY DEF Links, Link

\* At the start nothing is in flight.
LEMMA InitFlow == Init => IInv
  <1> SUFFICES ASSUME Init PROVE IInv
    OBVIOUS
  <1>1. << >> \in Seq(Byte) /\ << >> \in Seq(Entry) /\ << >> \o << >> = << >>
        /\ << >> \in Seq(FromClient) /\ << >> \in Seq(Message)
    BY EmptySeq, ConcatEmptySeq
  <1>2. TypeOK
    BY <1>1, Types DEF Init
  <1>3. \A f : ForEach(<< >>, f) = << >>
    BY ForEachEmpty
  <1>4. Flow(<< >>, << >>, << >>, << >>)
    BY <1>1, <1>3 DEF Flow, Carries, Stream, Init, Link, Receiver
  <1> QED  BY <1>2, <1>4 DEF IInv

\* The gate reads what the client sent: it handles what is for it, and what is for
\* the Center goes on.
LEMMA FrontEndFlow ==
  ASSUME TypeOK, NEW a, NEW b, NEW c, NEW d, Flow(a, b, c, d), Gate_OnMessage_FrontEnd
  PROVE  TypeOK' /\ \E t, n : Flow(t, n, c, d)'
  <1> DEFINE l == "client>gate"
             k == "gate>center"
             read == ReadMessage(evbuf[l])
  <1>1. PICK r, t : Taking(l, a, r, t, UpC)
    BY PacketsInFlight, Reading, LinksAre DEF Flow, Links
  <1>2. r \in Seq(FromClient) /\ t \in Seq(FromClient) /\ a = r \o t
    BY <1>1, PacketsInFlight DEF Taking
  <1>3. /\ read.queue = Each(r, UpC) /\ read.evbuf \in Seq(Byte)
        /\ read.evbuf \o wire[l] = ForEach(t, UpC)
    BY <1>1 DEF Taking
  <1> DEFINE n == ForEach(r, ForCenter)
             H == ForEach(r, ForGate)
             up == ForEach(n, UpS)
  <1>4. n \in Seq(Message) /\ H \in Seq(Entry)
    BY <1>2, ContentTypes, ForEachType
  <1>5. Maps(UpS, Message, Seq(Byte)) /\ Maps(UpC, FromClient, Seq(Byte))
    BY PacketsInFlight, PacketsAre
  <1>6. up \in Seq(Byte)
    BY <1>4, <1>5, ForEachType
  <1>7. ForEach(read.queue, Gate_Handled) = H
    BY <1>2, <1>3, HandlersRead, ForEachEach
  <1>8. ForEach(read.queue, Gate_SentUp) = up
    <2> DEFINE h == [x \in FromClient |-> ForEach(ForCenter[x], UpS)]
    <2>1. \A x \in FromClient : h[x] = ForEach(ForCenter[x], UpS) /\ Gate_SentUp[UpC[x]] = h[x]
      BY HandlersRead
    <2> HIDE DEF h
    <2>2. ForEach(Each(r, UpC), Gate_SentUp) = ForEach(r, h)
      BY <1>2, <2>1, ForEachEach
    <2>3. ForEach(n, UpS) = ForEach(r, h)
      <3>1. Maps(ForCenter, FromClient, Seq(Message))
        BY ContentTypes
      <3>2. Maps(UpS, Message, Seq(Byte))
        BY <1>5
      <3>3. \A x \in FromClient : h[x] = ForEach(ForCenter[x], UpS)
        BY <2>1
      <3>4. \A z \in Seq(FromClient) : ForEach(ForEach(z, ForCenter), UpS) = ForEach(z, h)
        BY <3>1, <3>2, <3>3, ForEachForEach
      <3> QED  BY <1>2, <3>4
    <2> QED  BY <1>3, <2>2, <2>3
  <1> HIDE DEF read, n, H, up
  <1>9. Consume(l, read) /\ Handle("gate", H) /\ Write(k, up)
    BY <1>7, <1>8 DEF Gate_OnMessage_FrontEnd, read
  <1>10. /\ evbuf' \in [Link -> Seq(Byte)] /\ evbuf'[l] = read.evbuf /\ sent' = sent
         /\ \A i \in Link \ {l} : evbuf'[i] = evbuf[i]
    BY <1>3, <1>9, Consuming, LinksAre DEF Links
  <1>11. /\ wire' \in [Link -> Seq(Byte)] /\ wire'[k] = wire[k] \o up
         /\ \A i \in Link \ {k} : wire'[i] = wire[i]
    BY <1>6, <1>9, Writing, LinksAre DEF Links
  <1>12. /\ got' \in [Receiver -> Seq(Entry)] /\ got'["gate"] = got["gate"] \o H
         /\ got'["center"] = got["center"] /\ got'["client"] = got["client"]
    BY <1>4, <1>9, Handling DEF Receiver
  <1>13. TypeOK'
    BY <1>10, <1>11, <1>12, Types DEF TypeOK, Entry
  <1>14. Carries(l, t, UpC)'
    BY <1>3, <1>10, <1>11 DEF Carries, Stream, Link
  <1>15. Carries(k, b \o n, UpS)'
    <2>1. evbuf[k] \in Seq(Byte)
      BY Types DEF Link
    <2>2. wire[k] \in Seq(Byte)
      BY Types DEF Link
    <2>3. Stream(evbuf[k], wire[k], b, UpS)
      BY DEF Flow, Carries
    <2>4. b \in Seq(Message)
      BY DEF Flow
    <2>5. Stream(evbuf[k], wire[k] \o ForEach(n, UpS), b \o n, UpS)
      BY <1>4, <1>5, <2>1, <2>2, <2>3, <2>4, WrittenBehind
    <2> QED  BY <1>10, <1>11, <2>5 DEF Carries, Link, up
  <1>16. Carries("center>gate", c, DownS)' /\ Carries("gate>client", d, DownC)'
    BY <1>10, <1>11 DEF Flow, Carries, Link
  <1>17. (sent["gate"] = got["gate"] \o ForEach(t, ForGate))'
    <2>1. sent["gate"] = got["gate"] \o ForEach(r \o t, ForGate)
      BY <1>2 DEF Flow
    <2>2. got["gate"] \in Seq(Entry)
      BY Types DEF Receiver
    <2>3. got["gate"] \o ForEach(r \o t, ForGate) = (got["gate"] \o H) \o ForEach(t, ForGate)
      <3> DEFINE g == got["gate"]
      <3>1. Maps(ForGate, FromClient, Seq(Entry))
        BY ContentTypes
      <3>2. g \in Seq(Entry)
        BY <2>2
      <3>3. r \in Seq(FromClient)
        BY <1>2
      <3>4. t \in Seq(FromClient)
        BY <1>2
      <3> HIDE DEF g
      <3>5. g \o ForEach(r \o t, ForGate) = (g \o ForEach(r, ForGate)) \o ForEach(t, ForGate)
        BY <3>1, <3>2, <3>3, <3>4, HandledMoves, SMTT(40)
      <3> QED  BY <3>5 DEF g, H
    <2> QED  BY <1>10, <1>12, <2>1, <2>3
  <1>18. b \o ForEach(a, ForCenter) = (b \o n) \o ForEach(t, ForCenter)
    <2>1. b \in Seq(Message)
      BY DEF Flow
    <2> QED  BY <1>2, <2>1, ContentTypes, HandledMoves, SMTT(40) DEF n
  <1>19. b \o n \in Seq(Message) /\ {c, d} \subseteq Seq(Message)
    BY <1>4, ConcatProperties DEF Flow
  <1>20. Flow(t, b \o n, c, d)'
    BY <1>2, <1>10, <1>12, <1>14, <1>15, <1>16, <1>17, <1>18, <1>19 DEF Flow
  <1> QED  BY <1>13, <1>20

\* The gate reads what the Center sent, and passes it on to the client.
LEMMA BackEndFlow ==
  ASSUME TypeOK, NEW a, NEW b, NEW c, NEW d, Flow(a, b, c, d), Gate_OnMessage_BackEnd
  PROVE  TypeOK' /\ \E t, n : Flow(a, b, t, n)'
  <1> DEFINE l == "center>gate"
             k == "gate>client"
             read == ReadMessage(evbuf[l])
  <1>1. PICK r, t : Taking(l, c, r, t, DownS)
    BY PacketsInFlight, Reading, LinksAre DEF Flow, Links
  <1>2. r \in Seq(Message) /\ t \in Seq(Message) /\ c = r \o t
    BY <1>1, PacketsInFlight DEF Taking
  <1>3. /\ read.queue = Each(r, DownS) /\ read.evbuf \in Seq(Byte)
        /\ read.evbuf \o wire[l] = ForEach(t, DownS)
    BY <1>1 DEF Taking
  <1> DEFINE down == ForEach(r, DownC)
  <1>4. Maps(DownC, Message, Seq(Byte))
    BY PacketsInFlight, PacketsAre
  <1>5. down \in Seq(Byte)
    BY <1>2, <1>4, ForEachType
  <1>6. ForEach(read.queue, Gate_SentDown) = down
    BY <1>2, <1>3, HandlersRead, ForEachEach
  <1> HIDE DEF read, down
  <1>7. Consume(l, read) /\ Write(k, down) /\ got' = got
    BY <1>6 DEF Gate_OnMessage_BackEnd, read
  <1>8. /\ evbuf' \in [Link -> Seq(Byte)] /\ evbuf'[l] = read.evbuf /\ sent' = sent
        /\ \A i \in Link \ {l} : evbuf'[i] = evbuf[i]
    BY <1>3, <1>7, Consuming, LinksAre DEF Links
  <1>9. /\ wire' \in [Link -> Seq(Byte)] /\ wire'[k] = wire[k] \o down
        /\ \A i \in Link \ {k} : wire'[i] = wire[i]
    BY <1>5, <1>7, Writing, LinksAre DEF Links
  <1>10. TypeOK'
    BY <1>7, <1>8, <1>9, Types DEF TypeOK, Entry
  <1>11. Carries(l, t, DownS)'
    BY <1>3, <1>8, <1>9 DEF Carries, Stream, Link
  <1>12. Carries(k, d \o r, DownC)'
    <2>1. evbuf[k] \in Seq(Byte)
      BY Types DEF Link
    <2>2. wire[k] \in Seq(Byte)
      BY Types DEF Link
    <2>3. Stream(evbuf[k], wire[k], d, DownC)
      BY DEF Flow, Carries
    <2>4. d \in Seq(Message) /\ r \in Seq(Message)
      BY <1>2 DEF Flow
    <2>5. Stream(evbuf[k], wire[k] \o ForEach(r, DownC), d \o r, DownC)
      BY <1>4, <2>1, <2>2, <2>3, <2>4, WrittenBehind
    <2> QED  BY <1>8, <1>9, <2>5 DEF Carries, Link, down
  <1>13. Carries("client>gate", a, UpC)' /\ Carries("gate>center", b, UpS)'
    BY <1>8, <1>9 DEF Flow, Carries, Link
  <1>14. d \o c = (d \o r) \o t /\ d \o r \in Seq(Message)
    <2>1. d \in Seq(Message)
      BY DEF Flow
    <2>2. (d \o r) \o t = d \o (r \o t)
      BY <1>2, <2>1, ConcatAssociative
    <2> QED  BY <1>2, <2>1, <2>2, ConcatProperties
  <1>15. Flow(a, b, t, d \o r)'
    BY <1>2, <1>7, <1>8, <1>11, <1>12, <1>13, <1>14 DEF Flow
  <1> QED  BY <1>10, <1>15

\* The Center reads what the gate passed on, and handles it.
LEMMA CenterFlow ==
  ASSUME TypeOK, NEW a, NEW b, NEW c, NEW d, Flow(a, b, c, d), Center_OnMessage
  PROVE  TypeOK' /\ \E t : Flow(a, t, c, d)'
  <1> DEFINE l == "gate>center"
             read == ReadMessage(evbuf[l])
             z == ForEach(a, ForCenter)
  <1>1. PICK r, t : Taking(l, b, r, t, UpS)
    BY PacketsInFlight, Reading, LinksAre DEF Flow, Links
  <1>2. r \in Seq(Message) /\ t \in Seq(Message) /\ b = r \o t
    BY <1>1, PacketsInFlight DEF Taking
  <1>3. /\ read.queue = Each(r, UpS) /\ read.evbuf \in Seq(Byte)
        /\ read.evbuf \o wire[l] = ForEach(t, UpS)
    BY <1>1 DEF Taking
  <1> DEFINE H == ForEach(r, OfGuest)
  <1>4. H \in Seq(Entry)
    BY <1>2, ContentTypes, ForEachType
  <1>5. ForEach(read.queue, Center_Handled) = H
    BY <1>2, <1>3, HandlersRead, ForEachEach
  <1>6. z \in Seq(Message)
    BY ContentTypes, ForEachType DEF Flow
  <1> HIDE DEF read, H, z
  <1>7. Consume(l, read) /\ Handle("center", H) /\ wire' = wire
    BY <1>5 DEF Center_OnMessage, read
  <1>8. /\ evbuf' \in [Link -> Seq(Byte)] /\ evbuf'[l] = read.evbuf /\ sent' = sent
        /\ \A i \in Link \ {l} : evbuf'[i] = evbuf[i]
    BY <1>3, <1>7, Consuming, LinksAre DEF Links
  <1>9. /\ got' \in [Receiver -> Seq(Entry)] /\ got'["center"] = got["center"] \o H
        /\ got'["gate"] = got["gate"] /\ got'["client"] = got["client"]
    BY <1>4, <1>7, Handling DEF Receiver
  <1>10. TypeOK'
    BY <1>7, <1>8, <1>9, Types DEF TypeOK, Entry
  <1>11. Carries(l, t, UpS)'
    BY <1>3, <1>7, <1>8 DEF Carries, Stream, Link
  <1>12. /\ Carries("client>gate", a, UpC)' /\ Carries("center>gate", c, DownS)'
         /\ Carries("gate>client", d, DownC)'
    BY <1>7, <1>8 DEF Flow, Carries, Link
  <1>13. (sent["center"] = got["center"] \o ForEach(t \o z, OfGuest))'
    <2>1. r \in Seq(Message) /\ t \in Seq(Message)
      BY <1>2
    <2>2. got["center"] \in Seq(Entry)
      BY Types DEF Receiver
    <2>3. Maps(OfGuest, Message, Seq(Entry))
      BY ContentTypes
    <2>4. got["center"] \o ForEach((r \o t) \o z, OfGuest)
            = (got["center"] \o ForEach(r, OfGuest)) \o ForEach(t \o z, OfGuest)
      <3> DEFINE g == got["center"]
      <3>1. g \in Seq(Entry)
        BY <2>2
      <3> HIDE DEF g
      <3>2. g \o ForEach((r \o t) \o z, OfGuest)
              = (g \o ForEach(r, OfGuest)) \o ForEach(t \o z, OfGuest)
        BY <1>6, <2>1, <2>3, <3>1, HandledFirst, SMTT(40)
      <3> QED  BY <3>2 DEF g
    <2>5. sent["center"] = got["center"] \o ForEach((r \o t) \o z, OfGuest)
      BY <1>2 DEF Flow, z
    <2> QED  BY <1>8, <1>9, <2>4, <2>5 DEF H
  <1>14. Flow(a, t, c, d)'
    BY <1>2, <1>8, <1>9, <1>11, <1>12, <1>13 DEF Flow, z
  <1> QED  BY <1>10, <1>14

\* The client reads what the gate passed on, and handles it.
LEMMA ClientFlow ==
  ASSUME TypeOK, NEW a, NEW b, NEW c, NEW d, Flow(a, b, c, d), Client_OnMessage
  PROVE  TypeOK' /\ \E t : Flow(a, b, c, t)'
  <1> DEFINE l == "gate>client"
             read == ReadMessage(evbuf[l])
  <1>1. PICK r, t : Taking(l, d, r, t, DownC)
    BY PacketsInFlight, Reading, LinksAre DEF Flow, Links
  <1>2. r \in Seq(Message) /\ t \in Seq(Message) /\ d = r \o t
    BY <1>1, PacketsInFlight DEF Taking
  <1>3. /\ read.queue = Each(r, DownC) /\ read.evbuf \in Seq(Byte)
        /\ read.evbuf \o wire[l] = ForEach(t, DownC)
    BY <1>1 DEF Taking
  <1> DEFINE H == ForEach(r, OfCenter)
  <1>4. H \in Seq(Entry)
    BY <1>2, ContentTypes, ForEachType
  <1>5. ForEach(read.queue, Client_Handled) = H
    BY <1>2, <1>3, HandlersRead, ForEachEach
  <1> HIDE DEF read, H
  <1>6. Consume(l, read) /\ Handle("client", H) /\ wire' = wire
    BY <1>5 DEF Client_OnMessage, read
  <1>7. /\ evbuf' \in [Link -> Seq(Byte)] /\ evbuf'[l] = read.evbuf /\ sent' = sent
        /\ \A i \in Link \ {l} : evbuf'[i] = evbuf[i]
    BY <1>3, <1>6, Consuming, LinksAre DEF Links
  <1>8. /\ got' \in [Receiver -> Seq(Entry)] /\ got'["client"] = got["client"] \o H
        /\ got'["gate"] = got["gate"] /\ got'["center"] = got["center"]
    BY <1>4, <1>6, Handling DEF Receiver
  <1>9. TypeOK'
    BY <1>6, <1>7, <1>8, Types DEF TypeOK, Entry
  <1>10. Carries(l, t, DownC)'
    BY <1>3, <1>6, <1>7 DEF Carries, Stream, Link
  <1>11. /\ Carries("client>gate", a, UpC)' /\ Carries("gate>center", b, UpS)'
         /\ Carries("center>gate", c, DownS)'
    BY <1>6, <1>7 DEF Flow, Carries, Link
  <1>12. (sent["client"] = got["client"] \o ForEach(t \o c, OfCenter))'
    <2>1. r \in Seq(Message) /\ t \in Seq(Message) /\ c \in Seq(Message)
      BY <1>2 DEF Flow
    <2>2. got["client"] \in Seq(Entry)
      BY Types DEF Receiver
    <2>3. Maps(OfCenter, Message, Seq(Entry))
      BY ContentTypes
    <2>4. got["client"] \o ForEach((r \o t) \o c, OfCenter)
            = (got["client"] \o ForEach(r, OfCenter)) \o ForEach(t \o c, OfCenter)
      <3> DEFINE g == got["client"]
      <3>1. g \in Seq(Entry)
        BY <2>2
      <3> HIDE DEF g
      <3>2. g \o ForEach((r \o t) \o c, OfCenter)
              = (g \o ForEach(r, OfCenter)) \o ForEach(t \o c, OfCenter)
        BY <2>1, <2>3, <3>1, HandledFirst, SMTT(40)
      <3> QED  BY <3>2 DEF g
    <2>5. sent["client"] = got["client"] \o ForEach((r \o t) \o c, OfCenter)
      BY <1>2 DEF Flow
    <2> QED  BY <1>7, <1>8, <2>4, <2>5 DEF H
  <1>13. Flow(a, b, c, t)'
    BY <1>2, <1>7, <1>8, <1>10, <1>11, <1>12 DEF Flow
  <1> QED  BY <1>9, <1>13

\* Bytes that arrive only move from the wire to the evbuffer.
LEMMA ArriveFlow ==
  ASSUME TypeOK, NEW a, NEW b, NEW c, NEW d, Flow(a, b, c, d), NEW l \in Link, Arrive(l)
  PROVE  TypeOK' /\ Flow(a, b, c, d)'
  <1>1. PICK n \in 1 .. Len(wire[l]) :
          /\ evbuf' = [evbuf EXCEPT ![l] = evbuf[l] \o SubSeq(wire[l], 1, n)]
          /\ wire' = [wire EXCEPT ![l] = SubSeq(wire[l], n + 1, Len(wire[l]))]
          /\ sent' = sent /\ got' = got
    BY DEF Arrive
  <1> DEFINE w == wire[l]
             e == evbuf[l]
             x == SubSeq(w, 1, n)
             y == SubSeq(w, n + 1, Len(w))
  <1>2. w \in Seq(Byte) /\ e \in Seq(Byte)
    BY Types
  <1>3. n \in 1 .. Len(w) /\ Len(w) \in Nat
    BY <1>2, LenProperties
  <1> HIDE DEF w, e
  <1>4. x \o y = w
    <2>1. 1 \in 1 .. Len(w) + 1 /\ n \in 1 - 1 .. Len(w) /\ Len(w) \in n .. Len(w)
      BY <1>3
    <2>2. SubSeq(w, 1, n) \o SubSeq(w, n + 1, Len(w)) = SubSeq(w, 1, Len(w))
      BY <1>2, <2>1, ConcatAdjacentSubSeq
    <2> QED  BY <1>2, <2>2, SubSeqFull
  <1>5. x \in Seq(Byte) /\ y \in Seq(Byte)
    <2>1. \A i \in 1 .. n : w[i] \in Byte
      BY <1>2, <1>3, ElementOfSeq
    <2>2. \A i \in (n + 1) .. Len(w) : w[i] \in Byte
      BY <1>2, <1>3, ElementOfSeq
    <2> QED  BY <1>3, <2>1, <2>2, SubSeqProperties
  <1> HIDE DEF x, y
  <1>6. (e \o x) \o y = e \o w /\ e \o x \in Seq(Byte)
    BY <1>2, <1>4, <1>5, BytesAssociative, BytesConcat, ZenonT(60)
  <1>7. /\ evbuf' = [evbuf EXCEPT ![l] = e \o x]
        /\ wire' = [wire EXCEPT ![l] = y]
    BY <1>1 DEF w, e, x, y
  <1>8. TypeOK'
    BY <1>1, <1>5, <1>6, <1>7, Types, ZenonT(60) DEF TypeOK, Entry
  <1>9. \A k \in Link : evbuf'[k] \o wire'[k] = evbuf[k] \o wire[k]
    BY <1>6, <1>7, Types DEF e, w
  <1>10. ASSUME NEW k \in Link, NEW q, NEW enc, Carries(k, q, enc)
         PROVE  Carries(k, q, enc)'
    BY <1>9, <1>10 DEF Carries, Stream
  <1>11. Flow(a, b, c, d)'
    BY <1>1, <1>10, LinksAre DEF Flow, Links
  <1> QED  BY <1>8, <1>11

\* What is sent comes last.
SentBehind(g, q, x, f) == g \o ForEach(q \o One(x), f) = (g \o ForEach(q, f)) \o f[x]

LEMMA SentLast ==
  ASSUME NEW A, NEW T, NEW f, Maps(f, A, Seq(T)), NEW q \in Seq(A), NEW x \in A,
         NEW g \in Seq(T)
  PROVE  SentBehind(g, q, x, f)
  <1>1. ForEach(q, f) \in Seq(T)
    BY ForEachType
  <1>2. f[x] \in Seq(T)
    BY DEF Maps
  <1>3. ForEach(q \o One(x), f) = ForEach(q, f) \o f[x]
    BY ForEachLast
  <1>4. (g \o ForEach(q, f)) \o f[x] = g \o (ForEach(q, f) \o f[x])
    <2> DEFINE u == f[x]
               v == ForEach(q, f)
    <2>1. u \in Seq(T) /\ v \in Seq(T)
      BY <1>1, <1>2
    <2> HIDE DEF u, v
    <2>2. (g \o v) \o u = g \o (v \o u)
      BY <2>1, ConcatAssociative, SMTT(40)
    <2> QED  BY <2>2 DEF u, v
  <1> QED  BY <1>3, <1>4 DEF SentBehind

\* A packet that is sent goes behind those in flight, and among what was sent.
LEMMA SendFlow ==
  ASSUME TypeOK, NEW a, NEW b, NEW c, NEW d, Flow(a, b, c, d), NEW m \in Message,
         Client_SendPacket(m) \/ Center_SendPacket(m)
  PROVE  TypeOK' /\ \E x, y : Flow(x, b, y, d)'
  <1>1. m \in Message /\ evbuf \in [Link -> Seq(Byte)] /\ wire \in [Link -> Seq(Byte)]
    BY Types
  <1>2. ASSUME NEW p \in Receiver, NEW o \in Byte, Send(p, o, m)
        PROVE  /\ sent' \in [Receiver -> Seq(Entry)] /\ evbuf' = evbuf /\ got' = got
               /\ sent'[p] = sent[p] \o One(EntryOf(o, m))
               /\ \A k \in Receiver \ {p} : sent'[k] = sent[k]
    <2>1. EntryOf(o, m) \in Entry /\ sent[p] \in Seq(Entry)
      BY Types DEF EntryOf, Entry
    <2>2. /\ Append(sent[p], EntryOf(o, m)) \in Seq(Entry)
          /\ Append(sent[p], EntryOf(o, m)) = sent[p] \o One(EntryOf(o, m))
      BY <2>1, AppendProperties, AppendIsConcat DEF One
    <2>3. sent' = [sent EXCEPT ![p] = Append(sent[p], EntryOf(o, m))]
      BY <1>2 DEF Send, EntryOf
    <2>4. sent \in [Receiver -> Seq(Entry)]
      BY Types
    <2>5. evbuf' = evbuf /\ got' = got
      BY <1>2 DEF Send
    <2> QED  BY <2>2, <2>3, <2>4, <2>5
  <1>3. ASSUME NEW l \in Link, NEW X, NEW enc, Maps(enc, X, Seq(Byte)), NEW q \in Seq(X),
               NEW x \in X, Carries(l, q, enc), Write(l, enc[x]), evbuf' = evbuf
        PROVE  /\ wire' \in [Link -> Seq(Byte)] /\ Carries(l, q \o One(x), enc)'
               /\ \A k \in Link \ {l} : wire'[k] = wire[k]
    <2>1. enc[x] \in Seq(Byte)
      BY <1>3 DEF Maps
    <2>2. /\ wire' \in [Link -> Seq(Byte)] /\ wire'[l] = wire[l] \o enc[x]
          /\ \A k \in Link \ {l} : wire'[k] = wire[k]
      BY <1>3, <2>1, Writing
    <2>3. ForEach(One(x), enc) = enc[x]
      BY <1>3, ForEachOne
    <2>4. One(x) \in Seq(X)
      BY OneIs
    <2>5. evbuf[l] \in Seq(Byte) /\ wire[l] \in Seq(Byte)
      BY Types
    <2>6. Stream(evbuf[l], wire[l], q, enc)
      BY <1>3 DEF Carries
    <2>7. Stream(evbuf[l], wire[l] \o ForEach(One(x), enc), q \o One(x), enc)
      BY <1>3, <2>4, <2>5, <2>6, WrittenBehind
    <2> QED  BY <1>3, <2>2, <2>3, <2>7 DEF Carries
  <1>4. /\ a \in Seq(FromClient) /\ b \in Seq(Message) /\ c \in Seq(Message) /\ d \in Seq(Message)
        /\ Carries("client>gate", a, UpC) /\ Carries("gate>center", b, UpS)
        /\ Carries("center>gate", c, DownS) /\ Carries("gate>client", d, DownC)
    BY DEF Flow
  <1>5. /\ Maps(UpC, FromClient, Seq(Byte)) /\ Maps(DownS, Message, Seq(Byte))
    BY PacketsInFlight, PacketsAre
  <1> DEFINE z == ForEach(a, ForCenter)
             G == got["gate"]
             M == got["center"]
             C == got["client"]
  <1>6. G \in Seq(Entry) /\ M \in Seq(Entry) /\ C \in Seq(Entry)
    BY Types DEF Receiver
  <1>7. /\ sent["gate"] = G \o ForEach(a, ForGate) /\ sent["center"] = M \o ForEach(b \o z, OfGuest)
        /\ sent["client"] = C \o ForEach(d \o c, OfCenter)
    BY DEF Flow
  <1>8. z \in Seq(Message) /\ b \o z \in Seq(Message) /\ d \o c \in Seq(Message)
    <2>1. z \in Seq(Message)
      BY <1>4, ContentTypes, ForEachType
    <2> HIDE DEF z
    <2> QED  BY <1>4, <2>1, ConcatProperties
  <1> HIDE DEF z, G, M, C
  <1>9. ASSUME NEW x \in FromClient, x.msg = m,
               Send(x.to, Guest, m), Write("client>gate", UpC[x])
        PROVE  TypeOK' /\ Flow(a \o One(x), b, c, d)'
    <2>1. x.to \in {"gate", "center"} /\ x.to \in Receiver
      BY DEF FromClient, Receiver
    <2>2. /\ sent' \in [Receiver -> Seq(Entry)] /\ evbuf' = evbuf /\ got' = got
          /\ sent'[x.to] = sent[x.to] \o One(EntryOf(Guest, m))
          /\ \A k \in Receiver \ {x.to} : sent'[k] = sent[k]
      BY <1>2, <1>9, <2>1, Addresses
    <2>3. /\ wire' \in [Link -> Seq(Byte)] /\ Carries("client>gate", a \o One(x), UpC)'
          /\ \A k \in Link \ {"client>gate"} : wire'[k] = wire[k]
      BY <1>3, <1>4, <1>5, <1>9, <2>2, LinksAre DEF Links
    <2>4. TypeOK'
      BY <2>2, <2>3, Types DEF TypeOK, Entry
    <2>5. /\ Carries("gate>center", b, UpS)' /\ Carries("center>gate", c, DownS)'
          /\ Carries("gate>client", d, DownC)'
      BY <1>4, <2>2, <2>3 DEF Carries, Link
    <2>6. a \o One(x) \in Seq(FromClient)
      BY <1>4, OneIs, ConcatProperties
    <2>7. ForEach(a \o One(x), ForCenter) = z \o ForCenter[x]
      BY <1>4, ContentTypes, ForEachLast DEF z
    <2>8. G \o ForEach(a \o One(x), ForGate) = sent["gate"] \o ForGate[x]
      <3>1. Maps(ForGate, FromClient, Seq(Entry))
        BY ContentTypes
      <3>2. SentBehind(G, a, x, ForGate)
        BY <1>4, <1>6, <3>1, SentLast
      <3> QED  BY <1>7, <3>2 DEF SentBehind
    <2>9. CASE x.to = "gate"
      <3>1. ForGate[x] = One(EntryOf(Guest, m)) /\ ForCenter[x] = << >>
        BY <1>9, <2>9 DEF ForGate, ForCenter
      <3>2. ForEach(a \o One(x), ForCenter) = z
        BY <1>8, <2>7, <3>1, ConcatEmptySeq
      <3>3. sent'["gate"] = G \o ForEach(a \o One(x), ForGate)
        BY <2>2, <2>8, <2>9, <3>1
      <3>4. /\ sent'["center"] = M \o ForEach(b \o z, OfGuest)
            /\ sent'["client"] = C \o ForEach(d \o c, OfCenter)
        BY <1>7, <2>2, <2>9 DEF Receiver
      <3> QED  BY <1>4, <2>2, <2>3, <2>4, <2>5, <2>6, <3>2, <3>3, <3>4 DEF Flow, G, M, C
    <2>10. CASE x.to = "center"
      <3>1. ForGate[x] = << >> /\ ForCenter[x] = One(m)
        BY <1>9, <2>10 DEF ForGate, ForCenter
      <3>2. sent["gate"] \in Seq(Entry) /\ sent["gate"] \o << >> = sent["gate"]
        BY Types, ConcatEmptySeq DEF Receiver
      <3>3. sent'["gate"] = G \o ForEach(a \o One(x), ForGate)
        BY <2>2, <2>8, <2>10, <3>1, <3>2 DEF Receiver
      <3>4. b \o (z \o One(m)) = (b \o z) \o One(m)
        <4>1. One(m) \in Seq(Message)
          BY OneIs
        <4>2. b \in Seq(Message)
          BY <1>4
        <4>3. z \in Seq(Message)
          BY <1>8
        <4>4. (b \o z) \o One(m) = b \o (z \o One(m))
          BY <4>1, <4>2, <4>3, ConcatAssociative, SMTT(40)
        <4> QED  BY <4>4
      <3>5. M \o ForEach((b \o z) \o One(m), OfGuest) = sent["center"] \o OfGuest[m]
        <4> DEFINE y == b \o z
        <4>1. y \in Seq(Message)
          BY <1>8
        <4>2. Maps(OfGuest, Message, Seq(Entry))
          BY ContentTypes
        <4> HIDE DEF y
        <4>3. SentBehind(M, y, m, OfGuest)
          BY <1>6, <4>1, <4>2, SentLast
        <4> QED  BY <1>7, <4>3 DEF y, SentBehind
      <3>6. OfGuest[m] = One(EntryOf(Guest, m))
        BY DEF OfGuest
      <3>7. sent'["center"] = M \o ForEach(b \o ForEach(a \o One(x), ForCenter), OfGuest)
        BY <2>2, <2>7, <2>10, <3>1, <3>4, <3>5, <3>6
      <3>8. sent'["client"] = C \o ForEach(d \o c, OfCenter)
        BY <1>7, <2>2, <2>10 DEF Receiver
      <3> QED  BY <1>4, <2>2, <2>3, <2>4, <2>5, <2>6, <3>3, <3>7, <3>8 DEF Flow, G, M, C
    <2> QED  BY <2>1, <2>9, <2>10
  <1>10. ASSUME Client_SendPacket(m) PROVE TypeOK' /\ \E x : Flow(x, b, c, d)'
    <2> DEFINE x == [to |-> "gate", msg |-> m]
               y == [to |-> "center", msg |-> m]
    <2>1. /\ x \in FromClient /\ x.msg = m /\ x.to = "gate" /\ UpC[x] = PacketC(Gate, m)
          /\ y \in FromClient /\ y.msg = m /\ y.to = "center" /\ UpC[y] = PacketC(Center, m)
      BY DEF FromClient, UpC
    <2> HIDE DEF x, y
    <2>2. \/ Send("gate", Guest, m) /\ Write("client>gate", PacketC(Gate, m))
          \/ Send("center", Guest, m) /\ Write("client>gate", PacketC(Center, m))
      BY <1>10 DEF Client_SendPacket
    <2>3. CASE Send("gate", Guest, m) /\ Write("client>gate", PacketC(Gate, m))
      BY <1>9, <2>1, <2>3
    <2>4. CASE Send("center", Guest, m) /\ Write("client>gate", PacketC(Center, m))
      BY <1>9, <2>1, <2>4
    <2> QED  BY <2>2, <2>3, <2>4
  <1>11. ASSUME Center_SendPacket(m) PROVE TypeOK' /\ Flow(a, b, c \o One(m), d)'
    <2>1. Send("client", Center, m) /\ Write("center>gate", DownS[m])
      BY <1>11 DEF Center_SendPacket, DownS
    <2>2. /\ sent' \in [Receiver -> Seq(Entry)] /\ evbuf' = evbuf /\ got' = got
          /\ sent'["client"] = sent["client"] \o One(EntryOf(Center, m))
          /\ \A k \in Receiver \ {"client"} : sent'[k] = sent[k]
      BY <1>2, <2>1, Addresses DEF Receiver
    <2>3. /\ wire' \in [Link -> Seq(Byte)] /\ Carries("center>gate", c \o One(m), DownS)'
          /\ \A k \in Link \ {"center>gate"} : wire'[k] = wire[k]
      BY <1>3, <1>4, <1>5, <2>1, <2>2, LinksAre DEF Links
    <2>4. TypeOK'
      BY <2>2, <2>3, Types DEF TypeOK, Entry
    <2>5. /\ Carries("gate>center", b, UpS)' /\ Carries("client>gate", a, UpC)'
          /\ Carries("gate>client", d, DownC)'
      BY <1>4, <2>2, <2>3 DEF Carries, Link
    <2>6. One(m) \in Seq(Message)
      BY OneIs
    <2>7. c \o One(m) \in Seq(Message)
      BY <1>4, <2>6, ConcatProperties
    <2>8. d \o (c \o One(m)) = (d \o c) \o One(m)
      <3>1. (d \o c) \o One(m) = d \o (c \o One(m))
        BY <1>4, <2>6, ConcatAssociative, SMTT(40)
      <3> QED  BY <3>1
    <2>9. C \o ForEach((d \o c) \o One(m), OfCenter) = sent["client"] \o OfCenter[m]
      <3> DEFINE y == d \o c
      <3>1. y \in Seq(Message)
        BY <1>8
      <3>2. Maps(OfCenter, Message, Seq(Entry))
        BY ContentTypes
      <3> HIDE DEF y
      <3>3. SentBehind(C, y, m, OfCenter)
        BY <1>6, <3>1, <3>2, SentLast
      <3> QED  BY <1>7, <3>3 DEF y, SentBehind
    <2>10. OfCenter[m] = One(EntryOf(Center, m))
      BY DEF OfCenter
    <2>11. sent'["client"] = C \o ForEach(d \o (c \o One(m)), OfCenter)
      BY <2>2, <2>8, <2>9, <2>10
    <2>12. /\ sent'["gate"] = G \o ForEach(a, ForGate)
           /\ sent'["center"] = M \o ForEach(b \o z, OfGuest)
      BY <1>7, <2>2 DEF Receiver
    <2> QED  BY <1>4, <2>2, <2>3, <2>4, <2>5, <2>7, <2>11, <2>12 DEF Flow, G, M, C, z
  <1> QED  BY <1>10, <1>11

\* Every step keeps what is in flight in order: one lemma for each action above.
LEMMA StepFlow == IInv /\ [Next]_vars => IInv'
  <1> SUFFICES ASSUME IInv, [Next]_vars PROVE IInv'
    OBVIOUS
  <1>1. TypeOK
    BY DEF IInv
  <1>2. PICK a, b, c, d : Flow(a, b, c, d)
    BY DEF IInv
  <1>3. ASSUME NEW m \in Message, Client_SendPacket(m) \/ Center_SendPacket(m) PROVE IInv'
    <2>1. TypeOK' /\ \E x, y : Flow(x, b, y, d)'
      BY <1>1, <1>2, <1>3, SendFlow
    <2> QED  BY <2>1 DEF IInv
  <1>4. ASSUME NEW l \in Link, Arrive(l) PROVE IInv'
    <2>1. TypeOK' /\ Flow(a, b, c, d)'
      BY <1>1, <1>2, <1>4, ArriveFlow
    <2> QED  BY <2>1 DEF IInv
  <1>5. CASE Gate_OnMessage_FrontEnd
    <2>1. TypeOK' /\ \E t, n : Flow(t, n, c, d)'
      BY <1>1, <1>2, <1>5, FrontEndFlow
    <2> QED  BY <2>1 DEF IInv
  <1>6. CASE Gate_OnMessage_BackEnd
    <2>1. TypeOK' /\ \E t, n : Flow(a, b, t, n)'
      BY <1>1, <1>2, <1>6, BackEndFlow
    <2> QED  BY <2>1 DEF IInv
  <1>7. CASE Center_OnMessage
    <2>1. TypeOK' /\ \E t : Flow(a, t, c, d)'
      BY <1>1, <1>2, <1>7, CenterFlow
    <2> QED  BY <2>1 DEF IInv
  <1>8. CASE Client_OnMessage
    <2>1. TypeOK' /\ \E t : Flow(a, b, c, t)'
      BY <1>1, <1>2, <1>8, ClientFlow
    <2> QED  BY <2>1 DEF IInv
  <1>9. CASE UNCHANGED vars
    <2>1. TypeOK' /\ Flow(a, b, c, d)'
      BY <1>1, <1>2, <1>9 DEF vars, TypeOK, Flow, Carries, Stream
    <2> QED  BY <2>1 DEF IInv
  <1> QED  BY <1>3, <1>4, <1>5, <1>6, <1>7, <1>8, <1>9 DEF Next, OnMessage

\* The inductive invariant.
LEMMA Invariance == Spec => []IInv
  BY InitFlow, StepFlow, PTL DEF Spec

\* Whatever TCP makes of the streams, what is handled are messages that were sent, never
\* bytes of two of them (ReadMessage, is_valid, ForwardPacketOn*).
THEOREM PacketTypeCorrect == Spec => []TypeOK
  <1>1. IInv => TypeOK
    BY DEF IInv
  <1> QED  BY <1>1, Invariance, PTL

\* A sequence is a prefix of what it begins.
LEMMA PrefixOfConcat ==
  ASSUME NEW T, NEW s \in Seq(T), NEW t \in Seq(T)
  PROVE  IsPrefix(s, s \o t)
  <1>1. Len(s) \in Nat /\ Len(t) \in Nat /\ Len(s \o t) = Len(s) + Len(t)
    BY LenProperties, ConcatProperties
  <1>2. SubSeq(s \o t, 1, Len(s)) = s
    BY Halves
  <1>3. SubSeq(s, 1, Len(s)) = s
    BY SubSeqFull
  <1> QED  BY <1>1, <1>2, <1>3 DEF IsPrefix

\* The gate, the Center and the client handle what was sent to them, whole, in order,
\* once and with its owner: the relays of the gate reorder and duplicate nothing.
THEOREM PacketsInOrder == Spec => []InOrder
  <1>1. ASSUME IInv PROVE InOrder
    <2>1. PICK a, b, c, d : Flow(a, b, c, d)
      BY <1>1 DEF IInv
    <2>2. \A p \in Receiver : got[p] \in Seq(Entry)
      BY <1>1, Types DEF IInv
    <2>3. IsPrefix(got["gate"], sent["gate"])
      <3>1. ForEach(a, ForGate) \in Seq(Entry)
        BY <2>1, ContentTypes, ForEachType DEF Flow
      <3>2. got["gate"] \in Seq(Entry)
        BY <2>2 DEF Receiver
      <3> QED  BY <2>1, <3>1, <3>2, PrefixOfConcat DEF Flow
    <2>4. IsPrefix(got["center"], sent["center"])
      <3>1. ForEach(a, ForCenter) \in Seq(Message)
        BY <2>1, ContentTypes, ForEachType DEF Flow
      <3>2. b \o ForEach(a, ForCenter) \in Seq(Message)
        BY <2>1, <3>1, ConcatProperties DEF Flow
      <3>3. ForEach(b \o ForEach(a, ForCenter), OfGuest) \in Seq(Entry)
        BY <3>2, ContentTypes, ForEachType
      <3>4. got["center"] \in Seq(Entry)
        BY <2>2 DEF Receiver
      <3> QED  BY <2>1, <3>3, <3>4, PrefixOfConcat DEF Flow
    <2>5. IsPrefix(got["client"], sent["client"])
      <3>1. d \o c \in Seq(Message)
        BY <2>1, ConcatProperties DEF Flow
      <3>2. ForEach(d \o c, OfCenter) \in Seq(Entry)
        BY <3>1, ContentTypes, ForEachType
      <3>3. got["client"] \in Seq(Entry)
        BY <2>2 DEF Receiver
      <3> QED  BY <2>1, <3>2, <3>3, PrefixOfConcat DEF Flow
    <2> QED  BY <2>3, <2>4, <2>5 DEF InOrder, Receiver
  <1> QED  BY <1>1, Invariance, PTL
================================================================================
