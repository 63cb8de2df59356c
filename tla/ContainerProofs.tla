----------------------------- MODULE ContainerProofs ----------------------------
(***************************************************************************)
(* The two containers of src/Base.                                         *)
(*                                                                         *)
(* For every capacity and every set of mission ids the fixed array, with   *)
(* whatever removals leave behind in it, implements the bag of missions.   *)
(* The invariant adds to the types that every slot below the size holds a  *)
(* mission, so the item that a removal moves is one.                       *)
(*                                                                         *)
(* For every size and every range of the counters the ring buffer          *)
(* implements the queue of bytes.  The invariant is that the writer's      *)
(* counter is the reader's and at most the size more, modulo the range;    *)
(* as the size goes into the range, the end of the range falls on the end  *)
(* of a turn of the buffer, and masking a counter is the same before and   *)
(* after it.                                                               *)
(***************************************************************************)
EXTENDS MissionContainer, RingBuffer, FiniteSetTheorems, WellFoundedInduction,
        SequenceTheorems, TLAPS

--------------------------------------------------------------------------------
(* The fixed array. *)

ArrayInv ==
  /\ m_pItems \in [Slot -> MissionID \cup {NULL}]
  /\ m_nCurSize \in 0 .. MAX_MISSION_COUNT
  /\ \A i \in Slot : i < m_nCurSize => m_pItems[i] \in MissionID

ContainerInv == ArrayInv /\ answer \in {"mission", "nullptr"}

LEMMA SlotsOfFinite ==
  ASSUME NEW id
  PROVE  IsFiniteSet(SlotsOf(id)) /\ Cardinality(SlotsOf(id)) \in Nat
  <1>1. IsFiniteSet(Slot)
    BY FS_Interval, MaxAssumption DEF Slot
  <1>2. SlotsOf(id) \in SUBSET Slot
    BY DEF SlotsOf
  <1> QED  BY <1>1, <1>2, FS_Subset, FS_CardinalityType

\* Push puts the new slot among those of its id.
LEMMA PushAdds ==
  ASSUME ArrayInv, m_nCurSize < MAX_MISSION_COUNT, NEW id \in MissionID, Push(id)
  PROVE  /\ ArrayInv'
         /\ [x \in MissionID |-> Cardinality(SlotsOf(x))]' =
              [[x \in MissionID |-> Cardinality(SlotsOf(x))] EXCEPT ![id] = @ + 1]
  <1> USE MaxAssumption
  <1> DEFINE n == m_nCurSize
  <1>1. /\ n \in Slot /\ n \in Nat
        /\ m_pItems \in [Slot -> MissionID \cup {NULL}]
        /\ m_pItems' = [m_pItems EXCEPT ![n] = id]
        /\ m_nCurSize' = n + 1
    BY DEF ArrayInv, Push, Slot
  <1>2. ArrayInv'
    BY <1>1 DEF ArrayInv, Slot
  <1>3. /\ SlotsOf(id)' = SlotsOf(id) \cup {n}
        /\ n \notin SlotsOf(id)
        /\ \A x \in MissionID : x # id => SlotsOf(x)' = SlotsOf(x)
    BY <1>1 DEF SlotsOf, Slot
  <1>4. Cardinality(SlotsOf(id))' = Cardinality(SlotsOf(id)) + 1
    BY <1>3, SlotsOfFinite, FS_AddElement, ZenonT(60)
  <1> QED  BY <1>2, <1>3, <1>4

\* RemoveAt takes slot i from those of its id; if the last item moves there, the
\* slots of that item's id change places and not their number.
LEMMA RemoveAtTakes ==
  ASSUME ArrayInv, NEW id \in MissionID, NEW i \in Slot, FirstAt(i, id), RemoveAt(i)
  PROVE  /\ ArrayInv'
         /\ Cardinality(SlotsOf(id)) > 0
         /\ [x \in MissionID |-> Cardinality(SlotsOf(x))]' =
              [[x \in MissionID |-> Cardinality(SlotsOf(x))] EXCEPT ![id] = @ - 1]
  <1> USE MaxAssumption
  <1> DEFINE top == m_nCurSize - 1
  <1>1. /\ top \in Slot /\ top \in Nat /\ i \in Nat /\ i <= top
        /\ m_pItems \in [Slot -> MissionID \cup {NULL}]
        /\ m_pItems[i] = id /\ m_pItems[top] \in MissionID
        /\ m_nCurSize' = top
        /\ m_nCurSize = top + 1
    BY DEF ArrayInv, FirstAt, RemoveAt, Slot
  <1>2. m_pItems' = IF i = top THEN m_pItems
                     ELSE [m_pItems EXCEPT ![i] = m_pItems[top], ![top] = NULL]
    BY DEF RemoveAt
  <1> HIDE DEF top
  <1>3. ArrayInv'
    BY <1>1, <1>2 DEF ArrayInv, Slot
  <1>4. i \in SlotsOf(id) /\ top \in SlotsOf(m_pItems[top])
    BY <1>1 DEF SlotsOf
  <1>5. Cardinality(SlotsOf(id)) > 0
    BY <1>4, SlotsOfFinite, FS_EmptySet
  <1>6. Cardinality(SlotsOf(id))' = Cardinality(SlotsOf(id)) - 1
    <2>1. CASE m_pItems[top] = id
      <3>1. SlotsOf(id)' = SlotsOf(id) \ {top}
        BY <1>1, <1>2, <2>1, NullAssumption DEF SlotsOf, Slot
      <3> QED  BY <1>4, <2>1, <3>1, SlotsOfFinite, FS_RemoveElement, SMTT(40)
    <2>2. CASE m_pItems[top] # id
      <3>1. SlotsOf(id)' = SlotsOf(id) \ {i}
        BY <1>1, <1>2, <2>2, NullAssumption DEF SlotsOf, Slot
      <3> QED  BY <1>4, <3>1, SlotsOfFinite, FS_RemoveElement, ZenonT(60)
    <2> QED  BY <2>1, <2>2
  <1>7. ASSUME NEW x \in MissionID, x # id
        PROVE  Cardinality(SlotsOf(x))' = Cardinality(SlotsOf(x))
    <2>1. CASE m_pItems[top] = x
      <3>1. /\ SlotsOf(x)' = (SlotsOf(x) \ {top}) \cup {i}
            /\ i \notin SlotsOf(x) /\ top \in SlotsOf(x)
        BY <1>1, <1>2, <1>7, <2>1, NullAssumption DEF SlotsOf, Slot
      <3>2. /\ IsFiniteSet(SlotsOf(x) \ {top})
            /\ Cardinality(SlotsOf(x) \ {top}) = Cardinality(SlotsOf(x)) - 1
        BY <3>1, SlotsOfFinite, FS_RemoveElement
      <3>3. Cardinality((SlotsOf(x) \ {top}) \cup {i}) =
              Cardinality(SlotsOf(x) \ {top}) + 1
        BY <3>1, <3>2, FS_AddElement
      <3> QED  BY <3>1, <3>2, <3>3, SlotsOfFinite
    <2>2. CASE m_pItems[top] # x
      <3>1. SlotsOf(x)' = SlotsOf(x)
        BY <1>1, <1>2, <1>7, <2>2, NullAssumption DEF SlotsOf, Slot
      <3> QED  BY <3>1
    <2> QED  BY <2>1, <2>2
  <1> QED  BY <1>3, <1>5, <1>6, <1>7

\* A set of slots that is not empty has a first one.
LEMMA FirstOfSlots ==
  ASSUME NEW S \in SUBSET Nat, S # {}
  PROVE  \E i \in S : \A j \in S : i <= j
  <1>1. PICK i \in S : \A j \in S : ~ (<<j, i>> \in OpToRel(<, Nat))
    BY NatLessThanWellFounded, WFMin
  <1>2. \A j \in S : ~ (j < i)
    BY <1>1 DEF OpToRel
  <1> QED  BY <1>2

LEMMA SlotsAreNat ==
  ASSUME NEW id
  PROVE  SlotsOf(id) \in SUBSET Nat
  BY MaxAssumption DEF SlotsOf, Slot

--------------------------------------------------------------------------------
LEMMA ContainerInitInv == ContainerInit => ContainerInv
  <1> SUFFICES ASSUME ContainerInit PROVE ContainerInv
    OBVIOUS
  <1>1. m_pItems = [i \in Slot |-> NULL] /\ m_nCurSize = 0 /\ answer = "nullptr"
    BY DEF ContainerInit
  <1>2. m_nCurSize \in 0 .. MAX_MISSION_COUNT /\ answer \in {"mission", "nullptr"}
    BY <1>1, MaxAssumption
  <1> QED  BY <1>1, <1>2 DEF ContainerInv, ArrayInv, Slot

\* A step of the store keeps the invariant and is a step of the bag.
LEMMA ContainerStep ==
  ASSUME ContainerInv, [ContainerNext]_contvars
  PROVE  ContainerInv' /\ [Bag!BagNext]_(Bag!bagvars)
  <1> USE DEF Bag!bagvars
  <1>1. CASE UNCHANGED contvars
    BY <1>1 DEF contvars, ContainerInv, ArrayInv, SlotsOf
  <1>2. ASSUME NEW id \in MissionID, CreateMission(id), m_nCurSize < MAX_MISSION_COUNT
        PROVE  ContainerInv' /\ Bag!Create(id)
    <2>1. Push(id) /\ answer' = "mission"
      BY <1>2 DEF CreateMission
    <2>2. ContainerInv'
      BY <1>2, <2>1, PushAdds DEF ContainerInv
    <2>3. m_nCurSize' = m_nCurSize + 1
      BY <2>1 DEF Push
    <2> QED  BY <1>2, <2>1, <2>2, <2>3, PushAdds DEF Bag!Create, ContainerInv
  <1>3. ASSUME NEW id \in MissionID, CreateMission(id), ~ (m_nCurSize < MAX_MISSION_COUNT)
        PROVE  ContainerInv' /\ Bag!Create(id)
    BY <1>3 DEF CreateMission, Bag!Create, ContainerInv, ArrayInv, SlotsOf
  <1>4. ASSUME NEW id \in MissionID, RemoveMission(id)
        PROVE  ContainerInv' /\ Bag!Remove(id)
    <2>1. PICK i \in Slot : FirstAt(i, id) /\ RemoveAt(i) /\ UNCHANGED answer
      BY <1>4 DEF RemoveMission
    <2>2. answer' \in {"mission", "nullptr"}
      BY <2>1 DEF ContainerInv
    <2>3. m_nCurSize' = m_nCurSize - 1
      BY <2>1 DEF RemoveAt
    <2> QED  BY <2>1, <2>2, <2>3, RemoveAtTakes DEF Bag!Remove, ContainerInv
  <1>5. ASSUME NEW id \in MissionID, GetMission(id)
        PROVE  ContainerInv' /\ Bag!Find(id)
    <2>1. (\E i \in Slot : FirstAt(i, id)) <=> SlotsOf(id) # {}
      <3>1. ASSUME NEW i \in Slot, FirstAt(i, id) PROVE SlotsOf(id) # {}
        BY <3>1 DEF FirstAt, SlotsOf
      <3>2. ASSUME SlotsOf(id) # {} PROVE \E i \in Slot : FirstAt(i, id)
        <4>1. PICK i \in SlotsOf(id) : \A j \in SlotsOf(id) : i <= j
          BY <3>2, FirstOfSlots, SlotsAreNat
        <4> QED  BY <4>1, MaxAssumption DEF SlotsOf, FirstAt, Slot, ContainerInv, ArrayInv
      <3> QED  BY <3>1, <3>2
    <2>2. Cardinality(SlotsOf(id)) > 0 <=> SlotsOf(id) # {}
      BY SlotsOfFinite, FS_EmptySet
    <2>3. UNCHANGED <<m_pItems, m_nCurSize>>
      BY <1>5 DEF GetMission
    <2>4. answer' = IF Cardinality(SlotsOf(id)) > 0 THEN "mission" ELSE "nullptr"
      BY <1>5, <2>1, <2>2 DEF GetMission
    <2> QED  BY <2>3, <2>4 DEF Bag!Find, ContainerInv, ArrayInv, SlotsOf
  <1> QED  BY <1>1, <1>2, <1>3, <1>4, <1>5 DEF ContainerNext, Bag!BagNext

\* The array never overflows and its size stays within it.
THEOREM ContainerTypeCorrect == ContainerSpec => []ContainerTypeOK
  <1>1. ContainerInv => ContainerTypeOK
    BY DEF ContainerInv, ArrayInv, ContainerTypeOK
  <1> QED  BY ContainerInitInv, ContainerStep, <1>1, PTL DEF ContainerSpec

\* The store implements the bag: no creation, removal or search is ever wrong about
\* what is held, for every capacity.
THEOREM ContainerIsABag == ContainerSpec => NoMissionLost
  <1>1. ContainerInit => Bag!BagInit
    <2>1. ASSUME ContainerInit, NEW id \in MissionID PROVE Cardinality(SlotsOf(id)) = 0
      <3>1. SlotsOf(id) = {}
        BY <2>1, MaxAssumption DEF ContainerInit, SlotsOf, Slot
      <3> QED  BY <3>1, FS_EmptySet
    <2> QED  BY <2>1 DEF ContainerInit, Bag!BagInit
  <1> QED  BY ContainerInitInv, ContainerStep, <1>1, PTL
              DEF ContainerSpec, NoMissionLost, Bag!BagSpec

--------------------------------------------------------------------------------
(* The ring buffer: arithmetic of its counters. *)

LEMMA Multiple ==
  ASSUME NEW k \in Int, k >= 1, NEW d \in Nat \ {0}
  PROVE  k * d \in Int /\ k * d >= d
  OBVIOUS

\* Remainders of numbers that differ by a multiple.
LEMMA Remainder ==
  ASSUME NEW d \in Nat \ {0}, NEW q \in Int, NEW r \in 0 .. (d - 1)
  PROVE  (q * d + r) % d = r
  <1> DEFINE a == q * d + r
             p == a \div d
             s == a % d
             k == q - p
  <1>1. a \in Int /\ a = q * d + r
    OBVIOUS
  <1> HIDE DEF a
  <1>2. a = p * d + s /\ s \in 0 .. (d - 1) /\ p \in Int
    BY <1>1, SMT
  <1> HIDE DEF p, s
  <1>3. k \in Int /\ k * d = s - r /\ (-k) * d = r - s
    BY <1>1, <1>2
  <1> HIDE DEF k
  <1>4. ~ (k >= 1) /\ ~ (-k >= 1)
    <2>1. CASE k >= 1
      <3>1. k * d >= d
        BY <1>3, <2>1, Multiple
      <3> QED  BY <1>2, <1>3, <3>1
    <2>2. CASE -k >= 1
      <3>1. -k \in Int /\ (-k) * d >= d
        BY <1>3, <2>2, Multiple
      <3> QED  BY <1>2, <1>3, <3>1
    <2> QED  BY <2>1, <2>2
  <1>5. k = 0
    BY <1>3, <1>4
  <1>6. s = r
    BY <1>2, <1>3, <1>5
  <1> QED  BY <1>1, <1>6 DEF a, s

LEMMA Shifted ==
  ASSUME NEW d \in Nat \ {0}, NEW a \in Int, NEW q \in Int
  PROVE  (a + q * d) % d = a % d
  <1> DEFINE p == a \div d
             s == a % d
  <1>1. a = p * d + s /\ s \in 0 .. (d - 1) /\ p \in Int
    BY SMT
  <1> HIDE DEF p, s
  <1>2. a + q * d = (p + q) * d + s /\ p + q \in Int
    BY <1>1
  <1>3. ((p + q) * d + s) % d = s
    BY <1>1, <1>2, Remainder
  <1> QED  BY <1>2, <1>3 DEF s

LEMMA Whole ==
  /\ size_ \in Nat \ {0} /\ INT_RANGE \in Nat \ {0} /\ 4 * size_ <= INT_RANGE
  /\ \E q \in Nat : INT_RANGE = q * size_
  <1>1. PICK m \in 1 .. INT_RANGE : INT_RANGE = (4 * m) * size_
    BY RingBufferAssumption
  <1>2. m * size_ >= size_ /\ m * size_ \in Int
    BY Multiple, RingBufferAssumption
  <1>3. (4 * m) * size_ = 4 * (m * size_)
    BY RingBufferAssumption
  <1>4. 4 * m \in Nat
    OBVIOUS
  <1> QED  BY <1>1, <1>2, <1>3, <1>4, RingBufferAssumption

\* Within one turn of the range, a word is the number, one turn up or down.
LEMMA Words ==
  ASSUME NEW n \in Int
  PROVE  /\ n \in 0 .. (INT_RANGE - 1) => Word(n) = n
         /\ n \in INT_RANGE .. (2 * INT_RANGE - 1) => Word(n) = n - INT_RANGE
         /\ n \in (-INT_RANGE) .. (-1) => Word(n) = n + INT_RANGE
         /\ Word(n) \in 0 .. (INT_RANGE - 1)
  <1>1. ASSUME n \in 0 .. (INT_RANGE - 1) PROVE Word(n) = n
    <2>1. (0 * INT_RANGE + n) % INT_RANGE = n
      BY <1>1, Whole, Remainder
    <2>2. 0 * INT_RANGE + n = n
      BY Whole
    <2> QED  BY <2>1, <2>2 DEF Word
  <1>2. ASSUME n \in INT_RANGE .. (2 * INT_RANGE - 1) PROVE Word(n) = n - INT_RANGE
    <2>1. n - INT_RANGE \in 0 .. (INT_RANGE - 1)
      BY <1>2, Whole
    <2>2. (1 * INT_RANGE + (n - INT_RANGE)) % INT_RANGE = n - INT_RANGE
      BY <2>1, Whole, Remainder
    <2>3. 1 * INT_RANGE + (n - INT_RANGE) = n
      BY Whole
    <2> QED  BY <2>2, <2>3 DEF Word
  <1>3. ASSUME n \in (-INT_RANGE) .. (-1) PROVE Word(n) = n + INT_RANGE
    <2>1. n + INT_RANGE \in 0 .. (INT_RANGE - 1)
      BY <1>3, Whole
    <2>2. ((-1) * INT_RANGE + (n + INT_RANGE)) % INT_RANGE = n + INT_RANGE
      BY <2>1, Whole, Remainder
    <2>3. (-1) * INT_RANGE + (n + INT_RANGE) = n
      BY Whole
    <2> QED  BY <2>2, <2>3 DEF Word
  <1>4. Word(n) \in 0 .. (INT_RANGE - 1)
    BY Whole, SMT DEF Word
  <1> QED  BY <1>1, <1>2, <1>3, <1>4

\* The place of a byte: the end of the range does not disturb it, and within one
\* turn of the buffer it goes up to the end and on from the start.
LEMMA Places ==
  ASSUME NEW c \in 0 .. (INT_RANGE - 1)
  PROVE  /\ Masked(c) \in Place
         /\ \A j \in 0 .. size_ :
              /\ Masked(c + j) = IF Masked(c) + j < size_ THEN Masked(c) + j
                                 ELSE Masked(c) + j - size_
              /\ \A i \in Int : Masked(Word(c + j) + i) = Masked(c + j + i)
  <1>1. Masked(c) \in Place
    BY Whole, SMT DEF Masked, Place
  <1>2. ASSUME NEW j \in 0 .. size_
        PROVE  Masked(c + j) = IF Masked(c) + j < size_ THEN Masked(c) + j
                               ELSE Masked(c) + j - size_
    <2> DEFINE o == Masked(c)
               p == c \div size_
    <2>1. c = p * size_ + o /\ p \in Int /\ o \in 0 .. (size_ - 1)
      BY Whole, SMT DEF Masked
    <2> HIDE DEF o, p
    <2>2. CASE o + j < size_
      <3>1. c + j = p * size_ + (o + j) /\ o + j \in 0 .. (size_ - 1)
        BY <2>1, <2>2, Whole
      <3>2. (p * size_ + (o + j)) % size_ = o + j
        BY <2>1, <3>1, Whole, Remainder
      <3> QED  BY <2>2, <3>1, <3>2 DEF Masked, o
    <2>3. CASE ~ (o + j < size_)
      <3>1. c + j = (p + 1) * size_ + (o + j - size_) /\ o + j - size_ \in 0 .. (size_ - 1)
        BY <2>1, <2>3, Whole
      <3>2. ((p + 1) * size_ + (o + j - size_)) % size_ = o + j - size_
        <4>1. \A q \in Int, r \in 0 .. (size_ - 1) : (q * size_ + r) % size_ = r
          BY Whole, Remainder
        <4>2. p + 1 \in Int
          BY <2>1
        <4> QED  BY <3>1, <4>1, <4>2
      <3>3. Masked(c + j) = o + j - size_
        BY <3>1, <3>2 DEF Masked
      <3> QED  BY <2>3, <3>3 DEF o
    <2> QED  BY <2>2, <2>3
  <1>3. ASSUME NEW j \in 0 .. size_, NEW i \in Int
        PROVE  Masked(Word(c + j) + i) = Masked(c + j + i)
    <2>1. /\ c + j \in Int
          /\ c + j \in 0 .. (INT_RANGE - 1) \/ c + j \in INT_RANGE .. (2 * INT_RANGE - 1)
      BY Whole
    <2>2. CASE c + j \in 0 .. (INT_RANGE - 1)
      <3>1. Word(c + j) = c + j
        BY <2>1, <2>2, Words
      <3> QED  BY <3>1
    <2>3. CASE c + j \in INT_RANGE .. (2 * INT_RANGE - 1)
      <3> DEFINE n == c + j
                 a == n - INT_RANGE + i
      <3>1. Word(n) = n - INT_RANGE
        <4> HIDE DEF n
        <4>1. n \in Int /\ n \in INT_RANGE .. (2 * INT_RANGE - 1)
          BY <2>1, <2>3 DEF n
        <4> QED  BY <4>1, Words
      <3>2. PICK q \in Nat : INT_RANGE = q * size_
        BY Whole
      <3>3. n + i = a + q * size_ /\ a \in Int /\ Word(n) + i = a
        BY <2>1, <3>1, <3>2, Whole
      <3>4. (a + q * size_) % size_ = a % size_
        <4> HIDE DEF a
        <4>1. \A b \in Int, k \in Int : (b + k * size_) % size_ = b % size_
          BY Whole, Shifted
        <4> QED  BY <3>3, <4>1
      <3> HIDE DEF a
      <3> QED  BY <3>3, <3>4 DEF Masked
    <2> QED  BY <2>1, <2>2, <2>3
  <1> QED  BY <1>1, <1>2, <1>3

LEMMA MinOfTwo ==
  ASSUME NEW a \in Int, NEW b \in Int
  PROVE  Min({a, b}) = IF a <= b THEN a ELSE b
  BY DEF Min

--------------------------------------------------------------------------------
(* The ring buffer: what lies where. *)

\* There are r unread bytes.
RingInv(r) ==
  /\ out_ \in 0 .. (INT_RANGE - 1) /\ r \in 0 .. size_ /\ in_ = Word(out_ + r)
  /\ buffer_ \in [Place -> Byte]

\* The place of the byte that is j behind the next one to read.
PlaceOf(j) == IF Masked(out_) + j < size_ THEN Masked(out_) + j ELSE Masked(out_) + j - size_

LEMMA Counters ==
  ASSUME NEW r, RingInv(r)
  PROVE  /\ r \in Int /\ in_ \in 0 .. (INT_RANGE - 1)
         /\ readable_size = r /\ writable_size = size_ - r
         /\ Masked(in_) = PlaceOf(r) /\ Masked(out_) \in Place
         /\ \A j \in 0 .. (size_ - 1) : Masked(out_ + j) = PlaceOf(j) /\ PlaceOf(j) \in Place
  <1> USE Whole
  <1>1. /\ out_ \in 0 .. (INT_RANGE - 1) /\ r \in 0 .. size_ /\ in_ = Word(out_ + r)
        /\ r \in Int /\ out_ \in Int
    BY DEF RingInv
  <1>2. /\ in_ \in Int /\ in_ \in 0 .. (INT_RANGE - 1)
        /\ in_ = out_ + r \/ in_ = out_ + r - INT_RANGE
    <2> DEFINE n == out_ + r
    <2>1. n \in Int /\ (n \in 0 .. (INT_RANGE - 1) \/ n \in INT_RANGE .. (2 * INT_RANGE - 1))
      BY <1>1
    <2>2. in_ = Word(n)
      BY <1>1
    <2> HIDE DEF n
    <2>3. in_ = n \/ in_ = n - INT_RANGE
      BY <2>1, <2>2, Words
    <2>4. in_ \in 0 .. (INT_RANGE - 1)
      BY <2>1, <2>2, Words
    <2> QED  BY <1>1, <2>3, <2>4 DEF n
  <1>3. \A n \in Int, x \in 0 .. size_ :
          (n = x \/ n = x - INT_RANGE \/ n = x + INT_RANGE) => AsInt(Word(n)) = x
    <2> SUFFICES ASSUME NEW n \in Int, NEW x \in 0 .. size_,
                        n = x \/ n = x - INT_RANGE \/ n = x + INT_RANGE
                 PROVE  AsInt(Word(n)) = x
      OBVIOUS
    <2>1. Word(n) = x
      <3>1. CASE n = x
        <4>1. n \in 0 .. (INT_RANGE - 1)
          BY <3>1
        <4> QED  BY <3>1, <4>1, Words
      <3>2. CASE n = x - INT_RANGE
        <4>1. n \in (-INT_RANGE) .. (-1)
          BY <3>2
        <4> QED  BY <3>2, <4>1, Words
      <3>3. CASE n = x + INT_RANGE
        <4>1. n \in INT_RANGE .. (2 * INT_RANGE - 1)
          BY <3>3
        <4> QED  BY <3>3, <4>1, Words
      <3> QED  BY <3>1, <3>2, <3>3
    <2> QED  BY <2>1 DEF AsInt
  <1>4. readable_size = r
    <2>1. in_ - out_ \in Int /\ (in_ - out_ = r \/ in_ - out_ = r - INT_RANGE)
      BY <1>1, <1>2
    <2> QED  BY <1>1, <1>3, <2>1 DEF readable_size
  <1>5. writable_size = size_ - r
    <2>1. /\ size_ - in_ + out_ \in Int /\ size_ - r \in 0 .. size_
          /\ (size_ - in_ + out_ = size_ - r \/ size_ - in_ + out_ = (size_ - r) + INT_RANGE)
      BY <1>1, <1>2
    <2> QED  BY <1>3, <2>1 DEF writable_size
  <1>6. /\ Masked(out_) \in Place
        /\ \A j \in 0 .. size_ : Masked(out_ + j) = PlaceOf(j)
        /\ \A i \in Int : Masked(in_ + i) = Masked(out_ + r + i)
    BY <1>1, Places DEF PlaceOf
  <1>7. Masked(in_) = PlaceOf(r)
    <2>1. Masked(in_ + 0) = Masked(out_ + r + 0)
      BY <1>6
    <2>2. in_ + 0 = in_ /\ out_ + r + 0 = out_ + r
      BY <1>1, <1>2
    <2> QED  BY <1>1, <1>6, <2>1, <2>2
  <1>8. \A j \in 0 .. (size_ - 1) : PlaceOf(j) \in Place
    BY <1>6 DEF PlaceOf, Place
  <1> QED  BY <1>1, <1>2, <1>4, <1>5, <1>6, <1>7, <1>8

\* The r unread bytes by their places.
HoldsUnread(r) ==
  /\ Unread = [i \in 1 .. r |-> buffer_[PlaceOf(i - 1)]]
  /\ Unread \in Seq(Byte) /\ Len(Unread) = r

LEMMA UnreadIs ==
  ASSUME NEW r, RingInv(r)
  PROVE  HoldsUnread(r)
  <1>1. r \in 0 .. size_ /\ buffer_ \in [Place -> Byte]
    BY DEF RingInv
  <1>2. \A i \in 1 .. r : /\ i - 1 \in 0 .. (size_ - 1)
                          /\ out_ + i - 1 = out_ + (i - 1)
    BY <1>1, Whole DEF RingInv
  <1>3. \A i \in 1 .. r : buffer_[Masked(out_ + i - 1)] = buffer_[PlaceOf(i - 1)]
                          /\ buffer_[PlaceOf(i - 1)] \in Byte
    BY <1>1, <1>2, Counters
  <1>4. Unread = [i \in 1 .. r |-> buffer_[PlaceOf(i - 1)]]
    BY <1>3, Counters DEF Unread
  <1>5. r \in Nat
    BY <1>1, Whole
  <1> QED  BY <1>3, <1>4, <1>5 DEF HoldsUnread

LEMMA UnreadAlways ==
  \A q : RingInv(q) => HoldsUnread(q)
  BY UnreadIs

LEMMA Prefix ==
  ASSUME NEW s \in Seq(Byte), NEW n \in Nat
  PROVE  /\ Queue!UpTo(n, s) \in Seq(Byte)
         /\ Len(Queue!UpTo(n, s)) = IF n <= Len(s) THEN n ELSE Len(s)
         /\ \A i \in 1 .. Len(Queue!UpTo(n, s)) : Queue!UpTo(n, s)[i] = s[i]
  <1> DEFINE m == IF n <= Len(s) THEN n ELSE Len(s)
  <1>1. m \in Nat /\ m <= Len(s) /\ Len(s) \in Nat
    OBVIOUS
  <1>2. Queue!UpTo(n, s) = SubSeq(s, 1, m)
    BY <1>1 DEF Queue!UpTo
  <1> HIDE DEF m
  <1>3. \A i \in 1 .. m : s[i] \in Byte
    BY <1>1, ElementOfSeq
  <1>4. /\ SubSeq(s, 1, m) \in Seq(Byte) /\ Len(SubSeq(s, 1, m)) = m
        /\ \A i \in 1 .. m : SubSeq(s, 1, m)[i] = s[i]
    BY <1>1, <1>3, SubSeqProperties
  <1> QED  BY <1>2, <1>4 DEF m

LEMMA WordOfWord ==
  ASSUME NEW n \in Int
  PROVE  Word(n - INT_RANGE) = Word(n) /\ Word(n + INT_RANGE) = Word(n)
  <1>1. /\ (n + (-1) * INT_RANGE) % INT_RANGE = n % INT_RANGE
        /\ (n + 1 * INT_RANGE) % INT_RANGE = n % INT_RANGE
    <2>1. \A a \in Int, q \in Int : (a + q * INT_RANGE) % INT_RANGE = a % INT_RANGE
      BY Whole, Shifted
    <2> QED  BY <2>1
  <1>2. n + (-1) * INT_RANGE = n - INT_RANGE /\ n + 1 * INT_RANGE = n + INT_RANGE
    BY Whole
  <1> QED  BY <1>1, <1>2 DEF Word

LEMMA WordOfSum ==
  ASSUME NEW n \in 0 .. (2 * INT_RANGE - 1), NEW i \in Int
  PROVE  Word(Word(n) + i) = Word(n + i)
  <1>1. n \in Int /\ (n \in 0 .. (INT_RANGE - 1) \/ n \in INT_RANGE .. (2 * INT_RANGE - 1))
    BY Whole
  <1>2. CASE n \in 0 .. (INT_RANGE - 1)
    <2>1. Word(n) = n
      BY <1>1, <1>2, Words
    <2> QED  BY <2>1
  <1>3. CASE n \in INT_RANGE .. (2 * INT_RANGE - 1)
    <2>1. Word(n) = n - INT_RANGE
      BY <1>1, <1>3, Words
    <2>2. (n - INT_RANGE) + i = (n + i) - INT_RANGE /\ n + i \in Int
      BY <1>1, Whole
    <2>3. Word((n + i) - INT_RANGE) = Word(n + i)
      BY <2>2, WordOfWord
    <2> QED  BY <2>1, <2>2, <2>3
  <1> QED  BY <1>1, <1>2, <1>3

\* The bytes that write stores follow the unread ones and touch none of them.
LEMMA Written ==
  ASSUME NEW r, RingInv(r), NEW data \in Seq(Byte), write(data)
  PROVE  \E len \in Nat :
           /\ len = IF Len(data) <= size_ - r THEN Len(data) ELSE size_ - r
           /\ in_' = Word(in_ + len)
           /\ buffer_' \in [Place -> Byte]
           /\ \A j \in 0 .. (r + len - 1) :
                buffer_'[PlaceOf(j)] = IF j < r THEN buffer_[PlaceOf(j)] ELSE data[j - r + 1]
  <1> USE Whole
  <1> DEFINE len == Min({Len(data), writable_size})
             at == Masked(in_)
             l == Min({len, size_ - at})
             o == Masked(out_)
  <1>1. /\ r \in 0 .. size_ /\ r \in Int /\ at = PlaceOf(r) /\ o \in 0 .. (size_ - 1)
        /\ \A j \in 0 .. (size_ - 1) : PlaceOf(j) \in Place
        /\ writable_size = size_ - r /\ buffer_ \in [Place -> Byte]
    BY Counters DEF RingInv, Place
  <1>2. /\ len = IF Len(data) <= size_ - r THEN Len(data) ELSE size_ - r
        /\ len \in Nat /\ len <= Len(data) /\ r + len <= size_
    <2>1. Len(data) \in Nat /\ size_ - r \in Nat
      BY <1>1, LenProperties
    <2>2. len = IF Len(data) <= size_ - r THEN Len(data) ELSE size_ - r
      BY <1>1, <2>1, MinOfTwo
    <2> HIDE DEF len
    <2> QED  BY <1>1, <2>1, <2>2
  <1>3. /\ at = IF o + r < size_ THEN o + r ELSE o + r - size_
        /\ at \in 0 .. (size_ - 1)
    BY <1>1 DEF PlaceOf
  <1>4. /\ buffer_' = [b \in Place |-> IF b \in at .. (at + l - 1) THEN data[b - at + 1]
                                      ELSE IF b < len - l THEN data[l + b + 1]
                                      ELSE buffer_[b]]
        /\ in_' = Word(in_ + len)
    BY DEF write
  <1> HIDE DEF len, at, o
  <1>5. l = (IF len <= size_ - at THEN len ELSE size_ - at) /\ l \in Nat /\ l <= len
    <2>1. size_ - at \in Nat
      BY <1>3
    <2>2. l = IF len <= size_ - at THEN len ELSE size_ - at
      BY <1>2, <2>1, MinOfTwo
    <2> HIDE DEF l
    <2> QED  BY <1>2, <2>1, <2>2
  <1> HIDE DEF l
  <1>6. \A i \in 1 .. len : data[i] \in Byte
    BY <1>2, ElementOfSeq
  <1>p. /\ len \in Int /\ at \in Int /\ l \in Int /\ r \in Int /\ o \in Int /\ size_ \in Int
        /\ 0 <= len /\ r + len <= size_ /\ 0 <= r /\ 0 <= o /\ o < size_
        /\ 0 <= l /\ l <= len /\ 0 <= at /\ at < size_
        /\ len <= size_ - at => l = len
        /\ ~ (len <= size_ - at) => l = size_ - at
        /\ o + r < size_ => at = o + r
        /\ ~ (o + r < size_) => at = o + r - size_
    <2>1. len \in Int /\ at \in Int /\ l \in Int /\ r \in Int /\ o \in Int /\ size_ \in Int
      BY <1>1, <1>2, <1>3, <1>5
    <2>2. /\ 0 <= len /\ r + len <= size_ /\ 0 <= r /\ 0 <= o /\ o < size_
          /\ 0 <= l /\ l <= len /\ 0 <= at /\ at < size_
      <3>1. 0 <= o /\ o < size_ /\ 0 <= r
        BY <1>1
      <3>2. 0 <= len /\ r + len <= size_
        BY <1>2
      <3>3. 0 <= l /\ l <= len
        BY <1>5
      <3>4. 0 <= at /\ at < size_
        BY <1>3
      <3> QED  BY <3>1, <3>2, <3>3, <3>4
    <2>3. /\ len <= size_ - at => l = len
          /\ ~ (len <= size_ - at) => l = size_ - at
      BY <1>5
    <2>4. /\ o + r < size_ => at = o + r
          /\ ~ (o + r < size_) => at = o + r - size_
      BY <1>3
    <2> QED  BY <2>1, <2>2, <2>3, <2>4
  <1>7. buffer_' \in [Place -> Byte]
    <2> SUFFICES ASSUME NEW b \in Place
                 PROVE  (IF b \in at .. (at + l - 1) THEN data[b - at + 1]
                         ELSE IF b < len - l THEN data[l + b + 1] ELSE buffer_[b]) \in Byte
      BY <1>4
    <2>1. b \in Int /\ b >= 0
      BY DEF Place
    <2>2. b \in at .. (at + l - 1) => b - at + 1 \in 1 .. len
      BY ONLY <1>p, <2>1
    <2>3. b < len - l => l + b + 1 \in 1 .. len
      BY <1>2, <1>5, <2>1
    <2> QED  BY <1>1, <1>6, <2>2, <2>3
  <1>8. ASSUME NEW j \in 0 .. (r + len - 1)
        PROVE  buffer_'[PlaceOf(j)] = IF j < r THEN buffer_[PlaceOf(j)] ELSE data[j - r + 1]
    <2> DEFINE b == PlaceOf(j)
    <2>1. /\ b = IF o + j < size_ THEN o + j ELSE o + j - size_
          /\ b \in Place /\ b \in Int
      BY <1>1, <1>2, SMTT(40) DEF PlaceOf, o, Place
    <2> HIDE DEF b
    <2>a. /\ j \in Int /\ 0 <= j /\ j < r + len /\ b \in Int
          /\ o + j < size_ => b = o + j
          /\ ~ (o + j < size_) => b = o + j - size_
      BY <1>p, <2>1
    <2>2. buffer_'[b] = IF b \in at .. (at + l - 1) THEN data[b - at + 1]
                        ELSE IF b < len - l THEN data[l + b + 1]
                        ELSE buffer_[b]
      BY <1>4, <2>1
    <2>3. CASE j < r
      <3>1. ~ (b \in at .. (at + l - 1)) /\ ~ (b < len - l)
        BY ONLY <1>p, <2>a, <2>3
      <3> QED  BY <2>2, <2>3, <3>1 DEF b
    <2>4. CASE ~ (j < r)
      <3>1. \/ b \in at .. (at + l - 1) /\ b - at + 1 = j - r + 1
            \/ ~ (b \in at .. (at + l - 1)) /\ b < len - l /\ l + b + 1 = j - r + 1
        BY ONLY <1>p, <2>a, <2>4
      <3> QED  BY <2>2, <2>4, <3>1 DEF b
    <2> QED  BY <2>3, <2>4
  <1> QED  BY <1>2, <1>4, <1>7, <1>8

LEMMA WriteStep ==
  ASSUME NEW r, RingInv(r), NEW data \in Seq(Byte), write(data)
  PROVE  (\E k \in 0 .. size_ : RingInv(k)') /\ Queue!Write
  <1> USE Whole
  <1>1. PICK len \in Nat :
           /\ len = IF Len(data) <= size_ - r THEN Len(data) ELSE size_ - r
           /\ in_' = Word(in_ + len)
           /\ buffer_' \in [Place -> Byte]
           /\ \A j \in 0 .. (r + len - 1) :
                buffer_'[PlaceOf(j)] = IF j < r THEN buffer_[PlaceOf(j)] ELSE data[j - r + 1]
    BY Written
  <1>2. /\ out_' = out_ /\ last'.op = "write" /\ last'.data = data
    BY DEF write
  <1> DEFINE k == r + len
             t == Unread \o data
  <1>3. k \in 0 .. size_ /\ r \in Nat /\ Len(data) \in Nat
    BY <1>1, LenProperties DEF RingInv
  <1>4. RingInv(k)'
    <2>1. Word(in_ + len) = Word(out_ + r + len)
      <3>1. out_ + r \in 0 .. (2 * INT_RANGE - 1) /\ len \in Int /\ in_ = Word(out_ + r)
        BY <1>3 DEF RingInv
      <3> QED  BY <3>1, WordOfSum
    <2>2. out_ + r + len = out_ + k
      BY <1>3 DEF RingInv
    <2> QED  BY <1>1, <1>2, <1>3, <2>1, <2>2 DEF RingInv
  <1>5. /\ Unread \in Seq(Byte) /\ Len(Unread) = r
        /\ \A i \in 1 .. r : Unread[i] = buffer_[PlaceOf(i - 1)]
    BY UnreadIs DEF HoldsUnread
  <1>6. /\ Unread' \in Seq(Byte) /\ Len(Unread') = k
        /\ \A i \in 1 .. k : Unread'[i] = buffer_'[PlaceOf(i - 1)]
    <2>1. (\A q : RingInv(q) => HoldsUnread(q))'
      BY UnreadAlways, PTL
    <2>2. \A i \in Int : PlaceOf(i)' = PlaceOf(i)
      BY <1>2 DEF PlaceOf, Masked
    <2> QED  BY <1>4, <2>1, <2>2 DEF HoldsUnread
  <1>7. /\ t \in Seq(Byte) /\ Len(t) = r + Len(data)
        /\ \A i \in 1 .. (r + Len(data)) : t[i] = IF i <= r THEN Unread[i] ELSE data[i - r]
    BY <1>5, ConcatProperties, ZenonT(60)
  <1> HIDE DEF k, t
  <1>8. /\ Queue!UpTo(size_, t) \in Seq(Byte) /\ Len(Queue!UpTo(size_, t)) = k
        /\ \A i \in 1 .. k : Queue!UpTo(size_, t)[i] = t[i]
    BY <1>1, <1>3, <1>7, Prefix, SMTT(40) DEF k
  <1>9. ASSUME NEW i \in 1 .. k PROVE Unread'[i] = t[i]
    <2>1. i - 1 \in 0 .. (r + len - 1) /\ i \in 1 .. (r + Len(data)) /\ (i - 1 < r <=> i <= r)
          /\ (i - 1) - r + 1 = i - r
      BY <1>1, <1>3 DEF k
    <2>2. Unread'[i] = IF i <= r THEN buffer_[PlaceOf(i - 1)] ELSE data[i - r]
      BY <1>1, <1>6, <2>1
    <2>3. i <= r => i \in 1 .. r
      BY <1>3
    <2> QED  BY <1>5, <1>7, <2>1, <2>2, <2>3
  <1>10. Unread' = Queue!UpTo(size_, t)
    BY <1>6, <1>8, <1>9, SeqEqual
  <1> QED  BY <1>2, <1>3, <1>4, <1>10 DEF Queue!Write, t

\* Read and peek copy the first unread bytes, in their order.
LEMMA Fetched ==
  ASSUME NEW r, RingInv(r), NEW n \in Nat
  PROVE  Fetch(Min({n, readable_size})) = Queue!UpTo(n, Unread)
  <1> USE Whole
  <1> DEFINE len == Min({n, readable_size})
             o == Masked(out_)
             l == Min({len, size_ - o})
             first == [i \in 1 .. l |-> buffer_[o + i - 1]]
             rest == [i \in 1 .. (len - l) |-> buffer_[i - 1]]
             u == Queue!UpTo(n, Unread)
  <1>1. /\ r \in 0 .. size_ /\ o \in 0 .. (size_ - 1) /\ readable_size = r
        /\ buffer_ \in [Place -> Byte]
    BY Counters DEF RingInv, Place
  <1>2. len = (IF n <= r THEN n ELSE r) /\ len \in Nat /\ len <= r
    <2>1. len = IF n <= r THEN n ELSE r
      BY <1>1, MinOfTwo
    <2> HIDE DEF len
    <2> QED  BY <1>1, <2>1
  <1> HIDE DEF len
  <1>3. l = (IF len <= size_ - o THEN len ELSE size_ - o) /\ l \in Nat /\ l <= len
    <2>1. l = IF len <= size_ - o THEN len ELSE size_ - o
      BY <1>1, <1>2, MinOfTwo
    <2> HIDE DEF l
    <2> QED  BY <1>1, <1>2, <2>1
  <1> HIDE DEF l
  <1>4. Fetch(len) = first \o rest
    BY DEF Fetch, l, o
  <1>5. first \in Seq(Byte) /\ Len(first) = l
    <2>1. \A i \in 1 .. l : o + i - 1 \in Place
      BY <1>1, <1>2, <1>3 DEF Place
    <2>2. \A i \in 1 .. l : buffer_[o + i - 1] \in Byte
      BY <1>1, <2>1
    <2> QED  BY <1>3, <2>2
  <1>6. rest \in Seq(Byte) /\ Len(rest) = len - l
    <2>1. len - l \in Nat /\ \A i \in 1 .. (len - l) : i - 1 \in Place
      BY <1>1, <1>2, <1>3 DEF Place
    <2>2. \A i \in 1 .. (len - l) : buffer_[i - 1] \in Byte
      BY <1>1, <2>1
    <2> QED  BY <2>1, <2>2
  <1>7. /\ Unread \in Seq(Byte) /\ Len(Unread) = r
        /\ \A i \in 1 .. r : Unread[i] = buffer_[PlaceOf(i - 1)]
    BY UnreadIs DEF HoldsUnread
  <1>8. u \in Seq(Byte) /\ Len(u) = len /\ \A i \in 1 .. len : u[i] = Unread[i]
    BY <1>2, <1>7, Prefix
  <1> HIDE DEF u
  <1>9. /\ first \o rest \in Seq(Byte) /\ Len(first \o rest) = len
        /\ \A i \in 1 .. len : (first \o rest)[i] = IF i <= l THEN first[i] ELSE rest[i - l]
    <2>1. Len(first) + Len(rest) = len
      BY <1>2, <1>3, <1>5, <1>6
    <2> HIDE DEF first, rest
    <2> QED  BY <1>5, <1>6, <2>1, ConcatProperties
  <1>10. ASSUME NEW i \in 1 .. len PROVE (first \o rest)[i] = u[i]
    <2>1. u[i] = buffer_[PlaceOf(i - 1)]
      <3>1. i \in 1 .. r
        BY <1>1, <1>2
      <3> QED  BY <1>7, <1>8, <3>1
    <2>2. CASE i <= l
      <3>1. i \in 1 .. l /\ PlaceOf(i - 1) = o + i - 1
        BY <1>1, <1>2, <1>3, <2>2 DEF PlaceOf
      <3> QED  BY <1>9, <2>1, <2>2, <3>1
    <2>3. CASE ~ (i <= l)
      <3>1. i - l \in 1 .. (len - l) /\ PlaceOf(i - 1) = (i - l) - 1
        BY <1>1, <1>2, <1>3, <2>3 DEF PlaceOf
      <3> QED  BY <1>9, <2>1, <2>3, <3>1
    <2> QED  BY <2>2, <2>3
  <1> HIDE DEF first, rest
  <1>11. first \o rest = u
    BY <1>8, <1>9, <1>10, SeqEqual
  <1> QED  BY <1>4, <1>11 DEF len, u

LEMMA ReadStep ==
  ASSUME NEW r, RingInv(r), NEW n \in 0 .. MaxLen, read(n)
  PROVE  (\E k \in 0 .. size_ : RingInv(k)') /\ Queue!Read
  <1> USE Whole
  <1> DEFINE len == IF n <= r THEN n ELSE r
             k == r - len
             rest == SubSeq(Unread, n + 1, Len(Unread))
  <1>1. /\ r \in 0 .. size_ /\ r \in Nat /\ n \in Nat /\ len \in 0 .. r /\ len \in Nat
        /\ k \in 0 .. size_ /\ k \in Nat
        /\ n >= r => k = 0
        /\ n < r => len = n
    BY RingBufferAssumption DEF RingInv
  <1>2. /\ in_' = in_ /\ buffer_' = buffer_ /\ out_' = Word(out_ + len)
        /\ last' = [op |-> "read", arg |-> n, data |-> Queue!UpTo(n, Unread)]
    <2>1. Min({n, readable_size}) = len
      BY <1>1, Counters, MinOfTwo
    <2>2. Fetch(len) = Queue!UpTo(n, Unread)
      BY <1>1, <2>1, Fetched
    <2> QED  BY <2>1, <2>2 DEF read
  <1> HIDE DEF len, k
  <1>3. k = r - len
    BY DEF k
  <1>4. out_ + len \in 0 .. (2 * INT_RANGE - 1) /\ out_ \in Int
    BY <1>1 DEF RingInv
  <1>5. RingInv(k)'
    <2>1. Word(Word(out_ + len) + k) = Word(out_ + len + k)
      BY <1>1, <1>4, WordOfSum
    <2>2. out_ + len + k = out_ + r
      BY <1>1, <1>3, <1>4
    <2>3. out_' \in 0 .. (INT_RANGE - 1)
      BY <1>2, <1>4, Words
    <2> QED  BY <1>1, <1>2, <2>1, <2>2, <2>3 DEF RingInv
  <1>6. ASSUME NEW j \in 0 .. (k - 1) PROVE PlaceOf(j)' = PlaceOf(len + j)
    <2>1. Masked(out_)' = PlaceOf(len)
      <3>0. len \in 0 .. size_ /\ out_ \in 0 .. (INT_RANGE - 1)
        BY <1>1 DEF RingInv
      <3>1. Masked(Word(out_ + len) + 0) = Masked(out_ + len + 0)
        <4>1. \A i \in Int : Masked(Word(out_ + len) + i) = Masked(out_ + len + i)
          BY <3>0, Places
        <4> QED  BY <4>1
      <3>2. Word(out_ + len) + 0 = Word(out_ + len) /\ out_ + len + 0 = out_ + len
        BY <1>1, <1>4, Words
      <3>3. Masked(out_ + len) = PlaceOf(len)
        BY <3>0, Places DEF PlaceOf
      <3>4. Masked(out_)' = Masked(Word(out_ + len))
        BY <1>2 DEF Masked
      <3> QED  BY <3>1, <3>2, <3>3, <3>4
    <2>2. Masked(out_) \in 0 .. (size_ - 1)
      BY Counters DEF Place
    <2> QED  BY <1>1, <1>3, <2>1, <2>2 DEF PlaceOf
  <1>7. /\ Unread \in Seq(Byte) /\ Len(Unread) = r
        /\ \A i \in 1 .. r : Unread[i] = buffer_[PlaceOf(i - 1)]
    BY UnreadIs DEF HoldsUnread
  <1>8. /\ Unread' \in Seq(Byte) /\ Len(Unread') = k
        /\ \A i \in 1 .. k : Unread'[i] = buffer_[PlaceOf(i - 1)']
    <2>1. (\A q : RingInv(q) => HoldsUnread(q))'
      BY UnreadAlways, PTL
    <2> QED  BY <1>2, <1>5, <2>1 DEF HoldsUnread
  <1>9. /\ rest \in Seq(Byte) /\ Len(rest) = k
        /\ \A i \in 1 .. k : rest[i] = Unread[len + i]
    <2>1. \A i \in (n + 1) .. r : Unread[i] \in Byte
      BY <1>1, <1>7, ElementOfSeq
    <2>2. /\ rest \in Seq(Byte) /\ Len(rest) = IF n + 1 <= r THEN r - (n + 1) + 1 ELSE 0
          /\ \A i \in 1 .. (r - (n + 1) + 1) : rest[i] = Unread[(n + 1) + i - 1]
      BY <1>1, <1>7, <2>1, SubSeqProperties
    <2> HIDE DEF rest
    <2>3. CASE n < r
      <3>1. r - (n + 1) + 1 = k /\ \A i \in 1 .. k : (n + 1) + i - 1 = len + i
        BY <1>1, <1>3, <2>3
      <3> QED  BY <1>1, <2>2, <2>3, <3>1
    <2>4. CASE n >= r
      BY <1>1, <2>2, <2>4
    <2> QED  BY <1>1, <2>3, <2>4
  <1> HIDE DEF rest
  <1>10. ASSUME NEW i \in 1 .. k PROVE Unread'[i] = rest[i]
    <2>1. /\ i - 1 \in 0 .. (k - 1) /\ len + i \in 1 .. r /\ len + (i - 1) = (len + i) - 1
      BY <1>1, <1>3
    <2> QED  BY <1>6, <1>7, <1>8, <1>9, <2>1
  <1>11. Unread' = rest
    BY <1>8, <1>9, <1>10, SeqEqual
  <1> QED  BY <1>1, <1>2, <1>5, <1>11 DEF Queue!Read, rest

LEMMA PeekStep ==
  ASSUME NEW r, RingInv(r), NEW n \in 0 .. MaxLen, peek(n)
  PROVE  (\E k \in 0 .. size_ : RingInv(k)') /\ Queue!Peek
  <1>1. last' = [op |-> "peek", arg |-> n, data |-> Queue!UpTo(n, Unread)]
    BY Fetched, RingBufferAssumption DEF peek
  <1>2. RingInv(r)' /\ Unread' = Unread
    BY DEF peek, RingInv, Unread, readable_size, Masked
  <1> QED  BY <1>1, <1>2 DEF Queue!Peek, RingInv

--------------------------------------------------------------------------------
RingHolds == \E r \in 0 .. size_ : RingInv(r)

LEMMA RingInit == Init => RingHolds /\ Queue!QueueInit
  <1> SUFFICES ASSUME Init PROVE RingHolds /\ Queue!QueueInit
    OBVIOUS
  <1>1. Word(0 + 0) = 0
    BY Whole, Words
  <1>2. RingInv(0)
    BY <1>1, Whole DEF Init, RingInv
  <1>3. Unread = << >>
    <2>1. Unread \in Seq(Byte) /\ Len(Unread) = 0
      BY <1>2, UnreadIs DEF HoldsUnread
    <2> QED  BY <2>1, EmptySeq
  <1> QED  BY <1>2, <1>3, Whole DEF RingHolds, Queue!QueueInit, Init, NoCall

LEMMA RingStep == RingHolds /\ [Next]_vars => RingHolds' /\ [Queue!QueueNext]_<<Unread, last>>
  <1> SUFFICES ASSUME RingHolds, [Next]_vars
               PROVE  RingHolds' /\ [Queue!QueueNext]_<<Unread, last>>
    OBVIOUS
  <1>1. PICK r \in 0 .. size_ : RingInv(r)
    BY DEF RingHolds
  <1>2. ASSUME NEW n \in 0 .. MaxLen, NEW data \in [1 .. n -> Byte], write(data)
        PROVE  RingHolds' /\ Queue!Write
    <2>1. data \in Seq(Byte)
      BY <1>2, RingBufferAssumption
    <2> QED  BY <1>1, <1>2, <2>1, WriteStep DEF RingHolds
  <1>3. ASSUME NEW n \in 0 .. MaxLen, read(n)
        PROVE  RingHolds' /\ Queue!Read
    BY <1>1, <1>3, ReadStep DEF RingHolds
  <1>4. ASSUME NEW n \in 0 .. MaxLen, peek(n)
        PROVE  RingHolds' /\ Queue!Peek
    BY <1>1, <1>4, PeekStep DEF RingHolds
  <1>5. CASE UNCHANGED vars
    BY <1>5 DEF vars, RingHolds, RingInv, Unread, readable_size, Masked
  <1> QED  BY <1>2, <1>3, <1>4, <1>5 DEF Next, Queue!QueueNext

\* The sizes that the program computes are right for ever, and no call leaves the
\* buffer, for every size and every width of the counters (ring_buffer.hpp:25-58).
THEOREM RingBufferTypeCorrect == Spec => []RingBufferTypeOK
  <1>1. RingHolds => RingBufferTypeOK
    <2> SUFFICES ASSUME NEW r \in 0 .. size_, RingInv(r) PROVE RingBufferTypeOK
      BY DEF RingHolds
    <2> QED  BY Counters DEF RingBufferTypeOK, RingInv
  <1> QED  BY RingInit, RingStep, <1>1, PTL DEF Spec

\* The buffer implements the bounded queue: whatever is written, read and peeked in
\* whatever portions, round the end of the buffer and of the counters, bytes come out
\* as they went in (ring_buffer.hpp:25-55).
THEOREM RingBufferIsAQueue == Spec => ImplementsQueue
  <1> QED  BY RingInit, RingStep, PTL DEF Spec, ImplementsQueue, Queue!QueueSpec
================================================================================
