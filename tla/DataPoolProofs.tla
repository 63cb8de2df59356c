------------------------------ MODULE DataPoolProofs -----------------------------
(***************************************************************************)
(* For every set of files, every table and every size: no write leaves its *)
(* row, what was written to a field reads back from it unless a text was   *)
(* written over it, and exactly the written fields are marked.             *)
(*                                                                         *)
(* The invariant has three layers.  ColOK says how the fields of any       *)
(* column lie; FromFile says which property each of them is, for a column  *)
(* that has one file; RowOK says what the buffer and the bits of a row     *)
(* hold.                                                                   *)
(***************************************************************************)
EXTENDS DataPool, SequenceTheorems, TLAPS

\* Fields lie one behind the other, and each name leads to a field of its own.
ColOK(col) ==
  LET F == col.m_vecFields
      N == col.m_mapFieldName2Index
  IN  /\ F \in Seq(Field) /\ col.m_datasize \in Nat
      /\ \A k \in 1 .. Len(F) : F[k].offset + F[k].data_size <= col.m_datasize
      /\ \A j, k \in 1 .. Len(F) : j < k => F[j].offset + F[j].data_size <= F[k].offset
      /\ \A x \in DOMAIN N : N[x] \in 0 .. (Len(F) - 1)
      /\ \A x, y \in DOMAIN N : N[x] = N[y] => x = y

\* The column holds the first n of the properties ms and no others; a name that is
\* there once leads to its property.
FromFile(col, ms, n) ==
  LET F == col.m_vecFields
      N == col.m_mapFieldName2Index
  IN  /\ Len(F) = n /\ n \in 0 .. Len(ms)
      /\ \A k \in 1 .. n : F[k].data_size = DataSize(ms[k].type)
      /\ \A k \in 1 .. n :
           (\A j \in 1 .. n : ms[j].name = ms[k].name => j = k)
             => ms[k].name \in DOMAIN N /\ N[ms[k].name] = k - 1

LEMMA MembersProper ==
  ASSUME NEW f \in File
  PROVE  /\ Members[f] \in Seq([name : STRING, type : STRING])
         /\ Len(Members[f]) \in Nat /\ DOMAIN Members[f] = 1 .. Len(Members[f])
  BY FilesAssumption, LenProperties

LEMMA Sizes ==
  /\ TextSize \in Nat \ {0} /\ NumberSize \in Nat \ {0}
  /\ \A type : DataSize(type) \in {TextSize, NumberSize, 0} /\ DataSize(type) \in Nat
  BY SizeAssumption DEF DataSize

LEMMA EmptyColumn ==
  /\ ColOK(NewColumn)
  /\ \A f \in File : FromFile(NewColumn, Members[f], 0)
  <1>1. << >> \in Seq(Field) /\ Len(<< >>) = 0 /\ DOMAIN << >> = {}
    BY EmptySeq
  <1> QED  BY <1>1, MembersProper DEF ColOK, FromFile, NewColumn

\* What PushProperty makes of a column.
PushedBehind(col, p) ==
  LET F == col.m_vecFields
      N == col.m_mapFieldName2Index
      n == Len(F)
      new == PushProperty(col, p)
      G == new.m_vecFields
  IN  /\ n \in Nat /\ G \in Seq(Field) /\ Len(G) = n + 1
      /\ \A k \in 1 .. n : /\ G[k] = F[k]
                           /\ F[k].offset \in Nat /\ F[k].data_size \in Nat
      /\ G[n + 1].data_size = DataSize(p.type) /\ G[n + 1].offset = col.m_datasize
      /\ new.m_datasize = col.m_datasize + DataSize(p.type)
      /\ new.m_mapFieldName2Index =
           [x \in DOMAIN N \cup {p.name} |-> IF x = p.name THEN n ELSE N[x]]

LEMMA Pushed ==
  ASSUME NEW col, ColOK(col), NEW p
  PROVE  PushedBehind(col, p)
  <1> DEFINE F == col.m_vecFields
             d == [data_size |-> DataSize(p.type), offset |-> col.m_datasize]
             G == Append(F, d)
  <1>1. F \in Seq(Field) /\ Len(F) \in Nat /\ col.m_datasize \in Nat
    BY LenProperties DEF ColOK
  <1>2. d \in Field
    BY <1>1, Sizes DEF Field
  <1>3. /\ G \in Seq(Field) /\ Len(G) = Len(F) + 1
        /\ \A k \in 1 .. Len(F) : G[k] = F[k]
        /\ G[Len(F) + 1] = d
    BY <1>1, <1>2, AppendProperties
  <1>4. ASSUME NEW k \in 1 .. Len(F)
        PROVE  F[k].offset \in Nat /\ F[k].data_size \in Nat
    <2>1. F[k] \in Field
      BY <1>1, ElementOfSeq
    <2> QED  BY <2>1, Sizes DEF Field
  <1>5. d.data_size = DataSize(p.type) /\ d.offset = col.m_datasize
    OBVIOUS
  <1>6. /\ PushProperty(col, p).m_vecFields = G
        /\ PushProperty(col, p).m_datasize = col.m_datasize + DataSize(p.type)
        /\ PushProperty(col, p).m_mapFieldName2Index =
             [x \in DOMAIN col.m_mapFieldName2Index \cup {p.name} |->
                IF x = p.name THEN Len(F) ELSE col.m_mapFieldName2Index[x]]
    BY DEF PushProperty
  <1> HIDE DEF G, d
  <1> QED  BY <1>1, <1>3, <1>4, <1>5, <1>6 DEF PushedBehind

\* PushProperty puts a property of any type behind those that are there.
LEMMA PushKeeps ==
  ASSUME NEW col, ColOK(col), NEW p
  PROVE  ColOK(PushProperty(col, p))
  <1> DEFINE F == col.m_vecFields
             N == col.m_mapFieldName2Index
             n == Len(F)
             new == PushProperty(col, p)
             G == new.m_vecFields
             M == new.m_mapFieldName2Index
             size == DataSize(p.type)
  <1>1. /\ n \in Nat /\ G \in Seq(Field) /\ Len(G) = n + 1
        /\ \A k \in 1 .. n : /\ G[k] = F[k]
                             /\ F[k].offset \in Nat /\ F[k].data_size \in Nat
        /\ G[n + 1].data_size = size /\ G[n + 1].offset = col.m_datasize
        /\ new.m_datasize = col.m_datasize + size
        /\ M = [x \in DOMAIN N \cup {p.name} |-> IF x = p.name THEN n ELSE N[x]]
    <2>1. PushedBehind(col, p)
      BY Pushed
    <2> QED  BY <2>1 DEF PushedBehind
  <1>2. col.m_datasize \in Nat /\ size \in Nat
    BY Sizes DEF ColOK
  <1>3. /\ \A k \in 1 .. n : F[k].offset + F[k].data_size <= col.m_datasize
        /\ \A j, k \in 1 .. n : j < k => F[j].offset + F[j].data_size <= F[k].offset
        /\ \A x \in DOMAIN N : N[x] \in 0 .. (n - 1)
        /\ \A x, y \in DOMAIN N : N[x] = N[y] => x = y
    BY DEF ColOK
  <1> HIDE DEF F, N, n, new, G, M, size
  <1>4. ASSUME NEW k \in 1 .. (n + 1)
        PROVE  G[k].offset + G[k].data_size <= new.m_datasize
    <2>1. CASE k = n + 1
      BY <2>1, <1>1, <1>2
    <2>2. CASE k \in 1 .. n
      <3>1. G[k] = F[k] /\ F[k].offset \in Nat /\ F[k].data_size \in Nat
            /\ F[k].offset + F[k].data_size <= col.m_datasize
        BY <2>2, <1>1, <1>3
      <3> QED  BY <3>1, <1>1, <1>2
    <2> QED  BY <2>1, <2>2, <1>1
  <1>5. ASSUME NEW j \in 1 .. (n + 1), NEW k \in 1 .. (n + 1), j < k
        PROVE  G[j].offset + G[j].data_size <= G[k].offset
    <2>1. j \in 1 .. n
      BY <1>1, <1>5
    <2>2. CASE k = n + 1
      BY <2>1, <2>2, <1>1, <1>3
    <2>3. CASE k \in 1 .. n
      BY <2>1, <2>3, <1>1, <1>3, <1>5
    <2> QED  BY <2>2, <2>3, <1>1
  <1>6. ASSUME NEW x \in DOMAIN M
        PROVE  M[x] \in 0 .. n /\ (x = p.name \/ (x \in DOMAIN N /\ M[x] = N[x] /\ M[x] # n))
    BY <1>1, <1>3
  <1>7. ASSUME NEW x \in DOMAIN M, NEW y \in DOMAIN M, M[x] = M[y]
        PROVE  x = y
    <2>1. CASE x = p.name \/ y = p.name
      BY <2>1, <1>1, <1>6, <1>7
    <2>2. CASE x # p.name /\ y # p.name
      BY <2>2, <1>3, <1>6, <1>7
    <2> QED  BY <2>1, <2>2
  <1>8. new.m_datasize \in Nat /\ (n + 1) - 1 = n
    BY <1>1, <1>2
  <1>9. ColOK(new)
    <2>1. /\ \A k \in 1 .. Len(G) : G[k].offset + G[k].data_size <= new.m_datasize
          /\ \A j, k \in 1 .. Len(G) : j < k => G[j].offset + G[j].data_size <= G[k].offset
          /\ \A x \in DOMAIN M : M[x] \in 0 .. (Len(G) - 1)
          /\ \A x, y \in DOMAIN M : M[x] = M[y] => x = y
      BY <1>1, <1>4, <1>5, <1>6, <1>7, <1>8
    <2> QED  BY <2>1, <1>1, <1>8 DEF ColOK, G, M
  <1> QED  BY <1>9 DEF new

LEMMA PushFromFile ==
  ASSUME NEW col, ColOK(col), NEW f \in File, NEW n \in Nat, n < Len(Members[f]),
         FromFile(col, Members[f], n)
  PROVE  FromFile(PushProperty(col, Members[f][n + 1]), Members[f], n + 1)
  <1> DEFINE ms == Members[f]
             p == ms[n + 1]
             F == col.m_vecFields
             N == col.m_mapFieldName2Index
             new == PushProperty(col, p)
             G == new.m_vecFields
             M == new.m_mapFieldName2Index
  <1>1. /\ Len(F) = n /\ Len(G) = n + 1
        /\ \A k \in 1 .. n : G[k] = F[k]
        /\ G[n + 1].data_size = DataSize(p.type)
        /\ M = [x \in DOMAIN N \cup {p.name} |-> IF x = p.name THEN n ELSE N[x]]
    <2>1. PushedBehind(col, p) /\ Len(F) = n
      BY Pushed DEF FromFile
    <2> QED  BY <2>1 DEF PushedBehind
  <1>2. /\ \A k \in 1 .. n : F[k].data_size = DataSize(ms[k].type)
        /\ \A k \in 1 .. n :
             (\A j \in 1 .. n : ms[j].name = ms[k].name => j = k)
               => ms[k].name \in DOMAIN N /\ N[ms[k].name] = k - 1
    BY DEF FromFile
  <1>3. n + 1 \in 0 .. Len(ms)
    BY MembersProper
  <1> HIDE DEF F, N, new, G, M
  <1>4. ASSUME NEW k \in 1 .. (n + 1)
        PROVE  G[k].data_size = DataSize(ms[k].type)
    <2>1. CASE k = n + 1
      BY <2>1, <1>1
    <2>2. CASE k \in 1 .. n
      BY <2>2, <1>1, <1>2
    <2> QED  BY <2>1, <2>2
  <1>5. ASSUME NEW k \in 1 .. (n + 1),
               \A j \in 1 .. (n + 1) : ms[j].name = ms[k].name => j = k
        PROVE  ms[k].name \in DOMAIN M /\ M[ms[k].name] = k - 1
    <2>1. CASE k = n + 1
      BY <2>1, <1>1
    <2>2. CASE k \in 1 .. n
      <3>1. ms[k].name # p.name
        BY <2>2, <1>5
      <3>2. ms[k].name \in DOMAIN N /\ N[ms[k].name] = k - 1
        BY <2>2, <1>2, <1>5
      <3> QED  BY <3>1, <3>2, <1>1
    <2> QED  BY <2>1, <2>2
  <1>6. FromFile(new, ms, n + 1)
    BY <1>1, <1>3, <1>4, <1>5 DEF FromFile, G, M
  <1> QED  BY <1>6 DEF new

--------------------------------------------------------------------------------
\* The field that a name leads to.
At(col, x) == col.m_vecFields[col.m_mapFieldName2Index[x] + 1]

\* OutOfReach and OnlyText for a given column.
Behind(col, field) ==
  \A x \in TextName \cap DOMAIN col.m_mapFieldName2Index : At(col, x).data_size <= field.offset

Front(col, x) ==
  /\ At(col, x).offset = 0
  /\ \A y \in TextName \cap DOMAIN col.m_mapFieldName2Index : y # x => At(col, y).data_size = 0

\* What a row of a column holds, given what was written to it.
RowOK(row, wr, col) ==
  LET N == col.m_mapFieldName2Index
  IN  /\ row = [buffer |-> row.buffer, bits |-> row.bits]
      /\ row.buffer \in [1 .. col.m_datasize -> Nat]
      /\ wr \in [DOMAIN N -> Text \cup Number \cup {Unset}]
      /\ row.bits = {Bit(N[x]) : x \in {y \in DOMAIN N : wr[y] # Unset}}
      /\ \A x \in NumberName \cap DOMAIN N :
           At(col, x).data_size = NumberSize /\ Behind(col, At(col, x)) =>
             GetValue(row, At(col, x)) =
               IF wr[x] # Unset THEN wr[x] ELSE [b \in 1 .. NumberSize |-> 0]
      /\ \A x \in TextName \cap DOMAIN N :
           Front(col, x) /\ wr[x] # Unset =>
             \A b \in 1 .. At(col, x).data_size : b <= Len(wr[x]) =>
               GetValue(row, At(col, x))[b] = wr[x][b]

LEMMA FieldAt ==
  ASSUME NEW col, ColOK(col), NEW x \in DOMAIN col.m_mapFieldName2Index
  PROVE  /\ At(col, x).offset \in Nat /\ At(col, x).data_size \in Nat /\ col.m_datasize \in Nat
         /\ At(col, x).offset + At(col, x).data_size <= col.m_datasize
  <1> DEFINE F == col.m_vecFields
             k == col.m_mapFieldName2Index[x] + 1
  <1>1. F \in Seq(Field) /\ Len(F) \in Nat /\ k \in 1 .. Len(F) /\ col.m_datasize \in Nat
    BY LenProperties DEF ColOK
  <1>2. F[k] \in Field
    BY <1>1, ElementOfSeq
  <1>3. F[k].offset + F[k].data_size <= col.m_datasize
    BY <1>1 DEF ColOK
  <1> QED  BY <1>1, <1>2, <1>3, Sizes DEF Field, At

\* The fields of two names do not overlap.
LEMMA FieldsApart ==
  ASSUME NEW col, ColOK(col),
         NEW x \in DOMAIN col.m_mapFieldName2Index, NEW y \in DOMAIN col.m_mapFieldName2Index, x # y
  PROVE  \/ At(col, x).offset + At(col, x).data_size <= At(col, y).offset
         \/ At(col, y).offset + At(col, y).data_size <= At(col, x).offset
  <1> DEFINE F == col.m_vecFields
             j == col.m_mapFieldName2Index[x] + 1
             k == col.m_mapFieldName2Index[y] + 1
  <1>1. Len(F) \in Nat /\ j \in 1 .. Len(F) /\ k \in 1 .. Len(F) /\ j # k
    <2>1. /\ Len(F) \in Nat
          /\ col.m_mapFieldName2Index[x] \in 0 .. (Len(F) - 1)
          /\ col.m_mapFieldName2Index[y] \in 0 .. (Len(F) - 1)
          /\ col.m_mapFieldName2Index[x] # col.m_mapFieldName2Index[y]
      BY LenProperties DEF ColOK
    <2> QED  BY <2>1
  <1>2. \A a, b \in 1 .. Len(F) : a < b => F[a].offset + F[a].data_size <= F[b].offset
    BY DEF ColOK
  <1>3. j < k \/ k < j
    BY <1>1
  <1> HIDE DEF j, k
  <1>4. \/ F[j].offset + F[j].data_size <= F[k].offset
        \/ F[k].offset + F[k].data_size <= F[j].offset
    BY <1>1, <1>2, <1>3
  <1> QED  BY <1>4 DEF At, j, k

LEMMA SameParts ==
  ASSUME NEW a \in Nat, NEW b \in Nat, NEW d \in Nat \ {0},
         <<a \div d, a % d>> = <<b \div d, b % d>>
  PROVE  a = b
  OBVIOUS

LEMMA Quotients ==
  ASSUME NEW a \in Nat, NEW b \in Nat, NEW d \in Nat \ {0}, a < b
  PROVE  a \div d \in 0 .. (b \div d)
  OBVIOUS

LEMMA Remainders ==
  ASSUME NEW a \in Nat, NEW d \in Nat \ {0}, NEW w \in Nat \ {0}
  PROVE  a % d \in Nat /\ (a % d) % w \in 0 .. (w - 1)
  OBVIOUS

LEMMA SmallRemainder ==
  ASSUME NEW a \in Nat, NEW n \in Nat, NEW d \in Nat \ {0}, NEW w \in Nat \ {0},
         a < n, d = w \/ n <= w
  PROVE  (a % d) % w = a % d
  OBVIOUS

\* The bit of a field is within the words of the bitset, for words of any size.
LEMMA BitsWithin ==
  ASSUME NEW n \in Nat, NEW j \in 0 .. (n - 1)
  PROVE  Bit(j) \in Bits(n)
  <1>1. BIT_LENGTH \in Nat \ {0} /\ WORD_BITS \in Nat \ {0} /\ j \in Nat /\ j < n
    BY SizeAssumption
  <1>2. j \div BIT_LENGTH \in 0 .. (n \div BIT_LENGTH)
    BY <1>1, Quotients
  <1>3. (j % BIT_LENGTH) % WORD_BITS \in 0 .. (WORD_BITS - 1)
    BY <1>1, Remainders
  <1> QED  BY <1>2, <1>3 DEF Bit, Bits

\* Each field has a bit of its own, if words are as long as the bitset takes them to
\* be or one is enough.
LEMMA BitsApart ==
  ASSUME NEW n \in Nat, NEW j \in 0 .. (n - 1), NEW k \in 0 .. (n - 1),
         BIT_LENGTH = WORD_BITS \/ n <= WORD_BITS, Bit(j) = Bit(k)
  PROVE  j = k
  <1> DEFINE d == BIT_LENGTH
             w == WORD_BITS
  <1>1. d \in Nat \ {0} /\ w \in Nat \ {0} /\ j \in Nat /\ k \in Nat /\ j < n /\ k < n
    BY SizeAssumption
  <1> HIDE DEF d, w
  <1>2. (j % d) % w = j % d /\ (k % d) % w = k % d
    BY <1>1, SmallRemainder DEF d, w
  <1>3. Bit(j) = <<j \div d, j % d>> /\ Bit(k) = <<k \div d, k % d>>
    BY <1>2 DEF Bit, d, w
  <1> QED  BY <1>1, <1>3, SameParts

LEMMA NewRowOK ==
  ASSUME NEW col, ColOK(col)
  PROVE  RowOK(NewRow(col), [x \in DOMAIN col.m_mapFieldName2Index |-> Unset], col)
  <1> DEFINE N == col.m_mapFieldName2Index
             row == NewRow(col)
             wr == [x \in DOMAIN N |-> Unset]
  <1>1. /\ row.buffer = [b \in 1 .. col.m_datasize |-> 0] /\ row.bits = {}
        /\ row = [buffer |-> row.buffer, bits |-> row.bits]
    BY DEF NewRow
  <1>2. row.buffer \in [1 .. col.m_datasize -> Nat]
    BY <1>1
  <1>3. /\ wr \in [DOMAIN N -> Text \cup Number \cup {Unset}]
        /\ \A x \in DOMAIN N : wr[x] = Unset
    OBVIOUS
  <1> HIDE DEF row, wr
  <1>4. row.bits = {Bit(N[x]) : x \in {y \in DOMAIN N : wr[y] # Unset}}
    BY <1>1, <1>3
  <1>5. ASSUME NEW x \in DOMAIN N, At(col, x).data_size = NumberSize
        PROVE  GetValue(row, At(col, x)) = [b \in 1 .. NumberSize |-> 0]
    <2> DEFINE field == At(col, x)
    <2>1. /\ field.offset \in Nat /\ field.offset + NumberSize <= col.m_datasize
          /\ col.m_datasize \in Nat
      BY <1>5, FieldAt
    <2> HIDE DEF field
    <2>2. \A b \in 1 .. NumberSize : row.buffer[field.offset + b] = 0
      BY <1>1, <2>1, Sizes, SMTT(40)
    <2> QED  BY <1>5, <2>2 DEF GetValue, field
  <1>6. RowOK(row, wr, col)
    BY <1>1, <1>2, <1>3, <1>4, <1>5 DEF RowOK
  <1> QED  BY <1>6 DEF row, wr

\* The bytes of one field are none of another's.
LEMMA PlacesApart ==
  ASSUME NEW o \in Nat, NEW n \in Nat, NEW p \in Nat, NEW m \in Nat, NEW size \in Nat,
         o + n <= size, o + n <= p \/ p + m <= o, NEW b \in 1 .. n
  PROVE  o + b \in 1 .. size /\ o + b \notin (p + 1) .. (p + m)
  OBVIOUS

\* Writing a value and marking its field keeps what every other field holds.
LEMMA StoreKeeps ==
  ASSUME NEW col, ColOK(col), NEW row, NEW wr, RowOK(row, wr, col),
         NEW name \in DOMAIN col.m_mapFieldName2Index,
         NEW buffer \in [1 .. col.m_datasize -> Nat], NEW value \in Text \cup Number,
         \A x \in (NumberName \cup TextName) \cap DOMAIN col.m_mapFieldName2Index :
           x # name /\ (x \in NumberName => Behind(col, At(col, x)))
                    /\ (x \in TextName => Front(col, x))
             => \A b \in 1 .. At(col, x).data_size :
                  buffer[At(col, x).offset + b] = row.buffer[At(col, x).offset + b],
         name \in NumberName /\ At(col, name).data_size = NumberSize =>
           [b \in 1 .. NumberSize |-> buffer[At(col, name).offset + b]] = value,
         name \in TextName /\ Front(col, name) =>
           \A b \in 1 .. At(col, name).data_size : b <= Len(value) =>
             buffer[At(col, name).offset + b] = value[b]
  PROVE  RowOK([buffer |-> buffer, bits |-> set(row.bits, col.m_mapFieldName2Index[name])],
               [wr EXCEPT ![name] = value], col)
  <1> DEFINE N == col.m_mapFieldName2Index
             new == [buffer |-> buffer, bits |-> set(row.bits, N[name])]
             wrn == [wr EXCEPT ![name] = value]
  <1>1. wr \in [DOMAIN N -> Text \cup Number \cup {Unset}]
        /\ row.bits = {Bit(N[x]) : x \in {y \in DOMAIN N : wr[y] # Unset}}
    BY DEF RowOK
  <1>2. value # Unset
    BY SizeAssumption
  <1>3. /\ wrn \in [DOMAIN N -> Text \cup Number \cup {Unset}]
        /\ wrn[name] = value
        /\ \A x \in DOMAIN N : x # name => wrn[x] = wr[x]
    BY <1>1
  <1>4. /\ new.buffer = buffer /\ new.bits = set(row.bits, N[name])
        /\ new = [buffer |-> new.buffer, bits |-> new.bits]
    OBVIOUS
  <1> HIDE DEF new, wrn
  <1>5. new.bits = {Bit(N[x]) : x \in {y \in DOMAIN N : wrn[y] # Unset}}
    <2>1. {y \in DOMAIN N : wrn[y] # Unset} = {y \in DOMAIN N : wr[y] # Unset} \cup {name}
      BY <1>2, <1>3
    <2> HIDE DEF N
    <2> QED  BY <2>1, <1>1, <1>4 DEF set
  <1>6. \A x \in DOMAIN N : GetValue(new, At(col, x)) =
                              [b \in 1 .. At(col, x).data_size |-> buffer[At(col, x).offset + b]]
    BY <1>4 DEF GetValue
  <1>7. ASSUME NEW x \in (NumberName \cup TextName) \cap DOMAIN N, x # name,
               x \in NumberName => Behind(col, At(col, x)),
               x \in TextName => Front(col, x)
        PROVE  GetValue(new, At(col, x)) = GetValue(row, At(col, x))
    <2>1. \A b \in 1 .. At(col, x).data_size :
            buffer[At(col, x).offset + b] = row.buffer[At(col, x).offset + b]
      BY <1>7
    <2> QED  BY <2>1, <1>6 DEF GetValue
  <1>8. ASSUME NEW x \in NumberName \cap DOMAIN N,
               At(col, x).data_size = NumberSize, Behind(col, At(col, x))
        PROVE  GetValue(new, At(col, x)) =
                 IF wrn[x] # Unset THEN wrn[x] ELSE [b \in 1 .. NumberSize |-> 0]
    <2>1. CASE x = name
      BY <2>1, <1>2, <1>3, <1>6, <1>8
    <2>2. CASE x # name
      <3>1. x \notin TextName
        BY <1>8, CallsAssumption
      <3>2. GetValue(new, At(col, x)) = GetValue(row, At(col, x))
        BY <2>2, <3>1, <1>7, <1>8
      <3>3. GetValue(row, At(col, x)) =
              IF wr[x] # Unset THEN wr[x] ELSE [b \in 1 .. NumberSize |-> 0]
        BY <1>8 DEF RowOK
      <3> QED  BY <2>2, <3>2, <3>3, <1>3
    <2> QED  BY <2>1, <2>2
  <1>9. ASSUME NEW x \in TextName \cap DOMAIN N, Front(col, x), wrn[x] # Unset,
               NEW b \in 1 .. At(col, x).data_size, b <= Len(wrn[x])
        PROVE  GetValue(new, At(col, x))[b] = wrn[x][b]
    <2>1. CASE x = name
      <3>1. buffer[At(col, x).offset + b] = value[b]
        BY <2>1, <1>3, <1>9
      <3>2. GetValue(new, At(col, x))[b] = buffer[At(col, x).offset + b]
        BY <1>6, <1>9
      <3> QED  BY <2>1, <3>1, <3>2, <1>3
    <2>2. CASE x # name
      <3>1. x \notin NumberName
        BY <1>9, CallsAssumption
      <3>2. GetValue(new, At(col, x)) = GetValue(row, At(col, x))
        BY <2>2, <3>1, <1>7, <1>9
      <3>3. wr[x] # Unset /\ b <= Len(wr[x])
        BY <2>2, <1>3, <1>9
      <3>4. GetValue(row, At(col, x))[b] = wr[x][b]
        BY <3>3, <1>9 DEF RowOK
      <3> QED  BY <2>2, <3>2, <3>4, <1>3
    <2> QED  BY <2>1, <2>2
  <1>10. RowOK(new, wrn, col)
    BY <1>3, <1>4, <1>5, <1>8, <1>9 DEF RowOK
  <1> QED  BY <1>10 DEF new, wrn

\* memcpy changes the bytes it is told to, and no others.
CopyOf(new, size, buffer, to, value, n) ==
  /\ new \in [1 .. size -> Nat]
  /\ \A b \in 1 .. size : b \notin (to + 1) .. (to + n) => new[b] = buffer[b]
  /\ \A b \in 1 .. n : new[to + b] = value[b]

LEMMA Copied ==
  ASSUME NEW size \in Nat, NEW buffer \in [1 .. size -> Nat],
         NEW to \in Nat, NEW n \in Nat, to + n <= size,
         NEW value \in Seq(Nat), n <= Len(value)
  PROVE  CopyOf(memcpy(buffer, to, value, n), size, buffer, to, value, n)
  <1> DEFINE own == (to + 1) .. (to + n)
             new == memcpy(buffer, to, value, n)
  <1>1. value \in [1 .. Len(value) -> Nat] /\ Len(value) \in Nat
    BY LenProperties
  <1>2. DOMAIN buffer \cup own = 1 .. size
    OBVIOUS
  <1>3. new = [b \in 1 .. size |-> IF b \in own THEN value[b - to] ELSE buffer[b]]
    BY <1>2 DEF memcpy
  <1>4. \A b \in own : b - to \in 1 .. Len(value)
    BY <1>1
  <1>5. \A b \in 1 .. n : to + b \in own /\ (to + b) - to = b /\ to + b \in 1 .. size
    OBVIOUS
  <1> HIDE DEF own, new
  <1>6. /\ new \in [1 .. size -> Nat]
        /\ \A b \in 1 .. size : b \notin own => new[b] = buffer[b]
        /\ \A b \in 1 .. n : new[to + b] = value[b]
    BY <1>1, <1>3, <1>4, <1>5
  <1> QED  BY <1>6 DEF own, new, CopyOf

\* SetValue writes a number to its field.
LEMMA SetValueOK ==
  ASSUME NEW col, ColOK(col), NEW row, NEW wr, RowOK(row, wr, col),
         NEW name \in NumberName \cap DOMAIN col.m_mapFieldName2Index,
         At(col, name).data_size = NumberSize, NEW number \in Number
  PROVE  RowOK(SetValue(row, At(col, name), col.m_mapFieldName2Index[name], number),
               [wr EXCEPT ![name] = number], col)
  <1> DEFINE field == At(col, name)
             buffer == memcpy(row.buffer, field.offset, number, NumberSize)
  <1>1. /\ field.offset \in Nat /\ field.offset + NumberSize <= col.m_datasize
        /\ col.m_datasize \in Nat /\ NumberSize \in Nat
    BY FieldAt, Sizes
  <1>2. number \in Seq(Nat) /\ Len(number) = NumberSize /\ number \in [1 .. NumberSize -> Nat]
    BY SizeAssumption, LenProperties
  <1>3. row.buffer \in [1 .. col.m_datasize -> Nat]
    BY DEF RowOK
  <1> HIDE DEF field
  <1>4. /\ buffer \in [1 .. col.m_datasize -> Nat]
        /\ \A b \in 1 .. col.m_datasize :
             b \notin (field.offset + 1) .. (field.offset + NumberSize) => buffer[b] = row.buffer[b]
        /\ \A b \in 1 .. NumberSize : buffer[field.offset + b] = number[b]
    <2>1. NumberSize <= Len(number)
      BY <1>1, <1>2
    <2>2. CopyOf(buffer, col.m_datasize, row.buffer, field.offset, number, NumberSize)
      BY <2>1, <1>1, <1>2, <1>3, Copied
    <2> QED  BY <2>2 DEF CopyOf
  <1> HIDE DEF buffer
  <1>5. [b \in 1 .. NumberSize |-> buffer[field.offset + b]] = number
    BY <1>2, <1>4
  <1>6. ASSUME NEW x \in DOMAIN col.m_mapFieldName2Index, x # name,
               NEW b \in 1 .. At(col, x).data_size
        PROVE  buffer[At(col, x).offset + b] = row.buffer[At(col, x).offset + b]
    <2>1. /\ At(col, x).offset \in Nat /\ At(col, x).data_size \in Nat
          /\ At(col, x).offset + At(col, x).data_size <= col.m_datasize
      BY FieldAt
    <2>2. \/ At(col, x).offset + At(col, x).data_size <= field.offset
          \/ field.offset + NumberSize <= At(col, x).offset
      BY <1>6, FieldsApart DEF field
    <2>3. /\ At(col, x).offset + b \in 1 .. col.m_datasize
          /\ At(col, x).offset + b \notin (field.offset + 1) .. (field.offset + NumberSize)
      BY <1>1, <2>1, <2>2, PlacesApart
    <2> QED  BY <1>4, <2>3
  <1>7. name \notin TextName
    BY CallsAssumption
  <1>8. RowOK([buffer |-> buffer, bits |-> set(row.bits, col.m_mapFieldName2Index[name])],
              [wr EXCEPT ![name] = number], col)
    BY <1>4, <1>5, <1>6, <1>7, StoreKeeps DEF field
  <1> QED  BY <1>8 DEF SetValue, buffer, field

\* SetValueString writes a text, cut to its field, to the front of the row.
LEMMA SetValueStringOK ==
  ASSUME NEW col, ColOK(col), NEW row, NEW wr, RowOK(row, wr, col),
         NEW name \in TextName \cap DOMAIN col.m_mapFieldName2Index, NEW text \in Text
  PROVE  RowOK(SetValueString(row, At(col, name), col.m_mapFieldName2Index[name], text),
               [wr EXCEPT ![name] = text], col)
  <1> DEFINE field == At(col, name)
             len == IF Len(text) > field.data_size THEN field.data_size ELSE Len(text)
             buffer == memcpy(row.buffer, 0, text, len)
  <1>1. /\ field.data_size \in Nat /\ field.data_size <= col.m_datasize
        /\ col.m_datasize \in Nat
    BY FieldAt
  <1>2. text \in Seq(Nat) /\ Len(text) \in Nat
    BY SizeAssumption, LenProperties
  <1>3. row.buffer \in [1 .. col.m_datasize -> Nat]
    BY DEF RowOK
  <1> HIDE DEF field
  <1>4. /\ len \in Nat /\ len <= field.data_size /\ len <= Len(text)
        /\ \A b \in 1 .. field.data_size : b <= Len(text) => b \in 1 .. len
    BY <1>1, <1>2
  <1> HIDE DEF len
  <1>5. /\ buffer \in [1 .. col.m_datasize -> Nat]
        /\ \A b \in 1 .. col.m_datasize : b \notin 1 .. len => buffer[b] = row.buffer[b]
        /\ \A b \in 1 .. len : buffer[b] = text[b]
    <2>1. 0 + len <= col.m_datasize /\ 0 + 1 = 1 /\ 0 + len = len
          /\ \A b \in 1 .. len : 0 + b = b
      BY <1>1, <1>4
    <2>2. CopyOf(buffer, col.m_datasize, row.buffer, 0, text, len)
      BY <2>1, <1>1, <1>2, <1>3, <1>4, Copied
    <2> HIDE DEF buffer
    <2> QED  BY <2>1, <2>2 DEF CopyOf
  <1> HIDE DEF buffer
  <1>6. ASSUME NEW x \in (NumberName \cup TextName) \cap DOMAIN col.m_mapFieldName2Index, x # name,
               x \in NumberName => Behind(col, At(col, x)), x \in TextName => Front(col, x),
               NEW b \in 1 .. At(col, x).data_size
        PROVE  buffer[At(col, x).offset + b] = row.buffer[At(col, x).offset + b]
    <2>1. /\ At(col, x).offset \in Nat /\ At(col, x).data_size \in Nat
          /\ At(col, x).offset + At(col, x).data_size <= col.m_datasize
      BY FieldAt
    <2>2. field.data_size <= At(col, x).offset
      <3>1. CASE x \in NumberName
        BY <3>1, <1>6 DEF Behind, field
      <3>2. CASE x \in TextName
        <4>1. field.data_size = 0
          BY <3>2, <1>6 DEF Front, field
        <4> QED  BY <4>1, <2>1
      <3> QED  BY <3>1, <3>2
    <2>3. /\ At(col, x).offset + b \in 1 .. col.m_datasize
          /\ At(col, x).offset + b \notin 1 .. len
      BY <1>1, <1>4, <2>1, <2>2, SMTT(40)
    <2> QED  BY <1>5, <2>3
  <1>7. ASSUME Front(col, name), NEW b \in 1 .. At(col, name).data_size, b <= Len(text)
        PROVE  buffer[At(col, name).offset + b] = text[b]
    <2>1. At(col, name).offset = 0 /\ 0 + b = b /\ b \in 1 .. len
      BY <1>1, <1>4, <1>7 DEF Front, field
    <2> QED  BY <2>1, <1>5
  <1>8. name \notin NumberName
    BY CallsAssumption
  <1>9. RowOK([buffer |-> buffer, bits |-> set(row.bits, col.m_mapFieldName2Index[name])],
              [wr EXCEPT ![name] = text], col)
    BY <1>5, <1>6, <1>7, <1>8, StoreKeeps
  <1> QED  BY <1>9 DEF SetValueString, buffer, field, len

--------------------------------------------------------------------------------
\* How much of a file its table has.
Progress(f) == IF f = reading THEN at - 1 ELSE Len(Members[f])

Alone(f) == \A g \in File : szFileName[g] = szFileName[f] => g = f

TablesInv ==
  /\ todo \subseteq File
  /\ reading \in (File \ todo) \cup {nullptr}
  /\ at \in Nat
  /\ reading # nullptr => at \in 1 .. (Len(Members[reading]) + 1)
  /\ \A t \in DOMAIN m_TableMap : ColOK(m_TableMap[t]) /\ \E f \in File \ todo : t = szFileName[f]
  /\ \A f \in File \ todo : szFileName[f] \in DOMAIN m_TableMap
  /\ \A f \in File \ todo :
       Alone(f) => FromFile(m_TableMap[szFileName[f]], Members[f], Progress(f))

RowsInv ==
  /\ DOMAIN arrRow_ = Slot /\ DOMAIN written = Slot
  /\ dt_ \in TableName \cup {nullptr}
  /\ dt_ # nullptr => Loaded /\ dt_ \in DOMAIN m_TableMap
  /\ \A i \in Slot : arrRow_[i] # nullptr =>
       dt_ # nullptr /\ RowOK(arrRow_[i], written[i], Column)

\* GetItemID fails only where there is no number at its place.
NoNumber ==
  \/ GetItemID_index >= Len(Column.m_vecFields)
  \/ GetField(GetItemID_index).data_size # NumberSize

ProcessInv ==
  /\ process \in Assertion \cup {"running"}
  /\ process \in {"DataPool.h:32", "DataPool.h:82"} => dt_ # nullptr /\ NoNumber

DataPoolInv == TablesInv /\ RowsInv /\ ProcessInv

\* Between two files every file that was read is in its table.
LEMMA WholeFiles ==
  ASSUME TablesInv, Idle, NEW f \in File
  PROVE  Progress(f) = Len(Members[f])
  <1>1. f # nullptr /\ Len(Members[f]) \in Nat
    BY NullAssumption, MembersProper
  <1> QED  BY <1>1 DEF TablesInv, Idle, Progress

LEMMA DataPoolInitInv == Init => DataPoolInv
  <1> SUFFICES ASSUME Init PROVE DataPoolInv
    OBVIOUS
  <1>1. TablesInv
    <2>1. m_TableMap = << >> /\ DOMAIN << >> = {} /\ File \ todo = {}
      BY DEF Init
    <2> QED  BY <2>1 DEF Init, TablesInv
  <1>2. RowsInv
    BY DEF Init, RowsInv, Slot
  <1>3. ProcessInv
    BY DEF Init, ProcessInv
  <1> QED  BY <1>1, <1>2, <1>3 DEF DataPoolInv

\* While tables are loaded there is no row.
LEMMA NoRowsYet ==
  ASSUME RowsInv, ProcessInv, ~ Loaded, UNCHANGED <<dt_, rowvars, process>>
  PROVE  RowsInv' /\ ProcessInv'
  <1>1. dt_ = nullptr /\ \A i \in Slot : arrRow_[i] = nullptr
    BY DEF RowsInv
  <1>2. process \notin {"DataPool.h:32", "DataPool.h:82"}
    BY <1>1 DEF ProcessInv
  <1> QED  BY <1>1, <1>2 DEF RowsInv, ProcessInv, rowvars, Slot

LEMMA LoadFileInv ==
  ASSUME DataPoolInv, NEW f \in File, LoadFile(f)
  PROVE  DataPoolInv'
  <1> DEFINE t == szFileName[f]
  <1>1. /\ f \in todo /\ todo' = todo \ {f} /\ reading' = f /\ at' = 1
        /\ m_TableMap' = [u \in DOMAIN m_TableMap \cup {t} |->
                            IF u \in DOMAIN m_TableMap THEN m_TableMap[u] ELSE NewColumn]
    BY DEF LoadFile
  <1>2. todo' \subseteq File /\ File \ todo' = (File \ todo) \cup {f}
    BY <1>1 DEF DataPoolInv, TablesInv
  <1>3. /\ DOMAIN m_TableMap' = DOMAIN m_TableMap \cup {t}
        /\ \A u \in DOMAIN m_TableMap : m_TableMap'[u] = m_TableMap[u]
        /\ t \notin DOMAIN m_TableMap => m_TableMap'[t] = NewColumn
    BY <1>1
  <1>4. ASSUME NEW u \in DOMAIN m_TableMap'
        PROVE  ColOK(m_TableMap'[u]) /\ \E g \in File \ todo' : u = szFileName[g]
    <2>1. CASE u \in DOMAIN m_TableMap
      BY <2>1, <1>2, <1>3 DEF DataPoolInv, TablesInv
    <2>2. CASE u \notin DOMAIN m_TableMap
      BY <2>2, <1>2, <1>3, EmptyColumn
    <2> QED  BY <2>1, <2>2
  <1>5. ASSUME NEW g \in File \ todo'
        PROVE  szFileName[g] \in DOMAIN m_TableMap'
    BY <1>2, <1>3 DEF DataPoolInv, TablesInv
  <1>6. ASSUME NEW g \in File \ todo', Alone(g)
        PROVE  FromFile(m_TableMap'[szFileName[g]], Members[g],
                        IF g = f THEN 0 ELSE Len(Members[g]))
    <2>1. CASE g = f
      <3>1. t \notin DOMAIN m_TableMap
        BY <2>1, <1>1, <1>6 DEF DataPoolInv, TablesInv, Alone
      <3> QED  BY <2>1, <3>1, <1>3, EmptyColumn
    <2>2. CASE g # f
      <3>1. g \in File \ todo /\ szFileName[g] \in DOMAIN m_TableMap
        BY <2>2, <1>2 DEF DataPoolInv, TablesInv
      <3>2. Progress(g) = Len(Members[g])
        BY <3>1, WholeFiles DEF DataPoolInv, LoadFile
      <3>3. FromFile(m_TableMap[szFileName[g]], Members[g], Len(Members[g]))
        BY <3>1, <3>2, <1>6 DEF DataPoolInv, TablesInv
      <3> QED  BY <2>2, <3>1, <3>3, <1>3
    <2> QED  BY <2>1, <2>2
  <1>7. \A g \in File : Progress(g)' = IF g = f THEN 0 ELSE Len(Members[g])
    BY <1>1 DEF Progress
  <1>8. TablesInv'
    <2>1. reading' \in (File \ todo') \cup {nullptr} /\ at' \in Nat
      BY <1>1, <1>2
    <2>2. reading' # nullptr => at' \in 1 .. (Len(Members[reading']) + 1)
      BY <1>1, MembersProper
    <2>3. \A g \in File \ todo' :
            Alone(g) => FromFile(m_TableMap'[szFileName[g]], Members[g], Progress(g)')
      BY <1>6, <1>7
    <2> QED  BY <1>2, <1>4, <1>5, <2>1, <2>2, <2>3 DEF TablesInv, Alone
  <1>9. ~ Loaded
    BY <1>1 DEF Loaded
  <1>10. RowsInv' /\ ProcessInv'
    BY <1>9, NoRowsYet DEF DataPoolInv, LoadFile
  <1> QED  BY <1>8, <1>10 DEF DataPoolInv

LEMMA ParseFromDocInv ==
  ASSUME DataPoolInv, ParseFromDoc
  PROVE  DataPoolInv'
  <1> DEFINE f == reading
             t == szFileName[f]
             n == at - 1
             p == Members[f][at]
  <1>1. /\ f \in File \ todo /\ at \in Nat /\ at \in 1 .. Len(Members[f])
        /\ at' = at + 1 /\ reading' = reading /\ todo' = todo
        /\ m_TableMap' = [m_TableMap EXCEPT ![t] = PushProperty(@, p)]
    BY MembersProper DEF DataPoolInv, TablesInv, ParseFromDoc, Idle
  <1>2. t \in DOMAIN m_TableMap /\ ColOK(m_TableMap[t])
    BY <1>1 DEF DataPoolInv, TablesInv
  <1>3. n \in Nat /\ n < Len(Members[f]) /\ n + 1 = at /\ at' - 1 = n + 1
    BY <1>1, MembersProper
  <1>4. /\ DOMAIN m_TableMap' = DOMAIN m_TableMap
        /\ m_TableMap'[t] = PushProperty(m_TableMap[t], p)
        /\ \A u \in DOMAIN m_TableMap : u # t => m_TableMap'[u] = m_TableMap[u]
    BY <1>1, <1>2
  <1>5. ASSUME NEW u \in DOMAIN m_TableMap'
        PROVE  ColOK(m_TableMap'[u]) /\ \E g \in File \ todo' : u = szFileName[g]
    BY <1>1, <1>2, <1>4, PushKeeps DEF DataPoolInv, TablesInv
  <1>6. ASSUME NEW g \in File \ todo, Alone(g)
        PROVE  FromFile(m_TableMap'[szFileName[g]], Members[g], Progress(g)')
    <2>1. szFileName[g] \in DOMAIN m_TableMap
          /\ FromFile(m_TableMap[szFileName[g]], Members[g], Progress(g))
      BY <1>6 DEF DataPoolInv, TablesInv
    <2>2. CASE g = f
      <3>1. Progress(g) = n /\ Progress(g)' = n + 1
        BY <2>2, <1>1, <1>3 DEF Progress
      <3>2. FromFile(PushProperty(m_TableMap[t], Members[f][n + 1]), Members[f], n + 1)
        BY <2>1, <2>2, <3>1, <1>1, <1>2, <1>3, PushFromFile
      <3> QED  BY <2>2, <3>1, <3>2, <1>3, <1>4
    <2>3. CASE g # f
      <3>1. szFileName[g] # t
        BY <2>3, <1>1, <1>6 DEF Alone
      <3>2. Progress(g)' = Progress(g)
        BY <2>3, <1>1 DEF Progress
      <3> QED  BY <2>1, <3>1, <3>2, <1>4
    <2> QED  BY <2>2, <2>3
  <1>7. at' \in 1 .. (Len(Members[f]) + 1) /\ at' \in Nat
    BY <1>1, MembersProper
  <1>8. TablesInv'
    <2>1. /\ todo' \subseteq File
          /\ reading' \in (File \ todo') \cup {nullptr}
          /\ \A g \in File \ todo' : szFileName[g] \in DOMAIN m_TableMap'
      BY <1>1, <1>4 DEF DataPoolInv, TablesInv
    <2>2. \A g \in File \ todo' :
            Alone(g) => FromFile(m_TableMap'[szFileName[g]], Members[g], Progress(g)')
      BY <1>1, <1>6
    <2> QED  BY <1>1, <1>5, <1>7, <2>1, <2>2 DEF TablesInv, Alone
  <1>9. ~ Loaded
    BY DEF ParseFromDoc, Loaded
  <1>10. RowsInv' /\ ProcessInv'
    BY <1>9, NoRowsYet DEF DataPoolInv, ParseFromDoc
  <1> QED  BY <1>8, <1>10 DEF DataPoolInv

\* Tables do not change any more.
LEMMA TablesStay ==
  ASSUME TablesInv, UNCHANGED poolvars
  PROVE  /\ TablesInv' /\ (Loaded' <=> Loaded) /\ m_TableMap' = m_TableMap
         /\ dt_' = dt_ => Column' = Column /\ (NoNumber' <=> NoNumber)
  <1>1. m_TableMap' = m_TableMap /\ todo' = todo /\ reading' = reading /\ at' = at
    BY DEF poolvars
  <1>2. TablesInv'
    BY <1>1 DEF TablesInv, Progress
  <1>3. Loaded' <=> Loaded
    BY <1>1 DEF Loaded, Idle
  <1>4. ASSUME dt_' = dt_ PROVE Column' = Column /\ (NoNumber' <=> NoNumber)
    BY <1>1, <1>4 DEF Column, NoNumber, GetField
  <1> QED  BY <1>1, <1>2, <1>3, <1>4

\* An assertion that fails leaves everything else as it is.
LEMMA AbortInv ==
  ASSUME DataPoolInv, NEW line \in Assertion, Abort(line),
         line \in {"DataPool.h:32", "DataPool.h:82"} => dt_ # nullptr /\ NoNumber
  PROVE  DataPoolInv'
  <1>1. UNCHANGED poolvars /\ dt_' = dt_ /\ arrRow_' = arrRow_ /\ written' = written
        /\ process' = line
    BY DEF Abort, rowvars
  <1>2. /\ TablesInv' /\ (Loaded' <=> Loaded) /\ m_TableMap' = m_TableMap
        /\ Column' = Column /\ (NoNumber' <=> NoNumber)
    BY <1>1, TablesStay DEF DataPoolInv
  <1>3. RowsInv'
    BY <1>1, <1>2 DEF DataPoolInv, RowsInv, Slot
  <1>4. ProcessInv'
    BY <1>1, <1>2 DEF ProcessInv
  <1> QED  BY <1>2, <1>3, <1>4 DEF DataPoolInv

LEMMA ItemDBInv ==
  ASSUME DataPoolInv, NEW name \in TableName, ItemDB(name)
  PROVE  DataPoolInv'
  <1>1. CASE Abort("DataPoolConfig.h:42")
    BY <1>1, AbortInv DEF Assertion
  <1>2. CASE /\ name \in DOMAIN m_TableMap /\ dt_' = name
             /\ UNCHANGED <<poolvars, rowvars, process>>
    <2>1. Loaded /\ dt_ = nullptr
      BY DEF ItemDB
    <2>2. TablesInv' /\ Loaded' /\ m_TableMap' = m_TableMap
      BY <1>2, <2>1, TablesStay DEF DataPoolInv
    <2>3. arrRow_' = arrRow_ /\ written' = written /\ process' = process
      BY <1>2 DEF rowvars
    <2>4. RowsInv'
      <3>1. \A i \in Slot : arrRow_'[i] = nullptr
        BY <2>1, <2>3 DEF DataPoolInv, RowsInv
      <3> QED  BY <1>2, <2>2, <2>3, <3>1 DEF DataPoolInv, RowsInv, Slot
    <2>5. ProcessInv'
      BY <2>1, <2>3 DEF DataPoolInv, ProcessInv
    <2> QED  BY <2>2, <2>4, <2>5 DEF DataPoolInv
  <1> QED  BY <1>1, <1>2 DEF ItemDB

\* A slot that comes to hold a row that is as it should be.
LEMMA SlotInv ==
  ASSUME DataPoolInv, dt_ # nullptr, NEW i \in Slot, NEW row, NEW wr,
         RowOK(row, wr, Column),
         arrRow_' = [arrRow_ EXCEPT ![i] = row], written' = [written EXCEPT ![i] = wr],
         UNCHANGED <<poolvars, dt_, process>>
  PROVE  DataPoolInv'
  <1>1. UNCHANGED poolvars /\ dt_' = dt_ /\ process' = process
    OBVIOUS
  <1>2. /\ TablesInv' /\ (Loaded' <=> Loaded) /\ m_TableMap' = m_TableMap
        /\ Column' = Column /\ (NoNumber' <=> NoNumber)
    BY <1>1, TablesStay DEF DataPoolInv
  <1>3. ASSUME NEW j \in Slot, arrRow_'[j] # nullptr
        PROVE  RowOK(arrRow_'[j], written'[j], Column)
    <2>1. CASE j = i
      BY <2>1 DEF DataPoolInv, RowsInv
    <2>2. CASE j # i
      <3>1. arrRow_'[j] = arrRow_[j] /\ written'[j] = written[j]
        BY <2>2 DEF DataPoolInv, RowsInv
      <3> QED  BY <3>1, <1>3 DEF DataPoolInv, RowsInv
    <2> QED  BY <2>1, <2>2
  <1>4. DOMAIN arrRow_' = Slot /\ DOMAIN written' = Slot
    BY DEF DataPoolInv, RowsInv
  <1>5. RowsInv'
    BY <1>1, <1>2, <1>3, <1>4 DEF DataPoolInv, RowsInv, Slot
  <1>6. ProcessInv'
    BY <1>1, <1>2 DEF DataPoolInv, ProcessInv
  <1> QED  BY <1>2, <1>5, <1>6 DEF DataPoolInv

\* The column of ItemDB.
LEMMA ColumnOK ==
  ASSUME DataPoolInv, dt_ # nullptr
  PROVE  ColOK(Column) /\ \A name \in Names : FieldOf(name) = At(Column, name)
  <1>1. ColOK(Column)
    BY DEF DataPoolInv, RowsInv, TablesInv, Column
  <1> QED  BY <1>1 DEF FieldOf, GetField, GetFieldIndex, At

LEMMA CreateItemInv ==
  ASSUME DataPoolInv, CreateItem
  PROVE  DataPoolInv'
  <1>1. PICK i \in Slot : /\ arrRow_' = [arrRow_ EXCEPT ![i] = NewRow(Column)]
                          /\ written' = [written EXCEPT ![i] = [n \in Names |-> Unset]]
    BY DEF CreateItem
  <1>2. dt_ # nullptr /\ UNCHANGED <<poolvars, dt_, process>>
    BY DEF CreateItem
  <1>3. RowOK(NewRow(Column), [n \in Names |-> Unset], Column)
    BY <1>2, ColumnOK, NewRowOK DEF Names
  <1> HIDE DEF Names
  <1> QED  BY <1>1, <1>2, <1>3, SlotInv

LEMMA StoreInv ==
  ASSUME DataPoolInv, NEW i \in Slot, arrRow_[i] # nullptr, NEW name, NEW row, NEW value,
         RowOK(row, [written[i] EXCEPT ![name] = value], Column), Store(i, name, row, value)
  PROVE  DataPoolInv'
  <1>1. dt_ # nullptr
    BY DEF DataPoolInv, RowsInv
  <1>2. written' = [written EXCEPT ![i] = [written[i] EXCEPT ![name] = value]]
    BY DEF Store, DataPoolInv, RowsInv
  <1>3. arrRow_' = [arrRow_ EXCEPT ![i] = row] /\ UNCHANGED <<poolvars, dt_, process>>
    BY DEF Store
  <1> QED  BY <1>1, <1>2, <1>3, SlotInv

LEMMA SetNumberInv ==
  ASSUME DataPoolInv, NEW i \in Slot, arrRow_[i] # nullptr,
         NEW name \in NumberName, NEW number \in Number, SetNumber(i, name, number)
  PROVE  DataPoolInv'
  <1>1. CASE Abort("DataPool.h:87") \/ Abort("DataPool.h:43")
    BY <1>1, AbortInv DEF Assertion
  <1>2. CASE /\ name \in Names /\ FieldOf(name).data_size = NumberSize
             /\ Store(i, name,
                      SetValue(arrRow_[i], FieldOf(name), GetFieldIndex(name), number), number)
    <2>1. dt_ # nullptr /\ RowOK(arrRow_[i], written[i], Column)
      BY DEF DataPoolInv, RowsInv
    <2>2. ColOK(Column) /\ FieldOf(name) = At(Column, name)
      BY <1>2, <2>1, ColumnOK
    <2>3. RowOK(SetValue(arrRow_[i], FieldOf(name), GetFieldIndex(name), number),
                [written[i] EXCEPT ![name] = number], Column)
      BY <1>2, <2>1, <2>2, SetValueOK DEF GetFieldIndex, Names
    <2> QED  BY <1>2, <2>3, StoreInv
  <1> QED  BY <1>1, <1>2 DEF SetNumber

LEMMA SetTextInv ==
  ASSUME DataPoolInv, NEW i \in Slot, arrRow_[i] # nullptr,
         NEW name \in TextName, NEW text \in Text, SetText(i, name, text)
  PROVE  DataPoolInv'
  <1>1. CASE Abort("DataPool.h:87")
    BY <1>1, AbortInv DEF Assertion
  <1>2. CASE /\ name \in Names
             /\ Store(i, name,
                      SetValueString(arrRow_[i], FieldOf(name), GetFieldIndex(name), text), text)
    <2>1. dt_ # nullptr /\ RowOK(arrRow_[i], written[i], Column)
      BY DEF DataPoolInv, RowsInv
    <2>2. ColOK(Column) /\ FieldOf(name) = At(Column, name)
      BY <1>2, <2>1, ColumnOK
    <2>3. RowOK(SetValueString(arrRow_[i], FieldOf(name), GetFieldIndex(name), text),
                [written[i] EXCEPT ![name] = text], Column)
      BY <1>2, <2>1, <2>2, SetValueStringOK DEF GetFieldIndex, Names
    <2> QED  BY <1>2, <2>3, StoreInv
  <1> QED  BY <1>1, <1>2 DEF SetText

LEMMA GetItemIDFailsInv ==
  ASSUME DataPoolInv, NEW i \in Slot, arrRow_[i] # nullptr, GetItemIDFails
  PROVE  DataPoolInv'
  <1>1. dt_ # nullptr
    BY DEF DataPoolInv, RowsInv
  <1>2. NoNumber /\ (Abort("DataPool.h:82") \/ Abort("DataPool.h:32"))
    BY DEF GetItemIDFails, NoNumber
  <1> QED  BY <1>1, <1>2, AbortInv DEF Assertion

LEMMA DataPoolStep == DataPoolInv /\ [Next]_vars => DataPoolInv'
  <1> SUFFICES ASSUME DataPoolInv, [Next]_vars PROVE DataPoolInv'
    OBVIOUS
  <1>1. CASE UNCHANGED vars
    <2>1. UNCHANGED poolvars /\ dt_' = dt_ /\ UNCHANGED <<arrRow_, written, process>>
      BY <1>1 DEF vars, rowvars
    <2>2. /\ TablesInv' /\ (Loaded' <=> Loaded) /\ m_TableMap' = m_TableMap
          /\ Column' = Column /\ (NoNumber' <=> NoNumber)
      BY <2>1, TablesStay DEF DataPoolInv
    <2> QED  BY <2>1, <2>2 DEF DataPoolInv, RowsInv, ProcessInv, Slot
  <1>2. CASE Next
    BY <1>2, LoadFileInv, ParseFromDocInv, ItemDBInv, CreateItemInv, SetNumberInv, SetTextInv,
       GetItemIDFailsInv DEF Next
  <1> QED  BY <1>1, <1>2

LEMMA DataPoolInvariant == Spec => []DataPoolInv
  BY DataPoolInitInv, DataPoolStep, PTL DEF Spec

\* A live row and its column, as the properties see them.
LEMMA LiveRow ==
  ASSUME DataPoolInv, NEW i \in Live
  PROVE  /\ dt_ # nullptr /\ ColOK(Column) /\ RowOK(arrRow_[i], written[i], Column)
         /\ \A name \in Names : FieldOf(name) = At(Column, name)
  BY ColumnOK DEF Live, DataPoolInv, RowsInv

\* Whatever the tables, no write leaves its row's buffer or bitset, and fields lie
\* within the row.
THEOREM DataPoolTypeCorrect == Spec => []DataPoolTypeOK
  <1>1. ASSUME DataPoolInv PROVE DataPoolTypeOK
    <2>1. ASSUME NEW t \in DOMAIN m_TableMap
          PROVE  /\ m_TableMap[t].m_vecFields \in Seq(Field)
                 /\ m_TableMap[t].m_datasize \in Nat
                 /\ \A k \in DOMAIN m_TableMap[t].m_vecFields :
                      LET field == m_TableMap[t].m_vecFields[k]
                      IN  field.offset + field.data_size <= m_TableMap[t].m_datasize
      <3>1. ColOK(m_TableMap[t])
        BY <1>1 DEF DataPoolInv, TablesInv
      <3>2. DOMAIN m_TableMap[t].m_vecFields = 1 .. Len(m_TableMap[t].m_vecFields)
        BY <3>1, LenProperties DEF ColOK
      <3> QED  BY <3>1, <3>2 DEF ColOK
    <2>2. /\ todo \subseteq File /\ reading \in File \cup {nullptr} /\ at \in Nat
          /\ dt_ \in TableName \cup {nullptr} /\ process \in Assertion \cup {"running"}
      BY <1>1 DEF DataPoolInv, TablesInv, RowsInv, ProcessInv
    <2>3. ASSUME NEW i \in Live
          PROVE  /\ DOMAIN arrRow_[i].buffer = 1 .. Column.m_datasize
                 /\ arrRow_[i].bits \subseteq Bits(Len(Column.m_vecFields))
                 /\ written[i] \in [Names -> Text \cup Number \cup {Unset}]
      <3>1. ColOK(Column) /\ RowOK(arrRow_[i], written[i], Column)
        BY <1>1, LiveRow
      <3>2. \A name \in Names : Bit(GetFieldIndex(name)) \in Bits(Len(Column.m_vecFields))
        <4>1. Len(Column.m_vecFields) \in Nat
              /\ \A name \in Names : GetFieldIndex(name) \in 0 .. (Len(Column.m_vecFields) - 1)
          BY <3>1, LenProperties DEF ColOK, Names, GetFieldIndex
        <4> QED  BY <4>1, BitsWithin
      <3>3. arrRow_[i].bits =
              {Bit(GetFieldIndex(x)) : x \in {y \in Names : written[i][y] # Unset}}
        BY <3>1 DEF RowOK, Names, GetFieldIndex
      <3>4. arrRow_[i].bits \subseteq Bits(Len(Column.m_vecFields))
        BY <3>2, <3>3
      <3> QED  BY <3>1, <3>4 DEF RowOK, Names
    <2> QED  BY <2>1, <2>2, <2>3 DEF DataPoolTypeOK
  <1> QED  BY DataPoolInvariant, <1>1, PTL

\* Every number out of reach of texts reads back, for every table and whatever else
\* is written to the row.
THEOREM NumbersAlwaysReadBack == Spec => []NumbersReadBack
  <1>1. ASSUME DataPoolInv PROVE NumbersReadBack
    <2> SUFFICES ASSUME NEW i \in Live, NEW name \in NumberName \cap Names,
                        FieldOf(name).data_size = NumberSize, OutOfReach(FieldOf(name))
                 PROVE  GetValue(arrRow_[i], FieldOf(name)) =
                          IF written[i][name] # Unset THEN written[i][name]
                          ELSE [b \in 1 .. NumberSize |-> 0]
      BY DEF NumbersReadBack
    <2>1. RowOK(arrRow_[i], written[i], Column)
          /\ \A x \in Names : FieldOf(x) = At(Column, x)
      BY <1>1, LiveRow
    <2>2. Behind(Column, At(Column, name))
      BY <2>1 DEF OutOfReach, Behind, Names
    <2> QED  BY <2>1, <2>2 DEF RowOK, Names
  <1> QED  BY DataPoolInvariant, <1>1, PTL

\* The text in front, if it is the only one with room, reads back as far as that room
\* goes, for every table.
THEOREM TextAlwaysReadsBack == Spec => []TextReadsBack
  <1>1. ASSUME DataPoolInv PROVE TextReadsBack
    <2> SUFFICES ASSUME NEW i \in Live, NEW name \in TextName \cap Names,
                        OnlyText(name), written[i][name] # Unset,
                        NEW b \in 1 .. FieldOf(name).data_size, b <= Len(written[i][name])
                 PROVE  GetValue(arrRow_[i], FieldOf(name))[b] = written[i][name][b]
      BY DEF TextReadsBack
    <2>1. RowOK(arrRow_[i], written[i], Column)
          /\ \A x \in Names : FieldOf(x) = At(Column, x)
      BY <1>1, LiveRow
    <2>2. Front(Column, name)
      BY <2>1 DEF OnlyText, Front, Names
    <2> QED  BY <2>1, <2>2 DEF RowOK, Names
  <1> QED  BY DataPoolInvariant, <1>1, PTL

\* The bitset marks the written fields and no others, for every table, if its words
\* are as long as it takes them to be or one is enough.
THEOREM ChangedIsExact == Spec => []ChangedExactly
  <1>1. ASSUME DataPoolInv PROVE ChangedExactly
    <2> DEFINE n == Len(Column.m_vecFields)
    <2> SUFFICES ASSUME NEW i \in Live, BIT_LENGTH = WORD_BITS \/ n <= WORD_BITS,
                        NEW index \in 0 .. (n - 1)
                 PROVE  test(arrRow_[i].bits, index) <=>
                          \E name \in Names :
                            GetFieldIndex(name) = index /\ written[i][name] # Unset
      BY DEF ChangedExactly
    <2>1. ColOK(Column) /\ RowOK(arrRow_[i], written[i], Column)
      BY <1>1, LiveRow
    <2>2. n \in Nat /\ \A name \in Names : GetFieldIndex(name) \in 0 .. (n - 1)
      BY <2>1, LenProperties DEF ColOK, Names, GetFieldIndex
    <2>3. arrRow_[i].bits = {Bit(GetFieldIndex(x)) : x \in {y \in Names : written[i][y] # Unset}}
      BY <2>1 DEF RowOK, Names, GetFieldIndex
    <2>4. \A name \in Names : Bit(GetFieldIndex(name)) = Bit(index) => GetFieldIndex(name) = index
      BY <2>2, BitsApart
    <2> HIDE DEF n
    <2> QED  BY <2>3, <2>4 DEF test
  <1> QED  BY DataPoolInvariant, <1>1, PTL

\* With the item id second in the only file of ItemDB's table, GetItemID returns what
\* was written under its name and meets no assertion, whatever the other files are.
THEOREM ItemIDAlwaysReadsBack == Spec => []ItemIDReadsBack
  <1>1. ASSUME DataPoolInv PROVE ItemIDReadsBack
    <2> SUFFICES ASSUME NEW f \in File, ItemFile(f)
                 PROVE  /\ process \notin {"DataPool.h:32", "DataPool.h:82"}
                        /\ \A i \in Live :
                             /\ OutOfReach(GetField(GetItemID_index))
                             /\ written[i][SetItemID_name] # Unset
                             => GetItemID(i) = written[i][SetItemID_name]
      BY DEF ItemIDReadsBack
    <2> DEFINE k == GetItemID_index + 1
               ms == Members[f]
    <2>1. dt_ # nullptr /\ dt_ = szFileName[f] /\ Alone(f)
      BY NullAssumption DEF ItemFile, Alone
    <2>2. k \in 1 .. Len(ms) /\ Len(ms) \in Nat /\ k - 1 = GetItemID_index
      BY MembersProper, CallsAssumption DEF ItemFile
    <2>3. /\ ms[k].name = SetItemID_name /\ ms[k].type = "int32"
          /\ \A j \in 1 .. Len(ms) : ms[j].name = SetItemID_name => j = k
      BY MembersProper DEF ItemFile
    <2>4. FromFile(Column, ms, Len(ms))
      <3>1. Loaded /\ f \in File \ todo
        BY <1>1, <2>1 DEF DataPoolInv, RowsInv, Loaded
      <3>2. Progress(f) = Len(ms)
        BY <1>1, <3>1, WholeFiles DEF DataPoolInv, Loaded
      <3> QED  BY <1>1, <2>1, <3>1, <3>2 DEF DataPoolInv, TablesInv, Column
    <2> HIDE DEF k, ms
    <2>5. /\ Len(Column.m_vecFields) = Len(ms)
          /\ Column.m_vecFields[k].data_size = NumberSize
          /\ SetItemID_name \in Names /\ GetFieldIndex(SetItemID_name) = GetItemID_index
      BY <2>2, <2>3, <2>4 DEF FromFile, DataSize, Names, GetFieldIndex
    <2>6. GetField(GetItemID_index) = Column.m_vecFields[k]
      BY DEF GetField, k
    <2>7. ~ NoNumber
      BY <2>2, <2>5, <2>6, CallsAssumption DEF NoNumber
    <2>8. process \notin {"DataPool.h:32", "DataPool.h:82"}
      BY <1>1, <2>7 DEF DataPoolInv, ProcessInv
    <2>9. ASSUME NEW i \in Live, OutOfReach(GetField(GetItemID_index)),
                 written[i][SetItemID_name] # Unset
          PROVE  GetItemID(i) = written[i][SetItemID_name]
      <3>1. FieldOf(SetItemID_name) = GetField(GetItemID_index)
        BY <2>5 DEF FieldOf
      <3>2. RowOK(arrRow_[i], written[i], Column)
            /\ \A x \in Names : FieldOf(x) = At(Column, x)
        BY <1>1, LiveRow
      <3>3. At(Column, SetItemID_name) = GetField(GetItemID_index)
            /\ Behind(Column, At(Column, SetItemID_name))
        BY <2>5, <2>9, <3>1, <3>2 DEF OutOfReach, Behind, Names
      <3>4. GetValue(arrRow_[i], At(Column, SetItemID_name)) = written[i][SetItemID_name]
        BY <2>5, <2>6, <2>9, <3>2, <3>3, CallsAssumption DEF RowOK, Names
      <3> QED  BY <3>3, <3>4 DEF GetItemID
    <2> QED  BY <2>8, <2>9
  <1> QED  BY DataPoolInvariant, <1>1, PTL
================================================================================
