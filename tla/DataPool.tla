-------------------------------- MODULE DataPool --------------------------------
(***************************************************************************)
(* The tables of src/LoginServer: TableConfig (DataPoolConfig.h) reads the *)
(* JSON files below the working directory, each into the columns of the    *)
(* table it is named after; Column, Field and Row are those of DataPool.h, *)
(* with the bitset of changed fields (src/Base/include/dynamic_bitset.hpp);*)
(* ItemDB of main.cpp keeps rows of one table in a fixed array.            *)
(*                                                                         *)
(* A row is one buffer in which the fields lie one after another, as       *)
(* PushProperty places them.  Numbers and texts are sequences of bytes; a  *)
(* text has no byte 0.  A table may have properties of any name and type,  *)
(* in any order, and come from several files: LoginServer's item.json has  *)
(* "char16" and "int32", those of Tools/jsondata have "string" and "int",  *)
(* which PushProperty gives no room.  Assertions are compiled in: the      *)
(* process ends at the line of the first that fails.                       *)
(***************************************************************************)
EXTENDS Integers, Sequences

CONSTANTS
  File,                \* the files that FileReader finds
  szFileName,          \* per file, its name without directory and extension
  Members,             \* per file, its properties in order: [name, type]
  TableName,           \* the names ItemDB may be made with; main has "item"
  NumberName, TextName,  \* the names its calls use for numbers and for texts
  SetItemID_name,        \* "ItemID"
  GetItemID_index,       \* the literal in GetItemID, 1
  TextSize, NumberSize,  \* sizes of "char16" and "int32", 16 and 4
  Text, Number,          \* the values written
  Unset, nullptr,
  ITEM_COUNT,
  WORD_BITS,   \* bits of a word of the bitset: 32
  BIT_LENGTH   \* bits the bitset takes a word to have: 8 * sizeof(size_t)

ASSUME FilesAssumption ==
  \A f \in File : Members[f] \in Seq([name : STRING, type : STRING])

ASSUME CallsAssumption ==
  /\ SetItemID_name \in NumberName /\ GetItemID_index \in Nat
  /\ NumberName \cap TextName = {}

ASSUME SizeAssumption ==
  /\ {TextSize, NumberSize, ITEM_COUNT, WORD_BITS, BIT_LENGTH} \subseteq Nat \ {0}
  /\ Number \subseteq Seq(Nat) /\ \A n \in Number : Len(n) = NumberSize
  /\ Text \subseteq Seq(Nat)
  /\ Unset \notin Text \cup Number

Row == [buffer : Seq(Nat), bits : SUBSET (Nat \X Nat)]

ASSUME NullAssumption ==
  /\ nullptr \notin File /\ nullptr \notin TableName /\ nullptr \notin Row
  /\ \A f \in File : szFileName[f] # nullptr

VARIABLES
  m_TableMap,    \* table name -> Column
  todo,          \* files that LoadTables has not come to yet
  reading, at,   \* ParseFromDoc: the file that is read, and the member next in it
  dt_,           \* ItemDB: the name of its table, nullptr before it is made
  arrRow_,       \* ItemDB: per slot, a Row or nullptr
  written,       \* per slot and field name, the value last written, or Unset
  process        \* "running", or the assertion it ended at

poolvars == <<m_TableMap, todo, reading, at>>
rowvars  == <<arrRow_, written>>
vars     == <<poolvars, dt_, rowvars, process>>

Assertion == {"DataPool.h:32", "DataPool.h:43", "DataPool.h:82", "DataPool.h:87",
              "DataPoolConfig.h:42"}

--------------------------------------------------------------------------------
(* Column: [m_vecFields, m_datasize, m_mapFieldName2Index]. *)

Field == [data_size : {TextSize, NumberSize, 0}, offset : Nat]

NewColumn == [m_vecFields |-> << >>, m_datasize |-> 0, m_mapFieldName2Index |-> << >>]

\* A type of any other name has no size: its field begins where the next one does.
DataSize(type) == CASE type = "char16" -> TextSize
                    [] type = "int32"  -> NumberSize
                    [] OTHER           -> 0

PushProperty(col, p) ==
  LET name2index == col.m_mapFieldName2Index
  IN  [m_mapFieldName2Index |-> [n \in DOMAIN name2index \cup {p.name} |->
                                   IF n = p.name THEN Len(col.m_vecFields) ELSE name2index[n]],
       m_vecFields |-> Append(col.m_vecFields, [data_size |-> DataSize(p.type),
                                                offset |-> col.m_datasize]),
       m_datasize  |-> col.m_datasize + DataSize(p.type)]

--------------------------------------------------------------------------------
(* Row: [buffer, bits]. *)

\* The bits of the bitset that are set, each as the word it is in and its place.
Bits(count) == (0 .. (count \div BIT_LENGTH)) \X (0 .. (WORD_BITS - 1))

NewRow(col) == [buffer |-> [b \in 1 .. col.m_datasize |-> 0], bits |-> {}]

\* A shift by the width of a word or more is undefined; the processor takes it
\* modulo the width.
Bit(pos) == <<pos \div BIT_LENGTH, (pos % BIT_LENGTH) % WORD_BITS>>

\* Mutant of set: the word is assigned.
set_Assign(bits, pos) == {b \in bits : b[1] # Bit(pos)[1]} \cup {Bit(pos)}

set(bits, pos) == bits \cup {Bit(pos)}

test(bits, pos) == Bit(pos) \in bits

\* memcpy of the first n bytes of a value to a place in a buffer.
memcpy(buffer, to, value, n) ==
  [b \in DOMAIN buffer \cup (to + 1) .. (to + n) |->
     IF b \in (to + 1) .. (to + n) THEN value[b - to] ELSE buffer[b]]

\* For a number only once the assertion on the size holds, which see below.
GetValue(row, field) == [b \in 1 .. field.data_size |-> row.buffer[field.offset + b]]

\* The whole value is written, whatever the size of the field.
SetValue(row, field, index, number) ==
  [buffer |-> memcpy(row.buffer, field.offset, number, NumberSize),
   bits   |-> set(row.bits, index)]

\* Mutants of SetValueString: the text is not cut; a text is cut to leave a byte 0.
SetValueString_NotCut(row, field, index, text) ==
  [buffer |-> memcpy(row.buffer, 0, text, Len(text)), bits |-> set(row.bits, index)]
SetValueString_Terminated(row, field, index, text) ==
  LET len == IF Len(text) >= field.data_size THEN field.data_size - 1 ELSE Len(text)
  IN  [buffer |-> memcpy(row.buffer, 0, text, len), bits |-> set(row.bits, index)]

\* The offset of the field is not added.
SetValueString(row, field, index, text) ==
  LET len == IF Len(text) > field.data_size THEN field.data_size ELSE Len(text)
  IN  [buffer |-> memcpy(row.buffer, 0, text, len), bits |-> set(row.bits, index)]

--------------------------------------------------------------------------------
(* TableConfig. *)

Init ==
  /\ m_TableMap = << >>
  /\ todo = File
  /\ reading = nullptr /\ at = 1
  /\ dt_ = nullptr /\ process = "running"
  /\ arrRow_ = [i \in 0 .. (ITEM_COUNT - 1) |-> nullptr]
  /\ written = [i \in 0 .. (ITEM_COUNT - 1) |-> << >>]

\* Between two files.
Idle == reading # nullptr => at > Len(Members[reading])

\* LoadFile up to ParseFromDoc: emplace leaves a table that is there as it is.
\* FileReader lists the files in the order of the directory, which may be any.
LoadFile(f) ==
  /\ Idle
  /\ f \in todo
  /\ todo' = todo \ {f}
  /\ m_TableMap' = [t \in DOMAIN m_TableMap \cup {szFileName[f]} |->
                      IF t \in DOMAIN m_TableMap THEN m_TableMap[t] ELSE NewColumn]
  /\ reading' = f /\ at' = 1
  /\ UNCHANGED <<dt_, rowvars, process>>

\* One turn of the loop in ParseFromDoc; nothing else runs meanwhile.
ParseFromDoc ==
  /\ ~ Idle
  /\ m_TableMap' = [m_TableMap EXCEPT ![szFileName[reading]] =
                      PushProperty(@, Members[reading][at])]
  /\ at' = at + 1
  /\ UNCHANGED <<todo, reading, dt_, rowvars, process>>

Loaded == Idle /\ todo = {}

--------------------------------------------------------------------------------
(* ItemDB, made when the tables are loaded. *)

Slot == 0 .. (ITEM_COUNT - 1)

\* An assertion fails.
Abort(line) == process' = line /\ UNCHANGED <<poolvars, dt_, rowvars>>

\* The constructor, with GetTable.
ItemDB(name) ==
  /\ Loaded /\ dt_ = nullptr
  /\ \/ /\ name \in DOMAIN m_TableMap
        /\ dt_' = name
        /\ UNCHANGED <<poolvars, rowvars, process>>
     \/ name \notin DOMAIN m_TableMap /\ Abort("DataPoolConfig.h:42")

Column == m_TableMap[dt_]
Names  == DOMAIN Column.m_mapFieldName2Index

GetFieldIndex(name) == Column.m_mapFieldName2Index[name]
GetField(index)     == Column.m_vecFields[index + 1]
FieldOf(name)       == GetField(GetFieldIndex(name))

\* The first null pointer is filled; without one nothing happens.
CreateItem ==
  /\ dt_ # nullptr
  /\ \E i \in Slot :
       /\ arrRow_[i] = nullptr
       /\ \A j \in Slot : j < i => arrRow_[j] # nullptr
       /\ arrRow_' = [arrRow_ EXCEPT ![i] = NewRow(Column)]
       /\ written' = [written EXCEPT ![i] = [n \in Names |-> Unset]]
  /\ UNCHANGED <<poolvars, dt_, process>>

Store(i, name, row, value) ==
  /\ arrRow_' = [arrRow_ EXCEPT ![i] = row]
  /\ written' = [written EXCEPT ![i][name] = value]
  /\ UNCHANGED <<poolvars, dt_, process>>

\* Mutant of SetNumber: SetValue without its assertion.
SetNumber_NoAssert(i, name, number) ==
  /\ name \in Names
  /\ Store(i, name, SetValue(arrRow_[i], FieldOf(name), GetFieldIndex(name), number), number)

\* SetItemID and its like: SetValue<int>, by the name of the field.  SetItemID and
\* SetGuid write a literal whatever they are given; here any value is written.
SetNumber(i, name, number) ==
  \/ name \notin Names /\ Abort("DataPool.h:87")
  \/ name \in Names /\ FieldOf(name).data_size # NumberSize /\ Abort("DataPool.h:43")
  \/ /\ name \in Names /\ FieldOf(name).data_size = NumberSize
     /\ Store(i, name, SetValue(arrRow_[i], FieldOf(name), GetFieldIndex(name), number), number)

\* SetGuid: no assertion on the size.
SetText(i, name, text) ==
  \/ name \notin Names /\ Abort("DataPool.h:87")
  \/ /\ name \in Names
     /\ Store(i, name, SetValueString(arrRow_[i], FieldOf(name), GetFieldIndex(name), text), text)

\* Mutant of GetItemID: places are counted from 1.
GetItemID_FromOne(i) == GetValue(arrRow_[i], GetField(GetItemID_index + 1))

\* GetItemID: by the place of the field.
GetItemID(i) == GetValue(arrRow_[i], GetField(GetItemID_index))

\* What GetItemID changes: nothing, unless an assertion fails.
GetItemIDFails ==
  LET index == GetItemID_index
  IN  \/ index >= Len(Column.m_vecFields) /\ Abort("DataPool.h:82")
      \/ /\ index < Len(Column.m_vecFields) /\ GetField(index).data_size # NumberSize
         /\ Abort("DataPool.h:32")

Next ==
  /\ process = "running"
  /\ \/ \E f \in File : LoadFile(f)
     \/ ParseFromDoc
     \/ \E name \in TableName : ItemDB(name)
     \/ CreateItem
     \/ \E i \in Slot : arrRow_[i] # nullptr /\
          \/ \E name \in NumberName, number \in Number : SetNumber(i, name, number)
          \/ \E name \in TextName, text \in Text : SetText(i, name, text)
          \/ GetItemIDFails

Spec == Init /\ [][Next]_vars

--------------------------------------------------------------------------------
Live == {i \in Slot : arrRow_[i] # nullptr}

\* The type invariant, for any table: fields lie within the row, and no write leaves
\* the buffer that AllocBuffer made or the words of the bitset.
DataPoolTypeOK ==
  /\ \A t \in DOMAIN m_TableMap :
       /\ m_TableMap[t].m_vecFields \in Seq(Field)
       /\ m_TableMap[t].m_datasize \in Nat
       /\ \A k \in DOMAIN m_TableMap[t].m_vecFields :
            LET field == m_TableMap[t].m_vecFields[k]
            IN  field.offset + field.data_size <= m_TableMap[t].m_datasize
  /\ todo \subseteq File
  /\ reading \in File \cup {nullptr}
  /\ at \in Nat
  /\ dt_ \in TableName \cup {nullptr}
  /\ process \in Assertion \cup {"running"}
  /\ \A i \in Live :
       /\ DOMAIN arrRow_[i].buffer = 1 .. Column.m_datasize
       /\ arrRow_[i].bits \subseteq Bits(Len(Column.m_vecFields))
       /\ written[i] \in [Names -> Text \cup Number \cup {Unset}]

\* SetValueString writes at the front of the buffer, at most as much as its field has
\* room for: a field behind all that room is none that a text is written over.
OutOfReach(field) ==
  \A name \in TextName \cap Names : FieldOf(name).data_size <= field.offset

\* A number that was written under a name is what GetValue returns for it, and one
\* that was not is 0, whatever was written to the other fields, texts longer than
\* their field included (Field::SetValueString cuts them; offsets of PushProperty).
\* Only a number in reach of a text may read otherwise.
NumbersReadBack ==
  \A i \in Live : \A name \in NumberName \cap Names :
    FieldOf(name).data_size = NumberSize /\ OutOfReach(FieldOf(name)) =>
      GetValue(arrRow_[i], FieldOf(name)) =
        IF written[i][name] # Unset THEN written[i][name] ELSE [b \in 1 .. NumberSize |-> 0]

\* The text at the front of the row, the only one with room.
OnlyText(name) ==
  /\ FieldOf(name).offset = 0
  /\ \A other \in TextName \cap Names : other # name => FieldOf(other).data_size = 0

\* A text reads back from its start, as far as the field has room (what follows it
\* may be the end of a longer text written before, as no byte 0 is stored).  For a
\* text behind a number, or one of two, it does not.
TextReadsBack ==
  \A i \in Live : \A name \in TextName \cap Names :
    OnlyText(name) /\ written[i][name] # Unset =>
      \A b \in 1 .. FieldOf(name).data_size : b <= Len(written[i][name]) =>
        GetValue(arrRow_[i], FieldOf(name))[b] = written[i][name][b]

\* A field is marked as changed if and only if the name that leads to it was written
\* since the row was made (dynamic_bitset::set and test over several words), if the
\* bitset takes its words to be as long as they are or one word is enough.
ChangedExactly ==
  \A i \in Live : BIT_LENGTH = WORD_BITS \/ Len(Column.m_vecFields) <= WORD_BITS =>
    \A index \in 0 .. (Len(Column.m_vecFields) - 1) :
      test(arrRow_[i].bits, index) <=>
        \E name \in Names : GetFieldIndex(name) = index /\ written[i][name] # Unset

\* The only file of ItemDB's table, with the item id at the place that GetItemID
\* takes it to have and nowhere else.
ItemFile(f) ==
  /\ szFileName[f] = dt_ /\ \A g \in File : szFileName[g] = dt_ => g = f
  /\ GetItemID_index + 1 \in DOMAIN Members[f]
  /\ Members[f][GetItemID_index + 1] = [name |-> SetItemID_name, type |-> "int32"]
  /\ \A k \in DOMAIN Members[f] :
       Members[f][k].name = SetItemID_name => k = GetItemID_index + 1

\* Given such a file, among whatever others and in whatever order they were read,
\* the item id that is written under its name is what GetItemID returns, out of reach
\* of texts, and GetItemID meets no assertion (main.cpp:45-52).
ItemIDReadsBack ==
  \A f \in File : ItemFile(f) =>
    /\ process \notin {"DataPool.h:32", "DataPool.h:82"}
    /\ \A i \in Live :
         OutOfReach(GetField(GetItemID_index)) /\ written[i][SetItemID_name] # Unset =>
           GetItemID(i) = written[i][SetItemID_name]
================================================================================
