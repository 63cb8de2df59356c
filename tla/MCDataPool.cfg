SPECIFICATION Spec
CONSTANTS
  File = {"item", "bag", "tool", "client", "server", "skill"}
  szFileName <- MCFileName
  Members <- MCMembers
  TableName = {"item", "bag", "tool", "avatar", "skill", "quest"}
  NumberName = {"ItemID", "SlotID"}
  TextName = {"Guid"}
  SetItemID_name = "ItemID"
  GetItemID_index = 1
  Text <- MCText
  Number <- MCNumber
  TextSize = 2
  NumberSize = 1
  Unset = Unset
  nullptr = nullptr
  ITEM_COUNT = 2
  WORD_BITS = 2
  BIT_LENGTH = 2
INVARIANTS DataPoolTypeOK NumbersReadBack TextReadsBack ChangedExactly ItemIDReadsBack
\* The process ends where an assertion fails.
CHECK_DEADLOCK FALSE
