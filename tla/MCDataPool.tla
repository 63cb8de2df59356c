------------------------------- MODULE MCDataPool -------------------------------
(* The fields of item.json but one; a table whose text is behind a number; the   *)
(* types of Tools/jsondata, which have no size; two files of one name; a table   *)
(* of one field; and a name that no file has.                                    *)
EXTENDS DataPool

MCFileName == [item |-> "item", bag |-> "bag", tool |-> "tool",
               client |-> "avatar", server |-> "avatar", skill |-> "skill"]

MCMembers ==
  [item   |-> <<[name |-> "Guid", type |-> "char16"], [name |-> "ItemID", type |-> "int32"],
                [name |-> "SlotID", type |-> "int32"]>>,
   bag    |-> <<[name |-> "SlotID", type |-> "int32"], [name |-> "Guid", type |-> "char16"]>>,
   tool   |-> <<[name |-> "Guid", type |-> "string"], [name |-> "ItemID", type |-> "int"]>>,
   client |-> <<[name |-> "Guid", type |-> "char16"], [name |-> "ItemID", type |-> "int32"]>>,
   server |-> <<[name |-> "ItemID", type |-> "int32"]>>,
   skill  |-> <<[name |-> "SlotID", type |-> "int32"]>>]

MCText == {<<1>>, <<2, 1>>, <<1, 1, 2>>, <<2, 2, 2, 2, 2>>}
MCNumber == {<<0>>, <<3>>}
================================================================================
