------------------------------- MODULE Directory -------------------------------
(***************************************************************************)
(* What the Center promises to the servers that register with it, whatever *)
(* packets, acknowledgements and channels it takes: every one of them sees *)
(* the states that its share of the registry goes through, from the one it *)
(* came to, one after the other, none left out and none made up.  Its view *)
(* may be late, but it is one that was true.  A state may come twice.      *)
(*                                                                         *)
(* A server has one name at a time, and no two have the same.  A server    *)
(* whose connection ends is told no more.  When the Center takes note it   *)
(* also strikes the name off; or the connection just ends, and the entry   *)
(* stays.                                                                  *)
(***************************************************************************)
EXTENDS Naturals, Sequences

CONSTANTS Server,
          Entry,     \* what the registry can hold
          Concern,   \* per server: the entries it is told of
          Initial,   \* the registry before anybody came
          NoEntry    \* the name of a server that has none

VARIABLES registry,
          name,      \* per server: its entry
          told,      \* the servers that are told of changes
          ahead,     \* per server: the states it was told of and has not read
          view       \* per server: the state it read last

dirvars == <<registry, name, told, ahead, view>>

DirectoryInit ==
  /\ registry = Initial
  /\ name = [p \in Server |-> NoEntry]
  /\ told = {}
  /\ ahead = [p \in Server |-> << >>]
  /\ view = [p \in Server |-> {}]

Share(p, r) == r \cap Concern[p]

\* The state that p has when it has read everything.
Latest(p) == IF ahead[p] = << >> THEN view[p] ELSE ahead[p][Len(ahead[p])]

\* Those that x concerns are told of what the registry becomes.
News(x) ==
  [q \in Server |-> IF q \in told /\ x \in Concern[q]
                      THEN Append(ahead[q], Share(q, registry')) ELSE ahead[q]]

Welcomed(p, x) ==
  /\ told' = told \cup {p}
  /\ p \in told \/ (view[p] = {} /\ ahead[p] = << >>)
  /\ ahead' = [News(x) EXCEPT ![p] = Append(Append(ahead[p], Latest(p)), Share(p, registry))]

\* Too late: p's end of the connection is closed.
Missed(p, x) == p \notin told /\ UNCHANGED told /\ ahead' = News(x)

Enter(p, x) ==
  /\ x # NoEntry /\ x \notin Concern[p]
  /\ registry' = registry \cup {x}
  /\ name[p] \in {NoEntry, x}
  /\ \A q \in Server \ {p} : name[q] # x
  /\ name' = [name EXCEPT ![p] = x]
  /\ UNCHANGED view
  /\ Welcomed(p, x) \/ Missed(p, x)

\* The Center notices the end of p's connection, and tells the others.
Leave(p) ==
  /\ name[p] # NoEntry
  /\ registry' = registry \ {name[p]}
  /\ name' = [name EXCEPT ![p] = NoEntry]
  /\ told' = told \ {p}
  /\ UNCHANGED view
  /\ ahead' = News(name[p])

\* The Center gives the connection up, and does nothing more.
Forget(p) ==
  /\ name[p] # NoEntry
  /\ name' = [name EXCEPT ![p] = NoEntry]
  /\ told' = told \ {p}
  /\ UNCHANGED <<registry, ahead, view>>

\* p closes its end, and loses what it had not read.
HangUp(p) ==
  /\ told' = told \ {p}
  /\ UNCHANGED <<registry, name, view>>
  /\ ahead' = [ahead EXCEPT ![p] = << >>]

Read(p) ==
  /\ UNCHANGED <<registry, name, told>>
  /\ ahead[p] # << >>
  /\ view' = [view EXCEPT ![p] = Head(ahead[p])]
  /\ ahead' = [ahead EXCEPT ![p] = Tail(@)]

DirectoryNext ==
  \E p \in Server :
    Leave(p) \/ Forget(p) \/ HangUp(p) \/ Read(p) \/ \E x \in Entry : Enter(p, x)

DirectorySpec == DirectoryInit /\ [][DirectoryNext]_dirvars
================================================================================
