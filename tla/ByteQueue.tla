-------------------------------- MODULE ByteQueue -------------------------------
(***************************************************************************)
(* What ring_buffer promises: a queue of at most size_ bytes.  A writer is *)
(* cut off where the room ends and a reader where the bytes end.           *)
(***************************************************************************)
EXTENDS Naturals, Sequences

CONSTANTS size_, MaxLen

VARIABLES queue,   \* the bytes written and not read
          last     \* the last call: what it was given and what it copied out

QueueInit == queue = << >> /\ last = [op |-> "none", arg |-> 0, data |-> << >>]

UpTo(n, s) == SubSeq(s, 1, IF n < Len(s) THEN n ELSE Len(s))

\* Any data can be given.
Write == /\ last'.op = "write"
         /\ queue' = UpTo(size_, queue \o last'.data)

Read == \E n \in 0 .. MaxLen :
          /\ last' = [op |-> "read", arg |-> n, data |-> UpTo(n, queue)]
          /\ queue' = SubSeq(queue, n + 1, Len(queue))

Peek == \E n \in 0 .. MaxLen :
          /\ last' = [op |-> "peek", arg |-> n, data |-> UpTo(n, queue)]
          /\ UNCHANGED queue

QueueNext == Write \/ Read \/ Peek

QueueSpec == QueueInit /\ [][QueueNext]_<<queue, last>>
================================================================================
