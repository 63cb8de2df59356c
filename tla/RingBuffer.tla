------------------------------- MODULE RingBuffer -------------------------------
(***************************************************************************)
(* ring_buffer of src/Base/include/ring_buffer.hpp in a build without      *)
(* assertions, where write, read and peek cut the length they are asked    *)
(* for; with assertions, the behaviours that remain are those whose calls  *)
(* are not cut.                                                            *)
(*                                                                         *)
(* in_ and out_ are int counters that only grow.  Their overflow is        *)
(* undefined; the code a compiler makes of these functions adds, subtracts *)
(* and masks words that take INT_RANGE values, so a counter is kept here   *)
(* as the unsigned value of its word, and AsInt is what the program sees.  *)
(***************************************************************************)
EXTENDS Integers, Sequences, FiniteSetsExt

CONSTANTS Byte, size_,
          INT_RANGE,  \* how many values an int has: 2^32
          MaxLen      \* bound on the length of a call

\* Asserted by the constructor; masking is taking the remainder because of it.
ASSUME PowerAssumption == \E k \in 0 .. size_ : size_ = 2 ^ k

\* A power of two that is an int goes into the range exactly, and at least four times.
ASSUME RingBufferAssumption ==
  /\ size_ \in Nat \ {0} /\ INT_RANGE \in Nat /\ MaxLen \in Nat
  /\ \E m \in 1 .. INT_RANGE : INT_RANGE = (4 * m) * size_

VARIABLES in_, out_, buffer_,
          last   \* the last call: what it was given and what it copied out

vars == <<in_, out_, buffer_, last>>

Place == 0 .. (size_ - 1)
Word(n) == n % INT_RANGE
AsInt(w) == IF 2 * w < INT_RANGE THEN w ELSE w - INT_RANGE

readable_size == AsInt(Word(in_ - out_))

writable_size == AsInt(Word(size_ - in_ + out_))

\* counter & (size_ - 1)
Masked(counter) == counter % size_

NoCall == [op |-> "none", arg |-> 0, data |-> << >>]

\* new char[size_] holds anything; no byte of it is ever read.
Init == /\ in_ = 0 /\ out_ = 0
        /\ buffer_ \in [Place -> Byte]
        /\ last = NoCall

\* Mutant of write: the second memcpy starts from the first byte of the data again.
write_NotAdvanced(data) ==
  LET len == Min({Len(data), writable_size})
      at  == Masked(in_)
      l   == Min({len, size_ - at})
  IN  /\ buffer_' = [b \in Place |-> IF b \in at .. (at + l - 1) THEN data[b - at + 1]
                                     ELSE IF b < len - l THEN data[b + 1]
                                     ELSE buffer_[b]]
      /\ in_' = Word(in_ + len)
      /\ last' = [op |-> "write", arg |-> Len(data), data |-> data]
      /\ UNCHANGED out_

write(data) ==
  LET len == Min({Len(data), writable_size})
      at  == Masked(in_)
      l   == Min({len, size_ - at})
  IN  /\ buffer_' = [b \in Place |-> IF b \in at .. (at + l - 1) THEN data[b - at + 1]
                                     ELSE IF b < len - l THEN data[l + b + 1]
                                     ELSE buffer_[b]]
      /\ in_' = Word(in_ + len)
      /\ last' = [op |-> "write", arg |-> Len(data), data |-> data]
      /\ UNCHANGED out_

\* What the two memcpys of read and of peek return: at most to the end of the
\* buffer, the rest from its start.
Fetch(len) ==
  LET at == Masked(out_)
      l  == Min({len, size_ - at})
  IN  [i \in 1 .. l |-> buffer_[at + i - 1]] \o [i \in 1 .. (len - l) |-> buffer_[i - 1]]

\* Mutant of read: len is cut to the size of the buffer.
read_CutToSize(n) ==
  LET len == Min({n, size_})
  IN  /\ last' = [op |-> "read", arg |-> n, data |-> Fetch(len)]
      /\ out_' = Word(out_ + len)
      /\ UNCHANGED <<in_, buffer_>>

read(n) ==
  LET len == Min({n, readable_size})
  IN  /\ last' = [op |-> "read", arg |-> n, data |-> Fetch(len)]
      /\ out_' = Word(out_ + len)
      /\ UNCHANGED <<in_, buffer_>>

peek(n) ==
  /\ last' = [op |-> "peek", arg |-> n, data |-> Fetch(Min({n, readable_size}))]
  /\ UNCHANGED <<in_, out_, buffer_>>

Next == \/ \E n \in 0 .. MaxLen : \E data \in [1 .. n -> Byte] : write(data)
        \/ \E n \in 0 .. MaxLen : read(n) \/ peek(n)

Spec == Init /\ [][Next]_vars

--------------------------------------------------------------------------------
\* The type invariant: wherever the counters are in their range, the sizes the
\* program computes from them are those of a buffer that is neither over-full nor
\* read past its end.
RingBufferTypeOK ==
  /\ {in_, out_} \subseteq 0 .. (INT_RANGE - 1)
  /\ buffer_ \in [Place -> Byte]
  /\ readable_size \in 0 .. size_
  /\ writable_size = size_ - readable_size

\* The bytes from out_ on, place by place.
Unread == [i \in 1 .. readable_size |-> buffer_[Masked(out_ + i - 1)]]

Queue == INSTANCE ByteQueue WITH queue <- Unread

\* The buffer is a queue of bytes: over any sequence of calls, round the end of the
\* buffer and round the end of the counters, what is read is what was written.
ImplementsQueue == Queue!QueueSpec
================================================================================
