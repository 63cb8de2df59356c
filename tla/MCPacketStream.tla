----------------------------- MODULE MCPacketStream ----------------------------
(* Messages of one and of two bytes; the latter is the longest that fits. *)
EXTENDS PacketStream

MCMessage == {<<1>>, <<3, 2>>}

\* Stands for adler32: it depends on every byte and its place.
MCadler32(b) == FoldLeftDomain(LAMBDA sum, i : sum + i * b[i], 1, b) % Base
================================================================================
