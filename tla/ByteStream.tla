----------------------------- MODULE ByteStream -----------------------------
(***************************************************************************)
(* What a pipe promises: bytes come out in the order they went in, each    *)
(* once, and no more than Capacity of them are under way.                  *)
(***************************************************************************)
EXTENDS Naturals, Sequences

CONSTANTS Bytes, Capacity

VARIABLES
  stream,   \* the bytes under way
  got       \* the bytes that the last read() returned

svars == <<stream, got>>

SInit == stream = << >> /\ got = << >>

\* Part of a write() goes in, as much as there is room for.
Put == /\ \E n \in 1..(Capacity - Len(stream)) :
            \E s \in [1..n -> Bytes] : stream' = stream \o s
       /\ UNCHANGED got

\* A read() takes bytes out at the front, or finds none.
Get == \E n \in 0..Len(stream) :
         /\ got' = SubSeq(stream, 1, n)
         /\ stream' = SubSeq(stream, n + 1, Len(stream))

SNext == Put \/ Get

SSpec == SInit /\ [][SNext]_svars
=============================================================================
