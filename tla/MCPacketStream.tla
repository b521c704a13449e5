--------------------------- MODULE MCPacketStream ---------------------------
(* Model-checking instance of PacketStream: packets of four bytes with one    *)
(* payload byte, which may be a header byte; lines of up to three packets of  *)
(* which one may be damaged, by a lost byte or by a changed one.              *)
EXTENDS PacketStream

MCHeader == 3
MCTypes == {1}
MCByteCount == 4
\* The type bytes a device may send: a known one, and one decode refuses.
SentTypes == {1, 2}
Payloads == {0, 3}

Packet(t, d) == <<MCHeader, t, d, (MCHeader + t + d) % MCByteCount>>
Packets == {Packet(t, d) : t \in SentTypes, d \in Payloads}

\* Three packets back to back, undamaged; those of a known type count as intact.
Whole(p, q, r) ==
  [bytes  |-> p \o q \o r,
   intact |-> {i \in {1, 5, 9} : (p \o q \o r)[i + 1] \in MCTypes}]

\* The byte at k is lost: packets after it stand one byte earlier.
Lose(l, k) ==
  [bytes  |-> RemoveAt(l.bytes, k),
   intact |-> {IF i > k THEN i - 1 ELSE i : i \in {j \in l.intact : k \notin j .. j + 3}}]

\* The byte at k arrives as b.
Change(l, k, b) ==
  [bytes  |-> [l.bytes EXCEPT ![k] = b],
   intact |-> {j \in l.intact : k \notin j .. j + 3}]

WholeLines == {Whole(p, q, r) : p, q, r \in Packets}
MCLines ==
  WholeLines
  \cup {Lose(l, k) : l \in WholeLines, k \in 1 .. 12}
  \cup {Change(l, k, b) : l \in WholeLines, k \in 1 .. 8, b \in {0, MCHeader}}
=============================================================================
