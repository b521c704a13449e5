---------------------------- MODULE PacketStream ----------------------------
(***************************************************************************)
(* The byte framer of the WIT IMU adapter (PacketStream in protocol.py).    *)
(* A serial line delivers bytes in reads of any size; the framer appends    *)
(* each read to its buffer and drains it: scan to the next header, wait for  *)
(* a whole packet, accept it or drop one byte and scan again.               *)
(*                                                                          *)
(* The line is fixed in the initial state: the bytes that arrive, and where *)
(* in them undamaged packets stand.  What a packet's payload means is left  *)
(* out; its bytes are not, because a payload may look like a header.        *)
(***************************************************************************)
EXTENDS Integers, Sequences, FiniteSets, SequencesExt

CONSTANTS
  ByteCount,      \* the values of a byte: 256 in the code
  Header,         \* HEADER_BYTE
  PacketLength,   \* PACKET_LENGTH, the checksum byte included
  PacketTypes,    \* the type bytes PacketType knows
  Lines           \* the lines: bytes, and the starts of undamaged packets

Byte == 0 .. ByteCount - 1

ASSUME PacketStreamAssumption ==
  /\ ByteCount \in Nat \ {0}
  /\ Header \in Byte
  /\ PacketLength \in Nat \ {0, 1, 2}
  /\ PacketTypes \subseteq Byte
  /\ Lines \subseteq [bytes : Seq(Byte), intact : SUBSET Nat]

VARIABLES
  line,               \* the bytes the serial line delivers
  intact,             \* (history) where in them undamaged packets start
  fed,                \* how many of its bytes feed() has been given
  buffer,             \* _buffer
  draining,           \* is feed() inside the loop of _drain?
  decoded,            \* (history) where in the line the yielded packets stood
  discarded,          \* counters.resync_bytes_discarded
  checksumFailures    \* counters.checksum_failures

streamVars == <<line, intact, fed, buffer, draining, decoded, discarded, checksumFailures>>

StreamInit ==
  /\ \E l \in Lines : line = l.bytes /\ intact = l.intact
  /\ fed = 0
  /\ buffer = <<>>
  /\ draining = FALSE
  /\ decoded = <<>>
  /\ discarded = 0
  /\ checksumFailures = 0
-----------------------------------------------------------------------------
\* The low byte of the sum of all bytes but the last.
Checksum(packet) == FoldLeft(+, 0, Front(packet)) % ByteCount

ChecksumHolds(packet) == Last(packet) = Checksum(packet)

\* Does decode() return a packet?
Decodes(packet) ==
  /\ Len(packet) = PacketLength
  /\ packet[1] = Header
  /\ ChecksumHolds(packet)
  /\ packet[2] \in PacketTypes

\* An undamaged packet arrived as it was sent, and they were sent one after another.
ASSUME LinesAssumption ==
  \A l \in Lines : \A i \in l.intact :
    /\ i \in 1 .. Len(l.bytes) - PacketLength + 1
    /\ Decodes(SubSeq(l.bytes, i, i + PacketLength - 1))
    /\ \A j \in l.intact : i < j => i + PacketLength <= j

\* A read of n bytes from the port, appended to the buffer.
Feed(n) ==
  /\ ~draining
  /\ fed + n <= Len(line)
  /\ buffer' = buffer \o SubSeq(line, fed + 1, fed + n)
  /\ fed' = fed + n
  /\ draining' = TRUE
  /\ UNCHANGED <<line, intact, decoded, discarded, checksumFailures>>

\* The bytes before the next header, and the buffer from that header on.
Garbage == IF Contains(buffer, Header)
           THEN (CHOOSE i \in 1 .. Len(buffer) :
                   /\ buffer[i] = Header
                   /\ \A j \in 1 .. i - 1 : buffer[j] # Header) - 1
           ELSE Len(buffer)
FromHeader == SubSeq(buffer, Garbage + 1, Len(buffer))
Candidate  == SubSeq(FromHeader, 1, PacketLength)

\* (Variant) forgets a partial packet at the end of a read.
Wait_Clears ==
  /\ Len(FromHeader) < PacketLength
  /\ buffer' = <<>>
  /\ discarded' = discarded + Len(buffer)
  /\ draining' = FALSE
  /\ UNCHANGED <<decoded, checksumFailures>>

\* No header, or not enough bytes after it: the loop returns.
Wait ==
  /\ Len(FromHeader) < PacketLength
  /\ buffer' = FromHeader
  /\ discarded' = discarded + Garbage
  /\ draining' = FALSE
  /\ UNCHANGED <<decoded, checksumFailures>>

\* (Variant) drops the whole candidate instead of its header byte.
Reject_WholeCandidate ==
  /\ Len(FromHeader) >= PacketLength
  /\ ~Decodes(Candidate)
  /\ buffer' = SubSeq(FromHeader, PacketLength + 1, Len(FromHeader))
  /\ discarded' = discarded + Garbage + PacketLength
  /\ checksumFailures' =
       IF ChecksumHolds(Candidate) THEN checksumFailures ELSE checksumFailures + 1
  /\ UNCHANGED <<draining, decoded>>

\* (Variant) goes on without dropping the header byte.
Reject_KeepsByte ==
  /\ Len(FromHeader) >= PacketLength
  /\ ~Decodes(Candidate)
  /\ buffer' = FromHeader
  /\ discarded' = discarded + Garbage
  /\ UNCHANGED <<draining, decoded, checksumFailures>>

\* Not a packet: drop the header byte only and look for the next one.
Reject ==
  /\ Len(FromHeader) >= PacketLength
  /\ ~Decodes(Candidate)
  /\ buffer' = Tail(FromHeader)
  /\ discarded' = discarded + Garbage + 1
  /\ checksumFailures' =
       IF ChecksumHolds(Candidate) THEN checksumFailures ELSE checksumFailures + 1
  /\ UNCHANGED <<draining, decoded>>

Accept ==
  /\ Len(FromHeader) >= PacketLength
  /\ Decodes(Candidate)
  /\ decoded' = Append(decoded, fed - Len(FromHeader) + 1)
  /\ buffer' = SubSeq(FromHeader, PacketLength + 1, Len(FromHeader))
  /\ discarded' = discarded + Garbage
  /\ UNCHANGED <<draining, checksumFailures>>

\* One iteration of the loop of _drain.
Drain ==
  /\ draining
  /\ Wait \/ Reject \/ Accept
  /\ UNCHANGED <<line, intact, fed>>

StreamNext == (\E n \in 1 .. Len(line) : Feed(n)) \/ Drain

\* feed() runs its loop to the end on the thread that called it.
StreamSpec == StreamInit /\ [][StreamNext]_streamVars /\ WF_streamVars(Drain)
-----------------------------------------------------------------------------
(* What the framer promises, defined on the line as a whole: reading from    *)
(* the left, a position is accepted when a packet stands there and no        *)
(* accepted packet reaches into it.                                          *)

PacketAt(i) == SubSeq(line, i, i + PacketLength - 1)

\* The positions at which a whole packet's worth of bytes has been fed.
Starts == 1 .. fed - PacketLength + 1

GreedyReading(accepted) ==
  /\ accepted \subseteq Starts
  /\ \A i \in Starts :
       i \in accepted <=> /\ Decodes(PacketAt(i))
                          /\ \A j \in accepted : j < i => j + PacketLength <= i

\* Does a yielded packet reach over position i from the left?
Covered(i) == \E j \in ToSet(decoded) : j < i /\ i < j + PacketLength
-----------------------------------------------------------------------------
(* Between two calls the buffer holds less than a packet, from its header on *)
(* (queue_depth of the health report); the counters are counters.            *)
StreamTypeOK ==
  /\ line \in Seq(Byte)
  /\ intact \subseteq Nat
  /\ fed \in 0 .. Len(line)
  /\ buffer \in Seq(Byte)
  /\ draining \in BOOLEAN
  /\ decoded \in Seq(Nat \ {0})
  /\ discarded \in Nat
  /\ checksumFailures \in Nat
  /\ ~draining => /\ Len(buffer) < PacketLength
                  /\ buffer # <<>> => buffer[1] = Header

(* What is decoded depends on the bytes alone, never on how the reads cut    *)
(* them: it is the greedy reading of the whole line (_drain keeps a partial   *)
(* packet for the next call).                                                *)
DecodedIsGreedy ==
  ~draining => /\ GreedyReading(ToSet(decoded))
               /\ \A i \in 1 .. Len(decoded) - 1 : decoded[i] < decoded[i + 1]

(* Every byte fed is in a yielded packet, counted as discarded, or still     *)
(* buffered, at each iteration of the loop; the buffer is the end of the line. *)
BytesAccounted ==
  /\ fed = PacketLength * Len(decoded) + discarded + Len(buffer)
  /\ buffer = SubSeq(line, fed - Len(buffer) + 1, fed)

(* Damage on the line costs the damaged packets and no other, as long as no   *)
(* window across two packets passes the checksum by accident.                *)
IntactPacketsSurvive ==
  LET accidents == {i \in Starts \ intact : Decodes(PacketAt(i))}
  IN ~draining /\ accidents = {} => intact \cap Starts \subseteq ToSet(decoded)

(* A checksum failure is counted once for every header byte that turned out   *)
(* to start no packet for that reason, and for nothing else: the health       *)
(* report calls them rejected frames.                                        *)
FailuresCounted ==
  ~draining => checksumFailures = Cardinality({i \in Starts :
    /\ line[i] = Header
    /\ ~ChecksumHolds(PacketAt(i))
    /\ ~Covered(i)})

(* Whatever the line does to the bytes, each is accounted for, an intact      *)
(* packet is decoded, and the failures reported are the candidates rejected.  *)
NothingLost == BytesAccounted /\ IntactPacketsSurvive /\ FailuresCounted

(* A call of feed returns whatever the line holds: every iteration that goes  *)
(* on shortens the buffer.                                                   *)
FeedReturns == draining ~> ~draining
=============================================================================
