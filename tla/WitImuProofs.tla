---------------------------- MODULE WitImuProofs ----------------------------
(***************************************************************************)
(* The WIT IMU adapter, from the bytes to the readings.                      *)
(*                                                                          *)
(* The framer keeps its types and loses track of no byte, and what it yields *)
(* is the greedy reading of the line, for lines, reads and packets of any    *)
(* length.  The forwarder groups packets into whole readings and finds back  *)
(* after every loss, for any burst, chunk size and pattern of loss.  A healthy *)
(* report hides no loss, and the index inferred from the arrival times is the  *)
(* device's own over every run of gaps that can be told.                      *)
(***************************************************************************)
EXTENDS PacketStream, ImuForwarder, TLAPS, SequenceTheorems, FiniteSetTheorems,
        WellFoundedInduction

\* The first header of a buffer exists: a set of naturals has a least element.
LEMMA LeastElement ==
  ASSUME NEW T, T \subseteq Nat, T # {}
  PROVE  \E x \in T : \A y \in T : x <= y
<1>1. IsWellFoundedOn(OpToRel(<, Nat), Nat)
  BY NatLessThanWellFounded
<1>2. PICK x \in T : \A y \in T : <<y, x>> \notin OpToRel(<, Nat)
  BY <1>1, WFMin
<1>3. ASSUME NEW y \in T PROVE x <= y
  <2>1. ~ (y < x)
    BY <1>2 DEF OpToRel
  <2> QED
    BY <2>1
<1> QED
  BY <1>3

\* The elements of s from a + 1 to b.
LEMMA SliceProperties ==
  ASSUME NEW S, NEW s \in Seq(S), NEW a \in Nat, NEW b \in Nat, a <= b, b <= Len(s)
  PROVE  /\ SubSeq(s, a + 1, b) \in Seq(S)
         /\ Len(SubSeq(s, a + 1, b)) = b - a
         /\ \A i \in 1 .. b - a : SubSeq(s, a + 1, b)[i] = s[a + i]
<1>1. \A i \in a + 1 .. b : s[i] \in S
  OBVIOUS
<1>2. a + 1 \in Int /\ b \in Int
  OBVIOUS
<1>3. /\ SubSeq(s, a + 1, b) \in Seq(S)
      /\ Len(SubSeq(s, a + 1, b)) = IF a + 1 <= b THEN b - (a + 1) + 1 ELSE 0
      /\ \A i \in 1 .. b - (a + 1) + 1 : SubSeq(s, a + 1, b)[i] = s[a + 1 + i - 1]
  BY <1>1, <1>2, SubSeqProperties
<1>4. b - (a + 1) + 1 = b - a
  OBVIOUS
<1>5. \A i \in 1 .. b - a : a + 1 + i - 1 = a + i
  OBVIOUS
<1> QED
  BY <1>3, <1>4, <1>5

LEMMA GarbageInBuffer ==
  ASSUME buffer \in Seq(Byte)
  PROVE  /\ Garbage \in 0 .. Len(buffer)
         /\ Garbage < Len(buffer) => buffer[Garbage + 1] = Header
<1>1. CASE ~Contains(buffer, Header)
  BY <1>1 DEF Garbage
<1>2. CASE Contains(buffer, Header)
  <2> DEFINE headers == {i \in 1 .. Len(buffer) : buffer[i] = Header}
             Least(i) == /\ buffer[i] = Header
                         /\ \A j \in 1 .. i - 1 : buffer[j] # Header
  <2>1. headers \subseteq Nat /\ headers # {}
    BY <1>2 DEF Contains
  <2>2. PICK x \in headers : \A y \in headers : x <= y
    BY <2>1, LeastElement
  <2>3. Least(x)
    BY <2>2
  <2>4. \E i \in 1 .. Len(buffer) : Least(i)
    BY <2>3
  <2>5. PICK k : k = CHOOSE i \in 1 .. Len(buffer) : Least(i)
    OBVIOUS
  <2>6. k \in 1 .. Len(buffer) /\ Least(k)
    BY <2>4, <2>5
  <2>7. Garbage = k - 1
    BY <1>2, <2>5 DEF Garbage
  <2> QED
    BY <2>6, <2>7
<1> QED
  BY <1>1, <1>2

\* Cutting the garbage off leaves the end of the buffer, a header first.
LEMMA FromHeaderIsEnd ==
  ASSUME buffer \in Seq(Byte)
  PROVE  /\ FromHeader \in Seq(Byte)
         /\ Len(FromHeader) = Len(buffer) - Garbage
         /\ FromHeader # <<>> => FromHeader[1] = Header
         /\ \A i \in 1 .. Len(FromHeader) : FromHeader[i] = buffer[Garbage + i]
<1>1. /\ Garbage \in 0 .. Len(buffer)
      /\ Garbage < Len(buffer) => buffer[Garbage + 1] = Header
  BY GarbageInBuffer
<1>2. \A i \in Garbage + 1 .. Len(buffer) : buffer[i] \in Byte
  BY <1>1
<1>3. /\ FromHeader \in Seq(Byte)
      /\ Len(FromHeader) = IF Garbage + 1 <= Len(buffer)
                           THEN Len(buffer) - (Garbage + 1) + 1 ELSE 0
      /\ \A i \in 1 .. Len(buffer) - (Garbage + 1) + 1 :
           FromHeader[i] = buffer[Garbage + 1 + i - 1]
  BY <1>1, <1>2, SubSeqProperties DEF FromHeader
<1>4. Len(FromHeader) = Len(buffer) - Garbage
  BY <1>1, <1>3
<1>5. ASSUME FromHeader # <<>> PROVE FromHeader[1] = Header
  <2>1. Len(FromHeader) > 0
    BY <1>3, <1>5
  <2> QED
    BY <1>1, <1>3, <1>4, <2>1
<1> QED
  BY <1>1, <1>3, <1>4, <1>5
-----------------------------------------------------------------------------
\* BytesAccounted in its two parts, the second position by position.
CountsAddUp == fed = PacketLength * Len(decoded) + discarded + Len(buffer)

EndOfFed ==
  /\ Len(buffer) <= fed
  /\ \A i \in 1 .. Len(buffer) : buffer[i] = line[fed - Len(buffer) + i]

StreamInv == StreamTypeOK /\ EndOfFed /\ CountsAddUp

LEMMA StreamInitInvariant == StreamInit => StreamInv
<1> SUFFICES ASSUME StreamInit PROVE StreamInv
  OBVIOUS
<1>1. line \in Seq(Byte) /\ intact \subseteq Nat
  BY PacketStreamAssumption DEF StreamInit
<1>2. /\ fed = 0 /\ buffer = <<>> /\ decoded = <<>> /\ discarded = 0
      /\ checksumFailures = 0 /\ draining = FALSE
  BY DEF StreamInit
<1>3. PacketLength \in Nat /\ PacketLength > 0 /\ PacketLength * 0 = 0
  BY PacketStreamAssumption
<1>4. Len(buffer) = 0 /\ Len(decoded) = 0 /\ fed \in 0 .. Len(line)
  BY <1>1, <1>2
<1>5. StreamTypeOK
  <2>1. buffer \in Seq(Byte) /\ decoded \in Seq(Nat \ {0})
    BY <1>2
  <2>2. Len(buffer) < PacketLength /\ ~(buffer # <<>>)
    BY <1>2, <1>3, <1>4
  <2>3. discarded \in Nat /\ checksumFailures \in Nat /\ draining \in BOOLEAN
    BY <1>2
  <2> QED
    BY <1>1, <1>4, <2>1, <2>2, <2>3, Zenon DEF StreamTypeOK
<1>6. EndOfFed
  BY <1>2, <1>4 DEF EndOfFed
<1>7. CountsAddUp
  BY <1>2, <1>3, <1>4 DEF CountsAddUp
<1> QED
  BY <1>5, <1>6, <1>7 DEF StreamInv

\* A read appends the next bytes of the line.
LEMMA FeedInvariant ==
  ASSUME StreamInv, NEW n \in 1 .. Len(line), Feed(n)
  PROVE  StreamInv'
<1> DEFINE chunk == SubSeq(line, fed + 1, fed + n)
<1>0. /\ line \in Seq(Byte) /\ fed \in Nat /\ n \in Nat /\ n >= 1
      /\ fed + n <= Len(line)
      /\ buffer \in Seq(Byte) /\ buffer' = buffer \o chunk
      /\ fed' = fed + n /\ draining' = TRUE
      /\ UNCHANGED <<line, intact, decoded, discarded, checksumFailures>>
  BY DEF StreamInv, StreamTypeOK, Feed
<1>1. /\ chunk \in Seq(Byte)
      /\ Len(chunk) = n
      /\ \A i \in 1 .. n : chunk[i] = line[fed + i]
  <2>1. fed + n \in Nat /\ fed <= fed + n /\ fed + n - fed = n
    BY <1>0
  <2> QED
    BY <1>0, <2>1, SliceProperties
<1> HIDE DEF chunk
<1>2. /\ buffer' \in Seq(Byte)
      /\ Len(buffer') = Len(buffer) + n
      /\ \A i \in 1 .. Len(buffer) + n :
           buffer'[i] = IF i <= Len(buffer) THEN buffer[i] ELSE chunk[i - Len(buffer)]
  BY <1>0, <1>1, ConcatProperties
<1>3. StreamTypeOK'
  BY <1>0, <1>2 DEF StreamInv, StreamTypeOK
<1>4. EndOfFed'
  <2>1. Len(buffer) \in Nat /\ Len(buffer) <= fed /\ Len(buffer') <= fed'
    BY <1>0, <1>2 DEF StreamInv, EndOfFed
  <2>2. ASSUME NEW i \in 1 .. Len(buffer')
        PROVE  buffer'[i] = line'[fed' - Len(buffer') + i]
    <3>1. i \in 1 .. Len(buffer) + n /\ fed' - Len(buffer') + i = fed - Len(buffer) + i
      BY <1>0, <1>2, <2>1
    <3>2. CASE i <= Len(buffer)
      <4>1. buffer'[i] = buffer[i] /\ i \in 1 .. Len(buffer)
        BY <1>2, <2>1, <3>1, <3>2
      <4> QED
        BY <1>0, <3>1, <4>1 DEF StreamInv, EndOfFed
    <3>3. CASE i > Len(buffer)
      <4>1. i - Len(buffer) \in 1 .. n /\ fed + (i - Len(buffer)) = fed - Len(buffer) + i
        BY <1>0, <2>1, <3>1, <3>3
      <4>2. buffer'[i] = chunk[i - Len(buffer)]
        BY <1>2, <2>1, <3>1, <3>3
      <4> QED
        BY <1>0, <1>1, <3>1, <4>1, <4>2
    <3> QED
      BY <2>1, <3>1, <3>2, <3>3
  <2> QED
    BY <2>1, <2>2 DEF EndOfFed
<1>5. CountsAddUp'
  <2>1. PacketLength * Len(decoded) \in Nat /\ discarded \in Nat /\ Len(buffer) \in Nat
    BY PacketStreamAssumption DEF StreamInv, StreamTypeOK
  <2>2. fed' = fed + n /\ decoded' = decoded /\ discarded' = discarded
    BY <1>0
  <2> QED
    BY <1>0, <1>2, <2>1, <2>2 DEF StreamInv, CountsAddUp
<1> QED
  BY <1>3, <1>4, <1>5 DEF StreamInv

\* Lengths and positions when g bytes, then k, are cut off a buffer of b bytes
\* that ends at byte f of the line.
LEMMA DropArithmetic ==
  ASSUME NEW f \in Nat, NEW b \in Nat, NEW g \in Nat, NEW k \in Nat,
         NEW h \in Nat, h = b - g, k <= h
  PROVE  /\ h - k = b - g - k
         /\ \A i \in 1 .. h - k : /\ k + i \in 1 .. h
                                 /\ g + (k + i) \in 1 .. b
                                 /\ f - b + (g + (k + i)) = f - (h - k) + i
OBVIOUS

\* The three ways an iteration ends drop a beginning of the buffer: the garbage
\* before the header, and then nothing, one byte or a packet.
LEMMA DropInvariant ==
  ASSUME StreamInv, NEW k \in Nat, k <= Len(FromHeader),
         buffer' = SubSeq(FromHeader, k + 1, Len(FromHeader)),
         UNCHANGED <<line, intact, fed>>
  PROVE  /\ buffer' \in Seq(Byte)
         /\ Len(buffer') = Len(buffer) - Garbage - k
         /\ \A i \in 1 .. Len(buffer') : buffer'[i] = line[fed - Len(buffer') + i]
<1>1. /\ FromHeader \in Seq(Byte)
      /\ Len(FromHeader) = Len(buffer) - Garbage
      /\ \A i \in 1 .. Len(FromHeader) : FromHeader[i] = buffer[Garbage + i]
      /\ Garbage \in 0 .. Len(buffer)
  BY FromHeaderIsEnd, GarbageInBuffer DEF StreamInv, StreamTypeOK
<1>2. /\ fed \in Nat /\ Len(buffer) \in Nat /\ Len(FromHeader) \in Nat
      /\ Garbage \in Nat /\ Len(buffer) <= fed
  BY <1>1 DEF StreamInv, StreamTypeOK, EndOfFed
<1>3. /\ buffer' \in Seq(Byte)
      /\ Len(buffer') = Len(FromHeader) - k
      /\ \A i \in 1 .. Len(FromHeader) - k : buffer'[i] = FromHeader[k + i]
  BY <1>1, <1>2, SliceProperties
<1>4. Len(buffer') = Len(buffer) - Garbage - k
  BY <1>1, <1>2, <1>3, DropArithmetic
<1>5. ASSUME NEW i \in 1 .. Len(buffer')
      PROVE  buffer'[i] = line[fed - Len(buffer') + i]
  <2>1. /\ k + i \in 1 .. Len(FromHeader)
        /\ Garbage + (k + i) \in 1 .. Len(buffer)
        /\ fed - Len(buffer) + (Garbage + (k + i)) = fed - Len(buffer') + i
    <3>1. \A x \in 1 .. Len(FromHeader) - k :
            /\ k + x \in 1 .. Len(FromHeader)
            /\ Garbage + (k + x) \in 1 .. Len(buffer)
            /\ fed - Len(buffer) + (Garbage + (k + x)) = fed - (Len(FromHeader) - k) + x
      <4>1. Len(FromHeader) = Len(buffer) - Garbage
        BY <1>1
      <4> QED
        BY <1>2, <4>1, DropArithmetic
    <3> QED
      BY <1>3, <3>1, Zenon
  <2>2. buffer'[i] = FromHeader[k + i]
    BY <1>3
  <2>3. FromHeader[k + i] = buffer[Garbage + (k + i)]
    BY <1>1, <2>1
  <2>4. buffer[Garbage + (k + i)] = line[fed - Len(buffer) + (Garbage + (k + i))]
    BY <2>1 DEF StreamInv, EndOfFed
  <2> QED
    BY <2>1, <2>2, <2>3, <2>4
<1> QED
  BY <1>3, <1>4, <1>5

LEMMA WaitInvariant ==
  ASSUME StreamInv, draining, Wait, UNCHANGED <<line, intact, fed>>
  PROVE  StreamInv'
<1>1. /\ FromHeader \in Seq(Byte)
      /\ Len(FromHeader) = Len(buffer) - Garbage
      /\ FromHeader # <<>> => FromHeader[1] = Header
      /\ Garbage \in 0 .. Len(buffer)
  BY FromHeaderIsEnd, GarbageInBuffer DEF StreamInv, StreamTypeOK
<1>2. buffer' = SubSeq(FromHeader, 0 + 1, Len(FromHeader))
  BY <1>1, SubSeqFull DEF Wait
<1>3. /\ buffer' \in Seq(Byte)
      /\ Len(buffer') = Len(buffer) - Garbage - 0
      /\ \A i \in 1 .. Len(buffer') : buffer'[i] = line[fed - Len(buffer') + i]
  <2>1. 0 \in Nat /\ 0 <= Len(FromHeader)
    BY <1>1
  <2> QED
    BY <1>2, <2>1, DropInvariant
<1>4. StreamTypeOK'
  <2>1. discarded' \in Nat
    BY <1>1 DEF StreamInv, StreamTypeOK, Wait
  <2>2. Len(buffer') < PacketLength /\ (buffer' # <<>> => buffer'[1] = Header)
    BY <1>1 DEF Wait
  <2> QED
    BY <1>3, <2>1, <2>2 DEF StreamInv, StreamTypeOK, Wait
<1>5. EndOfFed'
  BY <1>1, <1>3 DEF StreamInv, StreamTypeOK, EndOfFed, Wait
<1>6. CountsAddUp'
  <2>1. /\ PacketLength * Len(decoded) \in Nat /\ discarded \in Nat /\ Len(buffer) \in Nat
        /\ decoded' = decoded /\ discarded' = discarded + Garbage
    BY PacketStreamAssumption DEF StreamInv, StreamTypeOK, Wait
  <2> QED
    BY <1>1, <1>3, <2>1 DEF StreamInv, CountsAddUp
<1> QED
  BY <1>4, <1>5, <1>6 DEF StreamInv

LEMMA RejectInvariant ==
  ASSUME StreamInv, draining, Reject, UNCHANGED <<line, intact, fed>>
  PROVE  StreamInv'
<1>1. /\ FromHeader \in Seq(Byte)
      /\ Len(FromHeader) = Len(buffer) - Garbage
      /\ Garbage \in 0 .. Len(buffer)
      /\ Len(FromHeader) >= 1
  BY FromHeaderIsEnd, GarbageInBuffer, PacketStreamAssumption DEF StreamInv, StreamTypeOK, Reject
<1>2. buffer' = SubSeq(FromHeader, 1 + 1, Len(FromHeader))
  <2>1. FromHeader # <<>>
    BY <1>1
  <2> QED
    BY <1>1, <2>1, TailIsSubSeq DEF Reject
<1>3. /\ buffer' \in Seq(Byte)
      /\ Len(buffer') = Len(buffer) - Garbage - 1
      /\ \A i \in 1 .. Len(buffer') : buffer'[i] = line[fed - Len(buffer') + i]
  BY <1>1, <1>2, DropInvariant
<1>4. StreamTypeOK'
  <2>1. discarded' \in Nat /\ checksumFailures' \in Nat
    BY <1>1 DEF StreamInv, StreamTypeOK, Reject
  <2> QED
    BY <1>3, <2>1 DEF StreamInv, StreamTypeOK, Reject
<1>5. EndOfFed'
  BY <1>1, <1>3 DEF StreamInv, StreamTypeOK, EndOfFed, Reject
<1>6. CountsAddUp'
  <2>1. /\ PacketLength * Len(decoded) \in Nat /\ discarded \in Nat /\ Len(buffer) \in Nat
        /\ decoded' = decoded /\ discarded' = discarded + Garbage + 1
    BY PacketStreamAssumption DEF StreamInv, StreamTypeOK, Reject
  <2> QED
    BY <1>1, <1>3, <2>1 DEF StreamInv, CountsAddUp
<1> QED
  BY <1>4, <1>5, <1>6 DEF StreamInv

LEMMA AcceptInvariant ==
  ASSUME StreamInv, draining, Accept, UNCHANGED <<line, intact, fed>>
  PROVE  StreamInv'
<1> DEFINE at == fed - Len(FromHeader) + 1
<1>1. /\ Len(FromHeader) = Len(buffer) - Garbage
      /\ Garbage \in 0 .. Len(buffer)
      /\ Len(FromHeader) >= PacketLength /\ PacketLength \in Nat
      /\ fed \in Nat /\ Len(buffer) \in Nat /\ Len(buffer) <= fed
  BY FromHeaderIsEnd, GarbageInBuffer, PacketStreamAssumption DEF StreamInv, StreamTypeOK, EndOfFed, Accept
<1>2. /\ buffer' \in Seq(Byte)
      /\ Len(buffer') = Len(buffer) - Garbage - PacketLength
      /\ \A i \in 1 .. Len(buffer') : buffer'[i] = line[fed - Len(buffer') + i]
  BY <1>1, DropInvariant DEF Accept
<1>3. /\ decoded' \in Seq(Nat \ {0})
      /\ Len(decoded') = Len(decoded) + 1
  <2>1. at \in Nat \ {0}
    BY <1>1
  <2> QED
    BY <2>1 DEF StreamInv, StreamTypeOK, Accept
<1>4. StreamTypeOK'
  BY <1>1, <1>2, <1>3 DEF StreamInv, StreamTypeOK, Accept
<1>5. EndOfFed'
  BY <1>1, <1>2 DEF StreamInv, EndOfFed
<1>6. CountsAddUp'
  <2>1. PacketLength * (Len(decoded) + 1) = PacketLength * Len(decoded) + PacketLength
    BY <1>1 DEF StreamInv, StreamTypeOK
  <2>2. /\ discarded \in Nat /\ PacketLength * Len(decoded) \in Nat
        /\ discarded' = discarded + Garbage
    BY <1>1 DEF StreamInv, StreamTypeOK, Accept
  <2> QED
    BY <1>1, <1>2, <1>3, <2>1, <2>2 DEF StreamInv, CountsAddUp
<1> QED
  BY <1>4, <1>5, <1>6 DEF StreamInv

LEMMA StreamStepInvariant == StreamInv /\ [StreamNext]_streamVars => StreamInv'
<1> SUFFICES ASSUME StreamInv, [StreamNext]_streamVars PROVE StreamInv'
  OBVIOUS
<1>1. CASE \E n \in 1 .. Len(line) : Feed(n)
  BY <1>1, FeedInvariant
<1>2. CASE Drain
  BY <1>2, WaitInvariant, RejectInvariant, AcceptInvariant DEF Drain
<1>3. CASE UNCHANGED streamVars
  BY <1>3 DEF StreamInv, StreamTypeOK, EndOfFed, CountsAddUp, streamVars
<1> QED
  BY <1>1, <1>2, <1>3 DEF StreamNext
-----------------------------------------------------------------------------
LEMMA StreamInvariantHolds == StreamSpec => []StreamInv
<1> QED
  BY StreamInitInvariant, StreamStepInvariant, PTL DEF StreamSpec

(* Between two calls the framer holds less than a packet, a header first: the *)
(* memory it needs does not depend on how long or how damaged the line is.    *)
THEOREM FramerTypeCorrect == StreamSpec => []StreamTypeOK
<1>1. StreamInv => StreamTypeOK
  BY DEF StreamInv
<1> QED
  BY <1>1, StreamInvariantHolds, PTL

LEMMA AccountsKept == StreamInv => BytesAccounted
<1> SUFFICES ASSUME StreamInv PROVE BytesAccounted
  OBVIOUS
<1> DEFINE m == fed - Len(buffer) + 1
           end == SubSeq(line, m, fed)
<1>1. /\ fed \in Nat /\ Len(buffer) \in Nat /\ Len(buffer) <= fed
      /\ fed <= Len(line) /\ line \in Seq(Byte)
      /\ buffer \in Seq(Byte)
      /\ \A i \in 1 .. Len(buffer) : buffer[i] = line[fed - Len(buffer) + i]
  BY DEF StreamInv, StreamTypeOK, EndOfFed
<1>2. \A i \in m .. fed : line[i] \in Byte
  BY <1>1
<1>3. /\ end \in Seq(Byte)
      /\ Len(end) = IF m <= fed THEN fed - m + 1 ELSE 0
      /\ \A i \in 1 .. fed - m + 1 : end[i] = line[m + i - 1]
  BY <1>1, <1>2, SubSeqProperties
<1>4. Len(end) = Len(buffer)
  BY <1>1, <1>3
<1>5. \A i \in 1 .. Len(buffer) : buffer[i] = end[i]
  BY <1>1, <1>3
<1>6. buffer = end
  BY <1>1, <1>3, <1>4, <1>5, SeqEqual
<1> QED
  BY <1>6 DEF BytesAccounted, StreamInv, CountsAddUp

(* Every byte fed was yielded in a packet, counted as discarded, or is still   *)
(* buffered, and the buffer is the end of what was fed.                       *)
THEOREM BytesNeverLost == StreamSpec => []BytesAccounted
<1> QED
  BY AccountsKept, StreamInvariantHolds, PTL
-----------------------------------------------------------------------------
(* The reading of a line l: the positions D decoded so far, of the first p    *)
(* positions, when f bytes have been fed.                                     *)
WindowOf(l, i) == SubSeq(l, i, i + PacketLength - 1)
Reaches(D, i) == \E j \in D : j < i /\ i < j + PacketLength

\* What is decoded lies behind p; every position whose window has been fed was
\* judged as a greedy reader does; and a header that nothing decoded covers was
\* judged, which takes its whole window.
ReadTo(l, D, p, f) ==
  /\ \A i \in D : i \in Nat \ {0} /\ i + PacketLength <= p + 1
  /\ \A i \in 1 .. p : i + PacketLength - 1 <= f =>
       (i \in D <=> Decodes(WindowOf(l, i)) /\ \A j \in D : j < i => j + PacketLength <= i)
  /\ \A i \in 1 .. p : l[i] = Header /\ ~ Reaches(D, i) => i + PacketLength - 1 <= f

\* The candidates whose checksum failed.
FailedTo(l, D, p) ==
  {i \in 1 .. p : l[i] = Header /\ ~ ChecksumHolds(WindowOf(l, i)) /\ ~ Reaches(D, i)}

LEMMA WindowBytes ==
  ASSUME NEW l \in Seq(Byte), NEW i \in Nat \ {0}, i + PacketLength - 1 <= Len(l)
  PROVE  /\ WindowOf(l, i) \in Seq(Byte) /\ Len(WindowOf(l, i)) = PacketLength
         /\ \A k \in 1 .. PacketLength : WindowOf(l, i)[k] = l[i + k - 1]
<1> DEFINE n == i + PacketLength - 1
<1>1. PacketLength \in Nat /\ PacketLength >= 1 /\ n \in Nat /\ i <= n
  BY PacketStreamAssumption
<1>2. \A k \in i .. n : l[k] \in Byte
  BY <1>1
<1>3. /\ SubSeq(l, i, n) \in Seq(Byte)
      /\ Len(SubSeq(l, i, n)) = IF i <= n THEN n - i + 1 ELSE 0
      /\ \A k \in 1 .. n - i + 1 : SubSeq(l, i, n)[k] = l[i + k - 1]
  BY <1>1, <1>2, SubSeqProperties
<1>4. n - i + 1 = PacketLength
  BY <1>1
<1> QED
  BY <1>1, <1>3, <1>4 DEF WindowOf

\* Positions that are no header are passed over.
LEMMA GarbagePassed ==
  ASSUME NEW l \in Seq(Byte), NEW D, NEW p \in Nat, NEW q \in Nat, NEW f \in Nat,
         p <= q, f <= Len(l), ReadTo(l, D, p, f), \A i \in p + 1 .. q : l[i] # Header
  PROVE  ReadTo(l, D, q, f) /\ FailedTo(l, D, q) = FailedTo(l, D, p)
<1>0. PacketLength \in Nat /\ PacketLength >= 1
  BY PacketStreamAssumption
<1>1. \A i \in D : i \in Nat \ {0} /\ i + PacketLength <= q + 1 /\ i \in 1 .. p
  BY <1>0 DEF ReadTo
<1>2. ASSUME NEW i \in 1 .. q, i + PacketLength - 1 <= f
      PROVE  i \in D <=> Decodes(WindowOf(l, i)) /\ \A j \in D : j < i => j + PacketLength <= i
  <2>1. CASE i <= p
    BY <1>2, <2>1 DEF ReadTo
  <2>2. CASE i > p
    <3>1. i \notin D /\ l[i] # Header
      BY <1>1, <2>2
    <3>2. WindowOf(l, i)[1] = l[i]
      <4>1. i + PacketLength - 1 <= Len(l) /\ 1 \in 1 .. PacketLength /\ i + 1 - 1 = i
        BY <1>0, <1>2
      <4> QED
        BY <4>1, WindowBytes
    <3> QED
      BY <3>1, <3>2 DEF Decodes
  <2> QED
    BY <2>1, <2>2
<1>3. \A i \in 1 .. q : l[i] = Header => i \in 1 .. p
  OBVIOUS
<1> QED
  BY <1>1, <1>2, <1>3 DEF ReadTo, FailedTo

\* A header that starts no packet.
LEMMA CandidateRejected ==
  ASSUME NEW l \in Seq(Byte), NEW D, NEW p \in Nat, NEW f \in Nat, ReadTo(l, D, p, f),
         p + PacketLength <= f, f <= Len(l), l[p + 1] = Header, ~ Decodes(WindowOf(l, p + 1))
  PROVE  /\ ReadTo(l, D, p + 1, f)
         /\ FailedTo(l, D, p + 1) =
              FailedTo(l, D, p) \cup (IF ChecksumHolds(WindowOf(l, p + 1)) THEN {} ELSE {p + 1})
<1>0. PacketLength \in Nat /\ PacketLength >= 1
  BY PacketStreamAssumption
<1>1. \A i \in D : i \in Nat \ {0} /\ i + PacketLength <= p + 1 /\ i \in 1 .. p
  BY <1>0 DEF ReadTo
<1>2. p + 1 \notin D /\ ~ Reaches(D, p + 1)
  BY <1>0, <1>1 DEF Reaches
<1>3. ReadTo(l, D, p + 1, f)
  <2>1. \A i \in D : i \in Nat \ {0} /\ i + PacketLength <= p + 1 + 1
    BY <1>0, <1>1
  <2>2. \A i \in 1 .. p + 1 : i \in 1 .. p \/ i = p + 1
    OBVIOUS
  <2>3. \A i \in 1 .. p + 1 : i + PacketLength - 1 <= f =>
          (i \in D <=> Decodes(WindowOf(l, i)) /\ \A j \in D : j < i => j + PacketLength <= i)
    BY <1>2, <2>2 DEF ReadTo
  <2>4. \A i \in 1 .. p + 1 : l[i] = Header /\ ~ Reaches(D, i) => i + PacketLength - 1 <= f
    BY <1>0, <2>2 DEF ReadTo
  <2> QED
    BY <2>1, <2>3, <2>4 DEF ReadTo
<1> QED
  BY <1>2, <1>3 DEF FailedTo

\* A packet.
LEMMA PacketDecoded ==
  ASSUME NEW l \in Seq(Byte), NEW D, NEW p \in Nat, NEW f \in Nat, ReadTo(l, D, p, f),
         p + PacketLength <= f, f <= Len(l), Decodes(WindowOf(l, p + 1))
  PROVE  /\ ReadTo(l, D \cup {p + 1}, p + PacketLength, f)
         /\ FailedTo(l, D \cup {p + 1}, p + PacketLength) = FailedTo(l, D, p)
<1> DEFINE E == D \cup {p + 1}
<1>0. PacketLength \in Nat /\ PacketLength >= 1
  BY PacketStreamAssumption
<1>1. \A i \in D : i \in Nat \ {0} /\ i + PacketLength <= p + 1 /\ i \in 1 .. p
  BY <1>0 DEF ReadTo
<1>2. /\ \A i \in 1 .. p : (i \in E <=> i \in D) /\ (Reaches(E, i) <=> Reaches(D, i))
      /\ \A i \in 1 .. p : (\A j \in E : j < i => j + PacketLength <= i)
                             <=> (\A j \in D : j < i => j + PacketLength <= i)
  BY <1>0 DEF Reaches
<1>3. \A i \in p + 2 .. p + PacketLength : i \notin E /\ Reaches(E, i) /\ p + 1 \in E
                                         /\ p + 1 < i /\ ~ (p + 1 + PacketLength <= i)
  <2>1. ASSUME NEW i \in p + 2 .. p + PacketLength
        PROVE  /\ i \notin E /\ Reaches(E, i) /\ p + 1 \in E
               /\ p + 1 < i /\ ~ (p + 1 + PacketLength <= i)
    <3>1. i \notin E /\ p + 1 \in E
      BY <1>0, <1>1
    <3>2. p + 1 < i /\ i < p + 1 + PacketLength /\ ~ (p + 1 + PacketLength <= i)
      BY <1>0
    <3>3. Reaches(E, i)
      <4> HIDE DEF E
      <4> QED
        BY <3>1, <3>2, Zenon DEF Reaches
    <3> QED
      BY <3>1, <3>2, <3>3
  <2> QED
    BY <2>1, Zenon
<1>4. p + 1 \in E /\ ~ Reaches(E, p + 1) /\ \A j \in E : j < p + 1 => j + PacketLength <= p + 1
  BY <1>0, <1>1 DEF Reaches
<1>5. \A i \in 1 .. p + PacketLength : i \in 1 .. p \/ i = p + 1 \/ i \in p + 2 .. p + PacketLength
  BY <1>0
<1>6. 1 .. p \subseteq 1 .. p + PacketLength
  BY <1>0
<1>7. \A i \in E : i \in Nat \ {0} /\ i + PacketLength <= p + PacketLength + 1
  BY <1>0, <1>1
<1> HIDE DEF E
<1>8. \A i \in 1 .. p + PacketLength : i + PacketLength - 1 <= f =>
        (i \in E <=> Decodes(WindowOf(l, i)) /\ \A j \in E : j < i => j + PacketLength <= i)
  <2>1. ASSUME NEW i \in 1 .. p, i + PacketLength - 1 <= f
        PROVE  i \in E <=> Decodes(WindowOf(l, i)) /\ \A j \in E : j < i => j + PacketLength <= i
    BY <1>2, <2>1 DEF ReadTo
  <2> QED
    BY <1>3, <1>4, <1>5, <2>1
<1>9. \A i \in 1 .. p + PacketLength : l[i] = Header /\ ~ Reaches(E, i) => i + PacketLength - 1 <= f
  <2>1. p + 1 + PacketLength - 1 <= f
    BY <1>0
  <2> QED
    BY <1>2, <1>3, <1>5, <2>1 DEF ReadTo
<1>10. FailedTo(l, E, p + PacketLength) = FailedTo(l, D, p)
  <2>1. ChecksumHolds(WindowOf(l, p + 1))
    BY DEF Decodes
  <2> QED
    BY <1>2, <1>3, <1>5, <1>6, <2>1 DEF FailedTo
<1>11. ReadTo(l, E, p + PacketLength, f)
  BY <1>7, <1>8, <1>9 DEF ReadTo
<1> QED
  BY <1>10, <1>11 DEF E

\* More bytes arrive: the windows they complete start at no header, or at a
\* position that is covered.
LEMMA MoreFed ==
  ASSUME NEW l \in Seq(Byte), NEW D, NEW p \in Nat, NEW f \in Nat, NEW g \in Nat,
         p <= f, f <= g, g <= Len(l), ReadTo(l, D, p, f)
  PROVE  ReadTo(l, D, p, g)
<1>0. PacketLength \in Nat /\ PacketLength >= 1
  BY PacketStreamAssumption
<1>1. \A j \in D : j \in Nat \ {0} /\ j + PacketLength <= p + 1
  BY DEF ReadTo
<1>2. ASSUME NEW i \in 1 .. p, i + PacketLength - 1 <= g, ~ (i + PacketLength - 1 <= f)
      PROVE  i \notin D /\ ~ (/\ Decodes(WindowOf(l, i))
                              /\ \A j \in D : j < i => j + PacketLength <= i)
  <2>1. i \notin D
    BY <1>0, <1>1, <1>2
  <2>2. CASE l[i] # Header
    <3>1. WindowOf(l, i)[1] = l[i]
      <4>1. i + PacketLength - 1 <= Len(l) /\ 1 \in 1 .. PacketLength /\ i + 1 - 1 = i
        BY <1>0, <1>2
      <4> QED
        BY <4>1, WindowBytes
    <3> QED
      BY <2>1, <2>2, <3>1 DEF Decodes
  <2>3. CASE l[i] = Header
    <3>1. Reaches(D, i)
      BY <1>2, <2>3 DEF ReadTo
    <3>2. PICK j \in D : j < i /\ i < j + PacketLength
      BY <3>1 DEF Reaches
    <3>3. ~ (j + PacketLength <= i)
      BY <1>0, <1>1, <3>2
    <3> QED
      BY <2>1, <3>2, <3>3
  <2> QED
    BY <2>2, <2>3
<1>3. \A i \in 1 .. p : i + PacketLength - 1 <= g =>
        (i \in D <=> Decodes(WindowOf(l, i)) /\ \A j \in D : j < i => j + PacketLength <= i)
  BY <1>2 DEF ReadTo
<1>4. \A i \in 1 .. p : l[i] = Header /\ ~ Reaches(D, i) => i + PacketLength - 1 <= g
  BY <1>0 DEF ReadTo
<1> QED
  BY <1>1, <1>3, <1>4 DEF ReadTo

\* Every position before the next header is none.
LEMMA NoHeaderInGarbage ==
  ASSUME buffer \in Seq(Byte)
  PROVE  \A i \in 1 .. Garbage : buffer[i] # Header
<1>1. CASE ~ Contains(buffer, Header)
  BY <1>1 DEF Garbage, Contains
<1>2. CASE Contains(buffer, Header)
  <2> DEFINE headers == {i \in 1 .. Len(buffer) : buffer[i] = Header}
             Least(i) == /\ buffer[i] = Header
                         /\ \A j \in 1 .. i - 1 : buffer[j] # Header
  <2>1. headers \subseteq Nat /\ headers # {}
    BY <1>2 DEF Contains
  <2>2. PICK x \in headers : \A y \in headers : x <= y
    BY <2>1, LeastElement
  <2>3. \E i \in 1 .. Len(buffer) : Least(i)
    BY <2>2
  <2>4. PICK k : k = CHOOSE i \in 1 .. Len(buffer) : Least(i)
    OBVIOUS
  <2>5. k \in 1 .. Len(buffer) /\ Least(k)
    BY <2>3, <2>4
  <2>6. Garbage = k - 1
    BY <1>2, <2>4 DEF Garbage
  <2> QED
    BY <2>5, <2>6
<1> QED
  BY <1>1, <1>2
-----------------------------------------------------------------------------
Increasing(s) == \A i, j \in 1 .. Len(s) : i < j => s[i] < s[j]

\* The first position the framer has not judged yet is the first of the buffer.
Behind == fed - Len(buffer)

\* Everything before the buffer has been read as a greedy reader does.
Judged ==
  /\ Behind \in Nat
  /\ ReadTo(line, ToSet(decoded), Behind, fed)
  /\ Increasing(decoded)
  /\ IsFiniteSet(FailedTo(line, ToSet(decoded), Behind))
  /\ checksumFailures = Cardinality(FailedTo(line, ToSet(decoded), Behind))

GreedyInv == StreamInv /\ Judged

LEMMA InitJudged == StreamInit => Judged
<1> SUFFICES ASSUME StreamInit PROVE Judged
  OBVIOUS
<1>1. fed = 0 /\ buffer = <<>> /\ decoded = <<>> /\ checksumFailures = 0
  BY DEF StreamInit
<1>2. Behind = 0 /\ Len(decoded) = 0 /\ 1 .. 0 = {}
  <2>1. Len(buffer) = 0 /\ Len(decoded) = 0
    BY <1>1
  <2>2. Behind = 0
    <3>1. fed = 0
      BY <1>1
    <3> QED
      BY <2>1, <3>1 DEF Behind
  <2>3. 1 .. 0 = {}
    OBVIOUS
  <2> QED
    BY <2>1, <2>2, <2>3
<1>3. ToSet(decoded) = {}
  BY <1>1 DEF ToSet
<1>4. ReadTo(line, {}, 0, 0)
  BY DEF ReadTo
<1>5. FailedTo(line, {}, 0) = {}
  BY <1>2 DEF FailedTo
<1>6. Increasing(decoded)
  BY <1>2 DEF Increasing
<1> QED
  BY <1>1, <1>2, <1>3, <1>4, <1>5, <1>6, FS_EmptySet DEF Judged

LEMMA FeedJudged ==
  ASSUME GreedyInv, StreamInv', NEW n \in 1 .. Len(line), Feed(n)
  PROVE  Judged'
<1> DEFINE D == ToSet(decoded)
           p == fed - Len(buffer)
<1>1. /\ fed \in Nat /\ n \in Nat /\ fed + n <= Len(line) /\ line \in Seq(Byte)
      /\ fed' = fed + n /\ Len(buffer) \in Nat /\ Len(buffer) <= fed
      /\ buffer \in Seq(Byte) /\ UNCHANGED <<line, decoded, checksumFailures>>
  BY DEF GreedyInv, StreamInv, StreamTypeOK, EndOfFed, Feed
<1>2. Len(buffer') = Len(buffer) + n
  <2>1. /\ PacketLength * Len(decoded) \in Nat /\ discarded \in Nat /\ Len(buffer') \in Nat
        /\ discarded' = discarded
    BY PacketStreamAssumption DEF GreedyInv, StreamInv, StreamTypeOK, Feed
  <2>2. /\ fed = PacketLength * Len(decoded) + discarded + Len(buffer)
        /\ fed' = PacketLength * Len(decoded) + discarded + Len(buffer')
    BY <1>1, <2>1 DEF GreedyInv, StreamInv, CountsAddUp
  <2> QED
    BY <1>1, <2>1, <2>2
<1>3. Behind = p /\ Behind' = p /\ p \in Nat /\ p <= fed
  BY <1>1, <1>2 DEF Behind
<1>4. ReadTo(line, D, p, fed)
  BY <1>3 DEF GreedyInv, Judged
<1>5. ReadTo(line, D, p, fed + n)
  <2>1. fed <= fed + n /\ fed + n \in Nat
    BY <1>1
  <2> HIDE DEF D, p
  <2> QED
    BY <1>1, <1>3, <1>4, <2>1, MoreFed
<1> QED
  BY <1>1, <1>3, <1>5 DEF GreedyInv, Judged

\* What an iteration sees: the garbage holds no header, and the candidate is
\* the window of the line behind it.
LEMMA Candidates ==
  ASSUME GreedyInv
  PROVE  /\ line \in Seq(Byte) /\ fed \in Nat /\ fed <= Len(line) /\ Behind \in Nat
         /\ Garbage \in Nat /\ Behind + Garbage + Len(FromHeader) = fed
         /\ Len(FromHeader) \in Nat
         /\ \A i \in Behind + 1 .. Behind + Garbage : line[i] # Header
         /\ Len(FromHeader) >= PacketLength =>
              /\ line[Behind + Garbage + 1] = Header
              /\ Candidate = WindowOf(line, Behind + Garbage + 1)
<1>0. PacketLength \in Nat /\ PacketLength >= 1
  BY PacketStreamAssumption
<1>1. /\ line \in Seq(Byte) /\ fed \in Nat /\ fed <= Len(line)
      /\ buffer \in Seq(Byte) /\ Len(buffer) \in Nat /\ Len(buffer) <= fed
  BY DEF GreedyInv, StreamInv, StreamTypeOK, EndOfFed
<1>2. /\ Garbage \in 0 .. Len(buffer)
      /\ FromHeader \in Seq(Byte)
      /\ Len(FromHeader) = Len(buffer) - Garbage
      /\ FromHeader # <<>> => FromHeader[1] = Header
      /\ \A i \in 1 .. Len(FromHeader) : FromHeader[i] = buffer[Garbage + i]
      /\ \A i \in 1 .. Garbage : buffer[i] # Header
  BY <1>1, GarbageInBuffer, FromHeaderIsEnd, NoHeaderInGarbage
<1>3. \A i \in 1 .. Len(buffer) : buffer[i] = line[Behind + i]
  BY DEF GreedyInv, StreamInv, EndOfFed, Behind
<1>4. Behind \in Nat /\ Behind = fed - Len(buffer)
  BY DEF GreedyInv, Judged, Behind
<1>5. /\ Garbage \in Nat /\ Behind + Garbage + Len(FromHeader) = fed
      /\ Len(FromHeader) \in Nat
  BY <1>1, <1>2, <1>4
<1>6. ASSUME NEW i \in Behind + 1 .. Behind + Garbage PROVE line[i] # Header
  <2> DEFINE k == i - Behind
  <2>1. k \in 1 .. Garbage /\ k \in 1 .. Len(buffer) /\ Behind + k = i
    BY <1>2, <1>4
  <2> HIDE DEF k
  <2> QED
    BY <1>2, <1>3, <2>1
<1>7. \A i \in 1 .. Len(FromHeader) : FromHeader[i] = line[Behind + Garbage + i]
  <2>1. ASSUME NEW i \in 1 .. Len(FromHeader) PROVE FromHeader[i] = line[Behind + Garbage + i]
    <3>1. Garbage + i \in 1 .. Len(buffer) /\ Behind + (Garbage + i) = Behind + Garbage + i
      BY <1>1, <1>2, <1>4
    <3> QED
      BY <1>2, <1>3, <3>1
  <2> QED
    BY <2>1
<1>8. ASSUME Len(FromHeader) >= PacketLength
      PROVE  /\ line[Behind + Garbage + 1] = Header
             /\ Candidate = WindowOf(line, Behind + Garbage + 1)
  <2>1. line[Behind + Garbage + 1] = Header
    <3>1. FromHeader # <<>> /\ 1 \in 1 .. Len(FromHeader)
      BY <1>0, <1>5, <1>8
    <3> QED
      BY <1>2, <1>7, <3>1
  <2> DEFINE q == Behind + Garbage
  <2>2. \A i \in 1 .. PacketLength : FromHeader[i] \in Byte
    BY <1>0, <1>2, <1>8
  <2>3. /\ Candidate \in Seq(Byte) /\ Len(Candidate) = PacketLength
        /\ \A i \in 1 .. PacketLength : Candidate[i] = FromHeader[i]
    <3>1. /\ SubSeq(FromHeader, 0 + 1, PacketLength) \in Seq(Byte)
          /\ Len(SubSeq(FromHeader, 0 + 1, PacketLength)) = PacketLength - 0
          /\ \A i \in 1 .. PacketLength - 0 :
               SubSeq(FromHeader, 0 + 1, PacketLength)[i] = FromHeader[0 + i]
      <4>1. 0 \in Nat /\ 0 <= PacketLength
        BY <1>0
      <4> QED
        BY <1>0, <1>2, <1>8, <4>1, SliceProperties
    <3>2. PacketLength - 0 = PacketLength /\ 0 + 1 = 1
      BY <1>0
    <3>3. \A i \in 1 .. PacketLength : 0 + i = i
      BY <1>0
    <3> QED
      BY <3>1, <3>2, <3>3 DEF Candidate
  <2>4. q + 1 \in Nat \ {0} /\ q + 1 + PacketLength - 1 <= Len(line)
    BY <1>0, <1>1, <1>4, <1>5, <1>8
  <2>5. /\ WindowOf(line, q + 1) \in Seq(Byte) /\ Len(WindowOf(line, q + 1)) = PacketLength
        /\ \A k \in 1 .. PacketLength : WindowOf(line, q + 1)[k] = line[q + 1 + k - 1]
    <3> HIDE DEF q
    <3> QED
      BY <1>1, <2>4, WindowBytes
  <2>6. \A k \in 1 .. PacketLength : Candidate[k] = WindowOf(line, q + 1)[k]
    <3>1. ASSUME NEW k \in 1 .. PacketLength PROVE Candidate[k] = WindowOf(line, q + 1)[k]
      <4>1. k \in 1 .. Len(FromHeader) /\ q + 1 + k - 1 = q + k
        BY <1>0, <1>4, <1>5, <1>8
      <4> QED
        BY <1>7, <2>3, <2>5, <4>1
    <3> QED
      BY <3>1
  <2>7. Candidate = WindowOf(line, q + 1)
    <3> HIDE DEF q
    <3> QED
      BY <2>3, <2>5, <2>6, SeqEqual
  <2> QED
    BY <2>1, <2>7
<1> QED
  BY <1>1, <1>4, <1>5, <1>6, <1>8

\* Where the buffer begins after an iteration.
LEMMA BehindAfter ==
  ASSUME GreedyInv, StreamInv', NEW k \in Nat, k <= Len(FromHeader),
         buffer' = SubSeq(FromHeader, k + 1, Len(FromHeader)),
         UNCHANGED <<line, intact, fed>>
  PROVE  Behind' = Behind + Garbage + k
<1>1. Len(buffer') = Len(buffer) - Garbage - k
  BY DropInvariant DEF GreedyInv
<1>2. /\ Garbage \in Nat /\ fed \in Nat /\ Len(buffer) \in Nat /\ fed' = fed
  BY Candidates DEF GreedyInv, StreamInv, StreamTypeOK
<1>3. Behind' = fed' - Len(buffer') /\ Behind = fed - Len(buffer)
  BY DEF Behind
<1> HIDE DEF Behind
<1> QED
  BY <1>1, <1>2, <1>3

LEMMA WaitJudged ==
  ASSUME GreedyInv, StreamInv', Wait, UNCHANGED <<line, intact, fed>>
  PROVE  Judged'
<1> DEFINE D == ToSet(decoded)
           p == Behind
           q == Behind + Garbage
<1>1. /\ line \in Seq(Byte) /\ fed \in Nat /\ fed <= Len(line) /\ p \in Nat
      /\ Garbage \in Nat /\ q \in Nat /\ p <= q
      /\ \A i \in p + 1 .. q : line[i] # Header
  BY Candidates
<1>2. Behind' = q
  <2>1. 0 \in Nat /\ 0 <= Len(FromHeader) /\ Len(FromHeader) \in Nat
    BY Candidates
  <2>2. FromHeader \in Seq(Byte)
    BY FromHeaderIsEnd DEF GreedyInv, StreamInv, StreamTypeOK
  <2>3. buffer' = SubSeq(FromHeader, 0 + 1, Len(FromHeader))
    BY <2>2, SubSeqFull DEF Wait
  <2>4. Behind' = Behind + Garbage + 0
    BY <2>1, <2>3, BehindAfter
  <2> QED
    BY <1>1, <2>4
<1>3. ReadTo(line, D, p, fed)
  BY DEF GreedyInv, Judged
<1>4. ReadTo(line, D, q, fed) /\ FailedTo(line, D, q) = FailedTo(line, D, p)
  <2> HIDE DEF D, p, q
  <2> QED
    BY <1>1, <1>3, GarbagePassed
<1>5. UNCHANGED <<decoded, checksumFailures>>
  BY DEF Wait
<1> QED
  BY <1>1, <1>2, <1>4, <1>5 DEF GreedyInv, Judged

LEMMA RejectJudged ==
  ASSUME GreedyInv, StreamInv', Reject, UNCHANGED <<line, intact, fed>>
  PROVE  Judged'
<1> DEFINE D == ToSet(decoded)
           p == Behind
           q == Behind + Garbage
<1>0. PacketLength \in Nat /\ PacketLength >= 1
  BY PacketStreamAssumption
<1>1. /\ line \in Seq(Byte) /\ fed \in Nat /\ fed <= Len(line) /\ p \in Nat
      /\ Garbage \in Nat /\ q \in Nat /\ p <= q /\ q + Len(FromHeader) = fed
      /\ Len(FromHeader) \in Nat
      /\ \A i \in p + 1 .. q : line[i] # Header
  BY Candidates
<1>2. /\ line[q + 1] = Header /\ Candidate = WindowOf(line, q + 1)
      /\ q + PacketLength <= fed /\ ~ Decodes(WindowOf(line, q + 1))
  <2>1. Len(FromHeader) >= PacketLength /\ ~ Decodes(Candidate)
    BY DEF Reject
  <2>2. line[q + 1] = Header /\ Candidate = WindowOf(line, q + 1)
    BY <2>1, Candidates
  <2>3. q + PacketLength <= fed
    BY <1>0, <1>1, <2>1
  <2> QED
    BY <2>1, <2>2, <2>3
<1>3. Behind' = q + 1
  <2>1. FromHeader \in Seq(Byte) /\ 1 <= Len(FromHeader) /\ 1 \in Nat
    BY <1>0, FromHeaderIsEnd DEF GreedyInv, StreamInv, StreamTypeOK, Reject
  <2>2. buffer' = SubSeq(FromHeader, 1 + 1, Len(FromHeader))
    BY <2>1, TailIsSubSeq DEF Reject
  <2> QED
    BY <2>1, <2>2, BehindAfter
<1>4. ReadTo(line, D, p, fed)
  BY DEF GreedyInv, Judged
<1>5. ReadTo(line, D, q, fed) /\ FailedTo(line, D, q) = FailedTo(line, D, p)
  <2> HIDE DEF D, p, q
  <2> QED
    BY <1>1, <1>4, GarbagePassed
<1>6. /\ ReadTo(line, D, q + 1, fed)
      /\ FailedTo(line, D, q + 1) =
           FailedTo(line, D, q) \cup (IF ChecksumHolds(Candidate) THEN {} ELSE {q + 1})
  <2>1. /\ ReadTo(line, D, q + 1, fed)
        /\ FailedTo(line, D, q + 1) =
             FailedTo(line, D, q) \cup (IF ChecksumHolds(WindowOf(line, q + 1)) THEN {} ELSE {q + 1})
    <3> HIDE DEF D, p, q
    <3> QED
      BY <1>1, <1>2, <1>5, CandidateRejected
  <2> QED
    BY <1>2, <2>1
<1>7. /\ decoded' = decoded
      /\ checksumFailures' =
           IF ChecksumHolds(Candidate) THEN checksumFailures ELSE checksumFailures + 1
  BY DEF Reject
<1>8. /\ IsFiniteSet(FailedTo(line, D, q))
      /\ checksumFailures = Cardinality(FailedTo(line, D, q))
  BY <1>5 DEF GreedyInv, Judged
<1>9. q + 1 \notin FailedTo(line, D, q)
  BY <1>1 DEF FailedTo
<1>10. /\ IsFiniteSet(FailedTo(line, D, q + 1))
       /\ checksumFailures' = Cardinality(FailedTo(line, D, q + 1))
  <2> HIDE DEF D, p, q
  <2>1. CASE ChecksumHolds(Candidate)
    BY <1>6, <1>7, <1>8, <2>1
  <2>2. CASE ~ ChecksumHolds(Candidate)
    BY <1>6, <1>7, <1>8, <1>9, <2>2, FS_AddElement
  <2> QED
    BY <2>1, <2>2
<1>11. q + 1 \in Nat
  BY <1>1
<1> QED
  BY <1>3, <1>6, <1>7, <1>10, <1>11 DEF GreedyInv, Judged

LEMMA AcceptJudged ==
  ASSUME GreedyInv, StreamInv', Accept, UNCHANGED <<line, intact, fed>>
  PROVE  Judged'
<1> DEFINE D == ToSet(decoded)
           p == Behind
           q == Behind + Garbage
<1>0. PacketLength \in Nat /\ PacketLength >= 1
  BY PacketStreamAssumption
<1>1. /\ line \in Seq(Byte) /\ fed \in Nat /\ fed <= Len(line) /\ p \in Nat
      /\ Garbage \in Nat /\ q \in Nat /\ p <= q /\ q + Len(FromHeader) = fed
      /\ Len(FromHeader) \in Nat
      /\ \A i \in p + 1 .. q : line[i] # Header
  BY Candidates
<1>2. q + PacketLength <= fed /\ Decodes(WindowOf(line, q + 1))
  <2>1. Len(FromHeader) >= PacketLength /\ Decodes(Candidate)
    BY DEF Accept
  <2>2. Candidate = WindowOf(line, q + 1)
    BY <2>1, Candidates
  <2>3. q + PacketLength <= fed
    BY <1>0, <1>1, <2>1
  <2> QED
    BY <2>1, <2>2, <2>3
<1>3. Behind' = q + PacketLength
  <2>1. PacketLength <= Len(FromHeader)
    BY <1>0, <1>1 DEF Accept
  <2>2. buffer' = SubSeq(FromHeader, PacketLength + 1, Len(FromHeader))
    BY DEF Accept
  <2> QED
    BY <1>0, <2>1, <2>2, BehindAfter
<1>4. ReadTo(line, D, p, fed)
  BY DEF GreedyInv, Judged
<1>5. ReadTo(line, D, q, fed) /\ FailedTo(line, D, q) = FailedTo(line, D, p)
  <2> HIDE DEF D, p, q
  <2> QED
    BY <1>1, <1>4, GarbagePassed
<1>6. /\ ReadTo(line, D \cup {q + 1}, q + PacketLength, fed)
      /\ FailedTo(line, D \cup {q + 1}, q + PacketLength) = FailedTo(line, D, q)
  <2> HIDE DEF D, p, q
  <2> QED
    BY <1>1, <1>2, <1>5, PacketDecoded
<1>7. decoded' = Append(decoded, q + 1) /\ checksumFailures' = checksumFailures
  <2>1. fed - Len(FromHeader) + 1 = q + 1
    BY <1>1
  <2> QED
    BY <2>1 DEF Accept
<1>8. /\ decoded \in Seq(Nat \ {0}) /\ Len(decoded') = Len(decoded) + 1 /\ Len(decoded) \in Nat
      /\ \A i \in 1 .. Len(decoded) : decoded'[i] = decoded[i]
      /\ decoded'[Len(decoded) + 1] = q + 1
  <2>1. decoded \in Seq(Nat \ {0}) /\ q + 1 \in Nat \ {0}
    BY <1>1 DEF GreedyInv, StreamInv, StreamTypeOK
  <2> HIDE DEF q
  <2> QED
    BY <1>7, <2>1
<1>9. ToSet(decoded') = D \cup {q + 1}
  <2>1. 1 .. Len(decoded') = (1 .. Len(decoded)) \cup {Len(decoded) + 1}
    BY <1>8
  <2> HIDE DEF q
  <2> QED
    BY <1>8, <2>1 DEF ToSet
<1>10. Increasing(decoded')
  <2>1. Increasing(decoded)
    BY DEF GreedyInv, Judged
  <2>2. ASSUME NEW i \in 1 .. Len(decoded) PROVE decoded[i] < q + 1 /\ decoded[i] \in Nat
    <3>1. decoded[i] \in D
      BY DEF ToSet
    <3>2. decoded[i] \in Nat /\ decoded[i] + PacketLength <= q + 1
      BY <1>5, <3>1 DEF ReadTo
    <3> QED
      BY <1>0, <1>1, <3>2
  <2>3. ASSUME NEW i \in 1 .. Len(decoded'), NEW j \in 1 .. Len(decoded'), i < j
        PROVE  decoded'[i] < decoded'[j]
    <3>1. i \in 1 .. Len(decoded)
      BY <1>8, <2>3
    <3>2. CASE j \in 1 .. Len(decoded)
      BY <1>8, <2>1, <2>3, <3>1, <3>2 DEF Increasing
    <3>3. CASE j = Len(decoded) + 1
      BY <1>8, <2>2, <3>1, <3>3
    <3> QED
      BY <1>8, <3>2, <3>3
  <2> QED
    BY <2>3 DEF Increasing
<1>11. q + PacketLength \in Nat
  BY <1>0, <1>1
<1>12. /\ IsFiniteSet(FailedTo(line, D, q))
       /\ checksumFailures = Cardinality(FailedTo(line, D, q))
  BY <1>5 DEF GreedyInv, Judged
<1> QED
  BY <1>3, <1>6, <1>7, <1>9, <1>10, <1>11, <1>12 DEF Judged

LEMMA StepJudged == GreedyInv /\ [StreamNext]_streamVars => GreedyInv'
<1> SUFFICES ASSUME GreedyInv, [StreamNext]_streamVars PROVE GreedyInv'
  OBVIOUS
<1>1. StreamInv'
  BY StreamStepInvariant DEF GreedyInv
<1>2. CASE \E n \in 1 .. Len(line) : Feed(n)
  BY <1>1, <1>2, FeedJudged DEF GreedyInv
<1>3. CASE Drain
  BY <1>1, <1>3, WaitJudged, RejectJudged, AcceptJudged DEF Drain, GreedyInv
<1>4. CASE UNCHANGED streamVars
  <2>1. Judged'
    BY <1>4 DEF GreedyInv, Judged, Behind, streamVars
  <2> QED
    BY <1>1, <2>1 DEF GreedyInv
<1> QED
  BY <1>2, <1>3, <1>4 DEF StreamNext
-----------------------------------------------------------------------------
\* The line is one of the lines, from the first state on.
LineGiven == \E l \in Lines : line = l.bytes /\ intact = l.intact

LEMMA GreedyHolds == StreamSpec => [](GreedyInv /\ LineGiven)
<1>1. StreamInit => GreedyInv
  BY StreamInitInvariant, InitJudged DEF GreedyInv
<1>2. StreamInit => LineGiven
  BY DEF StreamInit, LineGiven
<1>3. LineGiven /\ [StreamNext]_streamVars => LineGiven'
  BY DEF LineGiven, StreamNext, Feed, Drain, streamVars
<1> QED
  BY <1>1, <1>2, <1>3, StepJudged, PTL DEF StreamSpec

\* Between two calls, every position with a whole window was judged.
LEMMA StartsAreBehind ==
  ASSUME GreedyInv, ~ draining
  PROVE  /\ Behind \in Nat /\ fed \in Nat /\ line \in Seq(Byte)
         /\ \A i \in Starts : i \in 1 .. Behind /\ i + PacketLength - 1 <= fed
         /\ \A i \in 1 .. Behind : i + PacketLength - 1 <= fed => i \in Starts
         /\ \A i \in ToSet(decoded) : i \in Starts
<1>0. PacketLength \in Nat /\ PacketLength >= 1
  BY PacketStreamAssumption
<1>1. /\ fed \in Nat /\ line \in Seq(Byte) /\ Len(buffer) \in Nat
      /\ Len(buffer) <= fed /\ Len(buffer) < PacketLength
  BY DEF GreedyInv, StreamInv, StreamTypeOK, EndOfFed
<1>2. Behind \in Nat /\ Behind = fed - Len(buffer)
  BY DEF GreedyInv, Judged, Behind
<1>3. \A i \in Starts : i \in 1 .. Behind /\ i + PacketLength - 1 <= fed
  BY <1>0, <1>1, <1>2 DEF Starts
<1>4. \A i \in 1 .. Behind : i + PacketLength - 1 <= fed => i \in Starts
  BY <1>0, <1>1, <1>2 DEF Starts
<1>5. \A i \in ToSet(decoded) : i \in Nat \ {0} /\ i + PacketLength <= Behind + 1
  BY DEF GreedyInv, Judged, ReadTo
<1>6. \A i \in ToSet(decoded) : i \in Starts
  BY <1>0, <1>1, <1>2, <1>5 DEF Starts
<1> QED
  BY <1>1, <1>2, <1>3, <1>4, <1>6

LEMMA ReadingIsGreedy ==
  ASSUME GreedyInv, ~ draining PROVE GreedyReading(ToSet(decoded))
<1> DEFINE D == ToSet(decoded)
<1>1. /\ \A i \in Starts : i \in 1 .. Behind /\ i + PacketLength - 1 <= fed
      /\ \A i \in D : i \in Starts
  BY StartsAreBehind
<1>2. ReadTo(line, D, Behind, fed)
  BY DEF GreedyInv, Judged
<1>3. \A i \in Starts : PacketAt(i) = WindowOf(line, i)
  BY DEF PacketAt, WindowOf
<1> HIDE DEF D
<1>4. ASSUME NEW i \in Starts
      PROVE  i \in D <=> Decodes(PacketAt(i)) /\ \A j \in D : j < i => j + PacketLength <= i
  BY <1>1, <1>2, <1>3 DEF ReadTo
<1>5. D \subseteq Starts
  BY <1>1
<1>6. GreedyReading(D)
  BY <1>4, <1>5 DEF GreedyReading
<1> QED
  BY <1>6 DEF D

(* A line has one greedy reading, so that what is decoded is a function of the *)
(* bytes fed: two framers fed the same bytes in different reads agree.        *)
THEOREM OneGreedyReading ==
  ASSUME NEW A, NEW B, fed \in Nat, GreedyReading(A), GreedyReading(B) PROVE A = B
<1> DEFINE T == {i \in Starts : (i \in A) # (i \in B)}
<1>0. PacketLength \in Nat /\ Starts \subseteq Nat
  BY PacketStreamAssumption DEF Starts
<1>1. A \subseteq Starts /\ B \subseteq Starts
  BY DEF GreedyReading
<1>2. ASSUME T # {} PROVE FALSE
  <2>1. PICK i \in T : \A j \in T : i <= j
    BY <1>0, <1>2, LeastElement
  <2>2. i \in Starts /\ i \in Nat
    BY <1>0
  <2>3. \A j \in Starts : j < i => (j \in A <=> j \in B)
    <3>1. ASSUME NEW j \in Starts, j < i, (j \in A) # (j \in B) PROVE FALSE
      <4>1. j \in T
        BY <3>1
      <4>2. i <= j /\ j \in Nat
        BY <1>0, <2>1, <4>1
      <4> QED
        BY <2>2, <3>1, <4>2
    <3> QED
      BY <3>1
  <2>4. (\A j \in A : j < i => j + PacketLength <= i)
          <=> (\A j \in B : j < i => j + PacketLength <= i)
    BY <1>1, <2>3
  <2>5. /\ i \in A <=> Decodes(PacketAt(i)) /\ \A j \in A : j < i => j + PacketLength <= i
        /\ i \in B <=> Decodes(PacketAt(i)) /\ \A j \in B : j < i => j + PacketLength <= i
    BY <2>2 DEF GreedyReading
  <2>6. (i \in A) # (i \in B)
    BY DEF T
  <2> QED
    BY <2>4, <2>5, <2>6
<1> QED
  BY <1>1, <1>2

(* Between two calls the positions yielded are the greedy reading of the bytes *)
(* fed, in their order, however the reads cut the line.                       *)
THEOREM GreedyCorrect == StreamSpec => []DecodedIsGreedy
<1>1. GreedyInv => DecodedIsGreedy
  <2> SUFFICES ASSUME GreedyInv, ~ draining
               PROVE  /\ GreedyReading(ToSet(decoded))
                      /\ \A i \in 1 .. Len(decoded) - 1 : decoded[i] < decoded[i + 1]
    BY DEF DecodedIsGreedy
  <2>1. GreedyReading(ToSet(decoded))
    BY ReadingIsGreedy
  <2>2. ASSUME NEW i \in 1 .. Len(decoded) - 1 PROVE decoded[i] < decoded[i + 1]
    <3>1. Len(decoded) \in Nat
      BY DEF GreedyInv, StreamInv, StreamTypeOK
    <3>2. i \in 1 .. Len(decoded) /\ i + 1 \in 1 .. Len(decoded) /\ i < i + 1
      BY <3>1
    <3> QED
      BY <3>2 DEF GreedyInv, Judged, Increasing
  <2> QED
    BY <2>1, <2>2
<1> QED
  BY <1>1, GreedyHolds, PTL

\* Without accidents, what was decoded before an undamaged packet ends before it.
LEMMA IntactDecoded ==
  ASSUME GreedyInv, LineGiven PROVE IntactPacketsSurvive
<1> SUFFICES ASSUME ~ draining, {i \in Starts \ intact : Decodes(PacketAt(i))} = {},
                    NEW i \in intact \cap Starts
             PROVE  i \in ToSet(decoded)
  BY DEF IntactPacketsSurvive
<1>1. GreedyReading(ToSet(decoded))
  BY ReadingIsGreedy
<1>2. PICK l \in Lines : line = l.bytes /\ intact = l.intact
  BY DEF LineGiven
<1>3. \A j \in intact : /\ Decodes(PacketAt(j))
                        /\ \A k \in intact : j < k => j + PacketLength <= k
  BY <1>2, LinesAssumption DEF PacketAt
<1>4. ASSUME NEW j \in ToSet(decoded), j < i PROVE j + PacketLength <= i
  <2>1. j \in Starts /\ Decodes(PacketAt(j))
    BY <1>1 DEF GreedyReading
  <2>2. j \in intact
    BY <2>1
  <2> QED
    BY <1>3, <1>4, <2>2
<1> QED
  BY <1>1, <1>3, <1>4 DEF GreedyReading

LEMMA FailuresAreRejections ==
  ASSUME GreedyInv PROVE FailuresCounted
<1> DEFINE D == ToSet(decoded)
           rejected == {i \in Starts : line[i] = Header /\ ~ ChecksumHolds(PacketAt(i)) /\ ~ Covered(i)}
<1> SUFFICES ASSUME ~ draining PROVE checksumFailures = Cardinality(rejected)
  BY DEF FailuresCounted
<1>1. /\ \A i \in Starts : i \in 1 .. Behind /\ i + PacketLength - 1 <= fed
      /\ \A i \in 1 .. Behind : i + PacketLength - 1 <= fed => i \in Starts
  BY StartsAreBehind
<1>2. \A i \in Starts : PacketAt(i) = WindowOf(line, i)
  BY DEF PacketAt, WindowOf
<1>3. \A i : Covered(i) <=> Reaches(D, i)
  BY DEF Covered, Reaches
<1>4. \A i \in 1 .. Behind : line[i] = Header /\ ~ Reaches(D, i) => i + PacketLength - 1 <= fed
  BY DEF GreedyInv, Judged, ReadTo
<1>5. rejected = FailedTo(line, D, Behind)
  <2>1. ASSUME NEW i \in rejected PROVE i \in FailedTo(line, D, Behind)
    BY <1>1, <1>2, <1>3 DEF FailedTo
  <2>2. ASSUME NEW i \in FailedTo(line, D, Behind) PROVE i \in rejected
    <3>1. /\ i \in 1 .. Behind /\ line[i] = Header /\ ~ Reaches(D, i)
          /\ ~ ChecksumHolds(WindowOf(line, i))
      BY DEF FailedTo
    <3>2. i \in Starts
      BY <1>1, <1>4, <3>1
    <3> QED
      BY <1>2, <1>3, <3>1, <3>2
  <2> QED
    BY <2>1, <2>2
<1> QED
  BY <1>5 DEF GreedyInv, Judged

(* Nothing is lost on the way: every byte is accounted for, every undamaged    *)
(* packet is yielded unless the damage forged one, and the counter of checksum *)
(* failures is the number of headers rejected for one.                        *)
THEOREM NothingLostCorrect == StreamSpec => []NothingLost
<1>1. GreedyInv /\ LineGiven => NothingLost
  BY AccountsKept, IntactDecoded, FailuresAreRejections DEF NothingLost, GreedyInv
<1> QED
  BY <1>1, GreedyHolds, PTL

-----------------------------------------------------------------------------
(* The forwarder. *)

\* A set of numbers up to N that holds 0, and each number after one it holds.
LEMMA UpTo ==
  ASSUME NEW N \in Nat, NEW T, T \subseteq 0 .. N, 0 \in T,
         \A n \in 1 .. N : n - 1 \in T => n \in T
  PROVE  T = 0 .. N
<1> DEFINE R == (0 .. N) \ T
<1>1. ASSUME R # {} PROVE FALSE
  <2>1. PICK n \in R : \A m \in R : n <= m
    <3>1. R \subseteq Nat
      OBVIOUS
    <3> HIDE DEF R
    <3> QED
      BY <1>1, <3>1, LeastElement
  <2>2. n \in 1 .. N /\ n - 1 \in 0 .. N /\ n - 1 \notin R
    BY <2>1
  <2> QED
    BY <2>1, <2>2
<1> QED
  BY <1>1

-----------------------------------------------------------------------------
\* A slot of the stream: the packet of a type in a cycle, delivered or not.
Slot(type, c) == [type |-> type, cycle |-> c]
SlotOf(p)     == Slot(p.type, p.cycle)

\* Where in its burst the device sends a type.
PlaceIn(burst, type) == CHOOSE i \in 1 .. Len(burst) : burst[i] = type
Place(type)          == PlaceIn(setup.burst, type)

\* The order in which the device sends the packets.
Before(a, b) ==
  a.cycle < b.cycle \/ (a.cycle = b.cycle /\ Place(a.type) < Place(b.type))

Sent(s) == s.type \in ToSet(setup.burst) /\ s.cycle \in 1 .. cycle

TypesOf(group) == {p.type : p \in group}

\* The packets waiting in the port after the first n.
Rest(w, n) == {w[i] : i \in n + 1 .. Len(w)}

\* The packets not read yet, rest, tell what became of them on the line.
RestTrue(rest) ==
  \A p \in rest : p \in Packets /\ Sent(p) /\ (p.whole <=> SlotOf(p) \notin damaged)

\* The group under assembly: whole packets, one of a type, not of each type
\* of a reading yet, and all sent before those not read yet.
GroupTrue(group, rest) ==
  /\ \A p \in group : p \in Packets /\ Sent(p) /\ p.type \in Expected /\ p.whole
  /\ \A p, q \in group : p.type = q.type => p = q
  /\ \E t \in Expected : t \notin TypesOf(group)
  /\ \A p \in group, q \in rest : Before(p, q)

\* The readings so far are from before the group and before the rest, type by
\* type, and none of their packets is in an earlier one.
ReadingsTrue(rs, group, rest) ==
  /\ \A i \in DOMAIN rs : rs[i].cycles \in [Expected -> 1 .. cycle]
  /\ \A i \in DOMAIN rs : \A p \in group \cup rest :
       p.type \in Expected => rs[i].cycles[p.type] < p.cycle
  /\ \A i, j \in DOMAIN rs : i < j =>
       \A t \in Expected : rs[i].cycles[t] < rs[j].cycles[t]

\* A slot that is over: everything the forwarder still holds comes after it.
Over(s, group, rest) == \A p \in group \cup rest : Before(s, p)

\* Whatever was sent is damaged, waits, is in the group, or is over.
SlotsKnown(group, rest) ==
  \A t \in Expected, c \in 1 .. cycle :
    \/ Slot(t, c) \in damaged
    \/ \E p \in rest : SlotOf(p) = Slot(t, c) /\ p.whole
    \/ \E p \in group : SlotOf(p) = Slot(t, c)
    \/ Over(Slot(t, c), group, rest)

\* On a clean line the i-th reading is the i-th cycle and the group the next.
CleanTrue(rs, group, rest) ==
  damaged = {} =>
    /\ \A i \in DOMAIN rs : \A t \in Expected : rs[i].cycles[t] = i
    /\ \A p \in group : p.cycle = Len(rs) + 1
    /\ \A t \in Expected, c \in 1 .. cycle :
         Over(Slot(t, c), group, rest) => c <= Len(rs)

\* The damaged packets that account for cycles without a reading, as the
\* packets of one type see it: those of the type, and all that are over.
Charged(t, group, rest) ==
  {d \in damaged : d.type = t \/ (d.type \in Expected /\ Over(d, group, rest))}

Waiting(t, rest) == {p \in rest : p.type = t /\ p.whole}

\* Each cycle has a reading, a packet in the group, a packet that waits or a
\* damaged one.
CostsCovered(rs, group, rest) ==
  \A t \in Expected :
    cycle <= Len(rs) + (IF t \in TypesOf(group) THEN 1 ELSE 0)
               + Cardinality(Charged(t, group, rest)) + Cardinality(Waiting(t, rest))

Grouped(rs, group, rest) ==
  /\ RestTrue(rest)
  /\ GroupTrue(group, rest)
  /\ ReadingsTrue(rs, group, rest)
  /\ SlotsKnown(group, rest)
  /\ CleanTrue(rs, group, rest)
  /\ CostsCovered(rs, group, rest)

\* What is damaged was sent.
DamageTrue ==
  /\ IsFiniteSet(damaged)
  /\ \A d \in damaged : \E t \in Types, c \in 1 .. cycle : d = Slot(t, c)

\* The packets on the wire stand in the order they were sent.
InOrderSent == \A i, j \in 1 .. Len(wire) : i < j => Before(wire[i], wire[j])

\* The device and its line, as the assumption describes them.
LEMMA SetupFacts ==
  ASSUME setup \in Setups
  PROVE  /\ setup.burst \in Seq(Types) /\ Len(setup.burst) \in Nat
         /\ ToSet(setup.burst) \subseteq Types /\ Expected \subseteq ToSet(setup.burst)
         /\ \A i, j \in 1 .. Len(setup.burst) : setup.burst[i] = setup.burst[j] => i = j
         /\ setup.delays \subseteq Nat /\ setup.damages \subseteq Damage
         /\ setup.maxDamaged \in Nat /\ setup.readSize \in Nat \ {0}
         /\ setup.readTimeout \in Nat \ {0}
<1>1. setup \in SetupRecords
  BY ImuForwarderAssumption
<1>2. /\ setup.burst \in Seq(Types) /\ setup.delays \subseteq Nat
      /\ setup.damages \subseteq Damage
      /\ setup.maxDamaged \in Nat /\ setup.readSize \in Nat \ {0}
      /\ setup.readTimeout \in Nat \ {0}
  BY <1>1 DEF SetupRecords
<1>3. Len(setup.burst) \in Nat /\ DOMAIN setup.burst = 1 .. Len(setup.burst)
      /\ \A i \in 1 .. Len(setup.burst) : setup.burst[i] \in Types
  BY <1>2, LenProperties
<1>4. ToSet(setup.burst) \subseteq Types
  BY <1>3 DEF ToSet
<1>5. Expected \subseteq ToSet(setup.burst) /\ IsInjective(setup.burst)
  BY ImuForwarderAssumption
<1>6. \A i, j \in 1 .. Len(setup.burst) : setup.burst[i] = setup.burst[j] => i = j
  BY <1>3, <1>5 DEF IsInjective
<1> QED
  BY <1>2, <1>3, <1>4, <1>5, <1>6

\* A type of the burst has one place in it.
LEMMA PlaceFacts ==
  ASSUME setup \in Setups
  PROVE  /\ \A t \in ToSet(setup.burst) :
              Place(t) \in 1 .. Len(setup.burst) /\ setup.burst[Place(t)] = t
         /\ \A i \in 1 .. Len(setup.burst) : Place(setup.burst[i]) = i
<1>1. /\ Len(setup.burst) \in Nat /\ DOMAIN setup.burst = 1 .. Len(setup.burst)
      /\ \A i, j \in 1 .. Len(setup.burst) : setup.burst[i] = setup.burst[j] => i = j
  BY SetupFacts, LenProperties
<1>2. ASSUME NEW t \in ToSet(setup.burst)
      PROVE  Place(t) \in 1 .. Len(setup.burst) /\ setup.burst[Place(t)] = t
  <2>1. \E i \in 1 .. Len(setup.burst) : setup.burst[i] = t
    BY <1>1 DEF ToSet
  <2> QED
    BY <2>1 DEF Place, PlaceIn
<1>3. ASSUME NEW i \in 1 .. Len(setup.burst) PROVE Place(setup.burst[i]) = i
  <2>1. setup.burst[i] \in ToSet(setup.burst)
    BY <1>1 DEF ToSet
  <2> QED
    BY <1>1, <1>2, <2>1
<1> QED
  BY <1>2, <1>3

\* The order of the stream is a strict order, total over different slots.
LEMMA StreamOrder ==
  ASSUME setup \in Setups, cycle \in Nat
  PROVE  /\ \A a : Sent(a) => ~ Before(a, a)
         /\ \A a, b, c : Sent(a) /\ Sent(b) /\ Sent(c) /\ Before(a, b) /\ Before(b, c) => Before(a, c)
         /\ \A a, b : Sent(a) /\ Sent(b) /\ Before(a, b) => ~ Before(b, a)
         /\ \A a, b : Sent(a) /\ Sent(b) /\ Before(a, b) => a.cycle <= b.cycle
         /\ \A a, b : Sent(a) /\ Sent(b) /\ Before(a, b) /\ a.type = b.type => a.cycle < b.cycle
<1>1. \A a : Sent(a) => a.cycle \in Nat /\ Place(a.type) \in Nat
  <2>1. \A t \in ToSet(setup.burst) : Place(t) \in Nat
    BY PlaceFacts, SetupFacts
  <2> QED
    BY <2>1 DEF Sent
<1> QED
  BY <1>1 DEF Before

\* A packet and its slot stand at the same place.
LEMMA SlotFacts ==
  /\ \A t, c : Slot(t, c).type = t /\ Slot(t, c).cycle = c
  /\ \A p : SlotOf(p).type = p.type /\ SlotOf(p).cycle = p.cycle
  /\ \A p, q : Before(SlotOf(p), q) <=> Before(p, q)
  /\ \A p, q : Before(p, SlotOf(q)) <=> Before(p, q)
  /\ \A p, q : SlotOf(p) = SlotOf(q) <=> p.type = q.type /\ p.cycle = q.cycle
  /\ \A p, t, c : SlotOf(p) = Slot(t, c) <=> p.type = t /\ p.cycle = c
<1>1. \A t, c : Slot(t, c).type = t /\ Slot(t, c).cycle = c
  BY DEF Slot
<1>2. \A p : SlotOf(p).type = p.type /\ SlotOf(p).cycle = p.cycle
  BY DEF Slot, SlotOf
<1>3. \A p, q : (Before(SlotOf(p), q) <=> Before(p, q)) /\ (Before(p, SlotOf(q)) <=> Before(p, q))
  BY <1>2 DEF Before
<1>4. \A p, t, c : SlotOf(p) = Slot(t, c) <=> p.type = t /\ p.cycle = c
  BY DEF Slot, SlotOf
<1>5. \A p, q : SlotOf(p) = SlotOf(q) <=> p.type = q.type /\ p.cycle = q.cycle
  BY <1>2 DEF SlotOf, Slot
<1> QED
  BY <1>1, <1>2, <1>3, <1>4, <1>5

\* p is the next packet to be read.
First(p, rest) == p \in rest /\ \A q \in rest \ {p} : Before(p, q)

\* Reading the next packet and keeping, adding or replacing: what was over
\* stays over as long as nothing comes in that was not there.
LEMMA OverGrows ==
  ASSUME NEW g, NEW h, NEW rest, NEW left, h \cup left \subseteq g \cup rest,
         NEW s, Over(s, g, rest)
  PROVE  Over(s, h, left)
BY DEF Over

\* The next packet itself is over once neither it nor what came before is held.
LEMMA OverNow ==
  ASSUME NEW rest, NEW p, First(p, rest)
  PROVE  Over(SlotOf(p), {}, rest \ {p})
BY SlotFacts DEF First, Over

\* Slots between a packet of the group and the next packet, of a type that
\* the group lacks, are damaged and not over yet.
LEMMA BetweenIsDamaged ==
  ASSUME setup \in Setups, cycle \in Nat, NEW g, NEW rest, NEW p, NEW q \in g, First(p, rest),
         RestTrue(rest), GroupTrue(g, rest), SlotsKnown(g, rest),
         NEW t \in Expected, t \notin TypesOf(g), NEW c \in 1 .. cycle,
         Before(q, Slot(t, c)), Before(Slot(t, c), p)
  PROVE  Slot(t, c) \in damaged /\ ~ Over(Slot(t, c), g, rest) /\ Over(Slot(t, c), {p}, rest \ {p})
<1> DEFINE s == Slot(t, c)
<1>1. s.type = t /\ s.cycle = c /\ Sent(s)
  BY SlotFacts, SetupFacts DEF Sent
<1>2. /\ \A x \in rest : Sent(x)
      /\ Sent(q) /\ Sent(p)
  BY DEF RestTrue, GroupTrue, First
<1>3. ~ Before(s, q)
  BY <1>1, <1>2, StreamOrder
<1>4. ~ Over(s, g, rest)
  BY <1>3 DEF Over
<1>5. \A x \in rest : Before(s, x)
  <2>1. \A x \in rest : x = p \/ Before(p, x)
    BY DEF First
  <2> QED
    BY <1>1, <1>2, <2>1, StreamOrder
<1>6. \A x \in rest : SlotOf(x) # s
  <2> SUFFICES ASSUME NEW x \in rest, SlotOf(x) = s PROVE FALSE
    OBVIOUS
  <2>1. Before(s, s)
    BY <1>5, SlotFacts
  <2> QED
    BY <1>1, <2>1, StreamOrder
<1>7. \A x \in g : SlotOf(x) # s
  BY SlotFacts DEF TypesOf
<1>8. s \in damaged
  BY <1>4, <1>6, <1>7 DEF SlotsKnown
<1>9. Over(s, {p}, rest \ {p})
  BY <1>5 DEF Over, First
<1> QED
  BY <1>4, <1>8, <1>9

\* When a type comes again, a packet of each type that the group lacks was
\* lost in between.
LEMMA RepeatMeansLoss ==
  ASSUME setup \in Setups, cycle \in Nat, NEW g, NEW rest, NEW p, First(p, rest),
         RestTrue(rest), GroupTrue(g, rest), SlotsKnown(g, rest), p.type \in TypesOf(g)
  PROVE  \E d \in damaged : /\ d.type \in Expected \ TypesOf(g)
                            /\ ~ Over(d, g, rest) /\ Over(d, {p}, rest \ {p})
<1>1. PICK q \in g : q.type = p.type
  BY DEF TypesOf
<1>2. PICK t \in Expected : t \notin TypesOf(g)
  BY DEF GroupTrue
<1>3. Sent(q) /\ Sent(p) /\ Before(q, p)
  BY DEF RestTrue, GroupTrue, First
<1>4. q.cycle < p.cycle /\ q.cycle \in 1 .. cycle /\ p.cycle \in 1 .. cycle
  BY <1>1, <1>3, StreamOrder DEF Sent
<1>5. /\ t \in ToSet(setup.burst) /\ q.type \in ToSet(setup.burst) /\ t # q.type
      /\ Place(t) \in Nat /\ Place(q.type) \in Nat
      /\ setup.burst[Place(t)] = t /\ setup.burst[Place(q.type)] = q.type
  BY <1>2, <1>3, SetupFacts, PlaceFacts DEF Sent, TypesOf
<1>6. Place(t) # Place(q.type)
  BY <1>5
<1>7. \E c \in 1 .. cycle : Before(q, Slot(t, c)) /\ Before(Slot(t, c), p)
  <2>1. CASE Place(q.type) < Place(t)
    <3>1. Before(q, Slot(t, q.cycle)) /\ Before(Slot(t, q.cycle), p)
      BY <1>4, <2>1, SlotFacts DEF Before
    <3> QED
      BY <1>4, <3>1
  <2>2. CASE Place(t) < Place(q.type)
    <3>1. q.cycle + 1 \in 1 .. cycle /\ q.cycle + 1 <= p.cycle
      BY <1>4
    <3>2. Before(q, Slot(t, q.cycle + 1)) /\ Before(Slot(t, q.cycle + 1), p)
      BY <1>1, <1>4, <2>2, <3>1, SlotFacts DEF Before
    <3> QED
      BY <3>1, <3>2
  <2> QED
    BY <1>5, <1>6, <2>1, <2>2
<1>8. PICK c \in 1 .. cycle : Before(q, Slot(t, c)) /\ Before(Slot(t, c), p)
  BY <1>7
<1>9. /\ Slot(t, c) \in damaged /\ ~ Over(Slot(t, c), g, rest)
      /\ Over(Slot(t, c), {p}, rest \ {p})
  BY <1>2, <1>8, BetweenIsDamaged
<1> QED
  BY <1>2, <1>9, SlotFacts

\* A finite set that has one element more than another has more elements.
LEMMA OneMore ==
  ASSUME NEW T, IsFiniteSet(T), NEW S, S \subseteq T, NEW x \in T, x \notin S
  PROVE  IsFiniteSet(S) /\ Cardinality(S) \in Nat /\ Cardinality(T) \in Nat
         /\ Cardinality(S) + 1 <= Cardinality(T)
<1>1. IsFiniteSet(S) /\ Cardinality(S) <= Cardinality(T)
      /\ Cardinality(S) \in Nat /\ Cardinality(T) \in Nat
  BY FS_Subset, FS_CardinalityType
<1>2. Cardinality(S) # Cardinality(T)
  BY FS_Subset
<1> QED
  BY <1>1, <1>2

\* Reading a packet: it no longer waits.
LEMMA WaitingAfter ==
  ASSUME NEW rest, IsFiniteSet(rest), NEW p \in rest, NEW t
  PROVE  /\ Cardinality(Waiting(t, rest)) \in Nat /\ Cardinality(Waiting(t, rest \ {p})) \in Nat
         /\ Cardinality(Waiting(t, rest)) = Cardinality(Waiting(t, rest \ {p}))
                                              + (IF p.whole /\ p.type = t THEN 1 ELSE 0)
<1>1. Waiting(t, rest) \subseteq rest
  BY DEF Waiting
<1>2. IsFiniteSet(Waiting(t, rest)) /\ Cardinality(Waiting(t, rest)) \in Nat
  BY <1>1, FS_Subset, FS_CardinalityType
<1>3. CASE p.whole /\ p.type = t
  <2>1. p \in Waiting(t, rest)
    BY <1>3 DEF Waiting
  <2>2. Waiting(t, rest \ {p}) = Waiting(t, rest) \ {p}
    BY DEF Waiting
  <2>3. /\ IsFiniteSet(Waiting(t, rest) \ {p})
        /\ Cardinality(Waiting(t, rest) \ {p}) = Cardinality(Waiting(t, rest)) - 1
    BY <1>2, <2>1, FS_RemoveElement
  <2>4. Cardinality(Waiting(t, rest \ {p})) \in Nat
    BY <2>2, <2>3, FS_CardinalityType
  <2>5. Cardinality(Waiting(t, rest \ {p})) = Cardinality(Waiting(t, rest)) - 1
    BY <2>2, <2>3
  <2>6. Cardinality(Waiting(t, rest)) = Cardinality(Waiting(t, rest \ {p})) + 1
    BY <1>2, <2>4, <2>5
  <2> QED
    BY <1>2, <1>3, <2>4, <2>6
<1>4. CASE ~ (p.whole /\ p.type = t)
  <2>1. Waiting(t, rest \ {p}) = Waiting(t, rest)
    BY <1>4 DEF Waiting
  <2> QED
    BY <1>2, <1>4, <2>1
<1> QED
  BY <1>3, <1>4

\* What is charged stays charged.
LEMMA ChargedGrows ==
  ASSUME IsFiniteSet(damaged), NEW g, NEW h, NEW rest, NEW left,
         h \cup left \subseteq g \cup rest, NEW t
  PROVE  /\ Cardinality(Charged(t, g, rest)) \in Nat /\ Cardinality(Charged(t, h, left)) \in Nat
         /\ Cardinality(Charged(t, g, rest)) <= Cardinality(Charged(t, h, left))
<1>1. Charged(t, g, rest) \subseteq Charged(t, h, left) /\ Charged(t, h, left) \subseteq damaged
  BY OverGrows DEF Charged
<1>2. IsFiniteSet(Charged(t, h, left))
  BY <1>1, FS_Subset
<1> QED
  BY <1>1, <1>2, FS_Subset, FS_CardinalityType

\* A damaged packet of another type that is over now and was not is charged anew.
LEMMA ChargedOneMore ==
  ASSUME IsFiniteSet(damaged), NEW g, NEW h, NEW rest, NEW left,
         h \cup left \subseteq g \cup rest, NEW t,
         NEW d \in damaged, d.type \in Expected, d.type # t,
         ~ Over(d, g, rest), Over(d, h, left)
  PROVE  /\ Cardinality(Charged(t, g, rest)) \in Nat /\ Cardinality(Charged(t, h, left)) \in Nat
         /\ Cardinality(Charged(t, g, rest)) + 1 <= Cardinality(Charged(t, h, left))
<1>1. Charged(t, g, rest) \subseteq Charged(t, h, left) /\ Charged(t, h, left) \subseteq damaged
  BY OverGrows DEF Charged
<1>2. IsFiniteSet(Charged(t, h, left))
  BY <1>1, FS_Subset
<1>3. d \in Charged(t, h, left) /\ d \notin Charged(t, g, rest)
  BY DEF Charged
<1> QED
  BY <1>1, <1>2, <1>3, OneMore

\* A packet that is damaged, or of no use to a reading, changes nothing.
LEMMA SkipKeeps ==
  ASSUME setup \in Setups, cycle \in Nat, IsFiniteSet(damaged), NEW rs, NEW g, NEW rest,
         IsFiniteSet(rest), NEW p, First(p, rest), Len(rs) \in Nat,
         ~ p.whole \/ p.type \notin Expected, Grouped(rs, g, rest)
  PROVE  Grouped(rs, g, rest \ {p})
<1> DEFINE left == rest \ {p}
<1>0. p \in rest /\ left \subseteq rest /\ g \cup left \subseteq g \cup rest
  BY DEF First
<1>1. RestTrue(left) /\ GroupTrue(g, left) /\ ReadingsTrue(rs, g, left)
  BY <1>0 DEF Grouped, RestTrue, GroupTrue, ReadingsTrue
<1>2. SlotsKnown(g, left)
  <2> SUFFICES ASSUME NEW t \in Expected, NEW c \in 1 .. cycle
               PROVE  \/ Slot(t, c) \in damaged
                      \/ \E x \in left : SlotOf(x) = Slot(t, c) /\ x.whole
                      \/ \E x \in g : SlotOf(x) = Slot(t, c)
                      \/ Over(Slot(t, c), g, left)
    BY DEF SlotsKnown
  <2>1. CASE \E x \in rest : SlotOf(x) = Slot(t, c) /\ x.whole
    BY <2>1, SlotFacts
  <2>2. Over(Slot(t, c), g, rest) => Over(Slot(t, c), g, left)
    BY <1>0, OverGrows
  <2> QED
    BY <2>1, <2>2 DEF Grouped, SlotsKnown
<1>3. CleanTrue(rs, g, left)
  <2> SUFFICES ASSUME damaged = {}, NEW t \in Expected, NEW c \in 1 .. cycle, Over(Slot(t, c), g, left)
               PROVE  c <= Len(rs)
    BY DEF Grouped, CleanTrue
  <2>1. Sent(Slot(t, c)) /\ \A x \in g \cup rest : Sent(x)
    BY SlotFacts, SetupFacts DEF Sent, Grouped, RestTrue, GroupTrue
  <2>2. ASSUME NEW x \in g \cup left PROVE SlotOf(x) # Slot(t, c)
    <3>1. Before(Slot(t, c), x)
      BY DEF Over
    <3>2. ~ Before(x, x)
      BY <2>1, StreamOrder
    <3> QED
      BY <3>1, <3>2, SlotFacts
  <2>3. p.whole => SlotOf(p) # Slot(t, c)
    BY SlotFacts
  <2>4. Over(Slot(t, c), g, rest)
    BY <2>2, <2>3 DEF Grouped, SlotsKnown
  <2> QED
    BY <2>4 DEF Grouped, CleanTrue
<1>4. CostsCovered(rs, g, left)
  <2> SUFFICES ASSUME NEW t \in Expected
               PROVE  cycle <= Len(rs) + (IF t \in TypesOf(g) THEN 1 ELSE 0)
                        + Cardinality(Charged(t, g, left)) + Cardinality(Waiting(t, left))
    BY DEF CostsCovered
  <2>1. Cardinality(Waiting(t, left)) = Cardinality(Waiting(t, rest)) /\ Cardinality(Waiting(t, left)) \in Nat
    BY <1>0, WaitingAfter
  <2>2. /\ Cardinality(Charged(t, g, rest)) \in Nat /\ Cardinality(Charged(t, g, left)) \in Nat
        /\ Cardinality(Charged(t, g, rest)) <= Cardinality(Charged(t, g, left))
    BY <1>0, ChargedGrows
  <2>3. cycle <= Len(rs) + (IF t \in TypesOf(g) THEN 1 ELSE 0)
               + Cardinality(Charged(t, g, rest)) + Cardinality(Waiting(t, rest))
    BY DEF Grouped, CostsCovered
  <2> HIDE DEF left
  <2> QED
    BY <2>1, <2>2, <2>3
<1> QED
  BY <1>1, <1>2, <1>3, <1>4 DEF Grouped

\* On a clean line the next packet of a type that the group lacks is the next
\* cycle's.
LEMMA NextCycleWhenClean ==
  ASSUME setup \in Setups, cycle \in Nat, damaged = {}, NEW rs, Len(rs) \in Nat, DOMAIN rs = 1 .. Len(rs),
         NEW g, NEW rest, NEW p, First(p, rest), p.type \in Expected, p.type \notin TypesOf(g),
         Grouped(rs, g, rest)
  PROVE  p.cycle = Len(rs) + 1
<1> DEFINE t == p.type  R == Len(rs)
<1>1. p \in rest /\ Sent(p) /\ p.cycle \in 1 .. cycle /\ p.cycle \in Nat
  BY DEF First, Grouped, RestTrue, Sent
<1>2. R < p.cycle
  <2>1. CASE R = 0
    BY <1>1, <2>1
  <2>2. CASE R # 0
    <3>1. R \in DOMAIN rs
      BY <2>2
    <3>2. rs[R].cycles[t] = R
      BY <3>1 DEF Grouped, CleanTrue
    <3>3. rs[R].cycles[t] < p.cycle
      BY <1>1, <3>1 DEF Grouped, ReadingsTrue
    <3> QED
      BY <3>2, <3>3
  <2> QED
    BY <2>1, <2>2
<1>3. ASSUME R + 1 < p.cycle PROVE FALSE
  <2> DEFINE s == Slot(t, R + 1)
  <2>1. R + 1 \in 1 .. cycle
    BY <1>1, <1>3
  <2>2. Before(s, p)
    BY <1>3, SlotFacts DEF Before
  <2>3. Sent(s) /\ \A x \in rest : Sent(x)
    BY <1>1, <2>1, SlotFacts DEF Sent, Grouped, RestTrue
  <2>4. ASSUME NEW x \in rest PROVE SlotOf(x) # s
    <3>1. x = p \/ Before(p, x)
      BY DEF First
    <3>2. Before(s, x)
      BY <1>1, <2>2, <2>3, <3>1, StreamOrder
    <3>3. ~ Before(s, s)
      BY <2>3, StreamOrder
    <3> QED
      BY <3>2, <3>3, SlotFacts
  <2>5. \A x \in g : SlotOf(x) # s
    BY SlotFacts DEF TypesOf
  <2>6. Over(s, g, rest)
    BY <2>1, <2>4, <2>5 DEF Grouped, SlotsKnown
  <2>7. R + 1 <= R
    BY <2>1, <2>6 DEF Grouped, CleanTrue
  <2> QED
    BY <2>7
<1> QED
  BY <1>1, <1>2, <1>3

\* A packet of a type that the group lacks joins it.
LEMMA JoinKeeps ==
  ASSUME setup \in Setups, cycle \in Nat, IsFiniteSet(damaged),
         NEW rs, Len(rs) \in Nat, DOMAIN rs = 1 .. Len(rs), NEW g, NEW rest,
         IsFiniteSet(rest), NEW p, First(p, rest), p.whole, p.type \in Expected,
         p.type \notin TypesOf(g), \E t \in Expected : t \notin TypesOf(g \cup {p}), Grouped(rs, g, rest)
  PROVE  Grouped(rs, g \cup {p}, rest \ {p})
<1> DEFINE left == rest \ {p}  h == g \cup {p}
<1>0. p \in rest /\ left \subseteq rest /\ h \cup left = g \cup rest
  BY DEF First
<1>1. \A s : Over(s, h, left) <=> Over(s, g, rest)
  BY <1>0 DEF Over
<1>2. TypesOf(h) = TypesOf(g) \cup {p.type}
  BY DEF TypesOf
<1>3. RestTrue(left) /\ ReadingsTrue(rs, h, left)
  BY <1>0 DEF Grouped, RestTrue, ReadingsTrue
<1>4. GroupTrue(h, left)
  <2>1. p \in Packets /\ Sent(p) /\ \A x \in left : Before(p, x)
    BY <1>0 DEF Grouped, RestTrue, First
  <2>2. \A x \in g : x.type # p.type
    BY DEF TypesOf
  <2> QED
    BY <1>0, <2>1, <2>2 DEF Grouped, GroupTrue
<1>5. SlotsKnown(h, left)
  <2> SUFFICES ASSUME NEW t \in Expected, NEW c \in 1 .. cycle
               PROVE  \/ Slot(t, c) \in damaged
                      \/ \E x \in left : SlotOf(x) = Slot(t, c) /\ x.whole
                      \/ \E x \in h : SlotOf(x) = Slot(t, c)
                      \/ Over(Slot(t, c), h, left)
    BY DEF SlotsKnown
  <2> QED
    BY <1>1 DEF Grouped, SlotsKnown
<1>6. CleanTrue(rs, h, left)
  <2> SUFFICES ASSUME damaged = {} PROVE CleanTrue(rs, h, left)
    BY DEF CleanTrue
  <2>1. p.cycle = Len(rs) + 1
    BY NextCycleWhenClean
  <2> QED
    BY <1>1, <2>1 DEF Grouped, CleanTrue
<1>7. CostsCovered(rs, h, left)
  <2> SUFFICES ASSUME NEW t \in Expected
               PROVE  cycle <= Len(rs) + (IF t \in TypesOf(h) THEN 1 ELSE 0)
                        + Cardinality(Charged(t, h, left)) + Cardinality(Waiting(t, left))
    BY DEF CostsCovered
  <2>1. Charged(t, h, left) = Charged(t, g, rest)
    BY <1>1 DEF Charged
  <2>2. /\ Cardinality(Waiting(t, rest)) \in Nat /\ Cardinality(Waiting(t, left)) \in Nat
        /\ Cardinality(Waiting(t, rest)) = Cardinality(Waiting(t, left)) + (IF p.type = t THEN 1 ELSE 0)
    BY <1>0, WaitingAfter
  <2>3. cycle <= Len(rs) + (IF t \in TypesOf(g) THEN 1 ELSE 0)
               + Cardinality(Charged(t, g, rest)) + Cardinality(Waiting(t, rest))
    BY DEF Grouped, CostsCovered
  <2>4. Cardinality(Charged(t, g, rest)) \in Nat
    BY ChargedGrows
  <2>5. (IF t \in TypesOf(h) THEN 1 ELSE 0)
          = (IF t \in TypesOf(g) THEN 1 ELSE 0) + (IF p.type = t THEN 1 ELSE 0)
    <3>1. CASE t = p.type
      <4>1. t \in TypesOf(h) /\ t \notin TypesOf(g)
        BY <1>2, <3>1
      <4> QED
        BY <3>1, <4>1
    <3>2. CASE t # p.type
      <4>1. t \in TypesOf(h) <=> t \in TypesOf(g)
        BY <1>2, <3>2
      <4>2. CASE t \in TypesOf(g)
        BY <3>2, <4>1, <4>2
      <4>3. CASE t \notin TypesOf(g)
        BY <3>2, <4>1, <4>3
      <4> QED
        BY <4>2, <4>3
    <3> QED
      BY <3>1, <3>2
  <2> HIDE DEF left, h
  <2> QED
    BY <2>1, <2>2, <2>3, <2>4, <2>5
<1> QED
  BY <1>3, <1>4, <1>5, <1>6, <1>7 DEF Grouped

\* A type that comes again drops the group and starts the next.
LEMMA RestartKeeps ==
  ASSUME setup \in Setups, cycle \in Nat, IsFiniteSet(damaged),
         NEW rs, Len(rs) \in Nat, NEW g, NEW rest,
         IsFiniteSet(rest), NEW p, First(p, rest), p.whole, p.type \in Expected,
         p.type \in TypesOf(g), Grouped(rs, g, rest)
  PROVE  Grouped(rs, {p}, rest \ {p})
<1> DEFINE left == rest \ {p}  h == {p}
<1>0. p \in rest /\ left \subseteq rest /\ h \cup left \subseteq g \cup rest
  BY DEF First
<1>1. PICK d \in damaged : /\ d.type \in Expected \ TypesOf(g)
                           /\ ~ Over(d, g, rest) /\ Over(d, {p}, left)
  BY RepeatMeansLoss DEF Grouped
<1>2. TypesOf(h) = {p.type}
  BY DEF TypesOf
<1>3. RestTrue(left) /\ ReadingsTrue(rs, h, left)
  BY <1>0 DEF Grouped, RestTrue, ReadingsTrue
<1>4. GroupTrue(h, left)
  <2>1. p \in Packets /\ Sent(p) /\ \A x \in left : Before(p, x)
    BY <1>0 DEF Grouped, RestTrue, First
  <2>2. \E t \in Expected : t # p.type
    BY ImuForwarderAssumption
  <2> QED
    BY <1>2, <2>1, <2>2 DEF GroupTrue
<1>5. SlotsKnown(h, left)
  <2> SUFFICES ASSUME NEW t \in Expected, NEW c \in 1 .. cycle
               PROVE  \/ Slot(t, c) \in damaged
                      \/ \E x \in left : SlotOf(x) = Slot(t, c) /\ x.whole
                      \/ \E x \in h : SlotOf(x) = Slot(t, c)
                      \/ Over(Slot(t, c), h, left)
    BY DEF SlotsKnown
  <2>1. ASSUME NEW x \in g, SlotOf(x) = Slot(t, c) PROVE Over(Slot(t, c), h, left)
    <3>1. \A y \in rest : Before(x, y)
      BY DEF Grouped, GroupTrue
    <3>2. Over(SlotOf(x), h, left)
      BY <1>0, <3>1, SlotFacts DEF Over
    <3> QED
      BY <2>1, <3>2
  <2>2. Over(Slot(t, c), g, rest) => Over(Slot(t, c), h, left)
    BY <1>0, OverGrows
  <2> QED
    BY <2>1, <2>2 DEF Grouped, SlotsKnown
<1>6. CleanTrue(rs, h, left)
  BY <1>1 DEF CleanTrue
<1>7. CostsCovered(rs, h, left)
  <2> SUFFICES ASSUME NEW t \in Expected
               PROVE  cycle <= Len(rs) + (IF t \in TypesOf(h) THEN 1 ELSE 0)
                        + Cardinality(Charged(t, h, left)) + Cardinality(Waiting(t, left))
    BY DEF CostsCovered
  <2>1. /\ Cardinality(Waiting(t, rest)) \in Nat /\ Cardinality(Waiting(t, left)) \in Nat
        /\ Cardinality(Waiting(t, rest)) = Cardinality(Waiting(t, left)) + (IF p.type = t THEN 1 ELSE 0)
    BY <1>0, WaitingAfter
  <2>2. cycle <= Len(rs) + (IF t \in TypesOf(g) THEN 1 ELSE 0)
               + Cardinality(Charged(t, g, rest)) + Cardinality(Waiting(t, rest))
    BY DEF Grouped, CostsCovered
  <2>3. CASE t \in TypesOf(g)
    <3>1. d.type # t
      BY <1>1, <2>3
    <3>2. /\ Cardinality(Charged(t, g, rest)) \in Nat /\ Cardinality(Charged(t, h, left)) \in Nat
          /\ Cardinality(Charged(t, g, rest)) + 1 <= Cardinality(Charged(t, h, left))
      BY <1>0, <1>1, <3>1, ChargedOneMore
    <3>3. (IF t \in TypesOf(h) THEN 1 ELSE 0) = (IF p.type = t THEN 1 ELSE 0)
      BY <1>2
    <3> HIDE DEF left, h
    <3> QED
      BY <2>1, <2>2, <2>3, <3>2, <3>3
  <2>4. CASE t \notin TypesOf(g)
    <3>1. /\ Cardinality(Charged(t, g, rest)) \in Nat /\ Cardinality(Charged(t, h, left)) \in Nat
          /\ Cardinality(Charged(t, g, rest)) <= Cardinality(Charged(t, h, left))
      BY <1>0, ChargedGrows
    <3>2. p.type # t /\ t \notin TypesOf(h)
      BY <1>2, <2>4
    <3> HIDE DEF left, h
    <3> QED
      BY <2>1, <2>2, <2>4, <3>1, <3>2
  <2> QED
    BY <2>3, <2>4
<1> QED
  BY <1>3, <1>4, <1>5, <1>6, <1>7 DEF Grouped

\* A reading made of the packets of a group, and the readings with it.
ReadFrom(r, group) ==
  r.cycles \in [Expected -> 1 .. cycle] /\ \A x \in group : r.cycles[x.type] = x.cycle

OneAfter(rs2, rs, r) ==
  /\ Len(rs2) = Len(rs) + 1 /\ DOMAIN rs2 = 1 .. Len(rs) + 1
  /\ \A i \in 1 .. Len(rs) : rs2[i] = rs[i]
  /\ rs2[Len(rs) + 1] = r

\* The packet that completes the group makes a reading of it.
LEMMA CompleteKeeps ==
  ASSUME setup \in Setups, cycle \in Nat, IsFiniteSet(damaged),
         NEW rs, Len(rs) \in Nat, DOMAIN rs = 1 .. Len(rs), NEW g, NEW rest,
         IsFiniteSet(rest), NEW p, First(p, rest), p.whole, p.type \in Expected,
         p.type \notin TypesOf(g), Expected \subseteq TypesOf(g \cup {p}), Grouped(rs, g, rest),
         NEW r, ReadFrom(r, g \cup {p}), NEW rs2, OneAfter(rs2, rs, r)
  PROVE  Grouped(rs2, {}, rest \ {p})
<1> DEFINE left == rest \ {p}  h == g \cup {p}  R == Len(rs)
<1>0. p \in rest /\ left \subseteq rest /\ {} \cup left \subseteq g \cup rest /\ h \subseteq g \cup rest
  BY DEF First
<1>a. r.cycles \in [Expected -> 1 .. cycle] /\ \A x \in h : r.cycles[x.type] = x.cycle
  BY DEF ReadFrom
<1>b. /\ Len(rs2) = R + 1 /\ DOMAIN rs2 = 1 .. R + 1
      /\ \A i \in 1 .. R : rs2[i] = rs[i]
      /\ rs2[R + 1] = r
  BY DEF OneAfter
<1>1. TypesOf({}) = {} /\ \A t : t \in TypesOf(h) <=> t \in TypesOf(g) \/ t = p.type
  BY DEF TypesOf
<1>2. ASSUME NEW t \in Expected PROVE \E x \in h : x.type = t
  BY DEF TypesOf
<1>3. /\ \A x \in h : Sent(x) /\ x.type \in Expected /\ \A y \in left : Before(x, y)
      /\ \A y \in rest : Sent(y)
  BY <1>0 DEF Grouped, RestTrue, GroupTrue, First
<1>4. RestTrue(left)
  BY <1>0 DEF Grouped, RestTrue
<1>5. GroupTrue({}, left)
  BY <1>1, ImuForwarderAssumption DEF GroupTrue
<1>6. ReadingsTrue(rs2, {}, left)
  <2>1. \A i \in 1 .. R + 1 : rs2[i].cycles \in [Expected -> 1 .. cycle]
    <3>1. \A i \in 1 .. R : rs[i].cycles \in [Expected -> 1 .. cycle]
      BY DEF Grouped, ReadingsTrue
    <3>2. \A i \in 1 .. R + 1 : i \in 1 .. R \/ i = R + 1
      OBVIOUS
    <3> QED
      BY <1>a, <1>b, <3>1, <3>2
  <2>2. ASSUME NEW i \in 1 .. R + 1, NEW y \in left, y.type \in Expected
        PROVE  rs2[i].cycles[y.type] < y.cycle
    <3>1. CASE i = R + 1
      <4>1. PICK x \in h : x.type = y.type
        BY <1>2, <2>2
      <4>2. x.cycle < y.cycle
        BY <1>0, <1>3, <4>1, StreamOrder
      <4>3. r.cycles[y.type] = x.cycle
        BY <1>a, <1>b, <4>1
      <4> QED
        BY <1>a, <1>b, <3>1, <4>2, <4>3
    <3>2. CASE i # R + 1
      <4>1. i \in 1 .. R /\ rs2[i] = rs[i]
        BY <1>a, <1>b, <3>2
      <4> QED
        BY <1>0, <2>2, <4>1 DEF Grouped, ReadingsTrue
    <3> QED
      BY <3>1, <3>2
  <2>3. ASSUME NEW i \in 1 .. R + 1, NEW j \in 1 .. R + 1, i < j, NEW t \in Expected
        PROVE  rs2[i].cycles[t] < rs2[j].cycles[t]
    <3>1. i \in 1 .. R /\ rs2[i] = rs[i]
      BY <1>a, <1>b, <2>3
    <3>2. CASE j = R + 1
      <4>1. PICK x \in h : x.type = t
        BY <1>2
      <4>2. r.cycles[t] = x.cycle
        BY <1>a, <1>b, <4>1
      <4>3. rs[i].cycles[t] < x.cycle
        BY <1>0, <3>1, <4>1 DEF Grouped, ReadingsTrue
      <4> QED
        BY <1>a, <1>b, <3>1, <3>2, <4>2, <4>3
    <3>3. CASE j # R + 1
      <4>1. j \in 1 .. R /\ rs2[j] = rs[j]
        BY <1>a, <1>b, <3>3
      <4> QED
        BY <2>3, <3>1, <4>1 DEF Grouped, ReadingsTrue
    <3> QED
      BY <3>2, <3>3
  <2> QED
    BY <1>a, <1>b, <2>1, <2>2, <2>3 DEF ReadingsTrue
<1>7. \A x \in h : Over(SlotOf(x), {}, left)
  BY <1>3, SlotFacts DEF Over
<1>8. SlotsKnown({}, left)
  <2> SUFFICES ASSUME NEW t \in Expected, NEW c \in 1 .. cycle
               PROVE  \/ Slot(t, c) \in damaged
                      \/ \E x \in left : SlotOf(x) = Slot(t, c) /\ x.whole
                      \/ \E x \in {} : SlotOf(x) = Slot(t, c)
                      \/ Over(Slot(t, c), {}, left)
    BY DEF SlotsKnown
  <2>1. Over(Slot(t, c), g, rest) => Over(Slot(t, c), {}, left)
    BY <1>0, OverGrows
  <2>2. (\E x \in h : SlotOf(x) = Slot(t, c)) => Over(Slot(t, c), {}, left)
    BY <1>7
  <2> QED
    BY <2>1, <2>2 DEF Grouped, SlotsKnown
<1>9. CleanTrue(rs2, {}, left)
  <2> SUFFICES ASSUME damaged = {} PROVE CleanTrue(rs2, {}, left)
    BY DEF CleanTrue
  <2>1. p.cycle = R + 1
    BY NextCycleWhenClean
  <2>2. \A x \in h : x.cycle = R + 1
    BY <2>1 DEF Grouped, CleanTrue
  <2>3. ASSUME NEW i \in 1 .. R + 1, NEW t \in Expected PROVE rs2[i].cycles[t] = i
    <3>1. CASE i = R + 1
      <4>1. PICK x \in h : x.type = t
        BY <1>2
      <4> QED
        BY <1>a, <1>b, <2>2, <3>1, <4>1
    <3>2. CASE i # R + 1
      <4>1. i \in 1 .. R /\ rs2[i] = rs[i]
        BY <1>a, <1>b, <3>2
      <4> QED
        BY <4>1 DEF Grouped, CleanTrue
    <3> QED
      BY <3>1, <3>2
  <2>4. ASSUME NEW t \in Expected, NEW c \in 1 .. cycle, Over(Slot(t, c), {}, left)
        PROVE  c <= R + 1
    <3>1. Sent(Slot(t, c))
      BY SlotFacts, SetupFacts DEF Sent
    <3>2. \A x \in left : SlotOf(x) # Slot(t, c)
      BY <2>4, <3>1, SlotFacts, StreamOrder DEF Over
    <3>3. CASE \E x \in h : SlotOf(x) = Slot(t, c)
      BY <2>2, <3>3, SlotFacts
    <3>4. CASE Over(Slot(t, c), g, rest)
      <4>1. c <= R
        BY <3>4 DEF Grouped, CleanTrue
      <4> QED
        BY <4>1
    <3> QED
      BY <3>2, <3>3, <3>4 DEF Grouped, SlotsKnown
  <2> QED
    BY <1>a, <1>b, <2>3, <2>4 DEF CleanTrue
<1>10. CostsCovered(rs2, {}, left)
  <2> SUFFICES ASSUME NEW t \in Expected
               PROVE  cycle <= (R + 1) + 0 + Cardinality(Charged(t, {}, left)) + Cardinality(Waiting(t, left))
    BY <1>a, <1>b, <1>1 DEF CostsCovered
  <2>1. /\ Cardinality(Waiting(t, rest)) \in Nat /\ Cardinality(Waiting(t, left)) \in Nat
        /\ Cardinality(Waiting(t, rest)) = Cardinality(Waiting(t, left)) + (IF p.type = t THEN 1 ELSE 0)
    BY <1>0, WaitingAfter
  <2>2. cycle <= R + (IF t \in TypesOf(g) THEN 1 ELSE 0)
               + Cardinality(Charged(t, g, rest)) + Cardinality(Waiting(t, rest))
    BY DEF Grouped, CostsCovered
  <2>3. /\ Cardinality(Charged(t, g, rest)) \in Nat /\ Cardinality(Charged(t, {}, left)) \in Nat
        /\ Cardinality(Charged(t, g, rest)) <= Cardinality(Charged(t, {}, left))
    BY <1>0, ChargedGrows
  <2>4. CASE t = p.type
    <3>1. t \notin TypesOf(g)
      BY <2>4
    <3> HIDE DEF left, h
    <3> QED
      BY <2>1, <2>2, <2>3, <2>4, <3>1
  <2>5. CASE t # p.type
    <3> HIDE DEF left, h
    <3>1. (IF t \in TypesOf(g) THEN 1 ELSE 0) \in 0 .. 1
      OBVIOUS
    <3> QED
      BY <2>1, <2>2, <2>3, <2>5, <3>1
  <2> QED
    BY <2>4, <2>5
<1> QED
  BY <1>4, <1>5, <1>6, <1>8, <1>9, <1>10 DEF Grouped

\* A group with one packet of a type is complete when each type is in it.
LEMMA GroupCounted ==
  ASSUME NEW g, \A p \in g : p.type \in Expected, \A p, q \in g : p.type = q.type => p = q
  PROVE  /\ IsFiniteSet(g) /\ Cardinality(g) \in Nat /\ Cardinality(Expected) \in Nat
         /\ Cardinality(g) < Cardinality(Expected) <=> \E t \in Expected : t \notin TypesOf(g)
<1> DEFINE f == [p \in g |-> p.type]
<1>1. IsFiniteSet(Expected)
  BY ImuForwarderAssumption, FS_Subset
<1>2. f \in Injection(g, Expected)
  BY DEF Injection, IsInjective
<1>3. /\ IsFiniteSet(g) /\ Cardinality(g) <= Cardinality(Expected)
      /\ Cardinality(g) = Cardinality(Expected) <=> f \in Surjection(g, Expected)
  BY <1>1, <1>2, FS_Injection
<1>4. f \in Surjection(g, Expected) <=> \A t \in Expected : t \in TypesOf(g)
  <2>1. f \in [g -> Expected]
    OBVIOUS
  <2>2. f \in Surjection(g, Expected) <=> \A t \in Expected : \E p \in g : f[p] = t
    BY <2>1 DEF Surjection
  <2> QED
    BY <2>2 DEF TypesOf
<1>5. Cardinality(g) \in Nat /\ Cardinality(Expected) \in Nat
  BY <1>1, <1>3, FS_CardinalityType
<1>6. Cardinality(g) < Cardinality(Expected) <=> Cardinality(g) # Cardinality(Expected)
  BY <1>3, <1>5
<1> QED
  BY <1>3, <1>4, <1>5, <1>6

\* The records have the fields that the grouping needs.
IsForwarder(f) == {"pending", "firstArrival"} \subseteq DOMAIN f

IsFed(state) == {"fwd", "out"} \subseteq DOMAIN state /\ IsForwarder(state.fwd)

\* The group p is put into, and when its first packet arrived.
IsRepeated(f, p) == \E q \in f.pending : q.type = p.type
GroupWith(f, p) == IF IsRepeated(f, p) \/ f.pending = {} THEN {p} ELSE f.pending \cup {p}
FirstWith(f, p, arrival) == IF IsRepeated(f, p) \/ f.pending = {} THEN arrival ELSE f.firstArrival

\* The cycles a reading of a group is put together from.
CyclesOf(group) == [t \in Expected |-> (CHOOSE q \in group : q.type = t).cycle]

\* What feeding one packet does to the group and to the readings.
LEMMA FeedPacketEffect ==
  ASSUME NEW state, IsFed(state), NEW p, NEW arrival
  PROVE  LET r == FeedPacket(state, p, arrival) IN
         /\ IsFed(r)
         /\ ~ p.whole \/ p.type \notin Expected =>
              /\ r.fwd.pending = state.fwd.pending /\ r.fwd.firstArrival = state.fwd.firstArrival
              /\ r.out = state.out
         /\ p.whole /\ p.type \in Expected =>
              \/ /\ Cardinality(GroupWith(state.fwd, p)) < Cardinality(Expected)
                 /\ r.fwd.pending = GroupWith(state.fwd, p)
                 /\ r.fwd.firstArrival = FirstWith(state.fwd, p, arrival)
                 /\ r.out = state.out
              \/ /\ ~ (Cardinality(GroupWith(state.fwd, p)) < Cardinality(Expected))
                 /\ r.fwd.pending = {} /\ r.fwd.firstArrival = None
                 /\ \E reading : /\ r.out = Append(state.out, reading)
                                 /\ reading.cycles = CyclesOf(GroupWith(state.fwd, p))
<1> DEFINE f        == state.fwd
           repeated  == \E q \in f.pending : q.type = p.type
           restarted == repeated \/ f.pending = {}
           group     == IF restarted THEN {p} ELSE f.pending \cup {p}
           first     == IF restarted THEN arrival ELSE f.firstArrival
           counted   == [f EXCEPT !.incomplete = IF repeated THEN @ + 1 ELSE @]
           complete  == Complete(counted, group, first, arrival)
           r == FeedPacket(state, p, arrival)
<1>1. group = GroupWith(f, p) /\ first = FirstWith(f, p, arrival)
  BY DEF GroupWith, FirstWith, IsRepeated
<1>2. CASE ~ p.whole
  <2>1. r = [state EXCEPT !.fwd.checksumFailures = @ + 1]
    BY <1>2 DEF FeedPacket
  <2> QED
    BY <1>2, <2>1 DEF IsFed, IsForwarder
<1>3. CASE p.whole /\ p.type \notin Expected
  <2>1. r = state
    BY <1>3 DEF FeedPacket
  <2> QED
    BY <1>3, <2>1
<1>4. CASE p.whole /\ p.type \in Expected /\ Cardinality(group) < Cardinality(Expected)
  <2>1. r = [state EXCEPT !.fwd = [counted EXCEPT !.pending = group, !.firstArrival = first]]
    BY <1>4 DEF FeedPacket
  <2>2. /\ r.out = state.out /\ DOMAIN r = DOMAIN state
        /\ r.fwd = [counted EXCEPT !.pending = group, !.firstArrival = first]
    BY <2>1 DEF IsFed
  <2>3. IsForwarder(counted)
    BY DEF IsFed, IsForwarder
  <2>4. IsForwarder(r.fwd) /\ r.fwd.pending = group /\ r.fwd.firstArrival = first
    <3> HIDE DEF counted, group, first, r
    <3> QED
      BY <2>2, <2>3 DEF IsForwarder
  <2> QED
    BY <1>1, <1>4, <2>2, <2>4 DEF IsFed
<1>5. CASE p.whole /\ p.type \in Expected /\ ~ (Cardinality(group) < Cardinality(Expected))
  <2>1. r = [fwd |-> complete, out |-> Append(state.out, Reading(group, complete, first, arrival))]
    BY <1>5 DEF FeedPacket
  <2>2. IsForwarder(counted)
    BY DEF IsFed, IsForwarder
  <2>3. IsForwarder(complete) /\ complete.pending = {} /\ complete.firstArrival = None
    <3> HIDE DEF counted, group, first, r
    <3> QED
      BY <2>2 DEF IsForwarder, Complete
  <2>4. Reading(group, complete, first, arrival).cycles
          = CyclesOf(GroupWith(state.fwd, p))
    BY DEF Reading, GroupWith, IsRepeated, CyclesOf
  <2> HIDE DEF complete, group, first, r
  <2> DEFINE reading == Reading(group, complete, first, arrival)
  <2>5. r.fwd = complete /\ r.out = Append(state.out, reading) /\ {"fwd", "out"} \subseteq DOMAIN r
    BY <2>1
  <2>6. reading.cycles = CyclesOf(GroupWith(state.fwd, p))
    BY <2>4
  <2> HIDE DEF reading
  <2>7. \E x : /\ r.out = Append(state.out, x)
               /\ x.cycles = CyclesOf(GroupWith(state.fwd, p))
    BY <2>5, <2>6
  <2>8. IsFed(r)
    BY <2>3, <2>5 DEF IsFed
  <2>9. r.fwd.pending = {} /\ r.fwd.firstArrival = None
    BY <2>3, <2>5
  <2> QED
    BY <1>1, <1>5, <2>7, <2>8, <2>9 DEF r
<1> HIDE DEF r, group, complete, counted, first
<1> QED
  BY <1>2, <1>3, <1>4, <1>5

\* A sequence of readings, whatever is in them.
Listed(s) == s \in Seq(ToSet(s))

LEMMA ListedFacts ==
  ASSUME NEW s, Listed(s)
  PROVE  Len(s) \in Nat /\ DOMAIN s = 1 .. Len(s)
BY LenProperties DEF Listed

\* What comes out after the readings so far, one by one.
LEMMA ListedAppend ==
  ASSUME NEW s, Listed(s), NEW x
  PROVE  /\ Listed(Append(s, x)) /\ Len(Append(s, x)) = Len(s) + 1
         /\ \A i \in 1 .. Len(s) : Append(s, x)[i] = s[i]
         /\ Append(s, x)[Len(s) + 1] = x
<1>1. s \in Seq(ToSet(s) \cup {x}) /\ x \in ToSet(s) \cup {x}
  <2>1. s \in Seq(ToSet(s)) /\ Len(s) \in Nat /\ DOMAIN s = 1 .. Len(s)
    BY ListedFacts DEF Listed
  <2>2. s \in [1 .. Len(s) -> ToSet(s) \cup {x}]
    BY <2>1, LenProperties DEF ToSet
  <2> QED
    BY <2>1, <2>2
<1> DEFINE a == Append(s, x)
<1>2. /\ a \in Seq(ToSet(s) \cup {x}) /\ Len(a) = Len(s) + 1
      /\ \A i \in 1 .. Len(s) : a[i] = s[i]
      /\ a[Len(s) + 1] = x
  BY <1>1, AppendProperties
<1>3. Len(a) \in Nat /\ DOMAIN a = 1 .. Len(a)
  BY <1>2, LenProperties
<1>4. a \in [1 .. Len(a) -> ToSet(a)]
  <2>1. a = [i \in 1 .. Len(a) |-> a[i]]
    BY <1>2, <1>3, LenProperties
  <2>2. \A i \in 1 .. Len(a) : a[i] \in ToSet(a)
    BY <1>3 DEF ToSet
  <2> HIDE DEF a
  <2> QED
    BY <2>1, <2>2
<1>5. a \in Seq(ToSet(a))
  <2> HIDE DEF a
  <2> QED
    BY <1>3, <1>4, SeqDef
<1> QED
  BY <1>2, <1>5 DEF Listed

LEMMA ListedConcat ==
  ASSUME NEW s, Listed(s), NEW t, Listed(t)
  PROVE  /\ Listed(s \o t) /\ Len(s \o t) = Len(s) + Len(t)
         /\ \A i \in 1 .. Len(s) : (s \o t)[i] = s[i]
         /\ \A i \in 1 .. Len(t) : (s \o t)[Len(s) + i] = t[i]
<1> DEFINE c == s \o t  S == ToSet(s) \cup ToSet(t)
<1>1. s \in Seq(S) /\ t \in Seq(S)
  <2>1. /\ s \in [1 .. Len(s) -> S] /\ Len(s) \in Nat
        /\ t \in [1 .. Len(t) -> S] /\ Len(t) \in Nat
    BY LenProperties DEF Listed
  <2> QED
    BY <2>1, SeqDef
<1>2. /\ c \in Seq(S) /\ Len(c) = Len(s) + Len(t) /\ Len(s) \in Nat /\ Len(t) \in Nat
      /\ \A i \in 1 .. Len(s) + Len(t) : c[i] = IF i <= Len(s) THEN s[i] ELSE t[i - Len(s)]
  BY <1>1, ConcatProperties, LenProperties
<1>3. Len(c) \in Nat /\ DOMAIN c = 1 .. Len(c) /\ c = [i \in 1 .. Len(c) |-> c[i]]
  BY <1>2, LenProperties
<1>4. \A i \in 1 .. Len(c) : c[i] \in ToSet(c)
  BY <1>3 DEF ToSet
<1> HIDE DEF c
<1>5. c \in Seq(ToSet(c))
  BY <1>3, <1>4, SeqDef
<1>6. ASSUME NEW i \in 1 .. Len(s) PROVE c[i] = s[i]
  BY <1>2
<1>7. ASSUME NEW i \in 1 .. Len(t) PROVE c[Len(s) + i] = t[i]
  <2>1. Len(s) + i \in 1 .. Len(s) + Len(t) /\ ~ (Len(s) + i <= Len(s)) /\ Len(s) + i - Len(s) = i
    BY <1>2
  <2> QED
    BY <1>2, <2>1
<1> QED
  BY <1>2, <1>5, <1>6, <1>7 DEF c, Listed

\* A reading more that came out is a reading more at the end of all of them.
LEMMA OneMoreOut ==
  ASSUME NEW s, Listed(s), NEW t, Listed(t), NEW x
  PROVE  /\ Len(s \o Append(t, x)) = Len(s \o t) + 1
         /\ \A i \in 1 .. Len(s \o t) : (s \o Append(t, x))[i] = (s \o t)[i]
         /\ (s \o Append(t, x))[Len(s \o t) + 1] = x
<1> DEFINE a == Append(t, x)
<1>1. /\ Listed(a) /\ Len(a) = Len(t) + 1 /\ a[Len(t) + 1] = x
      /\ \A i \in 1 .. Len(t) : a[i] = t[i]
  BY ListedAppend
<1>2. Len(s) \in Nat /\ Len(t) \in Nat
  BY ListedFacts
<1> HIDE DEF a
<1>3. /\ Len(s \o a) = Len(s) + Len(a) /\ Len(s \o t) = Len(s) + Len(t)
      /\ \A i \in 1 .. Len(s) : (s \o a)[i] = s[i] /\ (s \o t)[i] = s[i]
      /\ \A i \in 1 .. Len(a) : (s \o a)[Len(s) + i] = a[i]
      /\ \A i \in 1 .. Len(t) : (s \o t)[Len(s) + i] = t[i]
  <2>1. /\ Len(s \o a) = Len(s) + Len(a)
        /\ \A i \in 1 .. Len(s) : (s \o a)[i] = s[i]
        /\ \A i \in 1 .. Len(a) : (s \o a)[Len(s) + i] = a[i]
    <3>1. Listed(a)
      BY <1>1
    <3> QED
      BY <3>1, ListedConcat
  <2>2. /\ Len(s \o t) = Len(s) + Len(t)
        /\ \A i \in 1 .. Len(s) : (s \o t)[i] = s[i]
        /\ \A i \in 1 .. Len(t) : (s \o t)[Len(s) + i] = t[i]
    BY ListedConcat
  <2> QED
    BY <2>1, <2>2
<1>4. ASSUME NEW i \in 1 .. Len(s \o t) PROVE (s \o a)[i] = (s \o t)[i]
  <2>1. CASE i \in 1 .. Len(s)
    BY <1>3, <2>1
  <2>2. CASE i \notin 1 .. Len(s)
    <3>1. i - Len(s) \in 1 .. Len(t) /\ i - Len(s) \in 1 .. Len(a) /\ Len(s) + (i - Len(s)) = i
      BY <1>1, <1>2, <1>3, <2>2
    <3>2. (s \o a)[Len(s) + (i - Len(s))] = a[i - Len(s)] /\ (s \o t)[Len(s) + (i - Len(s))] = t[i - Len(s)]
      BY <1>3, <3>1
    <3> QED
      BY <1>1, <3>1, <3>2
  <2> QED
    BY <2>1, <2>2
<1>5. (s \o a)[Len(s) + (Len(t) + 1)] = x /\ Len(s) + (Len(t) + 1) = Len(s \o t) + 1
  <2>1. Len(t) + 1 \in 1 .. Len(a)
    BY <1>1, <1>2
  <2> QED
    BY <1>1, <1>2, <1>3, <2>1
<1>6. Len(s \o a) = Len(s \o t) + 1
  BY <1>1, <1>2, <1>3
<1> QED
  BY <1>4, <1>5, <1>6 DEF a

\* The forwarder in the middle of a chunk, when rest is not fed yet.
Fed(state, rest) ==
  /\ IsFed(state)
  /\ (state.fwd.firstArrival = None) <=> (state.fwd.pending = {})
  /\ Listed(state.out)
  /\ Grouped(readings \o state.out, state.fwd.pending, rest)

\* The line between the device and the port.
LineTrue ==
  /\ setup \in Setups /\ cycle \in Nat
  /\ IsFiniteSet(damaged)
  /\ wire \in Seq(Packets)
  /\ InOrderSent

\* The next packet of the wire is the first of the rest.
LEMMA NextIsFirst ==
  ASSUME LineTrue, NEW n \in 1 .. Len(wire), RestTrue(Rest(wire, n - 1))
  PROVE  /\ First(wire[n], Rest(wire, n - 1)) /\ Rest(wire, n) = Rest(wire, n - 1) \ {wire[n]}
         /\ IsFiniteSet(Rest(wire, n - 1))
<1> DEFINE p == wire[n]
<1>0. Len(wire) \in Nat /\ n \in Nat
  BY LenProperties DEF LineTrue
<1>1. \A i \in n .. Len(wire) : i = n \/ i \in n + 1 .. Len(wire)
  BY <1>0
<1>2. p \in Rest(wire, n - 1)
  BY <1>0 DEF Rest
<1>3. \A i \in n + 1 .. Len(wire) : Before(p, wire[i])
  <2>1. \A i \in n + 1 .. Len(wire) : i \in 1 .. Len(wire) /\ n < i
    BY <1>0
  <2> QED
    BY <2>1 DEF LineTrue, InOrderSent
<1>4. Sent(p) /\ ~ Before(p, p)
  BY <1>2, StreamOrder DEF RestTrue, LineTrue
<1>5. (n - 1) + 1 = n
  BY <1>0
<1>6. Rest(wire, n) = Rest(wire, n - 1) \ {p}
  <2>1. \A i \in n + 1 .. Len(wire) : wire[i] # p /\ i \in n .. Len(wire)
    BY <1>0, <1>3, <1>4
  <2> HIDE DEF p
  <2>2. Rest(wire, n) \subseteq Rest(wire, n - 1) \ {p}
    BY <1>5, <2>1 DEF Rest
  <2>3. Rest(wire, n - 1) \ {p} \subseteq Rest(wire, n)
    BY <1>1, <1>5 DEF Rest, p
  <2> QED
    BY <2>2, <2>3
<1>7. \A q \in Rest(wire, n) : Before(p, q)
  BY <1>3 DEF Rest
<1>8. IsFiniteSet(Rest(wire, n - 1))
  <2> DEFINE S == n .. Len(wire)
             f == [i \in S |-> wire[i]]
  <2>1. IsFiniteSet(S)
    BY <1>0, FS_Interval
  <2>2. f \in Surjection(S, Rest(wire, n - 1))
    BY <1>5 DEF Surjection, Rest
  <2> QED
    BY <2>1, <2>2, FS_Surjection
<1> QED
  BY <1>2, <1>6, <1>7, <1>8 DEF First

\* The packet that completes a group makes a reading of the group's packets.
LEMMA ReadingOfGroup ==
  ASSUME cycle \in Nat, NEW g, \A q \in g : q.cycle \in 1 .. cycle, \A q, u \in g : q.type = u.type => q = u,
         Expected \subseteq TypesOf(g), \A q \in g : q.type \in Expected,
         NEW r, r.cycles = CyclesOf(g)
  PROVE  r.cycles \in [Expected -> 1 .. cycle] /\ \A x \in g : r.cycles[x.type] = x.cycle
<1>1. ASSUME NEW t \in Expected
      PROVE  (CHOOSE q \in g : q.type = t) \in g /\ (CHOOSE q \in g : q.type = t).type = t
  <2>1. \E q \in g : q.type = t
    BY DEF TypesOf
  <2> QED
    BY <2>1
<1>2. \A x \in g : (CHOOSE q \in g : q.type = x.type) = x
  BY <1>1
<1> QED
  BY <1>1, <1>2 DEF CyclesOf

\* Feeding the next packet keeps the grouping.
LEMMA PacketKeeps ==
  ASSUME setup \in Setups, cycle \in Nat, IsFiniteSet(damaged), Listed(readings),
         NEW rest, IsFiniteSet(rest), NEW p, First(p, rest), NEW arrival \in Int, NEW state,
         Fed(state, rest), NEW r, r = FeedPacket(state, p, arrival)
  PROVE  Fed(r, rest \ {p})
<1> DEFINE g == state.fwd.pending
           rs == readings \o state.out
           group == GroupWith(state.fwd, p)
<1>1. Grouped(rs, g, rest) /\ Listed(rs) /\ Listed(state.out)
  BY ListedConcat DEF Fed
<1>2. First(p, rest) /\ IsFiniteSet(rest)
  OBVIOUS
<1>3. setup \in Setups /\ cycle \in Nat /\ IsFiniteSet(damaged) /\ Len(rs) \in Nat /\ DOMAIN rs = 1 .. Len(rs)
  BY <1>1, ListedFacts
<1>4. p \in Packets /\ Sent(p) /\ p.cycle \in 1 .. cycle
  BY <1>1, <1>2 DEF First, Grouped, RestTrue, Sent
<1>5. IsFed(r)
  BY FeedPacketEffect DEF Fed
<1>6. (state.fwd.firstArrival = None) <=> (g = {})
  BY DEF Fed
<1>7. arrival # None
  BY ImuForwarderAssumption
<1>8. CASE ~ p.whole \/ p.type \notin Expected
  <2>1. /\ r.fwd.pending = g /\ r.fwd.firstArrival = state.fwd.firstArrival
        /\ r.out = state.out
    BY <1>8, FeedPacketEffect DEF Fed
  <2>2. Grouped(rs, g, rest \ {p})
    BY <1>1, <1>2, <1>3, <1>8, SkipKeeps
  <2> QED
    BY <1>1, <1>2, <1>5, <1>6, <2>1, <2>2 DEF Fed
<1>9. CASE p.whole /\ p.type \in Expected
  <2>1. \/ /\ Cardinality(group) < Cardinality(Expected)
           /\ r.fwd.pending = group
           /\ r.fwd.firstArrival = FirstWith(state.fwd, p, arrival)
           /\ r.out = state.out
        \/ /\ ~ (Cardinality(group) < Cardinality(Expected))
           /\ r.fwd.pending = {} /\ r.fwd.firstArrival = None
           /\ \E reading : /\ r.out = Append(state.out, reading)
                           /\ reading.cycles = CyclesOf(group)
    BY <1>9, FeedPacketEffect DEF Fed
  <2>2. GroupTrue(g, rest)
    BY <1>1 DEF Grouped
  <2>3. group # {} /\ FirstWith(state.fwd, p, arrival) # None
    <3>1. group # {}
      BY DEF GroupWith
    <3>2. FirstWith(state.fwd, p, arrival) # None
      BY <1>6, <1>7 DEF FirstWith
    <3> QED
      BY <3>1, <3>2
  <2>4. CASE p.type \in TypesOf(g)
    <3>1. group = {p}
      BY <2>4 DEF GroupWith, IsRepeated, TypesOf
    <3>2. \E t \in Expected : t \notin TypesOf({p})
      BY ImuForwarderAssumption DEF TypesOf
    <3>3. Cardinality({p}) < Cardinality(Expected)
      BY <1>9, <3>2, GroupCounted
    <3>4. Grouped(rs, {p}, rest \ {p})
      BY <1>1, <1>2, <1>3, <1>9, <2>4, RestartKeeps
    <3>5. /\ r.fwd.pending = {p} /\ r.out = state.out
          /\ r.fwd.firstArrival = FirstWith(state.fwd, p, arrival)
      BY <2>1, <3>1, <3>3
    <3> QED
      BY <1>1, <1>2, <1>5, <2>3, <3>4, <3>5 DEF Fed
  <2>5. CASE p.type \notin TypesOf(g)
    <3>1. group = g \cup {p}
      BY <2>5 DEF GroupWith, IsRepeated, TypesOf
    <3>2. /\ \A q \in group : q.type \in Expected /\ q.cycle \in 1 .. cycle
          /\ \A q, u \in group : q.type = u.type => q = u
      <4>1. \A q \in g : q.type # p.type
        BY <2>5 DEF TypesOf
      <4> QED
        BY <1>4, <1>9, <2>2, <3>1, <4>1 DEF GroupTrue, Sent
    <3>3. Cardinality(group) < Cardinality(Expected) <=> \E t \in Expected : t \notin TypesOf(group)
      BY <3>2, GroupCounted
    <3>4. CASE Cardinality(group) < Cardinality(Expected)
      <4>1. \E t \in Expected : t \notin TypesOf(g \cup {p})
        BY <3>1, <3>3, <3>4
      <4>2. Grouped(rs, g \cup {p}, rest \ {p})
        BY <1>1, <1>2, <1>3, <1>9, <2>5, <4>1, JoinKeeps
      <4>3. /\ r.fwd.pending = g \cup {p} /\ r.out = state.out
            /\ r.fwd.firstArrival = FirstWith(state.fwd, p, arrival)
        BY <2>1, <3>1, <3>4
      <4> QED
        BY <1>1, <1>2, <1>5, <2>3, <4>2, <4>3 DEF Fed
    <3>5. CASE ~ (Cardinality(group) < Cardinality(Expected))
      <4>1. Expected \subseteq TypesOf(group)
        BY <3>3, <3>5
      <4>2. PICK reading : /\ r.out = Append(state.out, reading)
                           /\ reading.cycles = CyclesOf(group)
        BY <2>1, <3>5
      <4>3. r.fwd.pending = {} /\ r.fwd.firstArrival = None
        BY <2>1, <3>5
      <4>4. reading.cycles \in [Expected -> 1 .. cycle] /\ \A x \in group : reading.cycles[x.type] = x.cycle
        <5> HIDE DEF group
        <5> QED
          BY <1>3, <3>2, <4>1, <4>2, ReadingOfGroup
      <4> DEFINE rs2 == readings \o Append(state.out, reading)
      <4>5. /\ Len(rs2) = Len(rs) + 1 /\ \A i \in 1 .. Len(rs) : rs2[i] = rs[i]
            /\ rs2[Len(rs) + 1] = reading
        BY <1>1, OneMoreOut
      <4>6. Listed(Append(state.out, reading))
        BY <1>1, ListedAppend
      <4>7. OneAfter(rs2, rs, reading)
        <5>1. Listed(rs2)
          BY <4>6, ListedConcat
        <5>2. DOMAIN rs2 = 1 .. Len(rs) + 1
          BY <4>5, <5>1, ListedFacts
        <5> QED
          BY <4>5, <5>2 DEF OneAfter
      <4>8. ReadFrom(reading, g \cup {p})
        BY <3>1, <4>4 DEF ReadFrom
      <4>9. Expected \subseteq TypesOf(g \cup {p})
        BY <3>1, <4>1
      <4>10. Grouped(rs2, {}, rest \ {p})
        <5> HIDE DEF rs2, rs, g
        <5> QED
          BY <1>1, <1>2, <1>3, <1>9, <2>5, <4>7, <4>8, <4>9, CompleteKeeps
      <4> QED
        BY <1>2, <1>5, <4>2, <4>3, <4>6, <4>10 DEF Fed
    <3> QED
      BY <3>4, <3>5
  <2> QED
    BY <2>4, <2>5
<1> QED
  BY <1>8, <1>9

\* One packet of the wire more is fed.
LEMMA FeedPacketKeeps ==
  ASSUME LineTrue, Listed(readings), NEW n \in 1 .. Len(wire), NEW state,
         Fed(state, Rest(wire, n - 1)), NEW arrival \in Int
  PROVE  Fed(FeedPacket(state, wire[n], arrival), Rest(wire, n))
<1>1. First(wire[n], Rest(wire, n - 1)) /\ Rest(wire, n) = Rest(wire, n - 1) \ {wire[n]}
      /\ IsFiniteSet(Rest(wire, n - 1))
  BY NextIsFirst DEF Fed, Grouped
<1>2. setup \in Setups /\ cycle \in Nat /\ IsFiniteSet(damaged)
  BY DEF LineTrue
<1>3. Fed(FeedPacket(state, wire[n], arrival), Rest(wire, n - 1) \ {wire[n]})
  BY <1>1, <1>2, PacketKeeps
<1> QED
  BY <1>1, <1>3

\* What FeedChunk computes, packet by packet.
FedOneByOne(N, chunk, arrival, f) ==
  /\ f[0] = [fwd |-> fwd, out |-> <<>>]
  /\ \A n \in 1 .. N : f[n] = FeedPacket(f[n - 1], chunk[n], arrival)

LEMMA FeedingExists ==
  ASSUME NEW N \in Nat, NEW chunk, NEW arrival
  PROVE  \E f : f = [n \in 0 .. N |-> f[n]] /\ FedOneByOne(N, chunk, arrival, f)
<1> DEFINE T == {n \in 0 .. N : \E f : f = [i \in 0 .. n |-> f[i]] /\ FedOneByOne(n, chunk, arrival, f)}
<1>1. 0 \in T
  <2> DEFINE f == [i \in 0 .. 0 |-> [fwd |-> fwd, out |-> <<>>]]
  <2>1. f = [i \in 0 .. 0 |-> f[i]] /\ FedOneByOne(0, chunk, arrival, f)
    BY DEF FedOneByOne
  <2> QED
    BY <2>1
<1>2. ASSUME NEW n \in 1 .. N, n - 1 \in T PROVE n \in T
  <2>1. PICK f : f = [i \in 0 .. n - 1 |-> f[i]] /\ FedOneByOne(n - 1, chunk, arrival, f)
    BY <1>2
  <2> DEFINE g == [i \in 0 .. n |-> IF i = n THEN FeedPacket(f[n - 1], chunk[n], arrival) ELSE f[i]]
  <2>2. g = [i \in 0 .. n |-> g[i]]
    OBVIOUS
  <2>3. g[0] = [fwd |-> fwd, out |-> <<>>]
    BY <2>1 DEF FedOneByOne
  <2>4. ASSUME NEW i \in 1 .. n PROVE g[i] = FeedPacket(g[i - 1], chunk[i], arrival)
    <3>1. CASE i = n
      BY <3>1
    <3>2. CASE i # n
      <4>1. i \in 1 .. n - 1 /\ i - 1 # n /\ i \in 0 .. n /\ i - 1 \in 0 .. n
        BY <3>2
      <4>2. g[i] = f[i] /\ g[i - 1] = f[i - 1]
        BY <3>2, <4>1
      <4>3. f[i] = FeedPacket(f[i - 1], chunk[i], arrival)
        BY <2>1, <4>1 DEF FedOneByOne
      <4> QED
        BY <4>2, <4>3
    <3> QED
      BY <3>1, <3>2
  <2>5. FedOneByOne(n, chunk, arrival, g)
    BY <2>3, <2>4 DEF FedOneByOne
  <2> HIDE DEF g
  <2> QED
    BY <2>2, <2>5
<1>3. T = 0 .. N
  <2> HIDE DEF T
  <2>1. T \subseteq 0 .. N
    BY DEF T
  <2> QED
    BY <1>1, <1>2, <2>1, UpTo
<1>4. N \in T
  BY <1>3
<1> QED
  BY <1>4

LEMMA FeedChunkIs ==
  ASSUME NEW chunk, Len(chunk) \in Nat, NEW arrival
  PROVE  \E f : FedOneByOne(Len(chunk), chunk, arrival, f) /\ FeedChunk(chunk, arrival) = f[Len(chunk)]
<1> DEFINE N == Len(chunk)
           NextOf(f) == [n \in 0 .. N |->
                         IF n = 0 THEN [fwd |-> fwd, out |-> <<>>]
                         ELSE FeedPacket(f[n - 1], chunk[n], arrival)]
           after == CHOOSE f : f = NextOf(f)
<1>1. \E f : f = NextOf(f)
  <2>1. PICK f : f = [n \in 0 .. N |-> f[n]] /\ FedOneByOne(N, chunk, arrival, f)
    BY FeedingExists
  <2>2. ASSUME NEW n \in 0 .. N PROVE f[n] = NextOf(f)[n]
    <3>1. CASE n = 0
      BY <2>1, <3>1 DEF FedOneByOne
    <3>2. CASE n # 0
      <4>1. n \in 1 .. N
        BY <3>2
      <4>2. f[n] = FeedPacket(f[n - 1], chunk[n], arrival)
        BY <2>1, <4>1 DEF FedOneByOne
      <4> QED
        BY <3>2, <4>2
    <3> QED
      BY <3>1, <3>2
  <2>3. NextOf(f) = [n \in 0 .. N |-> NextOf(f)[n]]
    OBVIOUS
  <2>4. f = NextOf(f)
    <3> HIDE DEF NextOf
    <3>1. [n \in 0 .. N |-> f[n]] = [n \in 0 .. N |-> NextOf(f)[n]]
      BY <2>2
    <3> QED
      BY <2>1, <2>3, <3>1
  <2> QED
    BY <2>4
<1>2. after = NextOf(after)
  <2> HIDE DEF NextOf
  <2> QED
    BY <1>1
<1>3. FeedChunk(chunk, arrival) = after[N]
  BY DEF FeedChunk
<1> HIDE DEF after
<1>4. FedOneByOne(N, chunk, arrival, after)
  <2>1. \A n \in 0 .. N : after[n] = IF n = 0 THEN [fwd |-> fwd, out |-> <<>>]
                                     ELSE FeedPacket(after[n - 1], chunk[n], arrival)
    <3>1. \A n \in 0 .. N :
            NextOf(after)[n] = IF n = 0 THEN [fwd |-> fwd, out |-> <<>>]
                               ELSE FeedPacket(after[n - 1], chunk[n], arrival)
      OBVIOUS
    <3> HIDE DEF NextOf
    <3> QED
      BY <1>2, <3>1
  <2>2. 0 \in 0 .. N /\ \A n \in 1 .. N : n \in 0 .. N /\ n # 0
    OBVIOUS
  <2> QED
    BY <2>1, <2>2 DEF FedOneByOne
<1> QED
  BY <1>3, <1>4

\* Feeding the first k packets of the wire.
LEMMA ChunkKeeps ==
  ASSUME LineTrue, Listed(readings), Fed([fwd |-> fwd, out |-> <<>>], Rest(wire, 0)),
         NEW chunk, Len(chunk) \in Nat, Len(chunk) <= Len(wire),
         \A i \in 1 .. Len(chunk) : chunk[i] = wire[i], NEW arrival \in Int
  PROVE  Fed(FeedChunk(chunk, arrival), Rest(wire, Len(chunk)))
<1> DEFINE N == Len(chunk)
<1>1. PICK f : FedOneByOne(N, chunk, arrival, f) /\ FeedChunk(chunk, arrival) = f[N]
  BY FeedChunkIs
<1> DEFINE T == {n \in 0 .. N : Fed(f[n], Rest(wire, n))}
<1>2. 0 \in T
  BY <1>1 DEF FedOneByOne
<1>3. ASSUME NEW n \in 1 .. N, n - 1 \in T PROVE n \in T
  <2>1. n \in 1 .. Len(wire) /\ chunk[n] = wire[n]
    BY LenProperties DEF LineTrue
  <2>2. Fed(f[n - 1], Rest(wire, n - 1))
    BY <1>3
  <2>3. Fed(FeedPacket(f[n - 1], wire[n], arrival), Rest(wire, n))
    BY <2>1, <2>2, FeedPacketKeeps
  <2>4. f[n] = FeedPacket(f[n - 1], wire[n], arrival)
    BY <1>1, <2>1 DEF FedOneByOne
  <2> QED
    BY <2>3, <2>4
<1>4. T = 0 .. N
  <2> HIDE DEF T
  <2>1. T \subseteq 0 .. N
    BY DEF T
  <2> QED
    BY <1>2, <1>3, <2>1, UpTo
<1>5. Fed(f[N], Rest(wire, N))
  BY <1>4
<1> QED
  BY <1>1, <1>5

\* The packet the line makes of the burst's n-th.
Delivered(n, damage) ==
  [type |-> setup.burst[n], cycle |-> cycle + 1, whole |-> setup.burst[n] \notin damage.bad]

\* What Arriving computes, packet by packet.
ArrivingOneByOne(N, damage, f) ==
  /\ f[0] = <<>>
  /\ \A n \in 1 .. N : f[n] = IF setup.burst[n] \in damage.gone THEN f[n - 1]
                              ELSE Append(f[n - 1], Delivered(n, damage))

LEMMA ArrivingExists ==
  ASSUME NEW N \in Nat, NEW damage
  PROVE  \E f : f = [n \in 0 .. N |-> f[n]] /\ ArrivingOneByOne(N, damage, f)
<1> DEFINE T == {n \in 0 .. N : \E f : f = [i \in 0 .. n |-> f[i]] /\ ArrivingOneByOne(n, damage, f)}
           After(f, n) == IF setup.burst[n] \in damage.gone THEN f[n - 1]
                          ELSE Append(f[n - 1], Delivered(n, damage))
<1>1. 0 \in T
  <2> DEFINE f == [i \in 0 .. 0 |-> << >>]
  <2>1. f = [i \in 0 .. 0 |-> f[i]] /\ ArrivingOneByOne(0, damage, f)
    BY DEF ArrivingOneByOne
  <2> QED
    BY <2>1
<1>2. ASSUME NEW n \in 1 .. N, n - 1 \in T PROVE n \in T
  <2>1. PICK f : f = [i \in 0 .. n - 1 |-> f[i]] /\ ArrivingOneByOne(n - 1, damage, f)
    BY <1>2
  <2> DEFINE g == [i \in 0 .. n |-> IF i = n THEN After(f, n) ELSE f[i]]
  <2>2. g = [i \in 0 .. n |-> g[i]]
    OBVIOUS
  <2>3. g[0] = << >>
    BY <2>1 DEF ArrivingOneByOne
  <2>4. ASSUME NEW i \in 1 .. n PROVE g[i] = After(g, i)
    <3>0. i \in 0 .. n /\ i - 1 \in 0 .. n /\ i - 1 # n
      OBVIOUS
    <3>1. g[i - 1] = f[i - 1]
      BY <3>0
    <3>2. After(g, i) = After(f, i)
      <4> HIDE DEF g
      <4> QED
        BY <3>1
    <3>3. CASE i = n
      <4>1. g[i] = After(f, n)
        BY <3>0, <3>3
      <4> HIDE DEF After, g
      <4> QED
        BY <3>2, <3>3, <4>1
    <3>4. CASE i # n
      <4>1. i \in 1 .. n - 1 /\ g[i] = f[i]
        BY <3>0, <3>4
      <4>2. f[i] = After(f, i)
        BY <2>1, <4>1 DEF ArrivingOneByOne
      <4> HIDE DEF After, g
      <4> QED
        BY <3>2, <4>1, <4>2
    <3> QED
      BY <3>3, <3>4
  <2>5. ArrivingOneByOne(n, damage, g)
    <3> HIDE DEF g
    <3> QED
      BY <2>3, <2>4 DEF ArrivingOneByOne
  <2> HIDE DEF g
  <2> QED
    BY <2>2, <2>5
<1>3. T = 0 .. N
  <2> HIDE DEF T
  <2>1. T \subseteq 0 .. N
    BY DEF T
  <2> QED
    BY <1>1, <1>2, <2>1, UpTo
<1>4. N \in T
  BY <1>3
<1> QED
  BY <1>4

LEMMA ArrivingIs ==
  ASSUME NEW damage, Len(setup.burst) \in Nat
  PROVE  \E f : ArrivingOneByOne(Len(setup.burst), damage, f)
                /\ Arriving(damage) = f[Len(setup.burst)]
<1> DEFINE N == Len(setup.burst)
           NextOf(f) == [n \in 0 .. N |->
                         IF n = 0 THEN <<>>
                         ELSE IF setup.burst[n] \in damage.gone THEN f[n - 1]
                         ELSE Append(f[n - 1], [type |-> setup.burst[n], cycle |-> cycle + 1,
                                                whole |-> setup.burst[n] \notin damage.bad])]
           upTo == CHOOSE f : f = NextOf(f)
<1>1. \E f : f = NextOf(f)
  <2>1. PICK f : f = [n \in 0 .. N |-> f[n]] /\ ArrivingOneByOne(N, damage, f)
    BY ArrivingExists
  <2>2. ASSUME NEW n \in 0 .. N PROVE f[n] = NextOf(f)[n]
    <3>1. CASE n = 0
      BY <2>1, <3>1 DEF ArrivingOneByOne
    <3>2. CASE n # 0
      <4>1. n \in 1 .. N
        BY <3>2
      <4>2. f[n] = IF setup.burst[n] \in damage.gone THEN f[n - 1]
                   ELSE Append(f[n - 1], Delivered(n, damage))
        BY <2>1, <4>1 DEF ArrivingOneByOne
      <4> QED
        BY <3>2, <4>2 DEF Delivered
    <3> QED
      BY <3>1, <3>2
  <2>3. NextOf(f) = [n \in 0 .. N |-> NextOf(f)[n]]
    OBVIOUS
  <2>4. f = NextOf(f)
    <3> HIDE DEF NextOf
    <3>1. [n \in 0 .. N |-> f[n]] = [n \in 0 .. N |-> NextOf(f)[n]]
      BY <2>2
    <3> QED
      BY <2>1, <2>3, <3>1
  <2> QED
    BY <2>4
<1>2. upTo = NextOf(upTo)
  <2> HIDE DEF NextOf
  <2> QED
    BY <1>1
<1>3. Arriving(damage) = upTo[N]
  BY DEF Arriving
<1> HIDE DEF upTo
<1>4. ArrivingOneByOne(N, damage, upTo)
  <2>1. \A n \in 0 .. N : upTo[n] =
          IF n = 0 THEN <<>>
          ELSE IF setup.burst[n] \in damage.gone THEN upTo[n - 1]
          ELSE Append(upTo[n - 1], Delivered(n, damage))
    <3>1. \A n \in 0 .. N : NextOf(upTo)[n] =
            IF n = 0 THEN <<>>
            ELSE IF setup.burst[n] \in damage.gone THEN upTo[n - 1]
            ELSE Append(upTo[n - 1], Delivered(n, damage))
      BY DEF Delivered
    <3> HIDE DEF NextOf
    <3> QED
      BY <1>2, <3>1
  <2>2. 0 \in 0 .. N /\ \A n \in 1 .. N : n \in 0 .. N /\ n # 0
    OBVIOUS
  <2> QED
    BY <2>1, <2>2 DEF ArrivingOneByOne
<1> QED
  BY <1>3, <1>4

\* The first N packets of a burst, as the line delivers them.
Burst(s, N, damage) ==
  /\ s \in Seq(Packets)
  /\ \A i \in 1 .. Len(s) : \E n \in 1 .. N :
       s[i] = Delivered(n, damage) /\ setup.burst[n] \notin damage.gone
  /\ \A i, j \in 1 .. Len(s) : i < j => Place(s[i].type) < Place(s[j].type)
  /\ \A n \in 1 .. N : setup.burst[n] \notin damage.gone =>
       \E i \in 1 .. Len(s) : s[i] = Delivered(n, damage)

\* The line keeps the order of a burst and delivers what it does not lose.
LEMMA ArrivingFacts ==
  ASSUME setup \in Setups, cycle \in Nat, NEW damage
  PROVE  Burst(Arriving(damage), Len(setup.burst), damage)
<1> DEFINE N == Len(setup.burst)
<1>1. /\ N \in Nat /\ setup.burst \in Seq(Types)
      /\ \A i \in 1 .. N : setup.burst[i] \in Types /\ Place(setup.burst[i]) = i
  BY SetupFacts, PlaceFacts, LenProperties
<1>2. PICK f : ArrivingOneByOne(N, damage, f) /\ Arriving(damage) = f[N]
  BY <1>1, ArrivingIs
<1> DEFINE T == {n \in 0 .. N : Burst(f[n], n, damage)}
<1>3. 0 \in T
  <2>1. f[0] = << >> /\ Len(f[0]) = 0 /\ f[0] \in Seq(Packets)
    BY <1>2 DEF ArrivingOneByOne
  <2>2. 1 .. Len(f[0]) = {} /\ 1 .. 0 = {} /\ 0 \in 0 .. N
    BY <1>1, <2>1
  <2>3. Burst(f[0], 0, damage)
    BY <2>1, <2>2 DEF Burst
  <2> QED
    BY <2>2, <2>3
<1>4. ASSUME NEW n \in 1 .. N, n - 1 \in T PROVE n \in T
  <2> DEFINE s == f[n - 1]  x == Delivered(n, damage)
  <2>1. Burst(s, n - 1, damage)
    BY <1>4
  <2>2. n \in 0 .. N /\ n \in Nat /\ \A m \in 1 .. n : m = n \/ m \in 1 .. n - 1
    BY <1>1
  <2>3. CASE setup.burst[n] \in damage.gone
    <3>1. f[n] = s
      BY <1>2, <2>3 DEF ArrivingOneByOne
    <3> HIDE DEF s
    <3>2. Burst(s, n, damage)
      BY <2>1, <2>2, <2>3 DEF Burst
    <3> QED
      BY <2>2, <3>1, <3>2
  <2>4. CASE setup.burst[n] \notin damage.gone
    <3>1. f[n] = Append(s, x)
      BY <1>2, <2>4 DEF ArrivingOneByOne
    <3>2. x \in Packets /\ x.type = setup.burst[n]
      BY <1>1 DEF Packets, Delivered
    <3> DEFINE r == Append(s, x)
    <3> HIDE DEF s, x
    <3>3. /\ s \in Seq(Packets) /\ Len(s) \in Nat
          /\ r \in Seq(Packets) /\ Len(r) = Len(s) + 1
          /\ \A i \in 1 .. Len(s) : r[i] = s[i]
          /\ r[Len(s) + 1] = x
      BY <2>1, <3>2, AppendProperties, LenProperties DEF Burst
    <3> HIDE DEF r
    <3>4. \A i \in 1 .. Len(r) : i = Len(s) + 1 \/ i \in 1 .. Len(s)
      BY <3>3
    <3>5. ASSUME NEW i \in 1 .. Len(r)
          PROVE  \E m \in 1 .. n : r[i] = Delivered(m, damage) /\ setup.burst[m] \notin damage.gone
      <4>1. CASE i = Len(s) + 1
        BY <2>4, <3>3, <4>1 DEF x
      <4>2. CASE i \in 1 .. Len(s)
        <5>1. PICK m \in 1 .. n - 1 : s[i] = Delivered(m, damage) /\ setup.burst[m] \notin damage.gone
          BY <2>1, <4>2 DEF Burst
        <5> QED
          BY <3>3, <4>2, <5>1
      <4> QED
        BY <3>4, <4>1, <4>2
    <3>6. ASSUME NEW i \in 1 .. Len(r), NEW j \in 1 .. Len(r), i < j
          PROVE  Place(r[i].type) < Place(r[j].type)
      <4>1. i \in 1 .. Len(s)
        BY <3>3, <3>6
      <4>2. CASE j = Len(s) + 1
        <5>1. PICK m \in 1 .. n - 1 : s[i] = Delivered(m, damage)
          BY <2>1, <4>1 DEF Burst
        <5>2. r[i].type = setup.burst[m] /\ Place(r[i].type) = m
          BY <1>1, <3>3, <4>1, <5>1 DEF Delivered
        <5>3. Place(r[j].type) = n
          BY <1>1, <3>2, <3>3, <4>2
        <5> QED
          BY <5>2, <5>3
      <4>3. CASE j \in 1 .. Len(s)
        <5>1. Place(s[i].type) < Place(s[j].type)
          BY <2>1, <3>6, <4>1, <4>3 DEF Burst
        <5> QED
          BY <3>3, <4>1, <4>3, <5>1
      <4> QED
        BY <3>4, <4>2, <4>3
    <3>7. ASSUME NEW m \in 1 .. n, setup.burst[m] \notin damage.gone
          PROVE  \E i \in 1 .. Len(r) : r[i] = Delivered(m, damage)
      <4>1. CASE m = n
        BY <3>3, <4>1 DEF x
      <4>2. CASE m \in 1 .. n - 1
        <5>1. PICK i \in 1 .. Len(s) : s[i] = Delivered(m, damage)
          BY <2>1, <3>7, <4>2 DEF Burst
        <5> QED
          BY <3>3, <5>1
      <4> QED
        BY <2>2, <4>1, <4>2
    <3>8. Burst(r, n, damage)
      BY <3>3, <3>5, <3>6, <3>7 DEF Burst
    <3> QED
      BY <2>2, <3>1, <3>8 DEF r
  <2> QED
    BY <2>3, <2>4
<1>5. T = 0 .. N
  <2> HIDE DEF T
  <2>1. T \subseteq 0 .. N
    BY DEF T
  <2> QED
    BY <1>1, <1>3, <1>4, <2>1, UpTo
<1>6. Burst(f[N], N, damage)
  BY <1>1, <1>5
<1> QED
  BY <1>2, <1>6

LEMMA DeliveredFacts ==
  ASSUME NEW n, NEW damage
  PROVE  /\ Delivered(n, damage).type = setup.burst[n]
         /\ Delivered(n, damage).cycle = cycle + 1
         /\ Delivered(n, damage).whole <=> setup.burst[n] \notin damage.bad
BY Zenon DEF Delivered

\* What came of a burst stands behind what the forwarder had before it.
LEMMA BurstFacts ==
  ASSUME LineTrue, DamageTrue, NEW t, NEW damage \in Damage, DeviceBurst(t, damage),
         RestTrue(Rest(wire, 0))
  PROVE  LET old == Rest(wire, 0)
             new == Rest(wire', 0) \ Rest(wire, 0)
         IN /\ old \subseteq Rest(wire', 0)
            /\ \A x \in new : /\ x \in Packets /\ x.cycle = cycle + 1 /\ x.type \in ToSet(setup.burst)
                              /\ x.whole <=> SlotOf(x) \notin damaged'
            /\ \A type \in Expected :
                 \/ Slot(type, cycle + 1) \in damaged'
                 \/ \E x \in new : x.type = type /\ x.whole
            /\ damaged \subseteq damaged'
            /\ \A d \in damaged' : d.cycle # cycle + 1 => d \in damaged
            /\ LineTrue' /\ DamageTrue'
            /\ wire' \in Seq(Packets) /\ IsFiniteSet(Rest(wire', 0))
<1> DEFINE a == Arriving(damage)
           N == Len(setup.burst)
           hit == damage.gone \cup damage.bad
<1>1. /\ setup \in Setups /\ cycle \in Nat /\ wire \in Seq(Packets) /\ Len(wire) \in Nat
      /\ setup' = setup /\ cycle' = cycle + 1 /\ wire' = wire \o a
      /\ damaged' = damaged \cup {[type |-> type, cycle |-> cycle + 1] : type \in hit}
  BY LenProperties DEF DeviceBurst, LineTrue
<1>2. /\ N \in Nat
      /\ \A i \in 1 .. N : setup.burst[i] \in ToSet(setup.burst)
      /\ Expected \subseteq ToSet(setup.burst)
      /\ \A type \in ToSet(setup.burst) : Place(type) \in 1 .. N /\ setup.burst[Place(type)] = type
  <2>1. N \in Nat /\ Expected \subseteq ToSet(setup.burst) /\ DOMAIN setup.burst = 1 .. N
    BY <1>1, SetupFacts, LenProperties
  <2> QED
    BY <1>1, <2>1, PlaceFacts DEF ToSet
<1>3. Burst(a, N, damage)
  BY <1>1, ArrivingFacts
<1> HIDE DEF a
<1>4. /\ a \in Seq(Packets) /\ Len(a) \in Nat
      /\ wire' \in Seq(Packets) /\ Len(wire') = Len(wire) + Len(a)
      /\ \A i \in 1 .. Len(wire) : wire'[i] = wire[i]
      /\ \A i \in 1 .. Len(a) : wire'[Len(wire) + i] = a[i]
  <2>1. a \in Seq(Packets) /\ Len(a) \in Nat
    BY <1>3, LenProperties DEF Burst
  <2> QED
    BY <1>1, <2>1, ConcatProperties
<1>5. \A i \in 1 .. Len(a) : \E n \in 1 .. N : a[i] = Delivered(n, damage) /\ setup.burst[n] \notin damage.gone
  BY <1>3 DEF Burst
<1>6. \A i \in 1 .. Len(wire') :
        \/ i \in 1 .. Len(wire)
        \/ i - Len(wire) \in 1 .. Len(a) /\ Len(wire) + (i - Len(wire)) = i
  BY <1>1, <1>4
<1>7. /\ Rest(wire, 0) = {wire[i] : i \in 1 .. Len(wire)}
      /\ Rest(wire', 0) = {wire'[i] : i \in 1 .. Len(wire')}
  BY <1>1 DEF Rest
<1>8. Rest(wire', 0) = Rest(wire, 0) \cup {a[i] : i \in 1 .. Len(a)}
  <2>1. ASSUME NEW x \in Rest(wire', 0) PROVE x \in Rest(wire, 0) \cup {a[i] : i \in 1 .. Len(a)}
    <3>1. PICK i \in 1 .. Len(wire') : x = wire'[i]
      BY <1>7
    <3>2. CASE i \in 1 .. Len(wire)
      BY <1>4, <1>7, <3>1, <3>2
    <3>3. CASE i - Len(wire) \in 1 .. Len(a) /\ Len(wire) + (i - Len(wire)) = i
      <4>1. x = a[i - Len(wire)]
        BY <1>4, <3>1, <3>3
      <4> QED
        BY <3>3, <4>1
    <3> QED
      BY <1>6, <3>2, <3>3
  <2>2. ASSUME NEW i \in 1 .. Len(wire) PROVE wire[i] \in Rest(wire', 0)
    BY <1>1, <1>4, <1>7
  <2>3. ASSUME NEW i \in 1 .. Len(a) PROVE a[i] \in Rest(wire', 0)
    <3>1. Len(wire) + i \in 1 .. Len(wire')
      BY <1>1, <1>4
    <3> QED
      BY <1>4, <1>7, <3>1
  <2> QED
    BY <1>7, <2>1, <2>2, <2>3
<1>9. \A d \in damaged : d.cycle \in 1 .. cycle
  BY SlotFacts DEF DamageTrue
<1>10. damaged \subseteq damaged' /\ \A d \in damaged' : d.cycle # cycle + 1 => d \in damaged
  BY <1>1
<1>11. ASSUME NEW type
       PROVE  Slot(type, cycle + 1) \in damaged' <=> type \in hit
  <2>1. Slot(type, cycle + 1) \notin damaged
    BY <1>1, <1>9, SlotFacts
  <2> QED
    BY <1>1, <2>1 DEF Slot
<1>12. ASSUME NEW i \in 1 .. Len(a)
       PROVE  /\ a[i] \in Packets /\ a[i].cycle = cycle + 1 /\ a[i].type \in ToSet(setup.burst)
              /\ a[i].whole <=> SlotOf(a[i]) \notin damaged'
  <2>1. PICK n \in 1 .. N : a[i] = Delivered(n, damage) /\ setup.burst[n] \notin damage.gone
    BY <1>5
  <2>2. /\ a[i].type = setup.burst[n] /\ a[i].cycle = cycle + 1
        /\ a[i].whole <=> setup.burst[n] \notin damage.bad
    BY <2>1, DeliveredFacts
  <2>3. SlotOf(a[i]) = Slot(setup.burst[n], cycle + 1)
    BY <2>2, SlotFacts
  <2>4. a[i] \in Packets
    BY <1>4, ElementOfSeq
  <2> QED
    BY <1>2, <1>11, <2>1, <2>2, <2>3, <2>4
<1>13. \A x \in Rest(wire, 0) : x.cycle \in 1 .. cycle /\ x \in Packets
  BY DEF RestTrue, Sent
<1>14. ASSUME NEW type \in Expected, type \notin hit
       PROVE  \E i \in 1 .. Len(a) : a[i].type = type /\ a[i].whole
  <2>1. Place(type) \in 1 .. N /\ setup.burst[Place(type)] = type
    BY <1>2
  <2>2. PICK i \in 1 .. Len(a) : a[i] = Delivered(Place(type), damage)
    BY <1>3, <1>14, <2>1 DEF Burst
  <2> QED
    BY <1>14, <2>1, <2>2, DeliveredFacts
<1>15. /\ \A i \in 1 .. Len(a) : a[i] \in Rest(wire', 0) \ Rest(wire, 0)
       /\ \A x \in Rest(wire', 0) \ Rest(wire, 0) : \E i \in 1 .. Len(a) : x = a[i]
  <2>1. ASSUME NEW i \in 1 .. Len(a), a[i] \in Rest(wire, 0) PROVE FALSE
    <3>1. a[i].cycle = cycle + 1 /\ a[i].cycle \in 1 .. cycle
      BY <1>12, <1>13, <2>1
    <3> QED
      BY <1>1, <3>1
  <2> QED
    BY <1>8, <2>1
<1>16. InOrderSent'
  <2> SUFFICES ASSUME NEW i \in 1 .. Len(wire'), NEW j \in 1 .. Len(wire'), i < j
               PROVE  \/ wire'[i].cycle < wire'[j].cycle
                      \/ wire'[i].cycle = wire'[j].cycle /\ Place(wire'[i].type) < Place(wire'[j].type)
    BY <1>1 DEF InOrderSent, Before, Place
  <2>1. CASE j \in 1 .. Len(wire)
    <3>1. i \in 1 .. Len(wire)
      BY <1>1, <1>4, <2>1
    <3>2. Before(wire[i], wire[j])
      BY <2>1, <3>1 DEF LineTrue, InOrderSent
    <3> QED
      BY <1>4, <2>1, <3>1, <3>2 DEF Before
  <2>2. CASE j - Len(wire) \in 1 .. Len(a) /\ Len(wire) + (j - Len(wire)) = j
    <3>1. wire'[j] = a[j - Len(wire)] /\ wire'[j].cycle = cycle + 1
      <4>1. wire'[j] = a[j - Len(wire)]
        BY <1>4, <2>2
      <4> QED
        BY <1>12, <2>2, <4>1
    <3>2. CASE i \in 1 .. Len(wire)
      <4>1. wire'[i].cycle \in 1 .. cycle
        BY <1>4, <1>7, <1>13, <3>2
      <4> QED
        BY <1>1, <3>1, <4>1
    <3>3. CASE i - Len(wire) \in 1 .. Len(a) /\ Len(wire) + (i - Len(wire)) = i
      <4>1. wire'[i] = a[i - Len(wire)]
        BY <1>4, <3>3
      <4>2. wire'[i].cycle = cycle + 1
        BY <1>12, <3>3, <4>1
      <4>3. i - Len(wire) < j - Len(wire)
        BY <1>1, <1>4
      <4>4. Place(a[i - Len(wire)].type) < Place(a[j - Len(wire)].type)
        BY <1>3, <2>2, <3>3, <4>3 DEF Burst
      <4> QED
        BY <3>1, <4>1, <4>2, <4>4
    <3> QED
      BY <1>6, <3>2, <3>3
  <2> QED
    BY <1>6, <2>1, <2>2
<1>17. IsFiniteSet(hit) /\ hit \subseteq Types
  <2>1. hit \subseteq Types
    BY DEF Damage
  <2> HIDE DEF hit
  <2> QED
    BY <2>1, ImuForwarderAssumption, FS_Subset
<1>18. /\ IsFiniteSet(damaged')
       /\ \A d \in damaged' : \E type \in Types, c \in 1 .. cycle + 1 : d = Slot(type, c)
  <2> HIDE DEF hit
  <2> DEFINE lost == {[type |-> type, cycle |-> cycle + 1] : type \in hit}
             f == [type \in hit |-> [type |-> type, cycle |-> cycle + 1]]
  <2>1. f \in Surjection(hit, lost)
    BY DEF Surjection
  <2>2. IsFiniteSet(lost)
    BY <1>17, <2>1, FS_Surjection
  <2>3. IsFiniteSet(damaged) /\ \A d \in damaged : \E type \in Types, c \in 1 .. cycle : d = Slot(type, c)
    BY DEF DamageTrue
  <2>4. IsFiniteSet(damaged')
    BY <1>1, <2>2, <2>3, FS_Union
  <2>5. ASSUME NEW d \in damaged' PROVE \E type \in Types, c \in 1 .. cycle + 1 : d = Slot(type, c)
    <3>1. CASE d \in damaged
      <4>1. PICK type \in Types, c \in 1 .. cycle : d = Slot(type, c)
        BY <2>3, <3>1
      <4>2. c \in 1 .. cycle + 1
        BY <1>1
      <4> QED
        BY <4>1, <4>2
    <3>2. CASE d \in lost
      <4>1. PICK type \in hit : d = Slot(type, cycle + 1)
        BY <3>2 DEF Slot
      <4>2. cycle + 1 \in 1 .. cycle + 1
        BY <1>1
      <4> QED
        BY <1>17, <4>1, <4>2
    <3> QED
      BY <1>1, <3>1, <3>2
  <2> QED
    BY <2>4, <2>5
<1>19. LineTrue' /\ DamageTrue'
  <2>1. setup' \in Setups /\ cycle' \in Nat /\ IsFiniteSet(damaged') /\ wire' \in Seq(Packets)
    BY <1>1, <1>4, <1>18
  <2>2. \A d \in damaged' : \E type \in Types, c \in 1 .. cycle' : d = Slot(type, c)
    BY <1>1, <1>18
  <2> QED
    BY <1>16, <2>1, <2>2 DEF LineTrue, DamageTrue
<1>20. IsFiniteSet(Rest(wire', 0))
  <2> DEFINE S == 1 .. Len(wire')
             f == [i \in S |-> wire'[i]]
  <2>1. IsFiniteSet(S)
    <3>1. 1 \in Int /\ Len(wire') \in Int
      BY <1>1, <1>4
    <3> QED
      BY <3>1, FS_Interval
  <2>2. f \in Surjection(S, Rest(wire', 0))
    BY <1>7 DEF Surjection
  <2> QED
    BY <2>1, <2>2, FS_Surjection
<1>21. \A x \in Rest(wire', 0) \ Rest(wire, 0) :
         /\ x \in Packets /\ x.cycle = cycle + 1 /\ x.type \in ToSet(setup.burst)
         /\ x.whole <=> SlotOf(x) \notin damaged'
  BY <1>12, <1>15
<1>22. \A type \in Expected :
         \/ Slot(type, cycle + 1) \in damaged'
         \/ \E x \in Rest(wire', 0) \ Rest(wire, 0) : x.type = type /\ x.whole
  BY <1>11, <1>14, <1>15
<1>23. Rest(wire, 0) \subseteq Rest(wire', 0)
  BY <1>8
<1> QED
  BY <1>4, <1>10, <1>19, <1>20, <1>21, <1>22, <1>23

\* A burst changes the order of the packets and what was over by nothing.
LEMMA OrderStays ==
  ASSUME setup' = setup
  PROVE  /\ \A x, y : Before(x, y)' <=> Before(x, y)
         /\ \A x, g, rest : Over(x, g, rest)' <=> Over(x, g, rest)
<1>1. \A x : Place(x)' = Place(x)
  BY DEF Place
<1>2. \A x, y : Before(x, y)' <=> Before(x, y)
  BY <1>1 DEF Before
<1> QED
  BY <1>2 DEF Over

\* A burst keeps the grouping.
LEMMA BurstKeeps ==
  ASSUME LineTrue, DamageTrue, NEW t, NEW damage \in Damage, DeviceBurst(t, damage),
         Listed(readings), Grouped(readings, fwd.pending, Rest(wire, 0))
  PROVE  Grouped(readings, fwd.pending, Rest(wire, 0))'
<1> DEFINE g == fwd.pending
           old == Rest(wire, 0)
           all == Rest(wire', 0)
<1>1. /\ setup \in Setups /\ cycle \in Nat /\ cycle' = cycle + 1 /\ setup' = setup
      /\ readings' = readings /\ fwd' = fwd
  BY DEF DeviceBurst, LineTrue
<1>2. /\ old \subseteq all
      /\ \A x \in all \ old : /\ x \in Packets /\ x.cycle = cycle + 1 /\ x.type \in ToSet(setup.burst)
                              /\ x.whole <=> SlotOf(x) \notin damaged'
      /\ \A type \in Expected :
           \/ Slot(type, cycle + 1) \in damaged'
           \/ \E x \in all \ old : x.type = type /\ x.whole
      /\ damaged \subseteq damaged'
      /\ \A d \in damaged' : d.cycle # cycle + 1 => d \in damaged
      /\ IsFiniteSet(all)
  BY BurstFacts DEF Grouped
<1>3. IsFiniteSet(damaged') /\ \A d \in damaged : d.cycle \in 1 .. cycle
  BY BurstFacts, SlotFacts DEF Grouped, DamageTrue
<1>4. /\ RestTrue(old) /\ GroupTrue(g, old) /\ ReadingsTrue(readings, g, old)
      /\ SlotsKnown(g, old) /\ CleanTrue(readings, g, old) /\ CostsCovered(readings, g, old)
  BY DEF Grouped
<1>5. /\ \A x, y : Before(x, y)' <=> Before(x, y)
      /\ \A x, h, rest : Over(x, h, rest)' <=> Over(x, h, rest)
  BY <1>1, OrderStays
<1>6. Rest(wire, 0)' = all /\ (fwd.pending)' = g
  BY <1>1 DEF Rest
<1>7. \A x : Sent(x) => Sent(x)' /\ x.cycle \in 1 .. cycle
  BY <1>1 DEF Sent
<1>8. \A x \in all \ old : Sent(x)'
  BY <1>1, <1>2 DEF Sent
<1>9. \A x \in g \cup old : x.cycle \in 1 .. cycle
  BY <1>4, <1>7 DEF RestTrue, GroupTrue
<1>10. \A x \in all : x \in old \/ x \in all \ old
  OBVIOUS
<1>11. ASSUME NEW s, s.cycle \in 1 .. cycle, NEW x \in all \ old PROVE Before(s, x)
  <2>1. x.cycle = cycle + 1 /\ s.cycle < x.cycle
    BY <1>1, <1>2, <1>11
  <2> QED
    BY <2>1 DEF Before
<1>12. ASSUME NEW s, s.cycle \in 1 .. cycle PROVE Over(s, g, all) <=> Over(s, g, old)
  BY <1>2, <1>11, <1>12 DEF Over
<1> HIDE DEF all, old, g
<1>13. RestTrue(Rest(wire, 0))'
  <2> SUFFICES ASSUME NEW x \in all
               PROVE  x \in Packets /\ Sent(x)' /\ (x.whole <=> SlotOf(x) \notin damaged')
    BY <1>6 DEF RestTrue
  <2>1. CASE x \in old
    <3>1. x \in Packets /\ Sent(x) /\ (x.whole <=> SlotOf(x) \notin damaged)
      BY <1>4, <2>1 DEF RestTrue
    <3>2. SlotOf(x).cycle \in 1 .. cycle
      BY <1>7, <3>1, SlotFacts
    <3>3. SlotOf(x) \in damaged' <=> SlotOf(x) \in damaged
      BY <1>1, <1>2, <3>2
    <3> QED
      BY <1>7, <3>1, <3>3
  <2>2. CASE x \in all \ old
    BY <1>2, <1>8, <2>2
  <2> QED
    BY <2>1, <2>2
<1>14. GroupTrue(fwd.pending, Rest(wire, 0))'
  <2>1. \A x \in g : x \in Packets /\ Sent(x)' /\ x.type \in Expected /\ x.whole
    BY <1>4, <1>7 DEF GroupTrue
  <2>2. \A x \in g, y \in all : Before(x, y)'
    BY <1>4, <1>5, <1>9, <1>10, <1>11 DEF GroupTrue
  <2>3. /\ \A p, q \in g : p.type = q.type => p = q
        /\ \E type \in Expected : type \notin TypesOf(g)
    BY <1>4 DEF GroupTrue
  <2> QED
    BY <1>6, <2>1, <2>2, <2>3 DEF GroupTrue
<1>15. ReadingsTrue(readings, fwd.pending, Rest(wire, 0))'
  <2>1. \A i \in DOMAIN readings : readings[i].cycles \in [Expected -> 1 .. cycle + 1]
    <3> SUFFICES ASSUME NEW i \in DOMAIN readings PROVE readings[i].cycles \in [Expected -> 1 .. cycle + 1]
      OBVIOUS
    <3>1. readings[i].cycles \in [Expected -> 1 .. cycle]
      BY <1>4 DEF ReadingsTrue
    <3>2. 1 .. cycle \subseteq 1 .. cycle + 1
      BY <1>1
    <3> QED
      BY <3>1, <3>2
  <2>2. ASSUME NEW i \in DOMAIN readings, NEW x \in g \cup all, x.type \in Expected
        PROVE  readings[i].cycles[x.type] < x.cycle
    <3>1. CASE x \in g \cup old
      BY <1>4, <2>2, <3>1 DEF ReadingsTrue
    <3>2. CASE x \in all \ old
      <4>1. readings[i].cycles[x.type] \in 1 .. cycle
        BY <1>4, <2>2 DEF ReadingsTrue
      <4> QED
        BY <1>1, <1>2, <3>2, <4>1
    <3> QED
      BY <3>1, <3>2
  <2>3. \A i, j \in DOMAIN readings : i < j =>
          \A type \in Expected : readings[i].cycles[type] < readings[j].cycles[type]
    BY <1>4 DEF ReadingsTrue
  <2> QED
    BY <1>1, <1>6, <2>1, <2>2, <2>3 DEF ReadingsTrue
<1>16. SlotsKnown(fwd.pending, Rest(wire, 0))'
  <2> SUFFICES ASSUME NEW type \in Expected, NEW c \in 1 .. cycle + 1
               PROVE  \/ Slot(type, c) \in damaged'
                      \/ \E p \in all : SlotOf(p) = Slot(type, c) /\ p.whole
                      \/ \E p \in g : SlotOf(p) = Slot(type, c)
                      \/ Over(Slot(type, c), g, all)
    BY <1>1, <1>5, <1>6 DEF SlotsKnown
  <2>1. CASE c \in 1 .. cycle
    <3>1. \/ Slot(type, c) \in damaged
          \/ \E p \in old : SlotOf(p) = Slot(type, c) /\ p.whole
          \/ \E p \in g : SlotOf(p) = Slot(type, c)
          \/ Over(Slot(type, c), g, old)
      BY <1>4, <2>1 DEF SlotsKnown
    <3>2. Over(Slot(type, c), g, old) => Over(Slot(type, c), g, all)
      BY <1>12, <2>1, SlotFacts
    <3> QED
      BY <1>2, <3>1, <3>2
  <2>2. CASE c = cycle + 1
    <3>1. CASE Slot(type, cycle + 1) \in damaged'
      BY <2>2, <3>1
    <3>2. CASE \E x \in all \ old : x.type = type /\ x.whole
      <4>1. PICK x \in all \ old : x.type = type /\ x.whole
        BY <3>2
      <4>2. SlotOf(x) = Slot(type, c)
        BY <1>2, <2>2, <4>1, SlotFacts
      <4> QED
        BY <4>1, <4>2
    <3> QED
      BY <1>2, <3>1, <3>2
  <2>3. c \in 1 .. cycle \/ c = cycle + 1
    BY <1>1
  <2> QED
    BY <2>1, <2>2, <2>3
<1>17. CleanTrue(readings, fwd.pending, Rest(wire, 0))'
  <2> SUFFICES ASSUME damaged' = {}
               PROVE  /\ \A i \in DOMAIN readings : \A type \in Expected : readings[i].cycles[type] = i
                      /\ \A p \in g : p.cycle = Len(readings) + 1
                      /\ \A type \in Expected, c \in 1 .. cycle + 1 :
                           Over(Slot(type, c), g, all) => c <= Len(readings)
    BY <1>1, <1>5, <1>6 DEF CleanTrue
  <2>1. damaged = {}
    BY <1>2
  <2>2. ASSUME NEW type \in Expected, NEW c \in 1 .. cycle + 1, Over(Slot(type, c), g, all)
        PROVE  c <= Len(readings)
    <3>1. CASE c \in 1 .. cycle
      <4>1. Over(Slot(type, c), g, old)
        BY <1>12, <2>2, <3>1, SlotFacts
      <4> QED
        BY <1>4, <2>1, <3>1, <4>1 DEF CleanTrue
    <3>2. CASE c = cycle + 1
      <4>1. PICK x \in all \ old : x.type = type
        BY <1>2
      <4>2. Before(Slot(type, c), x) /\ x.type = type /\ x.cycle = c
        BY <1>2, <2>2, <3>2, <4>1 DEF Over
      <4>3. Place(type) \in Nat
        <5>1. type \in ToSet(setup.burst)
          BY <1>1, SetupFacts
        <5> QED
          BY <1>1, <5>1, SetupFacts, PlaceFacts
      <4> QED
        BY <4>2, <4>3, SlotFacts DEF Before
    <3>3. c \in 1 .. cycle \/ c = cycle + 1
      BY <1>1
    <3> QED
      BY <3>1, <3>2, <3>3
  <2> QED
    BY <1>4, <2>1, <2>2 DEF CleanTrue
<1>18. CostsCovered(readings, fwd.pending, Rest(wire, 0))'
  <2> DEFINE Due(type) == {d \in damaged' : d.type = type \/ (d.type \in Expected /\ Over(d, g, all))}
  <2> SUFFICES ASSUME NEW type \in Expected
               PROVE  cycle + 1 <= Len(readings) + (IF type \in TypesOf(g) THEN 1 ELSE 0)
                        + Cardinality(Due(type)) + Cardinality(Waiting(type, all))
    BY <1>1, <1>5, <1>6 DEF CostsCovered, Charged
  <2>1. cycle <= Len(readings) + (IF type \in TypesOf(g) THEN 1 ELSE 0)
                   + Cardinality(Charged(type, g, old)) + Cardinality(Waiting(type, old))
    BY <1>4 DEF CostsCovered
  <2>2. Charged(type, g, old) \subseteq Due(type) /\ Due(type) \subseteq damaged'
    BY <1>2, <1>3, <1>12 DEF Charged
  <2>3. Waiting(type, old) \subseteq Waiting(type, all) /\ Waiting(type, all) \subseteq all
    BY <1>2 DEF Waiting
  <2>4. /\ IsFiniteSet(Due(type)) /\ IsFiniteSet(Waiting(type, all))
    BY <1>2, <1>3, <2>2, <2>3, FS_Subset
  <2>5. /\ Cardinality(Charged(type, g, old)) \in Nat /\ Cardinality(Due(type)) \in Nat
        /\ Cardinality(Waiting(type, old)) \in Nat /\ Cardinality(Waiting(type, all)) \in Nat
        /\ Cardinality(Charged(type, g, old)) <= Cardinality(Due(type))
        /\ Cardinality(Waiting(type, old)) <= Cardinality(Waiting(type, all))
    BY <2>2, <2>3, <2>4, FS_Subset, FS_CardinalityType
  <2>6. Len(readings) \in Nat
    BY ListedFacts
  <2>7. CASE Slot(type, cycle + 1) \in damaged'
    <3>1. Slot(type, cycle + 1) \in Due(type)
      BY <2>7, SlotFacts
    <3>2. Slot(type, cycle + 1) \notin Charged(type, g, old)
      <4>1. Slot(type, cycle + 1) \notin damaged
        BY <1>1, <1>3, SlotFacts
      <4> QED
        BY <4>1 DEF Charged
    <3> HIDE DEF Due
    <3>3. Cardinality(Charged(type, g, old)) + 1 <= Cardinality(Due(type))
      BY <2>2, <2>4, <3>1, <3>2, OneMore
    <3> QED
      BY <1>1, <2>1, <2>5, <2>6, <3>3
  <2>8. CASE \E x \in all \ old : x.type = type /\ x.whole
    <3>1. PICK x \in all \ old : x.type = type /\ x.whole
      BY <2>8
    <3>2. x \in Waiting(type, all) /\ x \notin Waiting(type, old)
      BY <3>1 DEF Waiting
    <3>3. Cardinality(Waiting(type, old)) + 1 <= Cardinality(Waiting(type, all))
      BY <2>3, <2>4, <3>2, OneMore
    <3> HIDE DEF Due
    <3> QED
      BY <1>1, <2>1, <2>5, <2>6, <3>3
  <2> QED
    BY <1>2, <2>7, <2>8
<1> QED
  BY <1>13, <1>14, <1>15, <1>16, <1>17, <1>18 DEF Grouped

\* The health check leaves the group alone.
LEMMA CheckHealthKeeps ==
  ASSUME NEW f, IsForwarder(f), NEW t, CheckHealth(f, t)
  PROVE  /\ fwd'.pending = f.pending /\ fwd'.firstArrival = f.firstArrival
         /\ IsForwarder(fwd')
<1>1. \/ fwd' = [f EXCEPT !.lastHealth = t, !.sinceHealth = 0]
      \/ fwd' = [f EXCEPT !.lastHealth = IF f.lastHealth = None THEN t ELSE f.lastHealth]
  BY DEF CheckHealth
<1> DEFINE last == IF f.lastHealth = None THEN t ELSE f.lastHealth
<1>2. CASE fwd' = [f EXCEPT !.lastHealth = t, !.sinceHealth = 0]
  BY <1>2 DEF IsForwarder
<1>3. CASE fwd' = [f EXCEPT !.lastHealth = last]
  <2> HIDE DEF last
  <2> QED
    BY <1>3 DEF IsForwarder
<1> QED
  BY <1>1, <1>2, <1>3

\* The group has a first arrival exactly when it has a packet.
ArrivalTrue == (fwd.firstArrival = None) <=> (fwd.pending = {})

GroupInv ==
  /\ LineTrue /\ DamageTrue
  /\ IsForwarder(fwd) /\ ArrivalTrue
  /\ Listed(readings)
  /\ Grouped(readings, fwd.pending, Rest(wire, 0))

\* What a read takes off the wire, the forwarder is fed.
TakenOff(chunk) ==
  /\ Len(chunk) \in Nat /\ Len(chunk) <= Len(wire)
  /\ \A i \in 1 .. Len(chunk) : chunk[i] = wire[i]
  /\ wire' \in Seq(Packets) /\ Len(wire') = Len(wire) - Len(chunk)
  /\ \A i \in 1 .. Len(wire') : wire'[i] = wire[Len(chunk) + i]

\* A read keeps the grouping.
LEMMA ReadKeeps ==
  ASSUME GroupInv, NEW chunk, NEW t \in Int, Handle(chunk, t), TakenOff(chunk),
         UNCHANGED <<setup, cycle, damaged>>
  PROVE  GroupInv'
<1> DEFINE done == FeedChunk(chunk, t)
           rs == readings \o done.out
           g == done.fwd.pending
           rest == Rest(wire, Len(chunk))
<1>1. /\ setup' = setup /\ cycle' = cycle /\ damaged' = damaged
      /\ readings' = rs /\ CheckHealth(done.fwd, t)
  BY DEF Handle
<1>2. Fed([fwd |-> fwd, out |-> << >>], Rest(wire, 0))
  <2>1. Listed(<< >>) /\ readings \o << >> = readings
    <3>1. readings \in Seq(ToSet(readings))
      BY DEF GroupInv, Listed
    <3> QED
      BY <3>1 DEF Listed
  <2> DEFINE start == [fwd |-> fwd, out |-> << >>]
  <2>2. start.fwd = fwd /\ start.out = << >> /\ IsFed(start)
    BY DEF IsFed, GroupInv
  <2> HIDE DEF start
  <2>3. Fed(start, Rest(wire, 0))
    BY <2>1, <2>2 DEF Fed, GroupInv, ArrivalTrue
  <2> QED
    BY <2>3 DEF start
<1>3. Fed(done, rest)
  BY <1>2, ChunkKeeps DEF GroupInv, TakenOff
<1> HIDE DEF done
<1>4. /\ IsForwarder(done.fwd) /\ Listed(done.out) /\ Listed(readings)
      /\ done.fwd.firstArrival = None <=> g = {}
      /\ Grouped(rs, g, rest)
  BY <1>3 DEF Fed, IsFed, GroupInv
<1>5. fwd'.pending = g /\ fwd'.firstArrival = done.fwd.firstArrival /\ IsForwarder(fwd')
  BY <1>1, <1>4, CheckHealthKeeps
<1>6. Listed(rs)
  BY <1>4, ListedConcat
<1>7. Len(wire) \in Nat /\ Len(wire') \in Nat /\ Len(chunk) \in Nat /\ wire' \in Seq(Packets)
  BY LenProperties DEF GroupInv, LineTrue, TakenOff
<1>8. /\ Len(wire') = Len(wire) - Len(chunk)
      /\ \A i \in 1 .. Len(wire') : wire'[i] = wire[Len(chunk) + i] /\ Len(chunk) + i \in 1 .. Len(wire)
  BY <1>7 DEF TakenOff
<1>9. Rest(wire', 0) = rest
  <2>1. \A i \in Len(chunk) + 1 .. Len(wire) :
          i - Len(chunk) \in 1 .. Len(wire') /\ Len(chunk) + (i - Len(chunk)) = i
    BY <1>7, <1>8
  <2>2. Rest(wire', 0) = {wire'[i] : i \in 1 .. Len(wire')}
    BY DEF Rest
  <2>3. ASSUME NEW x \in Rest(wire', 0) PROVE x \in rest
    <3>1. PICK i \in 1 .. Len(wire') : x = wire'[i]
      BY <2>2
    <3>2. x = wire[Len(chunk) + i] /\ Len(chunk) + i \in Len(chunk) + 1 .. Len(wire)
      BY <1>7, <1>8, <3>1
    <3> QED
      BY <3>2 DEF Rest
  <2>4. ASSUME NEW x \in rest PROVE x \in Rest(wire', 0)
    <3>1. PICK i \in Len(chunk) + 1 .. Len(wire) : x = wire[i]
      BY DEF Rest
    <3>2. x = wire'[i - Len(chunk)] /\ i - Len(chunk) \in 1 .. Len(wire')
      BY <1>8, <2>1, <3>1
    <3> QED
      BY <2>2, <3>2
  <2> QED
    BY <2>3, <2>4
<1>10. /\ \A x, y : Before(x, y)' <=> Before(x, y)
       /\ \A x, h, q : Over(x, h, q)' <=> Over(x, h, q)
  BY <1>1, OrderStays
<1>11. \A x : Sent(x)' <=> Sent(x)
  BY <1>1 DEF Sent
<1>12. Rest(wire, 0)' = rest /\ (fwd.pending)' = g
  BY <1>5, <1>9
<1>13. LineTrue' /\ DamageTrue'
  <2>1. ASSUME NEW i \in 1 .. Len(wire'), NEW j \in 1 .. Len(wire'), i < j
        PROVE  Before(wire'[i], wire'[j])
    <3>1. /\ wire'[i] = wire[Len(chunk) + i] /\ wire'[j] = wire[Len(chunk) + j]
          /\ Len(chunk) + i \in 1 .. Len(wire) /\ Len(chunk) + j \in 1 .. Len(wire)
          /\ Len(chunk) + i < Len(chunk) + j
      BY <1>7, <1>8, <2>1
    <3>2. Before(wire[Len(chunk) + i], wire[Len(chunk) + j])
      BY <3>1 DEF GroupInv, LineTrue, InOrderSent
    <3> QED
      BY <3>1, <3>2
  <2>2. InOrderSent'
    BY <1>1, <2>1 DEF InOrderSent, Before, Place
  <2>3. setup' \in Setups /\ cycle' \in Nat /\ IsFiniteSet(damaged')
    BY <1>1 DEF GroupInv, LineTrue
  <2> QED
    BY <1>1, <1>7, <2>2, <2>3 DEF LineTrue, DamageTrue, GroupInv
<1>14. /\ RestTrue(rest) /\ GroupTrue(g, rest) /\ ReadingsTrue(rs, g, rest)
       /\ SlotsKnown(g, rest) /\ CleanTrue(rs, g, rest) /\ CostsCovered(rs, g, rest)
  BY <1>4 DEF Grouped
<1> HIDE DEF rs, g, rest
<1>15. RestTrue(Rest(wire, 0))'
  BY <1>1, <1>11, <1>12, <1>14 DEF RestTrue
<1>16. GroupTrue(fwd.pending, Rest(wire, 0))'
  BY <1>10, <1>11, <1>12, <1>14 DEF GroupTrue
<1>17. ReadingsTrue(readings, fwd.pending, Rest(wire, 0))'
  BY <1>1, <1>12, <1>14 DEF ReadingsTrue
<1>18. SlotsKnown(fwd.pending, Rest(wire, 0))'
  BY <1>1, <1>10, <1>12, <1>14 DEF SlotsKnown
<1>19. CleanTrue(readings, fwd.pending, Rest(wire, 0))'
  BY <1>1, <1>10, <1>12, <1>14 DEF CleanTrue
<1>20. CostsCovered(readings, fwd.pending, Rest(wire, 0))'
  BY <1>1, <1>10, <1>12, <1>14 DEF CostsCovered, Charged
<1>21. Grouped(readings, fwd.pending, Rest(wire, 0))'
  BY <1>15, <1>16, <1>17, <1>18, <1>19, <1>20 DEF Grouped
<1>22. IsForwarder(fwd)' /\ ArrivalTrue' /\ Listed(readings)'
  <2>1. Listed(readings)'
    BY <1>1, <1>6
  <2>2. IsForwarder(fwd)'
    BY <1>5
  <2>3. ArrivalTrue'
    BY <1>4, <1>5 DEF ArrivalTrue
  <2> QED
    BY <2>1, <2>2, <2>3
<1> QED
  BY <1>13, <1>21, <1>22 DEF GroupInv

\* The inductive invariant of the forwarder.
ForwarderInv ==
  /\ GroupInv
  /\ cycle \in 0 .. MaxCycle
  /\ bursts \in 0 .. setup.maxDamaged
  /\ now \in Nat /\ readStart \in Nat

LEMMA ForwarderInit ==
  ASSUME Init
  PROVE  ForwarderInv
<1>1. /\ setup \in Setups /\ cycle = 0 /\ damaged = {} /\ bursts = 0 /\ now = 0
      /\ wire = << >> /\ readStart = 0 /\ readings = << >>
      /\ fwd.pending = {} /\ fwd.firstArrival = None /\ IsForwarder(fwd)
  BY DEF Init, IsForwarder
<1>2. /\ Len(wire) = 0 /\ Rest(wire, 0) = {} /\ DOMAIN readings = {} /\ Len(readings) = 0
      /\ 1 .. cycle = {}
  BY <1>1 DEF Rest
<1>3. LineTrue /\ DamageTrue
  <2>1. IsFiniteSet(damaged) /\ wire \in Seq(Packets)
    BY <1>1, FS_EmptySet
  <2> QED
    BY <1>1, <1>2, <2>1 DEF LineTrue, DamageTrue, InOrderSent
<1>4. Listed(readings)
  BY <1>1 DEF Listed
<1>5. Grouped(readings, {}, {})
  <2>1. RestTrue({}) /\ GroupTrue({}, {}) /\ ReadingsTrue(readings, {}, {})
    BY <1>2, ImuForwarderAssumption DEF RestTrue, GroupTrue, ReadingsTrue, TypesOf
  <2>2. SlotsKnown({}, {}) /\ CleanTrue(readings, {}, {})
    BY <1>2 DEF SlotsKnown, CleanTrue
  <2>3. CostsCovered(readings, {}, {})
    <3> SUFFICES ASSUME NEW type \in Expected
                 PROVE  cycle <= Len(readings) + (IF type \in TypesOf({}) THEN 1 ELSE 0)
                          + Cardinality(Charged(type, {}, {})) + Cardinality(Waiting(type, {}))
      BY DEF CostsCovered
    <3>1. Charged(type, {}, {}) = {} /\ Waiting(type, {}) = {} /\ TypesOf({}) = {}
      BY <1>1 DEF Charged, Waiting, TypesOf
    <3>2. Cardinality(Charged(type, {}, {})) = 0 /\ Cardinality(Waiting(type, {})) = 0
      BY <3>1, FS_EmptySet
    <3>3. (IF type \in TypesOf({}) THEN 1 ELSE 0) = 0
      BY <3>1
    <3> QED
      BY <1>1, <1>2, <3>2, <3>3
  <2> QED
    BY <2>1, <2>2, <2>3 DEF Grouped
<1>6. bursts \in 0 .. setup.maxDamaged
  BY <1>1, SetupFacts
<1>7. GroupInv
  <2>1. Grouped(readings, fwd.pending, Rest(wire, 0)) /\ ArrivalTrue
    BY <1>1, <1>2, <1>5 DEF ArrivalTrue
  <2> QED
    BY <1>1, <1>3, <1>4, <2>1 DEF GroupInv
<1> QED
  BY <1>1, <1>6, <1>7, ImuForwarderAssumption DEF ForwarderInv

LEMMA ForwarderStep ==
  ASSUME ForwarderInv, [Next]_vars
  PROVE  ForwarderInv'
<1>1. /\ setup \in Setups /\ cycle \in 0 .. MaxCycle /\ cycle \in Nat /\ MaxCycle \in Nat
      /\ bursts \in 0 .. setup.maxDamaged /\ now \in Nat /\ readStart \in Nat
      /\ wire \in Seq(Packets) /\ Len(wire) \in Nat
      /\ setup.maxDamaged \in Nat /\ setup.readSize \in Nat \ {0} /\ setup.readTimeout \in Nat \ {0}
      /\ setup.delays \subseteq Nat /\ setup.damages \subseteq Damage
      /\ NominalPeriod \in Nat
  <2>1. setup \in Setups /\ wire \in Seq(Packets) /\ cycle \in Nat
    BY DEF ForwarderInv, GroupInv, LineTrue
  <2> QED
    BY <2>1, SetupFacts, LenProperties, ImuForwarderAssumption, UniformTimebaseAssumption DEF ForwarderInv
<1>2. ASSUME NEW t \in BurstTimes, NEW damage \in setup.damages, DeviceBurst(t, damage)
      PROVE  ForwarderInv'
  <2>1. /\ setup' = setup /\ cycle < MaxCycle /\ cycle' = cycle + 1 /\ now' = t
        /\ readStart' = readStart /\ fwd' = fwd /\ readings' = readings
        /\ bursts' = bursts \/ bursts' = bursts + 1
        /\ bursts' <= setup.maxDamaged
    BY <1>2 DEF DeviceBurst
  <2>2. t \in Nat
    <3>1. PICK d \in setup.delays : t = (cycle + 1) * NominalPeriod + d
      BY DEF BurstTimes
    <3>2. d \in Nat /\ (cycle + 1) * NominalPeriod \in Nat
      BY <1>1
    <3> QED
      BY <3>1, <3>2
  <2>3. damage \in Damage
    BY <1>1
  <2>4. Grouped(readings, fwd.pending, Rest(wire, 0))'
    BY <1>2, <2>3, BurstKeeps DEF ForwarderInv, GroupInv
  <2>5. LineTrue' /\ DamageTrue'
    BY <1>2, <2>3, BurstFacts DEF ForwarderInv, GroupInv, Grouped
  <2>6. IsForwarder(fwd)' /\ ArrivalTrue' /\ Listed(readings)'
    BY <2>1 DEF ForwarderInv, GroupInv, ArrivalTrue
  <2>7. GroupInv'
    BY <2>4, <2>5, <2>6 DEF GroupInv
  <2>8. cycle' \in 0 .. MaxCycle /\ bursts' \in 0 .. setup'.maxDamaged /\ now' \in Nat /\ readStart' \in Nat
    BY <1>1, <2>1, <2>2
  <2> QED
    BY <2>7, <2>8 DEF ForwarderInv
<1>3. CASE ReadFull
  <2> DEFINE k == setup.readSize  chunk == SubSeq(wire, 1, k)
  <2>1. /\ k <= Len(wire) /\ k \in Nat \ {0} /\ Handle(chunk, now)
        /\ wire' = SubSeq(wire, k + 1, Len(wire))
        /\ readStart' = now /\ UNCHANGED <<setup, cycle, damaged, bursts, now>>
    BY <1>1, <1>3 DEF ReadFull
  <2>2. /\ Len(chunk) = k /\ \A i \in 1 .. k : chunk[i] = wire[i]
    BY <1>1, <2>1, SubSeqProperties
  <2>3. /\ wire' \in Seq(Packets) /\ Len(wire') = Len(wire) - k
        /\ \A i \in 1 .. Len(wire) - k : wire'[i] = wire[k + i]
    <3>1. \A i \in k + 1 .. Len(wire) : wire[i] \in Packets
      BY <1>1, <2>1, ElementOfSeq
    <3>2. Len(SubSeq(wire, k + 1, Len(wire))) = Len(wire) - k
      BY <1>1, <2>1, SubSeqProperties
    <3>3. SubSeq(wire, k + 1, Len(wire)) \in Seq(Packets)
      BY <1>1, <2>1, <3>1, SubSeqProperties
    <3>4. \A i \in 1 .. Len(wire) - k : SubSeq(wire, k + 1, Len(wire))[i] = wire[k + i]
      BY <1>1, <2>1, SubSeqProperties
    <3> QED
      BY <2>1, <3>2, <3>3, <3>4
  <2> HIDE DEF chunk
  <2>4. TakenOff(chunk)
    BY <2>1, <2>2, <2>3 DEF TakenOff
  <2>5. GroupInv'
    <3>1. now \in Int /\ UNCHANGED <<setup, cycle, damaged>> /\ Handle(chunk, now)
      BY <1>1, <2>1
    <3> QED
      BY <2>4, <3>1, ReadKeeps DEF ForwarderInv
  <2> QED
    BY <1>1, <2>1, <2>5 DEF ForwarderInv
<1>4. CASE ReadTimesOut
  <2>1. /\ Handle(wire, Deadline) /\ wire' = << >>
        /\ readStart' = Deadline /\ now' = Deadline /\ UNCHANGED <<setup, cycle, damaged, bursts>>
    BY <1>4 DEF ReadTimesOut
  <2>2. Deadline \in Nat
    BY <1>1 DEF Deadline
  <2>3. TakenOff(wire)
    <3>1. Len(wire') = 0 /\ wire' \in Seq(Packets) /\ 1 .. Len(wire') = {}
      BY <2>1
    <3> QED
      BY <1>1, <3>1 DEF TakenOff
  <2>4. GroupInv'
    <3>1. Deadline \in Int /\ UNCHANGED <<setup, cycle, damaged>>
      BY <2>1, <2>2
    <3> QED
      BY <2>1, <2>3, <3>1, ReadKeeps DEF ForwarderInv
  <2> QED
    BY <1>1, <2>1, <2>2, <2>4 DEF ForwarderInv
<1>5. CASE UNCHANGED vars
  <2>1. /\ setup' = setup /\ cycle' = cycle /\ damaged' = damaged /\ bursts' = bursts /\ now' = now
        /\ wire' = wire /\ readStart' = readStart /\ fwd' = fwd /\ readings' = readings
    BY <1>5 DEF vars
  <2>2. LineTrue' /\ DamageTrue' /\ ArrivalTrue' /\ IsForwarder(fwd)' /\ Listed(readings)'
    BY <2>1 DEF ForwarderInv, GroupInv, LineTrue, InOrderSent, Before, Place, DamageTrue, ArrivalTrue
  <2>3. Grouped(readings, fwd.pending, Rest(wire, 0))'
    BY <2>1 DEF ForwarderInv, GroupInv, Grouped, RestTrue, GroupTrue, ReadingsTrue, SlotsKnown,
                CleanTrue, CostsCovered, Charged, Over, Before, Place, Sent
  <2> QED
    BY <2>1, <2>2, <2>3 DEF ForwarderInv, GroupInv
<1> QED
  BY <1>2, <1>3, <1>4, <1>5 DEF Next, Stop

LEMMA ForwarderHolds == Spec => []ForwarderInv
<1>1. Init => ForwarderInv
  BY ForwarderInit
<1>2. ForwarderInv /\ [Next]_vars => ForwarderInv'
  BY ForwarderStep
<1> QED
  BY <1>1, <1>2, PTL DEF Spec

(* The forwarder's state has its type: the group under assembly lacks a type   *)
(* of a reading, and it has a first arrival exactly when it has a packet       *)
(* (_pending and _first_arrival of SampleAssembler).                          *)
THEOREM ForwarderTypeCorrect == Spec => []TypeOK
<1>1. ForwarderInv => TypeOK
  <2> SUFFICES ASSUME ForwarderInv PROVE TypeOK
    OBVIOUS
  <2>1. GroupTrue(fwd.pending, Rest(wire, 0))
    BY DEF ForwarderInv, GroupInv, Grouped
  <2>2. fwd.pending \subseteq Packets
    BY <2>1 DEF GroupTrue
  <2>3. Cardinality(fwd.pending) < Cardinality(Expected)
    BY <2>1, GroupCounted DEF GroupTrue
  <2> QED
    BY <2>2, <2>3 DEF TypeOK, ForwarderInv, GroupInv, LineTrue, ArrivalTrue
<1> QED
  BY <1>1, ForwarderHolds, PTL

(* However the reads cut the packets and whatever the line loses, no packet is  *)
(* part of two readings and none overtakes another of its type; and while the  *)
(* line loses nothing, the i-th reading is the device's i-th cycle             *)
(* (SampleAssembler.feed).                                                    *)
THEOREM CyclesWholeCorrect == Spec => []CyclesWhole
<1>1. ForwarderInv => CyclesWhole
  <2> SUFFICES ASSUME ForwarderInv PROVE OneCycleWhenClean /\ PacketsUsedOnce
    BY DEF CyclesWhole
  <2>1. /\ ReadingsTrue(readings, fwd.pending, Rest(wire, 0))
        /\ CleanTrue(readings, fwd.pending, Rest(wire, 0))
    BY DEF ForwarderInv, GroupInv, Grouped
  <2>2. OneCycleWhenClean
    BY <2>1 DEF OneCycleWhenClean, CleanTrue
  <2>3. PacketsUsedOnce
    <3> SUFFICES ASSUME NEW ij \in Pairs, NEW t \in Expected
                 PROVE  readings[ij[1]].cycles[t] < readings[ij[2]].cycles[t]
      BY DEF PacketsUsedOnce
    <3>1. ij[1] \in DOMAIN readings /\ ij[2] \in DOMAIN readings /\ ij[1] < ij[2]
      BY DEF Pairs
    <3> QED
      BY <2>1, <3>1 DEF ReadingsTrue
  <2> QED
    BY <2>2, <2>3
<1> QED
  BY <1>1, ForwarderHolds, PTL

(* Once the port is read empty, the cycles without a reading are no more than   *)
(* the packets the line damaged, the one under assembly apart: a loss never     *)
(* costs a second reading, for any burst order, chunk size and pattern of loss. *)
THEOREM LossCostsOneReadingCorrect == Spec => []LossCostsOneReading
<1>1. ForwarderInv => LossCostsOneReading
  <2> SUFFICES ASSUME ForwarderInv, wire = << >>
               PROVE  cycle <= Len(readings) + Damaged + (IF fwd.pending = {} THEN 0 ELSE 1)
    BY DEF LossCostsOneReading
  <2> DEFINE g == fwd.pending  t == "gyro"
  <2>1. /\ cycle \in Nat /\ Len(readings) \in Nat /\ IsFiniteSet(damaged)
        /\ CostsCovered(readings, g, Rest(wire, 0))
    BY ListedFacts DEF ForwarderInv, GroupInv, LineTrue, Grouped
  <2>2. Rest(wire, 0) = {}
    BY DEF Rest
  <2>3. t \in Expected
    BY ImuForwarderAssumption
  <2>4. cycle <= Len(readings) + (IF t \in TypesOf(g) THEN 1 ELSE 0)
                   + Cardinality(Charged(t, g, {})) + Cardinality(Waiting(t, {}))
    BY <2>1, <2>2, <2>3 DEF CostsCovered
  <2>5. Cardinality(Waiting(t, {})) = 0
    <3>1. Waiting(t, {}) = {}
      BY DEF Waiting
    <3> QED
      BY <3>1, FS_EmptySet
  <2>6. /\ Cardinality(Charged(t, g, {})) \in Nat /\ Damaged \in Nat
        /\ Cardinality(Charged(t, g, {})) <= Damaged
    <3>1. Charged(t, g, {}) \subseteq damaged
      BY DEF Charged
    <3> QED
      BY <2>1, <3>1, FS_Subset, FS_CardinalityType DEF Damaged
  <2>7. t \in TypesOf(g) => g # {}
    BY DEF TypesOf
  <2> HIDE DEF t, g
  <2> QED
    BY <2>1, <2>4, <2>5, <2>6, <2>7 DEF g
<1> QED
  BY <1>1, ForwarderHolds, PTL
-----------------------------------------------------------------------------
(* The time base: what the fit can make of the period, and what a gap counts as. *)

SumOneByOne(f, n, upTo) ==
  /\ upTo[0] = 0
  /\ \A k \in 1 .. n : upTo[k] = upTo[k - 1] + f[k]

LEMMA SumsExist ==
  ASSUME NEW n \in Nat, NEW f, \A k \in 1 .. n : f[k] \in Int
  PROVE  \E g : g \in [0 .. n -> Int] /\ SumOneByOne(f, n, g)
<1> DEFINE T == {m \in 0 .. n : \E g : g \in [0 .. m -> Int] /\ SumOneByOne(f, m, g)}
<1>1. 0 \in T
  <2> DEFINE g == [k \in 0 .. 0 |-> 0]
  <2>1. g \in [0 .. 0 -> Int] /\ SumOneByOne(f, 0, g)
    BY DEF SumOneByOne
  <2> QED
    BY <2>1
<1>2. ASSUME NEW m \in 1 .. n, m - 1 \in T PROVE m \in T
  <2>1. PICK g : g \in [0 .. m - 1 -> Int] /\ SumOneByOne(f, m - 1, g)
    BY <1>2
  <2> DEFINE h == [k \in 0 .. m |-> IF k = m THEN g[m - 1] + f[m] ELSE g[k]]
  <2>2. h \in [0 .. m -> Int]
    <3>1. g[m - 1] \in Int /\ f[m] \in Int
      BY <2>1
    <3>2. \A k \in 0 .. m : k # m => k \in 0 .. m - 1
      OBVIOUS
    <3> QED
      BY <2>1, <3>1, <3>2
  <2>3. h[0] = 0
    BY <2>1 DEF SumOneByOne
  <2>4. ASSUME NEW k \in 1 .. m PROVE h[k] = h[k - 1] + f[k]
    <3>1. k - 1 \in 0 .. m /\ k - 1 # m /\ h[k - 1] = g[k - 1]
      OBVIOUS
    <3>2. CASE k = m
      BY <3>1, <3>2
    <3>3. CASE k # m
      <4>1. k \in 1 .. m - 1 /\ h[k] = g[k]
        BY <3>3
      <4>2. g[k] = g[k - 1] + f[k]
        BY <2>1, <4>1 DEF SumOneByOne
      <4> QED
        BY <3>1, <4>1, <4>2
    <3> QED
      BY <3>2, <3>3
  <2>5. SumOneByOne(f, m, h)
    <3> HIDE DEF h
    <3> QED
      BY <2>3, <2>4 DEF SumOneByOne
  <2>6. m \in 0 .. n
    OBVIOUS
  <2> HIDE DEF h
  <2> QED
    BY <2>2, <2>5, <2>6
<1>3. T = 0 .. n
  <2> HIDE DEF T
  <2>1. T \subseteq 0 .. n
    BY DEF T
  <2> QED
    BY <1>1, <1>2, <2>1, UpTo
<1>4. n \in T
  BY <1>3
<1> QED
  BY <1>4

\* The sum of integers is one.
LEMMA SumIsInt ==
  ASSUME NEW n \in Nat, NEW f, \A k \in 1 .. n : f[k] \in Int
  PROVE  Sum(f, n) \in Int
<1> DEFINE NextOf(g) == [k \in 0 .. n |-> IF k = 0 THEN 0 ELSE g[k - 1] + f[k]]
           upTo == CHOOSE g : g = NextOf(g)
<1>1. \E g : g = NextOf(g)
  <2>1. PICK g : g \in [0 .. n -> Int] /\ SumOneByOne(f, n, g)
    BY SumsExist
  <2>2. ASSUME NEW k \in 0 .. n PROVE g[k] = NextOf(g)[k]
    <3>1. CASE k = 0
      BY <2>1, <3>1 DEF SumOneByOne
    <3>2. CASE k # 0
      <4>1. k \in 1 .. n
        BY <3>2
      <4> QED
        BY <2>1, <3>2, <4>1 DEF SumOneByOne
    <3> QED
      BY <3>1, <3>2
  <2>3. NextOf(g) = [k \in 0 .. n |-> NextOf(g)[k]]
    OBVIOUS
  <2>4. g = NextOf(g)
    <3> HIDE DEF NextOf
    <3>1. [k \in 0 .. n |-> g[k]] = [k \in 0 .. n |-> NextOf(g)[k]]
      BY <2>2
    <3> QED
      BY <2>1, <2>3, <3>1
  <2> QED
    BY <2>4
<1>2. upTo = NextOf(upTo)
  <2> HIDE DEF NextOf
  <2> QED
    BY <1>1
<1>3. Sum(f, n) = upTo[n]
  BY DEF Sum
<1> HIDE DEF upTo
<1>4. \A k \in 0 .. n : upTo[k] = IF k = 0 THEN 0 ELSE upTo[k - 1] + f[k]
  <2>1. \A k \in 0 .. n : NextOf(upTo)[k] = IF k = 0 THEN 0 ELSE upTo[k - 1] + f[k]
    OBVIOUS
  <2> HIDE DEF NextOf
  <2> QED
    BY <1>2, <2>1
<1> DEFINE T == {m \in 0 .. n : upTo[m] \in Int}
<1>5. 0 \in T
  BY <1>4
<1>6. ASSUME NEW m \in 1 .. n, m - 1 \in T PROVE m \in T
  <2>1. m \in 0 .. n /\ m # 0 /\ upTo[m - 1] \in Int /\ f[m] \in Int
    BY <1>6
  <2>2. upTo[m] = upTo[m - 1] + f[m]
    BY <1>4, <2>1
  <2> QED
    BY <2>1, <2>2
<1>7. T = 0 .. n
  <2> HIDE DEF T
  <2>1. T \subseteq 0 .. n
    BY DEF T
  <2> QED
    BY <1>5, <1>6, <2>1, UpTo
<1> QED
  BY <1>3, <1>7

\* A period within a twentieth of the nominal one.
Clamped(p) ==
  /\ p[1] \in Int /\ p[2] \in Nat \ {0}
  /\ 19 * NominalPeriod * p[2] <= 20 * p[1]
  /\ 20 * p[1] <= 21 * NominalPeriod * p[2]

Timed(samples) ==
  samples \in Seq([index : Int, arrival : Int])

\* Whatever the samples, the fitted period is within the band.
LEMMA FitIsClamped ==
  ASSUME NEW samples, Timed(samples), NEW period, Clamped(period)
  PROVE  Clamped(FittedPeriod(samples, period))
<1> DEFINE n     == Len(samples)
           sumI  == Sum([k \in 1 .. n |-> samples[k].index], n)
           sumT  == Sum([k \in 1 .. n |-> samples[k].arrival], n)
           sumIT == Sum([k \in 1 .. n |-> samples[k].index * samples[k].arrival], n)
           sumII == Sum([k \in 1 .. n |-> samples[k].index * samples[k].index], n)
           slope == << n * sumIT - sumI * sumT, n * sumII - sumI * sumI >>
<1>1. n \in Nat /\ \A k \in 1 .. n : samples[k].index \in Int /\ samples[k].arrival \in Int
  <2>1. n \in Nat /\ \A k \in 1 .. n : samples[k] \in [index : Int, arrival : Int]
    BY LenProperties, ElementOfSeq DEF Timed
  <2> QED
    BY <2>1
<1>2. \A k \in 1 .. n : samples[k].index * samples[k].arrival \in Int
                        /\ samples[k].index * samples[k].index \in Int
  BY <1>1
<1>3. sumI \in Int /\ sumT \in Int /\ sumIT \in Int /\ sumII \in Int
  <2>1. sumI \in Int
    <3> DEFINE f == [k \in 1 .. n |-> samples[k].index]
    <3>1. \A k \in 1 .. n : f[k] \in Int
      BY <1>1
    <3> HIDE DEF f
    <3>2. Sum(f, n) \in Int
      BY <1>1, <3>1, SumIsInt
    <3> QED
      BY <3>2 DEF f
  <2>2. sumT \in Int
    <3> DEFINE f == [k \in 1 .. n |-> samples[k].arrival]
    <3>1. \A k \in 1 .. n : f[k] \in Int
      BY <1>1
    <3> HIDE DEF f
    <3>2. Sum(f, n) \in Int
      BY <1>1, <3>1, SumIsInt
    <3> QED
      BY <3>2 DEF f
  <2>3. sumIT \in Int
    <3> DEFINE f == [k \in 1 .. n |-> samples[k].index * samples[k].arrival]
    <3>1. \A k \in 1 .. n : f[k] \in Int
      BY <1>2
    <3> HIDE DEF f
    <3>2. Sum(f, n) \in Int
      BY <1>1, <3>1, SumIsInt
    <3> QED
      BY <3>2 DEF f
  <2>4. sumII \in Int
    <3> DEFINE f == [k \in 1 .. n |-> samples[k].index * samples[k].index]
    <3>1. \A k \in 1 .. n : f[k] \in Int
      BY <1>2
    <3> HIDE DEF f
    <3>2. Sum(f, n) \in Int
      BY <1>1, <3>1, SumIsInt
    <3> QED
      BY <3>2 DEF f
  <2> QED
    BY <2>1, <2>2, <2>3, <2>4
<1>4. NominalPeriod \in Nat \ {0}
  BY UniformTimebaseAssumption
<1>5. FittedPeriod(samples, period) =
        IF n < 2 \/ slope[2] <= 0 THEN period
        ELSE IF Lower(slope, LowPeriod) THEN LowPeriod
        ELSE IF Lower(HighPeriod, slope) THEN HighPeriod
        ELSE slope
  BY DEF FittedPeriod
<1>6. slope[1] \in Int /\ slope[2] \in Int
  <2>1. /\ n * sumIT \in Int /\ sumI * sumT \in Int
        /\ n * sumII \in Int /\ sumI * sumI \in Int
    BY <1>1, <1>3
  <2> HIDE DEF n, sumI, sumT, sumIT, sumII
  <2> QED
    BY <2>1
<1> HIDE DEF n, slope
<1>7. Clamped(LowPeriod) /\ Clamped(HighPeriod)
  BY <1>4 DEF Clamped, LowPeriod, HighPeriod
<1>8. ASSUME slope[2] > 0, ~ Lower(slope, LowPeriod), ~ Lower(HighPeriod, slope)
      PROVE  Clamped(slope)
  <2>1. ~ (slope[1] * 20 < 19 * NominalPeriod * slope[2])
    BY <1>8 DEF Lower, LowPeriod
  <2>2. ~ (21 * NominalPeriod * slope[2] < slope[1] * 20)
    BY <1>8 DEF Lower, HighPeriod
  <2>3. 19 * NominalPeriod * slope[2] \in Int /\ 21 * NominalPeriod * slope[2] \in Int
    BY <1>4, <1>6
  <2> QED
    BY <1>6, <1>8, <2>1, <2>2, <2>3 DEF Clamped
<1> QED
  BY <1>5, <1>6, <1>7, <1>8

\* Multiplying by a positive number keeps the order.
LEMMA Scaled ==
  ASSUME NEW a \in Int, NEW b \in Int, NEW c \in Nat
  PROVE  /\ a <= b => a * c <= b * c
         /\ a < b /\ c > 0 => a * c < b * c
OBVIOUS

\* The quotient of a number between two multiples of the divisor.
LEMMA QuotientIs ==
  ASSUME NEW x \in Int, NEW m \in Nat \ {0}, NEW k \in Int, k * m <= x, x < (k + 1) * m
  PROVE  x \div m = k /\ x % m = x - k * m
<1> DEFINE q == x \div m  r == x % m
<1>1. q \in Int /\ r \in 0 .. m - 1 /\ x = m * q + r
  OBVIOUS
<1> HIDE DEF q, r
<1>2. CASE q <= k - 1
  <2>1. m * q <= m * (k - 1)
    BY <1>1, <1>2, Scaled
  <2>2. m * (k - 1) = k * m - m
    OBVIOUS
  <2>3. m * q \in Int /\ k * m \in Int
    BY <1>1
  <2> QED
    BY <1>1, <2>1, <2>2, <2>3
<1>3. CASE q >= k + 1
  <2>1. (k + 1) * m <= q * m
    BY <1>1, <1>3, Scaled
  <2>2. q * m = m * q /\ m * q \in Int /\ (k + 1) * m \in Int
    BY <1>1
  <2> QED
    BY <1>1, <2>1, <2>2
<1>4. q = k
  BY <1>1, <1>2, <1>3
<1>5. m * k = k * m /\ k * m \in Int
  OBVIOUS
<1>6. r = x - k * m
  BY <1>1, <1>4, <1>5
<1> QED
  BY <1>4, <1>6 DEF q, r

\* The nearest integer, when one is nearest.
LEMMA RoundedIs ==
  ASSUME NEW a \in Int, NEW b \in Nat \ {0}, NEW k \in Nat,
         (2 * k - 1) * b < 2 * a, 2 * a < (2 * k + 1) * b
  PROVE  Rounded(<<a, b>>) = k
<1> DEFINE x == 2 * a + b  m == 2 * b
<1>1. (2 * k - 1) * b = k * (2 * b) - b /\ (2 * k + 1) * b = (k + 1) * (2 * b) - b
  OBVIOUS
<1>2. x \in Int /\ m \in Nat \ {0} /\ k * m < x /\ k * m <= x /\ x < (k + 1) * m /\ k * m \in Int
  <2>1. k * (2 * b) \in Int /\ (k + 1) * (2 * b) \in Int
    OBVIOUS
  <2> QED
    BY <1>1, <2>1
<1> HIDE DEF x, m
<1>3. x \div m = k /\ x % m = x - k * m
  <2>1. k \in Int
    OBVIOUS
  <2> QED
    BY ONLY <1>2, <2>1, QuotientIs, Zenon
<1>4. x % m # 0
  BY <1>2, <1>3
<1>5. Rounded(<<a, b>>) = IF x % m = 0 /\ (x \div m) % 2 = 1 THEN (x \div m) - 1 ELSE x \div m
  BY DEF Rounded, x, m
<1> QED
  BY <1>3, <1>4, <1>5

LEMMA RoundedIsInt ==
  ASSUME NEW a \in Int, NEW b \in Nat \ {0}
  PROVE  Rounded(<<a, b>>) \in Int
<1>1. (2 * a + b) \div (2 * b) \in Int
  OBVIOUS
<1> QED
  BY <1>1 DEF Rounded

\* A gap of k cycles counts as k, whatever period within the band the fit has
\* come to, when it ends within half a cycle of k of the longest and shortest.
LEMMA GapCounted ==
  ASSUME NEW tb, Clamped(tb.period), NEW elapsed \in Int, NEW k \in Nat \ {0},
         2 * elapsed * LowPeriod[2] < (2 * k + 1) * LowPeriod[1],
         k > 1 => (2 * k - 1) * HighPeriod[1] < 2 * elapsed * HighPeriod[2]
  PROVE  Steps(tb, elapsed) = k
<1> DEFINE p1 == tb.period[1]  p2 == tb.period[2]  a == elapsed * p2  N == NominalPeriod
<1>1. /\ p1 \in Int /\ p2 \in Nat \ {0} /\ N \in Nat \ {0}
      /\ 19 * N * p2 <= 20 * p1 /\ 20 * p1 <= 21 * N * p2
  BY UniformTimebaseAssumption DEF Clamped
<1> HIDE DEF p1, p2, N
<1>2. a \in Int /\ 19 * N * p2 > 0 /\ 19 * N * p2 \in Int /\ 21 * N * p2 \in Int
  <2>1. N * p2 \in Nat \ {0} /\ 19 * N * p2 = 19 * (N * p2) /\ 21 * N * p2 = 21 * (N * p2)
    BY <1>1
  <2> QED
    BY <1>1, <2>1
<1>3. p1 \in Nat \ {0}
  BY <1>1, <1>2
<1>4. 2 * a < (2 * k + 1) * p1
  <2>1. 40 * elapsed < (2 * k + 1) * (19 * N)
    BY DEF LowPeriod, N
  <2>2. (40 * elapsed) * p2 < ((2 * k + 1) * (19 * N)) * p2
    BY <1>1, <2>1, Scaled
  <2>3. (40 * elapsed) * p2 = 40 * a /\ ((2 * k + 1) * (19 * N)) * p2 = (19 * N * p2) * (2 * k + 1)
    BY <1>1
  <2>4. (19 * N * p2) * (2 * k + 1) <= (20 * p1) * (2 * k + 1)
    BY <1>1, <1>2, Scaled
  <2>5. (20 * p1) * (2 * k + 1) = 20 * ((2 * k + 1) * p1) /\ (2 * k + 1) * p1 \in Int
    BY <1>1
  <2>6. 40 * a < 20 * ((2 * k + 1) * p1)
    <3>1. (19 * N * p2) * (2 * k + 1) \in Int
      BY <1>2
    <3> HIDE DEF a
    <3> QED
      BY <1>2, <2>2, <2>3, <2>4, <2>5, <3>1
  <2> HIDE DEF a
  <2> QED
    BY <1>2, <2>5, <2>6
<1>5. ASSUME k > 1 PROVE (2 * k - 1) * p1 < 2 * a
  <2>1. (2 * k - 1) * (21 * N) < 40 * elapsed
    BY <1>5 DEF HighPeriod, N
  <2>2. ((2 * k - 1) * (21 * N)) * p2 < (40 * elapsed) * p2
    BY <1>1, <2>1, Scaled
  <2>3. (40 * elapsed) * p2 = 40 * a /\ ((2 * k - 1) * (21 * N)) * p2 = (21 * N * p2) * (2 * k - 1)
    BY <1>1
  <2>4. (20 * p1) * (2 * k - 1) <= (21 * N * p2) * (2 * k - 1)
    BY <1>1, <1>2, Scaled
  <2>5. (20 * p1) * (2 * k - 1) = 20 * ((2 * k - 1) * p1) /\ (2 * k - 1) * p1 \in Int
    BY <1>1
  <2>6. 20 * ((2 * k - 1) * p1) < 40 * a
    <3>1. (21 * N * p2) * (2 * k - 1) \in Int
      BY <1>2
    <3> HIDE DEF a
    <3> QED
      BY <1>2, <2>2, <2>3, <2>4, <2>5, <3>1
  <2> HIDE DEF a
  <2> QED
    BY <1>2, <2>5, <2>6
<1> DEFINE periods == <<a, p1>>
<1>6. Steps(tb, elapsed) = IF 3 * p1 < a * 2
                           THEN IF Rounded(periods) > 1 THEN Rounded(periods) ELSE 1
                           ELSE 1
  BY DEF Steps, Lower, GapThreshold, p1, p2
<1> HIDE DEF a
<1>7. CASE k = 1
  <2>1. ~ (3 * p1 < a * 2)
    BY <1>2, <1>3, <1>4, <1>7
  <2> QED
    BY <1>6, <1>7, <2>1
<1>8. CASE k > 1
  <2>1. Rounded(periods) = k
    BY <1>2, <1>3, <1>4, <1>5, <1>8, RoundedIs
  <2>2. 3 * p1 <= (2 * k - 1) * p1
    BY <1>3, <1>8, Scaled
  <2>3. (2 * k - 1) * p1 \in Int
    BY <1>3
  <2>4. 3 * p1 < a * 2
    BY <1>2, <1>3, <1>5, <1>8, <2>2, <2>3
  <2> HIDE DEF periods
  <2> QED
    BY <1>6, <1>8, <2>1, <2>4
<1> QED
  BY <1>7, <1>8

\* The time base keeps a fit of at least one sample once it has one.
TimebaseTrue(tb) ==
  /\ Timed(tb.samples) /\ Clamped(tb.period) /\ tb.resyncs \in Nat

\* The sample an arrival adds, and the fit it starts or continues.
LEMMA UpdateAdds ==
  ASSUME NEW tb, TimebaseTrue(tb), NEW arrival \in Int
  PROVE  LET next    == Update(tb, arrival)
             last    == tb.samples[Len(tb.samples)]
             newest  == next.samples[Len(next.samples)]
             elapsed == arrival - last.arrival
         IN /\ TimebaseTrue(next)
            /\ next.samples # <<>> /\ newest.arrival = arrival /\ newest.index \in Int
            /\ tb.samples # <<>> =>
                 /\ last \in [index : Int, arrival : Int]
                 /\ next.resyncs \in {tb.resyncs, tb.resyncs + 1}
                 /\ next.resyncs = tb.resyncs =>
                      elapsed <= ResyncThreshold /\ newest.index = last.index + Steps(tb, elapsed)
<1> DEFINE first   == tb.samples = <<>>
           last    == tb.samples[Len(tb.samples)]
           elapsed == arrival - last.arrival
           resync  == ~ first /\ (elapsed > ResyncThreshold \/ elapsed < -ResyncThreshold)
           steps   == Steps(tb, elapsed)
           kept    == IF Len(tb.samples) = Window THEN Tail(tb.samples) ELSE tb.samples
           fresh   == [index |-> 0, arrival |-> arrival]
           added   == [index |-> last.index + steps, arrival |-> arrival]
           samples == IF first \/ resync THEN <<fresh>> ELSE Append(kept, added)
           base    == IF resync THEN <<NominalPeriod, 1>> ELSE tb.period
           next    == Update(tb, arrival)
           Samples == [index : Int, arrival : Int]
<1>1. /\ next.samples = samples
      /\ next.period = FittedPeriod(samples, base)
      /\ next.resyncs = tb.resyncs + (IF resync THEN 1 ELSE 0)
  BY DEF Update, Last
<1>2. tb.samples \in Seq(Samples) /\ Len(tb.samples) \in Nat /\ tb.resyncs \in Nat /\ Clamped(tb.period)
  BY LenProperties DEF TimebaseTrue, Timed
<1>3. Clamped(base)
  BY <1>2, UniformTimebaseAssumption DEF Clamped
<1>4. ASSUME ~ first PROVE last \in Samples /\ elapsed \in Int /\ Len(tb.samples) # 0
  <2>1. Len(tb.samples) \in 1 .. Len(tb.samples)
    BY <1>2, <1>4, EmptySeq
  <2>2. last \in Samples
    BY <1>2, <2>1, ElementOfSeq
  <2> QED
    BY <2>1, <2>2
<1>5. ASSUME ~ first PROVE steps \in Int
  <2> DEFINE p1 == tb.period[1]  p2 == tb.period[2]  rounded == Rounded(<<elapsed * p2, p1>>)
  <2>1. p1 \in Nat \ {0} /\ p2 \in Nat \ {0}
    <3>1. p1 \in Int /\ p2 \in Nat \ {0} /\ NominalPeriod \in Nat \ {0} /\ 19 * NominalPeriod * p2 <= 20 * p1
      BY <1>2, UniformTimebaseAssumption DEF Clamped
    <3> HIDE DEF p1, p2
    <3>2. NominalPeriod * p2 \in Nat \ {0} /\ 19 * NominalPeriod * p2 = 19 * (NominalPeriod * p2)
      BY <3>1
    <3> QED
      BY <3>1, <3>2
  <2>2. elapsed * p2 \in Int
    BY <1>4, <1>5, <2>1
  <2>3. rounded \in Int
    <3> HIDE DEF p1, p2, elapsed
    <3> QED
      BY <2>1, <2>2, RoundedIsInt
  <2>4. steps \in {rounded, 1}
    BY DEF Steps
  <2> HIDE DEF rounded, steps
  <2> QED
    BY <2>3, <2>4
<1>6. kept \in Seq(Samples)
  <2>1. CASE Len(tb.samples) = Window
    <3>1. tb.samples # <<>>
      BY <1>2, <2>1, EmptySeq, UniformTimebaseAssumption
    <3>2. Tail(tb.samples) \in Seq(Samples)
      BY <1>2, <3>1, HeadTailProperties
    <3> QED
      BY <2>1, <3>2
  <2>2. CASE Len(tb.samples) # Window
    BY <1>2, <2>2
  <2> QED
    BY <2>1, <2>2
<1> DEFINE newest == next.samples[Len(next.samples)]
<1> HIDE DEF steps, next, kept
<1>7. /\ samples \in Seq(Samples) /\ samples # <<>>
      /\ samples[Len(samples)] = IF first \/ resync THEN fresh ELSE added
      /\ samples[Len(samples)].index \in Int /\ samples[Len(samples)].arrival = arrival
  <2>1. CASE first \/ resync
    <3>1. samples = <<fresh>> /\ fresh \in Samples
      BY <2>1
    <3>2. /\ <<fresh>> \in Seq(Samples) /\ Len(<<fresh>>) = 1 /\ <<fresh>>[1] = fresh
          /\ <<fresh>> # <<>>
      BY <3>1
    <3> HIDE DEF samples
    <3> QED
      BY <2>1, <3>1, <3>2
  <2>2. CASE ~ (first \/ resync)
    <3>1. samples = Append(kept, added)
      BY <2>2
    <3>2. added \in Samples
      BY <1>4, <1>5, <2>2
    <3> HIDE DEF added, samples
    <3>3. /\ samples \in Seq(Samples) /\ Len(samples) = Len(kept) + 1 /\ Len(kept) \in Nat
          /\ samples[Len(kept) + 1] = added
      BY <1>6, <3>1, <3>2, AppendProperties, LenProperties
    <3>4. samples # <<>>
      BY <3>3, EmptySeq
    <3>5. added.index \in Int /\ added.arrival = arrival
      BY <3>2 DEF added
    <3> QED
      BY <2>2, <3>3, <3>4, <3>5
  <2> QED
    BY <2>1, <2>2
<1>8. TimebaseTrue(next)
  <2>1. Timed(samples)
    BY <1>7 DEF Timed
  <2> HIDE DEF samples, base
  <2>2. Clamped(FittedPeriod(samples, base))
    BY <1>3, <2>1, FitIsClamped
  <2> QED
    BY <1>1, <1>2, <2>1, <2>2 DEF TimebaseTrue
<1>9. next.samples # <<>> /\ newest.arrival = arrival /\ newest.index \in Int
  BY <1>1, <1>7
<1>10. ASSUME ~ first
       PROVE  /\ last \in Samples
              /\ next.resyncs \in {tb.resyncs, tb.resyncs + 1}
              /\ next.resyncs = tb.resyncs =>
                   elapsed <= ResyncThreshold /\ newest.index = last.index + steps
  <2>1. last \in Samples /\ elapsed \in Int /\ ResyncThreshold \in Nat
    BY <1>4, <1>10, UniformTimebaseAssumption
  <2>2. next.resyncs \in {tb.resyncs, tb.resyncs + 1}
    BY <1>1, <1>2
  <2>3. ASSUME next.resyncs = tb.resyncs
        PROVE  elapsed <= ResyncThreshold /\ newest.index = last.index + steps
    <3>1. ~ resync
      BY <1>1, <1>2, <2>3
    <3>2. newest = added
      BY <1>1, <1>7, <1>10, <3>1
    <3>3. added.index = last.index + steps
      OBVIOUS
    <3>4. ~ (elapsed > ResyncThreshold)
      BY <1>10, <3>1
    <3> HIDE DEF added, elapsed, last
    <3> QED
      BY <2>1, <3>2, <3>3, <3>4
  <2> QED
    BY <2>1, <2>2, <2>3
<1> QED
  BY <1>8, <1>9, <1>10 DEF next, steps
-----------------------------------------------------------------------------
(* The health reports. *)

\* The forwarder has its fields.
IsObject(f) ==
  {"pending", "firstArrival", "incomplete", "checksumFailures", "timebase",
   "lastHealth", "sinceHealth"} \subseteq DOMAIN f

IsState(state) == {"fwd", "out"} \subseteq DOMAIN state /\ IsObject(state.fwd)

\* Does packet p complete the group of forwarder f?
Completes(f, p) ==
  /\ p.whole /\ p.type \in Expected
  /\ ~ (Cardinality(GroupWith(f, p)) < Cardinality(Expected))

\* A reading of a group, which the time base tb has just counted.
IsReadingOf(r, group, arrival, tb) ==
  /\ r.cycles = CyclesOf(group) /\ r.receive = arrival
  /\ r.index = tb.samples[Len(tb.samples)].index /\ r.epoch = tb.resyncs

\* What feeding one packet does to the rest of the forwarder.
LEMMA FeedPacketFields ==
  ASSUME NEW state, IsState(state), NEW p, NEW arrival
  PROVE  LET f == state.fwd
             r == FeedPacket(state, p, arrival)
         IN /\ IsState(r) /\ r.fwd.lastHealth = f.lastHealth
            /\ ~ Completes(f, p) =>
                 /\ r.fwd.timebase = f.timebase /\ r.fwd.sinceHealth = f.sinceHealth
                 /\ r.out = state.out
                 /\ r.fwd.pending = IF p.whole /\ p.type \in Expected THEN GroupWith(f, p) ELSE f.pending
            /\ Completes(f, p) =>
                 /\ r.fwd.timebase = Update(f.timebase, arrival)
                 /\ r.fwd.sinceHealth = f.sinceHealth + 1
                 /\ r.fwd.pending = {}
                 /\ \E x : /\ r.out = Append(state.out, x)
                           /\ IsReadingOf(x, GroupWith(f, p), arrival, Update(f.timebase, arrival))
<1> DEFINE f        == state.fwd
           repeated  == \E q \in f.pending : q.type = p.type
           restarted == repeated \/ f.pending = {}
           group     == IF restarted THEN {p} ELSE f.pending \cup {p}
           first     == IF restarted THEN arrival ELSE f.firstArrival
           counted   == [f EXCEPT !.incomplete = IF repeated THEN @ + 1 ELSE @]
           complete  == Complete(counted, group, first, arrival)
           r == FeedPacket(state, p, arrival)
<1>1. group = GroupWith(f, p) /\ (restarted <=> IsRepeated(f, p) \/ f.pending = {})
  BY DEF GroupWith, IsRepeated
<1>2. CASE ~ p.whole
  <2>1. r = [state EXCEPT !.fwd.checksumFailures = @ + 1] /\ ~ Completes(f, p)
    BY <1>2 DEF FeedPacket, Completes
  <2> QED
    BY <1>2, <2>1 DEF IsState, IsObject
<1>3. CASE p.whole /\ p.type \notin Expected
  <2>1. r = state /\ ~ Completes(f, p)
    BY <1>3 DEF FeedPacket, Completes
  <2> QED
    BY <1>3, <2>1
<1>4. /\ IsObject(counted) /\ counted.timebase = f.timebase
      /\ counted.lastHealth = f.lastHealth /\ counted.sinceHealth = f.sinceHealth
  BY DEF IsState, IsObject
<1>5. CASE p.whole /\ p.type \in Expected /\ Cardinality(group) < Cardinality(Expected)
  <2>1. r = [state EXCEPT !.fwd = [counted EXCEPT !.pending = group, !.firstArrival = first]]
    BY <1>5 DEF FeedPacket
  <2>2. ~ Completes(f, p)
    BY <1>1, <1>5 DEF Completes
  <2>3. /\ r.out = state.out /\ DOMAIN r = DOMAIN state
        /\ r.fwd = [counted EXCEPT !.pending = group, !.firstArrival = first]
    BY <2>1 DEF IsState
  <2> HIDE DEF counted, group, first, r
  <2>4. /\ IsObject(r.fwd) /\ r.fwd.timebase = f.timebase /\ r.fwd.pending = group
        /\ r.fwd.lastHealth = f.lastHealth /\ r.fwd.sinceHealth = f.sinceHealth
    BY <1>4, <2>3 DEF IsObject
  <2> QED
    BY <1>1, <1>5, <2>2, <2>3, <2>4 DEF IsState, r
<1>6. CASE p.whole /\ p.type \in Expected /\ ~ (Cardinality(group) < Cardinality(Expected))
  <2> DEFINE reading == Reading(group, complete, first, arrival)
             tb == Update(f.timebase, arrival)
  <2>1. r = [fwd |-> complete, out |-> Append(state.out, reading)]
    BY <1>6 DEF FeedPacket
  <2>2. Completes(f, p)
    BY <1>1, <1>6 DEF Completes
  <2>3. /\ IsObject(complete) /\ complete.pending = {} /\ complete.timebase = tb
        /\ complete.lastHealth = f.lastHealth /\ complete.sinceHealth = f.sinceHealth + 1
    <3> HIDE DEF counted, group, first, r
    <3> QED
      BY <1>4 DEF IsObject, Complete
  <2>4. IsReadingOf(reading, group, arrival, complete.timebase)
    <3> HIDE DEF complete, group, first, r
    <3> QED
      BY DEF Reading, IsReadingOf, CyclesOf, Last
  <2> HIDE DEF complete, group, first, r, reading, tb
  <2>5. r.fwd = complete /\ r.out = Append(state.out, reading) /\ {"fwd", "out"} \subseteq DOMAIN r
    BY <2>1
  <2>6. IsState(r)
    BY <2>3, <2>5 DEF IsState
  <2>7. IsReadingOf(reading, GroupWith(f, p), arrival, tb)
    BY <1>1, <2>3, <2>4
  <2> QED
    BY <2>2, <2>3, <2>5, <2>6, <2>7 DEF r, tb
<1> HIDE DEF r, group, complete, counted, first
<1> QED
  BY <1>2, <1>3, <1>5, <1>6

\* A read counts the readings that come out of it, and only those.
LEMMA ChunkCounted ==
  ASSUME IsObject(fwd), fwd.sinceHealth \in Int, NEW chunk, Len(chunk) \in Nat, NEW arrival
  PROVE  LET done == FeedChunk(chunk, arrival)
         IN /\ IsObject(done.fwd) /\ Listed(done.out)
            /\ done.fwd.lastHealth = fwd.lastHealth
            /\ done.fwd.sinceHealth = fwd.sinceHealth + Len(done.out)
<1> DEFINE N == Len(chunk)
           Good(state) == /\ IsState(state) /\ Listed(state.out)
                          /\ state.fwd.lastHealth = fwd.lastHealth
                          /\ state.fwd.sinceHealth = fwd.sinceHealth + Len(state.out)
<1>1. PICK f : FedOneByOne(N, chunk, arrival, f) /\ FeedChunk(chunk, arrival) = f[N]
  BY FeedChunkIs
<1> DEFINE T == {n \in 0 .. N : Good(f[n])}
<1>2. 0 \in T
  <2>1. f[0] = [fwd |-> fwd, out |-> <<>>]
    BY <1>1 DEF FedOneByOne
  <2>2. Listed(<<>>) /\ Len(<<>>) = 0
    BY DEF Listed
  <2> QED
    BY <2>1, <2>2 DEF IsState
<1>3. ASSUME NEW n \in 1 .. N, n - 1 \in T PROVE n \in T
  <2> DEFINE s == f[n - 1]  p == chunk[n]  r == FeedPacket(s, p, arrival)
  <2>1. Good(s) /\ f[n] = r /\ n \in 0 .. N
    BY <1>1, <1>3 DEF FedOneByOne
  <2>2. Len(s.out) \in Nat
    BY <2>1, ListedFacts
  <2> HIDE DEF s, p
  <2>3. IsState(r) /\ r.fwd.lastHealth = s.fwd.lastHealth
    BY <2>1, FeedPacketFields
  <2>4. CASE Completes(s.fwd, p)
    <3>0. /\ r.fwd.sinceHealth = s.fwd.sinceHealth + 1
          /\ \E x : /\ r.out = Append(s.out, x)
                    /\ IsReadingOf(x, GroupWith(s.fwd, p), arrival, Update(s.fwd.timebase, arrival))
      BY <2>1, <2>4, FeedPacketFields
    <3>1. r.fwd.sinceHealth = s.fwd.sinceHealth + 1 /\ \E x : r.out = Append(s.out, x)
      BY <3>0
    <3> HIDE DEF r
    <3>2. Listed(r.out) /\ Len(r.out) = Len(s.out) + 1
      BY <2>1, <3>1, ListedAppend
    <3>3. /\ s.fwd.lastHealth = fwd.lastHealth
          /\ s.fwd.sinceHealth = fwd.sinceHealth + Len(s.out)
      BY <2>1
    <3>4. r.fwd.sinceHealth = fwd.sinceHealth + Len(r.out)
      BY <2>2, <3>1, <3>2, <3>3
    <3>5. Good(r)
      BY <2>3, <3>2, <3>3, <3>4
    <3> QED
      BY <2>1, <3>5
  <2>5. CASE ~ Completes(s.fwd, p)
    <3>1. r.fwd.sinceHealth = s.fwd.sinceHealth /\ r.out = s.out
      BY <2>1, <2>5, FeedPacketFields
    <3> HIDE DEF r
    <3>2. /\ s.fwd.lastHealth = fwd.lastHealth /\ Listed(s.out)
          /\ s.fwd.sinceHealth = fwd.sinceHealth + Len(s.out)
      BY <2>1
    <3>3. Good(r)
      BY <2>3, <3>1, <3>2
    <3> QED
      BY <2>1, <3>3
  <2> QED
    BY <2>4, <2>5
<1>4. T = 0 .. N
  <2> HIDE DEF T
  <2>1. T \subseteq 0 .. N
    BY DEF T
  <2> QED
    BY <1>2, <1>3, <2>1, UpTo
<1>5. Good(f[N])
  BY <1>4
<1> QED
  BY <1>1, <1>5 DEF IsState

\* A finite set of numbers that is not empty has a greatest.
LEMMA GreatestElement ==
  ASSUME NEW S, S \subseteq Nat, S # {}, IsFiniteSet(S)
  PROVE  \E x \in S : \A y \in S : y <= x
<1>1. PICK n \in Nat : ExistsBijection(1 .. n, S)
  BY FS_NatBijection
<1>2. PICK f \in [1 .. n -> S] : \A y \in S : \E i \in 1 .. n : f[i] = y
  BY <1>1 DEF ExistsBijection, Bijection, Surjection
<1> DEFINE T == {k \in 0 .. n : k = 0 \/ \E x \in S : \A i \in 1 .. k : f[i] <= x}
<1>3. 0 \in T
  OBVIOUS
<1>4. ASSUME NEW k \in 1 .. n, k - 1 \in T PROVE k \in T
  <2>1. f[k] \in S /\ f[k] \in Nat
    BY <1>2
  <2>2. \A i \in 1 .. k : i = k \/ i \in 1 .. k - 1
    OBVIOUS
  <2>3. CASE k - 1 = 0
    <3>1. \A i \in 1 .. k : f[i] <= f[k]
      BY <2>1, <2>3
    <3> QED
      BY <2>1, <3>1
  <2>4. CASE k - 1 # 0
    <3>1. PICK x \in S : \A i \in 1 .. k - 1 : f[i] <= x
      BY <1>4, <2>4
    <3>2. x \in Nat
      BY <3>1
    <3>3. CASE f[k] <= x
      <4>1. \A i \in 1 .. k : f[i] <= x
        BY <2>2, <3>1, <3>3
      <4> QED
        BY <4>1
    <3>4. CASE x < f[k]
      <4>1. ASSUME NEW i \in 1 .. k - 1 PROVE f[i] <= f[k]
        <5>0. i \in 1 .. n
          BY <4>1
        <5>1. f[i] <= x /\ f[i] \in Nat
          BY <1>2, <3>1, <4>1, <5>0
        <5> QED
          BY <2>1, <3>2, <3>4, <5>1
      <4>2. \A i \in 1 .. k : f[i] <= f[k]
        BY <2>1, <2>2, <4>1
      <4> QED
        BY <2>1, <4>2
    <3> QED
      BY <2>1, <3>2, <3>3, <3>4
  <2> QED
    BY <2>3, <2>4
<1>5. n \in T
  <2> HIDE DEF T
  <2>1. T \subseteq 0 .. n
    BY DEF T
  <2>2. T = 0 .. n
    BY <1>3, <1>4, <2>1, UpTo
  <2> QED
    BY <2>2
<1>6. n # 0
  <2>1. PICK y \in S : TRUE
    OBVIOUS
  <2>2. PICK i \in 1 .. n : f[i] = y
    BY <1>2, <2>1
  <2> QED
    BY <2>2
<1>7. PICK x \in S : \A i \in 1 .. n : f[i] <= x
  BY <1>5, <1>6
<1> QED
  BY <1>2, <1>7

\* The earliest and the latest a burst may be.
LEMMA DelayBounds ==
  ASSUME setup \in Setups
  PROVE  /\ Min(setup.delays) \in Nat /\ Max(setup.delays) \in Nat /\ Jitter \in Nat
         /\ \A d \in setup.delays : d \in Nat /\ Min(setup.delays) <= d /\ d <= Max(setup.delays)
<1> DEFINE D == setup.delays
<1>1. D \subseteq Nat /\ D # {} /\ IsFiniteSet(D)
  BY SetupFacts, ImuForwarderAssumption
<1>2. Min(D) \in D /\ \A d \in D : Min(D) <= d
  <2>1. \E x \in D : \A y \in D : x <= y
    BY <1>1, LeastElement
  <2> HIDE DEF D
  <2> QED
    BY <2>1 DEF Min
<1>3. Max(D) \in D /\ \A d \in D : d <= Max(D)
  <2>1. PICK x \in D : \A y \in D : y <= x
    BY <1>1, GreatestElement
  <2> HIDE DEF D
  <2>2. \A y \in D : x >= y
    BY <1>1, <2>1
  <2>3. Max(D) \in D /\ \A d \in D : Max(D) >= d
    BY <2>2 DEF Max
  <2> QED
    BY <1>1, <2>3
<1>4. Min(D) <= Max(D) /\ Min(D) \in Nat /\ Max(D) \in Nat
  BY <1>1, <1>2, <1>3
<1> HIDE DEF D
<1>5. Max(D) - Min(D) \in Nat
  BY <1>4
<1> QED
  BY <1>1, <1>2, <1>3, <1>4, <1>5 DEF Jitter, D

\* The clock is within a cycle and the jitter of what the device has sent.
OnTime(t) ==
  /\ t \in Int /\ t <= (cycle + 1) * NominalPeriod + Max(setup.delays)
  /\ cycle # 0 => cycle * NominalPeriod + Min(setup.delays) <= t

\* The count of readings and the interval of the next report start where the
\* last one ended.
HealthInv ==
  /\ IsObject(fwd)
  /\ OnTime(now) /\ now <= Deadline
  /\ report.upTo \in Int /\ fwd.sinceHealth = Len(readings) - report.upTo
  /\ report.upTo <= Len(readings)
  /\ fwd.lastHealth = None \/ fwd.lastHealth \in Int
  /\ report.cycle \in 0 .. cycle
  /\ report.status # "none" =>
       /\ fwd.lastHealth \in Int
       /\ fwd.lastHealth <= (report.cycle + 1) * NominalPeriod + Max(setup.delays)
  /\ HealthyMeansWhole

LEMMA HealthInit ==
  ASSUME Init
  PROVE  HealthInv
<1>1. /\ setup \in Setups /\ cycle = 0 /\ now = 0 /\ readStart = 0 /\ readings = <<>>
      /\ IsObject(fwd) /\ fwd.sinceHealth = 0 /\ fwd.lastHealth = None
      /\ report = [status |-> "none", upTo |-> 0, cycle |-> 0]
  BY DEF Init, IsObject
<1>2. /\ Max(setup.delays) \in Nat /\ setup.readTimeout \in Nat /\ NominalPeriod \in Nat
  BY <1>1, DelayBounds, SetupFacts, UniformTimebaseAssumption
<1>3. OnTime(now) /\ now <= Deadline
  BY <1>1, <1>2 DEF OnTime, Deadline
<1>4. report.status = "none" /\ report.upTo = 0 /\ report.cycle = 0
  BY <1>1
<1>5. HealthyMeansWhole
  BY <1>4 DEF HealthyMeansWhole
<1> QED
  BY <1>1, <1>3, <1>4, <1>5 DEF HealthInv

\* The arithmetic of a healthy report: P the period, C the cycles of its
\* interval, R its readings, E its length and S the slack at the ends.
LEMMA HealthyArithmetic ==
  ASSUME NEW P \in Nat, NEW C \in Int, NEW R \in Int, NEW E \in Int, NEW S \in Int,
         99 * E <= 100 * R * P, C * P <= E + S
  PROVE  100 * (C - R) * P <= C * P + 99 * S
<1>1. 100 * (C - R) * P = 100 * (C * P) - 100 * (R * P) /\ 100 * R * P = 100 * (R * P)
  OBVIOUS
<1>2. C * P \in Int /\ R * P \in Int
  OBVIOUS
<1> QED
  BY <1>1, <1>2

\* What a healthy status says of the rate.
LEMMA HealthyRate ==
  ASSUME NEW f, NEW elapsed, Status(f, elapsed) = "healthy"
  PROVE  ~ (100 * f.sinceHealth * NominalPeriod < 99 * elapsed)
BY DEF Status, RateBelow

\* A read keeps the health reports true.
LEMMA HandleHealth ==
  ASSUME HealthInv, GroupInv, NEW chunk, Len(chunk) \in Nat, NEW t, Handle(chunk, t), OnTime(t),
         UNCHANGED <<setup, cycle>>
  PROVE  /\ IsObject(fwd')
         /\ (report.upTo \in Int /\ fwd.sinceHealth = Len(readings) - report.upTo)'
         /\ (report.upTo <= Len(readings))'
         /\ (fwd.lastHealth = None \/ fwd.lastHealth \in Int)'
         /\ (report.cycle \in 0 .. cycle)'
         /\ (report.status # "none" =>
               /\ fwd.lastHealth \in Int
               /\ fwd.lastHealth <= (report.cycle + 1) * NominalPeriod + Max(setup.delays))'
         /\ HealthyMeansWhole'
<1> DEFINE done == FeedChunk(chunk, t)  f == done.fwd  out == done.out
<1>1. readings' = readings \o out /\ CheckHealth(f, t) /\ setup' = setup /\ cycle' = cycle
  BY DEF Handle
<1>2. /\ Listed(readings) /\ Len(readings) \in Nat /\ cycle \in Nat /\ setup \in Setups
  BY ListedFacts DEF GroupInv, LineTrue
<1>3. /\ report.upTo \in Int /\ report.upTo <= Len(readings) /\ fwd.sinceHealth = Len(readings) - report.upTo
      /\ fwd.sinceHealth \in Int /\ IsObject(fwd)
      /\ report.cycle \in 0 .. cycle
  BY <1>2 DEF HealthInv
<1>4. /\ IsObject(f) /\ Listed(out) /\ f.lastHealth = fwd.lastHealth
      /\ f.sinceHealth = fwd.sinceHealth + Len(out)
  BY <1>3, ChunkCounted
<1> HIDE DEF done
<1>5. /\ Len(readings') = Len(readings) + Len(out) /\ Len(out) \in Nat /\ Len(readings') \in Nat
      /\ f.sinceHealth = Len(readings') - report.upTo
  <2>1. Len(readings') = Len(readings) + Len(out) /\ Len(out) \in Nat
    BY <1>1, <1>2, <1>4, ListedConcat, ListedFacts
  <2> HIDE DEF f, out
  <2>2. f.sinceHealth = fwd.sinceHealth + Len(out)
    BY <1>4
  <2> QED
    BY <1>2, <1>3, <2>1, <2>2
<1>6. /\ t \in Int /\ t <= (cycle + 1) * NominalPeriod + Max(setup.delays)
      /\ cycle # 0 => cycle * NominalPeriod + Min(setup.delays) <= t
  BY DEF OnTime
<1>7. /\ NominalPeriod \in Nat \ {0} /\ Max(setup.delays) \in Nat /\ Min(setup.delays) \in Nat /\ Jitter \in Nat
  BY <1>2, DelayBounds, UniformTimebaseAssumption
<1>8. None \notin Int
  BY ImuForwarderAssumption
<1> HIDE DEF f, out
<1>9. CASE f.lastHealth # None /\ t - f.lastHealth >= HealthInterval
  <2> DEFINE E == t - f.lastHealth
  <2>1. /\ report' = HealthReport(f, E)
        /\ fwd' = [f EXCEPT !.lastHealth = t, !.sinceHealth = 0]
    BY <1>1, <1>9 DEF CheckHealth
  <2>2. IsObject(fwd') /\ fwd'.lastHealth = t /\ fwd'.sinceHealth = 0
    BY <1>4, <2>1 DEF IsObject
  <2>3. /\ report'.upTo = Len(readings') /\ report'.cycle = cycle /\ report'.status = Status(f, E)
        /\ report'.from = report.upTo
        /\ report'.since = IF report.status = "none" THEN None ELSE report.cycle
    BY <2>1 DEF HealthReport
  <2>4. fwd.lastHealth \in Int /\ E \in Int
    BY <1>4, <1>6, <1>9 DEF HealthInv
  <2>5. ASSUME report'.status = "healthy", report'.since # None
        PROVE  LET cycles  == report'.cycle - report'.since
                   missing == cycles - (report'.upTo - report'.from)
               IN 100 * missing * NominalPeriod
                    <= cycles * NominalPeriod + 99 * (NominalPeriod + Jitter)
    <3> DEFINE C == cycle - report.cycle  R == f.sinceHealth  S == NominalPeriod + Jitter
    <3>1. report.status # "none" /\ report'.since = report.cycle
      BY <2>3, <2>5
    <3>2. C \in Nat /\ R \in Int /\ S \in Nat /\ R = report'.upTo - report'.from
      <4>1. C \in Nat
        BY <1>2, <1>3
      <4>2. R \in Int /\ R = report'.upTo - report'.from
        BY <1>3, <1>5, <2>3
      <4>3. S \in Nat
        BY <1>7
      <4> QED
        BY <4>1, <4>2, <4>3
    <3>3. 99 * E <= 100 * R * NominalPeriod
      <4>1. ~ (100 * R * NominalPeriod < 99 * E)
        BY <2>3, <2>5, HealthyRate
      <4>2. 100 * R * NominalPeriod \in Int
        BY <1>7, <3>2
      <4> HIDE DEF E, R
      <4> QED
        BY <2>4, <4>1, <4>2
    <3>4. CASE cycle # 0
      <4>1. f.lastHealth <= (report.cycle + 1) * NominalPeriod + Max(setup.delays)
        BY <1>4, <3>1 DEF HealthInv
      <4>2. (report.cycle + 1) * NominalPeriod = report.cycle * NominalPeriod + NominalPeriod
            /\ C * NominalPeriod = cycle * NominalPeriod - report.cycle * NominalPeriod
            /\ report.cycle * NominalPeriod \in Int /\ cycle * NominalPeriod \in Int
        BY <1>2, <1>3, <1>7
      <4>3. C * NominalPeriod <= E + S
        <5> DEFINE c == cycle * NominalPeriod  r == report.cycle * NominalPeriod
                   hi == Max(setup.delays)  lo == Min(setup.delays)  last == f.lastHealth
        <5>1. /\ c \in Int /\ r \in Int /\ hi \in Int /\ lo \in Int /\ last \in Int /\ t \in Int
              /\ C * NominalPeriod = c - r /\ NominalPeriod \in Int
          BY <1>4, <1>6, <1>7, <2>4, <4>2
        <5>2. c + lo <= t /\ last <= r + NominalPeriod + hi
          BY <1>6, <3>4, <4>1, <4>2
        <5>3. E = t - last /\ S = NominalPeriod + (hi - lo)
          BY DEF Jitter
        <5> HIDE DEF c, r, hi, lo, last, E, S
        <5> QED
          BY <5>1, <5>2, <5>3
      <4>4. 100 * (C - R) * NominalPeriod <= C * NominalPeriod + 99 * S
        <5>1. NominalPeriod \in Nat /\ C \in Int /\ S \in Int
          BY <1>7, <3>2
        <5> HIDE DEF C, R, S, E
        <5> QED
          BY <2>4, <3>2, <3>3, <4>3, <5>1, HealthyArithmetic
      <4> QED
        BY <2>3, <3>1, <3>2, <4>4
    <3>5. CASE cycle = 0
      <4>1. C = 0 /\ R \in Nat
        BY <1>3, <1>5, <3>5
      <4>2. 100 * (C - R) * NominalPeriod <= 0
        <5>1. 100 * (C - R) * NominalPeriod = 0 - 100 * (R * NominalPeriod) /\ R * NominalPeriod \in Nat
          BY <1>7, <4>1
        <5> QED
          BY <5>1
      <4>3. C * NominalPeriod + 99 * S \in Nat
        BY <1>7, <3>2, <4>1
      <4>4. 100 * (C - R) * NominalPeriod \in Int
        BY <1>7, <3>2
      <4>5. 100 * (C - R) * NominalPeriod <= C * NominalPeriod + 99 * S
        <5> HIDE DEF C, R, S
        <5> QED
          BY <4>2, <4>3, <4>4
      <4> QED
        BY <2>3, <3>1, <3>2, <4>5
    <3> QED
      BY <3>4, <3>5
  <2>6. HealthyMeansWhole'
    <3>1. Jitter' = Jitter
      BY <1>1 DEF Jitter
    <3> QED
      BY <2>5, <3>1 DEF HealthyMeansWhole
  <2> QED
    BY <1>1, <1>2, <1>5, <1>6, <2>2, <2>3, <2>6
<1>10. CASE ~ (f.lastHealth # None /\ t - f.lastHealth >= HealthInterval)
  <2> DEFINE last == IF f.lastHealth = None THEN t ELSE f.lastHealth
  <2>1. report' = report /\ fwd' = [f EXCEPT !.lastHealth = last]
    BY <1>1, <1>10 DEF CheckHealth
  <2>2. last \in Int /\ (f.lastHealth \in Int => last = f.lastHealth)
    BY <1>4, <1>6, <1>8 DEF HealthInv
  <2> HIDE DEF last
  <2>3. IsObject(fwd') /\ fwd'.lastHealth = last /\ fwd'.sinceHealth = f.sinceHealth
    BY <1>4, <2>1 DEF IsObject
  <2>4. HealthyMeansWhole'
    <3>1. Jitter' = Jitter
      BY <1>1 DEF Jitter
    <3> QED
      BY <2>1, <3>1 DEF HealthInv, HealthyMeansWhole
  <2>5. report.status # "none" =>
          last <= (report.cycle + 1) * NominalPeriod + Max(setup.delays)
    BY <1>4, <2>2 DEF HealthInv
  <2>6. report.upTo <= Len(readings')
    BY <1>2, <1>3, <1>5
  <2> QED
    BY <1>1, <1>3, <1>5, <2>1, <2>2, <2>3, <2>4, <2>5, <2>6
<1> QED
  BY <1>9, <1>10

LEMMA HealthStep ==
  ASSUME ForwarderInv, HealthInv, [Next]_vars
  PROVE  HealthInv'
<1>1. /\ setup \in Setups /\ cycle \in Nat /\ now \in Int /\ readStart \in Nat /\ Len(wire) \in Nat
      /\ GroupInv /\ OnTime(now) /\ now <= Deadline
      /\ setup.readSize \in Nat \ {0} /\ setup.readTimeout \in Nat \ {0}
      /\ NominalPeriod \in Nat \ {0} /\ Max(setup.delays) \in Nat
  <2>1. setup \in Setups /\ wire \in Seq(Packets) /\ cycle \in Nat
    BY DEF ForwarderInv, GroupInv, LineTrue
  <2> QED
    BY <2>1, SetupFacts, DelayBounds, LenProperties, UniformTimebaseAssumption DEF ForwarderInv, HealthInv
<1>2. ASSUME NEW t \in BurstTimes, NEW damage \in setup.damages, DeviceBurst(t, damage)
      PROVE  HealthInv'
  <2>1. /\ setup' = setup /\ cycle' = cycle + 1 /\ now' = t /\ t <= Deadline
        /\ readStart' = readStart /\ fwd' = fwd /\ readings' = readings /\ report' = report
    BY <1>2 DEF DeviceBurst
  <2>2. PICK d \in setup.delays : t = (cycle + 1) * NominalPeriod + d
    BY DEF BurstTimes
  <2>3. d \in Nat /\ Min(setup.delays) <= d /\ d <= Max(setup.delays) /\ Min(setup.delays) \in Nat
    BY <1>1, DelayBounds
  <2>4. OnTime(now)'
    <3>1. /\ (cycle + 1) * NominalPeriod \in Int
          /\ (cycle + 1 + 1) * NominalPeriod = (cycle + 1) * NominalPeriod + NominalPeriod
      BY <1>1
    <3>2. /\ t \in Int /\ t <= (cycle + 1 + 1) * NominalPeriod + Max(setup.delays)
          /\ (cycle + 1) * NominalPeriod + Min(setup.delays) <= t
      BY <1>1, <2>2, <2>3, <3>1
    <3> QED
      BY <2>1, <3>2 DEF OnTime
  <2>5. (now <= Deadline)' /\ HealthyMeansWhole'
    BY <2>1 DEF Deadline, HealthInv, HealthyMeansWhole, Jitter
  <2>6. (report.cycle \in 0 .. cycle)'
    BY <1>1, <2>1 DEF HealthInv
  <2> QED
    BY <2>1, <2>4, <2>5, <2>6 DEF HealthInv
<1>3. CASE ReadFull
  <2> DEFINE chunk == SubSeq(wire, 1, setup.readSize)
  <2>1. /\ Handle(chunk, now) /\ readStart' = now /\ UNCHANGED <<setup, cycle, now>>
        /\ setup.readSize <= Len(wire)
    BY <1>1, <1>3 DEF ReadFull
  <2>2. Len(chunk) \in Nat
    <3>1. wire \in Seq(Packets)
      BY DEF ForwarderInv, GroupInv, LineTrue
    <3>2. Len(chunk) = setup.readSize
      BY <1>1, <2>1, <3>1, SubSeqProperties
    <3> QED
      BY <1>1, <3>2
  <2> HIDE DEF chunk
  <2>3. OnTime(now)' /\ (now <= Deadline)'
    <3>1. now <= now + setup.readTimeout
      BY <1>1
    <3> QED
      BY <1>1, <2>1, <3>1 DEF OnTime, Deadline
  <2> QED
    BY <1>1, <2>1, <2>2, <2>3, HandleHealth DEF HealthInv
<1>4. CASE ReadTimesOut
  <2>1. /\ Handle(wire, Deadline) /\ readStart' = Deadline /\ now' = Deadline /\ UNCHANGED <<setup, cycle>>
        /\ \E t \in BurstTimes : Deadline <= t
    BY <1>4 DEF ReadTimesOut
  <2>2. Deadline \in Int /\ Deadline <= Deadline + setup.readTimeout
    BY <1>1 DEF Deadline
  <2>3. OnTime(Deadline)
    <3>1. PICK d \in setup.delays : Deadline <= (cycle + 1) * NominalPeriod + d
      BY <2>1 DEF BurstTimes
    <3>2. d \in Nat /\ d <= Max(setup.delays) /\ Min(setup.delays) \in Nat
      BY <1>1, DelayBounds
    <3>3. (cycle + 1) * NominalPeriod \in Int /\ cycle * NominalPeriod \in Int
      BY <1>1
    <3>4. Deadline <= (cycle + 1) * NominalPeriod + Max(setup.delays)
      BY <1>1, <2>2, <3>1, <3>2, <3>3
    <3>5. cycle # 0 => cycle * NominalPeriod + Min(setup.delays) <= Deadline
      BY <1>1, <2>2, <3>2, <3>3 DEF OnTime
    <3> QED
      BY <2>2, <3>4, <3>5 DEF OnTime
  <2>4. OnTime(now)' /\ (now <= Deadline)'
    BY <2>1, <2>2, <2>3 DEF OnTime, Deadline
  <2> QED
    BY <1>1, <2>1, <2>3, <2>4, HandleHealth DEF HealthInv
<1>5. CASE UNCHANGED vars
  <2>1. /\ setup' = setup /\ cycle' = cycle /\ now' = now
        /\ readStart' = readStart /\ fwd' = fwd /\ readings' = readings /\ report' = report
    BY <1>5 DEF vars
  <2> QED
    BY <2>1 DEF HealthInv, OnTime, Deadline, HealthyMeansWhole, Jitter
<1> QED
  BY <1>2, <1>3, <1>4, <1>5 DEF Next, Stop

(* A healthy report hides no loss: however the reads cut the packets, whatever  *)
(* the line loses and wherever a timeout ends the interval, at most one in a    *)
(* hundred of the device's cycles since the report before has no reading, up to *)
(* the cycle and the jitter the ends of the interval cut (the thresholds and    *)
(* counters of maybe_build_health_report).                                    *)
THEOREM HealthyMeansWholeCorrect == Spec => []HealthyMeansWhole
<1>1. Init => HealthInv
  BY HealthInit
<1>2. ForwarderInv /\ HealthInv /\ [Next]_vars => HealthInv'
  BY HealthStep
<1>3. HealthInv => HealthyMeansWhole
  BY DEF HealthInv
<1> QED
  BY <1>1, <1>2, <1>3, ForwarderHolds, PTL DEF Spec
-----------------------------------------------------------------------------
(* The index of a reading, when each read is a cycle. *)

\* A whole burst of cycle c.
WholeCycle(w, c) ==
  /\ Len(w) = Len(setup.burst)
  /\ \A i \in 1 .. Len(w) : w[i] = [type |-> setup.burst[i], cycle |-> c, whole |-> TRUE]

\* The types among the first n packets of a burst, and those for a reading.
Seen(n) == {setup.burst[i] : i \in 1 .. n}
GroupOf(w, n) == {w[i] : i \in {k \in 1 .. n : setup.burst[k] \in Expected}}

\* A reading of one cycle.
IsCycleOf(x, c, arrival, tb) ==
  /\ x.cycles = [type \in Expected |-> c] /\ x.receive = arrival
  /\ x.index = tb.samples[Len(tb.samples)].index /\ x.epoch = tb.resyncs

\* The forwarder, which had no group and the time base tb, after n packets of
\* a whole burst.
InCycle(state, w, n, c, arrival, tb) ==
  /\ IsState(state)
  /\ Expected \subseteq Seen(n) =>
       /\ state.fwd.pending = {} /\ state.fwd.timebase = Update(tb, arrival)
       /\ \E x : state.out = <<x>> /\ IsCycleOf(x, c, arrival, Update(tb, arrival))
  /\ ~ (Expected \subseteq Seen(n)) =>
       /\ state.fwd.pending = GroupOf(w, n) /\ state.fwd.timebase = tb
       /\ state.out = <<>>

\* Each packet of a whole burst joins the group, and the last one completes it.
LEMMA PacketOfCycle ==
  ASSUME setup \in Setups, NEW w, NEW c, WholeCycle(w, c), NEW n \in 1 .. Len(w), NEW state,
         NEW arrival, NEW tb, InCycle(state, w, n - 1, c, arrival, tb)
  PROVE  InCycle(FeedPacket(state, w[n], arrival), w, n, c, arrival, tb)
<1> DEFINE p == w[n]  f == state.fwd  r == FeedPacket(state, p, arrival)  L == Len(setup.burst)
<1>1. /\ L \in Nat /\ n \in 1 .. L /\ n - 1 \in 0 .. L
      /\ \A i, j \in 1 .. L : setup.burst[i] = setup.burst[j] => i = j
      /\ \A i \in 1 .. L : w[i].type = setup.burst[i] /\ w[i].cycle = c /\ w[i].whole
  <2>1. L \in Nat /\ Len(w) = L /\ \A i, j \in 1 .. L : setup.burst[i] = setup.burst[j] => i = j
    BY SetupFacts DEF WholeCycle
  <2>2. \A i \in 1 .. L : w[i] = [type |-> setup.burst[i], cycle |-> c, whole |-> TRUE]
    BY <2>1 DEF WholeCycle
  <2>3. ASSUME NEW i \in 1 .. L
        PROVE  w[i].type = setup.burst[i] /\ w[i].cycle = c /\ w[i].whole
    <3> DEFINE x == [type |-> setup.burst[i], cycle |-> c, whole |-> TRUE]
    <3>1. x.type = setup.burst[i] /\ x.cycle = c /\ x.whole
      BY Zenon
    <3> QED
      BY <2>2, <3>1, Zenon
  <2>4. n \in 1 .. L /\ n - 1 \in 0 .. L
    BY <2>1
  <2> QED
    BY <2>1, <2>3, <2>4
<1>2. \A i : i \in 1 .. n <=> i = n \/ i \in 1 .. n - 1
  BY <1>1
<1>3. Seen(n) = Seen(n - 1) \cup {p.type} /\ p.type \notin Seen(n - 1)
  <2>1. p.type = setup.burst[n]
    BY <1>1
  <2>2. Seen(n) = Seen(n - 1) \cup {setup.burst[n]}
    BY <1>2 DEF Seen
  <2>3. setup.burst[n] \notin Seen(n - 1)
    <3>1. \A i \in 1 .. n - 1 : i \in 1 .. L /\ i # n
      BY <1>1
    <3> QED
      BY <1>1, <3>1 DEF Seen
  <2> QED
    BY <2>1, <2>2, <2>3
<1>4. IsState(state) /\ p.whole /\ p.type = setup.burst[n]
  BY <1>1 DEF InCycle
<1> HIDE DEF p, f
<1>5. CASE Expected \subseteq Seen(n - 1)
  <2>1. p.type \notin Expected /\ Expected \subseteq Seen(n)
    BY <1>3, <1>5
  <2>2. ~ Completes(f, p)
    BY <2>1 DEF Completes
  <2>3. /\ IsState(r) /\ r.fwd.timebase = f.timebase /\ r.out = state.out
        /\ r.fwd.pending = f.pending
    BY <1>4, <2>1, <2>2, FeedPacketFields DEF f
  <2> HIDE DEF r
  <2>4. InCycle(r, w, n, c, arrival, tb)
    BY <1>5, <2>1, <2>3 DEF InCycle, f
  <2> QED
    BY <2>4 DEF r, p
<1>6. CASE ~ (Expected \subseteq Seen(n - 1)) /\ p.type \notin Expected
  <2>1. ~ (Expected \subseteq Seen(n)) /\ ~ Completes(f, p)
    BY <1>3, <1>6 DEF Completes
  <2>2. /\ IsState(r) /\ r.fwd.timebase = f.timebase /\ r.out = state.out
        /\ r.fwd.pending = f.pending
    BY <1>4, <1>6, <2>1, FeedPacketFields DEF f
  <2>3. GroupOf(w, n) = GroupOf(w, n - 1)
    BY <1>2, <1>4, <1>6 DEF GroupOf
  <2> HIDE DEF r
  <2>4. InCycle(r, w, n, c, arrival, tb)
    BY <1>6, <2>1, <2>2, <2>3 DEF InCycle, f
  <2> QED
    BY <2>4 DEF r, p
<1>7. CASE ~ (Expected \subseteq Seen(n - 1)) /\ p.type \in Expected
  <2> DEFINE g == GroupOf(w, n)
  <2>1. f.pending = GroupOf(w, n - 1) /\ f.timebase = tb /\ state.out = <<>>
    BY <1>7 DEF InCycle, f
  <2>2. g = GroupOf(w, n - 1) \cup {p}
    BY <1>2, <1>4, <1>7 DEF GroupOf, p
  <2>3. \A i \in 1 .. n : i \in 1 .. L
    BY <1>1
  <2>4. GroupWith(f, p) = g
    <3>1. \A q \in f.pending : q.type \in Seen(n - 1)
      BY <1>1, <1>2, <2>1, <2>3 DEF GroupOf, Seen
    <3>2. ~ IsRepeated(f, p)
      BY <1>3, <3>1 DEF IsRepeated
    <3> QED
      BY <2>1, <2>2, <3>2 DEF GroupWith
  <2>5. /\ \A q \in g : q.type \in Expected /\ q.cycle = c
        /\ \A q, s \in g : q.type = s.type => q = s
    BY <1>1, <2>3 DEF GroupOf
  <2>6. \A type \in Expected : type \in TypesOf(g) <=> type \in Seen(n)
    <3>1. ASSUME NEW type \in Expected, type \in Seen(n) PROVE type \in TypesOf(g)
      <4>1. PICK i \in 1 .. n : setup.burst[i] = type
        BY <3>1 DEF Seen
      <4>2. w[i] \in g /\ w[i].type = type
        BY <1>1, <2>3, <3>1, <4>1 DEF GroupOf
      <4> QED
        BY <4>2 DEF TypesOf
    <3>2. ASSUME NEW type \in Expected, type \in TypesOf(g) PROVE type \in Seen(n)
      <4>1. PICK q \in g : q.type = type
        BY <3>2 DEF TypesOf
      <4>2. PICK i \in 1 .. n : q = w[i]
        BY <4>1 DEF GroupOf
      <4>3. setup.burst[i] = type
        BY <1>1, <2>3, <4>1, <4>2
      <4> QED
        BY <4>3 DEF Seen
    <3> QED
      BY <3>1, <3>2
  <2> HIDE DEF g
  <2>7. Cardinality(g) < Cardinality(Expected) <=> \E type \in Expected : type \notin TypesOf(g)
    BY <2>5, GroupCounted
  <2>8. Completes(f, p) <=> Expected \subseteq Seen(n)
    BY <1>4, <1>7, <2>4, <2>6, <2>7 DEF Completes
  <2>9. CASE Expected \subseteq Seen(n)
    <3>1. /\ IsState(r) /\ r.fwd.timebase = Update(tb, arrival) /\ r.fwd.pending = {}
          /\ \E x : /\ r.out = Append(<<>>, x)
                    /\ IsReadingOf(x, g, arrival, Update(tb, arrival))
      BY <1>4, <2>1, <2>4, <2>8, <2>9, FeedPacketFields DEF f
    <3>2. PICK x : r.out = Append(<<>>, x) /\ IsReadingOf(x, g, arrival, Update(tb, arrival))
      BY <3>1
    <3>3. \A type \in Expected : (CHOOSE q \in g : q.type = type).cycle = c
      <4> SUFFICES ASSUME NEW type \in Expected PROVE (CHOOSE q \in g : q.type = type).cycle = c
        OBVIOUS
      <4>1. \E q \in g : q.type = type
        BY <2>6, <2>9 DEF TypesOf
      <4> QED
        BY <2>5, <4>1
    <3>4. CyclesOf(g) = [type \in Expected |-> c]
      BY <3>3 DEF CyclesOf
    <3>5. IsCycleOf(x, c, arrival, Update(tb, arrival)) /\ r.out = <<x>>
      BY <3>2, <3>4 DEF IsReadingOf, IsCycleOf
    <3> HIDE DEF r
    <3>6. InCycle(r, w, n, c, arrival, tb)
      BY <2>9, <3>1, <3>5 DEF InCycle
    <3> QED
      BY <3>6 DEF r, p
  <2>10. CASE ~ (Expected \subseteq Seen(n))
    <3>1. /\ IsState(r) /\ r.fwd.timebase = tb /\ r.fwd.pending = g
          /\ r.out = <<>>
      BY <1>4, <1>7, <2>1, <2>4, <2>8, <2>10, FeedPacketFields DEF f
    <3> HIDE DEF r
    <3>2. InCycle(r, w, n, c, arrival, tb)
      BY <2>10, <3>1 DEF InCycle, g
    <3> QED
      BY <3>2 DEF r, p
  <2> QED
    BY <2>9, <2>10
<1> QED
  BY <1>5, <1>6, <1>7

\* A read of a whole cycle is one reading of that cycle.
LEMMA CycleRead ==
  ASSUME setup \in Setups, IsObject(fwd), fwd.pending = {}, NEW w, NEW c, WholeCycle(w, c), NEW arrival
  PROVE  LET done == FeedChunk(w, arrival)
             tb  == Update(fwd.timebase, arrival)
         IN /\ IsObject(done.fwd) /\ done.fwd.pending = {} /\ done.fwd.timebase = tb
            /\ \E x : done.out = <<x>> /\ IsCycleOf(x, c, arrival, tb)
<1> DEFINE N == Len(w)  tb == fwd.timebase
<1>1. N \in Nat /\ N = Len(setup.burst) /\ Expected \subseteq ToSet(setup.burst) /\ Expected # {}
      /\ DOMAIN setup.burst = 1 .. N
  BY SetupFacts, ImuForwarderAssumption, LenProperties DEF WholeCycle
<1>2. PICK f : FedOneByOne(N, w, arrival, f) /\ FeedChunk(w, arrival) = f[N]
  BY <1>1, FeedChunkIs
<1> DEFINE T == {n \in 0 .. N : InCycle(f[n], w, n, c, arrival, tb)}
<1>3. 0 \in T
  <2>1. f[0] = [fwd |-> fwd, out |-> <<>>]
    BY <1>2 DEF FedOneByOne
  <2>2. Seen(0) = {} /\ GroupOf(w, 0) = {}
    BY DEF Seen, GroupOf
  <2> DEFINE start == [fwd |-> fwd, out |-> <<>>]
  <2>3. IsState(start) /\ start.fwd.pending = {} /\ start.fwd.timebase = tb /\ start.out = <<>>
    BY DEF IsState
  <2>4. ~ (Expected \subseteq Seen(0))
    BY <1>1, <2>2
  <2> HIDE DEF start, tb
  <2>5. InCycle(start, w, 0, c, arrival, tb)
    BY <2>2, <2>3, <2>4 DEF InCycle
  <2>6. InCycle(f[0], w, 0, c, arrival, tb)
    BY <2>1, <2>5 DEF start
  <2> QED
    BY <1>1, <2>6 DEF tb
<1>4. ASSUME NEW n \in 1 .. N, n - 1 \in T PROVE n \in T
  <2>1. InCycle(f[n - 1], w, n - 1, c, arrival, tb)
    BY <1>4
  <2>2. InCycle(FeedPacket(f[n - 1], w[n], arrival), w, n, c, arrival, tb)
    BY <2>1, PacketOfCycle
  <2>3. f[n] = FeedPacket(f[n - 1], w[n], arrival) /\ n \in 0 .. N
    BY <1>2 DEF FedOneByOne
  <2> QED
    BY <2>2, <2>3
<1>5. T = 0 .. N
  <2> HIDE DEF T
  <2>1. T \subseteq 0 .. N
    BY DEF T
  <2> QED
    BY <1>1, <1>3, <1>4, <2>1, UpTo
<1>6. InCycle(f[N], w, N, c, arrival, tb)
  BY <1>1, <1>5
<1>7. Expected \subseteq Seen(N)
  BY <1>1 DEF Seen, ToSet
<1> QED
  BY <1>2, <1>6, <1>7 DEF InCycle, IsState

\* A reading of one cycle, stamped when its burst was at the port.
TimedReading(r) ==
  /\ \E c \in Nat, d \in setup.delays :
       r.cycles = [type \in Expected |-> c] /\ r.receive = c * NominalPeriod + d
  /\ r.index \in Int /\ r.epoch \in Nat

GapIn(rs, n) == LastCycle(rs[n]) - LastCycle(rs[n - 1])

\* The epochs advance, and within one the index counts every gap it can tell.
CountedGap(rs, n) ==
  /\ rs[n - 1].epoch <= rs[n].epoch
  /\ rs[n - 1].epoch = rs[n].epoch /\ Tellable(GapIn(rs, n)) =>
       rs[n].index - rs[n - 1].index = GapIn(rs, n)

\* The readings and the time base they were counted by.
Counted(rs, tb) ==
  /\ TimebaseTrue(tb)
  /\ \A i \in 1 .. Len(rs) : TimedReading(rs[i])
  /\ rs # <<>> =>
       /\ tb.samples # <<>> /\ tb.resyncs = rs[Len(rs)].epoch
       /\ tb.samples[Len(tb.samples)].index = rs[Len(rs)].index
       /\ tb.samples[Len(tb.samples)].arrival = rs[Len(rs)].receive
  /\ \A n \in 2 .. Len(rs) : CountedGap(rs, n)

\* The cycle of a reading of one cycle.
LEMMA LastCycleIs ==
  ASSUME NEW r, NEW c \in Nat, r.cycles = [type \in Expected |-> c]
  PROVE  LastCycle(r) = c
<1>1. Expected # {}
  BY ImuForwarderAssumption
<1>2. {r.cycles[t] : t \in Expected} = {c}
  BY <1>1
<1>3. Max({c}) = c
  <2>1. \E x \in {c} : \A y \in {c} : x >= y
    OBVIOUS
  <2> QED
    BY <2>1 DEF Max
<1> QED
  BY <1>2, <1>3 DEF LastCycle

\* The time base counts one reading more.
LEMMA OneMoreCounted ==
  ASSUME setup \in Setups, NEW rs, Len(rs) \in Nat, rs # <<>> => Len(rs) # 0,
         NEW tb, Counted(rs, tb),
         NEW x, NEW c \in Nat, NEW d \in setup.delays, NEW t, t = c * NominalPeriod + d,
         IsCycleOf(x, c, t, Update(tb, t)),
         rs # <<>> => LastCycle(rs[Len(rs)]) < c,
         NEW more, more # <<>>, Len(more) = Len(rs) + 1, \A i \in 1 .. Len(rs) : more[i] = rs[i],
         rs = <<>> => Len(rs) = 0,
         more[Len(rs) + 1] = x
  PROVE  Counted(more, Update(tb, t))
<1> DEFINE L == Len(rs)  next == Update(tb, t)
           sample == next.samples[Len(next.samples)]
           last == tb.samples[Len(tb.samples)]
<1>1. /\ d \in Nat /\ NominalPeriod \in Nat \ {0} /\ c * NominalPeriod \in Int /\ t \in Int
      /\ Jitter = Max(setup.delays) - Min(setup.delays)
      /\ Max(setup.delays) \in Nat /\ Min(setup.delays) \in Nat
      /\ \A e \in setup.delays : e \in Nat /\ Min(setup.delays) <= e /\ e <= Max(setup.delays)
  BY DelayBounds, UniformTimebaseAssumption DEF Jitter
<1>2. TimebaseTrue(tb)
  BY DEF Counted
<1>3. /\ TimebaseTrue(next) /\ next.samples # <<>> /\ sample.arrival = t /\ sample.index \in Int
      /\ tb.samples # <<>> =>
           /\ last \in [index : Int, arrival : Int]
           /\ next.resyncs \in {tb.resyncs, tb.resyncs + 1}
           /\ next.resyncs = tb.resyncs =>
                /\ t - last.arrival <= ResyncThreshold
                /\ sample.index = last.index + Steps(tb, t - last.arrival)
  BY <1>1, <1>2, UpdateAdds
<1>4. /\ x.cycles = [type \in Expected |-> c] /\ x.receive = t
      /\ x.index = sample.index /\ x.epoch = next.resyncs
  BY DEF IsCycleOf
<1> HIDE DEF next, sample, last
<1>5. TimedReading(x)
  BY <1>3, <1>4 DEF TimedReading, TimebaseTrue
<1>6. LastCycle(x) = c
  BY <1>4, LastCycleIs
<1>7. \A i \in 1 .. Len(more) : i = L + 1 \/ i \in 1 .. L
  OBVIOUS
<1>8. \A i \in 1 .. Len(more) : TimedReading(more[i])
  BY <1>5, <1>7 DEF Counted
<1>9. /\ next.resyncs = more[Len(more)].epoch /\ sample.index = more[Len(more)].index
      /\ sample.arrival = more[Len(more)].receive
  BY <1>3, <1>4
<1>10. ASSUME NEW n \in 2 .. Len(more), n # L + 1 PROVE CountedGap(more, n)
  <2>1. n \in 2 .. L /\ n \in 1 .. L /\ n - 1 \in 1 .. L
    BY <1>10
  <2>2. more[n] = rs[n] /\ more[n - 1] = rs[n - 1]
    BY <2>1
  <2>3. CountedGap(rs, n)
    BY <2>1 DEF Counted
  <2> QED
    BY <2>2, <2>3 DEF CountedGap, GapIn
<1>11. ASSUME L + 1 \in 2 .. Len(more) PROVE CountedGap(more, L + 1)
  <2> DEFINE y == rs[L]  k == GapIn(more, L + 1)
  <2>1. L \in 1 .. L /\ L + 1 - 1 = L /\ more[L] = y /\ more[L + 1] = x /\ rs # <<>>
    BY <1>11
  <2>2. TimedReading(y)
    BY <2>1 DEF Counted
  <2>3. PICK b \in Nat, e \in setup.delays :
          y.cycles = [type \in Expected |-> b] /\ y.receive = b * NominalPeriod + e
    BY <2>2 DEF TimedReading
  <2>4. LastCycle(y) = b
    BY <2>3, LastCycleIs
  <2>5. k = c - b /\ k \in Nat \ {0}
    <3>1. b < c
      BY <2>1, <2>4
    <3>2. k = c - b
      BY <1>6, <2>1, <2>4 DEF GapIn
    <3> QED
      BY <3>1, <3>2
  <2>6. /\ tb.samples # <<>> /\ tb.resyncs = y.epoch
        /\ last.index = y.index /\ last.arrival = y.receive
    BY <2>1 DEF Counted, last
  <2>7. y.index \in Int /\ y.epoch \in Nat
    BY <2>2 DEF TimedReading
  <2>8. y.epoch <= x.epoch
    BY <1>3, <1>4, <2>6, <2>7
  <2>9. ASSUME y.epoch = x.epoch, Tellable(k) PROVE x.index - y.index = k
    <3> DEFINE elapsed == t - y.receive
    <3>1. /\ elapsed <= ResyncThreshold /\ sample.index = y.index + Steps(tb, elapsed)
      BY <1>3, <1>4, <2>6, <2>9
    <3>2. /\ elapsed \in Int
          /\ k * NominalPeriod - Jitter <= elapsed /\ elapsed <= k * NominalPeriod + Jitter
      <4>1. k * NominalPeriod = c * NominalPeriod - b * NominalPeriod /\ b * NominalPeriod \in Int
        BY <1>1, <2>5
      <4>2. elapsed = (c * NominalPeriod + d) - (b * NominalPeriod + e)
        BY <2>3, Zenon
      <4>3. /\ Min(setup.delays) <= e /\ e <= Max(setup.delays) /\ e \in Nat
            /\ Min(setup.delays) <= d /\ d <= Max(setup.delays)
        BY <1>1
      <4> DEFINE C == c * NominalPeriod  B == b * NominalPeriod  P == k * NominalPeriod
                 hi == Max(setup.delays)  lo == Min(setup.delays)
      <4>4. /\ P = C - B /\ C \in Int /\ B \in Int /\ hi \in Int /\ lo \in Int /\ d \in Int /\ e \in Int
            /\ Jitter = hi - lo /\ elapsed = (C + d) - (B + e)
            /\ lo <= e /\ e <= hi /\ lo <= d /\ d <= hi
        BY <1>1, <4>1, <4>2, <4>3
      <4> HIDE DEF k, elapsed, C, B, P, hi, lo
      <4>5. elapsed \in Int /\ P - Jitter <= elapsed /\ elapsed <= P + Jitter
        BY <4>4
      <4> QED
        BY <4>5 DEF P
    <3>3. elapsed \in k * NominalPeriod - Jitter .. k * NominalPeriod + Jitter
      <4>1. k * NominalPeriod \in Int /\ Jitter \in Int
        BY <1>1, <2>5
      <4> HIDE DEF k, elapsed
      <4> QED
        BY <3>2, <4>1
    <3> HIDE DEF k, elapsed
    <3>4. /\ 2 * elapsed * LowPeriod[2] < (2 * k + 1) * LowPeriod[1]
          /\ k > 1 => (2 * k - 1) * HighPeriod[1] < 2 * elapsed * HighPeriod[2]
      BY <2>9, <3>1, <3>3 DEF Tellable
    <3>5. Steps(tb, elapsed) = k
      BY <1>2, <2>5, <3>2, <3>4, GapCounted DEF TimebaseTrue
    <3> QED
      BY <1>4, <2>5, <2>7, <3>1, <3>5
  <2> HIDE DEF k
  <2>10. CountedGap(more, L + 1)
    BY <2>1, <2>8, <2>9 DEF CountedGap, k
  <2> QED
    BY <2>10
<1>12. \A n \in 2 .. Len(more) : CountedGap(more, n)
  BY <1>10, <1>11
<1> HIDE DEF L
<1> QED
  BY <1>3, <1>8, <1>9, <1>12 DEF Counted, next, sample

\* The index over several gaps.
LEMMA IndexOverGaps ==
  ASSUME NEW rs, Len(rs) \in Nat, NEW tb, Counted(rs, tb),
         NEW i \in 1 .. Len(rs), NEW j \in 1 .. Len(rs), i < j, rs[i].epoch = rs[j].epoch,
         \A n \in i + 1 .. j : Tellable(GapIn(rs, n))
  PROVE  rs[j].index - rs[i].index = LastCycle(rs[j]) - LastCycle(rs[i])
<1> DEFINE K == j - i
           Good(k) == /\ rs[i].epoch <= rs[i + k].epoch
                      /\ rs[i].epoch = rs[i + k].epoch =>
                           rs[i + k].index - rs[i].index = LastCycle(rs[i + k]) - LastCycle(rs[i])
           T == {k \in 0 .. K : Good(k)}
<1>1. \A n \in 1 .. Len(rs) : rs[n].index \in Int /\ rs[n].epoch \in Nat /\ LastCycle(rs[n]) \in Nat
  <2> SUFFICES ASSUME NEW n \in 1 .. Len(rs)
               PROVE  rs[n].index \in Int /\ rs[n].epoch \in Nat /\ LastCycle(rs[n]) \in Nat
    OBVIOUS
  <2>1. TimedReading(rs[n])
    BY DEF Counted
  <2>2. PICK c \in Nat : rs[n].cycles = [type \in Expected |-> c]
    BY <2>1 DEF TimedReading
  <2> QED
    BY <2>1, <2>2, LastCycleIs DEF TimedReading
<1>2. K \in Nat
  OBVIOUS
<1>3. 0 \in T
  <2>1. i + 0 = i
    OBVIOUS
  <2> QED
    BY <1>1, <1>2, <2>1
<1>4. ASSUME NEW k \in 1 .. K, k - 1 \in T PROVE k \in T
  <2> DEFINE n == i + k
  <2>1. n \in 2 .. Len(rs) /\ n \in i + 1 .. j /\ n - 1 = i + (k - 1) /\ n - 1 \in 1 .. Len(rs)
        /\ n \in 1 .. Len(rs)
    BY <1>2
  <2>2. CountedGap(rs, n) /\ Tellable(GapIn(rs, n))
    BY <2>1 DEF Counted
  <2>3. Good(k - 1)
    BY <1>4
  <2>4. /\ rs[i].epoch <= rs[n - 1].epoch
        /\ rs[i].epoch = rs[n - 1].epoch =>
             rs[n - 1].index - rs[i].index = LastCycle(rs[n - 1]) - LastCycle(rs[i])
    BY <2>1, <2>3
  <2> HIDE DEF n
  <2>5. /\ rs[i].epoch <= rs[n].epoch
        /\ rs[i].epoch = rs[n].epoch =>
             rs[n].index - rs[i].index = LastCycle(rs[n]) - LastCycle(rs[i])
    <3> DEFINE a == rs[i]  b == rs[n - 1]  c == rs[n]
               ca == LastCycle(rs[i])  cb == LastCycle(rs[n - 1])  cc == LastCycle(rs[n])
    <3>1. /\ a.index \in Int /\ b.index \in Int /\ c.index \in Int
          /\ a.epoch \in Nat /\ b.epoch \in Nat /\ c.epoch \in Nat
          /\ ca \in Nat /\ cb \in Nat /\ cc \in Nat
      BY <1>1, <2>1
    <3>2. b.epoch <= c.epoch /\ (b.epoch = c.epoch => c.index - b.index = cc - cb)
      BY <2>2 DEF CountedGap, GapIn
    <3>3. a.epoch <= b.epoch /\ (a.epoch = b.epoch => b.index - a.index = cb - ca)
      BY <2>4
    <3> HIDE DEF a, b, c, ca, cb, cc
    <3>4. a.epoch <= c.epoch /\ (a.epoch = c.epoch => c.index - a.index = cc - ca)
      BY <3>1, <3>2, <3>3
    <3> QED
      BY <3>4 DEF a, c, ca, cc
  <2> QED
    BY <1>2, <2>5 DEF n
<1>5. T = 0 .. K
  <2> HIDE DEF T
  <2>1. T \subseteq 0 .. K
    BY DEF T
  <2> HIDE DEF K
  <2> QED
    BY <1>2, <1>3, <1>4, <2>1, UpTo
<1>6. K \in T
  <2> HIDE DEF T, K
  <2> QED
    BY <1>2, <1>5
<1>7. i + K = j
  OBVIOUS
<1> QED
  BY <1>6, <1>7

\* What the line delivers of a cycle it loses whole or not at all.
LEMMA ArrivingWhole ==
  ASSUME setup \in Setups, cycle \in Nat, NEW damage, damage.bad = {}
  PROVE  /\ Arriving(damage) \in Seq(Packets)
         /\ damage.gone = {} => WholeCycle(Arriving(damage), cycle + 1)
         /\ damage.gone = ToSet(setup.burst) => Arriving(damage) = <<>>
<1> DEFINE N == Len(setup.burst)
<1>1. N \in Nat /\ DOMAIN setup.burst = 1 .. N
  BY SetupFacts, LenProperties
<1>2. Burst(Arriving(damage), N, damage)
  BY ArrivingFacts
<1>3. Arriving(damage) \in Seq(Packets)
  BY <1>2 DEF Burst
<1>4. ASSUME damage.gone = ToSet(setup.burst) PROVE Arriving(damage) = <<>>
  <2>1. \A n \in 1 .. N : setup.burst[n] \in damage.gone
    BY <1>1, <1>4 DEF ToSet
  <2>2. ~ (\E i \in 1 .. Len(Arriving(damage)) : TRUE)
    BY <1>2, <2>1 DEF Burst
  <2>3. Len(Arriving(damage)) = 0
    <3>1. Len(Arriving(damage)) \in Nat
      BY <1>3, LenProperties
    <3> QED
      BY <2>2, <3>1
  <2> QED
    BY <1>3, <2>3, EmptySeq
<1>5. ASSUME damage.gone = {} PROVE WholeCycle(Arriving(damage), cycle + 1)
  <2>1. PICK f : ArrivingOneByOne(N, damage, f) /\ Arriving(damage) = f[N]
    BY <1>1, ArrivingIs
  <2> DEFINE T == {n \in 0 .. N : /\ Len(f[n]) = n /\ f[n] \in Seq(Packets)
                                  /\ \A i \in 1 .. n : f[n][i] = Delivered(i, damage)}
  <2>2. 0 \in T
    <3>1. f[0] = <<>>
      BY <1>1, <2>1 DEF ArrivingOneByOne
    <3>2. Len(<<>>) = 0 /\ <<>> \in Seq(Packets) /\ 1 .. 0 = {} /\ 0 \in 0 .. N
      BY <1>1
    <3> HIDE DEF N
    <3> QED
      BY <3>1, <3>2
  <2>3. ASSUME NEW n \in 1 .. N, n - 1 \in T PROVE n \in T
    <3> DEFINE s == f[n - 1]  x == Delivered(n, damage)
    <3>1. f[n] = Append(s, x)
      BY <1>5, <2>1 DEF ArrivingOneByOne
    <3>2. x \in Packets
      <4>1. setup.burst[n] \in Types
        BY SetupFacts, <1>1 DEF ToSet
      <4> QED
        BY <4>1 DEF Packets, Delivered
    <3>3. /\ Len(s) = n - 1 /\ s \in Seq(Packets)
          /\ \A i \in 1 .. n - 1 : s[i] = Delivered(i, damage)
      BY <2>3
    <3> HIDE DEF s, x
    <3>4. /\ Append(s, x) \in Seq(Packets) /\ Len(Append(s, x)) = Len(s) + 1
          /\ \A i \in 1 .. Len(s) : Append(s, x)[i] = s[i]
          /\ Append(s, x)[Len(s) + 1] = x
      BY <3>2, <3>3, AppendProperties
    <3>5. ASSUME NEW i \in 1 .. n PROVE f[n][i] = Delivered(i, damage)
      <4>1. CASE i = n
        BY <3>1, <3>3, <3>4, <4>1 DEF x
      <4>2. CASE i # n
        <5>1. i \in 1 .. n - 1
          BY <4>2
        <5> QED
          BY <3>1, <3>3, <3>4, <5>1
      <4> QED
        BY <4>1, <4>2
    <3>6. Len(f[n]) = n /\ f[n] \in Seq(Packets) /\ n \in 0 .. N
      BY <3>1, <3>3, <3>4
    <3> QED
      BY <3>5, <3>6
  <2>4. T = 0 .. N
    <3> HIDE DEF T
    <3>1. T \subseteq 0 .. N
      BY DEF T
    <3> QED
      BY <1>1, <2>2, <2>3, <3>1, UpTo
  <2>5. Len(f[N]) = N /\ \A i \in 1 .. N : f[N][i] = Delivered(i, damage)
    BY <1>1, <2>4
  <2>6. \A i \in 1 .. N : Delivered(i, damage) = [type |-> setup.burst[i], cycle |-> cycle + 1, whole |-> TRUE]
    <3>1. \A i : (setup.burst[i] \notin damage.bad) = TRUE
      OBVIOUS
    <3> QED
      BY <3>1 DEF Delivered
  <2> QED
    BY <2>1, <2>5, <2>6 DEF WholeCycle
<1> QED
  BY <1>3, <1>4, <1>5

\* The health check leaves the group and the time base alone.
LEMMA CheckHealthLeaves ==
  ASSUME NEW f, IsObject(f), NEW t, CheckHealth(f, t)
  PROVE  fwd'.pending = f.pending /\ fwd'.timebase = f.timebase
<1> DEFINE last == IF f.lastHealth = None THEN t ELSE f.lastHealth
<1>1. \/ fwd' = [f EXCEPT !.lastHealth = t, !.sinceHealth = 0]
      \/ fwd' = [f EXCEPT !.lastHealth = last]
  BY DEF CheckHealth
<1> HIDE DEF last
<1> QED
  BY <1>1 DEF IsObject

\* When reads are cycles, the port holds a whole one or nothing, and all the
\* readings so far are counted.
CycleInv ==
  ReadsAreCycles =>
    /\ fwd.pending = {}
    /\ wire # <<>> =>
         WholeCycle(wire, cycle) /\ \E d \in setup.delays : now = cycle * NominalPeriod + d
    /\ Counted(readings, fwd.timebase)

LEMMA CycleInit ==
  ASSUME Init
  PROVE  CycleInv
<1>1. fwd.pending = {} /\ wire = <<>> /\ readings = <<>> /\ fwd.timebase = Fresh
  BY DEF Init
<1>2. TimebaseTrue(Fresh)
  <2>1. Timed(<<>>)
    BY DEF Timed
  <2> QED
    BY <2>1, UniformTimebaseAssumption DEF TimebaseTrue, Fresh, Clamped
<1>3. Counted(readings, fwd.timebase)
  BY <1>1, <1>2 DEF Counted
<1> QED
  BY <1>1, <1>3 DEF CycleInv

LEMMA CycleStep ==
  ASSUME ForwarderInv, ForwarderInv', HealthInv, CycleInv, [Next]_vars
  PROVE  CycleInv'
<1> SUFFICES ASSUME ReadsAreCycles'
             PROVE  /\ fwd'.pending = {}
                    /\ wire' # <<>> =>
                         /\ WholeCycle(wire, cycle)'
                         /\ \E d \in setup'.delays : now' = cycle' * NominalPeriod + d
                    /\ Counted(readings, fwd.timebase)'
  BY DEF CycleInv
<1>1. /\ setup \in Setups /\ cycle \in Nat /\ wire \in Seq(Packets) /\ Len(wire) \in Nat
      /\ IsObject(fwd) /\ Listed(readings) /\ Len(readings) \in Nat
      /\ Len(setup.burst) \in Nat
  BY SetupFacts, ListedFacts, LenProperties DEF ForwarderInv, GroupInv, LineTrue, HealthInv
<1>2. setup' = setup
  BY DEF Next, DeviceBurst, ReadFull, ReadTimesOut, Stop, vars
<1>3. /\ ReadsAreCycles
      /\ setup.readSize = Len(setup.burst)
      /\ \A d \in setup.damages : d.bad = {} /\ d.gone \in {{}, ToSet(setup.burst)}
  BY <1>2 DEF ReadsAreCycles
<1>4. /\ fwd.pending = {}
      /\ wire # <<>> =>
           WholeCycle(wire, cycle) /\ \E d \in setup.delays : now = cycle * NominalPeriod + d
      /\ Counted(readings, fwd.timebase)
  BY <1>3 DEF CycleInv
<1>5. Len(wire) < setup.readSize => wire = <<>>
  BY <1>1, <1>3, <1>4 DEF WholeCycle
<1>6. \A rs, tb : Counted(rs, tb)' <=> Counted(rs, tb)
  BY <1>2 DEF Counted, TimedReading, CountedGap, Tellable, Jitter
<1>7. ASSUME NEW t \in BurstTimes, NEW damage \in setup.damages, DeviceBurst(t, damage)
      PROVE  /\ fwd' = fwd /\ readings' = readings
             /\ wire' # <<>> =>
                  /\ WholeCycle(wire', cycle')
                  /\ \E d \in setup.delays : now' = cycle' * NominalPeriod + d
  <2>1. /\ cycle' = cycle + 1 /\ now' = t /\ fwd' = fwd /\ readings' = readings
        /\ wire' = wire \o Arriving(damage) /\ wire = <<>>
    BY <1>5, <1>7 DEF DeviceBurst
  <2>2. damage.bad = {} /\ damage.gone \in {{}, ToSet(setup.burst)}
    BY <1>3
  <2>3. /\ Arriving(damage) \in Seq(Packets)
        /\ WholeCycle(Arriving(damage), cycle + 1) \/ Arriving(damage) = <<>>
    BY <1>1, <2>2, ArrivingWhole
  <2>4. wire' = Arriving(damage)
    BY <2>1, <2>3, ConcatEmptySeq
  <2> QED
    BY <2>1, <2>3, <2>4 DEF BurstTimes
<1>8. ASSUME ReadFull
      PROVE  fwd'.pending = {} /\ wire' = <<>> /\ Counted(readings', fwd'.timebase)
  <2> DEFINE done == FeedChunk(wire, now)  tb == fwd.timebase  next == Update(tb, now)
  <2>1. /\ Handle(SubSeq(wire, 1, setup.readSize), now) /\ setup.readSize <= Len(wire)
        /\ wire' = SubSeq(wire, setup.readSize + 1, Len(wire)) /\ cycle' = cycle
    BY <1>8 DEF ReadFull
  <2>2. wire # <<>>
    <3>1. setup.readSize \in Nat \ {0} /\ Len(<<>>) = 0
      BY <1>1, SetupFacts
    <3> QED
      BY <2>1, <3>1
  <2>3. WholeCycle(wire, cycle) /\ Len(wire) = setup.readSize
    BY <1>3, <1>4, <2>2 DEF WholeCycle
  <2>4. SubSeq(wire, 1, setup.readSize) = wire /\ wire' = <<>>
    <3>1. SubSeq(wire, 1, Len(wire)) = wire
      BY <1>1
    <3>2. SubSeq(wire, Len(wire) + 1, Len(wire)) = <<>>
      BY <1>1
    <3> QED
      BY <2>1, <2>3, <3>1, <3>2
  <2>5. readings' = readings \o done.out /\ CheckHealth(done.fwd, now)
    BY <2>1, <2>4 DEF Handle
  <2>6. /\ IsObject(done.fwd) /\ done.fwd.pending = {} /\ done.fwd.timebase = next
        /\ \E x : done.out = <<x>> /\ IsCycleOf(x, cycle, now, next)
    BY <1>1, <1>4, <2>3, CycleRead
  <2> HIDE DEF done, next
  <2>7. fwd'.pending = {} /\ fwd'.timebase = next
    BY <2>5, <2>6, CheckHealthLeaves
  <2>8. PICK x : done.out = <<x>> /\ IsCycleOf(x, cycle, now, next)
    BY <2>6
  <2>9. PICK d \in setup.delays : now = cycle * NominalPeriod + d
    BY <1>4, <2>2
  <2>10. /\ Listed(readings') /\ Len(readings') = Len(readings) + 1 /\ readings' # <<>>
         /\ \A i \in 1 .. Len(readings) : readings'[i] = readings[i]
         /\ readings'[Len(readings) + 1] = x
    <3>1. Listed(<<x>>) /\ Len(<<x>>) = 1 /\ <<x>>[1] = x
      BY DEF Listed, ToSet
    <3>2. readings' = readings \o <<x>>
      BY <2>5, <2>8
    <3>3. /\ Listed(readings') /\ Len(readings') = Len(readings) + 1
          /\ \A i \in 1 .. Len(readings) : readings'[i] = readings[i]
          /\ readings'[Len(readings) + 1] = x
      <4> DEFINE one == <<x>>
      <4>1. Listed(one) /\ Len(one) = 1 /\ one[1] = x /\ readings' = readings \o one
        BY <3>1, <3>2
      <4> HIDE DEF one
      <4>2. /\ Listed(readings \o one) /\ Len(readings \o one) = Len(readings) + Len(one)
            /\ \A i \in 1 .. Len(readings) : (readings \o one)[i] = readings[i]
            /\ \A i \in 1 .. Len(one) : (readings \o one)[Len(readings) + i] = one[i]
        <5>1. Listed(readings) /\ Listed(one)
          BY <1>1, <4>1
        <5> QED
          BY <5>1, ListedConcat
      <4>3. 1 \in 1 .. Len(one)
        BY <4>1
      <4> QED
        BY <4>1, <4>2, <4>3
    <3>4. readings' # <<>>
      BY <1>1, <3>3
    <3> QED
      BY <3>3, <3>4
  <2>11. /\ readings # <<>> => Len(readings) # 0
         /\ readings = <<>> => Len(readings) = 0
    BY <1>1, EmptySeq DEF Listed
  <2>12. ASSUME readings # <<>> PROVE LastCycle(readings[Len(readings)]) < cycle
    <3> DEFINE L == Len(readings)  y == readings[L]
    <3>1. L \in 1 .. L /\ L \in Nat
      BY <1>1, <2>11, <2>12
    <3>2. TimedReading(y)
      BY <1>4, <3>1 DEF Counted
    <3>3. PICK b \in Nat : y.cycles = [type \in Expected |-> b]
      BY <3>2 DEF TimedReading
    <3>4. LastCycle(y) = b
      BY <3>3, LastCycleIs
    <3>5. \A t \in Expected : readings'[L].cycles[t] < readings'[L + 1].cycles[t]
      <4>1. \A i, j \in DOMAIN readings' : i < j =>
              \A t \in Expected : readings'[i].cycles[t] < readings'[j].cycles[t]
        <5>1. ReadingsTrue(readings, fwd.pending, Rest(wire, 0))'
          BY DEF ForwarderInv, GroupInv, Grouped
        <5> QED
          BY <5>1 DEF ReadingsTrue
      <4>2. L \in DOMAIN readings' /\ L + 1 \in DOMAIN readings' /\ L < L + 1
        BY <1>1, <2>10, <3>1, ListedFacts
      <4> QED
        BY <4>1, <4>2
    <3>6. readings'[L] = y /\ readings'[L + 1] = x
      BY <2>10, <3>1
    <3>7. "gyro" \in Expected /\ x.cycles = [type \in Expected |-> cycle]
      BY <2>8, ImuForwarderAssumption DEF IsCycleOf
    <3>8. b < cycle
      BY <3>3, <3>5, <3>6, <3>7
    <3> QED
      BY <3>4, <3>8
  <2>13. Counted(readings', next)
    <3> DEFINE more == readings'
    <3>1. /\ Listed(more) /\ Len(more) = Len(readings) + 1 /\ more # <<>>
          /\ \A i \in 1 .. Len(readings) : more[i] = readings[i]
          /\ more[Len(readings) + 1] = x
      BY <2>10
    <3> HIDE DEF more
    <3>2. Counted(more, Update(tb, now))
      BY <1>1, <1>4, <2>8, <2>9, <2>11, <2>12, <3>1, OneMoreCounted DEF next
    <3> QED
      BY <3>2 DEF more, next
  <2> QED
    BY <2>4, <2>7, <2>13
<1>9. ASSUME ReadTimesOut
      PROVE  fwd'.pending = {} /\ wire' = <<>> /\ Counted(readings', fwd'.timebase)
  <2>1. Handle(<<>>, Deadline) /\ wire' = <<>>
    BY <1>5, <1>9 DEF ReadTimesOut
  <2>2. FeedChunk(<<>>, Deadline) = [fwd |-> fwd, out |-> <<>>]
    <3>1. PICK f : FedOneByOne(Len(<<>>), <<>>, Deadline, f) /\ FeedChunk(<<>>, Deadline) = f[Len(<<>>)]
      <4>1. Len(<<>>) \in Nat
        OBVIOUS
      <4> QED
        BY <4>1, FeedChunkIs
    <3> QED
      BY <3>1 DEF FedOneByOne
  <2>3. readings' = readings \o <<>> /\ CheckHealth(fwd, Deadline)
    <3> DEFINE done == FeedChunk(<<>>, Deadline)
    <3>1. readings' = readings \o done.out /\ CheckHealth(done.fwd, Deadline)
      BY <2>1 DEF Handle
    <3>2. done.out = <<>> /\ done.fwd = fwd
      BY <2>2
    <3> HIDE DEF done
    <3> QED
      BY <3>1, <3>2
  <2>4. readings' = readings
    <3>1. readings \in Seq(ToSet(readings))
      BY <1>1 DEF Listed
    <3> QED
      BY <2>3, <3>1, ConcatEmptySeq
  <2>5. fwd'.pending = fwd.pending /\ fwd'.timebase = fwd.timebase
    BY <1>1, <2>3, CheckHealthLeaves
  <2> QED
    BY <1>4, <2>1, <2>4, <2>5
<1>10. \A w, c : WholeCycle(w, c)' <=> WholeCycle(w, c)
  BY <1>2 DEF WholeCycle
<1>11. CASE UNCHANGED vars
  <2>1. cycle' = cycle /\ now' = now /\ wire' = wire /\ fwd' = fwd /\ readings' = readings
    BY <1>11 DEF vars
  <2> QED
    BY <1>2, <1>4, <2>1 DEF WholeCycle, Counted, TimedReading, CountedGap, Tellable, Jitter
<1> QED
  <2>1. CASE \E t \in BurstTimes, damage \in setup.damages : DeviceBurst(t, damage)
    <3>1. PICK t \in BurstTimes, damage \in setup.damages : DeviceBurst(t, damage)
      BY <2>1
    <3>2. /\ fwd' = fwd /\ readings' = readings
          /\ wire' # <<>> =>
               /\ WholeCycle(wire', cycle')
               /\ \E d \in setup.delays : now' = cycle' * NominalPeriod + d
      BY <1>7, <3>1
    <3>3. Counted(readings', fwd'.timebase)
      BY <1>4, <3>2
    <3>4. /\ Counted(readings, fwd.timebase)' <=> Counted(readings', fwd'.timebase)
          /\ WholeCycle(wire, cycle)' <=> WholeCycle(wire', cycle')
      BY <1>2 DEF Counted, TimedReading, CountedGap, Tellable, Jitter, WholeCycle
    <3> QED
      BY <1>2, <1>4, <3>2, <3>3, <3>4
  <2>2. CASE ReadFull \/ ReadTimesOut
    <3>1. fwd'.pending = {} /\ wire' = <<>> /\ Counted(readings', fwd'.timebase)
      BY <1>8, <1>9, <2>2
    <3>2. Counted(readings, fwd.timebase)' <=> Counted(readings', fwd'.timebase)
      BY <1>2 DEF Counted, TimedReading, CountedGap, Tellable, Jitter
    <3> QED
      BY <3>1, <3>2
  <2>3. CASE UNCHANGED vars
    BY <1>11, <2>3
  <2> QED
    BY <2>1, <2>2, <2>3 DEF Next, Stop

\* The index told by the invariant.
LEMMA CycleIndex ==
  ASSUME ForwarderInv, CycleInv
  PROVE  IndexFollowsDevice
<1> SUFFICES ASSUME ReadsAreCycles, NEW ij \in Pairs,
                    readings[ij[1]].epoch = readings[ij[2]].epoch,
                    ij[1] + 1 .. ij[2] \subseteq {n \in 2 .. Len(readings) : Tellable(Gap(n))}
             PROVE  readings[ij[2]].index - readings[ij[1]].index
                      = LastCycle(readings[ij[2]]) - LastCycle(readings[ij[1]])
  BY DEF IndexFollowsDevice
<1> DEFINE i == ij[1]  j == ij[2]
<1>1. Len(readings) \in Nat /\ DOMAIN readings = 1 .. Len(readings)
  BY ListedFacts DEF ForwarderInv, GroupInv
<1>2. i \in 1 .. Len(readings) /\ j \in 1 .. Len(readings) /\ i < j
  BY <1>1 DEF Pairs
<1>3. Counted(readings, fwd.timebase)
  BY DEF CycleInv
<1>4. \A n \in i + 1 .. j : Tellable(GapIn(readings, n))
  BY DEF Gap, GapIn
<1>5. readings[i].epoch = readings[j].epoch
  OBVIOUS
<1> HIDE DEF i, j
<1>6. readings[j].index - readings[i].index = LastCycle(readings[j]) - LastCycle(readings[i])
  BY <1>1, <1>2, <1>3, <1>4, <1>5, IndexOverGaps
<1> QED
  BY <1>6 DEF i, j

\* The clock and the counts of the health check, in every state.
LEMMA HealthHolds == Spec => []HealthInv
<1>1. Init => HealthInv
  BY HealthInit
<1>2. ForwarderInv /\ HealthInv /\ [Next]_vars => HealthInv'
  BY HealthStep
<1> QED
  BY <1>1, <1>2, ForwarderHolds, PTL DEF Spec

(* "A drop shifts nothing downstream": while the reads of the port are cycles   *)
(* and the fit is not restarted, the inferred index of a reading advances by    *)
(* as many steps as the device made, over any run of gaps that can be told at   *)
(* all (UniformTimebase.update: the gap threshold, round, the clamp).           *)
THEOREM IndexFollowsDeviceCorrect == Spec => []IndexFollowsDevice
<1>1. Init => CycleInv
  BY CycleInit
<1>2. ForwarderInv /\ ForwarderInv' /\ HealthInv /\ CycleInv /\ [Next]_vars => CycleInv'
  BY CycleStep
<1>3. ForwarderInv /\ CycleInv => IndexFollowsDevice
  BY CycleIndex
<1> QED
  BY <1>1, <1>2, <1>3, ForwarderHolds, HealthHolds, PTL DEF Spec

(* A loss shows, in the indices of the readings around it and in the health that *)
(* is reported (UniformTimebase.update, maybe_build_health_report).            *)
THEOREM LossesToldCorrect == Spec => []LossesTold
<1>1. IndexFollowsDevice /\ HealthyMeansWhole => LossesTold
  BY DEF LossesTold
<1> QED
  BY <1>1, IndexFollowsDeviceCorrect, HealthyMeansWholeCorrect, PTL
=============================================================================
