-------------------------- MODULE AudioRing_proofs --------------------------
(***************************************************************************)
(* The ring for every capacity, word width, packet, read and threshold: as *)
(* long as the one seek is the one the decoder starts with, the decoder    *)
(* and the callback never touch the same sample, and what is read is what  *)
(* was written.                                                            *)
(***************************************************************************)
EXTENDS AudioRing, SequenceTheorems, TLAPS

-----------------------------------------------------------------------------
(* The inductive invariant *)

\* The position k samples after the read position.
Ahead(k) == Plus(readPos, k)

\* What is unread and what is being written fit the ring, what is being read
\* is unread.
Bounded ==
    /\ TypeOK
    /\ AvailableRead \in 0 .. Capacity - 1
    /\ ppc = "copy" => then = "loop" /\ AvailableRead + n <= Capacity - 1
    /\ cpc \in {"base", "copy"} => m <= AvailableRead
    /\ cpc = "copy" => base = readPos

\* Until the first seek is done nothing was written.
Unstarted == ppc \in {"unspawned", "clear"} \/ seekReq \/ (ppc = "write" /\ then = "clear")

StartsEmpty ==
    /\ seekReq => ppc = "loop"
    /\ ppc # "unspawned" => seeks = 1
    /\ Unstarted => /\ AvailableRead = 0 /\ cpc = "idle" /\ tail = 0
                    /\ ppc = "write" => want = 0

\* How far the samples after the read position are written.
Filled == AvailableRead + (IF ppc = "copy" THEN done ELSE 0)

Written == \A k \in 0 .. Filled - 1 : data[Index(Ahead(k))] = Ahead(k)

Heard == \A i \in DOMAIN out : out[i] = Plus(base, i - 1)

Enough == MaxChunk <= Threshold /\ MaxTail <= Threshold

NothingLost ==
    Enough => /\ lost = 0
              /\ ppc = "decode" => Threshold <= AvailableWrite
              /\ ppc = "write" /\ then = "loop" => want <= AvailableWrite

IInv == Bounded /\ StartsEmpty /\ Written /\ Heard /\ NothingLost

-----------------------------------------------------------------------------
(* Word arithmetic *)

LEMMA Constants ==
    /\ Capacity \in Nat /\ Capacity > 1 /\ Modulus \in Nat /\ Modulus > Capacity
    /\ Threshold \in Nat /\ MaxChunk \in Nat /\ MaxTail \in Nat /\ ReadLen \in Nat
    /\ ReadLen > 0 /\ MaxSeeks \in Nat
BY RingAssumption

LEMMA Words ==
    ASSUME NEW p \in Positions, NEW q \in Positions
    PROVE  /\ \A k \in 0 .. Capacity : Plus(p, k) \in Positions
           /\ Minus(p, q) \in Positions /\ Plus(q, Minus(p, q)) = p
           /\ Minus(p, p) = 0 /\ Plus(p, 0) = p
BY Constants DEF Plus, Minus, Positions

\* Moving on by j and then by k is moving on by j + k.
LEMMA PlusPlus ==
    ASSUME NEW p \in Positions, NEW j \in Nat, NEW k \in Nat, j + k <= Capacity
    PROVE  Plus(Plus(p, j), k) = Plus(p, j + k)
BY Constants DEF Plus, Positions

\* The writer moves away from the reader, the reader towards the writer.
LEMMA Distances ==
    ASSUME NEW p \in Positions, NEW q \in Positions, NEW k \in 0 .. Capacity
    PROVE  /\ Minus(p, q) + k <= Capacity => Minus(Plus(p, k), q) = Minus(p, q) + k
           /\ k <= Minus(p, q) => Minus(p, Plus(q, k)) = Minus(p, q) - k
<1>1. p \in Int /\ q \in Int /\ k \in Int /\ 0 <= p /\ p < Modulus /\ 0 <= q /\ q < Modulus
      /\ 0 <= k /\ k <= Capacity
    BY Constants DEF Positions
<1>2. ASSUME Minus(p, q) + k <= Capacity  PROVE Minus(Plus(p, k), q) = Minus(p, q) + k
    BY <1>1, <1>2, Constants DEF Plus, Minus
<1>3. ASSUME k <= Minus(p, q)  PROVE Minus(p, Plus(q, k)) = Minus(p, q) - k
    BY <1>1, <1>3, Constants DEF Plus, Minus
<1> QED  BY <1>2, <1>3

\* The only multiple of c between -c and c is 0.
LEMMA Multiple ==
    ASSUME NEW c \in Nat \ {0}, NEW k \in Int, c * k < c, -c < c * k
    PROVE  k = 0
<1>1. CASE k <= -1
    <2>1. c * k <= -c
        BY <1>1
    <2> QED  BY <2>1
<1>2. CASE k >= 1
    <2>1. c * k >= c
        BY <1>2
    <2> QED  BY <2>1
<1> QED  BY <1>1, <1>2

LEMMA Distribute ==
    ASSUME NEW c \in Int, NEW x \in Int, NEW y \in Int, NEW z \in Int
    PROVE  c * (x - y + z) = c * x - c * y + c * z
OBVIOUS

LEMMA Divided ==
    ASSUME NEW c \in Nat \ {0}, NEW a \in Nat
    PROVE  a \div c \in Int /\ a % c \in 0 .. c - 1 /\ a = c * (a \div c) + (a % c)
OBVIOUS

\* Less than the capacity apart, two positions have different indices, also
\* where the word wraps between them.
LEMMA IndicesApart ==
    ASSUME NEW p \in Positions, NEW j \in Nat, NEW k \in Nat, j < k, k < Capacity
    PROVE  Index(Plus(p, j)) # Index(Plus(p, k))
<1> DEFINE c == Capacity
           a == Plus(p, j)
           b == Plus(p, k)
           qa == a \div c
           qb == b \div c
           w == Modulus \div c
<1>0. c \in Nat \ {0} /\ Modulus \in Nat /\ Modulus % c = 0
    BY RingAssumption
<1>1. a \in Positions /\ b \in Positions
    BY Words, Constants
<1>2. a \in Nat /\ b \in Nat
    BY <1>1 DEF Positions
<1>3. \/ b - a = k - j
      \/ b - a = k - j - Modulus
    BY Constants DEF Plus, Positions
<1>4. k - j \in Int /\ k - j < c /\ 0 < k - j
    BY Constants
<1> SUFFICES ASSUME a % c = b % c  PROVE FALSE
    BY DEF Index
<1> HIDE DEF a, b, c
<1>5. /\ qa \in Int /\ a % c \in Int /\ a = c * qa + (a % c)
      /\ qb \in Int /\ b % c \in Int /\ b = c * qb + (b % c)
    BY <1>0, <1>2, Divided
<1>6. w \in Int /\ Modulus = c * w
    BY <1>0, Divided
<1> HIDE DEF w, qa, qb
<1>7. b - a = c * qb - c * qa
    BY <1>0, <1>2, <1>5
<1>8. CASE b - a = k - j
    <2> DEFINE x == qb - qa + 0
    <2>0. x \in Int /\ c * x = c * qb - c * qa + c * 0
        BY <1>0, <1>5, Distribute
    <2>1. c * x = k - j
        BY <1>0, <1>4, <1>5, <1>7, <1>8, <2>0
    <2> HIDE DEF x
    <2>2. x = 0
        BY <1>0, <1>4, <2>0, <2>1, Multiple
    <2> QED  BY <1>0, <1>4, <2>1, <2>2
<1>9. CASE b - a = k - j - Modulus
    <2> DEFINE x == qb - qa + w
    <2>0. x \in Int /\ c * x = c * qb - c * qa + c * w
        BY <1>0, <1>5, <1>6, Distribute
    <2>1. c * x = k - j
        BY <1>0, <1>4, <1>5, <1>6, <1>7, <1>9, <2>0
    <2> HIDE DEF x
    <2>2. x = 0
        BY <1>0, <1>4, <2>0, <2>1, Multiple
    <2> QED  BY <1>0, <1>4, <2>1, <2>2
<1> QED  BY <1>3, <1>8, <1>9

\* What the free room is while the ring is not overfull.
LEMMA Room ==
    ASSUME Bounded
    PROVE  /\ AvailableWrite = Capacity - 1 - AvailableRead
           /\ AvailableWrite \in 0 .. Capacity - 1
           /\ AvailableRead \in Int
           /\ writePos = Plus(readPos, AvailableRead)
           /\ writePos \in Positions /\ readPos \in Positions
<1>1. AvailableRead \in 0 .. Capacity - 1 /\ writePos \in Positions /\ readPos \in Positions
    BY DEF Bounded, TypeOK
<1>2. AvailableWrite = Capacity - 1 - AvailableRead
    BY <1>1, Constants DEF AvailableWrite, Minus
<1>3. writePos = Plus(readPos, AvailableRead)
    BY <1>1, Words DEF AvailableRead
<1> QED  BY <1>1, <1>2, <1>3, Constants
LEMMA Free ==
    ASSUME NEW r \in 0 .. Capacity - 1
    PROVE  Minus(Capacity - 1, r) = Capacity - 1 - r
BY Constants DEF Minus

-----------------------------------------------------------------------------
(* The invariant is kept *)

LEMMA Initially == Init => IInv
<1> SUFFICES ASSUME Init  PROVE IInv
    OBVIOUS
<1>1. 0 \in Positions /\ Modulus \in Nat /\ Modulus > 0
    BY Constants DEF Positions
<1>2. AvailableRead = 0
    BY <1>1, Words DEF Init, AvailableRead
<1>3. TypeOK
    <2>1. data \in [0 .. Capacity - 1 -> Positions \cup {NoSample}]
        BY DEF Init
    <2>2. out \in Seq(Positions) /\ Len(out) = 0
        BY EmptySeq DEF Init
    <2>3. n \in 0 .. Capacity - 1 /\ done \in 0 .. n /\ tail \in 0 .. MaxTail
          /\ seeks \in 0 .. MaxSeeks /\ m \in 0 .. ReadLen
        BY Constants DEF Init
    <2> QED  BY <1>1, <2>1, <2>2, <2>3 DEF Init, TypeOK
<1>4. Bounded /\ StartsEmpty
    BY <1>2, <1>3, Constants DEF Init, Bounded, StartsEmpty, Unstarted
<1>5. Written /\ Heard /\ NothingLost
    BY <1>2 DEF Init, Written, Filled, Heard, NothingLost
<1> QED  BY <1>4, <1>5 DEF IInv

\* What every step of the proof uses of the invariant.
LEMMA Facts ==
    ASSUME IInv
    PROVE  /\ TypeOK /\ Bounded /\ StartsEmpty /\ Written /\ Heard /\ NothingLost
           /\ data \in [0 .. Capacity - 1 -> Positions \cup {NoSample}]
           /\ AvailableRead \in Int /\ 0 <= AvailableRead /\ AvailableRead < Capacity
           /\ n \in Int /\ 0 <= n /\ n < Capacity
           /\ done \in Int /\ 0 <= done /\ done <= n
           /\ m \in Int /\ 0 <= m /\ out \in Seq(Positions) /\ Len(out) \in Nat
           /\ want \in Nat /\ lost \in Nat
BY Constants, Room DEF IInv, Bounded, TypeOK

\* The only request is the one that starts the decoder.
LEMMA FirstSeek ==
    ASSUME IInv, MaxSeeks = 1, RequestSeek
    PROVE  /\ ppc = "unspawned" /\ ppc' = "loop" /\ seeks = 0 /\ seeks' = 1
BY Facts DEF StartsEmpty, TypeOK, RequestSeek

\* What a callback has yet to copy is written.
LEMMA NextSample ==
    ASSUME IInv, cpc = "copy", Len(out) < m
    PROVE  /\ data[Index(Plus(base, Len(out)))] = Plus(base, Len(out))
           /\ Plus(base, Len(out)) \in Positions
<1>0. base = readPos /\ m <= AvailableRead /\ Filled \in Int /\ AvailableRead <= Filled
    BY Facts DEF Bounded, Filled
<1>1. base = readPos /\ Len(out) \in 0 .. Filled - 1 /\ Len(out) \in 0 .. Capacity
    BY <1>0, Facts, Constants
<1>2. Plus(readPos, Len(out)) \in Positions
    BY <1>1, Facts, Room, Words
<1> QED  BY <1>1, <1>2, Facts DEF Written, Ahead

\* How far apart the two sides are after a step.
LEMMA UnreadAfter ==
    ASSUME IInv, [Next]_vars
    PROVE  \/ Clear /\ AvailableRead' = 0
           \/ Publish /\ AvailableRead' = AvailableRead + n /\ writePos' \in Positions
           \/ EndRead /\ AvailableRead' = AvailableRead - m /\ readPos' \in Positions
           \/ /\ UNCHANGED <<writePos, readPos>> /\ AvailableRead' = AvailableRead
              /\ ~Clear /\ ~Publish /\ ~EndRead
<1>1. CASE Clear
    BY <1>1, Room, Words, Facts DEF Clear, AvailableRead
<1>2. CASE Publish
    <2>1. n \in 0 .. Capacity /\ AvailableRead + n <= Capacity
        BY <1>2, Facts, Constants DEF Bounded, Publish
    <2> QED  BY <1>2, <2>1, Facts, Room, Words, Distances DEF Publish, Published, AvailableRead
<1>3. CASE EndRead
    <2>1. m \in 0 .. Capacity /\ m <= AvailableRead
        BY <1>3, Facts, Constants DEF Bounded, EndRead
    <2> QED  BY <1>3, <2>1, Facts, Room, Words, Distances DEF EndRead, Released, AvailableRead
<1>4. CASE ~Clear /\ ~Publish /\ ~EndRead
    <2>1. UNCHANGED <<writePos, readPos>>
        BY <1>4 DEF Next, Decoder, Callback, RequestSeek, TakeSeek, TakePacket, DecodePacket,
           NoSamples, EndOfClip, BeginWrite, CopyIn, BeginRead, LoadBase, CopyOut, vars
    <2> QED  BY <1>4, <2>1 DEF AvailableRead
<1> QED  BY <1>1, <1>2, <1>3, <1>4

LEMMA Short ==
    ASSUME NEW a \in Nat, NEW b \in Nat, NEW c \in Int, 0 <= c, c <= b
    PROVE  a + b - c \in Nat /\ 0 \in 0 .. c
OBVIOUS

LEMMA BoundedKept ==
    ASSUME IInv, MaxSeeks = 1, [Next]_vars
    PROVE  Bounded'
<1> USE DEF Bounded, TypeOK
<1>0. AvailableRead \in Int /\ AvailableRead' \in Int /\ n \in Int /\ m \in Int /\ want \in Int
    BY Facts, UnreadAfter
<1>1. CASE RequestSeek
    <2>1. AvailableRead' = AvailableRead
        BY <1>1 DEF RequestSeek, AvailableRead
    <2> QED  BY <1>1, <2>1, FirstSeek, Facts DEF RequestSeek, consumerVars
<1>2. CASE TakeSeek
    <2>1. AvailableRead' = AvailableRead
        BY <1>2 DEF TakeSeek, AvailableRead
    <2>2. want' \in Nat /\ tail' \in 0 .. MaxTail
        BY <1>2, Facts, Constants DEF TakeSeek, FlushResampler
    <2> QED  BY <1>2, <2>1, <2>2, Facts DEF TakeSeek, consumerVars
<1>3. CASE Clear
    <2>1. AvailableRead' = 0 /\ cpc = "idle"
        BY <1>3, Facts, UnreadAfter DEF StartsEmpty, Unstarted, Clear, Publish, EndRead
    <2> QED  BY <1>3, <2>1, Facts, Constants DEF Clear, consumerVars
<1>4. CASE DecodePacket
    <2>1. AvailableRead' = AvailableRead
        BY <1>4 DEF DecodePacket, AvailableRead
    <2>2. want' \in Nat
        BY <1>4, Constants DEF DecodePacket
    <2> QED  BY <1>4, <2>1, <2>2, Facts DEF DecodePacket, consumerVars
<1>5. CASE EndOfClip
    <2>1. AvailableRead' = AvailableRead
        BY <1>5 DEF EndOfClip, AvailableRead
    <2>2. want' \in Nat /\ tail' \in 0 .. MaxTail
        BY <1>5, Facts, Constants DEF EndOfClip, FlushResampler
    <2> QED  BY <1>5, <2>1, <2>2, Facts DEF EndOfClip, consumerVars
<1>6. CASE BeginWrite
    <2>1. AvailableRead' = AvailableRead
        BY <1>6 DEF BeginWrite, AvailableRead
    <2>2. n' \in 0 .. Capacity - 1 /\ n' <= want /\ AvailableRead + n' <= Capacity - 1
        BY <1>6, Facts, Room, Constants DEF BeginWrite, AtMost
    <2>3. lost' \in Nat /\ done' \in 0 .. n'
        <3>1. lost' = (IF then = "clear" THEN lost ELSE lost + want - n') /\ done' = 0
            BY <1>6 DEF BeginWrite
        <3>2. lost \in Nat /\ want \in Nat /\ n' \in Int /\ 0 <= n' /\ n' <= want
            BY <2>2, Facts, Constants
        <3>3. lost + want - n' \in Nat /\ 0 \in 0 .. n'
            BY <3>2, Short
        <3> QED  BY <3>1, <3>2, <3>3
    <2>4. then \in {"loop", "clear"} /\ (then = "clear" => n' = 0)
        BY <1>6, <2>2, Facts, Constants DEF BeginWrite, StartsEmpty, Unstarted
    <2> QED  BY <1>6, <2>1, <2>2, <2>3, <2>4, Facts DEF BeginWrite, consumerVars
<1>7. CASE CopyIn
    <2>1. AvailableRead' = AvailableRead
        BY <1>7 DEF CopyIn, AvailableRead
    <2>2. Plus(writePos, done) \in Positions
        <3>1. writePos \in Positions
            BY Facts
        <3>2. done \in 0 .. Capacity
            BY Facts, Constants
        <3> QED  BY <3>1, <3>2, Words
    <2>3. data' \in [0 .. Capacity - 1 -> Positions \cup {NoSample}]
        BY <1>7, <2>2, Facts DEF CopyIn
    <2>4. done' \in 0 .. n
        BY <1>7, Facts, Constants DEF CopyIn
    <2> QED  BY <1>7, <2>1, <2>3, <2>4, Facts DEF CopyIn, consumerVars
<1>8. CASE Publish
    <2>1. AvailableRead' = AvailableRead + n /\ writePos' \in Positions
        BY <1>8, UnreadAfter DEF Publish, Clear, EndRead, consumerVars
    <2>2. AvailableRead' \in 0 .. Capacity - 1 /\ AvailableRead <= AvailableRead' /\ then = "loop"
        BY <1>0, <1>8, <2>1, Facts, Constants DEF Publish
    <2>3. cpc \in {"base", "copy"} => m <= AvailableRead'
        BY <1>0, <2>2, Facts
    <2> QED  BY <1>8, <2>1, <2>2, <2>3, Facts DEF Publish, consumerVars
<1>9. CASE BeginRead
    <2>1. AvailableRead' = AvailableRead
        BY <1>9 DEF BeginRead, AvailableRead
    <2>2. m' \in 0 .. ReadLen /\ m' <= AvailableRead
        BY <1>9, Facts, Constants DEF BeginRead, ToRead, AtMost
    <2> QED  BY <1>9, <2>1, <2>2, Facts DEF BeginRead, producerVars
<1>10. CASE LoadBase
    <2>1. AvailableRead' = AvailableRead
        BY <1>10 DEF LoadBase, AvailableRead
    <2>2. out' \in Seq(Positions) /\ Len(out') = 0
        BY <1>10, EmptySeq DEF LoadBase
    <2> QED  BY <1>10, <2>1, <2>2, Facts DEF LoadBase, producerVars
<1>11. CASE CopyOut
    <2>1. AvailableRead' = AvailableRead
        BY <1>11 DEF CopyOut, AvailableRead
    <2>2. out' \in Seq(Positions) /\ Len(out') = Len(out) + 1
        BY <1>11, Facts, NextSample, AppendProperties DEF CopyOut
    <2>3. Len(out') <= m
        BY <1>11, <2>2, Facts DEF CopyOut
    <2> QED  BY <1>11, <2>1, <2>2, <2>3, Facts DEF CopyOut, producerVars
<1>12. CASE EndRead
    <2>1. AvailableRead' = AvailableRead - m /\ readPos' \in Positions
        BY <1>12, UnreadAfter DEF EndRead, Clear, Publish, consumerVars
    <2>2. AvailableRead' \in 0 .. Capacity - 1 /\ AvailableRead' <= AvailableRead
        BY <1>0, <1>12, <2>1, Facts, Constants DEF EndRead
    <2>3. ppc = "copy" => AvailableRead' + n <= Capacity - 1
        <3> SUFFICES ASSUME ppc = "copy"  PROVE AvailableRead' + n <= Capacity - 1
            OBVIOUS
        <3> DEFINE r == AvailableRead
                   s == AvailableRead'
        <3>1. r + n <= Capacity - 1 /\ r \in Int /\ s \in Int /\ s <= r /\ n \in Int
            BY <1>0, <2>2, Facts
        <3> HIDE DEF r, s
        <3>2. s + n <= Capacity - 1
            BY <3>1, Constants
        <3> QED  BY <3>2 DEF s
    <2> QED  BY <1>12, <2>1, <2>2, <2>3, Facts DEF EndRead, producerVars
<1>13. CASE TakePacket
    <2>1. AvailableRead' = AvailableRead
        BY <1>13 DEF TakePacket, AvailableRead
    <2> QED  BY <1>13, <2>1, Facts DEF TakePacket, consumerVars
<1>14. CASE NoSamples
    <2>1. AvailableRead' = AvailableRead
        BY <1>14 DEF NoSamples, AvailableRead
    <2> QED  BY <1>14, <2>1, Facts DEF NoSamples, consumerVars
<1>15. CASE UNCHANGED vars
    <2>1. AvailableRead' = AvailableRead
        BY <1>15 DEF vars, AvailableRead
    <2> QED  BY <1>15, <2>1, Facts DEF vars, producerVars, consumerVars
<1> QED  BY <1>1, <1>2, <1>3, <1>4, <1>5, <1>6, <1>7, <1>8, <1>9, <1>10, <1>11, <1>12, <1>13,
            <1>14, <1>15
         DEF Next, Decoder, Callback
LEMMA StartsEmptyKept ==
    ASSUME IInv, MaxSeeks = 1, [Next]_vars
    PROVE  StartsEmpty'
<1> USE DEF StartsEmpty, Unstarted
<1>0. /\ StartsEmpty /\ tail \in 0 .. MaxTail
      /\ ppc \in {"unspawned", "loop", "clear", "decode", "write", "copy"}
      /\ then \in {"loop", "clear"}
      /\ cpc \in {"idle", "base", "copy"} /\ (ppc = "copy" => then = "loop")
    BY Facts DEF TypeOK, Bounded
<1>1. CASE RequestSeek
    <2>1. AvailableRead' = AvailableRead
        BY <1>1 DEF RequestSeek, AvailableRead
    <2> QED  BY <1>0, <1>1, <2>1, FirstSeek DEF RequestSeek, consumerVars
<1>2. CASE TakeSeek
    <2>1. AvailableRead' = AvailableRead
        BY <1>2 DEF TakeSeek, AvailableRead
    <2>2. tail = 0 => want' = 0 /\ tail' = 0
        BY <1>2 DEF TakeSeek, FlushResampler
    <2> QED  BY <1>0, <1>2, <2>1, <2>2 DEF TakeSeek, consumerVars
<1>3. CASE Clear
    BY <1>0, <1>3 DEF Clear
<1>4. CASE DecodePacket
    BY <1>0, <1>4 DEF DecodePacket
<1>5. CASE EndOfClip
    BY <1>0, <1>5 DEF EndOfClip
<1>6. CASE BeginWrite
    <2>1. AvailableRead' = AvailableRead
        BY <1>6 DEF BeginWrite, AvailableRead
    <2> QED  BY <1>0, <1>6, <2>1 DEF BeginWrite, consumerVars
<1>7. CASE CopyIn
    BY <1>0, <1>7 DEF CopyIn
<1>8. CASE Publish
    BY <1>0, <1>8 DEF Publish
<1>9. CASE BeginRead
    <2>1. AvailableRead > 0
        BY <1>9, Facts, Constants DEF BeginRead, ToRead, AtMost
    <2> QED  BY <1>0, <1>9, <2>1 DEF BeginRead, producerVars
<1>10. CASE LoadBase
    BY <1>0, <1>10 DEF LoadBase, producerVars
<1>11. CASE CopyOut
    BY <1>0, <1>11 DEF CopyOut, producerVars
<1>12. CASE EndRead
    BY <1>0, <1>12 DEF EndRead, producerVars
<1>13. CASE TakePacket \/ NoSamples
    BY <1>0, <1>13 DEF TakePacket, NoSamples
<1>14. CASE UNCHANGED vars
    <2>1. AvailableRead' = AvailableRead
        BY <1>14 DEF vars, AvailableRead
    <2> QED  BY <1>0, <1>14, <2>1 DEF vars, producerVars, consumerVars
<1> QED  BY <1>1, <1>2, <1>3, <1>4, <1>5, <1>6, <1>7, <1>8, <1>9, <1>10, <1>11, <1>12, <1>13,
            <1>14
         DEF Next, Decoder, Callback

LEMMA WrittenKept ==
    ASSUME IInv, MaxSeeks = 1, [Next]_vars
    PROVE  Written'
<1>0. readPos \in Positions /\ writePos = Plus(readPos, AvailableRead) /\ Capacity \in Int
    BY Facts, Room, Constants
<1>1. CASE CopyIn
    <2> DEFINE f == AvailableRead + done
               at == Index(Ahead(f))
    <2>1. f \in Nat /\ f < Capacity /\ Filled = f /\ Filled' = f + 1
        <3>1. ppc = "copy" /\ ppc' = "copy" /\ done < n /\ done' = done + 1
              /\ AvailableRead' = AvailableRead
            BY <1>1 DEF CopyIn, AvailableRead
        <3>2. AvailableRead + n <= Capacity - 1
            BY <3>1, Facts DEF Bounded
        <3>3. f \in Nat /\ f < Capacity
            BY <1>0, <3>1, <3>2, Facts
        <3>4. AvailableRead + (done + 1) = f + 1
            BY Facts
        <3> QED  BY <3>1, <3>3, <3>4 DEF Filled
    <2>2. Plus(writePos, done) = Ahead(f)
        BY <1>0, <2>1, Facts, PlusPlus DEF Ahead
    <2>3. data' = [data EXCEPT ![at] = Ahead(f)] /\ readPos' = readPos
        BY <1>1, <2>2 DEF CopyIn
    <2>4. at \in 0 .. Capacity - 1
        <3>1. f \in 0 .. Capacity
            BY <2>1, <1>0
        <3>2. Ahead(f) \in Nat
            BY <1>0, <3>1, Words DEF Ahead, Positions
        <3> QED  BY <3>2, Constants, Divided DEF Index
    <2> SUFFICES ASSUME NEW k \in 0 .. f  PROVE data'[Index(Ahead(k))] = Ahead(k)
        BY <2>1, <2>3 DEF Written, Ahead
    <2>5. CASE k = f
        BY <2>3, <2>4, <2>5, Facts
    <2>6. CASE k < f
        <3>1. k \in Nat /\ k \in 0 .. Filled - 1
            BY <2>1, <2>6
        <3>2. Index(Ahead(k)) # at
            BY <1>0, <2>1, <2>6, <3>1, IndicesApart DEF Ahead
        <3>3. data[Index(Ahead(k))] = Ahead(k)
            BY <3>1, Facts DEF Written
        <3>4. Index(Ahead(k)) \in 0 .. Capacity - 1
            <4>1. k \in 0 .. Capacity
                BY <2>1, <2>6, <1>0
            <4>2. Ahead(k) \in Nat
                BY <1>0, <4>1, Words DEF Ahead, Positions
            <4> QED  BY <4>2, Constants, Divided DEF Index
        <3> QED  BY <2>3, <3>2, <3>3, <3>4, Facts
    <2> QED  BY <2>1, <2>5, <2>6
<1>2. CASE EndRead
    <2>1. /\ AvailableRead' = AvailableRead - m /\ readPos' = Plus(readPos, m) /\ data' = data
          /\ ppc' = ppc /\ done' = done /\ m <= AvailableRead
        BY <1>2, UnreadAfter, Facts
           DEF EndRead, Clear, Publish, consumerVars, producerVars, Released, Bounded
    <2>2. Filled \in Int /\ Filled' = Filled - m /\ Filled <= Capacity
        <3>1. (IF ppc = "copy" THEN done ELSE 0) \in Int
              /\ AvailableRead + (IF ppc = "copy" THEN done ELSE 0) <= Capacity
            BY <1>0, Facts DEF Bounded
        <3> QED  BY <2>1, <3>1, Facts DEF Filled
    <2> SUFFICES ASSUME NEW k \in 0 .. Filled' - 1
                 PROVE  data[Index(Plus(readPos', k))] = Plus(readPos', k)
        BY <2>1 DEF Written, Ahead
    <2>3. k \in Nat /\ m \in Nat /\ m + k \in 0 .. Filled - 1 /\ m + k <= Capacity
        BY <1>0, <2>2, Facts
    <2>4. Plus(readPos', k) = Ahead(m + k)
        BY <1>0, <2>1, <2>3, PlusPlus DEF Ahead
    <2> QED  BY <2>3, <2>4, Facts DEF Written
<1>3. CASE Clear
    <2>1. AvailableRead' = 0 /\ ppc' = "loop"
        BY <1>3, UnreadAfter DEF Clear, Publish, EndRead, producerVars
    <2> QED  BY <2>1 DEF Written, Filled
<1>4. CASE ~CopyIn /\ ~EndRead /\ ~Clear
    <2>1. readPos' = readPos /\ data' = data
        BY <1>4 DEF Next, Decoder, Callback, RequestSeek, TakeSeek, TakePacket, DecodePacket,
           NoSamples, EndOfClip, BeginWrite, Publish, BeginRead, LoadBase, CopyOut, vars
    <2>2. Filled' = Filled
        <3>1. CASE Publish
            <4>1. AvailableRead' = AvailableRead + n /\ done = n /\ ppc = "copy" /\ ppc' # "copy"
                BY <3>1, UnreadAfter, Facts
                   DEF Publish, Clear, EndRead, consumerVars, Bounded
            <4> QED  BY <4>1, Facts DEF Filled
        <3>2. CASE ~Publish
            <4>1. AvailableRead' = AvailableRead
                BY <1>4, <3>2, UnreadAfter
            <4>2. \/ ppc' = ppc /\ done' = done
                  \/ ppc # "copy" /\ ppc' # "copy"
                  \/ ppc # "copy" /\ done' = 0
                BY <1>4, <3>2, Facts DEF Next, Decoder, Callback, RequestSeek, TakeSeek,
                   TakePacket, DecodePacket, NoSamples, EndOfClip, BeginWrite, BeginRead, LoadBase, CopyOut, vars,
                   producerVars
            <4> QED  BY <4>1, <4>2, Facts DEF Filled
        <3> QED  BY <3>1, <3>2
    <2> QED  BY <2>1, <2>2, Facts DEF Written, Ahead
<1> QED  BY <1>1, <1>2, <1>3, <1>4
LEMMA HeardKept ==
    ASSUME IInv, [Next]_vars
    PROVE  Heard'
<1>1. CASE LoadBase
    BY <1>1, EmptySeq DEF LoadBase, Heard
<1>2. CASE CopyOut
    <2> DEFINE x == data[Index(Plus(base, Len(out)))]
    <2>1. x = Plus(base, Len(out)) /\ x \in Positions /\ base' = base
        BY <1>2, NextSample DEF CopyOut
    <2>2. out' = Append(out, x)
        BY <1>2 DEF CopyOut
    <2> HIDE DEF x
    <2>3. /\ Len(out') = Len(out) + 1 /\ out' \in Seq(Positions)
          /\ \A i \in 1 .. Len(out) : out'[i] = out[i]
          /\ out'[Len(out) + 1] = x
        BY <2>1, <2>2, Facts, AppendProperties
    <2> SUFFICES ASSUME NEW i \in DOMAIN out'  PROVE out'[i] = Plus(base, i - 1)
        BY <2>1 DEF Heard
    <2>4. i \in 1 .. Len(out) + 1
        BY <2>3
    <2>5. CASE i = Len(out) + 1
        <3>1. i - 1 = Len(out)
            BY <2>5, Facts
        <3> QED  BY <2>1, <2>3, <2>5, <3>1
    <2>6. CASE i # Len(out) + 1
        <3>1. i \in 1 .. Len(out) /\ i \in DOMAIN out
            BY <2>4, <2>6, Facts
        <3> QED  BY <2>3, <3>1, Facts DEF Heard
    <2> QED  BY <2>5, <2>6
<1>3. CASE ~LoadBase /\ ~CopyOut
    <2>1. out' = out /\ base' = base
        BY <1>3 DEF Next, Decoder, Callback, RequestSeek, TakeSeek, Clear, TakePacket,
           DecodePacket, NoSamples, EndOfClip, BeginWrite, CopyIn, Publish, BeginRead, EndRead, vars, consumerVars
    <2> QED  BY <2>1, Facts DEF Heard
<1> QED  BY <1>1, <1>2, <1>3

LEMMA NothingLostKept ==
    ASSUME IInv, MaxSeeks = 1, [Next]_vars
    PROVE  NothingLost'
<1> SUFFICES ASSUME Enough
             PROVE  /\ lost' = 0
                    /\ ppc' = "decode" => Threshold <= AvailableWrite'
                    /\ ppc' = "write" /\ then' = "loop" => want' <= AvailableWrite'
    BY DEF NothingLost, Enough
<1>0. /\ lost = 0 /\ (ppc = "decode" => Threshold <= AvailableWrite)
      /\ (ppc = "write" /\ then = "loop" => want <= AvailableWrite)
      /\ AvailableWrite = Capacity - 1 - AvailableRead /\ AvailableWrite \in Int
      /\ MaxChunk <= Threshold /\ MaxTail <= Threshold
    BY Facts, Room DEF NothingLost, Enough
<1>1. AvailableRead' \in 0 .. Capacity - 1 /\ AvailableWrite' = Capacity - 1 - AvailableRead'
      /\ AvailableWrite' \in Int
    <2>1. AvailableRead' \in 0 .. Capacity - 1
        BY BoundedKept DEF Bounded
    <2> QED  BY <2>1, Free, Constants DEF AvailableWrite
<1>2. CASE DecodePacket \/ EndOfClip
    <2>1. lost' = lost /\ AvailableRead' = AvailableRead /\ Threshold <= AvailableWrite
        BY <1>0, <1>2 DEF DecodePacket, EndOfClip, AvailableRead
    <2>2. want' \in Int /\ (want' <= MaxChunk \/ want' <= MaxTail)
        BY <1>2, Facts, Constants DEF DecodePacket, EndOfClip, FlushResampler, TypeOK
    <2>3. AvailableWrite' = AvailableWrite
        BY <1>0, <1>1, <2>1
    <2>4. want' <= AvailableWrite
        BY <1>0, <2>1, <2>2, Constants
    <2> QED  BY <1>0, <1>2, <2>1, <2>3, <2>4 DEF DecodePacket, EndOfClip
<1>3. CASE BeginWrite
    <2>1. then \in {"loop", "clear"} /\ ppc = "write" /\ ppc' # "write"
        BY <1>3, Facts DEF BeginWrite, TypeOK
    <2>2. CASE then = "loop"
        <3>1. n' = want
            BY <1>0, <1>3, <2>1, <2>2, Facts DEF BeginWrite, AtMost
        <3> QED  BY <1>0, <1>3, <2>1, <2>2, <3>1, Facts DEF BeginWrite
    <2>3. CASE then = "clear"
        BY <1>0, <1>3, <2>1, <2>3 DEF BeginWrite
    <2> QED  BY <2>1, <2>2, <2>3
<1>4. CASE EndRead
    <2>1. AvailableRead' = AvailableRead - m
        BY <1>4, UnreadAfter DEF EndRead, Clear, Publish, consumerVars
    <2>2. AvailableWrite <= AvailableWrite'
        <3> DEFINE r == AvailableRead
                   s == AvailableRead'
                   a == AvailableWrite
                   b == AvailableWrite'
        <3>1. /\ s = r - m /\ m \in Int /\ 0 <= m /\ r \in Int /\ Capacity \in Int
              /\ a = Capacity - 1 - r /\ b = Capacity - 1 - s
            BY <1>0, <1>1, <2>1, Facts, Constants
        <3> HIDE DEF r, s, a, b
        <3>2. a <= b
            BY <3>1
        <3> QED  BY <3>2 DEF a, b
    <2>3. lost' = lost /\ ppc' = ppc /\ then' = then /\ want' = want
        BY <1>4 DEF EndRead, producerVars
    <2>4. /\ Threshold <= AvailableWrite => Threshold <= AvailableWrite'
          /\ want <= AvailableWrite => want <= AvailableWrite'
        <3> DEFINE a == AvailableWrite
                   b == AvailableWrite'
        <3>1. a \in Int /\ b \in Int /\ a <= b /\ want \in Int /\ Threshold \in Int
            BY <1>0, <1>1, <2>2, Facts, Constants
        <3> HIDE DEF a, b
        <3>2. /\ Threshold <= a => Threshold <= b
              /\ want <= a => want <= b
            BY <3>1
        <3> QED  BY <3>2 DEF a, b
    <2> QED  BY <1>0, <2>3, <2>4
<1>5. CASE TakePacket
    <2>1. Threshold <= AvailableWrite /\ AvailableWrite' = AvailableWrite /\ lost' = lost
          /\ ppc' = "decode"
        BY <1>5 DEF TakePacket, EnoughRoom, AvailableWrite, AvailableRead
    <2> QED  BY <1>0, <2>1
<1>6. CASE ~TakePacket /\ ~DecodePacket /\ ~EndOfClip /\ ~BeginWrite /\ ~EndRead
    <2>1. lost' = lost
        BY <1>6 DEF Next, Decoder, Callback, RequestSeek, TakeSeek, Clear, NoSamples, CopyIn,
           Publish, BeginRead, LoadBase, CopyOut, vars, producerVars
    <2>2. \/ ppc' \notin {"decode", "write"}
          \/ ppc' = "write" /\ then' = "clear"
          \/ ppc' = ppc /\ then' = then /\ want' = want /\ UNCHANGED <<writePos, readPos>>
        BY <1>6, Facts DEF Bounded, Next, Decoder, Callback, RequestSeek, TakeSeek, Clear,
           NoSamples, CopyIn, Publish, BeginRead, LoadBase, CopyOut, vars, producerVars
    <2>3. UNCHANGED <<writePos, readPos>> => AvailableWrite' = AvailableWrite
        BY DEF AvailableWrite, AvailableRead
    <2> QED  BY <1>0, <2>1, <2>2, <2>3
<1> QED  BY <1>2, <1>3, <1>4, <1>5, <1>6

-----------------------------------------------------------------------------
(* The theorems. A second seek of a ring that plays may clear it while the *)
(* callback copies, and NoOverlap fails; the editor spawns a decoder with  *)
(* its seek pending and never asks for another.                            *)

\* The inductive invariant holds throughout every behaviour.
THEOREM Invariance == MaxSeeks = 1 => (Spec => []IInv)
<1> SUFFICES ASSUME MaxSeeks = 1  PROVE Spec => []IInv
    OBVIOUS
<1>1. Init => IInv
    BY Initially
<1>2. IInv /\ [Next]_vars => IInv'
    BY BoundedKept, StartsEmptyKept, WrittenKept, HeardKept, NothingLostKept DEF IInv
<1> QED  BY <1>1, <1>2, PTL DEF Spec

\* Every variable stays in its domain; the positions are never further apart
\* than the ring is long, so no write runs past what is still to be read.
THEOREM TypeCorrect == MaxSeeks = 1 => (Spec => []TypeOK)
<1> SUFFICES ASSUME MaxSeeks = 1  PROVE Spec => []TypeOK
    OBVIOUS
<1>1. IInv => TypeOK
    BY DEF IInv, Bounded
<1> QED  BY <1>1, Invariance, PTL

\* The decoder and the callback never touch the same sample at once: what is
\* written lies beyond what is unread, what is read is unread, and the two
\* together are shorter than the ring.
THEOREM SidesApart == MaxSeeks = 1 => (Spec => []NoOverlap)
<1> SUFFICES ASSUME MaxSeeks = 1  PROVE Spec => []NoOverlap
    OBVIOUS
<1>1. IInv => NoOverlap
    <2> SUFFICES ASSUME IInv, ppc = "copy", cpc = "copy",
                        NEW j \in 0 .. m - 1, NEW k \in 0 .. n - 1
                 PROVE  Index(Plus(base, j)) # Index(Plus(writePos, k))
        BY DEF NoOverlap, Writing, Reading
    <2>1. base = readPos /\ m <= AvailableRead /\ AvailableRead + n <= Capacity - 1
        BY Facts DEF Bounded
    <2>2. /\ j \in Nat /\ AvailableRead \in Nat /\ k \in Nat /\ AvailableRead + k \in Nat
          /\ j < AvailableRead + k /\ AvailableRead + k < Capacity
        BY <2>1, Facts, Constants
    <2>3. readPos \in Positions /\ writePos = Plus(readPos, AvailableRead)
        BY Facts, Room
    <2>4. Plus(writePos, k) = Plus(readPos, AvailableRead + k)
        BY <2>2, <2>3, PlusPlus, Constants
    <2> QED  BY <2>1, <2>2, <2>3, <2>4, IndicesApart
<1> QED  BY <1>1, Invariance, PTL

\* What the callback read is what was written at those positions, in order;
\* and no write is cut short while the free room the decoder waits for covers
\* a packet and what the resampler keeps back.
THEOREM SamplesHeard == MaxSeeks = 1 => (Spec => []ReadsWhatWasWritten)
<1> SUFFICES ASSUME MaxSeeks = 1  PROVE Spec => []ReadsWhatWasWritten
    OBVIOUS
<1>1. IInv => ReadsWhatWasWritten
    BY DEF IInv, Heard, NothingLost, Enough, ReadsWhatWasWritten
<1> QED  BY <1>1, Invariance, PTL
=============================================================================
