---------------------- MODULE BootProtocolParserProofs ----------------------
(***************************************************************************)
(* The parser delivers what was on the wire and nothing else, and misses   *)
(* no frame it could see the start of: for every byte size, sync word,     *)
(* payload bound, checksum and stream.                                     *)
(***************************************************************************)
EXTENDS BootProtocolParser, SequenceTheorems, TLAPS

-----------------------------------------------------------------------------
(* Sequences and words.                                                    *)

\* The last bytes of s are c.
EndsIn(s, c) ==
    /\ Len(c) <= Len(s)
    /\ \A i \in 1 .. Len(c) : s[Len(s) - Len(c) + i] = c[i]

\* The last n elements of a sequence.
LEMMA EndingFacts ==
    ASSUME NEW s \in Seq(Bytes), NEW n \in Nat
    PROVE  /\ Ending(n, s) \in Seq(Bytes)
           /\ Len(Ending(n, s)) = IF Len(s) > n THEN n ELSE Len(s)
           /\ \A i \in 1 .. Len(Ending(n, s)) :
                  Ending(n, s)[i] = s[Len(s) - Len(Ending(n, s)) + i]
<1> DEFINE m == IF Len(s) > n THEN Len(s) - n + 1 ELSE 1
<1>1. Len(s) \in Nat /\ m \in Int /\ \A i \in m .. Len(s) : s[i] \in Bytes
  BY ElementOfSeq, LenProperties
<1>2. /\ SubSeq(s, m, Len(s)) \in Seq(Bytes)
      /\ Len(SubSeq(s, m, Len(s))) = IF m <= Len(s) THEN Len(s) - m + 1 ELSE 0
      /\ \A i \in 1 .. Len(s) - m + 1 : SubSeq(s, m, Len(s))[i] = s[m + i - 1]
  BY <1>1, SubSeqProperties
<1> DEFINE e == Ending(n, s)
           l == Len(s)
<1>3. e = SubSeq(s, m, Len(s))
  BY DEF Ending
<1> HIDE DEF e, m, l
<1>4. m = IF l > n THEN l - n + 1 ELSE 1
  BY DEF m, l
<1>5. /\ l \in Nat /\ e \in Seq(Bytes)
      /\ Len(e) = IF m <= l THEN l - m + 1 ELSE 0
      /\ \A i \in 1 .. l - m + 1 : e[i] = s[m + i - 1]
  BY <1>1, <1>2, <1>3 DEF l
<1>6. Len(e) = IF l > n THEN n ELSE l
  BY <1>4, <1>5
<1>7. ASSUME NEW i \in 1 .. Len(e) PROVE e[i] = s[l - Len(e) + i]
  <2>1. i \in 1 .. l - m + 1 /\ m + i - 1 = l - Len(e) + i
    BY <1>4, <1>5, <1>6
  <2> QED
    BY <1>5, <2>1
<1> QED
  BY <1>5, <1>6, <1>7 DEF e, l

\* What has been collected, with the next byte, is what the next bytes end in.
LEMMA Slide ==
    ASSUME NEW s \in Seq(Bytes), NEW c \in Seq(Bytes), NEW b \in Bytes, NEW n \in Nat,
           EndsIn(s, c), Len(c) < n
    PROVE  EndsIn(Ending(n, Append(s, b)), Append(c, b))
<1> DEFINE t == Append(s, b)
           d == Append(c, b)
<1>1. /\ t \in Seq(Bytes) /\ Len(t) = Len(s) + 1 /\ Len(s) \in Nat
      /\ t[Len(s) + 1] = b
      /\ \A i \in 1 .. Len(s) : t[i] = s[i]
  BY AppendProperties, LenProperties
<1>2. /\ d \in Seq(Bytes) /\ Len(d) = Len(c) + 1 /\ Len(c) \in Nat
      /\ d[Len(c) + 1] = b
      /\ \A i \in 1 .. Len(c) : d[i] = c[i]
  BY AppendProperties, LenProperties
<1> HIDE DEF t, d
<1> DEFINE e == Ending(n, t)
<1>3. /\ Len(e) = IF Len(t) > n THEN n ELSE Len(t)
      /\ \A i \in 1 .. Len(e) : e[i] = t[Len(t) - Len(e) + i]
  BY <1>1, EndingFacts
<1> HIDE DEF e
<1>4. /\ Len(c) <= Len(s)
      /\ \A i \in 1 .. Len(c) : s[Len(s) - Len(c) + i] = c[i]
  BY DEF EndsIn
<1>5. Len(d) <= Len(e)
  BY <1>1, <1>2, <1>3, <1>4
<1>6. ASSUME NEW i \in 1 .. Len(d) PROVE e[Len(e) - Len(d) + i] = d[i]
  <2>1. e[Len(e) - Len(d) + i] = t[Len(t) - Len(d) + i]
    <3> DEFINE k == Len(e) - Len(d) + i
    <3>1. k \in 1 .. Len(e) /\ Len(t) - Len(e) + k = Len(t) - Len(d) + i
      <4>1. Len(e) \in Nat /\ Len(d) \in Nat /\ Len(t) \in Nat
        BY <1>1, <1>2, <1>3
      <4> QED
        BY <1>5, <4>1
    <3> HIDE DEF k
    <3>2. e[k] = t[Len(t) - Len(e) + k]
      BY <1>3, <3>1
    <3> QED
      BY <3>1, <3>2 DEF k
  <2>2. CASE i = Len(d)
    BY <1>1, <1>2, <2>1, <2>2
  <2>3. CASE i < Len(d)
    <3>1. i \in 1 .. Len(c) /\ Len(t) - Len(d) + i = Len(s) - Len(c) + i
      BY <1>1, <1>2, <2>3
    <3>2. Len(s) - Len(c) + i \in 1 .. Len(s)
      BY <1>1, <1>2, <1>4, <3>1
    <3> QED
      BY <1>1, <1>2, <1>4, <2>1, <3>1, <3>2
  <2> QED
    BY <1>2, <2>2, <2>3
<1> QED
  BY <1>5, <1>6 DEF EndsIn, e, t, d

\* A sequence that ends in c has c as its last bytes.
LEMMA EndingOf ==
    ASSUME NEW s \in Seq(Bytes), NEW c \in Seq(Bytes), EndsIn(s, c)
    PROVE  Ending(Len(c), s) = c
<1>1. Len(c) \in Nat /\ Len(s) \in Nat
  BY LenProperties
<1> DEFINE e == Ending(Len(c), s)
<1>2. /\ e \in Seq(Bytes)
      /\ Len(e) = IF Len(s) > Len(c) THEN Len(c) ELSE Len(s)
      /\ \A i \in 1 .. Len(e) : e[i] = s[Len(s) - Len(e) + i]
  BY <1>1, EndingFacts
<1> HIDE DEF e
<1>3. Len(e) = Len(c)
  BY <1>1, <1>2 DEF EndsIn
<1>5. ASSUME NEW i \in 1 .. Len(e) PROVE e[i] = c[i]
  BY <1>1, <1>2, <1>3, <1>5 DEF EndsIn
<1>4. e = c
  BY <1>2, <1>3, <1>5, SeqEqual
<1> QED
  BY <1>4 DEF e

\* Short sequences, written out.
LEMMA Tuples ==
    ASSUME NEW s \in Seq(Bytes)
    PROVE  /\ Len(s) = 2 => s = <<s[1], s[2]>>
           /\ Len(s) = 3 => s = <<s[1], s[2], s[3]>>
           /\ Len(s) = 4 => s = <<s[1], s[2], s[3], s[4]>>
<1>2. ASSUME Len(s) = 2 PROVE s = <<s[1], s[2]>>
  <2> DEFINE t == <<s[1], s[2]>>
  <2>1. ASSUME NEW i \in 1 .. 2 PROVE s[i] \in Bytes
    BY <1>2, ElementOfSeq
  <2>2. t \in Seq(Bytes) /\ Len(t) = 2 /\ t[1] = s[1] /\ t[2] = s[2]
    BY <2>1
  <2> HIDE DEF t
  <2>3. ASSUME NEW i \in 1 .. Len(s) PROVE s[i] = t[i]
    <3>1. i = 1 \/ i = 2
      BY <1>2
    <3> QED
      BY <2>2, <3>1
  <2>4. s = t
    BY <1>2, <2>2, <2>3, SeqEqual
  <2> QED
    BY <2>4 DEF t
<1>3. ASSUME Len(s) = 3 PROVE s = <<s[1], s[2], s[3]>>
  <2> DEFINE t == <<s[1], s[2], s[3]>>
  <2>1. ASSUME NEW i \in 1 .. 3 PROVE s[i] \in Bytes
    BY <1>3, ElementOfSeq
  <2>2. t \in Seq(Bytes) /\ Len(t) = 3 /\ t[1] = s[1] /\ t[2] = s[2] /\ t[3] = s[3]
    BY <2>1
  <2> HIDE DEF t
  <2>3. ASSUME NEW i \in 1 .. Len(s) PROVE s[i] = t[i]
    <3>1. i = 1 \/ i = 2 \/ i = 3
      BY <1>3
    <3> QED
      BY <2>2, <3>1
  <2>4. s = t
    BY <1>3, <2>2, <2>3, SeqEqual
  <2> QED
    BY <2>4 DEF t
<1>4. ASSUME Len(s) = 4 PROVE s = <<s[1], s[2], s[3], s[4]>>
  <2> DEFINE t == <<s[1], s[2], s[3], s[4]>>
  <2>1. ASSUME NEW i \in 1 .. 4 PROVE s[i] \in Bytes
    BY <1>4, ElementOfSeq
  <2>2. t \in Seq(Bytes) /\ Len(t) = 4 /\ t[1] = s[1] /\ t[2] = s[2] /\ t[3] = s[3] /\ t[4] = s[4]
    BY <2>1
  <2> HIDE DEF t
  <2>3. ASSUME NEW i \in 1 .. Len(s) PROVE s[i] = t[i]
    <3>1. i = 1 \/ i = 2 \/ i = 3 \/ i = 4
      BY <1>4
    <3> QED
      BY <2>2, <3>1
  <2>4. s = t
    BY <1>4, <2>2, <2>3, SeqEqual
  <2> QED
    BY <2>4 DEF t
<1> QED
  BY <1>2, <1>3, <1>4

\* A byte behind one, two or three others.
LEMMA AppendedTuples ==
    ASSUME NEW s \in Seq(Bytes), NEW b \in Bytes
    PROVE  /\ Len(s) = 1 => Append(s, b) = <<s[1], b>>
           /\ Len(s) = 2 => Append(s, b) = <<s[1], s[2], b>>
           /\ Len(s) = 3 => Append(s, b) = <<s[1], s[2], s[3], b>>
<1> DEFINE t == Append(s, b)
<1>1. /\ t \in Seq(Bytes) /\ Len(t) = Len(s) + 1 /\ t[Len(s) + 1] = b
      /\ \A i \in 1 .. Len(s) : t[i] = s[i]
  BY AppendProperties
<1> HIDE DEF t
<1>2. ASSUME Len(s) = 1 PROVE t = <<s[1], b>>
  BY <1>1, <1>2, Tuples
<1>3. ASSUME Len(s) = 2 PROVE t = <<s[1], s[2], b>>
  BY <1>1, <1>3, Tuples
<1>4. ASSUME Len(s) = 3 PROVE t = <<s[1], s[2], s[3], b>>
  BY <1>1, <1>4, Tuples
<1> QED
  BY <1>2, <1>3, <1>4 DEF t

\* A word that is taken apart and put together again.
LEMMA WordRoundTrip ==
    ASSUME NEW lo \in Bytes, NEW hi \in Bytes
    PROVE  /\ Word(<<lo, hi>>) \in Nat
           /\ WordBytes(Word(<<lo, hi>>)) = <<lo, hi>>
<1> DEFINE M == BYTE_MOD
           w == Word(<<lo, hi>>)
           q == w \div M
           r == w % M
<1>1. M \in Nat /\ M > 0 /\ lo \in 0 .. M - 1 /\ hi \in Nat
  BY ParserAssumption DEF Bytes
<1>2. w = lo + M * hi
  BY DEF Word
<1> HIDE DEF w, M
<1>3. M * hi \in Nat
  BY <1>1
<1>4. w \in Nat
  BY <1>1, <1>2, <1>3
<1>5. w = M * q + r /\ r \in 0 .. M - 1 /\ q \in Int
  BY <1>1, <1>4, SMTT(20)
<1> HIDE DEF q, r
<1>6. ASSUME NEW x \in Int, x >= 1 PROVE M * x >= M
  BY <1>1, <1>6, SMTT(20)
<1>7. M * q + r = M * hi + lo /\ M * (q - hi) = M * q - M * hi /\ M * (hi - q) = M * hi - M * q
  BY <1>1, <1>2, <1>5, SMTT(20)
<1>8. ~(q - hi >= 1)
  <2> SUFFICES ASSUME q - hi >= 1 PROVE FALSE
    OBVIOUS
  <2>1. M * (q - hi) >= M
    BY <1>1, <1>5, <1>6
  <2>2. M * q \in Int /\ M * hi \in Int
    BY <1>1, <1>5
  <2> QED
    BY <1>1, <1>5, <1>7, <2>1, <2>2
<1>9. ~(hi - q >= 1)
  <2> SUFFICES ASSUME hi - q >= 1 PROVE FALSE
    OBVIOUS
  <2>1. M * (hi - q) >= M
    BY <1>1, <1>5, <1>6
  <2>2. M * q \in Int /\ M * hi \in Int
    BY <1>1, <1>5
  <2> QED
    BY <1>1, <1>5, <1>7, <2>1, <2>2
<1>10. q = hi /\ r = lo
  BY <1>1, <1>5, <1>7, <1>8, <1>9
<1> QED
  BY <1>4, <1>10 DEF WordBytes, q, r, w, M

-----------------------------------------------------------------------------
(* The invariant: the bytes that were taken end in what is collected.      *)

SyncWord == <<SYNC_1, SYNC_2, SYNC_3>>

Collected(s, h, p, c) ==
    IF s = "SYNC_1" THEN <<>>
    ELSE IF s = "SYNC_2" THEN <<SYNC_1>>
    ELSE IF s = "SYNC_3" THEN <<SYNC_1, SYNC_2>>
    ELSE IF s = "HEADER" THEN SyncWord \o h
    ELSE IF s = "PAYLOAD" THEN SyncWord \o h \o p
    ELSE SyncWord \o h \o p \o c

TypeInv ==
    /\ state \in Search \cup {"HEADER", "PAYLOAD", "CRC"}
    /\ header \in Seq(Bytes) /\ payload \in Seq(Bytes) /\ crc \in Seq(Bytes)
    /\ todo \in Seq(Bytes)
    /\ recent \in Seq(Bytes)

ShapeInv ==
    /\ state = "HEADER" => Len(header) <= 3
    /\ state \in {"PAYLOAD", "CRC"} =>
          /\ header \in Bytes \X Bytes \X Bytes \X Bytes
          /\ header[2] = Complement(header[1])
          /\ frame.number = header[1]
          /\ frame.length = Word(<<header[3], header[4]>>)
          /\ frame.length \in MIN_PAYLOAD_SIZE .. MAX_PAYLOAD_SIZE
    /\ state = "PAYLOAD" => Len(payload) < frame.length
    /\ state = "CRC" => Len(payload) = frame.length /\ Len(crc) <= 1

KeptInv == EndsIn(recent, Collected(state, header, payload, crc))

ParserInv == TypeInv /\ ShapeInv /\ KeptInv

LEMMA CollectedFacts ==
    ASSUME TypeInv, ShapeInv
    PROVE  /\ Collected(state, header, payload, crc) \in Seq(Bytes)
           /\ Len(Collected(state, header, payload, crc)) < MAX_FRAME_SIZE
<1>1. /\ SYNC_1 \in Bytes /\ SYNC_2 \in Bytes /\ SYNC_3 \in Bytes
      /\ SyncWord \in Seq(Bytes) /\ Len(SyncWord) = 3
      /\ MAX_PAYLOAD_SIZE \in Nat /\ MIN_PAYLOAD_SIZE \in Nat
  BY ParserAssumption DEF SyncWord
<1>2. CASE state \in Search
  BY <1>1, <1>2 DEF Search, Collected, MAX_FRAME_SIZE
<1> DEFINE sh == SyncWord \o header
           shp == sh \o payload
           shpc == shp \o crc
<1> HIDE DEF sh, shp, shpc
<1>0. /\ header \in Seq(Bytes) /\ payload \in Seq(Bytes) /\ crc \in Seq(Bytes)
      /\ Len(header) \in Nat /\ Len(payload) \in Nat /\ Len(crc) \in Nat
  BY LenProperties DEF TypeInv
<1>3. sh \in Seq(Bytes) /\ Len(sh) = 3 + Len(header)
  <2>1. SyncWord \in Seq(Bytes) /\ Len(SyncWord) = 3 /\ header \in Seq(Bytes)
    BY <1>0, <1>1
  <2>2. sh \in Seq(Bytes) /\ Len(sh) = Len(SyncWord) + Len(header)
    BY <2>1, ConcatProperties DEF sh
  <2> QED
    BY <2>1, <2>2
<1>4. shp \in Seq(Bytes) /\ Len(shp) = 3 + Len(header) + Len(payload)
  BY <1>0, <1>3, ConcatProperties DEF shp
<1>5. shpc \in Seq(Bytes) /\ Len(shpc) = 3 + Len(header) + Len(payload) + Len(crc)
  BY <1>0, <1>4, ConcatProperties DEF shpc
<1>6. CASE state = "HEADER"
  BY <1>0, <1>1, <1>3, <1>6 DEF ShapeInv, Collected, MAX_FRAME_SIZE, sh
<1>7. CASE state \in {"PAYLOAD", "CRC"}
  <2>1. Len(header) = 4
    BY <1>7 DEF ShapeInv
  <2>2. CASE state = "PAYLOAD"
    <3>1. Collected(state, header, payload, crc) = shp
      BY <2>2 DEF sh, shp, Collected
    <3>2. Len(payload) < frame.length /\ frame.length \in MIN_PAYLOAD_SIZE .. MAX_PAYLOAD_SIZE
      BY <2>2 DEF ShapeInv
    <3>3. Len(shp) < 3 + 4 + MAX_PAYLOAD_SIZE + 2
      BY <1>0, <1>1, <1>4, <2>1, <3>2
    <3> QED
      BY <1>4, <3>1, <3>3 DEF MAX_FRAME_SIZE
  <2>3. CASE state = "CRC"
    <3>1. Collected(state, header, payload, crc) = shpc
      BY <2>3 DEF sh, shp, shpc, Collected
    <3>2. Len(payload) = frame.length /\ frame.length \in MIN_PAYLOAD_SIZE .. MAX_PAYLOAD_SIZE
          /\ Len(crc) <= 1
      BY <2>3 DEF ShapeInv
    <3>3. Len(shpc) < 3 + 4 + MAX_PAYLOAD_SIZE + 2
      BY <1>0, <1>1, <1>5, <2>1, <3>2
    <3> QED
      BY <1>5, <3>1, <3>3 DEF MAX_FRAME_SIZE
  <2> QED
    BY <1>7, <2>2, <2>3
<1> QED
  BY <1>2, <1>6, <1>7 DEF TypeInv

\* What taking a byte does to the stream.
LEMMA PushFacts ==
    ASSUME ParserInv, NEW in, NEW out, Push(in, out)
    PROVE  /\ Byte \in Bytes
           /\ todo' \in Seq(Bytes) /\ recent' \in Seq(Bytes)
           /\ EndsIn(recent', Append(Collected(state, header, payload, crc), Byte))
           /\ EndsIn(recent', <<Byte>>)
           /\ EndsIn(recent', <<>>)
<1> DEFINE C == Collected(state, header, payload, crc)
<1>1. C \in Seq(Bytes) /\ Len(C) < MAX_FRAME_SIZE /\ MAX_FRAME_SIZE \in Nat /\ MAX_FRAME_SIZE > 0
  BY CollectedFacts, ParserAssumption DEF ParserInv, MAX_FRAME_SIZE
<1>2. EndsIn(recent, C)
  BY DEF ParserInv, KeptInv
<1> HIDE DEF C
<1>3. Byte \in Bytes /\ todo' \in Seq(Bytes)
  BY HeadTailProperties DEF ParserInv, TypeInv, Push, Byte
<1>4. recent' = Ending(MAX_FRAME_SIZE, Append(recent, Byte)) /\ recent \in Seq(Bytes)
  BY DEF Push, ParserInv, TypeInv
<1>5. recent' \in Seq(Bytes)
  BY <1>1, <1>3, <1>4, AppendProperties, EndingFacts
<1>6. EndsIn(recent', Append(C, Byte))
  BY <1>1, <1>2, <1>3, <1>4, Slide
<1>7. EndsIn(recent, <<>>) /\ <<>> \in Seq(Bytes) /\ Len(<<>>) = 0
  BY <1>4, LenProperties, EmptySeq DEF EndsIn
<1>8. EndsIn(recent', Append(<<>>, Byte))
  BY <1>1, <1>3, <1>4, <1>7, Slide
<1>9. EndsIn(recent', <<Byte>>)
  BY <1>8
<1>10. EndsIn(recent', <<>>)
  BY <1>5, LenProperties, EmptySeq DEF EndsIn
<1> QED
  BY <1>3, <1>5, <1>6, <1>9, <1>10 DEF C

\* After parser_reset_frame nothing is collected.
LEMMA ResetKeeps ==
    ASSUME ParserInv, NEW in, NEW out, Push(in, out), parser_reset_frame
    PROVE  ParserInv'
<1>1. TypeInv' /\ ShapeInv'
  BY PushFacts, EmptySeq DEF parser_reset_frame, TypeInv, ShapeInv, Search
<1>2. KeptInv'
  BY PushFacts DEF parser_reset_frame, KeptInv, Collected
<1> QED
  BY <1>1, <1>2 DEF ParserInv

LEMMA SyncWordIsBytes == SyncWord \in Seq(Bytes) /\ Len(SyncWord) = 3
  BY ParserAssumption DEF SyncWord

LEMMA SyncKeeps ==
    ASSUME ParserInv, parser_push_sync
    PROVE  ParserInv'
<1> USE DEF Search
<1>1. /\ Byte \in Bytes /\ todo' \in Seq(Bytes) /\ recent' \in Seq(Bytes)
      /\ EndsIn(recent', Append(Collected(state, header, payload, crc), Byte))
      /\ EndsIn(recent', <<Byte>>)
      /\ EndsIn(recent', <<>>)
  BY PushFacts DEF parser_push_sync
<1>2. state \in Search /\ state' = AfterSync(state, Byte)
  BY DEF parser_push_sync, Push
<1>3. /\ header' = IF state' = "HEADER" THEN <<>> ELSE header
      /\ payload' = payload /\ crc' = crc
  BY DEF parser_push_sync
<1>4. CASE state = "SYNC_2" /\ Byte = SYNC_2
  <2>1. state' = "SYNC_3"
    BY <1>2, <1>4 DEF AfterSync
  <2>2. Append(Collected(state, header, payload, crc), Byte) = <<SYNC_1, SYNC_2>>
    <3>1. Collected(state, header, payload, crc) = <<SYNC_1>>
      BY <1>4 DEF Collected
    <3>2. /\ <<SYNC_1>> \in Seq(Bytes) /\ Len(<<SYNC_1>>) = 1
          /\ <<SYNC_1>>[1] = SYNC_1
      BY ParserAssumption
    <3>3. Append(<<SYNC_1>>, Byte) = <<SYNC_1, Byte>>
      <4> DEFINE t == <<SYNC_1>>
      <4> HIDE DEF t
      <4>1. t \in Seq(Bytes) /\ Len(t) = 1 /\ t[1] = SYNC_1
        BY <3>2 DEF t
      <4>2. Append(t, Byte) = <<t[1], Byte>>
        BY <1>1, <4>1, AppendedTuples
      <4> QED
        BY <4>1, <4>2 DEF t
    <3> QED
      BY <1>4, <3>1, <3>3
  <2>3. TypeInv' /\ ShapeInv'
    BY <1>1, <1>3, <2>1 DEF ParserInv, TypeInv, ShapeInv
  <2>4. KeptInv'
    BY <1>1, <2>1, <2>2 DEF KeptInv, Collected
  <2> QED
    BY <2>3, <2>4 DEF ParserInv
<1>5. CASE state = "SYNC_3" /\ Byte = SYNC_3
  <2>1. state' = "HEADER" /\ header' = <<>>
    BY <1>2, <1>3, <1>5 DEF AfterSync
  <2>2. Append(Collected(state, header, payload, crc), Byte) = SyncWord
    <3>1. Collected(state, header, payload, crc) = <<SYNC_1, SYNC_2>>
      BY <1>5 DEF Collected
    <3>2. /\ <<SYNC_1, SYNC_2>> \in Seq(Bytes) /\ Len(<<SYNC_1, SYNC_2>>) = 2
          /\ <<SYNC_1, SYNC_2>>[1] = SYNC_1 /\ <<SYNC_1, SYNC_2>>[2] = SYNC_2
      BY ParserAssumption
    <3>3. Append(<<SYNC_1, SYNC_2>>, Byte) = <<SYNC_1, SYNC_2, Byte>>
      <4> DEFINE t == <<SYNC_1, SYNC_2>>
      <4> HIDE DEF t
      <4>1. t \in Seq(Bytes) /\ Len(t) = 2 /\ t[1] = SYNC_1 /\ t[2] = SYNC_2
        BY <3>2 DEF t
      <4>2. Append(t, Byte) = <<t[1], t[2], Byte>>
        BY <1>1, <4>1, AppendedTuples
      <4> QED
        BY <4>1, <4>2 DEF t
    <3> QED
      BY <1>5, <3>1, <3>3 DEF SyncWord
  <2>3. SyncWord \o <<>> = SyncWord
    BY SyncWordIsBytes, ConcatEmptySeq
  <2>4. TypeInv' /\ ShapeInv'
    BY <1>1, <1>3, <2>1, EmptySeq DEF ParserInv, TypeInv, ShapeInv
  <2>5. KeptInv'
    BY <1>1, <2>1, <2>2, <2>3 DEF KeptInv, Collected
  <2> QED
    BY <2>4, <2>5 DEF ParserInv
<1>6. CASE ~(state = "SYNC_2" /\ Byte = SYNC_2) /\ ~(state = "SYNC_3" /\ Byte = SYNC_3)
  <2>1. state' = IF Byte = SYNC_1 THEN "SYNC_2" ELSE "SYNC_1"
    BY <1>2, <1>6 DEF AfterSync
  <2>2. TypeInv' /\ ShapeInv'
    BY <1>1, <1>3, <2>1 DEF ParserInv, TypeInv, ShapeInv
  <2>3. KeptInv'
    BY <1>1, <2>1 DEF KeptInv, Collected
  <2> QED
    BY <2>2, <2>3 DEF ParserInv
<1> QED
  BY <1>4, <1>5, <1>6

\* A byte is appended to what is collected behind the sync word.
LEMMA AppendBehind ==
    ASSUME NEW a \in Seq(Bytes), NEW b \in Seq(Bytes), NEW x \in Bytes
    PROVE  Append(a \o b, x) = a \o Append(b, x)
<1>1. a \o b \in Seq(Bytes) /\ <<x>> \in Seq(Bytes)
  BY ConcatProperties
<1>2. Append(a \o b, x) = (a \o b) \o <<x>>
  BY <1>1, AppendIsConcat
<1>3. (a \o b) \o <<x>> = a \o (b \o <<x>>)
  BY <1>1, ConcatAssociative
<1>4. b \o <<x>> = Append(b, x)
  BY AppendIsConcat
<1> QED
  BY <1>2, <1>3, <1>4

LEMMA HeaderKeeps ==
    ASSUME ParserInv, PushHeader
    PROVE  ParserInv'
<1>1. /\ Byte \in Bytes /\ todo' \in Seq(Bytes) /\ recent' \in Seq(Bytes)
      /\ EndsIn(recent', Append(Collected(state, header, payload, crc), Byte))
  BY PushFacts DEF PushHeader
<1>2. /\ state = "HEADER" /\ state' = "HEADER" /\ Len(header) < 3
      /\ header' = Append(header, Byte)
      /\ payload' = payload /\ crc' = crc
      /\ header \in Seq(Bytes) /\ payload \in Seq(Bytes) /\ crc \in Seq(Bytes)
  BY DEF PushHeader, Push, ParserInv, TypeInv
<1>3. header' \in Seq(Bytes) /\ Len(header') = Len(header) + 1
  BY <1>1, <1>2, AppendProperties
<1>4. Append(SyncWord \o header, Byte) = SyncWord \o header'
  BY <1>1, <1>2, SyncWordIsBytes, AppendBehind
<1>5. TypeInv'
  BY <1>1, <1>2, <1>3 DEF TypeInv
<1>6. ShapeInv'
  <2>1. Len(header) \in Nat
    BY <1>2, LenProperties
  <2> QED
    BY <1>2, <1>3, <2>1 DEF ShapeInv
<1>7. KeptInv'
  BY <1>1, <1>2, <1>4 DEF KeptInv, Collected
<1> QED
  BY <1>5, <1>6, <1>7 DEF ParserInv

\* The fourth byte completes a header.
LEMMA FourBytes ==
    ASSUME NEW h \in Seq(Bytes), Len(h) = 3, NEW b \in Bytes
    PROVE  /\ h = <<h[1], h[2], h[3]>>
           /\ Append(h, b) = <<h[1], h[2], h[3], b>>
           /\ Append(h, b) \in Bytes \X Bytes \X Bytes \X Bytes
<1>1. h[1] \in Bytes /\ h[2] \in Bytes /\ h[3] \in Bytes
  BY ElementOfSeq
<1>2. h = <<h[1], h[2], h[3]>>
  BY Tuples
<1>3. Append(h, b) = <<h[1], h[2], h[3], b>>
  BY AppendedTuples
<1> QED
  BY <1>1, <1>2, <1>3

LEMMA AcceptKeeps ==
    ASSUME ParserInv, AcceptHeader
    PROVE  ParserInv'
<1>1. /\ Byte \in Bytes /\ todo' \in Seq(Bytes) /\ recent' \in Seq(Bytes)
      /\ EndsIn(recent', Append(Collected(state, header, payload, crc), Byte))
  BY PushFacts DEF AcceptHeader, FinishHeader
<1>2. /\ state = "HEADER" /\ state' = "PAYLOAD" /\ Len(header) = 3
      /\ header' = Append(header, Byte)
      /\ payload' = <<>> /\ crc' = crc
      /\ frame' = [number |-> header[1], length |-> HeaderLength]
      /\ header \in Seq(Bytes) /\ payload \in Seq(Bytes) /\ crc \in Seq(Bytes)
      /\ header[2] = Complement(header[1])
      /\ HeaderLength \in MIN_PAYLOAD_SIZE .. MAX_PAYLOAD_SIZE
  BY DEF AcceptHeader, FinishHeader, HeaderIsValid, Push, ParserInv, TypeInv
<1>3. /\ header' \in Bytes \X Bytes \X Bytes \X Bytes
      /\ header' = <<header[1], header[2], header[3], Byte>>
      /\ header' \in Seq(Bytes)
  BY <1>1, <1>2, FourBytes, AppendProperties
<1>4. Append(SyncWord \o header, Byte) = SyncWord \o header'
  BY <1>1, <1>2, SyncWordIsBytes, AppendBehind
<1>5. TypeInv'
  BY <1>1, <1>2, <1>3, EmptySeq DEF TypeInv
<1>6. ShapeInv'
  <2>1. header'[1] = header[1] /\ header'[2] = header[2] /\ header'[3] = header[3] /\ header'[4] = Byte
    BY <1>3
  <2>2. frame'.number = header'[1] /\ frame'.length = Word(<<header'[3], header'[4]>>)
    BY <1>2, <2>1 DEF HeaderLength
  <2>3. Len(payload') = 0 /\ frame'.length \in MIN_PAYLOAD_SIZE .. MAX_PAYLOAD_SIZE
    BY <1>2, EmptySeq
  <2>4. Len(payload') < frame'.length
    BY <2>3, ParserAssumption
  <2> QED
    BY <1>2, <1>3, <2>1, <2>2, <2>3, <2>4 DEF ShapeInv
<1>7. KeptInv'
  <2>1. SyncWord \o header' \in Seq(Bytes)
    BY <1>3, SyncWordIsBytes, ConcatProperties
  <2>2. (SyncWord \o header') \o <<>> = SyncWord \o header'
    BY <2>1, ConcatEmptySeq
  <2> QED
    BY <1>1, <1>2, <1>4, <2>2 DEF KeptInv, Collected
<1> QED
  BY <1>5, <1>6, <1>7 DEF ParserInv

LEMMA PayloadKeeps ==
    ASSUME ParserInv, PushPayload
    PROVE  ParserInv'
<1>1. /\ Byte \in Bytes /\ todo' \in Seq(Bytes) /\ recent' \in Seq(Bytes)
      /\ EndsIn(recent', Append(Collected(state, header, payload, crc), Byte))
  BY PushFacts DEF PushPayload
<1>2. /\ state = "PAYLOAD"
      /\ payload' = Append(payload, Byte)
      /\ header' = header /\ frame' = frame
      /\ header \in Seq(Bytes) /\ payload \in Seq(Bytes) /\ crc \in Seq(Bytes)
  BY DEF PushPayload, Push, ParserInv, TypeInv
<1>3. \/ Len(payload') = frame.length /\ state' = "CRC" /\ crc' = <<>>
      \/ Len(payload') # frame.length /\ state' = "PAYLOAD" /\ crc' = crc
  BY <1>2 DEF PushPayload
<1>4. payload' \in Seq(Bytes) /\ Len(payload') = Len(payload) + 1 /\ Len(payload) \in Nat
  BY <1>1, <1>2, AppendProperties, LenProperties
<1>5. crc' \in Seq(Bytes)
  BY <1>2, <1>3, EmptySeq
<1>6. TypeInv'
  BY <1>1, <1>2, <1>3, <1>4, <1>5 DEF TypeInv
<1>7. ShapeInv'
  <2>1. /\ header \in Bytes \X Bytes \X Bytes \X Bytes
        /\ header[2] = Complement(header[1])
        /\ frame.number = header[1]
        /\ frame.length = Word(<<header[3], header[4]>>)
        /\ frame.length \in MIN_PAYLOAD_SIZE .. MAX_PAYLOAD_SIZE
        /\ Len(payload) < frame.length
    BY <1>2 DEF ParserInv, ShapeInv
  <2>2. frame.length \in Nat
    BY <2>1, ParserAssumption
  <2>3. state' = "PAYLOAD" => Len(payload') < frame'.length
    BY <1>2, <1>3, <1>4, <2>1, <2>2
  <2>4. state' = "CRC" => Len(payload') = frame'.length /\ Len(crc') <= 1
    BY <1>2, <1>3, EmptySeq
  <2> QED
    BY <1>2, <1>3, <2>1, <2>3, <2>4 DEF ShapeInv
<1>8. KeptInv'
  <2>1. SyncWord \o header \in Seq(Bytes)
    BY <1>2, SyncWordIsBytes, ConcatProperties
  <2>2. Append((SyncWord \o header) \o payload, Byte) = (SyncWord \o header) \o payload'
    BY <1>1, <1>2, <2>1, AppendBehind
  <2>3. EndsIn(recent', (SyncWord \o header) \o payload')
    BY <1>1, <1>2, <2>2 DEF Collected
  <2>4. ((SyncWord \o header) \o payload') \o <<>> = (SyncWord \o header) \o payload'
    BY <1>4, <2>1, ConcatProperties, ConcatEmptySeq
  <2> QED
    BY <1>2, <1>3, <2>3, <2>4 DEF KeptInv, Collected
<1> QED
  BY <1>6, <1>7, <1>8 DEF ParserInv

LEMMA CrcLowKeeps ==
    ASSUME ParserInv, PushCrcLow
    PROVE  ParserInv'
<1>1. /\ Byte \in Bytes /\ todo' \in Seq(Bytes) /\ recent' \in Seq(Bytes)
      /\ EndsIn(recent', Append(Collected(state, header, payload, crc), Byte))
  BY PushFacts DEF PushCrcLow
<1>2. /\ state = "CRC" /\ state' = "CRC" /\ crc = <<>> /\ crc' = <<Byte>>
      /\ header' = header /\ payload' = payload /\ frame' = frame
      /\ header \in Seq(Bytes) /\ payload \in Seq(Bytes)
  BY DEF PushCrcLow, Push, ParserInv, TypeInv
<1>3. crc' \in Seq(Bytes) /\ Len(crc') = 1
  BY <1>1, <1>2
<1>4. TypeInv' /\ ShapeInv'
  BY <1>1, <1>2, <1>3 DEF ParserInv, TypeInv, ShapeInv
<1>5. KeptInv'
  <2> DEFINE shp == SyncWord \o header \o payload
  <2>1. shp \in Seq(Bytes)
    <3>1. SyncWord \o header \in Seq(Bytes)
      BY <1>2, SyncWordIsBytes, ConcatProperties
    <3> QED
      BY <1>2, <3>1, ConcatProperties
  <2>2. Collected(state, header, payload, crc) = shp \o <<>>
    BY <1>2 DEF Collected
  <2>3. Collected(state', header', payload', crc') = shp \o <<Byte>>
    BY <1>2 DEF Collected
  <2> HIDE DEF shp
  <2>4. shp \o <<>> = shp /\ Append(shp, Byte) = shp \o <<Byte>>
    BY <1>1, <2>1, ConcatEmptySeq, AppendIsConcat
  <2> QED
    BY <1>1, <2>2, <2>3, <2>4 DEF KeptInv
<1> QED
  BY <1>4, <1>5 DEF ParserInv

\* Between two items nothing but the stream changes.
LEMMA ItemKeeps ==
    ASSUME ParserInv, NEW i \in Items \cup PlainFrames, StartItem(i)
    PROVE  ParserInv'
<1>1. todo' \in Seq(Bytes)
  BY ParserAssumption DEF StartItem
<1>2. UNCHANGED <<state, header, frame, payload, crc, recent>>
  BY DEF StartItem, parser
<1> QED
  BY <1>1, <1>2 DEF ParserInv, TypeInv, ShapeInv, KeptInv

LEMMA ParserInvariant == Spec => []ParserInv
<1>1. Init => ParserInv
  <2> SUFFICES ASSUME Init PROVE ParserInv
    OBVIOUS
  <2>1. TypeInv /\ ShapeInv
    BY EmptySeq DEF Init, TypeInv, ShapeInv, Search
  <2>2. KeptInv
    BY EmptySeq DEF Init, KeptInv, Collected, EndsIn
  <2> QED
    BY <2>1, <2>2 DEF ParserInv
<1>2. ParserInv /\ [Next]_vars => ParserInv'
  <2> SUFFICES ASSUME ParserInv, [Next]_vars PROVE ParserInv'
    OBVIOUS
  <2>1. CASE SendItem
    BY <2>1, ItemKeeps DEF SendItem
  <2>2. CASE SendPlainFrame
    BY <2>2, ItemKeeps DEF SendPlainFrame
  <2>3. CASE parser_push_sync
    BY <2>3, SyncKeeps
  <2>4. CASE PushHeader
    BY <2>4, HeaderKeeps
  <2>5. CASE RejectHeader
    BY <2>5, ResetKeeps DEF RejectHeader, FinishHeader
  <2>6. CASE AcceptHeader
    BY <2>6, AcceptKeeps
  <2>7. CASE PushPayload
    BY <2>7, PayloadKeeps
  <2>8. CASE PushCrcLow
    BY <2>8, CrcLowKeeps
  <2>9. CASE RejectFrame
    BY <2>9, ResetKeeps DEF RejectFrame
  <2>10. CASE DeliverFrame
    BY <2>10, ResetKeeps DEF DeliverFrame
  <2>11. CASE UNCHANGED vars
    BY <2>11 DEF vars, parser, stream, ParserInv, TypeInv, ShapeInv, KeptInv
  <2> QED
    BY <2>1, <2>2, <2>3, <2>4, <2>5, <2>6, <2>7, <2>8, <2>9, <2>10, <2>11 DEF Next, PushByte
<1> QED
  BY <1>1, <1>2, PTL DEF Spec

-----------------------------------------------------------------------------
(* What is delivered.                                                      *)

\* A frame is the sync word, a header that says what the payload is, the
\* payload and its CRC.
LEMMA EncodedParts ==
    ASSUME NEW h \in Seq(Bytes), Len(h) = 4, NEW p \in Seq(Bytes), NEW c \in Seq(Bytes),
           h[2] = Complement(h[1]), Word(<<h[3], h[4]>>) = Len(p), WordBytes(Crc(p)) = c
    PROVE  Encode([number |-> h[1], payload |-> p]) = SyncWord \o h \o p \o c
<1> DEFINE a == <<SYNC_1, SYNC_2, SYNC_3, h[1], Complement(h[1])>>
           w == WordBytes(Len(p))
<1>1. /\ h[1] \in Bytes /\ h[2] \in Bytes /\ h[3] \in Bytes /\ h[4] \in Bytes
      /\ SYNC_1 \in Bytes /\ SYNC_2 \in Bytes /\ SYNC_3 \in Bytes
  <2>1. ASSUME NEW i \in 1 .. 4 PROVE h[i] \in Bytes
    BY ElementOfSeq
  <2> QED
    BY <2>1, ParserAssumption
<1>2. w = <<h[3], h[4]>>
  BY <1>1, WordRoundTrip
<1>3. Encode([number |-> h[1], payload |-> p]) = ((a \o w) \o p) \o c
  BY DEF Encode
<1>4. /\ a \in Seq(Bytes) /\ Len(a) = 5
      /\ a[1] = SYNC_1 /\ a[2] = SYNC_2 /\ a[3] = SYNC_3 /\ a[4] = h[1] /\ a[5] = h[2]
  BY <1>1
<1>5. w \in Seq(Bytes) /\ Len(w) = 2 /\ w[1] = h[3] /\ w[2] = h[4]
  BY <1>1, <1>2
<1> HIDE DEF a, w
<1>6. a \o w = SyncWord \o h
  <2>1. /\ SyncWord \in Seq(Bytes) /\ Len(SyncWord) = 3
        /\ SyncWord[1] = SYNC_1 /\ SyncWord[2] = SYNC_2 /\ SyncWord[3] = SYNC_3
    BY <1>1 DEF SyncWord
  <2> DEFINE l == a \o w
             r == SyncWord \o h
  <2>2. /\ l \in Seq(Bytes) /\ Len(l) = Len(a) + Len(w)
        /\ \A i \in 1 .. Len(a) + Len(w) : l[i] = IF i <= Len(a) THEN a[i] ELSE w[i - Len(a)]
    <3>1. a \in Seq(Bytes) /\ w \in Seq(Bytes)
      BY <1>4, <1>5
    <3> QED
      BY <3>1, ConcatProperties
  <2>3. /\ r \in Seq(Bytes) /\ Len(r) = Len(SyncWord) + Len(h)
        /\ \A i \in 1 .. Len(SyncWord) + Len(h) :
               r[i] = IF i <= Len(SyncWord) THEN SyncWord[i] ELSE h[i - Len(SyncWord)]
    BY <2>1, ConcatProperties
  <2> HIDE DEF l, r
  <2>4. /\ Len(l) = 7
        /\ l[1] = SYNC_1 /\ l[2] = SYNC_2 /\ l[3] = SYNC_3
        /\ l[4] = h[1] /\ l[5] = h[2] /\ l[6] = h[3] /\ l[7] = h[4]
    BY <1>4, <1>5, <2>2
  <2>5. /\ Len(r) = 7
        /\ r[1] = SYNC_1 /\ r[2] = SYNC_2 /\ r[3] = SYNC_3
        /\ r[4] = h[1] /\ r[5] = h[2] /\ r[6] = h[3] /\ r[7] = h[4]
    BY <2>1, <2>3
  <2>6. ASSUME NEW i \in 1 .. Len(l) PROVE l[i] = r[i]
    <3>1. i = 1 \/ i = 2 \/ i = 3 \/ i = 4 \/ i = 5 \/ i = 6 \/ i = 7
      BY <2>4
    <3> QED
      BY <2>4, <2>5, <3>1
  <2>7. l = r
    BY <2>2, <2>3, <2>4, <2>5, <2>6, SeqEqual
  <2> QED
    BY <2>7 DEF l, r
<1> QED
  BY <1>3, <1>6

\* The frame that DeliverFrame hands over is what the stream ends in.
LEMMA DeliverySent ==
    ASSUME ParserInv, DeliverFrame
    PROVE  Ending(Len(Encode(delivered')), recent') = Encode(delivered')
<1>1. /\ Byte \in Bytes /\ recent' \in Seq(Bytes)
      /\ EndsIn(recent', Append(Collected(state, header, payload, crc), Byte))
  BY PushFacts DEF DeliverFrame
<1>2. /\ state = "CRC" /\ crc # <<>>
      /\ delivered' = [number |-> frame.number, payload |-> payload]
      /\ Word(Append(crc, Byte)) = Crc(payload)
      /\ header \in Seq(Bytes) /\ payload \in Seq(Bytes) /\ crc \in Seq(Bytes)
  BY DEF DeliverFrame, CrcMatches, Push, ParserInv, TypeInv
<1>3. /\ Len(header) = 4
      /\ header[2] = Complement(header[1])
      /\ frame.number = header[1]
      /\ Word(<<header[3], header[4]>>) = Len(payload)
      /\ Len(crc) <= 1
  BY <1>2 DEF ParserInv, ShapeInv
<1>4. Len(crc) = 1 /\ crc[1] \in Bytes
  <2>1. Len(crc) \in Nat \ {0}
    BY <1>2, EmptySeq
  <2>2. Len(crc) = 1
    <3> DEFINE n == Len(crc)
    <3> HIDE DEF n
    <3>1. n \in Nat /\ n # 0 /\ n <= 1
      BY <1>3, <2>1 DEF n
    <3>2. n = 1
      BY <3>1
    <3> QED
      BY <3>2 DEF n
  <2> QED
    BY <1>2, <2>2, ElementOfSeq
<1> DEFINE c == Append(crc, Byte)
<1>5. c = <<crc[1], Byte>> /\ c \in Seq(Bytes)
  BY <1>1, <1>2, <1>4, AppendedTuples, AppendProperties
<1>6. WordBytes(Crc(payload)) = c
  BY <1>1, <1>2, <1>4, <1>5, WordRoundTrip
<1> HIDE DEF c
<1>7. Encode(delivered') = SyncWord \o header \o payload \o c
  <2>1. Encode([number |-> header[1], payload |-> payload]) = SyncWord \o header \o payload \o c
    BY <1>2, <1>3, <1>5, <1>6, EncodedParts
  <2> QED
    BY <1>2, <1>3, <2>1
<1>8. Append(Collected(state, header, payload, crc), Byte) = SyncWord \o header \o payload \o c
  <2>1. SyncWord \o header \in Seq(Bytes)
    BY <1>2, SyncWordIsBytes, ConcatProperties
  <2>2. SyncWord \o header \o payload \in Seq(Bytes)
    BY <1>2, <2>1, ConcatProperties
  <2>3. Collected(state, header, payload, crc) = (SyncWord \o header \o payload) \o crc
    BY <1>2 DEF Collected
  <2> DEFINE shp == SyncWord \o header \o payload
  <2> HIDE DEF shp
  <2>4. Append(shp \o crc, Byte) = shp \o Append(crc, Byte)
    BY <1>1, <1>2, <2>2, AppendBehind DEF shp
  <2> QED
    BY <2>3, <2>4 DEF c, shp
<1>9. SyncWord \o header \o payload \o c \in Seq(Bytes)
  <2>1. SyncWord \o header \in Seq(Bytes)
    BY <1>2, SyncWordIsBytes, ConcatProperties
  <2>2. SyncWord \o header \o payload \in Seq(Bytes)
    BY <1>2, <2>1, ConcatProperties
  <2> QED
    BY <1>5, <2>2, ConcatProperties
<1> QED
  BY <1>1, <1>7, <1>8, <1>9, EndingOf

SentInv ==
    delivered # NoFrame => Ending(Len(Encode(delivered)), recent) = Encode(delivered)

LEMMA SentStep ==
    ASSUME ParserInv, SentInv, [Next]_vars
    PROVE  SentInv'
<1>1. CASE DeliverFrame
  BY <1>1, DeliverySent DEF SentInv
<1>2. CASE UNCHANGED <<delivered, recent>>
  BY <1>2 DEF SentInv
<1>3. CASE delivered' = NoFrame
  BY <1>3 DEF SentInv, NoFrame
<1>4. DeliverFrame \/ UNCHANGED <<delivered, recent>> \/ delivered' = NoFrame
  BY DEF Next, SendItem, SendPlainFrame, StartItem, PushByte, parser_push_sync, PushHeader,
         RejectHeader, AcceptHeader, FinishHeader, PushPayload, PushCrcLow, RejectFrame,
         Push, vars, parser, stream
<1> QED
  BY <1>1, <1>2, <1>3, <1>4

\* DeliveredWasSent: for every stream of bytes, the callback gets a frame only
\* if the last bytes of the stream are that frame, from its sync word to the
\* second byte of its CRC.
THEOREM DeliveriesWereSent == Spec => DeliveredWasSent
<1>1. Init => SentInv
  BY DEF Init, SentInv
<1>2. ParserInv /\ SentInv /\ [Next]_vars => SentInv'
  BY SentStep
<1>3. SentInv' => (delivered' # NoFrame
         => Ending(Len(Encode(delivered')), recent') = Encode(delivered'))
  BY DEF SentInv
<1> QED
  BY <1>1, <1>2, <1>3, ParserInvariant, PTL DEF Spec, DeliveredWasSent

-----------------------------------------------------------------------------
(* Frames that begin while the parser searches.                            *)

\* s is the part of i behind its first o elements.
IsPart(s, i, o, n) == Len(s) = n /\ \A j \in 1 .. n : s[j] = i[o + j]

LEMMA PartGrows ==
    ASSUME NEW s \in Seq(Bytes), NEW b \in Bytes, NEW i, NEW o \in Nat, NEW n \in Nat,
           IsPart(s, i, o, n), b = i[o + n + 1]
    PROVE  IsPart(Append(s, b), i, o, n + 1)
<1> DEFINE t == Append(s, b)
<1>1. Len(s) = n /\ \A j \in 1 .. n : s[j] = i[o + j]
  BY DEF IsPart
<1>2. Len(t) = n + 1 /\ t[n + 1] = b /\ \A j \in 1 .. n : t[j] = s[j]
  BY <1>1, AppendProperties
<1> HIDE DEF t
<1>3. ASSUME NEW j \in 1 .. n + 1 PROVE t[j] = i[o + j]
  <2>1. CASE j = n + 1
    BY <1>2, <2>1
  <2>2. CASE j \in 1 .. n
    BY <1>1, <1>2, <2>2
  <2> QED
    BY <2>1, <2>2
<1> QED
  BY <1>2, <1>3 DEF IsPart, t

LEMMA PartIsSubSeq ==
    ASSUME NEW s \in Seq(Bytes), NEW i \in Seq(Bytes), Len(i) > 9, IsPart(s, i, 7, Len(i) - 9)
    PROVE  s = SubSeq(i, 8, Len(i) - 2)
<1> DEFINE n == Len(i)
           t == SubSeq(i, 8, n - 2)
<1>1. n \in Nat /\ n > 9
  BY LenProperties
<1>2. \A j \in 8 .. n - 2 : i[j] \in Bytes
  BY <1>1, ElementOfSeq
<1>3. t \in Seq(Bytes) /\ Len(t) = (IF 8 <= n - 2 THEN n - 2 - 8 + 1 ELSE 0)
      /\ \A j \in 1 .. n - 2 - 8 + 1 : t[j] = i[8 + j - 1]
  BY <1>1, <1>2, SubSeqProperties
<1> HIDE DEF t
<1>4. Len(s) = n - 9 /\ \A j \in 1 .. n - 9 : s[j] = i[7 + j]
  BY DEF IsPart
<1> HIDE DEF n
<1>5. Len(t) = Len(s)
  BY <1>1, <1>3, <1>4
<1>6. ASSUME NEW j \in 1 .. Len(s) PROVE s[j] = t[j]
  <2>1. j \in 1 .. n - 9 /\ j \in 1 .. n - 2 - 8 + 1 /\ 8 + j - 1 = 7 + j
    BY <1>1, <1>4
  <2> QED
    BY <1>3, <1>4, <2>1
<1>7. s = t
  BY <1>3, <1>5, <1>6, SeqEqual
<1> QED
  BY <1>7 DEF t, n

LEMMA WordOfBytes ==
    ASSUME NEW w \in Nat, BYTE_MOD > 0
    PROVE  Word(WordBytes(w)) = w
<1> DEFINE q == w \div BYTE_MOD
           r == w % BYTE_MOD
<1>1. BYTE_MOD \in Nat
  BY ParserAssumption
<1>2. w = BYTE_MOD * q + r /\ r \in Int /\ q \in Int
  BY <1>1, SMTT(20)
<1>3. Word(WordBytes(w)) = r + BYTE_MOD * q
  BY DEF Word, WordBytes
<1> HIDE DEF q, r
<1>4. BYTE_MOD * q \in Int
  BY <1>1, <1>2
<1> QED
  BY <1>2, <1>3, <1>4

LEMMA Joined ==
    ASSUME NEW s \in Seq(Int), NEW t \in Seq(Int), NEW u, u = s \o t
    PROVE  /\ u \in Seq(Int) /\ Len(u) = Len(s) + Len(t)
           /\ \A j \in 1 .. Len(s) : u[j] = s[j]
           /\ \A j \in 1 .. Len(t) : u[Len(s) + j] = t[j]
<1>1. /\ u \in Seq(Int) /\ Len(u) = Len(s) + Len(t)
      /\ \A j \in 1 .. Len(s) + Len(t) : u[j] = IF j <= Len(s) THEN s[j] ELSE t[j - Len(s)]
  BY ConcatProperties
<1>2. Len(s) \in Nat /\ Len(t) \in Nat
  BY LenProperties
<1>3. ASSUME NEW j \in 1 .. Len(s) PROVE u[j] = s[j]
  BY <1>1, <1>2
<1>4. ASSUME NEW j \in 1 .. Len(t) PROVE u[Len(s) + j] = t[j]
  <2>1. Len(s) + j \in 1 .. Len(s) + Len(t) /\ ~(Len(s) + j <= Len(s)) /\ Len(s) + j - Len(s) = j
    BY <1>2
  <2> QED
    BY <1>1, <2>1
<1> QED
  BY <1>1, <1>3, <1>4

\* A frame, byte by byte.
LEMMA FrameFacts ==
    ASSUME NEW i \in Items \cup PlainFrames, IsFrame(i)
    PROVE  /\ i \in Seq(Bytes) /\ Len(i) \in Nat /\ Len(i) > 9
           /\ i[1] = SYNC_1 /\ i[2] = SYNC_2 /\ i[3] = SYNC_3
           /\ i[5] = Complement(i[4])
           /\ Word(<<i[6], i[7]>>) = Len(i) - 9
           /\ Len(i) - 9 \in MIN_PAYLOAD_SIZE .. MAX_PAYLOAD_SIZE
           /\ Word(<<i[Len(i) - 1], i[Len(i)]>>) = Crc(SubSeq(i, 8, Len(i) - 2))
<1> DEFINE n == Len(i)
           p == SubSeq(i, 8, n - 2)
           a == <<SYNC_1, SYNC_2, SYNC_3, i[4], Complement(i[4])>>
           w == WordBytes(Len(p))
           c == WordBytes(Crc(p))
<1>1. i \in Seq(Bytes) /\ n \in Nat /\ n > 9 /\ Crc(p) \in Nat
  BY ParserAssumption, LenProperties DEF IsFrame
<1>2. i = ((a \o w) \o p) \o c /\ Len(p) \in MIN_PAYLOAD_SIZE .. MAX_PAYLOAD_SIZE
  BY DEF IsFrame, Encode
<1>3. p \in Seq(Bytes) /\ Len(p) = n - 9
  <2>1. \A j \in 8 .. n - 2 : i[j] \in Bytes
    BY <1>1, ElementOfSeq
  <2>2. p \in Seq(Bytes) /\ Len(p) = (IF 8 <= n - 2 THEN n - 2 - 8 + 1 ELSE 0)
    BY <1>1, <2>1, SubSeqProperties
  <2> HIDE DEF p
  <2> QED
    BY <1>1, <2>2
<1>4. BYTE_MOD \in Nat /\ BYTE_MOD > 0 /\ Bytes \subseteq Int
      /\ SYNC_1 \in Int /\ SYNC_2 \in Int /\ SYNC_3 \in Int
  BY ParserAssumption DEF Bytes
<1>5. i[4] \in Int /\ Complement(i[4]) \in Int
  <2>0. i[4] \in Bytes
    BY <1>1, ElementOfSeq
  <2>1. i[4] \in Int
    BY <1>4, <2>0
  <2>2. BYTE_MOD - 1 - i[4] \in Int
    BY <1>4, <2>1
  <2> QED
    BY <2>1, <2>2 DEF Complement
<1>6. /\ a \in Seq(Int) /\ Len(a) = 5
      /\ a[1] = SYNC_1 /\ a[2] = SYNC_2 /\ a[3] = SYNC_3
      /\ a[4] = i[4] /\ a[5] = Complement(i[4])
  <2> DEFINE x == i[4]
             y == Complement(i[4])
  <2>1. x \in Int /\ y \in Int
    BY <1>5
  <2>2. a = <<SYNC_1, SYNC_2, SYNC_3, x, y>>
    OBVIOUS
  <2> HIDE DEF x, y, a
  <2>3. /\ a \in Seq(Int) /\ Len(a) = 5
        /\ a[1] = SYNC_1 /\ a[2] = SYNC_2 /\ a[3] = SYNC_3 /\ a[4] = x /\ a[5] = y
    BY <1>4, <2>1, <2>2
  <2> QED
    BY <2>3 DEF x, y
<1>7. ASSUME NEW x \in Nat
      PROVE  /\ WordBytes(x) \in Seq(Int) /\ Len(WordBytes(x)) = 2
             /\ WordBytes(x) = <<WordBytes(x)[1], WordBytes(x)[2]>>
  <2>1. x % BYTE_MOD \in Int /\ x \div BYTE_MOD \in Int
    BY <1>4
  <2> QED
    BY <2>1 DEF WordBytes
<1>8. Len(p) \in Nat
  BY <1>3, LenProperties
<1>9. /\ w \in Seq(Int) /\ Len(w) = 2 /\ w = <<w[1], w[2]>> /\ Word(w) = Len(p)
      /\ c \in Seq(Int) /\ Len(c) = 2 /\ c = <<c[1], c[2]>> /\ Word(c) = Crc(p)
  BY <1>1, <1>4, <1>7, <1>8, WordOfBytes
<1>10. p \in Seq(Int)
  BY <1>3, <1>4, SeqMonotonic
<1> HIDE DEF p, a, w, c, n
<1> DEFINE aw == a \o w
           awp == aw \o p
<1> HIDE DEF aw, awp
<1>11. /\ aw \in Seq(Int) /\ Len(aw) = 7
       /\ \A j \in 1 .. 5 : aw[j] = a[j]
       /\ \A j \in 1 .. 2 : aw[5 + j] = w[j]
  <2>1. aw = a \o w
    BY DEF aw
  <2>2. /\ aw \in Seq(Int) /\ Len(aw) = Len(a) + Len(w)
        /\ \A j \in 1 .. Len(a) : aw[j] = a[j]
        /\ \A j \in 1 .. Len(w) : aw[Len(a) + j] = w[j]
    <3>1. a \in Seq(Int) /\ w \in Seq(Int)
      BY <1>6, <1>9
    <3> QED
      BY <2>1, <3>1, Joined
  <2> QED
    BY <1>6, <1>9, <2>2
<1>12. /\ awp \in Seq(Int) /\ Len(awp) = n - 2
       /\ \A j \in 1 .. 7 : awp[j] = aw[j]
  <2>1. awp = aw \o p
    BY DEF awp
  <2>2. /\ awp \in Seq(Int) /\ Len(awp) = Len(aw) + Len(p)
        /\ \A j \in 1 .. Len(aw) : awp[j] = aw[j]
    <3>1. aw \in Seq(Int) /\ p \in Seq(Int)
      BY <1>10, <1>11
    <3> QED
      BY <2>1, <3>1, Joined
  <2> QED
    BY <1>1, <1>3, <1>11, <2>2
<1>13. /\ \A j \in 1 .. n - 2 : i[j] = awp[j]
       /\ i[n - 1] = c[1] /\ i[n] = c[2]
  <2>1. i = awp \o c
    BY <1>2 DEF awp, aw
  <2>2. /\ \A j \in 1 .. Len(awp) : i[j] = awp[j]
        /\ \A j \in 1 .. Len(c) : i[Len(awp) + j] = c[j]
    <3>1. awp \in Seq(Int) /\ c \in Seq(Int)
      BY <1>9, <1>12
    <3> QED
      BY <2>1, <3>1, Joined
  <2>3. /\ \A j \in 1 .. n - 2 : i[j] = awp[j]
        /\ \A j \in 1 .. 2 : i[n - 2 + j] = c[j]
    BY <1>9, <1>12, <2>2
  <2>4. i[n - 2 + 1] = c[1] /\ i[n - 2 + 2] = c[2]
    BY <2>3
  <2>5. n - 2 + 1 = n - 1 /\ n - 2 + 2 = n
    BY <1>1
  <2> QED
    BY <2>3, <2>4, <2>5
<1>14. ASSUME NEW j \in 1 .. 7 PROVE i[j] = aw[j]
  <2>1. j \in 1 .. n - 2
    BY <1>1
  <2> QED
    BY <1>12, <1>13, <2>1
<1>15. i[1] = SYNC_1 /\ i[2] = SYNC_2 /\ i[3] = SYNC_3 /\ i[5] = Complement(i[4])
       /\ i[6] = w[1] /\ i[7] = w[2]
  <2>1. /\ aw[1] = a[1] /\ aw[2] = a[2] /\ aw[3] = a[3] /\ aw[4] = a[4] /\ aw[5] = a[5]
        /\ aw[5 + 1] = w[1] /\ aw[5 + 2] = w[2]
    BY <1>11
  <2> QED
    BY <1>6, <1>14, <2>1
<1>16. Word(<<i[6], i[7]>>) = n - 9
  BY <1>3, <1>9, <1>15
<1>17. Word(<<i[n - 1], i[n]>>) = Crc(p)
  BY <1>9, <1>13
<1>18. n - 9 \in MIN_PAYLOAD_SIZE .. MAX_PAYLOAD_SIZE
  BY <1>2, <1>3 DEF p, n
<1> QED
  BY <1>1, <1>15, <1>16, <1>17, <1>18 DEF n, p

\* How far the parser is with k bytes of the frame i taken.
Phase(i, k, s, h, l, p, c) ==
    /\ k = 0 => s \in Search
    /\ k = 1 => s = "SYNC_2"
    /\ k = 2 => s = "SYNC_3"
    /\ k \in 3 .. 6 => s = "HEADER" /\ IsPart(h, i, 3, k - 3)
    /\ k \in 7 .. Len(i) - 3 => s = "PAYLOAD" /\ l = Len(i) - 9 /\ IsPart(p, i, 7, k - 7)
    /\ k \in Len(i) - 2 .. Len(i) - 1 => s = "CRC" /\ p = SubSeq(i, 8, Len(i) - 2)
    /\ k = Len(i) - 2 => c = <<>>
    /\ k = Len(i) - 1 => c = <<i[Len(i) - 1]>>

Position == Len(item) - Len(todo)

ItemInv ==
    /\ item \in Items \cup PlainFrames \cup {<<>>}
    /\ todo # <<>> =>
          /\ item # <<>>
          /\ Position \in 0 .. Len(item) - 1
          /\ \A j \in 1 .. Len(todo) : todo[j] = item[Position + j]

FoundInv ==
    todo # <<>> /\ searching /\ IsFrame(item)
        => Phase(item, Position, state, header, frame.length, payload, crc)

\* The next byte of an item, and the rest.
LEMMA ItemStep ==
    ASSUME ParserInv, ItemInv, PushByte
    PROVE  /\ todo # <<>> /\ item' = item /\ searching' = searching
           /\ item \in Items \cup PlainFrames /\ item \in Seq(Bytes)
           /\ Position \in 0 .. Len(item) - 1 /\ Byte = item[Position + 1] /\ Byte \in Bytes
           /\ Len(todo') = Len(todo) - 1 /\ Position' = Position + 1
           /\ Len(item) \in Nat /\ Len(todo) \in Nat \ {0}
           /\ ItemInv'
<1>1. todo # <<>> /\ item' = item /\ searching' = searching /\ todo' = Tail(todo)
  BY DEF PushByte, parser_push_sync, PushHeader, RejectHeader, AcceptHeader, FinishHeader,
         PushPayload, PushCrcLow, RejectFrame, DeliverFrame, Push
<1>2. /\ item \in Items \cup PlainFrames /\ Position \in 0 .. Len(item) - 1
      /\ \A j \in 1 .. Len(todo) : todo[j] = item[Position + j]
  BY <1>1 DEF ItemInv
<1>3. item \in Seq(Bytes) /\ Len(item) \in Nat
  BY <1>2, ParserAssumption, LenProperties
<1>4. todo \in Seq(Bytes) /\ Len(todo) \in Nat \ {0}
  BY <1>1, EmptySeq DEF ParserInv, TypeInv
<1>5. /\ Tail(todo) \in Seq(Bytes) /\ Len(Tail(todo)) = Len(todo) - 1
      /\ \A j \in 1 .. Len(Tail(todo)) : Tail(todo)[j] = todo[j + 1]
      /\ Head(todo) = todo[1] /\ Head(todo) \in Bytes
  BY <1>1, <1>4, HeadTailProperties
<1>6. Byte = item[Position + 1] /\ Byte \in Bytes
  <2>1. todo[1] = item[Position + 1]
    BY <1>2, <1>4
  <2> QED
    BY <1>5, <2>1 DEF Byte
<1>7. Len(todo') = Len(todo) - 1 /\ Position' = Position + 1
  BY <1>1, <1>3, <1>4, <1>5 DEF Position
<1>8. ItemInv'
  <2> SUFFICES ASSUME todo' # <<>>
               PROVE  /\ item' # <<>> /\ Position' \in 0 .. Len(item') - 1
                      /\ \A j \in 1 .. Len(todo') : todo'[j] = item'[Position' + j]
    BY <1>1, <1>2 DEF ItemInv
  <2>1. Len(todo') \in Nat \ {0} /\ todo' \in Seq(Bytes)
    BY <1>1, <1>5, EmptySeq
  <2>2. Position' \in 0 .. Len(item') - 1
    <3>1. Len(todo') >= 1 /\ Len(todo') \in Nat
      BY <2>1
    <3>2. Position' = Len(item) - Len(todo')
      BY <1>1 DEF Position
    <3> QED
      BY <1>1, <1>2, <1>3, <1>7, <3>1, <3>2
  <2>3. ASSUME NEW j \in 1 .. Len(todo') PROVE todo'[j] = item'[Position' + j]
    <3>1. todo'[j] = todo[j + 1]
      BY <1>1, <1>5
    <3>2. j + 1 \in 1 .. Len(todo)
      BY <1>4, <1>7
    <3>3. todo[j + 1] = item[Position + (j + 1)]
      BY <1>2, <3>2
    <3>4. Position + (j + 1) = Position' + j
      BY <1>2, <1>3, <1>7
    <3> QED
      BY <1>1, <3>1, <3>3, <3>4
  <2>4. item' # <<>>
    BY <1>1, <1>2, ParserAssumption
  <2> QED
    BY <2>2, <2>3, <2>4
<1> QED
  BY <1>1, <1>2, <1>3, <1>4, <1>6, <1>7, <1>8

\* Each byte of a frame takes the parser one step further, and the last one
\* delivers it.
LEMMA FrameStep ==
    ASSUME ParserInv, ItemInv, FoundInv, PushByte, searching, IsFrame(item)
    PROVE  /\ Position + 1 < Len(item)
                 => Phase(item, Position + 1, state', header', frame'.length, payload', crc')
           /\ Position + 1 = Len(item) => delivered' # NoFrame
<1> DEFINE k == Position
           n == Len(item)
<1>1. /\ item \in Items \cup PlainFrames /\ item \in Seq(Bytes)
      /\ k \in 0 .. n - 1 /\ Byte = item[k + 1] /\ Byte \in Bytes /\ n \in Nat
      /\ todo # <<>>
  BY ItemStep
<1>2. /\ n > 9
      /\ item[1] = SYNC_1 /\ item[2] = SYNC_2 /\ item[3] = SYNC_3
      /\ item[5] = Complement(item[4])
      /\ Word(<<item[6], item[7]>>) = n - 9
      /\ n - 9 \in MIN_PAYLOAD_SIZE .. MAX_PAYLOAD_SIZE
      /\ Word(<<item[n - 1], item[n]>>) = Crc(SubSeq(item, 8, n - 2))
  BY <1>1, FrameFacts
<1>3. Phase(item, k, state, header, frame.length, payload, crc)
  BY <1>1 DEF FoundInv
<1>4. header \in Seq(Bytes) /\ payload \in Seq(Bytes) /\ crc \in Seq(Bytes)
  BY DEF ParserInv, TypeInv
<1> DEFINE Ahead == Phase(item, k + 1, state', header', frame'.length, payload', crc')
<1> HIDE DEF k, n
<1>n. n = Len(item)
  BY DEF n
<1>5. CASE k \in 0 .. 2
  <2>1. state \in Search /\ (k = 1 => state = "SYNC_2") /\ (k = 2 => state = "SYNC_3")
    BY <1>3, <1>5 DEF Phase, Search
  <2>2. parser_push_sync
    BY <2>1 DEF PushByte, PushHeader, RejectHeader, AcceptHeader, FinishHeader, PushPayload,
                PushCrcLow, RejectFrame, DeliverFrame, Push, Search
  <2>3. state' = AfterSync(state, Byte) /\ (state' = "HEADER" => header' = <<>>)
    BY <2>2 DEF parser_push_sync
  <2>4. k = 0 => state' = "SYNC_2"
    BY <1>1, <1>2, <2>1, <2>3, ParserAssumption DEF AfterSync, Search
  <2>5. k = 1 => state' = "SYNC_3"
    BY <1>1, <1>2, <2>1, <2>3 DEF AfterSync
  <2>6. k = 2 => state' = "HEADER" /\ header' = <<>>
    BY <1>1, <1>2, <2>1, <2>3 DEF AfterSync
  <2>7. IsPart(<<>>, item, 3, 0)
    BY DEF IsPart
  <2>8. Ahead
    <3>1. CASE k = 0
      BY <1>2, <1>n, <2>4, <3>1 DEF Phase
    <3>2. CASE k = 1
      BY <1>2, <1>n, <2>5, <3>2 DEF Phase
    <3>3. CASE k = 2
      <4>1. k + 1 = 3 /\ k + 1 - 3 = 0
        BY <3>3
      <4>2. IsPart(header', item, 3, k + 1 - 3)
        BY <2>6, <2>7, <3>3, <4>1
      <4> QED
        BY <1>1, <1>2, <1>n, <2>6, <3>3, <4>1, <4>2 DEF Phase
    <3> QED
      BY <1>5, <3>1, <3>2, <3>3
  <2> QED
    BY <1>1, <1>2, <1>5, <2>8 DEF k, n
<1>6. CASE k \in 3 .. 6
  <2>1. state = "HEADER" /\ IsPart(header, item, 3, k - 3)
    BY <1>3, <1>6 DEF Phase
  <2>2. PushHeader \/ RejectHeader \/ AcceptHeader
    BY <2>1 DEF PushByte, parser_push_sync, PushPayload, PushCrcLow, RejectFrame, DeliverFrame,
                Push, Search
  <2>3. /\ Len(header) = k - 3
        /\ \A j \in 1 .. k - 3 : header[j] = item[3 + j]
    BY <2>1 DEF IsPart
  <2>4. IsPart(Append(header, Byte), item, 3, k - 3 + 1)
    <3>1. k - 3 \in Nat /\ 3 + (k - 3) + 1 = k + 1
      BY <1>6
    <3> QED
      BY <1>1, <1>4, <2>1, <3>1, PartGrows
  <2>5. CASE k # 6
    <3>1. PushHeader
      BY <1>6, <2>2, <2>3, <2>5 DEF RejectHeader, AcceptHeader, FinishHeader
    <3>2. state' = "HEADER" /\ header' = Append(header, Byte)
      BY <2>1, <3>1 DEF PushHeader
    <3>3. k + 1 \in 3 .. 6 /\ k - 3 + 1 = k + 1 - 3
      BY <1>6, <2>5
    <3>5. IsPart(header', item, 3, k + 1 - 3)
      BY <2>4, <3>2, <3>3
    <3>4. Ahead
      BY <1>1, <1>2, <1>n, <3>2, <3>3, <3>5 DEF Phase
    <3> QED
      BY <1>2, <3>3, <3>4 DEF k, n
  <2>6. CASE k = 6
    <3>1. /\ Len(header) = 3
          /\ header[1] = item[4] /\ header[2] = item[5] /\ header[3] = item[6]
          /\ Byte = item[7]
      BY <1>1, <2>3, <2>6
    <3>2. HeaderLength = n - 9
      BY <1>2, <3>1 DEF HeaderLength
    <3>3. HeaderIsValid
      BY <1>2, <3>1, <3>2 DEF HeaderIsValid
    <3>4. AcceptHeader
      BY <2>2, <3>1, <3>3 DEF PushHeader, RejectHeader
    <3>5. state' = "PAYLOAD" /\ payload' = <<>> /\ frame'.length = n - 9
      BY <3>2, <3>4 DEF AcceptHeader
    <3>6. IsPart(<<>>, item, 7, 0)
      BY DEF IsPart
    <3>7. k + 1 = 7
      BY <2>6
    <3>8. Ahead
      BY <1>1, <1>2, <1>n, <3>5, <3>6, <3>7 DEF Phase
    <3> QED
      BY <1>2, <2>6, <3>8 DEF k, n
  <2> QED
    BY <2>5, <2>6
<1>7. CASE k \in 7 .. n - 3
  <2>1. state = "PAYLOAD" /\ frame.length = n - 9 /\ IsPart(payload, item, 7, k - 7)
    BY <1>3, <1>7, <1>n DEF Phase
  <2>2. PushPayload
    BY <2>1 DEF PushByte, parser_push_sync, PushHeader, RejectHeader, AcceptHeader, FinishHeader,
                PushCrcLow, RejectFrame, DeliverFrame, Push, Search
  <2>3. /\ payload' = Append(payload, Byte) /\ frame' = frame
        /\ IF Len(payload') = frame.length THEN state' = "CRC" /\ crc' = <<>>
                                           ELSE state' = state
    BY <2>2 DEF PushPayload
  <2>4. k - 7 \in Nat /\ 7 + (k - 7) + 1 = k + 1 /\ k - 7 + 1 = k + 1 - 7
    BY <1>1, <1>7
  <2>5. IsPart(payload', item, 7, k + 1 - 7)
    BY <1>1, <1>4, <2>1, <2>3, <2>4, PartGrows
  <2>6. Len(payload') = k + 1 - 7
    BY <2>5 DEF IsPart
  <2>7. payload' \in Seq(Bytes)
    BY <1>1, <1>4, <2>3, AppendProperties
  <2>8. CASE k = n - 3
    <3>1. k + 1 - 7 = n - 9 /\ k + 1 = n - 2
      BY <1>1, <2>8
    <3>2. state' = "CRC" /\ crc' = <<>>
      BY <2>1, <2>3, <2>6, <3>1
    <3>3. payload' = SubSeq(item, 8, n - 2)
      BY <1>1, <1>2, <1>n, <2>5, <2>7, <3>1, PartIsSubSeq
    <3>4. Ahead
      BY <1>1, <1>2, <1>n, <3>1, <3>2, <3>3 DEF Phase
    <3> QED
      BY <1>1, <2>8, <3>4 DEF k, n
  <2>9. CASE k # n - 3
    <3>1. k + 1 \in 7 .. n - 3 /\ k + 1 - 7 # n - 9
      BY <1>1, <1>7, <2>9
    <3>2. state' = "PAYLOAD"
      BY <2>1, <2>3, <2>6, <3>1
    <3>3. Ahead
      BY <1>1, <1>2, <1>n, <2>1, <2>3, <2>5, <3>1, <3>2 DEF Phase
    <3> QED
      BY <1>1, <3>1, <3>3 DEF k, n
  <2> QED
    BY <2>8, <2>9
<1>8. CASE k = n - 2
  <2>1. state = "CRC" /\ payload = SubSeq(item, 8, n - 2) /\ crc = <<>>
    BY <1>1, <1>2, <1>3, <1>8, <1>n DEF Phase
  <2>2. PushCrcLow
    BY <2>1 DEF PushByte, parser_push_sync, PushHeader, RejectHeader, AcceptHeader, FinishHeader,
                PushPayload, RejectFrame, DeliverFrame, Push, Search
  <2>3. state' = "CRC" /\ payload' = payload /\ crc' = <<Byte>>
    BY <2>1, <2>2 DEF PushCrcLow
  <2>4. k + 1 = n - 1
    BY <1>1, <1>8
  <2>5. Ahead
    BY <1>1, <1>2, <1>n, <2>1, <2>3, <2>4 DEF Phase
  <2> QED
    BY <1>1, <2>4, <2>5 DEF k, n
<1>9. CASE k = n - 1
  <2>1. state = "CRC" /\ payload = SubSeq(item, 8, n - 2) /\ crc = <<item[n - 1]>>
    <3>1. k \in n - 2 .. n - 1
      BY <1>1, <1>2, <1>9
    <3>2. state = "CRC" /\ payload = SubSeq(item, 8, n - 2)
      BY <1>3, <1>n, <3>1 DEF Phase
    <3>3. crc = <<item[n - 1]>>
      BY <1>3, <1>9, <1>n DEF Phase
    <3> QED
      BY <3>2, <3>3
  <2>2. Byte = item[n] /\ item[n - 1] \in Bytes
    <3>1. k + 1 = n
      BY <1>1, <1>9
    <3>2. n - 1 \in 1 .. n
      BY <1>1, <1>2
    <3> QED
      BY <1>1, <1>n, <3>1, <3>2, ElementOfSeq
  <2>3. Append(crc, Byte) = <<item[n - 1], item[n]>>
    <3>1. crc \in Seq(Bytes) /\ Len(crc) = 1 /\ crc[1] = item[n - 1]
      BY <1>4, <2>1
    <3> QED
      BY <1>1, <2>2, <3>1, AppendedTuples
  <2>4. CrcMatches
    BY <1>2, <2>1, <2>3 DEF CrcMatches
  <2>5. crc # <<>>
    BY <2>1
  <2>6. DeliverFrame
    BY <2>1, <2>4, <2>5
       DEF PushByte, parser_push_sync, PushHeader, RejectHeader, AcceptHeader, FinishHeader,
           PushPayload, PushCrcLow, RejectFrame, Push, Search
  <2>7. payload # <<>>
    <3>1. Len(payload) = frame.length /\ frame.length \in MIN_PAYLOAD_SIZE .. MAX_PAYLOAD_SIZE
      BY <2>1 DEF ParserInv, ShapeInv
    <3>2. Len(payload) # 0
      BY <3>1, ParserAssumption
    <3> QED
      BY <3>2, EmptySeq
  <2>8. delivered' # NoFrame
    BY <2>6, <2>7 DEF DeliverFrame, Push, NoFrame
  <2> QED
    BY <1>1, <1>9, <2>8 DEF k, n
<1>10. k \in 0 .. 2 \/ k \in 3 .. 6 \/ k \in 7 .. n - 3 \/ k = n - 2 \/ k = n - 1
  BY <1>1, <1>2
<1> QED
  BY <1>5, <1>6, <1>7, <1>8, <1>9, <1>10

LEMMA FoundStart ==
    ASSUME ParserInv, NEW i \in Items \cup PlainFrames, StartItem(i)
    PROVE  ItemInv' /\ FoundInv'
<1>1. /\ item' = i /\ todo' = i /\ searching' = (state \in Search)
      /\ state' = state /\ header' = header /\ frame' = frame /\ payload' = payload
      /\ crc' = crc
  BY DEF StartItem, parser
<1>2. i \in Seq(Bytes) /\ i # <<>> /\ Len(i) \in Nat \ {0}
  BY ParserAssumption, EmptySeq
<1>3. Position' = 0
  BY <1>1, <1>2 DEF Position
<1>4. ItemInv'
  BY <1>1, <1>2, <1>3 DEF ItemInv
<1>5. FoundInv'
  <2> SUFFICES ASSUME searching', IsFrame(i)
               PROVE  Phase(i, 0, state', header', frame'.length, payload', crc')
    BY <1>1, <1>3 DEF FoundInv
  <2>1. Len(i) > 9 /\ Len(i) \in Nat
    BY <1>2 DEF IsFrame
  <2>2. state' \in Search
    BY <1>1
  <2>3. /\ 0 # Len(i) - 2 /\ 0 # Len(i) - 1 /\ ~(0 \in 3 .. 6) /\ ~(0 \in 7 .. Len(i) - 3)
        /\ ~(0 \in Len(i) - 2 .. Len(i) - 1)
    <3> DEFINE n == Len(i)
    <3>1. n \in Nat /\ n > 9
      BY <2>1
    <3> HIDE DEF n
    <3>2. /\ 0 # n - 2 /\ 0 # n - 1 /\ ~(0 \in 3 .. 6) /\ ~(0 \in 7 .. n - 3)
          /\ ~(0 \in n - 2 .. n - 1)
      BY <3>1
    <3> QED
      BY <3>2 DEF n
  <2> QED
    BY <2>2, <2>3 DEF Phase
<1> QED
  BY <1>4, <1>5

LEMMA FoundStep ==
    ASSUME ParserInv, ItemInv, FoundInv, [Next]_vars
    PROVE  ItemInv' /\ FoundInv'
<1>1. CASE PushByte
  <2>1. /\ item' = item /\ searching' = searching /\ Position' = Position + 1 /\ ItemInv'
        /\ Position \in 0 .. Len(item) - 1 /\ Len(item) \in Nat
    BY <1>1, ItemStep
  <2>2. FoundInv'
    <3> SUFFICES ASSUME todo' # <<>>, searching, IsFrame(item)
                 PROVE  Phase(item, Position + 1, state', header', frame'.length, payload', crc')
      BY <2>1 DEF FoundInv
    <3>1. Position + 1 < Len(item)
      BY <2>1 DEF ItemInv
    <3> QED
      BY <1>1, <3>1, FrameStep
  <2> QED
    BY <2>1, <2>2
<1>2. CASE SendItem \/ SendPlainFrame
  BY <1>2, FoundStart DEF SendItem, SendPlainFrame
<1>3. CASE UNCHANGED vars
  <2>1. /\ UNCHANGED <<state, header, frame, payload, crc, todo, item, searching>>
        /\ Position' = Position
    BY <1>3 DEF vars, parser, stream, Position
  <2> QED
    BY <2>1 DEF ItemInv, FoundInv
<1> QED
  BY <1>1, <1>2, <1>3 DEF Next

\* FrameIsFound: for every stream, a frame whose first byte the parser takes
\* while it searches for the sync word is delivered with its last byte.
THEOREM FramesAreFound == Spec => FrameIsFound
<1>1. Init => ItemInv /\ FoundInv
  BY DEF Init, ItemInv, FoundInv
<1>2. ParserInv /\ ItemInv /\ FoundInv /\ [Next]_vars => ItemInv' /\ FoundInv'
  BY FoundStep
<1>3. ParserInv /\ ItemInv /\ FoundInv /\ [Next]_vars
        => [todo # <<>> /\ todo' = <<>> /\ searching /\ IsFrame(item) => delivered' # NoFrame]_vars
  <2> SUFFICES ASSUME ParserInv, ItemInv, FoundInv, [Next]_vars,
                      todo # <<>>, todo' = <<>>, searching, IsFrame(item)
               PROVE  delivered' # NoFrame
    OBVIOUS
  <2>1. PushByte
    BY ParserAssumption DEF Next, SendItem, SendPlainFrame, StartItem, vars, stream
  <2>2. Position' = Position + 1 /\ item' = item /\ Len(item) \in Nat
    BY <2>1, ItemStep
  <2>3. Position' = Len(item)
    BY <2>2, EmptySeq DEF Position
  <2> QED
    BY <2>1, <2>2, <2>3, FrameStep
<1> QED
  BY <1>1, <1>2, <1>3, ParserInvariant, PTL DEF Spec, FrameIsFound
=============================================================================
