------------------------- MODULE BootProtocolParser -------------------------
(***************************************************************************)
(* The frame parser, Protocol/Src/boot_protocol_parser.c, on a stream of   *)
(* bytes.  BootProtocolParserPushByte takes one byte per step, so how the  *)
(* driver splits the stream does not matter, and a partial frame is kept   *)
(* until bytes complete it: main() never calls BootProtocolParserTimeout.  *)
(*                                                                         *)
(*   sync word | number | ~number | length lo, hi | payload | CRC lo, hi   *)
(*                                                                         *)
(* The stream is a sequence of items that the host sends: whole frames,    *)
(* truncated or damaged ones, noise.  From some point on (calm) it sends   *)
(* only plain frames, in which the sync word stands at the start and       *)
(* nowhere else.  The statistics are left out, and so are the overflow     *)
(* branches, which no state of the parser reaches: a payload is never      *)
(* empty and is complete when its last byte is stored.                     *)
(***************************************************************************)
EXTENDS Integers, SequencesExt

CONSTANTS
    BYTE_MOD,           \* 256
    SYNC_1, SYNC_2, SYNC_3,
    MIN_PAYLOAD_SIZE,
    MAX_PAYLOAD_SIZE,
    Crc(_),             \* BootProtocolCrcCalculate
    Items,              \* what the host sends before the calm: byte sequences
    PlainFrames         \* what it sends then

Bytes == 0 .. BYTE_MOD - 1

ASSUME ParserAssumption ==
    /\ BYTE_MOD \in Nat /\ {SYNC_1, SYNC_2, SYNC_3} \subseteq Bytes
    /\ SYNC_1 \notin {SYNC_2, SYNC_3}
    /\ MIN_PAYLOAD_SIZE \in Nat \ {0} /\ MAX_PAYLOAD_SIZE \in Nat
    /\ Items \cup PlainFrames \subseteq Seq(Bytes) \ {<<>>}
    /\ \A i \in Items \cup PlainFrames : Len(i) > 9 => Crc(SubSeq(i, 8, Len(i) - 2)) \in Nat

VARIABLES
    state,
    header,         \* the bytes of header[] up to header_index
    frame,          \* number and payload_length
    payload,        \* the bytes of frame.payload up to payload_index
    crc,            \* the bytes of received_crc up to crc_index
    delivered,      \* what this byte made the callback get, if anything
    todo,           \* the rest of the item being sent
    item,           \* that item
    searching,      \* no header was being collected when it began
    recent,         \* the last MAX_FRAME_SIZE bytes of the stream
    calm,
    heard           \* a frame was delivered since the calm

parser == <<state, header, frame, payload, crc, delivered>>
stream == <<todo, item, searching, recent, calm, heard>>
vars == <<parser, stream>>

MAX_FRAME_SIZE == 3 + 4 + MAX_PAYLOAD_SIZE + 2

NoFrame == [number |-> 0, payload |-> <<>>]

Word(bytes) == bytes[1] + BYTE_MOD * bytes[2]

WordBytes(w) == <<w % BYTE_MOD, w \div BYTE_MOD>>

Complement(byte) == BYTE_MOD - 1 - byte

\* A frame as the host puts it on the wire.
Encode(f) ==
    <<SYNC_1, SYNC_2, SYNC_3, f.number, Complement(f.number)>>
        \o WordBytes(Len(f.payload)) \o f.payload \o WordBytes(Crc(f.payload))

Init ==
    /\ state = "SYNC_1"
    /\ header = <<>>
    /\ frame = [number |-> 0, length |-> 0]
    /\ payload = <<>>
    /\ crc = <<>>
    /\ delivered = NoFrame
    /\ todo = <<>>
    /\ item = <<>>
    /\ searching = TRUE
    /\ recent = <<>>
    /\ calm = FALSE
    /\ heard = FALSE

-----------------------------------------------------------------------------
(* The host.                                                               *)

Search == {"SYNC_1", "SYNC_2", "SYNC_3"}

StartItem(i) ==
    /\ todo = <<>>
    /\ todo' = i
    /\ item' = i
    /\ searching' = (state \in Search)
    /\ UNCHANGED <<parser, recent, heard>>

SendItem == ~calm /\ \E i \in Items : StartItem(i) /\ UNCHANGED calm

SendPlainFrame == \E i \in PlainFrames : StartItem(i) /\ calm' = TRUE

-----------------------------------------------------------------------------
(* BootProtocolParserPushByte.                                             *)

\* The next byte of the stream, in a state, with what it makes the callback
\* get.
Byte == Head(todo)

Ending(n, s) == SubSeq(s, IF Len(s) > n THEN Len(s) - n + 1 ELSE 1, Len(s))

Push(in, out) ==
    /\ todo # <<>>
    /\ state \in in
    /\ delivered' = out
    /\ todo' = Tail(todo)
    /\ recent' = Ending(MAX_FRAME_SIZE, Append(recent, Byte))
    /\ heard' = (heard \/ (calm /\ out # NoFrame))
    /\ UNCHANGED <<item, searching, calm>>

parser_reset_frame ==
    /\ state' = "SYNC_1"
    /\ header' = <<>>
    /\ payload' = <<>>
    /\ crc' = <<>>
    /\ frame' = [frame EXCEPT !.length = 0]

\* Mutant: a byte that breaks the sync word is never the start of one.
AfterSyncForgetful(s, byte) ==
    CASE s = "SYNC_1" /\ byte = SYNC_1 -> "SYNC_2"
      [] s = "SYNC_2" /\ byte = SYNC_2 -> "SYNC_3"
      [] s = "SYNC_3" /\ byte = SYNC_3 -> "HEADER"
      [] OTHER -> "SYNC_1"

AfterSync(s, byte) ==
    CASE s = "SYNC_2" /\ byte = SYNC_2 -> "SYNC_3"
      [] s = "SYNC_3" /\ byte = SYNC_3 -> "HEADER"
      [] OTHER -> IF byte = SYNC_1 THEN "SYNC_2" ELSE "SYNC_1"

parser_push_sync ==
    /\ Push(Search, NoFrame)
    /\ state' = AfterSync(state, Byte)
    /\ header' = IF state' = "HEADER" THEN <<>> ELSE header
    /\ UNCHANGED <<frame, payload, crc>>

PushHeader ==
    /\ Push({"HEADER"}, NoFrame)
    /\ Len(header) < 3
    /\ header' = Append(header, Byte)
    /\ UNCHANGED <<state, frame, payload, crc>>

\* parser_finish_header, with the byte that completes the header.
FinishHeader == Push({"HEADER"}, NoFrame) /\ Len(header) = 3

HeaderLength == Word(<<header[3], Byte>>)

HeaderIsValid ==
    /\ header[2] = Complement(header[1])
    /\ HeaderLength \in MIN_PAYLOAD_SIZE .. MAX_PAYLOAD_SIZE

RejectHeader ==
    /\ FinishHeader
    /\ ~HeaderIsValid
    /\ parser_reset_frame

AcceptHeader ==
    /\ FinishHeader
    /\ HeaderIsValid
    /\ header' = Append(header, Byte)
    /\ frame' = [number |-> header[1], length |-> HeaderLength]
    /\ payload' = <<>>
    /\ state' = "PAYLOAD"
    /\ UNCHANGED crc

PushPayload ==
    /\ Push({"PAYLOAD"}, NoFrame)
    /\ payload' = Append(payload, Byte)
    /\ IF Len(payload') = frame.length THEN state' = "CRC" /\ crc' = <<>>
                                       ELSE UNCHANGED <<state, crc>>
    /\ UNCHANGED <<header, frame>>

PushCrcLow ==
    /\ Push({"CRC"}, NoFrame)
    /\ crc = <<>>
    /\ crc' = <<Byte>>
    /\ UNCHANGED <<state, header, frame, payload>>

\* Mutant: the high byte of the CRC is not compared.
CrcMatchesLow == crc[1] = Crc(payload) % BYTE_MOD

CrcMatches == Word(Append(crc, Byte)) = Crc(payload)

\* Mutant: a wrong CRC does not end the frame.
RejectFrameStays ==
    /\ Push({"CRC"}, NoFrame)
    /\ crc # <<>>
    /\ ~CrcMatches
    /\ UNCHANGED <<state, header, frame, payload, crc>>

RejectFrame ==
    /\ Push({"CRC"}, NoFrame)
    /\ crc # <<>>
    /\ ~CrcMatches
    /\ parser_reset_frame

DeliverFrame ==
    /\ Push({"CRC"}, [number |-> frame.number, payload |-> payload])
    /\ crc # <<>>
    /\ CrcMatches
    /\ parser_reset_frame

PushByte ==
    \/ parser_push_sync
    \/ PushHeader \/ RejectHeader \/ AcceptHeader
    \/ PushPayload
    \/ PushCrcLow \/ RejectFrame \/ DeliverFrame

Next == SendItem \/ SendPlainFrame \/ PushByte

\* In the calm the host goes on sending; the main loop goes on parsing.
Spec == Init /\ [][Next]_vars /\ WF_vars(PushByte) /\ WF_vars(calm /\ SendPlainFrame)

-----------------------------------------------------------------------------
(* Properties.                                                             *)

Frames == [number : Bytes, payload : Seq(Bytes)]

\* What the callback gets is a frame that was on the wire byte by byte, up to
\* the byte just taken: no byte of an earlier, damaged frame gets into it.
DeliveredWasSent ==
    [][delivered' # NoFrame
         => Ending(Len(Encode(delivered')), recent') = Encode(delivered')]_vars

\* Item i is a frame that the parser has to accept.
IsFrame(i) ==
    /\ Len(i) > 9
    /\ LET f == [number |-> i[4], payload |-> SubSeq(i, 8, Len(i) - 2)]
       IN  i = Encode(f) /\ Len(f.payload) \in MIN_PAYLOAD_SIZE .. MAX_PAYLOAD_SIZE

\* A frame that begins while the parser is searching is delivered with its
\* last byte, whatever came before: noise, or any part of a sync word.
FrameIsFound ==
    [][todo # <<>> /\ todo' = <<>> /\ searching /\ IsFrame(item) => delivered' # NoFrame]_vars

\* The parser never stays out of step: whatever it has collected of a
\* damaged frame, once the host sends plain frames one is delivered.
Resynchronises == calm ~> heard
=============================================================================
