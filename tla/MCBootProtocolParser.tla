------------------------ MODULE MCBootProtocolParser ------------------------
(***************************************************************************)
(* The parser with four byte values, of which 3, 1, 2 are the sync word,   *)
(* payloads of one to three bytes and a checksum in the CRC's place.  A    *)
(* truncated frame can swallow a whole short one, and a payload can hold   *)
(* the sync word.                                                          *)
(***************************************************************************)
EXTENDS BootProtocolParser

checksum(p) == (5 + FoldLeft(LAMBDA sum, b : 3 * sum + b, 0, p)) % 16

short == Encode([number |-> 0, payload |-> <<2>>])
long  == Encode([number |-> 2, payload |-> <<3, 1, 2>>])
plain == Encode([number |-> 1, payload |-> <<0, 0>>])
big   == Encode([number |-> 0, payload |-> <<0, 0, 0, 0>>])

items ==
    { short, long,
      SubSeq(long, 1, 7),               \* ends behind the header
      SubSeq(short, 1, 9),              \* ends before the last byte
      [short EXCEPT ![5] = 0],          \* number and complement disagree
      [short EXCEPT ![6] = 0],          \* no payload
      big,                              \* more payload than fits
      [long EXCEPT ![9] = 0],           \* CRC errors
      [short EXCEPT ![10] = 3 - @],
      <<3>>, <<3, 1>> }                 \* parts of a sync word

plainFrames == {plain}
=============================================================================
