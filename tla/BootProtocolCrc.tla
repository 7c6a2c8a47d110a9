--------------------------- MODULE BootProtocolCrc ---------------------------
(***************************************************************************)
(* The CRC of a frame's payload, Protocol/Src/boot_protocol_crc.c, and its *)
(* way over the wire, low byte first.  A word is the set of its bits that  *)
(* are 1: a shift adds 1 to each, and an exclusive or is the symmetric     *)
(* difference.  (crc and input have 32 bits, and neither passes bit 24.)   *)
(***************************************************************************)
EXTENDS Naturals, Sequences

CONSTANTS
    Payloads,   \* the payloads that are sent, as sequences of bytes
    Disturbed,  \* those among them whose way over the wire is disturbed
    BurstBits   \* bound: the longest run of bits that a disturbance reaches

BitsOfByte == SUBSET (0 .. 7)

ASSUME CrcAssumption ==
    /\ Payloads \subseteq Seq(BitsOfByte)
    /\ BurstBits \in Nat \ {0}

VARIABLES
    payload,    \* what the sender has to send
    index,      \* bytes it has passed through crc_update
    crc,        \* the CRC after them
    wire        \* the frame's payload and CRC, once sent, as they arrive

crc_vars == <<payload, index, crc, wire>>

Shifted(word, n) == {b + n : b \in word}

Xor(v, w) == (v \ w) \cup (w \ v)

\* Mutant: 0x8005, another generator of the same degree.
IbmPolynomial == {15, 2, 0}

\* 0x1021
Polynomial == {12, 5, 0}

\* The byte's next bit, the most significant one first.
Carry(input) == IF 8 \in input THEN {0} ELSE {}

\* Mutant: the sentinel bit taken one turn early.
EndedEarly(input) == 15 \in input

Ended(input) == 16 \in input

\* One turn of crc_update's loop.  (Bit 16 stays, and no later turn looks at
\* it again.)
Turn(word, input) ==
    LET shifted == Shifted(word, 1) \cup Carry(input)
    IN  IF 16 \in shifted THEN Xor(shifted, Polynomial) ELSE shifted

\* The bit set on top of the byte ends the loop when it comes out at bit 16.
\* (At most 16 turns are looked at.)
crc_update(crc_in, byte) ==
    LET input(n) == Shifted(byte \cup {8}, n)
        turn[n \in 0 .. 16] == IF n = 0 THEN crc_in ELSE Turn(turn[n - 1], input(n))
        last == CHOOSE n \in 1 .. 16 : Ended(input(n)) /\ \A m \in 1 .. n - 1 : ~Ended(input(m))
    IN  turn[last] \cap (0 .. 15)

\* Mutant: one byte of zeros.
AugmentedOnce(word) == crc_update(word, {})

\* BootProtocolCrcCalculate behind its loop: two bytes of zeros.
Augmented(word) == crc_update(crc_update(word, {}), {})

BootProtocolCrcCalculate(data) ==
    LET after[i \in 0 .. Len(data)] == IF i = 0 THEN {} ELSE crc_update(after[i - 1], data[i])
    IN  Augmented(after[Len(data)])

CrcBytes(word) == <<word \cap (0 .. 7), {b - 8 : b \in word \ (0 .. 7)}>>

-----------------------------------------------------------------------------
CrcInit ==
    /\ payload \in Payloads
    /\ index = 0
    /\ crc = {}
    /\ wire = <<>>

UpdateCrc ==
    /\ index < Len(payload)
    /\ crc' = crc_update(crc, payload[index + 1])
    /\ index' = index + 1
    /\ UNCHANGED <<payload, wire>>

\* Bit number k of the wire, the most significant bit of each byte first.
Flipped(bytes, bits) ==
    [i \in DOMAIN bytes |->
        Xor(bytes[i], {b \in 0 .. 7 : 8 * (i - 1) + 7 - b \in bits})]

Arrives(bits) ==
    LET sent == payload \o CrcBytes(Augmented(crc))
    IN  /\ \A k \in bits : k < 8 * Len(sent)
        /\ wire' = Flipped(sent, bits)

SendFrame ==
    /\ index = Len(payload) /\ wire = <<>>
    /\ \/ Arrives({})
       \* A run of bits is disturbed: its first one, and any of the others.
       \/ /\ payload \in Disturbed
          /\ \E first \in 0 .. 8 * Len(payload) + 15, others \in SUBSET (1 .. BurstBits - 1) :
                Arrives({first} \cup Shifted(others, first))
    /\ UNCHANGED <<payload, index, crc>>

NextFrame ==
    /\ wire # <<>>
    /\ index' = 0 /\ crc' = {} /\ wire' = <<>>
    /\ UNCHANGED payload

CrcNext == UpdateCrc \/ SendFrame \/ NextFrame

CrcSpec == CrcInit /\ [][CrcNext]_crc_vars

\* The receiver's comparison.
FrameAccepted ==
    LET n == Len(wire) - 2
    IN  CrcBytes(BootProtocolCrcCalculate(SubSeq(wire, 1, n))) = SubSeq(wire, n + 1, n + 2)

-----------------------------------------------------------------------------
(* Properties.                                                             *)

\* x^16 + x^12 + x^5 + 1
Generator == {16, 12, 5, 0}

\* The term of degree d + 16 cancelled by a multiple of the generator.
Cancelled(p, d) == IF d + 16 \in p THEN Xor(p, Shifted(Generator, d)) ELSE p

\* Long division over GF(2): what is left of a polynomial of a degree below
\* n + 16 when its terms are cancelled from the highest one on.
Remainder(p, n) ==
    LET left[k \in 0 .. n] == IF k = 0 THEN p ELSE Cancelled(left[k - 1], n - k)
    IN  left[n]

\* The bits of a message as a polynomial.
MessagePolynomial(data) ==
    UNION {Shifted(data[i], 8 * (Len(data) - i)) : i \in DOMAIN data}

\* However long the message, the CRC is the remainder of the message behind
\* which 16 zeros were put, which is what the bytes, the shifts and the
\* sentinel bit of crc_update are meant to compute.  (A loop that is left too
\* early, a carry that is lost or a wrong augmentation would show in some
\* messages only.)
CrcIsTheRemainder ==
    Augmented(crc) =
        Remainder(Shifted(MessagePolynomial(SubSeq(payload, 1, index)), 16), 8 * index)

\* A frame arrives as it was sent, or its damage is seen: no disturbance of
\* up to BurstBits successive bits on the wire, in the payload, in the CRC
\* or across both, is taken for the frame.  (With the CRC's low byte first,
\* the generator's guarantee of 16 bits does not carry over to the wire.)
BurstIsSeen ==
    wire # <<>> =>
        (FrameAccepted <=> wire = payload \o CrcBytes(Augmented(crc)))
=============================================================================
