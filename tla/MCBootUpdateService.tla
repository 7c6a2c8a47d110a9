------------------------- MODULE MCBootUpdateService -------------------------
(***************************************************************************)
(* The update service on a small device: words of 2 cells, sectors of 4    *)
(* and one bit per cell.  Cells 0-3 are the bootloader, 4-11 the           *)
(* application, 12-15 metadata.  The vector is the first word, and the one *)
(* valid vector has an erased cell in it, so that a chunk can store it and *)
(* a later chunk can clobber it.                                           *)
(***************************************************************************)
EXTENDS BootUpdateService, TLC

bits == {"b"}
one  == bits    \* an erased cell
zero == {}

validVectors == {(4 :> one) @@ (5 :> zero)}

image(app) == [a \in Address |-> IF a \in AppCells THEN app[a] ELSE one]

\* A blank device, one with an application, and one whose application has
\* lost its vector.
initialImages ==
    { image([a \in AppCells |-> one]),
      image([a \in AppCells |-> IF a = 4 THEN one ELSE zero]),
      image([a \in AppCells |-> zero]) }

req(cmd, type, addr, data) == [cmd |-> cmd, type |-> type, addr |-> addr, data |-> data]

\* Chunks of a part of a word, of two words, over the region's end, at an
\* unaligned address, below the region, past its end and without data.
chunks ==
    {<<4, <<one, zero, zero>>>>, <<4, <<zero, zero>>>>, <<8, <<zero, one, zero, zero>>>>,
     <<10, <<zero, zero, zero>>>>, <<5, <<zero>>>>, <<2, <<zero, zero>>>>,
     <<12, <<zero>>>>, <<6, <<>>>>}

requests ==
    {req("APP_DOWNLOAD", "DATA", c[1], c[2]) : c \in chunks}
    \cup {req("APP_DOWNLOAD", "CONTROL", 4, <<one, zero>>),
          req("ERASE_FLASH", "DATA", 4, <<>>),
          req("ERASE_FLASH", "DATA", 8, <<>>),
          req("ERASE_FLASH", "CONTROL", 4, <<>>),
          req("HANDSHAKE", "CONTROL", 0, <<>>),
          req("JUMP_TO_APP", "CONTROL", 0, <<>>),
          req("UNSUPPORTED", "CONTROL", 0, <<>>)}
=============================================================================
