----------------------------- MODULE FitsReader -----------------------------
(* The header of a FITS file as fits.c reads it: lines ("cards") of a      *)
(* keyword and a value, in blocks.  The first lines come in a fixed order, *)
(* the axes numbered; then anything follows until END, and the data start  *)
(* at the next block.                                                      *)
(*                                                                         *)
(* A line is a pair, a value a number or the text that matters.  Keywords  *)
(* that only bear on values (BLANK, BZERO, DATAMIN, ...) are like any      *)
(* other.  A file whose header has no END is left out, and sizes stay      *)
(* below 2^31.                                                             *)
EXTENDS Integers, Sequences, FiniteSets

CONSTANTS
    Widths, Heights, PlaneCounts, \* what headers may say
    Naxes,          \* the numbers of axes
    Bitpixes,       \* the bits of a value
    Patterns,       \* what BAYERPAT may say
    Unreadable,     \* a value that is not a number
    CardSize,       \* bytes of a line (80)
    CardsPerBlock,  \* lines of a block (36)
    MaxLines        \* bounds the lines of a header

ASSUME FitsAssumption ==
    /\ Widths \subseteq Nat /\ Heights \subseteq Nat /\ PlaneCounts \subseteq Nat
    /\ Naxes \subseteq 0..3 /\ Bitpixes \subseteq Int
    /\ Unreadable \notin Int /\ "" \notin Patterns
    /\ CardSize \in Nat \ {0} /\ CardsPerBlock \in Nat \ {0} /\ MaxLines \in Nat

VARIABLES
    cards,   \* the lines read so far
    header   \* fits_header, as far as an image depends on it

BlockSize == CardSize * CardsPerBlock   \* FITS_HEADER_BLOCK_SIZE

AxisName == <<"NAXIS1", "NAXIS2", "NAXIS3">>
AxisSizes(n) == CASE n = 1 -> Widths [] n = 2 -> Heights [] OTHER -> PlaneCounts

Key(card)   == card[1]
Value(card) == card[2]

End  == <<"END", "">>
Rgb  == <<"CTYPE3", "RGB">>
AxisCard == UNION {{AxisName[n]} \X (AxisSizes(n) \cup {Unreadable}) : n \in 1..3}
RestCard == ({"BAYERPAT"} \X Patterns) \cup {Rgb, <<"COMMENT", "">>, End}
Card ==
    ({"SIMPLE"} \X {"T", "F", "X"})
    \cup ({"BITPIX"} \X (Bitpixes \cup {Unreadable}))
    \cup ({"NAXIS"} \X (Naxes \cup {Unreadable}))
    \cup AxisCard \cup RestCard

(* fits_header_init() *)
NewHeader == [state |-> "SIMPLE", bitpix |-> 0, naxis |-> 0, naxisn |-> <<>>,
              rgb |-> FALSE, bayerpat |-> ""]

---------------------------------------------------------------------------
(* fits_header_parse_line() *)

(* Mutant: the number of the axis is not compared. *)
AcceptsAnyAxis(hd, card) ==
    CASE hd.state = "SIMPLE"  -> Key(card) = "SIMPLE" /\ Value(card) \in {"T", "F"}
      [] hd.state = "BITPIX"  -> Key(card) = "BITPIX" /\ Value(card) \in {8, 16, 32, -32, 64, -64}
      [] hd.state = "NAXIS"   -> Key(card) = "NAXIS" /\ Value(card) # Unreadable
      [] hd.state = "NAXIS_N" -> /\ \E n \in 1..3 : Key(card) = AxisName[n]
                                 /\ Value(card) # Unreadable
      [] hd.state = "REST"    -> TRUE

(* Whether the line is what its place calls for. *)
Accepts(hd, card) ==
    CASE hd.state = "SIMPLE"  -> Key(card) = "SIMPLE" /\ Value(card) \in {"T", "F"}
      [] hd.state = "BITPIX"  -> Key(card) = "BITPIX" /\ Value(card) \in {8, 16, 32, -32, 64, -64}
      [] hd.state = "NAXIS"   -> Key(card) = "NAXIS" /\ Value(card) # Unreadable
      [] hd.state = "NAXIS_N" -> /\ Key(card) = AxisName[Len(hd.naxisn) + 1]
                                 /\ Value(card) # Unreadable
      [] hd.state = "REST"    -> TRUE

(* The header after a line that was accepted. *)
ParseLine(hd, card) ==
    CASE hd.state = "SIMPLE" -> [hd EXCEPT !.state = "BITPIX"]
      [] hd.state = "BITPIX" -> [hd EXCEPT !.state = "NAXIS", !.bitpix = Value(card)]
      [] hd.state = "NAXIS" ->
           [hd EXCEPT !.state = IF Value(card) = 0 THEN "REST" ELSE "NAXIS_N",
                      !.naxis = Value(card)]
      [] hd.state = "NAXIS_N" ->
           [hd EXCEPT !.state = IF Len(hd.naxisn) + 1 = hd.naxis THEN "REST" ELSE "NAXIS_N",
                      !.naxisn = Append(hd.naxisn, Value(card))]
      [] hd.state = "REST" ->
           [hd EXCEPT !.rgb = @ \/ card = Rgb,
                      !.bayerpat = IF Key(card) = "BAYERPAT" THEN Value(card) ELSE @]

---------------------------------------------------------------------------
(* What the header says of the file. *)

(* Mutant: the block that is not full is forgotten. *)
DataOffsetFloor(lines) == (lines \div CardsPerBlock) * BlockSize

(* ceil(lines_read / 36.0) * FITS_HEADER_BLOCK_SIZE *)
DataOffset(lines) == ((lines + CardsPerBlock - 1) \div CardsPerBlock) * BlockSize

(* The last check of fits_read_header(). *)
HeaderFits(hd) == hd.rgb => hd.naxis = 3 /\ hd.naxisn[3] \in {3, 4}

(* fits_get_buffer_size(), of what create_fits_preview() asks for: values  *)
(* of 8 or 16 bits on two or three axes.                                   *)
BufferSize(hd) ==
    LET plane == hd.naxisn[1] * hd.naxisn[2] * (hd.bitpix \div 8)
    IN IF hd.naxis = 3 THEN plane * hd.naxisn[3] ELSE plane

(* fits_process_data(): the data must lie in the file. *)
HoldsData(hd, lines, fits_size) == BufferSize(hd) + DataOffset(lines) <= fits_size

=============================================================================
