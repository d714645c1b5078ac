---------------------------- MODULE PreviewImage ----------------------------
(* How a preview is made of a FITS or RAW BLOB (imagepreview.cpp,          *)
(* stretcher.cpp): the header gives layout and size; a mosaic is           *)
(* debayered, planes are interleaved, then the raw data are stretched into *)
(* the image.  Debayering and stretching share the rows among threads; the *)
(* GUI thread collects the threads, handling events meanwhile, and copies  *)
(* what they wrote.                                                        *)
(*                                                                         *)
(* Values are abstracted to where they come from: a sample of the raw data *)
(* or of the image is the set of the samples it was computed from.  The    *)
(* buffers belong to this preview alone, so that the events handled and    *)
(* the previews nested in between leave this state alone.                  *)
EXTENDS FitsReader

CONSTANTS
    MaxSide,          \* the largest side accepted (65535)
    CoreCounts,       \* what get_number_of_cores() may return; 0: unknown
    DefaultThreads,   \* ICP_DEFAULT_THREADS
    MinParallel,      \* MIN_SIZE_TO_PARALLELIZE
    MaxSamples        \* maxSamples of the statistics

ASSUME ImageAssumption ==
    /\ CoreCounts \subseteq Nat
    /\ DefaultThreads \in Nat \ {0} /\ MaxSide \in Nat
    /\ MinParallel \in Nat /\ MaxSamples \in Nat \ {0}

VARIABLES
    at,         \* what the GUI thread does
    fits_size,  \* bytes of the file
    blob,       \* layout and size of the pixels received
    raw,        \* m_raw_data
    params,     \* the samples that the stretch parameters of a channel come from
    ranks,      \* threads of the current loop
    next,       \* the next row of each thread
    wrote,      \* the rows each thread has written
    collected,  \* threads the GUI thread has waited for
    pixels,     \* the vector the stretch writes to
    image       \* the preview

loop == <<ranks, next, wrote, collected>>
fits == <<cards, header, fits_size>>
vars == <<at, fits, blob, raw, params, loop, pixels, image>>

Mosaics == {"RGGB", "BGGR", "GRBG", "GBRG"}
Layouts == Mosaics \cup {"Y", "RGB", "planar"}
Blob    == [layout : Layouts, width : Widths, height : Heights]
NoBlob  == [layout |-> "Y", width |-> 0, height |-> 0]

w == blob.width
h == blob.height
Size     == w * h
Channels == IF blob.layout = "Y" THEN {0} ELSE 0..2
Depth    == IF blob.layout = "Y" THEN 1 ELSE 3   \* samples of a pixel
Samples  == 0 .. (Size * Depth - 1)              \* of the raw data

Nothing == [k \in {} |-> {}]
Smaller(a, b) == IF a <= b THEN a ELSE b

---------------------------------------------------------------------------
(* The rows of a thread. *)

(* Mutant: the rows are divided without rounding up. *)
ChunkFloor(t) == h \div t

(* ceil(rows / (double)threads) *)
Chunk(t) == (h + t - 1) \div t

StartRow(rank, t) == Chunk(t) * rank
EndRow(rank, t)   == Smaller(StartRow(rank, t) + Chunk(t), h)

Launch(t) ==
    /\ ranks' = t /\ collected' = 0
    /\ next' = [rank \in 0..(t - 1) |-> StartRow(rank, t)]
    /\ wrote' = [rank \in 0..(t - 1) |-> {}]

(* What get_number_of_cores() returns, or the default.                     *)
Threads == {IF cores > 0 THEN cores ELSE DefaultThreads : cores \in CoreCounts}

(* The stretch starts no more threads than there are rows.                 *)
StretchThreads == {Smaller(t, IF h > 0 THEN h ELSE 1) : t \in Threads}
DebayerThreads == IF Size < MinParallel THEN {1} ELSE Threads

---------------------------------------------------------------------------
(* debayer(): the samples of the mosaic that make the pixel at (row, col). *)

(* Mutant: two of the patterns are taken for each other. *)
SwappedOffsets(layout) ==
    CASE layout = "RGGB" -> <<0, 0>> [] layout = "BGGR" -> <<1, 1>>
      [] layout = "GRBG" -> <<0, 1>> [] OTHER -> <<1, 0>>

(* get_bayer_offsets(): of columns and of rows. *)
BayerOffsets(layout) ==
    CASE layout = "RGGB" -> <<0, 0>> [] layout = "BGGR" -> <<1, 1>>
      [] layout = "GRBG" -> <<1, 0>> [] OTHER -> <<0, 1>>

(* Which pixel of the pattern this is: <<0, 0>> is the red one. *)
Phase(row, col) ==
    LET o == BayerOffsets(blob.layout) IN <<(col + o[1]) % 2, (row + o[2]) % 2>>

Across(col) == IF col = 0 THEN {1} ELSE IF col = w - 1 THEN {-1} ELSE {-1, 1}
Along(row)  == IF row = 0 THEN {w} ELSE IF row = h - 1 THEN {-w} ELSE {-w, w}
Cross(row, col)    == Across(col) \cup Along(row)
Diagonal(row, col) == {a + b : a \in Across(col), b \in Along(row)}

(* The code spells these cases out, and two borders differ from the rest. *)
BlueOfRed(row, col) ==
    IF col = w - 1 /\ col # 0 /\ row = 0 THEN {w - 1, w + 1}
    ELSE IF col = w - 1 /\ col # 0 /\ row = h - 1 THEN {-w - 1, -w + 1}
    ELSE Diagonal(row, col)

RedOfBlue(row, col) ==
    IF col = 0 /\ row \in 1..(h - 2) THEN {-w + 1} ELSE Diagonal(row, col)

(* The distance of what red, green and blue are averaged from. *)
Debayer(row, col) ==
    CASE Phase(row, col) = <<0, 0>> -> <<{0}, Cross(row, col), BlueOfRed(row, col)>>
      [] Phase(row, col) = <<1, 0>> -> <<Across(col), {0}, Along(row)>>
      [] Phase(row, col) = <<0, 1>> -> <<Along(row), {0}, Across(col)>>
      [] OTHER                      -> <<RedOfBlue(row, col), Cross(row, col), {0}>>

DebayerRow(row) ==
    raw' = [k \in Samples |->
              LET index == k \div 3
              IN IF index \div w = row
                 THEN {index + d : d \in Debayer(row, index % w)[(k % 3) + 1]}
                 ELSE raw[k]]

---------------------------------------------------------------------------
(* computeParams(): the median of a channel comes from samples of it. *)

SampleBy == IF Size < MaxSamples THEN 1 ELSE Size \div MaxSamples

(* Mutant: the step of one channel is used for three. *)
SampledNarrow(channel) ==
    {channel + i * SampleBy : i \in 0 .. (Size \div SampleBy - 1)}

Sampled(channel) ==
    {channel + i * SampleBy * Depth :
       i \in 0 .. ((Size * Depth) \div (SampleBy * Depth) - 1)}

(* stretch_preview(): with a stretch level the statistics come first. *)
Stretch ==
    /\ \/ params' = [c \in Channels |-> Sampled(c)]
       \/ params' = [c \in Channels |-> {}]
    /\ pixels' = [i \in 0 .. (Size - 1) |-> [c \in 0..2 |-> {}]]
    /\ at' = "stretch"
    /\ \E t \in StretchThreads : Launch(t)

StretchRow(row) ==
    pixels' = [i \in DOMAIN pixels |->
                 IF i \div w = row
                 THEN [c \in 0..2 |-> raw[IF Depth = 1 THEN i ELSE i * 3 + c]]
                 ELSE pixels[i]]

---------------------------------------------------------------------------
(* create_fits_preview() and create_raw_preview(): layout and size.        *)

Init ==
    /\ at = "idle"
    /\ cards = <<>> /\ header = NewHeader /\ fits_size = 0
    /\ blob = NoBlob
    /\ raw = Nothing /\ params = Nothing
    /\ ranks = 0 /\ next = Nothing /\ wrote = Nothing /\ collected = 0
    /\ pixels = Nothing /\ image = Nothing

Forget == cards' = <<>> /\ header' = NewHeader /\ fits_size' = 0

(* A RAW header says it all. *)
CreateRawPreview ==
    /\ at = "idle" /\ at' = "create"
    /\ blob' \in [layout : {"Y", "RGB"}, width : Widths, height : Heights]
    /\ UNCHANGED <<fits, raw, params, loop, pixels, image>>

(* A FITS file, of a block at least, is read line by line. *)
CreateFitsPreview ==
    /\ at = "idle" /\ at' = "header"
    /\ UNCHANGED <<fits, blob, raw, params, loop, pixels, image>>

Ends(card) == header.state = "REST" /\ card = End

(* Among the lines of any kind one stands for all that mean nothing there.  *)
Idle(card) == header.state = "REST" /\ Key(card) \notin {"BAYERPAT", "CTYPE3", "COMMENT"}

ReadLine(card) ==
    /\ at = "header"
    /\ Len(cards) + 1 < MaxLines
    /\ Accepts(header, card) /\ ~Ends(card) /\ ~Idle(card)
    /\ cards' = Append(cards, card)
    /\ header' = ParseLine(header, card)
    /\ UNCHANGED <<at, fits_size, blob, raw, params, loop, pixels, image>>

(* bayer_to_pix_format() *)
MosaicOf == [BGGR |-> "BGGR", BGRG |-> "BGGR", GBRG |-> "GBRG", GBGR |-> "GBRG",
             GRBG |-> "GRBG", GRGB |-> "GRBG", RGGB |-> "RGGB", RGBG |-> "RGGB"]

Supported(hd) == hd.bitpix \in {8, 16} /\ hd.naxis \in {2, 3}

LayoutOf(hd) ==
    IF hd.naxis = 3 THEN "planar"
    ELSE IF hd.bayerpat \in DOMAIN MosaicOf THEN MosaicOf[hd.bayerpat] ELSE "Y"

(* Lengths around what the header calls for, of a block and of the header  *)
(* at least.                                                               *)
FileSizes(hd, lines) ==
    LET needed == BufferSize(hd) + DataOffset(lines)
    IN {n \in (needed - 1)..(needed + 1) : n >= BlockSize /\ n >= lines * CardSize}

TakeFits ==
    /\ at = "header" /\ header.state = "REST"
    /\ HeaderFits(header) /\ Supported(header)
    /\ fits_size' \in FileSizes(header, Len(cards) + 1)
    /\ HoldsData(header, Len(cards) + 1, fits_size')
    /\ at' = "create"
    /\ cards' = Append(cards, End)
    /\ blob' = [layout |-> LayoutOf(header),
                width |-> header.naxisn[1], height |-> header.naxisn[2]]
    /\ UNCHANGED <<header, raw, params, loop, pixels, image>>

(* A line out of place, a header or a size that does not fit, a format     *)
(* that is not supported, or memory that cannot be had.                    *)
RefuseFits ==
    /\ at = "header" /\ at' = "failed"
    /\ \/ header.state = "REST"
       \/ \E card \in Card : ~Accepts(header, card)
    /\ Forget
    /\ UNCHANGED <<blob, raw, params, loop, pixels, image>>

---------------------------------------------------------------------------
(* create_preview(). *)

(* Sides out of range, and memory that cannot be had, give no preview. *)
Refuse ==
    /\ at = "create" /\ at' = "failed"
    /\ Forget
    /\ UNCHANGED <<blob, raw, params, loop, pixels, image>>

Accepted == at = "create" /\ w \in 1..MaxSide /\ h \in 1..MaxSide

(* Pixel by pixel, one sample of each plane. *)
Planes == [k \in Samples |-> {k \div 3 + (k % 3) * Size}]

CopyRaw ==
    /\ Accepted /\ blob.layout \notin Mosaics
    /\ raw' = IF blob.layout = "planar" THEN Planes ELSE [k \in Samples |-> {k}]
    /\ Stretch
    /\ Forget
    /\ UNCHANGED <<blob, image>>

StartDebayer ==
    /\ Accepted /\ blob.layout \in Mosaics
    /\ raw' = [k \in Samples |-> {}]
    /\ at' = "debayer" /\ \E t \in DebayerThreads : Launch(t)
    /\ Forget
    /\ UNCHANGED <<blob, params, pixels, image>>

(* One row of a thread. *)
Work(rank) ==
    /\ at \in {"debayer", "stretch"}
    /\ next[rank] < EndRow(rank, ranks)
    /\ IF at = "debayer" THEN DebayerRow(next[rank]) /\ UNCHANGED pixels
                         ELSE StretchRow(next[rank]) /\ UNCHANGED raw
    /\ next' = [next EXCEPT ![rank] = @ + 1]
    /\ wrote' = [wrote EXCEPT ![rank] = @ \cup {next[rank]}]
    /\ UNCHANGED <<at, fits, blob, params, ranks, collected, image>>

(* get() or join() of one thread after the other. *)
Collect ==
    /\ at \in {"debayer", "stretch"} /\ collected < ranks
    /\ next[collected] >= EndRow(collected, ranks)
    /\ collected' = collected + 1
    /\ UNCHANGED <<at, fits, blob, raw, params, ranks, next, wrote, pixels, image>>

Debayered ==
    /\ at = "debayer" /\ collected = ranks
    /\ Stretch
    /\ UNCHANGED <<fits, blob, raw, image>>

(* The image is the copy of the rows. *)
Stretched ==
    /\ at = "stretch" /\ collected = ranks
    /\ image' = pixels /\ at' = "shown"
    /\ UNCHANGED <<fits, blob, raw, params, loop, pixels>>

(* The next BLOB may come. *)
Return ==
    /\ at \in {"shown", "failed"} /\ at' = "idle"
    /\ blob' = NoBlob
    /\ raw' = Nothing /\ params' = Nothing /\ pixels' = Nothing /\ image' = Nothing
    /\ ranks' = 0 /\ next' = Nothing /\ wrote' = Nothing /\ collected' = 0
    /\ UNCHANGED fits

Next ==
    \/ CreateRawPreview \/ CreateFitsPreview
    \/ \E card \in Card : ReadLine(card)
    \/ TakeFits \/ RefuseFits \/ Refuse \/ CopyRaw \/ StartDebayer
    \/ \E rank \in 0..(ranks - 1) : Work(rank)
    \/ Collect \/ Debayered \/ Stretched \/ Return

Spec == Init /\ [][Next]_vars

---------------------------------------------------------------------------
(* Properties. *)

(* Every variable keeps its type, and the statistics stay inside the raw   *)
(* data, in their own channel.                                             *)
TypeOK ==
    /\ blob \in Blob \cup {NoBlob}
    /\ cards \in Seq(Card) /\ fits_size \in Nat
    /\ at \in {"idle", "header", "create", "debayer", "stretch", "shown", "failed"}
    /\ ranks \in Nat /\ collected \in 0..ranks
    /\ next \in [0..(ranks - 1) -> Nat]
    /\ wrote \in [0..(ranks - 1) -> SUBSET (0..(h - 1))]
    /\ \A c \in DOMAIN params : \A k \in params[c] : k \in Samples /\ k % Depth = c

(* Threads never write the same row, and when the GUI thread has collected *)
(* them all every row was written, however rows and cores divide.          *)
RowsShared ==
    /\ \A p, q \in 0..(ranks - 1) : p # q => wrote[p] \cap wrote[q] = {}
    /\ at \in {"debayer", "stretch"} /\ collected = ranks
       => 0..(h - 1) \subseteq UNION {wrote[rank] : rank \in 0..(ranks - 1)}

(* What a standard header has at each line. *)
Standard(lines, i) ==
    LET key == lines[i][1]  value == lines[i][2] IN
    CASE i = 1 -> key = "SIMPLE" /\ value \in {"T", "F"}
      [] i = 2 -> key = "BITPIX" /\ value \in {8, 16, 32, -32, 64, -64}
      [] i = 3 -> key = "NAXIS" /\ value \in Naxes
      [] i > 3 /\ i <= 3 + lines[3][2] -> key = AxisName[i - 3] /\ value # Unreadable
      [] OTHER -> TRUE

(* The value of the last line with this keyword, or none. *)
Found(lines, key) == {i \in DOMAIN lines : lines[i][1] = key}
Latest(S) == CHOOSE i \in S : \A j \in S : j <= i
Last(lines, key) ==
    IF Found(lines, key) = {} THEN "" ELSE lines[Latest(Found(lines, key))][2]

(* The fewest blocks that hold so many lines. *)
Holds(blocks, lines) ==
    (blocks - 1) * CardsPerBlock < lines /\ lines <= blocks * CardsPerBlock

(* The file of these lines is shown as blob. *)
ShownAs(lines) ==
    LET axes    == lines[3][2]
        planes  == IF axes = 3 THEN lines[6][2] ELSE 1
        pattern == Last(lines, "BAYERPAT")
    IN /\ \A i \in DOMAIN lines : Standard(lines, i)
       /\ lines[Len(lines)] = End /\ axes \in {2, 3}
       /\ w = lines[4][2] /\ h = lines[5][2]
       /\ blob.layout = IF axes = 3 THEN "planar"
                        ELSE IF pattern \in DOMAIN MosaicOf THEN MosaicOf[pattern] ELSE "Y"
       /\ (\E i \in DOMAIN lines : lines[i] = Rgb) => axes = 3 /\ planes \in {3, 4}
       /\ \E blocks \in 1..Len(lines) :
            /\ Holds(blocks, Len(lines))
            /\ blocks * BlockSize + w * h * planes * (lines[2][2] \div 8) <= fits_size

(* The reader goes on exactly while every line is what the standard has    *)
(* there.  What it takes is shown with the sides that the axes give and    *)
(* the mosaic of the last BAYERPAT or the planes of a third axis, and all  *)
(* of the data lie in the file, from the first block after the header.     *)
FitsAsWritten ==
    /\ at = "header" => \A card \in Card :
         LET lines == Append(cards, card)
         IN Accepts(header, card) <=> Standard(lines, Len(lines))
    /\ at = "create" /\ cards # <<>> => ShownAs(cards)

(* The colour a mosaic has at (row, col), first row first. *)
ColourAt(row, col) ==
    LET rows == [RGGB |-> <<0, 1, 1, 2>>, BGGR |-> <<2, 1, 1, 0>>,
                 GRBG |-> <<1, 0, 2, 1>>, GBRG |-> <<1, 2, 0, 1>>]
    IN rows[blob.layout][2 * (row % 2) + (col % 2) + 1]

(* The samples of a colour at (row, col) itself or, of another colour, in  *)
(* the eight around it.                                                    *)
Nearest(row, col, c) ==
    IF ColourAt(row, col) = c THEN {row * w + col}
    ELSE {r * w + k : r \in (row - 1)..(row + 1), k \in (col - 1)..(col + 1)}
         \cap {i \in 0..(Size - 1) : ColourAt(i \div w, i % w) = c
                 /\ (i \div w) \in (row - 1)..(row + 1) /\ (i % w) \in (col - 1)..(col + 1)}

(* A corner in the last column is left out, where the code reads beyond    *)
(* the border, and so are images with a single row or column.              *)
Regular(row, col) ==
    w > 1 /\ h > 1 /\ (col = w - 1 => row \in 1..(h - 2))

(* A finished preview has every pixel, and each colour of it comes from    *)
(* the samples of that colour nearest to it: the code's cases for the four *)
(* patterns and the borders agree with the mosaic, planes are not mixed,   *)
(* and no row was copied before it was written.  On the left border one of *)
(* two neighbours is enough.                                               *)
PreviewShowsBlob ==
    at = "shown" =>
      /\ DOMAIN image = 0..(Size - 1)
      /\ \A i \in DOMAIN image, c \in 0..2 :
           LET row == i \div w  col == i % w IN
           CASE blob.layout = "Y"      -> image[i][c] = {i}
             [] blob.layout = "RGB"    -> image[i][c] = {3 * i + c}
             [] blob.layout = "planar" -> image[i][c] = {i + c * Size}
             [] OTHER -> Regular(row, col) =>
                  /\ image[i][c] # {} /\ image[i][c] \subseteq Nearest(row, col, c)
                  /\ col # 0 => image[i][c] = Nearest(row, col, c)

=============================================================================
