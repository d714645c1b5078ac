------------------------- MODULE PreviewImageProofs -------------------------
(* Theorems about PreviewImage, for files and images of any size, any      *)
(* number of cores and any thresholds.                                     *)
EXTENDS PreviewImage, TLAPS

---------------------------------------------------------------------------
(* Reading a FITS header. *)

States == {"SIMPLE", "BITPIX", "NAXIS", "NAXIS_N", "REST"}
Header == [state : States, bitpix : Int, naxis : 0..3, naxisn : Seq(Nat),
           rgb : BOOLEAN, bayerpat : Patterns \cup {""}]

(* How far the parser is in these lines. *)
Progress(lines, hd) ==
    /\ hd.state = "SIMPLE"  => Len(lines) = 0
    /\ hd.state = "BITPIX"  => Len(lines) = 1
    /\ hd.state = "NAXIS"   => Len(lines) = 2
    /\ hd.state \in {"NAXIS_N", "REST"} => Len(lines) >= 3
    /\ hd.state = "NAXIS_N" => Len(lines) = 3 + Len(hd.naxisn) /\ Len(hd.naxisn) < hd.naxis
    /\ hd.state = "REST"    => Len(lines) >= 3 + hd.naxis /\ Len(hd.naxisn) = hd.naxis
    /\ hd.state \in {"SIMPLE", "BITPIX", "NAXIS"} => Len(hd.naxisn) = 0

(* What it has taken from them. *)
Taken(lines, hd) ==
    /\ Len(lines) >= 2 => lines[2][2] = hd.bitpix
    /\ Len(lines) >= 3 => lines[3][2] = hd.naxis
    /\ \A n \in 1..Len(hd.naxisn) :
         lines[3 + n][2] = hd.naxisn[n] /\ hd.naxisn[n] \in AxisSizes(n)
    /\ hd.rgb <=> \E i \in DOMAIN lines : lines[i] = Rgb

(* The mosaic is that of the last BAYERPAT, and there is a last one. *)
TakenPattern(lines, hd) ==
    \/ Found(lines, "BAYERPAT") = {} /\ hd.bayerpat = ""
    \/ \E m \in Found(lines, "BAYERPAT") :
         /\ \A j \in Found(lines, "BAYERPAT") : j <= m
         /\ hd.bayerpat = lines[m][2]

AllStandard(lines) == \A i \in DOMAIN lines : Standard(lines, i)

Reads(lines, hd) ==
    /\ lines \in Seq(Card) /\ hd \in Header
    /\ Progress(lines, hd) /\ Taken(lines, hd) /\ TakenPattern(lines, hd)
    /\ AllStandard(lines)

(* The values that go with a keyword.                                      *)
LEMMA CardValues ==
    ASSUME NEW card \in Card
    PROVE  /\ card[1] = "BITPIX" => card[2] \in Bitpixes \cup {Unreadable}
           /\ card[1] = "NAXIS" => card[2] \in Naxes \cup {Unreadable}
           /\ \A n \in 1..3 : card[1] = AxisName[n] => card[2] \in AxisSizes(n) \cup {Unreadable}
           /\ card[1] = "BAYERPAT" => card[2] \in Patterns
           /\ card[1] = "CTYPE3" => card = Rgb
<1>1. AxisName[1] = "NAXIS1" /\ AxisName[2] = "NAXIS2" /\ AxisName[3] = "NAXIS3"
  BY DEF AxisName
<1>2. CASE card \in AxisCard
  <2>1. PICK m \in 1..3 : card \in {AxisName[m]} \X (AxisSizes(m) \cup {Unreadable})
    BY <1>2 DEF AxisCard
  <2>2. card[1] = AxisName[m] /\ card[2] \in AxisSizes(m) \cup {Unreadable}
    BY <2>1
  <2>3. m = 1 \/ m = 2 \/ m = 3
    OBVIOUS
  <2>4. card[1] \in {"NAXIS1", "NAXIS2", "NAXIS3"}
    BY <1>1, <2>2, <2>3
  <2>5. \A n \in 1..3 : AxisName[n] = AxisName[m] => n = m
    BY <1>1, <2>3
  <2>6. QED BY <2>2, <2>4, <2>5
<1>3. CASE card \in {"SIMPLE"} \X {"T", "F", "X"}
  BY <1>1, <1>3
<1>4. CASE card \in {"BITPIX"} \X (Bitpixes \cup {Unreadable})
  BY <1>1, <1>4
<1>5. CASE card \in {"NAXIS"} \X (Naxes \cup {Unreadable})
  BY <1>1, <1>5
<1>6. CASE card \in {"BAYERPAT"} \X Patterns
  BY <1>1, <1>6
<1>7. CASE card = Rgb
  <2>1. card[1] = "CTYPE3"
    BY <1>7 DEF Rgb
  <2>2. QED BY <1>1, <1>7, <2>1
<1>8. CASE card = <<"COMMENT", "">> \/ card = End
  <2>1. card[1] = "COMMENT" \/ card[1] = "END"
    <3>1. CASE card = <<"COMMENT", "">>
      BY <3>1
    <3>2. CASE card = End
      BY <3>2 DEF End
    <3>3. QED BY <1>8, <3>1, <3>2
  <2>2. QED BY <1>1, <2>1
<1>9. CASE card \in RestCard
  BY <1>6, <1>7, <1>8, <1>9 DEF RestCard
<1>10. QED BY <1>2, <1>3, <1>4, <1>5, <1>9 DEF Card

(* A line is accepted exactly if the standard has it there.                *)
LEMMA AcceptsStandard ==
    ASSUME NEW lines, NEW hd, Reads(lines, hd), NEW card \in Card
    PROVE  Accepts(hd, card) <=> Standard(Append(lines, card), Len(lines) + 1)
<1> DEFINE more == Append(lines, card)
           last == Len(lines) + 1
<1>1. /\ lines \in Seq(Card) /\ Len(lines) \in Nat
      /\ more[last] = card
      /\ \A i \in 1..Len(lines) : more[i] = lines[i]
  BY DEF Reads
<1>2. hd \in Header /\ Progress(lines, hd) /\ Taken(lines, hd)
  BY DEF Reads
<1>3. hd.state \in States /\ Len(hd.naxisn) \in Nat /\ hd.naxis \in 0..3
  <2>1. hd.state \in States /\ hd.naxisn \in Seq(Nat) /\ hd.naxis \in 0..3
    BY <1>2 DEF Header
  <2>2. QED BY <2>1
<1> HIDE DEF more
<1>4. Len(lines) >= 3 => more[3][2] = hd.naxis
  BY <1>1, <1>2 DEF Taken
<1>5. CASE hd.state = "SIMPLE"
  BY <1>1, <1>2, <1>5 DEF Progress, Accepts, Standard, Key, Value
<1>6. CASE hd.state = "BITPIX"
  <2>1. last = 2
    <3>1. Len(lines) = 1
      BY <1>2, <1>6 DEF Progress
    <3>2. QED BY <3>1
  <2>2. Accepts(hd, card) <=> card[1] = "BITPIX" /\ card[2] \in {8, 16, 32, -32, 64, -64}
    BY <1>6 DEF Accepts, Key, Value
  <2>3. Standard(more, last) <=> card[1] = "BITPIX" /\ card[2] \in {8, 16, 32, -32, 64, -64}
    BY <1>1, <2>1 DEF Standard
  <2>4. QED BY <2>2, <2>3 DEF more
<1>7. CASE hd.state = "NAXIS"
  <2>1. last = 3
    <3>1. Len(lines) = 2
      BY <1>2, <1>7 DEF Progress
    <3>2. QED BY <3>1
  <2>2. Key(card) = "NAXIS" => (Value(card) # Unreadable <=> Value(card) \in Naxes)
    <3>1. Unreadable \notin Naxes
      <4>1. \A x \in 0..3 : x \in Int
        OBVIOUS
      <4>2. QED BY <4>1, FitsAssumption, Zenon
    <3>2. card[1] = "NAXIS" => card[2] \in Naxes \cup {Unreadable}
      BY CardValues
    <3>3. QED BY <3>1, <3>2 DEF Key, Value
  <2>3. Accepts(hd, card) <=> Key(card) = "NAXIS" /\ Value(card) # Unreadable
    BY <1>7 DEF Accepts
  <2>4. Standard(more, last) <=> card[1] = "NAXIS" /\ card[2] \in Naxes
    BY <1>1, <2>1 DEF Standard
  <2>5. QED BY <2>2, <2>3, <2>4 DEF Key, Value, more
<1>8. CASE hd.state = "NAXIS_N"
  <2>1. last = 3 + Len(hd.naxisn) + 1 /\ last > 3 /\ last <= 3 + hd.naxis
    BY <1>2, <1>3, <1>8 DEF Progress
  <2>2. last - 3 = Len(hd.naxisn) + 1 /\ more[3][2] = hd.naxis
    BY <1>2, <1>3, <1>4, <1>8, <2>1 DEF Progress
  <2>3. Accepts(hd, card) <=> card[1] = AxisName[last - 3] /\ card[2] # Unreadable
    BY <1>8, <2>2 DEF Accepts, Key, Value
  <2>4. Standard(more, last) <=> card[1] = AxisName[last - 3] /\ card[2] # Unreadable
    BY <1>1, <1>3, <2>1, <2>2 DEF Standard
  <2>5. QED BY <2>3, <2>4 DEF more
<1>9. CASE hd.state = "REST"
  <2>1. last > 3 + hd.naxis /\ more[3][2] = hd.naxis
    BY <1>1, <1>2, <1>3, <1>4, <1>9 DEF Progress
  <2>2. Standard(more, last)
    BY <1>1, <1>3, <2>1 DEF Standard
  <2>3. QED BY <1>9, <2>2 DEF Accepts, more
<1>10. QED BY <1>3, <1>5, <1>6, <1>7, <1>8, <1>9 DEF States

(* The fields of the header after a line, one case per place.              *)
LEMMA ParseFields ==
    ASSUME NEW hd \in Header, NEW card \in Card, Accepts(hd, card),
           hd.state = "NAXIS_N" => Len(hd.naxisn) < hd.naxis
    PROVE  LET nx == ParseLine(hd, card) IN
           /\ nx \in Header
           /\ nx.rgb <=> hd.rgb \/ card = Rgb
           /\ nx.bayerpat = IF card[1] = "BAYERPAT" THEN card[2] ELSE hd.bayerpat
           /\ hd.state = "SIMPLE" => nx.state = "BITPIX" /\ nx.naxisn = hd.naxisn
           /\ hd.state = "BITPIX" =>
                nx.state = "NAXIS" /\ nx.naxisn = hd.naxisn /\ nx.bitpix = card[2]
           /\ hd.state = "NAXIS" =>
                /\ nx.state = IF card[2] = 0 THEN "REST" ELSE "NAXIS_N"
                /\ nx.naxisn = hd.naxisn /\ nx.bitpix = hd.bitpix
                /\ nx.naxis = card[2] /\ card[2] \in 0..3
           /\ hd.state = "NAXIS_N" =>
                /\ nx.state = IF Len(hd.naxisn) + 1 = hd.naxis THEN "REST" ELSE "NAXIS_N"
                /\ nx.naxisn = Append(hd.naxisn, card[2])
                /\ card[2] \in AxisSizes(Len(hd.naxisn) + 1)
                /\ nx.bitpix = hd.bitpix /\ nx.naxis = hd.naxis
           /\ hd.state = "REST" =>
                /\ nx.state = "REST" /\ nx.naxisn = hd.naxisn
                /\ nx.bitpix = hd.bitpix /\ nx.naxis = hd.naxis
<1> DEFINE nx == ParseLine(hd, card)
<1>0. Key(card) = card[1] /\ Value(card) = card[2]
  BY DEF Key, Value
<1>a. hd.state \in States
  BY DEF Header
<1>b. "BITPIX" \in States /\ "NAXIS" \in States /\ "NAXIS_N" \in States /\ "REST" \in States
  BY DEF States
<1>r. card[1] # "CTYPE3" => card # Rgb
  BY DEF Rgb
<1>1. CASE hd.state = "SIMPLE"
  <2>1. nx = [hd EXCEPT !.state = "BITPIX"]
    BY <1>1 DEF ParseLine
  <2>2. card[1] = "SIMPLE"
    BY <1>0, <1>1 DEF Accepts
  <2> HIDE DEF nx
  <2>3. QED BY <1>b, <1>r, <1>1, <2>1, <2>2 DEF Header, nx
<1>2. CASE hd.state = "BITPIX"
  <2>1. nx = [hd EXCEPT !.state = "NAXIS", !.bitpix = card[2]]
    BY <1>0, <1>2 DEF ParseLine
  <2>2. card[1] = "BITPIX" /\ card[2] \in Int
    BY <1>0, <1>2 DEF Accepts
  <2> HIDE DEF nx
  <2>3. QED BY <1>b, <1>r, <1>2, <2>1, <2>2 DEF Header, nx
<1>3. CASE hd.state = "NAXIS"
  <2> DEFINE st == IF card[2] = 0 THEN "REST" ELSE "NAXIS_N"
  <2>1. nx = [hd EXCEPT !.state = st, !.naxis = card[2]]
    BY <1>0, <1>3 DEF ParseLine
  <2>2. card[1] = "NAXIS" /\ card[2] # Unreadable
    BY <1>0, <1>3 DEF Accepts
  <2>3. card[2] \in 0..3
    <3>1. card[2] \in Naxes
      BY <2>2, CardValues
    <3>2. QED BY <3>1, FitsAssumption
  <2>4. st \in States
    BY <1>b
  <2> HIDE DEF nx, st
  <2>5. nx \in Header /\ nx.state = st /\ nx.naxis = card[2] /\ nx.naxisn = hd.naxisn
        /\ nx.bitpix = hd.bitpix /\ nx.rgb = hd.rgb /\ nx.bayerpat = hd.bayerpat
    BY <2>1, <2>3, <2>4 DEF Header
  <2>6. QED BY <1>r, <1>3, <2>2, <2>3, <2>5 DEF nx, st
<1>4. CASE hd.state = "NAXIS_N"
  <2> DEFINE st   == IF Len(hd.naxisn) + 1 = hd.naxis THEN "REST" ELSE "NAXIS_N"
             axes == Append(hd.naxisn, card[2])
  <2>1. nx = [hd EXCEPT !.state = st, !.naxisn = axes]
    BY <1>0, <1>4 DEF ParseLine
  <2>2. card[1] = AxisName[Len(hd.naxisn) + 1] /\ card[2] # Unreadable
    BY <1>0, <1>4 DEF Accepts
  <2>3. hd.naxisn \in Seq(Nat)
    BY DEF Header
  <2>4. st \in States
    BY <1>b
  <2>5. Len(hd.naxisn) + 1 \in 1..3
    <3>1. hd.naxis \in 0..3
      BY DEF Header
    <3>2. Len(hd.naxisn) \in Nat
      BY <2>3
    <3>3. QED BY <1>4, <3>1, <3>2
  <2>6. card[2] \in AxisSizes(Len(hd.naxisn) + 1)
    BY <2>2, <2>5, CardValues
  <2>7. card[2] \in Nat
    BY <2>6, FitsAssumption DEF AxisSizes
  <2>8. axes \in Seq(Nat)
    BY <2>3, <2>7
  <2>9. card[1] # "CTYPE3" /\ card[1] # "BAYERPAT"
    BY <2>2, <2>5 DEF AxisName
  <2> HIDE DEF nx, st, axes
  <2>10. nx \in Header /\ nx.state = st /\ nx.naxis = hd.naxis /\ nx.naxisn = axes
         /\ nx.bitpix = hd.bitpix /\ nx.rgb = hd.rgb /\ nx.bayerpat = hd.bayerpat
    BY <2>1, <2>4, <2>8 DEF Header
  <2>11. QED BY <1>r, <1>4, <2>6, <2>9, <2>10 DEF nx, st, axes
<1>5. CASE hd.state = "REST"
  <2> DEFINE colour  == hd.rgb \/ card = Rgb
             pattern == IF card[1] = "BAYERPAT" THEN card[2] ELSE hd.bayerpat
  <2>1. nx = [hd EXCEPT !.rgb = colour, !.bayerpat = pattern]
    BY <1>0, <1>5 DEF ParseLine
  <2>2. hd.rgb \in BOOLEAN /\ hd.bayerpat \in Patterns \cup {""}
    BY DEF Header
  <2>3. colour \in BOOLEAN /\ pattern \in Patterns \cup {""}
    BY <2>2, CardValues
  <2> HIDE DEF nx, colour, pattern
  <2>4. nx \in Header /\ nx.state = hd.state /\ nx.naxis = hd.naxis
        /\ nx.naxisn = hd.naxisn /\ nx.bitpix = hd.bitpix
        /\ nx.rgb = colour /\ nx.bayerpat = pattern
    BY <2>1, <2>3 DEF Header
  <2>5. QED BY <1>5, <2>4 DEF nx, colour, pattern
<1>6. QED BY <1>a, <1>1, <1>2, <1>3, <1>4, <1>5 DEF States

(* Every line that is accepted leaves the parser where it should be.       *)
LEMMA ParseReads ==
    ASSUME NEW lines, NEW hd, Reads(lines, hd), NEW card \in Card, Accepts(hd, card)
    PROVE  Reads(Append(lines, card), ParseLine(hd, card))
<1> DEFINE more == Append(lines, card)
           last == Len(lines) + 1
           nx   == ParseLine(hd, card)
<1>1. /\ lines \in Seq(Card) /\ Len(lines) \in Nat
      /\ more \in Seq(Card) /\ Len(more) = last /\ DOMAIN more = 1..last
      /\ DOMAIN lines = 1..Len(lines)
      /\ more[last] = card
      /\ \A i \in 1..Len(lines) : more[i] = lines[i]
  BY DEF Reads
<1>2. hd \in Header /\ Progress(lines, hd) /\ Taken(lines, hd) /\ TakenPattern(lines, hd)
  BY DEF Reads
<1>3. hd.state \in States /\ Len(hd.naxisn) \in Nat /\ hd.naxis \in 0..3
      /\ hd.naxisn \in Seq(Nat)
  <2>1. hd.state \in States /\ hd.naxisn \in Seq(Nat) /\ hd.naxis \in 0..3
    BY <1>2 DEF Header
  <2>2. QED BY <2>1
<1>4. hd.state = "NAXIS_N" => Len(hd.naxisn) < hd.naxis
  BY <1>2 DEF Progress
<1>5. Standard(more, last)
  BY AcceptsStandard
<1>6. nx \in Header
  BY <1>2, <1>4, ParseFields
<1> HIDE DEF more, nx
<1>7. AllStandard(more)
  <2>1. ASSUME NEW i \in 1..Len(lines) PROVE Standard(more, i)
    <3>1. Standard(lines, i) /\ more[i] = lines[i]
      BY <1>1 DEF Reads, AllStandard
    <3>2. i > 3 => more[3] = lines[3]
      BY <1>1
    <3>3. QED BY <3>1, <3>2 DEF Standard
  <2>2. QED BY <1>1, <1>5, <2>1 DEF AllStandard
<1>8. TakenPattern(more, nx)
  <2>1. nx.bayerpat = IF card[1] = "BAYERPAT" THEN card[2] ELSE hd.bayerpat
    BY <1>2, <1>4, ParseFields DEF nx
  <2>2. CASE card[1] = "BAYERPAT"
    <3>1. last \in Found(more, "BAYERPAT") /\ \A j \in Found(more, "BAYERPAT") : j <= last
      BY <1>1, <2>2 DEF Found
    <3>2. nx.bayerpat = more[last][2]
      BY <1>1, <2>1, <2>2
    <3>3. QED BY <3>1, <3>2 DEF TakenPattern
  <2>3. CASE card[1] # "BAYERPAT"
    <3>1. Found(more, "BAYERPAT") = Found(lines, "BAYERPAT")
      BY <1>1, <2>3 DEF Found
    <3>2. \A m \in Found(lines, "BAYERPAT") : more[m] = lines[m]
      BY <1>1 DEF Found
    <3>3. QED BY <1>2, <2>1, <2>3, <3>1, <3>2 DEF TakenPattern
  <2>4. QED BY <2>2, <2>3
<1>9. nx.rgb <=> \E i \in DOMAIN more : more[i] = Rgb
  <2>1. nx.rgb <=> hd.rgb \/ card = Rgb
    BY <1>2, <1>4, ParseFields DEF nx
  <2>2. hd.rgb <=> \E i \in DOMAIN lines : lines[i] = Rgb
    BY <1>2 DEF Taken
  <2>3. QED BY <1>1, <2>1, <2>2
<1>10. /\ hd.state = "SIMPLE" => nx.state = "BITPIX" /\ nx.naxisn = hd.naxisn
       /\ hd.state = "BITPIX" =>
            nx.state = "NAXIS" /\ nx.naxisn = hd.naxisn /\ nx.bitpix = card[2]
       /\ hd.state = "NAXIS" =>
            /\ nx.state = IF card[2] = 0 THEN "REST" ELSE "NAXIS_N"
            /\ nx.naxisn = hd.naxisn /\ nx.bitpix = hd.bitpix
            /\ nx.naxis = card[2] /\ card[2] \in 0..3
       /\ hd.state = "NAXIS_N" =>
            /\ nx.state = IF Len(hd.naxisn) + 1 = hd.naxis THEN "REST" ELSE "NAXIS_N"
            /\ nx.naxisn = Append(hd.naxisn, card[2])
            /\ card[2] \in AxisSizes(Len(hd.naxisn) + 1)
            /\ nx.bitpix = hd.bitpix /\ nx.naxis = hd.naxis
       /\ hd.state = "REST" =>
            /\ nx.state = "REST" /\ nx.naxisn = hd.naxisn
            /\ nx.bitpix = hd.bitpix /\ nx.naxis = hd.naxis
  BY <1>2, <1>4, ParseFields DEF nx
<1>11. Progress(more, nx) /\ Taken(more, nx)
  <2>1. CASE hd.state = "SIMPLE"
    <3>1. Len(lines) = 0 /\ last = 1 /\ Len(nx.naxisn) = 0 /\ nx.state = "BITPIX"
      BY <1>1, <1>2, <1>10, <2>1 DEF Progress
    <3>2. QED BY <1>1, <1>9, <3>1 DEF Progress, Taken
  <2>2. CASE hd.state = "BITPIX"
    <3>0. Len(lines) = 1 /\ Len(hd.naxisn) = 0
      BY <1>2, <2>2 DEF Progress
    <3>1. last = 2 /\ Len(nx.naxisn) = 0 /\ nx.state = "NAXIS"
      BY <1>10, <2>2, <3>0
    <3>2. more[2][2] = nx.bitpix
      BY <1>1, <1>10, <2>2, <3>1
    <3>3. QED BY <1>1, <1>9, <3>1, <3>2 DEF Progress, Taken
  <2>3. CASE hd.state = "NAXIS"
    <3>0. Len(lines) = 2 /\ Len(hd.naxisn) = 0
      BY <1>2, <2>3 DEF Progress
    <3>1. Len(lines) = 2 /\ last = 3 /\ Len(nx.naxisn) = 0
      BY <1>10, <2>3, <3>0
    <3>2. more[2][2] = nx.bitpix /\ more[3][2] = nx.naxis /\ nx.naxis \in 0..3
      BY <1>1, <1>2, <1>10, <2>3, <3>1 DEF Taken
    <3>3. nx.state = IF nx.naxis = 0 THEN "REST" ELSE "NAXIS_N"
      BY <1>10, <2>3
    <3>4. QED BY <1>1, <1>9, <3>1, <3>2, <3>3 DEF Progress, Taken
  <2>4. CASE hd.state = "NAXIS_N"
    <3> DEFINE k == Len(hd.naxisn) + 1
    <3>0. Len(lines) = 3 + Len(hd.naxisn)
      BY <1>2, <2>4 DEF Progress
    <3>1. Len(lines) >= 3 /\ last = 3 + k /\ k <= hd.naxis /\ k \in Nat
      BY <1>3, <1>4, <2>4, <3>0
    <3>2. nx.naxisn = Append(hd.naxisn, card[2]) /\ nx.naxis = hd.naxis
          /\ nx.bitpix = hd.bitpix /\ card[2] \in AxisSizes(k)
          /\ nx.state = IF k = hd.naxis THEN "REST" ELSE "NAXIS_N"
      BY <1>10, <2>4
    <3>3. Len(nx.naxisn) = k /\ nx.naxisn[k] = card[2]
          /\ \A n \in 1..(k - 1) : nx.naxisn[n] = hd.naxisn[n]
      BY <1>3, <3>2
    <3> HIDE DEF k
    <3>4. more[2][2] = nx.bitpix /\ more[3][2] = nx.naxis
      BY <1>1, <1>2, <3>1, <3>2 DEF Taken
    <3>5. Progress(more, nx)
      BY <1>1, <1>3, <3>1, <3>2, <3>3 DEF Progress
    <3>6. ASSUME NEW n \in 1..k
          PROVE  more[3 + n][2] = nx.naxisn[n] /\ nx.naxisn[n] \in AxisSizes(n)
      <4>1. CASE n = k
        BY <1>1, <3>1, <3>2, <3>3, <4>1
      <4>2. CASE n # k
        <5>1. n \in 1..(k - 1) /\ n \in 1..Len(hd.naxisn) /\ 3 + n \in 1..Len(lines)
          BY <1>1, <1>3, <3>1, <4>2 DEF k
        <5>2. lines[3 + n][2] = hd.naxisn[n] /\ hd.naxisn[n] \in AxisSizes(n)
          BY <1>2, <5>1 DEF Taken
        <5>3. QED BY <1>1, <3>3, <5>1, <5>2
      <4>3. QED BY <4>1, <4>2
    <3>7. QED BY <1>1, <1>9, <3>1, <3>3, <3>4, <3>5, <3>6 DEF Taken
  <2>5. CASE hd.state = "REST"
    <3>1. Len(lines) >= 3 + hd.naxis /\ Len(hd.naxisn) = hd.naxis
      BY <1>2, <2>5 DEF Progress
    <3>2. nx.state = "REST" /\ nx.naxisn = hd.naxisn /\ nx.bitpix = hd.bitpix
          /\ nx.naxis = hd.naxis
      BY <1>10, <2>5
    <3>3. more[2] = lines[2] /\ more[3] = lines[3]
          /\ \A n \in 1..hd.naxis : more[3 + n] = lines[3 + n]
      BY <1>1, <1>3, <3>1
    <3>4. Progress(more, nx)
      BY <1>1, <1>3, <3>1, <3>2 DEF Progress
    <3>5. lines[2][2] = nx.bitpix /\ lines[3][2] = nx.naxis
      BY <1>1, <1>2, <1>3, <3>1, <3>2 DEF Taken
    <3>6. \A n \in 1..hd.naxis :
            more[3 + n][2] = nx.naxisn[n] /\ nx.naxisn[n] \in AxisSizes(n)
      BY <1>2, <3>1, <3>2, <3>3 DEF Taken
    <3>7. QED BY <1>9, <3>1, <3>2, <3>3, <3>4, <3>5, <3>6 DEF Taken
  <2>6. QED BY <1>3, <2>1, <2>2, <2>3, <2>4, <2>5 DEF States
<1>12. QED BY <1>1, <1>6, <1>7, <1>8, <1>11 DEF Reads, more, nx

(* Rounding up gives the fewest blocks that hold the lines.                *)
LEMMA FewestBlocks ==
    ASSUME NEW l \in Nat \ {0}, NEW c \in Nat \ {0}
    PROVE  LET b == (l + c - 1) \div c
           IN  b \in 1..l /\ (b - 1) * c < l /\ l <= b * c
<1> DEFINE b == (l + c - 1) \div c
<1>1. b \in Int /\ b * c <= l + c - 1 /\ l + c - 1 < (b + 1) * c
  OBVIOUS
<1> HIDE DEF b
<1>2. (b + 1) * c = b * c + c /\ (b - 1) * c = b * c - c
  BY <1>1
<1>3. l <= b * c /\ (b - 1) * c < l
  BY <1>1, <1>2
<1>4. b > 0
  BY <1>1, <1>3
<1>5. (b - 1) * c >= b - 1
  BY <1>1, <1>4
<1>6. QED BY <1>1, <1>3, <1>4, <1>5 DEF b

(* The pattern that was taken is that of the last line which has one.      *)
LEMMA LastTaken ==
    ASSUME NEW lines \in Seq(Card), NEW hd, TakenPattern(lines, hd)
    PROVE  Last(lines, "BAYERPAT") = hd.bayerpat
<1>1. CASE Found(lines, "BAYERPAT") = {}
  BY <1>1 DEF TakenPattern, Last
<1>2. CASE Found(lines, "BAYERPAT") # {}
  <2> DEFINE found == Found(lines, "BAYERPAT")
  <2>1. PICK m \in found : (\A j \in found : j <= m) /\ hd.bayerpat = lines[m][2]
    BY <1>2 DEF TakenPattern
  <2>2. \A i \in found : i \in Nat
    BY DEF Found
  <2> HIDE DEF found
  <2>3. Latest(found) \in found /\ \A j \in found : j <= Latest(found)
    BY <2>1 DEF Latest
  <2>4. Latest(found) = m
    BY <2>1, <2>2, <2>3
  <2>5. QED BY <1>2, <2>1, <2>4 DEF Last, found
<1>3. QED BY <1>1, <1>2

FileInv ==
    /\ blob \in Blob \cup {NoBlob} /\ fits_size \in Nat /\ cards \in Seq(Card)
    /\ at \in {"idle", "header", "create", "debayer", "stretch", "shown", "failed"}
    /\ at = "header" => Reads(cards, header)
    /\ at \notin {"header", "create"} => cards = <<>> /\ header = NewHeader
    /\ at = "create" /\ cards # <<>> => ShownAs(cards)

(* Sizes of the data of a file that is taken.                              *)
LEMMA BufferHolds ==
    ASSUME Reads(cards, header), header.state = "REST", Supported(header)
    PROVE  /\ header.naxisn[1] \in Widths /\ header.naxisn[2] \in Heights
           /\ header.naxis = 3 => header.naxisn[3] \in Nat
           /\ BufferSize(header) \in Nat
           /\ BufferSize(header) = header.naxisn[1] * header.naxisn[2]
                * (IF header.naxis = 3 THEN header.naxisn[3] ELSE 1) * (header.bitpix \div 8)
<1>1. header.naxis \in {2, 3} /\ Len(header.naxisn) = header.naxis
      /\ \A n \in 1..Len(header.naxisn) : header.naxisn[n] \in AxisSizes(n)
  BY DEF Supported, Reads, Progress, Taken
<1>2. header.naxisn[1] \in AxisSizes(1) /\ header.naxisn[2] \in AxisSizes(2)
      /\ (header.naxis = 3 => header.naxisn[3] \in AxisSizes(3))
  BY <1>1
<1>3. header.naxisn[1] \in Widths /\ header.naxisn[2] \in Heights
      /\ (header.naxis = 3 => header.naxisn[3] \in PlaneCounts)
  BY <1>2 DEF AxisSizes
<1>4. header.naxisn[1] \in Nat /\ header.naxisn[2] \in Nat
      /\ (header.naxis = 3 => header.naxisn[3] \in Nat)
  BY <1>3, FitsAssumption
<1>5. header.bitpix \div 8 \in Nat
  BY DEF Supported
<1>6. ASSUME NEW a \in Nat, NEW b \in Nat, NEW c \in Nat, NEW d \in Nat
      PROVE  /\ a * b * d \in Nat /\ (a * b * d) * c \in Nat
             /\ (a * b * d) * c = a * b * c * d /\ a * b * 1 * d = a * b * d
  OBVIOUS
<1> DEFINE w1 == header.naxisn[1]
           h1 == header.naxisn[2]
           d1 == header.bitpix \div 8
           p1 == header.naxisn[3]
<1>7. CASE header.naxis = 3
  <2>1. BufferSize(header) = (w1 * h1 * d1) * p1
    BY <1>7 DEF BufferSize
  <2>2. (w1 * h1 * d1) * p1 \in Nat /\ (w1 * h1 * d1) * p1 = w1 * h1 * p1 * d1
    BY <1>4, <1>5, <1>6, <1>7
  <2>3. QED BY <1>3, <1>4, <1>7, <2>1, <2>2
<1>8. CASE header.naxis # 3
  <2>1. BufferSize(header) = w1 * h1 * d1
    BY <1>8 DEF BufferSize
  <2>2. w1 * h1 * d1 \in Nat /\ w1 * h1 * d1 = w1 * h1 * 1 * d1
    BY <1>4, <1>5, <1>6
  <2>3. QED BY <1>3, <1>4, <1>8, <2>1, <2>2
<1>9. QED BY <1>7, <1>8

(* What is taken is shown as its lines say.                                *)
LEMMA TakeShows ==
    ASSUME FileInv, TakeFits
    PROVE  ShownAs(cards)' /\ blob' \in Blob /\ fits_size' \in Nat /\ cards' \in Seq(Card)
<1> DEFINE lines == Append(cards, End)
           nx    == ParseLine(header, End)
           total == Len(cards) + 1
           b     == (total + CardsPerBlock - 1) \div CardsPerBlock
<1>1. /\ header.state = "REST" /\ Supported(header) /\ HeaderFits(header)
      /\ cards' = lines
      /\ fits_size' \in FileSizes(header, total)
      /\ HoldsData(header, total, fits_size')
      /\ blob' = [layout |-> LayoutOf(header), width |-> header.naxisn[1], height |-> header.naxisn[2]]
  BY DEF TakeFits
<1>2. Reads(cards, header) /\ cards \in Seq(Card) /\ header \in Header
  BY DEF FileInv, TakeFits, Reads
<1>3. End \in Card /\ Accepts(header, End)
  BY <1>1 DEF Card, RestCard, Accepts
<1>4. Reads(lines, nx)
  BY <1>2, <1>3, ParseReads
<1>5. nx.naxisn = header.naxisn /\ nx.bitpix = header.bitpix /\ nx.naxis = header.naxis
      /\ (nx.rgb <=> header.rgb) /\ nx.bayerpat = header.bayerpat /\ nx.state = "REST"
  <2>1. End[1] = "END" /\ End # Rgb
    BY DEF End, Rgb
  <2>2. header.state # "NAXIS_N"
    BY <1>1
  <2>3. /\ nx.rgb <=> header.rgb \/ End = Rgb
        /\ nx.bayerpat = IF End[1] = "BAYERPAT" THEN End[2] ELSE header.bayerpat
        /\ nx.state = "REST" /\ nx.naxisn = header.naxisn
        /\ nx.bitpix = header.bitpix /\ nx.naxis = header.naxis
    BY <1>1, <1>2, <1>3, <2>2, ParseFields
  <2> HIDE DEF nx
  <2>4. QED BY <2>1, <2>3
<1> HIDE DEF nx
<1>6. lines \in Seq(Card) /\ Len(lines) = total /\ lines[total] = End /\ total \in Nat \ {0}
  BY <1>2, <1>3
<1> HIDE DEF lines
<1>7. Progress(lines, nx) /\ Taken(lines, nx) /\ TakenPattern(lines, nx) /\ AllStandard(lines)
  BY <1>4 DEF Reads
<1>8. header.naxis \in {2, 3} /\ Len(nx.naxisn) = header.naxis /\ Len(lines) >= 3 + header.naxis
  BY <1>1, <1>5, <1>7 DEF Supported, Progress
<1>9. lines[2][2] = header.bitpix /\ lines[3][2] = header.naxis
      /\ lines[4][2] = header.naxisn[1] /\ lines[5][2] = header.naxisn[2]
      /\ (header.naxis = 3 => lines[6][2] = header.naxisn[3])
  <2>1. \A n \in 1..header.naxis : lines[3 + n][2] = header.naxisn[n]
    BY <1>5, <1>7, <1>8 DEF Taken
  <2>2. lines[3 + 1][2] = header.naxisn[1] /\ lines[3 + 2][2] = header.naxisn[2]
        /\ (header.naxis = 3 => lines[3 + 3][2] = header.naxisn[3])
    BY <1>8, <2>1
  <2>3. Len(lines) >= 2 /\ Len(lines) >= 3
    BY <1>6, <1>8
  <2>4. QED BY <1>5, <1>7, <2>2, <2>3 DEF Taken
<1>10. Last(lines, "BAYERPAT") = header.bayerpat
  BY <1>5, <1>6, <1>7, LastTaken
<1>11. w' = header.naxisn[1] /\ h' = header.naxisn[2] /\ blob'.layout = LayoutOf(header)
  BY <1>1 DEF w, h
<1>12. blob' \in Blob
  <2>1. header.naxisn[1] \in Widths /\ header.naxisn[2] \in Heights
    BY <1>1, <1>2, BufferHolds
  <2>2. LayoutOf(header) \in Layouts
    BY DEF LayoutOf, Layouts, Mosaics, MosaicOf
  <2>3. QED BY <1>1, <2>1, <2>2 DEF Blob
<1>13. b \in 1..total /\ Holds(b, total) /\ DataOffset(total) = b * BlockSize
  <2>1. CardsPerBlock \in Nat \ {0}
    BY FitsAssumption
  <2>2. QED BY <1>6, <2>1, FewestBlocks DEF Holds, DataOffset
<1> HIDE DEF b
<1>14. BlockSize \in Nat \ {0}
  <2>1. ASSUME NEW x \in Nat \ {0}, NEW y \in Nat \ {0} PROVE x * y \in Nat \ {0}
    OBVIOUS
  <2>2. QED BY <2>1, FitsAssumption DEF BlockSize
<1>15. b * BlockSize \in Nat
  BY <1>6, <1>13, <1>14
<1>16. fits_size' \in Nat
  <2>1. BufferSize(header) \in Nat
    BY <1>1, <1>2, BufferHolds
  <2>2. BufferSize(header) + DataOffset(total) \in Int
    BY <1>13, <1>15, <2>1
  <2>3. fits_size' \in Int /\ fits_size' >= BlockSize
    BY <1>1, <2>2 DEF FileSizes
  <2>4. QED BY <1>14, <2>3
<1>17. \E blocks \in 1..Len(lines) :
         /\ Holds(blocks, Len(lines))
         /\ blocks * BlockSize
             + w' * h' * (IF lines[3][2] = 3 THEN lines[6][2] ELSE 1) * (lines[2][2] \div 8)
             <= fits_size'
  <2> DEFINE data == header.naxisn[1] * header.naxisn[2]
                     * (IF header.naxis = 3 THEN header.naxisn[3] ELSE 1) * (header.bitpix \div 8)
  <2>1. BufferSize(header) = data /\ BufferSize(header) \in Nat
    BY <1>1, <1>2, BufferHolds
  <2>2. w' * h' * (IF lines[3][2] = 3 THEN lines[6][2] ELSE 1) * (lines[2][2] \div 8) = data
    BY <1>9, <1>11
  <2> HIDE DEF data
  <2>3. b * BlockSize + data <= fits_size'
    BY <1>1, <1>13, <1>15, <1>16, <2>1 DEF HoldsData
  <2>4. QED BY <1>6, <1>13, <2>2, <2>3
<1>18. (\E i \in DOMAIN lines : lines[i] = Rgb) =>
         lines[3][2] = 3 /\ (IF lines[3][2] = 3 THEN lines[6][2] ELSE 1) \in {3, 4}
  BY <1>1, <1>5, <1>7, <1>9 DEF Taken, HeaderFits
<1>19. blob'.layout = IF lines[3][2] = 3 THEN "planar"
         ELSE IF Last(lines, "BAYERPAT") \in DOMAIN MosaicOf
              THEN MosaicOf[Last(lines, "BAYERPAT")] ELSE "Y"
  BY <1>9, <1>10, <1>11 DEF LayoutOf
<1>20. ShownAs(cards)'
  BY <1>1, <1>6, <1>7, <1>8, <1>9, <1>11, <1>17, <1>18, <1>19 DEF ShownAs, AllStandard, Holds, BlockSize
<1>21. QED BY <1>1, <1>6, <1>12, <1>16, <1>20

LEMMA InitFile == Init => FileInv
<1> SUFFICES ASSUME Init PROVE FileInv
  OBVIOUS
<1>1. cards \in Seq(Card)
  BY DEF Init
<1>2. QED BY <1>1 DEF Init, FileInv

(* A new header is one that nothing has been read for.                     *)
LEMMA NewReads == Reads(<<>>, NewHeader)
<1>1. NewHeader \in Header
  <2>1. "SIMPLE" \in States /\ <<>> \in Seq(Nat) /\ "" \in Patterns \cup {""}
    BY DEF States
  <2>2. 0 \in Int /\ 0 \in 0..3 /\ FALSE \in BOOLEAN
    OBVIOUS
  <2>3. QED BY <2>1, <2>2 DEF Header, NewHeader
<1>2. <<>> \in Seq(Card) /\ Len(<<>>) = 0 /\ DOMAIN <<>> = {}
  OBVIOUS
<1>3. /\ NewHeader.state = "SIMPLE" /\ NewHeader.naxisn = <<>>
      /\ NewHeader.rgb = FALSE /\ NewHeader.bayerpat = ""
  BY DEF NewHeader
<1>4. Progress(<<>>, NewHeader)
  BY <1>2, <1>3 DEF Progress
<1>5. Taken(<<>>, NewHeader)
  <2>1. ~(Len(<<>>) >= 2) /\ ~(Len(<<>>) >= 3) /\ 1..0 = {}
    BY <1>2
  <2>2. 1..Len(NewHeader.naxisn) = {}
    BY <1>2, <1>3, <2>1, Zenon
  <2>3. QED BY <1>2, <1>3, <2>1, <2>2 DEF Taken
<1>6. TakenPattern(<<>>, NewHeader) /\ AllStandard(<<>>)
  BY <1>2, <1>3 DEF TakenPattern, AllStandard, Found
<1>7. QED BY <1>1, <1>2, <1>4, <1>5, <1>6 DEF Reads

(* Only the reader touches the lines; every other step forgets or keeps    *)
(* them.                                                                   *)
LEMMA NextFile == FileInv /\ [Next]_vars => FileInv'
<1> SUFFICES ASSUME FileInv, [Next]_vars PROVE FileInv'
  OBVIOUS
<1>0. <<>> \in Seq(Card) /\ 0 \in Nat
  OBVIOUS
<1>1. CASE UNCHANGED vars
  BY <1>1 DEF vars, fits, FileInv, ShownAs, w, h
<1>2. CASE CreateRawPreview
  <2>1. blob' \in Blob
    BY <1>2 DEF CreateRawPreview, Blob, Layouts
  <2>2. cards' = <<>> /\ at' = "create" /\ fits_size' = fits_size
    BY <1>2 DEF CreateRawPreview, fits, FileInv
  <2>3. QED BY <1>0, <2>1, <2>2 DEF FileInv
<1>3. CASE CreateFitsPreview
  <2>1. cards' = <<>> /\ header' = NewHeader /\ at' = "header" /\ UNCHANGED <<fits_size, blob>>
    BY <1>3 DEF CreateFitsPreview, fits, FileInv
  <2>2. QED BY <1>0, <2>1, NewReads DEF FileInv
<1>4. ASSUME NEW card \in Card, ReadLine(card) PROVE FileInv'
  <2>1. Reads(cards, header) /\ cards \in Seq(Card)
    BY <1>4 DEF ReadLine, FileInv
  <2>2. at' = "header" /\ cards' = Append(cards, card) /\ header' = ParseLine(header, card)
        /\ UNCHANGED <<fits_size, blob>> /\ Accepts(header, card)
    BY <1>4 DEF ReadLine
  <2>3. Reads(cards', header')
    BY <2>1, <2>2, ParseReads
  <2>4. cards' \in Seq(Card)
    BY <2>1, <2>2
  <2>5. QED BY <2>2, <2>3, <2>4 DEF FileInv
<1>5. CASE TakeFits
  <2>1. at' = "create" /\ ShownAs(cards)' /\ blob' \in Blob /\ fits_size' \in Nat
        /\ cards' \in Seq(Card)
    BY <1>5, TakeShows DEF TakeFits
  <2>2. QED BY <2>1 DEF FileInv
<1>6. CASE RefuseFits \/ Refuse \/ CopyRaw \/ StartDebayer
  <2>1. cards' = <<>> /\ header' = NewHeader /\ fits_size' = 0 /\ blob' = blob
        /\ at' \in {"debayer", "stretch", "failed"}
    BY <1>6 DEF RefuseFits, Refuse, CopyRaw, StartDebayer, Stretch, Forget
  <2>2. QED BY <1>0, <2>1 DEF FileInv
<1>7. CASE (\E rank \in 0..(ranks - 1) : Work(rank)) \/ Collect \/ Debayered \/ Stretched \/ Return
  <2>1. cards' = cards /\ header' = header /\ fits_size' = fits_size
        /\ blob' \in Blob \cup {NoBlob}
        /\ at \notin {"header", "create"}
        /\ at' \in {"idle", "debayer", "stretch", "shown", "failed"}
    BY <1>7 DEF Work, Collect, Debayered, Stretched, Return, Stretch, fits, FileInv
  <2>2. QED BY <2>1 DEF FileInv
<1>8. QED BY <1>1, <1>2, <1>3, <1>4, <1>5, <1>6, <1>7 DEF Next

(* Whatever lines a file has, the reader goes on exactly while they are    *)
(* what the standard has there, and what it takes is shown as they say.    *)
THEOREM FilesReadRight == Spec => []FitsAsWritten
<1>1. FileInv => FitsAsWritten
  <2> SUFFICES ASSUME FileInv PROVE FitsAsWritten
    OBVIOUS
  <2>1. ASSUME at = "header", NEW card \in Card
        PROVE  Accepts(header, card)
                 <=> Standard(Append(cards, card), Len(Append(cards, card)))
    <3>1. Reads(cards, header) /\ cards \in Seq(Card)
      BY <2>1 DEF FileInv
    <3>2. Len(Append(cards, card)) = Len(cards) + 1
      BY <3>1
    <3>3. QED BY <3>1, <3>2, AcceptsStandard
  <2>2. QED BY <2>1 DEF FitsAsWritten, FileInv
<1>2. QED BY <1>1, InitFile, NextFile, PTL DEF Spec

---------------------------------------------------------------------------
(* Sharing the rows. *)

(* The threads' rows in terms of how far each has come: it has written     *)
(* exactly the rows from its start, no further than its chunk and the      *)
(* image, and those collected have come to their end.                      *)
RowsInv ==
    /\ ranks \in Nat /\ collected \in 0..ranks
    /\ next \in [0..(ranks - 1) -> Nat]
    /\ wrote \in [0..(ranks - 1) -> SUBSET Nat]
    /\ \A p \in 0..(ranks - 1) :
         /\ StartRow(p, ranks) <= next[p]
         /\ next[p] <= StartRow(p, ranks) + Chunk(ranks)
         /\ \A row \in Nat : row \in wrote[p] <=>
                               StartRow(p, ranks) <= row /\ row < next[p]
         /\ next[p] > StartRow(p, ranks) => next[p] <= h
         /\ p < collected => EndRow(p, ranks) <= next[p]
    /\ at \in {"debayer", "stretch"} => ranks > 0
    /\ at \in {"idle", "header", "create"} => ranks = 0

(* Rounding up: the chunks of all threads hold all rows.                   *)
LEMMA ChunkHolds ==
    ASSUME NEW rows \in Nat, NEW t \in Nat \ {0}
    PROVE  LET c == (rows + t - 1) \div t
           IN  c \in Nat /\ rows <= c * t /\ (rows > 0 => c > 0)
<1> DEFINE c == (rows + t - 1) \div t
<1>1. c \in Int /\ c * t <= rows + t - 1 /\ rows + t - 1 < (c + 1) * t
  OBVIOUS
<1>2. (c + 1) * t = c * t + t
  BY <1>1
<1>3. rows <= c * t
  BY <1>1, <1>2
<1>4. c >= 0
  OBVIOUS
<1>5. rows > 0 => c > 0
  BY <1>3, <1>4
<1>6. QED BY <1>1, <1>3, <1>4, <1>5

(* Of two threads the first ends where the second starts, or before.       *)
LEMMA Apart ==
    ASSUME NEW c \in Nat, NEW p \in Nat, NEW q \in Nat, p < q
    PROVE  c * p + c <= c * q
<1>1. c * (q - p - 1) >= 0
  OBVIOUS
<1>2. c * q = c * (p + 1 + (q - p - 1))
  OBVIOUS
<1>3. c * (p + 1 + (q - p - 1)) = c * p + c + c * (q - p - 1)
  OBVIOUS
<1>4. QED BY <1>1, <1>2, <1>3

(* Every row lies in the chunk of some thread.                             *)
LEMMA RowHasThread ==
    ASSUME NEW c \in Nat \ {0}, NEW t \in Nat, NEW row \in Nat, row < c * t
    PROVE  \E p \in 0..(t - 1) : c * p <= row /\ row < c * p + c
<1> DEFINE p == row \div c
<1>1. p \in Nat /\ c * p <= row /\ row < c * (p + 1)
  OBVIOUS
<1>2. c * (p + 1) = c * p + c
  BY <1>1
<1>3. p < t
  <2> SUFFICES ASSUME p >= t PROVE FALSE
    BY <1>1
  <2>1. c * p >= c * t
    BY <1>1
  <2>2. QED BY <1>1, <2>1
<1>4. p \in 0..(t - 1) /\ c * p <= row /\ row < c * p + c
  BY <1>1, <1>2, <1>3
<1> HIDE DEF p
<1>5. QED BY <1>4

LEMMA HeightIsNat == FileInv => h \in Nat /\ w \in Nat
<1> SUFFICES ASSUME FileInv PROVE h \in Nat /\ w \in Nat
  OBVIOUS
<1>1. CASE blob \in Blob
  <2>1. blob.width \in Widths /\ blob.height \in Heights
    BY <1>1 DEF Blob
  <2>2. QED BY <2>1, FitsAssumption DEF h, w
<1>2. CASE blob = NoBlob
  BY <1>2 DEF NoBlob, h, w
<1>3. QED BY <1>1, <1>2 DEF FileInv

(* What Launch(t) establishes: no row is written yet.                      *)
LEMMA LaunchRows ==
    ASSUME FileInv, NEW t \in Nat \ {0}, Launch(t), UNCHANGED blob,
           at' \in {"debayer", "stretch"}
    PROVE  RowsInv'
<1>1. h \in Nat
  BY HeightIsNat
<1>2. Chunk(t) \in Nat
  BY <1>1, ChunkHolds DEF Chunk
<1>3. \A p \in 0..(t - 1) : StartRow(p, t) \in Nat
  BY <1>2 DEF StartRow
<1>4. /\ ranks' = t /\ collected' = 0
      /\ next' \in [0..(t - 1) -> Nat]
      /\ wrote' \in [0..(t - 1) -> SUBSET Nat]
  BY <1>3 DEF Launch
<1>5. Chunk(t)' = Chunk(t) /\ \A p \in Nat : StartRow(p, t)' = StartRow(p, t)
  BY DEF Chunk, StartRow, h
<1>6. ASSUME NEW p \in 0..(t - 1)
      PROVE  /\ next'[p] = StartRow(p, t)
             /\ wrote'[p] = {}
  BY DEF Launch
<1>7. QED
  BY <1>2, <1>3, <1>4, <1>5, <1>6 DEF RowsInv, StartRow, Chunk, h

(* Both loops start at least one thread.                                   *)
LEMMA SomeThread ==
    ASSUME FileInv
    PROVE  StretchThreads \subseteq Nat \ {0} /\ DebayerThreads \subseteq Nat \ {0}
<1>1. h \in Nat
  BY HeightIsNat
<1>2. Threads \subseteq Nat \ {0}
  BY ImageAssumption DEF Threads
<1>3. QED BY <1>1, <1>2 DEF StretchThreads, DebayerThreads, Smaller

(* Before the first BLOB there is no loop.                                 *)
LEMMA InitRows == Init => RowsInv
BY DEF Init, RowsInv, Nothing

(* One step per action; only Work and Collect touch the loop under way.    *)
LEMMA NextRows == FileInv /\ RowsInv /\ [Next]_vars => RowsInv'
<1> SUFFICES ASSUME FileInv, RowsInv, [Next]_vars PROVE RowsInv'
  OBVIOUS
<1>a. h \in Nat /\ ranks \in Nat
  BY HeightIsNat DEF RowsInv
<1>0. h \in Nat /\ (ranks > 0 => Chunk(ranks) \in Nat)
  <2>1. CASE ranks > 0
    BY <1>a, <2>1, ChunkHolds DEF Chunk
  <2>2. QED BY <1>a, <2>1
<1>1. CASE UNCHANGED vars
  BY <1>1 DEF vars, loop, RowsInv, StartRow, EndRow, Chunk, h
<1>2. CASE /\ at \in {"idle", "header", "create"} /\ UNCHANGED loop
           /\ at' \in {"idle", "header", "create", "failed"}
  <2>1. ranks = 0 /\ ranks' = 0 /\ next' = next /\ wrote' = wrote /\ collected' = collected
    BY <1>2 DEF RowsInv, loop
  <2>2. 0..(ranks' - 1) = {}
    BY <2>1
  <2>3. QED BY <1>2, <2>1, <2>2 DEF RowsInv
<1>2a. CASE \/ CreateRawPreview \/ CreateFitsPreview \/ TakeFits \/ RefuseFits \/ Refuse
            \/ \E card \in Card : ReadLine(card)
  BY <1>2, <1>2a DEF CreateRawPreview, CreateFitsPreview, TakeFits, RefuseFits, Refuse, ReadLine
<1>3. CASE CopyRaw \/ Debayered
  <2>1. Stretch /\ UNCHANGED blob /\ at' = "stretch"
    BY <1>3 DEF CopyRaw, Debayered, Stretch
  <2>2. PICK t \in StretchThreads : Launch(t)
    BY <2>1 DEF Stretch
  <2>3. QED BY <2>1, <2>2, LaunchRows, SomeThread
<1>4. CASE StartDebayer
  <2>1. PICK t \in DebayerThreads : Launch(t)
    BY <1>4 DEF StartDebayer
  <2>2. UNCHANGED blob /\ at' = "debayer"
    BY <1>4 DEF StartDebayer
  <2>3. QED BY <2>1, <2>2, LaunchRows, SomeThread
<1>5. ASSUME NEW rank \in 0..(ranks - 1), Work(rank) PROVE RowsInv'
  <2>1. next' = [next EXCEPT ![rank] = @ + 1]
        /\ wrote' = [wrote EXCEPT ![rank] = @ \cup {next[rank]}]
        /\ next[rank] < EndRow(rank, ranks)
        /\ UNCHANGED <<blob, at, ranks, collected>>
    BY <1>5 DEF Work
  <2>2. next[rank] < StartRow(rank, ranks) + Chunk(ranks)
    BY <2>1, <1>0 DEF EndRow, Smaller, StartRow, RowsInv
  <2>3. next' \in [0..(ranks - 1) -> Nat] /\ wrote' \in [0..(ranks - 1) -> SUBSET Nat]
    BY <2>1 DEF RowsInv
  <2>4. ASSUME NEW p \in 0..(ranks - 1)
        PROVE  /\ StartRow(p, ranks) <= next'[p]
               /\ next'[p] <= StartRow(p, ranks) + Chunk(ranks)
               /\ \A row \in Nat : row \in wrote'[p] <=>
                                     StartRow(p, ranks) <= row /\ row < next'[p]
               /\ next'[p] > StartRow(p, ranks) => next'[p] <= h
               /\ p < collected => EndRow(p, ranks) <= next'[p]
    <3>1. StartRow(p, ranks) \in Nat /\ Chunk(ranks) \in Nat /\ EndRow(p, ranks) \in Int
      BY <1>0 DEF StartRow, EndRow, Smaller, RowsInv
    <3>2. CASE p = rank
      <4>1. next'[p] = next[p] + 1 /\ next[p] \in Nat /\ StartRow(p, ranks) <= next[p]
        BY <2>1, <3>2 DEF RowsInv
      <4>2. next[p] < StartRow(p, ranks) + Chunk(ranks) /\ next[p] < EndRow(p, ranks)
        BY <2>1, <2>2, <3>2
      <4>3. ASSUME NEW row \in Nat
            PROVE  row \in wrote'[p] <=> StartRow(p, ranks) <= row /\ row < next'[p]
        <5>1. row \in wrote'[p] <=> row \in wrote[p] \/ row = next[p]
          BY <2>1, <3>2 DEF RowsInv
        <5>2. row \in wrote[p] <=> StartRow(p, ranks) <= row /\ row < next[p]
          BY DEF RowsInv
        <5>3. QED BY <3>1, <4>1, <5>1, <5>2
      <4>4. p < collected => EndRow(p, ranks) <= next[p]
        BY DEF RowsInv
      <4>5. EndRow(p, ranks) <= h
        BY <1>0, <3>1 DEF EndRow, Smaller
      <4>6. QED BY <1>0, <3>1, <4>1, <4>2, <4>3, <4>4, <4>5
    <3>3. CASE p # rank
      BY <2>1, <3>1, <3>3 DEF RowsInv
    <3>4. QED BY <3>2, <3>3
  <2>5. QED
    BY <2>1, <2>3, <2>4 DEF RowsInv, StartRow, EndRow, Chunk, h
<1>6. CASE Collect
  BY <1>6 DEF Collect, RowsInv, StartRow, EndRow, Chunk, h
<1>7. CASE Stretched
  BY <1>7 DEF Stretched, loop, RowsInv, StartRow, EndRow, Chunk, h
<1>8. CASE Return
  BY <1>8 DEF Return, Nothing, RowsInv
<1>9. QED
  BY <1>1, <1>2a, <1>3, <1>4, <1>5, <1>6, <1>7, <1>8 DEF Next

(* The invariant gives the property: chunks lie apart and hold all rows.   *)
LEMMA SharedByInv == FileInv /\ RowsInv => RowsShared
<1> SUFFICES ASSUME FileInv, RowsInv PROVE RowsShared
  OBVIOUS
<1>0. h \in Nat
  BY HeightIsNat
<1>1. ASSUME NEW p \in 0..(ranks - 1), NEW q \in 0..(ranks - 1), p < q
      PROVE  wrote[p] \cap wrote[q] = {}
  <2>1. Chunk(ranks) \in Nat
    BY SMTT(60), <1>0, ChunkHolds DEF Chunk, RowsInv
  <2>2. StartRow(p, ranks) + Chunk(ranks) <= StartRow(q, ranks)
    <3>1. p \in Nat /\ q \in Nat
      BY DEF RowsInv
    <3>2. QED BY <1>1, <2>1, <3>1, Apart DEF StartRow
  <2>3. StartRow(p, ranks) \in Nat /\ StartRow(q, ranks) \in Nat
    BY <2>1 DEF StartRow, RowsInv
  <2>4. ASSUME NEW row \in wrote[p], row \in wrote[q] PROVE FALSE
    BY <2>1, <2>2, <2>3, <2>4 DEF RowsInv
  <2>5. QED BY <2>4
<1>2. ASSUME NEW p \in 0..(ranks - 1), NEW q \in 0..(ranks - 1), p # q
      PROVE  wrote[p] \cap wrote[q] = {}
  <2>1. CASE p < q
    BY <1>1, <2>1
  <2>2. CASE q < p
    BY <1>1, <2>2
  <2>3. QED BY <1>2, <2>1, <2>2 DEF RowsInv
<1>3. ASSUME at \in {"debayer", "stretch"}, collected = ranks, NEW row \in 0..(h - 1)
      PROVE  \E p \in 0..(ranks - 1) : row \in wrote[p]
  <2>1. ranks \in Nat \ {0} /\ h > 0 /\ row \in Nat
    BY <1>0, <1>3 DEF RowsInv
  <2>2. Chunk(ranks) \in Nat \ {0} /\ h <= Chunk(ranks) * ranks
    BY <1>0, <2>1, ChunkHolds DEF Chunk
  <2>3. row < Chunk(ranks) * ranks
    BY <1>0, <2>1, <2>2
  <2>4. PICK p \in 0..(ranks - 1) : /\ Chunk(ranks) * p <= row
                                    /\ row < Chunk(ranks) * p + Chunk(ranks)
    BY <2>1, <2>2, <2>3, RowHasThread
  <2>5. StartRow(p, ranks) <= row /\ row < EndRow(p, ranks)
    BY <1>0, <2>1, <2>2, <2>4 DEF StartRow, EndRow, Smaller
  <2>6. EndRow(p, ranks) <= next[p] /\ next[p] \in Nat
    BY <1>3, <2>1, <2>4 DEF RowsInv
  <2>7. EndRow(p, ranks) \in Int
    BY <1>0, <2>1, <2>2, <2>4 DEF StartRow, EndRow, Smaller
  <2>8. row \in wrote[p]
    BY <2>1, <2>5, <2>6, <2>7 DEF RowsInv
  <2>9. QED BY <2>8
<1>4. QED BY <1>2, <1>3 DEF RowsShared

(* Threads never write the same row and together write every row, for any  *)
(* height and any number of cores.                                         *)
THEOREM RowsAlwaysShared == Spec => []RowsShared
<1>1. QED BY InitFile, NextFile, InitRows, NextRows, SharedByInv, PTL DEF Spec

---------------------------------------------------------------------------
(* Types, and the samples of the statistics. *)

ParamInv ==
    /\ at \in {"idle", "header", "create", "debayer", "failed"} => params = Nothing
    /\ \A c \in DOMAIN params : \A k \in params[c] : k \in Samples /\ k % Depth = c

Inside(size, s, d, c, i) ==
    c + i * s * d \in 0..(size * d - 1) /\ (c + i * s * d) % d = c

(* Steps of so many samples stay inside the data and in their channel.     *)
LEMMA StepsInside ==
    ASSUME NEW size \in Nat, NEW s \in Nat \ {0}, NEW d \in {1, 3}, NEW c \in 0..(d - 1),
           NEW i \in 0..((size * d) \div (s * d) - 1)
    PROVE  Inside(size, s, d, c, i)
<1> DEFINE q == (size * d) \div (s * d)
<1>1. s * d \in Nat \ {0} /\ size * d \in Nat /\ s * d >= d
  OBVIOUS
<1>2. q \in Int /\ q * (s * d) <= size * d
  <2>1. ASSUME NEW x \in Nat, NEW y \in Nat \ {0}
        PROVE  x \div y \in Int /\ (x \div y) * y <= x
    OBVIOUS
  <2>2. QED BY <1>1, <2>1
<1>3. i \in Nat /\ i <= q - 1
  BY <1>2
<1> HIDE DEF q
<1>4. i * s \in Nat /\ i * s * d = i * (s * d)
  BY <1>3
<1>5. i * (s * d) <= (q - 1) * (s * d)
  <2>1. ASSUME NEW x \in Int, NEW y \in Int, x <= y, NEW z \in Nat PROVE x * z <= y * z
    BY <2>1
  <2>2. QED BY <1>1, <1>2, <1>3, <2>1
<1>6. (q - 1) * (s * d) = q * (s * d) - s * d
  <2>1. ASSUME NEW x \in Int, NEW z \in Nat PROVE (x - 1) * z = x * z - z
    OBVIOUS
  <2>2. QED BY <1>1, <1>2, <2>1
<1>7. i * s * d \in Nat
  BY <1>4
<1>8. c + i * s * d <= size * d - 1
  BY <1>1, <1>2, <1>4, <1>5, <1>6, <1>7
<1>9. (c + i * s * d) % d = c
  <2> DEFINE m == i * s
  <2>1. m \in Nat
    BY <1>4
  <2> HIDE DEF m
  <2>2. (c + m * d) % d = c
    <3>1. CASE d = 1
      BY <2>1, <3>1
    <3>2. CASE d = 3
      BY <2>1, <3>2
    <3>3. QED BY <3>1, <3>2
  <2>3. QED BY <2>2 DEF m
<1>10. QED BY <1>1, <1>7, <1>8, <1>9 DEF Inside

LEMMA SampledInside ==
    ASSUME FileInv, NEW c \in Channels, NEW k \in Sampled(c)
    PROVE  k \in Samples /\ k % Depth = c
<1>1. Size \in Nat
  BY HeightIsNat DEF Size
<1>2. SampleBy \in Nat \ {0}
  <2>1. MaxSamples \in Nat \ {0}
    BY ImageAssumption
  <2>2. ASSUME NEW x \in Nat, NEW y \in Nat \ {0}, x >= y PROVE x \div y \in Nat \ {0}
    <3> DEFINE q == x \div y
    <3>1. q \in Int /\ x < (q + 1) * y
      OBVIOUS
    <3>2. q > 0
      <4> SUFFICES ASSUME q <= 0 PROVE FALSE
        BY <3>1
      <4>1. (q + 1) * y <= y
        BY <3>1
      <4>2. QED BY <2>2, <3>1, <4>1
    <3>3. QED BY <3>1, <3>2
  <2>3. QED BY <1>1, <2>1, <2>2 DEF SampleBy
<1>3. Depth \in {1, 3} /\ c \in 0..(Depth - 1)
  BY DEF Depth, Channels
<1>4. PICK i \in 0..((Size * Depth) \div (SampleBy * Depth) - 1) : k = c + i * SampleBy * Depth
  BY DEF Sampled
<1>5. /\ c + i * SampleBy * Depth \in 0..(Size * Depth - 1)
      /\ (c + i * SampleBy * Depth) % Depth = c
  <2> DEFINE size == Size
             s    == SampleBy
             d    == Depth
  <2>1. size \in Nat /\ s \in Nat \ {0} /\ d \in {1, 3} /\ c \in 0..(d - 1)
        /\ i \in 0..((size * d) \div (s * d) - 1)
    BY <1>1, <1>2, <1>3, <1>4
  <2> HIDE DEF size, s, d
  <2>2. Inside(size, s, d, c, i)
    BY <2>1, StepsInside
  <2>3. QED BY <2>2 DEF size, s, d, Inside
<1>6. QED BY <1>4, <1>5 DEF Samples

LEMMA InitParams == Init => ParamInv
BY DEF Init, ParamInv, Nothing

LEMMA NextParams == FileInv /\ ParamInv /\ [Next]_vars => ParamInv'
<1> SUFFICES ASSUME FileInv, ParamInv, [Next]_vars PROVE ParamInv'
  OBVIOUS
<1>1. CASE /\ UNCHANGED <<blob, params>>
           /\ at' \in {"idle", "header", "create", "debayer", "failed"} => params = Nothing
  <2>1. Samples' = Samples /\ Depth' = Depth /\ params' = params
    BY <1>1 DEF Samples, Depth, Size, w, h
  <2>2. QED BY <1>1, <2>1 DEF ParamInv
<1>2. CASE UNCHANGED vars
  BY <1>1, <1>2 DEF vars, ParamInv
<1>3. CASE \/ CreateFitsPreview \/ RefuseFits \/ Refuse \/ StartDebayer \/ Collect \/ Stretched
           \/ (\E card \in Card : ReadLine(card)) \/ \E rank \in 0..(ranks - 1) : Work(rank)
  <2>1. /\ UNCHANGED <<blob, params>>
        /\ at' = at \/ at \in {"idle", "header", "create"} \/ at' = "shown"
    BY <1>3 DEF CreateFitsPreview, RefuseFits, Refuse, StartDebayer, Collect, Stretched,
                ReadLine, Work, Accepted
  <2>2. QED BY <1>1, <2>1 DEF ParamInv
<1>4. CASE CreateRawPreview \/ TakeFits \/ Return
  <2>1. params' = Nothing
    BY <1>4 DEF CreateRawPreview, TakeFits, Return, ParamInv
  <2>2. QED BY <2>1 DEF ParamInv, Nothing
<1>5. CASE CopyRaw \/ Debayered
  <2>1. Stretch /\ UNCHANGED blob
    BY <1>5 DEF CopyRaw, Debayered
  <2>2. Samples' = Samples /\ Depth' = Depth /\ at' = "stretch"
    BY <2>1 DEF Samples, Depth, Size, w, h, Stretch
  <2>3. ASSUME NEW c \in DOMAIN params', NEW k \in params'[c]
        PROVE  k \in Samples /\ k % Depth = c
    <3>1. CASE params' = [d \in Channels |-> Sampled(d)]
      BY <2>3, <3>1, SampledInside
    <3>2. CASE params' = [d \in Channels |-> {}]
      BY <2>3, <3>2
    <3>3. QED BY <2>1, <3>1, <3>2 DEF Stretch
  <2>4. QED BY <2>2, <2>3 DEF ParamInv
<1>6. QED BY <1>2, <1>3, <1>4, <1>5 DEF Next

(* Lines, sizes, threads and rows keep their types, and the statistics of  *)
(* a channel come from samples of it.                                      *)
THEOREM ImageTyped == Spec => []TypeOK
<1>1. FileInv /\ RowsInv /\ ParamInv => TypeOK
  <2> SUFFICES ASSUME FileInv, RowsInv, ParamInv PROVE TypeOK
    OBVIOUS
  <2>1. ASSUME NEW p \in 0..(ranks - 1), NEW row \in wrote[p] PROVE row \in 0..(h - 1)
    <3>1. h \in Nat /\ ranks \in Nat \ {0} /\ p \in Nat
      BY HeightIsNat DEF RowsInv
    <3>2. StartRow(p, ranks) \in Nat
      BY <3>1, ChunkHolds DEF StartRow, Chunk
    <3>3. row \in Nat /\ next[p] \in Nat
      BY DEF RowsInv
    <3>4. StartRow(p, ranks) <= row /\ row < next[p]
          /\ (next[p] > StartRow(p, ranks) => next[p] <= h)
      BY <3>3 DEF RowsInv
    <3>5. QED BY <3>1, <3>2, <3>3, <3>4
  <2>2. wrote \in [0..(ranks - 1) -> SUBSET (0..(h - 1))]
    BY <2>1 DEF RowsInv
  <2>3. QED BY <2>2 DEF TypeOK, FileInv, RowsInv, ParamInv
<1>2. QED
  BY <1>1, InitFile, NextFile, InitRows, NextRows, InitParams, NextParams, PTL DEF Spec

---------------------------------------------------------------------------
(* The mosaic: where the neighbours of a pixel are and what they are.      *)

LEMMA PlaceOf ==
    ASSUME NEW wide \in Nat \ {0}, NEW r \in Nat, NEW k \in 0..(wide - 1)
    PROVE  (r * wide + k) \div wide = r /\ (r * wide + k) % wide = k
<1> DEFINE x == r * wide + k
           q == x \div wide
<1>1. x \in Nat /\ q \in Int /\ q * wide <= x /\ x < (q + 1) * wide /\ x % wide = x - q * wide
  OBVIOUS
<1>2. x < (r + 1) * wide /\ r * wide <= x
  <2>1. (r + 1) * wide = r * wide + wide
    OBVIOUS
  <2>2. QED BY <2>1
<1> HIDE DEF q
<1>3. ASSUME NEW a \in Int, NEW b \in Int, a < b PROVE (a + 1) * wide <= b * wide
  <2>1. ASSUME NEW y \in Int, NEW z \in Int, y <= z PROVE y * wide <= z * wide
    BY <2>1
  <2>2. QED BY <1>3, <2>1
<1> HIDE DEF x
<1>a. x \in Nat
  BY <1>1
<1>4. ~(q < r)
  <2> SUFFICES ASSUME q < r PROVE FALSE
    OBVIOUS
  <2>1. (q + 1) * wide <= r * wide
    BY <1>1, <1>3
  <2>2. QED BY <1>1, <1>2, <2>1
<1>5. ~(r < q)
  <2> SUFFICES ASSUME r < q PROVE FALSE
    OBVIOUS
  <2>1. (r + 1) * wide <= q * wide
    BY <1>1, <1>3
  <2>2. QED BY <1>1, <1>2, <2>1
<1>6. q = r
  BY <1>1, <1>4, <1>5
<1>7. x % wide = k
  BY <1>1, <1>6 DEF x
<1>8. QED BY <1>6, <1>7 DEF q, x

LEMMA PlaceIn ==
    ASSUME NEW wide \in Nat \ {0}, NEW high \in Nat, NEW j \in 0..(wide * high - 1)
    PROVE  /\ j \div wide \in 0..(high - 1) /\ j % wide \in 0..(wide - 1)
           /\ j = (j \div wide) * wide + (j % wide)
<1> DEFINE q == j \div wide
           m == j % wide
           p == q * wide
<1>1. /\ j \in Nat /\ q \in Nat /\ p \in Nat /\ p <= j /\ j < (q + 1) * wide
      /\ m \in 0..(wide - 1) /\ m = j - p
  OBVIOUS
<1> HIDE DEF q, m
<1>2. q < high
  <2> SUFFICES ASSUME high <= q PROVE FALSE
    BY <1>1
  <2>1. wide * high <= q * wide
    BY <1>1
  <2>2. QED BY <1>1, <2>1
<1> HIDE DEF p
<1>3. q \in 0..(high - 1) /\ j = p + m
  BY <1>1, <1>2
<1>4. q \in 0..(high - 1) /\ m \in 0..(wide - 1) /\ j = q * wide + m
  BY <1>1, <1>3 DEF p
<1>5. QED BY <1>4 DEF q, m

LEMMA PlaceSize ==
    ASSUME NEW wide \in Nat \ {0}, NEW high \in Nat,
           NEW r \in 0..(high - 1), NEW k \in 0..(wide - 1)
    PROVE  r * wide + k \in 0..(wide * high - 1)
<1>1. (r + 1) * wide <= high * wide
  OBVIOUS
<1>2. (r + 1) * wide = r * wide + wide
  OBVIOUS
<1>3. r * wide \in Nat /\ high * wide = wide * high /\ high * wide \in Nat
  OBVIOUS
<1>4. QED BY <1>1, <1>2, <1>3

(* The pixels beside, above and below, and at the corners.                 *)
Near(x, size) == {x - 1, x + 1} \cap 0..(size - 1)
Beside(row, col)  == {row * w + k : k \in Near(col, w)}
Upright(row, col) == {r * w + col : r \in Near(row, h)}
Corners(row, col) == {r * w + k : r \in Near(row, h), k \in Near(col, w)}

Moved(i, S) == {i + d : d \in S}

Proper == w \in Nat /\ w > 1 /\ h \in Nat /\ h > 1 /\ blob.layout \in Mosaics

LEMMA AcrossIs ==
    ASSUME Proper, NEW col \in 0..(w - 1)
    PROVE  /\ Across(col) \subseteq {-1, 1} /\ Across(col) # {}
           /\ \A a \in Int : a \in Across(col) <=> col + a \in Near(col, w)
BY DEF Proper, Across, Near

LEMMA AlongIs ==
    ASSUME Proper, NEW row \in 0..(h - 1)
    PROVE  /\ Along(row) # {}
           /\ \A x : x \in Along(row) <=> \E r \in Near(row, h) : x = r * w - row * w
<1>1. w \in Nat /\ h \in Nat /\ h > 1
  BY DEF Proper
<1>2. (row + 1) * w = row * w + w /\ (row - 1) * w = row * w - w /\ row * w \in Nat
  BY <1>1
<1>3. (row + 1) * w - row * w = w /\ (row - 1) * w - row * w = -w
  BY <1>1, <1>2
<1>4. CASE row = 0
  <2>1. Near(row, h) = {row + 1} /\ Along(row) = {w}
    BY <1>1, <1>4 DEF Near, Along
  <2>2. QED BY <1>3, <2>1
<1>5. CASE row # 0 /\ row = h - 1
  <2>1. Near(row, h) = {row - 1} /\ Along(row) = {-w}
    BY <1>1, <1>5 DEF Near, Along
  <2>2. QED BY <1>3, <2>1
<1>6. CASE row # 0 /\ row # h - 1
  <2>1. Near(row, h) = {row - 1, row + 1} /\ Along(row) = {-w, w}
    BY <1>1, <1>6 DEF Near, Along
  <2>2. QED BY <1>3, <2>1
<1>7. QED BY <1>4, <1>5, <1>6

(* What the offsets lead to.                                               *)
LEMMA MovesLead ==
    ASSUME Proper, NEW row \in 0..(h - 1), NEW col \in 0..(w - 1)
    PROVE  LET i == row * w + col IN
           /\ Moved(i, Across(col)) = Beside(row, col)
           /\ Moved(i, Along(row)) = Upright(row, col)
           /\ Moved(i, Cross(row, col)) = Beside(row, col) \cup Upright(row, col)
           /\ Moved(i, Diagonal(row, col)) = Corners(row, col)
           /\ Moved(i, {0}) = {i}
           /\ Beside(row, col) # {} /\ Upright(row, col) # {} /\ Corners(row, col) # {}
<1> DEFINE i == row * w + col
<1>1. /\ w \in Nat /\ h \in Nat /\ row \in Nat /\ col \in Nat /\ row * w \in Nat /\ i \in Nat
      /\ Near(row, h) \subseteq Nat /\ Near(col, w) \subseteq Nat
      /\ \A r \in Nat : r * w \in Nat
  BY DEF Proper, Near
<1>2. \A x : x \in Moved(i, Across(col)) <=> x \in Beside(row, col)
  <2>1. ASSUME NEW a \in Across(col) PROVE i + a \in Beside(row, col)
    <3>1. a \in Int /\ col + a \in Near(col, w)
      BY AcrossIs
    <3>2. i + a = row * w + (col + a)
      BY <1>1, <3>1
    <3>3. QED BY <3>1, <3>2 DEF Beside
  <2>2. ASSUME NEW k \in Near(col, w) PROVE row * w + k \in Moved(i, Across(col))
    <3>1. k - col \in Int /\ col + (k - col) = k
      BY <1>1
    <3>2. k - col \in Across(col)
      BY <3>1, AcrossIs
    <3>3. row * w + k = i + (k - col)
      BY <1>1
    <3>4. QED BY <3>2, <3>3 DEF Moved
  <2>3. QED BY <2>1, <2>2 DEF Moved, Beside
<1>3. \A x : x \in Moved(i, Along(row)) <=> x \in Upright(row, col)
  <2>1. ASSUME NEW b \in Along(row) PROVE i + b \in Upright(row, col)
    <3>1. PICK r \in Near(row, h) : b = r * w - row * w
      BY AlongIs
    <3>2. r * w \in Nat
      BY <1>1
    <3>3. i + b = r * w + col
      BY <1>1, <3>1, <3>2
    <3>4. QED BY <3>3 DEF Upright
  <2>2. ASSUME NEW r \in Near(row, h) PROVE r * w + col \in Moved(i, Along(row))
    <3>1. r * w - row * w \in Along(row)
      BY AlongIs
    <3>2. r * w \in Nat
      BY <1>1
    <3>3. r * w + col = i + (r * w - row * w)
      BY <1>1, <3>2
    <3>4. QED BY <3>1, <3>3 DEF Moved
  <2>3. QED BY <2>1, <2>2 DEF Moved, Upright
<1>4. \A x : x \in Moved(i, Diagonal(row, col)) <=> x \in Corners(row, col)
  <2>1. ASSUME NEW a \in Across(col), NEW b \in Along(row) PROVE i + (a + b) \in Corners(row, col)
    <3>1. a \in Int /\ col + a \in Near(col, w)
      BY AcrossIs
    <3>2. PICK r \in Near(row, h) : b = r * w - row * w
      BY AlongIs
    <3>3. r * w \in Nat
      BY <1>1
    <3>4. i + (a + b) = r * w + (col + a)
      BY <1>1, <3>1, <3>2, <3>3
    <3>5. QED BY <3>1, <3>4 DEF Corners
  <2>2. ASSUME NEW r \in Near(row, h), NEW k \in Near(col, w)
        PROVE  r * w + k \in Moved(i, Diagonal(row, col))
    <3>1. r * w - row * w \in Along(row)
      BY AlongIs
    <3>2. k - col \in Int /\ col + (k - col) = k
      BY <1>1
    <3>3. k - col \in Across(col)
      BY <3>2, AcrossIs
    <3>4. r * w \in Nat /\ k \in Nat
      BY <1>1
    <3>5. r * w + k = i + ((k - col) + (r * w - row * w))
      BY <1>1, <3>4
    <3>6. (k - col) + (r * w - row * w) \in Diagonal(row, col)
      BY <3>1, <3>3 DEF Diagonal
    <3>7. QED BY <3>5, <3>6 DEF Moved
  <2>3. ASSUME NEW x \in Moved(i, Diagonal(row, col)) PROVE x \in Corners(row, col)
    <3>1. PICK d \in Diagonal(row, col) : x = i + d
      BY DEF Moved
    <3>2. PICK a \in Across(col), b \in Along(row) : d = a + b
      BY DEF Diagonal
    <3>3. QED BY <2>1, <3>1, <3>2
  <2>4. ASSUME NEW x \in Corners(row, col) PROVE x \in Moved(i, Diagonal(row, col))
    BY <2>2 DEF Corners
  <2>5. QED BY <2>3, <2>4
<1>5. Moved(i, {0}) = {i}
  BY <1>1 DEF Moved
<1>6. \A x : x \in Moved(i, Cross(row, col)) <=> x \in Beside(row, col) \cup Upright(row, col)
  BY <1>2, <1>3 DEF Cross, Moved
<1>7. (\E r : r \in Near(row, h)) /\ (\E k : k \in Near(col, w))
  <2>1. ASSUME NEW size \in Nat, size > 1, NEW x \in 0..(size - 1) PROVE \E y : y \in Near(x, size)
    <3>1. x = 0 => x + 1 \in Near(x, size)
      BY <2>1 DEF Near
    <3>2. x # 0 => x - 1 \in Near(x, size)
      BY <2>1 DEF Near
    <3>3. QED BY <3>1, <3>2
  <2>2. QED BY <2>1 DEF Proper
<1>8. Beside(row, col) # {} /\ Upright(row, col) # {} /\ Corners(row, col) # {}
  <2>1. PICK r \in Near(row, h), k \in Near(col, w) : TRUE
    BY <1>7
  <2>2. /\ row * w + k \in Beside(row, col) /\ r * w + col \in Upright(row, col)
        /\ r * w + k \in Corners(row, col)
    BY DEF Beside, Upright, Corners
  <2>3. QED BY <2>2
<1>9. QED
  BY <1>2, <1>3, <1>4, <1>5, <1>6, <1>8

(* Which pixel of the pattern a row and a column make, and its colour: the *)
(* offsets that the code takes for a pattern are those of its name.        *)
ColPhase(k) == (k + BayerOffsets(blob.layout)[1]) % 2
RowPhase(r) == (r + BayerOffsets(blob.layout)[2]) % 2

LEMMA Flips ==
    ASSUME NEW x \in Nat, NEW o \in {0, 1}
    PROVE  (x + o) % 2 \in {0, 1} /\ ((x + 1) + o) % 2 = 1 - ((x + o) % 2)
           /\ (o = 0 => (x + o) % 2 = x % 2) /\ (o = 1 => (x + o) % 2 = 1 - (x % 2))
OBVIOUS

LEMMA Phases ==
    ASSUME Proper, NEW r \in Nat, NEW k \in Nat
    PROVE  /\ ColPhase(k) \in {0, 1} /\ RowPhase(r) \in {0, 1}
           /\ ColPhase(k + 1) = 1 - ColPhase(k) /\ RowPhase(r + 1) = 1 - RowPhase(r)
           /\ Phase(r, k) = <<ColPhase(k), RowPhase(r)>>
           /\ ColourAt(r, k) = IF ColPhase(k) # RowPhase(r) THEN 1
                               ELSE IF ColPhase(k) = 0 THEN 0 ELSE 2
<1> DEFINE o == BayerOffsets(blob.layout)
           a == r % 2
           b == k % 2
<1>1. a \in {0, 1} /\ b \in {0, 1}
  OBVIOUS
<1>2. ColourAt(r, k) = [RGGB |-> <<0, 1, 1, 2>>, BGGR |-> <<2, 1, 1, 0>>,
                        GRBG |-> <<1, 0, 2, 1>>, GBRG |-> <<1, 2, 0, 1>>]
                       [blob.layout][2 * a + b + 1]
  BY DEF ColourAt
<1>3. Phase(r, k) = <<ColPhase(k), RowPhase(r)>>
  BY DEF Phase, ColPhase, RowPhase
<1>4. ASSUME NEW p \in {0, 1}, NEW q \in {0, 1}, o[1] = p, o[2] = q
      PROVE  /\ ColPhase(k) \in {0, 1} /\ RowPhase(r) \in {0, 1}
             /\ ColPhase(k + 1) = 1 - ColPhase(k) /\ RowPhase(r + 1) = 1 - RowPhase(r)
             /\ ColPhase(k) = (IF p = 0 THEN b ELSE 1 - b)
             /\ RowPhase(r) = (IF q = 0 THEN a ELSE 1 - a)
  <2>1. /\ ColPhase(k) = (k + p) % 2 /\ ColPhase(k + 1) = ((k + 1) + p) % 2
        /\ RowPhase(r) = (r + q) % 2 /\ RowPhase(r + 1) = ((r + 1) + q) % 2
    BY <1>4 DEF ColPhase, RowPhase
  <2>2. QED BY <2>1, Flips
<1> HIDE DEF a, b, o
<1>5. CASE blob.layout = "RGGB"
  <2>1. o[1] = 0 /\ o[2] = 0
    BY <1>5 DEF o, BayerOffsets
  <2>2. ColourAt(r, k) = <<0, 1, 1, 2>>[2 * a + b + 1]
    BY <1>2, <1>5
  <2>3. QED BY <1>1, <1>3, <1>4, <2>1, <2>2
<1>6. CASE blob.layout = "BGGR"
  <2>1. o[1] = 1 /\ o[2] = 1
    BY <1>6 DEF o, BayerOffsets
  <2>2. ColourAt(r, k) = <<2, 1, 1, 0>>[2 * a + b + 1]
    BY <1>2, <1>6
  <2>3. QED BY <1>1, <1>3, <1>4, <2>1, <2>2
<1>7. CASE blob.layout = "GRBG"
  <2>1. o[1] = 1 /\ o[2] = 0
    BY <1>7 DEF o, BayerOffsets
  <2>2. ColourAt(r, k) = <<1, 0, 2, 1>>[2 * a + b + 1]
    BY <1>2, <1>7
  <2>3. QED BY <1>1, <1>3, <1>4, <2>1, <2>2
<1>8. CASE blob.layout = "GBRG"
  <2>1. o[1] = 0 /\ o[2] = 1
    BY <1>8 DEF o, BayerOffsets
  <2>2. ColourAt(r, k) = <<1, 2, 0, 1>>[2 * a + b + 1]
    BY <1>2, <1>8
  <2>3. QED BY <1>1, <1>3, <1>4, <2>1, <2>2
<1>9. QED BY <1>5, <1>6, <1>7, <1>8 DEF Proper, Mosaics

(* Of two neighbours in a row or a column the phase differs.               *)
LEMMA NearPhases ==
    ASSUME Proper, NEW row \in 0..(h - 1), NEW col \in 0..(w - 1)
    PROVE  /\ \A r \in Near(row, h) : /\ r \in 0..(h - 1) /\ r # row
                                      /\ RowPhase(r) = 1 - RowPhase(row)
           /\ \A k \in Near(col, w) : /\ k \in 0..(w - 1) /\ k # col
                                      /\ ColPhase(k) = 1 - ColPhase(col)
           /\ \A r \in 0..(h - 1) : r \in (row - 1)..(row + 1) <=> r = row \/ r \in Near(row, h)
           /\ \A k \in 0..(w - 1) : k \in (col - 1)..(col + 1) <=> k = col \/ k \in Near(col, w)
<1>1. w \in Nat /\ h \in Nat
  BY DEF Proper
<1>2. ASSUME NEW r \in Near(row, h) PROVE RowPhase(r) = 1 - RowPhase(row)
  <2>1. r \in Nat /\ row \in Nat /\ (r = row + 1 \/ row = r + 1)
    BY <1>1 DEF Near
  <2>2. RowPhase(r) \in {0, 1} /\ RowPhase(r + 1) = 1 - RowPhase(r)
    BY <2>1, Phases
  <2>3. RowPhase(row + 1) = 1 - RowPhase(row)
    BY <2>1, Phases
  <2>4. QED BY <2>1, <2>2, <2>3
<1>3. ASSUME NEW k \in Near(col, w) PROVE ColPhase(k) = 1 - ColPhase(col)
  <2>1. k \in Nat /\ col \in Nat /\ (k = col + 1 \/ col = k + 1)
    BY <1>1 DEF Near
  <2>2. ColPhase(k) \in {0, 1} /\ ColPhase(k + 1) = 1 - ColPhase(k)
    BY <2>1, Phases
  <2>3. ColPhase(col + 1) = 1 - ColPhase(col)
    BY <2>1, Phases
  <2>4. QED BY <2>1, <2>2, <2>3
<1>4. ASSUME NEW size \in Nat, NEW x \in 0..(size - 1)
      PROVE  /\ \A y \in Near(x, size) : y \in 0..(size - 1) /\ y # x
             /\ \A y \in 0..(size - 1) : y \in (x - 1)..(x + 1) <=> y = x \/ y \in Near(x, size)
  BY DEF Near
<1>5. QED BY <1>1, <1>2, <1>3, <1>4

(* The nearest samples of another colour, by row and column.               *)
LEMMA NearestIs ==
    ASSUME Proper, NEW row \in 0..(h - 1), NEW col \in 0..(w - 1), NEW c, ColourAt(row, col) # c
    PROVE  \A j : j \in Nearest(row, col, c) <=>
             \E r \in Near(row, h) \cup {row}, k \in Near(col, w) \cup {col} :
               ColourAt(r, k) = c /\ j = r * w + k
<1>1. w \in Nat \ {0} /\ h \in Nat /\ Size = w * h
  BY DEF Proper, Size
<1>2. ASSUME NEW j \in Nearest(row, col, c)
      PROVE  \E r \in Near(row, h) \cup {row}, k \in Near(col, w) \cup {col} :
               ColourAt(r, k) = c /\ j = r * w + k
  <2>1. /\ j \in 0..(w * h - 1) /\ ColourAt(j \div w, j % w) = c
        /\ (j \div w) \in (row - 1)..(row + 1) /\ (j % w) \in (col - 1)..(col + 1)
    BY <1>1 DEF Nearest
  <2>2. /\ j \div w \in 0..(h - 1) /\ j % w \in 0..(w - 1)
        /\ j = (j \div w) * w + (j % w)
    BY <1>1, <2>1, PlaceIn
  <2>3. j \div w \in Near(row, h) \cup {row} /\ j % w \in Near(col, w) \cup {col}
    BY <2>1, <2>2, NearPhases
  <2>4. QED BY <2>1, <2>2, <2>3
<1>3. ASSUME NEW r \in Near(row, h) \cup {row}, NEW k \in Near(col, w) \cup {col}, ColourAt(r, k) = c
      PROVE  r * w + k \in Nearest(row, col, c)
  <2>1. /\ r \in 0..(h - 1) /\ k \in 0..(w - 1)
        /\ r \in (row - 1)..(row + 1) /\ k \in (col - 1)..(col + 1)
    BY NearPhases
  <2>2. r * w + k \in 0..(Size - 1)
    BY <1>1, <2>1, PlaceSize
  <2>3. (r * w + k) \div w = r /\ (r * w + k) % w = k
    BY <1>1, <2>1, PlaceOf
  <2> DEFINE j == r * w + k
  <2>4. j \in 0..(Size - 1) /\ j \div w = r /\ j % w = k
    BY <2>2, <2>3
  <2>5. j \in {x * w + y : x \in (row - 1)..(row + 1), y \in (col - 1)..(col + 1)}
    BY <2>1
  <2> HIDE DEF j
  <2>6. j \in {i \in 0..(Size - 1) : ColourAt(i \div w, i % w) = c
                /\ (i \div w) \in (row - 1)..(row + 1) /\ (i % w) \in (col - 1)..(col + 1)}
    BY <1>3, <2>1, <2>4
  <2>7. j \in Nearest(row, col, c)
    BY <2>5, <2>6 DEF Nearest
  <2>8. QED BY <2>7 DEF j
<1>4. QED BY <1>2, <1>3

(* Of a red, a green and a blue pixel they are those beside it, above and  *)
(* below it, and at its corners.                                           *)
LEMMA NearestSets ==
    ASSUME Proper, NEW row \in 0..(h - 1), NEW col \in 0..(w - 1)
    PROVE  /\ Nearest(row, col, ColourAt(row, col)) = {row * w + col}
           /\ ColPhase(col) = RowPhase(row) =>
                /\ Nearest(row, col, 1) = Beside(row, col) \cup Upright(row, col)
                /\ ColPhase(col) = 0 => Nearest(row, col, 2) = Corners(row, col)
                /\ ColPhase(col) = 1 => Nearest(row, col, 0) = Corners(row, col)
           /\ ColPhase(col) = 1 /\ RowPhase(row) = 0 =>
                Nearest(row, col, 0) = Beside(row, col) /\ Nearest(row, col, 2) = Upright(row, col)
           /\ ColPhase(col) = 0 /\ RowPhase(row) = 1 =>
                Nearest(row, col, 0) = Upright(row, col) /\ Nearest(row, col, 2) = Beside(row, col)
<1>1. /\ w \in Nat /\ h \in Nat /\ row \in Nat /\ col \in Nat
      /\ Near(row, h) \subseteq Nat /\ Near(col, w) \subseteq Nat
  BY DEF Proper, Near
<1>2. \A r \in Near(row, h) \cup {row}, k \in Near(col, w) \cup {col} :
        ColourAt(r, k) = IF ColPhase(k) # RowPhase(r) THEN 1
                         ELSE IF ColPhase(k) = 0 THEN 0 ELSE 2
  BY <1>1, Phases
<1>3. /\ \A r \in Near(row, h) : RowPhase(r) = 1 - RowPhase(row)
      /\ \A k \in Near(col, w) : ColPhase(k) = 1 - ColPhase(col)
      /\ RowPhase(row) \in {0, 1} /\ ColPhase(col) \in {0, 1}
  BY <1>1, NearPhases, Phases
<1>4. /\ \A r \in Near(row, h), k \in Near(col, w) :
           ColourAt(r, k) = IF ColPhase(col) # RowPhase(row) THEN 1
                            ELSE IF ColPhase(col) = 1 THEN 0 ELSE 2
      /\ \A r \in Near(row, h) :
           ColourAt(r, col) = IF ColPhase(col) = RowPhase(row) THEN 1
                              ELSE IF ColPhase(col) = 0 THEN 0 ELSE 2
      /\ \A k \in Near(col, w) :
           ColourAt(row, k) = IF ColPhase(col) = RowPhase(row) THEN 1
                              ELSE IF ColPhase(col) = 1 THEN 0 ELSE 2
      /\ ColourAt(row, col) = IF ColPhase(col) # RowPhase(row) THEN 1
                              ELSE IF ColPhase(col) = 0 THEN 0 ELSE 2
  BY <1>2, <1>3
<1>5. ASSUME NEW c, ColourAt(row, col) # c
      PROVE  \A j : j \in Nearest(row, col, c) <=>
               \/ \E r \in Near(row, h), k \in Near(col, w) : ColourAt(r, k) = c /\ j = r * w + k
               \/ \E r \in Near(row, h) : ColourAt(r, col) = c /\ j = r * w + col
               \/ \E k \in Near(col, w) : ColourAt(row, k) = c /\ j = row * w + k
  BY <1>5, NearestIs
<1>6. Nearest(row, col, ColourAt(row, col)) = {row * w + col}
  BY DEF Nearest
<1>7. CASE ColPhase(col) = 0 /\ RowPhase(row) = 0
  <2>1. \A j : j \in Nearest(row, col, 1) <=> j \in Beside(row, col) \cup Upright(row, col)
    BY <1>4, <1>5, <1>7 DEF Beside, Upright
  <2>2. \A j : j \in Nearest(row, col, 2) <=> j \in Corners(row, col)
    BY <1>4, <1>5, <1>7 DEF Corners
  <2>3. Nearest(row, col, 1) = Beside(row, col) \cup Upright(row, col)
    BY <2>1
  <2>4. Nearest(row, col, 2) = Corners(row, col)
    BY <2>2
  <2>5. QED BY <1>6, <1>7, <2>3, <2>4
<1>8. CASE ColPhase(col) = 1 /\ RowPhase(row) = 1
  <2>1. \A j : j \in Nearest(row, col, 1) <=> j \in Beside(row, col) \cup Upright(row, col)
    BY <1>4, <1>5, <1>8 DEF Beside, Upright
  <2>2. \A j : j \in Nearest(row, col, 0) <=> j \in Corners(row, col)
    BY <1>4, <1>5, <1>8 DEF Corners
  <2>3. Nearest(row, col, 1) = Beside(row, col) \cup Upright(row, col)
    BY <2>1
  <2>4. Nearest(row, col, 0) = Corners(row, col)
    BY <2>2
  <2>5. QED BY <1>6, <1>8, <2>3, <2>4
<1>9. CASE ColPhase(col) = 1 /\ RowPhase(row) = 0
  <2>1. \A j : j \in Nearest(row, col, 0) <=> j \in Beside(row, col)
    BY <1>4, <1>5, <1>9 DEF Beside
  <2>2. \A j : j \in Nearest(row, col, 2) <=> j \in Upright(row, col)
    BY <1>4, <1>5, <1>9 DEF Upright
  <2>3. Nearest(row, col, 0) = Beside(row, col)
    BY <2>1
  <2>4. Nearest(row, col, 2) = Upright(row, col)
    BY <2>2
  <2>5. QED BY <1>6, <1>9, <2>3, <2>4
<1>10. CASE ColPhase(col) = 0 /\ RowPhase(row) = 1
  <2>1. \A j : j \in Nearest(row, col, 0) <=> j \in Upright(row, col)
    BY <1>4, <1>5, <1>10 DEF Upright
  <2>2. \A j : j \in Nearest(row, col, 2) <=> j \in Beside(row, col)
    BY <1>4, <1>5, <1>10 DEF Beside
  <2>3. Nearest(row, col, 0) = Upright(row, col)
    BY <2>1
  <2>4. Nearest(row, col, 2) = Beside(row, col)
    BY <2>2
  <2>5. QED BY <1>6, <1>10, <2>3, <2>4
<1>11. QED BY <1>3, <1>7, <1>8, <1>9, <1>10

---------------------------------------------------------------------------
(* The picture. *)

(* What a sample of the raw data and a pixel of the image are made of once *)
(* they have been made.                                                    *)
Made(k) ==
    LET index == k \div 3
    IN {index + d : d \in Debayer(index \div w, index % w)[(k % 3) + 1]}

Final(k) ==
    IF blob.layout \in Mosaics THEN Made(k)
    ELSE IF blob.layout = "planar" THEN {k \div 3 + (k % 3) * Size} ELSE {k}

Finished(i) == [c \in 0..2 |-> Final(IF Depth = 1 THEN i ELSE i * 3 + c)]

Covered(row) == \E p \in 0..(ranks - 1) : row \in wrote[p]

(* Debayering has made the samples of the rows it has covered, stretching  *)
(* starts with all of them made and has made the pixels of its own rows.   *)
PictureInv ==
    /\ at \in {"debayer", "stretch", "shown"} => blob \in Blob /\ w > 0 /\ h > 0
    /\ at = "debayer" =>
         /\ blob.layout \in Mosaics /\ DOMAIN raw = Samples
         /\ \A k \in Samples : Covered((k \div 3) \div w) => raw[k] = Made(k)
    /\ at = "stretch" =>
         /\ \A k \in Samples : raw[k] = Final(k)
         /\ DOMAIN pixels = 0..(Size - 1)
         /\ \A i \in 0..(Size - 1) : Covered(i \div w) => pixels[i] = Finished(i)
    /\ at = "shown" =>
         DOMAIN image = 0..(Size - 1) /\ \A i \in 0..(Size - 1) : image[i] = Finished(i)

(* A pixel of the mosaic has of each colour the samples nearest to it.     *)
LEMMA PixelNearest ==
    ASSUME w \in Nat, h \in Nat, blob.layout \in Mosaics,
           NEW row \in 0..(h - 1), NEW col \in 0..(w - 1), Regular(row, col), NEW c \in 0..2
    PROVE  LET made == Moved(row * w + col, Debayer(row, col)[c + 1]) IN
           /\ made # {} /\ made \subseteq Nearest(row, col, c)
           /\ col # 0 => made = Nearest(row, col, c)
<1> DEFINE i == row * w + col
<1>1. Proper
  BY DEF Regular, Proper
<1>2. /\ row \in Nat /\ col \in Nat /\ w \in Nat /\ w > 1 /\ h \in Nat /\ h > 1
      /\ (col = w - 1 => row \in 1..(h - 2))
  BY <1>1 DEF Proper, Regular
<1>3. /\ ColPhase(col) \in {0, 1} /\ RowPhase(row) \in {0, 1}
      /\ Phase(row, col) = <<ColPhase(col), RowPhase(row)>>
      /\ ColourAt(row, col) = IF ColPhase(col) # RowPhase(row) THEN 1
                              ELSE IF ColPhase(col) = 0 THEN 0 ELSE 2
  BY <1>1, <1>2, Phases
<1>4. /\ Moved(i, Across(col)) = Beside(row, col)
      /\ Moved(i, Along(row)) = Upright(row, col)
      /\ Moved(i, Cross(row, col)) = Beside(row, col) \cup Upright(row, col)
      /\ Moved(i, Diagonal(row, col)) = Corners(row, col)
      /\ Moved(i, {0}) = {i}
      /\ Beside(row, col) # {} /\ Upright(row, col) # {} /\ Corners(row, col) # {}
  BY <1>1, MovesLead
<1>5. /\ Nearest(row, col, ColourAt(row, col)) = {i}
      /\ ColPhase(col) = RowPhase(row) =>
           /\ Nearest(row, col, 1) = Beside(row, col) \cup Upright(row, col)
           /\ ColPhase(col) = 0 => Nearest(row, col, 2) = Corners(row, col)
           /\ ColPhase(col) = 1 => Nearest(row, col, 0) = Corners(row, col)
      /\ ColPhase(col) = 1 /\ RowPhase(row) = 0 =>
           Nearest(row, col, 0) = Beside(row, col) /\ Nearest(row, col, 2) = Upright(row, col)
      /\ ColPhase(col) = 0 /\ RowPhase(row) = 1 =>
           Nearest(row, col, 0) = Upright(row, col) /\ Nearest(row, col, 2) = Beside(row, col)
  BY <1>1, NearestSets
<1> HIDE DEF i
<1>6. BlueOfRed(row, col) = Diagonal(row, col)
  BY <1>2 DEF BlueOfRed
<1>7. /\ Moved(i, RedOfBlue(row, col)) # {}
      /\ Moved(i, RedOfBlue(row, col)) \subseteq Corners(row, col)
      /\ col # 0 => Moved(i, RedOfBlue(row, col)) = Corners(row, col)
  <2>1. CASE col = 0 /\ row \in 1..(h - 2)
    <3>1. RedOfBlue(row, col) = {-w + 1}
      BY <2>1 DEF RedOfBlue
    <3>2. row - 1 \in Near(row, h) /\ col + 1 \in Near(col, w)
      BY <1>2, <2>1 DEF Near
    <3>3. (row - 1) * w + (col + 1) = i + (-w + 1)
      <4>1. (row - 1) * w = row * w - w /\ row * w \in Nat
        BY <1>2
      <4>2. QED BY <1>2, <4>1 DEF i
    <3>4. i + (-w + 1) \in Corners(row, col)
      <4>1. PICK r \in Near(row, h), k \in Near(col, w) : r = row - 1 /\ k = col + 1
        BY <3>2
      <4>2. r * w + k \in Corners(row, col)
        BY DEF Corners
      <4>3. r * w + k = i + (-w + 1)
        BY <3>3, <4>1
      <4>4. QED BY <4>2, <4>3
    <3>5. Moved(i, {-w + 1}) = {i + (-w + 1)}
      BY DEF Moved
    <3>6. Moved(i, RedOfBlue(row, col)) = {i + (-w + 1)}
      BY <3>1, <3>5
    <3>7. QED BY <2>1, <3>4, <3>6
  <2>2. CASE ~(col = 0 /\ row \in 1..(h - 2))
    BY <1>4, <2>2 DEF RedOfBlue
  <2>3. QED BY <2>1, <2>2
<1>8. c = 0 \/ c = 1 \/ c = 2
  OBVIOUS
<1>9. CASE ColPhase(col) = 0 /\ RowPhase(row) = 0
  <2>1. Debayer(row, col) = <<{0}, Cross(row, col), Diagonal(row, col)>>
    BY <1>3, <1>6, <1>9 DEF Debayer
  <2>2. ColourAt(row, col) = 0
    BY <1>3, <1>9
  <2> DEFINE made == Moved(i, Debayer(row, col)[c + 1])
  <2>3. CASE c = 0
    <3>1. made = Moved(i, {0})
      BY <2>1, <2>3
    <3>2. QED BY <1>4, <1>5, <1>9, <2>2, <2>3, <3>1 DEF i
  <2>4. CASE c = 1
    <3>1. made = Moved(i, Cross(row, col))
      BY <2>1, <2>4
    <3>2. QED BY <1>4, <1>5, <1>9, <2>2, <2>4, <3>1 DEF i
  <2>5. CASE c = 2
    <3>1. made = Moved(i, Diagonal(row, col))
      BY <2>1, <2>5
    <3>2. QED BY <1>4, <1>5, <1>9, <2>2, <2>5, <3>1 DEF i
  <2>6. QED BY <1>8, <2>3, <2>4, <2>5
<1>10. CASE ColPhase(col) = 1 /\ RowPhase(row) = 0
  <2>1. Debayer(row, col) = <<Across(col), {0}, Along(row)>>
    BY <1>3, <1>10 DEF Debayer
  <2>2. ColourAt(row, col) = 1
    BY <1>3, <1>10
  <2> DEFINE made == Moved(i, Debayer(row, col)[c + 1])
  <2>3. CASE c = 0
    <3>1. made = Moved(i, Across(col))
      BY <2>1, <2>3
    <3>2. QED BY <1>4, <1>5, <1>10, <2>2, <2>3, <3>1 DEF i
  <2>4. CASE c = 1
    <3>1. made = Moved(i, {0})
      BY <2>1, <2>4
    <3>2. QED BY <1>4, <1>5, <1>10, <2>2, <2>4, <3>1 DEF i
  <2>5. CASE c = 2
    <3>1. made = Moved(i, Along(row))
      BY <2>1, <2>5
    <3>2. QED BY <1>4, <1>5, <1>10, <2>2, <2>5, <3>1 DEF i
  <2>6. QED BY <1>8, <2>3, <2>4, <2>5
<1>11. CASE ColPhase(col) = 0 /\ RowPhase(row) = 1
  <2>1. Debayer(row, col) = <<Along(row), {0}, Across(col)>>
    BY <1>3, <1>11 DEF Debayer
  <2>2. ColourAt(row, col) = 1
    BY <1>3, <1>11
  <2> DEFINE made == Moved(i, Debayer(row, col)[c + 1])
  <2>3. CASE c = 0
    <3>1. made = Moved(i, Along(row))
      BY <2>1, <2>3
    <3>2. QED BY <1>4, <1>5, <1>11, <2>2, <2>3, <3>1 DEF i
  <2>4. CASE c = 1
    <3>1. made = Moved(i, {0})
      BY <2>1, <2>4
    <3>2. QED BY <1>4, <1>5, <1>11, <2>2, <2>4, <3>1 DEF i
  <2>5. CASE c = 2
    <3>1. made = Moved(i, Across(col))
      BY <2>1, <2>5
    <3>2. QED BY <1>4, <1>5, <1>11, <2>2, <2>5, <3>1 DEF i
  <2>6. QED BY <1>8, <2>3, <2>4, <2>5
<1>12. CASE ColPhase(col) = 1 /\ RowPhase(row) = 1
  <2>1. Debayer(row, col) = <<RedOfBlue(row, col), Cross(row, col), {0}>>
    BY <1>3, <1>12 DEF Debayer
  <2>2. ColourAt(row, col) = 2
    BY <1>3, <1>12
  <2> DEFINE made == Moved(i, Debayer(row, col)[c + 1])
  <2>3. CASE c = 0
    <3>1. made = Moved(i, RedOfBlue(row, col))
      BY <2>1, <2>3
    <3>2. QED BY <1>4, <1>5, <1>7, <1>12, <2>2, <2>3, <3>1 DEF i
  <2>4. CASE c = 1
    <3>1. made = Moved(i, Cross(row, col))
      BY <2>1, <2>4
    <3>2. QED BY <1>4, <1>5, <1>12, <2>2, <2>4, <3>1 DEF i
  <2>5. CASE c = 2
    <3>1. made = Moved(i, {0})
      BY <2>1, <2>5
    <3>2. QED BY <1>4, <1>5, <1>12, <2>2, <2>5, <3>1 DEF i
  <2>6. QED BY <1>8, <2>3, <2>4, <2>5
<1>13. QED BY <1>3, <1>9, <1>10, <1>11, <1>12

(* The pixel, the row and the channel of a sample.                         *)
LEMMA SamplePlace ==
    ASSUME w \in Nat \ {0}, h \in Nat \ {0}
    PROVE  /\ \A i \in 0..(Size - 1) : /\ i \div w \in 0..(h - 1) /\ i % w \in 0..(w - 1)
                                       /\ i = (i \div w) * w + (i % w)
           /\ \A i \in 0..(Size - 1), c \in 0..2 :
                /\ (i * 3 + c) \div 3 = i /\ (i * 3 + c) % 3 = c
                /\ Depth = 3 => i * 3 + c \in Samples
           /\ Depth = 3 => \A k \in Samples : k \div 3 \in 0..(Size - 1) /\ k % 3 \in 0..2
           /\ Depth = 1 => Samples = 0..(Size - 1)
<1>1. Size = w * h /\ Size \in Nat
  BY DEF Size
<1>2. ASSUME NEW i \in 0..(Size - 1)
      PROVE  /\ i \div w \in 0..(h - 1) /\ i % w \in 0..(w - 1)
             /\ i = (i \div w) * w + (i % w)
  BY <1>1, PlaceIn
<1>3. ASSUME NEW i \in 0..(Size - 1), NEW c \in 0..2
      PROVE  /\ (i * 3 + c) \div 3 = i /\ (i * 3 + c) % 3 = c
             /\ Depth = 3 => i * 3 + c \in Samples
  BY <1>1 DEF Samples
<1>4. ASSUME Depth = 3, NEW k \in Samples PROVE k \div 3 \in 0..(Size - 1) /\ k % 3 \in 0..2
  BY <1>1, <1>4 DEF Samples
<1>5. Depth = 1 => Samples = 0..(Size - 1)
  BY <1>1 DEF Samples
<1>6. QED BY <1>2, <1>3, <1>4, <1>5

(* What depends on the blob alone stays with it.                           *)
LEMMA SameBlob ==
    ASSUME UNCHANGED blob
    PROVE  /\ w' = w /\ h' = h /\ Size' = Size /\ Depth' = Depth /\ Samples' = Samples
           /\ \A k : Made(k)' = Made(k) /\ Final(k)' = Final(k)
           /\ \A i : Finished(i)' = Finished(i)
<1>1. w' = w /\ h' = h
  BY DEF w, h
<1>2. Size' = Size /\ Depth' = Depth
  BY <1>1 DEF Size, Depth
<1>3. Samples' = Samples
  BY <1>2 DEF Samples
<1>4. \A row, col : /\ Phase(row, col)' = Phase(row, col)
                    /\ Across(col)' = Across(col) /\ Along(row)' = Along(row)
  BY <1>1 DEF Phase, BayerOffsets, Across, Along
<1>5. \A row, col : /\ Cross(row, col)' = Cross(row, col)
                    /\ Diagonal(row, col)' = Diagonal(row, col)
  BY <1>4 DEF Cross, Diagonal
<1>6. \A row, col : /\ BlueOfRed(row, col)' = BlueOfRed(row, col)
                    /\ RedOfBlue(row, col)' = RedOfBlue(row, col)
  BY <1>1, <1>5 DEF BlueOfRed, RedOfBlue
<1>7. \A row, col : Debayer(row, col)' = Debayer(row, col)
  BY <1>4, <1>5, <1>6 DEF Debayer
<1>8. \A k : Made(k)' = Made(k)
  BY <1>1, <1>7 DEF Made
<1>9. \A k : Final(k)' = Final(k)
  BY <1>2, <1>8 DEF Final
<1>10. \A i : Finished(i)' = Finished(i)
  BY <1>2, <1>9 DEF Finished
<1>11. QED BY <1>1, <1>2, <1>3, <1>8, <1>9, <1>10

LEMMA InitPicture == Init => PictureInv
BY DEF Init, PictureInv

(* A stretch starts with its pixels empty and none of its rows covered.    *)
LEMMA StretchStarts ==
    ASSUME UNCHANGED blob, blob \in Blob, w > 0, h > 0, Stretch,
           \A k \in Samples : raw'[k] = Final(k)
    PROVE  PictureInv'
<1>1. at' = "stretch" /\ \E t \in StretchThreads : Launch(t)
  BY DEF Stretch
<1>2. \A row : ~Covered(row)'
  BY <1>1 DEF Launch, Covered
<1>3. DOMAIN pixels' = 0..(Size - 1)
  BY DEF Stretch
<1>4. blob' \in Blob /\ w' > 0 /\ h' > 0
  BY SameBlob
<1>5. /\ \A k \in Samples' : raw'[k] = Final(k)'
      /\ DOMAIN pixels' = 0..(Size' - 1)
  BY <1>3, SameBlob
<1>6. QED BY <1>1, <1>2, <1>4, <1>5 DEF PictureInv

(* When all threads have been collected all rows are covered.              *)
LEMMA AllCovered ==
    ASSUME FileInv, RowsInv, at \in {"debayer", "stretch"}, collected = ranks
    PROVE  \A row \in 0..(h - 1) : Covered(row)
<1>1. RowsShared
  BY SharedByInv
<1>2. 0..(h - 1) \subseteq UNION {wrote[rank] : rank \in 0..(ranks - 1)}
  BY <1>1 DEF RowsShared
<1>3. QED BY <1>2 DEF Covered

(* One row of a thread: the row joins those that are covered, and its      *)
(* samples or pixels are made.                                             *)
LEMMA WorkPicture ==
    ASSUME FileInv, RowsInv, PictureInv, NEW rank \in 0..(ranks - 1), Work(rank)
    PROVE  PictureInv'
<1>1. /\ UNCHANGED <<blob, at, ranks>> /\ at \in {"debayer", "stretch"}
      /\ wrote' = [wrote EXCEPT ![rank] = @ \cup {next[rank]}]
      /\ wrote \in [0..(ranks - 1) -> SUBSET Nat]
  BY DEF Work, RowsInv
<1>2. PICK mine \in Nat : mine = next[rank]
  BY DEF RowsInv
<1>3. ASSUME NEW row,
             (\E p \in 0..(ranks - 1) : row \in wrote[p])'
      PROVE  Covered(row) \/ row = mine
  BY <1>1, <1>2, <1>3 DEF Covered
<1>4. blob \in Blob /\ w > 0 /\ h > 0 /\ w \in Nat /\ h \in Nat
  BY <1>1, HeightIsNat DEF PictureInv
<1>5. blob' \in Blob /\ w' > 0 /\ h' > 0
  BY <1>1, <1>4, SameBlob
<1>6. CASE at = "debayer"
  <2>1. blob.layout \in Mosaics /\ at' = "debayer"
    BY <1>1, <1>6 DEF PictureInv
  <2>2. DebayerRow(mine)
    BY <1>2, <1>6 DEF Work
  <2>3. DOMAIN raw' = Samples
    BY <2>2 DEF DebayerRow
  <2>4. ASSUME NEW k \in Samples
        PROVE  raw'[k] = IF (k \div 3) \div w = mine THEN Made(k) ELSE raw[k]
    BY <2>2 DEF DebayerRow, Made
  <2>5. ASSUME NEW k \in Samples, Covered((k \div 3) \div w)' PROVE raw'[k] = Made(k)
    <3>1. PICK row : row = (k \div 3) \div w
      OBVIOUS
    <3>2. row = ((k \div 3) \div w)'
      BY <1>1, <3>1, SameBlob
    <3>3. (\E p \in 0..(ranks - 1) : row \in wrote[p])'
      BY <2>5, <3>2 DEF Covered
    <3>4. Covered(row) \/ row = mine
      BY <1>3, <3>3
    <3>5. QED BY <1>6, <2>4, <3>1, <3>4 DEF PictureInv
  <2>6. QED
    BY <1>1, <1>5, <2>1, <2>3, <2>5, SameBlob DEF PictureInv
<1>7. CASE at = "stretch"
  <2>1. StretchRow(mine) /\ UNCHANGED raw /\ at' = "stretch"
    BY <1>1, <1>2, <1>7 DEF Work
  <2>2. DOMAIN pixels = 0..(Size - 1) /\ \A k \in Samples : raw[k] = Final(k)
    BY <1>7 DEF PictureInv
  <2>3. DOMAIN pixels' = 0..(Size - 1)
    BY <2>1, <2>2 DEF StretchRow
  <2>4. ASSUME NEW i \in 0..(Size - 1), i \div w = mine PROVE pixels'[i] = Finished(i)
    <3>1. pixels'[i] = [c \in 0..2 |-> raw[IF Depth = 1 THEN i ELSE i * 3 + c]]
      BY <2>1, <2>2, <2>4 DEF StretchRow
    <3>2. ASSUME NEW c \in 0..2
          PROVE  raw[IF Depth = 1 THEN i ELSE i * 3 + c]
                   = Final(IF Depth = 1 THEN i ELSE i * 3 + c)
      <4>1. Depth = 1 \/ Depth = 3
        BY DEF Depth
      <4>2. /\ Depth = 1 => Samples = 0..(Size - 1)
            /\ Depth = 3 => i * 3 + c \in Samples
        <5>1. w \in Nat \ {0} /\ h \in Nat \ {0}
          BY <1>4
        <5>2. Depth = 1 => Samples = 0..(Size - 1)
          BY <5>1, SamplePlace
        <5>3. \A j \in 0..(Size - 1), d \in 0..2 : Depth = 3 => j * 3 + d \in Samples
          BY <5>1, SamplePlace
        <5>4. Depth = 3 => i * 3 + c \in Samples
          BY <5>3
        <5>5. QED BY <5>2, <5>4
      <4>3. CASE Depth = 1
        <5>1. i \in Samples
          BY <4>2, <4>3
        <5>2. raw[i] = Final(i)
          BY <2>2, <5>1
        <5>3. QED BY <4>3, <5>2
      <4>4. CASE Depth = 3
        <5>1. i * 3 + c \in Samples
          BY <4>2, <4>4
        <5>2. raw[i * 3 + c] = Final(i * 3 + c)
          BY <2>2, <5>1
        <5>3. QED BY <4>4, <5>2
      <4>5. QED BY <4>1, <4>3, <4>4
    <3>3. QED BY <3>1, <3>2 DEF Finished
  <2>5. ASSUME NEW i \in 0..(Size - 1), i \div w # mine PROVE pixels'[i] = pixels[i]
    BY <2>1, <2>2, <2>5 DEF StretchRow
  <2>6. ASSUME NEW i \in 0..(Size - 1), Covered(i \div w)' PROVE pixels'[i] = Finished(i)
    <3>1. PICK row : row = i \div w
      OBVIOUS
    <3>2. row = (i \div w)'
      BY <1>1, <3>1, SameBlob
    <3>3. (\E p \in 0..(ranks - 1) : row \in wrote[p])'
      BY <2>6, <3>2 DEF Covered
    <3>4. Covered(row) \/ row = mine
      BY <1>3, <3>3
    <3>5. QED BY <1>7, <2>4, <2>5, <3>1, <3>4 DEF PictureInv
  <2>7. QED
    BY <1>1, <1>5, <2>1, <2>2, <2>3, <2>6, SameBlob DEF PictureInv
<1>8. QED BY <1>1, <1>6, <1>7

LEMMA NextPicture == FileInv /\ RowsInv /\ PictureInv /\ [Next]_vars => PictureInv'
<1> SUFFICES ASSUME FileInv, RowsInv, PictureInv, [Next]_vars PROVE PictureInv'
  OBVIOUS
<1>1. w \in Nat /\ h \in Nat
  BY HeightIsNat
<1>2. CASE at' \in {"idle", "header", "create", "failed"}
  BY <1>2 DEF PictureInv
<1>3. CASE UNCHANGED <<blob, at, raw, pixels, image, ranks, wrote>>
  <2>1. \A row : Covered(row)' <=> Covered(row)
    BY <1>3 DEF Covered
  <2>2. QED BY <1>3, <2>1, SameBlob DEF PictureInv
<1>4. CASE UNCHANGED vars \/ Collect
  BY <1>3, <1>4 DEF vars, loop, Collect
<1>5. CASE \/ CreateRawPreview \/ CreateFitsPreview \/ TakeFits \/ RefuseFits \/ Refuse \/ Return
           \/ \E card \in Card : ReadLine(card)
  BY <1>2, <1>5 DEF CreateRawPreview, CreateFitsPreview, TakeFits, RefuseFits, Refuse, Return,
                    ReadLine
<1>6. ASSUME Accepted PROVE blob \in Blob /\ w > 0 /\ h > 0
  <2>1. w > 0 /\ h > 0
    BY <1>1, <1>6, ImageAssumption DEF Accepted
  <2>2. blob # NoBlob
    BY <2>1 DEF NoBlob, w
  <2>3. QED BY <2>1, <2>2 DEF FileInv
<1>7. CASE CopyRaw
  <2>1. /\ blob \in Blob /\ w > 0 /\ h > 0 /\ blob.layout \notin Mosaics
        /\ Stretch /\ UNCHANGED blob
        /\ raw' = IF blob.layout = "planar" THEN Planes ELSE [k \in Samples |-> {k}]
    BY <1>6, <1>7 DEF CopyRaw
  <2>2. \A k \in Samples : raw'[k] = Final(k)
    BY <2>1 DEF Planes, Final
  <2>3. QED BY <2>1, <2>2, StretchStarts
<1>8. CASE StartDebayer
  <2>1. /\ blob \in Blob /\ w > 0 /\ h > 0 /\ blob.layout \in Mosaics /\ UNCHANGED blob
        /\ DOMAIN raw' = Samples /\ at' = "debayer"
        /\ \E t \in DebayerThreads : Launch(t)
    BY <1>6, <1>8 DEF StartDebayer
  <2>2. \A row : ~Covered(row)'
    BY <2>1 DEF Launch, Covered
  <2>3. QED BY <2>1, <2>2, SameBlob DEF PictureInv
<1>9. CASE \E rank \in 0..(ranks - 1) : Work(rank)
  BY <1>9, WorkPicture
<1>10. CASE Debayered
  <2>1. /\ at = "debayer" /\ collected = ranks /\ Stretch /\ UNCHANGED <<blob, raw>>
    BY <1>10 DEF Debayered
  <2>2. /\ blob \in Blob /\ w > 0 /\ h > 0 /\ blob.layout \in Mosaics
        /\ \A k \in Samples : Covered((k \div 3) \div w) => raw[k] = Made(k)
    BY <2>1 DEF PictureInv
  <2>3. Depth = 3
    BY <2>2 DEF Depth, Mosaics
  <2>4. \A row \in 0..(h - 1) : Covered(row)
    BY <2>1, AllCovered
  <2>5. \A k \in Samples : (k \div 3) \div w \in 0..(h - 1)
    BY <1>1, <2>2, <2>3, SamplePlace
  <2>6. \A k \in Samples : raw'[k] = Final(k)
    BY <2>1, <2>2, <2>4, <2>5 DEF Final
  <2>7. QED BY <2>1, <2>2, <2>6, StretchStarts
<1>11. CASE Stretched
  <2>1. at = "stretch" /\ collected = ranks /\ image' = pixels /\ at' = "shown" /\ UNCHANGED blob
    BY <1>11 DEF Stretched
  <2>2. /\ blob \in Blob /\ w > 0 /\ h > 0 /\ DOMAIN pixels = 0..(Size - 1)
        /\ \A i \in 0..(Size - 1) : Covered(i \div w) => pixels[i] = Finished(i)
    BY <2>1 DEF PictureInv
  <2>3. \A row \in 0..(h - 1) : Covered(row)
    BY <2>1, AllCovered
  <2>4. \A i \in 0..(Size - 1) : i \div w \in 0..(h - 1)
    BY <1>1, <2>2, SamplePlace
  <2>5. \A i \in 0..(Size - 1) : image'[i] = Finished(i)
    BY <2>1, <2>2, <2>3, <2>4
  <2>6. QED BY <2>1, <2>2, <2>5, SameBlob DEF PictureInv
<1>12. QED
  BY <1>4, <1>5, <1>7, <1>8, <1>9, <1>10, <1>11 DEF Next

(* A finished preview has every pixel, each colour of it from the samples  *)
(* of that colour nearest to it, whatever the size, the pattern and the    *)
(* number of threads, and in whatever order these get on.                  *)
THEOREM PreviewsShowTheirBlob == Spec => []PreviewShowsBlob
<1>1. FileInv /\ PictureInv => PreviewShowsBlob
  <2> SUFFICES ASSUME FileInv, PictureInv, at = "shown"
               PROVE  /\ DOMAIN image = 0..(Size - 1)
                      /\ \A i \in DOMAIN image, c \in 0..2 :
                           LET row == i \div w  col == i % w IN
                           CASE blob.layout = "Y"      -> image[i][c] = {i}
                             [] blob.layout = "RGB"    -> image[i][c] = {3 * i + c}
                             [] blob.layout = "planar" -> image[i][c] = {i + c * Size}
                             [] OTHER -> Regular(row, col) =>
                                  /\ image[i][c] # {} /\ image[i][c] \subseteq Nearest(row, col, c)
                                  /\ col # 0 => image[i][c] = Nearest(row, col, c)
    BY DEF PreviewShowsBlob
  <2>1. /\ blob \in Blob /\ w \in Nat \ {0} /\ h \in Nat \ {0}
        /\ DOMAIN image = 0..(Size - 1) /\ \A i \in 0..(Size - 1) : image[i] = Finished(i)
    BY HeightIsNat DEF PictureInv
  <2>2. blob.layout \in Layouts
    BY <2>1 DEF Blob
  <2>3. SUFFICES ASSUME NEW i \in 0..(Size - 1), NEW c \in 0..2
                 PROVE  LET row == i \div w  col == i % w IN
                        CASE blob.layout = "Y"      -> image[i][c] = {i}
                          [] blob.layout = "RGB"    -> image[i][c] = {3 * i + c}
                          [] blob.layout = "planar" -> image[i][c] = {i + c * Size}
                          [] OTHER -> Regular(row, col) =>
                               /\ image[i][c] # {} /\ image[i][c] \subseteq Nearest(row, col, c)
                               /\ col # 0 => image[i][c] = Nearest(row, col, c)
    BY <2>1
  <2>4. image[i][c] = Final(IF Depth = 1 THEN i ELSE i * 3 + c)
    BY <2>1 DEF Finished
  <2>5. /\ i \div w \in 0..(h - 1) /\ i % w \in 0..(w - 1)
        /\ i = (i \div w) * w + (i % w)
        /\ (i * 3 + c) \div 3 = i /\ (i * 3 + c) % 3 = c
    BY <2>1, SamplePlace
  <2>6. CASE blob.layout = "Y"
    <3>1. image[i][c] = {i}
      BY <2>4, <2>6 DEF Depth, Final, Mosaics
    <3>2. QED BY <2>6, <3>1
  <2>7. CASE blob.layout = "RGB"
    <3>1. image[i][c] = {i * 3 + c}
      BY <2>4, <2>7 DEF Depth, Final, Mosaics
    <3>2. i * 3 + c = 3 * i + c
      OBVIOUS
    <3>3. QED BY <2>7, <3>1, <3>2
  <2>8. CASE blob.layout = "planar"
    <3>1. image[i][c] = {i + c * Size}
      BY <2>4, <2>5, <2>8 DEF Depth, Final, Mosaics
    <3>2. QED BY <2>8, <3>1
  <2>9. CASE blob.layout \in Mosaics
    <3> DEFINE row == i \div w
               col == i % w
    <3>1. image[i][c] = Made(i * 3 + c)
      BY <2>4, <2>9 DEF Depth, Final, Mosaics
    <3>2. Made(i * 3 + c) = Moved(i, Debayer(row, col)[c + 1])
      BY <2>5 DEF Made, Moved
    <3>3. row \in 0..(h - 1) /\ col \in 0..(w - 1) /\ i = row * w + col
      BY <2>5
    <3> HIDE DEF row, col
    <3>4. Regular(row, col) =>
            /\ image[i][c] # {} /\ image[i][c] \subseteq Nearest(row, col, c)
            /\ col # 0 => image[i][c] = Nearest(row, col, c)
      BY <2>1, <2>9, <3>1, <3>2, <3>3, PixelNearest
    <3>5. blob.layout \notin {"Y", "RGB", "planar"}
      BY <2>9 DEF Mosaics
    <3>6. QED BY <3>4, <3>5 DEF row, col
  <2>10. QED BY <2>2, <2>6, <2>7, <2>8, <2>9 DEF Layouts
<1>2. QED
  BY <1>1, InitFile, NextFile, InitRows, NextRows, InitPicture, NextPicture, PTL DEF Spec

=============================================================================
