--------------------------- MODULE Handlers_proofs ---------------------------
(***************************************************************************)
(* Theorems about the small handlers: QrPng, MacAddress, ClientList and    *)
(* Channels, for pictures, texts and lists of every size, and about the    *)
(* run of them all that MCHandlers composes with ConfigForm.               *)
(***************************************************************************)
EXTENDS MCHandlers, ConfigForm_proofs

(* The picture.                                                            *)
(* The modules of line y that have been drawn: all pixels before the next. *)
Drawn(m) == {c \in 40 .. 40 + m - 1 : data[y * Width + (c - 40) \div 8]}

(* What each loop relies on: the pointers, the counters and the number of  *)
(* rows written are functions of each other.                               *)
AtTop    == at \in {"encode", "top"} => y < 40 /\ picture = y /\ p = 0 /\ yy = 0
AtLine   == at = "line" => y < Width /\ picture = 40 + 8 * y /\ p = y * Width /\ yy = 0
AtBits   == at = "bits" =>
              /\ y < Width /\ picture = 40 + 8 * y /\ yy = 0
              /\ x < Width /\ p = y * Width + x
              /\ 8 * q + 7 - bit = 40 + 8 * x + xx
              /\ row = Drawn(8 * x + xx)
AtRows   == at = "rows" =>
              /\ y < Width /\ picture = 40 + 8 * y + yy
              /\ p = (y + 1) * Width
              /\ row = Drawn(8 * Width)
AtBottom == at = "bottom" =>
              y < 40 /\ picture = 40 + 8 * Width + y /\ row = {}
AtDone   == at = "done" => picture = 80 + 8 * Width /\ row = {}

PictureInv == QrTypeOK /\ AtTop /\ AtLine /\ AtBits /\ AtRows /\ AtBottom /\ AtDone

(* A line lies inside the matrix.                                          *)
LEMMA LineInMatrix ==
    ASSUME NEW w \in Nat, NEW j \in Nat, j < w
    PROVE  j * w \in Nat /\ w * w \in Nat /\ j * w + w =< w * w
<1>1. PICK k \in Nat : w = j + 1 + k
  <2>1. w - j - 1 \in Nat /\ w = j + 1 + (w - j - 1)
    OBVIOUS
  <2> QED BY <2>1
<1>2. j * w \in Nat /\ w * w \in Nat /\ k * w \in Nat
  BY SMT
<1>3. w * w = (j + 1 + k) * w
  BY <1>1
<1>4. (j + 1 + k) * w = j * w + w + k * w
  BY SMT
<1> QED BY <1>2, <1>3, <1>4

LEMMA NextLine ==
    ASSUME NEW w \in Nat, NEW j \in Nat
    PROVE  (j + 1) * w = j * w + w
BY SMT

(* The pointer is at one pixel of one module: byte and bit are recovered   *)
(* from the pixel, and so is the module.                                   *)
LEMMA OnePixel ==
    ASSUME NEW k \in Nat, NEW j \in 0 .. 7
    PROVE  (40 + 8 * k + j - 40) \div 8 = k
BY SMT

LEMMA InitPicture == QrInit => PictureInv
<1> SUFFICES ASSUME QrInit PROVE PictureInv
  OBVIOUS
<1>1. Width * Width \in Nat
  BY WidthAssumption, SMT
<1>2. QrTypeOK
  BY WidthAssumption, <1>1 DEF QrInit, QrTypeOK, Matrix, Loop, size, AllWhite
<1> QED BY <1>2 DEF QrInit, PictureInv, AtTop, AtLine, AtBits, AtRows, AtBottom, AtDone

LEMMA EncodeKeeps == PictureInv /\ Encode => PictureInv'
<1> SUFFICES ASSUME PictureInv, Encode PROVE PictureInv'
  OBVIOUS
<1> USE DEF PictureInv
<1>1. QrTypeOK'
  BY DEF Encode, QrTypeOK, Loop
<1>2. AtTop'
  BY DEF Encode, AtTop
<1>3. at' = "top"
  BY DEF Encode
<1> QED BY <1>1, <1>2, <1>3 DEF AtLine, AtBits, AtRows, AtBottom, AtDone

LEMMA TopKeeps == PictureInv /\ WriteTop => PictureInv'
<1> SUFFICES ASSUME PictureInv, WriteTop PROVE PictureInv'
  OBVIOUS
<1> USE DEF PictureInv
<1>1. at = "top" /\ picture' = picture + 1 /\ UNCHANGED <<data, x, xx, yy, q, bit, p, row>>
  BY DEF WriteTop, WriteMargin
<1>2. y < 40 /\ picture = y /\ p = 0 /\ yy = 0 /\ y \in Nat
  BY <1>1 DEF AtTop, QrTypeOK
<1>3. \/ y + 1 < 40 /\ y' = y + 1 /\ at' = "top"
      \/ y + 1 = 40 /\ y' = 0 /\ at' = "line"
  BY <1>1, <1>2 DEF WriteTop, WriteMargin, margin, size
<1>4. QrTypeOK'
  BY <1>1, <1>3 DEF QrTypeOK, Loop
<1>5. AtTop' /\ AtLine'
  BY <1>1, <1>2, <1>3, WidthAssumption DEF AtTop, AtLine
<1> QED BY <1>3, <1>4, <1>5 DEF AtBits, AtRows, AtBottom, AtDone

LEMMA BottomKeeps == PictureInv /\ WriteBottom => PictureInv'
<1> SUFFICES ASSUME PictureInv, WriteBottom PROVE PictureInv'
  OBVIOUS
<1> USE DEF PictureInv
<1>1. at = "bottom" /\ picture' = picture + 1 /\ UNCHANGED <<data, x, xx, yy, q, bit, p, row>>
  BY DEF WriteBottom, WriteMargin
<1>2. y < 40 /\ picture = 40 + 8 * Width + y /\ row = {} /\ y \in Nat
  BY <1>1 DEF AtBottom, QrTypeOK
<1>3. \/ y + 1 < 40 /\ y' = y + 1 /\ at' = "bottom"
      \/ y + 1 = 40 /\ y' = 0 /\ at' = "done"
  BY <1>1, <1>2 DEF WriteBottom, WriteMargin, margin, size
<1>4. QrTypeOK'
  BY <1>1, <1>3 DEF QrTypeOK, Loop
<1>5. AtBottom' /\ AtDone'
  BY <1>1, <1>2, <1>3, WidthAssumption DEF AtBottom, AtDone
<1> QED BY <1>3, <1>4, <1>5 DEF AtBits, AtRows, AtTop, AtLine

LEMMA StartRowKeeps == PictureInv /\ StartRow => PictureInv'
<1> SUFFICES ASSUME PictureInv, StartRow PROVE PictureInv'
  OBVIOUS
<1> USE DEF PictureInv
<1>1. at = "line" /\ at' = "bits" /\ row' = {} /\ x' = 0 /\ xx' = 0
      /\ q' = 5 /\ bit' = 7 /\ UNCHANGED <<data, y, yy, p, picture>>
  BY DEF StartRow, AllWhite, margin, size
<1>2. QrTypeOK'
  BY <1>1, WidthAssumption DEF QrTypeOK, Loop, size
<1>3. Drawn(0)' = {}
  <2>1. 40 .. 40 + 0 - 1 = {}
    OBVIOUS
  <2> QED BY <2>1 DEF Drawn
<1>4. p = y * Width /\ y * Width \in Nat
  BY <1>1, WidthAssumption, SMT DEF AtLine, QrTypeOK
<1>5. AtBits'
  BY <1>1, <1>3, <1>4, WidthAssumption DEF AtBits, AtLine, QrTypeOK
<1> QED BY <1>1, <1>2, <1>5 DEF AtTop, AtLine, AtRows, AtBottom, AtDone

LEMMA RowKeeps == PictureInv /\ WriteRow => PictureInv'
<1> SUFFICES ASSUME PictureInv, WriteRow PROVE PictureInv'
  OBVIOUS
<1> USE DEF PictureInv
<1>1. at = "rows" /\ picture' = picture + 1 /\ UNCHANGED <<data, x, xx, q, bit, p>>
  BY DEF WriteRow
<1>2. /\ y < Width /\ picture = 40 + 8 * y + yy /\ p = (y + 1) * Width
      /\ row = Drawn(8 * Width)
      /\ y \in Nat /\ yy \in 0 .. 7
  BY <1>1 DEF AtRows, QrTypeOK, size
<1>3. CASE yy + 1 < 8
  <2>1. yy' = yy + 1 /\ UNCHANGED <<y, at, row>>
    BY <1>3 DEF WriteRow, size
  <2>2. QrTypeOK'
    BY <1>1, <1>2, <1>3, <2>1 DEF QrTypeOK, size
  <2>3. Drawn(8 * Width)' = Drawn(8 * Width)
    BY <1>1, <2>1 DEF Drawn
  <2>4. AtRows'
    BY <1>1, <1>2, <2>1, <2>3 DEF AtRows
  <2> QED BY <1>1, <2>1, <2>2, <2>4 DEF AtTop, AtLine, AtBits, AtBottom, AtDone
<1>4. CASE ~(yy + 1 < 8) /\ y + 1 < Width
  <2>1. yy = 7 /\ yy' = 0 /\ y' = y + 1 /\ at' = "line" /\ row' = row
    BY <1>2, <1>4 DEF WriteRow, size
  <2>2. QrTypeOK'
    BY <1>1, <1>2, <2>1 DEF QrTypeOK, size, Loop
  <2>3. AtLine'
    BY <1>1, <1>2, <1>4, <2>1 DEF AtLine
  <2> QED BY <2>1, <2>2, <2>3 DEF AtTop, AtRows, AtBits, AtBottom, AtDone
<1>5. CASE ~(yy + 1 < 8) /\ ~(y + 1 < Width)
  <2>1. yy = 7 /\ yy' = 0 /\ y' = 0 /\ at' = "bottom" /\ row' = {}
    BY <1>2, <1>5 DEF WriteRow, size, AllWhite
  <2>2. QrTypeOK'
    BY <1>1, <1>2, <2>1 DEF QrTypeOK, size, Loop
  <2>3. Width = y + 1
    BY <1>2, <1>5, WidthAssumption
  <2>4. AtBottom'
    BY <1>1, <1>2, <2>1, <2>3 DEF AtBottom
  <2> QED BY <2>1, <2>2, <2>4 DEF AtTop, AtRows, AtBits, AtLine, AtDone
<1> QED BY <1>3, <1>4, <1>5

(* The pixel a step flips, and the white part of the line behind it.       *)
LEMMA WriteBitKeeps == PictureInv /\ WriteBit => PictureInv'
<1> SUFFICES ASSUME PictureInv, WriteBit PROVE PictureInv'
  OBVIOUS
<1> USE DEF PictureInv
<1> DEFINE drawn == 8 * x + xx
<1>1. /\ at = "bits" /\ UNCHANGED <<data, y, yy, picture>>
      /\ row' = IF data[p] THEN Flip(row, Pixel(q, bit)) ELSE row
  BY DEF WriteBit
<1>2. /\ y < Width /\ picture = 40 + 8 * y /\ yy = 0
      /\ x < Width /\ p = y * Width + x
      /\ 8 * q + 7 - bit = 40 + drawn
      /\ row = Drawn(drawn)
      /\ Width \in Nat /\ y \in Nat /\ x \in Nat /\ xx \in 0 .. 7
      /\ q \in Nat /\ bit \in 0 .. 7 /\ p \in Nat
  BY <1>1, WidthAssumption DEF AtBits, QrTypeOK, size
<1>3. y * Width \in Nat /\ Width * Width \in Nat /\ y * Width + Width =< Width * Width
  BY <1>2, LineInMatrix
<1>4. drawn \in Nat /\ Pixel(q, bit) = 40 + drawn
  BY <1>2 DEF Pixel
<1>5. (40 + drawn - 40) \div 8 = x
  BY <1>2, OnePixel
<1>6. row' = {c \in 40 .. 40 + drawn : data[y * Width + (c - 40) \div 8]}
  <2>1. 40 .. 40 + drawn = (40 .. 40 + drawn - 1) \cup {40 + drawn}
    BY <1>4
  <2>2. 40 + drawn \notin row
    BY <1>2, <1>4 DEF Drawn
  <2>3. Flip(row, Pixel(q, bit)) = row \cup {40 + drawn}
    BY <1>4, <2>2 DEF Flip
  <2>4. data[y * Width + (40 + drawn - 40) \div 8] = data[p]
    BY <1>2, <1>5
  <2>5. CASE data[p]
    BY <1>1, <1>2, <2>1, <2>3, <2>4, <2>5 DEF Drawn
  <2>6. CASE ~data[p]
    BY <1>1, <1>2, <2>1, <2>4, <2>6 DEF Drawn
  <2> QED BY <2>5, <2>6
<1>7. row' \subseteq Nat
  BY <1>4, <1>6
<1>8. \A m : m = drawn + 1 => Drawn(m)' = row'
  <2>1. 40 .. 40 + (drawn + 1) - 1 = 40 .. 40 + drawn
    BY <1>4
  <2>2. ASSUME NEW m, m = drawn + 1 PROVE Drawn(m)' = row'
    <3>1. Drawn(m)' = {c \in 40 .. 40 + m - 1 : data'[y' * Width + (c - 40) \div 8]}
      BY DEF Drawn
    <3> QED BY <1>1, <1>6, <2>1, <2>2, <3>1
  <2> QED BY <2>2
<1>9. q' \in Nat /\ bit' \in 0 .. 7 /\ 8 * q' + 7 - bit' = 40 + (drawn + 1)
  <2>1. CASE bit - 1 < 0
    BY <1>2, <1>4, <2>1 DEF WriteBit, Forward
  <2>2. CASE ~(bit - 1 < 0)
    BY <1>2, <1>4, <2>2 DEF WriteBit, Forward
  <2> QED BY <2>1, <2>2
<1>10. CASE xx + 1 < 8
  <2>1. xx' = xx + 1 /\ UNCHANGED <<x, p, at>>
    BY <1>10 DEF WriteBit, size
  <2>2. QrTypeOK'
    BY <1>1, <1>2, <1>7, <1>9, <1>10, <2>1 DEF QrTypeOK, size
  <2>3. 8 * x' + xx' = drawn + 1
    BY <1>2, <2>1
  <2>4. row' = Drawn(8 * x + xx)'
    BY <1>8, <2>3
  <2>5. AtBits'
    <3>1. y' < Width /\ picture' = 40 + 8 * y' /\ yy' = 0
      BY <1>1, <1>2
    <3>2. x' < Width /\ p' = y' * Width + x'
      BY <1>1, <1>2, <2>1
    <3>3. 8 * q' + 7 - bit' = 40 + 8 * x' + xx'
      <4>1. x' \in Nat /\ xx' \in Nat /\ q' \in Nat /\ bit' \in 0 .. 7
        BY <1>2, <1>9, <2>1
      <4>2. 8 * q' + 7 - bit' = 40 + (8 * x' + xx')
        BY <1>9, <2>3
      <4> QED BY <4>1, <4>2
    <3> QED BY <2>4, <3>1, <3>2, <3>3 DEF AtBits
  <2> QED BY <1>1, <2>1, <2>2, <2>5 DEF AtTop, AtRows, AtBottom, AtLine, AtDone
<1>11. CASE ~(xx + 1 < 8) /\ x + 1 < Width
  <2>1. xx = 7 /\ xx' = 0 /\ x' = x + 1 /\ p' = p + 1 /\ at' = "bits"
    BY <1>2, <1>11 DEF WriteBit, NextModule, size
  <2>2. QrTypeOK'
    <3>1. p' \in 0 .. Width * Width
      BY <1>2, <1>3, <1>11, <2>1
    <3> QED BY <1>1, <1>2, <1>7, <1>9, <1>11, <2>1, <3>1 DEF QrTypeOK, size, Loop
  <2>3. 8 * x' + xx' = drawn + 1
    BY <1>2, <2>1
  <2>4. row' = Drawn(8 * x + xx)'
    BY <1>8, <2>3
  <2>5. p' = y' * Width + x'
    BY <1>1, <1>2, <1>3, <2>1
  <2>6. AtBits'
    <3>1. y' < Width /\ picture' = 40 + 8 * y' /\ yy' = 0 /\ x' < Width
      BY <1>1, <1>2, <1>11, <2>1
    <3>2. 8 * q' + 7 - bit' = 40 + 8 * x' + xx'
      <4>1. x' \in Nat /\ xx' \in Nat /\ q' \in Nat /\ bit' \in 0 .. 7
        BY <1>2, <1>9, <2>1
      <4>2. 8 * q' + 7 - bit' = 40 + (8 * x' + xx')
        BY <1>9, <2>3
      <4> QED BY <4>1, <4>2
    <3> QED BY <2>4, <2>5, <3>1, <3>2 DEF AtBits
  <2> QED BY <1>1, <2>1, <2>2, <2>6 DEF AtTop, AtRows, AtBottom, AtLine, AtDone
<1>12. CASE ~(xx + 1 < 8) /\ ~(x + 1 < Width)
  <2>1. /\ xx = 7 /\ xx' = 0 /\ x' = x + 1 /\ p' = p + 1 /\ at' = "rows"
        /\ x' = Width /\ drawn + 1 = 8 * Width
    BY <1>2, <1>12 DEF WriteBit, NextModule, size
  <2>2. p' = y * Width + Width
    BY <1>2, <1>3, <2>1
  <2>3. QrTypeOK'
    <3>1. p' \in 0 .. Width * Width
      BY <1>2, <1>3, <2>2
    <3> QED BY <1>1, <1>2, <1>7, <1>9, <2>1, <3>1 DEF QrTypeOK, size, Loop
  <2>4. row' = Drawn(8 * Width)'
    BY <1>8, <2>1
  <2>5. p' = (y' + 1) * Width
    <3>1. (y + 1) * Width = y * Width + Width
      BY <1>2, NextLine
    <3> QED BY <1>1, <2>2, <3>1
  <2>6. AtRows'
    BY <1>1, <1>2, <2>1, <2>4, <2>5 DEF AtRows
  <2> QED BY <2>1, <2>3, <2>6 DEF AtTop, AtBits, AtBottom, AtLine, AtDone
<1> QED BY <1>10, <1>11, <1>12

(* Every step keeps the loops' invariants.                                 *)
LEMMA StepPicture == PictureInv /\ [QrNext]_qrVars => PictureInv'
<1>1. ASSUME PictureInv, UNCHANGED qrVars PROVE PictureInv'
  BY <1>1 DEF PictureInv, qrVars, QrTypeOK, AtTop, AtLine, AtBits, AtRows, AtBottom,
              AtDone, Drawn
<1> QED BY <1>1, EncodeKeeps, TopKeeps, BottomKeeps, StartRowKeeps, RowKeeps,
           WriteBitKeeps DEF QrNext

(* The loops of writePNG keep their pointers, counters and row buffer in   *)
(* step with each other, for a matrix of any width (qrgen.cpp:158-199).    *)
THEOREM PictureInvariant == QrSpec => []PictureInv
<1>1. PictureInv /\ [QrNext]_qrVars => PictureInv'
  BY StepPicture
<1> QED BY <1>1, InitPicture, PTL DEF QrSpec

(* No pixel is written outside the row buffer, and each is the one its     *)
(* counters say, for a matrix of any width (qrgen.cpp:165-186).            *)
THEOREM PixelsInRow == QrSpec => []WritesInRow
<1>1. PictureInv => WritesInRow
  <2> SUFFICES ASSUME PictureInv, at = "bits" PROVE WritesInRow
    BY DEF WritesInRow
  <2>1. /\ 8 * q + 7 - bit = 40 + 8 * x + xx /\ x < Width
        /\ x \in Nat /\ xx \in 0 .. 7 /\ q \in Nat /\ bit \in 0 .. 7 /\ Width \in Nat
    BY WidthAssumption DEF PictureInv, AtBits, QrTypeOK, size
  <2>2. RowBytes = Width + 10
    BY <2>1 DEF RowBytes, realwidth, margin, size
  <2>3. q < Width + 10
    BY <2>1
  <2> QED BY <2>1, <2>2, <2>3 DEF WritesInRow, Pixel, margin, size
<1> QED BY <1>1, PictureInvariant, PTL

(* Each line of pixels is the line of modules it stands for, whatever the  *)
(* matrix: what is scanned is what was encoded (qrgen.cpp:163-191).        *)
THEOREM LinesShowModules == QrSpec => []RowShowsModules
<1>1. PictureInv => RowShowsModules
  <2> SUFFICES ASSUME PictureInv, at = "rows" PROVE RowShowsModules
    BY DEF RowShowsModules
  <2>1. row = Drawn(8 * Width) /\ Width \in Nat
    BY WidthAssumption DEF PictureInv, AtRows
  <2> QED BY <2>1 DEF RowShowsModules, Drawn, margin, size
<1> QED BY <1>1, PictureInvariant, PTL

(* The file holds as many rows as its header announced (qrgen.cpp:138-199).*)
THEOREM PictureIsComplete == QrSpec => []PictureComplete
<1>1. PictureInv => PictureComplete
  BY WidthAssumption DEF PictureInv, AtDone, PictureComplete, realwidth, margin, size, AllWhite
<1> QED BY <1>1, PictureInvariant, PTL

-----------------------------------------------------------------------------
(* The address.                                                            *)
(* While the pattern matches, the counters are where its place says: after *)
(* each group of three characters one separator and two more digits.       *)
InStep == place \in 0 .. 17 =>
            /\ broken = FALSE
            /\ s = place \div 3
            /\ i = place - place \div 3

(* No more is counted than was read.                                       *)
Counted == i =< len /\ s =< len

MacInv == MacTypeOK /\ Counted /\ InStep

LEMMA InitMac == MacInit => MacInv
<1>1. 0 \div 3 = 0
  BY SMT
<1>2. MacInit => MacTypeOK /\ Counted
  <2>1. 0 \in 0 .. MaxLen /\ 0 \in -1 .. MaxLen /\ 0 \in -1 .. 17 /\ 0 =< 0
    BY MaxLenAssumption
  <2> QED BY <2>1, Zenon DEF MacInit, MacTypeOK, Counted
<1>3. MacInit => InStep
  BY <1>1 DEF MacInit, InStep
<1> QED BY <1>2, <1>3 DEF MacInv

(* A character that fits the pattern is counted as the pattern needs.      *)
LEMMA FittingChar ==
    \A c \in CharClass :
      MacInv /\ place \in 0 .. 16 /\ c = (IF place % 3 = 2 THEN "colon" ELSE "hex") /\ Count(c)
        => /\ broken' = FALSE
           /\ s' = (place + 1) \div 3
           /\ i' = place + 1 - (place + 1) \div 3
<1> SUFFICES ASSUME MacInv, place \in 0 .. 16, NEW c \in CharClass,
                    c = (IF place % 3 = 2 THEN "colon" ELSE "hex"), Count(c)
             PROVE  /\ broken' = FALSE
                    /\ s' = (place + 1) \div 3
                    /\ i' = place + 1 - (place + 1) \div 3
  OBVIOUS
<1>1. broken = FALSE /\ s = place \div 3 /\ i = place - place \div 3 /\ place \in 0 .. 16
  BY DEF MacInv, InStep
<1>2. CASE place % 3 = 2
  <2>1. c = "colon"
    BY <1>2
  <2>2. CountSeparator
    BY <1>1, <2>1 DEF Count
  <2>3. /\ (place + 1) \div 3 = place \div 3 + 1
        /\ i = 2 * (place \div 3) + 2
    BY <1>1, <1>2, SMT
  <2>4. i # 0 /\ i \div 2 - 1 = place \div 3
    BY <1>1, <2>3, SMT
  <2>5. s' = s + 1 /\ UNCHANGED <<i, broken>>
    BY <1>1, <2>2, <2>4 DEF CountSeparator, Pairs
  <2> QED BY <1>1, <2>3, <2>5, SMT
<1>3. CASE place % 3 # 2
  <2>1. i' = i + 1 /\ UNCHANGED <<s, broken>>
    BY <1>1, <1>3 DEF Count
  <2>2. (place + 1) \div 3 = place \div 3
    BY <1>1, <1>3, SMT
  <2> QED BY <1>1, <2>1, <2>2, SMT
<1> QED BY <1>2, <1>3

(* Both readers take one more character, and stay in step.                 *)
LEMMA ReadCharKeeps == MacInv /\ ReadChar => MacInv'
<1> SUFFICES ASSUME MacInv, ReadChar PROVE MacInv'
  OBVIOUS
<1>1. PICK c \in CharClass : Count(c) /\ Match(c)
  BY DEF ReadChar
<1>2. /\ len \in 0 .. MaxLen /\ len' = len + 1 /\ len < MaxLen
      /\ place \in -1 .. 17 /\ MaxLen \in Nat
  BY MaxLenAssumption DEF MacInv, MacTypeOK, ReadChar
<1>3. place' \in -1 .. 17
  BY <1>1, <1>2 DEF Match
<1>4. ASSUME place' \in 0 .. 17 PROVE /\ broken' = FALSE
                                      /\ s' = place' \div 3
                                      /\ i' = place' - place' \div 3
  <2>1. /\ place \in 0 .. 16 /\ place' = place + 1
        /\ c = (IF place % 3 = 2 THEN "colon" ELSE "hex")
    BY <1>1, <1>2, <1>4 DEF Match
  <2>2. /\ broken' = FALSE
        /\ s' = (place + 1) \div 3
        /\ i' = place + 1 - (place + 1) \div 3
    BY <1>1, <2>1, FittingChar, Zenon
  <2>3. broken' = FALSE
    BY <2>2
  <2>4. place + 1 = place'
    BY <2>1
  <2>5. s' = place' \div 3
    <3>1. s' = (place + 1) \div 3
      BY <2>2
    <3> QED BY <2>1, <3>1
  <2>6. i' = place' - place' \div 3
    <3>1. i' = place + 1 - (place + 1) \div 3
      BY <2>2
    <3> QED BY <2>1, <3>1
  <2> QED BY <2>3, <2>5, <2>6
<1>5. /\ i' \in 0 .. MaxLen /\ s' \in -1 .. MaxLen /\ broken' \in BOOLEAN
      /\ i' =< len' /\ s' =< len'
  <2>1. /\ i \in 0 .. MaxLen /\ s \in -1 .. MaxLen /\ broken \in BOOLEAN
        /\ i =< len /\ s =< len
    BY DEF MacInv, MacTypeOK, Counted
  <2>2. CASE UNCHANGED <<i, s, broken>>
    BY <1>2, <2>1, <2>2
  <2>3. CASE i' = i + 1 /\ UNCHANGED <<s, broken>>
    BY <1>2, <2>1, <2>3
  <2>4. CASE CountSeparator
    <3>1. CASE broken' = TRUE /\ UNCHANGED <<i, s>>
      BY <1>2, <2>1, <3>1
    <3>2. CASE s' = s + 1 /\ UNCHANGED <<i, broken>>
      BY <1>2, <2>1, <3>2
    <3> QED BY <2>4, <3>1, <3>2 DEF CountSeparator
  <2>5. CASE s' = -1 /\ UNCHANGED <<i, broken>>
    BY <1>2, <2>1, <2>5
  <2>6. broken = TRUE \/ broken = FALSE
    BY <2>1
  <2> QED BY <1>1, <2>2, <2>3, <2>4, <2>5, <2>6 DEF Count, CharClass
<1>6. MacTypeOK' /\ Counted'
  BY <1>2, <1>3, <1>5 DEF MacTypeOK, Counted
<1>7. InStep'
  BY <1>4 DEF InStep
<1> QED BY <1>6, <1>7 DEF MacInv

LEMMA MacInvariant == MacSpec => []MacInv
<1>1. MacInv /\ [ReadChar]_macVars => MacInv'
  <2>1. ASSUME MacInv, UNCHANGED macVars PROVE MacInv'
    BY <2>1 DEF MacInv, MacTypeOK, Counted, InStep, macVars
  <2> QED BY <2>1, ReadCharKeeps
<1> QED BY <1>1, InitMac, PTL DEF MacSpec

(* An address that create_ap takes is never refused by the window, however *)
(* long a text it is looked for in (util.c:66-94, create_ap:386-388).      *)
THEOREM MacsOfScriptPass == MacSpec => []MacAccepted
<1>1. MacInv => MacAccepted
  <2> SUFFICES ASSUME MacInv, place = 17 PROVE i = 12 /\ s = 5
    BY DEF MacAccepted, is_macaddr, isValidMacAddress
  <2>1. 17 \div 3 = 5
    BY SMT
  <2> QED BY <2>1 DEF MacInv, InStep
<1> QED BY <1>1, MacInvariant, PTL

-----------------------------------------------------------------------------
(* The channels.                                                           *)

(* Every carrier lies in one band, and there in the range of one formula.  *)
LEMMA CarrierRange ==
  ASSUME NEW f, NEW k, <<f, k>> \in Standard \cup SixGHz \cup SixtyGHz
  PROVE  /\ f \in Nat /\ k \in 0 .. 233
         /\ \/ f = 2407 + 5 * k /\ k \in 1 .. 13
            \/ f = 2484 /\ k = 14
            \/ f = 4000 + 5 * k /\ k \in 183 .. 196
            \/ f = 5000 + 5 * k /\ k \in 36 .. 177
            \/ f = 5935 /\ k = 2
            \/ f = 5950 + 5 * k /\ k \in 1 .. 233
            \/ f = 56160 + 2160 * k /\ k \in 1 .. 6
<1>1. CASE <<f, k>> \in Standard
  BY <1>1 DEF Standard
<1>2. CASE <<f, k>> \in SixGHz
  <2>1. CASE f = 5935 /\ k = 2
    BY <2>1
  <2>2. CASE \E m \in 0 .. 58 : k = 1 + 4 * m /\ f = 5950 + 5 * k
    BY <2>2
  <2> QED BY <1>2, <2>1, <2>2 DEF SixGHz
<1>3. CASE <<f, k>> \in SixtyGHz
  BY <1>3 DEF SixtyGHz
<1> QED BY <1>1, <1>2, <1>3

LEMMA ConversionOfCarrier ==
  ASSUME NEW f, NEW k, <<f, k>> \in Standard \cup SixGHz \cup SixtyGHz
  PROVE  ieee80211_frequency_to_channel(f) = k
<1>0. f \in Nat /\ k \in Nat
  BY CarrierRange
<1>1. CASE f = 2407 + 5 * k /\ k \in 1 .. 13
  <2>1. f \in 2412 .. 2472
    BY <1>1
  <2>2. ieee80211_frequency_to_channel(f) = (f - 2407) \div 5
    BY <2>1 DEF ieee80211_frequency_to_channel
  <2> QED BY <1>1, <2>2
<1>2. CASE f = 2484 /\ k = 14
  BY <1>2 DEF ieee80211_frequency_to_channel
<1>3. CASE f = 4000 + 5 * k /\ k \in 183 .. 196
  <2>1. f \in 4915 .. 4980
    BY <1>3
  <2>2. ieee80211_frequency_to_channel(f) = (f - 4000) \div 5
    BY <2>1 DEF ieee80211_frequency_to_channel
  <2> QED BY <1>3, <2>2
<1>4. CASE f = 5000 + 5 * k /\ k \in 36 .. 177
  <2>1. f \in 5180 .. 5885
    BY <1>4
  <2>2. ieee80211_frequency_to_channel(f) = (f - 5000) \div 5
    BY <2>1 DEF ieee80211_frequency_to_channel
  <2> QED BY <1>4, <2>2
<1>5. CASE f = 5935 /\ k = 2
  BY <1>5 DEF ieee80211_frequency_to_channel
<1>6. CASE f = 5950 + 5 * k /\ k \in 1 .. 233
  <2>1. f \in 5955 .. 7115
    BY <1>6
  <2>2. ieee80211_frequency_to_channel(f) = (f - 5950) \div 5
    <3>1. f >= 5955 /\ f =< 7115
      BY <2>1
    <3> QED BY <1>0, <3>1 DEF ieee80211_frequency_to_channel
  <2> QED BY <1>6, <2>2
<1>7. CASE f = 56160 + 2160 * k /\ k \in 1 .. 6
  <2>1. f >= 58320 /\ f =< 70200
    BY <1>7
  <2>2. ieee80211_frequency_to_channel(f) = (f - 56160) \div 2160
    <3>1. /\ ~(f < 1000) /\ f # 2484 /\ f # 5935 /\ ~(f < 2484) /\ ~(f =< 4980)
          /\ ~(f < 5950) /\ ~(f =< 45000)
      BY <1>0, <2>1
    <3> QED BY <2>1, <3>1 DEF ieee80211_frequency_to_channel
  <2> QED BY <1>0, <1>7, <2>2
<1> QED BY <1>1, <1>2, <1>3, <1>4, <1>5, <1>6, <1>7, CarrierRange

(* Every carrier of the four bands is given its own channel, and those of  *)
(* 2.4 and 5 GHz their band (create_ap:348-375).                           *)
THEOREM CarriersConverted == ChannelSpec => []ChannelsRight
<1>1. ChannelInit => ChannelsRight
  BY DEF ChannelInit, ChannelsRight
<1>2. ChannelsRight /\ [AskChannel]_channelVars => ChannelsRight'
  <2>1. ASSUME ChannelsRight, UNCHANGED channelVars PROVE ChannelsRight'
    BY <2>1 DEF ChannelsRight, channelVars
  <2>2. ASSUME AskChannel PROVE ChannelsRight'
    <3>1. PICK c \in Standard \cup SixGHz \cup SixtyGHz : carrier' = c[1]
      BY <2>2 DEF AskChannel, Carriers
    <3>2. c = <<carrier', c[2]>>
      BY <3>1 DEF Standard, SixGHz, SixtyGHz
    <3>3. /\ <<carrier', c[2]>> \in Standard \cup SixGHz \cup SixtyGHz
          /\ ieee80211_frequency_to_channel(carrier') = c[2] /\ c[2] \in 0 .. 233
      BY <3>1, <3>2, ConversionOfCarrier, CarrierRange
    <3>4. ChannelOf(carrier') = c[2]
      <4>1. \A j \in 0 .. 233 :
              <<carrier', j>> \in Standard \cup SixGHz \cup SixtyGHz => j = c[2]
        BY <3>3, ConversionOfCarrier
      <4> QED BY <3>3, <4>1 DEF ChannelOf
    <3>5. ASSUME NEW d \in Standard, carrier' = d[1]
          PROVE  is_5ghz_frequency(carrier') = (carrier' >= 4900)
      <4>1. d = <<carrier', d[2]>>
        BY <3>5 DEF Standard
      <4>2. carrier' \in Nat /\ carrier' < 5999
        BY <3>5, <4>1 DEF Standard
      <4> QED BY <4>2 DEF is_5ghz_frequency
    <3>6. answer' = [channel |-> ieee80211_frequency_to_channel(carrier'),
                     five |-> is_5ghz_frequency(carrier')]
      BY <2>2 DEF AskChannel
    <3>7. answer'.channel = ChannelOf(carrier')
      BY <3>3, <3>4, <3>6
    <3>8. answer'.five = is_5ghz_frequency(carrier')
      BY <3>6, Zenon
    <3>9. ASSUME carrier' \in {d[1] : d \in Standard}
          PROVE  answer'.five = (carrier' >= 4900)
      <4>1. PICK d \in Standard : carrier' = d[1]
        BY <3>9
      <4>2. is_5ghz_frequency(carrier') = (carrier' >= 4900)
        BY <4>1, <3>5
      <4> QED BY <4>2, <3>8
    <3> QED BY <3>7, <3>9, Zenon DEF ChannelsRight
  <2> QED BY <2>1, <2>2
<1> QED BY <1>1, <1>2, PTL DEF ChannelSpec

-----------------------------------------------------------------------------
(* The clients.                                                            *)

Stretch == [from : Int, length : Int]
Device  == [Number : Nat, MAC : Stretch, IP : Stretch, HOSTNAME : Stretch]

NoClients == clients = << >>

(* The row the k-th line is to have.                                       *)
RowOf(k) ==
    IF NoClients THEN [Number |-> k, MAC |-> No, IP |-> No, HOSTNAME |-> No]
    ELSE [Number |-> k,
          MAC |-> [from |-> 0, length |-> MacLength],
          IP |-> [from |-> IpColumn, length |-> clients[k].ip],
          HOSTNAME |-> [from |-> HostColumn, length |-> clients[k].host]]

(* The line of client c once the m places before pos have been scanned:    *)
(* the four cuts are made as they are passed.                              *)
CutUpTo(c, m) ==
    [k \in 0 .. 41 + c.host |->
       IF k >= 40 + c.host \/ (k \in {17, 20, 21 + c.ip, 39} /\ k < m) THEN "end"
       ELSE IF k < 17 \/ (k >= 21 /\ k < 21 + c.ip) \/ k >= 40 THEN "letter" ELSE "blank"]

(* The sentence, cut behind each word that has been passed.                *)
SentenceUpTo(m) ==
    [k \in 0 .. 21 |-> IF k >= 20 \/ (k \in {2, 10} /\ k < m) THEN "end"
                       ELSE IF k \in {2, 10} THEN "blank" ELSE "letter"]

(* The list so far holds the row of each line read so far.                 *)
RowsMade == /\ devices \in Seq(Device) /\ Len(devices) =< Len(Lines)
            /\ \A k \in 1 .. Len(devices) : devices[k] = RowOf(k)

NothingYet == reader = "idle" => clients = << >> /\ devices = << >>

(* What the loop over a line relies on: pos never stops on the first blank *)
(* behind a column, where the cut just made would be taken for an end.     *)
ScanOf(c) ==
    /\ lineSize = 41 + c.host /\ line = CutUpTo(c, pos)
    /\ pos # 17 /\ pos # 21 + c.ip
    /\ n = IF pos >= 40 THEN 2 ELSE IF pos >= 21 THEN 1 ELSE 0
    /\ pos >= 21 => marker[1] = 21
    /\ pos >= 40 => marker[2] = 40

(* In the sentence no column is ever found.                                *)
ScanOfSentence ==
    /\ lineSize = 21 /\ line = SentenceUpTo(pos)
    /\ pos # 2 /\ pos # 10
    /\ n = 0 /\ marker = NoMarks

Scanning == reader = "scan" => /\ Len(devices) < Len(Lines)
                               /\ NoClients => ScanOfSentence
                               /\ ~NoClients => ScanOf(clients[Len(devices) + 1])

ClientInv == ClientTypeOK /\ RowsMade /\ NothingYet /\ Scanning /\ RowsShowClients

LEMMA ClientLengths ==
    ASSUME NEW c \in Client
    PROVE  c.ip \in 1 .. 15 /\ c.host \in Nat \ {0}
BY LengthsAssumption DEF Client

LEMMA LinesAre ==
    ASSUME clients \in Seq(Client)
    PROVE  /\ Len(Lines) \in Nat
           /\ NoClients => /\ Len(Lines) = 1
                                 /\ Lines[1] = [text |-> Sentence, size |-> 21]
           /\ ~NoClients =>
                /\ Len(Lines) = Len(clients)
                /\ \A k \in 1 .. Len(clients) :
                     Lines[k] = [text |-> Printed(clients[k]), size |-> 40 + clients[k].host + 1]
<1>1. CASE NoClients
  BY <1>1 DEF Lines, NoClients
<1>2. CASE ~NoClients
  <2> DEFINE entry(k) == [text |-> Printed(clients[k]), size |-> HostColumn + clients[k].host + 1]
  <2>1. Lines = [k \in 1 .. Len(clients) |-> entry(k)]
    BY <1>2 DEF Lines, NoClients
  <2> HIDE DEF entry
  <2>2. Len(clients) \in Nat /\ Len(Lines) = Len(clients)
    BY <2>1
  <2>3. \A k \in 1 .. Len(clients) : Lines[k] = entry(k)
    BY <2>1
  <2> QED BY <1>2, <2>2, <2>3 DEF entry, HostColumn
<1> QED BY <1>1, <1>2

LEMMA InitClients == ClientInit => ClientInv
<1> SUFFICES ASSUME ClientInit PROVE ClientInv
  OBVIOUS
<1>1. ClientTypeOK
  BY DEF ClientInit, ClientTypeOK, NoMarks
<1>2. Len(Lines) \in Nat
  BY <1>1, LinesAre DEF ClientTypeOK
<1>3. RowsMade /\ NothingYet /\ Scanning /\ RowsShowClients
  BY <1>2 DEF ClientInit, RowsMade, NothingYet, Scanning, RowsShowClients
<1> QED BY <1>1, <1>3 DEF ClientInv

(* What one turn of the loop finds: an end only behind the MAC and behind  *)
(* the address, a head only at the IP and the HOSTNAME column.             *)
LEMMA TurnOfLoop ==
    ASSUME NEW c \in Client, NEW m \in 0 .. 40 + c.host, m # 17, m # 21 + c.ip
    PROVE  LET t == CutUpTo(c, m) IN
           /\ (t[m] # "blank" /\ t[m + 1] = "blank") <=> m \in {16, 20 + c.ip}
           /\ m \in {16, 20 + c.ip} => t[m + 2] = "blank"
           /\ (t[m] = "blank" /\ t[m + 1] # "blank") <=> m \in {20, 39}
<1>1. c.ip \in 1 .. 15 /\ c.host \in Nat \ {0}
  BY ClientLengths
<1>2. ASSUME NEW k \in 0 .. 41 + c.host
      PROVE  CutUpTo(c, m)[k] =
               IF k >= 40 + c.host \/ (k \in {17, 20, 21 + c.ip, 39} /\ k < m) THEN "end"
               ELSE IF k < 17 \/ (k >= 21 /\ k < 21 + c.ip) \/ k >= 40 THEN "letter" ELSE "blank"
  BY DEF CutUpTo
<1>3. m \in 0 .. 41 + c.host /\ m + 1 \in 0 .. 41 + c.host
  BY <1>1
<1>4. m \in {16, 20 + c.ip} => m + 2 \in 0 .. 41 + c.host
  BY <1>1
<1>5. CutUpTo(c, m)[m] =
        IF m >= 40 + c.host THEN "end"
        ELSE IF m < 17 \/ (m >= 21 /\ m < 21 + c.ip) \/ m >= 40 THEN "letter" ELSE "blank"
  BY <1>1, <1>2, <1>3
<1>6. CutUpTo(c, m)[m + 1] =
        IF m + 1 >= 40 + c.host THEN "end"
        ELSE IF m + 1 < 17 \/ (m + 1 >= 21 /\ m + 1 < 21 + c.ip) \/ m + 1 >= 40
        THEN "letter" ELSE "blank"
  BY <1>1, <1>2, <1>3
<1>7. m \in {16, 20 + c.ip} => CutUpTo(c, m)[m + 2] = "blank"
  BY <1>1, <1>2, <1>4
<1> QED BY <1>1, <1>5, <1>6, <1>7

(* A cut at place k is what moving past k records.                         *)
LEMMA CutMade ==
    ASSUME NEW c \in Client, NEW m \in Nat, NEW m2 \in Nat,
           \/ m = 16 /\ m2 = 18
           \/ m = 20 /\ m2 = 21
           \/ m = 20 + c.ip /\ m2 = 22 + c.ip
           \/ m = 39 /\ m2 = 40
    PROVE  [CutUpTo(c, m) EXCEPT ![IF m \in {20, 39} THEN m ELSE m + 1] = "end"]
             = CutUpTo(c, m2)
<1>1. c.ip \in 1 .. 15 /\ c.host \in Nat \ {0}
  BY ClientLengths
<1> DEFINE cut == IF m \in {20, 39} THEN m ELSE m + 1
           old == [CutUpTo(c, m) EXCEPT ![cut] = "end"]
<1>2. ASSUME NEW k \in 0 .. 41 + c.host
      PROVE  /\ k = cut => k \in {17, 20, 21 + c.ip, 39} /\ k < m2
             /\ k # cut => (k \in {17, 20, 21 + c.ip, 39} /\ k < m
                              <=> k \in {17, 20, 21 + c.ip, 39} /\ k < m2)
  BY <1>1, <1>2
<1>3. ASSUME NEW k \in 0 .. 41 + c.host PROVE old[k] = CutUpTo(c, m2)[k]
  <2>1. CASE k = cut
    BY <1>2, <2>1 DEF CutUpTo
  <2>2. CASE k # cut
    BY <1>2, <2>2 DEF CutUpTo
  <2> QED BY <2>1, <2>2
<1> QED BY <1>3 DEF CutUpTo

LEMMA NoCutMade ==
    ASSUME NEW c \in Client, NEW m \in 0 .. 40 + c.host,
           m \notin {16, 17, 20, 20 + c.ip, 21 + c.ip, 39}
    PROVE  CutUpTo(c, m) = CutUpTo(c, m + 1)
<1>1. c.ip \in 1 .. 15 /\ c.host \in Nat \ {0}
  BY ClientLengths
<1>2. ASSUME NEW k \in 0 .. 41 + c.host
      PROVE  k \in {17, 20, 21 + c.ip, 39} /\ k < m <=> k \in {17, 20, 21 + c.ip, 39} /\ k < m + 1
  BY <1>1
<1> QED BY <1>2 DEF CutUpTo

LEMMA ListClientsKeeps == ClientInv /\ ListClients => ClientInv'
<1> SUFFICES ASSUME ClientInv, ListClients PROVE ClientInv'
  OBVIOUS
<1>1. PICK k \in 0 .. MaxClients : clients' \in [1 .. k -> Client]
  BY DEF ListClients
<1>2. clients' \in Seq(Client)
  BY <1>1, ClientsAssumption
<1>3. devices = << >> /\ devices' = << >> /\ Len(devices') = 0
  BY DEF ClientInv, NothingYet, ListClients
<1>4. Len(Lines)' \in Nat
  BY <1>2, LinesAre
<1>5. ClientTypeOK'
  BY <1>2 DEF ClientInv, ClientTypeOK, ListClients
<1>6. RowsMade'
  BY <1>3, <1>4 DEF RowsMade
<1> QED BY <1>5, <1>6 DEF ClientInv, NothingYet, Scanning, RowsShowClients, ListClients

LEMMA NothingPrintedKeeps == ClientInv /\ NothingPrinted => ClientInv'
<1> SUFFICES ASSUME ClientInv, NothingPrinted PROVE ClientInv'
  OBVIOUS
<1>1. UNCHANGED Lines /\ \A k : RowOf(k)' = RowOf(k)
  BY DEF NothingPrinted, Lines, RowOf, NoClients
<1> QED BY <1>1 DEF ClientInv, ClientTypeOK, RowsMade, NothingYet, Scanning,
                    RowsShowClients, NothingPrinted

LEMMA ReadClientKeeps == ClientInv /\ ReadLine /\ ~NoClients => ClientInv'
<1> SUFFICES ASSUME ClientInv, ReadLine, ~NoClients PROVE ClientInv'
  OBVIOUS
<1>0. /\ Len(Lines) = Len(clients) /\ Len(devices) + 1 \in 1 .. Len(clients)
      /\ Lines[Len(devices) + 1] = [text |-> Printed(clients[Len(devices) + 1]),
                                    size |-> 40 + clients[Len(devices) + 1].host + 1]
  BY LinesAre DEF ClientInv, ClientTypeOK, RowsMade, ReadLine
<1>1. PICK c \in Client : c = clients[Len(devices) + 1]
  BY <1>0 DEF ClientInv, ClientTypeOK
<1>2. c.ip \in 1 .. 15 /\ c.host \in Nat \ {0}
  BY <1>1, ClientLengths
<1>3. /\ lineSize' = 41 + c.host /\ pos' = 0 /\ n' = 0 /\ marker' = NoMarks
      /\ line' = [Printed(c) EXCEPT ![40 + c.host] = "end"]
  <2>1. Lines[Len(devices) + 1] = [text |-> Printed(c), size |-> 41 + c.host]
    BY <1>0, <1>1, <1>2
  <2> DEFINE next == Lines[Len(devices) + 1]
  <2>2. next.text = Printed(c) /\ next.size = 41 + c.host
    BY <2>1
  <2>3. /\ lineSize' = next.size /\ pos' = 0 /\ n' = 0 /\ marker' = NoMarks
        /\ line' = [next.text EXCEPT ![next.size - 1] = "end"]
    BY DEF ReadLine
  <2> HIDE DEF next
  <2>4. next.size - 1 = 40 + c.host
    BY <1>2, <2>2
  <2> QED BY <2>2, <2>3, <2>4
<1>4. line' = CutUpTo(c, 0)
  <2>1. DOMAIN Printed(c) = 0 .. 41 + c.host
    BY <1>2 DEF Printed, HostColumn
  <2>2. ASSUME NEW k \in 0 .. 41 + c.host
        PROVE  line'[k] = CutUpTo(c, 0)[k]
    <3>1. CutUpTo(c, 0)[k] = IF k >= 40 + c.host THEN "end"
             ELSE IF k < 17 \/ (k >= 21 /\ k < 21 + c.ip) \/ k >= 40 THEN "letter" ELSE "blank"
      BY <1>2 DEF CutUpTo
    <3>2. CASE k = 40 + c.host
      BY <1>3, <2>1, <3>1, <3>2
    <3>3. CASE k # 40 + c.host
      <4>1. line'[k] = Printed(c)[k]
        BY <1>3, <2>1, <3>3
      <4>2. Printed(c)[k] =
              IF k > 40 + c.host THEN "end"
              ELSE IF k \in 0 .. 17 - 1 \cup 21 .. 21 + c.ip - 1 \cup 40 .. 40 + c.host
              THEN "letter"
              ELSE "blank"
        <5>1. k \in 0 .. 40 + c.host + 1
          BY <1>2
        <5> QED BY <5>1 DEF Printed, HostColumn, MacLength, IpColumn
      <4> QED BY <1>2, <3>1, <3>3, <4>1, <4>2
    <3> QED BY <3>2, <3>3
  <2> QED BY <1>3, <2>1, <2>2 DEF CutUpTo
<1>5. ClientTypeOK'
  BY <1>2, <1>3, <1>4 DEF ClientInv, ClientTypeOK, ReadLine, CutUpTo, NoMarks
<1>6. UNCHANGED <<clients, devices, Lines>> /\ reader' = "scan" /\ Len(devices) < Len(Lines)
  BY DEF ReadLine, Lines
<1>7. ScanOf(c)'
  <2>1. lineSize' = 41 + c.host /\ n' = 0 /\ line' = CutUpTo(c, pos')
    BY <1>3, <1>4
  <2>2. pos' = 0
    BY <1>3
  <2>3. pos' # 17 /\ pos' # 21 + c.ip /\ ~(pos' >= 21) /\ ~(pos' >= 40)
    BY <1>2, <2>2
  <2> QED BY <2>1, <2>3 DEF ScanOf
<1>8. Scanning'
  BY <1>1, <1>6, <1>7 DEF Scanning, NoClients
<1> QED BY <1>5, <1>6, <1>8 DEF ClientInv, RowsMade, RowOf, NoClients, NothingYet, RowsShowClients

LEMMA ReadSentenceKeeps == ClientInv /\ ReadLine /\ NoClients => ClientInv'
<1> SUFFICES ASSUME ClientInv, ReadLine, NoClients PROVE ClientInv'
  OBVIOUS
<1>1. Len(devices) = 0 /\ Lines[1] = [text |-> Sentence, size |-> 21]
  <2>1. Len(Lines) = 1 /\ Lines[1] = [text |-> Sentence, size |-> 21]
    BY LinesAre DEF ClientInv, ClientTypeOK
  <2>2. Len(devices) \in Nat /\ Len(devices) < Len(Lines)
    BY DEF ClientInv, RowsMade, ReadLine
  <2> QED BY <2>1, <2>2
<1>2. /\ lineSize' = 21 /\ pos' = 0 /\ n' = 0 /\ marker' = NoMarks
      /\ line' = [Sentence EXCEPT ![20] = "end"]
  BY <1>1 DEF ReadLine
<1>3. line' = SentenceUpTo(0)
  <2>1. ASSUME NEW k \in 0 .. 21 PROVE [Sentence EXCEPT ![20] = "end"][k] = SentenceUpTo(0)[k]
    BY DEF Sentence, SentenceUpTo
  <2>2. DOMAIN Sentence = 0 .. 21
    BY DEF Sentence
  <2> QED BY <1>2, <2>1, <2>2 DEF SentenceUpTo
<1>4. ClientTypeOK'
  <2>1. DOMAIN line' = 0 .. lineSize' /\ marker' \in [1 .. 2 -> 0 .. lineSize']
    BY <1>2, <1>3 DEF SentenceUpTo, NoMarks
  <2> QED BY <1>2, <2>1 DEF ClientInv, ClientTypeOK, ReadLine
<1>5. UNCHANGED <<clients, devices, Lines>> /\ reader' = "scan" /\ Len(devices) < Len(Lines)
  BY DEF ReadLine, Lines
<1>6. Scanning'
  BY <1>2, <1>3, <1>5 DEF Scanning, NoClients, ScanOfSentence
<1> QED BY <1>4, <1>5, <1>6 DEF ClientInv, RowsMade, RowOf, NoClients, NothingYet, RowsShowClients

LEMMA ScanClientKeeps == ClientInv /\ Scan /\ ~NoClients => ClientInv'
<1> SUFFICES ASSUME ClientInv, Scan, ~NoClients PROVE ClientInv'
  OBVIOUS
<1>1. PICK c \in Client : c = clients[Len(devices) + 1] /\ Len(devices) < Len(Lines)
  BY LinesAre DEF ClientInv, ClientTypeOK, RowsMade, Scan, Scanning
<1>2. c.ip \in 1 .. 15 /\ c.host \in Nat \ {0}
  BY <1>1, ClientLengths
<1>3. ScanOf(c)
  BY <1>1 DEF ClientInv, Scan, Scanning
<1>4. pos \in 0 .. 40 + c.host /\ pos # 17 /\ pos # 21 + c.ip /\ line = CutUpTo(c, pos)
  BY <1>2, <1>3 DEF ClientInv, ClientTypeOK, Scan, ScanOf
<1> DEFINE ends == line[pos] # "blank" /\ line[pos + 1] = "blank"
           cut  == IF ends THEN [line EXCEPT ![pos + 1] = "end"] ELSE line
           here == IF ends THEN pos + 1 ELSE pos
           head == cut[here] = "blank" /\ cut[here + 1] # "blank"
<1>5. /\ line' = IF head THEN [cut EXCEPT ![here] = "end"] ELSE cut
      /\ IF head THEN NoteColumn(here + 1) ELSE UNCHANGED <<n, marker>>
      /\ pos' = here + 1
      /\ UNCHANGED <<clients, reader, lineSize, devices, grid>>
  BY DEF Scan
<1>6. /\ ends <=> pos \in {16, 20 + c.ip}
      /\ pos \in {16, 20 + c.ip} => line[pos + 2] = "blank"
      /\ line[pos] = "blank" /\ line[pos + 1] # "blank" <=> pos \in {20, 39}
  BY <1>1, <1>4, TurnOfLoop
<1>7. /\ pos \in 0 .. lineSize /\ n \in 0 .. 2 /\ marker \in [1 .. 2 -> 0 .. lineSize]
      /\ lineSize = 41 + c.host
  BY <1>3 DEF ClientInv, ClientTypeOK, ScanOf
<1>8. ASSUME pos \in {16, 20 + c.ip}
      PROVE  ScanOf(c)' /\ pos' \in 0 .. lineSize' /\ n' \in 0 .. 2 /\ marker' \in [1 .. 2 -> 0 .. lineSize']
  <2>1. ~head
    <3>1. here = pos + 1 /\ cut = [line EXCEPT ![pos + 1] = "end"]
      BY <1>6, <1>8
    <3>2. pos + 1 \in DOMAIN line
      BY <1>2, <1>4, <1>8 DEF CutUpTo
    <3>3. cut[pos + 1] = "end"
      BY <3>1, <3>2
    <3> QED BY <3>1, <3>3
  <2>2. /\ line' = [CutUpTo(c, pos) EXCEPT ![pos + 1] = "end"] /\ pos' = pos + 2
        /\ UNCHANGED <<n, marker>>
    BY <1>4, <1>5, <1>6, <1>8, <2>1
  <2>3. pos \notin {20, 39}
    BY <1>2, <1>8
  <2>4. line' = CutUpTo(c, pos')
    <3>1. pos \in Nat /\ pos' \in Nat
      BY <1>4, <2>2
    <3>2. pos' = pos + 2
      BY <2>2
    <3>3. (pos = 16 /\ pos' = 18) \/ (pos = 20 + c.ip /\ pos' = 22 + c.ip)
      BY <1>2, <1>8, <3>1, <3>2
    <3>4. [CutUpTo(c, pos) EXCEPT ![IF pos \in {20, 39} THEN pos ELSE pos + 1] = "end"]
            = CutUpTo(c, pos')
      BY <3>1, <3>3, CutMade
    <3> QED BY <2>2, <2>3, <3>4
  <2>5. ScanOf(c)'
    <3>1. pos' = pos + 2 /\ pos \in Nat /\ n' = n /\ marker' = marker
      BY <1>4, <2>2
    <3>2. /\ pos' # 17 /\ pos' # 21 + c.ip
          /\ pos' >= 21 <=> pos >= 21
          /\ pos' >= 40 <=> pos >= 40
      BY <1>2, <1>8, <3>1
    <3>3. lineSize' = 41 + c.host
      BY <1>3, <1>5 DEF ScanOf
    <3> QED BY <1>3, <2>4, <3>1, <3>2, <3>3 DEF ScanOf
  <2>6. pos' \in 0 .. lineSize' /\ n' \in 0 .. 2 /\ marker' \in [1 .. 2 -> 0 .. lineSize']
    BY <1>2, <1>5, <1>7, <1>8, <2>2
  <2> QED BY <2>5, <2>6
<1>9. ASSUME pos \in {20, 39}
      PROVE  ScanOf(c)' /\ pos' \in 0 .. lineSize' /\ n' \in 0 .. 2 /\ marker' \in [1 .. 2 -> 0 .. lineSize']
  <2>1. ~ends
    BY <1>2, <1>6, <1>9
  <2>2. cut = line /\ here = pos /\ head
    BY <1>6, <1>9, <2>1
  <2>3. /\ line' = [CutUpTo(c, pos) EXCEPT ![pos] = "end"] /\ pos' = pos + 1
        /\ n' = n + 1 /\ marker' = [marker EXCEPT ![n + 1] = pos + 1]
    BY <1>4, <1>5, <2>2 DEF NoteColumn
  <2>4. line' = CutUpTo(c, pos')
    <3>1. pos \in Nat /\ pos' \in Nat
      BY <1>4, <2>3
    <3>2. pos' = pos + 1
      BY <2>3
    <3>3. (pos = 20 /\ pos' = 21) \/ (pos = 39 /\ pos' = 40)
      BY <1>9, <3>1, <3>2
    <3>4. [CutUpTo(c, pos) EXCEPT ![IF pos \in {20, 39} THEN pos ELSE pos + 1] = "end"]
            = CutUpTo(c, pos')
      BY <3>1, <3>3, CutMade
    <3> QED BY <1>9, <2>3, <3>4
  <2>5. n = IF pos = 39 THEN 1 ELSE 0
    BY <1>3, <1>9 DEF ScanOf
  <2>6. marker'[n + 1] = pos + 1 /\ (n = 1 => marker'[1] = marker[1])
    BY <1>7, <1>9, <2>3, <2>5
  <2>7. ScanOf(c)'
    <3>1. pos' = pos + 1 /\ n' = n + 1
      BY <2>3
    <3>2. pos' # 17 /\ pos' # 21 + c.ip /\ (pos' >= 40 <=> pos = 39) /\ pos' >= 21
      BY <1>2, <1>9, <3>1
    <3>3. lineSize' = 41 + c.host
      BY <1>3, <1>5 DEF ScanOf
    <3>4. n' = IF pos' >= 40 THEN 2 ELSE IF pos' >= 21 THEN 1 ELSE 0
      BY <2>5, <3>1, <3>2
    <3>5. marker'[1] = 21 /\ (pos' >= 40 => marker'[2] = 40)
      <4>1. CASE pos = 20
        BY <2>5, <2>6, <3>2, <4>1
      <4>2. CASE pos = 39
        BY <1>3, <2>5, <2>6, <4>2 DEF ScanOf
      <4> QED BY <1>9, <4>1, <4>2
    <3> QED BY <2>4, <3>2, <3>3, <3>4, <3>5 DEF ScanOf
  <2>8. pos' \in 0 .. lineSize' /\ n' \in 0 .. 2 /\ marker' \in [1 .. 2 -> 0 .. lineSize']
    BY <1>2, <1>5, <1>7, <1>9, <2>3, <2>5
  <2> QED BY <2>7, <2>8
<1>10. ASSUME pos \notin {16, 20, 20 + c.ip, 39}
       PROVE  ScanOf(c)' /\ pos' \in 0 .. lineSize' /\ n' \in 0 .. 2 /\ marker' \in [1 .. 2 -> 0 .. lineSize']
  <2>1. ~ends /\ cut = line /\ here = pos /\ ~head
    BY <1>6, <1>10
  <2>2. line' = CutUpTo(c, pos) /\ pos' = pos + 1 /\ UNCHANGED <<n, marker>>
    BY <1>4, <1>5, <2>1
  <2>3. line' = CutUpTo(c, pos')
    BY <1>1, <1>4, <1>10, <2>2, NoCutMade
  <2>4. ScanOf(c)'
    BY <1>2, <1>3, <1>4, <1>5, <1>10, <2>2, <2>3 DEF ScanOf
  <2>5. pos' \in 0 .. lineSize' /\ n' \in 0 .. 2 /\ marker' \in [1 .. 2 -> 0 .. lineSize']
    BY <1>2, <1>4, <1>5, <1>7, <2>2
  <2> QED BY <2>4, <2>5
<1>11. ScanOf(c)' /\ pos' \in 0 .. lineSize' /\ n' \in 0 .. 2 /\ marker' \in [1 .. 2 -> 0 .. lineSize']
  BY <1>8, <1>9, <1>10
<1>12. ClientTypeOK'
  <2>1. DOMAIN line' = 0 .. lineSize'
    BY <1>2, <1>11 DEF ScanOf, CutUpTo
  <2> QED BY <1>5, <1>11, <2>1 DEF ClientInv, ClientTypeOK
<1>13. Scanning' /\ UNCHANGED Lines
  BY <1>1, <1>5, <1>11 DEF Scanning, NoClients, Lines
<1> QED BY <1>5, <1>12, <1>13 DEF ClientInv, RowsMade, RowOf, NoClients, NothingYet, RowsShowClients, Scan

LEMMA ScanSentenceKeeps == ClientInv /\ Scan /\ NoClients => ClientInv'
<1> SUFFICES ASSUME ClientInv, Scan, NoClients PROVE ClientInv'
  OBVIOUS
<1>1. ScanOfSentence /\ pos \in 0 .. 20 /\ pos # 2 /\ pos # 10
  BY DEF ClientInv, ClientTypeOK, Scan, Scanning, ScanOfSentence
<1> DEFINE ends == line[pos] # "blank" /\ line[pos + 1] = "blank"
           cut  == IF ends THEN [line EXCEPT ![pos + 1] = "end"] ELSE line
           here == IF ends THEN pos + 1 ELSE pos
           head == cut[here] = "blank" /\ cut[here + 1] # "blank"
<1>2. /\ line' = IF head THEN [cut EXCEPT ![here] = "end"] ELSE cut
      /\ IF head THEN NoteColumn(here + 1) ELSE UNCHANGED <<n, marker>>
      /\ pos' = here + 1
      /\ UNCHANGED <<clients, reader, lineSize, devices, grid>>
  BY DEF Scan
<1>3. line = SentenceUpTo(pos) /\ lineSize = 21 /\ n = 0 /\ marker = NoMarks
  BY <1>1 DEF ScanOfSentence
<1>4. line[pos] # "blank" /\ (line[pos + 1] = "blank" <=> pos \in {1, 9})
  BY <1>1, <1>3 DEF SentenceUpTo
<1>5. ~head
  <2>1. CASE ends
    <3>1. pos + 1 \in DOMAIN line
      BY <1>1, <1>3 DEF SentenceUpTo
    <3> QED BY <2>1, <3>1
  <2> QED BY <1>4, <2>1
<1>6. line' = SentenceUpTo(pos') /\ pos' \in 0 .. 21 /\ pos' # 2 /\ pos' # 10
  <2>1. CASE pos \in {1, 9}
    <3>1. line' = [SentenceUpTo(pos) EXCEPT ![pos + 1] = "end"] /\ pos' = pos + 2
      BY <1>1, <1>2, <1>3, <1>4, <1>5, <2>1
    <3>2. [SentenceUpTo(pos) EXCEPT ![pos + 1] = "end"] = SentenceUpTo(pos + 2)
      <4>1. ASSUME NEW k \in 0 .. 21
            PROVE  [SentenceUpTo(pos) EXCEPT ![pos + 1] = "end"][k] = SentenceUpTo(pos + 2)[k]
        BY <2>1 DEF SentenceUpTo
      <4> QED BY <4>1 DEF SentenceUpTo
    <3> QED BY <2>1, <3>1, <3>2
  <2>2. CASE pos \notin {1, 9}
    <3>1. line' = SentenceUpTo(pos) /\ pos' = pos + 1
      BY <1>1, <1>2, <1>3, <1>4, <1>5, <2>2
    <3>2. SentenceUpTo(pos) = SentenceUpTo(pos + 1)
      BY <1>1, <2>2 DEF SentenceUpTo
    <3> QED BY <1>1, <2>2, <3>1, <3>2
  <2> QED BY <2>1, <2>2
<1>7. UNCHANGED <<n, marker, lineSize, clients, reader, devices, grid, Lines>>
  BY <1>2, <1>5 DEF Lines
<1>8. ClientTypeOK'
  BY <1>3, <1>6, <1>7 DEF ClientInv, ClientTypeOK, SentenceUpTo
<1>9. Scanning'
  BY <1>3, <1>6, <1>7 DEF ClientInv, Scanning, NoClients, ScanOfSentence
<1> QED BY <1>7, <1>8, <1>9 DEF ClientInv, RowsMade, RowOf, NoClients, NothingYet, RowsShowClients

(* A string ends at the first NUL of the buffer.                           *)
LEMMA StringEnds ==
    ASSUME NEW k \in Nat, NEW e \in k .. lineSize, line[e] = "end",
           \A j \in k .. e - 1 : line[j] # "end"
    PROVE  StringAt(k) = [from |-> k, length |-> e - k]
<1> DEFINE First(z) == line[z] = "end" /\ \A j \in k .. z - 1 : line[j] # "end"
<1>1. ASSUME NEW z \in k .. lineSize, First(z) PROVE z = e
  <2>1. ~(z < e)
    BY <1>1
  <2>2. ~(e < z)
    BY <1>1
  <2> QED BY <2>1, <2>2
<1>2. (CHOOSE z \in k .. lineSize : First(z)) = e
  BY <1>1
<1> QED BY <1>2 DEF StringAt

LEMMA ClientNode ==
    ASSUME ClientInv, add_device_node, ~NoClients
    PROVE  devices' = Append(devices, RowOf(Len(devices) + 1)) /\ RowOf(Len(devices) + 1) \in Device
<1>1. PICK c \in Client : c = clients[Len(devices) + 1]
  BY LinesAre DEF ClientInv, ClientTypeOK, RowsMade, add_device_node, Scanning
<1>2. c.ip \in 1 .. 15 /\ c.host \in Nat \ {0}
  BY <1>1, ClientLengths
<1>3. ScanOf(c)
  BY <1>1 DEF ClientInv, add_device_node, Scanning
<1>4. lineSize = 41 + c.host /\ pos = 41 + c.host
  BY <1>2, <1>3 DEF ClientInv, ClientTypeOK, add_device_node, ScanOf
<1>5. marker[1] = 21 /\ marker[2] = 40
  BY <1>2, <1>3, <1>4 DEF ScanOf
<1>6. ASSUME NEW k \in 0 .. 41 + c.host
      PROVE  line[k] = "end" <=> k >= 40 + c.host \/ k \in {17, 20, 21 + c.ip, 39}
  BY <1>2, <1>3, <1>4, <1>6 DEF ScanOf, CutUpTo
<1>7. StringAt(0) = [from |-> 0, length |-> 17]
  <2>1. line[17] = "end" /\ \A j \in 0 .. 17 - 1 : line[j] # "end"
    BY <1>2, <1>6
  <2>2. 17 \in 0 .. lineSize /\ 17 - 0 = 17
    BY <1>2, <1>4
  <2> QED BY <2>1, <2>2, StringEnds
<1>8. StringAt(21) = [from |-> 21, length |-> c.ip]
  <2>1. PICK e \in Nat : e = 21 + c.ip
    BY <1>2
  <2>2. line[e] = "end" /\ \A j \in 21 .. e - 1 : line[j] # "end"
    BY <1>2, <1>6, <2>1
  <2>3. e \in 21 .. lineSize /\ e - 21 = c.ip
    BY <1>2, <1>4, <2>1
  <2>4. StringAt(21) = [from |-> 21, length |-> e - 21]
    BY <2>2, <2>3, StringEnds
  <2> QED BY <2>3, <2>4
<1>9. StringAt(40) = [from |-> 40, length |-> c.host]
  <2>1. PICK e \in Nat : e = 40 + c.host
    BY <1>2
  <2>2. line[e] = "end" /\ \A j \in 40 .. e - 1 : line[j] # "end"
    BY <1>2, <1>6, <2>1
  <2>3. e \in 40 .. lineSize /\ e - 40 = c.host
    BY <1>2, <1>4, <2>1
  <2>4. StringAt(40) = [from |-> 40, length |-> e - 40]
    BY <2>2, <2>3, StringEnds
  <2> QED BY <2>3, <2>4
<1> DEFINE made == RowOf(Len(devices) + 1)
<1>10. devices' = Append(devices, made)
  <2>1. devices' = Append(devices, [Number |-> Len(devices) + 1, MAC |-> StringAt(0),
                                    IP |-> StringAt(21), HOSTNAME |-> StringAt(40)])
    BY <1>5 DEF add_device_node
  <2> QED BY <1>1, <1>7, <1>8, <1>9, <2>1 DEF RowOf, MacLength, IpColumn, HostColumn
<1>11. made \in Device
  <2>1. Len(devices) \in Nat
    BY DEF ClientInv, RowsMade
  <2>2. [from |-> 0, length |-> 17] \in Stretch
    BY DEF Stretch
  <2>3. [from |-> 21, length |-> c.ip] \in Stretch /\ [from |-> 40, length |-> c.host] \in Stretch
    BY <1>2 DEF Stretch
  <2>4. made = [Number |-> Len(devices) + 1, MAC |-> [from |-> 0, length |-> 17],
                IP |-> [from |-> 21, length |-> c.ip],
                HOSTNAME |-> [from |-> 40, length |-> c.host]]
    BY <1>1 DEF RowOf, MacLength, IpColumn, HostColumn
  <2> QED BY <2>1, <2>2, <2>3, <2>4 DEF Device
<1> QED BY <1>10, <1>11

LEMMA SentenceNode ==
    ASSUME ClientInv, add_device_node, NoClients
    PROVE  devices' = Append(devices, RowOf(Len(devices) + 1)) /\ RowOf(Len(devices) + 1) \in Device
<1>1. ScanOfSentence /\ pos = 21
  BY DEF ClientInv, ClientTypeOK, add_device_node, Scanning, ScanOfSentence
<1>2. line = SentenceUpTo(21) /\ lineSize = 21 /\ marker[1] = 0 /\ marker[2] = 0
  BY <1>1 DEF ScanOfSentence, NoMarks
<1>3. StringAt(0) = No
  <2>1. line[2] = "end" /\ \A j \in 0 .. 2 - 1 : line[j] # "end"
    BY <1>2 DEF SentenceUpTo
  <2>2. 2 \in 0 .. lineSize /\ 2 - 0 = 2
    BY <1>2
  <2> QED BY <2>1, <2>2, StringEnds DEF No
<1>4. Len(devices) \in Nat /\ No \in Stretch
  BY DEF ClientInv, RowsMade, No, Stretch
<1> QED BY <1>2, <1>3, <1>4 DEF add_device_node, RowOf, Device

LEMMA add_device_nodeKeeps == ClientInv /\ add_device_node => ClientInv'
<1> SUFFICES ASSUME ClientInv, add_device_node PROVE ClientInv'
  OBVIOUS
<1> DEFINE made == RowOf(Len(devices) + 1)
<1>1. devices' = Append(devices, made) /\ made \in Device
  BY ClientNode, SentenceNode
<1>2. Len(devices) \in Nat /\ devices \in Seq(Device) /\ Len(Lines) \in Nat
  BY LinesAre DEF ClientInv, ClientTypeOK, RowsMade
<1>3. UNCHANGED <<clients, Lines>> /\ \A k : RowOf(k)' = RowOf(k)
  BY DEF add_device_node, RowOf, NoClients, Lines
<1>4. RowsMade'
  <2>1. devices' \in Seq(Device) /\ Len(devices') = Len(devices) + 1
    BY <1>1, <1>2
  <2>2. Len(devices') =< Len(Lines)'
    BY <1>2, <1>3, <2>1 DEF ClientInv, Scanning, add_device_node
  <2>3. ASSUME NEW k \in 1 .. Len(devices') PROVE devices'[k] = RowOf(k)'
    <3>1. CASE k = Len(devices) + 1
      BY <1>1, <1>2, <1>3, <3>1
    <3>2. CASE k \in 1 .. Len(devices)
      <4>1. devices'[k] = devices[k]
        BY <1>1, <1>2, <3>2
      <4> QED BY <1>3, <3>2, <4>1 DEF ClientInv, RowsMade
    <3> QED BY <1>2, <2>1, <3>1, <3>2
  <2> QED BY <2>1, <2>2, <2>3 DEF RowsMade
<1>5. ClientTypeOK' /\ NothingYet' /\ Scanning' /\ RowsShowClients'
  BY DEF ClientInv, ClientTypeOK, NothingYet, Scanning, RowsShowClients, add_device_node
<1> QED BY <1>4, <1>5 DEF ClientInv

LEMMA FillGridKeeps == ClientInv /\ FillGrid => ClientInv'
<1> SUFFICES ASSUME ClientInv, FillGrid PROVE ClientInv'
  OBVIOUS
<1>1. /\ grid' = {devices[k] : k \in 1 .. Len(Lines)}
      /\ \A k \in 1 .. Len(Lines) : devices[k] = RowOf(k)
  BY DEF ClientInv, RowsMade, FillGrid
<1>2. grid' = {RowOf(k) : k \in 1 .. Len(Lines)} /\ UNCHANGED <<clients, Lines>>
  BY <1>1 DEF FillGrid, Lines
<1>3. RowsShowClients'
  <2>1. CASE NoClients
    <3>1. Len(Lines) = 1
      BY <2>1, LinesAre DEF ClientInv, ClientTypeOK
    <3>2. grid' = {RowOf(1)}
      BY <1>2, <3>1
    <3> QED BY <1>2, <2>1, <3>2 DEF RowsShowClients, RowOf, NoClients
  <2>2. CASE ~NoClients
    <3>1. Len(Lines) = Len(clients)
      BY <2>2, LinesAre DEF ClientInv, ClientTypeOK
    <3> QED BY <1>2, <2>2, <3>1 DEF RowsShowClients, RowOf, NoClients
  <2> QED BY <2>1, <2>2
<1>4. RowsMade'
  <2>1. Len(Lines) \in Nat /\ devices' = << >> /\ Len(devices') = 0
    BY LinesAre DEF ClientInv, ClientTypeOK, FillGrid
  <2> QED BY <1>2, <2>1 DEF RowsMade
<1>5. ClientTypeOK' /\ NothingYet' /\ Scanning'
  BY DEF ClientInv, ClientTypeOK, NothingYet, Scanning, FillGrid
<1> QED BY <1>3, <1>4, <1>5 DEF ClientInv

LEMMA ClientNextKeeps == ClientInv /\ [ClientNext]_clientVars => ClientInv'
<1>1. ASSUME ClientInv, UNCHANGED clientVars PROVE ClientInv'
  BY <1>1 DEF ClientInv, ClientTypeOK, RowsMade, RowOf, NoClients, Lines, NothingYet, Scanning, ScanOf,
              ScanOfSentence, RowsShowClients, clientVars
<1> QED BY <1>1, ListClientsKeeps, NothingPrintedKeeps, ReadClientKeeps, ReadSentenceKeeps,
           ScanClientKeeps, ScanSentenceKeeps, add_device_nodeKeeps, FillGridKeeps
        DEF ClientNext

(* Every client has its row, with its own address and name whole, however  *)
(* long they are, for one client up to the nine whose numbers fit; without *)
(* any the sentence has the one row; and no column is noted beyond the     *)
(* markers (h_prop.c:472-524, ui.c:1012-1037, create_ap:949-963).          *)
THEOREM ClientsShown == ClientSpec => [](RowsShowClients /\ ClientTypeOK)
<1>1. ClientInv => RowsShowClients /\ ClientTypeOK
  BY DEF ClientInv
<1> QED BY <1>1, InitClients, ClientNextKeeps, PTL DEF ClientSpec

-----------------------------------------------------------------------------
(* The handlers one after another: a step of one leaves the others' state  *)
(* alone, so each keeps its own specification.                             *)
LEMMA EachByItself ==
    Spec => FormSpec /\ QrSpec /\ MacSpec /\ ClientSpec /\ ChannelSpec
<1>1. Init => FormInit /\ QrInit /\ MacInit /\ ClientInit /\ ChannelInit
  BY DEF Init
<1>2. [Next]_vars => /\ [FormNext]_formVars /\ [QrNext]_qrVars /\ [ReadChar]_macVars
                     /\ [ClientNext]_clientVars /\ [AskChannel]_channelVars
  BY DEF Next, vars
<1> QED BY <1>1, <1>2, PTL
       DEF Spec, FormSpec, QrSpec, MacSpec, ClientSpec, ChannelSpec

(* The places kept within their arrays and the values within their types,  *)
(* for every width, text, list and number of edits (h_prop.c:472-524,      *)
(* qrgen.cpp:88-143, util.c:71-95, ui.c:95-255).                           *)
THEOREM HandlersTyped == Spec => []TypesOK
<1>1. PictureInv => QrTypeOK
  BY DEF PictureInv
<1>2. MacInv => MacTypeOK
  BY DEF MacInv
<1>3. TypesOK <=> FormTypeOK /\ QrTypeOK /\ MacTypeOK /\ ClientTypeOK
  BY DEF TypesOK
<1> QED BY <1>1, <1>2, <1>3, EachByItself, FormTypes, PictureInvariant, MacInvariant,
           ClientsShown, PTL

(* What the handlers promise, all of them in one program: the form and its *)
(* file, the commands it leads to, the picture, the addresses, the list of *)
(* clients and the channels.                                               *)
THEOREM HandlersRight ==
    Spec => [](/\ RemembersForm /\ StartsAsShown /\ ChannelAsAsked
               /\ EntriesFollowToggles /\ EditSaysWhy /\ MacFileIsUsers
               /\ WritesInRow /\ RowShowsModules /\ PictureComplete
               /\ MacAccepted /\ RowsShowClients /\ ChannelsRight)
BY EachByItself, FormIsRemembered, HotspotAsShown, HotspotTuned, TogglesGovern,
   EditsExplained, ListIsUsers, PixelsInRow, LinesShowModules, PictureIsComplete,
   MacsOfScriptPass, ClientsShown, CarriersConverted, PTL
=============================================================================
