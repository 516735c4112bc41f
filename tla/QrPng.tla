-------------------------------- MODULE QrPng --------------------------------
(***************************************************************************)
(* writePNG (qrgen.cpp): a matrix of modules is blown up to a picture of   *)
(* one bit per pixel, a module row at a time, by moving a byte pointer and *)
(* a bit number through a buffer that holds one row of pixels.             *)
(*                                                                         *)
(* The picture is what png_write_row has been given.  The row buffer is    *)
(* the set of its pixels that are not white.  libpng, the palette and the  *)
(* file are left out.                                                      *)
(***************************************************************************)
EXTENDS Integers

CONSTANT Width            \* modules in a row of the matrix

ASSUME WidthAssumption == Width \in Nat \ {0}

VARIABLES
    data,     \* qrcode->data: which modules are dark
    at,       \* the loop the function is in
    y, x, xx, yy, \* its counters; y counts rows of the margins too
    q, bit,   \* the byte and the bit of the row written next
    p,        \* the module read next
    row,      \* pixels of the row buffer that are dark
    picture   \* pixel rows written

qrVars == <<data, at, y, x, xx, yy, q, bit, p, row, picture>>

size      == 8
margin    == 5
realwidth == (Width + margin * 2) * size
RowBytes  == (realwidth + 7) \div 8

Matrix  == [0 .. Width * Width - 1 -> BOOLEAN]
AllWhite == {}

(* The pixel that bit b of byte c is.                                      *)
Pixel(c, b) == 8 * c + 7 - b

Flip(S, c) == IF c \in S THEN S \ {c} ELSE S \cup {c}

-----------------------------------------------------------------------------
QrInit ==
    /\ data = [m \in 0 .. Width * Width - 1 |-> FALSE]
    /\ at = "encode"
    /\ y = 0 /\ x = 0 /\ xx = 0 /\ yy = 0 /\ q = 0 /\ bit = 7 /\ p = 0
    /\ row = AllWhite /\ picture = 0

(* The library makes a matrix (external), and the buffer is allocated.     *)
Encode ==
    /\ at = "encode"
    /\ data' \in Matrix
    /\ at' = "top"
    /\ UNCHANGED <<y, x, xx, yy, q, bit, p, row, picture>>

(* A mutant: a margin is one row too high.                                 *)
WriteMarginMore(here, next) ==
    /\ at = here
    /\ picture' = picture + 1
    /\ IF y < margin * size
         THEN y' = y + 1 /\ at' = at
         ELSE y' = 0 /\ at' = next
    /\ UNCHANGED <<data, x, xx, yy, q, bit, p, row>>

(* One row of a margin; next is where the function goes after the last.    *)
WriteMargin(here, next) ==
    /\ at = here
    /\ picture' = picture + 1
    /\ IF y + 1 < margin * size
         THEN y' = y + 1 /\ at' = at
         ELSE y' = 0 /\ at' = next
    /\ UNCHANGED <<data, x, xx, yy, q, bit, p, row>>

WriteTop    == WriteMargin("top", "line")
WriteBottom == WriteMargin("bottom", "done")

(* The row is wiped and the pointer set behind the left margin.            *)
StartRow ==
    /\ at = "line"
    /\ row' = AllWhite
    /\ q' = (margin * size) \div 8
    /\ bit' = 7 - ((margin * size) % 8)
    /\ x' = 0 /\ xx' = 0
    /\ at' = "bits"
    /\ UNCHANGED <<data, y, yy, p, picture>>

(* A mutant: the byte pointer moves a bit late.                            *)
ForwardLate == IF bit < 0 THEN q' = q + 1 /\ bit' = 7
                          ELSE q' = q /\ bit' = bit - 1

Forward == IF bit - 1 < 0 THEN q' = q + 1 /\ bit' = 7
                          ELSE q' = q /\ bit' = bit - 1

(* A mutant: the last module of a line does not move the pointer on.       *)
NextModuleStays ==
    /\ xx' = 0 /\ x' = x + 1
    /\ p' = IF x + 1 < Width THEN p + 1 ELSE p
    /\ at' = IF x + 1 < Width THEN "bits" ELSE "rows"

(* The last pixel of a module is the one that moves on to the next module. *)
NextModule ==
    /\ xx' = 0 /\ x' = x + 1 /\ p' = p + 1
    /\ at' = IF x + 1 < Width THEN "bits" ELSE "rows"

(* The bit is flipped if the module is dark, and the pointers move.        *)
WriteBit ==
    /\ at = "bits"
    /\ row' = IF data[p] THEN Flip(row, Pixel(q, bit)) ELSE row
    /\ Forward
    /\ IF xx + 1 < size
         THEN xx' = xx + 1 /\ UNCHANGED <<x, p, at>>
         ELSE NextModule
    /\ UNCHANGED <<data, y, yy, picture>>

(* The row is written size times; the bottom margin wipes it again.        *)
WriteRow ==
    /\ at = "rows"
    /\ picture' = picture + 1
    /\ IF yy + 1 < size
         THEN yy' = yy + 1 /\ UNCHANGED <<y, at, row>>
         ELSE /\ yy' = 0
              /\ IF y + 1 < Width THEN y' = y + 1 /\ at' = "line" /\ row' = row
                                  ELSE y' = 0 /\ at' = "bottom" /\ row' = AllWhite
    /\ UNCHANGED <<data, x, xx, q, bit, p>>

QrNext == Encode \/ WriteTop \/ StartRow \/ WriteBit \/ WriteRow \/ WriteBottom

QrSpec == QrInit /\ [][QrNext]_qrVars

-----------------------------------------------------------------------------
Loop == {"encode", "top", "line", "bits", "rows", "bottom", "done"}

QrTypeOK ==
    /\ data \in Matrix
    /\ at \in Loop
    /\ y \in Nat /\ x \in 0 .. Width /\ xx \in 0 .. size - 1 /\ yy \in 0 .. size - 1
    /\ q \in Nat /\ bit \in 0 .. 7 /\ p \in 0 .. Width * Width
    /\ row \subseteq Nat /\ picture \in Nat

(* The pointer is at the pixel the counters say, and a bit is only written *)
(* inside the (realwidth + 7) / 8 bytes of the buffer: the walk by bytes   *)
(* and bits agrees with the picture's geometry (writePNG lines 168-186).   *)
WritesInRow ==
    at = "bits" => /\ Pixel(q, bit) = margin * size + size * x + xx
                   /\ q \in 0 .. RowBytes - 1

(* A row written to the picture shows the y-th row of modules, each size   *)
(* pixels wide behind the margin, and white elsewhere: the one pointer     *)
(* that walks all of data never gets out of step with the two counters     *)
(* (writePNG lines 166-188).                                               *)
RowShowsModules ==
    at = "rows" =>
      row = {c \in margin * size .. margin * size + size * Width - 1 :
               data[y * Width + (c - margin * size) \div size]}

(* When the file is closed it has as many rows as the header announced, so *)
(* the picture is complete (writePNG lines 147-153, 160-198).              *)
PictureComplete == at = "done" => picture = realwidth /\ row = AllWhite
=============================================================================
