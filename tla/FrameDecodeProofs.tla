-------------------------- MODULE FrameDecodeProofs --------------------------
(* What FrameDecode keeps for integers of any width and frames of any      *)
(* size.                                                                   *)
EXTENDS FrameDecode, FiniteSetTheorems, TLAPS

(* A grey IR frame has fewer pixels than u32 has values: the product that  *)
(* wraps in the branch of decode_payload is caught by Frame::new.          *)
LEMMA GrayFrameFits ==
  ASSUME NEW w \in Nat, NEW h \in Nat, NEW len, NEW checked, NEW m, NEW f,
         grey8_of_ir(len, w, h, checked) \notin {Error, Panic},
         f = Frame_new(m, "Gray8", grey8_of_ir(len, w, h, checked)),
         f # Error
  PROVE  /\ w * h < U32
         /\ f.width = w /\ f.height = h /\ f.format = "Gray8"
         /\ f.pixels = [k \in 1 .. w * h |-> <<k - 1>>]
<1> DEFINE n == w * h
           expected == n % U32
           pixels == [k \in 1 .. expected |-> <<k - 1>>]
           picture == Picture(w, h, pixels, FALSE)
<1>1. /\ n \in Nat
      /\ U32 \in Nat \ {0}
      /\ expected \in 0 .. U32 - 1
  <2>1. n \in Nat /\ U32 \in Nat \ {0}
    BY WidthsAssumption
  <2> HIDE DEF n
  <2> QED
    BY <2>1
<1>2. grey8_of_ir(len, w, h, checked) = picture
  BY DEF grey8_of_ir
<1>3. picture.pixels = pixels /\ picture.width = w /\ picture.height = h
  BY DEF Picture
<1>4. Len(pixels) = expected
  <2> HIDE DEF expected
  <2> QED
    BY <1>1
<1>5. f = Frame_new(m, "Gray8", picture)
  BY <1>2
<1>6. /\ Len(pixels) * 1 = n * 1
      /\ f = [modality |-> m, width |-> w, height |-> h, format |-> "Gray8",
              pixels |-> pixels]
  <2> HIDE DEF picture, pixels
  <2> QED
    BY <1>3, <1>5 DEF Frame_new, bytes_per_pixel
<1>7. expected = n
  <2> HIDE DEF n, expected, pixels
  <2> QED
    BY <1>1, <1>4, <1>6
<1> QED
  BY <1>1, <1>6, <1>7

(* What a grey frame relies on: the session has sizes of u32, and its      *)
(* frame shows the payload in order, without a wrap.                       *)
GrayInv ==
  /\ session # Closed => session.width \in Nat /\ session.height \in Nat
  /\ Delivered /\ frame.format # "Rgb8" =>
       /\ frame.width * frame.height \in 0 .. U32 - 1
       /\ frame.pixels = [k \in 1 .. frame.width * frame.height |-> <<k - 1>>]

(* next_frame makes no grey frame that GrayInv does not allow.             *)
LEMMA NextFrameKeepsGray ==
  ASSUME GrayInv, NEW payload, NEW checked, NextFrame(payload, checked)
  PROVE  GrayInv'
<1>1. /\ session # Closed
      /\ session' = session
      /\ session.width \in Nat /\ session.height \in Nat
      /\ frame' = next_frame(session, payload, checked)
  BY DEF NextFrame, GrayInv
<1> DEFINE picture == Decoded(session, payload, checked)
<1>2. SUFFICES ASSUME Delivered', frame'.format # "Rgb8"
               PROVE  /\ frame'.width * frame'.height \in 0 .. U32 - 1
                      /\ frame'.pixels =
                           [k \in 1 .. frame'.width * frame'.height |-> <<k - 1>>]
  BY <1>1 DEF GrayInv
<1>3. frame' \notin {Error, Panic}
  BY <1>2 DEF Delivered
<1>4. picture \notin {Error, Panic}
  BY <1>1, <1>3 DEF next_frame
<1>5. CASE IsGray8(session)
  <2>1. picture = grey8_of_ir(payload.len, session.width, session.height, checked)
    BY <1>5 DEF Decoded, IsGray8
  <2>2. frame' = Frame_new(session.modality, "Gray8", picture)
    BY <1>1, <1>3, <1>4, <1>5 DEF next_frame
  <2>3. /\ session.width * session.height < U32
        /\ frame'.width = session.width /\ frame'.height = session.height
        /\ frame'.pixels = [k \in 1 .. session.width * session.height |-> <<k - 1>>]
    BY <1>1, <1>3, <1>4, <2>1, <2>2, GrayFrameFits
  <2>4. session.width * session.height \in Nat
    BY <1>1
  <2> DEFINE n == session.width * session.height
  <2>5. frame'.width * frame'.height = n
    BY <2>3
  <2>6. n \in 0 .. U32 - 1
    <3> HIDE DEF n
    <3>1. n \in Nat /\ n < U32
      BY <2>3, <2>4 DEF n
    <3> QED
      BY <3>1, WidthsAssumption
  <2> QED
    BY <2>3, <2>5, <2>6
<1>6. CASE ~ IsGray8(session)
  <2>1. frame' = Frame_new(session.modality, "Rgb8",
                           apply_optional_sensor_fix(picture, session.fix))
    BY <1>1, <1>3, <1>4, <1>6 DEF next_frame
  <2>2. frame'.format = "Rgb8"
    BY <1>3, <2>1 DEF Frame_new
  <2> QED
    BY <1>2, <2>2
<1> QED
  BY <1>5, <1>6

(* The conversion of a frame into the image of the face models shows every *)
(* pixel in its place, for any width of u32: its u32 index never wraps.    *)
THEOREM RgbImageShowsFrame == Spec => []RgbShowsFrame
<1>1. Init => GrayInv
  BY DEF Init, GrayInv, Delivered
<1>2. GrayInv /\ [Next]_decodeVars => GrayInv'
  <2> SUFFICES ASSUME GrayInv, [Next]_decodeVars PROVE GrayInv'
    OBVIOUS
  <2>1. CASE UNCHANGED decodeVars
    BY <2>1 DEF decodeVars, GrayInv, Delivered
  <2>2. ASSUME NEW m \in Modality, NEW fix \in V4lPixelFix, NEW driver \in Drivers,
               NEW size \in Sizes, Open(m, fix, driver, size)
        PROVE  GrayInv'
    <3>1. size[1] \in Nat /\ size[2] \in Nat
      BY CameraAssumption, WidthsAssumption
    <3>2. session'.width = size[1] /\ session'.height = size[2] /\ frame' = frame
      BY <2>2 DEF Open
    <3> QED
      BY <3>1, <3>2 DEF GrayInv, Delivered
  <2>3. ASSUME NEW payload \in Payloads, NEW checked \in BOOLEAN,
               NextFrame(payload, checked)
        PROVE  GrayInv'
    BY <2>3, NextFrameKeepsGray
  <2>4. CASE Close
    BY <2>4 DEF Close, GrayInv, Delivered
  <2> QED
    BY <2>1, <2>2, <2>3, <2>4 DEF Next
<1>3. GrayInv => RgbShowsFrame
  <2> SUFFICES ASSUME GrayInv, Delivered, frame.format # "Rgb8"
               PROVE  to_rgb_image(frame) = frame.pixels
    BY DEF RgbShowsFrame, to_rgb_image
  <2> DEFINE n == frame.width * frame.height
  <2>1. n \in 0 .. U32 - 1 /\ frame.pixels = [k \in 1 .. n |-> <<k - 1>>]
    BY DEF GrayInv
  <2>2. to_rgb_image(frame) = [k \in 1 .. n |-> frame.pixels[((k - 1) % U32) + 1]]
    BY DEF to_rgb_image
  <2> HIDE DEF n
  <2>3. \A k \in 1 .. n : ((k - 1) % U32) + 1 = k
    <3>1. n \in Nat /\ n < U32 /\ U32 \in Nat \ {0}
      BY <2>1, WidthsAssumption
    <3>2. \A a \in 0 .. U32 - 1 : a % U32 = a
      BY <3>1
    <3>3. \A k \in 1 .. n : k - 1 \in 0 .. U32 - 1
      BY <3>1
    <3> QED
      BY <3>1, <3>2, <3>3
  <2>4. to_rgb_image(frame) = [k \in 1 .. n |-> <<k - 1>>]
    <3> DEFINE shown == frame.pixels
    <3>1. \A k \in 1 .. n : shown[k] = <<k - 1>>
      BY <2>1
    <3> HIDE DEF shown
    <3>2. [k \in 1 .. n |-> shown[((k - 1) % U32) + 1]] = [k \in 1 .. n |-> <<k - 1>>]
      BY <2>3, <3>1
    <3> QED
      BY <2>2, <3>2 DEF shown
  <2> QED
    BY <2>1, <2>4
<1> QED
  BY <1>1, <1>2, <1>3, PTL DEF Spec

-------------------------------------------------------------------------------
(* Pictures, as functions on the positions 1 .. w * h.                     *)

Pixels(n) == [1 .. n -> Seq(Nat)]

(* Every pixel of turned is one of pixels.                                 *)
Shows(turned, pixels) == \A k \in DOMAIN turned : \E j \in DOMAIN pixels : turned[k] = pixels[j]

Distinct(pixels) == \A i, j \in DOMAIN pixels : pixels[i] = pixels[j] => i = j

(* Rows do not overlap.                                                    *)
LEMMA AtLeast ==
  ASSUME NEW a \in Nat, NEW b \in Nat, NEW w \in Nat, a < b
  PROVE  a * w + w <= b * w
OBVIOUS

(* Quotient and remainder by a variable.                                   *)
LEMMA DivMod ==
  ASSUME NEW n \in Nat, NEW w \in Nat \ {0}
  PROVE  /\ n \div w \in Nat /\ n % w \in 0 .. w - 1
         /\ n = (n \div w) * w + (n % w)
OBVIOUS

(* A number has one quotient and one remainder.                            *)
LEMMA OneQuotient ==
  ASSUME NEW w \in Nat \ {0}, NEW a \in Nat, NEW b \in Nat,
         NEW r \in 0 .. w - 1, NEW q \in 0 .. w - 1, a * w + r = b * w + q
  PROVE  a = b /\ r = q
<1>1. a * w \in Nat /\ b * w \in Nat
  OBVIOUS
<1>2. ~ a < b
  <2>1. a < b => a * w + w <= b * w
    BY AtLeast
  <2> QED BY <1>1, <2>1
<1>3. ~ b < a
  <2>1. b < a => b * w + w <= a * w
    BY AtLeast
  <2> QED BY <1>1, <2>1
<1>4. a = b
  BY <1>2, <1>3
<1> QED BY <1>1, <1>4

(* The row and the column of a position.                                   *)
LEMMA RowAndColumn ==
  ASSUME NEW w \in Nat, NEW h \in Nat, NEW k \in 1 .. w * h
  PROVE  /\ w # 0 /\ h # 0
         /\ (k - 1) \div w \in 0 .. h - 1
         /\ (k - 1) % w \in 0 .. w - 1
         /\ k = ((k - 1) \div w) * w + ((k - 1) % w) + 1
<1> DEFINE row == (k - 1) \div w
           col == (k - 1) % w
<1>1. w # 0 /\ h # 0
  <2>1. w * h # 0
    OBVIOUS
  <2> QED BY <2>1
<1>2. k - 1 \in Nat /\ k \in Nat /\ w * h \in Nat /\ k <= w * h
  OBVIOUS
<1>3. row \in Nat /\ col \in 0 .. w - 1 /\ k - 1 = row * w + col
  BY <1>1, <1>2, DivMod
<1>4. row < h
  <2> HIDE DEF row, col
  <2>1. ~ row < h => h * w <= row * w
    <3>1. CASE h < row
      BY <3>1, <1>3, AtLeast
    <3> QED BY <3>1, <1>3
  <2>2. h * w = w * h /\ row * w \in Nat
    BY <1>3
  <2> QED BY <1>2, <1>3, <2>1, <2>2
<1> HIDE DEF row, col
<1>5. row * w \in Nat
  BY <1>3
<1> QED BY <1>1, <1>2, <1>3, <1>4, <1>5 DEF row, col

(* The position of a row and a column leads back to them.                  *)
LEMMA PositionOf ==
  ASSUME NEW w \in Nat, NEW h \in Nat, NEW row \in 0 .. h - 1, NEW col \in 0 .. w - 1
  PROVE  /\ row * w + col + 1 \in 1 .. w * h
         /\ (row * w + col + 1 - 1) \div w = row
         /\ (row * w + col + 1 - 1) % w = col
<1> DEFINE n == row * w + col
<1>1. w \in Nat \ {0} /\ row \in Nat /\ col \in Nat /\ row * w \in Nat /\ w * h = h * w
  OBVIOUS
<1>2. row * w + w <= h * w
  BY <1>1, AtLeast
<1>3. n \in Nat /\ n + 1 <= w * h /\ w * h \in Nat
  BY <1>1, <1>2
<1>4. row * w + col + 1 - 1 = n /\ row * w + col + 1 = n + 1
  BY <1>1
<1>5. n \div w = row /\ n % w = col
  <2>1. n \div w \in Nat /\ n % w \in 0 .. w - 1 /\ n = (n \div w) * w + (n % w)
    BY <1>1, <1>3, DivMod
  <2> QED BY <1>1, <2>1, OneQuotient
<1> QED BY <1>3, <1>4, <1>5

(* Pixels in payload order are all different.                              *)
LEMMA InOrderPixels ==
  ASSUME NEW w \in Nat, NEW h \in Nat
  PROVE  InOrder(w, h) \in Pixels(w * h) /\ Distinct(InOrder(w, h))
<1> DEFINE n == w * h
<1>1. n \in Nat
  OBVIOUS
<1> HIDE DEF n
<1>2. \A k \in 1 .. n : k - 1 \in Nat /\ <<k - 1>> \in Seq(Nat)
  BY <1>1
<1>3. \A i, j \in 1 .. n : <<i - 1>> = <<j - 1>> => i = j
  BY <1>1
<1>4. InOrder(w, h) = [k \in 1 .. n |-> <<k - 1>>]
  BY DEF InOrder, n
<1>5. InOrder(w, h) \in [1 .. n -> Seq(Nat)]
  BY <1>2, <1>4
<1>6. Distinct(InOrder(w, h))
  BY <1>3, <1>4 DEF Distinct
<1> QED BY <1>5, <1>6 DEF Pixels, n

(* A decoded YUYV pixel: its own y byte, and the u and v of its pair, none *)
(* behind the last byte of the picture.                                    *)
LEMMA YuyvPixel ==
  ASSUME NEW w \in Nat, NEW h \in Nat, w % 2 = 0, NEW k \in 1 .. w * h
  PROVE  \E i \in Nat :
           /\ YuyvPixels(w, h)[k] = <<2 * (k - 1), i + 1, i + 3>>
           /\ i + 3 < w * h * 2
<1> DEFINE row == (k - 1) \div w
           col == (k - 1) % w
           i == row * w * 2 + (col - (col % 2)) * 2
<1>1. w \in Nat \ {0} /\ row \in Nat /\ col \in 0 .. w - 1 /\ k - 1 = row * w + col
  BY RowAndColumn
<1>2. PICK v \in Nat : w = 2 * v
  <2>1. w = 2 * (w \div 2) /\ w \div 2 \in Nat
    OBVIOUS
  <2> QED BY <2>1
<1>3. row * w = 2 * (row * v) /\ row * v \in Nat
  BY <1>1, <1>2
<1>4. w * h = 2 * (v * h) /\ v * h \in Nat
  BY <1>2
<1>5. YuyvPixels(w, h)[k] = <<i + 2 * (col % 2), i + 1, i + 3>>
  BY DEF YuyvPixels
<1> DEFINE a == row * v
           b == v * h
<1>6. a \in Nat /\ b \in Nat /\ k - 1 = 2 * a + col /\ k <= 2 * b /\ k \in Nat
  BY <1>1, <1>3, <1>4
<1>7. i = a * 4 + (col - (col % 2)) * 2
  <2>1. row * w = 2 * a /\ row * w * 2 = (row * w) * 2
    BY <1>3
  <2> HIDE DEF row, col, a
  <2> QED BY <1>1, <1>6, <2>1
<1> HIDE DEF row, col, a, b, i
<1>8. /\ i \in Nat
      /\ i + 2 * (col % 2) = 2 * (k - 1)
      /\ i + 3 < 4 * b
  BY <1>1, <1>6, <1>7
<1>9. w * h * 2 = 4 * b
  BY <1>4 DEF b
<1> QED BY <1>5, <1>8, <1>9

(* So are those of a YUYV picture of an even width, by their y bytes.      *)
LEMMA YuyvPixelsWhole ==
  ASSUME NEW w \in Nat, NEW h \in Nat, w % 2 = 0
  PROVE  YuyvPixels(w, h) \in Pixels(w * h) /\ Distinct(YuyvPixels(w, h))
<1> DEFINE n == w * h
           pixels == YuyvPixels(w, h)
<1>1. n \in Nat
  OBVIOUS
<1>2. \A k \in 1 .. n : \E i \in Nat : pixels[k] = <<2 * (k - 1), i + 1, i + 3>>
  BY YuyvPixel
<1>3. DOMAIN pixels = 1 .. n /\ pixels = [k \in 1 .. n |-> pixels[k]]
  BY DEF YuyvPixels
<1> HIDE DEF n, pixels
<1>4. ASSUME NEW k \in 1 .. n PROVE pixels[k] \in Seq(Nat) /\ pixels[k][1] = 2 * (k - 1)
  <2>1. PICK i \in Nat : pixels[k] = <<2 * (k - 1), i + 1, i + 3>>
    BY <1>2
  <2>2. 2 * (k - 1) \in Nat /\ i + 1 \in Nat /\ i + 3 \in Nat
    BY <1>1
  <2> QED BY <2>1, <2>2
<1>5. pixels \in [1 .. n -> Seq(Nat)]
  BY <1>3, <1>4
<1>6. \A i, j \in 1 .. n : 2 * (i - 1) = 2 * (j - 1) => i = j
  BY <1>1
<1>7. Distinct(pixels)
  BY <1>3, <1>4, <1>6 DEF Distinct
<1> QED BY <1>5, <1>7 DEF Pixels, n, pixels

(* Pixels in another order are the same pixels, and still all different.   *)
LEMMA Permuted ==
  ASSUME NEW n \in Nat, NEW pixels \in Pixels(n), Distinct(pixels),
         NEW from \in [1 .. n -> 1 .. n],
         \A i, j \in 1 .. n : from[i] = from[j] => i = j,
         NEW turned, turned = [k \in 1 .. n |-> pixels[from[k]]]
  PROVE  turned \in Pixels(n) /\ Distinct(turned) /\ Shows(turned, pixels)
<1>1. DOMAIN pixels = 1 .. n /\ \A k \in 1 .. n : pixels[k] \in Seq(Nat)
  BY DEF Pixels
<1>2. \A k \in 1 .. n : from[k] \in 1 .. n
  OBVIOUS
<1>3. turned \in [1 .. n -> Seq(Nat)]
  BY <1>1, <1>2
<1>4. ASSUME NEW i \in 1 .. n, NEW j \in 1 .. n, turned[i] = turned[j] PROVE i = j
  <2>1. pixels[from[i]] = pixels[from[j]]
    BY <1>4
  <2>2. from[i] = from[j]
    BY <1>1, <1>2, <2>1 DEF Distinct
  <2> QED BY <2>2
<1>5. DOMAIN turned = 1 .. n
  OBVIOUS
<1>6. Shows(turned, pixels)
  BY <1>1, <1>2, <1>5 DEF Shows
<1> QED BY <1>3, <1>4, <1>5, <1>6 DEF Pixels, Distinct

(* Rotating by 180 degrees permutes the pixels.                            *)
LEMMA Rotate180Pixels ==
  ASSUME NEW n \in Nat, NEW pixels \in Pixels(n), Distinct(pixels)
  PROVE  /\ Rotate180(pixels) \in Pixels(n)
         /\ Distinct(Rotate180(pixels))
         /\ Shows(Rotate180(pixels), pixels)
<1> DEFINE from == [k \in 1 .. n |-> n + 1 - k]
<1>1. from \in [1 .. n -> 1 .. n] /\ \A i, j \in 1 .. n : from[i] = from[j] => i = j
  OBVIOUS
<1>2. DOMAIN pixels = 1 .. n /\ Len(pixels) = n
  BY DEF Pixels
<1>3. Rotate180(pixels) = [k \in 1 .. n |-> pixels[n + 1 - k]]
  BY <1>2 DEF Rotate180
<1>4. Rotate180(pixels) = [k \in 1 .. n |-> pixels[from[k]]]
  BY <1>3
<1> HIDE DEF from
<1> QED BY <1>1, <1>4, Permuted

(* So does flipping, row by row.                                           *)
LEMMA FlipVerticalPixels ==
  ASSUME NEW w \in Nat, NEW h \in Nat, NEW pixels \in Pixels(w * h), Distinct(pixels)
  PROVE  /\ FlipVertical(pixels, w, h) \in Pixels(w * h)
         /\ Distinct(FlipVertical(pixels, w, h))
         /\ Shows(FlipVertical(pixels, w, h), pixels)
<1> DEFINE n == w * h
           Row(k) == (k - 1) \div w
           Col(k) == (k - 1) % w
           from == [k \in 1 .. n |-> (h - 1 - Row(k)) * w + Col(k) + 1]
<1>1. n \in Nat
  OBVIOUS
<1>2. ASSUME NEW k \in 1 .. n
      PROVE  /\ w # 0 /\ h - 1 - Row(k) \in 0 .. h - 1 /\ Col(k) \in 0 .. w - 1
             /\ Row(k) \in 0 .. h - 1
             /\ k = Row(k) * w + Col(k) + 1
  <2>1. /\ w # 0
        /\ Row(k) \in 0 .. h - 1 /\ Col(k) \in 0 .. w - 1
        /\ k = Row(k) * w + Col(k) + 1
    BY RowAndColumn
  <2> DEFINE a == Row(k)
  <2>2. a \in 0 .. h - 1 => h - 1 - a \in 0 .. h - 1
    <3> HIDE DEF a
    <3> QED OBVIOUS
  <2> HIDE DEF Row, Col
  <2> QED BY <2>1, <2>2
<1> HIDE DEF Row, Col, n
<1>3. ASSUME NEW k \in 1 .. n PROVE from[k] \in 1 .. n
  BY <1>2, PositionOf DEF n
<1>4. ASSUME NEW i \in 1 .. n, NEW j \in 1 .. n, from[i] = from[j] PROVE i = j
  <2>1. (h - 1 - Row(i)) * w + Col(i) + 1 = (h - 1 - Row(j)) * w + Col(j) + 1
    BY <1>4
  <2> DEFINE a == h - 1 - Row(i)
             b == h - 1 - Row(j)
  <2>2. a \in Nat /\ b \in Nat /\ a * w \in Nat /\ b * w \in Nat /\ w \in Nat \ {0}
    BY <1>2
  <2>3. a * w + Col(i) = b * w + Col(j)
    <3>1. Col(i) \in Nat /\ Col(j) \in Nat /\ a * w + Col(i) + 1 = b * w + Col(j) + 1
      BY <1>2, <2>1
    <3> HIDE DEF a, b
    <3> QED BY <2>2, <3>1
  <2> DEFINE r == Col(i)
             q == Col(j)
  <2>4. a = b /\ r = q
    <3>1. r \in 0 .. w - 1 /\ q \in 0 .. w - 1
      BY <1>2
    <3>2. a * w + r = b * w + q
      BY <2>3
    <3> HIDE DEF a, b, r, q
    <3> QED BY <2>2, <3>1, <3>2, OneQuotient
  <2>5. Row(i) = Row(j)
    <3> DEFINE x == Row(i)
               y == Row(j)
    <3>1. x \in Int /\ y \in Int /\ h - 1 - x = h - 1 - y
      BY <1>2, <2>4
    <3> HIDE DEF x, y
    <3>2. x = y
      BY <3>1
    <3> QED BY <3>2 DEF x, y
  <2> QED BY <1>2, <2>4, <2>5
<1>5. DOMAIN pixels = 1 .. n
  BY DEF Pixels, n
<1>6. FlipVertical(pixels, w, h) = [k \in 1 .. n |-> pixels[from[k]]]
  BY <1>5 DEF FlipVertical, Row, Col
<1>7. from \in [1 .. n -> 1 .. n]
  BY <1>3
<1> HIDE DEF from
<1> QED BY <1>1, <1>4, <1>6, <1>7, Permuted DEF n

(* So does rotating by 90 degrees, where rows become columns.              *)
LEMMA Rotate90Pixels ==
  ASSUME NEW w \in Nat, NEW h \in Nat, NEW pixels \in Pixels(w * h), Distinct(pixels)
  PROVE  Rotate90(pixels, w, h) \in Pixels(w * h) /\ Distinct(Rotate90(pixels, w, h))
<1> DEFINE n == w * h
           Row(k) == (k - 1) \div h
           Col(k) == (k - 1) % h
           from == [k \in 1 .. n |-> (h - 1 - Col(k)) * w + Row(k) + 1]
<1>1. n \in Nat /\ n = h * w
  OBVIOUS
<1>2. ASSUME NEW k \in 1 .. n
      PROVE  /\ w # 0 /\ h - 1 - Col(k) \in 0 .. h - 1 /\ Row(k) \in 0 .. w - 1
             /\ Col(k) \in 0 .. h - 1
             /\ k = Row(k) * h + Col(k) + 1
  <2>1. k \in 1 .. h * w
    BY <1>1
  <2>2. /\ w # 0
        /\ Row(k) \in 0 .. w - 1 /\ Col(k) \in 0 .. h - 1
        /\ k = Row(k) * h + Col(k) + 1
    <3> HIDE DEF n
    <3> QED BY <2>1, RowAndColumn
  <2> DEFINE a == Col(k)
  <2>3. a \in 0 .. h - 1 => h - 1 - a \in 0 .. h - 1
    <3> HIDE DEF a
    <3> QED OBVIOUS
  <2> HIDE DEF Row, Col
  <2> QED BY <2>2, <2>3
<1> HIDE DEF Row, Col, n
<1>3. ASSUME NEW k \in 1 .. n PROVE from[k] \in 1 .. n
  BY <1>2, PositionOf DEF n
<1>4. ASSUME NEW i \in 1 .. n, NEW j \in 1 .. n, from[i] = from[j] PROVE i = j
  <2>1. (h - 1 - Col(i)) * w + Row(i) + 1 = (h - 1 - Col(j)) * w + Row(j) + 1
    BY <1>4
  <2> DEFINE a == h - 1 - Col(i)
             b == h - 1 - Col(j)
  <2>2. a \in Nat /\ b \in Nat /\ a * w \in Nat /\ b * w \in Nat /\ w \in Nat \ {0}
    BY <1>2
  <2>3. a * w + Row(i) = b * w + Row(j)
    <3>1. Row(i) \in Nat /\ Row(j) \in Nat /\ a * w + Row(i) + 1 = b * w + Row(j) + 1
      BY <1>2, <2>1
    <3> HIDE DEF a, b
    <3> QED BY <2>2, <3>1
  <2> DEFINE r == Row(i)
             q == Row(j)
  <2>4. a = b /\ r = q
    <3>1. r \in 0 .. w - 1 /\ q \in 0 .. w - 1
      BY <1>2
    <3>2. a * w + r = b * w + q
      BY <2>3
    <3> HIDE DEF a, b, r, q
    <3> QED BY <2>2, <3>1, <3>2, OneQuotient
  <2>5. Col(i) = Col(j)
    <3> DEFINE x == Col(i)
               y == Col(j)
    <3>1. x \in Int /\ y \in Int /\ h - 1 - x = h - 1 - y
      BY <1>2, <2>4
    <3> HIDE DEF x, y
    <3>2. x = y
      BY <3>1
    <3> QED BY <3>2 DEF x, y
  <2> QED BY <1>2, <2>4, <2>5
<1>5. DOMAIN pixels = 1 .. n
  BY DEF Pixels, n
<1>6. Rotate90(pixels, w, h) = [k \in 1 .. n |-> pixels[from[k]]]
  BY <1>5 DEF Rotate90, Row, Col
<1>7. from \in [1 .. n -> 1 .. n]
  BY <1>3
<1> HIDE DEF from
<1> QED BY <1>1, <1>4, <1>6, <1>7, Permuted DEF n

-------------------------------------------------------------------------------
(* What each decoder, the sensor fix and Frame::new return.                *)

Session ==
  [modality : Modality, fix : V4lPixelFix, fourcc : Fourcc,
   width : 0 .. U32 - 1, height : 0 .. U32 - 1]

Sent == Payloads \cup {[len |-> 0, jpeg |-> NotJpeg]}

(* A product that fits does not wrap.                                      *)
LEMMA SmallMod ==
  ASSUME NEW n \in Nat, NEW m \in Nat, n < m
  PROVE  n % m = n
OBVIOUS

(* Pixels are a sequence, as the assumption on outcomes has them.          *)
LEMMA PixelsAreSeq ==
  ASSUME NEW n \in Nat, NEW pixels \in Pixels(n)
  PROVE  pixels \in Seq(Seq(Nat)) /\ Len(pixels) = n /\ DOMAIN pixels = 1 .. n
BY DEF Pixels

(* A picture is neither an error nor a panic.                              *)
LEMMA PictureIsNoOutcome ==
  ASSUME NEW w \in Nat, NEW h \in Nat, NEW n \in Nat, NEW pixels \in Pixels(n),
         NEW oriented \in BOOLEAN
  PROVE  Picture(w, h, pixels, oriented) \notin {NoFrame, Error, Panic}
BY PixelsAreSeq, OutcomesAssumption DEF Picture

(* A JPEG is decoded to a whole picture, turned as its EXIF data say.      *)
LEMMA MjpegDecoded ==
  ASSUME NEW payload \in Sent, payload.jpeg # NotJpeg
  PROVE  \E w, h \in 0 .. U32 - 1, oriented \in BOOLEAN :
           \E pixels \in Pixels(w * h) :
             /\ decode_mjpeg_apply_exif(payload) = Picture(w, h, pixels, oriented)
             /\ Distinct(pixels)
             /\ w * h = payload.jpeg.size[1] * payload.jpeg.size[2]
             /\ oriented <=> payload.jpeg.orientation # "NoTransforms"
             /\ ~ oriented => pixels = InOrder(w, h)
<1> DEFINE w == payload.jpeg.size[1]
           h == payload.jpeg.size[2]
           turn == payload.jpeg.orientation
           d == decode_mjpeg_apply_exif(payload)
<1>1. payload.jpeg \in Jpeg
  BY CameraAssumption DEF Sent
<1>2. w \in 0 .. U32 - 1 /\ h \in 0 .. U32 - 1 /\ turn \in Orientation
  BY <1>1, CameraAssumption DEF Jpeg
<1>3. d = CASE turn = "NoTransforms" -> Picture(w, h, InOrder(w, h), FALSE)
            [] turn = "Rotate180" -> Picture(w, h, Rotate180(InOrder(w, h)), TRUE)
            [] turn = "Rotate90" -> Picture(h, w, Rotate90(InOrder(w, h), w, h), TRUE)
  BY DEF decode_mjpeg_apply_exif
<1>4. w \in Nat /\ h \in Nat /\ w * h \in Nat /\ w * h = h * w
  <2> HIDE DEF w, h
  <2> QED BY <1>2, WidthsAssumption
<1> HIDE DEF w, h, turn, d
<1>5. InOrder(w, h) \in Pixels(w * h) /\ Distinct(InOrder(w, h))
  BY <1>4, InOrderPixels
<1>6. CASE turn = "NoTransforms"
  BY <1>2, <1>3, <1>5, <1>6 DEF w, h, turn, d
<1>7. CASE turn = "Rotate180"
  <2>1. /\ Rotate180(InOrder(w, h)) \in Pixels(w * h)
        /\ Distinct(Rotate180(InOrder(w, h)))
    BY <1>4, <1>5, Rotate180Pixels
  <2>2. d = Picture(w, h, Rotate180(InOrder(w, h)), TRUE)
    BY <1>3, <1>7
  <2> QED BY <1>2, <1>7, <2>1, <2>2 DEF w, h, turn, d
<1>8. CASE turn = "Rotate90"
  <2>1. /\ Rotate90(InOrder(w, h), w, h) \in Pixels(w * h)
        /\ Distinct(Rotate90(InOrder(w, h), w, h))
    BY <1>4, <1>5, Rotate90Pixels
  <2>2. d = Picture(h, w, Rotate90(InOrder(w, h), w, h), TRUE)
    BY <1>3, <1>8
  <2>3. Rotate90(InOrder(w, h), w, h) \in Pixels(h * w)
    BY <1>4, <2>1
  <2>4. h * w = w * h /\ "Rotate90" # "NoTransforms"
    BY <1>4
  <2> QED BY <1>2, <1>8, <2>1, <2>2, <2>3, <2>4 DEF w, h, turn, d
<1> QED BY <1>2, <1>6, <1>7, <1>8 DEF Orientation

(* A YUYV payload fails for its width, its size or its length.             *)
LEMMA YuyvDecoded ==
  ASSUME NEW w \in Nat, NEW h \in Nat, NEW len \in Nat, NEW checked \in BOOLEAN
  PROVE  LET d == yuyv_to_rgb(len, w, h, checked) IN
           \/ d = Error /\ (w % 2 # 0 \/ Huge(w, h) \/ len < w * h * 2)
           \/ d = Panic /\ Huge(w, h)
           \/ /\ d = Picture(w, h, YuyvPixels(w, h), FALSE)
              /\ w % 2 = 0
              /\ Huge(w, h) \/ w * h * 2 <= len
<1> DEFINE n == w * h
<1>1. n \in Nat /\ Usize \in Nat
  BY WidthsAssumption
<1>2. CASE w % 2 # 0
  BY <1>2 DEF yuyv_to_rgb
<1>3. CASE w % 2 = 0 /\ Huge(w, h)
  BY <1>3 DEF yuyv_to_rgb, YuyvLoop
<1>4. CASE w % 2 = 0 /\ ~ Huge(w, h)
  <2>1. n * 3 < Usize /\ n * 2 < Usize
    <3> HIDE DEF n
    <3>1. n * 3 < Usize
      BY <1>1, <1>4 DEF Huge, n
    <3> QED BY <1>1, <3>1
  <2>2. (w * h * 2) % Usize = n * 2 /\ (w * h * 3) % Usize = n * 3
    <3> HIDE DEF n
    <3>1. (n * 2) % Usize = n * 2 /\ (n * 3) % Usize = n * 3
      BY <1>1, <2>1, SmallMod
    <3> QED BY <3>1 DEF n
  <2>3. w > 0 /\ h > 0 => PairsEnd(w, h) = n
    <3>1. 2 * ((w + 1) \div 2) = w
      BY <1>4
    <3>2. (h - 1) * w + w = n
      OBVIOUS
    <3> QED BY <3>1, <3>2 DEF PairsEnd
  <2>4. YuyvLoop(w, h) = Picture(w, h, YuyvPixels(w, h), FALSE)
    <3> DEFINE a == (w * h * 2) % Usize
               b == (w * h * 3) % Usize
               e == PairsEnd(w, h)
    <3>1. w > 0 /\ h > 0 => ~ (e * 2 > a) /\ ~ (e * 3 > b)
      <4>1. a = n * 2 /\ b = n * 3 /\ (w > 0 /\ h > 0 => e = n)
        BY <2>2, <2>3
      <4> HIDE DEF n, a, b, e
      <4> QED BY <1>1, <4>1
    <3>2. YuyvLoop(w, h) =
            IF w > 0 /\ h > 0 /\ (e * 2 > a \/ e * 3 > b)
            THEN Panic ELSE Picture(w, h, YuyvPixels(w, h), FALSE)
      BY DEF YuyvLoop
    <3> HIDE DEF a, b, e
    <3> QED BY <3>1, <3>2
  <2>5. ~ (w * h * 2 >= Usize)
    <3>1. w * h * 2 = n * 2
      OBVIOUS
    <3> HIDE DEF n
    <3> QED BY <1>1, <2>1, <3>1
  <2>6. yuyv_to_rgb(len, w, h, checked) =
          IF len < n * 2 THEN Error ELSE Picture(w, h, YuyvPixels(w, h), FALSE)
    BY <1>4, <2>2, <2>4, <2>5 DEF yuyv_to_rgb
  <2>7. len < n * 2 \/ n * 2 <= len
    <3> HIDE DEF n
    <3> QED BY <1>1
  <2> QED BY <1>4, <2>6, <2>7
<1> QED BY <1>2, <1>3, <1>4

(* A grey payload of a colour session fails for its length or its size.    *)
LEMMA GreyDecoded ==
  ASSUME NEW w \in Nat, NEW h \in Nat, NEW len \in Nat, NEW checked \in BOOLEAN
  PROVE  LET d == grey8_to_rgb(len, w, h, checked) IN
           \/ d = Error /\ len < w * h
           \/ d = Panic /\ Huge(w, h)
           \/ d = Picture(w, h, InOrder(w, h), FALSE) /\ w * h <= len
<1>1. w * h \in Nat
  OBVIOUS
<1>2. len < w * h \/ w * h <= len
  BY <1>1
<1> QED BY <1>2 DEF grey8_to_rgb, Huge

(* A grey payload of an IR session also if the u32 product wraps.          *)
LEMMA GreyIrDecoded ==
  ASSUME NEW w \in Nat, NEW h \in Nat, NEW len \in Nat, NEW checked \in BOOLEAN,
         NEW d, d = grey8_of_ir(len, w, h, checked)
  PROVE  \/ d = Error /\ (len < w * h \/ w * h >= U32)
         \/ d = Panic /\ w * h >= U32
         \/ \E n \in Nat : \E pixels \in Pixels(n) :
              /\ d = Picture(w, h, pixels, FALSE)
              /\ n = w * h \/ w * h >= U32
              /\ n = w * h => pixels = InOrder(w, h)
              /\ n <= len
<1> DEFINE m == w * h
           n == m % U32
           pixels == [k \in 1 .. n |-> <<k - 1>>]
<1>1. m \in Nat /\ U32 \in Nat \ {0}
  BY WidthsAssumption
<1> HIDE DEF m
<1>2. n \in Nat /\ (m < U32 => n = m) /\ (m < U32 \/ m >= U32)
  BY <1>1
<1>3. grey8_of_ir(len, w, h, checked) =
        IF checked /\ m >= U32 THEN Panic
        ELSE IF len < n THEN Error ELSE Picture(w, h, pixels, FALSE)
  BY DEF grey8_of_ir, m
<1> HIDE DEF n
<1>4. pixels \in Pixels(n)
  <2>1. \A k \in 1 .. n : k - 1 \in Nat /\ <<k - 1>> \in Seq(Nat)
    BY <1>2
  <2> QED BY <2>1 DEF Pixels
<1>5. n = m => pixels = InOrder(w, h)
  BY DEF InOrder, m
<1>6. len < n \/ n <= len
  BY <1>2
<1> HIDE DEF pixels
<1> QED BY <1>2, <1>3, <1>4, <1>5, <1>6 DEF m

Fixed(pixels, w, h, fix) ==
  CASE fix = "None" -> pixels
    [] fix = "Rotate180" -> Rotate180(pixels)
    [] fix = "FlipVertical" -> FlipVertical(pixels, w, h)

(* The fix turns what is not oriented yet, and keeps every pixel.          *)
LEMMA SensorFixed ==
  ASSUME NEW w \in Nat, NEW h \in Nat, NEW pixels \in Pixels(w * h), Distinct(pixels),
         NEW oriented \in BOOLEAN, NEW fix \in V4lPixelFix
  PROVE  \E turned \in Pixels(w * h) :
           /\ apply_optional_sensor_fix(Picture(w, h, pixels, oriented), fix) =
                Picture(w, h, turned, oriented)
           /\ Distinct(turned) /\ Shows(turned, pixels)
           /\ turned = IF oriented THEN pixels ELSE Fixed(pixels, w, h, fix)
<1> DEFINE d == apply_optional_sensor_fix(Picture(w, h, pixels, oriented), fix)
<1>1. CASE oriented \/ fix = "None"
  <2>1. d = Picture(w, h, pixels, oriented)
    BY <1>1 DEF apply_optional_sensor_fix, Picture
  <2>2. Shows(pixels, pixels)
    BY DEF Shows
  <2>3. pixels = IF oriented THEN pixels ELSE Fixed(pixels, w, h, fix)
    BY <1>1 DEF Fixed
  <2> QED BY <2>1, <2>2, <2>3
<1>2. CASE ~ oriented /\ fix = "Rotate180"
  <2>1. d = Picture(w, h, Rotate180(pixels), oriented)
    BY <1>2 DEF apply_optional_sensor_fix, Picture
  <2>2. w * h \in Nat
    OBVIOUS
  <2>3. /\ Rotate180(pixels) \in Pixels(w * h)
        /\ Distinct(Rotate180(pixels)) /\ Shows(Rotate180(pixels), pixels)
    BY <2>2, Rotate180Pixels
  <2>4. Rotate180(pixels) = IF oriented THEN pixels ELSE Fixed(pixels, w, h, fix)
    BY <1>2 DEF Fixed
  <2> QED BY <2>1, <2>3, <2>4
<1>3. CASE ~ oriented /\ fix = "FlipVertical"
  <2>1. d = Picture(w, h, FlipVertical(pixels, w, h), oriented)
    BY <1>3 DEF apply_optional_sensor_fix, Picture
  <2>2. /\ FlipVertical(pixels, w, h) \in Pixels(w * h)
        /\ Distinct(FlipVertical(pixels, w, h)) /\ Shows(FlipVertical(pixels, w, h), pixels)
    BY FlipVerticalPixels
  <2>3. FlipVertical(pixels, w, h) = IF oriented THEN pixels ELSE Fixed(pixels, w, h, fix)
    BY <1>3 DEF Fixed
  <2> QED BY <2>1, <2>2, <2>3
<1> QED BY <1>1, <1>2, <1>3 DEF V4lPixelFix

FrameOf(m, format, w, h, pixels) ==
  [modality |-> m, width |-> w, height |-> h, format |-> format, pixels |-> pixels]

(* Frame::new refuses what is not whole, and what is too large to be       *)
(* counted.                                                                *)
LEMMA FrameNew ==
  ASSUME NEW m \in Modality, NEW format \in {"Rgb8", "Gray8"}, NEW w \in Nat, NEW h \in Nat,
         NEW n \in Nat, NEW pixels \in Pixels(n), NEW oriented, NEW f,
         f = Frame_new(m, format, Picture(w, h, pixels, oriented))
  PROVE  \/ f = Error /\ (Huge(w, h) \/ n # w * h)
         \/ /\ f = FrameOf(m, format, w, h, pixels)
            /\ f \notin {NoFrame, Error, Panic}
            /\ n = w * h
            /\ format = "Rgb8" => ~ Huge(w, h)
<1> DEFINE bpp == bytes_per_pixel(format)
           c == w * h
<1>1. bpp \in {1, 3} /\ c \in Nat /\ Usize \in Nat
  BY WidthsAssumption DEF bytes_per_pixel
<1>2. Len(pixels) = n /\ pixels \in Seq(Seq(Nat))
  BY PixelsAreSeq
<1>3. Frame_new(m, format, Picture(w, h, pixels, oriented)) =
        IF c * bpp >= Usize \/ n * bpp # c * bpp THEN Error
        ELSE FrameOf(m, format, w, h, pixels)
  BY <1>2 DEF Frame_new, Picture, FrameOf
<1>4. FrameOf(m, format, w, h, pixels) \notin {NoFrame, Error, Panic}
  BY <1>2, OutcomesAssumption DEF FrameOf
<1>5. /\ c * bpp >= Usize => Huge(w, h)
      /\ format = "Rgb8" /\ ~ (c * bpp >= Usize) => ~ Huge(w, h)
  <2>1. (format = "Rgb8" => bpp = 3) /\ (Huge(w, h) <=> c * 3 >= Usize)
    BY DEF bytes_per_pixel, Huge
  <2> HIDE DEF bpp, c
  <2>2. CASE bpp = 1
    BY <1>1, <2>1, <2>2
  <2>3. CASE bpp = 3
    BY <1>1, <2>1, <2>3
  <2> QED BY <1>1, <2>2, <2>3
<1>6. n * bpp # c * bpp <=> n # c
  <2> HIDE DEF bpp, c
  <2> QED BY <1>1
<1> HIDE DEF bpp
<1> QED BY <1>3, <1>4, <1>5, <1>6

-------------------------------------------------------------------------------
(* What next_frame returns.                                                *)

(* Every byte an origin names is one of the first len.                     *)
Within(pixels, len) ==
  \A k \in DOMAIN pixels : \A i \in 1 .. 3 : i \in DOMAIN pixels[k] => pixels[k][i] < len

BadPayload(s, payload) ==
  \/ payload.len = 0
  \/ payload.len > BufferLen
  \/ s.fourcc = "other"
  \/ s.fourcc = "MJPG" /\ payload.jpeg = NotJpeg
  \/ s.fourcc = "MJPG" /\ Huge(payload.jpeg.size[1], payload.jpeg.size[2])
  \/ s.fourcc # "MJPG" /\ Huge(s.width, s.height)
  \/ s.fourcc = "YUYV" /\ s.width % 2 # 0
  \/ s.fourcc # "MJPG" /\ payload.len < BytesNeeded(s)
  \/ IsGray8(s) /\ BytesNeeded(s) >= U32

TooLarge(s) ==
  \/ s.fourcc # "MJPG" /\ Huge(s.width, s.height)
  \/ IsGray8(s) /\ s.width * s.height >= U32

Turned(s, payload) == s.fourcc = "MJPG" /\ payload.jpeg.orientation # "NoTransforms"

RawPixels(s, w, h) == IF s.fourcc = "YUYV" THEN YuyvPixels(w, h) ELSE InOrder(w, h)

GoodFrame(f, s, payload) ==
  /\ f \notin {NoFrame, Error, Panic}
  /\ \E w, h \in 0 .. U32 - 1, format \in {"Rgb8", "Gray8"} : \E pixels \in Pixels(w * h) :
       /\ f = FrameOf(s.modality, format, w, h, pixels)
       /\ Distinct(pixels)
       /\ s.fourcc # "MJPG" => Within(pixels, payload.len)
       /\ Turned(s, payload) => pixels = decode_mjpeg_apply_exif(payload).pixels
       /\ ~ Turned(s, payload) =>
            pixels = IF format = "Gray8" THEN RawPixels(s, w, h)
                     ELSE Fixed(RawPixels(s, w, h), w, h, s.fix)

(* f shows the pixels of a picture after the sensor fix.                   *)
FixedFrame(f, s, w, h, pixels, oriented) ==
  /\ f \notin {NoFrame, Error, Panic}
  /\ ~ Huge(w, h)
  /\ \E turned \in Pixels(w * h) :
       /\ f = FrameOf(s.modality, "Rgb8", w, h, turned)
       /\ Distinct(turned) /\ Shows(turned, pixels)
       /\ turned = IF oriented THEN pixels ELSE Fixed(pixels, w, h, s.fix)

(* A whole picture becomes a frame after the sensor fix, unless it is huge.*)
LEMMA ColourFrame ==
  ASSUME NEW s \in Session, NEW w \in Nat, NEW h \in Nat, NEW pixels \in Pixels(w * h),
         Distinct(pixels), NEW oriented \in BOOLEAN, NEW f,
         f = Frame_new(s.modality, "Rgb8",
               apply_optional_sensor_fix(Picture(w, h, pixels, oriented), s.fix))
  PROVE  (f = Error /\ Huge(w, h)) \/ FixedFrame(f, s, w, h, pixels, oriented)
<1> DEFINE picture == Picture(w, h, pixels, oriented)
           n == w * h
<1>1. s.modality \in Modality /\ s.fix \in V4lPixelFix /\ n \in Nat
  BY DEF Session
<1>2. PICK turned \in Pixels(w * h) :
        /\ apply_optional_sensor_fix(picture, s.fix) = Picture(w, h, turned, oriented)
        /\ Distinct(turned) /\ Shows(turned, pixels)
        /\ turned = IF oriented THEN pixels ELSE Fixed(pixels, w, h, s.fix)
  <2> DEFINE fix == s.fix
  <2>1. fix \in V4lPixelFix
    BY <1>1
  <2> HIDE DEF fix
  <2>2. \E turned \in Pixels(w * h) :
          /\ apply_optional_sensor_fix(Picture(w, h, pixels, oriented), fix) =
               Picture(w, h, turned, oriented)
          /\ Distinct(turned) /\ Shows(turned, pixels)
          /\ turned = IF oriented THEN pixels ELSE Fixed(pixels, w, h, fix)
    BY <2>1, SensorFixed
  <2> QED BY <2>2 DEF fix
<1>4. f = Frame_new(s.modality, "Rgb8", Picture(w, h, turned, oriented))
  BY <1>2
<1>5. \/ f = Error /\ Huge(w, h)
      \/ /\ f = FrameOf(s.modality, "Rgb8", w, h, turned)
         /\ f \notin {NoFrame, Error, Panic}
         /\ ~ Huge(w, h)
  BY <1>1, <1>4, FrameNew
<1> QED BY <1>2, <1>5 DEF FixedFrame

(* The bytes of a YUYV frame, turned or not, are before the end.           *)
LEMMA YuyvWithin ==
  ASSUME NEW w \in Nat, NEW h \in Nat, w % 2 = 0, NEW len \in Nat, w * h * 2 <= len,
         NEW turned \in Pixels(w * h), Shows(turned, YuyvPixels(w, h))
  PROVE  Within(turned, len)
<1> SUFFICES ASSUME NEW k \in DOMAIN turned, NEW i \in 1 .. 3, i \in DOMAIN turned[k]
             PROVE  turned[k][i] < len
  BY DEF Within
<1>1. PICK j \in 1 .. w * h : turned[k] = YuyvPixels(w, h)[j]
  BY DEF Shows, YuyvPixels
<1>2. PICK b \in Nat : /\ YuyvPixels(w, h)[j] = <<2 * (j - 1), b + 1, b + 3>>
                       /\ b + 3 < w * h * 2
  BY YuyvPixel
<1>3. w * h * 2 \in Nat /\ 2 * (j - 1) < w * h * 2 /\ j \in Nat
  <2> DEFINE n == w * h
  <2>1. n \in Nat /\ j \in 1 .. n /\ w * h * 2 = n * 2
    OBVIOUS
  <2> HIDE DEF n
  <2> QED BY <2>1
<1>4. i \in {1, 2, 3}
  OBVIOUS
<1> DEFINE e == w * h * 2
<1>5. turned[k][i] \in {2 * (j - 1), b + 1, b + 3}
  BY <1>1, <1>2, <1>4
<1> HIDE DEF e
<1>6. e \in Nat /\ e <= len /\ 2 * (j - 1) < e /\ b + 3 < e
  BY <1>2, <1>3 DEF e
<1> QED BY <1>3, <1>5, <1>6

(* So are those of a grey frame.                                           *)
LEMMA InOrderWithin ==
  ASSUME NEW w \in Nat, NEW h \in Nat, NEW len \in Nat, w * h <= len,
         NEW turned \in Pixels(w * h), Shows(turned, InOrder(w, h))
  PROVE  Within(turned, len)
<1> DEFINE n == w * h
<1>1. n \in Nat /\ n <= len
  OBVIOUS
<1>2. DOMAIN InOrder(w, h) = 1 .. n /\ \A j \in 1 .. n : InOrder(w, h)[j] = <<j - 1>>
  BY DEF InOrder
<1> HIDE DEF n
<1> SUFFICES ASSUME NEW k \in DOMAIN turned, NEW i \in 1 .. 3, i \in DOMAIN turned[k]
             PROVE  turned[k][i] < len
  BY DEF Within
<1>3. PICK j \in 1 .. n : turned[k] = <<j - 1>>
  BY <1>2 DEF Shows
<1>4. i = 1 /\ turned[k][i] = j - 1
  BY <1>3
<1> QED BY <1>1, <1>4

(* next_frame of a JPEG.                                                   *)
LEMMA MjpegFrame ==
  ASSUME NEW s \in Session, NEW payload \in Sent, s.fourcc = "MJPG"
  PROVE  LET d == decode_mjpeg_apply_exif(payload)
             f == Frame_new(s.modality, "Rgb8", apply_optional_sensor_fix(d, s.fix))
         IN  \/ d = Error /\ BadPayload(s, payload)
             \/ /\ d \notin {Error, Panic}
                /\ (f = Error /\ BadPayload(s, payload)) \/ GoodFrame(f, s, payload)
<1> DEFINE d == decode_mjpeg_apply_exif(payload)
           f == Frame_new(s.modality, "Rgb8", apply_optional_sensor_fix(d, s.fix))
<1>1. CASE payload.jpeg = NotJpeg
  BY <1>1 DEF decode_mjpeg_apply_exif, BadPayload
<1>2. CASE payload.jpeg # NotJpeg
  <2>1. PICK w \in 0 .. U32 - 1, h \in 0 .. U32 - 1, oriented \in BOOLEAN :
          \E pixels \in Pixels(w * h) :
             /\ d = Picture(w, h, pixels, oriented)
             /\ Distinct(pixels)
             /\ w * h = payload.jpeg.size[1] * payload.jpeg.size[2]
             /\ oriented <=> payload.jpeg.orientation # "NoTransforms"
             /\ ~ oriented => pixels = InOrder(w, h)
    BY <1>2, MjpegDecoded
  <2>2. PICK pixels \in Pixels(w * h) :
             /\ d = Picture(w, h, pixels, oriented)
             /\ Distinct(pixels)
             /\ w * h = payload.jpeg.size[1] * payload.jpeg.size[2]
             /\ oriented <=> payload.jpeg.orientation # "NoTransforms"
             /\ ~ oriented => pixels = InOrder(w, h)
    BY <2>1
  <2>3. w \in Nat /\ h \in Nat /\ w * h \in Nat
    BY WidthsAssumption
  <2>4. d \notin {Error, Panic} /\ d.pixels = pixels
    BY <2>2, <2>3, PictureIsNoOutcome DEF Picture
  <2>5. f = Frame_new(s.modality, "Rgb8",
                      apply_optional_sensor_fix(Picture(w, h, pixels, oriented), s.fix))
    BY <2>2
  <2> HIDE DEF d, f
  <2>6. (f = Error /\ Huge(w, h)) \/ FixedFrame(f, s, w, h, pixels, oriented)
    BY <2>2, <2>3, <2>5, ColourFrame
  <2>7. CASE f = Error /\ Huge(w, h)
    <3>1. Huge(payload.jpeg.size[1], payload.jpeg.size[2])
      BY <2>2, <2>7 DEF Huge
    <3> QED BY <2>4, <2>7, <3>1 DEF BadPayload, d, f
  <2>8. ASSUME f \notin {NoFrame, Error, Panic}, NEW turned \in Pixels(w * h),
               f = FrameOf(s.modality, "Rgb8", w, h, turned), Distinct(turned),
               turned = IF oriented THEN pixels ELSE Fixed(pixels, w, h, s.fix)
        PROVE  GoodFrame(f, s, payload)
    <3>1. Turned(s, payload) <=> oriented
      BY <2>2 DEF Turned
    <3>2. RawPixels(s, w, h) = InOrder(w, h)
      BY DEF RawPixels
    <3>3. /\ Turned(s, payload) => turned = decode_mjpeg_apply_exif(payload).pixels
          /\ ~ Turned(s, payload) =>
               turned = IF "Rgb8" = "Gray8" THEN RawPixels(s, w, h)
                        ELSE Fixed(RawPixels(s, w, h), w, h, s.fix)
      BY <2>2, <2>4, <2>8, <3>1, <3>2 DEF d
    <3> QED BY <2>8, <3>3 DEF GoodFrame
  <2> QED BY <2>4, <2>6, <2>7, <2>8 DEF d, f, FixedFrame
<1> QED BY <1>1, <1>2

(* The same for a raw picture in colour: YUYV, or grey for a session that  *)
(* delivers colour.                                                        *)
LEMMA RawFrame ==
  ASSUME NEW s \in Session, NEW payload \in Sent, s.fourcc # "MJPG",
         NEW pixels, pixels = RawPixels(s, s.width, s.height),
         pixels \in Pixels(s.width * s.height), Distinct(pixels),
         NEW d, d = Picture(s.width, s.height, pixels, FALSE),
         Huge(s.width, s.height) \/
           \A turned \in Pixels(s.width * s.height) :
             Shows(turned, pixels) => Within(turned, payload.len),
         NEW f, f = Frame_new(s.modality, "Rgb8", apply_optional_sensor_fix(d, s.fix))
  PROVE  /\ d \notin {Error, Panic}
         /\ (f = Error /\ BadPayload(s, payload)) \/ GoodFrame(f, s, payload)
<1> DEFINE w == s.width
           h == s.height
<1>1. w \in 0 .. U32 - 1 /\ h \in 0 .. U32 - 1
  BY DEF Session
<1>2. pixels = RawPixels(s, w, h) /\ pixels \in Pixels(w * h) /\ d = Picture(w, h, pixels, FALSE)
  OBVIOUS
<1>3. Huge(w, h) \/ \A turned \in Pixels(w * h) :
                      Shows(turned, pixels) => Within(turned, payload.len)
  OBVIOUS
<1>4. Huge(w, h) => BadPayload(s, payload)
  BY DEF BadPayload
<1> HIDE DEF w, h
<1>5. w \in Nat /\ h \in Nat /\ w * h \in Nat
  BY <1>1, WidthsAssumption
<1>6. d \notin {Error, Panic}
  BY <1>2, <1>5, PictureIsNoOutcome
<1>7. f = Frame_new(s.modality, "Rgb8",
                    apply_optional_sensor_fix(Picture(w, h, pixels, FALSE), s.fix))
  BY <1>2
<1>8. (f = Error /\ Huge(w, h)) \/ FixedFrame(f, s, w, h, pixels, FALSE)
  BY <1>2, <1>5, <1>7, ColourFrame
<1>9. ASSUME f \notin {NoFrame, Error, Panic}, ~ Huge(w, h), NEW turned \in Pixels(w * h),
             f = FrameOf(s.modality, "Rgb8", w, h, turned), Distinct(turned),
             Shows(turned, pixels), turned = Fixed(pixels, w, h, s.fix)
      PROVE  GoodFrame(f, s, payload)
  <2>1. Within(turned, payload.len)
    BY <1>3, <1>9
  <2>2. ~ Turned(s, payload)
    BY DEF Turned
  <2>3. turned = IF "Rgb8" = "Gray8" THEN RawPixels(s, w, h)
                 ELSE Fixed(RawPixels(s, w, h), w, h, s.fix)
    BY <1>2, <1>9
  <2> QED BY <1>1, <1>9, <2>1, <2>2, <2>3 DEF GoodFrame
<1> QED BY <1>4, <1>6, <1>8, <1>9 DEF FixedFrame

(* IR sessions of a grey format: the u32 product is the size, or no frame. *)
LEMMA GreyIrFrame ==
  ASSUME NEW s \in Session, NEW payload \in Sent, NEW checked \in BOOLEAN, IsGray8(s),
         NEW d, d = grey8_of_ir(payload.len, s.width, s.height, checked),
         NEW f, f = Frame_new(s.modality, "Gray8", d)
  PROVE  \/ d = Error /\ BadPayload(s, payload)
         \/ d = Panic /\ TooLarge(s)
         \/ /\ d \notin {Error, Panic}
            /\ (f = Error /\ BadPayload(s, payload)) \/ GoodFrame(f, s, payload)
<1> DEFINE w == s.width
           h == s.height
           len == payload.len
<1>1. w \in 0 .. U32 - 1 /\ h \in 0 .. U32 - 1 /\ s.modality \in Modality
  BY DEF Session
<1>2. s.fourcc \in {"GREY", "Y800"} /\ BytesNeeded(s) = w * h
  <2>1. s.fourcc \in {"GREY", "Y800"}
    BY DEF IsGray8
  <2>2. w * h * 1 = w * h
    BY <1>1, WidthsAssumption
  <2> QED BY <2>1, <2>2 DEF BytesNeeded
<1>3. /\ len < w * h => BadPayload(s, payload)
      /\ w * h >= U32 => BadPayload(s, payload) /\ TooLarge(s)
      /\ Huge(w, h) => BadPayload(s, payload)
  BY <1>2 DEF BadPayload, TooLarge
<1>4. len \in Nat
  BY CameraAssumption DEF Sent
<1>5. d = grey8_of_ir(len, w, h, checked)
  OBVIOUS
<1> HIDE DEF w, h, len
<1>6. w \in Nat /\ h \in Nat /\ w * h \in Nat
  BY <1>1, WidthsAssumption
<1>7. \/ d = Error /\ (len < w * h \/ w * h >= U32)
      \/ d = Panic /\ w * h >= U32
      \/ \E n \in Nat : \E pixels \in Pixels(n) :
           /\ d = Picture(w, h, pixels, FALSE)
           /\ n = w * h \/ w * h >= U32
           /\ n = w * h => pixels = InOrder(w, h)
           /\ n <= len
  BY <1>4, <1>5, <1>6, GreyIrDecoded
<1>8. ASSUME NEW n \in Nat, NEW pixels \in Pixels(n),
             d = Picture(w, h, pixels, FALSE), n = w * h \/ w * h >= U32,
             n = w * h => pixels = InOrder(w, h), n <= len
      PROVE  /\ d \notin {Error, Panic}
             /\ (f = Error /\ BadPayload(s, payload)) \/ GoodFrame(f, s, payload)
  <2>1. d \notin {Error, Panic}
    BY <1>6, <1>8, PictureIsNoOutcome
  <2>2. f = Frame_new(s.modality, "Gray8", Picture(w, h, pixels, FALSE))
    BY <1>8
  <2>3. \/ f = Error /\ (Huge(w, h) \/ n # w * h)
        \/ /\ f = FrameOf(s.modality, "Gray8", w, h, pixels)
           /\ f \notin {NoFrame, Error, Panic}
           /\ n = w * h
    <3> DEFINE m == s.modality
               format == "Gray8"
               oriented == FALSE
    <3>1. m \in Modality /\ format \in {"Rgb8", "Gray8"} /\ oriented \in BOOLEAN
      BY <1>1
    <3>2. f = Frame_new(m, format, Picture(w, h, pixels, oriented))
      BY <2>2
    <3> HIDE DEF m, format, oriented
    <3>3. \/ f = Error /\ (Huge(w, h) \/ n # w * h)
          \/ /\ f = FrameOf(m, format, w, h, pixels)
             /\ f \notin {NoFrame, Error, Panic}
             /\ n = w * h
      BY <1>6, <3>1, <3>2, FrameNew
    <3> QED BY <3>3 DEF m, format
  <2>4. CASE f = Error /\ (Huge(w, h) \/ n # w * h)
    BY <1>3, <1>8, <2>1, <2>4
  <2>5. CASE /\ f = FrameOf(s.modality, "Gray8", w, h, pixels)
             /\ f \notin {NoFrame, Error, Panic}
             /\ n = w * h
    <3>1. pixels = InOrder(w, h) /\ pixels \in Pixels(w * h) /\ Distinct(pixels)
      BY <1>6, <1>8, <2>5, InOrderPixels
    <3>2. Within(pixels, len)
      <4>1. Shows(pixels, InOrder(w, h))
        BY <3>1 DEF Shows
      <4> QED BY <1>4, <1>6, <1>8, <2>5, <3>1, <4>1, InOrderWithin
    <3>3. ~ Turned(s, payload) /\ RawPixels(s, w, h) = InOrder(w, h)
      BY <1>2 DEF Turned, RawPixels
    <3>4. pixels = IF "Gray8" = "Gray8" THEN RawPixels(s, w, h)
                   ELSE Fixed(RawPixels(s, w, h), w, h, s.fix)
      BY <3>1, <3>3
    <3> QED BY <1>1, <2>1, <2>5, <3>1, <3>2, <3>3, <3>4 DEF GoodFrame, len
  <2> QED BY <2>3, <2>4, <2>5
<1> QED BY <1>3, <1>7, <1>8

(* next_frame of any payload in any session.                               *)
LEMMA NextFrameResult ==
  ASSUME NEW s \in Session, NEW payload \in Sent, NEW checked \in BOOLEAN,
         NEW f, f = next_frame(s, payload, checked)
  PROVE  \/ f = Error /\ BadPayload(s, payload)
         \/ f = Panic /\ TooLarge(s)
         \/ GoodFrame(f, s, payload)
<1> DEFINE d == Decoded(s, payload, checked)
           colour == Frame_new(s.modality, "Rgb8", apply_optional_sensor_fix(d, s.fix))
           grey == Frame_new(s.modality, "Gray8", d)
           w == s.width
           h == s.height
           len == payload.len
<1>1. /\ w \in Nat /\ h \in Nat /\ len \in Nat
      /\ s.fourcc \in Fourcc /\ s.modality \in Modality
  BY CameraAssumption, WidthsAssumption DEF Session, Sent
<1>2. \/ f = Error /\ BadPayload(s, payload)
      \/ f = IF d \in {Error, Panic} THEN d ELSE IF IsGray8(s) THEN grey ELSE colour
  BY DEF next_frame, BadPayload
<1>3. CASE s.fourcc = "MJPG"
  <2>1. d = decode_mjpeg_apply_exif(payload) /\ ~ IsGray8(s)
    BY <1>3 DEF Decoded, IsGray8
  <2>2. \/ d = Error /\ BadPayload(s, payload)
        \/ /\ d \notin {Error, Panic}
           /\ (colour = Error /\ BadPayload(s, payload)) \/ GoodFrame(colour, s, payload)
    BY <1>3, <2>1, MjpegFrame
  <2> HIDE DEF d, colour, grey
  <2> QED BY <1>2, <2>1, <2>2
<1>4. CASE s.fourcc = "other"
  <2>1. BadPayload(s, payload) /\ d = Error
    BY <1>4 DEF BadPayload, Decoded
  <2> HIDE DEF d, colour, grey
  <2> QED BY <1>2, <2>1
<1>5. CASE IsGray8(s)
  <2>1. s.fourcc \in {"GREY", "Y800"} /\ s.modality = "Ir"
    BY <1>5 DEF IsGray8
  <2>2. d = grey8_of_ir(payload.len, s.width, s.height, checked)
    BY <2>1 DEF Decoded
  <2> HIDE DEF d, colour
  <2>3. \/ d = Error /\ BadPayload(s, payload)
        \/ d = Panic /\ TooLarge(s)
        \/ /\ d \notin {Error, Panic}
           /\ (grey = Error /\ BadPayload(s, payload)) \/ GoodFrame(grey, s, payload)
    BY <1>5, <2>2, GreyIrFrame
  <2> HIDE DEF grey
  <2> QED BY <1>2, <1>5, <2>3
<1>6. CASE s.fourcc = "YUYV"
  <2>1. d = yuyv_to_rgb(len, w, h, checked) /\ ~ IsGray8(s)
    BY <1>6 DEF Decoded, IsGray8
  <2> DEFINE pixels == YuyvPixels(w, h)
  <2>2. BytesNeeded(s) = w * h * 2 /\ RawPixels(s, w, h) = pixels
    BY <1>6 DEF BytesNeeded, RawPixels
  <2>3. \/ d = Error /\ (w % 2 # 0 \/ Huge(w, h) \/ len < w * h * 2)
        \/ d = Panic /\ Huge(w, h)
        \/ /\ d = Picture(w, h, pixels, FALSE)
           /\ w % 2 = 0
           /\ Huge(w, h) \/ w * h * 2 <= len
    <3> HIDE DEF w, h, len, d
    <3> QED BY <1>1, <2>1, YuyvDecoded
  <2>4. /\ w % 2 # 0 \/ Huge(w, h) \/ len < w * h * 2 => BadPayload(s, payload)
        /\ Huge(w, h) => TooLarge(s)
    BY <1>6, <2>2 DEF BadPayload, TooLarge
  <2>5. ASSUME d = Picture(w, h, pixels, FALSE), w % 2 = 0, Huge(w, h) \/ w * h * 2 <= len
        PROVE  /\ d \notin {Error, Panic}
               /\ (colour = Error /\ BadPayload(s, payload)) \/ GoodFrame(colour, s, payload)
    <3>1. pixels \in Pixels(w * h) /\ Distinct(pixels)
      <4> HIDE DEF w, h
      <4> QED BY <1>1, <2>5, YuyvPixelsWhole
    <3>2. Huge(w, h) \/ \A turned \in Pixels(w * h) : Shows(turned, pixels) => Within(turned, len)
      <4> HIDE DEF w, h, len
      <4> QED BY <1>1, <2>5, YuyvWithin
    <3> HIDE DEF d, pixels
    <3> QED BY <1>6, <2>2, <2>5, <3>1, <3>2, RawFrame
  <2>6. \/ d = Error /\ BadPayload(s, payload)
        \/ d = Panic /\ TooLarge(s)
        \/ /\ d \notin {Error, Panic}
           /\ (colour = Error /\ BadPayload(s, payload)) \/ GoodFrame(colour, s, payload)
    <3> HIDE DEF d, colour, w, h, len, pixels
    <3> QED BY <2>3, <2>4, <2>5
  <2> HIDE DEF d, colour, grey
  <2> QED BY <1>2, <2>1, <2>6
<1>7. CASE s.fourcc \in {"GREY", "Y800"} /\ s.modality = "Rgb"
  <2>1. d = grey8_to_rgb(len, w, h, checked) /\ ~ IsGray8(s)
    BY <1>7 DEF Decoded, IsGray8
  <2> DEFINE pixels == InOrder(w, h)
  <2>2. BytesNeeded(s) = w * h /\ RawPixels(s, w, h) = pixels
    <3>1. w * h * 1 = w * h
      <4> HIDE DEF w, h
      <4> QED BY <1>1
    <3> QED BY <1>7, <3>1 DEF BytesNeeded, RawPixels
  <2>3. \/ d = Error /\ len < w * h
        \/ d = Panic /\ Huge(w, h)
        \/ d = Picture(w, h, pixels, FALSE) /\ w * h <= len
    <3> HIDE DEF w, h, len, d
    <3> QED BY <1>1, <2>1, GreyDecoded
  <2>4. /\ len < w * h => BadPayload(s, payload)
        /\ Huge(w, h) => TooLarge(s)
    BY <1>7, <2>2 DEF BadPayload, TooLarge
  <2>5. ASSUME d = Picture(w, h, pixels, FALSE), w * h <= len
        PROVE  /\ d \notin {Error, Panic}
               /\ (colour = Error /\ BadPayload(s, payload)) \/ GoodFrame(colour, s, payload)
    <3>1. pixels \in Pixels(w * h) /\ Distinct(pixels)
      <4> HIDE DEF w, h
      <4> QED BY <1>1, InOrderPixels
    <3>2. Huge(w, h) \/ \A turned \in Pixels(w * h) : Shows(turned, pixels) => Within(turned, len)
      <4> HIDE DEF w, h, len
      <4> QED BY <1>1, <2>5, InOrderWithin
    <3> HIDE DEF d, pixels
    <3> QED BY <1>7, <2>2, <2>5, <3>1, <3>2, RawFrame
  <2>6. \/ d = Error /\ BadPayload(s, payload)
        \/ d = Panic /\ TooLarge(s)
        \/ /\ d \notin {Error, Panic}
           /\ (colour = Error /\ BadPayload(s, payload)) \/ GoodFrame(colour, s, payload)
    <3> HIDE DEF d, colour, w, h, len, pixels
    <3> QED BY <2>3, <2>4, <2>5
  <2> HIDE DEF d, colour, grey
  <2> QED BY <1>2, <2>1, <2>6
<1> QED BY <1>1, <1>3, <1>4, <1>5, <1>6, <1>7 DEF Fourcc, Modality, IsGray8

(* Different pixels are as many as there are positions.                    *)
LEMMA DistinctCount ==
  ASSUME NEW n \in Nat, NEW pixels \in Pixels(n), Distinct(pixels)
  PROVE  Cardinality({pixels[k] : k \in DOMAIN pixels}) = n
<1> DEFINE shown == {pixels[k] : k \in DOMAIN pixels}
<1>1. DOMAIN pixels = 1 .. n /\ pixels = [k \in 1 .. n |-> pixels[k]]
  BY DEF Pixels
<1>2. pixels \in [1 .. n -> shown]
  BY <1>1
<1>3. pixels \in Bijection(1 .. n, shown)
  BY <1>1, <1>2 DEF Distinct, Bijection, Injection, Surjection, IsInjective
<1>4. IsFiniteSet(1 .. n) /\ Cardinality(1 .. n) = n
  <2>1. IsFiniteSet(1 .. n) /\ Cardinality(1 .. n) = IF 1 > n THEN 0 ELSE n - 1 + 1
    BY FS_Interval
  <2> QED BY <2>1
<1> HIDE DEF shown
<1>5. ExistsBijection(1 .. n, shown)
  BY <1>3 DEF ExistsBijection
<1>6. Cardinality(shown) = Cardinality(1 .. n)
  BY <1>4, <1>5, FS_Bijection
<1> QED BY <1>4, <1>6 DEF shown

-------------------------------------------------------------------------------
(* Whatever is in frame came from next_frame for this session and payload. *)

MadeInv ==
  /\ session \in {Closed} \cup Session
  /\ sent \in Sent
  /\ frame # NoFrame =>
       /\ session \in Session
       /\ \E checked \in BOOLEAN : frame = next_frame(session, sent, checked)

(* negotiate_format grants a format or reports that there is none.         *)
LEMMA Negotiated ==
  ASSUME NEW driver \in Drivers, NEW m \in Modality, negotiate_format(driver, m) # Refused
  PROVE  negotiate_format(driver, m) \in Fourcc
<1> DEFINE wanted == Preferences(m)
           granted == {i \in DOMAIN wanted : driver[wanted[i]] # Refused}
           first == CHOOSE i \in granted : \A j \in granted : i <= j
<1>1. wanted \in Seq(Fourcc) /\ DOMAIN wanted = 1 .. Len(wanted) /\ Len(wanted) \in {2, 4}
  <2>1. CASE m = "Rgb"
    <3>1. wanted = <<"MJPG", "YUYV", "GREY", "Y800">>
      BY <2>1 DEF Preferences
    <3> HIDE DEF wanted
    <3> QED BY <3>1 DEF Fourcc
  <2>2. CASE m # "Rgb"
    <3>1. wanted = <<"GREY", "Y800">>
      BY <2>2 DEF Preferences
    <3> HIDE DEF wanted
    <3> QED BY <3>1 DEF Fourcc
  <2> HIDE DEF wanted
  <2> QED BY <2>1, <2>2
<1>2. granted # {}
  BY DEF negotiate_format
<1>3. granted \subseteq 1 .. 4
  BY <1>1
<1>4. negotiate_format(driver, m) = driver[wanted[first]]
  BY <1>2 DEF negotiate_format
<1> HIDE DEF granted
<1>5. \E i \in granted : \A j \in granted : i <= j
  <2>1. CASE 1 \in granted
    BY <1>3, <2>1
  <2>2. CASE 1 \notin granted /\ 2 \in granted
    BY <1>3, <2>2
  <2>3. CASE granted \subseteq {3, 4} /\ 3 \in granted
    BY <1>3, <2>3
  <2>4. CASE granted \subseteq {4}
    <3>1. 4 \in granted
      BY <1>2, <2>4
    <3> QED BY <2>4, <3>1
  <2> QED BY <1>3, <2>1, <2>2, <2>3, <2>4
<1>6. first \in granted
  BY <1>5
<1>7. first \in 1 .. Len(wanted)
  BY <1>1, <1>6 DEF granted
<1> HIDE DEF first
<1>8. wanted[first] \in Fourcc
  BY <1>1, <1>7
<1> QED BY <1>4, <1>6, <1>8, CameraAssumption DEF granted

(* MadeInv is kept by every step.                                          *)
LEMMA MadeStep ==
  ASSUME MadeInv, [Next]_decodeVars
  PROVE  MadeInv'
<1>1. CASE UNCHANGED decodeVars
  BY <1>1 DEF decodeVars, MadeInv
<1>2. ASSUME NEW m \in Modality, NEW fix \in V4lPixelFix, NEW driver \in Drivers,
             NEW size \in Sizes, Open(m, fix, driver, size)
      PROVE  MadeInv'
  <2>1. negotiate_format(driver, m) \in Fourcc
    BY <1>2, Negotiated DEF Open
  <2>2. size[1] \in 0 .. U32 - 1 /\ size[2] \in 0 .. U32 - 1
    BY CameraAssumption
  <2>3. session' \in Session
    BY <1>2, <2>1, <2>2 DEF Open, Session
  <2>4. frame = NoFrame
    BY <1>2, OutcomesAssumption DEF Open, MadeInv, Session
  <2> QED BY <1>2, <2>3, <2>4 DEF Open, MadeInv
<1>3. ASSUME NEW payload \in Payloads, NEW checked \in BOOLEAN, NextFrame(payload, checked)
      PROVE  MadeInv'
  BY <1>3 DEF NextFrame, MadeInv, Sent
<1>4. CASE Close
  BY <1>4 DEF Close, MadeInv, Sent
<1> QED BY <1>1, <1>2, <1>3, <1>4 DEF Next

(* MadeInv always holds.                                                   *)
LEMMA MadeInvariant == Spec => []MadeInv
<1>1. Init => MadeInv
  BY DEF Init, MadeInv, Sent
<1> QED BY <1>1, MadeStep, PTL DEF Spec

(* So a frame, an error and a panic are those of NextFrameResult.          *)
LEMMA Results ==
  ASSUME MadeInv, frame # NoFrame
  PROVE  /\ session \in Session /\ sent \in Sent
         /\ \/ frame = Error /\ BadPayload(session, sent)
            \/ frame = Panic /\ TooLarge(session)
            \/ GoodFrame(frame, session, sent)
BY NextFrameResult DEF MadeInv

(* A payload is refused only if it is empty, short, too long, in a format  *)
(* the code does not support or of a size it cannot count.                 *)
THEOREM CompletePicturesPass == Spec => []OnlyBadPayloadsFail
<1>1. MadeInv => OnlyBadPayloadsFail
  BY Results, OutcomesAssumption DEF GoodFrame, BadPayload, OnlyBadPayloadsFail
<1> QED BY <1>1, MadeInvariant, PTL

(* No payload panics next_frame; only a size beyond the integers does.     *)
THEOREM PayloadsNeverPanic == Spec => []DiesOnlyOfHugeSizes
<1>1. MadeInv => DiesOnlyOfHugeSizes
  BY Results, OutcomesAssumption DEF GoodFrame, TooLarge, DiesOnlyOfHugeSizes
<1> QED BY <1>1, MadeInvariant, PTL

(* The session, the payload and the frame keep to their types.             *)
THEOREM FrameTypeCorrect == Spec => []FrameTypeOK
<1>1. ASSUME MadeInv PROVE FrameTypeOK
  <2>1. ASSUME Delivered
        PROVE  /\ frame.width \in 0 .. U32 - 1 /\ frame.height \in 0 .. U32 - 1
               /\ frame.format \in {"Rgb8", "Gray8"}
    <3>1. GoodFrame(frame, session, sent)
      BY <1>1, <2>1, Results DEF Delivered
    <3> QED BY <3>1 DEF GoodFrame, FrameOf
  <2> QED BY <1>1, <2>1 DEF MadeInv, FrameTypeOK, Session, Sent
<1> QED BY <1>1, MadeInvariant, PTL

(* A frame is a whole picture: a pixel for each position, no two from the  *)
(* same bytes, and none from bytes that were not sent.                     *)
THEOREM FramesWhole == Spec => []FrameWhole
<1>1. ASSUME MadeInv, Delivered
      PROVE  LET shown == {frame.pixels[k] : k \in DOMAIN frame.pixels} IN
               /\ Len(frame.pixels) = frame.width * frame.height
               /\ Cardinality(shown) = Len(frame.pixels)
               /\ session.fourcc # "MJPG" =>
                    \A origin \in shown, i \in 1 .. 3 :
                      i \in DOMAIN origin => origin[i] < sent.len
  <2>1. GoodFrame(frame, session, sent)
    BY <1>1, Results DEF Delivered
  <2>2. PICK w \in 0 .. U32 - 1, h \in 0 .. U32 - 1, format \in {"Rgb8", "Gray8"} :
          \E pixels \in Pixels(w * h) :
            /\ frame = FrameOf(session.modality, format, w, h, pixels)
            /\ Distinct(pixels)
            /\ session.fourcc # "MJPG" => Within(pixels, sent.len)
    BY <2>1 DEF GoodFrame
  <2>3. PICK pixels \in Pixels(w * h) :
            /\ frame = FrameOf(session.modality, format, w, h, pixels)
            /\ Distinct(pixels)
            /\ session.fourcc # "MJPG" => Within(pixels, sent.len)
    BY <2>2
  <2>4. frame.pixels = pixels /\ frame.width = w /\ frame.height = h
    BY <2>3 DEF FrameOf
  <2>5. w * h \in Nat
    BY WidthsAssumption
  <2>6. Len(pixels) = w * h
    BY <2>5, PixelsAreSeq
  <2>7. Cardinality({pixels[k] : k \in DOMAIN pixels}) = w * h
    BY <2>3, <2>5, DistinctCount
  <2>8. ASSUME session.fourcc # "MJPG",
               NEW origin \in {pixels[k] : k \in DOMAIN pixels}, NEW i \in 1 .. 3,
               i \in DOMAIN origin
        PROVE  origin[i] < sent.len
    BY <2>3, <2>8 DEF Within
  <2> QED BY <2>4, <2>6, <2>7, <2>8
<1> QED BY <1>1, MadeInvariant, PTL DEF FrameWhole

(* A colour frame is turned once: as its EXIF orientation says, or else by *)
(* the sensor fix; frames of a grey IR camera are not turned.              *)
THEOREM FramesTurnedOnce == Spec => []TurnedOnce
<1>1. ASSUME MadeInv, Delivered PROVE TurnedOnce
  <2>1. GoodFrame(frame, session, sent)
    BY <1>1, Results DEF Delivered
  <2>2. PICK w \in 0 .. U32 - 1, h \in 0 .. U32 - 1, format \in {"Rgb8", "Gray8"} :
          \E pixels \in Pixels(w * h) :
            /\ frame = FrameOf(session.modality, format, w, h, pixels)
            /\ Turned(session, sent) => pixels = decode_mjpeg_apply_exif(sent).pixels
            /\ ~ Turned(session, sent) =>
                 pixels = IF format = "Gray8" THEN RawPixels(session, w, h)
                          ELSE Fixed(RawPixels(session, w, h), w, h, session.fix)
    BY <2>1 DEF GoodFrame
  <2>3. PICK pixels \in Pixels(w * h) :
            /\ frame = FrameOf(session.modality, format, w, h, pixels)
            /\ Turned(session, sent) => pixels = decode_mjpeg_apply_exif(sent).pixels
            /\ ~ Turned(session, sent) =>
                 pixels = IF format = "Gray8" THEN RawPixels(session, w, h)
                          ELSE Fixed(RawPixels(session, w, h), w, h, session.fix)
    BY <2>2
  <2> DEFINE raw == RawPixels(session, w, h)
             fix == session.fix
             n == w * h
  <2>4. /\ frame.pixels = pixels /\ frame.width = w /\ frame.height = h
        /\ frame.format = format
    BY <2>3 DEF FrameOf
  <2>5. w \in Nat /\ h \in Nat /\ n \in Nat /\ fix \in V4lPixelFix
    BY <1>1, <2>1, Results, WidthsAssumption DEF Delivered, Session
  <2>6. DOMAIN raw = 1 .. n /\ Len(raw) = n
    <3>1. DOMAIN raw = 1 .. n
      BY DEF RawPixels, InOrder, YuyvPixels
    <3>2. Len(raw) = n
      <4> HIDE DEF raw, n
      <4> QED BY <2>5, <3>1
    <3> QED BY <3>1, <3>2
  <2>7. ASSUME ~ Turned(session, sent), NEW row \in 0 .. h - 1, NEW col \in 0 .. w - 1
        PROVE  pixels[row * w + col + 1] =
                 CASE format = "Gray8" \/ fix = "None" -> raw[row * w + col + 1]
                   [] format # "Gray8" /\ fix = "Rotate180" ->
                        raw[(h - 1 - row) * w + (w - 1 - col) + 1]
                   [] format # "Gray8" /\ fix = "FlipVertical" ->
                        raw[(h - 1 - row) * w + col + 1]
    <3> DEFINE k == row * w + col + 1
    <3>1. k \in 1 .. n /\ (k - 1) \div w = row /\ (k - 1) % w = col
      BY <2>5, PositionOf
    <3>2. pixels = IF format = "Gray8" THEN raw ELSE Fixed(raw, w, h, fix)
      BY <2>3, <2>7
    <3>3. CASE format = "Gray8" \/ fix = "None"
      BY <3>2, <3>3 DEF Fixed
    <3>4. CASE format # "Gray8" /\ fix = "Rotate180"
      <4>1. pixels = Rotate180(raw)
        BY <3>2, <3>4 DEF Fixed
      <4>2. pixels[k] = raw[n + 1 - k]
        <5> HIDE DEF raw, n, k
        <5> QED BY <2>6, <3>1, <4>1 DEF Rotate180
      <4>3. n + 1 - k = (h - 1 - row) * w + (w - 1 - col) + 1
        <5>1. /\ row \in Nat /\ col \in Nat /\ row * w \in Nat /\ n = h * w
              /\ (h - 1 - row) * w = h * w - w - row * w
          BY <2>5
        <5> QED BY <2>5, <5>1
      <4> QED BY <3>4, <4>2, <4>3
    <3>5. CASE format # "Gray8" /\ fix = "FlipVertical"
      <4>1. pixels = FlipVertical(raw, w, h)
        BY <3>2, <3>5 DEF Fixed
      <4>2. pixels[k] = raw[(h - 1 - row) * w + col + 1]
        <5> HIDE DEF raw, n, k
        <5> QED BY <2>6, <3>1, <4>1 DEF FlipVertical
      <4> QED BY <3>5, <4>2
    <3> QED BY <2>5, <3>3, <3>4, <3>5 DEF V4lPixelFix
  <2>8. Turned(session, sent) => frame.pixels = decode_mjpeg_apply_exif(sent).pixels
    BY <2>3, <2>4
  <2>9. ASSUME ~ Turned(session, sent), NEW row \in 0 .. h - 1, NEW col \in 0 .. w - 1
        PROVE  frame.pixels[row * w + col + 1] =
                  CASE frame.format = "Gray8" \/ session.fix = "None" -> raw[row * w + col + 1]
                    [] frame.format # "Gray8" /\ session.fix = "Rotate180" ->
                         raw[(h - 1 - row) * w + (w - 1 - col) + 1]
                    [] frame.format # "Gray8" /\ session.fix = "FlipVertical" ->
                         raw[(h - 1 - row) * w + col + 1]
    <3> DEFINE plain == raw[row * w + col + 1]
               rotated == raw[(h - 1 - row) * w + (w - 1 - col) + 1]
               flipped == raw[(h - 1 - row) * w + col + 1]
               pixel == pixels[row * w + col + 1]
    <3>1. pixel = CASE format = "Gray8" \/ fix = "None" -> plain
                    [] format # "Gray8" /\ fix = "Rotate180" -> rotated
                    [] format # "Gray8" /\ fix = "FlipVertical" -> flipped
      BY <2>7, <2>9
    <3>2. frame.pixels[row * w + col + 1] = pixel
      BY <2>4
    <3> HIDE DEF plain, rotated, flipped, pixel
    <3>3. frame.pixels[row * w + col + 1] =
            CASE frame.format = "Gray8" \/ session.fix = "None" -> plain
              [] frame.format # "Gray8" /\ session.fix = "Rotate180" -> rotated
              [] frame.format # "Gray8" /\ session.fix = "FlipVertical" -> flipped
      <4>1. CASE format = "Gray8" \/ fix = "None"
        BY <2>4, <3>1, <3>2, <4>1
      <4>2. CASE format # "Gray8" /\ fix = "Rotate180"
        BY <2>4, <3>1, <3>2, <4>2
      <4>3. CASE format # "Gray8" /\ fix = "FlipVertical"
        BY <2>4, <3>1, <3>2, <4>3
      <4> QED BY <2>5, <4>1, <4>2, <4>3 DEF V4lPixelFix
    <3> QED BY <3>3 DEF plain, rotated, flipped
  <2>10. frame.width = w /\ frame.height = h
    BY <2>4
  <2> HIDE DEF fix, n
  <2> QED BY <2>8, <2>9, <2>10 DEF TurnedOnce, Turned, RawPixels
<1> QED BY <1>1, MadeInvariant, PTL DEF TurnedOnce

===============================================================================
