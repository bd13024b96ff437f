----------------------------- MODULE FrameDecode -----------------------------
(***************************************************************************)
(* From a camera payload to a Frame and to the image the face models read: *)
(* negotiate_format and next_frame of outbound/video/v4l.rs, Frame::new of *)
(* trueid-core, to_rgb_image of outbound/frame_rgb.rs.                     *)
(*                                                                         *)
(* A pixel is not a colour here but where its colour comes from: the tuple *)
(* of payload bytes (of JPEG pixels for MJPG) it is computed from.  So a   *)
(* pixel that is lost, shown twice, shifted or turned is a wrong value.    *)
(* u32 and usize keep their widths, as U32 and Usize values; a product     *)
(* that does not fit ends the process in a build with overflow checks and  *)
(* wraps in a release build.                                               *)
(***************************************************************************)
EXTENDS Integers, Sequences, FiniteSets

CONSTANTS
  U32, Usize,   (* the numbers of values of u32 and usize                  *)
  Sizes,        (* the <<width, height>> a driver may set                  *)
  Drivers,      (* how a driver answers a set_format request per fourcc:   *)
                (* it sets that fourcc or another one, or refuses          *)
  Payloads,     (* what stream.next may deliver                            *)
  BufferLen,    (* the length of a stream buffer                           *)
  Refused, NotJpeg, Closed, NoFrame, Error, Panic

Fourcc == {"MJPG", "YUYV", "GREY", "Y800", "other"}
Modality == {"Rgb", "Ir"}
V4lPixelFix == {"None", "Rotate180", "FlipVertical"}
Orientation == {"NoTransforms", "Rotate180", "Rotate90"}
Jpeg == [size : Sizes, orientation : Orientation]

ASSUME WidthsAssumption ==
  /\ U32 \in Nat \ {0}
  /\ Usize \in Nat
  /\ U32 * U32 <= Usize

ASSUME CameraAssumption ==
  /\ Sizes \subseteq (0 .. U32 - 1) \X (0 .. U32 - 1)
  /\ Drivers \subseteq [Fourcc -> Fourcc \cup {Refused}]
  /\ Payloads \subseteq [len : Nat, jpeg : Jpeg \cup {NotJpeg}]
  /\ BufferLen \in Nat

(* Result::Err, Option::None and a panic are no values of the types here.  *)
ASSUME OutcomesAssumption ==
  /\ Error # Panic /\ NotJpeg \notin Jpeg
  /\ Closed \notin [modality : Modality, fix : V4lPixelFix, fourcc : Fourcc,
                    width : 0 .. U32 - 1, height : 0 .. U32 - 1]
  /\ \A outcome \in {NoFrame, Error, Panic} :
       /\ outcome \notin [width : Nat, height : Nat, pixels : Seq(Seq(Nat)), oriented : BOOLEAN]
       /\ outcome \notin [modality : Modality, width : Nat, height : Nat,
                         format : {"Rgb8", "Gray8"}, pixels : Seq(Seq(Nat))]
  /\ NoFrame \notin {Error, Panic}

VARIABLES
  session,      (* the V4lVideoSession: what it was opened with, or Closed *)
  sent,         (* the last payload                                        *)
  frame         (* what next_frame made of it                              *)

decodeVars == <<session, sent, frame>>

-------------------------------------------------------------------------------
(* Pixels, row by row                                                      *)

InOrder(w, h) == [k \in 1 .. w * h |-> <<k - 1>>]

(* Two columns share their u and v bytes.                                  *)
YuyvPixels(w, h) ==
  [k \in 1 .. w * h |->
     LET row == (k - 1) \div w
         col == (k - 1) % w
         i == row * w * 2 + (col - (col % 2)) * 2
     IN  <<i + 2 * (col % 2), i + 1, i + 3>>]

Rotate180(pixels) == [k \in DOMAIN pixels |-> pixels[Len(pixels) + 1 - k]]

FlipVertical(pixels, w, h) ==
  [k \in DOMAIN pixels |-> pixels[(h - 1 - (k - 1) \div w) * w + ((k - 1) % w) + 1]]

Rotate90(pixels, w, h) ==
  [k \in DOMAIN pixels |-> pixels[(h - 1 - ((k - 1) % h)) * w + (k - 1) \div h + 1]]

Picture(w, h, pixels, oriented) ==
  [width |-> w, height |-> h, pixels |-> pixels, oriented |-> oriented]

-------------------------------------------------------------------------------
(* Decoders.  Each yields a picture, Error or Panic.                       *)

Preferences(m) ==
  IF m = "Rgb" THEN <<"MJPG", "YUYV", "GREY", "Y800">> ELSE <<"GREY", "Y800">>

(* The answer to the first request the driver does not refuse.             *)
negotiate_format(driver, m) ==
  LET granted == {i \in DOMAIN Preferences(m) : driver[Preferences(m)[i]] # Refused}
  IN  IF granted = {} THEN Refused
      ELSE driver[Preferences(m)[CHOOSE i \in granted : \A j \in granted : i <= j]]

(* apply_orientation of the image library, then to_rgb8.                   *)
decode_mjpeg_apply_exif(payload) ==
  IF payload.jpeg = NotJpeg THEN Error
  ELSE LET w == payload.jpeg.size[1]
           h == payload.jpeg.size[2]
       IN  CASE payload.jpeg.orientation = "NoTransforms" ->
                  Picture(w, h, InOrder(w, h), FALSE)
             [] payload.jpeg.orientation = "Rotate180" ->
                  Picture(w, h, Rotate180(InOrder(w, h)), TRUE)
             [] payload.jpeg.orientation = "Rotate90" ->
                  Picture(h, w, Rotate90(InOrder(w, h), w, h), TRUE)

(* What the loop over pairs of columns reads of the payload and writes.    *)
PairsEnd(w, h) == (h - 1) * w + 2 * ((w + 1) \div 2)

YuyvLoop(w, h) ==
  IF /\ w > 0 /\ h > 0
     /\ \/ PairsEnd(w, h) * 2 > (w * h * 2) % Usize
        \/ PairsEnd(w, h) * 3 > (w * h * 3) % Usize
  THEN Panic
  ELSE Picture(w, h, YuyvPixels(w, h), FALSE)

(* Faulty variant: odd widths are decoded like even ones.                  *)
yuyv_to_rgb_any_width(len, w, h, checked) ==
  IF checked /\ w * h * 2 >= Usize THEN Panic
  ELSE IF len < (w * h * 2) % Usize THEN Error
  ELSE YuyvLoop(w, h)

yuyv_to_rgb(len, w, h, checked) ==
  IF w % 2 # 0 THEN Error
  ELSE IF checked /\ w * h * 2 >= Usize THEN Panic
  ELSE IF len < (w * h * 2) % Usize THEN Error
  ELSE YuyvLoop(w, h)

(* Faulty variant: the last byte of the payload is not counted.            *)
grey8_to_rgb_short_by_one(len, w, h, checked) ==
  IF len <= w * h THEN Error
  ELSE IF checked /\ w * h * 3 >= Usize THEN Panic
  ELSE Picture(w, h, InOrder(w, h), FALSE)

(* The product of two u32 fits a usize: checked_mul never fails.           *)
grey8_to_rgb(len, w, h, checked) ==
  IF len < w * h THEN Error
  ELSE IF checked /\ w * h * 3 >= Usize THEN Panic
  ELSE Picture(w, h, InOrder(w, h), FALSE)

(* Faulty variant: a fix for the wrapping product, in usize.               *)
grey8_of_ir_in_usize(len, w, h, checked) ==
  IF len < w * h THEN Error ELSE Picture(w, h, InOrder(w, h), FALSE)

(* The u32 product of the IR branch; the bytes up to it are taken.         *)
grey8_of_ir(len, w, h, checked) ==
  LET expected == (w * h) % U32 IN
    IF checked /\ w * h >= U32 THEN Panic
    ELSE IF len < expected THEN Error
    ELSE Picture(w, h, [k \in 1 .. expected |-> <<k - 1>>], FALSE)

(* Faulty variant: the fix is applied to oriented pictures as well.        *)
apply_optional_sensor_fix_twice(picture, fix) ==
  LET w == picture.width
      h == picture.height
  IN  CASE fix = "None" -> picture
        [] fix = "Rotate180" -> [picture EXCEPT !.pixels = Rotate180(@)]
        [] fix = "FlipVertical" -> [picture EXCEPT !.pixels = FlipVertical(@, w, h)]

apply_optional_sensor_fix(picture, fix) ==
  LET w == picture.width
      h == picture.height
  IN  IF picture.oriented THEN picture
      ELSE CASE fix = "None" -> picture
             [] fix = "Rotate180" -> [picture EXCEPT !.pixels = Rotate180(@)]
             [] fix = "FlipVertical" -> [picture EXCEPT !.pixels = FlipVertical(@, w, h)]

(* Faulty variant: Frame::new does not compare the lengths.                *)
Frame_new_unchecked(modality, format, picture) ==
  [modality |-> modality, width |-> picture.width, height |-> picture.height,
   format |-> format, pixels |-> picture.pixels]

bytes_per_pixel(format) == IF format = "Rgb8" THEN 3 ELSE 1

(* The products of expected_len are checked.                               *)
Frame_new(modality, format, picture) ==
  LET expected == picture.width * picture.height * bytes_per_pixel(format) IN
    IF expected >= Usize \/ Len(picture.pixels) * bytes_per_pixel(format) # expected
    THEN Error
    ELSE [modality |-> modality, width |-> picture.width, height |-> picture.height,
          format |-> format, pixels |-> picture.pixels]

-------------------------------------------------------------------------------

(* The branches of decode_payload before the sensor fix.                   *)
Decoded(s, payload, checked) ==
  CASE s.fourcc = "MJPG" -> decode_mjpeg_apply_exif(payload)
    [] s.fourcc = "YUYV" -> yuyv_to_rgb(payload.len, s.width, s.height, checked)
    [] s.fourcc \in {"GREY", "Y800"} /\ s.modality = "Ir" ->
         grey8_of_ir(payload.len, s.width, s.height, checked)
    [] s.fourcc \in {"GREY", "Y800"} /\ s.modality = "Rgb" ->
         grey8_to_rgb(payload.len, s.width, s.height, checked)
    [] s.fourcc = "other" -> Error

IsGray8(s) == s.fourcc \in {"GREY", "Y800"} /\ s.modality = "Ir"

(* grab_raw_payload, decode_payload, Frame::new.                           *)
next_frame(s, payload, checked) ==
  LET picture == Decoded(s, payload, checked) IN
    IF payload.len = 0 \/ payload.len > BufferLen THEN Error
    ELSE IF picture \in {Error, Panic} THEN picture
    ELSE IF IsGray8(s) THEN Frame_new(s.modality, "Gray8", picture)
    ELSE Frame_new(s.modality, "Rgb8", apply_optional_sensor_fix(picture, s.fix))

(* The pixels of the image built from a frame; the index of a Gray8 pixel  *)
(* is computed in u32.                                                     *)
to_rgb_image(f) ==
  IF f.format = "Rgb8" THEN f.pixels
  ELSE [k \in 1 .. f.width * f.height |-> f.pixels[((k - 1) % U32) + 1]]

-------------------------------------------------------------------------------

Init ==
  /\ session = Closed
  /\ sent = [len |-> 0, jpeg |-> NotJpeg]
  /\ frame = NoFrame

(* Faulty variant: the last request is taken to be granted.                *)
Open_unnegotiated(m, fix, driver, size) ==
  /\ session = Closed
  /\ session' = [modality |-> m, fix |-> fix, fourcc |-> negotiate_format(driver, m),
                 width |-> size[1], height |-> size[2]]
  /\ UNCHANGED <<sent, frame>>

Open(m, fix, driver, size) ==
  /\ session = Closed
  /\ negotiate_format(driver, m) # Refused
  /\ session' = [modality |-> m, fix |-> fix, fourcc |-> negotiate_format(driver, m),
                 width |-> size[1], height |-> size[2]]
  /\ UNCHANGED <<sent, frame>>

NextFrame(payload, checked) ==
  /\ session # Closed
  /\ frame # Panic
  /\ sent' = payload
  /\ frame' = next_frame(session, payload, checked)
  /\ UNCHANGED session

(* The session is dropped, or the process has died of a panic.             *)
Close ==
  /\ session # Closed
  /\ session' = Closed
  /\ sent' = [len |-> 0, jpeg |-> NotJpeg]
  /\ frame' = NoFrame

Next ==
  \/ \E m \in Modality, fix \in V4lPixelFix, driver \in Drivers, size \in Sizes :
       Open(m, fix, driver, size)
  \/ \E payload \in Payloads, checked \in BOOLEAN : NextFrame(payload, checked)
  \/ Close

Spec == Init /\ [][Next]_decodeVars

-------------------------------------------------------------------------------
(* Properties                                                              *)

Delivered == frame \notin {NoFrame, Error, Panic}

(* Sessions and payloads are those of the camera, and a frame keeps the    *)
(* sizes of u32.                                                           *)
FrameTypeOK ==
  /\ session \in {Closed} \cup
       [modality : Modality, fix : V4lPixelFix, fourcc : Fourcc,
        width : 0 .. U32 - 1, height : 0 .. U32 - 1]
  /\ sent \in Payloads \cup {[len |-> 0, jpeg |-> NotJpeg]}
  /\ Delivered =>
       /\ frame.width \in 0 .. U32 - 1 /\ frame.height \in 0 .. U32 - 1
       /\ frame.format \in {"Rgb8", "Gray8"}

(* A frame is a whole picture, whatever the format, the size and the       *)
(* build: one pixel per position, no two of the same origin, and none from *)
(* bytes the camera did not send.                                          *)
FrameWhole ==
  Delivered =>
    LET shown == {frame.pixels[k] : k \in DOMAIN frame.pixels} IN
      /\ Len(frame.pixels) = frame.width * frame.height
      /\ Cardinality(shown) = Len(frame.pixels)
      /\ session.fourcc # "MJPG" =>
           \A origin \in shown, i \in 1 .. 3 :
             i \in DOMAIN origin => origin[i] < sent.len

(* The image the face models read shows the frame, pixel by pixel: a size  *)
(* whose u32 index would wrap in the conversion never becomes a frame.     *)
RgbShowsFrame == Delivered => to_rgb_image(frame) = frame.pixels

(* A colour frame is turned once: as its EXIF orientation says if it has   *)
(* one, otherwise by the configured sensor fix.  IR frames of a grey       *)
(* format are as the sensor sends them.                                    *)
TurnedOnce ==
  Delivered =>
    LET exif == session.fourcc = "MJPG" /\ sent.jpeg.orientation # "NoTransforms"
        w == frame.width
        h == frame.height
        raw == IF session.fourcc = "YUYV" THEN YuyvPixels(w, h) ELSE InOrder(w, h)
    IN
      /\ exif => frame.pixels = decode_mjpeg_apply_exif(sent).pixels
      /\ ~ exif =>
           \A row \in 0 .. h - 1, col \in 0 .. w - 1 :
             frame.pixels[row * w + col + 1] =
               CASE frame.format = "Gray8" \/ session.fix = "None" -> raw[row * w + col + 1]
                 [] frame.format # "Gray8" /\ session.fix = "Rotate180" ->
                      raw[(h - 1 - row) * w + (w - 1 - col) + 1]
                 [] frame.format # "Gray8" /\ session.fix = "FlipVertical" ->
                      raw[(h - 1 - row) * w + col + 1]

Huge(w, h) == w * h * 3 >= Usize

BytesNeeded(s) == s.width * s.height * (IF s.fourcc = "YUYV" THEN 2 ELSE 1)

(* A picture the camera sent completely, in a format the code supports, is *)
(* never refused: an error has one of these reasons.                       *)
OnlyBadPayloadsFail ==
  frame = Error =>
    \/ sent.len = 0
    \/ sent.len > BufferLen
    \/ session.fourcc = "other"
    \/ session.fourcc = "MJPG" /\ sent.jpeg = NotJpeg
    \/ session.fourcc = "MJPG" /\ Huge(sent.jpeg.size[1], sent.jpeg.size[2])
    \/ session.fourcc # "MJPG" /\ Huge(session.width, session.height)
    \/ session.fourcc = "YUYV" /\ session.width % 2 # 0
    \/ session.fourcc # "MJPG" /\ sent.len < BytesNeeded(session)
    \/ IsGray8(session) /\ BytesNeeded(session) >= U32

(* Only a size beyond the integers kills the daemon, no payload does: the  *)
(* unchecked indices of the YUYV loop stay inside their buffers.           *)
DiesOnlyOfHugeSizes ==
  frame = Panic =>
    \/ session.fourcc # "MJPG" /\ Huge(session.width, session.height)
    \/ IsGray8(session) /\ session.width * session.height >= U32

===============================================================================
