----------------------------- MODULE FacePipeline -----------------------------
(***************************************************************************)
(* TrueIdApp::try_embed_from_frame with the adapters the configuration     *)
(* injects: from a frame to an embedding, to nothing, or to an error.      *)
(* The detector is YuNetDetector or the full-frame mock, the aligner       *)
(* CropFaceAligner or a passthrough, the pose estimator the one from       *)
(* landmarks or a passthrough.  The 112 x 112 picture is abstracted to the *)
(* pixels of the frame it is made from, the embedding to its existence.    *)
(***************************************************************************)
EXTENDS YuNetDetector

CONSTANTS
  FrameSizes,      (* the frames' sizes, as <<width, height>>              *)
  NoLandmarks

ASSUME PipelineAssumption ==
  /\ FrameSizes \subseteq (Nat \ {0}) \X (Nat \ {0})
  /\ NoLandmarks \notin [left_eye : Int \X Int, right_eye : Int \X Int,
                         nose_tip : Int \X Int, mouth_left : Int \X Int,
                         mouth_right : Int \X Int]

VARIABLES
  dev,        (* the development section of the configuration              *)
  frame,      (* the size of the frame in work                             *)
  stage,      (* frame, detect, align, pose, live, embed, done             *)
  reads,      (* the pixels of the frame the aligner just read             *)
  outcome     (* none, no_face, embedding, error or panic                  *)

pipeVars == <<dev, frame, stage, reads, outcome>>
vars == <<detVars, pipeVars>>

Flags == {"mock_embedder", "mock_detector", "passthrough_aligner",
          "passthrough_pose_estimator"}
Outcomes == {"none", "no_face", "embedding", "error", "panic"}

Pixels == (0 .. frame[1] - 1) \X (0 .. frame[2] - 1)

-----------------------------------------------------------------------------
(* Geometry.                                                               *)

full_frame == [x |-> 0, y |-> 0, w |-> Unit, h |-> Unit]

Detection ==
  IF dev.mock_detector THEN [bbox |-> full_frame, landmarks |-> NoLandmarks]
  ELSE to_detection(candidates[primary])

(* An expanded square box, in eighths of a unit; DEFAULT_MARGIN is 1/4.    *)
square_crop_bbox(b) ==
  LET side == Less(10 * More(b.w, b.h), 8 * Unit)
      Place(low, extent) ==
        LET n == More(8 * low + 4 * extent - side \div 2, 0)
        IN  IF n + side > 8 * Unit THEN 8 * Unit - side ELSE n
  IN  [x |-> Place(b.x, b.w), y |-> Place(b.y, b.h), side |-> side]

(* The pixels of a row or a column that crop_and_resize cuts out.          *)
Span(low, side, size) ==
  LET from == (low * size) \div (8 * Unit)
      to == Less(-((-((low + side) * size)) \div (8 * Unit)), size)
  IN  from .. from + More(to - from, 1) - 1

crop(bb) == Span(bb.x, bb.side, frame[1]) \X Span(bb.y, bb.side, frame[2])

(* Faulty variant: the right and lower neighbours are not clamped.         *)
sample_bilinear_unclamped(x, y) ==
  IF 0 <= x /\ x < 2 * frame[1] /\ 0 <= y /\ y < 2 * frame[2]
  THEN {x \div 2, x \div 2 + 1} \X {y \div 2, y \div 2 + 1}
  ELSE {}

(* The pixels sample_bilinear blends at the point (x, y), in half pixels.  *)
sample_bilinear(x, y) ==
  IF 0 <= x /\ x < 2 * frame[1] /\ 0 <= y /\ y < 2 * frame[2]
  THEN {x \div 2, Less(x \div 2 + 1, frame[1] - 1)}
         \X {y \div 2, Less(y \div 2 + 1, frame[2] - 1)}
  ELSE {}

FivePoints(lm) == {lm[n] : n \in DOMAIN lm}

Square(n) == n * n

(* Faulty variant: atan(dy / dx) does not see a face upside down.          *)
RollWithin30_atan(dx, dy) == 3 * Square(dy) <= Square(dx)

(* atan2(dy, dx) is between -30 and 30 degrees.                            *)
RollWithin30(dx, dy) == dx > 0 /\ 3 * Square(dy) <= Square(dx)

(* check_landmarks, in the coordinates of the detection.                   *)
EyesApart(lm) == lm.left_eye # lm.right_eye
Frontal(lm) ==
  LET dx == lm.right_eye[1] - lm.left_eye[1]
      dy == lm.right_eye[2] - lm.left_eye[2]
      offset == 2 * lm.nose_tip[1] - lm.left_eye[1] - lm.right_eye[1]
  IN  /\ RollWithin30(dx, dy)
      /\ 100 * Square(offset) <= 81 * (Square(dx) + Square(dy))

(* Faulty variant: only the flag of the pose estimator counts.             *)
PassthroughPose_flag_only == dev.passthrough_pose_estimator

(* composition::build: a mock detection has no landmarks to check.         *)
PassthroughPose == dev.passthrough_pose_estimator \/ dev.mock_detector

-----------------------------------------------------------------------------
Ends(o) == stage' = "done" /\ outcome' = o

Init ==
  /\ DetInit
  /\ dev \in [Flags -> BOOLEAN]
  /\ frame \in FrameSizes
  /\ stage = "frame" /\ reads = {} /\ outcome = "none"

NextFrame ==
  /\ stage \in {"frame", "done"}
  /\ frame' \in FrameSizes
  /\ stage' = "detect" /\ reads' = {} /\ outcome' = "none"
  /\ UNCHANGED <<dev, detVars>>

DetectFullFrame ==
  /\ stage = "detect" /\ dev.mock_detector
  /\ stage' = "align"
  /\ UNCHANGED <<dev, frame, reads, outcome, detVars>>

DetectWorks ==
  /\ stage = "detect" /\ ~dev.mock_detector
  /\ Detecting
  /\ UNCHANGED pipeVars

DetectReturns ==
  /\ stage = "detect" /\ ~dev.mock_detector
  /\ Return
  /\ CASE place = "panic" -> Ends("panic")
       [] place = "failed" -> Ends("error")
       [] place = "found" /\ primary = NoFace -> Ends("no_face")
       [] OTHER -> stage' = "align" /\ UNCHANGED outcome
  /\ UNCHANGED <<dev, frame, reads>>

(* What an aligner reads; get_pixel panics outside the frame.              *)
Aligned(pixels) ==
  /\ reads' = pixels
  /\ IF pixels \subseteq Pixels THEN stage' = "pose" /\ UNCHANGED outcome
     ELSE Ends("panic")

AlignPassthrough ==
  /\ stage = "align" /\ dev.passthrough_aligner
  /\ Aligned(Pixels)
  /\ UNCHANGED <<dev, frame, detVars>>

AlignByBox ==
  /\ stage = "align" /\ ~dev.passthrough_aligner
  /\ Detection.landmarks = NoLandmarks
  /\ Aligned(crop(square_crop_bbox(Detection.bbox)))
  /\ UNCHANGED <<dev, frame, detVars>>

(* One of the pixels of the warped picture: the similarity that fits the   *)
(* landmarks may take it to any point in the frame or off it.              *)
AlignByLandmarks ==
  /\ stage = "align" /\ ~dev.passthrough_aligner
  /\ Detection.landmarks # NoLandmarks
  /\ Cardinality(FivePoints(Detection.landmarks)) > 1
  /\ \E x \in -1 .. 2 * frame[1] + 1, y \in -1 .. 2 * frame[2] + 1 :
       Aligned(sample_bilinear(x, y))
  /\ UNCHANGED <<dev, frame, detVars>>

(* Coinciding landmarks fit nothing; the fit of others may be degenerate.  *)
AlignFails ==
  /\ stage = "align" /\ ~dev.passthrough_aligner
  /\ Detection.landmarks # NoLandmarks
  /\ Ends("error")
  /\ UNCHANGED <<dev, frame, reads, detVars>>

CheckFrontal ==
  /\ stage = "pose"
  /\ CASE PassthroughPose -> stage' = "live" /\ UNCHANGED outcome
       [] ~PassthroughPose /\ Detection.landmarks = NoLandmarks -> Ends("no_face")
       [] ~PassthroughPose /\ Detection.landmarks # NoLandmarks ->
            IF ~EyesApart(Detection.landmarks) THEN Ends("error")
            ELSE IF ~Frontal(Detection.landmarks) THEN Ends("no_face")
            ELSE stage' = "live" /\ UNCHANGED outcome
  /\ UNCHANGED <<dev, frame, reads, detVars>>

VerifyLive ==
  /\ stage = "live"
  /\ stage' = "embed"
  /\ UNCHANGED <<dev, frame, reads, outcome, detVars>>

Embed ==
  /\ stage = "embed"
  /\ \/ Ends("embedding")
     \/ ~dev.mock_embedder /\ Ends("error")
  /\ UNCHANGED <<dev, frame, reads, detVars>>

Next == \/ NextFrame \/ DetectFullFrame \/ DetectWorks \/ DetectReturns
        \/ AlignPassthrough \/ AlignByBox \/ AlignByLandmarks \/ AlignFails
        \/ CheckFrontal \/ VerifyLive \/ Embed

Spec == Init /\ [][Next]_vars

-----------------------------------------------------------------------------
(* Every variable holds values of its type, an embedding or a failure is   *)
(* reported exactly at the end of a frame.                                 *)
PipelineTypeOK ==
  /\ dev \in [Flags -> BOOLEAN] /\ frame \in FrameSizes
  /\ stage \in {"frame", "detect", "align", "pose", "live", "embed", "done"}
  /\ outcome \in Outcomes /\ (outcome = "none" <=> stage # "done")
  /\ place \in {"idle", "infer", "sort", "nms", "best", "found", "failed", "panic"}
  /\ stage # "detect" => place = "idle"
  /\ primary \in DOMAIN candidates \cup {NoFace}

(* Whatever scores, finite boxes and finite points the network reports and *)
(* wherever the fit takes a point, the aligner reads pixels of the frame   *)
(* only; only a NaN score can panic.                                       *)
AlignReadsInside ==
  /\ reads \subseteq Pixels
  /\ outcome = "panic" => ~Comparable

(* On a frame at least as wide as high, a face that is embedded after the  *)
(* pose gate has its eyes level within 30 degrees on the picture itself,   *)
(* the one the domain calls the right to the right of the other, as the    *)
(* reference points of the aligner have them.  Whether such a face is      *)
(* upright depends on what the network calls right: see UprightFacesPass.  *)
EmbeddedEyesLevel ==
  outcome = "embedding" /\ ~PassthroughPose /\ frame[1] >= frame[2] =>
    LET dx == (Detection.landmarks.right_eye[1] - Detection.landmarks.left_eye[1]) * frame[1]
        dy == (Detection.landmarks.right_eye[2] - Detection.landmarks.left_eye[2]) * frame[2]
    IN  dx > 0 /\ 3 * Square(dy) <= Square(dx)

(* The setup docs/developing.md gives for a machine without camera and     *)
(* models turns every frame into an embedding.                             *)
MockRunEmbeds ==
  dev.mock_detector /\ dev.mock_embedder /\ stage = "done" => outcome = "embedding"

(* What the pose gate turns away is "not sufficiently frontal": never a    *)
(* face with level eyes, the nose midway between them and the mouth below, *)
(* whatever the eyes are called.                                           *)
UprightFacesPass ==
  outcome = "no_face" /\ primary # NoFace /\ ~dev.mock_detector =>
    LET lm == Detection.landmarks
    IN  ~(/\ lm.left_eye[1] # lm.right_eye[1]
          /\ lm.left_eye[2] = lm.right_eye[2]
          /\ 2 * lm.nose_tip[1] = lm.left_eye[1] + lm.right_eye[1]
          /\ lm.left_eye[2] < lm.nose_tip[2]
          /\ lm.nose_tip[2] < Less(lm.mouth_left[2], lm.mouth_right[2]))

(* A face with its nose between its eyes is not turned away for its roll   *)
(* unless that exceeds max_abs_roll_deg on the picture.                    *)
RollLimitInDegrees ==
  outcome = "no_face" /\ primary # NoFace /\ ~dev.mock_detector =>
    LET lm == Detection.landmarks
    IN  2 * lm.nose_tip[1] = lm.left_eye[1] + lm.right_eye[1] =>
          ~RollWithin30((lm.right_eye[1] - lm.left_eye[1]) * frame[1],
                        (lm.right_eye[2] - lm.left_eye[2]) * frame[2])

===============================================================================
