---------------------------- MODULE YuNetDetector ----------------------------
(***************************************************************************)
(* OnnxYuNetDetector::detect_primary: what becomes of the twelve outputs   *)
(* of the network.  Cells of three grids become candidates, overlapping    *)
(* ones are suppressed, the best of the rest is the primary face.          *)
(*                                                                         *)
(* Boxes and landmarks are in half pixels of the network's picture, so the *)
(* centre and the corner of a box are integers; they are taken to be       *)
(* finite, while a score may be NaN.  A score is the product the code      *)
(* takes the square root of, which orders alike.                           *)
(***************************************************************************)
EXTENDS Integers, Sequences, FiniteSets

CONSTANTS
  InputSize,           (* INPUT_W and INPUT_H                              *)
  ScoreThreshold,      (* squared, as the scores are                       *)
  NmsThreshold,        (* in percent                                       *)
  TopK,
  Outputs,             (* what the network may answer, cell by cell        *)
  NaN, NoFace

ASSUME DetectorAssumption ==
  /\ InputSize \in Nat \ {0}
  /\ ScoreThreshold \in Nat /\ NmsThreshold \in Nat /\ TopK \in Nat
  /\ NaN \notin Int
  /\ NoFace \notin Int \X Int \X Int
  /\ \A outs \in Outputs : \A cell \in DOMAIN outs :
       outs[cell] \in [cls : Int \cup {NaN}, obj : Int \cup {NaN}, dx : Int, dy : Int,
                      w : Nat, h : Nat, kps : [1 .. 5 -> Int \X Int]]

VARIABLES
  place,        (* idle, infer, sort, nms, best, found, failed or panic    *)
  candidates,   (* the candidates, by the cell they come from              *)
  order,        (* the cells in the order nms visits them                  *)
  next,         (* the position in order nms is at                         *)
  keep,         (* the cells kept so far                                   *)
  removed,      (* the cells suppressed so far                             *)
  primary       (* the cell of the best candidate, or NoFace               *)

detVars == <<place, candidates, order, next, keep, removed, primary>>

-----------------------------------------------------------------------------
(* Candidates.                                                             *)

Strides == <<8, 16, 32>>
DIVISOR == 32

pad_dims(n) == ((IF n = 0 THEN 0 ELSE n - 1) \div DIVISOR + 1) * DIVISOR

Cells == UNION {{<<i, r, c>> : r \in 0 .. pad_dims(InputSize) \div Strides[i] - 1,
                               c \in 0 .. pad_dims(InputSize) \div Strides[i] - 1} :
                  i \in 1 .. 3}

(* The loop visits the cells grid by grid and row by row.                  *)
Precedes(a, b) ==
  \/ a[1] < b[1]
  \/ a[1] = b[1] /\ (a[2] < b[2] \/ (a[2] = b[2] /\ a[3] < b[3]))

Clamp(n, lo, hi) == IF n < lo THEN lo ELSE IF n > hi THEN hi ELSE n

(* cls and obj are in tenths; a NaN survives clamp, product and root.      *)
Score(out) ==
  IF NaN \in {out.cls, out.obj} THEN NaN
  ELSE Clamp(out.cls, 0, 10) * Clamp(out.obj, 0, 10)

(* NaN < threshold is false, so a NaN score is not dropped.                *)
Scored(out) == ~(Score(out) # NaN /\ Score(out) < ScoreThreshold)

(* The box and the points of a cell.  An exp that overflows to an infinite *)
(* width and a NaN outside the scores are not represented.                 *)
FaceCandidate(cell, out) ==
  LET stride == Strides[cell[1]]
  IN  [x1 |-> 2 * (cell[3] + out.dx) * stride - out.w * stride,
       y1 |-> 2 * (cell[2] + out.dy) * stride - out.h * stride,
       w |-> 2 * out.w * stride, h |-> 2 * out.h * stride,
       score |-> Score(out),
       landmarks |-> [n \in 1 .. 5 |-> <<2 * (out.kps[n][1] + cell[3]) * stride,
                                         2 * (out.kps[n][2] + cell[2]) * stride>>]]

FaceCandidates(outs) ==
  [cell \in {c \in Cells \cap DOMAIN outs : Scored(outs[c])} |->
     FaceCandidate(cell, outs[cell])]

-----------------------------------------------------------------------------
(* Suppression.                                                            *)

Less(m, n) == IF m < n THEN m ELSE n
More(m, n) == IF m < n THEN n ELSE m

Common(a, wa, b, wb) == More(Less(a + wa, b + wb) - More(a, b), 0)

(* iou(a, b) > NmsThreshold, without the division.                         *)
Overlap(a, b) ==
  LET inter == Common(a.x1, a.w, b.x1, b.w) * Common(a.y1, a.h, b.y1, b.h)
      union == a.w * a.h + b.w * b.h - inter
  IN  union > 0 /\ 100 * inter > NmsThreshold * union

Overlaps(a, b) == Overlap(candidates[a], candidates[b])

score(cell) == candidates[cell].score
Comparable == \A c \in DOMAIN candidates : score(c) # NaN

(* Faulty variant: the lowest score first.                                 *)
Ranks_ascending(a, b) ==
  score(a) < score(b) \/ (score(a) = score(b) /\ Precedes(a, b))

(* The first sort ranks a before b: by score, and stable.                  *)
Ranks(a, b) == score(a) > score(b) \/ (score(a) = score(b) /\ Precedes(a, b))

ListsOnce(s, S) ==
  /\ \A c \in S : \E i \in DOMAIN s : s[i] = c
  /\ \A i, j \in DOMAIN s : i # j => s[i] # s[j]

(* The orders sort_by may leave.  With a NaN the comparison is no order:   *)
(* the result is unspecified, and sort_by may panic (SortPanics).          *)
Sorted(S) ==
  {s \in UNION {[1 .. n -> S] : n \in 0 .. Cardinality(S)} :
     /\ ListsOnce(s, S)
     /\ Comparable => \A i, j \in DOMAIN s : i < j => Ranks(s[i], s[j])}

-----------------------------------------------------------------------------
(* Faulty variant: the face of the last frame is still there.              *)
Forgotten_keeps_primary ==
  /\ candidates' = <<>> /\ order' = <<>> /\ next' = 1
  /\ keep' = <<>> /\ removed' = {} /\ UNCHANGED primary

(* The locals of a call.                                                   *)
Forgotten ==
  /\ candidates' = <<>> /\ order' = <<>> /\ next' = 1
  /\ keep' = <<>> /\ removed' = {} /\ primary' = NoFace

DetInit ==
  /\ place = "idle"
  /\ candidates = <<>> /\ order = <<>> /\ next = 1
  /\ keep = <<>> /\ removed = {} /\ primary = NoFace

DetectPrimary == /\ place = "idle"
                 /\ place' = "infer"
                 /\ Forgotten

Infer == /\ place = "infer"
         /\ \E outs \in Outputs : candidates' = FaceCandidates(outs)
         /\ place' = IF DOMAIN candidates' = {} THEN "found" ELSE "sort"
         /\ UNCHANGED <<order, next, keep, removed, primary>>

(* Inference fails, or its outputs do not have the shapes of YuNet's.      *)
InferFails == /\ place = "infer"
              /\ place' = "failed"
              /\ UNCHANGED <<candidates, order, next, keep, removed, primary>>

Sort == /\ place = "sort"
        /\ order' \in Sorted(DOMAIN candidates)
        /\ place' = "nms"
        /\ UNCHANGED <<candidates, next, keep, removed, primary>>

SortPanics == /\ place \in {"sort", "best"}
              /\ ~Comparable
              /\ place' = "panic"
              /\ UNCHANGED <<candidates, order, next, keep, removed, primary>>

SkipRemoved == /\ place = "nms" /\ next <= Len(order)
               /\ order[next] \in removed
               /\ next' = next + 1
               /\ UNCHANGED <<place, candidates, order, keep, removed, primary>>

(* Faulty variant: only the cells after this one are looked at.            *)
Suppressed_of_rest(cell) ==
  {c \in DOMAIN candidates \ {cell} : Overlaps(cell, c) /\ Precedes(cell, c)}

Suppressed(cell) == {c \in DOMAIN candidates \ {cell} : Overlaps(cell, c)}

Keep == /\ place = "nms" /\ next <= Len(order)
        /\ order[next] \notin removed
        /\ keep' = Append(keep, order[next])
        /\ next' = next + 1
        /\ IF Len(keep') >= TopK
           THEN place' = "best" /\ UNCHANGED removed
           ELSE removed' = removed \cup Suppressed(order[next]) /\ UNCHANGED place
        /\ UNCHANGED <<candidates, order, primary>>

NmsEnds == /\ place = "nms" /\ next > Len(order)
           /\ place' = "best"
           /\ UNCHANGED <<candidates, order, next, keep, removed, primary>>

(* The kept candidates are sorted again; the first of them is the face.    *)
Best == /\ place = "best"
        /\ \E i \in DOMAIN keep :
             /\ Comparable => \A j \in DOMAIN keep :
                                score(keep[i]) > score(keep[j])
                                  \/ (score(keep[i]) = score(keep[j]) /\ i <= j)
             /\ primary' = keep[i]
        /\ place' = "found"
        /\ UNCHANGED <<candidates, order, next, keep, removed>>

(* After a panic the next call is one of the next process.                 *)
Return == /\ place \in {"found", "failed", "panic"}
          /\ place' = "idle"
          /\ UNCHANGED <<candidates, order, next, keep, removed, primary>>

Detecting == \/ DetectPrimary \/ Infer \/ InferFails \/ Sort \/ SortPanics
             \/ SkipRemoved \/ Keep \/ NmsEnds \/ Best

DetNext == Detecting \/ Return

DetSpec == DetInit /\ [][DetNext]_detVars

-----------------------------------------------------------------------------
(* The domain's coordinates, from 0 to 1, in units of a half pixel of the  *)
(* network's picture, which is the whole frame stretched.                  *)

Unit == 2 * InputSize

InUnit(n) == Clamp(n, 0, Unit)
Normalised(p) == <<InUnit(p[1]), InUnit(p[2])>>

to_detection(candidate) ==
  LET lm == candidate.landmarks
  IN  [bbox |-> [x |-> InUnit(candidate.x1), y |-> InUnit(candidate.y1),
                 w |-> InUnit(candidate.w), h |-> InUnit(candidate.h)],
       landmarks |-> [left_eye |-> Normalised(lm[2]), right_eye |-> Normalised(lm[1]),
                      nose_tip |-> Normalised(lm[3]),
                      mouth_left |-> Normalised(lm[5]), mouth_right |-> Normalised(lm[4])]]

-----------------------------------------------------------------------------
Ended == place \in {"best", "found"}
Kept == {keep[i] : i \in DOMAIN keep}

(* No two faces nms keeps overlap, and unless it stopped at TopK, every    *)
(* candidate it does not keep overlaps a kept one, which ranks before it   *)
(* unless a NaN spoilt the order.                                          *)
NmsSound ==
  /\ \A i, j \in DOMAIN keep : i # j => ~Overlaps(keep[i], keep[j])
  /\ Ended /\ Len(keep) < TopK =>
       \A c \in DOMAIN candidates \ Kept :
         \E k \in Kept : Overlaps(k, c) /\ (Comparable => Ranks(k, c))

(* Without a NaN the primary face is a candidate of the highest score: no  *)
(* suppression, TopK or second sort loses it.                              *)
PrimaryIsBest ==
  place = "found" /\ Comparable /\ DOMAIN candidates # {} =>
    /\ primary \in DOMAIN candidates
    /\ \A c \in DOMAIN candidates : score(primary) >= score(c)

===============================================================================
