-------------------------- MODULE FacePipelineProofs --------------------------
(***************************************************************************)
(* Theorems about FacePipeline and its detector, for a network of any size *)
(* and any answers, any thresholds, and frames of any size.                *)
(***************************************************************************)
EXTENDS FacePipeline, TLAPS

Candidate == [x1 : Int, y1 : Int, w : Int, h : Int, score : Int \cup {NaN},
              landmarks : [1 .. 5 -> Int \X Int]]

Places == {"idle", "infer", "sort", "nms", "best", "found", "failed", "panic"}

(* What holds of the detector between any two of its steps.                *)
DetTypeInv ==
  /\ place \in Places
  /\ DOMAIN candidates \subseteq Cells
  /\ \A c \in DOMAIN candidates : candidates[c] \in Candidate
  /\ order \in Seq(DOMAIN candidates)
  /\ next \in 1 .. Len(order) + 1
  /\ keep \in Seq(DOMAIN candidates)
  /\ removed \subseteq DOMAIN candidates
  /\ primary \in DOMAIN candidates \cup {NoFace}

PlaceInv ==
  /\ place \in {"infer", "sort"} =>
       order = <<>> /\ next = 1 /\ keep = <<>> /\ removed = {} /\ primary = NoFace
  /\ place \in {"sort", "nms", "best"} => DOMAIN candidates # {}
  /\ place = "infer" => DOMAIN candidates = {}
  /\ place = "panic" => ~Comparable

OrderInv ==
  /\ \A i, j \in DOMAIN order : i # j => order[i] # order[j]
  /\ Comparable => \A i, j \in DOMAIN order : i < j => Ranks(order[i], order[j])
  /\ place \in {"nms", "best", "found"} =>
       \A c \in DOMAIN candidates : \E i \in DOMAIN order : order[i] = c

KeepInv ==
  /\ \A i \in DOMAIN keep : \E m \in DOMAIN order : m < next /\ keep[i] = order[m]
  /\ \A m \in DOMAIN order : m < next => order[m] \in Kept \cup removed
  /\ next > 1 => keep # <<>> /\ keep[1] = order[1]
  /\ \A i, j \in DOMAIN keep : i # j => ~Overlaps(keep[i], keep[j])
  /\ \A c \in removed : \E k \in Kept : Overlaps(k, c) /\ (Comparable => Ranks(k, c))
  /\ place = "nms" =>
       \A k \in Kept : \A c \in DOMAIN candidates : k # c /\ Overlaps(k, c) => c \in removed
  /\ place = "best" => keep # <<>>
  /\ Ended /\ Len(keep) < TopK => \A m \in DOMAIN order : m < next

DetInv == DetTypeInv /\ PlaceInv /\ OrderInv /\ KeepInv /\ PrimaryIsBest

-----------------------------------------------------------------------------
(* The overlap of two boxes does not depend on their order.                *)
LEMMA CommonSymmetric ==
  ASSUME NEW a \in Int, NEW wa \in Int, NEW b \in Int, NEW wb \in Int
  PROVE  /\ Common(a, wa, b, wb) = Common(b, wb, a, wa)
         /\ Common(a, wa, b, wb) \in Nat
BY DEF Common, Less, More

LEMMA OverlapSymmetric ==
  ASSUME NEW a \in Candidate, NEW b \in Candidate, Overlap(a, b)
  PROVE  Overlap(b, a)
<1> DEFINE cx(p, q) == Common(p.x1, p.w, q.x1, q.w)
           cy(p, q) == Common(p.y1, p.h, q.y1, q.h)
           area(p) == p.w * p.h
<1>0. /\ a.x1 \in Int /\ a.y1 \in Int /\ a.w \in Int /\ a.h \in Int
      /\ b.x1 \in Int /\ b.y1 \in Int /\ b.w \in Int /\ b.h \in Int
  BY DEF Candidate
<1>1. /\ cx(a, b) = cx(b, a) /\ cx(a, b) \in Nat
      /\ cy(a, b) = cy(b, a) /\ cy(a, b) \in Nat
  <2>1. cx(a, b) = cx(b, a) /\ cx(a, b) \in Nat
    BY <1>0, CommonSymmetric
  <2>2. cy(a, b) = cy(b, a) /\ cy(a, b) \in Nat
    BY <1>0, CommonSymmetric
  <2> QED BY <2>1, <2>2
<1>2. area(a) \in Int /\ area(b) \in Int
  BY <1>0
<1>3. cx(a, b) * cy(a, b) \in Int
  <2> HIDE DEF cx, cy
  <2> QED BY <1>1
<1> DEFINE inter == cx(a, b) * cy(a, b)
<1>4. area(a) + area(b) - inter = area(b) + area(a) - inter
  <2> HIDE DEF area, inter
  <2> QED BY <1>2, <1>3 DEF inter
<1>5. inter = cx(b, a) * cy(b, a)
  BY <1>1
<1> QED
  <2>1. area(a) + area(b) - inter > 0 /\ 100 * inter > NmsThreshold * (area(a) + area(b) - inter)
    BY DEF Overlap
  <2>2. area(b) + area(a) - inter > 0 /\ 100 * inter > NmsThreshold * (area(b) + area(a) - inter)
    <3> HIDE DEF area, inter
    <3> QED BY <2>1, <1>4
  <2> QED BY <2>2, <1>5 DEF Overlap

(* A candidate is made of integers, save a NaN for a score.                *)
LEMMA CandidatesTyped ==
  ASSUME NEW outs \in Outputs
  PROVE  /\ DOMAIN FaceCandidates(outs) \subseteq Cells
         /\ \A c \in DOMAIN FaceCandidates(outs) : FaceCandidates(outs)[c] \in Candidate
<1> SUFFICES ASSUME NEW c \in Cells \cap DOMAIN outs
             PROVE  FaceCandidate(c, outs[c]) \in Candidate
  BY DEF FaceCandidates
<1> DEFINE out == outs[c]
           stride == Strides[c[1]]
<1>1. out \in [cls : Int \cup {NaN}, obj : Int \cup {NaN}, dx : Int, dy : Int,
               w : Nat, h : Nat, kps : [1 .. 5 -> Int \X Int]]
  BY DetectorAssumption
<1>2. PICK i \in 1 .. 3 :
        \E row \in 0 .. pad_dims(InputSize) \div Strides[i] - 1,
           col \in 0 .. pad_dims(InputSize) \div Strides[i] - 1 : c = <<i, row, col>>
  BY DEF Cells
<1>3. stride \in Nat /\ c[2] \in Int /\ c[3] \in Int
  BY <1>2 DEF Strides
<1>4. Score(out) \in Int \cup {NaN}
  BY <1>1 DEF Score, Clamp
<1>5. \A n \in 1 .. 5 : <<2 * (out.kps[n][1] + c[3]) * stride,
                          2 * (out.kps[n][2] + c[2]) * stride>> \in Int \X Int
  <2> SUFFICES ASSUME NEW n \in 1 .. 5
               PROVE /\ 2 * (out.kps[n][1] + c[3]) * stride \in Int
                     /\ 2 * (out.kps[n][2] + c[2]) * stride \in Int
    OBVIOUS
  <2>1. out.kps[n][1] \in Int /\ out.kps[n][2] \in Int
    BY <1>1
  <2> HIDE DEF stride, out
  <2> QED BY <2>1, <1>3
<1>6. /\ 2 * (c[3] + out.dx) * stride - out.w * stride \in Int
      /\ 2 * (c[2] + out.dy) * stride - out.h * stride \in Int
      /\ 2 * out.w * stride \in Int /\ 2 * out.h * stride \in Int
  <2>1. out.dx \in Int /\ out.dy \in Int /\ out.w \in Int /\ out.h \in Int
    BY <1>1
  <2> HIDE DEF stride, out
  <2> QED BY <2>1, <1>3
<1> QED BY <1>4, <1>5, <1>6 DEF FaceCandidate, Candidate

-----------------------------------------------------------------------------
LEMMA DetInitially == DetInit => DetInv
BY DEF DetInit, DetInv, DetTypeInv, PlaceInv, OrderInv, KeepInv, PrimaryIsBest, Kept,
       Ended, Places

(* The steps that leave the lists alone.                                   *)
LEMMA DetInvStutter ==
  ASSUME DetInv, UNCHANGED detVars
  PROVE  DetInv'
<1> USE DEF detVars
<1>1. DetTypeInv' BY DEF DetInv, DetTypeInv
<1>2. PlaceInv' BY DEF DetInv, PlaceInv, Comparable, score
<1>3. OrderInv' BY DEF DetInv, OrderInv, Comparable, score, Ranks
<1>4. KeepInv' BY DEF DetInv, KeepInv, Kept, Overlaps, Comparable, score, Ranks, Ended
<1>5. PrimaryIsBest' BY DEF DetInv, PrimaryIsBest, Comparable, score
<1> QED BY <1>1, <1>2, <1>3, <1>4, <1>5 DEF DetInv

LEMMA DetectPrimaryStep ==
  ASSUME DetInv, DetectPrimary
  PROVE  DetInv'
BY DEF DetectPrimary, Forgotten, DetInv, DetTypeInv, PlaceInv, OrderInv, KeepInv,
       PrimaryIsBest, Kept, Ended, Places

LEMMA InferStep ==
  ASSUME DetInv, Infer
  PROVE  DetInv'
<1>1. PICK outs \in Outputs : candidates' = FaceCandidates(outs)
  BY DEF Infer
<1>2. /\ place = "infer" /\ order' = <<>> /\ next' = 1 /\ keep' = <<>>
      /\ removed' = {} /\ primary' = NoFace
      /\ place' = IF DOMAIN candidates' = {} THEN "found" ELSE "sort"
  BY DEF Infer, DetInv, PlaceInv
<1>3. DetTypeInv' BY <1>1, <1>2, CandidatesTyped DEF DetTypeInv, Places
<1>4. PlaceInv' BY <1>2 DEF PlaceInv
<1>5. OrderInv' BY <1>2 DEF OrderInv
<1>6. KeepInv' BY <1>2 DEF KeepInv, Kept, Ended
<1>7. PrimaryIsBest' BY <1>2 DEF PrimaryIsBest
<1> QED BY <1>3, <1>4, <1>5, <1>6, <1>7 DEF DetInv

LEMMA SortStep ==
  ASSUME DetInv, Sort
  PROVE  DetInv'
<1>1. /\ place = "sort" /\ place' = "nms" /\ order' \in Sorted(DOMAIN candidates)
      /\ next' = 1 /\ keep' = <<>> /\ removed' = {} /\ primary' = NoFace
      /\ candidates' = candidates
  BY DEF Sort, DetInv, PlaceInv
<1>2. order' \in Seq(DOMAIN candidates)
  BY <1>1 DEF Sorted
<1>3. Len(order') \in Nat BY <1>2
<1>4. DetTypeInv' BY <1>1, <1>2, <1>3 DEF DetInv, DetTypeInv, Places
<1>5. PlaceInv' BY <1>1 DEF DetInv, PlaceInv
<1>6. OrderInv'
  BY <1>1 DEF Sorted, ListsOnce, OrderInv, Comparable, score, Ranks
<1>7. KeepInv' BY <1>1 DEF KeepInv, Kept, Ended
<1>8. PrimaryIsBest' BY <1>1 DEF PrimaryIsBest
<1> QED BY <1>4, <1>5, <1>6, <1>7, <1>8 DEF DetInv

LEMMA SkipRemovedStep ==
  ASSUME DetInv, SkipRemoved
  PROVE  DetInv'
<1>1. /\ place = "nms" /\ place' = "nms" /\ next <= Len(order)
      /\ order[next] \in removed /\ next' = next + 1
      /\ UNCHANGED <<candidates, order, keep, removed, primary>>
  BY DEF SkipRemoved
<1>2. /\ order \in Seq(DOMAIN candidates) /\ next \in Nat /\ next >= 1
      /\ Len(order) \in Nat /\ DOMAIN order = 1 .. Len(order)
  BY DEF DetInv, DetTypeInv
<1>3. DetTypeInv' BY <1>1, <1>2 DEF DetInv, DetTypeInv
<1>4. PlaceInv' BY <1>1 DEF DetInv, PlaceInv
<1>5. OrderInv' BY <1>1 DEF DetInv, OrderInv, Comparable, score, Ranks
<1>6. KeepInv'
  <2>1. keep # <<>> /\ keep[1] = order[1]
    <3>1. CASE next > 1
      BY <3>1 DEF DetInv, KeepInv
    <3>2. CASE next = 1
      <4>1. PICK k \in Kept : TRUE
        BY <1>1 DEF DetInv, KeepInv
      <4>2. PICK i \in DOMAIN keep : k = keep[i]
        BY DEF Kept
      <4>3. \E m \in DOMAIN order : m < next
        BY <4>2 DEF DetInv, KeepInv
      <4> QED BY <4>3, <3>2, <1>2
    <3> QED BY <3>1, <3>2, <1>2
  <2>2. \A m \in DOMAIN order : m < next' => order[m] \in Kept \cup removed
    <3> SUFFICES ASSUME NEW m \in DOMAIN order, m < next + 1
                 PROVE  order[m] \in Kept \cup removed
      BY <1>1
    <3>1. m < next \/ m = next BY <1>2
    <3> QED BY <3>1, <1>1 DEF DetInv, KeepInv
  <2>3. \A i \in DOMAIN keep : \E m \in DOMAIN order : m < next' /\ keep[i] = order[m]
    BY <1>1, <1>2 DEF DetInv, KeepInv
  <2>4. /\ \A i, j \in DOMAIN keep : i # j => ~Overlaps(keep[i], keep[j])
        /\ \A c \in removed : \E k \in Kept : Overlaps(k, c) /\ (Comparable => Ranks(k, c))
        /\ \A k \in Kept : \A c \in DOMAIN candidates : k # c /\ Overlaps(k, c) => c \in removed
    BY <1>1 DEF DetInv, KeepInv
  <2> QED BY <1>1, <2>1, <2>2, <2>3, <2>4
          DEF KeepInv, Kept, Overlaps, Comparable, score, Ranks, Ended
<1>7. PrimaryIsBest' BY <1>1 DEF PrimaryIsBest
<1> QED BY <1>3, <1>4, <1>5, <1>6, <1>7 DEF DetInv

(* A cell that is kept overlaps no kept one, and of those it suppresses    *)
(* none has been visited: overlap is symmetric.                            *)
LEMMA KeepStep ==
  ASSUME DetInv, Keep
  PROVE  DetInv'
<1> DEFINE cell == order[next]
<1>1. /\ place = "nms" /\ next <= Len(order) /\ cell \notin removed
      /\ keep' = Append(keep, cell) /\ next' = next + 1
      /\ UNCHANGED <<candidates, order, primary>>
      /\ \/ place' = "best" /\ removed' = removed /\ Len(keep') >= TopK
         \/ place' = "nms" /\ removed' = removed \cup Suppressed(cell)
  BY DEF Keep
<1>2. /\ order \in Seq(DOMAIN candidates) /\ next \in Nat /\ next >= 1
      /\ Len(order) \in Nat /\ DOMAIN order = 1 .. Len(order)
      /\ keep \in Seq(DOMAIN candidates) /\ Len(keep) \in Nat
      /\ DOMAIN keep = 1 .. Len(keep)
  BY DEF DetInv, DetTypeInv
<1>3. next \in DOMAIN order /\ cell \in DOMAIN candidates
  BY <1>1, <1>2
<1>4. /\ keep' \in Seq(DOMAIN candidates) /\ Len(keep') = Len(keep) + 1
      /\ keep'[Len(keep) + 1] = cell
      /\ \A i \in DOMAIN keep : keep'[i] = keep[i]
      /\ DOMAIN keep' = DOMAIN keep \cup {Len(keep) + 1}
  BY <1>1, <1>2, <1>3
<1>5. Kept' = Kept \cup {cell}
  BY <1>4 DEF Kept
<1>6. cell \notin Kept
  <2> SUFFICES ASSUME NEW i \in DOMAIN keep, keep[i] = cell PROVE FALSE
    BY DEF Kept
  <2>1. PICK m \in DOMAIN order : m < next /\ keep[i] = order[m]
    BY DEF DetInv, KeepInv
  <2>2. m # next
    BY <2>1, <1>2
  <2> QED BY <2>1, <2>2, <1>3 DEF DetInv, OrderInv
<1>7. \A k \in Kept : ~Overlaps(k, cell) /\ ~Overlaps(cell, k)
  <2> SUFFICES ASSUME NEW k \in Kept PROVE ~Overlaps(k, cell) /\ ~Overlaps(cell, k)
    OBVIOUS
  <2>1. ~Overlaps(k, cell)
    BY <1>1, <1>3, <1>6 DEF DetInv, KeepInv
  <2>2. k \in DOMAIN candidates
    BY <1>2 DEF Kept
  <2>3. candidates[k] \in Candidate /\ candidates[cell] \in Candidate
    BY <1>3, <2>2 DEF DetInv, DetTypeInv
  <2> QED BY <2>1, <2>3, OverlapSymmetric DEF Overlaps
<1>8. DetTypeInv'
  <2>1. removed' \subseteq DOMAIN candidates
    BY <1>1 DEF DetInv, DetTypeInv, Suppressed
  <2> QED BY <1>1, <1>2, <1>4, <2>1 DEF DetInv, DetTypeInv, Places
<1>9. PlaceInv' BY <1>1 DEF DetInv, PlaceInv
<1>10. OrderInv' BY <1>1 DEF DetInv, OrderInv, Comparable, score, Ranks
<1>11. KeepInv'
  <2>1. \A i \in DOMAIN keep' : \E m \in DOMAIN order : m < next' /\ keep'[i] = order[m]
    BY <1>1, <1>2, <1>3, <1>4 DEF DetInv, KeepInv
  <2>2. \A m \in DOMAIN order : m < next' => order[m] \in Kept' \cup removed'
    <3> SUFFICES ASSUME NEW m \in DOMAIN order, m < next + 1
                 PROVE  order[m] \in Kept' \cup removed'
      BY <1>1
    <3>1. m < next \/ m = next BY <1>2
    <3> QED BY <3>1, <1>1, <1>5 DEF DetInv, KeepInv
  <2>3. keep' # <<>> /\ keep'[1] = order[1]
    <3>1. CASE next > 1
      <4>1. keep # <<>> /\ keep[1] = order[1]
        BY <3>1 DEF DetInv, KeepInv
      <4>2. 1 \in DOMAIN keep
        BY <4>1, <1>2
      <4> QED BY <4>1, <4>2, <1>4
    <3>2. CASE next = 1
      <4>1. DOMAIN keep = {}
        BY <3>2, <1>2 DEF DetInv, KeepInv
      <4>2. Len(keep) = 0
        BY <4>1, <1>2
      <4> QED BY <4>2, <1>4, <3>2
    <3> QED BY <3>1, <3>2, <1>2
  <2>4. \A i, j \in DOMAIN keep' : i # j => ~Overlaps(keep'[i], keep'[j])
    <3> SUFFICES ASSUME NEW i \in DOMAIN keep', NEW j \in DOMAIN keep', i # j
                 PROVE  ~Overlaps(keep'[i], keep'[j])
      OBVIOUS
    <3>1. CASE i \in DOMAIN keep /\ j \in DOMAIN keep
      BY <3>1, <1>4 DEF DetInv, KeepInv
    <3>2. CASE i \in DOMAIN keep /\ j = Len(keep) + 1
      BY <3>2, <1>4, <1>7 DEF Kept
    <3>3. CASE i = Len(keep) + 1 /\ j \in DOMAIN keep
      BY <3>3, <1>4, <1>7 DEF Kept
    <3> QED BY <3>1, <3>2, <3>3, <1>4
  <2>5. \A c \in removed' : \E k \in Kept' : Overlaps(k, c) /\ (Comparable => Ranks(k, c))
    <3> SUFFICES ASSUME NEW c \in removed'
                 PROVE  \E k \in Kept' : Overlaps(k, c) /\ (Comparable => Ranks(k, c))
      OBVIOUS
    <3>1. CASE c \in removed
      BY <3>1, <1>5 DEF DetInv, KeepInv
    <3>2. CASE c \notin removed
      <4>1. /\ place' = "nms" /\ c \in DOMAIN candidates /\ c # cell /\ Overlaps(cell, c)
        BY <3>2, <1>1 DEF Suppressed
      <4>2. PICK m \in DOMAIN order : order[m] = c
        BY <4>1, <1>1 DEF DetInv, OrderInv
      <4>3. ~(m < next)
        BY <4>1, <4>2, <3>2, <1>7 DEF DetInv, KeepInv
      <4>4. next < m
        BY <4>1, <4>2, <4>3, <1>2
      <4>5. Comparable => Ranks(cell, c)
        BY <4>2, <4>4, <1>3 DEF DetInv, OrderInv
      <4> QED BY <4>1, <4>5, <1>5
    <3> QED BY <3>1, <3>2
  <2>6. place' = "nms" =>
          \A k \in Kept' : \A c \in DOMAIN candidates : k # c /\ Overlaps(k, c) => c \in removed'
    BY <1>1, <1>5 DEF DetInv, KeepInv, Suppressed
  <2>7. Ended' => ~(Len(keep') < TopK)
    BY <1>1, <1>4, <1>2, DetectorAssumption DEF Ended
  <2> QED BY <1>1, <2>1, <2>2, <2>3, <2>4, <2>5, <2>6, <2>7
          DEF KeepInv, Overlaps, Comparable, score, Ranks
<1>12. PrimaryIsBest' BY <1>1 DEF PrimaryIsBest
<1> QED BY <1>8, <1>9, <1>10, <1>11, <1>12 DEF DetInv

LEMMA NmsEndsStep ==
  ASSUME DetInv, NmsEnds
  PROVE  DetInv'
<1>1. /\ place = "nms" /\ place' = "best" /\ next > Len(order)
      /\ UNCHANGED <<candidates, order, next, keep, removed, primary>>
  BY DEF NmsEnds
<1>2. /\ order \in Seq(DOMAIN candidates) /\ next \in Nat
      /\ Len(order) \in Nat /\ DOMAIN order = 1 .. Len(order)
  BY DEF DetInv, DetTypeInv
<1>3. DetTypeInv' BY <1>1 DEF DetInv, DetTypeInv, Places
<1>4. PlaceInv' BY <1>1 DEF DetInv, PlaceInv
<1>5. OrderInv' BY <1>1 DEF DetInv, OrderInv, Comparable, score, Ranks
<1>6. KeepInv'
  <2>1. \A m \in DOMAIN order : m < next
    BY <1>1, <1>2
  <2>2. keep # <<>>
    <3>1. PICK c \in DOMAIN candidates : TRUE
      BY <1>1 DEF DetInv, PlaceInv
    <3>2. PICK m \in DOMAIN order : order[m] = c
      BY <1>1 DEF DetInv, OrderInv
    <3>3. next > 1
      BY <3>2, <1>1, <1>2
    <3> QED BY <3>3 DEF DetInv, KeepInv
  <2>3. /\ \A i \in DOMAIN keep : \E m \in DOMAIN order : m < next /\ keep[i] = order[m]
        /\ \A m \in DOMAIN order : m < next => order[m] \in Kept \cup removed
        /\ next > 1 => keep # <<>> /\ keep[1] = order[1]
        /\ \A i, j \in DOMAIN keep : i # j => ~Overlaps(keep[i], keep[j])
        /\ \A c \in removed : \E k \in Kept : Overlaps(k, c) /\ (Comparable => Ranks(k, c))
    BY DEF DetInv, KeepInv
  <2> QED BY <1>1, <2>1, <2>2, <2>3
          DEF KeepInv, Kept, Overlaps, Comparable, score, Ranks, Ended
<1>7. PrimaryIsBest' BY <1>1 DEF PrimaryIsBest
<1> QED BY <1>3, <1>4, <1>5, <1>6, <1>7 DEF DetInv

(* The first cell of the order is kept first, and none ranks before it.    *)
LEMMA BestStep ==
  ASSUME DetInv, Best
  PROVE  DetInv'
<1>1. PICK i \in DOMAIN keep :
        /\ Comparable => \A j \in DOMAIN keep :
                            score(keep[i]) > score(keep[j])
                              \/ (score(keep[i]) = score(keep[j]) /\ i <= j)
        /\ primary' = keep[i]
  BY DEF Best
<1>2. /\ place = "best" /\ place' = "found"
      /\ UNCHANGED <<candidates, order, next, keep, removed>>
  BY DEF Best
<1>3. /\ order \in Seq(DOMAIN candidates) /\ Len(order) \in Nat
      /\ DOMAIN order = 1 .. Len(order) /\ next \in Nat
      /\ keep \in Seq(DOMAIN candidates) /\ Len(keep) \in Nat
      /\ DOMAIN keep = 1 .. Len(keep)
  BY DEF DetInv, DetTypeInv
<1>4. DetTypeInv' BY <1>1, <1>2, <1>3 DEF DetInv, DetTypeInv, Places
<1>5. PlaceInv' BY <1>2 DEF DetInv, PlaceInv
<1>6. OrderInv' BY <1>2 DEF DetInv, OrderInv, Comparable, score, Ranks
<1>7. KeepInv'
  BY <1>2 DEF DetInv, KeepInv, Kept, Overlaps, Comparable, score, Ranks, Ended
<1>8. PrimaryIsBest'
  <2>1. primary' \in DOMAIN candidates
    BY <1>1, <1>3
  <2>2. ASSUME Comparable, NEW c \in DOMAIN candidates
        PROVE  score(keep[i]) >= score(c)
    <3>1. PICK m \in DOMAIN order : order[m] = c
      BY <1>2 DEF DetInv, OrderInv
    <3>2. 1 \in DOMAIN keep /\ 1 \in DOMAIN order /\ keep[1] = order[1]
      <4>1. PICK l \in DOMAIN order : l < next /\ keep[i] = order[l]
        BY DEF DetInv, KeepInv
      <4>2. next > 1 /\ 1 \in DOMAIN order /\ 1 \in DOMAIN keep
        BY <4>1, <1>3
      <4> QED BY <4>2 DEF DetInv, KeepInv
    <3>3. \A d \in DOMAIN candidates : score(d) \in Int
      BY <2>2 DEF DetInv, DetTypeInv, Candidate, Comparable, score
    <3>4. keep[i] \in DOMAIN candidates /\ order[1] \in DOMAIN candidates
      BY <1>3, <3>2
    <3>5. score(keep[i]) >= score(order[1])
      BY <1>1, <2>2, <3>2, <3>3, <3>4
    <3>6. score(order[1]) >= score(c)
      <4>1. CASE m = 1
        BY <4>1, <3>1, <3>3
      <4>2. CASE m # 1
        <5>1. 1 < m
          BY <4>2, <1>3
        <5>2. Ranks(order[1], order[m])
          BY <5>1, <2>2, <3>2 DEF DetInv, OrderInv
        <5> QED BY <5>2, <3>1, <3>3, <3>4 DEF Ranks
      <4> QED BY <4>1, <4>2
    <3> QED BY <3>3, <3>4, <3>5, <3>6
  <2> QED BY <1>1, <1>2, <2>1, <2>2 DEF PrimaryIsBest, Comparable, score
<1> QED BY <1>4, <1>5, <1>6, <1>7, <1>8 DEF DetInv

LEMMA EndStep ==
  ASSUME DetInv, InferFails \/ SortPanics \/ Return
  PROVE  DetInv'
<1>1. /\ place' \in {"failed", "panic", "idle"}
      /\ place' = "panic" => ~Comparable
      /\ UNCHANGED <<candidates, order, next, keep, removed, primary>>
  BY DEF InferFails, SortPanics, Return
<1>2. DetTypeInv' BY <1>1 DEF DetInv, DetTypeInv, Places
<1>3. PlaceInv' BY <1>1 DEF DetInv, PlaceInv, Comparable, score
<1>4. OrderInv' BY <1>1 DEF DetInv, OrderInv, Comparable, score, Ranks
<1>5. KeepInv'
  <2>1. /\ \A i \in DOMAIN keep : \E m \in DOMAIN order : m < next /\ keep[i] = order[m]
        /\ \A m \in DOMAIN order : m < next => order[m] \in Kept \cup removed
        /\ next > 1 => keep # <<>> /\ keep[1] = order[1]
        /\ \A i, j \in DOMAIN keep : i # j => ~Overlaps(keep[i], keep[j])
        /\ \A c \in removed : \E k \in Kept : Overlaps(k, c) /\ (Comparable => Ranks(k, c))
    BY DEF DetInv, KeepInv
  <2> QED BY <1>1, <2>1 DEF KeepInv, Kept, Overlaps, Comparable, score, Ranks, Ended
<1>6. PrimaryIsBest' BY <1>1 DEF PrimaryIsBest
<1> QED BY <1>2, <1>3, <1>4, <1>5, <1>6 DEF DetInv

LEMMA DetStep ==
  ASSUME DetInv, [DetNext]_detVars
  PROVE  DetInv'
BY DetectPrimaryStep, InferStep, SortStep, SkipRemovedStep, KeepStep, NmsEndsStep,
   BestStep, EndStep, DetInvStutter DEF DetNext, Detecting

(* The suppression is sound in every state the invariant allows.           *)
LEMMA NmsSoundOfInv ==
  ASSUME DetInv
  PROVE  NmsSound
<1>1. ASSUME Ended, Len(keep) < TopK, NEW c \in DOMAIN candidates \ Kept
      PROVE  \E k \in Kept : Overlaps(k, c) /\ (Comparable => Ranks(k, c))
  <2>1. PICK m \in DOMAIN order : order[m] = c
    BY <1>1 DEF DetInv, OrderInv, Ended
  <2>2. order[m] \in Kept \cup removed
    BY <1>1, <2>1 DEF DetInv, KeepInv
  <2> QED BY <1>1, <2>1, <2>2 DEF DetInv, KeepInv
<1> QED BY <1>1 DEF NmsSound, DetInv, KeepInv

-----------------------------------------------------------------------------
(* What the aligner reads.                                                 *)
LEMMA ScaledBelow ==
  ASSUME NEW a \in Nat, NEW d \in Nat, a < d, NEW n \in Nat, n > 0
  PROVE  (a * n) \div d \in 0 .. n - 1
<1> DEFINE m == a * n
           q == m \div d
<1>1. m \in Nat /\ d * n \in Nat
  OBVIOUS
<1>2. m < d * n
  <2>1. (d - a) * n > 0 /\ (d - a) * n = d * n - a * n
    OBVIOUS
  <2> QED BY <2>1, <1>1
<1>3. q \in Nat /\ d * q <= m
  <2> HIDE DEF m
  <2> QED BY <1>1
<1>4. q < n
  <2> SUFFICES ASSUME q >= n PROVE FALSE
    <3> HIDE DEF q
    <3> QED BY <1>3
  <2>1. d * q >= d * n
    <3>1. (q - n) * d >= 0 /\ (q - n) * d = d * q - d * n
      <4>1. \A k \in Nat : k >= n => (k - n) * d >= 0 /\ (k - n) * d = d * k - d * n
        OBVIOUS
      <4> HIDE DEF q
      <4> QED BY <1>3, <4>1
    <3>2. d * q \in Int
      <4> HIDE DEF q
      <4> QED BY <1>3
    <3> HIDE DEF q
    <3> QED BY <3>1, <3>2, <1>1
  <2> HIDE DEF m, q
  <2> QED BY <2>1, <1>1, <1>2, <1>3
<1> HIDE DEF q
<1> QED BY <1>3, <1>4 DEF q

LEMMA SpanInside ==
  ASSUME NEW low \in Nat, NEW side \in Nat, low < 8 * Unit,
         NEW size \in Nat, size > 0
  PROVE  Span(low, side, size) \subseteq 0 .. size - 1
<1> DEFINE from == (low * size) \div (8 * Unit)
           to == Less(-((-((low + side) * size)) \div (8 * Unit)), size)
<1>1. 8 * Unit \in Nat /\ 8 * Unit > 0
  BY DetectorAssumption DEF Unit
<1>2. from \in 0 .. size - 1
  BY <1>1, ScaledBelow
<1>3. to \in Int /\ to <= size
  <2> DEFINE m == (low + side) * size
  <2>1. m \in Int OBVIOUS
  <2>2. -((-m) \div (8 * Unit)) \in Int
    <3> HIDE DEF m
    <3> QED BY <2>1, <1>1
  <2>3. \A n \in Int : Less(n, size) \in Int /\ Less(n, size) <= size
    BY DEF Less
  <2> HIDE DEF m
  <2> QED BY <2>2, <2>3 DEF m
<1>4. Span(low, side, size) = from .. from + More(to - from, 1) - 1
  BY DEF Span
<1>5. \A f \in 0 .. size - 1 : \A t \in Int :
        t <= size => f .. f + More(t - f, 1) - 1 \subseteq 0 .. size - 1
  BY DEF More
<1> HIDE DEF from, to
<1> QED BY <1>2, <1>3, <1>4, <1>5

(* The square crop of any box with a side lies in the frame: it has at     *)
(* least one pixel of it and none outside (square_crop_bbox and            *)
(* crop_and_resize).                                                       *)
THEOREM SquareCropInside ==
  ASSUME NEW b \in [x : 0 .. Unit, y : 0 .. Unit, w : 0 .. Unit, h : 0 .. Unit],
         b.w > 0 \/ b.h > 0, frame \in FrameSizes
  PROVE  crop(square_crop_bbox(b)) \subseteq Pixels
<1> DEFINE bb == square_crop_bbox(b)
<1>1. /\ bb.x \in Nat /\ bb.y \in Nat /\ bb.side \in Nat
      /\ bb.x < 8 * Unit /\ bb.y < 8 * Unit
  <2> DEFINE side == Less(10 * More(b.w, b.h), 8 * Unit)
             from(low, extent) == More(8 * low + 4 * extent - side \div 2, 0)
             Place(low, extent) ==
               LET n == from(low, extent)
               IN  IF n + side > 8 * Unit THEN 8 * Unit - side ELSE n
  <2>1. Unit \in Nat /\ Unit > 0
    BY DetectorAssumption DEF Unit
  <2>2. /\ b.x \in 0 .. Unit /\ b.y \in 0 .. Unit
        /\ b.w \in 0 .. Unit /\ b.h \in 0 .. Unit
    OBVIOUS
  <2>3. side \in 1 .. 8 * Unit
    BY <2>1, <2>2 DEF Less, More
  <2>4. \A low, extent \in 0 .. Unit : from(low, extent) \in Nat
    <3> HIDE DEF side
    <3> QED BY <2>1, <2>3 DEF More
  <2>5. \A low, extent \in 0 .. Unit : Place(low, extent) \in 0 .. 8 * Unit - 1
    <3> HIDE DEF side, from
    <3> QED BY <2>1, <2>3, <2>4
  <2>6. bb = [x |-> Place(b.x, b.w), y |-> Place(b.y, b.h), side |-> side]
    BY DEF square_crop_bbox
  <2> HIDE DEF bb, side, Place
  <2> QED BY <2>1, <2>2, <2>3, <2>5, <2>6
<1>2. frame[1] \in Nat /\ frame[1] > 0 /\ frame[2] \in Nat /\ frame[2] > 0
  BY PipelineAssumption
<1>3. /\ Span(bb.x, bb.side, frame[1]) \subseteq 0 .. frame[1] - 1
      /\ Span(bb.y, bb.side, frame[2]) \subseteq 0 .. frame[2] - 1
  <2> HIDE DEF bb
  <2> QED BY <1>1, <1>2, SpanInside
<1> QED BY <1>3 DEF crop, Pixels

LEMMA SampleInside ==
  ASSUME NEW x \in Int, NEW y \in Int, frame \in FrameSizes
  PROVE  sample_bilinear(x, y) \subseteq Pixels
<1>1. frame[1] \in Nat /\ frame[1] > 0 /\ frame[2] \in Nat /\ frame[2] > 0
  BY PipelineAssumption
<1>2. \A n \in Int, size \in Nat : 0 <= n /\ n < 2 * size =>
        n \div 2 \in 0 .. size - 1 /\ Less(n \div 2 + 1, size - 1) \in 0 .. size - 1
  BY DEF Less
<1> QED BY <1>1, <1>2 DEF sample_bilinear, Pixels

(* A detection with landmarks has landmarks.                               *)
LEMMA DetectionShape ==
  ASSUME DetInv, primary \in DOMAIN candidates, ~dev.mock_detector
  PROVE  Detection.landmarks \in [left_eye : Int \X Int, right_eye : Int \X Int,
                                  nose_tip : Int \X Int, mouth_left : Int \X Int,
                                  mouth_right : Int \X Int]
<1> DEFINE lm == candidates[primary].landmarks
<1>1. lm \in [1 .. 5 -> Int \X Int]
  BY DEF DetInv, DetTypeInv, Candidate
<1>2. \A n \in 1 .. 5 : Normalised(lm[n]) \in Int \X Int
  <2>1. \A p \in Int \X Int : Normalised(p) \in Int \X Int
    BY DetectorAssumption DEF Normalised, InUnit, Clamp, Unit
  <2> QED BY <1>1, <2>1
<1> QED BY <1>2 DEF Detection, to_detection

-----------------------------------------------------------------------------
(* The invariant of the pipeline: what the gate let through stays so, and  *)
(* an aligner that needs a face has one.                                   *)
GateInv ==
  /\ dev.mock_detector => place = "idle"
  /\ stage \in {"align", "pose", "live", "embed"} \/ outcome = "embedding" =>
       dev.mock_detector \/ primary # NoFace
  /\ stage \in {"live", "embed"} \/ outcome = "embedding" =>
       PassthroughPose \/ (Detection.landmarks # NoLandmarks /\ Frontal(Detection.landmarks))
  /\ dev.mock_detector /\ dev.mock_embedder => outcome \in {"none", "embedding"}

PipeInv == DetInv /\ PipelineTypeOK /\ AlignReadsInside /\ GateInv

LEMMA PipeInitially == Init => PipeInv
<1> SUFFICES ASSUME Init PROVE PipeInv
  OBVIOUS
<1>1. DetInv BY DetInitially DEF Init
<1>2. PipelineTypeOK BY DEF Init, DetInit, PipelineTypeOK, Outcomes
<1>3. AlignReadsInside BY DEF Init, AlignReadsInside
<1>4. GateInv BY DEF Init, DetInit, GateInv
<1> QED BY <1>1, <1>2, <1>3, <1>4 DEF PipeInv

(* Each step of the detector is one of DetNext, or none.                   *)
LEMMA PipeDetStep ==
  ASSUME [Next]_vars
  PROVE  [DetNext]_detVars
BY DEF Next, vars, NextFrame, DetectFullFrame, DetectWorks, DetectReturns, AlignPassthrough,
       AlignByBox, AlignByLandmarks, AlignFails, CheckFrontal, VerifyLive, Embed, DetNext

LEMMA AlignedStep ==
  ASSUME PipeInv, NEW pixels, pixels \subseteq Pixels, stage = "align",
         Aligned(pixels), UNCHANGED <<dev, frame, detVars>>
  PROVE  PipelineTypeOK' /\ AlignReadsInside' /\ GateInv'
<1>1. stage' = "pose" /\ outcome' = outcome /\ reads' = pixels
  BY DEF Aligned
<1> QED BY <1>1 DEF PipeInv, PipelineTypeOK, AlignReadsInside, GateInv, detVars, Pixels,
                    Comparable, score

LEMMA PipeStep ==
  ASSUME PipeInv, [Next]_vars
  PROVE  PipeInv'
<1>1. DetInv'
  BY PipeDetStep, DetStep DEF PipeInv
<1>2. frame \in FrameSizes /\ dev \in [Flags -> BOOLEAN]
  BY DEF PipeInv, PipelineTypeOK
<1>3. CASE NextFrame
  BY <1>1, <1>3 DEF NextFrame, PipeInv, PipelineTypeOK, AlignReadsInside, GateInv, detVars,
                    Outcomes
<1>4. CASE DetectFullFrame
  <2>1. /\ stage = "detect" /\ stage' = "align" /\ dev.mock_detector /\ outcome = "none"
        /\ UNCHANGED <<dev, frame, reads, outcome, detVars>>
    BY <1>4 DEF DetectFullFrame, PipeInv, PipelineTypeOK
  <2>2. place' = "idle"
    BY <2>1 DEF PipeInv, GateInv, detVars
  <2>3. PipelineTypeOK' /\ AlignReadsInside'
    BY <2>1, <2>2 DEF PipeInv, PipelineTypeOK, AlignReadsInside, Pixels, detVars
  <2>4. GateInv'
    BY <2>1, <2>2 DEF PipeInv, GateInv
  <2> QED BY <1>1, <2>3, <2>4 DEF PipeInv
<1>5. CASE DetectWorks
  <2>1. outcome = "none" /\ UNCHANGED pipeVars /\ stage = "detect" /\ ~dev.mock_detector
    BY <1>5 DEF DetectWorks, PipeInv, PipelineTypeOK
  <2>2. PipelineTypeOK'
    BY <1>1, <2>1 DEF PipeInv, PipelineTypeOK, pipeVars, DetInv, DetTypeInv, Places
  <2>3. AlignReadsInside' /\ GateInv'
    BY <2>1 DEF PipeInv, AlignReadsInside, GateInv, pipeVars, Pixels
  <2> QED BY <1>1, <2>2, <2>3 DEF PipeInv
<1>6. CASE DetectReturns
  <2>1. /\ UNCHANGED <<dev, frame, reads, candidates, primary>> /\ place' = "idle"
        /\ stage = "detect" /\ ~dev.mock_detector
        /\ \/ place = "panic" /\ stage' = "done" /\ outcome' = "panic"
           \/ stage' = "done" /\ outcome' \in {"error", "no_face"}
           \/ stage' = "align" /\ UNCHANGED outcome /\ primary # NoFace
    BY <1>6 DEF DetectReturns, Return, Ends
  <2>2. PipelineTypeOK'
    BY <2>1 DEF PipeInv, PipelineTypeOK, Outcomes
  <2>3. AlignReadsInside'
    BY <2>1 DEF PipeInv, DetInv, PlaceInv, PipelineTypeOK, AlignReadsInside, Pixels, Comparable, score
  <2>4. GateInv'
    BY <2>1 DEF PipeInv, PipelineTypeOK, GateInv
  <2> QED BY <1>1, <2>2, <2>3, <2>4 DEF PipeInv
<1>7. CASE AlignPassthrough
  BY <1>1, <1>7, AlignedStep DEF AlignPassthrough, PipeInv
<1>8. CASE AlignByBox
  <2>1. stage = "align" /\ Detection.landmarks = NoLandmarks
    BY <1>8 DEF AlignByBox
  <2>2. dev.mock_detector
    <3> SUFFICES ASSUME ~dev.mock_detector PROVE FALSE
      OBVIOUS
    <3>1. primary \in DOMAIN candidates
      BY <2>1 DEF PipeInv, GateInv, PipelineTypeOK
    <3> QED BY <2>1, <3>1, DetectionShape, PipelineAssumption DEF PipeInv
  <2>3. Detection.bbox = full_frame
    BY <2>2 DEF Detection
  <2>4. crop(square_crop_bbox(full_frame)) \subseteq Pixels
    BY <1>2, SquareCropInside, DetectorAssumption DEF full_frame, Unit
  <2> QED BY <1>1, <1>8, <2>1, <2>3, <2>4, AlignedStep DEF AlignByBox, PipeInv
<1>9. CASE AlignByLandmarks
  <2>1. PICK x \in -1 .. 2 * frame[1] + 1, y \in -1 .. 2 * frame[2] + 1 :
          Aligned(sample_bilinear(x, y))
    BY <1>9 DEF AlignByLandmarks
  <2>2. sample_bilinear(x, y) \subseteq Pixels
    BY <1>2, SampleInside
  <2> QED BY <1>1, <1>9, <2>1, <2>2, AlignedStep DEF AlignByLandmarks, PipeInv
<1>10. CASE AlignFails
  <2>1. ~dev.mock_detector
    BY <1>10 DEF AlignFails, Detection
  <2> QED BY <1>1, <1>10, <2>1 DEF AlignFails, Ends, PipeInv, PipelineTypeOK, Outcomes,
               AlignReadsInside, GateInv, detVars, Pixels, Comparable, score
<1>11. CASE CheckFrontal
  <2>1. /\ stage = "pose" /\ UNCHANGED <<dev, frame, reads, detVars>>
        /\ \/ /\ stage' = "live" /\ UNCHANGED outcome
              /\ PassthroughPose \/ (Detection.landmarks # NoLandmarks /\ Frontal(Detection.landmarks))
           \/ stage' = "done" /\ outcome' \in {"error", "no_face"} /\ ~PassthroughPose
    BY <1>11 DEF CheckFrontal, Ends
  <2>2. PipelineTypeOK' /\ AlignReadsInside'
    BY <2>1 DEF PipeInv, PipelineTypeOK, Outcomes, AlignReadsInside, detVars, Pixels,
                Comparable, score
  <2>3. PassthroughPose' = PassthroughPose /\ Detection' = Detection
    BY <2>1 DEF PassthroughPose, Detection, detVars
  <2>4. GateInv'
    BY <2>1, <2>3 DEF PipeInv, PipelineTypeOK, GateInv, PassthroughPose, detVars
  <2> QED BY <1>1, <2>2, <2>4 DEF PipeInv
<1>12. CASE VerifyLive
  <2>1. /\ stage = "live" /\ stage' = "embed"
        /\ UNCHANGED <<dev, frame, reads, outcome, detVars>>
    BY <1>12 DEF VerifyLive
  <2>2. PassthroughPose' = PassthroughPose /\ Detection' = Detection
    BY <2>1 DEF PassthroughPose, Detection, detVars
  <2> QED BY <1>1, <2>1, <2>2 DEF PipeInv, PipelineTypeOK, AlignReadsInside, GateInv,
                                  detVars, Pixels, Comparable, score
<1>13. CASE Embed
  <2>1. /\ stage = "embed" /\ stage' = "done"
        /\ outcome' = "embedding" \/ (outcome' = "error" /\ ~dev.mock_embedder)
        /\ UNCHANGED <<dev, frame, reads, detVars>>
    BY <1>13 DEF Embed, Ends
  <2>2. PassthroughPose' = PassthroughPose /\ Detection' = Detection
    BY <2>1 DEF PassthroughPose, Detection, detVars
  <2> QED BY <1>1, <2>1, <2>2 DEF PipeInv, PipelineTypeOK, Outcomes, AlignReadsInside,
                                  GateInv, detVars, Pixels, Comparable, score
<1>14. CASE UNCHANGED vars
  <2>1. UNCHANGED <<pipeVars, detVars>>
    BY <1>14 DEF vars
  <2>2. PassthroughPose' = PassthroughPose /\ Detection' = Detection
    BY <2>1 DEF PassthroughPose, Detection, detVars, pipeVars
  <2> QED BY <1>1, <2>1, <2>2 DEF PipeInv, PipelineTypeOK, AlignReadsInside,
                          GateInv, detVars, pipeVars, Pixels, Comparable, score
<1> QED BY <1>3, <1>4, <1>5, <1>6, <1>7, <1>8, <1>9, <1>10, <1>11, <1>12, <1>13, <1>14
        DEF Next

THEOREM PipelineInvariant == Spec => []PipeInv
BY PipeInitially, PipeStep, PTL DEF Spec

(* Every variable of detector and pipeline holds values of its type, and   *)
(* what went wrong is said exactly at the end.                             *)
THEOREM PipelineTypeCorrect == Spec => []PipelineTypeOK
BY PipelineInvariant, PTL DEF PipeInv

(* Suppression keeps no two overlapping faces and drops none without a     *)
(* kept one over it: nms is what it is for, whatever its scores and boxes. *)
THEOREM SuppressionSound == Spec => []NmsSound
BY PipelineInvariant, NmsSoundOfInv, PTL DEF PipeInv

(* Without a NaN score the face detect_primary returns has the highest     *)
(* score of all candidates.                                                *)
THEOREM BestFaceFound == Spec => []PrimaryIsBest
BY PipelineInvariant, PTL DEF PipeInv, DetInv

(* No pixel outside the frame is read, for frames of any size and any fit, *)
(* and a frame is fatal only when a NaN score upsets a sort.               *)
THEOREM ReadsInside == Spec => []AlignReadsInside
BY PipelineInvariant, PTL DEF PipeInv

(* The documented setup without camera and models embeds every frame.      *)
THEOREM MockEmbeds == Spec => []MockRunEmbeds
<1>1. ASSUME PipeInv PROVE MockRunEmbeds
  BY <1>1 DEF PipeInv, GateInv, PipelineTypeOK, MockRunEmbeds
<1> QED BY <1>1, PipelineInvariant, PTL

(* Stretching a frame that is at least as wide as high to a square only    *)
(* steepens the line of the eyes, so the gate errs to the strict side.     *)
LEMMA StretchSteepens ==
  ASSUME NEW dx \in Int, NEW dy \in Int, NEW w \in Nat, NEW h \in Nat, h > 0, w >= h,
         RollWithin30(dx, dy)
  PROVE  dx * w > 0 /\ 3 * Square(dy * h) <= Square(dx * w)
<1>1. dx > 0 /\ 3 * (dy * dy) <= dx * dx
  BY DEF RollWithin30, Square
<1>2. dx * w > 0
  BY <1>1
<1>3. 3 * (dy * dy) * (h * h) <= (dx * dx) * (h * h)
  <2>1. \A m, n, k \in Nat : m <= n => m * k <= n * k
    OBVIOUS
  <2>2. 3 * (dy * dy) \in Nat /\ dx * dx \in Nat /\ h * h \in Nat
    OBVIOUS
  <2> QED BY <1>1, <2>1, <2>2
<1>4. (dx * dx) * (h * h) <= (dx * dx) * (w * w)
  <2>1. h * h <= w * w
    OBVIOUS
  <2>2. \A m, n, k \in Nat : m <= n => k * m <= k * n
    OBVIOUS
  <2>3. dx * dx \in Nat /\ h * h \in Nat /\ w * w \in Nat
    OBVIOUS
  <2> QED BY <2>1, <2>2, <2>3
<1>5. /\ 3 * (dy * dy) * (h * h) = 3 * Square(dy * h)
      /\ (dx * dx) * (w * w) = Square(dx * w)
  BY DEF Square
<1>6. 3 * Square(dy * h) \in Int /\ Square(dx * w) \in Int /\ (dx * dx) * (h * h) \in Int
  BY DEF Square
<1> QED BY <1>2, <1>3, <1>4, <1>5, <1>6

(* What is embedded after the gate on a landscape frame has its eyes level *)
(* on the picture, the right one to the right.                             *)
THEOREM EyesLevel == Spec => []EmbeddedEyesLevel
<1>1. ASSUME PipeInv PROVE EmbeddedEyesLevel
  <2> SUFFICES ASSUME outcome = "embedding", ~PassthroughPose, frame[1] >= frame[2]
               PROVE  LET dx == Detection.landmarks.right_eye[1] - Detection.landmarks.left_eye[1]
                          dy == Detection.landmarks.right_eye[2] - Detection.landmarks.left_eye[2]
                      IN  dx * frame[1] > 0 /\ 3 * Square(dy * frame[2]) <= Square(dx * frame[1])
    BY DEF EmbeddedEyesLevel
  <2> DEFINE lm == Detection.landmarks
             dx == lm.right_eye[1] - lm.left_eye[1]
             dy == lm.right_eye[2] - lm.left_eye[2]
  <2>1. Detection.landmarks # NoLandmarks /\ Frontal(lm) /\ ~dev.mock_detector
    BY <1>1 DEF PipeInv, GateInv, PassthroughPose
  <2>2. RollWithin30(dx, dy)
    BY <2>1 DEF Frontal
  <2>3. dx \in Int /\ dy \in Int
    <3>1. primary \in DOMAIN candidates
      BY <1>1, <2>1 DEF PipeInv, GateInv, PipelineTypeOK
    <3> QED BY <1>1, <2>1, <3>1, DetectionShape DEF PipeInv
  <2>4. frame[1] \in Nat /\ frame[2] \in Nat /\ frame[2] > 0
    BY <1>1, PipelineAssumption DEF PipeInv, PipelineTypeOK
  <2> HIDE DEF dx, dy
  <2>5. dx * frame[1] > 0 /\ 3 * Square(dy * frame[2]) <= Square(dx * frame[1])
    BY <2>2, <2>3, <2>4, StretchSteepens
  <2> QED BY <2>5 DEF dx, dy
<1> QED BY <1>1, PipelineInvariant, PTL

(* On a frame at least as high as wide the same stretching flattens it: a  *)
(* line within 30 degrees on the picture is within them for the gate.      *)
LEMMA StretchFlattens ==
  ASSUME NEW dx \in Int, NEW dy \in Int, NEW w \in Nat, NEW h \in Nat, w > 0, w <= h,
         RollWithin30(dx * w, dy * h)
  PROVE  RollWithin30(dx, dy)
<1>1. dx * w > 0 /\ 3 * Square(dy * h) <= Square(dx * w)
  BY DEF RollWithin30
<1>2. dx > 0
  BY <1>1
<1>3. 3 * (dy * dy) * (h * h) <= (dx * dx) * (w * w)
  BY <1>1 DEF Square
<1>4. (dx * dx) * (w * w) <= (dx * dx) * (h * h)
  <2>1. w * w <= h * h
    OBVIOUS
  <2>2. \A m, n, k \in Nat : m <= n => k * m <= k * n
    OBVIOUS
  <2>3. dx * dx \in Nat /\ h * h \in Nat /\ w * w \in Nat
    OBVIOUS
  <2> QED BY <2>1, <2>2, <2>3
<1> DEFINE left == 3 * (dy * dy)
           right == dx * dx
           hh == h * h
<1>5. left \in Nat /\ right \in Nat /\ hh \in Nat /\ hh > 0
  OBVIOUS
<1>6. left * hh <= right * hh
  <2>1. (dx * dx) * (w * w) \in Int
    OBVIOUS
  <2> HIDE DEF left, right, hh
  <2> DEFINE middle == (dx * dx) * (w * w)
  <2>2. left * hh <= middle /\ middle <= right * hh
    BY <1>3, <1>4 DEF left, right, hh
  <2>3. middle \in Int /\ left * hh \in Int /\ right * hh \in Int
    BY <1>5, <2>1
  <2> HIDE DEF middle
  <2> QED BY <2>2, <2>3
<1>7. left <= right
  <2> HIDE DEF left, right, hh
  <2>1. ASSUME right + 1 <= left PROVE FALSE
    <3>1. (right + 1) * hh <= left * hh
      <4>1. \A m, n, k \in Nat : m <= n => m * k <= n * k
        OBVIOUS
      <4> QED BY <1>5, <2>1, <4>1
    <3>2. (right + 1) * hh = right * hh + hh /\ right * hh \in Int /\ left * hh \in Int
      BY <1>5
    <3> QED BY <1>5, <1>6, <3>1, <3>2
  <2> QED BY <1>5, <2>1
<1> QED BY <1>2, <1>7 DEF RollWithin30, Square

(* A frame with a face that counts as none was turned away by the gate.    *)
TurnedAway ==
  outcome = "no_face" /\ primary # NoFace /\ ~dev.mock_detector =>
    EyesApart(Detection.landmarks) /\ ~Frontal(Detection.landmarks)

LEMMA TurnedAwayInit == Init => TurnedAway
BY DEF Init, TurnedAway

LEMMA TurnedAwayStep ==
  ASSUME PipeInv, TurnedAway, [Next]_vars
  PROVE  TurnedAway'
<1>1. CASE UNCHANGED vars
  <2>1. UNCHANGED <<outcome, primary, dev, candidates>>
    BY <1>1 DEF vars, pipeVars, detVars
  <2> QED BY <2>1 DEF TurnedAway, Detection
<1>2. CASE Next
  <2> SUFFICES ASSUME outcome' = "no_face", primary' # NoFace, ~dev'.mock_detector
               PROVE  EyesApart(Detection'.landmarks) /\ ~Frontal(Detection'.landmarks)
    BY DEF TurnedAway
  <2>1. outcome = "none" \/ NextFrame
    BY <1>2 DEF PipeInv, PipelineTypeOK, Next, DetectFullFrame, DetectWorks, DetectReturns,
       AlignPassthrough, AlignByBox, AlignByLandmarks, AlignFails, CheckFrontal, VerifyLive, Embed
  <2>2. ~NextFrame
    BY DEF NextFrame
  <2>3. DetectReturns \/ CheckFrontal
    BY <1>2, <2>1, <2>2 DEF Next, DetectFullFrame, DetectWorks, pipeVars, AlignPassthrough,
       AlignByBox, AlignByLandmarks, Aligned, AlignFails, VerifyLive, Embed, Ends
  <2>4. ~DetectReturns
    BY <2>1, <2>2 DEF DetectReturns, Return, Ends
  <2>5. /\ stage = "pose" /\ UNCHANGED <<dev, candidates, primary>>
        /\ ~PassthroughPose
        /\ \/ Detection.landmarks = NoLandmarks
           \/ EyesApart(Detection.landmarks) /\ ~Frontal(Detection.landmarks)
    BY <2>1, <2>2, <2>3, <2>4 DEF CheckFrontal, Ends, detVars
  <2>6. Detection' = Detection
    BY <2>5 DEF Detection
  <2>7. Detection.landmarks # NoLandmarks
    <3>1. primary \in DOMAIN candidates
      BY <2>5 DEF PipeInv, PipelineTypeOK
    <3> QED BY <2>5, <3>1, DetectionShape, PipelineAssumption DEF PipeInv
  <2> QED BY <2>5, <2>6, <2>7
<1> QED BY <1>1, <1>2

(* On a frame that is not wider than high no face is turned away for a     *)
(* roll within max_abs_roll_deg: the gate errs on wide frames only.        *)
THEOREM HighFramesInDegrees == Spec => [](frame[1] <= frame[2] => RollLimitInDegrees)
<1>1. ASSUME PipeInv, TurnedAway, frame[1] <= frame[2] PROVE RollLimitInDegrees
  <2> DEFINE lm == Detection.landmarks
             dx == lm.right_eye[1] - lm.left_eye[1]
             dy == lm.right_eye[2] - lm.left_eye[2]
  <2> SUFFICES ASSUME outcome = "no_face", primary # NoFace, ~dev.mock_detector,
                      2 * lm.nose_tip[1] = lm.left_eye[1] + lm.right_eye[1],
                      RollWithin30(dx * frame[1], dy * frame[2])
               PROVE  FALSE
    BY DEF RollLimitInDegrees
  <2>1. ~Frontal(lm)
    BY <1>1 DEF TurnedAway
  <2>2. primary \in DOMAIN candidates
    BY <1>1 DEF PipeInv, PipelineTypeOK
  <2>3. lm \in [left_eye : Int \X Int, right_eye : Int \X Int, nose_tip : Int \X Int,
                mouth_left : Int \X Int, mouth_right : Int \X Int]
    BY <1>1, <2>2, DetectionShape DEF PipeInv
  <2>4. dx \in Int /\ dy \in Int /\ 2 * lm.nose_tip[1] - lm.left_eye[1] - lm.right_eye[1] = 0
    BY <2>3
  <2>5. frame[1] \in Nat /\ frame[2] \in Nat /\ frame[1] > 0
    BY <1>1, PipelineAssumption DEF PipeInv, PipelineTypeOK
  <2>6. RollWithin30(dx, dy)
    <3> HIDE DEF dx, dy
    <3> QED BY <1>1, <2>4, <2>5, StretchFlattens
  <2>7. 100 * Square(0) <= 81 * (Square(dx) + Square(dy))
    <3> HIDE DEF dx, dy
    <3>1. \A n \in Int : n * n \in Nat
      OBVIOUS
    <3>2. Square(dx) \in Nat /\ Square(dy) \in Nat /\ Square(0) = 0
      BY <2>4, <3>1 DEF Square
    <3> QED BY <3>2
  <2> QED BY <2>1, <2>4, <2>6, <2>7 DEF Frontal
<1>2. PipeInv /\ TurnedAway => (frame[1] <= frame[2] => RollLimitInDegrees)
  BY <1>1
<1> QED BY <1>2, PipelineInvariant, TurnedAwayInit, TurnedAwayStep, PTL DEF Spec

===============================================================================
