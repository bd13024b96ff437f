---------------------------- MODULE MCFacePipeline ----------------------------
(* Instances of FacePipeline for TLC: a network whose picture has 64 pixels *)
(* a side, so 84 cells, of which at most four answer with a face.          *)
EXTENDS FacePipeline

(* The points are re, le, nt, rcm, lcm, in strides from the cell.  The      *)
(* network means the right eye of the person, which a camera shows on the   *)
(* left, and a mirrored picture on the right.                               *)
Upright == <<<<-1, -1>>, <<1, -1>>, <<0, 0>>, <<-1, 1>>, <<1, 1>>>>
Mirrored == <<<<1, -1>>, <<-1, -1>>, <<0, 0>>, <<1, 1>>, <<-1, 1>>>>
Turned == <<<<1, 1>>, <<-1, 1>>, <<0, 0>>, <<1, -1>>, <<-1, -1>>>>
Aside == <<<<1, -1>>, <<-1, -1>>, <<1, 0>>, <<1, 1>>, <<0, 1>>>>
Rolled == <<<<3, 2>>, <<-3, -2>>, <<0, 0>>, <<0, 2>>, <<-2, 1>>>>
OneEye == <<<<0, 0>>, <<0, 0>>, <<0, 1>>, <<1, 1>>, <<-1, 1>>>>
Point == <<<<0, 0>>, <<0, 0>>, <<0, 0>>, <<0, 0>>, <<0, 0>>>>

Seen(cell, cls, obj, side, kps) ==
  [cell |-> cell,
   out |-> [cls |-> cls, obj |-> obj, dx |-> 0, dy |-> 0, w |-> side, h |-> side,
            kps |-> kps]]

(* Three faces in a row, each overlapping its neighbour, the best of them   *)
(* last; one of the same score elsewhere; faint, NaN and empty ones.        *)
Faces == {
  Seen(<<1, 3, 2>>, 8, 9, 4, Mirrored),
  Seen(<<1, 3, 4>>, 8, 10, 4, Upright),
  Seen(<<1, 3, 6>>, 10, 12, 4, Turned),
  Seen(<<2, 3, 1>>, 10, 8, 1, Aside),
  Seen(<<1, 4, 4>>, 9, 9, 2, Rolled),
  Seen(<<1, 7, 7>>, 9, 9, 1, OneEye),
  Seen(<<1, 0, 7>>, 7, 7, 0, Point),
  Seen(<<3, 1, 1>>, 5, 7, 1, Mirrored),
  Seen(<<3, 0, 0>>, NaN, 10, 1, Upright)}

MCOutputs ==
  {[cell \in {f.cell : f \in S} |-> (CHOOSE f \in S : f.cell = cell).out] :
     S \in {T \in SUBSET Faces : Cardinality(T) <= 4}}
MCFrameSizes == {<<1, 1>>, <<4, 3>>}

===============================================================================
