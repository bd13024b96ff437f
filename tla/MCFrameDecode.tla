---------------------------- MODULE MCFrameDecode ----------------------------
(* Instances of FrameDecode for TLC: integers of few values, so that sizes *)
(* of a few pixels reach every overflow.                                   *)
EXTENDS FrameDecode

MCSizes ==
  {<<0, 2>>, <<2, 0>>, <<1, 1>>, <<1, 2>>, <<2, 2>>, <<3, 2>>, <<2, 3>>, <<2, 6>>, <<3, 3>>, <<6, 6>>}

(* Drivers that grant some formats and refuse the others, and drivers that *)
(* answer every request with the one format they have.                     *)
MCDrivers ==
  {[f \in Fourcc |-> IF f \in granted THEN f ELSE Refused] :
     granted \in SUBSET (Fourcc \ {"other"})}
  \cup {[f \in Fourcc |-> only] : only \in Fourcc}

MCPayloads ==
  {[len |-> n, jpeg |-> NotJpeg] : n \in {0, 1, 2, 3, 4, 7, 8, 9, 11, 12, 23, 24, 36, 72, 73}}
  \cup {[len |-> 1, jpeg |-> j] : j \in Jpeg}

===============================================================================
