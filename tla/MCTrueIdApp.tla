----------------------------- MODULE MCTrueIdApp -----------------------------
(* Instances of TrueIdApp for TLC.                                         *)
EXTENDS TrueIdApp

CONSTANTS a, b, c

(* a and b are faces the matcher tells apart, c is an embedding of another *)
(* length, as after a change of model.                                     *)
MCEmbedding == {a, b, c}
MCMatch == {<<a, a>>, <<b, b>>, <<c, c>>}
MCDim == [e \in MCEmbedding |-> IF e = c THEN 3 ELSE 2]
MCAverages == [S \in SUBSET MCEmbedding |-> IF S = {a, b} THEN {a, b} ELSE S]

MCStreaming == [enroll |-> [warmup_discard |-> 1, max_frames |-> 2],
                verify |-> [warmup_discard |-> 1, max_frames |-> 2]]

(* Two processes at one camera need only one frame and one face.           *)
MCTwoEmbedding == {a}
MCTwoMatch == {<<a, a>>}
MCTwoDim == [e \in MCTwoEmbedding |-> 2]
MCTwoAverages == [S \in SUBSET MCTwoEmbedding |-> S]
MCTwoStreaming == [enroll |-> [warmup_discard |-> 0, max_frames |-> 1],
                   verify |-> [warmup_discard |-> 0, max_frames |-> 1]]

===============================================================================
