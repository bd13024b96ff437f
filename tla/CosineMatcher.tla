----------------------------- MODULE CosineMatcher -----------------------------
(***************************************************************************)
(* What the matching rule of VerificationDecision rests on when embeddings *)
(* are vectors: the normalisation of the model's output, the mean of a     *)
(* capture and the cosine of a probe and a template against the threshold. *)
(*                                                                         *)
(* Components are integers; One stands for 1.0, fine enough that what is   *)
(* normalised or averaged is whole.  The cosine itself is never needed,    *)
(* only its comparison, which squares of products decide exactly.          *)
(***************************************************************************)
EXTENDS Integers, Sequences, Functions

CONSTANTS
  One,
  match_threshold,   (* in percent: whatever the config file says, also    *)
                     (* what no cosine reaches or every cosine does        *)
  NoTemplate         (* Option::None of try_average                        *)

ASSUME CosineAssumption ==
  /\ One \in Nat \ {0}
  /\ match_threshold \in Int
  /\ NoTemplate \notin Seq(Int)

Vector == Seq(Int)

Total(f) == FoldFunction(LAMBDA x, y : x + y, 0, f)

(* zip ends with the shorter of the two.                                   *)
Dot(a, b) == Total([i \in DOMAIN a \cap DOMAIN b |-> a[i] * b[i]])

Norm2(a) == Dot(a, a)

(* cosine_similarity has a result.                                         *)
HasCosine_any_length(a, b) == a # <<>> /\ Norm2(a) # 0 /\ Norm2(b) # 0
HasCosine(a, b) ==
  Len(a) = Len(b) /\ a # <<>> /\ Norm2(a) # 0 /\ Norm2(b) # 0

matches(probe, enrolled) ==
  LET dot == Dot(probe, enrolled)
      reached == 10000 * dot * dot
      needed == match_threshold * match_threshold * Norm2(probe) * Norm2(enrolled)
  IN  /\ HasCosine(probe, enrolled)
      /\ IF match_threshold >= 0 THEN dot >= 0 /\ reached >= needed
                                 ELSE dot >= 0 \/ reached <= needed

(* The zero vector stays as it is.                                         *)
l2_normalize(v) ==
  IF Norm2(v) = 0 THEN v
  ELSE LET n == CHOOSE n \in 1 .. Norm2(v) : n * n = Norm2(v)
       IN  [i \in DOMAIN v |-> (v[i] * One) \div n]

try_average(es) ==
  IF es = <<>> \/ es[1] = <<>> \/ \E j \in DOMAIN es : Len(es[j]) # Len(es[1])
  THEN NoTemplate
  ELSE [i \in DOMAIN es[1] |-> Total([j \in DOMAIN es |-> es[j][i]]) \div Len(es)]

(* The decider with this matcher.                                          *)
MatchingPairs == {m \in Vector \X Vector : matches(m[1], m[2])}
Dimensions == [v \in Vector |-> Len(v)]
Means ==
  [S \in SUBSET Vector |->
     {try_average(es) : es \in {s \in Seq(S) : Range(s) = S}} \ {NoTemplate}]

Decider == INSTANCE VerificationDecision WITH
  Embedding <- Vector, NoEmbedding <- NoTemplate,
  Match <- MatchingPairs, Dim <- Dimensions, Averages <- Means

===============================================================================
