------------------------- MODULE VerificationDecision -------------------------
(***************************************************************************)
(* The matching rule of trueid-core: which captures are accepted against   *)
(* which enrolled templates (application/verification_decision.rs), and    *)
(* the average that turns a capture into a template (domain/embedding.rs). *)
(*                                                                         *)
(* An embedding is an opaque value.  What the rule observes of it is its   *)
(* dimension and whether the matcher port accepts it against a template.   *)
(***************************************************************************)
EXTENDS Integers, Sequences, FiniteSets

CONSTANTS
  Embedding,    (* the embeddings the embedder port can return             *)
  NoEmbedding,  (* Option::None: a frame that produced no embedding        *)
  Match,        (* the <<probe, template>> pairs the matcher port accepts  *)
  Dim,          (* Dim[e] is the length of the vector e                    *)
  Averages      (* Averages[S]: the means of the captures made of the      *)
                (* embeddings S, each at least once (a mean depends on how *)
                (* often each occurs)                                      *)

ASSUME NoEmbeddingAssumption == NoEmbedding \notin Embedding

ASSUME MatchAssumption == Match \subseteq Embedding \X Embedding

ASSUME DimAssumption == Dim \in [Embedding -> Nat]

ASSUME AveragesAssumption ==
  /\ Averages \in [SUBSET Embedding -> SUBSET Embedding]
  /\ \A e \in Embedding : Dim[e] # 0 => Averages[{e}] = {e}

(* What a pulled frame contributes: Option<Embedding>.                     *)
Probe == Embedding \cup {NoEmbedding}

-------------------------------------------------------------------------------

(* Faulty variant: more than half, not at least half.                      *)
template_quorum_required_majority(template_count) == template_count \div 2 + 1

template_quorum_required(template_count) == (template_count + 1) \div 2

PassCount(probe, templates) ==
  Cardinality({i \in DOMAIN templates : <<probe, templates[i]>> \in Match})

(* The quorum flag of the pair the source returns; the similarity is only  *)
(* logged.                                                                 *)
evaluate_probe_vs_templates(probe, templates) ==
  /\ probe # NoEmbedding
  /\ templates # <<>>
  /\ PassCount(probe, templates) >= template_quorum_required(Len(templates))

(* Faulty variant: the votes of different frames are added up.             *)
verify_burst_pooled(templates, probes) ==
  /\ templates # <<>>
  /\ Cardinality({v \in (DOMAIN probes) \X (DOMAIN templates) :
                    <<probes[v[1]], templates[v[2]]>> \in Match})
       >= template_quorum_required(Len(templates))

verify_burst(templates, probes) ==
  /\ templates # <<>>
  /\ \E i \in DOMAIN probes : evaluate_probe_vs_templates(probes[i], templates)

-------------------------------------------------------------------------------

EmbeddingsIn(embeddings) == {embeddings[i] : i \in DOMAIN embeddings}

(* The values Embedding::try_average may return; {} stands for None.       *)
try_average(embeddings) ==
  IF /\ embeddings # <<>>
     /\ Dim[embeddings[1]] # 0
     /\ \A i \in DOMAIN embeddings : Dim[embeddings[i]] = Dim[embeddings[1]]
  THEN Averages[EmbeddingsIn(embeddings)]
  ELSE {}

===============================================================================
