--------------------------- MODULE DeploymentProofs ---------------------------
(***************************************************************************)
(* Theorems about get-models, the configuration and the templates of       *)
(* several embedders, for any configurations, users and embedders.         *)
(***************************************************************************)
EXTENDS Deployment, CosineMatcherProofs

-----------------------------------------------------------------------------
(* get-models.                                                             *)

InstallTypeInv ==
  /\ file \in [Model -> {"absent", "partial", "whole"}]
  /\ at \in 0 .. 3
  /\ tool \in {"none", "curl", "wget"}
  /\ missing \subseteq Model

(* A call has made whole what was missing before its position, has not     *)
(* touched what is behind it, and works on a model that is not whole.      *)
ProgressInv ==
  /\ \A i \in 1 .. 2 : Models[i] \in missing =>
       /\ i < at => file[Models[i]] = "whole"
       /\ at < i => ~exists(Models[i])
       /\ i = at /\ tool = "none" => ~exists(Models[i])
  /\ tool # "none" => at \in 1 .. 2 /\ Models[at] \in missing /\ file[Models[at]] # "whole"
  /\ \A i \in 1 .. 2 : at # 0 /\ ~exists(Models[i]) => Models[i] \in missing

InstallInv == InstallTypeInv /\ ProgressInv

LEMMA ModelFacts ==
  /\ DOMAIN Models = 1 .. 2 /\ Len(Models) = 2
  /\ Models[1] = "face_detector" /\ Models[2] = "face_embedding"
  /\ Model = {"face_detector", "face_embedding"}
  /\ \A i \in 1 .. 2 : Models[i] \in Model
  /\ \A i, j \in 1 .. 2 : Models[i] = Models[j] => i = j
<1>1. /\ DOMAIN Models = 1 .. 2 /\ Len(Models) = 2
      /\ Models[1] = "face_detector" /\ Models[2] = "face_embedding"
  BY DEF Models
<1>2. Model = {"face_detector", "face_embedding"}
  BY <1>1 DEF Model
<1> QED BY <1>1, <1>2

LEMMA InstallInitially == InstallInit => InstallInv
BY ModelFacts DEF InstallInit, InstallInv, InstallTypeInv, ProgressInv, exists

LEMMA InstallStep ==
  ASSUME InstallInv, [InstallNext]_installVars
  PROVE  InstallInv'
<1> USE ModelFacts DEF InstallInv, InstallTypeInv, ProgressInv, exists
<1>1. CASE GetModels
  BY <1>1 DEF GetModels
<1>2. CASE SkipPresent
  BY <1>2 DEF SkipPresent, Advanced
<1>3. CASE Fetch
  BY <1>3 DEF Fetch
<1>4. CASE Arrive
  BY <1>4 DEF Arrive
<1>5. CASE Fetched
  BY <1>5 DEF Fetched, Advanced
<1>6. CASE CurlFails
  BY <1>6 DEF CurlFails
<1>7. CASE FetchFails
  BY <1>7 DEF FetchFails, Ended
<1>8. CASE Interrupted
  BY <1>8 DEF Interrupted, Ended
<1>9. CASE Report
  BY <1>9 DEF Report, Ended
<1>10. CASE UNCHANGED installVars
  BY <1>10 DEF installVars
<1> QED BY <1>1, <1>2, <1>3, <1>4, <1>5, <1>6, <1>7, <1>8, <1>9, <1>10 DEF InstallNext

(* Every step of the machine is one of get-models or leaves its state.     *)
LEMMA DeployInstallStep ==
  ASSUME [Next]_vars
  PROVE  [InstallNext]_installVars
BY DEF Next, vars, installVars, GetModelsStep, EditConfig, MachineChanges, LoadConfig, Build,
       StartFails, Dies, Restart, Enroll, AddTemplate, AddOne

THEOREM InstallInvariant == Spec => []InstallInv
<1>1. Init => InstallInv
  BY InstallInitially DEF Init
<1>2. InstallInv /\ [Next]_vars => InstallInv'
  BY InstallStep, DeployInstallStep
<1> QED BY <1>1, <1>2, PTL DEF Spec

(* get-models reports success only when all that was missing is whole, and *)
(* no failure, retry or interruption damages a model that is whole.        *)
THEOREM InstalledSound == Spec => InstallSound
<1>1. ASSUME InstallInv, [Next]_vars
      PROVE  [/\ Report => \A m \in missing : file[m] = "whole"
              /\ \A m \in Model : file[m] = "whole" => file'[m] = "whole"]_installVars
  <2> USE ModelFacts DEF InstallInv, InstallTypeInv, ProgressInv, exists
  <2>1. ASSUME Report PROVE \A m \in missing : file[m] = "whole"
    <3>1. at = 3
      BY <2>1 DEF Report
    <3>2. \A m \in missing : m = Models[1] \/ m = Models[2]
      BY <1>1
    <3> QED BY <1>1, <3>1, <3>2
  <2>2. [InstallNext]_installVars
    BY <1>1, DeployInstallStep
  <2>3. ASSUME NEW m \in Model, file[m] = "whole" PROVE file'[m] = "whole"
    <3>1. CASE Arrive \/ Fetched
      BY <2>3, <3>1, <1>1 DEF Arrive, Fetched
    <3>2. CASE UNCHANGED file
      BY <2>3, <3>2
    <3> QED BY <2>2, <3>1, <3>2 DEF InstallNext, installVars, GetModels, SkipPresent, Fetch,
               CurlFails, FetchFails, Interrupted, Report
  <2> QED BY <2>1, <2>3
<1> QED BY <1>1, InstallInvariant, PTL DEF Spec, InstallSound

-----------------------------------------------------------------------------
(* Configuration.                                                          *)

LEMMA DefaultsFacts ==
  /\ {"enroll", "verify"} \subseteq DOMAIN Defaults
  /\ Defaults["enroll"] = StreamingPolicy["enroll"]
  /\ Defaults["verify"] = StreamingPolicy["verify"]
BY DeploymentAssumption DEF Defaults, Completed

(* A daemon works with each limit its file sets, whichever others the file *)
(* leaves out, and with its own limits of the policy for an operation of   *)
(* which the file says nothing.                                            *)
THEOREM ConfiguredLimits == Spec => LimitsAsConfigured
<1> DEFINE y == resolve_config_path
<1>1. ASSUME LoadConfig, NEW op \in DOMAIN StreamingPolicy, NEW limit \in Limits
      PROVE  IF op \notin DOMAIN y THEN app'[op][limit] = StreamingPolicy[op][limit]
             ELSE limit \in DOMAIN y[op] => app'[op][limit] = y[op][limit]
  <2>1. y \in Yamls /\ app' = load_config(y)
    BY <1>1 DEF LoadConfig
  <2>2. op \in {"enroll", "verify"} /\ op \in DOMAIN Defaults
    BY <1>1, DeploymentAssumption, DefaultsFacts
  <2> HIDE DEF y
  <2>3. CASE op \notin DOMAIN y
    <3>1. app'[op] = Completed(y, Defaults)[op]
      BY <2>1, <2>2, <2>3 DEF load_config
    <3>2. Completed(y, Defaults)[op] = Defaults[op]
      BY <2>2, <2>3 DEF Completed
    <3> QED BY <2>2, <2>3, <3>1, <3>2, DefaultsFacts
  <2>4. CASE op \in DOMAIN y
    <3>1. app'[op] = Completed(y[op], StreamingPolicy.verify)
      BY <1>1, <2>1, <2>2, <2>4 DEF load_config
    <3>2. ASSUME limit \in DOMAIN y[op]
          PROVE  Completed(y[op], StreamingPolicy.verify)[limit] = y[op][limit]
      BY <3>2 DEF Completed
    <3> QED BY <2>4, <3>1, <3>2
  <2> QED BY <2>3, <2>4
<1>2. [Next]_vars => [\A op \in DOMAIN StreamingPolicy, limit \in Limits : LoadConfig =>
          IF op \notin DOMAIN y THEN app'[op][limit] = StreamingPolicy[op][limit]
          ELSE limit \in DOMAIN y[op] => app'[op][limit] = y[op][limit]]_vars
  BY <1>1
<1>3. [Next]_vars => [LoadConfig =>
       \A op \in DOMAIN StreamingPolicy, limit \in Limits :
         LET f == resolve_config_path
         IN  IF op \notin DOMAIN f THEN app'[op][limit] = StreamingPolicy[op][limit]
             ELSE limit \in DOMAIN f[op] => app'[op][limit] = f[op][limit]]_vars
  BY <1>2
<1> QED BY <1>3, PTL DEF Spec, LimitsAsConfigured

-----------------------------------------------------------------------------
(* Templates.                                                              *)

(* The limits a process works with are numbers.                            *)
LEMMA LimitsAreNumbers ==
  ASSUME NEW y \in Yamls, NEW op \in {"enroll", "verify"}
  PROVE  load_config(y)[op].max_frames \in Nat
<1>1. op \in DOMAIN Defaults /\ Defaults[op] = StreamingPolicy[op]
  BY DefaultsFacts
<1>2. op \in DOMAIN StreamingPolicy
  BY DeploymentAssumption
<1>3. \A o \in {"enroll", "verify"} : /\ StreamingPolicy[o].max_frames \in Nat
                                      /\ DOMAIN StreamingPolicy[o] = Limits
  BY DeploymentAssumption DEF Limits
<1>4. "max_frames" \in Limits
  BY DEF Limits
<1>5. CASE op \in DOMAIN y
  <2>1. load_config(y)[op] = Completed(y[op], StreamingPolicy.verify)
    BY <1>1, <1>2, <1>5 DEF load_config
  <2>2. \A limit \in DOMAIN y[op] : y[op][limit] \in Nat
    BY <1>5, DeploymentAssumption
  <2>3. StreamingPolicy.verify.max_frames \in Nat /\ "max_frames" \in DOMAIN StreamingPolicy.verify
    BY <1>3, <1>4
  <2>4. Completed(y[op], StreamingPolicy.verify).max_frames \in Nat
    BY <2>2, <2>3 DEF Completed
  <2> QED BY <2>1, <2>4
<1>6. CASE op \notin DOMAIN y
  <2>1. load_config(y)[op] = Completed(y, Defaults)[op]
    BY <1>1, <1>6 DEF load_config
  <2>2. Completed(y, Defaults)[op] = Defaults[op]
    BY <1>1, <1>6 DEF Completed
  <2> QED BY <1>1, <1>3, <2>1, <2>2
<1> QED BY <1>5, <1>6

(* What the embedder says is a vector, also when it is normalised.         *)
LEMMA EmbeddingsAreVectors ==
  ASSUME NEW cfg
  PROVE  Embeddings(cfg) \subseteq Vector
<1>1. MockEmbedding \in Vector
  BY CosineAssumption DEF MockEmbedding, Vector
<1>2. ASSUME NEW r \in Raws PROVE l2_normalize(r) \in Vector
  <2>1. r \in Vector /\ \E n \in 0 .. Norm2(r) : n * n = Norm2(r)
    BY DeploymentAssumption
  <2>2. CASE Norm2(r) = 0
    BY <2>1, <2>2 DEF l2_normalize
  <2>3. CASE Norm2(r) # 0
    <3> DEFINE N == Norm2(r)
               n == CHOOSE n \in 1 .. N : n * n = N
    <3>1. \E m \in 1 .. N : m * m = N
      BY <2>1, <2>3
    <3>2. n \in 1 .. N
      BY <3>1
    <3>3. N \in Nat
      BY <2>1, DotFacts
    <3>4. l2_normalize(r) = [i \in DOMAIN r |-> (r[i] * One) \div n]
      BY <2>3 DEF l2_normalize
    <3> HIDE DEF n, N
    <3>5. n \in Nat \ {0}
      BY <3>2, <3>3
    <3>6. Len(r) \in Nat /\ DOMAIN r = 1 .. Len(r) /\ r \in [1 .. Len(r) -> Int]
      BY <2>1, VectorFacts
    <3>7. ASSUME NEW i \in DOMAIN r PROVE (r[i] * One) \div n \in Int
      <4>1. r[i] * One \in Int
        BY <3>6, CosineAssumption
      <4>2. \A v \in Int, w \in Nat \ {0} : v \div w \in Int
        OBVIOUS
      <4> QED BY <3>5, <4>1, <4>2
    <3>8. [i \in DOMAIN r |-> (r[i] * One) \div n] \in [1 .. Len(r) -> Int]
      BY <3>6, <3>7
    <3> QED BY <3>4, <3>6, <3>8 DEF Vector
  <2> QED BY <2>2, <2>3
<1> QED BY <1>1, <1>2 DEF Embeddings

(* The embeddings of a capture are a sequence of vectors.                  *)
LEMMA CapturesAreSequences ==
  ASSUME NEW cfg, NEW op, cfg[op].max_frames \in Nat, NEW es \in Captures(cfg, op)
  PROVE  /\ es \in Seq(Vector)
         /\ \A i \in DOMAIN es : es[i] \in Embeddings(cfg)
<1>1. PICK n \in 0 .. cfg[op].max_frames : es \in [1 .. n -> Embeddings(cfg)]
  BY DEF Captures
<1>2. n \in Nat /\ es \in [1 .. n -> Vector]
  BY <1>1, EmbeddingsAreVectors
<1> QED BY <1>1, <1>2

(* A process works with limits that are numbers, whatever file it read,    *)
(* and every template is a vector that is not empty.                       *)
ConfigInv ==
  app # NoApp => \A op \in {"enroll", "verify"} : app[op].max_frames \in Nat
BundlesInv == bundles \in [Users -> Seq(Vector \ {<<>>})]

MachineInv ==
  /\ system \in Yamls \cup {NotYaml, NoFile} /\ ready \in SUBSET Needs
  /\ place \in {"down", "building", "serving", "given_up"}
  /\ app = NoApp <=> place \in {"down", "given_up"}
  /\ socket \in BOOLEAN /\ (place = "serving" => socket)

DeployInv == InstallInv /\ MachineInv /\ ConfigInv /\ BundlesInv

LEMMA AddOneStep ==
  ASSUME BundlesInv, ConfigInv, app # NoApp, NEW u \in Users, AddOne(u)
  PROVE  BundlesInv'
<1>1. PICK es \in Captures(app, "enroll") :
        /\ try_average(es) # NoTemplate
        /\ bundles' = [bundles EXCEPT ![u] = Append(@, try_average(es))]
  BY DEF AddOne
<1>2. es \in Seq(Vector)
  BY <1>1, CapturesAreSequences DEF ConfigInv
<1>3. try_average(es) \in Vector \ {<<>>}
  <2>1. try_average(es) \in Vector /\ Len(try_average(es)) # 0
    BY <1>1, <1>2, AverageVector
  <2> QED BY <2>1, VectorFacts
<1> DEFINE t == try_average(es)
           V == Vector \ {<<>>}
<1>4. Append(bundles[u], t) \in Seq(V)
  <2>1. bundles[u] \in Seq(V) /\ t \in V
    BY <1>3 DEF BundlesInv
  <2> HIDE DEF t, V
  <2> QED BY <2>1
<1>5. bundles' = [bundles EXCEPT ![u] = Append(bundles[u], t)]
  BY <1>1
<1> HIDE DEF t, V
<1> QED BY <1>4, <1>5 DEF BundlesInv, V

LEMMA DeployStep ==
  ASSUME DeployInv, [Next]_vars
  PROVE  DeployInv'
<1>1. InstallInv'
  BY InstallStep, DeployInstallStep DEF DeployInv
<1>2. MachineInv'
  <2> USE DEF DeployInv, MachineInv
  <2>1. CASE UNCHANGED vars
    BY <2>1 DEF vars, daemonVars
  <2>2. CASE GetModelsStep
    BY <2>2 DEF GetModelsStep, daemonVars
  <2>3. CASE EditConfig
    BY <2>3 DEF EditConfig
  <2>4. CASE MachineChanges
    BY <2>4 DEF MachineChanges
  <2>5. CASE LoadConfig
    <3>1. app' # NoApp
      BY <2>5, NoAppAssumption DEF LoadConfig
    <3> QED BY <2>5, <3>1 DEF LoadConfig
  <2>6. CASE Build
    BY <2>6 DEF Build
  <2>7. CASE StartFails
    BY <2>7 DEF StartFails
  <2>8. CASE Dies
    BY <2>8 DEF Dies
  <2>9. CASE Restart
    BY <2>9 DEF Restart
  <2>10. CASE \E u \in Users : Enroll(u) \/ AddTemplate(u)
    BY <2>10 DEF Enroll, AddTemplate, AddOne
  <2> QED BY <2>1, <2>2, <2>3, <2>4, <2>5, <2>6, <2>7, <2>8, <2>9, <2>10 DEF Next
<1>3. ConfigInv'
  <2>1. CASE LoadConfig
    <3>1. PICK y \in Yamls : app' = load_config(y)
      BY <2>1 DEF LoadConfig
    <3> QED BY <3>1, LimitsAreNumbers DEF ConfigInv
  <2>2. CASE app' = NoApp
    BY <2>2 DEF ConfigInv
  <2>3. CASE UNCHANGED app
    BY <2>3 DEF DeployInv, ConfigInv
  <2> QED BY <2>1, <2>2, <2>3 DEF Next, vars, daemonVars, GetModelsStep, EditConfig,
             MachineChanges, Build, StartFails, Dies, Restart, Enroll, AddTemplate, AddOne
<1>4. BundlesInv'
  <2>1. CASE UNCHANGED bundles
    BY <2>1 DEF DeployInv, BundlesInv
  <2>2. ASSUME NEW u \in Users, Enroll(u) \/ AddTemplate(u) PROVE BundlesInv'
    <3>1. AddOne(u) /\ app # NoApp
      BY <2>2 DEF Enroll, AddTemplate, DeployInv, MachineInv
    <3> QED BY <3>1, AddOneStep DEF DeployInv
  <2> QED BY <2>1, <2>2 DEF Next, vars, daemonVars, GetModelsStep, EditConfig, MachineChanges,
             LoadConfig, Build, StartFails, Dies, Restart
<1> QED BY <1>1, <1>2, <1>3, <1>4 DEF DeployInv

THEOREM DeployInvariant == Spec => []DeployInv
<1>1. Init => DeployInv
  <2> SUFFICES ASSUME Init PROVE DeployInv
    OBVIOUS
  <2>1. InstallInv
    BY InstallInitially DEF Init
  <2>2. MachineInv /\ ConfigInv
    BY DEF Init, MachineInv, ConfigInv
  <2>3. BundlesInv
    BY DEF Init, BundlesInv
  <2> QED BY <2>1, <2>2, <2>3 DEF DeployInv
<1>2. DeployInv /\ [Next]_vars => DeployInv'
  BY DeployStep
<1> QED BY <1>1, <1>2, PTL DEF Spec

(* A process has a configuration exactly while it lives, get-models works  *)
(* on a model that was missing, and whatever embedders were loaded, each   *)
(* template of each user is a vector that is not empty.                    *)
THEOREM DeployTypesCorrect == Spec => []DeployTypeOK
<1>1. DeployInv => DeployTypeOK
  <2> SUFFICES ASSUME DeployInv PROVE DeployTypeOK
    OBVIOUS
  <2>1. /\ file \in [Model -> {"absent", "partial", "whole"}]
        /\ at \in 0 .. Len(Models) + 1 /\ missing \subseteq Model
        /\ tool \in {"none", "curl", "wget"}
        /\ tool # "none" => at \in DOMAIN Models /\ Models[at] \in missing
    BY ModelFacts DEF DeployInv, InstallInv, InstallTypeInv, ProgressInv
  <2>2. \A u \in Users : \A i \in DOMAIN bundles[u] : bundles[u][i] \in Vector \ {<<>>}
    BY DEF DeployInv, BundlesInv
  <2> QED BY <2>1, <2>2 DEF DeployInv, MachineInv, DeployTypeOK
<1> QED BY <1>1, DeployInvariant, PTL

-----------------------------------------------------------------------------
(* Decisions.                                                              *)

(* The templates that vote for a probe.                                    *)
Votes(p, templates) == {i \in DOMAIN templates : <<p, templates[i]>> \in MatchingPairs}

LEMMA QuorumOfVotes ==
  ASSUME NEW p, NEW templates \in Seq(Vector)
  PROVE  /\ Decider!evaluate_probe_vs_templates(p, templates)
              <=> /\ p # NoTemplate /\ templates # <<>>
                  /\ 2 * Cardinality(Votes(p, templates)) >= Len(templates)
         /\ IsFiniteSet(DOMAIN templates)
<1>1. IsFiniteSet(DOMAIN templates)
  BY FS_Interval
<1>2. Votes(p, templates) \subseteq DOMAIN templates
  BY DEF Votes
<1>3. Cardinality(Votes(p, templates)) \in Nat
  BY <1>1, <1>2, FS_Subset, FS_CardinalityType
<1>4. Decider!PassCount(p, templates) = Cardinality(Votes(p, templates))
  BY DEF Decider!PassCount, Decider!Cardinality, Cardinality, Votes
<1>5. Decider!template_quorum_required(Len(templates)) = (Len(templates) + 1) \div 2
  BY DEF Decider!template_quorum_required
<1>6. \A n, v \in Nat : v >= (n + 1) \div 2 <=> 2 * v >= n
  OBVIOUS
<1>7. Len(templates) \in Nat
  OBVIOUS
<1> QED BY <1>1, <1>3, <1>4, <1>5, <1>6, <1>7 DEF Decider!evaluate_probe_vs_templates

(* However often the embedder was changed, an accept needs half of the     *)
(* templates to have the dimension of the loaded embedder's output.        *)
THEOREM AcceptedByThisModel == Spec => []AcceptFromThisModel
<1>1. ASSUME BundlesInv, NEW u \in Users, NEW probes \in Captures(app, "verify"),
             verify(u, probes)
      PROVE  \E p \in Embeddings(app) :
               2 * Cardinality({i \in DOMAIN bundles[u] : Len(bundles[u][i]) = Len(p)})
                 >= Len(bundles[u])
  <2>1. PICK i \in DOMAIN probes : Decider!evaluate_probe_vs_templates(probes[i], bundles[u])
    BY <1>1 DEF verify, Decider!verify_burst
  <2> DEFINE p == probes[i]
             templates == bundles[u]
             like == {j \in DOMAIN templates : Len(templates[j]) = Len(p)}
  <2>2. p \in Embeddings(app)
    BY <2>1, <1>1 DEF Captures
  <2>3. templates \in Seq(Vector)
    BY <1>1 DEF BundlesInv
  <2>4. 2 * Cardinality(Votes(p, templates)) >= Len(templates) /\ IsFiniteSet(DOMAIN templates)
    BY <2>1, <2>3, QuorumOfVotes
  <2>5. Votes(p, templates) \subseteq like /\ like \subseteq DOMAIN templates
    BY DEF Votes, MatchingPairs, matches, HasCosine
  <2> HIDE DEF like
  <2>6. /\ Cardinality(Votes(p, templates)) <= Cardinality(like)
        /\ Cardinality(Votes(p, templates)) \in Nat /\ Cardinality(like) \in Nat
    BY <2>4, <2>5, FS_Subset, FS_CardinalityType
  <2>7. 2 * Cardinality(like) >= Len(templates)
    <3>1. Len(templates) \in Nat
      BY <2>3
    <3> QED BY <2>4, <2>6, <3>1
  <2> QED BY <2>2, <2>7 DEF like
<1>2. DeployInv => AcceptFromThisModel
  BY <1>1 DEF AcceptFromThisModel, DeployInv
<1> QED BY <1>2, DeployInvariant, PTL

(* A face the embedder says something of is accepted if half of the        *)
(* templates show it, whatever the others are and whoever wrote them: the  *)
(* cosine of a vector with itself reaches every threshold up to 1.         *)
THEOREM FacesRecognised == Spec => []FaceRecognised
<1>1. ASSUME DeployInv, Serving, match_threshold <= 100, NEW u \in Users, NEW probes \in Captures(app, "verify"),
             NEW p \in Range(probes),
             {i \in DOMAIN bundles[u] : bundles[u][i] = p} # {}, Norm2(p) # 0,
             2 * Cardinality({i \in DOMAIN bundles[u] : bundles[u][i] = p}) >= Len(bundles[u])
      PROVE  verify(u, probes)
  <2> DEFINE templates == bundles[u]
             alike == {i \in DOMAIN templates : templates[i] = p}
  <2>1. PICK j \in DOMAIN probes : probes[j] = p
    BY DEF Range
  <2>2. p \in Vector
    <3>1. app["verify"].max_frames \in Nat
      BY <1>1 DEF DeployInv, ConfigInv, MachineInv, Serving
    <3>2. probes[j] \in Embeddings(app)
      BY <1>1, <2>1, <3>1, CapturesAreSequences
    <3> QED BY <2>1, <3>2, EmbeddingsAreVectors
  <2>3. p # NoTemplate
    BY <2>2, CosineAssumption DEF Vector
  <2>4. templates \in Seq(Vector)
    BY <1>1 DEF DeployInv, BundlesInv
  <2>5. IsFiniteSet(DOMAIN templates)
    BY <2>4, QuorumOfVotes
  <2>6. <<p, p>> \in MatchingPairs
    BY <1>1, <2>2, SelfMatch DEF MatchingPairs
  <2>7. alike \subseteq Votes(p, templates) /\ Votes(p, templates) \subseteq DOMAIN templates
    BY <2>6 DEF Votes
  <2>8. templates # <<>> /\ alike # {} /\ 2 * Cardinality(alike) >= Len(templates)
    BY <1>1
  <2> HIDE DEF alike
  <2>9. IsFiniteSet(Votes(p, templates))
    BY <2>5, <2>7, FS_Subset
  <2>10. /\ Cardinality(alike) <= Cardinality(Votes(p, templates))
         /\ Cardinality(alike) \in Nat /\ Cardinality(Votes(p, templates)) \in Nat
    BY <2>7, <2>9, FS_Subset, FS_CardinalityType
  <2>11. 2 * Cardinality(Votes(p, templates)) >= Len(templates)
    <3>1. Len(templates) \in Nat
      BY <2>4
    <3> QED BY <2>8, <2>10, <3>1
  <2>12. Decider!evaluate_probe_vs_templates(p, templates)
    BY <2>3, <2>4, <2>8, <2>11, QuorumOfVotes
  <2> QED BY <2>1, <2>8, <2>12 DEF verify, Decider!verify_burst
<1>2. DeployInv => FaceRecognised
  BY <1>1 DEF FaceRecognised
<1> QED BY <1>2, DeployInvariant, PTL

(* A template more keeps every vote, and adds one if the probe matches it. *)
LEMMA VotesOfAppended ==
  ASSUME NEW p, NEW templates \in Seq(Vector), NEW t \in Vector
  PROVE  LET votes == Cardinality(Votes(p, templates))
             after == Cardinality(Votes(p, Append(templates, t)))
         IN  /\ votes \in Nat /\ after \in Nat /\ votes <= after
             /\ <<p, t>> \in MatchingPairs => after = votes + 1
<1> DEFINE n == Len(templates)
           more == Append(templates, t)
           old == Votes(p, templates)
           new == Votes(p, more)
<1>1. /\ n \in Nat /\ more \in Seq(Vector) /\ Len(more) = n + 1
      /\ DOMAIN templates = 1 .. n /\ DOMAIN more = 1 .. n + 1
      /\ \A i \in 1 .. n : more[i] = templates[i]
      /\ more[n + 1] = t
  OBVIOUS
<1> HIDE DEF n, more
<1>2. /\ old \subseteq DOMAIN templates /\ new \subseteq DOMAIN more
      /\ old \subseteq new /\ n + 1 \notin old
      /\ <<p, t>> \in MatchingPairs => new = old \cup {n + 1}
  <2>1. /\ old = {i \in 1 .. n : <<p, templates[i]>> \in MatchingPairs}
        /\ new = {i \in 1 .. n + 1 : <<p, more[i]>> \in MatchingPairs}
    BY <1>1 DEF Votes
  <2>2. /\ 1 .. n \subseteq 1 .. n + 1 /\ n + 1 \notin 1 .. n /\ n + 1 \in 1 .. n + 1
        /\ \A i \in 1 .. n + 1 : i \in 1 .. n \/ i = n + 1
    BY <1>1
  <2> HIDE DEF old, new
  <2> DEFINE below == 1 .. n
             upto == 1 .. n + 1
  <2>3. /\ old = {i \in below : <<p, templates[i]>> \in MatchingPairs}
        /\ new = {i \in upto : <<p, more[i]>> \in MatchingPairs}
        /\ below \subseteq upto /\ n + 1 \notin below /\ n + 1 \in upto
        /\ \A i \in upto : i \in below \/ i = n + 1
        /\ \A i \in below : more[i] = templates[i]
        /\ more[n + 1] = t
        /\ below = DOMAIN templates /\ upto = DOMAIN more
    BY <1>1, <2>1, <2>2
  <2> HIDE DEF below, upto
  <2> QED BY <2>3
<1>3. IsFiniteSet(DOMAIN templates) /\ IsFiniteSet(DOMAIN more)
  BY <1>1, QuorumOfVotes
<1> HIDE DEF old, new
<1>4. IsFiniteSet(old) /\ IsFiniteSet(new)
  BY <1>2, <1>3, FS_Subset
<1>5. /\ Cardinality(old) \in Nat /\ Cardinality(new) \in Nat
      /\ Cardinality(old) <= Cardinality(new)
  BY <1>2, <1>4, FS_Subset, FS_CardinalityType
<1>6. Cardinality(old \cup {n + 1}) = Cardinality(old) + 1
  BY <1>2, <1>4, FS_AddElement
<1> QED BY <1>2, <1>5, <1>6 DEF old, new, more

(* Whatever embedders a user's templates come from, one more template      *)
(* keeps an accepted face accepted if it shows the face or if the number   *)
(* of templates was odd, as the quorum then stays what it was.             *)
THEOREM AcceptsKept == Spec => AddKeepsAccepted
<1>1. ASSUME DeployInv, DeployInv', NEW u \in Users, Enroll(u) \/ AddTemplate(u),
             bundles[u] # <<>>, NEW p \in Embeddings(app),
             Decider!evaluate_probe_vs_templates(p, bundles[u]),
             Len(bundles[u]) % 2 = 1 \/ matches(p, bundles'[u][Len(bundles'[u])])
      PROVE  Decider!evaluate_probe_vs_templates(p, bundles'[u])
  <2> DEFINE templates == bundles[u]
             n == Len(templates)
  <2>1. bundles \in [Users -> Seq(Vector \ {<<>>})] /\ bundles' \in [Users -> Seq(Vector \ {<<>>})]
    BY <1>1 DEF DeployInv, BundlesInv
  <2>2. templates \in Seq(Vector) /\ bundles'[u] \in Seq(Vector) /\ n \in Nat
    BY <2>1
  <2>3. PICK t : bundles' = [bundles EXCEPT ![u] = Append(@, t)]
    BY <1>1 DEF Enroll, AddTemplate, AddOne
  <2>4. bundles'[u] = Append(templates, t)
    BY <2>1, <2>3
  <2> HIDE DEF templates
  <2>5. Len(bundles'[u]) = n + 1 /\ bundles'[u][n + 1] = t
    BY <2>2, <2>4
  <2>6. t \in Vector
    BY <2>2, <2>5
  <2>7. p \in Vector
    BY EmbeddingsAreVectors
  <2> DEFINE votes == Cardinality(Votes(p, templates))
             after == Cardinality(Votes(p, Append(templates, t)))
  <2>8. /\ votes \in Nat /\ after \in Nat /\ votes <= after
        /\ <<p, t>> \in MatchingPairs => after = votes + 1
    BY <2>2, <2>6, VotesOfAppended
  <2>9. p # NoTemplate /\ 2 * votes >= n
    BY <1>1, <2>2, QuorumOfVotes DEF templates
  <2>10. n % 2 = 1 \/ <<p, t>> \in MatchingPairs
    BY <1>1, <2>5, <2>6, <2>7 DEF MatchingPairs, templates
  <2> HIDE DEF votes, after, n
  <2>11. n \in Nat
    BY <2>2
  <2>12. 2 * after >= n + 1
    <3>1. CASE n % 2 = 1
      <4>1. \A i, v \in Nat : i % 2 = 1 /\ 2 * v >= i => 2 * v >= i + 1
        OBVIOUS
      <4>2. 2 * votes >= n + 1
        BY <2>8, <2>9, <2>11, <3>1, <4>1
      <4> QED BY <2>8, <2>11, <4>2
    <3>2. CASE <<p, t>> \in MatchingPairs
      BY <2>8, <2>9, <2>11, <3>2
    <3> QED BY <2>10, <3>1, <3>2
  <2>13. bundles'[u] # <<>>
    BY <2>5, <2>11
  <2> QED BY <2>2, <2>4, <2>5, <2>9, <2>12, <2>13, QuorumOfVotes DEF after
<1> DEFINE Kept(u) ==
      bundles[u] # <<>> /\ bundles'[u] # bundles[u] =>
        \A p \in Embeddings(app) :
          /\ Decider!evaluate_probe_vs_templates(p, bundles[u])
          /\ Len(bundles[u]) % 2 = 1 \/ matches(p, bundles'[u][Len(bundles'[u])])
          => Decider!evaluate_probe_vs_templates(p, bundles'[u])
<1>2. ASSUME DeployInv, DeployInv', [Next]_vars, NEW u \in Users
      PROVE  Kept(u)
  <2> SUFFICES ASSUME bundles[u] # <<>>, bundles'[u] # bundles[u] PROVE Kept(u)
    OBVIOUS
  <2>1. Enroll(u) \/ AddTemplate(u)
    <3>1. PICK w \in Users : Enroll(w) \/ AddTemplate(w)
      BY <1>2 DEF Next, vars, daemonVars, GetModelsStep, EditConfig, MachineChanges,
         LoadConfig, Build, StartFails, Dies, Restart
    <3>2. w = u
      BY <3>1, <1>2 DEF Enroll, AddTemplate, AddOne, DeployInv, BundlesInv
    <3> QED BY <3>1, <3>2
  <2> QED BY <1>1, <1>2, <2>1
<1>3. DeployInv /\ DeployInv' /\ [Next]_vars => [\A u \in Users : Kept(u)]_vars
  BY <1>2
<1>4. [\A u \in Users : Kept(u)]_vars =>
      [\A u \in Users : bundles[u] # <<>> /\ bundles'[u] # bundles[u] =>
       \A p \in Embeddings(app) :
         LET accepted(templates) == Decider!evaluate_probe_vs_templates(p, templates)
             added == bundles'[u][Len(bundles'[u])]
         IN  /\ accepted(bundles[u])
             /\ Len(bundles[u]) % 2 = 1 \/ matches(p, added)
             => accepted(bundles'[u])]_vars
  OBVIOUS
<1> QED BY <1>3, <1>4, DeployInvariant, PTL DEF Spec, AddKeepsAccepted

(* template is the mean of a capture in which probe matches every frame,   *)
(* and the division that made it came out even.                            *)
MeanOfMatching(probe, template) ==
  \E es \in Seq(Vector) :
     /\ try_average(es) # NoTemplate /\ template = try_average(es)
     /\ \A j \in DOMAIN es : matches(probe, es[j])
     /\ \A i \in DOMAIN es[1] :
          Len(es) * template[i] = Total([j \in DOMAIN es |-> es[j][i]])

(* Averaging a capture loses no match: a face that matches every frame     *)
(* half of the templates were averaged from is accepted against them,      *)
(* whatever the other templates are.                                       *)
THEOREM CapturesRecognised ==
  ASSUME NEW p \in Vector, NEW templates \in Seq(Vector), match_threshold > 0,
         templates # <<>>,
         2 * Cardinality({i \in DOMAIN templates : MeanOfMatching(p, templates[i])})
           >= Len(templates)
  PROVE  Decider!evaluate_probe_vs_templates(p, templates)
<1> DEFINE shown == {i \in DOMAIN templates : MeanOfMatching(p, templates[i])}
<1>1. ASSUME NEW i \in shown
      PROVE  <<p, templates[i]>> \in MatchingPairs
  <2>1. PICK es \in Seq(Vector) :
          /\ try_average(es) # NoTemplate /\ templates[i] = try_average(es)
          /\ \A j \in DOMAIN es : matches(p, es[j])
          /\ \A k \in DOMAIN es[1] :
               Len(es) * templates[i][k] = Total([j \in DOMAIN es |-> es[j][k]])
    BY DEF MeanOfMatching
  <2>2. matches(p, try_average(es))
    BY <2>1, AverageKeepsMatches
  <2>3. templates[i] \in Vector
    OBVIOUS
  <2> QED BY <2>1, <2>2, <2>3 DEF MatchingPairs
<1>2. IsFiniteSet(DOMAIN templates)
  BY QuorumOfVotes
<1>3. shown \subseteq Votes(p, templates) /\ Votes(p, templates) \subseteq DOMAIN templates
  BY <1>1 DEF Votes
<1>4. 2 * Cardinality(shown) >= Len(templates) /\ Len(templates) \in Nat
  OBVIOUS
<1> HIDE DEF shown
<1>5. IsFiniteSet(Votes(p, templates))
  BY <1>2, <1>3, FS_Subset
<1>6. /\ Cardinality(shown) <= Cardinality(Votes(p, templates))
      /\ Cardinality(shown) \in Nat /\ Cardinality(Votes(p, templates)) \in Nat
  BY <1>3, <1>5, FS_Subset, FS_CardinalityType
<1>7. 2 * Cardinality(Votes(p, templates)) >= Len(templates)
  BY <1>4, <1>6
<1>8. p # NoTemplate
  BY CosineAssumption DEF Vector
<1> QED BY <1>7, <1>8, QuorumOfVotes

===============================================================================
