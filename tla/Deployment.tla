------------------------------ MODULE Deployment ------------------------------
(***************************************************************************)
(* One machine over time: the models get-models installs, the config file  *)
(* the administrator edits, the daemon that systemd starts on what it      *)
(* finds of both, and the templates it stores with the embedder it loaded, *)
(* which a later daemon with another embedder has to live with.            *)
(*                                                                         *)
(* A config file is the function from the keys it sets to their values; an *)
(* operation is the step of FaceAuth, here with vectors and cosines.       *)
(***************************************************************************)
EXTENDS ModelInstall, CosineMatcher, FiniteSets

CONSTANTS
  Yamls,            (* the valid files the administrator may write         *)
  NotYaml,          (* a file load_config rejects                          *)
  NoFile,
  Bundled,          (* what the candidates after SYSTEM_CONFIG hold        *)
  StreamingPolicy,  (* its Default: limits for enroll and verify           *)
  NoApp,
  Users,
  Raws,             (* what the embedding model may say of a frame         *)
  MaxTemplates      (* model bound: templates of a user                    *)

(* #[serde(default)]: what a section leaves out is taken from a default.   *)
Completed(given, default) ==
  [k \in DOMAIN given \cup DOMAIN default |->
     IF k \in DOMAIN given THEN given[k] ELSE default[k]]

Defaults ==
  Completed([enable_rgb |-> TRUE, enable_ir |-> FALSE, mock |-> FALSE,
             mock_embedder |-> FALSE, mock_detector |-> FALSE],
            StreamingPolicy)

Limits == {"warmup_discard", "max_frames"}

Needs == {"camera", "templates"}

ASSUME DeploymentAssumption ==
  /\ DOMAIN StreamingPolicy = {"enroll", "verify"}
  /\ \A op \in DOMAIN StreamingPolicy : StreamingPolicy[op] \in [Limits -> Nat]
  /\ \A y \in Yamls :
       /\ DOMAIN y \subseteq DOMAIN Defaults
       /\ \A op \in DOMAIN y \cap {"enroll", "verify"} :
            /\ DOMAIN y[op] \subseteq Limits
            /\ \A limit \in DOMAIN y[op] : y[op][limit] \in Nat
  /\ {NotYaml, NoFile} \cap Yamls = {}
  /\ Bundled \in Yamls \cup {NotYaml, NoFile}
  /\ \A r \in Raws : r \in Vector /\ \E n \in 0 .. Norm2(r) : n * n = Norm2(r)

VARIABLES
  system,     (* what SYSTEM_CONFIG holds                                  *)
  ready,      (* of "camera" (the configured device is there and can       *)
              (* capture) and "templates" (paths.templates is a directory  *)
              (* or can be made one) what is so                            *)
  place,      (* down, building, serving or given_up                       *)
  socket,     (* whether a file is at SOCKET_PATH                          *)
  app,        (* the Config the process read, or NoApp                     *)
  bundles     (* bundles[u]: the templates of u                            *)

daemonVars == <<system, ready, place, socket, app, bundles>>
vars == <<installVars, daemonVars>>

-----------------------------------------------------------------------------
(* Configuration.                                                          *)

(* The first candidate that exists, whatever it holds.                     *)
resolve_config_path == IF system # NoFile THEN system ELSE Bundled

(* What serde fills in: a section that is there takes what it omits from   *)
(* the default of StreamLimitsYaml, the policy's limits for verify.        *)
load_config_derived(y) ==
  [k \in DOMAIN Defaults |->
     CASE k \in DOMAIN StreamingPolicy ->
            Completed(IF k \in DOMAIN y THEN y[k] ELSE <<>>, StreamingPolicy.verify)
       [] k \notin DOMAIN StreamingPolicy -> Completed(y, Defaults)[k]]
load_config(y) ==
  [k \in DOMAIN Defaults |->
     IF k \in DOMAIN y \cap DOMAIN StreamingPolicy
     THEN Completed(y[k], StreamingPolicy.verify)
     ELSE Completed(y, Defaults)[k]]

ASSUME NoAppAssumption == \A y \in Yamls : load_config(y) # NoApp

(* from_file: a file that is not the whole model does not parse.           *)
Loads(m) == file[m] = "whole"

(* A mock needs neither device nor file; a model must be there and load.   *)
(* FileTemplateStore::open makes its directory, mock or not.               *)
CanBuild(cfg) ==
  /\ cfg.enable_rgb # cfg.enable_ir
  /\ cfg.mock \/ "camera" \in ready
  /\ cfg.mock_embedder \/ Loads("face_embedding")
  /\ "templates" \in ready
  /\ cfg.mock_detector \/ Loads("face_detector")

-----------------------------------------------------------------------------
Init ==
  /\ InstallInit
  /\ system \in Yamls \cup {NotYaml, NoFile}
  /\ ready \in SUBSET Needs
  /\ place = "down" /\ app = NoApp /\ socket \in BOOLEAN
  /\ bundles = [u \in Users |-> <<>>]

GetModelsStep == InstallNext /\ UNCHANGED daemonVars

EditConfig ==
  /\ system' \in Yamls \cup {NotYaml, NoFile}
  /\ UNCHANGED <<ready, place, socket, app, bundles, installVars>>

(* The camera is plugged in or taken by another program, the disk of the   *)
(* templates is mounted or read-only.                                      *)
MachineChanges ==
  /\ \E need \in Needs :
       ready' = IF need \in ready THEN ready \ {need} ELSE ready \cup {need}
  /\ UNCHANGED <<system, place, socket, app, bundles, installVars>>

(* Faulty variant: the file a dead daemon left is not removed.             *)
LoadConfig_keeps_socket ==
  /\ place = "down"
  /\ resolve_config_path \in Yamls
  /\ app' = load_config(resolve_config_path)
  /\ place' = "building"
  /\ UNCHANGED <<system, ready, socket, bundles, installVars>>

(* main: the config is read once, and the process keeps what it said; the  *)
(* socket file goes before the build.                                      *)
LoadConfig ==
  /\ place = "down"
  /\ resolve_config_path \in Yamls
  /\ app' = load_config(resolve_config_path)
  /\ place' = "building" /\ socket' = FALSE
  /\ UNCHANGED <<system, ready, bundles, installVars>>

(* bind fails on a file that is there.                                     *)
Build ==
  /\ place = "building"
  /\ CanBuild(app) /\ ~socket
  /\ place' = "serving" /\ socket' = TRUE
  /\ UNCHANGED <<system, ready, app, bundles, installVars>>

(* main returns Err.  systemd starts it again, unless it failed too often. *)
StartFails ==
  /\ \/ place = "down" /\ resolve_config_path \notin Yamls
     \/ place = "building" /\ (~CanBuild(app) \/ socket)
  /\ place' \in {"down", "given_up"}
  /\ app' = NoApp
  /\ UNCHANGED <<system, ready, socket, bundles, installVars>>

(* The process ends; systemd removes its RuntimeDirectory, a daemon that   *)
(* was started by hand leaves the file.                                    *)
Dies ==
  /\ place = "serving"
  /\ place' = "down" /\ app' = NoApp
  /\ socket' \in BOOLEAN
  /\ UNCHANGED <<system, ready, bundles, installVars>>

(* systemctl restart, as the README asks for after an edit.                *)
Restart ==
  /\ place = "given_up"
  /\ place' = "down"
  /\ UNCHANGED <<system, ready, socket, app, bundles, installVars>>

-----------------------------------------------------------------------------
(* Operations.                                                             *)

MockEmbedding == <<One, 0, 0>>

Embeddings(cfg) ==
  IF cfg.mock_embedder THEN {MockEmbedding} ELSE {l2_normalize(r) : r \in Raws}

(* The embeddings of a capture: frames without a face give none.           *)
Captures(cfg, op) ==
  UNION {[1 .. n -> Embeddings(cfg)] : n \in 0 .. cfg[op].max_frames}

AddOne(u) ==
  /\ \E es \in Captures(app, "enroll") :
       /\ try_average(es) # NoTemplate
       /\ bundles' = [bundles EXCEPT ![u] = Append(@, try_average(es))]
  /\ UNCHANGED <<system, ready, place, socket, app, installVars>>

Enroll(u) == place = "serving" /\ bundles[u] = <<>> /\ AddOne(u)

AddTemplate(u) ==
  /\ place = "serving" /\ bundles[u] # <<>>
  /\ Len(bundles[u]) < MaxTemplates
  /\ AddOne(u)

(* The answer of a verify whose frames gave the probes.                    *)
verify(u, probes) == Decider!verify_burst(bundles[u], probes)

Next ==
  \/ GetModelsStep \/ EditConfig \/ MachineChanges
  \/ LoadConfig \/ Build \/ StartFails \/ Dies \/ Restart
  \/ \E u \in Users : Enroll(u) \/ AddTemplate(u)

Spec == Init /\ [][Next]_vars

(* Restart=always starts the daemon whenever it is down, and building it   *)
(* ends.  Nobody has to edit, install, restart or use anything.            *)
FairSpec == Spec /\ WF_vars(LoadConfig) /\ WF_vars(Build \/ StartFails)

-----------------------------------------------------------------------------
(* The files of a download are consistent with its position, a process has *)
(* a configuration exactly while it lives, and templates are vectors.      *)
DeployTypeOK ==
  /\ file \in [Model -> {"absent", "partial", "whole"}]
  /\ at \in 0 .. Len(Models) + 1 /\ missing \subseteq Model
  /\ tool \in {"none", "curl", "wget"}
  /\ tool # "none" => at \in DOMAIN Models /\ Models[at] \in missing
  /\ system \in Yamls \cup {NotYaml, NoFile} /\ ready \in SUBSET Needs
  /\ place \in {"down", "building", "serving", "given_up"}
  /\ app = NoApp <=> place \in {"down", "given_up"}
  /\ socket \in BOOLEAN /\ (place = "serving" => socket)
  /\ \A u \in Users : \A i \in DOMAIN bundles[u] :
       bundles[u][i] \in Vector \ {<<>>}

(* A limit the file sets is the one the daemon works with, also if the     *)
(* other limit of its section is left out, and an operation whose section  *)
(* is left out gets its own limits of the policy.                          *)
LimitsAsConfigured ==
  [][LoadConfig =>
       \A op \in DOMAIN StreamingPolicy, limit \in Limits :
         LET y == resolve_config_path
         IN  IF op \notin DOMAIN y THEN app'[op][limit] = StreamingPolicy[op][limit]
             ELSE limit \in DOMAIN y[op] => app'[op][limit] = y[op][limit]]_vars

(* Once the config file stays, allows a build and systemd has not given up *)
(* on the daemon, it serves again and again, whatever happened before: no  *)
(* crash, earlier configuration or file left at SOCKET_PATH stands in its  *)
(* way.                                                                    *)
EventuallyServes ==
  \A y \in Yamls :
    <>[](/\ resolve_config_path = y
         /\ CanBuild(load_config(y))
         /\ place # "given_up")
      => []<>(place = "serving")

Serving == place = "serving"

(* Whoever is accepted has at least half of his templates from an embedder *)
(* of the loaded one's dimension: templates of another model never vote.   *)
AcceptFromThisModel ==
  Serving =>
    \A u \in Users : \A probes \in Captures(app, "verify") :
      verify(u, probes) =>
        \E p \in Embeddings(app) :
          2 * Cardinality({i \in DOMAIN bundles[u] : Len(bundles[u][i]) = Len(p)})
            >= Len(bundles[u])

(* A face is accepted if half of the user's templates show that face only, *)
(* whatever the others show and whichever models they come from; unless    *)
(* the model says nothing of it, or the threshold is above 1, which the    *)
(* configuration does not exclude.                                         *)
FaceRecognised ==
  Serving /\ match_threshold <= 100 =>
    \A u \in Users : \A probes \in Captures(app, "verify") :
      \A p \in Range(probes) :
        LET alike == {i \in DOMAIN bundles[u] : bundles[u][i] = p}
        IN  alike # {} /\ Norm2(p) # 0 /\ 2 * Cardinality(alike) >= Len(bundles[u])
              => verify(u, probes)

(* One more template locks a face out only if the user had an even number  *)
(* and the new one does not show it: the quorum grows with every second    *)
(* template, so that add-template may cost a face exactly one of the votes *)
(* it needs, and never a face the new template shows.                      *)
AddKeepsAccepted ==
  [][\A u \in Users : bundles[u] # <<>> /\ bundles'[u] # bundles[u] =>
       \A p \in Embeddings(app) :
         LET accepted(templates) == Decider!evaluate_probe_vs_templates(p, templates)
             added == bundles'[u][Len(bundles'[u])]
         IN  /\ accepted(bundles[u])
             /\ Len(bundles[u]) % 2 = 1 \/ matches(p, added)
             => accepted(bundles'[u])]_vars

===============================================================================
