------------------------------ MODULE TrueIdApp ------------------------------
(***************************************************************************)
(* The application core of the daemon (trueid-core/src/application/app.rs) *)
(* with the ports it drives: the template store, the one camera and the    *)
(* face pipeline.                                                          *)
(*                                                                         *)
(* A daemon process answers one request at a time (the accept loop of      *)
(* inbound/ipc.rs is its only thread), but an operation is many steps:     *)
(* health, load, open the camera, one step per frame, average, save,       *)
(* reply.  Other daemon processes and crashes interleave between them.     *)
(*                                                                         *)
(* The template store is atomic here: load_all and save_all are one step   *)
(* each.  A session is what V4lVideoSource hands out: the `busy' flag of   *)
(* the process and the kernel's streaming ownership of the device.         *)
(***************************************************************************)
EXTENDS VerificationDecision

CONSTANTS
  Daemons,      (* daemon processes that share the template directory      *)
  Users,        (* UserId                                                  *)
  Streaming,    (* StreamingPolicy: limits for "enroll" and "verify"       *)
  MaxTemplates, (* model bound: no add_template call beyond this length    *)
  Nobody        (* the camera is not streaming                             *)

ASSUME StreamingAssumption ==
  Streaming \in [{"enroll", "verify"} -> [warmup_discard : Nat, max_frames : Nat]]

ASSUME NobodyAssumption == Nobody \notin Daemons

VARIABLES
  store,     (* store[u]: the templates on disk, <<>> for none (load_all   *)
             (* answers None for an empty bundle)                          *)
  camera,    (* the process whose stream the kernel has on, or Nobody      *)
  busy,      (* busy[d]: V4lVideoSource::busy                              *)
  pc,        (* where process d is                                         *)
  req,       (* the request process d works on                             *)
  bundle,    (* the TemplateBundle the operation loaded or built           *)
  probes,    (* `probes' of verify, `embeddings' of collect_embeddings     *)
  pulled,    (* frames taken from the session, warmup included             *)
  response   (* the Response dispatch built                                *)

task == <<req, bundle, probes, pulled, response>>
vars == <<store, camera, busy, pc, req, bundle, probes, pulled, response>>

-------------------------------------------------------------------------------

Ops == {"ping", "verify", "enroll", "add_template"}
Request == [op : Ops, user : Users]
Response == {"pong", "accepted", "rejected", "enroll_ok", "add_template_ok", "error"}
Place == {"down", "starting", "idle", "health", "load", "open", "stream", "save", "reply"}

limits(d) == Streaming[IF req[d].op = "verify" THEN "verify" ELSE "enroll"]
(* Faulty variant: the warmup counts as frames of the burst.               *)
FramesToPull_no_warmup(d) == limits(d).max_frames

FramesToPull(d) == limits(d).warmup_discard + limits(d).max_frames

Goto(d, place) == pc' = [pc EXCEPT ![d] = place]

Answer(d, r) ==
  /\ Goto(d, "reply")
  /\ response' = [response EXCEPT ![d] = r]

(* The local variables of an operation before it runs.                     *)
Fresh(d) ==
  /\ bundle' = [bundle EXCEPT ![d] = <<>>]
  /\ probes' = [probes EXCEPT ![d] = <<>>]
  /\ pulled' = [pulled EXCEPT ![d] = 0]

(* Drop of the VideoSession: stop the stream, clear the busy flag.         *)
DropSession(d) ==
  /\ camera' = Nobody
  /\ busy' = [busy EXCEPT ![d] = FALSE]

Init ==
  /\ store = [u \in Users |-> <<>>]
  /\ camera = Nobody
  /\ busy = [d \in Daemons |-> FALSE]
  /\ pc = [d \in Daemons |-> "down"]
  /\ req \in [Daemons -> [op : {"ping"}, user : Users]]
  /\ bundle = [d \in Daemons |-> <<>>]
  /\ probes = [d \in Daemons |-> <<>>]
  /\ pulled = [d \in Daemons |-> 0]
  /\ response = [d \in Daemons |-> "error"]

-------------------------------------------------------------------------------
(* Life of a daemon process                                                *)

Start(d) ==
  /\ pc[d] = "down"
  /\ Goto(d, "starting")
  /\ UNCHANGED <<store, camera, busy, task>>

(* composition::build opens the camera once, to fail early, and closes it. *)
(* The configured camera is a V4L device: the mock needs none.             *)
BuildOk(d) ==
  /\ pc[d] = "starting"
  /\ camera = Nobody
  /\ Goto(d, "idle")
  /\ busy' = [busy EXCEPT ![d] = FALSE]
  /\ UNCHANGED <<store, camera, task>>

(* A bad config, camera, model or template directory: main returns Err.    *)
BuildFails(d) ==
  /\ pc[d] = "starting"
  /\ Goto(d, "down")
  /\ UNCHANGED <<store, camera, busy, task>>

(* The process dies; the kernel closes the device with it.                 *)
Crash(d) ==
  /\ pc[d] # "down"
  /\ Goto(d, "down")
  /\ camera' = IF camera = d THEN Nobody ELSE camera
  /\ busy' = [busy EXCEPT ![d] = FALSE]
  /\ Fresh(d)
  /\ UNCHANGED <<store, req, response>>

-------------------------------------------------------------------------------
(* Operations                                                              *)

(* Faulty variant: the buffers of the last operation are still there.      *)
Call_keeps_burst(d, op, u) ==
  /\ pc[d] = "idle"
  /\ op = "add_template" => Len(store[u]) < MaxTemplates
  /\ Goto(d, "health")
  /\ req' = [req EXCEPT ![d] = [op |-> op, user |-> u]]
  /\ UNCHANGED <<store, camera, busy, bundle, probes, pulled, response>>

(* dispatch receives a request.                                            *)
Call(d, op, u) ==
  /\ pc[d] = "idle"
  /\ op = "add_template" => Len(store[u]) < MaxTemplates
  /\ Goto(d, "health")
  /\ req' = [req EXCEPT ![d] = [op |-> op, user |-> u]]
  /\ Fresh(d)
  /\ UNCHANGED <<store, camera, busy, response>>

RequireHealthy(d) ==
  /\ pc[d] = "health"
  /\ IF req[d].op = "ping"
     THEN Answer(d, "pong")
     ELSE Goto(d, "load") /\ UNCHANGED response
  /\ UNCHANGED <<store, camera, busy, req, bundle, probes, pulled>>

Unhealthy(d) ==
  /\ pc[d] = "health"
  /\ Answer(d, "error")
  /\ UNCHANGED <<store, camera, busy, req, bundle, probes, pulled>>

(* verify, add_template: the bundle is read here and used until the end.   *)
LoadEnrolled(d) ==
  /\ pc[d] = "load"
  /\ req[d].op \in {"verify", "add_template"}
  /\ store[req[d].user] # <<>>
  /\ bundle' = [bundle EXCEPT ![d] = store[req[d].user]]
  /\ Goto(d, "open")
  /\ UNCHANGED <<store, camera, busy, req, probes, pulled, response>>

NoEnrolledTemplate(d) ==
  /\ pc[d] = "load"
  /\ req[d].op \in {"verify", "add_template"}
  /\ store[req[d].user] = <<>>
  /\ Answer(d, "error")
  /\ UNCHANGED <<store, camera, busy, req, bundle, probes, pulled>>

(* Faulty variant: enroll does not look for templates.                     *)
CheckVacant_unchecked(d) ==
  /\ pc[d] = "load"
  /\ req[d].op = "enroll"
  /\ Goto(d, "open")
  /\ UNCHANGED <<store, camera, busy, task>>

(* enroll: the check that the user has no templates yet.                   *)
CheckVacant(d) ==
  /\ pc[d] = "load"
  /\ req[d].op = "enroll"
  /\ store[req[d].user] = <<>>
  /\ Goto(d, "open")
  /\ UNCHANGED <<store, camera, busy, task>>

AlreadyEnrolled(d) ==
  /\ pc[d] = "load"
  /\ req[d].op = "enroll"
  /\ store[req[d].user] # <<>>
  /\ Answer(d, "error")
  /\ UNCHANGED <<store, camera, busy, req, bundle, probes, pulled>>

LoadFails(d) ==
  /\ pc[d] = "load"
  /\ Answer(d, "error")
  /\ UNCHANGED <<store, camera, busy, req, bundle, probes, pulled>>

OpenCapture(d) ==
  /\ pc[d] = "open"
  /\ limits(d).max_frames # 0
  /\ ~busy[d]
  /\ camera = Nobody
  /\ busy' = [busy EXCEPT ![d] = TRUE]
  /\ camera' = d
  /\ Goto(d, "stream")
  /\ UNCHANGED <<store, task>>

(* Faulty variant: a device in use is waited for.                          *)
OpenFails_waits(d) ==
  /\ pc[d] = "open"
  /\ camera = Nobody
  /\ Answer(d, "error")
  /\ UNCHANGED <<store, camera, busy, req, bundle, probes, pulled>>

(* StreamLimits::validate or the busy check fails before the flag is set;  *)
(* a device error after it resets it (mark_idle).                          *)
OpenFails(d) ==
  /\ pc[d] = "open"
  /\ Answer(d, "error")
  /\ UNCHANGED <<store, camera, busy, req, bundle, probes, pulled>>

DiscardFrame(d) ==
  /\ pc[d] = "stream"
  /\ pulled[d] < limits(d).warmup_discard
  /\ pulled' = [pulled EXCEPT ![d] = @ + 1]
  /\ UNCHANGED <<store, camera, busy, pc, req, bundle, probes, response>>

(* verify: every frame is a probe, and the whole burst so far is judged    *)
(* again; an accept returns at once and drops the session.                 *)
PullProbe(d, p) ==
  /\ pc[d] = "stream"
  /\ req[d].op = "verify"
  /\ limits(d).warmup_discard <= pulled[d]
  /\ pulled[d] < FramesToPull(d)
  /\ pulled' = [pulled EXCEPT ![d] = @ + 1]
  /\ probes' = [probes EXCEPT ![d] = Append(@, p)]
  /\ IF verify_burst(bundle[d], probes'[d])
     THEN Answer(d, "accepted") /\ DropSession(d)
     ELSE UNCHANGED <<pc, response, camera, busy>>
  /\ UNCHANGED <<store, req, bundle>>

(* Faulty variant: frames without a face leave an empty slot.              *)
CollectEmbedding_keeps_empty(d, p) ==
  /\ pc[d] = "stream"
  /\ req[d].op # "verify"
  /\ limits(d).warmup_discard <= pulled[d]
  /\ pulled[d] < FramesToPull(d)
  /\ pulled' = [pulled EXCEPT ![d] = @ + 1]
  /\ probes' = [probes EXCEPT ![d] = Append(@, p)]
  /\ UNCHANGED <<store, camera, busy, pc, req, bundle, response>>

(* Faulty variant: a frame without a face starts the capture over.         *)
CollectEmbedding_restarts(d, p) ==
  /\ pc[d] = "stream"
  /\ req[d].op # "verify"
  /\ limits(d).warmup_discard <= pulled[d]
  /\ pulled[d] < FramesToPull(d)
  /\ pulled' = [pulled EXCEPT ![d] = IF p = NoEmbedding THEN 0 ELSE @ + 1]
  /\ probes' = [probes EXCEPT ![d] = IF p = NoEmbedding THEN <<>> ELSE Append(@, p)]
  /\ UNCHANGED <<store, camera, busy, pc, req, bundle, response>>

(* collect_embeddings: frames without a usable face are skipped.           *)
CollectEmbedding(d, p) ==
  /\ pc[d] = "stream"
  /\ req[d].op # "verify"
  /\ limits(d).warmup_discard <= pulled[d]
  /\ pulled[d] < FramesToPull(d)
  /\ pulled' = [pulled EXCEPT ![d] = @ + 1]
  /\ probes' = IF p = NoEmbedding THEN probes
                                  ELSE [probes EXCEPT ![d] = Append(@, p)]
  /\ UNCHANGED <<store, camera, busy, pc, req, bundle, response>>

(* Faulty variant: the failing path keeps the session.                     *)
FrameFails_leaks(d) ==
  /\ pc[d] = "stream"
  /\ pulled[d] < FramesToPull(d)
  /\ Answer(d, "error")
  /\ UNCHANGED <<store, camera, busy, req, bundle, probes, pulled>>

(* next_frame or a stage of the face pipeline returns Err: the `?' drops   *)
(* the session.                                                            *)
FrameFails(d) ==
  /\ pc[d] = "stream"
  /\ pulled[d] < FramesToPull(d)
  /\ Answer(d, "error")
  /\ DropSession(d)
  /\ UNCHANGED <<store, req, bundle, probes, pulled>>

(* verify after the last frame.                                            *)
EndVerify(d) ==
  /\ pc[d] = "stream"
  /\ req[d].op = "verify"
  /\ pulled[d] = FramesToPull(d)
  /\ Answer(d, IF verify_burst(bundle[d], probes[d]) THEN "accepted" ELSE "rejected")
  /\ DropSession(d)
  /\ UNCHANGED <<store, req, bundle, probes, pulled>>

(* template_from_capture: no embedding at all, or no common dimension.     *)
NoTemplate(d) ==
  /\ pc[d] = "stream"
  /\ req[d].op # "verify"
  /\ pulled[d] = FramesToPull(d)
  /\ try_average(probes[d]) = {}
  /\ Answer(d, "error")
  /\ DropSession(d)
  /\ UNCHANGED <<store, req, bundle, probes, pulled>>

(* The mean of the capture is pushed onto the bundle.                      *)
PushTemplate(d) ==
  /\ pc[d] = "stream"
  /\ req[d].op # "verify"
  /\ pulled[d] = FramesToPull(d)
  /\ \E t \in try_average(probes[d]) :
       bundle' = [bundle EXCEPT ![d] = Append(@, t)]
  /\ Goto(d, "save")
  /\ DropSession(d)
  /\ UNCHANGED <<store, req, probes, pulled, response>>

SaveAll(d) ==
  /\ pc[d] = "save"
  /\ store' = [store EXCEPT ![req[d].user] = bundle[d]]
  /\ Answer(d, IF req[d].op = "enroll" THEN "enroll_ok" ELSE "add_template_ok")
  /\ UNCHANGED <<camera, busy, req, bundle, probes, pulled>>

(* Faulty variant: the error of save_all is dropped.                       *)
SaveFails_ignored(d) ==
  /\ pc[d] = "save"
  /\ Answer(d, IF req[d].op = "enroll" THEN "enroll_ok" ELSE "add_template_ok")
  /\ UNCHANGED <<store, camera, busy, req, bundle, probes, pulled>>

SaveFails(d) ==
  /\ pc[d] = "save"
  /\ Answer(d, "error")
  /\ UNCHANGED <<store, camera, busy, req, bundle, probes, pulled>>

(* dispatch hands the response to the connection and is free again.        *)
Respond(d) ==
  /\ pc[d] = "reply"
  /\ Goto(d, "idle")
  /\ UNCHANGED <<store, camera, busy, task>>

-------------------------------------------------------------------------------

Stream(d) ==
  \/ DiscardFrame(d)
  \/ \E p \in Probe : PullProbe(d, p)
  \/ \E p \in Probe : CollectEmbedding(d, p)
  \/ FrameFails(d)
  \/ EndVerify(d)
  \/ NoTemplate(d)
  \/ PushTemplate(d)

Operate(d) ==
  \/ RequireHealthy(d)
  \/ Unhealthy(d)
  \/ LoadEnrolled(d)
  \/ NoEnrolledTemplate(d)
  \/ CheckVacant(d)
  \/ AlreadyEnrolled(d)
  \/ LoadFails(d)
  \/ OpenCapture(d)
  \/ OpenFails(d)
  \/ Stream(d)
  \/ SaveAll(d)
  \/ SaveFails(d)

Live(d) == Start(d) \/ BuildOk(d) \/ BuildFails(d) \/ Crash(d)

Step(d) ==
  \/ Live(d)
  \/ \E op \in Ops, u \in Users : Call(d, op, u)
  \/ Operate(d)
  \/ Respond(d)

Next == \E d \in Daemons : Step(d)

Spec == Init /\ [][Next]_vars

(* The process keeps running its straight-line code, the camera keeps      *)
(* delivering frames (stream.next has no timeout) and the reply is written.*)
FairSpec == Spec /\ \A d \in Daemons : WF_vars(Operate(d)) /\ WF_vars(Respond(d))

-------------------------------------------------------------------------------
(* Properties                                                              *)

(* Every variable holds values of its type in the source; a capture that   *)
(* becomes a template collects no empty slot.                              *)
TypeOK ==
  /\ store \in [Users -> Seq(Embedding)]
  /\ camera \in Daemons \cup {Nobody}
  /\ busy \in [Daemons -> BOOLEAN]
  /\ pc \in [Daemons -> Place]
  /\ req \in [Daemons -> Request]
  /\ bundle \in [Daemons -> Seq(Embedding)]
  /\ probes \in [Daemons -> Seq(Probe)]
  /\ \A d \in Daemons : req[d].op # "verify" => probes[d] \in Seq(Embedding)
  /\ pulled \in [Daemons -> Nat]
  /\ response \in [Daemons -> Response]

(* The busy flag of a process is set exactly while that process streams,   *)
(* and then it is the one the kernel streams for: no path through          *)
(* open_session, a failing frame or an early accept leaves a flag behind   *)
(* that would refuse every later capture, and no two processes stream.     *)
CameraInv ==
  \A d \in Daemons :
    /\ busy[d] <=> pc[d] = "stream"
    /\ camera = d <=> pc[d] = "stream"

Done(d, op) == pc[d] = "reply" /\ req[d].op = op

(* An accepted verify was decided by the first frame that reached the      *)
(* quorum, against the templates that are on disk when the answer goes     *)
(* out: the early return of the frame loop accepts no face the rule over   *)
(* the stored templates would not.                                         *)
AcceptSound ==
  \A d \in Daemons :
    Done(d, "verify") /\ response[d] = "accepted" =>
      LET n == Len(probes[d]) IN
        /\ n \in 1 .. limits(d).max_frames
        /\ evaluate_probe_vs_templates(probes[d][n], store[req[d].user])
        /\ \A i \in 1 .. n - 1 :
             ~ evaluate_probe_vs_templates(probes[d][i], store[req[d].user])

(* A rejected verify has looked at every frame of its burst, and none of   *)
(* them reaches the quorum of the stored templates.                        *)
RejectComplete ==
  \A d \in Daemons :
    Done(d, "verify") /\ response[d] = "rejected" =>
      /\ Len(probes[d]) = limits(d).max_frames
      /\ \A i \in DOMAIN probes[d] :
           ~ evaluate_probe_vs_templates(probes[d][i], store[req[d].user])

(* The packaged deployment: systemd runs one daemon.                       *)
OneDaemon == \A d, e \in Daemons : d = e

(* Between its steps an operation relies on what earlier steps found: from *)
(* the load to the end of the capture its bundle is what is on disk (and   *)
(* empty exactly for enroll), what it will save extends that by one        *)
(* template, its burst holds one probe per frame after the warmup, and no  *)
(* probe judged so far reaches the quorum.  True with one daemon only.     *)
OperationInv ==
  \A d \in Daemons :
    LET u == req[d].user
        op == req[d].op
    IN
      /\ pc[d] \in {"health", "load"} => bundle[d] = <<>>
      /\ pc[d] \in {"health", "load", "open"} => probes[d] = <<>> /\ pulled[d] = 0
      /\ pc[d] \in {"load", "open", "stream", "save"} => op # "ping"
      /\ pc[d] \in {"open", "stream"} =>
           bundle[d] = store[u] /\ (op = "enroll" <=> store[u] = <<>>)
      /\ pc[d] = "save" =>
           /\ op # "verify"
           /\ op = "enroll" <=> store[u] = <<>>
           /\ \E t \in Embedding : bundle[d] = Append(store[u], t)
      /\ pc[d] = "stream" => pulled[d] <= FramesToPull(d) /\ limits(d).max_frames # 0
      /\ pc[d] = "stream" /\ op = "verify" =>
           /\ Len(probes[d]) = IF pulled[d] <= limits(d).warmup_discard THEN 0
                               ELSE pulled[d] - limits(d).warmup_discard
           /\ ~ verify_burst(bundle[d], probes[d])

(* No step of any operation, crash or restart takes a template away: the   *)
(* bundle written at the end of a capture extends, by one, the one on disk *)
(* at that moment, although it was read before the capture began.          *)
NeverLosesTemplates ==
  [][\A u \in Users :
       \/ store'[u] = store[u]
       \/ \E t \in Embedding : store'[u] = Append(store[u], t)]_vars

(* Seen from a caller, the operations with all their steps, failures and   *)
(* crashes are the atomic ones of FaceAuth: the effect of a request and    *)
(* its answer appear together, once.                                       *)
answering ==
  [d \in Daemons |->
     IF pc[d] = "reply" THEN [outcome |-> response[d], user |-> req[d].user]
                        ELSE [outcome |-> "none"]]

Auth == INSTANCE FaceAuth WITH
  enrolled <- store,
  answer <- answering,
  Recognised <- evaluate_probe_vs_templates

ImplementsFaceAuth == Auth!AuthSpec

Running(d) == pc[d] \in {"health", "load", "open", "stream", "save"}

(* The steps an operation still takes, at most, until its answer.          *)
Remaining(d) ==
  CASE pc[d] = "health" -> FramesToPull(d) + 5
    [] pc[d] = "load"   -> FramesToPull(d) + 4
    [] pc[d] = "open"   -> FramesToPull(d) + 3
    [] pc[d] = "stream" -> FramesToPull(d) - pulled[d] + 2
    [] pc[d] = "save"   -> 1
    [] OTHER            -> 0

(* An operation never waits for a frame it likes or starts over: whatever  *)
(* the camera shows and other daemons do, each of its steps leaves fewer   *)
(* to take, down to the answer, and nothing but its death comes between.   *)
AlwaysAdvances ==
  [][\A d \in Daemons :
       Running(d) /\ pc'[d] # "down" =>
         IF Operate(d) THEN Remaining(d)' \in 0 .. Remaining(d) - 1
                       ELSE Remaining(d)' = Remaining(d)]_vars

(* Every request a daemon takes on is answered, unless the daemon dies.    *)
RequestCompletes ==
  \A d \in Daemons : pc[d] = "health" ~> pc[d] \in {"reply", "down"}

===============================================================================
