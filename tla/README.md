# A TLA+ verification project for TrueID

TrueID is a face-login service for Linux: a daemon owns the camera, the face
models and the enrolled templates; the `trueid` command line and a PAM module
are short-lived clients that talk to it over a Unix socket. This directory
models the part of it that decides who is let in and what is stored, checks
the models with TLC and proves the central ones with TLAPS. Paths below are
relative to `src/`; `crates/trueid-core/src` is abbreviated `core`,
`crates/trueid-daemon/src` is `daemon`.

## 1. Inventory

| component | code | state it keeps | operations |
|---|---|---|---|
| Matching rule | `core/application/verification_decision.rs`, `core/domain/embedding.rs` | none | quorum over templates, decision over a burst, average of a capture |
| Application core | `core/application/app.rs` | per call: bundle, probes, session | ping, verify, enroll, add_template |
| Camera sessions | `daemon/adapters/outbound/video/v4l.rs` | `busy` flag, the kernel's stream | open_session, next_frame, drop |
| Template store | `daemon/adapters/outbound/template_store/disk.rs` | `<uid>.json`, `<uid>.tmp`, a Mutex | load_all, save_all |
| Daemon process | `daemon/main.rs`, `composition.rs`, `config.rs` | the socket path, the configuration it read | choose and read the file, build, bind, exit, restart |
| IPC server | `daemon/adapters/inbound/ipc.rs` | listening socket, current connection | accept, read, dispatch, reply |
| IPC client | `crates/trueid-ipc/src/lib.rs` | one connection | send_request with its time limits |
| PAM module, CLI | `crates/trueid-pam`, `crates/trueid-ctl` | none | look a user up, map a reply to a PAM result, to an exit code |
| Frame decoding | `v4l.rs`, `core/domain/frame.rs`, `daemon/adapters/outbound/frame_rgb.rs` | the format the driver set | negotiate a format, payload to `Frame`, `Frame` to image |
| Face detector | `onnx_yunet.rs`, `full_frame.rs` | the loaded network | candidates, suppression, primary face |
| Face aligner | `crop_bbox.rs`, `passthrough.rs` | none | square crop, warp to five points |
| Pose, liveness, embedder | `geometric_landmarks.rs`, `always_live.rs`, `onnx.rs` | the loaded network | pose gate, embed, normalise |
| Cosine matcher | `cosine.rs` | the threshold | match |
| Model download | `crates/trueid-ctl/src/models.rs` | model files | get-models |

How they interact: a client connects to the socket and writes one JSON line;
the single thread of the daemon accepts, reads, calls one operation of
`TrueIdApp` and writes one line back. An operation calls its ports in a fixed
order: health, store (load), camera (open, one call per frame), pipeline and
matcher (per frame), store (save). Ports are synchronous calls; nothing is
called back.

What is hard to get right, and hard to test:

* An operation reads the store at its start, captures for seconds and uses or
  writes back what it read. Inside one daemon nothing can interfere; the locks
  that would say so are per process.
* Every step can fail, and every failing path must release the camera, change
  nothing on disk and be reported.
* verify decides after each frame and stops at the first accept; this must
  decide like looking at the whole burst.
* A client gives up after 120 s, or is killed, and its request stays in the
  socket and is executed. It may retry. The daemon may die between saving and
  replying.
* The driver chooses the picture's format and size and delivers what it likes;
  sizes are products of 32-bit integers, and buffers are indexed by them.
* One slow or silent client holds up all others.
* A save is truncate, write, sync, rename; the process or the machine may stop
  between any two of them, and the result of the sync is ignored.
* A daemon that starts removes the socket file first, whoever listens on it.
* Models, configuration and templates outlive the daemon: it meets files of
  interrupted downloads, of other versions of its configuration, and templates
  of another embedder.
* A network may answer anything, NaN included; sorting, suppression and the
  geometry of crop and warp at the border of the frame must bear it.
* The network, the pose gate and the aligner each have a meaning of the right eye,
  the person's or the picture's, and only one place where it is translated.
* Development flags replace adapters one by one, and not every mix was tried.

What makes each component correct:

* *Matching rule*: the quorum is reachable and never zero; a longer burst never
  turns an accept into a reject; what a new template may change.
* *Application core*: an accept is backed by the templates on disk at that
  moment, a reject by the whole burst; templates are only added; the effect of a
  request and its answer appear together; each request is answered.
* *Camera*: one stream at most, the flag set exactly while the process streams,
  every session ends.
* *Store*: loads and saves are atomic, also across kills and power loss.
* *Frame decoding*: a frame is a whole picture, turned once, and the face models
  see every pixel in its place; complete pictures are not refused.
* *Face pipeline*: each face is kept once and the best one is the primary; only
  pixels of the frame are read; faces looking straight at the camera pass, and
  what is embedded has its eyes level.
* *Cosine matcher*: a template votes for the faces it shows and for nobody else's,
  whichever embedder it comes from.
* *Model download*: success means that what was missing is there.
* *Daemon process*: it has the limits its file gives, and serves whenever file,
  models and camera allow it.
* *IPC*: each reply reaches the client that asked; every acknowledged template
  exists, and no request makes two; PAM lets in only who was accepted, and the CLI
  reports success only of what was done; every connection ends.

## 2. Modules

| module | models |
|---|---|
| `VerificationDecision` | the matching rule, over an abstract matcher |
| `TrueIdApp` | the application core with store, camera and pipeline ports, several daemon processes, crashes |
| `FaceAuth` | abstract specification: what the daemon promises its callers |
| `IpcService` | `TrueIdApp` behind the socket path, with its clients |
| `AuthService` | abstract specification: what the service promises whoever connects |
| `TemplateStore` | the file store down to inodes and stable storage |
| `AtomicStore` | abstract specification: what the store port promises |
| `FrameDecode` | from the payload of the camera to a `Frame` and to an image |
| `YuNetDetector` | from the outputs of the network to the primary face |
| `FacePipeline` | one frame through detector, aligner, pose gate and embedder, with the development flags |
| `CosineMatcher` | the matcher, the normalisation and the average over vectors |
| `ModelInstall` | `trueid-ctl get-models` |
| `Deployment` | one machine over time: downloads, configuration, daemon and its templates |
| `VerificationDecisionProofs`, `TrueIdAppProofs`, `IpcServiceProofs`, `TemplateStoreProofs`, `FrameDecodeProofs`, `FacePipelineProofs`, `CosineMatcherProofs`, `DeploymentProofs` | theorems about the module in their name |
| `MCTrueIdApp`, `MCIpcService`, `MCTemplateStore`, `MCFrameDecode`, `MCFacePipeline`, `MCDeployment` | instances for TLC |

`IpcService` extends `TrueIdApp`, which extends `VerificationDecision`.
`FacePipeline` extends `YuNetDetector` and conjoins its steps. `Deployment`
extends `ModelInstall`, whose files its daemon loads, and `CosineMatcher`, which
instantiates `VerificationDecision` with vectors and cosines.
`TrueIdApp` implements `FaceAuth`, `IpcService` implements `AuthService` and
`TemplateStore` implements `AtomicStore` (refinement mappings at the end of each
module). `AuthService` promises per connection what `FaceAuth` promises per
daemon: `executed` is the answer the request of a connection has had, from the
step that fixes it on, and the connection's own end, a reset, may take its place. `TrueIdApp` uses a store whose
load and save are one step each: that is what `TemplateStore` is checked to be.

### Correspondence to the code

**`VerificationDecision`.** An embedding is a model value. `Match` is the set of
(probe, template) pairs the matcher port accepts, `Dim` the length of a vector,
`Averages` the means of a capture; nothing else of the numbers reaches a
decision (the similarity is only logged). `NoEmbedding` is the `None` of
`try_embed_from_frame`: no face, a pose or a liveness check not passed.

**`TrueIdApp`.** `pc[d]` is the place in `verify`, `enroll` or `add_template`
where process `d` is: `health`, `load`, `open`, `stream`, `save`, `reply`. Each
port call is a step, a failing call a step of its own, and a step does all that
follows in the code up to the next call: `PullProbe` pulls a frame, embeds it,
judges the burst so far and on an accept drops the session and answers.
`camera` is the process whose stream the kernel has on, `busy[d]` the flag of
`V4lVideoSource`; `DropSession` is `Drop for V4lVideoSession`, and runs wherever
a `?` or a return leaves the scope of the session. All error kinds are the one
answer `"error"`, as the protocol has one `Response::Error`. `Crash` ends a
process at any place; `Start`, `BuildOk`, `BuildFails` are `main` up to the
accept loop. `BuildOk` probes the camera and lets it go again, as the V4L source
does: the camera of this module is a V4L device. `open_session` sets and, on
failure, clears `busy` within one call that nobody can look into, so `OpenFails`
leaves it alone.

**`IpcService`.** `path` is what the socket path leads to: a daemon, a stale
file or nothing. `backlog[d]` are the connections the kernel holds for `d`,
`current[d]` the one `handle_connection` is on. `asked` and `reply` are the two
lines of a connection; both outlive the ends that wrote them. `GiveUp` is the
read timeout or a killed client; `Die` is a crash, which resets every
connection of the process and leaves the file behind. `Listen` needs the path to
be free, as `bind` does; `StartFails` includes a failing `bind`.

A PAM client is known by the user name it is to authenticate. `NoUserName` is
`pam_get_user` returning a status of its own, which the module passes on (one
`PAM_CONV_ERR` here stands for them), or a null or empty name; `LookupFails` is
`getpwnam_r` failing or not knowing the name. Both come before any connection. `Commands`
are the requests a CLI client is run with. `PamResult` and `ExitCode` are what
the two programs make of the outcome of `send_request`.

**`TemplateStore`.** Names lead to inodes; `data` is what processes see and
`disk` what a power loss leaves. Between the two lie `Writeback` and
`FlushNames`, which the kernel does at any time, and `SyncAll`, which forces the
data of one file. The directory is never synced by the code and is not in the
model either: a rename reaches the disk by `FlushNames` only. A NaN in a
template is written as JSON `null` and cannot be read back, hence `Unreadable`.
`Legacy` are files with the former `rgb` and `ir` lists.

**`FrameDecode`.** A pixel is not a colour but the tuple of payload bytes it is
computed from: one for grey, y, u and v for YUYV, the position in the picture
for JPEG. A decoder is a function from sizes to such pixels, so a lost, repeated,
shifted or turned pixel is a wrong value, while the colour arithmetic of
`yuv_bt601_to_rgb` is left out. The byte counts are `3 *` and `1 *` the pixel
counts. `U32` and `Usize` are the numbers of values of the two integer types;
where the code multiplies without a check, the product is taken modulo that
number or, when `checked` (a build with overflow checks, as `cargo build` makes),
ends in `Panic`. So does a slice index out of bounds. A driver is what it answers
to each `set_format` request; a `bytesused` above the buffer is in `Payloads`.
`Open` is the negotiation in `open_session`; the busy flag and the stream are in
`TrueIdApp`. Of the eight EXIF orientations there is one that keeps and one that
swaps the sides. `next_frame` of `TrueIdApp` takes any outcome of this module.

**`YuNetDetector`.** A call of `detect_primary` is a step of its own at each loop
iteration of `nms`, so that the invariants speak of it half way. A cell of one
of the three grids is `<<grid, row, column>>`, and a candidate is known by its
cell. `Outputs` are the answers of the network; cells that are not in one are
below the threshold. Boxes and landmarks are integers in half pixels of the
network's picture (finite: an overflowing `exp` is not in the model), so its coordinates from 0 to 1 are integers out of `Unit`.
Scores are compared before the square root. `Sorted` is what `sort_by` may
leave: the stable order by score, or any order if a score is NaN, since then the
comparison is no total order and the library promises nothing; it may also panic.

**`FacePipeline`.** `stage` is the place in `try_embed_from_frame`. The aligned
picture is the set of pixels of the frame that were `reads`, the embedding its
existence. The warp's similarity comes from a singular value decomposition in
floating point; here it takes a pixel of the result to any point, in the frame or
off it, which covers every similarity. `RollWithin30` is the comparison of
`atan2` with 30 degrees, by squares. What the network calls the right eye is the
person's, on the left of an unmirrored picture (`Upright` in `MCFacePipeline`) and
on the right of a mirrored one (`Mirrored`). `dev` are the four development flags;
`build` decides from them which adapter is used.

**`CosineMatcher`.** Components are integers with `One` for 1.0. `matches` compares
the squares of both sides of `dot / (na * nb) >= threshold`, so that neither root
nor division is needed. The threshold is any number of percent, below 0 and
above 100 included, since the configuration is not checked. The outputs of the network in an instance are vectors
whose norm is a whole number, so normalising is exact.

**`ModelInstall`.** `at` is the position of the call in the list of the two models.
A file is absent, partial or whole; `Arrive` is the tool writing, which starts
by truncating. `CurlFails` falls through to wget, as line 22 does.

**`Deployment`.** `system` is the file at `SYSTEM_CONFIG`, a function from the keys
it sets to their values, or no valid YAML, or none; `Bundled` is what the later
candidates hold. `load_config` fills in what serde fills in. `place` is where the
daemon is under systemd, `given_up` being its start limit. `ready` says whether the
camera works and the template directory can be made, and `MachineChanges` is
either of them changing. `CanBuild` is all that `composition::build` can fail of. A partial model file is taken to be
one that does not load. Operations are the single steps of `FaceAuth` here, with
the embedding the configured embedder gives; `verify` is evaluated in the
invariants for every capture the configuration allows, in every state in which
a daemon serves. The models' paths are taken to be the default ones.

## 3. Runs

| run | instance | what it shows |
|---|---|---|
| `app_one_daemon` | 1 daemon, 1 user, 3 embeddings of 2 dimensions, up to 3 templates, bursts of 1 warmup frame and 2 frames | answers are justified, the camera is released, `FaceAuth` is implemented, every step of an operation brings its answer nearer and every request is answered |
| `app_two_daemons` | 2 daemons, 1 embedding, 2 templates | the camera stays exclusive and neither process blocks the other |
| `ipc_one_daemon` | 1 daemon, a CLI and a PAM client, 2 connections each | replies reach their callers, templates are accounted for, PAM results and exit codes are sound, `AuthService` is implemented, connections end |
| `store_atomic` | 2 threads of 1 process, 4 inodes, a disk that syncs | `AtomicStore` is implemented under failures, kills, power loss |
| `store_sync_failure` | 1 thread, syncs may fail | a partly written template file needs a failed sync |
| `frame_decode` | 10 sizes up to 6 x 6, `U32` 8, `Usize` 64, 21 drivers, 45 payloads | frames are whole and turned once, what is refused, what is fatal |
| `face_pipeline` | a network of 84 cells with up to 4 of 9 faces, `TopK` 3, frames of 1 x 1 and 4 x 3, all 16 mixes of flags | suppression, primary face, border of the frame, eyes level, mock setup |
| `deployment` | 3 configurations, a broken and a missing file, 1 user, 3 templates, 3 outputs of the embedder, bursts of up to 2 | downloads, limits, availability, templates of mixed embedders, what one more template changes |
| `face_upright` | as `face_pipeline` | *violation*: a face straight before the camera is turned away |
| `face_roll_limit` | as `face_pipeline` | *violation*: faces within 30 degrees are turned away |
| `models_installed` | as `deployment` | *violation*: success is reported over a partial model |
| `ipc_second_daemon` | 2 daemons, 1 CLI client | *violation*: add-template removes a template |

Why the bounds are enough. Three templates are the least with which the quorum
goes 1, 1, 2, so adding one can and can not raise it; three embeddings give a
match, a mismatch and a change of dimension in one capture. A burst of two is the
least in which the first and the last frame differ; one warmup frame tells the
frames pulled from the frames judged. Users only meet in `store`, at different
indices, so one is enough for every property here. Two attempts of a client are a
timeout and its retry; with two clients each can be ahead of the other in the
queue. In the store two threads meet in the Mutex and the tmp name; four inodes are the
two names in memory and the two on disk, which may all differ; a save needs a new one only when
there is no tmp name, so one is always free.
In `frame_decode` the integers are small rather than the pictures large: 3 x 3
passes `U32` and wraps to a product that is not 0, 2 x 6 passes it too, 6 x 6
passes `Usize` times three and times two, and 2 x 3 is the largest grey IR
picture that fits. The payload lengths are those needed by each size and format,
one less, and one more than the buffer.
In `face_pipeline` three faces in a row overlap their neighbours only, with the
best at one end, the least in which a removed face would have removed another;
`TopK` 3 stops with a fourth left. There are ties, a NaN, an empty box, a score
just below and one above the clamp, landmarks off the frame, coinciding,
upside down, rolled and turned aside, unmirrored and mirrored. A frame of one pixel is all border; 4 x 3
has the shape of the camera's. In `deployment` the third
output is the opposite of the second, so an average may be zero, the
mock's embedding has another length, and three templates may come from three
daemons. The file that sets half a section of limits is among the configurations.
Threads and inodes are interchangeable and no liveness is checked there, so
symmetry is sound. The bounds by name are `MaxTemplates`, `MaxAttempts` and `Inode`; the
frames of a burst are bounded by the code itself.

### Fairness

* `WF(Operate(d))`, `WF(Respond(d))`: between two requests a daemon runs
  straight-line code. The only waits in it are `stream.next`, which has no
  timeout: the model assumes a camera that keeps delivering frames. What the
  frames show is free, and so is failure.
* `WF(ServeStep(d))`: the same for the accept loop. `ReadRequest` and `ReadEof`
  are enabled only once the client wrote its line or closed.
* `WF(SendRequest)`, `WF(Receive)`: `send_request` writes right after connecting
  and then reads. A client that stays silent for ever would block the service,
  as `read_line` has no timeout; the two clients of the repository do not.
* `WF(LoadConfig)`, `WF(Build \/ StartFails)` in `Deployment`: `Restart=always`
  starts a daemon that is down, and a build ends. Whether systemd gives up after
  failing starts is free, and so are crashes; `EventuallyServes` speaks of the
  behaviours in which it does not, and in which the configuration comes to rest.
* None for time limits, crashes, starts and connects. `ConnectionEnds` therefore
  holds without the client's timeout ever firing. It says nothing of a daemon that
  waits for ever, for the line of a silent client or for a frame; then only that
  timeout helps the caller.

### Disagreements found

1. `daemon/main.rs:29` removes the socket file whether or not a daemon listens
   on it, and the lock of the store is per process. A second daemon started by
   hand while the first works takes over the clients; both load, both save, and
   the later save drops the template of the other, although the CLI says of
   add-template that it "does not remove existing templates"
   (`crates/trueid-ctl/src/main.rs:37`). The packaged unit starts one daemon.
2. `geometric_landmarks.rs:28` takes the roll of a face from landmarks divided by
   the frame's width and height. On a 640 x 480 frame a face is turned away for
   its roll from 23.4 degrees on, while the limit is `max_abs_roll_deg: 30.0`; on
   a portrait frame faces rolled further than 30 degrees pass. The aligner
   multiplies by the frame's size before it fits.
3. The network's first point is the right eye of the person, as its order in
   `onnx_yunet.rs:251` names it, and an unmirrored picture shows that eye on the left.
   `to_detection` hands it on as `right_eye`; the pose gate and the reference points
   of the aligner (`crop_bbox.rs:18`) mean the eye on the right of the picture. The
   line of the eyes of an upright face then has a roll of 180 degrees, and the frame
   is discarded as "not sufficiently frontal"; an upside-down face passes, and so
   does one in a mirrored picture, such as a flipped sensor gives. Which eye the
   network reports first is a fact about the network; the repository only names it.
4. `models.rs:6` skips a file that exists, and a failed or interrupted download
   leaves its part at that place: get-models then says "Models installed in" over
   a partial model, for ever. The daemon does not start with it.

Seen while modelling, and not checked by a run of its own:
`docs/architecture.md:55` draws verify opening the camera before it loads the
templates, while the code loads first and refuses a user without templates
without a capture; a threshold above 1 is accepted and locks everybody out
(`ThresholdAboveOne`); half a section
of limits takes the rest from verify, also for enroll (`config.rs:99`);
`enable_ir: true` alone is refused, since `enable_rgb` is on by default; a failed
download says "Neither curl nor wget is installed"; a template may average to
a vector nobody matches, and still counts for the quorum; `max_frames: 0` is
accepted at start, and then no operation that captures can succeed.

## 4. Proofs

`TrueIdAppProofs` proves for every number of daemons, users, templates and frames:

* `TypeCorrect` and `CameraExclusive`, for any number of daemons. The invariant
  of the latter relates flag, stream and place, and is inductive with `TypeOK`.
* `OperationsAdvance`, for any number of daemons: an operation is at most
  `warmup_discard + max_frames + 5` steps from its answer, each of its steps
  leaves fewer, and nothing another process does adds one. This is what there is
  to prove of `RequestCompletes` without fairness. The measure stays a natural
  number because the frame count restarts with each request (`NoneTaken`).
* `OperationsConsistent`, `VerifySound`, `VerifyComplete`, `TemplatesKept`,
  `RefinesFaceAuth`, under `OneDaemon`. Their inductive invariant is

      IInv == TypeOK /\ OperationInv /\ AcceptSound /\ RejectComplete

  `AcceptSound` speaks of the last step of an operation, and `NeverLosesTemplates`
  of the save, but both depend on what the load found many steps before.
  `OperationInv` carries it along: from load to the end of the capture the bundle
  is the one on disk, then it is that one plus a template, and no probe so far
  reaches the quorum. A save would break it for another process, which is why
  it needs `OneDaemon`; finding 1 is exactly that step. With it the action
  property and the refinement are one case analysis over the actions each:
  a save maps to `EnrollUser` or `AddTemplate`, an accept or a reject to
  `Accept` or `Reject`, an error or pong to `NoEffect`, the end of a reply to
  `Quiet`, everything else to a stutter.

`IpcServiceProofs` carries that behind the socket. `IpcTypeCorrect`,
`CallersServed`, `LoginsSound` and `ExitsSound` hold for any number of daemons,
clients and attempts: none of them needs `OneDaemon`, so finding 1 loses
templates but lets nobody in. Their invariant is

    ServiceInv == ConnInv /\ AnsweringInv /\ DeliveredInv

`ConnInv` says where connections are: in one queue or one hand, never again once
replied to, and blank until made. `AnsweringInv` follows an operation to its
answer. `OperationInv` would say more, but another daemon's save breaks it; what
survives is that a user who had templates still has some. `DeliveredInv` says
the same of replies and outcomes. `TemplatesCounted` needs `OneDaemon` and
finitely many clients. `TemplatesAccounted` is not inductive: between save and
reply a template exists that no reply tells of. `AccountInv` counts a write as
soon as its operation is past the save, and the rest of the proof is which step
adds a write to the two counts, and that it adds one.

`RunsApp` says that the service's steps on the variables of `TrueIdApp` are steps
of `Spec`, so `IInv` holds in the service. With `OneDaemon` follow `AddsKept`, the
property a second daemon breaks in `ipc_second_daemon`, and `RefinesAuthService`.
There the step of an operation that fixes its answer is `Execute`
(`OperateEffect`), the written reply is `Tell`, a crash is `Reset` of all
connections the process has, and a written line is `Ask`; timeouts, queues,
accepts and all other steps are stutters. `ServiceInv` provides that the request
in hand is the one of the current connection and that it has no reply yet:
`Execute` happens at most once on a connection.

`TemplateStoreProofs`: for any number of threads of one process, any templates
and enough inodes. `StoreTypeCorrect` and `TemplateFileWhole` hold also when
syncs fail; `RefinesAtomicStore` needs a disk that syncs. The invariant is

    StoreInv == TypeOK /\ CallInv /\ FilesInv

`CallInv` is the Mutex. `FilesInv` says that the tmp name never leads to the
inode of the template file, in memory or after an outage, and so a write cannot
touch what is published; and that what is published is whole and the same on the
disk. In the refinement a save happens at its rename, `FlushNames` is `Harden`, a
power loss is `Outage`, and writing, syncing and `Writeback` are stutters.

`VerificationDecisionProofs`: the quorum is between 1 and the number of
templates (`QuorumBounds`); a burst that is accepted stays accepted whatever
frames follow (`EarlyAcceptAgrees`), which is why returning early is right; a
new template keeps an accepted face accepted if the number of templates was odd
or the face matches the new one (`AddTemplateKeepsAccept`) - with an even number
it may not, because the quorum rises.

`FrameDecodeProofs`: for integers of any width and any size the driver sets, the
image of a frame shows every pixel in its place (`RgbImageShowsFrame`). The
conversion computes the index of a grey pixel in u32; that it never wraps follows
from `GrayFrameFits`, by which a grey IR frame has fewer pixels than u32 has
values: if the product wrapped, `Frame::new` sees another length. `GrayInv`, the
inductive invariant, adds that a grey frame's pixels are in payload order.
The other five rest on `MadeInv`: what is in `frame` is `next_frame` of this
session and this payload. `NextFrameResult` then says once what that can be: an
error with its reason, a panic with its size, or a picture turned as it should
be. Its content are facts about positions: each has one row and one column
(`RowAndColumn`, `PositionOf`), so a turn is a permutation (`Permuted`) and loses
or doubles no pixel; and a YUYV pixel of an even width has its bytes before the
end of the picture (`YuyvPixel`). Hence `FramesWhole`, `FramesTurnedOnce`,
`CompletePicturesPass`, `PayloadsNeverPanic` and `FrameTypeCorrect`, for pictures
of any size. TLC's integers of 8 and 64 values are thus no restriction.

`FacePipelineProofs`: for any answers of the network, thresholds and frame sizes.
The inductive invariant is

    PipeInv == DetInv /\ PipelineTypeOK /\ AlignReadsInside /\ GateInv

`NmsSound` alone is not inductive: that no two kept faces overlap needs, half way
through the loop, that everything a kept face overlaps is already removed, and
that everything dropped has its reason needs that all cells before `next` are
kept or removed (`KeepInv`). It also needs that overlap is symmetric
(`OverlapSymmetric`), a fact about products that is proved once. The primary
face is the best because the first cell of the order is always the first kept.
`ReadsInside` rests on `SampleInside` and `SquareCropInside`: the expanded square
of any box lies in the unit square and its span, rounded outwards and cut, lies
in the frame, whatever the frame's size. `EyesLevel` rests on
`StretchSteepens`: dividing the wider side by more only makes the line of the
eyes steeper, so on a landscape frame the gate errs to the strict side. It says
that eyes are level, not that the face is upright: finding 3 is why it cannot. That the
gate is strict is also why finding 2 exists; `HighFramesInDegrees` shows that it concerns wide frames
only: on a frame that is not wider than high nobody is turned away for a roll within
the limit.

`CosineMatcherProofs` is about the operators of the matcher, for integer vectors
of any length. A vector that is not zero matches itself unless the threshold is
above 1 (`SelfMatch`), where nothing matches (`ThresholdAboveOne`); matching is
symmetric (`MatchSymmetric`) and sees directions only (`MatchOfMultiple`), which is
why it does not matter that a mean of normalised embeddings has not length 1 and is
stored as it is. It is also why `l2_normalize` changes no decision where its
division comes out even (`NormalisedMatchesSame`). `AverageKeepsMatches`: whoever matches each frame of a capture
matches the mean. The hypotheses that the threshold is above 0 and the mean whole
are needed: at threshold 0 the frames may cancel out, and the model rounds a mean
down to a multiple of 1 / `One`. That frames may have different norms is no
hypothesis: the proof adds up dot products, each at least the threshold times two
norms, and bounds the norm of the sum by the sum of the norms (`Cauchy`).
`VectorsMeetAssumptions` and `AverageImplements` connect the two levels: what
`VerificationDecision` assumes of an opaque matcher is true of this one, and the
computed mean is one of those it allows.

These are facts about sums of any length, and the induction principles of the
library cannot be used with the provers at hand. `CosineMatcherProofs` replaces them by a
least counterexample: if a fact about the fold over the set of summed positions
fails for some subset of them, it fails for a smallest one, since strict
inclusion of finite sets is well founded, and that one is not empty and loses an
element. The recursion of the fold is used one step at a time.

`DeploymentProofs`: `InstalledSound` rests on `InstallInv`, by which a call of
get-models has made whole everything that was missing before its position and
touched nothing behind it. `ConfiguredLimits` is one step of `LoadConfig`, for
any file. `DeployTypesCorrect` needs the whole of

    DeployInv == InstallInv /\ MachineInv /\ ConfigInv /\ BundlesInv

A template is the mean of a capture, so that it is a vector with components
(`BundlesInv`) needs what the loaded configuration may embed (`ConfigInv`), which
needs when a process has one (`MachineInv`). In `AcceptedByThisModel`
a template of another length has no cosine with the probe, so the quorum must come
from the others. `AcceptsKept` says what one more template can cost: with an odd
number of templates nothing, as the quorum stays, and a face that the new template
shows never loses; it counts the votes of an appended sequence (`VotesOfAppended`).
`FacesRecognised` is the counterpart, for thresholds up to 1: by `SelfMatch` a face votes with every template equal to it, and half of them are
the quorum. `CapturesRecognised` says the same of templates that are not the face
itself but means of captures it matches, by `AverageKeepsMatches` and so under its
hypotheses.

Assumptions: those named `...Assumption` in the modules. They say that constants
have their types (limits of configuration files are natural numbers, no loaded
configuration is the value for none), that an average of equal embeddings that have components is that
embedding, and that special values, such as an error, are none of the ordinary
ones. TLC evaluates each of them in a run.

Only model-checked: liveness (`RequestCompletes`,
`ConnectionEnds`, `EventuallyServes`), since TLAPS proves nothing about fairness
or ENABLED. Every invariant, action property and refinement of a passing run has
its theorem.

## 5. Not modelled, and why

* The neural networks, and floating point itself: coordinates, scores and
  embeddings are integers fine enough for what is compared, so rounding at a
  threshold is not seen, nor are f32 overflow and underflow or a threshold that is
  NaN. Boxes and landmarks are never NaN or infinite here; scores may be NaN.
* The singular value decomposition of the aligner: any similarity may come out.
* The input pictures of the two networks: scaling, padding, channel order.
* Paths, ports and the log level of the configuration; a model at another
  path than the default one.
* A request line that is not valid JSON: no client here sends one.
* Colour arithmetic; what a JPEG decoder does with a damaged picture other than
  refuse it.
* Logs, texts, debug images, file modes.
* The mock camera, which needs no device and is never busy, in `TrueIdApp`
  (`Deployment` has the flag that builds it); the health adapter, which is a
  constant behind a port that `TrueIdApp` leaves free.
* A full listen queue, on which a connect waits.
* The release of the camera has no property of its own: it follows from
  `CameraInv`, by which only an operation in its capture streams, and
  `RequestCompletes`.
* Mutex poisoning: the daemon has one thread, and a panic in it ends the process
  (`Crash`).

## 6. Plan

In order of weight:

1. What `NormalisedMatchesSame` and `AverageKeepsMatches` say when the division is
   rounded, with a bound on what the matcher can make of it.
2. `TrueIdApp` over `TemplateStore` instead of its one-step store, by composing the
   two refinements.
3. Two users in the run of `IpcService`; the theorems hold for any number of them.
