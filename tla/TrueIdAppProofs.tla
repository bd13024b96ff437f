--------------------------- MODULE TrueIdAppProofs ---------------------------
(***************************************************************************)
(* Theorems about TrueIdApp, for any number of users, any embeddings and   *)
(* matcher, any streaming limits.  CameraInv needs nothing of the number   *)
(* of daemons; what relates a bundle in memory to the disk needs OneDaemon.*)
(***************************************************************************)
EXTENDS TrueIdApp, TLAPS

USE DEF Place, Response, Ops, Request

(* A mean of embeddings is an embedding.                                   *)
LEMMA TryAverageType ==
  ASSUME NEW s \in Seq(Embedding)
  PROVE  try_average(s) \subseteq Embedding
<1>1. EmbeddingsIn(s) \in SUBSET Embedding
  BY DEF EmbeddingsIn
<1>2. Averages[EmbeddingsIn(s)] \subseteq Embedding
  BY <1>1, AveragesAssumption
<1> QED
  BY <1>2 DEF try_average

LEMMA LimitsType ==
  ASSUME TypeOK, NEW d \in Daemons
  PROVE  /\ limits(d).warmup_discard \in Nat
         /\ limits(d).max_frames \in Nat
         /\ FramesToPull(d) \in Nat
BY StreamingAssumption DEF TypeOK, limits, FramesToPull

-------------------------------------------------------------------------------

LEMMA TypeOKInit == Init => TypeOK
<1> SUFFICES ASSUME Init PROVE TypeOK
  OBVIOUS
<1>1. <<>> \in Seq(Embedding) /\ <<>> \in Seq(Probe)
  OBVIOUS
<1> QED
  BY <1>1 DEF Init, TypeOK

LEMMA TypeOKStep == TypeOK /\ [Next]_vars => TypeOK'
<1> SUFFICES ASSUME TypeOK, [Next]_vars PROVE TypeOK'
  OBVIOUS
<1>1. CASE UNCHANGED vars
  BY <1>1 DEF TypeOK, vars
<1>2. ASSUME NEW d \in Daemons, Step(d) PROVE TypeOK'
  <2> <<>> \in Seq(Embedding) /\ <<>> \in Seq(Probe)
    OBVIOUS
  <2>1. CASE Live(d)
    <3>1. CASE Start(d) \/ BuildOk(d) \/ BuildFails(d)
      BY <3>1 DEF Start, BuildOk, BuildFails, Goto, task, TypeOK
    <3>2. CASE Crash(d)
      BY <3>2 DEF Crash, Fresh, Goto, TypeOK
    <3> QED
      BY <2>1, <3>1, <3>2 DEF Live
  <2>2. ASSUME NEW op \in Ops, NEW u \in Users, Call(d, op, u) PROVE TypeOK'
    BY <2>2 DEF Call, Fresh, Goto, TypeOK
  <2>3. CASE RequireHealthy(d) \/ Unhealthy(d)
    BY <2>3 DEF RequireHealthy, Unhealthy, Answer, Goto, TypeOK
  <2>4. CASE LoadEnrolled(d) \/ NoEnrolledTemplate(d)
    BY <2>4 DEF LoadEnrolled, NoEnrolledTemplate, Answer, Goto, TypeOK
  <2>5. CASE CheckVacant(d) \/ AlreadyEnrolled(d) \/ LoadFails(d)
    BY <2>5 DEF CheckVacant, AlreadyEnrolled, LoadFails, Answer, Goto, task, TypeOK
  <2>6. CASE OpenCapture(d) \/ OpenFails(d)
    BY <2>6 DEF OpenCapture, OpenFails, Answer, Goto, task, TypeOK
  <2>7. CASE DiscardFrame(d)
    BY <2>7 DEF DiscardFrame, TypeOK
  <2>8. ASSUME NEW p \in Probe, PullProbe(d, p) PROVE TypeOK'
    <3>1. Append(probes[d], p) \in Seq(Probe)
      BY DEF TypeOK
    <3>2. probes' \in [Daemons -> Seq(Probe)]
      BY <2>8, <3>1 DEF PullProbe, TypeOK
    <3>3. \A e \in Daemons : req'[e].op # "verify" => probes'[e] \in Seq(Embedding)
      BY <2>8 DEF PullProbe, TypeOK
    <3>4. /\ pulled' = [pulled EXCEPT ![d] = @ + 1]
          /\ UNCHANGED <<store, req, bundle>>
      BY <2>8 DEF PullProbe
    <3>5. \/ Answer(d, "accepted") /\ DropSession(d)
          \/ UNCHANGED <<pc, response, camera, busy>>
      BY <2>8 DEF PullProbe
    <3>6. /\ camera' \in Daemons \cup {Nobody}
          /\ busy' \in [Daemons -> BOOLEAN]
          /\ pc' \in [Daemons -> Place]
          /\ response' \in [Daemons -> Response]
      BY <3>5 DEF Answer, Goto, DropSession, TypeOK
    <3>7. /\ store' \in [Users -> Seq(Embedding)]
          /\ req' \in [Daemons -> Request]
          /\ bundle' \in [Daemons -> Seq(Embedding)]
          /\ pulled' \in [Daemons -> Nat]
      BY <3>4 DEF TypeOK
    <3> QED
      BY <3>2, <3>3, <3>6, <3>7 DEF TypeOK
  <2>9. ASSUME NEW p \in Probe, CollectEmbedding(d, p) PROVE TypeOK'
    <3>1. p # NoEmbedding => Append(probes[d], p) \in Seq(Embedding)
      BY <2>9 DEF TypeOK, CollectEmbedding, Probe
    <3>2. p # NoEmbedding => Append(probes[d], p) \in Seq(Probe)
      BY DEF TypeOK
    <3> QED
      BY <2>9, <3>1, <3>2 DEF CollectEmbedding, TypeOK
  <2>10. CASE FrameFails(d) \/ EndVerify(d) \/ NoTemplate(d)
    BY <2>10 DEF FrameFails, EndVerify, NoTemplate, Answer, Goto, DropSession, TypeOK
  <2>11. CASE PushTemplate(d)
    <3>1. probes[d] \in Seq(Embedding)
      BY <2>11 DEF PushTemplate, TypeOK
    <3>2. PICK t \in try_average(probes[d]) :
            bundle' = [bundle EXCEPT ![d] = Append(@, t)]
      BY <2>11 DEF PushTemplate
    <3>3. t \in Embedding
      BY <3>1, <3>2, TryAverageType
    <3>4. Append(bundle[d], t) \in Seq(Embedding)
      BY <3>3 DEF TypeOK
    <3> QED
      BY <2>11, <3>2, <3>4 DEF PushTemplate, Goto, DropSession, TypeOK
  <2>12. CASE SaveAll(d) \/ SaveFails(d)
    BY <2>12 DEF SaveAll, SaveFails, Answer, Goto, TypeOK
  <2>13. CASE Respond(d)
    BY <2>13 DEF Respond, Goto, task, TypeOK
  <2> QED
    BY <1>2, <2>1, <2>2, <2>3, <2>4, <2>5, <2>6, <2>7, <2>8, <2>9, <2>10, <2>11,
       <2>12, <2>13 DEF Step, Operate, Stream
<1> QED
  BY <1>1, <1>2 DEF Next

(* Every variable always holds values of its type; in particular no        *)
(* template is ever stored that is not an embedding.                       *)
THEOREM TypeCorrect == Spec => []TypeOK
BY TypeOKInit, TypeOKStep, PTL DEF Spec

-------------------------------------------------------------------------------

LEMMA CameraInvInit == Init => CameraInv
BY NobodyAssumption DEF Init, CameraInv

LEMMA CameraInvStep == TypeOK /\ CameraInv /\ [Next]_vars => CameraInv'
<1> SUFFICES ASSUME TypeOK, CameraInv, [Next]_vars PROVE CameraInv'
  OBVIOUS
<1> USE NobodyAssumption
<1>1. CASE UNCHANGED vars
  BY <1>1 DEF CameraInv, vars
<1>2. ASSUME NEW d \in Daemons, Step(d) PROVE CameraInv'
  <2>1. CASE Start(d) \/ BuildOk(d) \/ BuildFails(d)
    <3>1. /\ pc[d] # "stream" /\ pc'[d] # "stream"
          /\ \A e \in Daemons \ {d} : pc'[e] = pc[e]
      BY <2>1 DEF Start, BuildOk, BuildFails, Goto, TypeOK
    <3>2. ~ busy[d] /\ camera # d
      BY <3>1 DEF CameraInv
    <3>3. camera' = camera /\ busy' = busy
      <4>1. CASE Start(d) \/ BuildFails(d)
        BY <4>1 DEF Start, BuildFails
      <4>2. CASE BuildOk(d)
        BY <3>2, <4>2 DEF BuildOk, TypeOK
      <4> QED
        BY <2>1, <4>1, <4>2
    <3> QED
      BY <3>1, <3>2, <3>3 DEF CameraInv
  <2>2. CASE Crash(d)
    BY <2>2 DEF Crash, Goto, TypeOK, CameraInv
  <2>3. ASSUME NEW op \in Ops, NEW u \in Users, Call(d, op, u) PROVE CameraInv'
    BY <2>3 DEF Call, Goto, TypeOK, CameraInv
  <2>4. CASE RequireHealthy(d) \/ Unhealthy(d)
    BY <2>4 DEF RequireHealthy, Unhealthy, Answer, Goto, TypeOK, CameraInv
  <2>5. CASE LoadEnrolled(d) \/ NoEnrolledTemplate(d) \/ CheckVacant(d)
               \/ AlreadyEnrolled(d) \/ LoadFails(d)
    BY <2>5 DEF LoadEnrolled, NoEnrolledTemplate, CheckVacant, AlreadyEnrolled,
                LoadFails, Answer, Goto, TypeOK, CameraInv
  <2>6. CASE OpenCapture(d)
    BY <2>6 DEF OpenCapture, Goto, TypeOK, CameraInv
  <2>7. CASE OpenFails(d)
    BY <2>7 DEF OpenFails, Answer, Goto, TypeOK, CameraInv
  <2>8. CASE DiscardFrame(d)
    BY <2>8 DEF DiscardFrame, CameraInv
  <2>9. ASSUME NEW p \in Probe, PullProbe(d, p) PROVE CameraInv'
    <3>1. /\ pc[d] = "stream"
          /\ \/ Answer(d, "accepted") /\ DropSession(d)
             \/ UNCHANGED <<pc, response, camera, busy>>
      BY <2>9 DEF PullProbe
    <3> QED
      BY <3>1 DEF Answer, Goto, DropSession, TypeOK, CameraInv
  <2>10. ASSUME NEW p \in Probe, CollectEmbedding(d, p) PROVE CameraInv'
    BY <2>10 DEF CollectEmbedding, CameraInv
  <2>11. CASE FrameFails(d) \/ EndVerify(d) \/ NoTemplate(d)
    BY <2>11 DEF FrameFails, EndVerify, NoTemplate, Answer, Goto, DropSession,
                 TypeOK, CameraInv
  <2>12. CASE PushTemplate(d)
    BY <2>12 DEF PushTemplate, Goto, DropSession, TypeOK, CameraInv
  <2>13. CASE SaveAll(d) \/ SaveFails(d)
    BY <2>13 DEF SaveAll, SaveFails, Answer, Goto, TypeOK, CameraInv
  <2>14. CASE Respond(d)
    BY <2>14 DEF Respond, Goto, TypeOK, CameraInv
  <2> QED
    BY <1>2, <2>1, <2>2, <2>3, <2>4, <2>5, <2>6, <2>7, <2>8, <2>9, <2>10, <2>11,
       <2>12, <2>13, <2>14 DEF Step, Live, Operate, Stream
<1> QED
  BY <1>1, <1>2 DEF Next

(* However many daemons run, a process has the busy flag exactly while it  *)
(* streams, and it alone streams.                                          *)
THEOREM CameraExclusive == Spec => []CameraInv
BY TypeOKInit, TypeOKStep, CameraInvInit, CameraInvStep, PTL DEF Spec

-------------------------------------------------------------------------------
(* How far an operation can be from its answer                             *)

(* No frame is taken before the camera is open: the count restarts with    *)
(* every request, however the last operation ended.                        *)
NoneTaken == \A d \in Daemons : pc[d] \in {"health", "load", "open"} => pulled[d] = 0

LEMMA NoneTakenInit == Init => NoneTaken
BY DEF Init, NoneTaken

LEMMA NoneTakenStep == TypeOK /\ NoneTaken /\ [Next]_vars => NoneTaken'
<1> SUFFICES ASSUME TypeOK, NoneTaken, [Next]_vars PROVE NoneTaken'
  OBVIOUS
<1> USE DEF NoneTaken, Goto, Answer, TypeOK
<1>1. CASE UNCHANGED vars
  BY <1>1 DEF vars
<1>2. ASSUME NEW d \in Daemons, Step(d) PROVE NoneTaken'
  <2>1. CASE Live(d)
    BY <2>1 DEF Live, Start, BuildOk, BuildFails, Crash, Fresh, task
  <2>2. CASE Respond(d) \/ \E op \in Ops, u \in Users : Call(d, op, u)
    BY <2>2 DEF Respond, Call, Fresh, task
  <2>3. CASE RequireHealthy(d) \/ Unhealthy(d) \/ LoadEnrolled(d) \/ NoEnrolledTemplate(d)
    BY <2>3 DEF RequireHealthy, Unhealthy, LoadEnrolled, NoEnrolledTemplate
  <2>4. CASE CheckVacant(d) \/ AlreadyEnrolled(d) \/ LoadFails(d) \/ OpenCapture(d)
             \/ OpenFails(d) \/ SaveAll(d) \/ SaveFails(d)
    BY <2>4 DEF CheckVacant, AlreadyEnrolled, LoadFails, OpenCapture, OpenFails, SaveAll,
       SaveFails, task
  <2>5. CASE Stream(d)
    BY <2>5 DEF Stream, DiscardFrame, PullProbe, CollectEmbedding, FrameFails, EndVerify,
       NoTemplate, PushTemplate
  <2> QED BY <1>2, <2>1, <2>2, <2>3, <2>4, <2>5 DEF Step, Operate
<1> QED BY <1>1, <1>2 DEF Next

LEMMA OperateAdvances ==
  ASSUME TypeOK, NoneTaken, NEW d \in Daemons, Operate(d)
  PROVE  Running(d) /\ Remaining(d)' \in 0 .. Remaining(d) - 1
<1> DEFINE F == FramesToPull(d)
<1>1. /\ limits(d).warmup_discard \in Nat /\ limits(d).max_frames \in Nat /\ F \in Nat
      /\ F = limits(d).warmup_discard + limits(d).max_frames
  BY LimitsType DEF FramesToPull
<1>2. pc \in [Daemons -> Place] /\ pulled \in [Daemons -> Nat]
  BY DEF TypeOK
<1>3. ASSUME req' = req PROVE F' = F
  BY <1>3 DEF FramesToPull, limits
<1> HIDE DEF F
<1>4. Remaining(d) = CASE pc[d] = "health" -> F + 5
                       [] pc[d] = "load" -> F + 4
                       [] pc[d] = "open" -> F + 3
                       [] pc[d] = "stream" -> F - pulled[d] + 2
                       [] pc[d] = "save" -> 1
                       [] OTHER -> 0
  BY DEF Remaining, F
<1>5. Remaining(d)' = CASE pc'[d] = "health" -> F' + 5
                        [] pc'[d] = "load" -> F' + 4
                        [] pc'[d] = "open" -> F' + 3
                        [] pc'[d] = "stream" -> F' - pulled'[d] + 2
                        [] pc'[d] = "save" -> 1
                        [] OTHER -> 0
  BY DEF Remaining, F
<1>6. ASSUME Answer(d, response'[d]), pc[d] \in {"health", "load", "open", "save"}
      PROVE  Running(d) /\ Remaining(d)' \in 0 .. Remaining(d) - 1
  BY <1>1, <1>2, <1>4, <1>5, <1>6 DEF Answer, Goto, Running
<1>7. ASSUME Answer(d, response'[d]), pc[d] = "stream", pulled[d] <= F
      PROVE  Running(d) /\ Remaining(d)' \in 0 .. Remaining(d) - 1
  BY <1>1, <1>2, <1>4, <1>5, <1>7 DEF Answer, Goto, Running
<1>8. ASSUME req' = req, pc' = pc, pc[d] = "stream", pulled[d] < F,
             pulled' = [pulled EXCEPT ![d] = @ + 1]
      PROVE  Running(d) /\ Remaining(d)' \in 0 .. Remaining(d) - 1
  BY <1>1, <1>2, <1>3, <1>4, <1>5, <1>8 DEF Running
<1>9. \A r : Answer(d, r) => Answer(d, response'[d])
  BY DEF Answer, TypeOK
<1>10. CASE RequireHealthy(d)
  <2>1. CASE req[d].op = "ping"
    BY <1>6, <1>9, <1>10, <2>1 DEF RequireHealthy
  <2>2. CASE req[d].op # "ping"
    BY <1>1, <1>2, <1>3, <1>4, <1>5, <1>10, <2>2 DEF RequireHealthy, Goto, Running
  <2> QED BY <2>1, <2>2
<1>11. CASE Unhealthy(d) \/ NoEnrolledTemplate(d) \/ AlreadyEnrolled(d) \/ LoadFails(d)
            \/ OpenFails(d) \/ SaveAll(d) \/ SaveFails(d)
  BY <1>6, <1>9, <1>11 DEF Unhealthy, NoEnrolledTemplate, AlreadyEnrolled, LoadFails,
     OpenFails, SaveAll, SaveFails
<1>12. CASE LoadEnrolled(d) \/ CheckVacant(d)
  BY <1>1, <1>2, <1>3, <1>4, <1>5, <1>12 DEF LoadEnrolled, CheckVacant, task, Goto, Running
<1>13. CASE OpenCapture(d)
  <2>1. pc[d] = "open" /\ pc'[d] = "stream" /\ req' = req /\ pulled'[d] = pulled[d]
    BY <1>2, <1>13 DEF OpenCapture, task, Goto
  <2>2. /\ Remaining(d) = F + 3
        /\ Remaining(d)' = F - pulled[d] + 2
    BY <1>3, <1>4, <1>5, <2>1
  <2>3. F \in Nat /\ pulled[d] = 0
    BY <1>1, <2>1 DEF NoneTaken
  <2> QED BY <2>1, <2>2, <2>3 DEF Running
<1>14. CASE DiscardFrame(d)
  <2>1. pulled[d] < F
    BY <1>1, <1>2, <1>14 DEF DiscardFrame
  <2> QED BY <1>8, <1>14, <2>1 DEF DiscardFrame
<1>15. ASSUME NEW p \in Probe, PullProbe(d, p)
       PROVE  Running(d) /\ Remaining(d)' \in 0 .. Remaining(d) - 1
  <2>1. /\ pc[d] = "stream" /\ pulled[d] < F /\ req' = req
        /\ pulled' = [pulled EXCEPT ![d] = @ + 1]
        /\ Answer(d, "accepted") \/ pc' = pc
    BY <1>15 DEF PullProbe, F
  <2> QED BY <1>1, <1>2, <1>7, <1>8, <1>9, <2>1
<1>16. ASSUME NEW p \in Probe, CollectEmbedding(d, p)
       PROVE  Running(d) /\ Remaining(d)' \in 0 .. Remaining(d) - 1
  BY <1>8, <1>16 DEF CollectEmbedding, F
<1>17. CASE FrameFails(d) \/ EndVerify(d) \/ NoTemplate(d)
  <2>1. pc[d] = "stream" /\ pulled[d] <= F /\ \E r : Answer(d, r)
    BY <1>1, <1>2, <1>17 DEF FrameFails, EndVerify, NoTemplate, F
  <2> QED BY <1>7, <1>9, <2>1
<1>18. CASE PushTemplate(d)
  BY <1>1, <1>2, <1>4, <1>5, <1>18 DEF PushTemplate, Goto, Running, F
<1> QED
  BY <1>10, <1>11, <1>12, <1>13, <1>14, <1>15, <1>16, <1>17, <1>18 DEF Operate, Stream

(* What happens elsewhere does not touch an operation in progress.         *)
LEMMA OthersLeaveRemaining ==
  ASSUME TypeOK, NEW d \in Daemons, NEW e \in Daemons, Step(e), Running(d),
         ~ Operate(d), pc'[d] # "down"
  PROVE  UNCHANGED <<pc[d], pulled[d], req[d]>>
<1> USE DEF Running, Goto, Answer, TypeOK
<1>1. CASE Live(e)
  BY <1>1 DEF Live, Start, BuildOk, BuildFails, Crash, Fresh, task
<1>2. CASE Respond(e) \/ \E op \in Ops, u \in Users : Call(e, op, u)
  BY <1>2 DEF Respond, Call, Fresh, task
<1>3. CASE Operate(e)
  <2>1. e # d
    BY <1>3
  <2>2. CASE RequireHealthy(e) \/ Unhealthy(e) \/ LoadEnrolled(e) \/ NoEnrolledTemplate(e)
    BY <2>1, <2>2 DEF RequireHealthy, Unhealthy, LoadEnrolled, NoEnrolledTemplate
  <2>3. CASE CheckVacant(e) \/ AlreadyEnrolled(e) \/ LoadFails(e) \/ OpenCapture(e)
             \/ OpenFails(e) \/ SaveAll(e) \/ SaveFails(e)
    BY <2>1, <2>3 DEF CheckVacant, AlreadyEnrolled, LoadFails, OpenCapture, OpenFails,
       SaveAll, SaveFails, task
  <2>4. CASE Stream(e)
    BY <2>1, <2>4 DEF Stream, DiscardFrame, PullProbe, CollectEmbedding, FrameFails, EndVerify,
       NoTemplate, PushTemplate
  <2> QED BY <1>3, <2>2, <2>3, <2>4 DEF Operate
<1> QED BY <1>1, <1>2, <1>3 DEF Step

(* However many daemons run and whatever the frames show, an operation     *)
(* takes at most warmup_discard + max_frames + 5 steps to its answer: every*)
(* step of it leaves fewer, and no step of another process adds any.       *)
THEOREM OperationsAdvance == Spec => AlwaysAdvances
<1>1. ASSUME TypeOK, NoneTaken, [Next]_vars, NEW d \in Daemons, Running(d), pc'[d] # "down"
      PROVE  IF Operate(d) THEN Remaining(d)' \in 0 .. Remaining(d) - 1
                           ELSE Remaining(d)' = Remaining(d)
  <2>1. CASE Operate(d)
    BY <1>1, <2>1, OperateAdvances
  <2>2. CASE ~ Operate(d)
    <3>1. UNCHANGED <<pc[d], pulled[d], req[d]>>
      BY <1>1, <2>2, OthersLeaveRemaining DEF Next, vars
    <3> QED BY <2>2, <3>1 DEF Remaining, FramesToPull, limits
  <2> QED BY <2>1, <2>2
<1>2. TypeOK /\ NoneTaken /\ [Next]_vars =>
        [\A d \in Daemons :
           Running(d) /\ pc'[d] # "down" =>
             IF Operate(d) THEN Remaining(d)' \in 0 .. Remaining(d) - 1
                           ELSE Remaining(d)' = Remaining(d)]_vars
  BY <1>1
<1> QED
  BY <1>2, TypeOKInit, TypeOKStep, NoneTakenInit, NoneTakenStep, PTL DEF Spec, AlwaysAdvances

-------------------------------------------------------------------------------
(* One daemon: what is in memory agrees with what is on disk.              *)

(* A burst is accepted exactly when some probe of it reaches the quorum of *)
(* a non-empty bundle.                                                     *)
LEMMA EmptyBurst ==
  ASSUME NEW templates
  PROVE  ~ verify_burst(templates, <<>>)
BY DEF verify_burst

LEMMA BurstGrows ==
  ASSUME NEW templates, NEW burst \in Seq(Probe), NEW p \in Probe,
         ~ verify_burst(templates, burst),
         verify_burst(templates, Append(burst, p))
  PROVE  /\ evaluate_probe_vs_templates(p, templates)
         /\ \A i \in DOMAIN burst : ~ evaluate_probe_vs_templates(burst[i], templates)
<1> DEFINE longer == Append(burst, p)
<1>1. /\ longer[Len(burst) + 1] = p
      /\ DOMAIN longer = 1 .. Len(burst) + 1
      /\ \A i \in 1 .. Len(burst) : longer[i] = burst[i]
      /\ DOMAIN burst = 1 .. Len(burst)
      /\ Len(burst) \in Nat
  OBVIOUS
<1>2. /\ templates # <<>>
      /\ \E i \in DOMAIN longer : evaluate_probe_vs_templates(longer[i], templates)
  BY DEF verify_burst
<1>3. \A i \in DOMAIN burst : ~ evaluate_probe_vs_templates(burst[i], templates)
  BY <1>2 DEF verify_burst
<1>4. PICK i \in DOMAIN longer : evaluate_probe_vs_templates(longer[i], templates)
  BY <1>2
<1>5. i \notin DOMAIN burst
  BY <1>1, <1>3, <1>4
<1>6. i = Len(burst) + 1
  BY <1>1, <1>5
<1> QED
  BY <1>1, <1>3, <1>4, <1>6

LEMMA OperationInit == Init => OperationInv
BY DEF Init, OperationInv

(* What a verify that goes on after a frame has to show.                   *)
LEMMA VerifyContinues ==
  ASSUME NEW d \in Daemons, \A e \in Daemons : e = d,
         UNCHANGED req, req[d].op = "verify", pc'[d] = "stream",
         bundle'[d] = store'[req[d].user], store'[req[d].user] # <<>>,
         limits(d).max_frames # 0, pulled'[d] <= FramesToPull(d),
         Len(probes'[d]) = IF pulled'[d] <= limits(d).warmup_discard THEN 0
                           ELSE pulled'[d] - limits(d).warmup_discard,
         ~ verify_burst(bundle'[d], probes'[d])
  PROVE  OperationInv'
BY DEF OperationInv, limits, FramesToPull

(* The same for the captures that become a template.                       *)
LEMMA CaptureContinues ==
  ASSUME NEW d \in Daemons, \A e \in Daemons : e = d,
         UNCHANGED req, req[d].op \notin {"verify", "ping"}, pc'[d] = "stream",
         bundle'[d] = store'[req[d].user],
         req[d].op = "enroll" <=> store'[req[d].user] = <<>>,
         limits(d).max_frames # 0, pulled'[d] <= FramesToPull(d)
  PROVE  OperationInv'
BY DEF OperationInv, limits, FramesToPull

LEMMA OperationStep ==
  ASSUME OneDaemon, TypeOK, OperationInv, [Next]_vars
  PROVE  OperationInv'
<1>1. CASE UNCHANGED vars
  BY <1>1 DEF OperationInv, vars, limits, FramesToPull
<1>2. ASSUME NEW d \in Daemons, Step(d) PROVE OperationInv'
  <2>0. \A e \in Daemons : e = d
    BY DEF OneDaemon
  <2> USE <2>0
  <2>1. CASE Live(d)
    BY <2>1 DEF Live, Start, BuildOk, BuildFails, Crash, Goto, TypeOK, OperationInv
  <2>2. ASSUME NEW op \in Ops, NEW u \in Users, Call(d, op, u) PROVE OperationInv'
    BY <2>2 DEF Call, Fresh, Goto, TypeOK, OperationInv
  <2>3. CASE RequireHealthy(d) \/ Unhealthy(d)
    BY <2>3 DEF RequireHealthy, Unhealthy, Answer, Goto, TypeOK, OperationInv
  <2>4. CASE NoEnrolledTemplate(d) \/ AlreadyEnrolled(d) \/ LoadFails(d)
             \/ OpenFails(d)
    BY <2>4 DEF NoEnrolledTemplate, AlreadyEnrolled, LoadFails, OpenFails, Answer,
                Goto, TypeOK, OperationInv
  <2>5. CASE LoadEnrolled(d) \/ CheckVacant(d)
    BY <2>5 DEF LoadEnrolled, CheckVacant, Goto, task, TypeOK, OperationInv
  <2>6. CASE OpenCapture(d)
    <3>1. /\ probes[d] = <<>>
          /\ pulled[d] = 0
      BY <2>6 DEF OpenCapture, OperationInv
    <3>2. limits(d)' = limits(d) /\ FramesToPull(d)' = FramesToPull(d)
      BY <2>6 DEF OpenCapture, task, limits, FramesToPull
    <3> QED
      BY <2>6, <3>1, <3>2, LimitsType, EmptyBurst
      DEF OpenCapture, Goto, task, TypeOK, OperationInv
  <2>7. CASE DiscardFrame(d)
    <3>1. /\ pulled'[d] = pulled[d] + 1
          /\ pulled[d] \in Nat
          /\ pulled[d] < limits(d).warmup_discard
          /\ pc[d] = "stream"
          /\ UNCHANGED <<store, pc, req, bundle, probes>>
      BY <2>7 DEF DiscardFrame, TypeOK
    <3>2. /\ pulled'[d] <= limits(d).warmup_discard
          /\ pulled'[d] <= FramesToPull(d)
          /\ pulled[d] <= limits(d).warmup_discard
      BY <3>1, LimitsType DEF FramesToPull
    <3>3. /\ bundle[d] = store[req[d].user]
          /\ req[d].op = "enroll" <=> store[req[d].user] = <<>>
          /\ limits(d).max_frames # 0
          /\ req[d].op # "ping"
          /\ req[d].op = "verify" => Len(probes[d]) = 0 /\ ~ verify_burst(bundle[d], probes[d])
      BY <3>1, <3>2 DEF OperationInv
    <3>4. CASE req[d].op = "verify"
      BY <3>1, <3>2, <3>3, <3>4, VerifyContinues
    <3>5. CASE req[d].op # "verify"
      BY <3>1, <3>2, <3>3, <3>5, CaptureContinues
    <3> QED
      BY <3>4, <3>5
  <2>8. ASSUME NEW p \in Probe, PullProbe(d, p) PROVE OperationInv'
    <3>1. /\ pulled'[d] = pulled[d] + 1
          /\ probes'[d] = Append(probes[d], p)
          /\ Len(probes'[d]) = Len(probes[d]) + 1
          /\ UNCHANGED <<store, req, bundle>>
          /\ pc[d] = "stream"
          /\ req[d].op = "verify"
          /\ limits(d).warmup_discard <= pulled[d]
          /\ pulled[d] < FramesToPull(d)
      BY <2>8 DEF PullProbe, TypeOK
    <3>2. limits(d)' = limits(d) /\ FramesToPull(d)' = FramesToPull(d)
      BY <3>1 DEF limits, FramesToPull
    <3>3. CASE verify_burst(bundle[d], probes'[d])
      <4>1. pc'[d] = "reply"
        BY <2>8, <3>3 DEF PullProbe, Answer, Goto, TypeOK
      <4> QED
        BY <4>1 DEF OperationInv
    <3>4. CASE ~ verify_burst(bundle[d], probes'[d])
      <4>1. pc' = pc
        BY <2>8, <3>4 DEF PullProbe
      <4>2. pulled[d] \in Nat /\ Len(probes[d]) \in Nat
        BY DEF TypeOK
      <4>3. Len(probes'[d]) = IF pulled'[d] <= limits(d).warmup_discard THEN 0
                              ELSE pulled'[d] - limits(d).warmup_discard
        BY <3>1, <4>2, LimitsType DEF OperationInv
      <4>4. pulled'[d] <= FramesToPull(d)
        BY <3>1, <4>2, LimitsType
      <4>5. /\ bundle[d] = store[req[d].user]
            /\ store[req[d].user] # <<>>
            /\ limits(d).max_frames # 0
        BY <3>1 DEF OperationInv
      <4>6. /\ pc'[d] = "stream"
            /\ bundle'[d] = store'[req[d].user]
            /\ store'[req[d].user] # <<>>
            /\ UNCHANGED req
        BY <3>1, <4>1, <4>5
      <4> QED
        BY <3>1, <3>4, <4>3, <4>4, <4>5, <4>6, VerifyContinues
    <3> QED
      BY <3>3, <3>4
  <2>9. ASSUME NEW p \in Probe, CollectEmbedding(d, p) PROVE OperationInv'
    <3>1. /\ pulled'[d] = pulled[d] + 1
          /\ pulled[d] \in Nat
          /\ pulled[d] < FramesToPull(d)
          /\ pc[d] = "stream"
          /\ req[d].op # "verify"
          /\ UNCHANGED <<store, pc, req, bundle>>
      BY <2>9 DEF CollectEmbedding, TypeOK
    <3>2. pulled'[d] <= FramesToPull(d)
      BY <3>1, LimitsType
    <3>3. /\ bundle[d] = store[req[d].user]
          /\ req[d].op = "enroll" <=> store[req[d].user] = <<>>
          /\ limits(d).max_frames # 0
          /\ req[d].op # "ping"
      BY <3>1 DEF OperationInv
    <3> QED
      BY <3>1, <3>2, <3>3, CaptureContinues
  <2>10. CASE FrameFails(d) \/ EndVerify(d) \/ NoTemplate(d)
    BY <2>10 DEF FrameFails, EndVerify, NoTemplate, Answer, Goto, TypeOK, OperationInv
  <2>11. CASE PushTemplate(d)
    <3>1. PICK t \in try_average(probes[d]) :
            bundle' = [bundle EXCEPT ![d] = Append(@, t)]
      BY <2>11 DEF PushTemplate
    <3>2. t \in Embedding
      BY <2>11, <3>1, TryAverageType DEF PushTemplate, TypeOK
    <3>3. bundle'[d] = Append(store[req[d].user], t)
      BY <2>11, <3>1 DEF PushTemplate, TypeOK, OperationInv
    <3> QED
      BY <2>11, <3>2, <3>3 DEF PushTemplate, Goto, TypeOK, OperationInv
  <2>12. CASE SaveAll(d) \/ SaveFails(d) \/ Respond(d)
    BY <2>12 DEF SaveAll, SaveFails, Respond, Answer, Goto, TypeOK, OperationInv
  <2> QED
    BY <1>2, <2>1, <2>2, <2>3, <2>4, <2>5, <2>6, <2>7, <2>8, <2>9, <2>10, <2>11,
       <2>12 DEF Step, Operate, Stream
<1> QED
  BY <1>1, <1>2 DEF Next

-------------------------------------------------------------------------------

ReplyInv == AcceptSound /\ RejectComplete

LEMMA ReplyInit == Init => ReplyInv
BY DEF Init, ReplyInv, AcceptSound, RejectComplete, Done

(* The two answers of verify are the only ones that promise anything; the  *)
(* other steps leave a reply alone or end it.                              *)
LEMMA ReplyStep ==
  ASSUME OneDaemon, TypeOK, OperationInv, ReplyInv, [Next]_vars
  PROVE  ReplyInv'
<1> USE DEF ReplyInv, AcceptSound, RejectComplete, Done
<1>1. CASE UNCHANGED vars
  BY <1>1 DEF vars, limits
<1>2. ASSUME NEW d \in Daemons, Step(d) PROVE ReplyInv'
  <2>0. \A e \in Daemons : e = d
    BY DEF OneDaemon
  <2> USE <2>0
  <2>1. ASSUME pc'[d] # "reply" \/ response'[d] \in {"pong", "error"} PROVE ReplyInv'
    BY <2>1
  <2>2. CASE Live(d)
    BY <2>1, <2>2 DEF Live, Start, BuildOk, BuildFails, Crash, Goto, TypeOK
  <2>3. ASSUME NEW op \in Ops, NEW u \in Users, Call(d, op, u) PROVE ReplyInv'
    BY <2>1, <2>3 DEF Call, Goto, TypeOK
  <2>4. CASE RequireHealthy(d) \/ Unhealthy(d) \/ NoEnrolledTemplate(d)
             \/ AlreadyEnrolled(d) \/ LoadFails(d) \/ OpenFails(d)
             \/ FrameFails(d) \/ NoTemplate(d) \/ SaveFails(d)
    BY <2>1, <2>4 DEF RequireHealthy, Unhealthy, NoEnrolledTemplate, AlreadyEnrolled,
       LoadFails, OpenFails, FrameFails, NoTemplate, SaveFails, Answer, Goto, TypeOK
  <2>5. CASE LoadEnrolled(d) \/ CheckVacant(d) \/ OpenCapture(d) \/ PushTemplate(d)
             \/ Respond(d)
    BY <2>1, <2>5 DEF LoadEnrolled, CheckVacant, OpenCapture, PushTemplate, Respond,
       Goto, TypeOK
  <2>6. CASE DiscardFrame(d)
    BY <2>1, <2>6 DEF DiscardFrame
  <2>7. ASSUME NEW p \in Probe, CollectEmbedding(d, p) PROVE ReplyInv'
    BY <2>1, <2>7 DEF CollectEmbedding
  <2>8. ASSUME NEW p \in Probe, PullProbe(d, p) PROVE ReplyInv'
    <3>1. CASE ~ verify_burst(bundle[d], probes'[d])
      BY <2>1, <2>8, <3>1 DEF PullProbe
    <3>2. CASE verify_burst(bundle[d], probes'[d])
      <4> DEFINE n == Len(probes[d])
                 templates == store[req[d].user]
      <4>1. /\ probes[d] \in Seq(Probe)
            /\ probes'[d] = Append(probes[d], p)
            /\ pulled[d] \in Nat
            /\ UNCHANGED <<store, req, bundle>>
            /\ pc[d] = "stream"
            /\ req[d].op = "verify"
            /\ limits(d).warmup_discard <= pulled[d]
            /\ pulled[d] < FramesToPull(d)
            /\ response'[d] = "accepted"
        BY <2>8, <3>2 DEF PullProbe, Answer, TypeOK
      <4>2. bundle[d] = templates /\ ~ verify_burst(bundle[d], probes[d])
        BY <4>1 DEF OperationInv
      <4>3. /\ evaluate_probe_vs_templates(p, templates)
            /\ \A i \in DOMAIN probes[d] :
                 ~ evaluate_probe_vs_templates(probes[d][i], templates)
        BY <3>2, <4>1, <4>2, BurstGrows
      <4>4. /\ Len(probes'[d]) = n + 1
            /\ probes'[d][n + 1] = p
            /\ \A i \in 1 .. n : i \in DOMAIN probes[d] /\ probes'[d][i] = probes[d][i]
            /\ n \in Nat
        BY <4>1
      <4>5. n = pulled[d] - limits(d).warmup_discard
        BY <4>1, LimitsType DEF OperationInv
      <4>6. n + 1 \in 1 .. limits(d).max_frames
        BY <4>1, <4>4, <4>5, LimitsType DEF FramesToPull
      <4>7. limits(d)' = limits(d) /\ store'[req'[d].user] = templates
        BY <4>1 DEF limits
      <4>8. AcceptSound'
        <5>1. /\ Len(probes'[d]) \in 1 .. limits(d).max_frames
              /\ evaluate_probe_vs_templates(probes'[d][Len(probes'[d])], templates)
          BY <4>3, <4>4, <4>6
        <5>2. \A i \in 1 .. Len(probes'[d]) - 1 :
                 ~ evaluate_probe_vs_templates(probes'[d][i], templates)
          BY <4>3, <4>4
        <5> QED
          BY <4>7, <5>1, <5>2
      <4>9. RejectComplete'
        BY <4>1
      <4> QED
        BY <4>8, <4>9
    <3> QED
      BY <3>1, <3>2
  <2>9. CASE EndVerify(d)
    <3>1. /\ probes[d] \in Seq(Probe)
          /\ pc[d] = "stream"
          /\ req[d].op = "verify"
          /\ pulled[d] = FramesToPull(d)
          /\ UNCHANGED <<store, req, bundle, probes>>
      BY <2>9 DEF EndVerify, TypeOK
    <3>2. /\ bundle[d] = store[req[d].user]
          /\ bundle[d] # <<>>
          /\ ~ verify_burst(bundle[d], probes[d])
          /\ Len(probes[d]) = IF pulled[d] <= limits(d).warmup_discard THEN 0
                              ELSE pulled[d] - limits(d).warmup_discard
      BY <3>1 DEF OperationInv
    <3>3. response'[d] = "rejected"
      BY <2>9, <3>2 DEF EndVerify, Answer, TypeOK
    <3>4. Len(probes[d]) = limits(d).max_frames
      BY <3>1, <3>2, LimitsType DEF FramesToPull
    <3>5. \A i \in DOMAIN probes[d] :
             ~ evaluate_probe_vs_templates(probes[d][i], store[req[d].user])
      BY <3>2 DEF verify_burst
    <3>6. limits(d)' = limits(d)
      BY <3>1 DEF limits
    <3> QED
      BY <3>1, <3>3, <3>4, <3>5, <3>6
  <2>10. CASE SaveAll(d)
    <3>1. response'[d] \in {"enroll_ok", "add_template_ok"}
      BY <2>10 DEF SaveAll, Answer, TypeOK
    <3> QED
      BY <3>1
  <2> QED
    BY <1>2, <2>2, <2>3, <2>4, <2>5, <2>6, <2>7, <2>8, <2>9, <2>10
    DEF Step, Operate, Stream
<1> QED
  BY <1>1, <1>2 DEF Next

IInv == TypeOK /\ OperationInv /\ ReplyInv

LEMMA Inductive ==
  ASSUME OneDaemon
  PROVE  Spec => []IInv
<1>1. Init => IInv
  BY TypeOKInit, OperationInit, ReplyInit DEF IInv
<1>2. IInv /\ [Next]_vars => IInv'
  BY TypeOKStep, OperationStep, ReplyStep DEF IInv
<1> QED
  BY <1>1, <1>2, PTL DEF Spec

(* With one daemon the captured state of every operation agrees with the   *)
(* disk at each of its steps.                                              *)
THEOREM OperationsConsistent ==
  ASSUME OneDaemon
  PROVE  Spec => []OperationInv
BY Inductive, PTL DEF IInv

(* With one daemon every accept is backed by a probe of this burst, the    *)
(* first to reach the quorum of the templates on disk.                     *)
THEOREM VerifySound ==
  ASSUME OneDaemon
  PROVE  Spec => []AcceptSound
BY Inductive, PTL DEF IInv, ReplyInv

(* With one daemon every reject has seen the whole burst and found no      *)
(* probe that reaches the quorum.                                          *)
THEOREM VerifyComplete ==
  ASSUME OneDaemon
  PROVE  Spec => []RejectComplete
BY Inductive, PTL DEF IInv, ReplyInv

-------------------------------------------------------------------------------

LEMMA AppendOnly ==
  ASSUME OneDaemon, IInv, [Next]_vars, NEW u \in Users
  PROVE  \/ store'[u] = store[u]
         \/ \E t \in Embedding : store'[u] = Append(store[u], t)
<1>1. CASE UNCHANGED vars
  BY <1>1 DEF vars
<1>2. ASSUME NEW d \in Daemons, Step(d)
      PROVE  store' = store \/ SaveAll(d)
  BY <1>2 DEF Step, Live, Start, BuildOk, BuildFails, Crash, Call, Operate,
     RequireHealthy, Unhealthy, LoadEnrolled, NoEnrolledTemplate, CheckVacant,
     AlreadyEnrolled, LoadFails, OpenCapture, OpenFails, Stream, DiscardFrame,
     PullProbe, CollectEmbedding, FrameFails, EndVerify, NoTemplate, PushTemplate,
     SaveFails, Respond
<1>3. ASSUME NEW d \in Daemons, SaveAll(d)
      PROVE  \/ store'[u] = store[u]
             \/ \E t \in Embedding : store'[u] = Append(store[u], t)
  <2>1. store' = [store EXCEPT ![req[d].user] = bundle[d]] /\ pc[d] = "save"
    BY <1>3 DEF SaveAll
  <2>2. \E t \in Embedding : bundle[d] = Append(store[req[d].user], t)
    BY <2>1 DEF IInv, OperationInv
  <2> QED
    BY <2>1, <2>2 DEF IInv, TypeOK
<1> QED
  BY <1>1, <1>2, <1>3 DEF Next

(* With one daemon no step of any operation, crash or restart removes or   *)
(* reorders a template, however long ago the operation read the bundle.    *)
THEOREM TemplatesKept ==
  ASSUME OneDaemon
  PROVE  Spec => NeverLosesTemplates
<1>1. IInv /\ [Next]_vars =>
        [\A u \in Users :
           \/ store'[u] = store[u]
           \/ \E t \in Embedding : store'[u] = Append(store[u], t)]_vars
  BY AppendOnly
<1> QED
  BY <1>1, Inductive, PTL DEF Spec, NeverLosesTemplates

-------------------------------------------------------------------------------
(* Refinement of FaceAuth: a step that fixes an answer is an operation of  *)
(* FaceAuth, one that ends a reply is Quiet, the others are stuttering.    *)

LEMMA GiveStep ==
  ASSUME TypeOK, NEW d \in Daemons, NEW r \in Response,
         pc[d] # "reply", Answer(d, r), req' = req
  PROVE  Auth!Give(d, r, req[d].user)
<1>1. answering[d] = Auth!Silent
  BY DEF answering, Auth!Silent
<1>2. answering' = [answering EXCEPT ![d] = Auth!Answers(r, req[d].user)]
  BY DEF answering, Auth!Answers, Answer, Goto, TypeOK
<1> QED
  BY <1>1, <1>2 DEF Auth!Give

LEMMA NoEffectStep ==
  ASSUME TypeOK, NEW d \in Daemons, NEW r \in {"pong", "error"},
         pc[d] # "reply", Answer(d, r), req' = req, store' = store
  PROVE  Auth!AuthStep(d)
<1>1. Auth!Give(d, r, req[d].user)
  BY GiveStep
<1>2. req[d].user \in Users
  BY DEF TypeOK
<1> QED
  BY <1>1, <1>2 DEF Auth!AuthStep, Auth!NoEffect

LEMMA SilentStep ==
  ASSUME TypeOK, NEW d \in Daemons, store' = store,
         pc' = [pc EXCEPT ![d] = pc'[d]], pc'[d] # "reply",
         \A e \in Daemons : e # d => req'[e] = req[e] /\ response'[e] = response[e]
  PROVE  Auth!AuthStep(d)
<1>1. answering' = [answering EXCEPT ![d] = Auth!Silent]
  BY DEF answering, Auth!Silent, TypeOK
<1> QED
  BY <1>1 DEF Auth!AuthStep, Auth!Quiet

LEMMA AuthInit == Init => Auth!AuthInit
BY DEF Init, Auth!AuthInit, answering, Auth!Silent

LEMMA AuthStep ==
  ASSUME OneDaemon, IInv, [Next]_vars
  PROVE  [\E d \in Daemons : Auth!AuthStep(d)]_(Auth!authVars)
<1> TypeOK
  BY DEF IInv
<1>1. CASE UNCHANGED vars
  BY <1>1 DEF vars, Auth!authVars, answering
<1>2. ASSUME NEW d \in Daemons, Step(d)
      PROVE  Auth!AuthStep(d) \/ UNCHANGED Auth!authVars
  <2>1. CASE Live(d)
    BY <2>1, SilentStep DEF Live, Start, BuildOk, BuildFails, Crash, Goto, task, TypeOK
  <2>2. ASSUME NEW op \in Ops, NEW u \in Users, Call(d, op, u) PROVE Auth!AuthStep(d)
    BY <2>2, SilentStep DEF Call, Goto, TypeOK
  <2>3. CASE LoadEnrolled(d) \/ CheckVacant(d) \/ OpenCapture(d) \/ PushTemplate(d)
             \/ Respond(d)
    BY <2>3, SilentStep DEF LoadEnrolled, CheckVacant, OpenCapture, PushTemplate,
       Respond, Goto, task, TypeOK
  <2>4. CASE RequireHealthy(d)
    <3>1. CASE req[d].op = "ping"
      BY <2>4, <3>1, NoEffectStep DEF RequireHealthy
    <3>2. CASE req[d].op # "ping"
      BY <2>4, <3>2, SilentStep DEF RequireHealthy, Goto, TypeOK
    <3> QED BY <3>1, <3>2
  <2>5. CASE Unhealthy(d) \/ NoEnrolledTemplate(d) \/ AlreadyEnrolled(d)
             \/ LoadFails(d) \/ OpenFails(d)
    BY <2>5, NoEffectStep DEF Unhealthy, NoEnrolledTemplate, AlreadyEnrolled,
       LoadFails, OpenFails
  <2>6. CASE FrameFails(d) \/ NoTemplate(d) \/ SaveFails(d)
    BY <2>6, NoEffectStep DEF FrameFails, NoTemplate, SaveFails
  <2>7. CASE DiscardFrame(d)
    BY <2>7 DEF DiscardFrame, Auth!authVars, answering
  <2>8. ASSUME NEW p \in Probe, CollectEmbedding(d, p) PROVE UNCHANGED Auth!authVars
    BY <2>8 DEF CollectEmbedding, Auth!authVars, answering
  <2>9. ASSUME NEW p \in Probe, PullProbe(d, p)
        PROVE  Auth!AuthStep(d) \/ UNCHANGED Auth!authVars
    <3>1. CASE ~ verify_burst(bundle[d], probes'[d])
      BY <2>9, <3>1 DEF PullProbe, Auth!authVars, answering
    <3>2. CASE verify_burst(bundle[d], probes'[d])
      <4>1. /\ probes[d] \in Seq(Probe)
            /\ probes'[d] = Append(probes[d], p)
            /\ UNCHANGED <<store, req>>
            /\ pc[d] = "stream"
            /\ req[d].op = "verify"
            /\ Answer(d, "accepted")
        BY <2>9, <3>2 DEF PullProbe, TypeOK
      <4>2. bundle[d] = store[req[d].user] /\ ~ verify_burst(bundle[d], probes[d])
        BY <4>1 DEF IInv, OperationInv
      <4>3. evaluate_probe_vs_templates(p, store[req[d].user])
        BY <3>2, <4>1, <4>2, BurstGrows
      <4>4. p \in Embedding
        BY <4>3 DEF evaluate_probe_vs_templates, Probe
      <4>5. Auth!Give(d, "accepted", req[d].user)
        BY <4>1, GiveStep
      <4>6. Auth!Accept(d, req[d].user)
        BY <4>1, <4>3, <4>4, <4>5 DEF Auth!Accept
      <4>7. req[d].user \in Users
        BY DEF TypeOK
      <4> QED
        BY <4>6, <4>7 DEF Auth!AuthStep
    <3> QED BY <3>1, <3>2
  <2>10. CASE EndVerify(d)
    <3>1. /\ bundle[d] = store[req[d].user]
          /\ store[req[d].user] # <<>>
          /\ ~ verify_burst(bundle[d], probes[d])
      BY <2>10 DEF EndVerify, IInv, OperationInv
    <3>2. Auth!Give(d, "rejected", req[d].user)
      BY <2>10, <3>1, GiveStep DEF EndVerify
    <3>3. req[d].user \in Users
      BY DEF TypeOK
    <3> QED
      BY <2>10, <3>1, <3>2, <3>3 DEF EndVerify, Auth!AuthStep, Auth!Reject
  <2>11. CASE SaveAll(d)
    <3> DEFINE u == req[d].user
    <3>1. /\ pc[d] = "save"
          /\ req' = req
          /\ store' = [store EXCEPT ![u] = bundle[d]]
          /\ Answer(d, IF req[d].op = "enroll" THEN "enroll_ok" ELSE "add_template_ok")
      BY <2>11 DEF SaveAll
    <3>2. PICK t \in Embedding : bundle[d] = Append(store[u], t)
      BY <3>1 DEF IInv, OperationInv
    <3>3. req[d].op = "enroll" <=> store[u] = <<>>
      BY <3>1 DEF IInv, OperationInv
    <3>4. u \in Users /\ store[u] \in Seq(Embedding)
      BY DEF TypeOK
    <3>5. CASE req[d].op = "enroll"
      <4>1. Auth!Give(d, "enroll_ok", u)
        BY <3>1, <3>5, GiveStep
      <4>2. store[u] = <<>>
        BY <3>3, <3>5
      <4>3. Append(<<>>, t) = <<t>>
        OBVIOUS
      <4>4. bundle[d] = <<t>>
        BY <3>2, <4>2, <4>3
      <4> QED
        BY <3>1, <3>4, <4>1, <4>2, <4>4 DEF Auth!AuthStep, Auth!EnrollUser
    <3>6. CASE req[d].op # "enroll"
      <4>1. Auth!Give(d, "add_template_ok", u)
        BY <3>1, <3>6, GiveStep
      <4>2. store[u] # <<>> /\ store' = [store EXCEPT ![u] = Append(@, t)]
        BY <3>1, <3>2, <3>3, <3>6
      <4> QED
        BY <3>4, <4>1, <4>2 DEF Auth!AuthStep, Auth!AddTemplate
    <3> QED BY <3>5, <3>6
  <2> QED
    BY <1>2, <2>1, <2>2, <2>3, <2>4, <2>5, <2>6, <2>7, <2>8, <2>9, <2>10, <2>11
    DEF Step, Operate, Stream
<1> QED
  BY <1>1, <1>2 DEF Next

(* With one daemon the whole protocol of steps, failures and crashes looks *)
(* to its callers like the atomic operations of FaceAuth.                  *)
THEOREM RefinesFaceAuth ==
  ASSUME OneDaemon
  PROVE  Spec => ImplementsFaceAuth
BY Inductive, AuthInit, AuthStep, PTL DEF Spec, ImplementsFaceAuth, Auth!AuthSpec

===============================================================================
