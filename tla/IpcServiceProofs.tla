--------------------------- MODULE IpcServiceProofs ---------------------------
(***************************************************************************)
(* Theorems about IpcService: that a reply reaches the caller whose        *)
(* request it answers, and what a login and an exit code rest on, for any  *)
(* number of daemons and clients; and, for one daemon, that templates are  *)
(* accounted for and that the service implements AuthService.              *)
(***************************************************************************)
EXTENDS IpcService, TrueIdAppProofs, FiniteSetTheorems

(* A step of the service is one of the application core, or leaves the     *)
(* variables of TrueIdApp alone.                                           *)
LEMMA AppStep ==
  ASSUME IpcTypeOK, [IpcNext]_allVars
  PROVE  [Next]_vars
<1>1. CASE UNCHANGED allVars
  BY <1>1 DEF allVars
<1>2. ASSUME NEW d \in Daemons, DaemonStep(d) PROVE [Next]_vars
  <2>1. CASE StartDaemon(d) \/ Listen(d) \/ StartFails(d) \/ Die(d) \/ Work(d) \/ WriteReply(d)
    BY <2>1 DEF StartDaemon, Listen, StartFails, Die, Work, WriteReply, Next, Step, Live
  <2>2. CASE Accept(d) \/ ReadEof(d)
    BY <2>2 DEF Accept, ReadEof
  <2>3. CASE ReadRequest(d)
    <3>1. asked[current[d]] \in [op : Ops, user : Users]
      BY <2>3, NoConnAssumption DEF ReadRequest, IpcTypeOK, Request
    <3> QED BY <2>3, <3>1 DEF ReadRequest, Next, Step
  <2> QED BY <1>2, <2>1, <2>2, <2>3 DEF DaemonStep, ServeStep
<1>3. ASSUME NEW c \in Clients, ClientStep(c) PROVE [Next]_vars
  BY <1>3 DEF ClientStep, NoUserName, LookupFails, Connect, SendRequest, Receive, GiveUp, Hangup
<1> QED BY <1>1, <1>2, <1>3 DEF IpcNext

-------------------------------------------------------------------------------
(* Types                                                                   *)

Types == TypeOK /\ IpcTypeOK

LEMMA TypesInit == IpcInit => Types
<1> SUFFICES ASSUME IpcInit PROVE Types
  OBVIOUS
<1>1. TypeOK
  BY TypeOKInit DEF IpcInit
<1>2. <<>> \in Seq(Conn) /\ 0 \in 0 .. MaxAttempts
  BY ClientsAssumption
<1> QED BY <1>1, <1>2 DEF Types, IpcInit, IpcTypeOK, Outcome

(* A client that waits has a connection.                                   *)
LEMMA MineIsConn ==
  ASSUME IpcTypeOK, NEW c \in Clients, attempt[c] # 0
  PROVE  Mine(c) \in Conn
BY DEF IpcTypeOK, Mine, Conn

LEMMA MayAskType ==
  ASSUME NEW c \in Clients, NEW r \in MayAsk(c)
  PROVE  r \in Request
BY ClientsAssumption DEF MayAsk, IsPam, Request, Ops

LEMMA TypesStep ==
  ASSUME Types, [IpcNext]_allVars
  PROVE  Types'
<1>0. TypeOK'
  BY AppStep, TypeOKStep DEF Types
<1>1. CASE UNCHANGED allVars
  <2>1. IpcTypeOK'
    BY <1>1 DEF Types, IpcTypeOK, allVars, ipc
  <2> QED BY <1>0, <2>1 DEF Types
<1>2. ASSUME NEW d \in Daemons, DaemonStep(d) PROVE IpcTypeOK'
  <2> USE DEF Types, IpcTypeOK
  <2>1. CASE StartDaemon(d) \/ Listen(d)
    BY <2>1 DEF StartDaemon, Listen
  <2>2. CASE StartFails(d) \/ ReadRequest(d) \/ Work(d)
    BY <2>2 DEF StartFails, ReadRequest, Work, ipc
  <2>3. CASE Die(d)
    <3>1. <<>> \in Seq(Conn)
      OBVIOUS
    <3> QED BY <2>3, <3>1 DEF Die, Outcome
  <2>4. CASE Accept(d)
    <3>1. Head(backlog[d]) \in Conn /\ Tail(backlog[d]) \in Seq(Conn)
      BY <2>4 DEF Accept
    <3> QED BY <2>4, <3>1 DEF Accept
  <2>5. CASE ReadEof(d)
    BY <2>5 DEF ReadEof
  <2>6. CASE WriteReply(d)
    <3>1. response[d] \in Outcome
      BY DEF TypeOK, Outcome
    <3> QED BY <2>6, <3>1 DEF WriteReply
  <2> QED BY <1>2, <2>1, <2>2, <2>3, <2>4, <2>5, <2>6 DEF DaemonStep, ServeStep
<1>3. ASSUME NEW c \in Clients, ClientStep(c) PROVE IpcTypeOK'
  <2> USE DEF Types, IpcTypeOK
  <2>1. CASE NoUserName(c) \/ LookupFails(c)
    <3>1. attempt[c] + 1 \in 1 .. MaxAttempts
      BY <2>1, ClientsAssumption DEF NoUserName, LookupFails
    <3>2. PICK result \in Outcome \ {"none"} :
            /\ attempt' = [attempt EXCEPT ![c] = @ + 1]
            /\ outcome' = [outcome EXCEPT ![c] = result]
            /\ UNCHANGED <<vars, path, backlog, current, asked, gone, reply>>
      BY <2>1 DEF NoUserName, LookupFails, Outcome
    <3> QED BY <3>1, <3>2
  <2>2. CASE Connect(c)
    <3>1. attempt[c] + 1 \in 1 .. MaxAttempts
      BY <2>2, ClientsAssumption DEF Connect
    <3>2. <<c, attempt[c] + 1>> \in Conn
      BY <3>1 DEF Conn
    <3>3. path \in Daemons => Append(backlog[path], <<c, attempt[c] + 1>>) \in Seq(Conn)
      BY <3>2
    <3>4. backlog' \in [Daemons -> Seq(Conn)]
      BY <2>2, <3>3 DEF Connect
    <3>5. /\ outcome' \in [Clients -> Outcome]
          /\ outcome'[c] # "none"
          /\ \A b \in Clients \ {c} : outcome'[b] = outcome[b]
      BY <2>2 DEF Connect, Outcome
    <3>6. /\ attempt' \in [Clients -> 0 .. MaxAttempts]
          /\ attempt'[c] # 0
          /\ \A b \in Clients \ {c} : attempt'[b] = attempt[b]
      BY <2>2, <3>1 DEF Connect
    <3> QED BY <2>2, <3>4, <3>5, <3>6 DEF Connect
  <2>3. ASSUME NEW r \in MayAsk(c), SendRequest(c, r) PROVE IpcTypeOK'
    BY <2>3, MayAskType DEF SendRequest
  <2>4. CASE Receive(c) \/ GiveUp(c)
    <3>1. Mine(c) \in Conn /\ reply[Mine(c)] \in Outcome
      BY <2>4, MineIsConn DEF Receive, GiveUp, Pending
    <3>2. PICK result \in Outcome \ {"none"} : Hangup(c, result)
      BY <2>4, <3>1 DEF Receive, GiveUp, Outcome
    <3>3. attempt[c] # 0
      BY <2>4 DEF Receive, GiveUp, Pending
    <3> QED BY <3>1, <3>2, <3>3 DEF Hangup
  <2> QED BY <1>3, <2>1, <2>2, <2>3, <2>4 DEF ClientStep
<1> QED BY <1>0, <1>1, <1>2, <1>3 DEF Types, IpcNext

(* Every variable of the service holds values of its type, for any number  *)
(* of daemons, clients and attempts.                                       *)
THEOREM IpcTypeCorrect == IpcSpec => []IpcTypeOK
BY TypesInit, TypesStep, PTL DEF IpcSpec, Types

-------------------------------------------------------------------------------
(* Connections                                                             *)

Working(d) == pc[d] \notin {"down", "starting", "idle"}

Made == {k \in Conn : k[2] <= attempt[k[1]]}

(* A connection that is not made yet is blank.                             *)
UnmadeBlank == \A k \in Conn : k \notin Made => reply[k] = "none" /\ asked[k] = NoRequest

(* What a daemon has in hand: nothing before it listens, the connection it *)
(* works for, and no connection that already has its reply.                *)
HeldInv ==
  /\ path \in Daemons => pc[path] \notin {"down", "starting"}
  /\ \A d \in Daemons :
       /\ pc[d] \in {"down", "starting"} => current[d] = NoConn /\ backlog[d] = <<>>
       /\ Working(d) => current[d] # NoConn /\ req[d] = asked[current[d]]
       /\ current[d] # NoConn => current[d] \in Made /\ reply[current[d]] = "none"
       /\ \A i \in DOMAIN backlog[d] : backlog[d][i] \in Made /\ reply[backlog[d][i]] = "none"

(* No connection is in two places.                                         *)
Apart ==
  \A d, e \in Daemons :
    /\ d # e /\ current[d] # NoConn => current[e] # current[d]
    /\ \A i \in DOMAIN backlog[d] :
         /\ backlog[d][i] # current[e]
         /\ \A j \in DOMAIN backlog[e] : backlog[d][i] = backlog[e][j] => d = e /\ i = j

ConnInv == Types /\ UnmadeBlank /\ HeldInv /\ Apart

(* An operation runs for one request, and leaves other processes alone.    *)
LEMMA OperateFrame ==
  ASSUME TypeOK, NEW d \in Daemons, Operate(d)
  PROVE  /\ Working(d) /\ Working(d)'
         /\ req' = req
         /\ \A e \in Daemons \ {d} : pc'[e] = pc[e]
<1> USE DEF Working, Answer, Goto, TypeOK
<1>1. CASE RequireHealthy(d) \/ Unhealthy(d)
  BY <1>1 DEF RequireHealthy, Unhealthy
<1>2. CASE LoadEnrolled(d) \/ NoEnrolledTemplate(d) \/ CheckVacant(d)
           \/ AlreadyEnrolled(d) \/ LoadFails(d)
  BY <1>2 DEF LoadEnrolled, NoEnrolledTemplate, CheckVacant, AlreadyEnrolled, LoadFails, task
<1>3. CASE OpenCapture(d) \/ OpenFails(d) \/ SaveAll(d) \/ SaveFails(d)
  BY <1>3 DEF OpenCapture, OpenFails, SaveAll, SaveFails, task
<1>4. CASE Stream(d)
  <2>1. CASE DiscardFrame(d) \/ FrameFails(d) \/ EndVerify(d) \/ NoTemplate(d)
    BY <2>1 DEF DiscardFrame, FrameFails, EndVerify, NoTemplate
  <2>2. CASE PushTemplate(d)
    BY <2>2 DEF PushTemplate
  <2>3. ASSUME NEW p \in Probe, PullProbe(d, p) \/ CollectEmbedding(d, p)
        PROVE  /\ pc[d] = "stream" /\ req' = req
               /\ pc' = pc \/ pc' = [pc EXCEPT ![d] = "reply"]
    BY <2>3 DEF PullProbe, CollectEmbedding
  <2> QED BY <1>4, <2>1, <2>2, <2>3 DEF Stream
<1> QED BY <1>1, <1>2, <1>3, <1>4 DEF Operate

LEMMA ConnInit == IpcInit => ConnInv
BY TypesInit, PathAssumption
DEF IpcInit, ConnInv, UnmadeBlank, HeldInv, Apart, Init, Working

(* The first of a queue becomes the current connection.                    *)
LEMMA AcceptConn ==
  ASSUME ConnInv, NEW d \in Daemons, Accept(d), Types'
  PROVE  ConnInv'
<1>1. /\ backlog[d] \in Seq(Conn) /\ backlog[d] # <<>>
      /\ backlog' = [backlog EXCEPT ![d] = Tail(backlog[d])]
      /\ current' = [current EXCEPT ![d] = Head(backlog[d])]
      /\ pc[d] = "idle"
      /\ UNCHANGED <<pc, req, path, attempt, asked, reply>>
  BY DEF ConnInv, Types, IpcTypeOK, Accept, vars
<1>2. /\ 1 \in DOMAIN backlog[d] /\ Head(backlog[d]) = backlog[d][1]
      /\ \A i \in DOMAIN Tail(backlog[d]) :
           /\ i + 1 \in DOMAIN backlog[d] /\ i + 1 # 1
           /\ Tail(backlog[d])[i] = backlog[d][i + 1]
      /\ \A i, j \in DOMAIN Tail(backlog[d]) : i + 1 = j + 1 => i = j
  BY <1>1
<1>3. backlog \in [Daemons -> Seq(Conn)] /\ current \in [Daemons -> Conn \cup {NoConn}]
  BY DEF ConnInv, Types, IpcTypeOK
<1>4. UnmadeBlank'
  BY <1>1 DEF ConnInv, UnmadeBlank, Made
<1>5. HeldInv'
  BY <1>1, <1>2, <1>3 DEF ConnInv, HeldInv, Made, Working
<1>6. Apart'
  <2> SUFFICES ASSUME NEW e \in Daemons, NEW f \in Daemons
               PROVE  /\ e # f /\ current'[e] # NoConn => current'[f] # current'[e]
                      /\ \A i \in DOMAIN backlog'[e] :
                           /\ backlog'[e][i] # current'[f]
                           /\ \A j \in DOMAIN backlog'[f] :
                                backlog'[e][i] = backlog'[f][j] => e = f /\ i = j
    BY DEF Apart
  <2>1. \A g \in Daemons : \A i \in DOMAIN backlog'[g] :
          \E n \in DOMAIN backlog[g] :
             /\ n = IF g = d THEN i + 1 ELSE i
             /\ backlog'[g][i] = backlog[g][n]
             /\ g = d => n # 1
    BY <1>1, <1>2, <1>3
  <2>2. \A g \in Daemons : current'[g] = IF g = d THEN backlog[d][1] ELSE current[g]
    BY <1>1, <1>2, <1>3
  <2>3. Apart
    BY DEF ConnInv
  <2>4. e # f /\ current'[e] # NoConn => current'[f] # current'[e]
    BY <1>2, <2>2, <2>3 DEF Apart
  <2>5. ASSUME NEW i \in DOMAIN backlog'[e] PROVE backlog'[e][i] # current'[f]
    BY <1>2, <2>1, <2>2, <2>3 DEF Apart
  <2>6. ASSUME NEW i \in DOMAIN backlog'[e], NEW j \in DOMAIN backlog'[f],
               backlog'[e][i] = backlog'[f][j]
        PROVE  e = f /\ i = j
    <3>1. PICK n \in DOMAIN backlog[e] : /\ n = IF e = d THEN i + 1 ELSE i
                                         /\ backlog'[e][i] = backlog[e][n]
      BY <2>1
    <3>2. PICK m \in DOMAIN backlog[f] : /\ m = IF f = d THEN j + 1 ELSE j
                                         /\ backlog'[f][j] = backlog[f][m]
      BY <2>1
    <3>3. e = f /\ n = m
      <4>1. backlog[e][n] = backlog[f][m]
        BY <2>6, <3>1, <3>2
      <4> QED BY <2>3, <4>1, <3>1, <3>2 DEF Apart
    <3>4. i \in Int /\ j \in Int
      BY <1>1, <1>3
    <3> QED BY <3>1, <3>2, <3>3, <3>4
  <2> QED BY <2>4, <2>5, <2>6
<1> QED BY <1>4, <1>5, <1>6 DEF ConnInv

(* A new connection is the last of the queue of the daemon at the path.    *)
LEMMA ConnectConn ==
  ASSUME ConnInv, NEW c \in Clients, Connect(c), Types'
  PROVE  ConnInv'
<1> DEFINE k == <<c, attempt[c] + 1>>
<1>0. /\ backlog \in [Daemons -> Seq(Conn)] /\ current \in [Daemons -> Conn \cup {NoConn}]
      /\ attempt \in [Clients -> 0 .. MaxAttempts]
  BY DEF ConnInv, Types, IpcTypeOK
<1>1. /\ backlog \in [Daemons -> Seq(Conn)] /\ current \in [Daemons -> Conn \cup {NoConn}]
      /\ attempt \in [Clients -> Nat]
  BY <1>0, ClientsAssumption
<1>2. /\ attempt' = [attempt EXCEPT ![c] = attempt[c] + 1]
      /\ UNCHANGED <<pc, req, path, current, asked, reply>>
      /\ IF path \in Daemons
         THEN backlog' = [backlog EXCEPT ![path] = Append(backlog[path], k)]
         ELSE backlog' = backlog
  BY DEF Connect, vars
<1>3. k \in Conn /\ k \notin Made
  <2>1. attempt[c] + 1 \in 1 .. MaxAttempts
    BY <1>1, ClientsAssumption DEF Connect
  <2> QED BY <1>1, <2>1 DEF Conn, Made
<1>4. Made \subseteq Made'
  BY <1>1, <1>2 DEF Made, Conn
<1>5. UnmadeBlank'
  BY <1>2, <1>4 DEF ConnInv, UnmadeBlank
<1>6. k \in Made'
  BY <1>1, <1>2, <1>3 DEF Made
<1>7. reply[k] = "none"
  BY <1>3 DEF ConnInv, UnmadeBlank
<1> HIDE DEF k
<1>8. \A e \in Daemons : \A i \in DOMAIN backlog'[e] :
        \/ i \in DOMAIN backlog[e] /\ backlog'[e][i] = backlog[e][i]
        \/ e = path /\ i = Len(backlog[e]) + 1 /\ backlog'[e][i] = k
  <2> SUFFICES ASSUME NEW e \in Daemons, e = path
               PROVE  \A i \in DOMAIN backlog'[e] :
                        \/ i \in DOMAIN backlog[e] /\ backlog'[e][i] = backlog[e][i]
                        \/ i = Len(backlog[e]) + 1 /\ backlog'[e][i] = k
    BY <1>1, <1>2
  <2>1. backlog'[e] = Append(backlog[e], k) /\ backlog[e] \in Seq(Conn)
    BY <1>1, <1>2
  <2> QED BY <1>3, <2>1
<1>9. \A e \in Daemons : backlog[e] = <<>> /\ e # path => backlog'[e] = <<>>
  BY <1>1, <1>2
<1>10. \A e \in Daemons :
         /\ current[e] # k
         /\ \A i \in DOMAIN backlog[e] : backlog[e][i] # k /\ backlog[e][i] \in Conn
  BY <1>1, <1>3, NoConnAssumption DEF ConnInv, HeldInv
<1>11. HeldInv'
  <2>1. \A e \in Daemons : \A i \in DOMAIN backlog'[e] :
          backlog'[e][i] \in Made' /\ reply[backlog'[e][i]] = "none"
    <3> SUFFICES ASSUME NEW e \in Daemons, NEW i \in DOMAIN backlog'[e]
                 PROVE  backlog'[e][i] \in Made' /\ reply[backlog'[e][i]] = "none"
      OBVIOUS
    <3>1. CASE i \in DOMAIN backlog[e] /\ backlog'[e][i] = backlog[e][i]
      <4>1. backlog[e][i] \in Made /\ reply[backlog[e][i]] = "none"
        BY <3>1 DEF ConnInv, HeldInv
      <4> QED BY <1>4, <3>1, <4>1
    <3>2. CASE backlog'[e][i] = k
      BY <1>6, <1>7, <3>2
    <3> QED BY <1>8, <3>1, <3>2
  <2>2. \A e \in Daemons : current[e] # NoConn => current[e] \in Made'
    <3> SUFFICES ASSUME NEW e \in Daemons, current[e] # NoConn PROVE current[e] \in Made'
      OBVIOUS
    <3> QED BY <1>4 DEF ConnInv, HeldInv
  <2> QED BY <1>2, <1>9, <2>1, <2>2 DEF ConnInv, HeldInv, Working
<1>12. Apart'
  <2> SUFFICES ASSUME NEW e \in Daemons, NEW f \in Daemons
               PROVE  /\ e # f /\ current[e] # NoConn => current[f] # current[e]
                      /\ \A i \in DOMAIN backlog'[e] :
                           /\ backlog'[e][i] # current[f]
                           /\ \A j \in DOMAIN backlog'[f] :
                                backlog'[e][i] = backlog'[f][j] => e = f /\ i = j
    BY <1>2 DEF Apart
  <2>1. ASSUME NEW i \in DOMAIN backlog'[e] PROVE backlog'[e][i] # current[f]
    BY <1>8, <1>10 DEF ConnInv, Apart
  <2>2. ASSUME NEW i \in DOMAIN backlog'[e], NEW j \in DOMAIN backlog'[f],
               backlog'[e][i] = backlog'[f][j]
        PROVE  e = f /\ i = j
    <3>1. CASE i \in DOMAIN backlog[e] /\ backlog'[e][i] = backlog[e][i]
      <4>1. j \in DOMAIN backlog[f] /\ backlog'[f][j] = backlog[f][j]
        BY <1>8, <1>10, <2>2, <3>1
      <4>2. backlog[e][i] = backlog[f][j]
        BY <2>2, <3>1, <4>1
      <4> QED BY <3>1, <4>1, <4>2 DEF ConnInv, Apart
    <3>2. CASE e = path /\ i = Len(backlog[e]) + 1 /\ backlog'[e][i] = k
      BY <1>8, <1>10, <2>2, <3>2
    <3> QED BY <1>8, <3>1, <3>2
  <2> QED BY <2>1, <2>2 DEF ConnInv, Apart
<1> QED BY <1>5, <1>11, <1>12 DEF ConnInv

(* Where the queues and the connections in hand stay or are given up, only *)
(* places and replies have to be looked at.                                *)
LEMMA FewerHeld ==
  ASSUME ConnInv,
         \A d \in Daemons : /\ backlog'[d] \in {backlog[d], <<>>}
                            /\ current'[d] \in {current[d], NoConn}
  PROVE  Apart'
<1>1. \A d \in Daemons : \A i \in DOMAIN backlog'[d] :
        /\ i \in DOMAIN backlog[d] /\ backlog'[d][i] = backlog[d][i]
        /\ backlog[d][i] # NoConn
  <2>1. backlog \in [Daemons -> Seq(Conn)]
    BY DEF ConnInv, Types, IpcTypeOK
  <2>2. \A d \in Daemons : \A i \in DOMAIN backlog[d] : backlog[d][i] \in Conn
    BY <2>1
  <2>3. DOMAIN <<>> = {}
    OBVIOUS
  <2> QED BY <2>2, <2>3, NoConnAssumption
<1>2. Apart
  BY DEF ConnInv
<1> SUFFICES ASSUME NEW d \in Daemons, NEW e \in Daemons
             PROVE  /\ d # e /\ current'[d] # NoConn => current'[e] # current'[d]
                    /\ \A i \in DOMAIN backlog'[d] :
                         /\ backlog'[d][i] # current'[e]
                         /\ \A j \in DOMAIN backlog'[e] :
                              backlog'[d][i] = backlog'[e][j] => d = e /\ i = j
  BY DEF Apart
<1>3. d # e /\ current'[d] # NoConn => current'[e] # current'[d]
  BY <1>2 DEF Apart
<1>4. ASSUME NEW i \in DOMAIN backlog'[d] PROVE backlog'[d][i] # current'[e]
  BY <1>1, <1>2 DEF Apart
<1>5. ASSUME NEW i \in DOMAIN backlog'[d], NEW j \in DOMAIN backlog'[e],
             backlog'[d][i] = backlog'[e][j]
      PROVE  d = e /\ i = j
  <2>1. backlog[d][i] = backlog[e][j] /\ i \in DOMAIN backlog[d] /\ j \in DOMAIN backlog[e]
    BY <1>1, <1>5
  <2> QED BY <1>2, <2>1 DEF Apart
<1> QED BY <1>3, <1>4, <1>5

LEMMA DaemonConn ==
  ASSUME ConnInv, NEW d \in Daemons, DaemonStep(d), Types'
  PROVE  ConnInv'
<1>0. /\ backlog \in [Daemons -> Seq(Conn)] /\ current \in [Daemons -> Conn \cup {NoConn}]
      /\ reply \in [Conn -> Outcome]
      /\ pc \in [Daemons -> Place]
      /\ req \in [Daemons -> Request]
  BY DEF ConnInv, Types, IpcTypeOK, TypeOK
<1> USE <1>0
<1>1. CASE StartDaemon(d) \/ Listen(d) \/ StartFails(d)
  <2>1. /\ pc[d] \in {"down", "starting"} /\ ~ Working(d)'
        /\ \A e \in Daemons \ {d} : pc'[e] = pc[e]
        /\ UNCHANGED <<req, backlog, current, attempt, asked, reply>>
        /\ pc'[d] \in {"down", "starting"} => path' \in {path, NoFile}
        /\ path' \in {path, NoFile, d}
    BY <1>1 DEF StartDaemon, Listen, StartFails, Start, BuildOk, BuildFails, Goto, task, ipc, Working
  <2>2. HeldInv'
    BY <2>1, PathAssumption DEF ConnInv, HeldInv, Working, Made
  <2> QED BY <2>1, <2>2, FewerHeld DEF ConnInv, UnmadeBlank, Made
<1>2. CASE Die(d)
  <2>1. /\ pc'[d] = "down"
        /\ \A e \in Daemons \ {d} : pc'[e] = pc[e]
        /\ path' \in Daemons => path' = path /\ path # d
        /\ UNCHANGED <<req, attempt, asked>>
        /\ backlog'[d] = <<>> /\ current'[d] = NoConn
        /\ \A e \in Daemons \ {d} : backlog'[e] = backlog[e] /\ current'[e] = current[e]
        /\ \A k \in Conn : k \notin Held(d) => reply'[k] = reply[k]
    BY <1>2, PathAssumption DEF Die, Crash, Goto
  <2>2. \A e \in Daemons \ {d} :
          /\ current[e] # NoConn => current[e] \notin Held(d)
          /\ \A i \in DOMAIN backlog[e] : backlog[e][i] \notin Held(d)
    BY DEF Held, ConnInv, Apart
  <2>3. \A k \in Held(d) : k \in Made
    BY NoConnAssumption DEF Held, ConnInv, HeldInv
  <2>4. UnmadeBlank'
    BY <2>1, <2>3 DEF ConnInv, UnmadeBlank, Made
  <2>5. HeldInv'
    BY <2>1, <2>2 DEF ConnInv, HeldInv, Working, Made
  <2> QED BY <2>1, <2>4, <2>5, FewerHeld DEF ConnInv
<1>3. CASE Accept(d)
  BY <1>3, AcceptConn
<1>4. CASE ReadRequest(d)
  <2>1. /\ pc[d] = "idle" /\ pc'[d] = "health" /\ current[d] # NoConn
        /\ \A e \in Daemons \ {d} : pc'[e] = pc[e] /\ req'[e] = req[e]
        /\ req'[d] = [op |-> asked[current[d]].op, user |-> asked[current[d]].user]
        /\ UNCHANGED ipc
    BY <1>4 DEF ReadRequest, Call, Goto
  <2>2. req'[d] = asked[current[d]]
    <3>1. asked[current[d]] \in Request
      BY <1>4, <2>1 DEF ReadRequest, ConnInv, Types, IpcTypeOK
    <3> QED BY <2>1, <3>1 DEF Request
  <2>3. HeldInv'
    <3>1. /\ pc[d] = "idle" /\ pc'[d] = "health" /\ current[d] # NoConn
          /\ \A e \in Daemons \ {d} : pc'[e] = pc[e] /\ req'[e] = req[e]
          /\ UNCHANGED <<path, backlog, current, attempt, asked, reply>>
      BY <2>1 DEF ipc
    <3>2. Made' = Made
      BY <3>1 DEF Made
    <3> QED BY <2>2, <3>1, <3>2 DEF ConnInv, HeldInv, Working
  <2> QED BY <2>1, <2>3, FewerHeld DEF ConnInv, UnmadeBlank, Made, ipc
<1>5. CASE ReadEof(d)
  <2>1. /\ pc[d] = "idle" /\ current' = [current EXCEPT ![d] = NoConn]
        /\ UNCHANGED <<pc, req, path, backlog, attempt, asked, reply>>
    BY <1>5 DEF ReadEof, vars
  <2>2. HeldInv'
    BY <2>1 DEF ConnInv, HeldInv, Working, Made
  <2> QED BY <2>1, <2>2, FewerHeld DEF ConnInv, UnmadeBlank, Made
<1>6. CASE Work(d)
  <2>1. /\ Working(d) /\ Working(d)' /\ req' = req
        /\ \A e \in Daemons \ {d} : pc'[e] = pc[e]
        /\ UNCHANGED ipc
    BY <1>6, OperateFrame DEF Work, ConnInv, Types
  <2>2. HeldInv'
    BY <2>1 DEF ConnInv, HeldInv, Working, Made, ipc
  <2> QED BY <2>1, <2>2, FewerHeld DEF ConnInv, UnmadeBlank, Made, ipc
<1>7. CASE WriteReply(d)
  <2>1. /\ pc[d] = "reply" /\ pc' = [pc EXCEPT ![d] = "idle"]
        /\ current' = [current EXCEPT ![d] = NoConn]
        /\ reply' = [reply EXCEPT ![current[d]] = response[d]]
        /\ UNCHANGED <<req, path, backlog, attempt, asked>>
    BY <1>7 DEF WriteReply, Respond, Goto, task
  <2>2. current[d] \in Made
    BY <2>1 DEF ConnInv, HeldInv, Working
  <2>3. \A e \in Daemons :
          /\ e # d /\ current[e] # NoConn => current[e] # current[d]
          /\ \A i \in DOMAIN backlog[e] : backlog[e][i] # current[d] /\ backlog[e][i] \in Conn
    BY <2>2 DEF ConnInv, Apart, Made
  <2>4. \A k \in Conn : k # current[d] => reply'[k] = reply[k]
    BY <2>1
  <2>5. UnmadeBlank'
    BY <2>1, <2>2, <2>4 DEF ConnInv, UnmadeBlank, Made
  <2>6. HeldInv'
    BY <2>1, <2>3, <2>4 DEF ConnInv, HeldInv, Working, Made
  <2> QED BY <2>1, <2>5, <2>6, FewerHeld DEF ConnInv
<1> QED BY <1>1, <1>2, <1>3, <1>4, <1>5, <1>6, <1>7 DEF DaemonStep, ServeStep

LEMMA ClientConn ==
  ASSUME ConnInv, NEW c \in Clients, ClientStep(c), Types'
  PROVE  ConnInv'
<1>1. CASE Connect(c)
  BY <1>1, ConnectConn
<1>2. CASE NoUserName(c) \/ LookupFails(c)
  <2>1. attempt' = [attempt EXCEPT ![c] = attempt[c] + 1]
        /\ UNCHANGED <<pc, req, path, backlog, current, asked, reply>>
    BY <1>2 DEF NoUserName, LookupFails, vars
  <2>2. attempt \in [Clients -> Nat]
    BY ClientsAssumption DEF ConnInv, Types, IpcTypeOK
  <2>3. Made \subseteq Made'
    BY <2>1, <2>2 DEF Made, Conn
  <2>4. HeldInv' /\ UnmadeBlank'
    BY <2>1, <2>3 DEF ConnInv, HeldInv, UnmadeBlank, Working
  <2> QED BY <2>1, <2>4, FewerHeld DEF ConnInv
<1>3. ASSUME NEW r \in MayAsk(c), SendRequest(c, r) PROVE ConnInv'
  <2>1. /\ asked[Mine(c)] = NoRequest
        /\ asked' = [asked EXCEPT ![Mine(c)] = r]
        /\ UNCHANGED <<pc, req, path, backlog, current, attempt, reply>>
    BY <1>3 DEF SendRequest, vars
  <2>2. Mine(c) \in Made
    <3>1. Mine(c) \in Conn /\ attempt[c] \in Int
      BY <1>3, MineIsConn DEF SendRequest, Pending, ConnInv, Types, IpcTypeOK
    <3> QED BY <3>1 DEF Mine, Made
  <2>3. \A d \in Daemons : Working(d) => asked'[current[d]] = asked[current[d]]
    <3> SUFFICES ASSUME NEW d \in Daemons, Working(d)
                 PROVE  asked'[current[d]] = asked[current[d]]
      OBVIOUS
    <3>1. req[d] \in Request /\ req[d] = asked[current[d]]
      BY DEF ConnInv, HeldInv, Types, TypeOK
    <3>2. current[d] # Mine(c)
      BY <2>1, <3>1, ClientsAssumption
    <3> QED BY <2>1, <3>2
  <2>4. HeldInv'
    BY <2>1, <2>3 DEF ConnInv, HeldInv, Working, Made
  <2>5. UnmadeBlank'
    BY <2>1, <2>2 DEF ConnInv, UnmadeBlank, Made
  <2> QED BY <2>1, <2>4, <2>5, FewerHeld DEF ConnInv
<1>4. CASE Receive(c) \/ GiveUp(c)
  <2>1. UNCHANGED <<pc, req, path, backlog, current, attempt, asked, reply>>
    BY <1>4 DEF Receive, GiveUp, Hangup, vars
  <2>2. HeldInv' /\ UnmadeBlank'
    BY <2>1 DEF ConnInv, HeldInv, UnmadeBlank, Working, Made
  <2> QED BY <2>1, <2>2, FewerHeld DEF ConnInv
<1> QED BY <1>1, <1>2, <1>3, <1>4 DEF ClientStep

LEMMA ConnStep ==
  ASSUME ConnInv, [IpcNext]_allVars
  PROVE  ConnInv'
<1>1. Types'
  BY TypesStep DEF ConnInv
<1>2. CASE UNCHANGED allVars
  <2>1. UNCHANGED <<pc, req, path, backlog, current, attempt, asked, reply>>
    BY <1>2 DEF allVars, ipc, vars
  <2>2. HeldInv' /\ UnmadeBlank'
    BY <2>1 DEF ConnInv, HeldInv, UnmadeBlank, Working, Made
  <2> QED BY <1>1, <2>1, <2>2, FewerHeld DEF ConnInv
<1> QED BY <1>1, <1>2, DaemonConn, ClientConn DEF IpcNext

(* However many daemons share the path and whichever clients time out and  *)
(* retry, a daemon works for the caller it is connected to, and for no     *)
(* connection twice.                                                       *)
THEOREM CallersServed == IpcSpec => []WorksForItsCaller
<1>1. ConnInv => WorksForItsCaller
  BY DEF ConnInv, HeldInv, Apart, Working, WorksForItsCaller
<1> QED BY <1>1, ConnInit, ConnStep, PTL DEF IpcSpec

-------------------------------------------------------------------------------
(* Answers                                                                 *)

(* What an answer to op for u tells: the kind fits the request, and after  *)
(* a success the user has templates.                                       *)
Backed(st, r, op, u) ==
  /\ r = "pong" => op = "ping"
  /\ r \in {"accepted", "rejected"} => op = "verify"
  /\ r = "enroll_ok" => op = "enroll"
  /\ r = "add_template_ok" => op = "add_template"
  /\ r \in {"accepted", "enroll_ok", "add_template_ok"} => st[u] # <<>>

(* How an operation gets there.  Unlike OperationInv this survives another *)
(* daemon, which may replace templates but never leaves a user without.    *)
AnsweringInv ==
  \A d \in Daemons :
    /\ pc[d] \in {"health", "load"} => bundle[d] = <<>>
    /\ pc[d] \in {"load", "open", "stream", "save"} => req[d].op # "ping"
    /\ pc[d] \in {"open", "stream"} /\ bundle[d] # <<>> => store[req[d].user] # <<>>
    /\ pc[d] = "save" => req[d].op # "verify" /\ bundle[d] # <<>>
    /\ pc[d] = "reply" => Backed(store, response[d], req[d].op, req[d].user)

(* No step leaves a user without templates who had some.                   *)
LEMMA NeverEmptied ==
  ASSUME TypeOK, AnsweringInv, [Next]_vars, NEW u \in Users, store[u] # <<>>
  PROVE  store'[u] # <<>>
<1>1. CASE UNCHANGED vars
  BY <1>1 DEF vars
<1>2. ASSUME NEW d \in Daemons, Step(d)
      PROVE  store' = store \/ SaveAll(d)
  BY <1>2 DEF Step, Live, Start, BuildOk, BuildFails, Crash, Call, Operate,
     RequireHealthy, Unhealthy, LoadEnrolled, NoEnrolledTemplate, CheckVacant,
     AlreadyEnrolled, LoadFails, OpenCapture, OpenFails, Stream, DiscardFrame,
     PullProbe, CollectEmbedding, FrameFails, EndVerify, NoTemplate, PushTemplate,
     SaveFails, Respond
<1>3. ASSUME NEW d \in Daemons, SaveAll(d) PROVE store'[u] # <<>>
  BY <1>3 DEF SaveAll, AnsweringInv, TypeOK
<1> QED BY <1>1, <1>2, <1>3 DEF Next

LEMMA AnsweringInit == Init => AnsweringInv
BY DEF Init, AnsweringInv

LEMMA AnsweringStep ==
  ASSUME TypeOK, AnsweringInv, [Next]_vars
  PROVE  AnsweringInv'
<1>0. \A u \in Users : store[u] # <<>> => store'[u] # <<>>
  BY NeverEmptied
<1>1. CASE UNCHANGED vars
  BY <1>1 DEF vars, AnsweringInv, Backed
<1>2. ASSUME NEW d \in Daemons, Step(d) PROVE AnsweringInv'
  <2> DEFINE Fine(e) ==
        /\ pc[e] \in {"health", "load"} => bundle[e] = <<>>
        /\ pc[e] \in {"load", "open", "stream", "save"} => req[e].op # "ping"
        /\ pc[e] \in {"open", "stream"} /\ bundle[e] # <<>> => store[req[e].user] # <<>>
        /\ pc[e] = "save" => req[e].op # "verify" /\ bundle[e] # <<>>
        /\ pc[e] = "reply" => Backed(store, response[e], req[e].op, req[e].user)
  <2>0. Fine(d) /\ req[d].op \in Ops /\ req[d].user \in Users
    BY DEF AnsweringInv, TypeOK, Request
  <2>1. ASSUME NEW e \in Daemons \ {d} PROVE Fine(e)'
    <3>1. /\ pc'[e] = pc[e] /\ req'[e] = req[e] /\ bundle'[e] = bundle[e]
          /\ response'[e] = response[e]
      <4> USE <2>1 DEF Goto, Answer, Fresh, task, TypeOK
      <4>1. CASE Live(d) \/ Respond(d) \/ \E op \in Ops, u \in Users : Call(d, op, u)
        BY <4>1 DEF Live, Start, BuildOk, BuildFails, Crash, Respond, Call
      <4>2. CASE Operate(d)
        BY <4>2 DEF Operate, RequireHealthy, Unhealthy, LoadEnrolled, NoEnrolledTemplate,
           CheckVacant, AlreadyEnrolled, LoadFails, OpenCapture, OpenFails, Stream,
           DiscardFrame, PullProbe, CollectEmbedding, FrameFails, EndVerify, NoTemplate,
           PushTemplate, SaveAll, SaveFails
      <4> QED BY <1>2, <4>1, <4>2 DEF Step
    <3>2. Fine(e) /\ req[e].user \in Users
      BY <2>1 DEF AnsweringInv, TypeOK, Request
    <3> QED BY <1>0, <3>1, <3>2 DEF Backed
  <2>2. Fine(d)'
    <3> USE <2>0 DEF Goto, Answer, Fresh, task, TypeOK, Backed
    <3>1. CASE Live(d) \/ Respond(d) \/ \E op \in Ops, u \in Users : Call(d, op, u)
      BY <3>1 DEF Live, Start, BuildOk, BuildFails, Crash, Respond, Call
    <3>2. CASE RequireHealthy(d) \/ Unhealthy(d) \/ LoadEnrolled(d) \/ NoEnrolledTemplate(d)
      BY <3>2 DEF RequireHealthy, Unhealthy, LoadEnrolled, NoEnrolledTemplate
    <3>3. CASE CheckVacant(d) \/ AlreadyEnrolled(d) \/ LoadFails(d) \/ OpenCapture(d) \/ OpenFails(d)
      BY <3>3 DEF CheckVacant, AlreadyEnrolled, LoadFails, OpenCapture, OpenFails
    <3>4. CASE DiscardFrame(d) \/ FrameFails(d) \/ NoTemplate(d) \/ SaveFails(d)
      BY <3>4 DEF DiscardFrame, FrameFails, NoTemplate, SaveFails
    <3>5. CASE \E p \in Probe : CollectEmbedding(d, p)
      BY <3>5 DEF CollectEmbedding
    <3>6. ASSUME NEW p \in Probe, PullProbe(d, p) PROVE Fine(d)'
      <4>1. /\ pc[d] = "stream" /\ req[d].op = "verify" /\ UNCHANGED <<store, req, bundle>>
            /\ \/ pc' = pc
               \/ pc'[d] = "reply" /\ response'[d] = "accepted" /\ bundle[d] # <<>>
        BY <3>6 DEF PullProbe, verify_burst
      <4> QED BY <4>1
    <3>7. CASE EndVerify(d)
      <4>1. /\ pc[d] = "stream" /\ req[d].op = "verify" /\ UNCHANGED <<store, req, bundle>>
            /\ pc'[d] = "reply" /\ response'[d] \in {"accepted", "rejected"}
            /\ response'[d] = "accepted" => bundle[d] # <<>>
        BY <3>7 DEF EndVerify, verify_burst
      <4> QED BY <4>1
    <3>8. CASE PushTemplate(d)
      <4>1. PICK t \in try_average(probes[d]) : bundle' = [bundle EXCEPT ![d] = Append(@, t)]
        BY <3>8 DEF PushTemplate
      <4>2. bundle'[d] # <<>>
        BY <4>1
      <4> QED BY <3>8, <4>2 DEF PushTemplate
    <3>9. CASE SaveAll(d)
      <4>1. store'[req[d].user] # <<>>
        BY <3>9 DEF SaveAll
      <4> QED BY <3>9, <4>1 DEF SaveAll, Ops
    <3> QED BY <1>2, <3>1, <3>2, <3>3, <3>4, <3>5, <3>6, <3>7, <3>8, <3>9
        DEF Step, Operate, Stream
  <2> QED BY <2>1, <2>2 DEF AnsweringInv
<1> QED BY <1>1, <1>2 DEF Next

(* What is on the connections and with the clients.                        *)
DeliveredInv ==
  /\ \A k \in Conn :
       reply[k] \in Response =>
         asked[k] \in Request /\ Backed(store, reply[k], asked[k].op, asked[k].user)
  /\ \A c \in Clients : outcome[c] \in Response => reply[Mine(c)] = outcome[c]
  /\ \A k \in Conn : asked[k] \in {NoRequest} \cup MayAsk(k[1])

ServiceInv == ConnInv /\ AnsweringInv /\ DeliveredInv

LEMMA ServiceInit == IpcInit => ServiceInv
<1> SUFFICES ASSUME IpcInit PROVE ServiceInv
  OBVIOUS
<1>1. ConnInv /\ AnsweringInv
  BY ConnInit, AnsweringInit DEF IpcInit
<1>2. DeliveredInv
  BY DEF IpcInit, DeliveredInv, Response
<1> QED BY <1>1, <1>2 DEF ServiceInv

(* A reply that is there stays, and its request with it.                   *)
LEMMA RepliesStay ==
  ASSUME ServiceInv, [IpcNext]_allVars, NEW k \in Conn, reply[k] # "none"
  PROVE  reply'[k] = reply[k]
<1>1. CASE UNCHANGED allVars
  BY <1>1 DEF allVars, ipc
<1>2. ASSUME NEW d \in Daemons, DaemonStep(d) PROVE reply'[k] = reply[k]
  <2>1. k \notin Held(d)
    BY NoConnAssumption DEF ServiceInv, ConnInv, HeldInv, Held
  <2>2. CASE Die(d)
    BY <2>1, <2>2 DEF Die
  <2>3. CASE WriteReply(d)
    <3>1. k # current[d]
      BY <2>1 DEF Held
    <3> QED BY <2>3, <3>1 DEF WriteReply, ServiceInv, ConnInv, Types, IpcTypeOK
  <2>4. CASE ~ Die(d) /\ ~ WriteReply(d)
    BY <1>2, <2>4 DEF DaemonStep, ServeStep, StartDaemon, Listen, StartFails, Accept,
       ReadRequest, ReadEof, Work, ipc
  <2> QED BY <2>2, <2>3, <2>4
<1>3. ASSUME NEW c \in Clients, ClientStep(c) PROVE reply'[k] = reply[k]
  BY <1>3 DEF ClientStep, NoUserName, LookupFails, Connect, SendRequest, Receive, GiveUp, Hangup
<1> QED BY <1>1, <1>2, <1>3 DEF IpcNext

(* A request that was written stays, and comes from its client.            *)
LEMMA RequestsStay ==
  ASSUME ServiceInv, [IpcNext]_allVars, NEW k \in Conn
  PROVE  /\ asked[k] # NoRequest => asked'[k] = asked[k]
         /\ asked'[k] \in {NoRequest} \cup MayAsk(k[1])
<1>0. asked[k] \in {NoRequest} \cup MayAsk(k[1])
  BY DEF ServiceInv, DeliveredInv
<1>1. CASE UNCHANGED asked
  BY <1>0, <1>1
<1>2. ASSUME NEW c \in Clients, NEW r \in MayAsk(c), SendRequest(c, r)
      PROVE  /\ asked[k] # NoRequest => asked'[k] = asked[k]
             /\ asked'[k] \in {NoRequest} \cup MayAsk(k[1])
  <2>1. /\ asked' = [asked EXCEPT ![Mine(c)] = r]
        /\ asked[Mine(c)] = NoRequest
        /\ asked \in [Conn -> Request \cup {NoRequest}]
    BY <1>2 DEF SendRequest, ServiceInv, ConnInv, Types, IpcTypeOK
  <2>2. CASE k = Mine(c)
    <3>1. k[1] = c
      BY <2>2 DEF Mine
    <3>2. asked'[k] = r
      BY <2>1, <2>2
    <3> QED BY <2>1, <2>2, <3>1, <3>2
  <2>3. CASE k # Mine(c)
    BY <1>0, <2>1, <2>3
  <2> QED BY <2>2, <2>3
<1>3. UNCHANGED asked \/ \E c \in Clients : \E r \in MayAsk(c) : SendRequest(c, r)
  BY DEF IpcNext, allVars, ipc, DaemonStep, ServeStep, StartDaemon, Listen, StartFails, Die,
     Accept, ReadRequest, ReadEof, Work, WriteReply, ClientStep, NoUserName, LookupFails, Connect,
     Receive, GiveUp, Hangup
<1> QED BY <1>1, <1>2, <1>3

(* A new reply is what the operation of its connection answered.           *)
LEMMA NewReply ==
  ASSUME ServiceInv, [IpcNext]_allVars, NEW k \in Conn,
         reply'[k] # reply[k], reply'[k] \in Response
  PROVE  asked[k] \in Request /\ Backed(store, reply'[k], asked[k].op, asked[k].user)
<1>1. PICK d \in Daemons : WriteReply(d)
  BY DEF IpcNext, allVars, ipc, DaemonStep, ServeStep, StartDaemon, Listen, StartFails, Die,
     Accept, ReadRequest, ReadEof, Work, ClientStep, NoUserName, LookupFails, Connect, SendRequest,
     Receive, GiveUp, Hangup, Response
<1>2. /\ reply' = [reply EXCEPT ![current[d]] = response[d]]
      /\ pc[d] = "reply"
      /\ reply \in [Conn -> Outcome]
  BY <1>1 DEF WriteReply, Respond, ServiceInv, ConnInv, Types, IpcTypeOK
<1>3. k = current[d] /\ reply'[k] = response[d]
  BY <1>2
<1>4. req[d] = asked[current[d]] /\ req[d] \in Request
  BY <1>2 DEF ServiceInv, ConnInv, HeldInv, Working, Types, TypeOK
<1>5. Backed(store, response[d], req[d].op, req[d].user)
  BY <1>2 DEF ServiceInv, AnsweringInv
<1> QED BY <1>3, <1>4, <1>5

LEMMA DeliveredStep ==
  ASSUME ServiceInv, [IpcNext]_allVars, Types'
  PROVE  DeliveredInv'
<1>0. [Next]_vars
  BY AppStep DEF ServiceInv, ConnInv, Types
<1>1. \A u \in Users : store[u] # <<>> => store'[u] # <<>>
  BY <1>0, NeverEmptied DEF ServiceInv, ConnInv, Types
<1>2. ASSUME NEW k \in Conn, reply'[k] \in Response
      PROVE  asked'[k] \in Request /\ Backed(store', reply'[k], asked'[k].op, asked'[k].user)
  <2>1. asked[k] \in Request /\ Backed(store, reply'[k], asked[k].op, asked[k].user)
    <3>1. CASE reply'[k] = reply[k]
      BY <1>2, <3>1 DEF ServiceInv, DeliveredInv
    <3>2. CASE reply'[k] # reply[k]
      BY <1>2, <3>2, NewReply
    <3> QED BY <3>1, <3>2
  <2>2. asked'[k] = asked[k]
    BY <2>1, RequestsStay, ClientsAssumption
  <2>3. asked[k].user \in Users
    BY <2>1 DEF Request
  <2> QED BY <1>1, <2>1, <2>2, <2>3 DEF Backed
<1>3. ASSUME NEW c \in Clients, outcome'[c] \in Response
      PROVE  reply'[Mine(c)'] = outcome'[c]
  <2>0. /\ attempt \in [Clients -> 0 .. MaxAttempts] /\ outcome \in [Clients -> Outcome]
        /\ attempt' \in [Clients -> 0 .. MaxAttempts]
        /\ outcome[c] = "none" <=> attempt[c] = 0
    BY DEF ServiceInv, ConnInv, Types, IpcTypeOK
  <2>1. /\ attempt'[c] = attempt[c]
        /\ outcome'[c] \in {outcome[c], reply[Mine(c)]}
    <3>1. CASE UNCHANGED <<attempt, outcome>>
      BY <3>1
    <3>2. ASSUME NEW b \in Clients, NoUserName(b) \/ LookupFails(b) \/ Connect(b)
          PROVE  /\ attempt'[c] = attempt[c]
                 /\ outcome'[c] \in {outcome[c], reply[Mine(c)]}
      <4>1. PICK result \in {"pending", "io_error", "no_conversation", "unknown_user"} :
              /\ attempt' = [attempt EXCEPT ![b] = attempt[b] + 1]
              /\ outcome' = [outcome EXCEPT ![b] = result]
        BY <3>2 DEF NoUserName, LookupFails, Connect
      <4>2. b # c
        BY <1>3, <2>0, <4>1 DEF Response
      <4> QED BY <2>0, <4>1, <4>2
    <3>3. ASSUME NEW b \in Clients, Receive(b) \/ GiveUp(b)
          PROVE  /\ attempt'[c] = attempt[c]
                 /\ outcome'[c] \in {outcome[c], reply[Mine(c)]}
      <4>1. /\ attempt' = attempt
            /\ \/ outcome' = [outcome EXCEPT ![b] = reply[Mine(b)]]
               \/ outcome' = [outcome EXCEPT ![b] = "io_error"]
        BY <3>3 DEF Receive, GiveUp, Hangup
      <4>2. "io_error" \notin Response
        BY DEF Response
      <4> QED BY <1>3, <2>0, <4>1, <4>2
    <3>4. \/ UNCHANGED <<attempt, outcome>>
          \/ \E b \in Clients : NoUserName(b) \/ LookupFails(b) \/ Connect(b) \/ Receive(b) \/ GiveUp(b)
      BY DEF IpcNext, allVars, ipc, DaemonStep, ServeStep, StartDaemon, Listen, StartFails,
         Die, Accept, ReadRequest, ReadEof, Work, WriteReply, ClientStep, SendRequest
    <3> QED BY <3>1, <3>2, <3>3, <3>4
  <2>2. Mine(c)' = Mine(c)
    BY <2>1 DEF Mine
  <2>3. reply[Mine(c)] = outcome'[c]
    BY <1>3, <2>1 DEF ServiceInv, DeliveredInv
  <2>4. attempt[c] # 0
    <3>1. CASE outcome'[c] = outcome[c]
      BY <1>3, <2>0, <3>1 DEF Response
    <3>2. CASE outcome'[c] # outcome[c]
      <4>1. PICK b \in Clients : Receive(b) \/ GiveUp(b) \/ NoUserName(b) \/ LookupFails(b) \/ Connect(b)
        BY <3>2 DEF IpcNext, allVars, ipc, DaemonStep, ServeStep, StartDaemon, Listen,
           StartFails, Die, Accept, ReadRequest, ReadEof, Work, WriteReply, ClientStep,
           SendRequest
      <4>2. CASE Receive(b) \/ GiveUp(b)
        <5>1. b = c
          BY <2>0, <3>2, <4>2 DEF Receive, GiveUp, Hangup
        <5> QED BY <2>0, <4>2, <5>1 DEF Receive, GiveUp, Pending
      <4>3. CASE NoUserName(b) \/ LookupFails(b) \/ Connect(b)
        <5>1. b = c
          BY <2>0, <3>2, <4>3 DEF NoUserName, LookupFails, Connect
        <5>2. attempt'[c] = attempt[c] + 1
          BY <2>0, <4>3, <5>1 DEF NoUserName, LookupFails, Connect
        <5> QED BY <2>0, <2>1, <5>2
      <4> QED BY <4>1, <4>2, <4>3
    <3> QED BY <3>1, <3>2
  <2>5. Mine(c) \in Conn /\ reply[Mine(c)] # "none"
    BY <1>3, <2>3, <2>4, MineIsConn DEF ServiceInv, ConnInv, Types, Response
  <2> QED BY <2>2, <2>3, <2>5, RepliesStay
<1>4. \A k \in Conn : asked'[k] \in {NoRequest} \cup MayAsk(k[1])
  BY RequestsStay
<1> QED BY <1>2, <1>3, <1>4 DEF DeliveredInv

LEMMA ServiceStep == ServiceInv /\ [IpcNext]_allVars => ServiceInv'
<1> SUFFICES ASSUME ServiceInv, [IpcNext]_allVars PROVE ServiceInv'
  OBVIOUS
<1>1. ConnInv'
  BY ConnStep DEF ServiceInv
<1>2. AnsweringInv'
  BY AppStep, AnsweringStep DEF ServiceInv, ConnInv, Types
<1>3. DeliveredInv'
  BY <1>1, DeliveredStep DEF ConnInv
<1> QED BY <1>1, <1>2, <1>3 DEF ServiceInv

LEMMA ServiceInvariant == IpcSpec => []ServiceInv
BY ServiceInit, ServiceStep, PTL DEF IpcSpec

(* PAM lets in only whom the daemon accepted, for any number of daemons,   *)
(* logins at the same time, time limits and crashes.                       *)
THEOREM LoginsSound == IpcSpec => []LoginSound
<1>1. ASSUME ServiceInv PROVE LoginSound
  <2> SUFFICES ASSUME NEW c \in DOMAIN Login, PamResult(outcome[c]) = "PAM_SUCCESS"
               PROVE  /\ reply[Mine(c)] = "accepted"
                      /\ asked[Mine(c)] = [op |-> "verify", user |-> Passwd[Login[c]]]
                      /\ store[Passwd[Login[c]]] # <<>>
    BY DEF LoginSound
  <2>1. outcome[c] = "accepted" /\ c \in Clients
    BY ClientsAssumption DEF PamResult
  <2>2. reply[Mine(c)] = "accepted"
    BY <1>1, <2>1 DEF ServiceInv, DeliveredInv, Response
  <2>3. Mine(c) \in Conn /\ Mine(c)[1] = c
    BY <1>1, <2>1, MineIsConn DEF ServiceInv, ConnInv, Types, IpcTypeOK, Mine
  <2>4. /\ asked[Mine(c)] \in Request
        /\ Backed(store, "accepted", asked[Mine(c)].op, asked[Mine(c)].user)
        /\ asked[Mine(c)] \in {NoRequest} \cup MayAsk(c)
    BY <1>1, <2>2, <2>3 DEF ServiceInv, DeliveredInv, Response
  <2>5. asked[Mine(c)] = [op |-> "verify", user |-> Passwd[Login[c]]]
    BY <2>4, ClientsAssumption DEF MayAsk, IsPam
  <2> QED BY <2>2, <2>4, <2>5 DEF Backed
<1> QED BY <1>1, ServiceInvariant, PTL

(* The CLI exits with 0 only after the daemon did what it was asked.       *)
THEOREM ExitsSound == IpcSpec => []ExitSound
<1>1. ASSUME ServiceInv PROVE ExitSound
  <2> SUFFICES ASSUME NEW c \in Clients \ DOMAIN Login,
                      attempt[c] > 0, asked[Mine(c)] # NoRequest,
                      ExitCode(asked[Mine(c)].op, outcome[c]) = 0
               PROVE  /\ reply[Mine(c)] \notin {"rejected", "error"}
                      /\ asked[Mine(c)].op = "ping" \/ store[asked[Mine(c)].user] # <<>>
                      /\ \A d \in Daemons : current[d] # Mine(c)
    BY DEF ExitSound
  <2>1. /\ outcome[c] \in {"pong", "accepted", "enroll_ok", "add_template_ok"}
        /\ outcome[c] = "pong" => asked[Mine(c)].op = "ping"
    BY DEF ExitCode
  <2>2. reply[Mine(c)] = outcome[c]
    BY <1>1, <2>1 DEF ServiceInv, DeliveredInv, Response
  <2>3. Mine(c) \in Conn
    BY <1>1, <2>1, MineIsConn DEF ServiceInv, ConnInv, Types, IpcTypeOK
  <2>4. Backed(store, outcome[c], asked[Mine(c)].op, asked[Mine(c)].user)
    BY <1>1, <2>1, <2>2, <2>3 DEF ServiceInv, DeliveredInv, Response
  <2>5. \A d \in Daemons : current[d] # Mine(c)
    BY <1>1, <2>1, <2>2, <2>3, NoConnAssumption DEF ServiceInv, ConnInv, HeldInv
  <2> QED BY <2>1, <2>2, <2>4, <2>5 DEF Backed
<1> QED BY <1>1, ServiceInvariant, PTL

-------------------------------------------------------------------------------
(* One daemon: every template is accounted for.                            *)

Writes == {"enroll", "add_template"}
Saved == {"enroll_ok", "add_template_ok"}

(* The daemon is done with k, or has only its reply left to write.         *)
Finished(k) ==
  reply[k] # "none" \/ \E d \in Daemons : current[d] = k /\ pc[d] = "reply"

(* The template k asked for is stored, and the reply says so.              *)
Acknowledged(k) ==
  \/ reply[k] \in Saved
  \/ \E d \in Daemons : current[d] = k /\ pc[d] = "reply" /\ response[d] \in Saved

FinishedWrites(u) == {k \in Sent(u, Writes) : Finished(k)}
AcknowledgedWrites(u) == {k \in Sent(u, Writes) : Acknowledged(k)}

(* A write counts once its operation is past the save, not once its reply  *)
(* is read: that is what makes it inductive.                               *)
AccountInv ==
  \A u \in Users :
    /\ Cardinality(AcknowledgedWrites(u)) <= Len(store[u])
    /\ Len(store[u]) <= Cardinality(FinishedWrites(u))

(* A daemon that is about to reply stays so, with its connection, until it *)
(* replies or dies.                                                        *)
LEMMA ReplyPending ==
  ASSUME ServiceInv, [IpcNext]_allVars, NEW d \in Daemons, pc[d] = "reply"
  PROVE  \/ UNCHANGED <<pc[d], current[d], response[d]>>
         \/ WriteReply(d)
         \/ Die(d)
<1>0. TypeOK
  BY DEF ServiceInv, ConnInv, Types
<1>1. CASE UNCHANGED allVars
  BY <1>1 DEF allVars, vars, ipc
<1>2. ASSUME NEW c \in Clients, ClientStep(c) PROVE UNCHANGED <<pc[d], current[d], response[d]>>
  BY <1>2 DEF ClientStep, NoUserName, LookupFails, Connect, SendRequest, Receive, GiveUp, Hangup, vars
<1>3. ASSUME NEW e \in Daemons, DaemonStep(e), ~ WriteReply(d), ~ Die(d)
      PROVE  UNCHANGED <<pc[d], current[d], response[d]>>
  <2>1. CASE StartDaemon(e) \/ Listen(e) \/ StartFails(e)
    BY <1>0, <2>1 DEF StartDaemon, Listen, StartFails, Start, BuildOk, BuildFails, Goto,
       task, ipc, TypeOK
  <2>2. CASE Die(e)
    BY <1>0, <1>3, <2>2 DEF Die, Crash, Goto, TypeOK, ServiceInv, ConnInv, Types, IpcTypeOK
  <2>3. CASE Accept(e) \/ ReadEof(e)
    BY <1>0, <2>3 DEF Accept, ReadEof, vars, TypeOK, ServiceInv, ConnInv, Types, IpcTypeOK
  <2>4. CASE ReadRequest(e)
    BY <1>0, <2>4 DEF ReadRequest, Call, Goto, ipc, TypeOK
  <2>5. CASE WriteReply(e)
    BY <1>0, <1>3, <2>5 DEF WriteReply, Respond, Goto, task, TypeOK, ServiceInv, ConnInv,
       Types, IpcTypeOK
  <2>6. CASE Work(e)
    <3> USE <1>0 DEF Goto, Answer, task, TypeOK
    <3>1. current' = current
      BY <2>6 DEF Work, ipc
    <3>2. pc'[d] = pc[d] /\ response'[d] = response[d]
      <4>1. CASE RequireHealthy(e) \/ Unhealthy(e) \/ LoadEnrolled(e) \/ NoEnrolledTemplate(e)
        BY <4>1 DEF RequireHealthy, Unhealthy, LoadEnrolled, NoEnrolledTemplate
      <4>2. CASE CheckVacant(e) \/ AlreadyEnrolled(e) \/ LoadFails(e) \/ OpenCapture(e)
                 \/ OpenFails(e) \/ SaveAll(e) \/ SaveFails(e)
        BY <4>2 DEF CheckVacant, AlreadyEnrolled, LoadFails, OpenCapture, OpenFails,
           SaveAll, SaveFails
      <4>3. CASE Stream(e)
        BY <4>3 DEF Stream, DiscardFrame, PullProbe, CollectEmbedding, FrameFails, EndVerify,
           NoTemplate, PushTemplate
      <4> QED BY <2>6, <4>1, <4>2, <4>3 DEF Work, Operate
    <3> QED BY <3>1, <3>2
  <2> QED BY <1>3, <2>1, <2>2, <2>3, <2>4, <2>5, <2>6 DEF DaemonStep, ServeStep
<1> QED BY <1>1, <1>2, <1>3 DEF IpcNext

LEMMA FinishedStays ==
  ASSUME ServiceInv, [IpcNext]_allVars, NEW k \in Conn, Finished(k)
  PROVE  Finished(k)'
<1>1. CASE reply[k] # "none"
  BY <1>1, RepliesStay DEF Finished
<1>2. ASSUME NEW d \in Daemons, current[d] = k, pc[d] = "reply" PROVE Finished(k)'
  <2>1. CASE UNCHANGED <<pc[d], current[d], response[d]>>
    BY <1>2, <2>1 DEF Finished
  <2>2. CASE WriteReply(d)
    <3>1. reply'[k] = response[d] /\ response[d] \in Response
      BY <1>2, <2>2 DEF WriteReply, ServiceInv, ConnInv, Types, IpcTypeOK, TypeOK
    <3> QED BY <3>1 DEF Finished, Response
  <2>3. CASE Die(d)
    BY <1>2, <2>3 DEF Die, Held, Finished
  <2> QED BY <1>2, <2>1, <2>2, <2>3, ReplyPending
<1> QED BY <1>1, <1>2 DEF Finished

(* Only a save makes an answer that acknowledges a template.               *)
LEMMA OnlySaves ==
  ASSUME TypeOK, [Next]_vars, NEW d \in Daemons, ~ SaveAll(d),
         pc'[d] = "reply", response'[d] \in Saved
  PROVE  pc[d] = "reply" /\ response[d] = response'[d]
<1> USE DEF Goto, Answer, Fresh, task, TypeOK, Saved
<1>1. CASE UNCHANGED vars
  BY <1>1 DEF vars
<1>2. ASSUME NEW e \in Daemons, Step(e)
      PROVE  pc[d] = "reply" /\ response[d] = response'[d]
  <2>1. CASE Live(e) \/ Respond(e) \/ \E op \in Ops, u \in Users : Call(e, op, u)
    BY <2>1 DEF Live, Start, BuildOk, BuildFails, Crash, Respond, Call
  <2>2. CASE RequireHealthy(e) \/ Unhealthy(e) \/ LoadEnrolled(e) \/ NoEnrolledTemplate(e)
    BY <2>2 DEF RequireHealthy, Unhealthy, LoadEnrolled, NoEnrolledTemplate
  <2>3. CASE CheckVacant(e) \/ AlreadyEnrolled(e) \/ LoadFails(e) \/ OpenCapture(e)
             \/ OpenFails(e) \/ SaveFails(e)
    BY <2>3 DEF CheckVacant, AlreadyEnrolled, LoadFails, OpenCapture, OpenFails, SaveFails
  <2>4. CASE SaveAll(e)
    BY <2>4 DEF SaveAll
  <2>5. CASE Stream(e)
    BY <2>5 DEF Stream, DiscardFrame, PullProbe, CollectEmbedding, FrameFails, EndVerify,
       NoTemplate, PushTemplate
  <2> QED BY <1>2, <2>1, <2>2, <2>3, <2>4, <2>5 DEF Step, Operate
<1> QED BY <1>1, <1>2 DEF Next

LEMMA SaveStaysOn ==
  ASSUME ServiceInv, [IpcNext]_allVars, NEW d \in Daemons, pc[d] = "save", pc'[d] = "reply"
  PROVE  current'[d] = current[d]
<1>0. TypeOK
  BY DEF ServiceInv, ConnInv, Types
<1>1. CASE UNCHANGED allVars
  BY <1>1 DEF allVars, ipc
<1>2. ASSUME NEW e \in Daemons, DaemonStep(e) PROVE current'[d] = current[d]
  BY <1>0, <1>2 DEF DaemonStep, ServeStep, StartDaemon, Listen, StartFails, Die, Accept,
     ReadRequest, ReadEof, Work, WriteReply, ipc, vars, Crash, Respond, Goto, TypeOK,
     ServiceInv, ConnInv, Types, IpcTypeOK
<1>3. ASSUME NEW c \in Clients, ClientStep(c) PROVE current'[d] = current[d]
  BY <1>3 DEF ClientStep, NoUserName, LookupFails, Connect, SendRequest, Receive, GiveUp, Hangup
<1> QED BY <1>1, <1>2, <1>3 DEF IpcNext

LEMMA NothingNewAcknowledged ==
  ASSUME ServiceInv, ServiceInv', [IpcNext]_allVars, NEW k \in Conn, Acknowledged(k)',
         \A d \in Daemons : current[d] = k => ~ SaveAll(d)
  PROVE  Acknowledged(k)
<1>0. TypeOK /\ [Next]_vars
  BY AppStep DEF ServiceInv, ConnInv, Types
<1>1. CASE reply'[k] \in Saved
  <2>1. CASE reply'[k] = reply[k]
    BY <1>1, <2>1 DEF Acknowledged
  <2>2. CASE reply'[k] # reply[k]
    <3>1. PICK d \in Daemons : WriteReply(d)
      BY <1>1, <2>2 DEF IpcNext, allVars, ipc, DaemonStep, ServeStep, StartDaemon, Listen,
         StartFails, Die, Accept, ReadRequest, ReadEof, Work, ClientStep, NoUserName, LookupFails,
         Connect, SendRequest, Receive, GiveUp, Hangup, Saved
    <3>2. /\ reply' = [reply EXCEPT ![current[d]] = response[d]] /\ pc[d] = "reply"
          /\ reply \in [Conn -> Outcome]
      BY <3>1 DEF WriteReply, Respond, ServiceInv, ConnInv, Types, IpcTypeOK
    <3>3. k = current[d] /\ response[d] \in Saved
      BY <1>1, <2>2, <3>2
    <3> QED BY <3>2, <3>3 DEF Acknowledged
  <2> QED BY <2>1, <2>2
<1>2. ASSUME NEW d \in Daemons, current'[d] = k, pc'[d] = "reply", response'[d] \in Saved
      PROVE  Acknowledged(k)
  <2>1. CASE SaveAll(d)
    <3>2. current'[d] = current[d]
      BY <1>2, <2>1, SaveStaysOn DEF SaveAll
    <3> QED BY <1>2, <2>1, <3>2
  <2>2. CASE ~ SaveAll(d)
    <3>1. pc[d] = "reply" /\ response[d] = response'[d]
      BY <1>0, <1>2, <2>2, OnlySaves
    <3>2. current'[d] = current[d]
      <4>1. ~ WriteReply(d) /\ ~ Die(d)
        BY <1>0, <1>2 DEF WriteReply, Respond, Die, Crash, Goto, TypeOK
      <4> QED BY <3>1, <4>1, ReplyPending
    <3> QED BY <1>2, <3>1, <3>2 DEF Acknowledged
  <2> QED BY <2>1, <2>2
<1> QED BY <1>1, <1>2 DEF Acknowledged

LEMMA AcknowledgedAsked ==
  ASSUME ServiceInv, NEW k \in Conn, Acknowledged(k)
  PROVE  asked[k] \in Request
<1>1. CASE reply[k] \in Saved
  BY <1>1 DEF ServiceInv, DeliveredInv, Saved, Response
<1>2. ASSUME NEW d \in Daemons, current[d] = k, pc[d] = "reply" PROVE asked[k] \in Request
  <2>1. req[d] = asked[k]
    BY <1>2 DEF ServiceInv, ConnInv, HeldInv, Working
  <2>2. req[d] \in Request
    BY DEF ServiceInv, ConnInv, Types, TypeOK
  <2> QED BY <2>1, <2>2
<1> QED BY <1>1, <1>2 DEF Acknowledged

LEMMA FinishedWritesGrow ==
  ASSUME ServiceInv, [IpcNext]_allVars, NEW u \in Users
  PROVE  FinishedWrites(u) \subseteq FinishedWrites(u)'
<1> SUFFICES ASSUME NEW k \in FinishedWrites(u) PROVE k \in FinishedWrites(u)'
  OBVIOUS
<1>1. k \in Conn /\ asked[k] # NoRequest /\ asked[k].user = u /\ asked[k].op \in Writes
  BY DEF FinishedWrites, Sent
<1>2. asked'[k] = asked[k]
  BY <1>1, RequestsStay
<1>3. Finished(k)'
  BY <1>1, FinishedStays DEF FinishedWrites
<1> QED BY <1>1, <1>2, <1>3 DEF FinishedWrites, Sent

LEMMA AcknowledgedWritesSame ==
  ASSUME ServiceInv, ServiceInv', [IpcNext]_allVars, NEW u \in Users,
         NEW k \in AcknowledgedWrites(u)',
         \A d \in Daemons : current[d] = k => ~ SaveAll(d)
  PROVE  k \in AcknowledgedWrites(u)
<1>1. /\ k \in Conn /\ asked'[k] # NoRequest /\ asked'[k].user = u /\ asked'[k].op \in Writes
      /\ Acknowledged(k)'
  BY DEF AcknowledgedWrites, Sent
<1>2. Acknowledged(k)
  BY <1>1, NothingNewAcknowledged
<1>3. asked'[k] = asked[k]
  BY <1>1, <1>2, AcknowledgedAsked, RequestsStay, ClientsAssumption
<1> QED BY <1>1, <1>2, <1>3 DEF AcknowledgedWrites, Sent

LEMMA OnlySavesWrite ==
  ASSUME [Next]_vars
  PROVE  store' = store \/ \E d \in Daemons : SaveAll(d)
BY DEF vars, Next, Step, Live, Start, BuildOk, BuildFails, Crash, Call, Operate,
   RequireHealthy, Unhealthy, LoadEnrolled, NoEnrolledTemplate, CheckVacant,
   AlreadyEnrolled, LoadFails, OpenCapture, OpenFails, Stream, DiscardFrame,
   PullProbe, CollectEmbedding, FrameFails, EndVerify, NoTemplate, PushTemplate,
   SaveFails, Respond

LEMMA WritesFinite ==
  ASSUME IsFiniteSet(Clients)
  PROVE  /\ IsFiniteSet(Conn)
         /\ \A u : IsFiniteSet(FinishedWrites(u)) /\ IsFiniteSet(AcknowledgedWrites(u))
<1>1. IsFiniteSet(Conn)
  <2>1. IsFiniteSet(1 .. MaxAttempts)
    BY FS_Interval, ClientsAssumption
  <2> QED BY <2>1, FS_Product DEF Conn
<1>2. \A u : FinishedWrites(u) \in SUBSET Conn /\ AcknowledgedWrites(u) \in SUBSET Conn
  BY DEF FinishedWrites, AcknowledgedWrites, Sent
<1> QED BY <1>1, <1>2, FS_Subset

AccountedInv == IInv /\ ServiceInv /\ AccountInv

LEMMA AccountedStep ==
  ASSUME OneDaemon, IsFiniteSet(Clients), AccountedInv, [IpcNext]_allVars
  PROVE  AccountedInv'
<1>0. [Next]_vars /\ IInv /\ ServiceInv
  BY AppStep DEF AccountedInv, ServiceInv, ConnInv, Types
<1>1. IInv'
  BY <1>0, TypeOKStep, OperationStep, ReplyStep DEF IInv
<1>2. ServiceInv'
  BY <1>0, ServiceStep
<1>3. ASSUME NEW u \in Users
      PROVE  /\ Cardinality(AcknowledgedWrites(u)') <= Len(store'[u])
             /\ Len(store'[u]) <= Cardinality(FinishedWrites(u)')
  <2> DEFINE ack == AcknowledgedWrites(u)
             fin == FinishedWrites(u)
             ackN == AcknowledgedWrites(u)'
             finN == FinishedWrites(u)'
  <2>1. /\ Cardinality(ack) <= Len(store[u]) /\ Len(store[u]) <= Cardinality(fin)
        /\ Len(store[u]) \in Nat
    BY <1>0 DEF AccountedInv, AccountInv, IInv, TypeOK
  <2>2. /\ IsFiniteSet(ack) /\ IsFiniteSet(fin)
        /\ IsFiniteSet(ackN) /\ IsFiniteSet(finN)
    <3>1. AcknowledgedWrites(u)' \in SUBSET Conn /\ FinishedWrites(u)' \in SUBSET Conn
      BY DEF AcknowledgedWrites, FinishedWrites, Sent
    <3> QED BY <3>1, WritesFinite, FS_Subset
  <2>3. fin \subseteq finN
    BY <1>0, FinishedWritesGrow
  <2>4. CASE \A d \in Daemons : SaveAll(d) => req[d].user # u
    <3>1. store'[u] = store[u]
      <4>1. CASE store' = store
        BY <4>1
      <4>2. ASSUME NEW d \in Daemons, SaveAll(d) PROVE store'[u] = store[u]
        BY <1>0, <2>4, <4>2 DEF SaveAll, IInv, TypeOK
      <4> QED BY <1>0, <4>1, <4>2, OnlySavesWrite
    <3>2. ackN \subseteq ack
      <4> SUFFICES ASSUME NEW k \in AcknowledgedWrites(u)' PROVE k \in AcknowledgedWrites(u)
        OBVIOUS
      <4>1. ASSUME NEW d \in Daemons, current[d] = k, SaveAll(d) PROVE FALSE
        <5>1. req[d] = asked[k] /\ req[d] \in Request
          BY <1>0, <4>1 DEF SaveAll, ServiceInv, ConnInv, HeldInv, Working, Types, TypeOK
        <5>2. k \in Conn /\ asked'[k].user = u
          BY DEF AcknowledgedWrites, Sent
        <5>3. asked'[k] = asked[k]
          BY <1>0, <5>1, <5>2, RequestsStay, ClientsAssumption
        <5> QED BY <2>4, <4>1, <5>1, <5>2, <5>3
      <4> QED BY <1>0, <1>2, <4>1, AcknowledgedWritesSame
    <3> HIDE DEF ack, fin, ackN, finN
    <3>3. Cardinality(ackN) <= Cardinality(ack) /\ Cardinality(fin) <= Cardinality(finN)
      BY <2>2, <2>3, <3>2, FS_Subset
    <3>4. /\ Cardinality(ackN) \in Nat /\ Cardinality(ack) \in Nat
          /\ Cardinality(fin) \in Nat /\ Cardinality(finN) \in Nat
      BY <2>2, FS_CardinalityType
    <3>5. Cardinality(ackN) <= Len(store'[u]) /\ Len(store'[u]) <= Cardinality(finN)
      BY <2>1, <3>1, <3>3, <3>4
    <3> QED BY <3>5 DEF ackN, finN
  <2>5. ASSUME NEW d \in Daemons, SaveAll(d), req[d].user = u
        PROVE  /\ Cardinality(AcknowledgedWrites(u)') <= Len(store'[u])
               /\ Len(store'[u]) <= Cardinality(FinishedWrites(u)')
    <3>1. \A e \in Daemons : e = d
      BY DEF OneDaemon
    <3>2. pc[d] = "save" /\ pc'[d] = "reply"
      BY <1>0, <2>5 DEF SaveAll, Answer, Goto, IInv, TypeOK
    <3>a. PICK k \in Conn : k = current[d]
      BY <1>0, <3>2 DEF ServiceInv, ConnInv, HeldInv, Working, Made
    <3>3. /\ asked[k] = req[d] /\ reply[k] = "none" /\ req[d] \in Request
          /\ req[d].op \in Writes
      <4>1. asked[k] = req[d] /\ reply[k] = "none"
        BY <1>0, <3>2, <3>a, NoConnAssumption DEF ServiceInv, ConnInv, HeldInv, Working
      <4>2. req[d] \in Request
        BY <1>0 DEF IInv, TypeOK
      <4>3. req[d].op \notin {"verify", "ping"}
        BY <1>0, <3>2 DEF ServiceInv, AnsweringInv
      <4> QED BY <4>1, <4>2, <4>3 DEF Request, Ops, Writes
    <3>4. k \notin fin
      BY <3>1, <3>2, <3>3, <3>a DEF FinishedWrites, Finished
    <3>5. k \in finN
      <4>1. asked'[k] = asked[k] /\ asked[k] # NoRequest
        BY <1>0, <3>3, RequestsStay, ClientsAssumption
      <4>2. current'[d] = current[d]
        BY <1>0, <3>2, SaveStaysOn
      <4>3. Finished(k)'
        BY <3>2, <3>a, <4>2 DEF Finished
      <4> QED BY <2>5, <3>3, <4>1, <4>3 DEF FinishedWrites, Sent
    <3>6. ackN \subseteq ack \cup {k}
      <4> SUFFICES ASSUME NEW x \in AcknowledgedWrites(u)', x # k
                   PROVE  x \in AcknowledgedWrites(u)
        OBVIOUS
      <4> QED BY <1>0, <1>2, <3>1, <3>a, AcknowledgedWritesSame
    <3>7. Len(store'[u]) = Len(store[u]) + 1
      <4>1. store' = [store EXCEPT ![u] = bundle[d]]
        BY <2>5 DEF SaveAll
      <4>2. \E t \in Embedding : bundle[d] = Append(store[u], t)
        BY <1>0, <2>5, <3>2 DEF IInv, OperationInv
      <4>3. store \in [Users -> Seq(Embedding)]
        BY <1>0 DEF IInv, TypeOK
      <4> QED BY <4>1, <4>2, <4>3
    <3> HIDE DEF ack, fin, ackN, finN
    <3>8. /\ IsFiniteSet(ack \cup {k}) /\ Cardinality(ack \cup {k}) <= Cardinality(ack) + 1
          /\ IsFiniteSet(fin \cup {k}) /\ Cardinality(fin \cup {k}) = Cardinality(fin) + 1
      <4>1. Cardinality(ack) \in Nat
        BY <2>2, FS_CardinalityType
      <4>2. /\ IsFiniteSet(ack \cup {k})
            /\ Cardinality(ack \cup {k}) = IF k \in ack THEN Cardinality(ack) ELSE Cardinality(ack) + 1
        BY <2>2, FS_AddElement
      <4>3. IsFiniteSet(fin \cup {k}) /\ Cardinality(fin \cup {k}) = Cardinality(fin) + 1
        BY <2>2, <3>4, FS_AddElement
      <4> QED BY <4>1, <4>2, <4>3
    <3>9. /\ Cardinality(ackN) <= Cardinality(ack \cup {k})
          /\ Cardinality(fin \cup {k}) <= Cardinality(finN)
      <4>1. fin \cup {k} \subseteq finN
        BY <2>3, <3>5
      <4> QED BY <2>2, <3>6, <3>8, <4>1, FS_Subset
    <3>10. /\ Cardinality(ackN) \in Nat /\ Cardinality(ack) \in Nat
           /\ Cardinality(fin) \in Nat /\ Cardinality(finN) \in Nat
           /\ Cardinality(ack \cup {k}) \in Nat
      BY <2>2, <3>8, FS_CardinalityType
    <3>11. Cardinality(ackN) <= Len(store'[u]) /\ Len(store'[u]) <= Cardinality(finN)
      BY <2>1, <3>7, <3>8, <3>9, <3>10
    <3> QED BY <3>11 DEF ackN, finN
  <2> QED BY <2>4, <2>5
<1>4. AccountInv'
  BY <1>3 DEF AccountInv
<1> QED BY <1>1, <1>2, <1>4 DEF AccountedInv

LEMMA AccountedInit == IpcInit => AccountedInv
<1> SUFFICES ASSUME IpcInit PROVE AccountedInv
  OBVIOUS
<1>1. IInv
  BY TypeOKInit, OperationInit, ReplyInit DEF IpcInit, IInv
<1>2. ServiceInv
  BY ServiceInit
<1>3. \A u \in Users : AcknowledgedWrites(u) = {} /\ FinishedWrites(u) = {} /\ store[u] = <<>>
  BY DEF IpcInit, Init, AcknowledgedWrites, FinishedWrites, Sent
<1>4. AccountInv
  BY <1>3, FS_EmptySet DEF AccountInv
<1> QED BY <1>1, <1>2, <1>4 DEF AccountedInv

(* With one daemon, every template a client was told of is there and no    *)
(* request made two, however many clients give up, retry or are killed and *)
(* however often the daemon dies between a save and its reply.             *)
THEOREM TemplatesCounted ==
  ASSUME OneDaemon, IsFiniteSet(Clients)
  PROVE  IpcSpec => []TemplatesAccounted
<1>1. ASSUME AccountedInv PROVE TemplatesAccounted
  <2> SUFFICES ASSUME NEW u \in Users
               PROVE  LET writes == Sent(u, {"enroll", "add_template"})
                          acknowledged == {k \in writes : reply[k] \in {"enroll_ok", "add_template_ok"}}
                      IN  /\ Cardinality(acknowledged) <= Len(store[u])
                          /\ Len(store[u]) <= Cardinality(writes)
    BY DEF TemplatesAccounted
  <2> DEFINE writes == Sent(u, {"enroll", "add_template"})
             acknowledged == {k \in writes : reply[k] \in {"enroll_ok", "add_template_ok"}}
  <2>1. /\ writes \in SUBSET Conn
        /\ acknowledged \subseteq AcknowledgedWrites(u)
        /\ FinishedWrites(u) \subseteq writes
    BY DEF Sent, AcknowledgedWrites, FinishedWrites, Acknowledged, Writes, Saved
  <2>2. /\ IsFiniteSet(Conn) /\ IsFiniteSet(AcknowledgedWrites(u)) /\ IsFiniteSet(FinishedWrites(u))
    BY WritesFinite
  <2>3. /\ Cardinality(AcknowledgedWrites(u)) <= Len(store[u])
        /\ Len(store[u]) <= Cardinality(FinishedWrites(u))
        /\ Len(store[u]) \in Nat
    BY <1>1 DEF AccountedInv, AccountInv, IInv, TypeOK
  <2> HIDE DEF writes, acknowledged
  <2>4. /\ IsFiniteSet(writes) /\ IsFiniteSet(acknowledged)
        /\ Cardinality(acknowledged) <= Cardinality(AcknowledgedWrites(u))
        /\ Cardinality(FinishedWrites(u)) <= Cardinality(writes)
    BY <2>1, <2>2, FS_Subset
  <2>5. /\ Cardinality(acknowledged) \in Nat /\ Cardinality(writes) \in Nat
        /\ Cardinality(AcknowledgedWrites(u)) \in Nat /\ Cardinality(FinishedWrites(u)) \in Nat
    BY <2>2, <2>4, FS_CardinalityType
  <2>6. Cardinality(acknowledged) <= Len(store[u]) /\ Len(store[u]) <= Cardinality(writes)
    BY <2>3, <2>4, <2>5
  <2> QED BY <2>6 DEF acknowledged, writes
<1>2. AccountedInv /\ [IpcNext]_allVars => AccountedInv'
  BY AccountedStep
<1> QED BY <1>1, <1>2, AccountedInit, PTL DEF IpcSpec

-------------------------------------------------------------------------------
(* The service and its parts                                               *)

(* Whatever connections, queues and clients do around it, the application  *)
(* core behaves as on its own: what is proved of Spec holds in the service.*)
THEOREM RunsApp == IpcSpec => Spec
<1>1. Types /\ [IpcNext]_allVars => [Next]_vars
  BY AppStep DEF Types
<1>2. IpcInit => Init
  BY DEF IpcInit
<1> QED BY <1>1, <1>2, TypesInit, TypesStep, PTL DEF IpcSpec, Spec

(* With one daemon an add-template, as a caller of the service sees it,    *)
(* appends to the templates on disk, although it loaded them a whole       *)
(* capture earlier.                                                        *)
THEOREM AddsKept ==
  ASSUME OneDaemon
  PROVE  IpcSpec => AddKeepsTemplates
<1>1. ASSUME IInv, NEW d \in Daemons, SaveAll(d)
      PROVE  \E t \in Embedding : store'[req[d].user] = Append(store[req[d].user], t)
  <2>1. store' = [store EXCEPT ![req[d].user] = bundle[d]] /\ pc[d] = "save"
    BY <1>1 DEF SaveAll
  <2>2. \E t \in Embedding : bundle[d] = Append(store[req[d].user], t)
    BY <1>1, <2>1 DEF IInv, OperationInv
  <2>3. req[d].user \in Users /\ store \in [Users -> Seq(Embedding)]
    BY <1>1 DEF IInv, TypeOK, Request
  <2>4. store'[req[d].user] = bundle[d]
    BY <2>1, <2>3
  <2> QED BY <2>2, <2>4
<1>2. IInv => [\A d \in Daemons :
                 LET u == req[d].user IN
                   SaveAll(d) /\ req[d].op = "add_template" =>
                     \E t \in Embedding : store'[u] = Append(store[u], t)]_allVars
  BY <1>1
<1> QED BY <1>2, RunsApp, Inductive, PTL DEF AddKeepsTemplates

-------------------------------------------------------------------------------
(* Refinement of AuthService                                               *)

(* The step of an operation that fixes its answer has the effect AuthService*)
(* gives a request with that answer; its other steps leave the templates.  *)
LEMMA OperateEffect ==
  ASSUME IInv, NEW d \in Daemons, Operate(d)
  PROVE  /\ pc[d] # "reply"
         /\ IF pc'[d] = "reply"
            THEN response'[d] \in Response /\ Service!Effect(req[d], response'[d])
            ELSE store' = store
<1>0. TypeOK /\ OperationInv
  BY DEF IInv
<1> DEFINE u == req[d].user
           Fixed == response'[d] \in Response /\ Service!Effect(req[d], response'[d])
<1>1. pc \in [Daemons -> Place] /\ response \in [Daemons -> Response]
  BY <1>0 DEF TypeOK
<1>2. ASSUME Answer(d, "error"), pc[d] # "reply", store' = store
      PROVE  pc[d] # "reply" /\ pc'[d] = "reply" /\ Fixed
  BY <1>1, <1>2 DEF Answer, Goto, Service!Effect, Response
<1>3. CASE RequireHealthy(d)
  <2>1. CASE req[d].op = "ping"
    BY <1>1, <1>3, <2>1 DEF RequireHealthy, Answer, Goto, Service!Effect, Response
  <2>2. CASE req[d].op # "ping"
    BY <1>1, <1>3, <2>2 DEF RequireHealthy, Goto
  <2> QED BY <2>1, <2>2
<1>4. CASE Unhealthy(d) \/ NoEnrolledTemplate(d) \/ AlreadyEnrolled(d) \/ LoadFails(d)
           \/ OpenFails(d) \/ FrameFails(d) \/ NoTemplate(d) \/ SaveFails(d)
  <2>1. Answer(d, "error") /\ pc[d] # "reply" /\ store' = store
    BY <1>4 DEF Unhealthy, NoEnrolledTemplate, AlreadyEnrolled, LoadFails, OpenFails,
       FrameFails, NoTemplate, SaveFails
  <2> QED BY <1>2, <2>1
<1>6. CASE LoadEnrolled(d) \/ CheckVacant(d) \/ OpenCapture(d) \/ PushTemplate(d)
           \/ DiscardFrame(d)
  BY <1>1, <1>6 DEF LoadEnrolled, CheckVacant, OpenCapture, PushTemplate, DiscardFrame, Goto
<1>7. ASSUME NEW p \in Probe, CollectEmbedding(d, p)
      PROVE  pc[d] # "reply" /\ pc'[d] # "reply" /\ store' = store
  BY <1>7 DEF CollectEmbedding
<1>8. ASSUME NEW p \in Probe, PullProbe(d, p)
      PROVE  pc[d] # "reply" /\ IF pc'[d] = "reply" THEN Fixed ELSE store' = store
  <2>1. /\ probes[d] \in Seq(Probe)
        /\ probes'[d] = Append(probes[d], p)
        /\ store' = store
        /\ pc[d] = "stream"
        /\ req[d].op = "verify"
    BY <1>0, <1>8 DEF PullProbe, TypeOK
  <2>2. CASE ~ verify_burst(bundle[d], probes'[d])
    BY <1>8, <2>1, <2>2 DEF PullProbe
  <2>3. CASE verify_burst(bundle[d], probes'[d])
    <3>1. Answer(d, "accepted")
      BY <1>8, <2>3 DEF PullProbe
    <3>2. bundle[d] = store[u] /\ ~ verify_burst(bundle[d], probes[d])
      BY <1>0, <2>1 DEF OperationInv
    <3>3. evaluate_probe_vs_templates(p, store[u])
      BY <2>1, <2>3, <3>2, BurstGrows
    <3>4. p \in Embedding
      BY <3>3 DEF evaluate_probe_vs_templates, Probe
    <3>5. Service!Accepts(u)
      BY <3>3, <3>4 DEF Service!Accepts
    <3> QED BY <1>1, <2>1, <3>1, <3>5 DEF Answer, Goto, Service!Effect, Response
  <2> QED BY <2>2, <2>3
<1>9. CASE EndVerify(d)
  <2>1. /\ store[u] # <<>>
        /\ ~ verify_burst(bundle[d], probes[d])
    BY <1>0, <1>9 DEF EndVerify, OperationInv
  <2>2. Answer(d, "rejected") /\ store' = store /\ req[d].op = "verify" /\ pc[d] = "stream"
    BY <1>9, <2>1 DEF EndVerify
  <2> QED BY <1>1, <2>1, <2>2 DEF Answer, Goto, Service!Effect, Response
<1>10. CASE SaveAll(d)
  <2>1. /\ pc[d] = "save"
        /\ store' = [store EXCEPT ![u] = bundle[d]]
        /\ pc'[d] = "reply"
        /\ response'[d] = IF req[d].op = "enroll" THEN "enroll_ok" ELSE "add_template_ok"
    BY <1>1, <1>10 DEF SaveAll, Answer, Goto
  <2>2. PICK t \in Embedding : bundle[d] = Append(store[u], t)
    BY <1>0, <2>1 DEF OperationInv
  <2>3. /\ req[d].op = "enroll" <=> store[u] = <<>>
        /\ req[d].op \in {"enroll", "add_template"}
    BY <1>0, <2>1 DEF OperationInv, TypeOK, Request, Ops
  <2>4. CASE req[d].op = "enroll"
    <3>1. Append(<<>>, t) = <<t>>
      OBVIOUS
    <3>2. store[u] = <<>> /\ store' = [store EXCEPT ![u] = <<t>>]
      BY <2>1, <2>2, <2>3, <2>4, <3>1
    <3>3. Service!EnrollUser(u)
      BY <3>2 DEF Service!EnrollUser
    <3> QED BY <2>1, <2>4, <3>3 DEF Service!Effect, Response
  <2>5. CASE req[d].op = "add_template"
    <3>1. store[u] # <<>> /\ store' = [store EXCEPT ![u] = Append(store[u], t)]
      BY <2>1, <2>2, <2>3, <2>5
    <3>2. Service!AddTemplate(u)
      BY <3>1 DEF Service!AddTemplate
    <3> QED BY <2>1, <2>5, <3>2 DEF Service!Effect, Response
  <2> QED BY <2>3, <2>4, <2>5
<1> QED
  BY <1>3, <1>4, <1>6, <1>7, <1>8, <1>9, <1>10 DEF Operate, Stream

(* What has become of the request of a connection, with the one daemon     *)
(* there is: the answer it is about to write, or what the caller was told. *)
Fate(d) == [k \in Conn |-> IF reply[k] = "none" /\ current[d] = k /\ pc[d] = "reply"
                           THEN response[d] ELSE reply[k]]

LEMMA ExecutedIsFate ==
  ASSUME OneDaemon, NEW d \in Daemons
  PROVE  executed = Fate(d) /\ executed' = Fate(d)'
<1>0. \A e \in Daemons : e = d
  BY DEF OneDaemon
<1>1. ASSUME NEW k \in Conn PROVE executed[k] = Fate(d)[k]
  <2>1. CASE current[d] = k /\ pc[d] = "reply"
    <3>1. Answering(k) = {d}
      BY <1>0, <2>1 DEF Answering
    <3>2. (CHOOSE e \in Daemons : e \in Answering(k)) = d
      BY <1>0, <3>1
    <3> QED BY <2>1, <3>1, <3>2 DEF executed, Fate
  <2>2. CASE ~ (current[d] = k /\ pc[d] = "reply")
    <3>1. Answering(k) = {}
      BY <1>0, <2>2 DEF Answering
    <3> QED BY <2>2, <3>1 DEF executed, Fate
  <2> QED BY <2>1, <2>2
<1>2. ASSUME NEW k \in Conn PROVE executed'[k] = Fate(d)'[k]
  <2>1. CASE current'[d] = k /\ pc'[d] = "reply"
    <3>1. Answering(k)' = {d}
      BY <1>0, <2>1 DEF Answering
    <3>2. (CHOOSE e \in Daemons : e \in Answering(k)') = d
      BY <1>0, <3>1
    <3> QED BY <2>1, <3>1, <3>2 DEF executed, Fate
  <2>2. CASE ~ (current'[d] = k /\ pc'[d] = "reply")
    <3>1. Answering(k)' = {}
      BY <1>0, <2>2 DEF Answering
    <3> QED BY <2>2, <3>1 DEF executed, Fate
  <2> QED BY <2>1, <2>2
<1> QED BY <1>1, <1>2 DEF executed, Fate

(* Work that fixes an answer is Execute, WriteReply is Tell, Die is Reset  *)
(* of the connections the process has, SendRequest is Ask; no other step   *)
(* is seen.                                                                *)
LEMMA DaemonRefines ==
  ASSUME OneDaemon, IInv, ServiceInv, NEW d \in Daemons, DaemonStep(d)
  PROVE  Service!ServiceNext \/ UNCHANGED Service!serviceVars
<1>0. executed = Fate(d) /\ executed' = Fate(d)'
  BY ExecutedIsFate
<1> DEFINE k == current[d]
<1>1. /\ pc \in [Daemons -> Place] /\ response \in [Daemons -> Response]
      /\ current \in [Daemons -> Conn \cup {NoConn}]
      /\ reply \in [Conn -> Outcome]
  BY DEF ServiceInv, ConnInv, Types, TypeOK, IpcTypeOK
<1>2. Working(d) => k \in Conn /\ reply[k] = "none" /\ req[d] = asked[k] /\ req[d] # NoRequest
  BY <1>1, ClientsAssumption DEF ServiceInv, ConnInv, HeldInv, Made, Types, TypeOK
<1>3. ASSUME pc[d] # "reply", pc'[d] # "reply", UNCHANGED <<store, asked, reply>>
      PROVE  UNCHANGED Service!serviceVars
  BY <1>0, <1>3 DEF Service!serviceVars, Fate
<1>4. CASE StartDaemon(d) \/ Listen(d) \/ StartFails(d)
  BY <1>1, <1>3, <1>4 DEF StartDaemon, Listen, StartFails, Start, BuildOk, BuildFails, Goto, ipc
<1>5. CASE Accept(d) \/ ReadEof(d)
  BY <1>1, <1>3, <1>5 DEF Accept, ReadEof, vars
<1>6. CASE ReadRequest(d)
  BY <1>1, <1>3, <1>6 DEF ReadRequest, Call, Goto, ipc
<1>7. CASE Die(d)
  <2>1. /\ pc'[d] = "down"
        /\ UNCHANGED <<store, asked>>
        /\ reply' = [j \in Conn |-> IF j \in Held(d) THEN "io_error" ELSE reply[j]]
    BY <1>1, <1>7 DEF Die, Crash, Goto
  <2>2. Held(d) \in SUBSET Conn /\ (\A j \in Held(d) : reply[j] = "none")
    <3>1. HeldInv
      BY DEF ServiceInv, ConnInv
    <3>2. NoConn \notin Conn
      BY NoConnAssumption
    <3>3. /\ current[d] # NoConn => reply[current[d]] = "none"
          /\ \A i \in DOMAIN backlog[d] : reply[backlog[d][i]] = "none"
      BY <3>1 DEF HeldInv
    <3> QED BY <3>2, <3>3 DEF Held
  <2>3. \A j \in Conn : j \notin Held(d) => executed[j] = reply[j]
    BY <1>0 DEF Fate, Held
  <2>4. executed' = [j \in Conn |-> IF j \in Held(d) THEN "io_error" ELSE executed[j]]
    BY <1>0, <2>1, <2>3 DEF Fate
  <2>5. Service!Reset(Held(d))
    BY <2>1, <2>2, <2>4 DEF Service!Reset
  <2> QED BY <2>2, <2>5 DEF Service!ServiceNext
<1>8. CASE WriteReply(d)
  <2>1. /\ pc[d] = "reply" /\ pc'[d] # "reply"
        /\ UNCHANGED <<store, asked>>
        /\ reply' = [reply EXCEPT ![k] = response[d]]
    BY <1>1, <1>8 DEF WriteReply, Respond, Goto
  <2>2. k \in Conn /\ reply[k] = "none" /\ response[d] # "none"
    BY <1>1, <1>2, <2>1 DEF Working, Response
  <2>3. executed[k] = response[d]
    BY <1>0, <2>1, <2>2 DEF Fate
  <2>4. executed' = executed
    BY <1>0, <1>1, <2>1, <2>2 DEF Fate
  <2>5. Service!Tell(k)
    BY <2>1, <2>2, <2>3, <2>4 DEF Service!Tell
  <2> QED BY <2>2, <2>5 DEF Service!ServiceNext
<1>9. CASE Work(d)
  <2>1. Operate(d) /\ UNCHANGED <<current, asked, reply>>
    BY <1>9 DEF Work, ipc
  <2>2. /\ pc[d] # "reply"
        /\ IF pc'[d] = "reply"
           THEN response'[d] \in Response /\ Service!Effect(req[d], response'[d])
           ELSE store' = store
    BY <2>1, OperateEffect
  <2>3. CASE pc'[d] # "reply"
    BY <1>3, <2>1, <2>2, <2>3
  <2>4. CASE pc'[d] = "reply"
    <3>1. Working(d)
      BY <2>1, OperateFrame DEF ServiceInv, ConnInv, Types
    <3>2. k \in Conn /\ reply[k] = "none" /\ req[d] = asked[k] /\ asked[k] # NoRequest
      BY <1>2, <3>1
    <3>3. executed[k] = "none"
      BY <1>0, <2>2, <3>2 DEF Fate
    <3>4. executed' = [executed EXCEPT ![k] = response'[d]]
      BY <1>0, <2>1, <2>2, <2>4, <3>2 DEF Fate
    <3>5. Service!Execute(k, response'[d])
      BY <2>1, <2>2, <2>4, <3>2, <3>3, <3>4 DEF Service!Execute
    <3>6. response'[d] \in Service!Answer
      BY <2>2, <2>4 DEF Response, Service!Answer
    <3> QED BY <3>2, <3>5, <3>6 DEF Service!ServiceNext
  <2> QED BY <2>3, <2>4
<1> QED BY <1>4, <1>5, <1>6, <1>7, <1>8, <1>9 DEF DaemonStep, ServeStep

LEMMA ClientRefines ==
  ASSUME ServiceInv, NEW c \in Clients, ClientStep(c)
  PROVE  Service!ServiceNext \/ UNCHANGED Service!serviceVars
<1>1. UNCHANGED <<store, reply>> /\ executed' = executed
  <2>1. UNCHANGED <<store, pc, response, current, reply>>
    BY DEF ClientStep, NoUserName, LookupFails, Connect, SendRequest, Receive, GiveUp, Hangup, vars
  <2> QED BY <2>1 DEF executed, Answering
<1>2. CASE NoUserName(c) \/ LookupFails(c) \/ Connect(c) \/ Receive(c) \/ GiveUp(c)
  BY <1>1, <1>2 DEF NoUserName, LookupFails, Connect, Receive, GiveUp, Hangup, Service!serviceVars
<1>3. ASSUME NEW r \in MayAsk(c), SendRequest(c, r) PROVE Service!ServiceNext
  <2>1. IpcTypeOK /\ attempt[c] # 0
    BY <1>3 DEF SendRequest, Pending, ServiceInv, ConnInv, Types, IpcTypeOK
  <2>2. Mine(c) \in Conn /\ r \in Request
    BY <2>1, MineIsConn, MayAskType
  <2>3. Service!Ask(Mine(c))
    BY <1>1, <1>3, <2>2 DEF SendRequest, Service!Ask
  <2> QED BY <2>2, <2>3 DEF Service!ServiceNext
<1> QED BY <1>2, <1>3 DEF ClientStep

LEMMA ServiceRefines ==
  ASSUME OneDaemon, IInv, ServiceInv, [IpcNext]_allVars
  PROVE  [Service!ServiceNext]_(Service!serviceVars)
<1>1. CASE UNCHANGED allVars
  BY <1>1 DEF allVars, vars, ipc, Service!serviceVars, executed, Answering
<1> QED BY <1>1, DaemonRefines, ClientRefines DEF IpcNext

(* With one daemon a caller sees an atomic service through the queue, the  *)
(* time limits, the crashes and the steps of the operations: its request   *)
(* takes effect at most once, after it is written and before its answer,   *)
(* and the answer it reads is the one that effect had.                     *)
THEOREM RefinesAuthService ==
  ASSUME OneDaemon
  PROVE  IpcSpec => ImplementsAuthService
<1>1. IpcInit => Service!ServiceInit
  BY DEF IpcInit, Init, Service!ServiceInit, executed, Answering
<1>2. IInv /\ ServiceInv /\ [IpcNext]_allVars => [Service!ServiceNext]_(Service!serviceVars)
  BY ServiceRefines
<1> QED
  BY <1>1, <1>2, RunsApp, Inductive, ServiceInvariant, PTL
  DEF IpcSpec, ImplementsAuthService, Service!ServiceSpec

===============================================================================
