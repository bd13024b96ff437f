------------------------------ MODULE IpcService ------------------------------
(***************************************************************************)
(* The service as its callers meet it: the daemon processes of TrueIdApp   *)
(* behind the one Unix socket path, and the short-lived clients (trueid    *)
(* the CLI, the PAM module) that connect, write one request line and wait  *)
(* for one reply line (inbound/ipc.rs, daemon main.rs, trueid-ipc,         *)
(* trueid-pam).                                                            *)
(*                                                                         *)
(* A connection is <<client, attempt>>.  The kernel keeps accepted-to-be   *)
(* connections in the listening socket's backlog and the request line in   *)
(* the connection, also after its client is gone.                          *)
(***************************************************************************)
EXTENDS TrueIdApp

CONSTANTS
  Clients,      (* CLI and PAM invocations                                 *)
  Commands,     (* Commands[c]: the requests CLI client c may be run with  *)
  Login,        (* Login[c]: the user name PAM client c is to authenticate *)
  Passwd,       (* the uids of those names                                 *)
  MaxAttempts,  (* model bound: connections per client                     *)
  NoConn,       (* the daemon is between connections                       *)
  NoRequest,    (* no line has been written on the connection              *)
  NoFile,       (* no file at SOCKET_PATH                                  *)
  StaleFile     (* a file at SOCKET_PATH whose socket nobody listens on    *)

ASSUME ClientsAssumption ==
  /\ DOMAIN Login \subseteq Clients
  /\ Commands \in [Clients \ DOMAIN Login -> SUBSET Request]
  /\ \A c \in DOMAIN Login : Passwd[Login[c]] \in Users
  /\ MaxAttempts \in Nat
  /\ NoRequest \notin Request

ASSUME PathAssumption == {NoFile, StaleFile} \cap Daemons = {} /\ NoFile # StaleFile

Conn == Clients \X (1 .. MaxAttempts)

ASSUME NoConnAssumption == NoConn \notin Conn

VARIABLES
  path,      (* what SOCKET_PATH leads to                                  *)
  backlog,   (* backlog[d]: connections d has not accepted yet             *)
  current,   (* current[d]: the connection handle_connection works on      *)
  attempt,   (* attempt[c]: connections client c has made                  *)
  outcome,   (* outcome[c]: what send_request returned last, or "pending"  *)
  asked,     (* asked[k]: the request line written on connection k         *)
  gone,      (* the connections whose client end is closed                 *)
  reply      (* reply[k]: what the daemon end delivered last on k          *)

ipc == <<path, backlog, current, attempt, outcome, asked, gone, reply>>
allVars == <<vars, ipc>>

Outcome == Response \cup {"none", "pending", "io_error", "no_conversation", "unknown_user"}

IsPam(c) == c \in DOMAIN Login

MayAsk(c) == IF IsPam(c) THEN {[op |-> "verify", user |-> Passwd[Login[c]]]}
             ELSE Commands[c]

Mine(c) == <<c, attempt[c]>>
Pending(c) == outcome[c] = "pending"

(* The connections whose daemon end process d has.                         *)
Held(d) == {k \in Conn : k = current[d] \/ \E i \in DOMAIN backlog[d] : backlog[d][i] = k}

IpcInit ==
  /\ Init
  /\ path = NoFile
  /\ backlog = [d \in Daemons |-> <<>>]
  /\ current = [d \in Daemons |-> NoConn]
  /\ attempt = [c \in Clients |-> 0]
  /\ outcome = [c \in Clients |-> "none"]
  /\ asked = [k \in Conn |-> NoRequest]
  /\ gone = {}
  /\ reply = [k \in Conn |-> "none"]

-------------------------------------------------------------------------------
(* Daemon processes                                                        *)

(* main removes whatever is at the path, then builds the application.      *)
StartDaemon(d) ==
  /\ Start(d)
  /\ path' = NoFile
  /\ UNCHANGED <<backlog, current, attempt, outcome, asked, gone, reply>>

(* The build succeeded: bind creates the file.                             *)
Listen(d) ==
  /\ BuildOk(d)
  /\ path = NoFile
  /\ path' = d
  /\ UNCHANGED <<backlog, current, attempt, outcome, asked, gone, reply>>

(* The build fails, or bind finds a file that came meanwhile: main ends.   *)
StartFails(d) ==
  /\ BuildFails(d)
  /\ UNCHANGED ipc

(* The kernel resets every connection the process had; the file stays.     *)
Die(d) ==
  /\ Crash(d)
  /\ path' = IF path = d THEN StaleFile ELSE path
  /\ reply' = [k \in Conn |-> IF k \in Held(d) THEN "io_error" ELSE reply[k]]
  /\ backlog' = [backlog EXCEPT ![d] = <<>>]
  /\ current' = [current EXCEPT ![d] = NoConn]
  /\ UNCHANGED <<attempt, outcome, asked, gone>>

(* Faulty variant: one thread per connection, one set of locals.           *)
Accept_while_busy(d) ==
  /\ pc[d] \notin {"down", "starting"}
  /\ backlog[d] # <<>>
  /\ current' = [current EXCEPT ![d] = Head(backlog[d])]
  /\ backlog' = [backlog EXCEPT ![d] = Tail(@)]
  /\ UNCHANGED <<vars, path, attempt, outcome, asked, gone, reply>>

(* listener.incoming(): the next connection, whoever it is from.           *)
Accept(d) ==
  /\ pc[d] = "idle"
  /\ current[d] = NoConn
  /\ backlog[d] # <<>>
  /\ current' = [current EXCEPT ![d] = Head(backlog[d])]
  /\ backlog' = [backlog EXCEPT ![d] = Tail(@)]
  /\ UNCHANGED <<vars, path, attempt, outcome, asked, gone, reply>>

(* read_line has its line: dispatch.  No timeout limits the wait for it.   *)
ReadRequest(d) ==
  /\ current[d] # NoConn
  /\ asked[current[d]] # NoRequest
  /\ Call(d, asked[current[d]].op, asked[current[d]].user)
  /\ UNCHANGED ipc

(* Faulty variant: the end of a connection without a line is not noticed.  *)
ReadEof_ignored(d) ==
  /\ pc[d] = "idle"
  /\ current[d] \in gone
  /\ asked[current[d]] # NoRequest
  /\ current' = [current EXCEPT ![d] = NoConn]
  /\ UNCHANGED <<vars, path, backlog, attempt, outcome, asked, gone, reply>>

(* The client closed without a line: invalid request json, connection      *)
(* dropped.                                                                *)
ReadEof(d) ==
  /\ pc[d] = "idle"
  /\ current[d] \in gone
  /\ asked[current[d]] = NoRequest
  /\ current' = [current EXCEPT ![d] = NoConn]
  /\ UNCHANGED <<vars, path, backlog, attempt, outcome, asked, gone, reply>>

Work(d) ==
  /\ Operate(d)
  /\ UNCHANGED ipc

(* Faulty variant: the connection is served again after its reply.         *)
WriteReply_again(d) ==
  /\ Respond(d)
  /\ reply' = [reply EXCEPT ![current[d]] = response[d]]
  /\ UNCHANGED <<path, backlog, current, attempt, outcome, asked, gone>>

(* The reply line; to a client that is gone the write fails and is logged. *)
WriteReply(d) ==
  /\ Respond(d)
  /\ reply' = [reply EXCEPT ![current[d]] = response[d]]
  /\ current' = [current EXCEPT ![d] = NoConn]
  /\ UNCHANGED <<path, backlog, attempt, outcome, asked, gone>>

-------------------------------------------------------------------------------
(* Clients: trueid_ipc::send_request                                       *)

(* pam_sm_authenticate has no name to look up: the conversation with the   *)
(* user failed, or what it gave is null or empty.                          *)
NoUserName(c) ==
  /\ ~ Pending(c)
  /\ attempt[c] < MaxAttempts
  /\ IsPam(c)
  /\ attempt' = [attempt EXCEPT ![c] = @ + 1]
  /\ \E result \in {"no_conversation", "unknown_user"} : outcome' = [outcome EXCEPT ![c] = result]
  /\ UNCHANGED <<vars, path, backlog, current, asked, gone, reply>>

(* lookup_uid: the user database fails, or does not know the name.         *)
LookupFails(c) ==
  /\ ~ Pending(c)
  /\ attempt[c] < MaxAttempts
  /\ IsPam(c)
  /\ attempt' = [attempt EXCEPT ![c] = @ + 1]
  /\ \E result \in {"unknown_user", "io_error"} : outcome' = [outcome EXCEPT ![c] = result]
  /\ UNCHANGED <<vars, path, backlog, current, asked, gone, reply>>

Connect(c) ==
  /\ ~ Pending(c)
  /\ attempt[c] < MaxAttempts
  /\ attempt' = [attempt EXCEPT ![c] = @ + 1]
  /\ IF path \in Daemons
     THEN /\ outcome' = [outcome EXCEPT ![c] = "pending"]
          /\ backlog' = [backlog EXCEPT ![path] = Append(@, <<c, attempt[c] + 1>>)]
     ELSE /\ outcome' = [outcome EXCEPT ![c] = "io_error"]
          /\ UNCHANGED backlog
  /\ UNCHANGED <<vars, path, current, asked, gone, reply>>

SendRequest(c, r) ==
  /\ Pending(c)
  /\ asked[Mine(c)] = NoRequest
  /\ reply[Mine(c)] = "none"
  /\ r \in MayAsk(c)
  /\ asked' = [asked EXCEPT ![Mine(c)] = r]
  /\ UNCHANGED <<vars, path, backlog, current, attempt, outcome, gone, reply>>

Hangup(c, result) ==
  /\ outcome' = [outcome EXCEPT ![c] = result]
  /\ gone' = gone \cup {Mine(c)}
  /\ UNCHANGED <<vars, path, backlog, current, attempt, asked, reply>>

(* Faulty variant: the read does not wait for the line.                    *)
Receive_early(c) ==
  /\ Pending(c)
  /\ Hangup(c, reply[Mine(c)])

(* A reply line, or the end of a connection its daemon did not outlive.    *)
Receive(c) ==
  /\ Pending(c)
  /\ reply[Mine(c)] # "none"
  /\ Hangup(c, reply[Mine(c)])

(* IPC_READ_TIMEOUT passes before the reply, or the client is killed.  Its *)
(* line stays in the connection: the daemon will still execute it.         *)
GiveUp(c) ==
  /\ Pending(c)
  /\ Hangup(c, "io_error")

(* Faulty variant: any verify result lets the user in.                     *)
PamResult_any_answer(result) ==
  CASE result \in {"accepted", "rejected"} -> "PAM_SUCCESS"
    [] result = "error" -> "PAM_AUTH_ERR"
    [] OTHER -> "PAM_SERVICE_ERR"

(* pam_sm_authenticate, of what became of the conversation, the lookup and *)
(* the Verify.  The status of a failed conversation is returned as it is:  *)
(* PAM_CONV_ERR stands for the codes that are not PAM_SUCCESS.             *)
PamResult(result) ==
  CASE result = "accepted" -> "PAM_SUCCESS"
    [] result \in {"rejected", "error"} -> "PAM_AUTH_ERR"
    [] result = "unknown_user" -> "PAM_USER_UNKNOWN"
    [] result = "no_conversation" -> "PAM_CONV_ERR"
    [] OTHER -> "PAM_SERVICE_ERR"

(* Faulty variant: an error the daemon answers is printed, and forgotten.  *)
ExitCode_of_any_answer(op, result) == IF result \in Response THEN 0 ELSE 1

(* The exit code of trueid-ctl for the result of its request.              *)
ExitCode(op, result) ==
  CASE op = "ping" /\ result = "pong" -> 0
    [] op = "verify" /\ result = "accepted" -> 0
    [] op = "enroll" /\ result = "enroll_ok" -> 0
    [] op = "add_template" /\ result = "add_template_ok" -> 0
    [] OTHER -> 1

-------------------------------------------------------------------------------

ServeStep(d) == Accept(d) \/ ReadRequest(d) \/ ReadEof(d) \/ Work(d) \/ WriteReply(d)

DaemonStep(d) ==
  \/ StartDaemon(d)
  \/ Listen(d)
  \/ StartFails(d)
  \/ Die(d)
  \/ ServeStep(d)

ClientStep(c) ==
  \/ NoUserName(c)
  \/ LookupFails(c)
  \/ Connect(c)
  \/ \E r \in MayAsk(c) : SendRequest(c, r)
  \/ Receive(c)
  \/ GiveUp(c)

IpcNext == (\E d \in Daemons : DaemonStep(d)) \/ (\E c \in Clients : ClientStep(c))

IpcSpec == IpcInit /\ [][IpcNext]_allVars

(* A daemon keeps serving, and a client that has connected writes its line *)
(* and reads its reply.  Nothing makes a client time out, or a daemon      *)
(* start.                                                                  *)
IpcFairSpec ==
  /\ IpcSpec
  /\ \A d \in Daemons : WF_allVars(ServeStep(d))
  /\ \A c \in Clients : WF_allVars(\E r \in MayAsk(c) : SendRequest(c, r))
  /\ \A c \in Clients : WF_allVars(Receive(c))

-------------------------------------------------------------------------------
(* Properties                                                              *)

(* Every variable holds values of its type, and a client has an outcome    *)
(* exactly when it has tried.                                              *)
IpcTypeOK ==
  /\ path \in Daemons \cup {NoFile, StaleFile}
  /\ backlog \in [Daemons -> Seq(Conn)]
  /\ current \in [Daemons -> Conn \cup {NoConn}]
  /\ attempt \in [Clients -> 0 .. MaxAttempts]
  /\ outcome \in [Clients -> Outcome]
  /\ \A c \in Clients : outcome[c] = "none" <=> attempt[c] = 0
  /\ asked \in [Conn -> Request \cup {NoRequest}]
  /\ gone \subseteq Conn
  /\ reply \in [Conn -> Outcome]

(* A daemon always works for the connection it is on: while an operation   *)
(* runs its request is the one that connection asked, no other daemon has  *)
(* that connection, and nobody waits in a queue twice.  So a reply never   *)
(* reaches another client than the one whose request it answers.           *)
WorksForItsCaller ==
  \A d \in Daemons :
    /\ pc[d] \notin {"down", "starting", "idle"} =>
         /\ current[d] # NoConn
         /\ req[d] = asked[current[d]]
         /\ reply[current[d]] = "none"
    /\ \A e \in Daemons \ {d} : current[d] # NoConn => current[e] # current[d]
    /\ \A i, j \in DOMAIN backlog[d] : backlog[d][i] = backlog[d][j] => i = j
    /\ \A i \in DOMAIN backlog[d] : reply[backlog[d][i]] = "none"

Sent(u, ops) == {k \in Conn : asked[k] # NoRequest /\ asked[k].user = u /\ asked[k].op \in ops}

(* A template exists for every success a client was told of, and for no    *)
(* more than the requests that were sent: a timeout, a reset or a crash    *)
(* loses no acknowledged template and makes none appear twice.             *)
TemplatesAccounted ==
  \A u \in Users :
    LET writes == Sent(u, {"enroll", "add_template"})
        acknowledged == {k \in writes : reply[k] \in {"enroll_ok", "add_template_ok"}}
    IN  /\ Cardinality(acknowledged) <= Len(store[u])
        /\ Len(store[u]) <= Cardinality(writes)

(* PAM lets a user in only when the daemon accepted the verify this very   *)
(* connection asked for the uid of that user name, and then the user has   *)
(* templates.                                                              *)
LoginSound ==
  \A c \in DOMAIN Login :
    PamResult(outcome[c]) = "PAM_SUCCESS" =>
      /\ reply[Mine(c)] = "accepted"
      /\ asked[Mine(c)] = [op |-> "verify", user |-> Passwd[Login[c]]]
      /\ store[Passwd[Login[c]]] # <<>>

(* trueid-ctl exits with 0 only when the daemon did what it was asked:     *)
(* the user of an accepted verify, an enroll or an add-template has        *)
(* templates then, and no daemon is still at work for the call.            *)
ExitSound ==
  \A c \in Clients \ DOMAIN Login :
    attempt[c] > 0 /\ asked[Mine(c)] # NoRequest =>
      LET r == asked[Mine(c)]
      IN  ExitCode(r.op, outcome[c]) = 0 =>
            /\ reply[Mine(c)] \notin {"rejected", "error"}
            /\ r.op = "ping" \/ store[r.user] # <<>>
            /\ \A d \in Daemons : current[d] # Mine(c)

(* Seen from the callers, with their timeouts and retries, the queue and   *)
(* the daemon's crashes, a request takes effect at most once, and the      *)
(* answer read on a connection is that of the effect its own request had.  *)
Answering(k) == {d \in Daemons : current[d] = k /\ pc[d] = "reply"}

executed ==
  [k \in Conn |->
     IF reply[k] # "none" \/ Answering(k) = {} THEN reply[k]
     ELSE response[CHOOSE d \in Daemons : d \in Answering(k)]]

Service == INSTANCE AuthService WITH
  enrolled <- store,
  done <- executed,
  Recognised <- evaluate_probe_vs_templates

ImplementsAuthService == Service!ServiceSpec

(* What the CLI says of add-template: it appends to the templates the user *)
(* has and removes none.  Two daemons that both loaded before either saved *)
(* break it.                                                               *)
AddKeepsTemplates ==
  [][\A d \in Daemons :
       LET u == req[d].user IN
         SaveAll(d) /\ req[d].op = "add_template" =>
           \E t \in Embedding : store'[u] = Append(store[u], t)]_allVars

(* A client that connects gets a reply or an error without its timeout     *)
(* ever having to fire, however many clients are ahead of it, as long as   *)
(* those write their line or go away.                                      *)
ConnectionEnds == \A c \in Clients : Pending(c) ~> ~ Pending(c)

===============================================================================
