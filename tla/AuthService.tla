------------------------------ MODULE AuthService ------------------------------
(***************************************************************************)
(* What the service promises whoever connects to it, whatever the clients, *)
(* the sockets and the process do: a request takes effect at most once, at *)
(* one moment between its writing and its answer; the answer the caller    *)
(* reads is the one that effect had; and a caller who reads none has an    *)
(* error instead, whether or not there was an effect.                      *)
(***************************************************************************)
EXTENDS Sequences

CONSTANTS
  Users, Conn, Request,
  NoRequest,           (* nothing has been asked on the connection         *)
  Embedding,           (* the faces an answer can rest on                  *)
  Recognised(_, _)     (* whether a face matches a sequence of templates   *)

VARIABLES
  enrolled,  (* enrolled[u]: the templates of u, in the order they came    *)
  asked,     (* asked[k]: the request on connection k                      *)
  done,      (* done[k]: what became of it                                 *)
  reply      (* reply[k]: what the caller is told                          *)

serviceVars == <<enrolled, asked, done, reply>>

ServiceInit ==
  /\ enrolled = [u \in Users |-> <<>>]
  /\ asked = [k \in Conn |-> NoRequest]
  /\ done = [k \in Conn |-> "none"]
  /\ reply = [k \in Conn |-> "none"]

Ask(k) ==
  /\ asked[k] = NoRequest /\ reply[k] = "none"
  /\ \E r \in Request : asked' = [asked EXCEPT ![k] = r]
  /\ UNCHANGED <<enrolled, done, reply>>

EnrollUser(u) ==
  /\ enrolled[u] = <<>>
  /\ \E t \in Embedding : enrolled' = [enrolled EXCEPT ![u] = <<t>>]

AddTemplate(u) ==
  /\ enrolled[u] # <<>>
  /\ \E t \in Embedding : enrolled' = [enrolled EXCEPT ![u] = Append(@, t)]

Accepts(u) == \E p \in Embedding : Recognised(p, enrolled[u])

(* What a request may do, with the answer that tells so.                   *)
Effect(r, outcome) ==
  \/ /\ r.op = "enroll" /\ outcome = "enroll_ok"
     /\ EnrollUser(r.user)
  \/ /\ r.op = "add_template" /\ outcome = "add_template_ok"
     /\ AddTemplate(r.user)
  \/ /\ \/ r.op = "verify" /\ outcome = "accepted" /\ Accepts(r.user)
        \/ r.op = "verify" /\ outcome = "rejected" /\ enrolled[r.user] # <<>>
        \/ r.op = "ping" /\ outcome = "pong"
        \/ outcome = "error"
     /\ UNCHANGED enrolled

Execute(k, outcome) ==
  /\ asked[k] # NoRequest /\ done[k] = "none"
  /\ Effect(asked[k], outcome)
  /\ done' = [done EXCEPT ![k] = outcome]
  /\ UNCHANGED <<asked, reply>>

Tell(k) ==
  /\ done[k] # "none" /\ reply[k] = "none"
  /\ reply' = [reply EXCEPT ![k] = done[k]]
  /\ UNCHANGED <<enrolled, asked, done>>

(* Connections end without an answer, and then nothing more comes of them. *)
Reset(K) ==
  /\ \A k \in K : reply[k] = "none"
  /\ reply' = [k \in Conn |-> IF k \in K THEN "io_error" ELSE reply[k]]
  /\ done' = [k \in Conn |-> IF k \in K THEN "io_error" ELSE done[k]]
  /\ UNCHANGED <<enrolled, asked>>

Answer == {"pong", "accepted", "rejected", "enroll_ok", "add_template_ok", "error"}

ServiceNext ==
  \/ \E k \in Conn : Ask(k) \/ Tell(k)
  \/ \E k \in Conn, outcome \in Answer : Execute(k, outcome)
  \/ \E K \in SUBSET Conn : Reset(K)

ServiceSpec == ServiceInit /\ [][ServiceNext]_serviceVars

===============================================================================
