------------------------------- MODULE FaceAuth -------------------------------
(***************************************************************************)
(* What the daemon promises its callers, without camera, frames or files:  *)
(* each request takes effect in one step, the step that fixes its answer.  *)
(* A failed request changes nothing, enrolment happens once, templates are *)
(* only ever added, and an accept is backed by a face that reaches the     *)
(* quorum of the templates enrolled at that moment.                        *)
(***************************************************************************)
EXTENDS Sequences

CONSTANTS
  Daemons, Users,
  Embedding,           (* the faces an answer can rest on                  *)
  Recognised(_, _)     (* whether a face matches a sequence of templates   *)

VARIABLES
  enrolled,  (* enrolled[u]: the templates of u, in the order they came    *)
  answer     (* answer[d]: the answer daemon d is giving                   *)

authVars == <<enrolled, answer>>

Silent == [outcome |-> "none"]
Answers(outcome, u) == [outcome |-> outcome, user |-> u]

AuthInit ==
  /\ enrolled = [u \in Users |-> <<>>]
  /\ answer = [d \in Daemons |-> Silent]

Give(d, outcome, u) ==
  /\ answer[d] = Silent
  /\ answer' = [answer EXCEPT ![d] = Answers(outcome, u)]

EnrollUser(d, u) ==
  /\ enrolled[u] = <<>>
  /\ \E t \in Embedding : enrolled' = [enrolled EXCEPT ![u] = <<t>>]
  /\ Give(d, "enroll_ok", u)

AddTemplate(d, u) ==
  /\ enrolled[u] # <<>>
  /\ \E t \in Embedding : enrolled' = [enrolled EXCEPT ![u] = Append(@, t)]
  /\ Give(d, "add_template_ok", u)

Accept(d, u) ==
  /\ \E p \in Embedding : Recognised(p, enrolled[u])
  /\ Give(d, "accepted", u)
  /\ UNCHANGED enrolled

Reject(d, u) ==
  /\ enrolled[u] # <<>>
  /\ Give(d, "rejected", u)
  /\ UNCHANGED enrolled

NoEffect(d, u) ==
  /\ \E outcome \in {"pong", "error"} : Give(d, outcome, u)
  /\ UNCHANGED enrolled

Quiet(d) ==
  /\ answer' = [answer EXCEPT ![d] = Silent]
  /\ UNCHANGED enrolled

AuthStep(d) ==
  \/ \E u \in Users :
       EnrollUser(d, u) \/ AddTemplate(d, u) \/ Accept(d, u) \/ Reject(d, u)
         \/ NoEffect(d, u)
  \/ Quiet(d)

AuthSpec == AuthInit /\ [][\E d \in Daemons : AuthStep(d)]_authVars

===============================================================================
