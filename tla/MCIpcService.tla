----------------------------- MODULE MCIpcService -----------------------------
(* Instances of IpcService for TLC.                                        *)
EXTENDS IpcService

CONSTANTS a, b, u1, cli, pam

MCEmbedding == {a}
MCMatch == {<<a, a>>}
MCDim == [e \in MCEmbedding |-> 2]
MCAverages == [S \in SUBSET MCEmbedding |-> S]
MCStreaming == [enroll |-> [warmup_discard |-> 0, max_frames |-> 1],
                verify |-> [warmup_discard |-> 0, max_frames |-> 1]]

(* The CLI enrolls and adds templates, PAM verifies.                       *)
MCCommands ==
  [c \in Clients \ {pam} |->
     {[op |-> o, user |-> u1] : o \in {"enroll", "add_template"}}]
MCLogin == [c \in Clients \cap {pam} |-> c]
MCPasswd == [name \in {pam} |-> u1]

(* Two faces, to tell the template that is lost from the one that remains. *)
MCTwoFaces == {a, b}
MCTwoMatch == {<<a, a>>, <<b, b>>}
MCTwoDim == [e \in MCTwoFaces |-> 2]
MCTwoAverages == [S \in SUBSET MCTwoFaces |-> S]

===============================================================================
