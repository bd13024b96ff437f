----------------------------- MODULE ModelInstall -----------------------------
(***************************************************************************)
(* trueid-ctl get-models: two files fetched one after the other, straight  *)
(* to where the daemon loads them from.  A call without root ends at once  *)
(* and changes nothing.  The daemon may read the files at any step.        *)
(***************************************************************************)
EXTENDS Integers, Sequences

VARIABLES
  file,      (* file[m]: absent, partial or whole                          *)
  at,        (* the position of the call in Models, 0 when none runs       *)
  tool,      (* none, curl or wget                                         *)
  missing    (* the models whose file was absent when the call began       *)

installVars == <<file, at, tool, missing>>

Models == <<"face_detector", "face_embedding">>
Model == {Models[i] : i \in DOMAIN Models}

exists(m) == file[m] # "absent"

InstallInit ==
  /\ file = [m \in Model |-> "absent"]
  /\ at = 0 /\ tool = "none" /\ missing = {}

Ended == at' = 0 /\ tool' = "none" /\ missing' = {}
Advanced == at' = at + 1 /\ tool' = "none" /\ UNCHANGED missing

GetModels ==
  /\ at = 0
  /\ at' = 1
  /\ missing' = {m \in Model : ~exists(m)}
  /\ UNCHANGED <<file, tool>>

SkipPresent ==
  /\ at \in DOMAIN Models /\ tool = "none"
  /\ exists(Models[at])
  /\ Advanced
  /\ UNCHANGED file

(* Faulty variant: a file that is there is fetched again.                  *)
Fetch_unchecked ==
  /\ at \in DOMAIN Models /\ tool = "none"
  /\ tool' \in {"curl", "wget"}
  /\ UNCHANGED <<file, at, missing>>

(* curl if it is installed, else wget.                                     *)
Fetch ==
  /\ at \in DOMAIN Models /\ tool = "none"
  /\ ~exists(Models[at])
  /\ tool' \in {"curl", "wget"}
  /\ UNCHANGED <<file, at, missing>>

(* The first bytes of the answer create or truncate the file.              *)
Arrive ==
  /\ tool # "none"
  /\ file' = [file EXCEPT ![Models[at]] = "partial"]
  /\ UNCHANGED <<at, tool, missing>>

Fetched ==
  /\ tool # "none"
  /\ file' = [file EXCEPT ![Models[at]] = "whole"]
  /\ Advanced

(* curl's failure is not reported: wget tries again.                       *)
CurlFails ==
  /\ tool = "curl"
  /\ tool' = "wget"
  /\ UNCHANGED <<file, at, missing>>

(* Faulty variant: the status of wget is not looked at.                    *)
FetchFails_ignored ==
  /\ \/ at \in DOMAIN Models /\ tool = "none" /\ ~exists(Models[at])
     \/ tool # "none"
  /\ IF tool = "wget" THEN Advanced ELSE Ended
  /\ UNCHANGED file

(* Neither tool is there, or the last one failed: Err, nothing is removed. *)
FetchFails ==
  /\ \/ at \in DOMAIN Models /\ tool = "none" /\ ~exists(Models[at])
     \/ tool # "none"
  /\ Ended
  /\ UNCHANGED file

(* The user or a power loss ends the call and its child.                   *)
Interrupted ==
  /\ at # 0
  /\ Ended
  /\ UNCHANGED file

(* "Models installed in ...": Ok.                                          *)
Report ==
  /\ at = Len(Models) + 1
  /\ Ended
  /\ UNCHANGED file

InstallNext ==
  \/ GetModels \/ SkipPresent \/ Fetch \/ Arrive \/ Fetched \/ CurlFails
  \/ FetchFails \/ Interrupted \/ Report

InstallSpec == InstallInit /\ [][InstallNext]_installVars

-----------------------------------------------------------------------------
(* A call that ends well has made whole every model that was missing when  *)
(* it began, and no call damages a model that is whole: what curl left     *)
(* half done and wget took over is never taken for an installed model.     *)
InstallSound ==
  [][/\ Report => \A m \in missing : file[m] = "whole"
     /\ \A m \in Model : file[m] = "whole" => file'[m] = "whole"]_installVars

(* After "Models installed" both models are there.  A file that an earlier *)
(* call left half written breaks it: it exists, so it is skipped.          *)
ModelsInstalled ==
  [][Report => \A m \in Model : file[m] = "whole"]_installVars

===============================================================================
