----------------------------- MODULE AtomicStore -----------------------------
(***************************************************************************)
(* What the TemplateStore port promises for one user: a save replaces the  *)
(* whole bundle in one step or changes nothing, a load returns the bundle  *)
(* of one moment, and an outage falls back to a bundle that was once       *)
(* current, never to part of one.                                          *)
(***************************************************************************)
CONSTANTS
  Threads,    (* callers                                                   *)
  Bundles,    (* the bundles that are saved                                *)
  Stored(_),  (* what loading finds of a saved bundle                      *)
  NoArg, Silent, Ok, Error

VARIABLES
  value,      (* what a load finds now                                     *)
  safe,       (* what a load would find after an outage                    *)
  arg,        (* arg[t]: the bundle t is saving, or NoArg                  *)
  result      (* result[t]: what the last call of t returned               *)

storeVars == <<value, safe, arg, result>>

Begin(t) ==
  /\ \E b \in Bundles \cup {NoArg} : arg' = [arg EXCEPT ![t] = b]
  /\ result' = [result EXCEPT ![t] = Silent]
  /\ UNCHANGED <<value, safe>>

Return(t, r) ==
  /\ result[t] = Silent
  /\ result' = [result EXCEPT ![t] = r]
  /\ arg' = [arg EXCEPT ![t] = NoArg]
  /\ UNCHANGED safe

Save(t) ==
  /\ arg[t] # NoArg
  /\ value' = Stored(arg[t])
  /\ Return(t, Ok)

Load(t) ==
  /\ arg[t] = NoArg
  /\ Return(t, value)
  /\ UNCHANGED value

Fail(t) ==
  /\ Return(t, Error)
  /\ UNCHANGED value

(* The callers die; their calls return nothing.                            *)
Killed == \E T \in SUBSET Threads :
  /\ arg' = [t \in Threads |-> IF t \in T THEN NoArg ELSE arg[t]]
  /\ result' = [t \in Threads |-> IF t \in T THEN Silent ELSE result[t]]

Kill == Killed /\ UNCHANGED <<value, safe>>

Harden ==
  /\ safe' = value
  /\ UNCHANGED <<value, arg, result>>

Outage ==
  /\ value' = safe
  /\ Killed
  /\ UNCHANGED safe

StoreNext ==
  \/ \E t \in Threads : Begin(t) \/ Save(t) \/ Load(t) \/ Fail(t)
  \/ Kill
  \/ Harden
  \/ Outage

StoreSpec ==
  /\ value = safe
  /\ arg = [t \in Threads |-> NoArg]
  /\ result = [t \in Threads |-> Silent]
  /\ [][StoreNext]_storeVars

===============================================================================
