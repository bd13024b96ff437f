----------------------------- MODULE TemplateStore -----------------------------
(***************************************************************************)
(* FileTemplateStore (outbound/template_store/disk.rs) for one user, down  *)
(* to the files: <uid>.json, the <uid>.tmp that write_atomic renames onto  *)
(* it, and what of both is on stable storage.  Files of different users    *)
(* have different names and never meet.                                    *)
(*                                                                         *)
(* Threads call load_all and save_all under the Mutex of their process; a  *)
(* process may be killed and the machine may lose power between any two    *)
(* steps.  The file system is modelled by what the code relies on: a name  *)
(* leads to an inode, rename replaces a name at once, data and names reach *)
(* the disk at any later time unless sync_all forces the data.             *)
(***************************************************************************)
EXTENDS Naturals, Sequences, FiniteSets

CONSTANTS
  Threads,       (* callers of the store                                   *)
  Processes,     (* daemon processes; each opened its own store            *)
  ProcessOf,     (* the process of a thread                                *)
  Embedding,     (* template vectors                                       *)
  NonFinite,     (* those with a NaN or infinite component: JSON has no    *)
                 (* such number, serde_json writes null, reading that      *)
                 (* back as f32 fails                                      *)
  Bundles,       (* the bundles callers save; app.rs saves no empty one    *)
  Legacy,        (* the file contents an older version may have left       *)
  Inode,         (* model bound: enough inodes for the names and open fds  *)
  MaySyncFail,   (* whether sync_all may fail                              *)
  NoInode, NoThread, NoArg, Torn, Unreadable, Silent, Ok, Error

ASSUME TemplateStoreAssumption ==
  /\ ProcessOf \in [Threads -> Processes]
  /\ NonFinite \subseteq Embedding
  /\ Bundles \subseteq Seq(Embedding) \ {<<>>}
  /\ Legacy \subseteq [templates : {<<>>}, rgb : Seq(Embedding), ir : Seq(Embedding)]
  /\ MaySyncFail \in BOOLEAN
  /\ NoInode \notin Inode /\ NoThread \notin Threads /\ NoArg \notin Bundles

VARIABLES
  json, tmp,     (* the inode each name leads to, or NoInode               *)
  data,          (* data[i]: content of inode i as processes see it        *)
  disk,          (* what is on stable storage: the two names, the contents *)
  lock,          (* lock[p]: the thread that holds the Mutex of process p  *)
  pc,            (* where a call is                                        *)
  arg,           (* arg[t]: the bundle t saves, NoArg when it loads        *)
  fd,            (* fd[t]: the inode t has open for writing                *)
  result,        (* result[t]: what the last call of t returned            *)
  syncFailed     (* history: some sync_all failed                          *)

files == <<json, tmp, data>>
call == <<pc, arg, fd, result, lock>>
storeVars == <<json, tmp, data, disk, lock, pc, arg, fd, result, syncFailed>>

-------------------------------------------------------------------------------
(* Contents.  Torn is an empty or partly written file.                     *)

from_bundle(bundle) == [templates |-> bundle, rgb |-> <<>>, ir |-> <<>>]

ASSUME TornAssumption == Torn \notin Legacy \cup {from_bundle(b) : b \in Bundles}

into_bundle(file) == IF file.templates # <<>> THEN file.templates ELSE file.rgb \o file.ir

Finite(bundle) == \A i \in DOMAIN bundle : bundle[i] \notin NonFinite

(* What load_all makes of a content: a bundle, <<>> for None, or an error. *)
Parsed(content) ==
  IF content = Torn THEN Unreadable
  ELSE IF Finite(content.templates \o content.rgb \o content.ir)
       THEN into_bundle(content)
       ELSE Unreadable

Stored(bundle) == Parsed(from_bundle(bundle))

Found(inode, contents) == IF inode = NoInode THEN <<>> ELSE Parsed(contents[inode])

-------------------------------------------------------------------------------

Init ==
  /\ \/ json = NoInode /\ data = [i \in Inode |-> Torn]
     \/ \E old \in Legacy, i \in Inode :
          json = i /\ data = [j \in Inode |-> IF j = i THEN old ELSE Torn]
  /\ tmp = NoInode
  /\ disk = [json |-> json, tmp |-> tmp, data |-> data]
  /\ lock = [p \in Processes |-> NoThread]
  /\ pc = [t \in Threads |-> "idle"]
  /\ arg = [t \in Threads |-> NoArg]
  /\ fd = [t \in Threads |-> NoInode]
  /\ result = [t \in Threads |-> Silent]
  /\ syncFailed = FALSE

Goto(t, place) == pc' = [pc EXCEPT ![t] = place]

(* Faulty variant: the tmp file is not closed.                             *)
Return_leaks_fd(t, r) ==
  /\ Goto(t, "idle")
  /\ arg' = [arg EXCEPT ![t] = NoArg]
  /\ result' = [result EXCEPT ![t] = r]
  /\ lock' = [lock EXCEPT ![ProcessOf[t]] = NoThread]
  /\ UNCHANGED fd

(* The call returns and its MutexGuard is dropped.                         *)
Return(t, r) ==
  /\ Goto(t, "idle")
  /\ arg' = [arg EXCEPT ![t] = NoArg]
  /\ fd' = [fd EXCEPT ![t] = NoInode]
  /\ result' = [result EXCEPT ![t] = r]
  /\ lock' = [lock EXCEPT ![ProcessOf[t]] = NoThread]

Call(t, a) ==
  /\ pc[t] = "idle"
  /\ Goto(t, "lock")
  /\ arg' = [arg EXCEPT ![t] = a]
  /\ result' = [result EXCEPT ![t] = Silent]
  /\ UNCHANGED <<files, disk, lock, fd, syncFailed>>

(* Faulty variant: no Mutex.                                               *)
Acquire_without_lock(t) ==
  /\ pc[t] = "lock"
  /\ Goto(t, IF arg[t] = NoArg THEN "is_file" ELSE "open")
  /\ UNCHANGED <<files, disk, lock, arg, fd, result, syncFailed>>

Acquire(t) ==
  /\ pc[t] = "lock"
  /\ lock[ProcessOf[t]] = NoThread
  /\ lock' = [lock EXCEPT ![ProcessOf[t]] = t]
  /\ Goto(t, IF arg[t] = NoArg THEN "is_file" ELSE "open")
  /\ UNCHANGED <<files, disk, arg, fd, result, syncFailed>>

-------------------------------------------------------------------------------
(* load_all                                                                *)

NoTemplateFile(t) ==
  /\ pc[t] = "is_file"
  /\ json = NoInode
  /\ Return(t, <<>>)
  /\ UNCHANGED <<files, disk, syncFailed>>

TemplateFileExists(t) ==
  /\ pc[t] = "is_file"
  /\ json # NoInode
  /\ Goto(t, "read")
  /\ UNCHANGED <<files, disk, arg, fd, result, lock, syncFailed>>

(* An unreadable file is an error, as is a failing read.                   *)
Read(t) ==
  /\ pc[t] = "read"
  /\ json # NoInode
  /\ Return(t, Found(json, data))
  /\ UNCHANGED <<files, disk, syncFailed>>

ReadFails(t) ==
  /\ pc[t] = "read"
  /\ Return(t, Error)
  /\ UNCHANGED <<files, disk, syncFailed>>

-------------------------------------------------------------------------------
(* save_all, write_atomic                                                  *)

Unused == Inode \ ({json, tmp, disk.json, disk.tmp} \cup {fd[t] : t \in Threads})

(* create(true).truncate(true): the tmp file is now empty, a left-over one *)
(* included.                                                               *)
OpenTmp(t) ==
  /\ pc[t] = "open"
  /\ \E i \in IF tmp # NoInode THEN {tmp} ELSE Unused :
       /\ tmp' = i
       /\ data' = [data EXCEPT ![i] = Torn]
       /\ fd' = [fd EXCEPT ![t] = i]
  /\ Goto(t, "write")
  /\ UNCHANGED <<json, disk, arg, result, lock, syncFailed>>

WriteAll(t) ==
  /\ pc[t] = "write"
  /\ data' = [data EXCEPT ![fd[t]] = from_bundle(arg[t])]
  /\ Goto(t, "sync")
  /\ UNCHANGED <<json, tmp, disk, arg, fd, result, lock, syncFailed>>

(* Faulty variant: the file is renamed without a sync.                     *)
SyncAll_skipped(t) ==
  /\ pc[t] = "sync"
  /\ Goto(t, "rename")
  /\ UNCHANGED <<files, disk, arg, fd, result, lock, syncFailed>>

SyncAll(t) ==
  /\ pc[t] = "sync"
  /\ disk' = [disk EXCEPT !.data[fd[t]] = data[fd[t]]]
  /\ Goto(t, "rename")
  /\ UNCHANGED <<files, arg, fd, result, lock, syncFailed>>

(* sync_all().ok(): the error is dropped and the rename goes ahead.        *)
SyncFails(t) ==
  /\ pc[t] = "sync"
  /\ MaySyncFail
  /\ syncFailed' = TRUE
  /\ Goto(t, "rename")
  /\ UNCHANGED <<files, disk, arg, fd, result, lock>>

(* The tmp name may be gone when another process renamed it: ENOENT.       *)
Rename(t) ==
  /\ pc[t] = "rename"
  /\ tmp # NoInode
  /\ json' = tmp
  /\ tmp' = NoInode
  /\ Return(t, Ok)
  /\ UNCHANGED <<data, disk, syncFailed>>

(* open, write_all or rename fails: the tmp file, if any, stays behind.    *)
SaveFails(t) ==
  /\ pc[t] \in {"open", "write", "rename"}
  /\ Return(t, Error)
  /\ UNCHANGED <<files, disk, syncFailed>>

-------------------------------------------------------------------------------
(* Environment                                                             *)

DropCalls(T) ==
  /\ pc' = [t \in Threads |-> IF t \in T THEN "idle" ELSE pc[t]]
  /\ arg' = [t \in Threads |-> IF t \in T THEN NoArg ELSE arg[t]]
  /\ fd' = [t \in Threads |-> IF t \in T THEN NoInode ELSE fd[t]]
  /\ result' = [t \in Threads |-> IF t \in T THEN Silent ELSE result[t]]

(* The process dies and starts again; open files are closed as they are.   *)
Kill(p) ==
  /\ DropCalls({t \in Threads : ProcessOf[t] = p})
  /\ lock' = [lock EXCEPT ![p] = NoThread]
  /\ UNCHANGED <<files, disk, syncFailed>>

(* The kernel writes back a file's data, or the names, when it likes.      *)
Writeback(i) ==
  /\ disk' = [disk EXCEPT !.data[i] = data[i]]
  /\ UNCHANGED <<files, call, syncFailed>>

FlushNames ==
  /\ disk' = [disk EXCEPT !.json = json, !.tmp = tmp]
  /\ UNCHANGED <<files, call, syncFailed>>

PowerLoss ==
  /\ json' = disk.json
  /\ tmp' = disk.tmp
  /\ data' = disk.data
  /\ DropCalls(Threads)
  /\ lock' = [p \in Processes |-> NoThread]
  /\ UNCHANGED <<disk, syncFailed>>

-------------------------------------------------------------------------------

Work(t) ==
  \/ Acquire(t)
  \/ NoTemplateFile(t)
  \/ TemplateFileExists(t)
  \/ Read(t)
  \/ ReadFails(t)
  \/ OpenTmp(t)
  \/ WriteAll(t)
  \/ SyncAll(t)
  \/ SyncFails(t)
  \/ Rename(t)
  \/ SaveFails(t)

Next ==
  \/ \E t \in Threads, a \in Bundles \cup {NoArg} : Call(t, a)
  \/ \E t \in Threads : Work(t)
  \/ \E p \in Processes : Kill(p)
  \/ \E i \in Inode : Writeback(i)
  \/ FlushNames
  \/ PowerLoss

Spec == Init /\ [][Next]_storeVars

-------------------------------------------------------------------------------
(* Properties                                                              *)

Content == {Torn} \cup Legacy \cup {from_bundle(b) : b \in Bundles}
Name == Inode \cup {NoInode}
Result == {Silent, Ok, Error, Unreadable} \cup Seq(Embedding)

(* Names lead to inodes, contents are files the store or an older version  *)
(* wrote, and a file is open for writing exactly inside write_atomic.      *)
TypeOK ==
  /\ json \in Name /\ tmp \in Name
  /\ data \in [Inode -> Content]
  /\ disk \in [json : Name, tmp : Name, data : [Inode -> Content]]
  /\ lock \in [Processes -> Threads \cup {NoThread}]
  /\ pc \in [Threads -> {"idle", "lock", "is_file", "read", "open", "write", "sync", "rename"}]
  /\ arg \in [Threads -> Bundles \cup {NoArg}]
  /\ fd \in [Threads -> Name]
  /\ result \in [Threads -> Result]
  /\ \A t \in Threads : pc[t] \in {"write", "sync", "rename"} <=> fd[t] # NoInode

(* The template file is never a part of a bundle, before or after an       *)
(* outage at any step of a save, unless a sync_all had failed: only then   *)
(* can the rename reach the disk before the data it publishes.             *)
NeverTorn ==
  /\ json # NoInode /\ ~ syncFailed => data[json] # Torn
  /\ disk.json # NoInode /\ ~ syncFailed => disk.data[disk.json] # Torn

(* Whatever step of a save fails and whenever the process dies or the      *)
(* power goes, loads and saves are those of AtomicStore.                   *)
Atomic == INSTANCE AtomicStore WITH
  value <- Found(json, data),
  safe <- Found(disk.json, disk.data)

ImplementsAtomicStore == Atomic!StoreSpec

===============================================================================
