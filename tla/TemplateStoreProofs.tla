-------------------------- MODULE TemplateStoreProofs --------------------------
(***************************************************************************)
(* Theorems about TemplateStore: the names and contents a save leaves      *)
(* behind at every step, and that its steps are those of AtomicStore, for  *)
(* any number of threads, bundles and inodes.  One process, as the Mutex   *)
(* is one per process.                                                     *)
(***************************************************************************)
EXTENDS TemplateStore, TLAPS

OneProcess == \A s, t \in Threads : ProcessOf[s] = ProcessOf[t]

Inside == {"is_file", "read", "open", "write", "sync", "rename"}
Writing == {"write", "sync", "rename"}

(* Who is past the Mutex holds it, what a call saves it keeps to its end,  *)
(* and it has not returned yet.                                            *)
CallInv ==
  \A t \in Threads :
    /\ pc[t] \in Inside => lock[ProcessOf[t]] = t
    /\ pc[t] = "idle" => arg[t] = NoArg
    /\ pc[t] # "idle" => result[t] = Silent
    /\ pc[t] \in {"is_file", "read"} => arg[t] = NoArg
    /\ pc[t] \in {"open"} \cup Writing => arg[t] # NoArg
    /\ pc[t] \in Writing => fd[t] = tmp

(* The tmp name never leads to what json leads to, or will lead to after   *)
(* an outage.                                                              *)
NamesInv ==
  /\ tmp # NoInode => tmp # json /\ tmp # disk.json
  /\ disk.tmp # NoInode => disk.tmp # disk.json

(* What is published is whole and on the disk.                             *)
Whole(i) == i # NoInode => data[i] = disk.data[i] /\ data[i] # Torn

DiskInv ==
  ~ syncFailed =>
    /\ Whole(json)
    /\ Whole(disk.json)
    /\ \A t \in Threads : pc[t] = "rename" => disk.data[fd[t]] = from_bundle(arg[t])

WrittenInv == \A t \in Threads : pc[t] \in {"sync", "rename"} => data[fd[t]] = from_bundle(arg[t])

-------------------------------------------------------------------------------

LEMMA TypeInit == Init => TypeOK
<1> SUFFICES ASSUME Init PROVE TypeOK
  OBVIOUS
<1>1. json \in Name /\ data \in [Inode -> Content] /\ tmp \in Name
  BY DEF Init, Name, Content
<1>2. Silent \in Result
  BY DEF Result
<1> QED BY <1>1, <1>2, TemplateStoreAssumption DEF Init, TypeOK, Name

(* What load_all finds is a bundle or an error.                            *)
LEMMA FoundType ==
  ASSUME NEW i \in Name, NEW contents \in [Inode -> Content]
  PROVE  Found(i, contents) \in Result
<1>1. ASSUME NEW c \in Content, c # Torn
      PROVE  into_bundle(c) \in Seq(Embedding)
  <2>1. CASE c \in Legacy
    <3>1. c.templates = <<>> /\ c.rgb \in Seq(Embedding) /\ c.ir \in Seq(Embedding)
      BY <2>1, TemplateStoreAssumption
    <3> QED BY <3>1 DEF into_bundle
  <2>2. ASSUME NEW b \in Bundles, c = from_bundle(b) PROVE into_bundle(c) \in Seq(Embedding)
    <3>1. b \in Seq(Embedding) /\ b # <<>>
      BY TemplateStoreAssumption
    <3> QED BY <2>2, <3>1 DEF from_bundle, into_bundle
  <2> QED BY <1>1, <2>1, <2>2 DEF Content
<1>2. <<>> \in Seq(Embedding)
  OBVIOUS
<1> QED BY <1>1, <1>2 DEF Found, Parsed, Result, Name

LEMMA TypeStep ==
  ASSUME TypeOK, CallInv, [Next]_storeVars
  PROVE  TypeOK'
<1> USE TemplateStoreAssumption DEF TypeOK, Name, Goto
<1>0. /\ {Silent, Ok, Error} \subseteq Result /\ <<>> \in Result
      /\ Found(json, data) \in Result
  BY FoundType DEF Result
<1> USE <1>0
<1>1. CASE UNCHANGED storeVars
  BY <1>1 DEF storeVars
<1>2. ASSUME NEW t \in Threads, NEW a \in Bundles \cup {NoArg}, Call(t, a) PROVE TypeOK'
  BY <1>2 DEF Call, files
<1>3. ASSUME NEW t \in Threads, Acquire(t) PROVE TypeOK'
  BY <1>3 DEF Acquire, files
<1>4. ASSUME NEW t \in Threads,
             NoTemplateFile(t) \/ TemplateFileExists(t) \/ Read(t) \/ ReadFails(t)
      PROVE  TypeOK'
  BY <1>4 DEF NoTemplateFile, TemplateFileExists, Read, ReadFails, Return, files
<1>5. ASSUME NEW t \in Threads, OpenTmp(t) PROVE TypeOK'
  <2>1. PICK i \in IF tmp # NoInode THEN {tmp} ELSE Unused :
           /\ tmp' = i
           /\ data' = [data EXCEPT ![i] = Torn]
           /\ fd' = [fd EXCEPT ![t] = i]
    BY <1>5 DEF OpenTmp
  <2>2. i \in Inode
    BY <2>1 DEF Unused
  <2>3. Torn \in Content
    BY DEF Content
  <2>4. data' \in [Inode -> Content] /\ fd' \in [Threads -> Inode \cup {NoInode}]
    BY <2>1, <2>2, <2>3
  <2> QED BY <1>5, <2>1, <2>2, <2>4 DEF OpenTmp
<1>6. ASSUME NEW t \in Threads, WriteAll(t) PROVE TypeOK'
  <2>1. from_bundle(arg[t]) \in Content
    BY <1>6 DEF WriteAll, CallInv, Content, Writing
  <2>2. data' \in [Inode -> Content]
    BY <1>6, <2>1 DEF WriteAll
  <2> QED BY <1>6, <2>2 DEF WriteAll
<1>7. ASSUME NEW t \in Threads, SyncAll(t) \/ SyncFails(t) PROVE TypeOK'
  <2>1. CASE SyncAll(t)
    <3>1. data[fd[t]] \in Content
      BY <2>1 DEF SyncAll
    <3> QED BY <2>1, <3>1 DEF SyncAll, files
  <2>2. CASE SyncFails(t)
    BY <2>2 DEF SyncFails, files
  <2> QED BY <1>7, <2>1, <2>2
<1>8. ASSUME NEW t \in Threads, Rename(t) \/ SaveFails(t) PROVE TypeOK'
  <2>1. CASE Rename(t)
    BY <2>1 DEF Rename, Return
  <2>2. CASE SaveFails(t)
    BY <2>2 DEF SaveFails, Return, files
  <2> QED BY <1>8, <2>1, <2>2
<1>9. ASSUME NEW p \in Processes, Kill(p) PROVE TypeOK'
  BY <1>9 DEF Kill, DropCalls, files
<1>10. CASE PowerLoss
  BY <1>10 DEF PowerLoss, DropCalls
<1>11. ASSUME NEW i \in Inode, Writeback(i) PROVE TypeOK'
  BY <1>11 DEF Writeback, files, call
<1>12. CASE FlushNames
  BY <1>12 DEF FlushNames, files, call
<1> QED BY <1>1, <1>2, <1>3, <1>4, <1>5, <1>6, <1>7, <1>8, <1>9, <1>10, <1>11, <1>12
    DEF Next, Work

-------------------------------------------------------------------------------
(* Calls                                                                   *)

(* The Mutex: two threads are never past it together.                      *)
LEMMA Alone ==
  ASSUME OneProcess, TypeOK, CallInv, NEW s \in Threads, NEW t \in Threads,
         pc[s] \in Inside, pc[t] \in Inside
  PROVE  s = t
BY DEF OneProcess, CallInv

LEMMA CallInit == Init => CallInv
BY DEF Init, CallInv, Inside, Writing

LEMMA CallStep ==
  ASSUME OneProcess, TypeOK, CallInv, [Next]_storeVars
  PROVE  CallInv'
<1> USE TemplateStoreAssumption DEF TypeOK, Goto, Inside, Writing
<1>1. CASE UNCHANGED storeVars
  BY <1>1 DEF storeVars, CallInv
<1>2. ASSUME NEW t \in Threads, NEW a \in Bundles \cup {NoArg}, Call(t, a) PROVE CallInv'
  <2>1. /\ pc' = [pc EXCEPT ![t] = "lock"]
        /\ result'[t] = Silent
        /\ \A s \in Threads \ {t} : arg'[s] = arg[s] /\ result'[s] = result[s]
        /\ UNCHANGED <<tmp, lock, fd>>
    BY <1>2 DEF Call, files
  <2> QED BY <2>1 DEF CallInv
<1>3. ASSUME NEW t \in Threads, Acquire(t) PROVE CallInv'
  <2>1. \A s \in Threads : pc[s] \notin Inside
    BY <1>3 DEF Acquire, CallInv, OneProcess
  <2>2. /\ pc[t] = "lock" /\ lock'[ProcessOf[t]] = t
        /\ pc' = [pc EXCEPT ![t] = IF arg[t] = NoArg THEN "is_file" ELSE "open"]
        /\ UNCHANGED <<arg, fd, result, tmp>>
    BY <1>3 DEF Acquire, files
  <2> QED BY <2>1, <2>2 DEF CallInv
<1>4. ASSUME NEW t \in Threads, pc[t] \in Inside, NEW r, Return(t, r) PROVE CallInv'
  <2>1. \A s \in Threads \ {t} : pc[s] \notin Inside
    BY <1>4, Alone
  <2>2. /\ pc' = [pc EXCEPT ![t] = "idle"] /\ arg' = [arg EXCEPT ![t] = NoArg]
        /\ \A s \in Threads \ {t} : result'[s] = result[s]
    BY <1>4 DEF Return
  <2> QED BY <2>1, <2>2 DEF CallInv
<1>5. ASSUME NEW t \in Threads, TemplateFileExists(t) PROVE CallInv'
  BY <1>5 DEF TemplateFileExists, files, CallInv
<1>6. ASSUME NEW t \in Threads, OpenTmp(t) PROVE CallInv'
  <2>1. \A s \in Threads \ {t} : pc[s] \notin Inside
    BY <1>6, Alone DEF OpenTmp
  <2>2. /\ pc[t] = "open" /\ pc' = [pc EXCEPT ![t] = "write"]
        /\ fd'[t] = tmp'
        /\ UNCHANGED <<arg, result, lock>>
    BY <1>6 DEF OpenTmp
  <2> QED BY <2>1, <2>2 DEF CallInv
<1>7. ASSUME NEW t \in Threads, WriteAll(t) \/ SyncAll(t) \/ SyncFails(t) PROVE CallInv'
  <2>1. /\ \/ pc[t] = "write" /\ pc' = [pc EXCEPT ![t] = "sync"]
           \/ pc[t] = "sync" /\ pc' = [pc EXCEPT ![t] = "rename"]
        /\ UNCHANGED <<tmp, arg, fd, result, lock>>
    BY <1>7 DEF WriteAll, SyncAll, SyncFails, files
  <2> QED BY <2>1 DEF CallInv
<1>8. ASSUME NEW p \in Processes, Kill(p) PROVE CallInv'
  BY <1>8 DEF Kill, DropCalls, files, CallInv, OneProcess
<1>9. CASE PowerLoss
  BY <1>9 DEF PowerLoss, DropCalls, CallInv
<1>10. ASSUME NEW i \in Inode, Writeback(i) \/ FlushNames PROVE CallInv'
  BY <1>10 DEF Writeback, FlushNames, files, call, CallInv
<1>11. CASE FlushNames
  BY <1>11 DEF FlushNames, files, call, CallInv
<1> QED BY <1>1, <1>2, <1>3, <1>4, <1>5, <1>6, <1>7, <1>8, <1>9, <1>10, <1>11
    DEF Next, Work, NoTemplateFile, Read, ReadFails, Rename, SaveFails

-------------------------------------------------------------------------------
(* Names and contents                                                      *)

FilesInv == NamesInv /\ WrittenInv /\ DiskInv

LEMMA FilesInit == Init => FilesInv
<1> SUFFICES ASSUME Init PROVE FilesInv
  OBVIOUS
<1>1. NamesInv /\ WrittenInv
  BY DEF Init, NamesInv, WrittenInv
<1>2. json # NoInode => data[json] # Torn
  BY TornAssumption DEF Init
<1> QED BY <1>1, <1>2 DEF Init, FilesInv, DiskInv, Whole

(* Steps that touch no file: only a thread that enters `rename' counts.    *)
LEMMA FilesKept ==
  ASSUME FilesInv, UNCHANGED <<json, tmp, data, disk, syncFailed>>,
         \A t \in Threads :
           pc'[t] \in {"sync", "rename"} =>
             pc[t] = pc'[t] /\ fd'[t] = fd[t] /\ arg'[t] = arg[t]
  PROVE  FilesInv'
BY DEF FilesInv, NamesInv, WrittenInv, DiskInv, Whole

LEMMA FilesStep ==
  ASSUME OneProcess, TypeOK, CallInv, FilesInv, [Next]_storeVars
  PROVE  FilesInv'
<1> USE TemplateStoreAssumption DEF TypeOK, Name, Goto
<1>1. CASE UNCHANGED storeVars
  BY <1>1, FilesKept DEF storeVars
<1>2. ASSUME NEW t \in Threads, NEW a \in Bundles \cup {NoArg}, Call(t, a) PROVE FilesInv'
  BY <1>2, FilesKept DEF Call, files
<1>3. ASSUME NEW t \in Threads,
             Acquire(t) \/ NoTemplateFile(t) \/ TemplateFileExists(t) \/ Read(t)
             \/ ReadFails(t) \/ SaveFails(t)
      PROVE  FilesInv'
  BY <1>3, FilesKept
  DEF Acquire, NoTemplateFile, TemplateFileExists, Read, ReadFails, SaveFails, Return, files
<1>4. ASSUME NEW t \in Threads, OpenTmp(t) PROVE FilesInv'
  <2>1. PICK i \in IF tmp # NoInode THEN {tmp} ELSE Unused :
           /\ tmp' = i
           /\ data' = [data EXCEPT ![i] = Torn]
           /\ fd' = [fd EXCEPT ![t] = i]
    BY <1>4 DEF OpenTmp
  <2>2. /\ pc[t] = "open" /\ pc' = [pc EXCEPT ![t] = "write"]
        /\ UNCHANGED <<json, disk, arg, syncFailed>>
    BY <1>4 DEF OpenTmp
  <2>3. i \in Inode /\ i # json /\ i # disk.json
    BY <2>1 DEF Unused, FilesInv, NamesInv
  <2>4. \A s \in Threads : pc'[s] \notin {"sync", "rename"}
    BY <2>2, Alone DEF Inside
  <2>5. /\ json # NoInode => data'[json] = data[json]
        /\ disk.json # NoInode => data'[disk.json] = data[disk.json]
    BY <2>1, <2>3
  <2>6. NamesInv'
    BY <2>1, <2>2, <2>3 DEF FilesInv, NamesInv
  <2>7. DiskInv'
    BY <2>2, <2>4, <2>5 DEF FilesInv, DiskInv, Whole
  <2> QED BY <2>4, <2>6, <2>7 DEF FilesInv, WrittenInv
<1>5. ASSUME NEW t \in Threads, WriteAll(t) PROVE FilesInv'
  <2>1. /\ data' = [data EXCEPT ![fd[t]] = from_bundle(arg[t])]
        /\ pc[t] = "write" /\ pc' = [pc EXCEPT ![t] = "sync"]
        /\ UNCHANGED <<json, tmp, disk, arg, fd, syncFailed>>
    BY <1>5 DEF WriteAll
  <2>2. fd[t] = tmp /\ fd[t] \in Inode /\ fd[t] # json /\ fd[t] # disk.json
    BY <2>1 DEF CallInv, Writing, FilesInv, NamesInv
  <2>3. \A s \in Threads : pc'[s] \in {"sync", "rename"} => s = t
    BY <2>1, Alone DEF Inside
  <2>4. /\ json # NoInode => data'[json] = data[json]
        /\ disk.json # NoInode => data'[disk.json] = data[disk.json]
        /\ data'[fd[t]] = from_bundle(arg[t])
    BY <2>1, <2>2
  <2>5. WrittenInv'
    BY <2>1, <2>3, <2>4 DEF WrittenInv
  <2>6. DiskInv'
    BY <2>1, <2>3, <2>4 DEF FilesInv, DiskInv, Whole
  <2> QED BY <2>1, <2>5, <2>6 DEF FilesInv, NamesInv
<1>6. ASSUME NEW t \in Threads, SyncAll(t) PROVE FilesInv'
  <2>1. /\ disk' = [disk EXCEPT !.data[fd[t]] = data[fd[t]]]
        /\ pc[t] = "sync" /\ pc' = [pc EXCEPT ![t] = "rename"]
        /\ UNCHANGED <<json, tmp, data, arg, fd, syncFailed>>
    BY <1>6 DEF SyncAll, files
  <2>2. fd[t] \in Inode
    BY <2>1
  <2>3. /\ disk'.json = disk.json /\ disk'.tmp = disk.tmp
        /\ disk'.data = [disk.data EXCEPT ![fd[t]] = data[fd[t]]]
    BY <2>1
  <2>4. \A s \in Threads : pc'[s] \in {"sync", "rename"} => s = t
    BY <2>1, Alone DEF Inside
  <2>5. WrittenInv'
    BY <2>1, <2>4 DEF FilesInv, WrittenInv
  <2>6. disk'.data[fd[t]] = from_bundle(arg[t])
    BY <2>1, <2>2, <2>3 DEF FilesInv, WrittenInv
  <2>7. DiskInv'
    BY <2>1, <2>2, <2>3, <2>4, <2>6 DEF FilesInv, DiskInv, Whole
  <2> QED BY <2>1, <2>3, <2>5, <2>7 DEF FilesInv, NamesInv
<1>7. ASSUME NEW t \in Threads, SyncFails(t) PROVE FilesInv'
  BY <1>7 DEF SyncFails, files, FilesInv, NamesInv, WrittenInv, DiskInv
<1>8. ASSUME NEW t \in Threads, Rename(t) PROVE FilesInv'
  <2>1. /\ pc[t] = "rename" /\ tmp # NoInode /\ json' = tmp /\ tmp' = NoInode
        /\ pc' = [pc EXCEPT ![t] = "idle"]
        /\ UNCHANGED <<data, disk, syncFailed>>
    BY <1>8 DEF Rename, Return
  <2>2. \A s \in Threads : pc'[s] \notin {"sync", "rename"}
    BY <2>1, Alone DEF Inside
  <2>3. fd[t] = tmp /\ arg[t] \in Bundles
    BY <2>1 DEF CallInv, Writing
  <2>4. ~ syncFailed => data[tmp] = disk.data[tmp] /\ data[tmp] # Torn
    BY <2>1, <2>3, TornAssumption DEF FilesInv, WrittenInv, DiskInv
  <2> QED BY <2>1, <2>2, <2>4 DEF FilesInv, NamesInv, WrittenInv, DiskInv, Whole
<1>9. ASSUME NEW p \in Processes, Kill(p) PROVE FilesInv'
  BY <1>9, FilesKept DEF Kill, DropCalls, files
<1>10. CASE PowerLoss
  BY <1>10 DEF PowerLoss, DropCalls, FilesInv, NamesInv, WrittenInv, DiskInv, Whole
<1>11. ASSUME NEW i \in Inode, Writeback(i) PROVE FilesInv'
  <2>1. /\ disk'.json = disk.json /\ disk'.tmp = disk.tmp
        /\ disk'.data = [disk.data EXCEPT ![i] = data[i]]
        /\ UNCHANGED <<json, tmp, data, pc, arg, fd, syncFailed>>
    BY <1>11 DEF Writeback, files, call
  <2>2. DiskInv'
    BY <2>1 DEF FilesInv, DiskInv, Whole, WrittenInv
  <2> QED BY <2>1, <2>2 DEF FilesInv, NamesInv, WrittenInv
<1>12. CASE FlushNames
  <2>1. /\ disk'.json = json /\ disk'.tmp = tmp /\ disk'.data = disk.data
        /\ UNCHANGED <<json, tmp, data, pc, arg, fd, syncFailed>>
    BY <1>12 DEF FlushNames, files, call
  <2> QED BY <2>1 DEF FilesInv, NamesInv, WrittenInv, DiskInv, Whole
<1> QED BY <1>1, <1>2, <1>3, <1>4, <1>5, <1>6, <1>7, <1>8, <1>9, <1>10, <1>11, <1>12
    DEF Next, Work

StoreInv == TypeOK /\ CallInv /\ FilesInv

LEMMA StoreInvariant ==
  ASSUME OneProcess
  PROVE  Spec => []StoreInv
<1>1. Init => StoreInv
  BY TypeInit, CallInit, FilesInit DEF StoreInv
<1>2. StoreInv /\ [Next]_storeVars => StoreInv'
  BY TypeStep, CallStep, FilesStep DEF StoreInv
<1> QED BY <1>1, <1>2, PTL DEF Spec

(* Every variable of the store holds values of its type, and a file is     *)
(* open for writing exactly inside write_atomic.                           *)
THEOREM StoreTypeCorrect ==
  ASSUME OneProcess
  PROVE  Spec => []TypeOK
BY StoreInvariant, PTL DEF StoreInv

(* Unless a sync failed, the template file is never part of a bundle, nor  *)
(* would it be after an outage at this moment.                             *)
THEOREM TemplateFileWhole ==
  ASSUME OneProcess
  PROVE  Spec => []NeverTorn
<1>1. StoreInv => NeverTorn
  BY DEF StoreInv, FilesInv, DiskInv, Whole, NeverTorn
<1> QED BY <1>1, StoreInvariant, PTL

-------------------------------------------------------------------------------
(* Refinement of AtomicStore, on a disk that syncs.                        *)

value == Found(json, data)
safe == Found(disk.json, disk.data)

LEMMA AtomicInit == Init => /\ value = safe
                            /\ arg = [t \in Threads |-> NoArg]
                            /\ result = [t \in Threads |-> Silent]
BY DEF Init, value, safe

(* A step that changes no file a name leads to, and no call, is a stutter. *)
LEMMA Stutter ==
  ASSUME UNCHANGED <<json, arg, result>>, disk'.json = disk.json,
         json # NoInode => data'[json] = data[json],
         disk.json # NoInode => disk'.data[disk.json] = disk.data[disk.json]
  PROVE  UNCHANGED <<value, safe, arg, result>>
BY DEF value, safe, Found

(* Calls that return, by what they return.                                 *)
LEMMA Returns ==
  ASSUME StoreInv, NEW t \in Threads, pc[t] \in Inside, NEW r, Return(t, r)
  PROVE  /\ result[t] = Silent
         /\ result' = [result EXCEPT ![t] = r]
         /\ arg' = [arg EXCEPT ![t] = NoArg]
BY DEF StoreInv, CallInv, Return, Inside

(* The calls of T are lost, in both modules.                               *)
LEMMA Drops ==
  ASSUME NEW T \in SUBSET Threads, DropCalls(T)
  PROVE  Atomic!Killed
BY DEF DropCalls, Atomic!Killed

LEMMA AtomicStep ==
  ASSUME StoreInv, ~ syncFailed, ~ MaySyncFail, [Next]_storeVars
  PROVE  Atomic!StoreNext \/ UNCHANGED <<value, safe, arg, result>>
<1> USE DEF value, safe
<1>1. CASE UNCHANGED storeVars
  BY <1>1 DEF storeVars
<1>2. ASSUME NEW t \in Threads, NEW a \in Bundles \cup {NoArg}, Call(t, a)
      PROVE  Atomic!StoreNext
  <2>1. Atomic!Begin(t)
    BY <1>2 DEF Call, files, Atomic!Begin
  <2> QED BY <2>1 DEF Atomic!StoreNext
<1>3. ASSUME NEW t \in Threads, NoTemplateFile(t) \/ Read(t) PROVE Atomic!StoreNext
  <2>1. pc[t] \in Inside /\ arg[t] = NoArg /\ UNCHANGED <<json, data, disk>>
        /\ Return(t, Found(json, data))
    BY <1>3 DEF NoTemplateFile, Read, Found, Inside, files, StoreInv, CallInv
  <2>2. Atomic!Load(t)
    BY <2>1, Returns DEF Atomic!Load, Atomic!Return
  <2> QED BY <2>2 DEF Atomic!StoreNext
<1>4. ASSUME NEW t \in Threads, ReadFails(t) \/ SaveFails(t) PROVE Atomic!StoreNext
  <2>1. pc[t] \in Inside /\ UNCHANGED <<json, data, disk>> /\ Return(t, Error)
    BY <1>4 DEF ReadFails, SaveFails, Inside, files
  <2>2. Atomic!Fail(t)
    BY <2>1, Returns DEF Atomic!Fail, Atomic!Return
  <2> QED BY <2>2 DEF Atomic!StoreNext
<1>5. ASSUME NEW t \in Threads, Acquire(t) \/ TemplateFileExists(t)
      PROVE  UNCHANGED <<value, safe, arg, result>>
  BY <1>5 DEF Acquire, TemplateFileExists, files
<1>6. ASSUME NEW t \in Threads, OpenTmp(t) PROVE UNCHANGED <<value, safe, arg, result>>
  <2>1. PICK i \in IF tmp # NoInode THEN {tmp} ELSE Unused : data' = [data EXCEPT ![i] = Torn]
    BY <1>6 DEF OpenTmp
  <2>2. i # json
    BY <2>1 DEF Unused, StoreInv, FilesInv, NamesInv
  <2>3. UNCHANGED <<json, disk, arg, result>>
    BY <1>6 DEF OpenTmp
  <2>4. json # NoInode => data'[json] = data[json]
    BY <2>1, <2>2 DEF StoreInv, TypeOK, Name
  <2> QED BY <2>3, <2>4, Stutter
<1>7. ASSUME NEW t \in Threads, WriteAll(t) PROVE UNCHANGED <<value, safe, arg, result>>
  <2>1. /\ data' = [data EXCEPT ![fd[t]] = from_bundle(arg[t])] /\ pc[t] = "write"
        /\ UNCHANGED <<json, disk, arg, result>>
    BY <1>7 DEF WriteAll
  <2>2. json # NoInode => json # fd[t]
    BY <2>1 DEF StoreInv, CallInv, Writing, FilesInv, NamesInv
  <2>3. json # NoInode => data'[json] = data[json]
    BY <2>1, <2>2 DEF StoreInv, TypeOK, Name
  <2> QED BY <2>1, <2>3, Stutter
<1>8. ASSUME NEW t \in Threads, SyncAll(t) PROVE UNCHANGED <<value, safe, arg, result>>
  <2>1. /\ disk' = [disk EXCEPT !.data[fd[t]] = data[fd[t]]] /\ pc[t] = "sync"
        /\ UNCHANGED <<json, data, arg, result>>
    BY <1>8 DEF SyncAll, files
  <2>2. disk'.json = disk.json /\ disk'.data = [disk.data EXCEPT ![fd[t]] = data[fd[t]]]
    BY <2>1 DEF StoreInv, TypeOK
  <2>3. disk.json # NoInode => disk.json # fd[t]
    BY <2>1 DEF StoreInv, TypeOK, CallInv, Writing, FilesInv, NamesInv
  <2>4. disk.json # NoInode => disk'.data[disk.json] = disk.data[disk.json]
    BY <2>2, <2>3 DEF StoreInv, TypeOK, Name
  <2> QED BY <2>1, <2>2, <2>4, Stutter
<1>9. ASSUME NEW t \in Threads, Rename(t) PROVE Atomic!StoreNext
  <2>1. /\ pc[t] = "rename" /\ tmp # NoInode /\ json' = tmp /\ UNCHANGED <<data, disk>>
        /\ Return(t, Ok)
    BY <1>9 DEF Rename
  <2>2. arg[t] # NoArg /\ data[tmp] = from_bundle(arg[t])
    BY <2>1 DEF StoreInv, CallInv, Writing, FilesInv, WrittenInv
  <2>3. value' = Stored(arg[t])
    BY <2>1, <2>2 DEF Found, Stored
  <2>4. Atomic!Save(t)
    BY <2>1, <2>2, <2>3, Returns DEF Atomic!Save, Atomic!Return, Inside
  <2> QED BY <2>4 DEF Atomic!StoreNext
<1>10. ASSUME NEW p \in Processes, Kill(p) PROVE Atomic!StoreNext
  <2>1. Atomic!Kill
    BY <1>10, Drops DEF Kill, files, Atomic!Kill
  <2> QED BY <2>1 DEF Atomic!StoreNext
<1>11. CASE PowerLoss
  <2>1. Atomic!Killed
    BY <1>11, Drops DEF PowerLoss
  <2>2. Atomic!Outage
    BY <1>11, <2>1 DEF PowerLoss, Atomic!Outage
  <2> QED BY <2>2 DEF Atomic!StoreNext
<1>12. ASSUME NEW i \in Inode, Writeback(i) PROVE UNCHANGED <<value, safe, arg, result>>
  <2>1. /\ disk'.json = disk.json /\ disk'.data = [disk.data EXCEPT ![i] = data[i]]
        /\ UNCHANGED <<json, data, arg, result>>
    BY <1>12 DEF Writeback, files, call, StoreInv, TypeOK
  <2>2. disk.json # NoInode => disk'.data[disk.json] = disk.data[disk.json]
    BY <2>1 DEF StoreInv, TypeOK, Name, FilesInv, DiskInv, Whole
  <2> QED BY <2>1, <2>2, Stutter
<1>13. CASE FlushNames
  <2>1. disk'.json = json /\ disk'.data = disk.data /\ UNCHANGED <<json, data, arg, result>>
    BY <1>13 DEF FlushNames, files, call, StoreInv, TypeOK
  <2>2. safe' = value
    BY <2>1 DEF StoreInv, FilesInv, DiskInv, Whole, Found
  <2>3. Atomic!Harden
    BY <2>1, <2>2 DEF Atomic!Harden
  <2> QED BY <2>3 DEF Atomic!StoreNext
<1>14. ASSUME NEW t \in Threads, SyncFails(t) PROVE FALSE
  BY <1>14 DEF SyncFails
<1> QED BY <1>1, <1>2, <1>3, <1>4, <1>5, <1>6, <1>7, <1>8, <1>9, <1>10, <1>11, <1>12, <1>13,
    <1>14 DEF Next, Work

LEMMA SyncsStep ==
  ASSUME ~ MaySyncFail, ~ syncFailed, [Next]_storeVars
  PROVE  ~ syncFailed'
BY DEF Next, Work, storeVars, Call, Acquire, NoTemplateFile, TemplateFileExists, Read,
   ReadFails, OpenTmp, WriteAll, SyncAll, SyncFails, Rename, SaveFails, Kill, Writeback,
   FlushNames, PowerLoss

(* Opening, writing, syncing and renaming a file under one Mutex is an     *)
(* atomic save, whatever step fails and whenever processes are killed or   *)
(* the power goes - on a disk whose syncs do not fail.                     *)
THEOREM RefinesAtomicStore ==
  ASSUME OneProcess, ~ MaySyncFail
  PROVE  Spec => ImplementsAtomicStore
<1>1. Init => ~ syncFailed
  BY DEF Init
<1>2. ~ syncFailed /\ [Next]_storeVars => ~ syncFailed'
  BY SyncsStep
<1>3. StoreInv /\ ~ syncFailed /\ [Next]_storeVars => [Atomic!StoreNext]_Atomic!storeVars
  BY AtomicStep DEF Atomic!storeVars, value, safe
<1>4. Init => /\ Found(json, data) = Found(disk.json, disk.data)
              /\ arg = [t \in Threads |-> NoArg]
              /\ result = [t \in Threads |-> Silent]
  BY AtomicInit DEF value, safe
<1> QED BY <1>1, <1>2, <1>3, <1>4, StoreInvariant, PTL
    DEF Spec, ImplementsAtomicStore, Atomic!StoreSpec

===============================================================================
