------------------------- MODULE CheckpointDb_proofs -------------------------
(***************************************************************************)
(* Proofs about CheckpointDb, for every number of files, handles, jobs and *)
(* checkpoints, and for compactions that overlap: the code lets them, and  *)
(* what the file is worth is proved until the first does.  That the file at*)
(* the path has the last acknowledged checkpoint is not inductive by       *)
(* itself: a commit goes to the file of its handle, which is the one at the*)
(* path only because the handles that are open are all of that file, and a *)
(* rename keeps the checkpoint only because nothing is open from the moment*)
(* a compaction closed the database to the moment it opens it again, so    *)
(* that no commit falls between its copy and its rename.                   *)
(***************************************************************************)
EXTENDS CheckpointDb, TLAPS

OneJob ==
  \A j1, j2 \in Jobs : job[j1].at # "idle" /\ job[j2].at # "idle" => j1 = j2

OpenAtPath == open \subseteq {db} /\ \A h \in open : inodeOf[h] = path

ClosedMeanwhile == \A j \in Jobs : HasClosed(j) => open = {}

CopySound ==
  \A j \in Jobs :
    /\ job[j].at = "copy" => job[j].src = path /\ job[j].dst = temp /\ temp # Nil
    /\ job[j].at = "rename" => temp # Nil /\ content[temp] = acked
    /\ job[j].at = "lock" => job[j].src = path

(* What holds of the jobs and of Shutdown even when compactions overlap.    *)
JobsDownIdle == phase = "down" => open = {} /\ \A j \in Jobs : job[j].at = "idle"

LastSave == saver.by = "shutdown" => phase = "stopping"

FilesOfJobs ==
  \A j \in Jobs :
    /\ job[j].at = "copy" => job[j].src \in Inodes /\ job[j].dst \in Inodes
    /\ job[j].at = "lock" => job[j].src \in Inodes

Base == JobsDownIdle /\ LastSave /\ FilesOfJobs

(* What a compaction relies on. *)
Sound == OneJob /\ OpenAtPath /\ ClosedMeanwhile /\ CopySound /\ content[path] = acked

IInv == TypeOK /\ Base /\ (overlapped \/ Sound)

(* Types and locks of the first state. *)
LEMMA InitInv == Init => IInv
<1> SUFFICES ASSUME Init PROVE IInv
  OBVIOUS
<1> USE CheckpointAssumption DEF Init
<1>1. TypeOK
  <2>1. PICK i \in Inodes, h \in Handles :
          /\ path = i /\ content = [f \in Inodes |-> IF f = i THEN 0 ELSE Partial]
          /\ db = h /\ open = {h} /\ inodeOf = [x \in Handles |-> i]
    OBVIOUS
  <2>2. content \in [Inodes -> Nat \cup {Partial}]
    BY <2>1
  <2>3. job \in [Jobs -> JobStates]
    BY DEF JobStates, IdleJob
  <2>4. QED
    BY <2>1, <2>2, <2>3 DEF TypeOK, Phases, Idle
<1>2. Base /\ Sound
  BY DEF Base, Sound, LastSave, FilesOfJobs, OneJob, OpenAtPath, ClosedMeanwhile, CopySound,
         JobsDownIdle, HasClosed, IdleJob, Idle
<1>3. QED
  BY <1>1, <1>2 DEF IInv

(* Every variable keeps its type, and a transaction its handle.             *)
LEMMA NextType == TypeOK /\ Base /\ [Next]_vars => TypeOK' /\ Base'
<1> SUFFICES ASSUME TypeOK, Base, [Next]_vars PROVE TypeOK' /\ Base'
  OBVIOUS
<1> USE CheckpointAssumption DEF TypeOK, Phases, JobStates, IdleJob, Idle, Partial, files,
      history, Base, JobsDownIdle, LastSave, FilesOfJobs
<1>1. ASSUME Gone PROVE TypeOK' /\ Base'
  BY <1>1 DEF Gone
<1>2. CASE Crash \/ Panic \/ ProcessEnds
  BY <1>1, <1>2 DEF Crash, Panic, ProcessEnds
<1>3. CASE Restart
  BY <1>3 DEF Restart, Found, FreeHandles
<1>4. ASSUME NEW by \in {"loop", "shutdown"}, SaveBegin(by) PROVE TypeOK' /\ Base'
  BY <1>4 DEF SaveBegin
<1>5. CASE SaveTx
  BY <1>5 DEF SaveTx
<1>6. CASE SaveFails
  BY <1>6 DEF SaveFails, SaveDone
<1>7. CASE SaveCommit
  BY <1>7 DEF SaveCommit, SaveDone
<1>8. CASE Shutdown
  BY <1>8 DEF Shutdown
<1>9. CASE ShutdownClose
  BY <1>9 DEF ShutdownClose, MayClose, InTransaction
<1>10. ASSUME NEW j \in Jobs, Begin(j) PROVE TypeOK' /\ Base'
  BY <1>10 DEF Begin, Becomes
<1>11. ASSUME NEW j \in Jobs, JobStep(j) PROVE TypeOK' /\ Base'
  <2>1. CASE CloseDb(j)
    BY <2>1 DEF CloseDb, Becomes, MayClose, InTransaction
  <2>2. CASE RemoveTemp(j)
    BY <2>2 DEF RemoveTemp, Becomes
  <2>3. CASE CompactBegin(j)
    BY <2>3 DEF CompactBegin, FreeInodes
  <2>4. CASE CompactEnd(j)
    BY <2>4 DEF CompactEnd
  <2>5. CASE CompactFails(j)
    BY <2>5 DEF CompactFails, AfterError
  <2>6. CASE Rename(j)
    BY <2>6 DEF Rename, Becomes
  <2>7. CASE RenameFails(j)
    BY <2>7 DEF RenameFails, Becomes
  <2>8. CASE OpenFile(j)
    BY <2>8 DEF OpenFile
  <2>9. CASE Lock(j)
    BY <2>9 DEF Lock, FreeHandles
  <2>10. CASE OpenFails(j)
    BY <2>10 DEF OpenFails
  <2>11. CASE CloseFails(j)
    BY <2>11 DEF CloseFails, Becomes, MayClose, InTransaction
  <2>12. QED
    BY <1>11, <2>11, <2>1, <2>2, <2>3, <2>4, <2>5, <2>6, <2>7, <2>8, <2>9, <2>10 DEF JobStep
<1>12. CASE UNCHANGED vars
  BY <1>12 DEF vars
<1>13. QED
  BY <1>2, <1>3, <1>4, <1>5, <1>6, <1>7, <1>8, <1>9, <1>10, <1>11, <1>12 DEF Next

(* The copy goes to a file that is not the one at the path. *)
LEMMA CopyTarget ==
  ASSUME TypeOK, NEW j \in Jobs, CompactBegin(j)
  PROVE  \E i \in Inodes \ {path} :
           /\ content' = [content EXCEPT ![i] = Partial]
           /\ temp' = i
           /\ job' = [job EXCEPT ![j] = [at |-> "copy", src |-> path, dst |-> i]]
<1>1. (IF temp = Nil THEN FreeInodes ELSE {temp}) \subseteq Inodes \ {path}
  BY DEF TypeOK, FreeInodes
<1>2. QED
  BY <1>1 DEF CompactBegin

(* The other parts of the invariant, action by action: only a commit changes*)
(* the file at the path, and only a rename replaces it.                     *)
LEMMA NextSound ==
  ASSUME TypeOK, Base, Sound, [Next]_vars, ~overlapped'
  PROVE  Sound'
<1> USE CheckpointAssumption DEF Sound, Base, LastSave, OneJob, OpenAtPath, ClosedMeanwhile,
      CopySound, JobsDownIdle, HasClosed, IdleJob, Idle, files, history
<1> USE DEF TypeOK, JobStates
<1>1. CASE Gone
  BY <1>1 DEF Gone
<1>2. CASE Crash \/ Panic \/ ProcessEnds
  BY <1>1, <1>2 DEF Crash, Panic, ProcessEnds
<1>3. CASE Restart
  BY <1>3 DEF Restart, Found, FreeHandles
<1>4. ASSUME NEW by \in {"loop", "shutdown"}, SaveBegin(by) PROVE Sound'
  BY <1>4 DEF SaveBegin
<1>5. CASE SaveTx
  BY <1>5 DEF SaveTx
<1>6. CASE SaveFails
  BY <1>6 DEF SaveFails, SaveDone
<1>7. CASE SaveCommit
  BY <1>7 DEF SaveCommit, SaveDone
<1>8. CASE Shutdown
  BY <1>8 DEF Shutdown
<1>9. CASE ShutdownClose
  BY <1>9 DEF ShutdownClose, MayClose, InTransaction
<1>10. ASSUME NEW j \in Jobs, Begin(j) PROVE Sound'
  BY <1>10 DEF Begin, Becomes
<1>11. ASSUME NEW j \in Jobs, JobStep(j) PROVE Sound'
  <2>1. CASE CloseDb(j)
    BY <2>1 DEF CloseDb, Becomes, MayClose, InTransaction
  <2>2. CASE RemoveTemp(j)
    BY <2>2 DEF RemoveTemp, Becomes
  <2>3. CASE CompactBegin(j)
    <3>1. PICK i \in Inodes \ {path} :
            /\ content' = [content EXCEPT ![i] = Partial]
            /\ temp' = i
            /\ job' = [job EXCEPT ![j] = [at |-> "copy", src |-> path, dst |-> i]]
      BY <2>3, CopyTarget
    <3>2. content'[path] = content[path]
      BY <3>1
    <3>3. \A other \in Jobs : other # j => job[other].at = "idle" /\ job'[other] = job[other]
      BY <2>3, <3>1 DEF CompactBegin
    <3>4. job'[j].at = "copy" /\ job'[j].src = path /\ job'[j].dst = i
      BY <3>1
    <3>5. open = {} /\ phase # "down"
      BY <2>3 DEF CompactBegin
    <3>6. OneJob' /\ OpenAtPath' /\ ClosedMeanwhile' /\ content'[path'] = acked'
      BY <2>3, <3>2, <3>3, <3>5 DEF CompactBegin
    <3>7. CopySound'
      BY <2>3, <3>1, <3>3, <3>4 DEF CompactBegin
    <3>8. QED
      BY <3>6, <3>7
  <2>4. CASE CompactEnd(j)
    BY <2>4 DEF CompactEnd
  <2>5. CASE CompactFails(j)
    BY <2>5 DEF CompactFails, AfterError
  <2>6. CASE Rename(j)
    BY <2>6 DEF Rename, Becomes
  <2>7. CASE RenameFails(j)
    BY <2>7 DEF RenameFails, Becomes
  <2>8. CASE OpenFile(j)
    BY <2>8 DEF OpenFile
  <2>9. CASE Lock(j)
    BY <2>9 DEF Lock, FreeHandles
  <2>10. CASE OpenFails(j)
    BY <2>10 DEF OpenFails
  <2>11. CASE CloseFails(j)
    BY <2>11 DEF CloseFails, Becomes, MayClose, InTransaction
  <2>12. QED
    BY <1>11, <2>11, <2>1, <2>2, <2>3, <2>4, <2>5, <2>6, <2>7, <2>8, <2>9, <2>10 DEF JobStep
<1>12. CASE UNCHANGED vars
  BY <1>12 DEF vars
<1>13. QED
  BY <1>2, <1>3, <1>4, <1>5, <1>6, <1>7, <1>8, <1>9, <1>10, <1>11, <1>12 DEF Next

(* Nobody takes back that compactions have overlapped. *)
LEMMA OverlappedForEver == TypeOK /\ [Next]_vars /\ overlapped => overlapped'
<1> SUFFICES ASSUME TypeOK, [Next]_vars, overlapped PROVE overlapped'
  OBVIOUS
<1> USE DEF history, files
<1>1. ASSUME NEW j \in Jobs, Begin(j) PROVE overlapped'
  BY <1>1 DEF Begin
<1>2. ASSUME NEW j \in Jobs, JobStep(j) PROVE overlapped'
  BY <1>2 DEF JobStep, CloseDb, CloseFails, RemoveTemp, CompactBegin, CompactEnd, CompactFails,
              Rename, RenameFails, OpenFile, Lock, OpenFails
<1>3. CASE Crash \/ Panic \/ ProcessEnds \/ Restart \/ Shutdown \/ ShutdownClose \/ UNCHANGED vars
  BY <1>3 DEF Crash, Panic, ProcessEnds, Gone, Restart, Shutdown, ShutdownClose, vars
<1>4. CASE SaveTx \/ SaveFails \/ SaveCommit \/ \E by \in {"loop", "shutdown"} : SaveBegin(by)
  BY <1>4 DEF SaveTx, SaveFails, SaveCommit, SaveBegin
<1>5. QED
  BY <1>1, <1>2, <1>3, <1>4 DEF Next

(* Each property follows from the inductive invariant. *)
LEMMA Invariance == Spec => []IInv
<1>1. IInv /\ [Next]_vars => IInv'
  BY NextType, NextSound, OverlappedForEver DEF IInv
<1>2. QED
  BY InitInv, <1>1, PTL DEF Spec

(* A transaction is on a handle that is open, and the rest of the types,    *)
(* also when compactions overlap (cron and SetValue, processor.go:1210 and  *)
(* 1304, start them without looking at each other).                         *)
THEOREM TypeCorrect == Spec => []TypeOK
<1>1. IInv => TypeOK
  BY DEF IInv
<1>2. QED
  BY Invariance, <1>1, PTL

(* No compaction, crash or failure loses a checkpoint that was acknowledged,*)
(* until a compaction begins while another one is under way.                *)
THEOREM AcknowledgedIsDurable == Spec => []Durable
<1>1. IInv => Durable
  BY DEF IInv, Sound, Durable
<1>2. QED
  BY Invariance, <1>1, PTL

-----------------------------------------------------------------------------
(* The refinement: commits are Save, restarts are Load, and the steps of a  *)
(* compaction leave the register as it is.                                  *)
LEMMA StepsRefine ==
  ASSUME IInv, IInv', [Next]_vars
  PROVE  [Store!Next \/ overlapped']_<<content[path], loaded>>
<1> SUFFICES ASSUME ~overlapped' PROVE [Store!Next]_<<content[path], loaded>>
  OBVIOUS
<1>1. content[path] = acked /\ content'[path'] = acked'
  BY OverlappedForEver DEF IInv, Sound
<1>2. CASE SaveCommit
  BY <1>1, <1>2 DEF SaveCommit, Store!Next, Store!Save
<1>3. CASE Restart
  BY <1>3 DEF Restart, Found, Store!Next, Store!Load
<1>4. CASE [Next]_vars /\ ~SaveCommit /\ ~Restart
  <2>1. acked' = acked /\ loaded' = loaded
    BY <1>4 DEF Next, vars, history, SaveBegin, SaveTx, SaveFails, Begin, JobStep, CloseDb,
       CloseFails, RemoveTemp, CompactBegin, CompactEnd, CompactFails, Rename, RenameFails,
       OpenFile, Lock, OpenFails, Shutdown, ShutdownClose, ProcessEnds, Crash, Panic, Gone
  <2>2. QED
    BY <1>1, <2>1
<1>5. QED
  BY <1>2, <1>3, <1>4

(* The bolt file with its compactions implements the register, until they   *)
(* overlap.                                                                 *)
THEOREM ImplementsStore == Spec => StoreSpec
<1>1. Init => Store!Init
  BY DEF Init, Store!Init
<1>2. IInv /\ IInv' /\ [Next]_vars => [Store!Next \/ overlapped']_<<content[path], loaded>>
  BY StepsRefine
<1>3. QED
  BY Invariance, <1>1, <1>2, PTL DEF Spec, StoreSpec
==============================================================================
