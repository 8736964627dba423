---------------------------- MODULE CheckpointDb ----------------------------
(***************************************************************************)
(* The bolt file of the reservoir sampler while it is compacted            *)
(* (internal/processor/reservoirsampler/processor.go: checkpoint,          *)
(* compactDatabaseWithDiskCheck, compactDatabase, Start, Shutdown,         *)
(* SetValue("trigger_compaction"), newProcessor, loadCheckpoint).          *)
(*                                                                         *)
(* A compaction closes the database, copies the file to a temporary one,   *)
(* renames that over the first and opens it again, and holds no lock       *)
(* meanwhile: checkpoints, Shutdown and other compactions load and store   *)
(* p.db next to it, and the process may crash between any two steps.       *)
(*                                                                         *)
(* A file is an inode with the number of the checkpoint in it, and a       *)
(* bolt.DB is a handle of an inode.  Of bolt the model has what the code   *)
(* relies on: a transaction is written whole or not at all and fails on a  *)
(* closed handle, Close waits for it, and Open waits, without a timeout,   *)
(* for the lock that the open handle of an inode holds on it.              *)
(***************************************************************************)
EXTENDS Integers, FiniteSets

CONSTANTS
  Jobs,       \* the compactions that can be under way at a time
  Scheduled,  \* those that cron starts; the others are asked for by SetValue
  Parses,     \* whether cron takes the schedule that Config.Validate took
  Faults,     \* whether calls of bolt and of the file system fail
  Inodes, Handles, \* bound: files and handles there can be at a time
  MaxSaves,   \* bound: checkpoints that are acknowledged
  Nil         \* no handle, no inode

ASSUME CheckpointAssumption ==
  /\ Scheduled \subseteq Jobs
  /\ Parses \in BOOLEAN /\ Faults \in BOOLEAN
  /\ Inodes # {} /\ Nil \notin Inodes /\ Handles # {} /\ Nil \notin Handles
  /\ MaxSaves \in Nat

VARIABLES
  phase,   \* of the processor and of its process
  cron,    \* whether the scheduler runs
  db,      \* p.db
  inodeOf, \* handle -> the file it was opened at
  open,    \* the handles that are not closed
  path,    \* the file at Config.CheckpointPath
  temp,    \* the file at CheckpointPath + ".compacted", or Nil
  content, \* file -> the number of the checkpoint in it
  saver,   \* who is in checkpoint, which flushMu admits one at a time
  job,     \* the compactions
  acked,   \* history: the checkpoint that was acknowledged last
  loaded,  \* history: the one that the processor found when it started
  overlapped \* history: a compaction began while another one was under way

files == <<inodeOf, open, path, temp, content>>
history == <<acked, loaded, overlapped>>
vars == <<phase, cron, db, files, saver, job, history>>

Phases == {"down", "running", "stopping", "closing", "stopped"}

Partial == -1  \* the content of a copy that is not complete

IdleJob == [at |-> "idle", src |-> Nil, dst |-> Nil]
Idle == [at |-> "idle", by |-> "loop", handle |-> Nil]

Init ==
  /\ \E i \in Inodes, h \in Handles :
       /\ path = i /\ content = [f \in Inodes |-> IF f = i THEN 0 ELSE Partial]
       /\ db = h /\ open = {h} /\ inodeOf = [x \in Handles |-> i]
  /\ temp = Nil
  /\ phase = "running" /\ cron = Parses
  /\ saver = Idle /\ job = [j \in Jobs |-> IdleJob]
  /\ acked = 0 /\ loaded = 0 /\ overlapped = FALSE

-----------------------------------------------------------------------------
Locked(i) == \E h \in open : inodeOf[h] = i

InTransaction(h) == saver.at = "tx" /\ saver.handle = h

FreeHandles == Handles \ (open \cup {db, saver.handle})

FreeInodes ==
  Inodes \ ({path, temp} \cup {inodeOf[h] : h \in open}
            \cup {job[j].src : j \in Jobs} \cup {job[j].dst : j \in Jobs})

(* The process ends: what it had open is closed, its goroutines are gone.    *)
Gone ==
  /\ phase' = "down" /\ cron' = FALSE /\ db' = Nil /\ open' = {}
  /\ saver' = Idle /\ job' = [j \in Jobs |-> IdleJob]
  /\ UNCHANGED <<inodeOf, path, temp, content, history>>

Crash == phase # "down" /\ Gone

(* Faulty: newProcessor takes a copy that was left behind for the file. *)
FoundInTemp == IF temp = Nil THEN content[path] ELSE content[temp]

Found == content[path]

(* newProcessor and Start. *)
Restart ==
  /\ phase = "down"
  /\ \E h \in FreeHandles :
       /\ db' = h /\ open' = {h}
       /\ inodeOf' = [inodeOf EXCEPT ![h] = path]
  /\ phase' = "running" /\ cron' = Parses
  /\ loaded' = Found
  /\ UNCHANGED <<path, temp, content, saver, job, acked, overlapped>>

-----------------------------------------------------------------------------
(* checkpoint: the loop of the ticker calls it, which may have one more tick *)
(* after Shutdown stopped it, and Shutdown does.  It loads p.db, begins the  *)
(* transaction if that handle is still open, and commits.                    *)
SaveBegin(by) ==
  /\ phase # "down" /\ saver = Idle
  /\ by = "shutdown" => phase = "stopping"
  /\ db # Nil
  /\ saver' = [at |-> "loaded", by |-> by, handle |-> db]
  /\ UNCHANGED <<phase, cron, db, files, job, history>>

(* The end of a call: the one of Shutdown was its last. *)
SaveDone ==
  /\ saver' = Idle
  /\ phase' = IF saver.by = "shutdown" THEN "closing" ELSE phase

SaveTx ==
  /\ saver.at = "loaded" /\ saver.handle \in open
  /\ saver' = [saver EXCEPT !.at = "tx"]
  /\ UNCHANGED <<phase, cron, db, files, job, history>>

SaveFails ==
  /\ \/ saver.at = "loaded" /\ saver.handle \notin open
     \/ saver.at = "tx" /\ Faults
  /\ SaveDone
  /\ UNCHANGED <<cron, db, files, job, history>>

SaveCommit ==
  /\ saver.at = "tx" /\ acked < MaxSaves
  /\ content' = [content EXCEPT ![inodeOf[saver.handle]] = acked + 1]
  /\ acked' = acked + 1
  /\ SaveDone
  /\ UNCHANGED <<cron, db, inodeOf, open, path, temp, job, loaded, overlapped>>

(* p.db is nil after a failed Open, and checkpoint and Close take it for a   *)
(* database: the goroutine panics, and the process with it.                  *)
Panic ==
  /\ phase # "down" /\ db = Nil
  /\ \/ saver = Idle
     \/ \E j \in Jobs : job[j].at = "close"
  /\ Gone
-----------------------------------------------------------------------------
(* compactDatabaseWithDiskCheck, compactDatabase: the steps of compaction j  *)

Becomes(j, at) == job' = [job EXCEPT ![j].at = at]

(* The database is larger than its target and there is space for the copy.  *)
(* Nothing asks whether a compaction is under way already.                  *)
Begin(j) ==
  /\ phase # "down" /\ job[j].at = "idle"
  /\ j \in Scheduled => cron
  /\ overlapped' = (overlapped \/ \E other \in Jobs : job[other].at # "idle")
  /\ Becomes(j, "close")
  /\ UNCHANGED <<phase, cron, db, files, saver, acked, loaded>>

MayClose(h) == ~InTransaction(h)

CloseDb(j) ==
  /\ job[j].at = "close" /\ db # Nil
  /\ MayClose(db)
  /\ open' = open \ {db}
  /\ Becomes(j, "remove")
  /\ UNCHANGED <<phase, cron, db, inodeOf, path, temp, content, saver, history>>

(* An error of Close is returned at once, and nothing is opened: the handle  *)
(* stays as far closed as Close came.                                        *)
CloseFails(j) ==
  /\ Faults /\ job[j].at = "close" /\ db # Nil
  /\ MayClose(db)
  /\ open' = open \/ open' = open \ {db}
  /\ Becomes(j, "idle")
  /\ UNCHANGED <<phase, cron, db, inodeOf, path, temp, content, saver, history>>

RemoveTemp(j) ==
  /\ job[j].at = "remove"
  /\ temp' = Nil
  /\ Becomes(j, "compact")
  /\ UNCHANGED <<phase, cron, db, inodeOf, open, path, content, saver, history>>

(* bolt.Compact opens both files, and then copies. *)
CompactBegin(j) ==
  /\ job[j].at = "compact" /\ ~Locked(path)
  /\ \E i \in IF temp = Nil THEN FreeInodes ELSE {temp} :
       /\ content' = [content EXCEPT ![i] = Partial]
       /\ temp' = i
       /\ job' = [job EXCEPT ![j] = [at |-> "copy", src |-> path, dst |-> i]]
  /\ UNCHANGED <<phase, cron, db, inodeOf, open, path, saver, history>>

CompactEnd(j) ==
  /\ job[j].at = "copy"
  /\ content' = [content EXCEPT ![job[j].dst] = content[job[j].src]]
  /\ job' = [job EXCEPT ![j] = [IdleJob EXCEPT !.at = "rename"]]
  /\ UNCHANGED <<phase, cron, db, inodeOf, open, path, temp, saver, history>>

(* Faulty: the error is logged, and the copy is taken; the error is returned*)
(* at once.                                                                 *)
AfterErrorRename == "rename"
AfterErrorReturn == "idle"

AfterError == "open"

CompactFails(j) ==
  /\ Faults /\ job[j].at \in {"compact", "copy"}
  /\ job' = [job EXCEPT ![j] = [IdleJob EXCEPT !.at = AfterError]]
  /\ UNCHANGED <<phase, cron, db, files, saver, history>>

Rename(j) ==
  /\ job[j].at = "rename" /\ temp # Nil
  /\ path' = temp /\ temp' = Nil
  /\ Becomes(j, "open")
  /\ UNCHANGED <<phase, cron, db, inodeOf, open, content, saver, history>>

RenameFails(j) ==
  /\ job[j].at = "rename" /\ (Faults \/ temp = Nil)
  /\ temp' = Nil
  /\ Becomes(j, "open")
  /\ UNCHANGED <<phase, cron, db, inodeOf, open, path, content, saver, history>>

(* bolt.Open opens the file that is at the path, and then waits for its lock.*)
OpenFile(j) ==
  /\ job[j].at = "open"
  /\ job' = [job EXCEPT ![j] = [IdleJob EXCEPT !.at = "lock", !.src = path]]
  /\ UNCHANGED <<phase, cron, db, files, saver, history>>

Lock(j) ==
  /\ job[j].at = "lock" /\ ~Locked(job[j].src)
  /\ \E h \in FreeHandles :
       /\ db' = h /\ open' = open \cup {h}
       /\ inodeOf' = [inodeOf EXCEPT ![h] = job[j].src]
  /\ job' = [job EXCEPT ![j] = IdleJob]
  /\ UNCHANGED <<phase, cron, path, temp, content, saver, history>>

OpenFails(j) ==
  /\ Faults /\ job[j].at = "open"
  /\ db' = Nil
  /\ job' = [job EXCEPT ![j] = IdleJob]
  /\ UNCHANGED <<phase, cron, files, saver, history>>

JobStep(j) ==
  \/ CloseDb(j) \/ CloseFails(j) \/ RemoveTemp(j) \/ CompactBegin(j) \/ CompactEnd(j)
  \/ CompactFails(j) \/ Rename(j) \/ RenameFails(j)
  \/ OpenFile(j) \/ Lock(j) \/ OpenFails(j)

-----------------------------------------------------------------------------
(* Shutdown: it stops cron but waits for no job, takes a last checkpoint,    *)
(* and closes the database if there is one.  The process ends later.         *)
Shutdown ==
  /\ phase = "running"
  /\ phase' = "stopping" /\ cron' = FALSE
  /\ UNCHANGED <<db, files, saver, job, history>>

ShutdownClose ==
  /\ phase = "closing"
  /\ db # Nil => MayClose(db)
  /\ open' = open \ {db}
  /\ phase' = "stopped"
  /\ UNCHANGED <<cron, db, inodeOf, path, temp, content, saver, job, history>>

ProcessEnds == phase = "stopped" /\ Gone

Next ==
  \/ \E by \in {"loop", "shutdown"} : SaveBegin(by)
  \/ SaveTx \/ SaveFails \/ SaveCommit
  \/ \E j \in Jobs : Begin(j) \/ JobStep(j)
  \/ Shutdown \/ ShutdownClose \/ ProcessEnds \/ Crash \/ Panic \/ Restart

Spec == Init /\ [][Next]_vars

(* A compaction that has begun goes on. *)
FairSpec == Spec /\ \A j \in Jobs : WF_vars(JobStep(j))

-----------------------------------------------------------------------------
(* Type invariant.  A transaction is on an open handle, and cron starts      *)
(* nothing after Shutdown stopped it.                                        *)
JobStates ==
  [at : {"idle", "close", "remove", "compact", "copy", "rename", "open", "lock"},
   src : Inodes \cup {Nil}, dst : Inodes \cup {Nil}]

TypeOK ==
  /\ phase \in Phases /\ cron \in BOOLEAN /\ (cron => phase = "running")
  /\ db \in Handles \cup {Nil} /\ open \subseteq Handles
  /\ inodeOf \in [Handles -> Inodes]
  /\ path \in Inodes /\ temp \in (Inodes \cup {Nil}) \ {path}
  /\ content \in [Inodes -> Nat \cup {Partial}]
  /\ saver \in [at : {"idle", "loaded", "tx"}, by : {"loop", "shutdown"},
                handle : Handles \cup {Nil}]
  /\ saver.at = "tx" => saver.handle \in open
  /\ job \in [Jobs -> JobStates]
  /\ acked \in Nat /\ loaded \in Nat \cup {Partial} /\ overlapped \in BOOLEAN

(* As long as no compaction began during another: what checkpoint           *)
(* acknowledged is in the file at the path, whatever a compaction has done  *)
(* to it, crashes and failures included (compactDatabase closes the database*)
(* before it copies it).                                                    *)
Durable == overlapped \/ content[path] = acked

(* Until then the file is a register of checkpoints. *)
Store == INSTANCE CheckpointStore WITH stored <- content[path], loaded <- loaded
StoreSpec ==
  /\ Store!Init
  /\ [][Store!Next \/ overlapped']_<<content[path], loaded>>

HasClosed(j) == job[j].at \in {"remove", "compact", "copy", "rename", "open", "lock"}

(* docs/BOLTDB_COMPACTION.md:63 "The database is reopened": a compaction     *)
(* that has closed it gets to where it is open again, after an error too,   *)
(* unless the processor stops, Open fails, or another compaction overlaps it*)
(* and leaves a handle open that nobody has, for whose lock Open waits.     *)
AlwaysReopened ==
  \A j \in Jobs :
    (phase = "running" /\ HasClosed(j))
      ~> (phase # "running" \/ db \in open \cup {Nil} \/ overlapped)

-----------------------------------------------------------------------------
(* What does not hold. *)

(* Without the first part of Durable: compactions that overlap lose a       *)
(* checkpoint that was acknowledged, the one renaming the copy that it made *)
(* before the other opened the database again.                              *)
KeepsAcknowledged == content[path] = acked

(* A closed database does not stay closed.  Violated: a Close that fails may*)
(* have closed the file, and compactDatabase returns without opening it.    *)
ClosedIsReopened ==
  (phase = "running" /\ db \notin open) ~> (phase # "running" \/ db \in open \cup {Nil})

(* processor.go:1260 "Final checkpoint": Shutdown leaves what it has in the *)
(* file.  Violated: a compaction under way has the database closed.         *)
FinalCheckpoint ==
  [][phase = "stopping" /\ phase' = "closing" => acked' = acked + 1]_vars

(* processor.go:1272 "Close the database": nothing is open when Shutdown has*)
(* returned.  Violated: a compaction that it did not wait for opens it      *)
(* again, and a processor of the same process would wait for its lock.      *)
ShutdownReleases == phase = "stopped" => open = {}
=============================================================================
