--------------------------- MODULE ResumableUpload ---------------------------
(***************************************************************************)
(* One resumable upload path of the store: the handlers `post` and `put`   *)
(* of upload.rs, the blocking closures they spawn, and the startup scan,   *)
(* working on three directory entries that share nothing but their names:  *)
(*                                                                         *)
(*     <name>.resumable-meta     the status of every chunk  (mpath)        *)
(*     <name>.resumable-upload   the bytes received so far  (upath)        *)
(*     <name>                    the published file         (fpath)        *)
(*                                                                         *)
(* Directory entries and inodes are kept apart, because a closure that     *)
(* opened the meta before it was removed goes on writing to the unlinked   *)
(* inode, and because flock is held on the inode, not on the name.         *)
(*                                                                         *)
(* A request is a future: it can be dropped at an await, and what it has   *)
(* handed to spawn_blocking then runs to its end without it.  A future     *)
(* resumes in the last step of the closure it awaits: dropping it between  *)
(* the two is the same as dropping it while the closure still runs.        *)
(***************************************************************************)
EXTENDS Naturals, FiniteSets

CONSTANTS
  Puts,          \* the PUT requests the server can have in flight
  Posts,         \* the POST requests it can have in flight
  Chunks,        \* the chunk indices of the upload
  MetaIds,       \* inodes for the meta file
  FileIds,       \* inodes for the upload file and the published file
  SerialCreate,  \* TRUE: a POST is sent only when no other request is running
  LongMeta,      \* TRUE: the meta is longer than the buffer it is read through
  Faults,        \* the kinds of fault that may happen, from FaultKinds
  MaxFaults,     \* bound: how many of them
  None,          \* no inode, no chunk, no content, no read begun
  Broken         \* the content of a meta file that does not parse

ChunkStatus == {"NotStarted", "Ongoing", "Completed"}
Contents    == [Chunks -> ChunkStatus]

JobKinds == {"claim", "fail", "complete", "reset"}
Stages   == {"none", "open", "lock", "write"}
PutPc    == {"idle", "claim", "open", "stream", "fail", "complete",
             "check", "rename", "remove"}
PostPc   == {"idle", "write", "fill", "create"}

(* A PutPc names the await at which a PUT can be dropped.  The closure of a *)
(* rename that is awaited renames all the same, and a removal removes: the  *)
(* future dropped at its rename is the one dropped at "remove", before the  *)
(* removal is begun.  An open of the upload file, a last read, a rename or  *)
(* a removal that fails ends the request as a drop does at "open", "check"  *)
(* or "remove".  "create" drops a POST, "body" is a request body that ends  *)
(* in an error, "crash" the end of the process.  A write of a meta fails    *)
(* after its truncation ("disk"); the open, the flock, the read or the      *)
(* truncation of a meta fail and leave it as it is, for a request that is   *)
(* told ("io"), a reset that is not ("reset"), or the startup scan ("scan"). *)
Droppable  == PutPc \ {"idle", "rename"}
FaultKinds == Droppable \cup {"create", "body", "disk", "crash", "io", "reset", "scan"}

ASSUME NoneAssumption   == None \notin Puts \cup Posts \cup Chunks \cup MetaIds \cup FileIds
ASSUME BrokenAssumption == Broken \notin Contents /\ None \notin Contents
ASSUME ChunksAssumption == IsFiniteSet(Chunks) /\ Chunks # {}
ASSUME SerialAssumption == SerialCreate \in BOOLEAN /\ LongMeta \in BOOLEAN
ASSUME FaultsAssumption == Faults \subseteq FaultKinds /\ MaxFaults \in Nat

VARIABLES
  phase,    \* "up", or "boot" from the end of a process to the end of the scan
  pc,       \* pc[r]: the await PUT r is suspended at
  chunk,    \* chunk[r]: the chunk index captured by PUT r and by its closures
  handle,   \* handle[r]: the upload file inode PUT r has open
  head,     \* head[r]: the meta PUT r has read the first part of, and as it was then
  stage,    \* stage[r][k]: progress of the update_meta_file closure k of PUT r
  opened,   \* opened[r][k]: the meta inode that closure has open
  after,    \* after[r][k]: the bytes it is about to write
  ppc,      \* ppc[p]: progress of POST p
  pinode,   \* pinode[p]: the meta inode that fs::write of POST p has open
  mpath, upath, fpath,   \* the three directory entries
  meta,     \* meta[i]: content of meta inode i
  written,  \* written[i]: chunks whose bytes have all reached file inode i
  faults    \* faults left

putVars  == <<pc, chunk, handle, head>>
jobVars  == <<stage, opened, after>>
postVars == <<ppc, pinode>>
dirVars  == <<mpath, upath, fpath>>
vars     == <<phase, putVars, jobVars, postVars, dirVars, meta, written, faults>>

\* A meta that fits the buffer is read at once.
Heads == {None} \cup (IF LongMeta THEN [inode : MetaIds, was : Contents] ELSE {})

TypeOK ==
  /\ phase   \in {"up", "boot"}
  /\ pc      \in [Puts -> PutPc]
  /\ chunk   \in [Puts -> Chunks \cup {None}]
  /\ handle  \in [Puts -> FileIds \cup {None}]
  /\ head    \in [Puts -> Heads]
  /\ stage   \in [Puts -> [JobKinds -> Stages]]
  /\ opened  \in [Puts -> [JobKinds -> MetaIds \cup {None}]]
  /\ after   \in [Puts -> [JobKinds -> Contents \cup {None}]]
  /\ ppc     \in [Posts -> PostPc]
  /\ pinode  \in [Posts -> MetaIds \cup {None}]
  /\ mpath   \in MetaIds \cup {None}
  /\ upath   \in FileIds \cup {None}
  /\ fpath   \in FileIds \cup {None}
  /\ meta    \in [MetaIds -> Contents \cup {Broken}]
  /\ written \in [FileIds -> SUBSET Chunks]
  /\ faults  \in 0 .. MaxFaults

-----------------------------------------------------------------------------
AllNotStarted   == [c \in Chunks |-> "NotStarted"]

\* Mutant: "nothing left to start" taken for "everything completed".
AllStarted(m)   == \A c \in Chunks : m[c] # "NotStarted"
AllCompleted(m) == \A c \in Chunks : m[c] = "Completed"

NoJobs  == [k \in JobKinds |-> "none"]
NoInode == [k \in JobKinds |-> None]

\* A fault of kind f happens, if it may.
Strike(f) == f \in Faults /\ faults > 0 /\ faults' = faults - 1

\* PUT r is over and so are all closures it started but those in ks.
Spent(r, ks) == \A k \in JobKinds \ ks : stage[r][k] = "none"

Idle(r) == pc[r] = "idle" /\ Spent(r, {})

Quiet == (\A r \in Puts : Idle(r)) /\ (\A p \in Posts : ppc[p] = "idle")

\* Mutants of Updated: the entry removed instead of marked; a failed body taken
\* for a success, or leaving the claim as it is; the reset of one chunk
\* written as the reset of all.
UpdatedRemoves(k, c, m) ==
  IF k = "complete" THEN [d \in Chunks \ {c} |-> m[d]] ELSE [m EXCEPT ![c] = "Ongoing"]
UpdatedFailCompletes(k, c, m) ==
  IF k = "claim" THEN [m EXCEPT ![c] = "Ongoing"] ELSE [m EXCEPT ![c] = "Completed"]
UpdatedFailKeeps(k, c, m) ==
  [m EXCEPT ![c] = CASE k = "claim" -> "Ongoing" [] k = "complete" -> "Completed"
                     [] OTHER -> m[c]]
UpdatedResetsAll(k, c, m) ==
  CASE k = "claim"    -> [m EXCEPT ![c] = "Ongoing"]
    [] k = "complete" -> [m EXCEPT ![c] = "Completed"]
    [] OTHER -> [d \in Chunks |-> IF m[d] = "Ongoing" THEN "NotStarted" ELSE m[d]]

\* The closures that run inside the lock, as functions of the meta they read.
Updated(k, c, m) ==
  CASE k = "claim"    -> [m EXCEPT ![c] = "Ongoing"]
    [] k = "fail"     -> [m EXCEPT ![c] = "NotStarted"]
    [] k = "complete" -> [m EXCEPT ![c] = "Completed"]
    [] k = "reset"    -> IF m[c] = "Ongoing" THEN [m EXCEPT ![c] = "NotStarted"]
                                             ELSE m

\* Mutants: the claim of a chunk that is Ongoing, or Completed, is let through.
VetoedCompletedOnly(k, c, m) == k = "claim" /\ m[c] = "Completed"
VetoedOngoingOnly(k, c, m)   == k = "claim" /\ m[c] = "Ongoing"

\* Only the claim vetoes: ChunkIsOngoing, ChunkIsCompleted.
Vetoed(k, c, m) == k = "claim" /\ m[c] # "NotStarted"

\* flock(LOCK_EX) on inode i is free.
Unlocked(i) == \A r \in Puts, k \in JobKinds :
                 ~(stage[r][k] = "write" /\ opened[r][k] = i)

\* Inodes the file system can give to a new file.
FreeMeta == {i \in MetaIds : /\ i # mpath
                             /\ \A r \in Puts, k \in JobKinds : opened[r][k] # i
                             /\ \A r \in Puts : head[r] = None \/ head[r].inode # i
                             /\ \A p \in Posts : pinode[p] # i}
FreeFile == {i \in FileIds \ {upath, fpath} : \A r \in Puts : handle[r] # i}

-----------------------------------------------------------------------------
\* Mutant: a completed chunk is answered without the check for the last one.
ResumedWithoutCheck(k, ok) == IF k = "claim" /\ ok THEN "open" ELSE "idle"

(* What a PUT does with the end of the closure k it may be awaiting.        *)
(* ok: the closure returned Ok.  A guard that is dropped uncommitted spawns *)
(* the reset.  The closure of a dropped future has nobody to tell.          *)
Resumed(k, ok) ==
  CASE k = "claim"    -> IF ok THEN "open" ELSE "idle"
    [] k = "fail"     -> "idle"
    [] k = "complete" -> IF ok THEN "check" ELSE "idle"
    [] k = "reset"    -> "idle"

GuardDropped(k, ok) == k \in {"fail", "complete"} /\ ~ok

EndJob(r, k, ok) ==
  LET awaited == pc[r] = k
      reset   == awaited /\ GuardDropped(k, ok)
      going   == awaited /\ Resumed(k, ok) # "idle"
  IN /\ pc' = IF awaited THEN [pc EXCEPT ![r] = Resumed(k, ok)] ELSE pc
     /\ stage' = [stage EXCEPT ![r] =
                   [j \in JobKinds |-> IF j = k THEN "none"
                                      ELSE IF j = "reset" /\ reset THEN "open"
                                      ELSE stage[r][j]]]
     /\ opened' = [opened EXCEPT ![r][k] = None]
     /\ after'  = [after EXCEPT ![r][k] = None]
     /\ chunk'  = IF ~going /\ ~reset /\ Spent(r, {k})
                  THEN [chunk EXCEPT ![r] = None] ELSE chunk

StartJob(r, k) == stage' = [stage EXCEPT ![r][k] = "open"]

\* The process ends: every future, closure, lock and open file is gone.
Die ==
  /\ phase'  = "boot"
  /\ pc'     = [r \in Puts |-> "idle"]
  /\ chunk'  = [r \in Puts |-> None]
  /\ handle' = [r \in Puts |-> None]
  /\ head'   = [r \in Puts |-> None]
  /\ stage'  = [r \in Puts |-> NoJobs]
  /\ opened' = [r \in Puts |-> NoInode]
  /\ after'  = [r \in Puts |-> NoInode]
  /\ ppc'    = [p \in Posts |-> "idle"]
  /\ pinode' = [p \in Posts |-> None]

-----------------------------------------------------------------------------
Init ==
  /\ phase   = "up"
  /\ pc      = [r \in Puts |-> "idle"]
  /\ chunk   = [r \in Puts |-> None]
  /\ handle  = [r \in Puts |-> None]
  /\ head    = [r \in Puts |-> None]
  /\ stage   = [r \in Puts |-> NoJobs]
  /\ opened  = [r \in Puts |-> NoInode]
  /\ after   = [r \in Puts |-> NoInode]
  /\ ppc     = [p \in Posts |-> "idle"]
  /\ pinode  = [p \in Posts |-> None]
  /\ mpath   = None
  /\ upath   = None
  /\ fpath   = None
  /\ meta    = [i \in MetaIds |-> Broken]
  /\ written = [i \in FileIds |-> {}]
  /\ faults  = MaxFaults

-----------------------------------------------------------------------------
(* update_meta_file.  The four closures share the code: open by name, lock  *)
(* the inode, read and update, truncate, write, unlock.                     *)

\* The open by name; an error is ServerError::Custom.
JobOpen(r, k) ==
  /\ stage[r][k] = "open"
  /\ IF mpath = None
     THEN EndJob(r, k, FALSE)
     ELSE /\ stage'  = [stage EXCEPT ![r][k] = "lock"]
          /\ opened' = [opened EXCEPT ![r][k] = mpath]
          /\ UNCHANGED <<pc, chunk, after>>
  /\ UNCHANGED <<phase, handle, head, postVars, dirVars, meta, written, faults>>

\* The lock is taken, the meta read and the updater run.  A meta that does
\* not parse, a veto and an update without effect release the lock at once;
\* otherwise set_len(0) leaves the inode empty until the write.
JobLock(r, k) ==
  LET i == opened[r][k]
      c == chunk[r]
  IN /\ stage[r][k] = "lock"
     /\ Unlocked(i)
     /\ IF meta[i] = Broken \/ Vetoed(k, c, meta[i])
        THEN EndJob(r, k, FALSE) /\ UNCHANGED meta
        ELSE IF Updated(k, c, meta[i]) = meta[i]
        THEN EndJob(r, k, TRUE) /\ UNCHANGED meta
        ELSE /\ stage' = [stage EXCEPT ![r][k] = "write"]
             /\ after' = [after EXCEPT ![r][k] = Updated(k, c, meta[i])]
             /\ meta'  = [meta EXCEPT ![i] = Broken]
             /\ UNCHANGED <<pc, chunk, opened>>
     /\ UNCHANGED <<phase, handle, head, postVars, dirVars, written, faults>>

\* write_all and the unlock.
JobWrite(r, k) ==
  /\ stage[r][k] = "write"
  /\ meta' = [meta EXCEPT ![opened[r][k]] = after[r][k]]
  /\ EndJob(r, k, TRUE)
  /\ UNCHANGED <<phase, handle, head, postVars, dirVars, written, faults>>

\* The open, the flock, the read or set_len fails; of the reset, silently.
JobFails(r, k) ==
  /\ stage[r][k] \in {"open", "lock"}
  /\ Strike(IF k = "reset" THEN "reset" ELSE "io")
  /\ EndJob(r, k, FALSE)
  /\ UNCHANGED <<phase, handle, head, postVars, dirVars, meta, written>>

\* write_all fails after the truncation (the disk is full).
JobWriteFails(r, k) ==
  /\ stage[r][k] = "write"
  /\ Strike("disk")
  /\ EndJob(r, k, FALSE)
  /\ UNCHANGED <<phase, handle, head, postVars, dirVars, meta, written>>

-----------------------------------------------------------------------------
(* put.                                                                     *)

\* From the arrival of the request to its first await inside the claim: the
\* unlocked read of the meta and the checks on it.  A missing meta, a broken
\* one or an unknown index is answered with an error and changes nothing.
PutBegin(r, c) ==
  /\ phase = "up"
  /\ Idle(r)
  /\ mpath # None
  /\ meta[mpath] # Broken
  /\ pc'    = [pc EXCEPT ![r] = "claim"]
  /\ chunk' = [chunk EXCEPT ![r] = c]
  /\ StartJob(r, "claim")
  /\ UNCHANGED <<phase, handle, head, opened, after, postVars, dirVars, meta,
                 written, faults>>

\* The upload file is opened by name; on an error the guard resets the chunk.
PutOpen(r) ==
  /\ pc[r] = "open"
  /\ IF upath = None
     THEN /\ pc' = [pc EXCEPT ![r] = "idle"]
          /\ StartJob(r, "reset")
          /\ UNCHANGED handle
     ELSE /\ pc' = [pc EXCEPT ![r] = "stream"]
          /\ handle' = [handle EXCEPT ![r] = upath]
          /\ UNCHANGED stage
  /\ UNCHANGED <<phase, chunk, head, opened, after, postVars, dirVars, meta,
                 written, faults>>

\* stream_body_to_file has written the whole chunk.
PutWrite(r) ==
  /\ pc[r] = "stream"
  /\ written' = [written EXCEPT ![handle[r]] = @ \cup {chunk[r]}]
  /\ handle'  = [handle EXCEPT ![r] = None]
  /\ pc'      = [pc EXCEPT ![r] = "complete"]
  /\ StartJob(r, "complete")
  /\ UNCHANGED <<phase, chunk, head, opened, after, postVars, dirVars, meta, faults>>

\* The body ends in an error, or is too short or too long.
PutBodyFails(r) ==
  /\ pc[r] = "stream"
  /\ Strike("body")
  /\ handle' = [handle EXCEPT ![r] = None]
  /\ pc'     = [pc EXCEPT ![r] = "fail"]
  /\ StartJob(r, "fail")
  /\ UNCHANGED <<phase, chunk, head, opened, after, postVars, dirVars, meta, written>>

\* What the last read decides: publish, or leave that to others.
Conclude(r, all) ==
  IF all THEN pc' = [pc EXCEPT ![r] = "rename"] /\ UNCHANGED chunk
         ELSE pc' = [pc EXCEPT ![r] = "idle"]   /\ chunk' = [chunk EXCEPT ![r] = None]

\* The read after the completion, without the lock.  `.unwrap()` on a meta that
\* is gone panics, and a release build aborts on a panic.
PutCheck(r) ==
  /\ pc[r] = "check"
  /\ head[r] = None
  /\ IF mpath = None
     THEN Die
     ELSE /\ Conclude(r, meta[mpath] # Broken /\ AllCompleted(meta[mpath]))
          /\ UNCHANGED <<phase, handle, head, jobVars, postVars>>
  /\ UNCHANGED <<dirVars, meta, written, faults>>

\* The same read of a long meta: a first buffer of it ...
PutCheckHead(r) ==
  /\ LongMeta
  /\ pc[r] = "check"
  /\ head[r] = None
  /\ mpath # None /\ meta[mpath] # Broken
  /\ head' = [head EXCEPT ![r] = [inode |-> mpath, was |-> meta[mpath]]]
  /\ UNCHANGED <<phase, pc, chunk, handle, jobVars, postVars, dirVars, meta, written, faults>>

(* A rewritten meta has its chunks in another order.  The first part of one *)
(* version and the rest of the other, if they parse together, can have some *)
(* chunks twice and others not at all: any k chunks of the one, and all but *)
(* k of the other.  They are all completed when there are as many of those. *)
TornAllCompleted(was, now) ==
  LET done(m) == Cardinality({c \in Chunks : m[c] = "Completed"})
  IN \E k \in 1 .. Cardinality(Chunks) - 1 :
       k <= done(was) /\ Cardinality(Chunks) - k <= done(now)

\* ... and the rest, of whatever the inode holds by then.
PutCheckTail(r) ==
  LET was == head[r].was
      now == meta[head[r].inode]
  IN /\ pc[r] = "check"
     /\ head[r] # None
     /\ \E all \in BOOLEAN :
          /\ was = now => all = AllCompleted(now)
          /\ all => now # Broken /\ (was = now \/ TornAllCompleted(was, now))
          /\ Conclude(r, all)
     /\ head' = [head EXCEPT ![r] = None]
     /\ UNCHANGED <<phase, handle, jobVars, postVars, dirVars, meta, written, faults>>

\* rename(upload file, final name), an error when the upload file is gone.
PutRename(r) ==
  /\ pc[r] = "rename"
  /\ IF upath = None
     THEN /\ pc'    = [pc EXCEPT ![r] = "idle"]
          /\ chunk' = [chunk EXCEPT ![r] = None]
          /\ UNCHANGED <<upath, fpath>>
     ELSE /\ pc'    = [pc EXCEPT ![r] = "remove"]
          /\ fpath' = upath
          /\ upath' = None
          /\ UNCHANGED chunk
  /\ UNCHANGED <<phase, handle, head, jobVars, postVars, mpath, meta, written, faults>>

\* remove_file(meta); whether it succeeds only changes the answer.
PutRemove(r) ==
  /\ pc[r] = "remove"
  /\ pc'    = [pc EXCEPT ![r] = "idle"]
  /\ chunk' = [chunk EXCEPT ![r] = None]
  /\ mpath' = None
  /\ UNCHANGED <<phase, handle, head, jobVars, postVars, upath, fpath, meta,
                 written, faults>>

(* The future of PUT r is dropped at the await it is suspended at.  Between *)
(* the claim and the commit of the guard that spawns the reset; a closure   *)
(* that was awaited goes on.                                                *)
\* Mutant: the guard is only made once the upload file is open.
GuardedLate == {"stream", "fail", "complete"}
Guarded == {"open", "stream", "fail", "complete"}

PutDropped(r) ==
  /\ pc[r] \in Droppable
  /\ Strike(pc[r])
  /\ pc'     = [pc EXCEPT ![r] = "idle"]
  /\ handle' = [handle EXCEPT ![r] = None]
  /\ head'   = [head EXCEPT ![r] = None]
  /\ IF pc[r] \in Guarded THEN StartJob(r, "reset") ELSE UNCHANGED stage
  /\ chunk'  = IF pc[r] \in {"check", "remove"}
               THEN [chunk EXCEPT ![r] = None] ELSE chunk
  /\ UNCHANGED <<phase, opened, after, postVars, dirVars, meta, written>>

-----------------------------------------------------------------------------
(* post.                                                                    *)

\* The existence check; FileAlreadyExists changes nothing.
PostBegin(p) ==
  /\ phase = "up"
  /\ ppc[p] = "idle"
  /\ SerialCreate => Quiet
  /\ mpath = None
  /\ ppc' = [ppc EXCEPT ![p] = "write"]
  /\ UNCHANGED <<phase, putVars, jobVars, pinode, dirVars, meta, written, faults>>

\* fs::write opens the meta by name, creating or truncating it, unlocked ...
PostTruncate(p) ==
  /\ ppc[p] = "write"
  /\ \E i \in IF mpath = None THEN FreeMeta ELSE {mpath} :
       /\ mpath'  = i
       /\ pinode' = [pinode EXCEPT ![p] = i]
       /\ meta'   = [meta EXCEPT ![i] = Broken]
  /\ ppc' = [ppc EXCEPT ![p] = "fill"]
  /\ UNCHANGED <<phase, putVars, jobVars, upath, fpath, written, faults>>

\* ... and writes the new status table.
PostFill(p) ==
  /\ ppc[p] = "fill"
  /\ meta'   = [meta EXCEPT ![pinode[p]] = AllNotStarted]
  /\ pinode' = [pinode EXCEPT ![p] = None]
  /\ ppc'    = [ppc EXCEPT ![p] = "create"]
  /\ UNCHANGED <<phase, putVars, jobVars, dirVars, written, faults>>

\* File::create and fallocate of the upload file.
PostCreate(p) ==
  /\ ppc[p] = "create"
  /\ \E i \in IF upath = None THEN FreeFile ELSE {upath} :
       /\ upath'   = i
       /\ written' = [written EXCEPT ![i] = {}]
  /\ ppc' = [ppc EXCEPT ![p] = "idle"]
  /\ UNCHANGED <<phase, putVars, jobVars, pinode, mpath, fpath, meta, faults>>

\* fs::write fails after the truncation.
PostFillFails(p) ==
  /\ ppc[p] = "fill"
  /\ Strike("disk")
  /\ pinode' = [pinode EXCEPT ![p] = None]
  /\ ppc'    = [ppc EXCEPT ![p] = "idle"]
  /\ UNCHANGED <<phase, putVars, jobVars, dirVars, meta, written>>

\* The future is dropped, or File::create fails: no upload file.  Dropped
\* earlier, it comes to the same: fs::write is a closure that runs to its end.
PostDropped(p) ==
  /\ ppc[p] = "create"
  /\ Strike("create")
  /\ ppc' = [ppc EXCEPT ![p] = "idle"]
  /\ UNCHANGED <<phase, putVars, jobVars, pinode, dirVars, meta, written>>

-----------------------------------------------------------------------------
(* The process.                                                             *)

Crash ==
  /\ phase = "up"
  /\ Strike("crash")
  /\ Die
  /\ UNCHANGED <<dirVars, meta, written>>

\* reset_stale_ongoing_chunks, before the listener is bound: no one else runs.
\* A meta that does not parse is skipped.
Scan ==
  /\ phase = "boot"
  /\ phase' = "up"
  /\ IF mpath = None \/ meta[mpath] = Broken
     THEN UNCHANGED meta
     ELSE meta' = [meta EXCEPT ![mpath] =
            [c \in Chunks |-> IF @[c] = "Ongoing" THEN "NotStarted" ELSE @[c]]]
  /\ UNCHANGED <<putVars, jobVars, postVars, dirVars, written, faults>>

\* Between the truncation and the write of the scan the process ends again, or
\* the write fails and the scan goes on without this meta.
ScanFails ==
  /\ phase = "boot"
  /\ mpath # None
  /\ meta[mpath] # Broken
  /\ \E c \in Chunks : meta[mpath][c] = "Ongoing"
  /\ \/ Strike("crash") /\ UNCHANGED phase
     \/ Strike("disk") /\ phase' = "up"
  /\ meta' = [meta EXCEPT ![mpath] = Broken]
  /\ UNCHANGED <<putVars, jobVars, postVars, dirVars, written>>

\* The scan cannot open, lock or read the meta, logs that, and goes on without it.
ScanSkips ==
  /\ phase = "boot"
  /\ Strike("scan")
  /\ phase' = "up"
  /\ UNCHANGED <<putVars, jobVars, postVars, dirVars, meta, written>>

-----------------------------------------------------------------------------
JobStep(r, k) == JobOpen(r, k) \/ JobLock(r, k) \/ JobWrite(r, k)

PutStep(r) == \/ PutOpen(r) \/ PutWrite(r)
              \/ PutCheck(r) \/ PutCheckHead(r) \/ PutCheckTail(r)
              \/ PutRename(r) \/ PutRemove(r)

PostStep(p) == PostTruncate(p) \/ PostFill(p) \/ PostCreate(p)

Next ==
  \/ \E r \in Puts, c \in Chunks : PutBegin(r, c)
  \/ \E r \in Puts : PutStep(r) \/ PutBodyFails(r) \/ PutDropped(r)
  \/ \E r \in Puts, k \in JobKinds : JobStep(r, k) \/ JobFails(r, k) \/ JobWriteFails(r, k)
  \/ \E p \in Posts : PostBegin(p) \/ PostStep(p) \/ PostFillFails(p) \/ PostDropped(p)
  \/ Crash \/ Scan \/ ScanFails \/ ScanSkips

Spec == Init /\ [][Next]_vars

(* Fairness: the runtime polls every ready future and runs every closure it *)
(* was given; a flock waited for is granted in the end, however often it is *)
(* taken (the kernel queues the waiters); the client sends the body of its  *)
(* request, and asks for each chunk again and again.                        *)
Fairness ==
  /\ \A r \in Puts : WF_vars(PutStep(r))
  /\ \A r \in Puts, k \in JobKinds : SF_vars(JobStep(r, k))
  /\ \A p \in Posts : WF_vars(PostStep(p))
  /\ WF_vars(Scan)
  /\ \A c \in Chunks : SF_vars(\E r \in Puts : PutBegin(r, c))

FairSpec == Spec /\ Fairness

-----------------------------------------------------------------------------
(* What is true of the system.                                              *)

\* The statuses the meta inode i stands for, whoever is in the middle of
\* rewriting it.
Writers(i) == {rk \in Puts \X JobKinds :
                 stage[rk[1]][rk[2]] = "write" /\ opened[rk[1]][rk[2]] = i}

Logical(i) ==
  IF Writers(i) # {}
  THEN LET w == CHOOSE rk \in Writers(i) : TRUE IN after[w[1]][w[2]]
  ELSE IF \E p \in Posts : ppc[p] = "fill" /\ pinode[p] = i THEN AllNotStarted
  ELSE meta[i]

\* The statuses of the upload at this path, or Broken, or None.
Status == IF mpath = None THEN None ELSE Logical(mpath)
Readable == Status \notin {None, Broken}

\* The point of the claim in put: at most one request writes a chunk.
Writing(r) == pc[r] \in {"open", "stream"}

OneWriterPerChunk ==
  \A r, s \in Puts : Writing(r) /\ Writing(s) /\ chunk[r] = chunk[s] => r = s

\* The file that appears under the final name holds every chunk.
PublishedIsComplete == fpath # None => written[fpath] = Chunks

\* A chunk the meta calls Completed is on the disk: clients skip it.
CompletedIsStored ==
  Readable => \A c \in Chunks : Status[c] = "Completed" =>
    \/ upath # None /\ c \in written[upath]
    \/ upath = None /\ fpath # None /\ c \in written[fpath]

\* A chunk the meta calls Ongoing is refused to everyone: some request holds
\* it, or something is about to give it back.
Holding(r) == \/ pc[r] \in {"open", "stream", "fail", "complete"}
              \/ \E k \in JobKinds : stage[r][k] = "write"
              \/ stage[r]["reset"] # "none"

OngoingHasOwner ==
  phase = "up" /\ Readable =>
    \A c \in Chunks : Status[c] = "Ongoing" =>
      \E r \in Puts : chunk[r] = c /\ Holding(r)

\* When the last chunk is completed, a request is there that publishes the file.
LastChunkFinalises ==
  Readable /\ AllCompleted(Status) =>
    \E r \in Puts : pc[r] \in {"complete", "check", "rename", "remove"}

\* The meta is there when a PUT unwraps the last read of it.
MetaAtLastCheck == \A r \in Puts : pc[r] = "check" => mpath # None

\* A chunk once Completed stays so for as long as the upload exists.
CompletedIsFinal ==
  [][ \A c \in Chunks :
        Readable /\ Status[c] = "Completed" /\ mpath' = mpath /\ Status' # Broken
          => Status'[c] = "Completed" ]_vars

\* An upload that was created is finished: its file appears and its meta goes.
ResumeSucceeds == mpath # None ~> mpath = None /\ fpath # None

Ledger == INSTANCE UploadLedger WITH
  Absent  <- None,
  Wrecked <- Broken,
  ledger  <- Status,
  data    <- IF upath = None THEN {} ELSE written[upath],
  final   <- fpath # None,
  running <- phase = "up"

LedgerSpec == Ledger!Spec
=============================================================================
