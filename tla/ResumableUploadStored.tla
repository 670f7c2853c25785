------------------------- MODULE ResumableUploadStored -------------------------
(***************************************************************************)
(* Theorems about the bytes of one resumable upload path: what is published *)
(* is whole, and what the meta calls Completed is on the disk.             *)
(***************************************************************************)
EXTENDS ResumableUploadProofs

LEMMA InitStoredInv == Init => StoredInv
  <1> SUFFICES ASSUME Init PROVE StoredInv
    OBVIOUS
  <1>1. SaidIsStored /\ FileIsMissing /\ PublishedIsComplete
    BY DEF Init, SaidIsStored, FileIsMissing, PublishedIsComplete
  <1>2. WritesTheFile /\ FileIsToCome
    BY DEF Init, WritesTheFile, FileIsToCome
  <1> QED
    BY <1>1, <1>2 DEF StoredInv

(* A step that moves no file, adds nothing to what the meta says but what is *)
(* stored, and lets no request past its open without the file.              *)
StepKeeps ==
  /\ UNCHANGED <<mpath, upath, fpath, written>>
  /\ \A p \in Posts : ppc'[p] \in {ppc[p], "idle"}
  /\ \A c \in Chunks : Says(c)' => Says(c) \/ (upath # None /\ c \in written[upath])
  /\ mpath # None /\ Finished(mpath) => meta'[mpath] = meta[mpath]
  /\ \A q \in Puts :
       /\ pc'[q] = "stream"   => upath # None /\ handle'[q] = upath
       /\ pc'[q] = "complete" => upath # None /\ chunk'[q] \in written[upath]
       /\ pc'[q] = "remove"   => upath = None
       /\ pc'[q] \in PastOpen => upath # None \/ pc[q] \in PastOpen

LEMMA KeepsStored ==
  ASSUME StoredInv, StepKeeps
  PROVE  StoredInv'
  <1> USE DEF StepKeeps, StoredInv
  <1>1. upath = None /\ Untouched => Untouched'
    BY DEF Untouched
  <1>2. SaidIsStored'
    BY DEF SaidIsStored
  <1>3. mpath # None /\ Finished(mpath) => Finished(mpath)'
    BY DEF Finished, AllCompleted
  <1>4. FileIsMissing'
    BY <1>1, <1>3 DEF FileIsMissing
  <1>5. WritesTheFile'
    BY DEF WritesTheFile
  <1>6. FileIsToCome'
    BY <1>1 DEF FileIsToCome
  <1>7. PublishedIsComplete'
    BY DEF PublishedIsComplete
  <1> QED
    BY <1>2, <1>4, <1>5, <1>6, <1>7

(* The closures.                                                            *)

(* The end of a closure, whatever it did to the meta.                       *)
LEMMA EndJobStored ==
  ASSUME SerialInv, StoredInv, NEW r \in Puts, NEW k \in JobKinds, NEW ok \in BOOLEAN,
         EndJobEffects(r, k, ok), stage[r][k] # "none",
         UNCHANGED <<handle, ppc, mpath, upath, fpath, written>>,
         \A c \in Chunks : Says(c)' => Says(c),
         mpath # None /\ Finished(mpath) => meta'[mpath] = meta[mpath]
  PROVE  StoredInv'
  <1>1. k = "complete" => pc[r] = "complete"
    BY DEF SerialInv, Attached
  <1>2. \/ pc'[r] \in {"idle", "open"}
        \/ pc'[r] = "check" /\ pc[r] = "complete"
    BY <1>1 DEF EndJobEffects
  <1>3. \A q \in Puts : q # r => pc'[q] = pc[q] /\ chunk'[q] = chunk[q]
    BY DEF EndJobEffects
  <1>4. StepKeeps
    BY <1>2, <1>3 DEF StepKeeps, StoredInv, WritesTheFile, PastOpen
  <1> QED
    BY <1>4, KeepsStored

(* A closure that ends without having written adds nothing to what is said. *)
LEMMA EndJobSays ==
  ASSUME NEW r \in Puts, NEW k \in JobKinds, NEW ok \in BOOLEAN,
         EndJobEffects(r, k, ok), UNCHANGED <<mpath, meta>>, NEW c \in Chunks, Says(c)'
  PROVE  Says(c)
  BY DEF EndJobEffects, Says

LEMMA JobOpenStored ==
  ASSUME TypeInv, SerialInv, StoredInv, NEW r \in Puts, NEW k \in JobKinds, JobOpen(r, k)
  PROVE  StoredInv'
  <1>1. /\ stage[r][k] = "open"
        /\ UNCHANGED <<handle, ppc, mpath, upath, fpath, meta, written>>
    BY DEF JobOpen, postVars, dirVars
  <1>2. CASE mpath = None
    <2>1. EndJobEffects(r, k, FALSE)
      BY <1>1, <1>2, EndJobEffect DEF JobOpen
    <2> QED
      BY <1>1, <2>1, EndJobSays, EndJobStored
  <1>3. CASE mpath # None
    <2>1. /\ stage'  = [stage EXCEPT ![r][k] = "lock"]
          /\ UNCHANGED <<pc, chunk, after>>
      BY <1>3 DEF JobOpen
    <2>2. \A q \in Puts, j \in JobKinds : stage'[q][j] = "write" => stage[q][j] = "write"
      BY <2>1 DEF TypeInv, JobTypes
    <2>3. \A c \in Chunks : Says(c)' => Says(c)
      BY <1>1, <2>1, <2>2 DEF Says
    <2>4. StepKeeps
      BY <1>1, <2>1, <2>3 DEF StepKeeps, StoredInv, WritesTheFile
    <2> QED
      BY <2>4, KeepsStored
  <1> QED
    BY <1>2, <1>3

(* What it is about to write is true: a completion follows its bytes.       *)
LEMMA JobLockStored ==
  ASSUME TypeInv, SerialInv, StoredInv, NEW r \in Puts, NEW k \in JobKinds, JobLock(r, k)
  PROVE  StoredInv'
  <1> DEFINE i == opened[r][k]
             c == chunk[r]
             new == Updated(k, c, meta[i])
  <1>1. /\ stage[r][k] = "lock" /\ Unlocked(i)
        /\ UNCHANGED <<handle, ppc, mpath, upath, fpath, written>>
    BY DEF JobLock, postVars, dirVars
  <1>2. CASE meta[i] = Broken \/ Vetoed(k, c, meta[i]) \/ new = meta[i]
    <2>1. PICK ok \in BOOLEAN : EndJob(r, k, ok) /\ UNCHANGED meta
      BY <1>2 DEF JobLock
    <2>2. EndJobEffects(r, k, ok)
      BY <1>1, <2>1, EndJobEffect
    <2> QED
      BY <1>1, <2>1, <2>2, EndJobSays, EndJobStored
  <1>3. CASE ~(meta[i] = Broken \/ Vetoed(k, c, meta[i]) \/ new = meta[i])
    <2>1. /\ stage' = [stage EXCEPT ![r][k] = "write"]
          /\ after' = [after EXCEPT ![r][k] = new]
          /\ meta'  = [meta EXCEPT ![i] = Broken]
          /\ UNCHANGED <<pc, chunk>>
      BY <1>3 DEF JobLock
    <2>2. /\ mpath # None /\ i = mpath /\ c \in Chunks
          /\ meta[mpath] \in Contents /\ ~Finished(mpath)
          /\ \A q \in Puts, j \in JobKinds : stage[q][j] # "write"
      BY <1>1, <1>3, LockedMeta
    <2>3. \A d \in Chunks : new[d] = "Completed" =>
            meta[mpath][d] = "Completed" \/ (d = c /\ k = "complete")
      BY <2>2 DEF Updated, Contents, JobKinds
    <2>4. k = "complete" => upath # None /\ c \in written[upath]
      BY <1>1 DEF SerialInv, Attached, StoredInv, WritesTheFile
    <2>5. /\ \A q \in Puts, j \in JobKinds : stage'[q][j] = "write" => q = r /\ j = k
          /\ after'[r][k] = new /\ meta'[mpath] = Broken
      BY <2>1, <2>2 DEF TypeInv, JobTypes, StoreTypes
    <2>6. \A d \in Chunks : Says(d)' => Says(d) \/ (upath # None /\ d \in written[upath])
      BY <1>1, <1>3, <2>2, <2>3, <2>4, <2>5 DEF Says
    <2>7. StepKeeps
      BY <1>1, <2>1, <2>2, <2>6 DEF StepKeeps, StoredInv, WritesTheFile
    <2> QED
      BY <2>7, KeepsStored
  <1> QED
    BY <1>2, <1>3

LEMMA JobWriteStored ==
  ASSUME TypeInv, SerialInv, StoredInv, NEW r \in Puts, NEW k \in JobKinds,
         JobWrite(r, k) \/ JobWriteFails(r, k)
  PROVE  StoredInv'
  <1>1. /\ stage[r][k] = "write"
        /\ UNCHANGED <<handle, ppc, mpath, upath, fpath, written>>
    BY DEF JobWrite, JobWriteFails, postVars, dirVars
  <1>2. PICK ok \in BOOLEAN : EndJob(r, k, ok)
    BY DEF JobWrite, JobWriteFails
  <1>3. EndJobEffects(r, k, ok)
    BY <1>1, <1>2, EndJobEffect
  <1>4. mpath # None /\ meta[mpath] = Broken
    BY <1>1 DEF SerialInv, WriterTruncates
  <1>5. \/ UNCHANGED meta
        \/ meta' = [meta EXCEPT ![opened[r][k]] = after[r][k]]
    BY DEF JobWrite, JobWriteFails
  <1>6. \A c \in Chunks : Says(c)' => Says(c)
    <2>1. meta'[mpath] \in {meta[mpath], after[r][k]}
      BY <1>5, <1>4 DEF TypeInv, StoreTypes
    <2> QED
      BY <1>1, <1>3, <1>4, <2>1 DEF EndJobEffects, Says
  <1> QED
    BY <1>1, <1>3, <1>4, <1>6, EndJobStored DEF Finished

LEMMA JobFailsStored ==
  ASSUME TypeInv, SerialInv, StoredInv, NEW r \in Puts, NEW k \in JobKinds, JobFails(r, k)
  PROVE  StoredInv'
  <1>1. /\ stage[r][k] # "none"
        /\ UNCHANGED <<handle, ppc, mpath, upath, fpath, meta, written>>
    BY DEF JobFails, postVars, dirVars
  <1>2. EndJobEffects(r, k, FALSE)
    BY <1>1, EndJobEffect DEF JobFails
  <1> QED
    BY <1>1, <1>2, EndJobSays, EndJobStored

-----------------------------------------------------------------------------
(* put.                                                                     *)

\* A step of a request that touches no file, and of no closure past its open.
LEMMA PutQuietStored ==
  ASSUME TypeInv, SerialInv, StoredInv, NEW r \in Puts,
         \/ \E c \in Chunks : PutBegin(r, c)
         \/ PutOpen(r) \/ PutBodyFails(r) \/ PutDropped(r)
         \/ PutCheck(r) /\ mpath # None
         \/ PutRename(r) /\ upath = None
  PROVE  StoredInv'
  <1>1. /\ UNCHANGED <<ppc, mpath, upath, fpath, meta, after, written>>
        /\ \A q \in Puts : q # r =>
             pc'[q] = pc[q] /\ chunk'[q] = chunk[q] /\ handle'[q] = handle[q]
    BY DEF PutBegin, PutOpen, PutBodyFails, PutDropped, PutCheck, Conclude, PutRename, jobVars,
           postVars, dirVars, TypeInv, JobTypes, StoreTypes
  <1>2. \A q \in Puts, k \in JobKinds : stage'[q][k] = "write" => stage[q][k] = "write"
    BY DEF PutBegin, PutOpen, PutBodyFails, PutDropped, PutCheck, PutRename, jobVars,
           StartJob, TypeInv, JobTypes
  <1>3. \/ pc'[r] \in {"idle", "claim", "fail"}
        \/ pc'[r] = "stream" /\ upath # None /\ handle'[r] = upath
        \/ pc'[r] = "rename" /\ pc[r] = "check"
    BY DEF PutBegin, PutOpen, PutBodyFails, PutDropped, PutCheck, Conclude, PutRename,
           TypeInv, JobTypes, StoreTypes
  <1>4. \A c \in Chunks : Says(c)' => Says(c)
    BY <1>1, <1>2 DEF Says
  <1>5. StepKeeps
    BY <1>1, <1>3, <1>4 DEF StepKeeps, PastOpen, StoredInv, WritesTheFile
  <1> QED
    BY <1>5, KeepsStored

\* Before the completion, the bytes.
LEMMA PutWriteStored ==
  ASSUME TypeInv, StoredInv, NEW r \in Puts, PutWrite(r)
  PROVE  StoredInv'
  <1> USE DEF StoredInv
  <1>1. /\ pc[r] = "stream" /\ chunk[r] \in Chunks /\ upath \in FileIds
        /\ upath # None /\ handle[r] = upath
    BY NoneAssumption DEF PutWrite, TypeInv, Requests, StoreTypes, WritesTheFile
  <1>2. /\ UNCHANGED <<ppc, mpath, upath, fpath, meta, after, chunk>>
        /\ written' = [written EXCEPT ![upath] = @ \cup {chunk[r]}]
        /\ handle'  = [handle EXCEPT ![r] = None]
        /\ pc'      = [pc EXCEPT ![r] = "complete"]
        /\ \A q \in Puts, k \in JobKinds : stage'[q][k] = "write" => stage[q][k] = "write"
    BY <1>1 DEF PutWrite, StartJob, postVars, dirVars, TypeInv, JobTypes
  <1>3. \A i \in FileIds : written[i] \subseteq written'[i] /\ written'[i] \subseteq Chunks
    BY <1>1, <1>2 DEF TypeInv, StoreTypes
  <1>4. chunk[r] \in written'[upath]
    BY <1>1, <1>2 DEF TypeInv, StoreTypes
  <1>5. SaidIsStored'
    BY <1>1, <1>2, <1>3 DEF SaidIsStored, Says
  <1>6. FileIsMissing' /\ FileIsToCome'
    BY <1>1, <1>2 DEF FileIsMissing, FileIsToCome
  <1>7. WritesTheFile'
    BY <1>1, <1>2, <1>3, <1>4 DEF WritesTheFile, TypeInv, JobTypes, StoreTypes
  <1>8. PublishedIsComplete'
    BY <1>2, <1>3 DEF PublishedIsComplete, TypeInv, StoreTypes
  <1> QED
    BY <1>5, <1>6, <1>7, <1>8

\* The file that is published is the one the finished meta speaks of.
LEMMA PutRenameStored ==
  ASSUME TypeInv, SerialInv, StoredInv, NEW r \in Puts, PutRename(r), upath # None
  PROVE  StoredInv'
  <1> USE DEF StoredInv
  <1>1. /\ pc[r] = "rename"
        /\ pc' = [pc EXCEPT ![r] = "remove"]
        /\ fpath' = upath /\ upath' = None
        /\ UNCHANGED <<ppc, mpath, meta, written>>
    BY DEF PutRename, postVars
  <1>2. mpath # None /\ Finished(mpath)
    BY <1>1 DEF SaidIsStored, SerialInv, SeenFinished
  <1>3. \A c \in Chunks : c \in written[upath]
    BY <1>2 DEF SaidIsStored, Says, Finished, AllCompleted
  <1>4. PublishedIsComplete'
    BY <1>1, <1>3 DEF PublishedIsComplete, TypeInv, StoreTypes
  <1>5. SaidIsStored' /\ FileIsMissing'
    BY <1>1, <1>2 DEF SaidIsStored, FileIsMissing, Finished
  <1>6. \A q \in Puts : pc[q] \notin {"stream", "complete"}
    BY <1>2, FinishedUnclaimed DEF Claims
  <1>7. WritesTheFile'
    BY <1>1, <1>6 DEF WritesTheFile, TypeInv, JobTypes
  <1>8. FileIsToCome'
    BY <1>1 DEF FileIsToCome
  <1> QED
    BY <1>4, <1>5, <1>7, <1>8

LEMMA PutRemoveStored ==
  ASSUME TypeInv, StoredInv, NEW r \in Puts, PutRemove(r)
  PROVE  StoredInv'
  <1> USE DEF StoredInv
  <1>1. /\ pc[r] = "remove" /\ upath = None
        /\ pc' = [pc EXCEPT ![r] = "idle"]
        /\ mpath' = None
        /\ UNCHANGED <<ppc, upath, fpath, written>>
    BY DEF PutRemove, postVars, WritesTheFile
  <1>2. SaidIsStored' /\ FileIsMissing' /\ PublishedIsComplete'
    BY <1>1 DEF SaidIsStored, FileIsMissing, PublishedIsComplete
  <1>3. WritesTheFile'
    BY <1>1 DEF WritesTheFile, TypeInv, JobTypes
  <1>4. FileIsToCome'
    BY <1>1 DEF FileIsToCome, Untouched, PastOpen
  <1> QED
    BY <1>2, <1>3, <1>4

-----------------------------------------------------------------------------
(* post, and the process.                                                   *)

\* While a POST makes the meta no request runs, and there is no upload file.
LEMMA PostMetaStored ==
  ASSUME TypeInv, SerialInv, StoredInv, SerialRun, NEW p \in Posts,
         PostBegin(p) \/ PostTruncate(p) \/ PostFill(p)
  PROVE  StoredInv'
  <1> USE DEF StoredInv
  <1>1. /\ UNCHANGED <<pc, stage, upath, fpath, written>>
        /\ ppc' \in {[ppc EXCEPT ![p] = to] : to \in {"write", "fill", "create"}}
    BY DEF PostBegin, PostTruncate, PostFill, putVars, jobVars, dirVars
  <1>2. \A r \in Puts : Idle(r)
    BY DEF PostBegin, PostTruncate, PostFill, SerialInv, PostAlone, SerialRun, Quiet
  <1>3. \A r \in Puts : pc'[r] = "idle" /\ \A k \in JobKinds : stage'[r][k] = "none"
    BY <1>1, <1>2 DEF Idle, Spent
  <1>4. upath = None
    BY DEF PostBegin, PostTruncate, PostFill, FileIsToCome, SaidIsStored
  <1>5. \/ mpath' = None /\ ppc'[p] = "write"
        \/ mpath' # None /\ meta'[mpath'] \in {Broken, AllNotStarted}
    <2>1. CASE PostBegin(p)
      BY <2>1 DEF PostBegin, dirVars, TypeInv, StoreTypes
    <2>2. CASE PostTruncate(p)
      <3>1. PICK i \in MetaIds : mpath' = i /\ meta' = [meta EXCEPT ![i] = Broken]
        BY <2>2 DEF PostTruncate, SerialInv, PostAlone, FreeMeta
      <3> QED
        BY <3>1, NoneAssumption DEF TypeInv, StoreTypes
    <2>3. CASE PostFill(p)
      BY <2>3, NoneAssumption DEF PostFill, dirVars, SerialInv, PostAlone, TypeInv, Fills, StoreTypes
    <2> QED
      BY <2>1, <2>2, <2>3
  <1>6. Untouched'
    BY <1>3, <1>5 DEF Untouched, Says, PastOpen, AllNotStarted
  <1>7. SaidIsStored' /\ FileIsMissing' /\ PublishedIsComplete'
    BY <1>1, <1>4, <1>6 DEF SaidIsStored, FileIsMissing, PublishedIsComplete
  <1>8. WritesTheFile'
    BY <1>3 DEF WritesTheFile
  <1>9. \A q \in Posts : ppc'[q] = "create" => q = p /\ mpath' # None
    BY <1>1, <1>5 DEF PostBegin, PostTruncate, PostFill, SerialInv, PostAlone, SerialRun,
                      Quiet, TypeInv, StoreTypes
  <1>10. FileIsToCome'
    BY <1>1, <1>4, <1>6, <1>9 DEF FileIsToCome
  <1> QED
    BY <1>7, <1>8, <1>10

\* The upload file is empty, and the meta says so.
LEMMA PostCreateStored ==
  ASSUME TypeInv, SerialInv, StoredInv, NEW p \in Posts, PostCreate(p)
  PROVE  StoredInv'
  <1> USE DEF StoredInv
  <1>1. upath = None /\ mpath # None /\ Untouched
    BY DEF PostCreate, FileIsToCome
  <1>2. PICK i \in FreeFile : upath' = i /\ written' = [written EXCEPT ![i] = {}]
    BY <1>1 DEF PostCreate
  <1>3. i \in FileIds /\ i # None /\ i # fpath
    BY NoneAssumption DEF FreeFile
  <1>4. /\ UNCHANGED <<pc, chunk, handle, stage, after, mpath, fpath, meta>>
        /\ ppc' = [ppc EXCEPT ![p] = "idle"] /\ ppc[p] = "create"
    BY DEF PostCreate, putVars, jobVars
  <1>5. \A c \in Chunks : ~Says(c)'
    BY <1>1, <1>4 DEF Untouched, Says
  <1>6. SaidIsStored' /\ FileIsMissing'
    BY <1>1, <1>2, <1>3, <1>4, <1>5 DEF SaidIsStored, FileIsMissing
  <1>7. WritesTheFile'
    BY <1>1, <1>4 DEF Untouched, WritesTheFile, PastOpen
  <1>8. FileIsToCome'
    BY <1>4 DEF FileIsToCome, SerialInv, PostAlone, TypeInv, StoreTypes
  <1>9. PublishedIsComplete'
    BY <1>2, <1>3, <1>4 DEF PublishedIsComplete, TypeInv, StoreTypes
  <1> QED
    BY <1>6, <1>7, <1>8, <1>9

LEMMA PostDroppedStored ==
  ASSUME TypeInv, StoredInv, NEW p \in Posts, PostDropped(p) \/ PostFillFails(p)
  PROVE  StoredInv'
  <1>1. /\ UNCHANGED <<pc, chunk, handle, stage, after, mpath, upath, fpath, meta, written>>
        /\ \A q \in Posts : ppc'[q] \in {ppc[q], "idle"}
    BY DEF PostDropped, PostFillFails, putVars, jobVars, dirVars, TypeInv, StoreTypes
  <1>2. StepKeeps
    BY <1>1 DEF StepKeeps, Says, StoredInv, WritesTheFile
  <1> QED
    BY <1>2, KeepsStored

LEMMA DieStored ==
  ASSUME StoredInv, Die, UNCHANGED <<dirVars, meta, written>>
  PROVE  StoredInv'
  <1>1. /\ \A r \in Puts : pc'[r] = "idle" /\ \A k \in JobKinds : stage'[r][k] = "none"
        /\ \A p \in Posts : ppc'[p] = "idle"
    BY DEF Die, NoJobs
  <1>2. StepKeeps
    BY <1>1 DEF StepKeeps, Says, PastOpen, dirVars
  <1> QED
    BY <1>2, KeepsStored

LEMMA ScanStored ==
  ASSUME TypeInv, StoredInv, Scan \/ ScanFails \/ ScanSkips
  PROVE  StoredInv'
  <1>1. UNCHANGED <<pc, chunk, handle, stage, after, ppc, mpath, upath, fpath, written>>
    BY DEF Scan, ScanFails, ScanSkips, putVars, jobVars, postVars, dirVars
  <1>2. \/ meta' = meta
        \/ /\ mpath \in MetaIds /\ meta[mpath] \in Contents
           /\ \/ meta' = [meta EXCEPT ![mpath] = Broken] /\ ~AllCompleted(meta[mpath])
              \/ meta' = [meta EXCEPT ![mpath] = [c \in Chunks |->
                           IF @[c] = "Ongoing" THEN "NotStarted" ELSE @[c]]]
    BY DEF Scan, ScanFails, ScanSkips, AllCompleted, TypeInv, StoreTypes
  <1>3. \A c \in Chunks : Says(c)' => Says(c)
    <2> SUFFICES ASSUME NEW c \in Chunks, mpath # None, meta'[mpath] # Broken,
                        meta'[mpath][c] = "Completed"
                 PROVE  meta[mpath] # Broken /\ meta[mpath][c] = "Completed"
      BY <1>1 DEF Says
    <2> QED
      BY <1>2, BrokenAssumption DEF TypeInv, StoreTypes
  <1>4. mpath # None /\ Finished(mpath) => meta'[mpath] = meta[mpath]
    BY <1>2 DEF Finished, AllCompleted, Contents, TypeInv, StoreTypes
  <1>5. StepKeeps
    BY <1>1, <1>3, <1>4 DEF StepKeeps, StoredInv, WritesTheFile
  <1> QED
    BY <1>5, KeepsStored

-----------------------------------------------------------------------------
LEMMA StepStoredInv ==
  SerialRun /\ TypeInv /\ SerialInv /\ StoredInv /\ [Next]_vars => StoredInv'
  <1> SUFFICES ASSUME SerialRun, TypeInv, SerialInv, StoredInv, [Next]_vars
               PROVE  StoredInv'
    OBVIOUS
  <1>1. CASE UNCHANGED vars
    <2>1. StepKeeps
      BY <1>1 DEF vars, putVars, jobVars, postVars, dirVars, StepKeeps, Says, StoredInv,
                  WritesTheFile
    <2> QED
      BY <2>1, KeepsStored
  <1>2. CASE Crash
    BY <1>2, DieStored DEF Crash
  <1>3. ASSUME NEW r \in Puts, PutStep(r) PROVE StoredInv'
    <2>1. CASE PutCheck(r) /\ mpath = None
      BY <2>1, DieStored DEF PutCheck
    <2> QED
      BY <1>3, <2>1, ReadAtOnce, PutQuietStored, PutWriteStored, PutRenameStored,
         PutRemoveStored
      DEF SerialRun, PutStep
  <1>4. CASE \E r \in Puts : PutBodyFails(r) \/ PutDropped(r) \/ \E c \in Chunks : PutBegin(r, c)
    BY <1>4, PutQuietStored
  <1>5. CASE \E r \in Puts, k \in JobKinds :
               JobStep(r, k) \/ JobFails(r, k) \/ JobWriteFails(r, k)
    BY <1>5, JobOpenStored, JobLockStored, JobWriteStored, JobFailsStored DEF JobStep
  <1>6. CASE \E p \in Posts :
               PostBegin(p) \/ PostStep(p) \/ PostFillFails(p) \/ PostDropped(p)
    BY <1>6, PostMetaStored, PostCreateStored, PostDroppedStored DEF PostStep
  <1>7. CASE Scan \/ ScanFails \/ ScanSkips
    BY <1>7, ScanStored
  <1> QED
    BY <1>1, <1>2, <1>3, <1>4, <1>5, <1>6, <1>7 DEF Next

LEMMA SerialInvAlways == SerialRun /\ Spec => []SerialInv
  <1> SUFFICES ASSUME SerialRun PROVE Spec => []SerialInv
    OBVIOUS
  <1>1. TypeInv /\ SerialInv /\ [Next]_vars => SerialInv'
    BY StepSerialInv
  <1> QED
    BY <1>1, InitSerialInv, TypeInvAlways, PTL DEF Spec

LEMMA StoredInvAlways == SerialRun /\ Spec => []StoredInv
  <1> SUFFICES ASSUME SerialRun PROVE Spec => []StoredInv
    OBVIOUS
  <1>1. TypeInv /\ SerialInv /\ StoredInv /\ [Next]_vars => StoredInv'
    BY StepStoredInv
  <1>2. Spec => []SerialInv
    BY SerialInvAlways
  <1> QED
    BY <1>1, <1>2, InitStoredInv, TypeInvAlways, PTL DEF Spec

(* What put renames to the final name holds every chunk, however many        *)
(* requests, failed bodies, failed reads and writes, crashes and restarts    *)
(* there were on the way, as long as the meta fits the buffer it is read     *)
(* through: the read that decides to publish is then of one version of it.   *)
THEOREM PublishedIsCompleteTheorem == SerialRun /\ Spec => []PublishedIsComplete
  <1> SUFFICES ASSUME SerialRun PROVE Spec => []PublishedIsComplete
    OBVIOUS
  <1>1. StoredInv => PublishedIsComplete
    BY DEF StoredInv
  <1>2. Spec => []StoredInv
    BY StoredInvAlways
  <1> QED
    BY <1>1, <1>2, PTL

LEMMA StatusIsSaid ==
  ASSUME TypeInv, Readable, NEW c \in Chunks, Status[c] = "Completed"
  PROVE  Says(c)
  <1>1. mpath # None /\ Status = Logical(mpath) /\ Status # Broken
    BY DEF Readable, Status
  <1>2. CASE Writers(mpath) # {}
    <2> DEFINE w == CHOOSE rk \in Writers(mpath) : TRUE
    <2>1. w \in Writers(mpath)
      BY <1>2
    <2>2. w \in Puts \X JobKinds /\ stage[w[1]][w[2]] = "write"
      BY <2>1, Zenon DEF Writers
    <2>3. Status = after[w[1]][w[2]]
      BY <1>1, <1>2 DEF Logical
    <2>4. w[1] \in Puts /\ w[2] \in JobKinds
      BY <2>2
    <2> QED
      BY <1>1, <2>2, <2>3, <2>4 DEF Says
  <1>3. CASE Writers(mpath) = {}
    <2>1. Status \in {AllNotStarted, meta[mpath]}
      BY <1>1, <1>3 DEF Logical
    <2>2. Status # AllNotStarted
      BY DEF AllNotStarted
    <2> QED
      BY <1>1, <2>1, <2>2 DEF Says
  <1> QED
    BY <1>2, <1>3

(* A chunk the meta calls Completed has all its bytes in the file: a client  *)
(* that resumes an upload skips it for good reason.                         *)
THEOREM CompletedIsStoredTheorem == SerialRun /\ Spec => []CompletedIsStored
  <1> SUFFICES ASSUME SerialRun PROVE Spec => []CompletedIsStored
    OBVIOUS
  <1>1. TypeInv /\ StoredInv => CompletedIsStored
    <2> SUFFICES ASSUME TypeInv, StoredInv, Readable,
                        NEW c \in Chunks, Status[c] = "Completed"
                 PROVE  \/ upath # None /\ c \in written[upath]
                        \/ upath = None /\ fpath # None /\ c \in written[fpath]
      BY DEF CompletedIsStored
    <2>1. Says(c) /\ mpath # None
      BY StatusIsSaid DEF Says
    <2>2. CASE upath # None
      BY <2>1, <2>2 DEF StoredInv, SaidIsStored
    <2>3. CASE upath = None
      BY <2>1, <2>3 DEF StoredInv, FileIsMissing, Untouched, PublishedIsComplete
    <2> QED
      BY <2>2, <2>3
  <1>2. Spec => []StoredInv
    BY StoredInvAlways
  <1> QED
    BY <1>1, <1>2, TypeInvAlways, PTL

-----------------------------------------------------------------------------
(* The statuses of an upload, told from who is rewriting its meta.          *)

NobodyWrites == \A r \in Puts, k \in JobKinds : stage[r][k] # "write"
NobodyFills  == \A p \in Posts : ppc[p] # "fill"

StatusFormed ==
  mpath # None =>
    /\ \A r \in Puts, k \in JobKinds : stage[r][k] = "write" => Status = after[r][k]
    /\ NobodyWrites /\ meta[mpath] # Broken => Status = meta[mpath]
    /\ NobodyWrites /\ meta[mpath] = Broken /\ NobodyFills => Status = Broken
    /\ ~NobodyFills => Status = AllNotStarted /\ NobodyWrites

LEMMA StatusForms == TypeInv /\ SerialInv => StatusFormed
  <1> SUFFICES ASSUME TypeInv, SerialInv, mpath # None PROVE StatusFormed
    BY DEF StatusFormed
  <1>1. Status = Logical(mpath)
    BY DEF Status
  <1>2. \A r \in Puts, k \in JobKinds :
          <<r, k>> \in Writers(mpath) <=> stage[r][k] = "write"
    BY DEF Writers, SerialInv, OpenedHere, TypeInv, Closures
  <1>3. ASSUME NEW r \in Puts, NEW k \in JobKinds, stage[r][k] = "write"
        PROVE  Status = after[r][k]
    <2>1. Writers(mpath) = {<<r, k>>}
      <3>1. \A w \in Writers(mpath) : w = <<w[1], w[2]>> /\ w[1] \in Puts /\ w[2] \in JobKinds
        BY DEF Writers
      <3>2. \A w \in Writers(mpath) : w[1] = r /\ w[2] = k
        BY <1>2, <1>3, <3>1 DEF SerialInv, OneJobWrites
      <3> QED
        BY <1>2, <1>3, <3>1, <3>2
    <2>2. (CHOOSE rk \in Writers(mpath) : TRUE) = <<r, k>>
      BY <2>1
    <2> QED
      BY <1>1, <2>1, <2>2 DEF Logical
  <1>4. NobodyWrites => Writers(mpath) = {}
    BY DEF NobodyWrites, Writers
  <1>5. NobodyWrites /\ NobodyFills => Status = meta[mpath]
    BY <1>1, <1>4 DEF Logical, NobodyFills
  <1>6. meta[mpath] # Broken => NobodyFills
    BY DEF SerialInv, PostAlone, NobodyFills
  <1>7. ~NobodyFills => Status = AllNotStarted /\ NobodyWrites
    <2> SUFFICES ASSUME NEW p \in Posts, ppc[p] = "fill"
                 PROVE  Status = AllNotStarted /\ NobodyWrites
      BY DEF NobodyFills
    <2>1. NobodyWrites /\ pinode[p] = mpath
      BY DEF SerialInv, PostAlone, Idle, Spent, NobodyWrites
    <2> QED
      BY <1>1, <1>4, <2>1 DEF Logical
  <1> QED
    BY <1>3, <1>5, <1>6, <1>7 DEF StatusFormed

\* The same after a step.
LEMMA StatusFormsNext == (TypeInv /\ SerialInv => StatusFormed)'
  BY StatusForms, PTL

\* What the step may not do to the statuses.
StaysCompleted ==
  \A c \in Chunks :
    Readable /\ Status[c] = "Completed" /\ mpath' = mpath /\ Status' # Broken
      => Status'[c] = "Completed"

\* A step that leaves the meta alone, and at most takes its writer away.
LEMMA MetaKept ==
  ASSUME TypeInv, SerialInv, TypeInv', SerialInv',
         mpath # None => meta'[mpath] = meta[mpath],
         \A q \in Puts, j \in JobKinds : stage'[q][j] = "write" =>
           stage[q][j] = "write" /\ after'[q][j] = after[q][j],
         NobodyFills => NobodyFills'
  PROVE  StaysCompleted
  <1> SUFFICES ASSUME NEW c \in Chunks, Readable, Status[c] = "Completed", mpath' = mpath,
                      Status' # Broken
               PROVE  Status'[c] = "Completed"
    BY DEF StaysCompleted
  <1>1. mpath # None /\ Status # Broken
    BY DEF Readable, Status
  <1>2. NobodyFills
    BY <1>1, StatusForms DEF StatusFormed, AllNotStarted
  <1>3. CASE NobodyWrites
    <2>1. meta[mpath] # Broken /\ Status = meta[mpath]
      BY <1>1, <1>2, <1>3, StatusForms DEF StatusFormed
    <2>2. NobodyWrites'
      BY <1>3 DEF NobodyWrites
    <2>3. Status' = meta'[mpath]
      BY <1>1, <2>1, <2>2, StatusFormsNext DEF StatusFormed
    <2> QED
      BY <1>1, <2>1, <2>3
  <1>4. ASSUME NEW r \in Puts, NEW k \in JobKinds, stage[r][k] = "write"
        PROVE  Status'[c] = "Completed"
    <2>1. Status = after[r][k] /\ meta[mpath] = Broken
      BY <1>1, <1>4, StatusForms DEF StatusFormed, SerialInv, WriterTruncates
    <2>2. CASE stage'[r][k] = "write"
      BY <1>1, <1>4, <2>1, <2>2, StatusFormsNext DEF StatusFormed
    <2>3. CASE stage'[r][k] # "write"
      <3>1. NobodyWrites'
        BY <1>4, <2>3 DEF NobodyWrites, SerialInv, OneJobWrites
      <3>2. Status' = Broken
        BY <1>1, <1>2, <2>1, <3>1, StatusFormsNext DEF StatusFormed
      <3> QED
        BY <3>2
    <2> QED
      BY <2>2, <2>3
  <1> QED
    BY <1>3, <1>4 DEF NobodyWrites

\* A closure goes on to write: it changes the status of its own chunk only,
\* and that one is not Completed.
LEMMA JobLockFinal ==
  ASSUME TypeInv, SerialInv, TypeInv', SerialInv', NEW r \in Puts, NEW k \in JobKinds,
         JobLock(r, k)
  PROVE  StaysCompleted
  <1> DEFINE i == opened[r][k]
             c == chunk[r]
             new == Updated(k, c, meta[i])
  <1>1. stage[r][k] = "lock" /\ Unlocked(i) /\ UNCHANGED <<mpath, ppc>>
    BY DEF JobLock, postVars, dirVars
  <1>2. CASE meta[i] = Broken \/ Vetoed(k, c, meta[i]) \/ new = meta[i]
    <2>1. PICK ok \in BOOLEAN : EndJob(r, k, ok) /\ UNCHANGED meta
      BY <1>2 DEF JobLock
    <2>2. EndJobEffects(r, k, ok)
      BY <1>1, <2>1, EndJobEffect
    <2>3. /\ \A q \in Puts, j \in JobKinds : stage'[q][j] = "write" =>
               stage[q][j] = "write" /\ after'[q][j] = after[q][j]
          /\ NobodyFills => NobodyFills'
      BY <1>1, <2>2 DEF EndJobEffects, NobodyFills
    <2> QED
      BY <2>1, <2>3, MetaKept
  <1>3. CASE ~(meta[i] = Broken \/ Vetoed(k, c, meta[i]) \/ new = meta[i])
    <2>1. /\ stage' = [stage EXCEPT ![r][k] = "write"]
          /\ after' = [after EXCEPT ![r][k] = new]
      BY <1>3 DEF JobLock
    <2>2. /\ mpath # None /\ i = mpath /\ c \in Chunks /\ meta[mpath] \in Contents
          /\ meta[mpath][c] # "Completed" /\ NobodyWrites
      BY <1>1, <1>3, LockedMeta DEF NobodyWrites
    <2>3. Status = meta[mpath]
      BY <1>3, <2>2, StatusForms DEF StatusFormed
    <2>4. stage'[r][k] = "write" /\ after'[r][k] = new
      BY <2>1 DEF TypeInv, JobTypes
    <2>5. Status' = new
      BY <1>1, <2>2, <2>4, StatusFormsNext DEF StatusFormed
    <2>6. \A d \in Chunks : d # c => new[d] = meta[mpath][d]
      BY <2>2 DEF Updated, Contents, JobKinds
    <2> QED
      BY <2>2, <2>3, <2>5, <2>6 DEF StaysCompleted
  <1> QED
    BY <1>2, <1>3

\* Who has written leaves what it was about to.
LEMMA JobWriteFinal ==
  ASSUME TypeInv, SerialInv, TypeInv', SerialInv', NEW r \in Puts, NEW k \in JobKinds,
         JobWrite(r, k)
  PROVE  StaysCompleted
  <1>1. /\ stage[r][k] = "write" /\ EndJob(r, k, TRUE) /\ UNCHANGED mpath
        /\ meta' = [meta EXCEPT ![opened[r][k]] = after[r][k]]
    BY DEF JobWrite, dirVars
  <1>2. EndJobEffects(r, k, TRUE)
    BY <1>1, EndJobEffect
  <1>3. /\ mpath \in MetaIds /\ mpath # None /\ opened[r][k] = mpath
        /\ after[r][k] \in Contents
    BY <1>1 DEF SerialInv, WriterTruncates, OpenedHere, TypeInv, Closures, StoreTypes
  <1>4. Status = after[r][k]
    BY <1>1, <1>3, StatusForms DEF StatusFormed
  <1>5. NobodyWrites'
    BY <1>1, <1>2 DEF EndJobEffects, NobodyWrites, SerialInv, OneJobWrites
  <1>6. meta'[mpath] = after[r][k] /\ meta'[mpath] # Broken
    BY <1>1, <1>3, BrokenAssumption DEF TypeInv, StoreTypes
  <1>7. Status' = after[r][k]
    BY <1>1, <1>3, <1>5, <1>6, StatusFormsNext DEF StatusFormed
  <1> QED
    BY <1>4, <1>7 DEF StaysCompleted

\* An upload a POST is creating has nothing completed.
LEMMA PostFinal ==
  ASSUME TypeInv, SerialInv, NEW p \in Posts,
         PostBegin(p) \/ PostTruncate(p) \/ PostFill(p) \/ PostFillFails(p)
  PROVE  StaysCompleted
  <1>1. CASE mpath = None
    BY <1>1 DEF StaysCompleted, Readable, Status
  <1>2. CASE mpath # None
    <2>1. ppc[p] = "fill"
      BY <1>2 DEF PostBegin, PostTruncate, PostFill, PostFillFails, SerialInv, PostAlone
    <2>2. Status = AllNotStarted
      BY <1>2, <2>1, StatusForms DEF StatusFormed, NobodyFills
    <2> QED
      BY <2>2 DEF StaysCompleted, AllNotStarted
  <1> QED
    BY <1>1, <1>2

\* The scan only looks at claims.
LEMMA ScanFinal ==
  ASSUME TypeInv, SerialInv, TypeInv', SerialInv', Scan \/ ScanFails \/ ScanSkips
  PROVE  StaysCompleted
  <1> SUFFICES ASSUME NEW c \in Chunks, Readable, Status[c] = "Completed", Status' # Broken
               PROVE  Status'[c] = "Completed"
    BY DEF StaysCompleted
  <1>1. UNCHANGED <<stage, ppc, mpath>> /\ Quiet
    BY DEF Scan, ScanFails, ScanSkips, SerialInv, BootQuiet, putVars, jobVars, postVars, dirVars
  <1>2. NobodyWrites /\ NobodyFills /\ NobodyWrites' /\ NobodyFills'
    BY <1>1 DEF Quiet, Idle, Spent, NobodyWrites, NobodyFills
  <1>3. mpath # None /\ mpath \in MetaIds /\ Status # Broken
    BY DEF Readable, Status, TypeInv, StoreTypes
  <1>4. meta[mpath] # Broken /\ Status = meta[mpath]
    BY <1>2, <1>3, StatusForms DEF StatusFormed
  <1>5. meta'[mpath] # Broken /\ Status' = meta'[mpath]
    BY <1>1, <1>2, <1>3, StatusFormsNext DEF StatusFormed
  <1>6. \/ UNCHANGED meta
        \/ meta' = [meta EXCEPT ![mpath] = [d \in Chunks |->
                      IF @[d] = "Ongoing" THEN "NotStarted" ELSE @[d]]]
    BY <1>3, <1>4, <1>5 DEF Scan, ScanFails, ScanSkips, TypeInv, StoreTypes
  <1> QED
    BY <1>3, <1>4, <1>5, <1>6 DEF TypeInv, StoreTypes

LEMMA StepFinal ==
  ASSUME TypeInv, SerialInv, TypeInv', SerialInv', [Next]_vars
  PROVE  StaysCompleted
  <1>1. CASE Crash \/ \E r \in Puts : PutCheck(r) /\ mpath = None
    <2>1. Die /\ UNCHANGED meta
      BY <1>1 DEF Crash, PutCheck
    <2>2. NobodyWrites' /\ NobodyFills'
      BY <2>1 DEF Die, NoJobs, NobodyWrites, NobodyFills
    <2> QED
      BY <2>1, <2>2, MetaKept DEF NobodyWrites
  <1>2. ASSUME NEW r \in Puts, NEW k \in JobKinds,
               JobOpen(r, k) \/ JobFails(r, k) \/ JobWriteFails(r, k)
        PROVE  StaysCompleted
    <2>1. UNCHANGED <<meta, ppc>> /\ stage[r][k] # "none"
      BY <1>2 DEF JobOpen, JobFails, JobWriteFails, postVars
    <2>2. \/ EndJobEffects(r, k, FALSE)
          \/ stage' = [stage EXCEPT ![r][k] = "lock"] /\ UNCHANGED after
      BY <1>2, <2>1, EndJobEffect DEF JobOpen, JobFails, JobWriteFails
    <2>3. \A q \in Puts, j \in JobKinds : stage'[q][j] = "write" =>
            stage[q][j] = "write" /\ after'[q][j] = after[q][j]
      BY <2>2 DEF EndJobEffects, TypeInv, JobTypes
    <2> QED
      BY <2>1, <2>3, MetaKept DEF NobodyFills
  <1>3. ASSUME NEW r \in Puts,
               \/ \E c \in Chunks : PutBegin(r, c)
               \/ PutOpen(r) \/ PutWrite(r) \/ PutBodyFails(r) \/ PutDropped(r)
               \/ PutCheck(r) /\ mpath # None
               \/ PutCheckHead(r) \/ PutCheckTail(r)
               \/ PutRename(r) \/ PutRemove(r)
        PROVE  StaysCompleted
    <2>1. UNCHANGED <<meta, after, ppc>>
      BY <1>3 DEF PutBegin, PutOpen, PutWrite, PutBodyFails, PutDropped, PutCheck,
                  PutCheckHead, PutCheckTail, PutRename, PutRemove, jobVars, postVars
    <2>2. \/ stage' = stage
          \/ \E k \in JobKinds : stage' = [stage EXCEPT ![r][k] = "open"]
      BY <1>3 DEF PutBegin, PutOpen, PutWrite, PutBodyFails, PutDropped, PutCheck,
                  PutCheckHead, PutCheckTail, PutRename, PutRemove, jobVars, StartJob, JobKinds
    <2>3. \A q \in Puts, j \in JobKinds : stage'[q][j] = "write" => stage[q][j] = "write"
      BY <2>2 DEF TypeInv, JobTypes
    <2> QED
      BY <2>1, <2>3, MetaKept DEF NobodyFills
  <1>4. ASSUME NEW p \in Posts, PostCreate(p) \/ PostDropped(p)
        PROVE  StaysCompleted
    <2>1. UNCHANGED <<meta, stage, after>> /\ ppc' = [ppc EXCEPT ![p] = "idle"]
      BY <1>4 DEF PostCreate, PostDropped, jobVars
    <2> QED
      BY <2>1, MetaKept DEF NobodyFills, TypeInv, StoreTypes
  <1>5. CASE UNCHANGED vars
    BY <1>5, MetaKept DEF vars, putVars, jobVars, postVars, dirVars, NobodyFills
  <1> QED
    BY <1>1, <1>2, <1>3, <1>4, <1>5, JobLockFinal, JobWriteFinal, PostFinal, ScanFinal
    DEF Next, PutStep, JobStep, PostStep

(* A chunk that the meta calls Completed is never taken back while the upload *)
(* exists, by no late closure, no failed body and no restart: what a client  *)
(* has been told is stored it need not send again.                           *)
THEOREM CompletedIsFinalTheorem == SerialRun /\ Spec => CompletedIsFinal
  <1> SUFFICES ASSUME SerialRun PROVE Spec => CompletedIsFinal
    OBVIOUS
  <1>1. TypeInv /\ SerialInv /\ TypeInv' /\ SerialInv' /\ [Next]_vars => [StaysCompleted]_vars
    BY StepFinal
  <1>2. Spec => []SerialInv
    BY SerialInvAlways
  <1>3. Spec => [][StaysCompleted]_vars
    BY <1>1, <1>2, TypeInvAlways, PTL DEF Spec
  <1> QED
    BY <1>3 DEF CompletedIsFinal, StaysCompleted
=============================================================================
