------------------------- MODULE ResumableUploadLedger -------------------------
(***************************************************************************)
(* Theorems about one resumable upload path.                               *)
(*                                                                         *)
(* It implements UploadLedger, step by step: requests, closures, locks,    *)
(* inodes and the truncation before every write disappear behind a ledger  *)
(* whose operations are single steps (LedgerTheorem).                      *)
(*                                                                         *)
(* Somebody answers for what is under way: a chunk that is Ongoing has an  *)
(* owner (OngoingHasOwnerTheorem), and an upload whose chunks are all      *)
(* completed has a request that finishes it (LastChunkFinalisesTheorem).   *)
(***************************************************************************)
EXTENDS ResumableUploadStored

AllInv == TypeInv /\ SerialInv /\ StoredInv

LEMMA AllInvAlways == SerialRun /\ Spec => []AllInv
  <1> SUFFICES ASSUME SerialRun PROVE Spec => []AllInv
    OBVIOUS
  <1>1. Spec => []SerialInv
    BY SerialInvAlways
  <1>2. Spec => []StoredInv
    BY StoredInvAlways
  <1>3. TypeInv /\ SerialInv /\ StoredInv => AllInv
    BY DEF AllInv
  <1> QED
    BY <1>1, <1>2, <1>3, TypeInvAlways, PTL

\* The data of the ledger.
StoredChunks == IF upath = None THEN {} ELSE written[upath]

LEMMA LedgerUnchanged ==
  ASSUME Status' = Status, StoredChunks' = StoredChunks,
         (fpath # None)' = (fpath # None), (phase = "up")' = (phase = "up")
  PROVE  UNCHANGED Ledger!vars
  BY DEF Ledger!vars, StoredChunks

(* A step that neither writes the meta nor changes who is about to.         *)
WritersStay ==
  /\ mpath' = mpath
  /\ mpath # None => meta'[mpath] = meta[mpath]
  /\ \A q \in Puts, j \in JobKinds :
       /\ stage'[q][j] = "write" <=> stage[q][j] = "write"
       /\ stage[q][j] = "write" => after'[q][j] = after[q][j]
  /\ NobodyFills' <=> NobodyFills

LEMMA StatusKept ==
  ASSUME AllInv, AllInv', WritersStay
  PROVE  Status' = Status
  <1> USE DEF AllInv, WritersStay
  <1>1. CASE mpath = None
    BY <1>1 DEF Status
  <1>2. CASE mpath # None
    <2>1. StatusFormed /\ StatusFormed'
      BY StatusForms, StatusFormsNext
    <2>2. CASE NobodyWrites
      <3>1. NobodyWrites'
        BY <2>2 DEF NobodyWrites
      <3> QED
        BY <1>2, <2>1, <2>2, <3>1 DEF StatusFormed
    <2>3. ASSUME NEW q \in Puts, NEW j \in JobKinds, stage[q][j] = "write"
          PROVE  Status' = Status
      BY <1>2, <2>1, <2>3 DEF StatusFormed
    <2> QED
      BY <2>2, <2>3 DEF NobodyWrites
  <1> QED
    BY <1>1, <1>2

LEMMA Stutters ==
  ASSUME AllInv, AllInv', WritersStay, UNCHANGED <<upath, fpath, phase>>,
         upath # None => written'[upath] = written[upath]
  PROVE  UNCHANGED Ledger!vars
  BY StatusKept, LedgerUnchanged DEF StoredChunks

\* Whoever runs, the process is up.
LEMMA BusyUp ==
  ASSUME AllInv, NEW r \in Puts,
         pc[r] # "idle" \/ \E k \in JobKinds : stage[r][k] # "none"
  PROVE  phase = "up"
  BY BusyPut, BusyJob DEF AllInv, Idle, TypeInv, StoreTypes

\* The statuses of an upload that nobody is rewriting, and that are not broken.
LEMMA StatusIsMeta ==
  ASSUME AllInv, mpath # None, meta[mpath] # Broken
  PROVE  Status = meta[mpath] /\ Readable /\ meta[mpath] \in Contents
  <1>1. NobodyWrites
    BY DEF AllInv, SerialInv, WriterTruncates, NobodyWrites
  <1>2. Status = meta[mpath]
    BY <1>1, StatusForms DEF AllInv, StatusFormed
  <1>3. meta[mpath] \in Contents
    BY NoneAssumption DEF AllInv, TypeInv, StoreTypes
  <1> QED
    BY <1>2, <1>3, BrokenAssumption DEF Readable

-----------------------------------------------------------------------------
(* The closures.                                                            *)

\* A closure that ends without having locked, or without having to write.
LEMMA EndJobStutters ==
  ASSUME AllInv, AllInv', NEW r \in Puts, NEW k \in JobKinds, NEW ok \in BOOLEAN,
         EndJob(r, k, ok), stage[r][k] \in {"open", "lock"},
         UNCHANGED <<mpath, meta, ppc, upath, fpath, phase, written>>
  PROVE  UNCHANGED Ledger!vars
  <1>1. EndJobEffects(r, k, ok)
    BY EndJobEffect DEF AllInv
  <1>2. k \in {"fail", "complete"} /\ pc[r] = k => stage[r]["reset"] = "none"
    BY DEF AllInv, TypeInv, Closures, JobKinds
  <1>3. \A q \in Puts, j \in JobKinds :
          /\ stage'[q][j] = "write" <=> stage[q][j] = "write"
          /\ stage[q][j] = "write" => after'[q][j] = after[q][j]
    BY <1>1, <1>2 DEF EndJobEffects
  <1>4. WritersStay
    BY <1>3 DEF WritersStay, NobodyFills
  <1> QED
    BY <1>4, Stutters

LEMMA JobOpenLedger ==
  ASSUME AllInv, AllInv', NEW r \in Puts, NEW k \in JobKinds, JobOpen(r, k)
  PROVE  UNCHANGED Ledger!vars
  <1>1. /\ stage[r][k] = "open"
        /\ UNCHANGED <<mpath, meta, ppc, upath, fpath, phase, written>>
    BY DEF JobOpen, postVars, dirVars
  <1>2. CASE mpath = None
    BY <1>1, <1>2, EndJobStutters DEF JobOpen
  <1>3. CASE mpath # None
    <2>1. stage' = [stage EXCEPT ![r][k] = "lock"] /\ UNCHANGED after
      BY <1>3 DEF JobOpen
    <2>2. WritersStay
      BY <1>1, <2>1 DEF WritersStay, NobodyFills, AllInv, TypeInv, JobTypes
    <2> QED
      BY <1>1, <2>2, Stutters
  <1> QED
    BY <1>2, <1>3

(* Under the lock a closure moves its chunk, and no other, to its new        *)
(* status: the ledger changes here, though the meta is yet to be written.   *)
LEMMA JobLockLedger ==
  ASSUME AllInv, AllInv', NEW r \in Puts, NEW k \in JobKinds, JobLock(r, k)
  PROVE  Ledger!Next \/ UNCHANGED Ledger!vars
  <1> DEFINE i == opened[r][k]
             new == Updated(k, chunk[r], meta[i])
  <1>1. /\ stage[r][k] = "lock" /\ Unlocked(i)
        /\ UNCHANGED <<mpath, ppc, upath, fpath, phase, written>>
    BY DEF JobLock, postVars, dirVars
  <1>2. CASE meta[i] = Broken \/ Vetoed(k, chunk[r], meta[i]) \/ new = meta[i]
    <2>1. PICK ok \in BOOLEAN : EndJob(r, k, ok) /\ UNCHANGED meta
      BY <1>2 DEF JobLock
    <2> QED
      BY <1>1, <2>1, EndJobStutters
  <1>3. CASE ~(meta[i] = Broken \/ Vetoed(k, chunk[r], meta[i]) \/ new = meta[i])
    <2>1. /\ stage' = [stage EXCEPT ![r][k] = "write"]
          /\ after' = [after EXCEPT ![r][k] = new]
      BY <1>3 DEF JobLock
    <2>2. /\ mpath # None /\ i = mpath /\ chunk[r] \in Chunks
          /\ meta[mpath] \in Contents
          /\ meta[mpath][chunk[r]] = IF k = "claim" THEN "NotStarted" ELSE "Ongoing"
      BY <1>1, <1>3, LockedMeta DEF AllInv
    <2>3. PICK c \in Chunks : c = chunk[r]
      BY <2>2
    <2>4. Status = meta[mpath] /\ Readable
      BY <1>3, <2>2, StatusIsMeta
    <2>5. stage'[r][k] = "write" /\ after'[r][k] = new
      BY <2>1 DEF AllInv, TypeInv, JobTypes
    <2>6. Status' = new
      BY <1>1, <2>2, <2>5, StatusFormsNext DEF AllInv, StatusFormed
    <2>7. new = [Status EXCEPT ![c] = CASE k = "claim"    -> "Ongoing"
                                        [] k = "complete" -> "Completed"
                                        [] OTHER          -> "NotStarted"]
      BY <2>2, <2>3, <2>4 DEF Updated, JobKinds
    <2>8. phase = "up" /\ Ledger!IsOpen
      BY <1>1, <2>4, BusyUp DEF Ledger!IsOpen, Readable
    <2>9. UNCHANGED <<StoredChunks, fpath, phase>>
      BY <1>1 DEF StoredChunks
    <2>10. CASE k = "claim"
      <3>1. Ledger!Claim(c)
        BY <2>2, <2>3, <2>4, <2>6, <2>7, <2>8, <2>9, <2>10
        DEF Ledger!Claim, Ledger!Move, StoredChunks
      <3> QED
        BY <3>1 DEF Ledger!Next
    <2>11. CASE k = "complete"
      <3>1. upath # None /\ c \in written[upath]
        BY <1>1, <2>3, <2>11 DEF AllInv, SerialInv, Attached, StoredInv, WritesTheFile
      <3>2. Ledger!Complete(c)
        BY <2>2, <2>3, <2>4, <2>6, <2>7, <2>8, <2>9, <2>11, <3>1
        DEF Ledger!Complete, Ledger!Move, StoredChunks
      <3> QED
        BY <3>2 DEF Ledger!Next
    <2>12. CASE k \in {"fail", "reset"}
      <3>1. Ledger!Abandon(c)
        BY <2>2, <2>3, <2>4, <2>6, <2>7, <2>8, <2>9, <2>12
        DEF Ledger!Abandon, Ledger!Move, StoredChunks
      <3> QED
        BY <3>1 DEF Ledger!Next
    <2> QED
      BY <2>10, <2>11, <2>12 DEF JobKinds
  <1> QED
    BY <1>2, <1>3

LEMMA JobFailsLedger ==
  ASSUME AllInv, AllInv', NEW r \in Puts, NEW k \in JobKinds, JobFails(r, k)
  PROVE  UNCHANGED Ledger!vars
  BY EndJobStutters DEF JobFails, postVars, dirVars

\* The write that everyone waited for: the ledger already says it.
LEMMA JobWriteLedger ==
  ASSUME AllInv, AllInv', NEW r \in Puts, NEW k \in JobKinds, JobWrite(r, k)
  PROVE  UNCHANGED Ledger!vars
  <1>1. /\ stage[r][k] = "write" /\ EndJob(r, k, TRUE)
        /\ UNCHANGED <<mpath, upath, fpath, phase, written>>
        /\ meta' = [meta EXCEPT ![opened[r][k]] = after[r][k]]
    BY DEF JobWrite, dirVars
  <1>2. EndJobEffects(r, k, TRUE)
    BY <1>1, EndJobEffect DEF AllInv
  <1>3. /\ mpath \in MetaIds /\ mpath # None /\ opened[r][k] = mpath
        /\ after[r][k] \in Contents
    BY <1>1 DEF AllInv, SerialInv, WriterTruncates, OpenedHere, TypeInv, Closures, StoreTypes
  <1>4. Status = after[r][k]
    BY <1>1, <1>3, StatusForms DEF AllInv, StatusFormed
  <1>5. meta'[mpath] = after[r][k] /\ meta'[mpath] # Broken
    BY <1>1, <1>3, BrokenAssumption DEF AllInv, TypeInv, StoreTypes
  <1>6. Status' = after[r][k]
    <2>1. NobodyWrites'
      BY <1>1, <1>2 DEF EndJobEffects, NobodyWrites, AllInv, SerialInv, OneJobWrites
    <2> QED
      BY <1>1, <1>3, <1>5, <2>1, StatusFormsNext DEF AllInv, StatusFormed
  <1> QED
    BY <1>1, <1>4, <1>6, LedgerUnchanged DEF StoredChunks

\* A write that fails leaves the meta empty.
LEMMA JobWriteFailsLedger ==
  ASSUME AllInv, AllInv', NEW r \in Puts, NEW k \in JobKinds, JobWriteFails(r, k)
  PROVE  Ledger!Wreck
  <1>1. /\ stage[r][k] = "write" /\ EndJob(r, k, FALSE)
        /\ UNCHANGED <<mpath, meta, ppc, upath, fpath, phase, written>>
    BY DEF JobWriteFails, dirVars, postVars
  <1>2. EndJobEffects(r, k, FALSE)
    BY <1>1, EndJobEffect DEF AllInv
  <1>3. mpath # None /\ meta[mpath] = Broken /\ after[r][k] \in Contents
    BY <1>1 DEF AllInv, SerialInv, WriterTruncates, TypeInv, Closures
  <1>4. Status = after[r][k]
    BY <1>1, <1>3, StatusForms DEF AllInv, StatusFormed
  <1>5. NobodyWrites'
    BY <1>1, <1>2 DEF EndJobEffects, NobodyWrites, AllInv, SerialInv, OneJobWrites
  <1>6. NobodyFills'
    <2>1. \A p \in Posts : ppc[p] # "fill"
      BY <1>1, BusyJob, BusyPut DEF AllInv
    <2> QED
      BY <1>1, <2>1 DEF NobodyFills
  <1>7. Status' = Broken
    BY <1>1, <1>3, <1>5, <1>6, StatusFormsNext DEF AllInv, StatusFormed
  <1>8. UNCHANGED <<StoredChunks, fpath, phase>>
    BY <1>1 DEF StoredChunks
  <1> QED
    BY <1>3, <1>4, <1>7, <1>8, BrokenAssumption
    DEF Ledger!Wreck, Ledger!IsOpen, StoredChunks

-----------------------------------------------------------------------------
(* put.                                                                     *)

\* The steps of a request that neither store nor publish anything.
LEMMA PutQuietLedger ==
  ASSUME AllInv, AllInv', NEW r \in Puts,
         \/ \E c \in Chunks : PutBegin(r, c)
         \/ PutOpen(r) \/ PutBodyFails(r) \/ PutDropped(r)
         \/ PutCheck(r) /\ mpath # None
         \/ PutRename(r) /\ upath = None
         \/ PutRemove(r) /\ mpath = None
  PROVE  UNCHANGED Ledger!vars
  <1>1. UNCHANGED <<after, ppc, mpath, upath, fpath, phase, meta, written>>
    BY DEF PutBegin, PutOpen, PutBodyFails, PutDropped, PutCheck, PutRename, PutRemove,
           jobVars, postVars, dirVars
  <1>2. \/ UNCHANGED stage
        \/ \E k \in JobKinds : stage[r][k] = "none" /\ stage' = [stage EXCEPT ![r][k] = "open"]
    <2>1. pc[r] \in {"open", "stream", "fail", "complete"} => stage[r]["reset"] = "none"
      BY DEF AllInv, TypeInv, Closures, JobKinds
    <2>2. pc[r] = "stream" => stage[r]["fail"] = "none"
      BY DEF AllInv, TypeInv, Closures, JobKinds
    <2> QED
      BY <2>1, <2>2 DEF PutBegin, PutOpen, PutBodyFails, PutDropped, Guarded, PutCheck,
           PutRename, PutRemove, jobVars, StartJob, JobKinds, Idle, Spent
  <1>3. \A q \in Puts, j \in JobKinds : stage'[q][j] = "write" <=> stage[q][j] = "write"
    BY <1>2 DEF AllInv, TypeInv, JobTypes
  <1>4. WritersStay
    BY <1>1, <1>3 DEF WritersStay, NobodyFills
  <1> QED
    BY <1>1, <1>4, Stutters

(* Bytes are only stored for a chunk the ledger has as Ongoing.             *)
LEMMA PutWriteLedger ==
  ASSUME AllInv, AllInv', NEW r \in Puts, PutWrite(r)
  PROVE  Ledger!Next
  <1>1. /\ pc[r] = "stream" /\ chunk[r] \in Chunks
        /\ upath \in FileIds /\ upath # None /\ handle[r] = upath
    BY DEF PutWrite, AllInv, TypeInv, Requests, StoreTypes, StoredInv, WritesTheFile
  <1>2. PICK c \in Chunks : c = chunk[r]
    BY <1>1
  <1>3. /\ UNCHANGED <<after, ppc, mpath, upath, fpath, phase, meta>>
        /\ stage' = [stage EXCEPT ![r]["complete"] = "open"]
        /\ written'[upath] = written[upath] \cup {c}
    BY <1>1, <1>2 DEF PutWrite, StartJob, postVars, dirVars, AllInv, TypeInv, StoreTypes
  <1>4. \A k \in JobKinds : stage[r][k] = "none"
    <2>1. \A k \in JobKinds : k # "stream"
      BY DEF JobKinds
    <2> QED
      BY <1>1, <2>1 DEF AllInv, TypeInv, Closures
  <1>5. WritersStay
    BY <1>3, <1>4 DEF WritersStay, NobodyFills, JobKinds, AllInv, TypeInv, JobTypes
  <1>6. Status' = Status
    BY <1>5, StatusKept
  <1>7. Readable => Status[c] = "Ongoing"
    <2> SUFFICES ASSUME Readable PROVE Status[c] = "Ongoing"
      OBVIOUS
    <2>1. mpath # None /\ Status # Broken
      BY DEF Readable, Status
    <2>2. Claims(r) /\ ~GivesBack(r)
      BY <1>1, <1>4 DEF Claims, GivesBack, JobKinds
    <2>3. /\ meta[mpath] # Broken => meta[mpath][c] = "Ongoing"
          /\ \A s \in Puts, l \in JobKinds : stage[s][l] = "write" => after[s][l][c] = "Ongoing"
      BY <1>2, <2>2 DEF AllInv, SerialInv, ClaimIsMarked
    <2>4. NobodyFills
      <3>1. ~Idle(r)
        BY <1>1 DEF Idle
      <3> QED
        BY <3>1, BusyPut DEF AllInv, NobodyFills
    <2> QED
      BY <2>1, <2>3, <2>4, StatusForms DEF AllInv, StatusFormed, NobodyWrites
  <1>8. phase = "up"
    BY <1>1, BusyUp
  <1>9. StoredChunks' = StoredChunks \cup {c}
    BY <1>1, <1>3 DEF StoredChunks
  <1>10. Ledger!Store(c)
    BY <1>3, <1>6, <1>7, <1>8, <1>9 DEF Ledger!Store, Ledger!IsOpen, Readable, StoredChunks
  <1> QED
    BY <1>10 DEF Ledger!Next

\* A finished meta is a ledger with everything completed.
LEMMA FinishedIsAllCompleted ==
  ASSUME AllInv, mpath # None, Finished(mpath)
  PROVE  Ledger!AllCompleted
  <1>1. Status = meta[mpath] /\ Readable
    BY StatusIsMeta DEF Finished
  <1> QED
    BY <1>1 DEF Finished, AllCompleted, Ledger!AllCompleted, Ledger!IsOpen, Readable

(* Only a whole file is given its final name ...                            *)
LEMMA PutRenameLedger ==
  ASSUME AllInv, AllInv', NEW r \in Puts, PutRename(r), upath # None
  PROVE  Ledger!Publish
  <1>1. /\ pc[r] = "rename"
        /\ fpath' = upath /\ upath' = None
        /\ UNCHANGED <<stage, after, ppc, mpath, phase, meta>>
    BY DEF PutRename, jobVars, postVars
  <1>2. mpath # None /\ Finished(mpath)
    BY <1>1 DEF AllInv, StoredInv, SaidIsStored, SerialInv, SeenFinished
  <1>3. written[upath] = Chunks
    <2>1. \A c \in Chunks : c \in written[upath]
      BY <1>2 DEF AllInv, StoredInv, SaidIsStored, Says, Finished, AllCompleted
    <2>2. written[upath] \subseteq Chunks
      BY DEF AllInv, TypeInv, StoreTypes
    <2> QED
      BY <2>1, <2>2
  <1>4. Status' = Status
    <2>1. WritersStay
      BY <1>1 DEF WritersStay, NobodyFills
    <2> QED
      BY <2>1, StatusKept
  <1>5. phase = "up"
    BY <1>1, BusyUp
  <1> QED
    BY <1>1, <1>2, <1>3, <1>4, <1>5, FinishedIsAllCompleted DEF Ledger!Publish

(* ... and only then its meta goes.                                         *)
LEMMA PutRemoveLedger ==
  ASSUME AllInv, AllInv', NEW r \in Puts, PutRemove(r), mpath # None
  PROVE  Ledger!Retire
  <1>1. pc[r] = "remove" /\ upath = None /\ mpath' = None /\ UNCHANGED <<phase, upath, fpath, written>>
    BY DEF PutRemove, AllInv, StoredInv, WritesTheFile
  <1>2. Finished(mpath) /\ fpath # None
    BY <1>1 DEF AllInv, SerialInv, SeenFinished, StoredInv, FileIsMissing, Untouched, PastOpen
  <1>3. Status' = None
    BY <1>1 DEF Status
  <1>4. phase = "up"
    BY <1>1, BusyUp
  <1> QED
    BY <1>1, <1>2, <1>3, <1>4, FinishedIsAllCompleted DEF Ledger!Retire

-----------------------------------------------------------------------------
(* post, and the process.                                                   *)

(* An upload exists from the moment its name does.                          *)
LEMMA PostLedger ==
  ASSUME SerialRun, AllInv, AllInv', NEW p \in Posts,
         PostBegin(p) \/ PostStep(p) \/ PostDropped(p)
  PROVE  Ledger!Create \/ UNCHANGED Ledger!vars
  <1>1. UNCHANGED <<stage, after, fpath, phase>>
    BY DEF PostBegin, PostStep, PostTruncate, PostFill, PostCreate, PostDropped, putVars,
           jobVars, dirVars
  <1>2. CASE PostTruncate(p)
    <2>1. mpath = None /\ Status = None
      BY <1>2 DEF PostTruncate, AllInv, SerialInv, PostAlone, Status
    <2>2. PICK i \in MetaIds : mpath' = i
      BY <1>2, <2>1 DEF PostTruncate, FreeMeta
    <2>3. ppc'[p] = "fill"
      BY <1>2 DEF PostTruncate, AllInv, TypeInv, StoreTypes
    <2>4. Status' = AllNotStarted
      BY <2>2, <2>3, NoneAssumption, StatusFormsNext DEF AllInv, StatusFormed, NobodyFills
    <2>5. phase = "up"
      BY <1>2 DEF PostTruncate, AllInv, SerialInv, BootQuiet, Quiet, TypeInv, StoreTypes
    <2>6. UNCHANGED <<upath, written>>
      BY <1>2 DEF PostTruncate
    <2> QED
      BY <1>1, <2>1, <2>4, <2>5, <2>6 DEF Ledger!Create, AllNotStarted
  <1>3. CASE PostFill(p)
    <2>1. /\ mpath = pinode[p] /\ mpath \in MetaIds /\ mpath # None
          /\ ppc[p] = "fill"
      BY <1>3, NoneAssumption DEF PostFill, AllInv, SerialInv, PostAlone, TypeInv, Fills
    <2>2. Status = AllNotStarted /\ NobodyWrites
      BY <2>1, StatusForms DEF AllInv, StatusFormed, NobodyFills
    <2>3. UNCHANGED <<mpath, upath, written>> /\ meta'[mpath] = AllNotStarted
      BY <1>3, <2>1 DEF PostFill, dirVars, AllInv, TypeInv, StoreTypes
    <2>4. meta'[mpath] # Broken
      BY <2>3, BrokenAssumption DEF AllNotStarted, Contents, ChunkStatus
    <2>5. NobodyWrites'
      BY <1>1, <2>2 DEF NobodyWrites
    <2>6. Status' = AllNotStarted
      BY <2>1, <2>3, <2>4, <2>5, StatusFormsNext DEF AllInv, StatusFormed
    <2> QED
      BY <1>1, <2>2, <2>3, <2>6, LedgerUnchanged DEF StoredChunks
  <1>4. CASE PostBegin(p) \/ PostCreate(p) \/ PostDropped(p)
    <2>1. /\ UNCHANGED <<mpath, meta>> /\ ppc[p] # "fill"
          /\ ppc' = [ppc EXCEPT ![p] = ppc'[p]] /\ ppc'[p] # "fill"
      BY <1>4 DEF PostBegin, PostCreate, PostDropped, dirVars, AllInv, TypeInv, StoreTypes
    <2>2. WritersStay
      BY <1>1, <2>1 DEF WritersStay, NobodyFills, AllInv, TypeInv, StoreTypes
    <2>3. StoredChunks' = StoredChunks
      <3>1. CASE PostCreate(p)
        <4>1. upath = None
          BY <3>1 DEF PostCreate, AllInv, StoredInv, FileIsToCome
        <4>2. PICK i \in FileIds : upath' = i /\ written' = [written EXCEPT ![i] = {}]
          BY <3>1, <4>1 DEF PostCreate, FreeFile
        <4>3. written'[upath'] = {}
          BY <4>2 DEF AllInv, TypeInv, StoreTypes
        <4> QED
          BY <4>1, <4>3 DEF StoredChunks
      <3>2. CASE ~PostCreate(p)
        BY <1>4, <3>2 DEF PostBegin, PostDropped, dirVars, StoredChunks
      <3> QED
        BY <3>1, <3>2
    <2> QED
      BY <1>1, <2>2, <2>3, StatusKept, LedgerUnchanged
  <1> QED
    BY <1>2, <1>3, <1>4 DEF PostStep

(* A crash in the middle of a write wrecks the ledger, and does nothing else *)
(* to it.                                                                   *)
LEMMA DieLedger ==
  ASSUME AllInv, AllInv', Die, phase = "up", UNCHANGED <<dirVars, meta, written>>
  PROVE  Ledger!Stop
  <1>1. NobodyWrites' /\ NobodyFills' /\ phase' = "boot"
    BY DEF Die, NoJobs, NobodyWrites, NobodyFills
  <1>2. UNCHANGED <<mpath, meta, fpath, upath, written>>
    BY DEF dirVars
  <1>3. Status' = Status \/ (Ledger!IsOpen /\ Status' = Broken)
    <2>1. CASE mpath = None
      BY <1>2, <2>1 DEF Status
    <2>2. CASE mpath # None /\ meta[mpath] # Broken
      BY <1>1, <1>2, <2>2, StatusIsMeta, StatusFormsNext DEF AllInv, StatusFormed
    <2>3. CASE mpath # None /\ meta[mpath] = Broken
      <3>1. Status' = Broken
        BY <1>1, <1>2, <2>3, StatusFormsNext DEF AllInv, StatusFormed
      <3>2. Status = Broken \/ Status \in Contents
        <4>1. AllNotStarted \in Contents
          BY DEF AllNotStarted, Contents, ChunkStatus
        <4>2. \A q \in Puts, j \in JobKinds : stage[q][j] = "write" => after[q][j] \in Contents
          BY DEF AllInv, TypeInv, Closures
        <4> QED
          BY <2>3, <4>1, <4>2, StatusForms DEF AllInv, StatusFormed, NobodyWrites
      <3> QED
        BY <3>1, <3>2, BrokenAssumption DEF Ledger!IsOpen
    <2> QED
      BY <2>1, <2>2, <2>3
  <1> QED
    BY <1>1, <1>2, <1>3 DEF Ledger!Stop

\* A POST that cannot fill the meta leaves it empty.
LEMMA PostFillFailsLedger ==
  ASSUME AllInv, AllInv', NEW p \in Posts, PostFillFails(p)
  PROVE  Ledger!Wreck
  <1>1. /\ ppc[p] = "fill" /\ ppc' = [ppc EXCEPT ![p] = "idle"]
        /\ UNCHANGED <<stage, mpath, meta, upath, fpath, phase, written>>
    BY DEF PostFillFails, jobVars, dirVars
  <1>2. /\ mpath \in MetaIds /\ mpath # None /\ meta[mpath] = Broken
        /\ \A q \in Posts : q # p => ppc[q] = "idle"
    BY <1>1, NoneAssumption DEF AllInv, SerialInv, PostAlone, TypeInv, Fills
  <1>3. Status = AllNotStarted /\ NobodyWrites
    BY <1>1, <1>2, StatusForms DEF AllInv, StatusFormed, NobodyFills
  <1>4. NobodyWrites' /\ NobodyFills'
    BY <1>1, <1>2, <1>3 DEF NobodyWrites, NobodyFills, AllInv, TypeInv, StoreTypes
  <1>5. Status' = Broken
    BY <1>1, <1>2, <1>4, StatusFormsNext DEF AllInv, StatusFormed
  <1>6. AllNotStarted \in Contents
    BY DEF AllNotStarted, Contents, ChunkStatus
  <1>7. UNCHANGED <<StoredChunks, fpath, phase>>
    BY <1>1 DEF StoredChunks
  <1> QED
    BY <1>3, <1>5, <1>6, <1>7, BrokenAssumption DEF Ledger!Wreck, Ledger!IsOpen, StoredChunks

(* A restart gives up the claims of the requests that died.                 *)
LEMMA ScanLedger ==
  ASSUME AllInv, AllInv', Scan \/ ScanFails \/ ScanSkips
  PROVE  Ledger!Restart \/ Ledger!Wreck
  <1>1. phase = "boot" /\ Quiet
    BY DEF Scan, ScanFails, ScanSkips, AllInv, SerialInv, BootQuiet
  <1>2. UNCHANGED <<stage, ppc, mpath, upath, fpath, written>>
    BY DEF Scan, ScanFails, ScanSkips, putVars, jobVars, postVars, dirVars
  <1>3. NobodyWrites /\ NobodyFills /\ NobodyWrites' /\ NobodyFills'
    BY <1>1, <1>2 DEF Quiet, Idle, Spent, NobodyWrites, NobodyFills
  <1>4. StoredChunks' = StoredChunks
    BY <1>2 DEF StoredChunks
  <1>5. mpath # None => mpath \in MetaIds
    BY DEF AllInv, TypeInv, StoreTypes
  <1>6. mpath # None => Status = meta[mpath] /\ Status' = meta'[mpath]
    BY <1>2, <1>3, StatusForms, StatusFormsNext DEF AllInv, StatusFormed
  <1>7. mpath = None => Status = None /\ Status' = None
    BY <1>2 DEF Status
  <1>8. mpath # None /\ meta[mpath] # Broken => Ledger!IsOpen
    BY <1>6, StatusIsMeta DEF Ledger!IsOpen, Readable
  <1>9. CASE Scan /\ (mpath = None \/ meta[mpath] = Broken)
    <2>1. Status' = Status /\ ~Ledger!IsOpen /\ phase' = "up"
      BY <1>6, <1>7, <1>9 DEF Scan, Ledger!IsOpen
    <2> QED
      BY <1>1, <1>2, <1>4, <2>1 DEF Ledger!Restart, StoredChunks
  <1>10. CASE Scan /\ mpath # None /\ meta[mpath] # Broken
    <2>1. meta'[mpath] = [c \in Chunks |-> IF meta[mpath][c] = "Ongoing" THEN "NotStarted"
                                                                       ELSE meta[mpath][c]]
      BY <1>5, <1>10 DEF Scan, AllInv, TypeInv, StoreTypes
    <2>2. phase' = "up"
      BY <1>10 DEF Scan
    <2> QED
      BY <1>1, <1>2, <1>4, <1>6, <1>8, <1>10, <2>1, <2>2 DEF Ledger!Restart, StoredChunks
  <1>11. CASE ScanFails
    <2>1. mpath # None /\ meta[mpath] # Broken /\ meta'[mpath] = Broken
      BY <1>5, <1>11 DEF ScanFails, AllInv, TypeInv, StoreTypes
    <2>2. phase' = phase \/ phase' = "up"
      BY <1>11 DEF ScanFails
    <2> QED
      BY <1>1, <1>2, <1>4, <1>6, <1>8, <2>1, <2>2 DEF Ledger!Restart, Ledger!Wreck, StoredChunks
  <1>12. CASE ScanSkips
    <2>1. Status' = Status /\ phase' = "up"
      BY <1>6, <1>7, <1>12 DEF ScanSkips
    <2> QED
      BY <1>1, <1>2, <1>4, <2>1 DEF Ledger!Restart, StoredChunks
  <1> QED
    BY <1>9, <1>10, <1>11, <1>12

-----------------------------------------------------------------------------
LEMMA StepLedger ==
  ASSUME SerialRun, AllInv, AllInv', [Next]_vars
  PROVE  [Ledger!Next]_(Ledger!vars)
  <1>1. CASE UNCHANGED vars
    <2>1. WritersStay /\ UNCHANGED <<upath, fpath, phase, written>>
      BY <1>1 DEF vars, jobVars, postVars, dirVars, WritersStay, NobodyFills
    <2> QED
      BY <2>1, Stutters
  <1>2. CASE Crash
    BY <1>2, DieLedger DEF Crash, Ledger!Next
  <1>3. ASSUME NEW r \in Puts, PutStep(r) PROVE Ledger!Next \/ UNCHANGED Ledger!vars
    <2>1. CASE PutCheck(r) /\ mpath = None
      <3>1. phase = "up"
        BY <2>1, BusyUp DEF PutCheck
      <3> QED
        BY <2>1, <3>1, DieLedger DEF PutCheck, Ledger!Next
    <2>2. CASE PutRename(r) /\ upath # None
      BY <2>2, PutRenameLedger DEF Ledger!Next
    <2>3. CASE PutRemove(r) /\ mpath # None
      BY <2>3, PutRemoveLedger DEF Ledger!Next
    <2>4. CASE PutWrite(r)
      BY <2>4, PutWriteLedger
    <2> QED
      BY <1>3, <2>1, <2>2, <2>3, <2>4, PutQuietLedger, ReadAtOnce DEF AllInv, SerialRun, PutStep
  <1>4. CASE \E r \in Puts : PutBodyFails(r) \/ PutDropped(r) \/ \E c \in Chunks : PutBegin(r, c)
    BY <1>4, PutQuietLedger
  <1>5. ASSUME NEW r \in Puts, NEW k \in JobKinds,
               JobStep(r, k) \/ JobFails(r, k) \/ JobWriteFails(r, k)
        PROVE  Ledger!Next \/ UNCHANGED Ledger!vars
    BY <1>5, JobOpenLedger, JobLockLedger, JobWriteLedger, JobFailsLedger, JobWriteFailsLedger
    DEF JobStep, Ledger!Next
  <1>6. CASE \E p \in Posts :
               PostBegin(p) \/ PostStep(p) \/ PostFillFails(p) \/ PostDropped(p)
    BY <1>6, PostLedger, PostFillFailsLedger DEF Ledger!Next
  <1>7. CASE Scan \/ ScanFails \/ ScanSkips
    BY <1>7, ScanLedger DEF Ledger!Next
  <1> QED
    BY <1>1, <1>2, <1>3, <1>4, <1>5, <1>6, <1>7 DEF Next

(* Resumable uploading of a path implements its ledger: whatever requests,   *)
(* closures, locks, failed reads and writes, crashes and restarts there are, *)
(* every step is one operation on the whole ledger, or none, as long as the  *)
(* meta fits the buffer it is read through.                                  *)
THEOREM LedgerTheorem == SerialRun /\ Spec => LedgerSpec
  <1> SUFFICES ASSUME SerialRun PROVE Spec => LedgerSpec
    OBVIOUS
  <1>1. Init => Ledger!Init
    BY DEF Init, Ledger!Init, Status
  <1>2. AllInv /\ AllInv' /\ [Next]_vars => [Ledger!Next]_(Ledger!vars)
    BY StepLedger
  <1>3. Spec => []AllInv
    BY AllInvAlways
  <1> QED
    BY <1>1, <1>2, <1>3, PTL DEF Spec, LedgerSpec, Ledger!Spec

-----------------------------------------------------------------------------
(* What a closure is about to write says of its chunk what the closure is   *)
(* for, whoever else runs.                                                  *)

\* A closure that is about to write was, with the same bytes and chunk.
WritersStand ==
  \A q \in Puts, j \in JobKinds : stage'[q][j] = "write" =>
    stage[q][j] = "write" /\ after'[q][j] = after[q][j] /\ chunk'[q] = chunk[q]

LEMMA EndJobStands ==
  ASSUME TypeInv, TypeInv', NEW r \in Puts, NEW k \in JobKinds, NEW ok \in BOOLEAN,
         stage[r][k] # "none", EndJob(r, k, ok)
  PROVE  WritersStand
  <1>1. EndJobEffects(r, k, ok)
    BY EndJobEffect
  <1>2. \A q \in Puts, j \in JobKinds : stage'[q][j] = "write" => chunk'[q] \in Chunks
    BY DEF TypeInv, Closures
  <1> QED
    BY <1>1, <1>2, NoneAssumption DEF EndJobEffects, WritersStand

\* What a request or the process does to its closures: one opens, or all end.
LEMMA PutStands ==
  ASSUME TypeInv, TypeInv', NEW r \in Puts,
         \/ \E c \in Chunks : PutBegin(r, c)
         \/ PutStep(r) \/ PutBodyFails(r) \/ PutDropped(r)
  PROVE  WritersStand
  <1> USE DEF jobVars, StartJob
  <1>0. JobKinds = {"claim", "fail", "complete", "reset"}
    BY DEF JobKinds
  <1>1. CASE PutCheck(r) /\ mpath = None
    BY <1>1 DEF PutCheck, Die, NoJobs, WritersStand
  <1>2. CASE ~(PutCheck(r) /\ mpath = None)
    <2>1. /\ after' = after
          /\ \/ stage' = stage
             \/ \E k \in JobKinds : stage' = [stage EXCEPT ![r][k] = "open"]
      BY <1>0, <1>2
      DEF PutBegin, PutStep, PutOpen, PutWrite, PutBodyFails, PutCheck, PutCheckHead,
          PutCheckTail, PutRename, PutRemove, PutDropped
    <2>2. \A q \in Puts, j \in JobKinds : stage'[q][j] = "write" => stage[q][j] = "write"
      BY <2>1 DEF TypeInv, JobTypes
    <2>3. \A q \in Puts : q # r => chunk'[q] = chunk[q]
      BY <1>2
      DEF PutBegin, PutStep, PutOpen, PutWrite, PutBodyFails, PutCheck, PutCheckHead,
          PutCheckTail, Conclude, PutRename, PutRemove, PutDropped, TypeInv, JobTypes
    <2>4. CASE \E c \in Chunks : PutBegin(r, c)
      <3>1. \A j \in JobKinds : stage[r][j] = "none"
        BY <1>0, <2>4 DEF PutBegin, Idle, Spent
      <3> QED
        BY <2>1, <2>2, <2>3, <3>1 DEF WritersStand
    <2>5. CASE ~\E c \in Chunks : PutBegin(r, c)
      <3>1. chunk'[r] = chunk[r] \/ chunk'[r] = None
        BY <1>2, <2>5
        DEF PutStep, PutOpen, PutWrite, PutBodyFails, PutCheck, PutCheckHead, PutCheckTail,
            Conclude, PutRename, PutRemove, PutDropped, TypeInv, JobTypes
      <3>2. \A j \in JobKinds : stage'[r][j] = "write" => chunk'[r] \in Chunks
        BY DEF TypeInv, Closures
      <3>3. \A q \in Puts, j \in JobKinds : stage'[q][j] = "write" => chunk'[q] = chunk[q]
        BY <2>3, <3>1, <3>2, NoneAssumption
      <3> QED
        BY <2>1, <2>2, <3>3 DEF WritersStand
    <2> QED
      BY <2>4, <2>5
  <1> QED
    BY <1>1, <1>2

LEMMA StepWritesItsStatus ==
  TypeInv /\ WritesItsStatus /\ [Next]_vars => WritesItsStatus'
  <1> SUFFICES ASSUME TypeInv, WritesItsStatus, [Next]_vars PROVE WritesItsStatus'
    OBVIOUS
  <1>1. TypeInv'
    BY StepTypeInv
  <1>2. WritersStand => WritesItsStatus'
    BY DEF WritersStand, WritesItsStatus
  <1>3. ASSUME NEW r \in Puts, NEW k \in JobKinds,
               JobStep(r, k) \/ JobFails(r, k) \/ JobWriteFails(r, k)
        PROVE  WritesItsStatus'
    <2>1. CASE \E ok \in BOOLEAN : stage[r][k] # "none" /\ EndJob(r, k, ok)
      BY <1>1, <1>2, <2>1, EndJobStands
    <2>2. CASE stage[r][k] # "write" /\ stage' = [stage EXCEPT ![r][k] = "lock"]
               /\ UNCHANGED <<after, chunk>>
      BY <1>2, <2>2 DEF WritersStand, TypeInv, JobTypes
    <2>3. CASE JobLock(r, k) /\ UNCHANGED chunk /\ stage' = [stage EXCEPT ![r][k] = "write"]
      <3> DEFINE m == meta[opened[r][k]]
      <3>1. /\ m # Broken /\ ~Vetoed(k, chunk[r], m) /\ Updated(k, chunk[r], m) # m
            /\ after' = [after EXCEPT ![r][k] = Updated(k, chunk[r], m)]
        <4>1. stage'[r][k] = "write"
          BY <2>3 DEF TypeInv, JobTypes
        <4>2. \A ok \in BOOLEAN : ~EndJob(r, k, ok)
          BY <4>1 DEF EndJob, TypeInv, JobTypes
        <4> QED
          BY <2>3, <4>2 DEF JobLock
      <3>2. chunk[r] \in Chunks /\ opened[r][k] \in MetaIds
        BY <2>3, NoneAssumption DEF JobLock, TypeInv, Closures, JobTypes
      <3>3. m \in Contents
        BY <3>1, <3>2 DEF TypeInv, StoreTypes
      <3>4. PICK c \in Chunks : c = chunk[r]
        BY <3>2
      <3>5. Updated(k, c, m)[c] = CASE k = "claim" -> "Ongoing" [] k = "complete" -> "Completed"
                                    [] OTHER -> "NotStarted"
        BY <3>1, <3>3, <3>4 DEF Updated, Contents, JobKinds, ChunkStatus
      <3>6. /\ after'[r][k] = Updated(k, c, m)
            /\ \A q \in Puts, j \in JobKinds : q # r \/ j # k =>
                 stage'[q][j] = stage[q][j] /\ after'[q][j] = after[q][j]
        BY <2>3, <3>1, <3>4 DEF TypeInv, JobTypes
      <3> QED
        BY <2>3, <3>4, <3>5, <3>6 DEF WritesItsStatus
    <2> QED
      BY <1>3, <2>1, <2>2, <2>3
      DEF JobStep, JobOpen, JobLock, JobWrite, JobFails, JobWriteFails
  <1>4. CASE \E r \in Puts : \/ \E c \in Chunks : PutBegin(r, c)
                             \/ PutStep(r) \/ PutBodyFails(r) \/ PutDropped(r)
    BY <1>1, <1>2, <1>4, PutStands
  <1>5. CASE UNCHANGED <<stage, after, chunk>>
    BY <1>5 DEF WritesItsStatus
  <1>6. CASE Crash
    BY <1>2, <1>6 DEF Crash, Die, NoJobs, WritersStand
  <1>7. CASE \/ \E p \in Posts :
                  PostBegin(p) \/ PostStep(p) \/ PostFillFails(p) \/ PostDropped(p)
             \/ Scan \/ ScanFails \/ ScanSkips \/ UNCHANGED vars
    BY <1>5, <1>7
    DEF PostBegin, PostStep, PostTruncate, PostFill, PostCreate, PostFillFails, PostDropped,
        Scan, ScanFails, ScanSkips, vars, putVars, jobVars
  <1> QED
    BY <1>3, <1>4, <1>6, <1>7 DEF Next

LEMMA WritesItsStatusAlways == Spec => []WritesItsStatus
  <1>1. Init => WritesItsStatus
    BY DEF Init, NoJobs, WritesItsStatus
  <1> QED
    BY <1>1, StepWritesItsStatus, TypeInvAlways, PTL DEF Spec

-----------------------------------------------------------------------------
(* Who answers for an Ongoing chunk.  Nothing is assumed here about how      *)
(* uploads are created, nor about requests dropped after their claim.       *)

\* While something runs the process is up.
LEMMA RunsUp ==
  ASSUME TypeInv, BootQuiet, NEW r \in Puts, ~Idle(r)
  PROVE  phase = "up"
  BY DEF BootQuiet, Quiet, TypeInv, StoreTypes

LEMMA InitOwnerInv == Init => OwnerInv
  <1> SUFFICES ASSUME Init PROVE OwnerInv
    OBVIOUS
  <1>1. \A r \in Puts, k \in JobKinds : stage[r][k] = "none"
    BY DEF Init, NoJobs
  <1>2. "claim" \in JobKinds /\ mpath = None /\ phase = "up"
    BY DEF Init, JobKinds
  <1> QED
    BY <1>1, <1>2
    DEF OwnerInv, BootQuiet, ClaimIsAwaited, WritersApart, AllAnswered, Wanted

(* A step keeps every answer that is still wanted.                          *)
LEMMA AnswersKept ==
  ASSUME AllAnswered, phase = "up",
         \A c \in Chunks : Wanted(c)' => Wanted(c),
         \A c \in Chunks, q \in Puts :
           Wanted(c)' /\ Answers(q) /\ chunk[q] = c => Answers(q)' /\ chunk'[q] = c
  PROVE  AllAnswered'
  <1> SUFFICES ASSUME NEW c \in Chunks, Wanted(c)' PROVE Answered(c)'
    BY DEF AllAnswered
  <1>1. PICK q \in Puts : chunk[q] = c /\ Answers(q)
    BY DEF AllAnswered, Answered
  <1> QED
    BY <1>1 DEF Answered

(* The end of a closure of r.  Its answer goes when it has put something     *)
(* else than Ongoing for its chunk, or found it there.                      *)
EndsAnswer(r, k, ok) ==
  /\ opened[r][k] \in {None, mpath}
  /\ \/ k \in {"fail", "complete"} /\ ok
     \/ k = "reset"
     \/ k = "claim" /\ ~ok /\ stage[r][k] = "write"

LEMMA EndJobAnswers ==
  ASSUME TypeInv, OwnerInv, TypeInv', NEW r \in Puts, NEW k \in JobKinds, NEW ok \in BOOLEAN,
         stage[r][k] # "none", EndJob(r, k, ok), mpath' = mpath, Answers(r)
  PROVE  EndsAnswer(r, k, ok) \/ (Answers(r)' /\ chunk'[r] = chunk[r])
  <1> SUFFICES ASSUME ~EndsAnswer(r, k, ok) PROVE Answers(r)' /\ chunk'[r] = chunk[r]
    OBVIOUS
  <1>1. EndJobEffects(r, k, ok)
    BY EndJobEffect
  <1>2. pc[r] \in {k, "idle"} /\ "reset" \in JobKinds /\ "claim" \in JobKinds
    BY DEF TypeInv, Closures, JobKinds
  <1>3. chunk'[r] \in Chunks => chunk'[r] = chunk[r]
    BY <1>1, NoneAssumption DEF EndJobEffects
  <1>4. Answers(r)' => chunk'[r] \in Chunks
    BY DEF TypeInv, Closures, Requests, Answers, Here, JobKinds
  <1>5. CASE pc[r] = k /\ k \in {"fail", "complete"} /\ Here(r, k)
    <2>1. ~ok
      BY <1>5 DEF EndsAnswer, Here
    <2>2. stage'[r]["reset"] = "open"
      BY <1>2, <1>5, <2>1 DEF EndJob, GuardDropped, TypeInv, JobTypes
    <2>3. stage[r]["reset"] = "none" /\ opened[r]["reset"] = None
      BY <1>2, <1>5 DEF TypeInv, JobTypes, Closures
    <2>4. opened'[r]["reset"] = None
      BY <1>1, <1>2, <1>5, <2>3 DEF EndJobEffects
    <2>5. Answers(r)'
      BY <2>2, <2>4 DEF Answers, Here
    <2> QED
      BY <1>3, <1>4, <2>5
  <1>6. CASE Here(r, "reset")
    <2>1. k # "reset"
      BY <1>6 DEF EndsAnswer, Here
    <2>2. Here(r, "reset")'
      BY <1>1, <1>2, <1>6, <2>1 DEF EndJobEffects, Here
    <2>3. Answers(r)'
      BY <2>2 DEF Answers
    <2> QED
      BY <1>3, <1>4, <2>3
  <1>7. CASE stage[r]["claim"] = "write" /\ opened[r]["claim"] = mpath
    <2>1. pc[r] = "claim" /\ k = "claim" /\ ok
      BY <1>2, <1>7 DEF OwnerInv, ClaimIsAwaited, EndsAnswer
    <2>2. pc'[r] = "open"
      BY <2>1 DEF EndJob, Resumed, TypeInv, JobTypes
    <2>3. Answers(r)'
      BY <2>2 DEF Answers
    <2> QED
      BY <1>3, <1>4, <2>3
  <1> QED
    BY <1>2, <1>5, <1>6, <1>7 DEF Answers, JobKinds

\* The parts of the invariant that the end of a closure cannot disturb.
LEMMA EndJobOwner ==
  ASSUME TypeInv, OwnerInv, TypeInv', NEW r \in Puts, NEW k \in JobKinds, NEW ok \in BOOLEAN,
         stage[r][k] # "none", EndJob(r, k, ok), UNCHANGED <<phase, mpath, ppc>>,
         \A c \in Chunks : Wanted(c)' => Wanted(c),
         \A c \in Chunks : EndsAnswer(r, k, ok) /\ chunk[r] = c => ~Wanted(c)',
         \A q \in Puts, j \in JobKinds : stage[q][j] = "write" /\ opened[q][j] # opened[r][k]
           => meta'[opened[q][j]] = meta[opened[q][j]],
         \/ UNCHANGED meta
         \/ stage[r][k] = "write"
  PROVE  OwnerInv'
  <1>1. EndJobEffects(r, k, ok)
    BY EndJobEffect
  <1>2. ~Idle(r)
    BY BusyJob
  <1>3. phase = "up"
    BY <1>2, RunsUp DEF OwnerInv
  <1>4. \A q \in Puts, j \in JobKinds : stage'[q][j] = "write" =>
          /\ stage[q][j] = "write" /\ after'[q][j] = after[q][j] /\ opened'[q][j] = opened[q][j]
          /\ q # r \/ j # k
    BY <1>1 DEF EndJobEffects
  <1>5. BootQuiet'
    BY <1>3 DEF BootQuiet
  <1>6. ClaimIsAwaited'
    <2> SUFFICES ASSUME NEW q \in Puts, stage'[q]["claim"] # "none" PROVE pc'[q] = "claim"
      BY DEF ClaimIsAwaited
    <2>1. "claim" \in JobKinds
      BY DEF JobKinds
    <2>2. stage[q]["claim"] # "none" /\ (q # r \/ "claim" # k)
      BY <1>1, <2>1 DEF EndJobEffects
    <2>3. pc[q] = "claim"
      BY <2>2 DEF OwnerInv, ClaimIsAwaited
    <2>4. q # r
      BY <2>2, <2>3 DEF TypeInv, Closures
    <2> QED
      BY <1>1, <2>3, <2>4 DEF EndJobEffects
  <1>7. WritersApart'
    <2>1. \A q \in Puts, j \in JobKinds : stage'[q][j] = "write" =>
            meta'[opened[q][j]] = meta[opened[q][j]]
      BY <1>4 DEF OwnerInv, WritersApart
    <2> QED
      BY <1>4, <2>1 DEF OwnerInv, WritersApart
  <1>8. AllAnswered'
    <2>1. \A q \in Puts : q # r /\ Answers(q) => Answers(q)' /\ chunk'[q] = chunk[q]
      BY <1>1 DEF EndJobEffects, Answers, Here, JobKinds
    <2>2. ASSUME NEW c \in Chunks, Wanted(c)', Answers(r), chunk[r] = c
          PROVE  Answers(r)' /\ chunk'[r] = c
      BY <2>2, EndJobAnswers
    <2> QED
      BY <1>3, <2>1, <2>2, AnswersKept DEF OwnerInv
  <1> QED
    BY <1>5, <1>6, <1>7, <1>8 DEF OwnerInv

LEMMA JobOpenOwner ==
  ASSUME TypeInv, OwnerInv, TypeInv', NEW r \in Puts, NEW k \in JobKinds, JobOpen(r, k)
  PROVE  OwnerInv'
  <1>1. stage[r][k] = "open" /\ UNCHANGED <<phase, mpath, ppc, meta>>
    BY DEF JobOpen, postVars, dirVars
  <1>2. CASE mpath = None
    <2>1. EndJob(r, k, FALSE) /\ \A c \in Chunks : ~Wanted(c)'
      BY <1>1, <1>2 DEF JobOpen, Wanted
    <2> QED
      BY <1>1, <2>1, EndJobOwner
  <1>3. CASE mpath # None
    <2>1. /\ stage'  = [stage EXCEPT ![r][k] = "lock"]
          /\ opened' = [opened EXCEPT ![r][k] = mpath]
          /\ UNCHANGED <<pc, chunk, after>>
      BY <1>3 DEF JobOpen
    <2>2. \A q \in Puts, j \in JobKinds :
            /\ stage'[q][j] = "none" <=> stage[q][j] = "none"
            /\ stage'[q][j] = "write" <=> stage[q][j] = "write"
            /\ stage[q][j] = "write" => opened'[q][j] = opened[q][j]
            /\ Here(q, j) => Here(q, j)'
      BY <1>1, <2>1 DEF Here, TypeInv, JobTypes
    <2>3. ClaimIsAwaited' /\ WritersApart'
      BY <1>1, <2>1, <2>2 DEF OwnerInv, ClaimIsAwaited, WritersApart, JobKinds
    <2>4. phase = "up"
      BY <1>1, BusyJob, RunsUp DEF OwnerInv
    <2>5. \A c \in Chunks : Wanted(c)' => Wanted(c)
      BY <1>1, <2>1, <2>2 DEF Wanted
    <2>6. \A q \in Puts : Answers(q) => Answers(q)'
      BY <1>1, <2>1, <2>2 DEF Answers, JobKinds
    <2>7. AllAnswered'
      BY <2>1, <2>4, <2>5, <2>6, AnswersKept DEF OwnerInv
    <2> QED
      BY <1>1, <2>3, <2>4, <2>7 DEF OwnerInv, BootQuiet
  <1> QED
    BY <1>2, <1>3

LEMMA JobLockOwner ==
  ASSUME TypeInv, OwnerInv, TypeInv', NEW r \in Puts, NEW k \in JobKinds, JobLock(r, k)
  PROVE  OwnerInv'
  <1> DEFINE i == opened[r][k]
             c == chunk[r]
             new == Updated(k, c, meta[i])
  <1>1. stage[r][k] = "lock" /\ Unlocked(i) /\ UNCHANGED <<phase, mpath, ppc>>
    BY DEF JobLock, postVars, dirVars
  <1>2. i \in MetaIds /\ i # None /\ c \in Chunks
    BY <1>1, NoneAssumption DEF TypeInv, JobTypes, Closures
  <1>3. phase = "up"
    BY <1>1, BusyJob, RunsUp DEF OwnerInv
  <1>4. CASE meta[i] = Broken \/ Vetoed(k, c, meta[i]) \/ new = meta[i]
    <2>1. PICK ok \in BOOLEAN :
            /\ EndJob(r, k, ok) /\ UNCHANGED meta
            /\ ok => meta[i] # Broken /\ new = meta[i]
            /\ ~ok => meta[i] = Broken \/ Vetoed(k, c, meta[i])
      BY <1>4 DEF JobLock
    <2>2. \A q \in Puts, j \in JobKinds : stage'[q][j] = "write" =>
            /\ stage[q][j] = "write" /\ after'[q][j] = after[q][j]
            /\ opened'[q][j] = opened[q][j]
      BY <1>1, <2>1, EndJobEffect DEF EndJobEffects
    <2>3. \A d \in Chunks : Wanted(d)' => Wanted(d)
      BY <1>1, <2>1, <2>2 DEF Wanted
    <2>4. ASSUME NEW d \in Chunks, d = chunk[r], EndsAnswer(r, k, ok), Wanted(d)' PROVE FALSE
      <3>1. i = mpath
        BY <1>2, <2>4 DEF EndsAnswer
      <3>2. meta[mpath] # Broken /\ meta[mpath][d] = "Ongoing"
        BY <1>1, <1>2, <2>1, <2>2, <2>4, <3>1 DEF Wanted, Unlocked
      <3>3. k # "claim" /\ ok
        BY <1>1, <2>1, <2>4, <3>1, <3>2 DEF EndsAnswer, Vetoed
      <3>4. meta[mpath] \in Contents
        BY <1>2, <3>1, <3>2 DEF TypeInv, StoreTypes
      <3>5. new[c] # "Ongoing"
        BY <1>2, <3>1, <3>2, <3>3, <3>4 DEF Updated, Contents, JobKinds
      <3> QED
        BY <2>1, <2>4, <3>1, <3>2, <3>3, <3>5
    <2>5. \A d \in Chunks : EndsAnswer(r, k, ok) /\ chunk[r] = d => ~Wanted(d)'
      BY <2>1, <2>4, EndJobEffect DEF Wanted
    <2> QED
      BY <1>1, <2>1, <2>3, <2>5, EndJobOwner
  <1>5. CASE ~(meta[i] = Broken \/ Vetoed(k, c, meta[i]) \/ new = meta[i])
    <2>1. /\ stage' = [stage EXCEPT ![r][k] = "write"]
          /\ after' = [after EXCEPT ![r][k] = new]
          /\ meta'  = [meta EXCEPT ![i] = Broken]
          /\ UNCHANGED <<pc, chunk, opened>>
      BY <1>5 DEF JobLock
    <2>2. meta[i] \in Contents
      BY <1>2, <1>5 DEF TypeInv, StoreTypes
    <2>3. /\ stage'[r][k] = "write" /\ after'[r][k] = new /\ meta'[i] = Broken
          /\ \A q \in Puts, j \in JobKinds : q # r \/ j # k =>
               stage'[q][j] = stage[q][j] /\ after'[q][j] = after[q][j]
          /\ \A j \in MetaIds : j # i => meta'[j] = meta[j]
      BY <1>2, <2>1 DEF TypeInv, JobTypes, StoreTypes
    <2>4. \A q \in Puts, j \in JobKinds :
            stage'[q][j] = "write" /\ (q # r \/ j # k) => stage[q][j] = "write" /\ opened[q][j] # i
      BY <1>1, <2>3 DEF Unlocked
    <2>5. WritersApart'
      <3>1. \A q \in Puts, j \in JobKinds : stage'[q][j] = "write" => opened[q][j] \in MetaIds
        BY <2>1 DEF TypeInv, Closures, JobTypes
      <3> QED
        BY <2>1, <2>3, <2>4, <3>1 DEF OwnerInv, WritersApart
    <2>6. ClaimIsAwaited' /\ BootQuiet'
      BY <1>1, <1>3, <2>1, <2>3 DEF OwnerInv, ClaimIsAwaited, BootQuiet, JobKinds
    <2>7. \A q \in Puts : Answers(q) => Answers(q)'
      <3>1. \A q \in Puts, j \in JobKinds : Here(q, j) => Here(q, j)'
        BY <1>1, <2>1, <2>3 DEF Here
      <3> QED
        BY <1>1, <2>1, <2>3, <3>1 DEF Answers, JobKinds
    <2>8. AllAnswered'
      <3> SUFFICES ASSUME NEW d \in Chunks, Wanted(d)' PROVE Answered(d)'
        BY DEF AllAnswered
      <3>1. CASE d = c /\ k = "claim" /\ i = mpath
        <4>1. Answers(r)'
          BY <1>1, <2>1, <2>3, <3>1 DEF Answers
        <4> QED
          BY <2>1, <3>1, <4>1 DEF Answered
      <3>2. CASE ~(d = c /\ k = "claim" /\ i = mpath)
        <4>1. i = mpath /\ new[d] = "Ongoing" => meta[i][d] = "Ongoing"
          BY <1>2, <2>2, <3>2 DEF Updated, Contents, JobKinds
        <4>2. ASSUME i = mpath PROVE Wanted(d)
          <5>1. after'[r][k][d] = "Ongoing"
            BY <1>1, <2>1, <2>3, <2>4, <4>2 DEF Wanted
          <5> QED
            BY <1>2, <1>5, <2>3, <4>1, <4>2, <5>1 DEF Wanted
        <4>3. ASSUME i # mpath PROVE Wanted(d)
          BY <1>1, <2>1, <2>3, <4>3 DEF Wanted, TypeInv, StoreTypes
        <4>4. Wanted(d)
          BY <4>2, <4>3
        <4>5. PICK q \in Puts : chunk[q] = d /\ Answers(q)
          BY <1>3, <4>4 DEF OwnerInv, AllAnswered, Answered
        <4> QED
          BY <2>1, <2>7, <4>5 DEF Answered
      <3> QED
        BY <3>1, <3>2
    <2> QED
      BY <2>5, <2>6, <2>8 DEF OwnerInv
  <1> QED
    BY <1>4, <1>5

LEMMA JobWriteOwner ==
  ASSUME TypeInv, WritesItsStatus, OwnerInv, TypeInv', NEW r \in Puts, NEW k \in JobKinds,
         JobWrite(r, k)
  PROVE  OwnerInv'
  <1> DEFINE i == opened[r][k]
  <1>1. /\ stage[r][k] = "write" /\ EndJob(r, k, TRUE) /\ UNCHANGED <<phase, mpath, ppc>>
        /\ meta' = [meta EXCEPT ![i] = after[r][k]]
    BY DEF JobWrite, postVars, dirVars
  <1>2. i \in MetaIds /\ i # None /\ after[r][k] \in Contents /\ meta'[i] = after[r][k]
    BY <1>1, NoneAssumption DEF TypeInv, JobTypes, Closures, StoreTypes
  <1>0. EndJobEffects(r, k, TRUE)
    BY <1>1, EndJobEffect
  <1>3. \A q \in Puts, j \in JobKinds : stage'[q][j] = "write" =>
          stage[q][j] = "write" /\ after'[q][j] = after[q][j] /\ opened'[q][j] = opened[q][j]
    BY <1>0 DEF EndJobEffects
  <1>4. \A j \in MetaIds : j # i => meta'[j] = meta[j]
    BY <1>1 DEF TypeInv, StoreTypes
  <1>5. \A d \in Chunks : Wanted(d)' => Wanted(d)
    BY <1>1, <1>2, <1>3, <1>4 DEF Wanted, TypeInv, StoreTypes
  <1>6. ASSUME NEW d \in Chunks, d = chunk[r], EndsAnswer(r, k, TRUE), Wanted(d)' PROVE FALSE
    <2>1. i = mpath /\ k # "claim"
      BY <1>2, <1>6 DEF EndsAnswer
    <2>2. after[r][k][d] # "Ongoing"
      BY <1>1, <1>6, <2>1 DEF WritesItsStatus, JobKinds
    <2>3. PICK q \in Puts, j \in JobKinds :
            stage'[q][j] = "write" /\ opened'[q][j] = mpath
      BY <1>1, <1>2, <1>6, <2>1, <2>2 DEF Wanted
    <2>4. q = r /\ j = k
      BY <1>1, <1>3, <2>1, <2>3 DEF OwnerInv, WritersApart
    <2> QED
      BY <1>0, <2>3, <2>4 DEF EndJobEffects
  <1>7. \A d \in Chunks : EndsAnswer(r, k, TRUE) /\ chunk[r] = d => ~Wanted(d)'
    BY <1>6
  <1>8. \A q \in Puts, j \in JobKinds : stage[q][j] = "write" /\ opened[q][j] # i
          => meta'[opened[q][j]] = meta[opened[q][j]]
    BY <1>4 DEF TypeInv, JobTypes, Closures
  <1> QED
    BY <1>1, <1>5, <1>7, <1>8, EndJobOwner

\* A write that fails leaves nothing but an empty meta.
LEMMA JobWriteFailsOwner ==
  ASSUME TypeInv, OwnerInv, TypeInv', NEW r \in Puts, NEW k \in JobKinds, JobWriteFails(r, k)
  PROVE  OwnerInv'
  <1>1. stage[r][k] = "write" /\ EndJob(r, k, FALSE) /\ UNCHANGED <<phase, mpath, ppc, meta>>
    BY DEF JobWriteFails, postVars, dirVars
  <1>2. opened[r][k] # None
    BY <1>1 DEF TypeInv, Closures
  <1>0. EndJobEffects(r, k, FALSE)
    BY <1>1, EndJobEffect
  <1>3. \A q \in Puts, j \in JobKinds : stage'[q][j] = "write" =>
          /\ stage[q][j] = "write" /\ after'[q][j] = after[q][j] /\ opened'[q][j] = opened[q][j]
          /\ q # r \/ j # k
    BY <1>0 DEF EndJobEffects
  <1>4. \A d \in Chunks : Wanted(d)' => Wanted(d)
    BY <1>1, <1>3 DEF Wanted
  <1>5. ASSUME NEW d \in Chunks, EndsAnswer(r, k, FALSE), Wanted(d)' PROVE FALSE
    <2>1. opened[r][k] = mpath
      BY <1>2, <1>5 DEF EndsAnswer
    <2>2. ~(meta[mpath] # Broken /\ meta[mpath][d] = "Ongoing")
      BY <1>1, <2>1 DEF OwnerInv, WritersApart, AllNotStarted
    <2>3. PICK q \in Puts, j \in JobKinds :
            stage'[q][j] = "write" /\ opened'[q][j] = mpath
      BY <1>1, <1>5, <2>2 DEF Wanted
    <2> QED
      BY <1>1, <1>3, <2>1, <2>3 DEF OwnerInv, WritersApart
  <1> QED
    BY <1>1, <1>4, <1>5, EndJobOwner

\* A closure that cannot open, lock or read its meta has not had its chunk, or
\* leaves it to the reset: the reset itself does not fail here.
LEMMA JobFailsOwner ==
  ASSUME NoOrphans, TypeInv, OwnerInv, TypeInv', NEW r \in Puts, NEW k \in JobKinds,
         JobFails(r, k)
  PROVE  OwnerInv'
  <1>1. /\ stage[r][k] \in {"open", "lock"} /\ EndJob(r, k, FALSE) /\ k # "reset"
        /\ UNCHANGED <<phase, mpath, ppc, meta>>
    BY DEF JobFails, Strike, NoOrphans, postVars, dirVars
  <1>2. EndJobEffects(r, k, FALSE)
    BY <1>1, EndJobEffect
  <1>3. \A d \in Chunks : Wanted(d)' => Wanted(d)
    BY <1>1, <1>2 DEF EndJobEffects, Wanted
  <1>4. ~EndsAnswer(r, k, FALSE)
    BY <1>1 DEF EndsAnswer
  <1> QED
    BY <1>1, <1>3, <1>4, EndJobOwner

(* A step of a request: no closure begins to write or ends, the meta stays, *)
(* and who answered for a chunk still does, or the upload is gone.          *)
LEMMA KeepsOwner ==
  ASSUME TypeInv, OwnerInv, TypeInv', phase = "up", UNCHANGED <<phase, meta, opened, after>>,
         \A q \in Puts, j \in JobKinds : stage'[q][j] = "write" =>
           stage[q][j] = "write" /\ chunk'[q] = chunk[q],
         \A q \in Puts : stage'[q]["claim"] # "none" => pc'[q] = "claim",
         \/ mpath' = None
         \/ /\ mpath' = mpath
            /\ \A q \in Puts : Answers(q) => Answers(q)' /\ chunk'[q] = chunk[q]
  PROVE  OwnerInv'
  <1>1. ClaimIsAwaited' /\ BootQuiet'
    BY DEF ClaimIsAwaited, BootQuiet
  <1>2. WritersApart'
    BY DEF OwnerInv, WritersApart
  <1>3. CASE mpath' = None
    BY <1>1, <1>2, <1>3 DEF OwnerInv, AllAnswered, Wanted
  <1>4. CASE mpath' # None
    <2>1. \A c \in Chunks : Wanted(c)' => Wanted(c)
      BY <1>4 DEF Wanted
    <2> QED
      BY <1>1, <1>2, <1>4, <2>1, AnswersKept DEF OwnerInv
  <1> QED
    BY <1>3, <1>4

\* ... where only request r moves.
LEMMA PutKeepsOwner ==
  ASSUME TypeInv, OwnerInv, TypeInv', phase = "up", UNCHANGED <<phase, meta, opened, after>>,
         NEW r \in Puts,
         \A q \in Puts : q # r =>
           pc'[q] = pc[q] /\ stage'[q] = stage[q] /\ chunk'[q] = chunk[q],
         \A j \in JobKinds : stage'[r][j] = "write" =>
           stage[r][j] = "write" /\ chunk'[r] = chunk[r],
         stage'[r]["claim"] # "none" => pc'[r] = "claim",
         \/ mpath' = None
         \/ mpath' = mpath /\ (Answers(r) => Answers(r)' /\ chunk'[r] = chunk[r])
  PROVE  OwnerInv'
  <1>1. \A q \in Puts, j \in JobKinds : stage'[q][j] = "write" =>
          stage[q][j] = "write" /\ chunk'[q] = chunk[q]
    OBVIOUS
  <1>2. \A q \in Puts : stage'[q]["claim"] # "none" => pc'[q] = "claim"
    BY DEF OwnerInv, ClaimIsAwaited
  <1>3. ASSUME mpath' = mpath, NEW q \in Puts, q # r, Answers(q) PROVE Answers(q)'
    BY <1>3 DEF Answers, Here
  <1> QED
    BY <1>1, <1>2, <1>3, KeepsOwner

LEMMA PutOwner ==
  ASSUME TypeInv, OwnerInv, TypeInv', NEW r \in Puts,
         \/ \E c \in Chunks : PutBegin(r, c)
         \/ PutOpen(r) \/ PutWrite(r) \/ PutBodyFails(r)
         \/ PutCheck(r) /\ mpath # None
         \/ PutCheckHead(r) \/ PutCheckTail(r)
         \/ PutRename(r) \/ PutRemove(r)
  PROVE  OwnerInv'
  <1> USE DEF postVars, dirVars, jobVars, StartJob
  <1>0. JobKinds = {"claim", "fail", "complete", "reset"}
    BY DEF JobKinds
  <1>1. CASE \E c \in Chunks : PutBegin(r, c)
    <2>1. phase = "up" /\ ~Answers(r) /\ \A j \in JobKinds : stage[r][j] = "none"
      BY <1>0, <1>1 DEF PutBegin, Idle, Spent, Answers, Here
    <2>2. /\ UNCHANGED <<phase, meta, opened, after, mpath>>
          /\ \A q \in Puts : q # r =>
               pc'[q] = pc[q] /\ stage'[q] = stage[q] /\ chunk'[q] = chunk[q]
          /\ pc'[r] = "claim"
      BY <1>1 DEF PutBegin, TypeInv, JobTypes
    <2>3. \A j \in JobKinds : stage'[r][j] # "write"
      BY <1>1, <2>1 DEF PutBegin, TypeInv, JobTypes
    <2> QED
      BY <2>1, <2>2, <2>3, PutKeepsOwner
  <1>2. CASE ~\E c \in Chunks : PutBegin(r, c)
    <2>1. pc[r] \in {"open", "stream", "check", "rename", "remove"}
      BY <1>2 DEF PutOpen, PutWrite, PutBodyFails, PutCheck, PutCheckHead, PutCheckTail,
                  PutRename, PutRemove
    <2>2. \A j \in JobKinds : stage[r][j] = "none" /\ opened[r][j] = None
      <3>1. \A j \in JobKinds : pc[r] \notin {j, "idle"}
        BY <1>0, <2>1
      <3>2. \A j \in JobKinds : stage[r][j] = "none"
        BY <3>1 DEF TypeInv, Closures
      <3> QED
        BY <3>2 DEF TypeInv, Closures
    <2>3. phase = "up"
      BY <2>1, RunsUp DEF OwnerInv, Idle
    <2>4. /\ UNCHANGED <<phase, meta, opened, after>>
          /\ \A q \in Puts : q # r =>
               pc'[q] = pc[q] /\ stage'[q] = stage[q] /\ chunk'[q] = chunk[q]
      BY <1>2
      DEF PutOpen, PutWrite, PutBodyFails, PutCheck, PutCheckHead, PutCheckTail, Conclude,
          PutRename, PutRemove, TypeInv, JobTypes
    <2>5. \A j \in JobKinds : stage'[r][j] # "write"
      <3>1. \/ stage' = stage
            \/ \E k \in JobKinds : stage' = [stage EXCEPT ![r][k] = "open"]
        BY <1>0, <1>2
        DEF PutOpen, PutWrite, PutBodyFails, PutCheck, PutCheckHead, PutCheckTail,
          PutRename, PutRemove
      <3>2. CASE stage' = stage
        BY <2>2, <3>2
      <3>3. ASSUME NEW k \in JobKinds, stage' = [stage EXCEPT ![r][k] = "open"],
                   NEW j \in JobKinds
            PROVE  stage'[r][j] # "write"
        <4>1. stage'[r][j] = IF j = k THEN "open" ELSE stage[r][j]
          BY <3>3 DEF TypeInv, JobTypes
        <4> QED
          BY <2>2, <4>1
      <3> QED
        BY <3>1, <3>2, <3>3
    <2>6. stage'[r]["claim"] = "none"
      BY <1>0, <1>2, <2>2
      DEF PutOpen, PutWrite, PutBodyFails, PutCheck, PutCheckHead, PutCheckTail,
          PutRename, PutRemove, TypeInv, JobTypes
    <2>7. CASE PutOpen(r) \/ PutWrite(r) \/ PutBodyFails(r)
      <3>1. UNCHANGED <<mpath, chunk>>
        BY <2>7 DEF PutOpen, PutWrite, PutBodyFails
      <3>2. \/ pc'[r] = "stream"
            \/ stage'[r]["reset"] = "open"
            \/ pc'[r] = "complete" /\ stage'[r]["complete"] = "open"
            \/ pc'[r] = "fail" /\ stage'[r]["fail"] = "open"
        BY <1>0, <2>7 DEF PutOpen, PutWrite, PutBodyFails, TypeInv, JobTypes
      <3>3. opened'[r]["reset"] = None /\ opened'[r]["fail"] = None /\ opened'[r]["complete"] = None
        BY <1>0, <2>2, <2>4
      <3>4. Answers(r)'
        BY <3>2, <3>3 DEF Answers, Here
      <3> QED
        BY <2>3, <2>4, <2>5, <2>6, <3>1, <3>4, PutKeepsOwner
    <2>8. CASE PutCheck(r) \/ PutCheckHead(r) \/ PutCheckTail(r) \/ PutRename(r) \/ PutRemove(r)
      <3>1. ~Answers(r)
        BY <1>0, <2>2, <2>8
        DEF PutCheck, PutCheckHead, PutCheckTail, PutRename, PutRemove, Answers, Here
      <3>2. mpath' \in {None, mpath}
        BY <1>2, <2>8, <2>1 DEF PutCheck, PutCheckHead, PutCheckTail, PutRename, PutRemove
      <3> QED
        BY <2>3, <2>4, <2>5, <2>6, <3>1, <3>2, PutKeepsOwner
    <2> QED
      BY <1>2, <2>7, <2>8
  <1> QED
    BY <1>1, <1>2

\* A dropped request hands its chunk to the reset its guard spawns, unless it
\* is dropped during the claim.
LEMMA PutDroppedOwner ==
  ASSUME NoOrphans, TypeInv, OwnerInv, TypeInv', NEW r \in Puts, PutDropped(r)
  PROVE  OwnerInv'
  <1>0. JobKinds = {"claim", "fail", "complete", "reset"}
    BY DEF JobKinds
  <1>1. /\ pc[r] \notin {"idle", "claim", "reset"}
        /\ UNCHANGED <<phase, meta, opened, after, mpath>>
    BY DEF PutDropped, Strike, NoOrphans, Droppable, PutPc, postVars, dirVars
  <1>2. stage[r]["claim"] = "none" /\ stage[r]["reset"] = "none" /\ opened[r]["reset"] = None
    BY <1>0, <1>1 DEF TypeInv, Closures, JobTypes
  <1>3. phase = "up"
    BY <1>1, RunsUp DEF OwnerInv, Idle
  <1>4. \A q \in Puts : q # r =>
          pc'[q] = pc[q] /\ stage'[q] = stage[q] /\ chunk'[q] = chunk[q]
    BY DEF PutDropped, StartJob, TypeInv, JobTypes
  <1>5. \A j \in JobKinds : j # "reset" => stage'[r][j] = stage[r][j]
    BY DEF PutDropped, StartJob, TypeInv, JobTypes
  <1>6. CASE pc[r] \in Guarded
    <2>1. stage'[r]["reset"] = "open" /\ chunk'[r] = chunk[r]
      BY <1>0, <1>6 DEF PutDropped, StartJob, TypeInv, JobTypes, Guarded
    <2>2. Answers(r)'
      BY <1>1, <1>2, <2>1 DEF Answers, Here
    <2>3. \A j \in JobKinds : stage'[r][j] = "write" =>
            stage[r][j] = "write" /\ chunk'[r] = chunk[r]
      BY <1>5, <2>1
    <2>4. stage'[r]["claim"] = "none"
      BY <1>0, <1>2, <1>5
    <2> QED
      BY <1>1, <1>3, <1>4, <2>1, <2>2, <2>3, <2>4, PutKeepsOwner
  <1>7. CASE pc[r] \notin Guarded
    <2>1. stage' = stage /\ \A j \in JobKinds : stage[r][j] = "none"
      BY <1>0, <1>1, <1>7 DEF PutDropped, TypeInv, Closures, Guarded
    <2>2. ~Answers(r)
      BY <1>0, <1>7, <2>1 DEF Answers, Here, Guarded
    <2>3. stage'[r]["claim"] = "none" /\ \A j \in JobKinds : stage'[r][j] # "write"
      BY <1>0, <2>1
    <2> QED
      BY <1>1, <1>3, <1>4, <2>2, <2>3, PutKeepsOwner
  <1> QED
    BY <1>6, <1>7

LEMMA DieOwner == ASSUME Die PROVE OwnerInv'
  <1>1. Quiet' /\ phase' = "boot" /\ \A r \in Puts, k \in JobKinds : stage'[r][k] = "none"
    BY DEF Die, Quiet, Idle, Spent, NoJobs
  <1>2. "claim" \in JobKinds
    BY DEF JobKinds
  <1> QED
    BY <1>1, <1>2
    DEF OwnerInv, BootQuiet, ClaimIsAwaited, WritersApart, AllAnswered

\* A POST truncates and fills the meta without the lock: it takes answers
\* away from no one, and wants none.
LEMMA PostOwner ==
  ASSUME TypeInv, OwnerInv, TypeInv', NEW p \in Posts,
         PostBegin(p) \/ PostStep(p) \/ PostFillFails(p) \/ PostDropped(p)
  PROVE  OwnerInv'
  <1> USE DEF putVars, jobVars
  <1>1. phase = "up" /\ UNCHANGED <<phase, pc, chunk, stage, opened, after>>
    BY DEF TypeInv, StoreTypes, OwnerInv, BootQuiet, Quiet, PostBegin, PostStep, PostTruncate, PostFill, PostCreate,
           PostFillFails, PostDropped
  <1>2. BootQuiet' /\ ClaimIsAwaited'
    BY <1>1 DEF OwnerInv, BootQuiet, ClaimIsAwaited
  <1>3. CASE PostBegin(p) \/ PostCreate(p) \/ PostFillFails(p) \/ PostDropped(p)
    <2>1. UNCHANGED <<mpath, meta>>
      BY <1>3 DEF PostBegin, PostCreate, PostFillFails, PostDropped, dirVars
    <2>2. WritersApart' /\ \A c \in Chunks : Wanted(c)' <=> Wanted(c)
      BY <1>1, <2>1 DEF OwnerInv, WritersApart, Wanted
    <2>3. \A q \in Puts : Answers(q)' <=> Answers(q)
      BY <1>1, <2>1 DEF Answers, Here
    <2> QED
      BY <1>1, <1>2, <2>2, <2>3, AnswersKept DEF OwnerInv
  <1>4. ASSUME NEW i \in MetaIds, meta' = [meta EXCEPT ![i] = Broken] \/
                                  meta' = [meta EXCEPT ![i] = AllNotStarted]
        PROVE  /\ WritersApart'
               /\ \A c \in Chunks : mpath' = mpath /\ Wanted(c)' => Wanted(c)
    <2>1. /\ meta'[i] \in {Broken, AllNotStarted}
          /\ \A j \in MetaIds : j # i => meta'[j] = meta[j]
      BY <1>4 DEF TypeInv, StoreTypes
    <2>2. \A r \in Puts, k \in JobKinds : stage[r][k] = "write" => opened[r][k] \in MetaIds
      BY DEF TypeInv, Closures, JobTypes
    <2>3. WritersApart'
      BY <1>1, <2>1, <2>2 DEF OwnerInv, WritersApart
    <2>4. \A c \in Chunks : mpath' = mpath /\ Wanted(c)' => Wanted(c)
      BY <1>1, <2>1 DEF Wanted, AllNotStarted, TypeInv, StoreTypes
    <2> QED
      BY <2>3, <2>4
  <1>5. CASE PostFill(p)
    <2>1. pinode[p] \in MetaIds /\ meta' = [meta EXCEPT ![pinode[p]] = AllNotStarted]
          /\ mpath' = mpath
      BY <1>5 DEF PostFill, TypeInv, Fills, dirVars
    <2>2. \A q \in Puts : Answers(q)' <=> Answers(q)
      BY <1>1, <2>1 DEF Answers, Here
    <2>3. WritersApart' /\ \A c \in Chunks : Wanted(c)' => Wanted(c)
      BY <1>4, <2>1
    <2> QED
      BY <1>1, <1>2, <2>2, <2>3, AnswersKept DEF OwnerInv
  <1>6. CASE PostTruncate(p)
    <2>1. PICK i \in MetaIds : /\ i \in (IF mpath = None THEN FreeMeta ELSE {mpath})
                               /\ mpath' = i /\ meta' = [meta EXCEPT ![i] = Broken]
      BY <1>6 DEF PostTruncate, FreeMeta, TypeInv, StoreTypes
    <2>2. WritersApart' /\ \A c \in Chunks : mpath' = mpath /\ Wanted(c)' => Wanted(c)
      BY <1>4, <2>1
    <2>3. CASE mpath = None
      <3>1. \A r \in Puts, k \in JobKinds : opened'[r][k] # mpath'
        BY <1>1, <2>1, <2>3 DEF FreeMeta
      <3>2. meta'[mpath'] = Broken
        BY <2>1 DEF TypeInv, StoreTypes
      <3>3. \A c \in Chunks : ~Wanted(c)'
        BY <3>1, <3>2 DEF Wanted
      <3> QED
        BY <1>2, <2>2, <3>3 DEF OwnerInv, AllAnswered
    <2>4. CASE mpath # None
      <3>1. mpath' = mpath
        BY <2>1, <2>4
      <3>2. \A q \in Puts : Answers(q)' <=> Answers(q)
        BY <1>1, <3>1 DEF Answers, Here
      <3> QED
        BY <1>1, <1>2, <2>2, <3>1, <3>2, AnswersKept DEF OwnerInv
    <2> QED
      BY <2>3, <2>4
  <1> QED
    BY <1>3, <1>5, <1>6 DEF PostStep

\* The scan leaves no chunk Ongoing, or no meta that parses.
LEMMA ScanOwner ==
  ASSUME TypeInv, OwnerInv, Scan \/ ScanFails
  PROVE  OwnerInv'
  <1> USE DEF putVars, jobVars, postVars, dirVars
  <1>0. "claim" \in JobKinds
    BY DEF JobKinds
  <1>1. phase = "boot" /\ UNCHANGED <<pc, chunk, stage, opened, after, ppc, mpath>>
    BY DEF Scan, ScanFails
  <1>2. Quiet /\ Quiet' /\ \A r \in Puts, k \in JobKinds : stage'[r][k] = "none"
    BY <1>1 DEF OwnerInv, BootQuiet, Quiet, Idle, Spent
  <1>3. mpath' # None => meta'[mpath'] = Broken \/ \A c \in Chunks : meta'[mpath'][c] # "Ongoing"
    BY <1>1 DEF Scan, ScanFails, TypeInv, StoreTypes
  <1>4. \A c \in Chunks : ~Wanted(c)'
    BY <1>2, <1>3 DEF Wanted
  <1> QED
    BY <1>0, <1>2, <1>4
    DEF OwnerInv, BootQuiet, ClaimIsAwaited, WritersApart, AllAnswered

LEMMA StepOwnerInv ==
  NoOrphans /\ TypeInv /\ WritesItsStatus /\ OwnerInv /\ [Next]_vars => OwnerInv'
  <1> SUFFICES ASSUME NoOrphans, TypeInv, WritesItsStatus, OwnerInv, [Next]_vars
               PROVE  OwnerInv'
    OBVIOUS
  <1>1. TypeInv'
    BY StepTypeInv
  <1>2. CASE UNCHANGED vars
    BY <1>2 DEF vars, putVars, jobVars, postVars, dirVars, OwnerInv, BootQuiet, Quiet, Idle,
       Spent, ClaimIsAwaited, WritersApart, AllAnswered, Wanted, Answered,
       Answers, Here
  <1>3. CASE \E r \in Puts, k \in JobKinds :
               JobStep(r, k) \/ JobFails(r, k) \/ JobWriteFails(r, k)
    BY <1>1, <1>3, JobOpenOwner, JobLockOwner, JobWriteOwner, JobFailsOwner, JobWriteFailsOwner
    DEF JobStep
  <1>4. CASE \E r \in Puts : \/ \E c \in Chunks : PutBegin(r, c)
                             \/ PutStep(r) \/ PutBodyFails(r) \/ PutDropped(r)
    <2>1. PICK r \in Puts : \/ \E c \in Chunks : PutBegin(r, c)
                            \/ PutStep(r) \/ PutBodyFails(r) \/ PutDropped(r)
      BY <1>4
    <2>2. CASE PutCheck(r) /\ mpath = None
      BY <2>2, DieOwner DEF PutCheck
    <2>3. CASE ~(PutCheck(r) /\ mpath = None)
      BY <1>1, <2>1, <2>3, PutOwner, PutDroppedOwner DEF PutStep
    <2> QED
      BY <2>2, <2>3
  <1>5. CASE \E p \in Posts :
               PostBegin(p) \/ PostStep(p) \/ PostFillFails(p) \/ PostDropped(p)
    BY <1>1, <1>5, PostOwner
  <1>6. CASE Crash
    BY <1>6, DieOwner DEF Crash
  <1>7. CASE Scan \/ ScanFails
    BY <1>7, ScanOwner
  <1>8. ~ScanSkips
    BY DEF ScanSkips, Strike, NoOrphans
  <1> QED
    BY <1>2, <1>3, <1>4, <1>5, <1>6, <1>7, <1>8 DEF Next

\* What the meta stands for is what it says, what a closure is about to write
\* into it, or a table nobody has touched.
LEMMA StatusIsWanted ==
  ASSUME NEW c \in Chunks, Readable, Status[c] = "Ongoing"
  PROVE  Wanted(c)
  <1>1. mpath # None /\ Logical(mpath) # Broken /\ Logical(mpath)[c] = "Ongoing"
    BY DEF Readable, Status
  <1>2. CASE Writers(mpath) # {}
    <2>1. PICK w \in Writers(mpath) : Logical(mpath) = after[w[1]][w[2]]
      BY <1>2 DEF Logical
    <2> QED
      BY <1>1, <2>1 DEF Writers, Wanted
  <1>3. CASE Writers(mpath) = {}
    BY <1>1, <1>3 DEF Logical, AllNotStarted, Wanted
  <1> QED
    BY <1>2, <1>3

(* A chunk is never Ongoing for nobody: as long as no request is dropped     *)
(* while it awaits its claim, and the reset and the startup scan can open,   *)
(* lock and read the meta, there is a request that holds it, or a closure    *)
(* that is about to give it back, whatever else fails, at whatever moment    *)
(* the process ends, and however POSTs and PUTs interleave.  The guard of    *)
(* put and the startup scan are what this rests on: an error of theirs is    *)
(* swallowed or logged, and the chunk stays Ongoing.                         *)
THEOREM OngoingHasOwnerTheorem == NoOrphans /\ Spec => []OngoingHasOwner
  <1> SUFFICES ASSUME NoOrphans PROVE Spec => []OngoingHasOwner
    OBVIOUS
  <1>1. OwnerInv => OngoingHasOwner
    <2> SUFFICES ASSUME OwnerInv, phase = "up", Readable, NEW c \in Chunks, Status[c] = "Ongoing"
                 PROVE  \E r \in Puts : chunk[r] = c /\ Holding(r)
      BY DEF OngoingHasOwner
    <2>1. PICK r \in Puts : chunk[r] = c /\ Answers(r)
      BY StatusIsWanted DEF OwnerInv, AllAnswered, Answered
    <2>2. Holding(r)
      BY <2>1 DEF Answers, Here, Holding, JobKinds
    <2> QED
      BY <2>1, <2>2
  <1>2. TypeInv /\ WritesItsStatus /\ OwnerInv /\ [Next]_vars => OwnerInv'
    BY StepOwnerInv
  <1> QED
    BY <1>1, <1>2, InitOwnerInv, TypeInvAlways, WritesItsStatusAlways, PTL DEF Spec

-----------------------------------------------------------------------------
(* Who finishes an upload.                                                  *)

\* Statuses that are all Completed are in the meta, or about to be.
LEMMA CompletedStatus ==
  ASSUME AllInv, WritesItsStatus, Readable, AllCompleted(Status)
  PROVE  \/ mpath # None /\ Finished(mpath)
         \/ /\ meta[mpath] = Broken
            /\ \E s \in Puts : pc[s] = "complete" /\ stage[s]["complete"] = "write"
  <1>1. mpath # None /\ Status # Broken
    BY DEF Readable, Status
  <1>2. CASE meta[mpath] # Broken
    BY <1>1, <1>2, StatusIsMeta DEF Finished
  <1>3. CASE meta[mpath] = Broken
    <2>1. Status # AllNotStarted
      BY ChunksAssumption DEF AllCompleted, AllNotStarted
    <2>2. PICK s \in Puts, k \in JobKinds : stage[s][k] = "write" /\ Status = after[s][k]
      BY <1>1, <1>3, <2>1, StatusForms DEF AllInv, StatusFormed, NobodyWrites
    <2>3. chunk[s] \in Chunks
      BY <2>2 DEF AllInv, TypeInv, Closures
    <2>4. k = "complete"
      BY <2>2, <2>3 DEF WritesItsStatus, AllCompleted, JobKinds
    <2>5. pc[s] = "complete"
      BY <2>2, <2>4 DEF AllInv, SerialInv, Attached
    <2> QED
      BY <1>3, <2>2, <2>4, <2>5
  <1> QED
    BY <1>2, <1>3

\* The same after a step.
LEMMA CompletedStatusNext ==
  (AllInv /\ WritesItsStatus /\ Readable /\ AllCompleted(Status) =>
     \/ mpath # None /\ Finished(mpath)
     \/ /\ meta[mpath] = Broken
        /\ \E s \in Puts : pc[s] = "complete" /\ stage[s]["complete"] = "write")'
  <1>1. AllInv /\ WritesItsStatus /\ Readable /\ AllCompleted(Status) =>
          \/ mpath # None /\ Finished(mpath)
          \/ /\ meta[mpath] = Broken
             /\ \E s \in Puts : pc[s] = "complete" /\ stage[s]["complete"] = "write"
    BY CompletedStatus
  <1> QED
    BY <1>1, PTL

\* Nobody is to finish what has no name, or is not completed.
LEMMA NothingToFinish ==
  ASSUME \/ mpath' = None
         \/ /\ Status' = Broken \/ Status' = AllNotStarted
            /\ meta'[mpath'] = Broken \/ meta'[mpath'] = AllNotStarted
  PROVE  ClosingInv'
  <1>1. ~AllCompleted(AllNotStarted)
    BY ChunksAssumption DEF AllCompleted, AllNotStarted
  <1> QED
    BY <1>1
    DEF ClosingInv, SomeoneCloses, SomeoneRemoves, Readable, Status, Finished, AllCompleted

\* What another request does leaves a closing request closing.
OnlyMoves(r) == \A q \in Puts : q # r => pc'[q] = pc[q] /\ stage'[q] = stage[q]

LEMMA PutClosing ==
  ASSUME NoOneLeaves, AllInv, AllInv', WritesItsStatus, ClosingInv, NEW r \in Puts,
         \/ \E c \in Chunks : PutBegin(r, c)
         \/ PutStep(r) \/ PutBodyFails(r) \/ PutDropped(r)
  PROVE  ClosingInv'
  <1> ~PutCheckHead(r) /\ ~PutCheckTail(r)
    BY ReadAtOnce DEF NoOneLeaves, SerialRun, AllInv
  <1> USE DEF StartJob, jobVars, postVars, dirVars, Conclude
  <1>0. JobKinds = {"claim", "fail", "complete", "reset"}
    BY DEF JobKinds
  <1>1. CASE mpath' = None
    BY <1>1, NothingToFinish
  <1>2. CASE mpath' # None
    <2>1. UNCHANGED <<mpath, meta, ppc, after>>
      BY <1>2
      DEF PutBegin, PutStep, PutOpen, PutWrite, PutBodyFails, PutCheck, PutRename, PutRemove,
          PutDropped
    <2>2. ~(PutCheck(r) /\ mpath = None) /\ ~PutRemove(r)
      BY <1>2, <2>1 DEF PutRemove
    <2>3. OnlyMoves(r)
      BY <2>2
      DEF PutBegin, PutStep, PutOpen, PutWrite, PutBodyFails, PutCheck, PutRename,
          PutDropped, OnlyMoves, AllInv, TypeInv, JobTypes
    <2>4. \A q \in Puts, j \in JobKinds : stage'[q][j] = "write" <=> stage[q][j] = "write"
      <3>1. \/ stage' = stage
            \/ \E k \in JobKinds : pc[r] # k /\ (pc[r] = "idle" => Idle(r))
                 /\ stage' = [stage EXCEPT ![r][k] = "open"]
        <4>1. CASE (\E c \in Chunks : PutBegin(r, c)) \/ PutDropped(r)
          BY <1>0, <4>1 DEF PutBegin, PutDropped, Guarded, Idle
        <4>2. CASE PutOpen(r) \/ PutWrite(r) \/ PutBodyFails(r)
          BY <1>0, <4>2 DEF PutOpen, PutWrite, PutBodyFails
        <4>3. CASE PutCheck(r) \/ PutRename(r)
          BY <2>2, <4>3 DEF PutCheck, PutRename
        <4> QED
          BY <2>2, <4>1, <4>2, <4>3 DEF PutStep
      <3>2. CASE stage' = stage
        BY <3>2
      <3>3. ASSUME NEW k \in JobKinds, pc[r] # k, pc[r] = "idle" => Idle(r),
                   stage' = [stage EXCEPT ![r][k] = "open"]
            PROVE  \A q \in Puts, j \in JobKinds :
                     stage'[q][j] = "write" <=> stage[q][j] = "write"
        <4>1. stage[r][k] = "none"
          BY <3>3 DEF AllInv, TypeInv, Closures, Idle, Spent
        <4> QED
          BY <3>3, <4>1 DEF AllInv, TypeInv, JobTypes
      <3> QED
        BY <3>1, <3>2, <3>3
    <2>5. Status' = Status
      <3>1. WritersStay
        BY <2>1, <2>4 DEF WritersStay, NobodyFills
      <3> QED
        BY <3>1, StatusKept
    <2>6. pc[r] \in {"complete", "check", "rename", "remove"} => PutCheck(r) \/ PutRename(r)
      <3>1. ~PutDropped(r) \/ pc[r] \notin {"complete", "check", "rename", "remove"}
        BY DEF PutDropped, Strike, NoOneLeaves, SerialRun, Droppable
      <3> QED
        BY <2>2, <3>1 DEF PutBegin, PutStep, PutOpen, PutWrite, PutBodyFails, PutRemove, Idle
    <2>7. \A q \in Puts : q # r /\ Closing(q) => Closing(q)'
      BY <2>3 DEF OnlyMoves, Closing
    <2>8. SomeoneCloses'
      <3> SUFFICES ASSUME Readable, AllCompleted(Status) PROVE \E q \in Puts : Closing(q)'
        BY <2>5 DEF SomeoneCloses, Readable
      <3>1. PICK q \in Puts : Closing(q)
        BY DEF ClosingInv, SomeoneCloses
      <3>2. CASE q # r
        BY <2>7, <3>1, <3>2
      <3>3. CASE q = r /\ PutCheck(r)
        <4>1. CASE Finished(mpath)
          <5>1. pc'[r] = "rename"
            BY <2>2, <3>3, <4>1 DEF PutCheck, Finished, AllInv, TypeInv, JobTypes
          <5> QED
            BY <5>1 DEF Closing
        <4>2. CASE ~Finished(mpath)
          <5>1. PICK s \in Puts : pc[s] = "complete" /\ stage[s]["complete"] = "write"
            BY <4>2, CompletedStatus
          <5> QED
            BY <2>7, <3>3, <5>1 DEF Closing, PutCheck
        <4> QED
          BY <4>1, <4>2
      <3>4. CASE q = r /\ PutRename(r)
        <4>1. CASE upath # None
          <5>1. pc'[r] = "remove"
            BY <3>4, <4>1 DEF PutRename, AllInv, TypeInv, JobTypes
          <5> QED
            BY <5>1 DEF Closing
        <4>2. CASE upath = None
          <5>1. mpath # None /\ Finished(mpath)
            BY <1>2, <2>1, <3>4 DEF PutRename, AllInv, SerialInv, SeenFinished
          <5>2. PICK s \in Puts : pc[s] = "remove"
            BY <4>2, <5>1 DEF ClosingInv, SomeoneRemoves
          <5> QED
            BY <2>7, <3>4, <5>2 DEF Closing, PutRename
        <4> QED
          BY <4>1, <4>2
      <3> QED
        BY <2>6, <3>1, <3>2, <3>3, <3>4 DEF Closing
    <2>9. SomeoneRemoves'
      <3> SUFFICES ASSUME upath' = None, Finished(mpath) PROVE \E q \in Puts : pc'[q] = "remove"
        BY <2>1 DEF SomeoneRemoves, Finished
      <3>1. CASE upath = None
        <4>1. PICK q \in Puts : pc[q] = "remove"
          BY <1>2, <2>1, <3>1 DEF ClosingInv, SomeoneRemoves
        <4>2. q # r
          BY <2>6, <4>1 DEF PutCheck, PutRename
        <4> QED
          BY <2>3, <4>1, <4>2 DEF OnlyMoves
      <3>2. CASE upath # None
        <4>1. PutRename(r)
          BY <2>2, <3>2
          DEF PutBegin, PutStep, PutOpen, PutWrite, PutBodyFails, PutCheck, PutDropped
        <4>2. pc'[r] = "remove"
          BY <3>2, <4>1 DEF PutRename, AllInv, TypeInv, JobTypes
        <4> QED
          BY <4>2
      <3> QED
        BY <3>1, <3>2
    <2> QED
      BY <2>8, <2>9 DEF ClosingInv
  <1> QED
    BY <1>1, <1>2

\* A closure that ends without a write was not that of a closing request.
LEMMA JobClosing ==
  ASSUME AllInv, AllInv', WritesItsStatus, ClosingInv, NEW r \in Puts, NEW k \in JobKinds,
         JobStep(r, k) \/ JobFails(r, k) \/ JobWriteFails(r, k)
  PROVE  ClosingInv'
  <1>1. stage[r][k] # "none" /\ UNCHANGED <<mpath, upath>>
    BY DEF JobStep, JobOpen, JobLock, JobWrite, JobFails, JobWriteFails, dirVars
  <1>2. /\ pc[r] \in {k, "idle"}
        /\ \A j \in JobKinds : pc[r] = k /\ j # k => stage[r][j] = "none"
    BY <1>1 DEF AllInv, TypeInv, Closures, JobKinds
  <1>3. pc[r] \notin {"check", "rename", "remove"}
    BY <1>2 DEF JobKinds
  <1>4. OnlyMoves(r)
    BY DEF JobStep, JobOpen, JobLock, JobWrite, JobFails, JobWriteFails, EndJob, OnlyMoves,
           AllInv, TypeInv, JobTypes
  <1>5. \A q \in Puts : q # r /\ Closing(q) => Closing(q)'
    BY <1>4 DEF OnlyMoves, Closing
  <1>6. \A q \in Puts : pc[q] = "remove" => pc'[q] = "remove"
    BY <1>3, <1>4 DEF OnlyMoves
  <1>7. CASE stage[r][k] # "write" /\ UNCHANGED <<meta, Status>>
    <2>1. ~Closing(r)
      BY <1>2, <1>3, <1>7 DEF Closing, JobKinds
    <2> QED
      BY <1>1, <1>5, <1>6, <1>7, <2>1
      DEF ClosingInv, SomeoneCloses, SomeoneRemoves, Readable, Finished
  <1>8. CASE JobOpen(r, k)
    <2>1. Status' = Status
      BY <1>8, JobOpenLedger DEF Ledger!vars
    <2> QED
      BY <1>7, <1>8, <2>1 DEF JobOpen
  <1>9. CASE JobLock(r, k)
    <2> DEFINE new == Updated(k, chunk[r], meta[opened[r][k]])
    <2>1. CASE \E ok \in BOOLEAN : EndJob(r, k, ok) /\ UNCHANGED meta
      <3>1. UNCHANGED <<mpath, ppc, upath, fpath, phase, written>> /\ stage[r][k] = "lock"
        BY <1>9 DEF JobLock, postVars, dirVars
      <3>2. Status' = Status
        BY <2>1, <3>1, EndJobStutters DEF Ledger!vars
      <3> QED
        BY <1>7, <2>1, <3>1, <3>2
    <2>2. CASE ~\E ok \in BOOLEAN : EndJob(r, k, ok) /\ UNCHANGED meta
      <3>1. /\ stage[r][k] = "lock" /\ Unlocked(opened[r][k])
            /\ pc' = pc /\ stage' = [stage EXCEPT ![r][k] = "write"]
            /\ meta' = [meta EXCEPT ![opened[r][k]] = Broken]
            /\ meta[opened[r][k]] # Broken /\ ~Vetoed(k, chunk[r], meta[opened[r][k]])
            /\ new # meta[opened[r][k]]
        BY <1>9, <2>2 DEF JobLock
      <3>2. /\ mpath # None /\ mpath \in MetaIds /\ opened[r][k] = mpath
        BY <3>1, LockedMeta DEF AllInv, TypeInv, StoreTypes
      <3>3. meta'[mpath'] = Broken /\ mpath' # None
        BY <1>1, <3>1, <3>2 DEF AllInv, TypeInv, StoreTypes
      <3>4. SomeoneRemoves'
        BY <3>3 DEF SomeoneRemoves, Finished
      <3>5. SomeoneCloses'
        <4> SUFFICES ASSUME Readable', AllCompleted(Status)' PROVE \E q \in Puts : Closing(q)'
          BY DEF SomeoneCloses
        <4>1. WritesItsStatus'
          BY StepWritesItsStatus DEF AllInv, Next
        <4>2. PICK s \in Puts : pc'[s] = "complete" /\ stage'[s]["complete"] = "write"
          BY <3>3, <4>1, CompletedStatusNext DEF Finished
        <4> QED
          BY <4>2 DEF Closing
      <3> QED
        BY <3>4, <3>5 DEF ClosingInv
    <2> QED
      BY <2>1, <2>2
  <1>10. CASE JobWrite(r, k)
    <2>1. /\ stage[r][k] = "write" /\ EndJob(r, k, TRUE)
          /\ meta' = [meta EXCEPT ![opened[r][k]] = after[r][k]]
      BY <1>10 DEF JobWrite
    <2>2. mpath # None /\ opened[r][k] = mpath /\ Status = after[r][k] /\ after[r][k] \in Contents
      BY <2>1, StatusForms
      DEF AllInv, SerialInv, WriterTruncates, OpenedHere, TypeInv, Closures, StatusFormed
    <2>3. Status' = Status /\ meta'[mpath] = after[r][k]
      BY <1>10, <2>1, <2>2, JobWriteLedger DEF Ledger!vars, AllInv, TypeInv, StoreTypes
    <2>4. AllCompleted(after[r][k]) => k = "complete" /\ pc[r] = "complete"
      <3>1. chunk[r] \in Chunks
        BY <2>1 DEF AllInv, TypeInv, Closures
      <3> QED
        BY <2>1, <3>1 DEF WritesItsStatus, AllCompleted, JobKinds, AllInv, SerialInv, Attached
    <2>5. AllCompleted(after[r][k]) => pc'[r] = "check" /\ upath # None
      BY <2>1, <2>4
      DEF EndJob, Resumed, AllInv, TypeInv, JobTypes, StoredInv, WritesTheFile
    <2>6. SomeoneCloses'
      BY <2>2, <2>3, <2>5 DEF SomeoneCloses, Closing
    <2>7. SomeoneRemoves'
      BY <1>1, <2>3, <2>5 DEF SomeoneRemoves, Finished
    <2> QED
      BY <2>6, <2>7 DEF ClosingInv
  <1>11. CASE JobWriteFails(r, k)
    <2>1. Status' = Broken
      BY <1>11, JobWriteFailsLedger DEF Ledger!Wreck
    <2>2. meta'[mpath'] = Broken
      BY <1>11 DEF JobWriteFails, dirVars, AllInv, SerialInv, WriterTruncates
    <2> QED
      BY <2>1, <2>2, NothingToFinish
  <1>12. CASE JobFails(r, k)
    <2>1. Status' = Status
      BY <1>12, JobFailsLedger DEF Ledger!vars
    <2> QED
      BY <1>7, <1>12, <2>1 DEF JobFails
  <1> QED
    BY <1>8, <1>9, <1>10, <1>11, <1>12 DEF JobStep

\* A POST only makes uploads with nothing to finish, and a restart too.
LEMMA PostClosing ==
  ASSUME SerialRun, AllInv, AllInv', ClosingInv, NEW p \in Posts,
         PostBegin(p) \/ PostStep(p) \/ PostFillFails(p) \/ PostDropped(p)
  PROVE  ClosingInv'
  <1>1. UNCHANGED <<pc, stage>>
    BY DEF PostBegin, PostStep, PostTruncate, PostFill, PostCreate, PostFillFails, PostDropped,
           putVars, jobVars
  <1>2. CASE UNCHANGED <<mpath, meta, Status>> /\ (upath' = upath \/ upath' # None)
    BY <1>1, <1>2 DEF ClosingInv, SomeoneCloses, SomeoneRemoves, Readable, Finished, Closing
  <1>3. CASE PostTruncate(p)
    <2>1. mpath = None
      BY <1>3 DEF PostTruncate, AllInv, SerialInv, PostAlone
    <2>2. PICK i \in MetaIds : mpath' = i /\ meta' = [meta EXCEPT ![i] = Broken]
      BY <1>3, <2>1 DEF PostTruncate, FreeMeta
    <2>3. ppc'[p] = "fill"
      BY <1>3 DEF PostTruncate, AllInv, TypeInv, StoreTypes
    <2>4. Status' = AllNotStarted
      BY <2>2, <2>3, NoneAssumption, StatusFormsNext DEF AllInv, StatusFormed, NobodyFills
    <2>5. meta'[mpath'] = Broken
      BY <2>2 DEF AllInv, TypeInv, StoreTypes
    <2> QED
      BY <2>4, <2>5, NothingToFinish
  <1>4. CASE PostFill(p)
    <2>1. mpath' = mpath /\ mpath = pinode[p] /\ mpath \in MetaIds
      BY <1>4 DEF PostFill, dirVars, AllInv, SerialInv, PostAlone, TypeInv, Fills
    <2>2. Status = AllNotStarted
      BY <1>4, <2>1, NoneAssumption, StatusForms
      DEF PostFill, AllInv, StatusFormed, NobodyFills
    <2>3. Status' = Status
      BY <1>4, <2>2, PostLedger DEF PostStep, Ledger!vars, Ledger!Create, AllNotStarted
    <2>4. meta'[mpath'] = AllNotStarted
      BY <1>4, <2>1 DEF PostFill, AllInv, TypeInv, StoreTypes
    <2> QED
      BY <2>2, <2>3, <2>4, NothingToFinish
  <1>5. CASE PostBegin(p) \/ PostCreate(p) \/ PostDropped(p)
    <2>1. UNCHANGED <<mpath, meta>>
      BY <1>5 DEF PostBegin, PostCreate, PostDropped, dirVars
    <2>2. WritersStay
      <3>1. (\A q \in Posts : ppc'[q] # "fill") <=> \A q \in Posts : ppc[q] # "fill"
        BY <1>5 DEF PostBegin, PostCreate, PostDropped, AllInv, TypeInv, StoreTypes
      <3>2. UNCHANGED after
        BY <1>5 DEF PostBegin, PostCreate, PostDropped, jobVars
      <3> QED
        BY <1>1, <2>1, <3>1, <3>2 DEF WritersStay, NobodyFills
    <2>3. Status' = Status
      BY <2>2, StatusKept
    <2>4. upath' = upath \/ upath' # None
      <3>1. CASE PostCreate(p)
        <4>1. PICK i \in FileIds : upath' = i
          BY <3>1 DEF PostCreate, FreeFile, AllInv, TypeInv, StoreTypes
        <4> QED
          BY <4>1, NoneAssumption
      <3> QED
        BY <1>5, <3>1 DEF PostBegin, PostDropped, dirVars
    <2> QED
      BY <1>2, <2>1, <2>3, <2>4
  <1>6. CASE PostFillFails(p)
    <2>1. Status' = Broken
      BY <1>6, PostFillFailsLedger DEF Ledger!Wreck
    <2>2. meta'[mpath'] = Broken
      BY <1>6 DEF PostFillFails, dirVars, AllInv, SerialInv, PostAlone
    <2> QED
      BY <2>1, <2>2, NothingToFinish
  <1> QED
    BY <1>3, <1>4, <1>5, <1>6 DEF PostStep

LEMMA ScanClosing ==
  ASSUME AllInv, AllInv', ClosingInv, Scan \/ ScanFails \/ ScanSkips
  PROVE  ClosingInv'
  <1>1. Quiet /\ UNCHANGED <<mpath, upath>>
    BY DEF Scan, ScanFails, ScanSkips, dirVars, AllInv, SerialInv, BootQuiet
  <1>2. CASE mpath = None
    BY <1>1, <1>2, NothingToFinish
  <1>3. CASE mpath # None
    <2>1. ~(meta[mpath] # Broken /\ AllCompleted(meta[mpath]))
      BY <1>1, <1>3, StatusIsMeta
      DEF Quiet, Idle, Spent, ClosingInv, SomeoneCloses, Closing, JobKinds
    <2>2. mpath \in MetaIds
      BY <1>3 DEF AllInv, TypeInv, StoreTypes
    <2>3. ~(meta'[mpath] # Broken /\ AllCompleted(meta'[mpath]))
      <3>1. CASE meta[mpath] = Broken \/ ScanFails
        BY <2>2, <3>1 DEF Scan, ScanFails, ScanSkips, AllInv, TypeInv, StoreTypes
      <3>2. CASE meta[mpath] # Broken /\ Scan
        <4>1. \A c \in Chunks : meta'[mpath][c] = "Completed" => meta[mpath][c] = "Completed"
          BY <1>3, <2>2, <3>2 DEF Scan, AllInv, TypeInv, StoreTypes
        <4> QED
          BY <2>1, <3>2, <4>1 DEF AllCompleted
      <3>3. CASE ScanSkips
        BY <2>1, <3>3 DEF ScanSkips
      <3> QED
        BY <3>1, <3>2, <3>3
    <2>4. NobodyWrites' /\ NobodyFills'
      BY <1>1 DEF Scan, ScanFails, ScanSkips, jobVars, postVars, Quiet, Idle, Spent, NobodyWrites, NobodyFills
    <2>5. Status' = meta'[mpath]
      BY <1>1, <1>3, <2>4, StatusFormsNext DEF AllInv, StatusFormed
    <2> QED
      BY <1>1, <2>3, <2>5
      DEF ClosingInv, SomeoneCloses, SomeoneRemoves, Readable, Finished, AllCompleted
  <1> QED
    BY <1>2, <1>3

LEMMA StepClosing ==
  ASSUME NoOneLeaves, AllInv, AllInv', WritesItsStatus, ClosingInv, [Next]_vars
  PROVE  ClosingInv'
  <1>1. SerialRun /\ ~Crash
    BY DEF NoOneLeaves, Crash, Strike
  <1>2. CASE UNCHANGED vars
    <2>1. WritersStay /\ UNCHANGED <<mpath, meta, upath, pc, stage>>
      BY <1>2 DEF vars, putVars, jobVars, postVars, dirVars, WritersStay, NobodyFills
    <2>2. Status' = Status
      BY <2>1, StatusKept
    <2> QED
      BY <2>1, <2>2 DEF ClosingInv, SomeoneCloses, SomeoneRemoves, Readable, Finished, Closing
  <1>3. CASE Next
    BY <1>1, <1>3, PutClosing, JobClosing, PostClosing, ScanClosing DEF Next
  <1> QED
    BY <1>2, <1>3

(* The last chunk is never completed for nothing: whenever all statuses of   *)
(* an upload are Completed, one of the requests that ran into each other     *)
(* over its last chunks is on its way to publish the file and remove the     *)
(* meta.  A crash, or a client that goes away between the completion of its  *)
(* chunk and the rename, is excluded: the run ResumableUploadUnfinished      *)
(* shows what they do.                                                       *)
THEOREM LastChunkFinalisesTheorem == NoOneLeaves /\ Spec => []LastChunkFinalises
  <1> SUFFICES ASSUME NoOneLeaves PROVE Spec => []LastChunkFinalises
    OBVIOUS
  <1>1. Init => ClosingInv
    BY DEF Init, ClosingInv, SomeoneCloses, SomeoneRemoves, Readable, Status
  <1>2. AllInv /\ AllInv' /\ WritesItsStatus /\ ClosingInv /\ [Next]_vars => ClosingInv'
    BY StepClosing
  <1>3. ClosingInv => LastChunkFinalises
    BY DEF ClosingInv, SomeoneCloses, LastChunkFinalises, Closing
  <1>4. Spec => []AllInv
    BY AllInvAlways DEF NoOneLeaves
  <1> QED
    BY <1>1, <1>2, <1>3, <1>4, WritesItsStatusAlways, PTL DEF Spec
=============================================================================
