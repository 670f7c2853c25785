------------------------- MODULE ResumableUploadProofs -------------------------
(***************************************************************************)
(* Theorems about one resumable upload path, for every number of requests, *)
(* chunks, inodes and faults.                                              *)
(***************************************************************************)
EXTENDS ResumableUploadInv, TLAPS

LEMMA InitTypeInv == Init => TypeInv
  <1> SUFFICES ASSUME Init PROVE TypeInv
    OBVIOUS
  <1>1. JobTypes
    BY DEF Init, JobTypes, NoJobs, NoInode, PutPc, Stages
  <1>2. StoreTypes
    BY FaultsAssumption DEF Init, StoreTypes, PostPc, Heads
  <1>3. Closures
    BY DEF Init, Closures, NoJobs, NoInode
  <1>4. Requests /\ Fills
    BY DEF Init, Requests, Fills, JobKinds
  <1> QED
    BY <1>1, <1>2, <1>3, <1>4 DEF TypeInv

(* The end of a closure keeps the discipline, whatever it did to the meta.  *)
LEMMA EndJobTypes ==
  ASSUME TypeInv, NEW r \in Puts, NEW k \in JobKinds, NEW ok \in BOOLEAN,
         stage[r][k] # "none", EndJob(r, k, ok), UNCHANGED handle
  PROVE  JobTypes' /\ Closures' /\ Requests'
  <1> DEFINE awaited == pc[r] = k
             reset   == awaited /\ GuardDropped(k, ok)
             going   == awaited /\ Resumed(k, ok) # "idle"
  <1>1. /\ pc' = IF awaited THEN [pc EXCEPT ![r] = Resumed(k, ok)] ELSE pc
        /\ stage' = [stage EXCEPT ![r] =
                       [j \in JobKinds |-> IF j = k THEN "none"
                                           ELSE IF j = "reset" /\ reset THEN "open"
                                           ELSE stage[r][j]]]
        /\ opened' = [opened EXCEPT ![r][k] = None]
        /\ after'  = [after EXCEPT ![r][k] = None]
        /\ chunk'  = IF ~going /\ ~reset /\ Spent(r, {k})
                     THEN [chunk EXCEPT ![r] = None] ELSE chunk
    BY DEF EndJob
  <1>2. /\ Resumed(k, ok) \in {"open", "check", "idle"}
        /\ Resumed(k, ok) # "idle" => k # "reset" /\ ok
    BY DEF Resumed, JobKinds
  <1>3. JobTypes'
    BY <1>1, <1>2 DEF TypeInv, JobTypes, PutPc, Stages
  <1>4. pc[r] \in {k, "idle"} /\ chunk[r] \in Chunks
    BY DEF TypeInv, Closures
  <1>5. ASSUME NEW j \in JobKinds, j # k, stage[r][j] # "none"
        PROVE  pc[r] = "idle" \/ pc[r] = j
    BY <1>5 DEF TypeInv, Closures
  <1>6. \A j \in JobKinds : j # k /\ stage[r][j] # "none" /\ awaited => pc[r] = "idle"
    BY <1>4, <1>5
  <1>7. pc[r] \notin {"idle", k} => FALSE
    BY <1>4
  <1>8. pc'[r] = "idle" \/ (awaited /\ pc'[r] = Resumed(k, ok))
    BY <1>1, <1>4 DEF TypeInv, JobTypes
  <1>9. \A j \in JobKinds : stage'[r][j] # "none" =>
          j # k /\ (stage[r][j] # "none" \/ (j = "reset" /\ reset))
    BY <1>1 DEF TypeInv, JobTypes
  <1>10. k # "idle" /\ \A j \in JobKinds : j # "idle"
    BY DEF JobKinds
  <1>11. \A j \in JobKinds : stage'[r][j] # "none" => pc'[r] = "idle"
    <2> SUFFICES ASSUME NEW j \in JobKinds, stage'[r][j] # "none", awaited
                 PROVE  pc'[r] = "idle"
      BY <1>8
    <2>1. j = "reset" /\ reset
      BY <1>6, <1>9, <1>10
    <2> QED
      BY <1>2, <1>8, <2>1 DEF GuardDropped
  <1>12. \A j \in JobKinds : stage'[r][j] # "none" => chunk'[r] \in Chunks
    <2> SUFFICES ASSUME NEW j \in JobKinds, stage'[r][j] # "none"
                 PROVE  chunk'[r] \in Chunks
      OBVIOUS
    <2>1. reset \/ ~Spent(r, {k})
      BY <1>9 DEF Spent
    <2> QED
      BY <1>1, <1>4, <2>1
  <1>13. pc'[r] # "idle" => chunk'[r] \in Chunks
    BY <1>1, <1>4, <1>8
  <1>14. Closures'
    <2> SUFFICES ASSUME NEW q \in Puts, NEW j \in JobKinds
                 PROVE  /\ stage'[q][j] # "none" =>
                             chunk'[q] \in Chunks /\ pc'[q] \in {j, "idle"}
                        /\ stage'[q][j] \in {"lock", "write"} <=> opened'[q][j] # None
                        /\ stage'[q][j] = "write" => after'[q][j] \in Contents
      BY DEF Closures
    <2>1. CASE q # r
      BY <1>1, <2>1 DEF TypeInv, JobTypes, Closures
    <2>2. CASE q = r /\ j = k
      BY <1>1, <2>2 DEF TypeInv, JobTypes
    <2>3. CASE q = r /\ j # k
      <3>1. opened'[q][j] = opened[q][j] /\ after'[q][j] = after[q][j]
        BY <1>1, <2>3 DEF TypeInv, JobTypes
      <3>2. \/ stage'[q][j] = stage[q][j]
            \/ stage'[q][j] = "open" /\ j = "reset" /\ reset
        BY <1>1, <2>3 DEF TypeInv, JobTypes
      <3>3. j = "reset" /\ reset => stage[q][j] = "none"
        BY <1>6, <1>10, <2>3
      <3> QED
        BY <1>11, <1>12, <2>3, <3>1, <3>2, <3>3 DEF TypeInv, Closures
    <2> QED
      BY <2>1, <2>2, <2>3
  <1>15. Requests'
    <2> SUFFICES ASSUME NEW q \in Puts
                 PROVE  /\ pc'[q] # "idle" => chunk'[q] \in Chunks
                        /\ pc'[q] \in JobKinds => stage'[q][pc'[q]] # "none"
                        /\ pc'[q] = "stream" => handle'[q] \in FileIds
      BY DEF Requests
    <2>1. CASE q # r
      BY <1>1, <2>1 DEF TypeInv, JobTypes, Requests
    <2>2. CASE q = r
      BY <1>2, <1>8, <1>13, <2>2 DEF JobKinds
    <2> QED
      BY <2>1, <2>2
  <1> QED
    BY <1>3, <1>14, <1>15

(* Actions that change the state of one closure by hand, or of none.        *)

LEMMA JobOpenTypes ==
  ASSUME TypeInv, NEW r \in Puts, NEW k \in JobKinds, JobOpen(r, k)
  PROVE  TypeInv'
  <1>1. StoreTypes' /\ Fills'
    BY DEF TypeInv, StoreTypes, Fills, JobOpen, postVars, dirVars
  <1>2. CASE mpath = None
    BY <1>1, <1>2, EndJobTypes DEF JobOpen, TypeInv
  <1>3. CASE mpath # None
    <2>1. /\ stage[r][k] = "open"
          /\ stage'  = [stage EXCEPT ![r][k] = "lock"]
          /\ opened' = [opened EXCEPT ![r][k] = mpath]
          /\ UNCHANGED <<pc, chunk, after, handle>>
          /\ mpath \in MetaIds
      BY <1>3 DEF JobOpen, TypeInv, StoreTypes
    <2>2. JobTypes' /\ Closures' /\ Requests'
      BY <1>3, <2>1 DEF TypeInv, JobTypes, Closures, Requests, Stages
    <2> QED
      BY <1>1, <2>2 DEF TypeInv
  <1> QED
    BY <1>2, <1>3

LEMMA UpdatedType ==
  ASSUME NEW k \in JobKinds, NEW c \in Chunks, NEW m \in Contents
  PROVE  Updated(k, c, m) \in Contents
  BY DEF Updated, Contents, ChunkStatus, JobKinds

LEMMA JobLockTypes ==
  ASSUME TypeInv, NEW r \in Puts, NEW k \in JobKinds, JobLock(r, k)
  PROVE  TypeInv'
  <1> DEFINE i == opened[r][k]
             c == chunk[r]
  <1>1. i \in MetaIds /\ c \in Chunks /\ stage[r][k] = "lock"
    BY DEF JobLock, TypeInv, JobTypes, Closures
  <1>2. CASE meta[i] = Broken \/ Vetoed(k, c, meta[i]) \/ Updated(k, c, meta[i]) = meta[i]
    <2>1. PICK ok \in BOOLEAN : EndJob(r, k, ok) /\ UNCHANGED meta
      BY <1>2 DEF JobLock
    <2>2. UNCHANGED <<phase, handle, head, postVars, dirVars, written, faults>>
      BY DEF JobLock
    <2>3. StoreTypes' /\ Fills'
      BY <2>1, <2>2 DEF TypeInv, StoreTypes, Fills, postVars, dirVars
    <2> QED
      BY <1>1, <2>1, <2>2, <2>3, EndJobTypes DEF TypeInv
  <1>3. CASE ~(meta[i] = Broken \/ Vetoed(k, c, meta[i]) \/ Updated(k, c, meta[i]) = meta[i])
    <2>1. /\ stage' = [stage EXCEPT ![r][k] = "write"]
          /\ after' = [after EXCEPT ![r][k] = Updated(k, c, meta[i])]
          /\ meta'  = [meta EXCEPT ![i] = Broken]
          /\ UNCHANGED <<pc, chunk, opened, phase, handle, head, ppc, pinode,
                         mpath, upath, fpath, written, faults>>
      BY <1>3 DEF JobLock, postVars, dirVars
    <2>2. Updated(k, c, meta[i]) \in Contents
      BY <1>1, <1>3, UpdatedType DEF TypeInv, StoreTypes
    <2>3. JobTypes' /\ StoreTypes' /\ Fills'
      BY <2>1, <2>2 DEF TypeInv, JobTypes, StoreTypes, Fills, Stages
    <2>4. Closures' /\ Requests'
      BY <1>1, <2>1, <2>2 DEF TypeInv, JobTypes, Closures, Requests
    <2> QED
      BY <2>3, <2>4 DEF TypeInv
  <1> QED
    BY <1>2, <1>3

LEMMA StrikeType ==
  ASSUME faults \in 0 .. MaxFaults, NEW f, Strike(f)
  PROVE  faults' \in 0 .. MaxFaults
  BY FaultsAssumption DEF Strike

LEMMA StartJobType ==
  ASSUME JobTypes, NEW r \in Puts, NEW k \in JobKinds, StartJob(r, k)
  PROVE  stage' \in [Puts -> [JobKinds -> Stages]]
  BY DEF JobTypes, StartJob, Stages

LEMMA JobWriteTypes ==
  ASSUME TypeInv, NEW r \in Puts, NEW k \in JobKinds,
         JobWrite(r, k) \/ JobFails(r, k) \/ JobWriteFails(r, k)
  PROVE  TypeInv'
  <1>1. stage[r][k] # "none"
    BY DEF JobWrite, JobFails, JobWriteFails
  <1>2. PICK ok \in BOOLEAN : EndJob(r, k, ok)
    BY DEF JobWrite, JobFails, JobWriteFails
  <1>3. UNCHANGED <<phase, handle, head, postVars, dirVars, written>>
    BY DEF JobWrite, JobFails, JobWriteFails
  <1>4. faults' \in 0 .. MaxFaults
    BY StrikeType DEF JobWrite, JobFails, JobWriteFails, TypeInv, StoreTypes
  <1>5. meta' \in [MetaIds -> Contents \cup {Broken}]
    <2>1. JobWrite(r, k) => opened[r][k] \in MetaIds /\ after[r][k] \in Contents
      BY DEF JobWrite, TypeInv, JobTypes, Closures
    <2> QED
      BY <2>1 DEF JobWrite, JobFails, JobWriteFails, TypeInv, StoreTypes
  <1>6. StoreTypes' /\ Fills'
    BY <1>3, <1>4, <1>5 DEF TypeInv, StoreTypes, Fills, postVars, dirVars
  <1> QED
    BY <1>1, <1>2, <1>3, <1>6, EndJobTypes DEF TypeInv

LEMMA PutBeginTypes ==
  ASSUME TypeInv, NEW r \in Puts, NEW c \in Chunks, PutBegin(r, c)
  PROVE  TypeInv'
  <1> USE DEF TypeInv, PutBegin, StartJob, Idle, Spent, postVars, dirVars
  <1> "claim" \in JobKinds
    BY DEF JobKinds
  <1>1. JobTypes'
    BY StartJobType DEF JobTypes, PutPc
  <1>2. StoreTypes' /\ Fills'
    BY DEF StoreTypes, Fills
  <1>3. Closures' /\ Requests'
    BY DEF JobTypes, Closures, Requests, JobKinds
  <1> QED
    BY <1>1, <1>2, <1>3

(* A request between its closures: nothing of it runs elsewhere.            *)
LEMMA Alone ==
  ASSUME TypeInv, NEW r \in Puts, pc[r] \notin JobKinds \cup {"idle"}
  PROVE  Spent(r, {})
  BY DEF TypeInv, Closures, Spent

LEMMA PutOpenTypes ==
  ASSUME TypeInv, NEW r \in Puts, PutOpen(r)
  PROVE  TypeInv'
  <1> USE DEF TypeInv, PutOpen, StartJob, postVars, dirVars
  <1>1. Spent(r, {})
    BY Alone DEF JobKinds
  <1> "reset" \in JobKinds
    BY DEF JobKinds
  <1>2. StoreTypes' /\ Fills'
    BY DEF StoreTypes, Fills
  <1>3. stage' \in [Puts -> [JobKinds -> Stages]]
    BY StartJobType DEF JobTypes
  <1>4. JobTypes'
    BY <1>3 DEF JobTypes, PutPc
  <1>5. Closures' /\ Requests'
    BY <1>1 DEF JobTypes, StoreTypes, Closures, Requests, JobKinds, Spent
  <1> QED
    BY <1>2, <1>4, <1>5

LEMMA PutStreamTypes ==
  ASSUME TypeInv, NEW r \in Puts, PutWrite(r) \/ PutBodyFails(r)
  PROVE  TypeInv'
  <1> USE DEF TypeInv
  <1>1. Spent(r, {}) /\ chunk[r] \in Chunks /\ handle[r] \in FileIds
    BY Alone DEF JobKinds, Requests, PutWrite, PutBodyFails
  <1>2. PICK k \in {"complete", "fail"} :
          pc' = [pc EXCEPT ![r] = k] /\ StartJob(r, k)
    BY DEF PutWrite, PutBodyFails
  <1>3. /\ handle' = [handle EXCEPT ![r] = None]
        /\ UNCHANGED <<phase, chunk, head, opened, after, ppc, pinode, mpath, upath, fpath, meta>>
    BY DEF PutWrite, PutBodyFails, postVars, dirVars
  <1>4. faults' \in 0 .. MaxFaults
    BY StrikeType DEF PutWrite, PutBodyFails, StoreTypes
  <1>5. written' \in [FileIds -> SUBSET Chunks]
    BY <1>1 DEF PutWrite, PutBodyFails, StoreTypes
  <1>6. StoreTypes' /\ Fills'
    BY <1>3, <1>4, <1>5 DEF StoreTypes, Fills
  <1>7. stage' \in [Puts -> [JobKinds -> Stages]]
    BY <1>2, StartJobType DEF JobTypes, JobKinds
  <1>8. JobTypes'
    BY <1>2, <1>3, <1>7 DEF JobTypes, PutPc
  <1>9. Closures' /\ Requests'
    BY <1>1, <1>2, <1>3 DEF JobTypes, Closures, Requests, JobKinds, Spent, StartJob
  <1> QED
    BY <1>6, <1>8, <1>9

LEMMA DieTypes ==
  ASSUME TypeInv, Die, UNCHANGED <<dirVars, meta, written>>, faults' \in 0 .. MaxFaults
  PROVE  TypeInv'
  <1> USE DEF TypeInv, Die, dirVars
  <1>1. JobTypes' /\ StoreTypes' /\ Fills'
    BY DEF JobTypes, StoreTypes, Fills, PutPc, PostPc, Stages, NoJobs, NoInode, Heads
  <1>2. Closures' /\ Requests'
    BY DEF Closures, Requests, JobKinds, NoJobs, NoInode
  <1> QED
    BY <1>1, <1>2

LEMMA PutFinishTypes ==
  ASSUME TypeInv, NEW r \in Puts,
         PutCheck(r) \/ PutCheckTail(r) \/ PutRename(r) \/ PutRemove(r)
  PROVE  TypeInv'
  <1>1. CASE PutCheck(r) /\ mpath = None
    BY <1>1, DieTypes DEF PutCheck, TypeInv, StoreTypes
  <1>2. CASE ~(PutCheck(r) /\ mpath = None)
    <2>1. Spent(r, {}) /\ pc[r] # "idle"
      BY Alone DEF PutCheck, PutCheckTail, PutRename, PutRemove, JobKinds
    <2>2. /\ pc' \in {[pc EXCEPT ![r] = to] : to \in {"idle", "rename", "remove"}}
          /\ chunk' = IF pc'[r] = "idle" THEN [chunk EXCEPT ![r] = None] ELSE chunk
          /\ UNCHANGED <<phase, handle, stage, opened, after, ppc, pinode, meta,
                         written, faults>>
      BY <1>2 DEF PutCheck, PutCheckTail, Conclude, PutRename, PutRemove, TypeInv, JobTypes,
                  jobVars, postVars
    <2>3. /\ mpath' \in MetaIds \cup {None}
          /\ upath' \in FileIds \cup {None}
          /\ fpath' \in FileIds \cup {None}
          /\ head'  \in [Puts -> Heads]
      BY <1>2 DEF PutCheck, PutCheckTail, PutRename, PutRemove, TypeInv, StoreTypes, dirVars,
                  Heads
    <2>4. JobTypes' /\ StoreTypes' /\ Fills'
      BY <2>2, <2>3 DEF TypeInv, JobTypes, StoreTypes, Fills, PutPc
    <2>5. Closures' /\ Requests'
      BY <2>1, <2>2 DEF TypeInv, JobTypes, Closures, Requests, JobKinds, Spent
    <2> QED
      BY <2>4, <2>5 DEF TypeInv
  <1> QED
    BY <1>1, <1>2

LEMMA PutCheckHeadTypes ==
  ASSUME TypeInv, NEW r \in Puts, PutCheckHead(r)
  PROVE  TypeInv'
  <1> USE DEF TypeInv, PutCheckHead, jobVars, postVars, dirVars
  <1>1. head' \in [Puts -> Heads]
    BY DEF StoreTypes, Heads
  <1>2. StoreTypes' /\ Fills'
    BY <1>1 DEF StoreTypes, Fills
  <1>3. JobTypes' /\ Closures' /\ Requests'
    BY DEF JobTypes, Closures, Requests
  <1> QED
    BY <1>2, <1>3

\* A meta that is read at once is never read in two parts.
LEMMA ReadAtOnce ==
  ASSUME TypeInv, ~LongMeta, NEW r \in Puts
  PROVE  ~PutCheckHead(r) /\ ~PutCheckTail(r)
  BY DEF PutCheckHead, PutCheckTail, TypeInv, StoreTypes, Heads

LEMMA PutDroppedTypes ==
  ASSUME TypeInv, NEW r \in Puts, PutDropped(r)
  PROVE  TypeInv'
  <1> USE DEF TypeInv
  <1>1. faults' \in 0 .. MaxFaults
    BY StrikeType DEF PutDropped, StoreTypes
  <1>2. /\ pc' = [pc EXCEPT ![r] = "idle"]
        /\ handle' = [handle EXCEPT ![r] = None]
        /\ head'   = [head EXCEPT ![r] = None]
        /\ UNCHANGED <<phase, opened, after, ppc, pinode, mpath, upath, fpath, meta, written>>
        /\ pc[r] # "idle"
    BY DEF PutDropped, Droppable, postVars, dirVars
  <1>3. StoreTypes' /\ Fills'
    BY <1>1, <1>2 DEF StoreTypes, Fills, Heads
  <1>4. chunk[r] \in Chunks /\ "reset" \in JobKinds
    BY <1>2 DEF Requests, JobKinds
  <1>5. stage[r]["reset"] = "none"
    <2>1. pc[r] # "reset"
      BY DEF JobTypes, PutPc
    <2> QED
      BY <1>2, <1>4, <2>1 DEF Closures
  <1>6. pc[r] \in {"check", "remove"} => Spent(r, {})
    BY Alone DEF JobKinds
  <1>7. chunk' = IF pc[r] \in {"check", "remove"}
                 THEN [chunk EXCEPT ![r] = None] ELSE chunk
    BY DEF PutDropped
  <1>8. stage' = stage \/ (pc[r] \in Guarded /\ StartJob(r, "reset"))
    BY DEF PutDropped
  <1>9. JobTypes'
    BY <1>2, <1>4, <1>7, <1>8, StartJobType DEF JobTypes, PutPc
  <1>10. Closures'
    <2> SUFFICES ASSUME NEW q \in Puts, NEW j \in JobKinds
                 PROVE  /\ stage'[q][j] # "none" =>
                             chunk'[q] \in Chunks /\ pc'[q] \in {j, "idle"}
                        /\ stage'[q][j] \in {"lock", "write"} <=> opened'[q][j] # None
                        /\ stage'[q][j] = "write" => after'[q][j] \in Contents
      BY DEF Closures
    <2>1. CASE q # r
      BY <1>2, <1>7, <1>8, <2>1 DEF JobTypes, Closures, StartJob
    <2>2. CASE q = r
      <3>1. stage'[r][j] # "none" => chunk'[r] \in Chunks
        BY <1>4, <1>6, <1>7, <1>8 DEF Guarded, Spent
      <3>2. pc'[r] = "idle"
        BY <1>2 DEF JobTypes
      <3>3. stage'[r][j] = stage[r][j] \/ (stage'[r][j] = "open" /\ stage[r][j] = "none")
        BY <1>5, <1>8 DEF StartJob, JobTypes
      <3> QED
        BY <1>2, <2>2, <3>1, <3>2, <3>3 DEF Closures
    <2> QED
      BY <2>1, <2>2
  <1>11. Requests'
    <2> SUFFICES ASSUME NEW q \in Puts, q # r
                 PROVE  /\ pc'[q] # "idle" => chunk'[q] \in Chunks
                        /\ pc'[q] \in JobKinds => stage'[q][pc'[q]] # "none"
                        /\ pc'[q] = "stream" => handle'[q] \in FileIds
      BY <1>2 DEF Requests, JobTypes, JobKinds
    <2> QED
      BY <1>2, <1>7, <1>8 DEF Requests, JobTypes, StartJob
  <1> QED
    BY <1>3, <1>9, <1>10, <1>11

LEMMA PostTypes ==
  ASSUME TypeInv, NEW p \in Posts,
         PostBegin(p) \/ PostStep(p) \/ PostFillFails(p) \/ PostDropped(p)
  PROVE  TypeInv'
  <1> USE DEF TypeInv, PostStep, PostBegin, PostTruncate, PostFill, PostCreate, PostFillFails,
              PostDropped, putVars, jobVars, postVars, dirVars
  <1>1. JobTypes' /\ Closures' /\ Requests'
    BY DEF JobTypes, Closures, Requests
  <1>2. faults' \in 0 .. MaxFaults
    BY FaultsAssumption DEF Strike, StoreTypes
  <1>3. AllNotStarted \in Contents
    BY DEF AllNotStarted, Contents, ChunkStatus
  <1>4. StoreTypes'
    BY <1>2, <1>3 DEF StoreTypes, PostPc, FreeMeta, FreeFile
  <1>5. Fills'
    BY DEF StoreTypes, Fills, FreeMeta
  <1> QED
    BY <1>1, <1>4, <1>5

LEMMA CrashTypes ==
  ASSUME TypeInv, Crash
  PROVE  TypeInv'
  BY DieTypes, FaultsAssumption DEF Crash, Strike, TypeInv, StoreTypes

LEMMA ScanTypes ==
  ASSUME TypeInv, Scan \/ ScanFails \/ ScanSkips
  PROVE  TypeInv'
  <1> USE DEF TypeInv, Scan, ScanFails, ScanSkips, putVars, jobVars, postVars, dirVars
  <1>1. JobTypes' /\ Closures' /\ Requests' /\ Fills'
    BY DEF JobTypes, Closures, Requests, Fills
  <1>2. faults' \in 0 .. MaxFaults
    BY FaultsAssumption DEF Strike, StoreTypes
  <1>3. meta' \in [MetaIds -> Contents \cup {Broken}]
    <2>1. CASE ScanFails
      BY <2>1 DEF StoreTypes
    <2>2. CASE Scan
      BY <2>2 DEF StoreTypes, Contents, ChunkStatus
    <2>3. CASE ScanSkips
      BY <2>3 DEF StoreTypes
    <2> QED
      BY <2>1, <2>2, <2>3
  <1>4. StoreTypes'
    BY <1>2, <1>3 DEF StoreTypes
  <1> QED
    BY <1>1, <1>4

LEMMA StepTypeInv == TypeInv /\ [Next]_vars => TypeInv'
  <1> SUFFICES ASSUME TypeInv, [Next]_vars PROVE TypeInv'
    OBVIOUS
  <1>1. CASE UNCHANGED vars
    BY <1>1 DEF vars, putVars, jobVars, postVars, dirVars, TypeInv, JobTypes, StoreTypes,
                Closures, Requests, Fills
  <1>2. CASE Next
    BY <1>2, PutBeginTypes, PutOpenTypes, PutStreamTypes, PutFinishTypes, PutCheckHeadTypes,
       PutDroppedTypes, JobOpenTypes, JobLockTypes, JobWriteTypes, PostTypes, CrashTypes, ScanTypes
    DEF Next, PutStep, JobStep
  <1> QED
    BY <1>1, <1>2

LEMMA TypeInvAlways == Spec => []TypeInv
  BY InitTypeInv, StepTypeInv, PTL DEF Spec

(* Every variable keeps its type: no closure runs without an inode, no       *)
(* request without its chunk, and no table loses or gains an entry.          *)
THEOREM TypeCorrect == Spec => []TypeOK
  <1>1. TypeInv => TypeOK
    BY DEF TypeInv, JobTypes, StoreTypes, TypeOK
  <1> QED
    BY <1>1, TypeInvAlways, PTL

-----------------------------------------------------------------------------
(* One writer per chunk.                                                    *)

LEMMA InitSerialInv == Init => SerialInv
  <1> SUFFICES ASSUME Init PROVE SerialInv
    OBVIOUS
  <1>1. /\ \A r \in Puts : pc[r] = "idle"
        /\ \A r \in Puts, k \in JobKinds : stage[r][k] = "none" /\ opened[r][k] = None
        /\ \A p \in Posts : ppc[p] = "idle"
        /\ phase = "up"
    BY DEF Init, NoJobs, NoInode
  <1>2. {"claim", "fail", "complete", "reset"} = JobKinds
    BY DEF JobKinds
  <1>3. Attached /\ BootQuiet /\ OpenedHere /\ OneJobWrites /\ WriterTruncates /\ Unlinked
    BY <1>1, <1>2 DEF Attached, BootQuiet, OpenedHere, OneJobWrites, WriterTruncates, Unlinked
  <1>4. PostAlone /\ SeenFinished
    BY <1>1 DEF PostAlone, SeenFinished
  <1>5. \A r \in Puts : ~Claims(r)
    BY <1>1, <1>2 DEF Claims
  <1> QED
    BY <1>3, <1>4, <1>5 DEF SerialInv, OneClaim, ClaimIsMarked

(* A closure that has yet to give its chunk back, or complete it, speaks for *)
(* a claim that stands.                                                      *)
LEMMA BeforeGivingBack ==
  ASSUME TypeInv, SerialInv, NEW r \in Puts, NEW k \in {"fail", "complete", "reset"},
         stage[r][k] \in {"open", "lock"}
  PROVE  Claims(r) /\ ~GivesBack(r)
  <1>1. k \in JobKinds /\ pc[r] \in {k, "idle"}
    BY DEF TypeInv, Closures, JobKinds
  <1>2. k \in {"fail", "complete"} => pc[r] = k
    BY DEF SerialInv, Attached
  <1>3. pc[r] # "reset"
    BY DEF TypeInv, JobTypes, PutPc
  <1>4. Claims(r)
    BY <1>2 DEF Claims
  <1>5. \A j \in {"fail", "complete", "reset"} : stage[r][j] = "write" => pc[r] \in {j, "idle"}
    BY DEF TypeInv, Closures, JobKinds
  <1>6. \A j \in {"fail", "complete"} : stage[r][j] = "write" => pc[r] = j
    BY DEF SerialInv, Attached
  <1> QED
    BY <1>1, <1>2, <1>3, <1>4, <1>5, <1>6 DEF GivesBack

(* What the end of a closure changes, request by request ...                *)
EndJobEffects(r, k, ok) ==
  /\ \A q \in Puts : q # r => pc'[q] = pc[q] /\ chunk'[q] = chunk[q]
  /\ \A q \in Puts, j \in JobKinds : q # r \/ j # k =>
       /\ opened'[q][j] = opened[q][j]
       /\ after'[q][j] = after[q][j]
       /\ \/ stage'[q][j] = stage[q][j]
          \/ /\ q = r /\ j = "reset" /\ stage'[q][j] = "open"
             /\ pc[r] = k /\ k \in {"fail", "complete"} /\ ~ok
  /\ stage'[r][k] = "none" /\ opened'[r][k] = None
  /\ pc'[r] = "idle" \/ (k = "claim" /\ ok /\ pc'[r] = "open")
                     \/ (k = "complete" /\ ok /\ pc'[r] = "check")
  /\ chunk'[r] = chunk[r] \/ chunk'[r] = None

(* ... and the same in the terms of the invariant.                          *)
EndJobClaimed(r, k, ok) ==
  /\ \A q \in Puts : Claims(q)' => chunk'[q] = chunk[q]
  /\ \A q \in Puts : q # r => (Claims(q)' <=> Claims(q)) /\ (GivesBack(q)' <=> GivesBack(q))
  /\ Claims(r)' => Claims(r) \/ (k = "claim" /\ ok)
  /\ \A q \in Puts, j \in JobKinds : stage'[q][j] = "write" =>
       stage[q][j] = "write" /\ after'[q][j] = after[q][j] /\ (q # r \/ j # k)
  /\ GivesBack(r)' => GivesBack(r)
  /\ Attached'

LEMMA EndJobEffect ==
  ASSUME TypeInv, NEW r \in Puts, NEW k \in JobKinds, NEW ok \in BOOLEAN,
         stage[r][k] # "none", EndJob(r, k, ok)
  PROVE  EndJobEffects(r, k, ok)
  <1>1. pc[r] \in {k, "idle"}
    BY DEF TypeInv, Closures
  <1>2. Resumed(k, ok) = "idle" \/ (k = "claim" /\ ok /\ Resumed(k, ok) = "open")
                                \/ (k = "complete" /\ ok /\ Resumed(k, ok) = "check")
    BY DEF Resumed, JobKinds
  <1> QED
    BY <1>1, <1>2 DEF EndJob, GuardDropped, TypeInv, JobTypes, EndJobEffects

LEMMA EndJobClaims ==
  ASSUME TypeInv, SerialInv, NEW r \in Puts, NEW k \in JobKinds, NEW ok \in BOOLEAN,
         stage[r][k] # "none", EndJob(r, k, ok), TypeInv'
  PROVE  EndJobClaimed(r, k, ok)
  <1> EndJobEffects(r, k, ok)
    BY EndJobEffect
  <1> USE DEF EndJobEffects
  <1>1. {"claim", "fail", "complete", "reset"} = JobKinds
    BY DEF JobKinds
  <1>2. \A q \in Puts : Claims(q)' => chunk'[q] \in Chunks
    BY <1>1 DEF Claims, TypeInv, Closures, Requests
  <1>3. \A q \in Puts : Claims(q)' => chunk'[q] = chunk[q]
    BY <1>2, NoneAssumption
  <1>4. \A q \in Puts : q # r => (Claims(q)' <=> Claims(q)) /\ (GivesBack(q)' <=> GivesBack(q))
    BY <1>1 DEF Claims, GivesBack
  <1>5. \A q \in Puts, j \in JobKinds : stage'[q][j] = "write" =>
          stage[q][j] = "write" /\ after'[q][j] = after[q][j] /\ (q # r \/ j # k)
    OBVIOUS
  <1>6. GivesBack(r)' => GivesBack(r)
    BY <1>1, <1>5 DEF GivesBack
  <1>7. Claims(r)' => Claims(r) \/ (k = "claim" /\ ok)
    BY <1>1 DEF Claims
  <1>8. Attached'
    <2> SUFFICES ASSUME NEW q \in Puts, NEW j \in {"fail", "complete"}, stage'[q][j] # "none"
                 PROVE  pc'[q] = j
      BY DEF Attached
    <2>1. stage[q][j] # "none" /\ (q # r \/ j # k)
      BY <1>1
    <2>2. pc[q] = j
      BY <2>1 DEF SerialInv, Attached
    <2>3. q # r
      BY <1>1, <2>1, <2>2 DEF TypeInv, Closures
    <2> QED
      BY <2>2, <2>3
  <1> QED
    BY <1>3, <1>4, <1>5, <1>6, <1>7, <1>8 DEF EndJobClaimed

(* While a request or a closure of it runs, the process is up and no POST    *)
(* has its meta yet to write.                                               *)
LEMMA BusyPut ==
  ASSUME SerialInv, NEW r \in Puts, ~Idle(r)
  PROVE  phase # "boot" /\ \A p \in Posts : ppc[p] \notin {"write", "fill"}
  BY DEF SerialInv, BootQuiet, Quiet, PostAlone

LEMMA BusyJob ==
  ASSUME NEW r \in Puts, NEW k \in JobKinds, stage[r][k] # "none"
  PROVE  ~Idle(r)
  BY DEF Idle, Spent

(* A closure ends without having written.                                   *)
LEMMA EndJobSerial ==
  ASSUME TypeInv, SerialInv, NEW r \in Puts, NEW k \in JobKinds, NEW ok \in BOOLEAN,
         stage[r][k] # "none", EndJob(r, k, ok), TypeInv',
         UNCHANGED <<phase, mpath, meta, ppc, pinode>>, ~(k = "claim" /\ ok)
  PROVE  SerialInv'
  <1> EndJobEffects(r, k, ok) /\ EndJobClaimed(r, k, ok)
    BY EndJobEffect, EndJobClaims
  <1> USE DEF EndJobEffects, EndJobClaimed
  <1>1. ~Idle(r)
    BY BusyJob
  <1>2. BootQuiet' /\ PostAlone'
    BY <1>1, BusyPut DEF BootQuiet, PostAlone, SerialInv
  <1>3. OpenedHere' /\ Unlinked'
    BY DEF OpenedHere, Unlinked, SerialInv, Finished
  <1>4. OneJobWrites' /\ WriterTruncates'
    BY DEF OneJobWrites, WriterTruncates, SerialInv
  <1>5. SeenFinished'
    BY DEF SeenFinished, SerialInv, Finished
  <1>6. \A q \in Puts : Claims(q)' => Claims(q) /\ chunk'[q] = chunk[q]
    OBVIOUS
  <1>7. OneClaim'
    BY <1>6 DEF OneClaim, SerialInv
  <1>8. ClaimIsMarked'
    <2> SUFFICES ASSUME NEW q \in Puts, Claims(q)', ~GivesBack(q)'
                 PROVE  /\ mpath # None
                        /\ meta[mpath] # Broken => meta[mpath][chunk[q]] = "Ongoing"
                        /\ \A s \in Puts, l \in JobKinds : stage'[s][l] = "write" =>
                             stage[s][l] = "write" /\ after[s][l][chunk[q]] = "Ongoing"
      BY <1>6 DEF ClaimIsMarked
    <2>1. Claims(q)
      BY <1>6
    <2>2. CASE ~GivesBack(q)
      BY <2>1, <2>2 DEF SerialInv, ClaimIsMarked
    <2>3. CASE GivesBack(q)
      <3>1. q = r
        BY <2>3
      <3>2. PICK j \in JobKinds : stage[r][j] = "write" /\ stage'[r][j] # "write"
        BY <2>3, <3>1 DEF GivesBack, JobKinds
      <3>3. stage[r][j] = "write" /\ j = k
        BY <3>2 DEF SerialInv, Attached, TypeInv, Closures
      <3>4. \A s \in Puts, l \in JobKinds : stage'[s][l] # "write"
        BY <3>3 DEF SerialInv, OneJobWrites
      <3> QED
        BY <3>3, <3>4 DEF SerialInv, WriterTruncates
    <2> QED
      BY <2>2, <2>3
  <1> QED
    BY <1>2, <1>3, <1>4, <1>5, <1>7, <1>8 DEF SerialInv

LEMMA JobOpenSerial ==
  ASSUME TypeInv, SerialInv, NEW r \in Puts, NEW k \in JobKinds, JobOpen(r, k)
  PROVE  SerialInv'
  <1>1. stage[r][k] = "open" /\ UNCHANGED <<phase, mpath, meta, ppc, pinode>>
    BY DEF JobOpen, postVars, dirVars
  <1>2. TypeInv'
    BY JobOpenTypes
  <1>3. CASE mpath = None
    BY <1>1, <1>2, <1>3, EndJobSerial DEF JobOpen
  <1>4. CASE mpath # None
    <2>1. /\ stage'  = [stage EXCEPT ![r][k] = "lock"]
          /\ opened' = [opened EXCEPT ![r][k] = mpath]
          /\ UNCHANGED <<pc, chunk, after>>
      BY <1>4 DEF JobOpen
    <2>2. /\ \A q \in Puts, j \in JobKinds : stage'[q][j] = "write" <=> stage[q][j] = "write"
          /\ \A q \in Puts, j \in JobKinds : stage'[q][j] = "none" <=> stage[q][j] = "none"
      BY <1>1, <2>1 DEF TypeInv, JobTypes
    <2>3. {"claim", "fail", "complete", "reset"} = JobKinds
      BY DEF JobKinds
    <2>4. \A q \in Puts : (Claims(q)' <=> Claims(q)) /\ (GivesBack(q)' <=> GivesBack(q))
      BY <2>1, <2>2, <2>3 DEF Claims, GivesBack
    <2>5. Attached' /\ OneJobWrites' /\ WriterTruncates'
      BY <1>1, <2>1, <2>2, <2>3 DEF SerialInv, Attached, OneJobWrites, WriterTruncates
    <2>6. OpenedHere' /\ Unlinked'
      BY <1>1, <1>4, <2>1 DEF SerialInv, OpenedHere, Unlinked, TypeInv, JobTypes
    <2>7. BootQuiet' /\ PostAlone'
      BY <1>1, BusyJob, BusyPut DEF SerialInv, BootQuiet, PostAlone
    <2>8. SeenFinished'
      BY <1>1, <2>1 DEF SerialInv, SeenFinished, Finished
    <2>9. OneClaim' /\ ClaimIsMarked'
      BY <1>1, <2>1, <2>2, <2>4 DEF SerialInv, OneClaim, ClaimIsMarked
    <2> QED
      BY <2>5, <2>6, <2>7, <2>8, <2>9 DEF SerialInv
  <1> QED
    BY <1>3, <1>4

(* A closure that goes on to write has the meta that has the name, and that  *)
(* meta is not finished.                                                    *)
LEMMA LockedMeta ==
  ASSUME TypeInv, SerialInv, NEW r \in Puts, NEW k \in JobKinds, stage[r][k] = "lock",
         Unlocked(opened[r][k]),
         meta[opened[r][k]] # Broken, ~Vetoed(k, chunk[r], meta[opened[r][k]])
  PROVE  /\ mpath # None /\ opened[r][k] = mpath /\ chunk[r] \in Chunks
         /\ meta[mpath] \in Contents /\ ~Finished(mpath)
         /\ meta[mpath][chunk[r]] = IF k = "claim" THEN "NotStarted" ELSE "Ongoing"
         /\ \A q \in Puts, j \in JobKinds : stage[q][j] # "write"
  <1> DEFINE i == opened[r][k]
             c == chunk[r]
  <1>1. i \in MetaIds /\ i # None /\ c \in Chunks
    BY NoneAssumption DEF TypeInv, JobTypes, Closures
  <1>2. meta[i] \in Contents /\ (k = "claim" => meta[i][c] = "NotStarted")
    BY <1>1 DEF Vetoed, TypeInv, StoreTypes
  <1>3. k # "claim" => Claims(r) /\ ~GivesBack(r)
    BY BeforeGivingBack DEF JobKinds
  <1>4. k # "claim" => mpath # None /\ (meta[mpath] # Broken => meta[mpath][c] = "Ongoing")
    BY <1>3 DEF SerialInv, ClaimIsMarked
  <1>5. mpath # None
    <2> SUFFICES ASSUME mpath = None PROVE FALSE
      OBVIOUS
    <2>1. k = "claim" /\ Finished(i)
      BY <1>1, <1>4 DEF SerialInv, Unlinked
    <2> QED
      BY <1>1, <1>2, <2>1 DEF Finished, AllCompleted
  <1>6. i = mpath
    BY <1>1, <1>5 DEF SerialInv, OpenedHere
  <1>7. ~Finished(mpath)
    BY <1>1, <1>2, <1>4, <1>6 DEF Finished, AllCompleted
  <1>8. \A q \in Puts, j \in JobKinds : stage[q][j] # "write"
    BY <1>5, <1>6 DEF Unlocked, SerialInv, OpenedHere, TypeInv, Closures
  <1> QED
    BY <1>1, <1>2, <1>4, <1>5, <1>6, <1>7, <1>8

LEMMA JobLockSerial ==
  ASSUME TypeInv, SerialInv, NEW r \in Puts, NEW k \in JobKinds, JobLock(r, k)
  PROVE  SerialInv'
  <1> DEFINE i == opened[r][k]
             c == chunk[r]
  <1>1. /\ stage[r][k] = "lock" /\ Unlocked(i) /\ i \in MetaIds /\ i # None /\ c \in Chunks
        /\ UNCHANGED <<phase, mpath, ppc, pinode>>
    BY NoneAssumption DEF JobLock, TypeInv, JobTypes, Closures, postVars, dirVars
  <1>2. TypeInv'
    BY JobLockTypes
  <1>3. CASE meta[i] = Broken \/ Vetoed(k, c, meta[i])
    BY <1>1, <1>2, <1>3, EndJobSerial DEF JobLock
  <1>4. CASE /\ ~(meta[i] = Broken \/ Vetoed(k, c, meta[i]))
             /\ Updated(k, c, meta[i]) = meta[i]
    <2>1. k # "claim"
      <3> SUFFICES ASSUME k = "claim" PROVE FALSE
        OBVIOUS
      <3>1. meta[i] \in Contents /\ meta[i][c] = "NotStarted"
        BY <1>1, <1>4 DEF Vetoed, TypeInv, StoreTypes
      <3>2. Updated(k, c, meta[i])[c] = "Ongoing"
        BY <1>1, <3>1 DEF Updated, Contents
      <3> QED
        BY <1>4, <3>1, <3>2
    <2> QED
      BY <1>1, <1>2, <1>4, <2>1, EndJobSerial DEF JobLock
  <1>5. CASE /\ ~(meta[i] = Broken \/ Vetoed(k, c, meta[i]))
             /\ Updated(k, c, meta[i]) # meta[i]
    <2> DEFINE new == Updated(k, c, meta[i])
    <2>1. /\ stage' = [stage EXCEPT ![r][k] = "write"]
          /\ after' = [after EXCEPT ![r][k] = new]
          /\ meta'  = [meta EXCEPT ![i] = Broken]
          /\ UNCHANGED <<pc, chunk, opened>>
      BY <1>5 DEF JobLock
    <2>2. /\ mpath # None /\ i = mpath /\ meta[i] \in Contents /\ ~Finished(mpath)
          /\ meta[i][c] = IF k = "claim" THEN "NotStarted" ELSE "Ongoing"
          /\ \A q \in Puts, j \in JobKinds : stage[q][j] # "write"
      BY <1>1, <1>5, LockedMeta
    <2>3. k # "claim" => Claims(r)
      BY <1>1, BeforeGivingBack DEF JobKinds
    <2>4. \A q \in Puts, j \in JobKinds : stage'[q][j] = "write" <=> q = r /\ j = k
      BY <2>1, <2>2 DEF TypeInv, JobTypes
    <2>5. \A q \in Puts, j \in JobKinds : stage'[q][j] = "none" <=> stage[q][j] = "none"
      BY <1>1, <2>1 DEF TypeInv, JobTypes
    <2>6. {"claim", "fail", "complete", "reset"} = JobKinds
      BY DEF JobKinds
    <2>7. /\ \A q \in Puts : ~GivesBack(q)
          /\ \A q \in Puts : Claims(q)' <=> Claims(q) \/ (q = r /\ k = "claim")
          /\ k # "claim" => GivesBack(r)'
      BY <2>1, <2>2, <2>4, <2>5, <2>6 DEF Claims, GivesBack
    <2>8. \A q \in Puts : Claims(q) => meta[mpath][chunk[q]] = "Ongoing"
      BY <1>5, <2>2, <2>7 DEF SerialInv, ClaimIsMarked
    <2>9. \A q \in Puts : Claims(q) /\ q # r => chunk[q] # c
      BY <2>2, <2>3, <2>8 DEF SerialInv, OneClaim
    <2>10. OneClaim'
      BY <2>1, <2>7, <2>9 DEF SerialInv, OneClaim
    <2>11. \A d \in Chunks : d # c => new[d] = meta[i][d]
      BY <1>1, <2>2 DEF Updated, Contents, JobKinds
    <2>12. after'[r][k] = new /\ meta'[mpath] = Broken
      BY <1>1, <2>1, <2>2 DEF TypeInv, JobTypes, StoreTypes
    <2>13. ClaimIsMarked'
      <3> SUFFICES ASSUME NEW q \in Puts, Claims(q)', ~GivesBack(q)'
                   PROVE  after'[r][k][chunk[q]] = "Ongoing"
        BY <1>1, <2>1, <2>2, <2>4, <2>12 DEF ClaimIsMarked
      <3>1. CASE q # r
        <4>1. Claims(q) /\ chunk[q] # c /\ meta[i][chunk[q]] = "Ongoing"
          BY <2>2, <2>7, <2>8, <2>9, <3>1
        <4>2. chunk[q] \in Chunks
          BY <4>1, <2>6 DEF Claims, TypeInv, Closures, Requests
        <4> QED
          BY <2>11, <2>12, <4>1, <4>2
      <3>2. CASE q = r
        <4>1. k = "claim"
          BY <2>7, <3>2
        <4> QED
          BY <1>1, <2>2, <2>12, <3>2, <4>1 DEF Updated, Contents
      <3> QED
        BY <3>1, <3>2
    <2>14. Attached' /\ OneJobWrites' /\ WriterTruncates'
      BY <1>1, <2>1, <2>2, <2>4, <2>5, <2>6, <2>12
      DEF SerialInv, Attached, OneJobWrites, WriterTruncates
    <2>15. OpenedHere' /\ Unlinked'
      BY <1>1, <2>1, <2>2 DEF SerialInv, OpenedHere, Unlinked
    <2>16. BootQuiet' /\ PostAlone'
      BY <1>1, BusyJob, BusyPut DEF SerialInv, BootQuiet, PostAlone
    <2>17. SeenFinished'
      BY <1>1, <2>1, <2>2 DEF SerialInv, SeenFinished
    <2> QED
      BY <2>10, <2>13, <2>14, <2>15, <2>16, <2>17 DEF SerialInv
  <1> QED
    BY <1>3, <1>4, <1>5

LEMMA JobWriteSerial ==
  ASSUME TypeInv, SerialInv, NEW r \in Puts, NEW k \in JobKinds, JobWrite(r, k)
  PROVE  SerialInv'
  <1>a. /\ stage[r][k] = "write"
        /\ UNCHANGED <<phase, mpath, ppc, pinode>>
    BY DEF JobWrite, postVars, dirVars
  <1>b. opened[r][k] \in MetaIds
    BY <1>a DEF TypeInv, JobTypes, Closures
  <1>c. TypeInv'
    BY JobWriteTypes
  <1>d. EndJob(r, k, TRUE)
    BY DEF JobWrite
  <1>e. EndJobEffects(r, k, TRUE) /\ EndJobClaimed(r, k, TRUE)
    BY <1>a, <1>c, <1>d, EndJobEffect, EndJobClaims
  <1> USE <1>e DEF EndJobEffects, EndJobClaimed
  <1>1. /\ stage[r][k] = "write" /\ opened[r][k] \in MetaIds
        /\ UNCHANGED <<phase, mpath, ppc, pinode>>
    BY <1>a, <1>b
  <1>2. mpath # None /\ meta[mpath] = Broken /\ opened[r][k] = mpath
    BY <1>1, NoneAssumption DEF SerialInv, WriterTruncates, OpenedHere
  <1>4. meta'[mpath] = after[r][k]
    BY <1>1, <1>2 DEF JobWrite, TypeInv, StoreTypes
  <1>5. \A q \in Puts, j \in JobKinds : stage[q][j] = "write" => q = r /\ j = k
    BY <1>1 DEF SerialInv, OneJobWrites
  <1>6. \A q \in Puts, j \in JobKinds : stage'[q][j] # "write"
    BY <1>1, <1>5
  <1>7. {"claim", "fail", "complete", "reset"} = JobKinds
    BY DEF JobKinds
  <1>8. k = "claim" => Claims(r) /\ ~GivesBack(r)
    BY <1>1, <1>5 DEF Claims, GivesBack, JobKinds
  <1>9. k # "claim" => ~Claims(r)'
    <2> SUFFICES ASSUME k # "claim" PROVE ~Claims(r)'
      OBVIOUS
    <2>1. pc'[r] \in {"idle", "check"} /\ stage'[r]["claim"] # "write"
      BY <1>1, <1>6, <1>7
    <2>2. stage'[r]["reset"] = "none"
      <3>1. CASE k = "reset"
        BY <1>1, <3>1
      <3>2. CASE k # "reset"
        <4>1. pc[r] = k
          BY <1>1, <1>7, <3>2 DEF SerialInv, Attached
        <4>2. stage[r]["reset"] = "none"
          BY <1>7, <3>2, <4>1 DEF TypeInv, Closures
        <4> QED
          BY <1>1, <1>7, <3>2, <4>2
      <3> QED
        BY <3>1, <3>2
    <2> QED
      BY <2>1, <2>2 DEF Claims
  <1>10. \A q \in Puts : Claims(q)' => Claims(q) /\ ~GivesBack(q) /\ chunk'[q] = chunk[q]
    <2>1. \A q \in Puts : q # r => ~GivesBack(q)
      BY <1>5, <1>7 DEF GivesBack
    <2> QED
      BY <1>1, <1>8, <1>9, <2>1
  <1>11. OneClaim'
    BY <1>10 DEF SerialInv, OneClaim
  <1>12. ClaimIsMarked'
    BY <1>1, <1>2, <1>4, <1>6, <1>10 DEF SerialInv, ClaimIsMarked
  <1>13. OpenedHere' /\ Unlinked'
    BY <1>1, <1>2 DEF SerialInv, OpenedHere, Unlinked
  <1>14. OneJobWrites' /\ WriterTruncates'
    BY <1>6 DEF OneJobWrites, WriterTruncates
  <1>15. BootQuiet' /\ PostAlone'
    BY <1>1, BusyJob, BusyPut DEF SerialInv, BootQuiet, PostAlone
  <1>16. SeenFinished'
    BY <1>1, <1>2 DEF SerialInv, SeenFinished, Finished
  <1> QED
    BY <1>1, <1>11, <1>12, <1>13, <1>14, <1>15, <1>16 DEF SerialInv

LEMMA JobFailsSerial ==
  ASSUME TypeInv, SerialInv, NEW r \in Puts, NEW k \in JobKinds,
         JobFails(r, k) \/ JobWriteFails(r, k)
  PROVE  SerialInv'
  <1>1. /\ stage[r][k] # "none" /\ EndJob(r, k, FALSE)
        /\ UNCHANGED <<phase, mpath, meta, ppc, pinode>>
    BY DEF JobFails, JobWriteFails, postVars, dirVars
  <1> QED
    BY <1>1, JobWriteTypes, EndJobSerial

(* Steps of a request that leave the meta alone: it makes no claim, and what *)
(* it starts is at its very beginning.                                       *)
Quietly(r) ==
  /\ UNCHANGED <<phase, opened, after, mpath, meta, ppc, pinode>>
  /\ \A q \in Puts : q # r => pc'[q] = pc[q] /\ chunk'[q] = chunk[q]
  /\ \A q \in Puts, k \in JobKinds :
       \/ stage'[q][k] = stage[q][k]
       \/ q = r /\ stage[q][k] = "none" /\ stage'[q][k] = "open"
  /\ \A k \in {"fail", "complete"} : stage'[r][k] # "none" => pc'[r] = k
  /\ Claims(r)' => Claims(r) /\ chunk'[r] = chunk[r]
  /\ pc'[r] \in {"rename", "remove"} => mpath = None \/ Finished(mpath)
  /\ phase = "up" /\ \A p \in Posts : ppc[p] \notin {"write", "fill"}

LEMMA QuietlySerial ==
  ASSUME TypeInv, SerialInv, NEW r \in Puts, Quietly(r)
  PROVE  SerialInv'
  <1> USE DEF Quietly
  <1>1. {"claim", "fail", "complete", "reset"} = JobKinds
    BY DEF JobKinds
  <1>2. \A q \in Puts, k \in JobKinds : stage'[q][k] = "write" <=> stage[q][k] = "write"
    OBVIOUS
  <1>3. \A q \in Puts : q # r => \A k \in JobKinds : stage'[q][k] = stage[q][k]
    OBVIOUS
  <1>4. \A q \in Puts : GivesBack(q)' <=> GivesBack(q)
    BY <1>1, <1>2 DEF GivesBack
  <1>5. \A q \in Puts : Claims(q)' => Claims(q) /\ chunk'[q] = chunk[q]
    BY <1>1, <1>3 DEF Claims
  <1>6. Attached'
    BY <1>1, <1>3 DEF SerialInv, Attached
  <1>7. BootQuiet' /\ PostAlone'
    BY DEF SerialInv, BootQuiet, PostAlone
  <1>8. OpenedHere' /\ Unlinked'
    BY DEF SerialInv, OpenedHere, Unlinked, Finished
  <1>9. OneJobWrites' /\ WriterTruncates'
    BY <1>2 DEF SerialInv, OneJobWrites, WriterTruncates
  <1>10. SeenFinished'
    BY DEF SerialInv, SeenFinished, Finished
  <1>11. OneClaim'
    BY <1>5 DEF SerialInv, OneClaim
  <1>12. ClaimIsMarked'
    BY <1>2, <1>4, <1>5 DEF SerialInv, ClaimIsMarked
  <1> QED
    BY <1>6, <1>7, <1>8, <1>9, <1>10, <1>11, <1>12 DEF SerialInv

LEMMA PutBeginSerial ==
  ASSUME TypeInv, SerialInv, NEW r \in Puts, NEW c \in Chunks, PutBegin(r, c)
  PROVE  SerialInv'
  <1>1. /\ UNCHANGED <<phase, opened, after, mpath, meta, ppc, pinode>>
        /\ phase = "up" /\ mpath # None /\ meta[mpath] # Broken
        /\ pc'    = [pc EXCEPT ![r] = "claim"]
        /\ chunk' = [chunk EXCEPT ![r] = c]
        /\ stage' = [stage EXCEPT ![r]["claim"] = "open"]
        /\ \A k \in JobKinds : stage[r][k] = "none"
    BY DEF PutBegin, Idle, Spent, StartJob, postVars, dirVars
  <1>2. {"claim", "fail", "complete", "reset"} = JobKinds
    BY DEF JobKinds
  <1>3. \A p \in Posts : ppc[p] \notin {"write", "fill"}
    BY <1>1 DEF SerialInv, PostAlone
  <1>4. ~Claims(r)'
    BY <1>1, <1>2 DEF Claims, TypeInv, JobTypes
  <1>5. \A k \in {"fail", "complete"} : stage'[r][k] = "none"
    BY <1>1, <1>2 DEF TypeInv, JobTypes
  <1>6. \A q \in Puts, k \in JobKinds :
          \/ stage'[q][k] = stage[q][k]
          \/ q = r /\ stage[q][k] = "none" /\ stage'[q][k] = "open"
    BY <1>1 DEF TypeInv, JobTypes
  <1>7. Quietly(r)
    BY <1>1, <1>3, <1>4, <1>5, <1>6 DEF Quietly, TypeInv, JobTypes
  <1> QED
    BY <1>7, QuietlySerial

LEMMA PutStreamSerial ==
  ASSUME TypeInv, SerialInv, NEW r \in Puts, PutOpen(r) \/ PutWrite(r) \/ PutBodyFails(r)
  PROVE  SerialInv'
  <1>1. /\ UNCHANGED <<phase, chunk, opened, after, mpath, meta, ppc, pinode>>
        /\ pc[r] \in {"open", "stream"}
    BY DEF PutOpen, PutWrite, PutBodyFails, postVars, dirVars
  <1>2. \/ pc' = [pc EXCEPT ![r] = "idle"] /\ StartJob(r, "reset")
        \/ pc' = [pc EXCEPT ![r] = "stream"] /\ UNCHANGED stage
        \/ pc' = [pc EXCEPT ![r] = "complete"] /\ StartJob(r, "complete")
        \/ pc' = [pc EXCEPT ![r] = "fail"] /\ StartJob(r, "fail")
    BY DEF PutOpen, PutWrite, PutBodyFails
  <1>3. {"claim", "fail", "complete", "reset"} = JobKinds
    BY DEF JobKinds
  <1>4. \A k \in JobKinds : stage[r][k] = "none"
    BY <1>1, <1>3, Alone DEF Spent
  <1>5. phase = "up" /\ \A p \in Posts : ppc[p] \notin {"write", "fill"}
    BY <1>1, BusyPut DEF Idle, TypeInv, StoreTypes
  <1>6. \A q \in Puts, k \in JobKinds :
          \/ stage'[q][k] = stage[q][k]
          \/ q = r /\ stage[q][k] = "none" /\ stage'[q][k] = "open"
    BY <1>2, <1>3, <1>4 DEF TypeInv, JobTypes, StartJob
  <1>7. \A k \in {"fail", "complete"} : stage'[r][k] # "none" => pc'[r] = k
    BY <1>2, <1>3, <1>4 DEF TypeInv, JobTypes, StartJob
  <1>8. Claims(r)
    BY <1>1 DEF Claims
  <1>9. /\ \A q \in Puts : q # r => pc'[q] = pc[q]
        /\ pc'[r] \notin {"rename", "remove"}
    BY <1>2 DEF TypeInv, JobTypes
  <1>10. Quietly(r)
    BY <1>1, <1>5, <1>6, <1>7, <1>8, <1>9 DEF Quietly
  <1> QED
    BY <1>10, QuietlySerial

LEMMA PutDroppedSerial ==
  ASSUME TypeInv, SerialInv, SerialRun, NEW r \in Puts, PutDropped(r)
  PROVE  SerialInv'
  <1>1. /\ UNCHANGED <<phase, opened, after, mpath, meta, ppc, pinode>>
        /\ pc' = [pc EXCEPT ![r] = "idle"]
        /\ pc[r] \notin {"idle", "fail", "complete"}
    BY DEF PutDropped, Droppable, Strike, SerialRun, postVars, dirVars
  <1>2. {"claim", "fail", "complete", "reset"} = JobKinds
    BY DEF JobKinds
  <1>3. \A k \in {"fail", "complete", "reset"} : stage[r][k] = "none"
    <2>1. pc[r] # "reset"
      BY DEF TypeInv, JobTypes, PutPc
    <2> QED
      BY <1>1, <1>2, <2>1 DEF TypeInv, Closures
  <1>4. pc[r] # "claim" => \A k \in JobKinds : stage[r][k] = "none"
    <2>1. pc[r] # "reset"
      BY DEF TypeInv, JobTypes, PutPc
    <2> QED
      BY <1>1, <1>2, <2>1, Alone DEF Spent
  <1>5. \/ pc[r] \in {"open", "stream"} /\ StartJob(r, "reset") /\ UNCHANGED chunk
        \/ pc[r] \notin {"open", "stream"} /\ UNCHANGED stage
    BY <1>1 DEF PutDropped, Guarded
  <1>6. phase = "up" /\ \A p \in Posts : ppc[p] \notin {"write", "fill"}
    BY <1>1, BusyPut DEF Idle, TypeInv, StoreTypes
  <1>7. /\ \A q \in Puts : q # r => pc'[q] = pc[q] /\ chunk'[q] = chunk[q]
        /\ pc'[r] = "idle"
        /\ pc[r] = "claim" => chunk'[r] = chunk[r]
    BY <1>1 DEF PutDropped, TypeInv, JobTypes
  <1>8. \A q \in Puts, k \in JobKinds :
          \/ stage'[q][k] = stage[q][k]
          \/ q = r /\ stage[q][k] = "none" /\ stage'[q][k] = "open"
    BY <1>2, <1>3, <1>5 DEF TypeInv, JobTypes, StartJob
  <1>9. \A k \in {"fail", "complete"} : stage'[r][k] = "none"
    BY <1>2, <1>3, <1>5 DEF TypeInv, JobTypes, StartJob
  <1>10. Claims(r)' => Claims(r) /\ chunk'[r] = chunk[r]
    <2>1. CASE pc[r] \in {"open", "stream"}
      BY <1>5, <2>1 DEF Claims
    <2>2. CASE pc[r] \notin {"open", "stream"}
      BY <1>2, <1>3, <1>4, <1>5, <1>7, <2>2 DEF Claims
    <2> QED
      BY <2>1, <2>2
  <1>11. Quietly(r)
    BY <1>1, <1>6, <1>7, <1>8, <1>9, <1>10 DEF Quietly
  <1> QED
    BY <1>11, QuietlySerial

(* Steps after which nothing runs: the invariant is that of the POSTs.       *)
LEMMA IdleSerial ==
  ASSUME TypeInv', BootQuiet', PostAlone', \A r \in Puts : Idle(r)'
  PROVE  SerialInv'
  <1>1. {"claim", "fail", "complete", "reset"} = JobKinds
    BY DEF JobKinds
  <1>2. \A r \in Puts, k \in JobKinds : stage'[r][k] = "none" /\ opened'[r][k] = None
    BY DEF Idle, Spent, TypeInv, Closures
  <1>3. \A r \in Puts : pc'[r] = "idle"
    BY DEF Idle
  <1>4. Attached' /\ OpenedHere' /\ OneJobWrites' /\ WriterTruncates' /\ Unlinked'
    BY <1>1, <1>2 DEF Attached, OpenedHere, OneJobWrites, WriterTruncates, Unlinked
  <1>5. SeenFinished'
    BY <1>3 DEF SeenFinished
  <1>6. \A r \in Puts : ~Claims(r)'
    BY <1>1, <1>2, <1>3 DEF Claims
  <1> QED
    BY <1>4, <1>5, <1>6 DEF SerialInv, OneClaim, ClaimIsMarked

LEMMA DieSerial ==
  ASSUME Die, TypeInv'
  PROVE  SerialInv'
  <1>1. \A r \in Puts : Idle(r)'
    BY DEF Die, Idle, Spent, NoJobs
  <1>2. \A p \in Posts : ppc'[p] = "idle"
    BY DEF Die
  <1> QED
    BY <1>1, <1>2, IdleSerial DEF BootQuiet, Quiet, PostAlone

(* Nobody has a claim in a finished meta, so nobody writes the file it is of. *)
LEMMA FinishedUnclaimed ==
  ASSUME TypeInv, SerialInv, mpath # None, Finished(mpath), NEW q \in Puts
  PROVE  ~Claims(q)
  <1> SUFFICES ASSUME Claims(q) PROVE FALSE
    OBVIOUS
  <1>1. {"claim", "fail", "complete", "reset"} = JobKinds
    BY DEF JobKinds
  <1>2. chunk[q] \in Chunks
    BY <1>1 DEF Claims, TypeInv, Closures, Requests
  <1>3. ~GivesBack(q)
    BY <1>1 DEF SerialInv, WriterTruncates, Finished, GivesBack
  <1>4. meta[mpath][chunk[q]] = "Ongoing"
    BY <1>3 DEF SerialInv, ClaimIsMarked, Finished
  <1> QED
    BY <1>2, <1>4 DEF Finished, AllCompleted

LEMMA PutFinishSerial ==
  ASSUME TypeInv, SerialInv, NEW r \in Puts, PutCheck(r) \/ PutRename(r) \/ PutRemove(r)
  PROVE  SerialInv'
  <1>1. TypeInv'
    BY PutFinishTypes
  <1>2. CASE PutCheck(r) /\ mpath = None
    BY <1>1, <1>2, DieSerial DEF PutCheck
  <1>3. CASE ~(PutCheck(r) /\ mpath = None)
    <2>1. /\ pc[r] \in {"check", "rename", "remove"}
          /\ UNCHANGED <<phase, stage, opened, after, meta, ppc, pinode>>
          /\ \A q \in Puts : q # r => pc'[q] = pc[q] /\ chunk'[q] = chunk[q]
          /\ pc'[r] \in {"idle", "rename", "remove"}
      BY <1>3 DEF PutCheck, Conclude, PutRename, PutRemove, TypeInv, JobTypes, jobVars, postVars
    <2>2. {"claim", "fail", "complete", "reset"} = JobKinds
      BY DEF JobKinds
    <2>3. \A k \in JobKinds : stage[r][k] = "none"
      BY <2>1, <2>2, Alone DEF Spent
    <2>4. phase = "up" /\ \A p \in Posts : ppc[p] \notin {"write", "fill"}
      BY <2>1, BusyPut DEF Idle, TypeInv, StoreTypes
    <2>5. ~Claims(r)' /\ \A k \in {"fail", "complete"} : stage'[r][k] = "none"
      BY <2>1, <2>2, <2>3 DEF Claims
    <2>6. pc'[r] \in {"rename", "remove"} => mpath = None \/ Finished(mpath)
      BY <1>3 DEF PutCheck, Conclude, PutRename, PutRemove, SerialInv, SeenFinished, Finished,
                  TypeInv, JobTypes
    <2>7. CASE mpath' = mpath
      <3>1. Quietly(r)
        BY <2>1, <2>4, <2>5, <2>6, <2>7 DEF Quietly
      <3> QED
        BY <3>1, QuietlySerial
    <2>8. CASE mpath' # mpath
      <3>1. pc[r] = "remove" /\ mpath' = None /\ Finished(mpath)
        BY <1>3, <2>8 DEF PutCheck, PutRename, PutRemove, dirVars, SerialInv, SeenFinished
      <3>2. \A q \in Puts, k \in JobKinds : stage[q][k] # "write"
        BY <3>1 DEF SerialInv, WriterTruncates, Finished
      <3>3. \A q \in Puts : ~Claims(q)
        BY <2>8, <3>1, FinishedUnclaimed
      <3>4. \A q \in Puts : ~Claims(q)'
        BY <2>1, <2>5, <3>3 DEF Claims
      <3>5. OneClaim' /\ ClaimIsMarked'
        BY <3>4 DEF OneClaim, ClaimIsMarked
      <3>6. Attached'
        BY <2>1, <2>5 DEF SerialInv, Attached
      <3>7. OpenedHere' /\ Unlinked'
        BY <2>1, <3>1 DEF SerialInv, OpenedHere, Unlinked, Finished
      <3>8. OneJobWrites' /\ WriterTruncates'
        BY <2>1, <3>2 DEF OneJobWrites, WriterTruncates
      <3>9. BootQuiet' /\ PostAlone' /\ SeenFinished'
        BY <2>1, <2>4, <3>1 DEF SerialInv, BootQuiet, PostAlone, SeenFinished
      <3> QED
        BY <3>5, <3>6, <3>7, <3>8, <3>9 DEF SerialInv
    <2> QED
      BY <2>7, <2>8
  <1> QED
    BY <1>2, <1>3

LEMMA PostCreateSerial ==
  ASSUME TypeInv, SerialInv, NEW p \in Posts, PostCreate(p) \/ PostDropped(p)
  PROVE  SerialInv'
  <1>1. /\ UNCHANGED <<phase, pc, chunk, stage, opened, after, mpath, meta, pinode>>
        /\ ppc' = [ppc EXCEPT ![p] = "idle"] /\ ppc[p] = "create"
    BY DEF PostCreate, PostDropped, putVars, jobVars, dirVars
  <1>2. BootQuiet' /\ PostAlone'
    BY <1>1 DEF SerialInv, BootQuiet, Quiet, PostAlone, Idle, Spent, TypeInv, StoreTypes
  <1>3. Attached' /\ OpenedHere' /\ OneJobWrites' /\ WriterTruncates' /\ Unlinked' /\ SeenFinished'
    BY <1>1 DEF SerialInv, Attached, OpenedHere, OneJobWrites, WriterTruncates, Unlinked,
                SeenFinished, Finished
  <1>4. OneClaim' /\ ClaimIsMarked'
    BY <1>1 DEF SerialInv, OneClaim, ClaimIsMarked, Claims, GivesBack
  <1> QED
    BY <1>2, <1>3, <1>4 DEF SerialInv

LEMMA PostMetaSerial ==
  ASSUME TypeInv, SerialInv, SerialRun, NEW p \in Posts,
         PostBegin(p) \/ PostTruncate(p) \/ PostFill(p)
  PROVE  SerialInv'
  <1>1. TypeInv'
    BY PostTypes DEF PostStep
  <1>2. UNCHANGED <<phase, pc, chunk, stage, opened, after>>
    BY DEF PostBegin, PostTruncate, PostFill, putVars, jobVars
  <1>3. \A r \in Puts : Idle(r)
    BY DEF PostBegin, PostTruncate, PostFill, SerialInv, PostAlone, SerialRun, Quiet
  <1>4. \A r \in Puts : Idle(r)'
    BY <1>2, <1>3 DEF Idle, Spent
  <1>5. phase # "boot"
    BY DEF PostBegin, PostTruncate, PostFill, SerialInv, BootQuiet, Quiet
  <1>6. /\ \E to \in {"write", "fill", "create"} : ppc' = [ppc EXCEPT ![p] = to]
        /\ \A q \in Posts : q # p => ppc[q] = "idle"
    BY DEF PostBegin, PostTruncate, PostFill, SerialInv, PostAlone, SerialRun, Quiet
  <1>7. /\ ppc'[p] = "write" => mpath' = None
        /\ ppc'[p] = "fill"  => mpath' = pinode'[p] /\ meta'[mpath'] = Broken
    <2>1. CASE PostBegin(p)
      BY <2>1 DEF PostBegin, dirVars, TypeInv, StoreTypes
    <2>2. CASE PostTruncate(p)
      <3>1. PICK i \in MetaIds : /\ mpath' = i /\ pinode' = [pinode EXCEPT ![p] = i]
                                 /\ meta' = [meta EXCEPT ![i] = Broken]
        BY <2>2 DEF PostTruncate, SerialInv, PostAlone, FreeMeta
      <3> QED
        BY <2>2, <3>1 DEF PostTruncate, TypeInv, StoreTypes
    <2>3. CASE PostFill(p)
      BY <2>3 DEF PostFill, TypeInv, StoreTypes
    <2> QED
      BY <2>1, <2>2, <2>3
  <1>8. PostAlone'
    BY <1>4, <1>6, <1>7 DEF PostAlone, TypeInv, StoreTypes
  <1> QED
    BY <1>1, <1>2, <1>4, <1>5, <1>8, IdleSerial DEF BootQuiet

\* A meta that a POST cannot fill stays broken, and nothing runs.
LEMMA PostFillFailsSerial ==
  ASSUME TypeInv, SerialInv, NEW p \in Posts, PostFillFails(p)
  PROVE  SerialInv'
  <1>1. TypeInv'
    BY PostTypes
  <1>2. /\ UNCHANGED <<phase, pc, stage>> /\ ppc[p] = "fill"
        /\ ppc' = [ppc EXCEPT ![p] = "idle"]
    BY DEF PostFillFails, putVars, jobVars
  <1>3. /\ \A q \in Posts : q # p => ppc[q] = "idle"
        /\ \A r \in Puts : Idle(r)
    BY <1>2 DEF SerialInv, PostAlone
  <1>4. /\ \A q \in Posts : ppc'[q] = "idle"
        /\ \A r \in Puts : Idle(r)'
    BY <1>2, <1>3 DEF Idle, Spent, TypeInv, StoreTypes
  <1> QED
    BY <1>1, <1>4, IdleSerial DEF BootQuiet, Quiet, PostAlone

LEMMA ScanSerial ==
  ASSUME TypeInv, SerialInv, Scan \/ ScanFails \/ ScanSkips
  PROVE  SerialInv'
  <1>1. TypeInv'
    BY ScanTypes
  <1>2. UNCHANGED <<pc, stage, ppc>> /\ Quiet
    BY DEF Scan, ScanFails, ScanSkips, SerialInv, BootQuiet, putVars, jobVars, postVars
  <1>3. \A r \in Puts : Idle(r)'
    BY <1>2 DEF Quiet, Idle, Spent
  <1>4. BootQuiet' /\ PostAlone'
    BY <1>2, <1>3 DEF Quiet, BootQuiet, PostAlone
  <1> QED
    BY <1>1, <1>3, <1>4, IdleSerial

LEMMA StepSerialInv == SerialRun /\ TypeInv /\ SerialInv /\ [Next]_vars => SerialInv'
  <1> SUFFICES ASSUME SerialRun, TypeInv, SerialInv, [Next]_vars PROVE SerialInv'
    OBVIOUS
  <1>1. CASE UNCHANGED vars
    BY <1>1 DEF vars, putVars, jobVars, postVars, dirVars, SerialInv, Attached, BootQuiet,
       OpenedHere, OneJobWrites, WriterTruncates, Unlinked, PostAlone, SeenFinished, OneClaim,
       ClaimIsMarked, Claims, GivesBack, Finished, Quiet, Idle, Spent
  <1>2. CASE Crash
    BY <1>2, CrashTypes, DieSerial DEF Crash
  <1>3. CASE Next /\ ~Crash
    BY <1>3, PutBeginSerial, PutStreamSerial, PutFinishSerial, PutDroppedSerial, ReadAtOnce,
       JobOpenSerial, JobLockSerial, JobWriteSerial, JobFailsSerial,
       PostMetaSerial, PostCreateSerial, PostFillFailsSerial, ScanSerial
    DEF SerialRun, Next, PutStep, JobStep, PostStep
  <1> QED
    BY <1>1, <1>2, <1>3

(* Two requests never write the same chunk at the same time, however many    *)
(* there are and whatever else fails: the claim that put makes under the     *)
(* lock of update_meta_file keeps its promise when uploads are created one   *)
(* at a time, a meta fits the buffer it is read through, and no request is   *)
(* dropped while it gives its chunk back or completes it.                    *)
THEOREM OneWriterPerChunkTheorem == SerialRun /\ Spec => []OneWriterPerChunk
  <1> SUFFICES ASSUME SerialRun PROVE Spec => []OneWriterPerChunk
    OBVIOUS
  <1>1. SerialInv => OneWriterPerChunk
    BY DEF SerialInv, OneClaim, OneWriterPerChunk, Writing, Claims
  <1>2. TypeInv /\ SerialInv /\ [Next]_vars => SerialInv'
    BY StepSerialInv
  <1> QED
    BY <1>1, <1>2, InitSerialInv, TypeInvAlways, PTL DEF Spec
=============================================================================
