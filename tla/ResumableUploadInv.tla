-------------------------- MODULE ResumableUploadInv --------------------------
(***************************************************************************)
(* The inductive invariants behind the theorems of ResumableUploadProofs,  *)
(* apart from the proofs so that TLC can check them first.                 *)
(***************************************************************************)
EXTENDS ResumableUpload

(* Types, and the discipline of requests and closures they depend on.      *)

JobTypes ==
  /\ pc      \in [Puts -> PutPc]
  /\ chunk   \in [Puts -> Chunks \cup {None}]
  /\ stage   \in [Puts -> [JobKinds -> Stages]]
  /\ opened  \in [Puts -> [JobKinds -> MetaIds \cup {None}]]
  /\ after   \in [Puts -> [JobKinds -> Contents \cup {None}]]

StoreTypes ==
  /\ phase   \in {"up", "boot"}
  /\ handle  \in [Puts -> FileIds \cup {None}]
  /\ head    \in [Puts -> Heads]
  /\ ppc     \in [Posts -> PostPc]
  /\ pinode  \in [Posts -> MetaIds \cup {None}]
  /\ mpath   \in MetaIds \cup {None}
  /\ upath   \in FileIds \cup {None}
  /\ fpath   \in FileIds \cup {None}
  /\ meta    \in [MetaIds -> Contents \cup {Broken}]
  /\ written \in [FileIds -> SUBSET Chunks]
  /\ faults  \in 0 .. MaxFaults

\* A closure works for its chunk, and for a request that awaits it or is gone.
\* It has an inode open from its open on, and bytes to write at its write.
Closures ==
  \A r \in Puts, k \in JobKinds :
    /\ stage[r][k] # "none" => chunk[r] \in Chunks /\ pc[r] \in {k, "idle"}
    /\ stage[r][k] \in {"lock", "write"} <=> opened[r][k] # None
    /\ stage[r][k] = "write" => after[r][k] \in Contents

\* A request has its chunk; one that awaits a closure has it running.
Requests ==
  \A r \in Puts :
    /\ pc[r] # "idle" => chunk[r] \in Chunks
    /\ pc[r] \in JobKinds => stage[r][pc[r]] # "none"
    /\ pc[r] = "stream" => handle[r] \in FileIds

Fills == \A p \in Posts : ppc[p] = "fill" => pinode[p] \in MetaIds

TypeInv == JobTypes /\ StoreTypes /\ Closures /\ Requests /\ Fills

-----------------------------------------------------------------------------
(* What holds when an upload is only created while nothing else runs, its   *)
(* meta is read at once, and no request is dropped while a closure of it is *)
(* giving its chunk back or completing it: one claim to a chunk, and the    *)
(* meta says so.                                                            *)

SerialRun == SerialCreate /\ ~LongMeta /\ Faults \cap {"fail", "complete"} = {}

\* The closures that end a claim belong to a request that awaits them.
Attached ==
  \A r \in Puts, k \in {"fail", "complete"} : stage[r][k] # "none" => pc[r] = k

BootQuiet == phase = "boot" => Quiet

\* While the meta has its name, no closure has another inode open.
OpenedHere ==
  \A r \in Puts, k \in JobKinds :
    opened[r][k] # None /\ mpath # None => opened[r][k] = mpath

\* One closure writes at a time, and until it has, the meta is empty.
OneJobWrites ==
  \A r, s \in Puts, k, l \in JobKinds :
    stage[r][k] = "write" /\ stage[s][l] = "write" => r = s /\ k = l

WriterTruncates ==
  \A r \in Puts, k \in JobKinds :
    stage[r][k] = "write" => mpath # None /\ meta[mpath] = Broken

Finished(i) == meta[i] # Broken /\ AllCompleted(meta[i])

\* A meta loses its name when its upload is finished.
Unlinked ==
  \A r \in Puts, k \in JobKinds :
    mpath = None /\ opened[r][k] # None => Finished(opened[r][k])

\* A POST that has not written its meta yet is alone.
PostAlone ==
  /\ \A p \in Posts : ppc[p] \in {"write", "fill"} => \A r \in Puts : Idle(r)
  /\ \A p \in Posts : ppc[p] = "write" => mpath = None
  /\ \A p \in Posts : ppc[p] = "fill"  => mpath = pinode[p] /\ meta[mpath] = Broken
  /\ \A p, q \in Posts : ppc[p] # "idle" /\ ppc[q] # "idle" => p = q

\* Who has seen the last chunk completed was right, and still is.
SeenFinished ==
  \A r \in Puts : pc[r] \in {"rename", "remove"} => mpath = None \/ Finished(mpath)

\* r has a claim to its chunk: made, and not yet given back.
Claims(r) == \/ stage[r]["claim"] = "write"
             \/ pc[r] \in {"open", "stream", "fail", "complete"}
             \/ stage[r]["reset"] # "none"

GivesBack(r) == \E k \in {"fail", "complete", "reset"} : stage[r][k] = "write"

OneClaim == \A r, s \in Puts : Claims(r) /\ Claims(s) /\ chunk[r] = chunk[s] => r = s

\* Whatever is in the meta, or about to be, says Ongoing for a claimed chunk.
ClaimIsMarked ==
  \A r \in Puts : Claims(r) /\ ~GivesBack(r) =>
    /\ mpath # None
    /\ meta[mpath] # Broken => meta[mpath][chunk[r]] = "Ongoing"
    /\ \A s \in Puts, l \in JobKinds :
         stage[s][l] = "write" => after[s][l][chunk[r]] = "Ongoing"

SerialInv ==
  /\ Attached /\ BootQuiet /\ OpenedHere /\ OneJobWrites /\ WriterTruncates
  /\ Unlinked /\ PostAlone /\ SeenFinished /\ OneClaim /\ ClaimIsMarked

-----------------------------------------------------------------------------
(* What the upload file holds, in such a run.                               *)

\* The meta, or a closure about to write it, calls chunk c Completed.
Says(c) ==
  /\ mpath # None
  /\ \/ meta[mpath] # Broken /\ meta[mpath][c] = "Completed"
     \/ \E r \in Puts, k \in JobKinds : stage[r][k] = "write" /\ after[r][k][c] = "Completed"

\* The awaits of a request that has had the upload file open.
PastOpen == {"stream", "complete", "check", "rename", "remove"}

\* An upload without its file: nothing is stored, and no request thinks it is.
Untouched ==
  /\ \A c \in Chunks : ~Says(c)
  /\ \A r \in Puts : pc[r] \notin PastOpen

SaidIsStored ==
  upath # None => mpath # None /\ \A c \in Chunks : Says(c) => c \in written[upath]

FileIsMissing ==
  upath = None /\ mpath # None => Untouched \/ (Finished(mpath) /\ fpath # None)

\* A request writes the file that has the name; what it has written is there.
WritesTheFile ==
  \A r \in Puts :
    /\ pc[r] = "stream"   => upath # None /\ handle[r] = upath
    /\ pc[r] = "complete" => upath # None /\ chunk[r] \in written[upath]
    /\ pc[r] = "remove"   => upath = None

FileIsToCome ==
  \A p \in Posts :
    /\ ppc[p] # "idle"   => upath = None
    /\ ppc[p] = "create" => mpath # None /\ Untouched

StoredInv ==
  SaidIsStored /\ FileIsMissing /\ WritesTheFile /\ FileIsToCome /\ PublishedIsComplete

-----------------------------------------------------------------------------
(* Who finishes an upload, in such a run without a crash or a request that  *)
(* is dropped once its chunk is completed.                                  *)

NoOneLeaves == SerialRun /\ Faults \cap {"check", "remove", "crash"} = {}

\* A closure is about to write what it stands for.
WritesItsStatus ==
  \A r \in Puts, k \in JobKinds : stage[r][k] = "write" =>
    after[r][k][chunk[r]] = CASE k = "claim" -> "Ongoing" [] k = "complete" -> "Completed"
                             [] OTHER -> "NotStarted"

\* r has written that its chunk is completed, or is about to, and goes on.
Closing(r) == \/ pc[r] = "complete" /\ stage[r]["complete"] = "write"
              \/ pc[r] \in {"check", "rename", "remove"}

SomeoneCloses == Readable /\ AllCompleted(Status) => \E r \in Puts : Closing(r)

\* Whoever published the file is about to remove the meta.
SomeoneRemoves ==
  upath = None /\ mpath # None /\ Finished(mpath) => \E r \in Puts : pc[r] = "remove"

ClosingInv == SomeoneCloses /\ SomeoneRemoves

-----------------------------------------------------------------------------
(* Who answers for a chunk that is Ongoing, however uploads are created and *)
(* whatever fails but what gives chunks back, the reset and the startup     *)
(* scan, as long as no request is dropped during its claim.                 *)
(* An upload may lose its meta and get another one while requests of the    *)
(* first are still running: only those that have the meta of that name open, *)
(* or have yet to open it, count.                                           *)

NoOrphans == Faults \cap {"claim", "reset", "scan"} = {}

ClaimIsAwaited == \A r \in Puts : stage[r]["claim"] # "none" => pc[r] = "claim"

\* The lock: one closure writes an inode at a time, from scratch.  A POST does
\* not take it.
WritersApart ==
  \A r, s \in Puts, k, l \in JobKinds :
    /\ stage[r][k] = "write" /\ stage[s][l] = "write" /\ opened[r][k] = opened[s][l]
         => r = s /\ k = l
    /\ stage[r][k] = "write" => meta[opened[r][k]] \in {Broken, AllNotStarted}

Here(r, k) == stage[r][k] # "none" /\ opened[r][k] \in {None, mpath}

Answers(r) == \/ pc[r] \in {"open", "stream"}
              \/ \E k \in {"fail", "complete"} : pc[r] = k /\ Here(r, k)
              \/ Here(r, "reset")
              \/ stage[r]["claim"] = "write" /\ opened[r]["claim"] = mpath

Answered(c) == \E r \in Puts : chunk[r] = c /\ Answers(r)

\* The meta of the upload, or a closure about to write it, calls c Ongoing.
Wanted(c) ==
  /\ mpath # None
  /\ \/ meta[mpath] # Broken /\ meta[mpath][c] = "Ongoing"
     \/ \E r \in Puts, k \in JobKinds :
          stage[r][k] = "write" /\ opened[r][k] = mpath /\ after[r][k][c] = "Ongoing"

AllAnswered == phase = "up" => \A c \in Chunks : Wanted(c) => Answered(c)

OwnerInv == BootQuiet /\ ClaimIsAwaited /\ WritersApart /\ AllAnswered
=============================================================================
