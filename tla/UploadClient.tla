----------------------------- MODULE UploadClient -----------------------------
(***************************************************************************)
(* The web client of resumable uploads (assets/upload.js) uploading one    *)
(* file, composed with the handlers of upload.rs: a PUT claims, stores,    *)
(* checks, renames and removes in steps of their own (ResumableUpload has  *)
(* the insides of each).  The user has one page open, and submits the file *)
(* again when an attempt came to nothing.  Connections break; what the     *)
(* server had begun for a broken connection goes on there ("orphan"), to   *)
(* its end or to its drop.                                                 *)
(*                                                                         *)
(* As in the serial runs of ResumableUpload, an upload is created when no  *)
(* earlier request is left, no request is dropped while its closure gives  *)
(* the chunk back or completes it, and a meta is read whole, or not at all *)
(* when it is being rewritten.                                             *)
(***************************************************************************)
EXTENDS Naturals, Integers, FiniteSets, ServerErrors

CONSTANTS
  Chunks,      \* the chunk indices of the file
  Pool,        \* concurrent uploads of the client: 6 in the code
  Limit,       \* max_active_chunks_per_upload of the server
  Retries,     \* attempts per chunk: 3 in the code
  MaxFaults,   \* bound: faults that may happen
  Absent,      \* no meta
  Broken       \* a meta that does not parse

ASSUME ChunksAssumption == IsFiniteSet(Chunks) /\ Chunks # {} /\ Chunks \subseteq Nat
ASSUME LedgerAssumption ==
  /\ Absent # Broken
  /\ {Absent, Broken} \cap [Chunks -> {"NotStarted", "Ongoing", "Completed"}] = {}
ASSUME BoundsAssumption == {Pool, Limit, Retries} \subseteq Nat \ {0} /\ MaxFaults \in Nat

VARIABLES
  pc,        \* what the page does
  todo,      \* unuploadedChunkIndexes
  worker,    \* worker[c]: the promise that uploads chunk c
  tries,     \* retryTimes of that promise
  acked,     \* completedChunks, as a set
  ledger,    \* the meta: the statuses of the chunks, Absent or Broken
  upload,    \* the upload file is there
  published, \* the file is there
  serving,   \* serving[c]: what the server does for chunk c
  orphans,   \* the chunks it does so for nobody
  answer,    \* answer[c]: the answer to chunk c under way
  faults     \* faults left

pageVars   == <<pc, todo, worker, tries, acked>>
diskVars   == <<ledger, upload, published>>
serverVars == <<diskVars, serving, orphans>>
vars       == <<pageVars, serverVars, answer, faults>>

TypeOK ==
  /\ pc \in {"idle", "get", "post", "pool", "announced", "ended", "stuck"}
  /\ todo \subseteq Chunks /\ acked \subseteq Chunks
  /\ worker  \in [Chunks -> {"none", "reading", "ready", "sent", "ended"}]
  /\ tries   \in [Chunks -> -1 .. Retries]
  /\ ledger  \in [Chunks -> {"NotStarted", "Ongoing", "Completed"}] \cup {Absent, Broken}
  /\ upload \in BOOLEAN /\ published \in BOOLEAN
  /\ serving \in [Chunks -> {"none", "store", "check", "publish", "remove", "reset"}]
  /\ orphans \subseteq Chunks
  /\ answer  \in [Chunks -> {"none", "success", "last", "429", "json", "html"}]
  /\ faults \in 0 .. MaxFaults

Each(v) == [c \in Chunks |-> v]

Init ==
  /\ pc = "idle" /\ todo = {} /\ acked = {}
  /\ worker = Each("none") /\ tries = Each(Retries)
  /\ ledger = Absent /\ upload = FALSE /\ published = FALSE
  /\ serving = Each("none") /\ orphans = {}
  /\ answer = Each("none") /\ faults = MaxFaults

Fault == faults > 0 /\ faults' = faults - 1

Listed    == ledger \notin {Absent, Broken}
Completed == {c \in Chunks : Listed /\ ledger[c] = "Completed"}
Ongoing   == {c \in Chunks : Listed /\ ledger[c] = "Ongoing"}

\* An unlocked read by any but cs may fall between the truncation and the
\* write of a claim, a completion or a reset.
BeingRewritten(cs) == \E c \in Chunks \ cs : serving[c] \in {"store", "check", "reset"}

-----------------------------------------------------------------------------
\* The page.

Submit ==
  /\ pc = "idle"
  /\ pc' = "get"
  /\ UNCHANGED <<todo, worker, tries, acked, serverVars, answer, faults>>

\* Mutant: a chunk that somebody has begun is taken for uploaded.
StartPoolTrusting(statuses) ==
  /\ pc' = "pool"
  /\ acked' = {c \in Chunks : statuses[c] # "NotStarted"}
  /\ todo' = Chunks \ acked'
  /\ UNCHANGED <<worker, tries, published, serving, orphans, answer, faults>>

\* The meta is there: all chunks that are not completed are to be uploaded.
StartPool(statuses) ==
  /\ pc' = "pool"
  /\ acked' = {c \in Chunks : statuses[c] = "Completed"}
  /\ todo' = Chunks \ acked'
  /\ UNCHANGED <<worker, tries, published, serving, orphans, answer, faults>>

\* Any answer but the meta is taken for a missing upload.
ToPost ==
  /\ pc' = "post"
  /\ UNCHANGED <<todo, worker, tries, acked, serverVars, answer, faults>>

GetMeta ==
  /\ pc = "get"
  /\ IF Listed THEN StartPool(ledger) /\ UNCHANGED <<ledger, upload>> ELSE ToPost

GetMetaTorn == pc = "get" /\ Listed /\ BeingRewritten({}) /\ ToPost

\* Nobody is left who could take the meta of a new upload for that of the old one.
MayCreate == ledger = Absent /\ \A c \in Chunks : serving[c] = "none"

\* FileAlreadyExists has no chunks, and the script ends with a TypeError.
PostMeta ==
  /\ pc = "post"
  /\ \/ /\ MayCreate
        /\ ledger' = Each("NotStarted") /\ upload' = TRUE
        /\ StartPool(ledger')
     \/ /\ ledger # Absent
        /\ pc' = "stuck"
        /\ UNCHANGED <<todo, worker, tries, acked, serverVars, answer, faults>>

\* What a POST leaves that is dropped or fails: the meta half written; the meta
\* without the upload file; or both, without an answer.
PostLeaves ==
  /\ MayCreate
  /\ \/ ledger' = Broken /\ UNCHANGED upload
     \/ ledger' = Each("NotStarted") /\ upload' \in BOOLEAN

\* The connection of GET or POST breaks, the login has run out, or the server
\* cannot write: fetch or the parsing rejects, and nobody catches it.
MetaLost ==
  /\ pc \in {"get", "post"}
  /\ Fault
  /\ pc' = "stuck"
  /\ UNCHANGED <<ledger, upload>> \/ (pc = "post" /\ PostLeaves)
  /\ UNCHANGED <<todo, worker, tries, acked, published, serving, orphans, answer>>

Busy == {c \in Chunks : worker[c] \in {"reading", "ready", "sent"}}

\* makePromisePool has room for the next chunk, whose bytes are read.
Spawn(c) ==
  /\ pc = "pool"
  /\ c \in todo /\ \A d \in todo : c <= d
  /\ Cardinality(Busy) < Pool
  /\ todo' = todo \ {c}
  /\ worker' = [worker EXCEPT ![c] = "reading"]
  /\ UNCHANGED <<pc, tries, acked, serverVars, answer, faults>>

\* The file cannot be read any more: the pool, filled before anything is
\* awaited, is left to itself, and no further chunk is spawned.
ReadFails(c) ==
  /\ worker[c] = "reading"
  /\ todo = {} \/ Cardinality({d \in Chunks : worker[d] # "none"}) >= Pool
  /\ Fault
  /\ worker' = [worker EXCEPT ![c] = "ended"]
  /\ todo' = {}
  /\ UNCHANGED <<pc, tries, acked, serverVars, answer>>

\* Another turn of the retry loop, or the end of it, without a word.
Send(c) ==
  /\ worker[c] \in {"reading", "ready"}
  /\ worker' = [worker EXCEPT ![c] = IF tries[c] > 0 THEN "sent" ELSE "ended"]
  /\ UNCHANGED <<pc, todo, tries, acked, serverVars, answer, faults>>

\* Mutants: every chunk that is stored is taken for the end of the upload; the
\* field of the answer is not called what the script calls it.
AnyIsLast(a) == a \in {"success", "last"}
NeverLast(a) == FALSE

\* allChunksCompleted
IsLast(a) == a = "last"

\* Mutant: a failed answer is counted once more at the end of the loop.
CostAgain(a) == CASE a = "429" -> 0 [] a = "json" -> 2 [] a = "html" -> 3

\* The attempts an answer costs: one before the body is parsed, and one more
\* when it is not JSON.  A 429 is waited out.
Cost(a) == CASE a = "429" -> 0 [] a = "json" -> 1 [] a = "html" -> 2

\* An answer on its way vanishes; what the server works on is orphaned.
Cut(cs) ==
  /\ orphans' = orphans \cup {c \in cs : serving[c] # "none"}
  /\ answer' = [c \in Chunks |-> IF c \in cs THEN "none" ELSE answer[c]]

\* The last answer of all is announced, and the page loaded anew.
Receive(c) ==
  LET a == answer[c] IN
  /\ worker[c] = "sent"
  /\ a # "none"
  /\ IF a \in {"success", "last"}
     THEN /\ acked' = acked \cup {c}
          /\ UNCHANGED tries
          /\ IF IsLast(a) THEN pc' = "announced" /\ worker' = Each("none") /\ Cut(Chunks)
                          ELSE /\ worker' = [worker EXCEPT ![c] = "ended"]
                               /\ Cut({c}) /\ UNCHANGED pc
     ELSE /\ tries' = [tries EXCEPT ![c] = @ - Cost(a)]
          /\ worker' = [worker EXCEPT ![c] = "ready"]
          /\ Cut({c}) /\ UNCHANGED <<pc, acked>>
  /\ UNCHANGED <<todo, diskVars, serving, faults>>

\* A connection breaks: before the headers of the answer have arrived, or after.
Lost(c) ==
  /\ worker[c] = "sent"
  /\ Fault
  /\ tries' \in {[tries EXCEPT ![c] = @ - 1]} \cup
               (IF answer[c] # "none" THEN {[tries EXCEPT ![c] = @ - 2]} ELSE {})
  /\ worker' = [worker EXCEPT ![c] = "ready"]
  /\ Cut({c})
  /\ UNCHANGED <<pc, todo, acked, diskVars, serving>>

\* All promises are resolved; nothing says whether the file is complete.
PoolEnds ==
  /\ pc = "pool"
  /\ todo = {} /\ Busy = {}
  /\ pc' = "ended"
  /\ UNCHANGED <<todo, worker, tries, acked, serverVars, answer, faults>>

\* A new page knows nothing, and whatever was under way for the old one is cut.
NewPage ==
  /\ pc' = "idle"
  /\ todo' = {} /\ acked' = {}
  /\ worker' = Each("none") /\ tries' = Each(Retries)
  /\ Cut(Chunks)
  /\ UNCHANGED <<diskVars, serving>>

\* Nothing goes on, and nothing was announced: the user tries again.
TryAgain == pc \in {"ended", "stuck"} /\ NewPage /\ UNCHANGED faults

\* The page is left in the middle of the upload.
Leave == pc \in {"get", "post", "pool"} /\ Fault /\ NewPage

-----------------------------------------------------------------------------
\* The server.

\* An answer reaches the page when the connection of its request is still there.
Reply(c, a) == answer' = IF c \in orphans THEN answer ELSE [answer EXCEPT ![c] = a]

Stage(c, stage) == serving' = [serving EXCEPT ![c] = stage] /\ UNCHANGED orphans

End(c) == serving' = [serving EXCEPT ![c] = "none"] /\ orphans' = orphans \ {c}

\* The request ends in an error, and its guard spawns a task to reset the chunk.
Undo(c, error) ==
  /\ serving' = [serving EXCEPT ![c] = "reset"]
  /\ orphans' = orphans \cup {c}
  /\ Reply(c, Rendered(error))

\* All permits of the upload are taken; the task of a guard holds none.
Full == Cardinality({d \in Chunks : serving[d] \notin {"none", "reset"}}) >= Limit

\* The checks of put, in their order: the errors the first that fails may give.
\* A published upload's meta may be there for the read, and gone for the claim.
Refusal(c) ==
  CASE ledger = Absent -> {"FileIsNotCreated"} \cup {e \in {"Custom"} : published}
    [] ledger = Broken -> {"UploadMetaIsBroken"}
    [] Listed /\ Full  -> {"TooManyUploadRequests"}
    [] Listed /\ ~Full -> {e \in {"ChunkIsOngoing", "ChunkIsCompleted"} :
                             e = (IF c \in Ongoing THEN "ChunkIsOngoing" ELSE "ChunkIsCompleted")
                             /\ ledger[c] # "NotStarted"}

Arriving(c) ==
  /\ worker[c] = "sent" /\ answer[c] = "none"
  /\ serving[c] = "none" \/ c \in orphans

Arrive(c) ==
  /\ Arriving(c)
  /\ \/ /\ Refusal(c) = {}
        /\ ledger' = [ledger EXCEPT ![c] = "Ongoing"]
        /\ Stage(c, "store")
        /\ UNCHANGED answer
     \/ /\ \E error \in Refusal(c) : answer' = [answer EXCEPT ![c] = Rendered(error)]
        /\ UNCHANGED <<ledger, serving, orphans>>
  /\ UNCHANGED <<pageVars, upload, published, faults>>

\* The meta is read before the claim while another request rewrites it.
ArriveTorn(c) ==
  /\ Arriving(c)
  /\ Listed /\ BeingRewritten({})
  /\ answer' = [answer EXCEPT ![c] = Rendered("UploadMetaIsBroken")]
  /\ UNCHANGED <<pageVars, serverVars, faults>>

\* The login has run out; or the meta cannot be opened, locked, read or, once it
\* is truncated, written.
ArriveFails(c) ==
  /\ Arriving(c)
  /\ Fault
  /\ \E error \in {"InvalidToken", "IoError", "Custom"} :
       answer' = [answer EXCEPT ![c] = Rendered(error)]
  /\ ledger' = ledger \/ (Refusal(c) = {} /\ ledger' = Broken)
  /\ UNCHANGED <<pageVars, upload, published, serving, orphans>>

\* The bytes are written, and the chunk is completed; in a wrecked meta it cannot be.
Store(c) ==
  /\ serving[c] = "store"
  /\ upload
  /\ IF Listed
     THEN /\ ledger' = [ledger EXCEPT ![c] = "Completed"]
          /\ Stage(c, "check")
          /\ UNCHANGED answer
     ELSE Undo(c, "UploadMetaIsBroken") /\ UNCHANGED ledger
  /\ UNCHANGED <<pageVars, upload, published, faults>>

\* There is no upload file.
OpenFails(c) ==
  /\ serving[c] = "store"
  /\ ~upload
  /\ Undo(c, "IoError")
  /\ UNCHANGED <<pageVars, diskVars, faults>>

\* Mutant: the meta that was read before the chunk was claimed is looked at.
SeesAllBefore(c) == Completed \ {c} = Chunks

SeesAll(c) == Completed = Chunks

\* The unlocked read after the completion.
Check(c) ==
  /\ serving[c] = "check"
  /\ ledger # Absent
  /\ IF SeesAll(c)
     THEN Stage(c, "publish") /\ UNCHANGED answer
     ELSE End(c) /\ Reply(c, IF Listed THEN "success" ELSE Rendered("UploadMetaIsBroken"))
  /\ UNCHANGED <<pageVars, diskVars, faults>>

\* That read, while another request rewrites the meta.
CheckTorn(c) ==
  /\ serving[c] = "check"
  /\ Listed /\ BeingRewritten({c})
  /\ End(c)
  /\ Reply(c, Rendered("UploadMetaIsBroken"))
  /\ UNCHANGED <<pageVars, diskVars, faults>>

\* Of two requests that may publish, the one that finds the file renamed fails.
Rename(c) ==
  /\ serving[c] = "publish"
  /\ IF upload
     THEN published' = TRUE /\ upload' = FALSE /\ Stage(c, "remove") /\ UNCHANGED answer
     ELSE End(c) /\ Reply(c, Rendered("IoError")) /\ UNCHANGED <<upload, published>>
  /\ UNCHANGED <<pageVars, ledger, faults>>

Remove(c) ==
  /\ serving[c] = "remove"
  /\ ledger' = Absent
  /\ End(c)
  /\ Reply(c, "last")
  /\ UNCHANGED <<pageVars, upload, published, faults>>

\* The task of a guard: only a chunk that is still Ongoing is reset.
Reset(c) ==
  /\ serving[c] = "reset"
  /\ ledger' = IF c \in Ongoing THEN [ledger EXCEPT ![c] = "NotStarted"] ELSE ledger
  /\ End(c)
  /\ UNCHANGED <<pageVars, upload, published, answer, faults>>

\* The process ends, and another takes its place: the requests of the page fail,
\* those whose answer had begun to arrive at the price of two attempts.
Dies ==
  /\ serving' = Each("none") /\ orphans' = {} /\ answer' = Each("none")
  /\ pc' = IF pc \in {"get", "post"} THEN "stuck" ELSE pc
  /\ \E begun \in SUBSET {c \in Chunks : answer[c] # "none"} :
       tries' = [c \in Chunks |-> IF worker[c] # "sent" THEN tries[c]
                                  ELSE tries[c] - (IF c \in begun THEN 2 ELSE 1)]
  /\ worker' = [c \in Chunks |-> IF worker[c] = "sent" THEN "ready" ELSE worker[c]]
  /\ UNCHANGED <<todo, acked, published>>

\* unwrap on the None of a meta that another last completion has removed; a panic
\* aborts.
Unwraps(c) ==
  /\ serving[c] = "check"
  /\ ledger = Absent
  /\ Dies
  /\ UNCHANGED <<ledger, upload, faults>>

\* The startup scan gives every claimed chunk back, unless it fails and goes on; the
\* process may have ended between a truncation and a write, or in the middle of a POST.
Restart ==
  /\ Fault
  /\ \/ /\ ledger' = IF Listed THEN [c \in Chunks |-> IF c \in Ongoing THEN "NotStarted" ELSE ledger[c]]
                     ELSE ledger
        /\ UNCHANGED upload
     \/ Ongoing # {} /\ ledger' \in {ledger, Broken} /\ UNCHANGED upload
     \/ pc = "post" /\ PostLeaves
  /\ Dies

GiveBack(c) == ledger' = [ledger EXCEPT ![c] = "NotStarted"] /\ End(c)

\* The body cannot be read or written, and the chunk is given back; or the meta, the
\* upload file or the directory refuses a step, on which a write may wreck the meta.
ServeFails(c) ==
  /\ Fault
  /\ \/ /\ serving[c] = "store" /\ upload /\ Listed
        /\ GiveBack(c)
        /\ Reply(c, Rendered("UploadChunkFailed"))
     \/ /\ serving[c] = "store"
        /\ ledger' = ledger \/ (upload /\ ledger' = Broken)
        /\ Undo(c, "IoError")
     \/ /\ serving[c] = "reset"
        /\ ledger' = ledger \/ (c \in Ongoing /\ ledger' = Broken)
        /\ End(c) /\ UNCHANGED answer
     \/ /\ serving[c] \in {"check", "publish", "remove"}
        /\ End(c) /\ Reply(c, Rendered("IoError"))
        /\ UNCHANGED ledger
  /\ UNCHANGED <<pageVars, upload, published>>

\* The request of a broken connection is dropped: while its claim runs, which nobody
\* undoes; while it waits for the body, and its guard resets the chunk; once the body
\* has failed, and the chunk is given back; or when the chunk is completed.
OrphanEnds(c) ==
  /\ c \in orphans
  /\ \/ serving[c] # "reset" /\ End(c) /\ UNCHANGED ledger
     \/ serving[c] = "store" /\ Undo(c, "IoError") /\ UNCHANGED ledger
     \/ serving[c] = "store" /\ Listed /\ GiveBack(c)
  /\ UNCHANGED <<pageVars, upload, published, answer, faults>>

Handle(c) ==
  \/ Store(c) \/ OpenFails(c) \/ Check(c) \/ Unwraps(c)
  \/ Rename(c) \/ Remove(c) \/ Reset(c)

Next ==
  \/ Restart
  \/ Submit \/ GetMeta \/ GetMetaTorn \/ PostMeta \/ MetaLost \/ PoolEnds \/ TryAgain \/ Leave
  \/ \E c \in Chunks : \/ Spawn(c) \/ ReadFails(c) \/ Send(c) \/ Receive(c) \/ Lost(c)
                       \/ Arrive(c) \/ ArriveTorn(c) \/ ArriveFails(c)
                       \/ Store(c) \/ OpenFails(c) \/ Check(c) \/ CheckTorn(c) \/ Unwraps(c)
                       \/ Rename(c) \/ Remove(c) \/ Reset(c)
                       \/ ServeFails(c) \/ OrphanEnds(c)

Spec == Init /\ [][Next]_vars

\* The script and the server go on; the user tries again when nothing does.
Fairness ==
  /\ WF_vars(Submit \/ GetMeta \/ PostMeta \/ PoolEnds)
  /\ WF_vars(TryAgain)
  /\ \A c \in Chunks : /\ WF_vars(Spawn(c)) /\ WF_vars(Send(c)) /\ WF_vars(Receive(c))
                       /\ WF_vars(Arrive(c)) /\ WF_vars(Handle(c) \/ OrphanEnds(c))

FairSpec == Spec /\ Fairness

-----------------------------------------------------------------------------
\* Properties.

(* "Upload complete" is announced only when the file has been published.    *)
AnnouncedIsPublished == pc = "announced" => published /\ ledger = Absent

(* The progress shown is that of chunks the server has: completed, or       *)
(* published with the file and no longer on the books, unless the books     *)
(* were wrecked by a write that failed after the truncation.                *)
ProgressIsReal ==
  acked \subseteq Completed \/ (ledger = Absent /\ published) \/ ledger = Broken

(* A page that sent some chunk, and knows every chunk to be uploaded, has   *)
(* announced it: silence means that some chunk was given up, or that there  *)
(* was nothing left to send.                                                *)
SuccessIsAnnounced == pc = "ended" /\ acked = Chunks => \A c \in Chunks : worker[c] = "none"

\* What no retry repairs: a wrecked meta; a chunk claimed for nobody; no upload
\* file; all chunks completed, and nobody about to publish them.
Stranded ==
  \/ ledger = Broken
  \/ \E c \in Ongoing : serving[c] = "none"
  \/ /\ Listed /\ (~upload \/ Completed = Chunks)
     /\ \A c \in Chunks : serving[c] \notin {"check", "publish", "remove"}

\* What interleavings alone do to an attempt: torn reads, and the abort.
Unlucky ==
  GetMetaTorn \/ \E c \in Chunks : ArriveTorn(c) \/ CheckTorn(c) \/ Unwraps(c)

(* After finitely many faults, torn reads and aborts, a user who tries      *)
(* again gets the file there and is told, unless a fault has stranded the   *)
(* upload: torn reads and aborts alone never do.                            *)
UploadSucceeds ==
  <>[][~Unlucky]_vars => <>(pc = "announced") \/ <>[](Stranded /\ faults < MaxFaults)
=============================================================================
