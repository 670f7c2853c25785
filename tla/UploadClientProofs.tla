-------------------------- MODULE UploadClientProofs --------------------------
(***************************************************************************)
(* Proofs about UploadClient, for every number of chunks, size of pool,    *)
(* limit, number of attempts and number of faults.                         *)
(***************************************************************************)
EXTENDS UploadClient, TLAPS

Statuses == [Chunks -> {"NotStarted", "Ongoing", "Completed"}]

\* Who works for whom: a promise for the pool, an answer and a request that is
\* not orphaned for a promise.
AttendedAt(c) ==
  /\ worker[c] \in {"reading", "ready", "sent"} => pc = "pool"
  /\ pc \notin {"pool", "ended"} \/ c \in todo => worker[c] = "none"
  /\ worker[c] = "sent" => tries[c] >= 1
  /\ answer[c] # "none" => worker[c] = "sent"
  /\ serving[c] # "none" /\ c \notin orphans => worker[c] = "sent" /\ answer[c] = "none"
  /\ serving[c] = "reset" => c \in orphans
  /\ c \in orphans => serving[c] # "none"

Attended == \A c \in Chunks : AttendedAt(c)

\* The file is there and the upload is over.
Over == published /\ ledger = Absent

\* What the books say of a chunk that the server works on.
ClaimedAt(c) ==
  /\ serving[c] \in {"store", "reset"} => ledger = Broken \/ c \in Ongoing
  /\ serving[c] = "check" => ledger \in {Broken, Absent} \/ c \in Completed
  /\ serving[c] \in {"publish", "remove"} => ledger = Absent \/ Completed = Chunks
  /\ serving[c] = "remove" => published

ServedIsClaimed == \A c \in Chunks : ClaimedAt(c)

\* What an answer says of the server stays true while it is on its way.
AnswersHold ==
  \A c \in Chunks : /\ answer[c] = "last" => Over
                    /\ answer[c] = "success" => c \in Completed \/ Over \/ ledger = Broken

\* A page that has no list of chunks counts none as uploaded.
Counted ==
  /\ pc \in {"idle", "get", "post", "stuck"} => acked = {}
  /\ todo \cap acked = {}

AckedHold == acked \subseteq Completed \/ Over \/ ledger = Broken

\* A page learns of its last chunk by "last", or has nothing to send.
LastIsTold ==
  pc \in {"pool", "ended"} /\ (\A c \in Chunks : c \in acked \/ answer[c] = "success")
    => \A c \in Chunks : worker[c] = "none"

ClientInv ==
  /\ TypeOK
  /\ Attended
  /\ ServedIsClaimed
  /\ AnswersHold
  /\ Counted
  /\ AckedHold
  /\ LastIsTold
  /\ pc = "announced" => Over

-----------------------------------------------------------------------------
(* An answer costs two attempts at most. *)
LEMMA CostBound ==
  ASSUME NEW a \in {"429", "json", "html"}
  PROVE  Cost(a) \in 0 .. 2
BY DEF Cost

(* How an error arrives. *)
LEMMA RenderedValue ==
  ASSUME NEW error \in JsonErrors \cup HtmlErrors
  PROVE  Rendered(error) \in {"429", "json", "html"}
BY DEF Rendered, JsonErrors, HtmlErrors

(* The books are a list, a wreck, or not there. *)
LEMMA LedgerKinds ==
  ASSUME TypeOK
  PROVE  /\ Absent # Broken /\ Absent \notin Statuses /\ Broken \notin Statuses
         /\ Listed <=> ledger \in Statuses
         /\ ledger \in Statuses \cup {Absent, Broken}
BY LedgerAssumption DEF TypeOK, Listed, Statuses

(* A PUT that nothing refuses may claim its chunk; errors are errors. *)
LEMMA RefusalValue ==
  ASSUME TypeOK, NEW c \in Chunks
  PROVE  /\ \A error \in Refusal(c) : Rendered(error) \in {"429", "json", "html"}
         /\ Refusal(c) = {} => ledger \in Statuses /\ ledger[c] = "NotStarted"
<1>1. CASE ledger = Absent
  <2>1. Refusal(c) = {"FileIsNotCreated"} \cup {e \in {"Custom"} : published}
    BY <1>1, LedgerKinds DEF Refusal, Listed
  <2> QED BY <2>1, RenderedValue DEF JsonErrors, HtmlErrors
<1>2. CASE ledger = Broken
  <2>1. Refusal(c) = {"UploadMetaIsBroken"}
    BY <1>2, LedgerKinds DEF Refusal, Listed
  <2> QED BY <2>1, RenderedValue DEF JsonErrors, HtmlErrors
<1>3. CASE Listed /\ Full
  <2>1. Refusal(c) = {"TooManyUploadRequests"}
    BY <1>3 DEF Refusal, Listed
  <2> QED BY <2>1, RenderedValue DEF JsonErrors, HtmlErrors
<1>4. CASE Listed /\ ~Full
  <2>1. Refusal(c) = {e \in {"ChunkIsOngoing", "ChunkIsCompleted"} :
                        /\ e = (IF c \in Ongoing THEN "ChunkIsOngoing" ELSE "ChunkIsCompleted")
                        /\ ledger[c] # "NotStarted"}
    BY <1>4 DEF Refusal, Listed
  <2>2. Refusal(c) = {} => ledger[c] = "NotStarted"
    BY <2>1
  <2> QED BY <1>4, <2>1, <2>2, RenderedValue, LedgerKinds DEF JsonErrors, HtmlErrors
<1> QED BY <1>1, <1>2, <1>3, <1>4, LedgerKinds DEF Listed

(* One chunk changes its status. *)
LEMMA StatusSet ==
  ASSUME TypeOK, ledger \in Statuses, NEW c \in Chunks,
         NEW s \in {"NotStarted", "Ongoing", "Completed"}, ledger' = [ledger EXCEPT ![c] = s]
  PROVE  /\ ledger' \in Statuses /\ ledger' \notin {Absent, Broken}
         /\ Completed' = IF s = "Completed" THEN Completed \cup {c} ELSE Completed \ {c}
         /\ Ongoing'   = IF s = "Ongoing" THEN Ongoing \cup {c} ELSE Ongoing \ {c}
<1>1. ledger' \in Statuses
  BY DEF Statuses
<1>2. ledger' \notin {Absent, Broken} /\ ledger \notin {Absent, Broken}
  BY <1>1, LedgerKinds
<1>3. \A d \in Chunks : ledger'[d] = IF d = c THEN s ELSE ledger[d]
  BY DEF Statuses
<1>4. Completed = {d \in Chunks : ledger[d] = "Completed"} /\ Ongoing = {d \in Chunks : ledger[d] = "Ongoing"}
  BY <1>2 DEF Completed, Ongoing, Listed
<1>5. /\ Completed' = {d \in Chunks : ledger'[d] = "Completed"}
      /\ Ongoing' = {d \in Chunks : ledger'[d] = "Ongoing"}
  BY <1>2 DEF Completed, Ongoing, Listed
<1>6. Completed' = IF s = "Completed" THEN Completed \cup {c} ELSE Completed \ {c}
  BY <1>3, <1>4, <1>5
<1>7. Ongoing' = IF s = "Ongoing" THEN Ongoing \cup {c} ELSE Ongoing \ {c}
  BY <1>3, <1>4, <1>5
<1> QED BY <1>1, <1>2, <1>6, <1>7

(* What the sets of chunks are when the books are no list. *)
LEMMA NoList ==
  ASSUME ledger \in {Absent, Broken}
  PROVE  Completed = {} /\ Ongoing = {}
BY DEF Completed, Ongoing, Listed

(* A chunk has one status. *)
LEMMA OneStatus == Completed \cap Ongoing = {} /\ Completed \subseteq Chunks /\ Ongoing \subseteq Chunks
BY DEF Completed, Ongoing

-----------------------------------------------------------------------------
\* Each step keeps the invariant; first the page.

LEMMA InitClient == Init => ClientInv
<1> SUFFICES ASSUME Init PROVE ClientInv
  OBVIOUS
<1> USE DEF Init, Each
<1>0. Retries \in Nat /\ MaxFaults \in Nat /\ Retries \in -1 .. Retries /\ MaxFaults \in 0 .. MaxFaults
  BY BoundsAssumption
<1>1. TypeOK
  BY <1>0 DEF TypeOK
<1>2. Attended /\ ServedIsClaimed
  BY DEF Attended, AttendedAt, ServedIsClaimed, ClaimedAt
<1>3. AnswersHold /\ Counted /\ AckedHold /\ LastIsTold
  BY DEF AnswersHold, Counted, AckedHold, LastIsTold
<1> QED BY <1>1, <1>2, <1>3 DEF ClientInv

(* Books that stay as they are. *)
LEMMA DiskStays ==
  ASSUME UNCHANGED diskVars
  PROVE  /\ Completed' = Completed /\ Ongoing' = Ongoing /\ Over' = Over
         /\ UNCHANGED <<ledger, upload, published>>
BY DEF diskVars, Completed, Ongoing, Listed, Over

(* A step of the page that leaves the server and what was uploaded alone. *)
LEMMA PageStays ==
  ASSUME ClientInv, TypeOK', Attended', Counted', LastIsTold', pc' = "announced" => Over,
         UNCHANGED <<serverVars, answer, acked>>
  PROVE  ClientInv'
<1> USE DEF ClientInv
<1>0. UNCHANGED <<diskVars, serving, orphans, answer, acked, ledger, published>>
  BY DEF serverVars, diskVars
<1>1. ServedIsClaimed'
  BY <1>0, DiskStays DEF ServedIsClaimed, ClaimedAt
<1>2. AnswersHold' /\ AckedHold' /\ (pc = "announced" => Over)'
  BY <1>0, DiskStays DEF AnswersHold, AckedHold
<1> QED BY <1>1, <1>2

(* The lists of a page that has just got a meta. *)
LEMMA PoolStarts ==
  ASSUME ClientInv, pc \in {"get", "post"}, StartPool(ledger'), UNCHANGED faults, upload' \in BOOLEAN,
         \/ Listed /\ UNCHANGED ledger
         \/ MayCreate /\ ledger' = Each("NotStarted")
  PROVE  ClientInv'
<1> USE DEF ClientInv, StartPool
<1>0. ledger' \in Statuses /\ ledger' \notin {Absent, Broken}
  BY LedgerKinds DEF Statuses, Each
<1>1. Completed' = {c \in Chunks : ledger'[c] = "Completed"} /\ acked' = Completed'
  BY <1>0 DEF Completed, Listed
<1>2. TypeOK'
  BY <1>0 DEF TypeOK, Statuses
<1>3. \A c \in Chunks : answer[c] = "none" /\ worker[c] = "none"
  BY DEF Attended, AttendedAt
<1>4. Attended'
  BY <1>3 DEF Attended, AttendedAt
<1>5. ServedIsClaimed'
  <2>1. CASE Listed /\ UNCHANGED ledger
    BY <2>1 DEF ServedIsClaimed, ClaimedAt, Completed, Ongoing, Listed
  <2>2. CASE MayCreate
    BY <2>2 DEF ServedIsClaimed, ClaimedAt, MayCreate
  <2> QED BY <2>1, <2>2
<1>6. AnswersHold' /\ LastIsTold'
  BY <1>3 DEF AnswersHold, LastIsTold
<1>7. Counted' /\ AckedHold' /\ pc' # "announced"
  BY <1>1 DEF Counted, AckedHold
<1> QED BY <1>2, <1>4, <1>5, <1>6, <1>7

(* A promise goes on to its next step, or ends, before anything is answered. *)
LEMMA PromiseClient ==
  ASSUME ClientInv, NEW c \in Chunks, Spawn(c) \/ ReadFails(c) \/ Send(c)
  PROVE  ClientInv'
<1> USE DEF ClientInv
<1>0. /\ pc = "pool" /\ pc' = pc /\ UNCHANGED <<tries, acked, serverVars, answer>>
      /\ faults' \in 0 .. MaxFaults /\ todo' \subseteq todo
      /\ worker[c] \in {"none", "reading", "ready"}
      /\ worker[c] = "none" => c \in todo
  BY BoundsAssumption DEF Spawn, ReadFails, Send, Attended, AttendedAt, Fault, TypeOK
<1>1. PICK w \in {"reading", "sent", "ended"} :
        worker' = [worker EXCEPT ![c] = w] /\ (w = "sent" => tries[c] >= 1)
  <2>1. tries[c] \in Int
    BY DEF TypeOK
  <2> QED BY <2>1 DEF Spawn, ReadFails, Send
<1>2. c \notin todo'
  <2>1. CASE worker[c] = "none"
    BY <1>0, <2>1 DEF Spawn, ReadFails, Send
  <2>2. CASE worker[c] # "none"
    BY <1>0, <2>2 DEF Attended, AttendedAt
  <2> QED BY <2>1, <2>2
<1>3. TypeOK'
  BY <1>0, <1>1 DEF TypeOK, serverVars, diskVars
<1>4. answer[c] = "none" /\ (serving[c] = "none" \/ c \in orphans)
  BY <1>0 DEF Attended, AttendedAt
<1>5. Attended'
  <2> SUFFICES ASSUME NEW d \in Chunks PROVE AttendedAt(d)'
    BY DEF Attended
  <2>1. CASE d = c
    BY <2>1, <1>0, <1>1, <1>2, <1>4 DEF AttendedAt, Attended, TypeOK, serverVars
  <2>2. CASE d # c
    BY <2>2, <1>0, <1>1 DEF AttendedAt, Attended, TypeOK, serverVars
  <2> QED BY <2>1, <2>2
<1>6. Counted'
  BY <1>0 DEF Counted
<1>7. LastIsTold'
  <2>1. ~ \A d \in Chunks : d \in acked \/ answer[d] = "success"
    BY <1>0, <1>4 DEF LastIsTold, Counted
  <2> QED BY <1>0, <2>1 DEF LastIsTold
<1> QED BY <1>0, <1>3, <1>5, <1>6, <1>7, PageStays

\* Connections and pages.

(* What cutting connections does to requests and answers. *)
LEMMA CutKeeps ==
  ASSUME ClientInv, NEW cs \in SUBSET Chunks, Cut(cs), UNCHANGED <<diskVars, serving>>
  PROVE  /\ orphans' \subseteq Chunks
         /\ answer' \in [Chunks -> {"none", "success", "last", "429", "json", "html"}]
         /\ \A c \in Chunks : /\ c \in orphans' => serving'[c] # "none"
                              /\ serving'[c] = "reset" => c \in orphans'
                              /\ serving'[c] # "none" /\ c \notin orphans' =>
                                   serving[c] # "none" /\ c \notin orphans /\ c \notin cs
                              /\ answer'[c] # "none" => answer'[c] = answer[c] /\ c \notin cs
                              /\ answer[c] = "none" => answer'[c] = "none"
         /\ ServedIsClaimed' /\ AnswersHold'
         /\ Completed' = Completed /\ Over' = Over /\ UNCHANGED <<ledger, upload, published>>
<1> USE DEF ClientInv
<1>1. /\ answer' = [c \in Chunks |-> IF c \in cs THEN "none" ELSE answer[c]]
      /\ orphans' = orphans \cup {c \in cs : serving[c] # "none"}
      /\ UNCHANGED serving
  BY DEF Cut
<1>2. answer' \in [Chunks -> {"none", "success", "last", "429", "json", "html"}]
  BY <1>1 DEF TypeOK
<1>3. \A c \in Chunks : /\ answer'[c] # "none" => answer'[c] = answer[c] /\ c \notin cs
                        /\ answer[c] = "none" => answer'[c] = "none"
  BY <1>1
<1>4. ServedIsClaimed'
  BY <1>1, DiskStays DEF ServedIsClaimed, ClaimedAt
<1>5. AnswersHold'
  BY <1>3, DiskStays DEF AnswersHold
<1>6. \A c \in Chunks : /\ c \in orphans' => serving'[c] # "none"
                        /\ serving'[c] = "reset" => c \in orphans'
                        /\ serving'[c] # "none" /\ c \notin orphans' =>
                             serving[c] # "none" /\ c \notin orphans /\ c \notin cs
  BY <1>1 DEF Attended, AttendedAt
<1> QED BY <1>1, <1>2, <1>3, <1>4, <1>5, <1>6, DiskStays DEF TypeOK

(* What arrives: the end of the upload, one more chunk, or a refusal. *)
LEMMA ReceiveClient ==
  ASSUME ClientInv, NEW c \in Chunks, Receive(c)
  PROVE  ClientInv'
<1> USE DEF ClientInv
<1> DEFINE a == answer[c]
<1>0. /\ worker[c] = "sent" /\ a # "none" /\ pc = "pool" /\ tries[c] >= 1
      /\ c \notin todo
      /\ serving[c] = "none" \/ c \in orphans
      /\ UNCHANGED <<todo, diskVars, serving, faults>>
  BY DEF Receive, Attended, AttendedAt
<1>1. CASE a = "last"
  <2>1. Over /\ pc' = "announced" /\ worker' = Each("none") /\ acked' = acked \cup {c}
        /\ UNCHANGED tries /\ Cut(Chunks)
    BY <1>1 DEF Receive, IsLast, AnswersHold
  <2>2. TypeOK'
    <3>1. worker' \in [Chunks -> {"none", "reading", "ready", "sent", "ended"}]
      BY <2>1 DEF Each
    <3>2. acked' \subseteq Chunks /\ pc' \in {"announced"}
      BY <2>1 DEF TypeOK
    <3>3. /\ orphans' \subseteq Chunks
          /\ answer' \in [Chunks -> {"none", "success", "last", "429", "json", "html"}]
          /\ UNCHANGED <<ledger, upload, published>>
      BY <1>0, <2>1, CutKeeps
    <3> QED BY <1>0, <2>1, <3>1, <3>2, <3>3 DEF TypeOK
  <2>3. Attended'
    BY <1>0, <2>1, CutKeeps DEF Attended, AttendedAt, Each
  <2>4. Over' /\ AckedHold' /\ LastIsTold'
    BY <1>0, <2>1, CutKeeps DEF AckedHold, LastIsTold
  <2>5. Counted'
    BY <1>0, <2>1 DEF Counted
  <2> QED BY <1>0, <2>1, <2>2, <2>3, <2>4, <2>5, CutKeeps
<1>2. CASE a = "success"
  <2>1. /\ acked' = acked \cup {c} /\ pc' = pc /\ Cut({c})
        /\ worker' = [worker EXCEPT ![c] = "ended"]
        /\ UNCHANGED tries
    BY <1>2 DEF Receive, IsLast
  <2>2. TypeOK'
    BY <1>0, <2>1, CutKeeps DEF TypeOK
  <2>3. Attended'
    BY <1>0, <2>1, CutKeeps DEF Attended, AttendedAt, TypeOK
  <2>4. c \in Completed \/ Over \/ ledger = Broken
    BY <1>2 DEF AnswersHold
  <2>5. AckedHold' /\ Counted' /\ pc' # "announced"
    BY <1>0, <2>1, <2>4, CutKeeps DEF AckedHold, Counted
  <2>6. LastIsTold'
    <3>1. PICK d \in Chunks : d \notin acked /\ a # "none" /\ answer[d] # "success"
      BY <1>0 DEF LastIsTold
    <3>2. d # c /\ d \notin acked' /\ answer'[d] # "success"
      BY <1>0, <1>2, <2>1, <3>1, CutKeeps
    <3> QED BY <3>2 DEF LastIsTold
  <2> QED BY <1>0, <2>1, <2>2, <2>3, <2>5, <2>6, CutKeeps
<1>3. CASE a \in {"429", "json", "html"}
  <2>1. /\ tries' = [tries EXCEPT ![c] = @ - Cost(a)]
        /\ worker' = [worker EXCEPT ![c] = "ready"]
        /\ Cut({c}) /\ UNCHANGED <<pc, acked>>
    BY <1>3 DEF Receive
  <2>2. Cost(a) \in 0 .. 2
    BY <1>3, CostBound
  <2>3. tries[c] - Cost(a) \in -1 .. Retries
    BY <2>2, <1>0, BoundsAssumption DEF TypeOK
  <2>4. TypeOK'
    BY <1>0, <2>1, <2>3, CutKeeps DEF TypeOK
  <2>5. Attended'
    BY <1>0, <2>1, CutKeeps DEF Attended, AttendedAt, TypeOK
  <2>6. AckedHold' /\ Counted' /\ pc' # "announced"
    BY <1>0, <2>1, CutKeeps DEF AckedHold, Counted
  <2>7. LastIsTold'
    <3>1. PICK d \in Chunks : d \notin acked /\ answer[d] # "success"
      BY <1>0 DEF LastIsTold
    <3> QED BY <1>0, <2>1, <3>1, CutKeeps DEF LastIsTold
  <2> QED BY <1>0, <2>1, <2>4, <2>5, <2>6, <2>7, CutKeeps
<1> QED BY <1>0, <1>1, <1>2, <1>3 DEF TypeOK

LEMMA LostClient ==
  ASSUME ClientInv, NEW c \in Chunks, Lost(c)
  PROVE  ClientInv'
<1> USE DEF ClientInv
<1>0. /\ worker[c] = "sent" /\ pc = "pool" /\ tries[c] >= 1 /\ Cut({c})
      /\ c \notin todo
      /\ faults' \in 0 .. MaxFaults
      /\ worker' = [worker EXCEPT ![c] = "ready"]
      /\ UNCHANGED <<pc, todo, acked, diskVars, serving>>
  BY BoundsAssumption DEF Lost, Attended, AttendedAt, Fault, TypeOK
<1>1. PICK n \in {1, 2} : tries' = [tries EXCEPT ![c] = @ - n]
  BY DEF Lost
<1>2. tries[c] - n \in -1 .. Retries
  BY <1>0, BoundsAssumption DEF TypeOK
<1>3. TypeOK'
  BY <1>0, <1>1, <1>2, CutKeeps DEF TypeOK
<1>4. Attended'
  BY <1>0, <1>1, CutKeeps DEF Attended, AttendedAt, TypeOK
<1>5. AckedHold' /\ Counted' /\ pc' # "announced"
  BY <1>0, CutKeeps DEF AckedHold, Counted
<1>6. LastIsTold'
  <2>1. PICK d \in Chunks : d \notin acked /\ answer[d] # "success"
    BY <1>0 DEF LastIsTold
  <2> QED BY <1>0, <2>1, CutKeeps DEF LastIsTold
<1> QED BY <1>0, <1>3, <1>4, <1>5, <1>6, CutKeeps

LEMMA NewPageClient ==
  ASSUME ClientInv, NewPage, faults' \in 0 .. MaxFaults
  PROVE  ClientInv'
<1> USE DEF ClientInv
<1>0. /\ pc' = "idle" /\ todo' = {} /\ acked' = {} /\ Cut(Chunks)
      /\ worker' = Each("none") /\ tries' = Each(Retries)
      /\ UNCHANGED <<diskVars, serving>>
  BY DEF NewPage
<1>1. Retries \in -1 .. Retries
  BY BoundsAssumption
<1>2. TypeOK'
  BY <1>0, <1>1, CutKeeps DEF TypeOK, Each
<1>3. Attended'
  BY <1>0, CutKeeps DEF Attended, AttendedAt, Each
<1>4. Counted' /\ AckedHold' /\ LastIsTold' /\ pc' # "announced"
  BY <1>0 DEF Counted, AckedHold, LastIsTold
<1> QED BY <1>0, <1>2, <1>3, <1>4, CutKeeps

LEMMA PageClient ==
  ASSUME ClientInv, Submit \/ GetMeta \/ GetMetaTorn \/ PostMeta \/ MetaLost \/ PoolEnds
                    \/ TryAgain \/ Leave
  PROVE  ClientInv'
<1> USE DEF ClientInv
<1>0. faults \in 0 .. MaxFaults /\ (Fault => faults' \in 0 .. MaxFaults)
  BY BoundsAssumption DEF TypeOK, Fault
<1>1. ASSUME pc \in {"idle", "get", "post"}, pc' \in {"get", "post", "stuck"},
             UNCHANGED <<todo, worker, tries, acked, serverVars, answer, faults>>
      PROVE  ClientInv'
  <2>1. TypeOK'
    BY <1>1 DEF TypeOK, serverVars, diskVars
  <2>2. Attended'
    BY <1>1 DEF Attended, AttendedAt, serverVars
  <2>3. Counted' /\ LastIsTold'
    BY <1>1 DEF Counted, LastIsTold
  <2> QED BY <1>1, <2>1, <2>2, <2>3, PageStays
<1>2. CASE Submit \/ GetMetaTorn
  BY <1>1, <1>2 DEF Submit, GetMetaTorn, ToPost
<1>3. CASE GetMeta
  <2>1. CASE Listed
    BY <1>3, <2>1, PoolStarts DEF GetMeta, TypeOK, StartPool
  <2>2. CASE ~Listed
    BY <1>1, <1>3, <2>2 DEF GetMeta, ToPost
  <2> QED BY <2>1, <2>2
<1>4. CASE PostMeta
  <2>1. CASE MayCreate /\ ledger' = Each("NotStarted") /\ upload' = TRUE /\ StartPool(ledger')
    BY <1>4, <2>1, PoolStarts DEF PostMeta, StartPool
  <2>2. CASE pc' = "stuck" /\ UNCHANGED <<todo, worker, tries, acked, serverVars, answer, faults>>
    BY <1>1, <1>4, <2>2 DEF PostMeta
  <2> QED BY <1>4, <2>1, <2>2 DEF PostMeta
<1>5. CASE MetaLost
  <2>1. /\ pc \in {"get", "post"} /\ pc' = "stuck" /\ faults' \in 0 .. MaxFaults
        /\ UNCHANGED <<todo, worker, tries, acked, published, serving, orphans, answer>>
        /\ UNCHANGED <<ledger, upload>> \/ PostLeaves
    BY <1>5, <1>0 DEF MetaLost
  <2>2. acked = {} /\ \A c \in Chunks : worker[c] = "none" /\ answer[c] = "none"
    BY <2>1 DEF Counted, Attended, AttendedAt
  <2>3. ledger' \in Statuses \cup {Absent, Broken} /\ upload' \in BOOLEAN
    BY <2>1, LedgerKinds DEF PostLeaves, Statuses, Each, TypeOK
  <2>4. TypeOK'
    BY <2>1, <2>3 DEF TypeOK, Statuses
  <2>5. Attended'
    BY <2>1, <2>2 DEF Attended, AttendedAt
  <2>6. ServedIsClaimed'
    <3>1. CASE UNCHANGED <<ledger, upload>>
      BY <2>1, <3>1 DEF ServedIsClaimed, ClaimedAt, Completed, Ongoing, Listed
    <3>2. CASE PostLeaves
      BY <2>1, <3>2 DEF ServedIsClaimed, ClaimedAt, PostLeaves, MayCreate
    <3> QED BY <2>1, <3>1, <3>2
  <2>7. AnswersHold' /\ AckedHold' /\ Counted' /\ LastIsTold' /\ pc' # "announced"
    BY <2>1, <2>2 DEF AnswersHold, AckedHold, Counted, LastIsTold
  <2> QED BY <2>4, <2>5, <2>6, <2>7
<1>6. CASE PoolEnds
  <2>1. /\ pc = "pool" /\ pc' = "ended" /\ Busy = {}
        /\ UNCHANGED <<todo, worker, tries, acked, serverVars, answer, faults>>
    BY <1>6 DEF PoolEnds
  <2>2. TypeOK'
    BY <2>1 DEF TypeOK, serverVars, diskVars
  <2>3. \A c \in Chunks : worker[c] \notin {"reading", "ready", "sent"}
    BY <2>1 DEF Busy
  <2>4. Attended'
    BY <2>1, <2>3 DEF Attended, AttendedAt, serverVars
  <2>5. Counted' /\ LastIsTold'
    BY <2>1 DEF Counted, LastIsTold
  <2> QED BY <2>1, <2>2, <2>4, <2>5, PageStays
<1>7. CASE TryAgain \/ Leave
  BY <1>7, <1>0, NewPageClient DEF TryAgain, Leave
<1> QED BY <1>2, <1>3, <1>4, <1>5, <1>6, <1>7

-----------------------------------------------------------------------------
\* The server.

\* What a step does not take back: the end of the upload, the wreck of its
\* books, and what they say is completed.
Keeps ==
  /\ Over => Over'
  /\ ledger = Broken => ledger' = Broken
  /\ Completed \subseteq Completed' \/ Over' \/ ledger' = Broken

\* The answer of a step for chunk c, if any reaches the page.
Tells(c) ==
  \/ UNCHANGED answer
  \/ /\ worker[c] = "sent"
     /\ \E a \in {"success", "last", "429", "json", "html"} :
          /\ answer' = [answer EXCEPT ![c] = a]
          /\ a = "last" => Over'
          /\ a = "success" => c \in Completed /\ Completed # Chunks /\ ledger \notin {Absent, Broken}

\* The request for chunk c goes on, to another stage or to its end.
Goes(c, s) ==
  /\ serving' = [serving EXCEPT ![c] = s]
  /\ s = "none" => orphans' = orphans \ {c}
  /\ s = "reset" => orphans' = orphans \cup {c}
  /\ s \notin {"none", "reset"} =>
       /\ UNCHANGED <<orphans, answer>>
       /\ c \notin orphans => worker[c] = "sent" /\ answer[c] = "none"

(* A step of the server for one chunk. *)
LEMMA ServerStep ==
  ASSUME ClientInv, NEW c \in Chunks, UNCHANGED pageVars, faults' \in 0 .. MaxFaults,
         NEW s \in {"none", "store", "check", "publish", "remove", "reset"}, Goes(c, s),
         ledger' \in Statuses \cup {Absent, Broken}, upload' \in BOOLEAN, published' \in BOOLEAN,
         ServedIsClaimed', Keeps, Tells(c)
  PROVE  ClientInv'
<1> USE DEF ClientInv
<1>0. UNCHANGED <<pc, todo, worker, tries, acked>>
  BY DEF pageVars
<1>1. serving' = [serving EXCEPT ![c] = s] /\ orphans' \in {orphans, orphans \ {c}, orphans \cup {c}}
  BY DEF Goes
<1>2. TypeOK'
  <2>1. answer' \in [Chunks -> {"none", "success", "last", "429", "json", "html"}]
    BY DEF Tells, TypeOK
  <2>2. serving' \in [Chunks -> {"none", "store", "check", "publish", "remove", "reset"}]
    BY <1>1 DEF TypeOK
  <2>3. orphans' \subseteq Chunks
    BY <1>1 DEF TypeOK
  <2> QED BY <1>0, <2>1, <2>2, <2>3 DEF TypeOK, Statuses
<1>3. Attended'
  <2> SUFFICES ASSUME NEW d \in Chunks PROVE AttendedAt(d)'
    BY DEF Attended
  <2>1. answer'[d] # "none" => worker[d] = "sent"
    BY DEF Tells, TypeOK, Attended, AttendedAt
  <2>2. CASE d = c
    <3>1. serving'[c] = s
      BY <1>1 DEF TypeOK
    <3>2. CASE s = "none"
      BY <1>0, <2>1, <2>2, <3>1, <3>2 DEF Attended, AttendedAt, Goes
    <3>3. CASE s = "reset"
      BY <1>0, <2>1, <2>2, <3>1, <3>3 DEF Attended, AttendedAt, Goes
    <3>4. CASE s \notin {"none", "reset"}
      BY <1>0, <2>1, <2>2, <3>1, <3>4 DEF Attended, AttendedAt, Goes
    <3> QED BY <3>2, <3>3, <3>4
  <2>3. CASE d # c
    <3>1. serving'[d] = serving[d] /\ (d \in orphans' <=> d \in orphans) /\ answer'[d] = answer[d]
      BY <1>1, <2>3 DEF TypeOK, Tells
    <3> QED BY <1>0, <2>3, <3>1 DEF Attended, AttendedAt
  <2> QED BY <2>2, <2>3
<1>4. AnswersHold'
  <2> SUFFICES ASSUME NEW d \in Chunks
               PROVE  /\ answer'[d] = "last" => Over'
                      /\ answer'[d] = "success" => d \in Completed' \/ Over' \/ ledger' = Broken
    BY DEF AnswersHold
  <2>1. CASE answer'[d] = answer[d]
    BY <2>1 DEF AnswersHold, Keeps
  <2>2. CASE answer'[d] # answer[d]
    <3>1. d = c
      BY <2>2 DEF Tells, TypeOK
    <3>2. /\ answer'[c] = "last" => Over'
          /\ answer'[c] = "success" => c \in Completed
      BY <2>2, <3>1 DEF Tells, TypeOK
    <3> QED BY <3>1, <3>2 DEF Keeps
  <2> QED BY <2>1, <2>2
<1>5. Counted' /\ AckedHold' /\ (pc' = "announced" => Over')
  BY <1>0 DEF Counted, AckedHold, Keeps
<1>6. LastIsTold'
  <2>1. CASE \A d \in Chunks : answer'[d] = "success" => answer[d] = "success"
    BY <1>0, <2>1 DEF LastIsTold
  <2>2. CASE ~ \A d \in Chunks : answer'[d] = "success" => answer[d] = "success"
    <3>1. /\ \A d \in Chunks \ {c} : answer'[d] = answer[d]
          /\ c \in Completed /\ Completed # Chunks /\ ledger \notin {Absent, Broken}
      BY <2>2 DEF Tells, TypeOK
    <3>2. PICK d \in Chunks : d \notin Completed
      BY <3>1, OneStatus
    <3>3. d # c /\ d \notin acked /\ answer[d] # "success"
      BY <3>1, <3>2 DEF AckedHold, AnswersHold, Over
    <3> QED BY <1>0, <3>1, <3>3 DEF LastIsTold
  <2> QED BY <2>1, <2>2
<1> QED BY <1>2, <1>3, <1>4, <1>5, <1>6

(* Books that stay as they are keep what they say. *)
LEMMA DiskKeeps ==
  ASSUME UNCHANGED <<ledger, published>>
  PROVE  Completed' = Completed /\ Ongoing' = Ongoing /\ Over' = Over /\ Keeps
BY DEF Completed, Ongoing, Listed, Over, Keeps

(* A request that goes on without touching the books. *)
LEMMA StageClient ==
  ASSUME ClientInv, NEW c \in Chunks, UNCHANGED pageVars, faults' \in 0 .. MaxFaults,
         UNCHANGED <<ledger, published>>, upload' \in BOOLEAN,
         NEW s \in {"none", "store", "check", "publish", "remove", "reset"}, Goes(c, s),
         s = "reset" => serving[c] \in {"store", "reset"},
         s = "store" => serving[c] = "store",
         s = "check" => serving[c] = "check",
         s = "publish" => Completed = Chunks,
         s = "remove" => serving[c] = "publish" /\ published,
         Tells(c)
  PROVE  ClientInv'
<1>1. ServedIsClaimed'
  <2> SUFFICES ASSUME NEW d \in Chunks PROVE ClaimedAt(d)'
    BY DEF ServedIsClaimed
  <2>1. serving'[d] = IF d = c THEN s ELSE serving[d]
    BY DEF Goes, ClientInv, TypeOK
  <2>2. ClaimedAt(d) /\ ClaimedAt(c)
    BY DEF ClientInv, ServedIsClaimed
  <2> QED BY <2>1, <2>2, DiskKeeps DEF ClaimedAt
<1>2. ledger' \in Statuses \cup {Absent, Broken} /\ published' \in BOOLEAN /\ Keeps
  BY LedgerKinds, DiskKeeps DEF ClientInv, TypeOK
<1> QED BY <1>1, <1>2, ServerStep

(* An error for a PUT that claims nothing. *)
LEMMA RefusedClient ==
  ASSUME ClientInv, NEW c \in Chunks, Arriving(c), NEW a \in {"429", "json", "html"},
         answer' = [answer EXCEPT ![c] = a], UNCHANGED <<pageVars, upload, published, serving, orphans>>,
         faults' \in 0 .. MaxFaults,
         ledger' = ledger \/ ((\A d \in Chunks : serving[d] \notin {"publish", "remove"})
                              /\ ledger \in Statuses /\ ledger' = Broken)
  PROVE  ClientInv'
<1> USE DEF ClientInv
<1>0. /\ worker[c] = "sent" /\ UNCHANGED <<pc, todo, worker, tries, acked>>
      /\ serving[c] = "none" \/ c \in orphans
  BY DEF Arriving, pageVars
<1>1. TypeOK'
  BY <1>0, LedgerKinds DEF TypeOK, Statuses
<1>2. Attended'
  BY <1>0 DEF Attended, AttendedAt, TypeOK
<1>3. Keeps
  <2>1. CASE UNCHANGED ledger
    BY <2>1, DiskKeeps
  <2>2. CASE ledger \in Statuses /\ ledger' = Broken
    BY <2>2, LedgerKinds DEF Keeps, Over
  <2> QED BY <2>1, <2>2
<1>4. ServedIsClaimed'
  <2>1. CASE UNCHANGED ledger
    BY <2>1, DiskKeeps DEF ServedIsClaimed, ClaimedAt
  <2>2. CASE (\A d \in Chunks : serving[d] \notin {"publish", "remove"}) /\ ledger' = Broken
    BY <2>2 DEF ServedIsClaimed, ClaimedAt
  <2> QED BY <2>1, <2>2
<1>5. \A d \in Chunks : answer'[d] \in {"last", "success"} => answer'[d] = answer[d]
  BY DEF TypeOK
<1>6. AnswersHold' /\ Counted' /\ AckedHold' /\ (pc' = "announced" => Over')
  BY <1>0, <1>3, <1>5 DEF AnswersHold, Counted, AckedHold, Keeps
<1>7. LastIsTold'
  BY <1>0, <1>5 DEF LastIsTold
<1> QED BY <1>1, <1>2, <1>4, <1>6, <1>7

(* While a chunk is not completed, nobody publishes. *)
LEMMA NobodyPublishes ==
  ASSUME ServedIsClaimed, TypeOK, ledger \in Statuses, NEW c \in Chunks, c \notin Completed
  PROVE  \A d \in Chunks : serving[d] \notin {"publish", "remove"}
BY LedgerKinds DEF ServedIsClaimed, ClaimedAt

(* One chunk changes its status, by a step of its own request. *)
LEMMA StatusClient ==
  ASSUME ClientInv, NEW c \in Chunks, UNCHANGED <<pageVars, upload, published>>, faults' \in 0 .. MaxFaults,
         ledger \in Statuses, c \notin Completed,
         NEW x \in {"NotStarted", "Ongoing", "Completed"}, ledger' = [ledger EXCEPT ![c] = x],
         NEW s \in {"none", "store", "check"}, Goes(c, s), Tells(c),
         s = "store" => x = "Ongoing", s = "check" => x = "Completed"
  PROVE  ClientInv'
<1> USE DEF ClientInv
<1>1. /\ ledger' \in Statuses /\ ledger' \notin {Absent, Broken} /\ ledger \notin {Absent, Broken}
      /\ Completed' = IF x = "Completed" THEN Completed \cup {c} ELSE Completed \ {c}
      /\ Ongoing' = IF x = "Ongoing" THEN Ongoing \cup {c} ELSE Ongoing \ {c}
  BY StatusSet, LedgerKinds
<1>2. ServedIsClaimed'
  <2> SUFFICES ASSUME NEW d \in Chunks PROVE ClaimedAt(d)'
    BY DEF ServedIsClaimed
  <2>1. serving'[d] = IF d = c THEN s ELSE serving[d]
    BY DEF Goes, TypeOK
  <2>2. ClaimedAt(d) /\ serving[d] \notin {"publish", "remove"}
    BY NobodyPublishes DEF ServedIsClaimed
  <2>3. CASE d = c
    BY <1>1, <2>1, <2>3 DEF ClaimedAt
  <2>4. CASE d # c
    BY <1>1, <2>1, <2>2, <2>4 DEF ClaimedAt
  <2> QED BY <2>3, <2>4
<1>3. Keeps
  BY <1>1 DEF Keeps, Over
<1> QED BY <1>1, <1>2, <1>3, ServerStep DEF TypeOK

(* A write fails after the truncation: the books are a wreck. *)
LEMMA WreckClient ==
  ASSUME ClientInv, NEW c \in Chunks, UNCHANGED <<pageVars, upload, published>>, faults' \in 0 .. MaxFaults,
         c \in Ongoing, ledger' = Broken,
         NEW s \in {"none", "reset"}, Goes(c, s), Tells(c)
  PROVE  ClientInv'
<1> USE DEF ClientInv
<1>1. ledger \in Statuses /\ c \notin Completed /\ ~Over
  BY OneStatus, LedgerKinds DEF Ongoing, Listed, Over
<1>2. ServedIsClaimed'
  <2> SUFFICES ASSUME NEW d \in Chunks PROVE ClaimedAt(d)'
    BY DEF ServedIsClaimed
  <2>1. serving'[d] = IF d = c THEN s ELSE serving[d]
    BY DEF Goes, TypeOK
  <2>2. serving[d] \notin {"publish", "remove"}
    BY <1>1, NobodyPublishes
  <2> QED BY <2>1, <2>2 DEF ClaimedAt
<1>3. Keeps
  BY <1>1, LedgerKinds DEF Keeps
<1> QED BY <1>2, <1>3, ServerStep DEF TypeOK

(* Whom an answer reaches. *)
LEMMA ReplyTells ==
  ASSUME ClientInv, NEW c \in Chunks, serving[c] # "none",
         NEW a \in {"success", "last", "429", "json", "html"}, Reply(c, a),
         a = "last" => Over',
         a = "success" => c \in Completed /\ Completed # Chunks /\ ledger \notin {Absent, Broken}
  PROVE  Tells(c)
<1>1. c \notin orphans => worker[c] = "sent"
  BY DEF ClientInv, Attended, AttendedAt
<1> QED BY <1>1 DEF Reply, Tells

(* A request that ends in an error for the page. *)
LEMMA ErrorTells ==
  ASSUME ClientInv, NEW c \in Chunks, serving[c] # "none",
         NEW error \in {"UploadMetaIsBroken", "UploadChunkFailed", "IoError"}, Reply(c, Rendered(error))
  PROVE  Tells(c)
<1>1. Rendered(error) \in {"429", "json", "html"}
  BY RenderedValue DEF JsonErrors, HtmlErrors
<1> QED BY <1>1, ReplyTells

LEMMA EndGoes ==
  ASSUME NEW c \in Chunks, End(c)
  PROVE  Goes(c, "none")
BY DEF End, Goes

LEMMA UndoGoes ==
  ASSUME ClientInv, NEW c \in Chunks, serving[c] # "none", NEW error \in {"UploadMetaIsBroken", "IoError"},
         Undo(c, error)
  PROVE  Goes(c, "reset") /\ Tells(c)
BY ErrorTells DEF Undo, Goes

(* A request goes on to its next stage, for the same client. *)
LEMMA StageGoes ==
  ASSUME ClientInv, NEW c \in Chunks, NEW s \in {"store", "check", "publish", "remove"}, Stage(c, s),
         UNCHANGED answer, serving[c] # "none"
  PROVE  Goes(c, s) /\ Tells(c)
BY DEF ClientInv, Attended, AttendedAt, Stage, Goes, Tells

LEMMA ArriveClient ==
  ASSUME ClientInv, NEW c \in Chunks, Arrive(c) \/ ArriveTorn(c) \/ ArriveFails(c)
  PROVE  ClientInv'
<1> USE DEF ClientInv
<1>0. Arriving(c) /\ faults' \in 0 .. MaxFaults /\ UNCHANGED <<pageVars, upload, published>>
  BY BoundsAssumption DEF Arrive, ArriveTorn, ArriveFails, Fault, serverVars, diskVars, TypeOK
<1>1. CASE Arrive(c)
  <2>1. CASE /\ Refusal(c) = {} /\ ledger' = [ledger EXCEPT ![c] = "Ongoing"]
             /\ Stage(c, "store") /\ UNCHANGED answer
    <3>1. ledger \in Statuses /\ ledger[c] = "NotStarted"
      BY <2>1, RefusalValue
    <3>2. c \notin Completed
      BY <3>1 DEF Completed
    <3>3. Goes(c, "store") /\ Tells(c)
      BY <1>0, <2>1 DEF Goes, Stage, Arriving, Tells
    <3> QED BY <1>0, <2>1, <3>1, <3>2, <3>3, StatusClient
  <2>2. CASE /\ \E error \in Refusal(c) : answer' = [answer EXCEPT ![c] = Rendered(error)]
             /\ UNCHANGED <<ledger, serving, orphans>>
    <3>1. \E a \in {"429", "json", "html"} : answer' = [answer EXCEPT ![c] = a]
      BY <2>2, RefusalValue
    <3> QED BY <1>0, <2>2, <3>1, RefusedClient
  <2> QED BY <1>1, <2>1, <2>2 DEF Arrive
<1>2. CASE ArriveTorn(c)
  <2>1. \E a \in {"429", "json", "html"} : answer' = [answer EXCEPT ![c] = a]
    BY <1>2, RenderedValue DEF ArriveTorn, JsonErrors, HtmlErrors
  <2> QED BY <1>0, <1>2, <2>1, RefusedClient DEF ArriveTorn, serverVars, diskVars
<1>3. CASE ArriveFails(c)
  <2>1. \E a \in {"429", "json", "html"} : answer' = [answer EXCEPT ![c] = a]
    BY <1>3, RenderedValue DEF ArriveFails, JsonErrors, HtmlErrors
  <2>2. Refusal(c) = {} => ledger \in Statuses /\ \A d \in Chunks : serving[d] \notin {"publish", "remove"}
    <3>1. Refusal(c) = {} => ledger \in Statuses /\ c \notin Completed
      BY RefusalValue DEF Completed
    <3> QED BY <3>1, NobodyPublishes
  <2> QED BY <1>0, <1>3, <2>1, <2>2, RefusedClient DEF ArriveFails
<1> QED BY <1>1, <1>2, <1>3

LEMMA HandleClient ==
  ASSUME ClientInv, NEW c \in Chunks,
         Store(c) \/ OpenFails(c) \/ Check(c) \/ CheckTorn(c) \/ Rename(c) \/ Remove(c) \/ Reset(c)
  PROVE  ClientInv'
<1> USE DEF ClientInv
<1>0. UNCHANGED pageVars /\ faults' \in 0 .. MaxFaults /\ serving[c] # "none" /\ ClaimedAt(c)
  BY DEF Store, OpenFails, Check, CheckTorn, Rename, Remove, Reset, TypeOK, ServedIsClaimed
<1>1. CASE Store(c)
  <2>1. CASE Listed
    <3>1. Goes(c, "check") /\ Tells(c)
      BY <1>0, <1>1, <2>1, StageGoes DEF Store
    <3>2. c \notin Completed /\ ledger \in Statuses
      BY <1>1, <2>1, LedgerKinds, OneStatus, <1>0 DEF Store, ClaimedAt
    <3> QED BY <1>0, <1>1, <2>1, <3>1, <3>2, StatusClient DEF Store
  <2>2. CASE ~Listed
    <3>1. Goes(c, "reset") /\ Tells(c)
      BY <1>0, <1>1, <2>2, UndoGoes DEF Store
    <3> QED BY <1>0, <1>1, <2>2, <3>1, StageClient DEF Store, TypeOK
  <2> QED BY <2>1, <2>2
<1>2. CASE OpenFails(c)
  <2>1. Goes(c, "reset") /\ Tells(c)
    BY <1>0, <1>2, UndoGoes DEF OpenFails
  <2> QED BY <1>0, <1>2, <2>1, StageClient DEF OpenFails, diskVars, TypeOK
<1>3. CASE Check(c)
  <2>1. CASE Completed = Chunks
    <3>1. Goes(c, "publish") /\ Tells(c)
      BY <1>0, <1>3, <2>1, StageGoes DEF Check, SeesAll
    <3> QED BY <1>0, <1>3, <2>1, <3>1, StageClient DEF Check, diskVars, TypeOK
  <2>2. CASE Completed # Chunks
    <3>1. End(c) /\ Reply(c, IF Listed THEN "success" ELSE Rendered("UploadMetaIsBroken"))
      BY <1>3, <2>2 DEF Check, SeesAll
    <3>2. Tells(c)
      <4>1. CASE Listed
        <5>1. c \in Completed /\ ledger \notin {Absent, Broken}
          BY <1>0, <1>3, <4>1 DEF Check, ClaimedAt, Listed
        <5> QED BY <1>0, <2>2, <3>1, <4>1, <5>1, ReplyTells
      <4>2. CASE ~Listed
        BY <1>0, <3>1, <4>2, ErrorTells
      <4> QED BY <4>1, <4>2
    <3> QED BY <1>0, <1>3, <3>1, <3>2, EndGoes, StageClient DEF Check, diskVars, TypeOK
  <2> QED BY <2>1, <2>2
<1>4. CASE CheckTorn(c)
  BY <1>0, <1>4, EndGoes, ErrorTells, StageClient DEF CheckTorn, diskVars, TypeOK
<1>5. CASE Rename(c)
  <2>1. CASE upload
    <3>1. Goes(c, "remove") /\ Tells(c) /\ published' = TRUE /\ upload' = FALSE /\ UNCHANGED ledger
      BY <1>0, <1>5, <2>1, StageGoes DEF Rename
    <3>2. ServedIsClaimed'
      <4> SUFFICES ASSUME NEW d \in Chunks PROVE ClaimedAt(d)'
        BY DEF ServedIsClaimed
      <4>1. serving'[d] = IF d = c THEN "remove" ELSE serving[d]
        BY <3>1 DEF Goes, TypeOK
      <4>2. Completed' = Completed /\ Ongoing' = Ongoing
        BY <3>1 DEF Completed, Ongoing, Listed
      <4>3. ledger = Absent \/ Completed = Chunks
        BY <1>0, <1>5 DEF Rename, ClaimedAt
      <4>4. ClaimedAt(d)
        BY DEF ServedIsClaimed
      <4> QED BY <3>1, <4>1, <4>2, <4>3, <4>4 DEF ClaimedAt
    <3>3. Keeps
      BY <3>1 DEF Keeps, Over, Completed, Listed
    <3> QED BY <1>0, <3>1, <3>2, <3>3, LedgerKinds, ServerStep
  <2>2. CASE ~upload
    BY <1>0, <1>5, <2>2, EndGoes, ErrorTells, StageClient DEF Rename, TypeOK
  <2> QED BY <2>1, <2>2
<1>6. CASE Remove(c)
  <2>1. /\ published /\ ledger' = Absent /\ UNCHANGED <<upload, published>> /\ Over'
        /\ ledger = Absent \/ Completed = Chunks
    BY <1>0, <1>6 DEF Remove, ClaimedAt, Over
  <2>2. ledger # Broken /\ Ongoing = {}
    BY <2>1, NoList, OneStatus, LedgerKinds, ChunksAssumption
  <2>3. Goes(c, "none") /\ Tells(c)
    BY <1>0, <1>6, <2>1, EndGoes, ReplyTells DEF Remove
  <2>4. ServedIsClaimed'
    <3> SUFFICES ASSUME NEW d \in Chunks PROVE ClaimedAt(d)'
      BY DEF ServedIsClaimed
    <3>1. serving'[d] \in {serving[d], "none"}
      BY <2>3 DEF Goes, TypeOK
    <3> QED BY <2>1, <2>2, <3>1 DEF ServedIsClaimed, ClaimedAt
  <2>5. Keeps
    BY <2>1, <2>2 DEF Keeps
  <2> QED BY <1>0, <2>1, <2>3, <2>4, <2>5, ServerStep DEF TypeOK
<1>7. CASE Reset(c)
  <2>1. Goes(c, "none") /\ Tells(c) /\ UNCHANGED <<upload, published>>
    BY <1>7, EndGoes DEF Reset, Tells
  <2>2. CASE c \in Ongoing
    <3>1. c \notin Completed /\ ledger \in Statuses
      BY <2>2, OneStatus, LedgerKinds DEF Ongoing
    <3> QED BY <1>0, <1>7, <2>1, <2>2, <3>1, StatusClient DEF Reset
  <2>3. CASE c \notin Ongoing
    BY <1>0, <1>7, <2>1, <2>3, StageClient DEF Reset, TypeOK
  <2> QED BY <2>2, <2>3
<1> QED BY <1>1, <1>2, <1>3, <1>4, <1>5, <1>6, <1>7

LEMMA ServeFailsClient ==
  ASSUME ClientInv, NEW c \in Chunks, ServeFails(c)
  PROVE  ClientInv'
<1> USE DEF ClientInv
<1>0. UNCHANGED <<pageVars, upload, published>> /\ faults' \in 0 .. MaxFaults /\ ClaimedAt(c) /\ upload \in BOOLEAN
  BY BoundsAssumption DEF ServeFails, Fault, TypeOK, ServedIsClaimed
<1>1. CASE serving[c] = "store" /\ upload /\ Listed /\ GiveBack(c) /\ Reply(c, Rendered("UploadChunkFailed"))
  <2>1. Goes(c, "none") /\ Tells(c) /\ ledger' = [ledger EXCEPT ![c] = "NotStarted"]
    BY <1>1, EndGoes, ErrorTells DEF GiveBack
  <2>2. c \notin Completed /\ ledger \in Statuses
    BY <1>0, <1>1, LedgerKinds, OneStatus DEF ClaimedAt
  <2> QED BY <1>0, <2>1, <2>2, StatusClient
<1>2. CASE /\ serving[c] = "store" /\ Undo(c, "IoError")
           /\ ledger' = ledger \/ (upload /\ ledger' = Broken)
  <2>1. Goes(c, "reset") /\ Tells(c)
    BY <1>2, UndoGoes
  <2>2. CASE UNCHANGED ledger
    BY <1>0, <1>2, <2>1, <2>2, StageClient
  <2>3. CASE ledger' = Broken /\ ledger' # ledger
    BY <1>0, <1>2, <2>1, <2>3, WreckClient DEF ClaimedAt
  <2> QED BY <1>2, <2>2, <2>3
<1>3. CASE /\ serving[c] = "reset" /\ End(c) /\ UNCHANGED answer
           /\ ledger' = ledger \/ (c \in Ongoing /\ ledger' = Broken)
  <2>1. Goes(c, "none") /\ Tells(c)
    BY <1>3, EndGoes DEF Tells
  <2>2. CASE UNCHANGED ledger
    BY <1>0, <1>3, <2>1, <2>2, StageClient
  <2>3. CASE c \in Ongoing /\ ledger' = Broken
    BY <1>0, <2>1, <2>3, WreckClient
  <2> QED BY <1>3, <2>2, <2>3
<1>4. CASE /\ serving[c] \in {"check", "publish", "remove"} /\ End(c)
           /\ Reply(c, Rendered("IoError")) /\ UNCHANGED ledger
  BY <1>0, <1>4, EndGoes, ErrorTells, StageClient
<1> QED BY <1>1, <1>2, <1>3, <1>4 DEF ServeFails

LEMMA OrphanEndsClient ==
  ASSUME ClientInv, NEW c \in Chunks, OrphanEnds(c)
  PROVE  ClientInv'
<1> USE DEF ClientInv
<1>0. /\ UNCHANGED <<pageVars, upload, published, answer, faults>> /\ faults' \in 0 .. MaxFaults
      /\ ClaimedAt(c) /\ upload \in BOOLEAN /\ serving[c] # "none" /\ Tells(c)
  BY DEF OrphanEnds, TypeOK, ServedIsClaimed, Attended, AttendedAt, Tells
<1>1. CASE End(c) /\ UNCHANGED ledger
  BY <1>0, <1>1, EndGoes, StageClient
<1>2. CASE serving[c] = "store" /\ Undo(c, "IoError") /\ UNCHANGED ledger
  BY <1>0, <1>2, UndoGoes, StageClient
<1>3. CASE serving[c] = "store" /\ Listed /\ GiveBack(c)
  <2>1. Goes(c, "none") /\ ledger' = [ledger EXCEPT ![c] = "NotStarted"]
    BY <1>3, EndGoes DEF GiveBack
  <2>2. c \notin Completed /\ ledger \in Statuses
    BY <1>0, <1>3, LedgerKinds, OneStatus DEF ClaimedAt
  <2> QED BY <1>0, <2>1, <2>2, StatusClient
<1> QED BY <1>1, <1>2, <1>3 DEF OrphanEnds

(* The process ends; a page that waited for its list is stuck. *)
LEMMA DiesClient ==
  ASSUME ClientInv, Dies, faults' \in 0 .. MaxFaults,
         ledger' \in Statuses \cup {Absent, Broken}, upload' \in BOOLEAN, Keeps \/ pc = "post"
  PROVE  ClientInv'
<1> USE DEF ClientInv
<1>0. /\ serving' = Each("none") /\ orphans' = {} /\ answer' = Each("none")
      /\ UNCHANGED <<todo, acked, published>>
      /\ pc' = IF pc \in {"get", "post"} THEN "stuck" ELSE pc
      /\ worker' = [c \in Chunks |-> IF worker[c] = "sent" THEN "ready" ELSE worker[c]]
  BY DEF Dies
<1>1. PICK begun \in SUBSET {c \in Chunks : answer[c] # "none"} :
        tries' = [c \in Chunks |-> IF worker[c] # "sent" THEN tries[c]
                                   ELSE tries[c] - (IF c \in begun THEN 2 ELSE 1)]
  BY DEF Dies
<1>2. \A c \in Chunks : tries'[c] \in -1 .. Retries
  <2> SUFFICES ASSUME NEW c \in Chunks PROVE tries'[c] \in -1 .. Retries
    OBVIOUS
  <2>1. tries[c] \in -1 .. Retries /\ (worker[c] = "sent" => tries[c] >= 1) /\ Retries \in Nat
    BY BoundsAssumption DEF TypeOK, Attended, AttendedAt
  <2>2. CASE c \in begun
    BY <1>1, <2>1, <2>2
  <2>3. CASE c \notin begun
    BY <1>1, <2>1, <2>3
  <2> QED BY <2>2, <2>3
<1>3. TypeOK'
  <2>1. tries' \in [Chunks -> -1 .. Retries]
    BY <1>1, <1>2
  <2>2. worker' \in [Chunks -> {"none", "reading", "ready", "sent", "ended"}]
    BY <1>0 DEF TypeOK
  <2> QED BY <1>0, <2>1, <2>2 DEF TypeOK, Each, Statuses
<1>4. Attended'
  BY <1>0 DEF Attended, AttendedAt, Each, TypeOK
<1>5. ServedIsClaimed' /\ AnswersHold'
  BY <1>0 DEF ServedIsClaimed, ClaimedAt, AnswersHold, Each
<1>6. Counted' /\ AckedHold' /\ (pc' = "announced" => Over')
  BY <1>0 DEF Counted, AckedHold, Keeps
<1>7. LastIsTold'
  <2>1. \A c \in Chunks : answer'[c] # "success" /\ (worker[c] = "none" => worker'[c] = "none")
    BY <1>0 DEF Each
  <2> QED BY <1>0, <2>1 DEF LastIsTold
<1> QED BY <1>3, <1>4, <1>5, <1>6, <1>7

LEMMA DeathClient ==
  ASSUME ClientInv, Restart \/ \E c \in Chunks : Unwraps(c)
  PROVE  ClientInv'
<1> USE DEF ClientInv
<1>0. Dies /\ faults' \in 0 .. MaxFaults /\ UNCHANGED published
  BY BoundsAssumption DEF Restart, Unwraps, Dies, Fault, TypeOK
<1>1. CASE UNCHANGED <<ledger, upload>>
  BY <1>0, <1>1, DiskKeeps, LedgerKinds, DiesClient DEF TypeOK
<1>2. CASE /\ Listed /\ UNCHANGED upload
           /\ ledger' = [c \in Chunks |-> IF c \in Ongoing THEN "NotStarted" ELSE ledger[c]]
  <2>1. ledger \in Statuses /\ ledger' \in Statuses
    BY <1>2, LedgerKinds DEF Statuses
  <2>2. ledger' \notin {Absent, Broken} /\ ledger \notin {Absent, Broken}
    BY <2>1, LedgerKinds
  <2>3. Completed \subseteq Completed'
    BY <1>2, <2>2, OneStatus DEF Completed, Listed
  <2>4. Keeps
    BY <2>2, <2>3 DEF Keeps, Over
  <2> QED BY <1>0, <1>2, <2>1, <2>4, DiesClient DEF TypeOK
<1>3. CASE Ongoing # {} /\ ledger' = Broken /\ UNCHANGED upload
  <2>1. Keeps
    BY <1>3, NoList DEF Keeps, Over
  <2> QED BY <1>0, <1>3, <2>1, DiesClient DEF TypeOK
<1>4. CASE pc = "post" /\ PostLeaves
  <2>1. ledger' \in Statuses \cup {Absent, Broken} /\ upload' \in BOOLEAN
    BY <1>4 DEF PostLeaves, Statuses, Each, TypeOK
  <2> QED BY <1>0, <1>4, <2>1, DiesClient
<1> QED BY <1>1, <1>2, <1>3, <1>4 DEF Restart, Unwraps

-----------------------------------------------------------------------------
(* Every step keeps the invariant. *)
LEMMA ClientStep == ClientInv /\ [Next]_vars => ClientInv'
<1> SUFFICES ASSUME ClientInv, [Next]_vars PROVE ClientInv'
  OBVIOUS
<1>1. CASE UNCHANGED vars
  <2>1. UNCHANGED <<pc, todo, worker, tries, acked, serverVars, answer, faults>>
    BY <1>1 DEF vars, pageVars
  <2>2. TypeOK' /\ Counted' /\ LastIsTold' /\ (pc' = "announced" => Over)
    BY <2>1 DEF ClientInv, TypeOK, Counted, LastIsTold, serverVars, diskVars
  <2>3. Attended'
    BY <2>1 DEF ClientInv, Attended, AttendedAt, serverVars
  <2> QED BY <2>1, <2>2, <2>3, PageStays
<1>2. CASE Submit \/ GetMeta \/ GetMetaTorn \/ PostMeta \/ MetaLost \/ PoolEnds \/ TryAgain \/ Leave
  BY <1>2, PageClient
<1>3. ASSUME NEW c \in Chunks, Spawn(c) \/ ReadFails(c) \/ Send(c) \/ Receive(c) \/ Lost(c)
      PROVE  ClientInv'
  BY <1>3, PromiseClient, ReceiveClient, LostClient
<1>4. ASSUME NEW c \in Chunks, Arrive(c) \/ ArriveTorn(c) \/ ArriveFails(c)
      PROVE  ClientInv'
  BY <1>4, ArriveClient
<1>5. ASSUME NEW c \in Chunks,
             Store(c) \/ OpenFails(c) \/ Check(c) \/ CheckTorn(c) \/ Rename(c) \/ Remove(c) \/ Reset(c)
      PROVE  ClientInv'
  BY <1>5, HandleClient
<1>6. ASSUME NEW c \in Chunks, ServeFails(c) \/ OrphanEnds(c)
      PROVE  ClientInv'
  BY <1>6, ServeFailsClient, OrphanEndsClient
<1>7. CASE Restart \/ \E c \in Chunks : Unwraps(c)
  BY <1>7, DeathClient
<1> QED BY <1>1, <1>2, <1>3, <1>4, <1>5, <1>6, <1>7 DEF Next

(* Every variable of the client and of the server keeps its type; a promise *)
(* never has fewer than minus one attempts left.                            *)
THEOREM ClientTypes == Spec => []TypeOK
<1>1. ClientInv => TypeOK
  BY DEF ClientInv
<1> QED BY <1>1, InitClient, ClientStep, PTL DEF Spec

(* "Upload complete" is announced only when the file has been published,    *)
(* whatever connections, bodies and pages break, however often the server   *)
(* aborts or is restarted, and whatever that leaves of the upload.          *)
THEOREM AnnouncedIsPublishedTheorem == Spec => []AnnouncedIsPublished
<1>1. ClientInv => AnnouncedIsPublished
  BY DEF ClientInv, AnnouncedIsPublished, Over
<1> QED BY <1>1, InitClient, ClientStep, PTL DEF Spec

(* The progress shown is never ahead of the books, as long as they can be   *)
(* read, or of the published file.                                          *)
THEOREM ProgressIsRealTheorem == Spec => []ProgressIsReal
<1>1. ClientInv => ProgressIsReal
  BY DEF ClientInv, ProgressIsReal, AckedHold, Over
<1> QED BY <1>1, InitClient, ClientStep, PTL DEF Spec

(* A page that sent some chunk, and was told of every chunk that it is      *)
(* stored, has announced the upload: of concurrent requests, the one that   *)
(* completes the last chunk never answers as if there were another.         *)
THEOREM SuccessIsAnnouncedTheorem == Spec => []SuccessIsAnnounced
<1>1. ClientInv => SuccessIsAnnounced
  BY DEF ClientInv, SuccessIsAnnounced, LastIsTold
<1> QED BY <1>1, InitClient, ClientStep, PTL DEF Spec
=============================================================================
