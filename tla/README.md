# simple-file-store: a verification project

TLA+ modules that model the parts of simple-file-store whose correctness rests on
interleavings, dropped requests and crashes, the TLC runs that check them on small instances,
and theorems about them checked by TLAPS. Paths such as `upload.rs:429` are relative to the
repository's `src/`.

## 1. The system

simple-file-store is one process: an axum server on tokio, whose state is the directory tree
under the store path plus a few statics. Requests run concurrently on the runtime's threads;
file work goes to `spawn_blocking` closures, which run to their end even when the request that
spawned them is dropped (the client disconnects, the runtime shuts down). Release builds abort on
a panic (`Cargo.toml`, `panic = "abort"`).

| Component | State | Operations | What makes it correct |
| --- | --- | --- | --- |
| Resumable upload, `upload.rs` `post`, `put`, `update_meta_file`, `OngoingChunkGuard` | per path: `<name>.resumable-meta` (a status for every chunk), `<name>.resumable-upload` (the bytes), `<name>` (the published file) | create; claim a chunk, stream it, complete it or give it back; publish when all are completed | one writer per chunk; a completed chunk is stored and stays completed; a published file is whole; a claim has an owner; an upload that is created is finished |
| Startup scan, `upload.rs:242`, `main.rs:63` | the metas of the whole tree | reset every `Ongoing` chunk before the listener is bound | claims of dead requests, and nothing else, are given up |
| Upload limits, `upload.rs:30-42`, `493-560` | two global semaphores, a map of weak references to per-path semaphores | acquire three permits or refuse with 429; drop them | no limit is exceeded, nothing leaks, the map stays small |
| Bytes of an upload, `upload.rs:79-88`, `414-425`, `456`, `562-611` | the bytes of `<name>.resumable-upload` | count chunks, check lengths, write a body frame by frame | the chunks cover the size; a request writes inside its chunk |
| Upload status, `upload.rs:308` | none | one unlocked read of the meta | |
| Download and listing, `files.rs:35-227` | none | `Range` arithmetic; metadata, open, stream; `read_dir` | the range is the one asked for, and of one upload; a listing is complete |
| Form upload, `files.rs:229-282` | `<name>.form-upload` | stream to the temporary name, rename | the published file is one client's, and the one answered for |
| `safe_join`, `safe_path.rs` | none | join a user path to the store path | the result is under the store path |
| Authentication, `auth.rs`, `login.rs` | the secret (random per process unless configured) | issue and check tokens | a session lasts as long as its cookie, and no longer than its token |
| Configuration, `config.rs` | `CONFIG`, read once | arguments, environment, defaults, checks | the options are those asked for; the limits admit a chunk |
| Web client, `assets/upload.js` | a pool of six requests, a retry count per chunk | GET or POST the meta, PUT the missing chunks | 429 is not a failure; what is announced is published |
| Errors, `errors.rs` | none | status and body of each error | |
| Templates, assets, `build.rs` | none | rendering, wording, embedding | |

How they interact: the client drives `post` and `put`; `put` takes its permits between the unlocked
read of the meta and the claim; all requests for one path share nothing but the three directory
entries, the lock on the inode of the meta, and the path's semaphore. The startup scan shares the
metas with nobody, because the listener is bound after it. Downloads see only what `rename` publishes; form uploads
and resumable uploads of one name publish under it in turn. Every handler but the assets asks `auth.rs` first.
The client knows the server by statuses and bodies alone, so `errors.rs` decides what it retries.

What is hard: the meta is read with and without the lock, and a long one in several parts; the lock is held on an inode and the file
is found by name; a writer truncates the meta before it writes it; a closure outlives its request and
acts on a claim that may have passed to another one; publishing takes three steps (check, rename,
remove) with requests and creations in between; the process may end anywhere. In the rest of the program: a form upload shares its temporary name with
every other one of that file; a download reads metadata and bytes of a name that is renamed over; the client retries what may have been done;
a token, a cookie and a secret have three different lifetimes. `PROJECT.json` lists these
hazards with their lines.

## 2. The modules

| Module | Models |
| --- | --- |
| `UploadLedger` | what resumable uploading promises about one path, each operation a single step |
| `ResumableUpload` | one upload path as the code handles it: requests, closures, inodes, faults, restarts |
| `ResumableUploadInv` | the inductive invariants of the proofs; `MCResumableUpload` extends it, so that TLC evaluates it too |
| `ResumableUploadProofs` | the theorems about `ResumableUpload`: types, and one writer per chunk |
| `ResumableUploadStored` | the theorems about the bytes: what is published, stored and final |
| `ResumableUploadLedger` | the theorems that `ResumableUpload` implements `UploadLedger`, that a claim has an owner, and that the last chunk is followed by a publication |
| `UploadAdmission` | what the three upload limits promise |
| `UploadPermits` | `UploadPermits::acquire` and the drop, permit by permit, and the semaphore map |
| `UploadPermitsProofs` | the theorems about `UploadPermits` |
| `ChunkBytes` | the bytes of several uploads of one path: number of chunks, accepted lengths, offsets, frames, late writes |
| `ChunkBytesProofs` | the theorems about `ChunkBytes`, the arithmetic of the number of chunks included |
| `ByteRanges` | `parse_range`, and a reference definition of what a range asks for |
| `FileServing` | one file name as `files.rs` serves it: form uploads, a resumable one that publishes, downloads, listings; extends `ByteRanges` |
| `FileServingProofs` | the theorems about `ByteRanges` and `FileServing` |
| `Configuration` | `config.rs`: arguments, environment, defaults, checks, as operators |
| `SafePath` | `safe_join` and the names of a form upload, as operators on the parts of a path |
| `Process` | the process over its starts, with what it was configured with, and the tokens it issues; extends the two above |
| `ProcessProofs` | the theorems about `Process`, `Configuration` and `SafePath` |
| `ServerErrors` | `errors.rs`: which errors are 429, JSON, or a page |
| `UploadClient` | `assets/upload.js` uploading a file, composed with the server; extends `ServerErrors` |
| `UploadClientProofs` | the theorems about `UploadClient` |
| `MCResumableUpload`, `MCUploadPermits`, `MCChunkBytes`, `MCFileServing`, `MCProcess` | finite instances for TLC (`UploadClient` needs none) |

### ResumableUpload

*State.* `mpath`, `upath`, `fpath` are the directory entries of the meta, the upload file and the
published file; `meta[i]` and `written[i]` are the contents of inodes. A meta is a function from chunks
to statuses, or `Broken` when `read_from_file_sync` does not parse it (empty, or half written). A file
is the set of chunks that are on it. `pc[r]` is the await PUT `r` is suspended at; `head[r]` is the meta whose first
part it has read, and how that meta was then, when metas do not fit the buffer (`LongMeta`); `stage`, `opened`, `after` describe its closures of `update_meta_file`, of which it can have several at once: the claim, the way
back after a failed body (`fail`), the completion, and the reset that a dropped guard spawns. `ppc`, `pinode` are the
POSTs. `phase` is `boot` from the end of a process to the end of the scan. `faults` counts down the faults left.

*Actions.* `PutBegin` is `put` from its arrival to the start of the claim (`upload.rs:380-429`); `JobOpen`,
`JobLock`, `JobWrite`, `JobFails`, `JobWriteFails` are the steps of `update_meta_file` (open by name; flock, read, update,
truncate; write; an open, flock, read or truncation that fails and changes nothing; a write that fails); `EndJob` says what the awaiting request does next,
and starts the reset when an uncommitted guard goes out of scope. `PutOpen`, `PutWrite`, `PutBodyFails`, `PutCheck`,
`PutRename`, `PutRemove` are the rest of `put`, `PutDropped` the drop of its future at any of its awaits (a rename or a
removal that is awaited goes on, so the drop at the rename is the one at `remove`, before the removal is begun).
`PutCheckHead` and `PutCheckTail` are the last read of a meta longer than the buffer of its reader (8 KiB, about a thousand chunks): a first part, and the rest of whatever the
file holds by then. Every write of a meta orders the chunks anew, so the two parts of two versions, if they parse together, name some chunks twice and others not at all;
`TornAllCompleted` says when such a mix has only completed ones.
`PostBegin`, `PostTruncate`, `PostFill`, `PostFillFails`, `PostCreate`, `PostDropped` are `post`; `Crash`, `Scan`, `ScanFails`, `ScanSkips` the
end of the process and the startup scan, with the meta it wrecks and the meta it cannot open, lock or read.

*Faults.* `Faults` selects the kinds a run allows: the drop of a future at a named await, `create` (a POST that is
dropped or fails before it has its upload file), `body` (a body that is broken off, too long or too short), `disk` (a meta that is
truncated and then not written), `crash`, and three for a meta that cannot be opened, locked, read or truncated: by a request that is told (`io`), by the reset of a guard, which
swallows the error (`reset`), and by the startup scan, which logs it (`scan`). An open of the upload file, a last read, a rename or a removal that fails ends a request as its drop does at that place. `MaxFaults` bounds how many happen in one behaviour.

*Abstractions.*
- A request that is refused (no meta, broken meta, unknown index, wrong length, no permit) changes nothing and is no step.
  Permits are left out here: they only decide which PUTs begin.
- The read of the meta in `PutBegin` and the start of the claim are one step. The claim looks at the meta again
  under the lock, so reading earlier only refuses other requests.
- A reader opens and reads a meta that fits the buffer in one step. The read in `PutBegin` decides nothing but whether the request begins, so it is one step for a long meta too. A future resumes in the last step of the closure it awaits.
- The bytes of a chunk reach the file in one step, and a chunk is either stored or not.
- An inode is reused only when no entry names it and nobody has it open, as the file system does.
- The scan is atomic but for a crash or a failed write between its truncation and its write: nothing else runs, and per path it is one
  `update_meta_file`.
- The number of chunks of a path is fixed, as it is for a configured chunk size and clients that create the same file.
- `fallocate` failing is `PostDropped`: the meta is there, the upload file may be too, but holds nothing.

`SerialCreate` is a discipline of the clients, not of the server: a POST is sent while no other request for the
path is running, which one client following `assets/upload.js` does. Section 5 says what happens otherwise.

### UploadPermits

`pc[r]` goes through the permits in the order of `acquire` and back in the order fields and locals are dropped in:
a refusal gives back what was taken in reverse, the drop of `UploadPermits` goes field by field. `arc[r]` is the strong reference to a
semaphore that `r` holds, `map` the weak references; a weak reference upgrades (`Live`) as long as somebody
holds a strong one. `Lookup` is one step, because it runs inside the mutex. `Unit` stands for the 1 MiB of the
byte budget, `MaxPermits` for `u32::MAX`. A declared length may exceed the budget: the configuration compares the budget with its own chunk size, and `put` compares
the length with the one in the meta, which may come from an earlier process.

### ChunkBytes

*State.* `info[u]` is upload `u` of the path with its size, chunk size and statuses, `meta` the upload the path has a meta for (or
none), `file[u]` its bytes, each marked with the PUT that wrote it. A PUT (`put[r]`) reads the meta and is checked
(`Read`: `upload.rs:380-425`), claims its chunk in the meta that is there by then (`Claim`), gets its body in frames (`Frame`, `Written`), and
completes or gives up (`Complete`, `Fail`). `Next` offers every chunk of the upload and every length up to one more than a chunk, zero included. A frame under way when its request fails or is dropped is written all the same (`WrittenLate`). A write beyond the end of the file
fills the gap with `Hole`, as `pwrite` does. `Stale(r)` says that a request claimed its chunk in another upload than the one it was checked against.
`F64` is the f64 nearest to a fraction with `Precision` bits, ties to even, so that `ChunksCount` rounds as `upload.rs:80` does; `Scales` says
which powers of two bring a fraction to that many bits, and `ScaleAssumption` that the exponents of an f64 reach every fraction the program meets. `LastIndex`
wraps in `Width` bits. Claim, completion and publishing are single steps here, because `ResumableUpload` has their insides.

### FileServing

*State.* A file is a sequence of blocks marked with the upload they came from; `temp` and `final` are the entries `<name>.form-upload` and `<name>`.
`FormCreate` (`File::create`, which takes an existing file and empties it), `FormWrite`, `FormBroken`, `LateWrite` and `FormRename`
are `post` of `files.rs`; `ResumablePublish` is the rename at `upload.rs:484`. A download is `GetStat` (metadata, `parse_range`, the headers), `GetOpen`
and `GetRead`, a block at a time; a listing is `ListNames`, `ListRow` for each entry, `ListVanished`, `ListDone`. `crowded` is a history variable: the
inodes that were opened as a temporary file while another form upload, or the last write of one, was under way.
The end of the process is a broken request for each upload, so it has no action of its own.

`ByteRanges` abstracts a header to what `parse_range` tells apart: unit, list or not, dash or not, and two fields that are blank, numbers or neither.
Uploads with different names do not meet, except that `x.form-upload` is a name a client can use too; that is left out.

### Process

*State.* `config`, `secret`, `up` are the process; `starts` counts its starts; `flight` is a login answer on its way, `jar` the browser's cookie.
`StartUp` loads the options (`Configuration!Loaded`) and either serves or exits; `Login`, `LoginAnswered`, `Stop`, `Tick`. Answers to requests change
nothing, so `from_request_parts` and its optional form are operators, and the properties say what they answer in each state.
The loop over the arguments and the walk along a path are recursive functions over the place they have come to (`Turns`; `Resolve`, one `Walk` per part). A secret that is drawn is a
record of the start that drew it. Time is in seconds; `Width` bits for `u64`, `Leeway` for the 60 seconds of the JWT library.

### UploadClient

*State.* `pc` is the page, `worker[c]`, `tries[c]` the promise of a chunk, `todo`, `acked` its lists. On the server, `ledger` is the meta (the statuses, `Absent`, or `Broken`),
`upload` and `published` say whether the upload file and the file are there, `serving[c]` is how far the request for chunk `c` has come, `orphans` are the requests whose connection is gone;
`answer[c]` is the answer on its way.

*Actions.* `GetMeta`, `GetMetaTorn`, `PostMeta`, `MetaLost` are the first two fetches; `Spawn`, `ReadFails` (an `arrayBuffer()` that rejects) and `PoolEnds` are `makePromisePool`; `Send`, `Receive`, `Lost` the
retry loop; `TryAgain` is the user who loads the page anew when nothing goes on, `Leave` one who does so earlier. On the server, `Arrive` is `put` up to the end of its claim with the refusals in
their order, `ArriveTorn`, `ArriveFails` what else may refuse it; `Store`, `OpenFails`, `Check`, `CheckTorn`, `Rename`, `Remove` are its steps from there, `Unwraps` the abort of the process
when the meta is gone at `Check`, `Reset` the task of a guard, `ServeFails` an error in any of them, `OrphanEnds` the drop of a request whose connection is gone: during its claim, which nobody then undoes, while it waits for
the body, after a failed one, or after its completion. `Restart` is the end of the process and the startup scan of the next.

A step is a fault only when something fails: a broken connection, a failed body or disk, an expired login, a page left in the middle, the end of the process. These may wreck the meta (`ServeFails`, `ArriveFails`, `Restart`), leave it without an upload
file (`PostLeaves`), or leave a chunk claimed (`OrphanEnds`). `MaxFaults` bounds them. Torn reads and the abort are interleavings, and cost nothing.
A request that is refused holds its permit for no time, and the global limits are not reached; more 429s than the model has change nothing, because they are waited out.

Three conditions are those of the serial runs of `ResumableUpload`, which has the cases beyond them: an upload is created when no earlier request is left on the server (`MayCreate`), no request is dropped while its closure gives the chunk back or completes it, and a
meta is read whole, or not at all while it is being rewritten.

## 3. The runs

| Run | Shows |
| --- | --- |
| `ResumableUploadSerial` | with `SerialCreate`, a meta that fits the buffer, three PUTs on three chunks and two faults of any kind except drops at `fail` and `complete`: `OneWriterPerChunk`, `PublishedIsComplete`, `CompletedIsStored`, `CompletedIsFinal`, and the model implements `UploadLedger` (`LedgerSpec`) |
| `ResumableUploadClaims` | with concurrent POSTs, metas that do not fit the buffer, two meta inodes, and every fault but a drop at the claim and an I/O error of a reset or of the scan (section 5): a chunk that is `Ongoing` has a request that holds it or a reset under way (`OngoingHasOwner`) |
| `ResumableUploadResume` | under fairness: an upload that is created is finished (`ResumeSucceeds`), and whenever all chunks are completed some request is still there to publish (`LastChunkFinalises`), after a drop at `open` or `stream`, a failed body or an I/O error at the meta, one of them in a behaviour |
| `UploadPermitsLimits` | three requests, four paths, lengths of 0, 5, 11 and 17 against a budget of 11 in units of 4: `OneSemaphorePerPath`, `PerUploadLimit`, `NothingLeaks`, `MapBounded`, `RefusedOnlyUnderLoad`, and the model implements `UploadAdmission` |
| `FileServing` | two form uploads of two and one blocks, a resumable one of none, a download with ten kinds of `Range` headers, a listing, and an old file or none: `PublishedIsWhole`, `AnsweredIsPublished`, `DownloadIsOneVersion`, `DownloadIsTheRange`, `ListingIsComplete` |
| `ChunkBytes` | three PUTs on two uploads in a row, sizes 0, 3, 4 and 7, chunk sizes 1, 2 and 3, any chunk and any length: `ChunksCover`, `InsideItsChunk`, `CompletedHasItsBytes`, `PublishedLength` |
| `Process` | two starts with eighteen command lines and two environments, five seconds, paths of up to three parts: `ServesWhatWasAsked`, `SessionLasts`, `SessionEnds`, `StaysInStore` |
| `UploadClient` | three chunks, a pool of two, two attempts for each, two faults, any number of torn reads and aborts: `AnnouncedIsPublished`, `SuccessIsAnnounced`, `ProgressIsReal`, and under fairness `UploadSucceeds`: a user who tries again succeeds, unless a fault has stranded the upload (a wrecked meta, a chunk claimed for nobody, no upload file, or all chunks completed and nobody about to publish them) |
| `ResumableUploadUnwrap`, `ResumableUploadOrphan`, `ResumableUploadTwoWriters`, `ResumableUploadUnfinished` | disagreements between the code and what its comments, assertions and documents say: section 5 |

*Bounds.* Three PUTs are the fewest that can disagree about two others (a late closure frees a claim, a second request takes
it, a third takes it again); three chunks leave one neither first nor last. One POST at a time is all `SerialCreate` allows; the run
without it has two meta inodes, so that a closure can be left with an unlinked one. Two faults let one strike while the other is being cleaned up.
In `UploadPermitsLimits` every limit is small enough to refuse: two permits for three requests, one per path, three units of
budget against lengths of two, three and more than three (a length of 0 takes one); `MaxPermits` is four units, one less than the longest length would take; four paths for three requests make the map need its sweep.
In `FileServing` the sizes are all different, and the ranges lie before, at and beyond each of them; two form uploads are the fewest that share a name, and three
have been checked once. In `ChunkBytes` two significant bits bring the limit of f64 down to 4, with sizes below it, at it and beyond; uploads have up to seven chunks; three PUTs let a late write
of one meet a chunk that a second has completed, and a third publish. In `Process` a u64 of three bits wraps within the clock, the leeway is one second, and the
command lines meet each rule of the parsing. In `UploadClient` the server admits two requests: two last completions can meet, and a request left behind by a broken connection makes the next ones meet 429; with two attempts, a fault or a torn read is enough to bring a chunk to its last one.
The run `ResumableUploadSerial` with `LongMeta` TRUE and no faults at all ends in the violation that section 5 describes.
Symmetry reduction is used in runs that check safety only.

*Deadlock.* The runs `ResumableUploadSerial` and `ResumableUploadClaims` do not check it, because they allow `disk` and `crash` faults: a meta that stays broken
stops the path for good, in the code as in the model. `FileServing`, `ChunkBytes` and `Process` do not, because their requests and starts are used up;
`UploadClient` does not, because the upload is over after its announcement. All other runs check it.

*Fairness* (`FairSpec`). Weak fairness of the steps of a request and of the scan: tokio polls every
ready future and runs every closure it was given. Strong fairness of the steps of a closure: a waiter for an flock is queued by the
kernel and gets its turn, though the lock is taken again and again. Strong fairness of `PutBegin` for every chunk: it is an assumption
about clients, the one `docs/client-concurrency.md` asks for ("Retry individual chunks instead of restarting the
entire upload"). No fairness is assumed of faults, nor of POSTs.
In `UploadClient`, weak fairness of the script, of requests on their way, and of the server's handlers, orphans included; and of `TryAgain`, which is an assumption about the user,
who sees an upload that does not announce its end. `UploadSucceeds` supposes that torn reads and aborts happen finitely often: nothing but chance keeps a reader from finding every meta in the middle of a write.

## 4. The theorems

For every number of requests, chunks, inodes and faults:

- `TypeCorrect`: `Spec => []TypeOK`. It needs `TypeInv`, which adds that a closure works for a request that awaits it or is gone and
  still has its chunk, has an inode open exactly from its open to its end, and has bytes to write when it writes.
- `OneWriterPerChunkTheorem`: `SerialRun /\ Spec => []OneWriterPerChunk`, where `SerialRun` is `SerialCreate`, not `LongMeta`, and no drops at `fail` and
  `complete`, the same as in the run. The
  property says nothing of the meta, so it is not inductive; `SerialInv` relates the two. A request *claims* its chunk from the write of
  its claim to the write that gives it back or completes it. For a claimed chunk the meta says `Ongoing`, and so does whatever a closure is about
  to write (`ClaimIsMarked`); since the claim vetoes everything but `NotStarted` under the lock, a second claim is impossible
  (`OneClaim`). That a closure works on the meta that has the name, and not on an older inode, is
  `OpenedHere` and `Unlinked`: the meta only loses its name when it is all `Completed` (`SeenFinished`), and a closure left
  with such an inode has nothing to do. `Attached` is where `SerialRun` enters: a closure that completes a
  chunk or gives it back still has its request. The proof has one lemma per action; `EndJobSerial`, `QuietlySerial` and `IdleSerial` are the three cases
  most actions reduce to.
- `PublishedIsCompleteTheorem`, `CompletedIsStoredTheorem` (`ResumableUploadStored`), under the same `SerialRun`. The invariant `StoredInv` ties the
  three directory entries together: while the upload file has its name, every chunk the meta calls `Completed`, or that a closure is about to call
  so, is in it (`SaidIsStored`); a meta without its file is one nobody has written for yet, or a finished one whose file has just been
  published (`FileIsMissing`); a request that streams or completes holds the inode that has the name (`WritesTheFile`). A rename then
  publishes a whole file because `SeenFinished` of `SerialInv` says that what `put` saw unlocked still holds. Most steps reduce to
  `KeepsStored`; the others have a lemma each.
- `CompletedIsFinalTheorem`: the action property, from `SerialInv`. `StatusForms` says what `Status` is in each
  state of the meta (being rewritten, being created, at rest); `LockedMeta`, that a closure which goes on to write only touches a chunk that is not `Completed`.
- `LedgerTheorem` (`ResumableUploadLedger`): `SerialRun /\ Spec => LedgerSpec`, step by step from the three invariants above. The ledger's status is that of the meta, or the one
  a closure is about to write while the meta is truncated, so truncating is a stutter and the step of the ledger is the lock for a claim, a completion or a release. Most actions are stutters
  by `WritersStay` (what is being written, and by whom, does not change); `JobLock`, `PutWrite`, `PutRename`, `PutRemove`, the POST, the end of
  the process and the scan have a lemma each.
- `OngoingHasOwnerTheorem`: `NoOrphans /\ Spec => []OngoingHasOwner`, where `NoOrphans` excludes a drop at the claim, the case of run `ResumableUploadOrphan`, and an I/O error of a reset or of the scan (`reset`, `scan`), after which the chunk stays `Ongoing`; it does not need
  `SerialRun`. `OwnerInv` speaks of the chunk as it will be: a chunk some meta or closure is going to call `Ongoing` (`Wanted`) has a request or a closure that is going to
  answer for it (`Answered`), also while the meta is being rewritten; closures that are left with a meta whose name is gone do not count. `WritersApart` is the lock that makes this add up.
- `LastChunkFinalisesTheorem`: `NoOneLeaves /\ Spec => []LastChunkFinalises`, where `NoOneLeaves` is `SerialRun` without the drops that leave an upload
  unpublished (run `ResumableUploadUnfinished`) and crashes between the last completion and the rename. `ClosingInv`: when all chunks are completed there is a request on its way to
  publish (`SomeoneCloses`), and when the file is published there is one to remove the meta (`SomeoneRemoves`). The hard step is the completion of a chunk that is
  not the last: of several requests the one that completes last finds all of them completed.
- `OneSemaphorePerPathTheorem`, `PerUploadLimitTheorem`: for every limit and any number of requests and paths. The invariant says that
  a strong reference for a path goes to the semaphore the map names for that path, that distinct paths have distinct live semaphores,
  and that the permits out of a live semaphore are those of the requests that use it.
- `PermitsTypes`, `NothingLeaksTheorem`, `MapBoundedTheorem`, `RefusedOnlyUnderLoadTheorem`, `AdmissionTheorem`, by the same way. `CountInv` counts what is out: the permits left and the requests that hold one are `MaxGlobal`
  (`GlobalConserved`); the units left and those of the requests that hold some are `MaxUnits` (`BytesConserved`); nobody holds more than there are (`UnitsFit`).
  `MapInv` says that two paths never share a semaphore, so the entries left after a sweep, and the one that is added, are no more than the requests. `RefusedOnlyUnderLoadTheorem` needs besides that what is within the budget takes no more units than the budget has (`LengthFits`): both are rounded up. `AdmissionTheorem` maps a request to
  admitted from its last permit to its first release; what the ledger of `UploadAdmission` allows at the last permit is what the counts above leave.
- `ClientTypes`, `AnnouncedIsPublishedTheorem`, `ProgressIsRealTheorem`, `SuccessIsAnnouncedTheorem` (`UploadClientProofs`), for every number of chunks, size of pool, limit,
  number of attempts and number of faults. A chunk the page counts need not be `Completed` in the ledger any more, since the last chunk takes the ledger away; so
  `ClientInv` says of what is counted (`AckedHold`) that it is `Completed`, *or* the upload is `Over` (published, no ledger), *or* the ledger is wrecked; an answer on its way holds under the same alternatives (`AnswersHold`). `Attended` ties
  promises, requests and answers together, so that an answer is never taken for another attempt's; `ServedIsClaimed` says in which state a chunk is at each stage of its request, so that
  one that is being stored cannot be completed, and the file not published, behind its back. `Over` is stable while a page is there that counts on it: a POST creates a ledger under the name of a published file, but only for
  a page that has counted nothing yet and with no answer on its way. `Counted` says that a page without a list of chunks counts none. `LastIsTold` carries `SuccessIsAnnounced`: as long as a page that sent something has not announced,
  not all of its chunks are counted or on their way with an answer other than the last.
- `ChunkBytesTypes`, `InsideItsChunkTheorem`, `CompletedHasItsBytesTheorem`, `PublishedLengthTheorem` (`ChunkBytesProofs`), for every number of uploads and PUTs, all sizes and chunk sizes, every chunk and every declared length. A completed chunk
  has its bytes because what its request has sent is there (`SentInv`), it had sent all of it (`ByInv`), and one chunk has one request
  that streams into it (`StreamInv`, `OverInv`); late frames of dropped requests, and stale ones, are the exception the property states. The length of the published file is `FileInv` (at least the declared size,
  and within the chunks), which takes `ChunksCoverTheorem`.
- `ChunksCoverTheorem`: the number of chunks computed in f64 is the size divided by the chunk size, rounded up, for every size up to `2 ^ Precision`. Three roundings are involved: of the size, which is exact (`ExactUpTo`); of
  the chunk size, which is exact or leaves it at least as long as any such size (`LongStaysLong`); and of the quotient, before it is rounded up (`QuotientCeil`). The last could only go wrong across an integer. Rounding
  keeps the order with the values it can represent (`NearestIs`), so what has to be excluded is a quotient just above an integer that is rounded down to it; the quotient exceeds the integer by at least one over the chunk size, which is
  more than half of the last bit because the size is at most `2 ^ Precision`; where it is just half (that size, and a chunk size of a power of two), the quotient is exact.
- `StaysInStoreTheorem` (`ProcessProofs`): what `safe_join` accepts stays in the store, for every sequence of parts. `ProcessTypes`, `ServesWhatWasAskedTheorem`, for every command line and
  environment; `SessionLastsTheorem`, `SessionEndsTheorem`, for every clock that does not overflow. `ProcessInv` says that what is served is what the options of a start ask for (`ServingInv`) and that a token the browser has or is
  being sent was signed in the past, and expires when the options said (`TokensInv`). The loops over arguments and parts are recursive functions, so these theorems need induction over *numbers*,
  which the lemma `Induction` gives from the least-number principle, a property being a set of numbers; `Iterates` says that the recursive functions exist, `LastValues` that the last mention of an option counts, and `Inside` what a
  walk along a path preserves.
- `ParseRangeTheorem` (`FileServingProofs`): for every header and size, `parse_range` against the reference `Wanted`.
- `ServingTypes`, `PublishedIsWholeTheorem`, `AnsweredIsPublishedTheorem`, `DownloadIsOneVersionTheorem`, `DownloadIsTheRangeTheorem`,
  `ListingIsCompleteTheorem`, for every number of form uploads and downloads and every size. None of the properties is inductive: that the published file is whole depends on what
  the rename takes, and that depends on who has written to the temporary file. `ServingInv` says that a request whose inode is not crowded is the only one under way and
  has the temporary name (`Alone`), that what is in that inode is exactly what it has sent (`Body`), and that an inode somebody else can see, under the final
  name or in a download, is never the temporary one (`NamesHold`) and is whole unless crowded (`PublicIsWhole`). `Settled` and `Streamed` are what a download has from
  the metadata, the open and the reads; `DeclaredRange` brings `ParseRangeTheorem` to it.

*Assumptions* are those of the modules' `ASSUME`s, which TLC evaluates: `None`, `Broken`, `Absent`, `Zero`, `Hole`, `Blank` and `Garbage` are distinct from the data (`NoneAssumption`, `NoUploadAssumption`, `NamesAssumption`,
`ConfigurationAssumption` and the like); `Chunks` is finite and not empty, `Reqs` is finite; limits and chunk sizes are positive (as `Config::from_env_and_cli` enforces); sizes are natural numbers, requests are `Headers`,
command lines are sequences of strings (`InputAssumption`). Three are about numbers: an f64 has at least one bit and exponents for every fraction (`PrecisionAssumption`, `ScaleAssumption`); an upload has no more chunks than a number of
`Width` bits counts (`CountAssumption`); `2 ^ Width` is a natural number (`WidthAssumption`), which the provers are told because exponentiation is opaque to them. Three more are hypotheses of theorems, because the code does not guarantee them: `SerialRun`,
`NoOrphans` and `NoOneLeaves`. None of them can be dropped: section 5 has the runs and the cases where the properties fail without.

*Only model-checked*: liveness (`UploadSucceeds`, `ResumeSucceeds`), which is out of the prover's reach, and the four runs that expect a violation. Every invariant, both action properties and both
refinements that the runs check are theorems as well. The inductive invariants were checked by TLC before they were proved; those of `ResumableUpload` are in
`ResumableUploadInv`, which `MCResumableUpload` extends, so that a configuration can name them.

## 5. Where the code and its documents disagree

- `ResumableUploadUnwrap`: `put` unwraps the meta it reads after the completion (`upload.rs:480-482`). When two PUTs complete the last
  two chunks, the other one can have published the file and removed the meta; the unwrap panics and the process aborts.
- `ResumableUploadOrphan`: the comment at `upload.rs:441-444` wants no await between the transition to `Ongoing` and the guard. The await of
  `update_meta_file` is one: a future dropped there leaves the closure running, the chunk is marked, and no guard resets it before the next restart.
- `ResumableUploadTwoWriters`: the closure that gives a chunk back after a failed body does not look at the status (`upload.rs:463-466`), and
  a request dropped while awaiting it spawns the reset too. Whichever comes second can free the claim of a later request, so that two write one chunk, which
  the changelog lists as fixed.
- `ResumableUploadUnfinished`: a request dropped after it completed the last chunk (between `upload.rs:477` and `484`) leaves an
  upload that every retry finds completed and nobody publishes.

The following come up when one leaves the bounds or the conditions of the passing runs. They have no run of their own:

- Without `SerialCreate`, a second POST truncates the meta of an upload under way (`upload.rs:332`), and a PUT that has seen all
  chunks completed renames the empty file of the next upload of the same name (`upload.rs:484`), so `CompletedIsStored` and
  `PublishedIsComplete` fail; the read after the completion, which takes no lock, can find the meta truncated (`upload.rs:480`).
- "Check if all chunks are completed" (`upload.rs:479`) reads the meta without the lock, through a `BufReader` (`upload.rs:125`), while `update_meta_file` truncates and rewrites the same inode.
  A meta longer than 8 KiB, of about a thousand chunks, takes several reads. The map of chunks is written in an order that is drawn anew for every write, and a key that occurs twice is accepted, so the first
  part of one version and the rest of the next can parse and lack a chunk that is still being uploaded: the file is published early. No fault is needed. In the model this is
  `ResumableUploadSerial` with `LongMeta` TRUE and `MaxFaults` 0, which violates `PublishedIsComplete` in a behaviour of 27 states.
- An I/O error in the reset of a guard is swallowed (`upload.rs:183`), and one in the startup scan is logged and the meta skipped, as its comment says (`upload.rs:239-241`): the chunk stays `Ongoing` until
  the next start, or for good (faults `reset` and `scan`, with which `OngoingHasOwner` fails).
- The configuration refuses a byte budget smaller than its chunk size (`config.rs:123`), but an upload keeps the chunk size it was created with (`upload.rs:418`). After a restart with a smaller chunk size and budget, the
  chunks of an earlier upload are refused with 429, always, and the script waits without end (`assets/upload.js:203`). `RefusedOnlyUnderLoad` is about the other lengths.
- The comment at `upload.rs:414-417` calls it safe to validate `chunk_size` and the number of chunks outside the lock, because they are fixed at
  the creation of the meta. They are fixed per upload; between the read and the claim the upload can be finished and another one created.
  `Stale` of `ChunkBytes` is that case: `InsideItsChunk` and `PublishedLength` fail when it is not excluded.
- An upload of size zero is refused by `fallocate` after its meta was written, and its name cannot be uploaded to resumably again (`upload.rs:356`).
- A size that an f64 cannot hold gets fewer or more chunks than it needs (`upload.rs:80`).
- Two form uploads of a name at once publish a mixture (`files.rs:264`); a form upload refused for its name leaves its temporary file (`files.rs:268`).
- A replaced file is sent under the `Content-Length` of the one before it (`files.rs:180`, `204`).
- `README.md:67-68` documents the short options `-c` and `-k` for the TLS files; `config.rs:364` and `369` accept `-C` and `-K`.
- `upload.rs:39-40` says of the entries of the semaphore map that a dead one is "swept opportunistically on the next acquire for that path", and `CHANGELOG.md:31` says the same; the code sweeps the entries of all paths, and only when
  it has to make a new semaphore (`upload.rs:535-552`), which its unit test expects. `MapBounded` is about the code.
- When the answer to the last chunk is lost, the client's retries meet `FileIsNotCreated`, and the next attempt uploads the whole file again.

## 6. What is not modelled, and the plan

Planned: the hypotheses of the theorems made as weak as they can be (`PublishedIsComplete` with concurrent POSTs while no upload is replaced; `OneWriterPerChunk` with a drop at
`complete`, which is harmful only together with a later claim); and a run of its own for the reads of a long meta.

Left out for good: TLS and connection handling (libraries; `main.rs` is modelled as far as the order of the scan, the configuration and the listener), rendering of templates and
error pages, the embedding of assets and the build script (no state), the order of the rows of a listing, name collisions between a client's `x.resumable-meta` or `x.form-upload` and the
program's own files, and the largest number of permits a semaphore of tokio can have.
