------------------------------ MODULE ChunkBytes ------------------------------
(***************************************************************************)
(* The bytes of resumable uploads of one path: how many chunks an upload   *)
(* has, which lengths a PUT may declare, and where its body is written.    *)
(* The protocol around the meta (ResumableUpload) is taken as atomic here; *)
(* what that module takes as atomic, the bytes of a chunk, is spread out:  *)
(* a body arrives in frames, each written by a closure of its own, which   *)
(* still lands after its request has been dropped.                         *)
(***************************************************************************)
EXTENDS Naturals, FiniteSets

CONSTANTS
  Puts,        \* PUT requests, each used once
  Sizes,       \* the sizes clients create uploads with
  ChunkSizes,  \* the values chunk_size has had, over restarts
  Uploads,     \* the uploads of the path are numbered 1 .. Uploads
  Precision,   \* the bits of an f64's significand: 53 in the code
  MaxExponent, \* bound on the powers of two TLC looks for in F64
  Width,       \* the bits of a usize: 64 in the code
  None, Hole   \* no upload; a byte that was allocated and not written

ASSUME SizesAssumption == Sizes \subseteq Nat /\ ChunkSizes \subseteq Nat \ {0}
ASSUME BoundAssumption == {Uploads, Precision, MaxExponent, Width} \subseteq Nat \ {0}
ASSUME WidthAssumption == 2 ^ Width \in Nat
ASSUME NamesAssumption == None \notin Nat \cup Puts /\ Hole \notin Puts

VARIABLES
  meta,   \* the number of the upload the path has a meta for, or None
  info,   \* info[u]: size, chunk_size and chunk statuses of upload u
  file,   \* file[u]: its bytes, each marked with the PUT that wrote it
  by,     \* history: by[u][c]: the PUT that completed chunk c
  put     \* put[r]: a PUT request

vars == <<meta, info, file, by, put>>

IdlePut == [pc |-> "idle", idx |-> 0, length |-> 0, read |-> None, claimed |-> None,
            sent |-> 0, frame |-> 0]

Init ==
  /\ meta = None
  /\ info = <<>>
  /\ file = <<>>
  /\ by = <<>>
  /\ put = [r \in Puts |-> IdlePut]

-----------------------------------------------------------------------------
\* The f64 nearest to n / d, ties to even, as a fraction.
Nearest(n, d) ==
  LET q == n \div d
      twice == 2 * (n % d)
  IN IF twice < d \/ (twice = d /\ q % 2 = 0) THEN q ELSE q + 1

Powers == {2 ^ e : e \in 0 .. MaxExponent}

\* The significand of n * v / (u * d) has all its bits.
Scales(n, d, u, v) == 2 ^ (Precision - 1) * u * d <= n * v /\ n * v < 2 ^ Precision * u * d

F64(n, d) ==
  CASE n = 0 -> <<0, 1>>
    [] n > 0 /\ n >= 2 ^ Precision * d ->
         LET u == CHOOSE u \in Powers : Scales(n, d, u, 1) IN <<Nearest(n, u * d) * u, 1>>
    [] OTHER ->
         LET v == CHOOSE v \in Powers : Scales(n, d, 1, v) IN <<Nearest(n * v, d), v>>

Ceil(n, d) == (n + d - 1) \div d

\* Mutant: the quotient truncated.
FloorCount(size, chunk_size) == size \div chunk_size

ChunksCount(size, chunk_size) ==
  LET s == F64(size, 1)
      c == F64(chunk_size, 1)
      q == F64(s[1] * c[2], s[2] * c[1])
  IN Ceil(q[1], q[2])

\* MaxExponent is large enough for n / d: an f64 has exponents for all u64.
HasScale(n, d) ==
  IF n >= 2 ^ Precision * d THEN \E u \in Powers : Scales(n, d, u, 1)
                            ELSE n = 0 \/ \E v \in Powers : Scales(n, d, 1, v)

ASSUME PrecisionAssumption ==
  /\ Powers \subseteq Nat \ {0} /\ 2 ^ (Precision - 1) \in Nat \ {0}
  /\ 2 ^ Precision = 2 * 2 ^ (Precision - 1)
ASSUME ScaleAssumption ==
  \A size \in Sizes, chunk_size \in ChunkSizes :
    LET s == F64(size, 1)
        c == F64(chunk_size, 1)
    IN HasScale(size, 1) /\ HasScale(chunk_size, 1) /\ HasScale(s[1] * c[2], s[2] * c[1])

\* The conversion to usize saturates.
ASSUME CountAssumption ==
  \A size \in Sizes, chunk_size \in ChunkSizes :
    ChunksCount(size, chunk_size) \in 0 .. 2 ^ Width - 1

\* chunks.len() - 1, which wraps in a release build.
LastIndex(chunks) == (Cardinality(DOMAIN chunks) + 2 ^ Width - 1) % 2 ^ Width

\* Mutant: the last chunk may have any length.
AcceptedAnyLast(i, idx, length) ==
  /\ length = i.chunk_size \/ idx = LastIndex(i.chunks)
  /\ idx \in DOMAIN i.chunks

\* The checks of a PUT before it takes its permits.
Accepted(i, idx, length) ==
  /\ length = i.chunk_size \/ (idx = LastIndex(i.chunks) /\ length < i.chunk_size)
  /\ idx \in DOMAIN i.chunks

\* The POST of an upload.  With a size of zero fallocate refuses, and the
\* answer is an error; the meta and the empty file are there all the same.
Create(size, chunk_size) ==
  LET u == Cardinality(DOMAIN info) + 1
      chunks == 0 .. ChunksCount(size, chunk_size) - 1
  IN /\ meta = None
     /\ u <= Uploads
     /\ meta' = u
     /\ info' = [v \in 1 .. u |-> IF v < u THEN info[v] ELSE
                   [size |-> size, chunk_size |-> chunk_size,
                    chunks |-> [c \in chunks |-> "NotStarted"]]]
     /\ file' = [v \in 1 .. u |-> IF v < u THEN file[v] ELSE [p \in 0 .. size - 1 |-> Hole]]
     /\ by' = [v \in 1 .. u |-> IF v < u THEN by[v] ELSE [c \in chunks |-> None]]
     /\ UNCHANGED put

\* The meta is read without the lock, and the request is checked against it.
Read(r, idx, length) ==
  /\ put[r].pc = "idle"
  /\ meta # None
  /\ Accepted(info[meta], idx, length)
  /\ put' = [put EXCEPT ![r] = [@ EXCEPT !.pc = "claim", !.idx = idx, !.length = length,
                                         !.read = meta]]
  /\ UNCHANGED <<meta, info, file, by>>

Status(u, c, s) == info' = [info EXCEPT ![u].chunks[c] = s]

\* The claim, in the meta that is there by now, and the open.
Claim(r) ==
  LET c == put[r].idx IN
  /\ put[r].pc = "claim"
  /\ IF meta # None /\ c \in DOMAIN info[meta].chunks /\ info[meta].chunks[c] = "NotStarted"
     THEN /\ put' = [put EXCEPT ![r].pc = "stream", ![r].claimed = meta]
          /\ Status(meta, c, "Ongoing")
     ELSE put' = [put EXCEPT ![r].pc = "done"] /\ UNCHANGED info
  /\ UNCHANGED <<meta, file, by>>

\* Mutant: the offset computed from the length of this chunk.
OffsetByLength(r) == put[r].idx * put[r].length

\* The offset uses the chunk_size of the meta that was read.
Offset(r) == put[r].idx * info[put[r].read].chunk_size

\* Mutant: only what has been written so far is compared with Content-Length.
FitsSoFar(r, n) == put[r].sent <= put[r].length

\* A frame of n bytes stays within Content-Length.
Fits(r, n) == put[r].sent + n <= put[r].length

\* A frame of n bytes arrives and is handed to a closure.
Frame(r, n) ==
  /\ put[r].pc = "stream"
  /\ put[r].frame = 0
  /\ Fits(r, n)
  /\ put' = [put EXCEPT ![r].frame = n]
  /\ UNCHANGED <<meta, info, file, by>>

\* The closure has written its frame (pwrite until nothing is left).
Lands(r) ==
  LET u == put[r].claimed
      end == Offset(r) + put[r].sent + put[r].frame - 1
      at == Offset(r) + put[r].sent .. end
  IN /\ put[r].frame > 0
     /\ file' = [file EXCEPT ![u] = [p \in DOMAIN @ \cup 0 .. end |->
          IF p \in at THEN r ELSE IF p \in DOMAIN @ THEN @[p] ELSE Hole]]

Written(r) ==
  /\ put[r].pc = "stream"
  /\ Lands(r)
  /\ put' = [put EXCEPT ![r].sent = @ + put[r].frame, ![r].frame = 0]
  /\ UNCHANGED <<meta, info, by>>

WrittenLate(r) ==
  /\ put[r].pc = "late"
  /\ Lands(r)
  /\ put' = [put EXCEPT ![r].pc = "done"]
  /\ UNCHANGED <<meta, info, by>>

\* Mutant: the end of the body is not compared with Content-Length.
ArrivedAnyhow(r) == put[r].frame = 0

\* The whole body has been written.
Arrived(r) == put[r].frame = 0 /\ put[r].sent = put[r].length

\* The chunk is completed; the last one publishes the file and ends the upload.
Complete(r) ==
  LET u == put[r].claimed
      c == put[r].idx
  IN /\ put[r].pc = "stream"
     /\ Arrived(r)
     /\ Status(u, c, "Completed")
     /\ by' = [by EXCEPT ![u][c] = r]
     /\ meta' = IF \A d \in DOMAIN info'[u].chunks : info'[u].chunks[d] = "Completed"
                THEN None ELSE meta
     /\ put' = [put EXCEPT ![r].pc = "done"]
     /\ UNCHANGED file

\* The body is too long, too short, or broken off, between two frames; or
\* the request is dropped, and a frame under way is not taken back.
Fail(r) ==
  /\ put[r].pc = "stream"
  /\ Status(put[r].claimed, put[r].idx, "NotStarted")
  /\ put' = [put EXCEPT ![r].pc = IF @ = "stream" /\ put[r].frame > 0 THEN "late" ELSE "done"]
  /\ UNCHANGED <<meta, file, by>>

Next ==
  \/ \E size \in Sizes, chunk_size \in ChunkSizes : Create(size, chunk_size)
  \/ \E r \in Puts :
       \/ meta # None /\ \E idx \in DOMAIN info[meta].chunks \cup {LastIndex(info[meta].chunks)},
                            length \in 0 .. info[meta].chunk_size + 1 : Read(r, idx, length)
       \/ \E n \in 1 .. put[r].length + 1 : Frame(r, n)
       \/ Claim(r) \/ Written(r) \/ WrittenLate(r) \/ Complete(r) \/ Fail(r)

Spec == Init /\ [][Next]_vars

-----------------------------------------------------------------------------
\* Properties.

ChunkOf(u, c) == c * info[u].chunk_size .. (c + 1) * info[u].chunk_size - 1

\* Bytes a PUT has on the disk.
BytesOf(u, r) == {p \in DOMAIN file[u] : file[u][p] = r}

\* It claimed its chunk in another upload than the one it was checked against.
Stale(r) == put[r].claimed \notin {None, put[r].read}

TypeOK ==
  /\ meta \in DOMAIN info \cup {None}
  /\ \A u \in DOMAIN info :
       /\ info[u].size \in Sizes /\ info[u].chunk_size \in ChunkSizes
       /\ info[u].chunks \in [DOMAIN by[u] -> {"NotStarted", "Ongoing", "Completed"}]
       /\ file[u] \in [DOMAIN file[u] -> Puts \cup {Hole}]
       /\ DOMAIN file[u] = 0 .. Cardinality(DOMAIN file[u]) - 1
  /\ \A r \in Puts : put[r].sent + put[r].frame <= put[r].length

(* The chunks of an upload are those its size needs, no more and no fewer,  *)
(* as long as an f64 holds the size exactly.                                *)
ChunksCover ==
  \A u \in DOMAIN info : info[u].size <= 2 ^ Precision =>
    Cardinality(DOMAIN info[u].chunks) = Ceil(info[u].size, info[u].chunk_size)

(* A request writes nothing outside the chunk it claimed, unless it was     *)
(* checked against an upload that was replaced before the claim.            *)
InsideItsChunk ==
  \A u \in DOMAIN info, r \in Puts :
    ~Stale(r) => BytesOf(u, r) \subseteq IF u = put[r].claimed THEN ChunkOf(u, put[r].idx) ELSE {}

(* A completed chunk holds the bytes of the request that completed it, as   *)
(* many as it declared; where it does not, a write of a request that was    *)
(* dropped in the same chunk, or was checked against another upload, has    *)
(* landed in between.                                                       *)
CompletedHasItsBytes ==
  \A u \in DOMAIN info : \A c \in DOMAIN by[u] : LET r == by[u][c] IN
    r # None /\ ~Stale(r) => \A p \in Offset(r) .. Offset(r) + put[r].length - 1 :
      \/ p \in BytesOf(u, r)
      \/ \E q \in Puts \ {r} : p \in BytesOf(u, q) /\ (Stale(q) \/ put[q].idx = c)

(* A published file is as long as its upload was declared to be, or less    *)
(* than one chunk longer, unless a request was checked against another      *)
(* upload; within it no byte is left unwritten but in the last chunk, where *)
(* a client may declare less than it owes.                                  *)
PublishedLength ==
  \A u \in DOMAIN info \ {meta} :
    LET n == Cardinality(DOMAIN info[u].chunks)
    IN (\A r \in Puts : ~Stale(r)) /\ info[u].size <= 2 ^ Precision =>
         /\ DOMAIN file[u] \subseteq 0 .. n * info[u].chunk_size - 1
         /\ \A p \in 0 .. info[u].size - 1 :
              file[u][p] = Hole => p \in ChunkOf(u, n - 1)
=============================================================================
