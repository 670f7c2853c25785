--------------------------- MODULE ChunkBytesProofs ---------------------------
(***************************************************************************)
(* Theorems about the bytes of resumable uploads: a request writes inside  *)
(* its chunk, a completed chunk keeps its bytes, and a published file has  *)
(* its length and no holes.                                                *)
(***************************************************************************)
EXTENDS ChunkBytes, FiniteSetTheorems, TLAPS

ChunkStatus == {"NotStarted", "Ongoing", "Completed"}

Count(u) == ChunksCount(info[u].size, info[u].chunk_size)

PutRec == [pc : {"idle", "claim", "stream", "late", "done"}, idx : Nat, length : Nat,
           read : Nat \cup {None}, claimed : Nat \cup {None}, sent : Nat, frame : Nat]

\* The uploads of the path so far, and their tables and files.
UploadTypes ==
  /\ meta \in DOMAIN info \cup {None}
  /\ \E k \in Nat : DOMAIN info = 1 .. k /\ DOMAIN file = 1 .. k /\ DOMAIN by = 1 .. k
  /\ info = [u \in DOMAIN info |-> info[u]]
  /\ file = [u \in DOMAIN info |-> file[u]]
  /\ by = [u \in DOMAIN info |-> by[u]]
  /\ \A u \in DOMAIN info :
       /\ info[u] = [size |-> info[u].size, chunk_size |-> info[u].chunk_size,
                     chunks |-> info[u].chunks]
       /\ info[u].size \in Sizes /\ info[u].chunk_size \in ChunkSizes
       /\ info[u].chunks \in [0 .. Count(u) - 1 -> ChunkStatus]
       /\ by[u] \in [0 .. Count(u) - 1 -> Puts \cup {None}]
       /\ \E e \in Nat : file[u] \in [0 .. e - 1 -> Puts \cup {Hole}]

\* What a request has been checked against, and what it has claimed.
PutType(r) ==
  /\ put[r].pc = "idle" => put[r].read = None
  /\ put[r].pc \in {"idle", "claim"} => put[r].claimed = None
  /\ put[r].claimed = None => put[r].sent = 0 /\ put[r].frame = 0
  /\ put[r].read # None =>
       /\ put[r].read \in DOMAIN info /\ put[r].idx \in 0 .. Count(put[r].read) - 1
       /\ \/ put[r].length = info[put[r].read].chunk_size
          \/ /\ put[r].idx = Count(put[r].read) - 1
             /\ put[r].length < info[put[r].read].chunk_size
  /\ put[r].claimed # None =>
       /\ put[r].read # None
       /\ put[r].claimed \in DOMAIN info /\ put[r].idx \in 0 .. Count(put[r].claimed) - 1
  /\ put[r].pc = "claim" => put[r].read # None
  /\ put[r].pc \in {"stream", "late"} => put[r].claimed # None
  /\ put[r].sent + put[r].frame <= put[r].length

PutTypes == put \in [Puts -> PutRec] /\ \A r \in Puts : PutType(r)

TypeInv == UploadTypes /\ PutTypes

\* Byte p is r's, or has been taken by a request that is stale or had the same chunk.
Holds(u, r, p) ==
  \/ p \in BytesOf(u, r)
  \/ \E q \in Puts \ {r} : p \in BytesOf(u, q) /\ (Stale(q) \/ put[q].idx = put[r].idx)

\* What a request has sent is there.
SentInv ==
  \A r \in Puts : put[r].claimed # None /\ ~Stale(r) =>
    \A p \in Offset(r) .. Offset(r) + put[r].sent - 1 : Holds(put[r].claimed, r, p)

BytesInv == TypeInv /\ InsideItsChunk /\ SentInv

\* A chunk is completed by a request that has sent all of it.
ByInv ==
  \A u \in DOMAIN info : \A c \in 0 .. Count(u) - 1 :
    /\ (info[u].chunks[c] = "Completed") <=> (by[u][c] # None)
    /\ by[u][c] # None =>
         /\ by[u][c] \in Puts
         /\ put[by[u][c]].pc = "done" /\ put[by[u][c]].claimed = u /\ put[by[u][c]].idx = c
         /\ put[by[u][c]].sent = put[by[u][c]].length

\* Who streams into a chunk has it marked, and is alone.
StreamInv ==
  /\ \A r \in Puts : put[r].pc = "stream" => info[put[r].claimed].chunks[put[r].idx] = "Ongoing"
  /\ \A r, q \in Puts :
       /\ put[r].pc = "stream" /\ put[q].pc = "stream"
       /\ put[r].claimed = put[q].claimed /\ put[r].idx = put[q].idx
       => r = q

\* An upload that is over is complete.
OverInv ==
  \A u \in DOMAIN info \ {meta} : \A c \in 0 .. Count(u) - 1 : info[u].chunks[c] = "Completed"

TableInv == ByInv /\ StreamInv /\ OverInv

\* As many chunks as the size needs.
Covers ==
  \A size \in Sizes, chunk_size \in ChunkSizes : size <= 2 ^ Precision =>
    ChunksCount(size, chunk_size) = Ceil(size, chunk_size)

\* A file is as long as its upload was declared to be, or less than a chunk longer.
FileInv ==
  \A u \in DOMAIN info : (\A r \in Puts : ~Stale(r)) /\ info[u].size <= 2 ^ Precision =>
    /\ 0 .. info[u].size - 1 \subseteq DOMAIN file[u]
    /\ DOMAIN file[u] \subseteq 0 .. Count(u) * info[u].chunk_size - 1

-----------------------------------------------------------------------------
(* Arithmetic.                                                              *)

LEMMA ChunkLength == \A i, n \in Nat : (i + 1) * n = i * n + n /\ i * n \in Nat
  OBVIOUS

LEMMA SameChunk ==
  ASSUME NEW i \in Nat, NEW j \in Nat, NEW n \in Nat, NEW p \in i * n .. (i + 1) * n - 1,
         p \in j * n .. (j + 1) * n - 1
  PROVE  i = j
  <1>1. \A a, b, m, x \in Nat :
          a * m <= x /\ x < (a + 1) * m /\ b * m <= x /\ x < (b + 1) * m => a = b
    OBVIOUS
  <1>2. i * n \in Nat /\ (i + 1) * n \in Nat /\ j * n \in Nat /\ (j + 1) * n \in Nat
    BY ChunkLength
  <1> QED
    BY <1>1, <1>2

-----------------------------------------------------------------------------
(* The number of chunks: what two roundings leave of a division.            *)

LEMMA Cancel == \A a, b \in Nat, d \in Nat \ {0} : a * d < b * d => a < b
  OBVIOUS

LEMMA CancelLe == \A a, b \in Nat, d \in Nat \ {0} : a * d <= b * d => a <= b
  OBVIOUS

LEMMA Division ==
  \A n \in Nat, d \in Nat \ {0} : /\ n \div d \in Nat /\ n % d \in Nat /\ n % d < d
                                  /\ n = (n \div d) * d + (n % d)
  OBVIOUS

\* Rounding keeps the order with integers, and takes more than a half up.
LEMMA NearestIs ==
  ASSUME NEW n \in Nat, NEW d \in Nat \ {0}
  PROVE  /\ Nearest(n, d) \in Nat
         /\ \A m \in Nat : n <= m * d => Nearest(n, d) <= m
         /\ \A m \in Nat : m * d <= n => m <= Nearest(n, d)
         /\ \A m \in Nat : 2 * (m * d) + d < 2 * n => m + 1 <= Nearest(n, d)
  <1>1. PICK q \in Nat, r \in Nat : q = n \div d /\ r = n % d /\ r < d /\ n = q * d + r
    BY Division
  <1>2. PICK N : N = Nearest(n, d)
    OBVIOUS
  <1>3. N \in {q, q + 1} /\ (2 * r < d => N = q) /\ (2 * r > d => N = q + 1)
    BY <1>1, <1>2 DEF Nearest
  <1>4. (q + 1) * d = q * d + d /\ q * d \in Nat
    OBVIOUS
  <1>5. ASSUME NEW m \in Nat, n <= m * d
        PROVE  N <= m
    <2>1. m * d \in Nat /\ q * d <= m * d
      BY <1>1, <1>4, <1>5
    <2>2. q <= m
      BY <2>1, CancelLe
    <2>3. q = m => r = 0
      BY <1>1, <1>4, <1>5
    <2> QED
      BY <1>3, <2>2, <2>3
  <1>6. ASSUME NEW m \in Nat, m * d <= n
        PROVE  m <= q
    <2>1. m * d < (q + 1) * d
      <3>1. m * d \in Nat
        OBVIOUS
      <3> QED
        BY <1>1, <1>4, <1>6, <3>1
    <2>2. m < q + 1
      BY <2>1, Cancel
    <2> QED
      BY <2>2
  <1>7. ASSUME NEW m \in Nat, 2 * (m * d) + d < 2 * n
        PROVE  m + 1 <= N
    <2>1. m <= q
      <3>1. m * d \in Nat /\ m * d <= n
        BY <1>7
      <3> QED
        BY <1>6, <3>1
    <2>2. q = m => 2 * r > d
      BY <1>1, <1>4, <1>7
    <2> QED
      BY <1>3, <2>1, <2>2
  <1> QED
    BY <1>2, <1>3, <1>5, <1>6, <1>7

LEMMA CeilIs ==
  ASSUME NEW n \in Nat, NEW d \in Nat \ {0}
  PROVE  /\ Ceil(n, d) \in Nat /\ n <= Ceil(n, d) * d /\ Ceil(n, d) * d < n + d
         /\ \A k \in Nat : n <= k * d /\ k * d < n + d => Ceil(n, d) = k
  <1>1. n + d - 1 \in Nat
    OBVIOUS
  <1>2. PICK q \in Nat, r \in Nat : q = Ceil(n, d) /\ r < d /\ n + d - 1 = q * d + r
    BY <1>1, Division DEF Ceil
  <1>3. q * d \in Nat /\ (q + 1) * d = q * d + d
    OBVIOUS
  <1>4. ASSUME NEW k \in Nat, n <= k * d, k * d < n + d
        PROVE  q = k
    <2>1. k * d \in Nat /\ (k + 1) * d = k * d + d
      OBVIOUS
    <2>2. q * d < (k + 1) * d /\ k * d < (q + 1) * d
      BY <1>2, <1>3, <1>4, <2>1
    <2>3. q < k + 1 /\ k < q + 1
      BY <2>2, Cancel
    <2> QED
      BY <2>3
  <1>5. n <= q * d /\ q * d < n + d
    BY <1>2, <1>3
  <1> QED
    BY <1>2, <1>4, <1>5

LEMMA CeilOfNone == \A d \in Nat \ {0} : Ceil(0, d) = 0
  <1> SUFFICES ASSUME NEW d \in Nat \ {0} PROVE Ceil(0, d) = 0
    OBVIOUS
  <1>1. 0 \in Nat /\ 0 <= 0 * d /\ 0 * d < 0 + d
    OBVIOUS
  <1> QED
    BY <1>1, CeilIs

LEMMA CeilOfPart == \A n, d \in Nat \ {0} : n <= d => Ceil(n, d) = 1
  <1> SUFFICES ASSUME NEW n \in Nat \ {0}, NEW d \in Nat \ {0}, n <= d PROVE Ceil(n, d) = 1
    OBVIOUS
  <1>1. 1 \in Nat /\ n <= 1 * d /\ 1 * d < n + d
    OBVIOUS
  <1> QED
    BY <1>1, CeilIs

LEMMA ZeroIsExact == \A d : F64(0, d) = <<0, 1>>
  <1>1. ~(0 > 0)
    OBVIOUS
  <1> QED
    BY <1>1, Zenon DEF F64

\* A size an f64 holds is converted exactly.
LEMMA ExactUpTo ==
  ASSUME NEW s \in Nat \ {0}, s <= 2 ^ Precision, HasScale(s, 1)
  PROVE  \E v \in Nat \ {0} : F64(s, 1) = <<s * v, v>>
  <1>1. PICK h \in Nat \ {0}, M \in Nat : h = 2 ^ (Precision - 1) /\ M = 2 ^ Precision /\ M = 2 * h
    BY PrecisionAssumption
  <1>2. Powers \subseteq Nat \ {0}
    BY PrecisionAssumption
  <1>3. CASE s >= M * 1
    <2>1. s = M
      BY <1>1, <1>3
    <2>2. PICK u \in Powers : Scales(s, 1, u, 1) /\ F64(s, 1) = <<Nearest(s, u * 1) * u, 1>>
      <3>1. \E u \in Powers : Scales(s, 1, u, 1)
        BY <1>1, <1>3 DEF HasScale
      <3>2. PICK u \in Powers : u = (CHOOSE x \in Powers : Scales(s, 1, x, 1)) /\ Scales(s, 1, u, 1)
        BY <3>1
      <3>3. s # 0 /\ s > 0 /\ s >= 2 ^ Precision * 1
        BY <1>1, <1>3
      <3> QED
        BY <3>2, <3>3, Zenon DEF F64
    <2>3. u \in Nat \ {0} /\ h * u <= s /\ s < M * u
      BY <1>1, <1>2, <2>2 DEF Scales
    <2>4. u = 2
      <3>1. \A x \in Nat \ {0} : h * x <= 2 * h => x <= 2
        OBVIOUS
      <3>2. \A x \in Nat \ {0} : M < M * x => x # 1
        OBVIOUS
      <3> QED
        BY <1>1, <2>1, <2>3, <3>1, <3>2
    <2>5. Nearest(s, 2) = h
      BY <1>1, <2>1, NearestIs
    <2>6. F64(s, 1) = <<s * 1, 1>>
      BY <1>1, <2>1, <2>2, <2>4, <2>5
    <2> QED
      BY <2>6
  <1>4. CASE ~(s >= M * 1)
    <2>1. PICK v \in Powers : F64(s, 1) = <<Nearest(s * v, 1), v>>
      <3>1. ~(s > 0 /\ s >= 2 ^ Precision * 1)
        BY <1>1, <1>4
      <3> QED
        BY <1>1, <1>4, <3>1 DEF F64, HasScale
    <2>2. v \in Nat \ {0} /\ s * v \in Nat
      BY <1>2
    <2>3. Nearest(s * v, 1) = s * v
      <3>1. PICK n \in Nat : n = s * v
        BY <2>2
      <3>2. Nearest(n, 1) \in Nat /\ Nearest(n, 1) <= n /\ n <= Nearest(n, 1)
        BY NearestIs
      <3> QED
        BY <3>1, <3>2
    <2> QED
      BY <2>1, <2>2, <2>3
  <1> QED
    BY <1>3, <1>4

\* A chunk size too long for an f64 stays as long as any size it holds.
LEMMA LongStaysLong ==
  ASSUME NEW c \in Nat, c > 2 ^ Precision, HasScale(c, 1)
  PROVE  \E e \in Nat : e >= 2 ^ Precision /\ F64(c, 1) = <<e, 1>>
  <1>1. PICK h \in Nat \ {0}, M \in Nat : h = 2 ^ (Precision - 1) /\ M = 2 ^ Precision /\ M = 2 * h
    BY PrecisionAssumption
  <1>2. c >= M * 1 /\ c > 0
    BY <1>1
  <1>3. PICK u \in Powers : Scales(c, 1, u, 1) /\ F64(c, 1) = <<Nearest(c, u * 1) * u, 1>>
    <2>1. \E u \in Powers : Scales(c, 1, u, 1)
      BY <1>1, <1>2 DEF HasScale
    <2>2. PICK u \in Powers : u = (CHOOSE x \in Powers : Scales(c, 1, x, 1)) /\ Scales(c, 1, u, 1)
      BY <2>1
    <2>3. c # 0 /\ c > 0 /\ c >= 2 ^ Precision * 1
      BY <1>1, <1>2
    <2> QED
      BY <2>2, <2>3, Zenon DEF F64
  <1>4. u \in Nat \ {0} /\ h * u <= c /\ c < M * u /\ u * 1 = u
    BY <1>1, <1>3, PrecisionAssumption DEF Scales
  <1>5. u >= 2
    <2>1. \A x \in Nat \ {0} : M < M * x => x # 1
      OBVIOUS
    <2> QED
      BY <1>1, <1>4, <2>1
  <1>6. PICK N \in Nat : N = Nearest(c, u) /\ h <= N
    BY <1>4, NearestIs
  <1>7. N * u \in Nat /\ N * u >= 2 * h
    <2>1. \A a, b \in Nat : a >= h /\ b >= 2 => a * b \in Nat /\ a * b >= h * 2
      OBVIOUS
    <2> QED
      BY <1>4, <1>5, <1>6, <2>1
  <1> QED
    BY <1>1, <1>3, <1>4, <1>6, <1>7

\* Rounded up, the f64 nearest to a quotient is the quotient rounded up.
LEMMA QuotientCeil ==
  ASSUME NEW s \in Nat \ {0}, NEW c \in Nat \ {0}, NEW w \in Nat \ {0},
         s <= 2 ^ Precision, HasScale(s * w, c * w)
  PROVE  Ceil(F64(s * w, c * w)[1], F64(s * w, c * w)[2]) = Ceil(s, c)
  <1>1. PICK h \in Nat \ {0}, M \in Nat : h = 2 ^ (Precision - 1) /\ M = 2 ^ Precision /\ M = 2 * h
    BY PrecisionAssumption
  <1>2. PICK n \in Nat \ {0}, d \in Nat \ {0} : n = s * w /\ d = c * w
    <2>1. \A a, b \in Nat \ {0} : a * b \in Nat \ {0}
      OBVIOUS
    <2> QED
      BY <2>1
  <1>3. CASE n >= M * d
    <2>1. s = M /\ c = 1
      <3>1. (M * c) * w <= s * w /\ M * c \in Nat
        <4>1. M * (c * w) = (M * c) * w
          OBVIOUS
        <4> QED
          BY <1>2, <1>3, <4>1
      <3>2. M * c <= s
        BY <3>1, CancelLe
      <3>3. \A x \in Nat \ {0} : M * x <= M /\ M > 0 => x = 1
        OBVIOUS
      <3>4. M * c >= M /\ M > 0
        <4>1. \A x \in Nat \ {0} : M * x >= M
          OBVIOUS
        <4> QED
          BY <1>1, <4>1
      <3>5. M * c <= M /\ s = M
        BY <1>1, <3>2, <3>4
      <3> QED
        BY <3>3, <3>4, <3>5
    <2>2. d = w /\ n = M * w
      BY <1>2, <2>1
    <2>3. PICK u \in Powers : Scales(n, d, u, 1) /\ F64(n, d) = <<Nearest(n, u * d) * u, 1>>
      <3>1. \E u \in Powers : Scales(n, d, u, 1)
        BY <1>1, <1>2, <1>3 DEF HasScale
      <3>2. PICK u \in Powers : u = (CHOOSE x \in Powers : Scales(n, d, x, 1)) /\ Scales(n, d, u, 1)
        BY <3>1
      <3>3. n # 0 /\ n > 0 /\ n >= 2 ^ Precision * d
        BY <1>1, <1>3
      <3> QED
        BY <3>2, <3>3, Zenon DEF F64
    <2>4. u \in Nat \ {0} /\ (h * u) * w <= (2 * h) * w /\ (M * 1) * w < (M * u) * w
      <3>1. u \in Nat \ {0}
        BY PrecisionAssumption
      <3>2. h * u * d <= n * 1 /\ n * 1 < M * u * d
        BY <1>1, <2>3 DEF Scales
      <3> QED
        BY <1>1, <2>2, <3>1, <3>2
    <2>5. u = 2
      <3>1. h * u \in Nat /\ 2 * h \in Nat /\ M * 1 \in Nat /\ M * u \in Nat
        BY <2>4
      <3>2. h * u <= 2 * h /\ M * 1 < M * u
        BY <2>4, <3>1, Cancel, CancelLe
      <3>3. \A x \in Nat \ {0} : h * x <= 2 * h => x <= 2
        OBVIOUS
      <3>4. \A x \in Nat \ {0} : M * 1 < M * x => x # 1
        OBVIOUS
      <3> QED
        BY <2>4, <3>2, <3>3, <3>4
    <2>6. Nearest(n, 2 * w) = h
      <3>1. PICK x \in Nat \ {0} : x = 2 * w /\ n = h * x
        <4>1. n = h * (2 * w) /\ 2 * w \in Nat \ {0}
          BY <1>1, <2>2
        <4> QED
          BY <4>1
      <3>2. n <= h * x /\ h * x <= n
        BY <3>1
      <3>3. Nearest(n, x) \in Nat /\ Nearest(n, x) <= h /\ h <= Nearest(n, x)
        BY <3>2, NearestIs
      <3> QED
        BY <3>1, <3>3
    <2>7. F64(n, d) = <<M, 1>>
      BY <1>1, <2>2, <2>3, <2>5, <2>6
    <2> QED
      BY <1>2, <2>1, <2>7
  <1>4. CASE ~(n >= M * d)
    <2>1. PICK v \in Powers : Scales(n, d, 1, v) /\ F64(n, d) = <<Nearest(n * v, d), v>>
      <3>1. \E v \in Powers : Scales(n, d, 1, v)
        BY <1>1, <1>2, <1>4 DEF HasScale
      <3>2. PICK v \in Powers : v = (CHOOSE x \in Powers : Scales(n, d, 1, x)) /\ Scales(n, d, 1, v)
        BY <3>1
      <3>3. n # 0 /\ ~(n >= 2 ^ Precision * d)
        BY <1>1, <1>4
      <3> QED
        BY <3>2, <3>3, Zenon DEF F64
    <2>2. v \in Nat \ {0} /\ h * d <= n * v
      BY <1>1, <2>1, PrecisionAssumption DEF Scales
    <2>3. PICK N \in Nat : /\ N = Nearest(n * v, d)
                           /\ \A m \in Nat : n * v <= m * d => N <= m
                           /\ \A m \in Nat : m * d <= n * v => m <= N
                           /\ \A m \in Nat : 2 * (m * d) + d < 2 * (n * v) => m + 1 <= N
      <3>1. n * v \in Nat
        BY <2>2
      <3> QED
        BY <3>1, NearestIs
    <2>4. PICK k \in Nat : k = Ceil(s, c) /\ s <= k * c /\ k * c < s + c
      BY CeilIs
    <2>5. k # 0
      BY <2>4
    <2>6. PICK j \in Nat : k = j + 1 /\ j * c + 1 <= s
      <3>1. \A x \in Nat : (x + 1) * c = x * c + c /\ x * c \in Nat
        OBVIOUS
      <3>2. k - 1 \in Nat /\ k = (k - 1) + 1
        BY <2>5
      <3> QED
        BY <2>4, <3>1, <3>2
    \* From above: s <= k * c.
    <2>7. N <= k * v
      <3>1. n * v <= (k * v) * d
        <4>1. \A a, b, x, y \in Nat : a <= b => (a * x) * y <= (b * x) * y
          OBVIOUS
        <4>2. (s * w) * v <= ((k * c) * w) * v
          BY <2>2, <2>4, <4>1
        <4>3. ((k * c) * w) * v = (k * v) * (c * w)
          BY <2>2
        <4> QED
          BY <1>2, <4>2, <4>3
      <3> QED
        BY <2>2, <2>3, <3>1
    \* From below: s >= j * c + 1.
    <2>8. (j * v) * d + w * v <= n * v
      <3>1. \A a, b, x, y \in Nat : a <= b => (a * x) * y <= (b * x) * y
        OBVIOUS
      <3>2. ((j * c + 1) * w) * v <= (s * w) * v
        BY <2>2, <2>6, <3>1
      <3>3. ((j * c + 1) * w) * v = (j * v) * (c * w) + w * v
        BY <2>2
      <3> QED
        BY <1>2, <3>2, <3>3
    <2>9. j * v \in Nat /\ (j * v) * d \in Nat /\ w * v \in Nat /\ n * v \in Nat
      BY <2>2
    <2>10. j * v + 1 <= N
      <3>1. CASE c < 2 * v
        <4>1. c * w < (2 * v) * w
          <5>1. \A a, b \in Nat, x \in Nat \ {0} : a < b => a * x < b * x
            OBVIOUS
          <5> QED
            BY <2>2, <3>1, <5>1
        <4>2. d < 2 * (w * v)
          BY <1>2, <2>2, <4>1
        <4>3. 2 * ((j * v) * d) + d < 2 * (n * v)
          BY <2>8, <2>9, <4>2
        <4> QED
          BY <2>3, <2>9, <4>3
      <3>2. CASE 2 * v <= c
        \* Then s is as long as an f64 can be, and c is 2 * v.
        <4>1. h * c <= s * v
          <5>1. (h * c) * w <= (s * v) * w
            <6>1. h * (c * w) = (h * c) * w /\ (s * w) * v = (s * v) * w
              BY <2>2
            <6> QED
              BY <1>2, <2>2, <6>1
          <5> QED
            BY <2>2, <5>1, CancelLe
        <4>2. h * (2 * v) <= h * c
          <5>1. \A a, b, x \in Nat : a <= b => x * a <= x * b
            OBVIOUS
          <5> QED
            BY <2>2, <3>2, <5>1
        <4>3. s * v <= M * v
          <5>1. \A a, b, x \in Nat : a <= b => a * x <= b * x
            OBVIOUS
          <5> QED
            BY <1>1, <2>2, <5>1
        <4>4. M * v = h * (2 * v) /\ M * v \in Nat /\ h * c \in Nat /\ s * v \in Nat
          BY <1>1, <2>2
        <4>5. s * v = M * v /\ h * c = h * (2 * v)
          BY <4>1, <4>2, <4>3, <4>4
        <4>6. s = M /\ c = 2 * v
          <5>1. M * v <= s * v /\ c * h <= (2 * v) * h
            BY <2>2, <4>5
          <5>2. M <= s /\ c <= 2 * v
            BY <2>2, <5>1, CancelLe
          <5> QED
            BY <1>1, <2>2, <3>2, <5>2
        <4>7. j * v < h
          <5>1. j * (2 * v) < 2 * h
            BY <1>1, <2>6, <4>6
          <5>2. j * (2 * v) = 2 * (j * v)
            BY <2>2
          <5> QED
            BY <2>9, <5>1, <5>2
        <4>8. h <= N
          BY <2>2, <2>3
        <4> QED
          BY <2>9, <4>7, <4>8
      <3> QED
        BY <2>2, <3>1, <3>2
    <2>11. N <= k * v /\ k * v < N + v
      <3>1. k * v = j * v + v
        BY <2>2, <2>6
      <3> QED
        BY <2>2, <2>7, <2>9, <2>10, <3>1
    <2>12. Ceil(N, v) = k
      BY <2>2, <2>11, CeilIs
    <2>13. F64(n, d)[1] = N /\ F64(n, d)[2] = v
      BY <2>1, <2>3
    <2> QED
      BY <1>2, <2>4, <2>12, <2>13
  <1> QED
    BY <1>3, <1>4

LEMMA CoversAlways == Covers
  <1> SUFFICES ASSUME NEW size \in Sizes, NEW chunk_size \in ChunkSizes, size <= 2 ^ Precision
               PROVE  ChunksCount(size, chunk_size) = Ceil(size, chunk_size)
    BY DEF Covers
  <1>1. size \in Nat /\ chunk_size \in Nat \ {0}
    BY SizesAssumption
  <1>2. PICK s, c : s = F64(size, 1) /\ c = F64(chunk_size, 1)
    OBVIOUS
  <1>3. /\ HasScale(size, 1) /\ HasScale(chunk_size, 1) /\ HasScale(s[1] * c[2], s[2] * c[1])
        /\ ChunksCount(size, chunk_size) = Ceil(F64(s[1] * c[2], s[2] * c[1])[1],
                                                F64(s[1] * c[2], s[2] * c[1])[2])
    BY <1>2, ScaleAssumption DEF ChunksCount
  <1>4. PICK e \in Nat \ {0}, x \in Nat \ {0} :
          /\ c = <<e * x, x>>
          /\ e = chunk_size \/ (chunk_size > 2 ^ Precision /\ e >= 2 ^ Precision)
    <2>1. PICK M \in Nat : M = 2 ^ Precision /\ M > 0
      BY PrecisionAssumption
    <2>2. CASE chunk_size <= 2 ^ Precision
      BY <1>1, <1>2, <1>3, <2>2, ExactUpTo
    <2>3. CASE chunk_size > 2 ^ Precision
      <3>1. PICK e \in Nat : e >= 2 ^ Precision /\ c = <<e, 1>>
        BY <1>1, <1>2, <1>3, <2>3, LongStaysLong
      <3>2. e * 1 = e /\ e # 0
        BY <2>1, <3>1
      <3> QED
        BY <2>3, <3>1, <3>2
    <2> QED
      BY <1>1, <2>1, <2>2, <2>3
  <1>5. Ceil(size, e) = Ceil(size, chunk_size)
    <2>1. PICK M \in Nat : M = 2 ^ Precision
      BY PrecisionAssumption
    <2>2. ASSUME chunk_size > M, e >= M, size = 0
          PROVE  Ceil(size, e) = 0 /\ Ceil(size, chunk_size) = 0
      BY <1>1, <2>2, CeilOfNone
    <2>3. ASSUME chunk_size > M, e >= M, size # 0
          PROVE  Ceil(size, e) = 1 /\ Ceil(size, chunk_size) = 1
      BY <1>1, <2>1, <2>3, CeilOfPart
    <2> QED
      BY <1>4, <2>1, <2>2, <2>3
  <1>6. CASE size = 0
    <2>1. s = <<0, 1>>
      BY <1>2, <1>6, ZeroIsExact
    <2>2. s[1] * c[2] = 0
      BY <1>4, <2>1
    <2>3. F64(0, s[2] * c[1]) = <<0, 1>>
      BY ZeroIsExact
    <2>4. ChunksCount(size, chunk_size) = Ceil(0, 1)
      BY <1>3, <2>2, <2>3
    <2>5. Ceil(0, 1) = 0 /\ Ceil(0, chunk_size) = 0
      BY <1>1, CeilOfNone
    <2> QED
      BY <1>6, <2>4, <2>5
  <1>7. CASE size # 0
    <2>1. PICK v \in Nat \ {0} : s = <<size * v, v>>
      BY <1>1, <1>2, <1>3, <1>7, ExactUpTo
    <2>2. PICK w \in Nat \ {0} : w = v * x
      <3>1. \A a, b \in Nat \ {0} : a * b \in Nat \ {0}
        OBVIOUS
      <3> QED
        BY <3>1
    <2>3. s[1] * c[2] = size * w /\ s[2] * c[1] = e * w
      <3>1. \A a, b, d \in Nat : (a * b) * d = a * (b * d) /\ b * (a * d) = a * (b * d)
        OBVIOUS
      <3>2. s[1] = size * v /\ s[2] = v /\ c[1] = e * x /\ c[2] = x
        BY <1>4, <2>1
      <3> QED
        BY <1>1, <2>2, <3>1, <3>2
    <2>4. Ceil(F64(size * w, e * w)[1], F64(size * w, e * w)[2]) = Ceil(size, e)
      <3>1. HasScale(size * w, e * w)
        BY <1>3, <2>3
      <3> QED
        BY <1>1, <1>7, <3>1, QuotientCeil
    <2> QED
      BY <1>3, <1>5, <2>3, <2>4
  <1> QED
    BY <1>6, <1>7


-----------------------------------------------------------------------------
(* Types.                                                                   *)

\* What an upload was created with does not change.
Steady ==
  /\ DOMAIN info \subseteq DOMAIN info'
  /\ \A u \in DOMAIN info :
       info'[u].size = info[u].size /\ info'[u].chunk_size = info[u].chunk_size

LEMMA CountType ==
  ASSUME UploadTypes, NEW u \in DOMAIN info
  PROVE  Count(u) \in Nat /\ info[u].chunk_size \in Nat \ {0} /\ info[u].size \in Nat
  BY CountAssumption, SizesAssumption, WidthAssumption DEF UploadTypes, Count

LEMMA InitTypeInv == Init => TypeInv
  <1> SUFFICES ASSUME Init PROVE TypeInv
    OBVIOUS
  <1>1. DOMAIN info = {} /\ DOMAIN file = {} /\ DOMAIN by = {}
    BY DEF Init
  <1>2. UploadTypes
    <2>1. DOMAIN info = 1 .. 0
      BY <1>1
    <2> QED
      BY <1>1, <2>1 DEF Init, UploadTypes
  <1>3. PutTypes
    BY DEF Init, PutTypes, PutType, PutRec, IdlePut
  <1> QED
    BY <1>2, <1>3 DEF TypeInv

(* A chunk of an upload gets a status.                                      *)
ChunkMoves(u, c, s) ==
  /\ DOMAIN info' = DOMAIN info /\ info' = [v \in DOMAIN info |-> info'[v]]
  /\ Steady
  /\ \A v \in DOMAIN info :
       /\ info'[v] = [size |-> info[v].size, chunk_size |-> info[v].chunk_size,
                      chunks |-> info'[v].chunks]
       /\ info'[v].chunks \in [0 .. Count(v) - 1 -> ChunkStatus]
       /\ \A d \in 0 .. Count(v) - 1 :
            info'[v].chunks[d] = IF v = u /\ d = c THEN s ELSE info[v].chunks[d]

LEMMA StatusEffect ==
  ASSUME UploadTypes, NEW u \in DOMAIN info, NEW c \in 0 .. Count(u) - 1, NEW s \in ChunkStatus,
         info' = [info EXCEPT ![u].chunks[c] = s]
  PROVE  ChunkMoves(u, c, s)
  <1>1. /\ DOMAIN info' = DOMAIN info /\ info' = [v \in DOMAIN info |-> info'[v]]
        /\ \A v \in DOMAIN info : v # u => info'[v] = info[v]
        /\ info'[u] = [info[u] EXCEPT !.chunks[c] = s]
    BY DEF UploadTypes
  <1>2. info'[u] = [size |-> info[u].size, chunk_size |-> info[u].chunk_size,
                    chunks |-> [info[u].chunks EXCEPT ![c] = s]]
    <2>1. PICK a, b, t : info[u] = [size |-> a, chunk_size |-> b, chunks |-> t]
      BY DEF UploadTypes
    <2>2. info'[u] = [size |-> a, chunk_size |-> b, chunks |-> [t EXCEPT ![c] = s]]
      BY <1>1, <2>1
    <2> QED
      BY <2>1, <2>2
  <1>3. /\ [info[u].chunks EXCEPT ![c] = s] \in [0 .. Count(u) - 1 -> ChunkStatus]
        /\ \A d \in 0 .. Count(u) - 1 :
             [info[u].chunks EXCEPT ![c] = s][d] = IF d = c THEN s ELSE info[u].chunks[d]
    BY DEF UploadTypes
  <1> QED
    BY <1>1, <1>2, <1>3 DEF UploadTypes, ChunkMoves, Steady

\* The types of the uploads after such a step.
LEMMA StatusTypes ==
  ASSUME UploadTypes, NEW u \in DOMAIN info, NEW c \in 0 .. Count(u) - 1, NEW s \in ChunkStatus,
         ChunkMoves(u, c, s), meta' \in {meta, None}, UNCHANGED file,
         by' = by \/ \E r \in Puts : by' = [by EXCEPT ![u][c] = r]
  PROVE  UploadTypes'
  <1>1. \A v \in DOMAIN info : Count(v)' = Count(v)
    BY DEF ChunkMoves, Steady, Count
  <1>2. by' = [v \in DOMAIN info |-> by'[v]] /\ DOMAIN by' = DOMAIN by
        /\ \A v \in DOMAIN info : by'[v] \in [0 .. Count(v) - 1 -> Puts \cup {None}]
    <2>1. CASE by' = by
      BY <2>1 DEF UploadTypes
    <2>2. ASSUME NEW r \in Puts, by' = [by EXCEPT ![u][c] = r]
          PROVE  /\ by' = [v \in DOMAIN info |-> by'[v]] /\ DOMAIN by' = DOMAIN by
                 /\ \A v \in DOMAIN info : by'[v] \in [0 .. Count(v) - 1 -> Puts \cup {None}]
      <3>1. /\ by' = [v \in DOMAIN info |-> by'[v]] /\ DOMAIN by' = DOMAIN by
            /\ \A v \in DOMAIN info : v # u => by'[v] = by[v]
            /\ by'[u] = [by[u] EXCEPT ![c] = r]
        BY <2>2 DEF UploadTypes
      <3>2. [by[u] EXCEPT ![c] = r] \in [0 .. Count(u) - 1 -> Puts \cup {None}]
        BY DEF UploadTypes
      <3> QED
        BY <3>1, <3>2 DEF UploadTypes
    <2> QED
      BY <2>1, <2>2
  <1> QED
    BY <1>1, <1>2 DEF UploadTypes, ChunkMoves, Steady

(* Bytes o .. o + f - 1 of upload u become those of r; a gap before them is  *)
(* filled with holes.                                                       *)
FileGrows(u, r, o, f) ==
  /\ DOMAIN file' = DOMAIN file /\ file' = [v \in DOMAIN file |-> file'[v]]
  /\ \A v \in DOMAIN info : v # u => file'[v] = file[v]
  /\ DOMAIN file'[u] = DOMAIN file[u] \cup 0 .. o + f - 1
  /\ \A p \in DOMAIN file'[u] : file'[u][p] =
       IF p \in o .. o + f - 1 THEN r ELSE IF p \in DOMAIN file[u] THEN file[u][p] ELSE Hole
  /\ \E e \in Nat : file'[u] \in [0 .. e - 1 -> Puts \cup {Hole}]

LEMMA GrowsEffect ==
  ASSUME UploadTypes, NEW r \in Puts, NEW u \in DOMAIN info, NEW o \in Nat, NEW f \in Nat \ {0},
         file' = [file EXCEPT ![u] = [p \in DOMAIN @ \cup 0 .. o + f - 1 |->
           IF p \in o .. o + f - 1 THEN r ELSE IF p \in DOMAIN @ THEN @[p] ELSE Hole]]
  PROVE  FileGrows(u, r, o, f)
  <1> DEFINE new == [p \in DOMAIN file[u] \cup 0 .. o + f - 1 |->
               IF p \in o .. o + f - 1 THEN r
               ELSE IF p \in DOMAIN file[u] THEN file[u][p] ELSE Hole]
  <1>1. PICK e \in Nat : file[u] \in [0 .. e - 1 -> Puts \cup {Hole}]
    BY DEF UploadTypes
  <1>2. DOMAIN file[u] = 0 .. e - 1 /\ \A p \in 0 .. e - 1 : file[u][p] \in Puts \cup {Hole}
    BY <1>1
  <1>3. PICK d \in Nat : d >= e /\ d >= o + f /\ (d = e \/ d = o + f)
    <2>1. o + f \in Nat
      OBVIOUS
    <2>2. CASE e >= o + f
      BY <2>2
    <2>3. CASE o + f >= e
      BY <2>1, <2>3
    <2> QED
      BY <2>1, <2>2, <2>3
  <1>4. (DOMAIN file[u] \cup 0 .. o + f - 1) = 0 .. d - 1
    BY <1>2, <1>3
  <1>5. new \in [0 .. d - 1 -> Puts \cup {Hole}]
    BY <1>2, <1>4
  <1>6. /\ DOMAIN file' = DOMAIN file /\ file' = [v \in DOMAIN file |-> file'[v]]
        /\ \A v \in DOMAIN info : v # u => file'[v] = file[v]
        /\ file'[u] = new
    BY DEF UploadTypes
  <1>7. /\ DOMAIN new = DOMAIN file[u] \cup 0 .. o + f - 1
        /\ \A p \in DOMAIN new : new[p] = IF p \in o .. o + f - 1 THEN r
             ELSE IF p \in DOMAIN file[u] THEN file[u][p] ELSE Hole
    OBVIOUS
  <1> HIDE DEF new
  <1> QED
    BY <1>5, <1>6, <1>7 DEF FileGrows

LEMMA GrowsTypes ==
  ASSUME UploadTypes, NEW r \in Puts, NEW u \in DOMAIN info, NEW o \in Nat, NEW f \in Nat \ {0},
         FileGrows(u, r, o, f), UNCHANGED <<meta, info, by>>
  PROVE  UploadTypes'
  <1>1. \A v \in DOMAIN info : Count(v)' = Count(v)
    BY DEF Count
  <1>2. DOMAIN file = DOMAIN info
    BY DEF UploadTypes
  <1>3. file' = [v \in DOMAIN info |-> file'[v]]
    BY <1>2 DEF FileGrows
  <1>4. \A v \in DOMAIN info : \E e \in Nat : file'[v] \in [0 .. e - 1 -> Puts \cup {Hole}]
    BY DEF FileGrows, UploadTypes
  <1>5. \E k \in Nat : DOMAIN info = 1 .. k /\ DOMAIN file' = 1 .. k /\ DOMAIN by = 1 .. k
    BY DEF FileGrows, UploadTypes
  <1> QED
    BY <1>1, <1>3, <1>4, <1>5 DEF UploadTypes

\* What Lands does.
LEMMA LandsEffect ==
  ASSUME TypeInv, NEW r \in Puts, Lands(r)
  PROVE  \E u \in DOMAIN info, o \in Nat, f \in Nat \ {0} :
           /\ u = put[r].claimed /\ o = Offset(r) + put[r].sent /\ f = put[r].frame
           /\ put[r].read \in DOMAIN info
           /\ FileGrows(u, r, o, f)
  <1>1. /\ put[r].frame \in Nat \ {0} /\ put[r].sent \in Nat /\ put[r].idx \in Nat
        /\ put[r].claimed \in DOMAIN info /\ put[r].read \in DOMAIN info
    BY DEF Lands, TypeInv, PutTypes, PutType, PutRec
  <1>2. info[put[r].read].chunk_size \in Nat
    BY <1>1, CountType DEF TypeInv
  <1>3. Offset(r) \in Nat
    BY <1>1, <1>2, ChunkLength DEF Offset
  <1>4. Offset(r) + put[r].sent \in Nat
    BY <1>1, <1>3
  <1>5. PICK u \in DOMAIN info : u = put[r].claimed
    BY <1>1
  <1>6. PICK o \in Nat : o = Offset(r) + put[r].sent
    BY <1>4
  <1>7. PICK f \in Nat \ {0} : f = put[r].frame
    BY <1>1
  <1>8. file' = [file EXCEPT ![u] = [p \in DOMAIN @ \cup 0 .. o + f - 1 |->
          IF p \in o .. o + f - 1 THEN r ELSE IF p \in DOMAIN @ THEN @[p] ELSE Hole]]
    BY <1>5, <1>6, <1>7 DEF Lands
  <1>9. FileGrows(u, r, o, f)
    BY <1>8, GrowsEffect DEF TypeInv
  <1> QED
    BY <1>1, <1>5, <1>6, <1>7, <1>9

\* A step of one request.
LEMMA PutTypeStep ==
  ASSUME TypeInv, Steady, NEW r \in Puts, put' \in [Puts -> PutRec],
         \A q \in Puts : q # r => put'[q] = put[q], PutType(r)'
  PROVE  PutTypes'
  <1> SUFFICES ASSUME NEW q \in Puts, q # r PROVE PutType(q)'
    BY DEF PutTypes
  <1>1. put'[q] = put[q] /\ PutType(q)
    BY DEF TypeInv, PutTypes
  <1>2. \A v \in DOMAIN info : Count(v)' = Count(v)
    BY DEF Steady, Count
  <1> QED
    BY <1>1, <1>2 DEF PutType, Steady

LEMMA PutTypeNext ==
  ASSUME TypeInv, Steady, NEW r \in Puts, NEW u,
         put'[r].idx = put[r].idx, put'[r].length = put[r].length, put'[r].read = put[r].read,
         put'[r].claimed = u,
         \/ u = put[r].claimed
         \/ u \in DOMAIN info /\ put[r].read # None /\ put[r].idx \in 0 .. Count(u) - 1,
         put'[r].pc \in {"stream", "late", "done"},
         put'[r].pc \in {"stream", "late"} => u # None,
         u = None => put'[r].sent = 0 /\ put'[r].frame = 0,
         put'[r].sent + put'[r].frame <= put[r].length
  PROVE  PutType(r)'
  <1>1. PutType(r)
    BY DEF TypeInv, PutTypes
  <1>2. \A v \in DOMAIN info : Count(v)' = Count(v) /\ v \in DOMAIN info'
                                /\ info'[v].chunk_size = info[v].chunk_size
    BY DEF Steady, Count
  <1>3. put[r].read # None =>
          /\ put[r].read \in DOMAIN info' /\ put[r].idx \in 0 .. Count(put[r].read)' - 1
          /\ \/ put[r].length = info'[put[r].read].chunk_size
             \/ /\ put[r].idx = Count(put[r].read)' - 1
                /\ put[r].length < info'[put[r].read].chunk_size
    <2> SUFFICES ASSUME put[r].read # None, NEW w \in DOMAIN info, w = put[r].read
                 PROVE  /\ put[r].idx \in 0 .. Count(w)' - 1
                        /\ \/ put[r].length = info'[w].chunk_size
                           \/ /\ put[r].idx = Count(w)' - 1
                              /\ put[r].length < info'[w].chunk_size
      BY <1>1, <1>2 DEF PutType, Count
    <2> QED
      BY <1>1, <1>2 DEF PutType
  <1>4. u # None => put[r].read # None /\ u \in DOMAIN info' /\ put[r].idx \in 0 .. Count(u)' - 1
    <2>1. u # None => u \in DOMAIN info /\ put[r].read # None /\ put[r].idx \in 0 .. Count(u) - 1
      BY <1>1 DEF PutType
    <2> QED
      BY <1>2, <2>1
  <1> QED
    BY <1>3, <1>4 DEF PutType, Count

\* The last index of an upload that has chunks, whatever the width.
LEMMA LastIndexIs ==
  ASSUME UploadTypes, NEW u \in DOMAIN info, Count(u) # 0
  PROVE  LastIndex(info[u].chunks) = Count(u) - 1
  <1>1. Count(u) \in 0 .. 2 ^ Width - 1
    BY CountAssumption DEF UploadTypes, Count
  <1>2. Cardinality(0 .. Count(u) - 1) = Count(u)
    <2>1. Count(u) \in Nat
      BY <1>1, WidthAssumption
    <2>2. 0 \in Int /\ Count(u) - 1 \in Int
      BY <2>1
    <2>3. Cardinality(0 .. Count(u) - 1) = IF 0 > Count(u) - 1 THEN 0 ELSE Count(u) - 1 - 0 + 1
      BY <2>2, FS_Interval
    <2> QED
      BY <2>1, <2>3
  <1>3. DOMAIN info[u].chunks = 0 .. Count(u) - 1
    BY DEF UploadTypes
  <1>4. \A n, m \in Nat : 1 <= n /\ n <= m => (n + m - 1) % m = n - 1
    OBVIOUS
  <1>5. Count(u) \in Nat /\ 1 <= Count(u) /\ Count(u) <= 2 ^ Width
    BY <1>1, WidthAssumption
  <1> QED
    BY <1>2, <1>3, <1>4, <1>5, WidthAssumption DEF LastIndex

LEMMA ReadTypes ==
  ASSUME TypeInv, NEW r \in Puts, NEW idx, NEW length \in Nat, Read(r, idx, length)
  PROVE  TypeInv'
  <1> USE DEF TypeInv
  <1>1. PICK u \in DOMAIN info : u = meta
    BY DEF Read, UploadTypes
  <1>2. idx \in 0 .. Count(u) - 1 /\ idx \in Nat
    BY <1>1, CountType DEF Read, Accepted, UploadTypes
  <1>3. LastIndex(info[u].chunks) = Count(u) - 1
    BY <1>2, CountType, LastIndexIs
  <1>4. length = info[u].chunk_size \/ (idx = Count(u) - 1 /\ length < info[u].chunk_size)
    BY <1>1, <1>3 DEF Read, Accepted
  <1>5. UploadTypes' /\ Steady
    BY DEF Read, UploadTypes, Steady, Count
  <1>6. /\ put' \in [Puts -> PutRec] /\ \A q \in Puts : q # r => put'[q] = put[q]
        /\ put'[r].pc = "claim" /\ put'[r].idx = idx /\ put'[r].length = length
        /\ put'[r].read = u /\ put'[r].claimed = put[r].claimed /\ put'[r].sent = put[r].sent
        /\ put'[r].frame = put[r].frame
    <2>1. u \in Nat
      BY DEF UploadTypes
    <2> QED
      BY <1>1, <1>2, <2>1 DEF Read, PutTypes, PutRec
  <1>7. put[r].claimed = None /\ put[r].sent = 0 /\ put[r].frame = 0
    BY DEF Read, PutTypes, PutType
  <1>8. u # None
    BY NamesAssumption DEF UploadTypes
  <1>9. PutType(r)'
    BY <1>2, <1>4, <1>6, <1>7, <1>8 DEF PutType, Read, Count
  <1> QED
    BY <1>5, <1>6, <1>9, PutTypeStep

LEMMA FrameTypes ==
  ASSUME TypeInv, NEW r \in Puts, NEW n \in Nat, Frame(r, n)
  PROVE  TypeInv'
  <1> USE DEF TypeInv
  <1>1. UploadTypes' /\ Steady
    BY DEF Frame, UploadTypes, Steady, Count
  <1>2. /\ put' \in [Puts -> PutRec] /\ \A q \in Puts : q # r => put'[q] = put[q]
        /\ put'[r].pc = put[r].pc /\ put'[r].idx = put[r].idx /\ put'[r].length = put[r].length
        /\ put'[r].read = put[r].read /\ put'[r].claimed = put[r].claimed
        /\ put'[r].sent = put[r].sent /\ put'[r].frame = n
    BY DEF Frame, PutTypes, PutRec
  <1>3. PutType(r)'
    BY <1>2 DEF Frame, Fits, PutTypes, PutType, Count
  <1> QED
    BY <1>1, <1>2, <1>3, PutTypeStep

\* The request that gives its chunk a status, and that chunk.
LEMMA ChunkOfPut ==
  ASSUME TypeInv, NEW r \in Puts, put[r].claimed # None
  PROVE  \E u \in DOMAIN info : \E c \in 0 .. Count(u) - 1 :
           u = put[r].claimed /\ c = put[r].idx /\ c \in Nat
  <1>1. PICK u \in DOMAIN info : u = put[r].claimed
    BY DEF TypeInv, PutTypes, PutType
  <1>2. PICK c \in 0 .. Count(u) - 1 : c = put[r].idx
    BY <1>1 DEF TypeInv, PutTypes, PutType
  <1>3. c \in Nat
    BY <1>2 DEF TypeInv, PutTypes, PutRec
  <1> QED
    BY <1>1, <1>2, <1>3

LEMMA ClaimTypes ==
  ASSUME TypeInv, NEW r \in Puts, Claim(r)
  PROVE  TypeInv'
  <1> USE DEF TypeInv
  <1>1. put[r].claimed = None /\ put[r].sent = 0 /\ put[r].frame = 0 /\ put[r].read # None
    BY DEF Claim, PutTypes, PutType
  <1>2. CASE meta # None /\ put[r].idx \in DOMAIN info[meta].chunks
             /\ info[meta].chunks[put[r].idx] = "NotStarted"
    <2>1. PICK u \in DOMAIN info : u = meta
      BY <1>2 DEF UploadTypes
    <2>2. PICK c \in 0 .. Count(u) - 1 : c = put[r].idx
      BY <1>2, <2>1 DEF UploadTypes
    <2>3. info' = [info EXCEPT ![u].chunks[c] = "Ongoing"] /\ UNCHANGED <<meta, file, by>>
      BY <1>2, <2>1, <2>2 DEF Claim, Status
    <2>4. ChunkMoves(u, c, "Ongoing")
      BY <2>3, StatusEffect DEF ChunkStatus
    <2>5. UploadTypes' /\ Steady
      BY <2>3, <2>4, StatusTypes DEF ChunkMoves, ChunkStatus
    <2>6. /\ put' \in [Puts -> PutRec] /\ \A q \in Puts : q # r => put'[q] = put[q]
          /\ put'[r].pc = "stream" /\ put'[r].idx = put[r].idx
          /\ put'[r].length = put[r].length /\ put'[r].read = put[r].read
          /\ put'[r].claimed = u /\ put'[r].sent = put[r].sent /\ put'[r].frame = put[r].frame
      <3>1. u \in Nat
        BY DEF UploadTypes
      <3> QED
        BY <1>2, <2>1, <3>1 DEF Claim, PutTypes, PutRec
    <2>7. PutType(r)'
      <3>1. u # None
        BY NamesAssumption DEF UploadTypes
      <3>2. 0 + 0 <= put[r].length
        BY DEF PutTypes, PutRec
      <3> QED
        BY <1>1, <2>2, <2>5, <2>6, <3>1, <3>2, PutTypeNext
    <2> QED
      BY <2>5, <2>6, <2>7, PutTypeStep
  <1>3. CASE ~(meta # None /\ put[r].idx \in DOMAIN info[meta].chunks
               /\ info[meta].chunks[put[r].idx] = "NotStarted")
    <2>1. UNCHANGED <<meta, info, file, by>> /\ put' = [put EXCEPT ![r].pc = "done"]
      BY <1>3 DEF Claim
    <2>2. UploadTypes' /\ Steady
      BY <2>1 DEF UploadTypes, Steady, Count
    <2>3. /\ put' \in [Puts -> PutRec] /\ \A q \in Puts : q # r => put'[q] = put[q]
          /\ put'[r].pc = "done" /\ put'[r].idx = put[r].idx
          /\ put'[r].length = put[r].length /\ put'[r].read = put[r].read
          /\ put'[r].claimed = put[r].claimed /\ put'[r].sent = put[r].sent
          /\ put'[r].frame = put[r].frame
      BY <2>1 DEF PutTypes, PutRec
    <2>4. PutType(r)'
      BY <2>1, <2>3 DEF PutTypes, PutType, Count
    <2> QED
      BY <2>2, <2>3, <2>4, PutTypeStep
  <1> QED
    BY <1>2, <1>3

LEMMA WrittenTypes ==
  ASSUME TypeInv, NEW r \in Puts, Written(r) \/ WrittenLate(r)
  PROVE  TypeInv'
  <1> USE DEF TypeInv
  <1>1. Lands(r) /\ UNCHANGED <<meta, info, by>>
    BY DEF Written, WrittenLate
  <1>2. PICK u \in DOMAIN info, o \in Nat, f \in Nat \ {0} :
          u = put[r].claimed /\ FileGrows(u, r, o, f)
    BY <1>1, LandsEffect
  <1>3. UploadTypes' /\ Steady
    BY <1>1, <1>2, GrowsTypes DEF Steady
  <1>4. put[r].sent + put[r].frame <= put[r].length /\ put[r].sent \in Nat /\ put[r].frame \in Nat
    BY DEF PutTypes, PutType, PutRec
  <1>5. /\ put' \in [Puts -> PutRec] /\ \A q \in Puts : q # r => put'[q] = put[q]
        /\ put'[r].idx = put[r].idx /\ put'[r].length = put[r].length
        /\ put'[r].read = put[r].read /\ put'[r].claimed = put[r].claimed
        /\ put'[r].pc \in {"stream", "done"}
        /\ put'[r].sent + put'[r].frame = put[r].sent + put[r].frame
    <2>1. CASE Written(r)
      <3>1. PICK n \in Nat : n = put[r].sent + put[r].frame
        BY <1>4
      <3>2. put' = [put EXCEPT ![r] = [put[r] EXCEPT !.sent = n, !.frame = 0]]
        BY <2>1, <3>1 DEF Written, PutTypes, PutRec
      <3>3. put[r].pc = "stream" /\ put[r] \in PutRec
        BY <2>1 DEF Written, PutTypes
      <3>4. /\ put'[r] = [put[r] EXCEPT !.sent = n, !.frame = 0]
            /\ \A q \in Puts : q # r => put'[q] = put[q]
        BY <3>2 DEF PutTypes
      <3>5. put'[r] \in PutRec
        <4>1. PICK x \in PutRec : x = put[r]
          BY <3>3
        <4>2. put'[r] = [x EXCEPT !.sent = n, !.frame = 0]
          BY <3>4, <4>1
        <4>3. [x EXCEPT !.sent = n, !.frame = 0] \in PutRec
          BY <3>1, <4>1 DEF PutRec
        <4> QED
          BY <4>2, <4>3
      <3>6. put' \in [Puts -> PutRec]
        BY <3>2, <3>4, <3>5 DEF PutTypes
      <3>7. /\ put'[r].idx = put[r].idx /\ put'[r].length = put[r].length
            /\ put'[r].read = put[r].read /\ put'[r].claimed = put[r].claimed
            /\ put'[r].pc = put[r].pc /\ put'[r].sent = n /\ put'[r].frame = 0
        BY <3>3, <3>4 DEF PutRec
      <3> QED
        BY <3>1, <3>3, <3>4, <3>6, <3>7
    <2>2. CASE WrittenLate(r)
      BY <1>4, <2>2 DEF WrittenLate, PutTypes, PutRec
    <2> QED
      BY <2>1, <2>2
  <1>6. u # None
    BY NamesAssumption DEF UploadTypes
  <1>7. PutType(r)'
    BY <1>2, <1>3, <1>4, <1>5, <1>6, PutTypeNext
  <1> QED
    BY <1>3, <1>5, <1>7, PutTypeStep

\* The chunk a request has claimed gets its status.
LEMMA StreamTypes ==
  ASSUME TypeInv, NEW r \in Puts, Complete(r) \/ Fail(r)
  PROVE  TypeInv'
  <1> USE DEF TypeInv
  <1>1. put[r].claimed # None /\ put[r].pc = "stream"
    BY DEF Complete, Fail, PutTypes, PutType
  <1>2. PICK u \in DOMAIN info : \E c \in 0 .. Count(u) - 1 : u = put[r].claimed /\ c = put[r].idx
    BY <1>1, ChunkOfPut
  <1>3. PICK c \in 0 .. Count(u) - 1 : c = put[r].idx
    BY <1>2
  <1>4. PICK s \in {"Completed", "NotStarted"} : info' = [info EXCEPT ![u].chunks[c] = s]
    BY <1>2, <1>3 DEF Complete, Fail, Status
  <1>5. ChunkMoves(u, c, s)
    BY <1>4, StatusEffect DEF ChunkStatus
  <1>6. UNCHANGED file /\ meta' \in {meta, None}
        /\ (by' = by \/ \E q \in Puts : by' = [by EXCEPT ![u][c] = q])
    BY <1>2, <1>3 DEF Complete, Fail
  <1>7. UploadTypes' /\ Steady
    BY <1>5, <1>6, StatusTypes DEF ChunkMoves, ChunkStatus
  <1>8. /\ put' \in [Puts -> PutRec] /\ \A q \in Puts : q # r => put'[q] = put[q]
        /\ put'[r].idx = put[r].idx /\ put'[r].length = put[r].length
        /\ put'[r].read = put[r].read /\ put'[r].claimed = put[r].claimed
        /\ put'[r].pc \in {"late", "done"}
        /\ put'[r].sent = put[r].sent /\ put'[r].frame = put[r].frame
    <2>1. CASE Complete(r)
      BY <2>1 DEF Complete, PutTypes, PutRec
    <2>2. CASE Fail(r)
      <3>1. put' = [put EXCEPT ![r].pc = IF put[r].frame > 0 THEN "late" ELSE "done"]
        BY <1>1, <2>2 DEF Fail
      <3> QED
        BY <3>1 DEF PutTypes, PutRec
    <2> QED
      BY <2>1, <2>2
  <1>9. put[r].sent + put[r].frame <= put[r].length
    BY DEF PutTypes, PutType
  <1>10. PutType(r)'
    BY <1>1, <1>2, <1>7, <1>8, <1>9, PutTypeNext
  <1> QED
    BY <1>7, <1>8, <1>10, PutTypeStep

\* The number of a new upload.
LEMMA Numbered ==
  ASSUME UploadTypes
  PROVE  \E k \in Nat : k = Cardinality(DOMAIN info) /\ DOMAIN info = 1 .. k
                        /\ DOMAIN file = 1 .. k /\ DOMAIN by = 1 .. k
  <1>1. PICK k \in Nat : DOMAIN info = 1 .. k /\ DOMAIN file = 1 .. k /\ DOMAIN by = 1 .. k
    BY DEF UploadTypes
  <1>2. Cardinality(1 .. k) = k
    <2>1. Cardinality(1 .. k) = IF 1 > k THEN 0 ELSE k - 1 + 1
      BY FS_Interval
    <2> QED
      BY <2>1
  <1> QED
    BY <1>1, <1>2

\* Upload u is new; the others stay.
Created(u, size, chunk_size) ==
  /\ u \notin DOMAIN info /\ u \in Nat
  /\ DOMAIN info' = DOMAIN info \cup {u}
  /\ \A v \in DOMAIN info : info'[v] = info[v] /\ file'[v] = file[v] /\ by'[v] = by[v]
  /\ info'[u] = [size |-> size, chunk_size |-> chunk_size,
                 chunks |-> [c \in 0 .. ChunksCount(size, chunk_size) - 1 |-> "NotStarted"]]
  /\ file'[u] = [p \in 0 .. size - 1 |-> Hole]
  /\ by'[u] = [c \in 0 .. ChunksCount(size, chunk_size) - 1 |-> None]

LEMMA CreateTypes ==
  ASSUME TypeInv, NEW size \in Sizes, NEW chunk_size \in ChunkSizes, Create(size, chunk_size)
  PROVE  /\ TypeInv' /\ Steady
         /\ \E u \in Nat : u = meta' /\ Created(u, size, chunk_size)
  <1> USE DEF TypeInv
  <1>1. PICK k \in Nat : k = Cardinality(DOMAIN info) /\ DOMAIN info = 1 .. k
                         /\ DOMAIN file = 1 .. k /\ DOMAIN by = 1 .. k
    BY Numbered
  <1> DEFINE u == k + 1
             chunks == 0 .. ChunksCount(size, chunk_size) - 1
  <1>2. /\ meta' = u /\ put' = put
        /\ info' = [v \in 1 .. u |-> IF v < u THEN info[v] ELSE
                      [size |-> size, chunk_size |-> chunk_size,
                       chunks |-> [c \in chunks |-> "NotStarted"]]]
        /\ file' = [v \in 1 .. u |-> IF v < u THEN file[v] ELSE [p \in 0 .. size - 1 |-> Hole]]
        /\ by' = [v \in 1 .. u |-> IF v < u THEN by[v] ELSE [c \in chunks |-> None]]
    BY <1>1 DEF Create
  <1>3. /\ DOMAIN info' = 1 .. u /\ DOMAIN file' = 1 .. u /\ DOMAIN by' = 1 .. u
        /\ info' = [v \in DOMAIN info' |-> info'[v]]
        /\ file' = [v \in DOMAIN info' |-> file'[v]]
        /\ by' = [v \in DOMAIN info' |-> by'[v]]
    BY <1>2
  <1>4. Created(u, size, chunk_size)
    <2>0. /\ \A n \in Nat : /\ n + 1 \in 1 .. n + 1 /\ n + 1 \notin 1 .. n
                           /\ 1 .. n + 1 = (1 .. n) \cup {n + 1}
          /\ \A n \in Nat : \A v \in 1 .. n : v \in 1 .. n + 1 /\ v < n + 1
      OBVIOUS
    <2>1. u \in 1 .. u /\ u \in Nat /\ u \notin DOMAIN info /\ ~(u < u)
          /\ 1 .. u = DOMAIN info \cup {u}
      <3>1. k \in Nat /\ DOMAIN info = 1 .. k
        BY <1>1
      <3>2. u \in 1 .. u /\ u \notin 1 .. k /\ 1 .. u = (1 .. k) \cup {u}
        BY <2>0, <3>1
      <3>3. u \in Nat /\ ~(u < u)
        BY <3>1
      <3> QED
        BY <3>1, <3>2, <3>3
    <2>2. \A v \in DOMAIN info : v \in 1 .. u /\ v < u
      BY <1>1, <2>0
    <2>3. \A v \in DOMAIN info : info'[v] = info[v] /\ file'[v] = file[v] /\ by'[v] = by[v]
      BY <1>2, <2>2
    <2>4. /\ info'[u] = [size |-> size, chunk_size |-> chunk_size,
                         chunks |-> [c \in chunks |-> "NotStarted"]]
          /\ file'[u] = [p \in 0 .. size - 1 |-> Hole]
          /\ by'[u] = [c \in chunks |-> None]
      BY <1>2, <2>1
    <2> QED
      BY <1>3, <2>1, <2>3, <2>4 DEF Created
  <1>5. Steady
    BY <1>4 DEF Created, Steady
  <1>6. ASSUME NEW v \in DOMAIN info'
        PROVE  /\ info'[v] = [size |-> info'[v].size, chunk_size |-> info'[v].chunk_size,
                              chunks |-> info'[v].chunks]
               /\ info'[v].size \in Sizes /\ info'[v].chunk_size \in ChunkSizes
               /\ info'[v].chunks \in [0 .. Count(v)' - 1 -> ChunkStatus]
               /\ by'[v] \in [0 .. Count(v)' - 1 -> Puts \cup {None}]
               /\ \E e \in Nat : file'[v] \in [0 .. e - 1 -> Puts \cup {Hole}]
    <2>1. CASE v \in DOMAIN info
      BY <1>4, <2>1 DEF Created, Count, UploadTypes
    <2>2. CASE v = u
      <3>1. size \in Nat
        BY SizesAssumption
      <3> QED
        BY <1>4, <2>2, <3>1 DEF Created, Count, ChunkStatus
    <2> QED
      BY <1>4, <2>1, <2>2 DEF Created
  <1>7. UploadTypes'
    <2>1. u \in Nat /\ meta' \in DOMAIN info' \cup {None}
      BY <1>2, <1>3
    <2>2. \E n \in Nat : DOMAIN info' = 1 .. n /\ DOMAIN file' = 1 .. n /\ DOMAIN by' = 1 .. n
      BY <1>3, <2>1
    <2> HIDE DEF u, chunks
    <2> QED
      BY <1>3, <1>6, <2>1, <2>2 DEF UploadTypes
  <1>8. PutTypes'
    <2>1. \A r \in Puts : put'[r] = put[r]
      BY <1>2
    <2>2. \A v \in DOMAIN info : Count(v)' = Count(v)
      BY <1>5 DEF Steady, Count
    <2>3. \A r \in Puts : PutType(r)'
      BY <1>5, <2>1, <2>2 DEF PutTypes, PutType, Steady
    <2> QED
      BY <1>2, <2>3 DEF PutTypes
  <1> QED
    BY <1>2, <1>4, <1>5, <1>7, <1>8

LEMMA StepTypeInv == TypeInv /\ [Next]_vars => TypeInv'
  <1> SUFFICES ASSUME TypeInv, [Next]_vars PROVE TypeInv'
    OBVIOUS
  <1>1. CASE UNCHANGED vars
    BY <1>1 DEF vars, TypeInv, UploadTypes, PutTypes, PutType, Count
  <1>2. ASSUME NEW size \in Sizes, NEW chunk_size \in ChunkSizes, Create(size, chunk_size)
        PROVE  TypeInv'
    BY <1>2, CreateTypes
  <1>3. ASSUME NEW r \in Puts, meta # None,
               NEW idx \in DOMAIN info[meta].chunks \cup {LastIndex(info[meta].chunks)},
               NEW length \in 0 .. info[meta].chunk_size + 1, Read(r, idx, length)
        PROVE  TypeInv'
    <2>1. length \in Nat
      BY <1>3, CountType DEF TypeInv, UploadTypes
    <2> QED
      BY <1>3, <2>1, ReadTypes
  <1>4. ASSUME NEW r \in Puts, NEW n \in 1 .. put[r].length + 1, Frame(r, n)
        PROVE  TypeInv'
    BY <1>4, FrameTypes DEF TypeInv, PutTypes, PutRec
  <1>5. ASSUME NEW r \in Puts,
               Claim(r) \/ Written(r) \/ WrittenLate(r) \/ Complete(r) \/ Fail(r)
        PROVE  TypeInv'
    BY <1>5, ClaimTypes, WrittenTypes, StreamTypes
  <1> QED
    BY <1>1, <1>2, <1>3, <1>4, <1>5 DEF Next

LEMMA TypeInvAlways == Spec => []TypeInv
  <1> QED
    BY InitTypeInv, StepTypeInv, PTL DEF Spec

LEMMA TypeInvTypes == TypeInv => TypeOK
  <1> SUFFICES ASSUME TypeInv PROVE TypeOK
    OBVIOUS
  <1>1. ASSUME NEW u \in DOMAIN info
        PROVE  /\ info[u].size \in Sizes /\ info[u].chunk_size \in ChunkSizes
               /\ info[u].chunks \in [DOMAIN by[u] -> {"NotStarted", "Ongoing", "Completed"}]
    BY DEF TypeInv, UploadTypes, ChunkStatus
  <1>2. ASSUME NEW u \in DOMAIN info
        PROVE  /\ file[u] \in [DOMAIN file[u] -> Puts \cup {Hole}]
               /\ DOMAIN file[u] = 0 .. Cardinality(DOMAIN file[u]) - 1
    <2>1. PICK e \in Nat : file[u] \in [0 .. e - 1 -> Puts \cup {Hole}]
      BY DEF TypeInv, UploadTypes
    <2>2. Cardinality(0 .. e - 1) = IF 0 > e - 1 THEN 0 ELSE e - 1 - 0 + 1
      BY FS_Interval
    <2>3. Cardinality(0 .. e - 1) = e
      BY <2>2
    <2> QED
      BY <2>1, <2>3
  <1> QED
    BY <1>1, <1>2 DEF TypeInv, UploadTypes, PutTypes, PutType, TypeOK

-----------------------------------------------------------------------------
(* Steps, seen from the files.                                              *)

\* Who has claimed a chunk keeps it, and what it was checked against.
PutSteady ==
  \A q \in Puts : put[q].claimed # None =>
    /\ put'[q].claimed = put[q].claimed /\ put'[q].read = put[q].read
    /\ put'[q].idx = put[q].idx /\ put'[q].length = put[q].length

FilesStay ==
  /\ \A v \in DOMAIN info : file'[v] = file[v]
  /\ \A v \in DOMAIN info' \ DOMAIN info :
       /\ DOMAIN file'[v] = 0 .. info'[v].size - 1
       /\ \A p \in DOMAIN file'[v] : file'[v][p] = Hole
  /\ \A q \in Puts : put'[q].sent = put[q].sent

FrameLands(r) ==
  /\ Lands(r) /\ info' = info
  /\ \A q \in Puts : q # r => put'[q] = put[q]
  /\ put'[r].sent \in {put[r].sent, put[r].sent + put[r].frame}

LEMMA StepsOnFiles ==
  ASSUME TypeInv, [Next]_vars
  PROVE  Steady /\ PutSteady /\ (FilesStay \/ \E r \in Puts : FrameLands(r))
  <1> USE DEF TypeInv
  <1>1. CASE UNCHANGED vars
    BY <1>1 DEF vars, Steady, PutSteady, FilesStay
  <1>2. ASSUME NEW size \in Sizes, NEW chunk_size \in ChunkSizes, Create(size, chunk_size)
        PROVE  Steady /\ PutSteady /\ FilesStay
    <2>1. Steady
      BY <1>2, CreateTypes
    <2>2. PICK u \in Nat : Created(u, size, chunk_size)
      BY <1>2, CreateTypes
    <2>3. put' = put
      BY <1>2 DEF Create
    <2>4. ASSUME NEW v \in DOMAIN info' \ DOMAIN info
          PROVE  /\ DOMAIN file'[v] = 0 .. info'[v].size - 1
                 /\ \A p \in DOMAIN file'[v] : file'[v][p] = Hole
      <3>1. v = u /\ file'[u] = [x \in 0 .. size - 1 |-> Hole] /\ info'[u].size = size
        BY <2>2 DEF Created
      <3> QED
        BY <3>1
    <2> QED
      BY <2>1, <2>2, <2>3, <2>4 DEF Created, FilesStay, PutSteady
  <1>3. ASSUME NEW r \in Puts, NEW idx, NEW length, Read(r, idx, length)
        PROVE  Steady /\ PutSteady /\ FilesStay
    <2>1. put[r].claimed = None
      BY <1>3 DEF Read, PutTypes, PutType
    <2>2. Steady /\ info' = info /\ file' = file
      BY <1>3 DEF Read, Steady
    <2>3. \A q \in Puts : q # r => put'[q] = put[q]
      BY <1>3 DEF Read, PutTypes
    <2>4. put'[r].sent = put[r].sent
      BY <1>3 DEF Read, PutTypes, PutRec
    <2> QED
      BY <1>3, <2>1, <2>2, <2>3, <2>4 DEF PutSteady, FilesStay, Read
  <1>4. ASSUME NEW r \in Puts, NEW n, Frame(r, n)
        PROVE  Steady /\ PutSteady /\ FilesStay
    BY <1>4 DEF Frame, Steady, PutSteady, FilesStay, PutTypes, PutRec
  <1>5. ASSUME NEW r \in Puts, Claim(r)
        PROVE  Steady /\ PutSteady /\ FilesStay
    <2>1. put[r].claimed = None /\ file' = file
      BY <1>5 DEF Claim, PutTypes, PutType
    <2>2. PutSteady /\ \A q \in Puts : put'[q].sent = put[q].sent
      BY <1>5, <2>1 DEF Claim, PutSteady, PutTypes, PutRec
    <2>3. Steady /\ DOMAIN info' = DOMAIN info
      <3>1. CASE info' = info
        BY <3>1 DEF Steady
      <3>2. CASE info' # info
        <4>1. PICK u \in DOMAIN info : u = meta
          BY <1>5, <3>2 DEF Claim, UploadTypes
        <4>2. PICK c \in 0 .. Count(u) - 1 : c = put[r].idx
          BY <1>5, <3>2, <4>1 DEF Claim, UploadTypes
        <4>3. info' = [info EXCEPT ![u].chunks[c] = "Ongoing"]
          BY <1>5, <3>2, <4>1, <4>2 DEF Claim, Status
        <4> QED
          BY <4>3, StatusEffect DEF ChunkMoves, ChunkStatus
      <3> QED
        BY <3>1, <3>2
    <2> QED
      BY <2>1, <2>2, <2>3 DEF FilesStay
  <1>6. ASSUME NEW r \in Puts, Written(r) \/ WrittenLate(r)
        PROVE  Steady /\ PutSteady /\ FrameLands(r)
    BY <1>6 DEF Written, WrittenLate, Steady, PutSteady, FrameLands, PutTypes, PutRec
  <1>7. ASSUME NEW r \in Puts, Complete(r) \/ Fail(r)
        PROVE  Steady /\ PutSteady /\ FilesStay
    <2>1. PutSteady /\ (\A q \in Puts : put'[q].sent = put[q].sent) /\ file' = file
      BY <1>7 DEF Complete, Fail, PutSteady, PutTypes, PutRec
    <2>2. put[r].claimed # None
      BY <1>7 DEF Complete, Fail, PutTypes, PutType
    <2>3. PICK u \in DOMAIN info : \E c \in 0 .. Count(u) - 1 : u = put[r].claimed /\ c = put[r].idx
      BY <2>2, ChunkOfPut
    <2>4. PICK c \in 0 .. Count(u) - 1 : c = put[r].idx
      BY <2>3
    <2>5. PICK s \in {"Completed", "NotStarted"} : info' = [info EXCEPT ![u].chunks[c] = s]
      BY <1>7, <2>3, <2>4 DEF Complete, Fail, Status
    <2>6. Steady /\ DOMAIN info' = DOMAIN info
      BY <2>5, StatusEffect DEF ChunkMoves, ChunkStatus
    <2> QED
      BY <2>1, <2>6 DEF FilesStay
  <1> QED
    BY <1>1, <1>2, <1>3, <1>4, <1>5, <1>6, <1>7 DEF Next

-----------------------------------------------------------------------------
(* Bytes.                                                                   *)

\* The declared length of a request that is not stale fits its chunk.
LEMMA OffsetInChunk ==
  ASSUME TypeInv, NEW r \in Puts, put[r].claimed # None
  PROVE  /\ Offset(r) \in Nat
         /\ ~Stale(r) => Offset(r) .. Offset(r) + put[r].length - 1
                           \subseteq ChunkOf(put[r].claimed, put[r].idx)
  <1>1. PICK u \in DOMAIN info : u = put[r].read /\ u # None
    BY DEF TypeInv, PutTypes, PutType
  <1>2. PICK c \in Nat : c = put[r].idx
    BY DEF TypeInv, PutTypes, PutRec
  <1>3. PICK n \in Nat : n = info[u].chunk_size
    BY CountType DEF TypeInv
  <1>4. PICK l \in Nat : l = put[r].length
    BY DEF TypeInv, PutTypes, PutRec
  <1>5. l <= n
    BY <1>1, <1>3, <1>4 DEF TypeInv, PutTypes, PutType
  <1>6. PICK m \in Nat : m = c * n /\ (c + 1) * n = m + n
    BY ChunkLength
  <1>7. Offset(r) = m
    BY <1>1, <1>2, <1>3, <1>6 DEF Offset
  <1>8. ASSUME ~Stale(r)
        PROVE  m .. m + l - 1 \subseteq ChunkOf(put[r].claimed, put[r].idx)
    <2>1. put[r].claimed = u
      BY <1>1, <1>8 DEF Stale
    <2>2. ChunkOf(put[r].claimed, put[r].idx) = c * n .. (c + 1) * n - 1
      BY <1>2, <1>3, <2>1 DEF ChunkOf
    <2>3. c * n .. (c + 1) * n - 1 = m .. (m + n) - 1
      BY <1>6
    <2>4. m .. m + l - 1 \subseteq m .. (m + n) - 1
      BY <1>5
    <2> QED
      BY <2>2, <2>3, <2>4
  <1> QED
    BY <1>4, <1>7, <1>8

\* What is written belongs to the chunk of a request that is not stale.
LEMMA FrameInChunk ==
  ASSUME TypeInv, NEW r \in Puts, FrameLands(r)
  PROVE  \E u \in DOMAIN info, o \in Nat, f \in Nat \ {0} :
           /\ u = put[r].claimed /\ o = Offset(r) + put[r].sent /\ f = put[r].frame
           /\ FileGrows(u, r, o, f) /\ u # None
           /\ ~Stale(r) => o .. o + f - 1 \subseteq ChunkOf(u, put[r].idx)
  <1>1. PICK u \in DOMAIN info, o \in Nat, f \in Nat \ {0} :
          /\ u = put[r].claimed /\ o = Offset(r) + put[r].sent /\ f = put[r].frame
          /\ FileGrows(u, r, o, f)
    BY LandsEffect DEF FrameLands
  <1>2. u # None
    BY NamesAssumption DEF TypeInv, UploadTypes
  <1>3. ASSUME ~Stale(r)
        PROVE  o .. o + f - 1 \subseteq ChunkOf(u, put[r].idx)
    <2>1. PICK m \in Nat : m = Offset(r)
      BY <1>1, <1>2, OffsetInChunk
    <2>2. m .. m + put[r].length - 1 \subseteq ChunkOf(u, put[r].idx)
      BY <1>1, <1>2, <1>3, <2>1, OffsetInChunk
    <2>3. put[r].length \in Nat /\ put[r].sent \in Nat
      BY DEF TypeInv, PutTypes, PutRec
    <2>4. put[r].sent + f <= put[r].length
      BY <1>1 DEF TypeInv, PutTypes, PutType
    <2>5. o .. o + f - 1 \subseteq m .. m + put[r].length - 1
      BY <1>1, <2>1, <2>3, <2>4
    <2> QED
      BY <2>2, <2>5
  <1> QED
    BY <1>1, <1>2, <1>3

\* The bytes of a request after a frame has landed.
LEMMA BytesAfterFrame ==
  ASSUME TypeInv, NEW r \in Puts, NEW u \in DOMAIN info, NEW o \in Nat, NEW f \in Nat \ {0},
         FileGrows(u, r, o, f), NEW q \in Puts
  PROVE  /\ \A v \in DOMAIN info : v # u => BytesOf(v, q)' = BytesOf(v, q)
         /\ q = r => BytesOf(u, q)' = BytesOf(u, q) \cup o .. o + f - 1
         /\ q # r => BytesOf(u, q)' = BytesOf(u, q) \ (o .. o + f - 1)
  <1>1. \A v \in DOMAIN info : v # u => BytesOf(v, q)' = BytesOf(v, q)
    BY DEF FileGrows, BytesOf
  <1>2. q # Hole
    BY NamesAssumption
  <1>3. o .. o + f - 1 \subseteq 0 .. o + f - 1
    OBVIOUS
  <1>4. \A p : p \in BytesOf(u, q)' <=>
          p \in DOMAIN file[u] \cup 0 .. o + f - 1
          /\ q = IF p \in o .. o + f - 1 THEN r ELSE IF p \in DOMAIN file[u] THEN file[u][p] ELSE Hole
    BY DEF FileGrows, BytesOf
  <1>5. \A p : p \in BytesOf(u, q) <=> p \in DOMAIN file[u] /\ file[u][p] = q
    BY DEF BytesOf
  <1>6. q = r => BytesOf(u, q)' = BytesOf(u, q) \cup o .. o + f - 1
    BY <1>2, <1>3, <1>4, <1>5
  <1>7. q # r => BytesOf(u, q)' = BytesOf(u, q) \ (o .. o + f - 1)
    BY <1>2, <1>3, <1>4, <1>5
  <1> QED
    BY <1>1, <1>6, <1>7

\* The bytes of a request where no frame lands.
LEMMA BytesStay ==
  ASSUME TypeInv, FilesStay, NEW q \in Puts
  PROVE  /\ \A v \in DOMAIN info : BytesOf(v, q)' = BytesOf(v, q)
         /\ \A v \in DOMAIN info' \ DOMAIN info : BytesOf(v, q)' = {}
  <1>1. q # Hole
    BY NamesAssumption
  <1> QED
    BY <1>1 DEF FilesStay, BytesOf

\* Who was stale stays so, and no claimed chunk moves.
LEMMA StaleStays ==
  ASSUME TypeInv, Steady, PutSteady, NEW q \in Puts, put[q].claimed # None
  PROVE  /\ Stale(q)' = Stale(q) /\ put'[q].claimed = put[q].claimed /\ put'[q].idx = put[q].idx
         /\ put[q].claimed \in DOMAIN info /\ put[q].claimed \in DOMAIN info'
  <1>1. PutType(q)
    BY DEF TypeInv, PutTypes
  <1> QED
    BY <1>1 DEF PutSteady, Stale, Steady, PutType

\* Only a request that has claimed a chunk has bytes.
LEMMA BytesAreClaimed ==
  ASSUME TypeInv, InsideItsChunk, NEW q \in Puts, NEW v \in DOMAIN info, NEW p \in BytesOf(v, q)
  PROVE  put[q].claimed # None /\ (~Stale(q) => v = put[q].claimed /\ p \in ChunkOf(v, put[q].idx))
  <1>1. v # None
    BY NamesAssumption DEF TypeInv, UploadTypes
  <1> QED
    BY <1>1 DEF InsideItsChunk, Stale

LEMMA StepInsideItsChunk ==
  ASSUME TypeInv, InsideItsChunk, [Next]_vars
  PROVE  InsideItsChunk'
  <1>1. Steady /\ PutSteady /\ (FilesStay \/ \E r \in Puts : FrameLands(r))
    BY StepsOnFiles
  <1> SUFFICES ASSUME NEW v \in DOMAIN info', NEW q \in Puts, ~Stale(q)', NEW p \in BytesOf(v, q)'
               PROVE  /\ v \in DOMAIN info /\ p \in ChunkOf(v, put[q].idx)
                      /\ v = put'[q].claimed /\ put'[q].idx = put[q].idx
    BY <1>1 DEF InsideItsChunk, ChunkOf, Steady
  <1>2. ASSUME v \in DOMAIN info, put[q].claimed # None
        PROVE  ~Stale(q) /\ put'[q].claimed = put[q].claimed /\ put'[q].idx = put[q].idx
    BY <1>1, <1>2, StaleStays
  <1>3. ASSUME v \in DOMAIN info, p \in BytesOf(v, q)
        PROVE  /\ v \in DOMAIN info /\ p \in ChunkOf(v, put[q].idx)
               /\ v = put'[q].claimed /\ put'[q].idx = put[q].idx
    <2>1. put[q].claimed # None
      BY <1>3, BytesAreClaimed
    <2> QED
      BY <1>2, <1>3, <2>1, BytesAreClaimed
  <1>4. CASE FilesStay
    BY <1>3, <1>4, BytesStay
  <1>5. ASSUME NEW r \in Puts, FrameLands(r)
        PROVE  /\ v \in DOMAIN info /\ p \in ChunkOf(v, put[q].idx)
               /\ v = put'[q].claimed /\ put'[q].idx = put[q].idx
    <2>1. PICK u \in DOMAIN info, o \in Nat, f \in Nat \ {0} :
            /\ u = put[r].claimed /\ FileGrows(u, r, o, f) /\ u # None
            /\ ~Stale(r) => o .. o + f - 1 \subseteq ChunkOf(u, put[r].idx)
      BY <1>5, FrameInChunk
    <2>2. v \in DOMAIN info
      BY <1>5 DEF FrameLands
    <2>3. CASE p \in BytesOf(v, q)
      BY <1>3, <2>2, <2>3
    <2>4. CASE p \notin BytesOf(v, q)
      <3>1. /\ v # u => BytesOf(v, q)' = BytesOf(v, q)
            /\ q = r => BytesOf(u, q)' = BytesOf(u, q) \cup o .. o + f - 1
            /\ q # r => BytesOf(u, q)' = BytesOf(u, q) \ (o .. o + f - 1)
        BY <2>1, <2>2, BytesAfterFrame
      <3>2. v = u
        BY <2>4, <3>1
      <3>3. q = r /\ p \in o .. o + f - 1
        BY <2>4, <3>1, <3>2
      <3> QED
        BY <1>2, <2>1, <2>2, <3>2, <3>3
    <2> QED
      BY <2>3, <2>4
  <1> QED
    BY <1>1, <1>4, <1>5

\* What was held stays held.
LEMMA HeldStays ==
  ASSUME TypeInv, InsideItsChunk, Steady, PutSteady, FilesStay \/ \E r \in Puts : FrameLands(r),
         NEW q \in Puts, NEW v \in DOMAIN info, v = put[q].claimed, ~Stale(q),
         NEW p \in ChunkOf(v, put[q].idx), Holds(v, q, p)
  PROVE  Holds(v, q, p)'
  <1>1. v # None
    BY NamesAssumption DEF TypeInv, UploadTypes
  <1>2. put'[q].idx = put[q].idx
    BY <1>1, StaleStays
  <1>3. ASSUME NEW s \in Puts, s # q, p \in BytesOf(v, s), Stale(s) \/ put[s].idx = put[q].idx
        PROVE  Stale(s)' \/ put'[s].idx = put'[q].idx
    BY <1>2, <1>3, BytesAreClaimed, StaleStays
  <1>4. CASE FilesStay
    BY <1>3, <1>4, BytesStay DEF Holds
  <1>5. ASSUME NEW r \in Puts, FrameLands(r)
        PROVE  Holds(v, q, p)'
    <2>1. PICK u \in DOMAIN info, o \in Nat, f \in Nat \ {0} :
            /\ u = put[r].claimed /\ FileGrows(u, r, o, f) /\ u # None
            /\ ~Stale(r) => o .. o + f - 1 \subseteq ChunkOf(u, put[r].idx)
      BY <1>5, FrameInChunk
    <2>2. CASE v # u \/ p \notin o .. o + f - 1
      <3>1. \A s \in Puts : p \in BytesOf(v, s) => p \in BytesOf(v, s)'
        BY <2>1, <2>2, BytesAfterFrame
      <3> QED
        BY <1>3, <3>1 DEF Holds
    <2>3. CASE v = u /\ p \in o .. o + f - 1
      <3>1. p \in BytesOf(v, r)'
        BY <2>1, <2>3, BytesAfterFrame
      <3>2. Stale(r) \/ put[r].idx = put[q].idx
        <4>1. SUFFICES ASSUME ~Stale(r) PROVE put[r].idx = put[q].idx
          OBVIOUS
        <4>2. p \in ChunkOf(v, put[r].idx)
          BY <2>1, <2>3, <4>1
        <4>3. PICK n \in Nat : n = info[v].chunk_size
          BY CountType DEF TypeInv
        <4>4. put[r].idx \in Nat /\ put[q].idx \in Nat
          BY DEF TypeInv, PutTypes, PutRec
        <4> QED
          BY <4>2, <4>3, <4>4, SameChunk DEF ChunkOf
      <3>3. Stale(r)' \/ put'[r].idx = put'[q].idx
        BY <1>1, <1>2, <2>1, <3>2, StaleStays
      <3> QED
        BY <3>1, <3>3 DEF Holds
    <2> QED
      BY <2>2, <2>3
  <1> QED
    BY <1>4, <1>5

LEMMA StepSentInv ==
  ASSUME TypeInv, TypeInv', InsideItsChunk, SentInv, [Next]_vars
  PROVE  SentInv'
  <1>1. Steady /\ PutSteady /\ (FilesStay \/ \E r \in Puts : FrameLands(r))
    BY StepsOnFiles
  <1> SUFFICES ASSUME NEW q \in Puts, NEW v, v = put'[q].claimed, v # None, ~Stale(q)',
                      NEW p \in Offset(q)' .. Offset(q)' + put'[q].sent - 1
               PROVE  Holds(v, q, p)'
    BY DEF SentInv, Holds
  <1>2. CASE put[q].claimed = None
    <2>1. Offset(q)' \in Nat
      <3>1. put'[q].read \in DOMAIN info' /\ put'[q].idx \in Nat
        BY DEF TypeInv, PutTypes, PutType, PutRec
      <3>2. info'[put'[q].read].chunk_size \in Nat
        BY <3>1, SizesAssumption DEF TypeInv, UploadTypes
      <3> QED
        BY <3>1, <3>2, ChunkLength DEF Offset
    <2>2. put[q].sent = 0
      BY <1>2 DEF TypeInv, PutTypes, PutType
    <2>3. CASE FilesStay
      <3>1. put'[q].sent = 0
        BY <2>2, <2>3 DEF FilesStay
      <3> QED
        BY <2>1, <3>1
    <2>4. ASSUME NEW r \in Puts, FrameLands(r)
          PROVE  FALSE
      <3>1. q # r
        BY <1>2, <2>4, FrameInChunk
      <3> QED
        BY <1>2, <2>4, <3>1 DEF FrameLands
    <2> QED
      BY <1>1, <2>3, <2>4
  <1>3. CASE put[q].claimed # None
    <2>1. /\ v = put[q].claimed /\ v \in DOMAIN info /\ ~Stale(q)
      BY <1>1, <1>3, StaleStays
    <2>2. Offset(q)' = Offset(q)
      <3>1. put[q].read \in DOMAIN info
        BY <1>3 DEF TypeInv, PutTypes, PutType
      <3> QED
        BY <1>1, <1>3, <3>1 DEF PutSteady, Steady, Offset
    <2>3. PICK o \in Nat : o = Offset(q)
      BY <1>3, OffsetInChunk
    <2>4. put[q].length \in Nat /\ put[q].sent \in Nat /\ put[q].frame \in Nat
          /\ put[q].sent <= put[q].length
      BY DEF TypeInv, PutTypes, PutRec, PutType
    <2>5. ASSUME p \in o .. o + put[q].sent - 1
          PROVE  Holds(v, q, p)'
      <3>1. Holds(v, q, p)
        BY <2>1, <2>3, <2>5, <1>3 DEF SentInv
      <3>2. p \in o .. o + put[q].length - 1
        BY <2>3, <2>4, <2>5
      <3>3. p \in ChunkOf(v, put[q].idx)
        BY <1>3, <2>1, <2>3, <3>2, OffsetInChunk
      <3> QED
        BY <1>1, <2>1, <3>1, <3>3, HeldStays
    <2>6. CASE put'[q].sent = put[q].sent
      BY <2>2, <2>3, <2>5, <2>6
    <2>7. CASE put'[q].sent # put[q].sent
      <3>1. FrameLands(q) /\ put'[q].sent = put[q].sent + put[q].frame
        BY <1>1, <2>7 DEF FilesStay, FrameLands
      <3>2. PICK u \in DOMAIN info, b \in Nat, f \in Nat \ {0} :
              u = put[q].claimed /\ b = Offset(q) + put[q].sent /\ f = put[q].frame
              /\ FileGrows(u, q, b, f)
        BY <3>1, FrameInChunk
      <3>3. CASE p \in b .. b + f - 1
        <4>1. BytesOf(u, q)' = BytesOf(u, q) \cup b .. b + f - 1
          BY <3>2, BytesAfterFrame
        <4> QED
          BY <2>1, <3>2, <3>3, <4>1 DEF Holds
      <3>4. CASE p \notin b .. b + f - 1
        <4>1. p \in o .. o + put[q].sent - 1
          BY <2>2, <2>3, <2>4, <3>1, <3>2, <3>4
        <4> QED
          BY <2>5, <4>1
      <3> QED
        BY <3>3, <3>4
    <2> QED
      BY <2>6, <2>7
  <1> QED
    BY <1>2, <1>3

LEMMA InitBytesInv == Init => BytesInv
  <1> SUFFICES ASSUME Init PROVE BytesInv
    OBVIOUS
  <1>1. DOMAIN info = {}
    BY DEF Init
  <1>2. InsideItsChunk
    BY <1>1 DEF InsideItsChunk
  <1>3. SentInv
    BY DEF Init, SentInv, IdlePut
  <1> QED
    BY <1>2, <1>3, InitTypeInv DEF BytesInv

LEMMA BytesInvAlways == Spec => []BytesInv
  <1>1. BytesInv /\ [Next]_vars => BytesInv'
    BY StepTypeInv, StepInsideItsChunk, StepSentInv DEF BytesInv
  <1> QED
    BY <1>1, InitBytesInv, PTL DEF Spec

-----------------------------------------------------------------------------
(* The table.                                                               *)

\* A request that is not done moves, and the table stays.
LEMMA TableStays ==
  ASSUME TableInv, UNCHANGED <<meta, info, by>>, NEW r \in Puts,
         \A q \in Puts : q # r => put'[q] = put[q],
         put[r].pc # "done",
         put'[r].pc = "stream" =>
           put[r].pc = "stream" /\ put'[r].claimed = put[r].claimed /\ put'[r].idx = put[r].idx
  PROVE  TableInv'
  <1>1. \A u : Count(u)' = Count(u)
    BY DEF Count
  <1>2. ByInv'
    <2> SUFFICES ASSUME NEW u \in DOMAIN info, NEW c \in 0 .. Count(u) - 1
                 PROVE  /\ (info[u].chunks[c] = "Completed") <=> (by[u][c] # None)
                        /\ by[u][c] # None =>
                             /\ by[u][c] \in Puts
                             /\ put'[by[u][c]].pc = "done" /\ put'[by[u][c]].claimed = u
                             /\ put'[by[u][c]].idx = c
                             /\ put'[by[u][c]].sent = put'[by[u][c]].length
      BY <1>1 DEF ByInv
    <2> QED
      BY DEF TableInv, ByInv
  <1>3. StreamInv'
    BY DEF TableInv, StreamInv
  <1>4. OverInv'
    BY <1>1 DEF TableInv, OverInv
  <1> QED
    BY <1>2, <1>3, <1>4 DEF TableInv

\* A chunk that is not completed, and that nobody streams into but r, moves.
LEMMA ByAfterMove ==
  ASSUME TableInv, NEW r \in Puts, NEW u \in DOMAIN info, NEW c \in 0 .. Count(u) - 1,
         NEW s \in {"NotStarted", "Ongoing"}, ChunkMoves(u, c, s), UNCHANGED by,
         info[u].chunks[c] # "Completed",
         \A q \in Puts : q # r => put'[q] = put[q], put[r].pc # "done"
  PROVE  ByInv'
  <1>1. \A v \in DOMAIN info : Count(v)' = Count(v)
    BY DEF Count, ChunkMoves, Steady
  <1> SUFFICES ASSUME NEW v \in DOMAIN info, NEW d \in 0 .. Count(v) - 1
               PROVE  /\ (info'[v].chunks[d] = "Completed") <=> (by[v][d] # None)
                      /\ by[v][d] # None =>
                           /\ by[v][d] \in Puts
                           /\ put'[by[v][d]].pc = "done" /\ put'[by[v][d]].claimed = v
                           /\ put'[by[v][d]].idx = d
                           /\ put'[by[v][d]].sent = put'[by[v][d]].length
    BY <1>1 DEF ByInv, ChunkMoves
  <1>2. (info[v].chunks[d] = "Completed") <=> (by[v][d] # None)
    BY DEF TableInv, ByInv
  <1>3. (info'[v].chunks[d] = "Completed") <=> (info[v].chunks[d] = "Completed")
    BY DEF ChunkMoves
  <1>4. by[v][d] # None => by[v][d] # r
    BY DEF TableInv, ByInv
  <1> QED
    BY <1>2, <1>3, <1>4 DEF TableInv, ByInv

LEMMA ClaimTable ==
  ASSUME TypeInv, TableInv, NEW r \in Puts, Claim(r)
  PROVE  TableInv'
  <1>1. /\ put[r].pc = "claim" /\ put[r].claimed = None /\ UNCHANGED <<meta, by>>
        /\ \A q \in Puts : q # r => put'[q] = put[q]
    BY DEF Claim, TypeInv, PutTypes, PutType
  <1>2. CASE ~(meta # None /\ put[r].idx \in DOMAIN info[meta].chunks
               /\ info[meta].chunks[put[r].idx] = "NotStarted")
    <2>1. info' = info /\ put'[r].pc = "done"
      BY <1>2 DEF Claim, TypeInv, PutTypes, PutRec
    <2> QED
      BY <1>1, <2>1, TableStays
  <1>3. CASE meta # None /\ put[r].idx \in DOMAIN info[meta].chunks
             /\ info[meta].chunks[put[r].idx] = "NotStarted"
    <2>1. PICK u \in DOMAIN info : u = meta
      BY <1>3 DEF TypeInv, UploadTypes
    <2>2. PICK c \in 0 .. Count(u) - 1 : c = put[r].idx
      BY <1>3, <2>1 DEF TypeInv, UploadTypes
    <2>3. info' = [info EXCEPT ![u].chunks[c] = "Ongoing"] /\ info[u].chunks[c] = "NotStarted"
      BY <1>3, <2>1, <2>2 DEF Claim, Status
    <2>4. ChunkMoves(u, c, "Ongoing")
      BY <2>3, StatusEffect DEF ChunkStatus, TypeInv
    <2>5. put'[r].claimed = u /\ put'[r].idx = c
      BY <1>3, <2>1, <2>2 DEF Claim, TypeInv, PutTypes, PutRec
    <2>6. ByInv'
      BY <1>1, <2>3, <2>4, ByAfterMove
    <2>7. ASSUME NEW q \in Puts, q # r, put[q].pc = "stream"
          PROVE  /\ put[q].claimed \in DOMAIN info /\ put[q].idx \in 0 .. Count(put[q].claimed) - 1
                 /\ info[put[q].claimed].chunks[put[q].idx] = "Ongoing"
                 /\ ~(put[q].claimed = u /\ put[q].idx = c)
      <3>1. PutType(q)
        BY DEF TypeInv, PutTypes
      <3>2. info[put[q].claimed].chunks[put[q].idx] = "Ongoing"
        BY <2>7 DEF TableInv, StreamInv
      <3> QED
        BY <2>3, <2>7, <3>1, <3>2 DEF PutType
    <2>8. StreamInv'
      <3>1. info'[u].chunks[c] = "Ongoing"
        BY <2>4 DEF ChunkMoves
      <3>2. \A q \in Puts : q # r /\ put[q].pc = "stream" =>
              info'[put[q].claimed].chunks[put[q].idx] = "Ongoing"
        BY <2>4, <2>7 DEF ChunkMoves
      <3>3. \A q \in Puts : put'[q].pc = "stream" =>
              info'[put'[q].claimed].chunks[put'[q].idx] = "Ongoing"
        BY <1>1, <2>5, <3>1, <3>2
      <3>4. ASSUME NEW q \in Puts, NEW t \in Puts,
                   put'[q].pc = "stream", put'[t].pc = "stream",
                   put'[q].claimed = put'[t].claimed, put'[q].idx = put'[t].idx
            PROVE  q = t
        BY <1>1, <2>5, <2>7, <3>4 DEF TableInv, StreamInv
      <3> QED
        BY <3>3, <3>4 DEF StreamInv
    <2>9. OverInv'
      <3>1. \A v \in DOMAIN info : Count(v)' = Count(v)
        BY <2>4 DEF Count, ChunkMoves, Steady
      <3> QED
        BY <1>1, <2>1, <2>4, <3>1 DEF TableInv, OverInv, ChunkMoves
    <2> QED
      BY <2>6, <2>8, <2>9 DEF TableInv
  <1> QED
    BY <1>2, <1>3

\* The chunk a request streams into is one of the upload under way.
LEMMA StreamsIntoMeta ==
  ASSUME TypeInv, TableInv, NEW r \in Puts, put[r].pc = "stream"
  PROVE  \E u \in DOMAIN info : \E c \in 0 .. Count(u) - 1 :
           u = put[r].claimed /\ c = put[r].idx /\ meta = u /\ info[u].chunks[c] = "Ongoing"
  <1>1. put[r].claimed # None
    BY DEF TypeInv, PutTypes, PutType
  <1>2. PICK u \in DOMAIN info : \E c \in 0 .. Count(u) - 1 : u = put[r].claimed /\ c = put[r].idx
    BY <1>1, ChunkOfPut
  <1>3. PICK c \in 0 .. Count(u) - 1 : c = put[r].idx
    BY <1>2
  <1>4. info[u].chunks[c] = "Ongoing"
    BY <1>2, <1>3 DEF TableInv, StreamInv
  <1>5. meta = u
    BY <1>4 DEF TableInv, OverInv
  <1> QED
    BY <1>2, <1>3, <1>4, <1>5

\* When r leaves its chunk, nobody else streams into it.
LEMMA StreamAfterMove ==
  ASSUME TypeInv, TableInv, NEW r \in Puts, put[r].pc = "stream",
         NEW u \in DOMAIN info, NEW c \in 0 .. Count(u) - 1, u = put[r].claimed, c = put[r].idx,
         NEW s, ChunkMoves(u, c, s),
         \A q \in Puts : q # r => put'[q] = put[q], put'[r].pc # "stream"
  PROVE  StreamInv'
  <1>1. ASSUME NEW q \in Puts, put'[q].pc = "stream"
        PROVE  put'[q] = put[q] /\ info'[put[q].claimed].chunks[put[q].idx] = "Ongoing"
    <2>1. q # r /\ put'[q] = put[q] /\ put[q].pc = "stream"
      BY <1>1
    <2>2. PICK v \in DOMAIN info : \E d \in 0 .. Count(v) - 1 :
            v = put[q].claimed /\ d = put[q].idx /\ info[v].chunks[d] = "Ongoing"
      BY <2>1, StreamsIntoMeta
    <2>3. ~(v = u /\ put[q].idx = c)
      BY <2>1, <2>2 DEF TableInv, StreamInv
    <2> QED
      BY <2>1, <2>2, <2>3 DEF ChunkMoves
  <1> QED
    BY <1>1 DEF TableInv, StreamInv

LEMMA FailTable ==
  ASSUME TypeInv, TableInv, NEW r \in Puts, Fail(r)
  PROVE  TableInv'
  <1>1. /\ put[r].pc = "stream" /\ UNCHANGED <<meta, by>>
        /\ \A q \in Puts : q # r => put'[q] = put[q]
        /\ put'[r].pc # "stream"
    BY DEF Fail, TypeInv, PutTypes, PutRec
  <1>2. PICK u \in DOMAIN info : \E c \in 0 .. Count(u) - 1 :
          u = put[r].claimed /\ c = put[r].idx /\ meta = u /\ info[u].chunks[c] = "Ongoing"
    BY <1>1, StreamsIntoMeta
  <1>3. PICK c \in 0 .. Count(u) - 1 :
          u = put[r].claimed /\ c = put[r].idx /\ meta = u /\ info[u].chunks[c] = "Ongoing"
    BY <1>2
  <1>4. info' = [info EXCEPT ![u].chunks[c] = "NotStarted"]
    BY <1>3 DEF Fail, Status
  <1>5. ChunkMoves(u, c, "NotStarted")
    BY <1>4, StatusEffect DEF ChunkStatus, TypeInv
  <1>6. ByInv'
    BY <1>1, <1>3, <1>5, ByAfterMove
  <1>7. StreamInv'
    BY <1>1, <1>3, <1>5, StreamAfterMove
  <1>8. OverInv'
    <2>1. \A v \in DOMAIN info : Count(v)' = Count(v)
      BY <1>5 DEF Count, ChunkMoves, Steady
    <2> QED
      BY <1>1, <1>3, <1>5, <2>1 DEF TableInv, OverInv, ChunkMoves
  <1> QED
    BY <1>6, <1>7, <1>8 DEF TableInv

LEMMA CompleteTable ==
  ASSUME TypeInv, TableInv, NEW r \in Puts, Complete(r)
  PROVE  TableInv'
  <1>1. /\ put[r].pc = "stream" /\ put[r].sent = put[r].length
        /\ \A q \in Puts : q # r => put'[q] = put[q]
        /\ put'[r].pc = "done" /\ put'[r].claimed = put[r].claimed /\ put'[r].idx = put[r].idx
        /\ put'[r].sent = put'[r].length
    BY DEF Complete, Arrived, TypeInv, PutTypes, PutRec
  <1>2. PICK u \in DOMAIN info : \E c \in 0 .. Count(u) - 1 :
          u = put[r].claimed /\ c = put[r].idx /\ meta = u /\ info[u].chunks[c] = "Ongoing"
    BY <1>1, StreamsIntoMeta
  <1>3. PICK c \in 0 .. Count(u) - 1 :
          u = put[r].claimed /\ c = put[r].idx /\ meta = u /\ info[u].chunks[c] = "Ongoing"
    BY <1>2
  <1>4. /\ info' = [info EXCEPT ![u].chunks[c] = "Completed"]
        /\ by' = [by EXCEPT ![u][c] = r]
        /\ meta' = IF \A d \in DOMAIN info'[u].chunks : info'[u].chunks[d] = "Completed"
                   THEN None ELSE meta
    BY <1>3 DEF Complete, Status
  <1>5. ChunkMoves(u, c, "Completed")
    BY <1>4, StatusEffect DEF ChunkStatus, TypeInv
  <1>6. \A v \in DOMAIN info : Count(v)' = Count(v)
    BY <1>5 DEF Count, ChunkMoves, Steady
  <1>7. /\ DOMAIN info' = DOMAIN info
        /\ \A v \in DOMAIN info : \A d \in 0 .. Count(v) - 1 :
             by'[v][d] = IF v = u /\ d = c THEN r ELSE by[v][d]
    <2>1. /\ \A v \in DOMAIN info : v # u => by'[v] = by[v]
          /\ by'[u] = [by[u] EXCEPT ![c] = r]
      BY <1>4 DEF TypeInv, UploadTypes
    <2>2. \A d \in 0 .. Count(u) - 1 : [by[u] EXCEPT ![c] = r][d] = IF d = c THEN r ELSE by[u][d]
      BY DEF TypeInv, UploadTypes
    <2>3. ASSUME NEW v \in DOMAIN info, NEW d \in 0 .. Count(v) - 1
          PROVE  by'[v][d] = IF v = u /\ d = c THEN r ELSE by[v][d]
      <3>1. CASE v = u
        BY <2>1, <2>2, <3>1
      <3>2. CASE v # u
        BY <2>1, <3>2
      <3> QED
        BY <3>1, <3>2
    <2>4. DOMAIN info' = DOMAIN info
      BY <1>5 DEF ChunkMoves
    <2> QED
      BY <2>3, <2>4
  <1>8. ByInv'
    <2> SUFFICES ASSUME NEW v \in DOMAIN info, NEW d \in 0 .. Count(v) - 1
                 PROVE  /\ (info'[v].chunks[d] = "Completed") <=> (by'[v][d] # None)
                        /\ by'[v][d] # None =>
                             /\ by'[v][d] \in Puts
                             /\ put'[by'[v][d]].pc = "done" /\ put'[by'[v][d]].claimed = v
                             /\ put'[by'[v][d]].idx = d
                             /\ put'[by'[v][d]].sent = put'[by'[v][d]].length
      BY <1>6, <1>7 DEF ByInv
    <2>1. CASE v = u /\ d = c
      <3>1. by'[v][d] = r /\ info'[v].chunks[d] = "Completed"
        BY <1>5, <1>7, <2>1 DEF ChunkMoves
      <3>2. r # None
        BY NamesAssumption
      <3> QED
        BY <1>1, <1>3, <2>1, <3>1, <3>2
    <2>2. CASE ~(v = u /\ d = c)
      <3>1. by'[v][d] = by[v][d] /\ info'[v].chunks[d] = info[v].chunks[d]
        BY <1>5, <1>7, <2>2 DEF ChunkMoves
      <3>2. by[v][d] # None => by[v][d] # r
        BY <1>1 DEF TableInv, ByInv
      <3> QED
        BY <1>1, <3>1, <3>2 DEF TableInv, ByInv
    <2> QED
      BY <2>1, <2>2
  <1>9. StreamInv'
    BY <1>1, <1>3, <1>5, StreamAfterMove
  <1>10. OverInv'
    <2> SUFFICES ASSUME NEW v \in DOMAIN info, v # meta', NEW d \in 0 .. Count(v) - 1
                 PROVE  info'[v].chunks[d] = "Completed"
      BY <1>6, <1>7 DEF OverInv
    <2>1. CASE v = u
      <3>1. DOMAIN info'[u].chunks = 0 .. Count(u) - 1
        BY <1>5 DEF ChunkMoves
      <3> QED
        BY <1>3, <1>4, <2>1, <3>1
    <2>2. CASE v # u
      BY <1>3, <1>5, <2>2 DEF TableInv, OverInv, ChunkMoves
    <2> QED
      BY <2>1, <2>2
  <1> QED
    BY <1>8, <1>9, <1>10 DEF TableInv

LEMMA CreateTable ==
  ASSUME TypeInv, TableInv, NEW size \in Sizes, NEW chunk_size \in ChunkSizes,
         Create(size, chunk_size)
  PROVE  TableInv'
  <1>1. meta = None /\ put' = put
    BY DEF Create
  <1>2. PICK u \in Nat : u = meta' /\ Created(u, size, chunk_size)
    BY CreateTypes
  <1>3. \A v \in DOMAIN info : Count(v)' = Count(v)
    BY <1>2 DEF Count, Created
  <1>4. Count(u)' = ChunksCount(size, chunk_size)
    BY <1>2 DEF Count, Created
  <1>5. ByInv'
    <2> SUFFICES ASSUME NEW v \in DOMAIN info', NEW d \in 0 .. Count(v)' - 1
                 PROVE  /\ (info'[v].chunks[d] = "Completed") <=> (by'[v][d] # None)
                        /\ by'[v][d] # None =>
                             /\ by'[v][d] \in Puts
                             /\ put[by'[v][d]].pc = "done" /\ put[by'[v][d]].claimed = v
                             /\ put[by'[v][d]].idx = d
                             /\ put[by'[v][d]].sent = put[by'[v][d]].length
      BY <1>1 DEF ByInv
    <2>1. CASE v = u
      <3>1. d \in 0 .. ChunksCount(size, chunk_size) - 1
        BY <1>4, <2>1
      <3>2. /\ info'[u].chunks = [c \in 0 .. ChunksCount(size, chunk_size) - 1 |-> "NotStarted"]
            /\ by'[u] = [c \in 0 .. ChunksCount(size, chunk_size) - 1 |-> None]
        BY <1>2 DEF Created
      <3> QED
        BY <2>1, <3>1, <3>2
    <2>2. CASE v \in DOMAIN info
      BY <1>2, <1>3, <2>2 DEF Created, TableInv, ByInv
    <2> QED
      BY <1>2, <2>1, <2>2 DEF Created
  <1>6. \A q \in Puts : put[q].pc # "stream"
    <2>1. \A v \in DOMAIN info : v # None
      BY NamesAssumption DEF TypeInv, UploadTypes
    <2> QED
      BY <1>1, <2>1, StreamsIntoMeta
  <1>7. StreamInv'
    BY <1>1, <1>6 DEF StreamInv
  <1>8. OverInv'
    <2>1. \A v \in DOMAIN info : v # None
      BY NamesAssumption DEF TypeInv, UploadTypes
    <2> QED
      BY <1>1, <1>2, <1>3, <2>1 DEF Created, TableInv, OverInv
  <1> QED
    BY <1>5, <1>7, <1>8 DEF TableInv

LEMMA StepTableInv ==
  ASSUME TypeInv, TableInv, [Next]_vars
  PROVE  TableInv'
  <1>1. CASE UNCHANGED vars
    BY <1>1 DEF vars, TableInv, ByInv, StreamInv, OverInv, Count
  <1>2. ASSUME NEW size \in Sizes, NEW chunk_size \in ChunkSizes, Create(size, chunk_size)
        PROVE  TableInv'
    BY <1>2, CreateTable
  <1>3. ASSUME NEW r \in Puts, NEW idx, NEW length, Read(r, idx, length)
        PROVE  TableInv'
    <2>1. /\ UNCHANGED <<meta, info, by>> /\ put[r].pc = "idle" /\ put'[r].pc = "claim"
          /\ \A q \in Puts : q # r => put'[q] = put[q]
      BY <1>3 DEF Read, TypeInv, PutTypes, PutRec
    <2> QED
      BY <2>1, TableStays
  <1>4. ASSUME NEW r \in Puts, NEW n, Frame(r, n)
        PROVE  TableInv'
    <2>1. /\ UNCHANGED <<meta, info, by>> /\ put[r].pc = "stream"
          /\ put'[r].claimed = put[r].claimed /\ put'[r].idx = put[r].idx
          /\ \A q \in Puts : q # r => put'[q] = put[q]
      BY <1>4 DEF Frame, TypeInv, PutTypes, PutRec
    <2> QED
      BY <2>1, TableStays
  <1>5. ASSUME NEW r \in Puts, Written(r) \/ WrittenLate(r)
        PROVE  TableInv'
    <2>1. /\ UNCHANGED <<meta, info, by>> /\ put[r].pc \in {"stream", "late"}
          /\ put'[r].claimed = put[r].claimed /\ put'[r].idx = put[r].idx
          /\ put'[r].pc = "stream" => put[r].pc = "stream"
          /\ \A q \in Puts : q # r => put'[q] = put[q]
      BY <1>5 DEF Written, WrittenLate, TypeInv, PutTypes, PutRec
    <2> QED
      BY <2>1, TableStays
  <1>6. ASSUME NEW r \in Puts, Claim(r) \/ Complete(r) \/ Fail(r)
        PROVE  TableInv'
    BY <1>6, ClaimTable, CompleteTable, FailTable
  <1> QED
    BY <1>1, <1>2, <1>3, <1>4, <1>5, <1>6 DEF Next

LEMMA TableInvAlways == Spec => []TableInv
  <1>1. Init => TableInv
    <2> SUFFICES ASSUME Init PROVE TableInv
      OBVIOUS
    <2>1. DOMAIN info = {} /\ \A r \in Puts : put[r].pc = "idle"
      BY DEF Init, IdlePut
    <2> QED
      BY <2>1 DEF TableInv, ByInv, StreamInv, OverInv
  <1>2. TypeInv /\ TableInv /\ [Next]_vars => TableInv'
    BY StepTableInv
  <1> QED
    BY <1>1, <1>2, TypeInvAlways, PTL DEF Spec

-----------------------------------------------------------------------------
(* The length of the files.                                                 *)

LEMMA ChunksReach ==
  ASSUME NEW n \in Nat, NEW d \in Nat \ {0}
  PROVE  Ceil(n, d) \in Nat /\ n <= Ceil(n, d) * d
  <1>1. \A a \in Nat, b \in Nat \ {0} : (a + b - 1) \div b \in Nat /\ a <= ((a + b - 1) \div b) * b
    OBVIOUS
  <1> QED
    BY <1>1 DEF Ceil

LEMMA ChunksGrow == \A i, m, n \in Nat : i < m => (i + 1) * n <= m * n /\ m * n \in Nat
  OBVIOUS

LEMMA StepFileInv ==
  ASSUME Covers, TypeInv, TypeInv', FileInv, [Next]_vars
  PROVE  FileInv'
  <1>1. Steady /\ PutSteady /\ (FilesStay \/ \E r \in Puts : FrameLands(r))
    BY StepsOnFiles
  <1> SUFFICES ASSUME NEW v \in DOMAIN info', \A r \in Puts : ~Stale(r)', info'[v].size <= 2 ^ Precision
               PROVE  /\ 0 .. info'[v].size - 1 \subseteq DOMAIN file'[v]
                      /\ DOMAIN file'[v] \subseteq 0 .. Count(v)' * info'[v].chunk_size - 1
    BY DEF FileInv
  <1>2. \A r \in Puts : ~Stale(r)
    <2> SUFFICES ASSUME NEW r \in Puts, Stale(r) PROVE FALSE
      OBVIOUS
    <2>1. put[r].claimed # None
      BY DEF Stale
    <2> QED
      BY <1>1, <2>1, StaleStays
  <1>3. CASE v \notin DOMAIN info
    <2>1. FilesStay
      BY <1>1, <1>3 DEF FrameLands
    <2>2. DOMAIN file'[v] = 0 .. info'[v].size - 1
      BY <1>3, <2>1 DEF FilesStay
    <2>3. PICK size \in Sizes, chunk_size \in ChunkSizes :
            size = info'[v].size /\ chunk_size = info'[v].chunk_size
      BY DEF TypeInv, UploadTypes
    <2>4. Count(v)' = Ceil(size, chunk_size)
      BY <2>3 DEF Covers, Count
    <2>5. size \in Nat /\ chunk_size \in Nat \ {0}
      BY SizesAssumption
    <2>6. PICK m : m = Ceil(size, chunk_size) * chunk_size
      OBVIOUS
    <2>7. m \in Nat /\ size <= m
      BY <2>5, <2>6, ChunksReach, ChunkLength
    <2>8. 0 .. size - 1 \subseteq 0 .. m - 1
      BY <2>5, <2>7
    <2> QED
      BY <2>2, <2>3, <2>4, <2>6, <2>8
  <1>4. CASE v \in DOMAIN info
    <2>1. info'[v].size = info[v].size /\ info'[v].chunk_size = info[v].chunk_size
          /\ Count(v)' = Count(v)
      BY <1>1, <1>4 DEF Steady, Count
    <2>2. /\ 0 .. info[v].size - 1 \subseteq DOMAIN file[v]
          /\ DOMAIN file[v] \subseteq 0 .. Count(v) * info[v].chunk_size - 1
      BY <1>2, <1>4, <2>1 DEF FileInv
    <2>3. DOMAIN file[v] \subseteq DOMAIN file'[v]
          /\ DOMAIN file'[v] \subseteq 0 .. Count(v) * info[v].chunk_size - 1
      <3>1. CASE FilesStay
        BY <1>4, <2>2, <3>1 DEF FilesStay
      <3>2. ASSUME NEW r \in Puts, FrameLands(r)
            PROVE  DOMAIN file[v] \subseteq DOMAIN file'[v]
                   /\ DOMAIN file'[v] \subseteq 0 .. Count(v) * info[v].chunk_size - 1
        <4>1. PICK u \in DOMAIN info, o \in Nat, f \in Nat \ {0} :
                /\ u = put[r].claimed /\ FileGrows(u, r, o, f) /\ u # None
                /\ ~Stale(r) => o .. o + f - 1 \subseteq ChunkOf(u, put[r].idx)
          BY <3>2, FrameInChunk
        <4>2. CASE v # u
          BY <1>4, <2>2, <4>1, <4>2 DEF FileGrows
        <4>3. CASE v = u
          <5>1. PICK i \in 0 .. Count(u) - 1 : i = put[r].idx
            BY <4>1 DEF TypeInv, PutTypes, PutType
          <5>2. PICK n \in Nat : n = info[u].chunk_size
            BY CountType DEF TypeInv
          <5>3. PICK m \in Nat : m = Count(u)
            BY CountType DEF TypeInv
          <5>4. i \in Nat /\ i < m
            BY <5>1, <5>3
          <5>5. PICK x \in Nat : x = m * n /\ (i + 1) * n <= x /\ (i + 1) * n \in Nat /\ i * n \in Nat
            BY <5>2, <5>4, ChunksGrow, ChunkLength
          <5>6. o + f - 1 \in ChunkOf(u, i)
            <6>1. o + f - 1 \in o .. o + f - 1
              OBVIOUS
            <6> QED
              BY <1>2, <4>1, <5>1, <6>1
          <5>7. o + f - 1 <= x - 1
            BY <5>2, <5>5, <5>6 DEF ChunkOf
          <5>8. 0 .. o + f - 1 \subseteq 0 .. x - 1
            BY <5>7
          <5>9. DOMAIN file[u] \subseteq 0 .. x - 1
            BY <2>2, <4>3, <5>2, <5>3, <5>5
          <5>10. DOMAIN file'[u] \subseteq 0 .. x - 1 /\ DOMAIN file[u] \subseteq DOMAIN file'[u]
            BY <4>1, <5>8, <5>9 DEF FileGrows
          <5> QED
            BY <4>3, <5>2, <5>3, <5>5, <5>10
        <4> QED
          BY <4>2, <4>3
      <3> QED
        BY <1>1, <3>1, <3>2
    <2> QED
      BY <2>1, <2>2, <2>3
  <1> QED
    BY <1>3, <1>4

LEMMA FileInvAlways == Spec => []FileInv
  <1>1. Init => FileInv
    BY DEF Init, FileInv
  <1>2. TypeInv /\ TypeInv' /\ FileInv /\ [Next]_vars => FileInv'
    BY StepFileInv, CoversAlways
  <1> QED
    BY <1>1, <1>2, TypeInvAlways, PTL DEF Spec

-----------------------------------------------------------------------------
(* Theorems.                                                                *)

(* Every upload's table has the chunks it was created with, every file is   *)
(* written without gaps in its index, and no request has more bytes on the  *)
(* way than it declared, whatever the sizes and the chunk sizes.            *)
THEOREM ChunkBytesTypes == Spec => []TypeOK
  <1> QED
    BY TypeInvAlways, TypeInvTypes, PTL

(* A request writes nothing outside the chunk it claimed, also with frames  *)
(* that land after it was dropped, unless the upload was replaced between   *)
(* its check and its claim.                                                 *)
THEOREM InsideItsChunkTheorem == Spec => []InsideItsChunk
  <1>1. BytesInv => InsideItsChunk
    BY DEF BytesInv
  <1> QED
    BY <1>1, BytesInvAlways, PTL

LEMMA CompletedIsHeld == BytesInv /\ TableInv => CompletedHasItsBytes
  <1> SUFFICES ASSUME BytesInv, TableInv,
                      NEW u \in DOMAIN info, NEW c \in DOMAIN by[u], NEW r, r = by[u][c],
                      r # None, ~Stale(r),
                      NEW p \in Offset(r) .. Offset(r) + put[r].length - 1
               PROVE  \/ p \in BytesOf(u, r)
                      \/ \E q \in Puts \ {r} : p \in BytesOf(u, q) /\ (Stale(q) \/ put[q].idx = c)
    BY DEF CompletedHasItsBytes
  <1>1. c \in 0 .. Count(u) - 1
    BY DEF BytesInv, TypeInv, UploadTypes
  <1>2. r \in Puts /\ put[r].claimed = u /\ put[r].idx = c /\ put[r].sent = put[r].length
    BY <1>1 DEF TableInv, ByInv
  <1>3. u # None
    BY NamesAssumption DEF BytesInv, TypeInv, UploadTypes
  <1>4. Holds(u, r, p)
    BY <1>2, <1>3 DEF BytesInv, SentInv
  <1> QED
    BY <1>2, <1>4 DEF Holds

(* A completed chunk holds every byte its request declared; a byte that is  *)
(* another's was written by a request of the same chunk that was dropped,   *)
(* or by one that was checked against another upload.                       *)
THEOREM CompletedHasItsBytesTheorem == Spec => []CompletedHasItsBytes
  <1> QED
    BY BytesInvAlways, TableInvAlways, CompletedIsHeld, PTL

LEMMA ChunkOfByte ==
  ASSUME NEW p \in Nat, NEW n \in Nat \ {0}, NEW m \in Nat, p < m * n
  PROVE  \E c \in Nat : c < m /\ c * n <= p /\ p < (c + 1) * n
  <1>1. \A a \in Nat, b \in Nat \ {0} :
          (a \div b) \in Nat /\ (a \div b) * b <= a /\ a < ((a \div b) + 1) * b
    OBVIOUS
  <1>2. PICK c \in Nat : c * n <= p /\ p < (c + 1) * n
    BY <1>1
  <1>3. \A a, b, x \in Nat : b <= a => b * x <= a * x
    OBVIOUS
  <1>4. c < m
    <2>1. m * n \in Nat /\ c * n \in Nat
      BY ChunkLength
    <2>2. m <= c => m * n <= c * n
      BY <1>3
    <2> QED
      BY <1>2, <2>1, <2>2
  <1> QED
    BY <1>2, <1>4

LEMMA PublishedHasLength ==
  ASSUME BytesInv, TableInv, FileInv, CompletedHasItsBytes
  PROVE  PublishedLength
  <1> USE DEF BytesInv
  <1>1. ASSUME NEW u \in DOMAIN info \ {meta}
        PROVE  Cardinality(DOMAIN info[u].chunks) = Count(u)
    <2>1. DOMAIN info[u].chunks = 0 .. Count(u) - 1 /\ Count(u) \in Nat
      BY CountType DEF TypeInv, UploadTypes
    <2>2. 0 \in Int /\ Count(u) - 1 \in Int
      BY <2>1
    <2>3. Cardinality(0 .. Count(u) - 1) = IF 0 > Count(u) - 1 THEN 0 ELSE Count(u) - 1 - 0 + 1
      BY <2>2, FS_Interval
    <2> QED
      BY <2>1, <2>3
  <1> SUFFICES ASSUME NEW u \in DOMAIN info \ {meta}, \A r \in Puts : ~Stale(r),
                      info[u].size <= 2 ^ Precision
               PROVE  /\ DOMAIN file[u] \subseteq 0 .. Count(u) * info[u].chunk_size - 1
                      /\ \A p \in 0 .. info[u].size - 1 :
                           file[u][p] = Hole => p \in ChunkOf(u, Count(u) - 1)
    BY <1>1 DEF PublishedLength
  <1>2. /\ 0 .. info[u].size - 1 \subseteq DOMAIN file[u]
        /\ DOMAIN file[u] \subseteq 0 .. Count(u) * info[u].chunk_size - 1
    BY DEF FileInv
  <1>3. ASSUME NEW p \in 0 .. info[u].size - 1, file[u][p] = Hole, p \notin ChunkOf(u, Count(u) - 1)
        PROVE  FALSE
    <2>1. PICK n \in Nat \ {0} : n = info[u].chunk_size
      BY CountType DEF TypeInv
    <2>2. PICK m \in Nat : m = Count(u)
      BY CountType DEF TypeInv
    <2>3. m * n \in Nat
      BY ChunkLength
    <2>4. p \in Nat /\ p < m * n
      BY <1>2, <2>1, <2>2, <2>3
    <2>5. PICK c \in Nat : c < m /\ c * n <= p /\ p < (c + 1) * n
      BY <2>4, ChunkOfByte
    <2>6. c \in 0 .. m - 1 /\ c # m - 1
      <3>1. PICK x \in Nat : x = c * n
        BY ChunkLength
      <3>2. PICK y \in Nat : y = (c + 1) * n
        BY ChunkLength
      <3>3. p \in c * n .. (c + 1) * n - 1
        BY <2>4, <2>5, <3>1, <3>2
      <3>4. p \in ChunkOf(u, c)
        BY <2>1, <3>3 DEF ChunkOf
      <3>5. c # m - 1
        BY <1>3, <2>2, <3>4
      <3> QED
        BY <2>5, <3>5
    <2>7. PICK r : r = by[u][c] /\ r # None /\ r \in Puts /\ put[r].claimed = u /\ put[r].idx = c
      BY <2>2, <2>6 DEF TableInv, OverInv, ByInv
    <2>8. u # None
      BY NamesAssumption DEF TypeInv, UploadTypes
    <2>9. put[r].read = u /\ put[r].length = n
      <3>1. put[r].read # None /\ PutType(r)
        BY <2>7, <2>8 DEF TypeInv, PutTypes, PutType
      <3>2. put[r].read = u
        BY <2>7, <2>8 DEF Stale
      <3> QED
        BY <2>1, <2>2, <2>6, <2>7, <3>1, <3>2 DEF PutType
    <2>10. Offset(r) = c * n
      BY <2>1, <2>7, <2>9 DEF Offset
    <2>11. p \in Offset(r) .. Offset(r) + put[r].length - 1
      <3>1. PICK x \in Nat : x = c * n /\ (c + 1) * n = x + n
        BY ChunkLength
      <3>2. x <= p /\ p < x + n
        BY <2>5, <3>1
      <3>3. p \in x .. x + n - 1
        BY <2>4, <3>2
      <3> QED
        BY <2>9, <2>10, <3>1, <3>3
    <2>12. c \in DOMAIN by[u]
      BY <2>2, <2>6 DEF TypeInv, UploadTypes
    <2>13. p \in BytesOf(u, r) \/ \E q \in Puts : p \in BytesOf(u, q)
      BY <2>7, <2>11, <2>12 DEF CompletedHasItsBytes
    <2> QED
      BY <1>3, <2>7, <2>13, NamesAssumption DEF BytesOf
  <1> QED
    BY <1>2, <1>3

(* The chunks of an upload are those its size needs: the f64 division that  *)
(* post rounds up is exact enough for every chunk size and every size an    *)
(* f64 holds.                                                               *)
THEOREM ChunksCoverTheorem == Spec => []ChunksCover
  <1>1. TypeInv => ChunksCover
    <2> SUFFICES ASSUME TypeInv, NEW u \in DOMAIN info, info[u].size <= 2 ^ Precision
                 PROVE  Cardinality(DOMAIN info[u].chunks) = Ceil(info[u].size, info[u].chunk_size)
      BY DEF ChunksCover
    <2>1. DOMAIN info[u].chunks = 0 .. Count(u) - 1 /\ Count(u) \in Nat
      BY CountType DEF TypeInv, UploadTypes
    <2>2. 0 \in Int /\ Count(u) - 1 \in Int
      BY <2>1
    <2>3. Cardinality(0 .. Count(u) - 1) = IF 0 > Count(u) - 1 THEN 0 ELSE Count(u) - 1 - 0 + 1
      BY <2>2, FS_Interval
    <2>4. Count(u) = Ceil(info[u].size, info[u].chunk_size)
      BY CoversAlways DEF Covers, Count, TypeInv, UploadTypes
    <2> QED
      BY <2>1, <2>3, <2>4
  <1> QED
    BY <1>1, TypeInvAlways, PTL

(* A published file is as long as was declared, or less than one chunk      *)
(* longer, and has no hole outside its last chunk, unless a request was     *)
(* checked against an upload that was replaced.                             *)
THEOREM PublishedLengthTheorem == Spec => []PublishedLength
  <1>1. BytesInv /\ TableInv /\ FileInv /\ CompletedHasItsBytes => PublishedLength
    BY PublishedHasLength
  <1> QED
    BY <1>1, FileInvAlways, BytesInvAlways, TableInvAlways, CompletedHasItsBytesTheorem, PTL
=============================================================================
