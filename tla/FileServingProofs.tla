-------------------------- MODULE FileServingProofs --------------------------
(***************************************************************************)
(* Proofs about ByteRanges and FileServing, for every header, every size,  *)
(* and any number of form uploads and downloads.                           *)
(***************************************************************************)
EXTENDS FileServing, TLAPS

(* What parse_range of files.rs answers for every header and every size: a  *)
(* range inside the file that is exactly what one range asks for, or a      *)
(* refusal, and then one range asks for nothing the file has.               *)
THEOREM ParseRangeTheorem ==
  ASSUME NEW h \in Headers, NEW size \in Nat
  PROVE  LET spec == parse_range(h, size) IN
         /\ spec \in RangeSpec
         /\ spec.kind = "ignore" <=> h.unit # "bytes"
         /\ spec.kind = "ignore" => spec = Ignore
         /\ spec = Unsatisfiable <=> spec.kind = "unsatisfiable"
         /\ spec.kind = "satisfiable" =>
              /\ OneRange(h)
              /\ spec.start <= spec.end /\ spec.end < size
              /\ Wanted(h, size) = spec.start .. spec.end
         /\ spec = Unsatisfiable /\ OneRange(h) => Wanted(h, size) = {}
<1> DEFINE spec == parse_range(h, size)
<1> USE FieldAssumption
<1>0. /\ h.first \in Fields /\ h.last \in Fields
      /\ h.list \in BOOLEAN /\ h.dash \in BOOLEAN
  BY DEF Headers
<1>1. CASE h.unit # "bytes"
  <2>1. spec = Ignore
    BY <1>1 DEF parse_range
  <2> QED BY <2>1, <1>1 DEF Ignore, Unsatisfiable, RangeSpec
<1>2. CASE h.unit = "bytes" /\ (h.list \/ size = 0 \/ ~h.dash \/ Garbage \in {h.first, h.last})
  <2>1. spec = Unsatisfiable
    BY <1>2 DEF parse_range
  <2>2. OneRange(h) => Wanted(h, size) = {}
    BY <1>2 DEF OneRange, Wanted
  <2> QED BY <2>1, <2>2, <1>2 DEF Unsatisfiable, RangeSpec
<1>3. CASE /\ h.unit = "bytes" /\ ~h.list /\ size # 0 /\ h.dash
           /\ h.first # Garbage /\ h.last # Garbage
  <2> DEFINE inner == CASE h.first = Blank /\ h.last = Blank -> Unsatisfiable
                        [] h.first = Blank /\ h.last # Blank -> Suffix(h.last, size)
                        [] h.first # Blank /\ h.last = Blank -> Bounded(h.first, size, size)
                        [] OTHER                             -> Bounded(h.first, h.last, size)
  <2>1. spec = inner
    BY <1>3 DEF parse_range
  <2>2. OneRange(h)
    BY <1>3 DEF OneRange
  <2>3. CASE h.first = Blank /\ h.last = Blank
    <3>1. spec = Unsatisfiable
      BY <2>1, <2>3
    <3>2. Wanted(h, size) = {}
      BY <2>3 DEF Wanted
    <3> QED BY <3>1, <3>2, <1>3 DEF Unsatisfiable, RangeSpec
  <2>4. CASE h.first = Blank /\ h.last # Blank
    <3>1. spec = Suffix(h.last, size) /\ h.last \in Nat
      BY <2>1, <2>4, <1>0, <1>3 DEF Fields
    <3>2. CASE h.last = 0
      <4>1. spec = Unsatisfiable
        BY <3>1, <3>2 DEF Suffix
      <4>2. Wanted(h, size) = {}
        BY <2>4, <3>2 DEF Wanted
      <4> QED BY <4>1, <4>2, <1>3 DEF Unsatisfiable, RangeSpec
    <3>3. CASE h.last # 0
      <4> DEFINE a == IF h.last >= size THEN 0 ELSE size - h.last
      <4>1. spec = Satisfiable(a, size - 1)
        BY <3>1, <3>3 DEF Suffix
      <4>2. a \in Nat /\ a <= size - 1 /\ size - 1 \in Nat
        BY <3>1, <3>3, <1>3
      <4>3. \A p \in 0 .. size - 1 : size <= p + h.last <=> a <= p
        BY <3>1, <3>3
      <4>4. Wanted(h, size) = a .. size - 1
        BY <2>4, <3>1, <4>2, <4>3 DEF Wanted
      <4> HIDE DEF a
      <4> QED BY <4>1, <4>2, <4>4, <2>2, <1>3 DEF Satisfiable, Unsatisfiable, RangeSpec
    <3> QED BY <3>2, <3>3
  <2>5. CASE h.first # Blank
    <3> DEFINE b == IF h.last = Blank THEN size ELSE h.last
               e == IF b < size - 1 THEN b ELSE size - 1
    <3>1. /\ spec = Bounded(h.first, b, size) /\ h.first \in Nat /\ b \in Nat
          /\ h.last = Blank \/ h.last \in Nat
      BY <2>1, <2>5, <1>0, <1>3 DEF Fields
    <3>2. \A p \in 0 .. size - 1 : p \in Wanted(h, size) <=> h.first <= p /\ p <= e
      BY <2>5, <3>1 DEF Wanted
    <3>3. CASE b < h.first \/ h.first >= size
      <4>1. spec = Unsatisfiable
        BY <3>1, <3>3 DEF Bounded
      <4>2. Wanted(h, size) = {}
        BY <3>1, <3>2, <3>3, <1>3 DEF Wanted
      <4> QED BY <4>1, <4>2, <1>3 DEF Unsatisfiable, RangeSpec
    <3>4. CASE ~(b < h.first \/ h.first >= size)
      <4>1. spec = Satisfiable(h.first, e)
        BY <3>1, <3>4 DEF Bounded
      <4>2. e \in Nat /\ h.first <= e /\ e < size
        BY <3>1, <3>4, <1>3
      <4>3. Wanted(h, size) = h.first .. e
        <5>1. Wanted(h, size) \subseteq 0 .. size - 1
          BY DEF Wanted
        <5> HIDE DEF e
        <5>2. \A p \in Wanted(h, size) : p \in h.first .. e
          BY <5>1, <3>1, <3>2, <4>2
        <5>3. \A p \in h.first .. e : p \in 0 .. size - 1 /\ h.first <= p /\ p <= e
          BY <3>1, <4>2
        <5> QED BY <5>2, <5>3, <3>2
      <4> HIDE DEF e
      <4> QED BY <4>1, <4>2, <4>3, <2>2, <3>1, <1>3 DEF Satisfiable, Unsatisfiable, RangeSpec
    <3> QED BY <3>3, <3>4
  <2> QED BY <2>3, <2>4, <2>5
<1> QED BY <1>0, <1>1, <1>2, <1>3

-----------------------------------------------------------------------------
\* The inductive invariant.

Under(f)  == pc[f] \in {"write", "late"}
Used(i)   == i \in Forms => pc[i] # "idle"

\* Inodes that somebody outside the form uploads can see.
Public(i) == i # None /\ (i = final \/ \E g \in Gets : get[g].inode = i \/ get[g].seen = i)

\* Inodes that are created, and how far a request has got.
FormsHold ==
  \A f \in Forms :
    /\ sent[f] <= Size[f]
    /\ pc[f] = "idle" => sent[f] = 0
    /\ pc[f] # "idle" => handle[f] \in Forms /\ Used(handle[f])

\* The temporary file is nobody else's, and no inode is used before it is created.
NamesHold ==
  /\ Used(temp)
  /\ crowded \subseteq Forms
  /\ \A i \in crowded : Used(i)
  /\ \A i \in Versions : Public(i) => Used(i) /\ i # temp

\* A request whose inode is not crowded is the only one, and has the temporary
\* name; and a temporary file that is not crowded is the one that is written.
Alone ==
  \A f \in Forms : Under(f) =>
    /\ handle[f] \notin crowded => handle[f] = temp /\ \A e \in Forms : Under(e) => e = f
    /\ temp \notin crowded \cup {None} => handle[f] = temp

\* What it has written.
Body ==
  \A f \in Forms : Under(f) /\ handle[f] \notin crowded =>
    /\ Len(content[handle[f]]) = sent[f]
    /\ \A k \in 1 .. sent[f] : content[handle[f]][k] = f

PublicIsWhole ==
  /\ \A i \in Versions \ crowded : Public(i) => \E v \in Versions : content[i] = Whole(v)
  /\ Public(Resumed) => content[Resumed] = Whole(Resumed)

\* What a download has from the metadata, from the open and from the reads.
Settled(d) ==
  /\ d.pc \in {"idle", "missing"} => d.seen = None
  /\ d.pc \in {"open", "read", "end", "refused"} =>
       d.header \in Requests /\ d.seen \in Versions /\ d.spec = parse_range(d.header, d.size)
  /\ d.pc \in {"open", "read", "end"} => d.spec # Unsatisfiable
  /\ d.pc = "refused" => d.spec = Unsatisfiable
  /\ d.pc = "open" => final # None
  /\ d.seen # None /\ d.seen \notin crowded => d.size = Len(content[d.seen])
Streamed(d) ==
  /\ d.pc \notin {"read", "end"} => d.inode = None /\ d.got = <<>>
  /\ d.pc \in {"read", "end"} => d.inode \in Versions
  /\ d.pc \in {"read", "end"} => Len(d.got) <= Declared(d)
  /\ d.pc \in {"read", "end"} /\ d.inode \notin crowded =>
       /\ d.got = <<>> \/ d.spec.start + Len(d.got) <= Len(content[d.inode])
       /\ \A k \in DOMAIN d.got : d.got[k] = content[d.inode][d.spec.start + k]
  /\ d.pc = "end" /\ d.inode \notin crowded =>
       Len(d.got) >= Declared(d) \/ d.spec.start + Len(d.got) >= Len(content[d.inode])
GetsHold == \A g \in Gets : Settled(get[g]) /\ Streamed(get[g])

\* The rows there are, and the sizes they show.
ListingHolds ==
  /\ listing.snapshot \ listing.pending \subseteq {row[1] : row \in listing.rows}
  /\ listing.pc = "done" => listing.pending = {}
  /\ \A row \in listing.rows : row[1] = "final" =>
       \/ \E v \in Versions : row[2] = Size[v]
       \/ \E i \in crowded : i # temp

ServingInv ==
  /\ TypeOK
  /\ FormsHold
  /\ NamesHold
  /\ Alone
  /\ Body
  /\ PublicIsWhole
  /\ GetsHold
  /\ ListingHolds

-----------------------------------------------------------------------------
\* Lemmas about blocks and sequences.

Blocks == Versions \cup {Zero}

LEMMA WrittenAt ==
  ASSUME NEW s \in Seq(Blocks), NEW k \in Nat \ {0}, NEW b \in Blocks
  PROVE  /\ Written(s, k, b) \in Seq(Blocks)
         /\ Len(s) = k - 1 => /\ Len(Written(s, k, b)) = k
                              /\ \A j \in 1 .. k - 1 : Written(s, k, b)[j] = s[j]
                              /\ Written(s, k, b)[k] = b
<1> DEFINE n == IF k > Len(s) THEN k ELSE Len(s)
           w == [j \in 1 .. n |-> IF j = k THEN b ELSE IF j <= Len(s) THEN s[j] ELSE Zero]
<1>1. n \in Nat /\ k <= n /\ (Len(s) = k - 1 => n = k)
  OBVIOUS
<1>2. \A j \in 1 .. n : w[j] \in Blocks
  BY DEF Blocks
<1>3. Written(s, k, b) = w
  BY DEF Written
<1>4. w \in Seq(Blocks) /\ Len(w) = n
  <2> HIDE DEF n
  <2> QED BY <1>1, <1>2
<1>5. w[k] = b /\ \A j \in 1 .. k - 1 : j <= Len(s) => w[j] = s[j]
  BY <1>1
<1> HIDE DEF w, n
<1> QED BY <1>1, <1>3, <1>4, <1>5

\* A sequence of one upload's blocks, as long as the upload, is the upload.
LEMMA WholeIs ==
  ASSUME NEW s \in Seq(Blocks), NEW v \in Versions, Len(s) = Size[v],
         \A k \in 1 .. Size[v] : s[k] = v
  PROVE  s = Whole(v)
BY SizeAssumption DEF Whole

LEMMA WholeHas ==
  ASSUME NEW v \in Versions
  PROVE  /\ Whole(v) \in Seq(Blocks)
         /\ Len(Whole(v)) = Size[v]
         /\ \A k \in 1 .. Size[v] : Whole(v)[k] = v
<1>1. Size[v] \in Nat
  BY SizeAssumption
<1>2. Whole(v) = [k \in 1 .. Size[v] |-> v]
  BY DEF Whole
<1> QED BY <1>1, <1>2 DEF Blocks

\* The answer to a header a client sends, in the terms of the invariant.
LEMMA ParsedType ==
  ASSUME NEW h \in Requests, NEW size \in Nat
  PROVE  parse_range(h, size) \in RangeSpec
<1>1. h \in Headers
  BY RequestAssumption
<1> QED BY <1>1, ParseRangeTheorem

-----------------------------------------------------------------------------
\* The invariant holds at the start.

LEMMA InitServing == Init => ServingInv
<1> SUFFICES ASSUME Init PROVE ServingInv
  OBVIOUS
<1> USE DEF Init
<1>0. final \in {Old, None}
  BY StartAssumption
<1>1. Ignore \in RangeSpec
  BY DEF Ignore, RangeSpec
<1>2. TypeOK
  <2>1. content \in [Versions -> Seq(Versions \cup {Zero})]
    <3>1. \A v \in Versions : (IF v = Old THEN Whole(v) ELSE <<>>) \in Seq(Versions \cup {Zero})
      BY WholeHas DEF Blocks
    <3> QED BY <3>1
  <2>2. get \in [Gets -> [pc : {"idle", "open", "read", "end", "missing", "refused"},
                           header : Requests \cup {None}, seen : Versions \cup {None},
                           size : Nat, spec : RangeSpec, inode : Versions \cup {None},
                           got : Seq(Versions \cup {Zero})]]
    BY <1>1 DEF NoGet
  <2>3. listing \in [pc : {"idle", "rows", "done", "failed"}, pending : SUBSET Names,
                     snapshot : SUBSET Names, rows : SUBSET (Names \X Nat)]
    BY DEF NoListing
  <2> QED BY <2>1, <2>2, <2>3, <1>0 DEF TypeOK, Versions
<1>3. FormsHold
  BY SizeAssumption DEF FormsHold, Versions
<1>4. \A i : Public(i) => i = Old
  BY <1>0 DEF Public, NoGet
<1>5. NamesHold
  BY <1>4, VersionAssumption DEF NamesHold, Used, Versions
<1>6. Alone /\ Body
  BY DEF Alone, Body, Under
<1>7. PublicIsWhole
  BY <1>4, VersionAssumption DEF PublicIsWhole, Versions
<1>8. GetsHold
  BY DEF GetsHold, Settled, Streamed, NoGet
<1>9. ListingHolds
  BY DEF ListingHolds, NoListing
<1> QED BY <1>2, <1>3, <1>5, <1>6, <1>7, <1>8, <1>9 DEF ServingInv

-----------------------------------------------------------------------------
\* What a step must leave alone for a part of the invariant to go on.

LEMMA KeepsGets ==
  ASSUME TypeOK, GetsHold, get' = get, final # None => final' # None,
         \A g \in Gets : \A i \in Versions : get[g].inode = i \/ get[g].seen = i =>
           (i \notin crowded' => i \notin crowded /\ content'[i] = content[i])
  PROVE  GetsHold'
<1> SUFFICES ASSUME NEW g \in Gets
             PROVE  Settled(get[g])' /\ Streamed(get[g])'
  BY DEF GetsHold
<1>1. /\ get[g].seen \in Versions \cup {None} /\ get[g].inode \in Versions \cup {None}
      /\ Settled(get[g]) /\ Streamed(get[g])
  BY DEF GetsHold, TypeOK
<1>2. Settled(get[g])'
  BY <1>1 DEF Settled
<1>3. Streamed(get[g])'
  BY <1>1 DEF Streamed, Declared
<1> QED BY <1>2, <1>3

LEMMA KeepsPublic ==
  ASSUME NamesHold, PublicIsWhole, UNCHANGED <<pc, temp, content, crowded>>,
         \A i \in Versions : Public(i)' => Public(i)
  PROVE  NamesHold' /\ PublicIsWhole'
<1>1. Resumed \in Versions
  BY DEF Versions
<1>2. NamesHold'
  BY DEF NamesHold, Used
<1>3. PublicIsWhole'
  BY <1>1 DEF PublicIsWhole
<1> QED BY <1>2, <1>3

LEMMA KeepsListing ==
  ASSUME ListingHolds, listing' = listing,
         \A i \in crowded : i # temp => i \in crowded' /\ i # temp'
  PROVE  ListingHolds'
BY DEF ListingHolds

-----------------------------------------------------------------------------
\* Form uploads.

LEMMA CreateServing ==
  ASSUME ServingInv, NEW f \in Forms, FormCreate(f)
  PROVE  ServingInv'
<1> DEFINE i == IF temp = None THEN f ELSE temp
<1> USE DEF ServingInv
<1>1. /\ pc[f] = "idle" /\ sent[f] = 0
      /\ pc' = [pc EXCEPT ![f] = "write"]
      /\ handle' = [handle EXCEPT ![f] = i]
      /\ temp' = i
      /\ content' = [content EXCEPT ![i] = <<>>]
      /\ crowded' = IF Others(f) = {} THEN crowded \ {i} ELSE crowded \cup {i}
      /\ UNCHANGED <<sent, final, get, listing>>
  BY DEF FormCreate, FormsHold
<1>2. i \in Forms /\ i \in Versions /\ i # None
  BY VersionAssumption DEF TypeOK, Versions
<1>3. pc'[i] # "idle"
  BY <1>1 DEF NamesHold, Used, TypeOK
<1>4. \A j \in Versions : Public(j) => j # i
  BY <1>1, <1>2 DEF NamesHold, Used
<1>5. \A j : Public(j)' <=> Public(j)
  BY <1>1 DEF Public
<1>6. \A e \in Forms : e # f => Under(e)' = Under(e) /\ handle'[e] = handle[e] /\ sent'[e] = sent[e]
  BY <1>1 DEF TypeOK, Under
<1>7. \A j : Used(j) => Used(j)'
  BY <1>1 DEF TypeOK, Used
<1>8. \A j \in Versions : j # i => content'[j] = content[j] /\ (j \in crowded' <=> j \in crowded)
  BY <1>1 DEF TypeOK
<1>9. content'[i] = <<>> /\ handle'[f] = i /\ sent'[f] = 0 /\ pc'[f] = "write"
  BY <1>1, <1>2 DEF TypeOK
<1> HIDE DEF i
<1>10. TypeOK'
  <2>1. content' \in [Versions -> Seq(Versions \cup {Zero})]
    BY <1>1, <1>2 DEF TypeOK
  <2>2. crowded' \subseteq Versions
    BY <1>1, <1>2 DEF TypeOK
  <2> QED BY <1>1, <1>2, <2>1, <2>2 DEF TypeOK
<1>11. FormsHold'
  <2> SUFFICES ASSUME NEW e \in Forms
               PROVE /\ sent'[e] <= Size[e]
                     /\ pc'[e] = "idle" => sent'[e] = 0
                     /\ pc'[e] # "idle" => handle'[e] \in Forms /\ pc'[handle'[e]] # "idle"
    BY DEF FormsHold, Used
  <2>1. CASE e = f
    BY <2>1, <1>1, <1>2, <1>3, <1>9 DEF FormsHold
  <2>2. CASE e # f
    BY <2>2, <1>1, <1>6, <1>7 DEF FormsHold, TypeOK, Under, Used
  <2> QED BY <2>1, <2>2
<1>12. NamesHold'
  <2>1. crowded' \subseteq Forms /\ \A j \in crowded' : Used(j)'
    BY <1>1, <1>2, <1>3, <1>7 DEF NamesHold, Used
  <2>2. \A j \in Versions : Public(j)' => Used(j)' /\ j # temp'
    BY <1>1, <1>4, <1>5, <1>7 DEF NamesHold
  <2> QED BY <1>1, <1>3, <2>1, <2>2 DEF NamesHold, Used
<1>13. \A e \in Forms : e # f /\ Under(e)' => e \in Others(f)
  BY <1>6 DEF Others, Under
<1>14. \A e \in Forms : Under(e)' /\ handle'[e] \notin crowded' => e = f /\ Others(f) = {}
  <2> SUFFICES ASSUME NEW e \in Forms, Under(e)', handle'[e] \notin crowded'
               PROVE  e = f /\ Others(f) = {}
    OBVIOUS
  <2>1. CASE Others(f) = {}
    BY <2>1, <1>13
  <2>2. CASE Others(f) # {}
    <3>1. crowded' = crowded \cup {i} /\ handle'[e] # i
      BY <2>2, <1>1
    <3>2. e # f
      BY <3>1, <1>9
    <3>3. Under(e) /\ handle[e] \notin crowded /\ handle[e] # i /\ handle[e] \in Forms
      BY <3>1, <3>2, <1>6 DEF FormsHold, Under
    <3>4. handle[e] = temp /\ temp # None
      BY <3>3, VersionAssumption DEF Alone, Versions
    <3> QED BY <3>3, <3>4 DEF i
  <2> QED BY <2>1, <2>2
<1>15. Alone'
  <2>1. \A e \in Forms : Under(e)' /\ i \notin crowded' => handle'[e] = i
    <3>1. i \notin crowded' => Others(f) = {}
      BY <1>1
    <3> QED BY <3>1, <1>9, <1>13
  <2> QED BY <2>1, <1>1, <1>9, <1>13, <1>14 DEF Alone, Under
<1>16. Body'
  <2> SUFFICES ASSUME NEW e \in Forms, Under(e)', handle'[e] \notin crowded'
               PROVE  /\ Len(content'[handle'[e]]) = sent'[e]
                      /\ \A k \in 1 .. sent'[e] : content'[handle'[e]][k] = e
    BY DEF Body, Under
  <2>1. e = f
    BY <1>14
  <2> QED BY <2>1, <1>9
<1>17. PublicIsWhole'
  <2>1. \A j \in Versions \ crowded' : Public(j)' => \E v \in Versions : content'[j] = Whole(v)
    BY <1>4, <1>5, <1>8 DEF PublicIsWhole
  <2>2. Resumed \in Versions /\ Resumed # i
    BY <1>2, VersionAssumption DEF Versions
  <2>3. Public(Resumed)' => content'[Resumed] = Whole(Resumed)
    BY <2>2, <1>5, <1>8 DEF PublicIsWhole
  <2> QED BY <2>1, <2>3 DEF PublicIsWhole
<1>18. GetsHold'
  <2>1. \A g \in Gets : \A j \in Versions : get[g].inode = j \/ get[g].seen = j =>
          (j \notin crowded' => j \notin crowded /\ content'[j] = content[j])
    <3>1. \A g \in Gets : \A j \in Versions : get[g].inode = j \/ get[g].seen = j => Public(j)
      BY VersionAssumption DEF Public
    <3> QED BY <3>1, <1>4, <1>8
  <2> QED BY <2>1, <1>1, KeepsGets
<1>19. ListingHolds'
  <2>1. \A j \in crowded : j # temp => j # i
    BY <1>1 DEF i, NamesHold, Used
  <2>2. \A j \in crowded : j # temp => j \in crowded' /\ j # temp'
    BY <2>1, <1>1 DEF i
  <2> QED BY <2>2, <1>1, KeepsListing
<1> QED BY <1>10, <1>11, <1>12, <1>15, <1>16, <1>17, <1>18, <1>19

\* One more block, by a request or by the last write of a dropped one.
LEMMA WriteServing ==
  ASSUME ServingInv, NEW f \in Forms, Under(f), WriteBlock(f),
         \/ UNCHANGED pc
         \/ pc' = [pc EXCEPT ![f] = "gone"]
  PROVE  ServingInv'
<1> DEFINE i == handle[f]
           s == Written(content[i], sent[f] + 1, f)
<1> USE DEF ServingInv
<1>1. /\ sent[f] < Size[f] /\ sent[f] \in Nat /\ Size[f] \in Nat
      /\ content' = [content EXCEPT ![i] = s]
      /\ sent' = [sent EXCEPT ![f] = sent[f] + 1]
      /\ UNCHANGED <<handle, temp, final, crowded, get, listing>>
  BY SizeAssumption DEF WriteBlock, TypeOK, Versions
<1>2. i \in Forms /\ i \in Versions /\ i # None
  BY VersionAssumption DEF FormsHold, Under, Versions
<1>3. content[i] \in Seq(Blocks) /\ f \in Blocks
  BY <1>2 DEF TypeOK, Blocks, Versions
<1>4. s \in Seq(Blocks)
  BY <1>1, <1>3, WrittenAt
<1>5. \A j \in Versions : j # i => content'[j] = content[j]
  BY <1>1 DEF TypeOK
<1>6. content'[i] = s /\ sent'[f] = sent[f] + 1
  BY <1>1, <1>2 DEF TypeOK
<1>7. \A e \in Forms : /\ Under(e)' => Under(e)
                       /\ pc'[e] = "idle" <=> pc[e] = "idle"
                       /\ e # f => sent'[e] = sent[e]
  BY <1>1 DEF TypeOK, Under
<1>8. \A j : Used(j)' <=> Used(j)
  BY <1>7 DEF Used
<1>9. \A j : Public(j)' <=> Public(j)
  BY <1>1 DEF Public
<1>10. TypeOK'
  <2>1. content' \in [Versions -> Seq(Versions \cup {Zero})]
    BY <1>1, <1>2, <1>4 DEF TypeOK, Blocks
  <2>2. pc' \in [Forms -> {"idle", "write", "late", "done", "failed", "gone"}]
    BY DEF TypeOK
  <2>3. sent' \in [Forms -> Nat]
    BY <1>1 DEF TypeOK
  <2> HIDE DEF s
  <2> QED BY <1>1, <2>1, <2>2, <2>3 DEF TypeOK
<1> HIDE DEF s
<1>11. FormsHold'
  <2> SUFFICES ASSUME NEW e \in Forms
               PROVE /\ sent'[e] <= Size[e]
                     /\ pc'[e] = "idle" => sent'[e] = 0
                     /\ pc'[e] # "idle" => handle'[e] \in Forms /\ pc'[handle'[e]] # "idle"
    BY DEF FormsHold, Used
  <2>1. CASE e = f
    BY <2>1, <1>1, <1>2, <1>6, <1>7, <1>8 DEF FormsHold, Under, Used
  <2>2. CASE e # f
    BY <2>2, <1>1, <1>7, <1>8 DEF FormsHold, Used
  <2> QED BY <2>1, <2>2
<1>12. NamesHold'
  BY <1>1, <1>8, <1>9 DEF NamesHold, Used
<1>13. Alone'
  BY <1>1, <1>7 DEF Alone, Under
<1>14. Body'
  <2> SUFFICES ASSUME NEW e \in Forms, Under(e), handle[e] \notin crowded
               PROVE  /\ Len(content'[handle[e]]) = sent'[e]
                      /\ \A k \in 1 .. sent'[e] : content'[handle[e]][k] = e
    BY <1>1, <1>7 DEF Body, Under
  <2>1. e = f
    BY DEF Alone
  <2>2. Len(content[i]) = sent[f] /\ \A k \in 1 .. sent[f] : content[i][k] = f
    BY <2>1 DEF Body
  <2>3. /\ Len(s) = sent[f] + 1
        /\ \A k \in 1 .. sent[f] : s[k] = content[i][k]
        /\ s[sent[f] + 1] = f
    <3> DEFINE k == sent[f] + 1
    <3>1. k \in Nat \ {0} /\ k - 1 = sent[f]
      BY <1>1
    <3>2. s = Written(content[i], k, f)
      BY DEF s
    <3> HIDE DEF k
    <3>3. /\ Len(s) = k /\ s[k] = f
          /\ \A j \in 1 .. k - 1 : s[j] = content[i][j]
      <4>1. Len(content[i]) = k - 1
        BY <3>1, <2>2
      <4>2. \A x \in Seq(Blocks) : Len(x) = k - 1 =>
              /\ Len(Written(x, k, f)) = k
              /\ \A j \in 1 .. k - 1 : Written(x, k, f)[j] = x[j]
              /\ Written(x, k, f)[k] = f
        BY <3>1, <1>3, WrittenAt
      <4> QED BY <4>1, <4>2, <3>2, <1>3
    <3> QED BY <3>1, <3>3 DEF k
  <2>4. \A k \in 1 .. sent[f] + 1 : s[k] = f
    <3>1. \A k \in 1 .. sent[f] + 1 : k \in 1 .. sent[f] \/ k = sent[f] + 1
      BY <1>1
    <3> QED BY <3>1, <2>2, <2>3
  <2>5. content'[handle[f]] = s
    BY <1>6
  <2> QED BY <2>1, <2>3, <2>4, <2>5, <1>6
<1>15. \A j \in Versions : Public(j) /\ j \notin crowded => content'[j] = content[j]
  <2> SUFFICES ASSUME i \notin crowded, Public(i) PROVE FALSE
    BY <1>5
  <2> QED BY <1>2 DEF Alone, NamesHold
<1>16. PublicIsWhole'
  <2>1. Resumed \in Versions /\ Resumed # i
    BY <1>2, VersionAssumption DEF Versions
  <2> QED BY <2>1, <1>1, <1>5, <1>9, <1>15 DEF PublicIsWhole
<1>17. GetsHold'
  <2>1. \A g \in Gets : \A j \in Versions : get[g].inode = j \/ get[g].seen = j => Public(j)
    BY VersionAssumption DEF Public
  <2> QED BY <2>1, <1>1, <1>15, KeepsGets
<1>18. ListingHolds'
  BY <1>1, KeepsListing
<1> QED BY <1>10, <1>11, <1>12, <1>13, <1>14, <1>16, <1>17, <1>18

LEMMA BrokenServing ==
  ASSUME ServingInv, NEW f \in Forms, FormBroken(f)
  PROVE  ServingInv'
<1> USE DEF ServingInv
<1>1. /\ pc[f] = "write"
      /\ pc' \in {[pc EXCEPT ![f] = "gone"], [pc EXCEPT ![f] = "late"]}
      /\ UNCHANGED <<handle, sent, temp, final, content, crowded, get, listing>>
  BY DEF FormBroken
<1>2. \A e \in Forms : /\ Under(e)' => Under(e)
                       /\ pc'[e] = "idle" <=> pc[e] = "idle"
  BY <1>1 DEF TypeOK, Under
<1>3. \A j : Used(j)' <=> Used(j)
  BY <1>2 DEF Used
<1>4. \A j : Public(j)' <=> Public(j)
  BY <1>1 DEF Public
<1>5. TypeOK'
  BY <1>1 DEF TypeOK
<1>6. FormsHold'
  BY <1>1, <1>2, <1>3 DEF FormsHold, Used
<1>7. NamesHold'
  BY <1>1, <1>3, <1>4 DEF NamesHold, Used
<1>8. Alone' /\ Body'
  BY <1>1, <1>2 DEF Alone, Body, Under
<1>9. PublicIsWhole'
  BY <1>1, <1>4 DEF PublicIsWhole
<1>10. GetsHold'
  BY <1>1, KeepsGets
<1>11. ListingHolds'
  BY <1>1, KeepsListing
<1> QED BY <1>5, <1>6, <1>7, <1>8, <1>9, <1>10, <1>11

\* What is renamed is whole unless it is crowded.
LEMMA CopiedIsWhole ==
  ASSUME ServingInv, NEW f \in Forms, Copied(f)
  PROVE  handle[f] \notin crowded =>
           handle[f] = temp /\ temp # None /\ content[temp] = Whole(f)
<1> SUFFICES ASSUME handle[f] \notin crowded
             PROVE  handle[f] = temp /\ temp # None /\ content[temp] = Whole(f)
  OBVIOUS
<1>1. Under(f) /\ pc[f] # "idle" /\ sent[f] = Size[f]
  BY DEF Copied, Under
<1>2. handle[f] = temp /\ temp \in Forms
  BY <1>1 DEF ServingInv, Alone, FormsHold
<1>3. Len(content[temp]) = Size[f] /\ \A k \in 1 .. Size[f] : content[temp][k] = f
  BY <1>1, <1>2 DEF ServingInv, Body
<1>4. content[temp] \in Seq(Blocks) /\ f \in Versions
  BY <1>2 DEF ServingInv, TypeOK, Blocks, Versions
<1> QED BY <1>2, <1>3, <1>4, WholeIs, VersionAssumption DEF Versions

LEMMA RenameServing ==
  ASSUME ServingInv, NEW f \in Forms, FormRename(f)
  PROVE  ServingInv'
<1> USE DEF ServingInv
<1>1. /\ pc[f] = "write" /\ Copied(f)
      /\ UNCHANGED <<handle, sent, content, crowded, get, listing>>
      /\ \/ /\ temp = None /\ pc' = [pc EXCEPT ![f] = "failed"] /\ UNCHANGED <<temp, final>>
         \/ /\ temp # None /\ pc' = [pc EXCEPT ![f] = "done"]
            /\ final' = temp /\ temp' = None
  BY DEF FormRename, Copied
<1>2. \A e \in Forms : /\ Under(e)' => Under(e) /\ e # f
                       /\ pc'[e] = "idle" <=> pc[e] = "idle"
  BY <1>1 DEF TypeOK, Under
<1>3. \A j : Used(j)' <=> Used(j)
  BY <1>2 DEF Used
<1>4. \A j : Public(j)' => Public(j) \/ (j = temp /\ temp # None)
  BY <1>1 DEF Public
<1>5. TypeOK'
  BY <1>1 DEF TypeOK, Versions
<1>6. FormsHold'
  BY <1>1, <1>2, <1>3 DEF FormsHold, Used
<1>7. Used(None)
  BY VersionAssumption DEF Used, Versions
<1>8. NamesHold'
  BY <1>1, <1>3, <1>4, <1>7, VersionAssumption DEF NamesHold, Used
<1>9. \A e \in Forms : Under(e)' => handle[e] \in crowded
  BY <1>1, <1>2 DEF Alone, Under
<1>10. Alone' /\ Body'
  <2>1. temp' \notin crowded' \cup {None}' => temp' = temp
    BY <1>1
  <2> QED BY <2>1, <1>1, <1>2, <1>9 DEF Alone, Body, Under
<1>11. PublicIsWhole'
  <2>1. temp \notin crowded \cup {None} /\ temp' = None => content[temp] = Whole(f) /\ f \in Versions
    BY <1>1, CopiedIsWhole DEF Alone, Under, Versions
  <2>2. Resumed \in Versions /\ (Resumed # temp \/ temp = None)
    BY VersionAssumption DEF TypeOK, Versions
  <2>3. \A i \in Versions \ crowded : Public(i)' => \E v \in Versions : content[i] = Whole(v)
    <3> SUFFICES ASSUME NEW i \in Versions \ crowded, Public(i)'
                 PROVE  \E v \in Versions : content[i] = Whole(v)
      OBVIOUS
    <3>1. CASE Public(i)
      BY <3>1 DEF PublicIsWhole
    <3>2. CASE ~Public(i)
      <4>1. i = temp /\ temp # None /\ temp' = None
        BY <3>2, <1>1, <1>4 DEF Public
      <4> QED BY <4>1, <2>1
    <3> QED BY <3>1, <3>2
  <2>4. Public(Resumed)' => content[Resumed] = Whole(Resumed)
    BY <1>4, <2>2 DEF PublicIsWhole
  <2> QED BY <2>3, <2>4, <1>1 DEF PublicIsWhole
<1>12. GetsHold'
  BY <1>1, KeepsGets
<1>13. ListingHolds'
  <2>1. \A i \in crowded : i # None
    BY VersionAssumption DEF NamesHold, Versions
  <2> QED BY <2>1, <1>1, KeepsListing
<1> QED BY <1>5, <1>6, <1>8, <1>10, <1>11, <1>12, <1>13

LEMMA ResumableServing ==
  ASSUME ServingInv, ResumablePublish
  PROVE  ServingInv'
<1> USE DEF ServingInv
<1>1. /\ content[Resumed] = <<>>
      /\ content' = [content EXCEPT ![Resumed] = Whole(Resumed)]
      /\ final' = Resumed
      /\ UNCHANGED <<pc, handle, sent, temp, crowded, get, listing>>
  BY DEF ResumablePublish, formVars
<1>2. Resumed \in Versions /\ Resumed \notin Forms /\ Resumed # None /\ Resumed # temp
  BY VersionAssumption DEF Versions, TypeOK
<1>3. \A j \in Versions : j # Resumed => content'[j] = content[j]
  BY <1>1 DEF TypeOK
<1>4. content'[Resumed] = Whole(Resumed) /\ Whole(Resumed) \in Seq(Versions \cup {Zero})
  BY <1>1, <1>2, WholeHas DEF TypeOK, Blocks
<1>5. \A j : Public(j)' => Public(j) \/ j = Resumed
  BY <1>1 DEF Public
<1>6. TypeOK'
  BY <1>1, <1>2, <1>4 DEF TypeOK
<1>7. FormsHold'
  BY <1>1 DEF FormsHold, Used
<1>8. NamesHold'
  BY <1>1, <1>2, <1>5 DEF NamesHold, Used
<1>9. Alone'
  BY <1>1 DEF Alone, Under
<1>10. Body'
  <2>1. \A e \in Forms : Under(e) => handle[e] \in Versions /\ handle[e] # Resumed
    BY <1>2 DEF FormsHold, Under, Versions
  <2>2. \A e \in Forms : Under(e) => content'[handle[e]] = content[handle[e]]
    BY <2>1, <1>3
  <2> QED BY <2>2, <1>1 DEF Body, Under
<1>11. PublicIsWhole'
  BY <1>1, <1>2, <1>3, <1>4, <1>5 DEF PublicIsWhole
<1>12. GetsHold'
  <2>1. \A j \in Versions : Public(j) => content'[j] = content[j]
    BY <1>3, <1>4 DEF PublicIsWhole
  <2>2. \A g \in Gets : \A j \in Versions : get[g].inode = j \/ get[g].seen = j => Public(j)
    BY VersionAssumption DEF Public
  <2> QED BY <2>1, <2>2, <1>1, <1>2, KeepsGets
<1>13. ListingHolds'
  BY <1>1, KeepsListing
<1> QED BY <1>6, <1>7, <1>8, <1>9, <1>10, <1>11, <1>12, <1>13

-----------------------------------------------------------------------------
\* Downloads.

\* A step of one download: the others, the forms and the listing stay.
LEMMA KeepsOthers ==
  ASSUME ServingInv, NEW g \in Gets, NEW d,
         get' = [get EXCEPT ![g] = d],
         UNCHANGED <<formVars, temp, final, content, crowded, listing>>,
         d \in [pc : {"idle", "open", "read", "end", "missing", "refused"},
                header : Requests \cup {None}, seen : Versions \cup {None},
                size : Nat, spec : RangeSpec, inode : Versions \cup {None},
                got : Seq(Versions \cup {Zero})],
         d.seen \in {get[g].seen, final}, d.inode \in {get[g].inode, final},
         Settled(d), Streamed(d)
  PROVE  ServingInv'
<1> USE DEF ServingInv
<1>1. UNCHANGED <<pc, handle, sent>>
  BY DEF formVars
<1>2. get'[g] = d /\ \A h \in Gets : h # g => get'[h] = get[h]
  BY DEF TypeOK
<1>3. \A i \in Versions : Public(i)' => Public(i)
  BY <1>2 DEF Public
<1>4. NamesHold' /\ PublicIsWhole'
  BY <1>1, <1>3, KeepsPublic
<1>5. GetsHold'
  <2> SUFFICES ASSUME NEW h \in Gets PROVE Settled(get[h])' /\ Streamed(get[h])'
    BY DEF GetsHold
  <2>1. Settled(get'[h]) /\ Streamed(get'[h])
    BY <1>2 DEF GetsHold
  <2> QED BY <2>1 DEF Settled, Streamed
<1>6. TypeOK'
  BY <1>1 DEF TypeOK
<1>7. FormsHold' /\ Alone' /\ Body'
  BY <1>1 DEF FormsHold, Used, Alone, Body, Under
<1>8. ListingHolds'
  BY KeepsListing
<1> QED BY <1>4, <1>5, <1>6, <1>7, <1>8

\* The declared length, and where it ends.
LEMMA DeclaredRange ==
  ASSUME NEW d, d.spec \in RangeSpec, d.size \in Nat, Settled(d),
         d.pc \in {"open", "read", "end"}
  PROVE  /\ Declared(d) \in Nat
         /\ d.spec.start \in Nat
         /\ d.spec.start + Declared(d) <= d.size
         /\ OneRange(d.header) =>
              Wanted(d.header, d.size) = d.spec.start .. d.spec.start + Declared(d) - 1
         /\ ~OneRange(d.header) => d.spec.start = 0 /\ Declared(d) = d.size
<1> DEFINE h == d.header
<1>1. h \in Headers /\ d.spec = parse_range(h, d.size) /\ d.spec # Unsatisfiable
  BY RequestAssumption DEF Settled
<1>2. /\ d.spec.kind = "ignore" => d.spec = Ignore /\ ~OneRange(h)
      /\ d.spec.kind # "unsatisfiable"
      /\ d.spec.kind = "satisfiable" =>
           /\ OneRange(h) /\ d.spec.start <= d.spec.end /\ d.spec.end < d.size
           /\ Wanted(h, d.size) = d.spec.start .. d.spec.end
  BY <1>1, ParseRangeTheorem DEF OneRange
<1>3. /\ d.spec.start \in Nat /\ d.spec.end \in Nat
      /\ d.spec.kind \in {"satisfiable", "unsatisfiable", "ignore"}
  BY DEF RangeSpec
<1>4. CASE d.spec.kind = "satisfiable"
  <2>1. Declared(d) = d.spec.end - d.spec.start + 1
    BY <1>4 DEF Declared
  <2>2. d.spec.start + Declared(d) - 1 = d.spec.end /\ Declared(d) \in Nat
    BY <2>1, <1>2, <1>3, <1>4
  <2> QED BY <2>1, <2>2, <1>2, <1>3, <1>4
<1>5. CASE d.spec.kind = "ignore"
  <2>1. Declared(d) = d.size /\ d.spec.start = 0
    BY <1>5, <1>2 DEF Declared, Ignore
  <2> QED BY <2>1, <1>2, <1>5
<1> QED BY <1>2, <1>3, <1>4, <1>5

LEMMA StatServing ==
  ASSUME ServingInv, NEW g \in Gets, NEW h \in Requests, GetStat(g, h)
  PROVE  ServingInv'
<1> USE DEF ServingInv
<1> DEFINE size == Len(content[final])
           spec == parse_range(h, size)
           d == IF final = None THEN [get[g] EXCEPT !.pc = "missing", !.header = h]
                ELSE [get[g] EXCEPT !.pc = IF spec = Unsatisfiable THEN "refused" ELSE "open",
                                    !.header = h, !.seen = final, !.size = size, !.spec = spec]
<1>1. /\ get[g].pc = "idle"
      /\ get' = [get EXCEPT ![g] = d]
      /\ UNCHANGED <<formVars, temp, final, content, crowded, listing>>
  BY DEF GetStat
<1>2. /\ get[g] \in [pc : {"idle", "open", "read", "end", "missing", "refused"},
                     header : Requests \cup {None}, seen : Versions \cup {None},
                     size : Nat, spec : RangeSpec, inode : Versions \cup {None},
                     got : Seq(Versions \cup {Zero})]
      /\ Settled(get[g]) /\ Streamed(get[g])
  BY DEF TypeOK, GetsHold
<1>3. get[g].inode = None /\ get[g].got = <<>> /\ get[g].seen = None
  BY <1>1, <1>2 DEF Streamed, Settled
<1>4. CASE final = None
  <2>1. d = [get[g] EXCEPT !.pc = "missing", !.header = h]
    BY <1>4
  <2> HIDE DEF d
  <2>2. /\ d \in [pc : {"idle", "open", "read", "end", "missing", "refused"},
                  header : Requests \cup {None}, seen : Versions \cup {None},
                  size : Nat, spec : RangeSpec, inode : Versions \cup {None},
                  got : Seq(Versions \cup {Zero})]
        /\ d.pc = "missing" /\ d.seen = None /\ d.inode = None /\ d.got = <<>>
    BY <2>1, <1>2, <1>3
  <2>3. Settled(d) /\ Streamed(d)
    BY <2>2 DEF Settled, Streamed
  <2> QED BY <2>2, <2>3, <1>1, <1>3, KeepsOthers
<1>5. CASE final # None
  <2>1. size \in Nat /\ final \in Versions
    BY <1>5 DEF TypeOK
  <2>2. spec \in RangeSpec
    BY <2>1, ParsedType
  <2>3. d = [get[g] EXCEPT !.pc = IF spec = Unsatisfiable THEN "refused" ELSE "open",
                           !.header = h, !.seen = final, !.size = size, !.spec = spec]
    BY <1>5
  <2> HIDE DEF d
  <2>4. /\ d \in [pc : {"idle", "open", "read", "end", "missing", "refused"},
                  header : Requests \cup {None}, seen : Versions \cup {None},
                  size : Nat, spec : RangeSpec, inode : Versions \cup {None},
                  got : Seq(Versions \cup {Zero})]
        /\ d.pc = (IF spec = Unsatisfiable THEN "refused" ELSE "open") /\ d.header = h
        /\ d.seen = final /\ d.size = size /\ d.spec = spec /\ d.inode = None /\ d.got = <<>>
    <3> HIDE DEF spec, size
    <3> QED BY <2>1, <2>2, <2>3, <1>2, <1>3
  <2>5. d.spec = parse_range(d.header, d.size)
    BY <2>4
  <2>6. Settled(d) /\ Streamed(d)
    BY <2>1, <2>4, <2>5, <1>5 DEF Settled, Streamed
  <2> QED BY <2>4, <2>6, <1>1, <1>3, KeepsOthers
<1> QED BY <1>4, <1>5

LEMMA OpenServing ==
  ASSUME ServingInv, NEW g \in Gets, GetOpen(g)
  PROVE  ServingInv'
<1> USE DEF ServingInv
<1> DEFINE d == [get[g] EXCEPT !.pc = "read", !.inode = final]
<1>1. /\ get[g].pc = "open"
      /\ get' = [get EXCEPT ![g] = d]
      /\ UNCHANGED <<formVars, temp, final, content, crowded, listing>>
  BY DEF GetOpen, TypeOK
<1>2. /\ get[g] \in [pc : {"idle", "open", "read", "end", "missing", "refused"},
                     header : Requests \cup {None}, seen : Versions \cup {None},
                     size : Nat, spec : RangeSpec, inode : Versions \cup {None},
                     got : Seq(Versions \cup {Zero})]
      /\ Settled(get[g]) /\ Streamed(get[g])
  BY DEF TypeOK, GetsHold
<1>3. final \in Versions /\ get[g].got = <<>>
  BY <1>1, <1>2 DEF TypeOK, Settled, Streamed
<1>4. /\ d \in [pc : {"idle", "open", "read", "end", "missing", "refused"},
                header : Requests \cup {None}, seen : Versions \cup {None},
                size : Nat, spec : RangeSpec, inode : Versions \cup {None},
                got : Seq(Versions \cup {Zero})]
      /\ d.pc = "read" /\ d.inode = final /\ d.got = <<>> /\ d.header = get[g].header
      /\ d.seen = get[g].seen /\ d.size = get[g].size /\ d.spec = get[g].spec
  BY <1>2, <1>3
<1> HIDE DEF d
<1>5. Settled(d)
  BY <1>1, <1>2, <1>4 DEF Settled
<1>6. Declared(d) \in Nat
  BY <1>4, <1>5, DeclaredRange
<1>7. Streamed(d)
  BY <1>3, <1>4, <1>6 DEF Streamed
<1> QED BY <1>1, <1>4, <1>5, <1>7, KeepsOthers

LEMMA ReadServing ==
  ASSUME ServingInv, NEW g \in Gets, GetRead(g)
  PROVE  ServingInv'
<1> USE DEF ServingInv
<1> DEFINE o  == get[g]
           at == o.spec.start + Len(o.got) + 1
           more == Len(o.got) < Declared(o) /\ at <= Len(content[o.inode])
           d == IF more THEN [o EXCEPT !.got = Append(o.got, content[o.inode][at])]
                        ELSE [o EXCEPT !.pc = "end"]
<1>1. /\ o.pc = "read"
      /\ get' = [get EXCEPT ![g] = d]
      /\ UNCHANGED <<formVars, temp, final, content, crowded, listing>>
  <2>1. ReadAt(o).i = o.inode /\ ReadAt(o).at = at
    BY DEF ReadAt
  <2>2. /\ o.pc = "read"
        /\ get' = [get EXCEPT ![g] =
             IF Len(o.got) < Declared(o) /\ ReadAt(o).at <= Len(content[ReadAt(o).i])
             THEN [o EXCEPT !.got = Append(o.got, content[ReadAt(o).i][ReadAt(o).at])]
             ELSE [o EXCEPT !.pc = "end"]]
        /\ UNCHANGED <<formVars, temp, final, content, crowded, listing>>
    BY DEF GetRead
  <2> QED BY <2>1, <2>2
<1>2. /\ o \in [pc : {"idle", "open", "read", "end", "missing", "refused"},
                header : Requests \cup {None}, seen : Versions \cup {None},
                size : Nat, spec : RangeSpec, inode : Versions \cup {None},
                got : Seq(Versions \cup {Zero})]
      /\ Settled(o) /\ Streamed(o)
  BY DEF TypeOK, GetsHold
<1>3. /\ o.inode \in Versions /\ content[o.inode] \in Seq(Versions \cup {Zero})
      /\ Len(content[o.inode]) \in Nat
  BY <1>1, <1>2 DEF Streamed, TypeOK
<1>4. /\ Declared(o) \in Nat /\ o.spec.start \in Nat /\ Len(o.got) \in Nat /\ at \in Nat \ {0}
  BY <1>1, <1>2, DeclaredRange
<1>5. /\ Len(o.got) <= Declared(o)
      /\ o.inode \notin crowded =>
           /\ o.got = <<>> \/ o.spec.start + Len(o.got) <= Len(content[o.inode])
           /\ \A k \in DOMAIN o.got : o.got[k] = content[o.inode][o.spec.start + k]
  BY <1>1, <1>2 DEF Streamed
<1>6. CASE more
  <2> DEFINE b == content[o.inode][at]
  <2>1. d = [o EXCEPT !.got = Append(o.got, b)]
    BY <1>6
  <2>2. b \in Versions \cup {Zero}
    BY <1>3, <1>4, <1>6
  <2> HIDE DEF d, b
  <2>3. Append(o.got, b) \in Seq(Versions \cup {Zero})
    BY <2>2, <1>2
  <2>4. /\ d \in [pc : {"idle", "open", "read", "end", "missing", "refused"},
                  header : Requests \cup {None}, seen : Versions \cup {None},
                  size : Nat, spec : RangeSpec, inode : Versions \cup {None},
                  got : Seq(Versions \cup {Zero})]
        /\ d.pc = "read" /\ d.header = o.header /\ d.seen = o.seen /\ d.size = o.size
        /\ d.spec = o.spec /\ d.inode = o.inode /\ d.got = Append(o.got, b)
    BY <2>1, <2>3, <1>1, <1>2
  <2>5. Settled(d)
    BY <1>1, <1>2, <2>4 DEF Settled
  <2>6. /\ Len(d.got) = Len(o.got) + 1
        /\ DOMAIN d.got = 1 .. Len(o.got) + 1
        /\ d.got[Len(o.got) + 1] = b
        /\ \A k \in 1 .. Len(o.got) : d.got[k] = o.got[k]
        /\ DOMAIN o.got = 1 .. Len(o.got)
    BY <2>2, <2>4, <1>2
  <2>7. Declared(d) = Declared(o)
    BY <2>4 DEF Declared
  <2>8. Len(d.got) <= Declared(d) /\ o.spec.start + Len(d.got) <= Len(content[o.inode])
    BY <2>6, <2>7, <1>3, <1>4, <1>6
  <2>9. ASSUME o.inode \notin crowded, NEW k \in DOMAIN d.got
        PROVE  d.got[k] = content[o.inode][o.spec.start + k]
    <3>1. CASE k = Len(o.got) + 1
      <4>1. o.spec.start + k = at
        BY <3>1, <1>4
      <4> QED BY <4>1, <3>1, <2>6 DEF b
    <3>2. CASE k # Len(o.got) + 1
      <4>1. k \in 1 .. Len(o.got)
        BY <3>2, <2>6, <1>4
      <4> QED BY <4>1, <2>6, <2>9, <1>5
    <3> QED BY <3>1, <3>2
  <2>10. Streamed(d)
    BY <2>4, <2>8, <2>9, <1>3 DEF Streamed
  <2> QED BY <2>4, <2>5, <2>10, <1>1, KeepsOthers
<1>7. CASE ~more
  <2>1. d = [o EXCEPT !.pc = "end"]
    BY <1>7
  <2> HIDE DEF d
  <2>2. /\ d \in [pc : {"idle", "open", "read", "end", "missing", "refused"},
                  header : Requests \cup {None}, seen : Versions \cup {None},
                  size : Nat, spec : RangeSpec, inode : Versions \cup {None},
                  got : Seq(Versions \cup {Zero})]
        /\ d.pc = "end" /\ d.header = o.header /\ d.seen = o.seen /\ d.size = o.size
        /\ d.spec = o.spec /\ d.inode = o.inode /\ d.got = o.got
    BY <2>1, <1>1, <1>2
  <2>3. Settled(d)
    BY <1>1, <1>2, <2>2 DEF Settled
  <2>4. Declared(d) = Declared(o)
    BY <2>2 DEF Declared
  <2>5. Len(d.got) >= Declared(d) \/ d.spec.start + Len(d.got) >= Len(content[d.inode])
    BY <2>2, <2>4, <1>3, <1>4, <1>7
  <2>6. Streamed(d)
    BY <2>2, <2>4, <2>5, <1>3, <1>5 DEF Streamed
  <2> QED BY <2>2, <2>3, <2>6, <1>1, KeepsOthers
<1> QED BY <1>6, <1>7

-----------------------------------------------------------------------------
\* The listing.

LEMMA ListingServing ==
  ASSUME ServingInv,
         \/ \E n \in Names : ListRow(n) \/ ListVanished(n)
         \/ ListNames
         \/ ListDone
  PROVE  ServingInv'
<1> USE DEF ServingInv
<1> DEFINE Type == [pc : {"idle", "rows", "done", "failed"}, pending : SUBSET Names,
                    snapshot : SUBSET Names, rows : SUBSET (Names \X Nat)]
<1>1. UNCHANGED <<pc, handle, sent, temp, final, content, crowded, get>>
  BY DEF ListRow, ListVanished, ListNames, ListDone, formVars
<1>2. \A i : Public(i)' = Public(i)
  BY <1>1 DEF Public
<1>3. NamesHold' /\ PublicIsWhole'
  BY <1>1, <1>2, KeepsPublic
<1>4. GetsHold'
  BY <1>1, KeepsGets
<1>5. FormsHold' /\ Alone' /\ Body'
  BY <1>1 DEF FormsHold, Used, Alone, Body, Under
<1>6. listing \in Type /\ ListingHolds
  BY DEF TypeOK
<1>7. listing' \in Type /\ ListingHolds'
  <2>1. ASSUME NEW n \in Names, ListRow(n)
        PROVE  listing' \in Type /\ ListingHolds'
    <3> DEFINE row == <<n, Len(content[Entry(n)])>>
    <3>1. /\ listing.pc = "rows" /\ Entry(n) # None
          /\ listing' = [listing EXCEPT !.pending = listing.pending \ {n},
                                        !.rows = listing.rows \cup {row}]
      BY <2>1 DEF ListRow
    <3>2. Entry(n) \in Versions
      BY <3>1 DEF Entry, TypeOK, Versions
    <3>3. row \in Names \X Nat /\ row[1] = n /\ row[2] = Len(content[Entry(n)])
      BY <3>2 DEF TypeOK
    <3>4. n = "final" => \/ \E v \in Versions : row[2] = Size[v]
                         \/ \E i \in crowded : i # temp
      <4> SUFFICES ASSUME n = "final", final \notin crowded
                   PROVE  \E v \in Versions : row[2] = Size[v]
        <5>1. n = "final" => Public(final) /\ final \in Versions
          BY <3>1, <3>2 DEF Entry, Public, Names
        <5>2. n = "final" => final # temp
          BY <5>1 DEF NamesHold
        <5> QED BY <5>2
      <4>1. Public(final) /\ Entry(n) = final
        BY <3>1 DEF Entry, Public
      <4>2. PICK v \in Versions : content[final] = Whole(v)
        BY <3>2, <4>1 DEF PublicIsWhole
      <4> QED BY <4>1, <4>2, <3>3, WholeHas
    <3> HIDE DEF row
    <3>5. /\ listing'.pc = "rows" /\ listing'.snapshot = listing.snapshot
          /\ listing'.pending = listing.pending \ {n}
          /\ listing'.rows = listing.rows \cup {row}
      BY <3>1, <1>6
    <3>6. listing' \in Type
      BY <3>1, <3>3, <1>6
    <3>7. listing'.snapshot \ listing'.pending \subseteq {r[1] : r \in listing'.rows}
      <4> SUFFICES ASSUME NEW m \in listing.snapshot \ (listing.pending \ {n})
                   PROVE  \E r \in listing.rows \cup {row} : r[1] = m
        BY <3>5
      <4>1. CASE m = n
        BY <4>1, <3>3
      <4>2. CASE m # n
        BY <4>2, <1>6 DEF ListingHolds
      <4> QED BY <4>1, <4>2
    <3>8. \A r \in listing'.rows : r[1] = "final" =>
            (\E v \in Versions : r[2] = Size[v]) \/ (\E i \in crowded : i # temp)
      BY <3>3, <3>4, <3>5, <1>6 DEF ListingHolds
    <3> QED BY <3>5, <3>6, <3>7, <3>8, <1>1 DEF ListingHolds
  <2>2. ASSUME NEW n \in Names, ListVanished(n)
        PROVE  listing' \in Type /\ ListingHolds'
    <3>1. listing' = [listing EXCEPT !.pc = "failed"]
      BY <2>2 DEF ListVanished, GivesUpAs
    <3> QED BY <3>1, <1>1, <1>6 DEF ListingHolds
  <2>3. ASSUME ListNames
        PROVE  listing' \in Type /\ ListingHolds'
    <3>1. PICK there \in SUBSET Names :
            listing' = [NoListing EXCEPT !.pc = "rows", !.pending = there, !.snapshot = there]
      BY <2>3 DEF ListNames
    <3> QED BY <3>1 DEF NoListing, ListingHolds
  <2>4. ASSUME ListDone
        PROVE  listing' \in Type /\ ListingHolds'
    <3>1. listing.pending = {} /\ listing' = [listing EXCEPT !.pc = "done"]
      BY <2>4 DEF ListDone
    <3> QED BY <3>1, <1>1, <1>6 DEF ListingHolds
  <2> QED BY <2>1, <2>2, <2>3, <2>4
<1>8. TypeOK'
  BY <1>1, <1>7 DEF TypeOK
<1> QED BY <1>3, <1>4, <1>5, <1>7, <1>8

-----------------------------------------------------------------------------
\* The theorems.

LEMMA ServingStep == ServingInv /\ [Next]_vars => ServingInv'
<1> SUFFICES ASSUME ServingInv, [Next]_vars PROVE ServingInv'
  OBVIOUS
<1>1. ASSUME NEW f \in Forms, FormCreate(f) PROVE ServingInv'
  BY <1>1, CreateServing
<1>2. ASSUME NEW f \in Forms, FormWrite(f) PROVE ServingInv'
  <2>1. Under(f) /\ WriteBlock(f) /\ UNCHANGED pc
    BY <1>2 DEF FormWrite, Under
  <2> QED BY <2>1, WriteServing
<1>3. ASSUME NEW f \in Forms, LateWrite(f) PROVE ServingInv'
  <2>1. Under(f) /\ WriteBlock(f) /\ pc' = [pc EXCEPT ![f] = "gone"]
    BY <1>3 DEF LateWrite, Under
  <2> QED BY <2>1, WriteServing
<1>4. ASSUME NEW f \in Forms, FormBroken(f) PROVE ServingInv'
  BY <1>4, BrokenServing
<1>5. ASSUME NEW f \in Forms, FormRename(f) PROVE ServingInv'
  BY <1>5, RenameServing
<1>6. CASE ResumablePublish
  BY <1>6, ResumableServing
<1>7. ASSUME NEW g \in Gets, NEW h \in Requests, GetStat(g, h) PROVE ServingInv'
  BY <1>7, StatServing
<1>8. ASSUME NEW g \in Gets, GetOpen(g) PROVE ServingInv'
  BY <1>8, OpenServing
<1>9. ASSUME NEW g \in Gets, GetRead(g) PROVE ServingInv'
  BY <1>9, ReadServing
<1>10. CASE \/ \E n \in Names : ListRow(n) \/ ListVanished(n)
            \/ ListNames
            \/ ListDone
  BY <1>10, ListingServing
<1>11. CASE UNCHANGED vars
  <2>1. UNCHANGED <<pc, handle, sent, temp, final, content, crowded, get, listing>>
    BY <1>11 DEF vars, formVars
  <2> QED BY <2>1 DEF ServingInv, TypeOK, FormsHold, NamesHold, Used, Alone, Body, Under,
                      PublicIsWhole, Public, GetsHold, Settled, Streamed, ListingHolds
<1> QED BY <1>1, <1>2, <1>3, <1>4, <1>5, <1>6, <1>7, <1>8, <1>9, <1>10, <1>11 DEF Next

(* Every variable of FileServing keeps its type: inodes, blocks, and the    *)
(* ranges downloads are answered with.                                      *)
THEOREM ServingTypes == Spec => []TypeOK
<1>1. ServingInv => TypeOK
  BY DEF ServingInv
<1> QED BY InitServing, ServingStep, <1>1, PTL DEF Spec

(* The file under the final name is one upload, whole, unless form uploads  *)
(* shared the temporary name: post_files renames only what it has copied,   *)
(* and create empties what broken uploads have left.                        *)
THEOREM PublishedIsWholeTheorem == Spec => []PublishedIsWhole
<1>1. ServingInv => PublishedIsWhole
  <2> SUFFICES ASSUME ServingInv, final \notin crowded \cup {None}
               PROVE  \E v \in Versions : content[final] = Whole(v)
    BY DEF PublishedIsWhole
  <2>1. final \in Versions \ crowded /\ Public(final)
    BY DEF ServingInv, TypeOK, Public
  <2> QED BY <2>1 DEF ServingInv, PublicIsWhole
<1> QED BY InitServing, ServingStep, <1>1, PTL DEF Spec

(* A form upload that is answered with success is the file under the final  *)
(* name at that moment, and one that had the name to itself does not fail.  *)
THEOREM AnsweredIsPublishedTheorem == Spec => AnsweredIsPublished
<1> DEFINE A == \A f \in Forms :
                  /\ pc[f] = "write" /\ pc'[f] = "done" /\ handle[f] \notin crowded
                       => content'[final'] = Whole(f)
                  /\ pc[f] # "failed" /\ pc'[f] = "failed" => handle[f] \in crowded
<1>1. ServingInv /\ [Next]_vars => [A]_vars
  <2> SUFFICES ASSUME ServingInv, Next, NEW f \in Forms
               PROVE  /\ pc[f] = "write" /\ pc'[f] = "done" /\ handle[f] \notin crowded
                           => content'[final'] = Whole(f)
                      /\ pc[f] # "failed" /\ pc'[f] = "failed" => handle[f] \in crowded
    OBVIOUS
  <2>0. pc \in [Forms -> {"idle", "write", "late", "done", "failed", "gone"}]
    BY DEF ServingInv, TypeOK
  <2>1. pc'[f] = pc[f] \/ pc'[f] \notin {"done", "failed"} \/ FormRename(f)
    BY <2>0 DEF Next, FormCreate, FormWrite, LateWrite, WriteBlock, FormBroken, FormRename,
                ResumablePublish, GetStat, GetOpen, GetRead, ListNames, ListRow,
                ListVanished, ListDone, formVars
  <2>2. CASE FormRename(f)
    <3>1. /\ Copied(f) /\ UNCHANGED content
          /\ temp = None => pc'[f] = "failed"
          /\ temp # None => pc'[f] = "done" /\ final' = temp
      BY <2>0, <2>2 DEF FormRename
    <3>2. handle[f] \notin crowded => temp # None /\ content[temp] = Whole(f)
      BY <3>1, CopiedIsWhole
    <3> QED BY <3>1, <3>2
  <2> QED BY <2>1, <2>2
<1> QED BY InitServing, ServingStep, <1>1, PTL DEF Spec, AnsweredIsPublished

(* What a finished download has received is a stretch of one upload, even   *)
(* when the file is replaced while it is read: get_path opens it once.      *)
THEOREM DownloadIsOneVersionTheorem == Spec => []DownloadIsOneVersion
<1>1. ServingInv => DownloadIsOneVersion
  <2> SUFFICES ASSUME ServingInv, NEW g \in Gets, get[g].pc = "end",
                      get[g].inode \notin crowded
               PROVE  \E v \in Versions :
                        /\ get[g].spec.start + Len(get[g].got) <= Size[v] \/ get[g].got = <<>>
                        /\ \A k \in DOMAIN get[g].got : get[g].got[k] = v
    BY DEF DownloadIsOneVersion
  <2> DEFINE d == get[g]
  <2>1. /\ d.inode \in Versions \ crowded /\ d.got \in Seq(Versions \cup {Zero})
        /\ d.got = <<>> \/ d.spec.start + Len(d.got) <= Len(content[d.inode])
        /\ \A k \in DOMAIN d.got : d.got[k] = content[d.inode][d.spec.start + k]
        /\ d.spec.start \in Nat
    BY DEF ServingInv, TypeOK, GetsHold, Streamed, RangeSpec
  <2>2. Public(d.inode)
    BY <2>1, VersionAssumption DEF Public
  <2>3. PICK v \in Versions : content[d.inode] = Whole(v)
    BY <2>1, <2>2 DEF ServingInv, PublicIsWhole
  <2>4. \A k \in 1 .. Size[v] : content[d.inode][k] = v
    BY <2>3, WholeHas
  <2>5. Len(content[d.inode]) = Size[v] /\ Size[v] \in Nat
    BY <2>3, WholeHas, SizeAssumption
  <2> HIDE DEF d
  <2>6. ASSUME NEW k \in DOMAIN d.got PROVE d.got[k] = v
    <3>1. k \in 1 .. Len(d.got) /\ d.got # <<>> /\ Len(d.got) \in Nat
      BY <2>1, <2>6
    <3>2. d.spec.start + k \in 1 .. Size[v]
      BY <3>1, <2>1, <2>5
    <3> QED BY <3>2, <2>1, <2>4
  <2>7. d.got = <<>> \/ d.spec.start + Len(d.got) <= Size[v]
    BY <2>1, <2>5
  <2> QED BY <2>6, <2>7 DEF d
<1> QED BY InitServing, ServingStep, <1>1, PTL DEF Spec

(* A download gets the range it asked for and all of it, unless the file    *)
(* was replaced between the metadata and the open; and it is refused only   *)
(* when the file has nothing of the range.                                  *)
THEOREM DownloadIsTheRangeTheorem == Spec => []DownloadIsTheRange
<1>1. ServingInv => DownloadIsTheRange
  <2> SUFFICES ASSUME ServingInv, NEW g \in Gets
               PROVE  LET d == get[g] IN
                      /\ d.pc = "end" /\ d.inode = d.seen /\ d.inode \notin crowded =>
                           {d.spec.start + k - 1 : k \in DOMAIN d.got}
                             = (IF OneRange(d.header) THEN Wanted(d.header, d.size)
                                                      ELSE 0 .. d.size - 1)
                           /\ Len(d.got) = Declared(d)
                      /\ d.pc = "refused" /\ OneRange(d.header) => Wanted(d.header, d.size) = {}
    BY DEF DownloadIsTheRange
  <2> DEFINE d == get[g]
  <2>1. /\ Settled(d) /\ Streamed(d)
        /\ d.spec \in RangeSpec /\ d.size \in Nat /\ d.got \in Seq(Versions \cup {Zero})
    BY DEF ServingInv, GetsHold, TypeOK
  <2> HIDE DEF d
  <2>2. ASSUME d.pc = "refused", OneRange(d.header)
        PROVE  Wanted(d.header, d.size) = {}
    BY <2>1, <2>2, RequestAssumption, ParseRangeTheorem DEF Settled
  <2>3. ASSUME d.pc = "end", d.inode = d.seen, d.inode \notin crowded
        PROVE  /\ {d.spec.start + k - 1 : k \in DOMAIN d.got}
                    = (IF OneRange(d.header) THEN Wanted(d.header, d.size) ELSE 0 .. d.size - 1)
               /\ Len(d.got) = Declared(d)
    <3> DEFINE n == Declared(d)
               a == d.spec.start
    <3>1. /\ n \in Nat /\ a \in Nat /\ a + n <= d.size
          /\ OneRange(d.header) => Wanted(d.header, d.size) = a .. a + n - 1
          /\ ~OneRange(d.header) => a = 0 /\ n = d.size
      BY <2>1, <2>3, DeclaredRange
    <3>2. d.inode \in Versions /\ d.size = Len(content[d.inode])
      BY <2>1, <2>3, VersionAssumption DEF Settled, Streamed
    <3>3. Len(d.got) <= n /\ (Len(d.got) >= n \/ a + Len(d.got) >= d.size)
      BY <2>1, <2>3, <3>2 DEF Streamed
    <3> HIDE DEF n, a
    <3>4. Len(d.got) = n /\ DOMAIN d.got = 1 .. n
      BY <2>1, <3>1, <3>3
    <3>5. {a + k - 1 : k \in 1 .. n} = a .. a + n - 1
      <4>1. \A k \in 1 .. n : a + k - 1 \in a .. a + n - 1
        BY <3>1
      <4>2. \A p \in a .. a + n - 1 : p - a + 1 \in 1 .. n /\ p = a + (p - a + 1) - 1
        BY <3>1
      <4> QED BY <4>1, <4>2
    <3>6. ~OneRange(d.header) => a .. a + n - 1 = 0 .. d.size - 1
      BY <3>1
    <3> QED BY <3>1, <3>4, <3>5, <3>6 DEF n, a
  <2> QED BY <2>2, <2>3 DEF d
<1> QED BY InitServing, ServingStep, <1>1, PTL DEF Spec

(* An answered listing has every entry that was there when it began and     *)
(* still is, and shows the published file with the size of a whole upload.  *)
THEOREM ListingIsCompleteTheorem == Spec => []ListingIsComplete
<1>1. ServingInv => ListingIsComplete
  BY DEF ServingInv, ListingHolds, ListingIsComplete
<1> QED BY InitServing, ServingStep, <1>1, PTL DEF Spec
=============================================================================
