----------------------------- MODULE FileServing -----------------------------
(***************************************************************************)
(* One file name of a directory as files.rs serves it: form uploads that   *)
(* stream to <name>.form-upload and rename it to <name>, a resumable       *)
(* upload that publishes under the same name, downloads, and listings.     *)
(*                                                                         *)
(* A file is a sequence of blocks, each marked with the upload it came     *)
(* from, and an inode is named after the upload that created it.  A form   *)
(* upload may be dropped or fail while a block it has handed to tokio's    *)
(* blocking pool is still to be written ("late").  The end of the process  *)
(* is the same as every request being dropped with nothing in flight.      *)
(***************************************************************************)
EXTENDS Naturals, Sequences, FiniteSets, ByteRanges

CONSTANTS
  Forms,     \* form uploads of the name
  Gets,      \* downloads of it
  Old,       \* the file that is there at the start, if Old is in Start
  Resumed,   \* a resumable upload of the name
  Size,      \* the number of blocks of each of them
  Requests,  \* the Range headers clients send
  Start,     \* what may be there at the start: Old or None
  None, Zero \* no inode; a block nobody wrote

Versions == Forms \cup {Old, Resumed}
Names    == {"temp", "final"}

ASSUME VersionAssumption ==
  /\ Old \notin Forms /\ Resumed \notin Forms /\ Old # Resumed
  /\ None \notin Versions /\ Zero \notin Versions
ASSUME SizeAssumption    == Size \in [Versions -> Nat]
ASSUME RequestAssumption == Requests \subseteq Headers
ASSUME StartAssumption   == Start \subseteq {Old, None}

VARIABLES
  pc,        \* pc[f]: progress of form upload f
  handle,    \* handle[f]: the inode it writes
  sent,      \* sent[f]: the blocks it has written
  temp, final,   \* the two directory entries
  content,   \* content[i]: the blocks of inode i
  crowded,   \* history: inodes opened while another form upload was under way
  get,       \* get[g]: a download
  listing    \* the listing of the directory

formVars == <<pc, handle, sent>>
vars     == <<formVars, temp, final, content, crowded, get, listing>>

Whole(v) == [k \in 1 .. Size[v] |-> v]

NoGet     == [pc |-> "idle", header |-> None, seen |-> None, size |-> 0,
              spec |-> Ignore, inode |-> None, got |-> <<>>]
NoListing == [pc |-> "idle", pending |-> {}, snapshot |-> {}, rows |-> {}]

TypeOK ==
  /\ pc      \in [Forms -> {"idle", "write", "late", "done", "failed", "gone"}]
  /\ handle  \in [Forms -> Forms \cup {None}]
  /\ sent    \in [Forms -> Nat]
  /\ temp    \in Forms \cup {None}
  /\ final   \in Versions \cup {None}
  /\ content \in [Versions -> Seq(Versions \cup {Zero})]
  /\ crowded \in SUBSET Versions
  /\ get     \in [Gets -> [pc : {"idle", "open", "read", "end", "missing", "refused"},
                           header : Requests \cup {None}, seen : Versions \cup {None},
                           size : Nat, spec : RangeSpec, inode : Versions \cup {None},
                           got : Seq(Versions \cup {Zero})]]
  /\ listing \in [pc : {"idle", "rows", "done", "failed"}, pending : SUBSET Names,
                  snapshot : SUBSET Names, rows : SUBSET (Names \X Nat)]

Init ==
  /\ pc = [f \in Forms |-> "idle"]
  /\ handle = [f \in Forms |-> None]
  /\ sent = [f \in Forms |-> 0]
  /\ temp = None
  /\ final \in Start
  /\ content = [v \in Versions |-> IF v = Old THEN Whole(v) ELSE <<>>]
  /\ crowded = {}
  /\ get = [g \in Gets |-> NoGet]
  /\ listing = NoListing

-----------------------------------------------------------------------------
\* The inode an entry names.
Entry(n) == IF n = "temp" THEN temp ELSE final

\* Block b written at position k; a gap below it reads as zeros.
Written(s, k, b) ==
  [j \in 1 .. (IF k > Len(s) THEN k ELSE Len(s)) |->
     IF j = k THEN b ELSE IF j <= Len(s) THEN s[j] ELSE Zero]

\* Requests, or writes of dropped requests, that are under way.
Others(f) == {h \in Forms \ {f} : pc[h] \in {"write", "late"}}

\* Mutants: an existing temporary file is written over but not cut off, or refused.
CreateKeeps(f) ==
  LET i == IF temp = None THEN f ELSE temp IN
  /\ pc[f] = "idle"
  /\ pc' = [pc EXCEPT ![f] = "write"]
  /\ handle' = [handle EXCEPT ![f] = i]
  /\ temp' = i
  /\ crowded' = IF Others(f) = {} THEN crowded \ {i} ELSE crowded \cup {i}
  /\ UNCHANGED <<sent, final, content, get, listing>>
CreateNew(f) ==
  /\ pc[f] = "idle"
  /\ IF temp = None
     THEN /\ pc' = [pc EXCEPT ![f] = "write"]
          /\ handle' = [handle EXCEPT ![f] = f]
          /\ temp' = f
          /\ crowded' = IF Others(f) = {} THEN crowded ELSE crowded \cup {f}
     ELSE pc' = [pc EXCEPT ![f] = "failed"] /\ UNCHANGED <<handle, temp, crowded>>
  /\ UNCHANGED <<sent, final, content, get, listing>>

\* File::create takes the temporary file that is there, and empties it.
FormCreate(f) ==
  LET i == IF temp = None THEN f ELSE temp IN
  /\ pc[f] = "idle"
  /\ pc' = [pc EXCEPT ![f] = "write"]
  /\ handle' = [handle EXCEPT ![f] = i]
  /\ temp' = i
  /\ content' = [content EXCEPT ![i] = <<>>]
  /\ crowded' = IF Others(f) = {} THEN crowded \ {i} ELSE crowded \cup {i}
  /\ UNCHANGED <<sent, final, get, listing>>

\* One block of the body, or the last one of a request that is gone.
WriteBlock(f) ==
  /\ sent[f] < Size[f]
  /\ content' = [content EXCEPT ![handle[f]] = Written(@, sent[f] + 1, f)]
  /\ sent' = [sent EXCEPT ![f] = @ + 1]
  /\ UNCHANGED <<handle, temp, final, crowded, get, listing>>

FormWrite(f) == pc[f] = "write" /\ WriteBlock(f) /\ UNCHANGED pc
LateWrite(f) == pc[f] = "late" /\ WriteBlock(f) /\ pc' = [pc EXCEPT ![f] = "gone"]

\* The request is dropped or its body breaks off; the temporary file stays.
FormBroken(f) ==
  /\ pc[f] = "write"
  /\ \/ pc' = [pc EXCEPT ![f] = "gone"]
     \/ sent[f] < Size[f] /\ pc' = [pc EXCEPT ![f] = "late"]
  /\ UNCHANGED <<handle, sent, temp, final, content, crowded, get, listing>>

\* tokio::io::copy has written and flushed the whole body.
Copied(f) == pc[f] = "write" /\ sent[f] = Size[f]

\* rename takes whatever the temporary name stands for by now.
FormRename(f) ==
  /\ Copied(f)
  /\ IF temp = None
     THEN pc' = [pc EXCEPT ![f] = "failed"] /\ UNCHANGED <<temp, final>>
     ELSE pc' = [pc EXCEPT ![f] = "done"] /\ final' = temp /\ temp' = None
  /\ UNCHANGED <<handle, sent, content, crowded, get, listing>>

\* The last chunk of a resumable upload of the same name is published.
ResumablePublish ==
  /\ content[Resumed] = <<>>
  /\ content' = [content EXCEPT ![Resumed] = Whole(Resumed)]
  /\ final' = Resumed
  /\ UNCHANGED <<formVars, temp, crowded, get, listing>>

-----------------------------------------------------------------------------
\* The metadata is read; the answer is settled from it and the header.
GetStat(g, h) ==
  /\ get[g].pc = "idle"
  /\ get' = [get EXCEPT ![g] =
       IF final = None THEN [@ EXCEPT !.pc = "missing", !.header = h]
       ELSE LET size == Len(content[final])
                spec == parse_range(h, size)
            IN [@ EXCEPT !.pc     = IF spec = Unsatisfiable THEN "refused" ELSE "open",
                         !.header = h, !.seen = final, !.size = size, !.spec = spec]]
  /\ UNCHANGED <<formVars, temp, final, content, crowded, listing>>

GetOpen(g) ==
  /\ get[g].pc = "open"
  /\ get' = [get EXCEPT ![g].pc = "read", ![g].inode = final]
  /\ UNCHANGED <<formVars, temp, final, content, crowded, listing>>

\* Content-Length: of the range, or of the file the metadata was read from.
Declared(d) == IF d.spec.kind = "satisfiable" THEN d.spec.end - d.spec.start + 1 ELSE d.size

\* Mutant: each block read from the file that has the name now.
ReadByName(d) == [i |-> final, at |-> d.spec.start + Len(d.got) + 1]

\* The next position of the open file that is streamed.
ReadAt(d) == [i |-> d.inode, at |-> d.spec.start + Len(d.got) + 1]

\* One block is streamed, or the file or the declared length ends (a longer
\* file is cut by take, or by hyper at Content-Length; a shorter one breaks
\* the connection).
GetRead(g) ==
  LET d == get[g]
      r == ReadAt(d)
  IN /\ d.pc = "read"
     /\ get' = [get EXCEPT ![g] =
          IF Len(d.got) < Declared(d) /\ r.at <= Len(content[r.i])
          THEN [@ EXCEPT !.got = Append(d.got, content[r.i][r.at])]
          ELSE [@ EXCEPT !.pc = "end"]]
     /\ UNCHANGED <<formVars, temp, final, content, crowded, listing>>

-----------------------------------------------------------------------------
ListNames ==
  /\ listing.pc = "idle"
  /\ LET there == {n \in Names : Entry(n) # None}
     IN listing' = [NoListing EXCEPT !.pc = "rows", !.pending = there, !.snapshot = there]
  /\ UNCHANGED <<formVars, temp, final, content, crowded, get>>

ListRow(n) ==
  /\ listing.pc = "rows"
  /\ n \in listing.pending
  /\ Entry(n) # None
  /\ listing' = [listing EXCEPT !.pending = @ \ {n},
                                !.rows = @ \cup {<<n, Len(content[Entry(n)])>>}]
  /\ UNCHANGED <<formVars, temp, final, content, crowded, get>>

\* Mutant: the collection of the rows stops quietly at the first error.
GivesUpQuietly == "done"

GivesUpAs == "failed"

\* The entry went away between read_dir and its metadata.
ListVanished(n) ==
  /\ listing.pc = "rows"
  /\ n \in listing.pending
  /\ Entry(n) = None
  /\ listing' = [listing EXCEPT !.pc = GivesUpAs]
  /\ UNCHANGED <<formVars, temp, final, content, crowded, get>>

ListDone ==
  /\ listing.pc = "rows"
  /\ listing.pending = {}
  /\ listing' = [listing EXCEPT !.pc = "done"]
  /\ UNCHANGED <<formVars, temp, final, content, crowded, get>>

-----------------------------------------------------------------------------
Next ==
  \/ \E f \in Forms : \/ FormCreate(f) \/ FormWrite(f) \/ LateWrite(f)
                      \/ FormBroken(f) \/ FormRename(f)
  \/ ResumablePublish
  \/ \E g \in Gets : GetOpen(g) \/ GetRead(g) \/ \E h \in Requests : GetStat(g, h)
  \/ \E n \in Names : ListRow(n) \/ ListVanished(n)
  \/ ListNames \/ ListDone

Spec == Init /\ [][Next]_vars
-----------------------------------------------------------------------------
\* Properties.

(* The file under the final name is one upload, whole, unless two form      *)
(* uploads (or the last write of a dropped one) shared the temporary name.  *)
(* Leftovers of broken uploads never show (create truncates, rename is last). *)
PublishedIsWhole ==
  final \notin crowded \cup {None} => \E v \in Versions : content[final] = Whole(v)

(* A form upload that is answered with success is the file under the final  *)
(* name at that moment, and one that had the name to itself does not fail,  *)
(* whatever earlier uploads have left behind.                               *)
AnsweredIsPublished ==
  [][\A f \in Forms :
       /\ pc[f] = "write" /\ pc'[f] = "done" /\ handle[f] \notin crowded
            => content'[final'] = Whole(f)
       /\ pc[f] # "failed" /\ pc'[f] = "failed" => handle[f] \in crowded]_vars

(* What a finished download has received is a stretch of one upload, even   *)
(* when the file is replaced while it is read: the inode is opened once.    *)
DownloadIsOneVersion ==
  \A g \in Gets : LET d == get[g] IN
    d.pc = "end" /\ d.inode \notin crowded =>
      \E v \in Versions : /\ d.spec.start + Len(d.got) <= Size[v] \/ d.got = <<>>
                          /\ \A k \in DOMAIN d.got : d.got[k] = v

(* The answer is the range that was asked for, and all of it, unless the    *)
(* file was replaced between the metadata and the open; a range is refused  *)
(* only when the file of the metadata has nothing of it.                    *)
DownloadIsTheRange ==
  \A g \in Gets : LET d == get[g] IN
    /\ d.pc = "end" /\ d.inode = d.seen /\ d.inode \notin crowded =>
         {d.spec.start + k - 1 : k \in DOMAIN d.got}
            = (IF OneRange(d.header) THEN Wanted(d.header, d.size) ELSE 0 .. d.size - 1)
         /\ Len(d.got) = Declared(d)
    /\ d.pc = "refused" /\ OneRange(d.header) => Wanted(d.header, d.size) = {}

(* A listing that is answered has every entry that was there when it began  *)
(* and still is, and shows the published file with the size of a whole      *)
(* upload, unless two form uploads shared the temporary name.               *)
ListingIsComplete ==
  listing.pc = "done" =>
    /\ \A n \in listing.snapshot : Entry(n) # None => n \in {row[1] : row \in listing.rows}
    /\ crowded = {} => \A row \in listing.rows :
         row[1] = "final" => \E v \in Versions : row[2] = Size[v]
=============================================================================
