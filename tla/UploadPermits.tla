----------------------------- MODULE UploadPermits -----------------------------
(***************************************************************************)
(* The upload limits of upload.rs: UploadPermits::acquire, the drop of the *)
(* permits, and the map of per-upload semaphores.                          *)
(*                                                                         *)
(* acquire runs on any worker thread, without an await; each semaphore     *)
(* operation is atomic and get_or_create_in_map runs inside a mutex.  The  *)
(* per-upload semaphores are reference counted: `arc` says who holds a     *)
(* strong reference, and an entry of the map is a weak one, which stops    *)
(* upgrading when the last strong reference is gone.  Nothing waits: what  *)
(* is not available is refused with 429.                                   *)
(***************************************************************************)
EXTENDS Naturals, FiniteSets

CONSTANTS
  Reqs,          \* the PUT requests the server may be working on
  Paths,         \* upload paths
  Sems,          \* identities of per-upload semaphores
  Lengths,       \* declared content lengths
  MaxGlobal,     \* max_active_upload_chunks
  MaxPerUpload,  \* max_active_chunks_per_upload
  MaxBytes,      \* max_active_upload_bytes
  Unit,          \* UPLOAD_BYTE_BUDGET_UNIT
  MaxPermits,    \* u32::MAX
  None           \* no path, no semaphore

ASSUME NoneAssumption == None \notin Paths \cup Sems
ASSUME NoUploadAssumption == None \notin [path : Paths, length : Lengths]
ASSUME ReqsAssumption == IsFiniteSet(Reqs)
ASSUME LengthsAssumption == Lengths \subseteq Nat
\* Config::from_env_and_cli refuses limits of zero.
ASSUME LimitsAssumption == {MaxGlobal, MaxPerUpload, MaxBytes} \subseteq Nat \ {0}
ASSUME UnitAssumption == {Unit, MaxPermits} \subseteq Nat \ {0}

VARIABLES
  pc,      \* pc[r]: what r has acquired, or what it has yet to give back
  path,    \* path[r]: the upload path of r
  length,  \* length[r]: the content length of r
  global,  \* permits left in ACTIVE_UPLOAD_CHUNKS
  budget,  \* permits left in ACTIVE_UPLOAD_BYTES
  avail,   \* avail[s]: permits left in semaphore s
  arc,     \* arc[r]: the semaphore r holds a strong reference to
  map      \* map[p]: the weak reference of ACTIVE_CHUNKS_BY_UPLOAD for p

vars == <<pc, path, length, global, budget, avail, arc, map>>

\* idle -> global -> bytes -> sem -> active -> freeUpload -> freeArc -> freeBytes,
\* and back from a refusal by way of refuseBytes and refuseGlobal.
Pcs == {"idle", "global", "bytes", "sem", "active", "freeUpload", "freeArc",
        "freeBytes", "refuseBytes", "refuseGlobal"}

-----------------------------------------------------------------------------
DivCeil(n, d) == (n + d - 1) \div d

byte_budget_permits(n) ==
  LET units == DivCeil(n, Unit)
      least == IF units < 1 THEN 1 ELSE units
  IN IF least > MaxPermits THEN MaxPermits ELSE least

\* Mutant: the budget is rounded down, and lengths up.
UnitsRoundedDown == MaxBytes \div Unit

MaxUnits == byte_budget_permits(MaxBytes)

\* Strong references to semaphore s.
Holders(s) == {r \in Reqs : arc[r] = s}

\* Mutants: a weak reference that never upgrades; or only while it is shared.
NeverLive(s)    == FALSE
LiveIfShared(s) == s # None /\ Cardinality(Holders(s)) > 1

Live(s) == s # None /\ Holders(s) # {}

\* The requests whose upload permit is out.
Using == {r \in Reqs : pc[r] \in {"active", "freeUpload"}}

TypeOK ==
  /\ pc     \in [Reqs -> Pcs]
  /\ path   \in [Reqs -> Paths \cup {None}]
  /\ length \in [Reqs -> Lengths \cup {0}]
  /\ global \in 0 .. MaxGlobal
  /\ budget \in 0 .. MaxUnits
  /\ avail  \in [Sems -> 0 .. MaxPerUpload]
  /\ arc    \in [Reqs -> Sems \cup {None}]
  /\ map    \in [Paths -> Sems \cup {None}]

Init ==
  /\ pc     = [r \in Reqs |-> "idle"]
  /\ path   = [r \in Reqs |-> None]
  /\ length = [r \in Reqs |-> 0]
  /\ global = MaxGlobal
  /\ budget = MaxUnits
  /\ avail  = [s \in Sems |-> MaxPerUpload]
  /\ arc    = [r \in Reqs |-> None]
  /\ map    = [p \in Paths |-> None]

-----------------------------------------------------------------------------
Goto(r, to) == pc' = [pc EXCEPT ![r] = to]

\* Back to idle, for the next request.
Forget(r) ==
  /\ Goto(r, "idle")
  /\ path'   = [path EXCEPT ![r] = None]
  /\ length' = [length EXCEPT ![r] = 0]

\* One of ACTIVE_UPLOAD_CHUNKS; a refusal here changes nothing.
TryGlobal(r, p, n) ==
  /\ pc[r] = "idle"
  /\ global > 0
  /\ global' = global - 1
  /\ Goto(r, "global")
  /\ path'   = [path EXCEPT ![r] = p]
  /\ length' = [length EXCEPT ![r] = n]
  /\ UNCHANGED <<budget, avail, arc, map>>

\* Mutants of TryBytes: a refusal gives back bytes it never had; one permit is
\* taken whatever the length.
TryBytesGivesBack(r) ==
  LET n == byte_budget_permits(length[r])
  IN /\ pc[r] = "global"
     /\ IF budget >= n
        THEN budget' = budget - n /\ Goto(r, "bytes")
        ELSE Goto(r, "refuseBytes") /\ UNCHANGED budget
     /\ UNCHANGED <<path, length, global, avail, arc, map>>
TryBytesOnePermit(r) ==
  /\ pc[r] = "global"
  /\ IF budget >= 1
     THEN budget' = budget - 1 /\ Goto(r, "bytes")
     ELSE Goto(r, "refuseGlobal") /\ UNCHANGED budget
  /\ UNCHANGED <<path, length, global, avail, arc, map>>

\* The byte budget.
TryBytes(r) ==
  LET n == byte_budget_permits(length[r])
  IN /\ pc[r] = "global"
     /\ IF budget >= n
        THEN budget' = budget - n /\ Goto(r, "bytes")
        ELSE Goto(r, "refuseGlobal") /\ UNCHANGED budget
     /\ UNCHANGED <<path, length, global, avail, arc, map>>

\* Mutant: dead entries of other paths are left in the map.
Unswept == map

\* map.retain(|_, weak| weak.strong_count() > 0)
Swept == [p \in Paths |-> IF Live(map[p]) THEN map[p] ELSE None]

\* get_or_create_upload_semaphore: the live semaphore of the path, or a new
\* one in a swept map.
Lookup(r) ==
  /\ pc[r] = "bytes"
  /\ IF Live(map[path[r]])
     THEN arc' = [arc EXCEPT ![r] = map[path[r]]] /\ UNCHANGED <<map, avail>>
     ELSE \E s \in Sems :
            /\ ~Live(s)
            /\ \A p \in Paths : Swept[p] # s
            /\ map'   = [Swept EXCEPT ![path[r]] = s]
            /\ avail' = [avail EXCEPT ![s] = MaxPerUpload]
            /\ arc'   = [arc EXCEPT ![r] = s]
  /\ Goto(r, "sem")
  /\ UNCHANGED <<path, length, global, budget>>

\* Mutant: a refused request forgets its byte permits.
TryUploadLeaks(r) ==
  /\ pc[r] = "sem"
  /\ IF avail[arc[r]] > 0
     THEN /\ avail' = [avail EXCEPT ![arc[r]] = @ - 1]
          /\ Goto(r, "active")
          /\ UNCHANGED arc
     ELSE /\ arc' = [arc EXCEPT ![r] = None]
          /\ Goto(r, "refuseGlobal")
          /\ UNCHANGED avail
  /\ UNCHANGED <<path, length, global, budget, map>>

\* try_acquire_owned consumes the reference: it goes into the permit, or away.
TryUpload(r) ==
  /\ pc[r] = "sem"
  /\ IF avail[arc[r]] > 0
     THEN /\ avail' = [avail EXCEPT ![arc[r]] = @ - 1]
          /\ Goto(r, "active")
          /\ UNCHANGED arc
     ELSE /\ arc' = [arc EXCEPT ![r] = None]
          /\ Goto(r, "refuseBytes")
          /\ UNCHANGED avail
  /\ UNCHANGED <<path, length, global, budget, map>>

\* A refusal drops the locals in reverse order: first the byte budget ...
RefuseBytes(r) ==
  /\ pc[r] = "refuseBytes"
  /\ budget' = budget + byte_budget_permits(length[r])
  /\ Goto(r, "refuseGlobal")
  /\ UNCHANGED <<path, length, global, avail, arc, map>>

\* ... then the global permit.
RefuseGlobal(r) ==
  /\ pc[r] = "refuseGlobal"
  /\ global' = global + 1
  /\ Forget(r)
  /\ UNCHANGED <<budget, avail, arc, map>>

\* The request ends, however it does, and UploadPermits is dropped, field by
\* field: the global permit,
FreeGlobal(r) ==
  /\ pc[r] = "active"
  /\ global' = global + 1
  /\ Goto(r, "freeUpload")
  /\ UNCHANGED <<path, length, budget, avail, arc, map>>

\* the per-upload permit,
FreeUpload(r) ==
  /\ pc[r] = "freeUpload"
  /\ avail' = [avail EXCEPT ![arc[r]] = @ + 1]
  /\ Goto(r, "freeArc")
  /\ UNCHANGED <<path, length, global, budget, arc, map>>

\* and with it the reference to its semaphore,
FreeArc(r) ==
  /\ pc[r] = "freeArc"
  /\ arc' = [arc EXCEPT ![r] = None]
  /\ Goto(r, "freeBytes")
  /\ UNCHANGED <<path, length, global, budget, avail, map>>

\* the byte budget last.
FreeBytes(r) ==
  /\ pc[r] = "freeBytes"
  /\ budget' = budget + byte_budget_permits(length[r])
  /\ Forget(r)
  /\ UNCHANGED <<global, avail, arc, map>>

Acquire(r) == TryBytes(r) \/ Lookup(r) \/ TryUpload(r)
Refuse(r)  == RefuseBytes(r) \/ RefuseGlobal(r)
Free(r)    == FreeGlobal(r) \/ FreeUpload(r) \/ FreeArc(r) \/ FreeBytes(r)

Next ==
  \E r \in Reqs :
    \/ \E p \in Paths, n \in Lengths : TryGlobal(r, p, n)
    \/ Acquire(r) \/ Refuse(r) \/ Free(r)

Spec == Init /\ [][Next]_vars

-----------------------------------------------------------------------------
\* No two strong references of one path go to different semaphores: a second
\* semaphore for a path would double its limit.
OneSemaphorePerPath ==
  \A r, s \in Reqs : arc[r] # None /\ arc[s] # None /\ path[r] = path[s]
                       => arc[r] = arc[s]

\* At most MaxPerUpload chunks of one path are being uploaded.
PerUploadLimit ==
  \A p \in Paths : Cardinality({r \in Using : path[r] = p}) <= MaxPerUpload

\* When no request is running every permit is back where it came from, and no
\* semaphore is kept alive.
NothingLeaks ==
  (\A r \in Reqs : pc[r] = "idle") =>
    /\ global = MaxGlobal
    /\ budget = MaxUnits
    /\ \A p \in Paths : ~Live(map[p])

\* A request that declares no more than the budget is refused only while another
\* one has permits or is giving them back: no leak, no stale semaphore and no
\* rounding of the budget makes the server refuse it with nothing else to do.
\* The configuration sees to it that a chunk fits the budget, but an upload that
\* an earlier process created has the chunk size of that process.
RefusedOnlyUnderLoad ==
  [][\A r \in Reqs :
       length[r] <= MaxBytes /\ pc[r] \in {"global", "sem"}
         /\ pc'[r] \in {"refuseBytes", "refuseGlobal"} =>
           \E s \in Reqs \ {r} : pc[s] # "idle"]_vars

\* The sweep bounds the map by the requests there can be, not by the paths
\* there ever were.
MapBounded ==
  Cardinality({p \in Paths : map[p] # None}) <= Cardinality(Reqs)

\* The uploads that hold all three permits, as UploadAdmission sees them.
Admitted == [r \in Reqs |-> IF pc[r] = "active"
                            THEN [path |-> path[r], length |-> length[r]]
                            ELSE None]

\* What the three limits come to: uploads enter and leave one at a time, and an
\* upload enters only when every limit has room for it.
Admission == INSTANCE UploadAdmission WITH
  Units <- byte_budget_permits, active <- Admitted

AdmissionSpec == Admission!Spec
=============================================================================
