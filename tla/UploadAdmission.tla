---------------------------- MODULE UploadAdmission ----------------------------
(***************************************************************************)
(* What the upload limits promise: the chunk uploads that are active at a  *)
(* time respect three limits, and each is admitted and leaves in one step. *)
(* The byte budget is counted in units; UploadPermits implements this.     *)
(***************************************************************************)
EXTENDS Naturals, FiniteSets

CONSTANTS Reqs, Paths, Lengths, MaxGlobal, MaxPerUpload, MaxUnits, Units(_), None

VARIABLE active   \* active[r]: the path and length r uploads, or None

Active == {r \in Reqs : active[r] # None}

\* The units that are out, one by one.
UnitsOut   == {u \in Reqs \X (1 .. MaxUnits) :
                 active[u[1]] # None /\ u[2] <= Units(active[u[1]].length)}
UnitsInUse == Cardinality(UnitsOut)

Init == active = [r \in Reqs |-> None]

Admit(r, p, n) ==
  /\ active[r] = None
  /\ Cardinality(Active) < MaxGlobal
  /\ Cardinality({s \in Active : active[s].path = p}) < MaxPerUpload
  /\ UnitsInUse + Units(n) <= MaxUnits
  /\ active' = [active EXCEPT ![r] = [path |-> p, length |-> n]]

Leave(r) ==
  /\ active[r] # None
  /\ active' = [active EXCEPT ![r] = None]

Next == \E r \in Reqs : Leave(r) \/ \E p \in Paths, n \in Lengths : Admit(r, p, n)

Spec == Init /\ [][Next]_active
=============================================================================
