-------------------------- MODULE UploadPermitsProofs --------------------------
(***************************************************************************)
(* For every number of requests, paths, semaphores and permits: a path has *)
(* one live semaphore, and so its limit holds; no permit is lost, whatever *)
(* is refused; the map stays bounded; and the three limits together        *)
(* implement UploadAdmission; and nobody is refused who is alone.          *)
(***************************************************************************)
EXTENDS UploadPermits, FiniteSetTheorems, FunctionTheorems, TLAPS

HasArc == {"sem", "active", "freeUpload", "freeArc"}

\* The requests that use a permit of semaphore s.
Users(s) == {r \in Using : arc[r] = s}

PermitTypes ==
  /\ pc    \in [Reqs -> Pcs]
  /\ path  \in [Reqs -> Paths \cup {None}]
  /\ avail \in [Sems -> 0 .. MaxPerUpload]
  /\ arc   \in [Reqs -> Sems \cup {None}]
  /\ map   \in [Paths -> Sems \cup {None}]

\* A request under way has a path, and a reference exactly from the lookup to
\* the drop.
Held ==
  \A r \in Reqs : /\ pc[r] # "idle" => path[r] \in Paths
                  /\ arc[r] # None <=> pc[r] \in HasArc

\* A semaphore that is alive is the one the map has for its path.
Mapped == \A r \in Reqs : arc[r] # None => map[path[r]] = arc[r]

\* The permits of a live semaphore are in it or in use.
Conserved ==
  \A s \in Sems : Holders(s) # {} => avail[s] + Cardinality(Users(s)) = MaxPerUpload

IInv == PermitTypes /\ Held /\ Mapped /\ Conserved
-----------------------------------------------------------------------------
LEMMA UsersFinite == \A s : IsFiniteSet(Users(s)) /\ Cardinality(Users(s)) \in Nat
  <1> SUFFICES ASSUME NEW s PROVE IsFiniteSet(Users(s)) /\ Cardinality(Users(s)) \in Nat
    OBVIOUS
  <1>1. Users(s) \in SUBSET Reqs
    BY DEF Users, Using
  <1> QED
    BY <1>1, ReqsAssumption, FS_Subset, FS_CardinalityType

LEMMA InitIInv == Init => IInv
  <1> SUFFICES ASSUME Init PROVE IInv
    OBVIOUS
  <1>1. PermitTypes
    BY LimitsAssumption DEF Init, PermitTypes, Pcs
  <1>2. Held /\ Mapped
    BY DEF Init, Held, HasArc, Mapped
  <1>3. \A s \in Sems : Holders(s) = {}
    BY NoneAssumption DEF Init, Holders
  <1> QED
    BY <1>1, <1>2, <1>3 DEF IInv, Conserved

(* Steps that leave every reference, every semaphore and the set of users    *)
(* alone cannot disturb the count.                                           *)
LEMMA ConservedKept ==
  ASSUME IInv, UNCHANGED <<arc, avail>>, Using' = Using
  PROVE  Conserved'
  <1>1. \A s : Holders(s)' = Holders(s) /\ Users(s)' = Users(s)
    BY DEF Holders, Users
  <1> QED
    BY <1>1 DEF IInv, Conserved

LEMMA TryGlobalIInv ==
  ASSUME IInv, NEW r \in Reqs, NEW p \in Paths, NEW n \in Lengths, TryGlobal(r, p, n)
  PROVE  IInv'
  <1> USE DEF IInv, TryGlobal, Goto
  <1>1. PermitTypes'
    BY DEF PermitTypes, Pcs
  <1>2. Held'
    BY DEF PermitTypes, Held, HasArc
  <1>3. arc[r] = None
    BY DEF Held, HasArc
  <1>4. Mapped'
    BY <1>3 DEF Mapped, PermitTypes
  <1>5. Using' = Using
    BY DEF Using, PermitTypes
  <1> QED
    BY <1>1, <1>2, <1>4, <1>5, ConservedKept

LEMMA LookupIInv ==
  ASSUME IInv, NEW r \in Reqs, Lookup(r)
  PROVE  IInv'
  <1> USE DEF IInv, Lookup, Goto
  <1>1. arc[r] = None /\ path[r] \in Paths
    BY DEF Held, HasArc
  <1>2. Using' = Using /\ r \notin Using
    BY DEF Using, PermitTypes
  <1>3. CASE Live(map[path[r]])
    <2> DEFINE s == map[path[r]]
    <2>1. s \in Sems /\ s # None /\ Holders(s) # {}
      BY <1>1, <1>3 DEF Live, PermitTypes
    <2>2. /\ arc' = [arc EXCEPT ![r] = s]
          /\ UNCHANGED <<map, avail, path>>
          /\ pc' = [pc EXCEPT ![r] = "sem"]
      BY <1>3
    <2>3. PermitTypes'
      BY <2>1, <2>2 DEF PermitTypes, Pcs
    <2>4. Held'
      BY <1>1, <2>1, <2>2 DEF PermitTypes, Held, HasArc
    <2>5. Mapped'
      BY <2>1, <2>2 DEF Mapped, PermitTypes
    <2>6. \A t : Users(t)' = Users(t)
      BY <1>2, <2>2 DEF Users, PermitTypes, Using
    <2>7. \A t \in Sems : Holders(t)' # {} => Holders(t) # {}
      BY <2>1, <2>2 DEF Holders, PermitTypes
    <2>8. Conserved'
      BY <2>2, <2>6, <2>7 DEF Conserved
    <2> QED
      BY <2>3, <2>4, <2>5, <2>8
  <1>4. CASE ~Live(map[path[r]])
    <2>1. PICK s \in Sems :
            /\ ~Live(s)
            /\ \A p \in Paths : Swept[p] # s
            /\ map'   = [Swept EXCEPT ![path[r]] = s]
            /\ avail' = [avail EXCEPT ![s] = MaxPerUpload]
            /\ arc'   = [arc EXCEPT ![r] = s]
      BY <1>4
    <2>2. /\ pc' = [pc EXCEPT ![r] = "sem"]
          /\ UNCHANGED path
      OBVIOUS
    <2>3. s # None /\ Holders(s) = {}
      BY <2>1, NoneAssumption DEF Live
    <2>4. Swept \in [Paths -> Sems \cup {None}]
      BY DEF Swept, PermitTypes
    <2>5. PermitTypes'
      <3>1. MaxPerUpload \in 0 .. MaxPerUpload
        BY LimitsAssumption
      <3>2. map' \in [Paths -> Sems \cup {None}]
        BY <2>1, <2>4
      <3>3. avail' \in [Sems -> 0 .. MaxPerUpload] /\ arc' \in [Reqs -> Sems \cup {None}]
        BY <2>1, <3>1 DEF PermitTypes
      <3>4. pc' \in [Reqs -> Pcs]
        BY <2>2 DEF PermitTypes, Pcs
      <3> QED
        BY <2>2, <3>2, <3>3, <3>4 DEF PermitTypes
    <2>6. Held'
      BY <1>1, <2>1, <2>2, <2>3 DEF PermitTypes, Held, HasArc
    <2>7. Mapped'
      <3> SUFFICES ASSUME NEW q \in Reqs, q # r, arc[q] # None
                   PROVE  map'[path[q]] = arc[q]
        BY <1>1, <2>1, <2>2, <2>4 DEF Mapped, PermitTypes
      <3>1. map[path[q]] = arc[q] /\ path[q] \in Paths
        BY DEF Mapped, Held, HasArc
      <3>2. Live(map[path[q]])
        BY <3>1 DEF Live, Holders
      <3>3. path[q] # path[r]
        BY <1>4, <3>2
      <3> QED
        BY <2>1, <2>4, <3>1, <3>2, <3>3 DEF Swept
    <2>8. \A t \in Sems : t # s => Holders(t)' = Holders(t)
      BY <1>1, <2>1, NoneAssumption DEF Holders, PermitTypes
    <2>9. \A t \in Sems : t # s => Users(t)' = Users(t)
      BY <1>1, <1>2, <2>1, NoneAssumption DEF Users, Using, PermitTypes
    <2>10. Users(s)' = {}
      BY <1>2, <2>1, <2>3 DEF Users, Using, Holders, PermitTypes
    <2>11. avail'[s] + Cardinality(Users(s)') = MaxPerUpload
      BY <2>1, <2>10, FS_EmptySet, LimitsAssumption DEF PermitTypes
    <2>12. Conserved'
      BY <2>1, <2>8, <2>9, <2>11 DEF Conserved, PermitTypes
    <2> QED
      BY <2>5, <2>6, <2>7, <2>12
  <1> QED
    BY <1>3, <1>4

LEMMA TryUploadIInv ==
  ASSUME IInv, NEW r \in Reqs, TryUpload(r)
  PROVE  IInv'
  <1> USE DEF IInv, TryUpload, Goto
  <1> DEFINE s == arc[r]
  <1>1. s # None /\ s \in Sems /\ path[r] \in Paths /\ r \notin Using
    BY DEF Held, HasArc, PermitTypes, Using
  <1>2. CASE avail[s] > 0
    <2>1. /\ avail' = [avail EXCEPT ![s] = @ - 1]
          /\ pc' = [pc EXCEPT ![r] = "active"]
          /\ UNCHANGED <<arc, path, map>>
      BY <1>2
    <2>2. PermitTypes'
      BY <1>1, <1>2, <2>1, LimitsAssumption DEF PermitTypes, Pcs
    <2>3. Held' /\ Mapped'
      BY <1>1, <2>1 DEF PermitTypes, Held, HasArc, Mapped
    <2>4. \A t : Holders(t)' = Holders(t)
      BY <2>1 DEF Holders
    <2>5. Users(s)' = Users(s) \cup {r} /\ r \notin Users(s)
      BY <1>1, <2>1 DEF Users, Using, PermitTypes
    <2>6. \A t : t # s => Users(t)' = Users(t)
      BY <2>1 DEF Users, Using, PermitTypes
    <2>7. Cardinality(Users(s)') = Cardinality(Users(s)) + 1
      BY <2>5, UsersFinite, FS_AddElement
    <2>8. avail[s] \in Nat /\ avail'[s] = avail[s] - 1
      BY <1>1, <2>1 DEF PermitTypes
    <2>9. Conserved'
      BY <1>1, <2>1, <2>4, <2>6, <2>7, <2>8, UsersFinite, LimitsAssumption
      DEF Conserved, PermitTypes
    <2> QED
      BY <2>2, <2>3, <2>9
  <1>3. CASE ~(avail[s] > 0)
    <2>1. /\ arc' = [arc EXCEPT ![r] = None]
          /\ pc' = [pc EXCEPT ![r] = "refuseBytes"]
          /\ UNCHANGED <<avail, path, map>>
      BY <1>3
    <2>2. PermitTypes'
      BY <2>1 DEF PermitTypes, Pcs
    <2>3. Held' /\ Mapped'
      BY <1>1, <2>1 DEF PermitTypes, Held, HasArc, Mapped
    <2>4. \A t \in Sems : Users(t)' = Users(t)
      BY <1>1, <2>1, NoneAssumption DEF Users, Using, PermitTypes
    <2>5. \A t \in Sems : Holders(t)' # {} => Holders(t) # {}
      BY <2>1, NoneAssumption DEF Holders, PermitTypes
    <2>6. Conserved'
      BY <2>1, <2>4, <2>5 DEF Conserved
    <2> QED
      BY <2>2, <2>3, <2>6
  <1> QED
    BY <1>2, <1>3

LEMMA FreeUploadIInv ==
  ASSUME IInv, NEW r \in Reqs, FreeUpload(r)
  PROVE  IInv'
  <1> USE DEF IInv, FreeUpload, Goto
  <1> DEFINE s == arc[r]
  <1>1. s # None /\ s \in Sems /\ path[r] \in Paths /\ r \in Users(s)
    BY DEF Held, HasArc, PermitTypes, Using, Users
  <1>2. Holders(s) # {}
    BY DEF Holders
  <1>3. Users(s)' = Users(s) \ {r}
    BY <1>1 DEF Users, Using, PermitTypes
  <1>4. Cardinality(Users(s)') = Cardinality(Users(s)) - 1
    BY <1>1, <1>3, UsersFinite, FS_RemoveElement
  <1>5. Cardinality(Users(s)) \in Nat /\ Cardinality(Users(s)') \in Nat
    BY <1>3, UsersFinite, FS_RemoveElement, FS_CardinalityType
  <1>6. avail[s] + Cardinality(Users(s)) = MaxPerUpload /\ avail[s] \in Nat
    BY <1>1, <1>2 DEF Conserved, PermitTypes
  <1>7. avail[s] + 1 \in 0 .. MaxPerUpload
    BY <1>4, <1>5, <1>6, LimitsAssumption
  <1>8. PermitTypes'
    BY <1>1, <1>7 DEF PermitTypes, Pcs
  <1>9. Held' /\ Mapped'
    BY <1>1 DEF PermitTypes, Held, HasArc, Mapped
  <1>10. \A t : t # s => Users(t)' = Users(t)
    BY DEF Users, Using, PermitTypes
  <1>11. \A t : Holders(t)' = Holders(t)
    BY DEF Holders
  <1>12. avail'[s] = avail[s] + 1 /\ \A t \in Sems : t # s => avail'[t] = avail[t]
    BY <1>1 DEF PermitTypes
  <1>13. Conserved'
    <2> SUFFICES ASSUME NEW t \in Sems, Holders(t) # {}
                 PROVE  avail'[t] + Cardinality(Users(t)') = MaxPerUpload
      BY <1>11 DEF Conserved
    <2>1. CASE t = s
      BY <1>4, <1>5, <1>6, <1>12, <2>1
    <2>2. CASE t # s
      BY <1>10, <1>12, <2>2 DEF Conserved
    <2> QED
      BY <2>1, <2>2
  <1> QED
    BY <1>8, <1>9, <1>13

LEMMA FreeArcIInv ==
  ASSUME IInv, NEW r \in Reqs, FreeArc(r)
  PROVE  IInv'
  <1> USE DEF IInv, FreeArc, Goto
  <1>1. PermitTypes'
    BY DEF PermitTypes, Pcs
  <1>2. Held' /\ Mapped'
    BY DEF PermitTypes, Held, HasArc, Mapped
  <1>3. \A t \in Sems : Users(t)' = Users(t)
    BY NoneAssumption DEF Users, Using, PermitTypes
  <1>4. \A t \in Sems : Holders(t)' # {} => Holders(t) # {}
    BY NoneAssumption DEF Holders, PermitTypes
  <1>5. Conserved'
    BY <1>3, <1>4 DEF Conserved
  <1> QED
    BY <1>1, <1>2, <1>5

\* The steps that only touch the global permits and the byte budget.
Others(r) == TryBytes(r) \/ Refuse(r) \/ FreeGlobal(r) \/ FreeBytes(r)

LEMMA OthersIInv ==
  ASSUME IInv, NEW r \in Reqs, Others(r)
  PROVE  IInv'
  <1> USE DEF IInv, Others, TryBytes, Refuse, RefuseBytes, RefuseGlobal,
              FreeGlobal, FreeBytes, Goto, Forget
  <1>1. UNCHANGED <<arc, avail, map>>
    OBVIOUS
  <1>2. PermitTypes'
    BY DEF PermitTypes, Pcs
  <1>3. Held'
    BY <1>1 DEF PermitTypes, Held, HasArc
  <1>4. Mapped'
    BY <1>1 DEF PermitTypes, Held, HasArc, Mapped
  <1>5. Using' = Using
    BY DEF Using, PermitTypes
  <1> QED
    BY <1>1, <1>2, <1>3, <1>4, <1>5, ConservedKept

LEMMA StepIInv == IInv /\ [Next]_vars => IInv'
  <1> SUFFICES ASSUME IInv, [Next]_vars PROVE IInv'
    OBVIOUS
  <1>1. CASE UNCHANGED vars
    BY <1>1, ConservedKept
    DEF vars, IInv, PermitTypes, Held, Mapped, Using
  <1>2. ASSUME NEW r \in Reqs, NEW p \in Paths, NEW n \in Lengths, TryGlobal(r, p, n)
        PROVE  IInv'
    BY <1>2, TryGlobalIInv
  <1>3. ASSUME NEW r \in Reqs, Acquire(r) \/ Refuse(r) \/ Free(r)
        PROVE  IInv'
    BY <1>3, LookupIInv, TryUploadIInv, FreeUploadIInv, FreeArcIInv, OthersIInv
    DEF Acquire, Free, Others
  <1> QED
    BY <1>1, <1>2, <1>3 DEF Next

LEMMA IInvAlways == Spec => []IInv
  BY InitIInv, StepIInv, PTL DEF Spec

-----------------------------------------------------------------------------
(* The strong references of one path all go to one semaphore: the Weak map   *)
(* never hands out a second one while the first is alive.                    *)
THEOREM OneSemaphorePerPathTheorem == Spec => []OneSemaphorePerPath
  <1>1. IInv => OneSemaphorePerPath
    BY DEF IInv, Mapped, OneSemaphorePerPath
  <1> QED
    BY <1>1, IInvAlways, PTL

(* No path ever has more chunks being uploaded than                          *)
(* max_active_chunks_per_upload.                                             *)
THEOREM PerUploadLimitTheorem == Spec => []PerUploadLimit
  <1>1. IInv => PerUploadLimit
    <2> SUFFICES ASSUME IInv, NEW p \in Paths
                 PROVE  Cardinality({r \in Using : path[r] = p}) <= MaxPerUpload
      BY DEF PerUploadLimit
    <2> DEFINE U == {r \in Using : path[r] = p}
    <2>1. CASE U = {}
      BY <2>1, FS_EmptySet, LimitsAssumption
    <2>2. CASE U # {}
      <3>1. PICK r \in Reqs : r \in Using /\ path[r] = p
        BY <2>2 DEF Using
      <3> DEFINE s == map[p]
      <3>2. \A q \in U : q \in Users(s)
        BY DEF IInv, Held, HasArc, Mapped, Using, Users
      <3>3. s \in Sems /\ Holders(s) # {}
        BY <3>1 DEF IInv, PermitTypes, Held, HasArc, Mapped, Using, Holders
      <3>4. Cardinality(U) <= Cardinality(Users(s))
        BY <3>2, UsersFinite, FS_Subset
      <3>5. IsFiniteSet(U)
        BY <3>2, UsersFinite, FS_Subset
      <3>6. Cardinality(U) \in Nat /\ Cardinality(Users(s)) \in Nat
        BY <3>5, UsersFinite, FS_CardinalityType
      <3>7. avail[s] \in Nat /\ avail[s] + Cardinality(Users(s)) = MaxPerUpload
        BY <3>3 DEF IInv, PermitTypes, Conserved
      <3> QED
        BY <3>4, <3>6, <3>7, LimitsAssumption
    <2> QED
      BY <2>1, <2>2
  <1> QED
    BY <1>1, IInvAlways, PTL

-----------------------------------------------------------------------------
(* The permits of the other two semaphores.  A sum over the requests is a   *)
(* recursion the provers cannot see into; the units of the byte budget that *)
(* are out are counted one by one instead, as pairs of a request and a      *)
(* number.                                                                  *)

HasGlobal == {"global", "bytes", "sem", "active", "refuseBytes", "refuseGlobal"}
HasBytes  == {"bytes", "sem", "active", "freeUpload", "freeArc", "freeBytes", "refuseBytes"}

GlobalOut == {r \in Reqs : pc[r] \in HasGlobal}

UnitsOf(r) == byte_budget_permits(length[r])
BytesOut   == {u \in Reqs \X (1 .. MaxUnits) : pc[u[1]] \in HasBytes /\ u[2] <= UnitsOf(u[1])}

CountTypes ==
  /\ length \in [Reqs -> Lengths \cup {0}]
  /\ global \in 0 .. MaxGlobal
  /\ budget \in 0 .. MaxUnits

\* No request holds more of the budget than there is.
UnitsFit == \A r \in Reqs : pc[r] \in HasBytes => UnitsOf(r) <= MaxUnits

GlobalConserved == global + Cardinality(GlobalOut) = MaxGlobal
BytesConserved  == budget + Cardinality(BytesOut) = MaxUnits

CountInv == IInv /\ CountTypes /\ UnitsFit /\ GlobalConserved /\ BytesConserved

-----------------------------------------------------------------------------
LEMMA DisjointUnion ==
  ASSUME NEW S, NEW T, IsFiniteSet(S), IsFiniteSet(T), S \cap T = {}
  PROVE  IsFiniteSet(S \cup T) /\ Cardinality(S \cup T) = Cardinality(S) + Cardinality(T)
  <1>1. Cardinality(S) \in Nat /\ Cardinality(T) \in Nat
    BY FS_CardinalityType
  <1>2. /\ IsFiniteSet(S \cup T)
        /\ Cardinality(S \cup T) = Cardinality(S) + Cardinality(T) - Cardinality(S \cap T)
    BY FS_Union
  <1>3. Cardinality(S \cap T) = 0
    BY FS_EmptySet
  <1> QED
    BY <1>1, <1>2, <1>3

\* The n units of request r.
LEMMA UnitsCounted ==
  ASSUME NEW r, NEW n \in Nat
  PROVE  IsFiniteSet({r} \X (1 .. n)) /\ Cardinality({r} \X (1 .. n)) = n
  <1>1. IsFiniteSet({r}) /\ Cardinality({r}) = 1
    BY FS_Singleton
  <1>2. IsFiniteSet(1 .. n) /\ Cardinality(1 .. n) = n
    BY FS_Interval
  <1>3. /\ IsFiniteSet({r} \X (1 .. n))
        /\ Cardinality({r} \X (1 .. n)) = Cardinality({r}) * Cardinality(1 .. n)
    BY <1>1, <1>2, FS_Product
  <1> QED
    BY <1>1, <1>2, <1>3

(* What a declared length costs: at least one unit, and a natural number.   *)
LEMMA PermitsType ==
  ASSUME NEW n \in Nat
  PROVE  byte_budget_permits(n) \in Nat \ {0}
  <1>1. DivCeil(n, Unit) \in Int
    BY UnitAssumption DEF DivCeil
  <1> QED
    BY <1>1, UnitAssumption DEF byte_budget_permits

LEMMA MaxUnitsType == MaxUnits \in Nat \ {0}
  BY PermitsType, LimitsAssumption DEF MaxUnits

LEMMA UnitsType ==
  ASSUME CountTypes, NEW r \in Reqs
  PROVE  UnitsOf(r) \in Nat \ {0}
  <1>1. length[r] \in Lengths \cup {0}
    BY DEF CountTypes
  <1>2. Lengths \subseteq Nat /\ 0 \in Nat
    BY LengthsAssumption
  <1>3. length[r] \in Nat
    BY <1>1, <1>2
  <1> QED
    BY <1>3, PermitsType DEF UnitsOf

LEMMA OutFinite ==
  /\ IsFiniteSet(GlobalOut) /\ Cardinality(GlobalOut) \in Nat
  /\ IsFiniteSet(BytesOut) /\ Cardinality(BytesOut) \in Nat
  <1>1. GlobalOut \in SUBSET Reqs
    BY DEF GlobalOut
  <1>2. IsFiniteSet(Reqs \X (1 .. MaxUnits))
    <2>1. MaxUnits \in Int
      BY MaxUnitsType
    <2>2. IsFiniteSet(1 .. MaxUnits)
      BY <2>1, FS_Interval
    <2> QED
      BY <2>2, ReqsAssumption, FS_Product
  <1>3. BytesOut \in SUBSET (Reqs \X (1 .. MaxUnits))
    BY DEF BytesOut
  <1> QED
    BY <1>1, <1>2, <1>3, ReqsAssumption, FS_Subset, FS_CardinalityType

LEMMA InitCount == Init => CountInv
  <1> SUFFICES ASSUME Init PROVE CountInv
    OBVIOUS
  <1>1. CountTypes
    BY MaxUnitsType, LimitsAssumption DEF Init, CountTypes
  <1>2. GlobalOut = {} /\ BytesOut = {}
    BY DEF Init, GlobalOut, BytesOut, HasGlobal, HasBytes
  <1>3. GlobalConserved /\ BytesConserved
    BY <1>2, FS_EmptySet, MaxUnitsType, LimitsAssumption DEF Init, GlobalConserved, BytesConserved
  <1>4. UnitsFit
    BY DEF Init, UnitsFit, HasBytes
  <1> QED
    BY <1>1, <1>3, <1>4, InitIInv DEF CountInv

\* Steps that take or give back no global permit.
LEMMA KeepsGlobal ==
  ASSUME GlobalConserved, global' = global,
         \A r \in Reqs : pc'[r] \in HasGlobal <=> pc[r] \in HasGlobal
  PROVE  GlobalConserved'
  <1>1. GlobalOut' = GlobalOut
    BY DEF GlobalOut
  <1> QED
    BY <1>1 DEF GlobalConserved

LEMMA KeepsBytes ==
  ASSUME UnitsFit, BytesConserved, budget' = budget,
         \A r \in Reqs : /\ pc'[r] \in HasBytes <=> pc[r] \in HasBytes
                         /\ pc[r] \in HasBytes => length'[r] = length[r]
  PROVE  UnitsFit' /\ BytesConserved'
  <1>1. BytesOut' = BytesOut
    BY DEF BytesOut, UnitsOf
  <1> QED
    BY <1>1 DEF BytesConserved, UnitsFit, UnitsOf

\* One global permit goes to r, or comes back from it.
LEMMA MovesGlobal ==
  ASSUME CountTypes, GlobalConserved, NEW r \in Reqs,
         \A q \in Reqs \ {r} : pc'[q] \in HasGlobal <=> pc[q] \in HasGlobal,
         \/ /\ global > 0 /\ global' = global - 1
            /\ pc[r] \notin HasGlobal /\ pc'[r] \in HasGlobal
         \/ /\ global' = global + 1
            /\ pc[r] \in HasGlobal /\ pc'[r] \notin HasGlobal
  PROVE  GlobalConserved' /\ global' \in 0 .. MaxGlobal
  <1>1. global \in Nat /\ MaxGlobal \in Nat
    BY LimitsAssumption DEF CountTypes
  <1>2. Cardinality(GlobalOut') \in Nat
    <2>1. GlobalOut' \in SUBSET Reqs
      BY DEF GlobalOut
    <2> QED
      BY <2>1, ReqsAssumption, FS_Subset, FS_CardinalityType
  <1>3. CASE global' = global - 1 /\ global > 0 /\ pc[r] \notin HasGlobal /\ pc'[r] \in HasGlobal
    <2>1. GlobalOut' = GlobalOut \cup {r} /\ r \notin GlobalOut
      BY <1>3 DEF GlobalOut
    <2>2. Cardinality(GlobalOut') = Cardinality(GlobalOut) + 1
      BY <2>1, OutFinite, FS_AddElement
    <2> QED
      BY <1>1, <1>3, <2>2, OutFinite DEF GlobalConserved, CountTypes
  <1>4. CASE global' = global + 1 /\ pc[r] \in HasGlobal /\ pc'[r] \notin HasGlobal
    <2>1. GlobalOut' = GlobalOut \ {r} /\ r \in GlobalOut
      BY <1>4 DEF GlobalOut
    <2>2. Cardinality(GlobalOut') = Cardinality(GlobalOut) - 1
      BY <2>1, OutFinite, FS_RemoveElement
    <2> QED
      BY <1>1, <1>2, <1>4, <2>2, OutFinite DEF GlobalConserved, CountTypes
  <1> QED
    BY <1>3, <1>4

\* The units of r go out, or come back.
LEMMA MovesBytes ==
  ASSUME CountTypes, UnitsFit, BytesConserved, NEW r \in Reqs,
         \A q \in Reqs \ {r} : /\ pc'[q] \in HasBytes <=> pc[q] \in HasBytes
                               /\ length'[q] = length[q],
         \/ /\ budget >= UnitsOf(r) /\ budget' = budget - UnitsOf(r) /\ length'[r] = length[r]
            /\ pc[r] \notin HasBytes /\ pc'[r] \in HasBytes
         \/ /\ budget' = budget + UnitsOf(r)
            /\ pc[r] \in HasBytes /\ pc'[r] \notin HasBytes
  PROVE  UnitsFit' /\ BytesConserved' /\ budget' \in 0 .. MaxUnits
  <1> DEFINE n == UnitsOf(r)
             R == {r} \X (1 .. n)
  <1>1. n \in Nat \ {0} /\ MaxUnits \in Nat /\ budget \in Nat /\ budget <= MaxUnits
    BY UnitsType, MaxUnitsType DEF CountTypes
  <1>2. IsFiniteSet(R) /\ Cardinality(R) = n
    BY <1>1, UnitsCounted
  <1>3. CASE /\ budget >= UnitsOf(r) /\ budget' = budget - UnitsOf(r) /\ length'[r] = length[r]
             /\ pc[r] \notin HasBytes /\ pc'[r] \in HasBytes
    <2>1. n <= MaxUnits
      BY <1>1, <1>3
    <2>2. \A q \in Reqs : UnitsOf(q)' = UnitsOf(q)
      BY <1>3 DEF UnitsOf
    <2>3. \A u : u \in R <=> u \in Reqs \X (1 .. MaxUnits) /\ u[1] = r /\ u[2] <= n
      BY <1>1, <2>1
    <2>4. BytesOut' = BytesOut \cup R /\ BytesOut \cap R = {}
      <3> HIDE DEF R, n
      <3>1. \A u \in Reqs \X (1 .. MaxUnits) : u \in BytesOut' <=> u \in BytesOut \/ u \in R
        BY <1>3, <2>2, <2>3 DEF BytesOut, n
      <3>2. BytesOut' \subseteq Reqs \X (1 .. MaxUnits) /\ R \subseteq Reqs \X (1 .. MaxUnits)
            /\ BytesOut \subseteq Reqs \X (1 .. MaxUnits)
        BY <2>3 DEF BytesOut
      <3>3. \A u \in R : u \notin BytesOut
        BY <1>3, <2>3 DEF BytesOut
      <3> QED
        BY <3>1, <3>2, <3>3
    <2>5. Cardinality(BytesOut') = Cardinality(BytesOut) + n
      <3> HIDE DEF R, n
      <3> QED
        BY <1>2, <2>4, OutFinite, DisjointUnion
    <2>6. UnitsFit'
      BY <1>3, <2>1, <2>2 DEF UnitsFit
    <2> QED
      BY <1>1, <1>3, <2>5, <2>6, OutFinite DEF BytesConserved
  <1>4. CASE /\ budget' = budget + UnitsOf(r)
             /\ pc[r] \in HasBytes /\ pc'[r] \notin HasBytes
    <2>1. n <= MaxUnits
      BY <1>4 DEF UnitsFit
    <2>2. \A q \in Reqs \ {r} : UnitsOf(q)' = UnitsOf(q)
      BY <1>4 DEF UnitsOf
    <2>3. \A u : u \in R <=> u \in Reqs \X (1 .. MaxUnits) /\ u[1] = r /\ u[2] <= n
      BY <1>1, <2>1
    <2>4. BytesOut = BytesOut' \cup R /\ BytesOut' \cap R = {}
      <3> HIDE DEF R, n
      <3>1. \A u \in Reqs \X (1 .. MaxUnits) : u \in BytesOut <=> u \in BytesOut' \/ u \in R
        BY <1>4, <2>2, <2>3 DEF BytesOut, n
      <3>2. BytesOut' \subseteq Reqs \X (1 .. MaxUnits) /\ R \subseteq Reqs \X (1 .. MaxUnits)
            /\ BytesOut \subseteq Reqs \X (1 .. MaxUnits)
        BY <2>3 DEF BytesOut
      <3>3. \A u \in R : u \notin BytesOut'
        BY <1>4, <2>3 DEF BytesOut
      <3> QED
        BY <3>1, <3>2, <3>3
    <2>5. IsFiniteSet(BytesOut')
      <3> HIDE DEF R
      <3>1. BytesOut' \in SUBSET BytesOut
        BY <2>4
      <3> QED
        BY <3>1, OutFinite, FS_Subset
    <2>6. Cardinality(BytesOut) = Cardinality(BytesOut') + n /\ Cardinality(BytesOut') \in Nat
      <3> HIDE DEF R, n
      <3> QED
        BY <1>2, <2>4, <2>5, DisjointUnion, FS_CardinalityType
    <2>7. UnitsFit'
      BY <1>4, <2>2 DEF UnitsFit
    <2> QED
      BY <1>1, <1>4, <2>6, <2>7, OutFinite DEF BytesConserved
  <1> QED
    BY <1>3, <1>4

-----------------------------------------------------------------------------
\* The steps that move a global permit.
LEMMA TryGlobalCount ==
  ASSUME CountInv, NEW r \in Reqs, NEW p \in Paths, NEW n \in Lengths, TryGlobal(r, p, n)
  PROVE  CountInv'
  <1> USE DEF CountInv, IInv, TryGlobal, Goto
  <1>1. pc' = [pc EXCEPT ![r] = "global"] /\ length' = [length EXCEPT ![r] = n]
    OBVIOUS
  <1>2. GlobalConserved' /\ global' \in 0 .. MaxGlobal
    BY MovesGlobal DEF PermitTypes, HasGlobal
  <1>3. UnitsFit' /\ BytesConserved'
    BY KeepsBytes DEF PermitTypes, HasBytes, CountTypes
  <1>4. CountTypes'
    BY <1>1, <1>2 DEF CountTypes
  <1> QED
    BY <1>2, <1>3, <1>4, TryGlobalIInv

LEMMA RefuseGlobalCount ==
  ASSUME CountInv, NEW r \in Reqs, RefuseGlobal(r)
  PROVE  CountInv'
  <1> USE DEF CountInv, IInv, RefuseGlobal, Forget, Goto
  <1>1. pc' = [pc EXCEPT ![r] = "idle"] /\ length' = [length EXCEPT ![r] = 0]
    OBVIOUS
  <1>2. GlobalConserved' /\ global' \in 0 .. MaxGlobal
    BY MovesGlobal DEF PermitTypes, HasGlobal
  <1>3. UnitsFit' /\ BytesConserved'
    BY KeepsBytes DEF PermitTypes, HasBytes, CountTypes
  <1>4. CountTypes'
    BY <1>1, <1>2 DEF CountTypes
  <1> QED
    BY <1>2, <1>3, <1>4, OthersIInv DEF Others, Refuse

LEMMA FreeGlobalCount ==
  ASSUME CountInv, NEW r \in Reqs, FreeGlobal(r)
  PROVE  CountInv'
  <1> USE DEF CountInv, IInv, FreeGlobal, Goto
  <1>1. GlobalConserved' /\ global' \in 0 .. MaxGlobal
    BY MovesGlobal DEF PermitTypes, HasGlobal
  <1>2. UnitsFit' /\ BytesConserved'
    BY KeepsBytes DEF PermitTypes, HasBytes
  <1>3. CountTypes'
    BY <1>1 DEF CountTypes
  <1> QED
    BY <1>1, <1>2, <1>3, OthersIInv DEF Others

\* The steps that move units of the byte budget.
LEMMA TryBytesCount ==
  ASSUME CountInv, NEW r \in Reqs, TryBytes(r)
  PROVE  CountInv'
  <1> USE DEF CountInv, IInv, TryBytes, Goto
  <1>1. IInv'
    BY OthersIInv DEF Others
  <1>2. GlobalConserved'
    BY KeepsGlobal DEF PermitTypes, HasGlobal
  <1>3. CASE budget >= UnitsOf(r)
    <2>1. pc' = [pc EXCEPT ![r] = "bytes"] /\ budget' = budget - UnitsOf(r)
      BY <1>3 DEF UnitsOf
    <2>2. UnitsFit' /\ BytesConserved' /\ budget' \in 0 .. MaxUnits
      BY <1>3, <2>1, MovesBytes DEF PermitTypes, HasBytes
    <2>3. CountTypes'
      BY <2>2 DEF CountTypes
    <2> QED
      BY <1>1, <1>2, <2>2, <2>3
  <1>4. CASE ~(budget >= UnitsOf(r))
    <2>1. pc' = [pc EXCEPT ![r] = "refuseGlobal"] /\ budget' = budget
      BY <1>4 DEF UnitsOf
    <2>2. UnitsFit' /\ BytesConserved'
      BY <2>1, KeepsBytes DEF PermitTypes, HasBytes
    <2>3. CountTypes'
      BY <2>1 DEF CountTypes
    <2> QED
      BY <1>1, <1>2, <2>2, <2>3
  <1> QED
    BY <1>3, <1>4

LEMMA RefuseBytesCount ==
  ASSUME CountInv, NEW r \in Reqs, RefuseBytes(r)
  PROVE  CountInv'
  <1> USE DEF CountInv, IInv, RefuseBytes, Goto
  <1>1. budget' = budget + UnitsOf(r)
    BY DEF UnitsOf
  <1>2. GlobalConserved'
    BY KeepsGlobal DEF PermitTypes, HasGlobal
  <1>3. UnitsFit' /\ BytesConserved' /\ budget' \in 0 .. MaxUnits
    BY <1>1, MovesBytes DEF PermitTypes, HasBytes
  <1>4. CountTypes'
    BY <1>3 DEF CountTypes
  <1> QED
    BY <1>2, <1>3, <1>4, OthersIInv DEF Others, Refuse

LEMMA FreeBytesCount ==
  ASSUME CountInv, NEW r \in Reqs, FreeBytes(r)
  PROVE  CountInv'
  <1> USE DEF CountInv, IInv, FreeBytes, Forget, Goto
  <1>1. budget' = budget + UnitsOf(r) /\ length' = [length EXCEPT ![r] = 0]
    BY DEF UnitsOf
  <1>2. GlobalConserved'
    BY KeepsGlobal DEF PermitTypes, HasGlobal
  <1>3. UnitsFit' /\ BytesConserved' /\ budget' \in 0 .. MaxUnits
    BY <1>1, MovesBytes DEF PermitTypes, HasBytes, CountTypes
  <1>4. CountTypes'
    BY <1>1, <1>3 DEF CountTypes
  <1> QED
    BY <1>2, <1>3, <1>4, OthersIInv DEF Others

\* The steps of the per-upload semaphores move neither.
ByPath(r) == Lookup(r) \/ TryUpload(r) \/ FreeUpload(r) \/ FreeArc(r)

LEMMA ByPathCount ==
  ASSUME CountInv, NEW r \in Reqs, ByPath(r)
  PROVE  CountInv'
  <1> USE DEF CountInv, IInv
  <1>1. UNCHANGED <<length, global, budget>>
    BY DEF ByPath, Lookup, TryUpload, FreeUpload, FreeArc
  <1>2. \A q \in Reqs : /\ pc'[q] \in HasGlobal <=> pc[q] \in HasGlobal
                        /\ pc'[q] \in HasBytes <=> pc[q] \in HasBytes
    BY DEF ByPath, Lookup, TryUpload, FreeUpload, FreeArc, Goto, PermitTypes, HasGlobal, HasBytes
  <1>3. GlobalConserved' /\ UnitsFit' /\ BytesConserved'
    BY <1>1, <1>2, KeepsGlobal, KeepsBytes
  <1>4. CountTypes'
    BY <1>1 DEF CountTypes
  <1>5. IInv'
    BY LookupIInv, TryUploadIInv, FreeUploadIInv, FreeArcIInv DEF ByPath
  <1> QED
    BY <1>3, <1>4, <1>5

LEMMA StepCount == CountInv /\ [Next]_vars => CountInv'
  <1> SUFFICES ASSUME CountInv, [Next]_vars PROVE CountInv'
    OBVIOUS
  <1>1. CASE UNCHANGED vars
    <2>1. IInv'
      BY <1>1, StepIInv DEF CountInv
    <2>2. CountTypes' /\ GlobalConserved' /\ UnitsFit' /\ BytesConserved'
      BY <1>1, KeepsGlobal, KeepsBytes DEF vars, CountInv, CountTypes
    <2> QED
      BY <2>1, <2>2 DEF CountInv
  <1>2. ASSUME NEW r \in Reqs, NEW p \in Paths, NEW n \in Lengths, TryGlobal(r, p, n)
        PROVE  CountInv'
    BY <1>2, TryGlobalCount
  <1>3. ASSUME NEW r \in Reqs, Acquire(r) \/ Refuse(r) \/ Free(r)
        PROVE  CountInv'
    BY <1>3, ByPathCount, TryBytesCount, RefuseBytesCount, RefuseGlobalCount,
       FreeGlobalCount, FreeBytesCount
    DEF Acquire, Refuse, Free, ByPath
  <1> QED
    BY <1>1, <1>2, <1>3 DEF Next

LEMMA CountInvAlways == Spec => []CountInv
  BY InitCount, StepCount, PTL DEF Spec

(* Every variable has its type; above all no semaphore ever holds more       *)
(* permits than it was made with, whatever is refused and in whatever order  *)
(* the permits come back.                                                    *)
THEOREM PermitsTypes == Spec => []TypeOK
  <1>1. CountInv => TypeOK
    BY DEF CountInv, CountTypes, IInv, PermitTypes, TypeOK
  <1> QED
    BY <1>1, CountInvAlways, PTL

(* When nothing runs, every permit is back and no semaphore is alive.        *)
THEOREM NothingLeaksTheorem == Spec => []NothingLeaks
  <1>1. CountInv => NothingLeaks
    <2> SUFFICES ASSUME CountInv, \A r \in Reqs : pc[r] = "idle"
                 PROVE  /\ global = MaxGlobal
                        /\ budget = MaxUnits
                        /\ \A p \in Paths : ~Live(map[p])
      BY DEF NothingLeaks
    <2>1. GlobalOut = {} /\ BytesOut = {}
      BY DEF GlobalOut, BytesOut, HasGlobal, HasBytes
    <2>2. global = MaxGlobal /\ budget = MaxUnits
      BY <2>1, FS_EmptySet, LimitsAssumption, MaxUnitsType
      DEF CountInv, CountTypes, GlobalConserved, BytesConserved
    <2>3. \A r \in Reqs : arc[r] = None
      BY DEF CountInv, IInv, Held, HasArc
    <2>4. \A p \in Paths : ~Live(map[p])
      BY <2>3 DEF Live, Holders
    <2> QED
      BY <2>2, <2>4
  <1> QED
    BY <1>1, CountInvAlways, PTL

-----------------------------------------------------------------------------
(* The map has an entry for no path that never had a request since the last  *)
(* sweep: no semaphore stands for two paths, and after a sweep every entry   *)
(* is the one of some request's path.                                        *)
MapInjective ==
  \A p, q \in Paths : map[p] # None /\ map[p] = map[q] => p = q

MapInv == IInv /\ MapInjective /\ MapBounded

Entries == {p \in Paths : map[p] # None}

LEMMA LookupMap ==
  ASSUME MapInv, NEW r \in Reqs, Lookup(r), ~Live(map[path[r]])
  PROVE  MapInjective' /\ MapBounded'
  <1>1. path[r] \in Paths
    BY DEF MapInv, IInv, Held, Lookup
  <1>2. PICK s \in Sems : /\ \A p \in Paths : Swept[p] # s
                          /\ map' = [Swept EXCEPT ![path[r]] = s]
    BY DEF Lookup
  <1>3. /\ map'[path[r]] = s
        /\ \A p \in Paths : p # path[r] =>
             /\ map'[p] # s
             /\ map'[p] # None => map'[p] = map[p] /\ Live(map[p])
    BY <1>1, <1>2 DEF Swept
  <1>4. MapInjective'
    <2> SUFFICES ASSUME NEW p \in Paths, NEW q \in Paths, map'[p] # None, map'[p] = map'[q]
                 PROVE  p = q
      BY DEF MapInjective
    <2>1. CASE p # path[r] /\ q # path[r]
      BY <1>3, <2>1 DEF MapInv, MapInjective
    <2>2. CASE p = path[r] \/ q = path[r]
      BY <1>3, <2>2
    <2> QED
      BY <2>1, <2>2
  <1>5. \A p \in Entries' : \E q \in Reqs : path[q] = p
    <2> SUFFICES ASSUME NEW p \in Paths, map'[p] # None, p # path[r]
                 PROVE  \E q \in Reqs : path[q] = p
      BY DEF Entries
    <2>1. map'[p] = map[p] /\ Live(map[p])
      BY <1>3
    <2>2. PICK q \in Reqs : arc[q] = map[p] /\ arc[q] # None
      BY <2>1 DEF Live, Holders
    <2>3. path[q] \in Paths /\ map[path[q]] = map[p]
      BY <2>2 DEF MapInv, IInv, Held, HasArc, Mapped
    <2> QED
      BY <2>1, <2>2, <2>3 DEF MapInv, MapInjective
  <1>6. MapBounded'
    <2> DEFINE Q == {q \in Reqs : path[q] \in Entries'}
               f == [q \in Q |-> path[q]]
    <2>1. f \in Surjection(Q, Entries')
      BY <1>5, Fun_IsSurj
    <2>2. IsFiniteSet(Q) /\ Cardinality(Q) <= Cardinality(Reqs)
      BY ReqsAssumption, FS_Subset
    <2>3. IsFiniteSet(Entries') /\ Cardinality(Entries') <= Cardinality(Q)
      BY <2>1, <2>2, FS_Surjection
    <2>4. Cardinality(Entries') <= Cardinality(Reqs)
      BY <2>2, <2>3, ReqsAssumption, FS_CardinalityType
    <2> QED
      BY <2>4 DEF MapBounded, Entries
  <1> QED
    BY <1>4, <1>6

LEMMA StepMap == MapInv /\ [Next]_vars => MapInv'
  <1> SUFFICES ASSUME MapInv, [Next]_vars PROVE MapInv'
    OBVIOUS
  <1>1. IInv'
    BY StepIInv DEF MapInv
  <1>2. CASE map' = map
    BY <1>1, <1>2 DEF MapInv, MapInjective, MapBounded
  <1>3. CASE \E r \in Reqs : Lookup(r) /\ ~Live(map[path[r]])
    BY <1>1, <1>3, LookupMap DEF MapInv
  <1>4. map' = map \/ \E r \in Reqs : Lookup(r) /\ ~Live(map[path[r]])
    BY DEF vars, Next, TryGlobal, Acquire, TryBytes, Lookup, TryUpload, Refuse, RefuseBytes,
           RefuseGlobal, Free, FreeGlobal, FreeUpload, FreeArc, FreeBytes
  <1> QED
    BY <1>2, <1>3, <1>4

(* The map never has more entries than there can be requests, however many   *)
(* paths are uploaded to.                                                    *)
THEOREM MapBoundedTheorem == Spec => []MapBounded
  <1>1. Init => MapInv
    <2> SUFFICES ASSUME Init PROVE MapInjective /\ MapBounded
      BY InitIInv DEF MapInv
    <2>1. {p \in Paths : map[p] # None} = {}
      BY DEF Init
    <2>2. Cardinality({p \in Paths : map[p] # None}) = 0
      BY <2>1, FS_EmptySet
    <2>3. Cardinality(Reqs) \in Nat
      BY ReqsAssumption, FS_CardinalityType
    <2>4. MapBounded
      BY <2>2, <2>3 DEF MapBounded
    <2> QED
      BY <2>4 DEF Init, MapInjective
  <1>2. MapInv => MapBounded
    BY DEF MapInv
  <1> QED
    BY <1>1, <1>2, StepMap, PTL DEF Spec

-----------------------------------------------------------------------------
(* The three limits together: UploadPermits implements UploadAdmission.      *)

Uploads == {r \in Reqs : pc[r] = "active"}

Declared == \A r \in Reqs : pc[r] # "idle" => length[r] \in Lengths

AdmissionInv == CountInv /\ Declared

LEMMA StepDeclared == AdmissionInv /\ [Next]_vars => AdmissionInv'
  <1> SUFFICES ASSUME AdmissionInv, [Next]_vars PROVE Declared'
    BY StepCount DEF AdmissionInv
  <1> USE DEF AdmissionInv, CountInv, IInv, PermitTypes, CountTypes, Declared
  <1>1. CASE UNCHANGED vars
    BY <1>1 DEF vars
  <1>2. ASSUME NEW r \in Reqs, NEW p \in Paths, NEW n \in Lengths, TryGlobal(r, p, n)
        PROVE  Declared'
    BY <1>2 DEF TryGlobal, Goto
  <1>3. ASSUME NEW r \in Reqs, Acquire(r) \/ RefuseBytes(r) \/ FreeGlobal(r) \/ FreeUpload(r) \/ FreeArc(r)
        PROVE  Declared'
    BY <1>3 DEF Acquire, TryBytes, Lookup, TryUpload, RefuseBytes, FreeGlobal, FreeUpload,
                FreeArc, Goto
  <1>4. ASSUME NEW r \in Reqs, RefuseGlobal(r) \/ FreeBytes(r)
        PROVE  Declared'
    BY <1>4 DEF RefuseGlobal, FreeBytes, Forget, Goto
  <1> QED
    BY <1>1, <1>2, <1>3, <1>4 DEF Next, Refuse, Free

LEMMA AdmittedAreUploads ==
  ASSUME AdmissionInv
  PROVE  /\ \A r \in Reqs : Admitted[r] # None <=> r \in Uploads
         /\ \A r \in Uploads : Admitted[r].path = path[r] /\ Admitted[r].length = length[r]
  <1>1. ASSUME NEW r \in Uploads PROVE [path |-> path[r], length |-> length[r]] # None
    <2>1. path[r] \in Paths /\ length[r] \in Lengths
      BY DEF Uploads, AdmissionInv, CountInv, IInv, Held, Declared
    <2> QED
      BY <2>1, NoUploadAssumption
  <1> QED
    BY <1>1 DEF Admitted, Uploads

LEMMA SameCardinality == \A S : Admission!Cardinality(S) = Cardinality(S)
  BY DEF Admission!Cardinality, Cardinality

(* An upload is admitted under every limit.                                  *)
LEMMA TryUploadAdmits ==
  ASSUME AdmissionInv, NEW r \in Reqs, TryUpload(r), avail[arc[r]] > 0,
         NEW p \in Paths, NEW n \in Lengths, p = path[r], n = length[r]
  PROVE  Admission!Admit(r, p, n)
  <1> USE DEF AdmissionInv, CountInv, IInv
  <1> DEFINE s == arc[r]
  <1>1. /\ pc[r] = "sem" /\ pc' = [pc EXCEPT ![r] = "active"]
        /\ UNCHANGED <<path, length>>
        /\ r \notin Uploads
    BY DEF TryUpload, Goto, Uploads
  <1>2. s \in Sems /\ s # None /\ path[r] \in Paths /\ length[r] \in Lengths
    BY <1>1 DEF Held, HasArc, PermitTypes, Declared
  <1>3. Admission!Active = Uploads
    BY AdmittedAreUploads DEF Admission!Active, Admitted, Uploads
  <1>4. Cardinality(Uploads) < MaxGlobal
    <2>1. Uploads \cup {r} \in SUBSET GlobalOut
      BY <1>1 DEF Uploads, GlobalOut, HasGlobal
    <2>2. IsFiniteSet(Uploads \cup {r}) /\ Cardinality(Uploads \cup {r}) <= Cardinality(GlobalOut)
      BY <2>1, OutFinite, FS_Subset
    <2>3. IsFiniteSet(Uploads)
      BY <2>2, FS_Subset
    <2>4. Cardinality(Uploads \cup {r}) = Cardinality(Uploads) + 1
      BY <1>1, <2>3, FS_AddElement
    <2>5. Cardinality(Uploads) \in Nat /\ global \in Nat
      BY <2>3, FS_CardinalityType DEF CountTypes
    <2> QED
      BY <2>2, <2>4, <2>5, OutFinite, LimitsAssumption DEF GlobalConserved
  <1>5. Cardinality({q \in Uploads : path[q] = path[r]}) < MaxPerUpload
    <2> DEFINE U == {q \in Uploads : path[q] = path[r]}
    <2>1. U \in SUBSET Users(s)
      BY <1>1, <1>2 DEF Uploads, Users, Using, Held, HasArc, Mapped
    <2>2. IsFiniteSet(U) /\ Cardinality(U) <= Cardinality(Users(s))
      BY <2>1, UsersFinite, FS_Subset
    <2>3. Cardinality(U) \in Nat
      BY <2>2, FS_CardinalityType
    <2>4. avail[s] + Cardinality(Users(s)) = MaxPerUpload /\ avail[s] \in Nat
      BY <1>2 DEF Conserved, Holders, PermitTypes
    <2> QED
      BY <2>2, <2>3, <2>4, UsersFinite
  <1>6. Admission!UnitsInUse + byte_budget_permits(length[r]) <= MaxUnits
    <2> DEFINE O == {u \in Reqs \X (1 .. MaxUnits) : u[1] \in Uploads /\ u[2] <= UnitsOf(u[1])}
               k == UnitsOf(r)
               R == {r} \X (1 .. k)
    <2>1. Admission!UnitsOut = O
      BY AdmittedAreUploads DEF Admission!UnitsOut, Admitted, UnitsOf, Uploads
    <2>2. k \in Nat \ {0} /\ k <= MaxUnits /\ MaxUnits \in Nat
      BY <1>1, UnitsType, MaxUnitsType DEF UnitsFit, HasBytes
    <2>3. IsFiniteSet(R) /\ Cardinality(R) = k
      BY <2>2, UnitsCounted
    <2>4. O \cup R \in SUBSET BytesOut
      <3>1. O \subseteq BytesOut
        BY DEF BytesOut, Uploads, HasBytes
      <3>2. R \subseteq BytesOut
        BY <1>1, <2>2 DEF BytesOut, HasBytes
      <3> QED
        BY <3>1, <3>2
    <2>5. O \cap R = {}
      BY <1>1
    <2> HIDE DEF O, R, k
    <2>6. IsFiniteSet(O \cup R) /\ Cardinality(O \cup R) <= Cardinality(BytesOut)
      BY <2>4, OutFinite, FS_Subset
    <2>7. IsFiniteSet(O)
      BY <2>6, FS_Subset
    <2>8. Cardinality(O \cup R) = Cardinality(O) + k /\ Cardinality(O) \in Nat
      BY <2>3, <2>5, <2>7, DisjointUnion, FS_CardinalityType
    <2>9. Cardinality(O) + k <= MaxUnits
      BY <2>2, <2>6, <2>8, OutFinite DEF BytesConserved, CountTypes
    <2> QED
      BY <2>1, <2>9, SameCardinality DEF Admission!UnitsInUse, k, UnitsOf
  <1>7. Admitted' = [Admitted EXCEPT ![r] = [path |-> path[r], length |-> length[r]]]
    BY <1>1 DEF Admitted, Uploads, PermitTypes
  <1>8. {q \in Admission!Active : Admitted[q].path = path[r]} = {q \in Uploads : path[q] = path[r]}
    BY <1>3, AdmittedAreUploads
  <1> QED
    BY <1>1, <1>3, <1>4, <1>5, <1>6, <1>7, <1>8, SameCardinality
    DEF Admission!Admit, Admitted, Uploads

(* Every other step leaves the uploads alone, except the first step of a     *)
(* drop, with which an upload leaves.                                        *)
LEMMA StepAdmission ==
  ASSUME AdmissionInv, [Next]_vars
  PROVE  [Admission!Next]_Admitted
  <1> USE DEF AdmissionInv, CountInv, IInv
  <1>1. CASE UNCHANGED vars
    BY <1>1 DEF vars, Admitted, Uploads
  <1>2. ASSUME NEW r \in Reqs, FreeGlobal(r) PROVE Admission!Leave(r)
    <2>1. Admitted' = [Admitted EXCEPT ![r] = None]
      BY <1>2 DEF FreeGlobal, Goto, Admitted, Uploads, PermitTypes
    <2>2. Admitted[r] # None
      BY <1>2, AdmittedAreUploads DEF FreeGlobal, Uploads
    <2> QED
      BY <2>1, <2>2 DEF Admission!Leave, Admitted, Uploads
  <1>3. ASSUME NEW r \in Reqs, TryUpload(r), avail[arc[r]] > 0 PROVE Admission!Next
    <2>1. path[r] \in Paths /\ length[r] \in Lengths
      BY <1>3 DEF TryUpload, Held, Declared
    <2>2. PICK p \in Paths, n \in Lengths : p = path[r] /\ n = length[r]
      BY <2>1
    <2>3. Admission!Admit(r, p, n)
      BY <1>3, <2>2, TryUploadAdmits
    <2> QED
      BY <2>3 DEF Admission!Next
  <1>4. ASSUME NEW r \in Reqs, NEW p \in Paths, NEW n \in Lengths, TryGlobal(r, p, n)
        PROVE  Admitted' = Admitted
    BY <1>4 DEF TryGlobal, Goto, Admitted, Uploads, PermitTypes
  <1>5. ASSUME NEW r \in Reqs,
               \/ TryBytes(r) \/ Lookup(r) \/ (TryUpload(r) /\ ~(avail[arc[r]] > 0))
               \/ Refuse(r) \/ FreeUpload(r) \/ FreeArc(r) \/ FreeBytes(r)
        PROVE  Admitted' = Admitted
    <2>1. Uploads' = Uploads
      BY <1>5 DEF TryBytes, Lookup, TryUpload, Refuse, RefuseBytes, RefuseGlobal, FreeUpload,
                  FreeArc, FreeBytes, Forget, Goto, Uploads, PermitTypes
    <2>2. \A q \in Uploads : path'[q] = path[q] /\ length'[q] = length[q]
      BY <1>5 DEF TryBytes, Lookup, TryUpload, Refuse, RefuseBytes, RefuseGlobal, FreeUpload,
                  FreeArc, FreeBytes, Forget, Uploads, PermitTypes, CountTypes
    <2>3. \A q \in Reqs : pc'[q] = "active" <=> pc[q] = "active"
      BY <2>1 DEF Uploads
    <2> QED
      BY <2>2, <2>3 DEF Admitted, Uploads
  <1>6. ASSUME NEW r \in Reqs, Acquire(r) \/ Refuse(r) \/ Free(r)
        PROVE  Admission!Next \/ Admitted' = Admitted
    <2>1. CASE FreeGlobal(r)
      BY <1>2, <2>1 DEF Admission!Next
    <2>2. CASE TryUpload(r) /\ avail[arc[r]] > 0
      BY <1>3, <2>2
    <2>3. CASE \/ TryBytes(r) \/ Lookup(r) \/ (TryUpload(r) /\ ~(avail[arc[r]] > 0))
               \/ Refuse(r) \/ FreeUpload(r) \/ FreeArc(r) \/ FreeBytes(r)
      <3>1. Admitted' = Admitted
        BY <1>5, <2>3
      <3> QED
        BY <3>1
    <2> QED
      BY <1>6, <2>1, <2>2, <2>3 DEF Acquire, Free
  <1>7. CASE Next
    BY <1>4, <1>6, <1>7 DEF Next
  <1> QED
    BY <1>1, <1>7

(* The three limits hold together and admission is one step: the uploads     *)
(* that UploadPermits lets through enter and leave as UploadAdmission says.  *)
THEOREM AdmissionTheorem == Spec => AdmissionSpec
  <1>1. Init => AdmissionInv
    BY InitCount DEF AdmissionInv, Declared, Init
  <1>2. Init => Admission!Init
    BY DEF Init, Admission!Init, Admitted
  <1>3. AdmissionInv /\ [Next]_vars => [Admission!Next]_Admitted
    BY StepAdmission
  <1> QED
    BY <1>1, <1>2, <1>3, StepDeclared, PTL DEF Spec, AdmissionSpec, Admission!Spec
-----------------------------------------------------------------------------
(* Rounding up keeps the order. *)
LEMMA QuotientsKeepOrder ==
  ASSUME NEW x \in Nat, NEW y \in Nat, NEW d \in Nat \ {0}, x <= y
  PROVE  x \div d \in Nat /\ y \div d \in Nat /\ x \div d <= y \div d
  <1>1. \A a \in Nat, b \in Nat \ {0} :
          (a \div b) \in Nat /\ (a \div b) * b <= a /\ a < ((a \div b) + 1) * b
    OBVIOUS
  <1>2. \A a, b, c \in Nat : b <= a => b * c <= a * c
    OBVIOUS
  <1>3. \A a, b \in Nat : a * b \in Nat
    OBVIOUS
  <1>4. PICK p \in Nat, q \in Nat : /\ p = x \div d /\ q = y \div d
                                    /\ p * d <= x /\ y < (q + 1) * d
    BY <1>1
  <1>5. p >= q + 1 => (q + 1) * d <= p * d
    BY <1>2
  <1>6. p * d \in Nat /\ (q + 1) * d \in Nat
    BY <1>3
  <1>7. ~(p >= q + 1)
    BY <1>4, <1>5, <1>6
  <1> QED
    BY <1>4, <1>7

(* What is within the budget takes no more units than there are. *)
LEMMA LengthFits ==
  ASSUME NEW n \in Lengths, n <= MaxBytes
  PROVE  byte_budget_permits(n) \in Nat /\ byte_budget_permits(n) <= MaxUnits
  <1>0. /\ n \in Nat /\ MaxBytes \in Nat /\ Unit \in Nat \ {0} /\ MaxPermits \in Nat \ {0}
        /\ n <= MaxBytes
    BY LengthsAssumption, LimitsAssumption, UnitAssumption
  <1>1. n + Unit - 1 \in Nat /\ MaxBytes + Unit - 1 \in Nat /\ n + Unit - 1 <= MaxBytes + Unit - 1
    BY <1>0
  <1>2. DivCeil(n, Unit) \in Nat /\ DivCeil(MaxBytes, Unit) \in Nat
        /\ DivCeil(n, Unit) <= DivCeil(MaxBytes, Unit)
    BY <1>0, <1>1, QuotientsKeepOrder DEF DivCeil
  <1> QED
    BY <1>0, <1>2 DEF byte_budget_permits, MaxUnits

(* A request within the budget that finds nobody else under way is not      *)
(* refused: neither what others have left of the byte budget nor a semaphore *)
(* of theirs stands in its way.                                              *)
THEOREM RefusedOnlyUnderLoadTheorem == Spec => RefusedOnlyUnderLoad
  <1> DEFINE Step == \A r \in Reqs :
        length[r] <= MaxBytes /\ pc[r] \in {"global", "sem"}
          /\ pc'[r] \in {"refuseBytes", "refuseGlobal"} => \E s \in Reqs \ {r} : pc[s] # "idle"
  <1>1. ASSUME AdmissionInv, [Next]_vars PROVE Step
    <2> SUFFICES ASSUME NEW r \in Reqs, pc[r] \in {"global", "sem"},
                        pc'[r] \in {"refuseBytes", "refuseGlobal"},
                        length[r] <= MaxBytes,
                        \A s \in Reqs \ {r} : pc[s] = "idle"
                 PROVE  FALSE
      OBVIOUS
    <2> USE <1>1 DEF AdmissionInv, CountInv, IInv
    <2>1. \A s \in Reqs \ {r} : arc[s] = None
      BY DEF Held, HasArc
    <2>2. PICK q \in Reqs : \/ \E p \in Paths, n \in Lengths : TryGlobal(q, p, n)
                            \/ Acquire(q) \/ Refuse(q) \/ Free(q)
      BY <1>1 DEF Next, vars
    <2>3. q = r
      <3>1. pc'[r] # pc[r]
        OBVIOUS
      <3>2. PICK x \in Pcs : pc' = [pc EXCEPT ![q] = x]
        BY <2>2 DEF TryGlobal, Acquire, TryBytes, Lookup, TryUpload, Refuse, RefuseBytes, RefuseGlobal,
                    Free, FreeGlobal, FreeUpload, FreeArc, FreeBytes, Forget, Goto, Pcs
      <3> QED
        BY <3>1, <3>2 DEF PermitTypes
    <2>4. (pc[r] = "global" /\ TryBytes(r)) \/ (pc[r] = "sem" /\ TryUpload(r))
      BY <2>2, <2>3 DEF TryGlobal, Acquire, TryBytes, Lookup, TryUpload, Refuse, RefuseBytes,
                        RefuseGlobal, Free, FreeGlobal, FreeUpload, FreeArc, FreeBytes
    <2>5. CASE pc[r] = "global" /\ TryBytes(r)
      <3>1. ~(budget >= byte_budget_permits(length[r]))
        BY <2>5 DEF TryBytes, Goto, PermitTypes
      <3>2. BytesOut = {}
        BY <2>5 DEF BytesOut, HasBytes
      <3>3. budget = MaxUnits
        BY <3>2, FS_EmptySet, MaxUnitsType DEF CountTypes, BytesConserved
      <3>4. length[r] \in Lengths
        BY <2>5 DEF Declared
      <3> QED
        BY <3>1, <3>3, <3>4, LengthFits, MaxUnitsType
    <2>6. CASE pc[r] = "sem" /\ TryUpload(r)
      <3>1. arc[r] \in Sems /\ arc[r] # None
        BY <2>6 DEF Held, HasArc, PermitTypes
      <3>2. ~(avail[arc[r]] > 0)
        BY <2>6 DEF TryUpload, Goto, PermitTypes
      <3>3. r \in Holders(arc[r]) /\ Users(arc[r]) = {}
        BY <2>1, <2>6, <3>1 DEF Holders, Users, Using
      <3>4. avail[arc[r]] + Cardinality({}) = MaxPerUpload
        BY <3>1, <3>3 DEF Conserved
      <3> QED
        BY <3>1, <3>2, <3>4, FS_EmptySet, LimitsAssumption DEF PermitTypes
    <2> QED
      BY <2>4, <2>5, <2>6
  <1>2. Init => AdmissionInv
    BY InitCount DEF AdmissionInv, Declared, Init
  <1>3. AdmissionInv /\ [Next]_vars => [Step]_vars
    BY <1>1
  <1> QED
    BY <1>2, <1>3, StepDeclared, PTL DEF Spec, RefusedOnlyUnderLoad
=============================================================================
