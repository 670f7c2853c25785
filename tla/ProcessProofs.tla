----------------------------- MODULE ProcessProofs -----------------------------
(***************************************************************************)
(* Theorems about a server process and the sessions that outlive it: what  *)
(* it makes of its command line, how long a token is good for, and that no *)
(* name leaves the store.  Command lines and paths are of any length; what *)
(* the loops over them compute is proved by induction on their length.     *)
(***************************************************************************)
EXTENDS Process, Integers, WellFoundedInduction, TLAPS

-----------------------------------------------------------------------------
(* Induction and recursive functions.                                       *)

\* A property of numbers is a set of numbers.
LEMMA Induction ==
  ASSUME NEW S, 0 \in S, \A n \in Nat : n \in S => n + 1 \in S
  PROVE  \A n \in Nat : n \in S
  <1> DEFINE R == OpToRel(<, Nat)
             T == {n \in Nat : n \notin S}
  <1>1. IsWellFoundedOn(R, Nat)
    BY NatLessThanWellFounded
  <1>2. \A x, y \in Nat : y < x => <<y, x>> \in R
    BY DEF OpToRel
  <1> HIDE DEF R
  <1> SUFFICES ASSUME NEW m \in Nat, m \in T PROVE FALSE
    OBVIOUS
  <1>3. PICK x \in T : \A y \in T : ~(<<y, x>> \in R)
    BY <1>1, WFMin
  <1>4. x \in Nat /\ x # 0 /\ x \notin S
    OBVIOUS
  <1>5. x - 1 \in Nat /\ x - 1 < x /\ (x - 1) + 1 = x
    BY <1>4
  <1>6. x - 1 \notin T
    BY <1>2, <1>3, <1>4, <1>5
  <1> QED
    BY <1>4, <1>5, <1>6

\* Step n goes from s to f[<<s, n>>].
StaysIn(S, f, N)        == \A s \in S, n \in 1 .. N : f[<<s, n>>] \in S
Iterated(g, f, start, N) == g[0] = start /\ \A n \in 1 .. N : g[n] = f[<<g[n - 1], n>>]

\* A recursive definition over 0 .. N defines something, when each step stays in S.
LEMMA Iterates ==
  ASSUME NEW N \in Nat, NEW S, NEW start \in S, NEW f, StaysIn(S, f, N)
  PROVE  \E g \in [0 .. N -> S] : Iterated(g, f, start, N)
  <1> USE DEF StaysIn, Iterated
  <1> DEFINE Sol(g, m) == Iterated(g, f, start, m)
             T == {m \in Nat : m <= N => \E g \in [0 .. m -> S] : Sol(g, m)}
  <1>1. 0 \in T
    <2>1. Sol([n \in 0 .. 0 |-> start], 0)
      OBVIOUS
    <2>2. [n \in 0 .. 0 |-> start] \in [0 .. 0 -> S]
      OBVIOUS
    <2> QED
      BY <2>1, <2>2
  <1>2. ASSUME NEW m \in Nat, m \in T
        PROVE  m + 1 \in T
    <2> SUFFICES ASSUME m + 1 <= N PROVE \E g \in [0 .. m + 1 -> S] : Sol(g, m + 1)
      OBVIOUS
    <2>1. PICK g \in [0 .. m -> S] : Sol(g, m)
      BY <1>2
    <2> DEFINE h == [n \in 0 .. m + 1 |-> IF n = m + 1 THEN f[<<g[m], m + 1>>] ELSE g[n]]
    <2>2. m + 1 \in 1 .. N /\ g[m] \in S
      OBVIOUS
    <2>3. h \in [0 .. m + 1 -> S]
      BY <2>2
    <2>4. ASSUME NEW n \in 1 .. m + 1
          PROVE  h[n] = f[<<h[n - 1], n>>]
      <3>1. h[n - 1] = g[n - 1]
        OBVIOUS
      <3>2. CASE n = m + 1
        <4>1. n - 1 = m /\ h[n] = f[<<g[m], n>>]
          BY <3>2
        <4> HIDE DEF h
        <4> QED
          BY <3>1, <4>1, Zenon
      <3>3. CASE n # m + 1
        <4>1. n \in 1 .. m /\ h[n] = g[n]
          BY <3>3
        <4>2. g[n] = f[<<g[n - 1], n>>]
          BY <2>1, <4>1
        <4> HIDE DEF h
        <4> QED
          BY <3>1, <4>1, <4>2, Zenon
      <3> QED
        BY <3>2, <3>3
    <2>5. h[0] = start
      BY <2>1
    <2> HIDE DEF h
    <2> QED
      BY <2>3, <2>4, <2>5
  <1> HIDE DEF T
  <1>3. N \in T
    BY <1>1, <1>2, Induction
  <1> QED
    BY <1>3 DEF T

-----------------------------------------------------------------------------
(* Paths.                                                                   *)

\* What parts of paths are; the provers do not know that "temp" is a string.
Names == STRING \cup {"temp"}

LEMMA StringsAreNames == \A s \in Seq(STRING) : s \in Seq(Names)
  <1> SUFFICES ASSUME NEW s \in Seq(STRING) PROVE s \in Seq(Names)
    OBVIOUS
  <1>1. PICK n \in Nat : s \in [1 .. n -> STRING]
    OBVIOUS
  <1>2. s \in [1 .. n -> Names]
    BY <1>1 DEF Names
  <1>3. \A m \in Nat : [1 .. m -> Names] \subseteq Seq(Names)
    OBVIOUS
  <1> QED
    BY <1>2, <1>3

LEMMA StoreIsNames == Store \in Seq(Names)
  BY InputAssumption, StringsAreNames

\* A file under the store.
Inside(dir) ==
  dir \in Seq(Names) /\ Len(dir) >= Len(Store) /\ \A i \in 1 .. Len(Store) : dir[i] = Store[i]

LEMMA InsideIsPrefix ==
  ASSUME NEW dir, Inside(dir)
  PROVE  Len(dir) >= Len(Store) /\ SubSeq(dir, 1, Len(Store)) = Store
  <1>1. Store \in Seq(Names) /\ dir \in Seq(Names) /\ Len(dir) >= Len(Store)
    BY StoreIsNames DEF Inside
  <1>2. SubSeq(dir, 1, Len(Store)) \in Seq(Names) /\ Len(SubSeq(dir, 1, Len(Store))) = Len(Store)
        /\ \A i \in 1 .. Len(Store) : SubSeq(dir, 1, Len(Store))[i] = Store[i]
    BY <1>1 DEF Inside
  <1>3. \A s, t \in Seq(Names) : Len(s) = Len(t) /\ (\A i \in 1 .. Len(t) : s[i] = t[i]) => s = t
    OBVIOUS
  <1> QED
    BY <1>1, <1>2, <1>3

LEMMA WalkSteps ==
  ASSUME NEW dir \in Seq(Names), NEW part \in Names
  PROVE  Walk(dir, part) \in Seq(Names) /\ (part # ".." /\ Inside(dir) => Inside(Walk(dir, part)))
  <1>1. CASE part # ".."
    <2>1. Walk(dir, part) \in {dir, Append(dir, part)}
      BY <1>1 DEF Walk
    <2>2. Append(dir, part) \in Seq(Names) /\ Len(Append(dir, part)) = Len(dir) + 1
          /\ \A i \in 1 .. Len(dir) : Append(dir, part)[i] = dir[i]
      OBVIOUS
    <2>3. Store \in Seq(Names) /\ Len(Store) \in Nat /\ Len(dir) \in Nat
      BY StoreIsNames
    <2>4. ASSUME Inside(dir) PROVE Inside(Append(dir, part))
      <3>1. PICK w \in Seq(Names) : /\ w = Append(dir, part) /\ Len(w) = Len(dir) + 1
                                    /\ \A i \in 1 .. Len(dir) : w[i] = dir[i]
        BY <2>2
      <3>2. Len(w) >= Len(Store) /\ \A i \in 1 .. Len(Store) : w[i] = Store[i]
        BY <2>3, <2>4, <3>1 DEF Inside
      <3> QED
        BY <3>1, <3>2 DEF Inside
    <2> QED
      BY <2>1, <2>2, <2>4
  <1>2. CASE part = ".."
    <2>1. dir # <<>> => SubSeq(dir, 1, Len(dir) - 1) \in Seq(Names)
      OBVIOUS
    <2> QED
      BY <1>2, <2>1 DEF Walk
  <1> QED
    BY <1>1, <1>2

\* A joinable path has no "..", and no leading slash.
LEMMA JoinableParts ==
  ASSUME NEW parts \in Seq(Names), Joinable(parts)
  PROVE  \A i \in 1 .. Len(parts) : parts[i] # ".."
  <1> DEFINE Kind(i) == CASE parts[i] = "" /\ i = 1 /\ Len(parts) > 1    -> "RootDir"
                          [] parts[i] = "" /\ ~(i = 1 /\ Len(parts) > 1) -> "nothing"
                          [] parts[i] = "." /\ i = 1                     -> "CurDir"
                          [] parts[i] = "." /\ i > 1                     -> "nothing"
                          [] parts[i] = ".."                             -> "ParentDir"
                          [] OTHER                                       -> "Normal"
  <1>1. \A i \in 1 .. Len(parts) : Kind(i) \in {"nothing", "Normal"}
    <2>1. DOMAIN parts = 1 .. Len(parts)
      OBVIOUS
    <2>2. {Kind(i) : i \in DOMAIN parts} \ {"nothing"} \subseteq {"Normal"}
      BY DEF Joinable, Components
    <2> HIDE DEF Kind
    <2> QED
      BY <2>1, <2>2
  <1>2. ASSUME NEW i \in 1 .. Len(parts), parts[i] = ".."
        PROVE  FALSE
    <2>1. Kind(i) = "ParentDir"
      BY <1>2
    <2> HIDE DEF Kind
    <2> QED
      BY <1>1, <2>1
  <1> QED
    BY <1>2

LEMMA JoinableIsRelative ==
  ASSUME NEW parts \in Seq(Names), Joinable(parts)
  PROVE  ~(Len(parts) > 1 /\ parts[1] = "")
  <1> DEFINE Kind(i) == CASE parts[i] = "" /\ i = 1 /\ Len(parts) > 1    -> "RootDir"
                          [] parts[i] = "" /\ ~(i = 1 /\ Len(parts) > 1) -> "nothing"
                          [] parts[i] = "." /\ i = 1                     -> "CurDir"
                          [] parts[i] = "." /\ i > 1                     -> "nothing"
                          [] parts[i] = ".."                             -> "ParentDir"
                          [] OTHER                                       -> "Normal"
  <1>1. Len(parts) > 1 => 1 \in DOMAIN parts
    OBVIOUS
  <1> SUFFICES ASSUME Len(parts) > 1, parts[1] = "" PROVE FALSE
    OBVIOUS
  <1>2. 1 \in DOMAIN parts
    BY <1>1, Zenon
  <1>3. {Kind(i) : i \in DOMAIN parts} \ {"nothing"} \subseteq {"Normal"}
    BY Zenon DEF Joinable, Components
  <1>4. Kind(1) = "RootDir"
    BY Zenon
  <1>5. "RootDir" # "nothing" /\ "RootDir" # "Normal"
    BY Zenon
  <1> HIDE DEF Kind
  <1> QED
    BY <1>2, <1>3, <1>4, <1>5, Zenon

LEMMA ResolveIs ==
  ASSUME NEW base \in Seq(Names), NEW parts \in Seq(Names), Joinable(parts)
  PROVE  \E g : /\ g[0] = base /\ \A n \in 1 .. Len(parts) : g[n] = Walk(g[n - 1], parts[n])
                /\ Resolve(base, parts) = g[Len(parts)]
  <1>1. PICK N \in Nat : N = Len(parts) /\ \A n \in 1 .. N : parts[n] \in Names
    OBVIOUS
  <1> DEFINE Dirs(g) == g = [n \in 0 .. N |-> IF n = 0 THEN base ELSE Walk(g[n - 1], parts[n])]
             dirs == CHOOSE g : Dirs(g)
  <1>2. Resolve(base, parts) = dirs[N]
    <2>1. ~(Len(parts) > 1 /\ parts[1] = "")
      BY JoinableIsRelative, Zenon
    <2>2. (IF Len(parts) > 1 /\ parts[1] = "" THEN <<>> ELSE base) = base
      BY <2>1, Zenon
    <2> QED
      BY <1>1, <2>2, Zenon DEF Resolve
  <1>3. PICK f : f = [x \in Seq(Names) \X (1 .. N) |-> Walk(x[1], parts[x[2]])]
    OBVIOUS
  <1>4. \A dir \in Seq(Names), n \in 1 .. N :
          f[<<dir, n>>] = Walk(dir, parts[n]) /\ f[<<dir, n>>] \in Seq(Names)
    BY <1>1, <1>3, WalkSteps
  <1>5. PICK S : S = Seq(Names)
    OBVIOUS
  <1>6. PICK g \in [0 .. N -> S] : g[0] = base /\ \A n \in 1 .. N : g[n] = f[<<g[n - 1], n>>]
    <2>1. StaysIn(S, f, N)
      BY <1>4, <1>5 DEF StaysIn
    <2>2. base \in S
      BY <1>5
    <2>3. \E g \in [0 .. N -> S] : Iterated(g, f, base, N)
      BY <2>1, <2>2, Iterates
    <2> QED
      BY <2>3 DEF Iterated
  <1>7. \A n \in 1 .. N : g[n] = Walk(g[n - 1], parts[n])
    <2>1. \A n \in 1 .. N : g[n - 1] \in S
      OBVIOUS
    <2> QED
      BY <1>4, <1>5, <1>6, <2>1
  <1>8. Dirs(g)
    <2>1. g = [n \in 0 .. N |-> g[n]]
      BY <1>6
    <2>2. \A n \in 0 .. N : n = 0 \/ n \in 1 .. N
      OBVIOUS
    <2>3. \A n \in 0 .. N : g[n] = IF n = 0 THEN base ELSE Walk(g[n - 1], parts[n])
      BY <1>6, <1>7, <2>2
    <2> QED
      BY <2>1, <2>3
  <1>9. Dirs(dirs)
    <2> HIDE DEF Dirs
    <2> QED
      BY <1>8
  <1>10. \A h : Dirs(h) => h[0] = base /\ \A n \in 1 .. N : h[n] = Walk(h[n - 1], parts[n])
    <2> SUFFICES ASSUME NEW h, Dirs(h)
                 PROVE  h[0] = base /\ \A n \in 1 .. N : h[n] = Walk(h[n - 1], parts[n])
      OBVIOUS
    <2>1. \A n \in 0 .. N : h[n] = IF n = 0 THEN base ELSE Walk(h[n - 1], parts[n])
      OBVIOUS
    <2>2. 0 \in 0 .. N /\ \A n \in 1 .. N : n \in 0 .. N /\ n # 0
      OBVIOUS
    <2> QED
      BY <2>1, <2>2
  <1> HIDE DEF Dirs, dirs
  <1> QED
    BY <1>1, <1>2, <1>9, <1>10

\* A joined path stays where it is joined to.
LEMMA ResolveStays ==
  ASSUME NEW base, Inside(base), NEW parts \in Seq(Names), Joinable(parts)
  PROVE  Inside(Resolve(base, parts))
  <1>1. PICK N \in Nat : N = Len(parts) /\ \A n \in 1 .. N : parts[n] \in Names /\ parts[n] # ".."
    BY JoinableParts
  <1>2. PICK g : /\ g[0] = base /\ \A n \in 1 .. N : g[n] = Walk(g[n - 1], parts[n])
                 /\ Resolve(base, parts) = g[N]
    BY <1>1, ResolveIs DEF Inside
  <1> DEFINE T == {n \in Nat : n <= N => Inside(g[n])}
  <1>3. 0 \in T
    BY <1>2
  <1>4. ASSUME NEW n \in Nat, n \in T
        PROVE  n + 1 \in T
    <2> SUFFICES ASSUME n + 1 <= N PROVE Inside(g[n + 1])
      OBVIOUS
    <2>1. Inside(g[n]) /\ n + 1 \in 1 .. N /\ (n + 1) - 1 = n
      BY <1>4
    <2>2. g[n + 1] = Walk(g[n], parts[n + 1])
      BY <1>2, <2>1
    <2>3. g[n] \in Seq(Names)
      BY <2>1 DEF Inside
    <2> QED
      BY <1>1, <2>1, <2>2, <2>3, WalkSteps
  <1> HIDE DEF T
  <1>5. N \in T
    BY <1>3, <1>4, Induction
  <1> QED
    BY <1>2, <1>5 DEF T

(* Whatever a user calls a directory or a file, the files it stands for are *)
(* under the store path: the check of safe_join is enough for the join and  *)
(* the resolution of the path, of any number of parts.                      *)
THEOREM StaysInStoreTheorem == Spec => []StaysInStore
  <1>1. Inside(Store)
    BY StoreIsNames DEF Inside
  <1>2. ASSUME NEW base, Inside(base), NEW parts \in Seq(Names)
        PROVE  safe_join(base, parts) = InvalidPath \/ Inside(safe_join(base, parts))
    BY <1>2, ResolveStays DEF safe_join
  <1>3. \A parts \in Seq(Names) : FormUploadName(parts) \in Seq(Names)
    <2> SUFFICES ASSUME NEW parts \in Seq(Names) PROVE FormUploadName(parts) \in Seq(Names)
      OBVIOUS
    <2>1. PICK n \in Nat : n = Len(parts) /\ parts \in [1 .. n -> Names]
      OBVIOUS
    <2>2. [parts EXCEPT ![n] = "temp"] \in [1 .. n -> Names]
      <3>1. PICK F \in [1 .. n -> Names] : F = parts
        BY <2>1
      <3>2. PICK temp \in Names : temp = "temp"
        BY DEF Names
      <3>3. [F EXCEPT ![n] = temp] \in [1 .. n -> Names]
        OBVIOUS
      <3> QED
        BY <3>1, <3>2, <3>3, Zenon
    <2>3. \A m \in Nat : [1 .. m -> Names] \subseteq Seq(Names)
      OBVIOUS
    <2> QED
      BY <2>1, <2>2, <2>3 DEF FormUploadName
  <1>4. ASSUME NEW path \in Paths, NEW name \in FileNames,
               NEW target \in FormTargets(Store, path, name) \cup ({safe_join(Store, path)} \ {InvalidPath})
        PROVE  Inside(target)
    <2>1. path \in Seq(Names) /\ name \in Seq(Names)
      BY InputAssumption, StringsAreNames
    <2>2. safe_join(Store, path) = InvalidPath \/ Inside(safe_join(Store, path))
      BY <1>1, <1>2, <2>1
    <2> QED
      BY <1>2, <1>3, <2>1, <2>2 DEF FormTargets
  <1>5. StaysInStore
    BY <1>4, InsideIsPrefix DEF StaysInStore
  <1> QED
    BY <1>5, PTL

-----------------------------------------------------------------------------
(* The command line.                                                        *)

Cli == [opts : [Options -> Strings], wants : Options \cup {None}, exit : {None, 0, 1}]

Begin == [opts |-> Unset, wants |-> None, exit |-> None]

LEMMA OptionsAreSet == ASSUME NEW arg \in STRING PROVE arg # None
  BY ConfigurationAssumption

LEMMA ArgumentTypes ==
  ASSUME NEW s \in Cli, NEW arg \in STRING
  PROVE  Argument(s, arg) \in Cli
  <1>1. PICK o, w, x : s = [opts |-> o, wants |-> w, exit |-> x] /\ o \in [Options -> Strings]
                       /\ w \in Options \cup {None} /\ x \in {None, 0, 1}
    BY DEF Cli
  <1>2. arg \in Strings
    BY DEF Strings
  <1>3. w # None => [o EXCEPT ![w] = arg] \in [Options -> Strings]
    BY <1>1, <1>2
  <1>4. TakesValue(s, arg) = [[s EXCEPT !.wants = None] EXCEPT !.opts = [o EXCEPT ![w] = arg]]
    BY <1>1 DEF TakesValue
  <1>5. w # None => TakesValue(s, arg) \in Cli
    <2>1. [s EXCEPT !.wants = None] \in Cli
      BY DEF Cli
    <2>2. \A c \in Cli, u \in [Options -> Strings] : [c EXCEPT !.opts = u] \in Cli
      BY DEF Cli
    <2> QED
      BY <1>3, <1>4, <2>1, <2>2
  <1>6. [s EXCEPT !.exit = 0] \in Cli /\ [s EXCEPT !.exit = 1] \in Cli
    BY DEF Cli
  <1>7. arg \in Options => [s EXCEPT !.wants = arg] \in Cli
    BY DEF Cli
  <1>8. "listen" \in Options
    BY DEF Options
  <1> QED
    BY <1>1, <1>5, <1>6, <1>7, <1>8 DEF Argument

LEMMA TurnsAre ==
  ASSUME NEW args \in Seq(STRING)
  PROVE  /\ Turns(args)[0] = Begin
         /\ \A n \in 1 .. Len(args) : Turns(args)[n] = Argument(Turns(args)[n - 1], args[n])
  <1>1. PICK N \in Nat : N = Len(args) /\ \A n \in 1 .. N : args[n] \in STRING
    OBVIOUS
  <1> DEFINE Loop(g) == g = [n \in 0 .. N |-> IF n = 0 THEN Begin ELSE Argument(g[n - 1], args[n])]
             turns == CHOOSE g : Loop(g)
  <1>2. Turns(args) = turns
    BY <1>1, Zenon DEF Turns, Begin
  <1>3. PICK f : f = [x \in Cli \X (1 .. N) |-> Argument(x[1], args[x[2]])]
    OBVIOUS
  <1>4. \A s \in Cli, n \in 1 .. N : f[<<s, n>>] = Argument(s, args[n]) /\ f[<<s, n>>] \in Cli
    BY <1>1, <1>3, ArgumentTypes
  <1>5. Begin \in Cli
    BY DEF Begin, Cli, Unset, Strings
  <1>6. PICK g \in [0 .. N -> Cli] : g[0] = Begin /\ \A n \in 1 .. N : g[n] = f[<<g[n - 1], n>>]
    <2>1. StaysIn(Cli, f, N)
      BY <1>4 DEF StaysIn
    <2>2. \E g \in [0 .. N -> Cli] : Iterated(g, f, Begin, N)
      BY <1>5, <2>1, Iterates
    <2> QED
      BY <2>2 DEF Iterated
  <1>7. \A n \in 1 .. N : g[n] = Argument(g[n - 1], args[n])
    <2>1. \A n \in 1 .. N : g[n - 1] \in Cli
      OBVIOUS
    <2> QED
      BY <1>4, <1>6, <2>1
  <1>8. Loop(g)
    <2>1. g = [n \in 0 .. N |-> g[n]]
      BY <1>6
    <2>2. \A n \in 0 .. N : n = 0 \/ n \in 1 .. N
      OBVIOUS
    <2>3. \A n \in 0 .. N : g[n] = IF n = 0 THEN Begin ELSE Argument(g[n - 1], args[n])
      BY <1>6, <1>7, <2>2
    <2> QED
      BY <2>1, <2>3
  <1>9. Loop(turns)
    <2> HIDE DEF Loop
    <2> QED
      BY <1>8
  <1>10. \A h : Loop(h) => h[0] = Begin /\ \A n \in 1 .. N : h[n] = Argument(h[n - 1], args[n])
    <2> SUFFICES ASSUME NEW h, Loop(h)
                 PROVE  h[0] = Begin /\ \A n \in 1 .. N : h[n] = Argument(h[n - 1], args[n])
      OBVIOUS
    <2>1. \A n \in 0 .. N : h[n] = IF n = 0 THEN Begin ELSE Argument(h[n - 1], args[n])
      OBVIOUS
    <2>2. 0 \in 0 .. N /\ \A n \in 1 .. N : n \in 0 .. N /\ n # 0
      OBVIOUS
    <2> QED
      BY <2>1, <2>2
  <1> HIDE DEF Loop, turns
  <1> QED
    BY <1>1, <1>2, <1>9, <1>10

LEMMA TurnTypes ==
  ASSUME NEW args \in Seq(STRING)
  PROVE  \A n \in 0 .. Len(args) : Turns(args)[n] \in Cli
  <1>1. PICK N \in Nat : N = Len(args) /\ \A n \in 1 .. N : args[n] \in STRING
    OBVIOUS
  <1>2. PICK t : t = Turns(args)
    OBVIOUS
  <1> DEFINE T == {n \in Nat : n <= N => t[n] \in Cli}
  <1>3. 0 \in T
    BY <1>2, TurnsAre DEF Begin, Cli, Unset, Strings
  <1>4. ASSUME NEW n \in Nat, n \in T
        PROVE  n + 1 \in T
    <2> SUFFICES ASSUME n + 1 <= N PROVE t[n + 1] \in Cli
      OBVIOUS
    <2>1. t[n] \in Cli /\ n + 1 \in 1 .. N /\ (n + 1) - 1 = n
      BY <1>4
    <2>2. t[n + 1] = Argument(t[n], args[n + 1])
      BY <1>1, <1>2, <2>1, TurnsAre
    <2> QED
      BY <1>1, <2>1, <2>2, ArgumentTypes
  <1>5. \A n \in Nat : n \in T
    <2> HIDE DEF T
    <2> QED
      BY <1>3, <1>4, Induction
  <1> QED
    BY <1>1, <1>2, <1>5

\* What a loop that goes on has made of an argument.
LEMMA ArgumentGoesOn ==
  ASSUME NEW s \in Cli, NEW arg \in STRING, Argument(s, arg).exit = None
  PROVE  /\ s.exit = None
         /\ s.wants # None => Argument(s, arg) = TakesValue(s, arg)
         /\ s.wants = None => /\ arg \in Options /\ Argument(s, arg) = [s EXCEPT !.wants = arg]
                              /\ arg = "listen" => s.opts["listen"] = None
  <1>0. s.exit # None => Argument(s, arg) = s
    BY DEF Argument
  <1>1. s.exit = None
    BY <1>0
  <1>2. s.wants # None => Argument(s, arg) = TakesValue(s, arg)
    BY <1>1 DEF Argument
  <1>3. 0 # None /\ 1 # None
    BY ConfigurationAssumption
  <1>4. [s EXCEPT !.exit = 0].exit = 0 /\ [s EXCEPT !.exit = 1].exit = 1
    BY DEF Cli
  <1>5. ASSUME s.wants = None
        PROVE  /\ arg \in Options /\ Argument(s, arg) = [s EXCEPT !.wants = arg]
               /\ arg = "listen" => s.opts["listen"] = None
    <2>1. "listen" \in Options
      BY DEF Options
    <2> QED
      BY <1>1, <1>3, <1>4, <1>5, <2>1 DEF Argument
  <1> QED
    BY <1>1, <1>2, <1>5

\* After m options and their values: at most one "listen", and of each option the last value.
LastValues(args, opts, m) ==
  /\ \A k \in 1 .. m : args[2 * k - 1] \in Options
  /\ \A j, k \in 1 .. m : args[2 * j - 1] = "listen" /\ args[2 * k - 1] = "listen" => j = k
  /\ \A o \in Options :
       \/ \E k \in 1 .. m : /\ args[2 * k - 1] = o /\ opts[o] = args[2 * k]
                            /\ \A j \in 1 .. m : args[2 * j - 1] = o => j <= k
       \/ (\A k \in 1 .. m : args[2 * k - 1] # o) /\ opts[o] = None

LEMMA OneMoreOption ==
  ASSUME NEW args \in Seq(STRING), NEW m \in Nat, 2 * (m + 1) <= Len(args),
         NEW opts \in [Options -> Strings], LastValues(args, opts, m),
         args[2 * m + 1] \in Options,
         args[2 * m + 1] = "listen" => opts["listen"] = None
  PROVE  LastValues(args, [opts EXCEPT ![args[2 * m + 1]] = args[2 * m + 2]], m + 1)
  <1>1. PICK a, v : /\ a = args[2 * m + 1] /\ v = args[2 * m + 2]
                    /\ a = args[2 * (m + 1) - 1] /\ v = args[2 * (m + 1)]
    OBVIOUS
  <1>2. PICK new : /\ new = [opts EXCEPT ![a] = v] /\ new[a] = v
                   /\ \A o \in Options \ {a} : new[o] = opts[o]
    <2>1. a \in Options
      BY <1>1
    <2>2. [opts EXCEPT ![a] = v][a] = v /\ \A o \in Options \ {a} : [opts EXCEPT ![a] = v][o] = opts[o]
      BY <2>1
    <2> QED
      BY <2>2
  <1>3. \A k \in 1 .. m + 1 : k \in 1 .. m \/ k = m + 1
    OBVIOUS
  <1>4. m + 1 \in 1 .. m + 1 /\ \A k \in 1 .. m : k \in 1 .. m + 1 /\ k <= m + 1 /\ k # m + 1
    OBVIOUS
  <1>5. \A k \in 1 .. m + 1 : args[2 * k - 1] \in Options
    BY <1>1, <1>3 DEF LastValues
  <1>6. ASSUME a = "listen", NEW k \in 1 .. m, args[2 * k - 1] = "listen"
        PROVE  FALSE
    <2>1. "listen" \in Options
      BY DEF Options
    <2>2. PICK j \in 1 .. m : opts["listen"] = args[2 * j]
      BY <1>6, <2>1 DEF LastValues
    <2>3. args[2 * j] \in STRING
      OBVIOUS
    <2> QED
      BY <1>1, <1>6, <2>2, <2>3, OptionsAreSet
  <1>7. \A j, k \in 1 .. m + 1 : args[2 * j - 1] = "listen" /\ args[2 * k - 1] = "listen" => j = k
    BY <1>1, <1>3, <1>6 DEF LastValues
  <1>8. ASSUME NEW o \in Options
        PROVE  \/ \E k \in 1 .. m + 1 : /\ args[2 * k - 1] = o /\ new[o] = args[2 * k]
                                        /\ \A j \in 1 .. m + 1 : args[2 * j - 1] = o => j <= k
               \/ (\A k \in 1 .. m + 1 : args[2 * k - 1] # o) /\ new[o] = None
    <2>1. CASE o = a
      BY <1>1, <1>2, <1>3, <1>4, <2>1
    <2>2. CASE o # a
      <3>1. new[o] = opts[o] /\ args[2 * (m + 1) - 1] # o
        BY <1>1, <1>2, <2>2
      <3>2. CASE \E k \in 1 .. m : /\ args[2 * k - 1] = o /\ opts[o] = args[2 * k]
                                   /\ \A j \in 1 .. m : args[2 * j - 1] = o => j <= k
        BY <1>3, <1>4, <3>1, <3>2
      <3>3. CASE (\A k \in 1 .. m : args[2 * k - 1] # o) /\ opts[o] = None
        BY <1>3, <3>1, <3>3
      <3> QED
        BY <3>2, <3>3 DEF LastValues
    <2> QED
      BY <2>1, <2>2
  <1> QED
    BY <1>1, <1>2, <1>5, <1>7, <1>8 DEF LastValues

\* Options and their values alternate, until the loop exits.
LEMMA TurnsInPairs ==
  ASSUME NEW args \in Seq(STRING), NEW m \in Nat, 2 * m <= Len(args),
         Turns(args)[2 * m].exit = None
  PROVE  Turns(args)[2 * m].wants = None /\ LastValues(args, Turns(args)[2 * m].opts, m)
  <1>1. PICK N \in Nat : N = Len(args) /\ \A n \in 1 .. N : args[n] \in STRING
    OBVIOUS
  <1>2. PICK t : t = Turns(args)
    OBVIOUS
  <1>3. t[0] = Begin /\ \A n \in 1 .. N : t[n] = Argument(t[n - 1], args[n])
    BY <1>1, <1>2, TurnsAre
  <1>4. \A n \in 0 .. N : t[n] \in Cli
    BY <1>1, <1>2, TurnTypes
  <1> DEFINE T == {n \in Nat : 2 * n <= N /\ t[2 * n].exit = None
                               => t[2 * n].wants = None /\ LastValues(args, t[2 * n].opts, n)}
  <1>5. 0 \in T
    <2>1. LastValues(args, Unset, 0)
      BY DEF LastValues, Unset
    <2>2. Begin.wants = None /\ Begin.opts = Unset
      BY DEF Begin
    <2> QED
      BY <1>3, <2>1, <2>2
  <1>6. ASSUME NEW n \in Nat, n \in T
        PROVE  n + 1 \in T
    <2> SUFFICES ASSUME 2 * (n + 1) <= N, t[2 * (n + 1)].exit = None
                 PROVE  /\ t[2 * (n + 1)].wants = None
                        /\ LastValues(args, t[2 * (n + 1)].opts, n + 1)
      OBVIOUS
    <2>1. /\ 2 * n \in 0 .. N /\ 2 * n + 1 \in 1 .. N /\ 2 * n + 2 \in 1 .. N
          /\ (2 * n + 1) - 1 = 2 * n /\ (2 * n + 2) - 1 = 2 * n + 1 /\ 2 * (n + 1) = 2 * n + 2
          /\ 2 * n + 1 \in 0 .. N
      OBVIOUS
    <2>2. PICK a \in STRING, v \in STRING : a = args[2 * n + 1] /\ v = args[2 * n + 2]
      BY <1>1, <2>1
    <2>3. PICK s \in Cli, u \in Cli : s = t[2 * n] /\ u = t[2 * n + 1]
      BY <1>4, <2>1
    <2>4. u = Argument(s, a) /\ t[2 * n + 2] = Argument(u, v)
      BY <1>3, <2>1, <2>2, <2>3
    <2>5. u.exit = None
      BY <2>1, <2>4, ArgumentGoesOn
    <2>6. s.exit = None
      BY <2>4, <2>5, ArgumentGoesOn
    <2>7. s.wants = None /\ LastValues(args, s.opts, n)
      BY <1>6, <2>1, <2>3, <2>6
    <2>8. a \in Options /\ u = [s EXCEPT !.wants = a] /\ (a = "listen" => s.opts["listen"] = None)
      BY <2>4, <2>5, <2>7, ArgumentGoesOn
    <2>9. u.wants = a /\ u.opts = s.opts /\ a # None /\ s.opts \in [Options -> Strings]
      BY <2>8, OptionsAreSet DEF Cli
    <2>10. t[2 * n + 2] = TakesValue(u, v)
      BY <2>1, <2>4, <2>9, ArgumentGoesOn
    <2>11. TakesValue(u, v).wants = None /\ TakesValue(u, v).opts = [s.opts EXCEPT ![a] = v]
      BY <2>9 DEF TakesValue, Cli
    <2>12. LastValues(args, [s.opts EXCEPT ![a] = v], n + 1)
      BY <1>1, <2>2, <2>7, <2>8, <2>9, OneMoreOption
    <2> QED
      BY <2>1, <2>10, <2>11, <2>12
  <1>7. \A n \in Nat : n \in T
    <2> HIDE DEF T
    <2> QED
      BY <1>5, <1>6, Induction
  <1> QED
    BY <1>1, <1>2, <1>7

\* What a command line that is not refused or answered by an exit is.
LEMMA CommandLineIs ==
  ASSUME NEW args \in Seq(STRING), from_cli(args).exit = None
  PROVE  /\ from_cli(args).opts \in [Options -> Strings]
         /\ Len(args) % 2 = 0
         /\ LastValues(args, from_cli(args).opts, Len(args) \div 2)
  <1>1. PICK N \in Nat : N = Len(args) /\ \A n \in 1 .. N : args[n] \in STRING
    OBVIOUS
  <1>2. PICK t : t = Turns(args)
    OBVIOUS
  <1>3. /\ \A n \in 1 .. N : t[n] = Argument(t[n - 1], args[n])
        /\ \A n \in 0 .. N : t[n] \in Cli
    BY <1>1, <1>2, TurnsAre, TurnTypes
  <1>4. PICK s \in Cli : s = t[N]
    BY <1>3
  <1>5. s.exit = None /\ s.wants = None /\ from_cli(args) = s
    <2>1. from_cli(args) = IF s.exit = None /\ s.wants # None THEN [s EXCEPT !.exit = 1] ELSE s
      BY <1>1, <1>2, <1>4, Zenon DEF from_cli
    <2>2. [s EXCEPT !.exit = 1].exit = 1 /\ 1 # None
      BY ConfigurationAssumption DEF Cli
    <2> QED
      BY <2>1, <2>2
  <1>6. PICK m \in Nat : N = 2 * m \/ N = 2 * m + 1
    <2>1. \A n \in Nat : n \div 2 \in Nat /\ (n = 2 * (n \div 2) \/ n = 2 * (n \div 2) + 1)
      OBVIOUS
    <2> QED
      BY <2>1
  <1>7. N # 2 * m + 1
    <2> SUFFICES ASSUME N = 2 * m + 1 PROVE FALSE
      OBVIOUS
    <2>1. /\ 2 * m \in 0 .. N /\ 2 * m <= N /\ 2 * m + 1 \in 1 .. N
          /\ (2 * m + 1) - 1 = 2 * m
      OBVIOUS
    <2>2. PICK u \in Cli, a \in STRING : u = t[2 * m] /\ a = args[2 * m + 1]
      BY <1>1, <1>3, <2>1
    <2>3. s = Argument(u, a)
      BY <1>3, <1>4, <2>1, <2>2
    <2>4. u.exit = None
      BY <1>5, <2>3, ArgumentGoesOn
    <2>5. u.wants = None
      BY <1>1, <1>2, <2>1, <2>2, <2>4, TurnsInPairs
    <2>6. s = [u EXCEPT !.wants = a] /\ a # None
      BY <1>5, <2>3, <2>5, ArgumentGoesOn, OptionsAreSet
    <2>7. s.wants = a
      BY <2>6 DEF Cli
    <2> QED
      BY <1>5, <2>6, <2>7
  <1>8. N = 2 * m /\ N \div 2 = m /\ N % 2 = 0
    BY <1>6, <1>7
  <1>9. LastValues(args, s.opts, m)
    <2>1. 2 * m <= Len(args) /\ Turns(args)[2 * m] = s
      BY <1>1, <1>2, <1>4, <1>8
    <2>2. LastValues(args, Turns(args)[2 * m].opts, m)
      BY <1>5, <2>1, TurnsInPairs
    <2> QED
      BY <2>1, <2>2
  <1>10. s.opts \in [Options -> Strings]
    BY DEF Cli
  <1> QED
    BY <1>1, <1>5, <1>8, <1>9, <1>10

-----------------------------------------------------------------------------
(* The process.                                                             *)

\* A serving process runs with what its last start has made of its arguments.
ServingInv ==
  up => /\ starts >= 1
        /\ last.args \in CommandLines /\ last.env \in Environments /\ last.exit = None
        /\ Loaded(last.args, last.env).exit = None
        /\ config = Loaded(last.args, last.env).config
        /\ secret = SecretOf(config, starts)

\* A token says when it was issued, for how long, and by which start.
Token(token) ==
  /\ token.issued \in Nat /\ token.max_age \in Nat
  /\ token.exp = (token.issued + token.max_age) % 2 ^ Width
  /\ token.by \in 1 .. starts
  /\ token.secret.start \in {0, token.by}

TokensInv ==
  /\ flight # None => Token(flight)
  /\ jar # None => Token(jar.token) /\ jar.until \in Nat

CountersInv == starts \in 0 .. MaxStarts /\ now \in 0 .. MaxTime /\ up \in BOOLEAN

ProcessInv == ServingInv /\ TokensInv /\ CountersInv

\* What a start that serves has settled.
LEMMA LoadedIs ==
  ASSUME NEW args \in CommandLines, NEW env \in Environments, Loaded(args, env).exit = None
  PROVE  LET given  == from_cli(args).opts
             config1 == Loaded(args, env).config
         IN /\ from_cli(args).exit = None
            /\ given \in [Options -> Strings]
            /\ Accepted(Merged(env, given))
            /\ config1 = WithDefaults(Merged(env, given))
            /\ \A o \in Options : config1[o] = IF given[o] # None THEN given[o]
                                               ELSE IF env[o] # None THEN env[o] ELSE Defaults[o]
            /\ config1 \in [Options -> Strings]
            /\ \A o \in Numeric : config1[o] \in DOMAIN Numbers /\ Number(config1, o) \in Nat
  <1>1. args \in Seq(STRING) /\ env \in [Options -> Strings]
    BY InputAssumption
  <1>2. PICK cli : cli = from_cli(args)
    OBVIOUS
  <1>3. PICK opts : opts = Merged(env, cli.opts)
    OBVIOUS
  <1>4. /\ Loaded(args, env).exit
             = IF cli.exit # None THEN cli.exit ELSE IF Accepted(opts) THEN None ELSE 1
        /\ Loaded(args, env).config = WithDefaults(opts)
    BY <1>2, <1>3 DEF Loaded
  <1>5. cli.exit = None /\ Accepted(opts)
    <2>1. 1 # None
      BY ConfigurationAssumption
    <2> QED
      BY <1>4, <2>1
  <1>6. cli.opts \in [Options -> Strings]
    BY <1>1, <1>2, <1>5, CommandLineIs
  <1>7. \A o \in Options : opts[o] = IF cli.opts[o] # None THEN cli.opts[o] ELSE env[o]
    BY <1>3 DEF Merged
  <1>8. PICK c : c = WithDefaults(opts)
    OBVIOUS
  <1>9. \A o \in Options : c[o] = IF opts[o] # None THEN opts[o] ELSE Defaults[o]
    BY <1>8 DEF WithDefaults
  <1>10. c \in [Options -> Strings]
    <2>1. \A o \in Options : opts[o] \in Strings /\ Defaults[o] \in Strings
      BY <1>1, <1>6, <1>7, ConfigurationAssumption
    <2> QED
      BY <1>8, <2>1 DEF WithDefaults
  <1>11. ASSUME NEW o \in Numeric
         PROVE  c[o] \in DOMAIN Numbers /\ Number(c, o) \in Nat
    <2>1. o \in Options
      BY DEF Options
    <2>2. opts[o] # None => opts[o] \in DOMAIN Numbers
      BY <1>5 DEF Accepted
    <2>3. c[o] \in DOMAIN Numbers
      BY <1>9, <2>1, <2>2, ConfigurationAssumption
    <2>4. Numbers[c[o]] \in Nat
      BY <2>3, ConfigurationAssumption
    <2> QED
      BY <2>3, <2>4 DEF Number
  <1> QED
    BY <1>2, <1>3, <1>4, <1>5, <1>6, <1>7, <1>8, <1>9, <1>10, <1>11

\* The sum in a token is a number of the clock, whatever its width.
LEMMA Wraps ==
  /\ \A n \in Nat : n % 2 ^ Width \in Nat /\ n % 2 ^ Width <= n /\ n % 2 ^ Width <= 2 ^ Width - 1
  /\ \A n \in Nat : n < 2 ^ Width => n % 2 ^ Width = n
  <1>1. PICK w \in Nat \ {0} : w = 2 ^ Width
    BY WidthAssumption
  <1>2. \A n \in Nat : n % w \in Nat /\ n % w <= n /\ n % w <= w - 1
    OBVIOUS
  <1>3. \A n \in Nat : n < w => n % w = n
    OBVIOUS
  <1> QED
    BY <1>1, <1>2, <1>3

THEOREM ProcessInvariant == Spec => []ProcessInv
  <1>1. Init => ProcessInv
    <2> SUFFICES ASSUME Init PROVE ProcessInv
      OBVIOUS
    <2>1. ServingInv /\ TokensInv
      BY DEF Init, ServingInv, TokensInv
    <2>2. CountersInv
      <3>1. starts \in 0 .. MaxStarts /\ now \in 0 .. MaxTime
        BY TimeAssumption DEF Init
      <3>2. up \in BOOLEAN
        BY Zenon DEF Init
      <3> QED
        BY <3>1, <3>2 DEF CountersInv
    <2> QED
      BY <2>1, <2>2 DEF ProcessInv
  <1>2. ProcessInv /\ [Next]_vars => ProcessInv'
    <2> SUFFICES ASSUME ProcessInv, [Next]_vars PROVE ProcessInv'
      OBVIOUS
    <2> USE DEF ProcessInv
    <2>1. ASSUME NEW args \in CommandLines, NEW env \in Environments, StartUp(args, env)
          PROVE  ProcessInv'
      <3>1. CountersInv'
        BY <2>1, TimeAssumption DEF StartUp, CountersInv
      <3>2. TokensInv'
        <4>1. flight' = flight /\ jar' = jar /\ starts' = starts + 1 /\ starts \in Nat
          BY <2>1 DEF StartUp, CountersInv
        <4>2. \A token : Token(token) => Token(token)'
          BY <4>1 DEF Token
        <4> QED
          BY <4>1, <4>2 DEF TokensInv
      <3>3. ServingInv'
        <4>1. PICK r : r = Loaded(args, env)
          OBVIOUS
        <4>2. CASE r.exit = None
          <5>1. /\ last' = [args |-> args, env |-> env, exit |-> None]
                /\ config' = r.config /\ secret' = SecretOf(r.config, starts')
                /\ starts' = starts + 1 /\ starts \in Nat
            BY <2>1, <4>1, <4>2 DEF StartUp, CountersInv
          <5>2. last'.args = args /\ last'.env = env /\ last'.exit = None
            BY <5>1
          <5>3. starts' >= 1
            BY <5>1
          <5> QED
            BY <4>1, <4>2, <5>1, <5>2, <5>3 DEF ServingInv
        <4>3. CASE r.exit # None
          BY <2>1, <4>1, <4>3 DEF StartUp, ServingInv
        <4> QED
          BY <4>2, <4>3
      <3> QED
        BY <3>1, <3>2, <3>3
    <2>2. CASE Stop
      BY <2>2 DEF Stop, ServingInv, TokensInv, CountersInv, Token
    <2>3. CASE Tick
      BY <2>3, TimeAssumption DEF Tick, serverVars, ServingInv, TokensInv, CountersInv, Token
    <2>4. CASE Login
      <3>1. ServingInv' /\ CountersInv'
        BY <2>4 DEF Login, serverVars, ServingInv, CountersInv
      <3>2. PICK E \in Nat : E = Expiry
        BY <2>4, LoadedIs DEF Login, ServingInv, Expiry, Numeric
      <3>3. PICK e : e = (now + E) % 2 ^ Width
        OBVIOUS
      <3>4. PICK token : token = [exp |-> e, secret |-> secret, issued |-> now, max_age |-> E,
                                  by |-> starts]
        OBVIOUS
      <3>5. Token(token)
        <4>1. starts \in 1 .. starts /\ now \in Nat
          BY <2>4, TimeAssumption DEF Login, ServingInv, CountersInv
        <4>2. secret.start \in {0, starts}
          BY <2>4 DEF Login, ServingInv, SecretOf
        <4> QED
          BY <3>3, <3>4, <4>1, <4>2 DEF Token
      <3>6. flight' = token /\ jar' = jar /\ starts' = starts
        BY <2>4, <3>2, <3>3, <3>4 DEF Login, serverVars, Exp
      <3> QED
        BY <3>1, <3>5, <3>6 DEF TokensInv, Token
    <2>5. CASE LoginAnswered
      <3>1. ServingInv' /\ CountersInv'
        BY <2>5 DEF LoginAnswered, serverVars, ServingInv, CountersInv
      <3>2. flight' = None /\ starts' = starts
            /\ (jar' = jar \/ jar' = [token |-> flight, until |-> now + flight.max_age])
        BY <2>5 DEF LoginAnswered, serverVars
      <3>3. Token(flight) /\ now + flight.max_age \in Nat
        BY <2>5, TimeAssumption DEF LoginAnswered, TokensInv, CountersInv, Token
      <3>4. \A token : \A u \in Nat : /\ [token |-> token, until |-> u].token = token
                                     /\ [token |-> token, until |-> u].until = u
        OBVIOUS
      <3> QED
        BY <3>1, <3>2, <3>3, <3>4 DEF TokensInv, Token
    <2>6. CASE UNCHANGED vars
      BY <2>6 DEF vars, serverVars, ServingInv, TokensInv, CountersInv, Token
    <2> QED
      BY <2>1, <2>2, <2>3, <2>4, <2>5, <2>6 DEF Next
  <1> QED
    BY <1>1, <1>2, PTL DEF Spec

\* The types of a server process: what it serves with is what TypeOK says.
THEOREM ProcessTypes == Spec => []TypeOK
  <1>1. ProcessInv => TypeOK
    <2> SUFFICES ASSUME ProcessInv PROVE TypeOK
      OBVIOUS
    <2> USE DEF ProcessInv
    <2>1. up => /\ config \in [Options -> STRING \cup {None}]
                /\ \A o \in Numeric : config[o] \in DOMAIN Numbers
                /\ last.exit = None
      BY LoadedIs DEF ServingInv, Strings
    <2>2. up \in BOOLEAN /\ starts \in 0 .. MaxStarts /\ now \in 0 .. MaxTime
      BY DEF CountersInv
    <2>3. PICK w \in Nat \ {0} : w = 2 ^ Width
      BY WidthAssumption
    <2>4. flight # None => flight.exp \in 0 .. 2 ^ Width - 1
      <3>1. \A n \in Nat : n % w \in 0 .. w - 1
        OBVIOUS
      <3> QED
        BY <2>3, <3>1 DEF TokensInv, Token
    <2>5. jar # None => jar.until \in Nat
      BY DEF TokensInv
    <2> QED
      BY <2>1, <2>2, <2>4, <2>5 DEF TypeOK
  <1> QED
    BY <1>1, ProcessInvariant, PTL

(* The process serves only when the command line is options and values in   *)
(* pairs with at most one --listen, and then every option is the last one   *)
(* of the command line, or that of the environment, or the default: for     *)
(* command lines of any length.                                             *)
THEOREM ServesWhatWasAskedTheorem == Spec => []ServesWhatWasAsked
  <1>1. ProcessInv => ServesWhatWasAsked
    <2> SUFFICES ASSUME ProcessInv, up PROVE ServesWhatWasAsked
      BY DEF ServesWhatWasAsked
    <2>1. PICK args \in CommandLines, env \in Environments :
            /\ args = last.args /\ env = last.env /\ Loaded(args, env).exit = None
            /\ config = Loaded(args, env).config
      BY DEF ProcessInv, ServingInv
    <2>2. PICK given, m : given = from_cli(args).opts /\ m = Len(args) \div 2
      OBVIOUS
    <2>3. /\ from_cli(args).exit = None
          /\ \A o \in Options : config[o] = IF given[o] # None THEN given[o]
                                           ELSE IF env[o] # None THEN env[o] ELSE Defaults[o]
      BY <2>1, <2>2, LoadedIs
    <2>4. args \in Seq(STRING)
      BY InputAssumption
    <2>5. Len(args) % 2 = 0 /\ LastValues(args, given, m)
      BY <2>2, <2>3, <2>4, CommandLineIs
    <2>6. \A k \in 1 .. m : args[2 * k] # None
      <3>1. PICK n \in Nat : n = Len(args) /\ \A i \in 1 .. n : args[i] \in STRING
        BY <2>4
      <3>2. \A k \in 1 .. n \div 2 : 2 * k \in 1 .. n
        OBVIOUS
      <3> QED
        BY <2>2, <3>1, <3>2, OptionsAreSet
    <2> DEFINE Given(o) == {k \in 1 .. m : args[2 * k - 1] = o}
    <2>7. ASSUME NEW o \in Options
          PROVE  \/ \E k \in Given(o) : config[o] = args[2 * k] /\ \A j \in Given(o) : j <= k
                 \/ Given(o) = {} /\ config[o] = IF env[o] # None THEN env[o] ELSE Defaults[o]
      BY <2>3, <2>5, <2>6 DEF LastValues
    <2>8. /\ \A k \in 1 .. m : args[2 * k - 1] \in Options
          /\ \A j, k \in Given("listen") : j = k
      BY <2>5 DEF LastValues
    <2>9. last.args = args /\ last.env = env /\ Len(args) % 2 = 0 /\ Len(args) \div 2 = m
      BY <2>1, <2>2, <2>5
    <2> QED
      BY <2>7, <2>8, <2>9, Zenon DEF ServesWhatWasAsked
  <1> QED
    BY <1>1, ProcessInvariant, PTL

(* A browser that still sends its cookie is let in, over restarts too, as   *)
(* long as the process has the secret of the login: when the answer was not *)
(* longer on its way than the leeway and exp has not wrapped.               *)
THEOREM SessionLastsTheorem == Spec => []SessionLasts
  <1>1. ProcessInv => SessionLasts
    <2> SUFFICES ASSUME ProcessInv,
                        Cookie # None, Cookie.secret = secret,
                        Cookie.issued + Cookie.max_age < 2 ^ Width,
                        jar.until <= Cookie.issued + Cookie.max_age + Leeway
                 PROVE  from_request_parts(None, Cookie) = "Claims"
      BY DEF SessionLasts
    <2>1. jar # None /\ now < jar.until /\ Cookie = jar.token
      BY DEF Cookie
    <2>2. Token(Cookie) /\ jar.until \in Nat /\ now \in Nat
      BY <2>1, TimeAssumption DEF ProcessInv, TokensInv, CountersInv
    <2>3. PICK n \in Nat : n = Cookie.issued + Cookie.max_age
      BY <2>2 DEF Token
    <2>4. Cookie.exp = n
      BY <2>2, <2>3, Wraps DEF Token
    <2>5. Cookie.exp + Leeway >= now
      <3>1. n + Leeway \in Nat
        BY <2>3, TimeAssumption
      <3> QED
        BY <2>1, <2>2, <2>3, <2>4, <3>1
    <2> QED
      BY <2>5 DEF from_request_parts, Valid
  <1> QED
    BY <1>1, ProcessInvariant, PTL

(* A token lets nobody in after its lifetime and the leeway, nor, unless a  *)
(* secret is configured, into a process that did not issue it.              *)
THEOREM SessionEndsTheorem == Spec => []SessionEnds
  <1>1. ProcessInv => SessionEnds
    <2> SUFFICES ASSUME ProcessInv,
                        NEW token \in ({flight} \cup (IF jar = None THEN {} ELSE {jar.token})) \ {None},
                        up, "Claims" \in {from_request_parts(token, None),
                                         optional_from_request_parts(None, token)}
                 PROVE  /\ now <= token.issued + token.max_age + Leeway
                        /\ config["secret"] = None => token.by = starts
      BY DEF SessionEnds
    <2>1. Token(token) /\ now \in Nat /\ starts \in Nat /\ starts >= 1
      BY TimeAssumption DEF ProcessInv, ServingInv, TokensInv, CountersInv
    <2>2. Valid(token)
      BY DEF from_request_parts, optional_from_request_parts
    <2>3. PICK n \in Nat : n = token.issued + token.max_age
      BY <2>1 DEF Token
    <2>4. token.exp \in Nat /\ token.exp <= n
      BY <2>1, <2>3, Wraps DEF Token
    <2>5. now <= token.issued + token.max_age + Leeway
      BY <2>1, <2>2, <2>3, <2>4, TimeAssumption DEF Valid
    <2>6. ASSUME config["secret"] = None PROVE token.by = starts
      <3>1. token.secret.start = starts
        BY <2>2, <2>6 DEF Valid, ProcessInv, ServingInv, SecretOf
      <3> QED
        BY <2>1, <3>1 DEF Token
    <2> QED
      BY <2>5, <2>6
  <1> QED
    BY <1>1, ProcessInvariant, PTL
=============================================================================
