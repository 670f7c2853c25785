------------------------------- MODULE SafePath -------------------------------
(***************************************************************************)
(* safe_path.rs: a path given by a user, as its parts between slashes: "", *)
(* ".", "..", or a name.  A path on the disk is a sequence of names.       *)
(***************************************************************************)
EXTENDS Naturals, Sequences

CONSTANT InvalidPath   \* refused

\* What Path::components makes of the parts: "" and "." vanish, but for a
\* leading slash and a leading ".".
Components(parts) ==
  LET Kind(i) == CASE parts[i] = "" /\ i = 1 /\ Len(parts) > 1    -> "RootDir"
                   [] parts[i] = "" /\ ~(i = 1 /\ Len(parts) > 1) -> "nothing"
                   [] parts[i] = "." /\ i = 1                     -> "CurDir"
                   [] parts[i] = "." /\ i > 1                     -> "nothing"
                   [] parts[i] = ".."                             -> "ParentDir"
                   [] OTHER                                       -> "Normal"
  IN {Kind(i) : i \in DOMAIN parts} \ {"nothing"}

\* Mutant: an absolute path is let through.
JoinableAbsolute(parts) == Components(parts) \subseteq {"Normal", "RootDir"}

Joinable(parts) == Components(parts) \subseteq {"Normal"}

\* A step of the resolution of a path by the file system: ".." leaves a directory.
Walk(dir, part) ==
  CASE part \in {"", "."}             -> dir
    [] part = ".." /\ dir = <<>>      -> dir
    [] part = ".." /\ dir # <<>>      -> SubSeq(dir, 1, Len(dir) - 1)
    [] OTHER                          -> Append(dir, part)

\* Path::join and the resolution of the result: an absolute path replaces the base.
Resolve(base, parts) ==
  LET absolute == Len(parts) > 1 /\ parts[1] = ""
      dir[n \in 0 .. Len(parts)] == IF n = 0 THEN IF absolute THEN <<>> ELSE base
                                             ELSE Walk(dir[n - 1], parts[n])
  IN dir[Len(parts)]

safe_join(base, parts) == IF Joinable(parts) THEN Resolve(base, parts) ELSE InvalidPath

\* <name>.form-upload: the last part of the name becomes an ordinary name.
FormUploadName(parts) == [parts EXCEPT ![Len(parts)] = "temp"]

\* The files a form upload of this name may create and rename to.
FormTargets(store, path, name) ==
  LET dir == safe_join(store, path)
  IN IF dir = InvalidPath THEN {}
     ELSE {safe_join(dir, FormUploadName(name)), safe_join(dir, name)} \ {InvalidPath}
=============================================================================
