----------------------------- MODULE UploadLedger -----------------------------
(***************************************************************************)
(* What resumable uploading promises about one path, with every operation  *)
(* a single step: a ledger of chunk statuses, the chunks whose bytes are   *)
(* stored, and whether there is a file under the final name.               *)
(* ResumableUpload is shown to implement it.                               *)
(***************************************************************************)
CONSTANTS Chunks, Absent, Wrecked

VARIABLES
  ledger,   \* the status of every chunk, Absent (no upload), or Wrecked
  data,     \* the chunks stored so far
  final,    \* is there a file under the final name?
  running   \* FALSE from the end of a process to the end of the startup scan

vars == <<ledger, data, final, running>>

IsOpen == ledger \notin {Absent, Wrecked}

Init == ledger = Absent /\ data = {} /\ final = FALSE /\ running = TRUE

Create ==
  /\ running
  /\ ledger = Absent
  /\ ledger' = [c \in Chunks |-> "NotStarted"]
  /\ UNCHANGED <<data, final, running>>

\* One chunk moves from one status to another; no other chunk does.
Move(c, from, to) ==
  /\ running
  /\ IsOpen
  /\ ledger[c] = from
  /\ ledger' = [ledger EXCEPT ![c] = to]
  /\ UNCHANGED <<data, final, running>>

Claim(c)    == Move(c, "NotStarted", "Ongoing")
Abandon(c)  == Move(c, "Ongoing", "NotStarted")
Complete(c) == c \in data /\ Move(c, "Ongoing", "Completed")

\* Bytes are stored by the request that holds the chunk.
Store(c) ==
  /\ running
  /\ IsOpen => ledger[c] = "Ongoing"
  /\ data' = data \cup {c}
  /\ UNCHANGED <<ledger, final, running>>

AllCompleted == IsOpen /\ \A c \in Chunks : ledger[c] = "Completed"

Publish ==
  /\ running
  /\ AllCompleted
  /\ data = Chunks
  /\ data' = {}
  /\ final' = TRUE
  /\ UNCHANGED <<ledger, running>>

\* The ledger goes away after the file it describes has been published.
Retire ==
  /\ running
  /\ AllCompleted
  /\ data = {}
  /\ final
  /\ ledger' = Absent
  /\ UNCHANGED <<data, final, running>>

\* A failure in the middle of writing the ledger loses it.
Wreck ==
  /\ IsOpen
  /\ ledger' = Wrecked
  /\ UNCHANGED <<data, final, running>>

\* The process ends, possibly in the middle of writing the ledger.
Stop ==
  /\ running
  /\ running' = FALSE
  /\ ledger' = ledger \/ (IsOpen /\ ledger' = Wrecked)
  /\ UNCHANGED <<data, final>>

\* A restart gives up the claims of the requests that died, and only those,
\* unless it cannot read the ledger, or fails in the middle of writing it.
Restart ==
  /\ ~running
  /\ running' = TRUE
  /\ \/ ledger' = IF IsOpen
                  THEN [c \in Chunks |-> IF ledger[c] = "Ongoing" THEN "NotStarted"
                                                                  ELSE ledger[c]]
                  ELSE ledger
     \/ ledger' = ledger
     \/ IsOpen /\ ledger' = Wrecked
  /\ UNCHANGED <<data, final>>

Next ==
  \/ Create \/ Publish \/ Retire \/ Wreck \/ Stop \/ Restart
  \/ \E c \in Chunks : Claim(c) \/ Abandon(c) \/ Complete(c) \/ Store(c)

Spec == Init /\ [][Next]_vars
=============================================================================
