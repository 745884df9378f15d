--------------------------- MODULE ResourceFiles ----------------------------
(***************************************************************************)
(* filesystem_adapters::ResourceSerializer and ResourceDeserializer: the   *)
(* resources of a process saved in files <key>.bin, one directory.         *)
(*                                                                         *)
(* A resource has its own mutex, which a LockedResource holds; all file    *)
(* operations of the process share one recursive mutex.  Serialize runs    *)
(* under both: it compares the resource's checksum with the one of the     *)
(* last attempt, writes a temporary file and renames it.  The process may  *)
(* crash between any two steps; its resources are gone then, the directory *)
(* stays as it is.  (The machine does not crash: the code never syncs.)    *)
(*                                                                         *)
(* Empty keys and paths are refused without any effect and are not among   *)
(* the inputs.                                                             *)
(***************************************************************************)
EXTENDS Integers

CONSTANTS Threads, Resources, Keys, Data, Crc, Faults, None, Torn

\* Crc[d] is what Checksum computes for d.  Faults: the file system calls that may
\* fail.  None stands for no file, Torn for a file with only a part of its data.
ASSUME FilesAssumption ==
  /\ Crc \in [Data -> Int]
  /\ Faults \subseteq {"mkdir", "open", "write", "rename", "remove"}
  /\ None \notin Data \cup Resources \cup Keys /\ Torn \notin Data /\ None # Torn

VARIABLES
  data,       \* the content of each resource
  checkSum,   \* checkSum_ of each resource
  dirty,      \* dirty_ of each resource
  job,        \* what each thread is doing
  file,       \* the file of each key
  tmp,        \* the temporary file of each key
  registered, \* the keys of keyToResourceMap_
  loaded      \* what Deserialize returned last; only records

resourceVars == <<data, checkSum, dirty>>
diskVars == <<file, tmp>>
vars == <<resourceVars, job, diskVars, registered, loaded>>

\* checkSum_ of a resource that nobody has tried to save.
NeverSummed == -1

Idle == [step |-> "idle", resource |-> None, key |-> None, seen |-> None]

\* A process that has just started, with some content in each resource.
Init ==
  /\ data \in [Resources -> Data]
  /\ checkSum = [r \in Resources |-> NeverSummed]
  /\ dirty = [r \in Resources |-> TRUE]
  /\ job = [t \in Threads |-> Idle]
  /\ registered = {}
  /\ file = [k \in Keys |-> None]
  /\ tmp = [k \in Keys |-> None]
  /\ loaded = None

\* Some LockedResource for r is alive: its owner passed it to Serialize.
Locked(r) == \E t \in Threads : job[t].resource = r

\* Nobody holds the global file lock.
BugFileLockForReadersOnly == \A t \in Threads : job[t].step # "reading"

FileLockFree ==
  \A t \in Threads : job[t].step \notin {"opening", "writing", "renaming", "reading"}

\* The call returns, or throws: both locks are released.
BugDoneKeepsResource(t) == job' = [job EXCEPT ![t] = [@ EXCEPT !.step = "idle", !.key = None]]
Done(t) == job' = [job EXCEPT ![t] = Idle]

-----------------------------------------------------------------------------
(* The resource.                                                           *)

\* The owner locks the resource and writes through Data() or Assign.
Modify(r, d) ==
  /\ ~Locked(r)
  /\ d # data[r]
  /\ data' = [data EXCEPT ![r] = d]
  /\ UNCHANGED <<checkSum, dirty, job, diskVars, registered, loaded>>

-----------------------------------------------------------------------------
(* Serialize.                                                              *)

\* The caller locks the resource: Serialize(resource.Lock(), key, path).
Lock(t, r, k) ==
  /\ job[t].step = "idle"
  /\ ~Locked(r)
  /\ job' = [job EXCEPT ![t] = [@ EXCEPT !.step = "locked", !.resource = r, !.key = k]]
  /\ UNCHANGED <<resourceVars, diskVars, registered, loaded>>

\* With the file lock, the directory cannot be created.
NoDirectory(t) ==
  /\ job[t].step = "locked"
  /\ FileLockFree
  /\ "mkdir" \in Faults
  /\ Done(t)
  /\ UNCHANGED <<resourceVars, diskVars, registered, loaded>>

\* UpdateChecksum finds the checksum of the last attempt: Serialize returns.
Skip(t) ==
  LET r == job[t].resource IN
  /\ job[t].step = "locked"
  /\ FileLockFree
  /\ Crc[data[r]] = checkSum[r]
  /\ dirty' = [dirty EXCEPT ![r] = FALSE]
  /\ Done(t)
  /\ UNCHANGED <<data, checkSum, diskVars, registered, loaded>>

\* UpdateChecksum finds another one and keeps it, before anything is written.
UpdateChecksum(t) ==
  LET r == job[t].resource IN
  /\ job[t].step = "locked"
  /\ FileLockFree
  /\ Crc[data[r]] # checkSum[r]
  /\ checkSum' = [checkSum EXCEPT ![r] = Crc[data[r]]]
  /\ dirty' = [dirty EXCEPT ![r] = TRUE]
  /\ job' = [job EXCEPT ![t].step = "opening"]
  /\ UNCHANGED <<data, diskVars, registered, loaded>>

\* The temporary file is opened: an old one is truncated.
Open(t) ==
  /\ job[t].step = "opening"
  /\ tmp' = [tmp EXCEPT ![job[t].key] = Torn]
  /\ job' = [job EXCEPT ![t].step = "writing"]
  /\ UNCHANGED <<resourceVars, file, registered, loaded>>

OpenFails(t) ==
  /\ job[t].step = "opening"
  /\ "open" \in Faults
  /\ Done(t)
  /\ UNCHANGED <<resourceVars, diskVars, registered, loaded>>

\* Sizes and data are written.  Whether the stream failed is never looked at.
Write(t) ==
  /\ job[t].step = "writing"
  /\ \/ tmp' = [tmp EXCEPT ![job[t].key] = data[job[t].resource]]
     \/ "write" \in Faults /\ UNCHANGED tmp
  /\ job' = [job EXCEPT ![t].step = "renaming"]
  /\ UNCHANGED <<resourceVars, file, registered, loaded>>

Rename(t) ==
  LET k == job[t].key IN
  /\ job[t].step = "renaming"
  /\ tmp[k] # None
  /\ file' = [file EXCEPT ![k] = tmp[k]]
  /\ tmp' = [tmp EXCEPT ![k] = None]
  /\ Done(t)
  /\ UNCHANGED <<resourceVars, registered, loaded>>

\* The temporary file stays behind.
RenameFails(t) ==
  /\ job[t].step = "renaming"
  /\ "rename" \in Faults \/ tmp[job[t].key] = None
  /\ Done(t)
  /\ UNCHANGED <<resourceVars, diskVars, registered, loaded>>

\* If the file is there it is made writable and removed; one of the two may fail.
Unserialize(k) ==
  /\ FileLockFree
  /\ \/ file' = [file EXCEPT ![k] = None]
     \/ "remove" \in Faults /\ UNCHANGED file
  /\ UNCHANGED <<resourceVars, job, tmp, registered, loaded>>

-----------------------------------------------------------------------------
(* Deserialize, and the constructors it uses.                              *)

\* Opens the file, if there is one.
DeserializeOpens(t, k) ==
  /\ job[t].step = "idle"
  /\ FileLockFree
  /\ file[k] # None
  /\ job' = [job EXCEPT ![t] = [@ EXCEPT !.step = "reading", !.key = k, !.seen = file[k]]]
  /\ UNCHANGED <<resourceVars, diskVars, registered, loaded>>

\* Asks the path for the size, reads as much from the open file, and fills a new
\* resource.  The size says whether the data is whole only if nobody has replaced
\* the file in between; a part of the data is not noticed.
DeserializeReturns(t) ==
  LET k == job[t].key IN
  /\ job[t].step = "reading"
  /\ k \in registered
  /\ loaded' = [key |-> k, value |-> IF file[k] = job[t].seen THEN file[k] ELSE Torn]
  /\ Done(t)
  /\ UNCHANGED <<resourceVars, diskVars, registered>>

\* A file shorter than its sizes fails the read; without a constructor for the key
\* GenerateResource throws.
DeserializeThrows(t) ==
  /\ job[t].step = "reading"
  /\ job[t].seen = Torn \/ job[t].key \notin registered
  /\ Done(t)
  /\ UNCHANGED <<resourceVars, diskVars, registered, loaded>>

RegisterResource(k) ==
  /\ FileLockFree
  /\ k \notin registered
  /\ registered' = registered \cup {k}
  /\ UNCHANGED <<resourceVars, job, diskVars, loaded>>

UnregisterResource(k) ==
  /\ FileLockFree
  /\ k \in registered
  /\ registered' = registered \ {k}
  /\ UNCHANGED <<resourceVars, job, diskVars, loaded>>

UnregisterAll ==
  /\ FileLockFree
  /\ registered' = {}
  /\ UNCHANGED <<resourceVars, job, diskVars, loaded>>

\* The process dies, and the next one has resources of its own.
Crash ==
  /\ data' \in [Resources -> Data]
  /\ checkSum' = [r \in Resources |-> NeverSummed]
  /\ dirty' = [r \in Resources |-> TRUE]
  /\ job' = [t \in Threads |-> Idle]
  /\ registered' = {}
  /\ UNCHANGED <<diskVars, loaded>>

SerializerStep(t) ==
  \/ \E r \in Resources, k \in Keys : Lock(t, r, k)
  \/ NoDirectory(t) \/ Skip(t) \/ UpdateChecksum(t)
  \/ Open(t) \/ OpenFails(t) \/ Write(t) \/ Rename(t) \/ RenameFails(t)

DeserializerStep ==
  \/ \E t \in Threads :
       \/ \E k \in Keys : DeserializeOpens(t, k)
       \/ DeserializeReturns(t) \/ DeserializeThrows(t)
  \/ \E k \in Keys : RegisterResource(k) \/ UnregisterResource(k)
  \/ UnregisterAll

Next ==
  \/ \E t \in Threads : SerializerStep(t)
  \/ \E k \in Keys : Unserialize(k)
  \/ DeserializerStep
  \/ \E r \in Resources, d \in Data : Modify(r, d)
  \/ Crash

Spec == Init /\ [][Next]_vars

-----------------------------------------------------------------------------
(* Properties.                                                             *)

Jobs ==
  [step : {"idle", "locked", "opening", "writing", "renaming", "reading"},
   resource : Resources \cup {None}, key : Keys \cup {None},
   seen : Data \cup {None, Torn}]

\* Types; and a thread has a resource exactly while it serializes.
TypeOK ==
  /\ data \in [Resources -> Data]
  /\ checkSum \in [Resources -> Int]
  /\ dirty \in [Resources -> BOOLEAN]
  /\ job \in [Threads -> Jobs]
  /\ file \in [Keys -> Data \cup {None, Torn}]
  /\ tmp \in [Keys -> Data \cup {None, Torn}]
  /\ registered \subseteq Keys
  /\ loaded \in [key : Keys, value : Data \cup {Torn}] \cup {None}
  /\ \A t \in Threads :
       /\ job[t].resource # None <=> job[t].step \notin {"idle", "reading"}
       /\ job[t].key = None <=> job[t].step = "idle"

\* The file a Serialize puts in place holds the data of its own resource, whichever
\* other threads save under the same key at the same time.
SavesItsResource ==
  [][\A t \in Threads : Rename(t) => file'[job[t].key] = data[job[t].resource]]_vars

\* Saves, removals and loads of any threads, with crashes in between, are those of a
\* store of whole values: no reader meets a part of a value or a mix of two.
Store == INSTANCE KeyValueStore WITH Values <- Data, store <- file, answer <- loaded
ImplementsStore == Store!Spec
=============================================================================
