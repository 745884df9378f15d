------------------------ MODULE ResourceFilesProofs ------------------------
(***************************************************************************)
(* Proofs about ResourceFiles for any threads, resources, keys and data,   *)
(* and about EntityFiles for any entities and members.                     *)
(*                                                                         *)
(* The inductive invariant of ResourceFiles is about the two kinds of      *)
(* lock: one thread at a time is at work on files, and one thread at a     *)
(* time has a resource.  A thread between two of its steps then finds what *)
(* it left: the resource it summed, the temporary file it wrote, the file  *)
(* it opened.  That of EntityFiles is about its two hierarchies, the one   *)
(* in the file and the serializer's: each lists with an entity the members *)
(* that were saved with it.                                                *)
(***************************************************************************)
EXTENDS ResourceFiles, EntityFiles, TLAPS, SequenceTheorems, WellFoundedInduction

\* The steps between which a thread holds the file lock of the process.
Exclusive == {"opening", "writing", "renaming", "reading"}

\* One recursive mutex for all file operations of the process
\* (ResourceSerializer.cpp:55-58, ResourceDeserializer.cpp:62-65).
OneAtFiles ==
  \A t, u \in Threads : job[t].step \in Exclusive /\ job[u].step \in Exclusive => t = u

\* A LockedResource is the only one for its resource (ISerializableResource.h:28-59).
OnePerResource ==
  \A t, u \in Threads : job[t].resource = job[u].resource /\ job[t].resource # None => t = u

\* Deserialize still has the file it opened under its name
\* (ResourceDeserializer.cpp:67-84).
ReadsTheFile ==
  \A t \in Threads : job[t].step = "reading" => job[t].seen = file[job[t].key] /\ job[t].seen # None

\* Writes of the temporary file succeed: the code does not look at the stream.
WritesSucceed == "write" \notin Faults

\* What a write leaves of some data.
Written(d) == {d} \cup IF WritesSucceed THEN {} ELSE {Torn}

\* A temporary file that is opened is empty; what is renamed is the resource, or torn if
\* the write has failed (ResourceSerializer.cpp:60-84).
WritesTheResource ==
  \A t \in Threads :
    /\ job[t].step = "writing" => tmp[job[t].key] = Torn
    /\ job[t].step = "renaming" => tmp[job[t].key] \in Written(data[job[t].resource])

FilesWhole == WritesSucceed => \A k \in Keys : file[k] # Torn

Locks == TypeOK /\ OneAtFiles /\ OnePerResource /\ ReadsTheFile

\* What Locks says of the threads, and what it says of the rest of the state.
Threading ==
  /\ job \in [Threads -> Jobs]
  /\ \A t \in Threads :
       /\ job[t].resource # None <=> job[t].step \notin {"idle", "reading"}
       /\ job[t].key = None <=> job[t].step = "idle"
  /\ OneAtFiles /\ OnePerResource /\ ReadsTheFile

Storing ==
  /\ data \in [Resources -> Data]
  /\ checkSum \in [Resources -> Int]
  /\ dirty \in [Resources -> BOOLEAN]
  /\ file \in [Keys -> Data \cup {None, Torn}]
  /\ tmp \in [Keys -> Data \cup {None, Torn}]
  /\ registered \subseteq Keys
  /\ loaded \in [key : Keys, value : Data \cup {Torn}] \cup {None}

IInv == Locks /\ WritesTheResource /\ FilesWhole

-----------------------------------------------------------------------------
(* The locks.                                                              *)

LEMMA InitLocks == Init => Locks
<1> SUFFICES ASSUME Init PROVE Locks
  OBVIOUS
<1> USE FilesAssumption DEF Init
<1>1. Idle \in Jobs
  BY DEF Idle, Jobs
<1>2. \A t \in Threads : job[t] = Idle
  OBVIOUS
<1>3. checkSum \in [Resources -> Int]
  BY DEF NeverSummed
<1>4. TypeOK
  BY <1>1, <1>2, <1>3 DEF TypeOK, Idle
<1> QED
  BY <1>2, <1>4 DEF Locks, OneAtFiles, OnePerResource, ReadsTheFile, Idle, Exclusive

\* A thread whose call ends is like one that never called.
LEMMA DoneKeepsLocks ==
  ASSUME Locks, NEW t \in Threads, Done(t),
         \/ UNCHANGED file
         \/ job[t].step \in Exclusive /\ file' \in [Keys -> Data \cup {None, Torn}]
  PROVE  Threading'
<1>1. Idle \in Jobs
  BY DEF Idle, Jobs
<1>2. \A u \in Threads : job'[u] = IF u = t THEN Idle ELSE job[u]
  BY DEF Done, Locks, TypeOK
<1>3. job' \in [Threads -> Jobs]
  BY <1>1 DEF Done, Locks, TypeOK
<1>4. \A u \in Threads : u # t /\ job[u].step = "reading" => UNCHANGED file
  BY DEF Locks, OneAtFiles, Exclusive
<1>5. \A u \in Threads :
        /\ job'[u].resource # None <=> job'[u].step \notin {"idle", "reading"}
        /\ job'[u].key = None <=> job'[u].step = "idle"
  BY <1>2 DEF Idle, Locks, TypeOK
<1>6. OneAtFiles'
  BY <1>2 DEF Idle, Locks, OneAtFiles, Exclusive
<1>7. OnePerResource'
  BY <1>2 DEF Idle, Locks, OnePerResource
<1>8. ReadsTheFile'
  BY <1>2, <1>4 DEF Idle, Locks, ReadsTheFile
<1> QED
  BY <1>3, <1>5, <1>6, <1>7, <1>8 DEF Threading

\* A thread that goes one step further with the file lock, or takes it when it is free.
LEMMA AdvanceKeepsLocks ==
  ASSUME Locks, NEW t \in Threads, NEW j \in Jobs,
         job' = [job EXCEPT ![t] = j],
         UNCHANGED file,
         j.step \in Exclusive => job[t].step \in Exclusive \/ FileLockFree,
         j.resource # None => job[t].resource = j.resource \/ ~Locked(j.resource),
         j.resource # None <=> j.step \notin {"idle", "reading"},
         j.key = None <=> j.step = "idle",
         j.step = "reading" => j.seen = file[j.key] /\ j.seen # None
  PROVE  Threading'
<1>1. job' \in [Threads -> Jobs] /\ \A u \in Threads : job'[u] = IF u = t THEN j ELSE job[u]
  BY DEF Locks, TypeOK
<1>2. \A u \in Threads :
        /\ job'[u].resource # None <=> job'[u].step \notin {"idle", "reading"}
        /\ job'[u].key = None <=> job'[u].step = "idle"
  BY <1>1 DEF Locks, TypeOK
<1>3. OneAtFiles'
  BY <1>1 DEF Locks, OneAtFiles, Exclusive, FileLockFree
<1>4. OnePerResource'
  BY <1>1 DEF Locks, OnePerResource, Locked
<1>5. ReadsTheFile'
  BY <1>1 DEF Locks, ReadsTheFile
<1> QED
  BY <1>1, <1>2, <1>3, <1>4, <1>5 DEF Threading

LEMMA LocksParts == Threading /\ Storing <=> Locks
BY DEF Threading, Storing, Locks, TypeOK

\* The job of a thread that goes on with its Serialize.
LEMMA NextStep ==
  ASSUME TypeOK, NEW t \in Threads, job[t].step \in {"locked", "opening", "writing"},
         NEW step \in {"opening", "writing", "renaming"}
  PROVE  LET j == [job[t] EXCEPT !.step = step] IN
         /\ j \in Jobs /\ j.step = step
         /\ j.resource = job[t].resource /\ j.resource \in Resources
         /\ j.key = job[t].key /\ j.key \in Keys
<1>1. job[t] \in Jobs /\ job[t].resource # None /\ job[t].key # None
  BY DEF TypeOK
<1>2. CASE step = "opening"
  BY <1>1, <1>2 DEF Jobs
<1>3. CASE step = "writing"
  BY <1>1, <1>3 DEF Jobs
<1>4. CASE step = "renaming"
  BY <1>1, <1>4 DEF Jobs
<1> QED BY <1>2, <1>3, <1>4

LEMMA LocksStep ==
  ASSUME Locks, [Next]_vars
  PROVE  Locks'
<1> USE FilesAssumption DEF resourceVars, diskVars
<1>0. TypeOK /\ OneAtFiles /\ OnePerResource /\ ReadsTheFile /\ Storing
  BY LocksParts DEF Locks
<1> SUFFICES Threading' /\ Storing'
  BY DEF Threading, Storing, Locks, TypeOK
<1>1. CASE UNCHANGED vars
  BY <1>0, <1>1 DEF vars, TypeOK, Threading, Storing, OneAtFiles, OnePerResource, ReadsTheFile
<1>2. ASSUME NEW t \in Threads, NEW r \in Resources, NEW k \in Keys, Lock(t, r, k)
      PROVE  Threading' /\ Storing'
  <2> DEFINE j == [job[t] EXCEPT !.step = "locked", !.resource = r, !.key = k]
  <2>0. job[t] \in Jobs
    BY <1>0 DEF TypeOK
  <2>1. j \in Jobs /\ j.step = "locked" /\ j.resource = r /\ j.key = k
    BY <2>0 DEF Jobs
  <2>2. job' = [job EXCEPT ![t] = j]
    BY <1>2 DEF Lock
  <2> HIDE DEF j
  <2>3. ~Locked(j.resource) /\ UNCHANGED file
    BY <1>2, <2>1 DEF Lock
  <2>4. j.step \notin Exclusive /\ j.resource # None /\ j.key # None
    BY <2>1 DEF Exclusive
  <2>5. Threading'
    BY <2>1, <2>2, <2>3, <2>4, AdvanceKeepsLocks
  <2>6. Storing'
    BY <1>0, <1>2 DEF Lock, Storing
  <2> QED BY <2>5, <2>6
<1>3. ASSUME NEW t \in Threads, NoDirectory(t) \/ Skip(t) \/ OpenFails(t) \/ RenameFails(t)
      PROVE  Threading' /\ Storing'
  <2>1. Done(t) /\ UNCHANGED <<data, checkSum, file, tmp, registered, loaded>>
    BY <1>3 DEF NoDirectory, Skip, OpenFails, RenameFails
  <2>2. dirty' \in [Resources -> BOOLEAN]
    BY <1>0, <1>3 DEF Storing, NoDirectory, Skip, OpenFails, RenameFails
  <2>3. Threading'
    BY <2>1, DoneKeepsLocks
  <2> QED BY <1>0, <2>1, <2>2, <2>3 DEF Storing
<1>4. ASSUME NEW t \in Threads, UpdateChecksum(t) PROVE Threading' /\ Storing'
  <2> DEFINE j == [job[t] EXCEPT !.step = "opening"]
  <2>1. /\ j \in Jobs /\ j.step = "opening"
        /\ j.resource = job[t].resource /\ j.resource \in Resources
        /\ j.key = job[t].key /\ j.key \in Keys
    BY <1>0, <1>4, NextStep DEF UpdateChecksum
  <2>2. job' = [job EXCEPT ![t] = j] /\ UNCHANGED file
    BY <1>4 DEF UpdateChecksum
  <2> HIDE DEF j
  <2>3. job[t].step \in Exclusive \/ FileLockFree
    BY <1>4 DEF UpdateChecksum, Exclusive
  <2>4. j.resource # None /\ j.key # None
    BY <2>1
  <2>5. Threading'
    BY <2>1, <2>2, <2>3, <2>4, AdvanceKeepsLocks
  <2>6. checkSum' \in [Resources -> Int] /\ dirty' \in [Resources -> BOOLEAN]
        /\ tmp' \in [Keys -> Data \cup {None, Torn}]
    BY <1>0, <1>4, <2>1 DEF UpdateChecksum, Storing
  <2>7. UNCHANGED <<data, file, registered, loaded>>
    BY <1>4 DEF UpdateChecksum
  <2> QED BY <1>0, <2>5, <2>6, <2>7 DEF Storing
<1>5. ASSUME NEW t \in Threads, Open(t) PROVE Threading' /\ Storing'
  <2> DEFINE j == [job[t] EXCEPT !.step = "writing"]
  <2>1. /\ j \in Jobs /\ j.step = "writing"
        /\ j.resource = job[t].resource /\ j.resource \in Resources
        /\ j.key = job[t].key /\ j.key \in Keys
    BY <1>0, <1>5, NextStep DEF Open
  <2>2. job' = [job EXCEPT ![t] = j] /\ UNCHANGED file
    BY <1>5 DEF Open
  <2> HIDE DEF j
  <2>3. job[t].step \in Exclusive \/ FileLockFree
    BY <1>5 DEF Open, Exclusive
  <2>4. j.resource # None /\ j.key # None
    BY <2>1
  <2>5. Threading'
    BY <2>1, <2>2, <2>3, <2>4, AdvanceKeepsLocks
  <2>6. checkSum' \in [Resources -> Int] /\ dirty' \in [Resources -> BOOLEAN]
        /\ tmp' \in [Keys -> Data \cup {None, Torn}]
    BY <1>0, <1>5, <2>1 DEF Open, Storing
  <2>7. UNCHANGED <<data, file, registered, loaded>>
    BY <1>5 DEF Open
  <2> QED BY <1>0, <2>5, <2>6, <2>7 DEF Storing
<1>6. ASSUME NEW t \in Threads, Write(t) PROVE Threading' /\ Storing'
  <2> DEFINE j == [job[t] EXCEPT !.step = "renaming"]
  <2>1. /\ j \in Jobs /\ j.step = "renaming"
        /\ j.resource = job[t].resource /\ j.resource \in Resources
        /\ j.key = job[t].key /\ j.key \in Keys
    BY <1>0, <1>6, NextStep DEF Write
  <2>2. job' = [job EXCEPT ![t] = j] /\ UNCHANGED file
    BY <1>6 DEF Write
  <2> HIDE DEF j
  <2>3. job[t].step \in Exclusive \/ FileLockFree
    BY <1>6 DEF Write, Exclusive
  <2>4. j.resource # None /\ j.key # None
    BY <2>1
  <2>5. Threading'
    BY <2>1, <2>2, <2>3, <2>4, AdvanceKeepsLocks
  <2>6. checkSum' \in [Resources -> Int] /\ dirty' \in [Resources -> BOOLEAN]
        /\ tmp' \in [Keys -> Data \cup {None, Torn}]
    BY <1>0, <1>6, <2>1 DEF Write, Storing
  <2>7. UNCHANGED <<data, file, registered, loaded>>
    BY <1>6 DEF Write
  <2> QED BY <1>0, <2>5, <2>6, <2>7 DEF Storing
<1>7. ASSUME NEW t \in Threads, Rename(t) PROVE Threading' /\ Storing'
  <2>1. file' \in [Keys -> Data \cup {None, Torn}] /\ tmp' \in [Keys -> Data \cup {None, Torn}]
    BY <1>0, <1>7 DEF Rename, TypeOK, Jobs
  <2>2. job[t].step \in Exclusive
    BY <1>7 DEF Rename, Exclusive
  <2>3. Done(t) /\ UNCHANGED <<data, checkSum, dirty, registered, loaded>>
    BY <1>7 DEF Rename
  <2>4. Threading'
    BY <2>1, <2>2, <2>3, DoneKeepsLocks
  <2> QED BY <1>0, <2>1, <2>3, <2>4 DEF Storing
<1>8. ASSUME NEW k \in Keys, Unserialize(k) PROVE Threading' /\ Storing'
  <2>1. \A t \in Threads : job[t].step # "reading"
    BY <1>8 DEF Unserialize, FileLockFree
  <2>2. file' \in [Keys -> Data \cup {None, Torn}]
    BY <1>0, <1>8 DEF Unserialize, Storing
  <2>3. UNCHANGED <<data, checkSum, dirty, job, tmp, registered, loaded>>
    BY <1>8 DEF Unserialize
  <2>4. Threading'
    BY <1>0, <2>1, <2>3 DEF TypeOK, Threading, OneAtFiles, OnePerResource, ReadsTheFile
  <2> QED BY <1>0, <2>2, <2>3, <2>4 DEF Storing
<1>9. ASSUME NEW t \in Threads, NEW k \in Keys, DeserializeOpens(t, k)
      PROVE  Threading' /\ Storing'
  <2> DEFINE j == [job[t] EXCEPT !.step = "reading", !.key = k, !.seen = file[k]]
  <2>0. job[t] \in Jobs /\ job[t].resource = None /\ file[k] \in Data \cup {None, Torn}
    BY <1>0, <1>9 DEF TypeOK, DeserializeOpens
  <2>1. j \in Jobs /\ j.step = "reading" /\ j.resource = None /\ j.key = k /\ j.seen = file[k]
    BY <2>0 DEF Jobs
  <2>2. job' = [job EXCEPT ![t] = j]
    BY <1>9 DEF DeserializeOpens
  <2> HIDE DEF j
  <2>3. FileLockFree /\ file[k] # None /\ UNCHANGED <<resourceVars, diskVars, registered, loaded>>
    BY <1>9 DEF DeserializeOpens
  <2>4. j.key # None /\ j.seen = file[j.key] /\ j.seen # None
    BY <2>1, <2>3
  <2>5. Threading'
    BY <2>1, <2>2, <2>3, <2>4, AdvanceKeepsLocks
  <2> QED BY <1>0, <2>3, <2>5 DEF Storing
<1>10. ASSUME NEW t \in Threads, DeserializeReturns(t) \/ DeserializeThrows(t)
       PROVE  Threading' /\ Storing'
  <2>1. job[t].step = "reading" /\ Done(t) /\ UNCHANGED <<resourceVars, file, tmp, registered>>
    BY <1>10 DEF DeserializeReturns, DeserializeThrows
  <2>2. job[t].key \in Keys /\ file[job[t].key] \in Data \cup {Torn}
    BY <1>0, <2>1 DEF TypeOK, ReadsTheFile, Jobs
  <2>3. loaded' \in [key : Keys, value : Data \cup {Torn}] \cup {None}
    BY <1>0, <1>10, <2>2 DEF DeserializeReturns, DeserializeThrows, Storing
  <2>4. Threading'
    BY <2>1, DoneKeepsLocks
  <2> QED BY <1>0, <2>1, <2>3, <2>4 DEF Storing
<1>11. ASSUME \/ \E k \in Keys : RegisterResource(k) \/ UnregisterResource(k)
              \/ UnregisterAll
              \/ \E r \in Resources, d \in Data : Modify(r, d)
       PROVE  Threading' /\ Storing'
  <2>1. UNCHANGED <<checkSum, dirty, job, file, tmp, loaded>>
    BY <1>11 DEF RegisterResource, UnregisterResource, UnregisterAll, Modify
  <2>2. data' \in [Resources -> Data] /\ registered' \subseteq Keys
    BY <1>0, <1>11 DEF RegisterResource, UnregisterResource, UnregisterAll, Modify, Storing
  <2>3. Threading'
    BY <1>0, <2>1 DEF TypeOK, Threading, OneAtFiles, OnePerResource, ReadsTheFile
  <2> QED BY <1>0, <2>1, <2>2, <2>3 DEF Storing
<1>12. CASE Crash
  <2>1. job' \in [Threads -> Jobs] /\ \A t \in Threads : job'[t] = Idle
    BY <1>12 DEF Crash, Idle, Jobs
  <2>2. checkSum' \in [Resources -> Int] /\ dirty' \in [Resources -> BOOLEAN]
    BY <1>12 DEF Crash, NeverSummed
  <2>3. Threading'
    BY <2>1 DEF Idle, Exclusive, Threading, OneAtFiles, OnePerResource, ReadsTheFile
  <2>4. data' \in [Resources -> Data] /\ registered' = {} /\ UNCHANGED <<file, tmp, loaded>>
    BY <1>12 DEF Crash
  <2> QED BY <1>0, <2>2, <2>3, <2>4 DEF Storing
<1> QED
  BY <1>1, <1>2, <1>3, <1>4, <1>5, <1>7, <1>8, <1>9, <1>10, <1>11, <1>12, <1>6
  DEF Next, SerializerStep, DeserializerStep

LEMMA LocksInvariant == Spec => []Locks
BY InitLocks, LocksStep, PTL DEF Spec

-----------------------------------------------------------------------------
(* What the locks are for.                                                 *)

LEMMA WholeStep ==
  ASSUME IInv, [Next]_vars
  PROVE  WritesTheResource' /\ FilesWhole'
<1> USE DEF resourceVars, diskVars
<1>0. TypeOK /\ OneAtFiles /\ OnePerResource /\ WritesTheResource /\ FilesWhole
  BY DEF IInv, Locks
<1>1. \A t \in Threads : job[t].step \in {"writing", "renaming"} =>
        job[t].key \in Keys /\ job[t].resource \in Resources
  BY <1>0 DEF TypeOK, Jobs
\* Data and temporary files that stay, while nobody starts to write or to rename.
<1>2. ASSUME UNCHANGED <<data, tmp>>,
             \A t \in Threads : job'[t] = job[t] \/ job'[t].step \notin {"writing", "renaming"}
      PROVE  WritesTheResource'
  BY <1>0, <1>2 DEF WritesTheResource
<1>3. ASSUME NEW t \in Threads, Rename(t)
      PROVE  WritesTheResource' /\ FilesWhole'
  <2>1. job[t].key \in Keys /\ job[t].resource \in Resources
    BY <1>1, <1>3 DEF Rename
  <2>2. WritesSucceed => tmp[job[t].key] \in Data
    BY <1>0, <1>3, <2>1 DEF Rename, WritesTheResource, Written, TypeOK
  <2>3. FilesWhole'
    BY <1>0, <1>3, <2>1, <2>2, FilesAssumption DEF Rename, FilesWhole, TypeOK
  <2>4. \A u \in Threads : job'[u].step \notin {"writing", "renaming"}
    BY <1>0, <1>3 DEF Rename, Done, Idle, OneAtFiles, Exclusive, TypeOK
  <2> QED BY <2>3, <2>4 DEF WritesTheResource
<1>4. ASSUME NEW t \in Threads, Write(t)
      PROVE  WritesTheResource' /\ FilesWhole'
  <2>1. \A u \in Threads : u # t => job'[u] = job[u] /\ job[u].step \notin {"writing", "renaming"}
    BY <1>0, <1>4 DEF Write, OneAtFiles, Exclusive, TypeOK
  <2>2. job[t] \in Jobs /\ job[t].key \in Keys
    BY <1>0, <1>4 DEF Write, TypeOK, Jobs
  <2>3. /\ job'[t].key = job[t].key /\ job'[t].resource = job[t].resource
        /\ job'[t].step = "renaming"
    BY <1>0, <1>4, <2>2 DEF Write, TypeOK, Jobs
  <2>4. tmp'[job[t].key] \in Written(data[job[t].resource])
    BY <1>0, <1>4, <2>2 DEF Write, Written, WritesSucceed, TypeOK, WritesTheResource
  <2>5. UNCHANGED <<data, file>>
    BY <1>4 DEF Write
  <2>6. WritesTheResource'
    BY <2>1, <2>3, <2>4, <2>5 DEF WritesTheResource
  <2> QED BY <1>0, <2>5, <2>6 DEF FilesWhole
<1>5. ASSUME NEW t \in Threads, Open(t)
      PROVE  WritesTheResource' /\ FilesWhole'
  <2>1. \A u \in Threads \ {t} : job'[u].step \notin {"writing", "renaming"}
    BY <1>0, <1>5 DEF Open, OneAtFiles, Exclusive, TypeOK, Jobs
  <2>2. job[t] \in Jobs /\ job[t].key \in Keys
    BY <1>0, <1>5 DEF Open, TypeOK, Jobs
  <2>3. job'[t].step = "writing" /\ job'[t].key = job[t].key /\ tmp'[job[t].key] = Torn
    BY <1>0, <1>5, <2>2 DEF Open, TypeOK, Jobs
  <2> QED BY <1>0, <1>5, <2>1, <2>3 DEF Open, WritesTheResource, FilesWhole
<1>6. ASSUME NEW r \in Resources, NEW d \in Data, Modify(r, d)
      PROVE  WritesTheResource' /\ FilesWhole'
  BY <1>0, <1>1, <1>6 DEF Modify, Locked, WritesTheResource, FilesWhole, TypeOK
<1>7. ASSUME NEW k \in Keys, Unserialize(k)
      PROVE  WritesTheResource' /\ FilesWhole'
  <2>1. FilesWhole'
    BY <1>0, <1>7, FilesAssumption DEF Unserialize, FilesWhole, TypeOK
  <2> QED BY <1>0, <1>7, <2>1 DEF Unserialize, WritesTheResource
<1>8. CASE Crash
  BY <1>0, <1>8 DEF Crash, Idle, WritesTheResource, FilesWhole
<1>9. ASSUME NEW t \in Threads,
             \/ \E r \in Resources, k \in Keys : Lock(t, r, k)
             \/ NoDirectory(t) \/ Skip(t) \/ UpdateChecksum(t) \/ OpenFails(t) \/ RenameFails(t)
             \/ \E k \in Keys : DeserializeOpens(t, k)
             \/ DeserializeReturns(t) \/ DeserializeThrows(t)
      PROVE  WritesTheResource' /\ FilesWhole'
  <2>1. job[t] \in Jobs
    BY <1>0 DEF TypeOK
  <2> DEFINE Quiet == /\ UNCHANGED <<data, file, tmp>>
                      /\ \A u \in Threads \ {t} : job'[u] = job[u]
                      /\ job'[t].step \notin {"writing", "renaming"}
  <2>a. job \in [Threads -> Jobs]
    BY <1>0 DEF TypeOK
  <2>b. ASSUME Done(t), UNCHANGED <<data, file, tmp>>  PROVE Quiet
    BY <2>a, <2>b DEF Done, Idle
  <2>c. ASSUME NEW r \in Resources, NEW k \in Keys, Lock(t, r, k)  PROVE Quiet
    BY <2>a, <2>1, <2>c DEF Lock, Jobs, resourceVars, diskVars
  <2>d. ASSUME UpdateChecksum(t)  PROVE Quiet
    BY <2>a, <2>1, <2>d DEF UpdateChecksum, Jobs, diskVars
  <2>e. ASSUME NEW k \in Keys, DeserializeOpens(t, k)  PROVE Quiet
    BY <2>a, <2>1, <2>e DEF DeserializeOpens, Jobs, resourceVars, diskVars
  <2>2. Quiet
    BY <1>9, <2>b, <2>c, <2>d, <2>e DEF NoDirectory, Skip, OpenFails, RenameFails,
         DeserializeReturns, DeserializeThrows, resourceVars, diskVars
  <2> QED BY <1>0, <1>2, <2>2 DEF FilesWhole
<1>10. CASE \/ UNCHANGED vars
            \/ \E k \in Keys : RegisterResource(k) \/ UnregisterResource(k)
            \/ UnregisterAll
  BY <1>0, <1>10
  DEF RegisterResource, UnregisterResource, UnregisterAll, vars, WritesTheResource, FilesWhole
<1> QED
  BY <1>3, <1>4, <1>5, <1>6, <1>7, <1>8, <1>9, <1>10
  DEF Next, SerializerStep, DeserializerStep

LEMMA Invariance == Spec => []IInv
<1>1. Init => IInv
  BY InitLocks, FilesAssumption DEF Init, Idle, IInv, WritesTheResource, FilesWhole
<1>2. IInv /\ [Next]_vars => IInv'
  BY LocksStep, WholeStep DEF IInv
<1> QED BY <1>1, <1>2, PTL DEF Spec

-----------------------------------------------------------------------------
(* The theorems.                                                           *)

\* Types; a thread has a resource exactly while it serializes
\* (ResourceSerializer.cpp:31-84).
THEOREM TypeCorrect == Spec => []TypeOK
<1>1. Locks => TypeOK
  BY DEF Locks
<1> QED BY LocksInvariant, <1>1, PTL

\* Whatever fails and however threads race: one thread at a time works on files, one has
\* a resource, and a Deserialize meets no other file than the one it opened between
\* opening it and asking for its size (ResourceDeserializer.cpp:62-84).
THEOREM LocksExclude == Spec => [](OneAtFiles /\ OnePerResource /\ ReadsTheFile)
<1>1. Locks => OneAtFiles /\ OnePerResource /\ ReadsTheFile
  BY DEF Locks
<1> QED BY LocksInvariant, <1>1, PTL

\* Whatever fails, the file that a Serialize puts in place holds the data of its own
\* resource, never another thread's, or what a failed write has left of it: the code does
\* not look at the stream (ResourceSerializer.cpp:60-84).
SavesItsResourceOrTears ==
  [][\A t \in Threads : Rename(t) => file'[job[t].key] \in Written(data[job[t].resource])]_vars

\* A Serialize whose write fails replaces a good file by a torn one, and that is the worst
\* it does (ResourceSerializer.cpp:60-84).
THEOREM SavesItsOwnOrTears == Spec => SavesItsResourceOrTears
<1>1. ASSUME IInv, [Next]_vars, NEW t \in Threads, Rename(t)
      PROVE  file'[job[t].key] \in Written(data[job[t].resource])
  <2>1. job[t].key \in Keys
    BY <1>1 DEF Rename, IInv, Locks, TypeOK, Jobs
  <2> QED BY <1>1, <2>1 DEF Rename, IInv, Locks, TypeOK, WritesTheResource
<1>2. IInv /\ [Next]_vars =>
        [\A t \in Threads : Rename(t) => file'[job[t].key] \in Written(data[job[t].resource])]_vars
  BY <1>1
<1> QED BY Invariance, <1>2, PTL DEF Spec, SavesItsResourceOrTears

\* If no write fails, the file that a Serialize puts in place holds the data of its own
\* resource (ResourceSerializer.cpp:50-84).
THEOREM SavesItsOwn ==
  ASSUME WritesSucceed
  PROVE  Spec => SavesItsResource
<1>1. [\A t \in Threads : Rename(t) => file'[job[t].key] \in Written(data[job[t].resource])]_vars
      => [\A t \in Threads : Rename(t) => file'[job[t].key] = data[job[t].resource]]_vars
  BY DEF Written
<1> QED BY SavesItsOwnOrTears, <1>1, PTL DEF SavesItsResourceOrTears, SavesItsResource

\* The same store, in which a torn file is a value like others.
TornStore ==
  INSTANCE KeyValueStore WITH Values <- Data \cup {Torn}, store <- file, answer <- loaded

\* Saves, removals and loads under concurrency, failing calls and crashes take effect at one
\* instant each, also if writes fail: then a torn file is saved, removed and loaded like a
\* whole one (ResourceSerializer.cpp:31-109, ResourceDeserializer.cpp:57-101).
THEOREM Atomicity == Spec => TornStore!Spec
<1>1. Init => TornStore!Init
  BY DEF Init, TornStore!Init
<1>2. ASSUME IInv, [Next]_vars PROVE [TornStore!Next]_<<file, loaded>>
  <2> USE DEF resourceVars, diskVars
  <2>0. TypeOK /\ ReadsTheFile
    BY <1>2 DEF IInv, Locks
  <2>1. ASSUME NEW t \in Threads, Rename(t) PROVE TornStore!Next
    <3>1. job[t].key \in Keys
      BY <2>0, <2>1 DEF Rename, TypeOK, Jobs
    <3>2. tmp[job[t].key] \in Data \cup {Torn}
      BY <2>0, <2>1, <3>1 DEF Rename, TypeOK
    <3>3. TornStore!Save(job[t].key, tmp[job[t].key])
      BY <2>1 DEF Rename, TornStore!Save
    <3> QED BY <3>1, <3>2, <3>3 DEF TornStore!Next
  <2>2. ASSUME NEW k \in Keys, Unserialize(k) PROVE [TornStore!Next]_<<file, loaded>>
    BY <2>2 DEF Unserialize, TornStore!Next, TornStore!Remove
  <2>3. ASSUME NEW t \in Threads, DeserializeReturns(t) PROVE TornStore!Next
    <3>1. job[t].key \in Keys /\ job[t].step = "reading"
      BY <2>0, <2>3 DEF DeserializeReturns, TypeOK, Jobs
    <3>2. TornStore!Load(job[t].key)
      BY <2>0, <2>3, <3>1 DEF DeserializeReturns, ReadsTheFile, TornStore!Load
    <3> QED BY <3>1, <3>2 DEF TornStore!Next
  <2> QED
    BY <1>2, <2>1, <2>2, <2>3 DEF Next, SerializerStep, DeserializerStep, vars,
       Lock, NoDirectory, Skip, UpdateChecksum, Open, OpenFails, Write, RenameFails,
       DeserializeOpens, DeserializeThrows, RegisterResource, UnregisterResource,
       UnregisterAll, Modify, Crash
<1>3. IInv /\ [Next]_vars => [TornStore!Next]_<<file, loaded>>
  BY <1>2
<1> QED BY <1>1, <1>3, Invariance, PTL DEF Spec, TornStore!Spec

\* If no write fails, the files are those of a store of whole values
\* (ResourceSerializer.cpp:31-109, ResourceDeserializer.cpp:57-101).
THEOREM Refinement ==
  ASSUME WritesSucceed
  PROVE  Spec => ImplementsStore
<1>1. TornStore!Init => Store!Init
  BY DEF TornStore!Init, Store!Init
<1>2. ASSUME IInv', TornStore!Next PROVE Store!Next
  <2>1. ASSUME NEW k \in Keys, NEW v \in Data \cup {Torn}, TornStore!Save(k, v), file'[k] = v
        PROVE  Store!Next
    <3>1. v \in Data
      BY <1>2, <2>1 DEF IInv, FilesWhole
    <3> QED BY <2>1, <3>1 DEF TornStore!Save, Store!Save, Store!Next
  <2> QED
    BY <1>2, <2>1 DEF TornStore!Next, TornStore!Save, TornStore!Remove, TornStore!Load,
       Store!Next, Store!Save, Store!Remove, Store!Load, IInv, Locks, TypeOK
<1>3. IInv' /\ [TornStore!Next]_<<file, loaded>> => [Store!Next]_<<file, loaded>>
  BY <1>2
<1> QED BY <1>1, <1>3, Atomicity, Invariance, PTL DEF TornStore!Spec, Store!Spec, ImplementsStore

-----------------------------------------------------------------------------
(* Files of entities.                                                      *)
(*                                                                         *)
(* The serializer's hierarchy and the JSON file may be older or newer than *)
(* each other, but for every entity whose last Serialize returned both     *)
(* list the members that it saved, if they list the entity at all.         *)

\* A hierarchy lists under each entity exactly the members that were saved with it last.
Agrees(tree, s) ==
  \A i \in DOMAIN tree :
    s[tree[i].root] # Unsaved =>
      tree[i].members = {m \in Members : s[tree[i].root].member[m] # "absent"}

FilesAgree == EntityFilesTypeOK /\ Agrees(json, saved) /\ Agrees(saveTree, saved)

LEMMA NodesOfTree ==
  ASSUME NEW tree, IsTree(tree)
  PROVE  /\ Len(tree) \in Nat /\ DOMAIN tree = 1..Len(tree)
         /\ \A i \in DOMAIN tree : tree[i].root \in Roots /\ tree[i].members \in SUBSET Members
<1>1. tree \in Seq(Nodes) /\ Len(tree) \in Nat /\ DOMAIN tree = 1..Len(tree)
  BY DEF IsTree
<1>2. \A i \in DOMAIN tree : tree[i] \in Nodes
  BY <1>1
<1> QED BY <1>1, <1>2 DEF Nodes

LEMMA EmptyTree == IsTree(<<>>) /\ \A s : Agrees(<<>>, s)
<1>1. <<>> \in Seq(Nodes) /\ DOMAIN <<>> = {}
  OBVIOUS
<1> QED BY <1>1 DEF IsTree, Agrees

\* The search finds what is there.
LEMMA LeastPlace ==
  ASSUME NEW T \in SUBSET Nat, T # {}
  PROVE  \E x \in T : \A y \in T : x <= y
<1>1. \E x \in T : \A y \in T : ~(<<y, x>> \in OpToRel(<, Nat))
  BY NatLessThanWellFounded, WFMin, Zenon
<1>2. \A x, y \in Nat : <<y, x>> \in OpToRel(<, Nat) <=> y < x
  BY DEF OpToRel
<1>3. \A x, y \in Nat : ~(y < x) => x <= y
  OBVIOUS
<1> QED BY <1>1, <1>2, <1>3, Zenon

LEMMA HolderIsThere ==
  ASSUME NEW tree, IsTree(tree), NEW m, \E i \in DOMAIN tree : m \in tree[i].members
  PROVE  \E i \in DOMAIN tree : m \in tree[i].members /\ Holder(tree, m) = tree[i].root
<1> DEFINE First(i) == m \in tree[i].members /\ \A j \in 1..i - 1 : m \notin tree[j].members
           T == {i \in DOMAIN tree : m \in tree[i].members}
<1>1. T \in SUBSET Nat /\ T # {}
  BY NodesOfTree
<1>2. PICK i \in T : \A j \in T : i <= j
  BY <1>1, LeastPlace
<1>3. First(i)
  BY <1>1, <1>2, NodesOfTree
<1>4. (CHOOSE k \in DOMAIN tree : First(k)) \in T
  BY <1>3
<1> QED BY <1>4 DEF Holder

\* put_child keeps a hierarchy a tree, in which r has the members put.
LEMMA PutTree ==
  ASSUME NEW tree, IsTree(tree), NEW r \in Roots, NEW ms \in SUBSET Members
  PROVE  /\ IsTree(Put(tree, r, ms))
         /\ \A i \in DOMAIN Put(tree, r, ms) :
              \/ Put(tree, r, ms)[i] = [root |-> r, members |-> ms]
              \/ /\ i \in DOMAIN tree /\ Put(tree, r, ms)[i] = tree[i]
                 /\ tree[i].root # r
<1> DEFINE node == [root |-> r, members |-> ms]
<1>0. /\ tree \in Seq(Nodes) /\ Len(tree) \in Nat /\ DOMAIN tree = 1..Len(tree)
      /\ \A i \in DOMAIN tree : tree[i] \in Nodes
      /\ \A i, j \in DOMAIN tree : tree[i].root = tree[j].root => i = j
  BY DEF IsTree
<1>1. node \in Nodes /\ node.root = r
  BY DEF Nodes
<1> HIDE DEF node
<1>2. CASE Lists(tree, r)
  <2> DEFINE new == [i \in 1..Len(tree) |-> IF tree[i].root = r THEN node ELSE tree[i]]
  <2>1. Put(tree, r, ms) = new
    BY <1>0, <1>2 DEF Put, node
  <2>2. new \in Seq(Nodes) /\ DOMAIN new = DOMAIN tree
    BY <1>0, <1>1
  <2>3. \A i \in DOMAIN tree : new[i].root = tree[i].root
    BY <1>0, <1>1
  <2>4. \A i \in DOMAIN tree : new[i] = node \/ (new[i] = tree[i] /\ tree[i].root # r)
    BY <1>0
  <2>5. IsTree(new)
    BY <1>0, <2>2, <2>3 DEF IsTree
  <2> HIDE DEF new
  <2> QED BY <2>1, <2>2, <2>4, <2>5 DEF node
<1>3. CASE ~Lists(tree, r)
  <2> DEFINE new == Append(tree, node)
  <2>1. Put(tree, r, ms) = new
    BY <1>3 DEF Put, node
  <2>2. /\ new \in Seq(Nodes) /\ DOMAIN new = 1..(Len(tree) + 1)
        /\ \A i \in DOMAIN tree : new[i] = tree[i]
        /\ new[Len(tree) + 1] = node
    BY <1>0, <1>1, AppendProperties
  <2>3. \A i \in DOMAIN tree : tree[i].root # r
    BY <1>3 DEF Lists
  <2> HIDE DEF new
  <2>4. \A i \in DOMAIN new : i \in DOMAIN tree \/ i = Len(tree) + 1
    BY <1>0, <2>2
  <2>5. IsTree(new)
    <3> SUFFICES ASSUME NEW i \in DOMAIN new, NEW j \in DOMAIN new, new[i].root = new[j].root
                 PROVE  i = j
      BY <2>2 DEF IsTree
    <3> QED BY <1>0, <1>1, <2>2, <2>3, <2>4
  <2> QED BY <2>1, <2>2, <2>3, <2>4, <2>5 DEF node
<1> QED BY <1>2, <1>3

\* So it agrees with what is saved, if what is put does, or if nothing is known to be
\* saved any more for r.
LEMMA PutAgrees ==
  ASSUME NEW tree, IsTree(tree), NEW s, Agrees(tree, s), NEW r \in Roots, NEW ms \in SUBSET Members,
         NEW t, \A q \in Roots \ {r} : t[q] = s[q],
         t[r] # Unsaved => ms = {m \in Members : t[r].member[m] # "absent"}
  PROVE  Agrees(Put(tree, r, ms), t)
<1> DEFINE new == Put(tree, r, ms)
<1>1. SUFFICES ASSUME NEW i \in DOMAIN new, t[new[i].root] # Unsaved
               PROVE  new[i].members = {m \in Members : t[new[i].root].member[m] # "absent"}
  BY DEF Agrees
<1>2. \/ new[i] = [root |-> r, members |-> ms]
      \/ i \in DOMAIN tree /\ new[i] = tree[i] /\ tree[i].root # r
  BY PutTree
<1> HIDE DEF new
<1>3. CASE new[i] = [root |-> r, members |-> ms]
  BY <1>1, <1>3
<1>4. CASE i \in DOMAIN tree /\ new[i] = tree[i] /\ tree[i].root # r
  <2>1. tree[i].root \in Roots
    BY <1>4, NodesOfTree
  <2> QED BY <1>1, <1>4, <2>1 DEF Agrees
<1> QED BY <1>2, <1>3, <1>4

LEMMA LoadedMembers ==
  ASSUME EntityFilesTypeOK
  PROVE  Loaded \in SUBSET Members /\ \A m \in Loaded : entity.member[m] \in EntityData
BY DEF Loaded

\* What saves before it fails only adds to the files of the entity.
LEMMA SavedFiles ==
  ASSUME EntityFilesTypeOK, NEW ms \in SUBSET Loaded
  PROVE  /\ SaveUpTo(ms) \in [Roots -> [Places -> EntityData \cup {Unsaved}]]
         /\ \A r \in Roots \ {entity.root} : SaveUpTo(ms)[r] = files[r]
         /\ SaveUpTo(ms)[entity.root][Own] = entity.own
         /\ \A m \in ms : SaveUpTo(ms)[entity.root][m] = entity.member[m]
<1>1. /\ files \in [Roots -> [Places -> EntityData \cup {Unsaved}]]
      /\ entity.root \in Roots /\ entity.own \in EntityData
  BY DEF EntityFilesTypeOK
<1>2. \A m \in ms : entity.member[m] \in EntityData /\ m \in Members /\ m # Own
  BY LoadedMembers, EntityFilesAssumption DEF Own
<1> DEFINE new == [p \in Places |-> IF p = Own THEN entity.own
                                    ELSE IF p \in ms THEN entity.member[p] ELSE files[entity.root][p]]
<1>3. SaveUpTo(ms) = [files EXCEPT ![entity.root] = new]
  BY <1>1 DEF SaveUpTo
<1>4. new \in [Places -> EntityData \cup {Unsaved}]
  BY <1>1, <1>2
<1>5. new[Own] = entity.own /\ \A m \in ms : new[m] = entity.member[m]
  BY <1>2 DEF Places
<1> HIDE DEF new
<1> QED BY <1>1, <1>3, <1>4, <1>5

\* The entity that was saved last is in the files.
Stored(s, f) ==
  \A r \in Roots : s[r] # Unsaved =>
    /\ s[r].own = f[r][Own]
    /\ \A m \in Members : s[r].member[m] \in {"absent", f[r][m]}

LEMMA InitAgree == EntityFilesInit => FilesAgree
<1> SUFFICES ASSUME EntityFilesInit PROVE FilesAgree
  OBVIOUS
<1>1. IsTree(<<>>) /\ Agrees(<<>>, saved)
  BY DEF IsTree, Agrees
<1>2. entity \in [root : Roots, own : EntityData, member : [Members -> MemberStates]]
  BY DEF EntityFilesInit, NewEntity, NoMembers, EntityData, MemberStates
<1>3. \A r \in Roots : saved[r] = Unsaved
  BY DEF EntityFilesInit
<1> QED BY <1>1, <1>2, <1>3 DEF EntityFilesInit, FilesAgree, EntityFilesTypeOK

LEMMA SerializeReturnsAgree ==
  ASSUME FilesAgree, SerializeReturns
  PROVE  FilesAgree'
<1> DEFINE r == entity.root
           save == [own |-> entity.own,
                    member |-> [m \in Members |-> IF m \in Loaded THEN entity.member[m] ELSE "absent"]]
<1>0. EntityFilesTypeOK /\ r \in Roots /\ entity.own \in EntityData
  BY DEF FilesAgree, EntityFilesTypeOK
<1>1. /\ saveTree' = Put(saveTree, r, Loaded) /\ json' = saveTree' /\ whole' = TRUE
      /\ files' = SaveUpTo(Loaded)
      /\ saved' = [saved EXCEPT ![r] = save]
      /\ UNCHANGED <<loadTree, registry, entity>>
  BY DEF SerializeReturns
<1>2. save \in Saves
  BY <1>0, LoadedMembers DEF Saves
<1>3. Loaded = {m \in Members : save.member[m] # "absent"}
  BY <1>0, LoadedMembers DEF EntityData
<1>4. saved' \in [Roots -> Saves \cup {Unsaved}] /\ saved'[r] = save
      /\ \A q \in Roots \ {r} : saved'[q] = saved[q]
  BY <1>0, <1>1, <1>2 DEF EntityFilesTypeOK
<1>5. IsTree(saveTree') /\ Agrees(saveTree', saved')
  <2>1. IsTree(saveTree) /\ Agrees(saveTree, saved) /\ Loaded \in SUBSET Members
    BY <1>0, LoadedMembers DEF FilesAgree, EntityFilesTypeOK
  <2>2. IsTree(Put(saveTree, r, Loaded))
    BY <1>0, <2>1, PutTree
  <2>3. Agrees(Put(saveTree, r, Loaded), saved')
    BY <1>0, <1>3, <1>4, <2>1, PutAgrees
  <2> QED BY <1>1, <2>2, <2>3
<1>6. /\ files' \in [Roots -> [Places -> EntityData \cup {Unsaved}]]
      /\ \A q \in Roots \ {r} : files'[q] = files[q]
      /\ files'[r][Own] = save.own
      /\ \A m \in Members : save.member[m] \in {"absent", files'[r][m]}
  BY <1>0, <1>1, SavedFiles
<1>7. Stored(saved', files')
  <2> SUFFICES ASSUME NEW q \in Roots, saved'[q] # Unsaved
               PROVE  /\ saved'[q].own = files'[q][Own]
                      /\ \A m \in Members : saved'[q].member[m] \in {"absent", files'[q][m]}
    BY DEF Stored
  <2>1. CASE q = r
    BY <1>4, <1>6, <2>1
  <2>2. CASE q # r
    BY <1>0, <1>4, <1>6, <2>2 DEF EntityFilesTypeOK
  <2> QED BY <2>1, <2>2
<1> HIDE DEF r, save
<1> QED BY <1>0, <1>1, <1>4, <1>5, <1>6, <1>7 DEF FilesAgree, EntityFilesTypeOK, Stored

LEMMA SerializeThrowsAgree ==
  ASSUME FilesAgree, SerializeThrows
  PROVE  FilesAgree'
<1> DEFINE r == entity.root
<1>0. EntityFilesTypeOK /\ r \in Roots
  BY DEF FilesAgree, EntityFilesTypeOK
<1>1. /\ saved' = [saved EXCEPT ![r] = Unsaved]
      /\ UNCHANGED <<loadTree, registry, entity>>
  BY DEF SerializeThrows
<1>2. \E ms, ns \in SUBSET Loaded :
        /\ saveTree' = Put(saveTree, r, ms)
        /\ UNCHANGED files \/ files' = SaveUpTo(ns)
  BY DEF SerializeThrows
<1>3. UNCHANGED <<json, whole>> \/ (json' = <<>> /\ whole' = FALSE)
  BY DEF SerializeThrows
<1>4. /\ saved' \in [Roots -> Saves \cup {Unsaved}] /\ saved'[r] = Unsaved
      /\ \A q \in Roots \ {r} : saved'[q] = saved[q]
  BY <1>0, <1>1 DEF EntityFilesTypeOK
<1>5. IsTree(saveTree') /\ Agrees(saveTree', saved')
  BY <1>0, <1>2, <1>4, LoadedMembers, PutTree, PutAgrees DEF FilesAgree, EntityFilesTypeOK
<1>6. IsTree(json') /\ Agrees(json', saved') /\ whole' \in BOOLEAN
  <2>1. CASE UNCHANGED <<json, whole>>
    <3>1. IsTree(json) /\ Agrees(json, saved)
      BY DEF FilesAgree, EntityFilesTypeOK
    <3>2. Agrees(json, saved')
      BY <1>4, <3>1, NodesOfTree DEF Agrees
    <3> QED BY <1>0, <2>1, <3>1, <3>2 DEF EntityFilesTypeOK
  <2>2. CASE json' = <<>> /\ whole' = FALSE
    BY <2>2, EmptyTree
  <2> QED BY <1>3, <2>1, <2>2
<1>7. /\ files' \in [Roots -> [Places -> EntityData \cup {Unsaved}]]
      /\ \A q \in Roots \ {r} : files'[q] = files[q]
  BY <1>0, <1>2, SavedFiles DEF EntityFilesTypeOK
<1>8. Stored(saved', files')
  BY <1>0, <1>4, <1>7 DEF Stored, EntityFilesTypeOK
<1> HIDE DEF r
<1> QED BY <1>0, <1>1, <1>4, <1>5, <1>6, <1>7, <1>8 DEF FilesAgree, EntityFilesTypeOK, Stored

\* All other steps leave the files and what is known to be saved alone.
LEMMA OthersAgree ==
  ASSUME FilesAgree, UNCHANGED <<files, json, whole, saved>>,
         IsTree(loadTree'), saveTree' \in {<<>>, json, saveTree},
         registry' \subseteq Members,
         entity' \in [root : Roots, own : EntityData, member : [Members -> MemberStates]]
  PROVE  FilesAgree'
<1>1. IsTree(<<>>) /\ Agrees(<<>>, saved)
  BY DEF IsTree, Agrees
<1>2. IsTree(saveTree') /\ Agrees(saveTree', saved)
  BY <1>1 DEF FilesAgree, EntityFilesTypeOK
<1> QED BY <1>2 DEF FilesAgree, EntityFilesTypeOK

\* What a load leaves in the entity is an entity's state.
LEMMA LoadedEntity ==
  ASSUME EntityFilesTypeOK, files[entity.root][Own] # Unsaved,
         NEW ms \in SUBSET Members, \A m \in ms : files[entity.root][m] # Unsaved
  PROVE  /\ LoadUpTo(ms) \in [root : Roots, own : EntityData, member : [Members -> MemberStates]]
         /\ LoadUpTo(ms).own = files[entity.root][Own]
         /\ \A m \in Members : LoadUpTo(ms).member[m] =
              IF m \in ms THEN files[entity.root][m] ELSE entity.member[m]
<1>1. /\ files[entity.root] \in [Places -> EntityData \cup {Unsaved}]
      /\ entity \in [root : Roots, own : EntityData, member : [Members -> MemberStates]]
  BY DEF EntityFilesTypeOK
<1>2. \A m \in Members : m \in Places
  BY DEF Places
<1>3. files[entity.root][Own] \in EntityData /\ \A m \in ms : files[entity.root][m] \in MemberStates
  BY <1>1, <1>2 DEF Places, MemberStates
<1> QED BY <1>1, <1>2, <1>3 DEF LoadUpTo

LEMMA StepAgrees == FilesAgree /\ [EntityFilesNext]_entityFilesVars => FilesAgree'
<1> SUFFICES ASSUME FilesAgree, [EntityFilesNext]_entityFilesVars PROVE FilesAgree'
  OBVIOUS
<1> DEFINE Loadable == [root : Roots, own : EntityData, member : [Members -> MemberStates]]
<1>0. /\ EntityFilesTypeOK /\ IsTree(loadTree) /\ IsTree(json) /\ IsTree(<<>>)
      /\ registry \subseteq Members /\ entity \in Loadable
  BY DEF FilesAgree, EntityFilesTypeOK, IsTree
<1>1. /\ \A r \in Roots : NewEntity(r) \in Loadable
      /\ \A m \in Members, s \in MemberStates : [entity EXCEPT !.member[m] = s] \in Loadable
      /\ [entity EXCEPT !.own = "edited"] \in Loadable
  BY <1>0 DEF NewEntity, NoMembers, EntityData, MemberStates
<1>2. CASE EntitySerializerStep
  BY <1>2, SerializeReturnsAgree, SerializeThrowsAgree DEF EntitySerializerStep
<1>3. CASE EntityStep
  <2>1. UNCHANGED <<files, json, whole, saved, saveTree, loadTree, registry>>
    BY <1>3 DEF EntityStep, Construct, Edit, AggregateMember, RemoveMember, GetAggregatedMember
  <2>2. ASSUME NEW m \in Members, GetAggregatedMember(m) PROVE entity' \in Loadable
    <3>1. CASE \A i \in DOMAIN loadTree : m \notin loadTree[i].members
      BY <1>1, <2>2, <3>1 DEF GetAggregatedMember, MemberStates, EntityData
    <3>2. CASE ~ \A i \in DOMAIN loadTree : m \notin loadTree[i].members
      <4> DEFINE d == files[Holder(loadTree, m)][m]
      <4>1. entity' = [entity EXCEPT !.member[m] = IF d = Unsaved THEN "lazy" ELSE d]
        BY <2>2, <3>2 DEF GetAggregatedMember
      <4>2. d \in EntityData \cup {Unsaved}
        <5>1. Holder(loadTree, m) \in Roots
          BY <1>0, <3>2, HolderIsThere, NodesOfTree
        <5> QED BY <1>0, <5>1 DEF EntityFilesTypeOK, Places
      <4> QED BY <1>1, <4>1, <4>2 DEF MemberStates
    <3> QED BY <3>1, <3>2
  <2>3. entity' \in Loadable
    BY <1>0, <1>1, <1>3, <2>2
    DEF EntityStep, Construct, Edit, AggregateMember, RemoveMember, MemberStates
  <2> QED BY <1>0, <2>1, <2>3, OthersAgree
<1>4. CASE RegistryStep
  BY <1>0, <1>4, OthersAgree DEF RegistryStep, RegisterEntity, UnregisterEntity
<1>5. CASE LoadStructure
  BY <1>0, <1>5, OthersAgree DEF LoadStructure
<1>6. CASE EntityDeserializerStep
  <2>1. ToLoad \in SUBSET Members
    BY <1>0 DEF ToLoad
  <2>2. CASE LoadReturns
    <3>1. entity' \in Loadable
      <4>1. CASE UNCHANGED entity
        BY <1>0, <4>1
      <4>2. CASE /\ files[entity.root][Own] # Unsaved /\ entity' = LoadUpTo(ToLoad)
                 /\ \A m \in ToLoad : ~Obstacle(m)
        BY <1>0, <2>1, <4>2, LoadedEntity DEF Obstacle
      <4> QED BY <2>2, <4>1, <4>2 DEF LoadReturns
    <3> QED BY <1>0, <2>2, <3>1, OthersAgree DEF LoadReturns
  <2>3. CASE LoadThrows
    <3>1. entity' \in Loadable
      <4>1. CASE UNCHANGED entity
        BY <1>0, <4>1
      <4>2. ASSUME NEW m \in ToLoad, files[entity.root][Own] # Unsaved,
                   \A k \in ToLoad : Obstacle(k) => m <= k,
                   entity' = LET before == LoadUpTo({k \in ToLoad : k < m})
                             IN  IF entity.member[m] = "absent"
                                   THEN [before EXCEPT !.member[m] = "fresh"] ELSE before
            PROVE  entity' \in Loadable
        <5> DEFINE ks == {k \in ToLoad : k < m}
        <5>1. ks \in SUBSET Members /\ \A k \in ks : files[entity.root][k] # Unsaved
          <6>1. \A k \in ks : ~Obstacle(k)
            BY <2>1, <4>2, EntityFilesAssumption
          <6> QED BY <2>1, <6>1 DEF Obstacle
        <5>2. LoadUpTo(ks) \in Loadable
          BY <1>0, <4>2, <5>1, LoadedEntity
        <5> HIDE DEF ks
        <5> QED BY <2>1, <4>2, <5>2 DEF ks, MemberStates, EntityData
      <4> QED BY <2>3, <4>1, <4>2 DEF LoadThrows
    <3> QED BY <1>0, <2>3, <3>1, OthersAgree DEF LoadThrows
  <2>4. CASE ResetInstance
    BY <1>0, <2>4, OthersAgree DEF ResetInstance
  <2> QED BY <1>6, <2>2, <2>3, <2>4 DEF EntityDeserializerStep
<1>7. CASE Restart
  BY <1>0, <1>1, <1>7, OthersAgree DEF Restart
<1>8. CASE UNCHANGED entityFilesVars
  BY <1>0, <1>8, OthersAgree DEF entityFilesVars
<1> QED BY <1>2, <1>3, <1>4, <1>5, <1>6, <1>7, <1>8 DEF EntityFilesNext

LEMMA AgreementInvariant == EntityFilesSpec => []FilesAgree
BY InitAgree, StepAgrees, PTL DEF EntityFilesSpec

\* In the hierarchy of the file, the entity's members are those saved with it last.
LEMMA UpToDateMembers ==
  ASSUME FilesAgree, UpToDate, NEW i \in DOMAIN loadTree, saved[loadTree[i].root] # Unsaved
  PROVE  LET r == loadTree[i].root IN
         /\ r \in Roots /\ saved[r] \in Saves /\ saved[r].own = files[r][Own]
         /\ \A m \in Members :
              IF m \in loadTree[i].members
                THEN saved[r].member[m] = files[r][m] /\ saved[r].member[m] # Unsaved
                ELSE saved[r].member[m] = "absent"
<1> DEFINE r == loadTree[i].root
<1>1. EntityFilesTypeOK /\ Agrees(loadTree, saved) /\ r \in Roots
  BY NodesOfTree DEF FilesAgree, EntityFilesTypeOK, UpToDate
<1>2. saved[r] \in Saves
  BY <1>1 DEF EntityFilesTypeOK
<1>3. /\ saved[r].own = files[r][Own]
      /\ \A m \in Members : saved[r].member[m] \in {"absent", files[r][m]}
  BY <1>1 DEF EntityFilesTypeOK
<1>4. loadTree[i].members = {m \in Members : saved[r].member[m] # "absent"}
  BY <1>1 DEF Agrees
<1>5. \A m \in Members : saved[r].member[m] # "absent" => saved[r].member[m] # Unsaved
  BY <1>2, EntityFilesAssumption DEF Saves
<1> QED BY <1>1, <1>2, <1>3, <1>4, <1>5

\* Types; no hierarchy lists an entity twice; what was saved last is in the files, whatever
\* failed for other entities (EntitySerializer.cpp:44-73, EntityDeserializer.cpp:90-127).
THEOREM EntityFilesTypeCorrect == EntityFilesSpec => []EntityFilesTypeOK
<1>1. FilesAgree => EntityFilesTypeOK
  BY DEF FilesAgree
<1> QED BY AgreementInvariant, <1>1, PTL

\* The JSON file and the serializer's hierarchy list with an entity exactly the members
\* of its last Serialize that returned: those of earlier ones are gone, those of other
\* entities untouched (EntitySerializer.cpp:44-73, EntityHierarchy.cpp:22-35).
THEOREM HierarchiesAgree == EntityFilesSpec => [](Agrees(json, saved) /\ Agrees(saveTree, saved))
<1>1. FilesAgree => Agrees(json, saved) /\ Agrees(saveTree, saved)
  BY DEF FilesAgree
<1> QED BY AgreementInvariant, <1>1, PTL

\* An entity that is loaded is what was serialized last, with exactly its members
\* (EntityDeserializer.cpp:90-127, EntitySerializer.cpp:44-73).
THEOREM LoadsAsSaved == EntityFilesSpec => LoadsWhatWasSaved
<1>1. FilesAgree => FilledAsSaved
  <2> DEFINE r == entity.root
  <2> SUFFICES ASSUME FilesAgree, UpToDate, registry = Members, entity.member = NoMembers,
                      saved[r] # Unsaved, Lists(loadTree, r), LoadReturns
               PROVE  entity'.own = saved[r].own /\ entity'.member = saved[r].member
    BY Zenon DEF FilledAsSaved
  <2>1. PICK i \in DOMAIN loadTree : loadTree[i].root = r
    BY DEF Lists
  <2>2. /\ EntityFilesTypeOK /\ IsTree(loadTree) /\ files[r][Own] # Unsaved
        /\ entity' = LoadUpTo(ToLoad) /\ \A m \in ToLoad : ~Obstacle(m)
    BY DEF LoadReturns, FilesAgree, EntityFilesTypeOK
  <2>3. ToLoad = loadTree[i].members /\ ToLoad \in SUBSET Members
    BY <2>1, <2>2, NodesOfTree DEF ToLoad, IsTree
  <2>4. /\ saved[r] \in Saves /\ saved[r].own = files[r][Own]
        /\ \A m \in Members :
             IF m \in ToLoad THEN saved[r].member[m] = files[r][m]
                             ELSE saved[r].member[m] = "absent"
    BY <2>1, <2>3, UpToDateMembers
  <2>5. /\ entity' \in [root : Roots, own : EntityData, member : [Members -> MemberStates]]
        /\ entity'.own = files[r][Own]
        /\ \A m \in Members :
             entity'.member[m] = IF m \in ToLoad THEN files[r][m] ELSE entity.member[m]
    BY <2>2, <2>3, LoadedEntity DEF Obstacle
  <2>6. \A m \in Members : entity'.member[m] = saved[r].member[m]
    BY <2>4, <2>5 DEF NoMembers
  <2>7. entity'.member = saved[r].member
    <3>1. entity'.member \in [Members -> MemberStates]
          /\ saved[r].member \in [Members -> {"absent"} \cup EntityData]
      BY <2>4, <2>5 DEF Saves
    <3> QED BY <2>6, <3>1
  <2> QED BY <2>4, <2>5, <2>7
<1> QED BY <1>1, AgreementInvariant, PTL DEF LoadsWhatWasSaved

\* Such a load never throws, whichever members are registered: everything that the file
\* lists with the entity was saved (EntityDeserializer.cpp:102-126).
LoadsWithoutError ==
  [][UpToDate /\ entity.member = NoMembers /\ saved[entity.root] # Unsaved
     => ~LoadThrows]_entityFilesVars

\* LoadsAsSaved is about what LoadEntity does when it returns; this, that it does
\* (EntityDeserializer.cpp:102-126).
THEOREM LoadIsPossible == EntityFilesSpec => LoadsWithoutError
<1>1. FilesAgree /\ UpToDate /\ entity.member = NoMembers /\ saved[entity.root] # Unsaved
      => ~LoadThrows
  <2> DEFINE r == entity.root
  <2> SUFFICES ASSUME FilesAgree, UpToDate, entity.member = NoMembers, saved[r] # Unsaved
               PROVE  ~LoadThrows
    OBVIOUS
  <2>1. EntityFilesTypeOK /\ IsTree(loadTree)
    BY DEF FilesAgree, EntityFilesTypeOK
  <2>2. ASSUME Lists(loadTree, r)  PROVE files[r][Own] # Unsaved
    BY <2>2, UpToDateMembers, EntityFilesAssumption DEF Lists, Saves
  <2>3. ASSUME NEW m \in ToLoad  PROVE ~Obstacle(m)
    <3>1. PICK i \in DOMAIN loadTree : loadTree[i].root = r /\ m \in loadTree[i].members
      BY <2>3 DEF ToLoad
    <3>2. m \in Members
      BY <2>1, <2>3 DEF ToLoad, EntityFilesTypeOK
    <3>3. files[r][m] # Unsaved
      BY <3>1, <3>2, UpToDateMembers
    <3> QED BY <3>2, <3>3 DEF Obstacle, NoMembers
  <2> QED BY <2>2, <2>3 DEF LoadThrows
<1> QED BY <1>1, AgreementInvariant, PTL DEF LoadsWithoutError

\* A lazy member that only this entity lists becomes what was serialized last
\* (ISerializableEntity.cpp:26-45, EntityDeserializer.cpp:27-59).
THEOREM LazyLoadsAsSaved == EntityFilesSpec => LazyLoadsWhatWasSaved
<1>1. FilesAgree => \A m \in Members : MemberAsSaved(m)
  <2> DEFINE r == entity.root
             holders(m) == {loadTree[i].root : i \in {j \in DOMAIN loadTree : m \in loadTree[j].members}}
  <2> SUFFICES ASSUME FilesAgree, NEW m \in Members, UpToDate, saved[r] # Unsaved, holders(m) = {r},
                      GetAggregatedMember(m)
               PROVE  entity'.member[m] = saved[r].member[m]
    BY Zenon DEF MemberAsSaved
  <2>1. EntityFilesTypeOK /\ IsTree(loadTree)
    BY DEF FilesAgree, EntityFilesTypeOK
  <2>2. \E i \in DOMAIN loadTree : m \in loadTree[i].members
    OBVIOUS
  <2>3. PICK i \in DOMAIN loadTree :
               m \in loadTree[i].members /\ Holder(loadTree, m) = loadTree[i].root
    BY <2>1, <2>2, HolderIsThere
  <2>4. loadTree[i].root = r
    BY <2>3
  <2>5. saved[r].member[m] = files[r][m] /\ files[r][m] # Unsaved
    BY <2>3, <2>4, UpToDateMembers
  <2>6. entity' = [entity EXCEPT !.member[m] = files[r][m]]
    BY <2>2, <2>3, <2>4, <2>5 DEF GetAggregatedMember
  <2> QED BY <2>1, <2>5, <2>6 DEF EntityFilesTypeOK
<1> QED BY <1>1, AgreementInvariant, PTL DEF LazyLoadsWhatWasSaved
=============================================================================
