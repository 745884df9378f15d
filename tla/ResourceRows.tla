---------------------------- MODULE ResourceRows ----------------------------
(***************************************************************************)
(* database_adapters::ResourcePersister and ResourceLoader, with Sqlite    *)
(* and SqliteBlob under them: resources in the table `resources' of one    *)
(* database.                                                               *)
(*                                                                         *)
(* A Persist inserts a row; the newest row of a key counts.  A Load asks   *)
(* for the number of that row in one statement and opens the row's blob in *)
(* another.  The two singletons have a connection each and may be used by  *)
(* two threads; other processes use the same database.  SQLite (external)  *)
(* makes a statement atomic, and a blob that is opened for writing, as     *)
(* SqliteBlob does, keeps the other writers out until it is closed.  There *)
(* is no busy timeout: a statement that meets a lock fails.                *)
(*                                                                         *)
(* Empty keys are refused without any effect and are not among the inputs. *)
(* Nor are empty resources: persisting one throws with its checksum        *)
(* already stored, and leaves no row and no statement (PersistThrows).     *)
(***************************************************************************)
EXTENDS Integers, FiniteSetsExt

CONSTANTS Resources, Keys, Shapes, Data, Crc, Faults, MaxRows, None, Broken

Numbers == 1..MaxRows
Values == [shape : Shapes, data : Data]
Rows == [key : Keys, value : Values]
Loads == [key : Keys, row : Numbers, shape : Shapes]

\* The same bytes under exchanged sizes.
Exchanged(v) == [shape |-> <<v.shape[2], v.shape[1]>>, data |-> v.data]

Answers == [key : Keys, value : {Exchanged(v) : v \in Values}]

\* A shape is a pair of sizes, of columns and of rows.  Crc[d] is what Checksum
\* computes for the bytes d.  MaxRows bounds the rows ever inserted.  Broken: a
\* connection whose sqlite3_open failed.
ASSUME RowsAssumption ==
  /\ MaxRows \in Nat
  /\ Shapes \subseteq Nat \X Nat
  /\ Crc \in [Data -> Int]
  /\ Faults \subseteq {"open", "busy"}
  /\ None \notin Keys \cup Values \cup Rows \cup Loads \cup Answers
  /\ Broken \notin {None, "open"} /\ None # "open"

VARIABLES
  table,      \* per row number: the key and the value in the row, or None
  lastRow,    \* the largest row number ever used (AUTOINCREMENT)
  conn,       \* db_ of the two adapters: None, "open" or Broken
  leaked,     \* the persister's connection has a statement nobody finalized
  resource,   \* the resources of the process
  checkSum,   \* checkSum_ of each
  load,       \* the Load that is under way, or None
  registered, \* the keys of keyToResourceMap_
  loaded,     \* what Load returned last; only records
  \* Only records the past: the key under which a resource was inserted, if that went
  \* well and nobody has written or removed the key since.
  home

rowVars == <<table, lastRow>>
resourceVars == <<resource, checkSum>>
loaderVars == <<load, registered, loaded>>
vars == <<rowVars, conn, leaked, resourceVars, loaderVars, home>>

Holders == {"persister", "loader"}

\* checkSum_ of a resource that nobody has tried to save.
NeverSummed == -1

Init ==
  /\ table = [i \in Numbers |-> None]
  /\ lastRow = 0
  /\ conn = [h \in Holders |-> None]
  /\ leaked = FALSE
  /\ resource \in [Resources -> Values]
  /\ checkSum = [r \in Resources |-> NeverSummed]
  /\ load = None
  /\ registered = {}
  /\ loaded = None
  /\ home = [r \in Resources |-> None]

RowsOf(k) == {i \in Numbers : table[i] # None /\ table[i].key = k}

\* SELECT has no order: the rows come by their numbers, the handler keeps the last.
NewestRow(k) == IF RowsOf(k) = {} THEN None ELSE Max(RowsOf(k))

-----------------------------------------------------------------------------
(* Connections.                                                            *)

\* Sqlite::Open leaves db_ set when sqlite3_open fails.
OpenDatabase(h) ==
  /\ conn[h] = None
  /\ \/ conn' = [conn EXCEPT ![h] = "open"]
     \/ "open" \in Faults /\ conn' = [conn EXCEPT ![h] = Broken]
  /\ UNCHANGED <<rowVars, leaked, resourceVars, loaderVars, home>>

BugCloseIgnoresLeak(h) ==
  /\ conn[h] # None
  /\ h = "loader" => load = None
  /\ conn' = [conn EXCEPT ![h] = None]
  /\ UNCHANGED <<rowVars, leaked, resourceVars, loaderVars, home>>

\* sqlite3_close refuses a connection with a statement that is not finalized: Close
\* throws.  ResetInstance closes too, and forgets the keys registered.
CloseDatabase(h) ==
  /\ conn[h] # None
  /\ h = "persister" => ~leaked
  /\ h = "loader" => load = None
  /\ conn' = [conn EXCEPT ![h] = None]
  /\ registered' \in IF h = "loader" THEN {registered, {}} ELSE {registered}
  /\ UNCHANGED <<rowVars, leaked, resourceVars, load, loaded, home>>

\* The process ends, and another starts with resources of its own.  That is also what
\* ResetInstance does with a leaked statement, Close throwing out of a noexcept
\* destructor; and what Execute may do on a Broken connection, where sqlite3_exec
\* does not set the message that Execute copies (Sqlite.cpp:80-87).
Restart ==
  /\ conn' = [h \in Holders |-> None]
  /\ leaked' = FALSE
  /\ resource' \in [Resources -> Values]
  /\ checkSum' = [r \in Resources |-> NeverSummed]
  /\ load' = None
  /\ registered' = {}
  /\ home' = [r \in Resources |-> None]
  /\ UNCHANGED <<rowVars, loaded>>

-----------------------------------------------------------------------------
(* Resources.                                                              *)

\* The application writes the bytes, through Data() or Assign.
Modify(r, d) ==
  /\ resource[r].data # d
  /\ resource' = [resource EXCEPT ![r].data = d]
  /\ UNCHANGED <<rowVars, conn, leaked, checkSum, loaderVars, home>>

\* It makes a new one.
New(r, v) ==
  /\ resource' = [resource EXCEPT ![r] = v]
  /\ checkSum' = [checkSum EXCEPT ![r] = NeverSummed]
  /\ home' = [home EXCEPT ![r] = None]
  /\ UNCHANGED <<rowVars, conn, leaked, loaderVars>>

-----------------------------------------------------------------------------
(* ResourcePersister.                                                      *)

\* Nobody's last insert under k counts any more.
Left(k) == [r \in Resources |-> IF home[r] = k THEN None ELSE home[r]]

\* The number is a new one even if the rows with the largest numbers were removed.
BugInsert(k, v) ==
  LET used == {i \in Numbers : table[i] # None}
      next == IF used = {} THEN 1 ELSE Max(used) + 1 IN
  /\ next <= MaxRows
  /\ lastRow' = Max({lastRow, next})
  /\ table' = [table EXCEPT ![next] = [key |-> k, value |-> v]]

Insert(k, v) ==
  /\ lastRow < MaxRows
  /\ lastRow' = lastRow + 1
  /\ table' = [table EXCEPT ![lastRow'] = [key |-> k, value |-> v]]

Delete(k) ==
  /\ table' = [i \in Numbers |-> IF i \in RowsOf(k) THEN None ELSE table[i]]
  /\ UNCHANGED lastRow

\* UpdateChecksum finds the checksum of the last attempt: Persist returns, with or
\* without a database.
PersistSkips(r, k) == Crc[resource[r].data] = checkSum[r]

\* It finds another one and keeps it, before anything is looked at or inserted.
UpdateChecksum(r) ==
  /\ Crc[resource[r].data] # checkSum[r]
  /\ checkSum' = [checkSum EXCEPT ![r] = Crc[resource[r].data]]

BugPersistIfAbsent(r, k) ==
  /\ UpdateChecksum(r)
  /\ conn["persister"] = "open"
  /\ IF RowsOf(k) = {} THEN Insert(k, resource[r]) ELSE UNCHANGED rowVars
  /\ home' = [Left(k) EXCEPT ![r] = k]
  /\ UNCHANGED <<conn, leaked, resource, loaderVars>>

PersistReturns(r, k) ==
  /\ UpdateChecksum(r)
  /\ conn["persister"] = "open"
  /\ Insert(k, resource[r])
  /\ home' = [Left(k) EXCEPT ![r] = k]
  /\ UNCHANGED <<conn, leaked, resource, loaderVars>>

\* Not open, or the connection is of no use; or the statement cannot be prepared; or it
\* is, its step fails and InsertBlob throws past its sqlite3_finalize.
PersistThrows(r, k) ==
  /\ UpdateChecksum(r)
  /\ \/ conn["persister"] # "open" /\ UNCHANGED leaked
     \/ conn["persister"] = "open" /\ "busy" \in Faults /\ leaked' \in {leaked, TRUE}
  /\ home' = [home EXCEPT ![r] = None]
  /\ UNCHANGED <<rowVars, conn, resource, loaderVars>>

\* ResourcePersister::Load removes the rows of the key.  (If it cannot, it throws and
\* changes nothing.)
PersisterLoad(k) ==
  /\ conn["persister"] = "open"
  /\ Delete(k)
  /\ home' = Left(k)
  /\ UNCHANGED <<conn, leaked, resourceVars, loaderVars>>

\* Other processes do the same to the table.
OtherWrites(k) ==
  /\ \/ \E v \in Values : Insert(k, v)
     \/ Delete(k)
  /\ home' = Left(k)
  /\ UNCHANGED <<conn, leaked, resourceVars, loaderVars>>

-----------------------------------------------------------------------------
(* ResourceLoader, which one thread uses.                                  *)

\* The first statement: the row's number and its sizes.
LoadSelects(k) ==
  /\ load = None
  /\ conn["loader"] = "open"
  /\ NewestRow(k) # None
  /\ load' = [key |-> k, row |-> NewestRow(k), shape |-> table[NewestRow(k)].value.shape]
  /\ UNCHANGED <<rowVars, conn, leaked, resourceVars, registered, loaded, home>>

\* The second: the blob of that row.  A new resource gets the column size as its row
\* size and the row size as its column size (ResourcePersister.cpp:93-94 against
\* ResourceLoader.cpp:134-135).
LoadReturns ==
  /\ load # None
  /\ table[load.row] # None
  /\ load.key \in registered
  /\ loaded' = [key |-> load.key,
                value |-> Exchanged([shape |-> load.shape, data |-> table[load.row].value.data])]
  /\ load' = None
  /\ UNCHANGED <<rowVars, conn, leaked, resourceVars, registered, home>>

\* The row is gone, or locked, or GenerateResource knows no constructor; the handle of
\* the blob is closed by its destructor.
LoadThrows ==
  /\ load # None
  /\ table[load.row] = None \/ "busy" \in Faults \/ load.key \notin registered
  /\ load' = None
  /\ UNCHANGED <<rowVars, conn, leaked, resourceVars, registered, loaded, home>>

RegisterResource(k) ==
  /\ load = None
  /\ k \notin registered
  /\ registered' = registered \cup {k}
  /\ UNCHANGED <<rowVars, conn, leaked, resourceVars, load, loaded, home>>

UnregisterResource(k) ==
  /\ load = None
  /\ k \in registered
  /\ registered' = registered \ {k}
  /\ UNCHANGED <<rowVars, conn, leaked, resourceVars, load, loaded, home>>

UnregisterAll ==
  /\ load = None
  /\ registered' = {}
  /\ UNCHANGED <<rowVars, conn, leaked, resourceVars, load, loaded, home>>

PersisterStep ==
  \/ OpenDatabase("persister") \/ CloseDatabase("persister")
  \/ \E k \in Keys :
       \/ \E r \in Resources : PersistReturns(r, k) \/ PersistThrows(r, k)
       \/ PersisterLoad(k)

LoaderStep ==
  \/ OpenDatabase("loader") \/ CloseDatabase("loader")
  \/ \E k \in Keys : LoadSelects(k) \/ RegisterResource(k) \/ UnregisterResource(k)
  \/ LoadReturns \/ LoadThrows \/ UnregisterAll

Next ==
  \/ PersisterStep
  \/ LoaderStep
  \/ \E r \in Resources : (\E d \in Data : Modify(r, d)) \/ \E v \in Values : New(r, v)
  \/ \E k \in Keys : OtherWrites(k)
  \/ Restart

Spec == Init /\ [][Next]_vars

-----------------------------------------------------------------------------
(* Properties.                                                             *)

\* Types; no row has a number that was never given out, a load knows a number that
\* was; only an open connection has a leaked statement.
TypeOK ==
  /\ table \in [Numbers -> Rows \cup {None}]
  /\ lastRow \in 0..MaxRows
  /\ conn \in [Holders -> {None, "open", Broken}]
  /\ leaked \in BOOLEAN
  /\ resource \in [Resources -> Values]
  /\ checkSum \in [Resources -> Int]
  /\ load \in Loads \cup {None}
  /\ registered \subseteq Keys
  /\ loaded \in Answers \cup {None}
  /\ home \in [Resources -> Keys \cup {None}]
  /\ \A i \in Numbers : i > lastRow => table[i] = None
  /\ load # None => load.row <= lastRow /\ conn["loader"] = "open"
  /\ leaked => conn["persister"] = "open"

\* The checksum makes Persist return without doing anything.  Unless the attempt that
\* stored it failed, or was under another key, or the key has been written or removed
\* by others since, the newest row of the key does hold what the resource holds
\* (ResourcePersister.cpp:87-100).
SkipsWhatIsThere ==
  \A r \in Resources :
    home[r] # None /\ PersistSkips(r, home[r]) =>
      /\ RowsOf(home[r]) # {}
      /\ table[NewestRow(home[r])].value = resource[r]

\* Whatever is persisted, removed and inserted between the two statements of a Load, by
\* this process or others: it returns, its sizes exchanged, the value its own key had
\* when it began, never another resource's; and a later Persist is found before an
\* earlier one (ResourceLoader.cpp:110-136).
NewestValue(k) == IF RowsOf(k) = {} THEN None ELSE table[NewestRow(k)].value
Snapshots == INSTANCE SnapshotStore WITH
  store <- [k \in Keys |-> NewestValue(k)],
  pending <- IF load = None \/ table[load.row] = None THEN None
             ELSE [key |-> load.key, value |-> table[load.row].value],
  answer <- IF loaded = None THEN None
            ELSE [key |-> loaded.key, value |-> Exchanged(loaded.value)]
ImplementsSnapshots == Snapshots!Spec
=============================================================================
