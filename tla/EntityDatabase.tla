--------------------------- MODULE EntityDatabase ---------------------------
(***************************************************************************)
(* database_adapters: EntityPersister and EntityLoader, with the singletons *)
(* ResourcePersister and ResourceLoader through which they store and fetch *)
(* the entity hierarchy, and the lazy members that EntityLoader loads.     *)
(*                                                                         *)
(* Each of the four has an Sqlite connection of its own.  An entity saves  *)
(* itself through EntityPersister's (application code); the hierarchy, the *)
(* tree of the keys of all entities persisted, goes as a blob into a new   *)
(* row of the table `resources' of the database where ResourcePersister is *)
(* open, and if it is not open of EntityPersister's.  EntityLoader finds   *)
(* only entities in the hierarchy it fetched when it was opened; of any    *)
(* other, LoadEntity returns without a word.  The node of an entity has    *)
(* what its Save writes into it and the nodes of its members: a Persist    *)
(* replaces it by an empty one before it begins, and if it throws then the *)
(* node stays in the tree as it is.                                        *)
(*                                                                         *)
(* One thread uses them.  The process may end at any time; the databases   *)
(* stay, and SQLite makes each statement atomic.  An entity stands for its *)
(* key path: its members are persisted and loaded with it, and no other    *)
(* entity uses its key.  ResourceRows is about the rows; here the newest   *)
(* one of a database is all there is.                                      *)
(***************************************************************************)
CONSTANTS Entities, Paths, Faults, Nowhere, Broken

Holders == {"EntityPersister", "EntityLoader", "ResourcePersister", "ResourceLoader"}

\* Broken: a connection whose sqlite3_open failed.  Faults: whose sqlite3_open may fail,
\* which entities' Save may throw, and whether the insert may fail.
ASSUME DatabaseAssumption ==
  /\ Faults \subseteq Holders \cup Entities \cup {"insert"}
  /\ Nowhere \notin Paths /\ Broken \notin Paths /\ Nowhere # Broken

\* The node of an entity in a tree, "partial" if its Save or a member's has thrown.
Nodes == {"absent", "partial", "whole"}
Trees == [Entities -> Nodes]
EmptyTree == [e \in Entities |-> "absent"]

VARIABLES
  hierarchy, \* the tree in the newest row of each database; empty without a row
  stored,   \* the entities whose last Save into each database returned
  conn,     \* db_ of each holder's adapter: Nowhere, or what it is connected to
  path,     \* dbPath_ of EntityPersister's adapter
  leaked,   \* ResourcePersister's connection has a statement nobody finalized
  saveTree, \* EntityPersister's hierarchy_
  loadTree, \* EntityLoader's hierarchy_
  \* Only record the past:
  home,     \* the database to which the present EntityPersister's last Persist of each
            \* entity gave the entity and the hierarchy; or Nowhere
  due       \* the entities whose home the loader was opened on, and not persisted since

diskVars == <<hierarchy, stored>>
trees == <<saveTree, loadTree>>
databaseVars == <<diskVars, conn, path, leaked, trees, home, due>>

NoHomes == [e \in Entities |-> Nowhere]

DatabaseInit ==
  /\ hierarchy = [p \in Paths |-> EmptyTree] /\ stored = [p \in Paths |-> {}]
  /\ conn = [h \in Holders |-> Nowhere]
  /\ path = Nowhere
  /\ leaked = FALSE
  /\ saveTree = EmptyTree /\ loadTree = EmptyTree
  /\ home = NoHomes /\ due = {}

IsOpen(h) == conn[h] # Nowhere

\* Sqlite::Open: sqlite3_open sets db_ also when it fails.
OpenResults(h, p) == {p} \cup IF h \in Faults THEN {Broken} ELSE {}

\* ResourceLoader::Load of the hierarchy: the newest row.  Without one it throws, which
\* EntityLoader takes for an empty hierarchy.  (On a Broken connection Execute may end
\* the process instead: Restart.)
HierarchyAt(c) == IF c \in Paths THEN hierarchy[c] ELSE EmptyTree

-----------------------------------------------------------------------------
(* Connections.                                                            *)

\* OpenDatabase of all but EntityLoader throws if db_ is set.
OpenDatabase(h, p) ==
  /\ h # "EntityLoader"
  /\ ~IsOpen(h)
  /\ \E c \in OpenResults(h, p) :
       /\ conn' = [conn EXCEPT ![h] = c]
       /\ path' = IF h = "EntityPersister" /\ c = p THEN p ELSE path
  /\ UNCHANGED <<diskVars, leaked, trees, home, due>>

\* EntityLoader fetches the hierarchy, through ResourceLoader's connection if that is
\* open, else through one that it opens and closes.
LoaderOpens(p) ==
  /\ ~IsOpen("EntityLoader")
  /\ conn' = [conn EXCEPT !["EntityLoader"] = p]
  /\ loadTree' = HierarchyAt(IF IsOpen("ResourceLoader") THEN conn["ResourceLoader"] ELSE p)
  /\ due' = IF conn["ResourceLoader"] \in {Nowhere, p} THEN {e \in Entities : home[e] = p} ELSE {}
  /\ UNCHANGED <<diskVars, path, leaked, saveTree, home>>

\* One of the two opens fails, and the connections made so far stay.
LoaderOpenThrows(p) ==
  /\ ~IsOpen("EntityLoader")
  /\ \/ /\ "EntityLoader" \in Faults
        /\ conn' = [conn EXCEPT !["EntityLoader"] = Broken]
     \/ /\ "ResourceLoader" \in Faults
        /\ ~IsOpen("ResourceLoader")
        /\ conn' = [conn EXCEPT !["EntityLoader"] = p, !["ResourceLoader"] = Broken]
  /\ due' = {}
  /\ UNCHANGED <<diskVars, path, leaked, trees, home>>

\* sqlite3_close refuses a connection with statements that are not finalized.
BugCloseIgnoresLeak(h) ==
  /\ IsOpen(h)
  /\ conn' = [conn EXCEPT ![h] = Nowhere]
  /\ UNCHANGED <<diskVars, path, leaked, trees, home, due>>

CloseDatabase(h) ==
  /\ IsOpen(h)
  /\ ~(h = "ResourcePersister" /\ leaked)
  /\ conn' = [conn EXCEPT ![h] = Nowhere]
  /\ UNCHANGED <<diskVars, path, leaked, trees, home, due>>

\* ResetInstance: the destructor closes, and a new instance knows nothing.
ResetInstance(h) ==
  /\ ~(h = "ResourcePersister" /\ leaked)
  /\ conn' = [conn EXCEPT ![h] = Nowhere]
  /\ CASE h = "EntityPersister" ->
            /\ path' = Nowhere /\ saveTree' = EmptyTree /\ home' = NoHomes
            /\ UNCHANGED <<loadTree, due>>
       [] h = "EntityLoader" ->
            /\ loadTree' = EmptyTree /\ due' = {}
            /\ UNCHANGED <<path, saveTree, home>>
       [] OTHER -> UNCHANGED <<path, trees, home, due>>
  /\ UNCHANGED <<diskVars, leaked>>

\* The process ends and another starts.  That is also what ResetInstance of a
\* ResourcePersister with a leaked statement does: Close throws out of a noexcept
\* destructor.  (A Save cut short leaves in the database what one that throws leaves.)
Restart ==
  /\ conn' = [h \in Holders |-> Nowhere]
  /\ path' = Nowhere
  /\ leaked' = FALSE
  /\ saveTree' = EmptyTree /\ loadTree' = EmptyTree
  /\ home' = NoHomes /\ due' = {}
  /\ UNCHANGED diskVars

-----------------------------------------------------------------------------
(* EntityPersister::Persist.                                               *)

\* The database in which the hierarchy ends up.
Target == IF IsOpen("ResourcePersister") THEN conn["ResourcePersister"] ELSE path

Recorded(e) ==
  /\ home' = [home EXCEPT ![e] = IF Target = conn["EntityPersister"] THEN Target ELSE Nowhere]
  /\ due' = due \ {e}

\* An entity saves itself through EntityPersister's connection.
Saved(e) ==
  /\ saveTree' = [saveTree EXCEPT ![e] = "whole"]
  /\ stored' = [p \in Paths |->
       IF p = conn["EntityPersister"] THEN stored[p] \cup {e} ELSE stored[p]]

\* put_child has replaced the node of e when its own Save or a member's throws.
SaveThrows(e) ==
  /\ saveTree' = [saveTree EXCEPT ![e] = "partial"]
  /\ stored' = [p \in Paths |->
       IF p = conn["EntityPersister"] THEN stored[p] \ {e} ELSE stored[p]]

\* The entity saves itself, and the whole tree goes into a new row.  The blob is a
\* new resource: its checksum never says that nothing has changed.
BugPersistSendsOne(e) ==
  /\ IsOpen("EntityPersister")
  /\ Target \in Paths
  /\ Saved(e)
  /\ hierarchy' = [hierarchy EXCEPT ![Target] = [EmptyTree EXCEPT ![e] = "whole"]]
  /\ Recorded(e)
  /\ UNCHANGED <<conn, path, leaked, loadTree>>

PersistReturns(e) ==
  /\ IsOpen("EntityPersister")
  /\ Target \in Paths
  /\ Saved(e)
  /\ hierarchy' = [hierarchy EXCEPT ![Target] = saveTree']
  /\ Recorded(e)
  /\ UNCHANGED <<conn, path, leaked, loadTree>>

\* The hierarchy cannot be sent.  ResourcePersister stays open if it was opened for the
\* occasion; an insert that fails leaves its statement if that was prepared.
SendThrows ==
  \/ Target \notin Paths /\ UNCHANGED <<conn, leaked>>
  \/ /\ "ResourcePersister" \in Faults
     /\ ~IsOpen("ResourcePersister") /\ path \in Paths
     /\ conn' = [conn EXCEPT !["ResourcePersister"] = Broken]
     /\ UNCHANGED leaked
  \/ /\ "insert" \in Faults
     /\ Target \in Paths
     /\ conn' = [conn EXCEPT !["ResourcePersister"] = Target]
     /\ leaked' \in {leaked, TRUE}

\* Either way the node of e stays in the tree, partial or whole, and the next Persist of
\* another entity sends it.
PersistThrows(e) ==
  /\ IsOpen("EntityPersister")
  /\ \/ e \in Faults /\ SaveThrows(e) /\ UNCHANGED <<conn, leaked>>
     \/ Saved(e) /\ SendThrows
  /\ home' = [home EXCEPT ![e] = Nowhere]
  /\ due' = due \ {e}
  /\ UNCHANGED <<hierarchy, path, loadTree>>

-----------------------------------------------------------------------------
(* EntityLoader::LoadEntity, and the lazy members of an entity.            *)

\* What becomes of an entity that LoadEntity is asked to fill.  GetKeyPath looks for
\* its key in the tree.  What Load makes of a partial node, or of data that are not
\* there or not complete, is the application's.  ("loaded": the node is whole and the data
\* complete; that both are of the same Persist is what `home' and `due' are for.)
Outcome(e) ==
  CASE ~IsOpen("EntityLoader") -> "throws"
    [] IsOpen("EntityLoader") /\ loadTree[e] = "absent" -> "not filled"
    [] IsOpen("EntityLoader") /\ loadTree[e] # "absent" ->
         IF /\ loadTree[e] = "whole"
            /\ conn["EntityLoader"] \in Paths /\ e \in stored[conn["EntityLoader"]]
           THEN "loaded" ELSE "throws or loaded in part"

\* However it ends, a load changes only the application's entity.
LoadEntity(e) == Outcome(e) # "throws" /\ UNCHANGED databaseVars

\* IPersistableEntity::GetAggregatedMember of a member without an object.  If nobody
\* has registered a constructor for its key there still is none.
GetAggregatedMember(e) ==
  LoadEntity(e) \/ UNCHANGED databaseVars

PersisterStep == \E e \in Entities : PersistReturns(e) \/ PersistThrows(e)

LoaderStep ==
  \/ \E p \in Paths : LoaderOpens(p) \/ LoaderOpenThrows(p)
  \/ \E e \in Entities : LoadEntity(e) \/ GetAggregatedMember(e)

DatabaseNext ==
  \/ \E h \in Holders, p \in Paths : OpenDatabase(h, p)
  \/ \E h \in Holders : CloseDatabase(h) \/ ResetInstance(h)
  \/ PersisterStep \/ LoaderStep
  \/ Restart

DatabaseSpec == DatabaseInit /\ [][DatabaseNext]_databaseVars

-----------------------------------------------------------------------------
(* Properties.                                                             *)

\* Types; an open EntityPersister knows the path it is open on; only an open
\* connection has a leaked statement.
DatabaseTypeOK ==
  /\ hierarchy \in [Paths -> Trees] /\ stored \in [Paths -> SUBSET Entities]
  /\ conn \in [Holders -> Paths \cup {Nowhere, Broken}]
  /\ path \in Paths \cup {Nowhere}
  /\ saveTree \in Trees /\ loadTree \in Trees
  /\ home \in [Entities -> Paths \cup {Nowhere}] /\ due \subseteq Entities
  /\ conn["EntityPersister"] \in Paths => path = conn["EntityPersister"]
  /\ leaked \in BOOLEAN
  /\ leaked => conn["ResourcePersister"] \in Paths

\* However the databases were closed and opened in between, and whatever was persisted
\* anywhere, or failed, for other entities: a loader that read the database itself fills
\* every entity whose last Persist, by the present EntityPersister, had put it there, from
\* the whole node and the data of that Persist, and goes on doing so until the entity
\* itself is persisted again.  The last row has them all
\* (EntityPersister.cpp:90,101-102, ResourceLoader.cpp:114-122, EntityLoader.cpp:145-168).
LoaderFindsOurs ==
  conn["EntityLoader"] # Nowhere => \A e \in due : Outcome(e) = "loaded"
=============================================================================
