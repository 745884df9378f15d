----------------------------- MODULE EntityFiles -----------------------------
(***************************************************************************)
(* filesystem_adapters: EntitySerializer, EntityDeserializer, their        *)
(* EntityHierarchy and EntityRegistry, and the members of an Entity,       *)
(* eagerly and lazily loaded.                                              *)
(*                                                                         *)
(* An entity of the application has a key, data of its own, and members by *)
(* key; a lazy member is a key without an object until it is asked for.    *)
(* Serialize lets the entity and its members save themselves, each under   *)
(* the path of its keys (application code), lists them in its hierarchy,   *)
(* and then writes the hierarchy to a JSON file.  The deserializer reads   *)
(* that file and finds in it where an entity was saved.                    *)
(*                                                                         *)
(* One thread uses them, on one JSON file; the process may end and another *)
(* starts.  At any time the application holds one entity, whose key is one *)
(* of Roots and whose members have no members themselves.  EntityPersister *)
(* and EntityLoader do the same on a database.                             *)
(***************************************************************************)
EXTENDS Naturals, SequencesExt

CONSTANTS Roots, Members, SaveFaults, Unsaved

\* The data of an entity: as its constructor makes them, or edited.
EntityData == {"fresh", "edited"}

\* What a Serialize saves: an entity, and its members that have an object.
Saves == [own : EntityData, member : [Members -> {"absent"} \cup EntityData]]

\* Members are numbered in the order of their keys, which is that of the maps.
ASSUME EntityFilesAssumption ==
  /\ Members \subseteq Nat \ {0}
  /\ SaveFaults \subseteq {"save", "json"}
  /\ Unsaved \notin EntityData \cup Saves

\* Where something is saved; Own stands for the entity itself.
Own == 0
Places == {Own} \cup Members

VARIABLES
  files,      \* what the entity of each root, and each of its members, has saved
  json,       \* the hierarchy in the JSON file ...
  whole,      \* ... and whether the file is there and can be parsed
  saveTree,   \* EntitySerializer's hierarchy_: the roots in order, with their members
  loadTree,   \* EntityDeserializer's hierarchy_
  registry,   \* the keys in EntityDeserializer's registry_
  entity,     \* the entity that the application holds: its root, data and members
  \* Only records the past:
  saved       \* what a Serialize of each root that returned has saved last

entityFilesVars == <<files, json, whole, saveTree, loadTree, registry, entity, saved>>

Nodes == [root : Roots, members : SUBSET Members]

\* The members' map has no entry, one without object, or one with an object.
MemberStates == {"absent", "lazy"} \cup EntityData

NoMembers == [m \in Members |-> "absent"]
NewEntity(r) == [root |-> r, own |-> "fresh", member |-> NoMembers]

EntityFilesInit ==
  /\ files = [r \in Roots |-> [p \in Places |-> Unsaved]]
  /\ json = <<>> /\ whole = FALSE
  /\ saveTree = <<>> /\ loadTree = <<>>
  /\ registry = {}
  /\ \E r \in Roots : entity = NewEntity(r)
  /\ saved = [r \in Roots |-> Unsaved]

-----------------------------------------------------------------------------
(* The entity.                                                             *)

\* The application goes on with another entity.
Construct(r) ==
  /\ entity' = NewEntity(r)
  /\ UNCHANGED <<files, json, whole, saveTree, loadTree, registry, saved>>

Edit ==
  /\ entity' = [entity EXCEPT !.own = "edited"]
  /\ UNCHANGED <<files, json, whole, saveTree, loadTree, registry, saved>>

\* AggregateMember, of an object or of a key alone, throws if the key is in use.
AggregateMember(m) ==
  /\ entity.member[m] = "absent"
  /\ \E s \in MemberStates \ {"absent"} : entity' = [entity EXCEPT !.member[m] = s]
  /\ UNCHANGED <<files, json, whole, saveTree, loadTree, registry, saved>>

RemoveMember(m) ==
  /\ entity.member[m] # "absent"
  /\ entity' = [entity EXCEPT !.member[m] = "absent"]
  /\ UNCHANGED <<files, json, whole, saveTree, loadTree, registry, saved>>

Loaded == {m \in Members : entity.member[m] \in EntityData}

-----------------------------------------------------------------------------
(* Hierarchies.                                                            *)

Lists(tree, r) == \E i \in DOMAIN tree : tree[i].root = r

\* ptree::add_child adds a node whatever is there.
BugAdd(tree, r, ms) == Append(tree, [root |-> r, members |-> ms])

\* A node that is already there keeps its members.
BugPut(tree, r, ms) ==
  IF Lists(tree, r)
    THEN [i \in DOMAIN tree |->
            IF tree[i].root = r THEN [root |-> r, members |-> tree[i].members \cup ms] ELSE tree[i]]
    ELSE Append(tree, [root |-> r, members |-> ms])

\* ptree::put_child replaces the node of a path where it is, or adds one at the end.
\* The members have been put below it.
Put(tree, r, ms) ==
  IF Lists(tree, r)
    THEN [i \in DOMAIN tree |-> IF tree[i].root = r THEN [root |-> r, members |-> ms] ELSE tree[i]]
    ELSE Append(tree, [root |-> r, members |-> ms])

\* LoadSerializationStructure throws, with the tree as it was, if the file is missing or
\* cannot be parsed.  A missing file also clears the path of the JSON file, under which the
\* entities save themselves too: the application is taken to set it again, as it does in
\* the beginning, before it goes on.
LoadStructure ==
  /\ whole
  /\ \/ saveTree' = json /\ UNCHANGED loadTree
     \/ loadTree' = json /\ UNCHANGED saveTree
  /\ UNCHANGED <<files, json, whole, registry, entity, saved>>

\* The search answers with the first root wherever the key is.
BugFirst(tree, m) == tree[1].root

\* GetKeyPath searches depth first: the first root under which the key is listed.
Holder(tree, m) ==
  LET i == CHOOSE i \in DOMAIN tree :
             m \in tree[i].members /\ \A j \in 1..i - 1 : m \notin tree[j].members
  IN  tree[i].root

-----------------------------------------------------------------------------
(* EntitySerializer.                                                       *)

\* The entity saves itself, and then each member with an object does.
SaveUpTo(ms) ==
  [files EXCEPT ![entity.root] =
     [p \in Places |-> IF p = Own THEN entity.own ELSE IF p \in ms THEN entity.member[p] ELSE @[p]]]

SerializeReturns ==
  /\ saveTree' = Put(saveTree, entity.root, Loaded)
  /\ files' = SaveUpTo(Loaded)
  /\ json' = saveTree' /\ whole' = TRUE
  /\ saved' = [saved EXCEPT ![entity.root] =
       [own |-> entity.own,
        member |-> [m \in Members |-> IF m \in Loaded THEN entity.member[m] ELSE "absent"]]]
  /\ UNCHANGED <<loadTree, registry, entity>>

\* The key of what cannot be saved is already in the hierarchy; the JSON file is
\* written in place.
SerializeThrows ==
  /\ \/ /\ "save" \in SaveFaults
        /\ saveTree' = Put(saveTree, entity.root, {})
        /\ UNCHANGED <<files, json, whole>>
     \/ /\ "save" \in SaveFaults
        /\ \E m \in Loaded :
             /\ saveTree' = Put(saveTree, entity.root, {k \in Loaded : k <= m})
             /\ files' = SaveUpTo({k \in Loaded : k < m})
        /\ UNCHANGED <<json, whole>>
     \/ /\ "json" \in SaveFaults
        /\ saveTree' = Put(saveTree, entity.root, Loaded)
        /\ files' = SaveUpTo(Loaded)
        /\ \/ UNCHANGED <<json, whole>>
           \/ json' = <<>> /\ whole' = FALSE
  /\ saved' = [saved EXCEPT ![entity.root] = Unsaved]
  /\ UNCHANGED <<loadTree, registry, entity>>

-----------------------------------------------------------------------------
(* EntityDeserializer.                                                     *)

RegisterEntity(m) ==
  /\ m \notin registry
  /\ registry' = registry \cup {m}
  /\ UNCHANGED <<files, json, whole, saveTree, loadTree, entity, saved>>

UnregisterEntity(m) ==
  /\ m \in registry
  /\ registry' = registry \ {m}
  /\ UNCHANGED <<files, json, whole, saveTree, loadTree, entity, saved>>

\* The members that LoadEntity constructs: those listed that are registered.
ToLoad ==
  {m \in registry : \E i \in DOMAIN loadTree :
                        loadTree[i].root = entity.root /\ m \in loadTree[i].members}

Obstacle(m) == entity.member[m] # "absent" \/ files[entity.root][m] = Unsaved

LoadUpTo(ms) ==
  [entity EXCEPT !.own = files[entity.root][Own],
                 !.member = [m \in Members |-> IF m \in ms THEN files[entity.root][m] ELSE @[m]]]

\* LoadEntity loads the entity and its members.  It returns silently if the
\* hierarchy does not list the entity.
LoadReturns ==
  /\ \/ ~Lists(loadTree, entity.root) /\ UNCHANGED entity
     \/ /\ Lists(loadTree, entity.root)
        /\ files[entity.root][Own] # Unsaved
        /\ \A m \in ToLoad : ~Obstacle(m)
        /\ entity' = LoadUpTo(ToLoad)
  /\ UNCHANGED <<files, json, whole, saveTree, loadTree, registry, saved>>

\* Something that is listed was never saved, or the entity has a member, lazy or
\* not, of the key to aggregate.  What was loaded before stays.
LoadThrows ==
  /\ Lists(loadTree, entity.root)
  /\ \/ files[entity.root][Own] = Unsaved /\ UNCHANGED entity
     \/ /\ files[entity.root][Own] # Unsaved
        /\ \E m \in ToLoad :
             /\ Obstacle(m) /\ \A k \in ToLoad : Obstacle(k) => m <= k
             /\ entity' = LET before == LoadUpTo({k \in ToLoad : k < m})
                          IN  IF entity.member[m] = "absent"
                                THEN [before EXCEPT !.member[m] = "fresh"] ELSE before
  /\ UNCHANGED <<files, json, whole, saveTree, loadTree, registry, saved>>

\* GetAggregatedMember loads a lazy member, if its key is registered.  What the
\* hierarchy does not list stays as constructed; if Load throws the member stays lazy.
GetAggregatedMember(m) ==
  /\ entity.member[m] = "lazy"
  /\ m \in registry
  /\ IF \A i \in DOMAIN loadTree : m \notin loadTree[i].members
       THEN entity' = [entity EXCEPT !.member[m] = "fresh"]
       ELSE LET d == files[Holder(loadTree, m)][m]
            IN  entity' = [entity EXCEPT !.member[m] = IF d = Unsaved THEN "lazy" ELSE d]
  /\ UNCHANGED <<files, json, whole, saveTree, loadTree, registry, saved>>

\* ResetInstance of one of the two.
ResetInstance ==
  /\ \/ saveTree' = <<>> /\ UNCHANGED <<loadTree, registry>>
     \/ loadTree' = <<>> /\ registry' = {} /\ UNCHANGED saveTree
  /\ UNCHANGED <<files, json, whole, entity, saved>>

\* The process ends, and another starts.
Restart ==
  /\ saveTree' = <<>> /\ loadTree' = <<>> /\ registry' = {}
  /\ \E r \in Roots : entity' = NewEntity(r)
  /\ UNCHANGED <<files, json, whole, saved>>

EntityStep ==
  \/ \E r \in Roots : Construct(r)
  \/ Edit
  \/ \E m \in Members : AggregateMember(m) \/ RemoveMember(m) \/ GetAggregatedMember(m)

RegistryStep == \E m \in Members : RegisterEntity(m) \/ UnregisterEntity(m)

EntitySerializerStep == SerializeReturns \/ SerializeThrows

EntityDeserializerStep == LoadReturns \/ LoadThrows \/ ResetInstance

EntityFilesNext ==
  \/ EntityStep
  \/ RegistryStep
  \/ LoadStructure
  \/ EntitySerializerStep
  \/ EntityDeserializerStep
  \/ Restart

EntityFilesSpec == EntityFilesInit /\ [][EntityFilesNext]_entityFilesVars

-----------------------------------------------------------------------------
(* Properties.                                                             *)

IsTree(tree) ==
  /\ tree \in Seq(Nodes)
  /\ \A i, j \in DOMAIN tree : tree[i].root = tree[j].root => i = j

\* Types; no hierarchy lists an entity twice; what was saved last is in the files,
\* even after other saves failed.
EntityFilesTypeOK ==
  /\ files \in [Roots -> [Places -> EntityData \cup {Unsaved}]]
  /\ whole \in BOOLEAN
  /\ IsTree(json) /\ IsTree(saveTree) /\ IsTree(loadTree)
  /\ registry \subseteq Members
  /\ entity \in [root : Roots, own : EntityData, member : [Members -> MemberStates]]
  /\ saved \in [Roots -> Saves \cup {Unsaved}]
  /\ \A r \in Roots : saved[r] # Unsaved =>
       /\ saved[r].own = files[r][Own]
       /\ \A m \in Members : saved[r].member[m] \in {"absent", files[r][m]}

\* The deserializer has read the JSON file as it is now.
UpToDate == whole /\ loadTree = json

\* A new entity of a root that an up-to-date deserializer lists becomes what was
\* serialized last, with exactly its members, in whatever process that was and
\* whatever was removed, or failed for other entities, since.
FilledAsSaved ==
  LET r == entity.root IN
  /\ UpToDate /\ registry = Members /\ entity.member = NoMembers
  /\ saved[r] # Unsaved /\ Lists(loadTree, r)
  /\ LoadReturns
  => entity'.own = saved[r].own /\ entity'.member = saved[r].member

LoadsWhatWasSaved == [][FilledAsSaved]_entityFilesVars

\* So does a lazy member that is listed, as long as no other entity lists the same key
\* (the search ignores whose member it is).
MemberAsSaved(m) ==
  LET r == entity.root IN
  /\ UpToDate /\ saved[r] # Unsaved
  /\ {loadTree[i].root : i \in {j \in DOMAIN loadTree : m \in loadTree[j].members}} = {r}
  /\ GetAggregatedMember(m)
  => entity'.member[m] = saved[r].member[m]

LazyLoadsWhatWasSaved == [][\A m \in Members : MemberAsSaved(m)]_entityFilesVars
=============================================================================
