---------------------------- MODULE EntityCopies ----------------------------
(***************************************************************************)
(* What copying, moving and lazily loading do to an entity::Entity.        *)
(*                                                                         *)
(* An Entity keeps two maps side by side: membersMap_, from a key to a     *)
(* shared member (null for a lazy one), and keyToEntityConstructorMap_,    *)
(* from a key to a copying function of the type the member was aggregated  *)
(* with.  Nothing keeps the two in step: RemoveMember leaves the function, *)
(* a lazy member never gets one, a copy has none, and the function is      *)
(* looked up by the key the member itself has at that moment.  A copy      *)
(* needs both maps to agree.                                               *)
(*                                                                         *)
(* Abstracted: a member is a leaf, known by its dynamic type and its key;  *)
(* the data of derived classes is left out.  Exceptions leave no trace     *)
(* other than the state they interrupted.                                  *)
(***************************************************************************)
EXTENDS Naturals, FiniteSets, Functions, SequencesExt

CONSTANTS
    Roots,     \* variables of type "class derived from Entity" in the program
    Order,     \* the keys, in the order std::map walks them
    LazyKeys,  \* those some class aggregates without an object
    NewKeys,   \* those a member's key is changed to
    Kinds,     \* unrelated classes derived from Entity
    Objects,   \* addresses of members
    None,      \* no entry in a map
    Lazy,      \* an entry with a null pointer
    Empty,     \* an entry with an empty std::function
    Base       \* the class Entity itself

Keys == ToSet(Order)
Types == Kinds \cup {Base}

\* What objects[o] is while o is not freed.
Allocated == [kind : Types, key : Keys \cup {None}, handed : BOOLEAN]

ASSUME RoomAssumption ==
    /\ IsFiniteSet(Roots) /\ IsFiniteSet(Objects) /\ Order \in Seq(Keys)
    /\ LazyKeys \subseteq Keys /\ NewKeys \subseteq Keys \cup {None}
    /\ Cardinality(Objects) >= Cardinality(Roots) * Len(Order)
    /\ None \notin Objects \cup Keys \cup Types \cup Allocated
    /\ Lazy \notin Objects \cup {None}
    /\ Empty \notin Types \cup {None}
    /\ Base \notin Kinds

VARIABLES
    alive,     \* the roots that are constructed
    members,   \* membersMap_ of each root
    ctors,     \* keyToEntityConstructorMap_ of each root
    objects,   \* the dynamic type and key_ of each member, None when freed
    crashed,   \* a null member was dereferenced
    plain      \* history: the root was only filled member by member, see below

vars == <<alive, members, ctors, objects, crashed, plain>>

NoEntry == [k \in Keys |-> None]

Init ==
    /\ alive = {}
    /\ members = [r \in Roots |-> NoEntry]
    /\ ctors = [r \in Roots |-> NoEntry]
    /\ objects = [o \in Objects |-> None]
    /\ crashed = FALSE
    /\ plain = [r \in Roots |-> TRUE]

Held(m) == (UNION {Range(m[r]) : r \in Roots}) \ {None, Lazy}
Used(m, r) == {k \in Keys : m[r][k] # None}

\* Where the next member is allocated: free addresses are all alike.
FreshObject == CHOOSE o \in Objects : objects[o] = None

\* A member lives as long as some root holds it (std::shared_ptr).
Freed(objs, m) ==
    LET held == Held(m) IN [o \in Objects |-> IF o \in held THEN objs[o] ELSE None]

\* RegisterEntityConstructor: std::map::insert, so the first type stays.
RegisterEntityConstructor(r, k, type) ==
    ctors' = IF ctors[r][k] = None THEN [ctors EXCEPT ![r][k] = type] ELSE ctors
-----------------------------------------------------------------------------
\* The lifetime of a root.

Construct(r) ==
    /\ r \notin alive
    /\ alive' = alive \cup {r}
    /\ UNCHANGED <<members, ctors, objects, crashed, plain>>

Destroy(r) ==
    /\ r \in alive
    /\ alive' = alive \ {r}
    /\ members' = [members EXCEPT ![r] = NoEntry]
    /\ ctors' = [ctors EXCEPT ![r] = NoEntry]
    /\ objects' = Freed(objects, members')
    /\ plain' = [plain EXCEPT ![r] = TRUE]
    /\ UNCHANGED crashed
-----------------------------------------------------------------------------
\* Members come and go.

\* What AggregateMember(std::shared_ptr<type>) does with the object o of the
\* given kind and key; it throws when the key is in use.
Aggregated(r, o, k, kind, type) ==
    /\ members[r][k] = None
    /\ members' = [members EXCEPT ![r][k] = o]
    /\ RegisterEntityConstructor(r, k, type)
    /\ plain' = [plain EXCEPT ![r] = @ /\ type = kind /\ ctors[r][k] \in {None, kind}]

\* A member made for this root, passed as a pointer to its class or to Entity.
AggregateNew(r, k, kind, type) ==
    /\ r \in alive
    /\ type \in {kind, Base}
    /\ Aggregated(r, FreshObject, k, kind, type)
    /\ objects' = [objects EXCEPT ![FreshObject] = [kind |-> kind, key |-> k, handed |-> FALSE]]
    /\ UNCHANGED <<alive, crashed>>

\* A member of some root, aggregated a second time under the key it has now.
AggregateShared(r, o, type) ==
    /\ r \in alive
    /\ objects[o] # None
    /\ type \in {objects[o].kind, Base}
    /\ objects[o].key # None
    /\ Aggregated(r, o, objects[o].key, objects[o].kind, type)
    /\ objects' = [objects EXCEPT ![o].handed = TRUE]
    /\ UNCHANGED <<alive, crashed>>

\* AggregateMember(key): an entry whose object is loaded when asked for.
AggregateKey(r, k) ==
    /\ r \in alive
    /\ members[r][k] = None
    /\ members' = [members EXCEPT ![r][k] = Lazy]
    /\ plain' = [plain EXCEPT ![r] = FALSE]
    /\ UNCHANGED <<alive, ctors, objects, crashed>>

\* The entry goes, its function stays, and its object is freed when this was
\* the last pointer to it.
BugEraseDeletes(r, k) ==
    /\ members[r][k] # None
    /\ members' = [members EXCEPT ![r][k] = None]
    /\ objects' = [o \in Objects |-> IF o = members[r][k] THEN None ELSE objects[o]]
    /\ UNCHANGED <<alive, ctors, crashed, plain>>
Erased(r, k) ==
    /\ members[r][k] # None
    /\ members' = [members EXCEPT ![r][k] = None]
    /\ objects' = Freed(objects, members')
    /\ UNCHANGED <<alive, ctors, crashed, plain>>

RemoveMember(r, k) == r \in alive /\ Erased(r, k)

\* RemoveMember(sharedObj) goes by the key the object has now: that may be the
\* key of another member, or of none (it throws).
RemoveObject(r, o) ==
    /\ r \in alive
    /\ objects[o] # None
    /\ objects[o].key # None
    /\ Erased(r, objects[o].key)

\* SetKey on a member, through the reference any getter gives out.
SetKey(o, k) ==
    /\ objects[o] # None
    /\ objects' = [objects EXCEPT ![o].key = k]
    /\ plain' = [r \in Roots |-> plain[r] /\ o \notin Range(members[r])]
    /\ UNCHANGED <<alive, members, ctors, crashed>>
-----------------------------------------------------------------------------
\* GetAggregatedMember on an entry without an object: an entity of the class
\* registered with the loader (GenerateEntity) is loaded and stored; no copying
\* function is registered for it.  When the load throws, or no class is
\* registered, the entry stays as it is.
LoadLazily(r, k, kind) ==
    /\ r \in alive
    /\ members[r][k] = Lazy
    /\ members' = [members EXCEPT ![r][k] = FreshObject]
    /\ objects' = [objects EXCEPT ![FreshObject] = [kind |-> kind, key |-> k, handed |-> FALSE]]
    /\ UNCHANGED <<alive, ctors, crashed, plain>>
-----------------------------------------------------------------------------
\* Copies.  ConstructEntity(member) calls the function found under the key
\* the member has, with operator[]: a missing one is inserted, empty, into the
\* source, and calling it throws.

\* The member under k of s cannot be copied: it is null, it has no key, no
\* function is found under its key, or the function is for another class.
Refuses(s, k) ==
    LET o == members[s][k] IN
    \/ o = Lazy
    \/ objects[o].key = None
    \/ ctors[s][objects[o].key] \notin {Base, objects[o].kind}

Refusers(s) == {i \in DOMAIN Order : Order[i] \in Used(members, s) /\ Refuses(s, Order[i])}

Copyable(s) == Refusers(s) = {}
FirstRefusal(s) == Order[Min(Refusers(s))]
Dereferences(s) == ~Copyable(s) /\ members[s][FirstRefusal(s)] = Lazy

\* The keys std::map walks over before the first member that refuses.
Reached(s) ==
    {k \in Used(members, s) :
        \E i \in DOMAIN Order : Order[i] = k /\ \A j \in Refusers(s) : i < j}

\* The copying functions of s after the call for the member under k threw.
Looked(s, k) ==
    LET key == objects[members[s][k]].key IN
    IF key # None /\ ctors[s][key] = None
    THEN [ctors EXCEPT ![s][key] = Empty]
    ELSE ctors

\* A copy of the members under ks: each is a new object of the class its
\* function makes, with the key of the original.
CopyOf(s, k) == [kind |-> ctors[s][objects[members[s][k]].key],
                 key |-> objects[members[s][k]].key, handed |-> FALSE]
BugShareMembers(r, s, ks, rest) ==
    /\ members' = [members EXCEPT ![r] = [k \in Keys |->
                     IF k \in ks THEN members[s][k] ELSE None]]
    /\ objects' = Freed(objects, members')
CopyMembers(r, s, ks, rest) ==
    LET new == CHOOSE f \in Injection(ks, Objects \ Held(rest)) : TRUE
        kept == Freed(objects, rest)
    IN
        /\ members' = [rest EXCEPT ![r] = [k \in Keys |-> IF k \in ks THEN new[k] ELSE None]]
        /\ objects' = [o \in Objects |->
             IF o \in Range(new) THEN CopyOf(s, CHOOSE k \in ks : new[k] = o)
             ELSE kept[o]]

\* Entity(const Entity &): the copy has the members and no copying functions.
\* When a member throws there is no copy.
CopyConstruct(r, s) ==
    /\ r \notin alive /\ s \in alive
    /\ Copyable(s)
    /\ CopyMembers(r, s, Used(members, s), members)
    /\ alive' = alive \cup {r}
    /\ plain' = [plain EXCEPT ![r] = Used(members, s) = {}]
    /\ UNCHANGED <<ctors, crashed>>

CopyThrows(r, s) ==
    /\ r \notin alive /\ s \in alive
    /\ ~Copyable(s)
    /\ ~Dereferences(s)
    /\ ctors' = Looked(s, FirstRefusal(s))
    /\ UNCHANGED <<alive, members, objects, crashed, plain>>

\* operator=(const Entity &): the target's members go first, and it keeps its
\* own copying functions.  What was copied before a member threw stays.
CopyAssign(r, s) ==
    /\ r \in alive /\ s \in alive /\ r # s
    /\ ~Dereferences(s)
    /\ CopyMembers(r, s, Reached(s), [members EXCEPT ![r] = NoEntry])
    /\ ctors' = IF Copyable(s) THEN ctors ELSE Looked(s, FirstRefusal(s))
    /\ plain' = [plain EXCEPT ![r] = @ /\ Reached(s) = {}]
    /\ UNCHANGED <<alive, crashed>>

\* *sharedEntity of a null pointer: the process ends, and all of this with it.
NullDereferenced(s) ==
    /\ s \in alive
    /\ Dereferences(s)
    /\ crashed' = TRUE
    /\ alive' = {}
    /\ members' = [r \in Roots |-> NoEntry]
    /\ ctors' = [r \in Roots |-> NoEntry]
    /\ objects' = [o \in Objects |-> None]
    /\ plain' = [r \in Roots |-> TRUE]
-----------------------------------------------------------------------------
\* Moves take both maps along and leave both empty; the target's own members
\* and functions are dropped.

BugMoveForgetsConstructors(r, s) ==
    /\ s \in alive /\ r # s
    /\ alive' = alive \cup {r}
    /\ members' = [members EXCEPT ![r] = members[s], ![s] = NoEntry]
    /\ objects' = Freed(objects, members')
    /\ plain' = [plain EXCEPT ![r] = plain[s], ![s] = TRUE]
    /\ UNCHANGED <<ctors, crashed>>
Move(r, s) ==
    /\ s \in alive /\ r # s
    /\ alive' = alive \cup {r}
    /\ members' = [members EXCEPT ![r] = members[s], ![s] = NoEntry]
    /\ ctors' = [ctors EXCEPT ![r] = ctors[s], ![s] = NoEntry]
    /\ objects' = Freed(objects, members')
    /\ plain' = [plain EXCEPT ![r] = plain[s], ![s] = TRUE]
    /\ UNCHANGED crashed
-----------------------------------------------------------------------------
MemberStep(r) ==
    \/ \E k \in Keys, kind \in Kinds, type \in Types : AggregateNew(r, k, kind, type)
    \/ \E o \in Objects, type \in Types : AggregateShared(r, o, type)
    \/ \E k \in Keys : RemoveMember(r, k)
    \/ \E k \in LazyKeys : AggregateKey(r, k)
    \/ \E k \in LazyKeys, kind \in Kinds : LoadLazily(r, k, kind)
    \/ \E o \in Objects : RemoveObject(r, o)

CopyStep(r, s) ==
    \/ CopyConstruct(r, s) \/ CopyThrows(r, s) \/ CopyAssign(r, s) \/ Move(r, s)

Next ==
    /\ ~crashed
    /\ \/ \E r \in Roots : Construct(r) \/ Destroy(r) \/ MemberStep(r) \/ NullDereferenced(r)
       \/ \E r, s \in Roots : CopyStep(r, s)
       \/ \E o \in Objects, k \in NewKeys : SetKey(o, k)

Spec == Init /\ [][Next]_vars
-----------------------------------------------------------------------------
\* Every member a root holds is an object that was not freed, and every object
\* that was not freed is held by some root.
TypeOK ==
    /\ alive \subseteq Roots
    /\ members \in [Roots -> [Keys -> Objects \cup {None, Lazy}]]
    /\ ctors \in [Roots -> [Keys -> Types \cup {None, Empty}]]
    /\ crashed \in BOOLEAN
    /\ plain \in [Roots -> BOOLEAN]
    /\ objects \in [Objects -> Allocated \cup {None}]
    /\ {o \in Objects : objects[o] # None} = Held(members)

\* An entity that was only filled with AggregateMember, each member through a
\* pointer to its own class, one class per key, and whose members kept their
\* keys, can be copied: whatever was removed and added again, and wherever the
\* entity was moved from or to in between (Entity.hpp:2-16, Entity.cpp:21-44).
PlainEntitiesCopy == \A r \in alive : plain[r] => Copyable(r)

\* Two entries hold the same object only when the program aggregated that
\* object twice: no sequence of copies, assignments (also those that threw
\* half way) and moves makes one entity see changes made to another
\* (Entity.cpp:21-44, Entity.hpp:40-45).
CopiesApart ==
    \A r, s \in Roots, j, k \in Keys :
        members[r][j] = members[s][k] /\ <<r, j>> # <<s, k>> =>
            members[r][j] \in {None, Lazy} \/ objects[members[r][j]].handed
=============================================================================
