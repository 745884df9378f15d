---------------------------- MODULE EntityProofs ----------------------------
(***************************************************************************)
(* Theorems about entities: copies of them, for any number of entities,    *)
(* keys, classes and objects, and entities in databases, for any number of *)
(* databases and whatever fails.                                           *)
(***************************************************************************)
EXTENDS EntityCopies, EntityDatabase, TLAPS, FiniteSetTheorems, FunctionTheorems, SequenceTheorems

-----------------------------------------------------------------------------
(* The inductive invariant.                                                *)

\* What is not constructed has no members.
VacantIsEmpty == \A r \in Roots \ alive : members[r] = NoEntry

\* A plain entity has, for each of its members, the function of the member's class
\* under the key of the member.
PlainIsInStep ==
  \A r \in Roots, k \in Keys : plain[r] /\ members[r][k] # None =>
    /\ members[r][k] # Lazy
    /\ objects[members[r][k]].key = k
    /\ ctors[r][k] = objects[members[r][k]].kind

Tables == [Roots -> [Keys -> Objects \cup {None, Lazy}]]

\* The members a table holds are exactly the objects that are not freed.
Kept(m, objs) ==
  /\ m \in Tables
  /\ objs \in [Objects -> Allocated \cup {None}]
  /\ {o \in Objects : objs[o] # None} = Held(m)

\* Only an object that was aggregated twice is in two entries.
Apart(m, objs) ==
  \A r, s \in Roots, j, k \in Keys :
    m[r][j] = m[s][k] /\ <<r, j>> # <<s, k>> => m[r][j] \in {None, Lazy} \/ objs[m[r][j]].handed

\* The types of everything else.
OtherTypes ==
  /\ alive \subseteq Roots
  /\ ctors \in [Roots -> [Keys -> Types \cup {None, Empty}]]
  /\ crashed \in BOOLEAN
  /\ plain \in [Roots -> BOOLEAN]

IInv ==
  OtherTypes /\ Kept(members, objects) /\ Apart(members, objects) /\ VacantIsEmpty /\ PlainIsInStep

LEMMA Parts == IInv => TypeOK /\ CopiesApart
BY DEF IInv, TypeOK, OtherTypes, Kept, Apart, CopiesApart, Tables

-----------------------------------------------------------------------------
(* Room for new members.                                                   *)

\* The objects in the entries of all roots.
LEMMA HeldIn ==
  ASSUME NEW m \in Tables, NEW o
  PROVE  o \in Held(m) <=> o \in Objects /\ \E r \in Roots, k \in Keys : m[r][k] = o
<1>1. \A r \in Roots : o \in Range(m[r]) <=> \E k \in Keys : m[r][k] = o
  BY DEF Range, Tables
<1>2. \A r \in Roots, k \in Keys : m[r][k] \in Objects \cup {None, Lazy}
  BY DEF Tables
<1>3. None \notin Objects /\ Lazy \notin Objects
  BY RoomAssumption
<1>4. o \in Held(m) <=> (\E r \in Roots : o \in Range(m[r])) /\ o \notin {None, Lazy}
  BY DEF Held
<1> QED BY <1>1, <1>2, <1>3, <1>4

\* The entries of all roots, and those without the entries E.
Entries == Roots \X Keys

LEMMA EntriesFinite ==
  /\ IsFiniteSet(Keys) /\ Cardinality(Keys) \in Nat
  /\ Cardinality(Roots) \in Nat /\ Cardinality(Objects) \in Nat
  /\ IsFiniteSet(Entries) /\ Cardinality(Entries) = Cardinality(Roots) * Cardinality(Keys)
  /\ Cardinality(Entries) <= Cardinality(Objects)
<1>1. Len(Order) \in Nat /\ DOMAIN Order = 1..Len(Order)
  BY RoomAssumption
<1>2. IsFiniteSet(Keys) /\ Cardinality(Keys) <= Len(Order)
  <2>1. IsFiniteSet(1..Len(Order)) /\ Cardinality(1..Len(Order)) = Len(Order)
    <3>1. /\ IsFiniteSet(1..Len(Order))
          /\ Cardinality(1..Len(Order)) = IF 1 > Len(Order) THEN 0 ELSE Len(Order) - 1 + 1
      BY <1>1, FS_Interval
    <3> QED BY <1>1, <3>1
  <2>2. Order \in Surjection(1..Len(Order), Keys)
    BY <1>1, RoomAssumption DEF Surjection, Keys, ToSet
  <2> QED BY <2>1, <2>2, FS_Surjection
<1>3. Cardinality(Keys) \in Nat /\ Cardinality(Roots) \in Nat /\ Cardinality(Objects) \in Nat
  BY <1>2, RoomAssumption, FS_CardinalityType
<1>4. IsFiniteSet(Entries) /\ Cardinality(Entries) = Cardinality(Roots) * Cardinality(Keys)
  BY <1>2, RoomAssumption, FS_Product DEF Entries
<1>5. Cardinality(Roots) * Cardinality(Keys) <= Cardinality(Roots) * Len(Order)
  <2>1. \A a, b, c \in Nat : b <= c => a * b <= a * c
    OBVIOUS
  <2> QED BY <1>1, <1>2, <1>3, <2>1
<1>6. Cardinality(Roots) * Len(Order) \in Nat /\ Cardinality(Roots) * Cardinality(Keys) \in Nat
  BY <1>1, <1>3
<1> QED BY <1>2, <1>3, <1>4, <1>5, <1>6, RoomAssumption

\* As many objects are held as there are entries that hold one, at most.
LEMMA HeldBound ==
  ASSUME NEW m \in Tables, NEW E \in SUBSET Entries, \A e \in Entries \ E : m[e[1]][e[2]] \notin Objects
  PROVE  /\ IsFiniteSet(E) /\ IsFiniteSet(Held(m)) /\ Held(m) \subseteq Objects
         /\ Cardinality(Held(m)) \in Nat /\ Cardinality(E) \in Nat
         /\ Cardinality(Held(m)) <= Cardinality(E)
<1>1. IsFiniteSet(E)
  BY EntriesFinite, FS_Subset
<1> DEFINE F == {e \in E : m[e[1]][e[2]] \in Objects}
           f == [e \in F |-> m[e[1]][e[2]]]
<1>2. IsFiniteSet(F) /\ Cardinality(F) <= Cardinality(E)
  BY <1>1, FS_Subset
<1>3. f \in Surjection(F, Held(m))
  <2>1. ASSUME NEW e \in F
        PROVE  f[e] \in Held(m)
    BY HeldIn DEF Entries
  <2>2. ASSUME NEW o \in Held(m)
        PROVE  \E e \in F : f[e] = o
    <3>1. PICK r \in Roots, k \in Keys : m[r][k] = o /\ o \in Objects
      BY HeldIn
    <3>2. <<r, k>> \in F
      BY <3>1 DEF Entries
    <3> QED BY <3>1, <3>2
  <2>3. f \in [F -> Held(m)]
    BY <2>1
  <2> HIDE DEF f, F
  <2> QED BY <2>2, <2>3 DEF Surjection
<1>4. IsFiniteSet(Held(m)) /\ Cardinality(Held(m)) <= Cardinality(F)
  BY <1>2, <1>3, FS_Surjection
<1>5. Held(m) \subseteq Objects
  BY HeldIn
<1>6. Cardinality(Held(m)) \in Nat /\ Cardinality(E) \in Nat /\ Cardinality(F) \in Nat
  BY <1>1, <1>2, <1>4, FS_CardinalityType
<1> QED BY <1>1, <1>2, <1>4, <1>5, <1>6

\* Where an entry has no object there is an address for one.
LEMMA RoomForOne ==
  ASSUME TypeOK, NEW r \in Roots, NEW k \in Keys, members[r][k] \in {None, Lazy}
  PROVE  FreshObject \in Objects /\ objects[FreshObject] = None
<1> DEFINE E == Entries \ {<<r, k>>}
<1>0. None \notin Objects /\ Lazy \notin Objects
  BY RoomAssumption
<1>1. members \in Tables
  BY DEF TypeOK, Tables
<1>2. \A e \in Entries \ E : members[e[1]][e[2]] \notin Objects
  BY <1>0
<1>3. /\ Cardinality(Held(members)) <= Cardinality(E) /\ Cardinality(E) \in Nat
      /\ Held(members) \subseteq Objects /\ Cardinality(Held(members)) \in Nat
  BY <1>1, <1>2, HeldBound
<1>4. Cardinality(E) = Cardinality(Entries) - 1 /\ Cardinality(Entries) \in Nat
  BY EntriesFinite, FS_RemoveElement, FS_CardinalityType DEF Entries
<1>5. Cardinality(Held(members)) < Cardinality(Objects)
  BY <1>3, <1>4, EntriesFinite
<1>6. \E o \in Objects : o \notin Held(members)
  <2>1. SUFFICES ASSUME Objects \subseteq Held(members) PROVE FALSE
    OBVIOUS
  <2>2. Held(members) = Objects
    BY <1>3, <2>1
  <2> QED BY <1>3, <1>5, <2>2
<1>7. \E o \in Objects : objects[o] = None
  BY <1>6 DEF TypeOK
<1> QED BY <1>7 DEF FreshObject

\* Where a root has no members there are addresses for as many as there are keys.
LEMMA RoomForCopy ==
  ASSUME NEW m \in Tables, NEW r \in Roots, m[r] = NoEntry, NEW ks \in SUBSET Keys
  PROVE  \E f : f \in Injection(ks, Objects \ Held(m))
<1> DEFINE E == Entries \ ({r} \X Keys)
           Free == Objects \ Held(m)
<1>0. None \notin Objects
  BY RoomAssumption
<1>1. \A e \in Entries \ E : m[e[1]][e[2]] \notin Objects
  BY <1>0 DEF NoEntry, Entries
<1>2. /\ Cardinality(Held(m)) <= Cardinality(E) /\ Cardinality(E) \in Nat
      /\ Held(m) \subseteq Objects /\ Cardinality(Held(m)) \in Nat
      /\ IsFiniteSet(Held(m))
  BY <1>1, HeldBound
<1>3. IsFiniteSet({r} \X Keys) /\ Cardinality({r} \X Keys) = Cardinality(Keys)
  <2>1. IsFiniteSet({r}) /\ Cardinality({r}) = 1
    BY FS_Singleton
  <2>2. IsFiniteSet({r} \X Keys) /\ Cardinality({r} \X Keys) = 1 * Cardinality(Keys)
    BY <2>1, EntriesFinite, FS_Product
  <2> QED BY <2>2, EntriesFinite
<1>4. Cardinality(E) = Cardinality(Entries) - Cardinality(Keys)
  <2>1. Entries \cap ({r} \X Keys) = {r} \X Keys
    BY DEF Entries
  <2>2. Cardinality(E) = Cardinality(Entries) - Cardinality(Entries \cap ({r} \X Keys))
    BY EntriesFinite, FS_Difference
  <2> QED BY <1>3, <2>1, <2>2
<1>5. IsFiniteSet(Free) /\ Cardinality(Free) = Cardinality(Objects) - Cardinality(Held(m))
  <2>1. Objects \cap Held(m) = Held(m)
    BY <1>2
  <2> QED BY <2>1, RoomAssumption, FS_Difference
<1>6. IsFiniteSet(ks) /\ Cardinality(ks) <= Cardinality(Keys)
  BY EntriesFinite, FS_Subset
<1>7. Cardinality(ks) \in Nat /\ Cardinality(Free) \in Nat /\ Cardinality(Entries) \in Nat
  BY <1>5, <1>6, EntriesFinite, FS_CardinalityType
<1>8. Cardinality(ks) <= Cardinality(Free)
  BY <1>2, <1>4, <1>5, <1>6, <1>7, EntriesFinite
<1>9. ExistsInjection(ks, 1..Cardinality(ks)) /\ ExistsInjection(1..Cardinality(Free), Free)
  BY <1>5, <1>6, FS_CardinalityType, Fun_ExistsBijEquiv
<1>10. ExistsInjection(1..Cardinality(ks), 1..Cardinality(Free))
  BY <1>7, <1>8, Fun_NatInjLeq
<1>11. ExistsInjection(ks, Free)
  BY <1>9, <1>10, Fun_ExistsInjTransitive
<1> QED BY <1>11, Fun_ExistsInj

-----------------------------------------------------------------------------
(* Members and their memory.                                               *)

LEMMA KeptMeans ==
  ASSUME NEW m \in Tables, NEW objs \in [Objects -> Allocated \cup {None}]
  PROVE  Kept(m, objs) <=>
           \A o \in Objects : objs[o] # None <=> \E r \in Roots, k \in Keys : m[r][k] = o
<1>1. Held(m) \subseteq Objects
  BY HeldIn
<1>2. Kept(m, objs) <=> \A o \in Objects : objs[o] # None <=> o \in Held(m)
  BY <1>1 DEF Kept
<1> QED BY <1>2, HeldIn

\* What an entry holds is an object that is not freed, unless it is lazy.
LEMMA HeldIsKept ==
  ASSUME NEW m, NEW objs, Kept(m, objs), NEW r \in Roots, NEW k \in Keys,
         m[r][k] \notin {None, Lazy}
  PROVE  m[r][k] \in Objects /\ objs[m[r][k]] \in Allocated
<1>1. m \in Tables /\ objs \in [Objects -> Allocated \cup {None}]
  BY DEF Kept
<1>2. m[r][k] \in Objects
  BY <1>1 DEF Tables
<1>3. objs[m[r][k]] # None
  BY <1>1, <1>2, KeptMeans
<1> QED BY <1>1, <1>2, <1>3

\* Entries that go, or go over to another root, take with them what only they held.
LEMMA Releases ==
  ASSUME Kept(members, objects), Apart(members, objects),
         NEW m \in Tables, NEW from \in [Roots -> Roots],
         \A q \in Roots, k \in Keys : m[q][k] # None => m[q][k] = members[from[q]][k],
         \A p, q \in Roots, j, k \in Keys :
           m[p][j] # None /\ m[q][k] # None /\ from[p] = from[q] => p = q
  PROVE  /\ Kept(m, Freed(objects, m)) /\ Apart(m, Freed(objects, m))
         /\ \A o \in Held(m) : Freed(objects, m)[o] = objects[o]
<1> DEFINE objs == Freed(objects, m)
<1>0. None \notin Objects /\ Lazy \notin Objects
  BY RoomAssumption
<1>1. members \in Tables /\ objects \in [Objects -> Allocated \cup {None}]
  BY DEF Kept
<1>2. Held(m) \subseteq Objects
  BY HeldIn
<1>3. \A o \in Objects : objs[o] = IF o \in Held(m) THEN objects[o] ELSE None
  BY DEF Freed
<1>4. objs \in [Objects -> Allocated \cup {None}]
  BY <1>1 DEF Freed
<1>5. ASSUME NEW o \in Held(m) PROVE objects[o] # None
  <2>1. PICK q \in Roots, k \in Keys : m[q][k] = o /\ o \in Objects
    BY HeldIn
  <2>2. members[from[q]][k] = o
    BY <1>0, <2>1
  <2> QED BY <1>1, <2>1, <2>2, KeptMeans
<1> HIDE DEF objs
<1>6. Kept(m, objs)
  BY <1>2, <1>3, <1>4, <1>5 DEF Kept
<1>7. ASSUME NEW p \in Roots, NEW q \in Roots, NEW j \in Keys, NEW k \in Keys,
             m[p][j] = m[q][k], <<p, j>> # <<q, k>>, m[p][j] \notin {None, Lazy}
      PROVE  objs[m[p][j]].handed
  <2>1. m[p][j] = members[from[p]][j] /\ m[q][k] = members[from[q]][k]
    BY <1>7
  <2>2. <<from[p], j>> # <<from[q], k>>
    BY <1>7
  <2>3. objects[m[p][j]].handed
    <3>1. from[p] \in Roots /\ from[q] \in Roots
      OBVIOUS
    <3>2. members[from[p]][j] = members[from[q]][k] /\ members[from[p]][j] \notin {None, Lazy}
      BY <1>7, <2>1
    <3>3. objects[members[from[p]][j]].handed
      BY <2>2, <3>1, <3>2 DEF Apart
    <3> QED BY <2>1, <3>3
  <2>4. m[p][j] \in Held(m)
    <3>1. m[p][j] \in Objects
      BY <1>7 DEF Tables
    <3> QED BY <3>1, HeldIn
  <2> QED BY <1>2, <1>3, <2>3, <2>4
<1>8. Apart(m, objs)
  BY <1>7 DEF Apart
<1> QED BY <1>2, <1>3, <1>6, <1>8 DEF objs

\* A new object in an entry that held none is nobody else's.
LEMMA NewObject ==
  ASSUME Kept(members, objects), Apart(members, objects),
         NEW r \in Roots, NEW k \in Keys, members[r][k] \in {None, Lazy},
         NEW o \in Objects, objects[o] = None, NEW x \in Allocated,
         members' = [members EXCEPT ![r][k] = o], objects' = [objects EXCEPT ![o] = x]
  PROVE  /\ Kept(members', objects') /\ Apart(members', objects')
         /\ \A q \in Roots, j \in Keys :
              members[q][j] \in Objects => objects'[members[q][j]] = objects[members[q][j]]
<1>0. None \notin Objects /\ Lazy \notin Objects /\ x # None
  BY RoomAssumption
<1>1. members \in Tables /\ objects \in [Objects -> Allocated \cup {None}]
  BY DEF Kept
<1>2. members' \in Tables /\ objects' \in [Objects -> Allocated \cup {None}]
  BY <1>1 DEF Tables
<1>3. /\ \A q \in Roots, j \in Keys :
           members'[q][j] = IF q = r /\ j = k THEN o ELSE members[q][j]
      /\ \A p \in Objects : objects'[p] = IF p = o THEN x ELSE objects[p]
  BY <1>1 DEF Tables
<1>4. \A p \in Objects : objects[p] # None <=> \E q \in Roots, j \in Keys : members[q][j] = p
  BY <1>1, KeptMeans
<1>5. \A q \in Roots, j \in Keys : members[q][j] # o
  BY <1>4
<1>6. ASSUME NEW p \in Objects
      PROVE  objects'[p] # None <=> \E q \in Roots, j \in Keys : members'[q][j] = p
  <2>1. CASE p = o
    BY <1>0, <1>3, <2>1
  <2>2. CASE p # o
    <3>1. \A q \in Roots, j \in Keys : members'[q][j] = p <=> members[q][j] = p
      BY <1>0, <1>3, <2>2
    <3> QED BY <1>3, <1>4, <2>2, <3>1
  <2> QED BY <2>1, <2>2
<1>7. Kept(members', objects')
  BY <1>2, <1>6, KeptMeans
<1>8. ASSUME NEW p \in Roots, NEW q \in Roots, NEW i \in Keys, NEW j \in Keys,
             members'[p][i] = members'[q][j], <<p, i>> # <<q, j>>, members'[p][i] \notin {None, Lazy}
      PROVE  objects'[members'[p][i]].handed
  <2>1. /\ members'[p][i] = members[p][i] /\ members'[q][j] = members[q][j]
        /\ members[p][i] # o
    BY <1>3, <1>5, <1>8
  <2>2. members[p][i] \in Objects
    BY <1>1, <1>8, <2>1 DEF Tables
  <2>3. objects[members[p][i]].handed
    BY <1>8, <2>1 DEF Apart
  <2> QED BY <1>3, <2>1, <2>2, <2>3
<1>9. Apart(members', objects')
  BY <1>8 DEF Apart
<1> QED BY <1>3, <1>5, <1>7, <1>9

\* std::map::insert.
LEMMA Registers ==
  ASSUME OtherTypes, NEW r \in Roots, NEW k \in Keys, NEW type \in Types,
         RegisterEntityConstructor(r, k, type)
  PROVE  /\ ctors' \in [Roots -> [Keys -> Types \cup {None, Empty}]]
         /\ \A q \in Roots, j \in Keys :
              ctors'[q][j] = IF q = r /\ j = k /\ ctors[r][k] = None THEN type ELSE ctors[q][j]
BY DEF OtherTypes, RegisterEntityConstructor

-----------------------------------------------------------------------------
(* The steps.                                                              *)

\* No entity, no member.
LEMMA NothingThere ==
  ASSUME alive' = {}, members' = [r \in Roots |-> NoEntry], ctors' = [r \in Roots |-> NoEntry],
         objects' = [o \in Objects |-> None], crashed' \in BOOLEAN, plain' = [r \in Roots |-> TRUE]
  PROVE  IInv'
<1>1. NoEntry \in [Keys -> Objects \cup {None, Lazy}] /\ NoEntry \in [Keys -> Types \cup {None, Empty}]
  BY DEF NoEntry
<1>2. members' \in Tables /\ objects' \in [Objects -> Allocated \cup {None}]
  BY <1>1 DEF Tables
<1>3. \A r \in Roots, k \in Keys : members'[r][k] = None
  BY DEF NoEntry
<1>4. Kept(members', objects')
  <2>1. \A o \in Objects : objects'[o] # None <=> \E r \in Roots, k \in Keys : members'[r][k] = o
    BY <1>3, RoomAssumption
  <2> QED BY <1>2, <2>1, KeptMeans
<1>5. OtherTypes'
  BY <1>1 DEF OtherTypes
<1>6. Apart(members', objects')
  BY <1>3 DEF Apart
<1>7. VacantIsEmpty' /\ PlainIsInStep'
  BY <1>3 DEF VacantIsEmpty, PlainIsInStep
<1> QED BY <1>4, <1>5, <1>6, <1>7 DEF IInv, Kept, Apart

\* Entries of a root go, with what only they held.
LEMMA EntriesGo ==
  ASSUME IInv, NEW m \in Tables,
         \A q \in Roots, k \in Keys : m[q][k] \in {members[q][k], None}
  PROVE  /\ Kept(m, Freed(objects, m)) /\ Apart(m, Freed(objects, m))
         /\ \A q \in Roots, k \in Keys :
              m[q][k] \notin {None, Lazy} => Freed(objects, m)[m[q][k]] = objects[m[q][k]]
<1> DEFINE from == [q \in Roots |-> q]
<1>1. from \in [Roots -> Roots]
  OBVIOUS
<1>2. \A q \in Roots, k \in Keys : m[q][k] # None => m[q][k] = members[from[q]][k]
  OBVIOUS
<1>3. \A p, q \in Roots, j, k \in Keys : m[p][j] # None /\ m[q][k] # None /\ from[p] = from[q] => p = q
  OBVIOUS
<1> HIDE DEF from
<1>4. /\ Kept(m, Freed(objects, m)) /\ Apart(m, Freed(objects, m))
      /\ \A o \in Held(m) : Freed(objects, m)[o] = objects[o]
  BY <1>1, <1>2, <1>3, Releases DEF IInv
<1>5. \A q \in Roots, k \in Keys : m[q][k] \notin {None, Lazy} => m[q][k] \in Held(m)
  <2>1. \A q \in Roots, k \in Keys : m[q][k] \notin {None, Lazy} => m[q][k] \in Objects
    BY DEF Tables
  <2> QED BY <2>1, HeldIn
<1> QED BY <1>4, <1>5

LEMMA ConstructStep ==
  ASSUME IInv, NEW r \in Roots, Construct(r)
  PROVE  IInv'
BY DEF Construct, IInv, OtherTypes, Kept, Apart, Tables, VacantIsEmpty, PlainIsInStep, Held

LEMMA DestroyStep ==
  ASSUME IInv, NEW r \in Roots, Destroy(r)
  PROVE  IInv'
<1>0. /\ members' = [members EXCEPT ![r] = NoEntry] /\ ctors' = [ctors EXCEPT ![r] = NoEntry]
      /\ objects' = Freed(objects, members')
      /\ alive' = alive \ {r} /\ plain' = [plain EXCEPT ![r] = TRUE] /\ crashed' = crashed
  BY DEF Destroy
<1>1. NoEntry \in [Keys -> Objects \cup {None, Lazy}] /\ NoEntry \in [Keys -> Types \cup {None, Empty}]
  BY DEF NoEntry
<1>2. members \in Tables /\ members' \in Tables
  BY <1>0, <1>1 DEF IInv, Kept, Tables
<1>3. \A q \in Roots : members'[q] = IF q = r THEN NoEntry ELSE members[q]
  BY <1>0, <1>2 DEF Tables
<1>4. \A q \in Roots, k \in Keys : members'[q][k] = IF q = r THEN None ELSE members[q][k]
  BY <1>3 DEF NoEntry
<1>5. /\ Kept(members', objects') /\ Apart(members', objects')
      /\ \A q \in Roots, k \in Keys :
           members'[q][k] \notin {None, Lazy} => objects'[members'[q][k]] = objects[members'[q][k]]
  <2>1. \A q \in Roots, k \in Keys : members'[q][k] \in {members[q][k], None}
    BY <1>4
  <2> QED BY <1>0, <1>2, <2>1, EntriesGo
<1>6. OtherTypes'
  BY <1>0, <1>1 DEF IInv, OtherTypes
<1>7. VacantIsEmpty'
  BY <1>0, <1>3 DEF IInv, VacantIsEmpty
<1>8. PlainIsInStep'
  <2> SUFFICES ASSUME NEW q \in Roots, NEW k \in Keys, plain'[q], members'[q][k] # None
               PROVE  /\ members'[q][k] # Lazy
                      /\ objects'[members'[q][k]].key = k
                      /\ ctors'[q][k] = objects'[members'[q][k]].kind
    BY DEF PlainIsInStep
  <2>1. q # r /\ members'[q][k] = members[q][k]
    BY <1>4
  <2>2. plain[q] /\ ctors'[q] = ctors[q]
    BY <1>0, <2>1 DEF IInv, OtherTypes
  <2>3. /\ members[q][k] # Lazy /\ objects[members[q][k]].key = k
        /\ ctors[q][k] = objects[members[q][k]].kind
    BY <2>1, <2>2 DEF IInv, PlainIsInStep
  <2>4. objects'[members'[q][k]] = objects[members[q][k]]
    BY <1>5, <2>1, <2>3
  <2> QED BY <2>1, <2>2, <2>3, <2>4
<1> QED BY <1>5, <1>6, <1>7, <1>8 DEF IInv, Kept, Apart

LEMMA ErasedStep ==
  ASSUME IInv, NEW r \in alive, NEW k \in Keys, Erased(r, k)
  PROVE  IInv'
<1>0. /\ r \in Roots
      /\ members' = [members EXCEPT ![r][k] = None]
      /\ objects' = Freed(objects, members')
      /\ UNCHANGED <<alive, ctors, crashed, plain>>
  BY DEF Erased, IInv, OtherTypes
<1>1. members \in Tables /\ members' \in Tables
  BY <1>0 DEF IInv, Kept, Tables
<1>2. \A q \in Roots, j \in Keys :
        members'[q][j] = IF q = r /\ j = k THEN None ELSE members[q][j]
  BY <1>0, <1>1 DEF Tables
<1>3. /\ Kept(members', objects') /\ Apart(members', objects')
      /\ \A q \in Roots, j \in Keys :
           members'[q][j] \notin {None, Lazy} => objects'[members'[q][j]] = objects[members'[q][j]]
  <2>1. \A q \in Roots, j \in Keys : members'[q][j] \in {members[q][j], None}
    BY <1>2
  <2> QED BY <1>0, <1>1, <2>1, EntriesGo
<1>4. OtherTypes'
  BY <1>0 DEF IInv, OtherTypes
<1>5. VacantIsEmpty'
  BY <1>0, <1>1 DEF IInv, VacantIsEmpty, Tables
<1>6. PlainIsInStep'
  <2> SUFFICES ASSUME NEW q \in Roots, NEW j \in Keys, plain'[q], members'[q][j] # None
               PROVE  /\ members'[q][j] # Lazy
                      /\ objects'[members'[q][j]].key = j
                      /\ ctors'[q][j] = objects'[members'[q][j]].kind
    BY DEF PlainIsInStep
  <2>1. members'[q][j] = members[q][j] /\ plain[q] /\ ctors'[q][j] = ctors[q][j]
    BY <1>0, <1>2
  <2>2. /\ members[q][j] # Lazy /\ objects[members[q][j]].key = j
        /\ ctors[q][j] = objects[members[q][j]].kind
    BY <2>1 DEF IInv, PlainIsInStep
  <2>3. objects'[members'[q][j]] = objects[members[q][j]]
    BY <1>3, <2>1, <2>2
  <2> QED BY <2>1, <2>2, <2>3
<1> QED BY <1>3, <1>4, <1>5, <1>6 DEF IInv, Kept, Apart

LEMMA AggregateNewStep ==
  ASSUME IInv, NEW r \in Roots, NEW k \in Keys, NEW kind \in Kinds, NEW type \in Types,
         AggregateNew(r, k, kind, type)
  PROVE  IInv'
<1> DEFINE o == FreshObject
           x == [kind |-> kind, key |-> k, handed |-> FALSE]
<1>1. o \in Objects /\ objects[o] = None
  BY Parts, RoomForOne DEF AggregateNew, Aggregated
<1>2. x \in Allocated /\ x.key = k /\ x.kind = kind
  BY DEF Allocated, Types
<1>3. /\ members' = [members EXCEPT ![r][k] = o] /\ objects' = [objects EXCEPT ![o] = x]
      /\ r \in alive /\ members[r][k] = None
      /\ RegisterEntityConstructor(r, k, type)
      /\ plain' = [plain EXCEPT ![r] = @ /\ type = kind /\ ctors[r][k] \in {None, kind}]
      /\ UNCHANGED <<alive, crashed>>
  BY DEF AggregateNew, Aggregated
<1> HIDE DEF o, x
<1>4. /\ Kept(members', objects') /\ Apart(members', objects')
      /\ \A q \in Roots, j \in Keys :
           members[q][j] \in Objects => objects'[members[q][j]] = objects[members[q][j]]
  <2>1. Kept(members, objects) /\ Apart(members, objects) /\ members[r][k] \in {None, Lazy}
    BY <1>3 DEF IInv
  <2> QED BY <1>1, <1>2, <1>3, <2>1, NewObject
<1>5. /\ ctors' \in [Roots -> [Keys -> Types \cup {None, Empty}]]
      /\ \A q \in Roots, j \in Keys :
           ctors'[q][j] = IF q = r /\ j = k /\ ctors[r][k] = None THEN type ELSE ctors[q][j]
  BY <1>3, Registers DEF IInv
<1>6. plain' \in [Roots -> BOOLEAN]
  BY <1>3 DEF IInv, OtherTypes
<1>7. VacantIsEmpty'
  BY <1>3 DEF IInv, OtherTypes, Kept, Tables, VacantIsEmpty
<1>8. PlainIsInStep'
  <2> SUFFICES ASSUME NEW q \in Roots, NEW j \in Keys, plain'[q], members'[q][j] # None
               PROVE  /\ members'[q][j] # Lazy
                      /\ objects'[members'[q][j]].key = j
                      /\ ctors'[q][j] = objects'[members'[q][j]].kind
    BY DEF PlainIsInStep
  <2>0. members \in Tables /\ objects \in [Objects -> Allocated \cup {None}]
    BY DEF IInv, Kept
  <2>1. CASE q = r /\ j = k
    <3>1. members'[q][j] = o /\ objects'[o] = x
      BY <1>1, <1>3, <2>0, <2>1 DEF Tables
    <3>2. type = kind /\ ctors[r][k] \in {None, kind}
      BY <1>3, <2>1 DEF IInv, OtherTypes
    <3>3. o # Lazy
      BY <1>1, RoomAssumption
    <3> QED BY <1>2, <1>5, <2>1, <3>1, <3>2, <3>3
  <2>2. CASE ~(q = r /\ j = k)
    <3>1. members'[q][j] = members[q][j] /\ ctors'[q][j] = ctors[q][j]
      BY <1>3, <1>5, <2>0, <2>2 DEF Tables
    <3>2. plain[q]
      BY <1>3 DEF IInv, OtherTypes
    <3>3. members[q][j] # Lazy /\ members[q][j] \in Objects
      BY <2>0, <3>1, <3>2 DEF IInv, PlainIsInStep, Tables
    <3> QED BY <1>4, <3>1, <3>2, <3>3 DEF IInv, PlainIsInStep
  <2> QED BY <2>1, <2>2
<1>9. OtherTypes'
  BY <1>3, <1>5, <1>6 DEF IInv, OtherTypes
<1> QED BY <1>4, <1>7, <1>8, <1>9 DEF IInv, Kept, Apart

LEMMA AggregateSharedStep ==
  ASSUME IInv, NEW r \in Roots, NEW o \in Objects, NEW type \in Types, AggregateShared(r, o, type)
  PROVE  IInv'
<1> DEFINE k == objects[o].key
<1>1. /\ r \in alive /\ objects[o] # None /\ k # None /\ members[r][k] = None
      /\ members' = [members EXCEPT ![r][k] = o]
      /\ objects' = [objects EXCEPT ![o].handed = TRUE]
      /\ RegisterEntityConstructor(r, k, type)
      /\ plain' = [plain EXCEPT ![r] = @ /\ type = objects[o].kind
                                         /\ ctors[r][k] \in {None, objects[o].kind}]
      /\ UNCHANGED <<alive, crashed>>
  BY DEF AggregateShared, Aggregated
<1>2. members \in Tables /\ objects \in [Objects -> Allocated \cup {None}]
  BY DEF IInv, Kept
<1>3. objects[o] \in Allocated /\ k \in Keys
  BY <1>1, <1>2 DEF Allocated
<1> DEFINE x == [objects[o] EXCEPT !.handed = TRUE]
<1>4. x \in Allocated /\ x.key = k /\ x.kind = objects[o].kind /\ x.handed = TRUE
  BY <1>3 DEF Allocated
<1>5. objects' = [objects EXCEPT ![o] = x]
  BY <1>1
<1>6. k = objects[o].key
  OBVIOUS
<1> HIDE DEF x, k
<1>7. None \notin Objects /\ Lazy \notin Objects /\ x # None
  BY <1>4, RoomAssumption
<1>8. members' \in Tables /\ objects' \in [Objects -> Allocated \cup {None}]
  BY <1>1, <1>2, <1>3, <1>4, <1>5 DEF Tables
<1>9. /\ \A q \in Roots, j \in Keys :
           members'[q][j] = IF q = r /\ j = k THEN o ELSE members[q][j]
      /\ \A p \in Objects : objects'[p] = IF p = o THEN x ELSE objects[p]
  BY <1>1, <1>2, <1>3, <1>5 DEF Tables
<1>10. Kept(members', objects')
  <2>1. \A p \in Objects : objects[p] # None <=> \E q \in Roots, j \in Keys : members[q][j] = p
    BY <1>2, KeptMeans DEF IInv
  <2>2. ASSUME NEW p \in Objects
        PROVE  objects'[p] # None <=> \E q \in Roots, j \in Keys : members'[q][j] = p
    <3>1. CASE p = o
      BY <1>1, <1>3, <1>7, <1>9, <3>1
    <3>2. CASE p # o
      <4>1. \A q \in Roots, j \in Keys : members'[q][j] = p <=> members[q][j] = p
        BY <1>1, <1>7, <1>9, <3>2
      <4> QED BY <1>9, <2>1, <3>2, <4>1
    <3> QED BY <3>1, <3>2
  <2> QED BY <1>8, <2>2, KeptMeans
<1>11. Apart(members', objects')
  <2> SUFFICES ASSUME NEW p \in Roots, NEW q \in Roots, NEW i \in Keys, NEW j \in Keys,
                      members'[p][i] = members'[q][j], <<p, i>> # <<q, j>>,
                      members'[p][i] \notin {None, Lazy}
               PROVE  objects'[members'[p][i]].handed
    BY DEF Apart
  <2>1. CASE members'[p][i] = o
    BY <1>4, <1>9, <2>1
  <2>2. CASE members'[p][i] # o
    <3>1. members'[p][i] = members[p][i] /\ members'[q][j] = members[q][j]
      BY <1>9, <2>2
    <3>2. objects[members[p][i]].handed
      <4>1. members[p][i] = members[q][j] /\ members[p][i] \notin {None, Lazy}
        BY <3>1
      <4>2. Apart(members, objects)
        BY DEF IInv
      <4> QED BY <4>1, <4>2 DEF Apart
    <3>3. members[p][i] \in Objects
      BY <1>2, <3>1 DEF Tables
    <3> QED BY <1>9, <2>2, <3>1, <3>2, <3>3
  <2> QED BY <2>1, <2>2
<1>12. /\ ctors' \in [Roots -> [Keys -> Types \cup {None, Empty}]]
       /\ \A q \in Roots, j \in Keys :
            ctors'[q][j] = IF q = r /\ j = k /\ ctors[r][k] = None THEN type ELSE ctors[q][j]
  BY <1>1, <1>3, Registers DEF IInv
<1>13. OtherTypes'
  BY <1>1, <1>12 DEF IInv, OtherTypes
<1>14. VacantIsEmpty'
  BY <1>1, <1>2 DEF IInv, Tables, VacantIsEmpty
<1>15. PlainIsInStep'
  <2> SUFFICES ASSUME NEW q \in Roots, NEW j \in Keys, plain'[q], members'[q][j] # None
               PROVE  /\ members'[q][j] # Lazy
                      /\ objects'[members'[q][j]].key = j
                      /\ ctors'[q][j] = objects'[members'[q][j]].kind
    BY DEF PlainIsInStep
  <2>1. CASE q = r /\ j = k
    <3>1. type = objects[o].kind /\ ctors[r][k] \in {None, objects[o].kind}
      BY <1>1, <2>1 DEF IInv, OtherTypes
    <3> QED BY <1>4, <1>7, <1>9, <1>12, <2>1, <3>1
  <2>2. CASE ~(q = r /\ j = k)
    <3>1. members'[q][j] = members[q][j] /\ ctors'[q][j] = ctors[q][j]
      BY <1>9, <1>12, <2>2
    <3>2. plain[q]
      BY <1>1 DEF IInv, OtherTypes
    <3>3. /\ members[q][j] # Lazy /\ objects[members[q][j]].key = j
          /\ ctors[q][j] = objects[members[q][j]].kind
      BY <3>1, <3>2 DEF IInv, PlainIsInStep
    <3>4. members[q][j] \in Objects
      BY <1>2, <3>1, <3>3 DEF Tables
    <3> QED BY <1>4, <1>6, <1>9, <3>1, <3>3, <3>4
  <2> QED BY <2>1, <2>2
<1> QED BY <1>10, <1>11, <1>13, <1>14, <1>15 DEF IInv, Kept, Apart

LEMMA AggregateKeyStep ==
  ASSUME IInv, NEW r \in Roots, NEW k \in Keys, AggregateKey(r, k)
  PROVE  IInv'
<1>1. /\ r \in alive /\ members[r][k] = None
      /\ members' = [members EXCEPT ![r][k] = Lazy] /\ plain' = [plain EXCEPT ![r] = FALSE]
      /\ UNCHANGED <<alive, ctors, objects, crashed>>
  BY DEF AggregateKey
<1>2. /\ members \in Tables /\ objects \in [Objects -> Allocated \cup {None}]
      /\ members' \in Tables
  BY <1>1 DEF IInv, Kept, Tables
<1>3. \A q \in Roots, j \in Keys :
        members'[q][j] = IF q = r /\ j = k THEN Lazy ELSE members[q][j]
  BY <1>1, <1>2 DEF Tables
<1>4. None \notin Objects /\ Lazy \notin Objects
  BY RoomAssumption
<1>5. Kept(members', objects')
  <2>1. \A p \in Objects : objects[p] # None <=> \E q \in Roots, j \in Keys : members[q][j] = p
    BY <1>2, KeptMeans DEF IInv
  <2>2. \A p \in Objects, q \in Roots, j \in Keys : members'[q][j] = p <=> members[q][j] = p
    BY <1>1, <1>3, <1>4
  <2>3. \A p \in Objects : objects'[p] # None <=> \E q \in Roots, j \in Keys : members'[q][j] = p
    BY <1>1, <2>1, <2>2
  <2> QED BY <1>1, <1>2, <2>3, KeptMeans
<1>6. Apart(members', objects')
  BY <1>1, <1>3 DEF IInv, Apart
<1>7. OtherTypes'
  BY <1>1 DEF IInv, OtherTypes
<1>8. VacantIsEmpty'
  BY <1>1, <1>2 DEF IInv, Tables, VacantIsEmpty
<1>9. PlainIsInStep'
  BY <1>1, <1>3 DEF IInv, OtherTypes, PlainIsInStep
<1> QED BY <1>5, <1>6, <1>7, <1>8, <1>9 DEF IInv, Kept, Apart

LEMMA LoadLazilyStep ==
  ASSUME IInv, NEW r \in Roots, NEW k \in Keys, NEW kind \in Kinds, LoadLazily(r, k, kind)
  PROVE  IInv'
<1> DEFINE o == FreshObject
           x == [kind |-> kind, key |-> k, handed |-> FALSE]
<1>1. o \in Objects /\ objects[o] = None
  BY Parts, RoomForOne DEF LoadLazily
<1>2. x \in Allocated
  BY DEF Allocated, Types
<1>3. /\ r \in alive /\ members[r][k] = Lazy
      /\ members' = [members EXCEPT ![r][k] = o] /\ objects' = [objects EXCEPT ![o] = x]
      /\ UNCHANGED <<alive, ctors, crashed, plain>>
  BY DEF LoadLazily
<1> HIDE DEF o, x
<1>4. /\ Kept(members', objects') /\ Apart(members', objects')
      /\ \A q \in Roots, j \in Keys :
           members[q][j] \in Objects => objects'[members[q][j]] = objects[members[q][j]]
  <2>1. Kept(members, objects) /\ Apart(members, objects) /\ members[r][k] \in {None, Lazy}
    BY <1>3 DEF IInv
  <2> QED BY <1>1, <1>2, <1>3, <2>1, NewObject
<1>5. members \in Tables
  BY DEF IInv, Kept
<1>6. OtherTypes' /\ VacantIsEmpty'
  BY <1>3, <1>5 DEF IInv, OtherTypes, VacantIsEmpty, Tables
<1>7. PlainIsInStep'
  <2> SUFFICES ASSUME NEW q \in Roots, NEW j \in Keys, plain[q], members'[q][j] # None
               PROVE  /\ members'[q][j] # Lazy
                      /\ objects'[members'[q][j]].key = j
                      /\ ctors'[q][j] = objects'[members'[q][j]].kind
    BY <1>3 DEF PlainIsInStep
  <2>0. Lazy # None
    BY RoomAssumption
  <2>1. ~(q = r /\ j = k)
    BY <1>3, <2>0 DEF IInv, PlainIsInStep
  <2>2. members'[q][j] = members[q][j] /\ ctors'[q][j] = ctors[q][j]
    BY <1>3, <1>5, <2>1 DEF Tables
  <2>3. /\ members[q][j] # Lazy /\ objects[members[q][j]].key = j
        /\ ctors[q][j] = objects[members[q][j]].kind
    BY <2>2 DEF IInv, PlainIsInStep
  <2>4. members[q][j] \in Objects
    BY <1>5, <2>2, <2>3 DEF Tables
  <2> QED BY <1>4, <2>2, <2>3, <2>4
<1> QED BY <1>4, <1>6, <1>7 DEF IInv, Kept, Apart

LEMMA SetKeyStep ==
  ASSUME IInv, NEW o \in Objects, NEW k \in NewKeys, SetKey(o, k)
  PROVE  IInv'
<1>1. /\ objects[o] # None /\ objects' = [objects EXCEPT ![o].key = k]
      /\ plain' = [r \in Roots |-> plain[r] /\ o \notin Range(members[r])]
      /\ UNCHANGED <<alive, members, ctors, crashed>>
  BY DEF SetKey
<1>2. members \in Tables /\ objects \in [Objects -> Allocated \cup {None}]
  BY DEF IInv, Kept
<1> DEFINE x == [objects[o] EXCEPT !.key = k]
<1>3. x \in Allocated /\ x.handed = objects[o].handed
  BY <1>1, <1>2, RoomAssumption DEF Allocated
<1>4. objects' = [objects EXCEPT ![o] = x]
  BY <1>1
<1> HIDE DEF x
<1>5. /\ objects' \in [Objects -> Allocated \cup {None}]
      /\ \A p \in Objects : objects'[p] = IF p = o THEN x ELSE objects[p]
  BY <1>2, <1>3, <1>4
<1>6. Kept(members', objects')
  <2>1. \A p \in Objects : objects[p] # None <=> objects'[p] # None
    BY <1>1, <1>3, <1>5, RoomAssumption
  <2>2. Held(members') = Held(members)
    BY <1>1
  <2> QED BY <1>1, <1>2, <1>5, <2>1, <2>2 DEF IInv, Kept
<1>7. Apart(members', objects')
  <2> SUFFICES ASSUME NEW p \in Roots, NEW q \in Roots, NEW i \in Keys, NEW j \in Keys,
                      members[p][i] = members[q][j], <<p, i>> # <<q, j>>,
                      members[p][i] \notin {None, Lazy}
               PROVE  objects'[members[p][i]].handed
    BY <1>1 DEF Apart
  <2>1. objects[members[p][i]].handed
    BY DEF IInv, Apart
  <2>2. members[p][i] \in Objects
    BY <1>2 DEF Tables
  <2> QED BY <1>3, <1>5, <2>1, <2>2
<1>8. OtherTypes' /\ VacantIsEmpty'
  BY <1>1 DEF IInv, OtherTypes, VacantIsEmpty
<1>9. PlainIsInStep'
  <2> SUFFICES ASSUME NEW q \in Roots, NEW j \in Keys, plain'[q], members[q][j] # None
               PROVE  /\ members[q][j] # Lazy
                      /\ objects'[members[q][j]].key = j
                      /\ ctors[q][j] = objects'[members[q][j]].kind
    BY <1>1 DEF PlainIsInStep
  <2>1. plain[q] /\ o \notin Range(members[q])
    BY <1>1
  <2>2. /\ members[q][j] # Lazy /\ objects[members[q][j]].key = j
        /\ ctors[q][j] = objects[members[q][j]].kind
    BY <2>1 DEF IInv, PlainIsInStep
  <2>3. members[q][j] # o /\ members[q][j] \in Objects
    BY <1>2, <2>1, <2>2 DEF Range, Tables
  <2> QED BY <1>5, <2>2, <2>3
<1> QED BY <1>6, <1>7, <1>8, <1>9 DEF IInv, Kept, Apart

-----------------------------------------------------------------------------
(* Copies and moves.                                                       *)

\* A member that does not refuse is copied into an object of a class that there is.
LEMMA CopyIsAllocated ==
  ASSUME IInv, NEW s \in Roots, NEW k \in Used(members, s), ~Refuses(s, k)
  PROVE  CopyOf(s, k) \in Allocated /\ CopyOf(s, k).handed = FALSE
<1> DEFINE o == members[s][k]
<1>1. k \in Keys /\ o # None /\ o # Lazy
  BY DEF Used, Refuses
<1>2. o \in Objects /\ objects[o] \in Allocated
  BY <1>1, HeldIsKept DEF IInv
<1>3. objects[o].key \in Keys /\ ctors[s][objects[o].key] \in {Base, objects[o].kind}
  BY <1>2 DEF Refuses, Allocated
<1>4. ctors[s][objects[o].key] \in Types
  BY <1>2, <1>3 DEF Allocated, Types
<1> QED BY <1>3, <1>4 DEF CopyOf, Allocated

\* Copies of members of s, in a root that has none, are nobody else's.
LEMMA CopiesAreNew ==
  ASSUME IInv, NEW r \in Roots, NEW s \in Roots,
         NEW ks \in SUBSET Used(members, s), \A k \in ks : ~Refuses(s, k),
         NEW rest \in Tables, rest[r] = NoEntry,
         \A q \in Roots, k \in Keys : rest[q][k] \in {members[q][k], None},
         CopyMembers(r, s, ks, rest)
  PROVE  /\ Kept(members', objects') /\ Apart(members', objects')
         /\ \A k \in Keys \ ks : members'[r][k] = None
         /\ \A q \in Roots \ {r} : members'[q] = rest[q]
         /\ \A q \in Roots \ {r}, k \in Keys :
              rest[q][k] \notin {None, Lazy} => objects'[rest[q][k]] = objects[rest[q][k]]
<1> DEFINE new == CHOOSE f \in Injection(ks, Objects \ Held(rest)) : TRUE
           kept == Freed(objects, rest)
<1>0. None \notin Objects /\ Lazy \notin Objects /\ None \notin Allocated
  BY RoomAssumption
<1>1. new \in Injection(ks, Objects \ Held(rest))
  <2>1. ks \in SUBSET Keys
    BY DEF Used
  <2> QED BY <2>1, RoomForCopy
<1>2. /\ members' = [rest EXCEPT ![r] = [k \in Keys |-> IF k \in ks THEN new[k] ELSE None]]
      /\ objects' = [o \in Objects |->
           IF o \in Range(new) THEN CopyOf(s, CHOOSE k \in ks : new[k] = o) ELSE kept[o]]
  BY DEF CopyMembers
<1> HIDE DEF new
<1>3. /\ new \in [ks -> Objects \ Held(rest)]
      /\ \A j, k \in ks : new[j] = new[k] => j = k
      /\ \A o : o \in Range(new) <=> \E k \in ks : new[k] = o
  <2>1. new \in [ks -> Objects \ Held(rest)] /\ \A j, k \in ks : new[j] = new[k] => j = k
    BY <1>1 DEF Injection, IsInjective
  <2>2. DOMAIN new = ks
    BY <2>1
  <2> QED BY <2>1, <2>2 DEF Range
<1>4. ks \subseteq Keys
  BY DEF Used
<1>5. /\ Kept(rest, kept) /\ Apart(rest, kept)
      /\ \A q \in Roots, k \in Keys :
           rest[q][k] \notin {None, Lazy} => kept[rest[q][k]] = objects[rest[q][k]]
  BY EntriesGo
<1> HIDE DEF kept
<1>6. kept \in [Objects -> Allocated \cup {None}]
  BY <1>5 DEF Kept
<1>7. /\ \A q \in Roots \ {r} : members'[q] = rest[q]
      /\ \A k \in Keys : members'[r][k] = IF k \in ks THEN new[k] ELSE None
  BY <1>2 DEF Tables
<1>8. members' \in Tables
  <2>1. [k \in Keys |-> IF k \in ks THEN new[k] ELSE None] \in [Keys -> Objects \cup {None, Lazy}]
    BY <1>3
  <2> QED BY <1>2, <2>1 DEF Tables
<1>9. \A o \in Range(new) : objects'[o] \in Allocated
  <2> SUFFICES ASSUME NEW o \in Range(new) PROVE objects'[o] \in Allocated
    OBVIOUS
  <2>1. o \in Objects /\ \E k \in ks : new[k] = o
    BY <1>3
  <2> DEFINE k == CHOOSE k \in ks : new[k] = o
  <2>2. k \in ks
    BY <2>1
  <2>3. objects'[o] = CopyOf(s, k)
    BY <1>2, <2>1
  <2> HIDE DEF k
  <2>4. k \in Used(members, s) /\ ~Refuses(s, k)
    BY <2>2
  <2> QED BY <2>3, <2>4, CopyIsAllocated
<1>10. \A o \in Objects : o \notin Range(new) => objects'[o] = kept[o]
  BY <1>2
<1>11. objects' \in [Objects -> Allocated \cup {None}]
  <2>1. \A o \in Objects : objects'[o] \in Allocated \cup {None}
    BY <1>6, <1>9, <1>10
  <2> QED BY <1>2, <2>1
<1>12. \A q \in Roots, k \in Keys : rest[q][k] \notin Range(new)
  <2> SUFFICES ASSUME NEW q \in Roots, NEW k \in Keys, NEW j \in ks, rest[q][k] = new[j]
               PROVE  FALSE
    BY <1>3
  <2>1. new[j] \in Objects /\ new[j] \notin Held(rest)
    BY <1>3
  <2> QED BY <2>1, HeldIn
<1>13. \A k \in Keys : rest[r][k] = None
  BY DEF NoEntry
<1>14. Kept(members', objects')
  <2>1. \A o \in Objects : kept[o] # None <=> \E q \in Roots, k \in Keys : rest[q][k] = o
    BY <1>5, <1>6, KeptMeans
  <2>2. ASSUME NEW o \in Objects
        PROVE  objects'[o] # None <=> \E q \in Roots, k \in Keys : members'[q][k] = o
    <3>1. CASE o \in Range(new)
      <4>1. PICK k \in ks : new[k] = o
        BY <1>3, <3>1
      <4>2. members'[r][k] = o /\ k \in Keys
        BY <1>4, <1>7, <4>1
      <4> QED BY <1>0, <1>9, <3>1, <4>2
    <3>2. CASE o \notin Range(new)
      <4>1. \A k \in Keys : members'[r][k] # o
        BY <1>0, <1>3, <1>7, <3>2
      <4>2. \A q \in Roots, k \in Keys : members'[q][k] = o <=> rest[q][k] = o
        BY <1>0, <1>7, <1>13, <4>1
      <4> QED BY <1>10, <2>1, <3>2, <4>2
    <3> QED BY <3>1, <3>2
  <2> QED BY <1>8, <1>11, <2>2, KeptMeans
<1>15. \A q \in Roots \ {r}, k \in Keys : rest[q][k] \notin {None, Lazy} =>
         rest[q][k] \in Objects /\ objects'[rest[q][k]] = kept[rest[q][k]]
  <2>1. \A q \in Roots, k \in Keys : rest[q][k] \in Objects \cup {None, Lazy}
    BY DEF Tables
  <2> QED BY <1>10, <1>12, <2>1
<1>16. Apart(members', objects')
  <2> SUFFICES ASSUME NEW p \in Roots, NEW q \in Roots, NEW i \in Keys, NEW j \in Keys,
                      members'[p][i] = members'[q][j], <<p, i>> # <<q, j>>,
                      members'[p][i] \notin {None, Lazy}
               PROVE  objects'[members'[p][i]].handed
    BY DEF Apart
  <2>1. CASE p = r /\ q = r
    <3>1. i \in ks /\ j \in ks /\ new[i] = new[j]
      BY <1>7, <2>1
    <3> QED BY <1>3, <2>1, <3>1
  <2>2. CASE p = r /\ q # r
    <3>1. members'[p][i] \in Range(new)
      BY <1>3, <1>7, <2>2
    <3> QED BY <1>7, <1>12, <2>2, <3>1
  <2>3. CASE p # r /\ q = r
    <3>1. members'[q][j] \in Range(new)
      BY <1>3, <1>7, <2>3
    <3> QED BY <1>7, <1>12, <2>3, <3>1
  <2>4. CASE p # r /\ q # r
    <3>1. members'[p][i] = rest[p][i] /\ members'[q][j] = rest[q][j]
      BY <1>7, <2>4
    <3>2. kept[rest[p][i]].handed
      <4>1. rest[p][i] = rest[q][j] /\ rest[p][i] \notin {None, Lazy}
        BY <3>1
      <4> QED BY <1>5, <4>1 DEF Apart
    <3>3. objects'[rest[p][i]] = kept[rest[p][i]]
      BY <1>15, <2>4, <3>1
    <3> QED BY <3>1, <3>2, <3>3
  <2> QED BY <2>1, <2>2, <2>3, <2>4
<1>17. \A q \in Roots \ {r}, k \in Keys :
         rest[q][k] \notin {None, Lazy} => objects'[rest[q][k]] = objects[rest[q][k]]
  BY <1>5, <1>15
<1> QED BY <1>7, <1>14, <1>16, <1>17

\* A failed look-up leaves the functions of plain entities alone.
LEMMA LookedUp ==
  ASSUME IInv, NEW s \in Roots, NEW k, ctors' = Looked(s, k)
  PROVE  /\ ctors' \in [Roots -> [Keys -> Types \cup {None, Empty}]]
         /\ \A q \in Roots, j \in Keys : ctors[q][j] # None => ctors'[q][j] = ctors[q][j]
BY DEF Looked, IInv, OtherTypes

\* A member of a plain entity has a function, and so none refuses.
LEMMA PlainHasFunctions ==
  ASSUME IInv, NEW q \in Roots, NEW k \in Keys, plain[q], members[q][k] # None
  PROVE  /\ members[q][k] \in Objects /\ objects[members[q][k]].key = k
         /\ ctors[q][k] = objects[members[q][k]].kind /\ ctors[q][k] # None
         /\ ~Refuses(q, k)
<1>1. /\ members[q][k] # Lazy /\ objects[members[q][k]].key = k
      /\ ctors[q][k] = objects[members[q][k]].kind
  BY DEF IInv, PlainIsInStep
<1>2. members[q][k] \in Objects /\ objects[members[q][k]] \in Allocated
  BY <1>1, HeldIsKept DEF IInv
<1>3. objects[members[q][k]].kind \in Types
  BY <1>2 DEF Allocated
<1>4. None \notin Types /\ None \notin Keys
  BY RoomAssumption
<1> QED BY <1>1, <1>2, <1>3, <1>4 DEF Refuses

LEMMA CopyConstructStep ==
  ASSUME IInv, NEW r \in Roots, NEW s \in Roots, CopyConstruct(r, s)
  PROVE  IInv'
<1> DEFINE ks == Used(members, s)
<1>1. /\ r \notin alive /\ s \in alive /\ Copyable(s) /\ CopyMembers(r, s, ks, members)
      /\ alive' = alive \cup {r} /\ plain' = [plain EXCEPT ![r] = ks = {}]
      /\ UNCHANGED <<ctors, crashed>>
  BY DEF CopyConstruct
<1>2. \A k \in ks : ~Refuses(s, k)
  <2>1. \A k \in ks : \E i \in DOMAIN Order : Order[i] = k
    BY DEF Used, Keys, ToSet
  <2> QED BY <1>1, <2>1 DEF Copyable, Refusers
<1>3. members[r] = NoEntry /\ members \in Tables
  BY <1>1 DEF IInv, VacantIsEmpty, Kept
<1>4. /\ Kept(members', objects') /\ Apart(members', objects')
      /\ \A k \in Keys \ ks : members'[r][k] = None
      /\ \A q \in Roots \ {r} : members'[q] = members[q]
      /\ \A q \in Roots \ {r}, k \in Keys :
           members[q][k] \notin {None, Lazy} => objects'[members[q][k]] = objects[members[q][k]]
  BY <1>1, <1>2, <1>3, CopiesAreNew
<1> HIDE DEF ks
<1>5. OtherTypes'
  <2>1. (ks = {}) \in BOOLEAN
    OBVIOUS
  <2> QED BY <1>1, <2>1 DEF IInv, OtherTypes
<1>6. VacantIsEmpty'
  BY <1>1, <1>4 DEF IInv, VacantIsEmpty
<1>7. PlainIsInStep'
  <2> SUFFICES ASSUME NEW q \in Roots, NEW k \in Keys, plain'[q], members'[q][k] # None
               PROVE  /\ members'[q][k] # Lazy
                      /\ objects'[members'[q][k]].key = k
                      /\ ctors'[q][k] = objects'[members'[q][k]].kind
    BY DEF PlainIsInStep
  <2>1. CASE q = r
    <3>1. ks = {}
      BY <1>1, <2>1 DEF IInv, OtherTypes
    <3> QED BY <1>4, <2>1, <3>1
  <2>2. CASE q # r
    <3>1. plain[q] /\ members'[q][k] = members[q][k] /\ ctors' = ctors
      BY <1>1, <1>4, <2>2 DEF IInv, OtherTypes
    <3>2. Lazy \notin Objects /\ None \notin Objects
      BY RoomAssumption
    <3> QED BY <1>4, <2>2, <3>1, <3>2, PlainHasFunctions
  <2> QED BY <2>1, <2>2
<1> QED BY <1>4, <1>5, <1>6, <1>7 DEF IInv, Kept, Apart

LEMMA CopyThrowsStep ==
  ASSUME IInv, NEW r \in Roots, NEW s \in Roots, CopyThrows(r, s)
  PROVE  IInv'
<1>1. ctors' = Looked(s, FirstRefusal(s)) /\ UNCHANGED <<alive, members, objects, crashed, plain>>
  BY DEF CopyThrows
<1>2. /\ ctors' \in [Roots -> [Keys -> Types \cup {None, Empty}]]
      /\ \A q \in Roots, j \in Keys : ctors[q][j] # None => ctors'[q][j] = ctors[q][j]
  BY <1>1, LookedUp
<1>3. OtherTypes'
  BY <1>1, <1>2 DEF IInv, OtherTypes
<1>4. PlainIsInStep'
  <2>1. \A q \in Roots, k \in Keys : plain[q] /\ members[q][k] # None => ctors'[q][k] = ctors[q][k]
    BY <1>2, PlainHasFunctions
  <2> QED BY <1>1, <2>1 DEF IInv, PlainIsInStep
<1>5. Kept(members', objects') /\ Apart(members', objects') /\ VacantIsEmpty'
  <2>1. Held(members') = Held(members)
    BY <1>1
  <2> QED BY <1>1, <2>1 DEF IInv, Kept, Apart, VacantIsEmpty
<1> QED BY <1>3, <1>4, <1>5 DEF IInv, Kept, Apart

LEMMA CopyAssignStep ==
  ASSUME IInv, NEW r \in Roots, NEW s \in Roots, CopyAssign(r, s)
  PROVE  IInv'
<1> DEFINE ks == Reached(s)
           rest == [members EXCEPT ![r] = NoEntry]
<1>1. /\ r \in alive /\ s \in alive /\ r # s
      /\ CopyMembers(r, s, ks, rest)
      /\ ctors' = IF Copyable(s) THEN ctors ELSE Looked(s, FirstRefusal(s))
      /\ plain' = [plain EXCEPT ![r] = @ /\ ks = {}]
      /\ UNCHANGED <<alive, crashed>>
  BY DEF CopyAssign
<1>2. ks \in SUBSET Used(members, s) /\ \A k \in ks : ~Refuses(s, k)
  <2> SUFFICES ASSUME NEW k \in ks PROVE k \in Used(members, s) /\ ~Refuses(s, k)
    OBVIOUS
  <2>1. k \in Used(members, s)
    BY DEF Reached
  <2>2. PICK i \in DOMAIN Order : Order[i] = k /\ \A j \in Refusers(s) : i < j
    BY DEF Reached
  <2>3. i \in Nat
    BY RoomAssumption
  <2>4. i \notin Refusers(s)
    BY <2>2, <2>3
  <2> QED BY <2>1, <2>2, <2>4 DEF Refusers
<1>3. members \in Tables /\ NoEntry \in [Keys -> Objects \cup {None, Lazy}]
  BY DEF IInv, Kept, NoEntry
<1>4. /\ rest \in Tables /\ rest[r] = NoEntry
      /\ \A q \in Roots \ {r} : rest[q] = members[q]
  BY <1>3 DEF Tables
<1>5. \A q \in Roots, k \in Keys : rest[q][k] \in {members[q][k], None}
  BY <1>4 DEF NoEntry
<1> HIDE DEF ks, rest
<1>6. /\ Kept(members', objects') /\ Apart(members', objects')
      /\ \A k \in Keys \ ks : members'[r][k] = None
      /\ \A q \in Roots \ {r} : members'[q] = rest[q]
      /\ \A q \in Roots \ {r}, k \in Keys :
           rest[q][k] \notin {None, Lazy} => objects'[rest[q][k]] = objects[rest[q][k]]
  <2>1. CopyMembers(r, s, ks, rest)
    BY <1>1
  <2>2. /\ ks \in SUBSET Used(members, s) /\ (\A k \in ks : ~Refuses(s, k))
        /\ rest \in Tables /\ rest[r] = NoEntry
        /\ \A q \in Roots, k \in Keys : rest[q][k] \in {members[q][k], None}
    BY <1>2, <1>4, <1>5
  <2> QED BY <2>1, <2>2, CopiesAreNew, SMTT(90)
<1>7. /\ ctors' \in [Roots -> [Keys -> Types \cup {None, Empty}]]
      /\ \A q \in Roots, j \in Keys : ctors[q][j] # None => ctors'[q][j] = ctors[q][j]
  <2>1. CASE Copyable(s)
    BY <1>1, <2>1 DEF IInv, OtherTypes
  <2>2. CASE ~Copyable(s)
    BY <1>1, <2>2, LookedUp
  <2> QED BY <2>1, <2>2
<1>8. OtherTypes'
  BY <1>1, <1>7 DEF IInv, OtherTypes
<1>9. VacantIsEmpty'
  BY <1>1, <1>4, <1>6 DEF IInv, VacantIsEmpty
<1>10. PlainIsInStep'
  <2> SUFFICES ASSUME NEW q \in Roots, NEW k \in Keys, plain'[q], members'[q][k] # None
               PROVE  /\ members'[q][k] # Lazy
                      /\ objects'[members'[q][k]].key = k
                      /\ ctors'[q][k] = objects'[members'[q][k]].kind
    BY DEF PlainIsInStep
  <2>1. CASE q = r
    <3>1. ks = {}
      BY <1>1, <2>1 DEF IInv, OtherTypes
    <3> QED BY <1>6, <2>1, <3>1
  <2>2. CASE q # r
    <3>1. plain[q]
      BY <1>1, <2>2 DEF IInv, OtherTypes
    <3>2. members'[q][k] = members[q][k] /\ rest[q][k] = members[q][k]
      BY <1>4, <1>6, <2>2
    <3>3. Lazy \notin Objects /\ None \notin Objects
      BY RoomAssumption
    <3>4. /\ members[q][k] \in Objects /\ objects[members[q][k]].key = k
          /\ ctors[q][k] = objects[members[q][k]].kind /\ ctors[q][k] # None
      BY <3>1, <3>2, PlainHasFunctions
    <3>5. objects'[members[q][k]] = objects[members[q][k]] /\ ctors'[q][k] = ctors[q][k]
      BY <1>6, <1>7, <2>2, <3>2, <3>3, <3>4
    <3> QED BY <3>2, <3>3, <3>4, <3>5
  <2> QED BY <2>1, <2>2
<1> QED BY <1>6, <1>8, <1>9, <1>10 DEF IInv, Kept, Apart

LEMMA MoveStep ==
  ASSUME IInv, NEW r \in Roots, NEW s \in Roots, Move(r, s)
  PROVE  IInv'
<1> DEFINE from == [q \in Roots |-> IF q = r THEN s ELSE q]
<1>1. /\ s \in alive /\ r # s
      /\ alive' = alive \cup {r}
      /\ members' = [members EXCEPT ![r] = members[s], ![s] = NoEntry]
      /\ ctors' = [ctors EXCEPT ![r] = ctors[s], ![s] = NoEntry]
      /\ objects' = Freed(objects, members')
      /\ plain' = [plain EXCEPT ![r] = plain[s], ![s] = TRUE]
      /\ UNCHANGED crashed
  BY DEF Move
<1>2. NoEntry \in [Keys -> Objects \cup {None, Lazy}] /\ NoEntry \in [Keys -> Types \cup {None, Empty}]
  BY DEF NoEntry
<1>3. members \in Tables /\ members' \in Tables
  BY <1>1, <1>2 DEF IInv, Kept, Tables
<1>4. \A q \in Roots :
        /\ members'[q] = IF q = s THEN NoEntry ELSE members[from[q]]
        /\ q # s => ctors'[q] = ctors[from[q]] /\ plain'[q] = plain[from[q]]
  BY <1>1, <1>3 DEF IInv, OtherTypes, Tables
<1>5. \A k \in Keys : members'[s][k] = None
  BY <1>4 DEF NoEntry
<1>6. /\ from \in [Roots -> Roots]
      /\ \A p, q \in Roots : p # s /\ q # s /\ from[p] = from[q] => p = q
  OBVIOUS
<1> HIDE DEF from
<1>7. /\ Kept(members', objects') /\ Apart(members', objects')
      /\ \A o \in Held(members') : objects'[o] = objects[o]
  <2>1. \A q \in Roots, k \in Keys : members'[q][k] # None => members'[q][k] = members[from[q]][k]
    BY <1>4, <1>5
  <2>2. \A p, q \in Roots, j, k \in Keys :
          members'[p][j] # None /\ members'[q][k] # None /\ from[p] = from[q] => p = q
    BY <1>5, <1>6
  <2>3. Kept(members, objects) /\ Apart(members, objects)
    BY DEF IInv
  <2> QED BY <1>1, <1>3, <1>6, <2>1, <2>2, <2>3, Releases
<1>8. OtherTypes'
  BY <1>1, <1>2 DEF IInv, OtherTypes
<1>9. VacantIsEmpty'
  <2> SUFFICES ASSUME NEW q \in Roots \ alive' PROVE members'[q] = NoEntry
    BY DEF VacantIsEmpty
  <2>1. q # r /\ q # s /\ q \notin alive
    BY <1>1
  <2> QED BY <1>1, <1>3, <2>1 DEF IInv, VacantIsEmpty, Tables
<1>10. PlainIsInStep'
  <2> SUFFICES ASSUME NEW q \in Roots, NEW k \in Keys, plain'[q], members'[q][k] # None
               PROVE  /\ members'[q][k] # Lazy
                      /\ objects'[members'[q][k]].key = k
                      /\ ctors'[q][k] = objects'[members'[q][k]].kind
    BY DEF PlainIsInStep
  <2>1. q # s /\ from[q] \in Roots
    BY <1>5, <1>6
  <2>2. /\ members'[q][k] = members[from[q]][k] /\ ctors'[q] = ctors[from[q]]
        /\ plain[from[q]]
    BY <1>4, <2>1
  <2>3. /\ members[from[q]][k] \in Objects /\ objects[members[from[q]][k]].key = k
        /\ ctors[from[q]][k] = objects[members[from[q]][k]].kind
    BY <2>1, <2>2, PlainHasFunctions
  <2>4. members'[q][k] \in Held(members')
    BY <1>3, <2>2, <2>3, HeldIn
  <2>5. Lazy \notin Objects
    BY RoomAssumption
  <2> QED BY <1>7, <2>2, <2>3, <2>4, <2>5
<1> QED BY <1>7, <1>8, <1>9, <1>10 DEF IInv, Kept, Apart

-----------------------------------------------------------------------------
LEMMA Invariance == Spec => []IInv
<1>1. Init => IInv
  <2> SUFFICES ASSUME Init PROVE IInv
    OBVIOUS
  <2>1. NoEntry \in [Keys -> Objects \cup {None, Lazy}] /\ NoEntry \in [Keys -> Types \cup {None, Empty}]
    BY DEF NoEntry
  <2>2. members \in Tables /\ objects \in [Objects -> Allocated \cup {None}]
    BY <2>1 DEF Init, Tables
  <2>3. \A r \in Roots, k \in Keys : members[r][k] = None
    BY DEF Init, NoEntry
  <2>4. Kept(members, objects)
    <3>1. \A o \in Objects : objects[o] # None <=> \E r \in Roots, k \in Keys : members[r][k] = o
      BY <2>3, RoomAssumption DEF Init
    <3> QED BY <2>2, <3>1, KeptMeans
  <2>5. OtherTypes
    BY <2>1 DEF Init, OtherTypes
  <2>6. Apart(members, objects) /\ VacantIsEmpty /\ PlainIsInStep
    BY <2>3 DEF Init, Apart, VacantIsEmpty, PlainIsInStep
  <2> QED BY <2>4, <2>5, <2>6 DEF IInv
<1>2. IInv /\ [Next]_vars => IInv'
  <2> SUFFICES ASSUME IInv, [Next]_vars PROVE IInv'
    OBVIOUS
  <2>1. ASSUME NEW r \in Roots, Construct(r) \/ Destroy(r) PROVE IInv'
    BY <2>1, ConstructStep, DestroyStep
  <2>2. ASSUME NEW r \in Roots, MemberStep(r) PROVE IInv'
    <3>0. LazyKeys \subseteq Keys
      BY RoomAssumption
    <3>1. CASE \E k \in Keys, kind \in Kinds, type \in Types : AggregateNew(r, k, kind, type)
      BY <3>1, AggregateNewStep
    <3>2. CASE \E o \in Objects, type \in Types : AggregateShared(r, o, type)
      BY <3>2, AggregateSharedStep
    <3>3. CASE \E k \in Keys : RemoveMember(r, k)
      BY <3>3, ErasedStep DEF RemoveMember
    <3>4. CASE \E k \in LazyKeys : AggregateKey(r, k)
      BY <3>0, <3>4, AggregateKeyStep
    <3>5. CASE \E k \in LazyKeys, kind \in Kinds : LoadLazily(r, k, kind)
      BY <3>0, <3>5, LoadLazilyStep
    <3>6. CASE \E o \in Objects : RemoveObject(r, o)
      <4>1. PICK o \in Objects : RemoveObject(r, o)
        BY <3>6
      <4>2. r \in alive /\ objects[o] # None /\ objects[o].key # None /\ Erased(r, objects[o].key)
        BY <4>1 DEF RemoveObject
      <4>3. objects[o].key \in Keys
        BY <4>2 DEF IInv, Kept, Allocated
      <4> QED BY <4>2, <4>3, ErasedStep
    <3> QED BY <2>2, <3>1, <3>2, <3>3, <3>4, <3>5, <3>6 DEF MemberStep
  <2>3. ASSUME NEW r \in Roots, NullDereferenced(r) PROVE IInv'
    BY <2>3, NothingThere DEF NullDereferenced
  <2>4. ASSUME NEW r \in Roots, NEW s \in Roots, CopyStep(r, s) PROVE IInv'
    BY <2>4, CopyConstructStep, CopyThrowsStep, CopyAssignStep, MoveStep DEF CopyStep
  <2>5. ASSUME NEW o \in Objects, NEW k \in NewKeys, SetKey(o, k) PROVE IInv'
    BY <2>5, SetKeyStep
  <2>6. CASE UNCHANGED vars
    <3>1. Held(members') = Held(members)
      BY <2>6 DEF vars
    <3> QED BY <2>6, <3>1 DEF vars, IInv, OtherTypes, Kept, Apart, VacantIsEmpty, PlainIsInStep
  <2> QED BY <2>1, <2>2, <2>3, <2>4, <2>5, <2>6 DEF Next
<1> QED BY <1>1, <1>2, PTL DEF Spec

-----------------------------------------------------------------------------
(* The theorems.                                                           *)

\* Types; an object lives exactly as long as some entry of some entity holds it
\* (Entity.cpp:21-101).
THEOREM TypeCorrect == Spec => []TypeOK
BY Invariance, Parts, PTL

\* Copies, assignments and moves, also those that fail, never make two entities share a
\* member that the program has not aggregated twice (Entity.cpp:21-44, Entity.hpp:40-45).
THEOREM CopiesShareNothing == Spec => []CopiesApart
BY Invariance, Parts, PTL

\* What was only filled member by member can be copied (Entity.hpp:2-16,
\* Entity.cpp:21-44).
THEOREM PlainIsCopyable == Spec => []PlainEntitiesCopy
<1>1. IInv => PlainEntitiesCopy
  <2> SUFFICES ASSUME IInv, NEW r \in alive, plain[r], NEW i \in Refusers(r) PROVE FALSE
    BY DEF PlainEntitiesCopy, Copyable
  <2>1. r \in Roots
    BY DEF IInv, OtherTypes
  <2>2. Order[i] \in Keys /\ members[r][Order[i]] # None /\ Refuses(r, Order[i])
    BY DEF Refusers, Used
  <2> QED BY <2>1, <2>2, PlainHasFunctions
<1> QED BY Invariance, <1>1, PTL

-----------------------------------------------------------------------------
(* Entities in databases.                                                  *)
(*                                                                         *)
(* What the last Persist of an entity has put into its home is in the      *)
(* tree of the present EntityPersister, and every row that a Persist of    *)
(* another writes later holds the whole tree.                              *)

\* An entity with a home is whole in the tree and in the newest row of its home, and
\* saved there (EntityPersister.cpp:87-110).
HomesHold ==
  \A e \in Entities : home[e] # Nowhere =>
    saveTree[e] = "whole" /\ hierarchy[home[e]][e] = "whole" /\ e \in stored[home[e]]

\* An open loader has what is due, in the tree it read and in its database
\* (EntityLoader.cpp:145-168).
DueAreThere ==
  conn["EntityLoader"] # Nowhere /\ due # {} =>
    /\ conn["EntityLoader"] \in Paths
    /\ \A e \in due : loadTree[e] = "whole" /\ e \in stored[conn["EntityLoader"]]

Persistence == DatabaseTypeOK /\ HomesHold /\ DueAreThere

LEMMA InitPersistence ==
  ASSUME DatabaseInit
  PROVE  Persistence
<1>1. EmptyTree \in Trees /\ NoHomes \in [Entities -> Paths \cup {Nowhere}]
  BY DEF EmptyTree, Trees, Nodes, NoHomes
<1>2. conn \in [Holders -> Paths \cup {Nowhere, Broken}] /\ conn["EntityLoader"] = Nowhere
      /\ conn["EntityPersister"] = Nowhere
  BY DEF DatabaseInit, Holders
<1>3. DatabaseTypeOK
  BY <1>1, <1>2, DatabaseAssumption DEF DatabaseInit, DatabaseTypeOK
<1> QED BY <1>2, <1>3 DEF DatabaseInit, NoHomes, Persistence, HomesHold, DueAreThere

\* Opening, closing and resetting connections.
LEMMA ConnectionsPersistence ==
  ASSUME Persistence, NEW h \in Holders,
         \/ \E p \in Paths : OpenDatabase(h, p)
         \/ CloseDatabase(h)
  PROVE  Persistence'
<1>0. /\ conn' \in [Holders -> Paths \cup {Nowhere, Broken}]
      /\ path' \in Paths \cup {Nowhere}
      /\ UNCHANGED <<hierarchy, stored, leaked, saveTree, loadTree, home, due>>
  BY DEF Persistence, DatabaseTypeOK, OpenDatabase, CloseDatabase,
         OpenResults, diskVars, trees
<1>1. conn'["EntityLoader"] \in {Nowhere, conn["EntityLoader"]}
  BY DEF Persistence, DatabaseTypeOK, OpenDatabase, CloseDatabase,
         Holders
<1>2. conn'["EntityPersister"] \in Paths => path' = conn'["EntityPersister"]
  BY DatabaseAssumption DEF Persistence, DatabaseTypeOK, OpenDatabase, CloseDatabase, Holders, OpenResults
<1>3. leaked => conn'["ResourcePersister"] \in Paths
  BY DatabaseAssumption DEF Persistence, DatabaseTypeOK, OpenDatabase, CloseDatabase, Holders, IsOpen
<1>4. DatabaseTypeOK'
  BY <1>0, <1>2, <1>3 DEF Persistence, DatabaseTypeOK
<1> QED BY <1>0, <1>1, <1>4 DEF Persistence, HomesHold, DueAreThere

LEMMA ResetPersistence ==
  ASSUME Persistence, NEW h \in Holders, ResetInstance(h)
  PROVE  Persistence'
<1>0. EmptyTree \in Trees /\ NoHomes \in [Entities -> Paths \cup {Nowhere}]
  BY DEF EmptyTree, Trees, Nodes, NoHomes
<1>1. /\ ~(h = "ResourcePersister" /\ leaked)
      /\ conn' = [conn EXCEPT ![h] = Nowhere]
      /\ UNCHANGED <<hierarchy, stored, leaked>>
  BY DEF ResetInstance, diskVars
<1>2. conn' \in [Holders -> Paths \cup {Nowhere, Broken}]
  BY <1>1 DEF Persistence, DatabaseTypeOK
<1>3. /\ conn'[h] = Nowhere
      /\ \A g \in Holders : g # h => conn'[g] = conn[g]
  BY <1>1 DEF Persistence, DatabaseTypeOK
<1>4. "EntityPersister" \in Holders /\ "EntityLoader" \in Holders
      /\ "ResourcePersister" \in Holders
  BY DEF Holders
<1>5. leaked' => conn'["ResourcePersister"] \in Paths
  BY <1>1, <1>3, <1>4 DEF Persistence, DatabaseTypeOK
<1>6. Nowhere \notin Paths
  BY DatabaseAssumption
<1>7. CASE h = "EntityPersister"
  <2>1. /\ path' = Nowhere /\ saveTree' = EmptyTree /\ home' = NoHomes
        /\ UNCHANGED <<loadTree, due>>
    BY <1>7 DEF ResetInstance
  <2>2. DatabaseTypeOK'
    BY <1>0, <1>1, <1>2, <1>3, <1>5, <1>6, <1>7, <2>1 DEF Persistence, DatabaseTypeOK
  <2>3. HomesHold'
    BY <2>1 DEF HomesHold, NoHomes
  <2>4. DueAreThere'
    BY <1>1, <1>3, <1>4, <1>7, <2>1 DEF Persistence, DueAreThere
  <2> QED BY <2>2, <2>3, <2>4 DEF Persistence
<1>8. CASE h = "EntityLoader"
  <2>1. loadTree' = EmptyTree /\ due' = {} /\ UNCHANGED <<path, saveTree, home>>
    BY <1>8 DEF ResetInstance
  <2>2. conn'["EntityPersister"] = conn["EntityPersister"]
    BY <1>3, <1>4, <1>8
  <2>3. DatabaseTypeOK'
    BY <1>0, <1>1, <1>2, <1>5, <2>1, <2>2 DEF Persistence, DatabaseTypeOK
  <2> QED BY <1>1, <2>1, <2>3 DEF Persistence, HomesHold, DueAreThere
<1>9. CASE h \notin {"EntityPersister", "EntityLoader"}
  <2>1. UNCHANGED <<path, saveTree, loadTree, home, due>>
    BY <1>9 DEF ResetInstance, trees
  <2>2. conn'["EntityPersister"] = conn["EntityPersister"]
        /\ conn'["EntityLoader"] = conn["EntityLoader"]
    BY <1>3, <1>4, <1>9
  <2>3. DatabaseTypeOK'
    BY <1>1, <1>2, <1>5, <2>1, <2>2 DEF Persistence, DatabaseTypeOK
  <2> QED BY <1>1, <2>1, <2>2, <2>3 DEF Persistence, HomesHold, DueAreThere
<1> QED BY <1>7, <1>8, <1>9

LEMMA RestartPersistence ==
  ASSUME Persistence, Restart
  PROVE  Persistence'
<1>1. EmptyTree \in Trees /\ NoHomes \in [Entities -> Paths \cup {Nowhere}]
  BY DEF EmptyTree, Trees, Nodes, NoHomes
<1>2. conn' \in [Holders -> Paths \cup {Nowhere, Broken}] /\ conn'["EntityLoader"] = Nowhere
      /\ conn'["EntityPersister"] = Nowhere
  BY DEF Restart, Holders
<1>3. DatabaseTypeOK'
  BY <1>1, <1>2, DatabaseAssumption DEF Persistence, Restart, DatabaseTypeOK, diskVars
<1> QED BY <1>2, <1>3
        DEF Restart, NoHomes, Persistence, HomesHold, DueAreThere

\* Of the entities that are not persisted now, nothing but the newest row of one database
\* changes, and that to the tree.
LEMMA OthersPersistence ==
  ASSUME Persistence, NEW e \in Entities,
         home' \in [Entities -> Paths \cup {Nowhere}],
         \A f \in Entities \ {e} :
           /\ home'[f] = home[f] /\ saveTree'[f] = saveTree[f]
           /\ \A p \in Paths : /\ hierarchy'[p][f] \in {hierarchy[p][f], saveTree[f]}
                               /\ f \in stored[p] => f \in stored'[p],
         home'[e] # Nowhere =>
           saveTree'[e] = "whole" /\ hierarchy'[home'[e]][e] = "whole" /\ e \in stored'[home'[e]],
         conn'["EntityLoader"] = conn["EntityLoader"],
         due' = due \ {e}, loadTree' = loadTree
  PROVE  HomesHold' /\ DueAreThere'
<1>1. HomesHold'
  <2> SUFFICES ASSUME NEW f \in Entities, home'[f] # Nowhere
               PROVE  saveTree'[f] = "whole" /\ hierarchy'[home'[f]][f] = "whole" /\ f \in stored'[home'[f]]
    BY DEF HomesHold
  <2>1. CASE f = e
    BY <2>1
  <2>2. CASE f # e
    <3>1. /\ home[f] # Nowhere /\ home'[f] = home[f] /\ home[f] \in Paths
          /\ saveTree[f] = "whole" /\ hierarchy[home[f]][f] = "whole" /\ f \in stored[home[f]]
      BY <2>2 DEF Persistence, DatabaseTypeOK, HomesHold
    <3> QED BY <2>2, <3>1
  <2> QED BY <2>1, <2>2
<1>2. DueAreThere'
  <2>1. due \subseteq Entities
    BY DEF Persistence, DatabaseTypeOK
  <2> QED BY <2>1 DEF Persistence, DueAreThere
<1> QED BY <1>1, <1>2

LEMMA PersistPersistence ==
  ASSUME Persistence, NEW e \in Entities, PersistReturns(e)
  PROVE  Persistence'
<1> DEFINE target == Target
           here == conn["EntityPersister"]
<1>1. /\ target \in Paths
      /\ saveTree' = [saveTree EXCEPT ![e] = "whole"]
      /\ hierarchy' = [hierarchy EXCEPT ![target] = saveTree']
      /\ stored' = [p \in Paths |-> IF p = here THEN stored[p] \cup {e} ELSE stored[p]]
      /\ home' = [home EXCEPT ![e] = IF target = here THEN target ELSE Nowhere]
      /\ due' = due \ {e}
      /\ UNCHANGED <<conn, path, leaked, loadTree>>
  BY DEF PersistReturns, Saved, Recorded
<1> HIDE DEF target, here
<1>2. /\ hierarchy \in [Paths -> Trees] /\ stored \in [Paths -> SUBSET Entities]
      /\ home \in [Entities -> Paths \cup {Nowhere}] /\ saveTree \in [Entities -> Nodes]
      /\ due \subseteq Entities
  BY DEF Persistence, DatabaseTypeOK, Trees
<1>3. saveTree' \in Trees
  BY <1>1, <1>2 DEF Trees, Nodes
<1>4. /\ hierarchy' \in [Paths -> Trees] /\ stored' \in [Paths -> SUBSET Entities]
      /\ home' \in [Entities -> Paths \cup {Nowhere}] /\ due' \subseteq Entities
  BY <1>1, <1>2, <1>3
<1>5. DatabaseTypeOK'
  BY <1>1, <1>3, <1>4 DEF Persistence, DatabaseTypeOK
<1>6. ASSUME NEW f \in Entities \ {e}
      PROVE  /\ home'[f] = home[f] /\ saveTree'[f] = saveTree[f]
             /\ \A p \in Paths : /\ hierarchy'[p][f] \in {hierarchy[p][f], saveTree[f]}
                                 /\ f \in stored[p] => f \in stored'[p]
  <2>1. home'[f] = home[f] /\ saveTree'[f] = saveTree[f]
    BY <1>1, <1>2
  <2>2. \A p \in Paths : hierarchy'[p] \in {hierarchy[p], saveTree'}
    BY <1>1, <1>2
  <2>3. \A p \in Paths : f \in stored[p] => f \in stored'[p]
    BY <1>1
  <2> QED BY <2>1, <2>2, <2>3
<1>7. home'[e] # Nowhere =>
        saveTree'[e] = "whole" /\ hierarchy'[home'[e]][e] = "whole" /\ e \in stored'[home'[e]]
  <2> SUFFICES ASSUME home'[e] # Nowhere
               PROVE  saveTree'[e] = "whole" /\ hierarchy'[home'[e]][e] = "whole" /\ e \in stored'[home'[e]]
    OBVIOUS
  <2>1. home'[e] = target /\ target = here
    BY <1>1, <1>2
  <2>2. saveTree'[e] = "whole" /\ hierarchy'[target] = saveTree' /\ e \in stored'[target]
    BY <1>1, <1>2, <2>1
  <2> QED BY <2>1, <2>2
<1>8. HomesHold' /\ DueAreThere'
  BY <1>1, <1>4, <1>6, <1>7, OthersPersistence
<1> QED BY <1>5, <1>8 DEF Persistence

LEMMA PersistThrowsPersistence ==
  ASSUME Persistence, NEW e \in Entities, PersistThrows(e)
  PROVE  Persistence'
<1>1. /\ home' = [home EXCEPT ![e] = Nowhere]
      /\ due' = due \ {e}
      /\ UNCHANGED <<hierarchy, path, loadTree>>
  BY DEF PersistThrows
<1>2. /\ stored \in [Paths -> SUBSET Entities] /\ saveTree \in [Entities -> Nodes]
      /\ home \in [Entities -> Paths \cup {Nowhere}] /\ due \subseteq Entities
      /\ conn \in [Holders -> Paths \cup {Nowhere, Broken}] /\ leaked \in BOOLEAN
      /\ leaked => conn["ResourcePersister"] \in Paths
  BY DEF Persistence, DatabaseTypeOK, Trees
<1>3. /\ stored' \in [Paths -> SUBSET Entities] /\ saveTree' \in Trees
      /\ \A f \in Entities \ {e} :
           saveTree'[f] = saveTree[f] /\ \A p \in Paths : f \in stored[p] => f \in stored'[p]
  <2>1. CASE SaveThrows(e)
    BY <1>2, <2>1 DEF SaveThrows, Trees, Nodes
  <2>2. CASE Saved(e)
    BY <1>2, <2>2 DEF Saved, Trees, Nodes
  <2> QED BY <2>1, <2>2 DEF PersistThrows
<1>4. /\ conn' \in [Holders -> Paths \cup {Nowhere, Broken}] /\ leaked' \in BOOLEAN
      /\ conn'["EntityLoader"] = conn["EntityLoader"]
      /\ conn'["EntityPersister"] = conn["EntityPersister"]
      /\ leaked' => conn'["ResourcePersister"] \in Paths
  <2>1. CASE UNCHANGED <<conn, leaked>>
    BY <1>2, <2>1
  <2>2. CASE /\ ~IsOpen("ResourcePersister")
             /\ conn' = [conn EXCEPT !["ResourcePersister"] = Broken] /\ UNCHANGED leaked
    BY <1>2, <2>2, DatabaseAssumption DEF IsOpen, Holders
  <2>3. CASE /\ Target \in Paths
             /\ conn' = [conn EXCEPT !["ResourcePersister"] = Target] /\ leaked' \in {leaked, TRUE}
    BY <1>2, <2>3 DEF Holders
  <2> QED BY <2>1, <2>2, <2>3 DEF PersistThrows, SendThrows
<1>5. home' \in [Entities -> Paths \cup {Nowhere}] /\ due' \subseteq Entities
  BY <1>1, <1>2
<1>6. DatabaseTypeOK'
  BY <1>1, <1>3, <1>4, <1>5 DEF Persistence, DatabaseTypeOK
<1>7. home'[e] = Nowhere /\ \A f \in Entities \ {e} : home'[f] = home[f]
  BY <1>1, <1>2
<1>8. HomesHold' /\ DueAreThere'
  BY <1>1, <1>3, <1>4, <1>5, <1>7, OthersPersistence
<1> QED BY <1>6, <1>8 DEF Persistence

LEMMA LoaderPersistence ==
  ASSUME Persistence, LoaderStep
  PROVE  Persistence'
<1>0. Nowhere \notin Paths /\ "EntityLoader" \in Holders /\ "ResourceLoader" \in Holders
  BY DatabaseAssumption DEF Holders
<1>1. ASSUME NEW p \in Paths, LoaderOpens(p)
      PROVE  Persistence'
  <2>1. /\ conn' = [conn EXCEPT !["EntityLoader"] = p]
        /\ loadTree' = HierarchyAt(
             IF IsOpen("ResourceLoader") THEN conn["ResourceLoader"] ELSE p)
        /\ due' = IF conn["ResourceLoader"] \in {Nowhere, p}
                  THEN {e \in Entities : home[e] = p} ELSE {}
        /\ UNCHANGED <<hierarchy, stored, path, leaked, saveTree, home>>
    BY <1>1 DEF LoaderOpens, diskVars
  <2>2. /\ conn' \in [Holders -> Paths \cup {Nowhere, Broken}] /\ conn'["EntityLoader"] = p
        /\ conn'["EntityPersister"] = conn["EntityPersister"]
        /\ conn'["ResourcePersister"] = conn["ResourcePersister"]
    BY <1>0, <2>1 DEF Persistence, DatabaseTypeOK, Holders
  <2>3. loadTree' \in Trees /\ due' \subseteq Entities
    BY <2>1 DEF Persistence, DatabaseTypeOK, HierarchyAt, EmptyTree, Trees, Nodes
  <2>4. DatabaseTypeOK'
    BY <2>1, <2>2, <2>3 DEF Persistence, DatabaseTypeOK
  <2>5. due' # {} => loadTree' = hierarchy[p] /\ due' = {e \in Entities : home[e] = p}
    BY <1>0, <2>1 DEF HierarchyAt, IsOpen
  <2>6. DueAreThere'
    BY <2>1, <2>2, <2>5 DEF Persistence, HomesHold, DueAreThere
  <2> QED BY <2>1, <2>4, <2>6 DEF Persistence, HomesHold
<1>2. ASSUME NEW p \in Paths, LoaderOpenThrows(p)
      PROVE  Persistence'
  <2>1. /\ due' = {} /\ UNCHANGED <<hierarchy, stored, path, leaked, saveTree, loadTree, home>>
    BY <1>2 DEF LoaderOpenThrows, diskVars, trees
  <2>2. /\ conn' \in [Holders -> Paths \cup {Nowhere, Broken}]
        /\ conn'["EntityPersister"] = conn["EntityPersister"]
        /\ conn'["ResourcePersister"] = conn["ResourcePersister"]
    BY <1>0, <1>2 DEF Persistence, DatabaseTypeOK, LoaderOpenThrows, Holders
  <2>3. DatabaseTypeOK'
    BY <2>1, <2>2 DEF Persistence, DatabaseTypeOK
  <2> QED BY <2>1, <2>3 DEF Persistence, HomesHold, DueAreThere
<1>3. ASSUME NEW e \in Entities, LoadEntity(e) \/ GetAggregatedMember(e)
      PROVE  Persistence'
  BY <1>3 DEF LoadEntity, GetAggregatedMember, databaseVars,
              diskVars, trees, Persistence, DatabaseTypeOK, HomesHold,
              DueAreThere
<1> QED BY <1>1, <1>2, <1>3 DEF LoaderStep

LEMMA PersistenceInvariant == DatabaseSpec => []Persistence
<1>1. DatabaseInit => Persistence
  BY InitPersistence
<1>2. Persistence /\ [DatabaseNext]_databaseVars => Persistence'
  <2> SUFFICES ASSUME Persistence, [DatabaseNext]_databaseVars PROVE Persistence'
    OBVIOUS
  <2>1. CASE UNCHANGED databaseVars
    BY <2>1 DEF databaseVars, diskVars, trees, Persistence, DatabaseTypeOK,
                HomesHold, DueAreThere
  <2>2. CASE PersisterStep
    BY <2>2, PersistPersistence, PersistThrowsPersistence DEF PersisterStep
  <2> QED
    BY <2>1, <2>2, ConnectionsPersistence, ResetPersistence, RestartPersistence, LoaderPersistence
    DEF DatabaseNext
<1> QED BY <1>1, <1>2, PTL DEF DatabaseSpec

\* Types; an open EntityPersister knows its path, and only an open connection has a
\* leaked statement (EntityPersister.cpp:58-110, ResourcePersister.cpp:58-110).
THEOREM DatabaseTypeCorrect == DatabaseSpec => []DatabaseTypeOK
BY PersistenceInvariant, PTL DEF Persistence

\* With any databases, entities and failures: a loader that read the database itself
\* fills every entity whose last Persist, by the present EntityPersister, had put it there
\* by then, whatever is persisted, or fails, for others before and after
\* (EntityPersister.cpp:90,101-102, ResourceLoader.cpp:114-122, EntityLoader.cpp:145-168).
THEOREM PersistedAreFound == DatabaseSpec => []LoaderFindsOurs
<1>1. Persistence => LoaderFindsOurs
  BY DEF Persistence, DueAreThere, LoaderFindsOurs, Outcome, IsOpen
<1> QED BY PersistenceInvariant, <1>1, PTL
=============================================================================
