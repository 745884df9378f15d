------------------------- MODULE SharedMemoryProofs -------------------------
(***************************************************************************)
(* Theorems about SharedMemory, for any sets of objects, names and         *)
(* segments: the safety invariants and the refinement of SegmentOwnership. *)
(***************************************************************************)
EXTENDS SharedMemory, TLAPS

\* No two names stand for one segment.
NamesDistinct ==
  \A m, n \in Names : segment[m] = segment[n] /\ segment[n] # None => m = n

\* UnsizedExplained of what has a name, for the object that opens it next.
NamedUnsizedExplained ==
  \A n \in Names :
    segment[n] \in Segments \ sized =>
      \/ \E p \in creating : shmem[p] = segment[n]
      \/ segment[n] \in abandoned

Inv ==
  /\ TypeOK
  /\ OwnerHasItsName
  /\ NamesDistinct
  /\ UnsizedExplained
  /\ NamedUnsizedExplained

-----------------------------------------------------------------------------

\* Nothing exists at first.
LEMMA InitInv == Init => Inv
BY SharedMemoryAssumption
DEF Init, Inv, TypeOK, OwnerHasItsName, Holders, NamesDistinct, UnsizedExplained,
    NamedUnsizedExplained

\* The types are kept by every step that starts from the invariant.
LEMMA TypeStep == Inv /\ [Next]_vars => TypeOK'
<1> SUFFICES ASSUME Inv, [Next]_vars PROVE TypeOK'
  OBVIOUS
<1> USE SharedMemoryAssumption DEF Inv, TypeOK
<1>1. CASE UNCHANGED vars
  BY <1>1 DEF vars
<1>2. ASSUME NEW o \in Objects, NEW n \in Names, Create(o, n) PROVE TypeOK'
  BY <1>2 DEF Create, Unused, OwnerHasItsName, Holders
<1>3. ASSUME NEW o \in Objects, NEW n \in Names, Open(o, n) PROVE TypeOK'
  BY <1>3 DEF Open
<1>4. ASSUME NEW o \in Objects, CreateReturns(o) PROVE TypeOK'
  BY <1>4 DEF CreateReturns, OwnerHasItsName, Holders
<1>5. ASSUME NEW o \in Objects, CreateThrows(o) PROVE TypeOK'
  BY <1>5 DEF CreateThrows, OwnerHasItsName, Holders
<1>6. ASSUME NEW o \in Objects, Destroy(o) PROVE TypeOK'
  BY <1>6 DEF Destroy, Detach
<1>7. ASSUME NEW o \in Objects, Destruct(o) PROVE TypeOK'
  BY <1>7 DEF Destruct, Detach
<1>8. ASSUME NEW o \in Objects, Crash(o) PROVE TypeOK'
  BY <1>8 DEF Crash, Detach
<1> QED
  BY <1>1, <1>2, <1>3, <1>4, <1>5, <1>6, <1>7, <1>8 DEF Next

\* An owner keeps its name: the name of another object's segment is another name.
LEMMA OwnerStep == Inv /\ [Next]_vars => OwnerHasItsName' /\ NamesDistinct'
<1> SUFFICES ASSUME Inv, [Next]_vars PROVE OwnerHasItsName' /\ NamesDistinct'
  OBVIOUS
<1> USE SharedMemoryAssumption DEF Inv, TypeOK, OwnerHasItsName, Holders, NamesDistinct
<1>1. CASE UNCHANGED vars
  BY <1>1 DEF vars
<1>2. ASSUME NEW o \in Objects, NEW n \in Names, Create(o, n)
      PROVE OwnerHasItsName' /\ NamesDistinct'
  BY <1>2 DEF Create, Unused
<1>3. ASSUME NEW o \in Objects, NEW n \in Names, Open(o, n)
      PROVE OwnerHasItsName' /\ NamesDistinct'
  BY <1>3 DEF Open
<1>4. ASSUME NEW o \in Objects, CreateReturns(o)
      PROVE OwnerHasItsName' /\ NamesDistinct'
  BY <1>4 DEF CreateReturns
<1>5. ASSUME NEW o \in Objects, CreateThrows(o)
      PROVE OwnerHasItsName' /\ NamesDistinct'
  BY <1>5 DEF CreateThrows
<1>6. ASSUME NEW o \in Objects, Destroy(o)
      PROVE OwnerHasItsName' /\ NamesDistinct'
  BY <1>6 DEF Destroy, Detach
<1>7. ASSUME NEW o \in Objects, Destruct(o)
      PROVE OwnerHasItsName' /\ NamesDistinct'
  BY <1>7 DEF Destruct, Detach
<1>8. ASSUME NEW o \in Objects, Crash(o)
      PROVE OwnerHasItsName' /\ NamesDistinct'
  BY <1>8 DEF Crash, Detach
<1> QED
  BY <1>1, <1>2, <1>3, <1>4, <1>5, <1>6, <1>7, <1>8 DEF Next

\* A segment without a size has a creator at work or one that gave up.
LEMMA UnsizedStep ==
  Inv /\ [Next]_vars => UnsizedExplained' /\ NamedUnsizedExplained'
<1> SUFFICES ASSUME Inv, [Next]_vars
             PROVE UnsizedExplained' /\ NamedUnsizedExplained'
  OBVIOUS
<1> USE SharedMemoryAssumption
    DEF Inv, TypeOK, UnsizedExplained, NamedUnsizedExplained, OwnerHasItsName, Holders
<1>1. CASE UNCHANGED vars
  BY <1>1 DEF vars
<1>2. ASSUME NEW o \in Objects, NEW n \in Names, Create(o, n)
      PROVE UnsizedExplained' /\ NamedUnsizedExplained'
  BY <1>2 DEF Create, Unused
<1>3. ASSUME NEW o \in Objects, NEW n \in Names, Open(o, n)
      PROVE UnsizedExplained' /\ NamedUnsizedExplained'
  BY <1>3 DEF Open
<1>4. ASSUME NEW o \in Objects, CreateReturns(o)
      PROVE UnsizedExplained' /\ NamedUnsizedExplained'
  BY <1>4 DEF CreateReturns
<1>5. ASSUME NEW o \in Objects, CreateThrows(o)
      PROVE UnsizedExplained' /\ NamedUnsizedExplained'
  BY <1>5 DEF CreateThrows
<1>6. ASSUME NEW o \in Objects, Destroy(o)
      PROVE UnsizedExplained' /\ NamedUnsizedExplained'
  BY <1>6 DEF Destroy, Detach
<1>7. ASSUME NEW o \in Objects, Destruct(o)
      PROVE UnsizedExplained' /\ NamedUnsizedExplained'
  BY <1>7 DEF Destruct, Detach
<1>8. ASSUME NEW o \in Objects, Crash(o)
      PROVE UnsizedExplained' /\ NamedUnsizedExplained'
  BY <1>8 DEF Crash, Detach
<1> QED
  BY <1>1, <1>2, <1>3, <1>4, <1>5, <1>6, <1>7, <1>8 DEF Next

LEMMA StepInv == Inv /\ [Next]_vars => Inv'
BY TypeStep, OwnerStep, UnsizedStep DEF Inv

LEMMA Invariance == Spec => []Inv
BY InitInv, StepInv, PTL DEF Spec

\* The variables keep their types; an object has a name when it has a segment
\* (ISharedMemory.h:105-109).
THEOREM TypeCorrect == Spec => []TypeOK
<1>1. Inv => TypeOK
  BY DEF Inv
<1> QED
  BY Invariance, <1>1, PTL

\* An owner's name stands for its own segment, so that destructor and Destroy remove
\* no other one (ISharedMemory.cpp:15-35).
THEOREM OwnersKeepTheirNames == Spec => []OwnerHasItsName
<1>1. Inv => OwnerHasItsName
  BY DEF Inv
<1> QED
  BY Invariance, <1>1, PTL

\* Whoever opened a segment without a size has met a Create under way, or one that
\* failed or died (ISharedMemory.cpp:37-81).
THEOREM SizesExplained == Spec => []UnsizedExplained
<1>1. Inv => UnsizedExplained
  BY DEF Inv
<1> QED
  BY Invariance, <1>1, PTL

-----------------------------------------------------------------------------
(* The refinement.                                                         *)

\* HolderOf, without the CHOOSE: a name's only holder is the one found.
HolderFacts ==
  \A n \in Names :
    /\ segment[n] = None => HolderOf(n) = Free
    /\ segment[n] # None =>
         /\ \A o \in Holders : shmem[o] = segment[n] => HolderOf(n) = o
         /\ (\A o \in Holders : shmem[o] # segment[n]) => HolderOf(n) = Abandoned

LEMMA HolderIsUnique == Inv => HolderFacts
<1> SUFFICES ASSUME Inv, NEW n \in Names
             PROVE /\ segment[n] = None => HolderOf(n) = Free
                   /\ segment[n] # None =>
                        /\ \A o \in Holders : shmem[o] = segment[n] => HolderOf(n) = o
                        /\ (\A o \in Holders : shmem[o] # segment[n]) => HolderOf(n) = Abandoned
  BY DEF HolderFacts
<1>1. ASSUME segment[n] # None, NEW o \in Holders, shmem[o] = segment[n]
      PROVE HolderOf(n) = o
  <2>1. \A p \in Holders : shmem[p] = segment[n] => p = o
    BY <1>1 DEF Inv, OwnerHasItsName
  <2>2. (CHOOSE p \in Holders : shmem[p] = segment[n]) = o
    BY <1>1, <2>1
  <2> QED
    BY <1>1, <2>2 DEF HolderOf
<1> QED
  BY <1>1 DEF HolderOf

\* A name whose segment and whose segment's holders stay as they are keeps its holder.
LEMMA HolderStays ==
  ASSUME HolderFacts, HolderFacts', NEW n \in Names,
         segment'[n] = segment[n],
         {o \in Holders' : shmem'[o] = segment[n]} = {o \in Holders : shmem[o] = segment[n]}
  PROVE  HolderOf(n)' = HolderOf(n)
<1>1. CASE segment[n] = None
  BY <1>1 DEF HolderFacts
<1>2. ASSUME segment[n] # None, NEW o \in Holders, shmem[o] = segment[n]
      PROVE HolderOf(n)' = HolderOf(n)
  <2>1. o \in Holders' /\ shmem'[o] = segment'[n]
    BY <1>2
  <2> QED
    BY <1>2, <2>1 DEF HolderFacts
<1>3. CASE segment[n] # None /\ \A o \in Holders : shmem[o] # segment[n]
  <2>1. \A o \in Holders' : shmem'[o] # segment'[n]
    BY <1>3
  <2> QED
    BY <1>3, <2>1 DEF HolderFacts
<1> QED
  BY <1>1, <1>2, <1>3

Mapped == [n \in Names |-> HolderOf(n)]

\* Every step takes a free name, gives up or abandons a name of the object's own, or
\* changes no name's holder.
LEMMA StepOwnership == Inv /\ [Next]_vars => [Ownership!Next]_Mapped
<1> SUFFICES ASSUME Inv, [Next]_vars PROVE [Ownership!Next]_Mapped
  OBVIOUS
<1> USE SharedMemoryAssumption
<1>0. Inv /\ HolderFacts /\ HolderFacts'
  BY StepInv, HolderIsUnique, PTL
<1>a. ASSUME NEW o \in Objects, NEW n \in Names, NEW v,
             HolderOf(n) = o \/ (HolderOf(n) = Free /\ v = o),
             v \in {o, Free, Abandoned}, HolderOf(n)' = v,
             \A m \in Names \ {n} : HolderOf(m)' = HolderOf(m)
      PROVE [Ownership!Next]_Mapped
  <2>1. Mapped' = [Mapped EXCEPT ![n] = v]
    BY <1>a DEF Mapped
  <2>2. Mapped[n] = HolderOf(n)
    BY DEF Mapped
  <2>3. CASE HolderOf(n) = o /\ v = o
    BY <1>a, <2>1, <2>2, <2>3 DEF Mapped
  <2> QED
    BY <1>a, <2>1, <2>2, <2>3
    DEF Ownership!Next, Ownership!Take, Ownership!GiveUp, Ownership!Abandon, Mapped
<1>b. ASSUME \A m \in Names : HolderOf(m)' = HolderOf(m) PROVE [Ownership!Next]_Mapped
  BY <1>b DEF Mapped
<1>1. CASE UNCHANGED vars
  <2>1. \A m \in Names : HolderOf(m)' = HolderOf(m)
    BY <1>1 DEF vars, HolderOf, Holders
  <2> QED
    BY <2>1, <1>b
<1>2. ASSUME NEW o \in Objects, NEW n \in Names, Create(o, n)
      PROVE [Ownership!Next]_Mapped
  <2>1. HolderOf(n) = Free
    BY <1>2, <1>0 DEF Create, HolderFacts
  <2>2. HolderOf(n)' = o
    BY <1>2, <1>0 DEF Create, HolderFacts, Holders, Unused, Inv, TypeOK
  <2>3. ASSUME NEW m \in Names \ {n} PROVE HolderOf(m)' = HolderOf(m)
    <3>1. segment'[m] = segment[m]
      BY <1>2 DEF Create, Inv, TypeOK
    <3>2. {p \in Holders' : shmem'[p] = segment[m]} = {p \in Holders : shmem[p] = segment[m]}
      BY <1>2 DEF Create, Inv, TypeOK, OwnerHasItsName, Holders, Unused
    <3> QED
      BY <1>0, <3>1, <3>2, HolderStays
  <2> QED
    BY <2>1, <2>2, <2>3, <1>a
<1>3. ASSUME NEW o \in Objects, NEW n \in Names, Open(o, n)
      PROVE [Ownership!Next]_Mapped
  <2>1. ASSUME NEW m \in Names PROVE HolderOf(m)' = HolderOf(m)
    <3>1. segment'[m] = segment[m]
      BY <1>3 DEF Open
    <3>2. {p \in Holders' : shmem'[p] = segment[m]} = {p \in Holders : shmem[p] = segment[m]}
      BY <1>3 DEF Open, Inv, TypeOK, OwnerHasItsName, Holders
    <3> QED
      BY <1>0, <3>1, <3>2, HolderStays
  <2> QED
    BY <2>1, <1>b
<1>4. ASSUME NEW o \in Objects, CreateReturns(o) PROVE [Ownership!Next]_Mapped
  <2>1. ASSUME NEW m \in Names PROVE HolderOf(m)' = HolderOf(m)
    <3>1. segment'[m] = segment[m] /\ Holders' = Holders /\ shmem' = shmem
      BY <1>4 DEF CreateReturns, Holders
    <3> QED
      BY <1>0, <3>1, HolderStays
  <2> QED
    BY <2>1, <1>b
<1>5. ASSUME NEW o \in Objects, CreateThrows(o) PROVE [Ownership!Next]_Mapped
  <2>1. o \in Holders /\ o \notin isShmemOwner /\ Holders' = Holders \ {o}
    BY <1>5 DEF CreateThrows, Holders, Inv, TypeOK
  <2>2. segment' = segment /\ shmem' = shmem
    BY <1>5 DEF CreateThrows
  <2>3. PICK n \in Names : n = name[o] /\ segment[n] = shmem[o] /\ shmem[o] # None
    BY <2>1 DEF Inv, TypeOK, OwnerHasItsName, Holders
  <2>4. HolderOf(n) = o
    BY <1>0, <2>1, <2>3 DEF HolderFacts
  <2>5. HolderOf(n)' = Abandoned
    <3>1. \A p \in Holders' : shmem'[p] # segment'[n]
      BY <2>1, <2>2, <2>3 DEF Inv, OwnerHasItsName
    <3> QED
      BY <1>0, <2>2, <2>3, <3>1 DEF HolderFacts
  <2>6. ASSUME NEW m \in Names \ {n} PROVE HolderOf(m)' = HolderOf(m)
    <3>1. segment[m] # shmem[o]
      BY <2>3 DEF Inv, NamesDistinct
    <3>2. {p \in Holders' : shmem'[p] = segment[m]} = {p \in Holders : shmem[p] = segment[m]}
      BY <2>1, <2>2, <3>1
    <3> QED
      BY <1>0, <2>2, <3>2, HolderStays
  <2> QED
    BY <2>3, <2>4, <2>5, <2>6, <1>a
<1>6. ASSUME NEW o \in Objects, o \in isShmemOwner,
             segment' = [segment EXCEPT ![name[o]] = None], Detach(o), creating' = creating
      PROVE [Ownership!Next]_Mapped
  <2>1. o \in Holders /\ Holders' = Holders \ {o}
    BY <1>6 DEF Detach, Holders, Inv, TypeOK
  <2>2. PICK n \in Names : n = name[o] /\ segment[n] = shmem[o] /\ shmem[o] # None
    BY <2>1 DEF Inv, TypeOK, OwnerHasItsName, Holders
  <2>3. HolderOf(n) = o
    BY <1>0, <2>1, <2>2 DEF HolderFacts
  <2>4. HolderOf(n)' = Free
    BY <1>0, <1>6, <2>2 DEF HolderFacts, Inv, TypeOK
  <2>5. ASSUME NEW m \in Names \ {n} PROVE HolderOf(m)' = HolderOf(m)
    <3>1. segment[m] # shmem[o] /\ segment'[m] = segment[m]
      BY <1>6, <2>2 DEF Inv, TypeOK, NamesDistinct
    <3>2. {p \in Holders' : shmem'[p] = segment[m]} = {p \in Holders : shmem[p] = segment[m]}
      BY <1>6, <2>1, <3>1 DEF Detach, Inv, TypeOK, Holders
    <3> QED
      BY <1>0, <3>1, <3>2, HolderStays
  <2> QED
    BY <2>2, <2>3, <2>4, <2>5, <1>a
<1>7. ASSUME NEW o \in Objects, o \notin Holders,
             segment' = segment, Detach(o), creating' = creating
      PROVE [Ownership!Next]_Mapped
  <2>1. Holders' = Holders
    BY <1>7 DEF Detach, Holders
  <2>2. ASSUME NEW m \in Names PROVE HolderOf(m)' = HolderOf(m)
    <3>1. {p \in Holders' : shmem'[p] = segment[m]} = {p \in Holders : shmem[p] = segment[m]}
      BY <1>7, <2>1 DEF Detach, Inv, TypeOK, Holders
    <3> QED
      BY <1>0, <1>7, <3>1, HolderStays
  <2> QED
    BY <2>2, <1>b
<1>8. ASSUME NEW o \in Objects, o \in Holders, Crash(o) PROVE [Ownership!Next]_Mapped
  <2>1. Holders' = Holders \ {o} /\ segment' = segment
    BY <1>8 DEF Crash, Detach, Holders
  <2>2. PICK n \in Names : n = name[o] /\ segment[n] = shmem[o] /\ shmem[o] # None
    BY <1>8 DEF Inv, TypeOK, OwnerHasItsName, Holders
  <2>3. HolderOf(n) = o
    BY <1>0, <1>8, <2>2 DEF HolderFacts
  <2>4. \A p \in Holders' : shmem'[p] = shmem[p]
    BY <1>8, <2>1 DEF Crash, Detach, Inv, TypeOK, Holders
  <2>5. HolderOf(n)' = Abandoned
    <3>1. \A p \in Holders' : shmem'[p] # segment'[n]
      BY <1>8, <2>1, <2>2, <2>4 DEF Inv, OwnerHasItsName
    <3> QED
      BY <1>0, <2>1, <2>2, <3>1 DEF HolderFacts
  <2>6. ASSUME NEW m \in Names \ {n} PROVE HolderOf(m)' = HolderOf(m)
    <3>1. segment[m] # shmem[o]
      BY <2>2 DEF Inv, NamesDistinct
    <3>2. {p \in Holders' : shmem'[p] = segment[m]} = {p \in Holders : shmem[p] = segment[m]}
      BY <2>1, <2>4, <3>1
    <3> QED
      BY <1>0, <2>1, <3>2, HolderStays
  <2> QED
    BY <2>2, <2>3, <2>5, <2>6, <1>a
<1>9. ASSUME NEW o \in Objects, Destroy(o) PROVE [Ownership!Next]_Mapped
  BY <1>9, <1>6 DEF Destroy
<1>10. ASSUME NEW o \in Objects, Destruct(o) PROVE [Ownership!Next]_Mapped
  BY <1>10, <1>6, <1>7 DEF Destruct, Holders
<1>11. ASSUME NEW o \in Objects, Crash(o), o \notin Holders PROVE [Ownership!Next]_Mapped
  BY <1>11, <1>7 DEF Crash, Holders
<1> QED
  BY <1>1, <1>2, <1>3, <1>4, <1>5, <1>8, <1>9, <1>10, <1>11 DEF Next

\* ISharedMemory implements SegmentOwnership: of any names, nobody removes a segment
\* but its owner, and nobody takes a name that has one (ISharedMemory.cpp:15-81).
THEOREM Refinement == Spec => ImplementsOwnership
<1>1. Init => Ownership!Init
  BY DEF Init, Ownership!Init, HolderOf
<1>2. Inv /\ [Next]_vars => [Ownership!Next]_Mapped
  BY StepOwnership
<1> QED
  BY InitInv, StepInv, <1>1, <1>2, PTL DEF Spec, ImplementsOwnership, Ownership!Spec, Mapped
=============================================================================
