---------------------------- MODULE SharedMemory ----------------------------
(***************************************************************************)
(* interprocess::ISharedMemory: objects that create, open and remove       *)
(* segments of shared memory which the operating system keeps under names. *)
(*                                                                         *)
(* A name is gone as soon as it is removed; the segment lives on as long   *)
(* as an object has it open.  Create is not atomic: another process can    *)
(* open the segment after it was created and before it got its size.       *)
(* The process of an object may die at any time, and the system keeps what *)
(* has a name.  One thread uses an object.  An operation that throws       *)
(* without changing anything (a name in use, none found, an object that    *)
(* already has a segment, an empty name or size) is no step.               *)
(***************************************************************************)
EXTENDS Naturals

CONSTANTS
  Objects,  \* objects of the class, each in a process of its own
  Names,
  Segments, \* a supply of segments; one that has no name and no user is free again
  None,
  Free, Abandoned \* of the abstract specification

ASSUME SharedMemoryAssumption ==
  /\ None \notin Segments /\ None \notin Names
  /\ Free # Abandoned /\ Free \notin Objects /\ Abandoned \notin Objects

VARIABLES
  segment,      \* the segment the system has under each name
  sized,        \* the segments that have got their size
  shmem,        \* shmem_ of each object: the segment it has open ...
  name,         \* ... and the name it opened it by
  isShmemOwner, \* the objects whose isShmemOwner_ is set
  creating,     \* the objects in Create, between creation and truncate
  \* Only records the past:
  abandoned     \* the segments whose creator died or failed before it removed them

vars == <<segment, sized, shmem, name, isShmemOwner, creating, abandoned>>

Init ==
  /\ segment = [n \in Names |-> None]
  /\ sized = {}
  /\ shmem = [o \in Objects |-> None]
  /\ name = [o \in Objects |-> None]
  /\ isShmemOwner = {}
  /\ creating = {}
  /\ abandoned = {}

Unused == Segments \ ({segment[n] : n \in Names} \cup {shmem[o] : o \in Objects})

\* The object has nothing open any more.
Detach(o) ==
  /\ shmem' = [shmem EXCEPT ![o] = None]
  /\ name' = [name EXCEPT ![o] = None]
  /\ isShmemOwner' = isShmemOwner \ {o}

-----------------------------------------------------------------------------
(* Create and Open.                                                        *)

\* create_only: the name must be free.
BugCreateAlsoOpens(o, n) ==
  /\ shmem[o] = None
  /\ \E s \in Unused \cup ({segment[n]} \ {None}) :
       /\ segment' = [segment EXCEPT ![n] = s]
       /\ shmem' = [shmem EXCEPT ![o] = s]
       /\ sized' = sized \ {s}
  /\ name' = [name EXCEPT ![o] = n]
  /\ creating' = creating \cup {o}
  /\ UNCHANGED <<isShmemOwner, abandoned>>

BugOwnerBeforeSize(o, n) ==
  /\ shmem[o] = None
  /\ segment[n] = None
  /\ \E s \in Unused :
       /\ segment' = [segment EXCEPT ![n] = s]
       /\ shmem' = [shmem EXCEPT ![o] = s]
       /\ sized' = sized \ {s}
  /\ name' = [name EXCEPT ![o] = n]
  /\ isShmemOwner' = isShmemOwner \cup {o}
  /\ creating' = creating \cup {o}
  /\ UNCHANGED abandoned

Create(o, n) ==
  /\ shmem[o] = None
  /\ segment[n] = None
  /\ \E s \in Unused :
       /\ segment' = [segment EXCEPT ![n] = s]
       /\ shmem' = [shmem EXCEPT ![o] = s]
       /\ sized' = sized \ {s}
  /\ name' = [name EXCEPT ![o] = n]
  /\ creating' = creating \cup {o}
  /\ UNCHANGED <<isShmemOwner, abandoned>>

BugSizeKept(o) ==
  /\ o \in creating
  /\ isShmemOwner' = isShmemOwner \cup {o}
  /\ creating' = creating \ {o}
  /\ UNCHANGED <<segment, sized, shmem, name, abandoned>>

CreateReturns(o) ==
  /\ o \in creating
  /\ sized' = sized \cup {shmem[o]}
  /\ isShmemOwner' = isShmemOwner \cup {o}
  /\ creating' = creating \ {o}
  /\ UNCHANGED <<segment, shmem, name, abandoned>>

\* truncate fails: no memory, or a size that is negative as an offset_t.  The object
\* keeps the segment and is not its owner; nothing removes the name.
CreateThrows(o) ==
  /\ o \in creating
  /\ creating' = creating \ {o}
  /\ abandoned' = abandoned \cup {shmem[o]}
  /\ UNCHANGED <<segment, sized, shmem, name, isShmemOwner>>

Open(o, n) ==
  /\ shmem[o] = None
  /\ segment[n] # None
  /\ shmem' = [shmem EXCEPT ![o] = segment[n]]
  /\ name' = [name EXCEPT ![o] = n]
  /\ UNCHANGED <<segment, sized, isShmemOwner, creating, abandoned>>

-----------------------------------------------------------------------------
(* Destroy, the destructor, and the end of a process.                      *)

\* Destroy of an object that owns nothing returns true and changes nothing.
Destroy(o) ==
  /\ o \in isShmemOwner
  /\ segment' = [segment EXCEPT ![name[o]] = None]
  /\ Detach(o)
  /\ UNCHANGED <<sized, creating, abandoned>>

\* The destructor removes the segment only if the object owns it.
BugDestructorRemoves(o) ==
  /\ shmem[o] # None /\ o \notin creating
  /\ segment' = [segment EXCEPT ![name[o]] = None]
  /\ Detach(o)
  /\ UNCHANGED <<sized, creating, abandoned>>

Destruct(o) ==
  /\ shmem[o] # None /\ o \notin creating
  /\ segment' = IF o \in isShmemOwner THEN [segment EXCEPT ![name[o]] = None] ELSE segment
  /\ Detach(o)
  /\ UNCHANGED <<sized, creating, abandoned>>

Crash(o) ==
  /\ shmem[o] # None
  /\ abandoned' = IF o \in isShmemOwner \cup creating
                  THEN abandoned \cup {shmem[o]}
                  ELSE abandoned
  /\ Detach(o)
  /\ creating' = creating \ {o}
  /\ UNCHANGED <<segment, sized>>

Next ==
  \E o \in Objects :
    \/ \E n \in Names : Create(o, n) \/ Open(o, n)
    \/ CreateReturns(o) \/ CreateThrows(o)
    \/ Destroy(o) \/ Destruct(o)
    \/ Crash(o)

Spec == Init /\ [][Next]_vars

-----------------------------------------------------------------------------
(* Properties.                                                             *)

\* Types; an object has a name when it has a segment.
TypeOK ==
  /\ segment \in [Names -> Segments \cup {None}]
  /\ sized \subseteq Segments
  /\ shmem \in [Objects -> Segments \cup {None}]
  /\ name \in [Objects -> Names \cup {None}]
  /\ isShmemOwner \subseteq Objects /\ creating \subseteq Objects
  /\ isShmemOwner \cap creating = {}
  /\ abandoned \subseteq Segments
  /\ \A o \in Objects : shmem[o] = None <=> name[o] = None

\* The objects whose task it is to remove the name again.
Holders == isShmemOwner \cup creating

\* However objects of several processes create, open, remove and die: the name of an
\* owner stands for the owner's own segment, which has its size, so that its
\* destructor (ISharedMemory.cpp:15-22) cannot remove a segment that another object
\* has created under the name since, and no segment has two owners.
OwnerHasItsName ==
  /\ \A o \in Holders : shmem[o] # None /\ segment[name[o]] = shmem[o]
  /\ \A o \in isShmemOwner : shmem[o] \in sized
  /\ \A o, p \in Holders : shmem[o] = shmem[p] => o = p

\* An object that opened a segment finds it without a size only while its Create is
\* under way or after that failed or died (ISharedMemory.cpp:50,61).
UnsizedExplained ==
  \A o \in Objects :
    shmem[o] \in Segments \ sized =>
      \/ \E p \in creating : shmem[p] = shmem[o]
      \/ shmem[o] \in abandoned

HolderOf(n) ==
  IF segment[n] = None THEN Free
  ELSE IF \E o \in Holders : shmem[o] = segment[n]
       THEN CHOOSE o \in Holders : shmem[o] = segment[n]
       ELSE Abandoned

\* The names behave as names with one holder each: nobody removes a segment but its
\* owner, and a name that an owner has neither removed nor left behind by dying or by
\* a failed Create stays its own (ISharedMemory.cpp:15-64).
Ownership == INSTANCE SegmentOwnership WITH holder <- [n \in Names |-> HolderOf(n)]

ImplementsOwnership == Ownership!Spec
=============================================================================
