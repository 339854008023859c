------------------------------ MODULE DeviceMemory ------------------------------
(***************************************************************************)
(* Who owns device memory (src/l0/backend.cpp): DeviceBuffer, a handle to  *)
(* one array, and DeviceCsr, a handle to the three arrays of a matrix.     *)
(* Handles are built, moved, assigned, used and destroyed in any order a   *)
(* program may do that; every call of a backend may fail, and a failure is *)
(* an exception that unwinds what is being built.                          *)
(*                                                                         *)
(* A block is an address: the allocator may hand out one again once it is  *)
(* free.  What a block holds is left out but for its length.               *)
(***************************************************************************)
EXTENDS Integers

CONSTANTS
  Buffers, Matrices,      \* the handles of a program, by class
  Backends,
  Blocks,
  Sizes                   \* the counts that buffers and matrices may have

ASSUME HandlesAssumption ==
  /\ Buffers \cap Matrices = {}
  /\ Sizes \subseteq Nat
  /\ "null" \notin Blocks /\ "nobody" \notin Backends

VARIABLES
  heap,                   \* of each block the backend that made it and its length
  handle,                 \* the objects; ptr and shape are their members
  lost,                   \* blocks in use that no handle knows (a history)
  broken                  \* a backend was given memory that is not its own, or
                          \* more of it than there is (a history)

deviceVars == <<heap, handle, lost, broken>>

Handles == Buffers \cup Matrices
Nobody == "nobody"
Null == "null"
Unused == [maker |-> Nobody, length |-> 0]

\* The arrays of a handle: a buffer has one, a matrix row_ptr_, col_idx_ and
\* values_.  count is count_ or rows_, nnz is nnz_, and zero for a buffer.
Part == 1..3
NoPointers == [p \in Part |-> Null]
NoShape == [count |-> 0, nnz |-> 0]
Shape == [count : Sizes, nnz : Sizes]
Length(h, shape, p) ==
  IF p # 1 THEN shape.nnz ELSE IF h \in Matrices THEN shape.count + 1 ELSE shape.count

\* An object that is being built is in the stage of its next device call.
Stage == {"none", "allocate", "zero", "copy", "alive"}
NoObject == [stage |-> "none", next |-> 1, uploads |-> FALSE, backend |-> Nobody,
             ptr |-> NoPointers, shape |-> NoShape]

Alive(h) == handle[h].stage = "alive"
Building(h) == handle[h].stage \in {"allocate", "zero", "copy"}
Idle == \A h \in Handles : ~Building(h)
Held(h) == {handle[h].ptr[p] : p \in Part} \ {Null}

DeviceInit ==
  /\ heap = [b \in Blocks |-> Unused]
  /\ handle = [h \in Handles |-> NoObject]
  /\ lost = {}
  /\ broken = FALSE

-------------------------------------------------------------------------------
(* Construction.                                                           *)

\* A matrix that validate() accepts, or the one array of a buffer.
IsShapeOf(h, shape) == IF h \in Matrices THEN shape.count = 0 => shape.nnz = 0 ELSE shape.nnz = 0

\* The default constructors.
Default(h) ==
  /\ Idle /\ handle[h].stage = "none"
  /\ handle' = [handle EXCEPT ![h] = [NoObject EXCEPT !.stage = "alive"]]
  /\ UNCHANGED <<heap, lost, broken>>

\* DeviceBuffer(backend, count), and the two upload().  A buffer of nothing
\* asks the backend for nothing.
Construct(h, backend, shape, uploads) ==
  /\ Idle /\ handle[h].stage = "none"
  /\ IsShapeOf(h, shape) /\ (h \in Matrices => uploads)
  /\ handle' = [handle EXCEPT ![h] =
                  [NoObject EXCEPT !.stage = IF Length(h, shape, 1) = 0 THEN "alive" ELSE "allocate",
                                   !.uploads = uploads, !.backend = backend, !.shape = shape]]
  /\ UNCHANGED <<heap, lost, broken>>

Wanted(h) == Length(h, handle[h].shape, handle[h].next)

\* Where the object goes on when an array has been allocated.
AfterAllocate(h) ==
  IF h \notin Matrices THEN "zero" ELSE IF handle[h].next < 3 THEN "allocate" ELSE "copy"

NextPart(h) == IF AfterAllocate(h) = "allocate" THEN handle[h].next + 1 ELSE handle[h].next

Pointing(h, b) == [handle[h].ptr EXCEPT ![handle[h].next] = b]
Allocated(h, b) ==
  [stage |-> AfterAllocate(h), next |-> NextPart(h), ptr |-> Pointing(h, b),
   uploads |-> handle[h].uploads, backend |-> handle[h].backend, shape |-> handle[h].shape]

\* The backend returns a free block, or none for an array of no length.
Allocate(h) ==
  /\ handle[h].stage = "allocate"
  /\ IF Wanted(h) = 0
     THEN handle' = [handle EXCEPT ![h] = Allocated(h, Null)] /\ UNCHANGED heap
     ELSE \E b \in Blocks :
            /\ heap[b] = Unused
            /\ heap' = [heap EXCEPT ![b] = [maker |-> handle[h].backend, length |-> Wanted(h)]]
            /\ handle' = [handle EXCEPT ![h] = Allocated(h, b)]
  /\ UNCHANGED <<lost, broken>>

\* fill_zero, and the transfers of an upload.
Fill(h) ==
  /\ handle[h].stage = "zero"
  /\ handle' = [handle EXCEPT ![h].stage = IF handle[h].uploads THEN "copy" ELSE "alive"]
  /\ UNCHANGED <<heap, lost, broken>>

Copy(h) ==
  /\ handle[h].stage = "copy"
  /\ handle' = [handle EXCEPT ![h].stage = "alive"]
  /\ UNCHANGED <<heap, lost, broken>>

-------------------------------------------------------------------------------
(* Release.                                                                *)

\* deallocate() of all arrays of a handle by the handle's backend.
IsHis(h, b) == heap[b].maker = handle[h].backend
Freed(h) == [b \in Blocks |-> IF b \in Held(h) THEN Unused ELSE heap[b]]
Release(h) ==
  /\ heap' = Freed(h)
  /\ broken' = (broken \/ \E b \in Held(h) : ~IsHis(h, b))

\* An exception in a constructor runs no destructor; upload() works on an
\* object of its own, whose destructor runs.
IsUnwound(h) == h \in Matrices \/ handle[h].stage = "copy"

\* A device call fails while an object is built.
Fail(h) ==
  /\ Building(h)
  /\ handle[h].stage = "allocate" => Wanted(h) # 0
  /\ IF IsUnwound(h)
     THEN Release(h) /\ UNCHANGED lost
     ELSE lost' = lost \cup Held(h) /\ UNCHANGED <<heap, broken>>
  /\ handle' = [handle EXCEPT ![h] = NoObject]

Destroy(h) ==
  /\ Idle /\ Alive(h)
  /\ Release(h)
  /\ handle' = [handle EXCEPT ![h] = NoObject]
  /\ UNCHANGED lost

-------------------------------------------------------------------------------
(* Moves, between handles of one class.                                    *)

SameClass(h, g) == h \in Matrices <=> g \in Matrices

\* Mutant: the object that was moved from keeps its pointers.
StillHeld(object) == [object EXCEPT !.shape = NoShape]
\* What is left of an object that was moved from: its backend.
Emptied(object) == [object EXCEPT !.ptr = NoPointers, !.shape = NoShape]

MoveConstruct(h, g) ==
  /\ Idle /\ SameClass(h, g) /\ handle[h].stage = "none" /\ Alive(g)
  /\ handle' = [handle EXCEPT ![h] = handle[g], ![g] = Emptied(handle[g])]
  /\ UNCHANGED <<heap, lost, broken>>

\* Mutant: the assignment forgets what the target had.
Overwritten(h) == UNCHANGED <<heap, broken>>
ReleasedFirst(h) == Release(h)

\* A move to itself does nothing.
MoveAssign(h, g) ==
  /\ Idle /\ SameClass(h, g) /\ Alive(h) /\ Alive(g)
  /\ IF h = g THEN UNCHANGED <<heap, handle, broken>>
     ELSE /\ ReleasedFirst(h)
          /\ handle' = [handle EXCEPT ![h] = handle[g], ![g] = Emptied(handle[g])]
  /\ UNCHANGED lost

-------------------------------------------------------------------------------
\* A transfer or a kernel reads or writes as much of each array as the shape
\* says; nothing if there are no elements, or no rows.
Reaches(h) == {p \in Part : handle[h].shape.count > 0 /\ Length(h, handle[h].shape, p) > 0}
IsBacked(h, p) ==
  /\ handle[h].ptr[p] # Null
  /\ heap[handle[h].ptr[p]] =
       [maker |-> handle[h].backend, length |-> Length(h, handle[h].shape, p)]

Use(h) ==
  /\ Idle /\ Alive(h)
  /\ broken' = (broken \/ \E p \in Reaches(h) : ~IsBacked(h, p))
  /\ UNCHANGED <<heap, handle, lost>>

DeviceNext ==
  \E h \in Handles :
    \/ Default(h)
    \/ \E backend \in Backends, shape \in Shape, uploads \in BOOLEAN :
         Construct(h, backend, shape, uploads)
    \/ Allocate(h) \/ Fill(h) \/ Copy(h) \/ Fail(h)
    \/ Destroy(h)
    \/ \E g \in Handles : MoveConstruct(h, g) \/ MoveAssign(h, g)
    \/ Use(h)

DeviceSpec == DeviceInit /\ [][DeviceNext]_deviceVars

-------------------------------------------------------------------------------
(* Properties.                                                             *)

Object ==
  [stage : Stage, next : Part, uploads : BOOLEAN, backend : Backends \cup {Nobody},
   ptr : [Part -> Blocks \cup {Null}], shape : [count : Nat, nnz : Nat]]

DeviceTypeOK ==
  /\ heap \in [Blocks -> [maker : Backends \cup {Nobody}, length : Nat]]
  /\ handle \in [Handles -> Object]
  /\ lost \subseteq Blocks
  /\ broken \in BOOLEAN

\* A block in use belongs to one array of one handle, however handles were
\* moved, assigned and unwound; the only other ones are those that a failed
\* construction of a buffer left behind.
BlocksHaveOneOwner ==
  /\ \A h, g \in Handles : \A p, q \in Part :
       handle[h].ptr[p] # Null /\ handle[h].ptr[p] = handle[g].ptr[q] => h = g /\ p = q
  /\ \A b \in Blocks : heap[b] # Unused <=> b \in lost \/ \E h \in Handles : b \in Held(h)
  /\ \A h \in Handles : Held(h) \cap lost = {}

\* No block is freed twice or by another backend, and no use of a handle, one
\* that was moved from included, reaches beyond a block it owns.
MemoryIsSound == ~broken
===============================================================================
