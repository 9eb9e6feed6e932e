--------------------------- MODULE QueueLifecycle ---------------------------
(***************************************************************************)
(* Opening and closing a queue: the constructor, init_new_file,            *)
(* validate_settings and close of message_transport/ipc_queue.cpp.         *)
(*                                                                         *)
(* Processes find each other by the name of a shared-memory object.  The   *)
(* first to come creates and initialises it, the others map it.  A process *)
(* that leaves removes the name when it believes nobody needs it; those    *)
(* that still have the object mapped go on using it, and the next to come  *)
(* creates another one under the same name.                                *)
(*                                                                         *)
(* A step is one system call or one access to the object's global header.  *)
(* What happens in the ring, and what a leaving reader drains, is in       *)
(* IpcQueue.                                                               *)
(***************************************************************************)
EXTENDS Naturals, FiniteSets, Sequences

CONSTANTS
  Writers, Readers,   \* processes that open the queue to write, to read
  SizeOf,             \* the size each process is configured with
  Server,             \* a writer, for HostedSpec
  MaxObjects          \* bound: objects created over time

Processes == Writers \cup Readers

ASSUME LifecycleAssumption ==
  /\ Writers \cap Readers = {}
  /\ IsFiniteSet(Processes)
  /\ SizeOf \in [Processes -> Nat \ {0}]
  /\ Server \in Writers
  /\ MaxObjects \in Nat

VARIABLES
  name,      \* the object the file name stands for, 0 for none
  objects,   \* every object created: its length, magic number and counts
  proc       \* each process's control state and the object it has open

vars == <<name, objects, proc>>

States == {"new", "creating", "sizing", "initializing", "validating",
           "joining", "attached", "leaving", "left", "unlinking", "closed",
           "failed", "crashed"}

Objects ==
  [sized : BOOLEAN, magic : BOOLEAN, size : Nat, readers : Nat, writers : Nat]

NewObject ==
  [sized |-> FALSE, magic |-> FALSE, size |-> 0, readers |-> 0, writers |-> 0]

TypeOK ==
  /\ objects \in Seq(Objects)
  /\ name \in 0 .. Len(objects)
  /\ proc \in [Processes ->
       [pc : States, obj : 0 .. Len(objects), size : Nat, seen : Nat]]

Init ==
  /\ name = 0
  /\ objects = << >>
  /\ proc = [p \in Processes |->
       [pc |-> "new", obj |-> 0, size |-> SizeOf[p], seen |-> 0]]

Go(p, pc) == proc' = [proc EXCEPT ![p].pc = pc]

Obj(p) == objects[proc[p].obj]

-----------------------------------------------------------------------------
(* The constructor *)

\* shm_open(O_RDWR): "assume file exists already and we are simply opening it".
Open(p) ==
  /\ proc[p].pc = "new"
  /\ IF name = 0
       THEN Go(p, "creating")
       ELSE proc' = [proc EXCEPT ![p].pc = "validating", ![p].obj = name]
  /\ UNCHANGED <<name, objects>>

\* shm_open(O_CREAT | O_RDWR | O_EXCL).  If another process was faster, the
\* constructor throws.
AddObject(p) ==
  /\ Len(objects) < MaxObjects
  /\ objects' = Append(objects, NewObject)
  /\ name' = Len(objects) + 1
  /\ proc' = [proc EXCEPT ![p].pc = "sizing", ![p].obj = Len(objects) + 1]

CreateShared(p) ==
  IF name = 0
    THEN AddObject(p)
    ELSE /\ proc' = [proc EXCEPT ![p].pc = "sizing", ![p].obj = name]
         /\ UNCHANGED <<name, objects>>

CreateExclusive(p) ==
  IF name = 0
    THEN AddObject(p)
    ELSE Go(p, "failed") /\ UNCHANGED <<name, objects>>

Create(p) == proc[p].pc = "creating" /\ CreateExclusive(p)

\* ftruncate, in init_new_file.
SizeFile(p) ==
  /\ proc[p].pc = "sizing"
  /\ objects' = [objects EXCEPT ![proc[p].obj].sized = TRUE]
  /\ Go(p, "initializing")
  /\ UNCHANGED name

\* The rest of init_new_file; the magic number is stored last.
InitializedFile(p) ==
  [sized |-> TRUE, magic |-> TRUE, size |-> SizeOf[p],
   readers |-> 0, writers |-> 0]

InitFile(p) ==
  /\ proc[p].pc = "initializing"
  /\ objects' = [objects EXCEPT ![proc[p].obj] = InitializedFile(p)]
  /\ Go(p, "joining")
  /\ UNCHANGED name

\* validate_settings.  The first access to a mapping of a file that has no
\* length yet is a bus error.
SizeKept(p) == SizeOf[p]
AdoptedSize(p) == Obj(p).size

ValidateUnchecked(p) == "joining"
AfterValidate(p) ==
  IF ~Obj(p).sized THEN "crashed"
  ELSE IF ~Obj(p).magic THEN "failed"
  ELSE "joining"

Validate(p) ==
  /\ proc[p].pc = "validating"
  /\ proc' = [proc EXCEPT ![p].pc = AfterValidate(p),
                          ![p].size = AdoptedSize(p)]
  /\ UNCHANGED <<name, objects>>

\* modify_readers(true), or the increment of num_writers.
Join(p) ==
  /\ proc[p].pc = "joining"
  /\ objects' = IF p \in Readers
       THEN [objects EXCEPT ![proc[p].obj].readers = @ + 1]
       ELSE [objects EXCEPT ![proc[p].obj].writers = @ + 1]
  /\ Go(p, "attached")
  /\ UNCHANGED name

-----------------------------------------------------------------------------
(* close *)

\* A reader takes itself off the count.
LeaveReader(p) ==
  /\ p \in Readers
  /\ proc[p].pc = "attached"
  /\ objects' = [objects EXCEPT ![proc[p].obj].readers = @ - 1]
  /\ Go(p, "left")
  /\ UNCHANGED name

\* A writer loads the packed word first ...
LeaveWriter(p) ==
  /\ p \in Writers
  /\ proc[p].pc = "attached"
  /\ proc' = [proc EXCEPT ![p].pc = "leaving", ![p].seen = Obj(p).readers]
  /\ UNCHANGED <<name, objects>>

\* ... and then takes itself off its count.
DropWriter(p) ==
  /\ proc[p].pc = "leaving"
  /\ objects' = [objects EXCEPT ![proc[p].obj].writers = @ - 1]
  /\ Go(p, "left")
  /\ UNCHANGED name

\* The load of num_writers and the decision that hangs on it.
RemovesAlways(p) == TRUE
RemovesAsReader(p) == Obj(p).writers = 0 /\ p \in Readers
Removes(p) == Obj(p).writers = 0 /\ (p \in Readers \/ proc[p].seen = 0)

Unmap(p) ==
  /\ proc[p].pc = "left"
  /\ Go(p, IF Removes(p) THEN "unlinking" ELSE "closed")
  /\ UNCHANGED <<name, objects>>

\* shm_unlink takes a name: it removes whatever object has it by then.
Unlink(p) ==
  /\ proc[p].pc = "unlinking"
  /\ name' = 0
  /\ Go(p, "closed")
  /\ UNCHANGED objects

\* A process whose queue is closed may open it again (publication_open,
\* subscription_open).
Reopen(p) ==
  /\ proc[p].pc = "closed"
  /\ proc' = [proc EXCEPT ![p] =
       [pc |-> "new", obj |-> 0, size |-> SizeOf[p], seen |-> 0]]
  /\ UNCHANGED <<name, objects>>

\* archive_force_close, from any process, whether it has the queue open or not.
ForceClose ==
  /\ name # 0
  /\ name' = 0
  /\ UNCHANGED <<objects, proc>>

-----------------------------------------------------------------------------
(* Specifications *)

Start(p) ==
  Open(p) \/ Create(p) \/ SizeFile(p) \/ InitFile(p) \/ Validate(p) \/ Join(p)

Finish(p) ==
  \/ LeaveReader(p) \/ LeaveWriter(p) \/ DropWriter(p)
  \/ Unmap(p) \/ Unlink(p) \/ Reopen(p)

OpenCloseNext == \E p \in Processes : Start(p) \/ Finish(p)

Next == OpenCloseNext \/ ForceClose

Spec == Init /\ [][Next]_vars
OpenCloseSpec == Init /\ [][OpenCloseNext]_vars

\* One process at a time is inside the constructor or close.
Settled(p) == proc[p].pc \in {"new", "attached", "closed", "failed", "crashed"}
SerialNext ==
  \E p \in Processes :
    /\ \A q \in Processes \ {p} : Settled(q)
    /\ Start(p) \/ Finish(p)
SerialSpec == Init /\ [][SerialNext]_vars

\* A server opens the queue before the others do and closes it when they have.
Absent(p) == proc[p].pc \in {"new", "closed"}
HostedNext ==
  \E p \in Processes :
    /\ IF p = Server THEN \A q \in Processes \ {p} : Absent(q)
                     ELSE proc[Server].pc = "attached"
    /\ Start(p) \/ Finish(p)
HostedSpec == Init /\ [][HostedNext]_vars

-----------------------------------------------------------------------------
(* Properties *)

\* The processes counted in an object.
AttachedTo(o) ==
  {p \in Processes : proc[p].obj = o /\ proc[p].pc \in {"attached", "leaving"}}

\* num_readers and num_writers are right in every object: the creator's
\* initialisation never wipes out a process that has joined, and no process
\* leaves an object it did not join.
CountsExact ==
  \A o \in DOMAIN objects :
    /\ objects[o].readers = Cardinality(AttachedTo(o) \cap Readers)
    /\ objects[o].writers = Cardinality(AttachedTo(o) \cap Writers)

\* Processes that share an object agree on its size, whatever they were
\* configured with: validate_settings adopts the creator's.  An offset means
\* the same position to all of them.
SizesAgree ==
  \A o \in DOMAIN objects : \A p \in AttachedTo(o) :
    proc[p].size = objects[o].size

\* All the processes that have the queue open have the same queue open.
OneQueue ==
  \A o \in DOMAIN objects : AttachedTo(o) # {} => name = o

\* Someone removes the object: the last to leave does not leave the name
\* behind, for the next to find a queue with stale offsets and counts.
LastOutUnlinks ==
  (\A p \in Processes : proc[p].pc \in {"new", "closed"}) => name = 0

\* "Needs at least one writer and one reader otherwise the shared memory file
\* is unlinked": with both, it is not.
KeptWhileUsed ==
  [][name # 0 /\ name' = 0 =>
       \/ AttachedTo(name) \cap Readers = {}
       \/ AttachedTo(name) \cap Writers = {}]_vars

\* "Queue is uninitialized!": a process that opens the file before its creator
\* has initialised it gets this exception.
UninitializedReported == \A p \in Processes : proc[p].pc # "crashed"
=============================================================================
