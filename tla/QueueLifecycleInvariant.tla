----------------------- MODULE QueueLifecycleInvariant -----------------------
(***************************************************************************)
(* Why the lifecycle is right: the inductive invariants behind the         *)
(* properties of QueueLifecycle.                                           *)
(***************************************************************************)
EXTENDS QueueLifecycle

-----------------------------------------------------------------------------
(* Under every specification. *)

\* An object has at most one process in init_new_file, the one that created
\* it, and until that one is done nobody has got past validate_settings.  It
\* gives the object the size it is configured with.
Creating(p) == proc[p].pc \in {"sizing", "initializing"}

CreatorInv ==
  /\ \A p \in Processes : proc[p].pc \in {"new", "creating"} \/ Creating(p) =>
       proc[p].size = SizeOf[p]
  /\ \A p \in Processes : Creating(p) =>
       proc[p].obj # 0 /\ ~Obj(p).magic
  /\ \A p, q \in Processes :
       p # q /\ Creating(p) /\ Creating(q) => proc[p].obj # proc[q].obj

\* A process that has got past the constructor's checks is on an initialised
\* object and has its size; only writers load the count before they leave.
MemberInv ==
  /\ \A p \in Processes : proc[p].pc = "validating" => proc[p].obj # 0
  /\ \A p \in Processes : proc[p].pc \in {"joining", "attached", "leaving"} =>
       /\ proc[p].obj # 0
       /\ Obj(p).magic
       /\ proc[p].size = Obj(p).size
  /\ \A p \in Processes : proc[p].pc = "leaving" => p \in Writers

\* Whatever processes do in whatever order, force-close included.
LifecycleInv == TypeOK /\ CreatorInv /\ MemberInv /\ CountsExact

-----------------------------------------------------------------------------
(* Under HostedSpec. *)

Client(p) == p \in Processes \ {Server}

\* The server makes the queue before anybody comes, and the name stands for it
\* until the server itself removes it.
ServerInv ==
  /\ proc[Server].pc \in States \ {"validating", "failed", "crashed"}
  /\ proc[Server].pc \in {"new", "creating", "closed"} => name = 0
  /\ proc[Server].pc \notin {"new", "creating", "closed"} =>
       name # 0 /\ name = proc[Server].obj
  /\ proc[Server].pc # "attached" =>
       \A p \in Processes : Client(p) => Absent(p)

\* When it leaves it finds that nobody else is there, ...
AloneInv ==
  proc[Server].pc \in {"leaving", "left"} => proc[Server].seen = 0

\* ... and the others are with the server, and never find it gone.
ClientInv ==
  \A p \in Processes : Client(p) =>
    /\ proc[p].pc \in {"new", "validating", "joining", "attached", "leaving",
                       "left", "closed"}
    /\ proc[p].pc \notin {"new", "closed"} => proc[p].obj = name

\* An initialised object has its length.
SizedInv == \A o \in DOMAIN objects : objects[o].magic => objects[o].sized

\* The same under a server that outlives its clients: the name stands for its
\* queue, every client is with that queue, and the server leaves it last.
HostedInv == LifecycleInv /\ SizedInv /\ ServerInv /\ AloneInv /\ ClientInv
=============================================================================
