------------------------ MODULE QueueLifecycleProofs ------------------------
(***************************************************************************)
(* Theorems about QueueLifecycle for any number of processes, any sizes    *)
(* and any number of objects.                                              *)
(***************************************************************************)
EXTENDS QueueLifecycleInvariant, FiniteSetTheorems, SequenceTheorems, TLAPS

Records == [pc : States, obj : 0 .. Len(objects), size : Nat, seen : Nat]

-----------------------------------------------------------------------------
(* Facts about one state, or one assignment *)

LEMMA Typing ==
  ASSUME TypeOK
  PROVE  /\ Len(objects) \in Nat
         /\ DOMAIN objects = 1 .. Len(objects)
         /\ \A o \in DOMAIN objects : objects[o] \in Objects
         /\ \A p \in Processes : proc[p] \in Records
         /\ name \in 0 .. Len(objects)
<1>1. objects \in Seq(Objects)
  BY DEF TypeOK
<1>2. /\ Len(objects) \in Nat
      /\ DOMAIN objects = 1 .. Len(objects)
      /\ objects \in [1 .. Len(objects) -> Objects]
  BY <1>1, LenProperties
<1> QED BY <1>2 DEF TypeOK, Records

\* The counts of an object are sizes of finite sets.
LEMMA MembersFinite ==
  ASSUME NEW o
  PROVE  /\ IsFiniteSet(AttachedTo(o) \cap Readers)
         /\ IsFiniteSet(AttachedTo(o) \cap Writers)
<1>1. /\ AttachedTo(o) \cap Readers \in SUBSET Processes
      /\ AttachedTo(o) \cap Writers \in SUBSET Processes
  BY DEF AttachedTo
<1> QED BY <1>1, FS_Subset, LifecycleAssumption

LEMMA ObjectUpdate ==
  ASSUME TypeOK, NEW o \in DOMAIN objects, NEW e \in Objects,
         objects' = [objects EXCEPT ![o] = e]
  PROVE  /\ objects' \in Seq(Objects)
         /\ Len(objects') = Len(objects)
         /\ DOMAIN objects' = DOMAIN objects
         /\ objects'[o] = e
         /\ \A k \in DOMAIN objects : k # o => objects'[k] = objects[k]
<1>1. objects \in Seq(Objects) /\ o \in 1 .. Len(objects)
  BY Typing DEF TypeOK
<1>2. objects' \in Seq(Objects) /\ Len(objects') = Len(objects)
  BY <1>1, ExceptSeq
<1> QED BY <1>1, <1>2, Typing

LEMMA ProcUpdate ==
  ASSUME TypeOK, NEW p \in Processes,
         objects' \in Seq(Objects), Len(objects) <= Len(objects'),
         NEW e \in Records', proc' = [proc EXCEPT ![p] = e]
  PROVE  /\ proc' \in [Processes -> Records']
         /\ proc'[p] = e
         /\ \A q \in Processes : q # p => proc'[q] = proc[q]
<1>1. Len(objects') \in Nat
  BY LenProperties
<1>2. \A q \in Processes : proc[q] \in Records'
  BY <1>1, Typing DEF Records
<1> QED BY <1>2 DEF TypeOK

\* A step of p that neither joins nor leaves.
LEMMA SameMembers ==
  ASSUME NEW p \in Processes,
         \A q \in Processes : q # p => proc'[q] = proc[q],
         proc[p].pc \in {"attached", "leaving"}
           <=> proc'[p].pc \in {"attached", "leaving"},
         proc[p].pc \in {"attached", "leaving"} => proc'[p].obj = proc[p].obj,
         NEW o
  PROVE  AttachedTo(o)' = AttachedTo(o)
BY DEF AttachedTo

LEMMA NewMember ==
  ASSUME NEW p \in Processes,
         \A q \in Processes : q # p => proc'[q] = proc[q],
         proc[p].pc \notin {"attached", "leaving"},
         proc'[p].pc = "attached", proc'[p].obj = proc[p].obj,
         NEW o
  PROVE  /\ AttachedTo(o)' = IF o = proc[p].obj THEN AttachedTo(o) \cup {p}
                                                ELSE AttachedTo(o)
         /\ p \notin AttachedTo(o)
BY DEF AttachedTo

LEMMA LostMember ==
  ASSUME NEW p \in Processes,
         \A q \in Processes : q # p => proc'[q] = proc[q],
         proc[p].pc \in {"attached", "leaving"},
         proc'[p].pc = "left", proc'[p].obj = proc[p].obj,
         NEW o
  PROVE  /\ AttachedTo(o)' = IF o = proc[p].obj THEN AttachedTo(o) \ {p}
                                                ELSE AttachedTo(o)
         /\ p \in AttachedTo(proc[p].obj)
BY DEF AttachedTo

-----------------------------------------------------------------------------
(* LifecycleInv is inductive *)

\* A step that leaves the objects alone and puts p into no state in which it
\* creates one, or is counted in one it was not counted in before.
LEMMA QuietStep ==
  ASSUME LifecycleInv, NEW p \in Processes, NEW e \in Records,
         proc' = [proc EXCEPT ![p] = e],
         UNCHANGED objects, name' \in 0 .. Len(objects),
         e.pc \notin {"sizing", "initializing"},
         e.pc \in {"new", "creating"} => e.size = SizeOf[p],
         proc[p].pc \in {"attached", "leaving"}
           <=> e.pc \in {"attached", "leaving"},
         proc[p].pc \in {"attached", "leaving"} => e.obj = proc[p].obj,
         e.pc = "validating" => e.obj # 0,
         e.pc \in {"joining", "attached", "leaving"} =>
           e.obj # 0 /\ objects[e.obj].magic /\ e.size = objects[e.obj].size,
         e.pc = "leaving" => p \in Writers
  PROVE  LifecycleInv'
<1>1. TypeOK /\ Len(objects) \in Nat /\ objects \in Seq(Objects)
  BY Typing DEF LifecycleInv, TypeOK
<1>2. /\ e \in Records'
      /\ objects' \in Seq(Objects) /\ Len(objects) <= Len(objects')
  BY <1>1 DEF Records
<1>3. /\ proc' \in [Processes -> Records']
      /\ proc'[p] = e
      /\ \A q \in Processes : q # p => proc'[q] = proc[q]
  BY <1>1, <1>2, ProcUpdate
<1>4. TypeOK'
  BY <1>1, <1>3 DEF TypeOK, Records
<1>5. CreatorInv'
  BY <1>3 DEF LifecycleInv, CreatorInv, Creating, Obj
<1>6. MemberInv'
  BY <1>3 DEF LifecycleInv, MemberInv, Obj
<1>7. \A o : AttachedTo(o)' = AttachedTo(o)
  BY <1>3, SameMembers
<1>8. CountsExact'
  BY <1>7 DEF LifecycleInv, CountsExact
<1> QED BY <1>4, <1>5, <1>6, <1>8 DEF LifecycleInv

LEMMA OpenStep ==
  ASSUME LifecycleInv, NEW p \in Processes, Open(p)
  PROVE  LifecycleInv'
<1>1. TypeOK /\ proc[p] \in Records /\ name \in 0 .. Len(objects)
  BY Typing DEF LifecycleInv
<1>2. CASE name = 0
  <2> DEFINE e == [proc[p] EXCEPT !.pc = "creating"]
  <2>1. e \in Records /\ proc' = [proc EXCEPT ![p] = e]
    BY <1>1, <1>2 DEF Open, Go, Records, States
  <2>2. e.pc = "creating" /\ e.size = SizeOf[p]
    BY <1>1 DEF LifecycleInv, CreatorInv, Open, Records
  <2> HIDE DEF e
  <2> QED BY <1>1, <2>1, <2>2, QuietStep DEF Open
<1>3. CASE name # 0
  <2> DEFINE e == [proc[p] EXCEPT !.pc = "validating", !.obj = name]
  <2>1. e \in Records /\ proc' = [proc EXCEPT ![p] = e]
    BY <1>1, <1>3 DEF Open, Go, Records, States
  <2> QED BY <1>1, <1>3, <2>1, QuietStep DEF Open, Records
<1> QED BY <1>2, <1>3

LEMMA ValidateStep ==
  ASSUME LifecycleInv, NEW p \in Processes, Validate(p)
  PROVE  LifecycleInv'
<1> DEFINE e == [proc[p] EXCEPT !.pc = AfterValidate(p),
                                !.size = AdoptedSize(p)]
<1>1. /\ TypeOK /\ proc[p] \in Records /\ name \in 0 .. Len(objects)
      /\ Len(objects) \in Nat
  BY Typing DEF LifecycleInv
<1>2. proc[p].obj # 0 /\ proc[p].obj \in DOMAIN objects
  BY <1>1, Typing DEF LifecycleInv, MemberInv, Validate, Records
<1>3. Obj(p) \in Objects
  BY <1>1, <1>2, Typing DEF Obj
<1>4. AfterValidate(p) \in {"crashed", "failed", "joining"}
  BY DEF AfterValidate
<1>5. e \in Records /\ proc' = [proc EXCEPT ![p] = e]
  BY <1>1, <1>3, <1>4 DEF Validate, Records, States, AdoptedSize, Objects
<1>6. e.pc = "joining" => Obj(p).magic
  BY <1>1 DEF AfterValidate, Records
<1>7. e.size = Obj(p).size /\ e.obj = proc[p].obj
  BY <1>1 DEF AdoptedSize, Records
<1>8. e.pc \in {"crashed", "failed", "joining"}
  BY <1>1, <1>4 DEF Records
<1> HIDE DEF e
<1> QED BY <1>1, <1>2, <1>5, <1>6, <1>7, <1>8, QuietStep DEF Validate, Obj

LEMMA LeaveWriterStep ==
  ASSUME LifecycleInv, NEW p \in Processes, LeaveWriter(p)
  PROVE  LifecycleInv'
<1> DEFINE e == [proc[p] EXCEPT !.pc = "leaving", !.seen = Obj(p).readers]
<1>1. /\ TypeOK /\ proc[p] \in Records /\ name \in 0 .. Len(objects)
      /\ Len(objects) \in Nat
  BY Typing DEF LifecycleInv
<1>2. /\ proc[p].obj # 0 /\ proc[p].obj \in DOMAIN objects
      /\ Obj(p).magic /\ proc[p].size = Obj(p).size
  BY <1>1, Typing DEF LifecycleInv, MemberInv, LeaveWriter, Records
<1>3. Obj(p) \in Objects
  BY <1>1, <1>2, Typing DEF Obj
<1>4. e \in Records /\ proc' = [proc EXCEPT ![p] = e]
  BY <1>1, <1>3 DEF LeaveWriter, Records, States, Objects
<1>5. e.pc = "leaving" /\ e.size = proc[p].size /\ e.obj = proc[p].obj
  BY <1>1 DEF Records
<1> HIDE DEF e
<1> QED BY <1>1, <1>2, <1>4, <1>5, QuietStep DEF LeaveWriter, Obj

LEMMA UnmapStep ==
  ASSUME LifecycleInv, NEW p \in Processes, Unmap(p)
  PROVE  LifecycleInv'
<1> DEFINE e == [proc[p] EXCEPT !.pc =
                   IF Removes(p) THEN "unlinking" ELSE "closed"]
<1>1. TypeOK /\ proc[p] \in Records /\ name \in 0 .. Len(objects)
  BY Typing DEF LifecycleInv
<1>2. e \in Records /\ proc' = [proc EXCEPT ![p] = e]
  BY <1>1 DEF Unmap, Go, Records, States
<1>3. e.pc \in {"unlinking", "closed"}
  BY <1>1 DEF Records
<1> HIDE DEF e
<1> QED BY <1>1, <1>2, <1>3, QuietStep DEF Unmap

LEMMA UnlinkStep ==
  ASSUME LifecycleInv, NEW p \in Processes, Unlink(p)
  PROVE  LifecycleInv'
<1> DEFINE e == [proc[p] EXCEPT !.pc = "closed"]
<1>1. TypeOK /\ proc[p] \in Records /\ Len(objects) \in Nat
  BY Typing DEF LifecycleInv
<1>2. e \in Records /\ proc' = [proc EXCEPT ![p] = e] /\ e.pc = "closed"
  BY <1>1 DEF Unlink, Go, Records, States
<1>3. name' \in 0 .. Len(objects) /\ UNCHANGED objects
  BY <1>1 DEF Unlink
<1> HIDE DEF e
<1> QED BY <1>1, <1>2, <1>3, QuietStep DEF Unlink

LEMMA ReopenStep ==
  ASSUME LifecycleInv, NEW p \in Processes, Reopen(p)
  PROVE  LifecycleInv'
<1> DEFINE e == [pc |-> "new", obj |-> 0, size |-> SizeOf[p], seen |-> 0]
<1>1. /\ TypeOK /\ Len(objects) \in Nat /\ name \in 0 .. Len(objects)
      /\ SizeOf[p] \in Nat
  BY Typing, LifecycleAssumption DEF LifecycleInv
<1>2. /\ e \in Records /\ proc' = [proc EXCEPT ![p] = e]
      /\ e.pc = "new" /\ e.size = SizeOf[p]
  BY <1>1 DEF Reopen, Records, States
<1> HIDE DEF e
<1> QED BY <1>1, <1>2, QuietStep DEF Reopen

\* O_EXCL: the object is new, and p is the only one in it.
LEMMA CreateStep ==
  ASSUME LifecycleInv, NEW p \in Processes, Create(p)
  PROVE  LifecycleInv'
<1>1. /\ TypeOK /\ proc[p] \in Records /\ name \in 0 .. Len(objects)
      /\ Len(objects) \in Nat /\ objects \in Seq(Objects)
  BY Typing DEF LifecycleInv, TypeOK
<1>2. CASE name # 0
  <2> DEFINE e == [proc[p] EXCEPT !.pc = "failed"]
  <2>1. e \in Records /\ proc' = [proc EXCEPT ![p] = e] /\ e.pc = "failed"
    BY <1>1, <1>2 DEF Create, CreateExclusive, Go, Records, States
  <2>2. UNCHANGED <<name, objects>>
    BY <1>2 DEF Create, CreateExclusive
  <2> HIDE DEF e
  <2> QED BY <1>1, <2>1, <2>2, QuietStep DEF Create
<1>3. CASE name = 0
  <2> DEFINE n == Len(objects) + 1
             e == [proc[p] EXCEPT !.pc = "sizing", !.obj = n]
  <2>1. /\ objects' = Append(objects, NewObject)
        /\ name' = n
        /\ proc' = [proc EXCEPT ![p] = e]
    BY <1>3 DEF Create, CreateExclusive, AddObject
  <2>2. NewObject \in Objects
    BY DEF NewObject, Objects
  <2>3. /\ objects' \in Seq(Objects)
        /\ Len(objects') = n
        /\ DOMAIN objects' = 1 .. n
        /\ \A k \in DOMAIN objects : objects'[k] = objects[k]
        /\ objects'[n] = NewObject
    BY <1>1, <2>1, <2>2, AppendProperties, LenProperties
  <2>a. Records' = [pc : States, obj : 0 .. n, size : Nat, seen : Nat]
    BY <2>3 DEF Records
  <2>b. n \in Nat /\ n \in 0 .. n /\ Len(objects) <= n
    BY <1>1
  <2> HIDE DEF n
  <2>4. /\ e \in Records' /\ e.pc = "sizing" /\ e.obj = n
        /\ e.size = proc[p].size
    BY <1>1, <2>a, <2>b DEF Records, States
  <2> HIDE DEF e
  <2>5. /\ proc' \in [Processes -> Records']
        /\ proc'[p] = e
        /\ \A q \in Processes : q # p => proc'[q] = proc[q]
    BY <1>1, <2>1, <2>3, <2>4, <2>b, ProcUpdate
  <2>6. TypeOK'
    BY <2>1, <2>3, <2>5, <2>b DEF TypeOK, Records
  <2>7. \A q \in Processes : proc[q].obj # n /\ proc[q].obj \in 0 .. Len(objects)
    BY <1>1, Typing DEF Records, n
  <2>c. \A q \in Processes : q # p /\ proc[q].obj # 0 => Obj(q)' = Obj(q)
    BY <1>1, <2>3, <2>5, <2>7, Typing DEF Obj
  <2>d. ~Obj(p)'.magic /\ proc'[p].obj # 0 /\ proc[p].size = SizeOf[p]
    BY <1>1, <2>3, <2>4, <2>5, <2>7
       DEF Obj, NewObject, n, LifecycleInv, CreatorInv, Create
  <2>8. CreatorInv'
    BY <2>4, <2>5, <2>7, <2>c, <2>d DEF LifecycleInv, CreatorInv, Creating
  <2>9. MemberInv'
    BY <2>4, <2>5, <2>c DEF LifecycleInv, MemberInv
  <2>10. \A o : AttachedTo(o)' = AttachedTo(o)
    BY <2>4, <2>5, SameMembers DEF Create
  <2>11. AttachedTo(n) = {}
    BY <2>7 DEF AttachedTo
  <2>12. CountsExact'
    <3>1. /\ Cardinality(AttachedTo(n) \cap Readers) = 0
          /\ Cardinality(AttachedTo(n) \cap Writers) = 0
      BY <2>11, FS_EmptySet
    <3>2. DOMAIN objects' = DOMAIN objects \cup {n}
      BY <1>1, <2>3, Typing DEF n
    <3>3. \A k \in DOMAIN objects' :
            /\ objects'[k].readers = Cardinality(AttachedTo(k) \cap Readers)
            /\ objects'[k].writers = Cardinality(AttachedTo(k) \cap Writers)
      <4>1. objects'[n].readers = 0 /\ objects'[n].writers = 0
        BY <2>3 DEF NewObject
      <4> QED BY <2>3, <3>1, <3>2, <4>1 DEF LifecycleInv, CountsExact
    <3> QED BY <2>10, <3>3 DEF CountsExact
  <2> QED BY <2>6, <2>8, <2>9, <2>12 DEF LifecycleInv
<1> QED BY <1>2, <1>3

\* A step that changes one object, the one p is on, and p's control state.
LEMMA ObjectStep ==
  ASSUME TypeOK, NEW p \in Processes, NEW e \in Objects, NEW pc \in States,
         proc[p].obj # 0,
         objects' = [objects EXCEPT ![proc[p].obj] = e],
         proc' = [proc EXCEPT ![p].pc = pc], UNCHANGED name
  PROVE  /\ TypeOK'
         /\ proc[p].obj \in DOMAIN objects
         /\ DOMAIN objects' = DOMAIN objects
         /\ objects'[proc[p].obj] = e
         /\ \A k \in DOMAIN objects :
              k # proc[p].obj => objects'[k] = objects[k]
         /\ proc'[p] = [proc[p] EXCEPT !.pc = pc]
         /\ \A q \in Processes : q # p => proc'[q] = proc[q]
<1> DEFINE o == proc[p].obj
           f == [proc[p] EXCEPT !.pc = pc]
<1>1. /\ proc[p] \in Records /\ Len(objects) \in Nat
      /\ DOMAIN objects = 1 .. Len(objects)
  BY Typing
<1>2. o \in DOMAIN objects
  BY <1>1 DEF Records
<1>3. /\ objects' \in Seq(Objects)
      /\ Len(objects') = Len(objects)
      /\ DOMAIN objects' = DOMAIN objects
      /\ objects'[o] = e
      /\ \A k \in DOMAIN objects : k # o => objects'[k] = objects[k]
  BY <1>2, ObjectUpdate
<1>4. f \in Records' /\ proc' = [proc EXCEPT ![p] = f]
  BY <1>1, <1>3 DEF Records
<1> HIDE DEF f
<1>5. Len(objects) <= Len(objects')
  BY <1>1, <1>3
<1>6. /\ proc' \in [Processes -> Records']
      /\ proc'[p] = f
      /\ \A q \in Processes : q # p => proc'[q] = proc[q]
  BY <1>3, <1>4, <1>5, ProcUpdate
<1>7. TypeOK'
  BY <1>3, <1>6, Typing DEF TypeOK, Records
<1> QED BY <1>2, <1>3, <1>6, <1>7 DEF f

LEMMA SizeFileStep ==
  ASSUME LifecycleInv, NEW p \in Processes, SizeFile(p)
  PROVE  LifecycleInv'
<1> DEFINE o == proc[p].obj
           e == [objects[o] EXCEPT !.sized = TRUE]
<1>1. TypeOK /\ o # 0 /\ ~objects[o].magic /\ proc[p] \in Records
  BY Typing DEF LifecycleInv, CreatorInv, Creating, SizeFile, Obj
<1>2. o \in DOMAIN objects /\ objects[o] \in Objects
  BY <1>1, Typing DEF Records
<1>3. e \in Objects /\ objects' = [objects EXCEPT ![o] = e]
  BY <1>1, <1>2 DEF SizeFile, Objects
<1>a. /\ e.magic = objects[o].magic /\ e.size = objects[o].size
      /\ e.readers = objects[o].readers /\ e.writers = objects[o].writers
  BY <1>1, <1>2 DEF SizeFile, Objects
<1> HIDE DEF e
<1>4. "initializing" \in States
  BY DEF States
<1>5. /\ TypeOK'
      /\ DOMAIN objects' = DOMAIN objects
      /\ objects'[o] = e
      /\ \A k \in DOMAIN objects : k # o => objects'[k] = objects[k]
      /\ proc'[p] = [proc[p] EXCEPT !.pc = "initializing"]
      /\ \A q \in Processes : q # p => proc'[q] = proc[q]
  <2>1. proc' = [proc EXCEPT ![p].pc = "initializing"] /\ UNCHANGED name
    BY DEF SizeFile, Go
  <2> QED BY <1>1, <1>3, <1>4, <2>1, ObjectStep
<1>6. proc'[p].pc = "initializing" /\ proc'[p].obj = o
  BY <1>1, <1>5 DEF Records
<1>7. \A q \in Processes : proc[q].obj # 0 => proc[q].obj \in DOMAIN objects
  BY <1>1, Typing DEF Records
<1>b. /\ \A q \in Processes : proc[q].obj # 0 =>
           Obj(q)'.magic = Obj(q).magic /\ Obj(q)'.size = Obj(q).size
      /\ proc'[p].size = proc[p].size
  BY <1>1, <1>5, <1>6, <1>7, <1>a DEF Obj, Records
<1>c. \A q \in Processes :
        /\ proc'[q].obj = proc[q].obj
        /\ proc'[q].size = proc[q].size
        /\ Creating(q)' <=> Creating(q)
        /\ proc'[q].pc = proc[q].pc \/ (q = p /\ proc'[q].pc = "initializing")
  BY <1>5, <1>6, <1>b DEF Creating, SizeFile
<1>8. CreatorInv'
  BY <1>b, <1>c DEF LifecycleInv, CreatorInv, Creating
<1>9. MemberInv'
  BY <1>b, <1>c DEF LifecycleInv, MemberInv
<1>10. \A k : AttachedTo(k)' = AttachedTo(k)
  BY <1>5, <1>6, SameMembers DEF SizeFile
<1>11. CountsExact'
  BY <1>2, <1>a, <1>5, <1>10 DEF LifecycleInv, CountsExact
<1> QED BY <1>5, <1>8, <1>9, <1>11 DEF LifecycleInv

\* The counts are set to zero while nobody can be counted.
LEMMA InitFileStep ==
  ASSUME LifecycleInv, NEW p \in Processes, InitFile(p)
  PROVE  LifecycleInv'
<1> DEFINE o == proc[p].obj
           e == InitializedFile(p)
<1>1. TypeOK /\ o # 0 /\ ~objects[o].magic /\ proc[p] \in Records
  BY Typing DEF LifecycleInv, CreatorInv, Creating, InitFile, Obj
<1>2. o \in DOMAIN objects /\ objects[o] \in Objects
  BY <1>1, Typing DEF Records
<1>3. /\ e \in Objects /\ objects' = [objects EXCEPT ![o] = e]
      /\ e.magic /\ e.size = SizeOf[p]
      /\ e.readers = 0 /\ e.writers = 0
  BY <1>1, <1>2, LifecycleAssumption DEF InitFile, InitializedFile, Objects
<1> HIDE DEF e
<1>4. "joining" \in States
  BY DEF States
<1>5. /\ TypeOK'
      /\ DOMAIN objects' = DOMAIN objects
      /\ objects'[o] = e
      /\ \A k \in DOMAIN objects : k # o => objects'[k] = objects[k]
      /\ proc'[p] = [proc[p] EXCEPT !.pc = "joining"]
      /\ \A q \in Processes : q # p => proc'[q] = proc[q]
  <2>1. proc' = [proc EXCEPT ![p].pc = "joining"] /\ UNCHANGED name
    BY DEF InitFile, Go
  <2> QED BY <1>1, <1>3, <1>4, <2>1, ObjectStep
<1>6. proc'[p].pc = "joining" /\ proc'[p].obj = o /\ proc'[p].size = proc[p].size
  BY <1>1, <1>5 DEF Records
<1>7. \A q \in Processes : proc[q].obj # 0 => proc[q].obj \in DOMAIN objects
  BY <1>1, Typing DEF Records
<1>a. /\ \A q \in Processes :
           q # p /\ proc[q].obj # 0 /\ Obj(q).magic => Obj(q)' = Obj(q)
      /\ \A q \in Processes :
           q # p /\ proc[q].obj # 0 /\ proc[q].obj # o => Obj(q)' = Obj(q)
      /\ Obj(p)'.magic /\ Obj(p)'.size = SizeOf[p]
  BY <1>1, <1>3, <1>5, <1>6, <1>7 DEF Obj
<1>b. /\ Creating(p) /\ proc[p].size = SizeOf[p]
      /\ \A q \in Processes : q # p /\ Creating(q) => proc[q].obj # o
  BY DEF LifecycleInv, CreatorInv, Creating, InitFile
<1>8. CreatorInv'
  <2>1. ASSUME NEW q \in Processes, Creating(q)'
        PROVE  Creating(q) /\ proc'[q] = proc[q] /\ Obj(q)' = Obj(q)
    BY <1>5, <1>6, <1>a, <1>b, <2>1 DEF Creating, LifecycleInv, CreatorInv
  <2>2. ASSUME NEW q \in Processes, proc'[q].pc \in {"new", "creating"}
        PROVE  proc'[q] = proc[q]
    BY <1>5, <1>6, <2>2
  <2> HIDE DEF Creating
  <2> QED BY <2>1, <2>2 DEF LifecycleInv, CreatorInv
<1>9. MemberInv'
  <2>1. /\ proc'[p].pc = "joining" /\ proc'[p].obj # 0 /\ Obj(p)'.magic
        /\ proc'[p].size = Obj(p)'.size
    BY <1>1, <1>6, <1>a, <1>b
  <2>2. ASSUME NEW q \in Processes, q # p,
               proc[q].pc \in {"joining", "attached", "leaving"}
        PROVE  proc[q].obj # 0 /\ Obj(q)'.magic /\ proc[q].size = Obj(q)'.size
    BY <1>a, <2>2 DEF LifecycleInv, MemberInv
  <2> QED BY <1>5, <2>1, <2>2 DEF LifecycleInv, MemberInv
<1>10. \A k : AttachedTo(k)' = AttachedTo(k)
  BY <1>5, <1>6, SameMembers DEF InitFile
<1>11. AttachedTo(o) = {}
  BY <1>1 DEF LifecycleInv, MemberInv, AttachedTo, Obj
<1>12. CountsExact'
  <2>1. /\ Cardinality(AttachedTo(o) \cap Readers) = 0
        /\ Cardinality(AttachedTo(o) \cap Writers) = 0
    BY <1>11, FS_EmptySet
  <2> QED BY <1>2, <1>3, <1>5, <1>10, <2>1 DEF LifecycleInv, CountsExact
<1> QED BY <1>5, <1>8, <1>9, <1>12 DEF LifecycleInv

\* A process joins or leaves: one count of its object changes by one, and the
\* set it counts by that process.
LEMMA CountStep ==
  ASSUME LifecycleInv, NEW p \in Processes, NEW e \in Objects,
         NEW pc \in {"attached", "left"},
         proc[p].pc \in {"joining", "attached", "leaving"},
         objects' = [objects EXCEPT ![proc[p].obj] = e],
         proc' = [proc EXCEPT ![p].pc = pc], UNCHANGED name,
         e.magic = Obj(p).magic, e.size = Obj(p).size,
         e.readers = Cardinality(AttachedTo(proc[p].obj)' \cap Readers),
         e.writers = Cardinality(AttachedTo(proc[p].obj)' \cap Writers)
  PROVE  LifecycleInv'
<1> DEFINE o == proc[p].obj
<1>1. /\ TypeOK /\ o # 0 /\ proc[p] \in Records /\ pc \in States
      /\ Obj(p).magic /\ proc[p].size = Obj(p).size
  BY Typing DEF LifecycleInv, MemberInv, States
<1>2. /\ TypeOK'
      /\ o \in DOMAIN objects
      /\ DOMAIN objects' = DOMAIN objects
      /\ objects'[o] = e
      /\ \A k \in DOMAIN objects : k # o => objects'[k] = objects[k]
      /\ proc'[p] = [proc[p] EXCEPT !.pc = pc]
      /\ \A q \in Processes : q # p => proc'[q] = proc[q]
  BY <1>1, ObjectStep
<1>3. /\ proc'[p].pc = pc /\ proc'[p].obj = o
      /\ proc'[p].size = proc[p].size
  BY <1>1, <1>2 DEF Records
<1>4. \A q \in Processes : proc[q].obj # 0 => proc[q].obj \in DOMAIN objects
  BY <1>1, Typing DEF Records
<1>5. \A q \in Processes : proc[q].obj # 0 =>
        Obj(q)'.magic = Obj(q).magic /\ Obj(q)'.size = Obj(q).size
  BY <1>2, <1>3, <1>4 DEF Obj
<1>6. CreatorInv'
  <2>1. ASSUME NEW q \in Processes,
               Creating(q)' \/ proc'[q].pc \in {"new", "creating"}
        PROVE  proc'[q] = proc[q]
    BY <1>2, <1>3, <2>1 DEF Creating
  <2>2. \A q \in Processes : Creating(q)' => Creating(q)
    BY <2>1 DEF Creating
  <2> QED BY <1>5, <2>1, <2>2 DEF LifecycleInv, CreatorInv
<1>7. MemberInv'
  <2>1. \A q \in Processes : q # p => proc'[q] = proc[q]
    BY <1>2
  <2>2. Obj(p)'.magic /\ proc'[p].obj # 0 /\ proc'[p].size = Obj(p)'.size
    BY <1>1, <1>3, <1>5
  <2> QED BY <1>3, <1>5, <2>1, <2>2 DEF LifecycleInv, MemberInv
<1>8. \A k \in DOMAIN objects : k # o => AttachedTo(k)' = AttachedTo(k)
  BY <1>2, <1>3 DEF AttachedTo
<1>9. CountsExact'
  <2> DEFINE exact(k) ==
        /\ objects'[k].readers = Cardinality(AttachedTo(k)' \cap Readers)
        /\ objects'[k].writers = Cardinality(AttachedTo(k)' \cap Writers)
  <2> PICK i \in DOMAIN objects : i = o
    BY <1>2
  <2>1. \A k \in DOMAIN objects : k # i => exact(k)
    <3> TAKE k \in DOMAIN objects
    <3> HAVE k # i
    <3>1. AttachedTo(k)' = AttachedTo(k) /\ objects'[k] = objects[k]
      BY <1>2, <1>8
    <3> QED BY <3>1 DEF LifecycleInv, CountsExact
  <2>2. exact(i)
    BY <1>2, <1>3
  <2>3. \A k \in DOMAIN objects' : exact(k)
    BY <1>2, <2>1, <2>2
  <2> QED BY <2>3 DEF CountsExact
<1> QED BY <1>2, <1>6, <1>7, <1>9 DEF LifecycleInv

LEMMA JoinStep ==
  ASSUME LifecycleInv, NEW p \in Processes, Join(p)
  PROVE  LifecycleInv'
<1> DEFINE o == proc[p].obj
           A == AttachedTo(o)
<1>1. TypeOK /\ o # 0 /\ proc[p] \in Records /\ proc \in [Processes -> Records]
  BY Typing DEF LifecycleInv, MemberInv, Join, TypeOK, Records
<1>2. o \in DOMAIN objects /\ objects[o] \in Objects
  BY <1>1, Typing DEF Records
<1>3. /\ proc' = [proc EXCEPT ![p].pc = "attached"] /\ UNCHANGED name
      /\ proc[p].pc = "joining"
  BY DEF Join, Go
<1>4. /\ \A q \in Processes : q # p => proc'[q] = proc[q]
      /\ proc'[p] = [proc[p] EXCEPT !.pc = "attached"]
      /\ proc'[p].pc = "attached" /\ proc'[p].obj = o
  BY <1>1, <1>3 DEF Records
<1>5. AttachedTo(o)' = A \cup {p} /\ p \notin A
  BY <1>3, <1>4, NewMember
<1>6. /\ objects[o].readers = Cardinality(A \cap Readers)
      /\ objects[o].writers = Cardinality(A \cap Writers)
      /\ IsFiniteSet(A \cap Readers) /\ IsFiniteSet(A \cap Writers)
  BY <1>2, MembersFinite DEF LifecycleInv, CountsExact
<1> HIDE DEF A
<1>7. CASE p \in Readers
  <2> DEFINE e == [objects[o] EXCEPT !.readers = @ + 1]
  <2>1. /\ (A \cup {p}) \cap Readers = (A \cap Readers) \cup {p}
        /\ (A \cup {p}) \cap Writers = A \cap Writers
    BY <1>7, LifecycleAssumption
  <2>2. Cardinality((A \cap Readers) \cup {p}) = Cardinality(A \cap Readers) + 1
    BY <1>5, <1>6, FS_AddElement
  <2>3. e \in Objects /\ objects' = [objects EXCEPT ![o] = e]
    BY <1>2, <1>7 DEF Join, Objects
  <2>4. /\ e.magic = Obj(p).magic /\ e.size = Obj(p).size
        /\ e.readers = objects[o].readers + 1 /\ e.writers = objects[o].writers
    BY <1>2 DEF Objects, Obj
  <2> HIDE DEF e
  <2>5. /\ e.readers = Cardinality(AttachedTo(o)' \cap Readers)
        /\ e.writers = Cardinality(AttachedTo(o)' \cap Writers)
    BY <1>5, <1>6, <2>1, <2>2, <2>4
  <2> QED BY <1>3, <2>3, <2>4, <2>5, CountStep
<1>8. CASE p \in Writers
  <2> DEFINE e == [objects[o] EXCEPT !.writers = @ + 1]
  <2>1. /\ (A \cup {p}) \cap Writers = (A \cap Writers) \cup {p}
        /\ (A \cup {p}) \cap Readers = A \cap Readers
        /\ p \notin Readers
    BY <1>8, LifecycleAssumption
  <2>2. Cardinality((A \cap Writers) \cup {p}) = Cardinality(A \cap Writers) + 1
    BY <1>5, <1>6, FS_AddElement
  <2>3. e \in Objects /\ objects' = [objects EXCEPT ![o] = e]
    BY <1>2, <2>1 DEF Join, Objects
  <2>4. /\ e.magic = Obj(p).magic /\ e.size = Obj(p).size
        /\ e.writers = objects[o].writers + 1 /\ e.readers = objects[o].readers
    BY <1>2 DEF Objects, Obj
  <2> HIDE DEF e
  <2>5. /\ e.readers = Cardinality(AttachedTo(o)' \cap Readers)
        /\ e.writers = Cardinality(AttachedTo(o)' \cap Writers)
    BY <1>5, <1>6, <2>1, <2>2, <2>4
  <2> QED BY <1>3, <2>3, <2>4, <2>5, CountStep
<1> QED BY <1>7, <1>8 DEF Processes

LEMMA LeaveReaderStep ==
  ASSUME LifecycleInv, NEW p \in Processes, LeaveReader(p)
  PROVE  LifecycleInv'
<1> DEFINE o == proc[p].obj
           A == AttachedTo(o)
           e == [objects[o] EXCEPT !.readers = @ - 1]
<1>1. TypeOK /\ o # 0 /\ proc[p] \in Records /\ proc \in [Processes -> Records]
  BY Typing DEF LifecycleInv, MemberInv, LeaveReader, TypeOK, Records
<1>2. o \in DOMAIN objects /\ objects[o] \in Objects
  BY <1>1, Typing DEF Records
<1>3. /\ proc' = [proc EXCEPT ![p].pc = "left"] /\ UNCHANGED name
      /\ proc[p].pc = "attached" /\ p \in Readers /\ p \notin Writers
  BY LifecycleAssumption DEF LeaveReader, Go
<1>4. /\ \A q \in Processes : q # p => proc'[q] = proc[q]
      /\ proc'[p] = [proc[p] EXCEPT !.pc = "left"]
      /\ proc'[p].pc = "left" /\ proc'[p].obj = o
  BY <1>1, <1>3 DEF Records
<1>5. AttachedTo(o)' = A \ {p} /\ p \in A
  BY <1>3, <1>4, LostMember
<1>6. /\ objects[o].readers = Cardinality(A \cap Readers)
      /\ objects[o].writers = Cardinality(A \cap Writers)
      /\ IsFiniteSet(A \cap Readers) /\ IsFiniteSet(A \cap Writers)
  BY <1>2, MembersFinite DEF LifecycleInv, CountsExact
<1> HIDE DEF A
<1>7. /\ (A \ {p}) \cap Readers = (A \cap Readers) \ {p}
      /\ (A \ {p}) \cap Writers = A \cap Writers
      /\ p \in A \cap Readers
  BY <1>3, <1>5
<1>8. /\ Cardinality((A \cap Readers) \ {p}) = Cardinality(A \cap Readers) - 1
      /\ Cardinality((A \cap Readers) \ {p}) \in Nat
  BY <1>6, <1>7, FS_RemoveElement, FS_CardinalityType
<1>9. e \in Objects /\ objects' = [objects EXCEPT ![o] = e]
  BY <1>2, <1>6, <1>8 DEF LeaveReader, Objects
<1>10. /\ e.magic = Obj(p).magic /\ e.size = Obj(p).size
       /\ e.readers = objects[o].readers - 1 /\ e.writers = objects[o].writers
  BY <1>2 DEF Objects, Obj
<1> HIDE DEF e
<1>11. /\ e.readers = Cardinality(AttachedTo(o)' \cap Readers)
       /\ e.writers = Cardinality(AttachedTo(o)' \cap Writers)
  BY <1>5, <1>6, <1>7, <1>8, <1>10
<1> QED BY <1>3, <1>9, <1>10, <1>11, CountStep

LEMMA DropWriterStep ==
  ASSUME LifecycleInv, NEW p \in Processes, DropWriter(p)
  PROVE  LifecycleInv'
<1> DEFINE o == proc[p].obj
           A == AttachedTo(o)
           e == [objects[o] EXCEPT !.writers = @ - 1]
<1>1. TypeOK /\ o # 0 /\ proc[p] \in Records /\ proc \in [Processes -> Records]
  BY Typing DEF LifecycleInv, MemberInv, DropWriter, TypeOK, Records
<1>2. o \in DOMAIN objects /\ objects[o] \in Objects
  BY <1>1, Typing DEF Records
<1>3. /\ proc' = [proc EXCEPT ![p].pc = "left"] /\ UNCHANGED name
      /\ proc[p].pc = "leaving" /\ p \in Writers /\ p \notin Readers
  BY LifecycleAssumption DEF DropWriter, Go, LifecycleInv, MemberInv
<1>4. /\ \A q \in Processes : q # p => proc'[q] = proc[q]
      /\ proc'[p] = [proc[p] EXCEPT !.pc = "left"]
      /\ proc'[p].pc = "left" /\ proc'[p].obj = o
  BY <1>1, <1>3 DEF Records
<1>5. AttachedTo(o)' = A \ {p} /\ p \in A
  BY <1>3, <1>4, LostMember
<1>6. /\ objects[o].readers = Cardinality(A \cap Readers)
      /\ objects[o].writers = Cardinality(A \cap Writers)
      /\ IsFiniteSet(A \cap Readers) /\ IsFiniteSet(A \cap Writers)
  BY <1>2, MembersFinite DEF LifecycleInv, CountsExact
<1> HIDE DEF A
<1>7. /\ (A \ {p}) \cap Writers = (A \cap Writers) \ {p}
      /\ (A \ {p}) \cap Readers = A \cap Readers
      /\ p \in A \cap Writers
  BY <1>3, <1>5
<1>8. /\ Cardinality((A \cap Writers) \ {p}) = Cardinality(A \cap Writers) - 1
      /\ Cardinality((A \cap Writers) \ {p}) \in Nat
  BY <1>6, <1>7, FS_RemoveElement, FS_CardinalityType
<1>9. e \in Objects /\ objects' = [objects EXCEPT ![o] = e]
  BY <1>2, <1>6, <1>8 DEF DropWriter, Objects
<1>10. /\ e.magic = Obj(p).magic /\ e.size = Obj(p).size
       /\ e.writers = objects[o].writers - 1 /\ e.readers = objects[o].readers
  BY <1>2 DEF Objects, Obj
<1> HIDE DEF e
<1>11. /\ e.readers = Cardinality(AttachedTo(o)' \cap Readers)
       /\ e.writers = Cardinality(AttachedTo(o)' \cap Writers)
  BY <1>5, <1>6, <1>7, <1>8, <1>10
<1> QED BY <1>3, <1>9, <1>10, <1>11, CountStep

LEMMA ForceCloseStep ==
  ASSUME LifecycleInv, ForceClose
  PROVE  LifecycleInv'
<1>1. Len(objects) \in Nat
  BY Typing DEF LifecycleInv
<1>2. TypeOK'
  BY <1>1 DEF LifecycleInv, TypeOK, ForceClose
<1>3. CreatorInv' /\ MemberInv' /\ CountsExact'
  BY DEF LifecycleInv, ForceClose, CreatorInv, Creating, Obj, MemberInv,
         CountsExact, AttachedTo
<1> QED BY <1>2, <1>3 DEF LifecycleInv

LEMMA LifecycleInit ==
  ASSUME Init
  PROVE  LifecycleInv
<1>1. objects = << >> /\ Len(objects) = 0 /\ name = 0
      /\ objects \in Seq(Objects) /\ DOMAIN objects = {}
  BY DEF Init
<1>2. \A p \in Processes : SizeOf[p] \in Nat
  BY LifecycleAssumption
<1>3. TypeOK
  BY <1>1, <1>2 DEF Init, TypeOK, States
<1>4. \A p \in Processes : proc[p].pc = "new" /\ proc[p].size = SizeOf[p]
  BY DEF Init
<1> QED BY <1>1, <1>3, <1>4
         DEF LifecycleInv, CreatorInv, Creating, MemberInv, CountsExact

LEMMA ProcessStep ==
  ASSUME LifecycleInv, NEW p \in Processes, Start(p) \/ Finish(p)
  PROVE  LifecycleInv'
BY OpenStep, CreateStep, SizeFileStep, InitFileStep, ValidateStep, JoinStep,
   LeaveReaderStep, LeaveWriterStep, DropWriterStep, UnmapStep, UnlinkStep,
   ReopenStep DEF Start, Finish

\* However the processes interleave in the constructor and in close, and
\* whenever somebody forces the queue closed, LifecycleInv holds.
THEOREM LifecycleInvariant == Spec => []LifecycleInv
<1>1. Init => LifecycleInv
  BY LifecycleInit
<1>2. LifecycleInv /\ [Next]_vars => LifecycleInv'
  <2> SUFFICES ASSUME LifecycleInv, [Next]_vars PROVE LifecycleInv'
    OBVIOUS
  <2>1. CASE Next
    BY <2>1, ProcessStep, ForceCloseStep DEF Next, OpenCloseNext
  <2>2. CASE UNCHANGED vars
    <3>1. TypeOK' /\ CreatorInv' /\ MemberInv'
      BY <2>2 DEF vars, LifecycleInv, TypeOK, CreatorInv, Creating, Obj,
                  MemberInv
    <3>2. CountsExact'
      BY <2>2 DEF vars, LifecycleInv, CountsExact, AttachedTo
    <3> QED BY <3>1, <3>2 DEF LifecycleInv
  <2> QED BY <2>1, <2>2
<1> QED BY <1>1, <1>2, PTL DEF Spec

\* No interleaving of constructors, closes and forced closes takes the name,
\* an object or a process out of its type: in particular no count goes below
\* zero.
THEOREM LifecycleTypes == Spec => []TypeOK
<1>1. LifecycleInv => TypeOK
  BY DEF LifecycleInv
<1> QED BY <1>1, LifecycleInvariant, PTL

\* num_readers and num_writers of every object are the numbers of processes
\* that are attached to it: init_new_file wipes out nobody.
THEOREM LifecycleCounts == Spec => []CountsExact
<1>1. LifecycleInv => CountsExact
  BY DEF LifecycleInv
<1> QED BY <1>1, LifecycleInvariant, PTL

\* Every process uses the size of the object it is attached to.
THEOREM LifecycleSizes == Spec => []SizesAgree
<1>1. LifecycleInv => SizesAgree
  BY DEF LifecycleInv, MemberInv, SizesAgree, AttachedTo, Obj
<1> QED BY <1>1, LifecycleInvariant, PTL

-----------------------------------------------------------------------------
(* HostedInv is inductive *)

LEMMA OthersStay ==
  ASSUME TypeOK, NEW p \in Processes, Start(p) \/ Finish(p)
  PROVE  \A q \in Processes : q # p => proc'[q] = proc[q]
<1>1. proc \in [Processes -> Records]
  BY DEF TypeOK, Records
<1>2. CASE Start(p)
  BY <1>1, <1>2 DEF Start, Open, Create, CreateExclusive, AddObject, SizeFile,
     InitFile, Validate, Join, Go
<1>3. CASE Finish(p)
  BY <1>1, <1>3 DEF Finish, LeaveReader, LeaveWriter, DropWriter, Unmap, Unlink,
     Reopen, Go
<1> QED BY <1>2, <1>3

LEMMA SizedStep ==
  ASSUME LifecycleInv, SizedInv, NEW p \in Processes, Start(p) \/ Finish(p)
  PROVE  SizedInv'
<1> DEFINE o == proc[p].obj
<1>1. /\ TypeOK /\ proc[p] \in Records /\ objects \in Seq(Objects)
      /\ DOMAIN objects = 1 .. Len(objects) /\ Len(objects) \in Nat
      /\ \A k \in DOMAIN objects : objects[k] \in Objects
  BY Typing DEF LifecycleInv, TypeOK
<1>2. CASE UNCHANGED objects
  BY <1>2 DEF SizedInv
<1>3. CASE Create(p) /\ objects' # objects
  <2>1. objects' = Append(objects, NewObject)
    BY <1>3 DEF Create, CreateExclusive, AddObject
  <2>2. NewObject \in Objects /\ ~NewObject.magic
    BY DEF NewObject, Objects
  <2>3. /\ DOMAIN objects' = DOMAIN objects \cup {Len(objects) + 1}
        /\ \A k \in DOMAIN objects : objects'[k] = objects[k]
        /\ objects'[Len(objects) + 1] = NewObject
    BY <1>1, <2>1, <2>2, AppendProperties, LenProperties
  <2> QED BY <2>2, <2>3 DEF SizedInv
<1>4. CASE SizeFile(p)
  <2>1. o \in DOMAIN objects
    BY <1>1, <1>4 DEF LifecycleInv, CreatorInv, Creating, SizeFile, Records
  <2>2. /\ DOMAIN objects' = DOMAIN objects
        /\ \A k \in DOMAIN objects : k # o => objects'[k] = objects[k]
        /\ objects'[o].sized
    BY <1>1, <1>4, <2>1 DEF SizeFile, Objects
  <2> QED BY <2>2 DEF SizedInv
<1>5. CASE InitFile(p)
  <2>1. /\ DOMAIN objects' = DOMAIN objects
        /\ \A k \in DOMAIN objects : k # o => objects'[k] = objects[k]
        /\ o \in DOMAIN objects => objects'[o].sized
    BY <1>1, <1>5 DEF InitFile, InitializedFile
  <2> QED BY <2>1 DEF SizedInv
<1>6. CASE Join(p) \/ LeaveReader(p) \/ DropWriter(p)
  <2>1. o \in DOMAIN objects /\ objects[o] \in Objects
    BY <1>1, <1>6 DEF LifecycleInv, MemberInv, Join, LeaveReader, DropWriter,
                      Records
  <2>2. /\ DOMAIN objects' = DOMAIN objects
        /\ \A k \in DOMAIN objects : k # o => objects'[k] = objects[k]
        /\ objects'[o].sized = objects[o].sized
        /\ objects'[o].magic = objects[o].magic
    <3>1. CASE Join(p)
      BY <1>1, <2>1, <3>1 DEF Join, Objects
    <3>2. CASE LeaveReader(p)
      BY <1>1, <2>1, <3>2 DEF LeaveReader, Objects
    <3>3. CASE DropWriter(p)
      BY <1>1, <2>1, <3>3 DEF DropWriter, Objects
    <3> QED BY <1>6, <3>1, <3>2, <3>3
  <2> QED BY <2>2 DEF SizedInv
<1> QED BY <1>2, <1>3, <1>4, <1>5, <1>6
         DEF Start, Finish, Open, Validate, LeaveWriter, Unmap, Unlink, Reopen

\* While everybody else is absent the object of the server counts nobody else.
LEMMA ServerAlone ==
  ASSUME HostedInv, proc[Server].pc \in {"attached", "left"},
         \A q \in Processes \ {Server} : Absent(q)
  PROVE  /\ Obj(Server) \in Objects
         /\ Obj(Server).readers = 0
         /\ proc[Server].pc = "left" => Obj(Server).writers = 0
<1> DEFINE o == proc[Server].obj
<1>1. /\ TypeOK /\ CountsExact /\ Server \in Processes /\ Server \notin Readers
      /\ o # 0
  BY LifecycleAssumption
     DEF HostedInv, LifecycleInv, ServerInv, Processes
<1>2. o \in DOMAIN objects /\ objects[o] \in Objects
  BY <1>1, Typing DEF Records
<1>3. AttachedTo(o) \cap Readers = {}
  BY <1>1 DEF AttachedTo, Absent
<1>4. proc[Server].pc = "left" => AttachedTo(o) \cap Writers = {}
  BY <1>1 DEF AttachedTo, Absent
<1> QED BY <1>1, <1>2, <1>3, <1>4, FS_EmptySet DEF CountsExact, Obj

\* The server's steps: it makes the object, and at the end removes its name.
LEMMA ServerStep ==
  ASSUME HostedInv, Start(Server) \/ Finish(Server),
         \A q \in Processes \ {Server} : Absent(q)
  PROVE  ServerInv' /\ AloneInv' /\ ClientInv'
<1> DEFINE s == Server
<1>1. /\ TypeOK /\ proc \in [Processes -> Records] /\ proc[s] \in Records
      /\ s \in Processes /\ s \notin Readers /\ Len(objects) \in Nat
  BY Typing, LifecycleAssumption
     DEF HostedInv, LifecycleInv, Processes, TypeOK, Records
<1>2. \A q \in Processes : Client(q) => proc'[q] = proc[q] /\ Absent(q)'
  BY <1>1, OthersStay DEF Client, Absent
<1>3. ClientInv'
  BY <1>2 DEF ClientInv, Client, Absent
<1> DEFINE moved(pc) == /\ proc'[s].pc = pc /\ proc'[s].obj = proc[s].obj
                        /\ proc'[s].seen = proc[s].seen
<1>4. CASE Open(s)
  <2>1. name = 0 /\ name' = 0 /\ moved("creating")
    BY <1>1, <1>4 DEF HostedInv, ServerInv, Open, Go, Records
  <2> QED BY <1>2, <1>3, <2>1 DEF ServerInv, AloneInv, States
<1>5. CASE Create(s)
  <2>1. /\ name' = Len(objects) + 1 /\ proc'[s].pc = "sizing"
        /\ proc'[s].obj = Len(objects) + 1
    BY <1>1, <1>5 DEF HostedInv, ServerInv, Create, CreateExclusive, AddObject,
                      Records
  <2> QED BY <1>1, <1>2, <1>3, <2>1 DEF ServerInv, AloneInv, States
<1>6. CASE SizeFile(s)
  <2>1. /\ moved("initializing") /\ name' = name
        /\ name # 0 /\ name = proc[s].obj
    BY <1>1, <1>6 DEF HostedInv, ServerInv, SizeFile, Go, Records
  <2> QED BY <1>2, <1>3, <2>1 DEF ServerInv, AloneInv, States
<1>7. CASE InitFile(s)
  <2>1. /\ moved("joining") /\ name' = name
        /\ name # 0 /\ name = proc[s].obj
    BY <1>1, <1>7 DEF HostedInv, ServerInv, InitFile, Go, Records
  <2> QED BY <1>2, <1>3, <2>1 DEF ServerInv, AloneInv, States
<1>8. CASE Join(s)
  <2>1. /\ moved("attached") /\ name' = name
        /\ name # 0 /\ name = proc[s].obj
    BY <1>1, <1>8 DEF HostedInv, ServerInv, Join, Go, Records
  <2> QED BY <1>2, <1>3, <2>1 DEF ServerInv, AloneInv, States
<1>9. CASE LeaveWriter(s)
  <2>1. Obj(s).readers = 0
    BY <1>9, ServerAlone DEF LeaveWriter
  <2>2. /\ proc'[s].pc = "leaving" /\ proc'[s].obj = proc[s].obj
        /\ proc'[s].seen = 0 /\ name' = name
        /\ name # 0 /\ name = proc[s].obj
    BY <1>1, <1>9, <2>1 DEF HostedInv, ServerInv, LeaveWriter, Records
  <2> QED BY <1>2, <1>3, <2>2 DEF ServerInv, AloneInv, States
<1>10. CASE DropWriter(s)
  <2>1. /\ moved("left") /\ name' = name /\ proc[s].seen = 0
        /\ name # 0 /\ name = proc[s].obj
    BY <1>1, <1>10 DEF HostedInv, ServerInv, AloneInv, DropWriter, Go, Records
  <2> QED BY <1>2, <1>3, <2>1 DEF ServerInv, AloneInv, States
<1>11. CASE Unmap(s)
  <2>1. Removes(s)
    BY <1>11, ServerAlone DEF Unmap, Removes, HostedInv, AloneInv
  <2>2. /\ moved("unlinking") /\ name' = name
        /\ name # 0 /\ name = proc[s].obj
    BY <1>1, <1>11, <2>1 DEF HostedInv, ServerInv, Unmap, Go, Records
  <2> QED BY <1>2, <1>3, <2>2 DEF ServerInv, AloneInv, States
<1>12. CASE Unlink(s)
  <2>1. moved("closed") /\ name' = 0
    BY <1>1, <1>12 DEF Unlink, Go, Records
  <2> QED BY <1>2, <1>3, <2>1 DEF ServerInv, AloneInv, States
<1>13. CASE Reopen(s)
  <2>1. proc'[s].pc = "new" /\ name' = 0
    BY <1>1, <1>13 DEF Reopen, HostedInv, ServerInv
  <2> QED BY <1>2, <1>3, <2>1 DEF ServerInv, AloneInv, States
<1>14. ~Validate(s) /\ ~LeaveReader(s)
  BY <1>1 DEF Validate, LeaveReader, HostedInv, ServerInv
<1> QED BY <1>4, <1>5, <1>6, <1>7, <1>8, <1>9, <1>10, <1>11, <1>12, <1>13,
           <1>14 DEF Start, Finish

\* The steps of the others: they find the server's object initialised, and the
\* server still counted when they leave.
LEMMA ClientStep ==
  ASSUME HostedInv, NEW p \in Processes, p # Server,
         Start(p) \/ Finish(p), proc[Server].pc = "attached"
  PROVE  ServerInv' /\ AloneInv' /\ ClientInv' /\ UNCHANGED name
<1> DEFINE s == Server
           o == proc[s].obj
<1>1. /\ TypeOK /\ proc \in [Processes -> Records]
      /\ s \in Processes /\ s \in Writers /\ Len(objects) \in Nat
      /\ proc[s] \in Records /\ proc[p] \in Records
      /\ CountsExact
  BY Typing, LifecycleAssumption
     DEF HostedInv, LifecycleInv, Processes, TypeOK, Records
<1>2. name # 0 /\ name = o /\ o \in DOMAIN objects
  BY <1>1, Typing DEF HostedInv, ServerInv, Records
<1>3. objects[o].magic /\ objects[o].sized
  BY <1>1, <1>2 DEF HostedInv, LifecycleInv, MemberInv, SizedInv, Obj
<1>4. objects[o].writers # 0
  <2>1. s \in AttachedTo(o) \cap Writers
    BY <1>1 DEF AttachedTo
  <2>2. IsFiniteSet(AttachedTo(o) \cap Writers)
    BY MembersFinite
  <2>3. Cardinality(AttachedTo(o) \cap Writers) # 0
    BY <2>1, <2>2, FS_EmptySet
  <2> QED BY <1>1, <1>2, <2>3 DEF CountsExact
<1>5. /\ proc[p].pc \in {"new", "validating", "joining", "attached", "leaving",
                         "left", "closed"}
      /\ proc[p].pc \notin {"new", "closed"} => proc[p].obj = name
  BY DEF HostedInv, ClientInv, Client
<1> DEFINE with == /\ name' = name
                   /\ \/ proc'[p].pc \in {"new", "closed"}
                      \/ /\ proc'[p].pc \in {"validating", "joining", "attached",
                                            "leaving", "left"}
                         /\ proc'[p].obj = name
<1>6. ASSUME Open(p) PROVE with
  BY <1>1, <1>2, <1>6 DEF Open, Records
<1>7. ASSUME Validate(p) PROVE with
  <2>1. AfterValidate(p) = "joining"
    BY <1>2, <1>3, <1>5, <1>7 DEF Validate, AfterValidate, Obj
  <2> QED BY <1>1, <1>5, <1>7, <2>1 DEF Validate, Records
<1>8. ASSUME Join(p) PROVE with
  BY <1>1, <1>5, <1>8 DEF Join, Go, Records
<1>9. ASSUME LeaveReader(p) PROVE with
  BY <1>1, <1>5, <1>9 DEF LeaveReader, Go, Records
<1>10. ASSUME LeaveWriter(p) PROVE with
  BY <1>1, <1>5, <1>10 DEF LeaveWriter, Records
<1>11. ASSUME DropWriter(p) PROVE with
  BY <1>1, <1>5, <1>11 DEF DropWriter, Go, Records
<1>12. ASSUME Unmap(p) PROVE with
  <2>1. ~Removes(p)
    BY <1>2, <1>4, <1>5, <1>12 DEF Unmap, Removes, Obj
  <2> QED BY <1>1, <1>12, <2>1 DEF Unmap, Go, Records
<1>13. ASSUME Reopen(p) PROVE with
  BY <1>1, <1>13 DEF Reopen
<1>14. ~Create(p) /\ ~SizeFile(p) /\ ~InitFile(p) /\ ~Unlink(p)
  BY <1>5 DEF Create, SizeFile, InitFile, Unlink
<1>15. with
  <2> HIDE DEF with
  <2> QED BY <1>6, <1>7, <1>8, <1>9, <1>10, <1>11, <1>12, <1>13, <1>14
             DEF Start, Finish
<1>16. \A q \in Processes : q # p => proc'[q] = proc[q]
  BY <1>1, OthersStay
<1>17. proc'[s] = proc[s]
  BY <1>1, <1>16
<1>18. ServerInv' /\ AloneInv'
  BY <1>2, <1>15, <1>17 DEF ServerInv, AloneInv, States
<1>19. ClientInv'
  <2>1. ASSUME NEW q \in Processes, q # p, Client(q)
        PROVE  /\ proc'[q] = proc[q]
               /\ proc[q].pc \in {"new", "validating", "joining", "attached",
                                  "leaving", "left", "closed"}
               /\ proc[q].pc \notin {"new", "closed"} => proc[q].obj = name
    BY <1>16, <2>1 DEF HostedInv, ClientInv
  <2> QED BY <1>15, <2>1 DEF ClientInv, Client
<1> QED BY <1>15, <1>18, <1>19

LEMMA HostedStep ==
  ASSUME HostedInv, HostedNext
  PROVE  HostedInv'
<1> PICK p \in Processes :
      /\ IF p = Server THEN \A q \in Processes \ {p} : Absent(q)
                       ELSE proc[Server].pc = "attached"
      /\ Start(p) \/ Finish(p)
  BY DEF HostedNext
<1>1. LifecycleInv'
  BY ProcessStep DEF HostedInv
<1>2. SizedInv'
  BY SizedStep DEF HostedInv
<1>3. ServerInv' /\ AloneInv' /\ ClientInv'
  BY ServerStep, ClientStep
<1> QED BY <1>1, <1>2, <1>3 DEF HostedInv

LEMMA HostedStutter ==
  ASSUME HostedInv, UNCHANGED vars
  PROVE  HostedInv'
<1>1. TypeOK' /\ CreatorInv' /\ MemberInv'
  BY DEF vars, HostedInv, LifecycleInv, TypeOK, CreatorInv, Creating, Obj,
         MemberInv
<1>2. CountsExact'
  BY DEF vars, HostedInv, LifecycleInv, CountsExact, AttachedTo
<1>3. SizedInv' /\ ServerInv' /\ AloneInv' /\ ClientInv'
  BY DEF vars, HostedInv, SizedInv, ServerInv, AloneInv, ClientInv, Client,
         Absent
<1> QED BY <1>1, <1>2, <1>3 DEF HostedInv, LifecycleInv

LEMMA HostedInit ==
  ASSUME Init
  PROVE  HostedInv
<1>1. /\ name = 0 /\ objects = << >>
      /\ \A p \in Processes : proc[p].pc = "new"
      /\ Server \in Processes
  BY LifecycleAssumption DEF Init, Processes
<1>2. DOMAIN objects = {}
  BY <1>1
<1> QED BY <1>1, <1>2, LifecycleInit
         DEF HostedInv, SizedInv, ServerInv, AloneInv, ClientInv, Absent, States

\* When one writer opens the queue before the others and closes it after them,
\* the name stands for the object they are all on.
THEOREM HostedInvariant == HostedSpec => []HostedInv
<1>1. Init => HostedInv
  BY HostedInit
<1>2. HostedInv /\ [HostedNext]_vars => HostedInv'
  BY HostedStep, HostedStutter
<1> QED BY <1>1, <1>2, PTL DEF HostedSpec

\* Under a server, all the processes that have the queue open have the same
\* queue open: nobody's shm_unlink or O_CREAT splits them over two objects.
THEOREM HostedOneQueue == HostedSpec => []OneQueue
<1>1. HostedInv => OneQueue
  <2> SUFFICES ASSUME HostedInv, NEW o \in DOMAIN objects,
                      NEW p \in AttachedTo(o)
               PROVE  name = o
    BY DEF OneQueue
  <2>1. CASE p = Server
    BY <2>1 DEF HostedInv, ServerInv, AttachedTo
  <2>2. CASE p # Server
    BY <2>2 DEF HostedInv, ClientInv, Client, AttachedTo
  <2> QED BY <2>1, <2>2
<1> QED BY <1>1, HostedInvariant, PTL

\* Under a server, the name is gone when the last process has closed the queue,
\* so the next to come makes a fresh one.
THEOREM HostedLastOut == HostedSpec => []LastOutUnlinks
<1>1. HostedInv => LastOutUnlinks
  BY LifecycleAssumption DEF HostedInv, ServerInv, LastOutUnlinks, Processes
<1> QED BY <1>1, HostedInvariant, PTL

\* Under a server, a step that removes the name finds no reader, or no writer,
\* on the object it removes.
THEOREM HostedKeeps == HostedSpec => KeptWhileUsed
<1>1. HostedInv /\ [HostedNext]_vars =>
        [name # 0 /\ name' = 0 =>
           \/ AttachedTo(name) \cap Readers = {}
           \/ AttachedTo(name) \cap Writers = {}]_vars
  <2> SUFFICES ASSUME HostedInv, HostedNext, name # 0, name' = 0
               PROVE  AttachedTo(name) \cap Readers = {}
    BY DEF vars
  <2> PICK p \in Processes :
        /\ IF p = Server THEN \A q \in Processes \ {p} : Absent(q)
                         ELSE proc[Server].pc = "attached"
        /\ Start(p) \/ Finish(p)
    BY DEF HostedNext
  <2>1. p = Server
    BY ClientStep
  <2>2. Server \notin Readers
    BY LifecycleAssumption
  <2> QED BY <2>1, <2>2 DEF AttachedTo, Absent
<1> QED BY <1>1, HostedInvariant, PTL DEF HostedSpec, KeptWhileUsed
=============================================================================
