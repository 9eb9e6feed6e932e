--------------------------- MODULE IpcQueueProofs ---------------------------
(***************************************************************************)
(* Theorems about IpcQueue for any number of writers, any sizes of the     *)
(* region, of a header and of the messages, and any number of laps.  The   *)
(* queue is safe: QueueInv is inductive with one reader, whatever the      *)
(* clients do, and with any number of readers under FanoutSpec; and it     *)
(* implies the properties.                                                 *)
(***************************************************************************)
EXTENDS IpcQueueInvariant, RingLayoutProofs, SequenceTheorems,
        FiniteSetTheorems

\* The word in the shared memory counts in a range that modulo keeps.
LEMMA CountTyping ==
  ASSUME NEW n \in Int
  PROVE  n % ReaderLimit \in Count
BY QueueAssumption DEF Count

\* A reservation keeps the write offset where a header fits.
LEMMA ReserveShape ==
  ASSUME TypeOK, ShapeInv, NEW w \in Writers, NEW size \in Sizes,
         Reserve(w, size)
  PROVE  /\ writeOffset' \in Nat
         /\ writeOffset' > writeOffset
         /\ Rel(writeOffset') <= QueueSize - HeaderSize
<1>1. size \in AcceptedSizes
  BY QueueAssumption
<1>2. Bump(writeOffset, Total(size)) \in HeaderSize .. QueueSize
  BY <1>1, BumpTyping DEF TypeOK, ShapeInv
<1>3. Rel(writeOffset + Bump(writeOffset, Total(size)))
        <= QueueSize - HeaderSize
  BY <1>1, SkipHeaderRoom DEF TypeOK, ShapeInv
<1> QED BY <1>2, <1>3, LayoutAssumption DEF TypeOK, Reserve

LEMMA ReserveTyping ==
  ASSUME TypeOK, ShapeInv, NEW w \in Writers, NEW size \in Sizes,
         Reserve(w, size),
         UNCHANGED <<nReaders, readOffset, mem, reader>>
  PROVE  TypeOK' /\ ShapeInv'
<1>1. size \in Nat
  BY QueueAssumption DEF AcceptedSizes
<1>2. /\ writeOffset' \in Nat
      /\ Rel(writeOffset') <= QueueSize - HeaderSize
  BY ReserveShape
<1>3. writer' \in [Writers -> WriterRecords]
  BY <1>1 DEF TypeOK, Reserve, WriterStates, WriterRecords
<1>4. claims' \in Seq(ClaimRecords)
  BY AppendProperties DEF TypeOK, Reserve, ClaimRecords
<1>5. TypeOK'
  BY <1>2, <1>3, <1>4 DEF TypeOK
<1>6. ShapeInv'
  BY <1>2 DEF TypeOK, ShapeInv, Reserve
<1> QED BY <1>5, <1>6

LEMMA SettleTyping ==
  ASSUME claims \in Seq(ClaimRecords),
         NEW off, NEW status \in {"open", "ready", "void"},
         Settle(off, status)
  PROVE  claims' \in Seq(ClaimRecords)
<1>1. /\ claims \in [1 .. Len(claims) -> ClaimRecords]
      /\ Len(claims) \in Nat
      /\ DOMAIN claims = 1 .. Len(claims)
  BY LenProperties
<1>2. claims' \in [1 .. Len(claims) -> ClaimRecords]
  BY <1>1 DEF Settle, ClaimRecords
<1>3. claims' \in UNION {[1 .. n -> ClaimRecords] : n \in Nat}
  BY <1>1, <1>2
<1> QED BY <1>3, SeqDef, Zenon

-----------------------------------------------------------------------------
(* Type correctness and the shape of the claims, under every specification *)

LEMMA TypeInit == Init => TypeOK /\ ShapeInv
<1> SUFFICES ASSUME Init PROVE TypeOK /\ ShapeInv
  OBVIOUS
<1>1. 0 \in Count
  BY QueueAssumption DEF Count
<1>2. Rel(0) = 0
  <2>1. 0 = QueueSize * 0 + 0 /\ 0 \in 0 .. (QueueSize - 1)
    BY LayoutAssumption
  <2> QED BY <2>1, RelUnique
<1>3. claims \in Seq(ClaimRecords)
  BY DEF Init
<1>4. TypeOK
  BY <1>1, <1>3 DEF Init, TypeOK, BlankHeader, WriterStates, ReaderStates,
     CommitFlag, Headers, WriterRecords, ReaderRecords
<1>5. ShapeInv
  BY <1>2, LayoutAssumption DEF Init, ShapeInv
<1> QED BY <1>4, <1>5

LEMMA PositionTyping ==
  ASSUME TypeOK
  PROVE  /\ \A w \in Writers : HeaderOf(w) \in Positions
         /\ \A r \in Readers : Slot(r) \in Positions
BY RelTyping DEF TypeOK, HeaderOf, Slot, Positions, WriterRecords,
   ReaderRecords

LEMMA GoWriterTyping ==
  ASSUME TypeOK, NEW w \in Writers, NEW pc \in WriterStates,
         GoWriter(w, pc)
  PROVE  /\ writer' \in [Writers -> WriterRecords]
         /\ writer'[w].pc = pc
         /\ \A v \in Writers : /\ v # w => writer'[v].pc = writer[v].pc
                               /\ writer'[v].size = writer[v].size
                               /\ writer'[v].off = writer[v].off
                               /\ writer'[v].readers = writer[v].readers
BY DEF TypeOK, GoWriter, WriterRecords

LEMMA WriterStepTyping ==
  ASSUME TypeOK, ShapeInv, NEW w \in Writers,
         \/ CheckReady(w)
         \/ \E size \in Sizes : ClaimBuffer(w, size)
         \/ WriterProgress(w)
         \/ AbortBuffer(w)
         \/ DropWrapper(w)
  PROVE  TypeOK' /\ ShapeInv'
<1>0. HeaderOf(w) \in Positions /\ mem[HeaderOf(w)] \in Headers
  BY PositionTyping DEF TypeOK
<1>1. CASE CheckReady(w)
  BY <1>1, GoWriterTyping DEF CheckReady, TypeOK, ShapeInv, WriterStates
<1>2. CASE \E size \in Sizes : ClaimBuffer(w, size)
  BY <1>2, ReserveTyping DEF ClaimBuffer
<1>3. CASE RetryClaim(w)
  <2>1. writer[w].size \in Sizes
    BY <1>3 DEF RetryClaim, ShapeInv
  <2> QED BY <1>3, <2>1, ReserveTyping DEF RetryClaim
<1>4. CASE Grant(w)
  BY <1>4, GoWriterTyping DEF Grant, TypeOK, ShapeInv, WriterStates
<1>5. CASE InsertSkip(w)
  <2>0. writer[w].off \in Nat
    BY DEF TypeOK, WriterRecords
  <2>1. PaddingSize(writer[w].off) \in Nat
    BY <1>5, <2>0, RelTyping, LayoutAssumption
    DEF InsertSkip, PaddingSize, Remaining, ShapeInv
  <2>2. mem' \in [Positions -> Headers]
    BY <1>0, <1>5, <2>1 DEF InsertSkip, TypeOK, HeaderCount, Headers,
       WriterRecords
  <2> QED BY <1>5, <2>2, GoWriterTyping
      DEF InsertSkip, TypeOK, ShapeInv, WriterStates
<1>6. CASE CommitSkip(w)
  <2>1. mem' \in [Positions -> Headers]
    BY <1>0, <1>6 DEF CommitSkip, TypeOK, CommitFlag, Headers,
       WriterRecords
  <2>2. claims' \in Seq(ClaimRecords)
    BY <1>6, SettleTyping DEF CommitSkip, TypeOK
  <2> QED BY <1>6, <2>1, <2>2, GoWriterTyping
      DEF CommitSkip, TypeOK, ShapeInv, WriterStates
<1>7. CASE WriteHeader(w)
  <2>1. mem' \in [Positions -> Headers]
    BY <1>0, <1>7 DEF WriteHeader, TypeOK, HeaderCount, Headers,
       WriterRecords
  <2> QED BY <1>7, <2>1, GoWriterTyping
      DEF WriteHeader, TypeOK, ShapeInv, WriterStates
<1>8. CASE WritePayload(w)
  <2>1. mem' \in [Positions -> Headers]
    BY <1>0, <1>8 DEF WritePayload, TypeOK, Headers,
       WriterRecords
  <2> QED BY <1>8, <2>1, GoWriterTyping
      DEF WritePayload, TypeOK, ShapeInv, WriterStates
<1>9. CASE CommitBuffer(w)
  <2>1. mem' \in [Positions -> Headers]
    BY <1>0, <1>9 DEF CommitBuffer, TypeOK, CommitFlag, Headers,
       WriterRecords
  <2>2. claims' \in Seq(ClaimRecords)
    BY <1>9, SettleTyping DEF CommitBuffer, TypeOK
  <2> QED BY <1>9, <2>1, <2>2, GoWriterTyping
      DEF CommitBuffer, TypeOK, ShapeInv, WriterStates
<1>10. CASE AbortBuffer(w)
  <2>1. mem' \in [Positions -> Headers]
    BY <1>0, <1>10 DEF AbortBuffer, TypeOK, CommitFlag, Headers,
       WriterRecords
  <2>2. claims' \in Seq(ClaimRecords)
    BY <1>10, SettleTyping DEF AbortBuffer, TypeOK
  <2> QED BY <1>10, <2>1, <2>2, GoWriterTyping
      DEF AbortBuffer, TypeOK, ShapeInv, WriterStates
<1>11. CASE DropWrapper(w)
  BY <1>11, GoWriterTyping DEF DropWrapper, TypeOK, ShapeInv, WriterStates
<1> QED
  BY <1>1, <1>2, <1>3, <1>4, <1>5, <1>6, <1>7, <1>8, <1>9, <1>10, <1>11
  DEF WriterProgress

LEMMA ReaderUpdate ==
  ASSUME TypeOK, ShapeInv, NEW r \in Readers, NEW rec \in ReaderRecords,
         rec.len <= rec.pos,
         rec.pc \notin {"clearing", "advancing"} => rec.len = 0,
         reader' = [reader EXCEPT ![r] = rec]
  PROVE  /\ reader' \in [Readers -> ReaderRecords]
         /\ \A q \in Readers :
              /\ reader'[q].len <= reader'[q].pos
              /\ reader'[q].pc \notin {"clearing", "advancing"}
                   => reader'[q].len = 0
BY DEF TypeOK, ShapeInv

\* What release_buffer does to its reader.
LEMMA AfterReleaseTyping ==
  ASSUME TypeOK, NEW r \in Readers, NEW h \in Headers
  PROVE  /\ AfterRelease(r, h) \in ReaderRecords
         /\ AfterRelease(r, h).pos = reader[r].pos + Total(h.size)
         /\ AfterRelease(r, h).until = reader[r].until
         /\ IsLastReader(h) => /\ AfterRelease(r, h).pc = "clearing"
                               /\ AfterRelease(r, h).len = Total(h.size)
         /\ ~IsLastReader(h) => /\ AfterRelease(r, h).pc = Resume(r)
                                /\ AfterRelease(r, h).len = 0
<1>1. /\ reader[r] \in ReaderRecords
      /\ Total(h.size) \in Nat
  BY LayoutAssumption DEF TypeOK, Headers, Total
<1>2. Resume(r) \in {"polling", "draining"}
  BY DEF Resume
<1>3. CASE IsLastReader(h)
  BY <1>1, <1>3 DEF AfterRelease, IsLastReader, ReaderRecords, ReaderStates
<1>4. CASE ~IsLastReader(h)
  BY <1>1, <1>2, <1>4
  DEF AfterRelease, IsLastReader, ReaderRecords, ReaderStates
<1> QED BY <1>3, <1>4

LEMMA ReaderStepTyping ==
  ASSUME TypeOK, ShapeInv, NEW r \in Readers,
         \/ Join(r) \/ ReaderProgress(r)
         \/ MarkAsRead(r) \/ CloseReader(r) \/ DrainNext(r)
  PROVE  TypeOK' /\ ShapeInv'
<1> DEFINE ReaderTyped ==
             /\ reader' \in [Readers -> ReaderRecords]
             /\ \A q \in Readers :
                  /\ reader'[q].len <= reader'[q].pos
                  /\ reader'[q].pc \notin {"clearing", "advancing"}
                       => reader'[q].len = 0
<1>0. /\ Slot(r) \in Positions /\ mem[Slot(r)] \in Headers
      /\ reader[r] \in ReaderRecords
      /\ reader[r].pos \in Nat /\ reader[r].len \in Nat
      /\ reader[r].len <= reader[r].pos
      /\ Resume(r) \in {"polling", "draining"}
  BY PositionTyping DEF TypeOK, ShapeInv, Resume, ReaderRecords
<1>1. CASE Join(r)
  <2>1. reader' \in [Readers -> ReaderRecords]
    BY <1>1 DEF Join, TypeOK, JoinPosition, ReaderStates, ReaderRecords
  <2>2. ReaderTyped
    BY <1>1, <2>1 DEF Join, TypeOK, ShapeInv, JoinPosition, ReaderStates,
       ReaderRecords
  <2>3. nReaders' \in Count
    BY <1>1, CountTyping DEF Join, TypeOK, CountAfterJoin, Count
  <2> QED BY <1>1, <2>2, <2>3 DEF Join, TypeOK, ShapeInv
<1>2. CASE PollLoad(r)
  <2>1. ReaderTyped
    BY <1>0, <1>2 DEF PollLoad, TypeOK, ShapeInv, ReaderStates,
       ReaderRecords, Headers
  <2> QED BY <1>2, <2>1 DEF PollLoad, TypeOK, ShapeInv
<1>3. CASE PollCheck(r)
  <2>1. AfterLoad(r, mem[Slot(r)]) \in ReaderStates
    BY DEF AfterLoad, ReaderStates
  <2>2. ReaderTyped
    BY <1>0, <1>3, <2>1 DEF PollCheck, TypeOK, ShapeInv, ReaderRecords,
       CommitFlag
  <2> QED BY <1>3, <2>2 DEF PollCheck, TypeOK, ShapeInv
<1>4. CASE ReleaseBuffer(r)
  <2> DEFINE rec == AfterRelease(r, mem[Slot(r)])
  <2>1. (mem[Slot(r)].readers - 1) % ReaderLimit \in Count
    BY <1>0, CountTyping, QueueAssumption DEF Headers, Count
  <2>2. mem' \in [Positions -> Headers]
    BY <1>0, <1>4, <2>1 DEF ReleaseBuffer, TypeOK, Headers
  <2>3. Total(mem[Slot(r)].size) \in Nat
    BY <1>0, LayoutAssumption DEF Total, Headers
  <2>4. /\ rec \in ReaderRecords
        /\ rec.len <= rec.pos
        /\ rec.pc \notin {"clearing", "advancing"} => rec.len = 0
    BY <1>0, <2>3, AfterReleaseTyping
  <2> HIDE DEF rec
  <2>5. ReaderTyped
    BY <1>4, <2>4, ReaderUpdate DEF ReleaseBuffer, rec
  <2> QED BY <1>4, <2>2, <2>5 DEF ReleaseBuffer, TypeOK, ShapeInv
<1>5. CASE ClearBuffer(r)
  <2> DEFINE p == Rel(reader[r].pos - reader[r].len)
  <2>1. p \in Positions
    BY <1>0, RelTyping DEF ReaderRecords, Positions
  <2> HIDE DEF p
  <2>2. Blanked(mem[p]) \in Headers
    BY <2>1 DEF TypeOK, Blanked, CommitFlag, Headers
  <2>3. mem' \in [Positions -> Headers]
    BY <1>5, <2>1, <2>2 DEF ClearBuffer, TypeOK, p
  <2>4. ReaderTyped
    BY <1>0, <1>5 DEF ClearBuffer, GoReader, TypeOK, ShapeInv, ReaderStates,
       ReaderRecords
  <2> QED BY <1>5, <2>3, <2>4 DEF ClearBuffer, TypeOK, ShapeInv
<1>6. CASE AdvanceWatermark(r)
  <2> DEFINE pc == Resume(r)
  <2>0. pc \in ReaderStates /\ pc \notin {"clearing", "advancing"}
    BY <1>0 DEF ReaderStates
  <2>1. reader' = [reader EXCEPT ![r].pc = pc, ![r].len = 0]
    BY <1>6 DEF AdvanceWatermark
  <2> HIDE DEF pc
  <2>2. reader' \in [Readers -> ReaderRecords]
    BY <2>0, <2>1 DEF TypeOK, ReaderRecords
  <2>3. ReaderTyped
    BY <2>0, <2>1, <2>2 DEF TypeOK, ShapeInv, ReaderRecords
  <2>4. readOffset' \in Nat
    BY <1>0, <1>6 DEF AdvanceWatermark, WatermarkAfter, TypeOK, ReaderRecords
  <2> QED BY <1>6, <2>3, <2>4 DEF AdvanceWatermark, TypeOK, ShapeInv
<1>7. CASE CloseReader(r)
  <2>1. ReaderTyped
    BY <1>0, <1>7 DEF CloseReader, TypeOK, ShapeInv, ReaderStates,
       ReaderRecords
  <2>2. nReaders' \in Count
    BY <1>7, CountTyping DEF CloseReader, TypeOK, CountAfterLeave, Count
  <2> QED BY <1>7, <2>1, <2>2 DEF CloseReader, TypeOK, ShapeInv
<1>8. CASE DrainNext(r)
  <2>1. ReaderTyped
    BY <1>0, <1>8 DEF DrainNext, GoReader, TypeOK, ShapeInv, ReaderStates,
       ReaderRecords
  <2> QED BY <1>8, <2>1 DEF DrainNext, TypeOK, ShapeInv
<1>9. CASE MarkAsRead(r)
  <2>1. ReaderTyped
    BY <1>0, <1>9 DEF MarkAsRead, GoReader, TypeOK, ShapeInv, ReaderStates,
       ReaderRecords
  <2> QED BY <1>9, <2>1 DEF MarkAsRead, TypeOK, ShapeInv
<1> QED
  BY <1>1, <1>2, <1>3, <1>4, <1>5, <1>6, <1>7, <1>8, <1>9
  DEF ReaderProgress

LEMMA TypeStep ==
  ASSUME TypeOK, ShapeInv, [Next]_vars
  PROVE  TypeOK' /\ ShapeInv'
<1>1. CASE UNCHANGED vars
  BY <1>1 DEF vars, TypeOK, ShapeInv
<1>2. CASE Next
  BY <1>2, WriterStepTyping, ReaderStepTyping
  DEF Next, SteadyNext, AbortNext, DropNext, KeepNext, CloseNext
<1> QED BY <1>1, <1>2

\* Every reachable state of the queue, whatever its clients do, is of the
\* declared type: offsets, counts and sizes stay natural numbers, the counts
\* within their width, and the padding of a skip is never negative.
THEOREM TypeCorrect == Spec => []TypeOK
<1>1. Init => TypeOK /\ ShapeInv
  BY TypeInit
<1>2. TypeOK /\ ShapeInv /\ [Next]_vars => TypeOK' /\ ShapeInv'
  BY TypeStep
<1> QED BY <1>1, <1>2, PTL DEF Spec

\* insert_skip_message's assertion holds whatever the clients do: the header
\* of a skip never crosses the end of the region.
THEOREM SkipHeaderAlwaysFits == Spec => []SkipHeaderFits
<1>1. Init => TypeOK /\ ShapeInv
  BY TypeInit
<1>2. TypeOK /\ ShapeInv /\ [Next]_vars => TypeOK' /\ ShapeInv'
  BY TypeStep
<1>3. TypeOK /\ ShapeInv => SkipHeaderFits
  <2>1. TypeOK => \A w \in Writers : Rel(writer[w].off) \in Int
    BY RelTyping DEF TypeOK, WriterRecords
  <2> QED BY <2>1, LayoutAssumption DEF ShapeInv, SkipHeaderFits
<1> QED BY <1>1, <1>2, <1>3, PTL DEF Spec

-----------------------------------------------------------------------------
(* The number of readers, under every specification *)

\* The readers that the word in the shared memory should count.
Members == {r \in Readers : Attached(r)}

\* The steps of a reader that neither count it nor take it out of the count.
LEMMA KeepsCounted ==
  ASSUME TypeOK, LeavingInv, NEW r \in Readers,
         ReaderProgress(r) \/ MarkAsRead(r) \/ DrainNext(r)
  PROVE  /\ nReaders' = nReaders
         /\ \A q \in Readers : q # r => reader'[q] = reader[q]
         /\ reader'[r].until = reader[r].until
         /\ reader[r].pc # "out" /\ reader'[r].pc # "out"
         /\ reader[r].until # NotClosing =>
              reader'[r].pc \notin {"out", "polling", "loaded", "holding"}
         /\ reader'[r].pc \in {"draining", "closed"} =>
              reader[r].until # NotClosing
<1>1. CASE PollLoad(r)
  BY <1>1 DEF PollLoad, TypeOK, ReaderRecords, LeavingInv
<1>2. CASE PollCheck(r)
  <2>1. AfterLoad(r, mem[Slot(r)]) \in {"polling", "releasing", "holding"}
    BY DEF AfterLoad
  <2> QED BY <1>2, <2>1 DEF PollCheck, TypeOK, ReaderRecords, LeavingInv
<1>3. CASE ReleaseBuffer(r)
  <2>1. /\ reader'[r] = AfterRelease(r, mem[Slot(r)])
        /\ \A q \in Readers : q # r => reader'[q] = reader[q]
        /\ reader[r].pc \in {"holding", "releasing"}
        /\ nReaders' = nReaders
    BY <1>3 DEF ReleaseBuffer, TypeOK
  <2>2. /\ reader'[r].until = reader[r].until
        /\ reader'[r].pc \in {"clearing", Resume(r)}
    BY <2>1 DEF AfterRelease
  <2> QED BY <2>1, <2>2 DEF Resume
<1>4. CASE ClearBuffer(r)
  BY <1>4 DEF ClearBuffer, GoReader, TypeOK, ReaderRecords
<1>5. CASE AdvanceWatermark(r)
  BY <1>5 DEF AdvanceWatermark, Resume, TypeOK, ReaderRecords
<1>6. CASE MarkAsRead(r)
  BY <1>6 DEF MarkAsRead, GoReader, TypeOK, ReaderRecords, LeavingInv
<1>7. CASE DrainNext(r)
  BY <1>7 DEF DrainNext, GoReader, TypeOK, ReaderRecords, LeavingInv
<1> QED BY <1>1, <1>2, <1>3, <1>4, <1>5, <1>6, <1>7 DEF ReaderProgress

LEMMA CountedStep ==
  ASSUME IsFiniteSet(Readers), Cardinality(Readers) < ReaderLimit,
         TypeOK, LeavingInv, ReadersCounted, [Next]_vars
  PROVE  LeavingInv' /\ ReadersCounted'
<1>0. /\ IsFiniteSet(Members)
      /\ Cardinality(Members) \in Nat
      /\ Cardinality(Members) = nReaders
  <2>1. Members \subseteq Readers
    BY DEF Members
  <2>2. IsFiniteSet(Members)
    BY <2>1, FS_Subset
  <2> QED BY <2>2, FS_CardinalityType DEF ReadersCounted, Members
<1>1. ASSUME nReaders' = nReaders, Members' = Members
      PROVE  ReadersCounted'
  BY <1>0, <1>1 DEF ReadersCounted, Members
<1>2. CASE UNCHANGED <<nReaders, reader>>
  <2>1. Members' = Members
    BY <1>2 DEF Members, Attached
  <2> QED BY <1>1, <1>2, <2>1 DEF LeavingInv
<1>3. ASSUME NEW r \in Readers,
             ReaderProgress(r) \/ MarkAsRead(r) \/ DrainNext(r)
      PROVE  LeavingInv' /\ ReadersCounted'
  <2>1. \A q \in Readers : Attached(q)' <=> Attached(q)
    BY <1>3, KeepsCounted DEF Attached
  <2>2. Members' = Members
    BY <2>1 DEF Members
  <2>3. LeavingInv'
    BY <1>3, KeepsCounted DEF LeavingInv
  <2> QED BY <1>1, <1>3, <2>2, <2>3, KeepsCounted
<1>4. ASSUME NEW r \in Readers, Join(r)
      PROVE  LeavingInv' /\ ReadersCounted'
  <2>1. /\ nReaders' = (nReaders + 1) % ReaderLimit
        /\ reader[r].pc = "out"
        /\ reader'[r].pc = "polling"
        /\ reader'[r].until = reader[r].until
        /\ \A q \in Readers : q # r => reader'[q] = reader[q]
    BY <1>4 DEF Join, CountAfterJoin, TypeOK, ReaderRecords
  <2>2. reader[r].until = NotClosing
    BY <2>1 DEF LeavingInv
  <2>3. r \notin Members /\ Members' = Members \cup {r}
    BY <2>1, <2>2 DEF Members, Attached
  <2>4. /\ Cardinality(Members \cup {r}) = Cardinality(Members) + 1
        /\ IsFiniteSet(Members \cup {r})
    BY <1>0, <2>3, FS_AddElement
  <2>5. Cardinality(Members \cup {r}) <= Cardinality(Readers)
    <3>1. Members \cup {r} \subseteq Readers
      BY DEF Members
    <3> QED BY <3>1, FS_Subset
  <2>6. (nReaders + 1) % ReaderLimit = nReaders + 1
    <3>1. nReaders + 1 < ReaderLimit
      BY <1>0, <2>4, <2>5, FS_CardinalityType, QueueAssumption
    <3> QED BY <1>0, <3>1, QueueAssumption
  <2>7. ReadersCounted'
    BY <1>0, <2>1, <2>3, <2>4, <2>6 DEF ReadersCounted, Members
  <2> QED BY <2>1, <2>2, <2>7 DEF LeavingInv
<1>5. ASSUME NEW r \in Readers, CloseReader(r)
      PROVE  LeavingInv' /\ ReadersCounted'
  <2>1. /\ nReaders' = (nReaders - 1) % ReaderLimit
        /\ reader[r].pc = "polling"
        /\ reader'[r].pc = "draining"
        /\ reader'[r].until = writeOffset
        /\ \A q \in Readers : q # r => reader'[q] = reader[q]
    BY <1>5 DEF CloseReader, CountAfterLeave, TypeOK, ReaderRecords
  <2>2. reader[r].until = NotClosing /\ writeOffset # NotClosing
    BY <2>1 DEF LeavingInv, TypeOK, NotClosing
  <2>3. r \in Members /\ Members' = Members \ {r}
    BY <2>1, <2>2 DEF Members, Attached
  <2>4. /\ Cardinality(Members \ {r}) = Cardinality(Members) - 1
        /\ Cardinality(Members \ {r}) \in Nat
    BY <1>0, <2>3, FS_RemoveElement, FS_CardinalityType
  <2>5. (nReaders - 1) % ReaderLimit = nReaders - 1
    <3>1. nReaders - 1 \in 0 .. (ReaderLimit - 1)
      BY <1>0, <2>4, QueueAssumption DEF TypeOK, Count
    <3> QED BY <3>1, QueueAssumption
  <2>6. ReadersCounted'
    BY <1>0, <2>1, <2>3, <2>4, <2>5 DEF ReadersCounted, Members
  <2> QED BY <2>1, <2>2, <2>6 DEF LeavingInv
<1>6. ASSUME NEW w \in Writers,
             \/ CheckReady(w) \/ (\E size \in Sizes : ClaimBuffer(w, size))
             \/ WriterProgress(w) \/ AbortBuffer(w) \/ DropWrapper(w)
      PROVE  UNCHANGED <<nReaders, reader>>
  BY <1>6 DEF CheckReady, ClaimBuffer, WriterProgress, RetryClaim, Grant,
     InsertSkip, CommitSkip, WriteHeader, WritePayload, CommitBuffer,
     AbortBuffer, DropWrapper
<1>7. CASE UNCHANGED vars
  BY <1>2, <1>7 DEF vars
<1> QED BY <1>2, <1>3, <1>4, <1>5, <1>6, <1>7
    DEF Next, SteadyNext, AbortNext, DropNext, KeepNext, CloseNext

\* modify_readers: "should never decrement past 0 and never add more than max
\* readers".  As long as fewer readers exist than the byte can count, the count
\* is the number of attached readers, whatever writers and readers do.
THEOREM CountOfReaders ==
  ASSUME IsFiniteSet(Readers), Cardinality(Readers) < ReaderLimit
  PROVE  Spec => []ReadersCounted
<1> DEFINE Inv == TypeOK /\ ShapeInv /\ LeavingInv /\ ReadersCounted
<1>1. Init => Inv
  <2> SUFFICES ASSUME Init PROVE LeavingInv /\ ReadersCounted
    BY TypeInit
  <2>1. Members = {}
    BY DEF Init, Members, Attached
  <2> QED BY <2>1, FS_EmptySet DEF Init, LeavingInv, ReadersCounted, Members
<1>2. Inv /\ [Next]_vars => Inv'
  BY TypeStep, CountedStep
<1> QED BY <1>1, <1>2, PTL DEF Spec


-----------------------------------------------------------------------------
(* Facts about one state *)

LEMMA ClaimSpan ==
  ASSUME TypeOK, ShapeInv, NEW w \in Writers,
         writer[w].pc \notin {"unready", "idle"}
  PROVE  /\ writer[w].off \in Nat
         /\ EndOfClaim(w) \in Nat
         /\ writer[w].off < EndOfClaim(w)
<1>1. writer[w].off \in Nat /\ writer[w].size \in AcceptedSizes
  BY QueueAssumption DEF TypeOK, ShapeInv, WriterRecords
<1>2. Bump(writer[w].off, Total(writer[w].size)) \in HeaderSize .. QueueSize
  BY <1>1, BumpTyping DEF ShapeInv
<1> QED BY <1>1, <1>2, LayoutAssumption DEF EndOfClaim

LEMMA LiveSpan ==
  ASSUME TypeOK, NEW p \in Positions
  PROVE  /\ mem[p].abs \in Nat
         /\ LiveEnd(p) \in Nat
         /\ mem[p].abs < LiveEnd(p)
         /\ LiveEnd(p) = mem[p].abs + Total(mem[p].size)
         /\ Total(mem[p].size) \in Nat
BY LayoutAssumption DEF TypeOK, Headers, LiveEnd, Total

LEMMA ReaderTyping ==
  ASSUME TypeOK, NEW r \in Readers
  PROVE  /\ reader[r].pos \in Nat
         /\ reader[r].len \in Nat
         /\ reader[r].until \in Nat \cup {NotClosing}
         /\ Slot(r) \in Positions
BY PositionTyping DEF TypeOK, ReaderRecords

LEMMA FrontTyping ==
  ASSUME TypeOK, ShapeInv, NEW r \in Readers
  PROVE  /\ Front(r) \in Nat
         /\ Front(r) <= reader[r].pos
         /\ Front(r) + reader[r].len = reader[r].pos
         /\ ~Finishing(r) => Front(r) = reader[r].pos /\ reader[r].len = 0
BY ReaderTyping DEF ShapeInv, Front, Finishing

\* The watermark is behind everything a reader has still to get past.
LEMMA AwaitedAhead ==
  ASSUME QueueInv, NEW o \in Nat, Awaited(o)
  PROVE  readOffset \in Nat /\ readOffset <= o
<1>1. PICK r \in Readers : Present(r) /\ reader[r].pos <= o
  BY DEF Awaited
<1>2. readOffset <= Front(r)
  BY <1>1 DEF QueueInv, RingInv, WatermarkInv
<1>3. readOffset \in Nat
  BY DEF QueueInv, BaseInv, TypeOK
<1>4. Front(r) \in Nat /\ Front(r) <= reader[r].pos /\ reader[r].pos \in Nat
  BY FrontTyping, ReaderTyping DEF QueueInv, BaseInv
<1> QED BY <1>1, <1>2, <1>3, <1>4

\* No reader is in the way of a process that is not at the start.
LEMMA SomebodyPresent ==
  ASSUME QueueInv, NEW w \in Writers, writer[w].pc # "unready"
  PROVE  /\ \E r \in Readers : Present(r)
         /\ \E r \in Readers : Present(r) /\ Front(r) = readOffset
BY DEF QueueInv, RingInv, WatermarkInv

\* What an owner owns is ahead of the watermark, within one lap.
LEMMA OwnerWindow ==
  ASSUME QueueInv, NEW w \in Writers, Owns(w)
  PROVE  /\ writer[w].off \in Nat
         /\ EndOfClaim(w) \in Nat
         /\ writer[w].off < EndOfClaim(w)
         /\ readOffset \in Nat
         /\ readOffset <= writer[w].off
         /\ EndOfClaim(w) <= readOffset + QueueSize
         /\ Active(w)
<1>1. writer[w].pc \notin {"unready", "idle"} /\ Active(w)
  BY DEF Owns, Active
<1>2. /\ writer[w].off \in Nat
      /\ EndOfClaim(w) \in Nat
      /\ writer[w].off < EndOfClaim(w)
  BY <1>1, ClaimSpan DEF QueueInv, BaseInv
<1>3. Awaited(writer[w].off) /\ EndOfClaim(w) <= readOffset + QueueSize
  BY <1>1 DEF QueueInv, RingInv, ClaimInv
<1> QED BY <1>1, <1>2, <1>3, AwaitedAhead

\* No message starts where an owner's header is.
LEMMA OwnerSlotFree ==
  ASSUME QueueInv, NEW w \in Writers, Owns(w)
  PROVE  ~Live(HeaderOf(w)) /\ HeaderOf(w) \in Positions
<1>0. PICK p \in Positions : p = HeaderOf(w)
  BY PositionTyping DEF QueueInv, BaseInv
<1> SUFFICES ASSUME Live(p) PROVE FALSE
  BY <1>0
<1>1. /\ writer[w].off \in Nat
      /\ EndOfClaim(w) \in Nat
      /\ writer[w].off < EndOfClaim(w)
      /\ readOffset \in Nat
      /\ readOffset <= writer[w].off
      /\ EndOfClaim(w) <= readOffset + QueueSize
      /\ Active(w)
  BY OwnerWindow
<1>2. /\ mem[p].abs \in Nat /\ LiveEnd(p) \in Nat
      /\ mem[p].abs < LiveEnd(p)
  BY LiveSpan DEF QueueInv, BaseInv
<1>3. /\ Rel(mem[p].abs) = p
      /\ readOffset <= mem[p].abs
      /\ LiveEnd(p) <= readOffset + QueueSize
  BY DEF QueueInv, RingInv, LiveInv
<1>4. Apart(writer[w].off, EndOfClaim(w), mem[p].abs, LiveEnd(p))
  BY <1>1 DEF QueueInv, RingInv, ApartInv
<1>5. Rel(writer[w].off) = p
  BY <1>0 DEF HeaderOf
<1>6. mem[p].abs = writer[w].off
  BY <1>1, <1>2, <1>3, <1>5, WindowInjective, LayoutAssumption
<1> QED BY <1>1, <1>2, <1>4, <1>6 DEF Apart

\* Two owners do not share a header.
LEMMA OwnersHeadersDiffer ==
  ASSUME QueueInv, NEW v \in Writers, NEW w \in Writers,
         v # w, Owns(v), Owns(w)
  PROVE  HeaderOf(v) # HeaderOf(w)
<1>1. /\ writer[w].off \in Nat
      /\ EndOfClaim(w) \in Nat
      /\ writer[w].off < EndOfClaim(w)
      /\ readOffset \in Nat
      /\ readOffset <= writer[w].off
      /\ EndOfClaim(w) <= readOffset + QueueSize
      /\ Active(w)
  BY OwnerWindow
<1>2. /\ writer[v].off \in Nat
      /\ EndOfClaim(v) \in Nat
      /\ writer[v].off < EndOfClaim(v)
      /\ readOffset <= writer[v].off
      /\ EndOfClaim(v) <= readOffset + QueueSize
      /\ Active(v)
  BY OwnerWindow
<1>3. Apart(writer[v].off, EndOfClaim(v), writer[w].off, EndOfClaim(w))
  BY <1>1, <1>2 DEF QueueInv, RingInv, ApartInv
<1>4. writer[v].off # writer[w].off
  BY <1>1, <1>2, <1>3 DEF Apart
<1> QED BY <1>1, <1>2, <1>4, WindowInjective, LayoutAssumption DEF HeaderOf

\* With one reader, the message in its slot is the one at its offset.
LEMMA MessageAtSlot ==
  ASSUME QueueInv, NEW r \in Readers, Readers = {r}, Present(r),
         ~Finishing(r), Live(Slot(r))
  PROVE  mem[Slot(r)].abs = reader[r].pos
<1>1. PICK p \in Positions : p = Slot(r)
  BY ReaderTyping DEF QueueInv, BaseInv
<1>2. /\ mem[p].abs \in Nat /\ LiveEnd(p) \in Nat
      /\ mem[p].abs < LiveEnd(p)
  BY LiveSpan DEF QueueInv, BaseInv
<1>3. /\ Rel(mem[p].abs) = p
      /\ readOffset <= mem[p].abs
      /\ LiveEnd(p) <= readOffset + QueueSize
  BY <1>1 DEF QueueInv, RingInv, LiveInv
<1>4. Front(r) = readOffset
  BY DEF QueueInv, RingInv, WatermarkInv
<1>5. readOffset = reader[r].pos /\ reader[r].pos \in Nat
  BY <1>4, FrontTyping, ReaderTyping DEF QueueInv, BaseInv
<1>6. Rel(reader[r].pos) = p
  BY <1>1 DEF Slot
<1>7. mem[p].abs = reader[r].pos
  BY <1>2, <1>3, <1>5, <1>6, WindowInjective, LayoutAssumption
<1> QED BY <1>1, <1>7

-----------------------------------------------------------------------------
(* The count of a header *)

LEMMA SharersTyping ==
  ASSUME Served, NEW rs, NEW o
  PROVE  /\ IsFiniteSet(Sharers(rs, o))
         /\ Cardinality(Sharers(rs, o)) \in Nat
         /\ Cardinality(Sharers(rs, o)) < ReaderLimit
<1>1. Sharers(rs, o) \in SUBSET Readers
  BY DEF Sharers
<1>2. /\ IsFiniteSet(Sharers(rs, o))
      /\ Cardinality(Sharers(rs, o)) <= Cardinality(Readers)
  BY <1>1, FS_Subset DEF Served
<1>3. Cardinality(Sharers(rs, o)) \in Nat /\ Cardinality(Readers) \in Nat
  BY <1>2, FS_CardinalityType DEF Served
<1> QED BY <1>2, <1>3, QueueAssumption DEF Served

\* A reader that takes a count of one or less away was the last.
LEMMA LastSharer ==
  ASSUME NEW S, IsFiniteSet(S), Cardinality(S) <= 1,
         NEW r \in S, NEW q \in S
  PROVE  q = r
<1>1. Cardinality(S) \in Nat
  BY FS_CardinalityType
<1>2. Cardinality(S) # 0
  BY FS_EmptySet
<1>3. Cardinality(S) = 1
  BY <1>1, <1>2
<1>4. PICK x : S = {x}
  BY <1>3, FS_Singleton
<1> QED BY <1>4

\* ... and one that leaves a count of one or more was not.
LEMMA OtherSharer ==
  ASSUME NEW S, IsFiniteSet(S), ~(Cardinality(S) <= 1), NEW r
  PROVE  \E q \in S : q # r
<1> SUFFICES ASSUME \A q \in S : q = r PROVE FALSE
  OBVIOUS
<1>1. S \in SUBSET {r}
  OBVIOUS
<1>2. Cardinality(S) <= Cardinality({r})
  BY <1>1, FS_Subset, FS_Singleton
<1> QED BY <1>2, FS_Singleton

\* Sharers looks at nothing but the joining, the offset and the leaving of a
\* reader.
LEMMA SameSharers ==
  ASSUME NEW rs, NEW ss, NEW o,
         \A r \in Readers : (/\ ss[r].pc # "out" /\ ss[r].pos <= o
                             /\ ss[r].until = NotClosing \/ o < ss[r].until)
                        <=> (/\ rs[r].pc # "out" /\ rs[r].pos <= o
                             /\ rs[r].until = NotClosing \/ o < rs[r].until)
  PROVE  Sharers(ss, o) = Sharers(rs, o)
BY DEF Sharers

-----------------------------------------------------------------------------
(* The properties follow from the invariant *)

LEMMA QueueInvImplies ==
  ASSUME QueueInv
  PROVE  NoOverwrite /\ WritersDisjoint /\ HeldIntact /\ WatermarkExact
<1>1. NoOverwrite
  <2> SUFFICES ASSUME NEW w \in Writers, NEW r \in Readers, Owns(w), Attached(r)
               PROVE  EndOfClaim(w) <= Front(r) + QueueSize
    BY DEF NoOverwrite
  <2>1. readOffset <= Front(r) /\ Front(r) \in Nat
    BY FrontTyping
    DEF QueueInv, BaseInv, RingInv, WatermarkInv, Attached, Present
  <2> QED BY <2>1, OwnerWindow, LayoutAssumption
<1>2. WritersDisjoint
  <2> SUFFICES ASSUME NEW v \in Writers, NEW w \in Writers, v # w,
                      Owns(v), Owns(w),
                      NEW a \in writer[v].off .. (EndOfClaim(v) - 1),
                      NEW b \in writer[w].off .. (EndOfClaim(w) - 1),
                      Rel(a) = Rel(b)
               PROVE  FALSE
    BY DEF WritersDisjoint, Bytes
  <2>1. /\ writer[w].off \in Nat
        /\ EndOfClaim(w) \in Nat
        /\ readOffset \in Nat
        /\ readOffset <= writer[w].off
        /\ EndOfClaim(w) <= readOffset + QueueSize
        /\ Active(w)
    BY OwnerWindow
  <2>2. /\ writer[v].off \in Nat
        /\ EndOfClaim(v) \in Nat
        /\ readOffset <= writer[v].off
        /\ EndOfClaim(v) <= readOffset + QueueSize
        /\ Active(v)
    BY OwnerWindow
  <2>3. Apart(writer[v].off, EndOfClaim(v), writer[w].off, EndOfClaim(w))
    BY <2>1, <2>2 DEF QueueInv, RingInv, ApartInv
  <2>4. a = b
    BY <2>1, <2>2, WindowInjective, LayoutAssumption
  <2> QED BY <2>1, <2>2, <2>3, <2>4 DEF Apart
<1>3. HeldIntact
  <2> SUFFICES ASSUME NEW r \in Readers, reader[r].pc = "holding"
               PROVE  /\ mem[Slot(r)].abs = reader[r].pos
                      /\ mem[Slot(r)].body = reader[r].pos
                      /\ mem[Slot(r)].kind = "NORMAL"
                      /\ mem[Slot(r)].flag = "READY"
    BY DEF HeldIntact
  <2>1. /\ Live(Slot(r)) /\ mem[Slot(r)].abs = reader[r].pos
        /\ mem[Slot(r)].kind = "NORMAL" /\ mem[Slot(r)].flag = "READY"
    BY DEF QueueInv, RingInv, SlotInv
  <2>2. mem[Slot(r)].body = mem[Slot(r)].abs
    BY <2>1, ReaderTyping DEF QueueInv, BaseInv, RingInv, LiveInv
  <2> QED BY <2>1, <2>2
<1>4. WatermarkExact
  <2> SUFFICES ASSUME NEW r \in Readers, reader[r].pc = "advancing"
               PROVE  readOffset + reader[r].len = reader[r].pos
    BY DEF WatermarkExact
  <2>1. Front(r) = readOffset
    BY DEF QueueInv, RingInv, LastInv, Finishing
  <2> QED BY <2>1, FrontTyping DEF QueueInv, BaseInv
<1> QED BY <1>1, <1>2, <1>3, <1>4

\* As long as nobody closes, a header's count is that of the attached readers
\* that have still to release its message.
LEMMA QueueInvCounts ==
  ASSUME QueueInv, \A r \in Readers : reader[r].until = NotClosing
  PROVE  ReaderCountExact
<1> SUFFICES ASSUME NEW p \in Positions, mem[p].flag = "READY"
    PROVE  mem[p].readers =
      Cardinality({r \in Readers : Attached(r) /\ reader[r].pos <= mem[p].abs})
  BY DEF ReaderCountExact
<1>1. {r \in Readers : Attached(r) /\ reader[r].pos <= mem[p].abs}
        = Sharers(reader, mem[p].abs)
  BY DEF Sharers, Attached
<1>2. Live(p)
  BY DEF Live
<1>3. CASE mem[p].readers = Cardinality(Sharers(reader, mem[p].abs))
  BY <1>1, <1>3
<1>4. CASE mem[p].abs = readOffset /\ \E r \in Readers : reader[r].pc = "clearing"
  <2>1. PICK c \in Readers : reader[c].pc = "clearing"
    BY <1>4
  <2>2. p = Rel(readOffset)
    BY <1>2, <1>4 DEF QueueInv, RingInv, LiveInv
  <2>3. /\ mem[p].readers = 0
        /\ LiveEnd(p) = reader[c].pos
        /\ \A q \in Readers : Present(q) => reader[c].pos <= reader[q].pos
    BY <2>1, <2>2 DEF QueueInv, RingInv, LastInv, Finishing
  <2>4. mem[p].abs < LiveEnd(p) /\ mem[p].abs \in Nat /\ LiveEnd(p) \in Nat
    BY LiveSpan DEF QueueInv, BaseInv
  <2>5. \A q \in Readers : Present(q) => ~(reader[q].pos <= mem[p].abs)
    BY <2>3, <2>4, ReaderTyping DEF QueueInv, BaseInv
  <2>6. Sharers(reader, mem[p].abs) = {}
    BY <2>5 DEF Sharers, Present
  <2> QED BY <1>1, <2>3, <2>6, FS_EmptySet
<1> QED BY <1>2, <1>3, <1>4 DEF QueueInv, RingInv, LiveInv

-----------------------------------------------------------------------------
(* The invariant is inductive: the steps of a writer *)

LEMMA QueueInit ==
  ASSUME Init, Served, BaseInv
  PROVE  QueueInv
<1>1. \A w \in Writers : writer[w].pc = "unready" /\ ~Active(w) /\ ~Owns(w)
  BY DEF Init, Served, Active, Owns
<1>2. \A p \in Positions : ~Live(p) /\ mem[p].flag # "ABORTED"
  BY DEF Init, BlankHeader, Live
<1>3. \A r \in Readers : /\ reader[r].pc = "out" /\ reader[r].pos = 0
                         /\ reader[r].until = NotClosing
                         /\ ~Present(r) /\ ~Finishing(r)
  BY DEF Init, Present, Finishing
<1>4. SharedInv
  BY <1>2, <1>3 DEF SharedInv
<1>5. WatermarkInv
  BY <1>1, <1>3 DEF Init, WatermarkInv, NotClosing
<1>6. SlotInv /\ LastInv
  BY <1>3 DEF SlotInv, LastInv
<1>7. ClaimInv /\ HeaderInv
  BY <1>1 DEF ClaimInv, HeaderInv
<1>8. LiveInv
  BY <1>2 DEF LiveInv
<1>9. ApartInv
  BY <1>1, <1>2 DEF ApartInv
<1> QED BY <1>4, <1>5, <1>6, <1>7, <1>8, <1>9 DEF QueueInv, RingInv

\* A step that only changes a writer's control state keeps its claim.
LEMMA SameClaims ==
  ASSUME TypeOK, NEW w \in Writers, NEW pc \in WriterStates, GoWriter(w, pc)
  PROVE  /\ writer'[w].pc = pc
         /\ \A v \in Writers :
              /\ writer'[v].off = writer[v].off
              /\ writer'[v].size = writer[v].size
              /\ writer'[v].readers = writer[v].readers
              /\ EndOfClaim(v)' = EndOfClaim(v)
              /\ HeaderOf(v)' = HeaderOf(v)
              /\ v # w => /\ writer'[v].pc = writer[v].pc
                          /\ Active(v)' <=> Active(v)
                          /\ Owns(v)' <=> Owns(v)
BY GoWriterTyping DEF EndOfClaim, HeaderOf, Active, Owns

\* What a writer does leaves the readers and the messages as they are: it
\* changes no header that is live.
LEMMA ReadersUndisturbed ==
  ASSUME QueueInv, UNCHANGED <<reader, readOffset>>,
         writeOffset' \in Nat, writeOffset <= writeOffset',
         \E r \in Readers : Present(r),
         \A p \in Positions : Live(p) => mem'[p] = mem[p],
         ~OneReader => \A p \in Positions : mem'[p].flag # "ABORTED"
  PROVE  SharedInv' /\ WatermarkInv' /\ SlotInv' /\ LastInv'
<1>1. \A r \in Readers : /\ Present(r)' <=> Present(r)
                         /\ Finishing(r)' <=> Finishing(r)
                         /\ Front(r)' = Front(r)
                         /\ Slot(r)' = Slot(r)
                         /\ Slot(r) \in Positions
                         /\ reader[r].pos \in Nat
                         /\ reader[r].until \in Nat \cup {NotClosing}
  BY ReaderTyping DEF Present, Finishing, Front, Slot, QueueInv, BaseInv
<1>2. SharedInv'
  BY DEF QueueInv, RingInv, SharedInv, OneReader
<1>3. WatermarkInv'
  <2>1. writeOffset \in Nat
    BY DEF QueueInv, BaseInv, TypeOK
  <2>2. \A r \in Readers : /\ reader'[r].pos <= writeOffset'
                           /\ reader'[r].until <= writeOffset'
    BY <1>1, <2>1 DEF QueueInv, RingInv, WatermarkInv, NotClosing
  <2> QED BY <1>1, <2>2 DEF QueueInv, RingInv, WatermarkInv
<1>4. SlotInv'
  <2> SUFFICES ASSUME NEW r \in Readers
      PROVE
      /\ reader[r].pc = "loaded" =>
           Live(Slot(r))' /\ reader[r].flag = mem'[Slot(r)].flag
      /\ reader[r].pc \in {"holding", "releasing"} =>
           Live(Slot(r))' /\ mem'[Slot(r)].abs = reader[r].pos
      /\ reader[r].pc = "holding" =>
           mem'[Slot(r)].kind = "NORMAL" /\ mem'[Slot(r)].flag = "READY"
    BY <1>1 DEF SlotInv
  <2>1. Live(Slot(r)) => /\ mem'[Slot(r)] = mem[Slot(r)]
                         /\ Live(Slot(r))'
    BY <1>1 DEF Live
  <2> QED BY <2>1 DEF QueueInv, RingInv, SlotInv
<1>5. LastInv'
  <2>1. PICK p \in Positions : p = Rel(readOffset) /\ p = Rel(readOffset')
    BY RelTyping DEF QueueInv, BaseInv, TypeOK, Positions
  <2>2. Live(p) => mem'[p] = mem[p] /\ Live(p)' /\ LiveEnd(p)' = LiveEnd(p)
    BY DEF Live, LiveEnd
  <2>3. ASSUME NEW r \in Readers, reader[r].pc = "clearing"
        PROVE  /\ Live(p)' /\ mem'[p].abs = readOffset
               /\ LiveEnd(p)' = reader[r].pos
               /\ reader[r].until = NotClosing => mem'[p].readers = 0
    BY <2>1, <2>2, <2>3 DEF QueueInv, RingInv, LastInv
  <2>4. \A r \in Readers : reader'[r].pc = "clearing" =>
           /\ Live(Rel(readOffset))' /\ mem'[Rel(readOffset')].abs = readOffset'
           /\ LiveEnd(Rel(readOffset))' = reader'[r].pos
           /\ reader'[r].until = NotClosing => mem'[Rel(readOffset')].readers = 0
    BY <2>1, <2>3 DEF Live, LiveEnd
  <2> QED BY <1>1, <2>4 DEF QueueInv, RingInv, LastInv
<1> QED BY <1>2, <1>3, <1>4, <1>5

\* As long as no header becomes live, every message stays as it is.
LEMMA MessagesUndisturbed ==
  ASSUME QueueInv, UNCHANGED <<reader, readOffset>>,
         writeOffset' \in Nat, writeOffset <= writeOffset',
         \A p \in Positions : Live(p)' <=> Live(p),
         \A p \in Positions : Live(p) => mem'[p] = mem[p]
  PROVE  /\ LiveInv'
         /\ \A p \in Positions : Live(p) => LiveEnd(p)' = LiveEnd(p)
<1>1. \A p \in Positions : Live(p) => LiveEnd(p)' = LiveEnd(p)
  BY DEF LiveEnd
<1>2. \A p \in Positions : LiveEnd(p) \in Nat
  BY LiveSpan DEF QueueInv, BaseInv
<1>3. writeOffset \in Nat
  BY DEF QueueInv, BaseInv, TypeOK
<1>4. LiveInv'
  <2> SUFFICES ASSUME NEW p \in Positions, Live(p)
      PROVE
      /\ Rel(mem[p].abs) = p
      /\ readOffset <= mem[p].abs
      /\ LiveEnd(p) <= writeOffset'
      /\ LiveEnd(p) <= readOffset + QueueSize
      /\ mem[p].kind = "NORMAL" /\ mem[p].flag = "READY" =>
           mem[p].body = mem[p].abs
      /\ \A r \in Readers : \/ reader[r].pos <= mem[p].abs
                            \/ LiveEnd(p) <= reader[r].pos
      /\ \/ /\ Awaited(mem[p].abs)
            /\ mem[p].readers = Cardinality(Sharers(reader, mem[p].abs))
         \/ /\ mem[p].abs = readOffset
            /\ \E r \in Readers : reader[r].pc = "clearing"
    BY <1>1 DEF LiveInv, Awaited, Present
  <2> QED BY <1>2, <1>3 DEF QueueInv, RingInv, LiveInv
<1> QED BY <1>1, <1>4

\* CheckReady, Grant and DropWrapper change only the control state.
LEMMA ControlStep ==
  ASSUME QueueInv, NEW w \in Writers, NEW pc \in {"idle", "granted", "skipping"},
         GoWriter(w, pc),
         \E r \in Readers : Present(r),
         pc # "idle" =>
           /\ writer[w].pc = "waiting"
           /\ EndOfClaim(w) <= readOffset + QueueSize
           /\ pc = "granted" <=> Fits(writer[w].off, Total(writer[w].size)),
         UNCHANGED <<writeOffset, readOffset, mem, reader>>
  PROVE  RingInv'
<1>1. pc \in WriterStates /\ writeOffset \in Nat
  BY DEF WriterStates, QueueInv, BaseInv, TypeOK
<1>2. SharedInv' /\ WatermarkInv' /\ SlotInv' /\ LastInv'
  BY <1>1, ReadersUndisturbed DEF QueueInv, RingInv, SharedInv
<1>3. LiveInv' /\ \A p \in Positions : (Live(p)' <=> Live(p))
                                       /\ LiveEnd(p)' = LiveEnd(p)
  BY <1>1, MessagesUndisturbed DEF Live, LiveEnd
<1>4. /\ writer'[w].pc = pc
      /\ \A v \in Writers : Active(v)' => Active(v)
      /\ \A v \in Writers : v # w => (Owns(v)' <=> Owns(v))
      /\ Owns(w)' => pc # "idle"
  BY <1>1, SameClaims DEF QueueInv, BaseInv, Active, Owns
<1>5. ClaimInv'
  <2> SUFFICES ASSUME NEW v \in Writers
      PROVE
      /\ Active(v)' =>
         /\ writer'[v].readers = Cardinality(Sharers(reader, writer'[v].off))
         /\ EndOfClaim(v)' <= writeOffset
         /\ \E r \in Readers : Present(r) /\ reader[r].pos <= writer'[v].off
         /\ \A r \in Readers : \/ reader[r].pos <= writer'[v].off
                               \/ EndOfClaim(v)' <= reader[r].pos
      /\ Owns(v)' => EndOfClaim(v)' <= readOffset + QueueSize
      /\ writer'[v].pc \in {"granted", "filling", "written"} =>
           Fits(writer'[v].off, Total(writer'[v].size))
      /\ writer'[v].pc \in {"skipping", "padded"} =>
           ~Fits(writer'[v].off, Total(writer'[v].size))
    BY DEF ClaimInv, Awaited, Present
  <2>1. /\ writer'[v].off = writer[v].off /\ writer'[v].size = writer[v].size
        /\ writer'[v].readers = writer[v].readers
        /\ EndOfClaim(v)' = EndOfClaim(v)
        /\ v # w => writer'[v].pc = writer[v].pc
    BY <1>1, SameClaims DEF QueueInv, BaseInv
  <2>2. CASE v = w
    BY <1>4, <2>1, <2>2 DEF QueueInv, RingInv, ClaimInv, Awaited
  <2>3. CASE v # w
    BY <1>4, <2>1, <2>3 DEF QueueInv, RingInv, ClaimInv, Awaited
  <2> QED BY <2>2, <2>3
<1>6. ApartInv'
  BY <1>1, <1>3, <1>4, SameClaims DEF QueueInv, BaseInv, RingInv, ApartInv
<1>7. HeaderInv'
  BY <1>1, <1>4, SameClaims DEF QueueInv, BaseInv, RingInv, HeaderInv
<1> QED BY <1>2, <1>3, <1>5, <1>6, <1>7 DEF RingInv

LEMMA CheckReadyStep ==
  ASSUME QueueInv, Served, NEW w \in Writers, CheckReady(w)
  PROVE  RingInv'
<1>1. \E r \in Readers : Present(r)
  <2> SUFFICES ASSUME \A r \in Readers : ~Attached(r) PROVE FALSE
    BY DEF Attached, Present
  <2>1. {r \in Readers : Attached(r)} = {}
    OBVIOUS
  <2> QED BY <2>1, FS_EmptySet DEF CheckReady, QueueInv, BaseInv, ReadersCounted
<1> QED BY <1>1, ControlStep DEF CheckReady

LEMMA GrantStep ==
  ASSUME QueueInv, NEW w \in Writers, Grant(w)
  PROVE  RingInv'
<1>1. writer[w].pc = "waiting" /\ EndOfClaim(w) - readOffset \in 0 .. QueueSize
  BY DEF Grant, HasRoom
<1>2. EndOfClaim(w) <= readOffset + QueueSize
  <2>1. EndOfClaim(w) \in Nat /\ readOffset \in Nat
    BY <1>1, ClaimSpan DEF QueueInv, BaseInv, TypeOK
  <2> QED BY <1>1, <2>1, LayoutAssumption
<1>3. \E r \in Readers : Present(r)
  BY <1>1, SomebodyPresent
<1> QED BY <1>1, <1>2, <1>3, ControlStep DEF Grant

LEMMA DropStep ==
  ASSUME QueueInv, NEW w \in Writers, DropWrapper(w)
  PROVE  RingInv'
<1>1. \E r \in Readers : Present(r)
  BY SomebodyPresent DEF DropWrapper
<1> QED BY <1>1, ControlStep DEF DropWrapper

\* The compare-and-swap: the new claim starts where every other one ends, and
\* counts the readers that are attached.
LEMMA ReserveStep ==
  ASSUME QueueInv, NEW w \in Writers, NEW size \in Sizes,
         writer[w].pc \in {"idle", "claiming"}, Reserve(w, size),
         UNCHANGED <<readOffset, mem, reader>>
  PROVE  RingInv'
<1>1. /\ writeOffset \in Nat /\ writeOffset' \in Nat
      /\ writeOffset < writeOffset'
  BY ReserveShape DEF QueueInv, BaseInv, TypeOK
<1>2. /\ writer'[w].pc = "waiting"
      /\ writer'[w].off = writeOffset
      /\ writer'[w].readers = nReaders
      /\ EndOfClaim(w)' = writeOffset'
  BY DEF Reserve, EndOfClaim, QueueInv, BaseInv, TypeOK
<1>3. \A v \in Writers : v # w =>
        /\ writer'[v] = writer[v]
        /\ EndOfClaim(v)' = EndOfClaim(v)
        /\ HeaderOf(v)' = HeaderOf(v)
        /\ Active(v)' <=> Active(v)
        /\ Owns(v)' <=> Owns(v)
  BY DEF Reserve, EndOfClaim, HeaderOf, Active, Owns, QueueInv, BaseInv, TypeOK
<1>4. ~Active(w) /\ Active(w)' /\ ~Owns(w)'
  BY <1>2 DEF Active, Owns
<1>5. PICK f \in Readers : Present(f)
  BY SomebodyPresent
<1>6. \A r \in Readers : /\ reader[r].pos <= writeOffset
                         /\ reader[r].until <= writeOffset
                         /\ reader[r].pos \in Nat
                         /\ reader[r].until \in Nat \cup {NotClosing}
  BY ReaderTyping DEF QueueInv, BaseInv, RingInv, WatermarkInv
<1>7. nReaders = Cardinality(Sharers(reader, writeOffset))
  <2>1. {r \in Readers : Attached(r)} = Sharers(reader, writeOffset)
    BY <1>1, <1>6 DEF Sharers, Attached, NotClosing
  <2> QED BY <2>1 DEF QueueInv, BaseInv, ReadersCounted
<1>8. SharedInv' /\ WatermarkInv' /\ SlotInv' /\ LastInv'
  BY <1>1, <1>5, ReadersUndisturbed DEF QueueInv, RingInv, SharedInv
<1>9. /\ LiveInv'
      /\ \A p \in Positions : (Live(p)' <=> Live(p)) /\ LiveEnd(p)' = LiveEnd(p)
  BY <1>1, MessagesUndisturbed DEF Live, LiveEnd
<1>10. \A v \in Writers : Active(v) => EndOfClaim(v) \in Nat
  BY ClaimSpan DEF QueueInv, BaseInv, Active, Owns
<1>11. ClaimInv'
  <2> SUFFICES ASSUME NEW v \in Writers
      PROVE
      /\ Active(v)' =>
         /\ writer'[v].readers = Cardinality(Sharers(reader, writer'[v].off))
         /\ EndOfClaim(v)' <= writeOffset'
         /\ \E r \in Readers : Present(r) /\ reader[r].pos <= writer'[v].off
         /\ \A r \in Readers : \/ reader[r].pos <= writer'[v].off
                               \/ EndOfClaim(v)' <= reader[r].pos
      /\ Owns(v)' => EndOfClaim(v)' <= readOffset + QueueSize
      /\ writer'[v].pc \in {"granted", "filling", "written"} =>
           Fits(writer'[v].off, Total(writer'[v].size))
      /\ writer'[v].pc \in {"skipping", "padded"} =>
           ~Fits(writer'[v].off, Total(writer'[v].size))
    BY DEF ClaimInv, Awaited, Present
  <2>1. CASE v = w
    BY <1>1, <1>2, <1>4, <1>5, <1>6, <1>7, <2>1
  <2>2. CASE v # w
    BY <1>1, <1>3, <1>10, <2>2 DEF QueueInv, RingInv, ClaimInv, Awaited
  <2> QED BY <2>1, <2>2
<1>12. ApartInv'
  <2>1. \A v \in Writers : v # w /\ Active(v) => EndOfClaim(v) <= writeOffset
    BY DEF QueueInv, RingInv, ClaimInv
  <2>2. \A p \in Positions : Live(p) => LiveEnd(p) <= writeOffset
    BY DEF QueueInv, RingInv, LiveInv
  <2>3. \A u, v \in Writers : u # v /\ Active(u)' /\ Active(v)' =>
          Apart(writer'[u].off, EndOfClaim(u)', writer'[v].off, EndOfClaim(v)')
    BY <1>2, <1>3, <2>1 DEF QueueInv, RingInv, ApartInv, Apart
  <2>4. \A v \in Writers, p \in Positions : Active(v)' /\ Live(p) =>
          Apart(writer'[v].off, EndOfClaim(v)', mem[p].abs, LiveEnd(p))
    BY <1>2, <1>3, <2>2 DEF QueueInv, RingInv, ApartInv, Apart
  <2> QED BY <1>9, <2>3, <2>4 DEF QueueInv, RingInv, ApartInv
<1>13. HeaderInv'
  BY <1>2, <1>3 DEF QueueInv, RingInv, HeaderInv
<1> QED BY <1>8, <1>9, <1>11, <1>12, <1>13 DEF RingInv

\* A store in the header of a writer's own claim, short of the commit flag,
\* touches nothing that is committed and no other claim.
LEMMA StoreStep ==
  ASSUME QueueInv, NEW w \in Writers, Owns(w),
         NEW pc \in {"padded", "filling", "written"}, GoWriter(w, pc),
         \A p \in Positions : p # HeaderOf(w) => mem'[p] = mem[p],
         mem'[HeaderOf(w)].flag = mem[HeaderOf(w)].flag,
         mem'[HeaderOf(w)].abs = writer[w].off,
         mem'[HeaderOf(w)].readers = writer[w].readers,
         mem'[HeaderOf(w)].abs + Total(mem'[HeaderOf(w)].size) = EndOfClaim(w),
         pc = "padded" => /\ mem'[HeaderOf(w)].kind = "PADDING"
                          /\ ~Fits(writer[w].off, Total(writer[w].size)),
         pc # "padded" => /\ mem'[HeaderOf(w)].kind = "NORMAL"
                          /\ Fits(writer[w].off, Total(writer[w].size)),
         pc = "written" => mem'[HeaderOf(w)].body = writer[w].off,
         UNCHANGED <<writeOffset, readOffset, reader>>
  PROVE  RingInv'
<1>1. pc \in WriterStates /\ writeOffset \in Nat
  BY DEF WriterStates, QueueInv, BaseInv, TypeOK
<1>2. ~Live(HeaderOf(w)) /\ HeaderOf(w) \in Positions
  BY OwnerSlotFree
<1>3. \A p \in Positions : /\ Live(p)' <=> Live(p)
                           /\ Live(p) => mem'[p] = mem[p]
                           /\ mem'[p].flag = mem[p].flag
  BY <1>2 DEF Live
<1>4. \E r \in Readers : Present(r)
  BY SomebodyPresent DEF Owns
<1>5. SharedInv' /\ WatermarkInv' /\ SlotInv' /\ LastInv'
  BY <1>1, <1>3, <1>4, ReadersUndisturbed DEF QueueInv, RingInv, SharedInv
<1>6. LiveInv' /\ \A p \in Positions : Live(p) => LiveEnd(p)' = LiveEnd(p)
  BY <1>1, <1>3, MessagesUndisturbed
<1>7. /\ writer'[w].pc = pc
      /\ \A v \in Writers : (Active(v)' <=> Active(v)) /\ (Owns(v)' <=> Owns(v))
  BY <1>1, SameClaims DEF QueueInv, BaseInv, Active, Owns
<1>8. ClaimInv'
  <2> SUFFICES ASSUME NEW v \in Writers
      PROVE
      /\ Active(v)' =>
         /\ writer'[v].readers = Cardinality(Sharers(reader, writer'[v].off))
         /\ EndOfClaim(v)' <= writeOffset
         /\ \E r \in Readers : Present(r) /\ reader[r].pos <= writer'[v].off
         /\ \A r \in Readers : \/ reader[r].pos <= writer'[v].off
                               \/ EndOfClaim(v)' <= reader[r].pos
      /\ Owns(v)' => EndOfClaim(v)' <= readOffset + QueueSize
      /\ writer'[v].pc \in {"granted", "filling", "written"} =>
           Fits(writer'[v].off, Total(writer'[v].size))
      /\ writer'[v].pc \in {"skipping", "padded"} =>
           ~Fits(writer'[v].off, Total(writer'[v].size))
    BY DEF ClaimInv, Awaited, Present
  <2>1. /\ writer'[v].off = writer[v].off /\ writer'[v].size = writer[v].size
        /\ writer'[v].readers = writer[v].readers
        /\ EndOfClaim(v)' = EndOfClaim(v)
        /\ v # w => writer'[v].pc = writer[v].pc
    BY <1>1, SameClaims DEF QueueInv, BaseInv
  <2> QED BY <1>7, <2>1 DEF QueueInv, RingInv, ClaimInv, Awaited
<1>9. ApartInv'
  BY <1>1, <1>3, <1>6, <1>7, SameClaims DEF QueueInv, BaseInv, RingInv, ApartInv
<1>10. HeaderInv'
  <2> SUFFICES ASSUME NEW v \in Writers
      PROVE
      /\ writer'[v].pc \in {"padded", "filling", "written"} =>
           /\ mem'[HeaderOf(v)].abs = writer[v].off
           /\ mem'[HeaderOf(v)].readers = writer[v].readers
           /\ mem'[HeaderOf(v)].abs + Total(mem'[HeaderOf(v)].size)
                = EndOfClaim(v)
      /\ writer'[v].pc = "padded" => mem'[HeaderOf(v)].kind = "PADDING"
      /\ writer'[v].pc \in {"filling", "written"} =>
           mem'[HeaderOf(v)].kind = "NORMAL"
      /\ writer'[v].pc = "written" => mem'[HeaderOf(v)].body = writer[v].off
    BY <1>1, SameClaims DEF HeaderInv, QueueInv, BaseInv
  <2>1. CASE v = w
    BY <1>7, <2>1
  <2>2. CASE v # w
    <3>1. writer'[v].pc = writer[v].pc
      BY <1>1, <2>2, SameClaims DEF QueueInv, BaseInv
    <3>2. Owns(v) => mem'[HeaderOf(v)] = mem[HeaderOf(v)]
      BY <2>2, OwnersHeadersDiffer, PositionTyping DEF QueueInv, BaseInv
    <3> QED BY <3>1, <3>2 DEF QueueInv, RingInv, HeaderInv, Owns
  <2> QED BY <2>1, <2>2
<1> QED BY <1>5, <1>6, <1>8, <1>9, <1>10 DEF RingInv

LEMMA InsertSkipStep ==
  ASSUME QueueInv, NEW w \in Writers, InsertSkip(w)
  PROVE  RingInv'
<1> DEFINE p == HeaderOf(w)
<1>1. /\ writer[w].pc = "skipping" /\ Owns(w) /\ GoWriter(w, "padded")
      /\ UNCHANGED <<writeOffset, readOffset, reader>>
  BY DEF InsertSkip, Owns
<1>2. p \in Positions /\ mem[p] \in Headers
  BY PositionTyping DEF QueueInv, BaseInv, TypeOK
<1>3. /\ \A q \in Positions : q # p => mem'[q] = mem[q]
      /\ mem'[p].flag = mem[p].flag
      /\ mem'[p].abs = writer[w].off
      /\ mem'[p].size = PaddingSize(writer[w].off)
      /\ mem'[p].kind = "PADDING"
      /\ mem'[p].readers = writer[w].readers
  BY <1>2 DEF InsertSkip, HeaderCount, QueueInv, BaseInv, TypeOK, Headers
<1> HIDE DEF p
<1>4. ~Fits(writer[w].off, Total(writer[w].size))
  BY <1>1 DEF QueueInv, RingInv, ClaimInv
<1>5. mem'[p].abs + Total(mem'[p].size) = EndOfClaim(w)
  <2>0. writer[w].off \in Nat
    BY DEF QueueInv, BaseInv, TypeOK, WriterRecords
  <2>1. Rel(writer[w].off) \in Int
    BY <2>0, RelTyping
  <2>2. EndOfClaim(w) = writer[w].off + Remaining(writer[w].off)
    BY <1>4 DEF EndOfClaim, Bump
  <2>3. Total(PaddingSize(writer[w].off)) = Remaining(writer[w].off)
    BY <2>1, LayoutAssumption DEF Total, PaddingSize, Remaining
  <2> QED BY <1>3, <2>2, <2>3
<1> QED BY <1>1, <1>3, <1>4, <1>5, StoreStep DEF p

LEMMA WriteHeaderStep ==
  ASSUME QueueInv, NEW w \in Writers, WriteHeader(w)
  PROVE  RingInv'
<1> DEFINE p == HeaderOf(w)
<1>1. /\ writer[w].pc = "granted" /\ Owns(w) /\ GoWriter(w, "filling")
      /\ UNCHANGED <<writeOffset, readOffset, reader>>
  BY DEF WriteHeader, Owns
<1>2. p \in Positions /\ mem[p] \in Headers
  BY PositionTyping DEF QueueInv, BaseInv, TypeOK
<1>3. /\ \A q \in Positions : q # p => mem'[q] = mem[q]
      /\ mem'[p].flag = mem[p].flag
      /\ mem'[p].abs = writer[w].off
      /\ mem'[p].size = writer[w].size
      /\ mem'[p].kind = "NORMAL"
      /\ mem'[p].readers = writer[w].readers
  BY <1>2 DEF WriteHeader, HeaderCount, QueueInv, BaseInv, TypeOK, Headers
<1> HIDE DEF p
<1>4. Fits(writer[w].off, Total(writer[w].size))
  BY <1>1 DEF QueueInv, RingInv, ClaimInv
<1>5. mem'[p].abs + Total(mem'[p].size) = EndOfClaim(w)
  BY <1>3, <1>4 DEF EndOfClaim, Bump
<1> QED BY <1>1, <1>3, <1>4, <1>5, StoreStep DEF p

LEMMA WritePayloadStep ==
  ASSUME QueueInv, NEW w \in Writers, WritePayload(w)
  PROVE  RingInv'
<1> DEFINE p == HeaderOf(w)
<1>1. /\ writer[w].pc = "filling" /\ Owns(w) /\ GoWriter(w, "written")
      /\ UNCHANGED <<writeOffset, readOffset, reader>>
  BY DEF WritePayload, Owns
<1>2. p \in Positions /\ mem[p] \in Headers
  BY PositionTyping DEF QueueInv, BaseInv, TypeOK
<1>3. /\ \A q \in Positions : q # p => mem'[q] = mem[q]
      /\ mem'[p].flag = mem[p].flag
      /\ mem'[p].abs = mem[p].abs
      /\ mem'[p].size = mem[p].size
      /\ mem'[p].kind = mem[p].kind
      /\ mem'[p].readers = mem[p].readers
      /\ mem'[p].body = writer[w].off
  BY <1>2 DEF WritePayload, QueueInv, BaseInv, TypeOK, Headers
<1>4. /\ mem[p].abs = writer[w].off
      /\ mem[p].readers = writer[w].readers
      /\ mem[p].abs + Total(mem[p].size) = EndOfClaim(w)
      /\ mem[p].kind = "NORMAL"
      /\ Fits(writer[w].off, Total(writer[w].size))
  BY <1>1 DEF QueueInv, RingInv, HeaderInv, ClaimInv
<1> HIDE DEF p
<1> QED BY <1>1, <1>3, <1>4, StoreStep DEF p

\* The store of the commit flag turns the claim into a message.
LEMMA FlagStep ==
  ASSUME QueueInv, NEW w \in Writers,
         writer[w].pc \in {"padded", "filling", "written"},
         NEW pc \in {"idle", "claiming"}, GoWriter(w, pc),
         \A q \in Positions : q # HeaderOf(w) => mem'[q] = mem[q],
         mem'[HeaderOf(w)].flag # "NOT_READY",
         mem'[HeaderOf(w)].flag = "ABORTED" => OneReader,
         mem'[HeaderOf(w)].abs = mem[HeaderOf(w)].abs,
         mem'[HeaderOf(w)].size = mem[HeaderOf(w)].size,
         mem'[HeaderOf(w)].kind = mem[HeaderOf(w)].kind,
         mem'[HeaderOf(w)].readers = mem[HeaderOf(w)].readers,
         mem[HeaderOf(w)].kind = "NORMAL" /\ mem'[HeaderOf(w)].flag = "READY" =>
           mem'[HeaderOf(w)].body = writer[w].off,
         UNCHANGED <<writeOffset, readOffset, reader>>
  PROVE  RingInv'
<1>0. PICK p \in Positions : p = HeaderOf(w)
  BY PositionTyping DEF QueueInv, BaseInv
<1>1. pc \in WriterStates /\ Owns(w) /\ Active(w) /\ writeOffset \in Nat
  BY DEF WriterStates, Owns, Active, QueueInv, BaseInv, TypeOK
<1>2. ~Live(p)
  BY <1>0, <1>1, OwnerSlotFree
<1>3. /\ mem'[p].abs = writer[w].off
      /\ mem'[p].readers = writer[w].readers
      /\ mem'[p].abs + Total(mem'[p].size) = EndOfClaim(w)
  BY <1>0 DEF QueueInv, RingInv, HeaderInv
<1>4. Rel(writer[w].off) = p
  BY <1>0 DEF HeaderOf
<1>5. /\ readOffset <= writer[w].off
      /\ EndOfClaim(w) <= readOffset + QueueSize
  BY <1>1, OwnerWindow
<1>6. /\ writer[w].readers = Cardinality(Sharers(reader, writer[w].off))
      /\ EndOfClaim(w) <= writeOffset
      /\ Awaited(writer[w].off)
      /\ \A r \in Readers : \/ reader[r].pos <= writer[w].off
                            \/ EndOfClaim(w) <= reader[r].pos
  BY <1>1 DEF QueueInv, RingInv, ClaimInv
<1>7. ~Active(w)' /\ ~Owns(w)' /\ writer'[w].pc = pc
  BY <1>1, SameClaims DEF Active, Owns, QueueInv, BaseInv
<1>8. /\ Live(p)' /\ LiveEnd(p)' = EndOfClaim(w)
      /\ \A q \in Positions : q # p => /\ Live(q)' <=> Live(q)
                                       /\ LiveEnd(q)' = LiveEnd(q)
                                       /\ mem'[q] = mem[q]
  BY <1>0, <1>3 DEF Live, LiveEnd
<1>9. SharedInv' /\ WatermarkInv' /\ SlotInv' /\ LastInv'
  <2>1. \E r \in Readers : Present(r)
    BY SomebodyPresent
  <2>2. ~OneReader => \A q \in Positions : mem'[q].flag # "ABORTED"
    BY <1>0, <1>8 DEF QueueInv, RingInv, SharedInv
  <2> QED BY <1>1, <1>2, <1>8, <2>1, <2>2, ReadersUndisturbed
<1>10. ClaimInv'
  <2> SUFFICES ASSUME NEW v \in Writers
      PROVE
      /\ Active(v)' =>
         /\ writer'[v].readers = Cardinality(Sharers(reader, writer'[v].off))
         /\ EndOfClaim(v)' <= writeOffset
         /\ \E r \in Readers : Present(r) /\ reader[r].pos <= writer'[v].off
         /\ \A r \in Readers : \/ reader[r].pos <= writer'[v].off
                               \/ EndOfClaim(v)' <= reader[r].pos
      /\ Owns(v)' => EndOfClaim(v)' <= readOffset + QueueSize
      /\ writer'[v].pc \in {"granted", "filling", "written"} =>
           Fits(writer'[v].off, Total(writer'[v].size))
      /\ writer'[v].pc \in {"skipping", "padded"} =>
           ~Fits(writer'[v].off, Total(writer'[v].size))
    BY DEF ClaimInv, Awaited, Present
  <2>1. /\ writer'[v].off = writer[v].off /\ writer'[v].size = writer[v].size
        /\ writer'[v].readers = writer[v].readers
        /\ EndOfClaim(v)' = EndOfClaim(v)
        /\ v # w => /\ writer'[v].pc = writer[v].pc
                    /\ Active(v)' <=> Active(v)
                    /\ Owns(v)' <=> Owns(v)
    BY <1>1, SameClaims DEF QueueInv, BaseInv
  <2> QED BY <1>7, <2>1 DEF QueueInv, RingInv, ClaimInv, Awaited
<1>11. LiveInv'
  <2> SUFFICES ASSUME NEW q \in Positions, Live(q)'
      PROVE
      /\ Rel(mem'[q].abs) = q
      /\ readOffset <= mem'[q].abs
      /\ LiveEnd(q)' <= writeOffset
      /\ LiveEnd(q)' <= readOffset + QueueSize
      /\ mem'[q].kind = "NORMAL" /\ mem'[q].flag = "READY" =>
           mem'[q].body = mem'[q].abs
      /\ \A r \in Readers : \/ reader[r].pos <= mem'[q].abs
                            \/ LiveEnd(q)' <= reader[r].pos
      /\ \/ /\ \E r \in Readers : Present(r) /\ reader[r].pos <= mem'[q].abs
            /\ mem'[q].readers = Cardinality(Sharers(reader, mem'[q].abs))
         \/ /\ mem'[q].abs = readOffset
            /\ \E r \in Readers : reader[r].pc = "clearing"
    BY DEF LiveInv, Awaited, Present
  <2>1. CASE q = p
    <3>1. mem'[p].kind = "NORMAL" /\ mem'[p].flag = "READY" =>
            mem'[p].body = mem'[p].abs
      BY <1>0, <1>3
    <3> QED BY <1>3, <1>4, <1>5, <1>6, <1>8, <2>1, <3>1 DEF Awaited
  <2>2. CASE q # p
    BY <1>8, <2>2 DEF QueueInv, RingInv, LiveInv, Awaited
  <2> QED BY <2>1, <2>2
<1>12. ApartInv'
  <2>1. \A u, v \in Writers : u # v /\ Active(u)' /\ Active(v)' =>
          Apart(writer'[u].off, EndOfClaim(u)', writer'[v].off, EndOfClaim(v)')
    BY <1>1, <1>7, SameClaims DEF QueueInv, BaseInv, RingInv, ApartInv
  <2>2. \A v \in Writers, q \in Positions : Active(v)' /\ Live(q)' =>
          Apart(writer'[v].off, EndOfClaim(v)', mem'[q].abs, LiveEnd(q)')
    <3> SUFFICES ASSUME NEW v \in Writers, NEW q \in Positions,
                        Active(v)', Live(q)'
        PROVE Apart(writer'[v].off, EndOfClaim(v)', mem'[q].abs, LiveEnd(q)')
      OBVIOUS
    <3>1. v # w /\ Active(v) /\ writer'[v].off = writer[v].off
          /\ EndOfClaim(v)' = EndOfClaim(v)
      BY <1>1, <1>7, SameClaims DEF QueueInv, BaseInv
    <3>2. CASE q = p
      BY <1>1, <1>3, <1>8, <3>1, <3>2 DEF QueueInv, RingInv, ApartInv
    <3>3. CASE q # p
      BY <1>8, <3>1, <3>3 DEF QueueInv, RingInv, ApartInv
    <3> QED BY <3>2, <3>3
  <2>3. \A q \in Positions : q # p /\ Live(q)' =>
          Apart(mem'[p].abs, LiveEnd(p)', mem'[q].abs, LiveEnd(q)')
    BY <1>1, <1>3, <1>8 DEF QueueInv, RingInv, ApartInv
  <2>4. \A q, o \in Positions : q # o /\ Live(q)' /\ Live(o)' =>
          Apart(mem'[q].abs, LiveEnd(q)', mem'[o].abs, LiveEnd(o)')
    BY <1>8, <2>3 DEF QueueInv, RingInv, ApartInv, Apart
  <2> QED BY <2>1, <2>2, <2>4 DEF ApartInv
<1>13. HeaderInv'
  <2>1. \A v \in Writers : v # w /\ Owns(v) =>
          mem'[HeaderOf(v)] = mem[HeaderOf(v)]
    BY <1>1, OwnersHeadersDiffer, PositionTyping DEF QueueInv, BaseInv
  <2> QED BY <1>1, <1>7, <2>1, SameClaims
      DEF QueueInv, BaseInv, RingInv, HeaderInv, Owns
<1> QED BY <1>9, <1>10, <1>11, <1>12, <1>13 DEF RingInv

LEMMA CommitStep ==
  ASSUME QueueInv, NEW w \in Writers, CommitSkip(w) \/ CommitBuffer(w)
  PROVE  RingInv'
<1>1. HeaderOf(w) \in Positions /\ mem[HeaderOf(w)] \in Headers
  BY PositionTyping DEF QueueInv, BaseInv, TypeOK
<1>2. /\ \A q \in Positions : q # HeaderOf(w) => mem'[q] = mem[q]
      /\ mem'[HeaderOf(w)].flag = "READY"
      /\ mem'[HeaderOf(w)].abs = mem[HeaderOf(w)].abs
      /\ mem'[HeaderOf(w)].size = mem[HeaderOf(w)].size
      /\ mem'[HeaderOf(w)].kind = mem[HeaderOf(w)].kind
      /\ mem'[HeaderOf(w)].readers = mem[HeaderOf(w)].readers
      /\ mem'[HeaderOf(w)].body = mem[HeaderOf(w)].body
  BY <1>1 DEF CommitSkip, CommitBuffer, QueueInv, BaseInv, TypeOK, Headers
<1>3. /\ writer[w].pc = "padded" => mem[HeaderOf(w)].kind = "PADDING"
      /\ writer[w].pc = "written" => mem[HeaderOf(w)].body = writer[w].off
  BY DEF QueueInv, RingInv, HeaderInv
<1>4. CASE CommitSkip(w)
  BY <1>2, <1>3, <1>4, FlagStep DEF CommitSkip
<1>5. CASE CommitBuffer(w)
  BY <1>2, <1>3, <1>5, FlagStep DEF CommitBuffer
<1> QED BY <1>4, <1>5

LEMMA AbortStep ==
  ASSUME QueueInv, OneReader, NEW w \in Writers, AbortBuffer(w)
  PROVE  RingInv'
<1>1. HeaderOf(w) \in Positions /\ mem[HeaderOf(w)] \in Headers
  BY PositionTyping DEF QueueInv, BaseInv, TypeOK
<1>2. /\ \A q \in Positions : q # HeaderOf(w) => mem'[q] = mem[q]
      /\ mem'[HeaderOf(w)].flag = "ABORTED"
      /\ mem'[HeaderOf(w)].abs = mem[HeaderOf(w)].abs
      /\ mem'[HeaderOf(w)].size = mem[HeaderOf(w)].size
      /\ mem'[HeaderOf(w)].kind = mem[HeaderOf(w)].kind
      /\ mem'[HeaderOf(w)].readers = mem[HeaderOf(w)].readers
  BY <1>1 DEF AbortBuffer, QueueInv, BaseInv, TypeOK, Headers
<1> QED BY <1>2, FlagStep DEF AbortBuffer

\* Every step of a writer, the abort with one reader only.
LEMMA WriterStep ==
  ASSUME QueueInv, Served, NEW w \in Writers,
         \/ CheckReady(w)
         \/ \E size \in Sizes : ClaimBuffer(w, size)
         \/ WriterProgress(w)
         \/ DropWrapper(w)
         \/ OneReader /\ AbortBuffer(w)
  PROVE  RingInv'
<1>1. CASE CheckReady(w)
  BY <1>1, CheckReadyStep
<1>2. CASE \E size \in Sizes : ClaimBuffer(w, size)
  BY <1>2, ReserveStep DEF ClaimBuffer
<1>3. CASE RetryClaim(w)
  <2>1. writer[w].size \in Sizes
    BY <1>3 DEF RetryClaim, QueueInv, BaseInv, ShapeInv
  <2> QED BY <1>3, <2>1, ReserveStep DEF RetryClaim
<1>4. CASE Grant(w)
  BY <1>4, GrantStep
<1>5. CASE InsertSkip(w) \/ WriteHeader(w) \/ WritePayload(w)
  BY <1>5, InsertSkipStep, WriteHeaderStep, WritePayloadStep
<1>6. CASE CommitSkip(w) \/ CommitBuffer(w)
  BY <1>6, CommitStep
<1>7. CASE DropWrapper(w)
  BY <1>7, DropStep
<1>8. CASE OneReader /\ AbortBuffer(w)
  BY <1>8, AbortStep
<1> QED BY <1>1, <1>2, <1>3, <1>4, <1>5, <1>6, <1>7, <1>8 DEF WriterProgress

-----------------------------------------------------------------------------
(* The invariant is inductive: the steps of a reader *)

\* Every claim and every message starts before the write offset.
LEMMA StartsBelow ==
  ASSUME QueueInv
  PROVE  /\ writeOffset \in Nat /\ readOffset \in Nat
         /\ \A w \in Writers : Active(w) =>
              /\ writer[w].off \in Nat /\ EndOfClaim(w) \in Nat
              /\ writer[w].off < EndOfClaim(w)
              /\ writer[w].off < writeOffset
         /\ \A p \in Positions : Live(p) =>
              /\ mem[p].abs \in Nat /\ LiveEnd(p) \in Nat
              /\ mem[p].abs < LiveEnd(p)
              /\ mem[p].abs < writeOffset
<1>1. writeOffset \in Nat /\ readOffset \in Nat
  BY DEF QueueInv, BaseInv, TypeOK
<1>2. ASSUME NEW w \in Writers, Active(w)
      PROVE  /\ writer[w].off \in Nat /\ EndOfClaim(w) \in Nat
             /\ writer[w].off < EndOfClaim(w)
             /\ writer[w].off < writeOffset
  <2>1. /\ writer[w].off \in Nat /\ EndOfClaim(w) \in Nat
        /\ writer[w].off < EndOfClaim(w)
    BY <1>2, ClaimSpan DEF QueueInv, BaseInv, Active, Owns
  <2>2. EndOfClaim(w) <= writeOffset
    BY <1>2 DEF QueueInv, RingInv, ClaimInv
  <2> QED BY <1>1, <2>1, <2>2
<1>3. ASSUME NEW p \in Positions, Live(p)
      PROVE  /\ mem[p].abs \in Nat /\ LiveEnd(p) \in Nat
             /\ mem[p].abs < LiveEnd(p)
             /\ mem[p].abs < writeOffset
  <2>1. /\ mem[p].abs \in Nat /\ LiveEnd(p) \in Nat
        /\ mem[p].abs < LiveEnd(p)
    BY LiveSpan DEF QueueInv, BaseInv
  <2>2. LiveEnd(p) <= writeOffset
    BY <1>3 DEF QueueInv, RingInv, LiveInv
  <2> QED BY <1>1, <2>1, <2>2
<1> QED BY <1>1, <1>2, <1>3

\* A reader that stays at its offset, joins or leaves changes neither who is
\* counted in a claim or a message nor who is still to get to it.
LEMMA RegionsUndisturbed ==
  ASSUME QueueInv, UNCHANGED <<writeOffset, readOffset, mem, writer>>,
         \A o \in Nat : o < writeOffset =>
           /\ Sharers(reader', o) = Sharers(reader, o)
           /\ Awaited(o)' <=> Awaited(o),
         \A q \in Readers : reader'[q].pos \in {reader[q].pos, writeOffset},
         \A q \in Readers : reader[q].pc = "clearing" => reader'[q] = reader[q]
  PROVE  ClaimInv' /\ LiveInv' /\ ApartInv' /\ HeaderInv'
<1>1. \A w \in Writers : /\ Active(w)' <=> Active(w)
                         /\ Owns(w)' <=> Owns(w)
                         /\ EndOfClaim(w)' = EndOfClaim(w)
                         /\ HeaderOf(w)' = HeaderOf(w)
  BY DEF Active, Owns, EndOfClaim, HeaderOf
<1>2. \A p \in Positions : (Live(p)' <=> Live(p)) /\ LiveEnd(p)' = LiveEnd(p)
  BY DEF Live, LiveEnd
<1>3. ClaimInv'
  <2> SUFFICES ASSUME NEW w \in Writers
      PROVE
      /\ Active(w) =>
         /\ writer[w].readers = Cardinality(Sharers(reader', writer[w].off))
         /\ EndOfClaim(w) <= writeOffset
         /\ Awaited(writer[w].off)'
         /\ \A r \in Readers : \/ reader'[r].pos <= writer[w].off
                               \/ EndOfClaim(w) <= reader'[r].pos
      /\ Owns(w) => EndOfClaim(w) <= readOffset + QueueSize
      /\ writer[w].pc \in {"granted", "filling", "written"} =>
           Fits(writer[w].off, Total(writer[w].size))
      /\ writer[w].pc \in {"skipping", "padded"} =>
           ~Fits(writer[w].off, Total(writer[w].size))
    BY <1>1 DEF ClaimInv, Awaited
  <2>1. PICK o : o = writer[w].off
    OBVIOUS
  <2>2. Active(w) => o \in Nat /\ o < writeOffset
    BY <2>1, StartsBelow
  <2>3. Active(w) => Awaited(o)'
    BY <2>1, <2>2 DEF QueueInv, RingInv, ClaimInv
  <2>4. Awaited(o)' => Awaited(writer[w].off)'
    BY <2>1 DEF Awaited
  <2> QED BY <2>1, <2>2, <2>3, <2>4 DEF QueueInv, RingInv, ClaimInv
<1>4. LiveInv'
  <2> SUFFICES ASSUME NEW p \in Positions, Live(p)
      PROVE
      /\ Rel(mem[p].abs) = p
      /\ readOffset <= mem[p].abs
      /\ LiveEnd(p) <= writeOffset
      /\ LiveEnd(p) <= readOffset + QueueSize
      /\ mem[p].kind = "NORMAL" /\ mem[p].flag = "READY" =>
           mem[p].body = mem[p].abs
      /\ \A r \in Readers : \/ reader'[r].pos <= mem[p].abs
                            \/ LiveEnd(p) <= reader'[r].pos
      /\ \/ /\ Awaited(mem[p].abs)'
            /\ mem[p].readers = Cardinality(Sharers(reader', mem[p].abs))
         \/ /\ mem[p].abs = readOffset
            /\ \E r \in Readers : reader'[r].pc = "clearing"
    BY <1>2 DEF LiveInv, Awaited
  <2>1. PICK o : o = mem[p].abs
    OBVIOUS
  <2>2. o \in Nat /\ o < writeOffset
    BY <2>1, StartsBelow
  <2>3. Awaited(o) => Awaited(mem[p].abs)'
    <3>1. Awaited(o) => Awaited(o)'
      BY <2>2
    <3>2. Awaited(o)' => Awaited(mem[p].abs)'
      BY <2>1 DEF Awaited
    <3> QED BY <3>1, <3>2
  <2> QED BY <2>1, <2>2, <2>3 DEF QueueInv, RingInv, LiveInv
<1>5. ApartInv'
  BY <1>1, <1>2 DEF QueueInv, RingInv, ApartInv
<1>6. HeaderInv'
  BY <1>1 DEF QueueInv, RingInv, HeaderInv
<1> QED BY <1>3, <1>4, <1>5, <1>6

\* The steps of a reader that keeps its offset: PollLoad, PollCheck,
\* MarkAsRead, CloseReader and DrainNext.
LEMMA StayStep ==
  ASSUME QueueInv, NEW r \in Readers, Present(r), ~Finishing(r),
         \A q \in Readers : q # r => reader'[q] = reader[q],
         reader'[r].pc \notin {"out", "clearing", "advancing"},
         reader'[r].pos = reader[r].pos,
         reader'[r].len = 0,
         \/ reader'[r].until = reader[r].until
         \/ /\ OneReader
            /\ reader[r].until = NotClosing
            /\ reader'[r].until = writeOffset,
         reader'[r].pc = "loaded" =>
           Live(Slot(r)) /\ reader'[r].flag = mem[Slot(r)].flag,
         reader'[r].pc \in {"holding", "releasing"} =>
           Live(Slot(r)) /\ mem[Slot(r)].abs = reader[r].pos,
         reader'[r].pc = "holding" =>
           mem[Slot(r)].kind = "NORMAL" /\ mem[Slot(r)].flag = "READY",
         UNCHANGED <<writeOffset, readOffset, mem, writer>>
  PROVE  RingInv'
<1>1. \A q \in Readers :
        /\ reader'[q].pos = reader[q].pos
        /\ reader'[q].len = reader[q].len
        /\ Present(q)' <=> Present(q)
        /\ Finishing(q)' <=> Finishing(q)
        /\ reader'[q].pc = "clearing" <=> reader[q].pc = "clearing"
        /\ Front(q)' = Front(q)
        /\ Slot(q)' = Slot(q)
        /\ Finishing(q) => reader'[q] = reader[q]
  <2>1. reader[r].len = 0
    BY FrontTyping DEF QueueInv, BaseInv
  <2> QED BY <2>1 DEF Present, Finishing, Front, Slot
<1>2. writeOffset \in Nat
  BY DEF QueueInv, BaseInv, TypeOK
<1>3. \A o \in Nat : o < writeOffset =>
        /\ Sharers(reader', o) = Sharers(reader, o)
        /\ Awaited(o)' <=> Awaited(o)
  <2> SUFFICES ASSUME NEW o \in Nat, o < writeOffset
               PROVE  /\ Sharers(reader', o) = Sharers(reader, o)
                      /\ Awaited(o)' <=> Awaited(o)
    OBVIOUS
  <2>1. \A q \in Readers :
          /\ reader'[q].pc # "out" <=> reader[q].pc # "out"
          /\ reader'[q].pos = reader[q].pos
          /\ \/ reader'[q].until = reader[q].until
             \/ reader[q].until = NotClosing /\ o < reader'[q].until
    BY <1>1 DEF Present
  <2>2. Sharers(reader', o) = Sharers(reader, o)
    BY <2>1, SameSharers
  <2> QED BY <1>1, <2>2 DEF Awaited
<1>4. ClaimInv' /\ LiveInv' /\ ApartInv' /\ HeaderInv'
  BY <1>1, <1>3, RegionsUndisturbed DEF Finishing
<1>5. SharedInv'
  BY DEF QueueInv, RingInv, SharedInv, OneReader
<1>6. WatermarkInv'
  <2>1. \A q \in Readers : reader'[q].until <= writeOffset
    BY <1>2 DEF QueueInv, RingInv, WatermarkInv
  <2>2. \A q \in Readers : /\ reader'[q].pos <= writeOffset
                           /\ Present(q)' => readOffset <= Front(q)'
                           /\ ~Present(q)' => reader'[q].pos = 0
    BY <1>1 DEF QueueInv, RingInv, WatermarkInv
  <2>3. \E q \in Readers : Present(q)' /\ Front(q)' = readOffset
    BY <1>1 DEF QueueInv, RingInv, WatermarkInv
  <2> QED BY <1>1, <2>1, <2>2, <2>3 DEF WatermarkInv
<1>7. SlotInv'
  <2> SUFFICES ASSUME NEW q \in Readers
      PROVE
      /\ reader'[q].pc = "loaded" =>
           Live(Slot(q)) /\ reader'[q].flag = mem[Slot(q)].flag
      /\ reader'[q].pc \in {"holding", "releasing"} =>
           Live(Slot(q)) /\ mem[Slot(q)].abs = reader'[q].pos
      /\ reader'[q].pc = "holding" =>
           mem[Slot(q)].kind = "NORMAL" /\ mem[Slot(q)].flag = "READY"
    BY <1>1 DEF SlotInv, Live
  <2>1. CASE q = r
    BY <2>1
  <2>2. CASE q # r
    BY <2>2 DEF QueueInv, RingInv, SlotInv
  <2> QED BY <2>1, <2>2
<1>8. LastInv'
  <2>1. \A q \in Readers : Finishing(q)' =>
          /\ Front(q)' = readOffset
          /\ \A u \in Readers : Present(u)' => reader'[q].pos <= reader'[u].pos
          /\ \A u \in Readers : Finishing(u)' => u = q
    BY <1>1 DEF QueueInv, RingInv, LastInv
  <2>2. \A q \in Readers : reader'[q].pc = "clearing" =>
          /\ Live(Rel(readOffset))
          /\ mem[Rel(readOffset)].abs = readOffset
          /\ LiveEnd(Rel(readOffset)) = reader'[q].pos
          /\ reader'[q].until = NotClosing => mem[Rel(readOffset)].readers = 0
    BY <1>1 DEF QueueInv, RingInv, LastInv, Finishing
  <2>3. \A q \in Readers : reader'[q].pc = "clearing" =>
          /\ Live(Rel(readOffset))'
          /\ mem'[Rel(readOffset')].abs = readOffset'
          /\ LiveEnd(Rel(readOffset))' = reader'[q].pos
          /\ reader'[q].until = NotClosing => mem'[Rel(readOffset')].readers = 0
    BY <2>2 DEF Live, LiveEnd
  <2> QED BY <2>1, <2>3 DEF LastInv
<1> QED BY <1>4, <1>5, <1>6, <1>7, <1>8 DEF RingInv

LEMMA PollLoadStep ==
  ASSUME QueueInv, NEW r \in Readers, PollLoad(r)
  PROVE  RingInv'
<1>1. /\ Present(r) /\ ~Finishing(r) /\ Live(Slot(r))
      /\ UNCHANGED <<writeOffset, readOffset, mem, writer>>
  BY DEF PollLoad, Present, Finishing, Live
<1>2. /\ \A q \in Readers : q # r => reader'[q] = reader[q]
      /\ reader'[r].pc = "loaded"
      /\ reader'[r].flag = mem[Slot(r)].flag
      /\ reader'[r].pos = reader[r].pos
      /\ reader'[r].len = reader[r].len
      /\ reader'[r].until = reader[r].until
  BY DEF PollLoad, QueueInv, BaseInv, TypeOK, ReaderRecords
<1>3. reader[r].len = 0
  BY <1>1, FrontTyping DEF QueueInv, BaseInv
<1> QED BY <1>1, <1>2, <1>3, StayStep

\* The second look of a poll: with one reader an aborted message in the slot
\* is the one at the offset of the reader.
LEMMA PollCheckStep ==
  ASSUME QueueInv, NEW r \in Readers, PollCheck(r)
  PROVE  RingInv'
<1>1. /\ Present(r) /\ ~Finishing(r) /\ reader[r].pc = "loaded"
      /\ UNCHANGED <<writeOffset, readOffset, mem, writer>>
  BY DEF PollCheck, Present, Finishing
<1>2. /\ \A q \in Readers : q # r => reader'[q] = reader[q]
      /\ reader'[r].pc = AfterLoad(r, mem[Slot(r)])
      /\ reader'[r].pos = reader[r].pos
      /\ reader'[r].len = reader[r].len
      /\ reader'[r].until = reader[r].until
  BY DEF PollCheck, QueueInv, BaseInv, TypeOK, ReaderRecords
<1>3. reader[r].len = 0
  BY <1>1, FrontTyping DEF QueueInv, BaseInv
<1>4. Live(Slot(r)) /\ reader[r].flag = mem[Slot(r)].flag
      /\ Slot(r) \in Positions
  BY <1>1, ReaderTyping DEF QueueInv, BaseInv, RingInv, SlotInv
<1>5. mem[Slot(r)].flag \in {"READY", "ABORTED"}
  BY <1>4 DEF QueueInv, BaseInv, TypeOK, Headers, CommitFlag, Live
<1>6. CASE mem[Slot(r)].flag = "ABORTED"
  <2>1. PICK q \in Readers : Readers = {q}
    BY <1>4, <1>6 DEF QueueInv, RingInv, SharedInv, OneReader
  <2>2. Readers = {r}
    BY <2>1
  <2>3. mem[Slot(r)].abs = reader[r].pos
    BY <1>1, <1>4, <2>2, MessageAtSlot
  <2>4. reader'[r].pc = "releasing"
    BY <1>2, <1>4, <1>6 DEF AfterLoad
  <2> QED BY <1>1, <1>2, <1>3, <1>4, <2>3, <2>4, StayStep
<1>7. CASE mem[Slot(r)].flag = "READY"
  <2>1. /\ reader'[r].pc \in {"polling", "releasing", "holding"}
        /\ reader'[r].pc # "polling" => mem[Slot(r)].abs = reader[r].pos
        /\ reader'[r].pc = "holding" => mem[Slot(r)].kind # "PADDING"
    BY <1>2, <1>4, <1>7 DEF AfterLoad
  <2>2. mem[Slot(r)].kind \in {"NORMAL", "PADDING"}
    BY <1>4 DEF QueueInv, BaseInv, TypeOK, Headers
  <2> QED BY <1>1, <1>2, <1>3, <1>4, <1>7, <2>1, <2>2, StayStep
<1> QED BY <1>5, <1>6, <1>7

LEMMA MarkStep ==
  ASSUME QueueInv, NEW r \in Readers, MarkAsRead(r)
  PROVE  RingInv'
<1>1. /\ Present(r) /\ ~Finishing(r)
      /\ UNCHANGED <<writeOffset, readOffset, mem, writer>>
  BY DEF MarkAsRead, Present, Finishing
<1>2. /\ \A q \in Readers : q # r => reader'[q] = reader[q]
      /\ reader'[r].pc = "polling"
      /\ reader'[r].pos = reader[r].pos
      /\ reader'[r].len = reader[r].len
      /\ reader'[r].until = reader[r].until
  BY DEF MarkAsRead, GoReader, QueueInv, BaseInv, TypeOK, ReaderRecords
<1>3. reader[r].len = 0
  BY <1>1, FrontTyping DEF QueueInv, BaseInv
<1> QED BY <1>1, <1>2, <1>3, StayStep

\* The one reader closes, and drains up to the offset it closed at.
LEMMA CloseStep ==
  ASSUME QueueInv, OneReader, NEW r \in Readers, CloseReader(r) \/ DrainNext(r)
  PROVE  RingInv'
<1>1. /\ Present(r) /\ ~Finishing(r) /\ Readers = {r}
      /\ UNCHANGED <<writeOffset, readOffset, mem, writer>>
  BY DEF CloseReader, DrainNext, Present, Finishing, OneReader
<1>2. reader[r].len = 0
  BY <1>1, FrontTyping DEF QueueInv, BaseInv
<1>3. CASE CloseReader(r)
  <2>1. /\ \A q \in Readers : q # r => reader'[q] = reader[q]
        /\ reader'[r].pc = "draining"
        /\ reader'[r].pos = reader[r].pos
        /\ reader'[r].len = reader[r].len
        /\ reader'[r].until = writeOffset
    BY <1>3 DEF CloseReader, QueueInv, BaseInv, TypeOK, ReaderRecords
  <2>2. reader[r].until = NotClosing
    BY <1>3 DEF CloseReader, QueueInv, BaseInv, LeavingInv
  <2> QED BY <1>1, <1>2, <2>1, <2>2, StayStep
<1>4. CASE DrainNext(r)
  <2>1. /\ \A q \in Readers : q # r => reader'[q] = reader[q]
        /\ reader'[r].pc \in {"releasing", "closed"}
        /\ reader'[r].pc = "releasing" => mem[Slot(r)].flag = "READY"
        /\ reader'[r].pos = reader[r].pos
        /\ reader'[r].len = reader[r].len
        /\ reader'[r].until = reader[r].until
    BY <1>4 DEF DrainNext, MayDrain, GoReader, QueueInv, BaseInv, TypeOK,
       ReaderRecords
  <2>2. reader'[r].pc = "releasing" =>
          Live(Slot(r)) /\ mem[Slot(r)].abs = reader[r].pos
    <3>1. reader'[r].pc = "releasing" => Live(Slot(r))
      BY <2>1 DEF Live
    <3> QED BY <1>1, <3>1, MessageAtSlot
  <2> QED BY <1>1, <1>2, <2>1, <2>2, StayStep
<1> QED BY <1>3, <1>4

\* A reader joins past every claim there is.
LEMMA JoinStep ==
  ASSUME QueueInv, NEW r \in Readers, Join(r)
  PROVE  RingInv'
<1>1. /\ reader[r].pc = "out" /\ ~Present(r)
      /\ reader[r].len = 0
      /\ reader[r].until = NotClosing
      /\ UNCHANGED <<writeOffset, readOffset, mem, writer>>
  BY DEF Join, Present, QueueInv, BaseInv, ShapeInv, LeavingInv
<1>2. /\ \A q \in Readers : q # r => reader'[q] = reader[q]
      /\ reader'[r].pc = "polling"
      /\ reader'[r].pos = writeOffset
      /\ reader'[r].len = 0
      /\ reader'[r].until = NotClosing
  BY <1>1 DEF Join, JoinPosition, QueueInv, BaseInv, TypeOK, ReaderRecords
<1>3. writeOffset \in Nat /\ readOffset \in Nat
  BY DEF QueueInv, BaseInv, TypeOK
<1>4. /\ Present(r)' /\ ~Finishing(r)' /\ Front(r)' = writeOffset
      /\ \A q \in Readers : q # r => /\ Present(q)' <=> Present(q)
                                     /\ Finishing(q)' <=> Finishing(q)
                                     /\ Front(q)' = Front(q)
                                     /\ Slot(q)' = Slot(q)
      /\ \A q \in Readers : Finishing(q) => q # r
  BY <1>1, <1>2, <1>3 DEF Present, Finishing, Front, Slot
<1>5. \A o \in Nat : o < writeOffset =>
        /\ Sharers(reader', o) = Sharers(reader, o)
        /\ Awaited(o)' <=> Awaited(o)
  <2> SUFFICES ASSUME NEW o \in Nat, o < writeOffset
               PROVE  /\ Sharers(reader', o) = Sharers(reader, o)
                      /\ Awaited(o)' <=> Awaited(o)
    OBVIOUS
  <2>1. ~(reader'[r].pos <= o)
    BY <1>2, <1>3
  <2>2. Sharers(reader', o) = Sharers(reader, o)
    BY <1>1, <1>2, <2>1, SameSharers
  <2> QED BY <1>1, <1>2, <1>4, <2>1, <2>2 DEF Awaited
<1>6. ClaimInv' /\ LiveInv' /\ ApartInv' /\ HeaderInv'
  BY <1>1, <1>2, <1>5, RegionsUndisturbed
<1>7. SharedInv'
  BY <1>1, <1>2 DEF QueueInv, RingInv, SharedInv, OneReader
<1>8. /\ readOffset <= writeOffset
      /\ \E q \in Readers : Present(q)' /\ Front(q)' = readOffset
  <2>1. CASE \E q \in Readers : Present(q)
    <3>1. PICK q \in Readers : Present(q) /\ Front(q) = readOffset
      BY <2>1 DEF QueueInv, RingInv, WatermarkInv
    <3>2. /\ Front(q) \in Nat /\ Front(q) <= reader[q].pos
          /\ reader[q].pos \in Nat
      BY FrontTyping, ReaderTyping DEF QueueInv, BaseInv
    <3>3. reader[q].pos <= writeOffset
      BY DEF QueueInv, RingInv, WatermarkInv
    <3> QED BY <1>1, <1>3, <1>4, <3>1, <3>2, <3>3
  <2>2. CASE \A q \in Readers : ~Present(q)
    <3>1. writeOffset = 0 /\ readOffset = 0
      BY <2>2 DEF QueueInv, RingInv, WatermarkInv
    <3> QED BY <1>4, <3>1
  <2> QED BY <2>1, <2>2
<1>9. WatermarkInv'
  <2>1. \A q \in Readers : /\ reader'[q].pos <= writeOffset
                           /\ reader'[q].until <= writeOffset
                           /\ Present(q)' => readOffset <= Front(q)'
                           /\ ~Present(q)' => reader'[q].pos = 0
    BY <1>1, <1>2, <1>3, <1>4, <1>8 DEF QueueInv, RingInv, WatermarkInv
  <2> QED BY <1>1, <1>4, <1>8, <2>1 DEF WatermarkInv
<1>10. SlotInv'
  <2> SUFFICES ASSUME NEW q \in Readers, q # r
      PROVE
      /\ reader[q].pc = "loaded" =>
           Live(Slot(q)) /\ reader[q].flag = mem[Slot(q)].flag
      /\ reader[q].pc \in {"holding", "releasing"} =>
           Live(Slot(q)) /\ mem[Slot(q)].abs = reader[q].pos
      /\ reader[q].pc = "holding" =>
           mem[Slot(q)].kind = "NORMAL" /\ mem[Slot(q)].flag = "READY"
    BY <1>1, <1>2, <1>4 DEF SlotInv, Live
  <2> QED BY DEF QueueInv, RingInv, SlotInv
<1>11. LastInv'
  <2>1. \A q \in Readers : Finishing(q)' =>
          /\ Front(q)' = readOffset
          /\ \A u \in Readers : Present(u)' => reader'[q].pos <= reader'[u].pos
          /\ \A u \in Readers : Finishing(u)' => u = q
    BY <1>2, <1>4 DEF QueueInv, RingInv, LastInv, WatermarkInv
  <2>2. \A q \in Readers : reader'[q].pc = "clearing" =>
          /\ Live(Rel(readOffset))
          /\ mem[Rel(readOffset)].abs = readOffset
          /\ LiveEnd(Rel(readOffset)) = reader'[q].pos
          /\ reader'[q].until = NotClosing => mem[Rel(readOffset)].readers = 0
    BY <1>2, <1>4 DEF QueueInv, RingInv, LastInv, Finishing
  <2>3. \A q \in Readers : reader'[q].pc = "clearing" =>
          /\ Live(Rel(readOffset))'
          /\ mem'[Rel(readOffset')].abs = readOffset'
          /\ LiveEnd(Rel(readOffset))' = reader'[q].pos
          /\ reader'[q].until = NotClosing => mem'[Rel(readOffset')].readers = 0
    BY <1>1, <2>2 DEF Live, LiveEnd
  <2> QED BY <1>1, <2>1, <2>3 DEF LastInv
<1> QED BY <1>6, <1>7, <1>9, <1>10, <1>11 DEF RingInv

LEMMA CountDown ==
  ASSUME NEW n \in Count, n # 0
  PROVE  (n - 1) % ReaderLimit = n - 1
BY QueueAssumption DEF Count

\* The reader that passes a message was at it, and passes nothing else.
LEMMA PastOneMessage ==
  ASSUME TypeOK, NEW r \in Readers, Present(r), reader'[r].pc # "out",
         \A q \in Readers : q # r => reader'[q] = reader[q],
         reader'[r].until = reader[r].until,
         NEW o \in Nat, NEW end \in Nat, o < end,
         reader'[r].pos \in Nat, reader[r].pos < reader'[r].pos,
         Apart(o, end, reader[r].pos, reader'[r].pos)
  PROVE  /\ Sharers(reader', o) = Sharers(reader, o)
         /\ (\E q \in Readers : Present(q) /\ reader[q].pos <= o) =>
              \E q \in Readers : Present(q)' /\ reader'[q].pos <= o
         /\ reader'[r].pos <= o \/ end <= reader'[r].pos
<1>1. reader[r].pos \in Nat
  BY ReaderTyping
<1>2. reader'[r].pos <= o <=> reader[r].pos <= o
  BY <1>1 DEF Apart
<1>3. Sharers(reader', o) = Sharers(reader, o)
  BY <1>2, SameSharers DEF Present
<1>4. reader'[r].pos <= o \/ end <= reader'[r].pos
  BY <1>1 DEF Apart
<1> QED BY <1>2, <1>3, <1>4 DEF Present

\* Whoever releases a message is counted in its header, unless it drains: then
\* it is the only reader, and nobody else is.
LEMMA ReleaseFacts ==
  ASSUME QueueInv, Served, NEW r \in Readers,
         reader[r].pc \in {"holding", "releasing"}
  PROVE  /\ Present(r) /\ ~Finishing(r)
         /\ Front(r) = reader[r].pos
         /\ readOffset <= reader[r].pos
         /\ Slot(r) \in Positions /\ Live(Slot(r))
         /\ mem[Slot(r)].abs = reader[r].pos
         /\ LiveEnd(Slot(r)) = reader[r].pos + Total(mem[Slot(r)].size)
         /\ LiveEnd(Slot(r)) \in Nat
         /\ reader[r].pos < LiveEnd(Slot(r))
         /\ mem[Slot(r)].readers = Cardinality(Sharers(reader, reader[r].pos))
         /\ reader[r].until = NotClosing => r \in Sharers(reader, reader[r].pos)
<1>1. /\ Present(r) /\ ~Finishing(r)
      /\ Live(Slot(r)) /\ mem[Slot(r)].abs = reader[r].pos
  BY DEF QueueInv, RingInv, SlotInv, Present, Finishing
<1>2. Front(r) = reader[r].pos /\ readOffset <= reader[r].pos
  BY <1>1, FrontTyping DEF QueueInv, BaseInv, RingInv, WatermarkInv
<1>3. PICK p \in Positions : p = Slot(r)
  BY ReaderTyping DEF QueueInv, BaseInv
<1>4. /\ LiveEnd(p) \in Nat /\ mem[p].abs < LiveEnd(p)
      /\ LiveEnd(p) = mem[p].abs + Total(mem[p].size)
  BY LiveSpan DEF QueueInv, BaseInv
<1>5. reader[r].pos \in Nat
  BY ReaderTyping DEF QueueInv, BaseInv
<1>6. ~(mem[p].abs = readOffset /\ \E c \in Readers : reader[c].pc = "clearing")
  <2> SUFFICES ASSUME mem[p].abs = readOffset,
                      NEW c \in Readers, reader[c].pc = "clearing"
               PROVE  FALSE
    OBVIOUS
  <2>1. p = Rel(readOffset)
    BY <1>1, <1>3 DEF Slot
  <2>2. LiveEnd(p) = reader[c].pos /\ reader[c].pos <= reader[r].pos
    BY <1>1, <2>1 DEF QueueInv, RingInv, LastInv, Finishing
  <2> QED BY <1>1, <1>3, <1>4, <1>5, <2>2
<1>7. mem[p].readers = Cardinality(Sharers(reader, reader[r].pos))
  BY <1>1, <1>3, <1>6 DEF QueueInv, RingInv, LiveInv
<1>8. reader[r].until = NotClosing => r \in Sharers(reader, reader[r].pos)
  BY <1>1, <1>5 DEF Sharers, Present
<1> QED BY <1>1, <1>2, <1>3, <1>4, <1>7, <1>8

\* release_buffer by the last reader of the message: every other reader is
\* past it, so it is the message at the watermark.
LEMMA LastRelease ==
  ASSUME QueueInv, Served, NEW r \in Readers,
         reader[r].pc \in {"holding", "releasing"},
         IsLastReader(mem[Slot(r)])
  PROVE  /\ readOffset = reader[r].pos
         /\ \A q \in Readers : q # r /\ Present(q) =>
              /\ LiveEnd(Slot(r)) <= reader[q].pos
              /\ ~Finishing(q)
<1>1. PICK p \in Positions : p = Slot(r)
  BY ReaderTyping DEF QueueInv, BaseInv
<1> DEFINE a == reader[r].pos
           e == LiveEnd(p)
<1>2. /\ Present(r) /\ ~Finishing(r) /\ Front(r) = a /\ readOffset <= a
      /\ Live(p) /\ mem[p].abs = a /\ e \in Nat /\ a < e
      /\ mem[p].readers = Cardinality(Sharers(reader, a))
      /\ reader[r].until = NotClosing => r \in Sharers(reader, a)
      /\ a \in Nat /\ readOffset \in Nat
  BY <1>1, ReleaseFacts, ReaderTyping DEF QueueInv, BaseInv, TypeOK
<1>3. Cardinality(Sharers(reader, a)) <= 1 /\ IsFiniteSet(Sharers(reader, a))
  BY <1>1, <1>2, SharersTyping DEF IsLastReader
<1>4. ASSUME NEW q \in Readers, q # r, Present(q)
      PROVE  e <= reader[q].pos /\ ~Finishing(q)
  <2>1. ~OneReader
    BY <1>4 DEF OneReader
  <2>2. reader[q].until = NotClosing /\ reader[r].until = NotClosing
    BY <2>1 DEF QueueInv, RingInv, SharedInv
  <2>3. q \notin Sharers(reader, a)
    BY <1>2, <1>3, <1>4, <2>2, LastSharer
  <2>4. ~(reader[q].pos <= a)
    BY <1>4, <2>2, <2>3 DEF Sharers, Present
  <2>5. e <= reader[q].pos
    BY <1>2, <2>4 DEF QueueInv, RingInv, LiveInv
  <2>6. Finishing(q) => reader[q].pos <= a
    BY <1>2 DEF QueueInv, RingInv, LastInv
  <2> QED BY <2>4, <2>5, <2>6
<1>5. readOffset = a
  <2>1. PICK f \in Readers : Present(f) /\ Front(f) = readOffset
    BY <1>2 DEF QueueInv, RingInv, WatermarkInv
  <2>2. CASE f = r
    BY <1>2, <2>1, <2>2
  <2>3. CASE f # r
    <3>1. e <= reader[f].pos /\ ~Finishing(f)
      BY <1>4, <2>1, <2>3
    <3>2. Front(f) = reader[f].pos /\ reader[f].pos \in Nat
      BY <3>1, FrontTyping, ReaderTyping DEF QueueInv, BaseInv
    <3> QED BY <1>2, <2>1, <3>1, <3>2
  <2> QED BY <2>2, <2>3
<1> QED BY <1>1, <1>4, <1>5

\* ... and by any other reader: somebody else is still to release it, and
\* there are several readers, of which none closes.
LEMMA SharedRelease ==
  ASSUME QueueInv, Served, NEW r \in Readers,
         reader[r].pc \in {"holding", "releasing"},
         ~IsLastReader(mem[Slot(r)])
  PROVE  /\ ~OneReader /\ reader[r].until = NotClosing
         /\ \E q \in Readers : /\ q # r /\ Present(q)
                               /\ reader[q].pos <= reader[r].pos
<1> DEFINE S == Sharers(reader, reader[r].pos)
<1>1. mem[Slot(r)].readers = Cardinality(S)
  BY ReleaseFacts
<1>2. ~(Cardinality(S) <= 1) /\ IsFiniteSet(S)
  BY <1>1, SharersTyping DEF IsLastReader
<1> HIDE DEF S
<1>3. PICK q \in S : q # r
  BY <1>2, OtherSharer
<1>4. q \in Readers /\ Present(q) /\ reader[q].pos <= reader[r].pos
  BY DEF S, Sharers, Present
<1>5. ~OneReader
  BY <1>3, <1>4 DEF OneReader
<1> QED BY <1>3, <1>4, <1>5 DEF QueueInv, RingInv, SharedInv

LEMMA ReleaseStep ==
  ASSUME QueueInv, Served, NEW r \in Readers, ReleaseBuffer(r)
  PROVE  RingInv'
<1>1. /\ reader[r].pc \in {"holding", "releasing"}
      /\ UNCHANGED <<writeOffset, readOffset, writer>>
  BY DEF ReleaseBuffer
<1>2. PICK p \in Positions : p = Slot(r)
  BY ReaderTyping DEF QueueInv, BaseInv
<1>3. PICK a \in Nat : a = reader[r].pos
  BY ReaderTyping DEF QueueInv, BaseInv
<1>4. PICK e \in Nat : e = LiveEnd(p)
  BY LiveSpan DEF QueueInv, BaseInv
<1>5. /\ Present(r) /\ ~Finishing(r) /\ Front(r) = a /\ readOffset <= a
      /\ Live(p) /\ mem[p].abs = a /\ a < e
      /\ e = a + Total(mem[p].size)
      /\ mem[p].readers = Cardinality(Sharers(reader, a))
      /\ reader[r].until = NotClosing => r \in Sharers(reader, a)
      /\ readOffset \in Nat
  BY <1>1, <1>2, <1>3, <1>4, ReleaseFacts DEF QueueInv, BaseInv, TypeOK
<1>6. /\ \A q \in Positions : /\ mem'[q].abs = mem[q].abs
                              /\ mem'[q].size = mem[q].size
                              /\ mem'[q].kind = mem[q].kind
                              /\ mem'[q].flag = mem[q].flag
                              /\ mem'[q].body = mem[q].body
                              /\ q # p => mem'[q] = mem[q]
                              /\ Live(q)' <=> Live(q)
                              /\ LiveEnd(q)' = LiveEnd(q)
      /\ mem'[p].readers = (mem[p].readers - 1) % ReaderLimit
      /\ mem[p].readers \in Count
  <2>1. mem \in [Positions -> Headers]
    BY DEF QueueInv, BaseInv, TypeOK
  <2>2. mem' = [mem EXCEPT ![p].readers = (mem[p].readers - 1) % ReaderLimit]
    BY <1>2 DEF ReleaseBuffer
  <2>3. /\ \A q \in Positions : /\ mem'[q].abs = mem[q].abs
                                /\ mem'[q].size = mem[q].size
                                /\ mem'[q].kind = mem[q].kind
                                /\ mem'[q].flag = mem[q].flag
                                /\ mem'[q].body = mem[q].body
                                /\ q # p => mem'[q] = mem[q]
        /\ mem'[p].readers = (mem[p].readers - 1) % ReaderLimit
        /\ mem[p].readers \in Count
    BY <2>1, <2>2 DEF Headers
  <2> QED BY <2>3 DEF Live, LiveEnd
<1>7. /\ \A q \in Readers : q # r => reader'[q] = reader[q]
      /\ reader'[r].pos = e
      /\ reader'[r].until = reader[r].until
      /\ IsLastReader(mem[p]) => reader'[r].pc = "clearing" /\ Front(r)' = a
      /\ ~IsLastReader(mem[p]) =>
           reader'[r].pc \in {"polling", "draining"} /\ Front(r)' = e
  <2>1. mem[p] \in Headers /\ reader \in [Readers -> ReaderRecords]
    BY DEF QueueInv, BaseInv, TypeOK
  <2>2. reader' = [reader EXCEPT ![r] = AfterRelease(r, mem[p])]
    BY <1>2 DEF ReleaseBuffer
  <2>3. /\ AfterRelease(r, mem[p]).pos = e
        /\ AfterRelease(r, mem[p]).until = reader[r].until
        /\ IsLastReader(mem[p]) => /\ AfterRelease(r, mem[p]).pc = "clearing"
                                   /\ AfterRelease(r, mem[p]).len = e - a
        /\ ~IsLastReader(mem[p]) => /\ AfterRelease(r, mem[p]).pc = Resume(r)
                                    /\ AfterRelease(r, mem[p]).len = 0
    <3>1. Total(mem[p].size) = e - a
      BY <1>5, LiveSpan DEF QueueInv, BaseInv
    <3> QED BY <1>3, <1>5, <2>1, <3>1, AfterReleaseTyping
        DEF QueueInv, BaseInv
  <2>4. Resume(r) \in {"polling", "draining"}
    BY DEF Resume
  <2>5. \A q \in Readers : q # r => reader'[q] = reader[q]
    BY <2>1, <2>2
  <2>6. reader'[r] = AfterRelease(r, mem[p])
    BY <2>1, <2>2
  <2>7. Front(r)' = reader'[r].pos - reader'[r].len
    BY DEF Front
  <2> QED BY <1>5, <2>3, <2>4, <2>5, <2>6, <2>7
<1>8. /\ \A q \in Readers : Present(q)' <=> Present(q)
      /\ \A q \in Readers : q # r => /\ Finishing(q)' <=> Finishing(q)
                                     /\ Front(q)' = Front(q)
                                     /\ Slot(q)' = Slot(q)
      /\ Finishing(r)' <=> IsLastReader(mem[p])
      /\ reader'[r].pc \in {"clearing", "polling", "draining"}
      /\ reader'[r].pc = "clearing" <=> IsLastReader(mem[p])
  BY <1>5, <1>7 DEF Present, Finishing, Front, Slot
<1>9. ASSUME NEW o \in Nat, NEW end \in Nat, o < end, Apart(o, end, a, e)
      PROVE  /\ Sharers(reader', o) = Sharers(reader, o)
             /\ (\E q \in Readers : Present(q) /\ reader[q].pos <= o) =>
                  \E q \in Readers : Present(q)' /\ reader'[q].pos <= o
             /\ e <= o \/ end <= e
  BY <1>3, <1>5, <1>7, <1>8, <1>9, PastOneMessage DEF QueueInv, BaseInv
<1>10. \A w \in Writers : /\ Active(w)' <=> Active(w)
                          /\ Owns(w)' <=> Owns(w)
                          /\ EndOfClaim(w)' = EndOfClaim(w)
                          /\ HeaderOf(w)' = HeaderOf(w)
  BY <1>1 DEF Active, Owns, EndOfClaim, HeaderOf
<1>11. ClaimInv'
  <2> SUFFICES ASSUME NEW w \in Writers, Active(w)
      PROVE
      /\ writer[w].readers = Cardinality(Sharers(reader', writer[w].off))
      /\ \E q \in Readers : Present(q)' /\ reader'[q].pos <= writer[w].off
      /\ \A q \in Readers : \/ reader'[q].pos <= writer[w].off
                            \/ EndOfClaim(w) <= reader'[q].pos
    BY <1>1, <1>10 DEF QueueInv, RingInv, ClaimInv, Awaited
  <2>1. /\ writer[w].off \in Nat /\ EndOfClaim(w) \in Nat
        /\ writer[w].off < EndOfClaim(w)
    BY StartsBelow
  <2>2. Apart(writer[w].off, EndOfClaim(w), a, e)
    BY <1>4, <1>5 DEF QueueInv, RingInv, ApartInv
  <2>3. /\ writer[w].readers = Cardinality(Sharers(reader, writer[w].off))
        /\ \E q \in Readers : Present(q) /\ reader[q].pos <= writer[w].off
        /\ \A q \in Readers : \/ reader[q].pos <= writer[w].off
                              \/ EndOfClaim(w) <= reader[q].pos
    BY DEF QueueInv, RingInv, ClaimInv, Awaited
  <2> QED BY <1>7, <1>9, <2>1, <2>2, <2>3
<1>12. /\ \/ /\ \E q \in Readers : Present(q)' /\ reader'[q].pos <= a
             /\ mem'[p].readers = Cardinality(Sharers(reader', a))
          \/ a = readOffset /\ reader'[r].pc = "clearing"
       /\ reader'[r].pc = "clearing" /\ reader[r].until = NotClosing =>
            mem'[p].readers = 0
  <2>1. CASE IsLastReader(mem[p])
    <3>1. a = readOffset
      BY <1>1, <1>2, <1>3, <2>1, LastRelease
    <3>2. reader[r].until = NotClosing => mem[p].readers # 0
      BY <1>5, SharersTyping, FS_EmptySet
    <3>3. reader[r].until = NotClosing => mem'[p].readers = 0
      BY <1>6, <2>1, <3>2, CountDown DEF IsLastReader, Count
    <3> QED BY <1>8, <2>1, <3>1, <3>3
  <2>2. CASE ~IsLastReader(mem[p])
    <3>1. PICK q \in Readers : q # r /\ Present(q) /\ reader[q].pos <= a
      BY <1>1, <1>2, <1>3, <2>2, SharedRelease
    <3>2. reader[r].until = NotClosing
      BY <1>1, <1>2, <2>2, SharedRelease
    <3>3. Sharers(reader', a) = Sharers(reader, a) \ {r}
      <4>1. ~(reader'[r].pos <= a)
        BY <1>5, <1>7
      <4> QED BY <1>7, <4>1 DEF Sharers
    <3>4. Cardinality(Sharers(reader', a)) = Cardinality(Sharers(reader, a)) - 1
      BY <1>5, <3>2, <3>3, SharersTyping, FS_RemoveElement
    <3>5. mem'[p].readers = mem[p].readers - 1
      BY <1>6, <2>2, CountDown DEF IsLastReader
    <3> QED BY <1>5, <1>7, <1>8, <2>2, <3>1, <3>4, <3>5
  <2> QED BY <2>1, <2>2
<1>13. LiveInv'
  <2> SUFFICES ASSUME NEW q \in Positions, Live(q)
      PROVE
      /\ \A u \in Readers : \/ reader'[u].pos <= mem[q].abs
                            \/ LiveEnd(q) <= reader'[u].pos
      /\ \/ /\ \E u \in Readers : Present(u)' /\ reader'[u].pos <= mem[q].abs
            /\ mem'[q].readers = Cardinality(Sharers(reader', mem[q].abs))
         \/ /\ mem[q].abs = readOffset
            /\ \E u \in Readers : reader'[u].pc = "clearing"
    BY <1>1, <1>6 DEF QueueInv, RingInv, LiveInv, Awaited
  <2>1. CASE q = p
    <3>1. \A u \in Readers : reader[u].pos <= a \/ e <= reader[u].pos
      BY <1>4, <1>5 DEF QueueInv, RingInv, LiveInv
    <3>2. \A u \in Readers : reader'[u].pos <= a \/ e <= reader'[u].pos
      BY <1>7, <3>1
    <3> QED BY <1>4, <1>5, <1>12, <2>1, <3>2
  <2>2. CASE q # p
    <3>1. /\ mem[q].abs \in Nat /\ LiveEnd(q) \in Nat
          /\ mem[q].abs < LiveEnd(q)
      BY StartsBelow
    <3>2. Apart(mem[q].abs, LiveEnd(q), a, e)
      BY <1>4, <1>5, <2>2 DEF QueueInv, RingInv, ApartInv
    <3>3. /\ \A u \in Readers : \/ reader[u].pos <= mem[q].abs
                                \/ LiveEnd(q) <= reader[u].pos
          /\ \/ /\ \E u \in Readers : Present(u) /\ reader[u].pos <= mem[q].abs
                /\ mem[q].readers = Cardinality(Sharers(reader, mem[q].abs))
             \/ /\ mem[q].abs = readOffset
                /\ \E u \in Readers : reader[u].pc = "clearing"
      BY DEF QueueInv, RingInv, LiveInv, Awaited
    <3>4. \A u \in Readers : reader[u].pc = "clearing" =>
                               reader'[u].pc = "clearing"
      BY <1>1, <1>7
    <3>5. mem'[q].readers = mem[q].readers
      BY <1>6, <2>2
    <3> QED BY <1>7, <1>9, <3>1, <3>2, <3>3, <3>4, <3>5
  <2> QED BY <2>1, <2>2
<1>14. ApartInv'
  BY <1>1, <1>6, <1>10 DEF QueueInv, RingInv, ApartInv
<1>15. HeaderInv'
  <2>1. \A w \in Writers : Owns(w) => mem'[HeaderOf(w)] = mem[HeaderOf(w)]
    BY <1>5, <1>6, OwnerSlotFree
  <2> QED BY <1>1, <1>10, <2>1 DEF QueueInv, RingInv, HeaderInv, Owns
<1>16. SharedInv'
  BY <1>6, <1>7 DEF QueueInv, RingInv, SharedInv, OneReader
<1>17. WatermarkInv'
  <2>1. e <= writeOffset
    BY <1>4, <1>5 DEF QueueInv, RingInv, LiveInv
  <2>2. readOffset <= Front(r)' /\ Front(r)' \in Nat
    BY <1>5, <1>7
  <2>3. \A q \in Readers : /\ reader'[q].pos <= writeOffset
                           /\ reader'[q].until <= writeOffset
                           /\ Present(q)' => readOffset <= Front(q)'
                           /\ ~Present(q)' => reader'[q].pos = 0
    BY <1>5, <1>7, <1>8, <2>1, <2>2 DEF QueueInv, RingInv, WatermarkInv
  <2>4. \E q \in Readers : Present(q)' /\ Front(q)' = readOffset
    <3>1. CASE IsLastReader(mem[p])
      BY <1>1, <1>2, <1>3, <1>5, <1>7, <1>8, <3>1, LastRelease
    <3>2. CASE ~IsLastReader(mem[p])
      <4>1. PICK q \in Readers : q # r /\ Present(q) /\ reader[q].pos <= a
        BY <1>1, <1>2, <1>3, <3>2, SharedRelease
      <4>2. PICK f \in Readers : Present(f) /\ Front(f) = readOffset
        BY <1>5 DEF QueueInv, RingInv, WatermarkInv
      <4>3. CASE f # r
        BY <1>8, <4>2, <4>3
      <4>4. CASE f = r
        <5>1. readOffset <= Front(q)
          BY <4>1 DEF QueueInv, RingInv, WatermarkInv
        <5>2. /\ Front(q) \in Nat /\ Front(q) <= reader[q].pos
              /\ reader[q].pos \in Nat
          BY FrontTyping, ReaderTyping DEF QueueInv, BaseInv
        <5>3. Front(q) = readOffset
          BY <1>5, <4>1, <4>2, <4>4, <5>1, <5>2
        <5> QED BY <1>8, <4>1, <5>3
      <4> QED BY <4>3, <4>4
    <3> QED BY <3>1, <3>2
  <2> QED BY <1>1, <1>8, <2>3, <2>4 DEF WatermarkInv
<1>18. SlotInv'
  <2> SUFFICES ASSUME NEW q \in Readers, q # r
      PROVE
      /\ reader[q].pc = "loaded" =>
           Live(Slot(q))' /\ reader[q].flag = mem'[Slot(q)].flag
      /\ reader[q].pc \in {"holding", "releasing"} =>
           Live(Slot(q))' /\ mem'[Slot(q)].abs = reader[q].pos
      /\ reader[q].pc = "holding" =>
           mem'[Slot(q)].kind = "NORMAL" /\ mem'[Slot(q)].flag = "READY"
    BY <1>7, <1>8 DEF SlotInv
  <2>1. PICK s \in Positions : s = Slot(q)
    BY ReaderTyping DEF QueueInv, BaseInv
  <2>2. Slot(q)' = s
    BY <1>8, <2>1
  <2>3. /\ Live(s)' <=> Live(s)
        /\ mem'[s].flag = mem[s].flag
        /\ mem'[s].abs = mem[s].abs /\ mem'[s].kind = mem[s].kind
    BY <1>6
  <2>4. Live(Slot(q))' <=> Live(s)'
    BY <2>2 DEF Live
  <2> QED BY <2>1, <2>3, <2>4 DEF QueueInv, RingInv, SlotInv
<1>19. LastInv'
  <2>1. PICK z \in Positions : z = Rel(readOffset)
    BY <1>5, RelTyping DEF Positions
  <2>2. \A q \in Readers : Finishing(q)' =>
          /\ Front(q)' = readOffset
          /\ \A u \in Readers : Present(u)' => reader'[q].pos <= reader'[u].pos
          /\ \A u \in Readers : Finishing(u)' => u = q
    <3>1. CASE IsLastReader(mem[p])
      <4>1. readOffset = a
        BY <1>1, <1>2, <1>3, <3>1, LastRelease
      <4>2. \A q \in Readers : q # r /\ Present(q) =>
              e <= reader[q].pos /\ ~Finishing(q)
        BY <1>1, <1>2, <1>4, <3>1, LastRelease
      <4>3. \A q \in Readers : Finishing(q) => Present(q)
        BY DEF Finishing, Present
      <4> QED BY <1>7, <1>8, <3>1, <4>1, <4>2, <4>3
    <3>2. CASE ~IsLastReader(mem[p])
      <4>1. \A q \in Readers : Finishing(q) => reader[q].pos <= e
        <5>1. \A q \in Readers : Finishing(q) => reader[q].pos <= a
          BY <1>3, <1>5 DEF QueueInv, RingInv, LastInv
        <5> QED BY <1>5, <5>1, ReaderTyping DEF QueueInv, BaseInv
      <4> QED BY <1>7, <1>8, <3>2, <4>1 DEF QueueInv, RingInv, LastInv
    <3> QED BY <3>1, <3>2
  <2>3. \A q \in Readers : reader'[q].pc = "clearing" =>
          /\ Live(z)
          /\ mem[z].abs = readOffset
          /\ LiveEnd(z) = reader'[q].pos
          /\ reader'[q].until = NotClosing => mem'[z].readers = 0
    <3> SUFFICES ASSUME NEW q \in Readers, reader'[q].pc = "clearing"
                 PROVE  /\ Live(z)
                        /\ mem[z].abs = readOffset
                        /\ LiveEnd(z) = reader'[q].pos
                        /\ reader'[q].until = NotClosing => mem'[z].readers = 0
      OBVIOUS
    <3>1. CASE q = r
      <4>1. readOffset = a
        BY <1>1, <1>2, <1>3, <1>8, <3>1, LastRelease
      <4>2. z = p
        BY <1>2, <1>3, <2>1, <4>1 DEF Slot
      <4> QED BY <1>4, <1>5, <1>7, <1>12, <3>1, <4>1, <4>2
    <3>2. CASE q # r
      <4>1. /\ Live(z) /\ mem[z].abs = readOffset
            /\ LiveEnd(z) = reader[q].pos
            /\ reader[q].until = NotClosing => mem[z].readers = 0
            /\ reader[q].pos <= a
        BY <1>3, <1>5, <1>7, <2>1, <3>2 DEF QueueInv, RingInv, LastInv, Finishing
      <4>2. ~(e <= a)
        BY <1>5
      <4>3. z # p
        BY <1>4, <4>1, <4>2
      <4> QED BY <1>6, <1>7, <3>2, <4>1, <4>3
    <3> QED BY <3>1, <3>2
  <2>4. \A q \in Readers : reader'[q].pc = "clearing" =>
          /\ Live(Rel(readOffset))'
          /\ mem'[Rel(readOffset')].abs = readOffset'
          /\ LiveEnd(Rel(readOffset))' = reader'[q].pos
          /\ reader'[q].until = NotClosing => mem'[Rel(readOffset')].readers = 0
    <3>1. /\ Live(Rel(readOffset))' <=> Live(z)'
          /\ LiveEnd(Rel(readOffset))' = LiveEnd(z)'
          /\ Rel(readOffset') = z /\ readOffset' = readOffset
      BY <1>1, <2>1 DEF Live, LiveEnd
    <3> QED BY <1>6, <2>3, <3>1
  <2> QED BY <1>1, <2>2, <2>4 DEF LastInv
<1> QED BY <1>11, <1>13, <1>14, <1>15, <1>16, <1>17, <1>18, <1>19 DEF RingInv

\* The last reader clears the header at the watermark, which nobody is looking
\* at: all other readers are past it, and none is between two looks at it.
LEMMA ClearStep ==
  ASSUME QueueInv, NEW r \in Readers, ClearBuffer(r), NoClearMidPoll
  PROVE  RingInv'
<1>1. /\ reader[r].pc = "clearing" /\ Finishing(r) /\ Present(r)
      /\ UNCHANGED <<writeOffset, readOffset, writer>>
  BY DEF ClearBuffer, Finishing, Present
<1>2. /\ \A q \in Readers : q # r => reader'[q] = reader[q]
      /\ reader'[r].pc = "advancing"
      /\ reader'[r].pos = reader[r].pos
      /\ reader'[r].len = reader[r].len
      /\ reader'[r].until = reader[r].until
  BY DEF ClearBuffer, GoReader, QueueInv, BaseInv, TypeOK, ReaderRecords
<1>3. PICK z \in Positions : z = Rel(readOffset)
  BY RelTyping DEF Positions, QueueInv, BaseInv, TypeOK
<1>4. /\ Front(r) = readOffset
      /\ \A q \in Readers : Present(q) => reader[r].pos <= reader[q].pos
      /\ \A q \in Readers : Finishing(q) => q = r
      /\ Live(z) /\ mem[z].abs = readOffset /\ LiveEnd(z) = reader[r].pos
      /\ readOffset \in Nat /\ reader[r].pos \in Nat
      /\ readOffset < reader[r].pos
  <2>1. /\ Front(r) = readOffset
        /\ \A q \in Readers : Present(q) => reader[r].pos <= reader[q].pos
        /\ \A q \in Readers : Finishing(q) => q = r
        /\ Live(z) /\ mem[z].abs = readOffset /\ LiveEnd(z) = reader[r].pos
    BY <1>1, <1>3 DEF QueueInv, RingInv, LastInv
  <2> QED BY <2>1, LiveSpan DEF QueueInv, BaseInv
<1>5. /\ \A q \in Positions : q # z => /\ mem'[q] = mem[q]
                                       /\ Live(q)' <=> Live(q)
                                       /\ LiveEnd(q)' = LiveEnd(q)
      /\ ~Live(z)' /\ mem'[z].flag = "NOT_READY"
  <2>1. Rel(reader[r].pos - reader[r].len) = z
    BY <1>3, <1>4 DEF Front
  <2>2. /\ \A q \in Positions : q # z => mem'[q] = mem[q]
        /\ mem'[z].flag = "NOT_READY"
    BY <2>1 DEF ClearBuffer, Blanked, QueueInv, BaseInv, TypeOK, Headers
  <2> QED BY <2>2 DEF Live, LiveEnd
<1>6. \A q \in Readers : /\ reader'[q].pos = reader[q].pos
                         /\ reader'[q].until = reader[q].until
                         /\ Present(q)' <=> Present(q)
                         /\ Finishing(q)' <=> Finishing(q)
                         /\ Front(q)' = Front(q)
                         /\ Slot(q)' = Slot(q)
                         /\ Slot(q) \in Positions
                         /\ reader'[q].pc # "clearing"
  BY <1>1, <1>2, <1>4, ReaderTyping
  DEF Present, Finishing, Front, Slot, QueueInv, BaseInv
<1>7. \A o : Sharers(reader', o) = Sharers(reader, o)
  BY <1>1, <1>2, SameSharers
<1>8. \A w \in Writers : /\ Active(w)' <=> Active(w)
                         /\ Owns(w)' <=> Owns(w)
                         /\ EndOfClaim(w)' = EndOfClaim(w)
                         /\ HeaderOf(w)' = HeaderOf(w)
  BY <1>1 DEF Active, Owns, EndOfClaim, HeaderOf
<1>9. SharedInv'
  BY <1>5, <1>6 DEF QueueInv, RingInv, SharedInv, OneReader
<1>10. WatermarkInv'
  BY <1>1, <1>6 DEF QueueInv, RingInv, WatermarkInv
<1>11. SlotInv'
  <2> SUFFICES ASSUME NEW q \in Readers, q # r
      PROVE
      /\ reader[q].pc = "loaded" =>
           Live(Slot(q))' /\ reader[q].flag = mem'[Slot(q)].flag
      /\ reader[q].pc \in {"holding", "releasing"} =>
           Live(Slot(q))' /\ mem'[Slot(q)].abs = reader[q].pos
      /\ reader[q].pc = "holding" =>
           mem'[Slot(q)].kind = "NORMAL" /\ mem'[Slot(q)].flag = "READY"
    BY <1>2, <1>6 DEF SlotInv
  <2>1. PICK s \in Positions : s = Slot(q)
    BY <1>6
  <2>2. Live(Slot(q))' <=> Live(s)'
    BY <1>6, <2>1 DEF Live
  <2>3. reader[q].pc = "loaded" => s # z
    <3>1. Rel(reader[r].pos - reader[r].len) = z
      BY <1>3, <1>4 DEF Front
    <3> QED BY <1>1, <1>2, <2>1, <3>1 DEF NoClearMidPoll, MidPoll
  <2>4. reader[q].pc \in {"holding", "releasing"} => s # z
    <3>1. reader[q].pc \in {"holding", "releasing"} =>
            Present(q) /\ mem[s].abs = reader[q].pos
      BY <2>1 DEF QueueInv, RingInv, SlotInv, Present
    <3>2. reader[q].pos \in Nat
      BY ReaderTyping DEF QueueInv, BaseInv
    <3> QED BY <1>4, <3>1, <3>2
  <2> QED BY <1>5, <2>1, <2>2, <2>3, <2>4 DEF QueueInv, RingInv, SlotInv
<1>12. LastInv'
  BY <1>1, <1>6 DEF QueueInv, RingInv, LastInv
<1>13. ClaimInv'
  <2> SUFFICES ASSUME NEW w \in Writers, Active(w)
      PROVE
      /\ writer[w].readers = Cardinality(Sharers(reader', writer[w].off))
      /\ \E q \in Readers : Present(q)' /\ reader'[q].pos <= writer[w].off
      /\ \A q \in Readers : \/ reader'[q].pos <= writer[w].off
                            \/ EndOfClaim(w) <= reader'[q].pos
    BY <1>1, <1>8 DEF QueueInv, RingInv, ClaimInv, Awaited
  <2> QED BY <1>6, <1>7 DEF QueueInv, RingInv, ClaimInv, Awaited
<1>14. LiveInv'
  <2> SUFFICES ASSUME NEW p \in Positions, p # z, Live(p)
      PROVE
      /\ \A q \in Readers : \/ reader'[q].pos <= mem[p].abs
                            \/ LiveEnd(p) <= reader'[q].pos
      /\ \E q \in Readers : Present(q)' /\ reader'[q].pos <= mem[p].abs
      /\ mem[p].readers = Cardinality(Sharers(reader', mem[p].abs))
    BY <1>1, <1>5 DEF QueueInv, RingInv, LiveInv, Awaited
  <2>1. mem[p].abs # readOffset
    BY <1>3 DEF QueueInv, RingInv, LiveInv
  <2> QED BY <1>6, <1>7, <2>1 DEF QueueInv, RingInv, LiveInv, Awaited
<1>15. ApartInv'
  BY <1>1, <1>5, <1>8 DEF QueueInv, RingInv, ApartInv
<1>16. HeaderInv'
  <2>1. \A w \in Writers : Owns(w) => mem'[HeaderOf(w)] = mem[HeaderOf(w)]
    BY <1>4, <1>5, OwnerSlotFree
  <2> QED BY <1>1, <1>8, <2>1 DEF QueueInv, RingInv, HeaderInv, Owns
<1> QED BY <1>9, <1>10, <1>11, <1>12, <1>13, <1>14, <1>15, <1>16 DEF RingInv

\* The last reader moves the watermark to its own offset, which no other reader
\* and no message is behind.
LEMMA AdvanceStep ==
  ASSUME QueueInv, NEW r \in Readers, AdvanceWatermark(r)
  PROVE  RingInv'
<1>1. /\ reader[r].pc = "advancing" /\ Finishing(r) /\ Present(r)
      /\ UNCHANGED <<writeOffset, mem, writer>>
  BY DEF AdvanceWatermark, Finishing, Present
<1>2. /\ \A q \in Readers : q # r => reader'[q] = reader[q]
      /\ reader'[r].pc \in {"polling", "draining"}
      /\ reader'[r].pos = reader[r].pos
      /\ reader'[r].len = 0
      /\ reader'[r].until = reader[r].until
  <2>1. Resume(r) \in {"polling", "draining"}
    BY DEF Resume
  <2> QED BY <2>1 DEF AdvanceWatermark, QueueInv, BaseInv, TypeOK, ReaderRecords
<1>3. PICK a \in Nat : a = reader[r].pos
  BY ReaderTyping DEF QueueInv, BaseInv
<1>4. /\ Front(r) = readOffset
      /\ \A q \in Readers : Present(q) => a <= reader[q].pos
      /\ \A q \in Readers : Finishing(q) => q = r
  BY <1>1, <1>3 DEF QueueInv, RingInv, LastInv
<1>5. readOffset' = a /\ readOffset \in Nat /\ readOffset <= a
  <2>1. readOffset + reader[r].len = a /\ readOffset <= a
    BY <1>3, <1>4, FrontTyping DEF QueueInv, BaseInv
  <2> QED BY <2>1 DEF AdvanceWatermark, WatermarkAfter, QueueInv, BaseInv, TypeOK
<1>6. /\ \A q \in Readers : /\ reader'[q].pos = reader[q].pos
                            /\ reader'[q].until = reader[q].until
                            /\ Present(q)' <=> Present(q)
                            /\ ~Finishing(q)'
                            /\ reader'[q].pc # "clearing"
                            /\ reader[q].pc # "clearing"
                            /\ Slot(q)' = Slot(q)
      /\ Front(r)' = a
      /\ \A q \in Readers : q # r => Front(q)' = reader[q].pos
  <2>1. \A q \in Readers : q # r => Front(q) = reader[q].pos
    BY <1>4, FrontTyping DEF QueueInv, BaseInv
  <2>2. \A q \in Readers : q # r => Front(q)' = Front(q)
    BY <1>2 DEF Front
  <2> QED BY <1>1, <1>2, <1>3, <1>4, <2>1, <2>2
      DEF Present, Finishing, Front, Slot
<1>7. \A o : Sharers(reader', o) = Sharers(reader, o)
  BY <1>1, <1>2, SameSharers
<1>8. /\ \A w \in Writers : /\ Active(w)' <=> Active(w)
                            /\ Owns(w)' <=> Owns(w)
                            /\ EndOfClaim(w)' = EndOfClaim(w)
                            /\ HeaderOf(w)' = HeaderOf(w)
      /\ \A p \in Positions : (Live(p)' <=> Live(p)) /\ LiveEnd(p)' = LiveEnd(p)
  BY <1>1 DEF Active, Owns, EndOfClaim, HeaderOf, Live, LiveEnd
<1>9. SharedInv'
  BY <1>1, <1>6 DEF QueueInv, RingInv, SharedInv, OneReader
<1>10. WatermarkInv'
  <2>1. \A q \in Readers : Present(q)' => a <= Front(q)'
    BY <1>4, <1>6
  <2> QED BY <1>1, <1>5, <1>6, <2>1 DEF QueueInv, RingInv, WatermarkInv
<1>11. SlotInv'
  <2> SUFFICES ASSUME NEW q \in Readers, q # r
      PROVE
      /\ reader[q].pc = "loaded" =>
           Live(Slot(q)) /\ reader[q].flag = mem[Slot(q)].flag
      /\ reader[q].pc \in {"holding", "releasing"} =>
           Live(Slot(q)) /\ mem[Slot(q)].abs = reader[q].pos
      /\ reader[q].pc = "holding" =>
           mem[Slot(q)].kind = "NORMAL" /\ mem[Slot(q)].flag = "READY"
    BY <1>1, <1>2, <1>6 DEF SlotInv, Live
  <2> QED BY DEF QueueInv, RingInv, SlotInv
<1>12. LastInv'
  BY <1>6 DEF LastInv
<1>13. ClaimInv'
  <2> SUFFICES ASSUME NEW w \in Writers
      PROVE
      /\ Active(w) =>
         /\ writer[w].readers = Cardinality(Sharers(reader', writer[w].off))
         /\ \E q \in Readers : Present(q)' /\ reader'[q].pos <= writer[w].off
         /\ \A q \in Readers : \/ reader'[q].pos <= writer[w].off
                               \/ EndOfClaim(w) <= reader'[q].pos
      /\ Owns(w) => EndOfClaim(w) <= a + QueueSize
    BY <1>1, <1>5, <1>8 DEF QueueInv, RingInv, ClaimInv, Awaited
  <2>1. Owns(w) => EndOfClaim(w) <= a + QueueSize
    BY <1>5, OwnerWindow, LayoutAssumption
  <2> QED BY <1>6, <1>7, <2>1 DEF QueueInv, RingInv, ClaimInv, Awaited
<1>14. LiveInv'
  <2> SUFFICES ASSUME NEW p \in Positions, Live(p)
      PROVE
      /\ a <= mem[p].abs
      /\ LiveEnd(p) <= a + QueueSize
      /\ \A q \in Readers : \/ reader'[q].pos <= mem[p].abs
                            \/ LiveEnd(p) <= reader'[q].pos
      /\ \E q \in Readers : Present(q)' /\ reader'[q].pos <= mem[p].abs
      /\ mem[p].readers = Cardinality(Sharers(reader', mem[p].abs))
    BY <1>1, <1>5, <1>8 DEF QueueInv, RingInv, LiveInv, Awaited
  <2>1. LiveEnd(p) <= readOffset + QueueSize
    BY DEF QueueInv, RingInv, LiveInv
  <2>2. LiveEnd(p) \in Nat /\ mem[p].abs \in Nat
    BY LiveSpan DEF QueueInv, BaseInv
  <2>3. PICK q \in Readers : Present(q) /\ reader[q].pos <= mem[p].abs
    BY <1>6 DEF QueueInv, RingInv, LiveInv, Awaited
  <2>4. a <= mem[p].abs
    BY <1>4, <2>2, <2>3, ReaderTyping DEF QueueInv, BaseInv
  <2> QED BY <1>5, <1>6, <1>7, <2>1, <2>2, <2>3, <2>4, LayoutAssumption
      DEF QueueInv, RingInv, LiveInv
<1>15. ApartInv'
  BY <1>1, <1>8 DEF QueueInv, RingInv, ApartInv
<1>16. HeaderInv'
  BY <1>1, <1>8 DEF QueueInv, RingInv, HeaderInv
<1> QED BY <1>9, <1>10, <1>11, <1>12, <1>13, <1>14, <1>15, <1>16 DEF RingInv

\* Every step of a reader, the closing with one reader only.
LEMMA ReaderStep ==
  ASSUME QueueInv, Served, NEW r \in Readers, NoClearMidPoll,
         \/ Join(r) \/ ReaderProgress(r) \/ MarkAsRead(r)
         \/ OneReader /\ (CloseReader(r) \/ DrainNext(r))
  PROVE  RingInv'
BY JoinStep, PollLoadStep, PollCheckStep, ReleaseStep, ClearStep, AdvanceStep,
   MarkStep, CloseStep
DEF ReaderProgress

-----------------------------------------------------------------------------
(* The theorems *)

LEMMA BaseStep ==
  ASSUME Served, BaseInv, [Next]_vars
  PROVE  BaseInv'
BY TypeStep, CountedStep DEF Served, BaseInv

LEMMA QueueStep ==
  ASSUME Served, QueueInv, [Next]_vars, OneReader \/ [FanoutNext]_vars
  PROVE  QueueInv'
<1>1. BaseInv'
  BY BaseStep DEF QueueInv
<1>2. CASE UNCHANGED vars
  BY <1>2 DEF vars, QueueInv, BaseInv, TypeOK, ShapeInv, LeavingInv,
     ReadersCounted, Attached, RingInv, SharedInv, WatermarkInv, SlotInv,
     LastInv, ClaimInv, LiveInv, ApartInv, HeaderInv, Active, Owns, Live,
     LiveEnd, Present, Finishing, Awaited, Front, Slot, EndOfClaim, HeaderOf
<1>3. CASE OneReader /\ Next
  <2>1. NoClearMidPoll
    BY <1>3 DEF OneReader, NoClearMidPoll, MidPoll
  <2>2. RingInv'
    BY <1>3, <2>1, WriterStep, ReaderStep
    DEF Next, SteadyNext, AbortNext, DropNext, KeepNext, CloseNext
  <2> QED BY <1>1, <2>2 DEF QueueInv
<1>4. CASE FanoutNext
  <2>1. RingInv'
    BY <1>4, WriterStep, ReaderStep
    DEF FanoutNext, SteadyNext, DropNext, KeepNext
  <2> QED BY <1>1, <2>1 DEF QueueInv
<1> QED BY <1>2, <1>3, <1>4

LEMMA BaseInit ==
  ASSUME Init
  PROVE  BaseInv
<1>1. {r \in Readers : Attached(r)} = {}
  BY DEF Init, Attached
<1>2. LeavingInv /\ ReadersCounted
  BY <1>1, FS_EmptySet DEF Init, LeavingInv, ReadersCounted
<1> QED BY <1>2, TypeInit DEF BaseInv

\* QueueInv holds in every reachable state: with one reader, whatever it and
\* the writers do; and with any number of readers, as long as nobody aborts or
\* closes and no header is cleared between the two looks of a poll.
THEOREM QueueInvariant ==
  ASSUME Served
  PROVE  /\ OneReader => (Spec => []QueueInv)
         /\ FanoutSpec => []QueueInv
<1>1. Init => QueueInv
  BY BaseInit, QueueInit
<1>2. OneReader => (Spec => []QueueInv)
  <2> SUFFICES ASSUME OneReader PROVE Spec => []QueueInv
    OBVIOUS
  <2>1. QueueInv /\ [Next]_vars => QueueInv'
    BY QueueStep
  <2> QED BY <1>1, <2>1, PTL DEF Spec
<1>3. FanoutSpec => []QueueInv
  <2>1. [FanoutNext]_vars => [Next]_vars
    BY DEF FanoutNext, Next
  <2>2. QueueInv /\ [FanoutNext]_vars => QueueInv'
    BY <2>1, QueueStep
  <2> QED BY <1>1, <2>2, PTL DEF FanoutSpec
<1> QED BY <1>2, <1>3

\* wait_for_next_write_offset keeps a writer out of what a reader "is or is
\* going to be reading".
THEOREM QueueNoOverwrite ==
  ASSUME Served
  PROVE  /\ OneReader => (Spec => []NoOverwrite)
         /\ FanoutSpec => []NoOverwrite
<1>1. QueueInv => NoOverwrite
  BY QueueInvImplies
<1>2. /\ OneReader => (Spec => []QueueInv)
      /\ FanoutSpec => []QueueInv
  BY QueueInvariant
<1> QED BY <1>1, <1>2, PTL

\* claim_buffer's "carte blanche": two writers never own the same byte, however
\* many laps their claims are apart.
THEOREM QueueWritersDisjoint ==
  ASSUME Served
  PROVE  /\ OneReader => (Spec => []WritersDisjoint)
         /\ FanoutSpec => []WritersDisjoint
<1>1. QueueInv => WritersDisjoint
  BY QueueInvImplies
<1>2. /\ OneReader => (Spec => []QueueInv)
      /\ FanoutSpec => []QueueInv
  BY QueueInvariant
<1> QED BY <1>1, <1>2, PTL

\* What poll_buffer hands out to the one reader is the message at its offset,
\* complete, and stays so until the reader releases it, whatever the reader and
\* the writers do, aborts and the drain of close included; in configurations
\* whose headers can be kept by position.
THEOREM QueueHeldIntact ==
  ASSUME Served, HeadersByPosition
  PROVE  OneReader => (Spec => []HeldIntact)
<1>1. QueueInv => HeldIntact
  BY QueueInvImplies
<1>2. OneReader => (Spec => []QueueInv)
  BY QueueInvariant
<1> QED BY <1>1, <1>2, PTL

\* The other reader neither clears nor reuses a message that is held, with any
\* number of readers, as long as nobody aborts or closes and no header is
\* cleared between the two looks of a poll (NoClearMidPoll: without it the code
\* does hand out such a message).
THEOREM FanoutHeldIntact ==
  ASSUME Served, HeadersByPosition
  PROVE  FanoutSpec => []HeldIntact
<1>1. QueueInv => HeldIntact
  BY QueueInvImplies
<1>2. FanoutSpec => []QueueInv
  BY QueueInvariant
<1> QED BY <1>1, <1>2, PTL

\* The assertion at the end of release_buffer: the last reader of a message
\* moves the watermark to its own offset.
THEOREM QueueWatermarkExact ==
  ASSUME Served
  PROVE  /\ OneReader => (Spec => []WatermarkExact)
         /\ FanoutSpec => []WatermarkExact
<1>1. QueueInv => WatermarkExact
  BY QueueInvImplies
<1>2. /\ OneReader => (Spec => []QueueInv)
      /\ FanoutSpec => []QueueInv
  BY QueueInvariant
<1> QED BY <1>1, <1>2, PTL

\* As long as nobody closes, release_buffer's fetch_sub counts exactly: a
\* committed header counts the attached readers that have still to release the
\* message, however they join, poll, keep and release between two laps.
THEOREM QueueReaderCountExact ==
  ASSUME Served
  PROVE  FanoutSpec => []ReaderCountExact
<1> DEFINE NobodyLeaves == \A r \in Readers : reader[r].until = NotClosing
<1>1. FanoutSpec => []QueueInv
  BY QueueInvariant
<1>2. Init => NobodyLeaves
  BY DEF Init
<1>3. QueueInv /\ NobodyLeaves /\ [FanoutNext]_vars => NobodyLeaves'
  <2> SUFFICES ASSUME QueueInv, NobodyLeaves, [FanoutNext]_vars
               PROVE  NobodyLeaves'
    OBVIOUS
  <2>1. CASE UNCHANGED reader
    BY <2>1
  <2>2. ASSUME NEW r \in Readers, Join(r) PROVE NobodyLeaves'
    BY <2>2 DEF Join, QueueInv, BaseInv, TypeOK, ReaderRecords
  <2>3. ASSUME NEW r \in Readers, ReaderProgress(r) \/ MarkAsRead(r)
        PROVE  NobodyLeaves'
    BY <2>3, KeepsCounted DEF QueueInv, BaseInv
  <2>4. ASSUME NEW w \in Writers,
               \/ CheckReady(w) \/ (\E size \in Sizes : ClaimBuffer(w, size))
               \/ WriterProgress(w) \/ DropWrapper(w)
        PROVE  UNCHANGED reader
    BY <2>4 DEF CheckReady, ClaimBuffer, WriterProgress, RetryClaim, Grant,
       InsertSkip, CommitSkip, WriteHeader, WritePayload, CommitBuffer,
       DropWrapper
  <2> QED BY <2>1, <2>2, <2>3, <2>4
      DEF FanoutNext, SteadyNext, DropNext, KeepNext, vars
<1>4. QueueInv /\ NobodyLeaves => ReaderCountExact
  BY QueueInvCounts
<1> QED BY <1>1, <1>2, <1>3, <1>4, PTL DEF FanoutSpec
=============================================================================
