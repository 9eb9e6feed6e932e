---------------------- MODULE IpcQueueRefinementProofs ----------------------
(***************************************************************************)
(* The queue implements the broadcast channel: with one reader, whatever   *)
(* the clients do, and with any number of readers under FanoutSpec.        *)
(***************************************************************************)
EXTENDS IpcQueueProofs, IpcQueueRefinement

-----------------------------------------------------------------------------
(* LogInv is inductive *)

LEMMA LogInit ==
  ASSUME Init, Served
  PROVE  LogInv
<1>1. DOMAIN claims = {}
  BY DEF Init
<1>2. \A w \in Writers : ~Active(w)
  BY DEF Init, Served, Active, Owns
<1>3. \A p \in Positions : ~Live(p)
  BY DEF Init, BlankHeader, Live
<1>4. \A r \in Readers : reader[r].pos = writeOffset
  BY DEF Init
<1> QED BY <1>1, <1>2, <1>3, <1>4 DEF LogInv

\* A step that makes and settles no claim, and takes a reader nowhere but to
\* the start of a claim.
LEMMA LogQuiet ==
  ASSUME LogInv, UNCHANGED <<claims, writeOffset>>,
         \A w \in Writers : Active(w)' =>
           /\ Active(w)
           /\ writer'[w].off = writer[w].off
           /\ EndOfClaim(w)' = EndOfClaim(w),
         \A p \in Positions : Live(p)' =>
           /\ Live(p)
           /\ mem'[p].abs = mem[p].abs
           /\ StatusOf(mem'[p]) = StatusOf(mem[p])
           /\ LiveEnd(p)' = LiveEnd(p),
         \A r \in Readers :
           \/ reader'[r].pos \in {reader[r].pos, writeOffset}
           \/ \E i \in DOMAIN claims : claims[i].off = reader'[r].pos
  PROVE  LogInv'
<1>1. \A i, j \in DOMAIN claims' : i < j => claims'[i].off < claims'[j].off
  BY DEF LogInv
<1>2. \A i \in DOMAIN claims' : claims'[i].off < writeOffset'
  BY DEF LogInv
<1>3. \A w \in Writers : Active(w)' =>
        Claimed(writer[w].off, EndOfClaim(w), "open")'
  BY DEF LogInv, Claimed, NextOffset
<1>4. \A p \in Positions : Live(p)' =>
        Claimed(mem[p].abs, LiveEnd(p), StatusOf(mem[p]))'
  BY DEF LogInv, Claimed, NextOffset
<1>5. \A r \in Readers :
        \/ reader'[r].pos = writeOffset'
        \/ \E i \in DOMAIN claims' : claims'[i].off = reader'[r].pos
  BY DEF LogInv
<1> QED BY <1>1, <1>2, <1>3, <1>4, <1>5 DEF LogInv

\* The compare-and-swap adds a claim that starts where the last one ends.
LEMMA Appended ==
  ASSUME NEW c \in Seq(ClaimRecords), NEW e \in ClaimRecords
  PROVE  /\ Append(c, e) \in Seq(ClaimRecords)
         /\ Len(Append(c, e)) = Len(c) + 1
         /\ DOMAIN c = 1 .. Len(c)
         /\ DOMAIN Append(c, e) = 1 .. (Len(c) + 1)
         /\ Append(c, e)[Len(c) + 1] = e
         /\ \A i \in 1 .. Len(c) : Append(c, e)[i] = c[i]
BY AppendProperties, LenProperties

LEMMA LogReserve ==
  ASSUME QueueInv, LogInv, NEW w \in Writers, NEW size \in Sizes,
         writer[w].pc \in {"idle", "claiming"}, Reserve(w, size),
         UNCHANGED <<mem, reader>>
  PROVE  LogInv'
<1> DEFINE e == [off |-> writeOffset, status |-> "open"]
           n == Len(claims)
<1>1. /\ writeOffset \in Nat /\ writeOffset' \in Nat
      /\ writeOffset < writeOffset'
  BY ReserveShape DEF QueueInv, BaseInv, TypeOK
<1>2. claims \in Seq(ClaimRecords) /\ e \in ClaimRecords /\ n \in Nat
  BY <1>1, LenProperties DEF QueueInv, BaseInv, TypeOK, ClaimRecords
<1>3. claims' = Append(claims, e)
  BY DEF Reserve
<1>4. e.off = writeOffset /\ e.status = "open"
  OBVIOUS
<1> HIDE DEF e
<1>5. /\ DOMAIN claims = 1 .. n
      /\ DOMAIN claims' = 1 .. (n + 1)
      /\ Len(claims') = n + 1
      /\ claims'[n + 1].off = writeOffset
      /\ claims'[n + 1].status = "open"
      /\ \A i \in 1 .. n : claims'[i] = claims[i]
  BY <1>2, <1>3, <1>4, Appended
<1>6. \A i \in 1 .. n : claims[i].off \in Nat /\ claims[i].off < writeOffset
  <2> SUFFICES ASSUME NEW i \in 1 .. n
               PROVE  claims[i].off \in Nat /\ claims[i].off < writeOffset
    OBVIOUS
  <2>1. claims[i] \in ClaimRecords
    BY <1>2, ElementOfSeq
  <2> QED BY <1>5, <2>1 DEF LogInv, ClaimRecords
<1> HIDE DEF n
<1>7. \A i \in 1 .. n : NextOffset(i)' = NextOffset(i)
  <2> SUFFICES ASSUME NEW i \in 1 .. n
               PROVE  (IF i = n + 1 THEN writeOffset' ELSE claims'[i + 1].off)
                        = (IF i = n THEN writeOffset ELSE claims[i + 1].off)
    BY <1>5 DEF NextOffset, n
  <2>1. CASE i = n
    BY <1>2, <1>5, <2>1
  <2>2. CASE i # n
    BY <1>2, <1>5, <2>2
  <2> QED BY <2>1, <2>2
<1>8. \A off, end, status :
        (\E i \in DOMAIN claims : /\ claims[i].off = off
                                  /\ NextOffset(i) = end
                                  /\ claims[i].status = status)
        => \E i \in DOMAIN claims' : /\ claims'[i].off = off
                                     /\ NextOffset(i)' = end
                                     /\ claims'[i].status = status
  BY <1>2, <1>5, <1>7
<1>9. \A i, j \in DOMAIN claims' : i < j => claims'[i].off < claims'[j].off
  <2> SUFFICES ASSUME NEW i \in 1 .. (n + 1), NEW j \in 1 .. (n + 1), i < j
               PROVE  claims'[i].off < claims'[j].off
    BY <1>5
  <2>1. i \in 1 .. n
    BY <1>2
  <2>2. CASE j = n + 1
    BY <1>5, <1>6, <2>1, <2>2
  <2>3. CASE j \in 1 .. n
    BY <1>5, <2>1, <2>3 DEF LogInv
  <2> QED BY <1>2, <2>2, <2>3
<1>10. \A i \in DOMAIN claims' : claims'[i].off < writeOffset'
  <2> SUFFICES ASSUME NEW i \in 1 .. (n + 1)
               PROVE  claims'[i].off < writeOffset'
    BY <1>5
  <2>1. CASE i = n + 1
    BY <1>1, <1>5, <2>1
  <2>2. CASE i \in 1 .. n
    BY <1>1, <1>5, <1>6, <2>2
  <2> QED BY <1>2, <2>1, <2>2
<1>11. \A v \in Writers : Active(v)' =>
         Claimed(writer[v].off, EndOfClaim(v), "open")'
  <2> SUFFICES ASSUME NEW v \in Writers, Active(v)'
               PROVE  \E i \in DOMAIN claims' :
                        /\ claims'[i].off = writer'[v].off
                        /\ NextOffset(i)' = EndOfClaim(v)'
                        /\ claims'[i].status = "open"
    BY DEF Claimed
  <2>1. CASE v = w
    <3>1. writer'[w].off = writeOffset /\ EndOfClaim(w)' = writeOffset'
      BY DEF Reserve, EndOfClaim, QueueInv, BaseInv, TypeOK
    <3>2. \A i : i = n + 1 => NextOffset(i)' = writeOffset'
      BY <1>5 DEF NextOffset
    <3>3. n + 1 \in DOMAIN claims'
      BY <1>2, <1>5
    <3> QED BY <1>5, <2>1, <3>1, <3>2, <3>3
  <2>2. CASE v # w
    <3>1. /\ writer'[v] = writer[v]
          /\ EndOfClaim(v)' = EndOfClaim(v)
          /\ Active(v)
      BY <2>2 DEF Reserve, EndOfClaim, Active, Owns, QueueInv, BaseInv,
         TypeOK
    <3> QED BY <1>8, <3>1 DEF LogInv, Claimed
  <2> QED BY <2>1, <2>2
<1>12. \A p \in Positions : Live(p)' =>
         Claimed(mem[p].abs, LiveEnd(p), StatusOf(mem[p]))'
  <2> SUFFICES ASSUME NEW p \in Positions, Live(p)'
               PROVE  \E i \in DOMAIN claims' :
                        /\ claims'[i].off = mem[p].abs
                        /\ NextOffset(i)' = LiveEnd(p)
                        /\ claims'[i].status = StatusOf(mem[p])
    BY DEF Claimed, LiveEnd
  <2>1. Live(p)
    BY DEF Live
  <2> QED BY <1>8, <2>1 DEF LogInv, Claimed
<1>13. \A r \in Readers :
         \/ reader'[r].pos = writeOffset'
         \/ \E i \in DOMAIN claims' : claims'[i].off = reader'[r].pos
  <2> SUFFICES ASSUME NEW r \in Readers
               PROVE  \E i \in DOMAIN claims' : claims'[i].off = reader[r].pos
    OBVIOUS
  <2>1. CASE reader[r].pos = writeOffset
    BY <1>2, <1>5, <2>1
  <2>2. CASE \E i \in DOMAIN claims : claims[i].off = reader[r].pos
    BY <1>2, <1>5, <2>2
  <2> QED BY <2>1, <2>2 DEF LogInv
<1> QED BY <1>9, <1>10, <1>11, <1>12, <1>13 DEF LogInv

\* A commit changes the status of the claim at its offset, and of no other.
LEMMA Settled ==
  ASSUME TypeOK, LogInv, NEW k \in DOMAIN claims,
         NEW status \in {"ready", "void"}, Settle(claims[k].off, status)
  PROVE  /\ DOMAIN claims' = DOMAIN claims
         /\ Len(claims') = Len(claims)
         /\ \A i \in DOMAIN claims :
              /\ claims'[i].off = claims[i].off
              /\ NextOffset(i)' = IF i = Len(claims) THEN writeOffset'
                                  ELSE NextOffset(i)
              /\ claims'[i].status =
                   IF i = k THEN status ELSE claims[i].status
<1>1. /\ DOMAIN claims = 1 .. Len(claims) /\ Len(claims) \in Nat
      /\ \A i \in DOMAIN claims : claims[i] \in ClaimRecords
  <2>1. claims \in Seq(ClaimRecords)
    BY DEF TypeOK
  <2> QED BY <2>1, LenProperties, ElementOfSeq
<1>2. /\ DOMAIN claims' = DOMAIN claims
      /\ claims' \in Seq(ClaimRecords)
  <2>1. claims[k].off \in Nat
    BY <1>1 DEF ClaimRecords
  <2>2. claims' \in Seq(ClaimRecords)
    BY <2>1, SettleTyping DEF TypeOK
  <2> QED BY <2>2 DEF Settle
<1>3. Len(claims') = Len(claims)
  <2>1. DOMAIN claims' = 1 .. Len(claims') /\ Len(claims') \in Nat
    BY <1>2, LenProperties
  <2> QED BY <1>1, <1>2, <2>1
<1>4. \A i \in DOMAIN claims : i # k => claims[i].off # claims[k].off
  <2> SUFFICES ASSUME NEW i \in DOMAIN claims, i # k
               PROVE  claims[i].off # claims[k].off
    OBVIOUS
  <2>1. claims[i].off \in Nat /\ claims[k].off \in Nat
    BY <1>1 DEF ClaimRecords
  <2>2. i < k \/ k < i
    BY <1>1
  <2> QED BY <2>1, <2>2 DEF LogInv
<1>5. \A i \in DOMAIN claims :
        /\ claims'[i].off = claims[i].off
        /\ claims'[i].status = IF i = k THEN status ELSE claims[i].status
  <2> SUFFICES ASSUME NEW i \in DOMAIN claims
               PROVE  /\ claims'[i].off = claims[i].off
                      /\ claims'[i].status =
                           IF i = k THEN status ELSE claims[i].status
    OBVIOUS
  <2>1. CASE i = k
    <3>1. claims'[k] = [claims[k] EXCEPT !.status = status]
      BY DEF Settle
    <3> QED BY <1>1, <2>1, <3>1 DEF ClaimRecords
  <2>2. CASE i # k
    <3>1. claims'[i] = claims[i]
      BY <1>4, <2>2 DEF Settle
    <3> QED BY <2>2, <3>1
  <2> QED BY <2>1, <2>2
<1>6. \A i \in DOMAIN claims :
        NextOffset(i)' = IF i = Len(claims) THEN writeOffset' ELSE NextOffset(i)
  <2> SUFFICES ASSUME NEW i \in DOMAIN claims, i # Len(claims)
               PROVE  claims'[i + 1].off = claims[i + 1].off
    BY <1>3 DEF NextOffset
  <2>1. i + 1 \in DOMAIN claims
    BY <1>1
  <2> QED BY <1>5, <2>1
<1> QED BY <1>2, <1>3, <1>5, <1>6

LEMMA LogCommit ==
  ASSUME QueueInv, LogInv, NEW w \in Writers,
         writer[w].pc \in {"padded", "filling", "written"},
         NEW status \in {"ready", "void"},
         NEW pc \in {"idle", "claiming"}, GoWriter(w, pc),
         \A q \in Positions : q # HeaderOf(w) => mem'[q] = mem[q],
         mem'[HeaderOf(w)].abs = mem[HeaderOf(w)].abs,
         mem'[HeaderOf(w)].size = mem[HeaderOf(w)].size,
         status = StatusOf(mem'[HeaderOf(w)]),
         Settle(writer[w].off, status),
         UNCHANGED <<writeOffset, reader>>
  PROVE  LogInv'
<1>1. Active(w) /\ Owns(w) /\ pc \in WriterStates
  BY DEF Active, Owns, WriterStates
<1>2. PICK k \in DOMAIN claims : /\ claims[k].off = writer[w].off
                                 /\ NextOffset(k) = EndOfClaim(w)
                                 /\ claims[k].status = "open"
  BY <1>1 DEF LogInv, Claimed
<1>3. /\ DOMAIN claims' = DOMAIN claims
      /\ \A i \in DOMAIN claims :
           /\ claims'[i].off = claims[i].off
           /\ NextOffset(i)' = NextOffset(i)
           /\ claims'[i].status = IF i = k THEN status ELSE claims[i].status
  BY <1>2, Settled DEF QueueInv, BaseInv, NextOffset
<1>4. PICK p \in Positions : p = HeaderOf(w)
  BY PositionTyping DEF QueueInv, BaseInv
<1>5. /\ \A q \in Positions : q # p => mem'[q] = mem[q]
      /\ mem'[p].abs = mem[p].abs
      /\ mem'[p].size = mem[p].size
      /\ status = StatusOf(mem'[p])
  BY <1>4
<1>6. /\ mem[p].abs = writer[w].off
      /\ LiveEnd(p) = EndOfClaim(w)
  BY <1>4 DEF QueueInv, RingInv, HeaderInv, LiveEnd
<1>7. \A i, j \in DOMAIN claims' : i < j => claims'[i].off < claims'[j].off
  BY <1>3 DEF LogInv
<1>8. \A i \in DOMAIN claims' : claims'[i].off < writeOffset'
  BY <1>3 DEF LogInv
<1>9. /\ writer[w].off \in Nat /\ EndOfClaim(w) \in Nat
      /\ writer[w].off < EndOfClaim(w)
  BY <1>1, OwnerWindow
<1>10. \A v \in Writers : Active(v)' =>
         Claimed(writer[v].off, EndOfClaim(v), "open")'
  <2> SUFFICES ASSUME NEW v \in Writers, Active(v)'
               PROVE  \E i \in DOMAIN claims' :
                        /\ claims'[i].off = writer'[v].off
                        /\ NextOffset(i)' = EndOfClaim(v)'
                        /\ claims'[i].status = "open"
    BY DEF Claimed
  <2>1. v # w
    BY <1>1, SameClaims DEF QueueInv, BaseInv, Active, Owns
  <2>2. /\ Active(v)
        /\ writer'[v].off = writer[v].off
        /\ EndOfClaim(v)' = EndOfClaim(v)
    BY <1>1, <2>1, SameClaims DEF QueueInv, BaseInv
  <2>3. PICK i \in DOMAIN claims : /\ claims[i].off = writer[v].off
                                   /\ NextOffset(i) = EndOfClaim(v)
                                   /\ claims[i].status = "open"
    BY <2>2 DEF LogInv, Claimed
  <2>4. writer[v].off # writer[w].off
    <3>1. /\ writer[v].off \in Nat /\ EndOfClaim(v) \in Nat
          /\ writer[v].off < EndOfClaim(v)
      BY <2>2, ClaimSpan DEF QueueInv, BaseInv, Active, Owns
    <3>2. Apart(writer[v].off, EndOfClaim(v), writer[w].off, EndOfClaim(w))
      BY <1>1, <2>1, <2>2 DEF QueueInv, RingInv, ApartInv
    <3> QED BY <1>9, <3>1, <3>2 DEF Apart
  <2>5. i # k
    BY <1>2, <2>3, <2>4
  <2> QED BY <1>3, <2>2, <2>3, <2>5
<1>11. \A q \in Positions : Live(q)' =>
         Claimed(mem[q].abs, LiveEnd(q), StatusOf(mem[q]))'
  <2> SUFFICES ASSUME NEW q \in Positions, Live(q)'
               PROVE  \E i \in DOMAIN claims' :
                        /\ claims'[i].off = mem'[q].abs
                        /\ NextOffset(i)' = LiveEnd(q)'
                        /\ claims'[i].status = StatusOf(mem'[q])
    BY DEF Claimed
  <2>1. CASE q = p
    <3>1. LiveEnd(p)' = LiveEnd(p)
      BY <1>5 DEF LiveEnd
    <3> QED BY <1>2, <1>3, <1>5, <1>6, <2>1, <3>1
  <2>2. CASE q # p
    <3>1. Live(q) /\ LiveEnd(q)' = LiveEnd(q) /\ mem'[q] = mem[q]
      BY <1>5, <2>2 DEF Live, LiveEnd
    <3>2. PICK i \in DOMAIN claims :
            /\ claims[i].off = mem[q].abs
            /\ NextOffset(i) = LiveEnd(q)
            /\ claims[i].status = StatusOf(mem[q])
      BY <3>1 DEF LogInv, Claimed
    <3>3. i # k
      BY <1>2, <3>2 DEF StatusOf
    <3> QED BY <1>3, <3>1, <3>2, <3>3
  <2> QED BY <2>1, <2>2
<1>12. \A q \in Readers :
         \/ reader'[q].pos = writeOffset'
         \/ \E i \in DOMAIN claims' : claims'[i].off = reader'[q].pos
  BY <1>3 DEF LogInv
<1> QED BY <1>7, <1>8, <1>10, <1>11, <1>12 DEF LogInv

\* A writer that goes on with its claim, storing at most in its own header.
LEMMA LogWriter ==
  ASSUME QueueInv, LogInv, NEW w \in Writers,
         NEW pc \in WriterStates, GoWriter(w, pc),
         \/ UNCHANGED mem
         \/ /\ Owns(w)
            /\ \A p \in Positions : p # HeaderOf(w) => mem'[p] = mem[p]
            /\ mem'[HeaderOf(w)].flag = mem[HeaderOf(w)].flag,
         Active(w)' => Active(w),
         UNCHANGED <<writeOffset, claims, reader>>
  PROVE  LogInv'
<1>1. \A v \in Writers : Active(v)' =>
        /\ Active(v)
        /\ writer'[v].off = writer[v].off
        /\ EndOfClaim(v)' = EndOfClaim(v)
  BY SameClaims DEF QueueInv, BaseInv
<1>2. \A p \in Positions : Live(p)' => Live(p) /\ mem'[p] = mem[p]
  <2>1. CASE UNCHANGED mem
    BY <2>1 DEF Live
  <2>2. CASE /\ Owns(w)
             /\ \A p \in Positions : p # HeaderOf(w) => mem'[p] = mem[p]
             /\ mem'[HeaderOf(w)].flag = mem[HeaderOf(w)].flag
    BY <2>2, OwnerSlotFree DEF Live
  <2> QED BY <2>1, <2>2
<1>3. \A p \in Positions : Live(p)' =>
        /\ Live(p)
        /\ mem'[p].abs = mem[p].abs
        /\ StatusOf(mem'[p]) = StatusOf(mem[p])
        /\ LiveEnd(p)' = LiveEnd(p)
  BY <1>2 DEF LiveEnd
<1> QED BY <1>1, <1>3, LogQuiet

\* Readers that stay where they are, or go to the start of a claim.
LEMMA LogReader ==
  ASSUME LogInv, NEW r \in Readers,
         UNCHANGED <<writeOffset, claims, writer>>,
         \A p \in Positions : Live(p)' =>
           /\ Live(p)
           /\ mem'[p].abs = mem[p].abs
           /\ mem'[p].kind = mem[p].kind
           /\ mem'[p].flag = mem[p].flag
           /\ mem'[p].size = mem[p].size,
         \A q \in Readers : q # r => reader'[q] = reader[q],
         \/ reader'[r].pos \in {reader[r].pos, writeOffset}
         \/ \E i \in DOMAIN claims : claims[i].off = reader'[r].pos
  PROVE  LogInv'
<1>1. \A v \in Writers : Active(v)' =>
        /\ Active(v)
        /\ writer'[v].off = writer[v].off
        /\ EndOfClaim(v)' = EndOfClaim(v)
  BY DEF Active, Owns, EndOfClaim
<1>2. \A p \in Positions : Live(p)' =>
        /\ Live(p)
        /\ mem'[p].abs = mem[p].abs
        /\ StatusOf(mem'[p]) = StatusOf(mem[p])
        /\ LiveEnd(p)' = LiveEnd(p)
  BY DEF LiveEnd, StatusOf
<1> QED BY <1>1, <1>2, LogQuiet

\* The claim of the message a reader is at, and the step over it.
LEMMA ClaimAtSlot ==
  ASSUME QueueInv, LogInv, NEW r \in Readers, Live(Slot(r)),
         mem[Slot(r)].abs = reader[r].pos
  PROVE  \E i \in DOMAIN claims :
           /\ claims[i].off = reader[r].pos
           /\ claims[i].status = StatusOf(mem[Slot(r)])
           /\ reader[r].pos + Total(mem[Slot(r)].size) =
                IF i = Len(claims) THEN writeOffset ELSE claims[i + 1].off
<1>1. Slot(r) \in Positions
  BY ReaderTyping DEF QueueInv, BaseInv
<1> QED BY <1>1 DEF LogInv, Claimed, NextOffset, LiveEnd

LEMMA ReleaseEffect ==
  ASSUME QueueInv, NEW r \in Readers, ReleaseBuffer(r)
  PROVE  /\ reader[r].pc \in {"holding", "releasing"}
         /\ Live(Slot(r)) /\ mem[Slot(r)].abs = reader[r].pos
         /\ \A q \in Readers : q # r => reader'[q] = reader[q]
         /\ reader'[r].pos = reader[r].pos + Total(mem[Slot(r)].size)
         /\ reader'[r].until = reader[r].until
         /\ reader'[r].pc \notin {"out", "holding", "releasing"}
         /\ \A p \in Positions : /\ mem'[p].abs = mem[p].abs
                                 /\ mem'[p].size = mem[p].size
                                 /\ mem'[p].kind = mem[p].kind
                                 /\ mem'[p].flag = mem[p].flag
         /\ UNCHANGED <<writeOffset, writer, claims>>
<1>1. /\ reader[r].pc \in {"holding", "releasing"}
      /\ UNCHANGED <<writeOffset, writer, claims>>
  BY DEF ReleaseBuffer
<1>2. Live(Slot(r)) /\ mem[Slot(r)].abs = reader[r].pos
  BY <1>1 DEF QueueInv, RingInv, SlotInv
<1>3. /\ reader'[r] = AfterRelease(r, mem[Slot(r)])
      /\ \A q \in Readers : q # r => reader'[q] = reader[q]
  BY DEF ReleaseBuffer, QueueInv, BaseInv, TypeOK
<1>4. /\ reader'[r].pos = reader[r].pos + Total(mem[Slot(r)].size)
      /\ reader'[r].until = reader[r].until
      /\ reader'[r].pc \in {"clearing", "polling", "draining"}
  BY <1>3 DEF AfterRelease, Resume
<1>5. \A p \in Positions : /\ mem'[p].abs = mem[p].abs
                           /\ mem'[p].size = mem[p].size
                           /\ mem'[p].kind = mem[p].kind
                           /\ mem'[p].flag = mem[p].flag
  BY ReaderTyping DEF ReleaseBuffer, QueueInv, BaseInv, TypeOK, Headers
<1> QED BY <1>1, <1>2, <1>3, <1>4, <1>5

LEMMA LogRelease ==
  ASSUME QueueInv, LogInv, NEW r \in Readers, ReleaseBuffer(r)
  PROVE  LogInv'
<1>1. PICK i \in DOMAIN claims :
        reader'[r].pos = IF i = Len(claims) THEN writeOffset
                                            ELSE claims[i + 1].off
  BY ReleaseEffect, ClaimAtSlot
<1>2. i # Len(claims) => i + 1 \in DOMAIN claims
  <2>1. DOMAIN claims = 1 .. Len(claims) /\ Len(claims) \in Nat
    BY LenProperties DEF QueueInv, BaseInv, TypeOK
  <2> QED BY <2>1
<1>3. \/ reader'[r].pos \in {reader[r].pos, writeOffset}
      \/ \E j \in DOMAIN claims : claims[j].off = reader'[r].pos
  BY <1>1, <1>2
<1>4. \A p \in Positions : Live(p)' =>
        /\ Live(p)
        /\ mem'[p].abs = mem[p].abs
        /\ mem'[p].kind = mem[p].kind
        /\ mem'[p].flag = mem[p].flag
        /\ mem'[p].size = mem[p].size
  BY ReleaseEffect DEF Live
<1> QED BY <1>3, <1>4, ReleaseEffect, LogReader

\* The steps of a reader that leave it where it is.
Stays(r) ==
  \/ PollLoad(r) \/ PollCheck(r) \/ ClearBuffer(r) \/ AdvanceWatermark(r)
  \/ MarkAsRead(r) \/ CloseReader(r) \/ DrainNext(r)

LEMMA StayEffect ==
  ASSUME QueueInv, NEW r \in Readers, Stays(r)
  PROVE  /\ \A q \in Readers : q # r => reader'[q] = reader[q]
         /\ reader'[r].pos = reader[r].pos
         /\ reader[r].pc # "out" /\ reader'[r].pc # "out"
         /\ reader'[r].until = reader[r].until \/ CloseReader(r)
         /\ reader[r].pc = "holding" =>
              MarkAsRead(r) /\ reader'[r].pc = "polling"
         /\ reader'[r].pc = "holding" =>
              /\ reader[r].pc = "loaded"
              /\ Live(Slot(r)) /\ mem[Slot(r)].abs = reader[r].pos
              /\ StatusOf(mem[Slot(r)]) = "ready"
         /\ reader'[r].pc = "releasing" =>
              \/ reader[r].until # NotClosing
              \/ UNCHANGED mem /\ StatusOf(mem[Slot(r)]) = "void"
         /\ \A p \in Positions : Live(p)' => Live(p) /\ mem'[p] = mem[p]
         /\ UNCHANGED <<writeOffset, writer, claims>>
<1>1. CASE PollLoad(r)
  BY <1>1 DEF PollLoad, QueueInv, BaseInv, TypeOK, ReaderRecords, Live
<1>2. CASE PollCheck(r)
  <2>1. /\ \A q \in Readers : q # r => reader'[q] = reader[q]
        /\ reader[r].pc = "loaded"
        /\ reader'[r].pc = AfterLoad(r, mem[Slot(r)])
        /\ reader'[r].pos = reader[r].pos
        /\ reader'[r].until = reader[r].until
        /\ UNCHANGED <<mem, writeOffset, writer, claims>>
    BY <1>2 DEF PollCheck, QueueInv, BaseInv, TypeOK, ReaderRecords
  <2>2. Live(Slot(r)) /\ reader[r].flag = mem[Slot(r)].flag
        /\ Slot(r) \in Positions
    BY <2>1, ReaderTyping DEF QueueInv, BaseInv, RingInv, SlotInv
  <2>3. /\ mem[Slot(r)].flag \in {"READY", "ABORTED"}
        /\ mem[Slot(r)].kind \in {"NORMAL", "PADDING"}
    BY <2>2 DEF Live, QueueInv, BaseInv, TypeOK, Headers, CommitFlag
  <2>4. /\ reader'[r].pc \in {"polling", "releasing", "holding"}
        /\ reader'[r].pc = "holding" => /\ mem[Slot(r)].abs = reader[r].pos
                                        /\ StatusOf(mem[Slot(r)]) = "ready"
        /\ reader'[r].pc = "releasing" => StatusOf(mem[Slot(r)]) = "void"
    BY <2>1, <2>2, <2>3 DEF AfterLoad, StatusOf
  <2> QED BY <2>1, <2>2, <2>4 DEF Live
<1>3. CASE ClearBuffer(r)
  <2>1. PICK z \in Positions : z = Rel(reader[r].pos - reader[r].len)
    <3>1. reader[r].pos - reader[r].len \in Nat
      BY FrontTyping DEF QueueInv, BaseInv, Front
    <3> QED BY <3>1, RelTyping DEF Positions
  <2>2. /\ \A p \in Positions : p # z => mem'[p] = mem[p]
        /\ mem'[z].flag = "NOT_READY"
    BY <1>3, <2>1 DEF ClearBuffer, Blanked, QueueInv, BaseInv, TypeOK, Headers
  <2>3. /\ \A q \in Readers : q # r => reader'[q] = reader[q]
        /\ reader'[r].pos = reader[r].pos
        /\ reader'[r].until = reader[r].until
        /\ reader'[r].pc = "advancing"
        /\ reader[r].pc = "clearing"
        /\ UNCHANGED <<writeOffset, writer, claims>>
    BY <1>3 DEF ClearBuffer, GoReader, QueueInv, BaseInv, TypeOK, ReaderRecords
  <2> QED BY <2>2, <2>3 DEF Live
<1>4. CASE AdvanceWatermark(r)
  BY <1>4
  DEF AdvanceWatermark, Resume, QueueInv, BaseInv, TypeOK, ReaderRecords, Live
<1>5. CASE MarkAsRead(r)
  BY <1>5 DEF MarkAsRead, GoReader, QueueInv, BaseInv, TypeOK, ReaderRecords,
     Live
<1>6. CASE CloseReader(r)
  BY <1>6 DEF CloseReader, QueueInv, BaseInv, TypeOK, ReaderRecords, Live
<1>7. CASE DrainNext(r)
  BY <1>7 DEF DrainNext, GoReader, QueueInv, BaseInv, TypeOK, ReaderRecords,
     LeavingInv, Live
<1> QED BY <1>1, <1>2, <1>3, <1>4, <1>5, <1>6, <1>7 DEF Stays

LEMMA JoinEffect ==
  ASSUME QueueInv, NEW r \in Readers, Join(r)
  PROVE  /\ \A q \in Readers : q # r => reader'[q] = reader[q]
         /\ reader[r].pc = "out"
         /\ reader[r].until = NotClosing
         /\ reader'[r].pos = writeOffset
         /\ reader'[r].pc = "polling"
         /\ reader'[r].until = reader[r].until
         /\ UNCHANGED <<writeOffset, mem, writer, claims>>
BY DEF Join, JoinPosition, QueueInv, BaseInv, LeavingInv, TypeOK, ReaderRecords

\* The steps of a writer that store in its header and do not commit.
LEMMA StoreEffect ==
  ASSUME QueueInv, NEW w \in Writers,
         InsertSkip(w) \/ WriteHeader(w) \/ WritePayload(w)
  PROVE  /\ Owns(w) /\ Active(w)
         /\ \E pc \in WriterStates : GoWriter(w, pc)
         /\ \A p \in Positions : p # HeaderOf(w) => mem'[p] = mem[p]
         /\ mem'[HeaderOf(w)].flag = mem[HeaderOf(w)].flag
         /\ UNCHANGED <<writeOffset, claims, reader>>
<1>1. HeaderOf(w) \in Positions /\ mem[HeaderOf(w)] \in Headers
  BY PositionTyping DEF QueueInv, BaseInv, TypeOK
<1>2. /\ \A p \in Positions : p # HeaderOf(w) => mem'[p] = mem[p]
      /\ mem'[HeaderOf(w)].flag = mem[HeaderOf(w)].flag
  BY <1>1 DEF InsertSkip, WriteHeader, WritePayload, QueueInv, BaseInv,
     TypeOK, Headers
<1>3. \E pc \in WriterStates : GoWriter(w, pc)
  BY DEF InsertSkip, WriteHeader, WritePayload, WriterStates
<1>4. Owns(w) /\ Active(w) /\ UNCHANGED <<writeOffset, claims, reader>>
  BY DEF InsertSkip, WriteHeader, WritePayload, Owns, Active
<1> QED BY <1>2, <1>3, <1>4

\* ... and those that do.
LEMMA CommitEffect ==
  ASSUME QueueInv, NEW w \in Writers,
         CommitSkip(w) \/ CommitBuffer(w) \/ AbortBuffer(w)
  PROVE  /\ Owns(w) /\ Active(w)
         /\ writer[w].pc \in {"padded", "filling", "written"}
         /\ \E pc \in {"idle", "claiming"} : GoWriter(w, pc)
         /\ \A p \in Positions : p # HeaderOf(w) => mem'[p] = mem[p]
         /\ mem'[HeaderOf(w)].abs = mem[HeaderOf(w)].abs
         /\ mem'[HeaderOf(w)].size = mem[HeaderOf(w)].size
         /\ StatusOf(mem'[HeaderOf(w)]) \in {"ready", "void"}
         /\ Settle(writer[w].off, StatusOf(mem'[HeaderOf(w)]))
         /\ UNCHANGED <<writeOffset, reader>>
<1>1. HeaderOf(w) \in Positions /\ mem[HeaderOf(w)] \in Headers
  BY PositionTyping DEF QueueInv, BaseInv, TypeOK
<1>2. /\ \A p \in Positions : p # HeaderOf(w) => mem'[p] = mem[p]
      /\ mem'[HeaderOf(w)].abs = mem[HeaderOf(w)].abs
      /\ mem'[HeaderOf(w)].size = mem[HeaderOf(w)].size
      /\ mem'[HeaderOf(w)].kind = mem[HeaderOf(w)].kind
      /\ CommitSkip(w) \/ CommitBuffer(w) => mem'[HeaderOf(w)].flag = "READY"
      /\ AbortBuffer(w) => mem'[HeaderOf(w)].flag = "ABORTED"
  <2>1. mem \in [Positions -> Headers]
    BY DEF QueueInv, BaseInv, TypeOK
  <2>2. CASE CommitSkip(w) \/ CommitBuffer(w)
    <3>1. mem' = [mem EXCEPT ![HeaderOf(w)].flag = "READY"]
      BY <2>2 DEF CommitSkip, CommitBuffer
    <3>2. mem'[HeaderOf(w)].flag = "READY"
      BY <1>1, <2>1, <3>1 DEF Headers
    <3>3. AbortBuffer(w) => mem'[HeaderOf(w)].flag = "ABORTED"
      BY <1>1, <2>1 DEF AbortBuffer, Headers
    <3> QED BY <1>1, <2>1, <3>1, <3>2, <3>3 DEF Headers
  <2>3. CASE AbortBuffer(w)
    <3>1. mem' = [mem EXCEPT ![HeaderOf(w)] =
                    [@ EXCEPT !.body = NoBody, !.flag = "ABORTED"]]
      BY <2>3 DEF AbortBuffer
    <3>2. CommitSkip(w) \/ CommitBuffer(w) => mem'[HeaderOf(w)].flag = "READY"
      BY <1>1, <2>1 DEF CommitSkip, CommitBuffer, Headers
    <3> QED BY <1>1, <2>1, <3>1, <3>2 DEF Headers
  <2> QED BY <2>2, <2>3
<1>3. /\ CommitSkip(w) => mem[HeaderOf(w)].kind = "PADDING"
      /\ CommitBuffer(w) => mem[HeaderOf(w)].kind = "NORMAL"
  BY DEF CommitSkip, CommitBuffer, QueueInv, RingInv, HeaderInv
<1>4. Settle(writer[w].off, StatusOf(mem'[HeaderOf(w)]))
  <2>1. CommitSkip(w) => StatusOf(mem'[HeaderOf(w)]) = "void"
    BY <1>2, <1>3 DEF StatusOf
  <2>2. CommitBuffer(w) => StatusOf(mem'[HeaderOf(w)]) = "ready"
    BY <1>2, <1>3 DEF StatusOf
  <2>3. AbortBuffer(w) => StatusOf(mem'[HeaderOf(w)]) = "void"
    BY <1>2 DEF StatusOf
  <2> QED BY <2>1, <2>2, <2>3 DEF CommitSkip, CommitBuffer, AbortBuffer
<1>5. /\ Owns(w) /\ Active(w)
      /\ writer[w].pc \in {"padded", "filling", "written"}
      /\ \E pc \in {"idle", "claiming"} : GoWriter(w, pc)
      /\ UNCHANGED <<writeOffset, reader>>
  BY DEF CommitSkip, CommitBuffer, AbortBuffer, Owns, Active
<1>6. StatusOf(mem'[HeaderOf(w)]) \in {"ready", "void"}
  BY DEF StatusOf
<1> QED BY <1>2, <1>4, <1>5, <1>6

\* The steps, by what they do to the claims and the messages.
Moves(w) == CheckReady(w) \/ Grant(w) \/ DropWrapper(w)
Reserves(w) ==
  \E size \in Sizes : /\ writer[w].pc \in {"idle", "claiming"}
                      /\ Reserve(w, size)
                      /\ UNCHANGED <<mem, reader>>
Stores(w) == InsertSkip(w) \/ WriteHeader(w) \/ WritePayload(w)
Commits(w) == CommitSkip(w) \/ CommitBuffer(w) \/ AbortBuffer(w)

LEMMA StepCases ==
  ASSUME QueueInv, [Next]_vars
  PROVE  \/ UNCHANGED vars
         \/ \E w \in Writers : Moves(w) \/ Reserves(w) \/ Stores(w) \/ Commits(w)
         \/ \E r \in Readers : Join(r) \/ ReleaseBuffer(r) \/ Stays(r)
<1>1. ASSUME NEW w \in Writers, NEW size \in Sizes, ClaimBuffer(w, size)
      PROVE  Reserves(w)
  BY <1>1 DEF ClaimBuffer, Reserves
<1>2. ASSUME NEW w \in Writers, RetryClaim(w)
      PROVE  Reserves(w)
  <2>1. writer[w].size \in Sizes
    BY <1>2 DEF RetryClaim, QueueInv, BaseInv, ShapeInv
  <2> QED BY <1>2, <2>1 DEF RetryClaim, Reserves
<1>3. ASSUME NEW w \in Writers, WriterProgress(w)
      PROVE  Moves(w) \/ Reserves(w) \/ Stores(w) \/ Commits(w)
  BY <1>2, <1>3 DEF WriterProgress, Moves, Stores, Commits
<1>4. ASSUME NEW r \in Readers, ReaderProgress(r)
      PROVE  ReleaseBuffer(r) \/ Stays(r)
  BY <1>4 DEF ReaderProgress, Stays
<1> QED BY <1>1, <1>3, <1>4
    DEF Next, SteadyNext, AbortNext, DropNext, KeepNext, CloseNext, Moves,
        Commits, Stays

LEMMA MoveEffect ==
  ASSUME QueueInv, NEW w \in Writers, Moves(w)
  PROVE  /\ \E pc \in WriterStates : GoWriter(w, pc)
         /\ Active(w)' => Active(w)
         /\ UNCHANGED <<writeOffset, mem, claims, reader>>
<1>1. UNCHANGED <<writeOffset, mem, claims, reader>>
  BY DEF Moves, CheckReady, Grant, DropWrapper
<1>2. CASE Grant(w)
  <2>1. \E pc \in WriterStates : GoWriter(w, pc)
    BY <1>2 DEF Grant, WriterStates
  <2>2. Active(w)
    BY <1>2 DEF Grant, Active
  <2> QED BY <1>1, <2>1, <2>2
<1>3. CASE CheckReady(w) \/ DropWrapper(w)
  <2>1. GoWriter(w, "idle") /\ "idle" \in WriterStates
    BY <1>3 DEF CheckReady, DropWrapper, WriterStates
  <2>2. ~Active(w)'
    BY <2>1, SameClaims DEF QueueInv, BaseInv, Active, Owns
  <2> QED BY <1>1, <2>1, <2>2
<1> QED BY <1>2, <1>3 DEF Moves

LEMMA LogStep ==
  ASSUME QueueInv, LogInv, [Next]_vars
  PROVE  LogInv'
<1>1. CASE UNCHANGED vars
  BY <1>1 DEF vars, LogInv, Claimed, NextOffset, Active, Owns, EndOfClaim,
     Live, LiveEnd
<1>2. ASSUME NEW w \in Writers, Moves(w)
      PROVE  LogInv'
  BY <1>2, MoveEffect, LogWriter
<1>3. ASSUME NEW w \in Writers, Reserves(w)
      PROVE  LogInv'
  BY <1>3, LogReserve DEF Reserves
<1>4. ASSUME NEW w \in Writers, Stores(w)
      PROVE  LogInv'
  BY <1>4, StoreEffect, LogWriter DEF Stores
<1>5. ASSUME NEW w \in Writers, Commits(w)
      PROVE  LogInv'
  BY <1>5, CommitEffect, LogCommit DEF Commits
<1>6. ASSUME NEW r \in Readers, Join(r)
      PROVE  LogInv'
  BY <1>6, JoinEffect, LogReader DEF Live
<1>7. ASSUME NEW r \in Readers, ReleaseBuffer(r)
      PROVE  LogInv'
  BY <1>7, LogRelease
<1>8. ASSUME NEW r \in Readers, Stays(r)
      PROVE  LogInv'
  BY <1>8, StayEffect, LogReader
<1> QED BY <1>1, <1>2, <1>3, <1>4, <1>5, <1>6, <1>7, <1>8, StepCases

-----------------------------------------------------------------------------
(* PassInv is inductive *)

\* As long as a message is there, it is what it is.
LEMMA MessagesKept ==
  ASSUME QueueInv, [Next]_vars, NEW p \in Positions, Live(p), Live(p)'
  PROVE  StatusOf(mem'[p]) = StatusOf(mem[p])
<1>1. CASE UNCHANGED mem
  BY <1>1
<1>2. ASSUME NEW w \in Writers, Stores(w) \/ Commits(w)
      PROVE  mem'[p] = mem[p]
  BY <1>2, StoreEffect, CommitEffect, OwnerSlotFree DEF Stores, Commits
<1>3. ASSUME NEW r \in Readers, ReleaseBuffer(r)
      PROVE  StatusOf(mem'[p]) = StatusOf(mem[p])
  BY <1>3, ReleaseEffect DEF StatusOf
<1>4. ASSUME NEW r \in Readers, Stays(r)
      PROVE  mem'[p] = mem[p]
  BY <1>4, StayEffect
<1>5. ASSUME NEW w \in Writers, Moves(w) \/ Reserves(w)
      PROVE  UNCHANGED mem
  BY <1>5, MoveEffect DEF Reserves
<1>6. ASSUME NEW r \in Readers, Join(r)
      PROVE  UNCHANGED mem
  BY <1>6, JoinEffect
<1> QED BY <1>1, <1>2, <1>3, <1>4, <1>5, <1>6, StepCases DEF vars

\* Only a padding or an aborted message is released unread: a reader at such a
\* one has found it so, at its own offset.
LEMMA PassStep ==
  ASSUME QueueInv, QueueInv', PassInv, [Next]_vars
  PROVE  PassInv'
<1> SUFFICES ASSUME NEW r \in Readers, reader'[r].pc = "releasing",
                    reader'[r].until = NotClosing
             PROVE  StatusOf(mem'[Slot(r)']) = "void"
  BY DEF PassInv, Attached
<1>1. PICK s \in Positions : s = Slot(r)
  BY ReaderTyping DEF QueueInv, BaseInv
<1>2. Live(Slot(r))'
  BY DEF QueueInv, RingInv, SlotInv
<1>3. CASE reader'[r] = reader[r]
  <2>1. Slot(r)' = s
    BY <1>1, <1>3 DEF Slot
  <2>2. Live(s)'
    BY <1>2, <2>1 DEF Live
  <2>3. Live(s)
    BY <1>1, <1>3 DEF QueueInv, RingInv, SlotInv
  <2>4. StatusOf(mem[s]) = "void"
    BY <1>1, <1>3 DEF PassInv, Attached
  <2> QED BY <2>1, <2>2, <2>3, <2>4, MessagesKept
<1>4. ASSUME NEW q \in Readers, Join(q) \/ ReleaseBuffer(q), q = r
      PROVE  FALSE
  BY <1>4, JoinEffect, ReleaseEffect
<1>5. ASSUME NEW q \in Readers, Stays(q), q = r
      PROVE  StatusOf(mem'[Slot(r)']) = "void"
  <2>1. CloseReader(r) => reader'[r].pc = "draining"
    BY DEF CloseReader, QueueInv, BaseInv, TypeOK, ReaderRecords
  <2>2. /\ reader'[r].pos = reader[r].pos
        /\ reader'[r].until = reader[r].until \/ CloseReader(r)
        /\ \/ reader[r].until # NotClosing
           \/ UNCHANGED mem /\ StatusOf(mem[Slot(r)]) = "void"
    BY <1>5, StayEffect
  <2> QED BY <2>1, <2>2 DEF Slot
<1>6. ASSUME NEW q \in Readers, Join(q) \/ ReleaseBuffer(q) \/ Stays(q), q # r
      PROVE  reader'[r] = reader[r]
  BY <1>6, JoinEffect, ReleaseEffect, StayEffect
<1>7. ASSUME NEW w \in Writers,
             Moves(w) \/ Reserves(w) \/ Stores(w) \/ Commits(w)
      PROVE  reader'[r] = reader[r]
  BY <1>7, MoveEffect, StoreEffect, CommitEffect DEF Reserves, Stores, Commits
<1> QED BY <1>3, <1>4, <1>5, <1>6, <1>7, StepCases DEF vars

-----------------------------------------------------------------------------
(* The refinement mapping *)

LEMMA IntervalSize ==
  ASSUME NEW n \in Nat
  PROVE  Cardinality(1 .. n) = n
<1>1. Cardinality(1 .. n) = IF 1 > n THEN 0 ELSE n - 1 + 1
  BY FS_Interval
<1> QED BY <1>1

\* The place of a claim in the history, from its offset.
LEMMA IndexOfClaim ==
  ASSUME TypeOK, LogInv, NEW k \in DOMAIN claims
  PROVE  ClaimIndex(claims[k].off) = k
<1>1. /\ DOMAIN claims = 1 .. Len(claims) /\ Len(claims) \in Nat
      /\ \A i \in DOMAIN claims : claims[i].off \in Nat
  <2>1. claims \in Seq(ClaimRecords)
    BY DEF TypeOK
  <2>2. \A i \in 1 .. Len(claims) : claims[i] \in ClaimRecords
    BY <2>1, ElementOfSeq
  <2>3. DOMAIN claims = 1 .. Len(claims) /\ Len(claims) \in Nat
    BY <2>1, LenProperties
  <2> QED BY <2>2, <2>3 DEF ClaimRecords
<1>2. {i \in DOMAIN claims : claims[i].off < claims[k].off} = 1 .. (k - 1)
  <2>1. \A i \in DOMAIN claims : claims[i].off < claims[k].off <=> i < k
    <3> SUFFICES ASSUME NEW i \in DOMAIN claims
                 PROVE  claims[i].off < claims[k].off <=> i < k
      OBVIOUS
    <3>1. i < k \/ i = k \/ k < i
      BY <1>1
    <3> QED BY <1>1, <3>1 DEF LogInv
  <2> QED BY <1>1, <2>1
<1>3. Cardinality(1 .. (k - 1)) = k - 1
  BY <1>1, IntervalSize
<1>4. ClaimIndex(claims[k].off) = (k - 1) + 1
  BY <1>2, <1>3, Zenon DEF ClaimIndex
<1> QED BY <1>1, <1>4

LEMMA IndexOfEnd ==
  ASSUME TypeOK, LogInv
  PROVE  ClaimIndex(writeOffset) = Len(claims) + 1
<1>1. DOMAIN claims = 1 .. Len(claims) /\ Len(claims) \in Nat
  BY LenProperties DEF TypeOK
<1>2. {i \in DOMAIN claims : claims[i].off < writeOffset} = 1 .. Len(claims)
  BY <1>1 DEF LogInv
<1>3. Cardinality(1 .. Len(claims)) = Len(claims)
  BY <1>1, IntervalSize
<1> QED BY <1>2, <1>3 DEF ClaimIndex

\* Every reader of the channel is at a claim, or at the end of the log.
LEMMA IndexOfReader ==
  ASSUME TypeOK, LogInv, NEW r \in Readers
  PROVE  ClaimIndex(reader[r].pos) # 0
<1>1. DOMAIN claims = 1 .. Len(claims) /\ Len(claims) \in Nat
  BY LenProperties DEF TypeOK
<1>2. CASE reader[r].pos = writeOffset
  BY <1>1, <1>2, IndexOfEnd
<1>3. CASE \E i \in DOMAIN claims : claims[i].off = reader[r].pos
  BY <1>1, <1>3, IndexOfClaim
<1> QED BY <1>2, <1>3 DEF LogInv

\* A reader holds the payload of the claim it is at.
HeldIsNext ==
  \A r \in Readers : reader[r].pc = "holding" =>
    PayloadIndex(r) = ClaimIndex(reader[r].pos)

LEMMA HeldAtNext == QueueInv /\ LogInv => HeldIsNext
<1> SUFFICES ASSUME QueueInv, LogInv, NEW r \in Readers,
                    reader[r].pc = "holding"
             PROVE  PayloadIndex(r) = ClaimIndex(reader[r].pos)
  BY DEF HeldIsNext
<1>1. mem[Slot(r)].body = reader[r].pos
  BY QueueInvImplies DEF HeldIntact
<1>2. Live(Slot(r)) /\ mem[Slot(r)].abs = reader[r].pos
  BY DEF QueueInv, RingInv, SlotInv
<1>3. \E i \in DOMAIN claims : claims[i].off = reader[r].pos
  BY <1>2, ClaimAtSlot
<1> QED BY <1>1, <1>3 DEF PayloadIndex

\* A step of one reader that leaves the claims, as the channel sees it: where
\* that reader goes next, and what it holds.
NextOf(rec) ==
  IF rec.pc # "out" /\ rec.until = NotClosing THEN ClaimIndex(rec.pos) ELSE 0
HeldOf(rec) == IF rec.pc = "holding" THEN ClaimIndex(rec.pos) ELSE 0

LEMMA ReadersMapped ==
  ASSUME HeldIsNext
  PROVE  /\ NextClaim = [q \in Readers |-> NextOf(reader[q])]
         /\ HeldClaim = [q \in Readers |-> HeldOf(reader[q])]
BY DEF NextClaim, HeldClaim, HeldIsNext, Attached, NextOf, HeldOf

LEMMA OneMapped ==
  ASSUME HeldIsNext, HeldIsNext', UNCHANGED claims, NEW r \in Readers,
         \A q \in Readers : q # r => reader'[q] = reader[q]
  PROVE  /\ ClaimLog' = ClaimLog
         /\ NextClaim' = [NextClaim EXCEPT ![r] = NextOf(reader'[r])]
         /\ HeldClaim' = [HeldClaim EXCEPT ![r] = HeldOf(reader'[r])]
         /\ NextClaim[r] = NextOf(reader[r])
         /\ HeldClaim[r] = HeldOf(reader[r])
<1>1. ClaimLog' = ClaimLog
  BY DEF ClaimLog
<1>2. /\ NextClaim' = [q \in Readers |-> NextOf(reader'[q])]
      /\ HeldClaim' = [q \in Readers |-> HeldOf(reader'[q])]
  BY DEF NextClaim, HeldClaim, HeldIsNext, Attached, NextOf, HeldOf,
     ClaimIndex
<1>3. /\ NextClaim = [q \in Readers |-> NextOf(reader[q])]
      /\ HeldClaim = [q \in Readers |-> HeldOf(reader[q])]
  BY ReadersMapped
<1> QED BY <1>1, <1>2, <1>3

\* The statuses of a sequence of claims are a sequence of the same length.
LEMMA StatusLog ==
  ASSUME NEW c \in Seq(ClaimRecords), NEW log,
         log = [i \in DOMAIN c |-> c[i].status]
  PROVE  /\ log \in Seq({"open", "ready", "void"})
         /\ Len(log) = Len(c)
         /\ DOMAIN log = DOMAIN c
<1> DEFINE S == {"open", "ready", "void"}
<1>1. PICK n \in Nat : n = Len(c) /\ DOMAIN c = 1 .. n
  BY LenProperties
<1>2. \A i \in 1 .. n : c[i] \in ClaimRecords
  BY <1>1, ElementOfSeq
<1>3. log \in [1 .. n -> S]
  BY <1>1, <1>2 DEF ClaimRecords
<1> HIDE DEF S
<1>4. log \in UNION {[1 .. m -> S] : m \in Nat}
  BY <1>3
<1>5. log \in Seq(S)
  BY <1>4, SeqDef, Zenon
<1>6. DOMAIN log = 1 .. Len(log) /\ Len(log) \in Nat
  BY <1>5, LenProperties
<1>7. DOMAIN log = 1 .. n
  BY <1>3
<1>8. Len(log) = n
  BY <1>6, <1>7
<1> QED BY <1>1, <1>5, <1>7, <1>8 DEF S

LEMMA LogLength ==
  ASSUME TypeOK
  PROVE  /\ ClaimLog \in Seq({"open", "ready", "void"})
         /\ Len(ClaimLog) = Len(claims)
         /\ DOMAIN ClaimLog = DOMAIN claims
BY StatusLog DEF ClaimLog, TypeOK

\* ClaimIndex of an offset depends on the claims before it only.
LEMMA ReserveMapped ==
  ASSUME QueueInv, HeldIsNext, HeldIsNext', NEW w \in Writers,
         NEW size \in Sizes, Reserve(w, size), UNCHANGED reader
  PROVE  Channel!Claim
<1> DEFINE e == [off |-> writeOffset, status |-> "open"]
           n == Len(claims)
<1>1. claims \in Seq(ClaimRecords) /\ e \in ClaimRecords /\ n \in Nat
  BY LenProperties DEF QueueInv, BaseInv, TypeOK, ClaimRecords
<1>2. e.off = writeOffset /\ e.status = "open" /\ claims' = Append(claims, e)
  BY DEF Reserve
<1> HIDE DEF e
<1>3. /\ DOMAIN claims = 1 .. n
      /\ DOMAIN claims' = 1 .. (n + 1)
      /\ claims'[n + 1].off = writeOffset
      /\ claims'[n + 1].status = "open"
      /\ \A i \in 1 .. n : claims'[i] = claims[i]
  BY <1>1, <1>2, Appended
<1> HIDE DEF n
<1>4. ClaimLog' = Append(ClaimLog, "open")
  <2>1. ClaimLog = [i \in 1 .. n |-> claims[i].status]
    BY <1>3 DEF ClaimLog
  <2>3. ClaimLog \in Seq({"open", "ready", "void"}) /\ Len(ClaimLog) = n
    BY LogLength DEF QueueInv, BaseInv, n
  <2>4. /\ Append(ClaimLog, "open") \in Seq({"open", "ready", "void"})
        /\ Len(Append(ClaimLog, "open")) = n + 1
        /\ Append(ClaimLog, "open")[n + 1] = "open"
        /\ \A i \in 1 .. n : Append(ClaimLog, "open")[i] = ClaimLog[i]
    BY <2>3, AppendProperties
  <2>5. /\ ClaimLog' \in Seq({"open", "ready", "void"})
        /\ Len(ClaimLog') = n + 1
    <3>1. claims' \in Seq(ClaimRecords) /\ Len(claims') = n + 1
      BY <1>1, <1>2, Appended DEF n
    <3>2. ClaimLog' = [i \in DOMAIN claims' |-> claims'[i].status]
      BY DEF ClaimLog
    <3> QED BY <3>1, <3>2, StatusLog
  <2>6. \A i \in 1 .. (n + 1) : ClaimLog'[i] = Append(ClaimLog, "open")[i]
    <3> SUFFICES ASSUME NEW i \in 1 .. (n + 1)
                 PROVE  ClaimLog'[i] = Append(ClaimLog, "open")[i]
      OBVIOUS
    <3>1. ClaimLog'[i] = claims'[i].status
      BY <1>3 DEF ClaimLog
    <3>2. CASE i = n + 1
      BY <1>3, <2>4, <3>1, <3>2
    <3>3. CASE i \in 1 .. n
      BY <1>3, <2>1, <2>4, <3>1, <3>3
    <3>4. i = n + 1 \/ i \in 1 .. n
      BY <1>1
    <3> QED BY <3>2, <3>3, <3>4
  <2> QED BY <2>4, <2>5, <2>6, SeqEqual
<1>5. \A r \in Readers :
        ClaimIndex(reader[r].pos)' = ClaimIndex(reader[r].pos)
  <2> SUFFICES ASSUME NEW r \in Readers
               PROVE  ClaimIndex(reader[r].pos)' = ClaimIndex(reader[r].pos)
    OBVIOUS
  <2>1. /\ reader[r].pos <= writeOffset
        /\ reader[r].pos \in Nat /\ writeOffset \in Nat
    BY ReaderTyping DEF QueueInv, BaseInv, RingInv, WatermarkInv, TypeOK
  <2>2. {i \in DOMAIN claims' : claims'[i].off < reader[r].pos} =
        {i \in DOMAIN claims : claims[i].off < reader[r].pos}
    <3>1. ~(claims'[n + 1].off < reader[r].pos)
      BY <1>3, <2>1
    <3>2. \A i \in 1 .. (n + 1) : i # n + 1 <=> i \in 1 .. n
      BY <1>1
    <3>3. \A i \in 1 .. n : i \in 1 .. (n + 1)
      BY <1>1
    <3> QED BY <1>3, <3>1, <3>2, <3>3
  <2> QED BY <2>2, Zenon DEF ClaimIndex
<1>6. NextClaim' = NextClaim
  BY <1>5 DEF NextClaim, Attached
<1>7. HeldClaim' = HeldClaim
  BY <1>5 DEF HeldClaim, HeldIsNext
<1> QED BY <1>4, <1>6, <1>7 DEF Channel!Claim

LEMMA CommitMapped ==
  ASSUME QueueInv, LogInv, HeldIsNext, HeldIsNext', NEW w \in Writers,
         Active(w), NEW status \in {"ready", "void"},
         Settle(writer[w].off, status), UNCHANGED reader
  PROVE  \E i \in DOMAIN ClaimLog : Channel!Resolve(i, status)
<1>1. PICK k \in DOMAIN claims : /\ claims[k].off = writer[w].off
                                 /\ claims[k].status = "open"
  BY DEF LogInv, Claimed
<1>2. /\ DOMAIN claims' = DOMAIN claims
      /\ \A i \in DOMAIN claims :
           /\ claims'[i].off = claims[i].off
           /\ claims'[i].status = IF i = k THEN status ELSE claims[i].status
  BY <1>1, Settled DEF QueueInv, BaseInv
<1>3. k \in DOMAIN ClaimLog /\ ClaimLog[k] = "open"
  BY <1>1 DEF ClaimLog
<1>4. ClaimLog' = [ClaimLog EXCEPT ![k] = status]
  BY <1>2 DEF ClaimLog
<1>5. \A r \in Readers :
        ClaimIndex(reader[r].pos)' = ClaimIndex(reader[r].pos)
  <2>1. \A r \in Readers :
          {i \in DOMAIN claims' : claims'[i].off < reader[r].pos} =
          {i \in DOMAIN claims : claims[i].off < reader[r].pos}
    BY <1>2
  <2> QED BY <2>1, Zenon DEF ClaimIndex
<1>6. NextClaim' = NextClaim
  BY <1>5 DEF NextClaim, Attached
<1>7. HeldClaim' = HeldClaim
  BY <1>5 DEF HeldClaim, HeldIsNext
<1> QED BY <1>3, <1>4, <1>6, <1>7 DEF Channel!Resolve

LEMMA KeptMapped ==
  ASSUME HeldIsNext, HeldIsNext', UNCHANGED claims, NEW r \in Readers,
         \A q \in Readers : q # r => reader'[q] = reader[q]
  PROVE  /\ NextOf(reader'[r]) = NextOf(reader[r]) => NextClaim' = NextClaim
         /\ HeldOf(reader'[r]) = HeldOf(reader[r]) => HeldClaim' = HeldClaim
<1>1. /\ NextClaim = [q \in Readers |-> NextOf(reader[q])]
      /\ HeldClaim = [q \in Readers |-> HeldOf(reader[q])]
  BY ReadersMapped
<1>2. /\ NextClaim' = [NextClaim EXCEPT ![r] = NextOf(reader'[r])]
      /\ HeldClaim' = [HeldClaim EXCEPT ![r] = HeldOf(reader'[r])]
  BY OneMapped
<1> QED BY <1>1, <1>2

LEMMA JoinMapped ==
  ASSUME QueueInv, LogInv, HeldIsNext, HeldIsNext', NEW r \in Readers, Join(r)
  PROVE  Channel!Subscribe(r)
<1>1. /\ \A q \in Readers : q # r => reader'[q] = reader[q]
      /\ UNCHANGED claims
      /\ reader[r].pc = "out" /\ reader[r].until = NotClosing
      /\ reader'[r].pos = writeOffset
      /\ reader'[r].pc = "polling" /\ reader'[r].until = NotClosing
  BY JoinEffect
<1>2. NextOf(reader[r]) = 0 /\ HeldOf(reader[r]) = 0 /\ HeldOf(reader'[r]) = 0
  BY <1>1 DEF NextOf, HeldOf
<1>3. NextOf(reader'[r]) = Len(ClaimLog) + 1
  <2>1. NextOf(reader'[r]) = ClaimIndex(writeOffset)
    BY <1>1 DEF NextOf
  <2> QED BY <2>1, IndexOfEnd, LogLength DEF QueueInv, BaseInv
<1>4. HeldClaim' = HeldClaim
  BY <1>1, <1>2, KeptMapped
<1> QED BY <1>1, <1>2, <1>3, <1>4, OneMapped DEF Channel!Subscribe

\* A poll that returns a wrapper reads the claim the reader is at; mark_as_read
\* puts it back; close leaves the channel; the other steps that leave the
\* reader where it is change nothing.
LEMMA StayMapped ==
  ASSUME QueueInv, LogInv, HeldIsNext, HeldIsNext', NEW r \in Readers, Stays(r)
  PROVE  \/ Channel!Read(r) \/ Channel!Unread(r) \/ Channel!Leave(r)
         \/ UNCHANGED Channel!channelVars
<1>1. /\ \A q \in Readers : q # r => reader'[q] = reader[q]
      /\ UNCHANGED claims
      /\ reader'[r].pos = reader[r].pos
      /\ reader[r].pc # "out" /\ reader'[r].pc # "out"
      /\ reader'[r].until = reader[r].until \/ CloseReader(r)
  BY StayEffect
<1>2. ClaimLog' = ClaimLog
  BY <1>1 DEF ClaimLog
<1>3. CASE CloseReader(r)
  <2>1. /\ reader[r].pc = "polling" /\ reader[r].until = NotClosing
        /\ reader'[r].pc = "draining" /\ reader'[r].until = writeOffset
        /\ writeOffset # NotClosing
    BY <1>3 DEF CloseReader, QueueInv, BaseInv, LeavingInv, TypeOK,
       ReaderRecords, NotClosing
  <2>2. /\ NextOf(reader[r]) # 0 /\ NextOf(reader'[r]) = 0
        /\ HeldOf(reader[r]) = 0 /\ HeldOf(reader'[r]) = 0
    BY <2>1, IndexOfReader DEF NextOf, HeldOf, QueueInv, BaseInv
  <2>3. HeldClaim' = HeldClaim
    BY <1>1, <2>2, KeptMapped
  <2> QED BY <1>1, <1>2, <2>2, <2>3, OneMapped DEF Channel!Leave
<1>4. CASE reader'[r].until = reader[r].until /\ reader[r].pc = "holding"
  <2>1. reader'[r].pc = "polling"
    BY <1>4, StayEffect
  <2>2. NextOf(reader'[r]) = NextOf(reader[r])
    BY <1>1, <1>4, <2>1 DEF NextOf
  <2>3. HeldOf(reader[r]) # 0 /\ HeldOf(reader'[r]) = 0
    BY <1>4, <2>1, IndexOfReader DEF HeldOf, QueueInv, BaseInv
  <2>4. NextClaim' = NextClaim
    BY <1>1, <2>2, KeptMapped
  <2> QED BY <1>1, <1>2, <2>3, <2>4, OneMapped DEF Channel!Unread
<1>5. CASE reader'[r].until = reader[r].until /\ reader'[r].pc = "holding"
  <2>1. /\ reader[r].pc = "loaded"
        /\ Live(Slot(r)) /\ mem[Slot(r)].abs = reader[r].pos
        /\ StatusOf(mem[Slot(r)]) = "ready"
    BY <1>5, StayEffect
  <2>2. reader[r].until = NotClosing
    BY <2>1 DEF QueueInv, BaseInv, LeavingInv
  <2>3. PICK i \in DOMAIN claims : /\ claims[i].off = reader[r].pos
                                   /\ claims[i].status = "ready"
    BY <2>1, ClaimAtSlot
  <2>4. ClaimIndex(reader[r].pos) = i
    BY <2>3, IndexOfClaim DEF QueueInv, BaseInv
  <2>5. /\ NextOf(reader[r]) = i /\ NextOf(reader'[r]) = i
        /\ HeldOf(reader[r]) = 0 /\ HeldOf(reader'[r]) = i
    BY <1>1, <1>5, <2>1, <2>2, <2>4 DEF NextOf, HeldOf
  <2>6. NextClaim' = NextClaim
    BY <1>1, <2>5, KeptMapped
  <2>7. i \in DOMAIN ClaimLog /\ ClaimLog[i] = "ready"
    BY <2>3 DEF ClaimLog
  <2> QED BY <1>1, <1>2, <2>5, <2>6, <2>7, OneMapped DEF Channel!Read
<1>6. CASE /\ reader'[r].until = reader[r].until
           /\ reader[r].pc # "holding" /\ reader'[r].pc # "holding"
  <2>1. /\ NextOf(reader'[r]) = NextOf(reader[r])
        /\ HeldOf(reader'[r]) = HeldOf(reader[r])
    BY <1>1, <1>6 DEF NextOf, HeldOf
  <2> QED BY <1>1, <1>2, <2>1, KeptMapped DEF Channel!channelVars
<1> QED BY <1>1, <1>3, <1>4, <1>5, <1>6

\* A release takes an attached reader past its claim; what a reader releases
\* while it closes is no longer its own.
LEMMA ReleaseMapped ==
  ASSUME QueueInv, LogInv, PassInv, HeldIsNext, HeldIsNext', NEW r \in Readers,
         ReleaseBuffer(r)
  PROVE  Channel!Pass(r) \/ UNCHANGED Channel!channelVars
<1>1. /\ \A q \in Readers : q # r => reader'[q] = reader[q]
      /\ UNCHANGED claims
      /\ reader[r].pc \in {"holding", "releasing"}
      /\ Live(Slot(r)) /\ mem[Slot(r)].abs = reader[r].pos
      /\ reader'[r].pos = reader[r].pos + Total(mem[Slot(r)].size)
      /\ reader'[r].pc \notin {"out", "holding"}
      /\ reader'[r].until = reader[r].until
  BY ReleaseEffect
<1>2. ClaimLog' = ClaimLog
  BY <1>1 DEF ClaimLog
<1>3. CASE reader[r].until # NotClosing
  <2>1. reader[r].pc # "holding"
    BY <1>3 DEF QueueInv, BaseInv, LeavingInv
  <2>2. /\ NextOf(reader'[r]) = NextOf(reader[r])
        /\ HeldOf(reader'[r]) = HeldOf(reader[r])
    BY <1>1, <1>3, <2>1 DEF NextOf, HeldOf
  <2> QED BY <1>1, <1>2, <2>2, KeptMapped DEF Channel!channelVars
<1>4. CASE reader[r].until = NotClosing
  <2>1. PICK i \in DOMAIN claims :
          /\ claims[i].off = reader[r].pos
          /\ claims[i].status = StatusOf(mem[Slot(r)])
          /\ reader'[r].pos =
               IF i = Len(claims) THEN writeOffset ELSE claims[i + 1].off
    BY <1>1, ClaimAtSlot
  <2>2. ClaimIndex(reader[r].pos) = i
    BY <2>1, IndexOfClaim DEF QueueInv, BaseInv
  <2>3. ClaimIndex(reader'[r].pos) = i + 1
    <3>1. CASE i = Len(claims)
      BY <2>1, <3>1, IndexOfEnd DEF QueueInv, BaseInv
    <3>2. CASE i # Len(claims)
      <4>1. i + 1 \in DOMAIN claims
        <5>1. DOMAIN claims = 1 .. Len(claims) /\ Len(claims) \in Nat
          BY LenProperties DEF QueueInv, BaseInv, TypeOK
        <5> QED BY <3>2, <5>1
      <4>2. ClaimIndex(claims[i + 1].off) = i + 1
        BY <4>1, IndexOfClaim DEF QueueInv, BaseInv
      <4> QED BY <2>1, <3>2, <4>2
    <3> QED BY <3>1, <3>2
  <2>4. /\ NextOf(reader[r]) = i /\ NextOf(reader'[r]) = i + 1
        /\ HeldOf(reader[r]) = (IF reader[r].pc = "holding" THEN i ELSE 0)
        /\ HeldOf(reader'[r]) = 0
    BY <1>1, <1>4, <2>2, <2>3 DEF NextOf, HeldOf
  <2>5. i \in DOMAIN ClaimLog /\ ClaimLog[i] = StatusOf(mem[Slot(r)])
    BY <2>1 DEF ClaimLog
  <2>6. \/ ClaimLog[i] = "void"
        \/ ClaimLog[i] = "ready" /\ reader[r].pc = "holding"
    <3>1. CASE reader[r].pc = "holding"
      BY <2>5, <3>1 DEF StatusOf
    <3>2. CASE reader[r].pc = "releasing"
      BY <1>4, <2>5, <3>2 DEF PassInv, Attached
    <3> QED BY <1>1, <3>1, <3>2
  <2>7. /\ NextClaim[r] = i
        /\ NextClaim' = [NextClaim EXCEPT ![r] = i + 1]
        /\ HeldClaim' = [HeldClaim EXCEPT ![r] = 0]
        /\ HeldClaim[r] = IF reader[r].pc = "holding" THEN i ELSE 0
    BY <1>1, <2>4, OneMapped
  <2> QED BY <1>2, <2>5, <2>6, <2>7 DEF Channel!Pass
<1> QED BY <1>3, <1>4

LEMMA MappedStep ==
  ASSUME QueueInv, ChannelInv, HeldIsNext, HeldIsNext', [Next]_vars
  PROVE  [Channel!ChannelNext]_(Channel!channelVars)
<1>1. LogInv /\ PassInv
  BY DEF ChannelInv
<1>2. ASSUME UNCHANGED <<claims, reader>>
      PROVE  UNCHANGED Channel!channelVars
  <2>1. NextClaim' = NextClaim
    BY <1>2 DEF NextClaim, Attached, ClaimIndex
  <2>2. HeldClaim' = HeldClaim
    BY <1>2 DEF HeldClaim, HeldIsNext, ClaimIndex
  <2> QED BY <1>2, <2>1, <2>2 DEF Channel!channelVars, ClaimLog
<1>3. CASE UNCHANGED vars
  BY <1>2, <1>3 DEF vars
<1>4. ASSUME NEW w \in Writers, Moves(w) \/ Stores(w)
      PROVE  UNCHANGED Channel!channelVars
  BY <1>2, <1>4, MoveEffect, StoreEffect DEF Stores
<1>5. ASSUME NEW w \in Writers, Reserves(w)
      PROVE  Channel!Claim
  BY <1>5, ReserveMapped DEF Reserves
<1>6. ASSUME NEW w \in Writers, Commits(w)
      PROVE  \E i \in DOMAIN ClaimLog, status \in {"ready", "void"} :
               Channel!Resolve(i, status)
  <2>1. PICK status \in {"ready", "void"} : Settle(writer[w].off, status)
    BY <1>6, CommitEffect DEF Commits
  <2>2. Active(w) /\ UNCHANGED reader
    BY <1>6, CommitEffect DEF Commits
  <2> QED BY <1>1, <2>1, <2>2, CommitMapped
<1>7. ASSUME NEW r \in Readers, Join(r)
      PROVE  Channel!Subscribe(r)
  BY <1>1, <1>7, JoinMapped
<1>8. ASSUME NEW r \in Readers, ReleaseBuffer(r)
      PROVE  Channel!Pass(r) \/ UNCHANGED Channel!channelVars
  BY <1>1, <1>8, ReleaseMapped
<1>9. ASSUME NEW r \in Readers, Stays(r)
      PROVE  \/ Channel!Read(r) \/ Channel!Unread(r) \/ Channel!Leave(r)
             \/ UNCHANGED Channel!channelVars
  BY <1>1, <1>9, StayMapped
<1> QED BY <1>3, <1>4, <1>5, <1>6, <1>7, <1>8, <1>9, StepCases
    DEF Channel!ChannelNext

LEMMA MappedInit ==
  ASSUME Init
  PROVE  Channel!ChannelInit
<1>1. ClaimLog = << >>
  BY DEF Init, ClaimLog
<1>2. NextClaim = [r \in Readers |-> 0]
  BY DEF Init, NextClaim, Attached
<1>3. HeldClaim = [r \in Readers |-> 0]
  BY DEF Init, HeldClaim
<1> QED BY <1>1, <1>2, <1>3 DEF Channel!ChannelInit

-----------------------------------------------------------------------------
(* The theorems *)

\* Commits, polls and releases agree with the order of the compare-and-swaps:
\* the claims are contiguous, a committed header is that of a settled claim,
\* and only a padding or an aborted message is released unread.
THEOREM ChannelInvariant ==
  ASSUME Served
  PROVE  /\ OneReader => (Spec => []ChannelInv)
         /\ FanoutSpec => []ChannelInv
<1>1. Init => ChannelInv
  <2>1. Init => PassInv
    BY DEF Init, PassInv
  <2> QED BY <2>1, LogInit DEF ChannelInv
<1>2. QueueInv /\ QueueInv' /\ ChannelInv /\ [Next]_vars => ChannelInv'
  BY LogStep, PassStep DEF ChannelInv
<1>3. [FanoutNext]_vars => [Next]_vars
  BY DEF FanoutNext, Next
<1>4. /\ OneReader => (Spec => []QueueInv)
      /\ FanoutSpec => []QueueInv
  BY QueueInvariant
<1> QED BY <1>1, <1>2, <1>3, <1>4, PTL DEF Spec, FanoutSpec

\* Each step of the queue is one of the channel, or none.
LEMMA ChannelSteps ==
  [](QueueInv /\ ChannelInv) /\ [][Next]_vars =>
    [][Channel!ChannelNext]_(Channel!channelVars)
<1>1. QueueInv /\ ChannelInv => HeldIsNext
  BY HeldAtNext DEF ChannelInv
<1>2. /\ QueueInv /\ ChannelInv /\ HeldIsNext /\ HeldIsNext' /\ [Next]_vars
      => [Channel!ChannelNext]_(Channel!channelVars)
  BY MappedStep
<1> QED BY <1>1, <1>2, PTL

\* "safe communication between the producer(s) and consumer(s)": with one
\* reader, whatever it and the writers do, aborts and close included, the queue
\* is the broadcast channel.  The reader is given exactly the committed messages
\* claimed since it joined, each once, in the order of the claims, and none that
\* is open or was aborted; for any number of writers, in configurations whose
\* headers can be kept by position.
THEOREM QueueImplementsChannel ==
  ASSUME Served, HeadersByPosition
  PROVE  OneReader => (Spec => ImplementsChannel)
<1>1. Init => Channel!ChannelInit
  BY MappedInit
<1>2. OneReader => (Spec => []QueueInv)
  BY QueueInvariant
<1>3. OneReader => (Spec => []ChannelInv)
  BY ChannelInvariant
<1> QED BY <1>1, <1>2, <1>3, ChannelSteps, PTL
    DEF Spec, ImplementsChannel, Channel!ChannelSpec

\* So is each of any number of readers given the messages claimed since it
\* joined, as long as nobody aborts or closes and no header is cleared between
\* the two looks of a poll (NoClearMidPoll: without it the code does not
\* implement the channel).
THEOREM FanoutImplementsChannel ==
  ASSUME Served, HeadersByPosition
  PROVE  FanoutSpec => ImplementsChannel
<1>1. Init => Channel!ChannelInit
  BY MappedInit
<1>2. [FanoutNext]_vars => [Next]_vars
  BY DEF FanoutNext, Next
<1>3. FanoutSpec => []QueueInv
  BY QueueInvariant
<1>4. FanoutSpec => []ChannelInv
  BY ChannelInvariant
<1> QED BY <1>1, <1>2, <1>3, <1>4, ChannelSteps, PTL
    DEF FanoutSpec, ImplementsChannel, Channel!ChannelSpec
=============================================================================
