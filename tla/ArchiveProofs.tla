--------------------------- MODULE ArchiveProofs ---------------------------
(***************************************************************************)
(* Theorems about Archive for any number of publications, subscriptions    *)
(* and claims, and any capacity of the ring.                               *)
(***************************************************************************)
EXTENDS ArchiveInvariant, SequenceTheorems, TLAPS

-----------------------------------------------------------------------------
(* Facts about sequences *)

LEMMA Emptied ==
  ASSUME NEW S, NEW s \in Seq(S)
  PROVE  Len(s) = 0 <=> s = << >>
BY EmptySeq

LEMMA AppendElements ==
  ASSUME NEW S, NEW s \in Seq(S), NEW e \in S
  PROVE  /\ Append(s, e) \in Seq(S)
         /\ Elements(Append(s, e)) = Elements(s) \cup {e}
<1>1. /\ Append(s, e) \in Seq(S) /\ Len(s) \in Nat
      /\ Len(Append(s, e)) = Len(s) + 1
      /\ \A i \in 1 .. Len(s) : Append(s, e)[i] = s[i]
      /\ Append(s, e)[Len(s) + 1] = e
  BY AppendProperties, LenProperties
<1>2. DOMAIN s = 1 .. Len(s) /\ DOMAIN Append(s, e) = 1 .. Len(s) + 1
  BY <1>1, LenProperties
<1>3. 1 .. Len(s) + 1 = 1 .. Len(s) \cup {Len(s) + 1}
  BY <1>1
<1> QED BY <1>1, <1>2, <1>3 DEF Elements

LEMMA TailElements ==
  ASSUME NEW S, NEW s \in Seq(S), s # << >>
  PROVE  /\ Tail(s) \in Seq(S) /\ Head(s) \in S
         /\ Len(Tail(s)) = Len(s) - 1
         /\ Elements(s) = Elements(Tail(s)) \cup {Head(s)}
<1>1. /\ Tail(s) \in Seq(S) /\ Head(s) \in S
      /\ Len(Tail(s)) = Len(s) - 1
      /\ \A i \in 1 .. Len(Tail(s)) : Tail(s)[i] = s[i + 1]
      /\ Len(s) \in Nat \ {0}
  BY HeadTailProperties, EmptySeq
<1>2. DOMAIN s = 1 .. Len(s) /\ DOMAIN Tail(s) = 1 .. Len(s) - 1
  BY <1>1, LenProperties
<1>3. Head(s) = s[1]
  OBVIOUS
<1>4. ASSUME NEW x \in Elements(s), x # Head(s)
      PROVE  x \in Elements(Tail(s))
  <2>1. PICK i \in 1 .. Len(s) : x = s[i]
    BY <1>2 DEF Elements
  <2>2. i # 1
    BY <1>3, <1>4, <2>1
  <2>3. i - 1 \in 1 .. Len(s) - 1 /\ (i - 1) + 1 = i
    BY <1>1, <2>2
  <2> QED BY <1>1, <1>2, <2>1, <2>3 DEF Elements
<1>5. ASSUME NEW x \in Elements(Tail(s))
      PROVE  x \in Elements(s)
  <2>1. PICK i \in 1 .. Len(s) - 1 : x = Tail(s)[i]
    BY <1>2 DEF Elements
  <2>2. i + 1 \in 1 .. Len(s)
    BY <1>1
  <2> QED BY <1>1, <1>2, <2>1, <2>2 DEF Elements
<1>6. Head(s) \in Elements(s)
  BY <1>1, <1>2, <1>3 DEF Elements
<1> QED BY <1>1, <1>4, <1>5, <1>6

LEMMA FrontElements ==
  ASSUME NEW S, NEW s \in Seq(S), s # << >>
  PROVE  /\ SubSeq(s, 1, Len(s) - 1) \in Seq(S)
         /\ Len(SubSeq(s, 1, Len(s) - 1)) = Len(s) - 1
<1>1. Len(s) \in Nat \ {0} /\ s \in [1 .. Len(s) -> S]
  BY EmptySeq, LenProperties
<1>2. \A i \in 1 .. Len(s) - 1 : s[i] \in S
  BY <1>1
<1>3. 1 \in Int /\ Len(s) - 1 \in Int
  BY <1>1
<1>4. /\ SubSeq(s, 1, Len(s) - 1) \in Seq(S)
      /\ Len(SubSeq(s, 1, Len(s) - 1)) =
           IF 1 <= Len(s) - 1 THEN (Len(s) - 1) - 1 + 1 ELSE 0
  BY <1>2, <1>3, SubSeqProperties
<1> QED BY <1>1, <1>4

LEMMA OneElement ==
  ASSUME NEW S, NEW s \in Seq(S), s # << >>, Len(s) <= 1
  PROVE  Len(s) = 1 /\ Elements(s) = {s[1]}
<1>1. Len(s) \in Nat \ {0} /\ DOMAIN s = 1 .. Len(s)
  BY EmptySeq, LenProperties
<1> QED BY <1>1 DEF Elements

-----------------------------------------------------------------------------
(* What each action does to the variables *)

LEMMA Typing ==
  ASSUME ArchiveTypeOK
  PROVE  /\ Len(log) \in Nat
         /\ DOMAIN log = 1 .. Len(log) /\ DOMAIN body = 1 .. Len(log)
         /\ \A i \in DOMAIN log : log[i] \in {"open", "ready"}
         /\ \A p \in Publishers : pub[p] \in Publication
BY LenProperties, ElementOfSeq DEF ArchiveTypeOK

LEMMA PubUpdate ==
  ASSUME ArchiveTypeOK, NEW p \in Publishers, NEW e \in Publication,
         pub' = [pub EXCEPT ![p] = e]
  PROVE  /\ pub' \in [Publishers -> Publication]
         /\ pub'[p] = e
         /\ \A q \in Publishers :
              q # p => pub'[q] = pub[q] /\ Pending(q)' = Pending(q)
BY DEF ArchiveTypeOK, Pending

LEMMA StatusUpdate ==
  ASSUME ArchiveTypeOK, NEW i, log[i] = "open",
         log' = [log EXCEPT ![i] = "ready"]
  PROVE  /\ log' \in Seq({"open", "ready"}) /\ Len(log') = Len(log)
         /\ DOMAIN log' = DOMAIN log
         /\ \A j \in DOMAIN log : j # i => log'[j] = log[j]
         /\ i \in DOMAIN log => log'[i] = "ready"
<1>1. log \in Seq({"open", "ready"}) /\ DOMAIN log = 1 .. Len(log)
  BY Typing DEF ArchiveTypeOK
<1>2. CASE i \in DOMAIN log
  <2>1. log' \in Seq({"open", "ready"}) /\ Len(log') = Len(log)
    BY <1>1, <1>2, ExceptSeq
  <2> QED BY <1>1, <2>1
<1>3. CASE i \notin DOMAIN log
  <2>1. log' = log
    BY <1>1, <1>3
  <2> QED BY <1>1, <1>3, <2>1
<1> QED BY <1>2, <1>3

LEMMA BodyUpdate ==
  ASSUME ArchiveTypeOK, NEW i, NEW b \in {"blank", "partial", "whole"},
         body' = [body EXCEPT ![i] = b]
  PROVE  /\ body' \in Seq({"blank", "partial", "whole"})
         /\ Len(body') = Len(body)
         /\ \A j \in DOMAIN log : j # i => body'[j] = body[j]
         /\ i \in DOMAIN log => body'[i] = b
<1>1. /\ body \in Seq({"blank", "partial", "whole"})
      /\ DOMAIN body = 1 .. Len(body) /\ DOMAIN log = DOMAIN body
  BY Typing DEF ArchiveTypeOK
<1>2. CASE i \in DOMAIN body
  <2>1. /\ body' \in Seq({"blank", "partial", "whole"})
        /\ Len(body') = Len(body)
    BY <1>1, <1>2, ExceptSeq
  <2> QED BY <1>1, <2>1
<1>3. CASE i \notin DOMAIN body
  <2>1. body' = body
    BY <1>1, <1>3
  <2> QED BY <1>1, <1>3, <2>1
<1> QED BY <1>2, <1>3

LEMMA ClaimEffect ==
  ASSUME ArchiveTypeOK, NEW p \in Publishers, NEW b \in BOOLEAN,
         ClaimFor(p, b)
  PROVE  /\ ArchiveTypeOK'
         /\ Len(log') = Len(log) + 1
         /\ DOMAIN log' = DOMAIN log \cup {Len(log) + 1}
         /\ Len(log) + 1 \notin DOMAIN log
         /\ \A i \in DOMAIN log : log'[i] = log[i] /\ body'[i] = body[i]
         /\ log'[Len(log) + 1] = "open"
         /\ UNCHANGED <<next, reading, handler, joined>>
         /\ pub[p].pc = "running"
         /\ pub'[p].pc = "waiting" /\ pub'[p].claim = Len(log) + 1
         /\ pub'[p].block = b
         /\ pub'[p].to_commit = pub[p].to_commit
         /\ pub'[p].blocks = pub[p].blocks
         /\ \A q \in Publishers : q # p => pub'[q] = pub[q]
         /\ \A q \in Publishers : Pending(q)' = Pending(q)
<1> DEFINE n == Len(log) + 1
           e == [pub[p] EXCEPT !.pc = "waiting", !.block = b, !.claim = n]
<1>1. /\ Len(log) \in Nat /\ DOMAIN log = 1 .. Len(log)
      /\ DOMAIN body = 1 .. Len(log) /\ pub[p] \in Publication
      /\ log \in Seq({"open", "ready"})
      /\ body \in Seq({"blank", "partial", "whole"}) /\ Len(body) = Len(log)
  BY Typing DEF ArchiveTypeOK
<1>2. /\ log' = Append(log, "open") /\ body' = Append(body, "blank")
      /\ UNCHANGED <<next, reading, handler, joined>> /\ pub[p].pc = "running"
  BY DEF ClaimFor, Claim
<1>3. /\ log' \in Seq({"open", "ready"}) /\ Len(log') = n
      /\ \A i \in 1 .. Len(log) : log'[i] = log[i]
      /\ log'[n] = "open"
  BY <1>1, <1>2, AppendProperties
<1>4. /\ body' \in Seq({"blank", "partial", "whole"}) /\ Len(body') = n
      /\ \A i \in 1 .. Len(log) : body'[i] = body[i]
  BY <1>1, <1>2, AppendProperties
<1>5. DOMAIN log' = DOMAIN log \cup {n} /\ n \notin DOMAIN log
  <2>1. DOMAIN log' = 1 .. n
    BY <1>3, LenProperties
  <2> QED BY <1>1, <2>1
<1>6. e \in Publication /\ pub' = [pub EXCEPT ![p] = e]
  <2>1. n \in Nat /\ pub' = [pub EXCEPT ![p].pc = "waiting", ![p].block = b,
                                        ![p].claim = n]
    BY <1>1 DEF ClaimFor
  <2> HIDE DEF n
  <2> QED BY <1>1, <2>1 DEF Publication, ArchiveTypeOK
<1>7. /\ e.pc = "waiting" /\ e.claim = n /\ e.block = b
      /\ e.to_commit = pub[p].to_commit /\ e.blocks = pub[p].blocks
  BY <1>1 DEF Publication
<1> HIDE DEF e
<1>8. /\ pub' \in [Publishers -> Publication] /\ pub'[p] = e
      /\ \A q \in Publishers :
           q # p => pub'[q] = pub[q] /\ Pending(q)' = Pending(q)
  BY <1>6, PubUpdate
<1>9. Pending(p)' = Pending(p)
  BY <1>7, <1>8 DEF Pending
<1>10. ArchiveTypeOK'
  BY <1>2, <1>3, <1>4, <1>8 DEF ArchiveTypeOK
<1> QED BY <1>1, <1>2, <1>3, <1>4, <1>5, <1>7, <1>8, <1>9, <1>10

LEMMA GrantedEffect ==
  ASSUME ArchiveTypeOK, NEW p \in Publishers, Granted(p)
  PROVE  /\ ArchiveTypeOK'
         /\ UNCHANGED <<log, next, reading, handler, joined>>
         /\ \A i \in DOMAIN log : i # pub[p].claim => body'[i] = body[i]
         /\ pub[p].pc = "waiting"
         /\ pub'[p].pc = "running"
         /\ pub'[p].to_commit = Append(pub[p].to_commit, pub[p].claim)
         /\ pub'[p].blocks = IF pub[p].block
                               THEN Append(pub[p].blocks, pub[p].claim)
                               ELSE pub[p].blocks
         /\ \A q \in Publishers :
              q # p => pub'[q] = pub[q] /\ Pending(q)' = Pending(q)
         /\ Pending(p)' = Pending(p) \cup {pub[p].claim}
<1> DEFINE c == pub[p].claim
           b == IF pub[p].block THEN Append(pub[p].blocks, c)
                                ELSE pub[p].blocks
           e == [pub[p] EXCEPT !.pc = "running",
                               !.to_commit = Append(@, c), !.blocks = b]
<1>1. /\ pub[p] \in Publication /\ c \in Nat
      /\ pub[p].to_commit \in Seq(Nat) /\ pub[p].blocks \in Seq(Nat)
  BY Typing DEF Publication
<1>2. /\ Append(pub[p].to_commit, c) \in Seq(Nat)
      /\ Elements(Append(pub[p].to_commit, c)) = Pending(p) \cup {c}
      /\ Append(pub[p].blocks, c) \in Seq(Nat)
  BY <1>1, AppendElements DEF Pending
<1>3. b \in Seq(Nat)
  BY <1>1, <1>2
<1>4. pub' = [pub EXCEPT ![p] = e]
  BY <1>1 DEF Granted, Publication
<1> HIDE DEF b
<1>5. /\ e \in Publication
      /\ e.pc = "running" /\ e.to_commit = Append(pub[p].to_commit, c)
      /\ e.blocks = b
  BY <1>1, <1>2, <1>3 DEF Publication
<1> HIDE DEF e
<1>6. /\ pub' \in [Publishers -> Publication] /\ pub'[p] = e
      /\ \A q \in Publishers :
           q # p => pub'[q] = pub[q] /\ Pending(q)' = Pending(q)
  BY <1>4, <1>5, PubUpdate
<1>7. Pending(p)' = Pending(p) \cup {c}
  BY <1>2, <1>5, <1>6 DEF Pending
<1>8. /\ UNCHANGED <<log, next, reading, handler, joined>> /\ pub[p].pc = "waiting"
      /\ body' = IF pub[p].block THEN [body EXCEPT ![c] = "partial"] ELSE body
  BY DEF Granted, channelVars
<1>9. /\ body' \in Seq({"blank", "partial", "whole"}) /\ Len(body') = Len(body)
      /\ \A i \in DOMAIN log : i # c => body'[i] = body[i]
  BY <1>8, BodyUpdate DEF ArchiveTypeOK
<1>10. ArchiveTypeOK'
  BY <1>6, <1>8, <1>9 DEF ArchiveTypeOK
<1> QED BY <1>5, <1>6, <1>7, <1>8, <1>9, <1>10 DEF b

LEMMA FillEffect ==
  ASSUME ArchiveTypeOK, NEW p \in Publishers, NEW i, Fill(p, i)
  PROVE  /\ ArchiveTypeOK'
         /\ UNCHANGED <<log, next, reading, handler, joined, pub>>
         /\ \A j \in DOMAIN log : j # i => body'[j] = body[j]
         /\ i \in DOMAIN log => body'[i] = "whole"
         /\ \A q \in Publishers : Pending(q)' = Pending(q)
<1>1. /\ body' = [body EXCEPT ![i] = "whole"]
      /\ UNCHANGED <<log, next, reading, handler, joined, pub>>
  BY DEF Fill, channelVars
<1>2. /\ body' \in Seq({"blank", "partial", "whole"})
      /\ Len(body') = Len(body)
      /\ \A j \in DOMAIN log : j # i => body'[j] = body[j]
      /\ i \in DOMAIN log => body'[i] = "whole"
  BY <1>1, BodyUpdate
<1>3. ArchiveTypeOK'
  BY <1>1, <1>2 DEF ArchiveTypeOK
<1> QED BY <1>1, <1>2, <1>3 DEF Pending

LEMMA LeaveEffect ==
  ASSUME ArchiveTypeOK, NEW p \in Publishers, NEW pc \in {"running", "committing"},
         LeaveBlock(p, pc)
  PROVE  /\ ArchiveTypeOK'
         /\ UNCHANGED <<log, next, reading, handler, joined, body>>
         /\ pub[p].pc = "running" /\ pub[p].blocks # << >>
         /\ pub'[p].pc = pc
         /\ pub'[p].to_commit = pub[p].to_commit
         /\ Len(pub'[p].blocks) = Len(pub[p].blocks) - 1
         /\ \A q \in Publishers : q # p => pub'[q] = pub[q]
         /\ \A q \in Publishers : Pending(q)' = Pending(q)
<1> DEFINE b == SubSeq(pub[p].blocks, 1, Len(pub[p].blocks) - 1)
           e == [pub[p] EXCEPT !.pc = pc, !.blocks = b]
<1>1. pub[p] \in Publication /\ pub[p].blocks \in Seq(Nat)
  BY Typing DEF Publication
<1>2. /\ pub[p].pc = "running" /\ pub[p].blocks # << >>
      /\ UNCHANGED <<log, next, reading, handler, joined, body>>
      /\ pub' = [pub EXCEPT ![p] = e]
  BY <1>1 DEF LeaveBlock, channelVars, Publication
<1>3. b \in Seq(Nat) /\ Len(b) = Len(pub[p].blocks) - 1
  BY <1>1, <1>2, FrontElements
<1> HIDE DEF b
<1>4. /\ e \in Publication /\ e.pc = pc /\ e.to_commit = pub[p].to_commit
      /\ e.blocks = b
  BY <1>1, <1>3 DEF Publication
<1> HIDE DEF e
<1>5. /\ pub' \in [Publishers -> Publication] /\ pub'[p] = e
      /\ \A q \in Publishers :
           q # p => pub'[q] = pub[q] /\ Pending(q)' = Pending(q)
  BY <1>2, <1>4, PubUpdate
<1>6. Pending(p)' = Pending(p)
  BY <1>4, <1>5 DEF Pending
<1>7. ArchiveTypeOK'
  BY <1>2, <1>5 DEF ArchiveTypeOK
<1> QED BY <1>2, <1>3, <1>4, <1>5, <1>6, <1>7

\* Commit, Close and CommitDone.
LEMMA PcEffect ==
  ASSUME ArchiveTypeOK, NEW p \in Publishers,
         NEW pc \in {"running", "committing", "closing", "closed", "gone"},
         pub' = [pub EXCEPT ![p].pc = pc],
         UNCHANGED <<channelVars, body, handler, joined>>
  PROVE  /\ ArchiveTypeOK'
         /\ UNCHANGED <<log, next, reading, handler, joined, body>>
         /\ pub'[p].pc = pc
         /\ pub'[p].to_commit = pub[p].to_commit
         /\ pub'[p].blocks = pub[p].blocks
         /\ \A q \in Publishers : q # p => pub'[q] = pub[q]
         /\ \A q \in Publishers : Pending(q)' = Pending(q)
<1> DEFINE e == [pub[p] EXCEPT !.pc = pc]
<1>1. pub[p] \in Publication
  BY Typing
<1>2. /\ e \in Publication /\ e.pc = pc /\ e.to_commit = pub[p].to_commit
      /\ e.blocks = pub[p].blocks
  BY <1>1 DEF Publication
<1>3. pub' = [pub EXCEPT ![p] = e]
  OBVIOUS
<1> HIDE DEF e
<1>4. /\ pub' \in [Publishers -> Publication] /\ pub'[p] = e
      /\ \A q \in Publishers :
           q # p => pub'[q] = pub[q] /\ Pending(q)' = Pending(q)
  BY <1>2, <1>3, PubUpdate
<1>5. Pending(p)' = Pending(p)
  BY <1>2, <1>4 DEF Pending
<1>6. ArchiveTypeOK' /\ UNCHANGED <<log, next, reading, handler, joined, body>>
  BY <1>4 DEF ArchiveTypeOK, channelVars
<1> QED BY <1>2, <1>4, <1>5, <1>6

LEMMA CommitEffect ==
  ASSUME ArchiveTypeOK, NEW p \in Publishers, CommitNext(p)
  PROVE  /\ ArchiveTypeOK'
         /\ UNCHANGED <<next, reading, handler, joined, body>>
         /\ Committing(p) /\ pub[p].to_commit # << >>
         /\ DOMAIN log' = DOMAIN log
         /\ \A j \in DOMAIN log :
              j # Head(pub[p].to_commit) => log'[j] = log[j]
         /\ Head(pub[p].to_commit) \in DOMAIN log =>
              log'[Head(pub[p].to_commit)] = "ready"
         /\ Pending(p) = Pending(p)' \cup {Head(pub[p].to_commit)}
         /\ pub'[p].pc = pub[p].pc
         /\ pub'[p].blocks = pub[p].blocks
         /\ Len(pub'[p].to_commit) = Len(pub[p].to_commit) - 1
         /\ \A q \in Publishers :
              q # p => pub'[q] = pub[q] /\ Pending(q)' = Pending(q)
<1> DEFINE h == Head(pub[p].to_commit)
           t == Tail(pub[p].to_commit)
           e == [pub[p] EXCEPT !.to_commit = t]
<1>1. pub[p] \in Publication /\ pub[p].to_commit \in Seq(Nat)
  BY Typing DEF Publication
<1>2. /\ Committing(p) /\ pub[p].to_commit # << >>
      /\ log[h] = "open" /\ log' = [log EXCEPT ![h] = "ready"]
      /\ UNCHANGED <<next, reading, handler, joined, body>>
  BY DEF CommitNext, Resolve
<1>3. pub' = [pub EXCEPT ![p] = e]
  BY <1>1 DEF CommitNext, AfterCommit, Publication
<1>4. /\ t \in Seq(Nat) /\ Len(t) = Len(pub[p].to_commit) - 1
      /\ Pending(p) = Elements(t) \cup {h}
  BY <1>1, <1>2, TailElements DEF Pending
<1> HIDE DEF h, t
<1>5. /\ e \in Publication /\ e.pc = pub[p].pc /\ e.to_commit = t
      /\ e.blocks = pub[p].blocks
  BY <1>1, <1>4 DEF Publication
<1> HIDE DEF e
<1>6. /\ pub' \in [Publishers -> Publication] /\ pub'[p] = e
      /\ \A q \in Publishers :
           q # p => pub'[q] = pub[q] /\ Pending(q)' = Pending(q)
  BY <1>3, <1>5, PubUpdate
<1>7. Pending(p)' = Elements(t)
  BY <1>5, <1>6 DEF Pending
<1>8. /\ log' \in Seq({"open", "ready"}) /\ Len(log') = Len(log)
      /\ DOMAIN log' = DOMAIN log
      /\ \A j \in DOMAIN log : j # h => log'[j] = log[j]
      /\ h \in DOMAIN log => log'[h] = "ready"
  BY <1>2, StatusUpdate
<1>9. ArchiveTypeOK'
  BY <1>2, <1>6, <1>8 DEF ArchiveTypeOK
<1> QED BY <1>2, <1>4, <1>5, <1>6, <1>7, <1>8, <1>9 DEF h

LEMMA SubscriberEffect ==
  ASSUME ArchiveTypeOK, NEW s \in Subscribers, SubscriberProgress(s)
  PROVE  /\ ArchiveTypeOK'
         /\ UNCHANGED <<log, body, pub, joined>>
         /\ \A q \in Publishers : Pending(q)' = Pending(q)
         /\ \A r \in Subscribers : \/ reading'[r] \in {0, reading[r]}
                                    \/ /\ reading'[r] \in DOMAIN log
                                       /\ log[reading'[r]] = "ready"
<1>1. /\ next \in [Subscribers -> Nat]
      /\ reading \in [Subscribers -> Nat]
      /\ handler \in [Subscribers -> {"idle", "called"} \cup Codes]
  BY DEF ArchiveTypeOK
<1>2. UNCHANGED <<log, body, pub, joined>>
  BY DEF SubscriberProgress, Poll, Read, HandlerReturns, FinishPoll, Pass,
         Unread, channelVars
<1>3. /\ handler' \in [Subscribers -> {"idle", "called"} \cup Codes]
      /\ next' \in [Subscribers -> Nat]
      /\ reading' \in [Subscribers -> Nat]
      /\ \A r \in Subscribers : \/ reading'[r] \in {0, reading[r]}
                                 \/ /\ reading'[r] \in DOMAIN log
                                    /\ log[reading'[r]] = "ready"
  <2>1. CASE Poll(s)
    BY <1>1, <2>1 DEF Poll, Read, GoHandler
  <2>2. ASSUME NEW code \in Codes, HandlerReturns(s, code)
        PROVE  <1>3!:
    BY <1>1, <2>2 DEF HandlerReturns, GoHandler, channelVars
  <2>3. CASE FinishPoll(s)
    BY <1>1, <2>3 DEF FinishPoll, GoHandler, Pass, Unread
  <2> QED BY <2>1, <2>2, <2>3 DEF SubscriberProgress
<1>4. ArchiveTypeOK'
  BY <1>2, <1>3 DEF ArchiveTypeOK
<1> QED BY <1>2, <1>3, <1>4 DEF Pending

LEMMA OpenEffect ==
  ASSUME ArchiveTypeOK, NEW s \in Subscribers, Open(s)
  PROVE  /\ ArchiveTypeOK'
         /\ UNCHANGED <<log, reading, body, pub, handler>>
         /\ next[s] = 0
         /\ next' = [next EXCEPT ![s] = Len(log) + 1]
         /\ joined' = [joined EXCEPT ![s] = Len(log) + 1]
         /\ \A q \in Publishers : Pending(q)' = Pending(q)
<1>1. /\ UNCHANGED <<log, reading, body, pub, handler>>
      /\ next[s] = 0
      /\ next' = [next EXCEPT ![s] = Len(log) + 1]
      /\ joined' = [joined EXCEPT ![s] = Len(log) + 1]
  BY DEF Open, Subscribe
<1>2. Len(log) + 1 \in Nat
  BY Typing
<1>3. ArchiveTypeOK'
  BY <1>1, <1>2 DEF ArchiveTypeOK
<1> QED BY <1>1, <1>3 DEF Pending

-----------------------------------------------------------------------------
(* Every call an application may make *)

LEMMA ArchiveInit ==
  ASSUME Init
  PROVE  /\ ArchiveTypeOK /\ DOMAIN log = {}
         /\ \A s \in Subscribers : reading[s] = 0
         /\ \A p \in Publishers :
              /\ pub[p].pc = "running" /\ pub[p].to_commit = << >>
              /\ pub[p].blocks = << >> /\ Pending(p) = {}
<1>1. /\ << >> \in Seq({"open", "ready"}) /\ << >> \in Seq(Nat)
      /\ << >> \in Seq({"blank", "partial", "whole"}) /\ Len(<< >>) = 0
  BY EmptySeq
<1>2. pub \in [Publishers -> Publication]
  BY <1>1 DEF Init, Publication
<1>3. ArchiveTypeOK
  BY <1>1, <1>2 DEF Init, ChannelInit, ArchiveTypeOK
<1> QED BY <1>3 DEF Init, ChannelInit, Pending, Elements

\* A step of a publication that commits nothing loses no claim it has, and is
\* not the end of a close.
LEMMA StillHeld ==
  ASSUME NothingForgotten, NEW p \in Publishers, UNCHANGED log,
         pub'[p].pc \notin {"waiting", "closed", "gone"},
         Pending(p) \subseteq Pending(p)',
         pub[p].pc = "waiting" => pub[p].claim \in Pending(p)',
         \A q \in Publishers :
           q # p => pub'[q] = pub[q] /\ Pending(q)' = Pending(q)
  PROVE  NothingForgotten'
BY DEF NothingForgotten

LEMMA ForgetStep ==
  ASSUME ArchiveTypeOK, NothingForgotten, Next
  PROVE  ArchiveTypeOK' /\ NothingForgotten'
<1>1. ASSUME NEW p \in Publishers, ClaimBuffer(p) \/ EnterBlock(p)
      PROVE  ArchiveTypeOK' /\ NothingForgotten'
  <2>1. PICK b \in BOOLEAN : ClaimFor(p, b)
    BY <1>1 DEF ClaimBuffer, EnterBlock
  <2>2. /\ ArchiveTypeOK'
        /\ DOMAIN log' = DOMAIN log \cup {Len(log) + 1}
        /\ \A i \in DOMAIN log : log'[i] = log[i]
        /\ pub[p].pc = "running"
        /\ pub'[p].pc = "waiting" /\ pub'[p].claim = Len(log) + 1
        /\ \A q \in Publishers : q # p => pub'[q] = pub[q]
        /\ \A q \in Publishers : Pending(q)' = Pending(q)
    BY <2>1, ClaimEffect
  <2> QED BY <2>2 DEF NothingForgotten
<1>2. ASSUME NEW p \in Publishers, Granted(p)
      PROVE  ArchiveTypeOK' /\ NothingForgotten'
  <2>1. /\ ArchiveTypeOK' /\ UNCHANGED log /\ pub'[p].pc = "running"
        /\ Pending(p)' = Pending(p) \cup {pub[p].claim}
        /\ \A q \in Publishers :
             q # p => pub'[q] = pub[q] /\ Pending(q)' = Pending(q)
    BY <1>2, GrantedEffect
  <2> QED BY <2>1, StillHeld
<1>3. ASSUME NEW p \in Publishers, NEW i, Fill(p, i)
      PROVE  ArchiveTypeOK' /\ NothingForgotten'
  <2>1. /\ ArchiveTypeOK' /\ UNCHANGED <<log, pub>>
        /\ \A q \in Publishers : Pending(q)' = Pending(q)
    BY <1>3, FillEffect
  <2> QED BY <2>1 DEF NothingForgotten
<1>4. ASSUME NEW p \in Publishers, ExitBlock(p) \/ RaiseInBlock(p)
      PROVE  ArchiveTypeOK' /\ NothingForgotten'
  <2>1. PICK pc \in {"running", "committing"} : LeaveBlock(p, pc)
    BY <1>4 DEF ExitBlock, RaiseInBlock
  <2>2. /\ ArchiveTypeOK' /\ UNCHANGED log
        /\ pub'[p].pc \in {"running", "committing"}
        /\ pub[p].pc = "running"
        /\ \A q \in Publishers : q # p => pub'[q] = pub[q]
        /\ \A q \in Publishers : Pending(q)' = Pending(q)
    BY <2>1, LeaveEffect
  <2> QED BY <2>2, StillHeld
<1>5. ASSUME NEW p \in Publishers, Commit(p) \/ Close(p)
      PROVE  ArchiveTypeOK' /\ NothingForgotten'
  <2>1. /\ pub[p].pc = "running" /\ UNCHANGED <<channelVars, body, handler, joined>>
        /\ \E pc \in {"committing", "closing"} :
             pub' = [pub EXCEPT ![p].pc = pc]
    BY <1>5 DEF Commit, Close
  <2>2. PICK pc \in {"committing", "closing"} :
          pub' = [pub EXCEPT ![p].pc = pc]
    BY <2>1
  <2>3. /\ ArchiveTypeOK' /\ UNCHANGED log /\ pub'[p].pc = pc
        /\ \A q \in Publishers : q # p => pub'[q] = pub[q]
        /\ \A q \in Publishers : Pending(q)' = Pending(q)
    BY <2>1, <2>2, PcEffect
  <2> QED BY <2>1, <2>3, StillHeld
<1>6. ASSUME NEW p \in Publishers, CommitNext(p)
      PROVE  ArchiveTypeOK' /\ NothingForgotten'
  <2> DEFINE h == Head(pub[p].to_commit)
  <2>1. /\ ArchiveTypeOK' /\ Committing(p) /\ DOMAIN log' = DOMAIN log
        /\ \A j \in DOMAIN log : j # h => log'[j] = log[j]
        /\ h \in DOMAIN log => log'[h] = "ready"
        /\ Pending(p) = Pending(p)' \cup {h}
        /\ pub'[p].pc = pub[p].pc
        /\ \A q \in Publishers :
             q # p => pub'[q] = pub[q] /\ Pending(q)' = Pending(q)
    BY <1>6, CommitEffect
  <2> HIDE DEF h
  <2>2. SUFFICES ASSUME NEW i \in DOMAIN log, log'[i] = "open"
                 PROVE  \E q \in Publishers :
                          \/ i \in Pending(q)' /\ pub'[q].pc \notin {"closed", "gone"}
                          \/ pub'[q].pc = "waiting" /\ pub'[q].claim = i
    BY <2>1 DEF NothingForgotten
  <2>3. i # h /\ log[i] = "open"
    BY <2>1, <2>2
  <2>4. PICK q \in Publishers :
          \/ i \in Pending(q) /\ pub[q].pc \notin {"closed", "gone"}
          \/ pub[q].pc = "waiting" /\ pub[q].claim = i
    BY <2>3 DEF NothingForgotten
  <2> QED BY <2>1, <2>3, <2>4 DEF Committing
<1>7. ASSUME NEW p \in Publishers, CommitDone(p)
      PROVE  ArchiveTypeOK' /\ NothingForgotten'
  <2>1. /\ Committing(p) /\ pub[p].to_commit = << >>
        /\ UNCHANGED <<channelVars, body, handler, joined>>
        /\ \E pc \in {"closed", "running"} : pub' = [pub EXCEPT ![p].pc = pc]
    BY <1>7 DEF CommitDone
  <2>2. PICK pc \in {"closed", "running"} : pub' = [pub EXCEPT ![p].pc = pc]
    BY <2>1
  <2>3. /\ ArchiveTypeOK' /\ UNCHANGED log
        /\ \A q \in Publishers : q # p => pub'[q] = pub[q]
        /\ \A q \in Publishers : Pending(q)' = Pending(q)
    BY <2>1, <2>2, PcEffect
  <2>4. Pending(p) = {} /\ pub[p].pc # "waiting"
    BY <2>1 DEF Pending, Elements, Committing
  <2> QED BY <2>3, <2>4 DEF NothingForgotten
<1>8. ASSUME NEW s \in Subscribers, SubscriberProgress(s)
      PROVE  ArchiveTypeOK' /\ NothingForgotten'
  <2>1. /\ ArchiveTypeOK' /\ UNCHANGED <<log, pub>>
        /\ \A q \in Publishers : Pending(q)' = Pending(q)
    BY <1>8, SubscriberEffect
  <2> QED BY <2>1 DEF NothingForgotten
<1>9. ASSUME NEW s \in Subscribers, Open(s)
      PROVE  ArchiveTypeOK' /\ NothingForgotten'
  <2>1. /\ ArchiveTypeOK' /\ UNCHANGED <<log, pub>>
        /\ \A q \in Publishers : Pending(q)' = Pending(q)
    BY <1>9, OpenEffect
  <2> QED BY <2>1 DEF NothingForgotten
<1> QED BY <1>1, <1>2, <1>3, <1>4, <1>5, <1>6, <1>7, <1>8, <1>9
         DEF Next, Progress, PublisherProgress, Opens

\* Whatever the processes of alpha claim, nest, raise, batch or close: a claim
\* that is not committed is in the deque of a publication that can still commit
\* it, or about to go into it.  (A delete without a close, which alpha never
\* calls for, drops claims: DestroyingSpec does not have the property.)
THEOREM ArchiveForgetsNothing == Spec => []NothingForgotten
<1>1. Init => ArchiveTypeOK /\ NothingForgotten
  BY ArchiveInit DEF NothingForgotten
<1>2. ArchiveTypeOK /\ NothingForgotten /\ [Next]_vars =>
        (ArchiveTypeOK /\ NothingForgotten)'
  <2>1. ASSUME ArchiveTypeOK, NothingForgotten, UNCHANGED vars
        PROVE  (ArchiveTypeOK /\ NothingForgotten)'
    BY <2>1 DEF vars, channelVars, ArchiveTypeOK, NothingForgotten, Pending
  <2> QED BY <2>1, ForgetStep
<1> QED BY <1>1, <1>2, PTL DEF Spec

-----------------------------------------------------------------------------
(* One with block at a time *)

\* A publication that has not resolved anything, and changes nothing but its
\* own control state and blocks, keeps what it owns.
LEMMA SameOwned ==
  ASSUME OwnedInv, NEW p \in Publishers, UNCHANGED log,
         pub[p].pc # "waiting", pub'[p].pc # "waiting",
         \A q \in Publishers : q # p => pub'[q] = pub[q],
         \A q \in Publishers : Pending(q)' = Pending(q)
  PROVE  OwnedInv'
<1>1. \A q \in Publishers : Owned(q)' = Owned(q)
  BY DEF Owned
<1> QED BY <1>1 DEF OwnedInv

LEMMA EnterStep ==
  ASSUME BlocksInv, NEW p \in Publishers, pub[p].blocks = << >>, EnterBlock(p)
  PROVE  BlocksInv'
<1> DEFINE n == Len(log) + 1
<1>1. ArchiveTypeOK /\ ClaimFor(p, TRUE)
  BY DEF BlocksInv, EnterBlock
<1>2. /\ ArchiveTypeOK'
      /\ DOMAIN log' = DOMAIN log \cup {n} /\ n \notin DOMAIN log
      /\ \A i \in DOMAIN log : log'[i] = log[i] /\ body'[i] = body[i]
      /\ log'[n] = "open" /\ UNCHANGED reading
      /\ pub[p].pc = "running"
      /\ pub'[p].pc = "waiting" /\ pub'[p].claim = n /\ pub'[p].block
      /\ pub'[p].to_commit = pub[p].to_commit
      /\ pub'[p].blocks = pub[p].blocks
      /\ \A q \in Publishers : q # p => pub'[q] = pub[q]
      /\ \A q \in Publishers : Pending(q)' = Pending(q)
  BY <1>1, ClaimEffect
<1> HIDE DEF n
<1>3. pub[p].to_commit = << >> /\ Pending(p) = {}
  BY <1>2 DEF BlocksInv, BlockInv, Pending, Elements
<1>4. Owned(p)' = {n} /\ \A q \in Publishers : q # p => Owned(q)' = Owned(q)
  BY <1>2, <1>3 DEF Owned
<1>5. OwnedInv'
  BY <1>2, <1>4 DEF BlocksInv, OwnedInv
<1>6. BlockInv'
  <2>1. ASSUME NEW q \in Publishers, q # p, Committing(q), NEW i \in Pending(q)
        PROVE  body'[i] = body[i]
    BY <1>2, <2>1 DEF BlocksInv, OwnedInv, Owned
  <2> QED BY <1>2, <1>3, <2>1 DEF BlocksInv, BlockInv, Committing
<1>7. ReadyInv'
  BY <1>2 DEF BlocksInv, ReadyInv
<1> QED BY <1>2, <1>5, <1>6, <1>7 DEF BlocksInv

LEMMA GrantedStep ==
  ASSUME BlocksInv, NEW p \in Publishers, Granted(p)
  PROVE  BlocksInv'
<1> DEFINE c == pub[p].claim
<1>1. ArchiveTypeOK
  BY DEF BlocksInv
<1>2. /\ ArchiveTypeOK'
      /\ UNCHANGED <<log, reading>>
      /\ \A i \in DOMAIN log : i # c => body'[i] = body[i]
      /\ pub[p].pc = "waiting" /\ pub'[p].pc = "running"
      /\ pub'[p].to_commit = Append(pub[p].to_commit, c)
      /\ pub'[p].blocks = IF pub[p].block THEN Append(pub[p].blocks, c)
                                          ELSE pub[p].blocks
      /\ \A q \in Publishers :
           q # p => pub'[q] = pub[q] /\ Pending(q)' = Pending(q)
      /\ Pending(p)' = Pending(p) \cup {c}
  BY <1>1, GrantedEffect
<1>3. pub[p].block /\ pub[p].to_commit = << >> /\ pub[p].blocks = << >>
  BY <1>2 DEF BlocksInv, BlockInv
<1>4. pub'[p].to_commit = pub'[p].blocks /\ Len(pub'[p].blocks) <= 1
  BY <1>2, <1>3
<1>5. \A q \in Publishers : Owned(q)' = Owned(q)
  BY <1>2 DEF Owned
<1>6. OwnedInv' /\ c \in Owned(p) /\ log[c] = "open"
  BY <1>2, <1>5 DEF BlocksInv, OwnedInv, Owned
<1> HIDE DEF c
<1>7. BlockInv'
  <2>1. ASSUME NEW q \in Publishers, q # p, Committing(q), NEW i \in Pending(q)
        PROVE  body'[i] = body[i]
    <3>1. i \in Owned(q) /\ i \in DOMAIN log
      BY <2>1 DEF BlocksInv, OwnedInv, Owned
    <3>2. i # c
      BY <1>6, <2>1, <3>1 DEF BlocksInv, OwnedInv
    <3> QED BY <1>2, <3>1, <3>2
  <2>2. /\ pub'[p].pc = "running"
        /\ pub'[p].to_commit = pub'[p].blocks /\ Len(pub'[p].blocks) <= 1
        /\ \A q \in Publishers :
             q # p => pub'[q] = pub[q] /\ Pending(q)' = Pending(q)
    BY <1>2, <1>4
  <2> QED BY <2>1, <2>2 DEF BlocksInv, BlockInv, Committing
<1>8. ReadyInv'
  BY <1>2, <1>6 DEF BlocksInv, ReadyInv
<1> QED BY <1>2, <1>6, <1>7, <1>8 DEF BlocksInv

LEMMA FillStep ==
  ASSUME BlocksInv, NEW p \in Publishers, NEW i, Fill(p, i)
  PROVE  BlocksInv'
<1>1. /\ ArchiveTypeOK'
      /\ UNCHANGED <<log, reading, pub>>
      /\ \A j \in DOMAIN log : j # i => body'[j] = body[j]
      /\ i \in DOMAIN log => body'[i] = "whole"
      /\ \A q \in Publishers : Pending(q)' = Pending(q)
  BY FillEffect DEF BlocksInv
<1>2. \A q \in Publishers : Owned(q)' = Owned(q)
  BY <1>1 DEF Owned
<1>3. OwnedInv'
  BY <1>1, <1>2 DEF BlocksInv, OwnedInv
<1>4. BlockInv'
  <2>1. ASSUME NEW q \in Publishers, Committing(q), NEW j \in Pending(q)
        PROVE  body'[j] = "whole"
    <3>1. j \in DOMAIN log /\ body[j] = "whole"
      BY <2>1 DEF BlocksInv, OwnedInv, Owned, BlockInv
    <3> QED BY <1>1, <3>1
  <2> QED BY <1>1, <2>1 DEF BlocksInv, BlockInv, Committing
<1>5. ReadyInv'
  BY <1>1 DEF BlocksInv, ReadyInv
<1> QED BY <1>1, <1>3, <1>4, <1>5 DEF BlocksInv

LEMMA ExitStep ==
  ASSUME BlocksInv, NEW p \in Publishers, ExitBlock(p)
  PROVE  BlocksInv'
<1>1. ArchiveTypeOK /\ LeaveBlock(p, "committing")
  BY DEF BlocksInv, ExitBlock
<1>2. /\ ArchiveTypeOK'
      /\ UNCHANGED <<log, reading, body>>
      /\ pub[p].pc = "running" /\ pub[p].blocks # << >>
      /\ pub'[p].pc = "committing"
      /\ pub'[p].to_commit = pub[p].to_commit
      /\ Len(pub'[p].blocks) = Len(pub[p].blocks) - 1
      /\ \A q \in Publishers : q # p => pub'[q] = pub[q]
      /\ \A q \in Publishers : Pending(q)' = Pending(q)
  BY <1>1, LeaveEffect
<1>3. /\ pub[p].to_commit = pub[p].blocks /\ Len(pub[p].blocks) <= 1
      /\ pub[p].blocks \in Seq(Nat) /\ pub'[p].blocks \in Seq(Nat)
  BY <1>1, <1>2, Typing DEF BlocksInv, BlockInv, ArchiveTypeOK, Publication
<1>4. Len(pub[p].blocks) = 1 /\ Pending(p) = {pub[p].blocks[1]}
  BY <1>2, <1>3, OneElement DEF Pending
<1>5. pub'[p].blocks = << >> /\ body[pub[p].blocks[1]] = "whole"
  BY <1>2, <1>3, <1>4, Emptied DEF ExitBlock
<1>6. OwnedInv'
  BY <1>2, SameOwned DEF BlocksInv
<1>7. BlockInv'
  BY <1>2, <1>3, <1>4, <1>5 DEF BlocksInv, BlockInv, Committing
<1>8. ReadyInv'
  BY <1>2 DEF BlocksInv, ReadyInv
<1> QED BY <1>2, <1>6, <1>7, <1>8 DEF BlocksInv

LEMMA CommitNextStep ==
  ASSUME BlocksInv, NEW p \in Publishers, CommitNext(p)
  PROVE  BlocksInv'
<1> DEFINE h == Head(pub[p].to_commit)
<1>1. ArchiveTypeOK /\ pub[p].to_commit \in Seq(Nat)
  BY Typing DEF BlocksInv, Publication
<1>2. /\ ArchiveTypeOK'
      /\ UNCHANGED <<reading, body>>
      /\ Committing(p) /\ pub[p].to_commit # << >>
      /\ DOMAIN log' = DOMAIN log
      /\ \A j \in DOMAIN log : j # h => log'[j] = log[j]
      /\ h \in DOMAIN log => log'[h] = "ready"
      /\ Pending(p) = Pending(p)' \cup {h}
      /\ pub'[p].pc = pub[p].pc /\ pub'[p].blocks = pub[p].blocks
      /\ Len(pub'[p].to_commit) = Len(pub[p].to_commit) - 1
      /\ \A q \in Publishers :
           q # p => pub'[q] = pub[q] /\ Pending(q)' = Pending(q)
  BY <1>1, CommitEffect
<1> HIDE DEF h
<1>3. Len(pub[p].to_commit) = 1
  BY <1>1, <1>2, OneElement DEF BlocksInv, BlockInv
<1>4. Len(pub'[p].to_commit) = 0 /\ pub'[p].to_commit \in Seq(Nat)
  BY <1>2, <1>3, Typing DEF ArchiveTypeOK, Publication
<1>5. pub'[p].to_commit = << >> /\ Pending(p)' = {}
  BY <1>4, Emptied DEF Pending, Elements
<1>6. /\ Owned(p)' = {} /\ h \in Owned(p) /\ h \in Pending(p)
      /\ \A q \in Publishers : q # p => Owned(q)' = Owned(q)
  BY <1>2, <1>5 DEF Owned, Committing
<1>7. OwnedInv'
  BY <1>2, <1>6 DEF BlocksInv, OwnedInv
<1>8. BlockInv'
  BY <1>2, <1>4, <1>5 DEF BlocksInv, BlockInv, Committing
<1>9. body[h] = "whole"
  BY <1>2, <1>6 DEF BlocksInv, BlockInv
<1>10. ReadyInv'
  <2>1. \A i \in DOMAIN log : log[i] = "ready" => log'[i] = "ready"
    BY <1>2
  <2> QED BY <1>2, <1>9, <2>1 DEF BlocksInv, ReadyInv
<1> QED BY <1>2, <1>7, <1>8, <1>10 DEF BlocksInv

LEMMA CloseStep ==
  ASSUME BlocksInv, NEW p \in Publishers, Close(p) \/ CommitDone(p)
  PROVE  BlocksInv'
<1>1. /\ ArchiveTypeOK
      /\ pub[p].pc \in {"running", "committing", "closing"}
      /\ pub[p].to_commit = << >> /\ pub[p].blocks = << >>
      /\ UNCHANGED <<channelVars, body, handler, joined>>
      /\ \E pc \in {"running", "closing", "closed"} :
           pub' = [pub EXCEPT ![p].pc = pc]
  BY DEF BlocksInv, BlockInv, Close, CommitDone, Committing
<1>2. PICK pc \in {"running", "closing", "closed"} :
        pub' = [pub EXCEPT ![p].pc = pc]
  BY <1>1
<1>3. /\ ArchiveTypeOK'
      /\ UNCHANGED <<log, reading, body>>
      /\ pub'[p].pc = pc
      /\ pub'[p].to_commit = << >> /\ pub'[p].blocks = << >>
      /\ \A q \in Publishers : q # p => pub'[q] = pub[q]
      /\ \A q \in Publishers : Pending(q)' = Pending(q)
  BY <1>1, <1>2, PcEffect
<1>4. OwnedInv'
  BY <1>1, <1>3, SameOwned DEF BlocksInv
<1>5. BlockInv'
  <2>1. Len(<< >>) = 0 /\ Pending(p) = {}
    BY <1>1 DEF Pending, Elements
  <2> QED BY <1>3, <2>1 DEF BlocksInv, BlockInv, Committing
<1>6. ReadyInv'
  BY <1>3 DEF BlocksInv, ReadyInv
<1> QED BY <1>3, <1>4, <1>5, <1>6 DEF BlocksInv

LEMMA SubscriberStep ==
  ASSUME BlocksInv, NEW s \in Subscribers, SubscriberProgress(s)
  PROVE  BlocksInv'
<1>1. /\ ArchiveTypeOK'
      /\ UNCHANGED <<log, body, pub>>
      /\ \A q \in Publishers : Pending(q)' = Pending(q)
      /\ \A r \in Subscribers : \/ reading'[r] \in {0, reading[r]}
                                 \/ /\ reading'[r] \in DOMAIN log
                                    /\ log[reading'[r]] = "ready"
  BY SubscriberEffect DEF BlocksInv
<1>2. \A q \in Publishers : Owned(q)' = Owned(q)
  BY <1>1 DEF Owned
<1>3. OwnedInv' /\ BlockInv'
  BY <1>1, <1>2 DEF BlocksInv, OwnedInv, BlockInv, Committing
<1>4. ReadyInv'
  BY <1>1 DEF BlocksInv, ReadyInv
<1> QED BY <1>1, <1>3, <1>4 DEF BlocksInv

LEMMA OpenStep ==
  ASSUME BlocksInv, NEW s \in Subscribers, Open(s)
  PROVE  BlocksInv'
<1>1. /\ ArchiveTypeOK' /\ UNCHANGED <<log, reading, body, pub>>
      /\ \A q \in Publishers : Pending(q)' = Pending(q)
  BY OpenEffect DEF BlocksInv
<1>2. \A q \in Publishers : Owned(q)' = Owned(q)
  BY <1>1 DEF Owned
<1>3. OwnedInv' /\ BlockInv' /\ ReadyInv'
  BY <1>1, <1>2 DEF BlocksInv, OwnedInv, BlockInv, Committing, ReadyInv
<1> QED BY <1>1, <1>3 DEF BlocksInv

LEMMA BlocksStep ==
  ASSUME BlocksInv, [BlocksNext]_vars
  PROVE  BlocksInv'
<1>1. CASE UNCHANGED vars
  <2>1. UNCHANGED <<log, body, pub, next, reading, handler, joined>>
    BY <1>1 DEF vars, channelVars
  <2>2. /\ \A q \in Publishers : Pending(q)' = Pending(q)
        /\ \A q \in Publishers : Owned(q)' = Owned(q)
    BY <2>1 DEF Owned, Pending
  <2>3. ArchiveTypeOK' /\ OwnedInv'
    BY <2>1, <2>2 DEF BlocksInv, ArchiveTypeOK, OwnedInv
  <2>4. BlockInv' /\ ReadyInv'
    BY <2>1, <2>2 DEF BlocksInv, BlockInv, Committing, ReadyInv
  <2> QED BY <2>3, <2>4 DEF BlocksInv
<1>2. CASE BlocksNext
  BY <1>2, EnterStep, GrantedStep, FillStep, ExitStep, CommitNextStep, CloseStep,
     SubscriberStep, OpenStep DEF BlocksNext, Progress, PublisherProgress, Opens
<1> QED BY <1>1, <1>2

LEMMA BlocksInit ==
  ASSUME Init
  PROVE  BlocksInv
<1>1. /\ ArchiveTypeOK /\ DOMAIN log = {}
      /\ \A s \in Subscribers : reading[s] = 0
      /\ \A p \in Publishers :
           /\ pub[p].pc = "running" /\ pub[p].to_commit = << >>
           /\ pub[p].blocks = << >> /\ Pending(p) = {}
  BY ArchiveInit
<1>2. \A p \in Publishers : Owned(p) = {}
  BY <1>1 DEF Owned
<1>3. BlockInv
  BY <1>1, EmptySeq DEF BlockInv, Committing
<1> QED BY <1>1, <1>2, <1>3 DEF BlocksInv, OwnedInv, ReadyInv

LEMMA ReadsWhole ==
  ASSUME BlocksInv
  PROVE  DeliveredWhole
BY DEF BlocksInv, ReadyInv, DeliveredWhole

\* With one block at a time in every publication, an open claim has one owner,
\* and what is ready is whole.
THEOREM BlocksInvariant == BlocksSpec => []BlocksInv
<1>1. Init => BlocksInv
  BY BlocksInit
<1>2. BlocksInv /\ [BlocksNext]_vars => BlocksInv'
  BY BlocksStep
<1> QED BY <1>1, <1>2, PTL DEF BlocksSpec

\* With one block at a time in every publication, a callback is only given
\* messages that have been written to the end.
THEOREM BlocksDeliverWhole == BlocksSpec => []DeliveredWhole
<1>1. BlocksInv => DeliveredWhole
  BY ReadsWhole
<1> QED BY <1>1, BlocksInvariant, PTL
=============================================================================
