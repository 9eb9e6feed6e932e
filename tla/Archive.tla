------------------------------ MODULE Archive ------------------------------
(***************************************************************************)
(* The layer applications use: ArchivePublication and ArchiveSubscription  *)
(* of message_archive, through python_wrapper.cpp and alpha/shared.        *)
(*                                                                         *)
(* A publication collects the claims it makes and commits them together;   *)
(* in Python, a claim is made for a with block, whose end commits.  A      *)
(* subscription polls one message at a time and hands it to a callback.    *)
(*                                                                         *)
(* The queue under them is the channel it implements (IpcQueueRefinement), *)
(* with room for a number of messages.  Subscriptions open at any time and *)
(* stay open: what one that closes does to the others is in IpcQueue       *)
(* (CloseReader, DrainNext).                                               *)
(***************************************************************************)
EXTENDS BroadcastChannel, FiniteSets

CONSTANTS
  Publishers,   \* processes with an ArchivePublication
  Capacity,     \* messages the ring has room for
  MaxClaims     \* bound: claims made over time

ASSUME ArchiveAssumption ==
  /\ Capacity \in Nat \ {0}
  /\ MaxClaims \in Nat

VARIABLES
  body,      \* how much of each claimed message has been written
  pub,       \* each publication: what its process is doing, and its claims
  handler,   \* each subscription: what its callback is doing
  joined     \* history: the claim each subscription opened at, 0 before

vars == <<channelVars, body, pub, handler, joined>>

\* to_commit is the deque of that name; blocks are the with blocks the
\* process is in, inmost last; claim is the claim it waits for, and block
\* whether it is for a block.
Init ==
  /\ ChannelInit
  /\ body = << >>
  /\ pub = [p \in Publishers |->
       [pc |-> "running", claim |-> 0, block |-> FALSE,
        to_commit |-> << >>, blocks |-> << >>]]
  /\ handler = [s \in Subscribers |-> "idle"]
  /\ joined = [s \in Subscribers |-> 0]

Elements(seq) == {seq[i] : i \in DOMAIN seq}
Pending(p) == Elements(pub[p].to_commit)

-----------------------------------------------------------------------------
(* Publications *)

\* num_readers() > 0.
IsReady == \E s \in Subscribers : next[s] # 0

\* archive_pub_claim, up to the wait for room: the place in the queue is
\* taken, and the process is blocked.
ClaimFor(p, block) ==
  /\ pub[p].pc = "running"
  /\ Len(log) < MaxClaims
  /\ Claim
  /\ body' = Append(body, "blank")
  /\ pub' = [pub EXCEPT ![p].pc = "waiting", ![p].block = block,
                        ![p].claim = Len(log) + 1]
  /\ UNCHANGED <<handler, joined>>

ClaimBuffer(p) == ClaimFor(p, FALSE)
EnterBlock(p) == ClaimFor(p, TRUE)

\* A message is counted for the subscriptions that are open when its place is
\* taken; one that is counted for nobody is never released.
ReadersOf(i) == {s \in Subscribers : joined[s] # 0 /\ joined[s] <= i}

Released(i) == ReadersOf(i) # {} /\ \A s \in ReadersOf(i) : i < next[s]

HasRoom(i) == Cardinality({j \in 1 .. i : ~Released(j)}) <= Capacity

\* The claim returns and goes into to_commit; __enter__ writes the header.
Granted(p) ==
  /\ pub[p].pc = "waiting"
  /\ HasRoom(pub[p].claim)
  /\ pub' = [pub EXCEPT
       ![p].pc = "running",
       ![p].to_commit = Append(@, pub[p].claim),
       ![p].blocks = IF pub[p].block THEN Append(@, pub[p].claim) ELSE @]
  /\ body' = IF pub[p].block
               THEN [body EXCEPT ![pub[p].claim] = "partial"] ELSE body
  /\ UNCHANGED <<channelVars, handler, joined>>

\* The application writes the rest of a message it has claimed.
Fill(p, i) ==
  /\ pub[p].pc = "running"
  /\ i \in Pending(p)
  /\ body[i] # "whole"
  /\ body' = [body EXCEPT ![i] = "whole"]
  /\ UNCHANGED <<channelVars, pub, handler, joined>>

LeaveBlock(p, pc) ==
  /\ pub[p].pc = "running"
  /\ pub[p].blocks # << >>
  /\ pub' = [pub EXCEPT ![p].pc = pc,
                        ![p].blocks = SubSeq(@, 1, Len(@) - 1)]
  /\ UNCHANGED <<channelVars, body, handler, joined>>

\* __exit__ with an exception: "TODO: we should add an abort() call here".
RaiseInBlock(p) == LeaveBlock(p, "running")

\* __exit__ at the end of the block: everything in to_commit is committed.
ExitBlock(p) ==
  /\ LeaveBlock(p, "committing")
  /\ body[pub[p].blocks[Len(pub[p].blocks)]] = "whole"

\* publication_commit, once the application has written what it claimed
\* outside a block.
Commit(p) ==
  /\ pub[p].pc = "running"
  /\ \A i \in Pending(p) : body[i] # "blank"
  /\ pub' = [pub EXCEPT ![p].pc = "committing"]
  /\ UNCHANGED <<channelVars, body, handler, joined>>

\* publication_close: ArchivePublication::close commits first.
Close(p) ==
  /\ pub[p].pc = "running"
  /\ pub[p].blocks = << >>
  /\ pub' = [pub EXCEPT ![p].pc = "closing"]
  /\ UNCHANGED <<channelVars, body, handler, joined>>

\* The loop of ArchivePublication::commit, one message a step.
AfterCommitFirst(to_commit) == << >>
AfterCommit(to_commit) == Tail(to_commit)

CommittingAtOnce(p) == pub[p].pc \in {"running", "committing", "closing"}
Committing(p) == pub[p].pc \in {"committing", "closing"}

CommitNext(p) ==
  /\ Committing(p)
  /\ pub[p].to_commit # << >>
  /\ Resolve(Head(pub[p].to_commit), "ready")
  /\ pub' = [pub EXCEPT ![p].to_commit = AfterCommit(@)]
  /\ UNCHANGED <<body, handler, joined>>

CommitDone(p) ==
  /\ Committing(p)
  /\ pub[p].to_commit = << >>
  /\ pub' = [pub EXCEPT ![p].pc =
       IF @ = "closing" THEN "closed" ELSE "running"]
  /\ UNCHANGED <<channelVars, body, handler, joined>>

\* archive_pub_destroy without a close before it: the deque goes, and the
\* destructor of the writer wrapper does not commit.
Destroy(p) ==
  /\ pub[p].pc = "running"
  /\ pub' = [pub EXCEPT ![p].pc = "gone", ![p].to_commit = << >>]
  /\ UNCHANGED <<channelVars, body, handler, joined>>

-----------------------------------------------------------------------------
(* Subscriptions *)

Codes == {"CONTINUE", "ABORT", "OTHER"}

\* archive_sub_create: the subscription starts at the end of the queue.
OpenAtStart(s) ==
  /\ next[s] = 0
  /\ next' = [next EXCEPT ![s] = 1]
  /\ joined' = [joined EXCEPT ![s] = Len(log) + 1]
  /\ UNCHANGED <<log, reading, body, pub, handler>>
Open(s) ==
  /\ Subscribe(s)
  /\ joined' = [joined EXCEPT ![s] = Len(log) + 1]
  /\ UNCHANGED <<body, pub, handler>>

GoHandler(s, state) == handler' = [handler EXCEPT ![s] = state]

\* archive_sub_poll: poll_buffer has a message, and the callback is called.
Poll(s) ==
  /\ handler[s] = "idle"
  /\ Read(s)
  /\ GoHandler(s, "called")
  /\ UNCHANGED <<body, pub, joined>>

\* The callback returns a FragmentAction, or a byte that is none; ctypes turns
\* an exception in it into a CONTINUE.
HandlerReturns(s, code) ==
  /\ handler[s] = "called"
  /\ GoHandler(s, code)
  /\ UNCHANGED <<channelVars, body, pub, joined>>

\* The switch of ArchiveSubscription::poll: the ABORT case has no break, and
\* the default is a CONTINUE.
ReleasesNone(code) == FALSE
Releases(code) == code \in Codes

FinishPoll(s) ==
  /\ handler[s] \in Codes
  /\ IF Releases(handler[s]) THEN Pass(s) ELSE Unread(s)
  /\ GoHandler(s, "idle")
  /\ UNCHANGED <<body, pub, joined>>

-----------------------------------------------------------------------------
(* Specifications *)

PublisherProgress(p) ==
  \/ Granted(p)
  \/ \E i \in DOMAIN log : Fill(p, i)
  \/ ExitBlock(p)
  \/ CommitNext(p)
  \/ CommitDone(p)

SubscriberProgress(s) ==
  \/ Poll(s)
  \/ \E code \in Codes : HandlerReturns(s, code)
  \/ FinishPoll(s)

Progress ==
  \/ \E p \in Publishers : PublisherProgress(p)
  \/ \E s \in Subscribers : SubscriberProgress(s)

Opens == \E s \in Subscribers : Open(s)

\* Every call of alpha/shared, where only publication_close destroys.
Next ==
  \/ Progress
  \/ Opens
  \/ \E p \in Publishers :
       \/ ClaimBuffer(p) \/ EnterBlock(p) \/ RaiseInBlock(p)
       \/ Commit(p) \/ Close(p)

\* ... and any other user of the C functions.
DestroyingNext == Next \/ \E p \in Publishers : Destroy(p)

\* One with block at a time, which runs to its end, in processes that wait for
\* a subscription before they publish.
BlocksNext ==
  \/ Progress
  \/ Opens
  \/ \E p \in Publishers :
       /\ pub[p].blocks = << >>
       /\ (IsReady /\ EnterBlock(p)) \/ Close(p)

\* ... or ends with an exception.
RaisingNext == BlocksNext \/ \E p \in Publishers : RaiseInBlock(p)

\* A with block inside another.
NestedNext == Progress \/ Opens \/ \E p \in Publishers : EnterBlock(p)

\* Claims outside a block, committed together.
BatchNext ==
  \/ Progress
  \/ Opens
  \/ \E p \in Publishers : (IsReady /\ ClaimBuffer(p)) \/ Commit(p)

Fairness ==
  /\ \A p \in Publishers : WF_vars(PublisherProgress(p))
  /\ \A s \in Subscribers : WF_vars(SubscriberProgress(s))

Spec == Init /\ [][Next]_vars
DestroyingSpec == Init /\ [][DestroyingNext]_vars
BlocksSpec == Init /\ [][BlocksNext]_vars /\ Fairness
RaisingSpec == Init /\ [][RaisingNext]_vars
NestedSpec == Init /\ [][NestedNext]_vars
BatchSpec == Init /\ [][BatchNext]_vars /\ Fairness

-----------------------------------------------------------------------------
(* Properties *)

\* The reader wrapper's "only reads messages that have been fully written by
\* the producer", for a callback.
DeliveredWhole ==
  \A s \in Subscribers : reading[s] # 0 => body[reading[s]] = "whole"

\* "Upon destruction of the returned wrapper, the buffer will be committed to
\* the queue": a claim that is not committed is in the deque of a publication
\* that can still commit it, whatever its blocks, exceptions and batches, so
\* that the subscriptions, which cannot get past it, may hope for a commit.
NothingForgotten ==
  \A i \in DOMAIN log : log[i] = "open" =>
    \E p \in Publishers :
      \/ i \in Pending(p) /\ pub[p].pc \notin {"closed", "gone"}
      \/ pub[p].pc = "waiting" /\ pub[p].claim = i

\* Every message claimed in a block reaches every subscription that was open
\* when its place was taken, whoever waits for room.
EveryClaimDelivered ==
  \A i \in 1 .. MaxClaims, s \in Subscribers :
    i \in DOMAIN log /\ s \in ReadersOf(i) ~> next[s] > i

\* "you can claim any number of spots here and then commit them later": a
\* claim returns.
ClaimReturns ==
  \A p \in Publishers : pub[p].pc = "waiting" ~> pub[p].pc # "waiting"

\* "need to re-mark these bytes as needing-to-read next poll": after ABORT the
\* subscription is still at the same message.
AbortRedelivers ==
  [][\A s \in Subscribers :
       handler[s] = "ABORT" /\ handler'[s] = "idle" => next'[s] = next[s]]_vars
=============================================================================
