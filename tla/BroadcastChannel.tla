-------------------------- MODULE BroadcastChannel --------------------------
(***************************************************************************)
(* What the queue promises, without a ring, headers, counts or locks: one  *)
(* log of claims that every subscriber goes through in order, from the end *)
(* of the log at the time it subscribes.  A claim stays open until its     *)
(* writer makes it ready or void; a subscriber reads every ready claim     *)
(* once, passes every void one, and stops at an open one.                  *)
(***************************************************************************)
EXTENDS Naturals, Sequences

CONSTANT Subscribers

VARIABLES
  log,       \* the status of every claim
  next,      \* the claim each subscriber goes to next, 0 before it subscribes
  reading    \* the claim each subscriber is reading, 0 for none

channelVars == <<log, next, reading>>

ChannelTypeOK ==
  /\ log \in Seq({"open", "ready", "void"})
  /\ next \in [Subscribers -> Nat]
  /\ reading \in [Subscribers -> Nat]

ChannelInit ==
  /\ log = << >>
  /\ next = [s \in Subscribers |-> 0]
  /\ reading = [s \in Subscribers |-> 0]

Claim ==
  /\ log' = Append(log, "open")
  /\ UNCHANGED <<next, reading>>

Resolve(i, status) ==
  /\ log[i] = "open"
  /\ log' = [log EXCEPT ![i] = status]
  /\ UNCHANGED <<next, reading>>

Subscribe(s) ==
  /\ next[s] = 0
  /\ next' = [next EXCEPT ![s] = Len(log) + 1]
  /\ UNCHANGED <<log, reading>>

Read(s) ==
  /\ next[s] \in DOMAIN log
  /\ log[next[s]] = "ready"
  /\ reading[s] = 0
  /\ reading' = [reading EXCEPT ![s] = next[s]]
  /\ UNCHANGED <<log, next>>

\* A subscriber may put a claim back; it reads the same one next.
Unread(s) ==
  /\ reading[s] # 0
  /\ reading' = [reading EXCEPT ![s] = 0]
  /\ UNCHANGED <<log, next>>

Pass(s) ==
  /\ next[s] \in DOMAIN log
  /\ \/ log[next[s]] = "void"
     \/ log[next[s]] = "ready" /\ reading[s] = next[s]
  /\ next' = [next EXCEPT ![s] = @ + 1]
  /\ reading' = [reading EXCEPT ![s] = 0]
  /\ UNCHANGED log

\* A subscriber that leaves neither reads nor passes again.
Leave(s) ==
  /\ next[s] # 0
  /\ reading[s] = 0
  /\ next' = [next EXCEPT ![s] = 0]
  /\ UNCHANGED <<log, reading>>

ChannelNext ==
  \/ Claim
  \/ \E i \in DOMAIN log, status \in {"ready", "void"} : Resolve(i, status)
  \/ \E s \in Subscribers :
       Subscribe(s) \/ Read(s) \/ Unread(s) \/ Pass(s) \/ Leave(s)

ChannelSpec == ChannelInit /\ [][ChannelNext]_channelVars
=============================================================================
