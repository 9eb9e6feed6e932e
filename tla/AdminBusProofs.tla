--------------------------- MODULE AdminBusProofs ---------------------------
(***************************************************************************)
(* Theorems about AdminBus for any controllers, agents, symbols, ids,      *)
(* commands and number of messages.  What a step does to publications and  *)
(* subscriptions is cited from ArchiveProofs.                              *)
(***************************************************************************)
EXTENDS AdminBusInvariant, ArchiveProofs

-----------------------------------------------------------------------------
(* Facts about the messages *)

LEMMA BusTyping ==
  ASSUME BusInv
  PROVE  /\ ArchiveTypeOK /\ Len(log) \in Nat /\ DOMAIN log = 1 .. Len(log)
         /\ content \in Seq(Commands) /\ Len(content) = Len(log)
         /\ \A i \in DOMAIN log : content[i] \in Commands
         /\ \A a \in Subscribers :
              /\ next[a] \in Nat /\ joined[a] \in Nat /\ reading[a] \in Nat
              /\ handler[a] \in {"idle", "called"} \cup Codes
              /\ agent[a] \in Agents
BY Typing, ElementOfSeq DEF BusInv, BusTypeOK, ArchiveTypeOK

LEMMA SymbolAdds ==
  ASSUME NEW m \in Commands, m.templateId = "NewSymbolAdd"
  PROVE  \E name \in Names \cup {Garbled}, id \in Ids \cup {NoId} :
           m = NewSymbolAdd(name, id)
<1>1. ~\E dest \in Subscribers \cup {NoText, Garbled}, reason \in Reasons :
         m = AgentShutdown(dest, reason)
  BY DEF AgentShutdown
<1>2. ~\E reason \in Reasons : m = AllAgentsShutdown(reason)
  BY DEF AllAgentsShutdown
<1>3. m # OtherMessage
  BY DEF OtherMessage
<1> QED BY <1>1, <1>2, <1>3 DEF Commands

\* A symbol's name and id are ones the agents' maps can hold.
LEMMA SymbolParts ==
  ASSUME NEW m \in Commands, m.templateId = "NewSymbolAdd", Decodes(m)
  PROVE  m.symbolName \in Names /\ m.symbolId \in Ids \cup {NoId}
<1>1. PICK name \in Names \cup {Garbled}, id \in Ids \cup {NoId} :
        m = NewSymbolAdd(name, id)
  BY SymbolAdds
<1>2. /\ "symbolName" \in DOMAIN m
      /\ m.symbolName = name /\ m.symbolId = id /\ m["symbolName"] = name
  BY <1>1 DEF NewSymbolAdd
<1>3. name # Garbled
  BY <1>2 DEF Decodes, Texts
<1> QED BY <1>2, <1>3

\* The cases of _handle_admin_inputs that stop an agent are its shutdowns.
LEMMA StopsForIts ==
  ASSUME NEW m \in Commands, NEW a \in Subscribers, StopsFor(m, a), Decodes(m)
  PROVE  m \in ShutdownsOf(a)
<1>1. ASSUME NEW dest \in Subscribers \cup {NoText, Garbled},
             NEW reason \in Reasons, m = AgentShutdown(dest, reason)
      PROVE  m \in ShutdownsOf(a)
  <2>1. /\ "reason" \in DOMAIN m /\ m["reason"] = reason
        /\ m.destAgentName = dest /\ m.templateId = "AgentShutdown"
    BY <1>1 DEF AgentShutdown
  <2>2. reason = NoText
    BY <2>1 DEF Decodes, Texts, Reasons
  <2>3. dest = a
    BY <2>1 DEF StopsFor
  <2> QED BY <1>1, <2>2, <2>3 DEF ShutdownsOf
<1>2. ASSUME NEW reason \in Reasons, m = AllAgentsShutdown(reason)
      PROVE  m \in ShutdownsOf(a)
  <2>1. "reason" \in DOMAIN m /\ m["reason"] = reason
    BY <1>2 DEF AllAgentsShutdown
  <2>2. reason = NoText
    BY <2>1 DEF Decodes, Texts, Reasons
  <2> QED BY <1>2, <2>2 DEF ShutdownsOf
<1>3. ~\E name \in Names \cup {Garbled}, id \in Ids \cup {NoId} :
         m = NewSymbolAdd(name, id)
  BY DEF NewSymbolAdd, StopsFor
<1>4. m # OtherMessage
  BY DEF OtherMessage, StopsFor
<1> QED BY <1>1, <1>2, <1>3, <1>4 DEF Commands

\* A message leaves an agent an agent.
LEMMA AfterMessageType ==
  ASSUME NEW state \in Agents, NEW m \in Commands, NEW a
  PROVE  AfterMessage(state, m, a) \in Agents
<1>1. CASE Decodes(m) /\ m.templateId = "NewSymbolAdd"
  <2>1. m.symbolName \in Names /\ m.symbolId \in Ids \cup {NoId}
    BY <1>1, SymbolParts
  <2>2. state.symbol_mapping \in [Names -> Ids \cup {NoId, Unknown}]
    BY DEF Agents, Mappings
  <2>3. Learn(state.symbol_mapping, m.symbolName, m.symbolId) \in Mappings
    BY <2>1, <2>2 DEF Learn, Mappings
  <2> QED BY <1>1, <2>3 DEF AfterMessage, Agents
<1>2. CASE ~(Decodes(m) /\ m.templateId = "NewSymbolAdd")
  BY <1>2 DEF AfterMessage, Agents
<1> QED BY <1>1, <1>2

-----------------------------------------------------------------------------
(* Steps of the controllers *)

\* A step that makes claims or commits them: what was ready is as it was, and
\* no agent moves.
LEMMA PublisherSide ==
  ASSUME BusInv, ArchiveTypeOK',
         content' \in Seq(Commands), Len(content') = Len(log'),
         Len(log) <= Len(log'),
         \A i \in DOMAIN log :
           /\ log[i] = "ready" => log'[i] = "ready"
           /\ content'[i] = content[i],
         UNCHANGED <<next, reading, handler, joined, agent>>
  PROVE  BusInv'
<1>1. /\ Len(log) \in Nat /\ DOMAIN log = 1 .. Len(log)
      /\ Len(log') \in Nat /\ DOMAIN log' = 1 .. Len(log')
      /\ \A a \in Subscribers : next[a] \in Nat
  BY BusTyping, LenProperties DEF ArchiveTypeOK
<1>2. BusTypeOK'
  BY DEF BusInv, BusTypeOK
<1>3. DOMAIN log \subseteq DOMAIN log'
  BY <1>1
<1>4. PlaceInv'
  <2>1. \A a \in Subscribers : next[a] <= Len(log) + 1
    BY DEF BusInv, PlaceInv
  <2>2. \A a \in Subscribers : next[a] <= Len(log') + 1
    BY <1>1, <2>1
  <2> QED BY <1>3, <2>2 DEF BusInv, PlaceInv
<1>5. ASSUME NEW a \in Subscribers
      PROVE  Heard(a)' = Heard(a)
  <2>1. next[a] <= Len(log) + 1
    BY DEF BusInv, PlaceInv
  <2>2. handler[a] \in Codes => next[a] \in DOMAIN log
    BY DEF BusInv, PlaceInv, Codes
  <2>3. ASSUME NEW i \in DOMAIN log', i < next[a]
        PROVE  i \in DOMAIN log
    BY <1>1, <2>1, <2>3
  <2> QED BY <1>3, <2>2, <2>3 DEF Heard
<1>6. \A a \in Subscribers : Heard(a) \subseteq DOMAIN log
  BY DEF Heard
<1>7. HeardReady'
  BY <1>5, <1>6 DEF BusInv, HeardReady
<1>8. ASSUME NEW a \in Subscribers, NEW name
      PROVE  Adds(a, name)' = Adds(a, name)
  BY <1>5, <1>6 DEF Adds
<1>9. SymbolsCurrent'
  <2>1. \A a \in Subscribers, name \in Names :
          \A i \in Adds(a, name) : content'[i] = content[i]
    BY <1>6 DEF Adds
  <2> QED BY <1>8, <2>1 DEF BusInv, SymbolsCurrent
<1>10. StopsWhenTold'
  <2> SUFFICES ASSUME NEW a \in Subscribers, ~agent[a].is_live
               PROVE  \E i \in Heard(a)' : content'[i] \in ShutdownsOf(a)
    BY DEF StopsWhenTold, ShutdownsOf, AgentShutdown, AllAgentsShutdown
  <2> PICK i \in Heard(a) : content[i] \in ShutdownsOf(a)
    BY DEF BusInv, StopsWhenTold
  <2> QED BY <1>5, <1>6
<1> QED BY <1>2, <1>4, <1>7, <1>9, <1>10 DEF BusInv

LEMMA PublishCommandStep ==
  ASSUME BusInv, NEW c \in Publishers, NEW message \in Published,
         PublishCommand(c, message)
  PROVE  BusInv'
<1>1. /\ ArchiveTypeOK /\ ClaimFor(c, TRUE) /\ message \in Commands
      /\ content' = Append(content, message) /\ UNCHANGED agent
  BY PublishedAssumption DEF BusInv, BusTypeOK, PublishCommand, EnterBlock
<1>2. /\ ArchiveTypeOK' /\ Len(log') = Len(log) + 1
      /\ \A i \in DOMAIN log : log'[i] = log[i]
      /\ UNCHANGED <<next, reading, handler, joined>>
  BY <1>1, ClaimEffect
<1>3. /\ Len(log) \in Nat /\ DOMAIN log = 1 .. Len(log)
      /\ content \in Seq(Commands) /\ Len(content) = Len(log)
  BY BusTyping
<1>4. /\ content' \in Seq(Commands) /\ Len(content') = Len(content) + 1
      /\ \A i \in 1 .. Len(content) : content'[i] = content[i]
  BY <1>1, <1>3, AppendProperties
<1>5. Len(log) <= Len(log') /\ Len(content') = Len(log')
  BY <1>2, <1>3, <1>4
<1> QED BY <1>1, <1>2, <1>3, <1>4, <1>5, PublisherSide

LEMMA PublishingStep ==
  ASSUME BusInv, NEW c \in Publishers, Publishing(c)
  PROVE  BusInv'
<1>1. /\ ArchiveTypeOK /\ UNCHANGED <<content, agent>>
      /\ Len(log) \in Nat /\ DOMAIN log = 1 .. Len(log)
      /\ content \in Seq(Commands) /\ Len(content) = Len(log)
  BY BusTyping DEF Publishing, busVars
<1>2. /\ ArchiveTypeOK' /\ UNCHANGED <<next, reading, handler, joined>>
      /\ DOMAIN log' = DOMAIN log
      /\ \A i \in DOMAIN log : log[i] = "ready" => log'[i] = "ready"
  <2>1. CASE Granted(c)
    BY <1>1, <2>1, GrantedEffect
  <2>2. CASE Fill(c, pub[c].blocks[1])
    BY <1>1, <2>2, FillEffect
  <2>3. CASE ExitBlock(c) \/ RaiseInBlock(c)
    <3>1. PICK pc \in {"running", "committing"} : LeaveBlock(c, pc)
      BY <2>3 DEF ExitBlock, RaiseInBlock
    <3> QED BY <1>1, <3>1, LeaveEffect
  <2>4. CASE CommitNext(c)
    <3>1. /\ ArchiveTypeOK' /\ UNCHANGED <<next, reading, handler, joined>>
          /\ DOMAIN log' = DOMAIN log
          /\ \A j \in DOMAIN log :
               j # Head(pub[c].to_commit) => log'[j] = log[j]
          /\ Head(pub[c].to_commit) \in DOMAIN log =>
               log'[Head(pub[c].to_commit)] = "ready"
      BY <1>1, <2>4, CommitEffect
    <3> QED BY <3>1
  <2>5. CASE CommitDone(c) \/ Close(c)
    <3>1. /\ UNCHANGED <<channelVars, body, handler, joined>>
          /\ \E pc \in {"running", "closing", "closed"} :
               pub' = [pub EXCEPT ![c].pc = pc]
      BY <2>5 DEF CommitDone, Close
    <3>2. PICK pc \in {"running", "closing", "closed"} :
            pub' = [pub EXCEPT ![c].pc = pc]
      BY <3>1
    <3>3. pc \in {"running", "committing", "closing", "closed", "gone"}
      BY <3>2
    <3>4. ArchiveTypeOK' /\ UNCHANGED <<log, next, reading, handler, joined>>
      BY <1>1, <3>1, <3>2, <3>3, PcEffect
    <3> QED BY <3>4
  <2> QED BY <2>1, <2>2, <2>3, <2>4, <2>5 DEF Publishing
<1>3. Len(log') = Len(log)
  BY <1>1, <1>2, LenProperties DEF ArchiveTypeOK
<1>4. /\ content' \in Seq(Commands) /\ Len(content') = Len(log')
      /\ Len(log) <= Len(log')
  BY <1>1, <1>3
<1> QED BY <1>1, <1>2, <1>4, PublisherSide

-----------------------------------------------------------------------------
(* Steps of the agents *)

\* A step of one agent that ends in its place, and has heard what it had heard.
LEMMA SameHeard ==
  ASSUME BusInv, NEW a \in Subscribers, ArchiveTypeOK', PlaceInv',
         UNCHANGED <<log, content, agent>>,
         \A b \in Subscribers : Heard(b)' = Heard(b)
  PROVE  BusInv'
<1>1. BusTypeOK'
  BY DEF BusInv, BusTypeOK
<1>2. HeardReady'
  BY DEF BusInv, HeardReady
<1>3. \A b \in Subscribers, name \in Names : Adds(b, name)' = Adds(b, name)
  BY DEF Adds
<1>4. SymbolsCurrent'
  BY <1>3 DEF BusInv, SymbolsCurrent
<1>5. StopsWhenTold'
  BY DEF BusInv, StopsWhenTold, ShutdownsOf, AgentShutdown, AllAgentsShutdown
<1> QED BY <1>1, <1>2, <1>4, <1>5 DEF BusInv

LEMMA StartStep ==
  ASSUME BusInv, NEW a \in Subscribers, Start(a)
  PROVE  BusInv'
<1>1. /\ ArchiveTypeOK /\ Open(a) /\ UNCHANGED <<content, agent>>
      /\ Len(log) \in Nat /\ DOMAIN log = 1 .. Len(log)
  BY BusTyping DEF Start, busVars
<1>2. /\ ArchiveTypeOK' /\ UNCHANGED <<log, reading, body, pub, handler>>
      /\ next[a] = 0
      /\ next' = [next EXCEPT ![a] = Len(log) + 1]
      /\ joined' = [joined EXCEPT ![a] = Len(log) + 1]
  BY <1>1, OpenEffect
<1>3. /\ next'[a] = Len(log) + 1 /\ joined'[a] = Len(log) + 1
      /\ \A b \in Subscribers : b # a =>
           next'[b] = next[b] /\ joined'[b] = joined[b]
  BY <1>1, <1>2 DEF ArchiveTypeOK
<1>4. joined[a] = 0 /\ handler[a] = "idle" /\ reading[a] = 0
  BY <1>1, <1>2 DEF BusInv, PlaceInv
<1>5. PlaceInv'
  <2>1. ASSUME NEW b \in Subscribers, b # a
        PROVE  /\ joined'[b] = 0 <=> next'[b] = 0
               /\ joined'[b] <= next'[b] /\ next'[b] <= Len(log') + 1
               /\ IF handler'[b] = "idle"
                    THEN reading'[b] = 0
                    ELSE /\ reading'[b] = next'[b] /\ reading'[b] \in DOMAIN log'
                         /\ log'[reading'[b]] = "ready"
    BY <1>2, <1>3, <2>1 DEF BusInv, PlaceInv
  <2>2. /\ joined'[a] = 0 <=> next'[a] = 0
        /\ joined'[a] <= next'[a] /\ next'[a] <= Len(log') + 1
        /\ handler'[a] = "idle" /\ reading'[a] = 0
    BY <1>1, <1>2, <1>3, <1>4
  <2> QED BY <2>1, <2>2 DEF PlaceInv
<1>6. ASSUME NEW b \in Subscribers
      PROVE  Heard(b)' = Heard(b)
  <2>1. CASE b # a
    BY <1>2, <1>3, <2>1 DEF Heard
  <2>2. CASE b = a
    <3>1. Heard(a) = {}
      BY <1>4 DEF Heard
    <3>2. Heard(a)' = {}
      BY <1>1, <1>2, <1>3 DEF Heard
    <3> QED BY <2>2, <3>1, <3>2
  <2> QED BY <2>1, <2>2
<1> QED BY <1>1, <1>2, <1>5, <1>6, SameHeard

LEMMA PollStep ==
  ASSUME BusInv, NEW a \in Subscribers, Poll(a), UNCHANGED busVars
  PROVE  BusInv'
<1>1. ArchiveTypeOK /\ SubscriberProgress(a) /\ UNCHANGED <<content, agent>>
  BY BusTyping DEF SubscriberProgress, busVars
<1>2. ArchiveTypeOK' /\ UNCHANGED <<log, joined>>
  BY <1>1, SubscriberEffect
<1>3. /\ handler[a] = "idle" /\ handler' = [handler EXCEPT ![a] = "called"]
      /\ next[a] \in DOMAIN log /\ log[next[a]] = "ready"
      /\ reading' = [reading EXCEPT ![a] = next[a]] /\ UNCHANGED next
  BY DEF Poll, Read, GoHandler
<1>4. /\ handler'[a] = "called" /\ reading'[a] = next[a]
      /\ \A b \in Subscribers : b # a =>
           handler'[b] = handler[b] /\ reading'[b] = reading[b]
  BY <1>1, <1>3 DEF ArchiveTypeOK
<1>5. PlaceInv'
  BY <1>2, <1>3, <1>4 DEF BusInv, PlaceInv
<1>6. \A b \in Subscribers : Heard(b)' = Heard(b)
  BY <1>2, <1>3, <1>4 DEF Heard, Codes
<1> QED BY <1>1, <1>2, <1>5, <1>6, SameHeard

LEMMA FinishPollStep ==
  ASSUME BusInv, NEW a \in Subscribers, FinishPoll(a), UNCHANGED busVars
  PROVE  BusInv'
<1>1. /\ ArchiveTypeOK /\ SubscriberProgress(a) /\ UNCHANGED <<content, agent>>
      /\ Len(log) \in Nat /\ DOMAIN log = 1 .. Len(log)
      /\ \A b \in Subscribers : next[b] \in Nat /\ joined[b] \in Nat
  BY BusTyping DEF SubscriberProgress, busVars
<1>2. ArchiveTypeOK' /\ UNCHANGED <<log, joined>>
  BY <1>1, SubscriberEffect
<1>3. /\ handler[a] \in Codes /\ handler' = [handler EXCEPT ![a] = "idle"]
      /\ next' = [next EXCEPT ![a] = @ + 1]
      /\ reading' = [reading EXCEPT ![a] = 0]
  BY DEF FinishPoll, Releases, Pass, GoHandler
<1>4. /\ handler'[a] = "idle" /\ reading'[a] = 0 /\ next'[a] = next[a] + 1
      /\ \A b \in Subscribers : b # a =>
           /\ handler'[b] = handler[b] /\ reading'[b] = reading[b]
           /\ next'[b] = next[b]
  BY <1>1, <1>3 DEF ArchiveTypeOK
<1>5. next[a] \in DOMAIN log /\ joined[a] # 0 /\ joined[a] <= next[a]
  BY <1>1, <1>3 DEF BusInv, PlaceInv, Codes
<1>6. PlaceInv'
  <2>1. /\ joined[a] <= next[a] + 1 /\ next[a] + 1 <= Len(log) + 1
        /\ next[a] + 1 # 0
    BY <1>1, <1>5
  <2>2. ASSUME NEW b \in Subscribers, b # a
        PROVE  /\ joined'[b] = 0 <=> next'[b] = 0
               /\ joined'[b] <= next'[b] /\ next'[b] <= Len(log') + 1
               /\ IF handler'[b] = "idle"
                    THEN reading'[b] = 0
                    ELSE /\ reading'[b] = next'[b] /\ reading'[b] \in DOMAIN log'
                         /\ log'[reading'[b]] = "ready"
    BY <1>2, <1>4, <2>2 DEF BusInv, PlaceInv
  <2>3. /\ joined'[a] = 0 <=> next'[a] = 0
        /\ joined'[a] <= next'[a] /\ next'[a] <= Len(log') + 1
        /\ handler'[a] = "idle" /\ reading'[a] = 0
    BY <1>2, <1>4, <1>5, <2>1
  <2> QED BY <2>2, <2>3 DEF PlaceInv
<1>7. ASSUME NEW b \in Subscribers
      PROVE  Heard(b)' = Heard(b)
  <2>1. CASE b # a
    BY <1>2, <1>4, <2>1 DEF Heard
  <2>2. CASE b = a
    <3>1. \A i \in DOMAIN log : i < next[a] + 1 <=> (i < next[a] \/ i = next[a])
      BY <1>1
    <3>2. Heard(a)' = Heard(a)
      BY <1>2, <1>3, <1>4, <3>1 DEF Heard, Codes
    <3> QED BY <2>2, <3>2
  <2> QED BY <2>1, <2>2
<1> QED BY <1>1, <1>2, <1>6, <1>7, SameHeard

LEMMA HandleStep ==
  ASSUME BusInv, NEW a \in Subscribers, HandleAdminInputs(a)
  PROVE  BusInv'
<1> DEFINE n == next[a]
           m == content[n]
<1>1. PICK code \in Codes : HandlerReturns(a, code)
  BY DEF HandleAdminInputs
<1>2. /\ ArchiveTypeOK /\ SubscriberProgress(a)
      /\ Len(log) \in Nat /\ DOMAIN log = 1 .. Len(log)
      /\ \A b \in Subscribers : next[b] \in Nat /\ joined[b] \in Nat
      /\ agent \in [Subscribers -> Agents]
  BY <1>1, BusTyping DEF SubscriberProgress, BusInv, BusTypeOK
<1>3. ArchiveTypeOK' /\ UNCHANGED <<log, joined>>
  BY <1>2, SubscriberEffect
<1>4. /\ handler[a] = "called" /\ handler' = [handler EXCEPT ![a] = code]
      /\ UNCHANGED <<next, reading>>
  BY <1>1 DEF HandlerReturns, GoHandler, channelVars
<1>5. /\ handler'[a] = code
      /\ \A b \in Subscribers : b # a => handler'[b] = handler[b]
  BY <1>2, <1>4 DEF ArchiveTypeOK
<1>6. /\ reading[a] = n /\ n \in DOMAIN log /\ log[n] = "ready"
      /\ joined[a] # 0 /\ joined[a] <= n
  BY <1>2, <1>4 DEF BusInv, PlaceInv
<1>7. /\ agent' = [agent EXCEPT ![a] = AfterMessage(@, m, a)]
      /\ UNCHANGED content /\ m \in Commands
  BY <1>6, BusTyping DEF HandleAdminInputs
<1>8. /\ agent'[a] = AfterMessage(agent[a], m, a)
      /\ \A b \in Subscribers : b # a => agent'[b] = agent[b]
      /\ agent' \in [Subscribers -> Agents]
  BY <1>2, <1>7, AfterMessageType
<1>9. BusTypeOK'
  BY <1>3, <1>7, <1>8 DEF BusInv, BusTypeOK
<1>10. PlaceInv'
  <2>1. code # "idle"
    BY DEF Codes
  <2> QED BY <1>3, <1>4, <1>5, <1>6, <2>1 DEF BusInv, PlaceInv
<1>11. /\ \A b \in Subscribers : b # a => Heard(b)' = Heard(b)
       /\ Heard(a)' = Heard(a) \cup {n}
       /\ \A i \in Heard(a) : i \in DOMAIN log /\ i < n
  <2>1. handler[a] \notin Codes
    BY <1>4 DEF Codes
  <2> QED BY <1>2, <1>3, <1>4, <1>5, <1>6, <2>1 DEF Heard
<1>12. HeardReady'
  BY <1>3, <1>6, <1>11 DEF BusInv, HeardReady
<1>13. SymbolsCurrent'
  <2>1. ASSUME NEW b \in Subscribers, NEW name \in Names, NEW i \in Adds(b, name)',
               \A j \in Adds(b, name)' : j <= i
        PROVE  agent'[b].symbol_mapping[name] = content'[i].symbolId
    <3>1. CASE b # a
      <4>1. Adds(b, name)' = Adds(b, name)
        BY <1>7, <1>11, <3>1 DEF Adds
      <4> QED BY <1>7, <1>8, <2>1, <3>1, <4>1 DEF BusInv, SymbolsCurrent
    <3>2. CASE b = a /\ m.templateId = "NewSymbolAdd" /\ m.symbolName = name
      <4>1. n \in Adds(a, name)'
        BY <1>7, <1>11, <3>2 DEF Adds
      <4>2. i \in Heard(a)'
        BY <2>1, <3>2 DEF Adds
      <4>3. n \in Nat /\ \A j \in Heard(a) : j < n /\ j \in Nat
        BY <1>2, <1>6, <1>11
      <4>4. i = n
        BY <1>11, <2>1, <3>2, <4>1, <4>2, <4>3
      <4>5. Decodes(m)
        <5>1. m \in Commands /\ m.templateId = "NewSymbolAdd"
          BY <1>7, <3>2
        <5>2. PICK x \in Names \cup {Garbled}, id \in Ids \cup {NoId} :
                m = NewSymbolAdd(x, id)
          BY <5>1, SymbolAdds
        <5>3. /\ DOMAIN m = {"templateId", "symbolName", "symbolId"}
              /\ m["symbolName"] = x /\ m.symbolName = x
          BY <5>2 DEF NewSymbolAdd
        <5>4. m["symbolName"] # Garbled
          BY <3>2, <5>3, AdminAssumption DEF Names
        <5> QED BY <5>3, <5>4 DEF Decodes, Texts
      <4>6. agent'[a].symbol_mapping =
              Learn(agent[a].symbol_mapping, m.symbolName, m.symbolId)
        <5>1. agent[a] \in Agents
          BY <1>2
        <5> QED BY <1>8, <3>2, <4>5, <5>1 DEF AfterMessage, Agents
      <4>7. agent[a].symbol_mapping \in [Names -> Ids \cup {NoId, Unknown}]
        BY <1>2 DEF Agents, Mappings
      <4> QED BY <1>7, <3>2, <4>4, <4>6, <4>7 DEF Learn
    <3>3. CASE b = a /\ ~(m.templateId = "NewSymbolAdd" /\ m.symbolName = name)
      <4>1. Adds(a, name)' = Adds(a, name)
        BY <1>7, <1>11, <3>3 DEF Adds
      <4>2. agent'[a].symbol_mapping[name] = agent[a].symbol_mapping[name]
        <5>1. agent[a] \in Agents
          BY <1>2
        <5>2. agent[a].symbol_mapping \in [Names -> Ids \cup {NoId, Unknown}]
          BY <5>1 DEF Agents, Mappings
        <5>3. CASE Decodes(m) /\ m.templateId = "NewSymbolAdd"
          <6>1. agent'[a].symbol_mapping =
                  Learn(agent[a].symbol_mapping, m.symbolName, m.symbolId)
            BY <1>8, <5>1, <5>3 DEF AfterMessage, Agents
          <6> QED BY <3>3, <5>2, <5>3, <6>1 DEF Learn
        <5>4. CASE ~(Decodes(m) /\ m.templateId = "NewSymbolAdd")
          BY <1>8, <5>1, <5>4 DEF AfterMessage, Agents
        <5> QED BY <5>3, <5>4
      <4> QED BY <1>7, <2>1, <3>3, <4>1, <4>2 DEF BusInv, SymbolsCurrent
    <3> QED BY <3>1, <3>2, <3>3
  <2> QED BY <2>1 DEF SymbolsCurrent
<1>14. StopsWhenTold'
  <2> SUFFICES ASSUME NEW b \in Subscribers, ~agent'[b].is_live
               PROVE  \E i \in Heard(b)' : content'[i] \in ShutdownsOf(b)
    BY DEF StopsWhenTold, ShutdownsOf, AgentShutdown, AllAgentsShutdown
  <2>1. CASE ~agent[b].is_live
    <3>1. PICK i \in Heard(b) : content[i] \in ShutdownsOf(b)
      BY <2>1 DEF BusInv, StopsWhenTold
    <3> QED BY <1>7, <1>11, <3>1
  <2>2. CASE agent[b].is_live
    <3>1. b = a
      BY <1>8, <2>2
    <3>2. agent[a] \in Agents
      BY <1>2
    <3>3. StopsFor(m, a) /\ Decodes(m)
      BY <1>8, <2>2, <3>1, <3>2 DEF AfterMessage, Agents
    <3>4. m \in ShutdownsOf(a)
      BY <1>7, <3>3, StopsForIts
    <3> QED BY <1>7, <1>11, <3>1, <3>4
  <2> QED BY <2>1, <2>2
<1> QED BY <1>9, <1>10, <1>12, <1>13, <1>14 DEF BusInv

-----------------------------------------------------------------------------
(* The theorems *)

LEMMA BusInitial ==
  ASSUME BusInit
  PROVE  BusInv
<1>1. /\ ArchiveTypeOK /\ DOMAIN log = {} /\ log = << >> /\ content = << >>
      /\ \A a \in Subscribers :
           /\ next[a] = 0 /\ joined[a] = 0 /\ reading[a] = 0
           /\ handler[a] = "idle"
           /\ agent[a] = [is_live |-> TRUE,
                          symbol_mapping |-> [name \in Names |-> Unknown]]
  BY ArchiveInit DEF BusInit, Init, ChannelInit
<1>2. << >> \in Seq(Commands) /\ Len(<< >>) = 0
  BY EmptySeq
<1>3. [name \in Names |-> Unknown] \in Mappings
  BY DEF Mappings
<1>4. agent \in [Subscribers -> Agents]
  BY <1>3 DEF BusInit, Agents
<1>5. BusTypeOK /\ PlaceInv
  BY <1>1, <1>2, <1>4 DEF BusTypeOK, PlaceInv
<1>6. \A a \in Subscribers : Heard(a) = {}
  BY <1>1 DEF Heard
<1>7. HeardReady /\ SymbolsCurrent
  BY <1>6 DEF HeardReady, SymbolsCurrent, Adds
<1>8. StopsWhenTold
  BY <1>1 DEF StopsWhenTold
<1> QED BY <1>5, <1>7, <1>8 DEF BusInv

LEMMA BusStep ==
  ASSUME BusInv, [BusNext]_allVars
  PROVE  BusInv'
<1>1. CASE UNCHANGED allVars
  <2>1. UNCHANGED <<log, next, reading, body, pub, handler, joined, content, agent>>
    BY <1>1 DEF allVars, vars, channelVars, busVars
  <2>2. BusTypeOK' /\ PlaceInv'
    BY <2>1 DEF BusInv, BusTypeOK, ArchiveTypeOK, PlaceInv
  <2>3. \A a \in Subscribers : Heard(a)' = Heard(a)
    BY <2>1 DEF Heard
  <2>4. ArchiveTypeOK'
    BY <2>2 DEF BusTypeOK
  <2>5. HeardReady'
    BY <2>1, <2>3 DEF BusInv, HeardReady
  <2>6. SymbolsCurrent'
    BY <2>1, <2>3 DEF BusInv, SymbolsCurrent, Adds
  <2>7. StopsWhenTold'
    BY <2>1, <2>3 DEF BusInv, StopsWhenTold, ShutdownsOf, AgentShutdown,
                      AllAgentsShutdown
  <2> QED BY <2>2, <2>5, <2>6, <2>7 DEF BusInv
<1>2. CASE BusNext
  BY <1>2, PublishCommandStep, PublishingStep, StartStep, PollStep, HandleStep,
     FinishPollStep DEF BusNext, AgentProgress
<1> QED BY <1>1, <1>2

\* An agent has heard the committed messages between its start and its place,
\* and its symbol map and its liveness are what those make them.
THEOREM BusInvariant == BusSpec => []BusInv
<1>1. BusInit => BusInv
  BY BusInitial
<1>2. BusInv /\ [BusNext]_allVars => BusInv'
  BY BusStep
<1> QED BY <1>1, <1>2, PTL DEF BusSpec

\* Whatever controllers commit in which order and whenever agents start, an agent
\* has the last id of every symbol it has heard.
THEOREM AgentsCurrent == BusSpec => []SymbolsCurrent
<1>1. BusInv => SymbolsCurrent
  BY DEF BusInv
<1> QED BY <1>1, BusInvariant, PTL

\* An agent stops only after a shutdown that names it or all.
THEOREM AgentsStopWhenTold == BusSpec => []StopsWhenTold
<1>1. BusInv => StopsWhenTold
  BY DEF BusInv
<1> QED BY <1>1, BusInvariant, PTL
=============================================================================
