------------------------------ MODULE AdminBus ------------------------------
(***************************************************************************)
(* The admin queue of the trading agents.  Controllers, as in              *)
(* basic_admin_test.py, publish symbols and shutdowns at any time, one     *)
(* with block a message; every agent's AdminClient polls the queue, keeps  *)
(* the symbol map and passes shutdowns on to its agent.                    *)
(*                                                                         *)
(* The publications and subscriptions are those of Archive: Publishers are *)
(* the controllers, Subscribers the agents.  An agent starts at any time,  *)
(* once, and stays: what a subscription that closes does to the others is  *)
(* in IpcQueue (CloseReader, DrainNext), and it is not what this module    *)
(* relies on.                                                              *)
(***************************************************************************)
EXTENDS Archive, Integers

CONSTANTS
  Symbols,      \* names of symbols
  Ids,          \* ids of symbols
  Garbled,      \* bytes that decode('ascii') refuses
  Published     \* what the controllers may publish

NoText == "no text"   \* zero bytes, decoded and stripped
NoId == 0             \* eight zero bytes as a number
Unknown == -1         \* not a key of the map

ASSUME AdminAssumption ==
  /\ NoText \notin Symbols \cup Subscribers
  /\ Garbled \notin Symbols \cup Subscribers \cup {NoText}
  /\ {NoId, Unknown} \cap Ids = {}

VARIABLES
  content,      \* what the block of each claimed message has left in it
  agent         \* each agent: whether it lives, and its symbol map

busVars == <<content, agent>>
allVars == <<vars, busVars>>

NewSymbolAdd(name, id) ==
  [templateId |-> "NewSymbolAdd", symbolName |-> name, symbolId |-> id]
AgentShutdown(dest, reason) ==
  [templateId |-> "AgentShutdown", destAgentName |-> dest, reason |-> reason]
AllAgentsShutdown(reason) ==
  [templateId |-> "AllAgentsShutdown", reason |-> reason]
OtherMessage == [templateId |-> "other"]

\* Every field is what was written, or zero if the block has not come to it.  A
\* reason that can be decoded is as good as none.
Reasons == {NoText, Garbled}
Names == Symbols \cup {NoText}

Commands ==
  {NewSymbolAdd(name, id) : name \in Names \cup {Garbled}, id \in Ids \cup {NoId}}
    \cup {AgentShutdown(dest, reason) :
            dest \in Subscribers \cup {NoText, Garbled}, reason \in Reasons}
    \cup {AllAgentsShutdown(reason) : reason \in Reasons}
    \cup {OtherMessage}

ASSUME PublishedAssumption == Published \subseteq Commands

BusInit ==
  /\ Init
  /\ content = << >>
  /\ agent = [a \in Subscribers |->
       [is_live |-> TRUE, symbol_mapping |-> [name \in Names |-> Unknown]]]

-----------------------------------------------------------------------------
(* Controllers *)

\* A block for a message, once there is an agent to read it.  What the block
\* will have written in the end is decided here: nobody looks before the claim
\* is committed, and nobody writes afterwards.
PublishCommand(c, message) ==
  /\ IsReady
  /\ pub[c].blocks = << >>
  /\ EnterBlock(c)
  /\ content' = Append(content, message)
  /\ UNCHANGED agent

\* The block goes on: it is left at its end or by an exception, as ctypes
\* raises for a name that is too long or no bytes.  The claim of an exception
\* is committed by the next block, or by the close.
Publishing(c) ==
  /\ \/ Granted(c)
     \/ pub[c].blocks # << >> /\ Fill(c, pub[c].blocks[1])
     \/ ExitBlock(c)
     \/ RaiseInBlock(c)
     \/ CommitNext(c)
     \/ CommitDone(c)
     \/ Close(c)
  /\ UNCHANGED busVars

-----------------------------------------------------------------------------
(* Agents *)

\* AdminClient.start opens a subscription, at the end of the queue.
Start(a) == Open(a) /\ UNCHANGED busVars

\* The latest id of a name is kept, conflict or not.
LearnFirst(mapping, name, id) ==
  IF mapping[name] = Unknown THEN [mapping EXCEPT ![name] = id] ELSE mapping
Learn(mapping, name, id) == [mapping EXCEPT ![name] = id]

\* The AgentShutdown case compares names, the AllAgentsShutdown case does not.
StopsForAny(message, a) ==
  message.templateId \in {"AgentShutdown", "AllAgentsShutdown"}
StopsForOwn(message, a) ==
  message.templateId = "AgentShutdown" /\ message.destAgentName = a
StopsFor(message, a) ==
  \/ message.templateId = "AgentShutdown" /\ message.destAgentName = a
  \/ message.templateId = "AllAgentsShutdown"

\* Every text of a message is decoded before anything is done about it.
Texts == {"symbolName", "destAgentName", "reason"}
Decodes(message) ==
  \A field \in Texts \cap DOMAIN message : message[field] # Garbled

\* handle_shutdown is the agent's own: the agents of the tests stop living.
AfterMessage(state, message, a) ==
  IF ~Decodes(message) THEN state
  ELSE IF message.templateId = "NewSymbolAdd"
    THEN [state EXCEPT !.symbol_mapping =
            Learn(@, message.symbolName, message.symbolId)]
  ELSE IF StopsFor(message, a) THEN [state EXCEPT !.is_live = FALSE]
  ELSE state

\* The callback.  What handle_admin_bytes returns for other messages, and what
\* ctypes makes of an exception, is any code; everything else returns 0.
HandleAdminInputs(a) ==
  LET message == content[reading[a]] IN
  /\ \E code \in Codes :
       /\ HandlerReturns(a, code)
       /\ Decodes(message) /\ message # OtherMessage => code = "CONTINUE"
  /\ agent' = [agent EXCEPT ![a] = AfterMessage(@, message, a)]
  /\ UNCHANGED content

\* execute_strategy polls; the callback is called with the next message.
AgentProgress(a) ==
  \/ Poll(a) /\ UNCHANGED busVars
  \/ HandleAdminInputs(a)
  \/ FinishPoll(a) /\ UNCHANGED busVars

-----------------------------------------------------------------------------
(* Specification *)

BusNext ==
  \/ \E c \in Publishers :
       \/ \E message \in Published : PublishCommand(c, message)
       \/ Publishing(c)
  \/ \E a \in Subscribers : Start(a) \/ AgentProgress(a)

\* "YOU MUST POLL THIS OBJECT"; nothing is asked of the controllers.
BusSpec ==
  /\ BusInit /\ [][BusNext]_allVars
  /\ \A a \in Subscribers : WF_allVars(AgentProgress(a))

-----------------------------------------------------------------------------
(* Properties *)

\* The messages an agent's callback has returned for.
Heard(a) ==
  {i \in DOMAIN log :
     /\ joined[a] # 0 /\ joined[a] <= i
     /\ i < next[a] \/ (i = next[a] /\ handler[a] \in Codes)}

Adds(a, name) ==
  {i \in Heard(a) : /\ content[i].templateId = "NewSymbolAdd"
                    /\ content[i].symbolName = name}

\* Whatever several controllers commit in which order, whatever raises in a
\* block or in a callback, and whenever agents start: an agent has the id of
\* the last add of a symbol it has heard.  Agents at the same place agree on
\* every symbol both have heard of.
SymbolsCurrent ==
  \A a \in Subscribers, name \in Names : \A i \in Adds(a, name) :
    (\A j \in Adds(a, name) : j <= i)
      => agent[a].symbol_mapping[name] = content[i].symbolId

ShutdownsOf(a) == {AgentShutdown(a, NoText), AllAgentsShutdown(NoText)}

\* basic_admin_test.py, "assert(dummy2.is_live)" after a shutdown of another:
\* an agent stops only for a shutdown that names it or all, that it has heard,
\* and that was claimed after it subscribed.
StopsWhenTold ==
  \A a \in Subscribers : ~agent[a].is_live =>
    \E i \in Heard(a) : content[i] \in ShutdownsOf(a)

\* The shutdowns an agent subscribed in front of, with nothing open on the way.
Told(a) ==
  {i \in DOMAIN log :
     /\ content[i] \in ShutdownsOf(a) /\ a \in ReadersOf(i)
     /\ \A j \in joined[a] .. i : log[j] = "ready"}

\* A shutdown that can be decoded stops the agents it is for, whatever garbled,
\* blank or unknown messages are in front of it: again and again there is no
\* agent that has been told and lives.  As none comes back to life, every agent
\* that is told stops.
ShutdownObeyed ==
  []<>(\A a \in Subscribers : Told(a) # {} => ~agent[a].is_live)

\* The reader wrapper's "only reads messages that have been fully written by
\* the producer", for symbols: no agent has one without a name.
SymbolsNamed ==
  \A a \in Subscribers : agent[a].symbol_mapping[NoText] = Unknown
=============================================================================
