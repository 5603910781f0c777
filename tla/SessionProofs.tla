--------------------------- MODULE SessionProofs ----------------------------
(***************************************************************************)
(* What the two queues of the application can hold together, and what the  *)
(* UI may therefore believe: the order of a session's commands and events, *)
(* the answers to what is pending, and the last word on every row.         *)
(***************************************************************************)
EXTENDS ExplorerProofs, QueueOrders

\* Commands that start or end a session, and those that need one.
Connects == {Plainly("Connect")}
Disconnects == {Plainly("Disconnect")}
SessionCmds == {c \in Command : c.op \in {"Subscribe", "Publish", "Query",
                                          "EnableQueryable", "DisableQueryable"}}
Enders == Connects \cup Disconnects

\* Events about a session: it opened, its monitor's turn is over, it failed to
\* open, it was torn down.
OpenedEvs == {Note("PublishingConnected")}
MonitoredEvs == {Note("MonitorConnected")}
ErrorEvs == {Note("ConnectionError")}
EndedEvs == {Note("Disconnected")}
Outcomes == OpenedEvs \cup MonitoredEvs \cup ErrorEvs
SessionEvs == EndedEvs \cup Outcomes

\* The commands' order: a session's commands come before those that end it or
\* start the next.
CmdOrder ==
    /\ Once(cmds, Connects)
    /\ Once(cmds, Disconnects)
    /\ Precedes(cmds, Disconnects, Connects)
    /\ Precedes(cmds, SessionCmds, Enders)

\* The events' order: one end, then the outcomes of one attempt.
EventOrder ==
    /\ Once(events, EndedEvs)
    /\ Once(events, OpenedEvs \cup ErrorEvs)
    /\ Once(events, MonitoredEvs \cup ErrorEvs)
    /\ Precedes(events, EndedEvs, Outcomes)
    /\ Precedes(events, OpenedEvs, MonitoredEvs)

\* Where a command or an event of a session is, and what the worker and the UI
\* are at then.
Stages ==
    /\ Holds(cmds, Disconnects) =>
          /\ ~Holds(events, SessionEvs)
          /\ wpc = "ready"
          /\ status \notin {"Connected", "ConnectingMonitor"}
    /\ Holds(cmds, Connects) =>
          /\ ~Holds(events, Outcomes)
          /\ wpc = "ready"
          /\ status = "ConnectingPublishing"
    /\ wpc = "opening" =>
          /\ ~Holds(cmds, Enders)
          /\ ~Holds(events, Outcomes)
          /\ status = "ConnectingPublishing"
    /\ wpc = "openingMonitor" =>
          /\ ~Holds(cmds, Enders)
          /\ ~Holds(events, MonitoredEvs \cup ErrorEvs)
          /\ pub
          /\ \/ status = "ConnectingPublishing" /\ Holds(events, OpenedEvs)
             \/ status = "ConnectingMonitor"
    /\ Holds(events, OpenedEvs) =>
          /\ ~Holds(cmds, Enders)
          /\ pub
          /\ status = "ConnectingPublishing"
          /\ wpc = "openingMonitor" \/ Holds(events, MonitoredEvs)
    /\ Holds(events, ErrorEvs) =>
          /\ ~Holds(cmds, Enders)
          /\ wpc = "ready"
          /\ status = "ConnectingPublishing"
    /\ Holds(events, MonitoredEvs) =>
          /\ ~Holds(cmds, Enders)
          /\ wpc = "ready"
          /\ pub
          /\ status = "ConnectingMonitor" \/ Holds(events, OpenedEvs)
    /\ Holds(events, EndedEvs) => status \notin {"Connected", "ConnectingMonitor"}
    /\ status = "ConnectingMonitor" =>
          /\ ~Holds(events, EndedEvs \cup OpenedEvs \cup ErrorEvs)
          /\ ~Holds(cmds, Enders)
          /\ pub
          /\ wpc = "openingMonitor" \/ Holds(events, MonitoredEvs)
    /\ status = "Connected" =>
          /\ ~Holds(events, SessionEvs)
          /\ ~Holds(cmds, Enders)
          /\ pub
          /\ wpc = "ready"
    /\ Holds(cmds, SessionCmds) =>
          /\ ~Holds(events, SessionEvs)
          /\ pub
          /\ wpc = "ready"

Handshake == CmdOrder /\ EventOrder /\ Stages

MonitorFails == {Failed("Monitor")}

\* A failed monitor is reported before the event that makes the UI Connected,
\* and the flag agrees with the sessions once the report is handled.
MonitorReported ==
    /\ Followed(events, MonitorFails, MonitoredEvs)
    /\ Precedes(events, OpenedEvs, MonitorFails)
    /\ Holds(events, OpenedEvs) /\ Holds(events, MonitoredEvs) =>
          (monitor = "subscribed" <=> ~Holds(events, MonitorFails))
    /\ status = "ConnectingMonitor" /\ Holds(events, MonitoredEvs) =>
          (monitor = "subscribed" <=> monitorOk /\ ~Holds(events, MonitorFails))
    /\ status = "ConnectingMonitor" /\ ~Holds(events, MonitoredEvs) => monitorOk
    /\ status = "Connected" => (monitor = "subscribed" <=> monitorOk)

\* A request is answered: its command is queued, or its answer is, before any
\* event that ends a session, or the worker is dead and nothing ends one either.
Ends == EndedEvs \cup ErrorEvs
Over == ~workerAlive /\ ~Holds(events, Ends)
Answered(C, E) == Holds(cmds, C) \/ Leads(events, E, Ends) \/ Over

\* A publish and its answers; a subscribe and the events that clear its key.
PublishCmds == {Plainly("Publish")}
PublishEvs == {Note("Published"), Failed("Publish")}
SubscribeCmds(key) == {[op |-> "Subscribe", key |-> key]}
ClearingEvs(key) ==
    {e \in Event : \/ e.type = "OperationFailed" /\ e.failed = "Subscribe"
                   \/ e.type = "SubscriptionCreated" /\ e.key = key}

\* What shows as pending is answered.
AnswersFirst ==
    /\ publish = "sending" => Answered(PublishCmds, PublishEvs)
    /\ \A key \in pending : Answered(SubscribeCmds(key), ClearingEvs(key))

\* The queryable's commands and its failure; a Disconnect on its way.
Enables == {Plainly("EnableQueryable")}
Disables == {Plainly("DisableQueryable")}
QueryableFails == {Failed("Queryable")}
SessionEnding == Holds(cmds, Disconnects) \/ Holds(events, EndedEvs)

\* The box is on in a session, and the last word to the worker declares, or the
\* worker runs a queryable, or its failure is queued.
BoxTold ==
    queryableOn /\ workerAlive =>
        \/ SessionEnding
        \/ /\ status = "Connected"
           /\ \/ Trails(cmds, Enables, Disables)
              \/ /\ ~Holds(cmds, Disables)
                 /\ \/ queryable \in {"declaring", "serving"}
                    \/ Holds(events, QueryableFails)

\* A query and what replaces its notice.
QueryCmds(sel) == {[op |-> "Query", sel |-> sel]}
QueryAnswers ==
    {Failed("Query"), Note("QueryReply")} \cup {NoResponses(sel) : sel \in Selectors}

\* What the notice waits for.
NoticeTold ==
    alert.says = "sent" /\ workerAlive =>
        \/ SessionEnding
        \/ /\ status = "Connected"
           /\ \/ Holds(cmds, QueryCmds(alert.sel))
              \/ queries[alert.sel] = "waiting"
              \/ Holds(events, QueryAnswers)
              \/ drops

-----------------------------------------------------------------------------
(* The handshake.                                                           *)

(* What holds something of a class holds something of a larger one.         *)
LEMMA Grows ==
    ASSUME NEW q, NEW A, NEW B, A \subseteq B, Holds(q, A)
    PROVE  Holds(q, B)
  BY DEF Holds

(* The classes of commands by their names, and                              *)
LEMMA CommandClasses ==
    ASSUME NEW c \in Command
    PROVE  /\ c \in Connects <=> c.op = "Connect"
           /\ c \in Disconnects <=> c.op = "Disconnect"
           /\ c \in SessionCmds <=> c.op \in {"Subscribe", "Publish", "Query",
                                              "EnableQueryable", "DisableQueryable"}
  BY DEF Command, Plain, Plainly, Connects, Disconnects, SessionCmds

(* those of events by their types.                                          *)
LEMMA EventClasses ==
    ASSUME NEW e \in Event
    PROVE  /\ e \in OpenedEvs <=> e.type = "PublishingConnected"
           /\ e \in MonitoredEvs <=> e.type = "MonitorConnected"
           /\ e \in ErrorEvs <=> e.type = "ConnectionError"
           /\ e \in EndedEvs <=> e.type = "Disconnected"
  BY DEF Event, Note, OpenedEvs, MonitoredEvs, ErrorEvs, EndedEvs

(* What receiving a command leaves of the queue of commands.                *)
LEMMA ReceiveFacts ==
    ASSUME TypeOK, NEW op, Receive(op)
    PROVE  /\ Head(cmds) \in Command /\ Head(cmds).op = op
           /\ workerAlive /\ wpc = "ready"
           /\ cmds # <<>> /\ cmds' = Tail(cmds)
           /\ \A A : Holds(cmds, A) <=> Head(cmds) \in A \/ Holds(cmds', A)
           /\ \A A : Once(cmds, A) =>
                Once(cmds', A) /\ (Head(cmds) \in A => ~Holds(cmds', A))
           /\ \A A, B : Precedes(cmds, A, B) =>
                Precedes(cmds', A, B) /\ (Head(cmds) \in B => ~Holds(cmds, A))
  <1>1. /\ cmds \in Seq(Command) /\ cmds # <<>> /\ cmds' = Tail(cmds)
        /\ workerAlive /\ wpc = "ready"
        /\ Head(cmds) \in Command /\ Head(cmds).op = op
    BY ReceiveType DEF TypeOK, ChannelsTypeOK, Receive, Idle
  <1>2. \A A : Holds(cmds, A) <=> Head(cmds) \in A \/ Holds(cmds', A)
    BY <1>1, TailHolds
  <1>3. \A A : Once(cmds, A) =>
          Once(cmds', A) /\ (Head(cmds) \in A => ~Holds(cmds', A))
    BY <1>1, TailOrders
  <1>4. \A A, B : Precedes(cmds, A, B) =>
          Precedes(cmds', A, B) /\ (Head(cmds) \in B => ~Holds(cmds, A))
    BY <1>1, TailOrders
  <1>5. QED
    BY <1>1, <1>2, <1>3, <1>4

(* What processing an event leaves of the queue of events.                  *)
LEMMA ProcessFacts ==
    ASSUME TypeOK, NEW type, Process(type)
    PROVE  /\ Head(events) \in Event /\ Head(events).type = type
           /\ events # <<>> /\ events' = Tail(events)
           /\ \A A : Holds(events, A) <=> Head(events) \in A \/ Holds(events', A)
           /\ \A A : Once(events, A) =>
                Once(events', A) /\ (Head(events) \in A => ~Holds(events', A))
           /\ \A A, B : Precedes(events, A, B) =>
                Precedes(events', A, B) /\ (Head(events) \in B => ~Holds(events, A))
  <1>1. /\ events \in Seq(Event) /\ events # <<>> /\ events' = Tail(events)
        /\ Head(events) \in Event /\ Head(events).type = type
    BY ProcessType DEF TypeOK, ChannelsTypeOK, Process
  <1>2. \A A : Holds(events, A) <=> Head(events) \in A \/ Holds(events', A)
    BY <1>1, TailHolds
  <1>3. \A A : Once(events, A) =>
          Once(events', A) /\ (Head(events) \in A => ~Holds(events', A))
    BY <1>1, TailOrders
  <1>4. \A A, B : Precedes(events, A, B) =>
          Precedes(events', A, B) /\ (Head(events) \in B => ~Holds(events, A))
    BY <1>1, TailOrders
  <1>5. QED
    BY <1>1, <1>2, <1>3, <1>4

CmdsAside ==
    \/ cmds' = cmds
    \/ cmds # <<>> /\ cmds' = Tail(cmds) /\ Head(cmds) \notin Enders
    \/ \E c \in Command \ Enders :
          cmds' = cmds \o <<c>> /\ (c \in SessionCmds => status = "Connected")
    \/ cmds' = <<>>

EventsAside ==
    \/ events' = events
    \/ events # <<>> /\ events' = Tail(events) /\ Head(events) \notin SessionEvs
    \/ \E es \in Seq(Event) : events' = events \o es /\ ~Holds(es, SessionEvs)

(* Commands that neither start nor end a session keep their order.          *)
LEMMA CmdsAsideKeeps ==
    ASSUME TypeOK, Handshake, CmdsAside
    PROVE  /\ CmdOrder'
           /\ \A A \in {Connects, Disconnects, Enders} :
                Holds(cmds', A) => Holds(cmds, A)
           /\ Holds(cmds', SessionCmds) => Holds(cmds, SessionCmds) \/ status = "Connected"
  <1>1. cmds \in Seq(Command)
    BY DEF TypeOK, ChannelsTypeOK
  <1>2. CASE cmds' = cmds
    BY <1>2 DEF Handshake, CmdOrder
  <1>3. CASE cmds # <<>> /\ cmds' = Tail(cmds) /\ Head(cmds) \notin Enders
    BY <1>1, <1>3, TailHolds, TailOrders DEF Handshake, CmdOrder
  <1>4. ASSUME NEW c \in Command \ Enders, cmds' = cmds \o <<c>>,
               c \in SessionCmds => status = "Connected"
        PROVE  /\ CmdOrder'
               /\ \A A \in {Connects, Disconnects, Enders} :
                    Holds(cmds', A) => Holds(cmds, A)
               /\ Holds(cmds', SessionCmds)
                    => Holds(cmds, SessionCmds) \/ status = "Connected"
    <2>1. <<c>> \in Seq(Command)
      OBVIOUS
    <2>2. c \notin Connects /\ c \notin Disconnects /\ c \notin Enders
      BY <1>4 DEF Enders
    <2>3. \A A : Holds(cmds', A) <=> Holds(cmds, A) \/ c \in A
      BY <1>1, <1>4, <2>1, JoinHolds, ShortHolds
    <2>4. c \in SessionCmds => ~Holds(cmds, Enders)
      BY <1>4 DEF Handshake, Stages
    <2>5. CmdOrder'
      <3>1. \A A : Once(<<c>>, A)
        BY ShortOrders
      <3>2. /\ Precedes(<<c>>, Disconnects, Connects)
            /\ Precedes(<<c>>, SessionCmds, Enders)
        BY <2>2, ShortOrders
      <3>3. \A A : Holds(<<c>>, A) <=> c \in A
        BY ShortHolds
      <3>4. QED
        BY <1>1, <1>4, <2>1, <2>2, <2>4, <3>1, <3>2, <3>3, JoinHolds
           DEF Handshake, CmdOrder
    <2>6. QED
      BY <1>4, <2>2, <2>3, <2>5
  <1>5. CASE cmds' = <<>>
    BY <1>5, ShortHolds, Absent DEF CmdOrder
  <1>6. QED
    BY <1>2, <1>3, <1>4, <1>5 DEF CmdsAside

(* Events about no session keep the order of those that are about one.      *)
LEMMA EventsAsideKeeps ==
    ASSUME TypeOK, EventOrder, EventsAside
    PROVE  /\ EventOrder'
           /\ \A A : A \subseteq SessionEvs => (Holds(events', A) <=> Holds(events, A))
  <1>1. events \in Seq(Event)
    BY DEF TypeOK, ChannelsTypeOK
  <1>2. CASE events' = events
    BY <1>2 DEF EventOrder
  <1>3. CASE events # <<>> /\ events' = Tail(events) /\ Head(events) \notin SessionEvs
    <2>1. \A A : Holds(events, A) <=> Head(events) \in A \/ Holds(events', A)
      BY <1>1, <1>3, TailHolds
    <2>2. EventOrder'
      BY <1>1, <1>3, TailOrders DEF EventOrder
    <2>3. QED
      BY <1>3, <2>1, <2>2
  <1>4. ASSUME NEW es \in Seq(Event), events' = events \o es, ~Holds(es, SessionEvs)
        PROVE  /\ EventOrder'
               /\ \A A : A \subseteq SessionEvs => (Holds(events', A) <=> Holds(events, A))
    <2>1. \A A : A \subseteq SessionEvs => ~Holds(es, A)
      BY <1>4, Grows
    <2>2. \A A : Holds(events', A) <=> Holds(events, A) \/ Holds(es, A)
      BY <1>1, <1>4, JoinHolds
    <2>3. /\ ~Holds(es, EndedEvs) /\ ~Holds(es, OpenedEvs) /\ ~Holds(es, Outcomes)
          /\ ~Holds(es, MonitoredEvs)
          /\ ~Holds(es, OpenedEvs \cup ErrorEvs) /\ ~Holds(es, MonitoredEvs \cup ErrorEvs)
      BY <2>1 DEF SessionEvs, Outcomes
    <2>4. EventOrder'
      BY <1>1, <1>4, <2>3, JoinHolds, Absent DEF EventOrder
    <2>5. QED
      BY <2>1, <2>2, <2>4
  <1>5. QED
    BY <1>2, <1>3, <1>4 DEF EventsAside

(* A step aside of sessions keeps the handshake.                            *)
LEMMA HandshakeAside ==
    ASSUME TypeOK, Handshake, UNCHANGED <<wpc, pub, status>>, CmdsAside, EventsAside
    PROVE  Handshake'
  <1>1. /\ CmdOrder'
        /\ \A A \in {Connects, Disconnects, Enders} : Holds(cmds', A) => Holds(cmds, A)
        /\ Holds(cmds', SessionCmds) => Holds(cmds, SessionCmds) \/ status = "Connected"
    BY CmdsAsideKeeps
  <1>2. /\ EventOrder'
        /\ \A A : A \subseteq SessionEvs => (Holds(events', A) <=> Holds(events, A))
    BY EventsAsideKeeps DEF Handshake
  <1>3. /\ Holds(events', SessionEvs) <=> Holds(events, SessionEvs)
        /\ Holds(events', Outcomes) <=> Holds(events, Outcomes)
        /\ Holds(events', EndedEvs) <=> Holds(events, EndedEvs)
        /\ Holds(events', OpenedEvs) <=> Holds(events, OpenedEvs)
        /\ Holds(events', MonitoredEvs) <=> Holds(events, MonitoredEvs)
        /\ Holds(events', ErrorEvs) <=> Holds(events, ErrorEvs)
        /\ Holds(events', MonitoredEvs \cup ErrorEvs)
             <=> Holds(events, MonitoredEvs \cup ErrorEvs)
        /\ Holds(events', EndedEvs \cup OpenedEvs \cup ErrorEvs)
             <=> Holds(events, EndedEvs \cup OpenedEvs \cup ErrorEvs)
    BY <1>2 DEF SessionEvs, Outcomes
  <1>4. /\ Holds(cmds', Connects) => Holds(cmds, Connects)
        /\ Holds(cmds', Disconnects) => Holds(cmds, Disconnects)
        /\ Holds(cmds', Enders) => Holds(cmds, Enders)
    BY <1>1
  <1>5. Stages'
    BY <1>1, <1>3, <1>4 DEF Handshake, Stages
  <1>6. QED
    BY <1>1, <1>2, <1>5 DEF Handshake

(* What the worker does besides opening and ending a session.               *)
SideStep ==
    \/ Subscribe \/ Unsubscribe \/ (\E s \in redeclaring : Redeclare(s))
    \/ Publish \/ Query \/ EnableQueryable \/ DisableQueryable \/ Ping
    \/ TaskNext \/ Dies

\* Events that are about neither a session nor its monitor.
Talk == Event \ (SessionEvs \cup MonitorFails)

(* What tasks and handlers say besides the session's own events.            *)
LEMMA TalkIsTalk ==
    /\ \A id \in SubIds, key \in Keys : Created(id, key) \in Talk
    /\ \A id \in SubIds : Removed(id) \in Talk
    /\ \A sel \in Selectors : NoResponses(sel) \in Talk
    /\ \A op \in FailedOps \ {"Monitor"} : Failed(op) \in Talk
    /\ \A type \in {"DiscoveryUpdate", "Published", "Pong", "QueryReply"} :
          Note(type) \in Talk
  <1>1. /\ \A id \in SubIds, key \in Keys : Created(id, key) \in Event
        /\ \A id \in SubIds : Removed(id) \in Event
        /\ \A sel \in Selectors : NoResponses(sel) \in Event
        /\ \A op \in FailedOps : Failed(op) \in Event
        /\ \A type \in {"DiscoveryUpdate", "Published", "Pong", "QueryReply"} :
              Note(type) \in Event
    BY EventsAreEvents
  <1>2. \A e \in SessionEvs : e.type \in {"PublishingConnected", "MonitorConnected",
                                          "ConnectionError", "Disconnected"}
    BY DEF SessionEvs, Outcomes, OpenedEvs, MonitoredEvs, ErrorEvs, EndedEvs, Note
  <1>3. \A e \in MonitorFails : e.type = "OperationFailed" /\ e.failed = "Monitor"
    BY DEF MonitorFails, Failed
  <1>4. QED
    BY <1>1, <1>2, <1>3 DEF Talk, Created, Removed, NoResponses, Failed, Note

(* It is about no session.                                                  *)
LEMMA TalkSaysNothing ==
    ASSUME NEW es \in Seq(Talk)
    PROVE  es \in Seq(Event) /\ ~Holds(es, SessionEvs) /\ ~Holds(es, MonitorFails)
  <1>1. \A i \in DOMAIN es : es[i] \in Talk
    OBVIOUS
  <1>2. es \in Seq(Event)
    BY DEF Talk
  <1>3. QED
    BY <1>1, <1>2 DEF Talk, Holds

\* The step adds talk, or nothing, to the events.
Talks == \E es \in Seq(Talk) : events' = events \o es

(* Ways to talk.                                                            *)
LEMMA TalksOf ==
    ASSUME TypeOK
    PROVE  /\ UNCHANGED events => Talks
           /\ \A e \in Talk : Emit(<<e>>) => Talks
           /\ \A es \in Seq(Talk) : Emit(es) => Talks
  <1>1. events \in Seq(Event)
    BY DEF TypeOK, ChannelsTypeOK
  <1>2. <<>> \in Seq(Talk) /\ events = events \o <<>>
    BY <1>1
  <1>3. \A e \in Talk : <<e>> \in Seq(Talk)
    OBVIOUS
  <1>4. QED
    BY <1>2, <1>3 DEF Talks, Emit

(* Declaring a subscription only talks,                                     *)
LEMMA SubscribeTalks ==
    ASSUME TypeOK, NEW key \in Keys, NEW id \in SubIds, NEW rowKept \in BOOLEAN,
           HandleSubscribe(key, id, rowKept)
    PROVE  Talks
  <1>1. Removed(id) \in Talk /\ Failed("Subscribe") \in Talk /\ Created(id, key) \in Talk
    BY TalkIsTalk DEF FailedOps
  <1>2. DeclareFailed(id, rowKept) \in Seq(Talk)
    BY <1>1 DEF DeclareFailed
  <1>3. QED
    BY <1>1, <1>2, TalksOf DEF HandleSubscribe

(* as does every step of the worker but the session's own.                  *)
LEMMA SideTalks ==
    ASSUME TypeOK, SideStep
    PROVE  /\ Talks
           /\ UNCHANGED <<wpc, pub, monitor>>
           /\ \/ cmds' = cmds \/ cmds' = <<>>
              \/ cmds # <<>> /\ cmds' = Tail(cmds) /\ Head(cmds) \notin Enders
  <1>0. /\ Note("DiscoveryUpdate") \in Talk /\ Note("Published") \in Talk
        /\ Note("Pong") \in Talk /\ Note("QueryReply") \in Talk
        /\ Failed("Query") \in Talk /\ Failed("Queryable") \in Talk
        /\ Failed("Publish") \in Talk
        /\ \A sel \in Selectors : NoResponses(sel) \in Talk
        /\ \A id \in SubIds : Removed(id) \in Talk
    BY TalkIsTalk DEF FailedOps
  <1>r. ASSUME NEW op, op \notin {"Connect", "Disconnect"}, Receive(op)
        PROVE  cmds # <<>> /\ cmds' = Tail(cmds) /\ Head(cmds) \notin Enders
    BY <1>r, ReceiveFacts, CommandClasses DEF Enders
  <1>1. CASE Subscribe
    <2>1. Receive("Subscribe") /\ HandleSubscribe(Head(cmds).key, nextId, FALSE)
      BY <1>1 DEF Subscribe, FreshId
    <2>2. Head(cmds).key \in Keys /\ nextId \in SubIds
      BY <2>1, ReceiveFacts, CommandFields DEF TypeOK, WorkerTypeOK
    <2>3. Talks
      BY <2>1, <2>2, SubscribeTalks
    <2>4. QED
      BY <1>1, <1>r, <2>1, <2>3 DEF Subscribe, sessVars
  <1>2. CASE Unsubscribe
    <2>1. Receive("Unsubscribe") /\ Emit(UnsubscribeAnswers(Head(cmds).id))
      BY <1>2 DEF Unsubscribe
    <2>2. Removed(Head(cmds).id) \in Talk
      BY <1>0, <2>1, ReceiveFacts, CommandFields
    <2>3. UnsubscribeAnswers(Head(cmds).id) \in Seq(Talk)
      BY <2>2 DEF UnsubscribeAnswers
    <2>4. QED
      BY <1>2, <1>r, <2>1, <2>2, <2>3, TalksOf DEF Unsubscribe, sessVars
  <1>3. CASE \E s \in redeclaring : Redeclare(s)
    <2>1. PICK s \in redeclaring : Redeclare(s)
      BY <1>3
    <2>2. s.key \in Keys /\ s.id \in SubIds
      BY DEF TypeOK, WorkerTypeOK, Subscription
    <2>3. QED
      BY <2>1, <2>2, SubscribeTalks DEF Redeclare, sessVars
  <1>4. CASE Publish
    <2>1. Receive("Publish")
      BY <1>4 DEF Publish
    <2>2. QED
      BY <1>0, <1>4, <1>r, <2>1, TalksOf DEF Publish, PublishAnswers, sessVars
  <1>5. CASE Query
    BY <1>0, <1>5, <1>r, TalksOf DEF Query, sessVars
  <1>6. CASE EnableQueryable \/ DisableQueryable
    BY <1>6, <1>r, TalksOf DEF EnableQueryable, DisableQueryable, sessVars
  <1>7. CASE Ping
    BY <1>0, <1>7, <1>r, TalksOf DEF Ping, sessVars
  <1>8. CASE QueryableDeclared
    BY <1>0, <1>8, TalksOf DEF QueryableDeclared, sessVars
  <1>9. ASSUME NEW sel \in Selectors,
               ReplySample(sel) \/ ReplyError(sel) \/ RepliesEnd(sel)
        PROVE  Talks /\ UNCHANGED <<cmds, wpc, pub, monitor>>
    <2>1. QueryEnds(sel) \in Seq(Talk)
      BY <1>0 DEF QueryEnds
    <2>2. Talks
      BY <1>0, <1>9, <2>1, TalksOf DEF ReplySample, ReplyError, RepliesEnd
    <2>3. QED
      BY <1>9, <2>2 DEF ReplySample, ReplyError, RepliesEnd, TaskStep, sessVars
  <1>10. CASE DiscoveryTick
    BY <1>0, <1>10, TalksOf DEF DiscoveryTick, sessVars
  <1>11. CASE \E t \in aborted : AbortedTaskEnds(t)
    BY <1>0, <1>11, TalksOf DEF AbortedTaskEnds, sessVars
  <1>12. CASE Dies
    BY <1>12, TalksOf DEF Dies, workerVars, sessVars
  <1>13. QED
    BY <1>1, <1>2, <1>3, <1>4, <1>5, <1>6, <1>7, <1>8, <1>9, <1>10, <1>11, <1>12
       DEF SideStep, TaskNext

(* Clicks that neither open nor end a session.                              *)
SideClick ==
    \/ \E key \in Keys : Subscribing(key)
    \/ \E row \in rows : ClickUnsubscribe(row)
    \/ ClickPublish \/ ToggleQueryable
    \/ \E sel \in Selectors : Querying(sel)
    \/ DismissAlert \/ HealthTick

(* A command the user posts aside of the session's start and end.           *)
LEMMA PostedAside ==
    ASSUME TypeOK, NEW c \in Command, Post(c), c.op \notin {"Connect", "Disconnect"},
           c \in SessionCmds => status = "Connected"
    PROVE  CmdsAside
  <1>1. c \in Command \ Enders
    BY CommandClasses DEF Enders
  <1>2. cmds' = cmds \/ cmds' = cmds \o <<c>>
    BY DEF Post, TypeOK, ChannelsTypeOK
  <1>3. QED
    BY <1>1, <1>2 DEF CmdsAside

(* The clicks that post such a command, or none.                            *)
LEMMA ClicksAside ==
    ASSUME TypeOK, SideClick
    PROVE  CmdsAside /\ UNCHANGED <<events, status, monitorOk, workerAlive>>
  <1>1. ASSUME NEW key \in Keys, Subscribing(key)
        PROVE  CmdsAside
    <2>1. /\ Post([op |-> "Subscribe", key |-> key]) /\ status = "Connected"
          /\ [op |-> "Subscribe", key |-> key] \in Command
      BY <1>1, CommandsAreCommands DEF Subscribing, ClickSubscribe, SubscribeEnabled
    <2>2. QED
      BY <2>1, PostedAside
  <1>2. ASSUME NEW row \in rows, ClickUnsubscribe(row)
        PROVE  CmdsAside
    <2>1. row.id \in SubIds
      BY DEF TypeOK, UiTypeOK
    <2>2. /\ Post([op |-> "Unsubscribe", id |-> row.id])
          /\ [op |-> "Unsubscribe", id |-> row.id] \in Command
      BY <1>2, <2>1, CommandsAreCommands DEF ClickUnsubscribe
    <2>3. [op |-> "Unsubscribe", id |-> row.id] \notin SessionCmds
      BY DEF SessionCmds
    <2>4. QED
      BY <2>2, <2>3, PostedAside
  <1>3. ASSUME NEW op \in {"Publish", "EnableQueryable", "DisableQueryable"},
               Post(Plainly(op)), status = "Connected"
        PROVE  CmdsAside
    BY <1>3, CommandsAreCommands, PostedAside DEF Plainly
  <1>4. ASSUME NEW sel \in Selectors, Querying(sel)
        PROVE  CmdsAside
    <2>1. /\ Post([op |-> "Query", sel |-> sel]) /\ status = "Connected"
          /\ [op |-> "Query", sel |-> sel] \in Command
      BY <1>4, CommandsAreCommands DEF Querying, ClickQuery
    <2>2. QED
      BY <2>1, PostedAside
  <1>5. ASSUME Post(Plainly("Ping"))
        PROVE  CmdsAside
    <2>1. Plainly("Ping") \in Command /\ Plainly("Ping") \notin SessionCmds
      BY CommandsAreCommands DEF SessionCmds, Plainly
    <2>2. QED
      BY <1>5, <2>1, PostedAside DEF Plainly
  <1>6. CmdsAside
    <2>1. ToggleQueryable => CmdsAside
      BY <1>3 DEF ToggleQueryable
    <2>2. ClickPublish => CmdsAside
      BY <1>3 DEF ClickPublish
    <2>3. HealthTick => CmdsAside
      BY <1>5 DEF HealthTick, SendPing, PingTimesOut, UiStalls, CmdsAside, chanVars
    <2>4. DismissAlert => CmdsAside
      BY DEF DismissAlert, CmdsAside, chanVars
    <2>5. QED
      BY <1>1, <1>2, <1>4, <2>1, <2>2, <2>3, <2>4 DEF SideClick
  <1>7. UNCHANGED <<events, status, monitorOk, workerAlive>>
    BY DEF SideClick, Subscribing, ClickSubscribe, ClickUnsubscribe, ClickPublish,
           ToggleQueryable, Querying, ClickQuery, DismissAlert, HealthTick, SendPing,
           PingTimesOut, UiStalls, Click, chanVars, connVars, uiVars
  <1>8. QED
    BY <1>6, <1>7

(* Events that are about neither the opening nor the end of a session.      *)
SideEvent ==
    \/ OnDiscoveryUpdate \/ OnSubscriptionCreated \/ OnSubscriptionRemoved
    \/ OnPublished \/ OnOperationFailed \/ OnQueryReply \/ OnQueryNoResponses
    \/ OnPong

(* The events that are aside.                                               *)
LEMMA SideEventsAside ==
    ASSUME TypeOK, SideEvent
    PROVE  /\ events # <<>> /\ events' = Tail(events)
           /\ Head(events) \in Event /\ Head(events) \notin SessionEvs
           /\ UNCHANGED <<status, cmds, workerAlive>>
  <1>1. PICK type \in {"DiscoveryUpdate", "SubscriptionCreated", "SubscriptionRemoved",
                       "Published", "OperationFailed", "QueryReply",
                       "QueryNoResponses", "Pong"} : Process(type)
    BY DEF SideEvent, OnDiscoveryUpdate, OnSubscriptionCreated, OnSubscriptionRemoved,
           OnPublished, OnOperationFailed, OnQueryReply, OnQueryNoResponses, OnPong
  <1>2. Head(events) \in Event /\ Head(events) \notin SessionEvs
    BY <1>1, ProcessFacts, EventClasses DEF SessionEvs, Outcomes
  <1>3. UNCHANGED status
    BY DEF SideEvent, OnDiscoveryUpdate, OnSubscriptionCreated, OnSubscriptionRemoved,
           OnPublished, OnOperationFailed, OnQueryReply, OnQueryNoResponses, OnPong,
           connVars
  <1>4. QED
    BY <1>1, <1>2, <1>3, ProcessFacts DEF Process

(* The steps that neither open nor end a session keep the order.            *)
LEMMA SideKeepsHandshake ==
    ASSUME TypeOK, Handshake,
           \/ SideStep /\ UNCHANGED uiVars
           \/ (SideClick \/ SideEvent) /\ UNCHANGED workerVars
    PROVE  Handshake'
  <1>1. CASE SideStep /\ UNCHANGED uiVars
    <2>1. CmdsAside /\ UNCHANGED <<wpc, pub>>
      BY <1>1, SideTalks DEF CmdsAside
    <2>2. EventsAside
      BY <1>1, SideTalks, TalkSaysNothing DEF EventsAside, Talks
    <2>3. QED
      BY <1>1, <2>1, <2>2, HandshakeAside DEF uiVars, connVars
  <1>2. CASE SideClick /\ UNCHANGED workerVars
    BY <1>2, ClicksAside, HandshakeAside DEF EventsAside, workerVars, sessVars
  <1>3. CASE SideEvent /\ UNCHANGED workerVars
    BY <1>3, SideEventsAside, HandshakeAside
       DEF EventsAside, CmdsAside, workerVars, sessVars
  <1>4. QED
    BY <1>1, <1>2, <1>3

(* An event or a command of a union is one of its parts.                    *)
LEMMA Parts ==
    ASSUME NEW q
    PROVE  /\ Holds(q, Outcomes)
                <=> Holds(q, OpenedEvs) \/ Holds(q, MonitoredEvs) \/ Holds(q, ErrorEvs)
           /\ Holds(q, SessionEvs) <=> Holds(q, EndedEvs) \/ Holds(q, Outcomes)
           /\ Holds(q, OpenedEvs \cup ErrorEvs)
                <=> Holds(q, OpenedEvs) \/ Holds(q, ErrorEvs)
           /\ Holds(q, MonitoredEvs \cup ErrorEvs)
                <=> Holds(q, MonitoredEvs) \/ Holds(q, ErrorEvs)
           /\ Holds(q, EndedEvs \cup OpenedEvs \cup ErrorEvs)
                <=> Holds(q, EndedEvs) \/ Holds(q, OpenedEvs) \/ Holds(q, ErrorEvs)
           /\ Holds(q, EndedEvs \cup ErrorEvs)
                <=> Holds(q, EndedEvs) \/ Holds(q, ErrorEvs)
           /\ Holds(q, Enders) <=> Holds(q, Connects) \/ Holds(q, Disconnects)
  BY DEF Holds, Outcomes, SessionEvs, Enders

(* One event of a session, said when those it must not meet are gone, keeps *)
(* the order.                                                               *)
LEMMA SayingKeepsOrder ==
    ASSUME TypeOK, EventOrder, NEW e \in SessionEvs, e \in Event,
           NEW es \in Seq(Event), Emit(es),
           \A A : A \subseteq SessionEvs => Once(es, A) /\ (Holds(es, A) <=> e \in A),
           e \in EndedEvs => ~Holds(events, SessionEvs),
           e \in OpenedEvs \cup ErrorEvs => ~Holds(events, Outcomes),
           e \in MonitoredEvs => ~Holds(events, MonitoredEvs \cup ErrorEvs)
    PROVE  /\ EventOrder'
           /\ \A A : A \subseteq SessionEvs =>
                (Holds(events', A) <=> Holds(events, A) \/ e \in A)
  <1>1. events \in Seq(Event) /\ events' = events \o es
    BY DEF TypeOK, ChannelsTypeOK, Emit
  <1>2. \A A : Holds(events', A) <=> Holds(events, A) \/ Holds(es, A)
    BY <1>1, JoinHolds
  <1>3. /\ e \in OpenedEvs => e \notin MonitoredEvs \cup ErrorEvs \cup EndedEvs
        /\ e \in MonitoredEvs => e \notin ErrorEvs \cup EndedEvs
        /\ e \in ErrorEvs => e \notin EndedEvs
    BY EventClasses
  <1>4. /\ EndedEvs \subseteq SessionEvs /\ OpenedEvs \cup ErrorEvs \subseteq SessionEvs
        /\ MonitoredEvs \cup ErrorEvs \subseteq SessionEvs
        /\ Outcomes \subseteq SessionEvs /\ OpenedEvs \subseteq SessionEvs
        /\ MonitoredEvs \subseteq SessionEvs
    BY DEF SessionEvs, Outcomes
  <1>5. /\ Once(es, EndedEvs) /\ Once(es, OpenedEvs \cup ErrorEvs)
        /\ Once(es, MonitoredEvs \cup ErrorEvs)
        /\ Holds(es, EndedEvs) <=> e \in EndedEvs
        /\ Holds(es, Outcomes) <=> e \in Outcomes
        /\ Holds(es, OpenedEvs) <=> e \in OpenedEvs
        /\ Holds(es, MonitoredEvs) <=> e \in MonitoredEvs
        /\ Holds(es, OpenedEvs \cup ErrorEvs) <=> e \in OpenedEvs \cup ErrorEvs
        /\ Holds(es, MonitoredEvs \cup ErrorEvs) <=> e \in MonitoredEvs \cup ErrorEvs
    BY <1>4
  <1>6. Precedes(es, EndedEvs, Outcomes) /\ Precedes(es, OpenedEvs, MonitoredEvs)
    BY <1>3, <1>5, Absent DEF Outcomes
  <1>7. /\ ~(Holds(events, EndedEvs) /\ Holds(es, EndedEvs))
        /\ ~(Holds(events, OpenedEvs \cup ErrorEvs) /\ Holds(es, OpenedEvs \cup ErrorEvs))
        /\ ~(Holds(events, MonitoredEvs \cup ErrorEvs)
               /\ Holds(es, MonitoredEvs \cup ErrorEvs))
        /\ ~(Holds(events, Outcomes) /\ Holds(es, EndedEvs))
        /\ ~(Holds(events, MonitoredEvs) /\ Holds(es, OpenedEvs))
    BY <1>5, Parts
  <1>8. EventOrder'
    BY <1>1, <1>5, <1>6, <1>7, JoinHolds DEF EventOrder
  <1>9. QED
    BY <1>2, <1>8

\* The classes of events and commands the stages tell apart.
EventsThen(e) ==
    /\ Holds(events', OpenedEvs) <=> Holds(events, OpenedEvs) \/ e \in OpenedEvs
    /\ Holds(events', MonitoredEvs) <=> Holds(events, MonitoredEvs) \/ e \in MonitoredEvs
    /\ Holds(events', ErrorEvs) <=> Holds(events, ErrorEvs) \/ e \in ErrorEvs
    /\ Holds(events', EndedEvs) <=> Holds(events, EndedEvs) \/ e \in EndedEvs

(* One event of a session said on its own.                                  *)
LEMMA SayingOne ==
    ASSUME TypeOK, EventOrder, NEW e \in SessionEvs, e \in Event, Emit(<<e>>),
           e \in EndedEvs => ~Holds(events, SessionEvs),
           e \in OpenedEvs \cup ErrorEvs => ~Holds(events, Outcomes),
           e \in MonitoredEvs => ~Holds(events, MonitoredEvs \cup ErrorEvs)
    PROVE  EventOrder' /\ EventsThen(e)
  <1> DEFINE es == <<e>>
  <1>1. es \in Seq(Event) /\ Emit(es)
    OBVIOUS
  <1>2. \A A : Once(es, A) /\ (Holds(es, A) <=> e \in A)
    BY ShortHolds, ShortOrders
  <1> HIDE DEF es
  <1>3. /\ EventOrder'
        /\ \A A : A \subseteq SessionEvs =>
             (Holds(events', A) <=> Holds(events, A) \/ e \in A)
    BY <1>1, <1>2, SayingKeepsOrder
  <1>4. QED
    BY <1>3 DEF EventsThen, SessionEvs, Outcomes

(* The steps of a session, each of which finds the queues as Stages says.   *)
LEMMA StartConnectKeeps ==
    ASSUME TypeOK, Handshake, StartConnect, UNCHANGED uiVars
    PROVE  Handshake'
  <1>1. /\ Receive("Connect") /\ wpc' = "opening" /\ events' = events /\ pub' = FALSE
        /\ status' = status
    BY DEF StartConnect, Teardown, uiVars, connVars
  <1>2. Head(cmds) \in Connects /\ Head(cmds) \in Enders /\ Head(cmds) \notin Disconnects
    BY <1>1, ReceiveFacts, CommandClasses DEF Enders
  <1>3. CmdOrder' /\ EventOrder'
    BY <1>1, ReceiveFacts DEF Handshake, CmdOrder, EventOrder
  <1>4. /\ ~Holds(cmds', Connects) /\ ~Holds(cmds', Disconnects)
        /\ ~Holds(cmds', SessionCmds)
    BY <1>1, <1>2, ReceiveFacts DEF Handshake, CmdOrder
  <1>5. /\ Holds(cmds, Connects)
        /\ ~Holds(events', Outcomes) /\ status = "ConnectingPublishing"
    BY <1>1, <1>2, ReceiveFacts DEF Handshake, Stages
  <1>6. Stages'
    BY <1>1, <1>4, <1>5, Parts DEF Stages
  <1>7. QED
    BY <1>3, <1>6 DEF Handshake

(* Disconnect ends what is left of a session, and says so.                  *)
LEMMA DisconnectKeeps ==
    ASSUME TypeOK, Handshake, Disconnect, UNCHANGED uiVars
    PROVE  Handshake'
  <1> DEFINE e == Note("Disconnected")
  <1>1. /\ Receive("Disconnect") /\ wpc' = wpc /\ Emit(<<e>>) /\ pub' = FALSE
        /\ status' = status
    BY DEF Disconnect, Teardown, uiVars, connVars
  <1>2. /\ Head(cmds) \in Disconnects /\ Head(cmds) \in Enders /\ Head(cmds) \notin Connects
        /\ wpc = "ready"
    BY <1>1, ReceiveFacts, CommandClasses DEF Enders
  <1>3. CmdOrder'
    BY <1>1, ReceiveFacts DEF Handshake, CmdOrder
  <1>4. /\ ~Holds(cmds', Disconnects) /\ ~Holds(cmds', SessionCmds)
        /\ Holds(cmds', Connects) <=> Holds(cmds, Connects)
    BY <1>1, <1>2, ReceiveFacts DEF Handshake, CmdOrder
  <1>5. /\ Holds(cmds, Disconnects) /\ ~Holds(events, SessionEvs)
        /\ status \notin {"Connected", "ConnectingMonitor"}
    BY <1>1, <1>2, ReceiveFacts DEF Handshake, Stages
  <1>6. /\ e \in Event /\ e \in EndedEvs /\ e \in SessionEvs
        /\ e \notin OpenedEvs /\ e \notin MonitoredEvs /\ e \notin ErrorEvs
    BY EventsAreEvents, EventClasses DEF Note, SessionEvs
  <1>7. EventOrder' /\ EventsThen(e)
    BY <1>1, <1>5, <1>6, SayingOne DEF Handshake
  <1>8. Stages'
    BY <1>1, <1>2, <1>4, <1>5, <1>6, <1>7, Parts DEF Handshake, Stages, EventsThen
  <1>9. QED
    BY <1>3, <1>7, <1>8 DEF Handshake

(* The publishing session opens, or fails to.                               *)
LEMMA OpeningKeeps ==
    ASSUME TypeOK, Handshake, PublishingOpens \/ PublishingFails, UNCHANGED uiVars
    PROVE  Handshake'
  <1>1. /\ wpc = "opening" /\ cmds' = cmds /\ status' = status
        /\ \/ wpc' = "openingMonitor" /\ pub' /\ Emit(<<Note("PublishingConnected")>>)
           \/ wpc' = "ready" /\ pub' = pub /\ Emit(<<Note("ConnectionError")>>)
    BY DEF PublishingOpens, PublishingFails, OpenedEvents, OpenFailedEvents, uiVars, connVars
  <1>2. CmdOrder'
    BY <1>1 DEF Handshake, CmdOrder
  <1>3. /\ ~Holds(events, Outcomes) /\ status = "ConnectingPublishing"
        /\ ~Holds(cmds, Enders)
    BY <1>1 DEF Handshake, Stages
  <1>4. ~Holds(cmds, SessionCmds)
    BY <1>1 DEF Handshake, Stages
  <1>5. CASE Emit(<<Note("PublishingConnected")>>) /\ wpc' = "openingMonitor" /\ pub'
    <2> DEFINE e == Note("PublishingConnected")
    <2>1. /\ e \in Event /\ e \in OpenedEvs /\ e \in SessionEvs
          /\ e \notin EndedEvs /\ e \notin MonitoredEvs /\ e \notin ErrorEvs
      BY EventsAreEvents, EventClasses DEF Note, SessionEvs, Outcomes
    <2>2. EventOrder' /\ EventsThen(e)
      BY <1>3, <1>5, <2>1, SayingOne DEF Handshake
    <2>3. Stages'
      BY <1>1, <1>3, <1>4, <1>5, <2>1, <2>2, Parts DEF Stages, EventsThen
    <2>4. QED
      BY <1>2, <2>2, <2>3 DEF Handshake
  <1>6. CASE Emit(<<Note("ConnectionError")>>) /\ wpc' = "ready" /\ pub' = pub
    <2> DEFINE e == Note("ConnectionError")
    <2>1. /\ e \in Event /\ e \in ErrorEvs /\ e \in SessionEvs
          /\ e \notin EndedEvs /\ e \notin MonitoredEvs /\ e \notin OpenedEvs
      BY EventsAreEvents, EventClasses DEF Note, SessionEvs, Outcomes
    <2>2. EventOrder' /\ EventsThen(e)
      BY <1>3, <1>6, <2>1, SayingOne DEF Handshake
    <2>3. Stages'
      BY <1>1, <1>3, <1>4, <1>6, <2>1, <2>2, Parts DEF Stages, EventsThen
    <2>4. QED
      BY <1>2, <2>2, <2>3 DEF Handshake
  <1>7. QED
    BY <1>1, <1>5, <1>6

(* What MonitorReturns says: its own failure first, then MonitorConnected.   *)
LEMMA MonitorSays ==
    ASSUME NEW outcome
    PROVE  /\ MonitorEvents(outcome) \in Seq(Event)
           /\ \A A : A \subseteq SessionEvs =>
                /\ Once(MonitorEvents(outcome), A)
                /\ Holds(MonitorEvents(outcome), A) <=> Note("MonitorConnected") \in A
           /\ Holds(MonitorEvents(outcome), MonitorFails) <=> outcome # "subscribed"
           /\ Followed(MonitorEvents(outcome), MonitorFails, MonitoredEvs)
  <1> DEFINE f == Failed("Monitor")
             e == Note("MonitorConnected")
  <1>1. f \in Event /\ e \in Event /\ f \notin SessionEvs
        /\ f \in MonitorFails /\ e \notin MonitorFails /\ e \in MonitoredEvs
    BY EventsAreEvents, EventClasses
       DEF FailedOps, Failed, Note, SessionEvs, Outcomes, MonitorFails, MonitoredEvs
  <1>2. CASE outcome = "subscribed"
    <2>1. MonitorEvents(outcome) = <<e>>
      BY <1>2 DEF MonitorEvents
    <2>2. \A A : Once(<<e>>, A) /\ (Holds(<<e>>, A) <=> e \in A)
      BY ShortHolds, ShortOrders
    <2>3. ~Holds(<<e>>, MonitorFails)
      BY <1>1, <2>2
    <2>4. Followed(<<e>>, MonitorFails, MonitoredEvs)
      BY <2>3, Absent
    <2>5. <<e>> \in Seq(Event)
      BY <1>1
    <2>6. QED
      BY <1>2, <2>1, <2>2, <2>3, <2>4, <2>5
  <1>3. CASE outcome # "subscribed"
    <2> DEFINE p == <<f>>
               t == <<e>>
    <2>1. MonitorEvents(outcome) = p \o t
      BY <1>3 DEF MonitorEvents
    <2>2. /\ p \in Seq(Event) /\ t \in Seq(Event)
          /\ Len(p) = 1 /\ p[1] = f /\ Len(t) = 1 /\ t[1] = e
      BY <1>1
    <2>3. /\ \A A : Once(t, A) /\ (Holds(t, A) <=> e \in A)
          /\ \A A : Once(p, A) /\ (Holds(p, A) <=> f \in A)
      BY ShortHolds, ShortOrders
    <2> HIDE DEF p, t
    <2>4. p \o t \in Seq(Event)
      BY <2>2
    <2>5. \A A : Holds(p \o t, A) <=> f \in A \/ e \in A
      BY <2>2, <2>3, JoinHolds
    <2>6. ASSUME NEW A, A \subseteq SessionEvs
          PROVE  Once(p \o t, A) /\ (Holds(p \o t, A) <=> e \in A)
      <3>1. ~Holds(p, A)
        BY <1>1, <2>3, <2>6
      <3>2. QED
        BY <2>2, <2>3, <3>1, JoinHolds
    <2>7. Holds(p \o t, MonitorFails)
      BY <1>1, <2>5
    <2>8. Followed(p \o t, MonitorFails, MonitoredEvs)
      <3>1. /\ DOMAIN (p \o t) = 1 .. 2
            /\ (p \o t)[1 + 1] = e
        BY <2>2, JoinIndex
      <3>2. DOMAIN (p \o t) = {1, 2} /\ (p \o t)[2] = e /\ (p \o t)[1] = f
        BY <2>2, <3>1, JoinIndex
      <3>3. QED
        BY <1>1, <3>2 DEF Followed
    <2>9. QED
      BY <1>3, <2>1, <2>4, <2>6, <2>7, <2>8
  <1>4. QED
    BY <1>2, <1>3

(* The monitor's turn is over.                                              *)
LEMMA MonitorReturnsKeeps ==
    ASSUME TypeOK, Handshake, MonitorReturns, UNCHANGED uiVars
    PROVE  Handshake' /\ EventsThen(Note("MonitorConnected"))
  <1> DEFINE e == Note("MonitorConnected")
  <1>1. /\ wpc = "openingMonitor" /\ wpc' = "ready" /\ cmds' = cmds /\ status' = status
        /\ pub' = pub
    BY DEF MonitorReturns, uiVars, connVars
  <1>2. PICK outcome \in {"none", "session", "subscribed"} : Emit(MonitorEvents(outcome))
    BY DEF MonitorReturns
  <1>3. CmdOrder'
    BY <1>1 DEF Handshake, CmdOrder
  <1>4. ~Holds(events, MonitoredEvs \cup ErrorEvs) /\ pub
    BY <1>1 DEF Handshake, Stages
  <1>5. /\ e \in Event /\ e \in MonitoredEvs /\ e \in SessionEvs
        /\ e \notin EndedEvs /\ e \notin ErrorEvs /\ e \notin OpenedEvs
    BY EventsAreEvents, EventClasses DEF Note, SessionEvs, Outcomes
  <1>6. EventOrder' /\ EventsThen(e)
    <2>1. /\ EventOrder'
          /\ \A A : A \subseteq SessionEvs =>
               (Holds(events', A) <=> Holds(events, A) \/ e \in A)
      BY <1>2, <1>4, <1>5, SayingKeepsOrder, MonitorSays DEF Handshake
    <2>2. QED
      BY <2>1 DEF EventsThen, SessionEvs, Outcomes
  <1>7. Stages'
    BY <1>1, <1>4, <1>5, <1>6, Parts DEF Handshake, Stages, EventsThen
  <1>8. QED
    BY <1>3, <1>6, <1>7 DEF Handshake

(* The two clicks that open and end a session.                              *)
LEMMA ClickConnectKeeps ==
    ASSUME TypeOK, Handshake, ClickConnect, UNCHANGED workerVars
    PROVE  Handshake'
  <1>1. /\ status \in {"Disconnected", "Error"} /\ events' = events
        /\ wpc' = wpc /\ pub' = pub
        /\ \/ cmds' = cmds /\ status' = "Error"
           \/ cmds' = cmds \o <<Plainly("Connect")>> /\ status' = "ConnectingPublishing"
    BY DEF ClickConnect, Post, workerVars, sessVars, TypeOK, ChannelsTypeOK
  <1>2. EventOrder'
    BY <1>1 DEF Handshake, EventOrder
  <1>3. CASE cmds' = cmds /\ status' = "Error"
    BY <1>1, <1>2, <1>3 DEF Handshake, CmdOrder, Stages
  <1>4. CASE cmds' = cmds \o <<Plainly("Connect")>> /\ status' = "ConnectingPublishing"
    <2> DEFINE c == Plainly("Connect")
    <2>1. /\ cmds \in Seq(Command) /\ <<c>> \in Seq(Command)
          /\ c \in Connects /\ c \notin Disconnects /\ c \notin SessionCmds
      BY CommandsAreCommands DEF TypeOK, ChannelsTypeOK, Connects, Disconnects,
         SessionCmds, Plainly
    <2>2. ~Holds(cmds, Connects) /\ ~Holds(events, Outcomes) /\ wpc = "ready"
      BY <1>1, Parts DEF Handshake, Stages, TypeOK, WorkerTypeOK
    <2>3. \A A : Holds(cmds', A) <=> Holds(cmds, A) \/ c \in A
      <3>1. \A A : Holds(<<c>>, A) <=> c \in A
        BY ShortHolds
      <3>2. QED
        BY <1>4, <2>1, <3>1, JoinHolds
    <2>4. /\ ~Holds(<<c>>, Disconnects) /\ ~Holds(<<c>>, SessionCmds)
          /\ \A A : Once(<<c>>, A)
      BY <2>1, ShortHolds, ShortOrders
    <2>5. CmdOrder'
      BY <1>4, <2>1, <2>2, <2>4, JoinHolds, Absent DEF Handshake, CmdOrder
    <2>6. Stages'
      BY <1>1, <1>4, <2>1, <2>2, <2>3, Parts DEF Handshake, Stages
    <2>7. QED
      BY <1>2, <2>5, <2>6 DEF Handshake
  <1>5. QED
    BY <1>1, <1>3, <1>4

(* Disconnect is posted when nothing of a session's start is left.          *)
LEMMA ClickDisconnectKeeps ==
    ASSUME TypeOK, Handshake, ClickDisconnect, UNCHANGED workerVars
    PROVE  Handshake'
  <1>1. /\ status = "Connected" /\ status' = "Disconnected" /\ events' = events
        /\ wpc' = wpc /\ pub' = pub
        /\ cmds' = cmds \/ cmds' = cmds \o <<Plainly("Disconnect")>>
    BY DEF ClickDisconnect, DisconnectEnabled, Post, workerVars, sessVars, TypeOK,
           ChannelsTypeOK
  <1>2. EventOrder'
    BY <1>1 DEF Handshake, EventOrder
  <1>3. /\ ~Holds(cmds, Connects) /\ ~Holds(cmds, Disconnects)
        /\ ~Holds(events, SessionEvs) /\ wpc = "ready" /\ pub
    BY <1>1, Parts DEF Handshake, Stages
  <1>4. CASE cmds' = cmds
    BY <1>1, <1>2, <1>3, <1>4, Parts DEF Handshake, CmdOrder, Stages
  <1>5. CASE cmds' = cmds \o <<Plainly("Disconnect")>>
    <2> DEFINE c == Plainly("Disconnect")
    <2>1. /\ cmds \in Seq(Command) /\ <<c>> \in Seq(Command)
          /\ c \in Disconnects /\ c \notin Connects /\ c \notin SessionCmds
      BY CommandsAreCommands DEF TypeOK, ChannelsTypeOK, Connects, Disconnects,
         SessionCmds, Plainly
    <2>2. \A A : Holds(cmds', A) <=> Holds(cmds, A) \/ c \in A
      <3>1. \A A : Holds(<<c>>, A) <=> c \in A
        BY ShortHolds
      <3>2. QED
        BY <1>5, <2>1, <3>1, JoinHolds
    <2>3. /\ ~Holds(<<c>>, Connects) /\ ~Holds(<<c>>, SessionCmds)
          /\ \A A : Once(<<c>>, A)
      BY <2>1, ShortHolds, ShortOrders
    <2>4. CmdOrder'
      BY <1>3, <1>5, <2>1, <2>3, JoinHolds, Absent DEF Handshake, CmdOrder
    <2>5. Stages'
      BY <1>1, <1>3, <2>1, <2>2, Parts DEF Handshake, Stages
    <2>6. QED
      BY <1>2, <2>4, <2>5 DEF Handshake
  <1>6. QED
    BY <1>1, <1>4, <1>5

(* The four events that move the status.                                    *)
LEMMA SessionEventsKeep ==
    ASSUME TypeOK, Handshake, UNCHANGED workerVars,
           \/ OnPublishingConnected \/ OnMonitorConnected
           \/ OnDisconnected \/ OnConnectionError
    PROVE  Handshake'
  <1>1. UNCHANGED <<cmds, wpc, pub>>
    BY DEF OnPublishingConnected, OnMonitorConnected, OnDisconnected, OnConnectionError,
           Process, workerVars, sessVars
  <1>2. CmdOrder'
    BY <1>1 DEF Handshake, CmdOrder
  <1>3. ASSUME NEW type, Process(type)
        PROVE  /\ EventOrder'
               /\ \A A : Holds(events, A) <=> Head(events) \in A \/ Holds(events', A)
    BY <1>3, ProcessFacts DEF Handshake, EventOrder
  <1>4. CASE OnPublishingConnected
    <2>1. Process("PublishingConnected") /\ status' = "ConnectingMonitor"
      BY <1>4 DEF OnPublishingConnected
    <2>2. /\ Head(events) \in OpenedEvs /\ Head(events) \in OpenedEvs \cup ErrorEvs
          /\ Head(events) \in Outcomes
          /\ Head(events) \notin MonitoredEvs /\ Head(events) \notin EndedEvs
          /\ Head(events) \notin ErrorEvs
      BY <2>1, ProcessFacts, EventClasses DEF Outcomes
    <2>3. ~Holds(events', OpenedEvs \cup ErrorEvs) /\ ~Holds(events, EndedEvs)
      BY <2>1, <2>2, ProcessFacts DEF Handshake, EventOrder
    <2>4. Stages'
      BY <1>1, <1>3, <2>1, <2>2, <2>3, Parts DEF Handshake, Stages
    <2>5. QED
      BY <1>2, <1>3, <2>1, <2>4 DEF Handshake
  <1>5. CASE OnMonitorConnected
    <2>1. Process("MonitorConnected") /\ status' = "Connected"
      BY <1>5 DEF OnMonitorConnected
    <2>2. /\ Head(events) \in MonitoredEvs /\ Head(events) \in MonitoredEvs \cup ErrorEvs
          /\ Head(events) \in Outcomes
          /\ Head(events) \notin OpenedEvs /\ Head(events) \notin EndedEvs
          /\ Head(events) \notin ErrorEvs
      BY <2>1, ProcessFacts, EventClasses DEF Outcomes
    <2>3. /\ ~Holds(events', MonitoredEvs \cup ErrorEvs) /\ ~Holds(events, EndedEvs)
          /\ ~Holds(events, OpenedEvs)
      BY <2>1, <2>2, ProcessFacts DEF Handshake, EventOrder
    <2>4. Stages'
      BY <1>1, <1>3, <2>1, <2>2, <2>3, Parts DEF Handshake, Stages
    <2>5. QED
      BY <1>2, <1>3, <2>1, <2>4 DEF Handshake
  <1>6. CASE OnDisconnected
    <2>1. /\ Process("Disconnected")
          /\ status' = IF status \in Connecting THEN status ELSE "Disconnected"
      BY <1>6 DEF OnDisconnected, KeepsStatus
    <2>2. /\ Head(events) \in EndedEvs /\ Head(events) \notin OpenedEvs
          /\ Head(events) \notin MonitoredEvs /\ Head(events) \notin ErrorEvs
      BY <2>1, ProcessFacts, EventClasses
    <2>3. ~Holds(events', EndedEvs)
      BY <2>1, <2>2, ProcessFacts DEF Handshake, EventOrder
    <2>4. Stages'
      BY <1>1, <1>3, <2>1, <2>2, <2>3, Parts DEF Handshake, Stages, Connecting
    <2>5. QED
      BY <1>2, <1>3, <2>1, <2>4 DEF Handshake
  <1>7. CASE OnConnectionError
    <2>1. Process("ConnectionError") /\ status' = "Error"
      BY <1>7 DEF OnConnectionError
    <2>2. /\ Head(events) \in ErrorEvs /\ Head(events) \in OpenedEvs \cup ErrorEvs
          /\ Head(events) \in MonitoredEvs \cup ErrorEvs
          /\ Head(events) \notin EndedEvs
      BY <2>1, ProcessFacts, EventClasses
    <2>3. /\ ~Holds(events', OpenedEvs \cup ErrorEvs)
          /\ ~Holds(events', MonitoredEvs \cup ErrorEvs)
      BY <2>1, <2>2, ProcessFacts DEF Handshake, EventOrder
    <2>4. Stages'
      BY <1>1, <1>3, <2>1, <2>2, <2>3, Parts DEF Handshake, Stages
    <2>5. QED
      BY <1>2, <1>3, <2>1, <2>4 DEF Handshake
  <1>8. QED
    BY <1>4, <1>5, <1>6, <1>7

(* Editing the form after an error.                                         *)
LEMMA EditFormKeeps ==
    ASSUME Handshake, EditForm, UNCHANGED workerVars
    PROVE  Handshake'
  <1>1. /\ UNCHANGED <<cmds, events, wpc, pub>>
        /\ status = "Error" /\ status' = "Disconnected"
    BY DEF EditForm, chanVars, workerVars, sessVars
  <1>2. QED
    BY <1>1 DEF Handshake, CmdOrder, EventOrder, Stages

(* Next is a side step or one of the steps above.                           *)
SessionStep ==
    \/ (StartConnect \/ Disconnect \/ PublishingOpens \/ PublishingFails \/ MonitorReturns)
         /\ UNCHANGED uiVars
    \/ (ClickConnect \/ ClickDisconnect \/ EditForm \/ OnPublishingConnected
          \/ OnMonitorConnected \/ OnDisconnected \/ OnConnectionError)
         /\ UNCHANGED workerVars

(* Every step is aside of sessions or one of the above.                     *)
LEMMA NextIsSideOrSession ==
    ASSUME [Next]_vars
    PROVE  \/ SessionStep
           \/ SideStep /\ UNCHANGED uiVars
           \/ (SideClick \/ SideEvent) /\ UNCHANGED workerVars
           \/ UNCHANGED vars
  BY Zenon, NextSplits DEF LoopStep, ProcessEvent, SessionStep, SideStep, SideClick, SideEvent

(* The handshake holds at the start,                                        *)
LEMMA HandshakeStart == Init => Handshake
  <1> SUFFICES ASSUME Init PROVE Handshake
    OBVIOUS
  <1>1. cmds = <<>> /\ events = <<>> /\ wpc = "ready" /\ status = "Disconnected"
    BY DEF Init, ChannelsInit, WorkerInit, UiInit
  <1>2. \A A : ~Holds(cmds, A) /\ ~Holds(events, A)
    BY <1>1, ShortHolds
  <1>3. QED
    BY <1>1, <1>2, Absent DEF Handshake, CmdOrder, EventOrder, Stages

(* and every step keeps it.                                                 *)
LEMMA HandshakeKeeps == TypeOK /\ Handshake /\ [Next]_vars => Handshake'
  <1> SUFFICES ASSUME TypeOK, Handshake, [Next]_vars PROVE Handshake'
    OBVIOUS
  <1>1. CASE SessionStep
    BY <1>1, StartConnectKeeps, DisconnectKeeps, OpeningKeeps, MonitorReturnsKeeps,
       ClickConnectKeeps, ClickDisconnectKeeps, SessionEventsKeep, EditFormKeeps
       DEF SessionStep
  <1>2. CASE UNCHANGED vars
    BY <1>2 DEF vars, chanVars, workerVars, sessVars, uiVars, connVars, Handshake,
       CmdOrder, EventOrder, Stages
  <1>3. QED
    BY <1>1, <1>2, NextIsSideOrSession, SideKeepsHandshake

-----------------------------------------------------------------------------
(* The monitor flag.                                                        *)
LEMMA SideKeepsMonitor ==
    ASSUME TypeOK, Handshake, MonitorReported,
           \/ SideStep /\ UNCHANGED uiVars
           \/ (SideClick \/ SideEvent) /\ UNCHANGED workerVars
    PROVE  MonitorReported'
  <1>0. events \in Seq(Event)
    BY DEF TypeOK, ChannelsTypeOK
  <1>1. CASE SideStep /\ UNCHANGED uiVars
    <2>1. PICK es \in Seq(Talk) : events' = events \o es
      BY <1>1, SideTalks DEF Talks
    <2>2. es \in Seq(Event) /\ ~Holds(es, SessionEvs) /\ ~Holds(es, MonitorFails)
      BY TalkSaysNothing
    <2>3. ~Holds(es, OpenedEvs) /\ ~Holds(es, MonitoredEvs)
      BY <2>2, Parts
    <2>4. \A A : Holds(events', A) <=> Holds(events, A) \/ Holds(es, A)
      BY <1>0, <2>1, <2>2, JoinHolds
    <2>5. Followed(es, MonitorFails, MonitoredEvs) /\ Precedes(es, OpenedEvs, MonitorFails)
      BY <2>2, Absent
    <2>6. /\ Followed(events', MonitorFails, MonitoredEvs)
          /\ Precedes(events', OpenedEvs, MonitorFails)
      BY <1>0, <2>1, <2>2, <2>3, <2>5, JoinHolds DEF MonitorReported
    <2>7. UNCHANGED <<monitor, status, monitorOk>>
      BY <1>1, SideTalks DEF uiVars, connVars
    <2>8. QED
      BY <2>2, <2>3, <2>4, <2>6, <2>7 DEF MonitorReported
  <1>2. CASE SideClick /\ UNCHANGED workerVars
    BY <1>2, ClicksAside DEF MonitorReported, workerVars, sessVars
  <1>3. CASE SideEvent /\ UNCHANGED workerVars
    <2>1. /\ events # <<>> /\ events' = Tail(events) /\ status' = status
          /\ Head(events) \in Event /\ Head(events) \notin SessionEvs
          /\ monitor' = monitor
      BY <1>3, SideEventsAside DEF workerVars, sessVars
    <2>2. \A A : Holds(events, A) <=> Head(events) \in A \/ Holds(events', A)
      BY <1>0, <2>1, TailHolds
    <2>3. /\ Followed(events', MonitorFails, MonitoredEvs)
          /\ Precedes(events', OpenedEvs, MonitorFails)
          /\ Head(events) \in MonitorFails => ~Holds(events, OpenedEvs)
      BY <1>0, <2>1, TailOrders DEF MonitorReported
    <2>4. /\ Holds(events', OpenedEvs) <=> Holds(events, OpenedEvs)
          /\ Holds(events', MonitoredEvs) <=> Holds(events, MonitoredEvs)
      BY <2>1, <2>2 DEF SessionEvs, Outcomes
    <2>5. monitorOk' = (monitorOk /\ Head(events) \notin MonitorFails)
      <3>1. \A type : Process(type) => Head(events).type = type
        BY DEF Process
      <3>2. CASE OnOperationFailed
        <4>1. /\ Head(events).type = "OperationFailed"
              /\ monitorOk' = (monitorOk /\ Head(events).failed # "Monitor")
          BY <3>1, <3>2 DEF OnOperationFailed
        <4>2. Head(events).failed = "Monitor" <=> Head(events) \in MonitorFails
          BY <2>1, <4>1 DEF Event, MonitorFails, Failed
        <4>3. QED
          BY <4>1, <4>2
      <3>3. CASE ~OnOperationFailed
        <4>1. Head(events).type # "OperationFailed" /\ monitorOk' = monitorOk
          BY <1>3, <3>1, <3>3
             DEF SideEvent, OnDiscoveryUpdate, OnSubscriptionCreated,
                 OnSubscriptionRemoved, OnPublished, OnQueryReply, OnQueryNoResponses,
                 OnPong, connVars
        <4>2. Head(events) \notin MonitorFails
          BY <4>1 DEF MonitorFails, Failed
        <4>3. monitorOk \in BOOLEAN
          BY DEF TypeOK, UiTypeOK
        <4>4. QED
          BY <4>1, <4>2, <4>3
      <3>4. QED
        BY <3>2, <3>3
    <2>6. Holds(events, MonitorFails) => Holds(events, MonitoredEvs)
      BY FollowedHolds DEF MonitorReported
    <2>7. status = "Connected" => ~Holds(events, MonitoredEvs)
      BY Parts DEF Handshake, Stages
    <2>8. QED
      BY <2>1, <2>2, <2>3, <2>4, <2>5, <2>6, <2>7 DEF MonitorReported
  <1>4. QED
    BY <1>1, <1>2, <1>3

(* A step of a session: each session's flag starts true, and its failure    *)
(* comes before its MonitorConnected.                                       *)
LEMMA SessionKeepsMonitor ==
    ASSUME TypeOK, Handshake, MonitorReported, SessionStep
    PROVE  MonitorReported'
  <1>0. events \in Seq(Event)
    BY DEF TypeOK, ChannelsTypeOK
  <1>f. Holds(events, MonitorFails) => Holds(events, MonitoredEvs)
    BY FollowedHolds DEF MonitorReported
  <1>s. ASSUME NEW e \in Event, Emit(<<e>>), e \notin MonitorFails,
               e \in OpenedEvs => ~Holds(events, MonitorFails)
        PROVE  /\ Followed(events', MonitorFails, MonitoredEvs)
               /\ Precedes(events', OpenedEvs, MonitorFails)
               /\ \A A : Holds(events', A) <=> Holds(events, A) \/ e \in A
    <2> DEFINE es == <<e>>
    <2>1. es \in Seq(Event) /\ events' = events \o es
      BY <1>s DEF Emit
    <2>2. \A A : Holds(es, A) <=> e \in A
      BY ShortHolds
    <2> HIDE DEF es
    <2>3. ~Holds(es, MonitorFails)
      BY <1>s, <2>2
    <2>4. Followed(es, MonitorFails, MonitoredEvs) /\ Precedes(es, OpenedEvs, MonitorFails)
      BY <2>3, Absent
    <2>5. QED
      BY <1>0, <1>s, <2>1, <2>2, <2>3, <2>4, JoinHolds DEF MonitorReported
  <1>t. ASSUME NEW type, Process(type)
        PROVE  /\ Followed(events', MonitorFails, MonitoredEvs)
               /\ Precedes(events', OpenedEvs, MonitorFails)
               /\ \A A : Holds(events, A) <=> Head(events) \in A \/ Holds(events', A)
    BY <1>0, <1>t, TailHolds, TailOrders DEF MonitorReported, Process
  <1>n. /\ Note("Disconnected") \in Event /\ Note("Disconnected") \notin MonitorFails
        /\ Note("Disconnected") \notin OpenedEvs
        /\ Note("ConnectionError") \in Event /\ Note("ConnectionError") \notin MonitorFails
        /\ Note("ConnectionError") \notin OpenedEvs
        /\ Note("PublishingConnected") \in Event
        /\ Note("PublishingConnected") \notin MonitorFails
        /\ Note("PublishingConnected") \notin MonitoredEvs
        /\ Note("ConnectionError") \notin MonitoredEvs
        /\ Note("Disconnected") \notin MonitoredEvs
    BY EventsAreEvents DEF Note, Failed, MonitorFails, OpenedEvs, MonitoredEvs
  <1>1. CASE StartConnect /\ UNCHANGED uiVars
    <2>1. /\ events' = events /\ status' = status /\ Receive("Connect")
          /\ monitorOk' = monitorOk
      BY <1>1 DEF StartConnect, uiVars, connVars
    <2>2. Holds(cmds, Connects)
      BY <2>1, ReceiveFacts, CommandClasses
    <2>3. ~Holds(events, OpenedEvs) /\ status = "ConnectingPublishing"
      BY <2>2, Parts DEF Handshake, Stages
    <2>4. QED
      BY <2>1, <2>3 DEF MonitorReported
  <1>2. CASE Disconnect /\ UNCHANGED uiVars
    <2>1. /\ Emit(<<Note("Disconnected")>>) /\ status' = status /\ Receive("Disconnect")
      BY <1>2 DEF Disconnect, uiVars, connVars
    <2>2. Holds(cmds, Disconnects)
      BY <2>1, ReceiveFacts, CommandClasses
    <2>3. ~Holds(events, OpenedEvs) /\ status \notin {"Connected", "ConnectingMonitor"}
      BY <2>2, Parts DEF Handshake, Stages
    <2>4. QED
      BY <1>n, <1>s, <2>1, <2>3 DEF MonitorReported
  <1>3. CASE (PublishingOpens \/ PublishingFails) /\ UNCHANGED uiVars
    <2>1. /\ wpc = "opening" /\ status' = status /\ monitor' = monitor
          /\ \/ Emit(<<Note("PublishingConnected")>>)
             \/ Emit(<<Note("ConnectionError")>>)
      BY <1>3 DEF PublishingOpens, PublishingFails, OpenedEvents, OpenFailedEvents,
         uiVars, connVars
    <2>2. ~Holds(events, MonitoredEvs) /\ status = "ConnectingPublishing"
      BY <2>1, Parts DEF Handshake, Stages
    <2>3. QED
      BY <1>f, <1>n, <1>s, <2>1, <2>2 DEF MonitorReported
  <1>4. CASE MonitorReturns /\ UNCHANGED uiVars
    <2>1. PICK outcome \in {"none", "session", "subscribed"} :
             monitor' = outcome /\ Emit(MonitorEvents(outcome))
      BY <1>4 DEF MonitorReturns
    <2> DEFINE es == MonitorEvents(outcome)
    <2>2. /\ es \in Seq(Event)
          /\ Holds(es, MonitorFails) <=> outcome # "subscribed"
          /\ Followed(es, MonitorFails, MonitoredEvs)
          /\ Holds(es, MonitoredEvs) /\ ~Holds(es, OpenedEvs)
      <3>1. Note("MonitorConnected") \in MonitoredEvs
            /\ Note("MonitorConnected") \notin OpenedEvs
        BY DEF MonitoredEvs, OpenedEvs, Note
      <3>2. QED
        BY <3>1, MonitorSays DEF SessionEvs, Outcomes
    <2>3. events' = events \o es
      BY <2>1 DEF Emit
    <2> HIDE DEF es
    <2>4. \A A : Holds(events', A) <=> Holds(events, A) \/ Holds(es, A)
      BY <1>0, <2>2, <2>3, JoinHolds
    <2>5. Precedes(es, OpenedEvs, MonitorFails)
      BY <2>2, Absent
    <2>6. /\ Followed(events', MonitorFails, MonitoredEvs)
          /\ Precedes(events', OpenedEvs, MonitorFails)
      BY <1>0, <2>2, <2>3, <2>5, JoinHolds DEF MonitorReported
    <2>7. /\ wpc = "openingMonitor" /\ UNCHANGED <<status, monitorOk>>
          /\ status # "Connected" /\ ~Holds(events, MonitoredEvs)
      BY <1>4, Parts DEF MonitorReturns, uiVars, connVars, Handshake, Stages
    <2>8. QED
      BY <1>f, <2>1, <2>2, <2>4, <2>6, <2>7 DEF MonitorReported
  <1>5. CASE (ClickConnect \/ ClickDisconnect \/ EditForm) /\ UNCHANGED workerVars
    <2>1. /\ UNCHANGED <<events, monitor, monitorOk>>
          /\ status' \notin {"Connected", "ConnectingMonitor"}
      BY <1>5 DEF ClickConnect, ClickDisconnect, EditForm, chanVars, workerVars, sessVars
    <2>2. QED
      BY <2>1 DEF MonitorReported
  <1>6. CASE OnPublishingConnected /\ UNCHANGED workerVars
    <2>1. /\ Process("PublishingConnected") /\ status' = "ConnectingMonitor"
          /\ monitorOk' = TRUE /\ monitor' = monitor
      BY <1>6 DEF OnPublishingConnected, MonitorOkOnConnect, workerVars, sessVars
    <2>2. /\ Head(events) \in OpenedEvs /\ Head(events) \notin MonitoredEvs
          /\ Head(events) \notin MonitorFails
      BY <2>1, ProcessFacts, EventClasses DEF MonitorFails, Failed
    <2>3. ~Holds(events', OpenedEvs)
      <3>1. ~Holds(events', OpenedEvs \cup ErrorEvs)
        BY <2>1, <2>2, ProcessFacts DEF Handshake, EventOrder
      <3>2. QED
        BY <3>1, Parts
    <2>4. QED
      BY <1>t, <2>1, <2>2, <2>3 DEF MonitorReported
  <1>7. CASE OnMonitorConnected /\ UNCHANGED workerVars
    <2>1. /\ Process("MonitorConnected") /\ status' = "Connected"
          /\ monitorOk' = monitorOk /\ monitor' = monitor
      BY <1>7 DEF OnMonitorConnected, workerVars, sessVars
    <2>2. /\ Head(events) \in MonitoredEvs /\ Head(events) \in MonitoredEvs \cup ErrorEvs
          /\ Head(events) \notin MonitorFails
      BY <2>1, ProcessFacts, EventClasses DEF MonitorFails, Failed
    <2>3. /\ ~Holds(events', MonitoredEvs \cup ErrorEvs) /\ ~Holds(events, OpenedEvs)
          /\ Holds(events, MonitoredEvs)
      BY <2>1, <2>2, ProcessFacts DEF Handshake, EventOrder
    <2>4. ~Holds(events', MonitorFails)
      BY <1>t, <2>1, <2>3, FollowedHolds, Parts
    <2>5. status = "ConnectingMonitor"
      BY <2>3 DEF Handshake, Stages
    <2>6. ~Holds(events, MonitorFails) /\ ~Holds(events', OpenedEvs)
      BY <1>t, <2>1, <2>2, <2>3, <2>4
    <2>7. QED
      BY <1>t, <2>1, <2>3, <2>5, <2>6 DEF MonitorReported
  <1>8. CASE (OnDisconnected \/ OnConnectionError) /\ UNCHANGED workerVars
    <2>1. /\ Process("Disconnected") \/ Process("ConnectionError")
          /\ UNCHANGED <<monitor, monitorOk>>
          /\ \/ Process("Disconnected") /\ status' \in {status, "Disconnected"}
             \/ status' = "Error"
      BY <1>8 DEF OnDisconnected, OnConnectionError, KeepsStatus, workerVars, sessVars
    <2>2. /\ Head(events) \notin OpenedEvs /\ Head(events) \notin MonitoredEvs
          /\ Head(events) \notin MonitorFails
          /\ Process("Disconnected") => Head(events) \in EndedEvs
      BY <2>1, ProcessFacts, EventClasses DEF MonitorFails, Failed
    <2>3. Process("Disconnected") => status \notin {"Connected", "ConnectingMonitor"}
      BY <1>t, <2>2 DEF Handshake, Stages
    <2>4. QED
      BY <1>t, <2>1, <2>2, <2>3 DEF MonitorReported
  <1>9. QED
    BY <1>1, <1>2, <1>3, <1>4, <1>5, <1>6, <1>7, <1>8 DEF SessionStep

(* The monitor's report holds at the start,                                 *)
LEMMA MonitorStart == Init => MonitorReported
  <1> SUFFICES ASSUME Init PROVE MonitorReported
    OBVIOUS
  <1>1. events = <<>> /\ status = "Disconnected"
    BY DEF Init, ChannelsInit, UiInit
  <1>2. \A A : ~Holds(events, A)
    BY <1>1, ShortHolds
  <1>3. QED
    BY <1>1, <1>2, Absent DEF MonitorReported

(* and every step keeps it.                                                 *)
LEMMA MonitorKeeps ==
    TypeOK /\ Handshake /\ MonitorReported /\ [Next]_vars => MonitorReported'
  <1> SUFFICES ASSUME TypeOK, Handshake, MonitorReported, [Next]_vars
               PROVE  MonitorReported'
    OBVIOUS
  <1>1. CASE UNCHANGED vars
    BY <1>1 DEF vars, chanVars, workerVars, sessVars, uiVars, connVars, MonitorReported
  <1>2. QED
    BY <1>1, NextIsSideOrSession, SideKeepsMonitor, SessionKeepsMonitor

-----------------------------------------------------------------------------
(* Answers.                                                                 *)

(* A queue of the worker's loop and what it says in one step: nothing       *)
(* received, one command received, or the end of the thread.                *)
Took == workerAlive' /\ cmds # <<>> /\ cmds' = Tail(cmds)
Said == \E es \in Seq(Event) : events' = events \o es

(* A step of the worker receives at most one command and only adds events.  *)
LEMMA WorkerMoves ==
    ASSUME TypeOK, LoopStep \/ TaskNext \/ Dies
    PROVE  /\ workerAlive
           /\ Said
           /\ \/ cmds' = cmds /\ workerAlive' = workerAlive
              \/ Took
              \/ Dies
  <1>0. events \in Seq(Event)
    BY DEF TypeOK, ChannelsTypeOK
  <1>s. ASSUME NEW e \in Event, Emit(<<e>>)
        PROVE  Said
    <2>1. <<e>> \in Seq(Event)
      OBVIOUS
    <2>2. QED
      BY <1>s, <2>1 DEF Emit, Said
  <1>1. CASE SideStep
    <2>1. Said
      BY <1>1, SideTalks, TalkSaysNothing DEF Talks, Said
    <2>2. workerAlive /\ (Dies \/ workerAlive' = workerAlive)
      BY <1>1
         DEF SideStep, Subscribe, Unsubscribe, Redeclare, Publish, Query, EnableQueryable,
             DisableQueryable, Ping, Receive, Idle, TaskNext, QueryableDeclared,
             ReplySample, ReplyError, RepliesEnd, TaskStep, DiscoveryTick,
             AbortedTaskEnds, Dies
    <2>3. Dies \/ cmds' = cmds \/ Took
      BY <1>1, <2>2
         DEF SideStep, Subscribe, Unsubscribe, Redeclare, Publish, Query, EnableQueryable,
             DisableQueryable, Ping, Receive, Idle, TaskNext, QueryableDeclared,
             ReplySample, ReplyError, RepliesEnd, TaskStep, DiscoveryTick,
             AbortedTaskEnds, Took
    <2>4. QED
      BY <2>1, <2>2, <2>3
  <1>2. CASE StartConnect
    <2>1. events' = events \o <<>> /\ <<>> \in Seq(Event)
      BY <1>0, <1>2 DEF StartConnect
    <2>2. QED
      BY <1>2, <2>1 DEF StartConnect, Receive, Idle, Took, Said
  <1>3. CASE Disconnect
    <2>1. Said
      BY <1>3, <1>s, EventsAreEvents DEF Disconnect
    <2>2. QED
      BY <1>3, <2>1 DEF Disconnect, Receive, Idle, Took
  <1>4. CASE PublishingOpens \/ PublishingFails
    <2>1. Said
      BY <1>4, <1>s, EventsAreEvents
         DEF PublishingOpens, PublishingFails, OpenedEvents, OpenFailedEvents
    <2>2. QED
      BY <1>4, <2>1 DEF PublishingOpens, PublishingFails
  <1>5. CASE MonitorReturns
    <2>1. Said
      BY <1>5, MonitorSays DEF MonitorReturns, Emit, Said
    <2>2. QED
      BY <1>5, <2>1 DEF MonitorReturns
  <1>6. QED
    BY <1>1, <1>2, <1>3, <1>4, <1>5 DEF LoopStep, SideStep

(* The command received says whose handler ran.                             *)
LEMMA TookMeans ==
    ASSUME TypeOK, LoopStep \/ TaskNext \/ Dies, Took
    PROVE  /\ Head(cmds) \in Command
           /\ Head(cmds).op = "Connect" => StartConnect
           /\ Head(cmds).op = "Disconnect" => Disconnect
           /\ Head(cmds).op = "Subscribe" => Subscribe
           /\ Head(cmds).op = "Publish" => Publish
           /\ Head(cmds).op = "Query" => Query
           /\ Head(cmds).op = "EnableQueryable" => EnableQueryable
           /\ Head(cmds).op = "DisableQueryable" => DisableQueryable
           /\ Head(cmds).op \in {"Ping", "Unsubscribe"} => Ping \/ Unsubscribe
  <1>1. cmds \in Seq(Command) /\ cmds # <<>> /\ Head(cmds) \in Command
    BY HeadTail DEF Took, TypeOK, ChannelsTypeOK
  <1>2. cmds' # cmds
    <2>1. Len(Tail(cmds)) # Len(cmds)
      BY <1>1
    <2>2. QED
      BY <2>1 DEF Took
  <1>3. ~Dies
    BY DEF Took, Dies
  <1>4. ~TaskNext
    BY <1>2 DEF TaskNext, QueryableDeclared, ReplySample, ReplyError, RepliesEnd, TaskStep,
       DiscoveryTick, AbortedTaskEnds
  <1>5. /\ ~PublishingOpens /\ ~PublishingFails /\ ~MonitorReturns
        /\ ~ \E s \in redeclaring : Redeclare(s)
    BY <1>2 DEF PublishingOpens, PublishingFails, MonitorReturns, Redeclare
  <1>6. /\ StartConnect => Head(cmds).op = "Connect"
        /\ Disconnect => Head(cmds).op = "Disconnect"
        /\ Subscribe => Head(cmds).op = "Subscribe"
        /\ Unsubscribe => Head(cmds).op = "Unsubscribe"
        /\ Publish => Head(cmds).op = "Publish"
        /\ Query => Head(cmds).op = "Query"
        /\ EnableQueryable => Head(cmds).op = "EnableQueryable"
        /\ DisableQueryable => Head(cmds).op = "DisableQueryable"
        /\ Ping => Head(cmds).op = "Ping"
    BY DEF StartConnect, Disconnect, Subscribe, Unsubscribe, Publish, Query,
           EnableQueryable, DisableQueryable, Ping, Receive
  <1>7. QED
    BY <1>1, <1>3, <1>4, <1>5, <1>6 DEF LoopStep

(* A command that needs a session is taken when there is one, and before    *)
(* any event of its end is queued.                                          *)
LEMMA SessionCmdHasSession ==
    ASSUME TypeOK, Handshake, Took, Head(cmds) \in SessionCmds
    PROVE  pub
  <1>1. Holds(cmds, SessionCmds)
    BY TailHolds DEF Took, TypeOK, ChannelsTypeOK
  <1>2. QED
    BY <1>1 DEF Handshake, Stages

(* An answered request stays answered when the worker works, if what it     *)
(* says on taking the request leads with the answer.                        *)
LEMMA WorkerAnswers ==
    ASSUME TypeOK, Handshake, LoopStep \/ TaskNext \/ Dies,
           NEW C, NEW E, C \subseteq SessionCmds, Answered(C, E),
           Took /\ Head(cmds) \in C
               => \E es \in Seq(Event) : events' = events \o es /\ Leads(es, E, Ends)
    PROVE  Answered(C, E)'
  <1>0. events \in Seq(Event) /\ cmds \in Seq(Command)
    BY DEF TypeOK, ChannelsTypeOK
  <1>1. CASE Leads(events, E, Ends)
    <2>1. PICK es \in Seq(Event) : events' = events \o es
      BY WorkerMoves DEF Said
    <2>2. Leads(events', E, Ends)
      BY <1>0, <1>1, <2>1, JoinHolds
    <2>3. QED
      BY <2>2 DEF Answered
  <1>2. CASE Holds(cmds, C)
    <2>1. ~Holds(events, SessionEvs)
      BY <1>2, Grows DEF Handshake, Stages
    <2>2. ~Holds(events, Ends)
      BY <2>1, Parts DEF Ends
    <2>3. CASE cmds' = cmds
      BY <1>2, <2>3 DEF Answered
    <2>4. CASE Took /\ Head(cmds) \in C
      <3>1. PICK es \in Seq(Event) : events' = events \o es /\ Leads(es, E, Ends)
        BY <2>4
      <3>2. Leads(events', E, Ends)
        BY <1>0, <2>2, <3>1, JoinHolds
      <3>3. QED
        BY <3>2 DEF Answered
    <2>5. CASE Took /\ Head(cmds) \notin C
      <3>1. Holds(cmds', C)
        BY <1>0, <1>2, <2>5, TailHolds DEF Took
      <3>2. QED
        BY <3>1 DEF Answered
    <2>6. CASE Dies
      BY <2>2, <2>6 DEF Dies, Answered, Over
    <2>7. QED
      BY <2>3, <2>4, <2>5, <2>6, WorkerMoves
  <1>3. ~Over
    BY WorkerMoves DEF Over
  <1>4. QED
    BY <1>1, <1>2, <1>3 DEF Answered

(* It stays answered when the UI clicks, or handles an event that is no     *)
(* answer to it.                                                            *)
LEMMA UiAnswers ==
    ASSUME TypeOK, NEW C, NEW E, Answered(C, E), UNCHANGED workerAlive,
           \/ /\ events' = events
              /\ cmds' = cmds \/ \E c \in Command : cmds' = cmds \o <<c>>
           \/ /\ cmds' = cmds /\ events # <<>> /\ events' = Tail(events)
              /\ Head(events) \notin E
    PROVE  Answered(C, E)'
  <1>0. events \in Seq(Event) /\ cmds \in Seq(Command)
    BY DEF TypeOK, ChannelsTypeOK
  <1>1. CASE events' = events /\ cmds' = cmds
    BY <1>1 DEF Answered, Over
  <1>2. ASSUME events' = events, NEW c \in Command, cmds' = cmds \o <<c>>
        PROVE  Answered(C, E)'
    <2>1. Holds(cmds, C) => Holds(cmds', C)
      <3>1. <<c>> \in Seq(Command)
        OBVIOUS
      <3>2. QED
        BY <1>0, <1>2, <3>1, JoinHolds
    <2>2. QED
      BY <1>2, <2>1 DEF Answered, Over
  <1>3. CASE cmds' = cmds /\ events # <<>> /\ events' = Tail(events) /\ Head(events) \notin E
    <2>1. /\ Leads(events, E, Ends) => Leads(events', E, Ends)
          /\ Holds(events', Ends) => Holds(events, Ends)
      BY <1>0, <1>3, TailHolds, TailOrders
    <2>2. QED
      BY <1>3, <2>1 DEF Answered, Over
  <1>4. QED
    BY <1>1, <1>2, <1>3

(* Nothing is unanswered when the end of a session is next.                 *)
LEMMA EndFindsNothing ==
    ASSUME TypeOK, Handshake, NEW C, NEW E, C \subseteq SessionCmds,
           events # <<>>, Head(events) \in Ends
    PROVE  ~Answered(C, E)
  <1>1. events \in Seq(Event)
    BY DEF TypeOK, ChannelsTypeOK
  <1>2. Holds(events, Ends) /\ ~Leads(events, E, Ends)
    BY <1>1, TailHolds, TailOrders
  <1>3. ~Holds(cmds, C)
    BY <1>2, Grows, Parts DEF Handshake, Stages, Ends
  <1>4. QED
    BY <1>2, <1>3 DEF Answered, Over

(* Both requests need a session.                                            *)
LEMMA Requests ==
    /\ PublishCmds \subseteq SessionCmds
    /\ \A key \in Keys : SubscribeCmds(key) \subseteq SessionCmds
  BY CommandsAreCommands DEF PublishCmds, SubscribeCmds, SessionCmds, Plainly

(* The worker answers what it takes, before any end.                        *)
LEMMA WorkerKeepsAnswers ==
    ASSUME TypeOK, Handshake, AnswersFirst, LoopStep \/ TaskNext \/ Dies, UNCHANGED uiVars
    PROVE  AnswersFirst'
  <1>0. UNCHANGED <<publish, pending>> /\ pending \subseteq Keys
    BY DEF uiVars, TypeOK, UiTypeOK
  <1>1. ASSUME NEW e \in Event, Emit(<<e>>), NEW E, e \in E, e \notin Ends
        PROVE  \E es \in Seq(Event) : events' = events \o es /\ Leads(es, E, Ends)
    <2>1. Leads(<<e>>, E, Ends)
      BY <1>1, ShortOrders
    <2>2. <<e>> \in Seq(Event)
      OBVIOUS
    <2>3. QED
      BY <1>1, <2>1, <2>2 DEF Emit
  <1>2. /\ Note("Published") \in Event /\ Failed("Publish") \in Event
        /\ Note("Published") \notin Ends /\ Failed("Publish") \notin Ends
        /\ Failed("Subscribe") \in Event /\ Failed("Subscribe") \notin Ends
        /\ \A id \in SubIds, key \in Keys :
             Created(id, key) \in Event /\ Created(id, key) \notin Ends
    BY EventsAreEvents
       DEF FailedOps, Ends, EndedEvs, ErrorEvs, Note, Failed, Created
  <1>3. ASSUME publish = "sending"
        PROVE  Answered(PublishCmds, PublishEvs)'
    <2>1. ASSUME Took, Head(cmds) \in PublishCmds
          PROVE  \E es \in Seq(Event) : events' = events \o es /\ Leads(es, PublishEvs, Ends)
      <3>1. Head(cmds).op = "Publish" /\ Head(cmds) \in SessionCmds
        BY <2>1, Requests DEF PublishCmds, Plainly
      <3>2. Publish /\ pub
        BY <2>1, <3>1, TookMeans, SessionCmdHasSession
      <3>3. Emit(<<Note("Published")>>) \/ Emit(<<Failed("Publish")>>)
        BY <3>2 DEF Publish, PublishAnswers
      <3>4. Note("Published") \in PublishEvs /\ Failed("Publish") \in PublishEvs
        BY DEF PublishEvs
      <3>5. QED
        BY <1>1, <1>2, <3>3, <3>4
    <2>2. QED
      BY <1>3, <2>1, Requests, WorkerAnswers DEF AnswersFirst
  <1>4. ASSUME NEW key \in pending
        PROVE  Answered(SubscribeCmds(key), ClearingEvs(key))'
    <2>1. ASSUME Took, Head(cmds) \in SubscribeCmds(key)
          PROVE  \E es \in Seq(Event) :
                    events' = events \o es /\ Leads(es, ClearingEvs(key), Ends)
      <3>1. /\ Head(cmds).op = "Subscribe" /\ Head(cmds) \in SessionCmds
            /\ Head(cmds).key = key /\ key \in Keys
        BY <1>0, <2>1, Requests DEF SubscribeCmds
      <3>2. Subscribe /\ pub
        BY <2>1, <3>1, TookMeans, SessionCmdHasSession
      <3>3. Emit(<<Created(nextId, key)>>) \/ Emit(DeclareFailed(nextId, FALSE))
        BY <3>1, <3>2 DEF Subscribe, HandleSubscribe, FreshId
      <3>4. DeclareFailed(nextId, FALSE) = <<Failed("Subscribe")>>
        BY DEF DeclareFailed
      <3>5. nextId \in SubIds
        BY DEF TypeOK, WorkerTypeOK
      <3>6. Created(nextId, key) \in ClearingEvs(key) /\ Failed("Subscribe") \in ClearingEvs(key)
        BY <1>2, <3>1, <3>5 DEF ClearingEvs, Created, Failed
      <3>7. QED
        BY <1>1, <1>2, <3>1, <3>3, <3>4, <3>5, <3>6
    <2>2. SubscribeCmds(key) \subseteq SessionCmds
      BY <1>0, Requests
    <2>3. QED
      BY <2>1, <2>2, WorkerAnswers DEF AnswersFirst
  <1>5. QED
    BY <1>0, <1>3, <1>4 DEF AnswersFirst

(* A command posted to a living worker is in the queue.                     *)
LEMMA PostAnswers ==
    ASSUME TypeOK, NEW c \in Command, Post(c)
    PROVE  /\ cmds' = cmds \/ \E d \in Command : cmds' = cmds \o <<d>>
           /\ workerAlive => Holds(cmds', {c})
  <1>1. /\ cmds \in Seq(Command) /\ <<c>> \in Seq(Command)
        /\ workerAlive => cmds' = cmds \o <<c>>
        /\ ~workerAlive => cmds' = cmds
    BY DEF Post, TypeOK, ChannelsTypeOK
  <1>2. Holds(<<c>>, {c})
    BY ShortHolds
  <1>3. Holds(cmds \o <<c>>, {c})
    BY <1>1, <1>2, JoinHolds
  <1>4. QED
    BY <1>1, <1>3

UiClick ==
    \/ ClickConnect \/ ClickDisconnect \/ EditForm
    \/ \E key \in Keys : Subscribing(key)
    \/ \E row \in rows : ClickUnsubscribe(row)
    \/ ClickPublish \/ ToggleQueryable
    \/ \E sel \in Selectors : Querying(sel)
    \/ DismissAlert \/ HealthTick

(* What each click posts.                                                   *)
LEMMA ClickPosts ==
    ASSUME TypeOK, UiClick
    PROVE  /\ UNCHANGED <<events, workerAlive>>
           /\ \/ cmds' = cmds
              \/ /\ ClickConnect /\ Post(Plainly("Connect"))
              \/ /\ ClickDisconnect /\ Post(Plainly("Disconnect"))
              \/ \E key \in Keys :
                    ClickSubscribe(key) /\ Post([op |-> "Subscribe", key |-> key])
              \/ \E id \in SubIds : Post([op |-> "Unsubscribe", id |-> id])
              \/ /\ ClickPublish /\ Post(Plainly("Publish"))
              \/ /\ ToggleQueryable
                 /\ \/ queryableOn' /\ Post(Plainly("EnableQueryable"))
                    \/ ~queryableOn' /\ Post(Plainly("DisableQueryable"))
              \/ \E sel \in Selectors :
                    ClickQuery(sel) /\ Post([op |-> "Query", sel |-> sel])
              \/ SendPing /\ Post(Plainly("Ping"))
  <1>1. ASSUME NEW row \in rows, ClickUnsubscribe(row)
        PROVE  \E id \in SubIds : Post([op |-> "Unsubscribe", id |-> id])
    <2>1. row.id \in SubIds
      BY DEF TypeOK, UiTypeOK
    <2>2. QED
      BY <1>1, <2>1 DEF ClickUnsubscribe
  <1>2. ToggleQueryable => \/ queryableOn' /\ Post(Plainly("EnableQueryable"))
                           \/ ~queryableOn' /\ Post(Plainly("DisableQueryable"))
    BY DEF ToggleQueryable
  <1>3. UNCHANGED <<events, workerAlive>>
    BY DEF UiClick, ClickConnect, ClickDisconnect, EditForm, Subscribing, ClickSubscribe,
           ClickUnsubscribe, ClickPublish, ToggleQueryable, Querying, ClickQuery,
           DismissAlert, HealthTick, SendPing, PingTimesOut, UiStalls, Click, chanVars
  <1>4. CASE ClickConnect \/ ClickDisconnect \/ ClickPublish \/ SendPing
    BY <1>3, <1>4 DEF ClickConnect, ClickDisconnect, ClickPublish, SendPing
  <1>5. CASE EditForm \/ DismissAlert \/ PingTimesOut \/ UiStalls
    BY <1>3, <1>5 DEF EditForm, DismissAlert, PingTimesOut, UiStalls, chanVars
  <1>6. CASE \E key \in Keys : Subscribing(key)
    BY <1>3, <1>6 DEF Subscribing, ClickSubscribe
  <1>7. CASE \E sel \in Selectors : Querying(sel)
    BY <1>3, <1>7 DEF Querying, ClickQuery
  <1>8. QED
    BY <1>1, <1>2, <1>3, <1>4, <1>5, <1>6, <1>7 DEF UiClick, HealthTick

(* So a click adds one command or none.                                     *)
LEMMA ClickAppends ==
    ASSUME TypeOK, UiClick
    PROVE  cmds' = cmds \/ \E c \in Command : cmds' = cmds \o <<c>>
  BY ClickPosts, PostAnswers, CommandsAreCommands

(* A click that makes something pending posts its request.                  *)
LEMMA ClicksKeepAnswers ==
    ASSUME TypeOK, Handshake, AnswersFirst, UiClick
    PROVE  AnswersFirst'
  <1>1. ASSUME NEW C, NEW E, Answered(C, E)
        PROVE  Answered(C, E)'
    BY <1>1, ClickPosts, ClickAppends, UiAnswers
  <1>2. CASE ClickPublish
    <2>1. pending' = pending /\ Post(Plainly("Publish"))
          /\ publish' = IF workerAlive THEN "sending" ELSE "failed"
      BY <1>2 DEF ClickPublish
    <2>2. workerAlive => Answered(PublishCmds, PublishEvs)'
      BY <2>1, PostAnswers, CommandsAreCommands DEF Answered, PublishCmds
    <2>3. QED
      BY <1>1, <2>1, <2>2 DEF AnswersFirst
  <1>3. ASSUME NEW key \in Keys, Subscribing(key)
        PROVE  AnswersFirst'
    <2>1. /\ publish' = publish /\ pending' = pending \cup {key}
          /\ Post([op |-> "Subscribe", key |-> key])
          /\ status = "Connected" /\ events' = events /\ workerAlive' = workerAlive
      BY <1>3 DEF Subscribing, ClickSubscribe, SubscribeEnabled, Click
    <2>2. Answered(SubscribeCmds(key), ClearingEvs(key))'
      <3>1. workerAlive => Holds(cmds', SubscribeCmds(key))
        BY <2>1, PostAnswers, CommandsAreCommands DEF SubscribeCmds
      <3>2. ~Holds(events, Ends)
        BY <2>1, Parts DEF Handshake, Stages, Ends
      <3>3. QED
        BY <2>1, <3>1, <3>2 DEF Answered, Over
    <2>3. QED
      BY <1>1, <2>1, <2>2 DEF AnswersFirst
  <1>4. CASE ~ClickPublish /\ ~ \E key \in Keys : Subscribing(key)
    <2>1. pending' = pending /\ (publish' = "sending" => publish = "sending")
      BY <1>4 DEF UiClick, ClickConnect, ClickDisconnect, EditForm,
           ClickUnsubscribe, ToggleQueryable, Querying, ClickQuery,
           DismissAlert, HealthTick, SendPing, PingTimesOut, UiStalls, uiVars
    <2>2. QED
      BY <1>1, <2>1 DEF AnswersFirst
  <1>5. QED
    BY <1>2, <1>3, <1>4

(* Handling an event either answers the request or leaves it answered.      *)
LEMMA EventsKeepAnswers ==
    ASSUME TypeOK, Handshake, AnswersFirst, ProcessEvent
    PROVE  AnswersFirst'
  <1>0. pending \subseteq Keys
    BY DEF TypeOK, UiTypeOK
  <1>1. /\ events # <<>> /\ events' = Tail(events) /\ UNCHANGED <<cmds, workerAlive>>
        /\ Head(events) \in Event
    <2>1. \E type : Process(type)
      BY DEF ProcessEvent, OnPublishingConnected, OnMonitorConnected, OnDisconnected,
             OnConnectionError, OnDiscoveryUpdate, OnSubscriptionCreated,
             OnSubscriptionRemoved, OnPublished, OnOperationFailed, OnQueryReply,
             OnQueryNoResponses, OnPong
    <2>2. QED
      BY <2>1, ProcessFacts DEF Process
  <1>2. ASSUME NEW C, NEW E, Answered(C, E), Head(events) \notin E
        PROVE  Answered(C, E)'
    BY <1>1, <1>2, UiAnswers
  <1>3. \A type : Process(type) => Head(events).type = type
    BY DEF Process
  <1>4. CASE OnDisconnected \/ OnConnectionError
    <2>1. publish' # "sending" /\ pending' = {}
      BY <1>4 DEF OnDisconnected, OnConnectionError, EndPendingWork
    <2>2. QED
      BY <2>1 DEF AnswersFirst
  <1>5. CASE OnPublished
    <2>1. publish' # "sending" /\ pending' = pending /\ Head(events).type = "Published"
      BY <1>3, <1>5 DEF OnPublished
    <2>2. \A key : Head(events) \notin ClearingEvs(key)
      BY <2>1 DEF ClearingEvs
    <2>3. QED
      BY <1>2, <2>1, <2>2 DEF AnswersFirst
  <1>6. CASE OnSubscriptionCreated
    <2>1. /\ publish' = publish /\ pending' = pending \ {Head(events).key}
          /\ Head(events).type = "SubscriptionCreated"
      BY <1>3, <1>6 DEF OnSubscriptionCreated
    <2>2. Head(events) \notin PublishEvs
      BY <2>1 DEF PublishEvs, Note, Failed
    <2>3. \A key \in pending' : Head(events) \notin ClearingEvs(key)
      BY <2>1 DEF ClearingEvs
    <2>4. QED
      BY <1>2, <2>1, <2>2, <2>3 DEF AnswersFirst
  <1>7. CASE OnOperationFailed
    <2>1. /\ Head(events).type = "OperationFailed"
          /\ publish' = IF Head(events).failed = "Publish" THEN "failed" ELSE publish
          /\ pending' = IF Head(events).failed = "Subscribe" THEN {} ELSE pending
      BY <1>3, <1>7 DEF OnOperationFailed
    <2>2. Head(events) \in PublishEvs => Head(events).failed = "Publish"
      BY <2>1 DEF PublishEvs, Note, Failed
    <2>3. \A key : Head(events) \in ClearingEvs(key) => Head(events).failed = "Subscribe"
      BY <2>1 DEF ClearingEvs
    <2>4. QED
      BY <1>2, <2>1, <2>2, <2>3 DEF AnswersFirst
  <1>8. CASE ~(OnDisconnected \/ OnConnectionError \/ OnPublished
               \/ OnSubscriptionCreated \/ OnOperationFailed)
    <2>1. /\ UNCHANGED <<publish, pending>>
          /\ Head(events).type \notin {"Published", "SubscriptionCreated", "OperationFailed"}
      BY <1>3, <1>8 DEF ProcessEvent, OnPublishingConnected, OnMonitorConnected,
             OnDiscoveryUpdate, OnSubscriptionRemoved, OnQueryReply,
             OnQueryNoResponses, OnPong
    <2>2. /\ Head(events) \notin PublishEvs
          /\ \A key : Head(events) \notin ClearingEvs(key)
      BY <2>1 DEF PublishEvs, ClearingEvs, Note, Failed
    <2>3. QED
      BY <1>2, <2>1, <2>2 DEF AnswersFirst
  <1>9. QED
    BY <1>4, <1>5, <1>6, <1>7, <1>8

(* Next is a step of the worker, a click or an event.                       *)
LEMMA NextIsUiOrWorker ==
    ASSUME [Next]_vars
    PROVE  \/ (LoopStep \/ TaskNext \/ Dies) /\ UNCHANGED uiVars
           \/ (UiClick \/ ProcessEvent) /\ UNCHANGED workerVars
           \/ UNCHANGED vars
  BY Zenon, NextSplits DEF UiClick

(* Nothing is pending at the start,                                         *)
LEMMA AnswersStart == Init => AnswersFirst
  BY DEF Init, UiInit, AnswersFirst

(* and every step keeps the answers first.                                  *)
LEMMA AnswersKeep == TypeOK /\ Handshake /\ AnswersFirst /\ [Next]_vars => AnswersFirst'
  <1> SUFFICES ASSUME TypeOK, Handshake, AnswersFirst, [Next]_vars
               PROVE  AnswersFirst'
    OBVIOUS
  <1>1. CASE UNCHANGED vars
    BY <1>1 DEF vars, chanVars, uiVars, AnswersFirst, Answered, Over
  <1>2. QED
    BY <1>1, NextIsUiOrWorker, WorkerKeepsAnswers, ClicksKeepAnswers, EventsKeepAnswers

-----------------------------------------------------------------------------
(* The queryable's box and the query notice.                                *)

(* A Disconnect stays under way until the UI handles its event, or the      *)
(* worker dies.                                                             *)
LEMMA EndingLastsInWorker ==
    ASSUME TypeOK, LoopStep \/ TaskNext \/ Dies, SessionEnding, workerAlive'
    PROVE  SessionEnding'
  <1>0. events \in Seq(Event) /\ cmds \in Seq(Command)
    BY DEF TypeOK, ChannelsTypeOK
  <1>1. PICK es \in Seq(Event) : events' = events \o es
    BY WorkerMoves DEF Said
  <1>2. Holds(events, EndedEvs) => Holds(events', EndedEvs)
    BY <1>0, <1>1, JoinHolds
  <1>3. cmds' = cmds \/ Took
    BY WorkerMoves DEF Dies
  <1>4. CASE Took /\ Head(cmds) \in Disconnects
    <2>1. Disconnect
      BY <1>4, TookMeans, CommandClasses
    <2>2. events' = events \o <<Note("Disconnected")>>
      BY <2>1 DEF Disconnect, Emit
    <2>3. /\ <<Note("Disconnected")>> \in Seq(Event)
          /\ Holds(<<Note("Disconnected")>>, EndedEvs)
      <3>1. Note("Disconnected") \in Event /\ Note("Disconnected") \in EndedEvs
        BY EventsAreEvents DEF EndedEvs
      <3>2. QED
        BY <3>1, ShortHolds
    <2>4. QED
      BY <1>0, <2>2, <2>3, JoinHolds DEF SessionEnding
  <1>5. CASE Took /\ Head(cmds) \notin Disconnects
    <2>1. Holds(cmds, Disconnects) => Holds(cmds', Disconnects)
      BY <1>0, <1>5, TailHolds DEF Took
    <2>2. QED
      BY <1>2, <2>1 DEF SessionEnding
  <1>6. QED
    BY <1>2, <1>3, <1>4, <1>5 DEF SessionEnding

(* A click does not take a Disconnect back,                                 *)
LEMMA ClickKeepsEnding ==
    ASSUME TypeOK, UiClick, SessionEnding
    PROVE  SessionEnding'
  <1>0. events' = events /\ cmds \in Seq(Command)
    BY ClickPosts DEF TypeOK, ChannelsTypeOK
  <1>1. cmds' = cmds \/ \E c \in Command : cmds' = cmds \o <<c>>
    BY ClickAppends
  <1>2. ASSUME NEW c \in Command, cmds' = cmds \o <<c>>
        PROVE  Holds(cmds, Disconnects) => Holds(cmds', Disconnects)
    <2>1. <<c>> \in Seq(Command)
      OBVIOUS
    <2>2. QED
      BY <1>0, <1>2, <2>1, JoinHolds
  <1>3. QED
    BY <1>0, <1>1, <1>2 DEF SessionEnding

(* and no event but its own ends it.                                        *)
LEMMA EventKeepsEnding ==
    ASSUME TypeOK, ProcessEvent, ~OnDisconnected, SessionEnding
    PROVE  SessionEnding'
  <1>1. PICK type : Process(type) /\ type # "Disconnected"
    BY DEF ProcessEvent, OnPublishingConnected, OnMonitorConnected, OnConnectionError,
           OnDiscoveryUpdate, OnSubscriptionCreated, OnSubscriptionRemoved,
           OnPublished, OnOperationFailed, OnQueryReply, OnQueryNoResponses, OnPong
  <1>2. Head(events) \notin EndedEvs
    BY <1>1, ProcessFacts, EventClasses
  <1>3. Holds(events, EndedEvs) => Holds(events', EndedEvs)
    BY <1>1, <1>2, ProcessFacts
  <1>4. cmds' = cmds
    BY <1>1 DEF Process
  <1>5. QED
    BY <1>3, <1>4 DEF SessionEnding

(* A click on Disconnect is on its way while the worker lives.              *)
LEMMA DisconnectEnds ==
    ASSUME TypeOK, workerAlive, ClickDisconnect
    PROVE  SessionEnding'
  <1>1. Plainly("Disconnect") \in Command /\ Post(Plainly("Disconnect"))
    BY CommandsAreCommands DEF ClickDisconnect
  <1>2. QED
    BY <1>1, PostAnswers DEF Disconnects, SessionEnding

(* While Connected no event of a session's start or end is handled, but for *)
(* the one of a Disconnect.                                                 *)
LEMMA ConnectedEventsAside ==
    ASSUME TypeOK, Handshake, ProcessEvent, ~OnDisconnected, status = "Connected"
    PROVE  SideEvent
  <1>1. ~Holds(events, SessionEvs)
    BY DEF Handshake, Stages
  <1>2. ASSUME OnPublishingConnected \/ OnMonitorConnected \/ OnConnectionError
        PROVE  FALSE
    <2>1. PICK t \in {"PublishingConnected", "MonitorConnected", "ConnectionError"} :
            Process(t)
      BY <1>2 DEF OnPublishingConnected, OnMonitorConnected, OnConnectionError
    <2>2. Head(events) \in SessionEvs
      BY <2>1, ProcessFacts, EventClasses DEF SessionEvs, Outcomes
    <2>3. QED
      BY <1>1, <2>1, <2>2, ProcessFacts
  <1>3. QED
    BY <1>2 DEF ProcessEvent, SideEvent

(* A session is ended only by a Disconnect the user asked for: when one     *)
(* opens or fails to, what an earlier one left is still announced.          *)
LEMMA WorkerKeepsBox ==
    ASSUME TypeOK, Handshake, BoxTold, LoopStep \/ TaskNext \/ Dies, UNCHANGED uiVars
    PROVE  BoxTold'
  <1> SUFFICES ASSUME queryableOn, workerAlive', ~SessionEnding'
               PROVE  /\ status' = "Connected"
                      /\ \/ Trails(cmds, Enables, Disables)'
                         \/ /\ ~Holds(cmds, Disables)'
                            /\ \/ queryable' \in {"declaring", "serving"}
                               \/ Holds(events, QueryableFails)'
    BY DEF BoxTold, uiVars
  <1>0. events \in Seq(Event) /\ cmds \in Seq(Command) /\ status' = status
    BY DEF TypeOK, ChannelsTypeOK, uiVars, connVars
  <1>1. ~SessionEnding /\ workerAlive
    BY EndingLastsInWorker, WorkerMoves
  <1>2. /\ status = "Connected"
        /\ \/ Trails(cmds, Enables, Disables)
           \/ /\ ~Holds(cmds, Disables)
              /\ \/ queryable \in {"declaring", "serving"}
                 \/ Holds(events, QueryableFails)
    BY <1>1 DEF BoxTold
  <1>3. PICK es \in Seq(Event) : events' = events \o es
    BY WorkerMoves DEF Said
  <1>4. Holds(events, QueryableFails) => Holds(events', QueryableFails)
    BY <1>0, <1>3, JoinHolds
  <1>5. ~StartConnect /\ ~Disconnect
    <2>1. ASSUME StartConnect \/ Disconnect
          PROVE  Holds(cmds, Enders)
      <3>1. PICK op \in {"Connect", "Disconnect"} : Receive(op)
        BY <2>1 DEF StartConnect, Disconnect
      <3>2. Head(cmds) \in Enders
        BY <3>1, ReceiveFacts, CommandClasses DEF Enders
      <3>3. QED
        BY <3>1, <3>2, ReceiveFacts
    <2>2. QED
      BY <1>2, <2>1 DEF Handshake, Stages
  <1>6. CASE Took /\ Head(cmds).op = "EnableQueryable"
    <2>1. /\ EnableQueryable /\ Head(cmds) \in SessionCmds
          /\ Head(cmds) \notin Disables
      BY <1>6, TookMeans, CommandClasses DEF Disables, Plainly
    <2>2. queryable' = "declaring"
      BY <1>6, <2>1, SessionCmdHasSession DEF EnableQueryable
    <2>3. Trails(cmds', Enables, Disables) \/ ~Holds(cmds', Disables)
      BY <1>0, <1>2, <1>6, <2>1, TailHolds, TailOrders DEF Took
    <2>4. QED
      BY <1>0, <1>2, <2>2, <2>3
  <1>7. CASE Took /\ Head(cmds).op # "EnableQueryable"
    <2>1. Head(cmds) \notin Enables
      BY <1>7 DEF Enables, Plainly
    <2>2. /\ Trails(cmds, Enables, Disables) => Trails(cmds', Enables, Disables)
          /\ Holds(cmds, Disables) <=> Head(cmds) \in Disables \/ Holds(cmds', Disables)
      BY <1>0, <1>7, <2>1, TailHolds, TailOrders DEF Took
    <2>3. Head(cmds) \in Disables \/ queryable' = queryable
      <3>1. CASE Head(cmds).op = "DisableQueryable"
        BY <1>7, <3>1, TookMeans DEF Command, Plain, Disables, Plainly
      <3>2. CASE Head(cmds).op # "DisableQueryable"
        <4>1. Subscribe \/ Publish \/ Query \/ Ping \/ Unsubscribe
          BY <1>5, <1>7, <3>2, TookMeans DEF Command, Plain
        <4>2. QED
          BY <4>1 DEF Subscribe, Publish, Query, Ping, Unsubscribe, taskVars
      <3>3. QED
        BY <3>1, <3>2
    <2>4. QED
      BY <1>0, <1>2, <1>4, <2>2, <2>3
  <1>8. CASE cmds' = cmds
    <2>1. queryable' = queryable \/ Holds(events', QueryableFails)
          \/ queryable' = "serving"
      <3>1. CASE QueryableDeclared
        <4> DEFINE fs == <<Failed("Queryable")>>
        <4>1. queryable' = "serving" \/ Emit(fs)
          BY <3>1 DEF QueryableDeclared
        <4>2. fs \in Seq(Event) /\ Holds(fs, QueryableFails)
          <5>1. /\ Failed("Queryable") \in Event
                /\ Failed("Queryable") \in QueryableFails
            BY EventsAreEvents DEF FailedOps, QueryableFails
          <5>2. QED
            BY <5>1, ShortHolds
        <4> HIDE DEF fs
        <4>3. Emit(fs) => Holds(events', QueryableFails)
          BY <1>0, <4>2, JoinHolds DEF Emit
        <4>4. QED
          BY <4>1, <4>3
      <3>2. CASE ~QueryableDeclared
        <4>1. Len(Tail(cmds)) # Len(cmds) \/ cmds = <<>>
          BY <1>0
        <4>2. \A op : ~Receive(op)
          BY <1>8, <4>1 DEF Receive
        <4>3. QED
          BY <1>1, <3>2, <4>2
             DEF LoopStep, TaskNext, StartConnect, PublishingOpens, PublishingFails,
                 MonitorReturns, Disconnect, Subscribe, Unsubscribe, Redeclare, Publish,
                 Query, EnableQueryable, DisableQueryable, Ping, ReplySample,
                 ReplyError, RepliesEnd, TaskStep, DiscoveryTick, AbortedTaskEnds,
                 Dies, taskVars, workerVars
      <3>3. QED
        BY <3>1, <3>2
    <2>2. QED
      BY <1>0, <1>2, <1>4, <1>8, <2>1
  <1>9. QED
    BY <1>6, <1>7, <1>8, WorkerMoves DEF Dies

(* Ticking posts the command that declares a queryable last.                *)
LEMMA ClicksKeepBox ==
    ASSUME TypeOK, BoxTold, UiClick, UNCHANGED workerVars
    PROVE  BoxTold'
  <1> SUFFICES ASSUME queryableOn', workerAlive, ~SessionEnding'
               PROVE  /\ status' = "Connected"
                      /\ \/ Trails(cmds, Enables, Disables)'
                         \/ /\ ~Holds(cmds, Disables)'
                            /\ \/ queryable' \in {"declaring", "serving"}
                               \/ Holds(events, QueryableFails)'
    BY ClickPosts DEF BoxTold
  <1>0. /\ cmds \in Seq(Command) /\ events' = events /\ queryable' = queryable
        /\ ~SessionEnding
    BY ClickPosts, ClickKeepsEnding DEF TypeOK, ChannelsTypeOK, workerVars, taskVars
  <1>1. CASE ToggleQueryable
    <2> DEFINE e == Plainly("EnableQueryable")
    <2>1. status' = "Connected" /\ Post(e)
      BY <1>1 DEF ToggleQueryable, connVars
    <2>2. cmds' = cmds \o <<e>>
      BY <2>1, <1>0 DEF Post
    <2>3. e \in Command /\ e \in Enables /\ e \notin Disables
      BY CommandsAreCommands DEF Enables, Disables, Plainly
    <2> HIDE DEF e
    <2>4. <<e>> \in Seq(Command) /\ Trails(<<e>>, Enables, Disables)
      BY <2>3, ShortOrders
    <2>5. Trails(cmds', Enables, Disables)
      BY <1>0, <2>2, <2>4, JoinHolds
    <2>6. QED
      BY <2>1, <2>5
  <1>2. CASE ~ToggleQueryable
    <2>1. queryableOn' = queryableOn
      BY <1>2
         DEF UiClick, ClickConnect, ClickDisconnect, EditForm, Subscribing,
             ClickSubscribe, ClickUnsubscribe, ClickPublish, Querying, ClickQuery,
             DismissAlert, HealthTick, SendPing, PingTimesOut, UiStalls, uiVars
    <2>2. /\ status = "Connected"
          /\ \/ Trails(cmds, Enables, Disables)
             \/ /\ ~Holds(cmds, Disables)
                /\ \/ queryable \in {"declaring", "serving"}
                   \/ Holds(events, QueryableFails)
      BY <1>0, <2>1 DEF BoxTold
    <2>3. ~ClickDisconnect
      BY <1>0, DisconnectEnds
    <2>4. SideClick
      BY <2>2, <2>3, <1>2 DEF UiClick, SideClick, ClickConnect, EditForm
    <2>5. status' = "Connected"
      BY <2>2, <2>4, ClicksAside
    <2>6. cmds' = cmds \/ \E c \in Command \ Disables : cmds' = cmds \o <<c>>
      <3>1. ASSUME NEW c \in Command, Post(c), c.op # "DisableQueryable"
            PROVE  \E d \in Command \ Disables : cmds' = cmds \o <<d>>
        <4>1. c \notin Disables
          BY <3>1 DEF Disables, Plainly
        <4>2. cmds' = cmds \o <<c>>
          BY <1>0, <3>1 DEF Post
        <4>3. QED
          BY <4>1, <4>2
      <3>2. \A op \in {"Connect", "Disconnect", "Publish", "Ping"} :
              Plainly(op) \in Command /\ Plainly(op).op # "DisableQueryable"
        BY CommandsAreCommands DEF Plainly
      <3>3. /\ \A key \in Keys : [op |-> "Subscribe", key |-> key] \in Command
            /\ \A id \in SubIds : [op |-> "Unsubscribe", id |-> id] \in Command
            /\ \A sel \in Selectors : [op |-> "Query", sel |-> sel] \in Command
        BY CommandsAreCommands
      <3>4. QED
        BY <1>2, <3>1, <3>2, <3>3, ClickPosts
    <2>7. ASSUME NEW c \in Command \ Disables, cmds' = cmds \o <<c>>
          PROVE  /\ Trails(cmds, Enables, Disables) => Trails(cmds', Enables, Disables)
                 /\ Holds(cmds', Disables) <=> Holds(cmds, Disables)
      <3>1. <<c>> \in Seq(Command)
        OBVIOUS
      <3>2. ~Holds(<<c>>, Disables)
        BY ShortHolds
      <3>3. QED
        BY <1>0, <2>7, <3>1, <3>2, JoinHolds
    <2>8. QED
      BY <1>0, <2>2, <2>5, <2>6, <2>7
  <1>3. QED
    BY <1>1, <1>2

(* The failure unticks the box, and so does the session's end.              *)
LEMMA EventsKeepBox ==
    ASSUME TypeOK, Handshake, BoxTold, ProcessEvent, UNCHANGED workerVars
    PROVE  BoxTold'
  <1> SUFFICES ASSUME queryableOn', workerAlive', ~SessionEnding'
               PROVE  /\ status' = "Connected"
                      /\ \/ Trails(cmds, Enables, Disables)'
                         \/ /\ ~Holds(cmds, Disables)'
                            /\ \/ queryable' \in {"declaring", "serving"}
                               \/ Holds(events, QueryableFails)'
    BY DEF BoxTold
  <1>1. PICK type : Process(type)
    BY DEF ProcessEvent, OnPublishingConnected, OnMonitorConnected, OnDisconnected,
           OnConnectionError, OnDiscoveryUpdate, OnSubscriptionCreated,
           OnSubscriptionRemoved, OnPublished, OnOperationFailed, OnQueryReply,
           OnQueryNoResponses, OnPong
  <1>2. UNCHANGED <<cmds, workerAlive, queryable>>
    BY <1>1 DEF Process, workerVars, taskVars
  <1>3. ~OnDisconnected
    BY DEF OnDisconnected, FlagAfterDisconnected
  <1>4. ~SessionEnding
    BY <1>3, EventKeepsEnding
  <1>5. queryableOn
    BY <1>3 DEF ProcessEvent, OnPublishingConnected, OnMonitorConnected, OnConnectionError,
       OnDiscoveryUpdate, OnSubscriptionCreated, OnSubscriptionRemoved, OnPublished,
       OnOperationFailed, OnQueryReply, OnQueryNoResponses, OnPong
  <1>6. /\ status = "Connected"
        /\ \/ Trails(cmds, Enables, Disables)
           \/ /\ ~Holds(cmds, Disables)
              /\ \/ queryable \in {"declaring", "serving"}
                 \/ Holds(events, QueryableFails)
    BY <1>2, <1>4, <1>5 DEF BoxTold
  <1>8. SideEvent
    BY <1>3, <1>6, ConnectedEventsAside
  <1>9. status' = "Connected"
    BY <1>6, <1>8, SideEventsAside
  <1>10. Head(events) \notin QueryableFails
    <2>1. ASSUME Head(events) \in QueryableFails
          PROVE  FALSE
      <3>1. Head(events).type = "OperationFailed" /\ Head(events).failed = "Queryable"
        BY <2>1 DEF QueryableFails, Failed
      <3>2. OnOperationFailed
        BY <1>8, <3>1 DEF SideEvent, OnDiscoveryUpdate, OnSubscriptionCreated,
           OnSubscriptionRemoved, OnPublished, OnQueryReply, OnQueryNoResponses, OnPong,
           Process
      <3>3. QED
        BY <3>1, <3>2 DEF OnOperationFailed
    <2>2. QED
      BY <2>1
  <1>11. Holds(events, QueryableFails) => Holds(events', QueryableFails)
    BY <1>1, <1>10, ProcessFacts
  <1>12. QED
    BY <1>2, <1>6, <1>9, <1>11

(* The box is unticked at the start,                                        *)
LEMMA BoxStart == Init => BoxTold
  BY DEF Init, UiInit, BoxTold

(* and every step keeps what it tells.                                      *)
LEMMA BoxKeeps == TypeOK /\ Handshake /\ BoxTold /\ [Next]_vars => BoxTold'
  <1> SUFFICES ASSUME TypeOK, Handshake, BoxTold, [Next]_vars
               PROVE  BoxTold'
    OBVIOUS
  <1>1. CASE UNCHANGED vars
    BY <1>1 DEF vars, chanVars, workerVars, taskVars, uiVars, connVars, BoxTold,
       SessionEnding
  <1>2. QED
    BY <1>1, NextIsUiOrWorker, WorkerKeepsBox, ClicksKeepBox, EventsKeepBox

-----------------------------------------------------------------------------
(* The notice of a query sent.                                              *)

(* The worker takes the query, and its task answers or ends with a word.    *)
LEMMA WorkerKeepsNotice ==
    ASSUME TypeOK, Handshake, NoticeTold, LoopStep \/ TaskNext \/ Dies, UNCHANGED uiVars
    PROVE  NoticeTold'
  <1> DEFINE sel == alert.sel
             Open == \/ Holds(cmds', QueryCmds(sel))
                     \/ queries'[sel] = "waiting"
                     \/ Holds(events', QueryAnswers)
                     \/ drops'
  <1> SUFFICES ASSUME alert.says = "sent", workerAlive', ~SessionEnding'
               PROVE  status' = "Connected" /\ Open
    BY DEF NoticeTold, uiVars
  <1>0. /\ events \in Seq(Event) /\ cmds \in Seq(Command) /\ status' = status
        /\ sel \in Selectors
        /\ queries \in [Selectors -> {"none", "waiting", "sampled", "erred"}]
        /\ drops \in BOOLEAN
    BY DEF TypeOK, ChannelsTypeOK, WorkerTypeOK, UiTypeOK, Alert, uiVars, connVars
  <1>1. ~SessionEnding /\ workerAlive
    BY EndingLastsInWorker, WorkerMoves
  <1>2. /\ status = "Connected"
        /\ \/ Holds(cmds, QueryCmds(sel))
           \/ queries[sel] = "waiting"
           \/ Holds(events, QueryAnswers)
           \/ drops
    BY <1>1 DEF NoticeTold
  <1>3. PICK es \in Seq(Event) : events' = events \o es
    BY WorkerMoves DEF Said
  <1>4. Holds(events, QueryAnswers) => Holds(events', QueryAnswers)
    BY <1>0, <1>3, JoinHolds
  <1>5. /\ Note("QueryReply") \in Event \cap QueryAnswers
        /\ Failed("Query") \in Event \cap QueryAnswers
        /\ NoResponses(sel) \in Event \cap QueryAnswers
    BY <1>0, EventsAreEvents DEF FailedOps, QueryAnswers
  <1>6. ASSUME NEW e \in Event \cap QueryAnswers, Emit(<<e>>)
        PROVE  Open
    <2> DEFINE one == <<e>>
    <2>1. one \in Seq(Event) /\ Holds(one, QueryAnswers)
      BY ShortHolds
    <2>2. events' = events \o one
      BY <1>6 DEF Emit
    <2> HIDE DEF one
    <2>3. QED
      BY <1>0, <2>1, <2>2, JoinHolds
  <1>7. CASE Query
    <2>1. Receive("Query") /\ drops' = drops
      BY <1>7 DEF Query
    <2>2. Head(cmds) \in SessionCmds /\ Took
      BY <1>1, <2>1, ReceiveFacts, CommandClasses DEF Took, Receive
    <2>3. pub
      BY <2>2, SessionCmdHasSession
    <2>4. CASE Emit(<<Failed("Query")>>)
      BY <1>0, <1>2, <1>5, <1>6, <2>4
    <2>5. CASE SetQuery(Head(cmds).sel, "waiting") /\ events' = events
      <3>1. queries'[sel] = queries[sel] \/ queries'[sel] = "waiting"
        BY <1>0, <2>5 DEF SetQuery
      <3>2. Head(cmds) \in QueryCmds(sel) => queries'[sel] = "waiting"
        BY <1>0, <2>5 DEF SetQuery, QueryCmds
      <3>3. Holds(cmds, QueryCmds(sel)) =>
               Head(cmds) \in QueryCmds(sel) \/ Holds(cmds', QueryCmds(sel))
        BY <2>1, ReceiveFacts
      <3>4. QED
        BY <1>0, <1>2, <1>4, <2>1, <3>1, <3>2, <3>3
    <2>6. QED
      BY <1>0, <1>2, <2>3, <2>4, <2>5, <1>7 DEF Query
  <1>8. CASE \E s \in Selectors : ReplySample(s) \/ ReplyError(s) \/ RepliesEnd(s)
    <2> SUFFICES ASSUME NEW s \in Selectors, ReplySample(s) \/ ReplyError(s) \/ RepliesEnd(s)
                 PROVE  Open
      BY <1>0, <1>2, <1>8
    <2>1. cmds' = cmds /\ (drops' = drops \/ drops' = TRUE)
      BY DEF ReplySample, ReplyError, RepliesEnd, TaskStep
    <2>2. CASE s # sel
      <3>1. queries'[sel] = queries[sel]
        BY <1>0, <2>2 DEF ReplySample, ReplyError, RepliesEnd, SetQuery
      <3>2. QED
        BY <1>0, <1>2, <1>4, <2>1, <3>1
    <2>3. CASE s = sel /\ queries[sel] # "waiting"
      BY <1>0, <1>2, <1>4, <2>1, <2>3
    <2>4. CASE s = sel /\ queries[sel] = "waiting"
      <3>1. \/ Emit(<<Note("QueryReply")>>) \/ drops'
            \/ Emit(<<Failed("Query")>>) \/ Emit(<<NoResponses(sel)>>)
        BY <2>4 DEF ReplySample, ReplyError, RepliesEnd, QueryEnds
      <3>2. QED
        BY <1>5, <1>6, <3>1
    <2>5. QED
      BY <2>2, <2>3, <2>4
  <1>9. CASE ~Query /\ ~ \E s \in Selectors :
                            ReplySample(s) \/ ReplyError(s) \/ RepliesEnd(s)
    <2>1. UNCHANGED <<queries, drops>>
      BY <1>9 DEF LoopStep, TaskNext, StartConnect, PublishingOpens, PublishingFails,
         MonitorReturns, Disconnect, Subscribe, Unsubscribe, Redeclare, Publish,
         EnableQueryable, DisableQueryable, Ping, QueryableDeclared, DiscoveryTick,
         AbortedTaskEnds, Dies, taskVars, workerVars
    <2>2. Holds(cmds, QueryCmds(sel)) => Holds(cmds', QueryCmds(sel))
      <3>1. CASE cmds' = cmds
        BY <3>1
      <3>2. CASE Took
        <4>1. Head(cmds) \notin QueryCmds(sel)
          BY <1>9, <3>2, TookMeans DEF QueryCmds
        <4>2. QED
          BY <1>0, <3>2, <4>1, TailHolds DEF Took
      <3>3. QED
        BY <3>1, <3>2, WorkerMoves DEF Dies
    <2>3. QED
      BY <1>0, <1>2, <1>4, <2>1, <2>2
  <1>10. QED
    BY <1>0, <1>2, <1>7, <1>8, <1>9

(* A query posts its command; a dismissed notice says nothing.              *)
LEMMA ClicksKeepNotice ==
    ASSUME TypeOK, NoticeTold, UiClick, UNCHANGED workerVars
    PROVE  NoticeTold'
  <1> SUFFICES ASSUME alert'.says = "sent", workerAlive, ~SessionEnding'
               PROVE  /\ status' = "Connected"
                      /\ \/ Holds(cmds', QueryCmds(alert'.sel))
                         \/ queries'[alert'.sel] = "waiting"
                         \/ Holds(events', QueryAnswers)
                         \/ drops'
    BY ClickPosts DEF NoticeTold
  <1>0. /\ cmds \in Seq(Command) /\ events' = events /\ ~SessionEnding
        /\ UNCHANGED <<queries, drops>>
    BY ClickPosts, ClickKeepsEnding DEF TypeOK, ChannelsTypeOK, workerVars, taskVars
  <1>1. ASSUME NEW sel \in Selectors, Querying(sel)
        PROVE  status' = "Connected" /\ Holds(cmds', QueryCmds(alert'.sel))
    <2>1. /\ status' = "Connected" /\ alert'.sel = sel
          /\ Post([op |-> "Query", sel |-> sel])
      BY <1>1 DEF Querying, ClickQuery, connVars
    <2>2. [op |-> "Query", sel |-> sel] \in Command
      BY CommandsAreCommands
    <2>3. QED
      BY <2>1, <2>2, PostAnswers DEF QueryCmds
  <1>2. CASE ~ \E sel \in Selectors : Querying(sel)
    <2>1. alert' = alert
      <3>1. ~DismissAlert
        BY DEF DismissAlert
      <3>2. QED
        BY <1>2, <3>1
           DEF UiClick, ClickConnect, ClickDisconnect, EditForm, Subscribing,
               ClickSubscribe, ClickUnsubscribe, ClickPublish, ToggleQueryable,
               HealthTick, SendPing, PingTimesOut, UiStalls, uiVars
    <2>2. /\ status = "Connected"
          /\ \/ Holds(cmds, QueryCmds(alert.sel))
             \/ queries[alert.sel] = "waiting"
             \/ Holds(events, QueryAnswers)
             \/ drops
      BY <1>0, <2>1 DEF NoticeTold
    <2>3. ~ClickDisconnect
      BY <1>0, DisconnectEnds
    <2>4. SideClick
      BY <1>2, <2>2, <2>3 DEF UiClick, SideClick, ClickConnect, EditForm
    <2>5. status' = "Connected"
      BY <2>2, <2>4, ClicksAside
    <2>6. Holds(cmds, QueryCmds(alert.sel)) => Holds(cmds', QueryCmds(alert.sel))
      <3>1. cmds' = cmds \/ \E c \in Command : cmds' = cmds \o <<c>>
        BY ClickAppends
      <3>2. ASSUME NEW c \in Command, cmds' = cmds \o <<c>>
            PROVE  Holds(cmds, QueryCmds(alert.sel)) => Holds(cmds', QueryCmds(alert.sel))
        <4>1. <<c>> \in Seq(Command)
          OBVIOUS
        <4>2. QED
          BY <1>0, <3>2, <4>1, JoinHolds
      <3>3. QED
        BY <3>1, <3>2
    <2>7. QED
      BY <1>0, <2>1, <2>2, <2>5, <2>6
  <1>3. QED
    BY <1>1, <1>2

(* Every answer replaces the notice.                                        *)
LEMMA EventsKeepNotice ==
    ASSUME TypeOK, Handshake, NoticeTold, ProcessEvent, UNCHANGED workerVars
    PROVE  NoticeTold'
  <1> SUFFICES ASSUME alert'.says = "sent", workerAlive', ~SessionEnding'
               PROVE  /\ status' = "Connected"
                      /\ \/ Holds(cmds', QueryCmds(alert'.sel))
                         \/ queries'[alert'.sel] = "waiting"
                         \/ Holds(events', QueryAnswers)
                         \/ drops'
    BY DEF NoticeTold
  <1>1. PICK type : Process(type)
    BY DEF ProcessEvent, OnPublishingConnected, OnMonitorConnected, OnDisconnected,
           OnConnectionError, OnDiscoveryUpdate, OnSubscriptionCreated,
           OnSubscriptionRemoved, OnPublished, OnOperationFailed, OnQueryReply,
           OnQueryNoResponses, OnPong
  <1>2. UNCHANGED <<cmds, workerAlive, queries, drops>>
    BY <1>1 DEF Process, workerVars, taskVars
  <1>3. ~OnDisconnected
    BY DEF OnDisconnected, CancelQuery
  <1>4. ~SessionEnding
    BY <1>3, EventKeepsEnding
  <1>5. alert' = alert
    BY <1>3 DEF ProcessEvent, OnPublishingConnected, OnMonitorConnected, OnConnectionError,
       OnDiscoveryUpdate, OnSubscriptionCreated, OnSubscriptionRemoved, OnPublished,
       OnOperationFailed, OnQueryReply, OnQueryNoResponses, OnPong
  <1>6. /\ status = "Connected"
        /\ \/ Holds(cmds, QueryCmds(alert.sel))
           \/ queries[alert.sel] = "waiting"
           \/ Holds(events, QueryAnswers)
           \/ drops
    BY <1>2, <1>4, <1>5 DEF NoticeTold
  <1>7. SideEvent
    BY <1>3, <1>6, ConnectedEventsAside
  <1>8. status' = "Connected"
    BY <1>6, <1>7, SideEventsAside
  <1>9. Head(events) \notin QueryAnswers
    <2>1. ASSUME Head(events) \in QueryAnswers
          PROVE  FALSE
      <3>1. \/ Head(events).type = "OperationFailed" /\ Head(events).failed = "Query"
            \/ Head(events).type = "QueryReply"
            \/ Head(events).type = "QueryNoResponses"
        BY <2>1 DEF QueryAnswers, Failed, Note, NoResponses
      <3>2. OnOperationFailed \/ OnQueryReply \/ OnQueryNoResponses
        BY <1>7, <3>1 DEF SideEvent, OnDiscoveryUpdate, OnSubscriptionCreated,
           OnSubscriptionRemoved, OnPublished, OnPong, Process
      <3>3. Head(events).type = "OperationFailed" <=> OnOperationFailed
        BY <3>2, <1>7 DEF OnOperationFailed, OnQueryReply, OnQueryNoResponses, Process
      <3>4. alert'.says # "sent"
        <4>1. CASE OnOperationFailed
          <5>1. Head(events).failed = "Query"
            BY <3>1, <3>3, <4>1
          <5>2. alert' = [says |-> "failed"]
            BY <4>1, <5>1 DEF OnOperationFailed
          <5>3. QED
            BY <5>2
        <4>2. CASE OnQueryReply
          <5>1. alert.says # "sent" \/ alert' = [says |-> "nothing"]
            BY <4>2 DEF OnQueryReply
          <5>2. QED
            BY <1>5, <5>1
        <4>3. CASE OnQueryNoResponses
          <5>1. alert' = [says |-> "noReplies", sel |-> Head(events).sel]
            BY <1>6, <4>3 DEF OnQueryNoResponses
          <5>2. QED
            BY <5>1
        <4>4. QED
          BY <3>2, <4>1, <4>2, <4>3
      <3>5. QED
        BY <3>4
    <2>2. QED
      BY <2>1
  <1>10. Holds(events, QueryAnswers) => Holds(events', QueryAnswers)
    BY <1>1, <1>9, ProcessFacts
  <1>11. QED
    BY <1>2, <1>5, <1>6, <1>8, <1>10

(* There is no notice at the start,                                         *)
LEMMA NoticeStart == Init => NoticeTold
  BY DEF Init, UiInit, NoticeTold

(* and every step keeps what it tells.                                      *)
LEMMA NoticeKeeps == TypeOK /\ Handshake /\ NoticeTold /\ [Next]_vars => NoticeTold'
  <1> SUFFICES ASSUME TypeOK, Handshake, NoticeTold, [Next]_vars
               PROVE  NoticeTold'
    OBVIOUS
  <1>1. CASE UNCHANGED vars
    BY <1>1 DEF vars, chanVars, workerVars, taskVars, uiVars, connVars, NoticeTold,
       SessionEnding
  <1>2. QED
    BY <1>1, NextIsUiOrWorker, WorkerKeepsNotice, ClicksKeepNotice, EventsKeepNotice

-----------------------------------------------------------------------------
(* Rows.                                                                    *)

CreatedEvs(id) == {e \in Event : e.type = "SubscriptionCreated" /\ e.id = id}
RemovedEvs(id) == {Removed(id)}
RowEvs(id) == CreatedEvs(id) \cup RemovedEvs(id)

\* Events about no row.
Quiet == {e \in Event : e.type \notin {"SubscriptionCreated", "SubscriptionRemoved"}}

WillShow(id) ==
    \/ EndsIn(events, CreatedEvs(id), RowEvs(id))
    \/ ~Holds(events, RowEvs(id)) /\ id \in Ids(rows)
WillHide(id) ==
    \/ EndsIn(events, RemovedEvs(id), RowEvs(id))
    \/ ~Holds(events, RowEvs(id)) /\ id \notin Ids(rows)

\* A row, shown or announced, is of an id given out, under its key.
Agrees(id, key) == id < nextId /\ \A s \in LiveSubs : s.id = id => s.key = key

RowsTold ==
    /\ \A id \in 1 .. nextId - 1 :
          IF id \in Ids(LiveSubs) THEN WillShow(id) ELSE WillHide(id)
    /\ \A r \in rows : Agrees(r.id, r.key)
    /\ \A e \in Event : e.type = "SubscriptionCreated" /\ Holds(events, {e})
                            => Agrees(e.id, e.key)

(* Which events are about which row.                                        *)
LEMMA RowClasses ==
    /\ \A id : CreatedEvs(id) \subseteq RowEvs(id) /\ RemovedEvs(id) \subseteq RowEvs(id)
    /\ \A id, e : e \in Quiet => e \notin RowEvs(id)
    /\ \A id \in SubIds, key \in Keys : \A other :
          /\ Created(id, key) \in CreatedEvs(id)
          /\ Created(id, key) \in RowEvs(other) => other = id
    /\ \A id \in SubIds : \A other :
          /\ Removed(id) \in RemovedEvs(id)
          /\ Removed(id) \in RowEvs(other) => other = id
  BY EventsAreEvents DEF CreatedEvs, RemovedEvs, RowEvs, Quiet, Created, Removed

(* What is said of other rows leaves the last word on this one.             *)
LEMMA SaidOfOthers ==
    ASSUME TypeOK, NEW es \in Seq(Event), events' = events \o es, rows' = rows, NEW id,
           ~Holds(es, RowEvs(id))
    PROVE  (WillShow(id) => WillShow(id)') /\ (WillHide(id) => WillHide(id)')
  <1>1. events \in Seq(Event)
    BY DEF TypeOK, ChannelsTypeOK
  <1>2. \A A : EndsIn(events, A, RowEvs(id)) => EndsIn(events', A, RowEvs(id))
    BY <1>1, JoinEndsIn
  <1>3. ~Holds(events, RowEvs(id)) => ~Holds(events', RowEvs(id))
    BY <1>1, JoinHolds
  <1>4. QED
    BY <1>2, <1>3 DEF WillShow, WillHide, Ids

(* What is said last is the last word.                                      *)
LEMMA SaidLast ==
    ASSUME TypeOK, NEW es \in Seq(Event), events' = events \o es, NEW id
    PROVE  /\ EndsIn(es, CreatedEvs(id), RowEvs(id)) => WillShow(id)'
           /\ EndsIn(es, RemovedEvs(id), RowEvs(id)) => WillHide(id)'
  <1>1. events \in Seq(Event)
    BY DEF TypeOK, ChannelsTypeOK
  <1>2. \A A : EndsIn(es, A, RowEvs(id)) => EndsIn(events', A, RowEvs(id))
    BY <1>1, JoinEndsIn
  <1>3. QED
    BY <1>2 DEF WillShow, WillHide

(* What the UI shows and will show agrees with the worker still when the    *)
(* worker lets subscriptions go or keeps them, and announces no new one.    *)
LEMMA AgreesStill ==
    ASSUME TypeOK, RowsTold, NEW es \in Seq(Event), events' = events \o es, rows' = rows,
           LiveSubs' \subseteq LiveSubs, nextId' = nextId,
           \A e \in Event : e.type = "SubscriptionCreated" /\ Holds(es, {e})
                                => Agrees(e.id, e.key)
    PROVE  /\ \A r \in rows' : Agrees(r.id, r.key)'
           /\ \A e \in Event : e.type = "SubscriptionCreated" /\ Holds(events', {e})
                                   => Agrees(e.id, e.key)'
  <1>1. events \in Seq(Event)
    BY DEF TypeOK, ChannelsTypeOK
  <1>2. \A id, key : Agrees(id, key) => Agrees(id, key)'
    BY DEF Agrees
  <1>3. \A e : Holds(events', {e}) <=> Holds(events, {e}) \/ Holds(es, {e})
    BY <1>1, JoinHolds
  <1>4. QED
    BY <1>2, <1>3 DEF RowsTold

(* A step that says nothing about rows.                                     *)
LEMMA QuietKeepsRows ==
    ASSUME TypeOK, RowsTold, NEW es \in Seq(Quiet), events' = events \o es, rows' = rows,
           LiveSubs' = LiveSubs, nextId' = nextId
    PROVE  RowsTold'
  <1>1. es \in Seq(Event) /\ \A i \in DOMAIN es : es[i] \in Quiet
    BY DEF Quiet
  <1>2. \A id : ~Holds(es, RowEvs(id))
    BY <1>1, RowClasses DEF Holds
  <1>3. \A e : e.type = "SubscriptionCreated" => ~Holds(es, {e})
    BY <1>1 DEF Holds, Quiet
  <1>4. /\ \A r \in rows' : Agrees(r.id, r.key)'
        /\ \A e \in Event : e.type = "SubscriptionCreated" /\ Holds(events', {e})
                                => Agrees(e.id, e.key)'
    BY <1>1, <1>3, AgreesStill
  <1>5. \A id : (WillShow(id) => WillShow(id)') /\ (WillHide(id) => WillHide(id)')
    BY <1>1, <1>2, SaidOfOthers
  <1>6. Ids(LiveSubs)' = Ids(LiveSubs)
    BY DEF Ids
  <1>7. QED
    BY <1>4, <1>5, <1>6 DEF RowsTold

\* The step says nothing about rows.
Hush == \E es \in Seq(Quiet) : events' = events \o es

(* Ways to say nothing about rows.                                          *)
LEMMA QuietSays ==
    ASSUME TypeOK
    PROVE  /\ UNCHANGED events => Hush
           /\ \A e \in Quiet : Emit(<<e>>) => Hush
           /\ \A es \in Seq(Quiet) : Emit(es) => Hush
  <1>1. events \in Seq(Event)
    BY DEF TypeOK, ChannelsTypeOK
  <1>2. <<>> \in Seq(Quiet) /\ events = events \o <<>>
    BY <1>1
  <1>3. \A e \in Quiet : <<e>> \in Seq(Quiet)
    OBVIOUS
  <1>4. QED
    BY <1>2, <1>3 DEF Hush, Emit

(* All but three of the worker's steps move subscriptions at most from one  *)
(* place to another, and say nothing about rows.                            *)
LEMMA QuietSteps ==
    ASSUME TypeOK, WorkerConsistent, LoopStep \/ TaskNext \/ Dies,
           ~Subscribe, ~Unsubscribe, ~ \E s \in redeclaring : Redeclare(s)
    PROVE  Hush /\ LiveSubs' = LiveSubs /\ nextId' = nextId
  <1>1. /\ \A type \in {"PublishingConnected", "MonitorConnected", "Disconnected",
                        "ConnectionError", "DiscoveryUpdate", "Published", "Pong",
                        "QueryReply"} : Note(type) \in Quiet
        /\ \A sel \in Selectors : NoResponses(sel) \in Quiet
        /\ \A op \in FailedOps : Failed(op) \in Quiet
    BY EventsAreEvents DEF Quiet, Note, NoResponses, Failed
  <1>2. \A outcome : MonitorEvents(outcome) \in Seq(Quiet)
    BY <1>1 DEF MonitorEvents, FailedOps
  <1>3. CASE StartConnect
    BY <1>3, QuietSays DEF StartConnect, Teardown, AfterTeardown, LiveSubs
  <1>4. CASE Disconnect
    BY <1>1, <1>4, QuietSays DEF Disconnect, Teardown, AfterTeardown, LiveSubs
  <1>5. CASE PublishingOpens \/ PublishingFails
    BY <1>1, <1>5, QuietSays
       DEF PublishingOpens, PublishingFails, OpenedEvents, OpenFailedEvents, LiveSubs, subVars
  <1>6. CASE MonitorReturns
    <2>1. redeclaring = {}
      BY <1>6 DEF MonitorReturns, WorkerConsistent
    <2>2. LiveSubs' = LiveSubs /\ nextId' = nextId
      BY <1>6, <2>1 DEF MonitorReturns, KeptAfterTake, LiveSubs
    <2>3. Hush
      BY <1>2, <1>6, QuietSays DEF MonitorReturns
    <2>4. QED
      BY <2>2, <2>3
  <1>7. CASE \/ Publish \/ Query \/ EnableQueryable \/ DisableQueryable \/ Ping
             \/ TaskNext \/ Dies
    <2>1. LiveSubs' = LiveSubs /\ nextId' = nextId
      BY <1>7 DEF Publish, Query, EnableQueryable, DisableQueryable, Ping, TaskNext,
         QueryableDeclared, ReplySample, ReplyError, RepliesEnd, TaskStep, DiscoveryTick,
         AbortedTaskEnds, Dies, LiveSubs, subVars, workerVars
    <2>2. CASE Publish
      BY <1>1, <2>1, <2>2, QuietSays DEF Publish, PublishAnswers, FailedOps
    <2>3. CASE Query
      BY <1>1, <2>1, <2>3, QuietSays DEF Query, FailedOps
    <2>4. CASE EnableQueryable \/ DisableQueryable \/ Dies
      BY <2>1, <2>4, QuietSays DEF EnableQueryable, DisableQueryable, Dies
    <2>5. CASE Ping
      BY <1>1, <2>1, <2>5, QuietSays DEF Ping
    <2>6. CASE QueryableDeclared
      BY <1>1, <2>1, <2>6, QuietSays DEF QueryableDeclared, FailedOps
    <2>7. ASSUME NEW sel \in Selectors, ReplySample(sel) \/ ReplyError(sel) \/ RepliesEnd(sel)
          PROVE  Hush
      <3>1. \/ Emit(<<Note("QueryReply")>>) \/ UNCHANGED events
            \/ Emit(<<Failed("Query")>>) \/ Emit(QueryEnds(sel))
        BY <2>7 DEF ReplySample, ReplyError, RepliesEnd
      <3>2. QueryEnds(sel) \in Seq(Quiet)
        BY <1>1 DEF QueryEnds
      <3>3. QED
        BY <1>1, <3>1, <3>2, QuietSays DEF FailedOps
    <2>8. CASE DiscoveryTick
      BY <1>1, <2>1, <2>8, QuietSays DEF DiscoveryTick
    <2>9. ASSUME NEW t, AbortedTaskEnds(t)
          PROVE  Hush
      BY <1>1, <2>9, QuietSays DEF AbortedTaskEnds, FailedOps
    <2>10. QED
      BY <1>7, <2>1, <2>2, <2>3, <2>4, <2>5, <2>6, <2>7, <2>8, <2>9 DEF TaskNext
  <1>8. QED
    BY <1>3, <1>4, <1>5, <1>6, <1>7 DEF LoopStep

(* A new subscription has a new id and announces it, or there is none.      *)
LEMMA SubscribeKeepsRows ==
    ASSUME TypeOK, WorkerConsistent, RowsTold, Subscribe, UNCHANGED uiVars
    PROVE  RowsTold'
  <1>a. PICK key, new : key = Head(cmds).key /\ new = nextId
    OBVIOUS
  <1>0. /\ key \in Keys /\ new \in Nat \ {0} /\ events \in Seq(Event)
        /\ rows' = rows /\ UNCHANGED <<kept, redeclaring>>
    BY <1>a, ReceiveFacts, CommandFields
       DEF Subscribe, TypeOK, WorkerTypeOK, ChannelsTypeOK, uiVars, SubIds
  <1>1. HandleSubscribe(key, new, FALSE)
    BY <1>a DEF Subscribe, FreshId
  <1>2. CASE active' = active
    <2>1. nextId' = nextId /\ LiveSubs' = LiveSubs
      BY <1>0, <1>2 DEF Subscribe, LiveSubs
    <2>2. \A s \in active : s.id < new
      BY <1>a DEF WorkerConsistent, LiveSubs
    <2>3. Sub(new, key) \notin active
      BY <1>0, <2>2 DEF Sub
    <2>4. UNCHANGED events \/ Emit(DeclareFailed(new, FALSE))
      BY <1>1, <1>2, <2>3 DEF HandleSubscribe
    <2>5. DeclareFailed(new, FALSE) \in Seq(Quiet)
      <3>1. Failed("Subscribe") \in Quiet
        BY EventsAreEvents DEF Quiet, Failed, FailedOps
      <3>2. QED
        BY <3>1 DEF DeclareFailed
    <2>6. Hush
      BY <2>4, <2>5, QuietSays
    <2>7. QED
      BY <1>0, <2>1, <2>6, QuietKeepsRows DEF Hush
  <1>3. CASE active' # active
    <2> DEFINE e == Created(new, key)
               es == <<e>>
    <2>1. /\ active' = active \cup {Sub(new, key)} /\ Emit(es)
          /\ nextId' = new + 1
      BY <1>a, <1>1, <1>3 DEF HandleSubscribe, Subscribe
    <2>2. /\ LiveSubs' = LiveSubs \cup {Sub(new, key)}
          /\ events' = events \o es
      BY <1>0, <2>1 DEF LiveSubs, Emit
    <2>3. e \in Event /\ es \in Seq(Event)
      BY <1>0, EventsAreEvents DEF SubIds
    <2>4. \A A : Holds(es, A) <=> e \in A
      BY ShortHolds
    <2>5. EndsIn(es, CreatedEvs(new), RowEvs(new))
      BY <1>0, RowClasses, ShortEnds DEF SubIds
    <2>6. \A id : e \in RowEvs(id) => id = new
      BY <1>0, RowClasses DEF SubIds
    <2>7. e.id = new /\ e.key = key
      BY DEF Created
    <2> HIDE DEF e, es
    <2>8. WillShow(new)'
      BY <2>2, <2>3, <2>5, SaidLast
    <2>10. \A id : id \in Ids(LiveSubs') <=> id \in Ids(LiveSubs) \/ id = new
      <3>1. Sub(new, key).id = new
        BY DEF Sub
      <3>2. QED
        BY <2>2, <3>1 DEF Ids
    <2>11. \A id \in 1 .. nextId' - 1 :
              IF id \in Ids(LiveSubs)' THEN WillShow(id)' ELSE WillHide(id)'
      <3> SUFFICES ASSUME NEW id \in 1 .. new
                   PROVE  IF id \in Ids(LiveSubs)' THEN WillShow(id)' ELSE WillHide(id)'
        BY <1>0, <2>1
      <3>1. Ids(LiveSubs)' = Ids(LiveSubs')
        BY DEF Ids
      <3>2. CASE id = new
        BY <2>8, <2>10, <3>1, <3>2
      <3>3. CASE id # new
        <4>1. id \in 1 .. new - 1
          BY <1>0, <3>3
        <4>2. IF id \in Ids(LiveSubs) THEN WillShow(id) ELSE WillHide(id)
          BY <1>a, <4>1 DEF RowsTold
        <4>3. id \in Ids(LiveSubs)' <=> id \in Ids(LiveSubs)
          BY <2>10, <3>1, <3>3
        <4>4. (WillShow(id) => WillShow(id)') /\ (WillHide(id) => WillHide(id)')
          BY <1>0, <2>2, <2>3, <2>4, <2>6, <3>3, SaidOfOthers
        <4>5. QED
          BY <4>2, <4>3, <4>4
      <3>4. QED
        BY <3>2, <3>3
    <2>12. \A id \in Nat : \A k : Agrees(id, k) => Agrees(id, k)'
      BY <1>a, <1>0, <2>1, <2>2 DEF Agrees, Sub
    <2>13. Agrees(new, key)'
      <3>1. \A s \in LiveSubs : s.id < new
        BY <1>a DEF WorkerConsistent
      <3>2. \A s \in LiveSubs' : s.id = new => s.key = key
        BY <1>0, <2>2, <3>1 DEF Sub
      <3>3. QED
        BY <1>0, <2>1, <3>2 DEF Agrees
    <2>14. \A r \in rows' : Agrees(r.id, r.key)'
      BY <1>0, <2>12 DEF RowsTold, TypeOK, UiTypeOK, SubIds
    <2>15. ASSUME NEW f \in Event, f.type = "SubscriptionCreated", Holds(events', {f})
           PROVE  Agrees(f.id, f.key)'
      <3>1. Holds(events, {f}) \/ f = e
        BY <1>0, <2>2, <2>3, <2>4, <2>15, JoinHolds
      <3>2. f.id \in Nat
        BY <2>15, EventFields DEF SubIds
      <3>3. CASE Holds(events, {f})
        BY <2>12, <2>15, <3>2, <3>3 DEF RowsTold
      <3>4. QED
        BY <2>7, <2>13, <3>1, <3>3
    <2>16. QED
      BY <2>11, <2>14, <2>15 DEF RowsTold
  <1>4. QED
    BY <1>2, <1>3

(* Removing the subscription with an id, and saying so last.                *)
LEMMA RemovalKeepsRows ==
    ASSUME TypeOK, RowsTold, NEW es \in Seq(Event), events' = events \o es, rows' = rows,
           nextId' = nextId, NEW ended \in SubIds,
           LiveSubs' = {s \in LiveSubs : s.id # ended},
           EndsIn(es, RemovedEvs(ended), RowEvs(ended)),
           \A id : id # ended => ~Holds(es, RowEvs(id)),
           \A e : e.type = "SubscriptionCreated" => ~Holds(es, {e})
    PROVE  RowsTold'
  <1>1. /\ \A r \in rows' : Agrees(r.id, r.key)'
        /\ \A e \in Event : e.type = "SubscriptionCreated" /\ Holds(events', {e})
                                => Agrees(e.id, e.key)'
    BY AgreesStill
  <1>2. WillHide(ended)'
    BY SaidLast
  <1>3. \A id : id # ended => /\ WillShow(id) => WillShow(id)'
                              /\ WillHide(id) => WillHide(id)'
    BY SaidOfOthers
  <1>4. \A id : id \in Ids(LiveSubs)' <=> id \in Ids(LiveSubs) /\ id # ended
    BY DEF Ids
  <1>5. QED
    BY <1>1, <1>2, <1>3, <1>4 DEF RowsTold

(* A kept subscription is announced again under its id, or ends.            *)
LEMMA RedeclareKeepsRows ==
    ASSUME TypeOK, WorkerConsistent, RowsTold, NEW s \in redeclaring, Redeclare(s),
           UNCHANGED uiVars
    PROVE  RowsTold'
  <1>0. /\ s.key \in Keys /\ s.id \in SubIds /\ s = Sub(s.id, s.key)
        /\ rows' = rows /\ events \in Seq(Event)
    BY DEF TypeOK, WorkerTypeOK, ChannelsTypeOK, Subscription, Sub, uiVars
  <1>1. /\ HandleSubscribe(s.key, s.id, TRUE) /\ redeclaring' = redeclaring \ {s}
        /\ UNCHANGED <<kept, nextId>>
    BY DEF Redeclare
  <1>2. pub /\ kept = {} /\ s \notin active
    BY DEF Redeclare, WorkerConsistent
  <1>3. /\ s \in LiveSubs /\ s.id < nextId
        /\ \A u \in LiveSubs : u.id = s.id => u = s
    BY DEF WorkerConsistent, LiveSubs
  <1>4. CASE /\ active' = active \cup {Sub(s.id, s.key)}
             /\ Emit(<<Created(s.id, s.key)>>)
    <2> DEFINE e == Created(s.id, s.key)
               es == <<e>>
    <2>1. LiveSubs' = LiveSubs
      BY <1>0, <1>1, <1>4 DEF LiveSubs
    <2>2. events' = events \o es
      BY <1>4 DEF Emit
    <2>3. e \in Event /\ es \in Seq(Event)
      BY <1>0, EventsAreEvents
    <2>4. \A A : Holds(es, A) <=> e \in A
      BY ShortHolds
    <2>5. EndsIn(es, CreatedEvs(s.id), RowEvs(s.id))
      BY <1>0, RowClasses, ShortEnds
    <2>6. \A id : e \in RowEvs(id) => id = s.id
      BY <1>0, RowClasses
    <2>7. e.id = s.id /\ e.key = s.key
      BY DEF Created
    <2> HIDE DEF e, es
    <2>8. Agrees(s.id, s.key)
      BY <1>3 DEF Agrees
    <2>9. /\ \A r \in rows' : Agrees(r.id, r.key)'
          /\ \A f \in Event : f.type = "SubscriptionCreated" /\ Holds(events', {f})
                                  => Agrees(f.id, f.key)'
      BY <1>0, <1>1, <2>1, <2>2, <2>3, <2>4, <2>7, <2>8, AgreesStill
    <2>10. WillShow(s.id)'
      BY <2>2, <2>3, <2>5, SaidLast
    <2>11. \A id : id # s.id => /\ WillShow(id) => WillShow(id)'
                                /\ WillHide(id) => WillHide(id)'
      BY <1>0, <2>2, <2>3, <2>4, <2>6, SaidOfOthers
    <2>12. Ids(LiveSubs)' = Ids(LiveSubs) /\ s.id \in Ids(LiveSubs)
      BY <1>3, <2>1 DEF Ids
    <2>13. QED
      BY <1>1, <2>9, <2>10, <2>11, <2>12 DEF RowsTold
  <1>5. CASE active' = active /\ Emit(DeclareFailed(s.id, TRUE))
    <2> DEFINE r == Removed(s.id)
               f == Failed("Subscribe")
               es == <<r, f>>
    <2>1. events' = events \o es
      BY <1>5 DEF Emit, DeclareFailed
    <2>2. /\ r \in Event /\ f \in Event /\ f \in Quiet
          /\ r.type = "SubscriptionRemoved" /\ f.type = "OperationFailed"
      BY <1>0, EventsAreEvents DEF Quiet, Failed, FailedOps, Removed
    <2>3. es \in Seq(Event)
      BY <2>2
    <2>4. \A A : Holds(es, A) <=> r \in A \/ f \in A
      BY ShortHolds
    <2>5. EndsIn(es, RemovedEvs(s.id), RowEvs(s.id))
      BY <1>0, <2>2, RowClasses, ShortEnds
    <2>6. \A id : r \in RowEvs(id) => id = s.id
      BY <1>0, RowClasses
    <2>7. \A id : f \notin RowEvs(id)
      BY <2>2, RowClasses
    <2> HIDE DEF r, f, es
    <2>8. LiveSubs' = {u \in LiveSubs : u.id # s.id}
      BY <1>1, <1>2, <1>3, <1>5 DEF LiveSubs
    <2>9. \A id : id # s.id => ~Holds(es, RowEvs(id))
      BY <2>4, <2>6, <2>7
    <2>10. \A e : e.type = "SubscriptionCreated" => ~Holds(es, {e})
      BY <2>2, <2>4
    <2>11. QED
      BY <1>0, <1>1, <2>1, <2>3, <2>5, <2>8, <2>9, <2>10, RemovalKeepsRows
  <1>6. QED
    BY <1>1, <1>2, <1>4, <1>5 DEF HandleSubscribe

(* An ended subscription is announced, unless there was none.               *)
LEMMA UnsubscribeKeepsRows ==
    ASSUME TypeOK, WorkerConsistent, RowsTold, Unsubscribe, UNCHANGED uiVars
    PROVE  RowsTold'
  <1>a. PICK id : id = Head(cmds).id
    OBVIOUS
  <1>0. /\ id \in SubIds /\ rows' = rows /\ events \in Seq(Event) /\ redeclaring = {}
        /\ UNCHANGED <<nextId, redeclaring>>
    BY <1>a, ReceiveFacts, CommandFields
       DEF Unsubscribe, Receive, Idle, TypeOK, ChannelsTypeOK, uiVars
  <1>1. /\ kept' = kept \ WithId(kept, id) /\ active' = active \ WithId(active, id)
        /\ Emit(UnsubscribeAnswers(id))
    BY <1>a DEF Unsubscribe
  <1>2. LiveSubs' = {s \in LiveSubs : s.id # id}
    BY <1>0, <1>1 DEF LiveSubs, WithId
  <1>3. CASE WithId(kept, id) = {} /\ WithId(active, id) = {}
    <2>1. LiveSubs' = LiveSubs
      BY <1>0, <1>1, <1>3 DEF LiveSubs
    <2>2. UnsubscribeAnswers(id) \in Seq(Quiet)
      BY <1>3 DEF UnsubscribeAnswers
    <2>3. QED
      BY <1>0, <1>1, <2>1, <2>2, QuietKeepsRows DEF Emit
  <1>4. CASE ~(WithId(kept, id) = {} /\ WithId(active, id) = {})
    <2> DEFINE r == Removed(id)
               es == UnsubscribeAnswers(id)
    <2>1. es = <<r>>
      <3>1. r \in Event /\ <<r>> \in Seq(Event)
        BY <1>0, EventsAreEvents
      <3>2. <<r>> \o <<>> = <<r>> /\ <<>> \o <<r>> = <<r>>
        BY <3>1
      <3>3. WithId(kept, id) = {} \/ WithId(active, id) = {}
        <4>1. \A s \in kept, u \in active : s.id # u.id
          BY DEF WorkerConsistent, LiveSubs
        <4>2. QED
          BY <4>1 DEF WithId
      <3>4. QED
        BY <1>4, <3>2, <3>3 DEF UnsubscribeAnswers
    <2>2. r \in Event /\ r.type = "SubscriptionRemoved" /\ r \in RemovedEvs(id)
      BY <1>0, EventsAreEvents, RowClasses DEF Removed
    <2>3. \A other : r \in RowEvs(other) => other = id
      BY <1>0, RowClasses
    <2>4. events' = events \o es
      BY <1>1 DEF Emit
    <2> HIDE DEF r, es
    <2>5. es \in Seq(Event)
      <3>1. <<r>> \in Seq(Event)
        BY <2>2
      <3>2. QED
        BY <2>1, <3>1
    <2>6. \A A : Holds(es, A) <=> r \in A
      BY <2>1, ShortHolds
    <2>7. EndsIn(es, RemovedEvs(id), RowEvs(id))
      BY <2>1, <2>2, ShortEnds
    <2>8. \A other : other # id => ~Holds(es, RowEvs(other))
      BY <2>3, <2>6
    <2>9. \A e : e.type = "SubscriptionCreated" => ~Holds(es, {e})
      BY <2>2, <2>6
    <2>10. QED
      BY <1>0, <1>2, <2>4, <2>5, <2>7, <2>8, <2>9, RemovalKeepsRows
  <1>5. QED
    BY <1>3, <1>4

(* So every step of the worker keeps the rows told,                         *)
LEMMA WorkerKeepsRows ==
    ASSUME TypeOK, WorkerConsistent, RowsTold, LoopStep \/ TaskNext \/ Dies,
           UNCHANGED uiVars
    PROVE  RowsTold'
  <1>1. CASE ~Subscribe /\ ~Unsubscribe /\ ~ \E s \in redeclaring : Redeclare(s)
    BY <1>1, QuietSteps, QuietKeepsRows DEF Hush, uiVars
  <1>2. QED
    BY <1>1, SubscribeKeepsRows, UnsubscribeKeepsRows, RedeclareKeepsRows

(* as does every click, since the row stays until the worker answers.       *)
LEMMA ClicksKeepRows ==
    ASSUME TypeOK, RowsTold, UiClick, UNCHANGED workerVars
    PROVE  RowsTold'
  <1>1. UNCHANGED <<events, rows>>
    BY ClickPosts
       DEF UiClick, ClickConnect, ClickDisconnect, EditForm, Subscribing, ClickSubscribe,
           ClickUnsubscribe, ClickPublish, ToggleQueryable, Querying, ClickQuery,
           DismissAlert, HealthTick, SendPing, PingTimesOut, UiStalls, uiVars
  <1>2. QED
    BY <1>1
       DEF RowsTold, Agrees, WillShow, WillHide, LiveSubs, Ids, workerVars, subVars

(* Handling an event that adds or removes a row makes its word come true;   *)
(* the last word on each id stands.                                         *)
LEMMA EventsKeepRows ==
    ASSUME TypeOK, RowsTold, ProcessEvent, UNCHANGED workerVars
    PROVE  RowsTold'
  <1>0. /\ events \in Seq(Event) /\ UNCHANGED <<LiveSubs, nextId>>
        /\ rows \subseteq [id : SubIds, key : Keys]
    BY DEF TypeOK, ChannelsTypeOK, UiTypeOK, LiveSubs, workerVars, subVars
  <1>1. /\ events # <<>> /\ events' = Tail(events)
        /\ Head(events) \in Event
    BY ProcessFacts
       DEF ProcessEvent, OnPublishingConnected, OnMonitorConnected, OnDisconnected,
           OnConnectionError, OnDiscoveryUpdate, OnSubscriptionCreated,
           OnSubscriptionRemoved, OnPublished, OnOperationFailed, OnQueryReply,
           OnQueryNoResponses, OnPong
  <1>2. PICK e \in Event : e = Head(events)
    BY <1>1
  <1>3. \A A : Holds(events, A) <=> e \in A \/ Holds(events', A)
    BY <1>0, <1>1, <1>2, TailHolds
  <1>4. \A A, R : A \subseteq R /\ EndsIn(events, A, R)
                     => EndsIn(events', A, R) \/ (e \in A /\ ~Holds(events', R))
    BY <1>0, <1>1, <1>2, TailEndsIn
  <1>5. /\ e.type = "SubscriptionCreated" =>
              rows' = IF \E r \in rows : r.id = e.id THEN rows
                      ELSE rows \cup {[id |-> e.id, key |-> e.key]}
        /\ e.type = "SubscriptionRemoved" => rows' = {r \in rows : r.id # e.id}
        /\ e.type \notin {"SubscriptionCreated", "SubscriptionRemoved"} => rows' = rows
    BY <1>2
       DEF ProcessEvent, Process, OnPublishingConnected, OnMonitorConnected,
           OnDisconnected, OnConnectionError, OnDiscoveryUpdate, OnSubscriptionCreated,
           OnSubscriptionRemoved, OnPublished, OnOperationFailed, OnQueryReply,
           OnQueryNoResponses, OnPong
  <1>6. \A id : /\ e \in CreatedEvs(id) <=> e.type = "SubscriptionCreated" /\ e.id = id
                /\ e \in RemovedEvs(id) <=> e.type = "SubscriptionRemoved" /\ e.id = id
    BY DEF CreatedEvs, RemovedEvs, Removed, Event
  <1>7. \A id : /\ e \in CreatedEvs(id) => id \in Ids(rows')
                /\ e \in RemovedEvs(id) => id \notin Ids(rows')
                /\ e \notin RowEvs(id) => (id \in Ids(rows') <=> id \in Ids(rows))
    <2> SUFFICES ASSUME NEW id
                 PROVE  /\ e \in CreatedEvs(id) => id \in Ids(rows')
                        /\ e \in RemovedEvs(id) => id \notin Ids(rows')
                        /\ e \notin RowEvs(id) => (id \in Ids(rows') <=> id \in Ids(rows))
      OBVIOUS
    <2>1. CASE e.type = "SubscriptionCreated"
      <3> DEFINE new == [id |-> e.id, key |-> e.key]
      <3>1. new.id = e.id
        OBVIOUS
      <3>2. \/ rows' = rows /\ \E r \in rows : r.id = e.id
            \/ rows' = rows \cup {new}
        BY <1>5, <2>1
      <3> HIDE DEF new
      <3>3. \A other : other \in Ids(rows') <=> other \in Ids(rows) \/ other = e.id
        BY <3>1, <3>2 DEF Ids
      <3>4. QED
        BY <1>6, <2>1, <3>3 DEF RowEvs
    <2>2. CASE e.type = "SubscriptionRemoved"
      <3>1. \A other : other \in Ids(rows') <=> other \in Ids(rows) /\ other # e.id
        BY <1>5, <2>2 DEF Ids
      <3>2. QED
        BY <1>6, <2>2, <3>1 DEF RowEvs
    <2>3. CASE e.type \notin {"SubscriptionCreated", "SubscriptionRemoved"}
      BY <1>5, <1>6, <2>3 DEF RowEvs
    <2>4. QED
      BY <2>1, <2>2, <2>3
  <1>8. \A id : (WillShow(id) => WillShow(id)') /\ (WillHide(id) => WillHide(id)')
    <2> SUFFICES ASSUME NEW id
                 PROVE  (WillShow(id) => WillShow(id)') /\ (WillHide(id) => WillHide(id)')
      OBVIOUS
    <2>1. CreatedEvs(id) \subseteq RowEvs(id) /\ RemovedEvs(id) \subseteq RowEvs(id)
      BY DEF RowEvs
    <2>2. Ids(rows)' = Ids(rows')
      BY DEF Ids
    <2>3. ASSUME WillShow(id)
          PROVE  WillShow(id)'
      BY <1>3, <1>4, <1>7, <2>1, <2>2, <2>3 DEF WillShow
    <2>4. ASSUME WillHide(id)
          PROVE  WillHide(id)'
      BY <1>3, <1>4, <1>7, <2>1, <2>2, <2>4 DEF WillHide
    <2>5. QED
      BY <2>3, <2>4
  <1>9. \A id, key : Agrees(id, key) => Agrees(id, key)'
    BY <1>0 DEF Agrees
  <1>10. \A r \in rows' : Agrees(r.id, r.key)
    <2>1. e.type = "SubscriptionCreated" => Agrees(e.id, e.key)
      BY <1>3 DEF RowsTold
    <2>2. \A r \in rows' : \/ r \in rows
                           \/ /\ e.type = "SubscriptionCreated"
                              /\ r.id = e.id /\ r.key = e.key
      BY <1>5
    <2>3. QED
      BY <2>1, <2>2 DEF RowsTold
  <1>11. \A f : Holds(events', {f}) => Holds(events, {f})
    BY <1>3
  <1>12. QED
    BY <1>0, <1>8, <1>9, <1>10, <1>11 DEF RowsTold, Ids

(* There is no row at the start,                                            *)
LEMMA RowsStart == Init => RowsTold
  BY DEF Init, ChannelsInit, WorkerInit, UiInit, RowsTold, Holds

(* and every step keeps the rows told.                                      *)
LEMMA RowsKeep == TypeOK /\ WorkerConsistent /\ RowsTold /\ [Next]_vars => RowsTold'
  <1> SUFFICES ASSUME TypeOK, WorkerConsistent, RowsTold, [Next]_vars
               PROVE  RowsTold'
    OBVIOUS
  <1>1. CASE UNCHANGED vars
    BY <1>1 DEF vars, chanVars, workerVars, subVars, uiVars, RowsTold, Agrees, WillShow,
       WillHide, LiveSubs, Ids
  <1>2. QED
    BY <1>1, NextIsUiOrWorker, WorkerKeepsRows, ClicksKeepRows, EventsKeepRows

(* The last word on a row is what RowWillShow says.                         *)
LEMMA LastWord ==
    ASSUME TypeOK, NEW id
    PROVE  (WillShow(id) => RowWillShow(id)) /\ (WillHide(id) => ~RowWillShow(id))
  <1>1. events \in Seq(Event) /\ \A i \in DOMAIN events : events[i] \in Event
    BY DEF TypeOK, ChannelsTypeOK
  <1>2. \A e \in Event :
           /\ e \in CreatedEvs(id) <=> e.type = "SubscriptionCreated" /\ e.id = id
           /\ e \in RemovedEvs(id) <=> e.type = "SubscriptionRemoved" /\ e.id = id
    BY DEF CreatedEvs, RemovedEvs, Removed, Event
  <1>3. RowEvents(id) = {i \in DOMAIN events : events[i] \in RowEvs(id)}
    BY <1>1, <1>2 DEF RowEvents, RowEvs
  <1>4. ~Holds(events, RowEvs(id)) <=> RowEvents(id) = {}
    BY <1>3 DEF Holds
  <1>5. ASSUME NEW A, A \subseteq RowEvs(id), EndsIn(events, A, RowEvs(id))
        PROVE  /\ RowEvents(id) # {}
               /\ events[CHOOSE i \in RowEvents(id) : \A j \in RowEvents(id) : j <= i] \in A
    <2>1. PICK i \in DOMAIN events :
             events[i] \in A /\ \A j \in DOMAIN events : events[j] \in RowEvs(id) => j <= i
      BY <1>5 DEF EndsIn
    <2>2. i \in RowEvents(id) /\ \A j \in RowEvents(id) : j <= i
      BY <1>3, <1>5, <2>1
    <2> DEFINE last == CHOOSE k \in RowEvents(id) : \A j \in RowEvents(id) : j <= k
    <2>3. last \in RowEvents(id) /\ \A j \in RowEvents(id) : j <= last
      BY <2>2
    <2> HIDE DEF last
    <2>4. i <= last /\ last <= i
      BY <2>2, <2>3
    <2>5. RowEvents(id) \subseteq Nat
      BY <1>1, <1>3
    <2>6. last = i
      BY <2>2, <2>3, <2>4, <2>5
    <2>7. QED
      BY <2>1, <2>2, <2>6 DEF last
  <1>6. CreatedEvs(id) \subseteq RowEvs(id) /\ RemovedEvs(id) \subseteq RowEvs(id)
    BY DEF RowEvs
  <1>7. \A e : /\ e \in CreatedEvs(id) => e.type = "SubscriptionCreated"
               /\ e \in RemovedEvs(id) => e.type # "SubscriptionCreated"
    BY DEF CreatedEvs, RemovedEvs, Removed
  <1>8. ASSUME WillShow(id)
        PROVE  RowWillShow(id)
    <2>1. CASE EndsIn(events, CreatedEvs(id), RowEvs(id))
      BY <1>5, <1>6, <1>7, <2>1 DEF RowWillShow
    <2>2. QED
      BY <1>4, <1>8, <2>1 DEF WillShow, RowWillShow
  <1>9. ASSUME WillHide(id)
        PROVE  ~RowWillShow(id)
    <2>1. CASE EndsIn(events, RemovedEvs(id), RowEvs(id))
      BY <1>5, <1>6, <1>7, <2>1 DEF RowWillShow
    <2>2. QED
      BY <1>4, <1>9, <2>1 DEF WillHide, RowWillShow
  <1>10. QED
    BY <1>8, <1>9

-----------------------------------------------------------------------------
(* The words of the properties are the classes of commands and events.      *)
LEMMA CommandWords ==
    ASSUME TypeOK
    PROVE  /\ InCmds("Connect") <=> Holds(cmds, Connects)
           /\ InCmds("Disconnect") <=> Holds(cmds, Disconnects)
           /\ Holds(cmds, PublishCmds) => InCmds("Publish")
           /\ Trails(cmds, Enables, Disables) => InCmds("EnableQueryable")
           /\ \A sel : Holds(cmds, QueryCmds(sel)) => Queued(QueryCmds(sel)) # {}
  <1>1. \A i \in DOMAIN cmds : cmds[i] \in Command
    BY DEF TypeOK, ChannelsTypeOK
  <1>2. /\ InCmds("Connect") <=> Holds(cmds, Connects)
        /\ InCmds("Disconnect") <=> Holds(cmds, Disconnects)
    BY <1>1, CommandClasses DEF InCmds, Holds
  <1>3. /\ Holds(cmds, PublishCmds) => InCmds("Publish")
        /\ Trails(cmds, Enables, Disables) => InCmds("EnableQueryable")
    BY DEF InCmds, Holds, Trails, PublishCmds, Enables, Plainly
  <1>4. \A sel : Holds(cmds, QueryCmds(sel)) => Queued(QueryCmds(sel)) # {}
    BY DEF Holds, Queued
  <1>5. QED
    BY <1>2, <1>3, <1>4

(* The same for events.                                                     *)
LEMMA EventWords ==
    ASSUME TypeOK
    PROVE  /\ InEvents("Disconnected") <=> Holds(events, EndedEvs)
           /\ InEvents("ConnectionError") <=> Holds(events, ErrorEvs)
           /\ InEvents("PublishingConnected") <=> Holds(events, OpenedEvs)
           /\ InEvents("MonitorConnected") <=> Holds(events, MonitoredEvs)
           /\ Holds(events, PublishEvs) =>
                 InEvents("Published") \/ FailureInEvents("Publish")
           /\ Holds(events, QueryableFails) => FailureInEvents("Queryable")
           /\ Holds(events, QueryAnswers) =>
                 \/ FailureInEvents("Query") \/ InEvents("QueryReply")
                 \/ InEvents("QueryNoResponses")
           /\ \A key : Holds(events, ClearingEvs(key)) =>
                 \/ FailureInEvents("Subscribe")
                 \/ \E i \in DOMAIN events :
                       events[i].type = "SubscriptionCreated" /\ events[i].key = key
  <1>1. \A i \in DOMAIN events : events[i] \in Event
    BY DEF TypeOK, ChannelsTypeOK
  <1>2. /\ InEvents("Disconnected") <=> Holds(events, EndedEvs)
        /\ InEvents("ConnectionError") <=> Holds(events, ErrorEvs)
        /\ InEvents("PublishingConnected") <=> Holds(events, OpenedEvs)
        /\ InEvents("MonitorConnected") <=> Holds(events, MonitoredEvs)
    BY <1>1, EventClasses DEF InEvents, Holds
  <1>3. Holds(events, PublishEvs) => InEvents("Published") \/ FailureInEvents("Publish")
    BY DEF Holds, PublishEvs, InEvents, FailureInEvents, Note
  <1>4. Holds(events, QueryableFails) => FailureInEvents("Queryable")
    BY DEF Holds, QueryableFails, FailureInEvents
  <1>5. Holds(events, QueryAnswers) =>
           \/ FailureInEvents("Query") \/ InEvents("QueryReply")
           \/ InEvents("QueryNoResponses")
    BY DEF Holds, QueryAnswers, InEvents, FailureInEvents, Note, NoResponses
  <1>6. \A e \in Event : e.type = "OperationFailed" /\ e.failed = "Subscribe"
                            => e = Failed("Subscribe")
    BY DEF Event, Failed
  <1>7. ASSUME NEW key, Holds(events, ClearingEvs(key))
        PROVE  \/ FailureInEvents("Subscribe")
               \/ \E i \in DOMAIN events :
                     events[i].type = "SubscriptionCreated" /\ events[i].key = key
    <2>1. PICK i \in DOMAIN events : events[i] \in ClearingEvs(key)
      BY <1>7 DEF Holds
    <2>2. CASE events[i].type = "OperationFailed" /\ events[i].failed = "Subscribe"
      BY <1>1, <1>6, <2>1, <2>2 DEF FailureInEvents
    <2>3. QED
      BY <2>1, <2>2 DEF ClearingEvs
  <1>8. QED
    BY <1>2, <1>3, <1>4, <1>5, <1>7

-----------------------------------------------------------------------------
(* The theorems.                                                            *)

(* What a session's commands, awaits, events and the UI's status can be at  *)
(* once: the stages of one connect, in order, and never two at a time.      *)
THEOREM HandshakeInOrder == Spec => []Handshake
  <1>1. QED
    BY TypeCorrect, HandshakeStart, HandshakeKeeps, PTL DEF Spec

(* While the UI says Connected the worker has the publishing session, is    *)
(* not opening another, and nothing in either queue can end it.             *)
THEOREM ConnectedMeansSessionAlways == Spec => []ConnectedMeansSession
  <1>1. TypeOK /\ Handshake => ConnectedMeansSession
    <2> SUFFICES ASSUME TypeOK, Handshake, status = "Connected"
                 PROVE  ConnectedMeansSession
      BY DEF ConnectedMeansSession
    <2>1. ~Holds(events, SessionEvs) /\ ~Holds(cmds, Enders) /\ pub /\ wpc = "ready"
      BY DEF Handshake, Stages
    <2>2. QED
      BY <2>1, Parts, CommandWords, EventWords DEF ConnectedMeansSession
  <1>2. QED
    BY <1>1, TypeCorrect, HandshakeInOrder, PTL

(* When Connected, the header's "monitor off" is this session's own verdict. *)
THEOREM MonitorFlagTruthfulAlways == Spec => []MonitorFlagTruthful
  <1>1. MonitorReported => MonitorFlagTruthful
    BY DEF MonitorReported, MonitorFlagTruthful
  <1>2. QED
    BY <1>1, TypeCorrect, HandshakeInOrder, MonitorStart, MonitorKeeps, PTL DEF Spec

(* Every request that shows as pending is queued, or its answer is queued   *)
(* before any event that ends its session.                                  *)
THEOREM AnswersComeFirst == Spec => []AnswersFirst
  <1>1. QED
    BY TypeCorrect, HandshakeInOrder, AnswersStart, AnswersKeep, PTL DEF Spec

(* The end of a session finds no publish and no subscribe pending.          *)
THEOREM EndOfSessionFindsNothingAlways == Spec => []EndOfSessionFindsNothingPending
  <1>1. TypeOK /\ Handshake /\ AnswersFirst => EndOfSessionFindsNothingPending
    <2> SUFFICES ASSUME TypeOK, Handshake, AnswersFirst,
                        NextIs("Disconnected") \/ NextIs("ConnectionError")
                 PROVE  publish # "sending" /\ pending = {}
      BY DEF EndOfSessionFindsNothingPending
    <2>1. events # <<>> /\ Head(events) \in Event
      BY HeadTail DEF NextIs, TypeOK, ChannelsTypeOK
    <2>2. Head(events) \in Ends
      BY <2>1, EventClasses DEF NextIs, Ends
    <2>3. pending \subseteq Keys
      BY DEF TypeOK, UiTypeOK
    <2>4. QED
      BY <2>1, <2>2, <2>3, EndFindsNothing, Requests DEF AnswersFirst
  <1>2. QED
    BY <1>1, TypeCorrect, HandshakeInOrder, AnswersComeFirst, PTL

(* A publish that shows "Sending" has its command or its answer queued.     *)
THEOREM SendingHasAnswerAlways == Spec => []SendingHasAnswer
  <1>1. TypeOK /\ AnswersFirst => SendingHasAnswer
    <2> SUFFICES ASSUME TypeOK, AnswersFirst, publish = "sending", workerAlive
                 PROVE  SendingHasAnswer
      BY DEF SendingHasAnswer
    <2>1. Holds(cmds, PublishCmds) \/ Holds(events, PublishEvs)
      BY LeadsHolds DEF AnswersFirst, Answered, Over
    <2>2. QED
      BY <2>1, CommandWords, EventWords DEF SendingHasAnswer
  <1>2. QED
    BY <1>1, TypeCorrect, AnswersComeFirst, PTL

(* A key that shows "Subscribing" has its command, or an event that clears  *)
(* it, queued.                                                              *)
THEOREM PendingHasAnswerAlways == Spec => []PendingHasAnswer
  <1>1. TypeOK /\ AnswersFirst => PendingHasAnswer
    <2> SUFFICES ASSUME TypeOK, AnswersFirst, workerAlive, NEW key \in pending
                 PROVE  \/ [op |-> "Subscribe", key |-> key] \in {cmds[i] : i \in DOMAIN cmds}
                        \/ \E i \in DOMAIN events :
                              events[i].type = "SubscriptionCreated" /\ events[i].key = key
                        \/ FailureInEvents("Subscribe")
      BY DEF PendingHasAnswer
    <2>1. Holds(cmds, SubscribeCmds(key)) \/ Holds(events, ClearingEvs(key))
      BY LeadsHolds DEF AnswersFirst, Answered, Over
    <2>2. CASE Holds(cmds, SubscribeCmds(key))
      BY <2>2 DEF Holds, SubscribeCmds
    <2>3. CASE Holds(events, ClearingEvs(key))
      BY <2>3, EventWords
    <2>4. QED
      BY <2>1, <2>2, <2>3
  <1>2. QED
    BY <1>1, TypeCorrect, AnswersComeFirst, PTL

(* "Active" beside the checkbox never outlives the queryable unannounced.   *)
THEOREM ActiveQueryableRunsAlways == Spec => []ActiveQueryableRuns
  <1>1. TypeOK /\ BoxTold => ActiveQueryableRuns
    BY CommandWords, EventWords DEF BoxTold, SessionEnding, ActiveQueryableRuns
  <1>2. QED
    BY <1>1, TypeCorrect, HandshakeInOrder, BoxStart, BoxKeeps, PTL DEF Spec

(* "Waiting for responses" has something to wait for.                       *)
THEOREM WaitingQueryHasAnswerAlways == Spec => []WaitingQueryHasAnswer
  <1>1. TypeOK /\ NoticeTold => WaitingQueryHasAnswer
    BY CommandWords, EventWords
       DEF NoticeTold, SessionEnding, WaitingQueryHasAnswer, QueryCmds
  <1>2. QED
    BY <1>1, TypeCorrect, HandshakeInOrder, NoticeStart, NoticeKeeps, PTL DEF Spec

(* Once the queued events are processed the UI shows a row for exactly the  *)
(* subscriptions the worker holds, under their keys.                        *)
THEOREM RowsMatchWorkerAlways == Spec => []RowsMatchWorker
  <1>1. TypeOK /\ RowsTold => RowsMatchWorker
    <2> SUFFICES ASSUME TypeOK, RowsTold
                 PROVE  RowsMatchWorker
      OBVIOUS
    <2>1. \A id \in 1 .. nextId - 1 : id \in Ids(LiveSubs) <=> RowWillShow(id)
      BY LastWord DEF RowsTold
    <2>2. ASSUME NEW r \in rows, NEW s \in LiveSubs, r.id = s.id
          PROVE  r = s
      <3>1. r.key = s.key
        BY <2>2 DEF RowsTold, Agrees
      <3>2. r \in [id : SubIds, key : Keys] /\ s \in [id : SubIds, key : Keys]
        BY DEF TypeOK, UiTypeOK, WorkerTypeOK, LiveSubs, Subscription
      <3>3. QED
        BY <2>2, <3>1, <3>2
    <2>3. QED
      BY <2>1, <2>2 DEF RowsMatchWorker
  <1>2. QED
    BY <1>1, TypeCorrect, BookkeepingHolds, RowsStart, RowsKeep, PTL DEF Spec
=============================================================================
