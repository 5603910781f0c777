--------------------------- MODULE ExplorerProofs ---------------------------
(***************************************************************************)
(* What holds of Explorer for every number of keys, selectors, commands    *)
(* and events: type correctness, the worker's bookkeeping, and that the    *)
(* worker's subscriptions implement Subscriptions.                         *)
(***************************************************************************)
EXTENDS Explorer, TLAPS

-----------------------------------------------------------------------------
(* Queues.                                                                  *)

(* Receiving: the head of a non-empty queue of S is in S, the rest is a     *)
(* queue of S.                                                              *)
LEMMA HeadTail ==
    ASSUME NEW S, NEW q \in Seq(S), q # <<>>
    PROVE  /\ Head(q) \in S
           /\ Tail(q) \in Seq(S)
  OBVIOUS

(* What the worker can say is an event.                                     *)
LEMMA EventsAreEvents ==
    /\ Note("PublishingConnected") \in Event
    /\ Note("MonitorConnected") \in Event
    /\ Note("Disconnected") \in Event
    /\ Note("ConnectionError") \in Event
    /\ Note("DiscoveryUpdate") \in Event
    /\ Note("Published") \in Event
    /\ Note("Pong") \in Event
    /\ Note("QueryReply") \in Event
    /\ \A id \in SubIds, key \in Keys : Created(id, key) \in Event
    /\ \A id \in SubIds : Removed(id) \in Event
    /\ \A sel \in Selectors : NoResponses(sel) \in Event
    /\ \A op \in FailedOps : Failed(op) \in Event
  BY DEF Event, Note, Created, Removed, NoResponses, Failed

(* What the UI can ask is a command.                                        *)
LEMMA CommandsAreCommands ==
    /\ \A op \in {"Connect", "Disconnect", "Publish", "EnableQueryable",
                  "DisableQueryable", "Ping"} : Plainly(op) \in Command
    /\ \A key \in Keys : [op |-> "Subscribe", key |-> key] \in Command
    /\ \A id \in SubIds : [op |-> "Unsubscribe", id |-> id] \in Command
    /\ \A sel \in Selectors : [op |-> "Query", sel |-> sel] \in Command
  BY DEF Command, Plain, Plainly

(* The fields a handler reads of what it received.                          *)
LEMMA CommandFields ==
    ASSUME NEW c \in Command
    PROVE  /\ c.op = "Subscribe" => c.key \in Keys
           /\ c.op = "Unsubscribe" => c.id \in SubIds
           /\ c.op = "Query" => c.sel \in Selectors
  BY DEF Command, Plain

LEMMA EventFields ==
    ASSUME NEW e \in Event
    PROVE  /\ e.type = "SubscriptionCreated" => e.id \in SubIds /\ e.key \in Keys
           /\ e.type = "QueryNoResponses" => e.sel \in Selectors
  BY DEF Event

(* A stretch of sends keeps the pipeline a sequence of events.              *)
LEMMA EmitType ==
    ASSUME events \in Seq(Event), NEW es \in Seq(Event), Emit(es)
    PROVE  events' \in Seq(Event)
  BY DEF Emit

LEMMA Emit1Type ==
    ASSUME events \in Seq(Event), NEW e \in Event, Emit(<<e>>)
    PROVE  events' \in Seq(Event)
  BY DEF Emit

LEMMA ReceiveType ==
    ASSUME ChannelsTypeOK, NEW op, Receive(op)
    PROVE  /\ Head(cmds) \in Command
           /\ Head(cmds).op = op
           /\ cmds' \in Seq(Command)
           /\ workerAlive' \in BOOLEAN
           /\ Idle
  BY HeadTail DEF ChannelsTypeOK, Receive

LEMMA ProcessType ==
    ASSUME ChannelsTypeOK, NEW type, Process(type)
    PROVE  /\ Head(events) \in Event
           /\ Head(events).type = type
           /\ ChannelsTypeOK'
  BY HeadTail DEF ChannelsTypeOK, Process

LEMMA PostType ==
    ASSUME ChannelsTypeOK, NEW c \in Command, Post(c)
    PROVE  cmds' \in Seq(Command)
  BY DEF ChannelsTypeOK, Post

-----------------------------------------------------------------------------
(* Type correctness of the worker's steps.                                  *)

(* teardown keeps the types.                                                *)
LEMMA TeardownType ==
    ASSUME WorkerTypeOK, Teardown
    PROVE  /\ discovery' \in BOOLEAN
           /\ queryable' = "none"
           /\ aborted' \subseteq {"discovery", "queryable"}
           /\ monitor' = "none"
           /\ active' = {}
           /\ kept' \subseteq Subscription
           /\ pub' = FALSE
  BY DEF WorkerTypeOK, Teardown, Aborting, AfterTeardown

(* handle_subscribe keeps the types of what it changes.                     *)
LEMMA HandleSubscribeType ==
    ASSUME TypeOK, NEW key \in Keys, NEW id \in SubIds, NEW rowKept \in BOOLEAN,
           HandleSubscribe(key, id, rowKept)
    PROVE  active' \subseteq Subscription /\ events' \in Seq(Event)
  <1> USE EventsAreEvents DEF TypeOK, WorkerTypeOK, ChannelsTypeOK
  <1>1. CASE ~pub
    BY <1>1 DEF HandleSubscribe
  <1>2. CASE pub /\ Emit(<<Created(id, key)>>) /\ active' = active \cup {Sub(id, key)}
    BY <1>2, Emit1Type DEF Subscription, Sub
  <1>3. CASE pub /\ Emit(DeclareFailed(id, rowKept)) /\ UNCHANGED active
    <2>1. Removed(id) \in Event /\ Failed("Subscribe") \in Event
      BY DEF FailedOps
    <2>2. DeclareFailed(id, rowKept) \in Seq(Event)
      BY <2>1 DEF DeclareFailed
    <2>3. QED
      BY <1>3, <2>2, EmitType
  <1>4. QED
    BY <1>1, <1>2, <1>3 DEF HandleSubscribe

(* Every step of the worker's loop keeps the channels and the worker well   *)
(* typed.                                                                   *)
LEMMA LoopTypes ==
    ASSUME TypeOK, LoopStep
    PROVE  ChannelsTypeOK' /\ WorkerTypeOK'
  <1> USE DEF TypeOK
  <1>1. CASE StartConnect
    <2>1. Receive("Connect") /\ Teardown
      BY <1>1 DEF StartConnect
    <2>2. QED
      BY <1>1, <2>1, ReceiveType, TeardownType
         DEF StartConnect, ChannelsTypeOK, WorkerTypeOK
  <1>2. CASE PublishingOpens
    BY <1>2, Emit1Type, EventsAreEvents
       DEF PublishingOpens, OpenedEvents, ChannelsTypeOK, WorkerTypeOK, subVars, taskVars
  <1>3. CASE PublishingFails
    BY <1>3, Emit1Type, EventsAreEvents
       DEF PublishingFails, OpenFailedEvents, ChannelsTypeOK, WorkerTypeOK, subVars,
           taskVars
  <1>4. CASE MonitorReturns
    <2>1. PICK outcome \in {"none", "session", "subscribed"} :
             monitor' = outcome /\ Emit(MonitorEvents(outcome))
      BY <1>4 DEF MonitorReturns
    <2>2. MonitorEvents(outcome) \in Seq(Event)
      BY EventsAreEvents DEF MonitorEvents, FailedOps
    <2>3. events' \in Seq(Event)
      BY <2>1, <2>2, EmitType DEF ChannelsTypeOK
    <2>4. QED
      BY <1>4, <2>1, <2>3
         DEF MonitorReturns, KeptAfterTake, ChannelsTypeOK, WorkerTypeOK, taskVars
  <1>5. CASE Disconnect
    <2>1. Receive("Disconnect") /\ Teardown /\ Emit(<<Note("Disconnected")>>)
      BY <1>5 DEF Disconnect
    <2>2. QED
      BY <1>5, <2>1, ReceiveType, TeardownType, Emit1Type, EventsAreEvents
         DEF Disconnect, ChannelsTypeOK, WorkerTypeOK
  <1>6. CASE Subscribe
    <2>1. /\ Receive("Subscribe")
          /\ HandleSubscribe(Head(cmds).key, nextId, FALSE)
      BY <1>6 DEF Subscribe, FreshId
    <2>2. Head(cmds).key \in Keys
      BY <2>1, ReceiveType, CommandFields
    <2>3. active' \subseteq Subscription /\ events' \in Seq(Event)
      BY <2>1, <2>2, HandleSubscribeType DEF WorkerTypeOK
    <2>4. nextId' \in SubIds
      BY <1>6 DEF Subscribe, WorkerTypeOK, SubIds
    <2>5. QED
      BY <1>6, <2>1, <2>3, <2>4, ReceiveType
         DEF Subscribe, ChannelsTypeOK, WorkerTypeOK, sessVars, taskVars
  <1>7. CASE Unsubscribe
    <2>1. Receive("Unsubscribe") /\ Emit(UnsubscribeAnswers(Head(cmds).id))
      BY <1>7 DEF Unsubscribe
    <2>2. Removed(Head(cmds).id) \in Event
      BY <2>1, ReceiveType, CommandFields, EventsAreEvents
    <2>3. UnsubscribeAnswers(Head(cmds).id) \in Seq(Event)
      BY <2>2 DEF UnsubscribeAnswers
    <2>4. events' \in Seq(Event)
      BY <2>1, <2>3, EmitType DEF ChannelsTypeOK
    <2>5. QED
      BY <1>7, <2>1, <2>4, ReceiveType
         DEF Unsubscribe, ChannelsTypeOK, WorkerTypeOK, sessVars, taskVars
  <1>8. CASE \E s \in redeclaring : Redeclare(s)
    <2>1. PICK s \in redeclaring : Redeclare(s)
      BY <1>8
    <2>2. s.key \in Keys /\ s.id \in SubIds
      BY DEF WorkerTypeOK, Subscription
    <2>3. active' \subseteq Subscription /\ events' \in Seq(Event)
      BY <2>1, <2>2, HandleSubscribeType DEF Redeclare
    <2>4. QED
      BY <2>1, <2>3 DEF Redeclare, ChannelsTypeOK, WorkerTypeOK, sessVars, taskVars
  <1>9. CASE Publish
    <2>1. Receive("Publish")
      BY <1>9 DEF Publish
    <2>2. Note("Published") \in Event /\ Failed("Publish") \in Event
      BY EventsAreEvents DEF FailedOps
    <2>3. /\ <<Note("Published")>> \in Seq(Event)
          /\ <<Failed("Publish")>> \in Seq(Event)
          /\ PublishAnswers = {<<Note("Published")>>, <<Failed("Publish")>>}
      BY <2>2 DEF PublishAnswers
    <2>4. events' \in Seq(Event)
      BY <1>9, <2>3, EmitType DEF Publish, ChannelsTypeOK
    <2>5. QED
      BY <1>9, <2>1, <2>4, ReceiveType
         DEF Publish, ChannelsTypeOK, WorkerTypeOK, sessVars, subVars, taskVars
  <1>10. CASE Query
    <2>1. Receive("Query")
      BY <1>10 DEF Query
    <2>2. Failed("Query") \in Event
      BY EventsAreEvents DEF FailedOps
    <2>3. events' \in Seq(Event)
      BY <1>10, <2>2, Emit1Type DEF Query, ChannelsTypeOK
    <2>4. queries' \in [Selectors -> {"none", "waiting", "erred", "sampled"}]
      BY <1>10 DEF Query, SetQuery, WorkerTypeOK
    <2>5. QED
      BY <1>10, <2>1, <2>3, <2>4, ReceiveType
         DEF Query, ChannelsTypeOK, WorkerTypeOK, sessVars, subVars
  <1>11. CASE EnableQueryable
    <2>1. Receive("EnableQueryable")
      BY <1>11 DEF EnableQueryable
    <2>2. QED
      BY <1>11, <2>1, ReceiveType
         DEF EnableQueryable, AbortQueryable, Aborting, ChannelsTypeOK, WorkerTypeOK,
             sessVars, subVars
  <1>12. CASE DisableQueryable
    <2>1. Receive("DisableQueryable")
      BY <1>12 DEF DisableQueryable
    <2>2. QED
      BY <1>12, <2>1, ReceiveType
         DEF DisableQueryable, AbortQueryable, Aborting, ChannelsTypeOK, WorkerTypeOK,
             sessVars, subVars
  <1>13. CASE Ping
    <2>1. Receive("Ping") /\ Emit(<<Note("Pong")>>)
      BY <1>13 DEF Ping
    <2>2. QED
      BY <1>13, <2>1, ReceiveType, Emit1Type, EventsAreEvents
         DEF Ping, ChannelsTypeOK, WorkerTypeOK, sessVars, subVars, taskVars
  <1>14. QED
    BY <1>1, <1>2, <1>3, <1>4, <1>5, <1>6, <1>7, <1>8, <1>9, <1>10, <1>11, <1>12,
       <1>13 DEF LoopStep

(* So does every step of a task, and the death of the thread.               *)
LEMMA TaskTypes ==
    ASSUME TypeOK, TaskNext \/ Dies
    PROVE  ChannelsTypeOK' /\ WorkerTypeOK'
  <1> USE DEF TypeOK
  <1>0. /\ Failed("Query") \in Event
        /\ Failed("Queryable") \in Event
    BY EventsAreEvents DEF FailedOps
  <1>1. CASE QueryableDeclared
    <2>1. events' \in Seq(Event)
      BY <1>0, <1>1, Emit1Type DEF QueryableDeclared, ChannelsTypeOK
    <2>2. QED
      BY <1>1, <2>1 DEF QueryableDeclared, ChannelsTypeOK, WorkerTypeOK, sessVars, subVars
  <1>2. ASSUME NEW sel \in Selectors,
               ReplySample(sel) \/ ReplyError(sel) \/ RepliesEnd(sel)
        PROVE  ChannelsTypeOK' /\ WorkerTypeOK'
    <2>1. /\ TaskStep
          /\ drops' \in BOOLEAN
          /\ \E state \in {"none", "waiting", "erred", "sampled"} : SetQuery(sel, state)
      BY <1>2 DEF ReplySample, ReplyError, RepliesEnd, WorkerTypeOK
    <2>2. QueryEnds(sel) \in Seq(Event)
      BY EventsAreEvents DEF QueryEnds
    <2>3. events' \in Seq(Event)
      BY <1>0, <1>2, <2>2, EmitType, Emit1Type, EventsAreEvents
         DEF ReplySample, ReplyError, RepliesEnd, ChannelsTypeOK
    <2>4. queries' \in [Selectors -> {"none", "waiting", "erred", "sampled"}]
      BY <2>1 DEF SetQuery, WorkerTypeOK
    <2>5. QED
      BY <2>1, <2>3, <2>4 DEF TaskStep, ChannelsTypeOK, WorkerTypeOK, sessVars, subVars
  <1>3. CASE DiscoveryTick
    BY <1>3, Emit1Type, EventsAreEvents
       DEF DiscoveryTick, ChannelsTypeOK, WorkerTypeOK, sessVars, subVars, taskVars
  <1>4. ASSUME NEW t \in aborted, AbortedTaskEnds(t)
        PROVE  ChannelsTypeOK' /\ WorkerTypeOK'
    <2>1. events' \in Seq(Event)
      BY <1>0, <1>4, Emit1Type, EventsAreEvents DEF AbortedTaskEnds, ChannelsTypeOK
    <2>2. QED
      BY <1>4, <2>1 DEF AbortedTaskEnds, ChannelsTypeOK, WorkerTypeOK, sessVars, subVars
  <1>5. CASE Dies
    <2>1. cmds' \in Seq(Command)
      BY <1>5 DEF Dies
    <2>2. QED
      BY <1>5, <2>1
         DEF Dies, ChannelsTypeOK, WorkerTypeOK, workerVars, sessVars, subVars, taskVars
  <1>6. QED
    BY <1>1, <1>2, <1>3, <1>4, <1>5 DEF TaskNext

-----------------------------------------------------------------------------
(* Type correctness of the UI's steps.                                      *)

(* A click keeps the channels and the UI well typed.                        *)
LEMMA ClickTypes ==
    ASSUME TypeOK,
           \/ ClickConnect \/ ClickDisconnect \/ EditForm
           \/ \E key \in Keys : Subscribing(key)
           \/ \E row \in rows : ClickUnsubscribe(row)
           \/ ClickPublish \/ ToggleQueryable
           \/ \E sel \in Selectors : Querying(sel)
           \/ DismissAlert
    PROVE  ChannelsTypeOK' /\ UiTypeOK'
  <1> USE DEF TypeOK
  <1>1. CASE ClickConnect
    <2>1. cmds' \in Seq(Command)
      BY <1>1, PostType, CommandsAreCommands DEF ClickConnect
    <2>2. QED
      BY <1>1, <2>1 DEF ClickConnect, ChannelsTypeOK, UiTypeOK, healthVars, Connecting
  <1>2. CASE ClickDisconnect
    <2>1. cmds' \in Seq(Command)
      BY <1>2, PostType, CommandsAreCommands DEF ClickDisconnect
    <2>2. QED
      BY <1>2, <2>1 DEF ClickDisconnect, ChannelsTypeOK, UiTypeOK, healthVars
  <1>3. CASE EditForm
    BY <1>3 DEF EditForm, ChannelsTypeOK, UiTypeOK, chanVars, healthVars
  <1>4. ASSUME NEW key \in Keys, Subscribing(key)
        PROVE  ChannelsTypeOK' /\ UiTypeOK'
    <2>1. ClickSubscribe(key)
      BY <1>4 DEF Subscribing
    <2>2. cmds' \in Seq(Command)
      BY <2>1, PostType, CommandsAreCommands DEF ClickSubscribe
    <2>3. QED
      BY <2>1, <2>2
         DEF ClickSubscribe, Click, ChannelsTypeOK, UiTypeOK, connVars, healthVars
  <1>5. ASSUME NEW row \in rows, ClickUnsubscribe(row)
        PROVE  ChannelsTypeOK' /\ UiTypeOK'
    <2>1. row.id \in SubIds
      BY DEF UiTypeOK
    <2>2. cmds' \in Seq(Command)
      BY <1>5, <2>1, PostType, CommandsAreCommands DEF ClickUnsubscribe
    <2>3. QED
      BY <1>5, <2>2
         DEF ClickUnsubscribe, Click, ChannelsTypeOK, UiTypeOK, uiVars, connVars, healthVars
  <1>6. CASE ClickPublish
    <2>1. cmds' \in Seq(Command)
      BY <1>6, PostType, CommandsAreCommands DEF ClickPublish
    <2>2. QED
      BY <1>6, <2>1
         DEF ClickPublish, Click, ChannelsTypeOK, UiTypeOK, connVars, healthVars
  <1>7. CASE ToggleQueryable
    <2>1. Plainly(IF queryableOn' THEN "EnableQueryable" ELSE "DisableQueryable")
            \in Command
      BY CommandsAreCommands
    <2>2. cmds' \in Seq(Command)
      BY <1>7, <2>1, PostType DEF ToggleQueryable
    <2>3. QED
      BY <1>7, <2>2
         DEF ToggleQueryable, Click, ChannelsTypeOK, UiTypeOK, connVars, healthVars
  <1>8. ASSUME NEW sel \in Selectors, Querying(sel)
        PROVE  ChannelsTypeOK' /\ UiTypeOK'
    <2>1. ClickQuery(sel)
      BY <1>8 DEF Querying
    <2>2. cmds' \in Seq(Command)
      BY <2>1, PostType, CommandsAreCommands DEF ClickQuery
    <2>3. alert' \in Alert
      BY <2>1 DEF ClickQuery, Alert
    <2>4. QED
      BY <2>1, <2>2, <2>3
         DEF ClickQuery, Click, ChannelsTypeOK, UiTypeOK, connVars, healthVars
  <1>9. CASE DismissAlert
    BY <1>9
       DEF DismissAlert, Alert, ChannelsTypeOK, UiTypeOK, chanVars, connVars, healthVars
  <1>10. QED
    BY <1>1, <1>2, <1>3, <1>4, <1>5, <1>6, <1>7, <1>8, <1>9

(* So does the handler of an event.                                         *)
LEMMA ProcessTypes ==
    ASSUME TypeOK, ProcessEvent
    PROVE  ChannelsTypeOK' /\ UiTypeOK'
  <1> USE DEF TypeOK, UiTypeOK, connVars, healthVars
  <1>1. CASE OnPublishingConnected
    BY <1>1, ProcessType DEF OnPublishingConnected, MonitorOkOnConnect, Connecting
  <1>2. CASE OnMonitorConnected
    BY <1>2, ProcessType DEF OnMonitorConnected
  <1>3. CASE OnDisconnected
    <2>1. alert' \in Alert
      BY <1>3 DEF OnDisconnected, CancelQuery, Alert
    <2>2. pending' \subseteq Keys /\ publish' \in {"none", "sending", "published", "failed"}
      BY <1>3 DEF OnDisconnected, EndPendingWork
    <2>3. QED
      BY <1>3, <2>1, <2>2, ProcessType DEF OnDisconnected, FlagAfterDisconnected
  <1>4. CASE OnConnectionError
    BY <1>4, ProcessType DEF OnConnectionError, EndPendingWork
  <1>5. CASE OnDiscoveryUpdate
    BY <1>5, ProcessType DEF OnDiscoveryUpdate
  <1>6. CASE OnSubscriptionCreated
    <2>1. Process("SubscriptionCreated")
      BY <1>6 DEF OnSubscriptionCreated
    <2>2. Head(events).id \in SubIds /\ Head(events).key \in Keys
      BY <2>1, ProcessType, EventFields
    <2>3. QED
      BY <1>6, <2>1, <2>2, ProcessType DEF OnSubscriptionCreated
  <1>7. CASE OnSubscriptionRemoved
    BY <1>7, ProcessType DEF OnSubscriptionRemoved
  <1>8. CASE OnPublished
    BY <1>8, ProcessType DEF OnPublished
  <1>9. CASE OnOperationFailed
    <2>1. alert' \in Alert
      BY <1>9 DEF OnOperationFailed, Alert
    <2>2. /\ publish' \in {"none", "sending", "published", "failed"}
          /\ pending' \subseteq Keys
          /\ queryableOn' \in BOOLEAN /\ monitorOk' \in BOOLEAN
      BY <1>9 DEF OnOperationFailed
    <2>3. QED
      BY <1>9, <2>1, <2>2, ProcessType DEF OnOperationFailed
  <1>10. CASE OnQueryReply
    BY <1>10, ProcessType DEF OnQueryReply, Alert
  <1>11. CASE OnQueryNoResponses
    <2>1. Process("QueryNoResponses")
      BY <1>11 DEF OnQueryNoResponses
    <2>2. Head(events).sel \in Selectors
      BY <2>1, ProcessType, EventFields
    <2>3. alert' \in Alert
      BY <1>11, <2>2 DEF OnQueryNoResponses, Alert
    <2>4. QED
      BY <1>11, <2>1, <2>3, ProcessType DEF OnQueryNoResponses
  <1>12. CASE OnPong
    BY <1>12, ProcessType DEF OnPong, PingOutAfterPong
  <1>13. QED
    BY <1>1, <1>2, <1>3, <1>4, <1>5, <1>6, <1>7, <1>8, <1>9, <1>10, <1>11, <1>12
       DEF ProcessEvent

(* So does the health check.                                                *)
LEMMA HealthTypes ==
    ASSUME TypeOK, HealthTick
    PROVE  ChannelsTypeOK' /\ UiTypeOK'
  <1> USE DEF TypeOK, UiTypeOK, connVars, healthVars
  <1>1. CASE SendPing
    <2>1. cmds' \in Seq(Command)
      BY <1>1, PostType, CommandsAreCommands DEF SendPing
    <2>2. healthy' \in BOOLEAN /\ gone' \in BOOLEAN
      BY <1>1 DEF SendPing
    <2>3. QED
      BY <1>1, <2>1, <2>2 DEF SendPing, Click, ChannelsTypeOK
  <1>2. CASE PingTimesOut
    BY <1>2 DEF PingTimesOut, ChannelsTypeOK, chanVars
  <1>3. CASE UiStalls
    BY <1>3 DEF UiStalls, ChannelsTypeOK, chanVars
  <1>4. QED
    BY <1>1, <1>2, <1>3 DEF HealthTick

-----------------------------------------------------------------------------
(* Type correctness of the application.                                     *)

(* A step of the worker leaves the UI's types alone, and the other way      *)
(* round.                                                                   *)
LEMMA UiUntouched ==
    ASSUME UiTypeOK, UNCHANGED uiVars
    PROVE  UiTypeOK'
  BY DEF UiTypeOK, uiVars, connVars, healthVars

LEMMA WorkerUntouched ==
    ASSUME WorkerTypeOK, UNCHANGED workerVars
    PROVE  WorkerTypeOK'
  BY DEF WorkerTypeOK, workerVars, sessVars, subVars, taskVars

(* Next is a step of the worker or a step of the UI.                        *)
LEMMA NextSplits ==
    ASSUME Next
    PROVE  \/ (LoopStep \/ TaskNext \/ Dies) /\ UNCHANGED uiVars
           \/ /\ \/ ClickConnect \/ ClickDisconnect \/ EditForm
                 \/ \E key \in Keys : Subscribing(key)
                 \/ \E row \in rows : ClickUnsubscribe(row)
                 \/ ClickPublish \/ ToggleQueryable
                 \/ \E sel \in Selectors : Querying(sel)
                 \/ DismissAlert
                 \/ ProcessEvent \/ HealthTick
              /\ UNCHANGED workerVars
  BY Zenon DEF Next, LoopStep, TaskNext, ProcessEvent, HealthTick

LEMMA InitTypes == Init => TypeOK
  <1> SUFFICES ASSUME Init PROVE TypeOK
    OBVIOUS
  <1> USE DEF Init
  <1>1. ChannelsTypeOK
    BY DEF ChannelsInit, ChannelsTypeOK
  <1>2. WorkerTypeOK
    <2>1. queries \in [Selectors -> {"none", "waiting", "erred", "sampled"}]
      BY DEF WorkerInit
    <2>2. nextId \in SubIds
      BY DEF WorkerInit, SubIds
    <2>3. QED
      BY <2>1, <2>2 DEF WorkerInit, WorkerTypeOK
  <1>3. UiTypeOK
    BY DEF UiInit, UiTypeOK, Alert
  <1>4. QED
    BY <1>1, <1>2, <1>3 DEF TypeOK

LEMMA NextTypes == TypeOK /\ [Next]_vars => TypeOK'
  <1> SUFFICES ASSUME TypeOK, [Next]_vars PROVE TypeOK'
    OBVIOUS
  <1>1. CASE (LoopStep \/ TaskNext \/ Dies) /\ UNCHANGED uiVars
    BY <1>1, LoopTypes, TaskTypes, UiUntouched DEF TypeOK
  <1>2. CASE /\ \/ ClickConnect \/ ClickDisconnect \/ EditForm
                \/ \E key \in Keys : Subscribing(key)
                \/ \E row \in rows : ClickUnsubscribe(row)
                \/ ClickPublish \/ ToggleQueryable
                \/ \E sel \in Selectors : Querying(sel)
                \/ DismissAlert
                \/ ProcessEvent \/ HealthTick
             /\ UNCHANGED workerVars
    <2>1. ChannelsTypeOK' /\ UiTypeOK'
      BY <1>2, ClickTypes, ProcessTypes, HealthTypes
    <2>2. QED
      BY <1>2, <2>1, WorkerUntouched DEF TypeOK
  <1>3. CASE UNCHANGED vars
    <2>1. UNCHANGED workerVars /\ UNCHANGED uiVars /\ UNCHANGED chanVars
      BY <1>3 DEF vars
    <2>2. QED
      BY <2>1, UiUntouched, WorkerUntouched DEF TypeOK, ChannelsTypeOK, chanVars
  <1>4. QED
    BY <1>1, <1>2, <1>3, NextSplits

(* Commands, events, the worker's and the UI's state keep their types,      *)
(* whatever the interleaving: no handler reads a field its command or event *)
(* does not have.                                                           *)
THEOREM TypeCorrect == Spec => []TypeOK
  BY InitTypes, NextTypes, PTL DEF Spec

-----------------------------------------------------------------------------
(* The worker's bookkeeping.  WorkerConsistent and TypeOK together are      *)
(* inductive: each conjunct is what some handler needs of the others (the   *)
(* id below nextId when a fresh one is taken, no active subscription when a *)
(* session opens, no kept one while a session is ready).                    *)

LEMMA InitConsistent == Init => WorkerConsistent
  BY DEF Init, WorkerInit, WorkerConsistent, LiveSubs

(* A loop step of the worker keeps its bookkeeping.                         *)
LEMMA LoopConsistent ==
    ASSUME TypeOK, WorkerConsistent, LoopStep
    PROVE  WorkerConsistent'
  <1> USE DEF TypeOK, WorkerTypeOK, SubIds
  <1>1. CASE StartConnect
    BY <1>1
       DEF StartConnect, Receive, Idle, Teardown, AfterTeardown, WorkerConsistent, LiveSubs
  <1>2. CASE PublishingOpens
    BY <1>2 DEF PublishingOpens, WorkerConsistent, LiveSubs, subVars, taskVars
  <1>3. CASE PublishingFails
    BY <1>3 DEF PublishingFails, WorkerConsistent, LiveSubs, subVars, taskVars
  <1>4. CASE MonitorReturns
    BY <1>4 DEF MonitorReturns, KeptAfterTake, WorkerConsistent, LiveSubs, taskVars
  <1>5. CASE Disconnect
    BY <1>5
       DEF Disconnect, Receive, Idle, Teardown, AfterTeardown, WorkerConsistent, LiveSubs
  <1>6. CASE Subscribe
    <2>1. Idle /\ HandleSubscribe(Head(cmds).key, nextId, FALSE)
      BY <1>6 DEF Subscribe, FreshId, Receive
    <2>2. CASE active' = active
      BY <1>6, <2>2 DEF Subscribe, WorkerConsistent, LiveSubs, sessVars, taskVars
    <2>3. CASE active' # active
      <3> DEFINE new == Sub(nextId, Head(cmds).key)
      <3>1. pub /\ active' = active \cup {new}
        BY <2>1, <2>3 DEF HandleSubscribe
      <3>2. /\ new.id = nextId
            /\ nextId' = nextId + 1
            /\ LiveSubs' = LiveSubs \cup {new}
        BY <1>6, <2>3, <3>1 DEF Subscribe, Sub, LiveSubs
      <3>3. \A s \in LiveSubs : s.id \in Nat /\ s.id < nextId
        BY DEF WorkerConsistent, LiveSubs, Subscription
      <3>4. \A s \in LiveSubs' : s.id < nextId'
        BY <3>2, <3>3
      <3>5. \A s, u \in LiveSubs' : s.id = u.id => s = u
        BY <3>2, <3>3 DEF WorkerConsistent
      <3>6. new \notin LiveSubs
        BY <3>2, <3>3
      <3>7. QED
        BY <1>6, <2>1, <3>1, <3>4, <3>5, <3>6
           DEF Subscribe, Idle, WorkerConsistent, LiveSubs, sessVars, taskVars
    <2>4. QED
      BY <2>2, <2>3
  <1>7. CASE Unsubscribe
    BY <1>7
       DEF Unsubscribe, Receive, Idle, WorkerConsistent, LiveSubs, sessVars, taskVars
  <1>8. CASE \E s \in redeclaring : Redeclare(s)
    <2>1. PICK s \in redeclaring : Redeclare(s)
      BY <1>8
    <2>2. Sub(s.id, s.key) = s
      BY DEF Sub, Subscription
    <2>3. /\ active' = active \/ active' = active \cup {s}
          /\ redeclaring' = redeclaring \ {s}
          /\ UNCHANGED <<kept, nextId, wpc, pub, monitor, discovery, queryable>>
          /\ pub
      BY <2>1, <2>2
         DEF Redeclare, HandleSubscribe, WorkerConsistent, sessVars, taskVars
    <2>4. QED
      BY <2>1, <2>3 DEF WorkerConsistent, LiveSubs, Redeclare
  <1>9. CASE Publish
    BY <1>9 DEF Publish, WorkerConsistent, LiveSubs, sessVars, subVars, taskVars
  <1>10. CASE Query
    BY <1>10 DEF Query, WorkerConsistent, LiveSubs, sessVars, subVars
  <1>11. CASE EnableQueryable
    BY <1>11 DEF EnableQueryable, WorkerConsistent, LiveSubs, sessVars, subVars
  <1>12. CASE DisableQueryable
    BY <1>12 DEF DisableQueryable, WorkerConsistent, LiveSubs, sessVars, subVars
  <1>13. CASE Ping
    BY <1>13 DEF Ping, WorkerConsistent, LiveSubs, sessVars, subVars, taskVars
  <1>14. QED
    BY <1>1, <1>2, <1>3, <1>4, <1>5, <1>6, <1>7, <1>8, <1>9, <1>10, <1>11, <1>12,
       <1>13 DEF LoopStep

(* The tasks and the UI do not touch it.                                    *)
LEMMA OthersConsistent ==
    ASSUME WorkerConsistent, TaskNext \/ UNCHANGED workerVars
    PROVE  WorkerConsistent'
  <1>1. CASE QueryableDeclared
    BY <1>1 DEF QueryableDeclared, WorkerConsistent, LiveSubs, sessVars, subVars
  <1>2. ASSUME UNCHANGED <<sessVars, subVars, queryable>>
        PROVE  WorkerConsistent'
    BY <1>2 DEF WorkerConsistent, LiveSubs, sessVars, subVars
  <1>3. CASE DiscoveryTick
    BY <1>2, <1>3 DEF DiscoveryTick, taskVars
  <1>4. CASE \E sel \in Selectors :
               ReplySample(sel) \/ ReplyError(sel) \/ RepliesEnd(sel)
    BY <1>2, <1>4 DEF ReplySample, ReplyError, RepliesEnd, TaskStep
  <1>5. CASE \E t \in aborted : AbortedTaskEnds(t)
    BY <1>2, <1>5 DEF AbortedTaskEnds
  <1>6. CASE UNCHANGED workerVars
    BY <1>2, <1>6 DEF workerVars, taskVars
  <1>7. QED
    BY <1>1, <1>3, <1>4, <1>5, <1>6 DEF TaskNext

LEMMA NextConsistent == TypeOK /\ WorkerConsistent /\ [Next]_vars => WorkerConsistent'
  <1> SUFFICES ASSUME TypeOK, WorkerConsistent, [Next]_vars PROVE WorkerConsistent'
    OBVIOUS
  <1>1. LoopStep \/ TaskNext \/ UNCHANGED workerVars
    <2>1. CASE Next
      BY <2>1, NextSplits DEF Dies
    <2>2. CASE UNCHANGED vars
      BY <2>2 DEF vars
    <2>3. QED
      BY <2>1, <2>2
  <1>2. QED
    BY <1>1, LoopConsistent, OthersConsistent

(* For any keys and any capacity: without a session nothing of one is left, *)
(* and every subscription sits in exactly one of active_subscriptions,      *)
(* resubscribe and the list being declared, under an id of its own.         *)
THEOREM BookkeepingHolds == Spec => []WorkerConsistent
  BY TypeCorrect, InitConsistent, NextConsistent, PTL DEF Spec

-----------------------------------------------------------------------------
(* The worker's subscriptions implement Subscriptions.                      *)

(* The ids with an Unsubscribe on its way.                                  *)
Ending == {cmds[i].id : i \in {j \in DOMAIN cmds : cmds[j].op = "Unsubscribe"}}

(* Receiving a command that is not an Unsubscribe leaves Ending alone; any   *)
(* other adds nothing to it, and an Unsubscribe names an id in it.          *)
LEMMA EndingAfterReceive ==
    ASSUME TypeOK, NEW op, Receive(op)
    PROVE  /\ Ending' \subseteq Ending
           /\ op # "Unsubscribe" => Ending' = Ending
           /\ op = "Unsubscribe" => Head(cmds).id \in Ending
  <1>1. /\ cmds \in Seq(Command) /\ cmds # <<>> /\ cmds' = Tail(cmds)
        /\ Head(cmds).op = op
    BY DEF TypeOK, ChannelsTypeOK, Receive
  <1>2. /\ Len(cmds) \in Nat \ {0}
        /\ DOMAIN cmds = 1 .. Len(cmds)
        /\ DOMAIN Tail(cmds) = 1 .. Len(cmds) - 1
        /\ \A i \in 1 .. Len(cmds) - 1 : Tail(cmds)[i] = cmds[i + 1]
        /\ Head(cmds) = cmds[1]
    BY <1>1
  <1>3. Ending' \subseteq Ending
    <2>1. SUFFICES ASSUME NEW i \in DOMAIN Tail(cmds), Tail(cmds)[i].op = "Unsubscribe"
                   PROVE  \E j \in DOMAIN cmds : /\ cmds[j].op = "Unsubscribe"
                                                 /\ cmds[j].id = Tail(cmds)[i].id
      BY <1>1 DEF Ending
    <2>2. i + 1 \in DOMAIN cmds /\ cmds[i + 1] = Tail(cmds)[i]
      BY <1>2
    <2>3. QED
      BY <2>1, <2>2
  <1>4. ASSUME op # "Unsubscribe"
        PROVE  Ending \subseteq Ending'
    <2>1. SUFFICES ASSUME NEW j \in DOMAIN cmds, cmds[j].op = "Unsubscribe"
                   PROVE  \E i \in DOMAIN Tail(cmds) : /\ Tail(cmds)[i].op = "Unsubscribe"
                                                       /\ Tail(cmds)[i].id = cmds[j].id
      BY <1>1 DEF Ending
    <2>2. j # 1
      BY <1>1, <1>2, <1>4, <2>1
    <2>3. j - 1 \in DOMAIN Tail(cmds) /\ Tail(cmds)[j - 1] = cmds[j]
      BY <1>2, <2>2
    <2>4. QED
      BY <2>1, <2>3
  <1>5. op = "Unsubscribe" => Head(cmds).id \in Ending
    BY <1>1, <1>2 DEF Ending
  <1>6. QED
    BY <1>3, <1>4, <1>5

(* The initial states map to the abstract initial state.                    *)
LEMMA InitImplements == Init => Abstract!Init
  BY DEF Init, ChannelsInit, WorkerInit, Abstract!Init, LiveSubs, Ids

(* A step that leaves every subscription in place, wherever it moves it, is *)
(* an abstract Request.                                                     *)
LEMMA MovesOnly ==
    ASSUME LiveSubs' = LiveSubs, nextId' = nextId
    PROVE  Abstract!Next
  BY DEF Abstract!Next, Abstract!Request

(* handle_subscribe for a new subscription: nothing, or Create.             *)
LEMMA SubscribeImplements ==
    ASSUME TypeOK, WorkerConsistent, Subscribe
    PROVE  Abstract!Next
  <1> USE DEF TypeOK, WorkerTypeOK, SubIds
  <1>1. /\ Receive("Subscribe")
        /\ HandleSubscribe(Head(cmds).key, nextId, FALSE)
        /\ UNCHANGED <<kept, redeclaring>>
        /\ nextId' = IF active' = active THEN nextId ELSE nextId + 1
    BY DEF Subscribe, FreshId
  <1>2. CASE active' = active
    BY <1>1, <1>2, MovesOnly DEF LiveSubs
  <1>3. CASE active' # active
    <2>1. active' = active \cup {Sub(nextId, Head(cmds).key)}
      BY <1>1, <1>3 DEF HandleSubscribe
    <2>2. Head(cmds).key \in Keys
      BY <1>1, ReceiveType, CommandFields
    <2>3. LiveSubs' = LiveSubs \cup {[id |-> (nextId - 1) + 1, key |-> Head(cmds).key]}
      BY <1>1, <2>1 DEF LiveSubs, Sub
    <2>4. nextId' - 1 = (nextId - 1) + 1
      BY <1>1, <1>3
    <2>5. Ids(redeclaring)' = Ids(redeclaring) /\ Ending' = Ending
      BY <1>1, EndingAfterReceive DEF Ids
    <2>6. Abstract!Create
      BY <2>2, <2>3, <2>4, <2>5 DEF Abstract!Create, Ending
    <2>7. QED
      BY <2>6 DEF Abstract!Next
  <1>4. QED
    BY <1>2, <1>3

(* One round of the re-declaring loop: the subscription moves to the active *)
(* ones, or ends, which a reconnect may do.                                 *)
LEMMA RedeclareImplements ==
    ASSUME TypeOK, WorkerConsistent, NEW s \in redeclaring, Redeclare(s)
    PROVE  Abstract!Next
  <1> USE DEF TypeOK, WorkerTypeOK
  <1>1. /\ redeclaring' = redeclaring \ {s}
        /\ HandleSubscribe(s.key, s.id, TRUE)
        /\ UNCHANGED <<kept, nextId, cmds>>
        /\ wpc = "ready"
    BY DEF Redeclare
  <1>2. Sub(s.id, s.key) = s
    BY DEF Sub, Subscription
  <1>3. pub /\ kept = {} /\ s \notin active
    BY <1>1 DEF WorkerConsistent
  <1>4. CASE active' = active \cup {s}
    <2>1. LiveSubs' = LiveSubs
      BY <1>1, <1>4 DEF LiveSubs
    <2>2. QED
      BY <1>1, <2>1, MovesOnly
  <1>5. CASE active' = active
    <2>1. LiveSubs' = LiveSubs \ {s} /\ s \in LiveSubs
      BY <1>1, <1>3, <1>5 DEF LiveSubs
    <2>2. s.id \in Ids(redeclaring) /\ Ids(redeclaring)' \subseteq Ids(redeclaring)
      BY <1>1 DEF Ids
    <2>3. Ending' = Ending
      BY <1>1 DEF Ending
    <2>4. Abstract!End
      BY <1>1, <2>1, <2>2, <2>3 DEF Abstract!End, Ending
    <2>5. QED
      BY <2>4 DEF Abstract!Next
  <1>6. QED
    BY <1>1, <1>2, <1>3, <1>4, <1>5 DEF HandleSubscribe

(* Unsubscribe: one id names one subscription, which was asked to end.      *)
LEMMA UnsubscribeImplements ==
    ASSUME TypeOK, WorkerConsistent, Unsubscribe
    PROVE  Abstract!Next
  <1> DEFINE id == Head(cmds).id
  <1>1. /\ Receive("Unsubscribe")
        /\ kept' = kept \ WithId(kept, id)
        /\ active' = active \ WithId(active, id)
        /\ UNCHANGED <<redeclaring, nextId>>
        /\ redeclaring = {}
    BY DEF Unsubscribe, Receive, Idle
  <1>2. id \in Ending /\ Ending' \subseteq Ending
    BY <1>1, EndingAfterReceive
  <1>3. CASE \A s \in LiveSubs : s.id # id
    <2>1. LiveSubs' = LiveSubs
      BY <1>1, <1>3 DEF LiveSubs, WithId
    <2>2. QED
      BY <1>1, <2>1, MovesOnly
  <1>4. CASE \E s \in LiveSubs : s.id = id
    <2>1. PICK s \in LiveSubs : s.id = id
      BY <1>4
    <2>2. \A u \in LiveSubs : u.id = id <=> u = s
      BY <2>1 DEF WorkerConsistent
    <2>3. LiveSubs' = LiveSubs \ {s}
      BY <1>1, <2>2 DEF LiveSubs, WithId
    <2>4. Ids(redeclaring)' = Ids(redeclaring)
      BY <1>1 DEF Ids
    <2>5. Abstract!End
      BY <1>1, <1>2, <2>1, <2>3, <2>4 DEF Abstract!End, Ending
    <2>6. QED
      BY <2>5 DEF Abstract!Next
  <1>5. QED
    BY <1>3, <1>4

(* Every step maps to an abstract step or leaves the abstract state alone.  *)
LEMMA NextImplements ==
    TypeOK /\ WorkerConsistent /\ [Next]_vars
        => [Abstract!Next]_<<LiveSubs, nextId - 1, Ids(redeclaring) \cup Ending>>
  <1> SUFFICES ASSUME TypeOK, WorkerConsistent, [Next]_vars
               PROVE  \/ Abstract!Next
                      \/ UNCHANGED <<LiveSubs, nextId - 1, Ids(redeclaring) \cup Ending>>
    OBVIOUS
  <1>1. CASE Subscribe \/ Unsubscribe \/ \E s \in redeclaring : Redeclare(s)
    BY <1>1, SubscribeImplements, UnsubscribeImplements, RedeclareImplements
  <1>2. ASSUME UNCHANGED subVars
        PROVE  Abstract!Next
    BY <1>2, MovesOnly DEF subVars, LiveSubs
  <1>3. CASE StartConnect \/ Disconnect
    <2>1. Teardown /\ UNCHANGED <<redeclaring, nextId>>
      BY <1>3 DEF StartConnect, Disconnect
    <2>2. LiveSubs' = LiveSubs
      BY <2>1 DEF Teardown, AfterTeardown, LiveSubs
    <2>3. QED
      BY <2>1, <2>2, MovesOnly
  <1>4. CASE MonitorReturns
    <2>1. /\ redeclaring = {}
          /\ redeclaring' = kept /\ kept' = {}
          /\ UNCHANGED <<active, nextId>>
      BY <1>4 DEF MonitorReturns, KeptAfterTake, WorkerConsistent
    <2>2. LiveSubs' = LiveSubs
      BY <2>1 DEF LiveSubs
    <2>3. QED
      BY <2>1, <2>2, MovesOnly
  <1>5. CASE \/ PublishingOpens \/ PublishingFails \/ Publish \/ Query
            \/ EnableQueryable \/ DisableQueryable \/ Ping
    BY <1>2, <1>5
       DEF PublishingOpens, PublishingFails, Publish, Query, EnableQueryable,
           DisableQueryable, Ping
  <1>6. CASE TaskNext
    <2>1. UNCHANGED subVars
      BY <1>6
         DEF TaskNext, QueryableDeclared, ReplySample, ReplyError, RepliesEnd, TaskStep,
             DiscoveryTick, AbortedTaskEnds
    <2>2. QED
      BY <1>2, <2>1
  <1>7. CASE UNCHANGED workerVars
    BY <1>2, <1>7 DEF workerVars
  <1>8. CASE UNCHANGED vars
    BY <1>7, <1>8 DEF vars
  <1>9. QED
    <2>1. CASE Next
      BY <2>1, <1>1, <1>3, <1>4, <1>5, <1>6, <1>7, NextSplits DEF Dies, LoopStep
    <2>2. QED
      BY <1>8, <2>1

(* The worker keeps the promise of Subscriptions for any user, any keys and *)
(* any sequence of connects, disconnects, failures and deaths: across the   *)
(* teardowns and reconnects a subscription ends only on request or because  *)
(* re-declaring it failed, and an id is never handed out twice.             *)
THEOREM SubscriptionsImplemented == Spec => SubscriptionsKept
  BY TypeCorrect, BookkeepingHolds, InitImplements, NextImplements, PTL
     DEF Spec, SubscriptionsKept, Abstract!Spec, Ending
=============================================================================
