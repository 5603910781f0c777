------------------------------ MODULE Channels ------------------------------
(***************************************************************************)
(* The two FIFO channels between the UI thread and the Zenoh worker.       *)
(*                                                                         *)
(*   cmds    the unbounded mpsc channel of ZenohCommand (UI to worker)     *)
(*   events  the pipeline of ZenohEvent (worker and its tasks to UI):      *)
(*           worker channel, buffer thread and UI channel in one queue     *)
(*           of EventCapacity places                                       *)
(*                                                                         *)
(* Locators, payloads, encodings and error texts are abstracted away: a    *)
(* command or an event keeps the fields some handler branches on.          *)
(***************************************************************************)
EXTENDS Naturals, Sequences

CONSTANTS
    Keys,           \* key expressions the user subscribes to
    Selectors,      \* selectors the user queries
    EventCapacity,  \* places in the event pipeline
    MaxUpdates      \* bound: discovery updates queued when another is sent

ASSUME CapacityAssumption ==
    /\ EventCapacity \in Nat \ {0}
    /\ MaxUpdates \in Nat

VARIABLES
    cmds,           \* commands sent and not yet received by the worker
    events,         \* events sent and not yet processed by the UI
    workerAlive     \* the worker thread holds the receiving end of cmds

chanVars == <<cmds, events, workerAlive>>

-----------------------------------------------------------------------------
SubIds == Nat \ {0}

Plain(ops) == [op : ops]

Command ==
    Plain({"Connect", "Disconnect", "Publish", "EnableQueryable",
           "DisableQueryable", "Ping"})
    \cup [op : {"Subscribe"}, key : Keys]
    \cup [op : {"Unsubscribe"}, id : SubIds]
    \cup [op : {"Query"}, sel : Selectors]

FailedOps == {"Query", "Queryable", "Publish", "Subscribe", "Monitor"}

Event ==
    [type : {"PublishingConnected", "MonitorConnected", "Disconnected",
             "ConnectionError", "DiscoveryUpdate", "Published", "Pong",
             "QueryReply"}]
    \cup [type : {"SubscriptionCreated"}, id : SubIds, key : Keys]
    \cup [type : {"SubscriptionRemoved"}, id : SubIds]
    \cup [type : {"QueryNoResponses"}, sel : Selectors]
    \cup [type : {"OperationFailed"}, failed : FailedOps]

Note(t) == [type |-> t]
Created(id, key) == [type |-> "SubscriptionCreated", id |-> id, key |-> key]
Removed(id) == [type |-> "SubscriptionRemoved", id |-> id]
NoResponses(sel) == [type |-> "QueryNoResponses", sel |-> sel]
Failed(op) == [type |-> "OperationFailed", failed |-> op]

-----------------------------------------------------------------------------
(* The worker and its tasks send.  A blocking send waits for room.  The    *)
(* sends of one uninterrupted stretch of a handler are one Emit, which      *)
(* waits for the first of them.                                             *)
Room == Len(events) < EventCapacity

Emit(es) ==
    /\ es # <<>> => Room
    /\ events' = events \o es

(* The UI sends: mpsc::Sender::send fails once the worker is gone, and most *)
(* click handlers ignore that (`let _ = sender.send(..)`).                  *)
Post(c) == cmds' = IF workerAlive THEN Append(cmds, c) ELSE cmds

ChannelsTypeOK ==
    /\ cmds \in Seq(Command)
    /\ events \in Seq(Event)
    /\ workerAlive \in BOOLEAN

ChannelsInit ==
    /\ cmds = <<>>
    /\ events = <<>>
    /\ workerAlive = TRUE
=============================================================================
