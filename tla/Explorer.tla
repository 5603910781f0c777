------------------------------ MODULE Explorer ------------------------------
(***************************************************************************)
(* The whole application: the UI thread and the Zenoh worker joined by     *)
(* their two channels, and the properties of the two together.             *)
(***************************************************************************)
EXTENDS Worker, Ui, FiniteSets

CONSTANT MaxSubs    \* bound: subscriptions ever made

ASSUME MaxSubsAssumption == MaxSubs \in Nat

vars == <<chanVars, workerVars, uiVars>>

-----------------------------------------------------------------------------
(* Bounds on the user.  Subscriptions ever made stay within MaxSubs, and    *)
(* two queries under way at once have different selectors.                  *)
Queued(cs) == {i \in DOMAIN cmds : cmds[i] \in cs}

SubsLeft ==
    nextId + Cardinality({i \in DOMAIN cmds : cmds[i].op = "Subscribe"}) <= MaxSubs

QueryIsOver(sel) ==
    queries[sel] = "none" /\ Queued({[op |-> "Query", sel |-> sel]}) = {}

Subscribing(key) == SubsLeft /\ ClickSubscribe(key)
Querying(sel) == QueryIsOver(sel) /\ ClickQuery(sel)

Init == ChannelsInit /\ WorkerInit /\ UiInit

(* WorkerNext and UiNext, each leaving the other side's variables alone,    *)
(* one disjunct per handler, click or event.                                *)
Next ==
    \/ StartConnect /\ UNCHANGED uiVars
    \/ PublishingOpens /\ UNCHANGED uiVars
    \/ PublishingFails /\ UNCHANGED uiVars
    \/ MonitorReturns /\ UNCHANGED uiVars
    \/ Disconnect /\ UNCHANGED uiVars
    \/ Subscribe /\ UNCHANGED uiVars
    \/ \E s \in redeclaring : Redeclare(s) /\ UNCHANGED uiVars
    \/ Unsubscribe /\ UNCHANGED uiVars
    \/ Publish /\ UNCHANGED uiVars
    \/ Query /\ UNCHANGED uiVars
    \/ EnableQueryable /\ UNCHANGED uiVars
    \/ DisableQueryable /\ UNCHANGED uiVars
    \/ Ping /\ UNCHANGED uiVars
    \/ QueryableDeclared /\ UNCHANGED uiVars
    \/ \E sel \in Selectors : ReplySample(sel) /\ UNCHANGED uiVars
    \/ \E sel \in Selectors : ReplyError(sel) /\ UNCHANGED uiVars
    \/ \E sel \in Selectors : RepliesEnd(sel) /\ UNCHANGED uiVars
    \/ DiscoveryTick /\ UNCHANGED uiVars
    \/ \E task \in aborted : AbortedTaskEnds(task) /\ UNCHANGED uiVars
    \/ Dies /\ UNCHANGED uiVars
    \/ ClickConnect /\ UNCHANGED workerVars
    \/ ClickDisconnect /\ UNCHANGED workerVars
    \/ EditForm /\ UNCHANGED workerVars
    \/ \E key \in Keys : Subscribing(key) /\ UNCHANGED workerVars
    \/ \E row \in rows : ClickUnsubscribe(row) /\ UNCHANGED workerVars
    \/ ClickPublish /\ UNCHANGED workerVars
    \/ ToggleQueryable /\ UNCHANGED workerVars
    \/ \E sel \in Selectors : Querying(sel) /\ UNCHANGED workerVars
    \/ DismissAlert /\ UNCHANGED workerVars
    \/ OnPublishingConnected /\ UNCHANGED workerVars
    \/ OnMonitorConnected /\ UNCHANGED workerVars
    \/ OnDisconnected /\ UNCHANGED workerVars
    \/ OnConnectionError /\ UNCHANGED workerVars
    \/ OnDiscoveryUpdate /\ UNCHANGED workerVars
    \/ OnSubscriptionCreated /\ UNCHANGED workerVars
    \/ OnSubscriptionRemoved /\ UNCHANGED workerVars
    \/ OnPublished /\ UNCHANGED workerVars
    \/ OnOperationFailed /\ UNCHANGED workerVars
    \/ OnQueryReply /\ UNCHANGED workerVars
    \/ OnQueryNoResponses /\ UNCHANGED workerVars
    \/ OnPong /\ UNCHANGED workerVars
    \/ SendPing /\ UNCHANGED workerVars
    \/ PingTimesOut /\ UNCHANGED workerVars
    \/ UiStalls /\ UNCHANGED workerVars

Spec == Init /\ [][Next]_vars

(* The worker's handlers return (every Zenoh open has a timeout and the     *)
(* other operations are taken to complete), its tasks get scheduled, and a  *)
(* sender waiting for room in the pipeline gets its turn; the UI keeps      *)
(* drawing frames.  The user owes nothing.                                  *)
Fairness ==
    /\ SF_vars(LoopStep /\ UNCHANGED uiVars)
    /\ \A sel \in Selectors : SF_vars(RepliesEnd(sel) /\ UNCHANGED uiVars)
    /\ WF_vars(ProcessEvent /\ UNCHANGED workerVars)
    /\ WF_vars(SendPing /\ UNCHANGED workerVars)

FairSpec == Spec /\ Fairness

-----------------------------------------------------------------------------
(* Words the properties use.                                                *)
InCmds(op) == \E i \in DOMAIN cmds : cmds[i].op = op
InEvents(type) == \E i \in DOMAIN events : events[i].type = type
FailureInEvents(op) == Failed(op) \in {events[i] : i \in DOMAIN events}

Ids(S) == {s.id : s \in S}
LiveSubs == active \cup kept \cup redeclaring

NextIs(type) == events # <<>> /\ Head(events).type = type

\* Queued events that add or remove the row `id`, by position.
RowEvents(id) ==
    {i \in DOMAIN events :
        /\ events[i].type \in {"SubscriptionCreated", "SubscriptionRemoved"}
        /\ events[i].id = id}

\* Whether the row `id` shows once every queued event is processed.
RowWillShow(id) ==
    IF RowEvents(id) = {} THEN id \in Ids(rows)
    ELSE LET last == CHOOSE i \in RowEvents(id) : \A j \in RowEvents(id) : j <= i
         IN  events[last].type = "SubscriptionCreated"

-----------------------------------------------------------------------------
(* Type correctness of the whole state.                                     *)
TypeOK == ChannelsTypeOK /\ WorkerTypeOK /\ UiTypeOK

(* The worker's own bookkeeping: without a publishing session nothing that  *)
(* belongs to one exists, and an id names one subscription in one of the    *)
(* three places it can be (active_subscriptions, resubscribe, the list      *)
(* being declared).  Code: teardown, handle_connect, handle_unsubscribe.    *)
WorkerConsistent ==
    /\ ~pub => /\ active = {} /\ redeclaring = {}
               /\ monitor = "none" /\ ~discovery /\ queryable = "none"
    /\ wpc = "opening" => ~pub
    /\ wpc = "openingMonitor" => pub /\ active = {} /\ monitor = "none"
    /\ wpc # "ready" => redeclaring = {}
    /\ pub /\ wpc = "ready" => kept = {}
    /\ \A s \in LiveSubs : s.id < nextId
    /\ \A s, u \in LiveSubs : s.id = u.id => s = u
    /\ active \cap (kept \cup redeclaring) = {}

(* While the UI says Connected the worker has the publishing session, is    *)
(* not opening another, and nothing in either queue can end it: the reason  *)
(* the comment on the Disconnected arm gives for ignoring a stale one.      *)
ConnectedMeansSession ==
    status = "Connected" =>
        /\ pub
        /\ wpc = "ready"
        /\ ~InCmds("Connect") /\ ~InCmds("Disconnect")
        /\ ~InEvents("Disconnected") /\ ~InEvents("ConnectionError")
        /\ ~InEvents("PublishingConnected") /\ ~InEvents("MonitorConnected")

(* Once the queued events are processed the UI shows a row for exactly the  *)
(* subscriptions the worker holds, declared or waiting for a reconnect, and *)
(* the row has the worker's key: no row without a subscription to end, and  *)
(* no subscription the user cannot see.                                     *)
RowsMatchWorker ==
    /\ \A id \in 1 .. nextId - 1 : (id \in Ids(LiveSubs)) <=> RowWillShow(id)
    /\ \A r \in rows, s \in LiveSubs : r.id = s.id => r = s

(* A key that shows "Subscribing" has its answer under way: the command is  *)
(* queued, or an event that clears the key is (while the worker lives).     *)
PendingHasAnswer ==
    workerAlive =>
        \A key \in pending :
            \/ [op |-> "Subscribe", key |-> key] \in {cmds[i] : i \in DOMAIN cmds}
            \/ \E i \in DOMAIN events :
                  events[i].type = "SubscriptionCreated" /\ events[i].key = key
            \/ FailureInEvents("Subscribe")

(* A publish that shows "Sending" has its answer under way; the handler     *)
(* that silently skips a put without a session is never reached.            *)
SendingHasAnswer ==
    publish = "sending" /\ workerAlive =>
        InCmds("Publish") \/ InEvents("Published") \/ FailureInEvents("Publish")

(* When the end of a worker session reaches the UI, nothing is pending any  *)
(* more: "the worker handles commands in order, so any answer would have    *)
(* come first" (end_pending_work).  A publish or a subscribe of the next    *)
(* session is never cancelled by the end of the last one.                   *)
EndOfSessionFindsNothingPending ==
    NextIs("Disconnected") \/ NextIs("ConnectionError") =>
        publish # "sending" /\ pending = {}

(* The header's "monitor off" tells the truth: when Connected, monitor_ok   *)
(* holds exactly if this session's monitor subscribed to `**`.              *)
MonitorFlagTruthful ==
    status = "Connected" => (monitorOk <=> monitor = "subscribed")

(* "Active" beside the queryable checkbox never outlives the queryable: if  *)
(* the box is on, the worker runs it or is about to, or the event that      *)
(* unticks the box is queued.                                               *)
ActiveQueryableRuns ==
    queryableOn /\ workerAlive =>
        \/ queryable \in {"declaring", "serving"}
        \/ InCmds("EnableQueryable") \/ InCmds("Disconnect")
        \/ FailureInEvents("Queryable") \/ InEvents("Disconnected")

(* "Query sent ... Waiting for responses" has something to wait for: the    *)
(* command, its task, an event that replaces the notice, or a reply sample  *)
(* that a full pipeline dropped (and counted).                              *)
WaitingQueryHasAnswer ==
    alert.says = "sent" /\ workerAlive =>
        \/ Queued({[op |-> "Query", sel |-> alert.sel]}) # {}
        \/ queries[alert.sel] = "waiting"
        \/ FailureInEvents("Query") \/ InEvents("QueryReply")
        \/ InEvents("QueryNoResponses")
        \/ InCmds("Disconnect") \/ InEvents("Disconnected")
        \/ drops

-----------------------------------------------------------------------------
(* The abstract subscription set.  Between sessions a kept subscription     *)
(* still exists; while it is being declared again it may end.               *)
Abstract == INSTANCE Subscriptions WITH
    subs <- LiveSubs,
    used <- nextId - 1,
    endable <- Ids(redeclaring)
               \cup {cmds[i].id : i \in {j \in DOMAIN cmds : cmds[j].op = "Unsubscribe"}}

(* A subscription outlives disconnects, failed connects and reconnects under *)
(* its own id and key: it ends only by Unsubscribe, or when declaring it     *)
(* again fails; ids are never used twice.                                    *)
SubscriptionsKept == Abstract!Spec

-----------------------------------------------------------------------------
(* Liveness, under FairSpec.  A worker that dies leaves the UI waiting.     *)

(* A connect attempt ends: the UI does not stay in "Connecting".            *)
ConnectEnds == status \in Connecting ~> status \in {"Connected", "Error"} \/ ~workerAlive

(* A publish does not stay "Sending".                                       *)
SendingEnds == publish = "sending" ~> publish # "sending" \/ ~workerAlive

(* A row the user unsubscribed goes away, in every connection state.        *)
UnsubscribeEnds ==
    \A id \in 1 .. MaxSubs :
        Queued({[op |-> "Unsubscribe", id |-> id]}) # {}
            ~> id \notin Ids(rows) \/ ~workerAlive

(* "Waiting for responses" does not stay, unless a sample was dropped.      *)
WaitingEnds == alert.says = "sent" ~> alert.says # "sent" \/ drops \/ ~workerAlive

(* A worker taken for dead while it was only busy is found alive again.     *)
WorkerRecovers == ~healthy ~> healthy \/ ~workerAlive

-----------------------------------------------------------------------------
(* What comments of the code say and the code does not keep.                *)

(* "Subscribe is enabled when [...] no row or pending Subscribe already has *)
(* this key" (subscribe_enabled): when the button is enabled for a key, no  *)
(* Subscribe of that key is on its way to the worker or back.               *)
EnabledMeansNoneUnderWay ==
    \A key \in Keys : SubscribeEnabled(key) =>
        /\ Queued({[op |-> "Subscribe", key |-> key]}) = {}
        /\ ~ \E i \in DOMAIN events :
                events[i].type = "SubscriptionCreated" /\ events[i].key = key

(* "a dead worker ends a pending publish" (events/mod.rs test, health_tick): *)
(* a publish does not stay "Sending" even when the worker dies.             *)
DeadWorkerEndsPublish == publish = "sending" ~> publish # "sending"
=============================================================================
