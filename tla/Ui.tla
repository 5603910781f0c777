--------------------------------- MODULE Ui ---------------------------------
(***************************************************************************)
(* The UI thread: the user's clicks that send commands, the handler of     *)
(* each worker event (process_events) and the health check.  One event is  *)
(* processed per step; a frame processes a batch of them between clicks.   *)
(* The event handlers are one action per match arm.                        *)
(***************************************************************************)
EXTENDS Channels

CONSTANTS
    Panels,     \* the panels the user touches in this instance
    MaxCmds     \* bound: commands in flight when the user clicks

ASSUME UiAssumption ==
    /\ Panels \subseteq {"Subscribe", "Publish", "Queryable", "Query", "Health"}
    /\ MaxCmds \in Nat

VARIABLES
    status,       \* connection_status
    monitorOk,    \* monitor_ok
    rows,         \* subscriptions, as a set of [id, key]
    pending,      \* pending_subscribes
    publish,      \* publish_status
    queryableOn,  \* queryable_enabled
    alert,        \* query_alert: what it says, and about which selector
    peers,        \* discovered_peers and discovered_routers hold counts received
    pingOut,      \* ping_sent_at is Some
    healthy,      \* worker_healthy
    gone          \* worker_gone

connVars == <<status, monitorOk, peers>>
healthVars == <<pingOut, healthy, gone>>
uiVars == <<connVars, rows, pending, publish, queryableOn, alert, healthVars>>

Connecting == {"ConnectingPublishing", "ConnectingMonitor"}

Alert ==
    [says : {"nothing", "failed"}]
    \cup [says : {"sent", "cancelled", "noReplies"}, sel : Selectors]

UiTypeOK ==
    /\ status \in Connecting \cup {"Disconnected", "Connected", "Error"}
    /\ monitorOk \in BOOLEAN
    /\ peers \in BOOLEAN
    /\ rows \subseteq [id : SubIds, key : Keys]
    /\ pending \subseteq Keys
    /\ publish \in {"none", "sending", "published", "failed"}
    /\ queryableOn \in BOOLEAN
    /\ alert \in Alert
    /\ pingOut \in BOOLEAN
    /\ healthy \in BOOLEAN
    /\ gone \in BOOLEAN

UiInit ==
    /\ status = "Disconnected" /\ monitorOk = TRUE /\ peers = FALSE
    /\ rows = {} /\ pending = {} /\ publish = "none" /\ queryableOn = FALSE
    /\ alert = [says |-> "nothing"]
    /\ pingOut = FALSE /\ healthy = TRUE /\ gone = FALSE

-----------------------------------------------------------------------------
(* Clicks.                                                                  *)
Click(panel) ==
    /\ panel \in Panels
    /\ Len(cmds) < MaxCmds
    /\ UNCHANGED <<events, workerAlive>>

Plainly(op) == [op |-> op]

\* The connection form is shown only when there is no connection.  Connect is
\* one of the two senders that look at the result of the send.
ClickConnect ==
    /\ status \in {"Disconnected", "Error"}
    /\ Len(cmds) < MaxCmds
    /\ Post(Plainly("Connect"))
    /\ status' = IF workerAlive THEN "ConnectingPublishing" ELSE "Error"
    /\ UNCHANGED <<events, workerAlive, monitorOk, peers, rows, pending, publish,
                   queryableOn, alert, healthVars>>

\* Editing the form after a failed attempt clears the error.
EditForm ==
    /\ status = "Error"
    /\ status' = "Disconnected"
    /\ UNCHANGED <<chanVars, monitorOk, peers, rows, pending, publish,
                   queryableOn, alert, healthVars>>

\* Mutant of DisconnectEnabled: the button is enabled while connecting too.
DisconnectEnabledConnecting == status \in Connecting \cup {"Connected"}

DisconnectEnabled == status = "Connected"

ClickDisconnect ==
    /\ DisconnectEnabled
    /\ Len(cmds) < MaxCmds
    /\ status' = "Disconnected"
    /\ Post(Plainly("Disconnect"))
    /\ UNCHANGED <<events, workerAlive, monitorOk, peers, rows, pending, publish,
                   queryableOn, alert, healthVars>>

SubscribeEnabled(key) ==
    /\ status = "Connected"
    /\ \A r \in rows : r.key # key
    /\ key \notin pending

ClickSubscribe(key) ==
    /\ Click("Subscribe")
    /\ SubscribeEnabled(key)
    /\ Post([op |-> "Subscribe", key |-> key])
    /\ pending' = pending \cup {key}
    /\ UNCHANGED <<connVars, rows, publish, queryableOn, alert, healthVars>>

\* A row offers Unsubscribe in every connection state, and stays until the
\* worker answers.
ClickUnsubscribe(row) ==
    /\ Click("Subscribe")
    /\ Post([op |-> "Unsubscribe", id |-> row.id])
    /\ UNCHANGED uiVars

\* While a put is pending the button stays enabled and a click does nothing.
ClickPublish ==
    /\ Click("Publish")
    /\ status = "Connected"
    /\ publish # "sending"
    /\ Post(Plainly("Publish"))
    /\ publish' = IF workerAlive THEN "sending" ELSE "failed"
    /\ UNCHANGED <<connVars, rows, pending, queryableOn, alert, healthVars>>

ToggleQueryable ==
    /\ Click("Queryable")
    /\ status = "Connected"
    /\ queryableOn' = ~queryableOn
    /\ Post(Plainly(IF queryableOn' THEN "EnableQueryable" ELSE "DisableQueryable"))
    /\ UNCHANGED <<connVars, rows, pending, publish, alert, healthVars>>

ClickQuery(sel) ==
    /\ Click("Query")
    /\ status = "Connected"
    /\ Post([op |-> "Query", sel |-> sel])
    /\ alert' = [says |-> "sent", sel |-> sel]
    /\ UNCHANGED <<connVars, rows, pending, publish, queryableOn, healthVars>>

DismissAlert ==
    /\ alert.says # "nothing"
    /\ alert' = [says |-> "nothing"]
    /\ UNCHANGED <<chanVars, connVars, rows, pending, publish, queryableOn, healthVars>>

-----------------------------------------------------------------------------
(* process_events, one match arm per action.                                *)
Process(type) ==
    /\ events # <<>>
    /\ Head(events).type = type
    /\ events' = Tail(events)
    /\ UNCHANGED <<cmds, workerAlive>>

\* Mutant of MonitorOkOnConnect: the flag keeps the last session's verdict.
MonitorOkKept == monitorOk

MonitorOkOnConnect == TRUE

OnPublishingConnected ==
    /\ Process("PublishingConnected")
    /\ status' = "ConnectingMonitor"
    /\ monitorOk' = MonitorOkOnConnect
    /\ UNCHANGED <<peers, rows, pending, publish, queryableOn, alert, healthVars>>

OnMonitorConnected ==
    /\ Process("MonitorConnected")
    /\ status' = "Connected"
    /\ UNCHANGED <<monitorOk, peers, rows, pending, publish, queryableOn, alert,
                   healthVars>>

\* end_pending_work: nothing will answer what is still pending.
EndPendingWork ==
    /\ publish' = IF publish = "sending" THEN "none" ELSE publish
    /\ pending' = {}

\* Mutants of KeepsStatus and FlagAfterDisconnected.
NeverKeepsStatus == FALSE
FlagKept == queryableOn

\* A Disconnected seen while connecting belongs to an earlier Disconnect.
KeepsStatus == status \in Connecting

FlagAfterDisconnected == FALSE

CancelQuery(a) ==
    IF a.says = "sent" THEN [says |-> "cancelled", sel |-> a.sel] ELSE a

OnDisconnected ==
    /\ Process("Disconnected")
    /\ alert' = CancelQuery(alert)
    /\ EndPendingWork
    /\ IF KeepsStatus THEN UNCHANGED <<status, peers>>
                      ELSE status' = "Disconnected" /\ peers' = FALSE
    /\ queryableOn' = FlagAfterDisconnected
    /\ UNCHANGED <<monitorOk, rows, healthVars>>

OnDiscoveryUpdate ==
    /\ Process("DiscoveryUpdate")
    /\ peers' = TRUE
    /\ UNCHANGED <<status, monitorOk, rows, pending, publish, queryableOn, alert,
                   healthVars>>

OnConnectionError ==
    /\ Process("ConnectionError")
    /\ EndPendingWork
    /\ status' = "Error"
    /\ UNCHANGED <<monitorOk, peers, rows, queryableOn, alert, healthVars>>

\* A row declared again after a reconnect keeps its id and is not doubled.
OnSubscriptionCreated ==
    /\ Process("SubscriptionCreated")
    /\ LET e == Head(events)
       IN  /\ pending' = pending \ {e.key}
           /\ rows' = IF \E r \in rows : r.id = e.id THEN rows
                      ELSE rows \cup {[id |-> e.id, key |-> e.key]}
    /\ UNCHANGED <<connVars, publish, queryableOn, alert, healthVars>>

OnSubscriptionRemoved ==
    /\ Process("SubscriptionRemoved")
    /\ rows' = {r \in rows : r.id # Head(events).id}
    /\ UNCHANGED <<connVars, pending, publish, queryableOn, alert, healthVars>>

\* Any query reply takes down a "Query sent" notice, whichever query it names.
OnQueryReply ==
    /\ Process("QueryReply")
    /\ alert' = IF alert.says = "sent" THEN [says |-> "nothing"] ELSE alert
    /\ UNCHANGED <<connVars, rows, pending, publish, queryableOn, healthVars>>

OnQueryNoResponses ==
    /\ Process("QueryNoResponses")
    /\ alert' = IF status = "Connected"
                THEN [says |-> "noReplies", sel |-> Head(events).sel] ELSE alert
    /\ UNCHANGED <<connVars, rows, pending, publish, queryableOn, healthVars>>

\* Mutant of PingOutAfterPong: the answered ping still counts as out.
PingStaysOut == pingOut

PingOutAfterPong == FALSE

OnPong ==
    /\ Process("Pong")
    /\ healthy' = TRUE
    /\ pingOut' = PingOutAfterPong
    /\ UNCHANGED <<connVars, rows, pending, publish, queryableOn, alert, gone>>

OnPublished ==
    /\ Process("Published")
    /\ publish' = "published"
    /\ UNCHANGED <<connVars, rows, pending, queryableOn, alert, healthVars>>

\* One failed Subscribe clears every pending key: the event names no key.
OnOperationFailed ==
    /\ Process("OperationFailed")
    /\ LET op == Head(events).failed
       IN  /\ alert' = IF op = "Query" THEN [says |-> "failed"] ELSE alert
           /\ queryableOn' = (queryableOn /\ op # "Queryable")
           /\ publish' = IF op = "Publish" THEN "failed" ELSE publish
           /\ pending' = IF op = "Subscribe" THEN {} ELSE pending
           /\ monitorOk' = (monitorOk /\ op # "Monitor")
    /\ UNCHANGED <<status, peers, rows, healthVars>>

-----------------------------------------------------------------------------
(* health_tick, with its clock abstracted: a ping goes out when none is     *)
(* out, an unanswered one may time out, and a stall of the UI thread        *)
(* forgets the one that is out.                                             *)
SendPing ==
    /\ Click("Health")
    /\ ~pingOut
    /\ pingOut' = TRUE
    /\ Post(Plainly("Ping"))
    /\ gone' = (gone \/ ~workerAlive)
    /\ healthy' = (healthy /\ workerAlive)
    /\ publish' = IF publish = "sending" /\ ~workerAlive THEN "failed" ELSE publish
    /\ UNCHANGED <<connVars, rows, pending, queryableOn, alert>>

PingTimesOut ==
    /\ pingOut
    /\ healthy
    /\ healthy' = FALSE
    /\ UNCHANGED <<chanVars, connVars, rows, pending, publish, queryableOn, alert,
                   pingOut, gone>>

UiStalls ==
    /\ pingOut
    /\ pingOut' = FALSE
    /\ UNCHANGED <<chanVars, connVars, rows, pending, publish, queryableOn, alert,
                   healthy, gone>>

-----------------------------------------------------------------------------
ProcessEvent ==
    \/ OnPublishingConnected \/ OnMonitorConnected \/ OnDisconnected
    \/ OnConnectionError \/ OnDiscoveryUpdate
    \/ OnSubscriptionCreated \/ OnSubscriptionRemoved
    \/ OnPublished \/ OnOperationFailed
    \/ OnQueryReply \/ OnQueryNoResponses \/ OnPong

HealthTick == SendPing \/ PingTimesOut \/ UiStalls
=============================================================================
