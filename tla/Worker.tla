------------------------------- MODULE Worker -------------------------------
(***************************************************************************)
(* The worker thread (`zenoh_worker` and its handlers) and the tokio tasks *)
(* it spawns.  The loop receives one command at a time and awaits its      *)
(* handler; the tasks run on their own.  An await whose outcome the UI can *)
(* see in between is a step of its own (wpc); the rest of a handler is one *)
(* step.  Whether a Zenoh operation succeeds is a free choice.             *)
(***************************************************************************)
EXTENDS Channels, FiniteSets

CONSTANT MayDie     \* the worker thread may panic

ASSUME MayDieAssumption == MayDie \in BOOLEAN

VARIABLES
    wpc,          \* the await handle_connect is in, or "ready"
    pub,          \* publishing_session is Some
    monitor,      \* monitor_session / monitor_subscription
    active,       \* active_subscriptions, as a set of [id, key]
    kept,         \* resubscribe, as a set of [id, key]
    redeclaring,  \* the part of the taken resubscribe list still to declare
    nextId,       \* NEXT_SUB_ID
    discovery,    \* a discovery task polls the publishing session
    queryable,    \* the serve_queryable task behind queryable_task
    aborted,      \* aborted tasks that were already past their last await
    queries,      \* the reply-forwarding task of each selector
    drops         \* some sample found the pipeline full

sessVars == <<wpc, pub, monitor, discovery>>
subVars == <<active, kept, redeclaring, nextId>>
taskVars == <<queryable, aborted, queries, drops>>
workerVars == <<sessVars, subVars, taskVars>>

Subscription == [id : SubIds, key : Keys]
Sub(id, key) == [id |-> id, key |-> key]

WorkerTypeOK ==
    /\ wpc \in {"ready", "opening", "openingMonitor"}
    /\ pub \in BOOLEAN
    /\ monitor \in {"none", "session", "subscribed"}
    /\ active \subseteq Subscription
    /\ kept \subseteq Subscription
    /\ redeclaring \subseteq Subscription
    /\ nextId \in SubIds
    /\ discovery \in BOOLEAN
    /\ queryable \in {"none", "declaring", "serving", "ended"}
    /\ aborted \subseteq {"discovery", "queryable"}
    /\ queries \in [Selectors -> {"none", "waiting", "erred", "sampled"}]
    /\ drops \in BOOLEAN

WorkerInit ==
    /\ wpc = "ready" /\ pub = FALSE /\ monitor = "none" /\ discovery = FALSE
    /\ active = {} /\ kept = {} /\ redeclaring = {} /\ nextId = 1
    /\ queryable = "none" /\ aborted = {} /\ drops = FALSE
    /\ queries = [s \in Selectors |-> "none"]

-----------------------------------------------------------------------------
(* The loop takes the next command when the previous handler has returned. *)
Idle == workerAlive /\ wpc = "ready" /\ redeclaring = {}

Receive(op) ==
    /\ Idle
    /\ cmds # <<>>
    /\ Head(cmds).op = op
    /\ cmds' = Tail(cmds)
    /\ UNCHANGED workerAlive

-----------------------------------------------------------------------------
(* teardown(true), called first by Connect and by Disconnect.  Aborted     *)
(* tasks are not awaited: one past its last await still sends.             *)

\* Mutant of AfterTeardown: teardown(false), as at shutdown.
ForgetActive == kept

AfterTeardown == kept \cup active

Aborting ==
    (IF discovery THEN {"discovery"} ELSE {})
    \cup (IF queryable = "declaring" THEN {"queryable"} ELSE {})

Teardown ==
    /\ discovery' = FALSE
    /\ queryable' = "none"
    /\ aborted' = aborted \cup Aborting
    /\ monitor' = "none"
    /\ active' = {}
    /\ kept' = AfterTeardown
    /\ pub' = FALSE

StartConnect ==
    /\ Receive("Connect")
    /\ Teardown
    /\ wpc' = "opening"
    /\ UNCHANGED <<events, redeclaring, nextId, queries, drops>>

Disconnect ==
    /\ Receive("Disconnect")
    /\ Teardown
    /\ Emit(<<Note("Disconnected")>>)
    /\ UNCHANGED <<wpc, redeclaring, nextId, queries, drops>>

OpenedEvents == <<Note("PublishingConnected")>>

\* connect_zenoh returned a session: discovery starts polling it.
PublishingOpens ==
    /\ workerAlive
    /\ wpc = "opening"
    /\ wpc' = "openingMonitor"
    /\ pub' = TRUE
    /\ discovery' = TRUE
    /\ Emit(OpenedEvents)
    /\ UNCHANGED <<cmds, workerAlive, monitor, subVars, taskVars>>

\* Mutant of OpenFailedEvents: the error is only logged.
OpenFailedSilently == <<>>

OpenFailedEvents == <<Note("ConnectionError")>>

PublishingFails ==
    /\ workerAlive
    /\ wpc = "opening"
    /\ wpc' = "ready"
    /\ Emit(OpenFailedEvents)
    /\ UNCHANGED <<cmds, workerAlive, pub, monitor, discovery, subVars, taskVars>>

(* The monitor session opened and subscribed to `**`, opened only, or did   *)
(* not open.  MonitorConnected follows in every case, then the kept         *)
(* subscriptions are taken for declaring.                                   *)

MonitorEvents(outcome) ==
    (IF outcome = "subscribed" THEN <<>> ELSE <<Failed("Monitor")>>)
    \o <<Note("MonitorConnected")>>

\* Mutant of KeptAfterTake: the list is cloned instead of taken.
KeptCloned == kept

KeptAfterTake == {}

MonitorReturns ==
    /\ workerAlive
    /\ wpc = "openingMonitor"
    /\ wpc' = "ready"
    /\ \E outcome \in {"none", "session", "subscribed"} :
          monitor' = outcome /\ Emit(MonitorEvents(outcome))
    /\ redeclaring' = kept
    /\ kept' = KeptAfterTake
    /\ UNCHANGED <<cmds, workerAlive, pub, discovery, active, nextId, taskVars>>

-----------------------------------------------------------------------------
(* handle_subscribe: `rowKept` says the id comes from a kept subscription.  *)
(* With no publishing session the command is consumed without effect.       *)

\* Mutant of DeclareFailed: a new subscription fails without a report.
DeclareFailedSilent(id, rowKept) == IF rowKept THEN <<Removed(id)>> ELSE <<>>

DeclareFailed(id, rowKept) ==
    (IF rowKept THEN <<Removed(id)>> ELSE <<>>) \o <<Failed("Subscribe")>>

HandleSubscribe(key, id, rowKept) ==
    IF ~pub THEN UNCHANGED <<active, events>>
    ELSE \/ /\ active' = active \cup {Sub(id, key)}
            /\ Emit(<<Created(id, key)>>)
         \/ /\ Emit(DeclareFailed(id, rowKept))
            /\ UNCHANGED active

\* Mutant of FreshId: the counter starts at 0.
FreshIdFromZero == nextId - 1

FreshId == nextId

\* fetch_add runs only when the declaration succeeded.
Subscribe ==
    /\ Receive("Subscribe")
    /\ HandleSubscribe(Head(cmds).key, FreshId, FALSE)
    /\ nextId' = IF active' = active THEN nextId ELSE nextId + 1
    /\ UNCHANGED <<sessVars, kept, redeclaring, taskVars>>

\* One round of the loop over the taken list, in no particular order: the list
\* was drained from a hash map.
Redeclare(s) ==
    /\ workerAlive
    /\ wpc = "ready"
    /\ redeclaring' = redeclaring \ {s}
    /\ HandleSubscribe(s.key, s.id, TRUE)
    /\ UNCHANGED <<cmds, workerAlive, sessVars, kept, nextId, taskVars>>

WithId(S, id) == {s \in S : s.id = id}

(* The Unsubscribe arm answers for a kept subscription, handle_unsubscribe  *)
(* for an active one, and neither for an unknown id.                        *)

\* Mutant of UnsubscribeAnswers: a kept subscription is dropped silently.
UnsubscribeAnswersActive(id) ==
    IF WithId(active, id) # {} THEN <<Removed(id)>> ELSE <<>>

UnsubscribeAnswers(id) ==
    (IF WithId(kept, id) # {} THEN <<Removed(id)>> ELSE <<>>)
    \o (IF WithId(active, id) # {} THEN <<Removed(id)>> ELSE <<>>)

Unsubscribe ==
    /\ Receive("Unsubscribe")
    /\ LET id == Head(cmds).id
       IN  /\ kept' = kept \ WithId(kept, id)
           /\ active' = active \ WithId(active, id)
           /\ Emit(UnsubscribeAnswers(id))
    /\ UNCHANGED <<sessVars, redeclaring, nextId, taskVars>>

-----------------------------------------------------------------------------
(* Publish: all puts of the payload, then one answer.  A chunked payload    *)
(* stops at its first failed put and reports that one.                      *)

\* Mutant of PublishAnswers: a failed put is only logged.
PublishAnswersOk == {<<Note("Published")>>, <<>>}

PublishAnswers == {<<Note("Published")>>, <<Failed("Publish")>>}

Publish ==
    /\ Receive("Publish")
    /\ IF pub THEN \E answer \in PublishAnswers : Emit(answer)
              ELSE UNCHANGED events
    /\ UNCHANGED <<sessVars, subVars, taskVars>>

Ping ==
    /\ Receive("Ping")
    /\ Emit(<<Note("Pong")>>)
    /\ UNCHANGED <<sessVars, subVars, taskVars>>

-----------------------------------------------------------------------------
(* The queryable and the task that serves it.                               *)

AbortQueryable ==
    aborted' = aborted \cup (Aborting \ {"discovery"})

EnableQueryable ==
    /\ Receive("EnableQueryable")
    /\ IF pub THEN queryable' = "declaring" /\ AbortQueryable
              ELSE UNCHANGED <<queryable, aborted>>
    /\ UNCHANGED <<events, sessVars, subVars, queries, drops>>

DisableQueryable ==
    /\ Receive("DisableQueryable")
    /\ queryable' = "none"
    /\ AbortQueryable
    /\ UNCHANGED <<events, sessVars, subVars, queries, drops>>

\* serve_queryable: the declaration succeeds, or fails and is reported.
QueryableDeclared ==
    /\ workerAlive
    /\ queryable = "declaring"
    /\ \/ queryable' = "serving" /\ UNCHANGED events
       \/ queryable' = "ended" /\ Emit(<<Failed("Queryable")>>)
    /\ UNCHANGED <<cmds, workerAlive, sessVars, subVars, aborted, queries, drops>>

-----------------------------------------------------------------------------
(* Queries: handle_query spawns one task per query; no teardown stops it.   *)

SetQuery(sel, state) == queries' = [queries EXCEPT ![sel] = state]

Query ==
    /\ Receive("Query")
    /\ IF pub
       THEN \/ SetQuery(Head(cmds).sel, "waiting") /\ UNCHANGED events
            \/ Emit(<<Failed("Query")>>) /\ UNCHANGED queries
       ELSE UNCHANGED <<queries, events>>
    /\ UNCHANGED <<sessVars, subVars, queryable, aborted, drops>>

TaskStep == workerAlive /\ UNCHANGED <<cmds, workerAlive, sessVars, subVars,
                                       queryable, aborted>>

\* A sample reply: send_sample drops it when the pipeline is full.
ReplySample(sel) ==
    /\ TaskStep
    /\ queries[sel] # "none"
    /\ SetQuery(sel, "sampled")
    /\ \/ Emit(<<Note("QueryReply")>>) /\ UNCHANGED drops
       \/ ~Room /\ drops' = TRUE /\ UNCHANGED events

\* An error reply.  Zenoh's own "Timeout" is silent (a stutter here) once a
\* sample came or a timeout was reported.
ReplyError(sel) ==
    /\ TaskStep
    /\ queries[sel] # "none"
    /\ SetQuery(sel, IF queries[sel] = "waiting" THEN "erred" ELSE queries[sel])
    /\ Emit(<<Failed("Query")>>)
    /\ UNCHANGED drops

\* Mutant of QueryEnds: the task ends without a word when nothing came back.
QueryEndsSilently(sel) == <<>>

QueryEnds(sel) ==
    IF queries[sel] = "waiting" THEN <<NoResponses(sel)>> ELSE <<>>

\* The reply channel closes.
RepliesEnd(sel) ==
    /\ TaskStep
    /\ queries[sel] # "none"
    /\ SetQuery(sel, "none")
    /\ Emit(QueryEnds(sel))
    /\ UNCHANGED drops

-----------------------------------------------------------------------------
(* Discovery polls every two seconds and never waits for room: with none    *)
(* the update is lost.                                                      *)
UpdatesQueued ==
    Cardinality({i \in DOMAIN events : events[i].type = "DiscoveryUpdate"})

DiscoveryTick ==
    /\ workerAlive
    /\ discovery
    /\ UpdatesQueued < MaxUpdates
    /\ Emit(<<Note("DiscoveryUpdate")>>)
    /\ UNCHANGED <<cmds, workerAlive, sessVars, subVars, taskVars>>

\* An aborted task that was past its last await sends what it had, or ends.
AbortedTaskEnds(t) ==
    /\ workerAlive
    /\ aborted' = aborted \ {t}
    /\ \/ t = "discovery" /\ Emit(<<Note("DiscoveryUpdate")>>)
       \/ t = "queryable" /\ Emit(<<Failed("Queryable")>>)
       \/ UNCHANGED events
    /\ UNCHANGED <<cmds, workerAlive, sessVars, subVars, queryable, queries, drops>>

\* The thread panics: its tasks end with the runtime, commands queued or sent
\* later are lost, events already sent are still delivered.  What the worker
\* held is frozen in the model; nothing reads it again.
Dies ==
    /\ MayDie
    /\ workerAlive
    /\ workerAlive' = FALSE
    /\ cmds' = <<>>
    /\ UNCHANGED <<events, workerVars>>

-----------------------------------------------------------------------------
\* What the loop does on its own thread, and what the tasks do.
LoopStep ==
    \/ StartConnect \/ PublishingOpens \/ PublishingFails \/ MonitorReturns
    \/ Disconnect
    \/ Subscribe \/ Unsubscribe \/ (\E s \in redeclaring : Redeclare(s))
    \/ Publish \/ Query \/ EnableQueryable \/ DisableQueryable \/ Ping

TaskNext ==
    \/ QueryableDeclared
    \/ \E sel \in Selectors : ReplySample(sel) \/ ReplyError(sel) \/ RepliesEnd(sel)
    \/ DiscoveryTick
    \/ \E t \in aborted : AbortedTaskEnds(t)

WorkerNext == LoopStep \/ TaskNext \/ Dies
=============================================================================
