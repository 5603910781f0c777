------------------------------ MODULE Pipeline ------------------------------
(***************************************************************************)
(* The event pipeline: the worker's channel, the buffer thread that        *)
(* gathers samples into batches, the UI's channel, and the frames that     *)
(* empty it.                                                               *)
(*                                                                         *)
(* Channels.tla takes all of it for one queue.  An item is an event with   *)
(* its contents left out: its number, in the order of acceptance, and      *)
(* whether it is a sample (MessageReceived).  A message in the UI's        *)
(* channel is the sequence of the items it carries.                        *)
(***************************************************************************)
EXTENDS Naturals, Sequences, FiniteSets, SequencesExt

CONSTANTS
    Senders,         \* the worker's loop and the tasks that send events
    Loop,            \* the worker's loop among them
    WorkerCapacity,  \* WORKER_EVENT_CAPACITY
    UiCapacity,      \* UI_EVENT_CAPACITY
    MaxBatch,        \* MAX_BATCH
    MaxItems,        \* bound: items ever sent
    MaxDrops         \* bound: samples dropped

ASSUME PipelineAssumption ==
    /\ Loop \in Senders
    /\ {WorkerCapacity, UiCapacity, MaxBatch} \subseteq Nat \ {0}
    /\ {MaxItems, MaxDrops} \subseteq Nat

VARIABLES
    wq,          \* the worker's channel
    blocked,     \* senders waiting for room in it, each with an event
    workerOpen,  \* the worker is there
    accepted,    \* items that entered wq so far
    drops,       \* sample_drops
    hand,        \* the buffer thread's next event: one item or none
    batch,       \* samples it has gathered
    bpc,         \* where it is
    owes,        \* it sent to the UI and has yet to call notify
    uq,          \* the UI's channel
    wake,        \* a repaint is requested
    draining,    \* a frame is taking events
    taken,       \* items the UI took so far
    uiOpen       \* the UI is there

senderVars == <<blocked, workerOpen, accepted, drops>>
bufferVars == <<hand, batch, bpc, owes>>
uiVars == <<uq, wake, draining, taken, uiOpen>>
vars == <<wq, senderVars, bufferVars, uiVars>>

-----------------------------------------------------------------------------
Item == [n : Nat \ {0}, sample : BOOLEAN]

Places == {"recv", "match", "collect", "flush", "lastFlush", "ended"}

Init ==
    /\ wq = <<>> /\ blocked = {} /\ workerOpen = TRUE
    /\ accepted = 0 /\ drops = 0
    /\ hand = <<>> /\ batch = <<>> /\ bpc = "recv" /\ owes = FALSE
    /\ uq = <<>> /\ wake = FALSE /\ draining = FALSE
    /\ taken = 0 /\ uiOpen = TRUE

-----------------------------------------------------------------------------
(* The senders.  Once the buffer thread has ended, a send fails and is      *)
(* forgotten.                                                               *)
Full == Len(wq) >= WorkerCapacity

Accept(sample) ==
    /\ bpc # "ended"
    /\ ~Full
    /\ wq' = Append(wq, [n |-> accepted + 1, sample |-> sample])
    /\ accepted' = accepted + 1

MaySend(s) ==
    /\ workerOpen
    /\ s \notin blocked
    /\ accepted + Cardinality(blocked) < MaxItems

\* A sample never waits: a full pipeline drops and counts.
SendSample(s) ==
    /\ MaySend(s)
    /\ \/ Accept(TRUE) /\ UNCHANGED drops
       \/ /\ bpc # "ended" /\ Full /\ drops < MaxDrops
          /\ drops' = drops + 1
          /\ UNCHANGED <<wq, accepted>>
    /\ UNCHANGED <<blocked, workerOpen, bufferVars, uiVars>>

\* Any other event waits for room, in its thread or on the blocking pool.
SendEvent(s) ==
    /\ MaySend(s)
    /\ \/ Accept(FALSE) /\ UNCHANGED blocked
       \/ /\ bpc # "ended" /\ Full
          /\ blocked' = blocked \cup {s}
          /\ UNCHANGED <<wq, accepted>>
    /\ UNCHANGED <<drops, workerOpen, bufferVars, uiVars>>

Unblocks(s) ==
    /\ s \in blocked
    /\ Accept(FALSE)
    /\ blocked' = blocked \ {s}
    /\ UNCHANGED <<drops, workerOpen, bufferVars, uiVars>>

SendFails(s) ==
    /\ s \in blocked /\ bpc = "ended"
    /\ blocked' = blocked \ {s}
    /\ UNCHANGED <<wq, accepted, drops, workerOpen, bufferVars, uiVars>>

\* The worker leaves its loop when the UI is gone, or panics.  A send on the
\* blocking pool goes on and keeps the channel open.
WorkerEnds ==
    /\ workerOpen
    /\ Loop \notin blocked
    /\ workerOpen' = FALSE
    /\ UNCHANGED <<wq, blocked, accepted, drops, bufferVars, uiVars>>

-----------------------------------------------------------------------------
(* The buffer thread.  A step waits until notify() has followed the send    *)
(* before it.  A flush of an empty batch does nothing.                      *)
At(places) == bpc \in places /\ ~owes

Receive ==
    /\ At({"recv", "collect"})
    /\ wq # <<>>
    /\ hand' = <<Head(wq)>>
    /\ wq' = Tail(wq)
    /\ bpc' = "match"
    /\ UNCHANGED <<senderVars, batch, owes, uiVars>>

Disconnected == wq = <<>> /\ ~workerOpen /\ blocked = {}

\* Mutants: the last batch is left; the end is noticed within a window only.
LeavesAtOnce == "ended"
WithinWindow == {"collect"}

OnClosed == IF batch = <<>> THEN "ended" ELSE "lastFlush"
NoticesClosed == {"recv", "collect"}

Closed ==
    /\ At(NoticesClosed)
    /\ Disconnected
    /\ bpc' = OnClosed
    /\ UNCHANGED <<wq, senderVars, hand, batch, owes, uiVars>>

WindowOver ==
    /\ At({"collect"})
    /\ bpc' = IF batch = <<>> THEN "recv" ELSE "flush"
    /\ UNCHANGED <<wq, senderVars, hand, batch, owes, uiVars>>

\* Mutants: off by one; a full batch waits for the next event.
Overfull(b) == Len(b) > MaxBatch
WaitAfterPush(b) == IF Len(b) >= MaxBatch THEN "recv" ELSE "collect"

BatchFull(b) == Len(b) >= MaxBatch
AfterPush(b) == IF BatchFull(b) THEN "flush" ELSE "collect"

Push ==
    /\ At({"match"})
    /\ hand[1].sample
    /\ batch' = Append(batch, hand[1])
    /\ hand' = <<>>
    /\ bpc' = AfterPush(batch')
    /\ UNCHANGED <<wq, senderVars, owes, uiVars>>

\* What the thread is about to send: a batch goes out before the event that
\* arrived after it, when it is full, at the window's end and at the last.
HoldsOther == bpc = "match" /\ ~hand[1].sample
Flushes == batch # <<>> /\ (HoldsOther \/ bpc \in {"flush", "lastFlush"})

\* A send to the UI waits for room; notify() follows.
Forward(message) ==
    /\ ~owes
    /\ uiOpen
    /\ Len(uq) < UiCapacity
    /\ uq' = Append(uq, message)
    /\ owes' = TRUE
    /\ UNCHANGED <<wq, senderVars, wake, draining, taken, uiOpen>>

\* Mutants: an event overtakes the batch; a flush clones the batch.
OvertakesBatch == HoldsOther
BatchCloned == batch

ForwardsOther == HoldsOther /\ batch = <<>>
BatchTaken == <<>>

Flush ==
    /\ Flushes
    /\ Forward(batch)
    /\ batch' = BatchTaken
    /\ bpc' = CASE bpc = "flush" -> "recv"
                 [] bpc = "lastFlush" -> "ended"
                 [] OTHER -> bpc
    /\ UNCHANGED hand

ForwardOther ==
    /\ ForwardsOther
    /\ Forward(hand)
    /\ hand' = <<>>
    /\ bpc' = "collect"
    /\ UNCHANGED batch

\* notify() is egui's request_repaint.
Notify ==
    /\ owes
    /\ owes' = FALSE
    /\ wake' = TRUE
    /\ UNCHANGED <<wq, senderVars, hand, batch, bpc, uq, draining, taken, uiOpen>>

\* Mutant of UiGone: a failed send is tried again.
NeverGone == FALSE

\* A send fails: the thread returns, and with it go its batch and channel.
UiGone ==
    /\ Flushes \/ HoldsOther
    /\ ~owes
    /\ ~uiOpen
    /\ bpc' = "ended"
    /\ hand' = <<>> /\ batch' = <<>> /\ wq' = <<>>
    /\ UNCHANGED <<senderVars, owes, uiVars>>

BufferStep ==
    \/ Receive \/ Closed \/ WindowOver \/ Push \/ Flush
    \/ ForwardOther \/ Notify \/ UiGone

-----------------------------------------------------------------------------
(* The UI.  A frame runs when a repaint was requested, and every idle       *)
(* interval.  It takes events until there are none or its budget is spent;  *)
(* then events_pending makes it request the next frame itself.              *)
Frame ==
    /\ uiOpen
    /\ ~draining
    /\ draining' = TRUE
    /\ wake' = FALSE
    /\ UNCHANGED <<wq, senderVars, bufferVars, uq, taken, uiOpen>>

\* Mutant of WakeAfter: events_pending is not looked at.
WakeUnchanged(budgetSpent) == wake

WakeAfter(budgetSpent) == wake \/ budgetSpent

TakeMessage ==
    /\ draining
    /\ uq # <<>>
    /\ uq' = Tail(uq)
    /\ taken' = taken + Len(Head(uq))
    /\ \E budgetSpent \in BOOLEAN :
        /\ draining' = ~budgetSpent
        /\ wake' = WakeAfter(budgetSpent)
    /\ UNCHANGED <<wq, senderVars, bufferVars, uiOpen>>

DrainEnds ==
    /\ draining
    /\ uq = <<>>
    /\ draining' = FALSE
    /\ UNCHANGED <<wq, senderVars, bufferVars, uq, wake, taken, uiOpen>>

CloseUi ==
    /\ uiOpen
    /\ ~draining
    /\ uiOpen' = FALSE
    /\ uq' = <<>>
    /\ UNCHANGED <<wq, senderVars, bufferVars, wake, draining, taken>>

-----------------------------------------------------------------------------
Next ==
    \/ \E s \in Senders :
        SendSample(s) \/ SendEvent(s) \/ Unblocks(s) \/ SendFails(s)
    \/ WorkerEnds
    \/ BufferStep
    \/ Frame \/ TakeMessage \/ DrainEnds \/ CloseUi

Spec == Init /\ [][Next]_vars

(* Both threads run, a requested frame is drawn, and the worker leaves once *)
(* the UI is gone.  SyncSender::send queues its waiters, so a waiting       *)
(* sender gets its turn.  Nothing is owed by the idle repaint.              *)
FairSpec ==
    /\ Spec
    /\ WF_vars(BufferStep)
    /\ WF_vars(wake /\ Frame)
    /\ WF_vars(TakeMessage \/ DrainEnds)
    /\ WF_vars(~uiOpen /\ WorkerEnds)
    /\ \A s \in Senders : SF_vars(Unblocks(s)) /\ WF_vars(SendFails(s))

-----------------------------------------------------------------------------
QueuesTypeOK ==
    /\ wq \in Seq(Item) /\ Len(wq) <= WorkerCapacity
    /\ blocked \subseteq Senders
    /\ accepted \in Nat
    /\ drops \in Nat
    /\ bpc \in Places
    /\ hand \in Seq(Item) /\ Len(hand) = IF bpc = "match" THEN 1 ELSE 0
    /\ batch \in Seq(Item)
    /\ Len(batch) <= IF bpc = "flush" THEN MaxBatch ELSE MaxBatch - 1
    /\ uq \in Seq(Seq(Item)) /\ Len(uq) <= UiCapacity
    /\ taken \in Nat

FlagsTypeOK == {workerOpen, owes, wake, draining, uiOpen} \subseteq BOOLEAN

(* The types, and the limits of the channels and the batch.                 *)
TypeOK == QueuesTypeOK /\ FlagsTypeOK

Follows(s, n) == \A i \in DOMAIN s : s[i].n = n + i

\* Number of the last item that has left the buffer thread.
LastOf(message) == message[Len(message)].n
Forwarded == IF uq = <<>> THEN taken ELSE LastOf(uq[Len(uq)])

(* While the UI is there, the buffer thread passes on what it receives in   *)
(* the order it was accepted, whatever mix of batches and single events it  *)
(* makes of it, and loses nothing: from the next item the UI will take to   *)
(* the last one accepted, every number is in its place.                     *)
InOrder ==
    uiOpen =>
        /\ \A i \in DOMAIN uq :
            /\ uq[i] # <<>>
            /\ Follows(uq[i], IF i = 1 THEN taken ELSE LastOf(uq[i - 1]))
        /\ Follows(batch, Forwarded)
        /\ Follows(hand, Forwarded + Len(batch))
        /\ Follows(wq, Forwarded + Len(batch) + Len(hand))
        /\ accepted = Forwarded + Len(batch) + Len(hand) + Len(wq)

(* The buffer thread never sleeps on a batch: when it waits without a       *)
(* deadline, or has returned, it holds nothing.                             *)
SleepsEmptyHanded ==
    bpc \in {"recv", "ended"} => batch = <<>> /\ hand = <<>>

(* What lies in the UI's channel has a frame coming for it: one is under    *)
(* way, is requested, or is about to be requested by the buffer thread.     *)
(* The idle repaint is not needed.                                          *)
NoLostWakeUp == uq # <<>> => draining \/ wake \/ owes

(* Two bounded channels and a thread between them are one bounded FIFO.     *)
Fifo == INSTANCE EventFifo WITH
    Item <- [n : 1 .. MaxItems, sample : BOOLEAN],
    Capacity <- WorkerCapacity + MaxBatch + UiCapacity * MaxBatch,
    queue <- FlattenSeq(uq) \o batch \o hand \o wq,
    delivered <- taken,
    open <- uiOpen

(* Seen from its two ends, the pipeline does only what EventFifo does: it   *)
(* accepts at the end of the queue, delivers its head, or is closed.        *)
FifoImplemented == Fifo!Spec

(* Whatever the pipeline accepted reaches the UI, without the idle repaint  *)
(* and even when the worker has ended since, unless the UI itself goes.     *)
EverythingArrives ==
    \A n \in 1 .. MaxItems : accepted >= n ~> taken >= n \/ ~uiOpen

(* A sender waiting for room gets it, or learns that the UI is gone.        *)
SendersReleased == \A s \in Senders : s \in blocked ~> s \notin blocked

(* When the UI goes, the threads behind it end, wherever they were waiting. *)
ShutdownEnds == ~uiOpen ~> bpc = "ended" /\ ~workerOpen /\ blocked = {}
=============================================================================
