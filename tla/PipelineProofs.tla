--------------------------- MODULE PipelineProofs ---------------------------
(***************************************************************************)
(* Theorems about Pipeline, for any senders, capacities, batch size and    *)
(* bounds: its types and limits hold, the buffer thread sleeps             *)
(* empty-handed, no wake-up is lost, nothing is lost or reordered, and     *)
(* all of it is one bounded FIFO.                                          *)
(***************************************************************************)
EXTENDS Pipeline, SumLemmas, SequenceTheorems, TLAPS

(* Taking the head of a queue leaves the rest, one place further on.        *)
LEMMA TailFacts ==
    ASSUME NEW S, NEW q \in Seq(S), q # <<>>
    PROVE  /\ Len(q) \in Nat \ {0}
           /\ Head(q) = q[1] /\ Head(q) \in S
           /\ Tail(q) \in Seq(S)
           /\ Len(Tail(q)) = Len(q) - 1
           /\ \A i \in 1 .. Len(q) - 1 : Tail(q)[i] = q[i + 1]
    OBVIOUS

(* Appending to a queue leaves what it holds in its place.                  *)
LEMMA AppendFacts ==
    ASSUME NEW S, NEW q \in Seq(S), NEW e \in S
    PROVE  /\ Append(q, e) \in Seq(S)
           /\ Append(q, e) # <<>>
           /\ Len(Append(q, e)) = Len(q) + 1
           /\ \A i \in 1 .. Len(q) : Append(q, e)[i] = q[i]
           /\ Append(q, e)[Len(q) + 1] = e
    OBVIOUS

(* A message of one item.                                                   *)
LEMMA OneFacts ==
    ASSUME NEW S, NEW e \in S
    PROVE  <<e>> \in Seq(S) /\ Len(<<e>>) = 1 /\ <<e>>[1] = e /\ <<e>> # <<>>
    OBVIOUS

-----------------------------------------------------------------------------
(* The flags stay Boolean, whichever step is taken.                         *)
LEMMA NextFlags == FlagsTypeOK /\ [Next]_vars => FlagsTypeOK'
  <1> SUFFICES ASSUME FlagsTypeOK, [Next]_vars PROVE FlagsTypeOK'
    OBVIOUS
  <1> USE DEF FlagsTypeOK
  <1>1. CASE UNCHANGED vars
    BY <1>1, Zenon DEF vars, senderVars, bufferVars, uiVars
  <1>2. ASSUME NEW s \in Senders,
               SendSample(s) \/ SendEvent(s) \/ Unblocks(s) \/ SendFails(s)
        PROVE  FlagsTypeOK'
    BY <1>2, Zenon DEF SendSample, SendEvent, Unblocks, SendFails, bufferVars, uiVars
  <1>3. CASE WorkerEnds
    BY <1>3, Zenon DEF WorkerEnds, bufferVars, uiVars
  <1>4. CASE Receive \/ Closed \/ WindowOver \/ Push \/ UiGone
    BY <1>4, Zenon DEF Receive, Closed, WindowOver, Push, UiGone, senderVars, uiVars
  <1>5. CASE Flush \/ ForwardOther \/ Notify
    BY <1>5, Zenon DEF Flush, ForwardOther, Forward, Notify, senderVars
  <1>6. CASE Frame \/ DrainEnds \/ CloseUi
    BY <1>6, Zenon DEF Frame, DrainEnds, CloseUi, senderVars, bufferVars
  <1>7. CASE TakeMessage
    BY <1>7, Zenon DEF TakeMessage, WakeAfter, senderVars, bufferVars
  <1> QED
    BY <1>1, <1>2, <1>3, <1>4, <1>5, <1>6, <1>7 DEF Next, BufferStep

(* The pipeline starts well typed.                                          *)
LEMMA InitTypes == Init => TypeOK
  <1> SUFFICES ASSUME Init PROVE TypeOK
    OBVIOUS
  <1>1. FlagsTypeOK
    BY DEF Init, FlagsTypeOK
  <1>2. /\ <<>> \in Seq(Item) /\ <<>> \in Seq(Seq(Item))
        /\ Len(<<>>) = 0
    OBVIOUS
  <1>3. /\ WorkerCapacity \in Nat \ {0} /\ UiCapacity \in Nat \ {0}
        /\ MaxBatch \in Nat \ {0}
    BY PipelineAssumption
  <1>4. /\ wq = <<>> /\ blocked = {} /\ accepted = 0 /\ drops = 0 /\ hand = <<>>
        /\ batch = <<>> /\ bpc = "recv" /\ uq = <<>> /\ taken = 0
    BY DEF Init
  <1>5. QueuesTypeOK
    BY <1>2, <1>3, <1>4 DEF QueuesTypeOK, Places
  <1> QED  BY <1>1, <1>5 DEF TypeOK

(* An accepted item is an item, and finds room.                             *)
LEMMA AcceptTypes ==
    ASSUME QueuesTypeOK, NEW sample \in BOOLEAN, Accept(sample)
    PROVE  wq' \in Seq(Item) /\ Len(wq') <= WorkerCapacity /\ accepted' \in Nat
  <1> DEFINE item == [n |-> accepted + 1, sample |-> sample]
  <1>1. item \in Item
    BY DEF QueuesTypeOK, Item
  <1>2. wq \in Seq(Item) /\ Len(wq) \in Nat /\ Len(wq) < WorkerCapacity
    BY PipelineAssumption DEF QueuesTypeOK, Accept, Full
  <1>3. wq' = Append(wq, item)
    BY DEF Accept
  <1> HIDE DEF item
  <1>4. wq' \in Seq(Item) /\ Len(wq') = Len(wq) + 1
    BY <1>1, <1>2, <1>3, AppendFacts
  <1> QED  BY <1>2, <1>4, PipelineAssumption DEF QueuesTypeOK, Accept

(* What the senders change keeps its type.                                  *)
LEMMA SenderTypes ==
    ASSUME QueuesTypeOK, NEW s \in Senders,
           SendSample(s) \/ SendEvent(s) \/ Unblocks(s) \/ SendFails(s)
    PROVE  QueuesTypeOK'
  <1>1. wq' \in Seq(Item) /\ Len(wq') <= WorkerCapacity /\ accepted' \in Nat
    <2>1. CASE \E sample \in BOOLEAN : Accept(sample)
      BY <2>1, AcceptTypes
    <2>2. CASE wq' = wq /\ accepted' = accepted
      BY <2>2 DEF QueuesTypeOK
    <2> QED
      BY <2>1, <2>2 DEF SendSample, SendEvent, Unblocks, SendFails
  <1>2. blocked' \subseteq Senders
    BY DEF QueuesTypeOK, SendSample, SendEvent, Unblocks, SendFails
  <1>3. drops' \in Nat
    <2>1. drops' \in {drops, drops + 1}
      BY DEF SendSample, SendEvent, Unblocks, SendFails
    <2> QED  BY <2>1 DEF QueuesTypeOK
  <1>4. UNCHANGED <<hand, batch, bpc, uq, taken>>
    BY DEF SendSample, SendEvent, Unblocks, SendFails, bufferVars, uiVars
  <1> QED  BY <1>1, <1>2, <1>3, <1>4 DEF QueuesTypeOK

(* While it matches, the buffer thread has one event in hand, and at no     *)
(* other time.                                                              *)
LEMMA HandIs ==
    ASSUME QueuesTypeOK
    PROVE  /\ bpc = "match" => hand[1] \in Item /\ hand = <<hand[1]>>
           /\ bpc # "match" => hand = <<>>
  <1>1. hand \in Seq(Item)
    BY DEF QueuesTypeOK
  <1>2. CASE bpc = "match"
    <2>1. Len(hand) = 1
      BY <1>2 DEF QueuesTypeOK
    <2> QED  BY <1>1, <1>2, <2>1
  <1>3. CASE bpc # "match"
    <2>1. Len(hand) = 0
      BY <1>3 DEF QueuesTypeOK
    <2> QED  BY <1>1, <1>3, <2>1
  <1> QED  BY <1>2, <1>3

(* A forwarded message finds room in the UI's channel.                      *)
LEMMA ForwardTypes ==
    ASSUME QueuesTypeOK, NEW message \in Seq(Item), Forward(message)
    PROVE  uq' \in Seq(Seq(Item)) /\ Len(uq') <= UiCapacity
  <1> DEFINE M == Seq(Item)
  <1>1. uq \in Seq(M) /\ message \in M /\ Len(uq) \in Nat /\ Len(uq) < UiCapacity
    BY DEF QueuesTypeOK, Forward
  <1>2. uq' = Append(uq, message)
    BY DEF Forward
  <1> HIDE DEF M
  <1>3. uq' \in Seq(M) /\ Len(uq') = Len(uq) + 1
    BY <1>1, <1>2, AppendFacts
  <1> QED  BY <1>1, <1>3, PipelineAssumption DEF M

(* What the buffer thread changes keeps its type.                           *)
LEMMA BufferTypes ==
    ASSUME QueuesTypeOK, BufferStep
    PROVE  QueuesTypeOK'
  <1> USE DEF QueuesTypeOK, Places
  <1>0. <<>> \in Seq(Item) /\ Len(<<>>) = 0
    OBVIOUS
  <1>1. CASE Receive
    <2>1. wq \in Seq(Item) /\ wq # <<>> /\ Len(wq) <= WorkerCapacity
      BY <1>1 DEF Receive
    <2>2. /\ Head(wq) \in Item /\ Tail(wq) \in Seq(Item)
          /\ Len(wq) \in Nat /\ Len(Tail(wq)) = Len(wq) - 1
      BY <2>1, TailFacts
    <2>3. hand' \in Seq(Item) /\ Len(hand') = 1
      BY <1>1, <2>2, OneFacts DEF Receive
    <2>4. wq' \in Seq(Item) /\ Len(wq') <= WorkerCapacity
      BY <1>1, <2>1, <2>2, PipelineAssumption DEF Receive
    <2>5. bpc' = "match" /\ UNCHANGED <<blocked, accepted, drops, batch, uq, taken>>
      BY <1>1 DEF Receive, senderVars, uiVars
    <2>6. Len(batch) <= MaxBatch - 1
      BY <1>1 DEF Receive, At
    <2> QED  BY <2>3, <2>4, <2>5, <2>6
  <1>2. CASE Closed \/ WindowOver
    <2>1. UNCHANGED <<wq, blocked, accepted, drops, hand, batch, uq, taken>>
      BY <1>2 DEF Closed, WindowOver, senderVars, uiVars
    <2>2. bpc # "match" /\ bpc' # "match" /\ bpc' \in Places
      BY <1>2 DEF Closed, WindowOver, At, NoticesClosed, OnClosed
    <2>3. MaxBatch \in Nat /\ Len(batch) \in Nat
      BY PipelineAssumption
    <2>4. Len(batch) <= MaxBatch - 1
      BY <1>2 DEF Closed, WindowOver, At, NoticesClosed
    <2> QED  BY <2>1, <2>2, <2>3, <2>4
  <1>3. CASE Push
    <2>1. bpc = "match" /\ hand[1] \in Item
      BY <1>3, HandIs DEF Push, At
    <2>2. batch' \in Seq(Item) /\ Len(batch') = Len(batch) + 1
      BY <1>3, <2>1, AppendFacts DEF Push
    <2>3. hand' = <<>> /\ UNCHANGED <<wq, blocked, accepted, drops, uq, taken>>
      BY <1>3 DEF Push, senderVars, uiVars
    <2>4. bpc' = AfterPush(batch')
      BY <1>3 DEF Push
    <2>5. MaxBatch \in Nat /\ Len(batch) \in Nat /\ Len(batch) < MaxBatch
      BY <2>1, PipelineAssumption
    <2> QED  BY <1>0, <2>2, <2>3, <2>4, <2>5 DEF AfterPush, BatchFull
  <1>4. CASE Flush
    <2>1. uq' \in Seq(Seq(Item)) /\ Len(uq') <= UiCapacity
      BY <1>4, ForwardTypes DEF Flush
    <2>2. batch' = <<>> /\ UNCHANGED <<wq, blocked, accepted, drops, hand, taken>>
      BY <1>4 DEF Flush, BatchTaken, Forward, senderVars
    <2>3. bpc' \in Places /\ (bpc' = "match" <=> bpc = "match")
      BY <1>4 DEF Flush, Flushes, HoldsOther
    <2> QED  BY <1>0, <2>1, <2>2, <2>3, PipelineAssumption
  <1>5. CASE ForwardOther
    <2>1. uq' \in Seq(Seq(Item)) /\ Len(uq') <= UiCapacity
      BY <1>5, ForwardTypes DEF ForwardOther
    <2>2. /\ hand' = <<>> /\ bpc' = "collect"
          /\ UNCHANGED <<wq, blocked, accepted, drops, batch, taken>>
      BY <1>5 DEF ForwardOther, Forward, senderVars
    <2>3. Len(batch) <= MaxBatch - 1
      BY <1>5 DEF ForwardOther, ForwardsOther, HoldsOther
    <2> QED  BY <1>0, <2>1, <2>2, <2>3
  <1>6. CASE Notify
    <2>1. UNCHANGED <<wq, blocked, accepted, drops, hand, batch, bpc, uq, taken>>
      BY <1>6 DEF Notify, senderVars
    <2> QED  BY <2>1
  <1>7. CASE UiGone
    <2>1. /\ wq' = <<>> /\ hand' = <<>> /\ batch' = <<>> /\ bpc' = "ended"
          /\ UNCHANGED <<blocked, accepted, drops, uq, taken>>
      BY <1>7 DEF UiGone, senderVars, uiVars
    <2> QED  BY <1>0, <2>1, PipelineAssumption
  <1> QED
    BY <1>1, <1>2, <1>3, <1>4, <1>5, <1>6, <1>7 DEF BufferStep

(* What the UI and the worker's end change keeps its type.                  *)
LEMMA UiTypes ==
    ASSUME QueuesTypeOK,
           WorkerEnds \/ Frame \/ TakeMessage \/ DrainEnds \/ CloseUi
    PROVE  QueuesTypeOK'
  <1>1. UNCHANGED <<wq, blocked, accepted, drops, hand, batch, bpc>>
    BY DEF WorkerEnds, Frame, TakeMessage, DrainEnds, CloseUi, senderVars, bufferVars
  <1>2. uq' \in Seq(Seq(Item)) /\ Len(uq') <= UiCapacity /\ taken' \in Nat
    <2>1. CASE WorkerEnds \/ Frame \/ DrainEnds
      <3>1. UNCHANGED <<uq, taken>>
        BY <2>1 DEF WorkerEnds, Frame, DrainEnds, uiVars
      <3> QED  BY <3>1 DEF QueuesTypeOK
    <2>2. CASE TakeMessage
      <3> DEFINE M == Seq(Item)
      <3>1. uq \in Seq(M) /\ uq # <<>> /\ Len(uq) <= UiCapacity /\ taken \in Nat
        BY <2>2 DEF TakeMessage, QueuesTypeOK
      <3>2. uq' = Tail(uq) /\ taken' = taken + Len(Head(uq))
        BY <2>2 DEF TakeMessage
      <3> HIDE DEF M
      <3>3. /\ Head(uq) \in M /\ Tail(uq) \in Seq(M)
            /\ Len(uq) \in Nat /\ Len(Tail(uq)) = Len(uq) - 1
        BY <3>1, TailFacts
      <3>4. Len(Head(uq)) \in Nat
        BY <3>3 DEF M
      <3> QED  BY <3>1, <3>2, <3>3, <3>4, PipelineAssumption DEF M
    <2>3. CASE CloseUi
      <3>1. <<>> \in Seq(Seq(Item)) /\ Len(<<>>) = 0
        OBVIOUS
      <3>2. uq' = <<>> /\ taken' = taken
        BY <2>3 DEF CloseUi
      <3> QED  BY <3>1, <3>2, PipelineAssumption DEF QueuesTypeOK
    <2> QED  BY <2>1, <2>2, <2>3
  <1> QED  BY <1>1, <1>2 DEF QueuesTypeOK

(* TypeOK is inductive.                                                     *)
LEMMA NextTypes == TypeOK /\ [Next]_vars => TypeOK'
  <1> SUFFICES ASSUME QueuesTypeOK, [Next]_vars PROVE QueuesTypeOK'
    BY NextFlags DEF TypeOK
  <1>1. CASE UNCHANGED vars
    BY <1>1 DEF vars, senderVars, bufferVars, uiVars, QueuesTypeOK
  <1>2. CASE Next
    BY <1>2, SenderTypes, BufferTypes, UiTypes DEF Next
  <1> QED  BY <1>1, <1>2

(* Every variable keeps its type, and the two channels and the batch keep   *)
(* within their limits.                                                     *)
THEOREM PipelineTypes == Spec => []TypeOK
  BY InitTypes, NextTypes, PTL DEF Spec

-----------------------------------------------------------------------------
(* The buffer thread (pipeline.rs) holds nothing while it waits without a   *)
(* deadline, and nothing when it has returned.                              *)
THEOREM SleepsHolds == Spec => []SleepsEmptyHanded
  <1> DEFINE Inv == SleepsEmptyHanded
  <1>1. Init => Inv
    BY DEF Init, SleepsEmptyHanded
  <1>2. TypeOK /\ Inv /\ [Next]_vars => Inv'
    <2> SUFFICES ASSUME TypeOK, Inv, [Next]_vars PROVE Inv'
      OBVIOUS
    <2>1. CASE UNCHANGED bufferVars
      BY <2>1 DEF bufferVars, SleepsEmptyHanded
    <2>2. CASE BufferStep
      <3>1. bpc # "match" => hand = <<>>
        BY HandIs DEF TypeOK
      <3>2. CASE Receive \/ Notify
        BY <3>2 DEF Receive, Notify, SleepsEmptyHanded
      <3>3. CASE Closed \/ WindowOver
        BY <3>1, <3>3 DEF Closed, WindowOver, At, NoticesClosed, OnClosed, SleepsEmptyHanded
      <3>4. CASE Push
        BY <3>4 DEF Push, AfterPush, SleepsEmptyHanded
      <3>5. CASE Flush
        BY <3>1, <3>5 DEF Flush, Flushes, HoldsOther, BatchTaken, SleepsEmptyHanded
      <3>6. CASE ForwardOther \/ UiGone
        BY <3>6 DEF ForwardOther, UiGone, SleepsEmptyHanded
      <3> QED  BY <2>2, <3>2, <3>3, <3>4, <3>5, <3>6 DEF BufferStep
    <2> QED
      BY <2>1, <2>2 DEF Next, vars, SendSample, SendEvent, Unblocks, SendFails,
                        WorkerEnds, Frame, TakeMessage, DrainEnds, CloseUi
  <1> QED  BY <1>1, <1>2, PipelineTypes, PTL DEF Spec

(* A message in the UI's channel never waits for the idle repaint: the      *)
(* buffer thread's notify and events_pending between them leave no gap.     *)
THEOREM WakeUpsHold == Spec => []NoLostWakeUp
  <1>1. Init => NoLostWakeUp
    BY DEF Init, NoLostWakeUp
  <1>2. TypeOK /\ NoLostWakeUp /\ [Next]_vars => NoLostWakeUp'
    <2> SUFFICES ASSUME TypeOK, NoLostWakeUp, [Next]_vars PROVE NoLostWakeUp'
      OBVIOUS
    <2>1. CASE UNCHANGED <<uq, wake, draining, owes>>
      BY <2>1 DEF NoLostWakeUp
    <2>2. CASE Flush \/ ForwardOther \/ Notify
      BY <2>2 DEF Flush, ForwardOther, Forward, Notify, NoLostWakeUp
    <2>3. CASE Frame \/ TakeMessage \/ DrainEnds \/ CloseUi
      BY <2>3 DEF Frame, TakeMessage, WakeAfter, DrainEnds, CloseUi, NoLostWakeUp, TypeOK
    <2> QED
      BY <2>1, <2>2, <2>3 DEF Next, vars, SendSample, SendEvent, Unblocks, SendFails,
            WorkerEnds, BufferStep, Receive, Closed, WindowOver, Push, UiGone,
            uiVars, bufferVars
  <1> QED  BY <1>1, <1>2, PipelineTypes, PTL DEF Spec

-----------------------------------------------------------------------------
(* InOrder is inductive, given the types.  Its parts for the UI's channel,  *)
(* and for what has not reached it.                                         *)
Before(i) == IF i = 1 THEN taken ELSE LastOf(uq[i - 1])

UiInOrder == \A i \in DOMAIN uq : uq[i] # <<>> /\ Follows(uq[i], Before(i))

RestInOrder ==
    /\ Follows(batch, Forwarded)
    /\ Follows(hand, Forwarded + Len(batch))
    /\ Follows(wq, Forwarded + Len(batch) + Len(hand))
    /\ accepted = Forwarded + Len(batch) + Len(hand) + Len(wq)

(* InOrder in those parts.                                                  *)
LEMMA InOrderSplits == InOrder <=> (uiOpen => UiInOrder /\ RestInOrder)
  BY DEF InOrder, UiInOrder, Before, RestInOrder

(* A sequence goes on with the next number.                                 *)
LEMMA AppendFollows ==
    ASSUME NEW s \in Seq(Item), NEW m \in Nat, Follows(s, m),
           NEW e \in Item, e.n = m + Len(s) + 1
    PROVE  Follows(Append(s, e), m)
  <1>1. /\ Append(s, e) \in Seq(Item) /\ Len(Append(s, e)) = Len(s) + 1
        /\ \A i \in 1 .. Len(s) : Append(s, e)[i] = s[i]
        /\ Append(s, e)[Len(s) + 1] = e
    BY AppendFacts
  <1>2. Len(s) \in Nat /\ DOMAIN s = 1 .. Len(s)
    OBVIOUS
  <1> DEFINE t == Append(s, e)
  <1> HIDE DEF t
  <1>3. ASSUME NEW i \in 1 .. Len(s) + 1 PROVE t[i].n = m + i
    <2>1. CASE i \in 1 .. Len(s)
      <3>1. s[i].n = m + i
        BY <1>2, <2>1 DEF Follows
      <3> QED  BY <1>1, <2>1, <3>1 DEF t
    <2>2. CASE i = Len(s) + 1
      BY <1>1, <1>2, <2>2 DEF t
    <2> QED  BY <1>2, <2>1, <2>2
  <1>4. DOMAIN t = 1 .. Len(s) + 1
    BY <1>1, <1>2 DEF t
  <1> QED  BY <1>3, <1>4 DEF Follows, t

(* What has been forwarded is a number.                                     *)
LEMMA ForwardedIsNat ==
    ASSUME QueuesTypeOK, UiInOrder
    PROVE  Forwarded \in Nat
  <1>1. CASE uq = <<>>
    BY <1>1 DEF Forwarded, QueuesTypeOK
  <1>2. CASE uq # <<>>
    <2> DEFINE m == uq[Len(uq)]
    <2>1. Len(uq) \in DOMAIN uq /\ m \in Seq(Item)
      BY <1>2 DEF QueuesTypeOK
    <2>2. m # <<>>
      BY <2>1 DEF UiInOrder
    <2>3. m[Len(m)] \in Item
      BY <2>1, <2>2
    <2>4. m[Len(m)].n \in Nat
      BY <2>3 DEF Item
    <2> QED  BY <1>2, <2>4 DEF Forwarded, LastOf
  <1> QED  BY <1>1, <1>2

(* Forwarding a message that goes on where the channel ends.                *)
LEMMA ForwardInOrder ==
    ASSUME QueuesTypeOK, UiInOrder, NEW message \in Seq(Item), message # <<>>,
           Follows(message, Forwarded), Forward(message)
    PROVE  UiInOrder' /\ Forwarded' = Forwarded + Len(message)
  <1> DEFINE M == Seq(Item)
  <1>1. uq \in Seq(M) /\ message \in M
    BY DEF QueuesTypeOK
  <1>2. uq' = Append(uq, message) /\ taken' = taken
    BY DEF Forward
  <1> HIDE DEF M
  <1>3. /\ uq' \in Seq(M) /\ uq' # <<>>
        /\ Len(uq') = Len(uq) + 1 /\ Len(uq) \in Nat
        /\ \A i \in 1 .. Len(uq) : uq'[i] = uq[i]
        /\ uq'[Len(uq) + 1] = message
    BY <1>1, <1>2, AppendFacts
  <1>4. DOMAIN uq = 1 .. Len(uq) /\ DOMAIN uq' = 1 .. Len(uq) + 1
    BY <1>1, <1>3
  <1>5. Len(message) \in Nat \ {0} /\ DOMAIN message = 1 .. Len(message)
    BY <1>1 DEF M
  <1>6. Forwarded' = Forwarded + Len(message)
    <2>1. Forwarded' = message[Len(message)].n
      BY <1>3 DEF Forwarded, LastOf
    <2> QED  BY <2>1, <1>5 DEF Follows
  <1>7. ASSUME NEW i \in DOMAIN uq' PROVE uq'[i] # <<>> /\ Follows(uq'[i], Before(i)')
    <2>1. CASE i \in 1 .. Len(uq)
      <3>1. uq'[i] = uq[i] /\ Before(i)' = Before(i)
        BY <1>2, <1>3, <2>1 DEF Before, LastOf
      <3> QED  BY <1>4, <2>1, <3>1 DEF UiInOrder
    <2>2. CASE i = Len(uq) + 1
      <3>1. Before(i)' = Forwarded
        <4>1. CASE uq = <<>>
          BY <1>2, <2>2, <4>1 DEF Before, Forwarded
        <4>2. CASE uq # <<>>
          <5>1. Len(uq) \in 1 .. Len(uq)
            BY <1>1, <1>3, <4>2
          <5>2. i # 1 /\ i - 1 = Len(uq)
            BY <1>3, <2>2, <5>1
          <5> QED  BY <1>3, <4>2, <5>1, <5>2 DEF Before, Forwarded, LastOf
        <4> QED  BY <4>1, <4>2
      <3> QED  BY <1>3, <2>2, <3>1
    <2> QED  BY <1>3, <1>4, <2>1, <2>2
  <1> QED  BY <1>6, <1>7 DEF UiInOrder

(* The buffer thread keeps the order.                                       *)
LEMMA BufferInOrder ==
    ASSUME QueuesTypeOK, UiInOrder, RestInOrder, BufferStep, ~UiGone
    PROVE  UiInOrder' /\ RestInOrder'
  <1> DEFINE F == Forwarded
  <1>0. F \in Nat /\ Len(batch) \in Nat /\ batch \in Seq(Item)
    BY ForwardedIsNat DEF QueuesTypeOK
  <1>1. ASSUME UNCHANGED <<uq, taken>>
        PROVE  UiInOrder' = UiInOrder /\ Forwarded' = Forwarded
    BY <1>1 DEF UiInOrder, Before, Forwarded, LastOf
  <1>2. CASE Closed \/ WindowOver \/ Notify
    <2>1. UNCHANGED <<wq, accepted, hand, batch, uq, taken>>
      BY <1>2 DEF Closed, WindowOver, Notify, senderVars, uiVars
    <2> QED  BY <1>1, <2>1 DEF RestInOrder
  <1>3. CASE Receive
    <2>1. UNCHANGED <<uq, taken, accepted, batch>>
      BY <1>3 DEF Receive, senderVars, uiVars
    <2>2. hand = <<>> /\ wq # <<>> /\ wq \in Seq(Item)
      BY <1>3, HandIs DEF Receive, At, QueuesTypeOK
    <2>3. hand' = <<wq[1]>> /\ wq' = Tail(wq)
      BY <1>3, <2>2, TailFacts DEF Receive
    <2>4. /\ Len(wq) \in Nat \ {0} /\ Len(wq') = Len(wq) - 1 /\ wq' \in Seq(Item)
          /\ \A i \in 1 .. Len(wq) - 1 : wq'[i] = wq[i + 1]
      BY <2>2, <2>3, TailFacts
    <2>5. \A i \in 1 .. Len(wq) : wq[i].n = F + Len(batch) + i
      BY <2>2, <1>0 DEF RestInOrder, Follows
    <2>6. Follows(hand', F + Len(batch))
      BY <2>3, <2>4, <2>5 DEF Follows
    <2>7. Follows(wq', F + Len(batch) + 1)
      BY <2>4, <2>5, <1>0 DEF Follows
    <2>8. accepted = F + Len(batch) + Len(wq)
      BY <2>2, <2>4, <1>0 DEF RestInOrder
    <2>9. Len(hand') = 1
      BY <2>3
    <2>10. Forwarded' = F /\ batch' = batch /\ accepted' = accepted
      BY <1>1, <2>1
    <2> HIDE DEF F
    <2>11. accepted = F + Len(batch) + 1 + (Len(wq) - 1)
      BY <1>0, <2>4, <2>8
    <2>12. Follows(batch, F)
      BY DEF RestInOrder, F
    <2> QED  BY <1>1, <2>1, <2>4, <2>6, <2>7, <2>9, <2>10, <2>11, <2>12 DEF RestInOrder
  <1>4. CASE Push
    <2>1. UNCHANGED <<uq, taken, accepted, wq>>
      BY <1>4 DEF Push, senderVars, uiVars
    <2>2. hand = <<hand[1]>> /\ hand[1] \in Item
      BY <1>4, HandIs DEF Push, At
    <2>3. batch' = Append(batch, hand[1]) /\ hand' = <<>>
      BY <1>4 DEF Push
    <2>4. /\ Len(batch') = Len(batch) + 1 /\ batch' \in Seq(Item)
          /\ \A i \in 1 .. Len(batch) : batch'[i] = batch[i]
          /\ batch'[Len(batch) + 1] = hand[1]
      BY <1>0, <2>2, <2>3, AppendFacts
    <2>5. Len(hand) = 1 /\ hand[1].n = F + Len(batch) + 1
      BY <1>0, <2>2 DEF RestInOrder, Follows
    <2>6. Follows(batch', F)
      <3>1. Follows(batch, F)
        BY DEF RestInOrder
      <3> HIDE DEF F
      <3> QED  BY <1>0, <2>2, <2>3, <2>5, <3>1, AppendFollows
    <2>7. Follows(hand', F + Len(batch'))
      BY <2>3 DEF Follows
    <2>8. F + Len(batch') + Len(hand') = F + Len(batch) + Len(hand)
      BY <1>0, <2>3, <2>4, <2>5
    <2>9. Forwarded' = F /\ wq' = wq /\ accepted' = accepted
      BY <1>1, <2>1
    <2> QED  BY <1>1, <2>1, <2>6, <2>7, <2>8, <2>9 DEF RestInOrder
  <1>5. CASE Flush
    <2>1. batch # <<>> /\ Forward(batch) /\ batch' = <<>> /\ UNCHANGED <<hand, wq, accepted>>
      BY <1>5 DEF Flush, Flushes, BatchTaken, Forward, senderVars
    <2>2. UiInOrder' /\ Forwarded' = F + Len(batch)
      BY <1>0, <2>1, ForwardInOrder DEF RestInOrder
    <2>3. Len(batch') = 0 /\ Forwarded' + Len(batch') = F + Len(batch)
      BY <1>0, <2>1, <2>2
    <2>4. Follows(batch', Forwarded')
      BY <2>1 DEF Follows
    <2> QED  BY <2>1, <2>2, <2>3, <2>4 DEF RestInOrder
  <1>6. CASE ForwardOther
    <2>1. batch = <<>> /\ Forward(hand) /\ hand' = <<>> /\ UNCHANGED <<batch, wq, accepted>>
      BY <1>6 DEF ForwardOther, ForwardsOther, Forward, senderVars
    <2>2. hand \in Seq(Item) /\ hand # <<>> /\ Len(batch) = 0 /\ Len(hand) \in Nat
      <3>1. bpc = "match"
        BY <1>6 DEF ForwardOther, ForwardsOther, HoldsOther
      <3>2. hand \in Seq(Item) /\ Len(hand) = 1
        BY <3>1 DEF QueuesTypeOK
      <3>3. hand # <<>>
        BY <3>2
      <3> QED  BY <2>1, <3>2, <3>3
    <2>3. Follows(hand, F)
      BY <1>0, <2>2 DEF RestInOrder
    <2>4. UiInOrder' /\ Forwarded' = F + Len(hand)
      BY <2>1, <2>2, <2>3, ForwardInOrder
    <2>5. Len(batch') = 0 /\ Len(hand') = 0
      BY <2>1, <2>2
    <2>6. /\ Forwarded' + Len(batch') = F + Len(hand)
          /\ Forwarded' + Len(batch') + Len(hand') = F + Len(batch) + Len(hand)
      BY <1>0, <2>2, <2>4, <2>5
    <2>7. Follows(batch', Forwarded') /\ Follows(hand', Forwarded' + Len(batch'))
      BY <2>1 DEF Follows
    <2> QED  BY <2>1, <2>4, <2>6, <2>7 DEF RestInOrder
  <1> QED
    BY <1>2, <1>3, <1>4, <1>5, <1>6 DEF BufferStep

(* An accepted item goes behind all others.                                 *)
LEMMA AcceptInOrder ==
    ASSUME QueuesTypeOK, UiInOrder, RestInOrder, NEW sample \in BOOLEAN,
           Accept(sample), UNCHANGED <<uq, taken, batch, hand>>
    PROVE  UiInOrder' /\ RestInOrder'
  <1> DEFINE G == Forwarded + Len(batch) + Len(hand)
             item == [n |-> accepted + 1, sample |-> sample]
  <1>1. UiInOrder' /\ Forwarded' = Forwarded /\ G' = G
    BY DEF UiInOrder, Before, Forwarded, LastOf
  <1>2. G \in Nat /\ Len(wq) \in Nat /\ wq \in Seq(Item)
    BY ForwardedIsNat DEF QueuesTypeOK
  <1>3. item \in Item /\ item.n = accepted + 1
    BY DEF QueuesTypeOK, Item
  <1>4. wq' = Append(wq, item) /\ accepted' = accepted + 1
    BY DEF Accept
  <1>5. accepted = G + Len(wq)
    BY DEF RestInOrder
  <1>6. Follows(wq, G)
    BY DEF RestInOrder
  <1> HIDE DEF G, item
  <1>7. Len(wq') = Len(wq) + 1
    BY <1>2, <1>3, <1>4, AppendFacts
  <1>8. Follows(wq', G)
    BY <1>2, <1>3, <1>4, <1>5, <1>6, AppendFollows
  <1>9. accepted' = G + Len(wq')
    BY <1>2, <1>4, <1>5, <1>7
  <1>10. Follows(batch, Forwarded) /\ Follows(hand, Forwarded + Len(batch))
    BY DEF RestInOrder
  <1> QED  BY <1>1, <1>8, <1>9, <1>10 DEF RestInOrder, G

(* A message the UI takes is the next one.                                  *)
LEMMA TakeInOrder ==
    ASSUME QueuesTypeOK, UiInOrder, RestInOrder, TakeMessage
    PROVE  UiInOrder' /\ RestInOrder'
  <1> DEFINE M == Seq(Item)
  <1>1. uq \in Seq(M) /\ uq # <<>>
    BY DEF TakeMessage, QueuesTypeOK
  <1>2. uq' = Tail(uq) /\ taken' = taken + Len(Head(uq))
    BY DEF TakeMessage
  <1> HIDE DEF M
  <1>3. /\ Len(uq) \in Nat \ {0} /\ Head(uq) = uq[1] /\ uq[1] \in M
        /\ uq' \in Seq(M) /\ Len(uq') = Len(uq) - 1
        /\ \A i \in 1 .. Len(uq) - 1 : uq'[i] = uq[i + 1]
    BY <1>1, <1>2, TailFacts
  <1>4. DOMAIN uq = 1 .. Len(uq) /\ DOMAIN uq' = 1 .. Len(uq) - 1
    BY <1>1, <1>3
  <1>5. taken' = LastOf(uq[1])
    <2>1. uq[1] # <<>> /\ Follows(uq[1], taken)
      BY <1>3, <1>4 DEF UiInOrder, Before
    <2>2. Len(uq[1]) \in DOMAIN uq[1]
      BY <1>3, <2>1 DEF M
    <2> QED  BY <1>2, <1>3, <2>1, <2>2 DEF Follows, LastOf
  <1>6. ASSUME NEW i \in DOMAIN uq' PROVE uq'[i] # <<>> /\ Follows(uq'[i], Before(i)')
    <2>1. i + 1 \in DOMAIN uq /\ i \in 1 .. Len(uq) - 1 /\ i + 1 # 1 /\ (i + 1) - 1 = i
      BY <1>3, <1>4
    <2>2. uq'[i] = uq[i + 1]
      BY <1>3, <2>1
    <2>3. Before(i)' = LastOf(uq[i])
      <3>1. CASE i = 1
        BY <1>5, <3>1 DEF Before
      <3>2. CASE i # 1
        <4>1. i - 1 \in 1 .. Len(uq) - 1 /\ (i - 1) + 1 = i
          BY <1>3, <2>1, <3>2
        <4>2. uq'[i - 1] = uq[i]
          BY <1>3, <4>1
        <4> QED  BY <3>2, <4>2 DEF Before, LastOf
      <3> QED  BY <3>1, <3>2
    <2>4. Before(i + 1) = LastOf(uq[i])
      BY <2>1 DEF Before
    <2> QED  BY <2>1, <2>2, <2>3, <2>4 DEF UiInOrder
  <1>7. UiInOrder'
    BY <1>6 DEF UiInOrder
  <1>8. Forwarded' = Forwarded
    <2>1. CASE Len(uq) = 1
      <3>1. uq' = <<>>
        BY <1>3, <2>1
      <3> QED  BY <1>1, <1>5, <2>1, <3>1 DEF Forwarded
    <2>2. CASE Len(uq) # 1
      <3>1. uq' # <<>> /\ Len(uq') \in 1 .. Len(uq) - 1 /\ Len(uq') + 1 = Len(uq)
        BY <1>3, <2>2
      <3>2. uq'[Len(uq')] = uq[Len(uq)]
        BY <1>3, <3>1
      <3> QED  BY <1>1, <3>1, <3>2 DEF Forwarded, LastOf
    <2> QED  BY <2>1, <2>2
  <1>9. UNCHANGED <<wq, accepted, hand, batch>>
    BY DEF TakeMessage, senderVars, bufferVars
  <1> QED  BY <1>7, <1>8, <1>9 DEF RestInOrder

(* From the worker's channel to the UI's hand, events keep the order in     *)
(* which the pipeline accepted them, and none is lost or doubled, while the *)
(* UI is there: pipeline.rs with any mix of samples, batches and events.    *)
THEOREM OrderKept == Spec => []InOrder
  <1>1. Init => InOrder
    BY DEF Init, InOrder, Follows, Forwarded
  <1>2. TypeOK /\ InOrder /\ [Next]_vars => InOrder'
    <2> SUFFICES ASSUME QueuesTypeOK, InOrder, [Next]_vars, uiOpen'
                 PROVE  UiInOrder' /\ RestInOrder'
      BY InOrderSplits, PTL DEF TypeOK, InOrder, UiInOrder, RestInOrder, Before
    <2>1. uiOpen /\ UiInOrder /\ RestInOrder
      <3>1. uiOpen
        BY Zenon DEF Next, vars, SendSample, SendEvent, Unblocks, SendFails, WorkerEnds,
              BufferStep, Receive, Closed, WindowOver, Push, Flush, ForwardOther,
              Forward, Notify, UiGone, Frame, TakeMessage, DrainEnds, CloseUi, uiVars
      <3> QED  BY <3>1, InOrderSplits
    <2>2. CASE UNCHANGED <<wq, accepted, hand, batch, uq, taken>>
      BY <2>1, <2>2 DEF UiInOrder, RestInOrder, Before, Forwarded, LastOf
    <2>3. CASE BufferStep
      <3>1. ~UiGone
        BY <2>1 DEF UiGone
      <3> QED  BY <2>1, <2>3, <3>1, BufferInOrder
    <2>4. ASSUME NEW sample \in BOOLEAN, Accept(sample),
                 UNCHANGED <<uq, taken, batch, hand>>
          PROVE  UiInOrder' /\ RestInOrder'
      BY <2>1, <2>4, AcceptInOrder
    <2>5. CASE TakeMessage
      BY <2>1, <2>5, TakeInOrder
    <2>6. CASE CloseUi
      BY <2>6 DEF CloseUi
    <2> QED
      BY <2>2, <2>3, <2>4, <2>5, <2>6 DEF Next, vars, SendSample, SendEvent, Unblocks,
            SendFails, WorkerEnds, Frame, DrainEnds, senderVars, bufferVars, uiVars
  <1> QED  BY <1>1, <1>2, PipelineTypes, PTL DEF Spec

-----------------------------------------------------------------------------
(* The recursive function in FlattenSeq: g[i] is the first i of qs in one.  *)
Joined(qs, g, i) == IF i = 1 THEN qs[i] ELSE g[i - 1] \o qs[i]
JoinsUpTo(qs, n, g) == g = [i \in 1 .. n |-> Joined(qs, g, i)]

(* There is such a function, and FlattenSeq is its last value.              *)
LEMMA JoinsExist ==
    ASSUME NEW qs
    PROVE  \A n \in Nat : \E g : JoinsUpTo(qs, n, g)
<1> DEFINE T == {n \in Nat : \E g : JoinsUpTo(qs, n, g)}
<1>1. 0 \in T
  <2> DEFINE g == [i \in 1 .. 0 |-> qs[1]]
  <2>1. JoinsUpTo(qs, 0, g)
    BY DEF JoinsUpTo
  <2>q. QED
    BY <2>1
<1>2. ASSUME NEW n \in Nat, n \in T
      PROVE  n + 1 \in T
  <2>1. PICK g : JoinsUpTo(qs, n, g)
    BY <1>2
  <2> DEFINE h == [i \in 1 .. n + 1 |-> Joined(qs, g, i)]
  <2>2. \A i \in 1 .. n : h[i] = g[i]
    BY <2>1 DEF JoinsUpTo
  <2>3. \A i \in 1 .. n + 1 : i = 1 \/ i - 1 \in 1 .. n
    OBVIOUS
  <2>4. \A i \in 1 .. n + 1 : Joined(qs, h, i) = Joined(qs, g, i)
    <3> HIDE DEF h
    <3>q. QED
      BY <2>2, <2>3 DEF Joined
  <2>5. JoinsUpTo(qs, n + 1, h)
    BY <2>4 DEF JoinsUpTo
  <2> HIDE DEF h
  <2>q. QED
    BY <2>5
<1> HIDE DEF T
<1>3. \A n \in Nat : n \in T
  BY <1>1, <1>2, CountingUp
<1>q. QED
  BY <1>3 DEF T

(* FlattenSeq is defined by a CHOOSE of a recursive function; the function  *)
(* exists, so it is the one chosen.                                         *)
LEMMA FlattenUnfolds ==
    ASSUME NEW S, NEW qs \in Seq(Seq(S)), qs # <<>>
    PROVE  \E g : JoinsUpTo(qs, Len(qs), g) /\ FlattenSeq(qs) = g[Len(qs)]
<1> DEFINE g == CHOOSE g : g = [i \in 1 .. Len(qs) |->
                    IF i = 1 THEN qs[i] ELSE g[i - 1] \o qs[i]]
<1>0. Len(qs) \in Nat /\ Len(qs) # 0
  OBVIOUS
<1>1. PICK h : JoinsUpTo(qs, Len(qs), h)
  BY <1>0, JoinsExist
<1>2. g = [i \in 1 .. Len(qs) |-> IF i = 1 THEN qs[i] ELSE g[i - 1] \o qs[i]]
  <2> DEFINE Is(k) == k = [i \in 1 .. Len(qs) |->
                    IF i = 1 THEN qs[i] ELSE k[i - 1] \o qs[i]]
  <2>1. Is(h)
    BY <1>1 DEF JoinsUpTo, Joined
  <2>2. g = CHOOSE k : Is(k)
    OBVIOUS
  <2>3. Is(CHOOSE k : Is(k))
    <3> HIDE DEF Is
    <3>q. QED
      BY <2>1
  <2>q. QED
    BY <2>2, <2>3
<1>3. FlattenSeq(qs) = g[Len(qs)]
  BY <1>0 DEF FlattenSeq
<1> HIDE DEF g
<1>q. QED
  BY <1>2, <1>3 DEF JoinsUpTo, Joined

(* A message in a channel is a sequence of items.                           *)
LEMMA MessagesOf ==
    ASSUME NEW S, NEW qs \in Seq(Seq(S))
    PROVE  /\ Len(qs) \in Nat
           /\ \A i \in 1 .. Len(qs) : qs[i] \in Seq(S) /\ Len(qs[i]) \in Nat
<1> DEFINE M == Seq(S)
<1>1. qs \in Seq(M) /\ \A q \in M : Len(q) \in Nat
  OBVIOUS
<1> HIDE DEF M
<1>2. Len(qs) \in Nat /\ \A i \in 1 .. Len(qs) : qs[i] \in M /\ Len(qs[i]) \in Nat
  BY <1>1
<1>q. QED
  BY <1>2 DEF M

(* Every value is a sequence, of no more than the longest times as many.    *)
LEMMA JoinsAreSequences ==
    ASSUME NEW S, NEW qs \in Seq(Seq(S)), NEW g, JoinsUpTo(qs, Len(qs), g),
           NEW m \in Nat, \A i \in 1 .. Len(qs) : Len(qs[i]) <= m
    PROVE  \A i \in 1 .. Len(qs) : g[i] \in Seq(S) /\ Len(g[i]) <= i * m
<1> DEFINE Fine(i) == g[i] \in Seq(S) /\ Len(g[i]) <= i * m
           T == {n \in Nat : n \in 1 .. Len(qs) => Fine(n)}
<1>0. /\ Len(qs) \in Nat
      /\ \A i \in 1 .. Len(qs) :
            qs[i] \in Seq(S) /\ Len(qs[i]) \in Nat /\ Len(qs[i]) <= m
  BY MessagesOf
<1>j. \A i \in 1 .. Len(qs) : g[i] = Joined(qs, g, i)
  <2>1. \A i \in 1 .. Len(qs) : [j \in 1 .. Len(qs) |-> Joined(qs, g, j)][i] = Joined(qs, g, i)
    OBVIOUS
  <2>q. QED
    BY <2>1 DEF JoinsUpTo
<1>1. 0 \in T
  OBVIOUS
<1>2. ASSUME NEW n \in Nat, n \in T
      PROVE  n + 1 \in T
  <2>1. SUFFICES ASSUME n + 1 \in 1 .. Len(qs)
                 PROVE  Fine(n + 1)
    OBVIOUS
  <2>2. CASE n = 0
    <3>1. g[1] = qs[1]
      BY <1>j, <2>1, <2>2 DEF Joined
    <3>2. 1 * m = m
      OBVIOUS
    <3>q. QED
      BY <1>0, <2>1, <2>2, <3>1, <3>2
  <2>3. CASE n # 0
    <3>1. n \in 1 .. Len(qs) /\ (n + 1) - 1 = n
      BY <1>0, <2>1, <2>3
    <3>2. Fine(n)
      BY <1>2, <3>1
    <3>3. g[n + 1] = g[n] \o qs[n + 1]
      <4>1. g[n + 1] = Joined(qs, g, n + 1)
        BY <1>j, <2>1
      <4>2. n + 1 # 1
        BY <2>3
      <4>q. QED
        BY <3>1, <4>1, <4>2 DEF Joined
    <3>4. /\ g[n + 1] \in Seq(S)
          /\ Len(g[n + 1]) = Len(g[n]) + Len(qs[n + 1])
      BY <1>0, <2>1, <3>2, <3>3, ConcatProperties
    <3>5. PICK k \in Nat : k = n * m
      OBVIOUS
    <3>6. (n + 1) * m = k + m
      BY <3>5
    <3>7. Len(g[n]) <= k /\ Len(g[n]) \in Nat
      BY <3>2, <3>5
    <3>8. Len(g[n + 1]) <= k + m
      <4>1. PICK a, b \in Nat : a = Len(g[n]) /\ b = Len(qs[n + 1])
        BY <1>0, <2>1, <3>7
      <4>2. a <= k /\ b <= m
        BY <1>0, <2>1, <3>7, <4>1
      <4>3. a + b <= k + m
        BY <4>2
      <4>q. QED
        BY <3>4, <4>1, <4>3
    <3>q. QED
      BY <3>4, <3>6, <3>8
  <2>q. QED
    BY <2>2, <2>3
<1> HIDE DEF T
<1>3. \A n \in Nat : n \in T
  BY <1>1, <1>2, CountingUp
<1> USE DEF T
<1>q. QED
  BY <1>0, <1>3

(* The joined messages as a sequence, and how long it may be.               *)
LEMMA FlattenIsSeq ==
    ASSUME NEW S, NEW qs \in Seq(Seq(S)),
           NEW m \in Nat, \A i \in 1 .. Len(qs) : Len(qs[i]) <= m
    PROVE  FlattenSeq(qs) \in Seq(S) /\ Len(FlattenSeq(qs)) <= Len(qs) * m
<1>1. CASE qs = <<>>
  <2>1. FlattenSeq(qs) = <<>> /\ Len(qs) = 0
    BY <1>1 DEF FlattenSeq
  <2>2. 0 * m = 0 /\ Len(<<>>) = 0 /\ <<>> \in Seq(S)
    OBVIOUS
  <2>q. QED
    BY <2>1, <2>2
<1>2. CASE qs # <<>>
  <2>1. Len(qs) \in Nat /\ Len(qs) # 0
    BY <1>2
  <2>2. PICK g : JoinsUpTo(qs, Len(qs), g) /\ FlattenSeq(qs) = g[Len(qs)]
    BY <1>2, FlattenUnfolds
  <2>3. Len(qs) \in 1 .. Len(qs)
    BY <2>1
  <2>4. g[Len(qs)] \in Seq(S) /\ Len(g[Len(qs)]) <= Len(qs) * m
    BY <2>2, <2>3, JoinsAreSequences
  <2>q. QED
    BY <2>2, <2>4
<1>q. QED
  BY <1>1, <1>2

(* One step of the joining.                                                 *)
LEMMA JoinStep ==
    ASSUME NEW qs, NEW n \in Nat, NEW g, JoinsUpTo(qs, n, g)
    PROVE  /\ n >= 1 => g[1] = qs[1]
           /\ \A i \in 1 .. n : i + 1 \in 1 .. n => g[i + 1] = g[i] \o qs[i + 1]
<1>1. \A i \in 1 .. n : g[i] = Joined(qs, g, i)
  <2>1. \A i \in 1 .. n : [j \in 1 .. n |-> Joined(qs, g, j)][i] = Joined(qs, g, i)
    OBVIOUS
  <2>q. QED
    BY <2>1 DEF JoinsUpTo
<1>2. n >= 1 => g[1] = qs[1]
  BY <1>1 DEF Joined
<1>3. ASSUME NEW i \in 1 .. n, i + 1 \in 1 .. n
      PROVE  g[i + 1] = g[i] \o qs[i + 1]
  <2>1. i + 1 \in 1 .. n /\ i + 1 # 1 /\ (i + 1) - 1 = i
    BY <1>3
  <2>2. g[i + 1] = Joined(qs, g, i + 1)
    BY <1>1, <2>1
  <2>q. QED
    BY <2>1, <2>2 DEF Joined
<1>q. QED
  BY <1>2, <1>3

(* A message at the end of the channel is joined last.                      *)
LEMMA FlattenAppend ==
    ASSUME NEW S, NEW qs \in Seq(Seq(S)), NEW m \in Seq(S)
    PROVE  FlattenSeq(Append(qs, m)) = FlattenSeq(qs) \o m
<1> DEFINE rs == Append(qs, m)
           N == Len(qs)
           M == Seq(S)
<1>1. /\ rs \in Seq(M) /\ rs # <<>> /\ N \in Nat /\ Len(rs) = N + 1
      /\ rs[N + 1] = m /\ \A i \in 1 .. N : rs[i] = qs[i]
  <2> HIDE DEF M
  <2>1. qs \in Seq(M) /\ m \in M
    BY DEF M
  <2>q. QED
    BY <2>1
<1> HIDE DEF rs, N, M
<1>2. PICK h : JoinsUpTo(rs, N + 1, h) /\ FlattenSeq(rs) = h[N + 1]
  BY <1>1, FlattenUnfolds DEF M
<1>3. /\ h[1] = rs[1]
      /\ \A i \in 1 .. N : h[i + 1] = h[i] \o rs[i + 1]
  <2>1. N + 1 \in Nat /\ N + 1 >= 1
    BY <1>1
  <2>2. \A i \in 1 .. N : i \in 1 .. N + 1 /\ i + 1 \in 1 .. N + 1
    BY <1>1
  <2>q. QED
    BY <1>2, <2>1, <2>2, JoinStep
<1>4. CASE qs = <<>>
  <2>1. N = 0 /\ FlattenSeq(qs) = <<>>
    BY <1>4 DEF FlattenSeq, N
  <2>2. FlattenSeq(rs) = m
    BY <1>1, <1>2, <1>3, <2>1
  <2>3. <<>> \o m = m
    OBVIOUS
  <2>q. QED
    BY <2>1, <2>2, <2>3 DEF rs
<1>5. CASE qs # <<>>
  <2>1. N >= 1 /\ N \in 1 .. N
    BY <1>1, <1>5 DEF N
  <2>2. PICK g : JoinsUpTo(qs, N, g) /\ FlattenSeq(qs) = g[N]
    BY <1>5, FlattenUnfolds DEF N
  <2>3. /\ g[1] = qs[1]
        /\ \A i \in 1 .. N - 1 : g[i + 1] = g[i] \o qs[i + 1]
    <3>1. \A i \in 1 .. N - 1 : i \in 1 .. N /\ i + 1 \in 1 .. N
      BY <1>1
    <3>2. \A i \in 1 .. N : i + 1 \in 1 .. N => g[i + 1] = g[i] \o qs[i + 1]
      BY <1>1, <2>2, JoinStep
    <3>3. g[1] = qs[1]
      BY <1>1, <2>1, <2>2, JoinStep
    <3>q. QED
      BY <3>1, <3>2, <3>3
  <2> DEFINE T == {i \in Nat : i + 1 \in 1 .. N => h[i + 1] = g[i + 1]}
  <2>4. 0 \in T
    BY <1>1, <1>3, <2>1, <2>3
  <2>5. ASSUME NEW i \in Nat, i \in T
        PROVE  i + 1 \in T
    <3>1. SUFFICES ASSUME (i + 1) + 1 \in 1 .. N
                   PROVE  h[(i + 1) + 1] = g[(i + 1) + 1]
      OBVIOUS
    <3>2. i + 1 \in 1 .. N /\ i + 1 \in 1 .. N - 1
      BY <1>1, <3>1
    <3>3. h[i + 1] = g[i + 1]
      BY <2>5, <3>2
    <3>q. QED
      BY <1>1, <1>3, <2>3, <3>1, <3>2, <3>3
  <2>6. \A i \in Nat : i \in T
    <3> HIDE DEF T
    <3>q. QED
      BY <2>4, <2>5, CountingUp
  <2>7. h[N] = g[N]
    <3>1. N - 1 \in Nat /\ (N - 1) + 1 = N
      BY <1>1, <2>1
    <3>2. N - 1 \in T
      BY <2>6, <3>1
    <3>q. QED
      BY <2>1, <3>1, <3>2
  <2>8. h[N + 1] = h[N] \o rs[N + 1]
    BY <1>3, <2>1
  <2>q. QED
    BY <1>1, <1>2, <2>2, <2>7, <2>8 DEF rs
<1>q. QED
  BY <1>4, <1>5

(* The first message of the channel stands at the beginning.                *)
LEMMA FlattenHead ==
    ASSUME NEW S, NEW qs \in Seq(Seq(S)), qs # <<>>
    PROVE  FlattenSeq(qs) = Head(qs) \o FlattenSeq(Tail(qs))
<1> DEFINE rs == Tail(qs)
           N == Len(qs) - 1
           M == Seq(S)
<1>1. /\ rs \in Seq(M) /\ N \in Nat /\ Len(qs) = N + 1 /\ Len(rs) = N
      /\ Head(qs) = qs[1] /\ qs[1] \in M
      /\ \A i \in 1 .. N : rs[i] = qs[i + 1] /\ rs[i] \in M
  <2> HIDE DEF M
  <2>1. qs \in Seq(M)
    BY DEF M
  <2>q. QED
    BY <2>1
<1> HIDE DEF rs, N, M
<1>2. PICK h : JoinsUpTo(qs, N + 1, h) /\ FlattenSeq(qs) = h[N + 1]
  BY <1>1, FlattenUnfolds DEF M
<1>3. /\ h[1] = qs[1]
      /\ \A i \in 1 .. N : h[i + 1] = h[i] \o qs[i + 1]
  <2>1. N + 1 \in Nat /\ N + 1 >= 1
    BY <1>1
  <2>2. \A i \in 1 .. N : i \in 1 .. N + 1 /\ i + 1 \in 1 .. N + 1
    BY <1>1
  <2>q. QED
    BY <1>2, <2>1, <2>2, JoinStep
<1>4. CASE rs = <<>>
  <2>1. FlattenSeq(rs) = <<>> /\ N = 0
    BY <1>1, <1>4 DEF FlattenSeq
  <2>2. FlattenSeq(qs) = qs[1]
    BY <1>1, <1>2, <1>3, <2>1
  <2>3. qs[1] \o <<>> = qs[1]
    BY <1>1 DEF M
  <2>q. QED
    BY <1>1, <2>1, <2>2, <2>3 DEF rs
<1>5. CASE rs # <<>>
  <2>1. N >= 1 /\ N \in 1 .. N
    <3>1. Len(rs) # 0
      BY <1>1, <1>5
    <3>q. QED
      BY <1>1, <3>1
  <2>2. PICK g : JoinsUpTo(rs, N, g) /\ FlattenSeq(rs) = g[N]
    BY <1>1, <1>5, FlattenUnfolds DEF M
  <2>3. /\ g[1] = rs[1]
        /\ \A i \in 1 .. N - 1 : g[i + 1] = g[i] \o rs[i + 1]
    <3>1. \A i \in 1 .. N - 1 : i \in 1 .. N /\ i + 1 \in 1 .. N
      BY <1>1
    <3>2. \A i \in 1 .. N : i + 1 \in 1 .. N => g[i + 1] = g[i] \o rs[i + 1]
      <4>1. N \in Nat /\ JoinsUpTo(rs, N, g)
        BY <1>1, <2>2
      <4>q. QED
        BY <4>1, JoinStep
    <3>3. g[1] = rs[1]
      <4>1. N \in Nat /\ N >= 1 /\ JoinsUpTo(rs, N, g)
        BY <1>1, <2>1, <2>2
      <4>q. QED
        BY <4>1, JoinStep
    <3>q. QED
      BY <3>1, <3>2, <3>3
  <2> DEFINE T == {i \in Nat : i + 1 \in 1 .. N =>
                        g[i + 1] \in M /\ h[(i + 1) + 1] = qs[1] \o g[i + 1]}
  <2>4. 0 \in T
    <3>1. 0 + 1 = 1 /\ 1 \in 1 .. N /\ (0 + 1) + 1 = 2
      BY <2>1
    <3>2. h[2] = h[1] \o qs[2]
      <4>1. 1 + 1 = 2
        OBVIOUS
      <4>q. QED
        BY <1>3, <3>1, <4>1
    <3>3. rs[1] = qs[2] /\ rs[1] \in M
      BY <1>1, <3>1
    <3>q. QED
      BY <1>3, <2>3, <3>1, <3>2, <3>3
  <2>5. ASSUME NEW i \in Nat, i \in T
        PROVE  i + 1 \in T
    <3> DEFINE Goes(k) == k + 1 \in 1 .. N =>
                            g[k + 1] \in M /\ h[(k + 1) + 1] = qs[1] \o g[k + 1]
               j == i + 1
    <3>0. SUFFICES ASSUME j + 1 \in 1 .. N
                   PROVE  g[j + 1] \in M /\ h[(j + 1) + 1] = qs[1] \o g[j + 1]
      <4>1. j \in Nat /\ T = {k \in Nat : Goes(k)}
        OBVIOUS
      <4>2. SUFFICES Goes(j)
        <5> HIDE DEF j, Goes
        <5>q. QED
          BY <4>1 DEF j
      <4>q. QED
        OBVIOUS
    <3>1. j \in Nat /\ j + 1 \in 1 .. N
      BY <3>0
    <3>2. j \in 1 .. N /\ j \in 1 .. N - 1
      BY <1>1, <3>1
    <3>3. g[j] \in M /\ h[j + 1] = qs[1] \o g[j]
      BY <2>5, <3>2
    <3> HIDE DEF j, T
    <3>4. g[j + 1] = g[j] \o rs[j + 1]
      BY <2>3, <3>2
    <3>5. h[(j + 1) + 1] = h[j + 1] \o qs[(j + 1) + 1]
      BY <1>3, <3>1
    <3>6. rs[j + 1] = qs[(j + 1) + 1] /\ rs[j + 1] \in M
      BY <1>1, <3>1
    <3>7. (qs[1] \o g[j]) \o rs[j + 1] = qs[1] \o (g[j] \o rs[j + 1])
      <4>1. qs[1] \in Seq(S) /\ g[j] \in Seq(S) /\ rs[j + 1] \in Seq(S)
        BY <1>1, <3>3, <3>6 DEF M
      <4> DEFINE a == qs[1]
                 b == g[j]
                 c == rs[j + 1]
      <4>2. a \in Seq(S) /\ b \in Seq(S) /\ c \in Seq(S)
        BY <4>1
      <4> HIDE DEF a, b, c
      <4>3. (a \o b) \o c = a \o (b \o c)
        BY <4>2, ConcatAssociative
      <4>q. QED
        BY <4>3 DEF a, b, c
    <3>8. g[j] \o rs[j + 1] \in M
      BY <3>3, <3>6, ConcatProperties DEF M
    <3>q. QED
      BY <3>3, <3>4, <3>5, <3>6, <3>7, <3>8 DEF j
  <2>6. \A i \in Nat : i \in T
    <3> HIDE DEF T
    <3>q. QED
      BY <2>4, <2>5, CountingUp
  <2>7. h[N + 1] = qs[1] \o g[N]
    <3>1. N - 1 \in Nat /\ (N - 1) + 1 = N
      BY <1>1, <2>1
    <3>2. N - 1 \in T
      BY <2>6, <3>1
    <3>q. QED
      BY <2>1, <3>1, <3>2
  <2>q. QED
    BY <1>1, <1>2, <2>2, <2>7 DEF rs
<1>q. QED
  BY <1>4, <1>5

-----------------------------------------------------------------------------
(* What the refinement needs beside the types: how many items there will    *)
(* be, that every message has some and no more than a batch, and that a     *)
(* frame takes events only while the window is there.                       *)
Room ==
    /\ IsFiniteSet(blocked)
    /\ accepted + Cardinality(blocked) <= MaxItems
    /\ \A i \in DOMAIN uq : uq[i] # <<>> /\ Len(uq[i]) <= MaxBatch
    /\ draining => uiOpen

(* Every step keeps the room.                                               *)
LEMMA RoomKept ==
    ASSUME QueuesTypeOK, Room, [Next]_vars
    PROVE  Room'
<1> USE PipelineAssumption
<1>0. Cardinality(blocked) \in Nat /\ accepted \in Nat
  BY FS_CardinalityType DEF Room, QueuesTypeOK
<1>1. IsFiniteSet(blocked') /\ accepted' + Cardinality(blocked') <= MaxItems
  <2>1. CASE UNCHANGED <<accepted, blocked>>
    BY <2>1 DEF Room
  <2>2. ASSUME NEW s \in Senders, SendSample(s)
        PROVE  IsFiniteSet(blocked') /\ accepted' + Cardinality(blocked') <= MaxItems
    <3>1. blocked' = blocked /\ accepted' \in {accepted, accepted + 1}
      BY <2>2 DEF SendSample, Accept
    <3>2. accepted + Cardinality(blocked) < MaxItems
      BY <2>2 DEF SendSample, MaySend
    <3>q. QED
      BY <1>0, <3>1, <3>2 DEF Room
  <2>3. ASSUME NEW s \in Senders, SendEvent(s)
        PROVE  IsFiniteSet(blocked') /\ accepted' + Cardinality(blocked') <= MaxItems
    <3>1. s \notin blocked /\ accepted + Cardinality(blocked) < MaxItems
      BY <2>3 DEF SendEvent, MaySend
    <3>2. \/ blocked' = blocked /\ accepted' = accepted + 1
          \/ blocked' = blocked \cup {s} /\ accepted' = accepted
      BY <2>3 DEF SendEvent, Accept
    <3>3. /\ IsFiniteSet(blocked \cup {s})
          /\ Cardinality(blocked \cup {s}) = Cardinality(blocked) + 1
      BY <3>1, FS_AddElement DEF Room
    <3>4. IsFiniteSet(blocked)
      BY DEF Room
    <3>q. QED
      BY <1>0, <3>1, <3>2, <3>3, <3>4
  <2>4. ASSUME NEW s \in Senders, Unblocks(s) \/ SendFails(s)
        PROVE  IsFiniteSet(blocked') /\ accepted' + Cardinality(blocked') <= MaxItems
    <3>1. s \in blocked /\ blocked' = blocked \ {s} /\ accepted' \in {accepted, accepted + 1}
      BY <2>4 DEF Unblocks, SendFails, Accept
    <3>2. /\ IsFiniteSet(blocked \ {s})
          /\ Cardinality(blocked \ {s}) = Cardinality(blocked) - 1
      BY <3>1, FS_RemoveElement DEF Room
    <3>3. accepted + Cardinality(blocked) <= MaxItems
      BY DEF Room
    <3>q. QED
      BY <1>0, <3>1, <3>2, <3>3
  <2>q. QED
    BY <2>1, <2>2, <2>3, <2>4 DEF Next, vars, WorkerEnds, BufferStep, Receive, Closed,
       WindowOver, Push, Flush, ForwardOther, Forward, Notify, UiGone, Frame,
       TakeMessage, DrainEnds, CloseUi, senderVars
<1>2. ASSUME NEW message \in Seq(Item), Forward(message), message # <<>>,
             Len(message) <= MaxBatch
      PROVE  \A i \in DOMAIN uq' : uq'[i] # <<>> /\ Len(uq'[i]) <= MaxBatch
  <2> DEFINE M == Seq(Item)
  <2>1. uq \in Seq(M) /\ message \in M
    BY DEF QueuesTypeOK
  <2>2. uq' = Append(uq, message)
    BY <1>2 DEF Forward
  <2> HIDE DEF M
  <2>3. /\ uq' \in Seq(M) /\ Len(uq) \in Nat /\ Len(uq') = Len(uq) + 1
        /\ uq'[Len(uq) + 1] = message
        /\ \A i \in 1 .. Len(uq) : uq'[i] = uq[i]
    BY <2>1, <2>2, AppendFacts
  <2>4. DOMAIN uq' = 1 .. Len(uq) + 1 /\ DOMAIN uq = 1 .. Len(uq)
    BY <2>1, <2>3
  <2>q. QED
    BY <1>2, <2>3, <2>4 DEF Room
<1>3. \A i \in DOMAIN uq' : uq'[i] # <<>> /\ Len(uq'[i]) <= MaxBatch
  <2>1. CASE uq' = uq
    BY <2>1 DEF Room
  <2>2. CASE Flush
    <3>1. /\ Forward(batch) /\ batch # <<>> /\ batch \in Seq(Item)
          /\ Len(batch) \in Nat /\ MaxBatch \in Nat
      BY <2>2 DEF Flush, Flushes, QueuesTypeOK
    <3>2. Len(batch) <= MaxBatch
      BY <3>1 DEF QueuesTypeOK
    <3>q. QED
      BY <1>2, <3>1, <3>2
  <2>3. CASE ForwardOther
    <3>1. Forward(hand) /\ hand \in Seq(Item) /\ Len(hand) = 1 /\ MaxBatch \in Nat \ {0}
      BY <2>3 DEF ForwardOther, ForwardsOther, HoldsOther, QueuesTypeOK
    <3>2. hand # <<>> /\ Len(hand) <= MaxBatch
      BY <3>1
    <3>q. QED
      BY <1>2, <3>1, <3>2
  <2>4. CASE TakeMessage
    <3> DEFINE M == Seq(Item)
    <3>1. uq \in Seq(M) /\ uq # <<>> /\ uq' = Tail(uq)
      BY <2>4 DEF TakeMessage, QueuesTypeOK
    <3> HIDE DEF M
    <3>2. /\ Len(uq) \in Nat \ {0} /\ uq' \in Seq(M) /\ Len(uq') = Len(uq) - 1
          /\ \A i \in 1 .. Len(uq) - 1 : uq'[i] = uq[i + 1]
      BY <3>1, TailFacts
    <3>3. DOMAIN uq' = 1 .. Len(uq) - 1 /\ DOMAIN uq = 1 .. Len(uq)
      BY <3>1, <3>2
    <3>4. \A i \in 1 .. Len(uq) - 1 : i + 1 \in 1 .. Len(uq)
      BY <3>2
    <3>q. QED
      BY <3>2, <3>3, <3>4 DEF Room
  <2>5. CASE CloseUi
    <3>1. uq' = <<>>
      BY <2>5 DEF CloseUi
    <3>q. QED
      BY <3>1
  <2>q. QED
    BY <2>1, <2>2, <2>3, <2>4, <2>5 DEF Next, vars, SendSample, SendEvent, Unblocks,
       SendFails, WorkerEnds, BufferStep, Receive, Closed, WindowOver, Push, Notify,
       UiGone, Frame, DrainEnds, uiVars
<1>4. draining' => uiOpen'
  <2>1. draining => uiOpen
    BY DEF Room
  <2>2. CASE UNCHANGED <<draining, uiOpen>>
    BY <2>1, <2>2
  <2>3. CASE Frame
    <3>1. uiOpen /\ uiOpen' = uiOpen
      BY <2>3, Zenon DEF Frame
    <3>q. QED
      BY <3>1, Zenon
  <2>5. CASE CloseUi
    <3>1. ~draining /\ draining' = draining
      BY <2>5, Zenon DEF CloseUi
    <3>q. QED
      BY <3>1, Zenon
  <2>4. CASE TakeMessage \/ DrainEnds
    <3>1. draining /\ uiOpen' = uiOpen
      BY <2>4, Zenon DEF TakeMessage, DrainEnds
    <3>q. QED
      BY <2>1, <3>1, Zenon
  <2>q. QED
    BY <2>2, <2>3, <2>4, <2>5, Zenon DEF Next, vars, SendSample, SendEvent, Unblocks, SendFails, WorkerEnds,
       BufferStep, Receive, Closed, WindowOver, Push, Flush, ForwardOther, Forward,
       Notify, UiGone, uiVars
<1>q. QED
  BY <1>1, <1>3, <1>4 DEF Room

(* What the pipeline holds, as one queue, and its limit.                    *)
Held == FlattenSeq(uq) \o batch \o hand \o wq
Most == WorkerCapacity + MaxBatch + UiCapacity * MaxBatch

(* Its parts are sequences, and it has room for one more if the worker's    *)
(* channel has.                                                             *)
LEMMA HeldIs ==
    ASSUME QueuesTypeOK, Room
    PROVE  /\ FlattenSeq(uq) \in Seq(Item) /\ batch \in Seq(Item)
           /\ hand \in Seq(Item) /\ wq \in Seq(Item)
           /\ Held \in Seq(Item)
           /\ ~Full => Len(Held) < Most
<1> USE PipelineAssumption
<1>1. batch \in Seq(Item) /\ hand \in Seq(Item) /\ wq \in Seq(Item)
  BY DEF QueuesTypeOK
<1>2. /\ uq \in Seq(Seq(Item)) /\ Len(uq) <= UiCapacity
      /\ MaxBatch \in Nat /\ WorkerCapacity \in Nat /\ UiCapacity \in Nat
  BY DEF QueuesTypeOK
<1>3. Len(uq) \in Nat /\ DOMAIN uq = 1 .. Len(uq)
  <2> DEFINE M == Seq(Item)
  <2>1. uq \in Seq(M)
    BY <1>2
  <2> HIDE DEF M
  <2>q. QED
    BY <2>1
<1>4. \A i \in 1 .. Len(uq) : Len(uq[i]) <= MaxBatch
  BY <1>3 DEF Room
<1>5. FlattenSeq(uq) \in Seq(Item) /\ Len(FlattenSeq(uq)) <= Len(uq) * MaxBatch
  BY <1>2, <1>4, FlattenIsSeq
<1> DEFINE F == FlattenSeq(uq)
<1> HIDE DEF F
<1>6. F \in Seq(Item)
  BY <1>5 DEF F
<1>7. /\ F \o batch \o hand \o wq \in Seq(Item)
      /\ Len(F \o batch \o hand \o wq) = Len(F) + Len(batch) + Len(hand) + Len(wq)
  BY <1>1, <1>6
<1>8. ASSUME ~Full
      PROVE  Len(Held) < Most
  <2>1. PICK a \in Nat : a = Len(uq) * MaxBatch
    BY <1>2, <1>3
  <2>2. PICK b \in Nat : b = UiCapacity * MaxBatch
    BY <1>2
  <2>3. a <= b
    <3>1. PICK d \in Nat : UiCapacity = Len(uq) + d
      <4>1. UiCapacity - Len(uq) \in Nat /\ UiCapacity = Len(uq) + (UiCapacity - Len(uq))
        BY <1>2, <1>3
      <4>q. QED
        BY <4>1
    <3>2. PICK e \in Nat : e = d * MaxBatch
      BY <1>2
    <3>3. (Len(uq) + d) * MaxBatch = Len(uq) * MaxBatch + d * MaxBatch
      BY <1>2, <1>3
    <3>4. b = a + e
      BY <2>1, <2>2, <3>1, <3>2, <3>3
    <3>q. QED
      BY <3>4
  <2>4. Len(F) <= a /\ Len(F) \in Nat
    BY <1>5, <1>6, <2>1 DEF F
  <2>5. Len(wq) \in Nat /\ Len(wq) < WorkerCapacity
    BY <1>1, <1>2, <1>8 DEF Full
  <2>6. Len(batch) + Len(hand) <= MaxBatch /\ Len(batch) \in Nat /\ Len(hand) \in Nat
    BY <1>1, <1>2 DEF QueuesTypeOK
  <2>7. Len(F) + Len(batch) + Len(hand) + Len(wq) < WorkerCapacity + MaxBatch + b
    BY <1>2, <2>3, <2>4, <2>5, <2>6
  <2>q. QED
    BY <1>7, <2>2, <2>7 DEF Held, Most, F
<1>q. QED
  BY <1>1, <1>6, <1>7, <1>8 DEF Held, F

(* Moving an item from the head of one sequence to the end of the one       *)
(* before it does not change the two in one.                                *)
LEMMA JoinFacts ==
    ASSUME NEW S, NEW a \in Seq(S), NEW b \in Seq(S)
    PROVE  /\ a \o <<>> = a /\ <<>> \o a = a
           /\ \A e \in S : a \o Append(b, e) = Append(a \o b, e)
           /\ \A e \in S : a \o <<e>> = Append(a, e)
           /\ b # <<>> => (a \o <<Head(b)>>) \o Tail(b) = a \o b
           /\ SubSeq(a \o b, Len(a) + 1, Len(a \o b)) = b
<1>1. a \o <<>> = a /\ <<>> \o a = a
  OBVIOUS
<1>2. ASSUME NEW e \in S
      PROVE  a \o Append(b, e) = Append(a \o b, e) /\ a \o <<e>> = Append(a, e)
  <2>1. a \o Append(b, e) = Append(a \o b, e)
    <3>1. /\ a \o b \in Seq(S) /\ Len(a \o b) = Len(a) + Len(b)
          /\ \A i \in 1 .. Len(a) + Len(b) :
                (a \o b)[i] = IF i <= Len(a) THEN a[i] ELSE b[i - Len(a)]
      BY ConcatProperties
    <3>q. QED
      BY <1>2, <3>1
  <2>2. a \o <<e>> = Append(a, e)
    BY <1>2
  <2>q. QED
    BY <2>1, <2>2
<1>3. ASSUME b # <<>>
      PROVE  (a \o <<Head(b)>>) \o Tail(b) = a \o b
  <2>1. /\ Head(b) \in S /\ Tail(b) \in Seq(S) /\ <<Head(b)>> \in Seq(S)
        /\ <<Head(b)>> \o Tail(b) = b
    BY <1>3
  <2> DEFINE h == <<Head(b)>>
             t == Tail(b)
  <2>2. h \in Seq(S) /\ t \in Seq(S)
    BY <2>1
  <2> HIDE DEF h, t
  <2>3. (a \o h) \o t = a \o (h \o t)
    BY <2>2, ConcatAssociative
  <2>q. QED
    BY <2>1, <2>3 DEF h, t
<1>4. SubSeq(a \o b, Len(a) + 1, Len(a \o b)) = b
  OBVIOUS
<1>q. QED
  BY <1>1, <1>2, <1>3, <1>4

(* The pipeline's steps as steps of the FIFO.  An item comes in at the end. *)
LEMMA AcceptMaps ==
    ASSUME QueuesTypeOK, Room, NEW sample \in BOOLEAN, Accept(sample),
           accepted < MaxItems,
           UNCHANGED <<uq, batch, hand, taken, uiOpen>>
    PROVE  Fifo!Accept
<1> USE PipelineAssumption
<1> DEFINE item == [n |-> accepted + 1, sample |-> sample]
           F == FlattenSeq(uq)
<1>1. item \in [n : 1 .. MaxItems, sample : BOOLEAN] /\ item \in Item
  BY DEF QueuesTypeOK, Item
<1>2. wq' = Append(wq, item)
  BY DEF Accept
<1>3. /\ F \in Seq(Item) /\ batch \in Seq(Item) /\ hand \in Seq(Item)
      /\ wq \in Seq(Item) /\ Len(Held) < Most
  BY HeldIs DEF Accept
<1>4. F' = F
  OBVIOUS
<1> HIDE DEF item, F
<1>5. F \o batch \o hand \o Append(wq, item) = Append(F \o batch \o hand \o wq, item)
  <2> DEFINE X == F \o batch \o hand
  <2>1. X \in Seq(Item)
    BY <1>3
  <2> HIDE DEF X
  <2>2. \A e \in Item : X \o Append(wq, e) = Append(X \o wq, e)
    BY <1>3, <2>1, JoinFacts
  <2>q. QED
    BY <1>1, <2>2 DEF X
<1>6. (F \o batch \o hand \o wq)' = Append(F \o batch \o hand \o wq, item)
  BY <1>2, <1>4, <1>5
<1>q. QED
  BY <1>1, <1>3, <1>6 DEF Fifo!Accept, Held, Most, F

(* The buffer thread moves items on: the queue is what it was.              *)
LEMMA BufferMaps ==
    ASSUME QueuesTypeOK, Room, BufferStep, ~UiGone
    PROVE  Held' = Held /\ taken' = taken /\ uiOpen' = uiOpen
<1> DEFINE F == FlattenSeq(uq)
<1>0. /\ F \in Seq(Item) /\ batch \in Seq(Item) /\ hand \in Seq(Item)
      /\ wq \in Seq(Item) /\ <<>> \in Seq(Item)
  BY HeldIs
<1>1. taken' = taken /\ uiOpen' = uiOpen
  BY DEF BufferStep, Receive, Closed, WindowOver, Push, Flush, ForwardOther, Forward,
         Notify, uiVars
<1>2. CASE Receive
  <2>1. /\ hand = <<>> /\ wq # <<>> /\ hand' = <<Head(wq)>> /\ wq' = Tail(wq)
        /\ batch' = batch /\ uq' = uq
    BY <1>2, HandIs DEF Receive, At, uiVars
  <2> DEFINE X == F \o batch
  <2>2. X \in Seq(Item)
    BY <1>0
  <2> HIDE DEF F, X
  <2>3. (X \o <<Head(wq)>>) \o Tail(wq) = X \o wq /\ X \o <<>> = X
    BY <1>0, <2>1, <2>2, JoinFacts
  <2>4. Held = X \o <<>> \o wq
    BY <2>1 DEF Held, X, F
  <2>5. Held' = X \o <<Head(wq)>> \o Tail(wq)
    BY <2>1 DEF Held, X, F
  <2>q. QED
    BY <1>1, <2>3, <2>4, <2>5
<1>3. CASE Closed \/ WindowOver \/ Notify
  <2>1. UNCHANGED <<uq, batch, hand, wq>>
    BY <1>3 DEF Closed, WindowOver, Notify, uiVars
  <2>q. QED
    BY <1>1, <2>1 DEF Held
<1>4. CASE Push
  <2>1. /\ hand = <<hand[1]>> /\ hand[1] \in Item
        /\ batch' = Append(batch, hand[1]) /\ hand' = <<>>
        /\ wq' = wq /\ uq' = uq
    BY <1>4, HandIs DEF Push, At, uiVars
  <2> DEFINE e == hand[1]
             X == F \o batch
  <2>2. X \in Seq(Item) /\ e \in Item
    BY <1>0, <2>1
  <2>3. Held = X \o <<e>> \o wq
    BY <2>1 DEF Held
  <2>4. Held' = F \o Append(batch, e) \o <<>> \o wq
    BY <2>1 DEF Held
  <2> HIDE DEF F, e
  <2>5. \A d \in Item : F \o Append(batch, d) = Append(F \o batch, d)
    BY <1>0, JoinFacts
  <2>6. F \o Append(batch, e) = Append(X, e)
    BY <2>2, <2>5
  <2> HIDE DEF X
  <2>7. X \o <<e>> = Append(X, e)
    BY <1>0, <2>2, JoinFacts
  <2>8. Append(X, e) \in Seq(Item)
    BY <2>2
  <2>9. Append(X, e) \o <<>> = Append(X, e)
    BY <1>0, <2>8, JoinFacts
  <2>q. QED
    BY <1>1, <2>3, <2>4, <2>6, <2>7, <2>9
<1>5. CASE Flush
  <2>1. /\ uq' = Append(uq, batch) /\ batch' = <<>> /\ hand' = hand /\ wq' = wq
    BY <1>5 DEF Flush, Forward, BatchTaken
  <2>2. FlattenSeq(Append(uq, batch)) = F \o batch
    BY <1>0, FlattenAppend DEF QueuesTypeOK
  <2>3. F \o batch \in Seq(Item)
    BY <1>0
  <2>4. (F \o batch) \o <<>> = F \o batch
    BY <2>3, JoinFacts
  <2>5. Held' = (F \o batch) \o <<>> \o hand \o wq
    BY <2>1, <2>2 DEF Held
  <2>q. QED
    BY <1>1, <2>4, <2>5 DEF Held
<1>6. CASE ForwardOther
  <2>1. /\ uq' = Append(uq, hand) /\ batch = <<>> /\ batch' = <<>> /\ hand' = <<>>
        /\ wq' = wq
    BY <1>6 DEF ForwardOther, ForwardsOther, Forward
  <2>2. FlattenSeq(Append(uq, hand)) = F \o hand
    BY <1>0, FlattenAppend DEF QueuesTypeOK
  <2>3. F \o hand \in Seq(Item)
    BY <1>0
  <2>4. (F \o hand) \o <<>> = F \o hand /\ F \o <<>> = F
    BY <1>0, <2>3, JoinFacts
  <2>5. Held' = (F \o hand) \o <<>> \o <<>> \o wq
    BY <2>1, <2>2 DEF Held
  <2>6. Held = F \o <<>> \o hand \o wq
    BY <2>1 DEF Held
  <2>q. QED
    BY <1>1, <2>4, <2>5, <2>6
<1>q. QED
  BY <1>2, <1>3, <1>4, <1>5, <1>6 DEF BufferStep

(* A message the UI takes is the first few items.                           *)
LEMMA TakeMaps ==
    ASSUME QueuesTypeOK, Room, TakeMessage
    PROVE  Fifo!Deliver
<1> DEFINE M == Seq(Item)
           m == Head(uq)
           G == FlattenSeq(Tail(uq))
           b == batch
           h == hand
           w == wq
           R == ((G \o b) \o h) \o w
<1>1. uq \in Seq(M) /\ uq # <<>>
  BY DEF TakeMessage, QueuesTypeOK
<1>2. /\ m \in M /\ Tail(uq) \in Seq(M) /\ Len(uq) \in Nat \ {0}
      /\ m = uq[1] /\ DOMAIN uq = 1 .. Len(uq)
  <2> HIDE DEF M
  <2>q. QED
    BY <1>1, TailFacts
<1>3. m # <<>> /\ Len(m) \in Nat /\ Len(m) # 0
  <2>1. 1 \in DOMAIN uq
    BY <1>2
  <2>2. m # <<>>
    BY <1>2, <2>1 DEF Room
  <2> HIDE DEF m
  <2>q. QED
    BY <1>2, <2>2
<1>4. FlattenSeq(uq) = m \o G
  BY <1>1, FlattenHead
<1>5. b \in Seq(Item) /\ h \in Seq(Item) /\ w \in Seq(Item) /\ G \in Seq(Item)
  <2>1. uq' = Tail(uq) /\ UNCHANGED <<batch, hand, wq>>
    BY DEF TakeMessage, bufferVars
  <2>2. \A i \in 1 .. Len(Tail(uq)) : Len(Tail(uq)[i]) <= MaxBatch
    <3>1. /\ Len(Tail(uq)) = Len(uq) - 1
          /\ \A i \in 1 .. Len(uq) - 1 : Tail(uq)[i] = uq[i + 1]
      <4> HIDE DEF M
      <4>q. QED
        BY <1>1, TailFacts
    <3>2. \A i \in 1 .. Len(uq) - 1 : i + 1 \in DOMAIN uq
      BY <1>2
    <3>q. QED
      BY <3>1, <3>2 DEF Room
  <2>3. MaxBatch \in Nat
    BY PipelineAssumption
  <2>4. G \in Seq(Item)
    BY <1>2, <2>2, <2>3, FlattenIsSeq
  <2>q. QED
    BY <2>4, HeldIs
<1>6. /\ Held = ((FlattenSeq(uq) \o b) \o h) \o w
      /\ Held' = R
      /\ taken' = taken + Len(m) /\ uiOpen /\ uiOpen' = uiOpen
  BY DEF TakeMessage, bufferVars, Held, Room
<1> HIDE DEF m, G, b, h, w, M
<1>7. (((m \o G) \o b) \o h) \o w = m \o R /\ R \in Seq(Item)
  <2>0. m \in Seq(Item)
    BY <1>2 DEF M
  <2> DEFINE Gb == G \o b
             Gbh == Gb \o h
  <2>1. Gb \in Seq(Item) /\ (m \o G) \o b = m \o Gb
    BY <1>5, <2>0, ConcatProperties, ConcatAssociative
  <2> HIDE DEF Gb
  <2>2. Gbh \in Seq(Item) /\ (m \o Gb) \o h = m \o Gbh
    <3>1. m \in Seq(Item) /\ Gb \in Seq(Item) /\ h \in Seq(Item)
      BY <1>5, <2>0, <2>1
    <3>2. (m \o Gb) \o h = m \o (Gb \o h)
      BY <3>1, ConcatAssociative
    <3>3. Gb \o h \in Seq(Item)
      BY <3>1, ConcatProperties
    <3>q. QED
      BY <3>2, <3>3
  <2> HIDE DEF Gbh
  <2>3. Gbh \o w \in Seq(Item) /\ (m \o Gbh) \o w = m \o (Gbh \o w)
    <3>1. m \in Seq(Item) /\ Gbh \in Seq(Item) /\ w \in Seq(Item)
      BY <1>5, <2>0, <2>2
    <3>2. (m \o Gbh) \o w = m \o (Gbh \o w)
      BY <3>1, ConcatAssociative
    <3>3. Gbh \o w \in Seq(Item)
      BY <3>1, ConcatProperties
    <3>q. QED
      BY <3>2, <3>3
  <2>q. QED
    BY <2>1, <2>2, <2>3 DEF Gb, Gbh
<1> HIDE DEF R
<1>8. Held = m \o R
  BY <1>4, <1>6, <1>7
<1>9. SubSeq(Held, Len(m) + 1, Len(Held)) = R
  BY <1>2, <1>7, <1>8, JoinFacts DEF M
<1>10. Len(m) \in 1 .. Len(Held)
  BY <1>2, <1>3, <1>7, <1>8 DEF M
<1>q. QED
  BY <1>6, <1>9, <1>10 DEF Fifo!Deliver, Held

(* Every step of the pipeline is one of the FIFO or leaves it as it is.     *)
LEMMA FifoStep ==
    ASSUME QueuesTypeOK, Room, [Next]_vars
    PROVE  [Fifo!Next]_<<Held, taken, uiOpen>>
<1>1. ASSUME NEW sample \in BOOLEAN, Accept(sample), accepted < MaxItems,
             UNCHANGED <<uq, batch, hand, taken, uiOpen>>
      PROVE  Fifo!Next
  BY <1>1, AcceptMaps DEF Fifo!Next
<1>2. CASE UNCHANGED <<uq, batch, hand, wq, taken, uiOpen>>
  BY <1>2 DEF Held
<1>3. ASSUME NEW s \in Senders, SendSample(s) \/ SendEvent(s) \/ Unblocks(s) \/ SendFails(s)
      PROVE  [Fifo!Next]_<<Held, taken, uiOpen>>
  <2>1. UNCHANGED <<uq, batch, hand, taken, uiOpen>>
    BY <1>3 DEF SendSample, SendEvent, Unblocks, SendFails, bufferVars, uiVars
  <2>2. \/ wq' = wq
        \/ \E sample \in BOOLEAN : Accept(sample)
    BY <1>3 DEF SendSample, SendEvent, Unblocks, SendFails
  <2>3. CASE wq' = wq
    BY <1>2, <2>1, <2>3
  <2>4. CASE wq' # wq
    <3>1. PICK sample \in BOOLEAN : Accept(sample)
      BY <2>2, <2>4
    <3>2. accepted' = accepted + 1
      BY <3>1 DEF Accept
    <3>3. accepted \in Nat /\ accepted' <= MaxItems /\ MaxItems \in Nat
      <4>1. Room' /\ QueuesTypeOK'
        BY <1>3, RoomKept, SenderTypes
      <4>2. Cardinality(blocked') \in Nat /\ accepted' \in Nat
        BY <4>1, FS_CardinalityType DEF Room, QueuesTypeOK
      <4>q. QED
        BY <4>1, <4>2, PipelineAssumption DEF Room, QueuesTypeOK
    <3>q. QED
      BY <1>1, <2>1, <3>1, <3>2, <3>3
  <2>q. QED
    BY <2>3, <2>4
<1>4. CASE BufferStep /\ ~UiGone
  BY <1>4, BufferMaps
<1>5. CASE UiGone
  <2>1. ~uiOpen /\ uiOpen' = uiOpen /\ taken' = taken
    BY <1>5 DEF UiGone, uiVars
  <2>q. QED
    BY <2>1 DEF Fifo!Next, Fifo!Discard
<1>6. CASE TakeMessage
  BY <1>6, TakeMaps DEF Fifo!Next
<1>7. CASE CloseUi
  <2>1. uiOpen' = FALSE /\ taken' = taken
    BY <1>7 DEF CloseUi
  <2>q. QED
    BY <2>1 DEF Fifo!Next, Fifo!Close
<1>8. CASE WorkerEnds \/ Frame \/ DrainEnds \/ UNCHANGED vars
  <2>1. UNCHANGED <<uq, batch, hand, wq, taken, uiOpen>>
    BY <1>8 DEF WorkerEnds, Frame, DrainEnds, vars, bufferVars, uiVars
  <2>q. QED
    BY <1>2, <2>1
<1>q. QED
  BY <1>3, <1>4, <1>5, <1>6, <1>7, <1>8 DEF Next

(* FifoImplemented for any senders, capacities and batch size: the two      *)
(* channels and the buffer thread between them are one bounded FIFO.        *)
THEOREM OneFifo == Spec => FifoImplemented
<1>1. Init => Fifo!Init /\ Room
  <2> SUFFICES ASSUME Init
               PROVE  Fifo!Init /\ Room
    OBVIOUS
  <2>1. uq = <<>> /\ batch = <<>> /\ hand = <<>> /\ wq = <<>>
    BY DEF Init
  <2>2. FlattenSeq(uq) = <<>> /\ <<>> \o <<>> \o <<>> \o <<>> = <<>>
    BY <2>1 DEF FlattenSeq
  <2>3. Fifo!Init
    BY <2>1, <2>2 DEF Fifo!Init, Init
  <2>4. IsFiniteSet({}) /\ Cardinality({}) = 0 /\ MaxItems \in Nat
    BY FS_EmptySet, PipelineAssumption
  <2>5. blocked = {} /\ accepted = 0 /\ draining = FALSE
    BY DEF Init
  <2>6. Room
    BY <2>1, <2>4, <2>5 DEF Room
  <2>q. QED
    BY <2>3, <2>6
<1>2. TypeOK /\ Room /\ [Next]_vars => Room' /\ [Fifo!Next]_<<Held, taken, uiOpen>>
  BY RoomKept, FifoStep DEF TypeOK
<1>3. Spec => Fifo!Init /\ [][Fifo!Next]_<<Held, taken, uiOpen>>
  BY <1>1, <1>2, PipelineTypes, PTL DEF Spec
<1>q. QED
  BY <1>3 DEF FifoImplemented, Fifo!Spec, Held
=============================================================================
