---------------------------- MODULE TransferProofs ----------------------------
(***************************************************************************)
(* Proofs about Transfer, for any topics, publishers, sizes and limits.    *)
(***************************************************************************)
EXTENDS Transfer, SumLemmas, TLAPS

(* The chunk loops: what is left to send is a chunk of the payload, and no  *)
(* two loops send the same publication.                                     *)
SendingOK ==
    /\ now \in Nat /\ published \in Nat
    /\ sending = [p \in Publishers |-> sending[p]]
    /\ \A p \in Publishers : \A job \in sending[p] :
        /\ sending[p] = {job}
        /\ job \in Job /\ job.id <= published
        /\ job.next < ChunkCount(job.size)
    /\ \A p, q \in Publishers : \A j \in sending[p], k \in sending[q] :
        j.id = k.id => p = q

(* The stored chunks are parts of their generation, of a known topic.       *)
ChunksOK ==
    \A c \in chunks :
        /\ c.topic \in Topics
        /\ c.total \in Nat /\ c.index \in Indices(c)
        /\ c.at \in Nat

(* The last chunk of an undisturbed run is of the publication whose loop    *)
(* may go on with it.                                                       *)
RunsOn(r, job) ==
    job.id = r.from =>
        job.topic = r.topic /\ job.size = r.size /\ ChunkCount(job.size) = r.total

StreakOK ==
    /\ streak = [t \in Topics |-> streak[t]]
    /\ \A t \in Topics : \A r \in streak[t] :
        /\ streak[t] = {r}
        /\ r.topic = t
        /\ r.total \in Nat /\ r.index \in Indices(r)
        /\ r.at \in Nat
        /\ r.from \in Nat /\ r.from <= published
        /\ \A p \in Publishers : \A job \in sending[p] : RunsOn(r, job)

(* While the run may go on, or once it is complete, its chunks are stored.  *)
Lives(r) == now - r.at < StaleAge \/ r.index = r.total - 1
Part(c, r, i) == SameGeneration(c, r) /\ c.index = i /\ c.from = r.from
Held(r) ==
    /\ r \in chunks
    /\ \A i \in 0 .. r.index : \E c \in chunks : Part(c, r, i)
StreakHeld == \A t \in Topics : \A r \in streak[t] : Lives(r) => Held(r)

RunInv == SendingOK /\ ChunksOK /\ StreakOK /\ StreakHeld

-----------------------------------------------------------------------------
(* Rounding up: the chunks cover the size and all but the last do not.      *)
LEMMA RoundsUp ==
    ASSUME NEW size \in Nat
    PROVE  /\ ChunkCount(size) \in Nat
           /\ size <= ChunkCount(size) * ChunkSize
           /\ size > 0 => size > (ChunkCount(size) - 1) * ChunkSize
<1> DEFINE n == size + ChunkSize - 1
           q == n \div ChunkSize
<1>1. ChunkSize \in Nat /\ ChunkSize > 0 /\ n \in Nat
  BY TransferAssumption
<1>2. /\ q \in Int
      /\ ChunkSize * q <= n
      /\ n < ChunkSize * q + ChunkSize
  <2> HIDE DEF n
  <2>q. QED
    BY <1>1
<1>3. q >= 0
  <2>1. n < ChunkSize * (q + 1)
    BY <1>1, <1>2
  <2>2. q + 1 > 0
    <3> SUFFICES ASSUME q + 1 <= 0
                 PROVE  FALSE
      BY <1>2
    <3>1. ChunkSize * (q + 1) <= 0
      BY <1>1, <1>2
    <3>q. QED
      BY <1>1, <1>2, <2>1, <3>1
  <2>q. QED
    BY <1>2, <2>2
<1>4. ChunkCount(size) = q
  BY DEF ChunkCount
<1>5. q * ChunkSize = ChunkSize * q /\ (q - 1) * ChunkSize = ChunkSize * q - ChunkSize
  BY <1>1, <1>2
<1>q. QED
  BY <1>1, <1>2, <1>3, <1>4, <1>5

(* What the chunk loop puts passes the receiver's check.                    *)
LEMMA SplitIsSane ==
    ASSUME NEW job \in Job, job.next < ChunkCount(job.size)
    PROVE  LET c == ChunkOf(job, job.next)
           IN /\ IsSane(c)
              /\ c.total \in Nat /\ c.index \in Indices(c)
              /\ c.topic = job.topic /\ c.size = job.size
              /\ c.total = ChunkCount(job.size) /\ c.index = job.next
              /\ c.from = job.id /\ c.at = now
<1> DEFINE c == ChunkOf(job, job.next)
<1>1. job.size \in Nat /\ job.next \in Nat
  BY TransferAssumption DEF Job
<1>2. /\ c.topic = job.topic /\ c.size = job.size
      /\ c.total = ChunkCount(job.size) /\ c.index = job.next
      /\ c.from = job.id /\ c.at = now
  BY DEF ChunkOf
<1>3. ChunkSize \in Nat
  BY TransferAssumption
<1> DEFINE size == job.size
           total == ChunkCount(job.size)
<1>4. total \in Nat /\ size <= total * ChunkSize
      /\ (size > 0 => size > (total - 1) * ChunkSize)
  BY <1>1, RoundsUp
<1>5. total > 0
  BY <1>1, <1>4
<1>6. size > (total - 1) * ChunkSize
  <2>1. CASE size > 0
    BY <1>4, <2>1
  <2>2. CASE size = 0
    <3>1. total = 0
      <4>1. ChunkSize > 0
        BY TransferAssumption
      <4>2. (ChunkSize - 1) \div ChunkSize = 0
        BY <1>3, <4>1
      <4>q. QED
        BY <1>3, <2>2, <4>2 DEF ChunkCount
    <3>q. QED
      BY <1>5, <3>1
  <2>q. QED
    BY <1>1, <2>1, <2>2
<1>7. IsSane(c)
  <2> HIDE DEF c
  <2>q. QED
    BY <1>1, <1>2, <1>4, <1>5, <1>6 DEF IsSane
<1> HIDE DEF c
<1>8. c.total \in Nat /\ c.index \in Indices(c)
  BY <1>1, <1>2, <1>4 DEF Indices
<1>q. QED
  BY <1>2, <1>7, <1>8 DEF c

(* Collecting stale groups spares the group of a run that lives.            *)
LEMMA GcSpares ==
    ASSUME RunInv, NEW t \in Topics, NEW r \in streak[t], Lives(r),
           NEW e \in chunks, SameGeneration(e, r)
    PROVE  e \in AfterGc(chunks)
<1> DEFINE group == GroupOf(chunks, e)
<1>1. Held(r) /\ r \in group
  BY DEF RunInv, StreakHeld, Held, GroupOf, SameGeneration
<1>2. CASE now - r.at < StaleAge
  <2>1. ~(now - r.at >= StaleAge)
    BY <1>2, TransferAssumption DEF RunInv, StreakOK, SendingOK
  <2>q. QED
    BY <1>1, <2>1 DEF AfterGc, IsStale
<1>3. CASE r.index = r.total - 1
  <2>1. e.total = r.total /\ r.total \in Nat
    BY DEF SameGeneration, RunInv, StreakOK
  <2>2. ASSUME NEW i \in Indices(e)
        PROVE  \E c \in group : c.index = i
    <3>1. i \in 0 .. r.index
      BY <1>3, <2>1, <2>2 DEF Indices
    <3>q. QED
      BY <1>1, <3>1 DEF Held, Part, GroupOf, SameGeneration
  <2>3. ASSUME NEW c \in group
        PROVE  c.index \in Indices(e)
    BY <2>3 DEF GroupOf, SameGeneration, Indices, RunInv, ChunksOK
  <2>4. HasAll(group, e)
    BY <2>2, <2>3 DEF HasAll
  <2>q. QED
    BY <2>4 DEF AfterGc, IsStale
<1>q. QED
  BY <1>2, <1>3 DEF Lives

(* The loop moves on: the invariant's part about the loops.                 *)
LEMMA AdvanceKeeps ==
    ASSUME SendingOK, NEW p \in Publishers, NEW job \in sending[p], Advance(p, job),
           now' = now, published' = published
    PROVE  /\ SendingOK'
           /\ \A q \in Publishers : \A k \in sending'[q] :
                \E j \in sending[q] : k.id = j.id /\ k.topic = j.topic /\ k.size = j.size
<1> DEFINE more == [job EXCEPT !.next = @ + 1]
<1>1. /\ job \in Job /\ job.id <= published /\ sending[p] = {job}
      /\ now \in Nat /\ published \in Nat
  BY DEF SendingOK
<1>2. /\ more \in Job /\ more.id = job.id /\ more.topic = job.topic
      /\ more.size = job.size /\ more.next = job.next + 1
  BY <1>1 DEF Job
<1> HIDE DEF more
<1>3. sending' = [q \in Publishers |->
        IF q = p THEN IF job.next + 1 < ChunkCount(job.size) THEN {more} ELSE {}
        ELSE sending[q]]
  BY DEF Advance, SendingOK, more
<1>4. ASSUME NEW q \in Publishers, NEW k \in sending'[q]
      PROVE  /\ sending'[q] = {k}
             /\ k \in Job /\ k.id <= published /\ k.next < ChunkCount(k.size)
             /\ \E j \in sending[q] : k.id = j.id /\ k.topic = j.topic /\ k.size = j.size
  <2>1. CASE q = p
    <3>1. k = more /\ job.next + 1 < ChunkCount(job.size) /\ sending'[q] = {more}
      BY <1>3, <1>4, <2>1
    <3>q. QED
      BY <1>1, <1>2, <2>1, <3>1
  <2>2. CASE q # p
    BY <1>3, <1>4, <2>2 DEF SendingOK
  <2>q. QED
    BY <2>1, <2>2
<1>5. ASSUME NEW q \in Publishers, NEW s \in Publishers,
             NEW j \in sending'[q], NEW k \in sending'[s], j.id = k.id
      PROVE  q = s
  BY <1>4, <1>5 DEF SendingOK
<1>q. QED
  BY <1>1, <1>3, <1>4, <1>5 DEF SendingOK

(* A chunk that arrives.                                                    *)
LEMMA ArrivalKeeps ==
    ASSUME RunInv, NEW p \in Publishers, ChunkArrives(p)
    PROVE  RunInv'
<1>1. PICK job \in sending[p] :
        LET c == ChunkOf(job, job.next)
        IN /\ chunks' = InsertChunk(c)
           /\ Streak(c)
           /\ Advance(p, job)
           /\ UNCHANGED <<now, published, plain>>
  BY DEF ChunkArrives
<1> DEFINE c == ChunkOf(job, job.next)
<1>2. /\ job \in Job /\ job.next < ChunkCount(job.size)
      /\ job.topic \in Topics /\ job.id \in Nat /\ job.id <= published /\ now \in Nat
  BY DEF RunInv, SendingOK, Job
<1>3. /\ IsSane(c)
      /\ c.total \in Nat /\ c.index \in Indices(c)
      /\ c.topic = job.topic /\ c.size = job.size
      /\ c.total = ChunkCount(job.size) /\ c.index = job.next
      /\ c.from = job.id /\ c.at = now
  BY <1>2, SplitIsSane
<1> HIDE DEF c
<1>4. /\ chunks' = {d \in AfterPurge(AfterGc(chunks), c) :
                        d.topic = c.topic => d.index # c.index} \cup {c}
      /\ now' = now /\ published' = published
  BY <1>1, <1>3 DEF c, InsertChunk
<1>5. SendingOK'
  BY <1>1, AdvanceKeeps DEF RunInv
<1>6. ChunksOK'
  <2>1. \A d \in chunks' : d \in chunks \/ d = c
    BY <1>4 DEF AfterPurge, AfterGc
  <2>q. QED
    BY <1>2, <1>3, <2>1 DEF RunInv, ChunksOK, Indices
<1> DEFINE Continues(r) == /\ r.from = c.from
                           /\ r.index = c.index - 1
                           /\ now - r.at < StaleAge
<1>7. streak' = [t \in Topics |->
        IF t # c.topic THEN streak[t]
        ELSE IF c.index = 0 \/ \E r \in streak[t] : Continues(r) THEN {c} ELSE {}]
  BY <1>1 DEF c, Streak, RunInv, StreakOK
<1>8. ASSUME NEW t \in Topics, NEW r \in streak'[t], t # c.topic
      PROVE  r \in streak[t] /\ streak'[t] = streak[t]
  BY <1>7, <1>8
<1>9. ASSUME NEW r \in streak'[c.topic]
      PROVE  /\ r = c /\ streak'[c.topic] = {c}
             /\ c.index = 0 \/ \E s \in streak[c.topic] : Continues(s)
  BY <1>2, <1>3, <1>7, <1>9
<1>10. StreakOK'
  <2>1. ASSUME NEW t \in Topics, NEW r \in streak'[t]
        PROVE  /\ streak'[t] = {r}
               /\ r.topic = t
               /\ r.total \in Nat /\ r.index \in Indices(r)
               /\ r.at \in Nat
               /\ r.from \in Nat /\ r.from <= published
    BY <1>2, <1>3, <1>8, <1>9, <2>1 DEF RunInv, StreakOK, Indices
  <2>2. ASSUME NEW t \in Topics, NEW r \in streak'[t],
               NEW q \in Publishers, NEW k \in sending'[q]
        PROVE  RunsOn(r, k)
    <3>1. PICK j \in sending[q] : k.id = j.id /\ k.topic = j.topic /\ k.size = j.size
      BY <1>1, <2>2, AdvanceKeeps DEF RunInv
    <3>2. CASE t # c.topic
      <4>1. r \in streak[t]
        BY <1>8, <2>2, <3>2
      <4>2. RunsOn(r, j)
        BY <3>1, <4>1 DEF RunInv, StreakOK
      <4>q. QED
        BY <3>1, <4>2 DEF RunsOn
    <3>3. CASE t = c.topic
      <4>1. r = c
        BY <1>9, <2>2, <3>3
      <4>2. j.id = job.id => j = job
        BY <1>1 DEF RunInv, SendingOK
      <4>q. QED
        BY <1>3, <3>1, <4>1, <4>2 DEF RunsOn
    <3>q. QED
      BY <3>2, <3>3
  <2>q. QED
    BY <1>4, <1>7, <2>1, <2>2 DEF StreakOK
<1>11. ASSUME NEW t \in Topics, NEW r \in streak[t], Lives(r),
              NEW e \in chunks, SameGeneration(e, r),
              e.topic = c.topic => SameGeneration(e, c) /\ e.index # c.index
       PROVE  e \in chunks'
  BY <1>4, <1>11, GcSpares DEF AfterPurge
<1>12. ASSUME NEW t \in Topics, NEW r \in streak'[t], t # c.topic, Lives(r)
       PROVE  Held(r)'
  <2>1. r \in streak[t] /\ r.topic = t /\ Held(r)
    BY <1>8, <1>12 DEF RunInv, StreakOK, StreakHeld
  <2>2. ASSUME NEW e \in chunks, SameGeneration(e, r)
        PROVE  e \in chunks'
    BY <1>11, <1>12, <2>1, <2>2 DEF SameGeneration
  <2>q. QED
    BY <2>1, <2>2 DEF Held, Part, SameGeneration
<1>13. ASSUME NEW r \in streak'[c.topic]
       PROVE  Held(r)'
  <2>1. r = c /\ c \in chunks'
    BY <1>4, <1>9, <1>13
  <2>2. ASSUME NEW i \in 0 .. c.index
        PROVE  \E d \in chunks' : Part(d, c, i)
    <3>1. CASE i = c.index
      BY <2>1, <3>1 DEF Part, SameGeneration
    <3>2. CASE i # c.index
      <4>1. c.index \in Nat /\ i \in 0 .. c.index - 1
        BY <1>3, <2>2, <3>2 DEF Indices
      <4>2. PICK s \in streak[c.topic] : Continues(s)
        BY <1>9, <1>13, <4>1
      <4>3. SameGeneration(c, s)
        BY <1>1, <1>2, <1>3, <4>2 DEF RunInv, StreakOK, RunsOn, SameGeneration
      <4>4. PICK d \in chunks : Part(d, s, i)
        BY <1>2, <1>3, <4>1, <4>2 DEF RunInv, StreakHeld, Held, Lives
      <4>5. d \in chunks'
        BY <1>2, <1>3, <1>11, <3>2, <4>2, <4>3, <4>4 DEF Part, SameGeneration, Lives
      <4>q. QED
        BY <4>2, <4>3, <4>4, <4>5 DEF Part, SameGeneration
    <3>q. QED
      BY <3>1, <3>2
  <2>q. QED
    BY <2>1, <2>2 DEF Held
<1>14. StreakHeld'
  BY <1>4, <1>12, <1>13 DEF StreakHeld, Lives
<1>q. QED
  BY <1>5, <1>6, <1>10, <1>14 DEF RunInv

-----------------------------------------------------------------------------
(* Time, which can only end the life of a run.                              *)
LEMMA TickKeeps ==
    ASSUME RunInv, Tick
    PROVE  RunInv'
<1>1. /\ now' = now + 1 /\ now \in Nat
      /\ UNCHANGED <<published, sending, chunks, streak>>
  BY DEF Tick, RunInv, SendingOK
<1>2. SendingOK' /\ ChunksOK' /\ StreakOK'
  BY <1>1 DEF RunInv, SendingOK, ChunksOK, StreakOK
<1>3. \A t \in Topics : \A r \in streak[t] : Lives(r)' => Lives(r)
  BY <1>1, TransferAssumption DEF RunInv, StreakOK, Lives
<1>4. StreakHeld'
  BY <1>1, <1>3 DEF RunInv, StreakHeld, Held
<1>q. QED
  BY <1>2, <1>4 DEF RunInv

(* A publication that begins, whole or in chunks, has a number of its own.  *)
LEMMA BeginKeeps ==
    ASSUME RunInv, NEW p \in Publishers, NEW topic \in Topics, NEW size \in Sizes,
           PublishWhole(p, topic, size) \/ BeginChunks(p, topic, size)
    PROVE  RunInv'
<1> DEFINE job == [topic |-> topic, size |-> size, id |-> published + 1, next |-> 0]
<1>1. /\ published \in Nat /\ published' = published + 1
      /\ UNCHANGED <<now, chunks, streak>>
  BY DEF PublishWhole, BeginChunks, RunInv, SendingOK
<1>2. \/ sending' = sending
      \/ /\ sending' = [sending EXCEPT ![p] = {job}]
         /\ IsChunked(size)
  BY DEF PublishWhole, BeginChunks
<1>3. /\ job \in Job /\ job.id = published + 1 /\ job.next = 0 /\ job.size = size
  BY <1>1 DEF Job
<1> HIDE DEF job
<1>4. IsChunked(size) => job.next < ChunkCount(job.size)
  <2>1. size \in Nat /\ ChunkSize \in Nat
    BY TransferAssumption
  <2>2. ChunkCount(size) \in Nat /\ size <= ChunkCount(size) * ChunkSize
    BY <2>1, RoundsUp
  <2>3. IsChunked(size) => ChunkCount(size) # 0
    BY <2>1, <2>2 DEF IsChunked
  <2>q. QED
    BY <1>3, <2>2, <2>3
<1>5. ASSUME NEW q \in Publishers, NEW k \in sending'[q]
      PROVE  \/ k \in sending[q] /\ sending'[q] = sending[q]
             \/ /\ q = p /\ k = job /\ sending'[q] = {job}
                /\ job.next < ChunkCount(job.size)
  BY <1>2, <1>4, <1>5 DEF RunInv, SendingOK
<1>6. SendingOK'
  <2>1. sending' = [q \in Publishers |-> sending'[q]]
    BY <1>2 DEF RunInv, SendingOK
  <2>2. ASSUME NEW q \in Publishers, NEW k \in sending'[q]
        PROVE  /\ sending'[q] = {k}
               /\ k \in Job /\ k.id <= published'
               /\ k.next < ChunkCount(k.size)
    <3>1. CASE k \in sending[q] /\ sending'[q] = sending[q]
      <4>1. /\ sending[q] = {k} /\ k \in Job /\ k.id <= published
            /\ k.next < ChunkCount(k.size)
        BY <3>1 DEF RunInv, SendingOK
      <4>2. k.id \in Nat
        BY <4>1 DEF Job
      <4>q. QED
        BY <1>1, <3>1, <4>1, <4>2
    <3>q. QED
      BY <1>1, <1>3, <1>5, <2>2, <3>1
  <2>3. ASSUME NEW q \in Publishers, NEW s \in Publishers,
               NEW j \in sending'[q], NEW k \in sending'[s], j.id = k.id
        PROVE  q = s
    <3>1. \A r \in Publishers : \A l \in sending[r] : l.id \in Nat /\ l.id <= published
      BY DEF RunInv, SendingOK, Job
    <3>2. CASE j \in sending[q] /\ k \in sending[s]
      BY <2>3, <3>2 DEF RunInv, SendingOK
    <3>3. CASE j \in sending[q] /\ k = job
      BY <1>1, <1>3, <2>3, <3>1, <3>3
    <3>4. CASE j = job /\ k \in sending[s]
      BY <1>1, <1>3, <2>3, <3>1, <3>4
    <3>q. QED
      BY <1>5, <2>3, <3>2, <3>3, <3>4
  <2>q. QED
    BY <1>1, <2>1, <2>2, <2>3 DEF RunInv, SendingOK
<1>7. StreakOK'
  <2>1. ASSUME NEW t \in Topics, NEW r \in streak[t],
               NEW q \in Publishers, NEW k \in sending'[q]
        PROVE  RunsOn(r, k)
    <3>1. CASE k \in sending[q]
      BY <3>1 DEF RunInv, StreakOK
    <3>2. CASE k = job
      BY <1>1, <1>3, <3>2 DEF RunInv, StreakOK, RunsOn
    <3>q. QED
      BY <1>5, <2>1, <3>1, <3>2
  <2>2. \A t \in Topics : \A r \in streak[t] : r.from \in Nat /\ r.from <= published'
    BY <1>1 DEF RunInv, StreakOK
  <2>q. QED
    BY <1>1, <2>1, <2>2 DEF RunInv, StreakOK
<1>8. ChunksOK' /\ StreakHeld'
  BY <1>1 DEF RunInv, ChunksOK, StreakHeld, Held, Lives
<1>q. QED
  BY <1>6, <1>7, <1>8 DEF RunInv

(* A chunk that is lost, and a loop that gives up.                          *)
LEMMA LossKeeps ==
    ASSUME RunInv, NEW p \in Publishers, ChunkLost(p) \/ PutFails(p)
    PROVE  RunInv'
<1>1. UNCHANGED <<now, published, chunks, streak>>
  BY DEF ChunkLost, PutFails
<1>2. /\ SendingOK'
      /\ \A q \in Publishers : \A k \in sending'[q] :
            \E j \in sending[q] : k.id = j.id /\ k.topic = j.topic /\ k.size = j.size
  <2>1. CASE ChunkLost(p)
    BY <1>1, <2>1, AdvanceKeeps DEF ChunkLost, RunInv
  <2>2. CASE PutFails(p)
    BY <1>1, <2>2 DEF PutFails, RunInv, SendingOK
  <2>q. QED
    BY <2>1, <2>2
<1>3. StreakOK'
  <2>1. ASSUME NEW t \in Topics, NEW r \in streak[t],
               NEW q \in Publishers, NEW k \in sending'[q]
        PROVE  RunsOn(r, k)
    <3>1. PICK j \in sending[q] : k.id = j.id /\ k.topic = j.topic /\ k.size = j.size
      BY <1>2, <2>1
    <3>2. RunsOn(r, j)
      BY <3>1 DEF RunInv, StreakOK
    <3>q. QED
      BY <3>1, <3>2 DEF RunsOn
  <2>q. QED
    BY <1>1, <2>1 DEF RunInv, StreakOK
<1>4. ChunksOK' /\ StreakHeld'
  BY <1>1 DEF RunInv, ChunksOK, StreakHeld, Held, Lives
<1>q. QED
  BY <1>2, <1>3, <1>4 DEF RunInv

(* The invariant holds of every behaviour.                                  *)
LEMMA RunsAreHeld == Spec => []RunInv
<1>1. Init => RunInv
  BY DEF Init, RunInv, SendingOK, ChunksOK, StreakOK, StreakHeld
<1>2. ASSUME RunInv, [Next]_vars
      PROVE  RunInv'
  <2>1. CASE UNCHANGED vars
    BY <1>2, <2>1 DEF vars, RunInv, SendingOK, ChunksOK, StreakOK, StreakHeld,
                      Held, Lives
  <2>q. QED
    BY <1>2, <2>1, TickKeeps, BeginKeeps, ArrivalKeeps, LossKeeps DEF Next
<1>q. QED
  BY <1>1, <1>2, PTL DEF Spec

(* UndisturbedSavable for any number of topics and publishers, any sizes    *)
(* and any age: what arrived of one publication, in turn and in time, is    *)
(* kept, and for good once it is complete.                                  *)
THEOREM UndisturbedIsKept == Spec => []UndisturbedSavable
<1>1. RunInv => UndisturbedSavable
  BY DEF RunInv, StreakHeld, UndisturbedSavable, Lives, Held, Part
<1>q. QED
  BY <1>1, RunsAreHeld, PTL

-----------------------------------------------------------------------------
(* The tree has a state for every topic.                                    *)
TreeKeys == transfer = [t \in Topics |-> transfer[t]]

(* A chunk is entered in the tree's state of its topic first; what the      *)
(* store then keeps of the topic is of the same generation.                 *)
LEMMA TreeFirst ==
    ASSUME SendingOK, TreeKeys, StoreWithinTree,
           NEW p \in Publishers, ChunkArrives(p)
    PROVE  TreeKeys' /\ StoreWithinTree'
<1>1. PICK job \in sending[p] :
        LET c == ChunkOf(job, job.next)
        IN /\ RecordChunk(c)
           /\ chunks' = InsertChunk(c)
  BY DEF ChunkArrives
<1> DEFINE c == ChunkOf(job, job.next)
           new == [size |-> c.size, total |-> c.total,
                   received |-> {c.index} \cup
                                UNION {t.received : t \in SameTransfer(c)}]
<1>2. c.topic = job.topic /\ c.topic \in Topics
  BY DEF SendingOK, ChunkOf, Job
<1>3. TreeKeys'
  BY <1>1 DEF RecordChunk, TreeKeys
<1> HIDE DEF c
<1>4. CASE ~IsSane(c)
  <2>1. transfer' = transfer /\ chunks' \subseteq chunks
    BY <1>1, <1>4 DEF c, RecordChunk, InsertChunk, AfterGc
  <2>q. QED
    BY <1>3, <2>1 DEF StoreWithinTree
<1>5. CASE IsSane(c)
  <2>1. /\ transfer'[c.topic] = {new}
        /\ \A t \in Topics : t # c.topic => transfer'[t] = transfer[t]
    BY <1>1, <1>2, <1>5 DEF c, RecordChunk, TreeKeys
  <2>2. /\ new.size = c.size /\ new.total = c.total /\ c.index \in new.received
        /\ \A t \in SameTransfer(c) : t.received \subseteq new.received
    OBVIOUS
  <2> HIDE DEF new
  <2>3. ASSUME NEW d \in chunks'
        PROVE  \/ d = c
               \/ d \in chunks /\ (d.topic = c.topic => SameGeneration(d, c))
    BY <1>1, <1>5, <2>3 DEF c, InsertChunk, AfterPurge, AfterGc
  <2>4. ASSUME NEW d \in chunks, SameGeneration(d, c)
        PROVE  d.index \in new.received /\ d.size = c.size /\ d.total = c.total
    <3>1. PICK t \in transfer[c.topic] :
            t.size = c.size /\ t.total = c.total /\ d.index \in t.received
      BY <2>4 DEF StoreWithinTree, SameGeneration
    <3>2. t \in SameTransfer(c)
      BY <3>1 DEF SameTransfer
    <3>q. QED
      BY <2>2, <2>4, <3>1, <3>2 DEF SameGeneration
  <2>5. ASSUME NEW d \in chunks'
        PROVE  \E t \in transfer'[d.topic] :
                    t.size = d.size /\ t.total = d.total /\ d.index \in t.received
    <3>1. CASE d.topic = c.topic
      BY <2>1, <2>2, <2>3, <2>4, <2>5, <3>1
    <3>2. CASE d.topic # c.topic
      BY <1>1, <2>3, <2>5, <3>2 DEF c, RecordChunk, StoreWithinTree, TreeKeys
    <3>q. QED
      BY <3>1, <3>2
  <2>q. QED
    BY <1>3, <2>5 DEF StoreWithinTree
<1>q. QED
  BY <1>4, <1>5

(* StoreWithinTree for any traffic: whatever transfers of a topic meet, the *)
(* tree's progress accounts for every chunk the store holds, and both are   *)
(* of one generation.                                                       *)
THEOREM ProgressCoversStore == Spec => []StoreWithinTree
<1>1. Init => TreeKeys /\ StoreWithinTree
  BY DEF Init, TreeKeys, StoreWithinTree
<1>2. ASSUME SendingOK, TreeKeys, StoreWithinTree, [Next]_vars
      PROVE  TreeKeys' /\ StoreWithinTree'
  <2>1. CASE UNCHANGED <<transfer, chunks>>
    BY <1>2, <2>1 DEF TreeKeys, StoreWithinTree
  <2>2. CASE \E p \in Publishers : ChunkArrives(p)
    BY <1>2, <2>2, TreeFirst
  <2>q. QED
    BY <1>2, <2>1, <2>2
       DEF Next, vars, Tick, PublishWhole, BeginChunks, ChunkLost, PutFails
<1>3. RunInv => SendingOK
  BY DEF RunInv
<1>q. QED
  BY <1>1, <1>2, <1>3, RunsAreHeld, PTL DEF Spec

-----------------------------------------------------------------------------
(* The types, part by part.                                                 *)
LoopTypes ==
    /\ sending \in [Publishers -> SUBSET Job]
    /\ \A p \in Publishers :
        /\ AtMostOne(sending[p])
        /\ \A job \in sending[p] :
            IsChunked(job.size) /\ job.next < ChunkCount(job.size)
PlainTypes ==
    /\ plain \subseteq Plain
    /\ \A e, f \in plain : e.topic = f.topic => e = f
    /\ \A e \in plain : e.at <= now
ChunkTypes ==
    /\ chunks \subseteq Chunk
    /\ \A c, d \in chunks : SameGeneration(c, d) /\ c.index = d.index => c = d
    /\ \A c \in chunks : c.at <= now
TreeTypes ==
    /\ transfer \in [Topics -> SUBSET Progress]
    /\ \A t \in Topics : AtMostOne(transfer[t])
StreakTypes ==
    /\ streak \in [Topics -> SUBSET Chunk]
    /\ \A t \in Topics : AtMostOne(streak[t])

(* What the chunks are cut to, which the types do not say.                  *)
CutOK == \A c \in chunks : IsSane(c) /\ c.len = CutLength(c.size, c.index)

TypesInv ==
    /\ now \in Nat /\ published \in Nat
    /\ LoopTypes /\ PlainTypes /\ ChunkTypes /\ TreeTypes /\ StreakTypes
    /\ CutOK

(* The parts say what TypeOK says.                                          *)
LEMMA TypesParts == TypesInv => TypeOK
<1> SUFFICES ASSUME TypesInv
             PROVE  TypeOK
  OBVIOUS
<1>1. \A t \in Topics : AtMostOne(StoredAt(t))
  BY DEF TypesInv, PlainTypes, AtMostOne, StoredAt
<1>2. \A e \in plain \cup chunks : e.at <= now
  BY DEF TypesInv, PlainTypes, ChunkTypes
<1>q. QED
  BY <1>1, <1>2 DEF TypesInv, TypeOK, LoopTypes, PlainTypes, ChunkTypes, TreeTypes,
                    StreakTypes

(* A product grows with its factor.                                         *)
LEMMA TimesGrows ==
    ASSUME NEW a \in Nat, NEW b \in Nat, NEW n \in Nat, a <= b
    PROVE  a * n <= b * n /\ a * n \in Nat /\ b * n \in Nat
<1>1. b * n = a * n + (b - a) * n
  OBVIOUS
<1>2. (b - a) \in Nat /\ (b - a) * n >= 0 /\ a * n \in Nat /\ b * n \in Nat
  OBVIOUS
<1>q. QED
  BY <1>1, <1>2

(* The cut of a chunk of a sane generation: whole, but for the last one,    *)
(* which has the rest.                                                      *)
LEMMA CutIsRest ==
    ASSUME NEW size \in Nat, NEW total \in Nat, NEW index \in 0 .. total - 1,
           size <= total * ChunkSize, size > (total - 1) * ChunkSize
    PROVE  /\ index * ChunkSize \in Nat
           /\ CutLength(size, index) =
                IF index = total - 1 THEN size - index * ChunkSize ELSE ChunkSize
           /\ CutLength(size, index) \in Nat
<1> DEFINE rest == size - index * ChunkSize
<1>1. ChunkSize \in Nat /\ ChunkSize > 0 /\ index \in Nat /\ total - 1 \in Nat
  BY TransferAssumption
<1>2. index * ChunkSize \in Nat /\ index * ChunkSize <= (total - 1) * ChunkSize
      /\ (total - 1) * ChunkSize \in Nat
  BY <1>1, TimesGrows
<1>3. rest \in Nat /\ rest > 0
  BY <1>1, <1>2
<1>4. index = total - 1 => rest <= ChunkSize
  <2>1. (total - 1) * ChunkSize = total * ChunkSize - ChunkSize
    BY <1>1
  <2>2. total * ChunkSize \in Nat
    BY <1>1
  <2>q. QED
    BY <1>1, <1>2, <2>1, <2>2
<1>5. index # total - 1 => rest > ChunkSize
  <2> SUFFICES ASSUME index # total - 1
               PROVE  rest > ChunkSize
    OBVIOUS
  <2>1. (index + 1) * ChunkSize <= (total - 1) * ChunkSize
    BY <1>1, TimesGrows
  <2>2. (index + 1) * ChunkSize = index * ChunkSize + ChunkSize
    BY <1>1
  <2>q. QED
    BY <1>1, <1>2, <2>1, <2>2
<1> HIDE DEF rest
<1>6. CutLength(size, index) = Min({ChunkSize, rest})
  BY DEF CutLength, rest
<1>7. /\ Min({ChunkSize, rest}) \in {ChunkSize, rest}
      /\ \A y \in {ChunkSize, rest} : Min({ChunkSize, rest}) <= y
  <2>1. {ChunkSize, rest} \in SUBSET Nat /\ {ChunkSize, rest} # {}
    BY <1>1, <1>3
  <2>q. QED
    BY <2>1, MinIn
<1>8. CutLength(size, index) = (IF index = total - 1 THEN rest ELSE ChunkSize)
      /\ CutLength(size, index) \in Nat
  BY <1>1, <1>3, <1>4, <1>5, <1>6, <1>7
<1>q. QED
  BY <1>2, <1>8 DEF rest

(* What a chunk loop puts is a chunk of its generation.                     *)
LEMMA PutIsChunk ==
    ASSUME now \in Nat, NEW job \in Job, job.next < ChunkCount(job.size)
    PROVE  LET c == ChunkOf(job, job.next)
           IN  /\ c \in Chunk /\ IsSane(c)
               /\ c.len = CutLength(c.size, c.index)
               /\ c.topic = job.topic /\ c.at = now
<1> DEFINE c == ChunkOf(job, job.next)
<1>1. /\ IsSane(c)
      /\ c.total \in Nat /\ c.index \in Indices(c)
      /\ c.topic = job.topic /\ c.size = job.size
      /\ c.total = ChunkCount(job.size) /\ c.index = job.next
      /\ c.from = job.id /\ c.at = now
  BY SplitIsSane
<1>2. c.len = CutLength(c.size, c.index)
  BY <1>1 DEF ChunkOf
<1>3. /\ job.topic \in Topics /\ job.size \in Sizes /\ job.size \in Nat
      /\ job.id \in Nat /\ job.next \in Nat
  BY TransferAssumption DEF Job
<1> HIDE DEF c
<1>4. c.len \in Nat
  BY <1>1, <1>2, <1>3, CutIsRest DEF IsSane, Indices
<1>5. c = [topic |-> c.topic, size |-> c.size, total |-> c.total, index |-> c.index,
           len |-> c.len, from |-> c.from, at |-> c.at]
  BY DEF c, ChunkOf
<1>6. c \in Chunk
  BY <1>1, <1>3, <1>4, <1>5 DEF Chunk
<1>q. QED
  BY <1>1, <1>2, <1>6 DEF c

(* A loop that moves on, gives up or begins.                                *)
LEMMA AdvanceTypes ==
    ASSUME LoopTypes, NEW p \in Publishers, NEW job \in sending[p], Advance(p, job)
    PROVE  LoopTypes'
<1> DEFINE more == [job EXCEPT !.next = @ + 1]
<1>1. job \in Job /\ IsChunked(job.size)
  BY DEF LoopTypes
<1>2. more \in Job /\ more.size = job.size /\ more.next = job.next + 1
  BY <1>1 DEF Job
<1> HIDE DEF more
<1>3. sending' = [q \in Publishers |->
        IF q = p THEN IF job.next + 1 < ChunkCount(job.size) THEN {more} ELSE {}
        ELSE sending[q]]
  BY DEF Advance, LoopTypes, more
<1>q. QED
  BY <1>1, <1>2, <1>3 DEF LoopTypes, AtMostOne

(* A large publication enters the publisher's hand under a new id.          *)
LEMMA BeginTypes ==
    ASSUME TypesInv, NEW p \in Publishers, NEW topic \in Topics, NEW size \in Sizes,
           BeginChunks(p, topic, size)
    PROVE  TypesInv'
<1> DEFINE job == [topic |-> topic, size |-> size, id |-> published + 1, next |-> 0]
<1>1. /\ published \in Nat /\ published' = published + 1
      /\ sending' = [sending EXCEPT ![p] = {job}]
      /\ IsChunked(size)
      /\ UNCHANGED <<now, plain, chunks, transfer, streak>>
  BY DEF BeginChunks, TypesInv
<1>2. job \in Job /\ job.size = size /\ job.next = 0
  BY <1>1 DEF Job
<1> HIDE DEF job
<1>3. 0 < ChunkCount(size)
  <2>1. size \in Nat /\ ChunkSize \in Nat
    BY TransferAssumption
  <2>2. ChunkCount(size) \in Nat /\ size <= ChunkCount(size) * ChunkSize
    BY <2>1, RoundsUp
  <2>3. ChunkCount(size) # 0
    BY <1>1, <2>1, <2>2 DEF IsChunked
  <2>q. QED
    BY <2>2, <2>3
<1>4. LoopTypes'
  <2>1. sending' = [q \in Publishers |-> IF q = p THEN {job} ELSE sending[q]]
    BY <1>1 DEF TypesInv, LoopTypes
  <2>q. QED
    BY <1>1, <1>2, <1>3, <2>1 DEF TypesInv, LoopTypes, AtMostOne
<1>q. QED
  BY <1>1, <1>4 DEF TypesInv, PlainTypes, ChunkTypes, TreeTypes, StreakTypes, CutOK

(* A payload in one piece: of its topic only the new entry is there.        *)
LEMMA PlainEnters ==
    ASSUME NEW e, InsertPlain(e)
    PROVE  \A f \in plain' : f = e \/ (f \in plain /\ f.topic # e.topic)
<1> DEFINE others(stored) == {f \in stored : f.topic # e.topic}
<1>1. CASE e.len > MaxPlainBytes
  <2>1. plain' = others(plain)
    BY <1>1 DEF InsertPlain
  <2>q. QED
    BY <2>1
<1>2. CASE ~(e.len > MaxPlainBytes)
  <2>1. PICK counted \in IF NeedsPlace(plain, e.topic)
                         THEN {plain \ {old} : old \in OldestOf(plain)}
                         ELSE {plain} :
            \E kept \in KeptFor(others(counted), e) : plain' = kept \cup {e}
    BY <1>2 DEF InsertPlain
  <2>2. counted \subseteq plain
    BY <2>1
  <2>3. PICK kept \in SUBSET others(counted) : plain' = kept \cup {e}
    BY <2>1 DEF KeptFor
  <2>q. QED
    BY <2>2, <2>3
<1>q. QED
  BY <1>1, <1>2

(* A small one is stored in place of what its topic had.                    *)
LEMMA WholeTypes ==
    ASSUME TypesInv, NEW p \in Publishers, NEW topic \in Topics, NEW size \in Sizes,
           PublishWhole(p, topic, size)
    PROVE  TypesInv'
<1> DEFINE e == WholeOf(topic, size)
<1>1. /\ published \in Nat /\ now \in Nat /\ published' = published + 1
      /\ InsertPlain(e)
      /\ UNCHANGED <<now, sending, chunks, transfer, streak>>
  BY DEF PublishWhole, TypesInv
<1>2. e \in Plain /\ e.topic = topic /\ e.at = now
  BY <1>1 DEF WholeOf, Plain
<1> HIDE DEF e
<1>3. \A f \in plain' : f = e \/ (f \in plain /\ f.topic # e.topic)
  BY <1>1, PlainEnters
<1>4. PlainTypes'
  BY <1>1, <1>2, <1>3 DEF TypesInv, PlainTypes
<1>q. QED
  BY <1>1, <1>4 DEF TypesInv, LoopTypes, ChunkTypes, TreeTypes, StreakTypes, CutOK

(* A chunk that arrives.                                                    *)
LEMMA ArrivalTypes ==
    ASSUME TypesInv, NEW p \in Publishers, ChunkArrives(p)
    PROVE  TypesInv'
<1>1. PICK job \in sending[p] :
        LET c == ChunkOf(job, job.next)
        IN /\ RecordChunk(c)
           /\ chunks' = InsertChunk(c)
           /\ Streak(c)
           /\ Advance(p, job)
           /\ UNCHANGED <<now, published, plain>>
  BY DEF ChunkArrives
<1> DEFINE c == ChunkOf(job, job.next)
           new == [size |-> c.size, total |-> c.total,
                   received |-> {c.index} \cup
                                UNION {t.received : t \in SameTransfer(c)}]
<1>2. /\ job \in Job /\ job.next < ChunkCount(job.size) /\ job.topic \in Topics
      /\ now \in Nat
  BY DEF TypesInv, LoopTypes, Job
<1>3. /\ c \in Chunk /\ IsSane(c)
      /\ c.len = CutLength(c.size, c.index)
      /\ c.topic = job.topic /\ c.at = now
  BY <1>2, PutIsChunk
<1>4. RecordChunk(c) /\ chunks' = InsertChunk(c) /\ Streak(c)
  BY <1>1
<1> HIDE DEF c
<1>5. LoopTypes'
  BY <1>1, AdvanceTypes DEF TypesInv
<1>6. ASSUME NEW d \in chunks', d # c
      PROVE  d \in chunks /\ ~(SameGeneration(c, d) /\ d.index = c.index)
  BY <1>3, <1>4, <1>6 DEF InsertChunk, AfterPurge, AfterGc, SameGeneration
<1>7. ChunkTypes' /\ CutOK'
  <2>1. chunks' \subseteq Chunk /\ \A d \in chunks' : d.at <= now
    BY <1>2, <1>3, <1>6 DEF TypesInv, ChunkTypes
  <2>2. ASSUME NEW d \in chunks', NEW e \in chunks',
               SameGeneration(d, e), d.index = e.index
        PROVE  d = e
    <3>1. SameGeneration(e, d)
      BY <2>2 DEF SameGeneration
    <3>q. QED
      BY <1>6, <2>2, <3>1 DEF TypesInv, ChunkTypes
  <2>3. CutOK'
    BY <1>3, <1>6 DEF TypesInv, CutOK
  <2>4. now' = now
    BY <1>1
  <2>q. QED
    BY <2>1, <2>2, <2>3, <2>4 DEF ChunkTypes
<1>8. TreeTypes'
  <2>1. c.topic \in Topics /\ c.size \in Sizes /\ c.total \in Nat /\ c.index \in Nat
    BY <1>3 DEF Chunk
  <2>2. transfer \in [Topics -> SUBSET Progress]
    BY DEF TypesInv, TreeTypes
  <2>3. \A t \in SameTransfer(c) : t.received \in SUBSET Nat
    BY <2>1, <2>2 DEF SameTransfer, Progress
  <2>4. new.received \in SUBSET Nat
    BY <2>1, <2>3
  <2>5. new \in Progress
    BY <2>1, <2>4 DEF Progress
  <2>6. transfer' = [transfer EXCEPT ![c.topic] = {new}]
    BY <1>3, <1>4 DEF RecordChunk
  <2> HIDE DEF new
  <2>7. transfer' = [t \in Topics |-> IF t = c.topic THEN {new} ELSE transfer[t]]
    BY <2>2, <2>6
  <2>q. QED
    BY <2>2, <2>5, <2>7 DEF TypesInv, TreeTypes, AtMostOne
<1>9. StreakTypes'
  <2>1. streak \in [Topics -> SUBSET Chunk]
    BY DEF TypesInv, StreakTypes
  <2>2. PICK kept \in {{c}, {}} : streak' = [streak EXCEPT ![c.topic] = kept]
    BY <1>4 DEF Streak
  <2>3. streak' = [t \in Topics |-> IF t = c.topic THEN kept ELSE streak[t]]
    BY <2>1, <2>2
  <2>4. kept \in SUBSET Chunk /\ AtMostOne(kept)
    BY <1>3, <2>2 DEF AtMostOne
  <2>5. streak' \in [Topics -> SUBSET Chunk]
    BY <2>1, <2>3, <2>4
  <2>6. \A t \in Topics : AtMostOne(streak[t])
    BY DEF TypesInv, StreakTypes
  <2>7. \A t \in Topics : AtMostOne(streak'[t])
    BY <2>3, <2>4, <2>6
  <2>q. QED
    BY <2>5, <2>7 DEF StreakTypes
<1>10. PlainTypes' /\ now' \in Nat /\ published' \in Nat
  BY <1>1 DEF TypesInv, PlainTypes
<1>q. QED
  BY <1>5, <1>7, <1>8, <1>9, <1>10 DEF TypesInv

(* Every step keeps the types.                                              *)
LEMMA TypesStep ==
    ASSUME TypesInv, [Next]_vars
    PROVE  TypesInv'
<1>1. CASE UNCHANGED vars
  BY <1>1 DEF vars, TypesInv, LoopTypes, PlainTypes, ChunkTypes, TreeTypes,
              StreakTypes, CutOK
<1>2. CASE Tick
  <2>1. /\ now' = now + 1 /\ now \in Nat
        /\ UNCHANGED <<published, sending, plain, chunks, transfer, streak>>
    BY <1>2 DEF Tick, TypesInv
  <2>2. \A e \in plain : e.at \in Nat /\ e.at <= now
    BY DEF TypesInv, PlainTypes, Plain
  <2>3. \A e \in chunks : e.at \in Nat /\ e.at <= now
    BY DEF TypesInv, ChunkTypes, Chunk
  <2>4. PlainTypes'
    BY <2>1, <2>2 DEF TypesInv, PlainTypes
  <2>5. ChunkTypes'
    BY <2>1, <2>3 DEF TypesInv, ChunkTypes
  <2>q. QED
    BY <2>1, <2>4, <2>5 DEF TypesInv, LoopTypes, TreeTypes, StreakTypes, CutOK
<1>3. ASSUME NEW p \in Publishers, ChunkLost(p) \/ PutFails(p)
      PROVE  TypesInv'
  <2>1. UNCHANGED <<now, published, plain, chunks, transfer, streak>>
    BY <1>3 DEF ChunkLost, PutFails
  <2>2. LoopTypes'
    <3>1. CASE ChunkLost(p)
      BY <3>1, AdvanceTypes DEF ChunkLost, TypesInv
    <3>2. CASE PutFails(p)
      BY <3>2 DEF PutFails, TypesInv, LoopTypes, AtMostOne
    <3>q. QED
      BY <1>3, <3>1, <3>2
  <2>q. QED
    BY <2>1, <2>2 DEF TypesInv, PlainTypes, ChunkTypes, TreeTypes, StreakTypes, CutOK
<1>q. QED
  BY <1>1, <1>2, <1>3, WholeTypes, BeginTypes, ArrivalTypes DEF Next

(* The inductive invariant of the types.                                    *)
LEMMA TypesHold == Spec => []TypesInv
<1>1. Init => TypesInv
  BY DEF Init, TypesInv, LoopTypes, PlainTypes, ChunkTypes, TreeTypes, StreakTypes,
         CutOK, AtMostOne
<1>q. QED
  BY <1>1, TypesStep, PTL DEF Spec

(* TypeOK for any topics, publishers and sizes: of the stores too, that a   *)
(* key has one entry and a topic one transfer.                              *)
THEOREM TransferTypes == Spec => []TypeOK
BY TypesHold, TypesParts, PTL

-----------------------------------------------------------------------------
(* Export.  The tree keeps one transfer of a topic, so what is stored of    *)
(* the topic is of one generation.                                          *)
LEMMA OneGeneration ==
    ASSUME TypesInv, StoreWithinTree,
           NEW c \in chunks, NEW d \in chunks, c.topic = d.topic
    PROVE  SameGeneration(c, d)
<1>1. c.topic \in Topics
  BY DEF TypesInv, ChunkTypes, Chunk
<1>2. PICK t \in transfer[c.topic] : t.size = c.size /\ t.total = c.total
  BY DEF StoreWithinTree
<1>3. PICK u \in transfer[c.topic] : u.size = d.size /\ u.total = d.total
  BY DEF StoreWithinTree
<1>4. t = u
  BY <1>1, <1>2, <1>3 DEF TypesInv, TreeTypes, AtMostOne
<1>q. QED
  BY <1>2, <1>3, <1>4 DEF SameGeneration

(* So a topic has one group at most, which is the newest.                   *)
LEMMA NewestIsGroup ==
    ASSUME TypesInv, StoreWithinTree, NEW topic \in Topics,
           NEW c \in NewestGroup(topic)
    PROVE  c \in chunks /\ NewestGroup(topic) = GroupOf(chunks, c)
<1> DEFINE mine == {d \in chunks : d.topic = topic}
           groups == {GroupOf(chunks, d) : d \in mine}
           Newest(group) ==
                /\ group = {} <=> groups = {}
                /\ \A other \in groups : \A e \in other : \E d \in group : d.at >= e.at
<1>1. \A d \in mine : GroupOf(chunks, d) = mine
  BY OneGeneration DEF GroupOf, SameGeneration
<1>2. \A e \in chunks : e.at \in Nat
  BY DEF TypesInv, ChunkTypes, Chunk
<1>3. \E group \in groups \cup {{}} : Newest(group)
  <2>1. CASE mine = {}
    BY <2>1
  <2>2. CASE mine # {}
    <3>1. groups = {mine}
      BY <1>1, <2>2
    <3>2. Newest(mine)
      BY <1>2, <2>2, <3>1
    <3>q. QED
      BY <3>1, <3>2
  <2>q. QED
    BY <2>1, <2>2
<1>4. NewestGroup(topic) = CHOOSE group \in groups \cup {{}} : Newest(group)
  BY DEF NewestGroup
<1>5. NewestGroup(topic) \in groups \cup {{}}
  <2> HIDE DEF Newest, groups
  <2>q. QED
    BY <1>3, <1>4
<1>6. PICK d \in mine : NewestGroup(topic) = GroupOf(chunks, d)
  BY <1>5
<1>7. c \in mine
  BY <1>1, <1>6
<1>q. QED
  BY <1>1, <1>6, <1>7

(* The first k chunks of a group, when they are all there, have their       *)
(* bytes.                                                                   *)
LEMMA FirstChunks ==
    ASSUME TypesInv, NEW m \in chunks, NEW group,
           group = GroupOf(chunks, m), HasAll(group, m)
    PROVE  \A k \in Nat : k < m.total =>
                LET first == {e \in group : e.index < k}
                IN  /\ IsFiniteSet(first)
                    /\ SumFunctionOnSet([e \in group |-> e.len], first) = k * ChunkSize
<1> DEFINE f == [e \in group |-> e.len]
           first(k) == {e \in group : e.index < k}
           T == {k \in Nat : k < m.total =>
                    /\ IsFiniteSet(first(k))
                    /\ SumFunctionOnSet(f, first(k)) = k * ChunkSize}
<1>1. ChunkSize \in Nat /\ m.total \in Nat /\ m.size \in Nat
  BY TransferAssumption DEF TypesInv, ChunkTypes, Chunk
<1>2. \A e \in group : /\ e \in chunks /\ e.size = m.size /\ e.total = m.total
                       /\ e.index \in 0 .. m.total - 1 /\ e.len \in Nat
                       /\ e.len = CutLength(m.size, e.index)
  BY DEF GroupOf, SameGeneration, HasAll, Indices, TypesInv, CutOK, ChunkTypes, Chunk
<1>3. IsSane(m)
  BY DEF TypesInv, CutOK
<1>4. \A e \in group : e.index # m.total - 1 => f[e] = ChunkSize
  BY <1>1, <1>2, <1>3, CutIsRest DEF IsSane
<1>5. \A e \in group : f[e] \in Nat
  BY <1>2
<1> HIDE DEF f
<1>6. 0 \in T
  <2>1. first(0) = {}
    BY <1>2
  <2>2. IsFiniteSet(first(0)) /\ SumFunctionOnSet(f, first(0)) = 0
    BY <2>1, FS_EmptySet, SumOfNone
  <2>3. 0 * ChunkSize = 0
    BY <1>1
  <2> HIDE DEF first
  <2>q. QED
    BY <2>2, <2>3
<1>7. ASSUME NEW k \in Nat, k \in T
      PROVE  k + 1 \in T
  <2>1. ASSUME k + 1 < m.total
        PROVE  /\ IsFiniteSet(first(k + 1))
               /\ SumFunctionOnSet(f, first(k + 1)) = (k + 1) * ChunkSize
    <3>1. IsFiniteSet(first(k)) /\ SumFunctionOnSet(f, first(k)) = k * ChunkSize
      <4>1. k < m.total
        BY <1>1, <2>1
      <4>q. QED
        BY <1>7, <4>1
    <3>2. PICK e \in group : e.index = k
      <4>1. k \in Indices(m)
        BY <1>1, <2>1 DEF Indices
      <4>q. QED
        BY <4>1 DEF HasAll
    <3>3. \A d \in group : d.index = k => d = e
      BY <1>2, <3>2 DEF TypesInv, ChunkTypes, SameGeneration, GroupOf
    <3>4. /\ first(k + 1) = first(k) \cup {e}
          /\ e \in first(k + 1) /\ first(k + 1) \ {e} = first(k)
      BY <1>1, <1>2, <3>2, <3>3
    <3>5. \A d \in first(k + 1) : f[d] \in Nat
      BY <1>5
    <3>6. f[e] = ChunkSize
      BY <1>1, <1>4, <2>1, <3>2
    <3> HIDE DEF first
    <3>7. IsFiniteSet(first(k + 1))
      BY <3>1, <3>4, FS_AddElement
    <3>8. SumFunctionOnSet(f, first(k + 1)) = f[e] + SumFunctionOnSet(f, first(k + 1) \ {e})
      BY <3>4, <3>5, <3>7, SumWithout
    <3>9. (k + 1) * ChunkSize = ChunkSize + k * ChunkSize
      BY <1>1
    <3>q. QED
      BY <3>1, <3>4, <3>6, <3>7, <3>8, <3>9
  <2> HIDE DEF first
  <2>q. QED
    BY <2>1
<1> HIDE DEF T
<1>8. \A k \in Nat : k \in T
  BY <1>6, <1>7, CountingUp
<1>q. QED
  BY <1>8 DEF T, f

(* A group with as many chunks as its generation has passes every check of  *)
(* the export.                                                              *)
LEMMA FullGroup ==
    ASSUME TypesInv, NEW m \in chunks, NEW group, group = GroupOf(chunks, m),
           Cardinality({d.index : d \in group}) = m.total
    PROVE  Reassembles(group)
<1> DEFINE f == [e \in group |-> e.len]
           last == m.total - 1
           first == {e \in group : e.index < last}
<1>1. /\ ChunkSize \in Nat /\ m.total \in Nat /\ m.size \in Nat /\ m.index \in Nat
      /\ m \in group /\ IsSane(m)
  BY TransferAssumption DEF TypesInv, ChunkTypes, Chunk, CutOK, GroupOf, SameGeneration
<1>2. m.total > 0 /\ last \in Nat
  BY <1>1 DEF IsSane
<1>3. \A e \in group : /\ e \in chunks /\ e.size = m.size /\ e.total = m.total
                       /\ e.index \in Indices(m) /\ e.len \in Nat
                       /\ e.len = CutLength(m.size, e.index)
  BY DEF GroupOf, SameGeneration, Indices, TypesInv, CutOK, ChunkTypes, Chunk, IsSane
<1>4. HasAll(group, m)
  <2> DEFINE found == {d.index : d \in group}
  <2>1. IsFiniteSet(Indices(m)) /\ Cardinality(Indices(m)) = m.total
    <3>1. 0 \in Int /\ last \in Int /\ ~(0 > last) /\ last - 0 + 1 = m.total
      BY <1>1, <1>2
    <3>2. Indices(m) = 0 .. last
      BY DEF Indices
    <3> HIDE DEF last
    <3>q. QED
      BY <3>1, <3>2, FS_Interval
  <2>2. found \in SUBSET Indices(m)
    BY <1>3
  <2>3. Cardinality(found) = m.total
    OBVIOUS
  <2> HIDE DEF found
  <2>4. Indices(m) = found
    BY <2>1, <2>2, <2>3, FS_Subset
  <2>q. QED
    BY <2>4 DEF HasAll, found
<1>5. \A e \in group :
        e.len = IF e.index = last THEN m.size - e.index * ChunkSize ELSE ChunkSize
  BY <1>1, <1>3, CutIsRest DEF IsSane, Indices
<1>6. IsFiniteSet(first) /\ SumFunctionOnSet(f, first) = last * ChunkSize
  BY <1>1, <1>2, <1>4, FirstChunks
<1>7. PICK e \in group : e.index = last
  <2>1. last \in Indices(m)
    BY <1>2 DEF Indices
  <2>q. QED
    BY <2>1, <1>4 DEF HasAll
<1>8. \A d \in group : d.index = last => d = e
  BY <1>3, <1>7 DEF TypesInv, ChunkTypes, SameGeneration, GroupOf
<1>9. group = first \cup {e} /\ e \in group /\ group \ {e} = first
  BY <1>1, <1>2, <1>3, <1>7, <1>8 DEF Indices
<1>10. \A d \in group : f[d] \in Nat
  BY <1>3
<1>11. f[e] = m.size - last * ChunkSize
  BY <1>5, <1>7
<1>12. Bytes(group) = SumFunctionOnSet(f, group)
  BY DEF Bytes, SumFunction
<1> HIDE DEF f, first
<1>13. IsFiniteSet(group)
  BY <1>6, <1>9, FS_AddElement
<1>14. SumFunctionOnSet(f, group) = f[e] + SumFunctionOnSet(f, group \ {e})
  BY <1>9, <1>10, <1>13, SumWithout
<1>15. Bytes(group) = m.size
  <2>1. PICK n \in Nat : n = last * ChunkSize
    BY <1>1, <1>2
  <2>2. Bytes(group) = (m.size - n) + n
    BY <1>6, <1>9, <1>11, <1>12, <1>14, <2>1
  <2>q. QED
    BY <1>1, <2>2
<1>q. QED
  BY <1>1, <1>4, <1>5, <1>15 DEF Reassembles

(* SaveWorks for any traffic: when the button counts all chunks, the export *)
(* finds every index, every length and the size right.                      *)
THEOREM SaveIsNeverRefused == Spec => []SaveWorks
<1>1. ASSUME TypesInv, StoreWithinTree
      PROVE  SaveWorks
  <2> SUFFICES ASSUME NEW t \in Topics, SaveOffered(t)
               PROVE  Exported(t) # {}
    BY DEF SaveWorks
  <2>1. CASE StoredAt(t) # {}
    BY <2>1 DEF Exported
  <2>2. CASE StoredAt(t) = {}
    <3> DEFINE group == NewestGroup(t)
    <3>1. PICK c \in group : Cardinality({d.index : d \in group}) = c.total
      BY <2>2 DEF SaveOffered, ReadyToSave
    <3>2. c \in chunks /\ group = GroupOf(chunks, c)
      BY <1>1, NewestIsGroup
    <3> HIDE DEF group
    <3>3. Reassembles(group)
      BY <1>1, <3>1, <3>2, FullGroup
    <3>q. QED
      BY <2>2, <3>1, <3>3 DEF Exported, group
  <2>q. QED
    BY <2>1, <2>2
<1>q. QED
  BY <1>1, TypesHold, ProgressCoversStore, PTL

-----------------------------------------------------------------------------
(* Room for plain entries.  A part of some entries has no more bytes, and a *)
(* new entry adds its own.                                                  *)
LEMMA PartHasFewerBytes ==
    ASSUME NEW S \in SUBSET Plain, IsFiniteSet(S), NEW T \in SUBSET S
    PROVE  Bytes(T) <= Bytes(S) /\ Bytes(T) \in Nat
<1> DEFINE f == [e \in S |-> e.len]
           g == [e \in T |-> e.len]
<1>1. \A e \in S : f[e] \in Nat
  BY TransferAssumption DEF Plain
<1>2. \A e \in T : g[e] = f[e] /\ g[e] \in Nat
  BY <1>1
<1>3. Bytes(S) = SumFunctionOnSet(f, S) /\ Bytes(T) = SumFunctionOnSet(g, T)
  BY DEF Bytes, SumFunction
<1> HIDE DEF f, g
<1>4. IsFiniteSet(T)
  BY FS_Subset
<1>5. SumFunctionOnSet(g, T) = SumFunctionOnSet(f, T)
  BY <1>2, <1>4, SumOfSame
<1>6. SumFunctionOnSet(f, T) <= SumFunctionOnSet(f, S)
  BY <1>1, SumOfPart
<1>7. SumFunctionOnSet(g, T) \in Nat
  BY <1>2, <1>4, SumIsNat
<1>q. QED
  BY <1>3, <1>5, <1>6, <1>7

(* An entry that is not in the store adds its length to the store's.        *)
LEMMA EntryAddsItsBytes ==
    ASSUME NEW S \in SUBSET Plain, IsFiniteSet(S), NEW e \in Plain, e \notin S
    PROVE  Bytes(S \cup {e}) = Bytes(S) + e.len
<1> DEFINE more == S \cup {e}
           f == [d \in S |-> d.len]
           g == [d \in more |-> d.len]
<1>1. IsFiniteSet(more) /\ e \in more /\ more \ {e} = S
  BY FS_AddElement
<1>2. g[e] = e.len /\ \A d \in S : g[d] = f[d]
  OBVIOUS
<1>3. \A d \in more : g[d] \in Nat
  BY TransferAssumption DEF Plain
<1>4. Bytes(S) = SumFunctionOnSet(f, S) /\ Bytes(more) = SumFunctionOnSet(g, more)
  BY DEF Bytes, SumFunction
<1>5. Bytes(S) \in Nat /\ e.len \in Nat
  BY PartHasFewerBytes, TransferAssumption DEF Plain
<1> HIDE DEF f, g, more
<1>6. SumFunctionOnSet(g, more) = g[e] + SumFunctionOnSet(g, more \ {e})
  BY <1>1, <1>3, SumWithout
<1>7. SumFunctionOnSet(g, S) = SumFunctionOnSet(f, S)
  BY <1>2, SumOfSame
<1>8. Bytes(more) = e.len + Bytes(S)
  BY <1>1, <1>2, <1>4, <1>6, <1>7
<1>q. QED
  BY <1>5, <1>8 DEF more

(* The limits, and what an entry that is put may do to them.                *)
PlainFits ==
    /\ IsFiniteSet(plain)
    /\ Cardinality(plain) <= MaxPlainEntries
    /\ Bytes(plain) <= MaxPlainBytes

OldestLeave ==
    \A new \in plain' \ plain, old \in plain \ plain', kept \in plain \cap plain' :
        old.topic # new.topic => old.at <= kept.at

(* The empty store is within both limits.                                   *)
LEMMA NoEntryFits ==
    /\ IsFiniteSet({}) /\ Cardinality({}) <= MaxPlainEntries
    /\ Bytes({}) <= MaxPlainBytes
<1>1. IsFiniteSet({}) /\ Cardinality({}) = 0
  BY FS_EmptySet
<1>2. Bytes({}) = 0
  <2> DEFINE f == [e \in {} |-> e.len]
  <2>1. DOMAIN f = {}
    OBVIOUS
  <2>2. Bytes({}) = SumFunctionOnSet(f, {})
    BY <2>1 DEF Bytes, SumFunction
  <2>q. QED
    BY <2>2, SumOfNone
<1>3. MaxPlainEntries \in Nat /\ MaxPlainBytes \in Nat
  BY TransferAssumption
<1>q. QED
  BY <1>1, <1>2, <1>3

(* Insertion makes room, and makes it from the oldest entries.              *)
LEMMA RoomIsMade ==
    ASSUME PlainTypes, PlainFits, NEW e \in Plain, InsertPlain(e)
    PROVE  PlainFits' /\ OldestLeave
<1> DEFINE others(stored) == {f \in stored : f.topic # e.topic}
<1>1. /\ MaxPlainEntries \in Nat /\ MaxPlainBytes \in Nat /\ e.len \in Nat
      /\ plain \in SUBSET Plain
      /\ IsFiniteSet(plain) /\ Cardinality(plain) \in Nat
      /\ \A f \in plain : f.at \in Nat
  BY FS_CardinalityType, TransferAssumption DEF PlainTypes, PlainFits, Plain
<1>2. CASE e.len > MaxPlainBytes
  <2>1. plain' = others(plain) /\ plain' \in SUBSET plain
    BY <1>2 DEF InsertPlain
  <2>2. /\ IsFiniteSet(plain') /\ Cardinality(plain') \in Nat
        /\ Cardinality(plain') <= Cardinality(plain)
    BY <1>1, <2>1, FS_Subset, FS_CardinalityType
  <2>3. Bytes(plain') <= Bytes(plain) /\ Bytes(plain') \in Nat /\ Bytes(plain) \in Nat
    BY <1>1, <2>1, PartHasFewerBytes
  <2>4. PlainFits'
    BY <1>1, <2>2, <2>3 DEF PlainFits
  <2>5. OldestLeave
    BY <2>1 DEF OldestLeave
  <2>q. QED
    BY <2>4, <2>5
<1>3. CASE ~(e.len > MaxPlainBytes)
  <2>1. PICK counted \in IF NeedsPlace(plain, e.topic)
                         THEN {plain \ {old} : old \in OldestOf(plain)}
                         ELSE {plain} :
            \E kept \in KeptFor(others(counted), e) : plain' = kept \cup {e}
    BY <1>3 DEF InsertPlain
  <2>2. PICK kept \in KeptFor(others(counted), e) : plain' = kept \cup {e}
    BY <2>1
  <2>3. /\ counted \subseteq plain
        /\ kept \subseteq others(counted) /\ Fits(kept, e)
        /\ kept = others(counted)
           \/ \E last \in others(counted) \ kept :
                /\ last \in OldestOf(kept \cup {last})
                /\ \A gone \in others(counted) \ kept : gone.at <= last.at
    BY <2>1, <2>2 DEF KeptFor
  <2>4. kept \in SUBSET plain /\ kept \in SUBSET Plain /\ e \notin kept
        /\ IsFiniteSet(kept)
    BY <1>1, <2>3, FS_Subset
  <2>5. Cardinality(kept) \in Nat /\ Cardinality(kept) < MaxPlainEntries
    <3>1. Cardinality(kept) \in Nat
      BY <2>4, FS_CardinalityType
    <3>2. ASSUME NEW gone \in plain, gone \notin kept
          PROVE  Cardinality(kept) < MaxPlainEntries
      <4>1. /\ IsFiniteSet(plain \ {gone})
            /\ Cardinality(plain \ {gone}) = Cardinality(plain) - 1
        BY <1>1, FS_RemoveElement
      <4>2. kept \in SUBSET (plain \ {gone})
        BY <2>4, <3>2
      <4>3. Cardinality(kept) <= Cardinality(plain \ {gone})
        BY <4>1, <4>2, FS_Subset
      <4>4. Cardinality(plain) <= MaxPlainEntries
        BY DEF PlainFits
      <4>q. QED
        BY <1>1, <3>1, <4>1, <4>3, <4>4
    <3>3. CASE NeedsPlace(plain, e.topic)
      <4>1. PICK old \in OldestOf(plain) : counted = plain \ {old}
        BY <2>1, <3>3
      <4>2. old \in plain /\ old \notin kept
        BY <2>3, <4>1 DEF OldestOf
      <4>q. QED
        BY <3>1, <3>2, <4>2
    <3>4. CASE \E gone \in plain : gone.topic = e.topic
      BY <2>3, <3>1, <3>2, <3>4
    <3>5. CASE ~(Cardinality(plain) >= MaxPlainEntries)
      <4>1. Cardinality(kept) <= Cardinality(plain)
        BY <1>1, <2>4, FS_Subset
      <4>q. QED
        BY <1>1, <3>1, <3>5, <4>1
    <3>q. QED
      BY <3>3, <3>4, <3>5 DEF NeedsPlace
  <2>6. PlainFits'
    <3>1. /\ IsFiniteSet(kept \cup {e})
          /\ Cardinality(kept \cup {e}) = Cardinality(kept) + 1
      BY <2>4, FS_AddElement
    <3>2. Bytes(kept \cup {e}) = Bytes(kept) + e.len
      BY <2>4, EntryAddsItsBytes
    <3>q. QED
      BY <1>1, <2>2, <2>3, <2>5, <3>1, <3>2 DEF PlainFits, Fits
  <2>7. ASSUME NEW new \in plain' \ plain, NEW old \in plain \ plain',
               NEW stays \in plain \cap plain', old.topic # new.topic
        PROVE  old.at <= stays.at
    <3>1. new = e /\ stays \in kept /\ old \notin kept
      BY <2>2, <2>4, <2>7
    <3>2. CASE old \in others(counted)
      <4>1. PICK last \in others(counted) \ kept :
                /\ last \in OldestOf(kept \cup {last})
                /\ \A gone \in others(counted) \ kept : gone.at <= last.at
        BY <2>3, <3>1, <3>2
      <4>2. old.at <= last.at /\ last.at <= stays.at
        BY <3>1, <3>2, <4>1 DEF OldestOf
      <4>3. last \in plain
        BY <2>3, <4>1
      <4>q. QED
        BY <1>1, <4>2, <4>3
    <3>3. CASE old \notin others(counted)
      <4>1. old \notin counted
        BY <2>7, <3>1, <3>3
      <4>2. old \in OldestOf(plain)
        BY <2>1, <4>1
      <4>q. QED
        BY <4>2 DEF OldestOf
    <3>q. QED
      BY <3>2, <3>3
  <2>8. OldestLeave
    BY <2>7 DEF OldestLeave
  <2>q. QED
    BY <2>6, <2>8
<1>q. QED
  BY <1>2, <1>3

(* PlainMakesRoom for any sizes and limits: the entries stay within both,   *)
(* and what goes for a new one of another topic is oldest.                  *)
THEOREM OldestMakeRoom == Spec => PlainMakesRoom
<1>1. Init => PlainFits
  BY NoEntryFits DEF Init, PlainFits
<1>2. ASSUME TypesInv, PlainFits, [Next]_vars
      PROVE  PlainFits' /\ OldestLeave
  <2>1. CASE UNCHANGED plain
    BY <1>2, <2>1 DEF PlainFits, OldestLeave
  <2>2. ASSUME NEW p \in Publishers, NEW topic \in Topics, NEW size \in Sizes,
               PublishWhole(p, topic, size)
        PROVE  PlainFits' /\ OldestLeave
    <3>1. WholeOf(topic, size) \in Plain
      BY <1>2 DEF TypesInv, WholeOf, Plain
    <3>2. InsertPlain(WholeOf(topic, size))
      BY <2>2 DEF PublishWhole
    <3>q. QED
      BY <1>2, <3>1, <3>2, RoomIsMade DEF TypesInv
  <2>q. QED
    BY <1>2, <2>1, <2>2
       DEF Next, vars, Tick, BeginChunks, ChunkArrives, ChunkLost, PutFails
<1>3. PlainFits' /\ OldestLeave =>
        /\ Cardinality(plain') <= MaxPlainEntries
        /\ Bytes(plain') <= MaxPlainBytes
        /\ \A new \in plain' \ plain, old \in plain \ plain', kept \in plain \cap plain' :
              old.topic # new.topic => old.at <= kept.at
  BY DEF PlainFits, OldestLeave
<1>q. QED
  BY <1>1, <1>2, <1>3, TypesHold, PTL DEF Spec, PlainMakesRoom
=============================================================================
