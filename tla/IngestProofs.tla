----------------------------- MODULE IngestProofs -----------------------------
(***************************************************************************)
(* Proofs about Ingest, for any keys, contents, sources, window and limits.*)
(***************************************************************************)
EXTENDS Ingest, SumLemmas, TLAPS

(* Clock readings are of the past.                                          *)
TimesOK ==
    /\ now \in Nat
    /\ \A a \in accepted : a.at \in Nat /\ a.at <= now
    /\ \A e \in deduper : e.at \in Nat /\ e.at <= now

(* As long as the window of a sample that was counted is open, the deduper  *)
(* knows it by the source it was counted for, whatever came since: only     *)
(* that source can have renewed the record.                                 *)
Remembered(a) ==
    \E e \in deduper :
        e.sample = pubs[a.n] /\ e.source = a.source /\ e.at >= a.at
RecordsKept ==
    \A a \in accepted : a.dedup /\ now - a.at < DedupWindow => Remembered(a)

DedupInv == TimesOK /\ RecordsKept /\ CountedOnceAtMost

-----------------------------------------------------------------------------
(* A sweep forgets nothing whose window is open.                            *)
LEMMA SweepSpares ==
    ASSUME NEW e \in deduper, now - e.at < DedupWindow
    PROVE  e \in Swept
BY DEF Swept

(* A sample that is suppressed only sweeps.                                 *)
LEMMA DedupedKeeps ==
    ASSUME DedupInv, NEW s \in Sources, Deduped(s)
    PROVE  DedupInv'
<1>1. /\ deduper' = Swept /\ UNCHANGED <<now, pubs, accepted>>
  BY DEF Deduped, Brings
<1>2. TimesOK'
  BY <1>1 DEF DedupInv, TimesOK, Swept
<1>3. ASSUME NEW a \in accepted, a.dedup, now - a.at < DedupWindow
      PROVE  Remembered(a)'
  <2>1. PICK e \in deduper :
            e.sample = pubs[a.n] /\ e.source = a.source /\ e.at >= a.at
    BY <1>3 DEF DedupInv, RecordsKept, Remembered
  <2>2. now - e.at < DedupWindow
    BY <1>3, <2>1, IngestAssumption DEF DedupInv, TimesOK
  <2>q. QED
    BY <1>1, <2>1, <2>2, SweepSpares DEF Remembered
<1>q. QED
  BY <1>1, <1>2, <1>3 DEF DedupInv, RecordsKept, CountedOnceAtMost

(* A sample that is counted was not counted for another source within the   *)
(* window, and is on record for its own.                                    *)
LEMMA ProcessKeeps ==
    ASSUME DedupInv, NEW s \in Sources, Process(s)
    PROVE  DedupInv'
<1> DEFINE new == [n |-> seen[s] + 1, source |-> s, at |-> now,
                   dedup |-> controls.dedup]
           rec == [sample |-> Sample(s), at |-> now, source |-> s]
<1>1. /\ ~Duplicate(s)
      /\ UNCHANGED <<now, pubs>>
      /\ accepted' = accepted \cup {new}
      /\ IF controls.dedup THEN deduper' = Recorded(Sample(s), s)
         ELSE deduper' = deduper
  BY DEF Process, Brings
<1>2. /\ new.n = seen[s] + 1 /\ new.source = s /\ new.at = now
      /\ new.dedup = controls.dedup
      /\ rec.sample = pubs[new.n] /\ rec.at = now /\ rec.source = s
      /\ controls.dedup => rec \in deduper'
  BY <1>1 DEF Sample, Recorded
<1>3. now \in Nat /\ DedupWindow \in Nat /\ DedupWindow > 0
  BY IngestAssumption DEF DedupInv, TimesOK
<1>4. controls.dedup => deduper' = {e \in Swept : e.sample # pubs[new.n]} \cup {rec}
  BY <1>1 DEF Sample, Recorded
<1> HIDE DEF new, rec
<1>5. \A e \in deduper' : e \in deduper \/ e = rec
  BY <1>1, <1>4 DEF Swept
<1>6. TimesOK'
  BY <1>1, <1>2, <1>3, <1>5 DEF DedupInv, TimesOK
<1>7. ASSUME controls.dedup,
             NEW a \in accepted, a.dedup, now - a.at < DedupWindow,
             pubs[a.n] = pubs[new.n]
      PROVE  a.source = s
  <2>1. PICK e \in deduper :
            e.sample = pubs[a.n] /\ e.source = a.source /\ e.at >= a.at
    BY <1>7 DEF DedupInv, RecordsKept, Remembered
  <2>2. now - e.at < DedupWindow
    BY <1>3, <1>7, <2>1 DEF DedupInv, TimesOK
  <2>q. QED
    BY <1>1, <1>2, <1>7, <2>1, <2>2 DEF Duplicate, IsDuplicate, Sample
<1>8. ASSUME NEW a \in accepted, a.dedup, now - a.at < DedupWindow
      PROVE  Remembered(a)'
  <2>1. PICK e \in deduper :
            e.sample = pubs[a.n] /\ e.source = a.source /\ e.at >= a.at
    BY <1>8 DEF DedupInv, RecordsKept, Remembered
  <2>2. now - e.at < DedupWindow
    BY <1>3, <1>8, <2>1 DEF DedupInv, TimesOK
  <2>3. CASE ~controls.dedup
    BY <1>1, <2>1, <2>3 DEF Remembered
  <2>4. CASE controls.dedup /\ pubs[a.n] # pubs[new.n]
    BY <1>1, <1>4, <2>1, <2>2, <2>4, SweepSpares DEF Remembered
  <2>5. CASE controls.dedup /\ pubs[a.n] = pubs[new.n]
    <3>1. a.source = s /\ a.at <= now
      BY <1>7, <1>8, <2>5 DEF DedupInv, TimesOK
    <3>q. QED
      BY <1>1, <1>2, <2>5, <3>1 DEF Remembered, DedupInv, TimesOK
  <2>q. QED
    BY <2>3, <2>4, <2>5
<1>9. ASSUME NEW a \in accepted', a = new, controls.dedup
      PROVE  Remembered(a)'
  <2>1. rec.at >= a.at /\ rec \in deduper' /\ rec.source = a.source
    BY <1>2, <1>3, <1>9
  <2>2. rec.sample = pubs'[a.n]
    BY <1>1, <1>2, <1>9
  <2>q. QED
    BY <2>1, <2>2 DEF Remembered
<1>10. RecordsKept'
  <2>1. ASSUME NEW a \in accepted', a.dedup, now' - a.at < DedupWindow
        PROVE  Remembered(a)'
    BY <1>1, <1>2, <1>8, <1>9, <2>1
  <2>q. QED
    BY <2>1 DEF RecordsKept
<1>11. CountedOnceAtMost'
  <2>1. ASSUME NEW a \in accepted, a.n = new.n, a.source # s,
               a.dedup, controls.dedup
        PROVE  now - a.at >= DedupWindow
    BY <1>3, <1>7, <2>1 DEF DedupInv, TimesOK
  <2>2. ASSUME NEW a \in accepted', NEW b \in accepted',
               a.n = b.n, a.source # b.source, a.dedup, b.dedup, a.at <= b.at
        PROVE  b.at - a.at >= DedupWindow
    <3>1. CASE a \in accepted /\ b \in accepted
      BY <2>2, <3>1 DEF DedupInv, CountedOnceAtMost
    <3>2. CASE a \in accepted /\ b = new
      BY <1>2, <2>1, <2>2, <3>2
    <3>3. CASE a = new /\ b \in accepted
      <4>1. b.at = now
        BY <1>2, <1>3, <2>2, <3>3 DEF DedupInv, TimesOK
      <4>q. QED
        BY <1>2, <1>3, <2>1, <2>2, <3>3, <4>1
    <3>4. CASE a = new /\ b = new
      BY <2>2, <3>4
    <3>q. QED
      BY <1>1, <2>2, <3>1, <3>2, <3>3, <3>4
  <2>q. QED
    BY <2>2 DEF CountedOnceAtMost
<1>q. QED
  BY <1>6, <1>10, <1>11 DEF DedupInv

(* Time only closes windows.                                                *)
LEMMA TickKeeps ==
    ASSUME DedupInv, Tick
    PROVE  DedupInv'
<1>1. now' = now + 1 /\ UNCHANGED <<pubs, accepted, deduper>> /\ now \in Nat
  BY DEF Tick, feed, DedupInv, TimesOK
<1>2. TimesOK'
  BY <1>1 DEF DedupInv, TimesOK
<1>3. \A a \in accepted : now' - a.at < DedupWindow => now - a.at < DedupWindow
  BY <1>1, IngestAssumption DEF DedupInv, TimesOK
<1>q. QED
  BY <1>1, <1>2, <1>3 DEF DedupInv, RecordsKept, Remembered, CountedOnceAtMost

(* CountedOnceAtMost for any sources, contents and window: with Dedup on,   *)
(* copies of a publication from two sources within the window count once,   *)
(* however the sources overtake each other and Dedup is switched.           *)
THEOREM CopiesCountOnce == Spec => []CountedOnceAtMost
<1>1. Init => DedupInv
  BY DEF Init, DedupInv, TimesOK, RecordsKept, CountedOnceAtMost
<1>2. ASSUME DedupInv, [Next]_vars
      PROVE  DedupInv'
  <2>1. CASE UNCHANGED <<now, pubs, deduper, accepted>>
    BY <1>2, <2>1
       DEF DedupInv, TimesOK, RecordsKept, Remembered, CountedOnceAtMost
  <2>2. ASSUME NEW s \in Sources, Lose(s)
        PROVE  UNCHANGED <<now, pubs, deduper, accepted>>
    BY <2>2 DEF Lose, Brings
  <2>3. ASSUME NEW row \in Samples, Reply(row)
        PROVE  UNCHANGED <<now, pubs, deduper, accepted>>
    BY <2>3 DEF Reply
  <2>4. CASE EditControls \/ Clear
    BY <2>1, <2>4 DEF EditControls, Clear, Edit, feed
  <2>q. QED
    BY <1>2, <2>1, <2>2, <2>3, <2>4, TickKeeps, DedupedKeeps, ProcessKeeps
       DEF Next, vars, feed
<1>3. DedupInv => CountedOnceAtMost
  BY DEF DedupInv
<1>q. QED
  BY <1>1, <1>2, <1>3, PTL DEF Spec

-----------------------------------------------------------------------------
(* SaveMatchesTree for any traffic and controls: the store and the tree     *)
(* take the same samples, so Save File writes what the tree shows.          *)
THEOREM SaveWritesTheTree == Spec => []SaveMatchesTree
<1> DEFINE Shapes ==
        /\ tree = [k \in Keys |-> tree[k]]
        /\ store = [k \in Keys |-> store[k]]
<1>1. Init => Shapes /\ SaveMatchesTree
  BY DEF Init, SaveMatchesTree, NoValue
<1>2. ASSUME Shapes, SaveMatchesTree, [Next]_vars
      PROVE  Shapes' /\ SaveMatchesTree'
  <2>1. CASE UNCHANGED <<tree, store>>
    BY <1>2, <2>1 DEF SaveMatchesTree
  <2>2. ASSUME NEW s \in Sources, Process(s)
        PROVE  Shapes' /\ SaveMatchesTree'
    <3>1. PICK key, content : AddToTree(key, content) /\ Store(key, content)
      BY <2>2 DEF Process
    <3>2. Shapes'
      BY <1>2, <3>1 DEF AddToTree, Store
    <3>3. ASSUME NEW k \in Keys \ ChunkKeys
          PROVE  store'[k] = tree'[k].value
      <4>1. CASE k # key
        BY <1>2, <3>1, <3>3, <4>1 DEF AddToTree, Store, SaveMatchesTree
      <4>2. CASE k = key
        <5>1. store'[k] = {content}
          BY <1>2, <3>1, <3>3, <4>2 DEF Store
        <5>2. tree'[k] = [count |-> tree[k].count + 1, value |-> {content}]
          BY <1>2, <3>1, <3>3, <4>2 DEF AddToTree
        <5>q. QED
          BY <5>1, <5>2
      <4>q. QED
        BY <4>1, <4>2
    <3>q. QED
      BY <3>2, <3>3 DEF SaveMatchesTree
  <2>3. ASSUME NEW s \in Sources, Deduped(s) \/ Lose(s)
        PROVE  UNCHANGED <<tree, store>>
    BY <2>3 DEF Deduped, Lose
  <2>4. ASSUME NEW row \in Samples, Reply(row)
        PROVE  UNCHANGED <<tree, store>>
    BY <2>4 DEF Reply
  <2>5. CASE Tick \/ EditControls \/ Clear
    BY <2>1, <2>5 DEF Tick, EditControls, Clear, Edit
  <2>q. QED
    BY <1>2, <2>1, <2>2, <2>3, <2>4, <2>5 DEF Next, vars
<1>q. QED
  BY <1>1, <1>2, PTL DEF Spec

-----------------------------------------------------------------------------
(* The facts about types that the arithmetic needs.                         *)
LEMMA RowSize == \A row \in Samples : RowBytes(row) \in Nat
<1>1. ASSUME NEW row \in Samples
      PROVE  RowBytes(row) \in Nat
  <2>1. row.content \in Contents
    BY DEF Samples
  <2>2. SizeOf \in [Contents -> Nat]
    BY IngestAssumption
  <2>q. QED
    BY <2>1, <2>2 DEF RowBytes
<1>q. QED
  BY <1>1

(* The limits the settings offer are natural numbers, and no count is 0.    *)
LEMMA LimitsAreNat ==
    /\ \A n \in CountLimits : n \in Nat /\ n > 0
    /\ \A n \in MemoryLimits \cup RateLimits : n \in Nat
<1>1. CountLimits \subseteq Nat \ {0}
  BY IngestAssumption
<1>2. MemoryLimits \in SUBSET Nat /\ RateLimits \in SUBSET Nat
  BY IngestAssumption
<1>q. QED
  BY <1>1, <1>2

(* The list, its running byte total and the limits are what they count.     *)
LEMMA ListTypes ==
    ASSUME TypeOK
    PROVE  /\ list \in Seq(Samples) /\ Len(list) \in Nat
           /\ bytes \in Nat
           /\ controls.count \in Nat /\ controls.count > 0
           /\ controls.memory \in Nat
<1>1. list \in Seq(Samples) /\ bytes \in Nat
  BY DEF TypeOK
<1>2. controls.count \in CountLimits /\ controls.memory \in MemoryLimits
  BY DEF TypeOK
<1>q. QED
  BY <1>1, <1>2, LimitsAreNat

(* How many rows leave for a new one: some of those there are, and one more *)
(* for the count only when one is left.                                     *)
LEMMA SomeLeave ==
    ASSUME TypeOK, NEW row \in Samples
    PROVE  /\ ForMemory(row) \in 0 .. Len(list)
           /\ Evictions(row) \in 0 .. Len(list)
           /\ TooMuch(0, row) =>
                \/ ForMemory(row) = Len(list)
                \/ ~TooMuch(ForMemory(row), row) /\ ~Full(ForMemory(row))
<1> DEFINE enough == {n \in 0 .. Len(list) :
                n = Len(list) \/ (~TooMuch(n, row) /\ ~Full(n))}
<1>1. Len(list) \in Nat /\ controls.count \in Nat /\ controls.count > 0
  BY ListTypes
<1>2. enough \in SUBSET Nat /\ Len(list) \in enough
  BY <1>1
<1>3. Min(enough) \in enough
  <2> HIDE DEF enough
  <2>q. QED
    BY <1>2, MinIn
<1>4. TooMuch(0, row) => ForMemory(row) \in enough
  BY <1>3 DEF ForMemory
<1>5. ~TooMuch(0, row) => ForMemory(row) = 0
  BY DEF ForMemory
<1>6. ForMemory(row) \in 0 .. Len(list)
  BY <1>1, <1>4, <1>5
<1>7. Full(ForMemory(row)) => ForMemory(row) < Len(list)
  BY <1>1, <1>6 DEF Full
<1>8. Evictions(row) \in 0 .. Len(list)
  BY <1>1, <1>6, <1>7 DEF Evictions
<1>q. QED
  BY <1>4, <1>6, <1>8

(* The bytes of rows are a natural number.                                  *)
LEMMA BytesAreNat ==
    ASSUME NEW rows \in Seq(Samples)
    PROVE  BytesOf(rows) \in Nat
<1> DEFINE f == [i \in DOMAIN rows |-> RowBytes(rows[i])]
<1>1. DOMAIN f = 1 .. Len(rows) /\ IsFiniteSet(1 .. Len(rows))
  BY FS_Interval
<1>2. \A i \in 1 .. Len(rows) : f[i] \in Nat
  BY RowSize
<1>3. BytesOf(rows) = SumFunctionOnSet(f, 1 .. Len(rows))
  BY <1>1 DEF BytesOf, SumFunction
<1> HIDE DEF f
<1>q. QED
  BY <1>1, <1>2, <1>3, SumIsNat

(* No rows have no bytes; a row that is added adds its own.                 *)
LEMMA NoRowsNoBytes == BytesOf(<<>>) = 0
<1> DEFINE f == [i \in DOMAIN <<>> |-> RowBytes(<<>>[i])]
<1>1. DOMAIN f = {}
  OBVIOUS
<1>2. BytesOf(<<>>) = SumFunctionOnSet(f, {})
  BY <1>1 DEF BytesOf, SumFunction
<1>q. QED
  BY <1>2, SumOfNone

(* A new row adds its own bytes to what the list measures.                  *)
LEMMA RowAddsItsBytes ==
    ASSUME NEW rows \in Seq(Samples), NEW row \in Samples
    PROVE  BytesOf(Append(rows, row)) = BytesOf(rows) + RowBytes(row)
<1> DEFINE more == Append(rows, row)
           n == Len(rows)
           f == [i \in DOMAIN rows |-> RowBytes(rows[i])]
           g == [i \in DOMAIN more |-> RowBytes(more[i])]
<1>1. n \in Nat /\ more \in Seq(Samples) /\ Len(more) = n + 1
  OBVIOUS
<1>2. DOMAIN f = 1 .. n /\ DOMAIN g = 1 .. n + 1
  BY <1>1
<1>3. g[n + 1] = RowBytes(row) /\ \A i \in 1 .. n : g[i] = f[i]
  BY <1>1
<1>4. \A i \in 1 .. n + 1 : g[i] \in Nat
  BY <1>1, <1>2, RowSize
<1>5. BytesOf(rows) = SumFunctionOnSet(f, 1 .. n)
  BY <1>2 DEF BytesOf, SumFunction
<1>6. BytesOf(more) = SumFunctionOnSet(g, 1 .. n + 1)
  BY <1>2 DEF BytesOf, SumFunction
<1> HIDE DEF more, n, f, g
<1>7. IsFiniteSet(1 .. n) /\ IsFiniteSet(1 .. n + 1)
  BY <1>1, FS_Interval
<1>8. n + 1 \in 1 .. n + 1 /\ (1 .. n + 1) \ {n + 1} = 1 .. n
  BY <1>1
<1>9. SumFunctionOnSet(g, 1 .. n + 1)
        = g[n + 1] + SumFunctionOnSet(g, (1 .. n + 1) \ {n + 1})
  BY <1>4, <1>7, <1>8, SumWithout
<1>10. SumFunctionOnSet(g, 1 .. n) = SumFunctionOnSet(f, 1 .. n)
  BY <1>3, <1>7, SumOfSame
<1>11. BytesOf(rows) \in Nat /\ RowBytes(row) \in Nat
  BY BytesAreNat, RowSize
<1>12. BytesOf(more) = RowBytes(row) + BytesOf(rows)
  BY <1>3, <1>5, <1>6, <1>8, <1>9, <1>10
<1>q. QED
  BY <1>11, <1>12 DEF more

(* Cut in two, rows keep their bytes.                                       *)
LEMMA CutKeepsBytes ==
    ASSUME NEW rows \in Seq(Samples), NEW k \in 0 .. Len(rows)
    PROVE  BytesOf(rows) =
             BytesOf(SubSeq(rows, 1, k)) + BytesOf(SubSeq(rows, k + 1, Len(rows)))
<1> DEFINE head(n) == SubSeq(rows, 1, n)
           mid(n) == SubSeq(rows, k + 1, n)
           T == {d \in Nat : k + d <= Len(rows) =>
                    BytesOf(head(k + d)) = BytesOf(head(k)) + BytesOf(mid(k + d))}
<1>1. Len(rows) \in Nat /\ k \in Nat /\ k <= Len(rows)
  OBVIOUS
<1>2. \A n \in 0 .. Len(rows) : head(n) \in Seq(Samples) /\ mid(n) \in Seq(Samples)
  BY <1>1
<1>3. \A n \in 0 .. Len(rows) :
        BytesOf(head(n)) \in Nat /\ BytesOf(mid(n)) \in Nat
  <2> HIDE DEF head, mid
  <2>q. QED
    BY <1>2, BytesAreNat
<1>4. 0 \in T
  <2>1. mid(k) = <<>>
    BY <1>1
  <2>2. BytesOf(head(k)) \in Nat /\ BytesOf(mid(k)) = 0
    BY <1>3, <2>1, NoRowsNoBytes
  <2> HIDE DEF head, mid
  <2>3. BytesOf(head(k)) = BytesOf(head(k)) + BytesOf(mid(k))
    BY <2>2
  <2>4. k + 0 = k
    BY <1>1
  <2>q. QED
    BY <2>3, <2>4
<1>5. ASSUME NEW d \in Nat, d \in T
      PROVE  d + 1 \in T
  <2> DEFINE n == k + d
  <2> SUFFICES ASSUME n + 1 <= Len(rows)
               PROVE  BytesOf(head(n + 1)) = BytesOf(head(k)) + BytesOf(mid(n + 1))
    BY <1>1
  <2>1. n \in 0 .. Len(rows) /\ n + 1 \in 1 .. Len(rows) /\ rows[n + 1] \in Samples
    BY <1>1
  <2>2. BytesOf(head(n)) = BytesOf(head(k)) + BytesOf(mid(n))
    BY <1>1, <1>5, <2>1
  <2>3. head(n + 1) = Append(head(n), rows[n + 1])
    BY <1>1, <2>1
  <2>4. mid(n + 1) = Append(mid(n), rows[n + 1])
    BY <1>1, <2>1
  <2> HIDE DEF head, mid, n
  <2>5. /\ BytesOf(head(n + 1)) = BytesOf(head(n)) + RowBytes(rows[n + 1])
        /\ BytesOf(mid(n + 1)) = BytesOf(mid(n)) + RowBytes(rows[n + 1])
    BY <1>2, <2>1, <2>3, <2>4, RowAddsItsBytes
  <2>6. RowBytes(rows[n + 1]) \in Nat
    BY <2>1, RowSize
  <2>7. k \in 0 .. Len(rows)
    BY <1>1
  <2>q. QED
    BY <1>3, <2>1, <2>2, <2>5, <2>6, <2>7
<1> HIDE DEF T
<1>6. Len(rows) - k \in Nat /\ Len(rows) - k \in T
  BY <1>1, <1>4, <1>5, CountingUp
<1>7. BytesOf(head(Len(rows))) = BytesOf(head(k)) + BytesOf(mid(Len(rows)))
  <2>1. k + (Len(rows) - k) = Len(rows)
    BY <1>1
  <2> HIDE DEF head, mid
  <2>q. QED
    BY <1>1, <1>6, <2>1 DEF T
<1>8. head(Len(rows)) = rows
  OBVIOUS
<1>q. QED
  BY <1>7, <1>8

-----------------------------------------------------------------------------
(* The bytes that stay when n rows leave: the subtraction saturates.        *)
LEMMA BytesLeft ==
    ASSUME TypeOK, NEW n \in 0 .. Len(list)
    PROVE  LET left == bytes - BytesOf(SubSeq(list, 1, n))
           IN  /\ left \in Int
               /\ BytesWithout(n) = IF left >= 0 THEN left ELSE 0
               /\ BytesWithout(n) \in Nat
<1> DEFINE left == bytes - BytesOf(SubSeq(list, 1, n))
<1>1. SubSeq(list, 1, n) \in Seq(Samples) /\ bytes \in Nat
  BY ListTypes
<1>2. left \in Int /\ BytesWithout(n) = Max({0, left})
  <2>1. BytesOf(SubSeq(list, 1, n)) \in Nat
    BY <1>1, BytesAreNat
  <2>2. left \in Int
    BY <1>1, <2>1
  <2>q. QED
    BY <2>2 DEF BytesWithout
<1> HIDE DEF left
<1>3. \E x \in {0, left} : \A y \in {0, left} : x >= y
  BY <1>2
<1>4. Max({0, left}) \in {0, left} /\ \A y \in {0, left} : Max({0, left}) >= y
  BY <1>3 DEF Max
<1>5. BytesWithout(n) = (IF left >= 0 THEN left ELSE 0) /\ BytesWithout(n) \in Nat
  BY <1>2, <1>4
<1>q. QED
  BY <1>2, <1>5 DEF left

(* The numbers of a list that takes a row.                                  *)
LEMMA RowAdded ==
    ASSUME TypeOK, NEW row \in Samples, AddRow(row)
    PROVE  /\ list' \in Seq(Samples) /\ bytes' \in Nat
           /\ Len(list') = Len(list) - Evictions(row) + 1
           /\ BytesExact => BytesExact'
<1> DEFINE n == Evictions(row)
           out == SubSeq(list, 1, n)
<1>1. /\ n \in 0 .. Len(list) /\ list \in Seq(Samples) /\ Len(list) \in Nat
      /\ bytes \in Nat /\ RowBytes(row) \in Nat
  BY SomeLeave, ListTypes, RowSize
<1>2. list' = Append(Without(n), row) /\ bytes' = BytesWithout(n) + RowBytes(row)
  BY DEF AddRow
<1> HIDE DEF n
<1>3. /\ Without(n) \in Seq(Samples) /\ Len(Without(n)) = Len(list) - n
      /\ out \in Seq(Samples)
  BY <1>1 DEF Without
<1>4. BytesOf(out) \in Nat /\ BytesOf(Without(n)) \in Nat
  BY <1>3, BytesAreNat
<1> DEFINE left == bytes - BytesOf(out)
<1>5. BytesWithout(n) = IF left >= 0 THEN left ELSE 0
  BY <1>1, BytesLeft
<1>6. list' \in Seq(Samples) /\ Len(list') = Len(list) - n + 1
  <2> HIDE DEF out, left
  <2>1. list' \in Seq(Samples) /\ Len(list') = Len(Without(n)) + 1
    BY <1>2, <1>3
  <2>q. QED
    BY <1>3, <2>1
<1>7. bytes' \in Nat
  BY <1>1, <1>2, <1>4, <1>5
<1>8. ASSUME BytesExact
      PROVE  BytesExact'
  <2>1. bytes = BytesOf(out) + BytesOf(Without(n))
    BY <1>1, <1>8, CutKeepsBytes DEF BytesExact, Without
  <2>2. BytesOf(list') = BytesOf(Without(n)) + RowBytes(row)
    BY <1>2, <1>3, RowAddsItsBytes
  <2>3. BytesWithout(n) = BytesOf(Without(n))
    BY <1>1, <1>4, <1>5, <2>1
  <2>q. QED
    BY <1>2, <2>2, <2>3 DEF BytesExact
<1>q. QED
  BY <1>6, <1>7, <1>8 DEF n

-----------------------------------------------------------------------------
(* The types.  What the deduper keeps of its records, and a record beside   *)
(* those of other samples, are records, one per sample.                     *)
Records == deduper \subseteq Record /\ \A e, f \in deduper : e.sample = f.sample => e = f

(* A sweep of the deduper leaves records, one per sample.                   *)
LEMMA SweepTypes ==
    ASSUME TypeOK, deduper' = Swept, Sweep
    PROVE  Records' /\ lastSweep' \in Nat
BY DEF TypeOK, Records, Swept, Sweep, SweepDue

(* Recording a sample for a source replaces the record it had.              *)
LEMMA RecordTypes ==
    ASSUME TypeOK, NEW sample \in Samples, NEW s \in Sources,
           deduper' = Recorded(sample, s), Sweep
    PROVE  Records' /\ lastSweep' \in Nat
<1> DEFINE rec == [sample |-> sample, at |-> now, source |-> s]
<1>1. now \in Nat /\ lastSweep \in Nat /\ Records
  BY DEF TypeOK, Records
<1>2. rec \in Record /\ rec.sample = sample
  BY <1>1 DEF Record
<1>3. deduper' = {e \in Swept : e.sample # sample} \cup {rec}
  BY DEF Recorded
<1> HIDE DEF rec
<1>4. Swept \subseteq deduper
  BY DEF Swept
<1>5. Records'
  BY <1>1, <1>2, <1>3, <1>4 DEF Records
<1>6. lastSweep' \in Nat
  BY <1>1 DEF Sweep
<1>q. QED
  BY <1>5, <1>6

(* What a source brings is a sample it has not brought before.              *)
LEMMA BringsTypes ==
    ASSUME TypeOK, NEW s \in Sources, Brings(s)
    PROVE  /\ Sample(s) \in Samples
           /\ Sample(s).key \in Keys /\ Sample(s).content \in Contents
           /\ pubs' \in Seq(Samples)
           /\ seen' \in [Sources -> Nat] /\ \A q \in Sources : seen'[q] <= Len(pubs')
           /\ seen[s] + 1 \in Nat \ {0}
<1>1. /\ pubs \in Seq(Samples) /\ Len(pubs) \in Nat
      /\ seen \in [Sources -> Nat] /\ seen[s] \in Nat
      /\ \A q \in Sources : seen[q] <= Len(pubs)
  BY DEF TypeOK
<1>2. seen[s] < Len(pubs) /\ seen' = [seen EXCEPT ![s] = seen[s] + 1] /\ pubs' = pubs
  BY DEF Brings
<1>3. seen[s] + 1 \in 1 .. Len(pubs)
  BY <1>1, <1>2
<1>4. Sample(s) \in Samples
  BY <1>1, <1>3 DEF Sample
<1>5. seen' \in [Sources -> Nat] /\ \A q \in Sources : seen'[q] <= Len(pubs)
  BY <1>1, <1>2, <1>3
<1>q. QED
  BY <1>1, <1>2, <1>3, <1>4, <1>5 DEF Samples

(* Counters that go up.                                                     *)
Counters == [dropped : Nat, notListed : Nat, deduped : Nat]

(* The updates of the three counters the handlers make.                     *)
LEMMA CountersTypes ==
    ASSUME TypeOK, NEW a \in Nat, NEW b \in Nat
    PROVE  /\ counters \in Counters
           /\ [counters EXCEPT !.dropped = @ + a, !.notListed = @ + b] \in Counters
           /\ [counters EXCEPT !.dropped = @ + a] \in Counters
           /\ [counters EXCEPT !.deduped = @ + 1] \in Counters
<1>1. /\ counters \in Counters
      /\ counters.dropped \in Nat /\ counters.notListed \in Nat
      /\ counters.deduped \in Nat
  BY DEF TypeOK, Counters
<1>2. [counters EXCEPT !.dropped = @ + a] \in Counters
  BY <1>1 DEF Counters
<1>3. [counters EXCEPT !.deduped = @ + 1] \in Counters
  BY <1>1 DEF Counters
<1>4. [counters EXCEPT !.dropped = @ + a, !.notListed = @ + b] \in Counters
  <2> DEFINE more == [counters EXCEPT !.dropped = @ + a]
  <2>1. more.notListed + b \in Nat
    BY <1>1 DEF Counters
  <2>2. [more EXCEPT !.notListed = @ + b] \in Counters
    <3> HIDE DEF more
    <3>q. QED
      BY <1>2, <2>1 DEF Counters, more
  <2>3. [counters EXCEPT !.dropped = @ + a, !.notListed = @ + b]
            = [more EXCEPT !.notListed = @ + b]
    BY <1>1 DEF Counters
  <2>q. QED
    BY <2>2, <2>3
<1>q. QED
  BY <1>1, <1>2, <1>3, <1>4

(* A sample that is processed.                                              *)
LEMMA ProcessTypes ==
    ASSUME TypeOK, NEW s \in Sources, Process(s)
    PROVE  TypeOK'
<1> DEFINE sample == Sample(s)
           displayed == Listable(sample.key) /\ RateAccepts
           new == [n |-> seen[s] + 1, source |-> s, at |-> now,
                   dedup |-> controls.dedup]
<1>1. Brings(s)
  BY DEF Process
<1>2. /\ sample \in Samples /\ sample.key \in Keys /\ sample.content \in Contents
      /\ pubs' \in Seq(Samples)
      /\ seen' \in [Sources -> Nat] /\ \A q \in Sources : seen'[q] <= Len(pubs')
      /\ seen[s] + 1 \in Nat \ {0}
  BY <1>1, BringsTypes
<1>3. UNCHANGED <<now, replies, edits, controls>>
  BY <1>1 DEF Brings
<1>4. Records' /\ lastSweep' \in Nat
  <2>1. CASE controls.dedup
    <3>1. deduper' = Recorded(sample, s) /\ Sweep
      BY <2>1 DEF Process
    <3> HIDE DEF sample
    <3>q. QED
      BY <1>2, <3>1, RecordTypes
  <2>2. CASE ~controls.dedup
    BY <2>2 DEF Process, TypeOK, Records
  <2>q. QED
    BY <2>1, <2>2
<1>5. window' \in [start : Nat, count : Nat]
  <2>1. window' = window \/ window' = RateUpdated
    BY DEF Process
  <2>2. window \in [start : Nat, count : Nat] /\ now \in Nat
    BY DEF TypeOK
  <2>3. RateUpdated \in {window, [start |-> now, count |-> 1],
                         [window EXCEPT !.count = @ + 1]}
    BY DEF RateUpdated
  <2>4. [window EXCEPT !.count = @ + 1] \in [start : Nat, count : Nat]
    BY <2>2
  <2>q. QED
    BY <2>1, <2>2, <2>3, <2>4
<1>6. tree' \in [Keys -> [count : Nat, value : SUBSET Contents]]
  <2>1. tree' = tree \/ tree' = [tree EXCEPT ![sample.key] =
            [count |-> tree[sample.key].count + 1, value |-> {sample.content}]]
    BY DEF Process, AddToTree
  <2>2. tree \in [Keys -> [count : Nat, value : SUBSET Contents]]
    BY DEF TypeOK
  <2> HIDE DEF sample
  <2>3. [count |-> tree[sample.key].count + 1, value |-> {sample.content}]
            \in [count : Nat, value : SUBSET Contents]
    BY <1>2, <2>2
  <2>q. QED
    BY <1>2, <2>1, <2>2, <2>3
<1>7. store' \in [Keys -> SUBSET Contents]
  <2>1. store' = [store EXCEPT ![sample.key] = {sample.content}]
    BY DEF Process, Store
  <2>q. QED
    BY <1>2, <2>1 DEF TypeOK
<1>8. list' \in Seq(Samples) /\ bytes' \in Nat
  <2>1. AddRow(sample) \/ UNCHANGED <<list, bytes>>
    BY DEF Process
  <2> HIDE DEF sample
  <2>q. QED
    BY <1>2, <2>1, RowAdded DEF TypeOK
<1>9. counters' \in Counters
  <2>1. Evictions(sample) \in Nat
    BY <1>2, SomeLeave, ListTypes
  <2>2. counters' = [counters EXCEPT
            !.dropped = @ + IF displayed THEN Evictions(sample) ELSE 0,
            !.notListed = @ + IF Listable(sample.key) /\ ~RateAccepts THEN 1 ELSE 0]
    BY DEF Process
  <2> DEFINE more == IF displayed THEN Evictions(sample) ELSE 0
             unlisted == IF Listable(sample.key) /\ ~RateAccepts THEN 1 ELSE 0
  <2>3. more \in Nat /\ unlisted \in Nat
    BY <2>1
  <2>4. counters' = [counters EXCEPT !.dropped = @ + more, !.notListed = @ + unlisted]
    BY <2>2
  <2> HIDE DEF more, unlisted
  <2>q. QED
    BY <2>3, <2>4, CountersTypes
<1>10. accepted' \subseteq
         [n : Nat \ {0}, source : Sources, at : Nat, dedup : BOOLEAN]
  <2>1. accepted' = accepted \cup {new}
    BY DEF Process
  <2>2. now \in Nat /\ controls.dedup \in BOOLEAN
    BY DEF TypeOK
  <2>q. QED
    BY <1>2, <2>1, <2>2 DEF TypeOK
<1>11. uncounted' \in Nat
  BY DEF Process, TypeOK
<1>q. QED
  BY <1>2, <1>3, <1>4, <1>5, <1>6, <1>7, <1>8, <1>9, <1>10, <1>11
     DEF TypeOK, Records, Counters

(* A change made with the controls.                                         *)
LEMMA EditTypes ==
    ASSUME TypeOK, EditControls \/ Clear
    PROVE  TypeOK'
<1> DEFINE types == [dedup : BOOLEAN, paused : SUBSET Keys, count : CountLimits,
                     memory : MemoryLimits, rate : RateLimits]
<1>1. /\ edits' \in Nat
      /\ UNCHANGED <<now, pubs, seen, replies, deduper, lastSweep, window,
                     tree, store, accepted>>
  BY DEF EditControls, Clear, Edit, feed, TypeOK
<1>2. controls' \in types
  <2>1. controls \in types /\ controls.paused \in SUBSET Keys
    BY DEF TypeOK
  <2>2. CASE Clear
    BY <2>1, <2>2 DEF Clear
  <2>3. CASE controls' = [controls EXCEPT !.dedup = ~@]
    BY <2>1, <2>3
  <2>4. ASSUME NEW n \in CountLimits, controls' = [controls EXCEPT !.count = n]
        PROVE  controls' \in types
    BY <2>1, <2>4
  <2>5. ASSUME NEW n \in MemoryLimits, controls' = [controls EXCEPT !.memory = n]
        PROVE  controls' \in types
    BY <2>1, <2>5
  <2>6. ASSUME NEW n \in RateLimits, controls' = [controls EXCEPT !.rate = n]
        PROVE  controls' \in types
    BY <2>1, <2>6
  <2>7. ASSUME NEW keys \in SUBSET Keys, controls' = [controls EXCEPT !.paused = keys]
        PROVE  controls' \in types
    BY <2>1, <2>7
  <2>8. ASSUME NEW k \in Keys \ ChunkKeys, controls' = [controls EXCEPT !.paused =
                  IF k \in @ THEN @ \ {k} ELSE @ \cup {k}]
        PROVE  controls' \in types
    <3> DEFINE keys == IF k \in controls.paused THEN controls.paused \ {k}
                       ELSE controls.paused \cup {k}
    <3>1. keys \in SUBSET Keys
      BY <2>1
    <3>2. controls' = [controls EXCEPT !.paused = keys]
      BY <2>8
    <3>q. QED
      BY <2>7, <3>1, <3>2
  <2>9. CASE controls' = [controls EXCEPT !.paused = {}]
    BY <2>7, <2>9
  <2> HIDE DEF types
  <2>q. QED
    BY <2>2, <2>3, <2>4, <2>5, <2>6, <2>8, <2>9 DEF EditControls
<1>3. /\ list' \in Seq(Samples) /\ bytes' \in Nat /\ uncounted' \in Nat
      /\ counters' \in Counters
  <2>1. /\ counters \in Counters
        /\ uncounted \in Nat
    BY DEF TypeOK, Counters
  <2>2. CASE EditControls
    BY <2>1, <2>2, ListTypes DEF EditControls
  <2>3. CASE Clear
    BY <2>1, <2>3, ListTypes DEF Clear, Counters
  <2>q. QED
    BY <2>2, <2>3
<1>q. QED
  BY <1>1, <1>2, <1>3 DEF TypeOK, Counters

(* TypeOK for any keys, contents, sources, windows and limits.              *)
LEMMA InitTypes ==
    ASSUME Init
    PROVE  TypeOK
<1>1. pubs \in Seq(Samples)
  <2>1. Published \subseteq Samples /\ MaxPublications \in Nat
    BY IngestAssumption DEF Samples
  <2>2. pubs \in [1 .. MaxPublications -> Samples]
    BY <2>1 DEF Init
  <2>q. QED
    BY <2>1, <2>2
<1>2. \A limits \in {CountLimits, MemoryLimits, RateLimits} : Max(limits) \in limits
  <2>1. \A limits \in {CountLimits, MemoryLimits, RateLimits} :
            limits # {} /\ IsFiniteSet(limits) /\ limits \in SUBSET Nat
    BY LimitsAreNat, IngestAssumption
  <2>q. QED
    BY <2>1, MaxIn
<1>3. controls \in [dedup : BOOLEAN, paused : SUBSET Keys, count : CountLimits,
                    memory : MemoryLimits, rate : RateLimits]
  BY <1>2 DEF Init
<1>q. QED
  BY <1>1, <1>3 DEF Init, TypeOK, NoValue

(* Every step keeps the types.                                              *)
LEMMA StepTypes ==
    ASSUME TypeOK, [Next]_vars
    PROVE  TypeOK'
<1>1. CASE UNCHANGED vars
  BY <1>1 DEF vars, feed, TypeOK
<1>2. CASE Tick
  BY <1>2 DEF Tick, feed, TypeOK
<1>3. ASSUME NEW s \in Sources, Deduped(s)
      PROVE  TypeOK'
  <2>1. /\ Brings(s) /\ deduper' = Swept /\ Sweep
        /\ UNCHANGED <<window, list, bytes, tree, store, accepted, uncounted>>
        /\ counters' = [counters EXCEPT !.deduped = @ + 1]
    BY <1>3 DEF Deduped
  <2>2. UNCHANGED <<now, replies, edits, controls>>
    BY <2>1 DEF Brings
  <2>3. Records' /\ lastSweep' \in Nat
    BY <2>1, SweepTypes
  <2>4. /\ pubs' \in Seq(Samples) /\ seen' \in [Sources -> Nat]
        /\ \A q \in Sources : seen'[q] <= Len(pubs')
    BY <2>1, BringsTypes
  <2>5. counters' \in Counters
    BY <2>1, CountersTypes
  <2>q. QED
    BY <2>1, <2>2, <2>3, <2>4, <2>5 DEF TypeOK, Records, Counters
<1>4. ASSUME NEW s \in Sources, Lose(s)
      PROVE  TypeOK'
  <2>1. /\ Brings(s)
        /\ UNCHANGED <<deduper, lastSweep, window, list, bytes, counters, tree,
                       store, accepted, uncounted>>
    BY <1>4 DEF Lose
  <2>2. UNCHANGED <<now, replies, edits, controls>>
    BY <2>1 DEF Brings
  <2>3. /\ pubs' \in Seq(Samples) /\ seen' \in [Sources -> Nat]
        /\ \A q \in Sources : seen'[q] <= Len(pubs')
    BY <2>1, BringsTypes
  <2>q. QED
    BY <2>1, <2>2, <2>3 DEF TypeOK
<1>5. ASSUME NEW row \in Samples, Reply(row)
      PROVE  TypeOK'
  <2>1. /\ replies' = replies + 1 /\ AddRow(row)
        /\ counters' = [counters EXCEPT !.dropped = @ + Evictions(row)]
        /\ UNCHANGED <<now, pubs, seen, edits, deduper, lastSweep, window,
                       controls, tree, store, accepted, uncounted>>
    BY <1>5 DEF Reply
  <2>2. list' \in Seq(Samples) /\ bytes' \in Nat
    BY <2>1, RowAdded
  <2>3. Evictions(row) \in Nat
    BY SomeLeave, ListTypes
  <2>4. counters' \in Counters
    BY <2>1, <2>3, CountersTypes
  <2>5. replies' \in Nat
    BY <2>1 DEF TypeOK
  <2>q. QED
    BY <2>1, <2>2, <2>4, <2>5 DEF TypeOK, Counters
<1>q. QED
  BY <1>1, <1>2, <1>3, <1>4, <1>5, ProcessTypes, EditTypes DEF Next

(* TypeOK for any keys, contents, sources and limits: of the deduper too,   *)
(* that a sample has one record, and of the list, that its bytes stay a     *)
(* natural number whatever the trims subtract.                              *)
THEOREM IngestTypes == Spec => []TypeOK
BY InitTypes, StepTypes, PTL DEF Spec

-----------------------------------------------------------------------------
(* What the tree counts: nothing at first, and one more with each sample    *)
(* that it takes.                                                           *)
LEMMA ReceivedIsNat ==
    ASSUME TypeOK
    PROVE  Received \in Nat
<1> DEFINE f == [k \in Keys |-> tree[k].count]
<1>1. \A k \in Keys : f[k] \in Nat
  BY DEF TypeOK
<1>2. Received = SumFunctionOnSet(f, Keys)
  BY DEF Received, SumFunction
<1> HIDE DEF f
<1>q. QED
  BY <1>1, <1>2, SumIsNat, IngestAssumption

(* add_to_tree counts a plain sample once and a chunk not at all.           *)
LEMMA TreeCountsOne ==
    ASSUME TypeOK, NEW key \in Keys, NEW content, AddToTree(key, content)
    PROVE  Received' = Received + IF key \in ChunkKeys THEN 0 ELSE 1
<1>1. CASE key \in ChunkKeys
  <2>1. tree' = tree
    BY <1>1 DEF AddToTree
  <2>2. Received' = Received
    BY <2>1 DEF Received
  <2>q. QED
    BY <1>1, <2>2, ReceivedIsNat
<1>2. CASE key \notin ChunkKeys
  <2> DEFINE f == [k \in Keys |-> tree[k].count]
             g == [k \in Keys |-> tree'[k].count]
             rest == Keys \ {key}
  <2>1. tree' = [tree EXCEPT ![key] = [count |-> tree[key].count + 1,
                                       value |-> {content}]]
    BY <1>2 DEF AddToTree
  <2>2. tree = [k \in Keys |-> tree[k]] /\ \A k \in Keys : tree[k].count \in Nat
    BY DEF TypeOK
  <2>3. g[key] = f[key] + 1 /\ \A k \in rest : g[k] = f[k]
    BY <2>1, <2>2
  <2>4. \A k \in Keys : f[k] \in Nat /\ g[k] \in Nat
    BY <2>2, <2>3
  <2>5. /\ Received = SumFunctionOnSet(f, Keys)
        /\ Received' = SumFunctionOnSet(g, Keys)
    BY DEF Received, SumFunction
  <2> HIDE DEF f, g
  <2>6. IsFiniteSet(Keys) /\ IsFiniteSet(rest)
    BY IngestAssumption, FS_RemoveElement
  <2>7. /\ SumFunctionOnSet(f, Keys) = f[key] + SumFunctionOnSet(f, rest)
        /\ SumFunctionOnSet(g, Keys) = g[key] + SumFunctionOnSet(g, rest)
    BY <2>4, <2>6, SumWithout
  <2>8. SumFunctionOnSet(g, rest) = SumFunctionOnSet(f, rest)
    BY <2>3, <2>6, SumOfSame
  <2>9. SumFunctionOnSet(f, rest) \in Nat
    BY <2>4, <2>6, SumIsNat
  <2>10. Received' = Received + 1
    BY <2>3, <2>4, <2>5, <2>7, <2>8, <2>9
  <2>q. QED
    BY <1>2, <2>10
<1>q. QED
  BY <1>1, <1>2

(* The header's two sums.                                                   *)
RowsExplained ==
    Received + replies = Len(list) + counters.dropped + counters.notListed + uncounted

(* The header starts at nothing.                                            *)
LEMMA InitHeader ==
    ASSUME Init
    PROVE  HeaderAddsUp
<1> DEFINE f == [k \in Keys |-> tree[k].count]
<1>1. \A k \in Keys : f[k] = 0
  BY DEF Init, NoValue
<1>2. Received = SumFunctionOnSet(f, Keys)
  BY DEF Received, SumFunction
<1> HIDE DEF f
<1>3. Received = 0
  BY <1>1, <1>2, SumOfZeros, IngestAssumption
<1>4. /\ replies = 0 /\ list = <<>> /\ bytes = 0 /\ uncounted = 0
      /\ counters.dropped = 0 /\ counters.notListed = 0
  BY DEF Init
<1>5. BytesExact
  BY <1>4, NoRowsNoBytes DEF BytesExact
<1>q. QED
  BY <1>3, <1>4, <1>5 DEF HeaderAddsUp

(* The two sums are of natural numbers.                                     *)
LEMMA HeaderTypes ==
    ASSUME TypeOK
    PROVE  /\ Received \in Nat /\ replies \in Nat /\ uncounted \in Nat
           /\ counters \in Counters
           /\ counters.dropped \in Nat /\ counters.notListed \in Nat
           /\ Len(list) \in Nat
BY ReceivedIsNat, ListTypes DEF TypeOK, Counters

(* A sample that is processed is in the list, was trimmed or over the rate, *)
(* or its topic is paused.                                                  *)
LEMMA ProcessHeader ==
    ASSUME TypeOK, HeaderAddsUp, NEW s \in Sources, Process(s)
    PROVE  HeaderAddsUp'
<1> DEFINE sample == Sample(s)
           listable == Listable(sample.key)
           displayed == listable /\ RateAccepts
           gone == IF displayed THEN Evictions(sample) ELSE 0
           unlisted == IF listable /\ ~RateAccepts THEN 1 ELSE 0
<1>1. Brings(s) /\ sample \in Samples /\ sample.key \in Keys
  BY BringsTypes DEF Process
<1>2. /\ AddToTree(sample.key, sample.content)
      /\ IF displayed THEN AddRow(sample) ELSE UNCHANGED <<list, bytes>>
      /\ counters' = [counters EXCEPT !.dropped = @ + gone, !.notListed = @ + unlisted]
      /\ uncounted' = uncounted + IF listable \/ sample.key \in ChunkKeys THEN 0 ELSE 1
      /\ replies' = replies
  BY DEF Process, Brings
<1>3. listable => sample.key \notin ChunkKeys
  BY DEF Listable
<1> HIDE DEF sample, listable
<1>4. Received' = Received + IF sample.key \in ChunkKeys THEN 0 ELSE 1
  BY <1>1, <1>2, TreeCountsOne
<1>5. Evictions(sample) \in Nat /\ Evictions(sample) <= Len(list)
  BY <1>1, SomeLeave, ListTypes
<1>6. gone \in Nat /\ unlisted \in Nat
  BY <1>5
<1>7. counters'.dropped = counters.dropped + gone
      /\ counters'.notListed = counters.notListed + unlisted
  <2> HIDE DEF gone, unlisted
  <2>q. QED
    BY <1>2, HeaderTypes DEF Counters
<1>8. BytesExact' /\ Len(list') = IF displayed THEN Len(list) - gone + 1 ELSE Len(list)
  <2>1. CASE displayed
    <3>1. AddRow(sample) /\ gone = Evictions(sample)
      BY <1>2, <2>1
    <3>2. BytesExact
      BY DEF HeaderAddsUp
    <3>q. QED
      BY <1>1, <2>1, <3>1, <3>2, RowAdded
  <2>2. CASE ~displayed
    BY <1>2, <2>2 DEF HeaderAddsUp, BytesExact
  <2>q. QED
    BY <2>1, <2>2
<1>9. /\ RowsExplained
      /\ Received \in Nat /\ replies \in Nat /\ uncounted \in Nat
      /\ counters.dropped \in Nat /\ counters.notListed \in Nat /\ Len(list) \in Nat
  BY HeaderTypes DEF HeaderAddsUp, RowsExplained
<1>10. RowsExplained'
  <2>0. replies' = replies
    BY <1>2
  <2>1. CASE displayed
    <3>1. /\ Received' = Received + 1 /\ uncounted' = uncounted
          /\ counters'.notListed = counters.notListed
          /\ counters'.dropped = counters.dropped + gone
          /\ Len(list') = Len(list) - gone + 1
      BY <1>2, <1>3, <1>4, <1>7, <1>8, <1>9, <2>1
    <3> HIDE DEF gone, unlisted
    <3>q. QED
      BY <1>6, <1>9, <2>0, <3>1 DEF RowsExplained
  <2>2. CASE listable /\ ~RateAccepts
    <3>1. /\ Received' = Received + 1 /\ uncounted' = uncounted
          /\ counters'.notListed = counters.notListed + 1
          /\ counters'.dropped = counters.dropped
          /\ Len(list') = Len(list)
      BY <1>2, <1>3, <1>4, <1>7, <1>8, <1>9, <2>2
    <3>q. QED
      BY <1>9, <2>0, <3>1 DEF RowsExplained
  <2>3. CASE ~listable
    <3>1. /\ counters'.notListed = counters.notListed
          /\ counters'.dropped = counters.dropped
          /\ Len(list') = Len(list)
      BY <1>7, <1>8, <1>9, <2>3
    <3>2. CASE sample.key \in ChunkKeys
      <4>1. Received' = Received /\ uncounted' = uncounted
        BY <1>2, <1>4, <1>9, <3>2
      <4>q. QED
        BY <1>9, <2>0, <3>1, <4>1 DEF RowsExplained
    <3>3. CASE sample.key \notin ChunkKeys
      <4>1. Received' = Received + 1 /\ uncounted' = uncounted + 1
        BY <1>2, <1>4, <1>9, <2>3, <3>3
      <4>q. QED
        BY <1>9, <2>0, <3>1, <4>1 DEF RowsExplained
    <3>q. QED
      BY <3>2, <3>3
  <2>q. QED
    BY <2>1, <2>2, <2>3
<1>q. QED
  BY <1>8, <1>10 DEF HeaderAddsUp, RowsExplained

(* A query's reply is one row more, and the rows it pushes out are told as  *)
(* dropped.                                                                 *)
LEMMA ReplyHeader ==
    ASSUME TypeOK, HeaderAddsUp, NEW row \in Samples, Reply(row)
    PROVE  HeaderAddsUp'
<1>1. /\ replies' = replies + 1 /\ AddRow(row)
      /\ counters' = [counters EXCEPT !.dropped = @ + Evictions(row)]
      /\ tree' = tree /\ uncounted' = uncounted
  BY DEF Reply
<1>2. Received' = Received
  BY <1>1 DEF Received
<1>3. Evictions(row) \in Nat /\ Evictions(row) <= Len(list)
  BY SomeLeave, ListTypes
<1>4. counters'.dropped = counters.dropped + Evictions(row)
      /\ counters'.notListed = counters.notListed
  BY <1>1, HeaderTypes DEF Counters
<1>5. BytesExact' /\ Len(list') = Len(list) - Evictions(row) + 1
  BY <1>1, RowAdded DEF HeaderAddsUp
<1>6. /\ RowsExplained
      /\ Received \in Nat /\ replies \in Nat /\ uncounted \in Nat
      /\ counters.dropped \in Nat /\ counters.notListed \in Nat /\ Len(list) \in Nat
  BY HeaderTypes DEF HeaderAddsUp, RowsExplained
<1>7. RowsExplained'
  <2>1. replies' = replies + 1 /\ uncounted' = uncounted
    BY <1>1
  <2>2. PICK n \in Nat : n = Evictions(row)
    BY <1>3
  <2>3. /\ counters'.dropped = counters.dropped + n
        /\ counters'.notListed = counters.notListed
        /\ Len(list') = Len(list) - n + 1
    BY <1>4, <1>5, <2>2
  <2>4. Received' + replies' = Received + replies + 1
    BY <1>2, <1>6, <2>1
  <2>5. Len(list') + counters'.dropped + counters'.notListed + uncounted'
            = Len(list) + counters.dropped + counters.notListed + uncounted + 1
    BY <1>6, <2>1, <2>2, <2>3
  <2>q. QED
    BY <1>6, <2>4, <2>5 DEF RowsExplained
<1>q. QED
  BY <1>5, <1>7 DEF HeaderAddsUp, RowsExplained

(* Clear empties the list and both counters at once: what they accounted for*)
(* is no longer counted.                                                    *)
LEMMA ClearHeader ==
    ASSUME TypeOK, HeaderAddsUp, Clear
    PROVE  HeaderAddsUp'
<1>1. /\ list' = <<>> /\ bytes' = 0 /\ tree' = tree /\ replies' = replies
      /\ counters'.dropped = 0 /\ counters'.notListed = 0
      /\ uncounted' = uncounted + Len(list) + counters.dropped + counters.notListed
  BY DEF Clear, Edit, feed
<1>2. Received' = Received
  BY <1>1 DEF Received
<1>3. BytesExact'
  BY <1>1, NoRowsNoBytes DEF BytesExact
<1>4. Len(list') = 0
  BY <1>1
<1>5. RowsExplained'
  BY <1>1, <1>2, <1>4, HeaderTypes DEF HeaderAddsUp, RowsExplained
<1>q. QED
  BY <1>3, <1>5 DEF HeaderAddsUp, RowsExplained

(* HeaderAddsUp for any traffic, limits and rows: the running byte total    *)
(* never drifts from the rows in the list, and every sample is accounted    *)
(* for.                                                                     *)
THEOREM HeaderIsExact == Spec => []HeaderAddsUp
<1>1. Init => HeaderAddsUp
  BY InitHeader
<1>2. ASSUME TypeOK, HeaderAddsUp, [Next]_vars
      PROVE  HeaderAddsUp'
  <2>1. CASE UNCHANGED <<replies, list, bytes, tree, uncounted>>
             /\ counters'.dropped = counters.dropped
             /\ counters'.notListed = counters.notListed
    <3>1. Received' = Received /\ BytesOf(list') = BytesOf(list)
      BY <2>1 DEF Received
    <3>q. QED
      BY <1>2, <2>1, <3>1 DEF HeaderAddsUp, BytesExact
  <2>2. ASSUME NEW s \in Sources, Deduped(s)
        PROVE  HeaderAddsUp'
    <3>1. counters' = [counters EXCEPT !.deduped = @ + 1]
          /\ UNCHANGED <<replies, list, bytes, tree, uncounted>>
      BY <2>2 DEF Deduped, Brings
    <3>2. counters'.dropped = counters.dropped /\ counters'.notListed = counters.notListed
      BY <1>2, <3>1, HeaderTypes DEF Counters
    <3>q. QED
      BY <2>1, <3>1, <3>2
  <2>3. ASSUME NEW s \in Sources, Lose(s)
        PROVE  HeaderAddsUp'
    BY <2>1, <2>3 DEF Lose, Brings
  <2>4. CASE Tick \/ EditControls \/ UNCHANGED vars
    BY <2>1, <2>4 DEF Tick, EditControls, Edit, feed, vars
  <2>q. QED
    BY <1>2, <2>2, <2>3, <2>4, ProcessHeader, ReplyHeader, ClearHeader DEF Next
<1>q. QED
  BY <1>1, <1>2, InitTypes, StepTypes, PTL DEF Spec

-----------------------------------------------------------------------------
(* What a row may do to the limits: no row leaves while there is room for   *)
(* one more.                                                                *)
LEMMA BytesWithoutOne ==
    ASSUME TypeOK, 1 <= Len(list)
    PROVE  BytesWithout(1) <= BytesWithout(0)
<1>1. bytes \in Nat /\ 0 \in 0 .. Len(list) /\ 1 \in 0 .. Len(list)
  BY ListTypes
<1>2. SubSeq(list, 1, 1) \in Seq(Samples) /\ SubSeq(list, 1, 0) = <<>>
  BY ListTypes
<1>3. BytesOf(SubSeq(list, 1, 1)) \in Nat /\ BytesOf(SubSeq(list, 1, 0)) = 0
  BY <1>2, BytesAreNat, NoRowsNoBytes
<1>4. BytesWithout(0) = bytes
  <2>1. bytes - BytesOf(SubSeq(list, 1, 0)) = bytes
    BY <1>1, <1>3
  <2>q. QED
    BY <1>1, <2>1, BytesLeft
<1>5. LET left == bytes - BytesOf(SubSeq(list, 1, 1))
      IN  BytesWithout(1) = IF left >= 0 THEN left ELSE 0
  BY <1>1, BytesLeft
<1>q. QED
  BY <1>1, <1>3, <1>4, <1>5

(* A row that is added evicts until it fits, or until it is alone.          *)
LEMMA RowKeepsLimits ==
    ASSUME TypeOK, NEW row \in Samples, AddRow(row)
    PROVE  /\ Len(list') > Len(list) => Len(list') <= controls.count
           /\ bytes' > bytes => bytes' <= controls.memory \/ Len(list') = 1
<1> DEFINE n == Evictions(row)
           m == ForMemory(row)
<1>1. /\ n \in 0 .. Len(list) /\ m \in 0 .. Len(list)
      /\ n = m + IF Full(m) THEN 1 ELSE 0
      /\ TooMuch(0, row) => m = Len(list) \/ (~TooMuch(m, row) /\ ~Full(m))
      /\ ~TooMuch(0, row) => m = 0
  BY SomeLeave DEF Evictions, ForMemory
<1>2. /\ Len(list) \in Nat /\ bytes \in Nat /\ controls.memory \in Nat
      /\ controls.count \in Nat /\ controls.count > 0
  BY ListTypes
<1>3. /\ Len(list') = Len(list) - n + 1
      /\ bytes' = BytesWithout(n) + RowBytes(row)
      /\ bytes' \in Nat
  BY RowAdded DEF AddRow
<1>4. /\ Full(m) <=> Len(list) - m >= controls.count
      /\ \A k : TooMuch(k, row) <=> BytesWithout(k) + RowBytes(row) > controls.memory
  BY DEF Full, TooMuch
<1> HIDE DEF n, m
<1>5. Len(list') > Len(list) => Len(list') <= controls.count
  BY <1>1, <1>2, <1>3, <1>4
<1>6. bytes' <= controls.memory \/ Len(list') = 1
  <2>1. CASE TooMuch(0, row) /\ m = Len(list)
    <3>1. n = Len(list)
      BY <1>1, <1>2, <1>4, <2>1
    <3>q. QED
      BY <1>2, <1>3, <3>1
  <2>2. CASE TooMuch(0, row) /\ ~TooMuch(m, row) /\ ~Full(m)
    <3>1. n = m
      BY <1>1, <1>2, <2>2
    <3>q. QED
      BY <1>2, <1>3, <1>4, <2>2, <3>1
  <2>3. CASE ~TooMuch(0, row) /\ n = 0
    BY <1>2, <1>3, <1>4, <2>3
  <2>4. CASE ~TooMuch(0, row) /\ n = 1
    <3>1. BytesWithout(1) <= BytesWithout(0)
      BY <1>1, <1>2, <2>4, BytesWithoutOne
    <3>2. BytesWithout(0) \in Nat /\ BytesWithout(1) \in Nat /\ RowBytes(row) \in Nat
      BY <1>1, <1>2, <2>4, BytesLeft, RowSize
    <3>3. BytesWithout(0) + RowBytes(row) <= controls.memory
      BY <1>2, <1>4, <2>4, <3>2
    <3>q. QED
      BY <1>2, <1>3, <2>4, <3>1, <3>2, <3>3
  <2>q. QED
    BY <1>1, <2>1, <2>2, <2>3, <2>4
<1>q. QED
  BY <1>5, <1>6

(* GrowsWithinLimits for any rows and limits: no row takes the list past    *)
(* its count, nor its bytes past theirs unless it is alone.                 *)
THEOREM ListKeepsItsLimits == Spec => GrowsWithinLimits
<1> DEFINE Kept == /\ Len(list') > Len(list) => Len(list') <= controls.count
                   /\ bytes' > bytes => bytes' <= controls.memory \/ Len(list') = 1
<1>1. ASSUME TypeOK, [Next]_vars
      PROVE  [Kept]_vars
  <2> SUFFICES ASSUME Next
               PROVE  Kept
    BY <1>1
  <2>1. CASE UNCHANGED <<list, bytes>>
    BY <1>1, <2>1, ListTypes
  <2>2. ASSUME NEW row \in Samples, AddRow(row)
        PROVE  Kept
    BY <1>1, <2>2, RowKeepsLimits
  <2>3. ASSUME NEW s \in Sources, Process(s)
        PROVE  Kept
    <3>1. Sample(s) \in Samples
      BY <1>1, <2>3, BringsTypes DEF Process
    <3>2. AddRow(Sample(s)) \/ UNCHANGED <<list, bytes>>
      BY <2>3 DEF Process
    <3>q. QED
      BY <2>1, <2>2, <3>1, <3>2
  <2>4. CASE Clear
    BY <1>1, <2>4, ListTypes DEF Clear
  <2>5. ASSUME NEW s \in Sources, Deduped(s) \/ Lose(s)
        PROVE  UNCHANGED <<list, bytes>>
    BY <2>5 DEF Deduped, Lose
  <2>6. ASSUME NEW row \in Samples, Reply(row)
        PROVE  Kept
    BY <2>2, <2>6 DEF Reply
  <2>7. CASE Tick \/ EditControls
    BY <2>1, <2>7 DEF Tick, EditControls
  <2> HIDE DEF Kept
  <2>q. QED
    BY <2>1, <2>3, <2>4, <2>5, <2>6, <2>7 DEF Next
<1>q. QED
  BY <1>1, InitTypes, StepTypes, PTL DEF Spec, GrowsWithinLimits
=============================================================================
