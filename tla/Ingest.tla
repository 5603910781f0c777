------------------------------- MODULE Ingest -------------------------------
(***************************************************************************)
(* What becomes of a received sample: the deduplication of copies, the     *)
(* rate limit and the pauses that thin the message list, the list with its *)
(* two limits, the tree's values and the Save store, and the controls that *)
(* change all this while samples come in.                                  *)
(*                                                                         *)
(* Publications come to the app through several sources (sessions,         *)
(* overlapping subscriptions, the local echo).  Every source brings them   *)
(* in the order they were published; a full pipeline may lose some.  A     *)
(* publication is a key and its content: payload and kind.                 *)
(***************************************************************************)
EXTENDS Integers, Sequences, FiniteSets, FiniteSetsExt

CONSTANTS
    Keys,
    ChunkKeys,      \* the keys among them that are chunk keys
    Contents,
    Published,      \* bound: the samples published
    SizeOf,         \* bytes a row with this content takes in the list
    Sources,
    DedupWindow,    \* DEDUP_WINDOW, in clock ticks
    RateWindow,     \* one second
    CountLimits, MemoryLimits, RateLimits,  \* what the fields may be set to
    MaxPublications, MaxReplies, MaxEdits, MaxTime  \* bounds

ASSUME IngestAssumption ==
    /\ IsFiniteSet(Keys) /\ ChunkKeys \subseteq Keys
    /\ Published \subseteq [key : Keys, content : Contents]
    /\ SizeOf \in [Contents -> Nat]
    /\ {DedupWindow, RateWindow} \subseteq Nat \ {0}
    /\ CountLimits \subseteq Nat \ {0}
    /\ {MemoryLimits, RateLimits} \subseteq SUBSET Nat
    /\ \A limits \in {CountLimits, MemoryLimits, RateLimits} :
        limits # {} /\ IsFiniteSet(limits)
    /\ {MaxPublications, MaxReplies, MaxEdits, MaxTime} \subseteq Nat

VARIABLES
    now,        \* the clock
    pubs,       \* what is published, in order
    seen,       \* how many of them each source has brought
    replies,    \* query replies received
    edits,      \* changes made with the controls
    deduper,    \* what was recorded: [sample, at, source], one per sample
    lastSweep,  \* when the deduper was last swept
    window,     \* the rate limiter: [start, count]
    controls,   \* [dedup, paused, count, memory, rate]
    list,       \* messages: rows [key, content], oldest first
    bytes,      \* current_memory_bytes
    counters,   \* [dropped, notListed, deduped]
    tree,       \* per key: [count, value], value none before the first
    store,      \* payload_store: per key the content or none
    accepted,   \* history: per publication who was counted for it and when
    uncounted   \* history: counted samples that no counter or list shows

feed == <<pubs, seen, replies>>
vars == <<now, feed, edits, deduper, lastSweep, window, controls, list, bytes,
          counters, tree, store, accepted, uncounted>>

-----------------------------------------------------------------------------
(* The deduper.                                                             *)

\* Mutant: a copy is compared with its own source's record.
IsRepeat(sample, source) ==
    \E e \in deduper :
        /\ e.sample = sample
        /\ now - e.at < DedupWindow
        /\ e.source = source

IsDuplicate(sample, source) ==
    \E e \in deduper :
        /\ e.sample = sample
        /\ now - e.at < DedupWindow
        /\ e.source # source

SweepDue == now - lastSweep > DedupWindow

Swept ==
    IF SweepDue THEN {e \in deduper : now - e.at < DedupWindow} ELSE deduper

\* Mutant: the entry of the same sample stays.
RecordedBeside(sample, source) ==
    Swept \cup {[sample |-> sample, at |-> now, source |-> source]}

Recorded(sample, source) ==
    {e \in Swept : e.sample # sample}
        \cup {[sample |-> sample, at |-> now, source |-> source]}

Sweep == lastSweep' = IF SweepDue THEN now ELSE lastSweep

(* The rate limiter: a window that is over starts again.                    *)
RateAccepts ==
    now - window.start >= RateWindow \/ window.count < controls.rate

RateUpdated ==
    IF now - window.start >= RateWindow THEN [start |-> now, count |-> 1]
    ELSE IF RateAccepts THEN [window EXCEPT !.count = @ + 1]
    ELSE window

-----------------------------------------------------------------------------
(* The list.  Rows leave at its front: as many as it takes for the bytes,   *)
(* and then also for the count; otherwise at most one for the count.        *)
RowBytes(row) == SizeOf[row.content]
BytesOf(rows) == SumFunction([i \in DOMAIN rows |-> RowBytes(rows[i])])

\* Mutants: evicted rows leave their bytes behind; one row too many stays.
BytesKept(n) == bytes
Overfull(n) == Len(list) - n > controls.count

Without(n) == SubSeq(list, n + 1, Len(list))
BytesWithout(n) == Max({0, bytes - BytesOf(SubSeq(list, 1, n))})

TooMuch(n, row) == BytesWithout(n) + RowBytes(row) > controls.memory
Full(n) == Len(list) - n >= controls.count

ForMemory(row) ==
    IF TooMuch(0, row)
    THEN Min({n \in 0 .. Len(list) :
                n = Len(list) \/ (~TooMuch(n, row) /\ ~Full(n))})
    ELSE 0

Evictions(row) == ForMemory(row) + IF Full(ForMemory(row)) THEN 1 ELSE 0

AddRow(row) ==
    LET n == Evictions(row)
    IN /\ list' = Append(Without(n), row)
       /\ bytes' = BytesWithout(n) + RowBytes(row)

-----------------------------------------------------------------------------
Samples == [key : Keys, content : Contents]
NoValue == [count |-> 0, value |-> {}]

Init ==
    /\ now = 0 /\ lastSweep = 0 /\ edits = 0
    /\ pubs \in [1 .. MaxPublications -> Published]
    /\ seen = [s \in Sources |-> 0] /\ replies = 0
    /\ deduper = {}
    /\ window = [start |-> 0, count |-> 0]
    /\ controls = [dedup |-> TRUE, paused |-> {}, count |-> Max(CountLimits),
                   memory |-> Max(MemoryLimits), rate |-> Max(RateLimits)]
    /\ list = <<>> /\ bytes = 0
    /\ counters = [dropped |-> 0, notListed |-> 0, deduped |-> 0]
    /\ tree = [k \in Keys |-> NoValue]
    /\ store = [k \in Keys |-> {}]
    /\ accepted = {} /\ uncounted = 0

Tick ==
    /\ now < MaxTime
    /\ now' = now + 1
    /\ UNCHANGED <<feed, edits, deduper, lastSweep, window, controls, list,
                   bytes, counters, tree, store, accepted, uncounted>>

\* The next publication this source brings.
Brings(s) ==
    /\ seen[s] < Len(pubs)
    /\ seen' = [seen EXCEPT ![s] = @ + 1]
    /\ UNCHANGED <<now, pubs, replies, edits, controls>>
Sample(s) == pubs[seen[s] + 1]

Duplicate(s) == controls.dedup /\ IsDuplicate(Sample(s), s)

Deduped(s) ==
    /\ Brings(s)
    /\ Duplicate(s)
    /\ deduper' = Swept
    /\ Sweep
    /\ counters' = [counters EXCEPT !.deduped = @ + 1]
    /\ UNCHANGED <<window, list, bytes, tree, store, accepted, uncounted>>

Listable(key) == key \notin ChunkKeys /\ key \notin controls.paused

\* A chunk has no value of its own in the tree: Transfer.tla.
AddToTree(key, content) ==
    tree' = IF key \in ChunkKeys THEN tree
            ELSE [tree EXCEPT ![key] = [count |-> @.count + 1, value |-> {content}]]

\* Mutant of Store: a paused topic's payload is not stored.
StoreIfListed(key, content) ==
    store' = IF Listable(key) THEN [store EXCEPT ![key] = {content}] ELSE store

\* insert_payload as far as one key sees it: Transfer.tla has the rest.
Store(key, content) == store' = [store EXCEPT ![key] = {content}]

Process(s) ==
    LET key == Sample(s).key
        content == Sample(s).content
        displayed == Listable(key) /\ RateAccepts
    IN /\ Brings(s)
       /\ ~Duplicate(s)
       /\ IF controls.dedup
          THEN deduper' = Recorded(Sample(s), s) /\ Sweep
          ELSE UNCHANGED <<deduper, lastSweep>>
       /\ window' = IF Listable(key) THEN RateUpdated ELSE window
       /\ AddToTree(key, content)
       /\ Store(key, content)
       /\ IF displayed THEN AddRow(Sample(s)) ELSE UNCHANGED <<list, bytes>>
       /\ counters' = [counters EXCEPT
            !.dropped = @ + IF displayed THEN Evictions(Sample(s)) ELSE 0,
            !.notListed = @ + IF Listable(key) /\ ~RateAccepts THEN 1 ELSE 0]
       /\ accepted' = accepted \cup
            {[n |-> seen[s] + 1, source |-> s, at |-> now, dedup |-> controls.dedup]}
       /\ uncounted' = uncounted + IF Listable(key) \/ key \in ChunkKeys THEN 0 ELSE 1

\* A full pipeline drops the sample.
Lose(s) ==
    /\ Brings(s)
    /\ UNCHANGED <<deduper, lastSweep, window, list, bytes, counters, tree,
                   store, accepted, uncounted>>

\* A reply is always listed and touches nothing else.
Reply(row) ==
    /\ replies < MaxReplies
    /\ replies' = replies + 1
    /\ AddRow(row)
    /\ counters' = [counters EXCEPT !.dropped = @ + Evictions(row)]
    /\ UNCHANGED <<now, pubs, seen, edits, deduper, lastSweep, window, controls,
                   tree, store, accepted, uncounted>>

-----------------------------------------------------------------------------
(* The controls of the messages view and of a topic's details.              *)
Edit ==
    /\ edits < MaxEdits
    /\ edits' = edits + 1
    /\ UNCHANGED <<now, feed, deduper, lastSweep, window, tree, store, accepted>>

EditControls ==
    /\ Edit
    /\ \/ controls' = [controls EXCEPT !.dedup = ~@]
       \/ \E n \in CountLimits : controls' = [controls EXCEPT !.count = n]
       \/ \E n \in MemoryLimits : controls' = [controls EXCEPT !.memory = n]
       \/ \E n \in RateLimits : controls' = [controls EXCEPT !.rate = n]
       \/ \E k \in Keys \ ChunkKeys : controls' = [controls EXCEPT !.paused =
            IF k \in @ THEN @ \ {k} ELSE @ \cup {k}]
       \/ controls' = [controls EXCEPT !.paused = {}]
    /\ UNCHANGED <<list, bytes, counters, uncounted>>

Clear ==
    /\ Edit
    /\ list' = <<>>
    /\ bytes' = 0
    /\ counters' = [dropped |-> 0, notListed |-> 0, deduped |-> 0]
    /\ uncounted' = uncounted + Len(list) + counters.dropped + counters.notListed
    /\ UNCHANGED controls

-----------------------------------------------------------------------------
Next ==
    \/ Tick
    \/ \E s \in Sources : Deduped(s) \/ Process(s) \/ Lose(s)
    \/ \E row \in Samples : row.key \notin ChunkKeys /\ Reply(row)
    \/ EditControls \/ Clear

Spec == Init /\ [][Next]_vars

-----------------------------------------------------------------------------
Record == [sample : Samples, at : Nat, source : Sources]

TypeOK ==
    /\ {now, replies, edits, lastSweep, bytes, uncounted} \subseteq Nat
    /\ pubs \in Seq(Samples)
    /\ seen \in [Sources -> Nat] /\ \A s \in Sources : seen[s] <= Len(pubs)
    /\ deduper \subseteq Record
    /\ \A e, f \in deduper : e.sample = f.sample => e = f
    /\ window \in [start : Nat, count : Nat]
    /\ controls \in [dedup : BOOLEAN, paused : SUBSET Keys, count : CountLimits,
                     memory : MemoryLimits, rate : RateLimits]
    /\ list \in Seq(Samples)
    /\ counters \in [dropped : Nat, notListed : Nat, deduped : Nat]
    /\ tree \in [Keys -> [count : Nat, value : SUBSET Contents]]
    /\ store \in [Keys -> SUBSET Contents]
    /\ accepted \subseteq
        [n : Nat \ {0}, source : Sources, at : Nat, dedup : BOOLEAN]

(* A row that is added leaves the list within both limits, or the list does *)
(* not grow: lowering a limit never lets it grow past the new one.          *)
GrowsWithinLimits ==
    [][ /\ Len(list') > Len(list) => Len(list') <= controls.count
        /\ bytes' > bytes => bytes' <= controls.memory \/ Len(list') = 1]_vars

(* The header's numbers add up.  The running byte total is the bytes of the *)
(* rows in the list: through evictions for either limit, changed limits and *)
(* Clear it never drifts.  And no sample disappears: what the tree counts,  *)
(* and the replies, are in the list, or the counters say why not - trimmed, *)
(* over the rate - unless their topic was paused or the list was cleared.   *)
Received == SumFunction([k \in Keys |-> tree[k].count])
BytesExact == bytes = BytesOf(list)
HeaderAddsUp ==
    /\ BytesExact
    /\ Received + replies =
        Len(list) + counters.dropped + counters.notListed + uncounted

(* Save File writes the value the tree shows, whatever was paused, over the *)
(* rate, deduplicated or answered by a query.                               *)
SaveMatchesTree == \A k \in Keys \ ChunkKeys : store[k] = tree[k].value

(* With Dedup on, copies of one publication that arrive within the window   *)
(* from two sources count once at most, however the sources overtake each   *)
(* other and whatever is repeated meanwhile.                                *)
CountedOnceAtMost ==
    \A a, b \in accepted :
        /\ a.n = b.n /\ a.source # b.source
        /\ a.dedup /\ b.dedup
        /\ a.at <= b.at
        => b.at - a.at >= DedupWindow

(* The tree keeps the last received message of a key: when every source has *)
(* brought everything and nothing was lost, it shows the last publication.  *)
NothingLost == \A n \in DOMAIN pubs : \E a \in accepted : a.n = n
TreeShowsLast ==
    (\A s \in Sources : seen[s] = Len(pubs)) /\ NothingLost =>
        \A n \in DOMAIN pubs :
            (\A m \in n + 1 .. Len(pubs) : pubs[m].key # pubs[n].key)
                /\ pubs[n].key \notin ChunkKeys
            => tree[pubs[n].key].value = {pubs[n].content}
=============================================================================
