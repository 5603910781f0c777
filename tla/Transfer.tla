------------------------------ MODULE Transfer ------------------------------
(***************************************************************************)
(* File transfers: the publish loop that cuts a payload into chunks, the   *)
(* export store and the tree's transfer state that receive them, and the   *)
(* export that puts them together.                                         *)
(*                                                                         *)
(* The publishers are copies of this program.  A sample arrives in the     *)
(* step that puts it, or is lost on the way: each publisher's samples      *)
(* arrive in the order of its puts and nothing orders those of two.        *)
(* Contents are abstract: an entry knows which publication it is from, and *)
(* which chunk of it.                                                      *)
(***************************************************************************)
EXTENDS Integers, FiniteSets, FiniteSetsExt

CONSTANTS
    Topics,
    Publishers,
    Sizes,            \* bound: payload sizes published
    ChunkSize,        \* CHUNK_SIZE
    MaxPlainEntries,  \* MAX_PLAIN_ENTRIES
    MaxPlainBytes,    \* MAX_PLAIN_BYTES
    StaleAge,         \* STALE_TRANSFER_AGE
    MaxPublications,  \* bound: publications
    MaxTime           \* bound: the clock

ASSUME TransferAssumption ==
    /\ Sizes \subseteq Nat
    /\ {ChunkSize, MaxPlainEntries, StaleAge} \subseteq Nat \ {0}
    /\ {MaxPlainBytes, MaxPublications, MaxTime} \subseteq Nat
    /\ ChunkSize <= MaxPlainBytes

VARIABLES
    now,        \* the receiver's clock
    published,  \* publications begun: the last one's number
    sending,    \* what each publisher's chunk loop is at: one record or none
    plain,      \* payload_store: entries stored under their topic
    chunks,     \* payload_store: entries stored under a chunk key
    transfer,   \* the tree's transfer state per topic: one record or none
    streak      \* history: the undisturbed run of chunks last seen per topic

vars == <<now, published, sending, plain, chunks, transfer, streak>>

-----------------------------------------------------------------------------
(* What a chunk key says (a ChunkMeta), and what a publisher puts in one.   *)
Indices(m) == 0 .. m.total - 1
SameGeneration(m, k) ==
    m.topic = k.topic /\ m.size = k.size /\ m.total = k.total

IsSane(m) ==
    /\ m.total > 0
    /\ m.index < m.total
    /\ m.size <= m.total * ChunkSize
    /\ m.size > (m.total - 1) * ChunkSize

ChunkCount(size) == (size + ChunkSize - 1) \div ChunkSize
IsChunked(size) == size > ChunkSize

\* Mutant: the last chunk is not cut at the end.
WholeChunk(size, index) == ChunkSize

\* The chunk from a multiple of ChunkSize to the next, or to the end.
CutLength(size, index) == Min({ChunkSize, size - index * ChunkSize})

\* The put of chunk `index`, as it arrives; of a payload in one piece.
ChunkOf(job, index) ==
    [topic |-> job.topic, size |-> job.size, total |-> ChunkCount(job.size),
     index |-> index, len |-> CutLength(job.size, index),
     from |-> job.id, at |-> now]

WholeOf(topic, size) ==
    [topic |-> topic, len |-> size, from |-> published + 1, at |-> now]

-----------------------------------------------------------------------------
(* The export store, chunk keys.  A new generation replaces the others of   *)
(* its topic; a group that is incomplete and has seen no chunk for StaleAge *)
(* goes whenever a chunk of any topic arrives.                              *)
GroupOf(stored, m) == {c \in stored : SameGeneration(c, m)}
HasAll(group, m) == {c.index : c \in group} = Indices(m)

\* Mutant: the oldest chunk of the group decides.
StaleByOldest(group, m) ==
    /\ ~HasAll(group, m)
    /\ \E c \in group : now - c.at >= StaleAge

IsStale(group, m) ==
    /\ ~HasAll(group, m)
    /\ \A c \in group : now - c.at >= StaleAge

AfterGc(stored) == {c \in stored : ~IsStale(GroupOf(stored, c), c)}

AfterPurge(stored, m) ==
    {c \in stored : c.topic = m.topic => SameGeneration(c, m)}

InsertChunk(c) ==
    IF IsSane(c)
    THEN {d \in AfterPurge(AfterGc(chunks), c) :
            d.topic = c.topic => d.index # c.index} \cup {c}
    ELSE AfterGc(chunks)

(* The export store, plain keys: the oldest go when there are too many      *)
(* entries or too many bytes.                                               *)
Bytes(stored) == SumFunction([e \in stored |-> e.len])

\* Mutant: the newest goes.
NewestOf(stored) == {e \in stored : \A f \in stored : e.at >= f.at}

OldestOf(stored) == {e \in stored : \A f \in stored : e.at <= f.at}

NeedsPlace(stored, topic) ==
    /\ Cardinality(stored) >= MaxPlainEntries
    /\ \A e \in stored : e.topic # topic

Fits(kept, e) == Bytes(kept) + e.len <= MaxPlainBytes

\* What the loop may leave: everything, or, of the entries evicted oldest
\* first, the last one had to go.
KeptFor(stored, e) ==
    {kept \in SUBSET stored :
        /\ Fits(kept, e)
        /\ kept = stored
           \/ \E last \in stored \ kept :
                /\ ~Fits(kept \cup {last}, e)
                /\ last \in OldestOf(kept \cup {last})
                /\ \A gone \in stored \ kept : gone.at <= last.at}

InsertPlain(e) ==
    LET others(stored) == {f \in stored : f.topic # e.topic}
    IN IF e.len > MaxPlainBytes
       THEN plain' = others(plain)
       ELSE \E counted \in IF NeedsPlace(plain, e.topic)
                           THEN {plain \ {old} : old \in OldestOf(plain)}
                           ELSE {plain} :
            \E kept \in KeptFor(others(counted), e) :
                plain' = kept \cup {e}

-----------------------------------------------------------------------------
(* The tree: the transfer state of a topic's node, reset by a chunk of      *)
(* another generation.                                                      *)
\* Mutant: the state starts again when the indices do.
SameUnlessFirst(c) ==
    {t \in transfer[c.topic] : c.index # 0 /\ t.size = c.size /\ t.total = c.total}

SameTransfer(c) == {t \in transfer[c.topic] : t.size = c.size /\ t.total = c.total}

RecordChunk(c) ==
    transfer' =
        IF IsSane(c)
        THEN [transfer EXCEPT ![c.topic] =
                {[size |-> c.size, total |-> c.total,
                  received |-> {c.index} \cup
                               UNION {t.received : t \in SameTransfer(c)}]}]
        ELSE transfer

\* History: chunk c goes on with the run before it, or starts one.
Streak(c) ==
    streak' = [streak EXCEPT ![c.topic] =
        IF c.index = 0 \/ \E r \in @ : /\ r.from = c.from
                                       /\ r.index = c.index - 1
                                       /\ now - r.at < StaleAge
        THEN {c} ELSE {}]

-----------------------------------------------------------------------------
Init ==
    /\ now = 0 /\ published = 0
    /\ sending = [p \in Publishers |-> {}]
    /\ plain = {} /\ chunks = {}
    /\ transfer = [t \in Topics |-> {}]
    /\ streak = [t \in Topics |-> {}]

Tick ==
    /\ now < MaxTime
    /\ now' = now + 1
    /\ UNCHANGED <<published, sending, plain, chunks, transfer, streak>>

MayPublish(p) == sending[p] = {} /\ published < MaxPublications

\* A payload that fits a chunk is one put, and so is another program's,
\* whatever its size.
PublishWhole(p, topic, size) ==
    /\ MayPublish(p)
    /\ published' = published + 1
    /\ InsertPlain(WholeOf(topic, size))
    /\ UNCHANGED <<now, sending, chunks, transfer, streak>>

BeginChunks(p, topic, size) ==
    /\ MayPublish(p)
    /\ IsChunked(size)
    /\ published' = published + 1
    /\ sending' = [sending EXCEPT ![p] =
            {[topic |-> topic, size |-> size, id |-> published + 1, next |-> 0]}]
    /\ UNCHANGED <<now, plain, chunks, transfer, streak>>

\* Mutant of Advance: one chunk past the end.
AdvancePast(p, job) ==
    sending' = [sending EXCEPT ![p] =
        IF job.next < ChunkCount(job.size)
        THEN {[job EXCEPT !.next = @ + 1]} ELSE {}]

\* The offset reaches the end with the last chunk.
Advance(p, job) ==
    sending' = [sending EXCEPT ![p] =
        IF job.next + 1 < ChunkCount(job.size)
        THEN {[job EXCEPT !.next = @ + 1]} ELSE {}]

ChunkArrives(p) ==
    \E job \in sending[p] :
        LET c == ChunkOf(job, job.next)
        IN /\ RecordChunk(c)
           /\ chunks' = InsertChunk(c)
           /\ Streak(c)
           /\ Advance(p, job)
           /\ UNCHANGED <<now, published, plain>>

\* A full pipeline drops samples; so may the network.
ChunkLost(p) ==
    \E job \in sending[p] :
        /\ Advance(p, job)
        /\ UNCHANGED <<now, published, plain, chunks, transfer, streak>>

\* A put fails: what is left of the payload is not sent.
PutFails(p) ==
    /\ sending[p] # {}
    /\ sending' = [sending EXCEPT ![p] = {}]
    /\ UNCHANGED <<now, published, plain, chunks, transfer, streak>>

Next ==
    \/ Tick
    \/ \E p \in Publishers :
        \/ \E topic \in Topics, size \in Sizes :
            PublishWhole(p, topic, size) \/ BeginChunks(p, topic, size)
        \/ ChunkArrives(p) \/ ChunkLost(p) \/ PutFails(p)

Spec == Init /\ [][Next]_vars
-----------------------------------------------------------------------------
(* What the UI reads of the store and the tree.                             *)
StoredAt(topic) == {e \in plain : e.topic = topic}

\* chunk_progress: of the topic's groups the one with the newest chunk.
NewestGroup(topic) ==
    LET groups == {GroupOf(chunks, c) : c \in {d \in chunks : d.topic = topic}}
    IN CHOOSE group \in groups \cup {{}} :
        /\ group = {} <=> groups = {}
        /\ \A other \in groups : \A c \in other : \E d \in group : d.at >= c.at

\* "All chunks received - ready to save".
ReadyToSave(topic) ==
    LET group == NewestGroup(topic)
    IN \E c \in group : Cardinality({d.index : d \in group}) = c.total

\* The Save File button.
SaveOffered(topic) == StoredAt(topic) # {} \/ ReadyToSave(topic)

\* get_payload_for_export: the entries that make up the file, none when it is
\* refused.
Reassembles(group) ==
    \E m \in group :
        /\ HasAll(group, m)
        /\ \A c \in group :
            c.len = IF c.index = m.total - 1
                    THEN m.size - c.index * ChunkSize ELSE ChunkSize
        /\ Bytes(group) = m.size

Exported(topic) ==
    IF StoredAt(topic) # {} THEN StoredAt(topic)
    ELSE IF Reassembles(NewestGroup(topic)) THEN NewestGroup(topic)
    ELSE {}

-----------------------------------------------------------------------------
Job == [topic : Topics, size : Sizes, id : Nat, next : Nat]
Chunk == [topic : Topics, size : Sizes, total : Nat, index : Nat,
          len : Nat, from : Nat, at : Nat]
Plain == [topic : Topics, len : Sizes, from : Nat, at : Nat]
Progress == [size : Sizes, total : Nat, received : SUBSET Nat]

\* Records under keys: at most one of a kind that agree on the key.
AtMostOne(S) == \A x, y \in S : x = y

(* The types; a key holds one entry, a publisher runs one loop, a topic has *)
(* one transfer state, and clocks only show the past.                       *)
TypeOK ==
    /\ now \in Nat /\ published \in Nat
    /\ sending \in [Publishers -> SUBSET Job]
    /\ plain \subseteq Plain
    /\ chunks \subseteq Chunk
    /\ transfer \in [Topics -> SUBSET Progress]
    /\ streak \in [Topics -> SUBSET Chunk]
    /\ \A p \in Publishers :
        /\ AtMostOne(sending[p])
        /\ \A job \in sending[p] :
            IsChunked(job.size) /\ job.next < ChunkCount(job.size)
    /\ \A t \in Topics : AtMostOne(transfer[t]) /\ AtMostOne(streak[t])
    /\ \A t \in Topics : AtMostOne(StoredAt(t))
    /\ \A c, d \in chunks : SameGeneration(c, d) /\ c.index = d.index => c = d
    /\ \A e \in plain \cup chunks : e.at <= now

(* Save File does what it offers: the chunks that the button counts pass    *)
(* every check of the export, their lengths and total included.             *)
SaveWorks == \A t \in Topics : SaveOffered(t) => Exported(t) # {}

(* A transfer is not lost to the traffic around it: as long as chunks of    *)
(* one publication follow each other within StaleAge, undisturbed on their  *)
(* topic, the store keeps all of them through transfers of other topics,    *)
(* collections and evictions - and for good once they are complete.         *)
UndisturbedSavable ==
    \A t \in Topics : \A last \in streak[t] :
        now - last.at < StaleAge \/ last.index = last.total - 1 =>
            \A i \in 0 .. last.index : \E c \in chunks :
                /\ SameGeneration(c, last) /\ c.index = i
                /\ c.from = last.from

(* Whatever transfers of a topic meet or follow each other, the progress in *)
(* the tree is never behind what the store holds nor of another transfer.   *)
(* So the store holds chunks of one generation only, and no file is put     *)
(* together from two sizes.                                                 *)
StoreWithinTree ==
    \A c \in chunks : \E t \in transfer[c.topic] :
        t.size = c.size /\ t.total = c.total /\ c.index \in t.received

(* The plain entries keep to their number and their bytes, and room is made *)
(* with the oldest: what goes for a new entry of another topic is not newer *)
(* than anything that stays.                                                *)
PlainMakesRoom ==
    [][ /\ Cardinality(plain') <= MaxPlainEntries
        /\ Bytes(plain') <= MaxPlainBytes
        /\ \A new \in plain' \ plain, old \in plain \ plain',
              kept \in plain \cap plain' :
            old.topic # new.topic => old.at <= kept.at ]_vars

(* README: a chunked transfer is reassembled when every chunk of it has     *)
(* arrived, so a saved file is what somebody published.                     *)
SavedIsOnePublication == \A t \in Topics : \A c, d \in Exported(t) : c.from = d.from
=============================================================================
