----------------------------- MODULE BrowseTree -----------------------------
(***************************************************************************)
(* The tree panel: the browse tree with its leaf counts, the filter with   *)
(* its throttled cache, and the rows a frame draws.                        *)
(*                                                                         *)
(* A path is the sequence of its segments; the root is the empty one.  A   *)
(* frame takes the samples that have come in, then draws.  What schedules  *)
(* the next frame is part of the model: an old picture must not stay when  *)
(* nothing moves any more.                                                 *)
(***************************************************************************)
EXTENDS Integers, Sequences, FiniteSets, SequencesExt

CONSTANTS
    Segments,    \* what stands between two slashes of a topic
    Topics,      \* the topics samples arrive on, as paths
    Filters,     \* what the filter box may hold; <<>> is the empty box
    Interval,    \* FILTER_RECOMPUTE_INTERVAL, in clock ticks
    MaxSamples   \* bound: samples received

ASSUME BrowseTreeAssumption ==
    /\ Topics \subseteq Seq(Segments)
    /\ <<>> \in Filters
    /\ Interval \in Nat \ {0}
    /\ MaxSamples \in Nat

VARIABLES
    nodes,     \* the tree: per path [count, leaves]
    version,   \* tree_version
    filter,    \* tree_filter
    cache,     \* tree_filter_cache: at most one [filter, version, age, visible]
    counts,    \* tree_filter_counts: at most one [matching, all]
    opened,    \* branches the user opened while no filter was set
    closed,    \* branches the user closed while one was
    rows,      \* the rows of the last frame
    label,     \* and the counts beside its filter box, none without a filter
    repaintIn  \* ticks until the next frame that somebody asked for: at most one

tree == <<nodes, version>>
picture == <<cache, counts, rows, label, repaintIn>>
treeVars == <<tree, filter, picture, opened, closed>>

-----------------------------------------------------------------------------
Parent(path) == SubSeq(path, 1, Len(path) - 1)
Children(ns, path) == {q \in DOMAIN ns : q # <<>> /\ Parent(q) = path}
IsLeaf(ns, path) == Children(ns, path) = {}

\* Mutant: a new node counts no leaf until it has children.
NodeWithoutLeaf == [count |-> 0, leaves |-> 0]

(* insert_path.  The ancestors of a new node gain a leaf, unless the node   *)
(* it is attached to was the leaf before.                                   *)
NewNode == [count |-> 0, leaves |-> 1]
Existing(path) == Prefixes(path) \cap DOMAIN nodes
Attachment(path) == CHOOSE q \in Existing(path) : \A r \in Existing(path) : Len(r) <= Len(q)

\* Mutant: a leaf that becomes a branch is not told apart.
BumpsAlways(path) == path \notin DOMAIN nodes

Bumps(path) == path \notin DOMAIN nodes /\ ~IsLeaf(nodes, Attachment(path))

Inserted(path) ==
    [q \in DOMAIN nodes \cup Prefixes(path) |->
        IF q \notin DOMAIN nodes THEN NewNode
        ELSE IF Bumps(path) /\ q \in Prefixes(path)
             THEN [nodes[q] EXCEPT !.leaves = @ + 1]
             ELSE nodes[q]]

\* A sample on a topic (update_data), and a chunk of a transfer of it
\* (record_chunk), whose state is in Transfer.tla.
WithSample(path) == [Inserted(path) EXCEPT ![path].count = @ + 1]
WithChunk(path) == Inserted(path)

-----------------------------------------------------------------------------
(* The filter: a substring of the path, matched segment by segment.         *)
Matches(path, f) ==
    \E i \in 1 .. Len(path) - Len(f) + 1 : SubSeq(path, i, i + Len(f) - 1) = f

VisiblePaths(ns, f) ==
    {p \in DOMAIN ns \ {<<>>} :
        \E q \in DOMAIN ns : p \in Prefixes(q) /\ Matches(q, f)}

LeafPaths(ns) == {p \in DOMAIN ns \ {<<>>} : IsLeaf(ns, p)}

MatchCounts(ns, f) ==
    [matching |-> Cardinality({p \in LeafPaths(ns) : Matches(p, f)}),
     all |-> Cardinality(LeafPaths(ns))]

\* Whether the filter's cache must be computed again, and when it may be.
IsStale(f, v) ==
    \A c \in cache : c.filter # f \/ (c.version # v /\ c.age >= Interval)

\* Mutants: nobody asks for the frame that recomputes, nor for the one that
\* draws the new counts.
NoRepaint(held, f, v) == {}
LabelAsDrawn(old, new) == {}

RepaintAfter(held, f, v) ==
    {Interval - c.age : c \in {d \in held : d.filter = f /\ d.version # v
                                              /\ d.age < Interval}}

RepaintForCounts(old, new) == IF old = new THEN {} ELSE {0}

\* The rows: from the root down, through open branches, what the cache shows.
IsOpen(path, filtering) == IF filtering THEN path \notin closed ELSE path \in opened

RowsDrawn(ns, held) ==
    {p \in DOMAIN ns \ {<<>>} : \A q \in Prefixes(p) \ {<<>>} :
        /\ q # p => IsOpen(q, held # {})
        /\ \A c \in held : q \in c.visible}

Soonest(asked) == {n \in asked : \A m \in asked : n <= m}

(* Drawing the panel with filter text f over the nodes ns.                  *)
Draw(f, ns, v) ==
    LET recompute == f # <<>> /\ IsStale(f, v)
        held == IF f = <<>> THEN {}
                ELSE IF recompute
                THEN {[filter |-> f, version |-> v, age |-> 0,
                       visible |-> VisiblePaths(ns, f)]}
                ELSE cache
        counted == IF f = <<>> THEN {}
                   ELSE IF recompute THEN {MatchCounts(ns, f)} ELSE counts
    IN /\ label' = IF f = <<>> THEN {} ELSE counts
       /\ cache' = held
       /\ counts' = counted
       /\ rows' = RowsDrawn(ns, held)
       /\ repaintIn' = Soonest(RepaintForCounts(counts, counted)
                               \cup RepaintAfter(held, f, v))

-----------------------------------------------------------------------------
TreeInit ==
    /\ nodes = [p \in {<<>>} |-> NewNode]
    /\ version = 0
    /\ filter = <<>>
    /\ cache = {} /\ counts = {}
    /\ opened = {} /\ closed = {}
    /\ rows = {} /\ label = {} /\ repaintIn = {}

\* A frame that finds nothing new.
Redraw ==
    /\ Draw(filter, nodes, version)
    /\ UNCHANGED <<tree, filter, opened, closed>>

\* process_events; the frame it belongs to draws next.
Receive(path) ==
    /\ version < MaxSamples
    /\ version' = version + 1
    /\ nodes' \in {WithSample(path), WithChunk(path)}
    /\ repaintIn' = {0}
    /\ UNCHANGED <<filter, cache, counts, rows, label, opened, closed>>

EditFilter(f) ==
    /\ filter' = f
    /\ Draw(f, nodes, version)
    /\ UNCHANGED <<tree, opened, closed>>

\* A click on a branch; the next frame draws it, and input asks for one.
Toggle(path) ==
    /\ path \in rows /\ ~IsLeaf(nodes, path)
    /\ IF cache # {}
       THEN /\ closed' = SymDiff(closed, {path})
            /\ UNCHANGED opened
       ELSE /\ opened' = SymDiff(opened, {path})
            /\ UNCHANGED closed
    /\ repaintIn' = {0}
    /\ UNCHANGED <<tree, filter, cache, counts, rows, label>>

\* A frame that was asked for comes when it is due.
Due == repaintIn = {0}
TreeTick ==
    /\ ~Due
    /\ cache' = {[c EXCEPT !.age = IF @ < Interval THEN @ + 1 ELSE @] : c \in cache}
    /\ repaintIn' = {n - 1 : n \in repaintIn}
    /\ UNCHANGED <<tree, filter, counts, rows, label, opened, closed>>

TreeNext ==
    \/ Redraw
    \/ \E path \in Topics : Receive(path)
    \/ \E f \in Filters : EditFilter(f)
    \/ \E path \in DOMAIN nodes : Toggle(path)
    \/ TreeTick

TreeSpec == TreeInit /\ [][TreeNext]_treeVars

-----------------------------------------------------------------------------
Paths == UNION {Prefixes(t) : t \in Topics}
Visible == [filter : Filters, version : Nat, age : 0 .. Interval,
            visible : SUBSET Paths]

TreeTypeOK ==
    /\ DOMAIN nodes \subseteq Paths \cup {<<>>} /\ <<>> \in DOMAIN nodes
    /\ \A p \in DOMAIN nodes :
        nodes[p] \in [count : 0 .. version, leaves : Nat \ {0}]
    /\ version \in 0 .. MaxSamples
    /\ filter \in Filters
    /\ cache \subseteq Visible /\ Cardinality(cache) <= 1
    /\ counts \subseteq [matching : Nat, all : Nat] /\ Cardinality(counts) <= 1
    /\ label \subseteq [matching : Nat, all : Nat] /\ Cardinality(label) <= 1
    /\ opened \subseteq Paths /\ closed \subseteq Paths
    /\ rows \subseteq DOMAIN nodes \ {<<>>}
    /\ repaintIn \subseteq 0 .. Interval /\ Cardinality(repaintIn) <= 1

(* The count in a row of the tree is kept up step by step, and is the       *)
(* number of leaf topics at or below it: also when a topic turns into a     *)
(* branch, and when one sample creates several levels.                      *)
LeavesCounted ==
    \A p \in DOMAIN nodes :
        nodes[p].leaves =
            Cardinality({q \in DOMAIN nodes : IsLeaf(nodes, q) /\ p \in Prefixes(q)})

(* A filtered tree that lags behind the samples has a frame coming that     *)
(* catches up, no later than the interval after the cache was computed.     *)
StaleMeansRepaint ==
    \A c \in cache : c.version # version =>
        \E n \in repaintIn : n + c.age <= Interval

(* The picture: under a filter every leaf topic that matches is drawn, but  *)
(* for those below a branch the user closed, nothing else is, and "n of m   *)
(* topics" says how many match.  Without one, the branches the user had     *)
(* opened are open again.                                                   *)
Ancestors(p) == Prefixes(p) \ {<<>>, p}
Picture ==
    IF filter = <<>>
    THEN /\ label = {}
         /\ rows = {p \in DOMAIN nodes \ {<<>>} : Ancestors(p) \subseteq opened}
    ELSE /\ LeafPaths(nodes) \cap rows =
                {p \in LeafPaths(nodes) :
                    Matches(p, filter) /\ Ancestors(p) \cap closed = {}}
         /\ \A p \in rows : \E q \in LeafPaths(nodes) :
                p \in Prefixes(q) /\ Matches(q, filter)
         /\ \E n \in label :
                /\ n.all = Cardinality(LeafPaths(nodes))
                /\ n.matching =
                     Cardinality({p \in LeafPaths(nodes) : Matches(p, filter)})
=============================================================================
