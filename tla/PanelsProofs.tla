----------------------------- MODULE PanelsProofs -----------------------------
(***************************************************************************)
(* Proofs about the topic tree, the banner and the publish form, for any   *)
(* topics, filters, alerts and files, and that the parts Panels puts side  *)
(* by side keep what was proved of each.                                   *)
(***************************************************************************)
EXTENDS Panels, SumLemmas, TLAPS

(* A prefix is what is left of a path when it is cut after some segments.   *)
Cut(s, l) == SubSeq(s, 1, l)

(* A cut path is a path of that length.                                     *)
LEMMA CutIs ==
    ASSUME NEW s \in Seq(Segments), NEW l \in 0 .. Len(s)
    PROVE  Cut(s, l) \in Seq(Segments) /\ Len(Cut(s, l)) = l
BY DEF Cut

(* Of two cuts the shorter is what is left.                                 *)
LEMMA CutOfCut ==
    ASSUME NEW s \in Seq(Segments), NEW l \in 0 .. Len(s), NEW k \in 0 .. l
    PROVE  Cut(Cut(s, l), k) = Cut(s, k)
BY DEF Cut

(* The path itself and the root are cuts of it.                             *)
LEMMA CutNothing ==
    ASSUME NEW s \in Seq(Segments)
    PROVE  Cut(s, Len(s)) = s /\ Cut(s, 0) = <<>>
BY DEF Cut

(* The tree's nodes of a path are its cuts.                                 *)
LEMMA PrefixesAre ==
    ASSUME NEW s \in Seq(Segments)
    PROVE  Prefixes(s) = {Cut(s, l) : l \in 0 .. Len(s)}
BY DEF Cut, Prefixes

(* What is a prefix of a prefix, which prefix of a path begins which, and   *)
(* where a path has its parent.                                             *)
LEMMA PrefixFacts ==
    ASSUME NEW s \in Seq(Segments), NEW q \in Prefixes(s)
    PROVE  /\ q \in Seq(Segments) /\ Len(q) \in 0 .. Len(s) /\ q = Cut(s, Len(q))
           /\ Prefixes(q) \subseteq Prefixes(s)
           /\ q \in Prefixes(q)
           /\ \A r \in Prefixes(s) : Len(r) <= Len(q) => r \in Prefixes(q)
<1>1. PICK l \in 0 .. Len(s) : q = Cut(s, l)
  BY PrefixesAre
<1>2. q \in Seq(Segments) /\ Len(q) = l
  BY <1>1, CutIs
<1>3. Prefixes(q) = {Cut(q, k) : k \in 0 .. l}
  BY <1>2, PrefixesAre
<1>4. \A k \in 0 .. l : Cut(q, k) = Cut(s, k) /\ k \in 0 .. Len(s)
  BY <1>1, CutOfCut
<1>5. Prefixes(q) \subseteq Prefixes(s)
  BY <1>3, <1>4, PrefixesAre
<1>6. q \in Prefixes(q)
  <2>1. Cut(q, l) = q /\ l \in 0 .. l
    BY <1>2, CutNothing
  <2>q. QED
    BY <1>3, <2>1
<1>7. ASSUME NEW r \in Prefixes(s), Len(r) <= Len(q)
      PROVE  r \in Prefixes(q)
  <2>1. PICK k \in 0 .. Len(s) : r = Cut(s, k)
    BY PrefixesAre
  <2>2. Len(r) = k
    BY <2>1, CutIs
  <2>3. k \in 0 .. l
    BY <1>2, <1>7, <2>2
  <2>q. QED
    BY <1>3, <1>4, <2>1, <2>3
<1>q. QED
  BY <1>1, <1>2, <1>5, <1>6, <1>7

(* The parent of a path is its longest proper prefix, and the root is a     *)
(* prefix of every path.                                                    *)
LEMMA ParentIs ==
    ASSUME NEW s \in Seq(Segments)
    PROVE  /\ <<>> \in Prefixes(s) /\ s \in Prefixes(s)
           /\ s # <<>> => Parent(s) \in Prefixes(s) /\ Len(Parent(s)) = Len(s) - 1
<1>1. Len(s) \in Nat
  OBVIOUS
<1>2. Cut(s, 0) \in Prefixes(s) /\ Cut(s, Len(s)) \in Prefixes(s)
  BY <1>1, PrefixesAre
<1>3. ASSUME s # <<>>
      PROVE  Parent(s) \in Prefixes(s) /\ Len(Parent(s)) = Len(s) - 1
  <2>1. Len(s) - 1 \in 0 .. Len(s)
    BY <1>3
  <2>2. Parent(s) = Cut(s, Len(s) - 1)
    BY DEF Parent, Cut
  <2>q. QED
    BY <2>1, <2>2, CutIs, PrefixesAre
<1>q. QED
  BY <1>2, <1>3, CutNothing

(* Below a proper prefix of a path is another one.                          *)
LEMMA NextPrefix ==
    ASSUME NEW s \in Seq(Segments), NEW q \in Prefixes(s), Len(q) < Len(s)
    PROVE  \E c \in Prefixes(s) : c # <<>> /\ Parent(c) = q /\ Len(c) = Len(q) + 1
<1> DEFINE l == Len(q) + 1
           c == Cut(s, l)
<1>1. l \in 0 .. Len(s) /\ Len(q) \in 0 .. l /\ q = Cut(s, Len(q))
  BY PrefixFacts
<1>2. c \in Seq(Segments) /\ Len(c) = l
  BY <1>1, CutIs
<1>3. Cut(c, Len(q)) = q
  BY <1>1, CutOfCut
<1>4. Parent(c) = Cut(c, Len(q))
  <2>1. Len(c) - 1 = Len(q)
    BY <1>1, <1>2
  <2>q. QED
    BY <2>1 DEF Parent, Cut
<1>5. c \in Prefixes(s)
  BY <1>1, PrefixesAre
<1>6. c # <<>>
  BY <1>1, <1>2
<1>q. QED
  BY <1>2, <1>3, <1>4, <1>5, <1>6

(* A path has finitely many prefixes.                                       *)
LEMMA PrefixesFinite ==
    ASSUME NEW s \in Seq(Segments)
    PROVE  IsFiniteSet(Prefixes(s))
<1> DEFINE f == [l \in 0 .. Len(s) |-> Cut(s, l)]
<1>1. f \in Surjection(0 .. Len(s), Prefixes(s))
  BY PrefixesAre DEF Surjection
<1>2. IsFiniteSet(0 .. Len(s))
  BY FS_Interval
<1> HIDE DEF f
<1>q. QED
  BY <1>1, <1>2, FS_Surjection

-----------------------------------------------------------------------------
(* The nodes of the tree: a finite set of paths that has the root, and with *)
(* every path those it is below.                                            *)
TreeOf(D) ==
    /\ IsFiniteSet(D) /\ D \subseteq Seq(Segments)
    /\ <<>> \in D
    /\ \A p \in D : Prefixes(p) \subseteq D

LeavesBelow(ns, p) == {q \in DOMAIN ns : IsLeaf(ns, q) /\ p \in Prefixes(q)}

(* The node a new path is attached to is the longest prefix there is: the   *)
(* shorter ones are there, the longer ones are not.                         *)
LEMMA AttachedTo ==
    ASSUME TreeOf(DOMAIN nodes), NEW path \in Seq(Segments), path \notin DOMAIN nodes
    PROVE  /\ Attachment(path) \in DOMAIN nodes \cap Prefixes(path)
           /\ Len(Attachment(path)) < Len(path)
           /\ \A q \in Prefixes(path) :
                q \in DOMAIN nodes <=> Len(q) <= Len(Attachment(path))
<1> DEFINE L == {Len(q) : q \in Existing(path)}
           a == Attachment(path)
<1>1. \A q \in Existing(path) : q \in Prefixes(path) /\ q \in DOMAIN nodes /\ Len(q) \in 0 .. Len(path)
  BY PrefixFacts DEF Existing
<1>2. L \subseteq 0 .. Len(path) /\ Len(path) \in Nat
  BY <1>1
<1>3. IsFiniteSet(L) /\ L \in SUBSET Nat
  <2>1. IsFiniteSet(0 .. Len(path))
    BY <1>2, FS_Interval
  <2>q. QED
    BY <1>2, <2>1, FS_Subset
<1>4. L # {}
  BY ParentIs DEF Existing, TreeOf
<1>5. Max(L) \in L /\ \A n \in L : Max(L) >= n
  <2> HIDE DEF L
  <2>q. QED
    BY <1>3, <1>4, MaxIn
<1>6. PICK b \in Existing(path) : Len(b) = Max(L)
  BY <1>5
<1>7. \A r \in Existing(path) : Len(r) <= Len(b)
  <2>1. ASSUME NEW r \in Existing(path)
        PROVE  Len(r) <= Len(b)
    <3>1. Len(r) \in L
      BY <2>1
    <3>2. Len(r) \in Nat /\ Len(b) \in Nat /\ Len(b) >= Len(r)
      BY <1>3, <1>5, <1>6, <3>1
    <3>q. QED
      BY <3>2
  <2>q. QED
    BY <2>1
<1>8. a \in Existing(path) /\ \A r \in Existing(path) : Len(r) <= Len(a)
  BY <1>6, <1>7 DEF Attachment
<1> HIDE DEF a, L
<1>9. a \in DOMAIN nodes /\ a \in Prefixes(path) /\ Len(a) \in 0 .. Len(path)
  BY <1>1, <1>8
<1>10. Len(a) # Len(path)
  <2>1. SUFFICES ASSUME Len(a) = Len(path)
                 PROVE  FALSE
    OBVIOUS
  <2>2. a = Cut(path, Len(path))
    BY <1>9, <2>1, PrefixFacts
  <2>q. QED
    BY <1>9, <2>2, CutNothing
<1>11. ASSUME NEW q \in Prefixes(path)
       PROVE  q \in DOMAIN nodes <=> Len(q) <= Len(a)
  <2>1. ASSUME Len(q) <= Len(a)
        PROVE  q \in DOMAIN nodes
    <3>1. q \in Prefixes(a)
      BY <1>9, <2>1, PrefixFacts
    <3>q. QED
      BY <1>9, <3>1 DEF TreeOf
  <2>2. ASSUME q \in DOMAIN nodes
        PROVE  Len(q) <= Len(a)
    BY <1>8, <2>2 DEF Existing
  <2>q. QED
    BY <2>1, <2>2
<1>q. QED
  BY <1>2, <1>9, <1>10, <1>11 DEF a

(* An insertion leaves a tree.                                              *)
LEMMA InsertedIsTree ==
    ASSUME TreeOf(DOMAIN nodes), NEW path \in Seq(Segments)
    PROVE  TreeOf(DOMAIN nodes \cup Prefixes(path))
<1>1. IsFiniteSet(DOMAIN nodes \cup Prefixes(path))
  BY PrefixesFinite, FS_Union DEF TreeOf
<1>2. \A q \in Prefixes(path) : q \in Seq(Segments) /\ Prefixes(q) \subseteq Prefixes(path)
  BY PrefixFacts
<1>q. QED
  BY <1>1, <1>2 DEF TreeOf

(* The leaves after a new path has come in: it is one, what it is attached  *)
(* to is none any more, and the others are what they were.                  *)
LEMMA LeavesAfter ==
    ASSUME TreeOf(DOMAIN nodes), NEW path \in Seq(Segments), path \notin DOMAIN nodes,
           NEW ns, DOMAIN ns = DOMAIN nodes \cup Prefixes(path), NEW q \in DOMAIN ns
    PROVE  IsLeaf(ns, q) <=>
                \/ q = path
                \/ q \in DOMAIN nodes /\ q # Attachment(path) /\ IsLeaf(nodes, q)
<1> DEFINE a == Attachment(path)
<1>1. /\ a \in DOMAIN nodes /\ a \in Prefixes(path)
      /\ Len(a) < Len(path)
      /\ \A r \in Prefixes(path) : r \in DOMAIN nodes <=> Len(r) <= Len(a)
  BY AttachedTo
<1>2. TreeOf(DOMAIN ns)
  BY InsertedIsTree
<1>3. \A r \in DOMAIN nodes : r \in Seq(Segments) /\ Prefixes(r) \subseteq DOMAIN nodes
  BY DEF TreeOf
<1>4. \A r \in Prefixes(path) : r \in Seq(Segments) /\ Len(r) \in 0 .. Len(path)
  BY PrefixFacts
<1> HIDE DEF a
<1>5. CASE q = path
  <2>1. SUFFICES ASSUME NEW c \in Children(ns, path)
                 PROVE  FALSE
    BY <1>5 DEF IsLeaf
  <2>2. c \in DOMAIN ns /\ c # <<>> /\ Parent(c) = path
    BY DEF Children
  <2>3. c \in Seq(Segments) /\ Len(c) \in Nat
    BY <1>3, <1>4, <2>2
  <2>4. path \in Prefixes(c) /\ Len(path) = Len(c) - 1
    BY <2>2, <2>3, ParentIs
  <2>5. CASE c \in DOMAIN nodes
    BY <1>3, <2>4, <2>5
  <2>6. CASE c \in Prefixes(path)
    BY <1>4, <2>3, <2>4, <2>6
  <2>q. QED
    BY <2>2, <2>5, <2>6
<1>6. CASE q \in Prefixes(path) /\ q # path /\ (q = a \/ q \notin DOMAIN nodes)
  <2>1. Len(q) < Len(path)
    <3>1. CASE Len(q) = Len(path)
      <4>1. q = Cut(path, Len(path))
        BY <1>6, <3>1, PrefixFacts
      <4>q. QED
        BY <1>6, <4>1, CutNothing
    <3>q. QED
      BY <1>4, <1>6, <3>1
  <2>2. PICK c \in Prefixes(path) : c # <<>> /\ Parent(c) = q
    BY <1>6, <2>1, NextPrefix
  <2>3. ~IsLeaf(ns, q)
    BY <2>2 DEF IsLeaf, Children
  <2>q. QED
    BY <1>6, <2>3 DEF a
<1>7. CASE q \in DOMAIN nodes /\ q # a
  <2>1. ASSUME NEW c \in Children(ns, q)
        PROVE  c \in Children(nodes, q)
    <3>1. c \in DOMAIN ns /\ c # <<>> /\ Parent(c) = q
      BY DEF Children
    <3>2. ASSUME c \notin DOMAIN nodes
          PROVE  FALSE
      <4>1. c \in Prefixes(path) /\ c \in Seq(Segments)
        BY <1>4, <3>1, <3>2
      <4>2. q \in Prefixes(c) /\ Len(q) = Len(c) - 1
        BY <3>1, <4>1, ParentIs
      <4>3. q \in Prefixes(path) /\ Prefixes(c) \subseteq Prefixes(path)
        BY <4>1, <4>2, PrefixFacts
      <4>4. Len(q) \in Nat /\ Len(a) \in Nat /\ Len(c) \in Nat
        BY <1>1, <1>4, <4>1, <4>3
      <4>5. Len(c) > Len(a) /\ Len(q) <= Len(a)
        BY <1>1, <1>7, <3>2, <4>1, <4>3, <4>4
      <4>6. Len(q) = Len(a)
        BY <4>2, <4>4, <4>5
      <4>7. q = Cut(path, Len(q)) /\ a = Cut(path, Len(a))
        BY <1>1, <4>3, PrefixFacts
      <4>q. QED
        BY <1>7, <4>6, <4>7
    <3>q. QED
      BY <3>1, <3>2 DEF Children
  <2>2. Children(ns, q) = Children(nodes, q)
    BY <2>1 DEF Children
  <2>3. q # path
    BY <1>7
  <2>q. QED
    BY <1>7, <2>2, <2>3 DEF IsLeaf, a
<1>q. QED
  BY <1>1, <1>5, <1>6, <1>7

(* The nodes after a sample or a chunk: where an insertion differs.         *)
LEMMA InsertedNodes ==
    ASSUME NEW path, version \in Nat,
           \A p \in DOMAIN nodes : nodes[p] \in [count : 0 .. version, leaves : Nat \ {0}],
           NEW ns \in {WithSample(path), WithChunk(path)}
    PROVE  /\ DOMAIN ns = DOMAIN nodes \cup Prefixes(path)
           /\ \A q \in DOMAIN ns :
                /\ ns[q] \in [count : 0 .. version + 1, leaves : Nat \ {0}]
                /\ ns[q].leaves =
                     IF q \notin DOMAIN nodes THEN 1
                     ELSE IF Bumps(path) /\ q \in Prefixes(path) THEN nodes[q].leaves + 1
                     ELSE nodes[q].leaves
<1> DEFINE mid == Inserted(path)
           leaves(q) == IF q \notin DOMAIN nodes THEN 1
                        ELSE IF Bumps(path) /\ q \in Prefixes(path) THEN nodes[q].leaves + 1
                        ELSE nodes[q].leaves
<1>1. DOMAIN mid = DOMAIN nodes \cup Prefixes(path)
  BY DEF Inserted
<1>2. ASSUME NEW q \in DOMAIN mid
      PROVE  mid[q] \in [count : 0 .. version, leaves : Nat \ {0}] /\ mid[q].leaves = leaves(q)
  <2>1. CASE q \notin DOMAIN nodes
    <3>1. mid[q] = [count |-> 0, leaves |-> 1]
      BY <1>2, <2>1 DEF Inserted, NewNode
    <3>q. QED
      BY <2>1, <3>1
  <2>2. CASE q \in DOMAIN nodes /\ Bumps(path) /\ q \in Prefixes(path)
    <3>1. mid[q] = [nodes[q] EXCEPT !.leaves = @ + 1]
      BY <1>2, <2>2 DEF Inserted
    <3>2. nodes[q] \in [count : 0 .. version, leaves : Nat \ {0}]
      BY <2>2
    <3>q. QED
      BY <2>2, <3>1, <3>2
  <2>3. CASE q \in DOMAIN nodes /\ ~(Bumps(path) /\ q \in Prefixes(path))
    <3>1. mid[q] = nodes[q]
      BY <1>2, <2>3 DEF Inserted
    <3>q. QED
      BY <2>3, <3>1
  <2>q. QED
    BY <2>1, <2>2, <2>3
<1>3. ns = mid \/ ns = [mid EXCEPT ![path].count = @ + 1]
  BY DEF WithSample, WithChunk
<1> HIDE DEF mid, leaves
<1>4. DOMAIN ns = DOMAIN mid
  BY <1>3
<1>5. ASSUME NEW q \in DOMAIN mid
      PROVE  ns[q] \in [count : 0 .. version + 1, leaves : Nat \ {0}] /\ ns[q].leaves = leaves(q)
  <2>1. mid[q] \in [count : 0 .. version, leaves : Nat \ {0}] /\ mid[q].leaves = leaves(q)
    BY <1>2, <1>5
  <2>2. ns[q] = mid[q] \/ ns[q] = [mid[q] EXCEPT !.count = @ + 1]
    BY <1>3, <1>5
  <2>q. QED
    BY <2>1, <2>2
<1>q. QED
  BY <1>1, <1>4, <1>5 DEF leaves

(* The leaves at or below a path after a new topic: it is one more there,   *)
(* in place of the node it is attached to if that was a leaf.               *)
LEMMA LeavesBelowAfter ==
    ASSUME TreeOf(DOMAIN nodes), NEW path \in Seq(Segments), path \notin DOMAIN nodes,
           NEW ns, DOMAIN ns = DOMAIN nodes \cup Prefixes(path), NEW p \in DOMAIN ns
    PROVE  Cardinality(LeavesBelow(ns, p)) =
               IF p \notin DOMAIN nodes THEN 1
               ELSE IF Bumps(path) /\ p \in Prefixes(path)
                    THEN Cardinality(LeavesBelow(nodes, p)) + 1
                    ELSE Cardinality(LeavesBelow(nodes, p))
<1> DEFINE a == Attachment(path)
           old == LeavesBelow(nodes, p)
<1>1. /\ a \in DOMAIN nodes /\ a \in Prefixes(path)
      /\ Len(a) < Len(path)
      /\ \A r \in Prefixes(path) : r \in DOMAIN nodes <=> Len(r) <= Len(a)
  BY AttachedTo
<1>2. \A q \in DOMAIN ns : IsLeaf(ns, q) <=>
            q = path \/ (q \in DOMAIN nodes /\ q # a /\ IsLeaf(nodes, q))
  BY LeavesAfter
<1>3. path \in DOMAIN ns
  BY ParentIs
<1>4. LeavesBelow(ns, p) = {q \in {path} : p \in Prefixes(q)}
        \cup {q \in DOMAIN nodes : q # a /\ IsLeaf(nodes, q) /\ p \in Prefixes(q)}
  BY <1>2, <1>3 DEF LeavesBelow
<1>5. IsFiniteSet(old) /\ Cardinality(old) \in Nat
  <2>1. IsFiniteSet(old)
    BY FS_Subset DEF LeavesBelow, TreeOf
  <2>q. QED
    BY <2>1, FS_CardinalityType
<1> HIDE DEF a
<1>6. CASE p \notin DOMAIN nodes
  <2>1. p \in Prefixes(path)
    BY <1>6
  <2>2. \A q \in DOMAIN nodes : p \notin Prefixes(q)
    BY <1>6 DEF TreeOf
  <2>3. LeavesBelow(ns, p) = {path}
    BY <1>4, <2>1, <2>2
  <2>q. QED
    BY <1>6, <2>3, FS_Singleton
<1>7. CASE p \in DOMAIN nodes /\ p \notin Prefixes(path)
  <2>1. p \notin Prefixes(a)
    BY <1>1, <1>7, PrefixFacts
  <2>2. LeavesBelow(ns, p) = old
    BY <1>4, <1>7, <2>1 DEF LeavesBelow
  <2>q. QED
    BY <1>7, <2>2
<1>8. CASE p \in DOMAIN nodes /\ p \in Prefixes(path)
  <2>1. p \in Prefixes(a)
    <3>1. Len(p) <= Len(a)
      BY <1>1, <1>8
    <3>q. QED
      BY <1>1, <1>8, <3>1, PrefixFacts
  <2>2. path \notin old
    BY DEF LeavesBelow
  <2>3. CASE IsLeaf(nodes, a)
    <3>1. a \in old
      BY <1>1, <2>1, <2>3 DEF LeavesBelow
    <3>2. LeavesBelow(ns, p) = (old \ {a}) \cup {path}
      BY <1>4, <1>8 DEF LeavesBelow
    <3>3. /\ IsFiniteSet(old \ {a})
          /\ Cardinality(old \ {a}) = Cardinality(old) - 1
      BY <1>5, <3>1, FS_RemoveElement
    <3>4. Cardinality(LeavesBelow(ns, p)) = Cardinality(old \ {a}) + 1
      <4>1. path \notin old \ {a}
        BY <2>2
      <4> HIDE DEF old
      <4>q. QED
        BY <3>2, <3>3, <4>1, FS_AddElement
    <3>5. Cardinality(LeavesBelow(ns, p)) = Cardinality(old)
      BY <1>5, <3>3, <3>4
    <3>6. ~Bumps(path)
      BY <2>3 DEF Bumps, a
    <3>q. QED
      BY <1>8, <3>5, <3>6
  <2>4. CASE ~IsLeaf(nodes, a)
    <3>1. LeavesBelow(ns, p) = old \cup {path}
      BY <1>4, <1>8, <2>4 DEF LeavesBelow
    <3>2. Cardinality(LeavesBelow(ns, p)) = Cardinality(old) + 1
      <4> HIDE DEF old
      <4>q. QED
        BY <1>5, <2>2, <3>1, FS_AddElement
    <3>3. Bumps(path)
      BY <2>4 DEF Bumps, a
    <3>q. QED
      BY <1>8, <3>2, <3>3
  <2>q. QED
    BY <2>3, <2>4
<1>q. QED
  BY <1>6, <1>7, <1>8

-----------------------------------------------------------------------------
(* The filter's cache and the repaint request, as far as the argument needs *)
(* their types.                                                             *)
RepaintTypes ==
    /\ \A c \in cache :
        /\ cache = {c}
        /\ c = [filter |-> c.filter, version |-> c.version, age |-> c.age,
                visible |-> c.visible]
        /\ c.age \in 0 .. Interval
    /\ \A n \in repaintIn : n \in 0 .. Interval /\ repaintIn = {n}

RepaintInv == RepaintTypes /\ StaleMeansRepaint

-----------------------------------------------------------------------------
(* The interval is a number of ticks, and a frame may be due at once.       *)
LEMMA IntervalIs == Interval \in Nat \ {0} /\ 0 \in 0 .. Interval
BY BrowseTreeAssumption

(* Of the frames asked for, the soonest is kept: 0 if it is among them.     *)
LEMMA SoonestOfTwo ==
    ASSUME NEW now \in {{}, {0}}, NEW later, NEW n \in 0 .. Interval,
           later = {} \/ later = {n}
    PROVE  /\ \A m \in Soonest(now \cup later) :
                m \in 0 .. Interval /\ Soonest(now \cup later) = {m}
           /\ n \in later => \E m \in Soonest(now \cup later) : m <= n
<1> USE IntervalIs
<1>1. CASE now = {0}
  <2>1. Soonest(now \cup later) = {0}
    BY <1>1 DEF Soonest
  <2>q. QED
    BY <2>1
<1>2. CASE now = {}
  <2>1. Soonest(now \cup later) = later
    BY <1>2 DEF Soonest
  <2>q. QED
    BY <2>1
<1>q. QED
  BY <1>1, <1>2

(* A frame computes the filter's cache again or, while that is too early,   *)
(* asks for the frame in which it will be due.                              *)
LEMMA DrawAsks ==
    ASSUME RepaintInv, NEW f, Draw(f, nodes, version)
    PROVE  /\ RepaintTypes'
           /\ \A c \in cache' : c.version # version =>
                \E n \in repaintIn' : n + c.age <= Interval
<1> USE IntervalIs
<1> DEFINE fresh == [filter |-> f, version |-> version, age |-> 0,
                     visible |-> VisiblePaths(nodes, f)]
           asked(held) == RepaintAfter(held, f, version)
<1>1. PICK now \in {{}, {0}} : repaintIn' = Soonest(now \cup asked(cache'))
  BY DEF Draw, RepaintForCounts
<1>2. CASE cache' = {}
  <2>1. asked(cache') = {}
    BY <1>2 DEF RepaintAfter
  <2>2. \A m \in repaintIn' : m \in 0 .. Interval /\ repaintIn' = {m}
    BY <1>1, <2>1, SoonestOfTwo
  <2>q. QED
    BY <1>2, <2>2 DEF RepaintTypes
<1>3. CASE cache' = {fresh}
  <2>1. /\ fresh.version = version /\ fresh.filter = f /\ fresh.age = 0
        /\ fresh = [filter |-> fresh.filter, version |-> fresh.version,
                    age |-> fresh.age, visible |-> fresh.visible]
    OBVIOUS
  <2> HIDE DEF fresh
  <2>2. asked(cache') = {}
    BY <1>3, <2>1 DEF RepaintAfter
  <2>3. \A m \in repaintIn' : m \in 0 .. Interval /\ repaintIn' = {m}
    BY <1>1, <2>2, SoonestOfTwo
  <2>q. QED
    BY <1>3, <2>1, <2>3 DEF RepaintTypes
<1>4. CASE /\ cache' = cache /\ cache # {}
           /\ ~IsStale(f, version)
  <2>1. PICK c \in cache : cache = {c} /\ c.age \in 0 .. Interval
    BY <1>4 DEF RepaintInv, RepaintTypes
  <2>2. c.filter = f /\ (c.version # version => c.age < Interval)
    BY <1>4, <2>1 DEF IsStale
  <2> DEFINE n == Interval - c.age
  <2>3. n \in 0 .. Interval /\ n + c.age <= Interval
    BY <2>1
  <2>4. IF c.version # version THEN asked(cache') = {n} ELSE asked(cache') = {}
    BY <1>4, <2>1, <2>2 DEF RepaintAfter
  <2> HIDE DEF n, asked
  <2>5. /\ \A m \in repaintIn' : m \in 0 .. Interval /\ repaintIn' = {m}
        /\ c.version # version => \E m \in repaintIn' : m <= n
    BY <1>1, <2>3, <2>4, SoonestOfTwo
  <2>6. c.version # version => \E m \in repaintIn' : m + c.age <= Interval
    BY <2>1, <2>3, <2>5
  <2>q. QED
    BY <1>4, <2>1, <2>5, <2>6 DEF RepaintInv, RepaintTypes
<1>5. cache' = {} \/ cache' = {fresh} \/ (cache' = cache /\ ~IsStale(f, version))
  BY DEF Draw
<1>q. QED
  BY <1>2, <1>3, <1>4, <1>5

(* What comes in, and a click, ask for a frame at once.                     *)
LEMMA AtOnceKeeps ==
    ASSUME RepaintInv, cache' = cache, repaintIn' = {0}
    PROVE  RepaintInv'
<1> USE IntervalIs
<1>1. RepaintTypes'
  BY DEF RepaintInv, RepaintTypes
<1>2. \A c \in cache' : 0 + c.age <= Interval
  BY DEF RepaintInv, RepaintTypes
<1>q. QED
  BY <1>1, <1>2 DEF RepaintInv, StaleMeansRepaint

(* Time brings the frame nearer as the cache grows old.                     *)
LEMMA TreeTickKeeps ==
    ASSUME RepaintInv, TreeTick
    PROVE  RepaintInv'
<1> USE IntervalIs
<1> DEFINE older(c) == [c EXCEPT !.age = IF @ < Interval THEN @ + 1 ELSE @]
<1>1. /\ cache' = {older(c) : c \in cache}
      /\ repaintIn' = {n - 1 : n \in repaintIn}
      /\ repaintIn # {0} /\ version' = version
  BY DEF TreeTick, Due, tree
<1>2. \A n \in repaintIn : n \in 1 .. Interval /\ repaintIn' = {n - 1}
  BY <1>1 DEF RepaintInv, RepaintTypes
<1>3. ASSUME NEW c \in cache
      PROVE  /\ cache' = {older(c)}
             /\ older(c).version = c.version
             /\ older(c).age \in 0 .. Interval /\ older(c).age <= c.age + 1
             /\ older(c) = [filter |-> older(c).filter, version |-> older(c).version,
                            age |-> older(c).age, visible |-> older(c).visible]
  <2>1. /\ c.age \in 0 .. Interval /\ cache = {c}
        /\ c = [filter |-> c.filter, version |-> c.version, age |-> c.age,
                visible |-> c.visible]
    BY <1>3 DEF RepaintInv, RepaintTypes
  <2> DEFINE age == IF c.age < Interval THEN c.age + 1 ELSE c.age
  <2>2. age \in 0 .. Interval /\ age <= c.age + 1
    BY <2>1
  <2>3. older(c) = [filter |-> c.filter, version |-> c.version, age |-> age,
                    visible |-> c.visible]
    BY <2>1
  <2>4. cache' = {older(c)}
    BY <1>1, <2>1
  <2> HIDE DEF age, older
  <2>q. QED
    BY <2>2, <2>3, <2>4
<1> HIDE DEF older
<1>4. RepaintTypes'
  <2>1. ASSUME NEW m \in repaintIn'
        PROVE  m \in 0 .. Interval /\ repaintIn' = {m}
    <3>1. PICK n \in repaintIn : m = n - 1
      BY <1>1, <2>1
    <3>2. n \in 1 .. Interval /\ repaintIn' = {n - 1}
      BY <1>2, <3>1
    <3>q. QED
      BY <3>1, <3>2
  <2>2. ASSUME NEW d \in cache'
        PROVE  \E c \in cache : d = older(c)
    BY <1>1, <2>2
  <2>q. QED
    BY <1>3, <2>1, <2>2 DEF RepaintTypes
<1>5. ASSUME NEW c \in cache, older(c).version # version
      PROVE  \E n \in repaintIn' : n + older(c).age <= Interval
  <2>1. PICK n \in repaintIn : n + c.age <= Interval
    BY <1>3, <1>5 DEF RepaintInv, StaleMeansRepaint
  <2>2. n \in 1 .. Interval /\ n - 1 \in repaintIn'
    BY <1>2, <2>1
  <2>3. c.age \in 0 .. Interval
    BY DEF RepaintInv, RepaintTypes
  <2>4. (n - 1) + older(c).age <= Interval
    BY <1>3, <2>1, <2>2, <2>3
  <2>q. QED
    BY <2>2, <2>4
<1>q. QED
  BY <1>1, <1>4, <1>5 DEF RepaintInv, StaleMeansRepaint

(* A frame, a sample, a click and time keep the request.                    *)
LEMMA RepaintStep ==
    ASSUME RepaintInv, [TreeNext]_treeVars
    PROVE  RepaintInv'
<1>1. CASE UNCHANGED treeVars
  BY <1>1 DEF treeVars, tree, picture, RepaintInv, RepaintTypes,
                    StaleMeansRepaint
<1>2. ASSUME NEW f, Draw(f, nodes, version), UNCHANGED version
      PROVE  RepaintInv'
  <2>1. RepaintTypes'
    BY <1>2, DrawAsks
  <2>2. StaleMeansRepaint'
    BY <1>2, DrawAsks DEF StaleMeansRepaint
  <2>q. QED
    BY <2>1, <2>2 DEF RepaintInv
<1>3. CASE Redraw
  BY <1>2, <1>3 DEF Redraw, tree
<1>4. ASSUME NEW path \in Topics, Receive(path)
      PROVE  RepaintInv'
  BY <1>4, AtOnceKeeps DEF Receive
<1>5. ASSUME NEW f \in Filters, EditFilter(f)
      PROVE  RepaintInv'
  BY <1>2, <1>5 DEF EditFilter, tree
<1>6. ASSUME NEW path \in DOMAIN nodes, Toggle(path)
      PROVE  RepaintInv'
  BY <1>6, AtOnceKeeps DEF Toggle
<1>7. CASE TreeTick
  BY <1>7, TreeTickKeeps
<1>q. QED
  BY <1>1, <1>3, <1>4, <1>5, <1>6, <1>7 DEF TreeNext

-----------------------------------------------------------------------------
(* What the tree's types and leaf counts need of each other.                *)
TreeInv == TreeOf(DOMAIN nodes) /\ TreeTypeOK /\ LeavesCounted

(* A set of which each element is the only one has at most one.             *)
LEMMA AtMostOne ==
    ASSUME NEW S, \A x \in S : S = {x}
    PROVE  IsFiniteSet(S) /\ Cardinality(S) \in Nat /\ Cardinality(S) <= 1
<1>1. CASE S = {}
  BY <1>1, FS_EmptySet
<1>2. ASSUME NEW x \in S
      PROVE  IsFiniteSet(S) /\ Cardinality(S) \in Nat /\ Cardinality(S) <= 1
  <2>1. S = {x}
    BY <1>2
  <2>2. IsFiniteSet({x}) /\ Cardinality({x}) = 1
    BY FS_Singleton
  <2>q. QED
    BY <2>1, <2>2
<1>q. QED
  BY <1>1, <1>2

(* In the beginning the root is the tree and its own leaf.                  *)
LEMMA TreeStart == TreeInit => TreeInv
<1> SUFFICES ASSUME TreeInit
             PROVE  TreeInv
  OBVIOUS
<1>1. DOMAIN nodes = {<<>>} /\ nodes[<<>>] = [count |-> 0, leaves |-> 1]
  BY DEF TreeInit, NewNode
<1>2. <<>> \in Seq(Segments) /\ Prefixes(<<>>) = {<<>>}
  <2>1. <<>> \in Seq(Segments) /\ Len(<<>>) = 0
    OBVIOUS
  <2>2. Cut(<<>>, 0) = <<>>
    BY <2>1, CutNothing
  <2>3. Prefixes(<<>>) = {Cut(<<>>, l) : l \in 0 .. 0}
    BY <2>1, PrefixesAre
  <2>4. 0 .. 0 = {0}
    OBVIOUS
  <2>q. QED
    BY <2>1, <2>2, <2>3, <2>4
<1>3. TreeOf(DOMAIN nodes)
  BY <1>1, <1>2, FS_Singleton DEF TreeOf
<1>4. TreeTypeOK
  <2>1. version = 0 /\ version \in 0 .. MaxSamples /\ filter \in Filters
    BY BrowseTreeAssumption DEF TreeInit
  <2>2. Cardinality({}) = 0
    BY FS_EmptySet
  <2>3. \A p \in DOMAIN nodes :
            nodes[p] \in [count : 0 .. version, leaves : Nat \ {0}]
    BY <1>1, <2>1
  <2>q. QED
    BY <1>1, <2>1, <2>2, <2>3 DEF TreeInit, TreeTypeOK
<1>5. LeavesCounted
  <2>1. IsLeaf(nodes, <<>>)
    BY <1>1 DEF IsLeaf, Children
  <2>2. LeavesBelow(nodes, <<>>) = {<<>>}
    BY <1>1, <1>2, <2>1 DEF LeavesBelow
  <2>3. Cardinality({<<>>}) = 1
    BY FS_Singleton
  <2>4. ASSUME NEW p \in DOMAIN nodes
        PROVE  nodes[p].leaves = Cardinality(LeavesBelow(nodes, p))
    <3>1. p = <<>>
      BY <1>1
    <3>2. nodes[p].leaves = 1
      BY <1>1, <3>1
    <3>3. LeavesBelow(nodes, p) = {<<>>}
      BY <2>2, <3>1
    <3>q. QED
      BY <2>3, <3>2, <3>3
  <2>q. QED
    BY <2>4 DEF LeavesCounted, LeavesBelow
<1>q. QED
  BY <1>3, <1>4, <1>5 DEF TreeInv

(* A sample adds its path: the shape, the types and the leaf counts.        *)
LEMMA ReceiveTypes ==
    ASSUME TreeInv, NEW path \in Topics, Receive(path)
    PROVE  TreeInv'
<1>1. path \in Seq(Segments) /\ MaxSamples \in Nat
  BY BrowseTreeAssumption
<1>2. /\ version \in 0 .. MaxSamples /\ version < MaxSamples
      /\ \A p \in DOMAIN nodes : nodes[p] \in [count : 0 .. version, leaves : Nat \ {0}]
  BY DEF TreeInv, TreeTypeOK, Receive
<1>3. version \in Nat /\ version' = version + 1 /\ version' \in 0 .. MaxSamples
  BY <1>1, <1>2 DEF Receive
<1>4. nodes' \in {WithSample(path), WithChunk(path)}
  BY DEF Receive
<1>5. /\ DOMAIN nodes' = DOMAIN nodes \cup Prefixes(path)
      /\ \A q \in DOMAIN nodes' :
            /\ nodes'[q] \in [count : 0 .. version', leaves : Nat \ {0}]
            /\ nodes'[q].leaves =
                 IF q \notin DOMAIN nodes THEN 1
                 ELSE IF Bumps(path) /\ q \in Prefixes(path) THEN nodes[q].leaves + 1
                 ELSE nodes[q].leaves
  <2> DEFINE ns == nodes'
  <2>1. ns \in {WithSample(path), WithChunk(path)}
    BY <1>4
  <2> HIDE DEF ns
  <2>2. /\ DOMAIN ns = DOMAIN nodes \cup Prefixes(path)
        /\ \A q \in DOMAIN ns :
            /\ ns[q] \in [count : 0 .. version + 1, leaves : Nat \ {0}]
            /\ ns[q].leaves =
                 IF q \notin DOMAIN nodes THEN 1
                 ELSE IF Bumps(path) /\ q \in Prefixes(path) THEN nodes[q].leaves + 1
                 ELSE nodes[q].leaves
    BY <1>2, <1>3, <2>1, InsertedNodes
  <2>q. QED
    BY <1>3, <2>2 DEF ns
<1>6. TreeOf(DOMAIN nodes) /\ TreeOf(DOMAIN nodes')
  BY <1>1, <1>5, InsertedIsTree DEF TreeInv
<1>7. TreeTypeOK'
  <2>1. Prefixes(path) \subseteq Paths
    BY DEF Paths
  <2>2. DOMAIN nodes' \subseteq Paths \cup {<<>>} /\ DOMAIN nodes \subseteq DOMAIN nodes'
    BY <1>5, <2>1 DEF TreeInv, TreeTypeOK
  <2>3. <<>> \in DOMAIN nodes' /\ rows' \subseteq DOMAIN nodes' \ {<<>>}
    BY <1>6, <2>2 DEF Receive, TreeInv, TreeTypeOK, TreeOf
  <2>4. repaintIn' \subseteq 0 .. Interval /\ Cardinality(repaintIn') <= 1
    <3>1. repaintIn' = {0} /\ Cardinality({0}) = 1
      BY FS_Singleton DEF Receive
    <3>q. QED
      BY <3>1, IntervalIs
  <2>5. UNCHANGED <<filter, cache, counts, label, opened, closed>>
    BY DEF Receive
  <2>6. /\ filter' \in Filters
        /\ cache' \subseteq Visible /\ Cardinality(cache') <= 1
        /\ counts' \subseteq [matching : Nat, all : Nat] /\ Cardinality(counts') <= 1
        /\ label' \subseteq [matching : Nat, all : Nat] /\ Cardinality(label') <= 1
        /\ opened' \subseteq Paths /\ closed' \subseteq Paths
    BY <2>5 DEF TreeInv, TreeTypeOK
  <2>q. QED
    BY <1>3, <1>5, <2>2, <2>3, <2>4, <2>6 DEF TreeTypeOK
<1>8. ASSUME NEW p \in DOMAIN nodes'
      PROVE  nodes'[p].leaves = Cardinality(LeavesBelow(nodes', p))
  <2>1. p \in DOMAIN nodes => nodes[p].leaves = Cardinality(LeavesBelow(nodes, p))
    BY DEF TreeInv, LeavesCounted, LeavesBelow
  <2>2. CASE path \in DOMAIN nodes
    <3>1. DOMAIN nodes' = DOMAIN nodes /\ ~Bumps(path)
      BY <1>5, <1>6, <2>2 DEF TreeOf, Bumps
    <3>2. LeavesBelow(nodes', p) = LeavesBelow(nodes, p)
      BY <3>1 DEF LeavesBelow, IsLeaf, Children
    <3>q. QED
      BY <1>5, <2>1, <3>1, <3>2
  <2>3. CASE path \notin DOMAIN nodes
    BY <1>1, <1>5, <1>6, <2>1, <2>3, LeavesBelowAfter
  <2>q. QED
    BY <2>2, <2>3
<1>9. LeavesCounted'
  BY <1>8 DEF LeavesCounted, LeavesBelow
<1>q. QED
  BY <1>6, <1>7, <1>9 DEF TreeInv

(* A frame draws paths of the tree, and counts those of its leaves.         *)
LEMMA DrawTypes ==
    ASSUME TreeInv, RepaintInv', NEW f \in Filters, Draw(f, nodes, version),
           filter' = f, UNCHANGED <<nodes, version, opened, closed>>
    PROVE  TreeInv'
<1>1. cache' \subseteq Visible
  <2> DEFINE fresh == [filter |-> f, version |-> version, age |-> 0,
                       visible |-> VisiblePaths(nodes, f)]
  <2>1. cache' \subseteq cache \cup {fresh}
    BY DEF Draw
  <2>2. VisiblePaths(nodes, f) \subseteq Paths
    BY DEF VisiblePaths, TreeInv, TreeTypeOK
  <2>3. version \in Nat
    BY BrowseTreeAssumption DEF TreeInv, TreeTypeOK
  <2>4. fresh \in Visible
    BY <2>2, <2>3, IntervalIs DEF Visible
  <2> HIDE DEF fresh
  <2>q. QED
    BY <2>1, <2>4 DEF TreeInv, TreeTypeOK
<1>2. /\ counts' \subseteq [matching : Nat, all : Nat] /\ Cardinality(counts') <= 1
      /\ label' \subseteq [matching : Nat, all : Nat] /\ Cardinality(label') <= 1
  <2> DEFINE now == MatchCounts(nodes, f)
  <2>1. counts' \in {{}, {now}, counts} /\ label' \in {{}, counts}
    BY DEF Draw
  <2>2. IsFiniteSet(DOMAIN nodes)
    BY DEF TreeInv, TreeOf
  <2>3. ASSUME NEW T \in SUBSET DOMAIN nodes
        PROVE  Cardinality(T) \in Nat
    BY <2>2, FS_Subset, FS_CardinalityType
  <2>4. now \in [matching : Nat, all : Nat]
    <3>1. {p \in LeafPaths(nodes) : Matches(p, f)} \in SUBSET DOMAIN nodes
      BY DEF LeafPaths
    <3>2. LeafPaths(nodes) \in SUBSET DOMAIN nodes
      BY DEF LeafPaths
    <3>q. QED
      BY <2>3, <3>1, <3>2 DEF MatchCounts
  <2> DEFINE pairs == [matching : Nat, all : Nat]
  <2>5. {now} \subseteq pairs /\ counts \subseteq pairs
    BY <2>4 DEF TreeInv, TreeTypeOK
  <2>6. Cardinality({now}) <= 1 /\ Cardinality({}) <= 1 /\ Cardinality(counts) <= 1
    <3> HIDE DEF now, pairs
    <3>1. Cardinality({now}) = 1 /\ Cardinality({}) = 0
      BY FS_EmptySet, FS_Singleton
    <3>2. Cardinality(counts) <= 1
      BY DEF TreeInv, TreeTypeOK
    <3>q. QED
      BY <3>1, <3>2
  <2> HIDE DEF now, pairs
  <2>7. \A S \in {{}, {now}, counts} : S \subseteq pairs /\ Cardinality(S) <= 1
    BY <2>5, <2>6
  <2>q. QED
    BY <2>1, <2>7 DEF pairs
<1>3. /\ Cardinality(cache') <= 1
      /\ repaintIn' \subseteq 0 .. Interval /\ Cardinality(repaintIn') <= 1
  <2>1. (\A c \in cache' : cache' = {c}) /\ \A n \in repaintIn' : repaintIn' = {n}
    BY DEF RepaintInv, RepaintTypes
  <2>2. repaintIn' \subseteq 0 .. Interval
    BY DEF RepaintInv, RepaintTypes
  <2>q. QED
    BY <2>1, <2>2, AtMostOne
<1>4. rows' \subseteq DOMAIN nodes' \ {<<>>}
  BY DEF Draw, RowsDrawn
<1>5. nodes' = nodes /\ version' = version /\ opened' = opened /\ closed' = closed
  OBVIOUS
<1>6. TreeTypeOK'
  BY <1>1, <1>2, <1>3, <1>4, <1>5 DEF TreeInv, TreeTypeOK
<1>7. LeavesCounted'
  BY <1>5 DEF TreeInv, LeavesCounted, IsLeaf, Children
<1>q. QED
  BY <1>5, <1>6, <1>7 DEF TreeInv

(* A click opens or closes a branch that is in the picture.                 *)
LEMMA ToggleTypes ==
    ASSUME TreeInv, NEW path \in DOMAIN nodes, Toggle(path)
    PROVE  TreeInv'
<1>1. path \in Paths
  BY DEF Toggle, TreeInv, TreeTypeOK
<1>2. opened' \subseteq Paths /\ closed' \subseteq Paths
  BY <1>1 DEF Toggle, SymDiff, TreeInv, TreeTypeOK
<1>3. repaintIn' = {0} /\ UNCHANGED <<nodes, version, filter, cache, counts, rows, label>>
  BY DEF Toggle, tree
<1>4. repaintIn' \subseteq 0 .. Interval /\ Cardinality(repaintIn') <= 1
  <2>1. Cardinality({0}) = 1
    BY FS_Singleton
  <2>q. QED
    BY <1>3, <2>1, IntervalIs
<1>5. TreeTypeOK'
  BY <1>2, <1>3, <1>4 DEF TreeInv, TreeTypeOK
<1>6. LeavesCounted'
  BY <1>3 DEF TreeInv, LeavesCounted, IsLeaf, Children
<1>q. QED
  BY <1>3, <1>5, <1>6 DEF TreeInv

(* Time makes the cache older, no more than the interval.                   *)
LEMMA TreeTickTypes ==
    ASSUME TreeInv, RepaintInv', TreeTick
    PROVE  TreeInv'
<1>1. UNCHANGED <<nodes, version, filter, counts, rows, label, opened, closed>>
  BY DEF TreeTick, tree
<1>2. cache' \subseteq Visible
  <2>1. ASSUME NEW c \in cache
        PROVE  [c EXCEPT !.age = IF @ < Interval THEN @ + 1 ELSE @] \in Visible
    <3>1. c \in Visible
      BY <2>1 DEF TreeInv, TreeTypeOK
    <3>2. c.age \in 0 .. Interval
      BY <3>1 DEF Visible
    <3>3. (IF c.age < Interval THEN c.age + 1 ELSE c.age) \in 0 .. Interval
      BY <3>2, IntervalIs
    <3>q. QED
      BY <3>1, <3>3 DEF Visible
  <2>q. QED
    BY <2>1 DEF TreeTick
<1>3. /\ Cardinality(cache') <= 1
      /\ repaintIn' \subseteq 0 .. Interval /\ Cardinality(repaintIn') <= 1
  <2>1. (\A c \in cache' : cache' = {c}) /\ \A n \in repaintIn' : repaintIn' = {n}
    BY DEF RepaintInv, RepaintTypes
  <2>2. repaintIn' \subseteq 0 .. Interval
    BY DEF RepaintInv, RepaintTypes
  <2>q. QED
    BY <2>1, <2>2, AtMostOne
<1>4. TreeTypeOK'
  BY <1>1, <1>2, <1>3 DEF TreeInv, TreeTypeOK
<1>5. LeavesCounted'
  BY <1>1 DEF TreeInv, LeavesCounted, IsLeaf, Children
<1>q. QED
  BY <1>1, <1>4, <1>5 DEF TreeInv

(* Every step of the tree keeps its shape, its types and its leaf counts.   *)
LEMMA TreeStepTypes ==
    ASSUME TreeInv, RepaintInv', [TreeNext]_treeVars
    PROVE  TreeInv'
<1>1. CASE UNCHANGED treeVars
  <2>1. UNCHANGED <<nodes, version, filter, cache, counts, rows, label, repaintIn,
                    opened, closed>>
    BY <1>1 DEF treeVars, tree, picture
  <2>2. TreeTypeOK'
    BY <2>1 DEF TreeInv, TreeTypeOK
  <2>3. LeavesCounted'
    BY <2>1 DEF TreeInv, LeavesCounted, IsLeaf, Children
  <2>q. QED
    BY <2>1, <2>2, <2>3 DEF TreeInv
<1>2. CASE Redraw
  <2>1. filter \in Filters
    BY DEF TreeInv, TreeTypeOK
  <2>q. QED
    BY <1>2, <2>1, DrawTypes DEF Redraw, tree
<1>3. ASSUME NEW f \in Filters, EditFilter(f)
      PROVE  TreeInv'
  BY <1>3, DrawTypes DEF EditFilter, tree
<1>q. QED
  BY <1>1, <1>2, <1>3, ReceiveTypes, ToggleTypes, TreeTickTypes DEF TreeNext

(* Both invariants of the tree.                                             *)
LEMMA TreeHolds == TreeSpec => [](RepaintInv /\ TreeInv)
<1>1. TreeInit => RepaintInv /\ TreeInv
  <2>1. TreeInit => RepaintInv
    BY DEF TreeInit, RepaintInv, RepaintTypes, StaleMeansRepaint
  <2>q. QED
    BY <2>1, TreeStart
<1>2. RepaintInv /\ TreeInv /\ [TreeNext]_treeVars => RepaintInv' /\ TreeInv'
  BY RepaintStep, TreeStepTypes
<1>q. QED
  BY <1>1, <1>2, PTL DEF TreeSpec

(* StaleMeansRepaint for any topics, filters and interval: a filtered tree  *)
(* that lags behind the samples has a frame coming that catches up.         *)
THEOREM StaleTreeIsRepainted == TreeSpec => []StaleMeansRepaint
<1>1. RepaintInv => StaleMeansRepaint
  BY DEF RepaintInv
<1>q. QED
  BY <1>1, TreeHolds, PTL

(* LeavesCounted for any set of topics: the count in a row, kept up node by *)
(* node, is the number of leaf topics at or below it.                       *)
THEOREM TreeCountsItsLeaves == TreeSpec => []LeavesCounted
<1>1. TreeInv => LeavesCounted
  BY DEF TreeInv
<1>q. QED
  BY <1>1, TreeHolds, PTL

(* The types of the tree, its cache and its rows, for any set of topics.    *)
LEMMA TreeTypes == TreeSpec => []TreeTypeOK
<1>1. TreeInv => TreeTypeOK
  BY DEF TreeInv
<1>q. QED
  BY <1>1, TreeHolds, PTL

-----------------------------------------------------------------------------
(* The stamp and the alert, as far as the argument needs their types.       *)
StampTypes ==
    /\ \A kind \in uiAlert : uiAlert = {kind} /\ kind \in Kinds
    /\ \A s \in since :
        since = {s} /\ s = [alert |-> s.alert, age |-> s.age]
        /\ s.alert \in Kinds /\ s.age \in Nat
    /\ shown \in Nat

(* An alert that has not been stamped has a frame due; so has a stamp whose *)
(* alert is gone; and the stamp of one that leaves shows how long it has    *)
(* been up, with a frame asked for at the end of its life.                  *)
FrameComes ==
    /\ uiAlert # {} /\ since = {} => wakeIn = {0} /\ shown = 0
    /\ \A s \in since :
        /\ uiAlert # {s.alert} => uiAlert = {} /\ wakeIn = {0}
        /\ uiAlert = {s.alert} /\ Leaves(s.alert) =>
            /\ shown = s.age
            /\ s.age <= Life[s.alert]
            /\ wakeIn = {Life[s.alert] - s.age}

BannerInv == StampTypes /\ FrameComes

-----------------------------------------------------------------------------
(* A click raises an alert over any other and asks for a frame.             *)
LEMMA RaiseKeeps ==
    ASSUME BannerInv, NEW kind \in Kinds, RaiseAlert(kind)
    PROVE  BannerInv'
BY DEF BannerInv, StampTypes, FrameComes, RaiseAlert, StampAfterRaise

(* Dismissing leaves a stamp without an alert, and asks for a frame.        *)
LEMMA DismissKeeps ==
    ASSUME BannerInv, DismissBanner
    PROVE  BannerInv'
BY DEF BannerInv, StampTypes, FrameComes, DismissBanner

(* The stamps after stamping: what it was if it is the alert's, else one    *)
(* of age 0 for the alert there is.                                         *)
LEMMA StampedIs ==
    ASSUME BannerInv
    PROVE  /\ uiAlert = {} => Stamped = {}
           /\ \A kind \in uiAlert :
                \/ \E s \in since : s.alert = kind /\ Stamped = {s} /\ since = {s}
                \/ Stamped = {[alert |-> kind, age |-> 0]} /\ since = {}
<1>1. ASSUME NEW s \in since
      PROVE  {t.alert : t \in since} = {s.alert}
  BY <1>1 DEF BannerInv, StampTypes
<1>2. ASSUME uiAlert = {}
      PROVE  Stamped = {}
  <2>1. CASE since = {}
    BY <1>2, <2>1 DEF Stamped
  <2>2. CASE since # {}
    BY <1>1, <1>2, <2>2 DEF Stamped
  <2>q. QED
    BY <2>1, <2>2
<1>3. ASSUME NEW kind \in uiAlert
      PROVE  \/ \E s \in since : s.alert = kind /\ Stamped = {s} /\ since = {s}
             \/ Stamped = {[alert |-> kind, age |-> 0]} /\ since = {}
  <2>1. uiAlert = {kind}
    BY <1>3 DEF BannerInv, StampTypes
  <2>2. CASE since = {}
    BY <2>1, <2>2 DEF Stamped
  <2>3. ASSUME NEW s \in since
        PROVE  s.alert = kind /\ Stamped = {s} /\ since = {s}
    <3>1. uiAlert = {s.alert} /\ since = {s}
      BY <2>1, <2>3 DEF BannerInv, StampTypes, FrameComes
    <3>q. QED
      BY <1>1, <2>1, <3>1 DEF Stamped
  <2>q. QED
    BY <2>2, <2>3
<1>q. QED
  BY <1>2, <1>3

(* A frame: with no alert the stamp goes; an alert is stamped, or leaves    *)
(* when it has been up for its whole life.                                  *)
LEMMA FrameDoes ==
    ASSUME BannerInv, ExpireAlert
    PROVE  /\ BannerInv'
           /\ uiAlert' = {} => \A kind \in uiAlert : Leaves(kind) /\ shown >= Life[kind]
<1> USE BannerAssumption
<1>1. CASE uiAlert = {}
  <2>1. uiAlert' = {} /\ since' = {} /\ shown' = shown
    BY <1>1, StampedIs DEF ExpireAlert
  <2>q. QED
    BY <1>1, <2>1 DEF BannerInv, StampTypes, FrameComes
<1>2. ASSUME NEW kind \in uiAlert
      PROVE  /\ BannerInv'
             /\ uiAlert' = {} => Leaves(kind) /\ shown >= Life[kind]
  <2>1. uiAlert = {kind} /\ kind \in Kinds /\ Life[kind] \in Nat /\ shown \in Nat
    BY <1>2 DEF BannerInv, StampTypes
  <2>2. PICK s : /\ Stamped = {s}
                 /\ s.alert = kind /\ s.age \in Nat
                 /\ s = [alert |-> s.alert, age |-> s.age]
                 /\ Leaves(kind) => shown = s.age /\ s.age <= Life[kind]
    <3>1. CASE \E s \in since : s.alert = kind /\ Stamped = {s}
      BY <2>1, <3>1 DEF BannerInv, StampTypes, FrameComes
    <3>2. CASE Stamped = {[alert |-> kind, age |-> 0]} /\ since = {}
      <4>1. shown = 0
        BY <2>1, <3>2 DEF BannerInv, FrameComes
      <4> DEFINE new == [alert |-> kind, age |-> 0]
      <4>2. new.alert = kind /\ new.age = 0 /\ new = [alert |-> new.alert, age |-> new.age]
        OBVIOUS
      <4> HIDE DEF new
      <4>3. Stamped = {new}
        BY <3>2 DEF new
      <4>q. QED
        BY <2>1, <4>1, <4>2, <4>3
    <3>q. QED
      BY <1>2, <3>1, <3>2, StampedIs
  <2>3. CASE Leaves(kind) /\ s.age >= Life[kind]
    <3>1. TimeLeft(s) = 0
      BY <2>2, <2>3 DEF TimeLeft
    <3>2. uiAlert' = {} /\ since' = {} /\ shown' = shown
      BY <2>2, <2>3, <3>1 DEF ExpireAlert
    <3>q. QED
      BY <2>1, <2>2, <2>3, <3>2 DEF BannerInv, StampTypes, FrameComes
  <2>4. CASE Leaves(kind) /\ ~(s.age >= Life[kind])
    <3>1. TimeLeft(s) = Life[kind] - s.age /\ TimeLeft(s) # 0
      BY <2>1, <2>2, <2>4 DEF TimeLeft
    <3>2. /\ uiAlert' = {kind} /\ since' = {s} /\ shown' = shown
          /\ wakeIn' = {Life[kind] - s.age}
      BY <2>1, <2>2, <2>4, <3>1 DEF ExpireAlert
    <3>q. QED
      BY <2>1, <2>2, <2>4, <3>2 DEF BannerInv, StampTypes, FrameComes
  <2>5. CASE ~Leaves(kind)
    <3>1. uiAlert' = {kind} /\ since' = {s} /\ shown' = shown
      BY <2>1, <2>2, <2>5 DEF ExpireAlert
    <3>q. QED
      BY <2>1, <2>2, <2>5, <3>1 DEF BannerInv, StampTypes, FrameComes
  <2>q. QED
    BY <2>3, <2>4, <2>5
<1>q. QED
  BY <1>1, <1>2

(* Time passes for the stamp and for the history alike, and only while no   *)
(* frame is due.                                                            *)
LEMMA BannerTickKeeps ==
    ASSUME BannerInv, BannerTick
    PROVE  BannerInv' /\ uiAlert' = uiAlert
<1> USE BannerAssumption
<1>1. PICK s \in since : since = {s}
  BY DEF BannerTick, BannerInv, StampTypes
<1>2. /\ uiAlert = {s.alert} /\ s.alert \in Kinds /\ s.age \in Nat
      /\ Life[s.alert] \in Nat /\ shown \in Nat
      /\ s = [alert |-> s.alert, age |-> s.age]
  BY <1>1 DEF BannerInv, StampTypes, FrameComes, BannerTick, WakeDue
<1>3. uiAlert' = uiAlert
  BY DEF BannerTick
<1>4. CASE Leaves(s.alert)
  <2>1. /\ shown = s.age /\ s.age < Life[s.alert]
        /\ wakeIn = {Life[s.alert] - s.age}
    BY <1>1, <1>2, <1>4 DEF BannerInv, FrameComes, BannerTick, WakeDue
  <2>2. since' = {[alert |-> s.alert, age |-> s.age + 1]}
    BY <1>1, <1>2, <1>4 DEF BannerTick
  <2>3. shown' = shown + 1 /\ wakeIn' = {Life[s.alert] - s.age - 1}
    BY <1>1, <1>2, <1>4, <2>1 DEF BannerTick
  <2> DEFINE older == [alert |-> s.alert, age |-> s.age + 1]
  <2>4. /\ older.alert = s.alert /\ older.age = s.age + 1
        /\ older = [alert |-> older.alert, age |-> older.age]
    OBVIOUS
  <2>5. since' = {older}
    BY <2>2
  <2> HIDE DEF older
  <2>q. QED
    BY <1>2, <1>3, <2>1, <2>3, <2>4, <2>5 DEF BannerInv, StampTypes, FrameComes
<1>5. CASE ~Leaves(s.alert)
  <2>1. since' = {s}
    BY <1>1, <1>2, <1>5 DEF BannerTick
  <2>2. shown' = shown
    BY <1>2, <1>5 DEF BannerTick
  <2>q. QED
    BY <1>2, <1>3, <1>5, <2>1, <2>2 DEF BannerInv, StampTypes, FrameComes
<1>q. QED
  BY <1>4, <1>5

(* Every step keeps the invariant, and the alert's time with it.            *)
LEMMA BannerStep ==
    ASSUME BannerInv, [BannerNext]_bannerVars
    PROVE  BannerInv' /\
           (uiAlert' = {} /\ ~DismissBanner =>
                \A kind \in uiAlert : Leaves(kind) /\ shown >= Life[kind])
<1>1. CASE UNCHANGED bannerVars
  BY <1>1 DEF bannerVars, BannerInv, StampTypes, FrameComes
<1>2. ASSUME NEW kind \in Kinds, RaiseAlert(kind)
      PROVE  BannerInv' /\ uiAlert' # {}
  BY <1>2, RaiseKeeps DEF RaiseAlert
<1>3. CASE BannerTick
  BY <1>3, BannerTickKeeps
<1>q. QED
  BY <1>1, <1>2, <1>3, DismissKeeps, FrameDoes DEF BannerNext

(* What FrameComes says of the banner that is up after a step: no longer    *)
(* than its life.                                                           *)
LEMMA NotUpForLonger ==
    ASSUME BannerInv'
    PROVE  \A kind \in uiAlert' : Leaves(kind) => shown' <= Life[kind]
<1> USE BannerAssumption
<1> SUFFICES ASSUME NEW kind \in uiAlert', Leaves(kind)
             PROVE  shown' <= Life[kind]
  OBVIOUS
<1>1. uiAlert' = {kind} /\ Life[kind] \in Nat
  BY DEF BannerInv, StampTypes
<1>2. CASE since' = {}
  BY <1>1, <1>2 DEF BannerInv, FrameComes
<1>3. ASSUME NEW s \in since'
      PROVE  shown' <= Life[kind]
  BY <1>1, <1>3 DEF BannerInv, FrameComes
<1>q. QED
  BY <1>2, <1>3

(* BannerKeepsTime for any kinds and lifetimes: a banner that leaves by     *)
(* itself was up for its whole life since it was last raised, and none      *)
(* stays for longer.                                                        *)
THEOREM BannerTimes == BannerSpec => BannerKeepsTime
<1>1. BannerInit => BannerInv
  BY DEF BannerInit, BannerInv, StampTypes, FrameComes
<1>2. BannerInv /\ [BannerNext]_bannerVars => BannerInv'
  BY BannerStep
<1> DEFINE Keeps ==
        /\ uiAlert' = {} /\ ~DismissBanner =>
              \A kind \in uiAlert : Leaves(kind) /\ shown >= Life[kind]
        /\ \A kind \in uiAlert' : Leaves(kind) => shown' <= Life[kind]
<1>3. BannerInv /\ [BannerNext]_bannerVars => [Keeps]_bannerVars
  BY BannerStep, NotUpForLonger
<1> HIDE DEF Keeps
<1>4. BannerSpec => [][Keeps]_bannerVars
  BY <1>1, <1>2, <1>3, PTL DEF BannerSpec
<1>q. QED
  BY <1>4 DEF Keeps, BannerKeepsTime

(* One frame is asked for at most, and the alerts raised stay in bounds.    *)
WakeTypes ==
    /\ \A n \in wakeIn : n \in Nat /\ wakeIn = {n}
    /\ raised \in 0 .. MaxAlerts

(* A step asks for one frame instead of another.                            *)
LEMMA WakeStep ==
    ASSUME BannerInv, WakeTypes, [BannerNext]_bannerVars
    PROVE  WakeTypes'
<1> USE BannerAssumption
<1>1. CASE UNCHANGED bannerVars
  BY <1>1 DEF bannerVars, WakeTypes
<1>2. ASSUME NEW kind \in Kinds, RaiseAlert(kind)
      PROVE  WakeTypes'
  BY <1>2 DEF RaiseAlert, WakeTypes
<1>3. CASE DismissBanner
  BY <1>3 DEF DismissBanner, WakeTypes
<1>4. CASE ExpireAlert
  <2>1. \A s \in Stamped : Stamped = {s} /\ s.alert \in Kinds /\ s.age \in Nat
    <3>1. CASE uiAlert = {}
      BY <3>1, StampedIs
    <3>2. ASSUME NEW kind \in uiAlert
          PROVE  \A s \in Stamped : Stamped = {s} /\ s.alert \in Kinds /\ s.age \in Nat
      <4>1. kind \in Kinds
        BY <3>2 DEF BannerInv, StampTypes
      <4>2. \/ \E s \in since : Stamped = {s}
            \/ Stamped = {[alert |-> kind, age |-> 0]}
        BY <3>2, StampedIs
      <4>q. QED
        BY <4>1, <4>2 DEF BannerInv, StampTypes
    <3>q. QED
      BY <3>1, <3>2
  <2>2. ASSUME NEW s \in Stamped
        PROVE  TimeLeft(s) \in Nat
    <3>1. Life[s.alert] \in Nat /\ s.age \in Nat
      BY <2>1, <2>2
    <3>q. QED
      BY <3>1 DEF TimeLeft
  <2>3. raised' = raised /\ \A n \in wakeIn' : \E s \in Stamped : n = TimeLeft(s)
    BY <1>4 DEF ExpireAlert
  <2>4. ASSUME NEW n \in wakeIn'
        PROVE  n \in Nat /\ wakeIn' = {n}
    BY <2>1, <2>2, <2>3, <2>4
  <2>q. QED
    BY <2>3, <2>4 DEF WakeTypes
<1>5. CASE BannerTick
  <2>1. wakeIn # {0} /\ wakeIn' = {n - 1 : n \in wakeIn} /\ raised' = raised
    BY <1>5 DEF BannerTick, WakeDue
  <2>2. ASSUME NEW m \in wakeIn'
        PROVE  m \in Nat /\ wakeIn' = {m}
    <3>1. PICK n \in wakeIn : m = n - 1
      BY <2>1, <2>2
    <3>2. n \in Nat /\ wakeIn = {n} /\ n # 0
      BY <2>1, <3>1 DEF WakeTypes
    <3>q. QED
      BY <2>1, <3>1, <3>2
  <2>q. QED
    BY <2>1, <2>2 DEF WakeTypes
<1>q. QED
  BY <1>1, <1>2, <1>3, <1>4, <1>5 DEF BannerNext

(* The types of the banner, for any kinds and lifetimes.                    *)
LEMMA BannerTypes == BannerSpec => []BannerTypeOK
<1>1. BannerInit => BannerInv /\ WakeTypes
  BY BannerAssumption DEF BannerInit, BannerInv, StampTypes, FrameComes, WakeTypes
<1>2. BannerInv /\ WakeTypes /\ [BannerNext]_bannerVars => BannerInv' /\ WakeTypes'
  BY BannerStep, WakeStep
<1>3. ASSUME BannerInv, WakeTypes
      PROVE  BannerTypeOK
  <2>1. Cardinality(wakeIn) <= 1 /\ wakeIn \subseteq Nat
    BY <1>3, AtMostOne DEF WakeTypes
  <2>2. \A s \in since : since = {s} /\ s \in [alert : Kinds, age : Nat]
    BY <1>3 DEF BannerInv, StampTypes
  <2>q. QED
    BY <1>3, <2>1, <2>2 DEF BannerInv, StampTypes, WakeTypes, BannerTypeOK
<1>q. QED
  BY <1>1, <1>2, <1>3, PTL DEF BannerSpec

-----------------------------------------------------------------------------
(* The publish form is consistent at the start: the greeting is no file's.  *)
LEMMA FormStart == FormInit => FormConsistent
<1>1. Greeting.from # "file"
  BY DEF Greeting
<1>q. QED
  BY <1>1 DEF FormInit, FormConsistent

(* An import sets the five fields to one file, or to none when reading it   *)
(* fails; clearing it and typing leave none.                                *)
LEMMA OneFileOrNone ==
    ASSUME FormConsistent,
           \/ \E f \in Files : ImportFile(f)
           \/ ImportFails
           \/ ClearImport
           \/ \E t \in Texts : TypeText(t)
    PROVE  FormConsistent'
<1>1. sent' = sent
  BY DEF ImportFile, ImportFails, ClearImport, TypeText
<1>2. ASSUME NEW f \in Files, ImportFile(f)
      PROVE  FormConsistent'
  BY <1>1, <1>2 DEF ImportFile, FormConsistent
<1>3. CASE ImportFails
  BY <1>1, <1>3 DEF ImportFails, FormConsistent, ReadError
<1>4. CASE ClearImport
  BY <1>1, <1>4 DEF ClearImport, FormConsistent, Greeting
<1>5. ASSUME NEW t \in Texts, TypeText(t)
      PROVE  FormConsistent'
  BY <1>1, <1>5 DEF TypeText, Interactive, FormConsistent, Typed
<1>q. QED
  BY <1>2, <1>3, <1>4, <1>5

(* Expanding the preview redraws the file that is held.                     *)
LEMMA ToggleKeepsFile ==
    ASSUME FormConsistent, ToggleExpanded
    PROVE  FormConsistent'
<1>1. PICK f \in filename \cap imported :
        /\ expanded' = ~expanded
        /\ payload' = Preview(f, ~expanded)
        /\ UNCHANGED <<filename, imported, staged, encoding, sending, sent>>
  BY DEF ToggleExpanded
<1>2. imported = {f}
  BY <1>1 DEF FormConsistent
<1>q. QED
  BY <1>1, <1>2 DEF FormConsistent

(* What a publish sends is what the form showed, and it leaves no file.     *)
LEMMA PublishSendsWhatIsShown ==
    ASSUME FormConsistent, NEW workerThere \in BOOLEAN, Publishing(workerThere)
    PROVE  FormConsistent'
<1> DEFINE command == [file |-> imported, text |-> payload, name |-> filename,
                       encoding |-> encoding]
<1>1. sent' \subseteq sent \cup {command}
  BY DEF Publishing
<1>2. /\ command.name = command.file
      /\ command.file = {} <=> command.text.from # "file"
      /\ \A f \in command.file : command.text.file = f
  BY DEF FormConsistent, Preview
<1>3. imported' = {} /\ filename' = {} /\ staged' = 0 /\ ~expanded'
  BY DEF Publishing, StagedAfterPublish, FormConsistent
<1>4. payload'.from # "file"
  BY DEF Publishing, FormConsistent, Nothing
<1>q. QED
  BY <1>1, <1>2, <1>3, <1>4 DEF FormConsistent

(* FormConsistent for every form: name, bytes, preview and "Staged import"  *)
(* are one file's or none's, and no text is sent under a file's name.       *)
THEOREM FormKeepsTogether == FormSpec => []FormConsistent
<1>1. ASSUME FormConsistent, [FormNext]_formVars
      PROVE  FormConsistent'
  <2>1. CASE UNCHANGED formVars
    BY <1>1, <2>1 DEF formVars, FormConsistent
  <2>2. CASE TypeEncoding \/ PublishAnswered
    BY <1>1, <2>2 DEF TypeEncoding, PublishAnswered, FormConsistent
  <2>q. QED
    BY <1>1, <2>1, <2>2, OneFileOrNone, ToggleKeepsFile, PublishSendsWhatIsShown
       DEF FormNext
<1>q. QED
  BY FormStart, <1>1, PTL DEF FormSpec

(* What the form may show.                                                  *)
LEMMA TextsOfForm ==
    /\ {Greeting, ReadError, Nothing} \subseteq PayloadText
    /\ \A t \in Texts : Typed(t) \in PayloadText
    /\ \A f \in Files, wide \in BOOLEAN : Preview(f, wide) \in PayloadText
<1>1. {Greeting, ReadError, Nothing} \subseteq PayloadText
  BY DEF PayloadText
<1>2. ASSUME NEW t \in Texts
      PROVE  Typed(t) \in PayloadText
  BY <1>2 DEF PayloadText
<1>3. ASSUME NEW f \in Files, NEW wide \in BOOLEAN
      PROVE  Preview(f, wide) \in PayloadText
  BY <1>3 DEF PayloadText
<1>q. QED
  BY <1>1, <1>2, <1>3

(* The types of the publish form, for any files and texts.                  *)
LEMMA FormTypes == FormSpec => []FormTypeOK
<1>1. ASSUME FormInit
      PROVE  FormTypeOK
  <2>1. payload \in PayloadText
    BY <1>1, TextsOfForm DEF FormInit
  <2>2. encoding \in Encodings
    BY <1>1 DEF FormInit, Encodings
  <2>3. staged = 0 /\ expanded = FALSE /\ sending = FALSE
    BY <1>1 DEF FormInit
  <2>4. imported = {} /\ filename = {} /\ sent = {}
    BY <1>1 DEF FormInit
  <2>q. QED
    BY <2>1, <2>2, <2>3, <2>4 DEF FormTypeOK
<1>2. ASSUME FormTypeOK, [FormNext]_formVars
      PROVE  FormTypeOK'
  <2> USE <1>2, PublishFormAssumption
  <2>1. CASE UNCHANGED formVars
    BY <2>1 DEF formVars, FormTypeOK
  <2>2. ASSUME NEW f \in Files, ImportFile(f)
        PROVE  FormTypeOK'
    BY <2>2, TextsOfForm DEF ImportFile, FormTypeOK, Encodings
  <2>3. CASE ImportFails \/ ClearImport
    <3>1. payload' \in PayloadText
      BY <2>3, TextsOfForm DEF ImportFails, ClearImport
    <3>2. encoding' \in Encodings
      BY <2>3 DEF ImportFails, ClearImport, FormTypeOK, Encodings
    <3>3. /\ staged' = 0 /\ expanded' = FALSE /\ imported' = {} /\ filename' = {}
          /\ sending' = sending /\ sent' = sent
      BY <2>3 DEF ImportFails, ClearImport
    <3>q. QED
      BY <3>1, <3>2, <3>3 DEF FormTypeOK
  <2>4. CASE ToggleExpanded
    <3>1. PICK f \in Files : /\ expanded' = ~expanded
                             /\ payload' = Preview(f, ~expanded)
                             /\ UNCHANGED <<filename, imported, staged, encoding, sending, sent>>
      BY <2>4 DEF ToggleExpanded, FormTypeOK
    <3>2. expanded' \in BOOLEAN
      BY <3>1 DEF FormTypeOK
    <3>3. payload' \in PayloadText
      BY <3>1, <3>2, TextsOfForm
    <3>q. QED
      BY <3>1, <3>2, <3>3 DEF FormTypeOK
  <2>5. ASSUME NEW t \in Texts, TypeText(t)
        PROVE  FormTypeOK'
    BY <2>5, TextsOfForm DEF TypeText, FormTypeOK
  <2>6. CASE TypeEncoding
    BY <2>6 DEF TypeEncoding, FormTypeOK, Encodings
  <2>7. ASSUME NEW workerThere \in BOOLEAN, Publishing(workerThere)
        PROVE  FormTypeOK'
    <3> DEFINE command == [file |-> imported, text |-> payload, name |-> filename,
                           encoding |-> encoding]
               commands == [file : SUBSET Files, text : PayloadText,
                            name : SUBSET Files, encoding : Encodings]
    <3>1. command \in commands /\ sent \subseteq commands
      BY DEF FormTypeOK
    <3>2. sent' \subseteq sent \cup {command}
      BY <2>7 DEF Publishing
    <3>3. Nothing \in PayloadText
      BY TextsOfForm
    <3>4. /\ payload' \in PayloadText /\ imported' = {} /\ filename' \subseteq Files
          /\ expanded' \in BOOLEAN /\ staged' \in Nat /\ encoding' = encoding
          /\ sending' = workerThere
      BY <2>7, <3>3 DEF Publishing, StagedAfterPublish, FormTypeOK
    <3> HIDE DEF command, commands
    <3>5. sent' \subseteq commands
      BY <3>1, <3>2
    <3>q. QED
      BY <3>4, <3>5 DEF FormTypeOK, commands
  <2>8. CASE PublishAnswered
    BY <2>8 DEF PublishAnswered, FormTypeOK
  <2>q. QED
    BY <2>1, <2>2, <2>3, <2>4, <2>5, <2>6, <2>7, <2>8 DEF FormNext
<1>q. QED
  BY <1>1, <1>2, PTL DEF FormSpec

-----------------------------------------------------------------------------
(* A step of the panels is for each part a step of its own or a stutter.    *)
LEMMA PanelsStep ==
    [Next]_vars =>
        [TreeNext]_treeVars /\ [BannerNext]_bannerVars /\ [FormNext]_formVars
BY DEF Next, vars, InTree

(* So the panels implement the tree, the banner and the form at once.       *)
LEMMA PanelsImplementParts == Spec => TreeSpec /\ BannerSpec /\ FormSpec
<1>1. Init => TreeInit /\ BannerInit /\ FormInit
  BY DEF Init
<1>q. QED
  BY <1>1, PanelsStep, PTL DEF Spec, TreeSpec, BannerSpec, FormSpec

(* TypeOK of the window, for any topics, filters, alerts and files.         *)
THEOREM PanelTypes == Spec => []TypeOK
<1>1. TreeTypeOK /\ BannerTypeOK /\ FormTypeOK => TypeOK
  BY DEF TypeOK
<1>q. QED
  BY <1>1, PanelsImplementParts, TreeTypes, BannerTypes, FormTypes, PTL

(* StaleMeansRepaint in the window: a filtered tree that lags behind the    *)
(* samples has a frame coming that catches up.                              *)
THEOREM WindowRepaints == Spec => []StaleMeansRepaint
BY PanelsImplementParts, StaleTreeIsRepainted

(* LeavesCounted in the window: each row of the tree tells the number of    *)
(* leaf topics at or below it.                                              *)
THEOREM WindowCounts == Spec => []LeavesCounted
BY PanelsImplementParts, TreeCountsItsLeaves

(* BannerKeepsTime in the window: a banner that leaves by itself was up for *)
(* its whole life, and none stays for longer.                               *)
THEOREM WindowTimes == Spec => BannerKeepsTime
BY PanelsImplementParts, BannerTimes

(* FormConsistent in the window: the publish form and its commands tell of  *)
(* one payload.                                                             *)
THEOREM WindowFormAgrees == Spec => []FormConsistent
BY PanelsImplementParts, FormKeepsTogether
=============================================================================
