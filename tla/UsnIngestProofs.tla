--------------------------- MODULE UsnIngestProofs ---------------------------
(* The index against the volume, for every volume, every number of          *)
(* operations and every size of buffer.  Three parts:                       *)
(*                                                                          *)
(*   - the index keeps its types and tracks only what waits, and a file has *)
(*     its entry once the journal is applied (Inv);                         *)
(*   - an entry with a bare name waits for its parent;                      *)
(*   - paths stay below those of their parents, and the files shown are     *)
(*     those of the volume, as long as no record was misread and no parent  *)
(*     went astray (PathInv).                                               *)
(*                                                                          *)
(* What a fold, an iteration or the walk of IsDescendantOf computes is      *)
(* reached through a function from sets, or steps, to its values.           *)
EXTENDS UsnIngest, FiniteSetTheorems, WellFoundedInduction, TLAPS

-----------------------------------------------------------------------------
(* Induction, folds and iterations.                                         *)

(* A set of numbers has a least one.                                        *)
LEMMA Least ==
  ASSUME NEW T, T \subseteq Nat, T # {}
  PROVE  \E n \in T : \A m \in T : n <= m
<1> DEFINE R == OpToRel(<, Nat)
<1>1. IsWellFoundedOn(R, Nat)
  BY NatLessThanWellFounded
<1>2. \A m, n \in Nat : m < n => <<m, n>> \in R
  BY DEF OpToRel
<1> HIDE DEF R
<1>3. PICK n \in T : \A m \in T : ~(<<m, n>> \in R)
  BY <1>1, WFMin
<1>4. ASSUME NEW m \in T PROVE ~(m < n)
  <2>1. m \in Nat /\ n \in Nat
    OBVIOUS
  <2> QED BY <1>2, <1>3, <2>1, Zenon
<1>5. \A m \in T : m \in Nat /\ n \in Nat
  OBVIOUS
<1> HIDE <1>2, <1>3
<1> QED BY <1>4, <1>5, SMT

(* A set of numbers that has 0 and with each number the next has all.       *)
LEMMA Upwards ==
  ASSUME NEW T, 0 \in T, \A n \in Nat : n \in T => n + 1 \in T
  PROVE  Nat \subseteq T
<1> DEFINE Out == {n \in Nat : n \notin T}
<1> SUFFICES ASSUME Out # {} PROVE FALSE
  OBVIOUS
<1>1. PICK n \in Out : \A m \in Out : n <= m
  BY Least, Out \subseteq Nat, Zenon
<1>2. n \in Nat /\ n # 0 /\ n - 1 \in Nat /\ n - 1 \notin Out
  BY <1>1
<1> QED BY <1>2

(* A family of sets that has the empty set, and a set when it has the set   *)
(* without one of its elements, has every finite set.                       *)
LEMMA SetInduction ==
  ASSUME NEW S, IsFiniteSet(S), NEW B, {} \in B,
         \A s \in SUBSET S : s # {} => \E x \in s : s \ {x} \in B => s \in B
  PROVE  S \in B
<1> DEFINE T == {n \in Nat : \A s \in SUBSET S : Cardinality(s) = n => s \in B}
<1>1. 0 \in T
  BY FS_EmptySet, FS_Subset
<1>2. ASSUME NEW n \in Nat, n \in T PROVE n + 1 \in T
  <2> SUFFICES ASSUME NEW s \in SUBSET S, Cardinality(s) = n + 1 PROVE s \in B
    OBVIOUS
  <2>1. IsFiniteSet(s)
    BY FS_Subset
  <2>2. s # {}
    BY <2>1, FS_EmptySet
  <2>3. PICK x \in s : s \ {x} \in B => s \in B
    BY <2>2
  <2>4. Cardinality(s \ {x}) = n
    <3>1. Cardinality(s \ {x}) = Cardinality(s) - 1
      BY <2>1, FS_RemoveElement
    <3> QED BY <3>1
  <2>5. s \ {x} \in SUBSET S
    OBVIOUS
  <2> QED BY <1>2, <2>3, <2>4, <2>5
<1> HIDE DEF T
<1>3. Nat \subseteq T
  BY <1>1, <1>2, Upwards
<1>4. Cardinality(S) \in Nat
  BY FS_CardinalityType
<1> QED BY <1>3, <1>4 DEF T

(* A fold: the value for a set is made from the value for the set without   *)
(* the element that is picked.                                              *)
Chooses(pick, S) == \A s \in SUBSET S : s # {} => pick[s] \in s

IsFold(g, S, V, base, F, pick) ==
    /\ g \in [SUBSET S -> V]
    /\ \A s \in SUBSET S : g[s] = IF s = {} THEN base ELSE F[pick[s]][g[s \ {pick[s]}]]

(* A fold over a finite set has a value for each subset.                    *)
LEMMA FoldExists ==
  ASSUME NEW S, IsFiniteSet(S), NEW V, NEW base \in V,
         NEW F \in [S -> [V -> V]], NEW pick, Chooses(pick, S)
  PROVE  \E g : IsFold(g, S, V, base, F, pick)
<1> USE DEF Chooses
<1> DEFINE Fits(g, s) == g[s] = IF s = {} THEN base ELSE F[pick[s]][g[s \ {pick[s]}]]
           T == {n \in Nat : \E g \in [SUBSET S -> V] :
                    \A s \in SUBSET S : Cardinality(s) <= n => Fits(g, s)}
<1>0. \A s \in SUBSET S : IsFiniteSet(s) /\ Cardinality(s) \in Nat
  BY FS_Subset, FS_CardinalityType
<1>1. 0 \in T
  <2> DEFINE g == [s \in SUBSET S |-> base]
  <2>1. \A s \in SUBSET S : Cardinality(s) <= 0 => s = {}
    BY <1>0, FS_EmptySet
  <2>2. g \in [SUBSET S -> V]
    OBVIOUS
  <2>3. \A s \in SUBSET S : Cardinality(s) <= 0 => Fits(g, s)
    BY <2>1
  <2> HIDE DEF g, Fits
  <2> QED BY <2>2, <2>3
<1>2. ASSUME NEW n \in Nat, n \in T PROVE n + 1 \in T
  <2>1. PICK g \in [SUBSET S -> V] : \A s \in SUBSET S : Cardinality(s) <= n => Fits(g, s)
    BY <1>2
  <2> DEFINE k == [s \in SUBSET S |-> IF Cardinality(s) <= n THEN g[s]
                                      ELSE IF s = {} THEN base ELSE F[pick[s]][g[s \ {pick[s]}]]]
  <2>2. k \in [SUBSET S -> V]
    <3>1. ASSUME NEW s \in SUBSET S, s # {} PROVE F[pick[s]][g[s \ {pick[s]}]] \in V
      <4>1. pick[s] \in S /\ s \ {pick[s]} \in SUBSET S
        BY <3>1
      <4> QED BY <4>1
    <3> QED BY <3>1
  <2>3. ASSUME NEW s \in SUBSET S, Cardinality(s) <= n + 1 PROVE Fits(k, s)
    <3>1. CASE s = {}
      <4>1. Cardinality(s) = 0
        BY <3>1, FS_EmptySet
      <4>2. Fits(g, s) /\ k[s] = g[s]
        <5> HIDE DEF Fits
        <5>1. Cardinality(s) <= n
          BY <4>1
        <5> QED BY <2>1, <5>1
      <4> QED BY <3>1, <4>2
    <3>2. CASE s # {}
      <4>1. pick[s] \in s /\ s \ {pick[s]} \in SUBSET S
        BY <3>2
      <4>2. Cardinality(s \ {pick[s]}) = Cardinality(s) - 1
        BY <1>0, <4>1, FS_RemoveElement
      <4>3. Cardinality(s \ {pick[s]}) <= n
        BY <1>0, <2>3, <4>2
      <4>4. k[s \ {pick[s]}] = g[s \ {pick[s]}]
        BY <4>1, <4>3
      <4>5. k[s] = F[pick[s]][g[s \ {pick[s]}]]
        <5>1. CASE Cardinality(s) <= n
          <6>1. Fits(g, s) /\ k[s] = g[s]
            BY <2>1, <5>1
          <6> QED BY <3>2, <6>1
        <5>2. CASE ~(Cardinality(s) <= n)
          BY <3>2, <5>2
        <5> QED BY <5>1, <5>2
      <4> QED BY <3>2, <4>4, <4>5
    <3> QED BY <3>1, <3>2
  <2> HIDE DEF k, Fits
  <2> QED BY <2>2, <2>3
<1> HIDE DEF T
<1>3. Nat \subseteq T
  BY <1>1, <1>2, Upwards
<1>4. Cardinality(S) \in T
  BY <1>0, <1>3
<1>5. PICK g \in [SUBSET S -> V] : \A s \in SUBSET S : Cardinality(s) <= Cardinality(S) => Fits(g, s)
  BY <1>4 DEF T
<1>6. \A s \in SUBSET S : Cardinality(s) <= Cardinality(S)
  BY FS_Subset
<1> QED BY <1>5, <1>6 DEF IsFold

(* So does an iteration for each number of steps.                           *)
LEMMA IterationExists ==
  ASSUME NEW V, NEW base \in V, NEW G \in [V -> V]
  PROVE  \E h \in [Nat -> V] : \A n \in Nat : h[n] = IF n = 0 THEN base ELSE G[h[n - 1]]
<1> DEFINE Fits(g, n) == /\ g \in [Nat -> V]
                         /\ \A k \in Nat : k <= n => g[k] = IF k = 0 THEN base ELSE G[g[k - 1]]
           T == {n \in Nat : \E g : Fits(g, n)}
           h == [n \in Nat |-> (CHOOSE g : Fits(g, n))[n]]
<1>1. \A n \in Nat : \E g : Fits(g, n)
  <2>1. 0 \in T
    <3> DEFINE g == [n \in Nat |-> base]
    <3>1. Fits(g, 0)
      OBVIOUS
    <3> QED BY <3>1, Zenon
  <2>2. ASSUME NEW n \in Nat, n \in T PROVE n + 1 \in T
    <3>1. PICK g : Fits(g, n)
      BY <2>2
    <3> DEFINE f == [g EXCEPT ![n + 1] = G[g[n]]]
    <3>2. f \in [Nat -> V]
      BY <3>1
    <3>3. ASSUME NEW k \in Nat, k <= n + 1 PROVE f[k] = IF k = 0 THEN base ELSE G[f[k - 1]]
      BY <3>1, <3>3
    <3>4. Fits(f, n + 1)
      BY <3>2, <3>3
    <3> HIDE DEF f, Fits
    <3> QED BY <3>4
  <2> HIDE DEF T
  <2>3. Nat \subseteq T
    BY <2>1, <2>2, Upwards
  <2> QED BY <2>3 DEF T
<1>2. \A n \in Nat : \A f, g : Fits(f, n) /\ Fits(g, n) => f[n] = g[n]
  <2> DEFINE U == {n \in Nat : \A f, g : Fits(f, n) /\ Fits(g, n) => f[n] = g[n]}
  <2>1. 0 \in U
    OBVIOUS
  <2>2. ASSUME NEW n \in Nat, n \in U PROVE n + 1 \in U
    <3> SUFFICES ASSUME NEW f, NEW g, Fits(f, n + 1), Fits(g, n + 1) PROVE f[n + 1] = g[n + 1]
      OBVIOUS
    <3>1. Fits(f, n) /\ Fits(g, n)
      OBVIOUS
    <3>2. f[n] = g[n]
      BY <2>2, <3>1
    <3>3. f[n + 1] = G[f[n]] /\ g[n + 1] = G[g[n]]
      OBVIOUS
    <3> QED BY <3>2, <3>3
  <2> HIDE DEF U
  <2>3. Nat \subseteq U
    BY <2>1, <2>2, Upwards
  <2> QED BY <2>3 DEF U
<1> DEFINE c(n) == CHOOSE g : Fits(g, n)
<1>3. \A n \in Nat : Fits(c(n), n)
  <2> HIDE DEF Fits
  <2> QED BY <1>1
<1>4. h \in [Nat -> V]
  BY <1>3
<1>5. ASSUME NEW n \in Nat PROVE h[n] = IF n = 0 THEN base ELSE G[h[n - 1]]
  <2>1. h[n] = c(n)[n]
    OBVIOUS
  <2>2. CASE n = 0
    <3>1. Fits(c(n), n)
      BY <1>3
    <3> HIDE DEF c, h
    <3> QED BY <2>1, <2>2, <3>1
  <2>3. CASE n # 0
    <3>1. n - 1 \in Nat /\ h[n - 1] = c(n - 1)[n - 1]
      BY <2>3
    <3>2. Fits(c(n), n) /\ Fits(c(n - 1), n - 1)
      BY <1>3, <3>1
    <3> HIDE DEF c, h
    <3>3. Fits(c(n), n - 1) /\ c(n)[n] = G[c(n)[n - 1]]
      BY <2>3, <3>1, <3>2
    <3>4. c(n)[n - 1] = c(n - 1)[n - 1]
      BY <1>2, <3>1, <3>2, <3>3
    <3> QED BY <2>1, <2>3, <3>1, <3>3, <3>4
  <2> QED BY <2>2, <2>3
<1> HIDE DEF h
<1> QED BY <1>4, <1>5
-----------------------------------------------------------------------------
(* The index.                                                               *)

Parents == References \cup {Root}
Paths == [rooted : BOOLEAN, names : Seq(Names) \ {<<>>}]
Entries == [parent : Parents, dir : BOOLEAN, rooted : BOOLEAN, names : Seq(Names) \ {<<>>}]
Indexes ==
    [entries : UNION {[D -> Entries] : D \in SUBSET References},
     canonical : UNION {[D -> References] : D \in SUBSET Records},
     awaiting : [Records -> SUBSET References]]

(* Nothing waits but entries, for the parent they have.                     *)
Waits(ix) ==
    \A r \in Records : \A id \in ix.awaiting[r] :
        id \in DOMAIN ix.entries /\ ix.entries[id].parent.rec = r

(* The entries shown under a bare name, which wait for their parent.        *)
Bare(ix) == {e \in DOMAIN ix.entries : ~ix.entries[e].rooted /\ Len(ix.entries[e].names) = 1}
BareWait(ix) == \A e \in Bare(ix) : IsAwaitingChild(ix, e)

Sound == {ix \in Indexes : Waits(ix)}

(* Paths may change, and waiters be served; the tree stays as it is.        *)
SameTree(ix, new) ==
    /\ new \in Indexes
    /\ DOMAIN new.entries = DOMAIN ix.entries
    /\ \A e \in DOMAIN ix.entries : /\ new.entries[e].parent = ix.entries[e].parent
                                    /\ new.entries[e].dir = ix.entries[e].dir
    /\ new.canonical = ix.canonical

(* The references are finitely many, and neither special one is of them.    *)
LEMMA ReferencesFinite == IsFiniteSet(References) /\ Nothing \notin References /\ Root \notin References
<1> DEFINE T == Records \X (1..MaxOps)
           f == [ref \in References |-> <<ref.rec, ref.seq>>]
<1>1. IsFiniteSet(T)
  <2>1. IsFiniteSet(1..MaxOps)
    BY FS_Interval, BoundsAssumption
  <2> QED BY <2>1, FS_Product, RecordsAssumption
<1>2. f \in Injection(References, T)
  <2>1. \A ref \in References : ref.rec \in Records /\ ref.seq \in 1..MaxOps
    BY DEF References
  <2>2. f \in [References -> T]
    BY <2>1
  <2>3. ASSUME NEW a \in References, NEW b \in References, f[a] = f[b] PROVE a = b
    <3>1. a.rec = b.rec /\ a.seq = b.seq
      BY <2>3
    <3> QED BY <3>1 DEF References
  <2> HIDE DEF f, T
  <2> QED BY <2>2, <2>3 DEF Injection, IsInjective
<1>3. IsFiniteSet(References)
  <2> HIDE DEF f, T
  <2> QED BY <1>1, <1>2, FS_Injection
<1>4. Nothing \notin References /\ Root \notin References
  BY RecordsAssumption DEF Nothing, Root, References
<1> QED BY <1>3, <1>4

(* What an index is made of.                                                *)
LEMMA IndexParts ==
  ASSUME NEW ix \in Indexes
  PROVE  /\ DOMAIN ix.entries \subseteq References /\ IsFiniteSet(DOMAIN ix.entries)
         /\ \A e \in DOMAIN ix.entries : ix.entries[e] \in Entries
         /\ DOMAIN ix.canonical \subseteq Records
         /\ \A r \in DOMAIN ix.canonical : ix.canonical[r] \in References
         /\ ix.awaiting \in [Records -> SUBSET References]
<1>1. PICK D \in SUBSET References : ix.entries \in [D -> Entries]
  BY DEF Indexes
<1>2. PICK E \in SUBSET Records : ix.canonical \in [E -> References]
  BY DEF Indexes
<1>3. IsFiniteSet(D)
  BY ReferencesFinite, FS_Subset
<1> QED BY <1>1, <1>2, <1>3 DEF Indexes

(* A reference resolves to an entry or to Nothing.                          *)
LEMMA ResolveTypes ==
  ASSUME NEW ix \in Indexes, NEW ref \in Parents
  PROVE  /\ ResolveEntryReference(ix, ref) \in DOMAIN ix.entries \cup {Nothing}
         /\ ResolveParent(ix, ref) \in Parents
<1>1. ResolveEntryReference(ix, ref) \in DOMAIN ix.entries \cup {Nothing}
  BY DEF ResolveEntryReference
<1> QED BY <1>1, IndexParts DEF ResolveParent, Parents

(* The leaf of a path is a name.                                            *)
LEMMA LeafType ==
  ASSUME NEW entry, entry.names \in Seq(Names) \ {<<>>}
  PROVE  Leaf(entry) \in Names
<1> QED BY DEF Leaf

(* The path of a name below a parent that is known is no bare name.         *)
LEMMA PathTypes ==
  ASSUME NEW ix \in Indexes, NEW parent, NEW name \in Names
  PROVE  /\ PathBelow(ix, parent, name) \in Paths
         /\ parent \in DOMAIN ix.entries => Len(PathBelow(ix, parent, name).names) > 1
<1>1. CASE parent \in DOMAIN ix.entries
  <2>1. ix.entries[parent] \in Entries
    BY <1>1, IndexParts
  <2>2. /\ Append(ix.entries[parent].names, name) \in Seq(Names) \ {<<>>}
        /\ Len(Append(ix.entries[parent].names, name)) > 1
    <3>1. ix.entries[parent].names \in Seq(Names) /\ ix.entries[parent].names # <<>>
      BY <2>1 DEF Entries
    <3> HIDE <2>1
    <3> QED BY <3>1
  <2> QED BY <1>1, <2>1, <2>2 DEF PathBelow, Paths, Entries
<1>2. CASE parent \notin DOMAIN ix.entries
  <2>1. <<name>> \in Seq(Names) \ {<<>>}
    OBVIOUS
  <2> QED BY <1>2, <2>1 DEF PathBelow, Paths
<1> QED BY <1>1, <1>2

(* MoveSubtree changes names, of the entry and of what is below it only.    *)
LEMMA MoveSubtreeTypes ==
  ASSUME NEW ix \in Indexes, NEW id \in DOMAIN ix.entries, NEW new \in Paths
  PROVE  /\ SameTree(ix, MoveSubtree(ix, id, new))
         /\ MoveSubtree(ix, id, new).awaiting = ix.awaiting
         /\ MoveSubtree(ix, id, new).entries[id].rooted = new.rooted
         /\ MoveSubtree(ix, id, new).entries[id].names = new.names
         /\ \A e \in DOMAIN ix.entries : e # id =>
               \/ MoveSubtree(ix, id, new).entries[e] = ix.entries[e]
               \/ Len(MoveSubtree(ix, id, new).entries[e].names) > 1
<1> DEFINE old == PathOf(ix, id)
           depth == Len(old.names)
           Below(e) == /\ ix.entries[e].rooted = old.rooted
                       /\ Len(ix.entries[e].names) > depth
                       /\ SubSeq(ix.entries[e].names, 1, depth) = old.names
                       /\ IsDescendantOf(ix, e, id)
           Shifted(e) == new.names \o SubSeq(ix.entries[e].names, depth + 1, Len(ix.entries[e].names))
           At(e) == IF e = id
                    THEN [ix.entries[e] EXCEPT !.rooted = new.rooted, !.names = new.names]
                    ELSE IF ix.entries[id].dir /\ Below(e)
                    THEN [ix.entries[e] EXCEPT !.rooted = new.rooted, !.names = Shifted(e)]
                    ELSE ix.entries[e]
           D == DOMAIN ix.entries
<1>1. MoveSubtree(ix, id, new) = [ix EXCEPT !.entries = [e \in D |-> At(e)]]
  BY DEF MoveSubtree
<1>2. /\ new.rooted \in BOOLEAN /\ new.names \in Seq(Names) /\ new.names # <<>>
      /\ Len(new.names) \in Nat \ {0}
  BY DEF Paths
<1>3. D \in SUBSET References /\ \A e \in D : ix.entries[e] \in Entries
  BY IndexParts
<1>4. depth \in Nat
  <2>1. ix.entries[id].names \in Seq(Names)
    BY <1>3 DEF Entries
  <2> HIDE <1>3
  <2> QED BY <2>1 DEF PathOf
<1> HIDE DEF depth, old
<1>5. ASSUME NEW e \in D, Len(ix.entries[e].names) > depth
      PROVE  Shifted(e) \in Seq(Names) \ {<<>>} /\ Len(Shifted(e)) > 1
  <2> DEFINE s == ix.entries[e].names
             q == SubSeq(s, depth + 1, Len(s))
  <2>1. s \in Seq(Names)
    BY <1>3 DEF Entries
  <2> HIDE DEF s
  <2>2. q \in Seq(Names) /\ Len(q) = Len(s) - depth
    BY <1>4, <1>5, <2>1 DEF s
  <2>3. Len(q) \in Nat \ {0}
    BY <1>4, <1>5, <2>1, <2>2 DEF s
  <2> HIDE DEF q
  <2>4. new.names \o q \in Seq(Names) /\ Len(new.names \o q) = Len(new.names) + Len(q)
    BY <1>2, <2>2
  <2>5. Len(new.names \o q) > 1
    BY <1>2, <2>3, <2>4
  <2>6. new.names \o q # <<>>
    BY <2>5
  <2> QED BY <2>4, <2>5, <2>6 DEF s, q
<1> HIDE DEF Shifted
<1>6. ASSUME NEW e \in D
      PROVE  /\ At(e) \in Entries
             /\ At(e).parent = ix.entries[e].parent /\ At(e).dir = ix.entries[e].dir
             /\ e # id => At(e) = ix.entries[e] \/ Len(At(e).names) > 1
             /\ e = id => At(e).rooted = new.rooted /\ At(e).names = new.names
  <2>1. ix.entries[e] \in Entries
    BY <1>3
  <2>2. CASE e = id
    BY <1>2, <2>1, <2>2 DEF Entries
  <2>3. CASE e # id /\ ix.entries[id].dir /\ Below(e)
    <3>1. Shifted(e) \in Seq(Names) \ {<<>>} /\ Len(Shifted(e)) > 1
      BY <1>5, <2>3
    <3>2. At(e) = [ix.entries[e] EXCEPT !.rooted = new.rooted, !.names = Shifted(e)]
      BY <2>3
    <3> HIDE DEF At
    <3> QED BY <1>2, <2>1, <2>3, <3>1, <3>2 DEF Entries
  <2>4. CASE e # id /\ ~(ix.entries[id].dir /\ Below(e))
    <3>1. At(e) = ix.entries[e]
      BY <2>4
    <3> HIDE DEF At
    <3> QED BY <2>1, <2>4, <3>1
  <2> QED BY <2>2, <2>3, <2>4
<1> HIDE DEF At
<1> DEFINE n == [e \in D |-> At(e)]
<1>7. n \in UNION {[E -> Entries] : E \in SUBSET References}
  <2>1. n \in [D -> Entries]
    BY <1>6
  <2> QED BY <1>3, <2>1
<1>8. DOMAIN n = D /\ \A e \in D : n[e] = At(e)
  OBVIOUS
<1> HIDE DEF n
<1>9. /\ MoveSubtree(ix, id, new) \in Indexes
      /\ MoveSubtree(ix, id, new).entries = n
      /\ MoveSubtree(ix, id, new).awaiting = ix.awaiting
      /\ MoveSubtree(ix, id, new).canonical = ix.canonical
  BY <1>1, <1>7 DEF Indexes, n
<1> QED BY <1>6, <1>8, <1>9 DEF SameTree

(* A child healed keeps its parent; the index keeps its tree.               *)
LEMMA SameTreeTransitive ==
  ASSUME NEW a, NEW b, NEW c, SameTree(a, b), SameTree(b, c)
  PROVE  SameTree(a, c)
<1> QED BY DEF SameTree

(* HealChildren heals one child after the other.                            *)
HealsInSteps(h, ix, parent) ==
    LET S == Heals(ix, parent)
    IN /\ HealChildren(parent, ix) = h[S]
       /\ h[{}] \in Indexes
       /\ h[{}].entries = ix.entries /\ h[{}].canonical = ix.canonical
       /\ \A s \in SUBSET S : s # {} => \E c \in s :
             h[s] = MoveSubtree(h[s \ {c}], c,
                       PathBelow(h[s \ {c}], parent, Leaf(h[s \ {c}].entries[c])))
       /\ \A s \in SUBSET S : SameTree(ix, h[s]) /\ h[s].awaiting = [ix.awaiting EXCEPT ![parent.rec] = {}]

(* HealChildren is such a sequence of moves.                                *)
LEMMA HealChildrenSteps ==
  ASSUME NEW ix \in Sound, NEW parent \in DOMAIN ix.entries
  PROVE  \E h : HealsInSteps(h, ix, parent)
<1> DEFINE start == [ix EXCEPT !.awaiting[parent.rec] = {}]
           S == Heals(ix, parent)
           V == {i \in Indexes : SameTree(ix, i) /\ i.awaiting = start.awaiting}
           Heal(c, i) == MoveSubtree(i, c, PathBelow(i, parent, Leaf(i.entries[c])))
           Body(g) == [s \in SUBSET S |-> IF s = {} THEN start
                          ELSE Heal(CHOOSE x \in s : TRUE, g[s \ {CHOOSE x \in s : TRUE}])]
           h == CHOOSE g : g = Body(g)
<1>1. HealChildren(parent, ix) = h[S]
  BY Zenon DEF HealChildren, FoldSet, MapThenFoldSet
<1>2. S \subseteq DOMAIN ix.entries /\ IsFiniteSet(S)
  <2>1. S \subseteq DOMAIN ix.entries
    BY DEF Heals
  <2> QED BY <2>1, IndexParts, FS_Subset DEF Sound
<1>3. /\ start \in V /\ start.entries = ix.entries /\ start.canonical = ix.canonical
      /\ start.awaiting = [ix.awaiting EXCEPT ![parent.rec] = {}]
  <2>1. ix \in Indexes /\ ix.awaiting \in [Records -> SUBSET References]
    BY IndexParts DEF Sound
  <2>2. start.awaiting \in [Records -> SUBSET References]
    BY <2>1 DEF Indexes
  <2>3. /\ start.entries = ix.entries /\ start.canonical = ix.canonical
        /\ start.awaiting = [ix.awaiting EXCEPT ![parent.rec] = {}]
    BY <2>1 DEF Indexes
  <2>4. start \in Indexes
    BY <2>1, <2>2 DEF Indexes
  <2> HIDE DEF start
  <2>5. SameTree(ix, start)
    BY <2>3, <2>4 DEF SameTree
  <2> QED BY <2>3, <2>4, <2>5
<1> HIDE DEF start
<1>4. ASSUME NEW c \in S, NEW i \in V PROVE Heal(c, i) \in V
  <2>1. i \in Indexes /\ SameTree(ix, i) /\ c \in DOMAIN i.entries
    BY <1>2 DEF SameTree
  <2>2. i.entries[c].names \in Seq(Names) \ {<<>>}
    BY <2>1, IndexParts DEF Entries
  <2>3. PathBelow(i, parent, Leaf(i.entries[c])) \in Paths
    BY <2>1, <2>2, LeafType, PathTypes
  <2>4. SameTree(i, Heal(c, i)) /\ Heal(c, i).awaiting = i.awaiting
    BY <2>1, <2>3, MoveSubtreeTypes
  <2> HIDE DEF Heal
  <2>5. SameTree(ix, Heal(c, i))
    BY <2>1, <2>4, SameTreeTransitive
  <2> QED BY <2>4, <2>5 DEF SameTree
<1> HIDE DEF V, Heal
<1> DEFINE pick == [s \in SUBSET S |-> CHOOSE x \in s : TRUE]
           F == [c \in S |-> [i \in V |-> Heal(c, i)]]
<1>5. \A s \in SUBSET S : s # {} => pick[s] \in s
  OBVIOUS
<1>6. F \in [S -> [V -> V]]
  BY <1>4
<1>7. PICK g : IsFold(g, S, V, start, F, pick)
  <2>1. Chooses(pick, S)
    BY <1>5 DEF Chooses
  <2> HIDE DEF F, pick, S
  <2> QED BY <1>2, <1>3, <1>6, <2>1, FoldExists
<1>8. g = Body(g)
  <2>1. ASSUME NEW s \in SUBSET S
        PROVE  g[s] = IF s = {} THEN start
                      ELSE Heal(CHOOSE x \in s : TRUE, g[s \ {CHOOSE x \in s : TRUE}])
    <3>1. CASE s = {}
      BY <1>7, <3>1 DEF IsFold
    <3>2. CASE s # {}
      <4>1. pick[s] \in S /\ s \ {pick[s]} \in SUBSET S
        BY <1>5, <3>2
      <4>2. g[s \ {pick[s]}] \in V
        BY <1>7, <4>1 DEF IsFold
      <4>3. F[pick[s]][g[s \ {pick[s]}]] = Heal(pick[s], g[s \ {pick[s]}])
        BY <4>1, <4>2
      <4>4. pick[s] = CHOOSE x \in s : TRUE
        OBVIOUS
      <4> HIDE DEF pick, F, S
      <4> QED BY <1>7, <3>2, <4>3, <4>4 DEF IsFold
    <3> QED BY <3>1, <3>2
  <2>2. g = [s \in SUBSET S |-> g[s]]
    BY <1>7 DEF IsFold
  <2> HIDE DEF S
  <2> QED BY <2>1, <2>2
<1>9. h = Body(h)
  <2> HIDE DEF Body
  <2> QED BY <1>8
<1> HIDE DEF h
<1>10. \A s \in SUBSET S : s # {} => LET c == CHOOSE x \in s : TRUE IN h[s] = Heal(c, h[s \ {c}])
  <2> HIDE DEF S
  <2> QED BY <1>9, Zenon
<1>11. h[{}] = start
  BY <1>9
<1>12. ASSUME NEW s \in SUBSET S PROVE h[s] \in V
  <2> DEFINE B == {t \in SUBSET s : h[t] \in V}
  <2>1. {} \in B
    BY <1>3, <1>11
  <2>2. ASSUME NEW t \in SUBSET s, t # {} PROVE \E x \in t : t \ {x} \in B => t \in B
    <3> DEFINE x == CHOOSE y \in t : TRUE
    <3>1. x \in t /\ t \in SUBSET S
      BY <2>2
    <3>2. h[t] = Heal(x, h[t \ {x}])
      BY <1>10, <2>2, <3>1
    <3> HIDE DEF x
    <3>3. t \ {x} \in B => t \in B
      <4> SUFFICES ASSUME h[t \ {x}] \in V PROVE h[t] \in V
        BY <3>1
      <4> QED BY <1>4, <3>1, <3>2
    <3> QED BY <3>1, <3>3
  <2>3. IsFiniteSet(s)
    BY <1>2, FS_Subset
  <2>4. s \in B
    <3> HIDE DEF B, S
    <3> QED BY <2>1, <2>2, <2>3, SetInduction
  <2> QED BY <2>4
<1>13. \A s \in SUBSET S : SameTree(ix, h[s]) /\ h[s].awaiting = [ix.awaiting EXCEPT ![parent.rec] = {}]
  BY <1>3, <1>12 DEF V
<1>14. h[{}] \in Indexes /\ h[{}].entries = ix.entries /\ h[{}].canonical = ix.canonical
  BY <1>3, <1>11 DEF V
<1>15. ASSUME NEW s \in SUBSET S, s # {} PROVE \E c \in s : h[s] = Heal(c, h[s \ {c}])
  <2> DEFINE c == CHOOSE x \in s : TRUE
  <2>1. h[s] = Heal(c, h[s \ {c}])
    <3> HIDE DEF S
    <3> QED BY <1>10, <1>15, Zenon
  <2>2. c \in s
    BY <1>15
  <2> HIDE DEF c
  <2> QED BY <2>1, <2>2
<1> HIDE DEF h, S
<1>16. HealsInSteps(h, ix, parent)
  BY <1>1, <1>13, <1>14, <1>15, Zenon DEF HealsInSteps, Heal, S
<1> QED BY <1>16

(* HealChildren: the waiters of one record are served, all others wait on,  *)
(* and the tree stays.                                                      *)
LEMMA HealChildrenTypes ==
  ASSUME NEW ix \in Sound, NEW parent \in DOMAIN ix.entries
  PROVE  /\ HealChildren(parent, ix) \in Sound
         /\ SameTree(ix, HealChildren(parent, ix))
         /\ BareWait(ix) => BareWait(HealChildren(parent, ix))
         /\ \A r \in Records : HealChildren(parent, ix).awaiting[r] \subseteq ix.awaiting[r]
         /\ HealChildren(parent, ix).awaiting[parent.rec] = {}
<1> DEFINE S == Heals(ix, parent)
<1>1. PICK h : HealsInSteps(h, ix, parent)
  BY HealChildrenSteps
<1>2. /\ HealChildren(parent, ix) = h[S] /\ h[{}].entries = ix.entries
      /\ \A s \in SUBSET S : s # {} => \E c \in s :
            h[s] = MoveSubtree(h[s \ {c}], c,
                      PathBelow(h[s \ {c}], parent, Leaf(h[s \ {c}].entries[c])))
      /\ \A s \in SUBSET S : SameTree(ix, h[s]) /\ h[s].awaiting = [ix.awaiting EXCEPT ![parent.rec] = {}]
  BY <1>1, Zenon DEF HealsInSteps
<1>3. S \subseteq DOMAIN ix.entries /\ IsFiniteSet(S)
  <2>1. S \subseteq DOMAIN ix.entries
    BY DEF Heals
  <2> QED BY <2>1, IndexParts, FS_Subset DEF Sound
<1>4. /\ ix \in Indexes /\ Waits(ix) /\ ix.awaiting \in [Records -> SUBSET References]
      /\ parent.rec \in Records
  BY IndexParts DEF Sound, References
<1> HIDE DEF S
<1> DEFINE B == {s \in SUBSET S : Bare(h[s]) \subseteq Bare(ix) \ s}
<1>5. {} \in B
  BY <1>2 DEF Bare
<1>6. ASSUME NEW s \in SUBSET S, s # {} PROVE \E c \in s : s \ {c} \in B => s \in B
  <2>1. PICK c \in s : h[s] = MoveSubtree(h[s \ {c}], c,
                                 PathBelow(h[s \ {c}], parent, Leaf(h[s \ {c}].entries[c])))
    BY <1>2, <1>6
  <2> DEFINE i == h[s \ {c}]
             new == PathBelow(i, parent, Leaf(i.entries[c]))
  <2>2. s \ {c} \in SUBSET S
    OBVIOUS
  <2>3. i \in Indexes /\ c \in DOMAIN i.entries /\ parent \in DOMAIN i.entries
    BY <1>2, <1>3, <2>2 DEF SameTree
  <2>4. new \in Paths /\ Len(new.names) > 1
    <3>1. Leaf(i.entries[c]) \in Names
      BY <2>3, IndexParts, LeafType DEF Entries
    <3> QED BY <2>3, <3>1, PathTypes
  <2>5. h[s] = MoveSubtree(i, c, new)
    BY <2>1
  <2> HIDE DEF i, new
  <2>6. /\ DOMAIN h[s].entries = DOMAIN i.entries /\ h[s].entries[c].names = new.names
        /\ \A e \in DOMAIN i.entries : e # c =>
              h[s].entries[e] = i.entries[e] \/ Len(h[s].entries[e].names) > 1
    BY <2>3, <2>4, <2>5, MoveSubtreeTypes DEF SameTree
  <2>7. ASSUME NEW e \in Bare(h[s]) PROVE e \in Bare(i) /\ e # c
    <3>1. e \in DOMAIN i.entries /\ Len(h[s].entries[e].names) = 1
      BY <2>6, <2>7 DEF Bare
    <3>2. ~(Len(h[s].entries[e].names) > 1)
      BY <3>1
    <3>3. e # c
      BY <2>4, <2>6, <3>2
    <3>4. h[s].entries[e] = i.entries[e]
      BY <2>6, <3>1, <3>2, <3>3
    <3> QED BY <2>7, <3>1, <3>3, <3>4 DEF Bare
  <2>8. s \ {c} \in B => s \in B
    BY <2>7 DEF i
  <2> HIDE DEF B
  <2> QED BY <2>8
<1>7. Bare(h[S]) \subseteq Bare(ix) \ S
  <2>1. S \in B
    <3> HIDE DEF B
    <3> QED BY <1>3, <1>5, <1>6, SetInduction
  <2> QED BY <2>1
<1> DEFINE new == h[S]
<1>8. SameTree(ix, new) /\ new.awaiting = [ix.awaiting EXCEPT ![parent.rec] = {}]
  BY <1>2
<1> HIDE DEF new
<1>9. Waits(new)
  BY <1>4, <1>8 DEF Waits, SameTree
<1>10. ASSUME BareWait(ix) PROVE BareWait(new)
  <2> SUFFICES ASSUME NEW e \in Bare(new) PROVE IsAwaitingChild(new, e)
    BY DEF BareWait
  <2>1. e \in Bare(ix) /\ e \notin S /\ e \in DOMAIN ix.entries
    BY <1>7 DEF new, Bare
  <2>2. new.entries[e].parent = ix.entries[e].parent
    BY <1>8, <2>1 DEF SameTree
  <2>3. ix.entries[e].parent # Root /\ e \in ix.awaiting[ix.entries[e].parent.rec]
    BY <1>10, <2>1 DEF BareWait, IsAwaitingChild
  <2>4. ix.entries[e].parent.rec # parent.rec
    BY <2>1, <2>3 DEF S, Heals
  <2>5. ix.entries[e].parent.rec \in Records
    BY <1>4, <2>1, <2>3, IndexParts DEF Entries, Parents, References
  <2>6. e \in new.awaiting[ix.entries[e].parent.rec]
    BY <1>4, <1>8, <2>3, <2>4, <2>5
  <2> QED BY <2>2, <2>3, <2>6 DEF IsAwaitingChild
<1>11. /\ \A r \in Records : new.awaiting[r] \subseteq ix.awaiting[r]
       /\ new.awaiting[parent.rec] = {}
  BY <1>4, <1>8
<1>12. HealChildren(parent, ix) = new
  BY <1>2 DEF new
<1> QED BY <1>8, <1>9, <1>10, <1>11, <1>12 DEF Sound, SameTree

(* What healing keeps.                                                      *)
Healed(ix) ==
    {i \in Sound : /\ SameTree(ix, i) /\ (BareWait(ix) => BareWait(i))
                   /\ \A r \in Records : i.awaiting[r] \subseteq ix.awaiting[r]}

(* One level of HealAwaiting.                                               *)
LEMMA HealLevelTypes ==
  ASSUME NEW ix \in Sound, NEW start \in Healed(ix), NEW S, S \subseteq DOMAIN ix.entries
  PROVE  /\ FoldSet(HealChildren, start, S) \in Healed(ix)
         /\ \A p \in S : FoldSet(HealChildren, start, S).awaiting[p.rec] = {}
<1> DEFINE V == Healed(ix)
           Body(g) == [s \in SUBSET S |-> IF s = {} THEN start
                          ELSE HealChildren(CHOOSE x \in s : TRUE, g[s \ {CHOOSE x \in s : TRUE}])]
           h == CHOOSE g : g = Body(g)
<1>1. FoldSet(HealChildren, start, S) = h[S]
  BY Zenon DEF FoldSet, MapThenFoldSet
<1>2. IsFiniteSet(S)
  BY IndexParts, FS_Subset DEF Sound
<1>3. ASSUME NEW c \in S, NEW i \in V
      PROVE  /\ HealChildren(c, i) \in V /\ HealChildren(c, i).awaiting[c.rec] = {}
             /\ \A r \in Records : HealChildren(c, i).awaiting[r] \subseteq i.awaiting[r]
  <2>1. i \in Sound /\ c \in DOMAIN i.entries /\ SameTree(ix, i)
    BY DEF Healed, SameTree
  <2>2. /\ HealChildren(c, i) \in Sound /\ SameTree(i, HealChildren(c, i))
        /\ BareWait(i) => BareWait(HealChildren(c, i))
        /\ \A r \in Records : HealChildren(c, i).awaiting[r] \subseteq i.awaiting[r]
        /\ HealChildren(c, i).awaiting[c.rec] = {}
    BY <2>1, HealChildrenTypes
  <2>3. SameTree(ix, HealChildren(c, i))
    BY <2>1, <2>2, SameTreeTransitive
  <2> QED BY <2>2, <2>3 DEF Healed
<1> DEFINE pick == [s \in SUBSET S |-> CHOOSE x \in s : TRUE]
           F == [c \in S |-> [i \in V |-> HealChildren(c, i)]]
<1>5. \A s \in SUBSET S : s # {} => pick[s] \in s
  OBVIOUS
<1> HIDE DEF V
<1>6. F \in [S -> [V -> V]]
  BY <1>3
<1>7. PICK g : IsFold(g, S, V, start, F, pick)
  <2>1. Chooses(pick, S)
    BY <1>5 DEF Chooses
  <2>2. start \in V
    BY DEF V
  <2> HIDE DEF F, pick
  <2> QED BY <1>2, <1>6, <2>1, <2>2, FoldExists
<1>8. g = Body(g)
  <2>1. ASSUME NEW s \in SUBSET S
        PROVE  g[s] = IF s = {} THEN start
                      ELSE HealChildren(CHOOSE x \in s : TRUE, g[s \ {CHOOSE x \in s : TRUE}])
    <3>1. CASE s = {}
      BY <1>7, <3>1 DEF IsFold
    <3>2. CASE s # {}
      <4>1. pick[s] \in S /\ s \ {pick[s]} \in SUBSET S
        BY <1>5, <3>2
      <4>2. g[s \ {pick[s]}] \in V
        BY <1>7, <4>1 DEF IsFold
      <4>3. F[pick[s]][g[s \ {pick[s]}]] = HealChildren(pick[s], g[s \ {pick[s]}])
        BY <4>1, <4>2
      <4>4. pick[s] = CHOOSE x \in s : TRUE
        OBVIOUS
      <4> HIDE DEF pick, F
      <4> QED BY <1>7, <3>2, <4>3, <4>4 DEF IsFold
    <3> QED BY <3>1, <3>2
  <2>2. g = [s \in SUBSET S |-> g[s]]
    BY <1>7 DEF IsFold
  <2> QED BY <2>1, <2>2
<1>9. h = Body(h)
  <2> HIDE DEF Body
  <2> QED BY <1>8
<1> HIDE DEF h
<1> DEFINE B == {s \in SUBSET S : h[s] \in V /\ \A p \in s : h[s].awaiting[p.rec] = {}}
<1>10. {} \in B
  BY <1>9 DEF V
<1>11. ASSUME NEW s \in SUBSET S, s # {} PROVE \E x \in s : s \ {x} \in B => s \in B
  <2> DEFINE x == CHOOSE y \in s : TRUE
  <2>1. x \in s
    BY <1>11
  <2>2. s \ {x} \in B => s \in B
    <3> SUFFICES ASSUME s \ {x} \in B PROVE h[s] \in V /\ \A p \in s : h[s].awaiting[p.rec] = {}
      OBVIOUS
    <3>1. h[s] = HealChildren(x, h[s \ {x}])
      BY <1>9, <1>11
    <3>2. x \in S /\ h[s \ {x}] \in V /\ \A p \in s \ {x} : h[s \ {x}].awaiting[p.rec] = {}
      BY <2>1
    <3> HIDE DEF x
    <3>3. /\ h[s] \in V /\ h[s].awaiting[x.rec] = {}
          /\ \A r \in Records : h[s].awaiting[r] \subseteq h[s \ {x}].awaiting[r]
      <4> DEFINE i == h[s \ {x}]
      <4>1. i \in V
        BY <3>2
      <4> HIDE DEF i
      <4>2. /\ HealChildren(x, i) \in V /\ HealChildren(x, i).awaiting[x.rec] = {}
            /\ \A r \in Records : HealChildren(x, i).awaiting[r] \subseteq i.awaiting[r]
        BY <1>3, <3>2, <4>1
      <4>3. h[s] = HealChildren(x, i)
        BY <3>1 DEF i
      <4> QED BY <4>2, <4>3 DEF i
    <3>4. \A p \in s : p.rec \in Records
      BY IndexParts DEF Sound, References
    <3>5. ASSUME NEW p \in s PROVE h[s].awaiting[p.rec] = {}
      <4>1. CASE p = x
        BY <3>3, <4>1
      <4>2. CASE p # x
        <5>1. h[s \ {x}].awaiting[p.rec] = {}
          BY <3>2, <4>2
        <5> QED BY <3>3, <3>4, <5>1
      <4> QED BY <4>1, <4>2
    <3> QED BY <3>3, <3>5
  <2> HIDE DEF B
  <2> QED BY <2>1, <2>2
<1>12. S \in B
  <2> HIDE DEF B
  <2> QED BY <1>2, <1>10, <1>11, SetInduction
<1> QED BY <1>1, <1>12 DEF V

(* HealAwaiting serves those that wait for the record and keeps the tree.   *)
LEMMA HealAwaitingTypes ==
  ASSUME NEW ix \in Sound, NEW id \in DOMAIN ix.entries
  PROVE  HealAwaiting(ix, id) \in Healed(ix) /\ HealAwaiting(ix, id).awaiting[id.rec] = {}
<1> DEFINE base == [ix |-> ix, queue |-> {id}]
           V == [ix : Healed(ix), queue : SUBSET DOMAIN ix.entries]
           Level(v) == [ix |-> FoldSet(HealChildren, v.ix, v.queue),
                        queue |-> UNION {Heals(v.ix, p) : p \in v.queue}]
           Body(f) == [level \in Nat |-> IF level = 0 THEN base ELSE Level(f[level - 1])]
           after == CHOOSE f : f = Body(f)
<1>1. HealAwaiting(ix, id) = after[Cardinality(DOMAIN ix.entries)].ix
  BY Zenon DEF HealAwaiting
<1>2. Cardinality(DOMAIN ix.entries) \in Nat
  BY IndexParts, FS_CardinalityType DEF Sound
<1>3. base \in V
  BY DEF Healed, SameTree, Sound
<1>4. ASSUME NEW v \in V PROVE Level(v) \in V
  <2>1. v.ix \in Healed(ix) /\ v.queue \subseteq DOMAIN ix.entries
    OBVIOUS
  <2>2. FoldSet(HealChildren, v.ix, v.queue) \in Healed(ix)
    BY <2>1, HealLevelTypes
  <2>3. \A p \in v.queue : Heals(v.ix, p) \subseteq DOMAIN ix.entries
    BY <2>1 DEF Heals, Healed, SameTree
  <2> QED BY <2>2, <2>3
<1>14. ASSUME NEW v \in V
       PROVE  /\ \A r \in Records : Level(v).ix.awaiting[r] \subseteq v.ix.awaiting[r]
              /\ \A p \in v.queue : Level(v).ix.awaiting[p.rec] = {}
  <2>1. v.ix \in Sound /\ v.ix \in Healed(v.ix) /\ v.queue \subseteq DOMAIN v.ix.entries
    BY DEF Healed, SameTree, Sound
  <2>2. /\ FoldSet(HealChildren, v.ix, v.queue) \in Healed(v.ix)
        /\ \A p \in v.queue : FoldSet(HealChildren, v.ix, v.queue).awaiting[p.rec] = {}
    BY <2>1, HealLevelTypes
  <2>3. Level(v).ix = FoldSet(HealChildren, v.ix, v.queue)
    OBVIOUS
  <2> HIDE DEF Level
  <2> QED BY <2>2, <2>3 DEF Healed
<1>15. base.queue = {id}
  OBVIOUS
<1> HIDE DEF V, Level, base
<1> DEFINE G == [v \in V |-> Level(v)]
<1>5. PICK h \in [Nat -> V] : \A n \in Nat : h[n] = IF n = 0 THEN base ELSE G[h[n - 1]]
  <2>1. G \in [V -> V]
    BY <1>4
  <2> HIDE DEF G
  <2> QED BY <1>3, <2>1, IterationExists
<1>6. h = Body(h)
  <2>1. ASSUME NEW n \in Nat PROVE h[n] = IF n = 0 THEN base ELSE Level(h[n - 1])
    <3>1. n # 0 => h[n - 1] \in V
      OBVIOUS
    <3> QED BY <1>5, <3>1
  <2>2. h = [n \in Nat |-> h[n]]
    OBVIOUS
  <2> QED BY <2>1, <2>2
<1>7. after = Body(after)
  <2> HIDE DEF Body
  <2> QED BY <1>6
<1> HIDE DEF after
<1> DEFINE T == {n \in Nat : after[n] \in V /\ (n # 0 => after[n].ix.awaiting[id.rec] = {})}
<1>8. 0 \in T
  BY <1>3, <1>7
<1>9. ASSUME NEW n \in Nat, n \in T PROVE n + 1 \in T
  <2>1. after[n + 1] = Level(after[n]) /\ (n = 0 => after[n] = base)
    BY <1>7
  <2>2. id.rec \in Records
    BY IndexParts DEF Sound, References
  <2>3. Level(after[n]) \in V
    BY <1>4, <1>9
  <2>4. Level(after[n]).ix.awaiting[id.rec] = {}
    <3>1. CASE n = 0
      BY <1>3, <1>14, <1>15, <2>1, <3>1
    <3>2. CASE n # 0
      <4>1. after[n] \in V /\ after[n].ix.awaiting[id.rec] = {}
        BY <1>9, <3>2
      <4> HIDE DEF T
      <4> QED BY <1>14, <2>2, <4>1
    <3> QED BY <3>1, <3>2
  <2> QED BY <2>1, <2>3, <2>4
<1> HIDE DEF T
<1>10. Nat \subseteq T
  BY <1>8, <1>9, Upwards
<1>11. Cardinality(DOMAIN ix.entries) # 0
  BY IndexParts, FS_EmptySet DEF Sound
<1> QED BY <1>1, <1>2, <1>10, <1>11 DEF T, V

(* Registering or forgetting a waiter changes one set.                      *)
WaitersAre(ix, new, parent, less, more) ==
    /\ new \in Indexes /\ new.entries = ix.entries /\ new.canonical = ix.canonical
    /\ \A r \in Records : new.awaiting[r] =
          IF r = parent.rec THEN (ix.awaiting[r] \ less) \cup more ELSE ix.awaiting[r]

(* AwaitParent adds one waiter, ForgetUnresolved removes one.               *)
LEMMA WaiterTypes ==
  ASSUME NEW ix \in Indexes, NEW parent \in Parents, NEW id \in References
  PROVE  /\ WaitersAre(ix, AwaitParent(ix, parent, id), parent, {}, {id})
         /\ WaitersAre(ix, ForgetUnresolved(ix, parent, id), parent, {id}, {})
<1> USE DEF WaitersAre
<1>1. ix.awaiting \in [Records -> SUBSET References]
  BY IndexParts
<1>2. CASE parent = Root
  <2>1. AwaitParent(ix, parent, id) = ix /\ ForgetUnresolved(ix, parent, id) = ix
    BY <1>2 DEF AwaitParent, ForgetUnresolved
  <2>2. \A r \in Records : r # parent.rec
    BY <1>2, RecordsAssumption DEF Root
  <2> QED BY <2>1, <2>2
<1>3. CASE parent # Root
  <2>1. parent.rec \in Records
    BY <1>3 DEF Parents, References
  <2> DEFINE more == [ix.awaiting EXCEPT ![parent.rec] = @ \cup {id}]
             less == [ix.awaiting EXCEPT ![parent.rec] = @ \ {id}]
  <2>2. more \in [Records -> SUBSET References] /\ less \in [Records -> SUBSET References]
    BY <1>1, <2>1
  <2>3. \A r \in Records :
            /\ more[r] = IF r = parent.rec THEN ix.awaiting[r] \cup {id} ELSE ix.awaiting[r]
            /\ less[r] = IF r = parent.rec THEN ix.awaiting[r] \ {id} ELSE ix.awaiting[r]
    BY <1>1, <2>1
  <2>4. AwaitParent(ix, parent, id) = [ix EXCEPT !.awaiting = more]
    BY <1>1, <1>3, <2>1 DEF AwaitParent, Indexes
  <2>5. ForgetUnresolved(ix, parent, id) = [ix EXCEPT !.awaiting = less]
    BY <1>1, <1>3, <2>1 DEF ForgetUnresolved, Indexes
  <2> HIDE DEF more, less
  <2> QED BY <2>2, <2>3, <2>4, <2>5 DEF Indexes
<1> QED BY <1>2, <1>3

(* Whatever the parent of an entry becomes: it waits for that one, or it    *)
(* waits for none.                                                          *)
Placed(ix, new, id, parent, waits) ==
    /\ new \in Indexes /\ new.entries = ix.entries /\ new.canonical = ix.canonical
    /\ \A r \in Records : /\ new.awaiting[r] \ {id} = ix.awaiting[r] \ {id}
                          /\ id \in new.awaiting[r] => waits /\ r = parent.rec
    /\ waits => parent # Root /\ id \in new.awaiting[parent.rec]

(* Then waiters are entries that wait for the parent they have, and bare    *)
(* names wait if the others and this one do.                                *)
LEMMA PlacedIsSound ==
  ASSUME NEW ix \in Indexes, NEW new, NEW id \in DOMAIN ix.entries, NEW waits \in BOOLEAN,
         Placed(ix, new, id, ix.entries[id].parent, waits),
         \A r \in Records : \A w \in ix.awaiting[r] :
            w # id => w \in DOMAIN ix.entries /\ ix.entries[w].parent.rec = r
  PROVE  /\ new \in Sound
         /\ (/\ id \in Bare(ix) => waits
             /\ \A e \in Bare(ix) : e # id => IsAwaitingChild(ix, e)) => BareWait(new)
<1>1. Waits(new)
  BY DEF Placed, Waits
<1>2. ASSUME id \in Bare(ix) => waits, \A e \in Bare(ix) : e # id => IsAwaitingChild(ix, e)
      PROVE  BareWait(new)
  <2> SUFFICES ASSUME NEW e \in Bare(new) PROVE IsAwaitingChild(new, e)
    BY DEF BareWait
  <2>1. e \in Bare(ix) /\ new.entries = ix.entries /\ e \in DOMAIN ix.entries
    BY DEF Bare, Placed
  <2>2. CASE e = id
    BY <1>2, <2>1, <2>2 DEF Placed, IsAwaitingChild
  <2>3. CASE e # id
    <3>1. ix.entries[e].parent # Root /\ e \in ix.awaiting[ix.entries[e].parent.rec]
      BY <1>2, <2>1, <2>3 DEF IsAwaitingChild
    <3>2. ix.entries[e].parent.rec \in Records
      BY <2>1, <3>1, IndexParts DEF Entries, Parents, References
    <3>3. e \in new.awaiting[ix.entries[e].parent.rec]
      BY <2>3, <3>1, <3>2 DEF Placed
    <3> QED BY <2>1, <3>1, <3>3 DEF IsAwaitingChild
  <2> QED BY <2>2, <2>3
<1> QED BY <1>1, <1>2 DEF Sound, Placed

(* At most the entry itself starts to wait, for a parent that is not there. *)
WaitsForUnknown(ix, new, id, parent) ==
    \A r \in Records : \A w \in new.awaiting[r] :
        w \in ix.awaiting[r] \/ (w = id /\ r = parent.rec /\ parent \notin DOMAIN ix.entries)

(* Insert leaves the target without waiters of its own, and at most the     *)
(* target starts to wait.                                                   *)
LEMMA InsertTypes ==
  ASSUME NEW ix \in Sound, NEW id \in References, NEW ref \in Parents,
         NEW name \in Names, NEW dir \in BOOLEAN
  PROVE  /\ Insert(ix, id, ref, name, dir) \in Sound
         /\ BareWait(ix) => BareWait(Insert(ix, id, ref, name, dir))
         /\ InsertTarget(ix, id, dir) \in References
         /\ DOMAIN Insert(ix, id, ref, name, dir).entries = DOMAIN ix.entries \cup {InsertTarget(ix, id, dir)}
         /\ Insert(ix, id, ref, name, dir).canonical
              = With(ix.canonical, InsertTarget(ix, id, dir).rec, InsertTarget(ix, id, dir))
         /\ Insert(ix, id, ref, name, dir).awaiting[InsertTarget(ix, id, dir).rec] = {}
         /\ WaitsForUnknown(ix, Insert(ix, id, ref, name, dir), InsertTarget(ix, id, dir), ResolveParent(ix, ref))
<1> DEFINE target == InsertTarget(ix, id, dir)
           existed == target \in DOMAIN ix.entries
           parent == ResolveParent(ix, ref)
           path == PathBelow(ix, parent, name)
           entry == [parent |-> parent, dir |-> dir, rooted |-> path.rooted, names |-> path.names]
           entries == With(ix.entries, target, entry)
           canonical == With(ix.canonical, target.rec, target)
           stored == [ix EXCEPT !.entries = With(@, target, entry),
                                !.canonical = With(@, target.rec, target)]
           waits == parent # Root /\ parent \notin DOMAIN ix.entries
           placed == IF waits THEN AwaitParent(stored, parent, target)
                     ELSE ForgetUnresolved(stored, parent, target)
           left == IF existed /\ ix.entries[target].parent.rec # parent.rec
                   THEN ForgetUnresolved(placed, ix.entries[target].parent, target)
                   ELSE placed
<1>1. Insert(ix, id, ref, name, dir) = HealAwaiting(left, target)
  BY DEF Insert
<1>2. ix \in Indexes /\ Waits(ix)
  BY DEF Sound
<1>3. target \in References /\ target.rec \in Records
  <2>1. target \in References
    BY <1>2, ResolveTypes, IndexParts DEF InsertTarget, Parents
  <2> QED BY <2>1 DEF References
<1>4. parent \in Parents
  BY <1>2, ResolveTypes
<1>5. path \in Paths /\ (parent \in DOMAIN ix.entries => Len(path.names) > 1)
      /\ (parent \notin DOMAIN ix.entries => path.rooted = (parent = Root))
  <2>1. path \in Paths /\ (parent \in DOMAIN ix.entries => Len(path.names) > 1)
    BY <1>2, PathTypes
  <2>2. parent \notin DOMAIN ix.entries => path.rooted = (parent = Root)
    BY DEF PathBelow
  <2> QED BY <2>1, <2>2
<1> HIDE DEF target, parent, path
<1>6. entry \in Entries /\ entry.parent = parent /\ entry.rooted = path.rooted /\ entry.names = path.names
  BY <1>4, <1>5 DEF Paths, Entries
<1>7. existed => ix.entries[target].parent \in Parents
  BY <1>2, IndexParts DEF Entries
<1> HIDE DEF entry
<1>8. /\ stored \in Indexes /\ stored.entries = entries /\ stored.awaiting = ix.awaiting
      /\ stored.canonical = canonical
      /\ DOMAIN entries = DOMAIN ix.entries \cup {target}
      /\ \A e \in DOMAIN entries : entries[e] = IF e = target THEN entry ELSE ix.entries[e]
  <2>1. PICK D \in SUBSET References : ix.entries \in [D -> Entries]
    BY <1>2 DEF Indexes
  <2>2. PICK C \in SUBSET Records : ix.canonical \in [C -> References]
    BY <1>2 DEF Indexes
  <2>3. entries \in [D \cup {target} -> Entries] /\ D \cup {target} \in SUBSET References
    BY <1>3, <1>6, <2>1 DEF With
  <2>4. canonical \in [C \cup {target.rec} -> References] /\ C \cup {target.rec} \in SUBSET Records
    BY <1>3, <2>2 DEF With
  <2>5. stored = [ix EXCEPT !.entries = entries, !.canonical = canonical]
    BY <1>2 DEF Indexes
  <2>6. /\ DOMAIN entries = DOMAIN ix.entries \cup {target}
        /\ \A e \in DOMAIN entries : entries[e] = IF e = target THEN entry ELSE ix.entries[e]
    BY DEF With
  <2> HIDE DEF entries, canonical, stored
  <2>7. /\ entries \in UNION {[E -> Entries] : E \in SUBSET References}
        /\ canonical \in UNION {[E -> References] : E \in SUBSET Records}
    BY <2>3, <2>4
  <2>8. /\ stored \in Indexes /\ stored.entries = entries /\ stored.awaiting = ix.awaiting
        /\ stored.canonical = canonical
    BY <1>2, <2>5, <2>7 DEF Indexes
  <2> QED BY <2>6, <2>8
<1> HIDE DEF stored, entries
<1>9. /\ placed \in Indexes /\ placed.entries = stored.entries /\ placed.canonical = stored.canonical
      /\ \A r \in Records :
            /\ placed.awaiting[r] \ {target} = stored.awaiting[r] \ {target}
            /\ target \in placed.awaiting[r] =>
                  \/ waits /\ r = parent.rec
                  \/ ~waits /\ parent.rec \notin Records /\ target \in stored.awaiting[r]
                  \/ r # parent.rec /\ target \in stored.awaiting[r]
      /\ waits => target \in placed.awaiting[parent.rec]
  <2>1. CASE waits
    <3>1. parent.rec \in Records
      BY <1>4, <2>1 DEF Parents, References
    <3>2. placed = AwaitParent(stored, parent, target)
      BY <2>1
    <3>3. WaitersAre(stored, placed, parent, {}, {target})
      BY <1>3, <1>4, <1>8, <3>2, WaiterTypes
    <3> HIDE DEF placed, waits
    <3> QED BY <1>8, <2>1, <3>1, <3>3 DEF WaitersAre
  <2>2. CASE ~waits
    <3>2. placed = ForgetUnresolved(stored, parent, target)
      BY <2>2
    <3>3. WaitersAre(stored, placed, parent, {target}, {})
      BY <1>3, <1>4, <1>8, <3>2, WaiterTypes
    <3> HIDE DEF placed, waits
    <3> QED BY <1>8, <2>2, <3>3 DEF WaitersAre
  <2> QED BY <2>1, <2>2
<1> HIDE DEF placed
<1>10. Placed(stored, left, target, parent, waits)
  <2>1. \A r \in Records : target \in ix.awaiting[r] =>
            existed /\ ix.entries[target].parent.rec = r
    BY <1>2 DEF Waits
  <2>2. CASE existed /\ ix.entries[target].parent.rec # parent.rec
    <3>1. left = ForgetUnresolved(placed, ix.entries[target].parent, target)
      BY <2>2
    <3>3. waits => parent # Root /\ parent.rec \in Records
      BY <1>4 DEF Parents, References
    <3> HIDE DEF left, waits
    <3>2. /\ left \in Indexes /\ left.entries = placed.entries /\ left.canonical = placed.canonical
          /\ \A r \in Records : left.awaiting[r] =
                IF r = ix.entries[target].parent.rec THEN placed.awaiting[r] \ {target} ELSE placed.awaiting[r]
      <4>1. WaitersAre(placed, left, ix.entries[target].parent, {target}, {})
        BY <1>3, <1>7, <1>9, <2>2, <3>1, WaiterTypes
      <4> QED BY <4>1 DEF WaitersAre
    <3>4. \A r \in Records : left.awaiting[r] \ {target} = stored.awaiting[r] \ {target}
      BY <1>9, <3>2
    <3>5. ASSUME NEW r \in Records, target \in left.awaiting[r] PROVE waits /\ r = parent.rec
      <4>1. r # ix.entries[target].parent.rec /\ target \in placed.awaiting[r]
        BY <3>2, <3>5
      <4>2. target \notin stored.awaiting[r]
        BY <1>8, <2>1, <4>1
      <4> QED BY <1>9, <4>1, <4>2
    <3>6. waits => parent # Root /\ target \in left.awaiting[parent.rec]
      BY <1>9, <2>2, <3>2, <3>3
    <3> QED BY <1>9, <3>2, <3>4, <3>5, <3>6 DEF Placed
  <2>3. CASE ~(existed /\ ix.entries[target].parent.rec # parent.rec)
    <3>1. left = placed
      BY <2>3
    <3>2. waits => parent # Root
      OBVIOUS
    <3> HIDE DEF left, waits
    <3> QED BY <1>8, <1>9, <2>1, <2>3, <3>1, <3>2 DEF Placed
  <2> QED BY <2>2, <2>3
<1> HIDE DEF left
<1>11. target \in DOMAIN stored.entries /\ stored.entries[target] = entry
  BY <1>8
<1>12. \A r \in Records : \A w \in stored.awaiting[r] :
            w # target => w \in DOMAIN stored.entries /\ stored.entries[w].parent.rec = r
  BY <1>2, <1>8 DEF Waits
<1>13. target \in Bare(stored) => waits
  <2> SUFFICES ASSUME target \in Bare(stored) PROVE waits
    OBVIOUS
  <2>1. ~path.rooted /\ Len(path.names) = 1
    BY <1>6, <1>11 DEF Bare
  <2>2. ~(Len(path.names) > 1)
    BY <2>1
  <2> QED BY <1>5, <2>1, <2>2
<1>14. ASSUME BareWait(ix), NEW e \in Bare(stored), e # target PROVE IsAwaitingChild(stored, e)
  BY <1>8, <1>14 DEF Bare, BareWait, IsAwaitingChild
<1>15. left \in Sound /\ (BareWait(ix) => BareWait(left)) /\ target \in DOMAIN left.entries
  <2>1. waits \in BOOLEAN
    OBVIOUS
  <2> HIDE DEF waits
  <2> QED BY <1>6, <1>8, <1>10, <1>11, <1>12, <1>13, <1>14, <2>1, PlacedIsSound DEF Placed
<1>16. WaitsForUnknown(ix, left, target, parent)
  <2> SUFFICES ASSUME NEW r \in Records, NEW w \in left.awaiting[r]
               PROVE  w \in ix.awaiting[r] \/ (w = target /\ r = parent.rec /\ parent \notin DOMAIN ix.entries)
    BY DEF WaitsForUnknown
  <2> HIDE DEF canonical
  <2>1. left.awaiting[r] \ {target} = ix.awaiting[r] \ {target}
    BY <1>8, <1>10 DEF Placed
  <2>2. CASE w # target
    BY <2>1, <2>2
  <2>3. CASE w = target
    <3>1. waits /\ r = parent.rec
      <4> HIDE DEF waits
      <4> QED BY <1>10, <2>3 DEF Placed
    <3> QED BY <2>3, <3>1
  <2> QED BY <2>2, <2>3
<1>17. left.canonical = canonical /\ DOMAIN left.entries = DOMAIN ix.entries \cup {target}
  <2> HIDE DEF canonical
  <2> QED BY <1>8, <1>10 DEF Placed
<1> DEFINE new == HealAwaiting(left, target)
<1>18. new \in Healed(left) /\ new.awaiting[target.rec] = {}
  BY <1>15, HealAwaitingTypes
<1> HIDE DEF new
<1>19. /\ new \in Sound /\ (BareWait(ix) => BareWait(new))
       /\ DOMAIN new.entries = DOMAIN left.entries /\ new.canonical = left.canonical
       /\ \A r \in Records : new.awaiting[r] \subseteq left.awaiting[r]
  <2> HIDE DEF waits, existed, canonical
  <2> QED BY <1>15, <1>18 DEF Healed, SameTree
<1>20. WaitsForUnknown(ix, new, target, parent)
  <2> HIDE DEF waits, existed, canonical
  <2> QED BY <1>16, <1>19 DEF WaitsForUnknown
<1>21. Insert(ix, id, ref, name, dir) = new
  BY <1>1 DEF new
<1> HIDE DEF waits, existed, canonical
<1>22. new.canonical = With(ix.canonical, target.rec, target)
  BY <1>17, <1>19 DEF canonical
<1> QED BY <1>3, <1>17, <1>18, <1>19, <1>20, <1>21, <1>22 DEF target, parent

(* The two edits of Move on the waiters.                                    *)
LEMMA MovedIsSound ==
  ASSUME NEW ix \in Sound, NEW id \in DOMAIN ix.entries, NEW new \in Paths
  PROVE  /\ MoveSubtree(ix, id, new) \in Sound /\ SameTree(ix, MoveSubtree(ix, id, new))
         /\ MoveSubtree(ix, id, new).awaiting = ix.awaiting
         /\ (/\ new.rooted \/ Len(new.names) > 1 \/ IsAwaitingChild(ix, id)
             /\ \A e \in Bare(ix) : e # id => IsAwaitingChild(ix, e))
               => BareWait(MoveSubtree(ix, id, new))
<1> DEFINE m == MoveSubtree(ix, id, new)
<1>1. /\ SameTree(ix, m) /\ m.awaiting = ix.awaiting
      /\ m.entries[id].rooted = new.rooted /\ m.entries[id].names = new.names
      /\ \A e \in DOMAIN ix.entries : e # id => m.entries[e] = ix.entries[e] \/ Len(m.entries[e].names) > 1
  BY MoveSubtreeTypes DEF Sound
<1> HIDE DEF m
<1>2. m \in Sound
  BY <1>1 DEF Sound, SameTree, Waits
<1>3. ASSUME new.rooted \/ Len(new.names) > 1 \/ IsAwaitingChild(ix, id),
             \A e \in Bare(ix) : e # id => IsAwaitingChild(ix, e)
      PROVE  BareWait(m)
  <2> SUFFICES ASSUME NEW e \in Bare(m) PROVE IsAwaitingChild(m, e)
    BY DEF BareWait
  <2>1. e \in DOMAIN ix.entries /\ ~m.entries[e].rooted /\ Len(m.entries[e].names) = 1
    BY <1>1 DEF SameTree, Bare
  <2>2. IsAwaitingChild(ix, e)
    <3>1. CASE e = id
      <4>0. Len(new.names) = 1 /\ ~new.rooted
        BY <1>1, <2>1, <3>1, Zenon
      <4>1. ~(Len(new.names) > 1) /\ ~new.rooted
        BY <4>0
      <4> QED BY <1>3, <3>1, <4>1
    <3>2. CASE e # id
      <4>1. ~(Len(m.entries[e].names) > 1)
        BY <2>1
      <4>2. m.entries[e] = ix.entries[e]
        BY <1>1, <2>1, <3>2, <4>1
      <4>3. e \in Bare(ix)
        BY <2>1, <4>2 DEF Bare
      <4> QED BY <1>3, <3>2, <4>3
    <3> QED BY <3>1, <3>2
  <2> QED BY <1>1, <2>1, <2>2 DEF SameTree, IsAwaitingChild
<1> QED BY <1>1, <1>2, <1>3 DEF m

(* Rename changes names only, and a bare name stays one while it waits.     *)
LEMMA RenameTypes ==
  ASSUME NEW ix \in Sound, NEW id \in DOMAIN ix.entries, NEW name \in Names
  PROVE  /\ Rename(ix, id, name) \in Sound /\ SameTree(ix, Rename(ix, id, name))
         /\ Rename(ix, id, name).awaiting = ix.awaiting
         /\ BareWait(ix) => BareWait(Rename(ix, id, name))
<1> DEFINE old == PathOf(ix, id)
           bare == ~old.rooted /\ Len(old.names) = 1
           renamed == Append(SubSeq(old.names, 1, Len(old.names) - 1), name)
           new == [rooted |-> old.rooted \/ (bare /\ ~IsAwaitingChild(ix, id)), names |-> renamed]
<1>1. Rename(ix, id, name) = MoveSubtree(ix, id, new)
  BY DEF Rename
<1>2. /\ old.rooted \in BOOLEAN /\ old.names \in Seq(Names) /\ old.names # <<>>
      /\ old.rooted = ix.entries[id].rooted /\ old.names = ix.entries[id].names
  BY IndexParts DEF Sound, Entries, PathOf
<1> HIDE DEF old
<1>3. Len(old.names) \in Nat \ {0}
  BY <1>2
<1>4. renamed \in Seq(Names) /\ Len(renamed) = Len(old.names)
  <2> DEFINE front == SubSeq(old.names, 1, Len(old.names) - 1)
  <2>1. front \in Seq(Names) /\ Len(front) = Len(old.names) - 1
    BY <1>2, <1>3
  <2> HIDE DEF front
  <2>2. Append(front, name) \in Seq(Names) /\ Len(Append(front, name)) = Len(front) + 1
    BY <2>1
  <2> QED BY <1>3, <2>1, <2>2 DEF front
<1>5. renamed # <<>>
  <2> HIDE DEF renamed
  <2> SUFFICES ASSUME renamed = <<>> PROVE FALSE
    OBVIOUS
  <2>1. Len(renamed) = 0
    OBVIOUS
  <2> QED BY <1>3, <1>4, <2>1
<1> HIDE DEF renamed
<1>6. new \in Paths
  BY <1>2, <1>4, <1>5 DEF Paths
<1>7. new.rooted \/ Len(new.names) > 1 \/ IsAwaitingChild(ix, id)
  <2>1. new.rooted = (old.rooted \/ (bare /\ ~IsAwaitingChild(ix, id))) /\ new.names = renamed
    OBVIOUS
  <2>2. Len(old.names) = 1 \/ Len(renamed) > 1
    <3> DEFINE n == Len(old.names)
    <3>1. n \in Nat \ {0} /\ Len(renamed) = n
      BY <1>3, <1>4
    <3> HIDE DEF n
    <3>2. n = 1 \/ n > 1
      BY <3>1
    <3> QED BY <3>1, <3>2, Zenon DEF n
  <2> HIDE DEF new, renamed
  <2> QED BY <2>1, <2>2
<1>8. BareWait(ix) => \A e \in Bare(ix) : e # id => IsAwaitingChild(ix, e)
  BY DEF BareWait
<1> HIDE DEF new
<1> QED BY <1>1, <1>6, <1>7, <1>8, MovedIsSound

(* Move up to MoveSubtree: the entry has the new parent, and waits for that *)
(* one when it is unknown.                                                  *)
Relocated(ix, placed, id, parent) ==
    /\ placed \in Sound /\ DOMAIN placed.entries = DOMAIN ix.entries /\ placed.canonical = ix.canonical
    /\ placed.entries[id].parent = parent /\ placed.entries[id].dir = ix.entries[id].dir
    /\ placed.entries[id].rooted = ix.entries[id].rooted /\ placed.entries[id].names = ix.entries[id].names
    /\ \A e \in DOMAIN ix.entries : e # id => placed.entries[e] = ix.entries[e]
    /\ \A r \in Records :
          /\ placed.awaiting[r] \ {id} = ix.awaiting[r] \ {id}
          /\ id \in placed.awaiting[r] <=> parent # Root /\ parent \notin DOMAIN ix.entries /\ r = parent.rec

(* Move is such a change of place, and then MoveSubtree.                    *)
LEMMA MovePlaces ==
  ASSUME NEW ix \in Sound, NEW id \in DOMAIN ix.entries, NEW ref \in Parents
  PROVE  LET parent == ResolveParent(ix, ref)
             path == PathBelow(ix, parent, Leaf(ix.entries[id]))
         IN /\ path \in Paths
            /\ \E placed : /\ Relocated(ix, placed, id, parent)
                           /\ Move(ix, id, ref) = MoveSubtree(placed, id, path)
<1> DEFINE parent == ResolveParent(ix, ref)
           old == ix.entries[id].parent
           path == PathBelow(ix, parent, Leaf(ix.entries[id]))
           moved == [ix EXCEPT !.entries[id].parent = parent]
           entries == [ix.entries EXCEPT ![id].parent = parent]
           waits == parent # Root /\ parent \notin DOMAIN ix.entries
           left == IF old.rec # parent.rec THEN ForgetUnresolved(moved, old, id) ELSE moved
           placed == IF waits THEN AwaitParent(left, parent, id)
                     ELSE ForgetUnresolved(left, parent, id)
<1>1. Move(ix, id, ref) = MoveSubtree(placed, id, path)
  BY DEF Move
<1>2. ix \in Indexes /\ Waits(ix) /\ id \in References
  BY IndexParts DEF Sound
<1>3. parent \in Parents /\ old \in Parents /\ ix.entries[id] \in Entries
  BY <1>2, ResolveTypes, IndexParts DEF Entries
<1>4. path \in Paths /\ (parent \in DOMAIN ix.entries => Len(path.names) > 1)
      /\ (parent \notin DOMAIN ix.entries => path.rooted = (parent = Root))
  <2>1. Leaf(ix.entries[id]) \in Names
    BY <1>3, LeafType DEF Entries
  <2>2. path \in Paths /\ (parent \in DOMAIN ix.entries => Len(path.names) > 1)
    BY <1>2, <2>1, PathTypes
  <2>3. parent \notin DOMAIN ix.entries => path.rooted = (parent = Root)
    BY DEF PathBelow
  <2> QED BY <2>2, <2>3
<1> HIDE DEF parent, path
<1>5. /\ moved \in Indexes /\ moved.entries = entries /\ moved.awaiting = ix.awaiting
      /\ moved.canonical = ix.canonical
      /\ DOMAIN entries = DOMAIN ix.entries
      /\ \A e \in DOMAIN entries : e # id => entries[e] = ix.entries[e]
      /\ entries[id].parent = parent /\ entries[id].rooted = ix.entries[id].rooted
      /\ entries[id].names = ix.entries[id].names /\ entries[id].dir = ix.entries[id].dir
  <2>1. PICK D \in SUBSET References : ix.entries \in [D -> Entries]
    BY <1>2 DEF Indexes
  <2>2. entries \in [D -> Entries]
    BY <1>3, <2>1 DEF Entries
  <2>3. moved = [ix EXCEPT !.entries = entries]
    BY <1>2 DEF Indexes
  <2>4. /\ DOMAIN entries = DOMAIN ix.entries
        /\ \A e \in DOMAIN entries : e # id => entries[e] = ix.entries[e]
        /\ entries[id].parent = parent /\ entries[id].rooted = ix.entries[id].rooted
        /\ entries[id].names = ix.entries[id].names /\ entries[id].dir = ix.entries[id].dir
    BY <1>3, <2>1 DEF Entries
  <2> HIDE DEF entries, moved
  <2>5. entries \in UNION {[E -> Entries] : E \in SUBSET References}
    BY <2>2
  <2>6. moved \in Indexes /\ moved.entries = entries /\ moved.awaiting = ix.awaiting
        /\ moved.canonical = ix.canonical
    BY <1>2, <2>3, <2>5 DEF Indexes
  <2> QED BY <2>4, <2>6
<1> HIDE DEF moved, entries
<1>6. /\ left \in Indexes /\ left.entries = moved.entries /\ left.canonical = moved.canonical
      /\ \A r \in Records : /\ left.awaiting[r] \ {id} = ix.awaiting[r] \ {id}
                            /\ id \in left.awaiting[r] => r = parent.rec
  <2>1. \A r \in Records : id \in ix.awaiting[r] => old.rec = r
    BY <1>2 DEF Waits
  <2>2. CASE old.rec # parent.rec
    <3>1. left = ForgetUnresolved(moved, old, id)
      BY <2>2
    <3>2. WaitersAre(moved, left, old, {id}, {})
      BY <1>2, <1>3, <1>5, <3>1, WaiterTypes
    <3> HIDE DEF left, old
    <3> QED BY <1>5, <2>1, <2>2, <3>2 DEF WaitersAre
  <2>3. CASE old.rec = parent.rec
    <3>1. left = moved
      BY <2>3
    <3> HIDE DEF left, old
    <3> QED BY <1>5, <2>1, <2>3, <3>1
  <2> QED BY <2>2, <2>3
<1> HIDE DEF left, old
<1>7. Placed(moved, placed, id, parent, waits)
  <2>1. CASE waits
    <3>1. parent # Root /\ parent.rec \in Records
      BY <1>3, <2>1 DEF Parents, References
    <3>2. placed = AwaitParent(left, parent, id)
      BY <2>1
    <3> HIDE DEF placed, waits
    <3>3. /\ placed \in Indexes /\ placed.entries = left.entries /\ placed.canonical = left.canonical
          /\ \A r \in Records : placed.awaiting[r] =
                IF r = parent.rec THEN left.awaiting[r] \cup {id} ELSE left.awaiting[r]
      <4>1. WaitersAre(left, placed, parent, {}, {id})
        BY <1>2, <1>3, <1>6, <3>2, WaiterTypes
      <4> QED BY <4>1 DEF WaitersAre
    <3> QED BY <1>5, <1>6, <2>1, <3>1, <3>3 DEF Placed
  <2>2. CASE ~waits
    <3>2. placed = ForgetUnresolved(left, parent, id)
      BY <2>2
    <3> HIDE DEF placed, waits
    <3>3. /\ placed \in Indexes /\ placed.entries = left.entries /\ placed.canonical = left.canonical
          /\ \A r \in Records : placed.awaiting[r] =
                IF r = parent.rec THEN left.awaiting[r] \ {id} ELSE left.awaiting[r]
      <4>1. WaitersAre(left, placed, parent, {id}, {})
        BY <1>2, <1>3, <1>6, <3>2, WaiterTypes
      <4> QED BY <4>1 DEF WaitersAre
    <3> QED BY <1>5, <1>6, <2>2, <3>3 DEF Placed
  <2> QED BY <2>1, <2>2
<1> HIDE DEF placed
<1>8. \A r \in Records : \A w \in moved.awaiting[r] :
            w # id => w \in DOMAIN moved.entries /\ moved.entries[w].parent.rec = r
  BY <1>2, <1>5 DEF Waits
<1>9. placed \in Sound /\ id \in DOMAIN placed.entries
  <2>1. waits \in BOOLEAN
    OBVIOUS
  <2> HIDE DEF waits
  <2> QED BY <1>5, <1>7, <1>8, <2>1, PlacedIsSound DEF Placed
<1>10. /\ DOMAIN placed.entries = DOMAIN ix.entries /\ placed.canonical = ix.canonical
       /\ placed.entries[id].parent = parent /\ placed.entries[id].dir = ix.entries[id].dir
       /\ placed.entries[id].rooted = ix.entries[id].rooted /\ placed.entries[id].names = ix.entries[id].names
       /\ \A e \in DOMAIN ix.entries : e # id => placed.entries[e] = ix.entries[e]
  <2>1. placed.entries = entries /\ placed.canonical = ix.canonical
    BY <1>5, <1>7 DEF Placed
  <2> QED BY <1>5, <2>1
<1>11. \A r \in Records :
          /\ placed.awaiting[r] \ {id} = ix.awaiting[r] \ {id}
          /\ id \in placed.awaiting[r] <=> waits /\ r = parent.rec
  <2> HIDE DEF waits
  <2> QED BY <1>5, <1>7 DEF Placed
<1>12. Relocated(ix, placed, id, parent)
  BY <1>9, <1>10, <1>11 DEF Relocated
<1> QED BY <1>1, <1>4, <1>12 DEF parent, path

(* Move keeps the entries, and the moved one waits if its parent is unknown.*)
LEMMA MoveTypes ==
  ASSUME NEW ix \in Sound, NEW id \in DOMAIN ix.entries, NEW ref \in Parents
  PROVE  /\ Move(ix, id, ref) \in Sound /\ DOMAIN Move(ix, id, ref).entries = DOMAIN ix.entries
         /\ Move(ix, id, ref).canonical = ix.canonical
         /\ BareWait(ix) => BareWait(Move(ix, id, ref))
         /\ WaitsForUnknown(ix, Move(ix, id, ref), id, ResolveParent(ix, ref))
<1> DEFINE parent == ResolveParent(ix, ref)
           path == PathBelow(ix, parent, Leaf(ix.entries[id]))
           new == Move(ix, id, ref)
<1>1. ix \in Indexes /\ Waits(ix)
  BY DEF Sound
<1>2. /\ path \in Paths /\ (parent \in DOMAIN ix.entries => Len(path.names) > 1)
      /\ (parent \notin DOMAIN ix.entries => path.rooted = (parent = Root))
  <2>1. Leaf(ix.entries[id]) \in Names
    BY <1>1, IndexParts, LeafType DEF Entries
  <2>2. path \in Paths /\ (parent \in DOMAIN ix.entries => Len(path.names) > 1)
    BY <1>1, <2>1, PathTypes
  <2>3. parent \notin DOMAIN ix.entries => path.rooted = (parent = Root)
    BY DEF PathBelow
  <2> QED BY <2>2, <2>3
<1>3. PICK placed : Relocated(ix, placed, id, parent) /\ new = MoveSubtree(placed, id, path)
  BY MovePlaces
<1> HIDE DEF parent, path, new
<1>4. /\ placed \in Sound /\ DOMAIN placed.entries = DOMAIN ix.entries /\ placed.canonical = ix.canonical
      /\ placed.entries[id].parent = parent
      /\ \A e \in DOMAIN ix.entries : e # id => placed.entries[e] = ix.entries[e]
      /\ \A r \in Records :
            /\ placed.awaiting[r] \ {id} = ix.awaiting[r] \ {id}
            /\ id \in placed.awaiting[r] <=> parent # Root /\ parent \notin DOMAIN ix.entries /\ r = parent.rec
  BY <1>3 DEF Relocated
<1>5. parent \in Parents
  BY <1>1, ResolveTypes DEF parent
<1>6. ASSUME BareWait(ix)
      PROVE  /\ path.rooted \/ Len(path.names) > 1 \/ IsAwaitingChild(placed, id)
             /\ \A e \in Bare(placed) : e # id => IsAwaitingChild(placed, e)
  <2>1. ASSUME parent # Root, parent \notin DOMAIN ix.entries PROVE IsAwaitingChild(placed, id)
    <3>1. parent.rec \in Records
      BY <1>5, <2>1 DEF Parents, References
    <3> QED BY <1>4, <2>1, <3>1 DEF IsAwaitingChild
  <2>2. ASSUME NEW e \in Bare(placed), e # id PROVE IsAwaitingChild(placed, e)
    <3>1. e \in DOMAIN ix.entries /\ placed.entries[e] = ix.entries[e] /\ e \in Bare(ix)
      BY <1>4, <2>2 DEF Bare
    <3>2. ix.entries[e].parent # Root /\ e \in ix.awaiting[ix.entries[e].parent.rec]
      BY <1>6, <3>1 DEF BareWait, IsAwaitingChild
    <3>3. ix.entries[e].parent.rec \in Records
      BY <1>1, <3>1, <3>2, IndexParts DEF Entries, Parents, References
    <3>4. e \in placed.awaiting[ix.entries[e].parent.rec]
      BY <1>4, <2>2, <3>2, <3>3
    <3> QED BY <3>1, <3>2, <3>4 DEF IsAwaitingChild
  <2> QED BY <1>2, <2>1, <2>2
<1>7. /\ new \in Sound /\ SameTree(placed, new) /\ new.awaiting = placed.awaiting
      /\ BareWait(ix) => BareWait(new)
  BY <1>2, <1>3, <1>4, <1>6, MovedIsSound
<1>8. WaitsForUnknown(ix, new, id, parent)
  <2> SUFFICES ASSUME NEW r \in Records, NEW w \in placed.awaiting[r]
               PROVE  w \in ix.awaiting[r] \/ (w = id /\ r = parent.rec /\ parent \notin DOMAIN ix.entries)
    BY <1>7 DEF WaitsForUnknown
  <2> QED BY <1>4
<1> QED BY <1>4, <1>7, <1>8 DEF SameTree, parent, new

(* Remove keeps the waiters sound.                                          *)
LEMMA RemoveTypes ==
  ASSUME NEW ix \in Sound, NEW id \in References
  PROVE  Remove(ix, id) \in Sound
<1>1. CASE id \notin DOMAIN ix.entries
  BY <1>1 DEF Remove
<1>2. CASE id \in DOMAIN ix.entries
  <2> DEFINE parent == ix.entries[id].parent
             forgotten == ForgetUnresolved(ix, parent, id)
             awaiting == [forgotten.awaiting EXCEPT ![id.rec] = {}]
             entries == Without(ix.entries, id)
             canonical == IF id.rec \in DOMAIN ix.canonical /\ ix.canonical[id.rec] = id
                          THEN Without(ix.canonical, id.rec) ELSE ix.canonical
             removed == [forgotten EXCEPT
                !.awaiting[id.rec] = {},
                !.entries = Without(@, id),
                !.canonical = IF id.rec \in DOMAIN @ /\ @[id.rec] = id
                              THEN Without(@, id.rec) ELSE @]
  <2>1. Remove(ix, id) = removed
    BY <1>2 DEF Remove
  <2>2. ix \in Indexes /\ Waits(ix) /\ id.rec \in Records /\ parent \in Parents
    BY <1>2, IndexParts DEF Sound, References, Entries
  <2>3. /\ forgotten \in Indexes /\ forgotten.entries = ix.entries /\ forgotten.canonical = ix.canonical
        /\ \A r \in Records : forgotten.awaiting[r] =
              IF r = parent.rec THEN ix.awaiting[r] \ {id} ELSE ix.awaiting[r]
    <3>1. WaitersAre(ix, forgotten, parent, {id}, {})
      BY <2>2, WaiterTypes
    <3> HIDE DEF forgotten, parent
    <3> QED BY <3>1 DEF WaitersAre
  <2> HIDE DEF forgotten, parent
  <2>4. /\ awaiting \in [Records -> SUBSET References]
        /\ \A r \in Records : awaiting[r] = IF r = id.rec THEN {} ELSE forgotten.awaiting[r]
    BY <2>2, <2>3, IndexParts
  <2>5. PICK D \in SUBSET References : ix.entries \in [D -> Entries]
    BY <2>2 DEF Indexes
  <2>6. PICK C \in SUBSET Records : ix.canonical \in [C -> References]
    BY <2>2 DEF Indexes
  <2>7. entries \in [D \ {id} -> Entries] /\ D \ {id} \in SUBSET References
    BY <2>5 DEF Without
  <2>8. canonical \in [C -> References] \cup [C \ {id.rec} -> References] /\ C \ {id.rec} \in SUBSET Records
    BY <2>6 DEF Without
  <2>9. removed = [forgotten EXCEPT !.awaiting = awaiting, !.entries = entries, !.canonical = canonical]
    BY <2>3 DEF Indexes
  <2>10. DOMAIN entries = DOMAIN ix.entries \ {id} /\ \A e \in DOMAIN entries : entries[e] = ix.entries[e]
    BY DEF Without
  <2> HIDE DEF entries, canonical, awaiting, removed
  <2>11. /\ entries \in UNION {[E -> Entries] : E \in SUBSET References}
         /\ canonical \in UNION {[E -> References] : E \in SUBSET Records}
    BY <2>7, <2>8
  <2>12. removed \in Indexes /\ removed.entries = entries /\ removed.awaiting = awaiting
    BY <2>3, <2>4, <2>9, <2>11 DEF Indexes
  <2>13. Waits(removed)
    <3> SUFFICES ASSUME NEW r \in Records, NEW w \in awaiting[r]
                 PROVE  w \in DOMAIN entries /\ entries[w].parent.rec = r
      BY <2>12 DEF Waits
    <3>1. w \in ix.awaiting[r] /\ (r = parent.rec => w # id)
      BY <2>3, <2>4
    <3>2. w \in DOMAIN ix.entries /\ ix.entries[w].parent.rec = r
      BY <2>2, <3>1 DEF Waits
    <3>3. w # id
      BY <3>1, <3>2 DEF parent
    <3> QED BY <2>10, <3>2, <3>3
  <2> QED BY <2>1, <2>12, <2>13 DEF Sound
<1> QED BY <1>1, <1>2

(* What Remove leaves as it was.                                            *)
LEMMA RemovedEntries ==
  ASSUME NEW ix \in Sound, NEW id \in References
  PROVE  /\ DOMAIN Remove(ix, id).entries = DOMAIN ix.entries \ {id}
         /\ \A e \in DOMAIN Remove(ix, id).entries : Remove(ix, id).entries[e] = ix.entries[e]
         /\ Remove(ix, id).canonical = ix.canonical \/ Remove(ix, id).canonical = Without(ix.canonical, id.rec)
         /\ \A r \in Records :
               \/ Remove(ix, id).awaiting[r] = ix.awaiting[r]
               \/ id \in DOMAIN ix.entries /\ Remove(ix, id).awaiting[r] = ix.awaiting[r] \ {id}
               \/ id \in DOMAIN ix.entries /\ r = id.rec /\ Remove(ix, id).awaiting[r] = {}
<1>1. CASE id \notin DOMAIN ix.entries
  BY <1>1 DEF Remove
<1>2. CASE id \in DOMAIN ix.entries
  <2> DEFINE forgotten == ForgetUnresolved(ix, ix.entries[id].parent, id)
  <2>1. WaitersAre(ix, forgotten, ix.entries[id].parent, {id}, {})
    BY <1>2, IndexParts, WaiterTypes DEF Sound, Entries
  <2>2. /\ forgotten \in Indexes /\ forgotten.entries = ix.entries /\ forgotten.canonical = ix.canonical
        /\ \A r \in Records : forgotten.awaiting[r] = ix.awaiting[r] \/ forgotten.awaiting[r] = ix.awaiting[r] \ {id}
    BY <2>1 DEF WaitersAre
  <2> DEFINE canonical == IF id.rec \in DOMAIN ix.canonical /\ ix.canonical[id.rec] = id
                          THEN Without(ix.canonical, id.rec) ELSE ix.canonical
             awaiting == [forgotten.awaiting EXCEPT ![id.rec] = {}]
  <2>4. Remove(ix, id).canonical = canonical /\ Remove(ix, id).awaiting = awaiting
    <3> HIDE DEF forgotten
    <3> QED BY <1>2, <2>2 DEF Remove, Indexes, forgotten
  <2>5. \A r \in Records : awaiting[r] = IF r = id.rec THEN {} ELSE forgotten.awaiting[r]
    <3>1. forgotten.awaiting \in [Records -> SUBSET References]
      BY <2>2, IndexParts
    <3> QED BY <3>1
  <2>3. Remove(ix, id).entries = Without(forgotten.entries, id)
    <3> HIDE DEF forgotten
    <3> QED BY <1>2, <2>2 DEF Remove, Indexes, forgotten
  <2>6. canonical = ix.canonical \/ canonical = Without(ix.canonical, id.rec)
    OBVIOUS
  <2> HIDE DEF forgotten, canonical, awaiting
  <2>7. /\ DOMAIN Remove(ix, id).entries = DOMAIN ix.entries \ {id}
        /\ \A e \in DOMAIN Remove(ix, id).entries : Remove(ix, id).entries[e] = ix.entries[e]
    BY <2>2, <2>3 DEF Without
  <2> QED BY <1>2, <2>2, <2>4, <2>5, <2>6, <2>7
<1> QED BY <1>1, <1>2

(* A record that is no delete keeps bare names waiting, too.                *)
LEMMA RenameRecordTypes ==
  ASSUME NEW ix \in Sound, NEW record \in UsnRecords
  PROVE  /\ HandleFileRename(ix, record) \in Sound
         /\ BareWait(ix) => BareWait(HandleFileRename(ix, record))
<1> DEFINE self == ResolveEntryReference(ix, record.self)
           moved == IF ix.entries[self].parent.rec # record.parent.rec
                    THEN Move(ix, self, record.parent) ELSE ix
<1>1. /\ record.self \in References /\ record.parent \in Parents
      /\ record.name \in Names /\ record.dir \in BOOLEAN
  BY DEF UsnRecords, Parents
<1>2. HandleFileRename(ix, record) =
        IF self = Nothing
        THEN Insert(ix, record.self, record.parent, record.name, record.dir)
        ELSE IF moved # ix /\ Leaf(moved.entries[self]) = record.name
        THEN moved
        ELSE Rename(moved, self, record.name)
  BY DEF HandleFileRename
<1>3. self \in DOMAIN ix.entries \cup {Nothing}
  BY <1>1, ResolveTypes DEF Sound, Parents
<1> HIDE DEF self
<1>4. CASE self = Nothing
  BY <1>1, <1>2, <1>4, InsertTypes
<1>5. CASE self # Nothing
  <2>1. moved \in Sound /\ self \in DOMAIN moved.entries /\ (BareWait(ix) => BareWait(moved))
    <3>1. CASE ix.entries[self].parent.rec # record.parent.rec
      <4>1. moved = Move(ix, self, record.parent)
        BY <3>1
      <4> HIDE DEF moved
      <4> QED BY <1>1, <1>3, <1>5, <4>1, MoveTypes
    <3>2. CASE ix.entries[self].parent.rec = record.parent.rec
      <4>1. moved = ix
        BY <3>2
      <4> HIDE DEF moved
      <4> QED BY <1>3, <1>5, <4>1
    <3> QED BY <3>1, <3>2
  <2> HIDE DEF moved
  <2>2. /\ Rename(moved, self, record.name) \in Sound
        /\ BareWait(moved) => BareWait(Rename(moved, self, record.name))
    BY <1>1, <2>1, RenameTypes
  <2> QED BY <1>2, <1>5, <2>1, <2>2
<1> QED BY <1>4, <1>5

(* Every record keeps the index sound.                                      *)
LEMMA RecordTypes ==
  ASSUME NEW ix \in Sound, NEW record \in UsnRecords
  PROVE  /\ ProcessUsnRecordReasons(ix, record) \in Sound
         /\ (BareWait(ix) /\ (\/ "delete" \notin record.reasons
                              \/ BareWait(Remove(ix, record.self))))
                => BareWait(ProcessUsnRecordReasons(ix, record))
<1> DEFINE settled == IF "delete" \in record.reasons THEN Remove(ix, record.self)
                      ELSE IF "create" \in record.reasons
                      THEN Insert(ix, record.self, record.parent, record.name, record.dir)
                      ELSE ix
           Fine == BareWait(ix) /\ ("delete" \notin record.reasons \/ BareWait(Remove(ix, record.self)))
<1>1. /\ record.self \in References /\ record.parent \in Parents
      /\ record.name \in Names /\ record.dir \in BOOLEAN
  BY DEF UsnRecords, Parents
<1>2. ProcessUsnRecordReasons(ix, record) =
        IF "rename" \in record.reasons THEN HandleFileRename(settled, record) ELSE settled
  BY DEF ProcessUsnRecordReasons
<1>3. settled \in Sound /\ (Fine => BareWait(settled))
  <2>1. CASE "delete" \in record.reasons
    <3>1. settled = Remove(ix, record.self)
      BY <2>1
    <3> HIDE DEF settled
    <3> QED BY <1>1, <2>1, <3>1, RemoveTypes
  <2>2. CASE "delete" \notin record.reasons /\ "create" \in record.reasons
    <3>1. settled = Insert(ix, record.self, record.parent, record.name, record.dir)
      BY <2>2
    <3> HIDE DEF settled
    <3> QED BY <1>1, <2>2, <3>1, InsertTypes
  <2>3. CASE "delete" \notin record.reasons /\ "create" \notin record.reasons
    <3>1. settled = ix
      BY <2>3
    <3> QED BY <3>1
  <2> QED BY <2>1, <2>2, <2>3
<1> HIDE DEF settled
<1>4. /\ HandleFileRename(settled, record) \in Sound
      /\ BareWait(settled) => BareWait(HandleFileRename(settled, record))
  BY <1>3, RenameRecordTypes
<1> QED BY <1>2, <1>3, <1>4

-----------------------------------------------------------------------------
(* A buffer.                                                                *)

(* The largest of the first places of a sequence is the last.               *)
LEMMA LastPlace ==
  ASSUME NEW n \in Nat
  PROVE  /\ Chooses([s \in SUBSET (1..n) |-> Max(s)], 1..n) /\ IsFiniteSet(1..n)
         /\ \A i \in 1..n : /\ 1..i \in SUBSET (1..n) /\ 1..i # {} /\ Max(1..i) = i
                            /\ (1..i) \ {i} = 1..(i - 1)
         /\ 1..0 = {} /\ 1..0 \in SUBSET (1..n)
<1>1. ASSUME NEW s \in SUBSET (1..n), s # {} PROVE Max(s) \in s
  <2> DEFINE T == {n - x : x \in s}
  <2>0. \A x \in s : x \in 1..n /\ n - x \in Nat
    OBVIOUS
  <2>1. T \subseteq Nat /\ T # {}
    <3>1. PICK x : x \in s
      BY <1>1
    <3>2. n - x \in T
      BY <3>1
    <3> QED BY <2>0, <3>2
  <2>2. PICK t \in T : \A u \in T : t <= u
    BY <2>1, Least
  <2>3. PICK x \in s : t = n - x
    OBVIOUS
  <2>4. \A y \in s : x >= y
    <3> TAKE y \in s
    <3>1. n - y \in T
      OBVIOUS
    <3>2. n - x <= n - y
      <4> HIDE DEF T
      <4> QED BY <2>2, <2>3, <3>1
    <3>3. x \in 1..n /\ y \in 1..n
      BY <2>0, <2>3
    <3> HIDE DEF T
    <3> QED BY <3>2, <3>3
  <2> HIDE DEF T
  <2> QED BY <2>4 DEF Max
<1>2. ASSUME NEW i \in 1..n PROVE Max(1..i) = i
  <2>1. i \in 1..i /\ \A y \in 1..i : i >= y
    OBVIOUS
  <2>2. \A x \in 1..i : (\A y \in 1..i : x >= y) => x = i
    OBVIOUS
  <2>3. \E x \in 1..i : \A y \in 1..i : x >= y
    BY <2>1
  <2> QED BY <2>2, <2>3 DEF Max
<1>3. IsFiniteSet(1..n)
  BY FS_Interval
<1>4. Chooses([s \in SUBSET (1..n) |-> Max(s)], 1..n)
  BY <1>1 DEF Chooses
<1> QED BY <1>2, <1>3, <1>4

Parts == [establish_parents : Seq(UsnRecords), remaining : Seq(UsnRecords)]
None == [establish_parents |-> <<>>, remaining |-> <<>>]

(* One record of the partition.                                             *)
LEMMA CollectTypes ==
  ASSUME NEW parts \in Parts, NEW record \in UsnRecords
  PROVE  Collect(parts, record) \in Parts
<1>1. parts.establish_parents \in Seq(UsnRecords) /\ parts.remaining \in Seq(UsnRecords)
  BY DEF Parts
<1>2. /\ Append(parts.establish_parents, record) \in Seq(UsnRecords)
      /\ Append(parts.remaining, record) \in Seq(UsnRecords)
  BY <1>1
<1> HIDE <1>1
<1> QED BY <1>2 DEF Parts, Collect

(* The partition, record by record.                                         *)
LEMMA PartitionSteps ==
  ASSUME NEW buffer \in Seq(UsnRecords)
  PROVE  \E p \in [0..Len(buffer) -> Parts] :
            /\ p[0] = None /\ p[Len(buffer)] = Partition(buffer)
            /\ \A i \in 1..Len(buffer) : p[i] = Collect(p[i - 1], buffer[i])
<1> DEFINE S == DOMAIN buffer
           V == Parts
           Body(g) == [s \in SUBSET S |-> IF s = {} THEN None
                          ELSE Collect(g[s \ {Max(s)}], buffer[Max(s)])]
           h == CHOOSE g : g = Body(g)
           n == Len(buffer)
<1>1. Partition(buffer) = h[S]
  BY Zenon DEF Partition, None, Seqs!FoldLeft, Seqs!MapThenFoldSet, Seqs!Max, Max
<1>2. S = 1..n /\ n \in Nat
  OBVIOUS
<1>3. None \in V
  BY DEF Parts, None
<1>4. \A c \in S : \A i \in V : Collect(i, buffer[c]) \in V
  <2>1. \A c \in S : buffer[c] \in UsnRecords
    OBVIOUS
  <2> HIDE DEF S
  <2> QED BY <2>1, CollectTypes
<1> DEFINE pick == [s \in SUBSET S |-> Max(s)]
           F == [c \in S |-> [i \in V |-> Collect(i, buffer[c])]]
<1>5. Chooses(pick, S) /\ IsFiniteSet(S)
  <2> HIDE DEF S, n
  <2>1. Chooses([s \in SUBSET (1..n) |-> Max(s)], 1..n) /\ IsFiniteSet(1..n)
    BY <1>2, LastPlace
  <2> QED BY <1>2, <2>1
<1> HIDE DEF S, n, V, h
<1>6. F \in [S -> [V -> V]]
  BY <1>4
<1>7. PICK g : IsFold(g, S, V, None, F, pick)
  <2> HIDE DEF F, pick
  <2> QED BY <1>3, <1>5, <1>6, FoldExists
<1>8. g = Body(g)
  <2>1. ASSUME NEW s \in SUBSET S
        PROVE  g[s] = IF s = {} THEN None ELSE Collect(g[s \ {Max(s)}], buffer[Max(s)])
    <3>1. CASE s = {}
      BY <1>7, <3>1 DEF IsFold
    <3>2. CASE s # {}
      <4>1. pick[s] \in S /\ s \ {pick[s]} \in SUBSET S
        BY <1>5, <3>2 DEF Chooses
      <4>2. g[s \ {pick[s]}] \in V
        BY <1>7, <4>1 DEF IsFold
      <4>3. F[pick[s]][g[s \ {pick[s]}]] = Collect(g[s \ {pick[s]}], buffer[pick[s]])
        BY <4>1, <4>2
      <4>4. pick[s] = Max(s)
        OBVIOUS
      <4> HIDE DEF pick, F
      <4> QED BY <1>7, <3>2, <4>3, <4>4 DEF IsFold
    <3> QED BY <3>1, <3>2
  <2>2. g = [s \in SUBSET S |-> g[s]]
    BY <1>7 DEF IsFold
  <2> QED BY <2>1, <2>2
<1>9. h = Body(h)
  <2> HIDE DEF Body
  <2> QED BY <1>8 DEF h
<1> DEFINE p == [i \in 0..n |-> h[1..i]]
<1>10. p[0] = None /\ p[n] = Partition(buffer)
  <2>1. 0 \in 0..n /\ n \in 0..n /\ {} \in SUBSET S /\ 1..0 = {}
    BY <1>2
  <2> QED BY <1>1, <1>2, <1>9, <2>1
<1>11. ASSUME NEW i \in 1..n PROVE p[i] = Collect(p[i - 1], buffer[i]) /\ i \in S
  <2>1. i \in 0..n /\ i - 1 \in 0..n /\ i \in S
    BY <1>2
  <2>2. /\ 1..i \in SUBSET S /\ 1..i # {} /\ Max(1..i) = i
        /\ (1..i) \ {i} = 1..(i - 1)
    BY <1>2, LastPlace
  <2>3. h[1..i] = Collect(h[(1..i) \ {Max(1..i)}], buffer[Max(1..i)])
    <3> HIDE <1>2
    <3> QED BY <1>9, <2>2
  <2>4. h[1..i] = Collect(h[1..(i - 1)], buffer[i])
    BY <2>2, <2>3, Zenon
  <2> QED BY <2>1, <2>4
<1> DEFINE T == {i \in Nat : i <= n => p[i] \in V}
<1>12. Nat \subseteq T
  <2> HIDE DEF p
  <2>1. 0 \in T
    BY <1>3, <1>10
  <2>2. ASSUME NEW i \in Nat, i \in T PROVE i + 1 \in T
    <3> SUFFICES ASSUME i + 1 <= n PROVE p[i + 1] \in V
      OBVIOUS
    <3>1. i + 1 \in 1..n /\ p[i] \in V /\ (i + 1) - 1 = i
      BY <1>2, <2>2
    <3>2. p[i + 1] = Collect(p[i], buffer[i + 1]) /\ i + 1 \in S
      BY <1>11, <3>1
    <3> QED BY <1>4, <3>1, <3>2
  <2> HIDE DEF T
  <2> QED BY <2>1, <2>2, Upwards
<1>13. p \in [0..n -> V]
  <2>1. \A i \in 0..n : p[i] \in V
    <3> HIDE DEF p
    <3> QED BY <1>2, <1>12
  <2> HIDE DEF p
  <2>2. p = [i \in 0..n |-> p[i]]
    BY DEF p
  <2> QED BY <2>1, <2>2
<1> HIDE DEF p, T
<1> QED BY <1>10, <1>11, <1>13 DEF n, V

Applied == [index : Sound, astray : BOOLEAN]

(* The records of a buffer, one after the other.                            *)
LEMMA ApplySteps ==
  ASSUME NEW order \in Seq(UsnRecords), NEW ix \in Sound, NEW amiss \in BOOLEAN
  PROVE  \E a \in [0..Len(order) -> Applied] :
            /\ a[0] = [index |-> ix, astray |-> amiss]
            /\ a[Len(order)] = Seqs!FoldLeft(ApplyOneUsnRecord, [index |-> ix, astray |-> amiss], order)
            /\ \A i \in 1..Len(order) : a[i] = ApplyOneUsnRecord(a[i - 1], order[i])
<1> DEFINE S == DOMAIN order
           V == Applied
           base == [index |-> ix, astray |-> amiss]
           Body(g) == [s \in SUBSET S |-> IF s = {} THEN base
                          ELSE ApplyOneUsnRecord(g[s \ {Max(s)}], order[Max(s)])]
           h == CHOOSE g : g = Body(g)
           n == Len(order)
<1>1. Seqs!FoldLeft(ApplyOneUsnRecord, base, order) = h[S]
  BY Zenon DEF Seqs!FoldLeft, Seqs!MapThenFoldSet, Seqs!Max, Max
<1>2. S = 1..n /\ n \in Nat
  OBVIOUS
<1>3. base \in V
  BY DEF Applied
<1>4. \A c \in S : \A i \in V : ApplyOneUsnRecord(i, order[c]) \in V
  <2> SUFFICES ASSUME NEW c \in S, NEW i \in V PROVE ApplyOneUsnRecord(i, order[c]) \in V
    OBVIOUS
  <2>1. order[c] \in UsnRecords /\ i.index \in Sound /\ i.astray \in BOOLEAN
    BY DEF Applied
  <2>2. ProcessUsnRecordReasons(i.index, order[c]) \in Sound
    BY <2>1, RecordTypes
  <2>3. Astray(ProcessUsnRecordReasons(i.index, order[c])) \in BOOLEAN
    BY DEF Astray
  <2> QED BY <2>1, <2>2, <2>3 DEF Applied, ApplyOneUsnRecord
<1> DEFINE pick == [s \in SUBSET S |-> Max(s)]
           F == [c \in S |-> [i \in V |-> ApplyOneUsnRecord(i, order[c])]]
<1>5. Chooses(pick, S) /\ IsFiniteSet(S)
  <2> HIDE DEF S, n
  <2>1. Chooses([s \in SUBSET (1..n) |-> Max(s)], 1..n) /\ IsFiniteSet(1..n)
    BY <1>2, LastPlace
  <2> QED BY <1>2, <2>1
<1> HIDE DEF S, n, V, h, base
<1>6. F \in [S -> [V -> V]]
  BY <1>4
<1>7. PICK g : IsFold(g, S, V, base, F, pick)
  <2> HIDE DEF F, pick
  <2> QED BY <1>3, <1>5, <1>6, FoldExists
<1>8. g = Body(g)
  <2>1. ASSUME NEW s \in SUBSET S
        PROVE  g[s] = IF s = {} THEN base ELSE ApplyOneUsnRecord(g[s \ {Max(s)}], order[Max(s)])
    <3>1. CASE s = {}
      BY <1>7, <3>1 DEF IsFold
    <3>2. CASE s # {}
      <4>1. pick[s] \in S /\ s \ {pick[s]} \in SUBSET S
        BY <1>5, <3>2 DEF Chooses
      <4>2. g[s \ {pick[s]}] \in V
        BY <1>7, <4>1 DEF IsFold
      <4>3. F[pick[s]][g[s \ {pick[s]}]] = ApplyOneUsnRecord(g[s \ {pick[s]}], order[pick[s]])
        BY <4>1, <4>2
      <4>4. pick[s] = Max(s)
        OBVIOUS
      <4> HIDE DEF pick, F
      <4> QED BY <1>7, <3>2, <4>3, <4>4 DEF IsFold
    <3> QED BY <3>1, <3>2
  <2>2. g = [s \in SUBSET S |-> g[s]]
    BY <1>7 DEF IsFold
  <2> QED BY <2>1, <2>2
<1>9. h = Body(h)
  <2> HIDE DEF Body
  <2> QED BY <1>8 DEF h
<1> DEFINE a == [i \in 0..n |-> h[1..i]]
<1>10. a[0] = base /\ a[n] = Seqs!FoldLeft(ApplyOneUsnRecord, base, order)
  <2>1. 0 \in 0..n /\ n \in 0..n /\ {} \in SUBSET S /\ 1..0 = {}
    BY <1>2
  <2> QED BY <1>1, <1>2, <1>9, <2>1
<1>11. ASSUME NEW i \in 1..n PROVE a[i] = ApplyOneUsnRecord(a[i - 1], order[i]) /\ i \in S
  <2>1. i \in 0..n /\ i - 1 \in 0..n /\ i \in S
    BY <1>2
  <2>2. /\ 1..i \in SUBSET S /\ 1..i # {} /\ Max(1..i) = i
        /\ (1..i) \ {i} = 1..(i - 1)
    BY <1>2, LastPlace
  <2>3. h[1..i] = ApplyOneUsnRecord(h[(1..i) \ {Max(1..i)}], order[Max(1..i)])
    <3> HIDE <1>2
    <3> QED BY <1>9, <2>2
  <2>4. h[1..i] = ApplyOneUsnRecord(h[1..(i - 1)], order[i])
    BY <2>2, <2>3, Zenon
  <2> QED BY <2>1, <2>4
<1> DEFINE T == {i \in Nat : i <= n => a[i] \in V}
<1>12. Nat \subseteq T
  <2> HIDE DEF a
  <2>1. 0 \in T
    BY <1>3, <1>10
  <2>2. ASSUME NEW i \in Nat, i \in T PROVE i + 1 \in T
    <3> SUFFICES ASSUME i + 1 <= n PROVE a[i + 1] \in V
      OBVIOUS
    <3>1. i + 1 \in 1..n /\ a[i] \in V /\ (i + 1) - 1 = i
      BY <1>2, <2>2
    <3>2. a[i + 1] = ApplyOneUsnRecord(a[i], order[i + 1]) /\ i + 1 \in S
      BY <1>11, <3>1
    <3> QED BY <1>4, <3>1, <3>2
  <2> HIDE DEF T
  <2> QED BY <2>1, <2>2, Upwards
<1>13. a \in [0..n -> V]
  <2>1. \A i \in 0..n : a[i] \in V
    <3> HIDE DEF a
    <3> QED BY <1>2, <1>12
  <2> HIDE DEF a
  <2>2. a = [i \in 0..n |-> a[i]]
    BY DEF a
  <2> QED BY <2>1, <2>2
<1> HIDE DEF a, T
<1> QED BY <1>10, <1>11, <1>13 DEF n, V, base

(* The sweep removes what waits, one entry after the other.                 *)
LEMMA SweepKeeps ==
  ASSUME NEW V, NEW ix \in V, NEW S, S \subseteq References,
         \A c \in S : \A i \in V : Remove(i, c) \in V
  PROVE  LET Evict(id, i) == Remove(i, id)
         IN FoldSet(Evict, ix, S) \in V
<1> DEFINE Evict(id, i) == Remove(i, id)
           Body(g) == [s \in SUBSET S |-> IF s = {} THEN ix
                          ELSE Remove(g[s \ {CHOOSE x \in s : TRUE}], CHOOSE x \in s : TRUE)]
           h == CHOOSE g : g = Body(g)
<1>1. FoldSet(Evict, ix, S) = h[S]
  BY Zenon DEF FoldSet, MapThenFoldSet
<1>2. IsFiniteSet(S)
  BY ReferencesFinite, FS_Subset
<1> DEFINE pick == [s \in SUBSET S |-> CHOOSE x \in s : TRUE]
           F == [c \in S |-> [i \in V |-> Remove(i, c)]]
<1>5. \A s \in SUBSET S : s # {} => pick[s] \in s
  OBVIOUS
<1>6. F \in [S -> [V -> V]]
  OBVIOUS
<1>7. PICK g : IsFold(g, S, V, ix, F, pick)
  <2>1. Chooses(pick, S)
    BY <1>5 DEF Chooses
  <2> HIDE DEF F, pick
  <2> QED BY <1>2, <1>6, <2>1, FoldExists
<1>8. g = Body(g)
  <2>1. ASSUME NEW s \in SUBSET S
        PROVE  g[s] = IF s = {} THEN ix
                      ELSE Remove(g[s \ {CHOOSE x \in s : TRUE}], CHOOSE x \in s : TRUE)
    <3>1. CASE s = {}
      BY <1>7, <3>1 DEF IsFold
    <3>2. CASE s # {}
      <4>1. pick[s] \in S /\ s \ {pick[s]} \in SUBSET S
        BY <1>5, <3>2
      <4>2. g[s \ {pick[s]}] \in V
        BY <1>7, <4>1 DEF IsFold
      <4>3. F[pick[s]][g[s \ {pick[s]}]] = Remove(g[s \ {pick[s]}], pick[s])
        BY <4>1, <4>2
      <4>4. pick[s] = CHOOSE x \in s : TRUE
        OBVIOUS
      <4> HIDE DEF pick, F
      <4> QED BY <1>7, <3>2, <4>3, <4>4 DEF IsFold
    <3> QED BY <3>1, <3>2
  <2>2. g = [s \in SUBSET S |-> g[s]]
    BY <1>7 DEF IsFold
  <2> QED BY <2>1, <2>2
<1>9. h = Body(h)
  <2> HIDE DEF Body
  <2> QED BY <1>8
<1> HIDE DEF Body
<1>10. h[S] \in V
  <2> HIDE DEF h
  <2> DEFINE B == {s \in SUBSET S : h[s] \in V}
  <2>1. {} \in B
    BY <1>9 DEF Body
  <2>2. ASSUME NEW s \in SUBSET S, s # {} PROVE \E x \in s : s \ {x} \in B => s \in B
    <3> DEFINE x == CHOOSE y \in s : TRUE
    <3>1. x \in s
      BY <2>2
    <3>2. h[s] = Remove(h[s \ {x}], x)
      BY <1>9, <2>2 DEF Body
    <3> HIDE DEF x
    <3> QED BY <3>1, <3>2
  <2>3. S \in B
    <3> HIDE DEF B
    <3> QED BY <1>2, <2>1, <2>2, SetInduction
  <2> QED BY <2>3
<1> QED BY <1>1, <1>10

-----------------------------------------------------------------------------
(* The volume.  What is live has a name and a live parent; what is not has  *)
(* no reasons.                                                              *)
Volume ==
    \A r \in Records :
        /\ fs[r].seq <= ops
        /\ fs[r].live => fs[r].name \in Names /\ fs[r].seq # 0
        /\ fs[r].live /\ fs[r].parent # 0 => fs[fs[r].parent].live
        /\ ~fs[r].live => fs[r].reasons = {}

Types ==
    /\ fs \in [Records -> Files] /\ ops \in 0..MaxOps /\ drift \in BOOLEAN /\ astray \in BOOLEAN
    /\ journal \in Seq(UsnRecords)

TypeInv == Types /\ Volume /\ index \in Sound

(* The type invariant says what the run checks.                             *)
LEMMA TypeInvImpliesTypeOK == TypeInv => TypeOK /\ WaitersArePlaceholders
<1> SUFFICES ASSUME TypeInv PROVE TypeOK /\ WaitersArePlaceholders
  OBVIOUS
<1>1. /\ DOMAIN index.entries \subseteq References
      /\ \A e \in DOMAIN index.entries : index.entries[e] \in Entries
      /\ DOMAIN index.canonical \subseteq Records
      /\ index.awaiting \in [Records -> SUBSET References]
  BY IndexParts DEF TypeInv, Sound
<1>2. TypeOK
  BY <1>1 DEF TypeInv, Types, TypeOK, Entries, Parents
<1>3. WaitersArePlaceholders
  BY DEF TypeInv, Sound, Waits, WaitersArePlaceholders
<1> QED BY <1>2, <1>3

(* The empty index is sound.                                                *)
LEMMA EmptyIndexTypes == EmptyIndex \in Sound
<1>1. <<>> \in [{} -> Entries] /\ <<>> \in [{} -> References]
  OBVIOUS
<1>2. /\ <<>> \in UNION {[D -> Entries] : D \in SUBSET References}
      /\ <<>> \in UNION {[D -> References] : D \in SUBSET Records}
  <2>1. {} \in SUBSET References /\ {} \in SUBSET Records
    OBVIOUS
  <2> QED BY <1>1, <2>1
<1>3. [r \in Records |-> {}] \in [Records -> SUBSET References]
  OBVIOUS
<1>4. EmptyIndex \in Indexes
  BY <1>2, <1>3 DEF EmptyIndex, Indexes
<1>5. Waits(EmptyIndex)
  BY DEF EmptyIndex, Waits
<1> QED BY <1>4, <1>5 DEF Sound

(* The references and records of live files have their types.               *)
LEMMA ReferenceTypes ==
  ASSUME TypeInv
  PROVE  /\ \A r \in Records : fs[r].live => Reference(r) \in References
         /\ \A r \in Records : fs[r].live => Reference(fs[r].parent) \in Parents
         /\ \A r \in Records, reasons \in SUBSET Reasons :
               fs[r].live => UsnRecord(r, reasons) \in UsnRecords
<1>1. ASSUME NEW r \in Records, fs[r].live PROVE Reference(r) \in References
  <2>1. r # 0
    BY RecordsAssumption
  <2>2. fs[r].seq \in 1..MaxOps
    BY <1>1, BoundsAssumption DEF TypeInv, Types, Volume, Files
  <2> QED BY <2>1, <2>2 DEF Reference, References
<1>2. ASSUME NEW r \in Records, fs[r].live PROVE Reference(fs[r].parent) \in Parents
  <2>1. CASE fs[r].parent = 0
    BY <2>1 DEF Reference, Parents
  <2>2. CASE fs[r].parent # 0
    <3>1. fs[r].parent \in Records /\ fs[fs[r].parent].live
      BY <1>2, <2>2 DEF TypeInv, Types, Volume, Files
    <3> QED BY <1>1, <3>1 DEF Parents
  <2> QED BY <2>1, <2>2
<1>3. ASSUME NEW r \in Records, NEW reasons \in SUBSET Reasons, fs[r].live
      PROVE  UsnRecord(r, reasons) \in UsnRecords
  <2>1. Reference(r) \in References /\ Reference(fs[r].parent) \in References \cup {Root}
    BY <1>1, <1>2, <1>3 DEF Parents
  <2>2. fs[r].name \in Names /\ fs[r].dir \in BOOLEAN
    BY <1>3 DEF TypeInv, Types, Volume, Files
  <2> QED BY <2>1, <2>2 DEF UsnRecord, UsnRecords
<1> QED BY <1>1, <1>2, <1>3

(* The parts of a buffer hold records.                                      *)
LEMMA PartitionTypes ==
  ASSUME NEW buffer \in Seq(UsnRecords)
  PROVE  Partition(buffer) \in Parts
<1>1. PICK p \in [0..Len(buffer) -> Parts] : p[Len(buffer)] = Partition(buffer)
  BY PartitionSteps
<1>2. Len(buffer) \in 0..Len(buffer)
  OBVIOUS
<1> QED BY <1>1, <1>2

(* So does the order in which it is applied.                                *)
LEMMA OrderTypes ==
  ASSUME NEW buffer \in Seq(UsnRecords)
  PROVE  Partition(buffer).establish_parents \o Partition(buffer).remaining \in Seq(UsnRecords)
<1>1. Partition(buffer).establish_parents \in Seq(UsnRecords) /\ Partition(buffer).remaining \in Seq(UsnRecords)
  BY PartitionTypes DEF Parts
<1> QED BY <1>1

(* A buffer applied leaves a sound index.                                   *)
LEMMA ApplyTypes ==
  ASSUME NEW order \in Seq(UsnRecords), NEW ix \in Sound, NEW amiss \in BOOLEAN
  PROVE  Seqs!FoldLeft(ApplyOneUsnRecord, [index |-> ix, astray |-> amiss], order) \in Applied
<1>1. PICK a \in [0..Len(order) -> Applied] :
         a[Len(order)] = Seqs!FoldLeft(ApplyOneUsnRecord, [index |-> ix, astray |-> amiss], order)
  BY ApplySteps
<1>2. Len(order) \in 0..Len(order)
  OBVIOUS
<1>3. a[Len(order)] \in Applied
  BY <1>2
<1> QED BY <1>1, <1>3

(* The journal is written at its end.                                       *)
LEMMA AppendTypes ==
  ASSUME NEW record \in UsnRecords, TypeInv, journal' = Append(journal, record)
  PROVE  /\ journal' \in Seq(UsnRecords) /\ Len(journal') = Len(journal) + 1
         /\ \A i \in DOMAIN journal : i \in DOMAIN journal' /\ journal'[i] = journal[i]
         /\ DOMAIN journal' = DOMAIN journal \cup {Len(journal) + 1}
         /\ Len(journal) + 1 \notin DOMAIN journal
         /\ journal'[Len(journal) + 1] = record
<1>1. journal \in Seq(UsnRecords)
  BY DEF TypeInv, Types
<1> QED BY <1>1

(* Types and waiters are kept by every step.                                *)
LEMMA StepKeepsTypes == TypeInv /\ [Next]_vars => TypeInv'
<1> SUFFICES ASSUME TypeInv, [Next]_vars PROVE TypeInv'
  OBVIOUS
<1>0. fs \in [Records -> Files]
  BY DEF TypeInv, Types
<1>1. ASSUME NEW r \in Records, NEW p \in Folders, NEW n \in Names, NEW d \in BOOLEAN,
             CreateFile(r, p, n, d)
      PROVE  TypeInv'
  <2>1. ops + 1 \in 0..MaxOps /\ ops' = ops + 1 /\ ops \in 0..MaxOps
    BY <1>1, BoundsAssumption DEF CreateFile, Operate, TypeInv, Types
  <2> DEFINE file == [seq |-> fs[r].seq + 1, live |-> TRUE, parent |-> p,
                      name |-> n, dir |-> d, reasons |-> {"create"}]
  <2>2. fs' = [fs EXCEPT ![r] = file] /\ ~fs[r].live
    BY <1>1 DEF CreateFile
  <2>3. fs[r].seq \in 0..MaxOps /\ fs[r].seq <= ops
    BY <1>0 DEF TypeInv, Volume, Files
  <2>4. p \in Records \cup {0} /\ (p # 0 => fs[p].live)
    BY DEF Folders, Live
  <2>5. file \in Files
    <3>1. fs[r].seq + 1 \in 0..MaxOps
      BY <2>1, <2>3, BoundsAssumption
    <3> QED BY <2>4, <3>1 DEF Files, Reasons
  <2>6. /\ file.seq <= ops' /\ file.seq # 0 /\ file.live /\ file.parent = p
        /\ file.name = n
    BY <2>1, <2>3
  <2> HIDE DEF file
  <2>7. fs' \in [Records -> Files] /\ fs'[r] = file /\ \A s \in Records : s # r => fs'[s] = fs[s]
    BY <1>0, <2>2, <2>5
  <2>8. Volume'
    <3> SUFFICES ASSUME NEW s \in Records
                 PROVE  /\ fs'[s].seq <= ops'
                        /\ fs'[s].live => fs'[s].name \in Names /\ fs'[s].seq # 0
                        /\ fs'[s].live /\ fs'[s].parent # 0 => fs'[fs'[s].parent].live
                        /\ ~fs'[s].live => fs'[s].reasons = {}
      BY DEF Volume
    <3>1. \A q \in Records : fs[q].live => fs'[q].live
      BY <2>2, <2>6, <2>7
    <3>2. CASE s = r
      BY <2>4, <2>6, <2>7, <3>1, <3>2
    <3>3. CASE s # r
      <4>1. fs[s].seq <= ops'
        <5>1. fs[s].seq \in 0..MaxOps /\ fs[s].seq <= ops
          BY <1>0 DEF TypeInv, Volume, Files
        <5> QED BY <2>1, <5>1
      <4>2. fs[s].parent \in Records \cup {0}
        BY <1>0 DEF Files
      <4> QED BY <2>7, <3>1, <3>3, <4>1, <4>2 DEF TypeInv, Volume
    <3> QED BY <3>2, <3>3
  <2>9. index' \in Sound /\ drift' \in BOOLEAN /\ astray' \in BOOLEAN /\ journal' \in Seq(UsnRecords)
    BY <1>1 DEF CreateFile, Operate, TypeInv, Types
  <2> QED BY <2>1, <2>7, <2>8, <2>9 DEF TypeInv, Types
<1>2. ASSUME NEW r \in Records, NEW p \in Folders, NEW n \in Names, RenameFile(r, p, n)
      PROVE  TypeInv'
  <2>1. ops + 1 \in 0..MaxOps /\ ops' = ops + 1 /\ ops \in 0..MaxOps
    BY <1>2, BoundsAssumption DEF RenameFile, Operate, TypeInv, Types
  <2> DEFINE file == [fs[r] EXCEPT !.parent = p, !.name = n, !.reasons = @ \cup {"rename"}]
  <2>2. fs' = [fs EXCEPT ![r] = file] /\ fs[r].live
    BY <1>2, Zenon DEF RenameFile
  <2>4. p \in Records \cup {0} /\ (p # 0 => fs[p].live)
    BY DEF Folders, Live
  <2>5. fs[r] \in Files /\ file \in Files
    <3>1. fs[r] \in Files
      BY <1>0
    <3>2. n \in Names \cup {NoName} /\ fs[r].reasons \cup {"rename"} \in SUBSET Reasons
      BY <3>1 DEF Files, Reasons
    <3> QED BY <2>4, <3>1, <3>2 DEF Files
  <2>6. /\ file.seq = fs[r].seq /\ file.live = fs[r].live /\ file.parent = p /\ file.name = n
    BY <2>5 DEF Files
  <2> HIDE DEF file
  <2>7. fs' \in [Records -> Files] /\ fs'[r] = file /\ \A s \in Records : s # r => fs'[s] = fs[s]
    BY <1>0, <2>2, <2>5
  <2>8. Volume'
    <3> SUFFICES ASSUME NEW s \in Records
                 PROVE  /\ fs'[s].seq <= ops'
                        /\ fs'[s].live => fs'[s].name \in Names /\ fs'[s].seq # 0
                        /\ fs'[s].live /\ fs'[s].parent # 0 => fs'[fs'[s].parent].live
                        /\ ~fs'[s].live => fs'[s].reasons = {}
      BY DEF Volume
    <3>1. \A q \in Records : fs[q].live => fs'[q].live
      BY <2>2, <2>6, <2>7
    <3>0. fs'[s].seq = fs[s].seq /\ fs[s].seq <= ops'
      <4>1. fs[s].seq \in 0..MaxOps /\ fs[s].seq <= ops
        BY <1>0 DEF TypeInv, Volume, Files
      <4> QED BY <2>1, <2>6, <2>7, <4>1
    <3>2. CASE s = r
      BY <2>2, <2>4, <2>6, <2>7, <3>0, <3>1, <3>2 DEF TypeInv, Volume
    <3>3. CASE s # r
      <4>2. fs[s].parent \in Records \cup {0}
        BY <1>0 DEF Files
      <4> QED BY <2>7, <3>0, <3>1, <3>3, <4>2 DEF TypeInv, Volume
    <3> QED BY <3>2, <3>3
  <2>9. index' \in Sound /\ drift' \in BOOLEAN /\ astray' \in BOOLEAN /\ journal' \in Seq(UsnRecords)
    BY <1>2 DEF RenameFile, Operate, TypeInv, Types
  <2> QED BY <2>1, <2>7, <2>8, <2>9 DEF TypeInv, Types
<1>3. ASSUME NEW r \in Records, DeleteFile(r) PROVE TypeInv'
  <2>1. ops + 1 \in 0..MaxOps /\ ops' = ops + 1 /\ ops \in 0..MaxOps
    BY <1>3, BoundsAssumption DEF DeleteFile, Operate, TypeInv, Types
  <2>2. /\ fs' = [fs EXCEPT ![r] = Unused(fs[r].seq)] /\ fs[r].live
        /\ \A d \in Records : fs[d].live => fs[d].parent # r
        /\ journal' = Append(journal, UsnRecord(r, fs[r].reasons \cup {"delete"}))
    BY <1>3 DEF DeleteFile, Live
  <2>3. fs[r].seq \in 0..MaxOps /\ fs[r].seq <= ops /\ fs[r].reasons \cup {"delete"} \in SUBSET Reasons
    BY <1>0 DEF TypeInv, Volume, Files, Reasons
  <2> DEFINE file == Unused(fs[r].seq)
  <2>5. file \in Files /\ file.seq = fs[r].seq /\ ~file.live /\ file.reasons = {}
    BY <2>3 DEF Files, Reasons, Unused
  <2> HIDE DEF file
  <2>7. fs' \in [Records -> Files] /\ fs'[r] = file /\ \A s \in Records : s # r => fs'[s] = fs[s]
    BY <1>0, <2>2, <2>5 DEF file
  <2>8. Volume'
    <3> SUFFICES ASSUME NEW s \in Records
                 PROVE  /\ fs'[s].seq <= ops'
                        /\ fs'[s].live => fs'[s].name \in Names /\ fs'[s].seq # 0
                        /\ fs'[s].live /\ fs'[s].parent # 0 => fs'[fs'[s].parent].live
                        /\ ~fs'[s].live => fs'[s].reasons = {}
      BY DEF Volume
    <3>0. fs'[s].seq = fs[s].seq /\ fs[s].seq <= ops'
      <4>1. fs[s].seq \in 0..MaxOps /\ fs[s].seq <= ops
        BY <1>0 DEF TypeInv, Volume, Files
      <4> QED BY <2>1, <2>5, <2>7, <4>1
    <3>2. CASE s = r
      BY <2>5, <2>7, <3>0, <3>2
    <3>3. CASE s # r
      <4>2. fs[s].parent \in Records \cup {0}
        BY <1>0 DEF Files
      <4> QED BY <2>2, <2>7, <3>0, <3>3, <4>2 DEF TypeInv, Volume
    <3> QED BY <3>2, <3>3
  <2>9. index' \in Sound /\ drift' \in BOOLEAN /\ astray' \in BOOLEAN
    BY <1>3 DEF DeleteFile, Operate, TypeInv, Types
  <2>10. journal' \in Seq(UsnRecords)
    <3>1. UsnRecord(r, fs[r].reasons \cup {"delete"}) \in UsnRecords
      BY <2>2, <2>3, ReferenceTypes
    <3> QED BY <2>2, <3>1, AppendTypes
  <2> QED BY <2>1, <2>7, <2>8, <2>9, <2>10 DEF TypeInv, Types
<1>4. ASSUME NEW r \in Records, CloseFile(r) PROVE TypeInv'
  <2>2. /\ fs' = [fs EXCEPT ![r].reasons = {}] /\ fs[r].live
        /\ journal' = Append(journal, UsnRecord(r, fs[r].reasons))
        /\ UNCHANGED <<ops, index, drift, astray>>
    BY <1>4 DEF CloseFile
  <2>3. fs[r].reasons \in SUBSET Reasons
    BY <1>0 DEF Files
  <2> DEFINE file == [fs[r] EXCEPT !.reasons = {}]
  <2>5. /\ file \in Files /\ file.seq = fs[r].seq /\ file.live = fs[r].live
        /\ file.parent = fs[r].parent /\ file.name = fs[r].name /\ file.reasons = {}
    BY <1>0 DEF Files
  <2>6. fs' = [fs EXCEPT ![r] = file]
    BY <1>0, <2>2
  <2> HIDE DEF file
  <2>7. fs' \in [Records -> Files] /\ fs'[r] = file /\ \A s \in Records : s # r => fs'[s] = fs[s]
    BY <1>0, <2>5, <2>6
  <2>8. Volume'
    <3> SUFFICES ASSUME NEW s \in Records
                 PROVE  /\ fs'[s].seq <= ops'
                        /\ fs'[s].live => fs'[s].name \in Names /\ fs'[s].seq # 0
                        /\ fs'[s].live /\ fs'[s].parent # 0 => fs'[fs'[s].parent].live
                        /\ ~fs'[s].live => fs'[s].reasons = {}
      BY DEF Volume
    <3>1. \A q \in Records : fs'[q].live = fs[q].live /\ fs'[q].parent = fs[q].parent
                /\ fs'[q].seq = fs[q].seq /\ fs'[q].name = fs[q].name
                /\ (fs'[q].reasons = fs[q].reasons \/ fs'[q].reasons = {})
      BY <2>5, <2>7
    <3>2. fs[s].parent \in Records \cup {0}
      BY <1>0 DEF Files
    <3> HIDE <2>7
    <3> QED BY <2>2, <3>1, <3>2 DEF TypeInv, Volume
  <2>9. index' \in Sound /\ drift' \in BOOLEAN /\ astray' \in BOOLEAN /\ ops' \in 0..MaxOps
    BY <2>2 DEF TypeInv, Types
  <2>10. journal' \in Seq(UsnRecords)
    <3>1. UsnRecord(r, fs[r].reasons) \in UsnRecords
      BY <2>2, <2>3, ReferenceTypes
    <3> QED BY <2>2, <3>1, AppendTypes
  <2> QED BY <2>7, <2>8, <2>9, <2>10 DEF TypeInv, Types
<1>5. ASSUME ProcessOneBuffer PROVE TypeInv'
  <2>1. PICK n \in 1..MaxBuffer :
          /\ n <= Len(journal)
          /\ LET buffer == SubSeq(journal, 1, n)
                 parts == Partition(buffer)
                 order == parts.establish_parents \o parts.remaining
                 applied == Seqs!FoldLeft(ApplyOneUsnRecord, [index |-> index, astray |-> astray], order)
             IN /\ index' = applied.index
                /\ astray' = applied.astray
                /\ drift' = (drift \/ Misread(buffer))
          /\ journal' = SubSeq(journal, n + 1, Len(journal))
          /\ UNCHANGED <<fs, ops>>
    BY <1>5 DEF ProcessOneBuffer
  <2> DEFINE buffer == SubSeq(journal, 1, n)
             order == Partition(buffer).establish_parents \o Partition(buffer).remaining
             applied == Seqs!FoldLeft(ApplyOneUsnRecord, [index |-> index, astray |-> astray], order)
  <2>2. journal \in Seq(UsnRecords) /\ n \in Nat /\ index \in Sound /\ astray \in BOOLEAN
    BY DEF TypeInv, Types
  <2>3. buffer \in Seq(UsnRecords) /\ SubSeq(journal, n + 1, Len(journal)) \in Seq(UsnRecords)
    BY <2>1, <2>2
  <2>4. order \in Seq(UsnRecords)
    <3> HIDE DEF buffer
    <3> QED BY <2>3, OrderTypes
  <2>5. applied \in Applied
    <3> HIDE DEF order
    <3> QED BY <2>2, <2>4, ApplyTypes
  <2>6. index' = applied.index /\ astray' = applied.astray /\ drift' = (drift \/ Misread(buffer))
    BY <2>1, Zenon
  <2> HIDE DEF applied, order
  <2>7. index' \in Sound
    BY <2>5, <2>6 DEF Applied
  <2>8. drift' \in BOOLEAN /\ astray' \in BOOLEAN
    <3>1. applied.astray \in BOOLEAN /\ drift \in BOOLEAN
      BY <2>5 DEF Applied, TypeInv, Types
    <3>2. Misread(buffer) \in BOOLEAN
      BY DEF Misread
    <3> QED BY <2>6, <3>1, <3>2
  <2>9. UNCHANGED <<fs, ops>> /\ journal' \in Seq(UsnRecords)
    BY <2>1, <2>3
  <2> QED BY <2>7, <2>8, <2>9 DEF TypeInv, Types, Volume
<1>6. ASSUME SweepNeverArriving PROVE TypeInv'
  <2> DEFINE waiting == UNION {index.awaiting[r] : r \in Records}
             Evict(id, ix) == Remove(ix, id)
  <2>1. index' = FoldSet(Evict, index, waiting) /\ UNCHANGED <<fs, ops, journal, drift, astray>>
    BY <1>6, Zenon DEF SweepNeverArriving
  <2>2. index \in Sound /\ waiting \subseteq References
    BY IndexParts DEF TypeInv, Sound
  <2> HIDE DEF waiting
  <2>3. FoldSet(Evict, index, waiting) \in Sound
    <3>1. \A c \in waiting : \A ix \in Sound : Remove(ix, c) \in Sound
      BY <2>2, RemoveTypes
    <3> QED BY <2>2, <3>1, SweepKeeps, Zenon
  <2>4. index' \in Sound
    BY <2>1, <2>3, Zenon
  <2> QED BY <2>1, <2>4 DEF TypeInv, Types, Volume
<1>7. CASE UNCHANGED vars
  BY <1>7 DEF TypeInv, Types, Volume, vars
<1> QED BY <1>1, <1>2, <1>3, <1>4, <1>5, <1>6, <1>7 DEF Next

(* They hold at the start.                                                  *)
LEMMA InitTypes == Init => TypeInv
<1> SUFFICES ASSUME Init PROVE TypeInv
  OBVIOUS
<1>1. index \in Sound
  BY EmptyIndexTypes DEF Init
<1>2. Unused(0) \in Files
  BY BoundsAssumption DEF Unused, Files, Reasons
<1>3. fs \in [Records -> Files] /\ \A r \in Records : fs[r] = Unused(0)
  BY <1>2 DEF Init
<1>4. ops \in 0..MaxOps /\ ops = 0 /\ drift \in BOOLEAN /\ astray \in BOOLEAN /\ journal \in Seq(UsnRecords)
  <2>1. journal = <<>> /\ drift \in BOOLEAN /\ astray \in BOOLEAN
    BY DEF Init
  <2>2. journal \in Seq(UsnRecords)
    BY <2>1
  <2>3. ops = 0
    BY DEF Init
  <2>4. ops \in 0..MaxOps
    BY <2>3, BoundsAssumption
  <2> QED BY <2>1, <2>2, <2>3, <2>4
<1>5. Volume
  BY <1>3, <1>4 DEF Volume, Unused
<1> QED BY <1>1, <1>3, <1>4, <1>5 DEF TypeInv, Types

(* The index keeps its types, whatever the volume does and in whatever      *)
(* buffers the journal is read: ResolveParent never stores a reference that *)
(* is none, and every path has a leaf.                                      *)
THEOREM IngestTypeCorrect == Spec => []TypeOK
<1>1. TypeInv => TypeOK
  BY TypeInvImpliesTypeOK
<1>2. Spec => []TypeInv
  BY InitTypes, StepKeepsTypes, PTL DEF Spec
<1> QED BY <1>1, <1>2, PTL

(* The children that AwaitParent tracks are entries of the index, each one  *)
(* tracked for the parent it has, also after records the code misreads.     *)
THEOREM OnlyPlaceholdersWait == Spec => []WaitersArePlaceholders
<1>1. TypeInv => WaitersArePlaceholders
  BY TypeInvImpliesTypeOK
<1>2. Spec => []TypeInv
  BY InitTypes, StepKeepsTypes, PTL DEF Spec
<1> QED BY <1>1, <1>2, PTL
-----------------------------------------------------------------------------
(* Bare names wait.                                                         *)

(* The index.  An entry is the one of its record number in use.             *)
One(ix) ==
    \A e \in DOMAIN ix.entries : e.rec \in DOMAIN ix.canonical /\ ix.canonical[e.rec] = e

Keyed(ix) == \A r \in DOMAIN ix.canonical : ix.canonical[r].rec = r

(* Nothing waits for what has arrived.                                      *)
Served(ix) == \A e \in DOMAIN ix.entries : ix.awaiting[e.rec] = {}

Tidy(ix) == One(ix) /\ Keyed(ix) /\ Served(ix) /\ BareWait(ix)

(* No entry but this one has its record number.                             *)
Alone(ix, id) == \A e \in DOMAIN ix.entries : e.rec = id.rec => e = id

(* A parent that is unknown has no entry under its record number.           *)
LEMMA UnknownHasNoEntry ==
  ASSUME NEW ix \in Indexes, One(ix), NEW ref \in Parents, NEW e \in DOMAIN ix.entries,
         ResolveParent(ix, ref) \notin DOMAIN ix.entries
  PROVE  e.rec # ResolveParent(ix, ref).rec
<1> DEFINE found == ResolveEntryReference(ix, ref)
<1>1. e \in References /\ e.rec \in DOMAIN ix.canonical /\ ix.canonical[e.rec] = e
  BY IndexParts DEF One
<1>2. e # Nothing /\ e.rec # 0
  BY <1>1, ReferencesFinite, RecordsAssumption DEF References
<1>3. CASE ref = Root
  BY <1>2, <1>3 DEF ResolveParent, Root
<1>4. CASE ref # Root
  <2>1. ResolveParent(ix, ref) = ref /\ found = Nothing
    <3>1. found \in DOMAIN ix.entries \cup {Nothing}
      BY ResolveTypes
    <3> QED BY <1>4, <3>1 DEF ResolveParent
  <2>2. ref.rec # e.rec
    <3> SUFFICES ASSUME ref.rec = e.rec PROVE FALSE
      OBVIOUS
    <3>1. found = e
      BY <1>1 DEF ResolveEntryReference
    <3> QED BY <1>2, <2>1, <3>1
  <2> QED BY <2>1, <2>2
<1> QED BY <1>3, <1>4

(* An entry alone with its number is found under its own reference.         *)
LEMMA AloneIsFound ==
  ASSUME NEW ix \in Indexes, One(ix), Keyed(ix), NEW id \in References, Alone(ix, id)
  PROVE  /\ ResolveEntryReference(ix, id) = IF id \in DOMAIN ix.entries THEN id ELSE Nothing
         /\ \A dir \in BOOLEAN : InsertTarget(ix, id, dir) = id
<1>1. ResolveEntryReference(ix, id) = IF id \in DOMAIN ix.entries THEN id ELSE Nothing
  <2>1. CASE id.rec \in DOMAIN ix.canonical /\ ix.canonical[id.rec] \in DOMAIN ix.entries
    <3>1. ix.canonical[id.rec] = id
      BY <2>1 DEF Alone, Keyed
    <3> QED BY <2>1, <3>1 DEF ResolveEntryReference
  <2>2. CASE ~(id.rec \in DOMAIN ix.canonical /\ ix.canonical[id.rec] \in DOMAIN ix.entries)
    BY <2>2 DEF ResolveEntryReference
  <2> QED BY <2>1, <2>2
<1>2. ASSUME NEW dir \in BOOLEAN PROVE InsertTarget(ix, id, dir) = id
  BY <1>1 DEF InsertTarget
<1> QED BY <1>1, <1>2

(* Insert, Move, Rename and Remove keep an index tidy.                      *)
LEMMA InsertTidy ==
  ASSUME NEW ix \in Sound, Tidy(ix), NEW id \in References, Alone(ix, id),
         NEW ref \in Parents, NEW name \in Names, NEW dir \in BOOLEAN
  PROVE  LET new == Insert(ix, id, ref, name, dir)
         IN new \in Sound /\ Tidy(new) /\ DOMAIN new.entries = DOMAIN ix.entries \cup {id}
<1> DEFINE new == Insert(ix, id, ref, name, dir)
           parent == ResolveParent(ix, ref)
<1>1. ix \in Indexes /\ One(ix) /\ Keyed(ix) /\ Served(ix) /\ BareWait(ix)
  BY DEF Sound, Tidy
<1>2. InsertTarget(ix, id, dir) = id
  BY <1>1, AloneIsFound
<1>3. /\ new \in Sound /\ BareWait(new)
      /\ DOMAIN new.entries = DOMAIN ix.entries \cup {id}
      /\ new.canonical = With(ix.canonical, id.rec, id)
      /\ new.awaiting[id.rec] = {} /\ WaitsForUnknown(ix, new, id, parent)
  BY <1>1, <1>2, InsertTypes
<1> HIDE DEF new, parent
<1>4. /\ DOMAIN new.canonical = DOMAIN ix.canonical \cup {id.rec}
      /\ \A r \in DOMAIN new.canonical : new.canonical[r] = IF r = id.rec THEN id ELSE ix.canonical[r]
  BY <1>3 DEF With
<1>5. One(new)
  BY <1>1, <1>3, <1>4 DEF One, Alone
<1>6. Keyed(new)
  BY <1>1, <1>4 DEF Keyed
<1>7. Served(new)
  <2> SUFFICES ASSUME NEW e \in DOMAIN new.entries, e # id PROVE new.awaiting[e.rec] = {}
    BY <1>3 DEF Served
  <2>1. e \in DOMAIN ix.entries /\ e.rec \in Records /\ ix.awaiting[e.rec] = {}
    BY <1>1, <1>3, IndexParts DEF Served, References
  <2>2. parent \notin DOMAIN ix.entries => e.rec # parent.rec
    BY <1>1, <2>1, UnknownHasNoEntry DEF parent
  <2> QED BY <1>3, <2>1, <2>2 DEF WaitsForUnknown
<1> QED BY <1>3, <1>5, <1>6, <1>7 DEF Tidy, new

(* Move keeps the index sound and tidy, whatever parent it is given.        *)
LEMMA MoveTidy ==
  ASSUME NEW ix \in Sound, Tidy(ix), NEW id \in DOMAIN ix.entries, NEW ref \in Parents
  PROVE  LET new == Move(ix, id, ref)
         IN new \in Sound /\ Tidy(new) /\ DOMAIN new.entries = DOMAIN ix.entries
<1> DEFINE new == Move(ix, id, ref)
           parent == ResolveParent(ix, ref)
<1>1. ix \in Indexes /\ One(ix) /\ Keyed(ix) /\ Served(ix) /\ BareWait(ix)
  BY DEF Sound, Tidy
<1>2. /\ new \in Sound /\ BareWait(new)
      /\ DOMAIN new.entries = DOMAIN ix.entries /\ new.canonical = ix.canonical
      /\ WaitsForUnknown(ix, new, id, parent)
  BY <1>1, MoveTypes
<1> HIDE DEF new, parent
<1>3. One(new) /\ Keyed(new)
  BY <1>1, <1>2 DEF One, Keyed
<1>4. Served(new)
  <2> SUFFICES ASSUME NEW e \in DOMAIN ix.entries PROVE new.awaiting[e.rec] = {}
    BY <1>2 DEF Served
  <2>1. e.rec \in Records /\ ix.awaiting[e.rec] = {}
    BY <1>1, IndexParts DEF Served, References
  <2>2. parent \notin DOMAIN ix.entries => e.rec # parent.rec
    BY <1>1, UnknownHasNoEntry DEF parent
  <2> QED BY <1>2, <2>1, <2>2 DEF WaitsForUnknown
<1> QED BY <1>2, <1>3, <1>4 DEF Tidy, new

(* Rename keeps the index sound and tidy, whatever name it is given.        *)
LEMMA RenameTidy ==
  ASSUME NEW ix \in Sound, Tidy(ix), NEW id \in DOMAIN ix.entries, NEW name \in Names
  PROVE  LET new == Rename(ix, id, name)
         IN new \in Sound /\ Tidy(new) /\ DOMAIN new.entries = DOMAIN ix.entries
<1> DEFINE new == Rename(ix, id, name)
<1>1. /\ new \in Sound /\ SameTree(ix, new) /\ new.awaiting = ix.awaiting
      /\ BareWait(ix) => BareWait(new)
  BY RenameTypes
<1> HIDE DEF new
<1> QED BY <1>1 DEF SameTree, Tidy, One, Keyed, Served, new

(* Remove takes out the one entry and keeps the index sound and tidy.       *)
LEMMA RemoveTidy ==
  ASSUME NEW ix \in Sound, Tidy(ix), NEW id \in References
  PROVE  LET new == Remove(ix, id)
         IN new \in Sound /\ Tidy(new) /\ DOMAIN new.entries = DOMAIN ix.entries \ {id}
<1> DEFINE new == Remove(ix, id)
<1>1. ix \in Indexes /\ One(ix) /\ Keyed(ix) /\ Served(ix) /\ BareWait(ix)
  BY DEF Sound, Tidy
<1>2. /\ DOMAIN new.entries = DOMAIN ix.entries \ {id}
      /\ \A e \in DOMAIN new.entries : new.entries[e] = ix.entries[e]
      /\ new.canonical = ix.canonical \/ new.canonical = Without(ix.canonical, id.rec)
      /\ \A r \in Records :
            \/ new.awaiting[r] = ix.awaiting[r]
            \/ id \in DOMAIN ix.entries /\ new.awaiting[r] = ix.awaiting[r] \ {id}
            \/ id \in DOMAIN ix.entries /\ r = id.rec /\ new.awaiting[r] = {}
  BY RemovedEntries
<1>3. new \in Sound
  BY RemoveTypes
<1>0. Remove(ix, id) = new
  OBVIOUS
<1>8. id \notin DOMAIN ix.entries => new = ix
  BY DEF Remove
<1> HIDE DEF new
<1>4. /\ DOMAIN new.canonical \subseteq DOMAIN ix.canonical
      /\ \A r \in DOMAIN new.canonical : new.canonical[r] = ix.canonical[r]
      /\ \A r \in DOMAIN ix.canonical : r # id.rec => r \in DOMAIN new.canonical
  BY <1>2 DEF Without
<1>5. One(new) /\ Keyed(new)
  <2>1. CASE id \notin DOMAIN ix.entries
    BY <1>1, <1>8, <2>1
  <2>2. CASE id \in DOMAIN ix.entries
    <3>1. \A e \in DOMAIN new.entries : e.rec # id.rec
      BY <1>1, <1>2, <2>2 DEF One
    <3> QED BY <1>1, <1>2, <1>4, <3>1 DEF One, Keyed
  <2> QED BY <2>1, <2>2
<1>6. Served(new)
  <2> SUFFICES ASSUME NEW e \in DOMAIN new.entries PROVE new.awaiting[e.rec] = {}
    BY DEF Served
  <2>1. e \in DOMAIN ix.entries /\ e.rec \in Records /\ ix.awaiting[e.rec] = {}
    BY <1>1, <1>2, IndexParts DEF Served, References
  <2> QED BY <1>2, <2>1
<1>7. BareWait(new)
  <2> SUFFICES ASSUME NEW e \in Bare(new) PROVE IsAwaitingChild(new, e)
    BY DEF BareWait
  <2>1. e \in DOMAIN ix.entries /\ e # id /\ new.entries[e] = ix.entries[e] /\ e \in Bare(ix)
    BY <1>2 DEF Bare
  <2>2. ix.entries[e].parent # Root /\ e \in ix.awaiting[ix.entries[e].parent.rec]
    BY <1>1, <2>1 DEF BareWait, IsAwaitingChild
  <2>3. ix.entries[e].parent.rec \in Records
    BY <1>1, <2>1, <2>2, IndexParts DEF Entries, Parents, References
  <2>4. e \in new.awaiting[ix.entries[e].parent.rec]
    BY <1>1, <1>2, <2>1, <2>2, <2>3 DEF Served
  <2> QED BY <2>1, <2>2, <2>4 DEF IsAwaitingChild
<1> QED BY <1>0, <1>2, <1>3, <1>5, <1>6, <1>7 DEF Tidy

(* So does a rename record, for a known file or an unknown one.             *)
LEMMA RenameRecordTidy ==
  ASSUME NEW ix \in Sound, Tidy(ix), NEW record \in UsnRecords, Alone(ix, record.self)
  PROVE  LET new == HandleFileRename(ix, record)
         IN /\ new \in Sound /\ Tidy(new)
            /\ DOMAIN new.entries = DOMAIN ix.entries \cup {record.self}
<1> DEFINE self == ResolveEntryReference(ix, record.self)
           moved == IF ix.entries[self].parent.rec # record.parent.rec
                    THEN Move(ix, self, record.parent) ELSE ix
<1>1. /\ record.self \in References /\ record.parent \in Parents
      /\ record.name \in Names /\ record.dir \in BOOLEAN
  BY DEF UsnRecords, Parents
<1>2. HandleFileRename(ix, record) =
        IF self = Nothing
        THEN Insert(ix, record.self, record.parent, record.name, record.dir)
        ELSE IF moved # ix /\ Leaf(moved.entries[self]) = record.name
        THEN moved
        ELSE Rename(moved, self, record.name)
  BY DEF HandleFileRename
<1>3. self = IF record.self \in DOMAIN ix.entries THEN record.self ELSE Nothing
  BY <1>1, AloneIsFound DEF Sound, Tidy
<1>4. record.self # Nothing
  BY <1>1, ReferencesFinite
<1> HIDE DEF self
<1>5. CASE self = Nothing
  BY <1>1, <1>2, <1>5, InsertTidy
<1>6. CASE self # Nothing
  <2>0. self = record.self /\ self \in DOMAIN ix.entries
    BY <1>3, <1>6
  <2>1. moved \in Sound /\ Tidy(moved) /\ DOMAIN moved.entries = DOMAIN ix.entries
    <3>1. CASE ix.entries[self].parent.rec # record.parent.rec
      <4>1. moved = Move(ix, self, record.parent)
        BY <3>1
      <4> HIDE DEF moved
      <4> QED BY <1>1, <2>0, <4>1, MoveTidy
    <3>2. CASE ix.entries[self].parent.rec = record.parent.rec
      <4>1. moved = ix
        BY <3>2
      <4> HIDE DEF moved
      <4> QED BY <4>1
    <3> QED BY <3>1, <3>2
  <2> HIDE DEF moved
  <2>2. LET new == Rename(moved, self, record.name)
        IN new \in Sound /\ Tidy(new) /\ DOMAIN new.entries = DOMAIN moved.entries
    BY <1>1, <2>0, <2>1, RenameTidy
  <2> QED BY <1>2, <1>6, <2>0, <2>1, <2>2
<1> QED BY <1>5, <1>6

(* A record that is no rename of what it deletes, of a file that is alone   *)
(* with its number.                                                         *)
LEMMA RecordTidy ==
  ASSUME NEW ix \in Sound, Tidy(ix), NEW record \in UsnRecords, Alone(ix, record.self),
         ~({"rename", "delete"} \subseteq record.reasons)
  PROVE  LET new == ProcessUsnRecordReasons(ix, record)
         IN /\ Tidy(new)
            /\ IF "delete" \in record.reasons
               THEN DOMAIN new.entries = DOMAIN ix.entries \ {record.self}
               ELSE DOMAIN new.entries \subseteq DOMAIN ix.entries \cup {record.self}
<1> DEFINE settled == IF "delete" \in record.reasons THEN Remove(ix, record.self)
                      ELSE IF "create" \in record.reasons
                      THEN Insert(ix, record.self, record.parent, record.name, record.dir)
                      ELSE ix
<1>1. /\ record.self \in References /\ record.parent \in Parents
      /\ record.name \in Names /\ record.dir \in BOOLEAN
  BY DEF UsnRecords, Parents
<1>2. ProcessUsnRecordReasons(ix, record) =
        IF "rename" \in record.reasons THEN HandleFileRename(settled, record) ELSE settled
  BY DEF ProcessUsnRecordReasons
<1>3. CASE "delete" \in record.reasons
  <2>1. settled = Remove(ix, record.self) /\ "rename" \notin record.reasons
    BY <1>3
  <2> HIDE DEF settled
  <2> QED BY <1>1, <1>2, <1>3, <2>1, RemoveTidy
<1>4. CASE "delete" \notin record.reasons
  <2>1. /\ settled \in Sound /\ Tidy(settled)
        /\ DOMAIN settled.entries \subseteq DOMAIN ix.entries \cup {record.self}
    <3>1. CASE "create" \in record.reasons
      <4>1. settled = Insert(ix, record.self, record.parent, record.name, record.dir)
        BY <1>4, <3>1
      <4> HIDE DEF settled
      <4> QED BY <1>1, <4>1, InsertTidy
    <3>2. CASE "create" \notin record.reasons
      <4>1. settled = ix
        BY <1>4, <3>2
      <4> HIDE DEF settled
      <4> QED BY <4>1
    <3> QED BY <3>1, <3>2
  <2>2. Alone(settled, record.self)
    BY <2>1 DEF Alone
  <2> HIDE DEF settled
  <2>3. LET new == HandleFileRename(settled, record)
        IN Tidy(new) /\ DOMAIN new.entries = DOMAIN settled.entries \cup {record.self}
    BY <2>1, <2>2, RenameRecordTidy
  <2> QED BY <1>2, <1>4, <2>1, <2>3
<1> QED BY <1>3, <1>4

(* The journal.  What a file reference names is there.                      *)
Alive(id) == fs[id.rec].live /\ fs[id.rec].seq = id.seq

Deletes(record, id) == record.self = id /\ "delete" \in record.reasons

(* Sequence numbers grow, and the delete is the last record of its file.    *)
Ordered(P) ==
    \A i, j \in DOMAIN P : i < j /\ P[i].self.rec = P[j].self.rec =>
        \/ P[i].self.seq < P[j].self.seq
        \/ P[i].self = P[j].self /\ "delete" \notin P[i].reasons

(* The create is the first one.                                             *)
CreatedFirst(P) ==
    \A i, j \in DOMAIN P : i < j /\ P[i].self = P[j].self => "create" \notin P[j].reasons

(* What a record is about lives, or its delete follows.                     *)
Covered(P) ==
    \A i \in DOMAIN P : Alive(P[i].self) \/ \E j \in DOMAIN P : j >= i /\ Deletes(P[j], P[i].self)

(* No record is about a file that is still to come.                         *)
Known(P) ==
    \A i \in DOMAIN P :
        LET file == fs[P[i].self.rec] IN
        /\ P[i].self.seq <= file.seq
        /\ P[i].self.seq = file.seq /\ "delete" \in P[i].reasons => ~file.live
        /\ P[i].self.seq = file.seq => "create" \notin file.reasons

(* A file that is deleted has no record to come.                            *)
Undeleted == \A r \in Records : "delete" \notin fs[r].reasons

JournalInv ==
    /\ Ordered(journal) /\ CreatedFirst(journal) /\ Covered(journal) /\ Known(journal)
    /\ Undeleted

(* An entry lives or its delete is yet to be applied, and no record of an   *)
(* earlier use of its number is.                                            *)
InStep(ix, P, k) ==
    \A id \in DOMAIN ix.entries :
        /\ Alive(id) \/ \E j \in DOMAIN P : j > k /\ Deletes(P[j], id)
        /\ \A j \in DOMAIN P : j > k /\ P[j].self.rec = id.rec => id.seq <= P[j].self.seq

(* The records of a journal are about references.                           *)
LEMMA AboutReferences ==
  ASSUME NEW P \in Seq(UsnRecords)
  PROVE  /\ \A i \in DOMAIN P : P[i].self \in References /\ P[i].self.seq \in Nat
         /\ DOMAIN P = 1..Len(P) /\ Len(P) \in Nat
<1>1. ASSUME NEW i \in DOMAIN P PROVE P[i].self \in References
  <2>1. P[i] \in UsnRecords
    OBVIOUS
  <2> QED BY <2>1 DEF UsnRecords
<1>2. \A id \in References : id.seq \in Nat
  BY DEF References
<1>3. DOMAIN P = 1..Len(P) /\ Len(P) \in Nat
  OBVIOUS
<1> QED BY <1>1, <1>2, <1>3

(* A reference is its record number and sequence number.                    *)
LEMMA SameReference ==
  ASSUME NEW a \in References, NEW b \in References, a.rec = b.rec, a.seq = b.seq
  PROVE  a = b
<1> QED BY DEF References

(* The next record finds its file alone with its number.                    *)
LEMMA NextIsAlone ==
  ASSUME Types, NEW ix \in Indexes, NEW P \in Seq(UsnRecords), NEW k \in 1..Len(P),
         Ordered(P), Known(P), InStep(ix, P, k - 1)
  PROVE  Alone(ix, P[k].self)
<1> SUFFICES ASSUME NEW e \in DOMAIN ix.entries, e.rec = P[k].self.rec PROVE e = P[k].self
  BY DEF Alone
<1>1. k \in DOMAIN P /\ k > k - 1 /\ DOMAIN P \subseteq Nat
  OBVIOUS
<1>2. /\ \A i \in DOMAIN P : P[i].self \in References
      /\ e \in References
  BY IndexParts, AboutReferences
<1>3. e.seq <= P[k].self.seq
  BY <1>1 DEF InStep
<1>4. P[k].self.seq <= e.seq
  <2>1. CASE Alive(e)
    BY <1>1, <2>1 DEF Alive, Known
  <2>2. CASE ~Alive(e)
    <3>1. PICK j \in DOMAIN P : j > k - 1 /\ Deletes(P[j], e)
      BY <2>2 DEF InStep
    <3>2. j = k \/ k < j
      BY <1>1, <3>1
    <3>3. CASE k < j
      BY <1>1, <1>2, <3>1, <3>3 DEF Ordered, Deletes, References
    <3>4. CASE j = k
      BY <1>2, <3>1, <3>4 DEF Deletes, References
    <3> QED BY <3>2, <3>3, <3>4
  <2> QED BY <2>1, <2>2
<1>5. P[k].self \in References /\ e \in References
  BY <1>1, <1>2
<1>6. e.seq \in Nat /\ P[k].self.seq \in Nat
  BY <1>5 DEF References
<1> QED BY <1>3, <1>4, <1>5, <1>6, SameReference

(* The record applied, the index is in step with those that are left.       *)
LEMMA NextInStep ==
  ASSUME NEW ix \in Indexes, NEW new, NEW P \in Seq(UsnRecords), NEW k \in 1..Len(P),
         Ordered(P), Covered(P), InStep(ix, P, k - 1),
         IF "delete" \in P[k].reasons
         THEN DOMAIN new.entries = DOMAIN ix.entries \ {P[k].self}
         ELSE DOMAIN new.entries \subseteq DOMAIN ix.entries \cup {P[k].self}
  PROVE  InStep(new, P, k)
<1>1. k \in DOMAIN P /\ k \in Nat /\ DOMAIN P \subseteq Nat
  OBVIOUS
<1>2. \A j \in DOMAIN P : j > k => j > k - 1
  BY <1>1
<1>3. ASSUME NEW id \in DOMAIN ix.entries, ~Deletes(P[k], id)
      PROVE  /\ Alive(id) \/ \E j \in DOMAIN P : j > k /\ Deletes(P[j], id)
             /\ \A j \in DOMAIN P : j > k /\ P[j].self.rec = id.rec => id.seq <= P[j].self.seq
  <2>1. \A j \in DOMAIN P : j > k /\ P[j].self.rec = id.rec => id.seq <= P[j].self.seq
    BY <1>2 DEF InStep
  <2>2. ASSUME ~Alive(id) PROVE \E j \in DOMAIN P : j > k /\ Deletes(P[j], id)
    <3>1. PICK j \in DOMAIN P : j > k - 1 /\ Deletes(P[j], id)
      BY <2>2 DEF InStep
    <3>2. j > k
      BY <1>1, <1>3, <3>1
    <3> QED BY <3>1, <3>2
  <2> QED BY <2>1, <2>2
<1>4. ASSUME "delete" \notin P[k].reasons
      PROVE  LET id == P[k].self IN
             /\ Alive(id) \/ \E j \in DOMAIN P : j > k /\ Deletes(P[j], id)
             /\ \A j \in DOMAIN P : j > k /\ P[j].self.rec = id.rec => id.seq <= P[j].self.seq
  <2>1. ASSUME ~Alive(P[k].self) PROVE \E j \in DOMAIN P : j > k /\ Deletes(P[j], P[k].self)
    <3>1. PICK j \in DOMAIN P : j >= k /\ Deletes(P[j], P[k].self)
      BY <1>1, <2>1 DEF Covered
    <3>2. j # k
      BY <1>4, <3>1 DEF Deletes
    <3>3. j > k
      BY <1>1, <3>1, <3>2
    <3> QED BY <3>1, <3>3
  <2>2. ASSUME NEW j \in DOMAIN P, j > k, P[j].self.rec = P[k].self.rec
        PROVE  P[k].self.seq <= P[j].self.seq
    <3>1. P[k].self.seq \in Nat /\ P[j].self.seq \in Nat
      BY <1>1, AboutReferences
    <3>2. k < j
      BY <1>1, <2>2
    <3>3. P[k].self.seq < P[j].self.seq \/ P[k].self = P[j].self
      BY <1>1, <2>2, <3>2 DEF Ordered
    <3> QED BY <3>1, <3>3
  <2> QED BY <2>1, <2>2
<1>5. CASE "delete" \in P[k].reasons
  <2>1. \A id \in DOMAIN new.entries : id \in DOMAIN ix.entries /\ ~Deletes(P[k], id)
    BY <1>5 DEF Deletes
  <2> QED BY <1>3, <2>1 DEF InStep
<1>6. CASE "delete" \notin P[k].reasons
  <2>1. \A id \in DOMAIN new.entries : ~Deletes(P[k], id) /\ (id \in DOMAIN ix.entries \/ id = P[k].self)
    BY <1>6 DEF Deletes
  <2> QED BY <1>3, <1>4, <1>6, <2>1 DEF InStep
<1> QED BY <1>5, <1>6
-----------------------------------------------------------------------------
(* The order of a buffer: directories that it creates first, all else as it *)
(* was.                                                                     *)
Split(buffer, i, parts, se, sr) ==
    LET E == parts.establish_parents
        R == parts.remaining
    IN /\ se \in [1..Len(E) -> 1..i] /\ sr \in [1..Len(R) -> 1..i]
       /\ \A k \in 1..Len(E) : E[k] = buffer[se[k]] /\ EstablishesParent(E[k])
       /\ \A k \in 1..Len(R) : R[k] = buffer[sr[k]] /\ ~EstablishesParent(R[k])
       /\ \A k, l \in 1..Len(E) : k < l => se[k] < se[l]
       /\ \A k, l \in 1..Len(R) : k < l => sr[k] < sr[l]
       /\ \A j \in 1..i : (\E k \in 1..Len(E) : se[k] = j) \/ (\E k \in 1..Len(R) : sr[k] = j)

(* One more record of the buffer.                                           *)
LEMMA SplitStep ==
  ASSUME NEW buffer \in Seq(UsnRecords), NEW i \in Nat, i + 1 <= Len(buffer),
         NEW parts \in Parts, NEW se, NEW sr, Split(buffer, i, parts, se, sr)
  PROVE  \E te, tr : Split(buffer, i + 1, Collect(parts, buffer[i + 1]), te, tr)
<1> DEFINE E == parts.establish_parents
           R == parts.remaining
           record == buffer[i + 1]
           next == Collect(parts, record)
<1>1. E \in Seq(UsnRecords) /\ R \in Seq(UsnRecords) /\ Len(E) \in Nat /\ Len(R) \in Nat
  BY DEF Parts
<1>2. /\ se \in [1..Len(E) -> 1..i] /\ sr \in [1..Len(R) -> 1..i]
      /\ \A k \in 1..Len(E) : E[k] = buffer[se[k]] /\ EstablishesParent(E[k])
      /\ \A k \in 1..Len(R) : R[k] = buffer[sr[k]] /\ ~EstablishesParent(R[k])
      /\ \A k, l \in 1..Len(E) : k < l => se[k] < se[l]
      /\ \A k, l \in 1..Len(R) : k < l => sr[k] < sr[l]
      /\ \A j \in 1..i : (\E k \in 1..Len(E) : se[k] = j) \/ (\E k \in 1..Len(R) : sr[k] = j)
  BY DEF Split
<1>3. CASE EstablishesParent(record)
  <2> DEFINE F == Append(E, record)
             te == [k \in 1..Len(E) + 1 |-> IF k = Len(E) + 1 THEN i + 1 ELSE se[k]]
  <2>1. next.establish_parents = F /\ next.remaining = R
    BY <1>3 DEF Collect, Parts
  <2>2. Len(F) = Len(E) + 1 /\ F[Len(E) + 1] = record /\ \A k \in 1..Len(E) : F[k] = E[k]
    BY <1>1
  <2> HIDE DEF E, R, F, record, next
  <2>3. te \in [1..Len(E) + 1 -> 1..i + 1] /\ sr \in [1..Len(R) -> 1..i + 1]
    <3>1. 1..i \subseteq 1..i + 1 /\ i + 1 \in 1..i + 1
      OBVIOUS
    <3>2. \A k \in 1..Len(E) + 1 : k # Len(E) + 1 => k \in 1..Len(E)
      <4>1. \A l \in Nat : \A k \in 1..l + 1 : k # l + 1 => k \in 1..l
        OBVIOUS
      <4> QED BY <1>1, <4>1, Zenon
    <3>3. \A k \in 1..Len(E) + 1 : (IF k = Len(E) + 1 THEN i + 1 ELSE se[k]) \in 1..i + 1
      BY <1>2, <3>1, <3>2
    <3>4. te \in [1..Len(E) + 1 -> 1..i + 1]
      BY <3>3
    <3>5. sr \in [1..Len(R) -> 1..i + 1]
      BY <1>2, <3>1
    <3> QED BY <3>4, <3>5
  <2>4. te[Len(E) + 1] = i + 1 /\ \A k \in 1..Len(E) : te[k] = se[k] /\ te[k] \in 1..i
    <3>1. Len(E) + 1 \in 1..Len(E) + 1
      BY <1>1
    <3>2. \A k \in 1..Len(E) : k \in 1..Len(E) + 1 /\ k # Len(E) + 1
      BY <1>1
    <3>3. \A k \in 1..Len(E) : se[k] \in 1..i
      BY <1>2
    <3>4. te[Len(E) + 1] = i + 1
      BY <3>1
    <3>5. \A k \in 1..Len(E) : te[k] = se[k]
      BY <3>2
    <3> QED BY <3>3, <3>4, <3>5
  <2> HIDE DEF te
  <2>5. \A k \in 1..Len(E) + 1 : F[k] = buffer[te[k]] /\ EstablishesParent(F[k])
    <3> TAKE k \in 1..Len(E) + 1
    <3>1. CASE k = Len(E) + 1
      BY <1>3, <2>2, <2>4, <3>1 DEF record
    <3>2. CASE k # Len(E) + 1
      <4>1. k \in 1..Len(E)
        BY <1>1, <3>2
      <4> QED BY <1>2, <2>2, <2>4, <4>1
    <3> QED BY <3>1, <3>2
  <2>6. \A k, l \in 1..Len(E) + 1 : k < l => te[k] < te[l]
    <3> SUFFICES ASSUME NEW k \in 1..Len(E) + 1, NEW l \in 1..Len(E) + 1, k < l PROVE te[k] < te[l]
      OBVIOUS
    <3>1. k \in 1..Len(E) /\ (l = Len(E) + 1 \/ l \in 1..Len(E))
      BY <1>1
    <3> QED BY <1>1, <1>2, <2>4, <3>1
  <2>7. ASSUME NEW j \in 1..i + 1
        PROVE  (\E k \in 1..Len(E) + 1 : te[k] = j) \/ (\E k \in 1..Len(R) : sr[k] = j)
    <3>1. CASE j = i + 1
      <4>1. Len(E) + 1 \in 1..Len(E) + 1
        BY <1>1
      <4> QED BY <2>4, <3>1, <4>1
    <3>2. CASE j # i + 1
      <4>1. j \in 1..i /\ \A k \in 1..Len(E) : k \in 1..Len(E) + 1
        BY <1>1, <3>2
      <4> QED BY <1>2, <2>4, <4>1
    <3> QED BY <3>1, <3>2
  <2>8. Split(buffer, i + 1, next, te, sr)
    BY <1>2, <2>1, <2>2, <2>3, <2>5, <2>6, <2>7 DEF Split, R
  <2> QED BY <2>8 DEF next, record
<1>4. CASE ~EstablishesParent(record)
  <2> DEFINE F == Append(R, record)
             tr == [k \in 1..Len(R) + 1 |-> IF k = Len(R) + 1 THEN i + 1 ELSE sr[k]]
  <2>1. next.establish_parents = E /\ next.remaining = F
    BY <1>4 DEF Collect, Parts
  <2>2. Len(F) = Len(R) + 1 /\ F[Len(R) + 1] = record /\ \A k \in 1..Len(R) : F[k] = R[k]
    BY <1>1
  <2> HIDE DEF E, R, F, record, next
  <2>3. tr \in [1..Len(R) + 1 -> 1..i + 1] /\ se \in [1..Len(E) -> 1..i + 1]
    <3>1. 1..i \subseteq 1..i + 1 /\ i + 1 \in 1..i + 1
      OBVIOUS
    <3>2. \A k \in 1..Len(R) + 1 : k # Len(R) + 1 => k \in 1..Len(R)
      BY <1>1
    <3>3. \A k \in 1..Len(R) + 1 : (IF k = Len(R) + 1 THEN i + 1 ELSE sr[k]) \in 1..i + 1
      BY <1>2, <3>1, <3>2
    <3>4. tr \in [1..Len(R) + 1 -> 1..i + 1]
      BY <3>3
    <3>5. se \in [1..Len(E) -> 1..i + 1]
      BY <1>2, <3>1
    <3> QED BY <3>4, <3>5
  <2>4. tr[Len(R) + 1] = i + 1 /\ \A k \in 1..Len(R) : tr[k] = sr[k] /\ tr[k] \in 1..i
    <3>1. Len(R) + 1 \in 1..Len(R) + 1
      BY <1>1
    <3>2. \A k \in 1..Len(R) : k \in 1..Len(R) + 1 /\ k # Len(R) + 1
      BY <1>1
    <3>3. \A k \in 1..Len(R) : sr[k] \in 1..i
      BY <1>2
    <3>4. tr[Len(R) + 1] = i + 1
      BY <3>1
    <3>5. \A k \in 1..Len(R) : tr[k] = sr[k]
      BY <3>2
    <3> QED BY <3>3, <3>4, <3>5
  <2> HIDE DEF tr
  <2>5. \A k \in 1..Len(R) + 1 : F[k] = buffer[tr[k]] /\ ~EstablishesParent(F[k])
    <3> TAKE k \in 1..Len(R) + 1
    <3>1. CASE k = Len(R) + 1
      BY <1>4, <2>2, <2>4, <3>1 DEF record
    <3>2. CASE k # Len(R) + 1
      <4>1. k \in 1..Len(R)
        BY <1>1, <3>2
      <4> QED BY <1>2, <2>2, <2>4, <4>1
    <3> QED BY <3>1, <3>2
  <2>6. \A k, l \in 1..Len(R) + 1 : k < l => tr[k] < tr[l]
    <3> SUFFICES ASSUME NEW k \in 1..Len(R) + 1, NEW l \in 1..Len(R) + 1, k < l PROVE tr[k] < tr[l]
      OBVIOUS
    <3>1. k \in 1..Len(R) /\ (l = Len(R) + 1 \/ l \in 1..Len(R))
      BY <1>1
    <3> QED BY <1>1, <1>2, <2>4, <3>1
  <2>7. ASSUME NEW j \in 1..i + 1
        PROVE  (\E k \in 1..Len(E) : se[k] = j) \/ (\E k \in 1..Len(R) + 1 : tr[k] = j)
    <3>1. CASE j = i + 1
      <4>1. Len(R) + 1 \in 1..Len(R) + 1
        BY <1>1
      <4> QED BY <2>4, <3>1, <4>1
    <3>2. CASE j # i + 1
      <4>1. j \in 1..i /\ \A k \in 1..Len(R) : k \in 1..Len(R) + 1
        BY <1>1, <3>2
      <4> QED BY <1>2, <2>4, <4>1
    <3> QED BY <3>1, <3>2
  <2>8. Split(buffer, i + 1, next, se, tr)
    BY <1>2, <2>1, <2>2, <2>3, <2>5, <2>6, <2>7 DEF Split, E
  <2> QED BY <2>8 DEF next, record
<1> QED BY <1>3, <1>4

(* The partition of a buffer splits it.                                     *)
LEMMA PartitionSplits ==
  ASSUME NEW buffer \in Seq(UsnRecords)
  PROVE  \E se, sr : Split(buffer, Len(buffer), Partition(buffer), se, sr)
<1>1. PICK p \in [0..Len(buffer) -> Parts] :
            /\ p[0] = None /\ p[Len(buffer)] = Partition(buffer)
            /\ \A i \in 1..Len(buffer) : p[i] = Collect(p[i - 1], buffer[i])
  BY PartitionSteps
<1> DEFINE n == Len(buffer)
           T == {i \in Nat : i <= n => \E se, sr : Split(buffer, i, p[i], se, sr)}
<1>2. n \in Nat
  OBVIOUS
<1>3. 0 \in T
  <2> DEFINE f == [k \in {} |-> 0]
  <2>1. 1..0 = {} /\ Len(<<>>) = 0
    OBVIOUS
  <2>2. f \in [{} -> {}]
    OBVIOUS
  <2>3. None.establish_parents = <<>> /\ None.remaining = <<>>
    BY DEF None
  <2> HIDE DEF f
  <2>4. Split(buffer, 0, None, f, f)
    BY <2>1, <2>2, <2>3 DEF Split
  <2> QED BY <1>1, <2>4
<1>4. ASSUME NEW i \in Nat, i \in T PROVE i + 1 \in T
  <2> SUFFICES ASSUME i + 1 <= n PROVE \E se, sr : Split(buffer, i + 1, p[i + 1], se, sr)
    OBVIOUS
  <2>1. i <= n /\ i + 1 \in 1..n /\ i \in 0..n /\ (i + 1) - 1 = i
    BY <1>2
  <2>2. PICK se, sr : Split(buffer, i, p[i], se, sr)
    BY <1>4, <2>1
  <2>3. p[i] \in Parts /\ p[i + 1] = Collect(p[i], buffer[i + 1])
    BY <1>1, <2>1
  <2> QED BY <2>2, <2>3, SplitStep
<1> HIDE DEF T
<1>5. Nat \subseteq T
  BY <1>3, <1>4, Upwards
<1> QED BY <1>1, <1>2, <1>5 DEF T

(* One sequence holds the records of another, in the same order but for     *)
(* directories that are created among the first n.                          *)
Shuffle(Q, P, n, f) ==
    /\ f \in [DOMAIN Q -> DOMAIN P]
    /\ \A k \in DOMAIN Q : Q[k] = P[f[k]]
    /\ \A j \in DOMAIN P : \E k \in DOMAIN Q : f[k] = j
    /\ \A k, l \in DOMAIN Q : k < l =>
          \/ f[k] < f[l]
          \/ f[l] < f[k] /\ f[k] <= n /\ EstablishesParent(Q[k]) /\ ~EstablishesParent(Q[l])

(* A sequence of three parts.                                               *)
Parted(Q, E, R, S) ==
    /\ DOMAIN Q = 1..Len(E) + Len(R) + Len(S)
    /\ Len(E) \in Nat /\ Len(R) \in Nat /\ Len(S) \in Nat
    /\ Len(E \o R) = Len(E) + Len(R)
    /\ \A k \in 1..Len(E) : Q[k] = E[k]
    /\ \A k \in 1..Len(R) : Q[Len(E) + k] = R[k]
    /\ \A k \in 1..Len(S) : Q[Len(E) + Len(R) + k] = S[k]
    /\ \A k \in 1..Len(E) + Len(R) : Q[k] = (E \o R)[k]

(* Two concatenations make one.                                             *)
LEMMA ThreeParts ==
  ASSUME NEW X, NEW E \in Seq(X), NEW R \in Seq(X), NEW S \in Seq(X)
  PROVE  (E \o R) \o S \in Seq(X) /\ Parted((E \o R) \o S, E, R, S)
<1> DEFINE O == E \o R
<1>1. Len(E) \in Nat /\ Len(R) \in Nat /\ Len(S) \in Nat
  OBVIOUS
<1>2. /\ O \in Seq(X) /\ Len(O) = Len(E) + Len(R)
      /\ \A k \in 1..Len(E) : O[k] = E[k]
      /\ \A k \in 1..Len(R) : O[Len(E) + k] = R[k]
  OBVIOUS
<1> HIDE DEF O
<1>3. /\ O \o S \in Seq(X) /\ Len(O \o S) = Len(O) + Len(S)
      /\ \A k \in 1..Len(O) : (O \o S)[k] = O[k]
      /\ \A k \in 1..Len(S) : (O \o S)[Len(O) + k] = S[k]
  <2>1. O \in Seq(X)
    BY <1>2
  <2> HIDE <1>1, <1>2
  <2> QED BY <2>1
<1>4. DOMAIN (O \o S) = 1..Len(O) + Len(S)
  BY <1>3
<1> DEFINE Q == O \o S
<1> HIDE DEF Q
<1>5. \A k \in 1..Len(E) : k \in 1..Len(O)
  BY <1>1, <1>2
<1>6. \A k \in 1..Len(R) : Len(E) + k \in 1..Len(O)
  BY <1>1, <1>2
<1>7. Parted(Q, E, R, S)
  <2>1. DOMAIN Q = 1..Len(E) + Len(R) + Len(S)
    BY <1>1, <1>2, <1>4 DEF Q
  <2>2. \A k \in 1..Len(O) : Q[k] = O[k]
    BY <1>3 DEF Q
  <2>3. \A k \in 1..Len(E) : Q[k] = E[k]
    BY <1>2, <1>5, <2>2
  <2>4. \A k \in 1..Len(R) : Q[Len(E) + k] = R[k]
    BY <1>2, <1>6, <2>2
  <2>5. \A k \in 1..Len(S) : Q[Len(E) + Len(R) + k] = S[k]
    BY <1>2, <1>3 DEF Q
  <2> QED BY <1>1, <1>2, <2>1, <2>2, <2>3, <2>4, <2>5 DEF Parted, O
<1> QED BY <1>3, <1>7 DEF O, Q

(* A journal and the buffer taken from its front.                           *)
LEMMA Slices ==
  ASSUME NEW X, NEW P \in Seq(X), NEW n \in 0..Len(P)
  PROVE  /\ SubSeq(P, 1, n) \in Seq(X) /\ Len(SubSeq(P, 1, n)) = n
         /\ \A j \in 1..n : SubSeq(P, 1, n)[j] = P[j]
         /\ SubSeq(P, n + 1, Len(P)) \in Seq(X) /\ Len(SubSeq(P, n + 1, Len(P))) = Len(P) - n
         /\ \A j \in 1..(Len(P) - n) : SubSeq(P, n + 1, Len(P))[j] = P[n + j]
<1> DEFINE N == Len(P)
<1>1. N \in Nat /\ n \in Nat /\ n <= N
  OBVIOUS
<1>2. SubSeq(P, 1, n) \in Seq(X) /\ Len(SubSeq(P, 1, n)) = n
  BY <1>1
<1>3. \A j \in 1..n : SubSeq(P, 1, n)[j] = P[j]
  BY <1>1
<1>4. SubSeq(P, n + 1, N) \in Seq(X)
  BY <1>1
<1>5. Len(SubSeq(P, n + 1, N)) = N - n
  <2>1. Len(SubSeq(P, n + 1, N)) = IF n + 1 <= N THEN N - (n + 1) + 1 ELSE 0
    BY <1>1
  <2> HIDE DEF N
  <2> QED BY <1>1, <2>1
<1>6. ASSUME NEW j \in 1..(N - n) PROVE SubSeq(P, n + 1, N)[j] = P[n + j]
  <2>1. j \in 1..(N - (n + 1) + 1) /\ (n + 1) + j - 1 = n + j
    <3> HIDE DEF N
    <3> QED BY <1>1
  <2>2. SubSeq(P, n + 1, N)[j] = P[(n + 1) + j - 1]
    BY <1>1, <2>1
  <2> QED BY <2>1, <2>2
<1> QED BY <1>2, <1>3, <1>4, <1>5, <1>6

(* The order of the buffer and the rest of the journal shuffle the journal. *)
LEMMA ShuffleExists ==
  ASSUME NEW P \in Seq(UsnRecords), NEW n \in 1..Len(P)
  PROVE  LET parts == Partition(SubSeq(P, 1, n))
             order == parts.establish_parents \o parts.remaining
         IN \E f : /\ Shuffle(order \o SubSeq(P, n + 1, Len(P)), P, n, f)
                   /\ \A k \in 1..Len(order) : f[k] \in 1..n
<1> DEFINE buffer == SubSeq(P, 1, n)
           parts == Partition(buffer)
           E == parts.establish_parents
           R == parts.remaining
           S == SubSeq(P, n + 1, Len(P))
           Q == (E \o R) \o S
           N == Len(P)
<1>1. N \in Nat /\ n \in Nat /\ n <= N /\ DOMAIN P = 1..N
  OBVIOUS
<1>2. /\ buffer \in Seq(UsnRecords) /\ Len(buffer) = n
      /\ \A j \in 1..n : buffer[j] = P[j]
  BY Slices
<1>3. /\ S \in Seq(UsnRecords) /\ Len(S) = N - n
      /\ \A j \in 1..(N - n) : S[j] = P[n + j]
  BY Slices
<1> HIDE DEF buffer, S, N
<1>4. E \in Seq(UsnRecords) /\ R \in Seq(UsnRecords)
  BY <1>2, PartitionTypes DEF Parts
<1>5. PICK se, sr : Split(buffer, n, parts, se, sr)
  BY <1>2, PartitionSplits
<1>6. /\ se \in [1..Len(E) -> 1..n] /\ sr \in [1..Len(R) -> 1..n]
      /\ \A k \in 1..Len(E) : E[k] = buffer[se[k]] /\ EstablishesParent(E[k])
      /\ \A k \in 1..Len(R) : R[k] = buffer[sr[k]] /\ ~EstablishesParent(R[k])
      /\ \A k, l \in 1..Len(E) : k < l => se[k] < se[l]
      /\ \A k, l \in 1..Len(R) : k < l => sr[k] < sr[l]
      /\ \A j \in 1..n : (\E k \in 1..Len(E) : se[k] = j) \/ (\E k \in 1..Len(R) : sr[k] = j)
  BY <1>5 DEF Split
<1> HIDE DEF parts
<1> DEFINE e == Len(E)
           r == Len(R)
<1>7. /\ e \in Nat /\ r \in Nat /\ Len(E \o R) = e + r /\ Len(S) = N - n
      /\ DOMAIN Q = 1..e + r + (N - n)
      /\ \A k \in 1..e : Q[k] = E[k]
      /\ \A k \in 1..r : Q[e + k] = R[k]
      /\ \A k \in 1..(N - n) : Q[e + r + k] = S[k]
  <2> HIDE DEF E, R
  <2>1. Parted(Q, E, R, S)
    BY <1>3, <1>4, ThreeParts
  <2> HIDE DEF Q
  <2> QED BY <1>3, <2>1 DEF Parted
<1> HIDE DEF E, R, Q
<1>8. /\ se \in [1..e -> 1..n] /\ sr \in [1..r -> 1..n]
      /\ \A k \in 1..e : Q[k] = P[se[k]] /\ EstablishesParent(Q[k])
      /\ \A k \in 1..r : Q[e + k] = P[sr[k]] /\ ~EstablishesParent(Q[e + k])
      /\ \A k \in 1..(N - n) : Q[e + r + k] = P[n + k]
  <2>1. se \in [1..e -> 1..n] /\ sr \in [1..r -> 1..n]
    BY <1>6
  <2>2. ASSUME NEW k \in 1..e PROVE Q[k] = P[se[k]] /\ EstablishesParent(Q[k])
    <3>1. se[k] \in 1..n
      BY <2>1
    <3>2. Q[k] = E[k] /\ E[k] = buffer[se[k]] /\ EstablishesParent(E[k])
      BY <1>6, <1>7
    <3> QED BY <1>2, <3>1, <3>2
  <2>3. ASSUME NEW k \in 1..r PROVE Q[e + k] = P[sr[k]] /\ ~EstablishesParent(Q[e + k])
    <3>1. sr[k] \in 1..n
      BY <2>1
    <3>2. R[k] = buffer[sr[k]] /\ ~EstablishesParent(R[k])
      BY <1>6
    <3>3. Q[e + k] = R[k]
      BY <1>7, Zenon
    <3>4. buffer[sr[k]] = P[sr[k]]
      BY <1>2, <3>1
    <3> HIDE DEF e
    <3> QED BY <3>2, <3>3, <3>4
  <2>4. \A k \in 1..(N - n) : Q[e + r + k] = P[n + k]
    <3>1. \A k \in 1..(N - n) : Q[e + r + k] = S[k]
      BY <1>7, Zenon
    <3>2. \A k \in 1..(N - n) : S[k] = P[n + k]
      BY <1>3, Zenon
    <3> QED BY <3>1, <3>2, Zenon
  <2> QED BY <2>1, <2>2, <2>3, <2>4
<1>9. /\ \A k, l \in 1..e : k < l => se[k] < se[l]
      /\ \A k, l \in 1..r : k < l => sr[k] < sr[l]
      /\ \A j \in 1..n : (\E k \in 1..e : se[k] = j) \/ (\E k \in 1..r : sr[k] = j)
  BY <1>6
<1> HIDE DEF e, r
<1> DEFINE D == 1..e + r + (N - n)
           f == [k \in D |-> IF k \in 1..e THEN se[k]
                             ELSE IF k - e \in 1..r THEN sr[k - e] ELSE n + (k - (e + r))]
<1>10. ASSUME NEW k \in D
       PROVE  \/ k \in 1..e /\ f[k] = se[k] /\ se[k] \in 1..n
              \/ /\ k \notin 1..e /\ k - e \in 1..r /\ f[k] = sr[k - e] /\ sr[k - e] \in 1..n
                 /\ k = e + (k - e)
              \/ /\ k > e + r /\ k - (e + r) \in 1..(N - n) /\ f[k] = n + (k - (e + r))
                 /\ k = e + r + (k - (e + r))
  <2>1. k \in Nat /\ k >= 1 /\ k <= e + r + (N - n)
    BY <1>1, <1>7
  <2>2. CASE k \in 1..e
    <3>1. f[k] = se[k] /\ se[k] \in 1..n
      BY <1>8, <2>2
    <3> QED BY <2>2, <3>1
  <2>3. CASE k \notin 1..e /\ k - e \in 1..r
    <3>1. f[k] = sr[k - e] /\ sr[k - e] \in 1..n
      BY <1>8, <2>3
    <3>2. k = e + (k - e)
      BY <1>7, <2>1
    <3> QED BY <2>3, <3>1, <3>2
  <2>4. CASE k \notin 1..e /\ k - e \notin 1..r
    <3>1. f[k] = n + (k - (e + r))
      BY <2>4
    <3>2. k > e + r /\ k - (e + r) \in 1..(N - n) /\ k = e + r + (k - (e + r))
      BY <1>1, <1>7, <2>1, <2>4
    <3> QED BY <3>1, <3>2
  <2> QED BY <2>2, <2>3, <2>4
<1>11. /\ \A k \in 1..e : k \in D /\ f[k] = se[k]
       /\ \A k \in 1..r : e + k \in D /\ f[e + k] = sr[k]
       /\ \A k \in 1..(N - n) : e + r + k \in D /\ f[e + r + k] = n + k
  <2>1. \A k \in 1..e : k \in D
    BY <1>1, <1>7
  <2>2. \A k \in 1..r : e + k \in D /\ e + k \notin 1..e /\ (e + k) - e = k
    BY <1>1, <1>7
  <2>3. \A k \in 1..(N - n) :
          /\ e + r + k \in D /\ e + r + k \notin 1..e /\ (e + r + k) - e \notin 1..r
          /\ (e + r + k) - (e + r) = k
    BY <1>1, <1>7
  <2>4. \A k \in 1..e : f[k] = se[k]
    BY <2>1
  <2>5. \A k \in 1..r : f[e + k] = sr[k]
    BY <2>2
  <2>6. \A k \in 1..(N - n) : f[e + r + k] = n + k
    BY <2>3
  <2> QED BY <2>1, <2>2, <2>3, <2>4, <2>5, <2>6
<1>12. f = [k \in D |-> f[k]]
  OBVIOUS
<1> HIDE DEF f
<1>13. \A k \in D : f[k] \in 1..N
  BY <1>1, <1>10
<1>14. \A k \in D : Q[k] = P[f[k]]
  <2> TAKE k \in D
  <2>1. CASE k \in 1..e /\ f[k] = se[k]
    BY <1>8, <2>1
  <2>2. CASE k - e \in 1..r /\ f[k] = sr[k - e] /\ k = e + (k - e)
    BY <1>8, <2>2
  <2>3. CASE k - (e + r) \in 1..(N - n) /\ f[k] = n + (k - (e + r)) /\ k = e + r + (k - (e + r))
    BY <1>8, <2>3
  <2> QED BY <1>10, <2>1, <2>2, <2>3
<1>15. ASSUME NEW j \in 1..N PROVE \E k \in D : f[k] = j
  <2>1. CASE j <= n
    <3>1. j \in 1..n
      BY <1>1, <2>1
    <3> QED BY <1>9, <1>11, <3>1
  <2>2. CASE ~(j <= n)
    <3>1. j - n \in 1..(N - n) /\ n + (j - n) = j
      BY <1>1, <2>2
    <3> QED BY <1>11, <3>1
  <2> QED BY <2>1, <2>2
<1>16. ASSUME NEW k \in D, NEW l \in D, k < l
       PROVE  \/ f[k] < f[l]
              \/ f[l] < f[k] /\ f[k] <= n /\ EstablishesParent(Q[k]) /\ ~EstablishesParent(Q[l])
  <2>0. k \in Nat /\ l \in Nat
    OBVIOUS
  <2>1. CASE l \in 1..e
    <3>1. k \in 1..e
      BY <1>7, <1>16, <2>0, <2>1
    <3> QED BY <1>9, <1>11, <1>16, <2>1, <3>1
  <2>2. CASE l \notin 1..e /\ l - e \in 1..r /\ f[l] = sr[l - e] /\ sr[l - e] \in 1..n /\ l = e + (l - e)
    <3>1. CASE k \in 1..e
      <4>1. f[k] = se[k] /\ f[k] \in 1..n /\ EstablishesParent(Q[k])
        BY <1>8, <1>11, <3>1
      <4>2. f[l] \in 1..n /\ ~EstablishesParent(Q[l])
        BY <1>8, <2>2
      <4>3. f[k] # f[l]
        <5>1. Q[k] = P[f[k]] /\ Q[l] = P[f[l]]
          BY <1>14
        <5> SUFFICES ASSUME f[k] = f[l] PROVE FALSE
          OBVIOUS
        <5>2. Q[k] = Q[l]
          BY <5>1, Zenon
        <5> QED BY <4>1, <4>2, <5>2, Zenon
      <4> QED BY <1>1, <4>1, <4>2, <4>3
    <3>2. CASE k \notin 1..e
      <4>1. k - e \in 1..r /\ f[k] = sr[k - e]
        BY <1>7, <1>10, <1>16, <2>0, <2>2, <3>2
      <4>2. k - e < l - e
        BY <1>7, <1>16, <2>0
      <4> QED BY <1>9, <2>2, <4>1, <4>2
    <3> QED BY <3>1, <3>2
  <2>3. CASE l > e + r /\ l - (e + r) \in 1..(N - n) /\ f[l] = n + (l - (e + r))
    <3>1. f[l] > n /\ f[l] \in Nat
      BY <1>1, <2>3
    <3>2. CASE f[k] \in 1..n
      BY <1>1, <3>1, <3>2
    <3>3. CASE k - (e + r) \in 1..(N - n) /\ f[k] = n + (k - (e + r))
      BY <1>1, <1>7, <1>16, <2>0, <2>3, <3>3
    <3> QED BY <1>10, <3>2, <3>3
  <2> QED BY <1>10, <2>1, <2>2, <2>3
<1>17. \A k \in 1..Len(E \o R) : f[k] \in 1..n
  <2> TAKE k \in 1..Len(E \o R)
  <2>1. k \in D /\ ~(k > e + r)
    BY <1>1, <1>7
  <2> QED BY <1>10, <2>1
<1>18. Shuffle(Q, P, n, f)
  <2>1. DOMAIN Q = D /\ DOMAIN P = 1..N
    BY <1>1, <1>7 DEF N
  <2>2. f \in [D -> 1..N]
    BY <1>12, <1>13
  <2> HIDE DEF D
  <2> QED BY <1>14, <1>15, <1>16, <2>1, <2>2 DEF Shuffle
<1> QED BY <1>17, <1>18 DEF Q, E, R, S, parts, buffer

(* Nothing in the buffer that the code is known to misread.                 *)
Readable(P, n) ==
    /\ \A i \in 1..n : ~({"rename", "delete"} \subseteq P[i].reasons)
    /\ \A i, j \in 1..n :
          i < j /\ "delete" \in P[i].reasons /\ EstablishesParent(P[j])
              => P[i].self.rec # P[j].self.rec /\ P[i].self.rec # P[j].parent.rec

(* That is what Misread excludes.                                           *)
LEMMA ReadableBuffer ==
  ASSUME NEW P \in Seq(UsnRecords), NEW n \in 0..Len(P), ~Misread(SubSeq(P, 1, n))
  PROVE  Readable(P, n)
<1> DEFINE buffer == SubSeq(P, 1, n)
<1>1. buffer \in Seq(UsnRecords) /\ Len(buffer) = n /\ \A j \in 1..n : buffer[j] = P[j]
  BY Slices
<1>2. DOMAIN buffer = 1..n
  BY <1>1
<1>3. ~Misread(buffer)
  OBVIOUS
<1> HIDE DEF buffer
<1>4. /\ \A i \in 1..n : ~({"rename", "delete"} \subseteq buffer[i].reasons)
      /\ \A i, j \in 1..n :
            i < j /\ "delete" \in buffer[i].reasons /\ EstablishesParent(buffer[j])
                => buffer[i].self.rec # buffer[j].self.rec /\ buffer[i].self.rec # buffer[j].parent.rec
  BY <1>2, <1>3 DEF Misread
<1>5. \A i \in 1..n : buffer[i] = P[i]
  BY <1>1
<1> HIDE <1>1, <1>2, <1>3
<1> QED BY <1>4, <1>5 DEF Readable

(* Two directories of one number are created in the order of the journal.   *)
LEMMA SwappedAreOthers ==
  ASSUME Types, NEW P \in Seq(UsnRecords), NEW n \in 0..Len(P), Readable(P, n),
         Ordered(P), CreatedFirst(P), Covered(P), Known(P),
         NEW i \in DOMAIN P, NEW j \in DOMAIN P, i < j, j <= n, EstablishesParent(P[j])
  PROVE  P[i].self.rec # P[j].self.rec
<1> SUFFICES ASSUME P[i].self.rec = P[j].self.rec PROVE FALSE
  OBVIOUS
<1>1. /\ \A k \in DOMAIN P : P[k].self \in References /\ P[k].self.seq \in Nat
      /\ DOMAIN P = 1..Len(P) /\ Len(P) \in Nat /\ n \in Nat
  BY AboutReferences
<1>2. P[i].self # P[j].self
  BY DEF CreatedFirst, EstablishesParent
<1>3. P[i].self.seq < P[j].self.seq
  BY <1>2 DEF Ordered
<1>4. ~Alive(P[i].self)
  <2> SUFFICES ASSUME Alive(P[i].self) PROVE FALSE
    OBVIOUS
  <2>1. fs[P[j].self.rec].seq = P[i].self.seq /\ P[j].self.seq <= fs[P[j].self.rec].seq
    BY DEF Alive, Known
  <2>2. P[i].self.seq \in Nat /\ P[j].self.seq \in Nat
    BY <1>1
  <2> QED BY <1>3, <2>1, <2>2
<1>5. PICK m \in DOMAIN P : m >= i /\ Deletes(P[m], P[i].self)
  BY <1>4 DEF Covered
<1>6. P[m].self = P[i].self /\ "delete" \in P[m].reasons
  BY <1>5 DEF Deletes
<1>7. m # j
  BY <1>2, <1>6
<1>8. ~(j < m)
  <2> SUFFICES ASSUME j < m PROVE FALSE
    OBVIOUS
  <2>1. P[j].self.seq < P[m].self.seq \/ P[j].self = P[m].self
    BY <1>6 DEF Ordered
  <2>2. P[i].self.seq \in Nat /\ P[j].self.seq \in Nat
    BY <1>1
  <2> QED BY <1>2, <1>3, <1>6, <2>1, <2>2
<1>9. m \in 1..n /\ j \in 1..n /\ m < j
  BY <1>1, <1>5, <1>7, <1>8
<1> QED BY <1>6, <1>9 DEF Readable

(* What the invariants of the journal say holds in the order in which a     *)
(* buffer is applied.                                                       *)
LEMMA ShuffledInv ==
  ASSUME Types, NEW P \in Seq(UsnRecords), NEW n \in 0..Len(P), Readable(P, n),
         Ordered(P), CreatedFirst(P), Covered(P), Known(P),
         NEW Q \in Seq(UsnRecords), NEW f, Shuffle(Q, P, n, f)
  PROVE  /\ Ordered(Q) /\ Covered(Q) /\ Known(Q)
         /\ \A ix : InStep(ix, P, 0) => InStep(ix, Q, 0)
<1>1. /\ f \in [DOMAIN Q -> DOMAIN P]
      /\ \A k \in DOMAIN Q : Q[k] = P[f[k]]
      /\ \A j \in DOMAIN P : \E k \in DOMAIN Q : f[k] = j
      /\ \A k, l \in DOMAIN Q : k < l =>
            \/ f[k] < f[l]
            \/ f[l] < f[k] /\ f[k] <= n /\ EstablishesParent(Q[k]) /\ ~EstablishesParent(Q[l])
  BY DEF Shuffle
<1>2. DOMAIN P \subseteq Nat \ {0} /\ DOMAIN Q \subseteq Nat \ {0}
  OBVIOUS
<1>3. ASSUME NEW k \in DOMAIN Q PROVE f[k] \in DOMAIN P /\ Q[k] = P[f[k]]
  BY <1>1
<1>4. Ordered(Q)
  <2> SUFFICES ASSUME NEW k \in DOMAIN Q, NEW l \in DOMAIN Q, k < l, Q[k].self.rec = Q[l].self.rec
               PROVE  \/ Q[k].self.seq < Q[l].self.seq
                      \/ Q[k].self = Q[l].self /\ "delete" \notin Q[k].reasons
    BY DEF Ordered
  <2>1. /\ f[k] \in DOMAIN P /\ Q[k] = P[f[k]]
        /\ f[l] \in DOMAIN P /\ Q[l] = P[f[l]]
    BY <1>3
  <2>2. CASE f[k] < f[l]
    BY <2>1, <2>2 DEF Ordered
  <2>3. CASE ~(f[k] < f[l])
    <3>1. f[l] < f[k] /\ f[k] <= n /\ EstablishesParent(Q[k])
      BY <1>1, <2>3
    <3>2. P[f[l]].self.rec # P[f[k]].self.rec
      BY <2>1, <3>1, SwappedAreOthers
    <3> QED BY <2>1, <3>2
  <2> QED BY <2>2, <2>3
<1>5. Covered(Q)
  <2> SUFFICES ASSUME NEW k \in DOMAIN Q, ~Alive(Q[k].self)
               PROVE  \E l \in DOMAIN Q : l >= k /\ Deletes(Q[l], Q[k].self)
    BY DEF Covered
  <2>1. f[k] \in DOMAIN P /\ Q[k] = P[f[k]]
    BY <1>3
  <2>2. PICK m \in DOMAIN P : m >= f[k] /\ Deletes(P[m], P[f[k]].self)
    BY <2>1 DEF Covered
  <2>3. PICK l \in DOMAIN Q : f[l] = m
    BY <1>1
  <2>4. Deletes(Q[l], Q[k].self)
    BY <1>3, <2>1, <2>2, <2>3
  <2>5. ~(l < k)
    <3> SUFFICES ASSUME l < k PROVE FALSE
      OBVIOUS
    <3>1. EstablishesParent(P[m]) /\ f[k] < m
      BY <1>1, <1>2, <1>3, <2>1, <2>2, <2>3
    <3> QED BY <2>1, <2>2, <3>1 DEF CreatedFirst, Deletes, EstablishesParent
  <2>6. l >= k
    BY <1>2, <2>5
  <2> QED BY <2>4, <2>6
<1>6. Known(Q)
  BY <1>3 DEF Known
<1>7. ASSUME NEW ix, InStep(ix, P, 0) PROVE InStep(ix, Q, 0)
  <2> SUFFICES ASSUME NEW id \in DOMAIN ix.entries
               PROVE  /\ Alive(id) \/ \E j \in DOMAIN Q : j > 0 /\ Deletes(Q[j], id)
                      /\ \A j \in DOMAIN Q : j > 0 /\ Q[j].self.rec = id.rec => id.seq <= Q[j].self.seq
    BY DEF InStep
  <2>1. ASSUME ~Alive(id) PROVE \E j \in DOMAIN Q : j > 0 /\ Deletes(Q[j], id)
    <3>1. PICK m \in DOMAIN P : m > 0 /\ Deletes(P[m], id)
      BY <1>7, <2>1 DEF InStep
    <3>2. PICK l \in DOMAIN Q : f[l] = m
      BY <1>1
    <3>3. l > 0 /\ Deletes(Q[l], id)
      BY <1>2, <1>3, <3>1, <3>2
    <3> QED BY <3>3
  <2>2. ASSUME NEW j \in DOMAIN Q, Q[j].self.rec = id.rec PROVE id.seq <= Q[j].self.seq
    <3>1. f[j] \in DOMAIN P /\ f[j] > 0 /\ Q[j] = P[f[j]]
      BY <1>2, <1>3
    <3> QED BY <1>7, <2>2, <3>1 DEF InStep
  <2> QED BY <2>1, <2>2
<1> QED BY <1>4, <1>5, <1>6, <1>7

(* A suffix of the journal.                                                 *)
LEMMA SuffixInv ==
  ASSUME NEW P \in Seq(UsnRecords), NEW n \in 0..Len(P), NEW S \in Seq(UsnRecords),
         Len(S) = Len(P) - n, \A j \in 1..(Len(P) - n) : S[j] = P[n + j],
         Ordered(P), CreatedFirst(P), Covered(P), Known(P)
  PROVE  Ordered(S) /\ CreatedFirst(S) /\ Covered(S) /\ Known(S)
<1>1. DOMAIN P = 1..Len(P) /\ DOMAIN S = 1..(Len(P) - n) /\ Len(P) \in Nat /\ n \in Nat
  OBVIOUS
<1>2. \A j \in DOMAIN S : j \in Nat /\ n + j \in DOMAIN P /\ S[j] = P[n + j]
  BY <1>1
<1>3. \A i, j \in DOMAIN S : i < j => n + i < n + j
  BY <1>1
<1>4. Ordered(S)
  BY <1>2, <1>3 DEF Ordered
<1>5. CreatedFirst(S)
  BY <1>2, <1>3 DEF CreatedFirst
<1>6. Covered(S)
  <2> SUFFICES ASSUME NEW i \in DOMAIN S, ~Alive(S[i].self)
               PROVE  \E j \in DOMAIN S : j >= i /\ Deletes(S[j], S[i].self)
    BY DEF Covered
  <2>1. PICK m \in DOMAIN P : m >= n + i /\ Deletes(P[m], S[i].self)
    BY <1>2 DEF Covered
  <2>2. m - n \in DOMAIN S /\ m - n >= i /\ n + (m - n) = m
    BY <1>1, <2>1
  <2>3. S[m - n] = P[m]
    BY <1>2, <2>2
  <2> QED BY <2>1, <2>2, <2>3
<1>7. Known(S)
  BY <1>2 DEF Known
<1> QED BY <1>4, <1>5, <1>6, <1>7

(* Intervals from 1 with one end have the other in common.                  *)
LEMMA SameInterval ==
  ASSUME NEW a \in Nat, NEW b \in Nat, 1..a = 1..b
  PROVE  a = b
<1>1. a = 0 \/ a \in 1..a
  OBVIOUS
<1>2. b = 0 \/ b \in 1..b
  OBVIOUS
<1>3. a <= b
  BY <1>1
<1>4. b <= a
  BY <1>2
<1> QED BY <1>3, <1>4

(* A buffer applied: the records that are left, in the order in which the   *)
(* code takes them, and the indexes between them.                           *)
Run(P, n, Q, f, m, a) ==
    /\ Q \in Seq(UsnRecords) /\ Shuffle(Q, P, n, f)
    /\ m \in 0..Len(Q) /\ Len(Q) = m + (Len(P) - n)
    /\ \A k \in 1..(Len(P) - n) : Q[m + k] = P[n + k]
    /\ a \in [0..m -> Applied]
    /\ \A i \in 1..m : /\ a[i].index = ProcessUsnRecordReasons(a[i - 1].index, Q[i])
                       /\ a[i].astray = (a[i - 1].astray \/ Astray(a[i].index))
                       /\ ~({"rename", "delete"} \subseteq Q[i].reasons)

(* The fold of a step over the records of a buffer is a run of them.        *)
LEMMA BufferRuns ==
  ASSUME NEW P \in Seq(UsnRecords), NEW n \in 1..Len(P), Readable(P, n),
         NEW ix \in Sound, NEW amiss \in BOOLEAN
  PROVE  LET parts == Partition(SubSeq(P, 1, n))
             order == parts.establish_parents \o parts.remaining
             applied == Seqs!FoldLeft(ApplyOneUsnRecord, [index |-> ix, astray |-> amiss], order)
         IN \E Q, f, m, a : /\ Run(P, n, Q, f, m, a)
                            /\ a[0] = [index |-> ix, astray |-> amiss] /\ a[m] = applied
<1> SUFFICES ASSUME NEW order, order = Partition(SubSeq(P, 1, n)).establish_parents
                                         \o Partition(SubSeq(P, 1, n)).remaining,
                    NEW applied,
                    applied = Seqs!FoldLeft(ApplyOneUsnRecord, [index |-> ix, astray |-> amiss], order)
             PROVE  \E Q, f, m, a : /\ Run(P, n, Q, f, m, a)
                                    /\ a[0] = [index |-> ix, astray |-> amiss] /\ a[m] = applied
  BY Zenon
<1> DEFINE buffer == SubSeq(P, 1, n)
           E == Partition(buffer).establish_parents
           R == Partition(buffer).remaining
           S == SubSeq(P, n + 1, Len(P))
           Q == order \o S
           m == Len(order)
<1>0. n \in 0..Len(P)
  OBVIOUS
<1>1. buffer \in Seq(UsnRecords) /\ S \in Seq(UsnRecords)
  BY <1>0, Slices
<1>2. PICK f : Shuffle(Q, P, n, f) /\ \A k \in 1..m : f[k] \in 1..n
  BY ShuffleExists
<1>3. order = E \o R
  OBVIOUS
<1> HIDE DEF buffer, S
<1>4. E \in Seq(UsnRecords) /\ R \in Seq(UsnRecords)
  BY <1>1, PartitionTypes DEF Parts
<1> HIDE DEF E, R
<1>5. Q \in Seq(UsnRecords) /\ Parted(Q, E, R, S) /\ order \in Seq(UsnRecords)
  <2>1. (E \o R) \o S \in Seq(UsnRecords) /\ Parted((E \o R) \o S, E, R, S) /\ E \o R \in Seq(UsnRecords)
    BY <1>1, <1>4, ThreeParts
  <2> QED BY <1>3, <2>1, Zenon
<1> HIDE DEF Q
<1>6. /\ m \in Nat /\ Len(S) \in Nat
      /\ DOMAIN Q = 1..m + Len(S) /\ Len(Q) = m + Len(S)
      /\ \A k \in 1..m : Q[k] = order[k]
      /\ \A k \in 1..Len(S) : Q[m + k] = S[k]
  <2>1. m = Len(E) + Len(R) /\ m \in Nat /\ Len(S) \in Nat
    <3>1. Len(E \o R) = Len(E) + Len(R) /\ Len(E) \in Nat /\ Len(R) \in Nat /\ Len(S) \in Nat
      BY <1>5, Zenon DEF Parted
    <3>2. m = Len(E \o R)
      BY <1>3, Zenon
    <3> HIDE DEF m
    <3> QED BY <3>1, <3>2
  <2>2. DOMAIN Q = 1..m + Len(S) /\ \A k \in 1..Len(S) : Q[m + k] = S[k]
    BY <1>5, <2>1 DEF Parted
  <2>3. \A k \in 1..m : Q[k] = order[k]
    BY <1>3, <1>5, <2>1 DEF Parted
  <2>4. Len(Q) = m + Len(S)
    <3>1. DOMAIN Q = 1..Len(Q) /\ Len(Q) \in Nat
      BY <1>5
    <3> HIDE DEF m
    <3>2. m + Len(S) \in Nat
      BY <2>1
    <3>3. 1..Len(Q) = 1..m + Len(S)
      BY <2>2, <3>1
    <3> QED BY <3>1, <3>2, <3>3, SameInterval
  <2> QED BY <2>1, <2>2, <2>3, <2>4
<1>15. order \in Seq(UsnRecords) /\ m = Len(order)
  BY <1>5
<1> HIDE DEF m
<1>8. \A k \in 1..m : ~({"rename", "delete"} \subseteq order[k].reasons)
  <2> TAKE k \in 1..m
  <2>1. Q[k] = P[f[k]] /\ f[k] \in 1..n
    <3>1. k \in DOMAIN Q
      BY <1>6
    <3> QED BY <1>2, <3>1 DEF Shuffle
  <2>2. ~({"rename", "delete"} \subseteq P[f[k]].reasons)
    BY <2>1 DEF Readable
  <2>3. Q[k] = order[k]
    BY <1>6
  <2> QED BY <2>1, <2>2, <2>3
<1>9. PICK a \in [0..m -> Applied] :
         /\ a[0] = [index |-> ix, astray |-> amiss]
         /\ a[m] = applied
         /\ \A i \in 1..m : a[i] = ApplyOneUsnRecord(a[i - 1], order[i])
  <2>1. \E a \in [0..Len(order) -> Applied] :
            /\ a[0] = [index |-> ix, astray |-> amiss]
            /\ a[Len(order)] = applied
            /\ \A i \in 1..Len(order) : a[i] = ApplyOneUsnRecord(a[i - 1], order[i])
    <3>1. \E a \in [0..Len(order) -> Applied] :
            /\ a[0] = [index |-> ix, astray |-> amiss]
            /\ a[Len(order)] = Seqs!FoldLeft(ApplyOneUsnRecord, [index |-> ix, astray |-> amiss], order)
            /\ \A i \in 1..Len(order) : a[i] = ApplyOneUsnRecord(a[i - 1], order[i])
      BY <1>15, ApplySteps
    <3> QED BY <3>1
  <2>2. Len(order) = m
    BY <1>15
  <2> QED BY <2>1, <2>2
<1>10. m \in 0..Len(Q) /\ Len(Q) = m + (Len(P) - n) /\ \A k \in 1..(Len(P) - n) : Q[m + k] = P[n + k]
  <2>1. Len(S) = Len(P) - n /\ \A k \in 1..(Len(P) - n) : S[k] = P[n + k]
    BY <1>0, Slices DEF S
  <2>2. Len(Q) \in Nat /\ m <= Len(Q)
    BY <1>6
  <2>3. m \in 0..Len(Q) /\ Len(Q) = m + (Len(P) - n)
    BY <1>6, <2>1, <2>2
  <2> QED BY <1>6, <2>1, <2>3
<1>11. ASSUME NEW i \in 1..m
       PROVE  /\ a[i].index = ProcessUsnRecordReasons(a[i - 1].index, Q[i])
              /\ a[i].astray = (a[i - 1].astray \/ Astray(a[i].index))
              /\ ~({"rename", "delete"} \subseteq Q[i].reasons)
  <2>1. a[i] = ApplyOneUsnRecord(a[i - 1], Q[i]) /\ ~({"rename", "delete"} \subseteq Q[i].reasons)
    <3>1. Q[i] = order[i]
      BY <1>6
    <3>2. a[i] = ApplyOneUsnRecord(a[i - 1], order[i]) /\ ~({"rename", "delete"} \subseteq order[i].reasons)
      BY <1>8, <1>9
    <3> QED BY <3>1, <3>2
  <2>2. \A x, y : /\ ApplyOneUsnRecord(x, y).index = ProcessUsnRecordReasons(x.index, y)
                  /\ ApplyOneUsnRecord(x, y).astray = (x.astray \/ Astray(ApplyOneUsnRecord(x, y).index))
    BY DEF ApplyOneUsnRecord
  <2>3. /\ ApplyOneUsnRecord(a[i - 1], Q[i]).index = ProcessUsnRecordReasons(a[i - 1].index, Q[i])
        /\ ApplyOneUsnRecord(a[i - 1], Q[i]).astray
              = (a[i - 1].astray \/ Astray(ApplyOneUsnRecord(a[i - 1], Q[i]).index))
    BY <2>2, Zenon
  <2>4. a[i].index = ProcessUsnRecordReasons(a[i - 1].index, Q[i])
    BY <2>1, <2>3, Zenon
  <2>5. a[i].astray = (a[i - 1].astray \/ Astray(a[i].index))
    BY <2>1, <2>3, Zenon
  <2> QED BY <2>1, <2>4, <2>5, Zenon
<1>12. Run(P, n, Q, f, m, a)
  BY <1>2, <1>5, <1>9, <1>10, <1>11 DEF Run
<1> QED BY <1>9, <1>12

(* The index is tidy between the records that the code does not misread,    *)
(* and in step with those that are left.                                    *)
LEMMA RunIsTidy ==
  ASSUME Types, NEW P \in Seq(UsnRecords), NEW n \in 1..Len(P), Readable(P, n),
         Ordered(P), CreatedFirst(P), Covered(P), Known(P),
         NEW Q, NEW f, NEW m, NEW a, Run(P, n, Q, f, m, a),
         Tidy(a[0].index), InStep(a[0].index, P, 0)
  PROVE  \A i \in 0..m : a[i].index \in Sound /\ Tidy(a[i].index) /\ InStep(a[i].index, Q, i)
<1>0. n \in 0..Len(P)
  OBVIOUS
<1>1. /\ Q \in Seq(UsnRecords) /\ Shuffle(Q, P, n, f)
      /\ m \in Nat /\ m <= Len(Q) /\ Len(Q) \in Nat /\ a \in [0..m -> Applied]
  BY DEF Run
<1>2. \A i \in 1..m : /\ a[i].index = ProcessUsnRecordReasons(a[i - 1].index, Q[i])
                      /\ ~({"rename", "delete"} \subseteq Q[i].reasons)
  BY DEF Run
<1>3. Ordered(Q) /\ Covered(Q) /\ Known(Q) /\ InStep(a[0].index, Q, 0)
  BY <1>0, <1>1, ShuffledInv
<1>4. \A i \in 0..m : a[i].index \in Sound /\ a[i].index \in Indexes
  BY <1>1 DEF Applied, Sound
<1> DEFINE T == {i \in Nat : i <= m => Tidy(a[i].index) /\ InStep(a[i].index, Q, i)}
<1>5. 0 \in T
  BY <1>3
<1>6. ASSUME NEW i \in Nat, i \in T PROVE i + 1 \in T
  <2> SUFFICES ASSUME i + 1 <= m PROVE Tidy(a[i + 1].index) /\ InStep(a[i + 1].index, Q, i + 1)
    OBVIOUS
  <2> DEFINE k == i + 1
             record == Q[k]
             old == a[i].index
             new == a[k].index
  <2>1. k \in 1..m /\ k - 1 = i /\ k \in 1..Len(Q) /\ i \in 0..m /\ k \in 0..m
    BY <1>1
  <2>2. Tidy(old) /\ InStep(old, Q, k - 1) /\ old \in Sound /\ old \in Indexes
    BY <1>4, <1>6, <2>1
  <2>3. new = ProcessUsnRecordReasons(old, record) /\ ~({"rename", "delete"} \subseteq record.reasons)
    BY <1>2, <2>1
  <2>4. record \in UsnRecords
    BY <1>1, <2>1
  <2> HIDE DEF k, old, new
  <2>5. Alone(old, record.self)
    BY <1>1, <1>3, <2>1, <2>2, NextIsAlone
  <2> HIDE DEF record
  <2>6. /\ Tidy(new)
        /\ IF "delete" \in record.reasons
           THEN DOMAIN new.entries = DOMAIN old.entries \ {record.self}
           ELSE DOMAIN new.entries \subseteq DOMAIN old.entries \cup {record.self}
    BY <2>2, <2>3, <2>4, <2>5, RecordTidy
  <2>7. InStep(new, Q, k)
    BY <1>1, <1>3, <2>1, <2>2, <2>6, NextInStep DEF record
  <2> QED BY <2>6, <2>7 DEF k, new
<1>7. Nat \subseteq T
  <2> HIDE DEF T
  <2> QED BY <1>5, <1>6, Upwards
<1> QED BY <1>1, <1>4, <1>7

(* A buffer that the code does not misread leaves the index tidy and in step*)
(* with the rest of the journal.                                            *)
LEMMA BufferTidy ==
  ASSUME Types, NEW P \in Seq(UsnRecords), NEW n \in 1..Len(P), Readable(P, n),
         Ordered(P), CreatedFirst(P), Covered(P), Known(P),
         NEW Q, NEW f, NEW m, NEW a, Run(P, n, Q, f, m, a),
         Tidy(a[0].index), InStep(a[0].index, P, 0)
  PROVE  Tidy(a[m].index) /\ InStep(a[m].index, SubSeq(P, n + 1, Len(P)), 0)
<1> DEFINE S == SubSeq(P, n + 1, Len(P))
           ix == a[m].index
<1>1. /\ Q \in Seq(UsnRecords) /\ m \in Nat /\ Len(Q) = m + (Len(P) - n) /\ Len(P) - n \in Nat
      /\ \A k \in 1..(Len(P) - n) : Q[m + k] = P[n + k]
  BY DEF Run
<1>2. Tidy(ix) /\ InStep(ix, Q, m)
  BY <1>1, RunIsTidy
<1>3. DOMAIN S = 1..(Len(P) - n) /\ \A k \in 1..(Len(P) - n) : S[k] = P[n + k]
  <2>1. n \in 0..Len(P)
    OBVIOUS
  <2>2. S \in Seq(UsnRecords) /\ Len(S) = Len(P) - n /\ \A k \in 1..(Len(P) - n) : S[k] = P[n + k]
    BY <2>1, Slices
  <2> HIDE DEF S
  <2> QED BY <2>2
<1> HIDE DEF S, ix
<1>4. InStep(ix, S, 0)
  <2> SUFFICES ASSUME NEW id \in DOMAIN ix.entries
               PROVE  /\ Alive(id) \/ \E j \in DOMAIN S : j > 0 /\ Deletes(S[j], id)
                      /\ \A j \in DOMAIN S : j > 0 /\ S[j].self.rec = id.rec => id.seq <= S[j].self.seq
    BY DEF InStep
  <2>1. ASSUME ~Alive(id) PROVE \E j \in DOMAIN S : j > 0 /\ Deletes(S[j], id)
    <3>1. PICK l \in DOMAIN Q : l > m /\ Deletes(Q[l], id)
      BY <1>2, <2>1 DEF InStep
    <3>2. l - m \in 1..(Len(P) - n) /\ m + (l - m) = l /\ l - m > 0
      BY <1>1, <3>1
    <3>3. Q[l] = S[l - m]
      BY <1>1, <1>3, <3>2
    <3> QED BY <1>3, <3>1, <3>2, <3>3
  <2>2. ASSUME NEW j \in DOMAIN S, S[j].self.rec = id.rec PROVE id.seq <= S[j].self.seq
    <3>0. j \in 1..(Len(P) - n)
      BY <1>3
    <3>1. m + j \in 1..Len(Q) /\ m + j > m
      BY <1>1, <3>0
    <3>2. Q[m + j] = S[j]
      BY <1>1, <1>3, <3>0
    <3>3. m + j \in DOMAIN Q
      BY <1>1, <3>1
    <3> QED BY <1>2, <2>2, <3>1, <3>2, <3>3 DEF InStep
  <2> QED BY <2>1, <2>2
<1> QED BY <1>2, <1>4 DEF S, ix
-----------------------------------------------------------------------------
(* What the volume does to the journal.                                     *)

(* A file gets a greater sequence number, or it keeps what its records say. *)
Onward ==
    \A r \in Records :
        /\ fs[r].seq <= fs'[r].seq
        /\ fs'[r].seq = fs[r].seq =>
              /\ fs'[r].live => fs[r].live
              /\ "create" \in fs'[r].reasons => "create" \in fs[r].reasons
        /\ "delete" \notin fs'[r].reasons

(* What lives goes on living.                                               *)
Survives(r) == fs[r].live => fs'[r].live /\ fs'[r].seq = fs[r].seq

AliveNext(id) == fs'[id.rec].live /\ fs'[id.rec].seq = id.seq

(* Sequence numbers are numbers.                                            *)
LEMMA FileNumbers ==
  ASSUME Types
  PROVE  \A r \in Records : fs[r].seq \in Nat
<1> QED BY BoundsAssumption DEF Types, Files

(* What a journal says of the volume goes on being true.                    *)
LEMMA KnownStays ==
  ASSUME Types, Types', Onward, NEW P \in Seq(UsnRecords), Known(P)
  PROVE  \A i \in DOMAIN P :
            /\ P[i].self.seq <= fs'[P[i].self.rec].seq
            /\ P[i].self.seq = fs'[P[i].self.rec].seq /\ "delete" \in P[i].reasons
                  => ~fs'[P[i].self.rec].live
            /\ P[i].self.seq = fs'[P[i].self.rec].seq
                  => "create" \notin fs'[P[i].self.rec].reasons
<1> SUFFICES ASSUME NEW i \in DOMAIN P
             PROVE  /\ P[i].self.seq <= fs'[P[i].self.rec].seq
                    /\ P[i].self.seq = fs'[P[i].self.rec].seq /\ "delete" \in P[i].reasons
                          => ~fs'[P[i].self.rec].live
                    /\ P[i].self.seq = fs'[P[i].self.rec].seq
                          => "create" \notin fs'[P[i].self.rec].reasons
  OBVIOUS
<1> DEFINE r == P[i].self.rec
           seq == P[i].self.seq
<1>1. r \in Records /\ seq \in Nat
  <2>1. P[i].self \in References /\ P[i].self.seq \in Nat
    BY AboutReferences
  <2> QED BY <2>1 DEF References
<1>2. /\ seq <= fs[r].seq
      /\ seq = fs[r].seq /\ "delete" \in P[i].reasons => ~fs[r].live
      /\ seq = fs[r].seq => "create" \notin fs[r].reasons
  BY DEF Known
<1> HIDE DEF r, seq
<1>3. fs[r].seq \in Nat /\ fs'[r].seq \in Nat
  <2>1. fs[r].seq \in Nat
    BY <1>1, FileNumbers
  <2>2. fs'[r].seq \in Nat
    BY <1>1, BoundsAssumption DEF Types, Files
  <2> QED BY <2>1, <2>2
<1>4. fs[r].seq <= fs'[r].seq
  BY <1>1 DEF Onward
<1>5. seq <= fs'[r].seq /\ (seq = fs'[r].seq => fs'[r].seq = fs[r].seq)
  BY <1>1, <1>2, <1>3, <1>4
<1> QED BY <1>1, <1>2, <1>5 DEF Onward, r, seq

(* A step that writes no record and ends no file.                           *)
LEMMA QuietStep ==
  ASSUME TypeInv, TypeInv', JournalInv, Onward, UNCHANGED <<journal, index>>,
         \A r \in Records : Survives(r)
  PROVE  JournalInv' /\ (InStep(index, journal, 0) => InStep(index, journal, 0)')
<1>1. Types /\ Types' /\ journal \in Seq(UsnRecords) /\ journal' = journal /\ index' = index
  BY DEF TypeInv, Types
<1>2. ASSUME NEW id \in References, Alive(id) PROVE AliveNext(id)
  BY <1>2 DEF AliveNext, Alive, Survives, References
<1>3. (Ordered(journal) /\ CreatedFirst(journal))'
  BY <1>1 DEF JournalInv, Ordered, CreatedFirst
<1>4. Covered(journal)'
  <2>1. \A i \in DOMAIN journal : journal[i].self \in References
    BY <1>1, AboutReferences
  <2>2. \A i \in DOMAIN journal :
           AliveNext(journal[i].self) \/ \E j \in DOMAIN journal : j >= i /\ Deletes(journal[j], journal[i].self)
    BY <1>2, <2>1 DEF JournalInv, Covered
  <2> QED BY <1>1, <2>2 DEF Covered, Deletes, Alive, AliveNext
<1>5. Known(journal)'
  <2>1. Known(journal)
    BY DEF JournalInv
  <2> QED BY <1>1, <2>1, KnownStays DEF Known
<1>6. Undeleted'
  BY DEF Onward, Undeleted
<1>7. ASSUME InStep(index, journal, 0) PROVE InStep(index, journal, 0)'
  <2>1. \A id \in DOMAIN index.entries : id \in References
    BY IndexParts DEF TypeInv, Sound
  <2>2. \A id \in DOMAIN index.entries :
           AliveNext(id) \/ \E j \in DOMAIN journal : j > 0 /\ Deletes(journal[j], id)
    BY <1>2, <1>7, <2>1 DEF InStep
  <2> QED BY <1>1, <1>7, <2>2 DEF InStep, Deletes, Alive, AliveNext
<1> QED BY <1>3, <1>4, <1>5, <1>6, <1>7 DEF JournalInv

(* A step that writes the record of a file, its last one if it ends it.     *)
LEMMA RecordStep ==
  ASSUME TypeInv, TypeInv', JournalInv, Onward, UNCHANGED index,
         NEW r \in Records, fs[r].live, fs'[r].seq = fs[r].seq,
         "create" \notin fs'[r].reasons,
         \A s \in Records : s # r => Survives(s),
         NEW record \in UsnRecords, record.self = Reference(r),
         "create" \in record.reasons => "create" \in fs[r].reasons,
         IF "delete" \in record.reasons THEN ~fs'[r].live ELSE fs'[r].live,
         journal' = Append(journal, record)
  PROVE  JournalInv' /\ (InStep(index, journal, 0) => InStep(index, journal, 0)')
<1> DEFINE last == Len(journal) + 1
<1>1. Types /\ Types' /\ journal \in Seq(UsnRecords) /\ index' = index /\ journal' \in Seq(UsnRecords)
  BY DEF TypeInv, Types
<1>2. /\ \A i \in DOMAIN journal : i \in DOMAIN journal' /\ journal'[i] = journal[i]
      /\ DOMAIN journal' = DOMAIN journal \cup {last} /\ last \notin DOMAIN journal
      /\ journal'[last] = record
  BY AppendTypes
<1>3. last \in Nat /\ last > 0 /\ \A i \in DOMAIN journal : i \in Nat /\ i > 0 /\ i < last
  BY <1>1
<1> HIDE DEF last
<1>4. record.self.rec = r /\ record.self.seq = fs[r].seq /\ record.self \in References
  BY RecordsAssumption DEF Reference, UsnRecords
<1>5. \A i \in DOMAIN journal : /\ journal[i].self \in References /\ journal[i].self.seq \in Nat
  BY <1>1, AboutReferences
<1>6. fs[r].seq \in Nat
  BY <1>1, FileNumbers
<1>7. Ordered(journal) /\ CreatedFirst(journal) /\ Covered(journal) /\ Known(journal)
  BY DEF JournalInv
<1>8. ASSUME NEW id \in References, Alive(id)
      PROVE  AliveNext(id) \/ Deletes(record, id)
  <2>1. CASE id.rec # r
    <3>1. id.rec \in Records
      BY DEF References
    <3> QED BY <1>8, <2>1, <3>1 DEF AliveNext, Alive, Survives
  <2>2. CASE id.rec = r
    <3>1. id = record.self
      BY <1>4, <1>8, <2>2, SameReference DEF AliveNext, Alive
    <3>2. CASE fs'[r].live
      BY <1>8, <2>2, <3>2 DEF AliveNext, Alive
    <3>3. CASE ~fs'[r].live
      BY <3>1, <3>3 DEF Deletes
    <3> QED BY <3>2, <3>3
  <2> QED BY <2>1, <2>2
<1>9. Ordered(journal)'
  <2> SUFFICES ASSUME NEW i \in DOMAIN journal', NEW j \in DOMAIN journal', i < j,
                      journal'[i].self.rec = journal'[j].self.rec
               PROVE  \/ journal'[i].self.seq < journal'[j].self.seq
                      \/ journal'[i].self = journal'[j].self /\ "delete" \notin journal'[i].reasons
    BY DEF Ordered
  <2>1. i \in DOMAIN journal
    BY <1>2, <1>3
  <2>2. CASE j \in DOMAIN journal
    BY <1>2, <1>7, <2>1, <2>2 DEF Ordered
  <2>3. CASE j = last
    <3>1. journal[i].self.rec = r /\ journal'[j] = record /\ journal'[i] = journal[i]
      BY <1>2, <1>4, <2>1, <2>3
    <3>2. /\ journal[i].self.seq <= fs[r].seq
          /\ journal[i].self.seq = fs[r].seq => "delete" \notin journal[i].reasons
      BY <1>7, <2>1, <3>1 DEF Known
    <3>3. journal[i].self.seq < fs[r].seq \/ journal[i].self.seq = fs[r].seq
      BY <1>5, <1>6, <2>1, <3>2
    <3>4. journal[i].self.seq = fs[r].seq => journal[i].self = record.self
      BY <1>4, <1>5, <2>1, <3>1, SameReference
    <3> QED BY <1>4, <3>1, <3>2, <3>3, <3>4
  <2> QED BY <1>2, <2>2, <2>3
<1>10. CreatedFirst(journal)'
  <2> SUFFICES ASSUME NEW i \in DOMAIN journal', NEW j \in DOMAIN journal', i < j,
                      journal'[i].self = journal'[j].self
               PROVE  "create" \notin journal'[j].reasons
    BY DEF CreatedFirst
  <2>1. i \in DOMAIN journal
    BY <1>2, <1>3
  <2>2. CASE j \in DOMAIN journal
    BY <1>2, <1>7, <2>1, <2>2 DEF CreatedFirst
  <2>3. CASE j = last
    <3>1. journal[i].self = record.self /\ journal'[j] = record
      BY <1>2, <2>1, <2>3
    <3>2. "create" \notin fs[r].reasons
      BY <1>4, <1>7, <2>1, <3>1 DEF Known
    <3> QED BY <3>1, <3>2
  <2> QED BY <1>2, <2>2, <2>3
<1>11. \A id : Deletes(record, id) => last \in DOMAIN journal' /\ Deletes(journal'[last], id)
  BY <1>2
<1>12. Covered(journal)'
  <2> SUFFICES ASSUME NEW i \in DOMAIN journal'
               PROVE  \/ AliveNext(journal'[i].self)
                      \/ \E j \in DOMAIN journal' : j >= i /\ Deletes(journal'[j], journal'[i].self)
    BY DEF AliveNext, Covered, Deletes, Alive
  <2>1. CASE i = last
    <3>1. journal'[i] = record /\ last >= i
      BY <1>2, <1>3, <2>1
    <3>2. AliveNext(record.self) \/ Deletes(record, record.self)
      BY <1>4 DEF AliveNext, Alive, Deletes
    <3> QED BY <1>11, <3>1, <3>2
  <2>2. CASE i \in DOMAIN journal
    <3> DEFINE id == journal[i].self
    <3>1. journal'[i].self = id /\ id \in References
      BY <1>2, <1>5, <2>2
    <3>2. CASE Alive(id)
      <4>1. AliveNext(id) \/ Deletes(record, id)
        BY <1>8, <3>1, <3>2
      <4>2. last >= i
        BY <1>3, <2>2
      <4> QED BY <1>11, <3>1, <4>1, <4>2
    <3>3. CASE ~Alive(id)
      <4>1. PICK j \in DOMAIN journal : j >= i /\ Deletes(journal[j], id)
        BY <1>7, <2>2, <3>3 DEF Covered
      <4>2. j \in DOMAIN journal' /\ journal'[j] = journal[j]
        BY <1>2
      <4> QED BY <3>1, <4>1, <4>2
    <3> QED BY <3>2, <3>3
  <2> QED BY <1>2, <2>1, <2>2
<1>13. Known(journal)'
  <2>1. \A i \in DOMAIN journal :
            /\ journal[i].self.seq <= fs'[journal[i].self.rec].seq
            /\ journal[i].self.seq = fs'[journal[i].self.rec].seq /\ "delete" \in journal[i].reasons
                  => ~fs'[journal[i].self.rec].live
            /\ journal[i].self.seq = fs'[journal[i].self.rec].seq
                  => "create" \notin fs'[journal[i].self.rec].reasons
    BY <1>1, <1>7, KnownStays
  <2>2. /\ record.self.seq <= fs'[record.self.rec].seq
        /\ "delete" \in record.reasons => ~fs'[record.self.rec].live
        /\ "create" \notin fs'[record.self.rec].reasons
    BY <1>4, <1>6
  <2> QED BY <1>2, <2>1, <2>2 DEF Known
<1>14. Undeleted'
  BY DEF Onward, Undeleted
<1>15. ASSUME InStep(index, journal, 0) PROVE InStep(index, journal, 0)'
  <2> SUFFICES ASSUME NEW id \in DOMAIN index.entries
               PROVE  /\ AliveNext(id) \/ \E j \in DOMAIN journal' : j > 0 /\ Deletes(journal'[j], id)
                      /\ \A j \in DOMAIN journal' :
                            j > 0 /\ journal'[j].self.rec = id.rec => id.seq <= journal'[j].self.seq
    BY <1>1 DEF AliveNext, InStep, Deletes, Alive
  <2>0. id \in References /\ id.seq \in Nat
    <3>1. id \in References
      BY IndexParts DEF TypeInv, Sound
    <3> QED BY <3>1 DEF References
  <2>1. ASSUME ~Alive(id) PROVE \E j \in DOMAIN journal : j > 0 /\ Deletes(journal[j], id)
    BY <1>15, <2>1 DEF InStep
  <2>2. AliveNext(id) \/ \E j \in DOMAIN journal' : j > 0 /\ Deletes(journal'[j], id)
    <3>1. CASE Alive(id)
      BY <1>3, <1>8, <1>11, <2>0, <3>1
    <3>2. CASE ~Alive(id)
      BY <1>2, <2>1, <3>2
    <3> QED BY <3>1, <3>2
  <2>3. id.rec = r => id.seq <= fs[r].seq
    <3>1. CASE Alive(id)
      BY <2>0, <3>1 DEF AliveNext, Alive
    <3>2. CASE ~Alive(id)
      <4>1. PICK j \in DOMAIN journal : Deletes(journal[j], id)
        BY <2>1, <3>2
      <4> QED BY <1>7, <4>1 DEF Known, Deletes
    <3> QED BY <3>1, <3>2
  <2>4. ASSUME NEW j \in DOMAIN journal', journal'[j].self.rec = id.rec
        PROVE  id.seq <= journal'[j].self.seq
    <3>1. CASE j = last
      BY <1>2, <1>4, <2>3, <2>4, <3>1
    <3>2. CASE j \in DOMAIN journal
      <4>1. journal'[j] = journal[j] /\ j > 0
        BY <1>2, <1>3, <3>2
      <4> QED BY <1>15, <2>4, <3>2, <4>1 DEF InStep
    <3> QED BY <1>2, <3>1, <3>2
  <2> QED BY <2>2, <2>4
<1> QED BY <1>9, <1>10, <1>12, <1>13, <1>14, <1>15 DEF JournalInv
-----------------------------------------------------------------------------
(* Until the code misreads a record the index is tidy and in step.          *)
IndexInv == ~drift => Tidy(index) /\ InStep(index, journal, 0)

Inv == TypeInv /\ JournalInv /\ IndexInv

(* A step of the volume leaves the index alone.                             *)
LEMMA VolumeKeepsInv ==
  ASSUME Inv, UNCHANGED <<index, drift, astray>>,
         JournalInv' /\ (InStep(index, journal, 0) => InStep(index, journal, 0)')
  PROVE  JournalInv' /\ IndexInv'
<1>1. Tidy(index) => Tidy(index)'
  <2>1. index' = index
    OBVIOUS
  <2> QED BY <2>1, Zenon
<1> QED BY <1>1 DEF Inv, IndexInv

(* A buffer keeps the invariant.                                            *)
LEMMA BufferKeepsInv ==
  ASSUME Inv, TypeInv', ProcessOneBuffer
  PROVE  JournalInv' /\ IndexInv'
<1>1. PICK n \in 1..MaxBuffer :
        /\ n <= Len(journal)
        /\ LET buffer == SubSeq(journal, 1, n)
               parts == Partition(buffer)
               order == parts.establish_parents \o parts.remaining
               applied == Seqs!FoldLeft(ApplyOneUsnRecord, [index |-> index, astray |-> astray], order)
           IN /\ index' = applied.index
              /\ astray' = applied.astray
              /\ drift' = (drift \/ Misread(buffer))
        /\ journal' = SubSeq(journal, n + 1, Len(journal))
        /\ UNCHANGED <<fs, ops>>
  BY DEF ProcessOneBuffer
<1> DEFINE buffer == SubSeq(journal, 1, n)
           order == Partition(buffer).establish_parents \o Partition(buffer).remaining
           applied == Seqs!FoldLeft(ApplyOneUsnRecord, [index |-> index, astray |-> astray], order)
<1>2. /\ journal \in Seq(UsnRecords) /\ n \in 1..Len(journal) /\ n \in 0..Len(journal)
      /\ index \in Sound /\ astray \in BOOLEAN /\ TypeInv
  BY <1>1 DEF Inv, TypeInv, Types
<1>3. Ordered(journal) /\ CreatedFirst(journal) /\ Covered(journal) /\ Known(journal) /\ Undeleted
  BY DEF Inv, JournalInv
<1>4. index' = applied.index /\ astray' = applied.astray /\ drift' = (drift \/ Misread(buffer))
  BY <1>1, Zenon
<1>5. /\ Ordered(journal') /\ CreatedFirst(journal') /\ Covered(journal') /\ Known(journal')
      /\ journal' = SubSeq(journal, n + 1, Len(journal)) /\ fs' = fs
  <2> DEFINE S == SubSeq(journal, n + 1, Len(journal))
  <2>1. /\ S \in Seq(UsnRecords) /\ Len(S) = Len(journal) - n
        /\ \A j \in 1..(Len(journal) - n) : S[j] = journal[n + j]
    BY <1>2, Slices
  <2>2. journal' = S /\ fs' = fs
    BY <1>1
  <2> HIDE DEF S
  <2>3. Ordered(S) /\ CreatedFirst(S) /\ Covered(S) /\ Known(S)
    BY <1>2, <1>3, <2>1, SuffixInv
  <2> QED BY <2>2, <2>3 DEF S
<1>6. JournalInv'
  <2>1. \A id : Alive(id) = AliveNext(id)
    BY <1>5 DEF Alive, AliveNext
  <2>2. (Ordered(journal) /\ CreatedFirst(journal))'
    BY <1>5 DEF Ordered, CreatedFirst
  <2>3. Covered(journal)'
    BY <1>5, <2>1 DEF Covered, Alive, AliveNext, Deletes
  <2>4. Known(journal)' /\ Undeleted'
    BY <1>3, <1>5 DEF Known, Undeleted
  <2> QED BY <2>2, <2>3, <2>4 DEF JournalInv
<1>7. ASSUME ~drift' PROVE (Tidy(index) /\ InStep(index, journal, 0))'
  <2>1. ~drift /\ ~Misread(buffer)
    BY <1>4, <1>7
  <2>2. Readable(journal, n)
    BY <1>2, <2>1, ReadableBuffer
  <2>3. Tidy(index) /\ InStep(index, journal, 0)
    BY <2>1 DEF Inv, IndexInv
  <2>4. Tidy(applied.index) /\ InStep(applied.index, SubSeq(journal, n + 1, Len(journal)), 0)
    <3> HIDE DEF applied
    <3>1. applied = Seqs!FoldLeft(ApplyOneUsnRecord, [index |-> index, astray |-> astray], order)
      BY DEF applied
    <3> HIDE DEF order
    <3>2. order = Partition(SubSeq(journal, 1, n)).establish_parents
                    \o Partition(SubSeq(journal, 1, n)).remaining
      BY DEF order
    <3>0. n \in 1..Len(journal) /\ journal \in Seq(UsnRecords) /\ index \in Sound /\ astray \in BOOLEAN
      BY <1>2
    <3>3. PICK Q, f, m, a : /\ Run(journal, n, Q, f, m, a)
                            /\ a[0] = [index |-> index, astray |-> astray] /\ a[m] = applied
      <4>1. LET parts == Partition(SubSeq(journal, 1, n))
                last == Seqs!FoldLeft(ApplyOneUsnRecord, [index |-> index, astray |-> astray],
                                      parts.establish_parents \o parts.remaining)
            IN \E Q, f, m, a : /\ Run(journal, n, Q, f, m, a)
                               /\ a[0] = [index |-> index, astray |-> astray] /\ a[m] = last
        BY <2>2, <3>0, BufferRuns
      <4> QED BY <3>1, <3>2, <4>1, Zenon
    <3>4. a[0].index = index /\ Types
      BY <1>2, <3>3 DEF TypeInv
    <3> QED BY <1>2, <1>3, <2>2, <2>3, <3>3, <3>4, BufferTidy
  <2> HIDE DEF applied
  <2>5. Tidy(index')
    BY <1>4, <2>4
  <2>6. InStep(index', journal', 0)
    BY <1>4, <1>5, <2>4
  <2>7. InStep(index, journal, 0)'
    BY <1>5, <2>6 DEF InStep, Alive, Deletes
  <2>8. Tidy(index)'
    BY <2>5, Zenon
  <2> QED BY <2>7, <2>8
<1> QED BY <1>6, <1>7 DEF IndexInv

(* So does the sweep, which only removes entries.                           *)
LEMMA SweepKeepsInv ==
  ASSUME Inv, SweepNeverArriving
  PROVE  JournalInv' /\ IndexInv'
<1> DEFINE waiting == UNION {index.awaiting[r] : r \in Records}
           Evict(id, ix) == Remove(ix, id)
<1>1. index' = FoldSet(Evict, index, waiting) /\ UNCHANGED <<fs, ops, journal, drift, astray>>
  BY Zenon DEF SweepNeverArriving
<1>2. index \in Sound /\ waiting \subseteq References
  BY IndexParts DEF Inv, TypeInv, Sound
<1> HIDE DEF waiting
<1>3. JournalInv'
  <2>1. fs' = fs /\ journal' = journal /\ JournalInv
    BY <1>1 DEF Inv
  <2>2. (Ordered(journal) /\ CreatedFirst(journal))'
    BY <2>1 DEF JournalInv, Ordered, CreatedFirst
  <2>3. Covered(journal)'
    BY <2>1 DEF JournalInv, Covered, Alive, Deletes
  <2>4. Known(journal)' /\ Undeleted'
    BY <2>1 DEF JournalInv, Known, Undeleted
  <2> QED BY <2>2, <2>3, <2>4 DEF JournalInv
<1>4. ASSUME ~drift' PROVE (Tidy(index) /\ InStep(index, journal, 0))'
  <2> DEFINE V == {ix \in Sound : Tidy(ix) /\ DOMAIN ix.entries \subseteq DOMAIN index.entries}
  <2>1. Tidy(index) /\ InStep(index, journal, 0)
    BY <1>1, <1>4 DEF Inv, IndexInv
  <2>2. index \in V
    BY <1>2, <2>1
  <2>3. ASSUME NEW c \in waiting, NEW ix \in V PROVE Remove(ix, c) \in V
    <3>1. ix \in Sound /\ Tidy(ix) /\ DOMAIN ix.entries \subseteq DOMAIN index.entries /\ c \in References
      BY <1>2
    <3>2. LET new == Remove(ix, c)
          IN new \in Sound /\ Tidy(new) /\ DOMAIN new.entries = DOMAIN ix.entries \ {c}
      BY <3>1, RemoveTidy
    <3> QED BY <3>1, <3>2
  <2> HIDE DEF V
  <2>4. FoldSet(Evict, index, waiting) \in V
    BY <1>2, <2>2, <2>3, SweepKeeps, Zenon
  <2>5. index' \in V
    BY <1>1, <2>4, Zenon
  <2>6. Tidy(index') /\ DOMAIN index'.entries \subseteq DOMAIN index.entries
    BY <2>5 DEF V
  <2>7. InStep(index, journal, 0)'
    BY <1>1, <2>1, <2>6 DEF InStep, Alive, Deletes
  <2>8. Tidy(index)'
    BY <2>6, Zenon
  <2> QED BY <2>7, <2>8
<1> QED BY <1>3, <1>4 DEF IndexInv

(* Every step keeps the invariant.                                          *)
LEMMA StepKeepsInv == Inv /\ [Next]_vars => Inv'
<1> SUFFICES ASSUME Inv, [Next]_vars PROVE Inv'
  OBVIOUS
<1>0. TypeInv /\ TypeInv' /\ JournalInv /\ fs \in [Records -> Files] /\ Undeleted
  <2>1. TypeInv /\ JournalInv
    BY DEF Inv
  <2> QED BY <2>1, StepKeepsTypes DEF TypeInv, Types, JournalInv
<1>f. \A s \in Records : fs[s].seq \in Nat
  BY <1>0, FileNumbers DEF TypeInv
<1>1. ASSUME NEW r \in Records, NEW p \in Folders, NEW n \in Names, NEW d \in BOOLEAN,
             CreateFile(r, p, n, d)
      PROVE  JournalInv' /\ IndexInv'
  <2>1. /\ fs'[r].seq = fs[r].seq + 1 /\ fs'[r].reasons = {"create"} /\ ~fs[r].live
        /\ \A s \in Records : s # r => fs'[s] = fs[s]
        /\ UNCHANGED <<journal, index, drift, astray>>
    BY <1>0, <1>1 DEF CreateFile, Operate
  <2>2. Onward
    BY <1>0, <1>f, <2>1 DEF Onward, Undeleted
  <2>3. \A s \in Records : Survives(s)
    BY <2>1 DEF Survives
  <2> QED BY <1>0, <2>1, <2>2, <2>3, QuietStep, VolumeKeepsInv
<1>2. ASSUME NEW r \in Records, NEW p \in Folders, NEW n \in Names, RenameFile(r, p, n)
      PROVE  JournalInv' /\ IndexInv'
  <2> DEFINE file == [fs[r] EXCEPT !.parent = p, !.name = n, !.reasons = @ \cup {"rename"}]
  <2>0. file.seq = fs[r].seq /\ file.live = fs[r].live /\ file.reasons = fs[r].reasons \cup {"rename"}
    BY <1>0 DEF Files
  <2>4. fs' = [fs EXCEPT ![r] = file] /\ UNCHANGED <<journal, index, drift, astray>>
    BY <1>2, Zenon DEF RenameFile, Operate
  <2> HIDE DEF file
  <2>1. fs'[r] = file /\ \A s \in Records : s # r => fs'[s] = fs[s]
    BY <1>0, <2>4
  <2>2. Onward
    BY <1>0, <1>f, <2>0, <2>1 DEF Onward, Undeleted
  <2>3. \A s \in Records : Survives(s)
    BY <2>0, <2>1 DEF Survives
  <2> QED BY <1>0, <2>2, <2>3, <2>4, QuietStep, VolumeKeepsInv
<1>3. ASSUME NEW r \in Records, DeleteFile(r) PROVE JournalInv' /\ IndexInv'
  <2> DEFINE record == UsnRecord(r, fs[r].reasons \cup {"delete"})
  <2>1. /\ fs' = [fs EXCEPT ![r] = Unused(fs[r].seq)] /\ fs[r].live
        /\ journal' = Append(journal, record) /\ UNCHANGED <<index, drift, astray>>
    BY <1>3 DEF DeleteFile, Operate
  <2>2. /\ fs'[r].seq = fs[r].seq /\ fs'[r].reasons = {} /\ ~fs'[r].live
        /\ \A s \in Records : s # r => fs'[s] = fs[s]
    BY <1>0, <2>1 DEF Unused
  <2>3. Onward
    BY <1>0, <1>f, <2>2 DEF Onward, Undeleted
  <2>4. \A s \in Records : s # r => Survives(s)
    BY <2>2 DEF Survives
  <2>5. record \in UsnRecords
    <3>1. fs[r].reasons \cup {"delete"} \in SUBSET Reasons
      BY <1>0 DEF Files, Reasons
    <3> QED BY <1>0, <2>1, <3>1, ReferenceTypes
  <2>6. record.self = Reference(r) /\ record.reasons = fs[r].reasons \cup {"delete"}
    BY DEF UsnRecord
  <2> HIDE DEF record
  <2> QED BY <1>0, <2>1, <2>2, <2>3, <2>4, <2>5, <2>6, RecordStep, VolumeKeepsInv
<1>4. ASSUME NEW r \in Records, CloseFile(r) PROVE JournalInv' /\ IndexInv'
  <2> DEFINE record == UsnRecord(r, fs[r].reasons)
  <2>1. /\ fs' = [fs EXCEPT ![r].reasons = {}] /\ fs[r].live
        /\ journal' = Append(journal, record) /\ UNCHANGED <<index, drift, astray>>
    BY <1>4 DEF CloseFile
  <2>2. /\ fs'[r].seq = fs[r].seq /\ fs'[r].reasons = {} /\ fs'[r].live
        /\ \A s \in Records : s # r => fs'[s] = fs[s]
    BY <1>0, <2>1 DEF Files
  <2>3. Onward
    BY <1>0, <1>f, <2>1, <2>2 DEF Onward, Undeleted
  <2>4. \A s \in Records : s # r => Survives(s)
    BY <2>2 DEF Survives
  <2>5. record \in UsnRecords
    <3>1. fs[r].reasons \in SUBSET Reasons
      BY <1>0 DEF Files
    <3> QED BY <1>0, <2>1, <3>1, ReferenceTypes
  <2>6. record.self = Reference(r) /\ record.reasons = fs[r].reasons /\ "delete" \notin fs[r].reasons
    BY <1>0 DEF UsnRecord, Undeleted
  <2> HIDE DEF record
  <2> QED BY <1>0, <2>1, <2>2, <2>3, <2>4, <2>5, <2>6, RecordStep, VolumeKeepsInv
<1>5. CASE ProcessOneBuffer
  BY <1>0, <1>5, BufferKeepsInv DEF Inv
<1>6. CASE SweepNeverArriving
  BY <1>0, <1>6, SweepKeepsInv DEF Inv
<1>7. CASE UNCHANGED vars
  BY <1>0, <1>7 DEF vars, Inv, JournalInv, IndexInv, Tidy, One, Keyed, Served, BareWait, Bare,
     IsAwaitingChild, InStep, Ordered, CreatedFirst, Covered, Known, Undeleted, Alive, Deletes
<1> QED BY <1>0, <1>1, <1>2, <1>3, <1>4, <1>5, <1>6, <1>7 DEF Next, Inv

(* It holds at the start.                                                   *)
LEMMA InitInv == Init => Inv
<1> SUFFICES ASSUME Init PROVE Inv
  OBVIOUS
<1>1. /\ TypeInv /\ journal = <<>> /\ DOMAIN journal = {}
      /\ index.entries = <<>> /\ DOMAIN index.entries = {} /\ DOMAIN index.canonical = {}
      /\ \A r \in Records : fs[r].reasons = {}
  BY InitTypes DEF Init, EmptyIndex, Unused
<1>2. JournalInv
  BY <1>1 DEF JournalInv, Ordered, CreatedFirst, Covered, Known, Undeleted
<1>3. Tidy(index)
  BY <1>1 DEF Tidy, One, Keyed, Served, BareWait, Bare
<1>4. InStep(index, journal, 0)
  BY <1>1 DEF InStep
<1> QED BY <1>1, <1>2, <1>3, <1>4 DEF Inv, IndexInv

(* CheckBareNameInvariant (IndexOperations.cpp:622) for every volume and    *)
(* every way of reading its journal, until a record comes that the code is  *)
(* known to misread: an entry with a bare name waits for its parent.        *)
THEOREM BareNamesAlwaysWait == Spec => []BareNamesWait
<1>1. Inv => BareNamesWait
  BY DEF Inv, IndexInv, Tidy, BareWait, Bare, BareNamesWait
<1>2. Spec => []Inv
  BY InitInv, StepKeepsInv, PTL DEF Spec
<1> QED BY <1>1, <1>2, PTL

-----------------------------------------------------------------------------
(* Below.  The walk of IsDescendantOf as a sequence of sets.                *)
IsWalk(m, ix, ancestor) ==
    /\ m \in [Nat -> SUBSET DOMAIN ix.entries] /\ m[0] = {}
    /\ \A n \in Nat : m[n + 1] =
          {e \in DOMAIN ix.entries :
              \/ ix.entries[e].parent.rec = ancestor.rec
              \/ ResolveEntryReference(ix, ix.entries[e].parent) \in m[n]}

(* IsDescendantOf asks for a member of the last set of such a walk.         *)
LEMMA WalkIs ==
  ASSUME NEW ix, NEW ancestor, NEW m, IsWalk(m, ix, ancestor)
  PROVE  \A id : IsDescendantOf(ix, id, ancestor) <=> id \in m[MaxParentWalk]
<1> DEFINE Near(s) == {e \in DOMAIN ix.entries :
                          \/ ix.entries[e].parent.rec = ancestor.rec
                          \/ ResolveEntryReference(ix, ix.entries[e].parent) \in s}
           Body(g) == [steps \in Nat |-> IF steps = 0 THEN {} ELSE Near(g[steps - 1])]
           h == CHOOSE g : g = Body(g)
<1>1. \A id : IsDescendantOf(ix, id, ancestor) <=> id \in h[MaxParentWalk]
  BY Zenon DEF IsDescendantOf
<1> HIDE DEF Near
<1>2. m = Body(m)
  <2>1. ASSUME NEW n \in Nat PROVE m[n] = IF n = 0 THEN {} ELSE Near(m[n - 1])
    <3>1. CASE n = 0
      BY <3>1 DEF IsWalk
    <3>2. CASE n # 0
      <4>1. n - 1 \in Nat /\ (n - 1) + 1 = n
        BY <3>2
      <4>2. m[(n - 1) + 1] = Near(m[n - 1])
        BY <4>1 DEF IsWalk, Near
      <4> QED BY <3>2, <4>1, <4>2
    <3> QED BY <3>1, <3>2
  <2>2. m = [n \in Nat |-> m[n]]
    BY DEF IsWalk
  <2> QED BY <2>1, <2>2
<1>3. h = Body(h)
  <2> HIDE DEF Body
  <2> QED BY <1>2
<1> HIDE DEF h
<1> DEFINE T == {n \in Nat : h[n] = m[n]}
<1>4. 0 \in T
  BY <1>2, <1>3
<1>5. ASSUME NEW n \in Nat, n \in T PROVE n + 1 \in T
  <2>1. n + 1 \in Nat /\ n + 1 # 0 /\ (n + 1) - 1 = n /\ h[n] = m[n]
    BY <1>5
  <2>2. h[n + 1] = Near(h[n]) /\ m[n + 1] = Near(m[n])
    BY <1>2, <1>3, <2>1
  <2> QED BY <2>1, <2>2
<1>6. MaxParentWalk \in T
  <2> HIDE DEF T
  <2> QED BY <1>4, <1>5, Upwards, WalkAssumption
<1> QED BY <1>1, <1>6

(* Every index and every ancestor has such a walk.                          *)
LEMMA WalkExists ==
  ASSUME NEW ix, NEW ancestor
  PROVE  \E m : IsWalk(m, ix, ancestor)
<1> DEFINE V == SUBSET DOMAIN ix.entries
           Near(s) == {e \in DOMAIN ix.entries :
                          \/ ix.entries[e].parent.rec = ancestor.rec
                          \/ ResolveEntryReference(ix, ix.entries[e].parent) \in s}
           G == [s \in V |-> Near(s)]
<1>1. G \in [V -> V] /\ {} \in V
  OBVIOUS
<1>2. PICK m \in [Nat -> V] : \A n \in Nat : m[n] = IF n = 0 THEN {} ELSE G[m[n - 1]]
  <2> HIDE DEF G, V
  <2> QED BY <1>1, IterationExists
<1> HIDE DEF Near
<1>3. ASSUME NEW n \in Nat PROVE m[n + 1] = Near(m[n])
  <2>1. n + 1 \in Nat /\ n + 1 # 0 /\ (n + 1) - 1 = n /\ m[n] \in V
    BY <1>2
  <2>2. m[n + 1] = G[m[n]]
    BY <1>2, <2>1
  <2> QED BY <2>1, <2>2
<1> QED BY <1>2, <1>3 DEF IsWalk, Near

(* A path of parents that ends early enough never meets a number again.     *)
Direct(ix) ==
    \A e \in DOMAIN ix.entries :
        LET parent == ix.entries[e].parent
        IN ResolveEntryReference(ix, parent) \in {parent, Nothing}

(* In a direct index the parent an entry names is the entry, if there       *)
(* is one, that its record number leads to.                                 *)
LEMMA DirectParent ==
  ASSUME NEW ix \in Indexes, One(ix), Direct(ix), NEW e \in DOMAIN ix.entries
  PROVE  LET parent == ix.entries[e].parent
         IN /\ ResolveEntryReference(ix, parent)
                 = IF parent \in DOMAIN ix.entries THEN parent ELSE Nothing
            /\ \A c \in DOMAIN ix.entries : c.rec = parent.rec => c = parent
<1> DEFINE parent == ix.entries[e].parent
           found == ResolveEntryReference(ix, parent)
<1>1. DOMAIN ix.entries \subseteq References /\ parent \in Parents /\ Nothing \notin DOMAIN ix.entries
  <2>1. ix.entries[e] \in Entries /\ DOMAIN ix.entries \subseteq References
    BY IndexParts
  <2> QED BY <2>1, ReferencesFinite DEF Entries
<1>2. found \in DOMAIN ix.entries \cup {Nothing} /\ found \in {parent, Nothing}
  BY <1>1, ResolveTypes DEF Direct
<1>3. ASSUME NEW c \in DOMAIN ix.entries, c.rec = parent.rec PROVE found = c
  <2>1. c.rec \in DOMAIN ix.canonical /\ ix.canonical[c.rec] = c
    BY DEF One
  <2> QED BY <1>3, <2>1 DEF ResolveEntryReference
<1>4. \A c \in DOMAIN ix.entries : c.rec = parent.rec => c = parent
  BY <1>1, <1>2, <1>3
<1>5. found = IF parent \in DOMAIN ix.entries THEN parent ELSE Nothing
  BY <1>1, <1>2, <1>3
<1> QED BY <1>4, <1>5

(* Then each set of the walk holds the children of the one before.          *)
IsLevels(m, ix, c) ==
    /\ m \in [Nat -> SUBSET DOMAIN ix.entries] /\ m[0] = {}
    /\ \A n \in Nat : m[n + 1] = {e \in DOMAIN ix.entries :
                          ix.entries[e].parent = c \/ ix.entries[e].parent \in m[n]}
    /\ \A n \in Nat : \A k \in 0..n : m[k] \subseteq m[n]
    /\ \A e : IsDescendantOf(ix, e, c) <=> e \in m[MaxParentWalk]

(* In a direct index the walk meets parents by reference alone, and it      *)
(* only grows.                                                              *)
LEMMA Levels ==
  ASSUME NEW ix \in Indexes, One(ix), Direct(ix), NEW c \in DOMAIN ix.entries
  PROVE  \E m : IsLevels(m, ix, c)
<1>1. PICK m : IsWalk(m, ix, c)
  BY WalkExists
<1>2. \A e : IsDescendantOf(ix, e, c) <=> e \in m[MaxParentWalk]
  BY <1>1, WalkIs
<1>3. m \in [Nat -> SUBSET DOMAIN ix.entries] /\ m[0] = {}
  BY <1>1 DEF IsWalk
<1>4. ASSUME NEW n \in Nat
      PROVE  m[n + 1] = {e \in DOMAIN ix.entries :
                 ix.entries[e].parent = c \/ ix.entries[e].parent \in m[n]}
  <2>1. m[n + 1] = {e \in DOMAIN ix.entries :
              \/ ix.entries[e].parent.rec = c.rec
              \/ ResolveEntryReference(ix, ix.entries[e].parent) \in m[n]}
    BY <1>1 DEF IsWalk
  <2>2. ASSUME NEW e \in DOMAIN ix.entries
        PROVE  /\ ix.entries[e].parent.rec = c.rec <=> ix.entries[e].parent = c
               /\ ResolveEntryReference(ix, ix.entries[e].parent) \in m[n] <=> ix.entries[e].parent \in m[n]
    <3> DEFINE p == ix.entries[e].parent
    <3>1. /\ ResolveEntryReference(ix, p) = IF p \in DOMAIN ix.entries THEN p ELSE Nothing
          /\ c.rec = p.rec => c = p
      BY DirectParent
    <3>2. Nothing \notin DOMAIN ix.entries
      BY IndexParts, ReferencesFinite
    <3>3. m[n] \subseteq DOMAIN ix.entries
      BY <1>3
    <3> QED BY <3>1, <3>2, <3>3
  <2> QED BY <2>1, <2>2
<1>5. \A n \in Nat : m[n] \subseteq m[n + 1]
  <2> DEFINE T == {n \in Nat : m[n] \subseteq m[n + 1]}
  <2>1. 0 \in T
    BY <1>3
  <2>2. ASSUME NEW n \in Nat, n \in T PROVE n + 1 \in T
    BY <1>4, <2>2
  <2> HIDE DEF T
  <2>3. Nat \subseteq T
    BY <2>1, <2>2, Upwards
  <2> QED BY <2>3 DEF T
<1>6. ASSUME NEW k \in Nat PROVE \A n \in Nat : n >= k => m[k] \subseteq m[n]
  <2> DEFINE T == {n \in Nat : n >= k => m[k] \subseteq m[n]}
  <2>1. 0 \in T
    BY <1>3
  <2>2. ASSUME NEW n \in Nat, n \in T PROVE n + 1 \in T
    <3>1. CASE n >= k
      BY <1>5, <2>2, <3>1
    <3>2. CASE ~(n >= k)
      <4>1. n + 1 >= k => n + 1 = k
        BY <3>2
      <4> QED BY <4>1
    <3> QED BY <3>1, <3>2
  <2> HIDE DEF T
  <2>3. Nat \subseteq T
    BY <2>1, <2>2, Upwards
  <2> QED BY <2>3 DEF T
<1>7. \A n \in Nat : \A k \in 0..n : m[k] \subseteq m[n]
  BY <1>6
<1> QED BY <1>2, <1>3, <1>4, <1>7 DEF IsLevels

(* The walk sees the tree only.                                             *)
LEMMA WalkOfTree ==
  ASSUME NEW ix, NEW new,
         DOMAIN new.entries = DOMAIN ix.entries, new.canonical = ix.canonical,
         \A e \in DOMAIN ix.entries : new.entries[e].parent = ix.entries[e].parent
  PROVE  /\ \A ref : ResolveEntryReference(new, ref) = ResolveEntryReference(ix, ref)
         /\ \A e, c : IsDescendantOf(new, e, c) = IsDescendantOf(ix, e, c)
<1>1. \A ref : ResolveEntryReference(new, ref) = ResolveEntryReference(ix, ref)
  BY DEF ResolveEntryReference
<1>2. ASSUME NEW e, NEW c PROVE IsDescendantOf(new, e, c) = IsDescendantOf(ix, e, c)
  <2>1. PICK m : IsWalk(m, ix, c)
    BY WalkExists
  <2>2. IsWalk(m, new, c)
    <3>1. /\ m \in [Nat -> SUBSET DOMAIN new.entries] /\ m[0] = {}
          /\ \A n \in Nat : m[n + 1] =
                {d \in DOMAIN ix.entries :
                    \/ ix.entries[d].parent.rec = c.rec
                    \/ ResolveEntryReference(ix, ix.entries[d].parent) \in m[n]}
      BY <2>1 DEF IsWalk
    <3>2. ASSUME NEW n \in Nat
          PROVE  m[n + 1] = {d \in DOMAIN new.entries :
                    \/ new.entries[d].parent.rec = c.rec
                    \/ ResolveEntryReference(new, new.entries[d].parent) \in m[n]}
      <4>1. ASSUME NEW d \in DOMAIN ix.entries
            PROVE  /\ new.entries[d].parent = ix.entries[d].parent
                   /\ ResolveEntryReference(new, new.entries[d].parent)
                         = ResolveEntryReference(ix, ix.entries[d].parent)
        <5>1. new.entries[d].parent = ix.entries[d].parent
          OBVIOUS
        <5> QED BY <1>1, <5>1, Zenon
      <4> QED BY <3>1, <4>1
    <3> QED BY <3>1, <3>2 DEF IsWalk
  <2>3. (IsDescendantOf(ix, e, c) <=> e \in m[MaxParentWalk]) /\ (IsDescendantOf(new, e, c) <=> e \in m[MaxParentWalk])
    BY <2>1, <2>2, WalkIs
  <2>4. IsDescendantOf(ix, e, c) \in BOOLEAN /\ IsDescendantOf(new, e, c) \in BOOLEAN
    BY DEF IsDescendantOf
  <2> QED BY <2>3, <2>4
<1> QED BY <1>1, <1>2

-----------------------------------------------------------------------------
(* Paths as sequences of names.                                             *)

(* What an entry is made of.                                                *)
LEMMA EntryParts ==
  ASSUME NEW ix \in Indexes, NEW e \in DOMAIN ix.entries
  PROVE  /\ ix.entries[e].parent \in Parents /\ ix.entries[e].dir \in BOOLEAN
         /\ ix.entries[e].rooted \in BOOLEAN
         /\ ix.entries[e].names \in Seq(Names) /\ ix.entries[e].names # <<>>
         /\ Len(ix.entries[e].names) \in Nat \ {0}
<1>1. ix.entries[e] \in Entries
  BY IndexParts
<1>2. /\ ix.entries[e].parent \in Parents /\ ix.entries[e].dir \in BOOLEAN
      /\ ix.entries[e].rooted \in BOOLEAN
      /\ ix.entries[e].names \in Seq(Names) /\ ix.entries[e].names # <<>>
  BY <1>1 DEF Entries
<1>3. \A s \in Seq(Names) : s # <<>> => Len(s) \in Nat \ {0}
  OBVIOUS
<1> QED BY <1>2, <1>3

(* Sequences of names.                                                      *)
LEMMA SameSequence ==
  ASSUME NEW s \in Seq(Names), NEW t \in Seq(Names), Len(s) = Len(t),
         \A i \in 1..Len(s) : s[i] = t[i]
  PROVE  s = t
<1>1. s \in [1..Len(s) -> Names] /\ t \in [1..Len(s) -> Names]
  OBVIOUS
<1>2. s = [i \in 1..Len(s) |-> s[i]] /\ t = [i \in 1..Len(s) |-> t[i]]
  BY <1>1
<1> QED BY <1>2

(* Append, entry by entry.                                                  *)
LEMMA Appended ==
  ASSUME NEW s \in Seq(Names), NEW x \in Names
  PROVE  /\ Append(s, x) \in Seq(Names) /\ Append(s, x) # <<>>
         /\ Len(Append(s, x)) = Len(s) + 1 /\ Append(s, x)[Len(s) + 1] = x
         /\ \A i \in 1..Len(s) : Append(s, x)[i] = s[i]
<1> QED OBVIOUS

(* The two parts of a sequence that is cut, entry by entry.                 *)
LEMMA Prefixes ==
  ASSUME NEW s \in Seq(Names), NEW d \in 0..Len(s)
  PROVE  /\ SubSeq(s, 1, d) \in Seq(Names) /\ Len(SubSeq(s, 1, d)) = d
         /\ \A i \in 1..d : SubSeq(s, 1, d)[i] = s[i]
         /\ SubSeq(s, d + 1, Len(s)) \in Seq(Names) /\ Len(SubSeq(s, d + 1, Len(s))) = Len(s) - d
         /\ \A i \in 1..(Len(s) - d) : SubSeq(s, d + 1, Len(s))[i] = s[d + i]
<1>1. Len(s) \in Nat /\ d \in Nat /\ d <= Len(s)
  OBVIOUS
<1> QED BY <1>1

(* Two sequences joined, entry by entry.                                    *)
LEMMA Joined ==
  ASSUME NEW q \in Seq(Names), NEW s \in Seq(Names)
  PROVE  /\ q \o s \in Seq(Names) /\ Len(q \o s) = Len(q) + Len(s)
         /\ \A i \in 1..Len(q) : (q \o s)[i] = q[i]
         /\ \A i \in 1..Len(s) : (q \o s)[Len(q) + i] = s[i]
<1> QED OBVIOUS

(* Another beginning in the place of the first d names.                     *)
Shift(q, s, d) == q \o SubSeq(s, d + 1, Len(s))

(* Shift, entry by entry.                                                   *)
LEMMA ShiftIs ==
  ASSUME NEW q \in Seq(Names), NEW s \in Seq(Names), NEW d \in 0..Len(s)
  PROVE  /\ Shift(q, s, d) \in Seq(Names) /\ Len(Shift(q, s, d)) = Len(q) + (Len(s) - d)
         /\ \A i \in 1..Len(q) : Shift(q, s, d)[i] = q[i]
         /\ \A i \in 1..(Len(s) - d) : Shift(q, s, d)[Len(q) + i] = s[d + i]
<1> DEFINE t == SubSeq(s, d + 1, Len(s))
<1>1. /\ t \in Seq(Names) /\ Len(t) = Len(s) - d
      /\ \A i \in 1..(Len(s) - d) : t[i] = s[d + i]
  BY Prefixes
<1>2. Shift(q, s, d) = q \o t
  BY DEF Shift
<1> HIDE DEF t
<1>3. /\ q \o t \in Seq(Names) /\ Len(q \o t) = Len(q) + Len(t)
      /\ \A i \in 1..Len(q) : (q \o t)[i] = q[i]
      /\ \A i \in 1..Len(t) : (q \o t)[Len(q) + i] = t[i]
  BY <1>1, Joined
<1> QED BY <1>1, <1>2, <1>3

(* Shift passes a last name on, and replaces a whole sequence.              *)
LEMMA ShiftAppend ==
  ASSUME NEW q \in Seq(Names), NEW s \in Seq(Names), NEW d \in 0..Len(s), NEW x \in Names
  PROVE  /\ Shift(q, Append(s, x), d) = Append(Shift(q, s, d), x)
         /\ d = Len(s) => Shift(q, s, d) = q
<1> DEFINE u == Append(s, x)
           a == Shift(q, u, d)
           b == Shift(q, s, d)
           c == Append(b, x)
<1>0. Len(s) \in Nat /\ Len(q) \in Nat /\ d \in Nat /\ d <= Len(s)
  OBVIOUS
<1>1. /\ u \in Seq(Names) /\ Len(u) = Len(s) + 1 /\ u[Len(s) + 1] = x
      /\ \A i \in 1..Len(s) : u[i] = s[i]
  BY Appended
<1> HIDE DEF u
<1>2. d \in 0..Len(u)
  BY <1>0, <1>1
<1>3. /\ a \in Seq(Names) /\ Len(a) = Len(q) + (Len(u) - d)
      /\ \A i \in 1..Len(q) : a[i] = q[i]
      /\ \A i \in 1..(Len(u) - d) : a[Len(q) + i] = u[d + i]
  BY <1>1, <1>2, ShiftIs
<1>4. /\ b \in Seq(Names) /\ Len(b) = Len(q) + (Len(s) - d)
      /\ \A i \in 1..Len(q) : b[i] = q[i]
      /\ \A i \in 1..(Len(s) - d) : b[Len(q) + i] = s[d + i]
  BY ShiftIs
<1> HIDE DEF a, b
<1>5. /\ c \in Seq(Names) /\ Len(c) = Len(b) + 1 /\ c[Len(b) + 1] = x
      /\ \A i \in 1..Len(b) : c[i] = b[i]
  BY <1>4, Appended
<1> HIDE DEF c
<1>6. Len(a) = Len(c)
  BY <1>0, <1>1, <1>3, <1>4, <1>5
<1>10. ASSUME NEW k \in 1..(Len(u) - d), k > Len(s) - d PROVE d + k = Len(s) + 1
  <2>1. Len(u) = Len(s) + 1
    BY <1>1
  <2> QED BY <1>0, <1>10, <2>1
<1>7. ASSUME NEW i \in 1..Len(a) PROVE a[i] = c[i]
  <2>1. CASE i <= Len(q)
    <3>1. i \in 1..Len(q) /\ i \in 1..Len(b)
      BY <1>0, <1>4, <2>1
    <3> QED BY <1>3, <1>4, <1>5, <3>1
  <2>2. CASE i > Len(q)
    <3> DEFINE j == i - Len(q)
    <3>1. j \in 1..(Len(u) - d) /\ Len(q) + j = i
      BY <1>0, <1>1, <1>3, <2>2
    <3>2. a[i] = u[d + j]
      BY <1>3, <3>1
    <3>3. CASE j <= Len(s) - d
      <4>1. j \in 1..(Len(s) - d) /\ d + j \in 1..Len(s) /\ i \in 1..Len(b)
        BY <1>0, <1>4, <3>1, <3>3
      <4>2. c[i] = s[d + j]
        BY <1>4, <1>5, <3>1, <4>1
      <4> QED BY <1>1, <3>2, <4>1, <4>2
    <3>4. CASE j > Len(s) - d
      <4>1. d + j = Len(s) + 1
        BY <1>0, <1>10, <3>1, <3>4
      <4>2. i = Len(b) + 1
        <5>1. i = Len(q) + j /\ j \in Int /\ Len(b) = Len(q) + (Len(s) - d)
          BY <1>4, <3>1
        <5> HIDE DEF j
        <5> QED BY <1>0, <4>1, <5>1
      <4>3. d + j = Len(s) + 1 /\ i = Len(b) + 1
        BY <4>1, <4>2
      <4> QED BY <1>1, <1>5, <3>2, <4>3
    <3> QED BY <1>0, <3>1, <3>3, <3>4
  <2> QED BY <1>0, <2>1, <2>2
<1>8. a = c
  BY <1>3, <1>5, <1>6, <1>7, SameSequence
<1>9. ASSUME d = Len(s) PROVE b = q
  <2>1. Len(b) = Len(q)
    BY <1>0, <1>4, <1>9
  <2> QED BY <1>4, <2>1, SameSequence
<1> QED BY <1>8, <1>9 DEF a, b, c, u

-----------------------------------------------------------------------------
(* The indexes in which no path can go wrong.                               *)
NoCycle(ix) == \A e \in DOMAIN ix.entries : ~IsDescendantOf(ix, e, e)
Short(ix) == \A e \in DOMAIN ix.entries : Len(ix.entries[e].names) < MaxParentWalk
Straight(ix) == Direct(ix) /\ NoCycle(ix) /\ Short(ix)

(* An index is straight exactly if what the model records of it says so.    *)
LEMMA StraightIsNotAstray ==
  ASSUME NEW ix \in Indexes
  PROVE  Straight(ix) <=> ~Astray(ix)
<1>1. \A e \in DOMAIN ix.entries : Len(ix.entries[e].names) \in Nat
  BY EntryParts
<1>2. MaxParentWalk \in Nat
  BY WalkAssumption
<1>3. \A e \in DOMAIN ix.entries :
         Len(ix.entries[e].names) < MaxParentWalk <=> ~(Len(ix.entries[e].names) >= MaxParentWalk)
  BY <1>1, <1>2
<1> QED BY <1>3 DEF Straight, Direct, NoCycle, Short, Astray

(* A path that is its parent's and one name more.                           *)
IsBelow(ix, e, p) ==
    /\ ix.entries[e].rooted = ix.entries[p].rooted
    /\ \E name \in Names : ix.entries[e].names = Append(ix.entries[p].names, name)

FollowsAt(ix, e) == ix.entries[e].parent \in DOMAIN ix.entries => IsBelow(ix, e, ix.entries[e].parent)

(* Every path is, but for some entries.                                     *)
FollowsBut(ix, X) == \A e \in DOMAIN ix.entries \ X : FollowsAt(ix, e)

(* That is what the property says of each entry.                            *)
LEMMA FollowsMeans ==
  ASSUME NEW ix \in Indexes, FollowsBut(ix, {}), NEW e \in DOMAIN ix.entries,
         ix.entries[e].parent \in DOMAIN ix.entries
  PROVE  PathOf(ix, e) = PathBelow(ix, ix.entries[e].parent, Leaf(ix.entries[e]))
<1> DEFINE p == ix.entries[e].parent
<1>1. PICK name \in Names : ix.entries[e].names = Append(ix.entries[p].names, name)
  BY DEF FollowsBut, FollowsAt, IsBelow
<1>2. ix.entries[e].rooted = ix.entries[p].rooted
  BY DEF FollowsBut, FollowsAt, IsBelow
<1>3. ix.entries[p].names \in Seq(Names)
  BY EntryParts
<1>4. Leaf(ix.entries[e]) = name
  BY <1>1, <1>3, Appended DEF Leaf
<1> QED BY <1>1, <1>2, <1>4 DEF PathOf, PathBelow

(* The names of what is below: those of the ancestor come first, and each   *)
(* further one is a step of the walk.                                       *)
StartsWith(s, t) == Len(s) > Len(t) /\ \A i \in 1..Len(t) : s[i] = t[i]

(* Where paths follow parents, outside of X and c and what is below         *)
(* them, an entry below c is met at the step its depth says.                *)
LEMMA PathsBelow ==
  ASSUME NEW ix \in Indexes, NEW X, FollowsBut(ix, X),
         NEW c \in DOMAIN ix.entries, NEW m, IsLevels(m, ix, c),
         \A x \in X \cup {c} : ~IsDescendantOf(ix, x, c)
  PROVE  \A e \in m[MaxParentWalk] :
            /\ e \in DOMAIN ix.entries /\ e # c /\ IsBelow(ix, e, ix.entries[e].parent)
            /\ ix.entries[e].parent = c \/ ix.entries[e].parent \in m[MaxParentWalk]
            /\ ix.entries[e].rooted = ix.entries[c].rooted
            /\ StartsWith(ix.entries[e].names, ix.entries[c].names)
            /\ e \in m[Len(ix.entries[e].names) - Len(ix.entries[c].names)]
<1> DEFINE top == MaxParentWalk
           s == ix.entries[c].names
           Good(e) == /\ e \in DOMAIN ix.entries /\ e # c /\ IsBelow(ix, e, ix.entries[e].parent)
                      /\ ix.entries[e].parent = c \/ ix.entries[e].parent \in m[top]
                      /\ ix.entries[e].rooted = ix.entries[c].rooted
                      /\ StartsWith(ix.entries[e].names, s)
                      /\ e \in m[Len(ix.entries[e].names) - Len(s)]
           T == {n \in Nat : n <= top => \A e \in m[n] : Good(e)}
<1>0. top \in Nat
  BY WalkAssumption
<1>1. /\ \A e : IsDescendantOf(ix, e, c) <=> e \in m[top]
      /\ m \in [Nat -> SUBSET DOMAIN ix.entries] /\ m[0] = {}
      /\ \A n \in Nat : m[n + 1] = {e \in DOMAIN ix.entries :
                            ix.entries[e].parent = c \/ ix.entries[e].parent \in m[n]}
      /\ \A n \in Nat : \A k \in 0..n : m[k] \subseteq m[n]
  BY DEF IsLevels
<1>2. \A e \in DOMAIN ix.entries : /\ ix.entries[e].names \in Seq(Names)
                                   /\ Len(ix.entries[e].names) \in Nat
  BY EntryParts
<1>3. s \in Seq(Names) /\ Len(s) \in Nat
  BY <1>2
<1> HIDE DEF s, top
<1>4. 0 \in T
  BY <1>1
<1>5. ASSUME NEW n \in Nat, n \in T PROVE n + 1 \in T
  <2> SUFFICES ASSUME n + 1 <= top, NEW e \in m[n + 1] PROVE Good(e)
    OBVIOUS
  <2> DEFINE p == ix.entries[e].parent
             t == ix.entries[e].names
             u == ix.entries[p].names
  <2>1. e \in DOMAIN ix.entries /\ (p = c \/ p \in m[n])
    BY <1>1
  <2>2. n \in 0..top /\ n + 1 \in 0..top /\ n <= top
    BY <1>0
  <2>3. e \in m[top] /\ (p \in m[n] => p \in m[top] /\ Good(p))
    <3>1. m[n + 1] \subseteq m[top] /\ m[n] \subseteq m[top]
      BY <1>0, <1>1, <2>2
    <3>2. \A d \in m[n] : Good(d)
      BY <1>5, <2>2
    <3> HIDE DEF Good
    <3> QED BY <3>1, <3>2
  <2>4. e # c /\ e \notin X
    BY <1>1, <2>3
  <2>5. p \in DOMAIN ix.entries /\ IsBelow(ix, e, p)
    BY <2>1, <2>3, <2>4 DEF FollowsBut, FollowsAt
  <2>6. PICK name \in Names : t = Append(u, name)
    BY <2>5 DEF IsBelow
  <2>7. u \in Seq(Names) /\ Len(u) \in Nat /\ t \in Seq(Names) /\ Len(t) \in Nat
    BY <1>2, <2>1, <2>5
  <2>8. ix.entries[e].rooted = ix.entries[p].rooted
    BY <2>5 DEF IsBelow
  <2> HIDE DEF t, u
  <2>9. Len(t) = Len(u) + 1 /\ \A i \in 1..Len(u) : t[i] = u[i]
    BY <2>6, <2>7, Appended
  <2>10. /\ ix.entries[e].rooted = ix.entries[c].rooted /\ StartsWith(t, s)
         /\ e \in m[Len(t) - Len(s)]
    <3>1. CASE p = c
      <4>1. u = s
        BY <3>1 DEF u, s
      <4>2. Len(t) - Len(s) = 0 + 1 /\ Len(t) > Len(s)
        BY <1>3, <2>9, <4>1
      <4>3. e \in m[0 + 1]
        BY <1>1, <2>1, <3>1
      <4> QED BY <2>8, <2>9, <3>1, <4>1, <4>2, <4>3 DEF StartsWith
    <3>2. CASE p \in m[n]
      <4>1. /\ ix.entries[p].rooted = ix.entries[c].rooted /\ StartsWith(u, s)
            /\ p \in m[Len(u) - Len(s)]
        BY <2>3, <3>2 DEF u
      <4>2. Len(u) > Len(s) /\ \A i \in 1..Len(s) : u[i] = s[i]
        BY <4>1 DEF StartsWith
      <4>3. Len(u) - Len(s) \in Nat /\ (Len(u) - Len(s)) + 1 = Len(t) - Len(s) /\ Len(t) > Len(s)
        BY <1>3, <2>7, <2>9, <4>2
      <4> DEFINE k == Len(u) - Len(s)
      <4>7. k \in Nat /\ p \in m[k] /\ e \in DOMAIN ix.entries /\ p = ix.entries[e].parent
        BY <2>1, <4>1, <4>3
      <4> HIDE DEF k, p
      <4>4. e \in m[k + 1]
        BY <1>1, <4>7
      <4>5. \A i \in 1..Len(s) : i \in 1..Len(u)
        BY <1>3, <2>7, <4>2
      <4>6. StartsWith(t, s)
        BY <2>9, <4>2, <4>3, <4>5 DEF StartsWith
      <4> QED BY <2>8, <4>1, <4>3, <4>4, <4>6 DEF k
    <3> QED BY <2>1, <3>1, <3>2
  <2> QED BY <2>1, <2>3, <2>4, <2>5, <2>10 DEF t
<1>6. top \in T
  <2> HIDE DEF T
  <2> QED BY <1>0, <1>4, <1>5, Upwards
<1>7. \A e \in m[top] : Good(e)
  <2> HIDE DEF Good
  <2> QED BY <1>0, <1>6
<1> QED BY <1>7 DEF s, top

(* What is below what is below.                                             *)
Closed(ix, c) ==
    \A e \in DOMAIN ix.entries :
        LET p == ix.entries[e].parent
        IN p \in DOMAIN ix.entries /\ IsDescendantOf(ix, p, c) => IsDescendantOf(ix, e, c)

(* While paths are no longer than the walk.                                 *)
LEMMA ShortIsClosed ==
  ASSUME NEW ix \in Indexes, One(ix), Direct(ix), NEW X, FollowsBut(ix, X),
         NEW c \in DOMAIN ix.entries, \A x \in X \cup {c} : ~IsDescendantOf(ix, x, c),
         \A e \in DOMAIN ix.entries : Len(ix.entries[e].names) <= MaxParentWalk
  PROVE  Closed(ix, c)
<1>1. PICK m : IsLevels(m, ix, c)
  BY Levels
<1> SUFFICES ASSUME NEW e \in DOMAIN ix.entries, ix.entries[e].parent \in m[MaxParentWalk]
             PROVE  e \in m[MaxParentWalk]
  BY <1>1 DEF Closed, IsLevels
<1> DEFINE p == ix.entries[e].parent
           k == Len(ix.entries[p].names) - Len(ix.entries[c].names)
<1>2. /\ p \in DOMAIN ix.entries /\ StartsWith(ix.entries[p].names, ix.entries[c].names)
      /\ p \in m[k]
  <2>1. \A d \in m[MaxParentWalk] :
            /\ d \in DOMAIN ix.entries
            /\ StartsWith(ix.entries[d].names, ix.entries[c].names)
            /\ d \in m[Len(ix.entries[d].names) - Len(ix.entries[c].names)]
    BY <1>1, PathsBelow
  <2> QED BY <2>1
<1>3. k \in Nat /\ k + 1 \in 0..MaxParentWalk /\ MaxParentWalk \in Nat
  <2>1. Len(ix.entries[p].names) > Len(ix.entries[c].names)
    BY <1>2 DEF StartsWith
  <2>2. Len(ix.entries[p].names) \in Nat \ {0} /\ Len(ix.entries[c].names) \in Nat \ {0}
    BY <1>2, EntryParts
  <2>3. Len(ix.entries[p].names) <= MaxParentWalk /\ MaxParentWalk \in Nat
    BY <1>2, WalkAssumption
  <2>4. \A a, b \in Nat \ {0} : a > b /\ a <= MaxParentWalk
            => a - b \in Nat /\ (a - b) + 1 \in 0..MaxParentWalk
    BY <2>3
  <2> QED BY <2>1, <2>2, <2>3, <2>4
<1> HIDE DEF k
<1>4. e \in m[k + 1]
  BY <1>1, <1>2, <1>3 DEF IsLevels
<1> QED BY <1>1, <1>3, <1>4 DEF IsLevels

-----------------------------------------------------------------------------
(* What the operations of the index do to paths.  First MoveSubtree.        *)

(* What MoveSubtree does to each entry, when no path is wrong below c.      *)
LEMMA MovedEntries ==
  ASSUME NEW ix \in Indexes, NEW c \in DOMAIN ix.entries, NEW new \in Paths,
         ix.entries[c].dir \/ \A e \in DOMAIN ix.entries : ~IsDescendantOf(ix, e, c),
         \A e \in DOMAIN ix.entries : IsDescendantOf(ix, e, c) =>
            /\ e # c /\ ix.entries[e].rooted = ix.entries[c].rooted
            /\ StartsWith(ix.entries[e].names, ix.entries[c].names)
  PROVE  LET moved == MoveSubtree(ix, c, new)
         IN /\ DOMAIN moved.entries = DOMAIN ix.entries
            /\ moved.entries[c].rooted = new.rooted /\ moved.entries[c].names = new.names
            /\ \A e \in DOMAIN ix.entries : IsDescendantOf(ix, e, c) =>
                  /\ moved.entries[e].rooted = new.rooted
                  /\ moved.entries[e].names = Shift(new.names, ix.entries[e].names, Len(ix.entries[c].names))
            /\ \A e \in DOMAIN ix.entries :
                  e # c /\ ~IsDescendantOf(ix, e, c) => moved.entries[e] = ix.entries[e]
<1> DEFINE moved == MoveSubtree(ix, c, new)
           old == PathOf(ix, c)
           depth == Len(old.names)
           Below(e) == /\ ix.entries[e].rooted = old.rooted
                       /\ Len(ix.entries[e].names) > depth
                       /\ SubSeq(ix.entries[e].names, 1, depth) = old.names
                       /\ IsDescendantOf(ix, e, c)
           Shifted(e) == new.names \o SubSeq(ix.entries[e].names, depth + 1, Len(ix.entries[e].names))
           At(e) == IF e = c
                    THEN [ix.entries[e] EXCEPT !.rooted = new.rooted, !.names = new.names]
                    ELSE IF ix.entries[c].dir /\ Below(e)
                    THEN [ix.entries[e] EXCEPT !.rooted = new.rooted, !.names = Shifted(e)]
                    ELSE ix.entries[e]
           D == DOMAIN ix.entries
<1>1. moved.entries = [e \in D |-> At(e)]
  BY DEF MoveSubtree, Indexes
<1>2. \A e \in D : moved.entries[e] = At(e)
  BY <1>1
<1>3. DOMAIN moved.entries = D
  BY <1>1
<1>4. /\ moved.entries[c].rooted = new.rooted /\ moved.entries[c].names = new.names
  BY MoveSubtreeTypes
<1>5. old.rooted = ix.entries[c].rooted /\ old.names = ix.entries[c].names
  BY DEF PathOf
<1> HIDE DEF moved, old
<1>6. ASSUME NEW e \in D, IsDescendantOf(ix, e, c)
      PROVE  /\ moved.entries[e].rooted = new.rooted
             /\ moved.entries[e].names = Shift(new.names, ix.entries[e].names, Len(ix.entries[c].names))
  <2>1. /\ e # c /\ ix.entries[e].rooted = ix.entries[c].rooted
        /\ StartsWith(ix.entries[e].names, ix.entries[c].names) /\ ix.entries[c].dir
    BY <1>6
  <2> DEFINE s == ix.entries[e].names
             t == ix.entries[c].names
  <2>2. s \in Seq(Names) /\ t \in Seq(Names) /\ Len(t) \in 0..Len(s) /\ Len(s) > Len(t)
    <3>1. s \in Seq(Names) /\ t \in Seq(Names) /\ Len(s) \in Nat /\ Len(t) \in Nat
      BY EntryParts
    <3>2. Len(s) > Len(t)
      BY <2>1 DEF StartsWith
    <3> QED BY <3>1, <3>2
  <2>3. \A i \in 1..Len(t) : s[i] = t[i]
    BY <2>1 DEF StartsWith
  <2> HIDE DEF s, t
  <2>4. /\ SubSeq(s, 1, Len(t)) \in Seq(Names) /\ Len(SubSeq(s, 1, Len(t))) = Len(t)
        /\ \A i \in 1..Len(t) : SubSeq(s, 1, Len(t))[i] = s[i]
    BY <2>2, Prefixes
  <2>5. SubSeq(s, 1, Len(t)) = t
    BY <2>2, <2>3, <2>4, SameSequence
  <2>6. Below(e)
    BY <1>5, <1>6, <2>1, <2>2, <2>5, Zenon DEF s, t
  <2>7. moved.entries[e] = [ix.entries[e] EXCEPT !.rooted = new.rooted, !.names = Shifted(e)]
    BY <1>2, <2>1, <2>6, Zenon
  <2>8. ix.entries[e] \in Entries
    BY IndexParts
  <2>9. Shifted(e) = Shift(new.names, ix.entries[e].names, Len(ix.entries[c].names))
    BY <1>5, Zenon DEF Shift
  <2> HIDE DEF Shifted
  <2> QED BY <2>7, <2>8, <2>9 DEF Entries
<1>7. ASSUME NEW e \in D, e # c, ~IsDescendantOf(ix, e, c) PROVE moved.entries[e] = ix.entries[e]
  BY <1>2, <1>7, Zenon
<1> QED BY <1>3, <1>4, <1>6, <1>7 DEF moved

(* A path below another, both with the same other beginning.                *)
LEMMA ShiftedIsBelow ==
  ASSUME NEW q \in Seq(Names), NEW s \in Seq(Names), NEW t \in Seq(Names), NEW d \in 0..Len(s),
         \E name \in Names : t = Append(s, name)
  PROVE  /\ \E name \in Names : Shift(q, t, d) = Append(Shift(q, s, d), name)
         /\ d = Len(s) => \E name \in Names : Shift(q, t, d) = Append(q, name)
<1>1. PICK name \in Names : t = Append(s, name)
  OBVIOUS
<1>2. /\ Shift(q, t, d) = Append(Shift(q, s, d), name)
      /\ d = Len(s) => Shift(q, s, d) = q
  BY <1>1, ShiftAppend
<1> QED BY <1>2

(* MoveSubtree puts the entry below its parent, and what is below it stays  *)
(* below.                                                                   *)
LEMMA MoveSubtreeFollows ==
  ASSUME NEW ix \in Indexes, One(ix), Direct(ix), NEW X, FollowsBut(ix, X),
         NEW c \in DOMAIN ix.entries, \A x \in X \cup {c} : ~IsDescendantOf(ix, x, c),
         Closed(ix, c), ix.entries[c].dir \/ \A e \in DOMAIN ix.entries : ix.entries[e].parent # c,
         NEW new \in Paths,
         ix.entries[c].parent \in DOMAIN ix.entries =>
            /\ new.rooted = ix.entries[ix.entries[c].parent].rooted
            /\ \E name \in Names : new.names = Append(ix.entries[ix.entries[c].parent].names, name)
  PROVE  FollowsBut(MoveSubtree(ix, c, new), X \ {c})
<1> DEFINE moved == MoveSubtree(ix, c, new)
           D == DOMAIN ix.entries
           Desc(e) == IsDescendantOf(ix, e, c)
           depth == Len(ix.entries[c].names)
<1>1. PICK m : IsLevels(m, ix, c)
  BY Levels
<1>2. \A e : Desc(e) <=> e \in m[MaxParentWalk]
  BY <1>1 DEF IsLevels
<1>3. MaxParentWalk \in Nat /\ MaxParentWalk - 1 \in Nat /\ (MaxParentWalk - 1) + 1 = MaxParentWalk
  BY WalkAssumption
<1>4. \A e \in D : ix.entries[e].parent = c => Desc(e)
  <2>1. m[(MaxParentWalk - 1) + 1] = {e \in D : ix.entries[e].parent = c \/ ix.entries[e].parent \in m[MaxParentWalk - 1]}
    BY <1>1, <1>3 DEF IsLevels
  <2> QED BY <1>2, <1>3, <2>1
<1>5. \A e : Desc(e) =>
            /\ e \in D /\ e # c /\ IsBelow(ix, e, ix.entries[e].parent)
            /\ ix.entries[e].parent = c \/ Desc(ix.entries[e].parent)
            /\ ix.entries[e].rooted = ix.entries[c].rooted
            /\ StartsWith(ix.entries[e].names, ix.entries[c].names)
  <2>1. \A e \in m[MaxParentWalk] :
            /\ e \in D /\ e # c /\ IsBelow(ix, e, ix.entries[e].parent)
            /\ ix.entries[e].parent = c \/ ix.entries[e].parent \in m[MaxParentWalk]
            /\ ix.entries[e].rooted = ix.entries[c].rooted
            /\ StartsWith(ix.entries[e].names, ix.entries[c].names)
    <3>1. /\ \A x \in X \cup {c} : ~IsDescendantOf(ix, x, c)
          /\ IsLevels(m, ix, c)
      BY <1>1
    <3>2. \A e \in m[MaxParentWalk] :
            /\ e \in DOMAIN ix.entries /\ e # c /\ IsBelow(ix, e, ix.entries[e].parent)
            /\ ix.entries[e].parent = c \/ ix.entries[e].parent \in m[MaxParentWalk]
            /\ ix.entries[e].rooted = ix.entries[c].rooted
            /\ StartsWith(ix.entries[e].names, ix.entries[c].names)
            /\ e \in m[Len(ix.entries[e].names) - Len(ix.entries[c].names)]
      <4> HIDE DEF Desc, depth, moved, D
      <4> QED BY <3>1, PathsBelow
    <3> QED BY <3>2
  <2> HIDE DEF Desc
  <2> QED BY <1>2, <2>1
<1>6. ix.entries[c].dir \/ \A e \in D : ~Desc(e)
  <2> SUFFICES ASSUME \A e \in D : ix.entries[e].parent # c PROVE \A e \in D : ~Desc(e)
    OBVIOUS
  <2> DEFINE T == {n \in Nat : m[n] = {}}
  <2>1. 0 \in T
    BY <1>1 DEF IsLevels
  <2>2. ASSUME NEW n \in Nat, n \in T PROVE n + 1 \in T
    <3>1. m[n + 1] = {e \in D : ix.entries[e].parent = c \/ ix.entries[e].parent \in m[n]}
      BY <1>1 DEF IsLevels
    <3>2. m[n] = {} /\ \A e \in D : ix.entries[e].parent # c
      BY <2>2
    <3>3. m[n + 1] = {}
      BY <3>1, <3>2
    <3>4. n + 1 \in Nat
      OBVIOUS
    <3> QED BY <3>3, <3>4
  <2> HIDE DEF T
  <2>3. MaxParentWalk \in T
    BY <1>3, <2>1, <2>2, Upwards
  <2> QED BY <1>2, <2>3 DEF T
<1>7. \A e \in D : ix.entries[e].parent \in D /\ Desc(ix.entries[e].parent) => Desc(e)
  BY DEF Closed
<1>8. ~Desc(c) /\ \A x \in X : ~Desc(x)
  OBVIOUS
<1>9. /\ SameTree(ix, moved) /\ DOMAIN moved.entries = D
      /\ moved.entries[c].rooted = new.rooted /\ moved.entries[c].names = new.names
      /\ \A e \in D : Desc(e) => /\ moved.entries[e].rooted = new.rooted
                                 /\ moved.entries[e].names = Shift(new.names, ix.entries[e].names, depth)
      /\ \A e \in D : e # c /\ ~Desc(e) => moved.entries[e] = ix.entries[e]
  <2>1. SameTree(ix, moved)
    BY MoveSubtreeTypes
  <2> HIDE DEF Desc, depth
  <2> QED BY <1>5, <1>6, <2>1, MovedEntries DEF Desc, depth
<1> HIDE DEF moved, Desc
<1> SUFFICES ASSUME NEW e \in D, e \notin X \/ e = c, ix.entries[e].parent \in D
             PROVE  IsBelow(moved, e, ix.entries[e].parent)
  BY <1>9 DEF FollowsBut, FollowsAt, SameTree, moved
<1> DEFINE p == ix.entries[e].parent
<1>10. CASE e = c
  <2>1. p # c /\ ~Desc(p)
    BY <1>4, <1>7, <1>8, <1>10
  <2>2. moved.entries[p] = ix.entries[p]
    BY <1>9, <2>1
  <2> QED BY <1>9, <1>10, <2>2 DEF IsBelow
<1>11. CASE Desc(e)
  <2>1. /\ IsBelow(ix, e, p) /\ (p = c \/ Desc(p)) /\ e # c
        /\ moved.entries[e].rooted = new.rooted
        /\ moved.entries[e].names = Shift(new.names, ix.entries[e].names, depth)
    BY <1>5, <1>9, <1>11
  <2>2. /\ new.names \in Seq(Names)
        /\ ix.entries[p].names \in Seq(Names) /\ ix.entries[e].names \in Seq(Names)
        /\ depth \in Nat /\ Len(ix.entries[p].names) \in Nat
    BY EntryParts DEF Paths
  <2>3. \E name \in Names : ix.entries[e].names = Append(ix.entries[p].names, name)
    BY <2>1 DEF IsBelow
  <2>4. CASE p = c
    <3>1. depth \in 0..Len(ix.entries[p].names) /\ depth = Len(ix.entries[p].names)
      BY <2>2, <2>4
    <3> HIDE DEF depth, p
    <3>2. \E name \in Names : Shift(new.names, ix.entries[e].names, depth) = Append(new.names, name)
      BY <2>2, <2>3, <3>1, ShiftedIsBelow
    <3> QED BY <1>9, <2>1, <2>4, <3>2 DEF IsBelow, p
  <2>5. CASE Desc(p)
    <3>1. depth \in 0..Len(ix.entries[p].names)
      <4>1. Len(ix.entries[p].names) > depth
        BY <1>5, <2>5 DEF StartsWith
      <4> QED BY <2>2, <4>1
    <3>2. /\ moved.entries[p].rooted = new.rooted
          /\ moved.entries[p].names = Shift(new.names, ix.entries[p].names, depth)
      BY <1>5, <1>9, <2>5
    <3> HIDE DEF depth, p
    <3>3. \E name \in Names : Shift(new.names, ix.entries[e].names, depth)
                = Append(Shift(new.names, ix.entries[p].names, depth), name)
      BY <2>2, <2>3, <3>1, ShiftedIsBelow
    <3> QED BY <2>1, <3>2, <3>3 DEF IsBelow, p
  <2> QED BY <2>1, <2>4, <2>5
<1>12. CASE e # c /\ ~Desc(e)
  <2>1. p # c /\ ~Desc(p)
    BY <1>4, <1>7, <1>12
  <2>2. moved.entries[p] = ix.entries[p] /\ moved.entries[e] = ix.entries[e]
    BY <1>9, <1>12, <2>1
  <2>3. IsBelow(ix, e, p)
    BY <1>12 DEF FollowsBut, FollowsAt
  <2> QED BY <2>2, <2>3 DEF IsBelow
<1> QED BY <1>10, <1>11, <1>12

(* The end of a path put behind another beginning.                          *)
LEMMA ShiftKeepsEnd ==
  ASSUME NEW q \in Seq(Names), NEW s \in Seq(Names), NEW d \in Nat, Len(s) > d
  PROVE  /\ Shift(q, s, d) \in Seq(Names) /\ Len(Shift(q, s, d)) = Len(q) + (Len(s) - d)
         /\ Shift(q, s, d)[Len(Shift(q, s, d))] = s[Len(s)]
<1>1. Len(s) \in Nat /\ Len(q) \in Nat /\ d \in 0..Len(s)
  OBVIOUS
<1> DEFINE t == Shift(q, s, d)
           n == Len(s) - d
<1>2. /\ t \in Seq(Names) /\ Len(t) = Len(q) + n
      /\ \A i \in 1..n : t[Len(q) + i] = s[d + i]
  BY <1>1, ShiftIs
<1>3. n \in 1..n /\ d + n = Len(s)
  BY <1>1
<1> HIDE DEF t, n
<1> QED BY <1>2, <1>3 DEF t, n

(* The other entries keep the last name of their path, and a path of one    *)
(* name; with as many names as before, no path is longer.                   *)
LEMMA MoveSubtreeShape ==
  ASSUME NEW ix \in Indexes, NEW c \in DOMAIN ix.entries, NEW new \in Paths
  PROVE  LET moved == MoveSubtree(ix, c, new)
         IN /\ Leaf(moved.entries[c]) = new.names[Len(new.names)]
            /\ \A e \in DOMAIN ix.entries : e # c =>
                  /\ Leaf(moved.entries[e]) = Leaf(ix.entries[e])
                  /\ Len(ix.entries[e].names) = 1 => moved.entries[e] = ix.entries[e]
            /\ Len(new.names) = Len(ix.entries[c].names) =>
                  \A e \in DOMAIN ix.entries : Len(moved.entries[e].names) = Len(ix.entries[e].names)
<1> DEFINE moved == MoveSubtree(ix, c, new)
           old == PathOf(ix, c)
           depth == Len(old.names)
           Below(e) == /\ ix.entries[e].rooted = old.rooted
                       /\ Len(ix.entries[e].names) > depth
                       /\ SubSeq(ix.entries[e].names, 1, depth) = old.names
                       /\ IsDescendantOf(ix, e, c)
           Shifted(e) == new.names \o SubSeq(ix.entries[e].names, depth + 1, Len(ix.entries[e].names))
           At(e) == IF e = c
                    THEN [ix.entries[e] EXCEPT !.rooted = new.rooted, !.names = new.names]
                    ELSE IF ix.entries[c].dir /\ Below(e)
                    THEN [ix.entries[e] EXCEPT !.rooted = new.rooted, !.names = Shifted(e)]
                    ELSE ix.entries[e]
           D == DOMAIN ix.entries
<1>1. moved.entries = [e \in D |-> At(e)]
  BY DEF MoveSubtree, Indexes
<1>2. \A e \in D : moved.entries[e] = At(e)
  BY <1>1
<1>3. moved.entries[c].names = new.names
  BY MoveSubtreeTypes
<1>4. depth = Len(ix.entries[c].names) /\ depth \in Nat \ {0}
  <2>1. Len(ix.entries[c].names) \in Nat \ {0}
    BY EntryParts
  <2> QED BY <2>1 DEF PathOf
<1>5. new.names \in Seq(Names) /\ Len(new.names) \in Nat
  BY DEF Paths
<1> HIDE DEF moved, old, depth
<1>6. ASSUME NEW e \in D, e # c
      PROVE  \/ moved.entries[e] = ix.entries[e]
             \/ /\ Len(ix.entries[e].names) > depth
                /\ moved.entries[e].names = Shift(new.names, ix.entries[e].names, depth)
  <2>1. CASE ix.entries[c].dir /\ Below(e)
    <3>1. moved.entries[e] = [ix.entries[e] EXCEPT !.rooted = new.rooted, !.names = Shifted(e)]
      BY <1>2, <1>6, <2>1, Zenon
    <3>2. Shifted(e) = Shift(new.names, ix.entries[e].names, depth)
      BY Zenon DEF Shift
    <3>3. ix.entries[e] \in Entries
      BY IndexParts
    <3> HIDE DEF Shifted
    <3>4. moved.entries[e].names = Shifted(e)
      BY <3>1, <3>3 DEF Entries
    <3> QED BY <2>1, <3>2, <3>4
  <2>2. CASE ~(ix.entries[c].dir /\ Below(e))
    BY <1>2, <1>6, <2>2, Zenon
  <2> QED BY <2>1, <2>2
<1> HIDE DEF D
<1>7. ASSUME NEW e \in D, e # c
      PROVE  /\ Leaf(moved.entries[e]) = Leaf(ix.entries[e])
             /\ Len(ix.entries[e].names) = 1 => moved.entries[e] = ix.entries[e]
             /\ Len(new.names) = depth => Len(moved.entries[e].names) = Len(ix.entries[e].names)
  <2> DEFINE s == ix.entries[e].names
  <2>1. s \in Seq(Names) /\ Len(s) \in Nat
    BY EntryParts DEF D
  <2>2. CASE moved.entries[e] = ix.entries[e]
    BY <2>2
  <2>3. CASE Len(s) > depth /\ moved.entries[e].names = Shift(new.names, s, depth)
    <3> HIDE DEF s
    <3>1. LET t == Shift(new.names, s, depth) IN
          Len(t) = Len(new.names) + (Len(s) - depth) /\ t[Len(t)] = s[Len(s)]
      BY <1>4, <1>5, <2>1, <2>3, ShiftKeepsEnd
    <3>2. Len(s) # 1
      <4>1. Len(s) > depth /\ depth \in Nat \ {0} /\ Len(s) \in Nat
        BY <1>4, <2>1, <2>3
      <4>2. \A a \in Nat, b \in Nat \ {0} : a > b => a # 1
        OBVIOUS
      <4> QED BY <4>1, <4>2, Zenon
    <3>3. Len(new.names) = depth => Len(Shift(new.names, s, depth)) = Len(s)
      BY <1>4, <1>5, <2>1, <3>1
    <3> QED BY <2>3, <3>1, <3>2, <3>3 DEF Leaf, s
  <2> QED BY <1>6, <1>7, <2>2, <2>3
<1>8. Len(new.names) = depth => Len(moved.entries[c].names) = Len(ix.entries[c].names)
  BY <1>3, <1>4
<1> QED BY <1>3, <1>4, <1>7, <1>8 DEF Leaf, moved, D

-----------------------------------------------------------------------------
(* Healing.                                                                 *)

(* Where nothing waits, there is nothing to heal.                           *)
LEMMA HealsNothing ==
  ASSUME NEW ix \in Sound, NEW parent \in DOMAIN ix.entries, ix.awaiting[parent.rec] = {}
  PROVE  Heals(ix, parent) = {} /\ HealChildren(parent, ix) = ix
<1> DEFINE start == [ix EXCEPT !.awaiting[parent.rec] = {}]
           Heal(c, i) == MoveSubtree(i, c, PathBelow(i, parent, Leaf(i.entries[c])))
           Body(g) == [s \in SUBSET {} |-> IF s = {} THEN start
                          ELSE Heal(CHOOSE x \in s : TRUE, g[s \ {CHOOSE x \in s : TRUE}])]
           h == CHOOSE g : g = Body(g)
<1>1. Heals(ix, parent) = {}
  BY DEF Heals
<1>2. HealChildren(parent, ix) = h[{}]
  BY <1>1, Zenon DEF HealChildren, FoldSet, MapThenFoldSet
<1>3. start = ix
  <2>1. ix.awaiting \in [Records -> SUBSET References] /\ parent.rec \in Records
    BY IndexParts DEF Sound, References
  <2> DEFINE w == [ix.awaiting EXCEPT ![parent.rec] = {}]
  <2>2. w = ix.awaiting
    BY <2>1
  <2>3. start = [ix EXCEPT !.awaiting = w]
    BY DEF Sound, Indexes
  <2> HIDE DEF w, start
  <2> QED BY <2>2, <2>3 DEF Sound, Indexes
<1> HIDE DEF start, Heal
<1>4. \E g : g = Body(g)
  <2> DEFINE g == [s \in SUBSET {} |-> start]
  <2>1. g = Body(g)
    OBVIOUS
  <2> QED BY <2>1
<1>5. h = Body(h)
  <2> HIDE DEF Body
  <2> QED BY <1>4
<1> HIDE DEF h
<1>6. h[{}] = start
  BY <1>5
<1> QED BY <1>1, <1>2, <1>3, <1>6

(* A level of one record heals its children; one where nothing waits heals  *)
(* nothing.                                                                 *)
LEMMA HealsOne ==
  ASSUME NEW ix, NEW id
  PROVE  FoldSet(HealChildren, ix, {id}) = HealChildren(id, ix)
<1> DEFINE Body(g) == [s \in SUBSET {id} |-> IF s = {} THEN ix
                          ELSE HealChildren(CHOOSE x \in s : TRUE, g[s \ {CHOOSE x \in s : TRUE}])]
           h == CHOOSE g : g = Body(g)
<1>1. FoldSet(HealChildren, ix, {id}) = h[{id}]
  BY Zenon DEF FoldSet, MapThenFoldSet
<1>2. \E g : g = Body(g)
  <2> DEFINE g == [s \in SUBSET {id} |-> IF s = {} THEN ix ELSE HealChildren(id, ix)]
  <2>1. ASSUME NEW s \in SUBSET {id}
        PROVE  g[s] = IF s = {} THEN ix
                      ELSE HealChildren(CHOOSE x \in s : TRUE, g[s \ {CHOOSE x \in s : TRUE}])
    <3>1. CASE s = {}
      BY <3>1
    <3>2. CASE s # {}
      <4>1. s = {id} /\ (CHOOSE x \in s : TRUE) = id /\ s \ {id} = {}
        BY <3>2
      <4>2. g[{}] = ix /\ g[s] = HealChildren(id, ix)
        BY <3>2
      <4> HIDE DEF g
      <4> QED BY <3>2, <4>1, <4>2
    <3> QED BY <3>1, <3>2
  <2>2. g = [s \in SUBSET {id} |-> g[s]]
    OBVIOUS
  <2> HIDE DEF g
  <2>3. g = Body(g)
    BY <2>1, <2>2
  <2> QED BY <2>3
<1>3. h = Body(h)
  <2> HIDE DEF Body
  <2> QED BY <1>2
<1> HIDE DEF h
<1>4. h[{id}] = HealChildren(CHOOSE x \in {id} : TRUE, h[{id} \ {CHOOSE x \in {id} : TRUE}]) /\ h[{}] = ix
  BY <1>3
<1>5. (CHOOSE x \in {id} : TRUE) = id /\ {id} \ {id} = {}
  OBVIOUS
<1> QED BY <1>1, <1>4, <1>5

(* A healing of entries nothing waits for does nothing.                     *)
LEMMA HealsNone ==
  ASSUME NEW ix \in Sound, NEW S, S \subseteq DOMAIN ix.entries, \A p \in S : ix.awaiting[p.rec] = {}
  PROVE  FoldSet(HealChildren, ix, S) = ix /\ UNION {Heals(ix, p) : p \in S} = {}
<1> DEFINE Body(g) == [s \in SUBSET S |-> IF s = {} THEN ix
                          ELSE HealChildren(CHOOSE x \in s : TRUE, g[s \ {CHOOSE x \in s : TRUE}])]
           h == CHOOSE g : g = Body(g)
<1>1. FoldSet(HealChildren, ix, S) = h[S]
  BY Zenon DEF FoldSet, MapThenFoldSet
<1>2. \A p \in S : Heals(ix, p) = {} /\ HealChildren(p, ix) = ix
  BY HealsNothing
<1>3. \E g : g = Body(g)
  <2> DEFINE g == [s \in SUBSET S |-> ix]
  <2>1. ASSUME NEW s \in SUBSET S, s # {}
        PROVE  HealChildren(CHOOSE x \in s : TRUE, g[s \ {CHOOSE x \in s : TRUE}]) = ix
    <3> DEFINE x == CHOOSE y \in s : TRUE
    <3>1. x \in S /\ s \ {x} \in SUBSET S
      BY <2>1
    <3> QED BY <1>2, <3>1
  <2>2. g = Body(g)
    BY <2>1
  <2> QED BY <2>2
<1>4. h = Body(h)
  <2> HIDE DEF Body
  <2> QED BY <1>3
<1> HIDE DEF h
<1> DEFINE B == {s \in SUBSET S : h[s] = ix}
<1>5. {} \in B
  BY <1>4
<1>6. ASSUME NEW s \in SUBSET S, s # {} PROVE \E x \in s : s \ {x} \in B => s \in B
  <2> DEFINE x == CHOOSE y \in s : TRUE
  <2>1. x \in s
    BY <1>6
  <2>2. h[s] = HealChildren(x, h[s \ {x}])
    BY <1>4, <1>6
  <2> HIDE DEF x
  <2>3. s \ {x} \in B => s \in B
    BY <1>2, <2>1, <2>2
  <2> QED BY <2>1, <2>3
<1>7. S \in B
  <2>1. IsFiniteSet(S)
    BY IndexParts, FS_Subset DEF Sound
  <2> HIDE DEF B
  <2> QED BY <1>5, <1>6, <2>1, SetInduction
<1> QED BY <1>1, <1>2, <1>7

(* HealAwaiting stops at the children of the record, when no child waits    *)
(* for an entry.                                                            *)
LEMMA HealAwaitingIs ==
  ASSUME NEW ix \in Sound, NEW id \in DOMAIN ix.entries,
         \A e \in DOMAIN ix.entries : e.rec # id.rec => ix.awaiting[e.rec] = {}
  PROVE  HealAwaiting(ix, id) = HealChildren(id, ix)
<1> DEFINE base == [ix |-> ix, queue |-> {id}]
           Level(v) == [ix |-> FoldSet(HealChildren, v.ix, v.queue),
                        queue |-> UNION {Heals(v.ix, p) : p \in v.queue}]
           Body(f) == [level \in Nat |-> IF level = 0 THEN base ELSE Level(f[level - 1])]
           after == CHOOSE f : f = Body(f)
           new == HealChildren(id, ix)
           one == [ix |-> new, queue |-> Heals(ix, id)]
           rest == [ix |-> new, queue |-> {}]
<1>1. HealAwaiting(ix, id) = after[Cardinality(DOMAIN ix.entries)].ix
  BY Zenon DEF HealAwaiting
<1>2. /\ new \in Sound /\ DOMAIN new.entries = DOMAIN ix.entries
      /\ \A e \in DOMAIN ix.entries : new.awaiting[e.rec] = {}
  <2>1. /\ new \in Sound /\ SameTree(ix, new)
        /\ \A r \in Records : new.awaiting[r] \subseteq ix.awaiting[r]
        /\ new.awaiting[id.rec] = {}
    BY HealChildrenTypes
  <2>2. \A e \in DOMAIN ix.entries : e.rec \in Records
    BY IndexParts DEF Sound, References
  <2> HIDE DEF new
  <2>3. ASSUME NEW e \in DOMAIN ix.entries PROVE new.awaiting[e.rec] = {}
    <3>1. CASE e.rec = id.rec
      BY <2>1, <3>1
    <3>2. CASE e.rec # id.rec
      BY <2>1, <2>2, <3>2
    <3> QED BY <3>1, <3>2
  <2> QED BY <2>1, <2>3 DEF SameTree
<1>3. Level(base) = one
  <2>1. UNION {Heals(ix, p) : p \in {id}} = Heals(ix, id)
    OBVIOUS
  <2>2. FoldSet(HealChildren, ix, {id}) = new
    BY HealsOne
  <2> QED BY <2>1, <2>2
<1>4. Level(one) = rest
  <2>1. Heals(ix, id) \subseteq DOMAIN new.entries
    BY <1>2 DEF Heals
  <2>2. FoldSet(HealChildren, new, Heals(ix, id)) = new /\ UNION {Heals(new, p) : p \in Heals(ix, id)} = {}
    <3> HIDE DEF new
    <3> QED BY <1>2, <2>1, HealsNone
  <2> QED BY <2>2
<1>5. Level(rest) = rest
  <2>1. FoldSet(HealChildren, new, {}) = new /\ UNION {Heals(new, p) : p \in {}} = {}
    <3> HIDE DEF new
    <3> QED BY <1>2, HealsNone
  <2> QED BY <2>1
<1>7. one.ix = new /\ rest.ix = new
  OBVIOUS
<1> HIDE DEF base, Level, one, rest, new
<1> DEFINE f == [n \in Nat |-> IF n = 0 THEN base ELSE IF n = 1 THEN one ELSE rest]
<1>8. f = Body(f)
  <2>1. ASSUME NEW n \in Nat PROVE f[n] = IF n = 0 THEN base ELSE Level(f[n - 1])
    <3>1. CASE n = 0
      BY <3>1
    <3>2. CASE n = 1
      <4>1. f[n] = one /\ f[n - 1] = base
        BY <3>2
      <4> QED BY <1>3, <3>2, <4>1
    <3>3. CASE n = 2
      <4>1. f[n] = rest /\ f[n - 1] = one
        BY <3>3
      <4> QED BY <1>4, <3>3, <4>1
    <3>4. CASE n > 2
      <4>1. f[n] = rest /\ f[n - 1] = rest /\ n # 0
        BY <3>4
      <4> QED BY <1>5, <4>1
    <3> QED BY <3>1, <3>2, <3>3, <3>4
  <2>2. f = [n \in Nat |-> f[n]]
    OBVIOUS
  <2> HIDE DEF f
  <2> QED BY <2>1, <2>2
<1>9. after = Body(after)
  <2> HIDE DEF Body, f
  <2> QED BY <1>8
<1> HIDE DEF after
<1> DEFINE T == {n \in Nat : n # 0 => after[n] = one \/ after[n] = rest}
<1>10. 0 \in T
  OBVIOUS
<1>11. ASSUME NEW n \in Nat, n \in T PROVE n + 1 \in T
  <2>1. after[n + 1] = Level(after[n]) /\ (n = 0 => after[n] = base)
    BY <1>9
  <2> QED BY <1>3, <1>4, <1>5, <1>11, <2>1
<1>12. Cardinality(DOMAIN ix.entries) \in Nat \ {0}
  BY IndexParts, FS_CardinalityType, FS_EmptySet DEF Sound
<1>13. Cardinality(DOMAIN ix.entries) \in T
  <2>1. Nat \subseteq T
    <3> HIDE DEF T
    <3> QED BY <1>10, <1>11, Upwards
  <2> QED BY <1>12, <2>1
<1> QED BY <1>1, <1>7, <1>12, <1>13 DEF new

(* Parents are directories; what is at the root has a path of one name.     *)
UnderFolders(ix) ==
    \A e \in DOMAIN ix.entries :
        ix.entries[e].parent \in DOMAIN ix.entries => ix.entries[ix.entries[e].parent].dir

AtRoot(ix) ==
    \A e \in DOMAIN ix.entries :
        ix.entries[e].parent = Root => ix.entries[e].rooted /\ Len(ix.entries[e].names) = 1

SameLeaves(ix, new) == \A e \in DOMAIN ix.entries : Leaf(new.entries[e]) = Leaf(ix.entries[e])

(* What a tree is does not depend on paths.                                 *)
LEMMA SameTreeKeeps ==
  ASSUME NEW ix, NEW new, SameTree(ix, new)
  PROVE  /\ One(new) <=> One(ix)
         /\ Keyed(new) <=> Keyed(ix)
         /\ Direct(new) <=> Direct(ix)
         /\ NoCycle(new) <=> NoCycle(ix)
         /\ UnderFolders(new) <=> UnderFolders(ix)
         /\ \A c : Closed(new, c) <=> Closed(ix, c)
         /\ \A e, c : IsDescendantOf(new, e, c) = IsDescendantOf(ix, e, c)
<1>1. /\ DOMAIN new.entries = DOMAIN ix.entries /\ new.canonical = ix.canonical
      /\ \A e \in DOMAIN ix.entries : /\ new.entries[e].parent = ix.entries[e].parent
                                      /\ new.entries[e].dir = ix.entries[e].dir
  BY DEF SameTree
<1>2. /\ \A ref : ResolveEntryReference(new, ref) = ResolveEntryReference(ix, ref)
      /\ \A e, c : IsDescendantOf(new, e, c) = IsDescendantOf(ix, e, c)
  BY <1>1, WalkOfTree
<1>3. (One(new) <=> One(ix)) /\ (Keyed(new) <=> Keyed(ix))
  BY <1>1 DEF One, Keyed
<1>4. Direct(new) <=> Direct(ix)
  BY <1>1, <1>2 DEF Direct
<1>5. NoCycle(new) <=> NoCycle(ix)
  BY <1>1, <1>2 DEF NoCycle
<1>6. UnderFolders(new) <=> UnderFolders(ix)
  BY <1>1 DEF UnderFolders
<1>7. \A c : Closed(new, c) <=> Closed(ix, c)
  BY <1>1, <1>2 DEF Closed
<1> QED BY <1>2, <1>3, <1>4, <1>5, <1>6, <1>7

(* Without a cycle no entry is its own parent, and siblings are not below   *)
(* each other.                                                              *)
LEMMA SiblingsAreApart ==
  ASSUME NEW ix \in Indexes, One(ix), Direct(ix), NoCycle(ix),
         NEW c \in DOMAIN ix.entries, ix.entries[c].parent \in DOMAIN ix.entries
  PROVE  /\ ix.entries[c].parent # c
         /\ \A x \in DOMAIN ix.entries :
               ix.entries[x].parent = ix.entries[c].parent => ~IsDescendantOf(ix, x, c)
<1> DEFINE p == ix.entries[c].parent
           D == DOMAIN ix.entries
<1>1. PICK m : IsLevels(m, ix, c)
  BY Levels
<1>2. PICK k \in Nat : MaxParentWalk = k + 1
  <2>1. MaxParentWalk - 1 \in Nat /\ MaxParentWalk = (MaxParentWalk - 1) + 1
    BY WalkAssumption
  <2> QED BY <2>1
<1>3. /\ m[k + 1] = {e \in D : ix.entries[e].parent = c \/ ix.entries[e].parent \in m[k]}
      /\ \A e : IsDescendantOf(ix, e, c) <=> e \in m[k + 1]
  BY <1>1, <1>2 DEF IsLevels
<1>4. c \notin m[k + 1]
  BY <1>3 DEF NoCycle
<1>5. p # c /\ p \notin m[k]
  BY <1>3, <1>4
<1>6. ASSUME NEW x \in D, ix.entries[x].parent = p PROVE ~IsDescendantOf(ix, x, c)
  BY <1>3, <1>5, <1>6
<1> QED BY <1>5, <1>6

(* HealChildren puts the children that waited below the record, which are   *)
(* all that were not below their parent.                                    *)
LEMMA HealFollows ==
  ASSUME NEW ix \in Sound, One(ix), Direct(ix), NoCycle(ix), UnderFolders(ix), AtRoot(ix),
         \A e \in DOMAIN ix.entries : Len(ix.entries[e].names) <= MaxParentWalk,
         NEW id \in DOMAIN ix.entries, FollowsBut(ix, Heals(ix, id))
  PROVE  LET new == HealChildren(id, ix)
         IN /\ SameTree(ix, new) /\ FollowsBut(new, {}) /\ AtRoot(new) /\ SameLeaves(ix, new)
            /\ new.awaiting = [ix.awaiting EXCEPT ![id.rec] = {}]
<1> DEFINE S == Heals(ix, id)
<1>0. ix \in Indexes
  BY DEF Sound
<1>1. PICK h : HealsInSteps(h, ix, id)
  BY HealChildrenSteps
<1>2. /\ HealChildren(id, ix) = h[S]
      /\ h[{}].entries = ix.entries
      /\ \A s \in SUBSET S : s # {} => \E c \in s :
            h[s] = MoveSubtree(h[s \ {c}], c,
                      PathBelow(h[s \ {c}], id, Leaf(h[s \ {c}].entries[c])))
      /\ \A s \in SUBSET S : SameTree(ix, h[s]) /\ h[s].awaiting = [ix.awaiting EXCEPT ![id.rec] = {}]
  BY <1>1 DEF HealsInSteps
<1>3. ASSUME NEW c \in S PROVE c \in DOMAIN ix.entries /\ ix.entries[c].parent = id
  <2>1. c \in DOMAIN ix.entries /\ ix.entries[c].parent.rec = id.rec
    BY DEF Heals
  <2> QED BY <1>0, <2>1, DirectParent
<1>4. ASSUME NEW c \in S
      PROVE  /\ c # id /\ \A x \in S \cup {c} : ~IsDescendantOf(ix, x, c)
             /\ Closed(ix, c)
             /\ ix.entries[c].dir \/ \A e \in DOMAIN ix.entries : ix.entries[e].parent # c
  <2>1. c # id /\ \A x \in S : ~IsDescendantOf(ix, x, c)
    BY <1>0, <1>3, SiblingsAreApart
  <2>2. \A x \in S \cup {c} : ~IsDescendantOf(ix, x, c)
    BY <2>1
  <2>3. Closed(ix, c)
    <3> HIDE DEF S
    <3>1. FollowsBut(ix, S) /\ c \in DOMAIN ix.entries
      BY <1>3 DEF S
    <3> QED BY <1>0, <2>2, <3>1, ShortIsClosed
  <2>4. ix.entries[c].dir \/ \A e \in DOMAIN ix.entries : ix.entries[e].parent # c
    BY <1>3 DEF UnderFolders
  <2> QED BY <2>1, <2>2, <2>3, <2>4
<1>5. IsFiniteSet(S)
  <2>1. S \subseteq DOMAIN ix.entries
    BY DEF Heals
  <2> QED BY <1>0, <2>1, IndexParts, FS_Subset
<1>6. FollowsBut(ix, S)
  OBVIOUS
<1> HIDE DEF S
<1> DEFINE Fine(s) == FollowsBut(h[s], S \ s) /\ AtRoot(h[s]) /\ SameLeaves(ix, h[s])
           B == {s \in SUBSET S : Fine(s)}
<1>7. Fine({})
  <2>1. S \ {} = S
    OBVIOUS
  <2> QED BY <1>2, <1>6, <2>1 DEF FollowsBut, FollowsAt, IsBelow, AtRoot, SameLeaves
<1>8. ASSUME NEW s \in SUBSET S, s # {} PROVE \E c \in s : Fine(s \ {c}) => Fine(s)
  <2>1. PICK c \in s : h[s] = MoveSubtree(h[s \ {c}], c,
                                PathBelow(h[s \ {c}], id, Leaf(h[s \ {c}].entries[c])))
    BY <1>2, <1>8
  <2> DEFINE i == h[s \ {c}]
             name == Leaf(i.entries[c])
             new == PathBelow(i, id, name)
             X == S \ (s \ {c})
  <2>2. c \in S /\ SameTree(ix, i) /\ X \ {c} = S \ s /\ X \subseteq S
    <3>1. s \ {c} \in SUBSET S
      OBVIOUS
    <3> QED BY <1>2, <3>1
  <2> SUFFICES ASSUME FollowsBut(i, X), AtRoot(i), SameLeaves(ix, i) PROVE Fine(s)
    OBVIOUS
  <2> HIDE DEF i, X
  <2>3. /\ i \in Indexes /\ DOMAIN i.entries = DOMAIN ix.entries
        /\ \A e \in DOMAIN ix.entries : /\ i.entries[e].parent = ix.entries[e].parent
                                        /\ i.entries[e].dir = ix.entries[e].dir
    BY <2>2 DEF SameTree
  <2>4. /\ One(i) /\ Direct(i) /\ Closed(i, c)
        /\ \A x \in X \cup {c} : ~IsDescendantOf(i, x, c)
    <3>1. \A x \in X \cup {c} : ~IsDescendantOf(ix, x, c)
      BY <1>4, <2>2
    <3>2. Closed(ix, c)
      BY <1>4, <2>2
    <3> QED BY <2>2, <3>1, <3>2, SameTreeKeeps
  <2>5. /\ c \in DOMAIN i.entries /\ i.entries[c].parent = id /\ id \in DOMAIN i.entries /\ c # id
        /\ i.entries[c].dir \/ \A e \in DOMAIN i.entries : i.entries[e].parent # c
    BY <1>3, <1>4, <2>2, <2>3
  <2>6. name \in Names
    BY <2>3, <2>5, EntryParts, LeafType
  <2>7. new \in Paths
    BY <2>3, <2>6, PathTypes
  <2>8. new.rooted = i.entries[id].rooted /\ new.names = Append(i.entries[id].names, name)
    BY <2>5 DEF PathBelow
  <2>9. Len(new.names) # 0 /\ new.names[Len(new.names)] = name
    <3>1. i.entries[id].names \in Seq(Names) /\ Len(i.entries[id].names) \in Nat
      BY <2>3, <2>5, EntryParts
    <3> QED BY <2>6, <2>8, <3>1, Appended
  <2> HIDE DEF new
  <2>10. FollowsBut(MoveSubtree(i, c, new), X \ {c})
    <3>1. i.entries[c].parent \in DOMAIN i.entries =>
             /\ new.rooted = i.entries[i.entries[c].parent].rooted
             /\ \E nm \in Names : new.names = Append(i.entries[i.entries[c].parent].names, nm)
      BY <2>5, <2>6, <2>8
    <3> QED BY <2>3, <2>4, <2>5, <2>7, <3>1, MoveSubtreeFollows
  <2> DEFINE moved == MoveSubtree(i, c, new)
  <2>11. /\ Leaf(moved.entries[c]) = name
         /\ \A e \in DOMAIN i.entries : e # c =>
               /\ Leaf(moved.entries[e]) = Leaf(i.entries[e])
               /\ Len(i.entries[e].names) = 1 => moved.entries[e] = i.entries[e]
    BY <2>3, <2>5, <2>7, <2>9, MoveSubtreeShape
  <2>12. SameTree(i, moved)
    BY <2>3, <2>5, <2>7, MoveSubtreeTypes
  <2>13. moved = h[s]
    BY <2>1 DEF i, new
  <2> HIDE DEF moved, name
  <2>14. SameLeaves(ix, moved)
    BY <2>3, <2>11 DEF SameLeaves, name
  <2>15. AtRoot(moved)
    <3> SUFFICES ASSUME NEW e \in DOMAIN i.entries, i.entries[e].parent = Root
                 PROVE  moved.entries[e].rooted /\ Len(moved.entries[e].names) = 1
      BY <2>12 DEF AtRoot, SameTree
    <3>1. e # c
      BY <2>3, <2>5, IndexParts, ReferencesFinite
    <3> QED BY <2>11, <3>1 DEF AtRoot
  <2> QED BY <2>2, <2>10, <2>13, <2>14, <2>15 DEF moved
<1>9. S \in B
  <2>1. {} \in B
    BY <1>7
  <2>2. ASSUME NEW s \in SUBSET S, s # {} PROVE \E c \in s : s \ {c} \in B => s \in B
    <3> HIDE DEF Fine
    <3> QED BY <1>8, <2>2
  <2> HIDE DEF B
  <2> QED BY <1>5, <2>1, <2>2, SetInduction
<1>10. S \ S = {}
  OBVIOUS
<1> QED BY <1>2, <1>9, <1>10

-----------------------------------------------------------------------------
(* Insert.                                                                  *)

(* Insert of a file without an entry, up to the healing.                    *)
Added(ix, left, id, parent, path, dir) ==
    /\ left \in Sound
    /\ DOMAIN left.entries = DOMAIN ix.entries \cup {id}
    /\ left.entries[id] = [parent |-> parent, dir |-> dir, rooted |-> path.rooted, names |-> path.names]
    /\ \A e \in DOMAIN ix.entries : left.entries[e] = ix.entries[e]
    /\ left.canonical = With(ix.canonical, id.rec, id)
    /\ \A r \in Records : left.awaiting[r] =
          IF parent # Root /\ parent \notin DOMAIN ix.entries /\ r = parent.rec
          THEN ix.awaiting[r] \cup {id} ELSE ix.awaiting[r]

(* Insert up to HealAwaiting is such an addition.                           *)
LEMMA InsertAdds ==
  ASSUME NEW ix \in Sound, Tidy(ix), NEW id \in References, Alone(ix, id), id \notin DOMAIN ix.entries,
         NEW ref \in Parents, NEW name \in Names, NEW dir \in BOOLEAN
  PROVE  LET parent == ResolveParent(ix, ref)
         IN \E left : /\ Added(ix, left, id, parent, PathBelow(ix, parent, name), dir)
                      /\ Insert(ix, id, ref, name, dir) = HealAwaiting(left, id)
<1> DEFINE parent == ResolveParent(ix, ref)
           path == PathBelow(ix, parent, name)
           entry == [parent |-> parent, dir |-> dir, rooted |-> path.rooted, names |-> path.names]
           entries == With(ix.entries, id, entry)
           canonical == With(ix.canonical, id.rec, id)
           stored == [ix EXCEPT !.entries = With(@, id, entry), !.canonical = With(@, id.rec, id)]
           waits == parent # Root /\ parent \notin DOMAIN ix.entries
           left == IF waits THEN AwaitParent(stored, parent, id)
                   ELSE ForgetUnresolved(stored, parent, id)
<1>1. ix \in Indexes /\ Waits(ix) /\ One(ix) /\ Keyed(ix)
  BY DEF Sound, Tidy
<1>2. InsertTarget(ix, id, dir) = id
  BY <1>1, AloneIsFound
<1>3. Insert(ix, id, ref, name, dir) = HealAwaiting(left, id)
  BY <1>2 DEF Insert
<1>4. parent \in Parents /\ path \in Paths /\ id.rec \in Records
  BY <1>1, ResolveTypes, PathTypes DEF References
<1> HIDE DEF parent, path
<1>5. entry \in Entries /\ entry.parent = parent
  BY <1>4 DEF Paths, Entries
<1>6. entry = [parent |-> parent, dir |-> dir, rooted |-> path.rooted, names |-> path.names]
  OBVIOUS
<1> HIDE DEF entry
<1>8. /\ stored \in Indexes /\ stored.entries = entries /\ stored.awaiting = ix.awaiting
      /\ stored.canonical = canonical
      /\ DOMAIN entries = DOMAIN ix.entries \cup {id}
      /\ \A e \in DOMAIN entries : entries[e] = IF e = id THEN entry ELSE ix.entries[e]
  <2>1. PICK D \in SUBSET References : ix.entries \in [D -> Entries]
    BY <1>1 DEF Indexes
  <2>2. PICK C \in SUBSET Records : ix.canonical \in [C -> References]
    BY <1>1 DEF Indexes
  <2>3. entries \in [D \cup {id} -> Entries] /\ D \cup {id} \in SUBSET References
    BY <1>5, <2>1 DEF With
  <2>4. canonical \in [C \cup {id.rec} -> References] /\ C \cup {id.rec} \in SUBSET Records
    BY <1>4, <2>2 DEF With
  <2>5. stored = [ix EXCEPT !.entries = entries, !.canonical = canonical]
    BY <1>1 DEF Indexes
  <2>6. /\ DOMAIN entries = DOMAIN ix.entries \cup {id}
        /\ \A e \in DOMAIN entries : entries[e] = IF e = id THEN entry ELSE ix.entries[e]
    BY DEF With
  <2> HIDE DEF entries, canonical, stored
  <2>7. /\ entries \in UNION {[E -> Entries] : E \in SUBSET References}
        /\ canonical \in UNION {[E -> References] : E \in SUBSET Records}
    BY <2>3, <2>4
  <2>8. /\ stored \in Indexes /\ stored.entries = entries /\ stored.awaiting = ix.awaiting
        /\ stored.canonical = canonical
    BY <1>1, <2>5, <2>7 DEF Indexes
  <2> QED BY <2>6, <2>8
<1>7. \A r \in Records : id \notin ix.awaiting[r]
  BY <1>1 DEF Waits
<1> HIDE DEF stored, entries, canonical
<1>9. /\ left \in Indexes /\ left.entries = entries /\ left.canonical = canonical
      /\ \A r \in Records : left.awaiting[r] =
            IF waits /\ r = parent.rec THEN ix.awaiting[r] \cup {id} ELSE ix.awaiting[r]
  <2>1. CASE waits
    <3>1. left = AwaitParent(stored, parent, id)
      BY <2>1
    <3>2. WaitersAre(stored, left, parent, {}, {id})
      BY <1>4, <1>8, <3>1, WaiterTypes
    <3> HIDE DEF left, waits
    <3> QED BY <1>8, <2>1, <3>2 DEF WaitersAre
  <2>2. CASE ~waits
    <3>1. left = ForgetUnresolved(stored, parent, id)
      BY <2>2
    <3>2. WaitersAre(stored, left, parent, {id}, {})
      BY <1>4, <1>8, <3>1, WaiterTypes
    <3> HIDE DEF left, waits
    <3> QED BY <1>7, <1>8, <2>2, <3>2 DEF WaitersAre
  <2> QED BY <2>1, <2>2
<1> HIDE DEF left
<1>10. Waits(left)
  <2> SUFFICES ASSUME NEW r \in Records, NEW w \in left.awaiting[r]
               PROVE  w \in DOMAIN left.entries /\ left.entries[w].parent.rec = r
    BY DEF Waits
  <2>1. CASE w \in ix.awaiting[r]
    <3>1. w \in DOMAIN ix.entries /\ ix.entries[w].parent.rec = r /\ w # id
      BY <1>1, <2>1 DEF Waits
    <3> QED BY <1>8, <1>9, <3>1
  <2>2. CASE w \notin ix.awaiting[r]
    <3>1. w = id /\ r = parent.rec
      <4> HIDE DEF waits
      <4> QED BY <1>9, <2>2
    <3> QED BY <1>5, <1>8, <1>9, <3>1
  <2> QED BY <2>1, <2>2
<1>11. /\ DOMAIN left.entries = DOMAIN ix.entries \cup {id} /\ left.entries[id] = entry
       /\ \A e \in DOMAIN ix.entries : left.entries[e] = ix.entries[e]
  BY <1>8, <1>9
<1>12. left \in Sound
  BY <1>9, <1>10 DEF Sound
<1>13. \A r \in Records : left.awaiting[r] =
          IF parent # Root /\ parent \notin DOMAIN ix.entries /\ r = parent.rec
          THEN ix.awaiting[r] \cup {id} ELSE ix.awaiting[r]
  BY <1>9
<1> HIDE DEF waits
<1>14. Added(ix, left, id, parent, path, dir)
  BY <1>6, <1>9, <1>11, <1>12, <1>13, Zenon DEF Added, canonical
<1> QED BY <1>3, <1>14 DEF parent, path

(* What Insert of such a file does to the tree and to the waiters.          *)
Inserts(ix, new, id, parent, dir) ==
    /\ new \in Sound /\ DOMAIN new.entries = DOMAIN ix.entries \cup {id}
    /\ new.entries[id].parent = parent /\ new.entries[id].dir = dir
    /\ \A e \in DOMAIN ix.entries : /\ new.entries[e].parent = ix.entries[e].parent
                                    /\ new.entries[e].dir = ix.entries[e].dir
    /\ \A r \in Records : new.awaiting[r] =
          IF r = id.rec THEN {}
          ELSE IF parent # Root /\ parent \notin DOMAIN ix.entries /\ r = parent.rec
          THEN ix.awaiting[r] \cup {id} ELSE ix.awaiting[r]

(* Insert serves those who wait for the new entry, and nobody else.         *)
LEMMA InsertIs ==
  ASSUME NEW ix \in Sound, Tidy(ix), NEW id \in References, Alone(ix, id), id \notin DOMAIN ix.entries,
         NEW ref \in Parents, NEW name \in Names, NEW dir \in BOOLEAN
  PROVE  LET parent == ResolveParent(ix, ref)
             new == Insert(ix, id, ref, name, dir)
         IN /\ Inserts(ix, new, id, parent, dir)
            /\ \E left : /\ Added(ix, left, id, parent, PathBelow(ix, parent, name), dir)
                         /\ new = HealChildren(id, left) /\ SameTree(left, new)
<1> DEFINE parent == ResolveParent(ix, ref)
           new == Insert(ix, id, ref, name, dir)
           path == PathBelow(ix, parent, name)
<1>1. PICK left : Added(ix, left, id, parent, path, dir) /\ new = HealAwaiting(left, id)
  BY InsertAdds
<1>2. ix \in Indexes /\ One(ix) /\ Served(ix)
  BY DEF Sound, Tidy
<1>3. \A e \in DOMAIN ix.entries : parent \notin DOMAIN ix.entries => e.rec # parent.rec
  BY <1>2, UnknownHasNoEntry
<1> HIDE DEF parent, path, new
<1>4. /\ left \in Sound /\ DOMAIN left.entries = DOMAIN ix.entries \cup {id}
      /\ left.entries[id] = [parent |-> parent, dir |-> dir, rooted |-> path.rooted, names |-> path.names]
      /\ \A e \in DOMAIN ix.entries : left.entries[e] = ix.entries[e]
      /\ \A r \in Records : left.awaiting[r] =
            IF parent # Root /\ parent \notin DOMAIN ix.entries /\ r = parent.rec
            THEN ix.awaiting[r] \cup {id} ELSE ix.awaiting[r]
  BY <1>1, Zenon DEF Added
<1>5. left.entries[id].parent = parent /\ left.entries[id].dir = dir
  BY <1>4
<1>6. \A e \in DOMAIN left.entries : e.rec \in Records
  BY <1>4, IndexParts DEF Sound, References
<1>7. ASSUME NEW e \in DOMAIN left.entries, e.rec # id.rec PROVE left.awaiting[e.rec] = {}
  <2>1. e \in DOMAIN ix.entries
    BY <1>4, <1>7
  <2>2. ix.awaiting[e.rec] = {}
    BY <1>2, <2>1 DEF Served
  <2> QED BY <1>3, <1>4, <1>6, <2>1, <2>2
<1>8. new = HealChildren(id, left)
  <2>1. id \in DOMAIN left.entries
    BY <1>4
  <2>2. HealAwaiting(left, id) = HealChildren(id, left)
    BY <1>4, <1>7, <2>1, HealAwaitingIs
  <2> QED BY <1>1, <2>2
<1>9. /\ new \in Sound /\ SameTree(left, new)
      /\ new.awaiting = [left.awaiting EXCEPT ![id.rec] = {}]
  <2>0. id \in DOMAIN left.entries
    BY <1>4
  <2>1. HealChildren(id, left) \in Sound /\ SameTree(left, HealChildren(id, left))
    BY <1>4, <2>0, HealChildrenTypes
  <2>2. PICK h : HealsInSteps(h, left, id)
    BY <1>4, <2>0, HealChildrenSteps
  <2>3. HealChildren(id, left).awaiting = [left.awaiting EXCEPT ![id.rec] = {}]
    BY <2>2 DEF HealsInSteps
  <2> QED BY <1>8, <2>1, <2>3
<1>10. \A r \in Records : new.awaiting[r] = IF r = id.rec THEN {} ELSE left.awaiting[r]
  <2>1. left.awaiting \in [Records -> SUBSET References]
    BY <1>4, IndexParts DEF Sound
  <2> QED BY <1>9, <2>1
<1>11. Inserts(ix, new, id, parent, dir)
  <2>1. /\ DOMAIN new.entries = DOMAIN left.entries
        /\ \A e \in DOMAIN left.entries : /\ new.entries[e].parent = left.entries[e].parent
                                          /\ new.entries[e].dir = left.entries[e].dir
    BY <1>9 DEF SameTree
  <2>2. \A e \in DOMAIN ix.entries : /\ new.entries[e].parent = ix.entries[e].parent
                                     /\ new.entries[e].dir = ix.entries[e].dir
    BY <1>4, <2>1
  <2>3. new.entries[id].parent = parent /\ new.entries[id].dir = dir
    BY <1>4, <1>5, <2>1
  <2>4. DOMAIN new.entries = DOMAIN ix.entries \cup {id}
    BY <1>4, <2>1
  <2>5. \A r \in Records : new.awaiting[r] =
            IF r = id.rec THEN {}
            ELSE IF parent # Root /\ parent \notin DOMAIN ix.entries /\ r = parent.rec
            THEN ix.awaiting[r] \cup {id} ELSE ix.awaiting[r]
    BY <1>4, <1>10
  <2> QED BY <1>9, <2>2, <2>3, <2>4, <2>5 DEF Inserts
<1> QED BY <1>1, <1>8, <1>9, <1>11 DEF parent, new, path

(* Insert puts the file below its parent, and below it what waited for it.  *)
LEMMA InsertFollows ==
  ASSUME NEW ix \in Sound, Tidy(ix), Short(ix), FollowsBut(ix, {}), AtRoot(ix),
         NEW id \in References, Alone(ix, id), id \notin DOMAIN ix.entries,
         NEW ref \in Parents, NEW name \in Names, NEW dir \in BOOLEAN,
         \A e \in DOMAIN ix.entries : ix.entries[e].parent = id => e \in ix.awaiting[id.rec],
         NEW new, new = Insert(ix, id, ref, name, dir),
         One(new), Direct(new), NoCycle(new), UnderFolders(new)
  PROVE  /\ FollowsBut(new, {}) /\ AtRoot(new)
         /\ Leaf(new.entries[id]) = name /\ SameLeaves(ix, new)
<1> DEFINE parent == ResolveParent(ix, ref)
           path == PathBelow(ix, parent, name)
<1>1. PICK left : /\ Added(ix, left, id, parent, path, dir)
                  /\ new = HealChildren(id, left) /\ SameTree(left, new)
  BY InsertIs
<1>2. ix \in Indexes /\ parent \in Parents
  BY ResolveTypes DEF Sound
<1>3. /\ left \in Sound /\ DOMAIN left.entries = DOMAIN ix.entries \cup {id}
      /\ left.entries[id] = [parent |-> parent, dir |-> dir, rooted |-> path.rooted, names |-> path.names]
      /\ \A e \in DOMAIN ix.entries : left.entries[e] = ix.entries[e]
      /\ \A r \in Records : ix.awaiting[r] \subseteq left.awaiting[r]
  BY <1>1 DEF Added
<1>4. One(left) /\ Direct(left) /\ NoCycle(left) /\ UnderFolders(left) /\ left \in Indexes
  BY <1>1, <1>3, SameTreeKeeps DEF Sound
<1>5. path \in Paths /\ Root \notin DOMAIN ix.entries
  BY <1>2, PathTypes, IndexParts, ReferencesFinite
<1>6. /\ parent \in DOMAIN ix.entries =>
            /\ path.rooted = ix.entries[parent].rooted
            /\ path.names = Append(ix.entries[parent].names, name)
            /\ Len(path.names) = Len(ix.entries[parent].names) + 1
            /\ path.names[Len(path.names)] = name
      /\ parent \notin DOMAIN ix.entries =>
            path.rooted = (parent = Root) /\ path.names = <<name>>
  <2>1. CASE parent \in DOMAIN ix.entries
    <3>1. ix.entries[parent].names \in Seq(Names)
      BY <1>2, <2>1, EntryParts
    <3>2. path.rooted = ix.entries[parent].rooted /\ path.names = Append(ix.entries[parent].names, name)
      BY <2>1 DEF PathBelow
    <3> HIDE DEF path
    <3> QED BY <2>1, <3>1, <3>2, Appended
  <2>2. CASE parent \notin DOMAIN ix.entries
    BY <2>2 DEF PathBelow
  <2> QED BY <2>1, <2>2
<1> HIDE DEF path, parent
<1>7. /\ left.entries[id].parent = parent /\ left.entries[id].rooted = path.rooted
      /\ left.entries[id].names = path.names
  BY <1>3
<1>8. Leaf(left.entries[id]) = name /\ Len(path.names) \in Nat /\ Len(path.names) <= MaxParentWalk
  <2>0. MaxParentWalk \in Nat \ {0}
    BY WalkAssumption
  <2>1. CASE parent \in DOMAIN ix.entries
    <3>1. Len(ix.entries[parent].names) \in Nat /\ Len(ix.entries[parent].names) < MaxParentWalk
      BY <1>2, <2>1, EntryParts DEF Short
    <3>2. Len(path.names) = Len(ix.entries[parent].names) + 1 /\ path.names[Len(path.names)] = name
      BY <1>6, <2>1
    <3> QED BY <1>7, <2>0, <3>1, <3>2 DEF Leaf
  <2>2. CASE parent \notin DOMAIN ix.entries
    <3>1. path.names = <<name>>
      BY <1>6, <2>2
    <3>2. Len(<<name>>) = 1 /\ <<name>>[1] = name
      OBVIOUS
    <3> QED BY <1>7, <2>0, <3>1, <3>2 DEF Leaf
  <2> QED BY <2>1, <2>2
<1>9. \A e \in DOMAIN left.entries : Len(left.entries[e].names) <= MaxParentWalk
  <2> SUFFICES ASSUME NEW e \in DOMAIN ix.entries PROVE Len(ix.entries[e].names) <= MaxParentWalk
    BY <1>3, <1>7, <1>8
  <2>1. Len(ix.entries[e].names) \in Nat /\ Len(ix.entries[e].names) < MaxParentWalk /\ MaxParentWalk \in Nat
    BY <1>2, EntryParts, WalkAssumption DEF Short
  <2> QED BY <2>1
<1>10. AtRoot(left)
  <2> SUFFICES ASSUME NEW e \in DOMAIN left.entries, left.entries[e].parent = Root
               PROVE  left.entries[e].rooted /\ Len(left.entries[e].names) = 1
    BY DEF AtRoot
  <2>1. CASE e = id
    <3>1. path.rooted /\ path.names = <<name>>
      BY <1>5, <1>6, <1>7, <2>1
    <3>2. Len(<<name>>) = 1
      OBVIOUS
    <3> QED BY <1>7, <2>1, <3>1, <3>2
  <2>2. CASE e # id
    BY <1>3, <2>2 DEF AtRoot
  <2> QED BY <2>1, <2>2
<1>11. FollowsBut(left, Heals(left, id))
  <2> SUFFICES ASSUME NEW e \in DOMAIN left.entries, e \notin Heals(left, id),
                      left.entries[e].parent \in DOMAIN left.entries
               PROVE  IsBelow(left, e, left.entries[e].parent)
    BY DEF FollowsBut, FollowsAt
  <2> DEFINE p == left.entries[e].parent
  <2>1. CASE e = id
    <3>1. p # id
      BY <1>3, <1>4, <2>1, SiblingsAreApart
    <3>2. p = parent /\ p \in DOMAIN ix.entries
      BY <1>3, <1>7, <2>1, <3>1
    <3>3. left.entries[p] = ix.entries[p]
      BY <1>3, <3>2
    <3> QED BY <1>6, <1>7, <2>1, <3>2, <3>3 DEF IsBelow
  <2>2. CASE e # id /\ p = id
    <3>1. e \in DOMAIN ix.entries /\ ix.entries[e].parent = id
      BY <1>3, <2>2
    <3>2. e \in left.awaiting[id.rec]
      BY <1>3, <3>1 DEF References
    <3> QED BY <2>2, <3>2 DEF Heals
  <2>3. CASE e # id /\ p # id
    <3>1. e \in DOMAIN ix.entries /\ p \in DOMAIN ix.entries
      BY <1>3, <2>3
    <3>2. left.entries[e] = ix.entries[e] /\ left.entries[p] = ix.entries[p]
      BY <1>3, <3>1
    <3> QED BY <3>1, <3>2 DEF FollowsBut, FollowsAt, IsBelow
  <2> QED BY <2>1, <2>2, <2>3
<1>12. FollowsBut(new, {}) /\ AtRoot(new) /\ SameLeaves(left, new)
  <2>1. id \in DOMAIN left.entries
    BY <1>3
  <2> QED BY <1>1, <1>3, <1>4, <1>9, <1>10, <1>11, <2>1, HealFollows
<1> QED BY <1>3, <1>8, <1>12 DEF SameLeaves

-----------------------------------------------------------------------------
(* Move, Rename, Remove.                                                    *)

(* What Move and Rename do to the tree and to the waiters.                  *)
LEMMA MoveIs ==
  ASSUME NEW ix \in Sound, NEW id \in DOMAIN ix.entries, NEW ref \in Parents
  PROVE  LET parent == ResolveParent(ix, ref)
             new == Move(ix, id, ref)
         IN /\ new \in Sound /\ DOMAIN new.entries = DOMAIN ix.entries /\ new.canonical = ix.canonical
            /\ new.entries[id].parent = parent /\ new.entries[id].dir = ix.entries[id].dir
            /\ \A e \in DOMAIN ix.entries : e # id => /\ new.entries[e].parent = ix.entries[e].parent
                                                      /\ new.entries[e].dir = ix.entries[e].dir
            /\ \A r \in Records :
                  /\ new.awaiting[r] \ {id} = ix.awaiting[r] \ {id}
                  /\ id \in new.awaiting[r] <=> parent # Root /\ parent \notin DOMAIN ix.entries /\ r = parent.rec
<1> DEFINE parent == ResolveParent(ix, ref)
           path == PathBelow(ix, parent, Leaf(ix.entries[id]))
           new == Move(ix, id, ref)
<1>1. PICK placed : Relocated(ix, placed, id, parent) /\ new = MoveSubtree(placed, id, path)
  BY MovePlaces
<1>2. path \in Paths
  BY MovePlaces
<1>3. placed \in Sound /\ placed \in Indexes /\ id \in DOMAIN placed.entries
  BY <1>1 DEF Relocated, Sound
<1>4. SameTree(placed, new) /\ new.awaiting = placed.awaiting
  <2> HIDE DEF path
  <2> QED BY <1>1, <1>2, <1>3, MoveSubtreeTypes
<1>5. new \in Sound
  BY MoveTypes
<1> HIDE DEF new, path, parent
<1> QED BY <1>1, <1>4, <1>5 DEF Relocated, SameTree, new, parent

(* Move puts the entry, and what is below it, below the new parent.         *)
LEMMA MoveFollows ==
  ASSUME NEW ix \in Sound, Short(ix), FollowsBut(ix, {}), AtRoot(ix),
         NEW id \in DOMAIN ix.entries, NEW ref \in Parents,
         NEW new, new = Move(ix, id, ref),
         One(new), Direct(new), NoCycle(new), UnderFolders(new)
  PROVE  FollowsBut(new, {}) /\ AtRoot(new) /\ SameLeaves(ix, new)
<1> DEFINE parent == ResolveParent(ix, ref)
           path == PathBelow(ix, parent, Leaf(ix.entries[id]))
<1>1. PICK placed : Relocated(ix, placed, id, parent) /\ new = MoveSubtree(placed, id, path)
  BY MovePlaces
<1>2. path \in Paths
  BY MovePlaces
<1>3. /\ placed \in Sound /\ placed \in Indexes /\ ix \in Indexes /\ id \in DOMAIN placed.entries
      /\ DOMAIN placed.entries = DOMAIN ix.entries
      /\ placed.entries[id].parent = parent
      /\ \A e \in DOMAIN ix.entries :
            /\ placed.entries[e].rooted = ix.entries[e].rooted /\ placed.entries[e].names = ix.entries[e].names
            /\ e # id => placed.entries[e] = ix.entries[e]
  BY <1>1 DEF Relocated, Sound
<1>4. Leaf(ix.entries[id]) \in Names /\ Root \notin DOMAIN ix.entries
  BY <1>3, EntryParts, LeafType, IndexParts, ReferencesFinite
<1> DEFINE name == Leaf(ix.entries[id])
<1>5. /\ parent \in DOMAIN ix.entries =>
            /\ path.rooted = ix.entries[parent].rooted
            /\ path.names = Append(ix.entries[parent].names, name)
            /\ path.names[Len(path.names)] = name
      /\ parent \notin DOMAIN ix.entries =>
            path.rooted = (parent = Root) /\ path.names = <<name>> /\ path.names[Len(path.names)] = name
  <2>1. CASE parent \in DOMAIN ix.entries
    <3>1. ix.entries[parent].names \in Seq(Names)
      BY <1>3, <2>1, EntryParts
    <3>2. path.rooted = ix.entries[parent].rooted /\ path.names = Append(ix.entries[parent].names, name)
      BY <2>1 DEF PathBelow
    <3> HIDE DEF path, name
    <3> QED BY <1>4, <2>1, <3>1, <3>2, Appended DEF name
  <2>2. CASE parent \notin DOMAIN ix.entries
    <3>1. path.rooted = (parent = Root) /\ path.names = <<name>>
      BY <2>2 DEF PathBelow
    <3>2. Len(<<name>>) = 1 /\ <<name>>[1] = name
      OBVIOUS
    <3> HIDE DEF path, name
    <3> QED BY <2>2, <3>1, <3>2
  <2> QED BY <2>1, <2>2
<1> HIDE DEF path, parent
<1>6. SameTree(placed, new)
  BY <1>1, <1>2, <1>3, MoveSubtreeTypes
<1>7. One(placed) /\ Direct(placed) /\ NoCycle(placed) /\ UnderFolders(placed)
  BY <1>6, SameTreeKeeps
<1>8. FollowsBut(placed, {id})
  <2> SUFFICES ASSUME NEW e \in DOMAIN ix.entries, e # id, placed.entries[e].parent \in DOMAIN ix.entries
               PROVE  IsBelow(placed, e, placed.entries[e].parent)
    BY <1>3 DEF FollowsBut, FollowsAt
  <2>1. placed.entries[e] = ix.entries[e] /\ IsBelow(ix, e, ix.entries[e].parent)
    BY <1>3 DEF FollowsBut, FollowsAt
  <2> QED BY <1>3, <2>1 DEF IsBelow
<1>9. \A x \in {id} \cup {id} : ~IsDescendantOf(placed, x, id)
  BY <1>3, <1>7 DEF NoCycle
<1>10. \A e \in DOMAIN placed.entries : Len(placed.entries[e].names) <= MaxParentWalk
  <2> SUFFICES ASSUME NEW e \in DOMAIN ix.entries PROVE Len(ix.entries[e].names) <= MaxParentWalk
    BY <1>3
  <2>1. Len(ix.entries[e].names) \in Nat /\ Len(ix.entries[e].names) < MaxParentWalk /\ MaxParentWalk \in Nat
    BY <1>3, EntryParts, WalkAssumption DEF Short
  <2> QED BY <2>1
<1>11. Closed(placed, id)
  BY <1>3, <1>7, <1>8, <1>9, <1>10, ShortIsClosed
<1>12. placed.entries[id].dir \/ \A e \in DOMAIN placed.entries : placed.entries[e].parent # id
  BY <1>3, <1>7 DEF UnderFolders
<1>13. placed.entries[id].parent \in DOMAIN placed.entries =>
            /\ path.rooted = placed.entries[placed.entries[id].parent].rooted
            /\ \E nm \in Names : path.names = Append(placed.entries[placed.entries[id].parent].names, nm)
  BY <1>3, <1>4, <1>5
<1>14. FollowsBut(new, {})
  <2>1. FollowsBut(MoveSubtree(placed, id, path), {id} \ {id})
    BY <1>2, <1>3, <1>7, <1>8, <1>9, <1>11, <1>12, <1>13, MoveSubtreeFollows
  <2>2. {id} \ {id} = {}
    OBVIOUS
  <2> QED BY <1>1, <2>1, <2>2
<1>15. /\ Leaf(new.entries[id]) = name /\ new.entries[id].rooted = path.rooted
       /\ new.entries[id].names = path.names
       /\ \A e \in DOMAIN ix.entries : e # id =>
             /\ Leaf(new.entries[e]) = Leaf(ix.entries[e])
             /\ Len(ix.entries[e].names) = 1 => new.entries[e] = placed.entries[e]
  <2>1. path.names[Len(path.names)] = name
    BY <1>5
  <2>2. LET moved == MoveSubtree(placed, id, path)
        IN /\ Leaf(moved.entries[id]) = path.names[Len(path.names)]
           /\ \A e \in DOMAIN placed.entries : e # id =>
                 /\ Leaf(moved.entries[e]) = Leaf(placed.entries[e])
                 /\ Len(placed.entries[e].names) = 1 => moved.entries[e] = placed.entries[e]
    BY <1>2, <1>3, MoveSubtreeShape
  <2>3. /\ MoveSubtree(placed, id, path).entries[id].rooted = path.rooted
        /\ MoveSubtree(placed, id, path).entries[id].names = path.names
    BY <1>2, <1>3, MoveSubtreeTypes
  <2> QED BY <1>1, <1>3, <2>1, <2>2, <2>3
<1>16. SameLeaves(ix, new)
  BY <1>15 DEF SameLeaves
<1>17. AtRoot(new)
  <2> SUFFICES ASSUME NEW e \in DOMAIN placed.entries, placed.entries[e].parent = Root
               PROVE  new.entries[e].rooted /\ Len(new.entries[e].names) = 1
    BY <1>6 DEF AtRoot, SameTree
  <2>1. CASE e = id
    <3>1. path.rooted /\ path.names = <<name>>
      BY <1>3, <1>4, <1>5, <2>1
    <3>2. Len(<<name>>) = 1
      OBVIOUS
    <3> HIDE DEF name
    <3> QED BY <1>15, <2>1, <3>1, <3>2
  <2>2. CASE e # id
    <3>1. placed.entries[e] = ix.entries[e] /\ ix.entries[e].rooted /\ Len(ix.entries[e].names) = 1
      BY <1>3, <2>2 DEF AtRoot
    <3> QED BY <1>3, <1>15, <2>2, <3>1
  <2> QED BY <2>1, <2>2
<1> QED BY <1>14, <1>16, <1>17

(* Rename puts another last name into the path of the entry, and of what is *)
(* below it.                                                                *)
LEMMA RenameFollows ==
  ASSUME NEW ix \in Sound, FollowsBut(ix, {}), AtRoot(ix),
         NEW id \in DOMAIN ix.entries, NEW name \in Names,
         NEW new, new = Rename(ix, id, name),
         One(new), Direct(new), NoCycle(new), UnderFolders(new), Short(new)
  PROVE  /\ FollowsBut(new, {}) /\ AtRoot(new) /\ Short(ix)
         /\ Leaf(new.entries[id]) = name
         /\ \A e \in DOMAIN ix.entries : e # id => Leaf(new.entries[e]) = Leaf(ix.entries[e])
<1> DEFINE old == PathOf(ix, id)
           n == Len(old.names)
           bare == ~old.rooted /\ n = 1
           front == SubSeq(old.names, 1, n - 1)
           path == [rooted |-> old.rooted \/ (bare /\ ~IsAwaitingChild(ix, id)), names |-> Append(front, name)]
<1>1. new = MoveSubtree(ix, id, path)
  BY DEF Rename
<1>2. ix \in Indexes
  BY DEF Sound
<1>3. /\ old.rooted = ix.entries[id].rooted /\ old.names = ix.entries[id].names
      /\ old.rooted \in BOOLEAN /\ old.names \in Seq(Names) /\ n \in Nat \ {0}
  BY <1>2, EntryParts DEF PathOf
<1> HIDE DEF old, n
<1>4. n = Len(old.names) /\ n - 1 \in 0..n /\ (n - 1) + 1 = n
  BY <1>3 DEF n
<1>5. /\ front \in Seq(Names) /\ Len(front) = n - 1
      /\ \A i \in 1..(n - 1) : front[i] = old.names[i]
  BY <1>3, <1>4, Prefixes
<1> HIDE DEF front
<1>6. /\ path.names \in Seq(Names) /\ Len(path.names) = n /\ path.names[n] = name
      /\ path.names = Append(front, name)
      /\ path.rooted = (old.rooted \/ (bare /\ ~IsAwaitingChild(ix, id)))
  BY <1>4, <1>5, Appended
<1>7. path \in Paths
  <2>1. path.names # <<>>
    <3> HIDE DEF path
    <3> SUFFICES ASSUME path.names = <<>> PROVE FALSE
      OBVIOUS
    <3>1. Len(path.names) = 0
      OBVIOUS
    <3> QED BY <1>3, <1>6, <3>1
  <2>2. path.rooted \in BOOLEAN
    BY <1>3
  <2> QED BY <1>6, <2>1, <2>2 DEF Paths
<1> HIDE DEF path, bare
<1>8. SameTree(ix, new)
  BY <1>1, <1>2, <1>7, MoveSubtreeTypes
<1>9. One(ix) /\ Direct(ix) /\ NoCycle(ix) /\ UnderFolders(ix)
  BY <1>8, SameTreeKeeps
<1>10. /\ Leaf(new.entries[id]) = name /\ new.entries[id].rooted = path.rooted
       /\ new.entries[id].names = path.names
       /\ \A e \in DOMAIN ix.entries : e # id =>
             /\ Leaf(new.entries[e]) = Leaf(ix.entries[e])
             /\ Len(ix.entries[e].names) = 1 => new.entries[e] = ix.entries[e]
       /\ \A e \in DOMAIN ix.entries : Len(new.entries[e].names) = Len(ix.entries[e].names)
  <2>1. LET moved == MoveSubtree(ix, id, path)
        IN /\ Leaf(moved.entries[id]) = path.names[Len(path.names)]
           /\ \A e \in DOMAIN ix.entries : e # id =>
                 /\ Leaf(moved.entries[e]) = Leaf(ix.entries[e])
                 /\ Len(ix.entries[e].names) = 1 => moved.entries[e] = ix.entries[e]
           /\ Len(path.names) = Len(ix.entries[id].names) =>
                 \A e \in DOMAIN ix.entries : Len(moved.entries[e].names) = Len(ix.entries[e].names)
    BY <1>2, <1>7, MoveSubtreeShape
  <2>2. /\ MoveSubtree(ix, id, path).entries[id].rooted = path.rooted
        /\ MoveSubtree(ix, id, path).entries[id].names = path.names
    BY <1>2, <1>7, MoveSubtreeTypes
  <2>3. Len(path.names) = Len(ix.entries[id].names) /\ path.names[Len(path.names)] = name
    BY <1>3, <1>4, <1>6
  <2> QED BY <1>1, <2>1, <2>2, <2>3
<1>11. Short(ix)
  BY <1>8, <1>10 DEF Short, SameTree
<1>12. \A e \in DOMAIN ix.entries : Len(ix.entries[e].names) <= MaxParentWalk
  <2> TAKE e \in DOMAIN ix.entries
  <2>1. Len(ix.entries[e].names) \in Nat /\ Len(ix.entries[e].names) < MaxParentWalk /\ MaxParentWalk \in Nat
    BY <1>2, <1>11, EntryParts, WalkAssumption DEF Short
  <2> QED BY <2>1
<1>13. \A x \in {} \cup {id} : ~IsDescendantOf(ix, x, id)
  BY <1>9 DEF NoCycle
<1>14. Closed(ix, id)
  BY <1>2, <1>9, <1>12, <1>13, ShortIsClosed
<1>15. ix.entries[id].dir \/ \A e \in DOMAIN ix.entries : ix.entries[e].parent # id
  BY <1>9 DEF UnderFolders
<1>16. ASSUME ix.entries[id].parent \in DOMAIN ix.entries
       PROVE  /\ path.rooted = ix.entries[ix.entries[id].parent].rooted
              /\ \E nm \in Names : path.names = Append(ix.entries[ix.entries[id].parent].names, nm)
  <2> DEFINE p == ix.entries[id].parent
             s == ix.entries[p].names
  <2>1. PICK nm \in Names : old.rooted = ix.entries[p].rooted /\ old.names = Append(s, nm)
    BY <1>3, <1>16 DEF FollowsBut, FollowsAt, IsBelow
  <2>2. s \in Seq(Names) /\ Len(s) \in Nat \ {0}
    BY <1>2, <1>16, EntryParts
  <2> HIDE DEF s, p
  <2>3. n = Len(s) + 1 /\ \A i \in 1..Len(s) : old.names[i] = s[i]
    BY <1>4, <2>1, <2>2, Appended
  <2>4. ~bare
    <3>1. n # 1
      BY <2>2, <2>3
    <3> QED BY <3>1 DEF bare
  <2>5. front = s
    <3>1. Len(front) = Len(s)
      BY <1>3, <1>5, <2>2, <2>3
    <3>2. n - 1 = Len(s)
      BY <2>2, <2>3
    <3>3. \A i \in 1..Len(front) : front[i] = s[i]
      BY <1>5, <2>3, <3>1, <3>2
    <3> QED BY <1>5, <2>2, <3>1, <3>3, SameSequence
  <2>6. path.names = Append(s, name)
    BY <1>6, <2>5
  <2>7. path.rooted = old.rooted
    <3>1. path.rooted = (old.rooted \/ (bare /\ ~IsAwaitingChild(ix, id)))
      BY <1>6
    <3>2. path.rooted \in BOOLEAN /\ old.rooted \in BOOLEAN
      BY <1>3, <1>7 DEF Paths
    <3>3. path.rooted <=> old.rooted
      BY <2>4, <3>1, Zenon
    <3>4. \A a, b \in BOOLEAN : (a <=> b) => a = b
      OBVIOUS
    <3> QED BY <3>2, <3>3, <3>4, Zenon
  <2> QED BY <2>1, <2>6, <2>7 DEF s, p
<1>17. FollowsBut(new, {})
  <2>1. FollowsBut(MoveSubtree(ix, id, path), {} \ {id})
    BY <1>2, <1>7, <1>9, <1>13, <1>14, <1>15, <1>16, MoveSubtreeFollows
  <2>2. {} \ {id} = {}
    OBVIOUS
  <2> QED BY <1>1, <2>1, <2>2
<1>18. AtRoot(new)
  <2> SUFFICES ASSUME NEW e \in DOMAIN ix.entries, ix.entries[e].parent = Root
               PROVE  new.entries[e].rooted /\ Len(new.entries[e].names) = 1
    BY <1>8 DEF AtRoot, SameTree
  <2>1. ix.entries[e].rooted /\ Len(ix.entries[e].names) = 1
    BY DEF AtRoot
  <2>2. CASE e = id
    BY <1>3, <1>6, <1>10, <2>1, <2>2
  <2>3. CASE e # id
    BY <1>10, <2>1, <2>3
  <2> QED BY <2>2, <2>3
<1> QED BY <1>10, <1>11, <1>17, <1>18

(* Remove leaves the others where they are.                                 *)
LEMMA RemoveFollows ==
  ASSUME NEW ix \in Sound, FollowsBut(ix, {}), AtRoot(ix), NEW id \in References
  PROVE  FollowsBut(Remove(ix, id), {}) /\ AtRoot(Remove(ix, id))
<1> DEFINE new == Remove(ix, id)
<1>1. /\ DOMAIN new.entries = DOMAIN ix.entries \ {id}
      /\ \A e \in DOMAIN new.entries : new.entries[e] = ix.entries[e]
  BY RemovedEntries
<1> HIDE DEF new
<1>2. FollowsBut(new, {})
  <2> SUFFICES ASSUME NEW e \in DOMAIN new.entries, new.entries[e].parent \in DOMAIN new.entries
               PROVE  IsBelow(new, e, new.entries[e].parent)
    BY DEF FollowsBut, FollowsAt
  <2> DEFINE p == new.entries[e].parent
  <2>1. /\ new.entries[e] = ix.entries[e] /\ new.entries[p] = ix.entries[p]
        /\ e \in DOMAIN ix.entries /\ p \in DOMAIN ix.entries /\ p = ix.entries[e].parent
    BY <1>1
  <2>2. IsBelow(ix, e, p)
    BY <2>1 DEF FollowsBut, FollowsAt
  <2> QED BY <2>1, <2>2 DEF IsBelow
<1>3. AtRoot(new)
  BY <1>1 DEF AtRoot
<1> QED BY <1>2, <1>3 DEF new

-----------------------------------------------------------------------------
(* One record.                                                              *)

(* What a record that deletes nothing does to the tree: the file has an     *)
(* entry below the parent of the record, all others keep their place.       *)
Kept(ix, record) ==
    /\ record.self \in DOMAIN ix.entries
    /\ ix.entries[record.self].parent.rec = record.parent.rec

Sets(ix, new, record) ==
    LET id == record.self
        parent == new.entries[id].parent
    IN /\ DOMAIN new.entries = DOMAIN ix.entries \cup {id}
       /\ \A e \in DOMAIN ix.entries : e # id => /\ new.entries[e].parent = ix.entries[e].parent
                                                 /\ new.entries[e].dir = ix.entries[e].dir
       /\ new.entries[id].dir = IF id \in DOMAIN ix.entries THEN ix.entries[id].dir ELSE record.dir
       /\ Kept(ix, record) =>
             parent = ix.entries[id].parent /\ (IsAwaitingChild(ix, id) => IsAwaitingChild(new, id))
       /\ ~Kept(ix, record) =>
             parent = record.parent /\ (parent = Root \/ parent \in DOMAIN ix.entries \/ IsAwaitingChild(new, id))
       /\ \A r \in Records : r # id.rec => new.awaiting[r] \ {id} = ix.awaiting[r] \ {id}

(* Insert does, for a file that has no entry.                               *)
LEMMA InsertSets ==
  ASSUME NEW ix \in Sound, Tidy(ix), NEW record \in UsnRecords, Alone(ix, record.self),
         record.self \notin DOMAIN ix.entries,
         ResolveParent(ix, record.parent) = record.parent, record.parent.rec # record.self.rec
  PROVE  Sets(ix, Insert(ix, record.self, record.parent, record.name, record.dir), record)
<1> DEFINE id == record.self
           new == Insert(ix, id, record.parent, record.name, record.dir)
<1>1. /\ id \in References /\ record.parent \in Parents
      /\ record.name \in Names /\ record.dir \in BOOLEAN
  BY DEF UsnRecords, Parents
<1>2. Inserts(ix, new, id, record.parent, record.dir)
  <2>1. Inserts(ix, new, id, ResolveParent(ix, record.parent), record.dir)
    BY <1>1, InsertIs
  <2> QED BY <2>1, Zenon
<1> HIDE DEF new
<1>3. ~Kept(ix, record)
  BY DEF Kept
<1>4. record.parent # Root => record.parent.rec \in Records
  BY <1>1 DEF Parents, References
<1>5. record.parent = Root \/ record.parent \in DOMAIN ix.entries \/ IsAwaitingChild(new, id)
  BY <1>2, <1>4 DEF Inserts, IsAwaitingChild
<1>6. \A r \in Records : r # id.rec => new.awaiting[r] \ {id} = ix.awaiting[r] \ {id}
  BY <1>2 DEF Inserts
<1> QED BY <1>2, <1>3, <1>5, <1>6 DEF Inserts, Sets, new

(* What keeps the tree and what waits keeps this.                           *)
LEMMA RetitledSets ==
  ASSUME NEW ix, NEW moved, NEW new, NEW record \in UsnRecords, Sets(ix, moved, record),
         SameTree(moved, new), new.awaiting = moved.awaiting
  PROVE  Sets(ix, new, record)
<1> DEFINE id == record.self
<1>1. /\ DOMAIN new.entries = DOMAIN moved.entries
      /\ \A e \in DOMAIN moved.entries : /\ new.entries[e].parent = moved.entries[e].parent
                                         /\ new.entries[e].dir = moved.entries[e].dir
  BY DEF SameTree
<1>2. id \in DOMAIN moved.entries /\ \A e \in DOMAIN ix.entries : e \in DOMAIN moved.entries
  BY DEF Sets
<1>3. IsAwaitingChild(moved, id) <=> IsAwaitingChild(new, id)
  BY <1>1, <1>2 DEF IsAwaitingChild
<1> QED BY <1>1, <1>2, <1>3 DEF Sets

(* A rename does, of a file that has an entry.                              *)
LEMMA RenameSets ==
  ASSUME NEW ix \in Sound, Tidy(ix), NEW record \in UsnRecords, Alone(ix, record.self),
         record.self \in DOMAIN ix.entries, ResolveParent(ix, record.parent) = record.parent
  PROVE  LET id == record.self
             moved == IF Kept(ix, record) THEN ix ELSE Move(ix, id, record.parent)
             new == HandleFileRename(ix, record)
         IN /\ moved \in Sound /\ Tidy(moved) /\ id \in DOMAIN moved.entries
            /\ Sets(ix, moved, record) /\ Sets(ix, new, record) /\ SameTree(moved, new)
            /\ \/ new = moved /\ moved # ix /\ Leaf(moved.entries[id]) = record.name
               \/ new = Rename(moved, id, record.name)
<1> DEFINE id == record.self
           moved == IF Kept(ix, record) THEN ix ELSE Move(ix, id, record.parent)
           new == HandleFileRename(ix, record)
<1>1. /\ id \in References /\ record.parent \in Parents
      /\ record.name \in Names /\ record.dir \in BOOLEAN /\ id # Nothing
  BY ReferencesFinite DEF UsnRecords, Parents
<1>2. ResolveEntryReference(ix, id) = id
  BY <1>1, AloneIsFound DEF Sound, Tidy
<1>3. \/ new = moved /\ moved # ix /\ Leaf(moved.entries[id]) = record.name
      \/ new = Rename(moved, id, record.name)
  BY <1>1, <1>2, Zenon DEF HandleFileRename, Kept
<1>4. /\ moved \in Sound /\ Tidy(moved) /\ id \in DOMAIN moved.entries /\ Sets(ix, moved, record)
  <2>1. CASE Kept(ix, record)
    <3>1. moved = ix
      BY <2>1
    <3> HIDE DEF moved
    <3>2. DOMAIN ix.entries \cup {id} = DOMAIN ix.entries
      OBVIOUS
    <3> QED BY <2>1, <3>1, <3>2 DEF Sets
  <2>2. CASE ~Kept(ix, record)
    <3>1. moved = Move(ix, id, record.parent)
      BY <2>2
    <3> HIDE DEF moved
    <3>2. moved \in Sound /\ Tidy(moved)
      BY <1>1, <3>1, MoveTidy
    <3>3. /\ DOMAIN moved.entries = DOMAIN ix.entries
          /\ moved.entries[id].parent = record.parent /\ moved.entries[id].dir = ix.entries[id].dir
          /\ \A e \in DOMAIN ix.entries : e # id => /\ moved.entries[e].parent = ix.entries[e].parent
                                                    /\ moved.entries[e].dir = ix.entries[e].dir
          /\ \A r \in Records :
                /\ moved.awaiting[r] \ {id} = ix.awaiting[r] \ {id}
                /\ id \in moved.awaiting[r]
                     <=> record.parent # Root /\ record.parent \notin DOMAIN ix.entries /\ r = record.parent.rec
      BY <1>1, <3>1, MoveIs
    <3>4. record.parent # Root => record.parent.rec \in Records
      BY <1>1 DEF Parents, References
    <3>5. record.parent = Root \/ record.parent \in DOMAIN ix.entries \/ IsAwaitingChild(moved, id)
      BY <3>3, <3>4 DEF IsAwaitingChild
    <3>6. DOMAIN ix.entries \cup {id} = DOMAIN ix.entries
      OBVIOUS
    <3> QED BY <2>2, <3>2, <3>3, <3>5, <3>6 DEF Sets
  <2> QED BY <2>1, <2>2
<1> HIDE DEF moved, new
<1>5. SameTree(moved, new) /\ new.awaiting = moved.awaiting
  <2>1. CASE new = moved
    BY <1>4, <2>1 DEF SameTree, Sound
  <2>2. CASE new = Rename(moved, id, record.name)
    BY <1>1, <1>4, <2>2, RenameTypes
  <2> QED BY <1>3, <2>1, <2>2
<1>6. Sets(ix, new, record)
  BY <1>4, <1>5, RetitledSets
<1> QED BY <1>3, <1>4, <1>5, <1>6 DEF moved, new

(* A record that deletes nothing gives a file without an entry one, perhaps *)
(* to rename it, and else it is a rename.                                   *)
LEMMA RecordIs ==
  ASSUME NEW ix \in Sound, Tidy(ix), NEW record \in UsnRecords, Alone(ix, record.self),
         ResolveParent(ix, record.parent) = record.parent, record.parent.rec # record.self.rec,
         record.reasons # {}, "delete" \notin record.reasons,
         "create" \in record.reasons => record.self \notin DOMAIN ix.entries
  PROVE  LET id == record.self
             first == Insert(ix, id, record.parent, record.name, record.dir)
             new == ProcessUsnRecordReasons(ix, record)
         IN IF id \in DOMAIN ix.entries THEN new = HandleFileRename(ix, record)
            ELSE new = first \/ new = Rename(first, id, record.name)
<1> DEFINE id == record.self
           first == Insert(ix, id, record.parent, record.name, record.dir)
           new == ProcessUsnRecordReasons(ix, record)
<1>1. /\ id \in References /\ record.parent \in Parents
      /\ record.name \in Names /\ record.dir \in BOOLEAN /\ id # Nothing
      /\ record.reasons \subseteq {"create", "rename", "delete"}
  BY ReferencesFinite DEF UsnRecords, Parents, Reasons
<1>2. new = LET settled == IF "create" \in record.reasons THEN first ELSE ix
            IN IF "rename" \in record.reasons THEN HandleFileRename(settled, record) ELSE settled
  BY Zenon DEF ProcessUsnRecordReasons
<1>3. CASE "create" \in record.reasons
  <2>1. id \notin DOMAIN ix.entries
    BY <1>3
  <2>2. CASE "rename" \in record.reasons
    <3>1. new = HandleFileRename(first, record)
      BY <1>2, <1>3, <2>2, Zenon
    <3>2. first \in Sound /\ Tidy(first) /\ DOMAIN first.entries = DOMAIN ix.entries \cup {id}
      BY <1>1, InsertTidy
    <3>3. Sets(ix, first, record)
      BY <2>1, InsertSets
    <3>4. first.entries[id].parent = record.parent
      BY <2>1, <3>3 DEF Sets, Kept
    <3> HIDE DEF first, new
    <3>5. Alone(first, id)
      BY <3>2 DEF Alone
    <3>6. ResolveEntryReference(first, id) = id
      BY <1>1, <3>2, <3>5, AloneIsFound DEF Sound, Tidy
    <3>7. HandleFileRename(first, record) = Rename(first, id, record.name)
      BY <1>1, <3>4, <3>6, Zenon DEF HandleFileRename
    <3> QED BY <2>1, <3>1, <3>7 DEF first, new
  <2>3. CASE "rename" \notin record.reasons
    <3>1. new = first
      BY <1>2, <1>3, <2>3, Zenon
    <3> QED BY <2>1, <3>1
  <2> QED BY <2>2, <2>3
<1>4. CASE "create" \notin record.reasons
  <2>1. "rename" \in record.reasons
    BY <1>1, <1>4
  <2>2. new = HandleFileRename(ix, record)
    BY <1>2, <1>4, <2>1, Zenon
  <2>3. CASE id \notin DOMAIN ix.entries
    <3>1. ResolveEntryReference(ix, id) = Nothing
      BY <1>1, <2>3, AloneIsFound DEF Sound, Tidy
    <3>2. HandleFileRename(ix, record) = first
      BY <3>1, Zenon DEF HandleFileRename
    <3> QED BY <2>2, <2>3, <3>2
  <2> QED BY <2>2, <2>3
<1> QED BY <1>3, <1>4

(* So it is of use to know, of every such record, what it does to the tree. *)
LEMMA RecordSets ==
  ASSUME NEW ix \in Sound, Tidy(ix), NEW record \in UsnRecords, Alone(ix, record.self),
         ResolveParent(ix, record.parent) = record.parent, record.parent.rec # record.self.rec,
         record.reasons # {}, "delete" \notin record.reasons,
         "create" \in record.reasons => record.self \notin DOMAIN ix.entries
  PROVE  Sets(ix, ProcessUsnRecordReasons(ix, record), record)
<1> DEFINE id == record.self
           first == Insert(ix, id, record.parent, record.name, record.dir)
           new == ProcessUsnRecordReasons(ix, record)
<1>1. /\ id \in References /\ record.parent \in Parents
      /\ record.name \in Names /\ record.dir \in BOOLEAN
  BY DEF UsnRecords, Parents
<1>2. IF id \in DOMAIN ix.entries THEN new = HandleFileRename(ix, record)
      ELSE new = first \/ new = Rename(first, id, record.name)
  BY RecordIs
<1> HIDE DEF new
<1>3. CASE id \in DOMAIN ix.entries
  <2>1. Sets(ix, HandleFileRename(ix, record), record)
    BY <1>3, RenameSets
  <2> QED BY <1>2, <1>3, <2>1 DEF new
<1>4. CASE id \notin DOMAIN ix.entries
  <2>1. Sets(ix, first, record)
    BY <1>4, InsertSets
  <2>2. first \in Sound /\ DOMAIN first.entries = DOMAIN ix.entries \cup {id}
    BY <1>1, InsertTidy
  <2> HIDE DEF first
  <2>3. CASE new = first
    BY <2>1, <2>3 DEF new
  <2>4. CASE new = Rename(first, id, record.name)
    <3>1. SameTree(first, new) /\ new.awaiting = first.awaiting
      BY <1>1, <2>2, <2>4, RenameTypes
    <3> QED BY <2>1, <3>1, RetitledSets DEF new
  <2> QED BY <1>2, <1>4, <2>3, <2>4
<1> QED BY <1>3, <1>4

(* And to the paths.                                                        *)
LEMMA RecordFollows ==
  ASSUME NEW ix \in Sound, Tidy(ix), NEW record \in UsnRecords, Alone(ix, record.self),
         ResolveParent(ix, record.parent) = record.parent, record.parent.rec # record.self.rec,
         record.reasons # {}, "delete" \notin record.reasons,
         "create" \in record.reasons => record.self \notin DOMAIN ix.entries,
         Short(ix), FollowsBut(ix, {}), AtRoot(ix),
         record.self \notin DOMAIN ix.entries =>
            \A e \in DOMAIN ix.entries :
               ix.entries[e].parent = record.self => e \in ix.awaiting[record.self.rec],
         NEW new, new = ProcessUsnRecordReasons(ix, record),
         One(new), Direct(new), NoCycle(new), UnderFolders(new), Short(new)
  PROVE  /\ FollowsBut(new, {}) /\ AtRoot(new) /\ Leaf(new.entries[record.self]) = record.name
         /\ \A e \in DOMAIN ix.entries : e # record.self => Leaf(new.entries[e]) = Leaf(ix.entries[e])
<1> DEFINE id == record.self
           first == Insert(ix, id, record.parent, record.name, record.dir)
           moved == IF Kept(ix, record) THEN ix ELSE Move(ix, id, record.parent)
<1>1. /\ id \in References /\ record.parent \in Parents
      /\ record.name \in Names /\ record.dir \in BOOLEAN
  BY DEF UsnRecords, Parents
<1>2. IF id \in DOMAIN ix.entries THEN new = HandleFileRename(ix, record)
      ELSE new = first \/ new = Rename(first, id, record.name)
  BY RecordIs
<1>3. CASE id \notin DOMAIN ix.entries
  <2>1. first \in Sound /\ Tidy(first) /\ DOMAIN first.entries = DOMAIN ix.entries \cup {id}
    BY <1>1, InsertTidy
  <2>2. SameTree(first, new)
    <3>1. CASE new = first
      BY <2>1, <3>1 DEF SameTree, Sound
    <3>2. CASE new = Rename(first, id, record.name)
      BY <1>1, <2>1, <3>2, RenameTypes
    <3> QED BY <1>2, <1>3, <3>1, <3>2
  <2>3. One(first) /\ Direct(first) /\ NoCycle(first) /\ UnderFolders(first)
    BY <2>2, SameTreeKeeps
  <2>4. /\ FollowsBut(first, {}) /\ AtRoot(first)
        /\ Leaf(first.entries[id]) = record.name /\ SameLeaves(ix, first)
    <3>1. first = Insert(ix, id, record.parent, record.name, record.dir)
      OBVIOUS
    <3> HIDE DEF first
    <3>2. \A e \in DOMAIN ix.entries : ix.entries[e].parent = id => e \in ix.awaiting[id.rec]
      BY <1>3
    <3> QED BY <1>1, <1>3, <2>3, <3>1, <3>2, InsertFollows
  <2> HIDE DEF first
  <2>5. CASE new = first
    BY <2>4, <2>5 DEF SameLeaves
  <2>6. CASE new = Rename(first, id, record.name)
    <3>1. /\ FollowsBut(new, {}) /\ AtRoot(new) /\ Leaf(new.entries[id]) = record.name
          /\ \A e \in DOMAIN first.entries : e # id => Leaf(new.entries[e]) = Leaf(first.entries[e])
      BY <1>1, <2>1, <2>4, <2>6, RenameFollows
    <3> QED BY <2>1, <2>4, <3>1 DEF SameLeaves
  <2> QED BY <1>2, <1>3, <2>5, <2>6
<1>4. CASE id \in DOMAIN ix.entries
  <2>1. /\ moved \in Sound /\ Tidy(moved) /\ id \in DOMAIN moved.entries
        /\ Sets(ix, moved, record) /\ SameTree(moved, new)
        /\ \/ new = moved /\ moved # ix /\ Leaf(moved.entries[id]) = record.name
           \/ new = Rename(moved, id, record.name)
    BY <1>2, <1>4, RenameSets
  <2>2. One(moved) /\ Direct(moved) /\ NoCycle(moved) /\ UnderFolders(moved)
    BY <2>1, SameTreeKeeps
  <2>3. FollowsBut(moved, {}) /\ AtRoot(moved) /\ SameLeaves(ix, moved)
    <3>1. CASE Kept(ix, record)
      <4>1. moved = ix
        BY <3>1
      <4> QED BY <4>1 DEF SameLeaves
    <3>2. CASE ~Kept(ix, record)
      <4>1. moved = Move(ix, id, record.parent)
        BY <3>2
      <4> HIDE DEF moved
      <4> QED BY <1>1, <1>4, <2>2, <4>1, MoveFollows
    <3> QED BY <3>1, <3>2
  <2>4. DOMAIN moved.entries = DOMAIN ix.entries \cup {id}
    BY <2>1 DEF Sets
  <2> HIDE DEF moved
  <2>5. CASE new = moved /\ Leaf(moved.entries[id]) = record.name
    BY <2>3, <2>5 DEF SameLeaves
  <2>6. CASE new = Rename(moved, id, record.name)
    <3>1. /\ FollowsBut(new, {}) /\ AtRoot(new) /\ Leaf(new.entries[id]) = record.name
          /\ \A e \in DOMAIN moved.entries : e # id => Leaf(new.entries[e]) = Leaf(moved.entries[e])
      BY <1>1, <2>1, <2>3, <2>6, RenameFollows
    <3> QED BY <2>3, <2>4, <3>1 DEF SameLeaves
  <2> QED BY <2>1, <2>5, <2>6
<1> QED BY <1>3, <1>4

-----------------------------------------------------------------------------
(* The index and the records that are left to apply: what no record order   *)
(* may break as long as the parents are straight.                           *)

(* An entry lives or is still to be deleted.                                *)
Behind(ix, L) ==
    \A id \in DOMAIN ix.entries : Alive(id) \/ \E l \in L : Deletes(l, id)

(* No record names as its parent an earlier use of an entry's number.       *)
Elder(ix, L) ==
    \A id \in DOMAIN ix.entries : \A l \in L : l.parent.rec = id.rec => id.seq <= l.parent.seq

(* What is still to be created has no entry.                                *)
Fresh(ix, L) ==
    /\ \A l \in L : "create" \in l.reasons => l.self \notin DOMAIN ix.entries
    /\ \A r \in Records : "create" \in fs[r].reasons => Reference(r) \notin DOMAIN ix.entries

ParentKnown(ix) ==
    \A id \in DOMAIN ix.entries :
        LET parent == ix.entries[id].parent
        IN parent # Root => parent.seq <= fs[parent.rec].seq

(* Who has a parent without an entry, and does not wait for it, has one     *)
(* that is gone for good.                                                   *)
Orphans(ix, L) ==
    \A id \in DOMAIN ix.entries :
        LET parent == ix.entries[id].parent
        IN parent # Root /\ parent \notin DOMAIN ix.entries /\ ~IsAwaitingChild(ix, id)
              => ~Alive(parent) /\ \A l \in L : l.self # parent

(* A file has an entry from its create on.                                  *)
Present(ix, L) ==
    \A r \in Records :
        /\ fs[r].live /\ "create" \notin fs[r].reasons
        /\ \A l \in L : l.self = Reference(r) => "create" \notin l.reasons
        => Reference(r) \in DOMAIN ix.entries

(* The entry of a file without a record to come is in its place.            *)
Settled(ix, L) ==
    \A r \in Records :
        LET entry == ix.entries[Reference(r)] IN
        /\ fs[r].live /\ fs[r].reasons = {} /\ Reference(r) \in DOMAIN ix.entries
        /\ \A l \in L : l.self # Reference(r)
        => entry.parent.rec = fs[r].parent /\ Leaf(entry) = fs[r].name

(* What a reference names is a directory or not, for all who say so.        *)
KindOfIndex(kind, ix) ==
    \A id \in DOMAIN ix.entries :
        /\ kind[id] = ix.entries[id].dir
        /\ ix.entries[id].parent # Root => kind[ix.entries[id].parent] = TRUE

KindOfRecord(kind, record) ==
    kind[record.self] = record.dir /\ (record.parent # Root => kind[record.parent] = TRUE)

Healthy(ix, L, kind) ==
    /\ Straight(ix) /\ FollowsBut(ix, {}) /\ AtRoot(ix)
    /\ Elder(ix, L) /\ Fresh(ix, L) /\ ParentKnown(ix) /\ Orphans(ix, L)
    /\ Present(ix, L) /\ Settled(ix, L) /\ KindOfIndex(kind, ix)

(* What is known of the next record and of those that are left after it.    *)
Fits(record, L) ==
    LET file == fs[record.self.rec] IN
    /\ record.reasons # {} /\ record.parent.rec # record.self.rec
    /\ record.parent # Root => record.parent.seq <= fs[record.parent.rec].seq
    /\ record.self.seq <= file.seq
    /\ record.self.seq = file.seq /\ "delete" \in record.reasons => ~file.live
    /\ record.self.seq = file.seq => "create" \notin file.reasons
    /\ \A l \in L :
          /\ l.parent.rec = record.self.rec => record.self.seq <= l.parent.seq
          /\ "delete" \in l.reasons /\ l.self.rec = record.parent.rec => record.parent.seq <= l.self.seq
          /\ l.self = record.self => "create" \notin l.reasons /\ "delete" \notin record.reasons
    /\ \A r \in Records :
          /\ fs[r].live /\ fs[r].reasons = {} /\ record.self = Reference(r)
          /\ \A l \in L : l.self # record.self
          => record.parent.rec = fs[r].parent /\ record.name = fs[r].name

(* The reference of a record number, field by field.                        *)
LEMMA ReferenceIs ==
  ASSUME NEW r \in Records
  PROVE  Reference(r).rec = r /\ Reference(r).seq = fs[r].seq
<1> QED BY RecordsAssumption DEF Reference

(* The parent of the next record is found under its own reference.          *)
LEMMA NextParent ==
  ASSUME Types, NEW ix \in Indexes, One(ix), Keyed(ix),
         NEW L \in SUBSET UsnRecords, NEW record \in UsnRecords, Fits(record, L),
         Behind(ix, {record} \cup L), Elder(ix, {record} \cup L)
  PROVE  ResolveParent(ix, record.parent) = record.parent
<1> DEFINE ref == record.parent
           found == ResolveEntryReference(ix, ref)
<1>1. ref \in Parents /\ record.self \in References
  BY DEF UsnRecords, Parents
<1> SUFFICES ASSUME ref # Root, found # Nothing PROVE found = ref
  BY DEF ResolveParent
<1>2. ref \in References /\ ref.rec \in Records /\ ref.seq \in Nat
  BY <1>1 DEF Parents, References
<1>3. found \in DOMAIN ix.entries /\ found \in References /\ found.seq \in Nat
  <2>1. found \in DOMAIN ix.entries
    BY <1>1, ResolveTypes
  <2>2. found \in References
    BY <2>1, IndexParts
  <2> QED BY <2>1, <2>2 DEF References
<1>4. found.rec = ref.rec
  BY <1>2 DEF ResolveEntryReference, Keyed
<1>5. found.seq <= ref.seq
  BY <1>3, <1>4 DEF Elder
<1>6. ~(found.seq < ref.seq)
  <2> SUFFICES ASSUME found.seq < ref.seq PROVE FALSE
    OBVIOUS
  <2>1. ref.seq <= fs[ref.rec].seq /\ fs[ref.rec].seq \in Nat
    BY <1>2, FileNumbers DEF Fits
  <2>2. ~Alive(found)
    BY <1>2, <1>3, <1>4, <2>1 DEF Alive
  <2>3. PICK l \in {record} \cup L : Deletes(l, found)
    BY <1>3, <2>2 DEF Behind
  <2>4. l \in L
    BY <1>4, <2>3 DEF Deletes, Fits
  <2>5. ref.seq <= found.seq
    BY <1>4, <2>3, <2>4 DEF Fits, Deletes
  <2> QED BY <1>2, <1>3, <2>5
<1> QED BY <1>2, <1>3, <1>4, <1>5, <1>6, SameReference

(* Parents are directories.                                                 *)
LEMMA KindsUnderFolders ==
  ASSUME NEW ix \in Indexes, NEW kind, KindOfIndex(kind, ix)
  PROVE  UnderFolders(ix)
<1> SUFFICES ASSUME NEW e \in DOMAIN ix.entries, ix.entries[e].parent \in DOMAIN ix.entries
             PROVE  ix.entries[ix.entries[e].parent].dir
  BY DEF UnderFolders
<1>1. ix.entries[e].parent # Root
  BY IndexParts, ReferencesFinite
<1>2. kind[ix.entries[e].parent] = TRUE
  BY <1>1 DEF KindOfIndex
<1>3. ix.entries[ix.entries[e].parent].dir = TRUE
  BY <1>2 DEF KindOfIndex
<1> QED BY <1>3

(* A record that deletes.                                                   *)
LEMMA DeleteKeepsHealthy ==
  ASSUME Types, NEW ix \in Sound, Tidy(ix), NEW L \in SUBSET UsnRecords,
         NEW record \in UsnRecords, "delete" \in record.reasons, Fits(record, L),
         NEW kind, Healthy(ix, {record} \cup L, kind),
         NEW new, new = Remove(ix, record.self), Straight(new)
  PROVE  Healthy(new, L, kind)
<1> DEFINE id == record.self
<1>1. id \in References /\ id.rec \in Records /\ id.seq \in Nat
  BY DEF UsnRecords, References
<1>2. /\ DOMAIN new.entries = DOMAIN ix.entries \ {id}
      /\ \A e \in DOMAIN new.entries : new.entries[e] = ix.entries[e]
      /\ \A r \in Records :
            \/ new.awaiting[r] = ix.awaiting[r]
            \/ id \in DOMAIN ix.entries /\ new.awaiting[r] = ix.awaiting[r] \ {id}
            \/ id \in DOMAIN ix.entries /\ r = id.rec /\ new.awaiting[r] = {}
  BY <1>1, RemovedEntries
<1>3. /\ Straight(ix) /\ FollowsBut(ix, {}) /\ AtRoot(ix)
      /\ Elder(ix, {record} \cup L) /\ Fresh(ix, {record} \cup L) /\ ParentKnown(ix)
      /\ Orphans(ix, {record} \cup L) /\ Present(ix, {record} \cup L)
      /\ Settled(ix, {record} \cup L) /\ KindOfIndex(kind, ix)
  BY DEF Healthy
<1>4. FollowsBut(new, {}) /\ AtRoot(new)
  BY <1>1, <1>3, RemoveFollows
<1>5. ix \in Indexes /\ DOMAIN ix.entries \subseteq References
  BY IndexParts DEF Sound
<1>6. \A r \in Records : fs[r].live => Reference(r) # id
  BY ReferenceIs DEF Fits
<1>7. Elder(new, L)
  BY <1>2, <1>3 DEF Elder
<1>8. Fresh(new, L)
  BY <1>2, <1>3 DEF Fresh
<1>9. ParentKnown(new)
  BY <1>2, <1>3 DEF ParentKnown
<1>10. Orphans(new, L)
  <2> SUFFICES ASSUME NEW e \in DOMAIN new.entries, NEW q, q = new.entries[e].parent,
                      q # Root, q \notin DOMAIN new.entries, ~IsAwaitingChild(new, e)
               PROVE  ~Alive(q) /\ \A l \in L : l.self # q
    BY DEF Orphans
  <2>1. e \in DOMAIN ix.entries /\ e # id /\ new.entries[e] = ix.entries[e] /\ q = ix.entries[e].parent
    BY <1>2
  <2>2. q \in References /\ q.rec \in Records
    BY <1>5, <2>1, EntryParts DEF Parents, References
  <2>3. CASE q = id
    <3>1. ~Alive(q)
      BY <1>1, <2>3 DEF Alive, Fits
    <3> QED BY <2>3, <3>1 DEF Fits
  <2>4. CASE q # id
    <3>1. q \notin DOMAIN ix.entries
      BY <1>2, <2>4
    <3>2. ~IsAwaitingChild(ix, e)
      <4> SUFFICES ASSUME IsAwaitingChild(ix, e) PROVE FALSE
        OBVIOUS
      <4>1. e \in ix.awaiting[q.rec] /\ e \notin new.awaiting[q.rec]
        BY <2>1 DEF IsAwaitingChild
      <4>2. id \in DOMAIN ix.entries /\ q.rec = id.rec
        BY <1>2, <2>1, <2>2, <4>1
      <4>3. One(ix) /\ Direct(ix)
        BY <1>3 DEF Tidy, Straight
      <4>4. id = q
        BY <1>5, <2>1, <4>2, <4>3, DirectParent
      <4> QED BY <2>4, <4>4
    <3> QED BY <1>3, <2>1, <3>1, <3>2 DEF Orphans
  <2> QED BY <2>3, <2>4
<1>11. Present(new, L)
  <2> SUFFICES ASSUME NEW r \in Records, fs[r].live, "create" \notin fs[r].reasons,
                      \A l \in L : l.self = Reference(r) => "create" \notin l.reasons
               PROVE  Reference(r) \in DOMAIN new.entries
    BY DEF Present
  <2>1. Reference(r) # id
    BY <1>6
  <2>2. Reference(r) \in DOMAIN ix.entries
    BY <1>3, <2>1 DEF Present
  <2> QED BY <1>2, <2>1, <2>2
<1>12. Settled(new, L)
  <2> SUFFICES ASSUME NEW r \in Records, fs[r].live, fs[r].reasons = {},
                      Reference(r) \in DOMAIN new.entries, \A l \in L : l.self # Reference(r)
               PROVE  LET entry == new.entries[Reference(r)]
                      IN entry.parent.rec = fs[r].parent /\ Leaf(entry) = fs[r].name
    BY DEF Settled
  <2>1. Reference(r) # id /\ Reference(r) \in DOMAIN ix.entries
        /\ new.entries[Reference(r)] = ix.entries[Reference(r)]
    BY <1>2, <1>6
  <2>2. \A l \in {record} \cup L : l.self # Reference(r)
    BY <2>1
  <2> QED BY <1>3, <2>1, <2>2 DEF Settled
<1>13. KindOfIndex(kind, new)
  BY <1>2, <1>3 DEF KindOfIndex
<1> QED BY <1>4, <1>7, <1>8, <1>9, <1>10, <1>11, <1>12, <1>13 DEF Healthy

(* A record that does not.                                                  *)
LEMMA OtherKeepsHealthy ==
  ASSUME Types, NEW ix \in Sound, Tidy(ix), NEW L \in SUBSET UsnRecords,
         NEW record \in UsnRecords, "delete" \notin record.reasons, Fits(record, L),
         Alone(ix, record.self), Behind(ix, {record} \cup L),
         NEW kind, KindOfRecord(kind, record), Healthy(ix, {record} \cup L, kind),
         NEW new, new = ProcessUsnRecordReasons(ix, record),
         new \in Sound, Tidy(new), Straight(new)
  PROVE  Healthy(new, L, kind)
<1> DEFINE id == record.self
<1>1. id \in References /\ id.rec \in Records /\ id.seq \in Nat /\ record.parent \in Parents
  BY DEF UsnRecords, References, Parents
<1>2. /\ Straight(ix) /\ FollowsBut(ix, {}) /\ AtRoot(ix)
      /\ Elder(ix, {record} \cup L) /\ Fresh(ix, {record} \cup L) /\ ParentKnown(ix)
      /\ Orphans(ix, {record} \cup L) /\ Present(ix, {record} \cup L)
      /\ Settled(ix, {record} \cup L) /\ KindOfIndex(kind, ix)
  BY DEF Healthy
<1>3. /\ ix \in Indexes /\ DOMAIN ix.entries \subseteq References
      /\ new \in Indexes /\ DOMAIN new.entries \subseteq References
      /\ One(ix) /\ Keyed(ix) /\ One(new) /\ Direct(ix) /\ Direct(new) /\ NoCycle(new) /\ Short(new) /\ Short(ix)
  BY <1>2, IndexParts DEF Sound, Tidy, Straight
<1>4. ResolveParent(ix, record.parent) = record.parent
  BY <1>2, <1>3, NextParent
<1>5. /\ record.reasons # {} /\ record.parent.rec # id.rec
      /\ "create" \in record.reasons => id \notin DOMAIN ix.entries
  BY <1>2 DEF Fits, Fresh
<1>6. Sets(ix, new, record)
  BY <1>4, <1>5, RecordSets
<1>7. /\ DOMAIN new.entries = DOMAIN ix.entries \cup {id}
      /\ \A e \in DOMAIN ix.entries : e # id => /\ new.entries[e].parent = ix.entries[e].parent
                                                /\ new.entries[e].dir = ix.entries[e].dir
      /\ new.entries[id].dir = IF id \in DOMAIN ix.entries THEN ix.entries[id].dir ELSE record.dir
      /\ \/ new.entries[id].parent = record.parent
         \/ id \in DOMAIN ix.entries /\ new.entries[id].parent = ix.entries[id].parent
      /\ new.entries[id].parent.rec = record.parent.rec
      /\ \A r \in Records : r # id.rec => new.awaiting[r] \ {id} = ix.awaiting[r] \ {id}
  <2>1. /\ DOMAIN new.entries = DOMAIN ix.entries \cup {id}
        /\ \A e \in DOMAIN ix.entries : e # id => /\ new.entries[e].parent = ix.entries[e].parent
                                                  /\ new.entries[e].dir = ix.entries[e].dir
        /\ new.entries[id].dir = IF id \in DOMAIN ix.entries THEN ix.entries[id].dir ELSE record.dir
        /\ \A r \in Records : r # id.rec => new.awaiting[r] \ {id} = ix.awaiting[r] \ {id}
    BY <1>6, Zenon DEF Sets
  <2>2. /\ \/ new.entries[id].parent = record.parent
           \/ id \in DOMAIN ix.entries /\ new.entries[id].parent = ix.entries[id].parent
        /\ new.entries[id].parent.rec = record.parent.rec
    <3>1. CASE Kept(ix, record)
      <4>1. id \in DOMAIN ix.entries /\ ix.entries[id].parent.rec = record.parent.rec
        BY <3>1 DEF Kept
      <4>2. new.entries[id].parent = ix.entries[id].parent
        BY <1>6, <3>1, Zenon DEF Sets
      <4> QED BY <4>1, <4>2
    <3>2. CASE ~Kept(ix, record)
      <4>1. new.entries[id].parent = record.parent
        BY <1>6, <3>2, Zenon DEF Sets
      <4> QED BY <4>1
    <3> QED BY <3>1, <3>2
  <2> QED BY <2>1, <2>2, Zenon
<1>8. KindOfIndex(kind, new)
  <2> SUFFICES ASSUME NEW e \in DOMAIN new.entries
               PROVE  /\ kind[e] = new.entries[e].dir
                      /\ new.entries[e].parent # Root => kind[new.entries[e].parent] = TRUE
    BY DEF KindOfIndex
  <2>1. CASE e # id
    BY <1>2, <1>7, <2>1 DEF KindOfIndex
  <2>2. CASE e = id
    BY <1>2, <1>7, <2>2 DEF KindOfIndex, KindOfRecord
  <2> QED BY <2>1, <2>2
<1>9. /\ FollowsBut(new, {}) /\ AtRoot(new) /\ Leaf(new.entries[id]) = record.name
      /\ \A e \in DOMAIN ix.entries : e # id => Leaf(new.entries[e]) = Leaf(ix.entries[e])
  <2>1. UnderFolders(new)
    BY <1>3, <1>8, KindsUnderFolders
  <2>2. ASSUME NEW e \in DOMAIN ix.entries, id \notin DOMAIN ix.entries, ix.entries[e].parent = id
        PROVE  e \in ix.awaiting[id.rec]
    <3>1. id # Root
      BY <1>1, ReferencesFinite
    <3>2. IsAwaitingChild(ix, e)
      BY <1>2, <2>2, <3>1 DEF Orphans
    <3> QED BY <2>2, <3>2 DEF IsAwaitingChild
  <2> QED BY <1>2, <1>3, <1>4, <1>5, <2>1, <2>2, RecordFollows
<1>10. Elder(new, L)
  <2> SUFFICES ASSUME NEW e \in DOMAIN new.entries, NEW l \in L, l.parent.rec = e.rec
               PROVE  e.seq <= l.parent.seq
    BY DEF Elder
  <2>1. CASE e = id
    BY <2>1 DEF Fits
  <2>2. CASE e # id
    BY <1>2, <1>7, <2>2 DEF Elder
  <2> QED BY <2>1, <2>2
<1>11. Fresh(new, L)
  <2>1. ASSUME NEW l \in L, "create" \in l.reasons PROVE l.self \notin DOMAIN new.entries
    BY <1>2, <1>7, <2>1 DEF Fresh, Fits
  <2>2. ASSUME NEW r \in Records, "create" \in fs[r].reasons PROVE Reference(r) \notin DOMAIN new.entries
    <3>1. Reference(r) # id
      BY <2>2, ReferenceIs DEF Fits
    <3> QED BY <1>2, <1>7, <2>2, <3>1 DEF Fresh
  <2> QED BY <2>1, <2>2 DEF Fresh
<1>12. ParentKnown(new)
  BY <1>2, <1>7 DEF ParentKnown, Fits
<1>13. Orphans(new, L)
  <2> SUFFICES ASSUME NEW e \in DOMAIN new.entries, NEW q, q = new.entries[e].parent,
                      q # Root, q \notin DOMAIN new.entries, ~IsAwaitingChild(new, e)
               PROVE  ~Alive(q) /\ \A l \in L : l.self # q
    BY DEF Orphans
  <2>1. q \in References /\ q.rec \in Records
    BY <1>3, EntryParts DEF Parents, References
  <2>2. q \notin DOMAIN ix.entries
    BY <1>7
  <2>3. e \in DOMAIN ix.entries /\ ix.entries[e].parent = q /\ ~IsAwaitingChild(ix, e)
    <3>1. CASE e = id
      <4>1. Kept(ix, record)
        BY <1>6, <2>2, <3>1 DEF Sets
      <4> QED BY <1>6, <3>1, <4>1 DEF Sets, Kept
    <3>2. CASE e # id
      <4>1. e \in DOMAIN ix.entries /\ ix.entries[e].parent = q
        BY <1>7, <3>2
      <4>2. q.rec # id.rec
        <5> SUFFICES ASSUME q.rec = id.rec PROVE FALSE
          OBVIOUS
        <5>1. id = q
          BY <1>3, <1>7, DirectParent
        <5> QED BY <1>7, <5>1
      <4>3. e \notin new.awaiting[q.rec]
        BY DEF IsAwaitingChild
      <4>4. e \notin ix.awaiting[q.rec]
        BY <1>7, <2>1, <3>2, <4>2, <4>3
      <4> QED BY <4>1, <4>4 DEF IsAwaitingChild
    <3> QED BY <3>1, <3>2
  <2> QED BY <1>2, <2>2, <2>3 DEF Orphans
<1>14. Present(new, L)
  <2> SUFFICES ASSUME NEW r \in Records, fs[r].live, "create" \notin fs[r].reasons,
                      \A l \in L : l.self = Reference(r) => "create" \notin l.reasons,
                      Reference(r) # id
               PROVE  Reference(r) \in DOMAIN new.entries
    BY <1>7 DEF Present
  <2>1. Reference(r) \in DOMAIN ix.entries
    BY <1>2 DEF Present
  <2> QED BY <1>7, <2>1
<1>15. Settled(new, L)
  <2> SUFFICES ASSUME NEW r \in Records, fs[r].live, fs[r].reasons = {},
                      Reference(r) \in DOMAIN new.entries, \A l \in L : l.self # Reference(r)
               PROVE  LET entry == new.entries[Reference(r)]
                      IN entry.parent.rec = fs[r].parent /\ Leaf(entry) = fs[r].name
    BY DEF Settled
  <2>1. CASE Reference(r) = id
    <3>1. record.parent.rec = fs[r].parent /\ record.name = fs[r].name
      BY <2>1 DEF Fits
    <3> QED BY <1>7, <1>9, <2>1, <3>1
  <2>2. CASE Reference(r) # id
    <3>1. /\ Reference(r) \in DOMAIN ix.entries
          /\ new.entries[Reference(r)].parent = ix.entries[Reference(r)].parent
          /\ Leaf(new.entries[Reference(r)]) = Leaf(ix.entries[Reference(r)])
      BY <1>7, <1>9, <2>2
    <3>2. \A l \in {record} \cup L : l.self # Reference(r)
      BY <2>2
    <3>3. LET entry == ix.entries[Reference(r)]
          IN entry.parent.rec = fs[r].parent /\ Leaf(entry) = fs[r].name
      BY <1>2, <3>1, <3>2 DEF Settled
    <3> QED BY <3>1, <3>3
  <2> QED BY <2>1, <2>2
<1> QED BY <1>8, <1>9, <1>10, <1>11, <1>12, <1>13, <1>14, <1>15 DEF Healthy

-----------------------------------------------------------------------------
(* More of the journal.  A parent is another file, and the record of its    *)
(* delete comes after those that name it.                                   *)
Parental(P) ==
    \A i \in DOMAIN P :
        LET parent == P[i].parent IN
        /\ parent.rec # P[i].self.rec
        /\ parent # Root =>
              /\ parent.seq <= fs[parent.rec].seq
              /\ Alive(parent) \/ \E j \in DOMAIN P : j >= i /\ Deletes(P[j], parent)

(* Files and parents of a number are in the order of their use.             *)
Aged(P) ==
    \A i, j \in DOMAIN P : i < j =>
        /\ P[i].self.rec = P[j].parent.rec => P[i].self.seq <= P[j].parent.seq
        /\ P[i].parent.rec = P[j].self.rec => P[i].parent.seq <= P[j].self.seq

Reasoned(P) == \A i \in DOMAIN P : P[i].reasons # {}

(* The last record of a file that is closed says where it is.               *)
LastIs(P) ==
    \A r \in Records, i \in DOMAIN P :
        /\ fs[r].live /\ fs[r].reasons = {} /\ P[i].self = Reference(r)
        /\ \A j \in DOMAIN P : P[j].self = Reference(r) => j <= i
        => P[i].parent.rec = fs[r].parent /\ P[i].name = fs[r].name

Told(P) == Parental(P) /\ Aged(P) /\ Reasoned(P) /\ LastIs(P)

(* The records that are left after the first of them.                       *)
Left(P, k) == {P[j] : j \in {i \in DOMAIN P : i > k}}

(* What is left before a record is that record and what is left after.      *)
LEMMA LeftParts ==
  ASSUME NEW P \in Seq(UsnRecords), NEW k \in Nat
  PROVE  /\ Left(P, k) \in SUBSET UsnRecords
         /\ \A l : l \in Left(P, k) <=> \E j \in DOMAIN P : j > k /\ P[j] = l
         /\ k \in 1..Len(P) => Left(P, k - 1) = {P[k]} \cup Left(P, k)
         /\ \A ix : InStep(ix, P, k) => Behind(ix, Left(P, k))
<1>1. \A l : l \in Left(P, k) <=> \E j \in DOMAIN P : j > k /\ P[j] = l
  BY DEF Left
<1>2. Left(P, k) \in SUBSET UsnRecords
  <2>1. \A j \in DOMAIN P : P[j] \in UsnRecords
    OBVIOUS
  <2> QED BY <1>1, <2>1
<1>3. ASSUME k \in 1..Len(P) PROVE Left(P, k - 1) = {P[k]} \cup Left(P, k)
  <2>1. \A j \in DOMAIN P : j > k - 1 <=> j = k \/ j > k
    BY <1>3
  <2>2. k \in DOMAIN P
    BY <1>3
  <2>3. {i \in DOMAIN P : i > k - 1} = {k} \cup {i \in DOMAIN P : i > k}
    BY <2>1, <2>2
  <2> QED BY <2>3 DEF Left
<1>4. ASSUME NEW ix, InStep(ix, P, k) PROVE Behind(ix, Left(P, k))
  BY <1>1, <1>4 DEF InStep, Behind
<1> QED BY <1>1, <1>2, <1>3, <1>4

(* The records of a run are those of the journal.                           *)
LEMMA LeftOfRun ==
  ASSUME NEW P \in Seq(UsnRecords), NEW n \in 1..Len(P),
         NEW Q, NEW f, NEW m, NEW a, Run(P, n, Q, f, m, a)
  PROVE  /\ Left(Q, 0) = Left(P, 0)
         /\ Left(Q, m) = Left(SubSeq(P, n + 1, Len(P)), 0)
<1> DEFINE S == SubSeq(P, n + 1, Len(P))
<1>1. /\ Q \in Seq(UsnRecords) /\ Shuffle(Q, P, n, f) /\ m \in Nat
      /\ Len(Q) = m + (Len(P) - n) /\ Len(P) - n \in Nat
      /\ \A k \in 1..(Len(P) - n) : Q[m + k] = P[n + k]
  BY DEF Run
<1>2. S \in Seq(UsnRecords) /\ Len(S) = Len(P) - n /\ \A k \in 1..(Len(P) - n) : S[k] = P[n + k]
  <2>1. n \in 0..Len(P)
    OBVIOUS
  <2> QED BY <2>1, Slices
<1> HIDE DEF S
<1>3. /\ \A l : l \in Left(Q, 0) <=> \E j \in DOMAIN Q : j > 0 /\ Q[j] = l
      /\ \A l : l \in Left(P, 0) <=> \E j \in DOMAIN P : j > 0 /\ P[j] = l
      /\ \A l : l \in Left(Q, m) <=> \E j \in DOMAIN Q : j > m /\ Q[j] = l
      /\ \A l : l \in Left(S, 0) <=> \E j \in DOMAIN S : j > 0 /\ S[j] = l
  BY DEF Left
<1>4. Left(Q, 0) = Left(P, 0)
  <2>1. \A j \in DOMAIN P : j > 0
    OBVIOUS
  <2>2. \A j \in DOMAIN Q : j > 0
    BY <1>1
  <2>3. /\ \A k \in DOMAIN Q : f[k] \in DOMAIN P /\ Q[k] = P[f[k]]
        /\ \A j \in DOMAIN P : \E k \in DOMAIN Q : f[k] = j
    BY <1>1 DEF Shuffle
  <2>4. \A l : l \in Left(Q, 0) <=> l \in Left(P, 0)
    BY <1>3, <2>1, <2>2, <2>3
  <2> QED BY <2>4
<1>5. Left(Q, m) = Left(S, 0)
  <2>1. ASSUME NEW j \in DOMAIN Q, j > m PROVE \E i \in DOMAIN S : i > 0 /\ S[i] = Q[j]
    <3>1. j \in 1..Len(Q)
      BY <1>1
    <3>2. j - m \in 1..(Len(P) - n) /\ m + (j - m) = j /\ j - m > 0
      BY <1>1, <2>1, <3>1
    <3>3. j - m \in DOMAIN S
      BY <1>2, <3>2
    <3>4. S[j - m] = Q[j]
      BY <1>1, <1>2, <3>2
    <3> QED BY <3>2, <3>3, <3>4
  <2>2. ASSUME NEW i \in DOMAIN S PROVE \E j \in DOMAIN Q : j > m /\ Q[j] = S[i]
    <3>1. i \in 1..(Len(P) - n)
      BY <1>2
    <3>2. m + i \in 1..Len(Q) /\ m + i > m
      BY <1>1, <3>1
    <3>3. m + i \in DOMAIN Q
      BY <1>1, <3>2
    <3>4. Q[m + i] = S[i]
      BY <1>1, <1>2, <3>1
    <3> QED BY <3>2, <3>3, <3>4
  <2>3. \A l : l \in Left(Q, m) <=> l \in Left(S, 0)
    BY <1>3, <2>1, <2>2
  <2> QED BY <2>3
<1> QED BY <1>4, <1>5 DEF S

(* In the order in which a buffer is applied each record fits those after.  *)
LEMMA ShuffledFits ==
  ASSUME Types, NEW P \in Seq(UsnRecords), NEW n \in 0..Len(P), Readable(P, n),
         Ordered(P), CreatedFirst(P), Covered(P), Known(P), Told(P),
         NEW Q \in Seq(UsnRecords), NEW f, Shuffle(Q, P, n, f), NEW k \in 1..Len(Q)
  PROVE  Fits(Q[k], Left(Q, k))
<1> DEFINE record == Q[k]
           L == Left(Q, k)
<1>1. /\ \A i \in DOMAIN Q : f[i] \in DOMAIN P /\ Q[i] = P[f[i]]
      /\ \A j \in DOMAIN P : \E i \in DOMAIN Q : f[i] = j
      /\ \A i, j \in DOMAIN Q : i < j =>
            \/ f[i] < f[j]
            \/ f[j] < f[i] /\ f[i] <= n /\ EstablishesParent(Q[i]) /\ ~EstablishesParent(Q[j])
  BY DEF Shuffle
<1>2. k \in DOMAIN Q /\ k \in Nat /\ DOMAIN Q \subseteq Nat /\ DOMAIN P = 1..Len(P) /\ Len(P) \in Nat
  OBVIOUS
<1>3. f[k] \in DOMAIN P /\ record = P[f[k]]
  BY <1>1, <1>2
<1>4. Parental(P) /\ Aged(P) /\ Reasoned(P) /\ LastIs(P)
  BY DEF Told
<1>5. \A l : l \in L <=> \E j \in DOMAIN Q : j > k /\ Q[j] = l
  BY <1>2, LeftParts
<1>6. Ordered(Q)
  BY ShuffledInv
<1> HIDE DEF record, L
<1>7. /\ record.reasons # {} /\ record.parent.rec # record.self.rec
      /\ record.parent # Root => record.parent.seq <= fs[record.parent.rec].seq
  BY <1>3, <1>4 DEF Reasoned, Parental
<1>8. LET file == fs[record.self.rec] IN
      /\ record.self.seq <= file.seq
      /\ record.self.seq = file.seq /\ "delete" \in record.reasons => ~file.live
      /\ record.self.seq = file.seq => "create" \notin file.reasons
  BY <1>3 DEF Known
<1>r. \A i \in DOMAIN P : P[i].self \in References /\ P[i].self.seq \in Nat /\ P[i].parent \in Parents
  <2>1. \A i \in DOMAIN P : P[i] \in UsnRecords
    OBVIOUS
  <2> QED BY <2>1, AboutReferences DEF UsnRecords, Parents
<1>9. ASSUME NEW l \in L
      PROVE  /\ l.parent.rec = record.self.rec => record.self.seq <= l.parent.seq
             /\ "delete" \in l.reasons /\ l.self.rec = record.parent.rec => record.parent.seq <= l.self.seq
             /\ l.self = record.self => "create" \notin l.reasons /\ "delete" \notin record.reasons
  <2>1. PICK j \in DOMAIN Q : j > k /\ Q[j] = l
    BY <1>5
  <2>2. k < j
    BY <1>2, <2>1
  <2>3. /\ f[j] \in DOMAIN P /\ l = P[f[j]]
        /\ \/ f[k] < f[j]
           \/ f[j] < f[k] /\ f[k] <= n /\ EstablishesParent(record) /\ ~EstablishesParent(l)
    BY <1>1, <1>2, <2>1, <2>2 DEF record
  <2>4. f[k] \in Nat /\ f[j] \in Nat /\ n \in Nat
    BY <1>2, <1>3, <2>3
  <2>5. ASSUME l.parent.rec = record.self.rec PROVE record.self.seq <= l.parent.seq
    <3>1. CASE f[k] < f[j]
      BY <1>3, <1>4, <2>3, <2>5, <3>1 DEF Aged
    <3>2. CASE ~(f[k] < f[j])
      <4>1. f[j] < f[k] /\ f[k] <= n /\ EstablishesParent(record)
        BY <2>3, <3>2
      <4>2. l.parent.rec \in Records /\ l.parent # Root /\ l.parent \in References
        <5>1. record.self \in References /\ l.parent \in Parents
          BY <1>3, <1>r, <2>3
        <5>2. record.self.rec # 0
          BY <5>1, RecordsAssumption DEF References
        <5> QED BY <2>5, <5>1, <5>2 DEF Parents, References, Root
      <4>3. l.parent.seq \in Nat /\ record.self.seq \in Nat
        BY <1>3, <1>r, <4>2 DEF References
      <4> SUFFICES ASSUME l.parent.seq < record.self.seq PROVE FALSE
        BY <4>3
      <4>4. ~Alive(l.parent)
        <5>1. fs[l.parent.rec].seq \in Nat
          BY <4>2, FileNumbers
        <5> QED BY <1>8, <2>5, <4>3, <5>1 DEF Alive
      <4>5. PICK d \in DOMAIN P : Deletes(P[d], l.parent)
        BY <1>4, <2>3, <4>2, <4>4 DEF Parental
      <4>6. P[d].self = l.parent /\ "delete" \in P[d].reasons
        BY <4>5 DEF Deletes
      <4>7. ~(f[k] < d)
        <5> SUFFICES ASSUME f[k] < d PROVE FALSE
          OBVIOUS
        <5>1. record.self.seq < P[d].self.seq \/ record.self = P[d].self
          BY <1>3, <2>5, <4>6 DEF Ordered
        <5> QED BY <4>3, <4>6, <5>1
      <4>8. d # f[k]
        BY <1>3, <4>3, <4>6
      <4>9. d \in 1..n /\ f[k] \in 1..n /\ d < f[k]
        BY <1>2, <1>3, <2>4, <4>1, <4>7, <4>8
      <4>10. P[d].self.rec # P[f[k]].self.rec
        BY <1>3, <4>1, <4>6, <4>9 DEF Readable
      <4> QED BY <1>3, <2>5, <4>6, <4>10
    <3> QED BY <3>1, <3>2
  <2>6. ASSUME "delete" \in l.reasons, l.self.rec = record.parent.rec
        PROVE  record.parent.seq <= l.self.seq
    <3>1. CASE f[k] < f[j]
      BY <1>3, <1>4, <2>3, <2>6, <3>1 DEF Aged
    <3>2. CASE ~(f[k] < f[j])
      <4>1. f[j] < f[k] /\ f[k] <= n /\ EstablishesParent(record)
        BY <2>3, <3>2
      <4>2. f[j] \in 1..n /\ f[k] \in 1..n
        BY <1>2, <1>3, <2>3, <2>4, <4>1
      <4>3. P[f[j]].self.rec # P[f[k]].parent.rec
        BY <1>3, <2>3, <2>6, <4>1, <4>2 DEF Readable
      <4> QED BY <1>3, <2>3, <2>6, <4>3
    <3> QED BY <3>1, <3>2
  <2>7. ASSUME l.self = record.self PROVE "create" \notin l.reasons /\ "delete" \notin record.reasons
    <3>1. "delete" \notin record.reasons
      <4>1. Q[k].self.rec = Q[j].self.rec /\ Q[k].self = Q[j].self /\ Q[k].self.seq \in Nat
        BY <1>3, <1>r, <2>1, <2>7 DEF record
      <4>2. ~(Q[k].self.seq < Q[j].self.seq)
        BY <4>1
      <4> QED BY <1>2, <1>6, <2>1, <2>2, <4>1, <4>2 DEF Ordered, record
    <3>2. CASE f[k] < f[j]
      BY <1>3, <2>3, <2>7, <3>1, <3>2 DEF CreatedFirst
    <3>3. CASE ~(f[k] < f[j])
      <4>1. f[j] < f[k] /\ f[k] <= n /\ EstablishesParent(record)
        BY <2>3, <3>3
      <4>2. P[f[j]].self.rec # P[f[k]].self.rec
        BY <1>3, <2>3, <4>1, SwappedAreOthers
      <4> QED BY <1>3, <2>3, <2>7, <4>2
    <3> QED BY <3>1, <3>2, <3>3
  <2> QED BY <2>5, <2>6, <2>7
<1>10. ASSUME NEW r \in Records, fs[r].live, fs[r].reasons = {}, record.self = Reference(r),
              \A l \in L : l.self # record.self
       PROVE  record.parent.rec = fs[r].parent /\ record.name = fs[r].name
  <2>1. ASSUME NEW j \in DOMAIN P, P[j].self = Reference(r) PROVE j <= f[k]
    <3>1. PICK i \in DOMAIN Q : f[i] = j
      BY <1>1
    <3>2. Q[i].self = record.self /\ i \in Nat /\ j \in Nat /\ f[k] \in Nat
      BY <1>1, <1>2, <1>3, <1>10, <2>1, <3>1
    <3>3. ~(i > k)
      BY <1>5, <1>10, <3>2
    <3>4. i = k \/ i < k
      BY <1>2, <3>2, <3>3
    <3>5. CASE i = k
      BY <3>1, <3>2, <3>5
    <3>6. CASE i < k
      <4>1. f[i] < f[k] \/ (f[k] < f[i] /\ f[i] <= n /\ EstablishesParent(Q[i]))
        BY <1>1, <1>2, <3>6
      <4>2. CASE f[i] < f[k]
        BY <3>1, <3>2, <4>2
      <4>3. CASE f[k] < f[i] /\ f[i] <= n /\ EstablishesParent(Q[i])
        <5>1. Q[i] = P[f[i]] /\ f[i] \in DOMAIN P
          BY <1>1
        <5>2. P[f[k]].self.rec # P[f[i]].self.rec
          BY <1>3, <4>3, <5>1, SwappedAreOthers
        <5> QED BY <1>3, <3>2, <5>1, <5>2
      <4> QED BY <4>1, <4>2, <4>3
    <3> QED BY <3>4, <3>5, <3>6
  <2> QED BY <1>3, <1>4, <1>10, <2>1 DEF LastIs
<1> QED BY <1>7, <1>8, <1>9, <1>10 DEF Fits, record, L

-----------------------------------------------------------------------------
(* A buffer.                                                                *)

(* A buffer keeps the index healthy as long as the parents are straight.    *)
LEMMA RunIsHealthy ==
  ASSUME Types, NEW P \in Seq(UsnRecords), NEW n \in 1..Len(P), Readable(P, n),
         Ordered(P), CreatedFirst(P), Covered(P), Known(P), Told(P),
         NEW Q, NEW f, NEW m, NEW a, Run(P, n, Q, f, m, a),
         Tidy(a[0].index), InStep(a[0].index, P, 0),
         NEW kind, \A i \in DOMAIN P : KindOfRecord(kind, P[i]),
         ~a[0].astray => Healthy(a[0].index, Left(P, 0), kind), ~a[m].astray
  PROVE  ~a[0].astray /\ Healthy(a[m].index, Left(SubSeq(P, n + 1, Len(P)), 0), kind)
<1>0. n \in 0..Len(P)
  OBVIOUS
<1>1. /\ Q \in Seq(UsnRecords) /\ Shuffle(Q, P, n, f)
      /\ m \in Nat /\ m <= Len(Q) /\ Len(Q) \in Nat /\ a \in [0..m -> Applied]
  BY DEF Run
<1>2. \A i \in 1..m : /\ a[i].index = ProcessUsnRecordReasons(a[i - 1].index, Q[i])
                      /\ a[i].astray = (a[i - 1].astray \/ Astray(a[i].index))
                      /\ ~({"rename", "delete"} \subseteq Q[i].reasons)
  BY DEF Run
<1>3. \A i \in 0..m : a[i].index \in Sound /\ Tidy(a[i].index) /\ InStep(a[i].index, Q, i)
  BY RunIsTidy
<1>4. /\ Left(Q, 0) = Left(P, 0) /\ Left(Q, m) = Left(SubSeq(P, n + 1, Len(P)), 0)
  BY LeftOfRun
<1>5. \A k \in 1..Len(Q) : Fits(Q[k], Left(Q, k)) /\ KindOfRecord(kind, Q[k])
  <2> TAKE k \in 1..Len(Q)
  <2>1. Fits(Q[k], Left(Q, k))
    BY <1>0, <1>1, ShuffledFits
  <2>2. k \in DOMAIN Q
    BY <1>1
  <2> QED BY <1>1, <2>1, <2>2 DEF Shuffle
<1>6. Ordered(Q) /\ Known(Q)
  BY <1>0, <1>1, ShuffledInv
<1> DEFINE T == {i \in Nat : i <= m => (~a[i].astray => ~a[0].astray /\ Healthy(a[i].index, Left(Q, i), kind))}
<1>7. 0 \in T
  BY <1>4
<1>8. ASSUME NEW i \in Nat, i \in T PROVE i + 1 \in T
  <2> SUFFICES ASSUME i + 1 <= m, ~a[i + 1].astray
               PROVE  ~a[0].astray /\ Healthy(a[i + 1].index, Left(Q, i + 1), kind)
    OBVIOUS
  <2> DEFINE k == i + 1
             record == Q[k]
             old == a[i].index
             new == a[k].index
  <2>1. k \in 1..m /\ k - 1 = i /\ k \in 1..Len(Q) /\ i \in 0..m /\ k \in 0..m /\ k \in Nat
    BY <1>1
  <2>2. /\ old \in Sound /\ old \in Indexes /\ Tidy(old) /\ InStep(old, Q, k - 1)
        /\ new \in Sound /\ new \in Indexes /\ Tidy(new)
    BY <1>3, <2>1 DEF Sound
  <2>3. /\ new = ProcessUsnRecordReasons(old, record) /\ ~({"rename", "delete"} \subseteq record.reasons)
        /\ ~a[i].astray /\ ~Astray(new)
    <3>1. a[k].astray = (a[k - 1].astray \/ Astray(new))
      BY <1>2, <2>1
    <3>2. ~(a[k - 1].astray \/ Astray(new))
      BY <3>1
    <3> QED BY <1>2, <2>1, <3>2
  <2>4. record \in UsnRecords /\ Fits(record, Left(Q, k)) /\ KindOfRecord(kind, record)
    BY <1>1, <1>5, <2>1
  <2>5. /\ Left(Q, k) \in SUBSET UsnRecords /\ Left(Q, i) = {record} \cup Left(Q, k)
        /\ Behind(old, Left(Q, i))
    <3>1. Left(Q, k) \in SUBSET UsnRecords /\ Left(Q, k - 1) = {Q[k]} \cup Left(Q, k)
      BY <1>1, <2>1, LeftParts
    <3>2. InStep(old, Q, i)
      BY <1>3, <2>1
    <3>3. Behind(old, Left(Q, i))
      BY <1>1, <3>2, LeftParts
    <3> QED BY <2>1, <3>1, <3>3
  <2>6. ~a[0].astray /\ Healthy(old, {record} \cup Left(Q, k), kind)
    <3>1. ~a[0].astray /\ Healthy(a[i].index, Left(Q, i), kind)
      BY <1>8, <2>1, <2>3
    <3> QED BY <2>5, <3>1, Zenon
  <2>7. Straight(new)
    BY <2>2, <2>3, StraightIsNotAstray
  <2>8. Alone(old, record.self)
    <3> HIDE DEF k, old, new
    <3> QED BY <1>1, <1>6, <2>1, <2>2, NextIsAlone
  <2> HIDE DEF k, record, old, new
  <2>9. CASE "delete" \in record.reasons
    <3>1. new = Remove(old, record.self)
      BY <2>3, <2>9 DEF ProcessUsnRecordReasons
    <3>2. Healthy(new, Left(Q, k), kind)
      BY <2>2, <2>4, <2>5, <2>6, <2>7, <2>9, <3>1, DeleteKeepsHealthy
    <3> QED BY <2>6, <3>2 DEF k, new
  <2>10. CASE "delete" \notin record.reasons
    <3>1. Behind(old, {record} \cup Left(Q, k))
      BY <2>5
    <3>2. Healthy(new, Left(Q, k), kind)
      BY <2>2, <2>3, <2>4, <2>5, <2>6, <2>7, <2>8, <2>10, <3>1, OtherKeepsHealthy
    <3> QED BY <2>6, <3>2 DEF k, new
  <2> QED BY <2>9, <2>10
<1>9. Nat \subseteq T
  <2> HIDE DEF T
  <2> QED BY <1>7, <1>8, Upwards
<1> QED BY <1>1, <1>4, <1>9

-----------------------------------------------------------------------------
(* The volume is a tree of files in directories.                            *)
Tree ==
    \A r \in Records :
        /\ fs[r].parent # r
        /\ fs[r].live /\ fs[r].parent # 0 => fs[fs[r].parent].dir
        /\ ~fs[r].live => fs[r].parent = 0

KindOfFiles(kind) == \A r \in Records : fs[r].live => kind[Reference(r)] = fs[r].dir

KindOfJournal(kind, P) == \A i \in DOMAIN P : KindOfRecord(kind, P[i])

Kinds == [References -> BOOLEAN]

PathInv ==
    /\ Tree /\ Told(journal)
    /\ \E kind \in Kinds :
          /\ KindOfFiles(kind) /\ KindOfJournal(kind, journal)
          /\ ~drift /\ ~astray => Healthy(index, Left(journal, 0), kind)

(* The rest of a journal, told like all of it.                              *)
LEMMA SuffixTold ==
  ASSUME NEW P \in Seq(UsnRecords), NEW n \in 0..Len(P), NEW S \in Seq(UsnRecords),
         Len(S) = Len(P) - n, \A j \in 1..(Len(P) - n) : S[j] = P[n + j], Told(P)
  PROVE  Told(S)
<1>1. DOMAIN P = 1..Len(P) /\ DOMAIN S = 1..(Len(P) - n) /\ Len(P) \in Nat /\ n \in Nat
  OBVIOUS
<1>2. \A j \in DOMAIN S : j \in Nat /\ n + j \in DOMAIN P /\ S[j] = P[n + j]
  BY <1>1
<1>3. \A i, j \in DOMAIN S : i < j => n + i < n + j
  BY <1>1
<1>4. \A m \in DOMAIN P, i \in DOMAIN S :
         m >= n + i => m - n \in DOMAIN S /\ m - n >= i /\ n + (m - n) = m /\ S[m - n] = P[m]
  <2> SUFFICES ASSUME NEW m \in DOMAIN P, NEW i \in DOMAIN S, m >= n + i
               PROVE  m - n \in DOMAIN S /\ m - n >= i /\ n + (m - n) = m /\ S[m - n] = P[m]
    OBVIOUS
  <2>1. m - n \in DOMAIN S /\ m - n >= i /\ n + (m - n) = m
    BY <1>1
  <2> QED BY <1>2, <2>1
<1>5. Parental(P) /\ Aged(P) /\ Reasoned(P) /\ LastIs(P)
  BY DEF Told
<1>6. Parental(S)
  <2> SUFFICES ASSUME NEW i \in DOMAIN S, NEW parent, parent = S[i].parent
               PROVE  /\ parent.rec # S[i].self.rec
                      /\ parent # Root =>
                            /\ parent.seq <= fs[parent.rec].seq
                            /\ Alive(parent) \/ \E j \in DOMAIN S : j >= i /\ Deletes(S[j], parent)
    BY DEF Parental
  <2>1. n + i \in DOMAIN P /\ S[i] = P[n + i]
    BY <1>2
  <2>2. /\ parent.rec # S[i].self.rec
        /\ parent # Root =>
              /\ parent.seq <= fs[parent.rec].seq
              /\ Alive(parent) \/ \E j \in DOMAIN P : j >= n + i /\ Deletes(P[j], parent)
    BY <1>5, <2>1 DEF Parental
  <2>3. ASSUME NEW j \in DOMAIN P, j >= n + i, Deletes(P[j], parent)
        PROVE  \E l \in DOMAIN S : l >= i /\ Deletes(S[l], parent)
    BY <1>4, <2>3
  <2> QED BY <2>2, <2>3
<1>7. Aged(S)
  BY <1>2, <1>3, <1>5 DEF Aged
<1>8. Reasoned(S)
  BY <1>2, <1>5 DEF Reasoned
<1>9. LastIs(S)
  <2> SUFFICES ASSUME NEW r \in Records, NEW i \in DOMAIN S, fs[r].live, fs[r].reasons = {},
                      S[i].self = Reference(r), \A j \in DOMAIN S : S[j].self = Reference(r) => j <= i
               PROVE  S[i].parent.rec = fs[r].parent /\ S[i].name = fs[r].name
    BY DEF LastIs
  <2>1. n + i \in DOMAIN P /\ S[i] = P[n + i]
    BY <1>2
  <2>2. ASSUME NEW j \in DOMAIN P, P[j].self = Reference(r) PROVE j <= n + i
    <3> SUFFICES ASSUME j > n + i PROVE FALSE
      BY <1>1, <1>2
    <3>1. j >= n + i
      BY <1>1, <1>2
    <3>2. j - n \in DOMAIN S /\ S[j - n] = P[j]
      BY <1>4, <3>1
    <3>3. j - n <= i
      BY <2>2, <3>2
    <3> QED BY <1>1, <3>3
  <2> QED BY <1>5, <2>1, <2>2 DEF LastIs
<1> QED BY <1>6, <1>7, <1>8, <1>9 DEF Told

-----------------------------------------------------------------------------
(* A step of the volume.                                                    *)

(* What the records left say of the numbers in use.                         *)
LEMMA EntriesAreKnown ==
  ASSUME Types, journal \in Seq(UsnRecords), Known(journal), NEW ix \in Indexes, InStep(ix, journal, 0)
  PROVE  \A id \in DOMAIN ix.entries :
            id \in References /\ id.rec \in Records /\ id.seq \in Nat /\ id.seq <= fs[id.rec].seq
<1> SUFFICES ASSUME NEW id \in DOMAIN ix.entries
             PROVE  id \in References /\ id.rec \in Records /\ id.seq \in Nat /\ id.seq <= fs[id.rec].seq
  OBVIOUS
<1>1. id \in References /\ id.rec \in Records /\ id.seq \in Nat
  <2>1. id \in References
    BY IndexParts
  <2> QED BY <2>1 DEF References
<1>2. CASE Alive(id)
  BY <1>1, <1>2 DEF Alive
<1>3. CASE ~Alive(id)
  <2>1. PICK j \in DOMAIN journal : Deletes(journal[j], id)
    BY <1>3 DEF InStep
  <2> QED BY <1>1, <2>1 DEF Known, Deletes
<1> QED BY <1>1, <1>2, <1>3

(* What is gone stays gone.                                                 *)
LEMMA GoneStaysGone ==
  ASSUME Types, Types', Onward, NEW q \in References, q.seq <= fs[q.rec].seq, AliveNext(q)
  PROVE  Alive(q)
<1>1. q.rec \in Records /\ q.seq \in Nat
  BY DEF References
<1>2. fs[q.rec].seq \in Nat /\ fs'[q.rec].seq \in Nat
  <2>1. fs[q.rec].seq \in Nat
    BY <1>1, FileNumbers
  <2>2. fs'[q.rec].seq \in Nat
    BY <1>1, BoundsAssumption DEF Types, Files
  <2> QED BY <2>1, <2>2
<1>3. fs[q.rec].seq <= fs'[q.rec].seq
  BY <1>1 DEF Onward
<1>4. fs'[q.rec].live /\ fs'[q.rec].seq = q.seq
  BY DEF AliveNext
<1>5. fs'[q.rec].seq = fs[q.rec].seq
  BY <1>1, <1>2, <1>3, <1>4
<1> QED BY <1>1, <1>4, <1>5 DEF Onward, Alive

(* What of an index's health is its own.                                    *)
LEMMA OwnHealth ==
  ASSUME NEW kind, index' = index,
         Straight(index) /\ FollowsBut(index, {}) /\ AtRoot(index) /\ KindOfIndex(kind, index)
  PROVE  (Straight(index) /\ FollowsBut(index, {}) /\ AtRoot(index) /\ KindOfIndex(kind, index))'
<1> QED BY Zenon

(* A step that writes no record.                                            *)
LEMMA QuietHealth ==
  ASSUME TypeInv, TypeInv', JournalInv, Onward, UNCHANGED <<journal, index>>,
         \A r \in Records :
            /\ fs'[r].live /\ "create" \notin fs'[r].reasons =>
                  fs[r].live /\ fs'[r].seq = fs[r].seq /\ "create" \notin fs[r].reasons
            /\ "create" \in fs'[r].reasons =>
                  \/ fs[r].seq < fs'[r].seq
                  \/ fs'[r].seq = fs[r].seq /\ "create" \in fs[r].reasons
            /\ fs'[r].live /\ fs'[r].reasons = {} => fs'[r] = fs[r],
         InStep(index, journal, 0), NEW old, Healthy(index, Left(journal, 0), old),
         NEW kind, KindOfIndex(kind, index)
  PROVE  Healthy(index, Left(journal, 0), kind)'
<1> DEFINE L == Left(journal, 0)
<1>1. Types /\ Types' /\ journal \in Seq(UsnRecords) /\ index \in Sound /\ index \in Indexes
  BY DEF TypeInv, Types, Sound
<1>2. index' = index /\ journal' = journal /\ L' = L
  BY DEF Left
<1>3. /\ Straight(index) /\ FollowsBut(index, {}) /\ AtRoot(index)
      /\ Elder(index, L) /\ Fresh(index, L) /\ ParentKnown(index)
      /\ Orphans(index, L) /\ Present(index, L) /\ Settled(index, L)
  BY DEF Healthy
<1>4. (Straight(index) /\ FollowsBut(index, {}) /\ AtRoot(index) /\ KindOfIndex(kind, index))'
  BY <1>2, <1>3, OwnHealth
<1> HIDE DEF L
<1>5. \A id \in DOMAIN index.entries :
         id \in References /\ id.rec \in Records /\ id.seq \in Nat /\ id.seq <= fs[id.rec].seq
  BY <1>1, EntriesAreKnown DEF JournalInv
<1>6. \A r \in Records : fs[r].seq \in Nat /\ fs'[r].seq \in Nat
  <2>1. \A r \in Records : fs[r].seq \in Nat
    BY <1>1, FileNumbers
  <2>2. \A r \in Records : fs'[r].seq \in Nat
    BY <1>1, BoundsAssumption DEF Types, Files
  <2> QED BY <2>1, <2>2
<1>7. \A r \in Records : /\ Reference(r) = [rec |-> r, seq |-> fs[r].seq]
                         /\ Reference(r)' = [rec |-> r, seq |-> fs'[r].seq]
  BY RecordsAssumption DEF Reference
<1>8. \A e \in DOMAIN index.entries :
         LET q == index.entries[e].parent
         IN q # Root => q \in References /\ q.rec \in Records /\ q.seq \in Nat /\ q.seq <= fs[q.rec].seq
  BY <1>1, <1>3, EntryParts DEF Parents, References, ParentKnown
<1>9. Elder(index, L)'
  BY <1>2, <1>3 DEF Elder
<1>10. Fresh(index, L)'
  <2>1. ASSUME NEW r \in Records, "create" \in fs'[r].reasons PROVE Reference(r)' \notin DOMAIN index.entries
    <3>1. CASE fs[r].seq < fs'[r].seq
      BY <1>5, <1>6, <1>7, <3>1
    <3>2. CASE fs'[r].seq = fs[r].seq /\ "create" \in fs[r].reasons
      BY <1>3, <1>7, <3>2 DEF Fresh
    <3> QED BY <2>1, <3>1, <3>2
  <2> QED BY <1>2, <1>3, <2>1 DEF Fresh
<1>11. ParentKnown(index)'
  <2> SUFFICES ASSUME NEW e \in DOMAIN index.entries, NEW q, q = index.entries[e].parent, q # Root
               PROVE  q.seq <= fs'[q.rec].seq
    BY <1>2 DEF ParentKnown
  <2>1. q.rec \in Records /\ q.seq \in Nat /\ q.seq <= fs[q.rec].seq
    BY <1>8
  <2>2. fs[q.rec].seq <= fs'[q.rec].seq
    BY <2>1 DEF Onward
  <2> QED BY <1>6, <2>1, <2>2
<1>12. Orphans(index, L)'
  <2> SUFFICES ASSUME NEW e \in DOMAIN index.entries, NEW q, q = index.entries[e].parent,
                      q # Root, q \notin DOMAIN index.entries, ~IsAwaitingChild(index, e)
               PROVE  ~AliveNext(q) /\ \A l \in L : l.self # q
    BY <1>2 DEF Orphans, AliveNext, Alive, IsAwaitingChild
  <2>1. ~Alive(q) /\ \A l \in L : l.self # q
    BY <1>3 DEF Orphans
  <2> QED BY <1>1, <1>8, <2>1, GoneStaysGone
<1>13. Present(index, L)'
  <2> SUFFICES ASSUME NEW r \in Records, fs'[r].live, "create" \notin fs'[r].reasons,
                      \A l \in L : l.self = Reference(r)' => "create" \notin l.reasons
               PROVE  Reference(r)' \in DOMAIN index.entries
    BY <1>2 DEF Present
  <2>1. fs[r].live /\ fs'[r].seq = fs[r].seq /\ "create" \notin fs[r].reasons
    OBVIOUS
  <2>2. Reference(r)' = Reference(r)
    BY <1>7, <2>1
  <2> QED BY <1>3, <2>1, <2>2 DEF Present
<1>14. Settled(index, L)'
  <2> SUFFICES ASSUME NEW r \in Records, fs'[r].live, fs'[r].reasons = {},
                      Reference(r)' \in DOMAIN index.entries, \A l \in L : l.self # Reference(r)'
               PROVE  LET entry == index.entries[Reference(r)']
                      IN entry.parent.rec = fs'[r].parent /\ Leaf(entry) = fs'[r].name
    BY <1>2 DEF Settled
  <2>1. fs'[r] = fs[r]
    OBVIOUS
  <2>2. Reference(r)' = Reference(r)
    BY <1>7, <2>1
  <2> QED BY <1>3, <2>1, <2>2 DEF Settled
<1> QED BY <1>4, <1>9, <1>10, <1>11, <1>12, <1>13, <1>14 DEF Healthy, L

(* A step that writes one.                                                  *)
LEMMA RecordHealth ==
  ASSUME TypeInv, TypeInv', JournalInv, Onward, UNCHANGED index,
         NEW r \in Records, fs[r].live, fs'[r].seq = fs[r].seq, fs'[r].reasons = {},
         \A s \in Records : s # r => fs'[s] = fs[s],
         NEW record \in UsnRecords, record.self = Reference(r),
         record.parent = Reference(fs[r].parent), fs[r].parent \in Records \cup {0},
         "create" \in record.reasons <=> "create" \in fs[r].reasons,
         journal' = Append(journal, record),
         InStep(index, journal, 0), NEW kind, Healthy(index, Left(journal, 0), kind)
  PROVE  Healthy(index, Left(journal, 0), kind)'
<1> DEFINE L == Left(journal, 0)
           M == Left(journal', 0)
<1>1. /\ Types /\ Types' /\ journal \in Seq(UsnRecords) /\ journal' \in Seq(UsnRecords)
      /\ index \in Sound /\ index \in Indexes
  BY DEF TypeInv, Types, Sound
<1>2. index' = index /\ L' = M /\ M = L \cup {record}
  <2>1. /\ \A i \in DOMAIN journal : i \in DOMAIN journal' /\ journal'[i] = journal[i]
        /\ DOMAIN journal' = DOMAIN journal \cup {Len(journal) + 1}
        /\ journal'[Len(journal) + 1] = record
    BY AppendTypes
  <2>2. /\ \A l : l \in L <=> \E j \in DOMAIN journal : j > 0 /\ journal[j] = l
        /\ \A l : l \in M <=> \E j \in DOMAIN journal' : j > 0 /\ journal'[j] = l
    BY DEF Left
  <2>3. (\A j \in DOMAIN journal : j > 0) /\ Len(journal) + 1 > 0
    BY <1>1
  <2>4. \A l : l \in M <=> l \in L \cup {record}
    <3> HIDE DEF L, M
    <3> QED BY <2>1, <2>2, <2>3
  <2>5. M = L \cup {record}
    <3> HIDE DEF L, M
    <3> QED BY <2>4
  <2>6. L' = M
    BY DEF Left
  <2> QED BY <2>5, <2>6
<1>3. /\ Straight(index) /\ FollowsBut(index, {}) /\ AtRoot(index)
      /\ Elder(index, L) /\ Fresh(index, L) /\ ParentKnown(index)
      /\ Orphans(index, L) /\ Present(index, L) /\ Settled(index, L) /\ KindOfIndex(kind, index)
  BY DEF Healthy
<1>4. (Straight(index) /\ FollowsBut(index, {}) /\ AtRoot(index) /\ KindOfIndex(kind, index))'
  BY <1>2, <1>3, OwnHealth
<1> HIDE DEF L, M
<1>5. \A id \in DOMAIN index.entries :
         id \in References /\ id.rec \in Records /\ id.seq \in Nat /\ id.seq <= fs[id.rec].seq
  BY <1>1, EntriesAreKnown DEF JournalInv
<1>6. \A s \in Records : fs'[s].seq = fs[s].seq
  OBVIOUS
<1>7. \A s \in Records : Reference(s) = [rec |-> s, seq |-> fs[s].seq] /\ Reference(s)' = Reference(s)
  BY <1>6, RecordsAssumption DEF Reference
<1>8. \A e \in DOMAIN index.entries :
         LET q == index.entries[e].parent
         IN q # Root => q \in References /\ q.rec \in Records /\ q.seq \in Nat /\ q.seq <= fs[q.rec].seq
  BY <1>1, <1>3, EntryParts DEF Parents, References, ParentKnown
<1>9. Elder(index, M)
  <2> SUFFICES ASSUME NEW id \in DOMAIN index.entries, record.parent.rec = id.rec
               PROVE  id.seq <= record.parent.seq
    BY <1>2, <1>3 DEF Elder
  <2>1. fs[r].parent \in Records
    BY <1>5, RecordsAssumption DEF Reference, Root
  <2> QED BY <1>5, <1>7, <2>1
<1>10. Fresh(index, L)'
  <2>1. ASSUME NEW l \in M, "create" \in l.reasons PROVE l.self \notin DOMAIN index.entries
    BY <1>2, <1>3, <2>1 DEF Fresh
  <2>2. ASSUME NEW s \in Records, "create" \in fs'[s].reasons PROVE Reference(s)' \notin DOMAIN index.entries
    <3>1. s # r
      BY <2>2
    <3> QED BY <1>3, <1>7, <2>2, <3>1 DEF Fresh
  <2> QED BY <1>2, <2>1, <2>2 DEF Fresh
<1>11. ParentKnown(index)'
  BY <1>2, <1>6, <1>8 DEF ParentKnown
<1>12. Orphans(index, L)'
  <2> SUFFICES ASSUME NEW e \in DOMAIN index.entries, NEW q, q = index.entries[e].parent,
                      q # Root, q \notin DOMAIN index.entries, ~IsAwaitingChild(index, e)
               PROVE  ~AliveNext(q) /\ \A l \in M : l.self # q
    BY <1>2 DEF Orphans, AliveNext, Alive, IsAwaitingChild
  <2>1. ~Alive(q) /\ \A l \in L : l.self # q
    BY <1>3 DEF Orphans
  <2>2. ~AliveNext(q)
    BY <1>1, <1>8, <2>1, GoneStaysGone
  <2>3. record.self # q
    BY <1>7, <2>1 DEF Alive
  <2> QED BY <1>2, <2>1, <2>2, <2>3
<1>13. Present(index, L)'
  <2> SUFFICES ASSUME NEW s \in Records, fs'[s].live, "create" \notin fs'[s].reasons,
                      \A l \in M : l.self = Reference(s) => "create" \notin l.reasons
               PROVE  Reference(s) \in DOMAIN index.entries
    BY <1>2, <1>7 DEF Present
  <2>1. fs[s].live /\ "create" \notin fs[s].reasons
    <3>1. CASE s = r
      BY <1>2, <3>1
    <3>2. CASE s # r
      BY <3>2
    <3> QED BY <3>1, <3>2
  <2> QED BY <1>2, <1>3, <2>1 DEF Present
<1>14. Settled(index, L)'
  <2> SUFFICES ASSUME NEW s \in Records, fs'[s].live, fs'[s].reasons = {},
                      Reference(s) \in DOMAIN index.entries, \A l \in M : l.self # Reference(s)
               PROVE  LET entry == index.entries[Reference(s)]
                      IN entry.parent.rec = fs'[s].parent /\ Leaf(entry) = fs'[s].name
    BY <1>2, <1>7 DEF Settled
  <2>1. s # r
    BY <1>2
  <2>2. fs'[s] = fs[s]
    BY <2>1
  <2> QED BY <1>2, <1>3, <2>2 DEF Settled
<1>15. Elder(index, L)'
  BY <1>2, <1>9 DEF Elder
<1> QED BY <1>4, <1>10, <1>11, <1>12, <1>13, <1>14, <1>15 DEF Healthy, L

-----------------------------------------------------------------------------
(* What the volume does to the journal's tale and to the tree of files.     *)

(* A step that writes no record.                                            *)
LEMMA QuietTold ==
  ASSUME Types, Types', Onward, UNCHANGED journal, Told(journal),
         \A r \in Records : /\ Survives(r)
                            /\ fs'[r].live /\ fs'[r].reasons = {} => fs'[r] = fs[r]
  PROVE  Told(journal)'
<1>1. journal' = journal /\ journal \in Seq(UsnRecords)
  BY DEF Types
<1>2. Parental(journal) /\ Aged(journal) /\ Reasoned(journal) /\ LastIs(journal)
  BY DEF Told
<1>3. Parental(journal)'
  <2> SUFFICES ASSUME NEW i \in DOMAIN journal, NEW parent, parent = journal[i].parent, parent # Root,
                      parent.seq <= fs[parent.rec].seq
               PROVE  /\ parent.seq <= fs'[parent.rec].seq
                      /\ Alive(parent) => AliveNext(parent)
    BY <1>1, <1>2 DEF Parental, Alive, AliveNext, Deletes
  <2>1. parent.rec \in Records /\ parent.seq \in Nat
    <3>1. journal[i] \in UsnRecords
      BY <1>1
    <3>2. parent \in References
      BY <3>1 DEF UsnRecords
    <3> QED BY <3>2 DEF References
  <2>2. fs[parent.rec].seq \in Nat /\ fs'[parent.rec].seq \in Nat
    <3>1. fs[parent.rec].seq \in Nat
      BY <2>1, FileNumbers
    <3>2. fs'[parent.rec].seq \in Nat
      BY <2>1, BoundsAssumption DEF Types, Files
    <3> QED BY <3>1, <3>2
  <2>3. fs[parent.rec].seq <= fs'[parent.rec].seq
    BY <2>1 DEF Onward
  <2>4. Alive(parent) => AliveNext(parent)
    BY <2>1 DEF Alive, AliveNext, Survives
  <2> QED BY <2>1, <2>2, <2>3, <2>4
<1>4. Aged(journal)' /\ Reasoned(journal)'
  BY <1>1, <1>2 DEF Aged, Reasoned
<1>5. LastIs(journal)'
  <2> SUFFICES ASSUME NEW r \in Records, NEW i \in DOMAIN journal, fs'[r].live, fs'[r].reasons = {},
                      journal[i].self = Reference(r)',
                      \A j \in DOMAIN journal : journal[j].self = Reference(r)' => j <= i
               PROVE  journal[i].parent.rec = fs'[r].parent /\ journal[i].name = fs'[r].name
    BY <1>1 DEF LastIs
  <2>1. fs'[r] = fs[r]
    OBVIOUS
  <2>2. Reference(r)' = Reference(r)
    BY <2>1 DEF Reference
  <2> QED BY <1>2, <2>1, <2>2 DEF LastIs
<1> QED BY <1>3, <1>4, <1>5 DEF Told

(* A step that writes one.                                                  *)
LEMMA RecordTold ==
  ASSUME TypeInv, TypeInv', Known(journal), Told(journal),
         NEW r \in Records, fs[r].live, fs'[r].seq = fs[r].seq, fs[r].parent # r,
         \A s \in Records : s # r => fs'[s] = fs[s],
         NEW record \in UsnRecords, record.self = Reference(r),
         record.parent = Reference(fs[r].parent), record.reasons # {},
         fs'[r].live => fs'[r].parent = fs[r].parent /\ record.name = fs'[r].name,
         ~fs'[r].live => "delete" \in record.reasons,
         journal' = Append(journal, record)
  PROVE  Told(journal)'
<1> DEFINE last == Len(journal) + 1
           p == fs[r].parent
<1>1. /\ Types /\ Types' /\ journal \in Seq(UsnRecords) /\ journal' \in Seq(UsnRecords)
      /\ p \in Records \cup {0} /\ (p # 0 => fs[p].live)
  BY DEF TypeInv, Types, Files, Volume
<1>2. /\ \A i \in DOMAIN journal : i \in DOMAIN journal' /\ journal'[i] = journal[i]
      /\ DOMAIN journal' = DOMAIN journal \cup {last} /\ last \notin DOMAIN journal
      /\ journal'[last] = record
  BY AppendTypes
<1>3. last \in Nat /\ last > 0 /\ \A i \in DOMAIN journal : i \in Nat /\ i > 0 /\ i < last
  BY <1>1
<1> HIDE DEF last, p
<1>4. record.self.rec = r /\ record.self.seq = fs[r].seq /\ r # 0
  BY RecordsAssumption DEF Reference
<1>5. /\ record.parent.rec = p /\ p # r
      /\ p \in Records => record.parent.seq = fs[p].seq /\ fs'[p] = fs[p] /\ fs[p].live
      /\ p = 0 => record.parent = Root
  BY <1>1, RecordsAssumption DEF Reference, Root, p
<1>6. Parental(journal) /\ Aged(journal) /\ Reasoned(journal) /\ LastIs(journal)
  BY DEF Told
<1>7. \A i \in DOMAIN journal : /\ journal[i].self \in References /\ journal[i].self.rec \in Records
                                /\ journal[i].parent \in Parents
  <2>1. \A i \in DOMAIN journal : journal[i] \in UsnRecords
    BY <1>1
  <2> QED BY <2>1 DEF UsnRecords, References, Parents
<1>8. \A s \in Records : fs'[s].seq = fs[s].seq /\ fs[s].seq \in Nat
  BY <1>1, FileNumbers
<1>9. Parental(journal)'
  <2> SUFFICES ASSUME NEW i \in DOMAIN journal', NEW parent, parent = journal'[i].parent
               PROVE  /\ parent.rec # journal'[i].self.rec
                      /\ parent # Root =>
                            /\ parent.seq <= fs'[parent.rec].seq
                            /\ \/ AliveNext(parent)
                               \/ \E j \in DOMAIN journal' : j >= i /\ Deletes(journal'[j], parent)
    BY DEF Parental, Alive, AliveNext, Deletes
  <2>1. CASE i = last
    <3>1. parent = record.parent /\ journal'[i] = record
      BY <1>2, <2>1
    <3>2. p \in Records \/ parent = Root
      BY <1>1, <1>5, <3>1 DEF p
    <3> QED BY <1>4, <1>5, <1>8, <3>1, <3>2 DEF AliveNext
  <2>2. CASE i \in DOMAIN journal
    <3>1. parent = journal[i].parent /\ journal'[i] = journal[i]
      BY <1>2, <2>2
    <3>2. parent.rec # journal'[i].self.rec
      BY <1>6, <2>2, <3>1 DEF Parental
    <3> SUFFICES ASSUME parent # Root
                 PROVE  /\ parent.seq <= fs'[parent.rec].seq
                        /\ \/ AliveNext(parent)
                           \/ \E j \in DOMAIN journal' : j >= i /\ Deletes(journal'[j], parent)
      BY <3>2
    <3>3. parent \in References /\ parent.rec \in Records
      BY <1>7, <2>2, <3>1 DEF Parents, References
    <3>4. /\ parent.seq <= fs[parent.rec].seq
          /\ Alive(parent) \/ \E j \in DOMAIN journal : j >= i /\ Deletes(journal[j], parent)
      BY <1>6, <2>2, <3>1 DEF Parental
    <3>5. parent.seq <= fs'[parent.rec].seq
      BY <1>8, <3>3, <3>4
    <3>6. CASE \E j \in DOMAIN journal : j >= i /\ Deletes(journal[j], parent)
      BY <1>2, <3>5, <3>6
    <3>7. CASE Alive(parent) /\ parent.rec # r
      BY <3>3, <3>5, <3>7 DEF Alive, AliveNext
    <3>8. CASE Alive(parent) /\ parent.rec = r
      <4>1. fs'[r].live => AliveNext(parent)
        BY <3>8 DEF Alive, AliveNext
      <4>2. parent = record.self
        BY <1>4, <3>3, <3>8, SameReference DEF Alive, UsnRecords
      <4>3. ~fs'[r].live => Deletes(journal'[last], parent)
        BY <1>2, <4>2 DEF Deletes
      <4>4. last \in DOMAIN journal' /\ last >= i
        BY <1>2, <1>3, <2>2
      <4> QED BY <3>5, <4>1, <4>3, <4>4
    <3> QED BY <3>4, <3>6, <3>7, <3>8
  <2> QED BY <1>2, <2>1, <2>2
<1>10. Aged(journal)'
  <2> SUFFICES ASSUME NEW i \in DOMAIN journal', NEW j \in DOMAIN journal', i < j
               PROVE  /\ journal'[i].self.rec = journal'[j].parent.rec
                            => journal'[i].self.seq <= journal'[j].parent.seq
                      /\ journal'[i].parent.rec = journal'[j].self.rec
                            => journal'[i].parent.seq <= journal'[j].self.seq
    BY DEF Aged
  <2>1. i \in DOMAIN journal /\ journal'[i] = journal[i]
    BY <1>2, <1>3
  <2>2. CASE j \in DOMAIN journal
    BY <1>2, <1>6, <2>1, <2>2 DEF Aged
  <2>3. CASE j = last
    <3>1. journal'[j] = record
      BY <1>2, <2>3
    <3>2. ASSUME journal[i].self.rec = record.parent.rec
          PROVE  journal[i].self.seq <= record.parent.seq
      <4>1. p \in Records /\ record.parent.seq = fs[p].seq /\ journal[i].self.rec = p
        BY <1>5, <1>7, <2>1, <3>2
      <4> QED BY <2>1, <4>1 DEF Known
    <3>3. ASSUME journal[i].parent.rec = record.self.rec
          PROVE  journal[i].parent.seq <= record.self.seq
      <4>1. journal[i].parent # Root
        BY <1>4, <3>3 DEF Root
      <4> QED BY <1>4, <1>6, <2>1, <3>3, <4>1 DEF Parental
    <3> QED BY <2>1, <3>1, <3>2, <3>3
  <2> QED BY <1>2, <2>2, <2>3
<1>11. Reasoned(journal)'
  BY <1>2, <1>6 DEF Reasoned
<1>12. LastIs(journal)'
  <2>0. \A s \in Records : Reference(s)' = Reference(s) /\ Reference(s).rec = s
    BY <1>8, RecordsAssumption DEF Reference
  <2> SUFFICES ASSUME NEW s \in Records, NEW i \in DOMAIN journal', fs'[s].live, fs'[s].reasons = {},
                      journal'[i].self = Reference(s),
                      \A j \in DOMAIN journal' : journal'[j].self = Reference(s) => j <= i
               PROVE  journal'[i].parent.rec = fs'[s].parent /\ journal'[i].name = fs'[s].name
    BY <2>0 DEF LastIs
  <2>1. CASE s = r
    <3>1. last \in DOMAIN journal' /\ last <= i
      BY <1>2, <2>1
    <3>2. i = last
      BY <1>2, <1>3, <3>1
    <3> QED BY <1>2, <1>5, <2>1, <3>2 DEF p
  <2>2. CASE s # r
    <3>1. i # last
      BY <1>2, <1>4, <2>0, <2>2
    <3>2. i \in DOMAIN journal /\ journal'[i] = journal[i] /\ fs'[s] = fs[s]
      BY <1>2, <2>2, <3>1
    <3>3. \A j \in DOMAIN journal : journal[j].self = Reference(s) => j <= i
      BY <1>2
    <3> QED BY <1>6, <3>2, <3>3 DEF LastIs
  <2> QED BY <2>1, <2>2
<1> QED BY <1>9, <1>10, <1>11, <1>12 DEF Told

(* Creating a file.  Its reference is new, so that its kind is free.        *)
LEMMA CreateKeepsPaths ==
  ASSUME Inv, Inv', PathInv, NEW r \in Records, NEW p \in Folders, NEW n \in Names, NEW d \in BOOLEAN,
         CreateFile(r, p, n, d)
  PROVE  PathInv'
<1>1. /\ TypeInv /\ TypeInv' /\ Types /\ Types' /\ JournalInv /\ IndexInv /\ Volume /\ Undeleted
      /\ fs \in [Records -> Files] /\ journal \in Seq(UsnRecords) /\ Known(journal)
  BY DEF Inv, TypeInv, Types, JournalInv
<1>2. Tree /\ Told(journal)
  BY DEF PathInv
<1>3. /\ fs'[r] = [seq |-> fs[r].seq + 1, live |-> TRUE, parent |-> p,
                   name |-> n, dir |-> d, reasons |-> {"create"}]
      /\ ~fs[r].live /\ \A s \in Records : s # r => fs'[s] = fs[s]
      /\ UNCHANGED <<journal, index, drift, astray>>
  BY <1>1 DEF CreateFile, Operate
<1>4. \A s \in Records : fs[s].seq \in Nat /\ fs'[s].seq \in Nat
  <2>1. \A s \in Records : fs[s].seq \in Nat
    BY <1>1, FileNumbers
  <2>2. \A s \in Records : fs'[s].seq \in Nat
    BY <1>1, BoundsAssumption DEF Types, Files
  <2> QED BY <2>1, <2>2
<1>5. Onward
  BY <1>1, <1>3, <1>4 DEF Onward, Undeleted
<1>6. \A s \in Records : Survives(s) /\ (fs'[s].live /\ fs'[s].reasons = {} => fs'[s] = fs[s])
  BY <1>3 DEF Survives
<1>7. Told(journal)'
  BY <1>1, <1>2, <1>3, <1>5, <1>6, QuietTold
<1>8. p = 0 \/ (p \in Records /\ p # r /\ fs[p].live /\ fs[p].dir)
  BY <1>3 DEF Folders, Live
<1>9. Tree'
  <2> SUFFICES ASSUME NEW s \in Records
               PROVE  /\ fs'[s].parent # s
                      /\ fs'[s].live /\ fs'[s].parent # 0 => fs'[fs'[s].parent].dir
                      /\ ~fs'[s].live => fs'[s].parent = 0
    BY DEF Tree
  <2>1. CASE s = r
    BY <1>3, <1>8, <2>1, RecordsAssumption
  <2>2. CASE s # r
    <3>1. fs[s].parent \in Records \cup {0}
      BY <1>1 DEF Files
    <3>2. fs[s].live /\ fs[s].parent # 0 => fs[s].parent # r
      BY <1>1, <1>3 DEF Volume
    <3> QED BY <1>2, <1>3, <2>2, <3>1, <3>2 DEF Tree
  <2> QED BY <2>1, <2>2
<1>10. PICK old \in Kinds :
          /\ KindOfFiles(old) /\ KindOfJournal(old, journal)
          /\ ~drift /\ ~astray => Healthy(index, Left(journal, 0), old)
  BY DEF PathInv
<1> DEFINE ref == [rec |-> r, seq |-> fs[r].seq + 1]
<1>11. ref \in References
  <2>1. fs'[r].seq \in 0..MaxOps /\ fs'[r].seq = fs[r].seq + 1
    BY <1>1, <1>3 DEF Types, Files
  <2>2. fs[r].seq + 1 \in 1..MaxOps
    BY <1>4, <2>1, BoundsAssumption
  <2> QED BY <2>2 DEF References
<1>12. PICK kind \in Kinds : /\ kind[ref] = d
                             /\ \A q \in References : q # ref => kind[q] = old[q]
  <2> DEFINE k == [old EXCEPT ![ref] = d]
  <2>1. k \in Kinds
    BY DEF Kinds
  <2>2. /\ k[ref] = d
        /\ \A q \in References : q # ref => k[q] = old[q]
    BY <1>11 DEF Kinds
  <2> QED BY <2>1, <2>2
<1>13. \A s \in Records : /\ Reference(s) = [rec |-> s, seq |-> fs[s].seq]
                          /\ Reference(s)' = [rec |-> s, seq |-> fs'[s].seq]
  BY RecordsAssumption DEF Reference
<1>14. \A q : q.seq <= fs[q.rec].seq => q # ref
  BY <1>4
<1> HIDE DEF ref
<1>15. KindOfFiles(kind)'
  <2> SUFFICES ASSUME NEW s \in Records, fs'[s].live PROVE kind[Reference(s)'] = fs'[s].dir
    BY DEF KindOfFiles
  <2>1. CASE s = r
    BY <1>3, <1>12, <1>13, <2>1 DEF ref
  <2>2. CASE s # r
    <3>1. Reference(s)' = Reference(s) /\ fs'[s] = fs[s]
      BY <1>3, <1>13, <2>2
    <3>2. Reference(s) \in References
      BY <1>1, <1>3, <2>2, ReferenceTypes
    <3>3. Reference(s) # ref
      BY <1>13, <2>2 DEF ref
    <3> QED BY <1>10, <1>12, <3>1, <3>2, <3>3 DEF KindOfFiles
  <2> QED BY <2>1, <2>2
<1>16. KindOfJournal(kind, journal)'
  <2> SUFFICES ASSUME NEW i \in DOMAIN journal PROVE KindOfRecord(kind, journal[i])
    BY <1>3 DEF KindOfJournal, KindOfRecord
  <2>1. journal[i] \in UsnRecords
    BY <1>1
  <2>2. journal[i].self \in References /\ (journal[i].parent # Root => journal[i].parent \in References)
    BY <2>1 DEF UsnRecords
  <2>3. journal[i].self # ref
    BY <1>1, <1>14 DEF Known
  <2>4. journal[i].parent # Root => journal[i].parent # ref
    BY <1>2, <1>14 DEF Told, Parental
  <2>5. KindOfRecord(old, journal[i])
    BY <1>10 DEF KindOfJournal
  <2> QED BY <1>12, <2>2, <2>3, <2>4, <2>5 DEF KindOfRecord
<1>17. ASSUME ~drift', ~astray' PROVE Healthy(index, Left(journal, 0), kind)'
  <2>1. ~drift /\ ~astray
    BY <1>3, <1>17
  <2>2. Healthy(index, Left(journal, 0), old) /\ InStep(index, journal, 0)
    BY <1>1, <1>10, <2>1 DEF IndexInv
  <2>3. index \in Indexes
    BY <1>1 DEF TypeInv, Sound
  <2>4. KindOfIndex(kind, index)
    <3> SUFFICES ASSUME NEW id \in DOMAIN index.entries
                 PROVE  /\ kind[id] = index.entries[id].dir
                        /\ index.entries[id].parent # Root => kind[index.entries[id].parent] = TRUE
      BY DEF KindOfIndex
    <3>1. id \in References /\ id # ref
      BY <1>1, <1>14, <2>2, <2>3, EntriesAreKnown
    <3>2. /\ old[id] = index.entries[id].dir
          /\ index.entries[id].parent # Root =>
                /\ old[index.entries[id].parent] = TRUE
                /\ index.entries[id].parent # ref
      BY <1>14, <2>2 DEF Healthy, KindOfIndex, ParentKnown
    <3>3. index.entries[id].parent # Root => index.entries[id].parent \in References
      BY <2>3, EntryParts DEF Parents
    <3> QED BY <1>12, <3>1, <3>2, <3>3
  <2>5. \A s \in Records :
           /\ fs'[s].live /\ "create" \notin fs'[s].reasons =>
                 fs[s].live /\ fs'[s].seq = fs[s].seq /\ "create" \notin fs[s].reasons
           /\ "create" \in fs'[s].reasons =>
                 \/ fs[s].seq < fs'[s].seq
                 \/ fs'[s].seq = fs[s].seq /\ "create" \in fs[s].reasons
    BY <1>3, <1>4
  <2> QED BY <1>1, <1>3, <1>5, <1>6, <2>2, <2>4, <2>5, QuietHealth
<1> QED BY <1>7, <1>9, <1>12, <1>15, <1>16, <1>17 DEF PathInv

(* Files that keep their references and kinds keep the kinds.               *)
LEMMA KindsStay ==
  ASSUME NEW kind, KindOfFiles(kind), KindOfJournal(kind, journal),
         \A s \in Records : fs'[s].live => /\ fs[s].live /\ fs'[s].seq = fs[s].seq
                                           /\ fs'[s].dir = fs[s].dir,
         \A i \in DOMAIN journal' : \/ i \in DOMAIN journal /\ journal'[i] = journal[i]
                                    \/ KindOfRecord(kind, journal'[i])
  PROVE  (KindOfFiles(kind) /\ KindOfJournal(kind, journal))'
<1>1. \A s \in Records : fs'[s].live => Reference(s)' = Reference(s)
  BY DEF Reference
<1>2. KindOfFiles(kind)'
  BY <1>1 DEF KindOfFiles
<1>3. KindOfJournal(kind, journal)'
  BY DEF KindOfJournal, KindOfRecord
<1> QED BY <1>2, <1>3

(* Renaming or moving one.                                                  *)
LEMMA RenameKeepsPaths ==
  ASSUME Inv, Inv', PathInv, NEW r \in Records, NEW p \in Folders, NEW n \in Names,
         RenameFile(r, p, n)
  PROVE  PathInv'
<1>1. /\ TypeInv /\ TypeInv' /\ Types /\ Types' /\ JournalInv /\ IndexInv /\ Undeleted
      /\ fs \in [Records -> Files]
  BY DEF Inv, TypeInv, Types, JournalInv
<1>2. Tree /\ Told(journal)
  BY DEF PathInv
<1> DEFINE file == [fs[r] EXCEPT !.parent = p, !.name = n, !.reasons = @ \cup {"rename"}]
<1>3. /\ file.seq = fs[r].seq /\ file.live = fs[r].live /\ file.dir = fs[r].dir
      /\ file.parent = p /\ file.reasons = fs[r].reasons \cup {"rename"}
  BY <1>1 DEF Files
<1>4. /\ fs' = [fs EXCEPT ![r] = file] /\ UNCHANGED <<journal, index, drift, astray>>
      /\ fs[r].live /\ p # r
  BY Zenon DEF RenameFile, Operate
<1> HIDE DEF file
<1>5. /\ fs'[r] = file /\ \A s \in Records : s # r => fs'[s] = fs[s]
  BY <1>1, <1>4
<1>6. \A s \in Records : /\ fs'[s].seq = fs[s].seq /\ fs'[s].live = fs[s].live /\ fs'[s].dir = fs[s].dir
                         /\ fs[s].seq \in Nat
                         /\ "create" \in fs'[s].reasons <=> "create" \in fs[s].reasons
                         /\ fs'[s].live /\ fs'[s].reasons = {} => fs'[s] = fs[s]
                         /\ "delete" \in fs'[s].reasons <=> "delete" \in fs[s].reasons
  BY <1>1, <1>3, <1>5, FileNumbers
<1>7. Onward /\ \A s \in Records : Survives(s)
  BY <1>1, <1>6 DEF Onward, Undeleted, Survives
<1>8. Told(journal)'
  BY <1>1, <1>2, <1>4, <1>6, <1>7, QuietTold
<1>9. p = 0 \/ (p \in Records /\ fs[p].live /\ fs[p].dir)
  BY DEF Folders, Live
<1>10. Tree'
  <2> SUFFICES ASSUME NEW s \in Records
               PROVE  /\ fs'[s].parent # s
                      /\ fs'[s].live /\ fs'[s].parent # 0 => fs'[fs'[s].parent].dir
                      /\ ~fs'[s].live => fs'[s].parent = 0
    BY DEF Tree
  <2>1. CASE s = r
    BY <1>3, <1>4, <1>5, <1>6, <1>9, <2>1, RecordsAssumption
  <2>2. CASE s # r
    <3>1. fs[s].parent \in Records \cup {0}
      BY <1>1 DEF Files
    <3> QED BY <1>2, <1>5, <1>6, <2>2, <3>1 DEF Tree
  <2> QED BY <2>1, <2>2
<1>11. PICK kind \in Kinds :
          /\ KindOfFiles(kind) /\ KindOfJournal(kind, journal)
          /\ ~drift /\ ~astray => Healthy(index, Left(journal, 0), kind)
  BY DEF PathInv
<1>12. (KindOfFiles(kind) /\ KindOfJournal(kind, journal))'
  BY <1>4, <1>6, <1>11, KindsStay
<1>13. ASSUME ~drift', ~astray' PROVE Healthy(index, Left(journal, 0), kind)'
  <2>1. ~drift /\ ~astray
    BY <1>4, <1>13
  <2>2. /\ Healthy(index, Left(journal, 0), kind) /\ InStep(index, journal, 0)
        /\ KindOfIndex(kind, index)
    BY <1>1, <1>11, <2>1 DEF IndexInv, Healthy
  <2>3. \A s \in Records :
           /\ fs'[s].live /\ "create" \notin fs'[s].reasons =>
                 fs[s].live /\ fs'[s].seq = fs[s].seq /\ "create" \notin fs[s].reasons
           /\ "create" \in fs'[s].reasons =>
                 \/ fs[s].seq < fs'[s].seq
                 \/ fs'[s].seq = fs[s].seq /\ "create" \in fs[s].reasons
           /\ fs'[s].live /\ fs'[s].reasons = {} => fs'[s] = fs[s]
    BY <1>6
  <2> QED BY <1>1, <1>4, <1>7, <2>2, <2>3, QuietHealth
<1> QED BY <1>8, <1>10, <1>11, <1>12, <1>13 DEF PathInv

(* Writing the record of one: closing it, or deleting it.                   *)
LEMMA RecordKeepsPaths ==
  ASSUME Inv, Inv', PathInv, NEW r \in Records, fs[r].live, fs'[r].seq = fs[r].seq,
         fs'[r].reasons = {}, \A s \in Records : s # r => fs'[s] = fs[s],
         NEW reasons \in SUBSET Reasons, reasons # {},
         "create" \in reasons <=> "create" \in fs[r].reasons,
         journal' = Append(journal, UsnRecord(r, reasons)), UNCHANGED <<index, drift, astray>>,
         fs'[r].live => /\ fs'[r].parent = fs[r].parent /\ fs'[r].name = fs[r].name
                        /\ fs'[r].dir = fs[r].dir,
         ~fs'[r].live => /\ fs'[r].parent = 0 /\ "delete" \in reasons
                         /\ \A s \in Records : fs[s].live => fs[s].parent # r
  PROVE  PathInv'
<1> DEFINE record == UsnRecord(r, reasons)
<1>1. /\ TypeInv /\ TypeInv' /\ Types /\ Types' /\ JournalInv /\ IndexInv /\ Undeleted /\ Volume
      /\ fs \in [Records -> Files] /\ Known(journal)
  BY DEF Inv, TypeInv, Types, JournalInv
<1>2. Tree /\ Told(journal)
  BY DEF PathInv
<1>3. /\ record \in UsnRecords /\ record.self = Reference(r) /\ record.parent = Reference(fs[r].parent)
      /\ record.name = fs[r].name /\ record.dir = fs[r].dir /\ record.reasons = reasons
  <2>1. record \in UsnRecords
    BY <1>1, ReferenceTypes
  <2> QED BY <2>1 DEF UsnRecord
<1>0. journal' = Append(journal, record)
  OBVIOUS
<1> HIDE DEF record
<1>4. \A s \in Records : fs'[s].seq = fs[s].seq /\ fs[s].seq \in Nat
  BY <1>1, FileNumbers
<1>5. fs[r].parent # r /\ fs[r].parent \in Records \cup {0}
  BY <1>1, <1>2 DEF Tree, Files
<1>6. Told(journal)'
  BY <1>0, <1>1, <1>2, <1>3, <1>5, RecordTold
<1>7. Tree'
  <2> SUFFICES ASSUME NEW s \in Records
               PROVE  /\ fs'[s].parent # s
                      /\ fs'[s].live /\ fs'[s].parent # 0 => fs'[fs'[s].parent].dir
                      /\ ~fs'[s].live => fs'[s].parent = 0
    BY DEF Tree
  <2>1. CASE s = r
    <3>1. CASE fs'[r].live
      <4>1. fs'[r].parent = fs[r].parent
        BY <3>1
      <4>2. fs[r].parent # 0 => fs[fs[r].parent].dir /\ fs'[fs[r].parent] = fs[fs[r].parent]
        BY <1>2, <1>5 DEF Tree
      <4> QED BY <1>5, <2>1, <3>1, <4>1, <4>2
    <3>2. CASE ~fs'[r].live
      BY <2>1, <3>2, RecordsAssumption
    <3> QED BY <3>1, <3>2
  <2>2. CASE s # r
    <3>1. fs[s].parent \in Records \cup {0} /\ fs'[s] = fs[s]
      BY <1>1, <2>2 DEF Files
    <3>2. /\ fs[s].parent # s /\ (~fs[s].live => fs[s].parent = 0)
          /\ fs[s].live /\ fs[s].parent # 0 => fs[fs[s].parent].dir
      BY <1>2 DEF Tree
    <3>3. ASSUME fs[s].live, fs[s].parent # 0 PROVE fs'[fs[s].parent].dir
      <4>1. CASE fs[s].parent = r
        BY <3>2, <3>3, <4>1
      <4>2. CASE fs[s].parent # r
        BY <3>1, <3>2, <3>3, <4>2
      <4> QED BY <4>1, <4>2
    <3> QED BY <3>1, <3>2, <3>3
  <2> QED BY <2>1, <2>2
<1>8. PICK kind \in Kinds :
          /\ KindOfFiles(kind) /\ KindOfJournal(kind, journal)
          /\ ~drift /\ ~astray => Healthy(index, Left(journal, 0), kind)
  BY DEF PathInv
<1>9. (KindOfFiles(kind) /\ KindOfJournal(kind, journal))'
  <2>1. KindOfRecord(kind, record)
    <3>1. kind[record.self] = record.dir
      BY <1>3, <1>8 DEF KindOfFiles
    <3>2. ASSUME record.parent # Root PROVE kind[record.parent] = TRUE
      <4>1. fs[r].parent \in Records /\ fs[r].parent # 0
        BY <1>3, <1>5, <3>2 DEF Reference
      <4>2. fs[fs[r].parent].live /\ fs[fs[r].parent].dir
        BY <1>1, <1>2, <4>1 DEF Volume, Tree
      <4>3. fs[fs[r].parent].dir \in BOOLEAN
        BY <1>1, <4>1 DEF Files
      <4> QED BY <1>3, <1>8, <4>1, <4>2, <4>3 DEF KindOfFiles
    <3> QED BY <3>1, <3>2 DEF KindOfRecord
  <2>2. \A i \in DOMAIN journal' : \/ i \in DOMAIN journal /\ journal'[i] = journal[i]
                                   \/ journal'[i] = record
    BY <1>0, <1>1, <1>3, AppendTypes
  <2>3. \A s \in Records : fs'[s].live => /\ fs[s].live /\ fs'[s].seq = fs[s].seq
                                          /\ fs'[s].dir = fs[s].dir
    OBVIOUS
  <2> QED BY <1>8, <2>1, <2>2, <2>3, KindsStay
<1>10. Onward
  BY <1>1, <1>4 DEF Onward, Undeleted
<1>11. ASSUME ~drift', ~astray' PROVE Healthy(index, Left(journal, 0), kind)'
  <2>1. ~drift /\ ~astray
    BY <1>11
  <2>2. Healthy(index, Left(journal, 0), kind) /\ InStep(index, journal, 0)
    BY <1>1, <1>8, <2>1 DEF IndexInv
  <2> QED BY <1>0, <1>1, <1>3, <1>5, <1>10, <2>2, RecordHealth
<1> QED BY <1>6, <1>7, <1>8, <1>9, <1>11 DEF PathInv

-----------------------------------------------------------------------------
(* Every step.                                                              *)

(* The health of the next index is that of the index next, if no file       *)
(* changes.                                                                 *)
LEMMA SameFiles ==
  ASSUME UNCHANGED fs, Tree, Told(journal'),
         NEW kind \in Kinds, KindOfFiles(kind), KindOfJournal(kind, journal'),
         ~drift' /\ ~astray' => Healthy(index', Left(journal', 0), kind)
  PROVE  PathInv'
<1>1. Tree' /\ KindOfFiles(kind)' /\ KindOfJournal(kind, journal)'
  BY DEF Tree, KindOfFiles, KindOfJournal, KindOfRecord, Reference
<1>2. Told(journal)'
  <2>1. Parental(journal') /\ Aged(journal') /\ Reasoned(journal') /\ LastIs(journal')
    BY DEF Told
  <2>2. Parental(journal)'
    BY <2>1 DEF Parental, Alive, Deletes
  <2>3. Aged(journal)' /\ Reasoned(journal)'
    BY <2>1 DEF Aged, Reasoned
  <2>4. LastIs(journal)'
    BY <2>1 DEF LastIs, Reference
  <2> QED BY <2>2, <2>3, <2>4 DEF Told
<1>3. ASSUME ~drift', ~astray' PROVE Healthy(index, Left(journal, 0), kind)'
  <2> DEFINE L == Left(journal', 0)
  <2>1. Left(journal, 0)' = L
    BY DEF Left
  <2>2. /\ Straight(index') /\ FollowsBut(index', {}) /\ AtRoot(index')
        /\ Elder(index', L) /\ Fresh(index', L) /\ ParentKnown(index')
        /\ Orphans(index', L) /\ Present(index', L) /\ Settled(index', L) /\ KindOfIndex(kind, index')
    BY <1>3 DEF Healthy
  <2> HIDE DEF L
  <2>3. (Straight(index) /\ FollowsBut(index, {}) /\ AtRoot(index) /\ KindOfIndex(kind, index))'
    BY <2>2, Zenon
  <2>4. Elder(index, Left(journal, 0))'
    BY <2>1, <2>2 DEF Elder
  <2>5. Fresh(index, Left(journal, 0))' /\ ParentKnown(index)'
    BY <2>1, <2>2 DEF Fresh, ParentKnown, Reference
  <2>6. Orphans(index, Left(journal, 0))'
    BY <2>1, <2>2 DEF Orphans, Alive, IsAwaitingChild
  <2>7. Present(index, Left(journal, 0))'
    BY <2>1, <2>2 DEF Present, Reference
  <2>8. Settled(index, Left(journal, 0))'
    BY <2>1, <2>2 DEF Settled, Reference, Leaf
  <2> QED BY <2>3, <2>4, <2>5, <2>6, <2>7, <2>8 DEF Healthy
<1> QED BY <1>1, <1>2, <1>3 DEF PathInv

(* A buffer.                                                                *)
LEMMA BufferKeepsPaths ==
  ASSUME Inv, PathInv, ProcessOneBuffer
  PROVE  PathInv'
<1>1. PICK n \in 1..MaxBuffer :
        /\ n <= Len(journal)
        /\ LET buffer == SubSeq(journal, 1, n)
               parts == Partition(buffer)
               order == parts.establish_parents \o parts.remaining
               applied == Seqs!FoldLeft(ApplyOneUsnRecord, [index |-> index, astray |-> astray], order)
           IN /\ index' = applied.index
              /\ astray' = applied.astray
              /\ drift' = (drift \/ Misread(buffer))
        /\ journal' = SubSeq(journal, n + 1, Len(journal))
        /\ UNCHANGED <<fs, ops>>
  BY DEF ProcessOneBuffer
<1> DEFINE buffer == SubSeq(journal, 1, n)
           order == Partition(buffer).establish_parents \o Partition(buffer).remaining
           applied == Seqs!FoldLeft(ApplyOneUsnRecord, [index |-> index, astray |-> astray], order)
           S == SubSeq(journal, n + 1, Len(journal))
<1>2. /\ journal \in Seq(UsnRecords) /\ n \in 1..Len(journal) /\ n \in 0..Len(journal)
      /\ index \in Sound /\ astray \in BOOLEAN /\ Types
  BY <1>1 DEF Inv, TypeInv, Types
<1>3. Ordered(journal) /\ CreatedFirst(journal) /\ Covered(journal) /\ Known(journal)
  BY DEF Inv, JournalInv
<1>4. index' = applied.index /\ astray' = applied.astray /\ drift' = (drift \/ Misread(buffer))
  BY <1>1, Zenon
<1>5. journal' = S /\ UNCHANGED fs
  BY <1>1
<1>6. /\ S \in Seq(UsnRecords) /\ Len(S) = Len(journal) - n
      /\ \A j \in 1..(Len(journal) - n) : S[j] = journal[n + j]
  BY <1>2, Slices
<1>7. Tree /\ Told(journal)
  BY DEF PathInv
<1>8. PICK kind \in Kinds :
          /\ KindOfFiles(kind) /\ KindOfJournal(kind, journal)
          /\ ~drift /\ ~astray => Healthy(index, Left(journal, 0), kind)
  BY DEF PathInv
<1>9. Told(S)
  <2> HIDE DEF S
  <2> QED BY <1>2, <1>6, <1>7, SuffixTold
<1>10. KindOfJournal(kind, S)
  <2> HIDE DEF S
  <2>1. DOMAIN S = 1..(Len(journal) - n) /\ \A j \in 1..(Len(journal) - n) : n + j \in DOMAIN journal
    BY <1>2, <1>6
  <2> QED BY <1>6, <1>8, <2>1 DEF KindOfJournal
<1>11. ASSUME ~drift', ~astray' PROVE Healthy(applied.index, Left(S, 0), kind)
  <2>1. ~drift /\ ~Misread(buffer) /\ ~applied.astray
    <3> HIDE DEF applied, buffer
    <3> QED BY <1>4, <1>11
  <2>2. Readable(journal, n)
    BY <1>2, <2>1, ReadableBuffer
  <2>3. Tidy(index) /\ InStep(index, journal, 0)
    BY <2>1 DEF Inv, IndexInv
  <2> HIDE DEF applied
  <2>4. applied = Seqs!FoldLeft(ApplyOneUsnRecord, [index |-> index, astray |-> astray], order)
    BY DEF applied
  <2> HIDE DEF order
  <2>5. order = Partition(SubSeq(journal, 1, n)).establish_parents
                  \o Partition(SubSeq(journal, 1, n)).remaining
    BY DEF order
  <2>6. n \in 1..Len(journal) /\ journal \in Seq(UsnRecords) /\ index \in Sound /\ astray \in BOOLEAN
    BY <1>2
  <2>7. PICK Q, f, m, a : /\ Run(journal, n, Q, f, m, a)
                          /\ a[0] = [index |-> index, astray |-> astray] /\ a[m] = applied
    <3>1. LET parts == Partition(SubSeq(journal, 1, n))
              last == Seqs!FoldLeft(ApplyOneUsnRecord, [index |-> index, astray |-> astray],
                                    parts.establish_parents \o parts.remaining)
          IN \E Q, f, m, a : /\ Run(journal, n, Q, f, m, a)
                             /\ a[0] = [index |-> index, astray |-> astray] /\ a[m] = last
      BY <2>2, <2>6, BufferRuns
    <3> QED BY <2>4, <2>5, <3>1, Zenon
  <2>8. a[0].index = index /\ a[0].astray = astray
    BY <2>7
  <2>9. \A i \in DOMAIN journal : KindOfRecord(kind, journal[i])
    BY <1>8 DEF KindOfJournal
  <2>10. Tidy(a[0].index) /\ InStep(a[0].index, journal, 0)
    BY <2>3, <2>8, Zenon
  <2>11. ~a[0].astray => Healthy(a[0].index, Left(journal, 0), kind)
    BY <1>8, <2>1, <2>8, Zenon
  <2>12. ~a[m].astray
    BY <2>1, <2>7
  <2>13. Healthy(a[m].index, Left(SubSeq(journal, n + 1, Len(journal)), 0), kind)
    BY <1>2, <1>3, <1>7, <2>2, <2>7, <2>9, <2>10, <2>11, <2>12, RunIsHealthy
  <2> QED BY <2>7, <2>13, Zenon
<1>12. ~drift' /\ ~astray' => Healthy(index', Left(journal', 0), kind)
  <2> HIDE DEF applied, S
  <2> QED BY <1>4, <1>5, <1>11, Zenon
<1>13. Told(journal') /\ KindOfJournal(kind, journal')
  <2> HIDE DEF S
  <2> QED BY <1>5, <1>9, <1>10
<1> QED BY <1>5, <1>7, <1>8, <1>12, <1>13, SameFiles

(* Once the journal is applied nothing waits, so that the sweep finds       *)
(* nothing.                                                                 *)
LEMMA NothingWaits ==
  ASSUME Inv, PathInv, ~drift, ~astray, CaughtUp, NEW r \in Records
  PROVE  index.awaiting[r] = {}
<1> SUFFICES ASSUME NEW c \in index.awaiting[r] PROVE FALSE
  OBVIOUS
<1>1. /\ index \in Sound /\ index \in Indexes /\ Types /\ Volume /\ Tidy(index) /\ InStep(index, journal, 0)
  BY DEF Inv, TypeInv, IndexInv, Sound
<1>2. journal = <<>> /\ \A s \in Records : fs[s].reasons = {}
  BY DEF CaughtUp
<1>3. DOMAIN journal = {} /\ Left(journal, 0) = {}
  BY <1>2 DEF Left
<1>4. Present(index, {}) /\ Settled(index, {})
  BY <1>3 DEF PathInv, Healthy
<1>5. c \in DOMAIN index.entries /\ index.entries[c].parent.rec = r
  BY <1>1 DEF Sound, Waits
<1>6. c \in References /\ c.rec \in Records
  <2>1. c \in References
    BY <1>1, <1>5, IndexParts
  <2> QED BY <2>1 DEF References
<1>7. Alive(c)
  BY <1>1, <1>3, <1>5 DEF InStep
<1>8. c = Reference(c.rec)
  <2>1. Reference(c.rec) = [rec |-> c.rec, seq |-> fs[c.rec].seq]
    BY <1>6, RecordsAssumption DEF Reference
  <2> QED BY <1>6, <1>7, <2>1 DEF Alive, References
<1>9. fs[c.rec].parent = r
  BY <1>2, <1>4, <1>5, <1>6, <1>7, <1>8 DEF Settled, Alive
<1>10. fs[r].live
  BY <1>1, <1>6, <1>7, <1>9, RecordsAssumption DEF Volume, Alive
<1>11. Reference(r) \in DOMAIN index.entries /\ Reference(r).rec = r
  BY <1>2, <1>4, <1>10, ReferenceIs DEF Present
<1>12. index.awaiting[r] = {}
  BY <1>1, <1>11 DEF Tidy, Served
<1> QED BY <1>12

(* Every step keeps the invariant.                                          *)
LEMMA StepKeepsPaths == Inv /\ PathInv /\ [Next]_vars => PathInv'
<1> SUFFICES ASSUME Inv, PathInv, [Next]_vars PROVE PathInv'
  OBVIOUS
<1>1. Inv' /\ fs \in [Records -> Files] /\ Undeleted
  BY StepKeepsInv DEF Inv, TypeInv, Types, JournalInv
<1>2. ASSUME NEW r \in Records, DeleteFile(r) PROVE PathInv'
  <2>1. /\ fs' = [fs EXCEPT ![r] = Unused(fs[r].seq)] /\ fs[r].live
        /\ \A d \in Records : fs[d].live => fs[d].parent # r
        /\ journal' = Append(journal, UsnRecord(r, fs[r].reasons \cup {"delete"}))
        /\ UNCHANGED <<index, drift, astray>>
    BY <1>2 DEF DeleteFile, Operate, Live
  <2>2. /\ fs'[r].seq = fs[r].seq /\ fs'[r].reasons = {} /\ ~fs'[r].live /\ fs'[r].parent = 0
        /\ \A s \in Records : s # r => fs'[s] = fs[s]
    BY <1>1, <2>1 DEF Unused
  <2> DEFINE reasons == fs[r].reasons \cup {"delete"}
  <2>3. /\ reasons \in SUBSET Reasons /\ reasons # {} /\ "delete" \in reasons
        /\ "create" \in reasons <=> "create" \in fs[r].reasons
    BY <1>1 DEF Files, Reasons
  <2>4. journal' = Append(journal, UsnRecord(r, reasons))
    BY <2>1
  <2> HIDE DEF reasons
  <2> QED BY <1>1, <2>1, <2>2, <2>3, <2>4, RecordKeepsPaths
<1>3. ASSUME NEW r \in Records, CloseFile(r) PROVE PathInv'
  <2>1. /\ fs' = [fs EXCEPT ![r].reasons = {}] /\ fs[r].live /\ fs[r].reasons # {}
        /\ journal' = Append(journal, UsnRecord(r, fs[r].reasons)) /\ UNCHANGED <<index, drift, astray>>
    BY <1>3 DEF CloseFile
  <2>2. /\ fs'[r].seq = fs[r].seq /\ fs'[r].reasons = {} /\ fs'[r].live
        /\ fs'[r].parent = fs[r].parent /\ fs'[r].name = fs[r].name /\ fs'[r].dir = fs[r].dir
        /\ \A s \in Records : s # r => fs'[s] = fs[s]
    BY <1>1, <2>1 DEF Files
  <2>3. fs[r].reasons \in SUBSET Reasons
    BY <1>1 DEF Files
  <2> QED BY <1>1, <2>1, <2>2, <2>3, RecordKeepsPaths
<1>4. CASE ProcessOneBuffer
  BY <1>4, BufferKeepsPaths
<1>5. PICK kind \in Kinds :
        /\ KindOfFiles(kind) /\ KindOfJournal(kind, journal)
        /\ ~drift /\ ~astray => Healthy(index, Left(journal, 0), kind)
  BY DEF PathInv
<1>6. CASE SweepNeverArriving
  <2>1. UNCHANGED <<fs, journal, drift, astray>> /\ CaughtUp
    BY <1>6, Zenon DEF SweepNeverArriving
  <2>2. ~(~drift /\ ~astray)
    <3> SUFFICES ASSUME ~drift, ~astray PROVE FALSE
      OBVIOUS
    <3>1. UNION {index.awaiting[r] : r \in Records} # {}
      BY <1>6, Zenon DEF SweepNeverArriving
    <3>2. \A r \in Records : index.awaiting[r] = {}
      BY <2>1, NothingWaits
    <3> QED BY <3>1, <3>2
  <2>3. Tree /\ Told(journal') /\ KindOfJournal(kind, journal') /\ UNCHANGED fs
    BY <1>5, <2>1 DEF PathInv
  <2>4. ~drift' /\ ~astray' => Healthy(index', Left(journal', 0), kind)
    BY <2>1, <2>2
  <2> QED BY <1>5, <2>3, <2>4, SameFiles
<1>7. CASE UNCHANGED vars
  <2>1. UNCHANGED <<fs, journal, index, drift, astray>>
    BY <1>7 DEF vars
  <2>2. Tree /\ Told(journal') /\ KindOfJournal(kind, journal') /\ UNCHANGED fs
    BY <1>5, <2>1 DEF PathInv
  <2>3. ~drift' /\ ~astray' => Healthy(index', Left(journal', 0), kind)
    BY <1>5, <2>1
  <2> QED BY <1>5, <2>2, <2>3, SameFiles
<1>8. CASE \E r \in Records, p \in Folders, n \in Names :
             (\E d \in BOOLEAN : CreateFile(r, p, n, d)) \/ RenameFile(r, p, n)
  BY <1>1, <1>8, CreateKeepsPaths, RenameKeepsPaths
<1> QED BY <1>2, <1>3, <1>4, <1>6, <1>7, <1>8 DEF Next

(* It holds at the start.                                                   *)
LEMMA InitPaths == Init => PathInv
<1> SUFFICES ASSUME Init PROVE PathInv
  OBVIOUS
<1>1. /\ journal = <<>> /\ DOMAIN journal = {} /\ Left(journal, 0) = {} /\ DOMAIN index.entries = {}
      /\ \A r \in Records : fs[r].reasons = {} /\ ~fs[r].live /\ fs[r].parent = 0
  BY DEF Init, EmptyIndex, Unused, Left
<1>2. Tree /\ Told(journal)
  BY <1>1, RecordsAssumption DEF Tree, Told, Parental, Aged, Reasoned, LastIs
<1> DEFINE kind == [q \in References |-> FALSE]
<1>3. kind \in Kinds /\ KindOfFiles(kind) /\ KindOfJournal(kind, journal)
  BY <1>1 DEF Kinds, KindOfFiles, KindOfJournal
<1> HIDE DEF kind
<1>4. Straight(index) /\ FollowsBut(index, {}) /\ AtRoot(index)
  BY <1>1 DEF Straight, Direct, NoCycle, Short, FollowsBut, AtRoot
<1>5. /\ Elder(index, {}) /\ Fresh(index, {}) /\ ParentKnown(index) /\ Orphans(index, {})
      /\ Present(index, {}) /\ Settled(index, {}) /\ KindOfIndex(kind, index)
  BY <1>1 DEF Elder, Fresh, ParentKnown, Orphans, Present, Settled, KindOfIndex
<1> QED BY <1>1, <1>2, <1>3, <1>4, <1>5 DEF PathInv, Healthy

-----------------------------------------------------------------------------
(* The paths and the files that are shown.                                  *)

(* What holds of the index is what the properties say.                      *)

(* Names that are given by those of the parent are the path in the volume.  *)
LEMMA PathInVolumeIs ==
  ASSUME NEW g, g = [r \in Records |-> IF fs[r].parent = 0 THEN <<fs[r].name>>
                                       ELSE Append(g[fs[r].parent], fs[r].name)]
  PROVE  \A r \in Records :
            PathInVolume[r] = IF fs[r].parent = 0 THEN <<fs[r].name>>
                              ELSE Append(PathInVolume[fs[r].parent], fs[r].name)
<1> DEFINE Body(f) == [r \in Records |-> IF fs[r].parent = 0 THEN <<fs[r].name>>
                                         ELSE Append(f[fs[r].parent], fs[r].name)]
           h == CHOOSE f : f = Body(f)
<1>1. PathInVolume = h
  BY Zenon DEF PathInVolume
<1>2. g = Body(g)
  OBVIOUS
<1>3. h = Body(h)
  <2> HIDE DEF Body
  <2> QED BY <1>2
<1> HIDE DEF h
<1> QED BY <1>1, <1>3

(* With the journal applied each file has its entry, in its place.          *)
LEMMA EntriesInPlace ==
  ASSUME Inv, PathInv, ~drift, ~astray, CaughtUp
  PROVE  /\ DOMAIN index.entries = {Reference(r) : r \in Live}
         /\ \A r \in Live :
               LET entry == index.entries[Reference(r)]
                   p == fs[r].parent
               IN /\ entry.parent.rec = p /\ entry.dir = fs[r].dir
                  /\ entry.names \in Seq(Names) /\ Len(entry.names) \in Nat /\ fs[r].name \in Names
                  /\ p = 0 => entry.rooted /\ entry.names = <<fs[r].name>>
                  /\ p # 0 => /\ p \in Live /\ entry.rooted = index.entries[Reference(p)].rooted
                              /\ index.entries[Reference(p)].names \in Seq(Names)
                              /\ entry.names = Append(index.entries[Reference(p)].names, fs[r].name)
<1>1. /\ index \in Indexes /\ Types /\ Volume /\ Tidy(index) /\ InStep(index, journal, 0)
      /\ fs \in [Records -> Files] /\ One(index)
  BY DEF Inv, TypeInv, IndexInv, Sound, Tidy, Types
<1>2. journal = <<>> /\ \A s \in Records : fs[s].reasons = {}
  BY DEF CaughtUp
<1>3. DOMAIN journal = {} /\ Left(journal, 0) = {}
  BY <1>2 DEF Left
<1>4. PICK kind \in Kinds : KindOfFiles(kind) /\ Healthy(index, {}, kind)
  BY <1>3 DEF PathInv
<1>5. /\ Present(index, {}) /\ Settled(index, {}) /\ KindOfIndex(kind, index)
      /\ FollowsBut(index, {}) /\ AtRoot(index) /\ Direct(index)
  BY <1>4 DEF Healthy, Straight
<1>6. \A s \in Records : Reference(s) = [rec |-> s, seq |-> fs[s].seq] /\ Reference(s).rec = s
  BY RecordsAssumption DEF Reference
<1>7. ASSUME NEW id \in DOMAIN index.entries PROVE id.rec \in Live /\ id = Reference(id.rec)
  <2>1. id \in References /\ id.rec \in Records
    <3>1. id \in References
      BY <1>1, IndexParts
    <3> QED BY <3>1 DEF References
  <2>2. Alive(id)
    BY <1>1, <1>3 DEF InStep
  <2> QED BY <1>6, <2>1, <2>2 DEF Alive, Live, References
<1>8. ASSUME NEW r \in Live PROVE r \in Records /\ fs[r].live /\ Reference(r) \in DOMAIN index.entries
  BY <1>2, <1>5 DEF Live, Present
<1>9. DOMAIN index.entries = {Reference(r) : r \in Live}
  BY <1>7, <1>8
<1>10. ASSUME NEW r \in Live, NEW entry, entry = index.entries[Reference(r)], NEW p, p = fs[r].parent
       PROVE  /\ entry.parent.rec = p /\ entry.dir = fs[r].dir
              /\ entry.names \in Seq(Names) /\ Len(entry.names) \in Nat /\ fs[r].name \in Names
              /\ p = 0 => entry.rooted /\ entry.names = <<fs[r].name>>
              /\ p # 0 => /\ p \in Live /\ entry.rooted = index.entries[Reference(p)].rooted
                          /\ index.entries[Reference(p)].names \in Seq(Names)
                          /\ entry.names = Append(index.entries[Reference(p)].names, fs[r].name)
  <2>1. /\ r \in Records /\ fs[r].live /\ Reference(r) \in DOMAIN index.entries
        /\ fs[r].name \in Names /\ p \in Records \cup {0} /\ (p # 0 => p \in Live)
    BY <1>1, <1>8, <1>10 DEF Volume, Files, Live
  <2>2. entry.parent.rec = p /\ Leaf(entry) = fs[r].name
    BY <1>2, <1>5, <1>10, <2>1 DEF Settled
  <2>3. entry.dir = fs[r].dir
    BY <1>4, <1>5, <1>10, <2>1 DEF KindOfFiles, KindOfIndex
  <2>4. entry.parent \in Parents /\ entry.names \in Seq(Names) /\ entry.names # <<>> /\ Len(entry.names) \in Nat
    BY <1>1, <1>10, <2>1, EntryParts
  <2>5. ASSUME p = 0 PROVE entry.rooted /\ entry.names = <<fs[r].name>>
    <3>1. entry.parent = Root
      BY <2>2, <2>4, <2>5, RecordsAssumption DEF Parents, References
    <3>2. entry.rooted /\ Len(entry.names) = 1
      BY <1>5, <1>10, <2>1, <3>1 DEF AtRoot
    <3>3. entry.names[1] = fs[r].name
      BY <2>2, <3>2 DEF Leaf
    <3> QED BY <2>4, <3>2, <3>3
  <2>6. ASSUME p # 0
        PROVE  /\ p \in Live /\ entry.rooted = index.entries[Reference(p)].rooted
               /\ index.entries[Reference(p)].names \in Seq(Names)
               /\ entry.names = Append(index.entries[Reference(p)].names, fs[r].name)
    <3>1. p \in Live /\ p \in Records /\ Reference(p) \in DOMAIN index.entries
      BY <1>8, <2>1, <2>6
    <3>2. Reference(p) = entry.parent
      BY <1>1, <1>5, <1>6, <1>10, <2>1, <2>2, <3>1, DirectParent
    <3>3. IsBelow(index, Reference(r), Reference(p))
      BY <1>5, <1>10, <2>1, <3>1, <3>2 DEF FollowsBut, FollowsAt
    <3>4. entry.rooted = index.entries[Reference(p)].rooted
      BY <1>10, <3>3 DEF IsBelow
    <3>5. PICK name \in Names : entry.names = Append(index.entries[Reference(p)].names, name)
      BY <1>10, <3>3 DEF IsBelow
    <3>6. index.entries[Reference(p)].names \in Seq(Names)
      BY <1>1, <3>1, EntryParts
    <3>7. Leaf(entry) = name
      BY <3>5, <3>6, Appended DEF Leaf
    <3> QED BY <2>2, <3>1, <3>4, <3>5, <3>6, <3>7
  <2> QED BY <2>1, <2>2, <2>3, <2>4, <2>5, <2>6
<1>11. \A r \in Live :
          LET entry == index.entries[Reference(r)]
              p == fs[r].parent
          IN /\ entry.parent.rec = p /\ entry.dir = fs[r].dir
             /\ entry.names \in Seq(Names) /\ Len(entry.names) \in Nat /\ fs[r].name \in Names
             /\ p = 0 => entry.rooted /\ entry.names = <<fs[r].name>>
             /\ p # 0 => /\ p \in Live /\ entry.rooted = index.entries[Reference(p)].rooted
                         /\ index.entries[Reference(p)].names \in Seq(Names)
                         /\ entry.names = Append(index.entries[Reference(p)].names, fs[r].name)
  BY <1>10
<1> QED BY <1>9, <1>11

(* So that the index shows the volume.                                      *)
LEMMA PathsConverge ==
  ASSUME Inv, PathInv
  PROVE  ConvergesUnlessMisread
<1> SUFFICES ASSUME ~drift, ~astray, CaughtUp
             PROVE  /\ DOMAIN index.entries = {Reference(r) : r \in Live}
                    /\ \A r \in Live : LET entry == index.entries[Reference(r)] IN
                          /\ entry.parent.rec = fs[r].parent /\ entry.dir = fs[r].dir
                          /\ entry.rooted /\ entry.names = PathInVolume[r]
  BY DEF ConvergesUnlessMisread, ShowsVolume
<1> DEFINE entry(r) == index.entries[Reference(r)]
<1>1. /\ DOMAIN index.entries = {Reference(r) : r \in Live}
      /\ \A r \in Live :
            /\ entry(r).parent.rec = fs[r].parent /\ entry(r).dir = fs[r].dir
            /\ entry(r).names \in Seq(Names) /\ Len(entry(r).names) \in Nat /\ fs[r].name \in Names
            /\ fs[r].parent = 0 => entry(r).rooted /\ entry(r).names = <<fs[r].name>>
            /\ fs[r].parent # 0 =>
                  /\ fs[r].parent \in Live /\ entry(r).rooted = entry(fs[r].parent).rooted
                  /\ entry(fs[r].parent).names \in Seq(Names)
                  /\ entry(r).names = Append(entry(fs[r].parent).names, fs[r].name)
  BY EntriesInPlace
<1> HIDE DEF entry
<1> DEFINE g == [r \in Records |-> IF fs[r].live THEN entry(r).names ELSE <<fs[r].name>>]
<1>2. \A r \in Records : ~fs[r].live => fs[r].parent = 0
  BY DEF PathInv, Tree
<1>3. \A r \in Live : r \in Records /\ fs[r].live
  BY DEF Live
<1>4. \A r \in Records :
         PathInVolume[r] = IF fs[r].parent = 0 THEN <<fs[r].name>>
                           ELSE Append(PathInVolume[fs[r].parent], fs[r].name)
  <2>1. ASSUME NEW r \in Records
        PROVE  g[r] = IF fs[r].parent = 0 THEN <<fs[r].name>> ELSE Append(g[fs[r].parent], fs[r].name)
    <3>1. CASE ~fs[r].live
      BY <1>2, <3>1
    <3>2. CASE fs[r].live
      <4>1. r \in Live /\ g[r] = entry(r).names
        BY <3>2 DEF Live
      <4>2. fs[r].parent # 0 => g[fs[r].parent] = entry(fs[r].parent).names
        BY <1>1, <1>3, <4>1
      <4> HIDE DEF g
      <4> QED BY <1>1, <4>1, <4>2
    <3> QED BY <3>1, <3>2
  <2>2. g = [r \in Records |-> g[r]]
    OBVIOUS
  <2> HIDE DEF g
  <2>3. g = [r \in Records |-> IF fs[r].parent = 0 THEN <<fs[r].name>>
                               ELSE Append(g[fs[r].parent], fs[r].name)]
    BY <2>1, <2>2
  <2> QED BY <2>3, PathInVolumeIs
<1> HIDE DEF g
<1> DEFINE Shown(r) == entry(r).rooted /\ entry(r).names = PathInVolume[r]
           T == {n \in Nat : \A r \in Live : Len(entry(r).names) <= n => Shown(r)}
<1>5. ASSUME NEW r \in Live, fs[r].parent # 0 => Shown(fs[r].parent) PROVE Shown(r)
  <2> DEFINE p == fs[r].parent
  <2>1. PathInVolume[r] = IF p = 0 THEN <<fs[r].name>> ELSE Append(PathInVolume[p], fs[r].name)
    BY <1>3, <1>4
  <2>2. CASE p = 0
    BY <1>1, <2>1, <2>2
  <2>3. CASE p # 0
    <3>1. entry(p).rooted /\ entry(p).names = PathInVolume[p]
      BY <1>5, <2>3
    <3>2. entry(r).rooted = entry(p).rooted /\ entry(r).names = Append(entry(p).names, fs[r].name)
      BY <1>1, <2>3
    <3>3. entry(r).rooted
      BY <3>1, <3>2, Zenon
    <3>4. entry(r).names = PathInVolume[r]
      BY <2>1, <2>3, <3>1, <3>2
    <3> QED BY <3>3, <3>4
  <2> QED BY <2>2, <2>3
<1>6. ASSUME NEW r \in Live, fs[r].parent # 0
      PROVE  /\ Len(entry(fs[r].parent).names) \in Nat
             /\ Len(entry(r).names) = Len(entry(fs[r].parent).names) + 1
  <2>1. /\ entry(fs[r].parent).names \in Seq(Names) /\ fs[r].name \in Names
        /\ entry(r).names = Append(entry(fs[r].parent).names, fs[r].name)
    BY <1>1, <1>6
  <2> QED BY <2>1, Appended
<1>7. \A r \in Live : Len(entry(r).names) \in Nat /\ (fs[r].parent # 0 => fs[r].parent \in Live)
  BY <1>1
<1> HIDE DEF Shown
<1>8. 0 \in T
  BY <1>5, <1>6, <1>7
<1>9. ASSUME NEW n \in Nat, n \in T PROVE n + 1 \in T
  <2> SUFFICES ASSUME NEW r \in Live, Len(entry(r).names) <= n + 1 PROVE Shown(r)
    OBVIOUS
  <2>1. fs[r].parent # 0 => Len(entry(fs[r].parent).names) <= n /\ fs[r].parent \in Live
    BY <1>6, <1>7
  <2> QED BY <1>5, <1>9, <2>1
<1>10. Nat \subseteq T
  <2> HIDE DEF T
  <2> QED BY <1>8, <1>9, Upwards
<1>11. \A r \in Live : Shown(r)
  BY <1>7, <1>10
<1> QED BY <1>1, <1>11 DEF Shown, entry

-----------------------------------------------------------------------------
(* The inductive invariant holds.                                           *)
LEMMA PathsAreKept == Spec => [](Inv /\ PathInv)
<1>1. Init => Inv /\ PathInv
  BY InitInv, InitPaths
<1>2. (Inv /\ PathInv) /\ [Next]_vars => (Inv /\ PathInv)'
  BY StepKeepsInv, StepKeepsPaths
<1> QED BY <1>1, <1>2, PTL DEF Spec

(* Whatever the order of the records, a path is its parent's and one name   *)
(* more (SyncHealedChildSubtree, HealAwaiting), until the code misreads a   *)
(* record or the parents have been such that paths go wrong.                *)
THEOREM PathsStayBelowParents == Spec => []PathsFollowParents
<1>1. Inv /\ PathInv => PathsFollowParents
  <2> SUFFICES ASSUME Inv, PathInv, ~drift, ~astray, NEW id \in DOMAIN index.entries,
                      index.entries[id].parent \in DOMAIN index.entries
               PROVE  PathOf(index, id)
                         = PathBelow(index, index.entries[id].parent, Leaf(index.entries[id]))
    BY DEF PathsFollowParents
  <2>1. FollowsBut(index, {}) /\ index \in Indexes
    BY DEF PathInv, Healthy, Inv, TypeInv, Sound
  <2> QED BY <2>1, FollowsMeans
<1> QED BY <1>1, PathsAreKept, PTL

(* Once the journal is applied the index shows the volume (ProcessOneBuffer *)
(* with the operators of IndexOperations.cpp), as far as that.              *)
THEOREM IndexConverges == Spec => []ConvergesUnlessMisread
<1>1. Inv /\ PathInv => ConvergesUnlessMisread
  BY PathsConverge
<1> QED BY <1>1, PathsAreKept, PTL
=============================================================================
