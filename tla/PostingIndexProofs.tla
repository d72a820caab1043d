------------------------- MODULE PostingIndexProofs -------------------------
(* The postings that searches use are exact, for any number of callers,     *)
(* rows, builds and buffered mutations.                                     *)
EXTENDS PostingIndex, TLAPS

Outstanding(t) == t \in task \/ \E c \in Callers : t \in tickets[c]

(* Builds.  A build of the current generation exists only while `building`  *)
(* is set, only once, and what it will commit is the truth.                 *)
Bounded == \A t : Outstanding(t) => t.gen <= generation

OnlyWhileBuilding == \A t : Outstanding(t) /\ Current(t) => building

OnlyOne ==
    /\ \A t \in task, u \in task : Current(t) /\ Current(u) => t = u
    /\ \A t \in task, c \in Callers : \A u \in tickets[c] : ~(Current(t) /\ Current(u))
    /\ \A c, d \in Callers : \A t \in tickets[c], u \in tickets[d] :
          Current(t) /\ Current(u) => c = d /\ t = u

WillBeExact ==
    ~mixed => \A t : Outstanding(t) /\ Current(t) => Replay(t.rows, pending) = Extract(rows)

(* Postings.                                                                *)
Flags == building => stale /\ ~ready

Exact == ~building /\ ~stale => postings = Extract(rows)

IInv == TypeOK /\ Bounded /\ OnlyWhileBuilding /\ OnlyOne /\ WillBeExact /\ Flags /\ Exact

-----------------------------------------------------------------------------
(* The order of the buffer: replaying a buffer and then another one is      *)
(* replaying both together.                                                 *)
LEMMA ReplayNothing == \A base : Replay(base, <<>>) = base
BY DEF Replay, Touched, Added

LEMMA TouchedConcat ==
    ASSUME NEW p \in Seq(Mutations), NEW q \in Seq(Mutations)
    PROVE  Touched(p \o q) = Touched(p) \cup Touched(q)
<1>1. \A i \in DOMAIN p : i \in DOMAIN (p \o q) /\ (p \o q)[i] = p[i]
  OBVIOUS
<1>2. \A i \in DOMAIN q : Len(p) + i \in DOMAIN (p \o q) /\ (p \o q)[Len(p) + i] = q[i]
  OBVIOUS
<1>3. \A k \in DOMAIN (p \o q) : k \in DOMAIN p \/ \E i \in DOMAIN q : k = Len(p) + i
  <2> SUFFICES ASSUME NEW k \in DOMAIN (p \o q), k \notin DOMAIN p
               PROVE  \E i \in DOMAIN q : k = Len(p) + i
    OBVIOUS
  <2>1. k - Len(p) \in DOMAIN q /\ k = Len(p) + (k - Len(p))
    OBVIOUS
  <2> QED BY <2>1
<1>4. Touched(p \o q) \subseteq Touched(p) \cup Touched(q)
  BY <1>1, <1>2, <1>3 DEF Touched
<1>5. Touched(p) \subseteq Touched(p \o q)
  BY <1>1 DEF Touched
<1>6. Touched(q) \subseteq Touched(p \o q)
  BY <1>2 DEF Touched
<1> QED BY <1>4, <1>5, <1>6

LEMMA AddedConcat ==
    ASSUME NEW p \in Seq(Mutations), NEW q \in Seq(Mutations)
    PROVE  Added(p \o q) = (Added(p) \ Touched(q)) \cup Added(q)
<1> DEFINE Last(log, j) == \A k \in DOMAIN log : log[k].row = log[j].row => k <= j
<1>0. ASSUME NEW log \in Seq(Mutations), NEW x
      PROVE  x \in Added(log) <=> \E j \in DOMAIN log : log[j].add /\ Last(log, j) /\ x = log[j].row
  BY DEF Added
<1>0a. p \o q \in Seq(Mutations)
  OBVIOUS
<1>1. \A i \in DOMAIN p : i \in DOMAIN (p \o q) /\ (p \o q)[i] = p[i] /\ i <= Len(p) /\ i \in Nat
  OBVIOUS
<1>2. \A i \in DOMAIN q : /\ Len(p) + i \in DOMAIN (p \o q) /\ (p \o q)[Len(p) + i] = q[i]
                          /\ i \in Nat /\ i > 0
  OBVIOUS
<1>3. \A k \in DOMAIN (p \o q) : k \in DOMAIN p \/ \E i \in DOMAIN q : k = Len(p) + i
  <2> SUFFICES ASSUME NEW k \in DOMAIN (p \o q), k \notin DOMAIN p
               PROVE  \E i \in DOMAIN q : k = Len(p) + i
    OBVIOUS
  <2>1. k - Len(p) \in DOMAIN q /\ k = Len(p) + (k - Len(p))
    OBVIOUS
  <2> QED BY <2>1
<1>4. \A i \in DOMAIN q : Last(p \o q, Len(p) + i) <=> Last(q, i)
  <2> SUFFICES ASSUME NEW i \in DOMAIN q
               PROVE  Last(p \o q, Len(p) + i) <=> Last(q, i)
    OBVIOUS
  <2>1. ASSUME Last(p \o q, Len(p) + i), NEW k \in DOMAIN q, q[k].row = q[i].row PROVE k <= i
    <3>1. /\ Len(p) + k \in DOMAIN (p \o q) /\ (p \o q)[Len(p) + k] = q[k] /\ k \in Nat
          /\ (p \o q)[Len(p) + i] = q[i] /\ i \in Nat
      BY <1>2
    <3>2. Len(p) + k <= Len(p) + i
      BY <2>1, <3>1
    <3>3. Len(p) \in Nat
      OBVIOUS
    <3> QED BY <3>1, <3>2, <3>3
  <2>2. ASSUME Last(q, i), NEW k \in DOMAIN (p \o q), (p \o q)[k].row = q[i].row
        PROVE  k <= Len(p) + i
    <3>0. Len(p) \in Nat /\ i \in Nat
      BY <1>2
    <3>1. CASE k \in DOMAIN p
      BY <3>0, <3>1, <1>1
    <3>2. ASSUME NEW l \in DOMAIN q, k = Len(p) + l PROVE k <= Len(p) + i
      <4>1. (p \o q)[k] = q[l] /\ l \in Nat
        BY <3>2, <1>2
      <4>2. l <= i
        BY <2>2, <4>1
      <4> QED BY <3>0, <3>2, <4>1, <4>2
    <3> QED BY <3>1, <3>2, <1>3
  <2> QED BY <1>2, <2>1, <2>2
<1>5. \A i \in DOMAIN p : Last(p \o q, i) <=> Last(p, i) /\ p[i].row \notin Touched(q)
  <2> SUFFICES ASSUME NEW i \in DOMAIN p
               PROVE  Last(p \o q, i) <=> Last(p, i) /\ p[i].row \notin Touched(q)
    OBVIOUS
  <2>1. ASSUME Last(p \o q, i), NEW k \in DOMAIN p, p[k].row = p[i].row PROVE k <= i
    BY <1>1, <2>1
  <2>2. ASSUME Last(p \o q, i), NEW k \in DOMAIN q, q[k].row = p[i].row PROVE FALSE
    <3>1. /\ Len(p) + k \in DOMAIN (p \o q) /\ (p \o q)[Len(p) + k] = q[k] /\ k \in Nat /\ k > 0
          /\ (p \o q)[i] = p[i] /\ i \in Nat /\ i <= Len(p) /\ Len(p) \in Nat
      BY <1>1, <1>2
    <3>2. Len(p) + k <= i
      BY <2>2, <3>1
    <3> QED BY <3>1, <3>2
  <2>3. ASSUME Last(p, i), p[i].row \notin Touched(q),
               NEW k \in DOMAIN (p \o q), (p \o q)[k].row = p[i].row
        PROVE  k <= i
    BY <1>1, <1>2, <1>3, <2>3 DEF Touched
  <2> QED BY <1>1, <2>1, <2>2, <2>3 DEF Touched
<1> HIDE DEF Last
<1>6. ASSUME NEW x PROVE x \in Added(p \o q) <=> x \in (Added(p) \ Touched(q)) \cup Added(q)
  <2>1. ASSUME x \in Added(p \o q) PROVE x \in (Added(p) \ Touched(q)) \cup Added(q)
    <3>1. PICK j \in DOMAIN (p \o q) : /\ (p \o q)[j].add /\ Last(p \o q, j)
                                       /\ x = (p \o q)[j].row
      BY <2>1, <1>0, <1>0a
    <3>2. CASE j \in DOMAIN p
      BY <3>1, <3>2, <1>0, <1>1, <1>5
    <3>3. ASSUME NEW i \in DOMAIN q, j = Len(p) + i PROVE x \in Added(q)
      BY <3>1, <3>3, <1>0, <1>2, <1>4
    <3> QED BY <3>2, <3>3, <1>3
  <2>2. ASSUME x \in Added(p), x \notin Touched(q) PROVE x \in Added(p \o q)
    <3>1. PICK j \in DOMAIN p : p[j].add /\ Last(p, j) /\ x = p[j].row
      BY <2>2, <1>0
    <3>2. j \in DOMAIN (p \o q) /\ (p \o q)[j] = p[j] /\ Last(p \o q, j)
      BY <2>2, <3>1, <1>1, <1>5
    <3> QED BY <3>1, <3>2, <1>0, <1>0a
  <2>3. ASSUME x \in Added(q) PROVE x \in Added(p \o q)
    <3>1. PICK j \in DOMAIN q : q[j].add /\ Last(q, j) /\ x = q[j].row
      BY <2>3, <1>0
    <3>2. /\ Len(p) + j \in DOMAIN (p \o q) /\ (p \o q)[Len(p) + j] = q[j]
          /\ Last(p \o q, Len(p) + j)
      BY <3>1, <1>2, <1>4
    <3> QED BY <3>1, <3>2, <1>0, <1>0a
  <2> QED BY <2>1, <2>2, <2>3
<1> QED BY <1>6

LEMMA ReplayConcat ==
    ASSUME NEW base, NEW p \in Seq(Mutations), NEW q \in Seq(Mutations)
    PROVE  Replay(base, p \o q) = Replay(Replay(base, p), q)
BY TouchedConcat, AddedConcat DEF Replay

(* What a change of the index does to the rows with the key, it buffers or  *)
(* applies.                                                                 *)
LEMMA EntryType ==
    ASSUME NEW row \in Nat, NEW kind
    PROVE  Entry(row, kind, TRUE) \in Seq(Mutations) /\ Entry(row, kind, FALSE) \in Seq(Mutations)
<1>1. ASSUME NEW m \in Mutations PROVE <<m>> \in Seq(Mutations)
  OBVIOUS
<1>2. [row |-> row, add |-> TRUE] \in Mutations /\ [row |-> row, add |-> FALSE] \in Mutations
  BY DEF Mutations
<1>3. <<>> \in Seq(Mutations)
  OBVIOUS
<1> QED BY <1>1, <1>2, <1>3 DEF Entry

LEMMA ReplayOne ==
    ASSUME NEW base, NEW m
    PROVE  /\ m.add => Replay(base, <<m>>) = base \cup {m.row}
           /\ ~m.add => Replay(base, <<m>>) = base \ {m.row}
<1> DEFINE log == <<m>>
<1>1. DOMAIN log = {1} /\ log[1] = m
  OBVIOUS
<1> HIDE DEF log
<1>2. Touched(log) = {m.row}
  BY <1>1 DEF Touched
<1>3. Added(log) = IF m.add THEN {m.row} ELSE {}
  BY <1>1 DEF Added
<1>4. /\ m.add => Replay(base, log) = base \cup {m.row}
      /\ ~m.add => Replay(base, log) = base \ {m.row}
  BY <1>2, <1>3 DEF Replay
<1> QED BY <1>4 DEF log

LEMMA ReplayEntry ==
    ASSUME NEW base, NEW row, NEW kind
    PROVE  /\ Replay(base, Entry(row, kind, TRUE)) =
                  IF kind = "keyed" THEN base \cup {row} ELSE base
           /\ Replay(base, Entry(row, kind, FALSE)) =
                  IF kind = "keyed" THEN base \ {row} ELSE base
<1>1. Replay(base, <<[row |-> row, add |-> TRUE]>>) = base \cup {row}
  <2> DEFINE m == [row |-> row, add |-> TRUE]
  <2>1. m.add /\ m.row = row
    OBVIOUS
  <2> HIDE DEF m
  <2>2. Replay(base, <<m>>) = base \cup {row}
    BY <2>1, ReplayOne
  <2> QED BY <2>2 DEF m
<1>2. Replay(base, <<[row |-> row, add |-> FALSE]>>) = base \ {row}
  <2> DEFINE m == [row |-> row, add |-> FALSE]
  <2>1. ~m.add /\ m.row = row
    OBVIOUS
  <2> HIDE DEF m
  <2>2. Replay(base, <<m>>) = base \ {row}
    BY <2>1, ReplayOne
  <2> QED BY <2>2 DEF m
<1> QED BY <1>1, <1>2, ReplayNothing DEF Entry

LEMMA ChangeMutates ==
    ASSUME TypeOK, ChangeIndex
    PROVE  \E muts \in Seq(Mutations) :
               Mutate(muts) /\ Replay(Extract(rows), muts) = Extract(rows')
<1> USE DEF TypeOK
<1>1. Len(rows) + 1 \in Nat /\ DOMAIN rows \subseteq Nat
  OBVIOUS
<1>2. ASSUME NEW kind \in Kinds, InsertNew(kind) PROVE
        \E muts \in Seq(Mutations) :
               Mutate(muts) /\ Replay(Extract(rows), muts) = Extract(rows')
  <2> DEFINE muts == Entry(Len(rows) + 1, kind, TRUE)
  <2>1. muts \in Seq(Mutations) /\ Mutate(muts)
    BY <1>1, <1>2, EntryType DEF InsertNew
  <2>2. Extract(rows') = IF kind = "keyed" THEN Extract(rows) \cup {Len(rows) + 1} ELSE Extract(rows)
    BY <1>2 DEF InsertNew, Extract, Kinds, Rows
  <2>3. Replay(Extract(rows), muts) =
            IF kind = "keyed" THEN Extract(rows) \cup {Len(rows) + 1} ELSE Extract(rows)
    BY ReplayEntry, Zenon
  <2> QED BY <2>1, <2>2, <2>3
<1>3. ASSUME NEW row \in DOMAIN rows, RemovePath(row) PROVE
        \E muts \in Seq(Mutations) :
               Mutate(muts) /\ Replay(Extract(rows), muts) = Extract(rows')
  <2> DEFINE muts == Entry(row, rows[row], FALSE)
  <2>1. muts \in Seq(Mutations) /\ Mutate(muts)
    BY <1>1, <1>3, EntryType DEF RemovePath
  <2>2. Extract(rows') = IF rows[row] = "keyed" THEN Extract(rows) \ {row} ELSE Extract(rows)
    BY <1>3 DEF RemovePath, Extract
  <2>3. Replay(Extract(rows), muts) =
            IF rows[row] = "keyed" THEN Extract(rows) \ {row} ELSE Extract(rows)
    BY ReplayEntry, Zenon
  <2> QED BY <2>1, <2>2, <2>3
<1>4. ASSUME NEW row \in DOMAIN rows, NEW kind \in Kinds, InsertOver(row, kind) PROVE
        \E muts \in Seq(Mutations) :
               Mutate(muts) /\ Replay(Extract(rows), muts) = Extract(rows')
  <2> DEFINE base == IF rows[row] = "keyed" THEN Extract(rows) \ {row} ELSE Extract(rows)
  <2>1. row \in Nat /\ Len(rows) + 1 \in Nat
    BY <1>1
  <2>2. Replay(Extract(rows), Entry(row, rows[row], FALSE)) = base
    BY ReplayEntry
  <2>3. CASE /\ rows' = [rows EXCEPT ![row] = kind]
             /\ Mutate(Entry(row, rows[row], FALSE) \o Entry(row, kind, TRUE))
    <3> DEFINE old == Entry(row, rows[row], FALSE)
               new == Entry(row, kind, TRUE)
    <3>1. old \in Seq(Mutations) /\ new \in Seq(Mutations)
      BY <2>1, EntryType, Zenon
    <3>2. Replay(base, new) = IF kind = "keyed" THEN base \cup {row} ELSE base
      BY ReplayEntry, Zenon
    <3>3. Extract(rows') = IF kind = "keyed" THEN base \cup {row} ELSE base
      BY <2>3 DEF Extract, Kinds, Rows
    <3>4. Mutate(old \o new) /\ Replay(Extract(rows), old) = base
      BY <2>3, <2>2
    <3> HIDE DEF old, new, base
    <3>5. old \o new \in Seq(Mutations)
      BY <3>1
    <3>6. Replay(Extract(rows), old \o new) = Extract(rows')
      BY <3>1, <3>2, <3>3, <3>4, ReplayConcat
    <3> QED BY <3>4, <3>5, <3>6
  <2>4. CASE /\ rows' = Append([rows EXCEPT ![row] = "dead"], kind)
             /\ Mutate(Entry(row, rows[row], FALSE) \o Entry(Len(rows) + 1, kind, TRUE))
    <3> DEFINE old == Entry(row, rows[row], FALSE)
               new == Entry(Len(rows) + 1, kind, TRUE)
    <3>1. old \in Seq(Mutations) /\ new \in Seq(Mutations)
      BY <2>1, EntryType, Zenon
    <3>2. Replay(base, new) = IF kind = "keyed" THEN base \cup {Len(rows) + 1} ELSE base
      <4> HIDE DEF base
      <4> QED BY ReplayEntry, Zenon
    <3>3. Extract(rows') = IF kind = "keyed" THEN base \cup {Len(rows) + 1} ELSE base
      BY <2>4 DEF Extract, Kinds, Rows
    <3>4. Mutate(old \o new) /\ Replay(Extract(rows), old) = base
      BY <2>4, <2>2
    <3> HIDE DEF old, new, base
    <3>5. old \o new \in Seq(Mutations)
      BY <3>1
    <3>6. Replay(Extract(rows), old \o new) = Extract(rows')
      BY <3>1, <3>2, <3>3, <3>4, ReplayConcat
    <3> QED BY <3>4, <3>5, <3>6
  <2> QED BY <1>4, <2>3, <2>4 DEF InsertOver
<1> QED BY <1>2, <1>3, <1>4 DEF ChangeIndex

-----------------------------------------------------------------------------
LEMMA ReplayType ==
    ASSUME NEW base, base \subseteq Nat, NEW log \in Seq(Mutations)
    PROVE  Replay(base, log) \subseteq Nat
<1>1. ASSUME NEW i \in DOMAIN log PROVE log[i].row \in Nat
  <2>1. log[i] \in Mutations
    OBVIOUS
  <2> QED BY <2>1 DEF Mutations
<1> QED BY <1>1 DEF Replay, Added

LEMMA LayoutType ==
    ASSUME NEW layout \in Layouts
    PROVE  layout \in Seq(Rows) /\ Extract(layout) \subseteq Nat
<1>1. PICK n \in 0..MaxRows : layout \in [1..n -> Rows]
  BY DEF Layouts
<1>2. n \in Nat
  BY BoundsAssumption
<1> QED BY <1>1, <1>2 DEF Extract

LEMMA TypeInit == Init => TypeOK
<1> SUFFICES ASSUME Init PROVE TypeOK
  OBVIOUS
<1>1. rows \in Seq(Rows) /\ pending \in Seq(Mutations)
  BY DEF Init
<1>2. tickets \in [Callers -> SUBSET Tickets]
  BY DEF Init
<1>3. /\ postings \subseteq Nat /\ task \subseteq Tickets /\ generation \in Nat
      /\ alive \in {"yes", "retiring", "no"}
  BY DEF Init
<1>4. ready \in BOOLEAN /\ building \in BOOLEAN /\ stale \in BOOLEAN /\ mixed \in BOOLEAN
  BY DEF Init
<1> QED BY <1>1, <1>2, <1>3, <1>4 DEF TypeOK

LEMMA ChangeTyped ==
    ASSUME TypeOK, ChangeIndex
    PROVE  rows' \in Seq(Rows)
<1>0. "dead" \in Rows /\ Kinds \subseteq Rows
  BY DEF Rows
<1>1. rows \in Seq(Rows)
  BY DEF TypeOK
<1>2. ASSUME NEW row \in DOMAIN rows, NEW kind \in Rows
      PROVE  [rows EXCEPT ![row] = kind] \in Seq(Rows)
  BY <1>1
<1>3. ASSUME NEW kind \in Kinds, InsertNew(kind) PROVE rows' \in Seq(Rows)
  BY <1>0, <1>1, <1>3 DEF InsertNew
<1>4. ASSUME NEW row \in DOMAIN rows, RemovePath(row) PROVE rows' \in Seq(Rows)
  BY <1>0, <1>2, <1>4 DEF RemovePath
<1>5. ASSUME NEW row \in DOMAIN rows, NEW kind \in Kinds, InsertOver(row, kind)
      PROVE  rows' \in Seq(Rows)
  <2>1. [rows EXCEPT ![row] = kind] \in Seq(Rows)
    BY <1>0, <1>2
  <2> DEFINE dead == [rows EXCEPT ![row] = "dead"]
  <2>2. dead \in Seq(Rows)
    BY <1>0, <1>2
  <2>3. rows' = [rows EXCEPT ![row] = kind] \/ rows' = Append(dead, kind)
    BY <1>5 DEF InsertOver
  <2> HIDE DEF dead
  <2>4. Append(dead, kind) \in Seq(Rows)
    BY <1>0, <2>2
  <2> QED BY <2>1, <2>3, <2>4
<1> QED BY <1>3, <1>4, <1>5 DEF ChangeIndex

LEMMA AbortType ==
    ASSUME TypeOK, NEW compacted \in BOOLEAN, Abort(compacted)
    PROVE  /\ postings' \subseteq Nat /\ pending' \in Seq(Mutations)
           /\ ready' \in BOOLEAN /\ building' \in BOOLEAN /\ stale' \in BOOLEAN /\ mixed' \in BOOLEAN
<1>1. postings' \subseteq Nat
  BY ReplayType DEF Abort, TypeOK
<1>2. pending' \in Seq(Mutations)
  BY DEF Abort
<1> QED BY <1>1, <1>2 DEF Abort, TypeOK

LEMMA TypeStep ==
    ASSUME TypeOK, [Next]_vars
    PROVE  TypeOK'
<1> USE DEF TypeOK
<1>1. CASE ChangeIndex
  <2>1. PICK muts \in Seq(Mutations) : Mutate(muts)
    BY <1>1, ChangeMutates
  <2>2. postings' \subseteq Nat /\ pending' \in Seq(Mutations)
    <3>1. CASE building
      <4>1. pending' = pending \o muts /\ postings' = postings
        BY <2>1, <3>1 DEF Mutate
      <4>2. pending \o muts \in Seq(Mutations)
        OBVIOUS
      <4> QED BY <4>1, <4>2
    <3>2. CASE ~building
      BY <2>1, <3>2, ReplayType DEF Mutate
    <3> QED BY <3>1, <3>2
  <2>3. rows' \in Seq(Rows)
    BY <1>1, ChangeTyped
  <2> QED BY <1>1, <2>2, <2>3 DEF ChangeIndex, flags, history
<1>2. ASSUME NEW c \in Callers, NEW layout \in Layouts, Rebuild(c, layout) PROVE TypeOK'
  <2>1. [gen |-> generation + 1, rows |-> Extract(layout)] \in Tickets
    BY LayoutType DEF Tickets
  <2>2. rows' \in Seq(Rows) /\ generation' \in Nat
    BY <1>2, LayoutType DEF Rebuild
  <2>3. tickets' \in [Callers -> SUBSET Tickets]
    BY <1>2, <2>1 DEF Rebuild
  <2>4. ready' \in BOOLEAN /\ building' \in BOOLEAN /\ stale' \in BOOLEAN /\ mixed' \in BOOLEAN
    BY <1>2 DEF Rebuild
  <2> QED BY <1>2, <2>2, <2>3, <2>4 DEF Rebuild
<1>3. ASSUME NEW c \in Callers, NEW layout \in Layouts, RebuildFails(c, layout) PROVE TypeOK'
  <2>1. rows' \in Seq(Rows) /\ generation' \in Nat
    BY <1>3, LayoutType DEF RebuildFails
  <2>2. Abort(TRUE)
    BY <1>3 DEF RebuildFails
  <2> QED BY <1>3, <2>1, <2>2, AbortType DEF RebuildFails
<1>4. ASSUME NEW c \in Callers, SubmitBuild(c) PROVE TypeOK'
  BY <1>4 DEF SubmitBuild, flags, history
<1>5. ASSUME NEW t \in task, BuildFromPostings(t) PROVE TypeOK'
  <2>1. t.rows \subseteq Nat
    BY DEF Tickets
  <2>2. CASE Fresh(t)
    <3>1. postings' \subseteq Nat /\ pending' \in Seq(Mutations)
      BY <1>5, <2>1, <2>2, ReplayType DEF BuildFromPostings
    <3>2. ready' \in BOOLEAN /\ building' \in BOOLEAN /\ stale' \in BOOLEAN /\ mixed' \in BOOLEAN
      BY <1>5, <2>2 DEF BuildFromPostings
    <3> QED BY <1>5, <3>1, <3>2 DEF BuildFromPostings
  <2>3. CASE ~Fresh(t)
    BY <1>5, <2>3 DEF BuildFromPostings, flags, history
  <2> QED BY <2>2, <2>3
<1>6. ASSUME NEW t \in task, BuildThrows(t) PROVE TypeOK'
  <2>1. CASE Abort(FALSE)
    BY <1>6, <2>1, AbortType DEF BuildThrows
  <2>2. CASE UNCHANGED <<postings, pending, flags, history>>
    BY <1>6, <2>2 DEF BuildThrows, flags, history
  <2> QED BY <1>6, <2>1, <2>2 DEF BuildThrows
<1>7. CASE Clear
  <2>1. rows' \in Seq(Rows) /\ pending' \in Seq(Mutations) /\ generation' \in Nat
    BY <1>7 DEF Clear
  <2> QED BY <1>7, <2>1 DEF Clear
<1>8. CASE RetireInFlightBuild
  BY <1>8 DEF RetireInFlightBuild, flags, history
<1>9. CASE UNCHANGED vars
  BY <1>9 DEF vars, flags, history
<1> QED BY <1>1, <1>2, <1>3, <1>4, <1>5, <1>6, <1>7, <1>8, <1>9
        DEF Next, RebuildPathBuffer, RecomputeAllPaths, Compact

(* Every variable keeps its type: postings and buffer hold row numbers,     *)
(* whatever rows compactions and mutations name.                            *)
THEOREM TypeCorrect == Spec => []TypeOK
BY TypeInit, TypeStep, PTL DEF Spec

-----------------------------------------------------------------------------
BInv == Bounded /\ OnlyWhileBuilding /\ OnlyOne

LEMMA BuildsStep ==
    ASSUME TypeOK, BInv, [Next]_vars
    PROVE  BInv'
<1> USE DEF TypeOK, BInv, Bounded, OnlyWhileBuilding, OnlyOne, Outstanding, Current, Tickets
<1>1. CASE ChangeIndex
  BY <1>1 DEF ChangeIndex, flags
<1>2. ASSUME NEW c \in Callers, NEW layout \in Layouts, Rebuild(c, layout) PROVE BInv'
  <2>1. \A d \in Callers : tickets'[d] =
          IF d = c THEN {[gen |-> generation + 1, rows |-> Extract(layout)]} ELSE tickets[d]
    BY <1>2 DEF Rebuild
  <2>2. task' = task /\ generation' = generation + 1 /\ building' = TRUE
    BY <1>2 DEF Rebuild
  <2>3. \A t : Outstanding(t) => t.gen <= generation /\ t.gen \in Nat
    OBVIOUS
  <2>4. Bounded'
    BY <2>1, <2>2, <2>3
  <2>5. OnlyOne'
    BY <2>1, <2>2, <2>3
  <2> QED BY <2>2, <2>4, <2>5
<1>3. ASSUME NEW c \in Callers, NEW layout \in Layouts, RebuildFails(c, layout) PROVE BInv'
  <2>1. task' = task /\ tickets' = tickets /\ generation' = generation + 1
    BY <1>3 DEF RebuildFails
  <2>2. \A t : Outstanding(t) => t.gen <= generation /\ t.gen \in Nat
    OBVIOUS
  <2>3. \A t : ~(Outstanding(t)' /\ Current(t)')
    BY <2>1, <2>2
  <2> QED BY <2>1, <2>2, <2>3
<1>4. ASSUME NEW c \in Callers, SubmitBuild(c) PROVE BInv'
  <2>1. \A d \in Callers : tickets'[d] = IF d = c THEN {} ELSE tickets[d]
    BY <1>4 DEF SubmitBuild
  <2>2. /\ task' = {t \in tickets[c] : t.gen = generation} /\ generation' = generation
        /\ building' = building
    BY <1>4 DEF SubmitBuild, flags
  <2> QED BY <2>1, <2>2
<1>5. ASSUME NEW t \in task, BuildFromPostings(t) \/ BuildThrows(t) PROVE BInv'
  <2>1. task' = {} /\ UNCHANGED <<tickets, generation>>
    BY <1>5 DEF BuildFromPostings, BuildThrows
  <2>2. CASE Current(t)
    <3>1. \A u : ~(Outstanding(u)' /\ Current(u)')
      BY <2>1, <2>2
    <3> QED BY <2>1, <3>1
  <2>3. CASE ~Current(t)
    <3>1. building' = building
      BY <1>5, <2>3 DEF BuildFromPostings, BuildThrows, Fresh, flags
    <3> QED BY <2>1, <3>1
  <2> QED BY <2>2, <2>3
<1>6. CASE Clear
  BY <1>6 DEF Clear
<1>7. CASE RetireInFlightBuild
  BY <1>7 DEF RetireInFlightBuild, flags
<1>8. CASE UNCHANGED vars
  BY <1>8 DEF vars, flags
<1> QED BY <1>1, <1>2, <1>3, <1>4, <1>5, <1>6, <1>7, <1>8
        DEF Next, RebuildPathBuffer, RecomputeAllPaths, Compact

-----------------------------------------------------------------------------
LEMMA ExactStep ==
    ASSUME IInv, [Next]_vars
    PROVE  WillBeExact' /\ Flags' /\ Exact'
<1> USE DEF IInv
<1> USE DEF TypeOK, WillBeExact, Flags, Exact, Outstanding, Current, Tickets
<1>1. CASE ChangeIndex
  <2>1. PICK muts \in Seq(Mutations) :
            Mutate(muts) /\ Replay(Extract(rows), muts) = Extract(rows')
    BY <1>1, ChangeMutates
  <2>2. UNCHANGED <<generation, ready, building, tickets, task, stale, mixed>>
    BY <1>1 DEF ChangeIndex, flags, history
  <2>3. CASE building
    <3>1. pending' = pending \o muts /\ postings' = postings
      BY <2>1, <2>3 DEF Mutate
    <3>2. \A base : Replay(base, pending') = Replay(Replay(base, pending), muts)
      BY <3>1, ReplayConcat
    <3> QED BY <2>1, <2>2, <2>3, <3>2
  <2>4. CASE ~building
    <3>1. pending' = pending /\ postings' = Replay(postings, muts)
      BY <2>1, <2>4 DEF Mutate
    <3> QED BY <2>1, <2>2, <2>4, <3>1 DEF OnlyWhileBuilding
  <2> QED BY <2>3, <2>4
<1>2. ASSUME NEW c \in Callers, NEW layout \in Layouts, Rebuild(c, layout)
      PROVE  WillBeExact' /\ Flags' /\ Exact'
  <2>1. \A d \in Callers : tickets'[d] =
          IF d = c THEN {[gen |-> generation + 1, rows |-> Extract(layout)]} ELSE tickets[d]
    BY <1>2 DEF Rebuild
  <2>2. /\ task' = task /\ generation' = generation + 1 /\ building' = TRUE /\ ready' = FALSE
        /\ rows' = layout /\ stale' = TRUE /\ pending' = pending
        /\ mixed' = (mixed \/ pending # <<>>)
    BY <1>2 DEF Rebuild
  <2>3. ASSUME NEW t, Outstanding(t)', Current(t)'
        PROVE  t = [gen |-> generation + 1, rows |-> Extract(layout)]
    BY <2>1, <2>2, <2>3 DEF Bounded
  <2>4. WillBeExact'
    <3> SUFFICES ASSUME ~mixed', NEW t, Outstanding(t)', Current(t)'
                 PROVE  Replay(t.rows, pending') = Extract(rows')
      OBVIOUS
    <3>1. pending' = <<>>
      BY <2>2
    <3>2. t.rows = Extract(rows')
      BY <2>2, <2>3
    <3> QED BY <3>1, <3>2, ReplayNothing
  <2> QED BY <2>2, <2>4
<1>3. ASSUME NEW c \in Callers, NEW layout \in Layouts, RebuildFails(c, layout)
      PROVE  WillBeExact' /\ Flags' /\ Exact'
  <2>1. /\ task' = task /\ tickets' = tickets /\ generation' = generation + 1
        /\ building' = FALSE /\ stale' = TRUE
    BY <1>3 DEF RebuildFails, Abort
  <2>2. \A t : ~(Outstanding(t)' /\ Current(t)')
    BY <2>1 DEF Bounded
  <2> QED BY <2>1, <2>2
<1>4. ASSUME NEW c \in Callers, SubmitBuild(c) PROVE WillBeExact' /\ Flags' /\ Exact'
  <2>1. \A d \in Callers : tickets'[d] = IF d = c THEN {} ELSE tickets[d]
    BY <1>4 DEF SubmitBuild
  <2>2. /\ task' = {t \in tickets[c] : t.gen = generation}
        /\ UNCHANGED <<rows, postings, pending, generation, ready, building, stale, mixed>>
    BY <1>4 DEF SubmitBuild, flags, history
  <2>3. \A t : Outstanding(t)' => Outstanding(t)
    BY <2>1, <2>2
  <2> QED BY <2>2, <2>3
<1>5. ASSUME NEW t \in task, BuildFromPostings(t) PROVE WillBeExact' /\ Flags' /\ Exact'
  <2>1. /\ task' = {} /\ UNCHANGED <<rows, generation, tickets>>
    BY <1>5 DEF BuildFromPostings
  <2>2. CASE Fresh(t)
    <3>1. \A u : ~(Outstanding(u)' /\ Current(u)')
      BY <2>1, <2>2 DEF OnlyOne, Fresh
    <3>2. /\ postings' = Replay(t.rows, pending) /\ building' = FALSE /\ stale' = mixed
      BY <1>5, <2>2 DEF BuildFromPostings
    <3>3. ~mixed => Replay(t.rows, pending) = Extract(rows)
      BY <2>2 DEF Fresh
    <3> QED BY <2>1, <3>1, <3>2, <3>3
  <2>3. CASE ~Fresh(t)
    <3>1. UNCHANGED <<postings, pending, ready, building, stale, mixed>>
      BY <1>5, <2>3 DEF BuildFromPostings, flags, history
    <3> QED BY <2>1, <3>1
  <2> QED BY <2>2, <2>3
<1>6. ASSUME NEW t \in task, BuildThrows(t) PROVE WillBeExact' /\ Flags' /\ Exact'
  <2>1. /\ task' = {} /\ UNCHANGED <<rows, generation, tickets>>
    BY <1>6 DEF BuildThrows
  <2>2. CASE Current(t)
    <3>1. \A u : ~(Outstanding(u)' /\ Current(u)')
      BY <2>1, <2>2 DEF OnlyOne
    <3>2. building' = FALSE /\ stale' = TRUE
      BY <1>6, <2>2 DEF BuildThrows, Abort, OnlyWhileBuilding
    <3> QED BY <3>1, <3>2
  <2>3. CASE ~Current(t)
    <3>1. UNCHANGED <<postings, pending, ready, building, stale, mixed>>
      BY <1>6, <2>3 DEF BuildThrows, flags, history
    <3> QED BY <2>1, <3>1
  <2> QED BY <2>2, <2>3
<1>7. CASE Clear
  <2>1. /\ task' = task /\ tickets' = tickets /\ generation' = generation + 1
        /\ building' = FALSE /\ postings' = {} /\ rows' = <<>>
    BY <1>7 DEF Clear
  <2>2. \A t : ~(Outstanding(t)' /\ Current(t)')
    BY <2>1 DEF Bounded
  <2> QED BY <2>1, <2>2 DEF Extract
<1>8. CASE RetireInFlightBuild
  <2>1. UNCHANGED <<rows, postings, pending, ready, building, tickets, task, stale, mixed>>
    BY <1>8 DEF RetireInFlightBuild, flags, history
  <2>2. \A t : Outstanding(t)' /\ Current(t)' => Outstanding(t) /\ Current(t)
    BY <1>8, <2>1 DEF RetireInFlightBuild, Bounded
  <2> QED BY <2>1, <2>2
<1>9. CASE UNCHANGED vars
  BY <1>9 DEF vars, flags, history
<1> QED BY <1>1, <1>2, <1>3, <1>4, <1>5, <1>6, <1>7, <1>8, <1>9
        DEF Next, RebuildPathBuffer, RecomputeAllPaths, Compact

(* IndexBuildLifecycle.h:72 and CommitBuildIfFresh: postings that searches  *)
(* use are exactly the rows with the key, whatever was buffered, aborted,   *)
(* cleared or superseded, unless rows were compacted behind them.           *)
THEOREM PostingsExact == Spec => []ReadyMeansExact
<1>1. Init => IInv
  <2> SUFFICES ASSUME Init PROVE IInv
    OBVIOUS
  <2>1. TypeOK
    BY TypeInit
  <2>2. \A t : ~Outstanding(t)
    BY DEF Init, Outstanding
  <2>3. OnlyOne
    BY DEF Init, OnlyOne
  <2>4. Flags /\ Exact
    BY DEF Init, Flags, Exact, Extract
  <2> QED BY <2>1, <2>2, <2>3, <2>4 DEF IInv, Bounded, OnlyWhileBuilding, WillBeExact
<1>2. IInv /\ [Next]_vars => IInv'
  BY TypeStep, BuildsStep, ExactStep DEF IInv, BInv
<1>3. IInv => ReadyMeansExact
  BY DEF IInv, TypeOK, Flags, Exact, ReadyMeansExact
<1> QED BY <1>1, <1>2, <1>3, PTL DEF Spec
=============================================================================
