-------------------------- MODULE IndexOperations --------------------------
(***************************************************************************)
(* The tree of entries of FileIndex and what the live changes do to it:     *)
(* IndexOperations.cpp on FileIndexStorage and PathStorage, as operators    *)
(* from an index to the next one.  Each of them runs under the unique lock  *)
(* of the index; UsnIngest.tla has the threads.                             *)
(*                                                                         *)
(* An entry is named by its NTFS file reference, a record number of the     *)
(* MFT with the sequence number of its use.  Its path is kept with it: the  *)
(* names from the volume root ("rooted"), or, while its parent is unknown,  *)
(* a bare name that the arrival of the parent completes.                    *)
(*                                                                         *)
(* Left out: the guard for 8.3 aliases, attributes, sizes and times, the    *)
(* caches that only speed up, and the deferred insertion of the population. *)
(***************************************************************************)
EXTENDS Naturals, Sequences, FiniteSets, FiniteSetsExt

CONSTANTS
    Records,       \* MFT record numbers, without that of the root
    MaxParentWalk  \* parents that IsDescendantOf looks at

ASSUME RecordsAssumption == IsFiniteSet(Records) /\ 0 \notin Records
ASSUME WalkAssumption == MaxParentWalk \in Nat \ {0}

Root == [rec |-> 0, seq |-> 0]

(* entries: reference -> [parent, dir, rooted, names];                      *)
(* canonical: record_number_to_id_; awaiting: awaiting_parent_.             *)
EmptyIndex ==
    [entries |-> <<>>, canonical |-> <<>>, awaiting |-> [r \in Records |-> {}]]

Without(f, x) == [y \in DOMAIN f \ {x} |-> f[y]]
With(f, x, v) == [y \in DOMAIN f \cup {x} |-> IF y = x THEN v ELSE f[y]]

Nothing == [rec |-> 0, seq |-> 1]   \* no reference

(* The entry in use of the record comes first, then the exact reference.    *)
ResolveEntryReference(ix, ref) ==
    IF ref.rec \in DOMAIN ix.canonical /\ ix.canonical[ref.rec] \in DOMAIN ix.entries
    THEN ix.canonical[ref.rec]
    ELSE IF ref \in DOMAIN ix.entries THEN ref ELSE Nothing

ForgetsUnknown(ix, ref) ==   \* mutant of ResolveParent
    IF ref = Root THEN ref ELSE ResolveEntryReference(ix, ref)

ResolveParent(ix, ref) ==
    LET found == ResolveEntryReference(ix, ref)
    IN IF ref = Root \/ found = Nothing THEN ref ELSE found

Leaf(entry) == entry.names[Len(entry.names)]

(* The path of a name below a parent: a bare name when that is unknown.     *)
PathBelow(ix, parent, name) ==
    IF parent \in DOMAIN ix.entries
    THEN [rooted |-> ix.entries[parent].rooted, names |-> Append(ix.entries[parent].names, name)]
    ELSE [rooted |-> parent = Root, names |-> <<name>>]

SetPath(ix, id, path) ==
    [ix EXCEPT !.entries[id].rooted = path.rooted, !.entries[id].names = path.names]

PathOf(ix, id) == [rooted |-> ix.entries[id].rooted, names |-> ix.entries[id].names]

-----------------------------------------------------------------------------
(* The entries that wait for a record number to get a path.                 *)
AwaitParent(ix, parent, id) ==
    IF parent = Root THEN ix ELSE [ix EXCEPT !.awaiting[parent.rec] = @ \cup {id}]

ForgetUnresolved(ix, parent, id) ==
    IF parent = Root THEN ix ELSE [ix EXCEPT !.awaiting[parent.rec] = @ \ {id}]

IsAwaitingChild(ix, id) ==
    /\ ix.entries[id].parent # Root
    /\ id \in ix.awaiting[ix.entries[id].parent.rec]

(* The walk up the parents, by record numbers: the chain may hold old       *)
(* sequences.  The entries from which so many steps meet the ancestor.      *)
IsDescendantOf(ix, id, ancestor) ==
    LET meets[steps \in Nat] ==
          IF steps = 0 THEN {}
          ELSE LET closer == meets[steps - 1] IN
               {e \in DOMAIN ix.entries :
                   \/ ix.entries[e].parent.rec = ancestor.rec
                   \/ ResolveEntryReference(ix, ix.entries[e].parent) \in closer}
    IN id \in meets[MaxParentWalk]

(* SyncHealedChildSubtree: the entry gets its new path, and what lies below *)
(* it with the old path as a prefix moves along.                            *)
ForgetsSubtree(ix, id, new) == SetPath(ix, id, new)   \* mutant of MoveSubtree

MoveSubtree(ix, id, new) ==
    LET old == PathOf(ix, id)
        depth == Len(old.names)
        Below(e) == /\ ix.entries[e].rooted = old.rooted
                    /\ Len(ix.entries[e].names) > depth
                    /\ SubSeq(ix.entries[e].names, 1, depth) = old.names
                    /\ IsDescendantOf(ix, e, id)
        Shifted(e) == new.names \o SubSeq(ix.entries[e].names, depth + 1, Len(ix.entries[e].names))
    IN [ix EXCEPT !.entries = [e \in DOMAIN ix.entries |->
            IF e = id
            THEN [ix.entries[e] EXCEPT !.rooted = new.rooted, !.names = new.names]
            ELSE IF ix.entries[id].dir /\ Below(e)
            THEN [ix.entries[e] EXCEPT !.rooted = new.rooted, !.names = Shifted(e)]
            ELSE ix.entries[e]]]

(* HealAwaiting: the children that waited for the record and still have it  *)
(* as their parent get their path, then those that waited for them.         *)
Heals(ix, parent) ==
    {c \in ix.awaiting[parent.rec] :
        c \in DOMAIN ix.entries /\ ix.entries[c].parent.rec = parent.rec}

HealChildren(parent, ix) ==
    LET Heal(c, i) == MoveSubtree(i, c, PathBelow(i, parent, Leaf(i.entries[c])))
    IN FoldSet(Heal, [ix EXCEPT !.awaiting[parent.rec] = {}], Heals(ix, parent))

NeverHeals(ix, id) == ix   \* mutant of HealAwaiting

HealAwaiting(ix, id) ==
    LET after[level \in Nat] ==
          IF level = 0 THEN [ix |-> ix, queue |-> {id}]
          ELSE LET before == after[level - 1]
               IN [ix |-> FoldSet(HealChildren, before.ix, before.queue),
                   queue |-> UNION {Heals(before.ix, p) : p \in before.queue}]
    IN after[Cardinality(DOMAIN ix.entries)].ix

-----------------------------------------------------------------------------
(* Insert of a live change.  A record number already in use by an entry of  *)
(* the same kind keeps that entry and its reference.                        *)
InsertTarget(ix, id, dir) ==
    LET found == ResolveEntryReference(ix, id)
    IN IF id \notin DOMAIN ix.entries /\ found # Nothing /\ ix.entries[found].dir = dir
       THEN found ELSE id

Insert(ix, id, parentRef, name, dir) ==
    LET target == InsertTarget(ix, id, dir)
        existed == target \in DOMAIN ix.entries
        parent == ResolveParent(ix, parentRef)
        path == PathBelow(ix, parent, name)
        stored == [ix EXCEPT
            !.entries = With(@, target,
                [parent |-> parent, dir |-> dir, rooted |-> path.rooted, names |-> path.names]),
            !.canonical = With(@, target.rec, target)]
        placed == IF parent # Root /\ parent \notin DOMAIN ix.entries
                  THEN AwaitParent(stored, parent, target)
                  ELSE ForgetUnresolved(stored, parent, target)
        left == IF existed /\ ix.entries[target].parent.rec # parent.rec
                THEN ForgetUnresolved(placed, ix.entries[target].parent, target)
                ELSE placed
    IN HealAwaiting(left, target)

(* Remove looks for the exact reference only.                               *)
KeepsWaiting(ix, id) ==   \* mutant of Remove
    IF id \notin DOMAIN ix.entries THEN ix
    ELSE [ix EXCEPT !.entries = Without(@, id)]

Remove(ix, id) ==
    IF id \notin DOMAIN ix.entries THEN ix
    ELSE LET forgotten == ForgetUnresolved(ix, ix.entries[id].parent, id)
         IN [forgotten EXCEPT
                !.awaiting[id.rec] = {},
                !.entries = Without(@, id),
                !.canonical = IF id.rec \in DOMAIN @ /\ @[id.rec] = id
                              THEN Without(@, id.rec) ELSE @]

(* A bare name stays bare while it waits, so that the parent completes it.  *)
Rename(ix, id, name) ==
    LET old == PathOf(ix, id)
        bare == ~old.rooted /\ Len(old.names) = 1
        renamed == Append(SubSeq(old.names, 1, Len(old.names) - 1), name)
    IN MoveSubtree(ix, id,
         [rooted |-> old.rooted \/ (bare /\ ~IsAwaitingChild(ix, id)), names |-> renamed])

MoveForgetsParent(ix, id, parentRef) ==   \* mutant of Move
    MoveSubtree(ix, id, PathBelow(ix, ResolveParent(ix, parentRef), Leaf(ix.entries[id])))

Move(ix, id, parentRef) ==
    LET parent == ResolveParent(ix, parentRef)
        old == ix.entries[id].parent
        path == PathBelow(ix, parent, Leaf(ix.entries[id]))
        moved == [ix EXCEPT !.entries[id].parent = parent]
        left == IF old.rec # parent.rec THEN ForgetUnresolved(moved, old, id) ELSE moved
        placed == IF parent # Root /\ parent \notin DOMAIN ix.entries
                  THEN AwaitParent(left, parent, id)
                  ELSE ForgetUnresolved(left, parent, id)
    IN MoveSubtree(placed, id, path)
=============================================================================
