---------------------------- MODULE PostingIndex ----------------------------
(***************************************************************************)
(* The posting lists that speed up searches by extension and by trigram,    *)
(* and their rebuild in the background: IndexBuildLifecycle.h, which        *)
(* ExtensionIndex and FilenameTrigramIndex share, with the callers of       *)
(* FileIndex.cpp and IndexOperations.cpp.                                   *)
(*                                                                         *)
(* A posting list names rows of PathStorage.  Changes of the index append   *)
(* rows, mark rows as deleted, and change the postings with them; a         *)
(* compaction gives the rows new numbers, so that the postings have to be   *)
(* built anew.  This is done by a task of the pool from a snapshot taken    *)
(* under the index lock; what changes meanwhile is buffered and replayed.   *)
(*                                                                         *)
(* The model keeps the posting list of one key.  A row is "keyed" when its  *)
(* name has the key, "plain" when not, "dead" when deleted.                 *)
(***************************************************************************)
EXTENDS Naturals, Sequences

CONSTANTS
    Callers,   \* threads that compact: UI maintenance, population, crawl
    MaxRows,   \* bound: rows of the storage
    MaxGen,    \* bound: builds marked, clears and retirements
    MaxLog     \* bound: mutations buffered

ASSUME BoundsAssumption == MaxRows \in Nat /\ MaxGen \in Nat /\ MaxLog \in Nat

VARIABLES
    rows,        \* PathStorage: the state of every row
    postings,    \* posting_lists_ at the key: a set of row numbers
    pending,     \* pending_mutations_
    generation,  \* build_generation_
    ready,       \* is_ready_
    building,    \* is_building_
    tickets,     \* caller -> the tickets it has yet to submit, one at most
    task,        \* the build that runs in the pool, one at most
    alive,       \* "yes", "retiring" in the destructor, "no" after it
    stale,       \* history: the postings were not made for these rows
    mixed        \* history: pending holds mutations of rows compacted since

flags == <<ready, building>>
history == <<stale, mixed>>
vars == <<rows, postings, pending, generation, flags, tickets, task, alive, history>>

Kinds == {"keyed", "plain"}
Rows == Kinds \cup {"dead"}
Layouts == UNION {[1..n -> Rows] : n \in 0..MaxRows}
Mutations == [row : Nat, add : BOOLEAN]
Tickets == [gen : Nat, rows : SUBSET Nat]

(* What ExtractCombinedPostings finds at the key.                           *)
Extract(layout) == {r \in DOMAIN layout : layout[r] = "keyed"}

TypeOK ==
    /\ rows \in Seq(Rows)
    /\ postings \subseteq Nat
    /\ pending \in Seq(Mutations)
    /\ generation \in Nat
    /\ ready \in BOOLEAN /\ building \in BOOLEAN
    /\ tickets \in [Callers -> SUBSET Tickets]
    /\ task \subseteq Tickets
    /\ alive \in {"yes", "retiring", "no"}
    /\ stale \in BOOLEAN /\ mixed \in BOOLEAN

Init ==
    /\ rows = <<>> /\ postings = {} /\ pending = <<>>
    /\ generation = 0
    /\ ready = TRUE /\ building = FALSE
    /\ tickets = [c \in Callers |-> {}]
    /\ task = {}
    /\ alive = "yes"
    /\ stale = FALSE /\ mixed = FALSE

-----------------------------------------------------------------------------
(* ReplayPendingMutations: in the order of the buffer, so that the last     *)
(* mutation of a row decides.                                               *)
Touched(log) == {log[i].row : i \in DOMAIN log}

Added(log) ==
    {log[i].row : i \in {j \in DOMAIN log :
        log[j].add /\ \A k \in DOMAIN log : log[k].row = log[j].row => k <= j}}

ReplayUnordered(base, log) ==   \* mutant of Replay
    (base \cup {log[i].row : i \in {j \in DOMAIN log : log[j].add}})
        \ {log[i].row : i \in {j \in DOMAIN log : ~log[j].add}}

Replay(base, log) == (base \ Touched(log)) \cup Added(log)

(* AddEntry and RemoveEntry of several rows, oldest first: buffered while a *)
(* build is under way.                                                      *)
IgnoresBuild(muts) ==   \* mutant of Mutate
    /\ postings' = Replay(postings, muts)
    /\ UNCHANGED pending

Mutate(muts) ==
    IF building
    THEN /\ Len(pending) + Len(muts) <= MaxLog
         /\ pending' = pending \o muts
         /\ UNCHANGED postings
    ELSE /\ postings' = Replay(postings, muts)
         /\ UNCHANGED pending

Entry(row, kind, add) == IF kind = "keyed" THEN <<[row |-> row, add |-> add]>> ELSE <<>>

(* IndexOperations::InsertPath of an entry without a path.                  *)
InsertNew(kind) ==
    /\ Len(rows) < MaxRows
    /\ rows' = Append(rows, kind)
    /\ Mutate(Entry(Len(rows) + 1, kind, TRUE))

(* InsertPath of an entry that has one, after a rename or a move: a path of *)
(* the same length stays in its row, any other gets a new row.              *)
InsertOver(row, kind) ==
    /\ rows[row] # "dead"
    /\ \/ /\ rows' = [rows EXCEPT ![row] = kind]
          /\ Mutate(Entry(row, rows[row], FALSE) \o Entry(row, kind, TRUE))
       \/ /\ Len(rows) < MaxRows
          /\ rows' = Append([rows EXCEPT ![row] = "dead"], kind)
          /\ Mutate(Entry(row, rows[row], FALSE) \o Entry(Len(rows) + 1, kind, TRUE))

RemovePath(row) ==
    /\ rows[row] # "dead"
    /\ rows' = [rows EXCEPT ![row] = "dead"]
    /\ Mutate(Entry(row, rows[row], FALSE))

(* All of them run under the unique lock of the index, as compactions do.   *)
ChangeIndex ==
    /\ alive = "yes"
    /\ \/ \E kind \in Kinds : InsertNew(kind)
       \/ \E row \in DOMAIN rows, kind \in Kinds : InsertOver(row, kind)
       \/ \E row \in DOMAIN rows : RemovePath(row)
    /\ UNCHANGED <<generation, flags, tickets, task, alive, history>>

-----------------------------------------------------------------------------
(* RebuildPathBuffer keeps the live rows in their order.                    *)
Compacts(layout, source) ==
    /\ \A r \in DOMAIN layout : layout[r] = rows[source[r]] /\ layout[r] # "dead"
    /\ \A r, s \in DOMAIN layout : r < s => source[r] < source[s]
    /\ \A s \in DOMAIN rows : rows[s] # "dead" => \E r \in DOMAIN layout : source[r] = s

(* AbortBuild of the current generation: replay on what there is.  It is    *)
(* ready unless the whole map is empty: other keys may have postings.       *)
AbortForgetsFlag(compacted) ==   \* mutant of Abort
    /\ postings' = Replay(postings, pending)
    /\ pending' = <<>>
    /\ ready' \in {postings' # {}, TRUE}
    /\ stale' = (stale \/ mixed \/ compacted) /\ mixed' = FALSE
    /\ UNCHANGED building

Abort(compacted) ==
    /\ postings' = Replay(postings, pending)
    /\ pending' = <<>>
    /\ building' = FALSE
    /\ ready' \in {postings' # {}, TRUE}
    /\ stale' = (stale \/ mixed \/ compacted) /\ mixed' = FALSE

(* Under the index lock: new rows, MarkBuilding, and the snapshot, which is *)
(* the caller's ticket, unless the extraction runs out of memory.           *)
Rebuild(caller, layout) ==
    /\ alive = "yes" /\ tickets[caller] = {} /\ generation < MaxGen
    /\ rows' = layout
    /\ generation' = generation + 1
    /\ ready' = FALSE /\ building' = TRUE
    /\ tickets' = [tickets EXCEPT ![caller] = {[gen |-> generation', rows |-> Extract(layout)]}]
    /\ stale' = TRUE /\ mixed' = (mixed \/ pending # <<>>)
    /\ UNCHANGED <<postings, pending, task, alive>>

RebuildFails(caller, layout) ==
    /\ alive = "yes" /\ tickets[caller] = {} /\ generation < MaxGen
    /\ rows' = layout
    /\ generation' = generation + 1
    /\ Abort(TRUE)
    /\ UNCHANGED <<tickets, task, alive>>

Compact(caller, layout) == Rebuild(caller, layout) \/ RebuildFails(caller, layout)

RebuildPathBuffer(caller) ==
    /\ \E r \in DOMAIN rows : rows[r] = "dead"
    /\ \E layout \in Layouts : \E source \in [DOMAIN layout -> DOMAIN rows] :
          Compacts(layout, source) /\ Compact(caller, layout)

(* RecomputeAllPaths writes the rows in the order of the tree, without the  *)
(* orphans it prunes and with the entries that the population has staged.   *)
RecomputeAllPaths(caller) ==
    \E layout \in Layouts :
        (\A r \in DOMAIN layout : layout[r] # "dead") /\ Compact(caller, layout)

(* Outside of the lock the caller waits for the build before, and drops a   *)
(* ticket that was superseded meanwhile.  GetPoolSharedPtr always returns a *)
(* pool: the build on the thread of the caller is left out, and so is an    *)
(* Enqueue that throws, after which nobody would abort the build.           *)
NeverSubmits(caller) ==   \* mutant of SubmitBuild
    /\ task = {} /\ tickets[caller] # {}
    /\ tickets' = [tickets EXCEPT ![caller] = {}]
    /\ UNCHANGED <<rows, postings, pending, generation, flags, task, alive, history>>

SubmitBuild(caller) ==
    /\ task = {} /\ tickets[caller] # {}
    /\ task' = {t \in tickets[caller] : t.gen = generation}
    /\ tickets' = [tickets EXCEPT ![caller] = {}]
    /\ UNCHANGED <<rows, postings, pending, generation, flags, alive, history>>

-----------------------------------------------------------------------------
(* The task.                                                                *)
Current(t) == t.gen = generation

AnyBuild(t) == t.gen <= generation   \* mutant of Fresh

Fresh(t) == Current(t)

BuildFromPostings(t) ==
    /\ task' = {}
    /\ IF Fresh(t)
       THEN /\ postings' = Replay(t.rows, pending)
            /\ pending' = <<>>
            /\ building' = FALSE /\ ready' = TRUE
            /\ stale' = mixed /\ mixed' = FALSE
       ELSE UNCHANGED <<postings, pending, flags, history>>
    /\ UNCHANGED <<rows, generation, tickets, alive>>

BuildThrows(t) ==
    /\ task' = {}
    /\ IF Current(t) THEN Abort(FALSE) ELSE UNCHANGED <<postings, pending, flags, history>>
    /\ UNCHANGED <<rows, generation, tickets, alive>>

-----------------------------------------------------------------------------
(* FileIndex::Clear and FileIndexStorage::Clear.                            *)
Clear ==
    /\ alive = "yes" /\ generation < MaxGen
    /\ generation' = generation + 1
    /\ rows' = <<>> /\ postings' = {} /\ pending' = <<>>
    /\ building' = FALSE /\ ready' = TRUE
    /\ stale' = FALSE /\ mixed' = FALSE
    /\ UNCHANGED <<tickets, task, alive>>

(* The destructor: RetireInFlightBuild.  No call is under way then.         *)
RetireInFlightBuild ==
    /\ \/ /\ alive = "yes" /\ \A c \in Callers : tickets[c] = {}
          /\ alive' = "retiring" /\ generation' = generation + 1
       \/ alive = "retiring" /\ task = {} /\ alive' = "no" /\ UNCHANGED generation
    /\ UNCHANGED <<rows, postings, pending, flags, tickets, task, history>>

Next ==
    \/ ChangeIndex
    \/ \E c \in Callers : RebuildPathBuffer(c) \/ RecomputeAllPaths(c) \/ SubmitBuild(c)
    \/ \E t \in task : BuildFromPostings(t) \/ BuildThrows(t)
    \/ Clear \/ RetireInFlightBuild

(* Calls go on and pool tasks are run; nothing makes the index change.      *)
Fairness ==
    /\ \A c \in Callers : WF_vars(SubmitBuild(c))
    /\ WF_vars(\E t \in task : BuildFromPostings(t) \/ BuildThrows(t))

Spec == Init /\ [][Next]_vars /\ Fairness

-----------------------------------------------------------------------------
(* IndexBuildLifecycle.h:72: a mutation has the same effect on the postings *)
(* whether it came live or was buffered, and no superseded build commits:   *)
(* whenever searches use the postings, these are exactly the rows that have *)
(* the key, unless the rows were compacted behind them (see the findings).  *)
ReadyMeansExact == ready /\ ~stale => postings = Extract(rows)

(* A build is superseded, committed or aborted: the buffer of mutations     *)
(* does not grow for ever.                                                  *)
BuildSettles == building ~> ~building \/ alive # "yes"

(* FileIndex.cpp:953: when the extraction fails, searches fall back to the  *)
(* scan.  Postings that are ready are those of the rows.                    *)
ReadyIsExact == ready => postings = Extract(rows)
=============================================================================
