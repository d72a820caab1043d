---------------------------- MODULE FolderCrawler ----------------------------
(***************************************************************************)
(* FolderCrawler (src/src/crawler/FolderCrawler.cpp) and the thread of      *)
(* FolderCrawlerIndexBuilder that runs it: worker threads list the          *)
(* directories of a tree, push the subdirectories they find on their own    *)
(* deque, steal from each other, and hand the entries in batches to         *)
(* FileIndex::InsertPaths; the thread in Crawl polls two atomic counters    *)
(* to learn that nothing is left.                                           *)
(*                                                                         *)
(* Every access to a counter or a flag, and every section under a mutex, is *)
(* an action.  The waits on the condition variables all have a timeout,     *)
(* so they only delay.  So does a try_lock that fails.  A deque is a set:   *)
(* nothing here depends on which of its directories is taken first.         *)
(* total_queued_ is unsigned in the code and may pass below zero for a      *)
(* moment; it is only compared with zero, so an integer stands for it.      *)
(***************************************************************************)
EXTENDS Integers, FiniteSets

CONSTANTS
    Workers,     \* the threads of worker_threads_
    First,       \* worker 0, whose deque is seeded
    Dirs,        \* the directories of the tree
    Files,       \* the other entries, symbolic links excepted
    Root,        \* the folder that is crawled
    Parent,      \* the directory of an entry
    BatchSize,   \* config_.batch_size
    MaxFaults    \* bound: listings, insertions and allocations that fail

Nodes == Dirs \cup Files

ASSUME WorkersAssumption == IsFiniteSet(Workers) /\ First \in Workers
ASSUME TreeAssumption ==
    /\ IsFiniteSet(Dirs) /\ IsFiniteSet(Files)
    /\ Dirs \cap Files = {}
    /\ Root \in Dirs
    /\ Parent \in [Nodes \ {Root} -> Dirs]
ASSUME BoundsAssumption == BatchSize \in Nat \ {0} /\ MaxFaults \in Nat

Children(d) == {n \in Nodes \ {Root} : Parent[n] = d}

VARIABLES
    \* shared
    wq_items, total_queued, active_workers, should_stop, cancel,
    errors, processed, index,
    \* locals of the workers: progress, directory, entries not processed yet,
    \* pending_subdirs, batch
    pc, dir, left, pending, batch,
    \* the builder's thread, the value it read of the cancel flag, the state it
    \* reports
    crawl, cancelled, build,
    \* history: directories taken from a deque, entries put in a batch, whether
    \* a worker died with its slot
    taken, seen, slot_lost

queueVars  == <<wq_items, taken>>
workerVars == <<dir, left, pending, batch, seen>>
crawlVars  == <<crawl, cancelled, build>>
vars == <<queueVars, total_queued, active_workers, should_stop, cancel, errors,
          processed, index, pc, workerVars, crawlVars, slot_lost>>

(* Progress of a worker that holds an active slot.                          *)
BusyPCs == {"took", "enumerate", "entries", "push", "count", "release", "give_up"}
Busy == {w \in Workers : pc[w] \in BusyPCs}

TypeOK ==
    /\ wq_items \in [Workers -> SUBSET Dirs]
    /\ taken \in SUBSET Dirs
    /\ total_queued \in Int
    /\ active_workers \in Int
    /\ should_stop \in BOOLEAN
    /\ cancel \in BOOLEAN
    /\ errors \in Nat
    /\ processed \in BOOLEAN
    /\ index \in [Nodes -> {"none", "placeholder", "entry"}]
    /\ pc \in [Workers -> BusyPCs \cup {"idle", "look", "flush", "exited"}]
    /\ dir \in [Workers -> Dirs]
    /\ left \in [Workers -> SUBSET Nodes]
    /\ pending \in [Workers -> SUBSET Dirs]
    /\ batch \in [Workers -> SUBSET Nodes]
    /\ seen \in SUBSET Nodes
    /\ crawl \in {"seed", "seed_count", "read_total", "read_active", "stop",
                  "read_cancel", "join", "finalize", "succeeded", "failed", "done"}
    /\ cancelled \in BOOLEAN
    /\ build \in [finalizing : BOOLEAN, outcome : {"none", "completed", "failed"}]
    /\ slot_lost \in BOOLEAN

Init ==
    /\ wq_items = [w \in Workers |-> {}] /\ taken = {}
    /\ total_queued = 0 /\ active_workers = 0
    /\ should_stop = FALSE /\ cancel = FALSE
    /\ errors = 0 /\ processed = FALSE
    /\ index = [n \in Nodes |-> "none"]
    /\ pc = [w \in Workers |-> "idle"]
    /\ dir = [w \in Workers |-> Root]
    /\ left = [w \in Workers |-> {}]
    /\ pending = [w \in Workers |-> {}]
    /\ batch = [w \in Workers |-> {}] /\ seen = {}
    /\ crawl = "seed" /\ cancelled = FALSE
    /\ build = [finalizing |-> FALSE, outcome |-> "none"]
    /\ slot_lost = FALSE

GoTo(w, label) == pc' = [pc EXCEPT ![w] = label]

-----------------------------------------------------------------------------
(* FileIndex::InsertPaths, under the lock of the index: the directory of an *)
(* entry is created with its ancestors when it is not known yet, and an     *)
(* entry that is already there keeps its row.                               *)


Above[n \in Nodes] == IF n = Root THEN {} ELSE {Parent[n]} \cup Above[Parent[n]]

InsertPaths(b) ==
    LET parents == UNION {Above[n] : n \in b}
    IN  index' = [n \in Nodes |->
            IF index[n] # "none" THEN index[n]
            ELSE IF n \in b THEN "entry"
            ELSE IF n \in parents THEN "placeholder" ELSE "none"]

(* FlushBatch and the catch clauses around it: an exception loses the rest  *)
(* of the batch and is counted.                                             *)
FlushBatch(b) ==
    \/ InsertPaths(b) /\ UNCHANGED errors
    \/ errors < MaxFaults /\ errors' = errors + 1 /\ UNCHANGED index

-----------------------------------------------------------------------------
(* WorkerThread.                                                            *)

ShouldStopWorker == cancel \/ should_stop

(* SignalStop is called by a worker that saw the cancellation.              *)
SignalStop == should_stop' = (should_stop \/ cancel)

CheckStop(w) ==
    /\ pc[w] = "idle"
    /\ IF ShouldStopWorker THEN GoTo(w, "flush") /\ SignalStop
                           ELSE GoTo(w, "look") /\ UNCHANGED should_stop
    /\ UNCHANGED <<queueVars, total_queued, active_workers, cancel, errors,
                   processed, index, workerVars, crawlVars, slot_lost>>

(* TryGetWork: the own deque first, then those of the others.               *)
Victims(w) == IF wq_items[w] # {} THEN {w} ELSE Workers \ {w}

LeavesOnDeque(w) ==   \* mutant of TryGetWork
    /\ pc[w] = "look"
    /\ \E v \in Victims(w) : \E d \in wq_items[v] :
        /\ wq_items' = IF v = w THEN [wq_items EXCEPT ![v] = @ \ {d}] ELSE wq_items
        /\ taken' = taken \cup {d}
        /\ dir' = [dir EXCEPT ![w] = d]
    /\ active_workers' = active_workers + 1
    /\ GoTo(w, "took")
    /\ UNCHANGED <<total_queued, should_stop, cancel, errors, processed, index,
                   left, pending, batch, seen, crawlVars, slot_lost>>

(* The item leaves the deque and active_workers_ is raised ...              *)
TryGetWork(w) ==
    /\ pc[w] = "look"
    /\ \E v \in Victims(w) : \E d \in wq_items[v] :
        /\ wq_items' = [wq_items EXCEPT ![v] = @ \ {d}]
        /\ taken' = taken \cup {d}
        /\ dir' = [dir EXCEPT ![w] = d]
    /\ active_workers' = active_workers + 1
    /\ GoTo(w, "took")
    /\ UNCHANGED <<total_queued, should_stop, cancel, errors, processed, index,
                   left, pending, batch, seen, crawlVars, slot_lost>>

(* ... before total_queued_ is lowered.                                     *)
AcquireWorkItem(w) ==
    /\ pc[w] = "took"
    /\ total_queued' = total_queued - 1
    /\ GoTo(w, "enumerate")
    /\ UNCHANGED <<queueVars, active_workers, should_stop, cancel, errors,
                   processed, index, workerVars, crawlVars, slot_lost>>

NoWork(w) ==
    /\ pc[w] = "look"
    /\ \A v \in Workers : wq_items[v] = {}
    /\ GoTo(w, "idle")
    /\ UNCHANGED <<queueVars, total_queued, active_workers, should_stop, cancel,
                   errors, processed, index, workerVars, crawlVars, slot_lost>>

EnumerateDirectory(w) ==
    /\ pc[w] = "enumerate"
    /\ left' = [left EXCEPT ![w] = Children(dir[w])]
    /\ pending' = [pending EXCEPT ![w] = {}]
    /\ GoTo(w, "entries")
    /\ UNCHANGED <<queueVars, total_queued, active_workers, should_stop, cancel,
                   errors, processed, index, dir, batch, seen, crawlVars, slot_lost>>

(* The listing fails or throws; the slot is given back by the helper.       *)
EnumerateFails(w) ==
    /\ pc[w] = "enumerate"
    /\ errors < MaxFaults
    /\ errors' = errors + 1
    /\ GoTo(w, "give_up")
    /\ UNCHANGED <<queueVars, total_queued, active_workers, should_stop, cancel,
                   processed, index, workerVars, crawlVars, slot_lost>>

GiveUp(w) ==
    /\ pc[w] = "give_up"
    /\ active_workers' = active_workers - 1
    /\ GoTo(w, "idle")
    /\ UNCHANGED <<queueVars, total_queued, should_stop, cancel, errors,
                   processed, index, workerVars, crawlVars, slot_lost>>

Processed(w) == processed \/ left[w] # Children(dir[w])

(* One round of the loop of ProcessEntries: the entry is staged, and the    *)
(* batch is handed over when it is full.                                    *)
ProcessEntry(w) ==
    /\ pc[w] = "entries" /\ left[w] # {} /\ ~ShouldStopWorker
    /\ \E n \in left[w] :
        LET b == batch[w] \cup {n}
            full == Cardinality(b) >= BatchSize
        IN  /\ left' = [left EXCEPT ![w] = @ \ {n}]
            /\ pending' = [pending EXCEPT ![w] = @ \cup ({n} \cap Dirs)]
            /\ seen' = seen \cup {n}
            /\ batch' = [batch EXCEPT ![w] = IF full THEN {} ELSE b]
            /\ IF full THEN FlushBatch(b) ELSE UNCHANGED <<index, errors>>
    /\ UNCHANGED <<queueVars, total_queued, active_workers, should_stop, cancel,
                   processed, pc, dir, crawlVars, slot_lost>>

(* The loop sees the stop signal: the rest of the directory is dropped,     *)
(* staged subdirectories included.                                          *)
StopInDirectory(w) ==
    /\ pc[w] = "entries" /\ left[w] # {} /\ ShouldStopWorker
    /\ SignalStop
    /\ processed' = Processed(w)
    /\ left' = [left EXCEPT ![w] = {}]
    /\ pending' = [pending EXCEPT ![w] = {}]
    /\ GoTo(w, "release")
    /\ UNCHANGED <<queueVars, total_queued, active_workers, cancel, errors, index,
                   dir, batch, seen, crawlVars, slot_lost>>

EntriesDone(w) ==
    /\ pc[w] = "entries" /\ left[w] = {}
    /\ processed' = Processed(w)
    /\ GoTo(w, IF pending[w] = {} THEN "release" ELSE "push")
    /\ UNCHANGED <<queueVars, total_queued, active_workers, should_stop, cancel,
                   errors, index, workerVars, crawlVars, slot_lost>>

(* An exception out of ProcessEntries passes the fetch_sub by.              *)
WorkerThrows(w) ==
    /\ pc[w] = "entries"
    /\ errors < MaxFaults
    /\ errors' = errors + 1
    /\ slot_lost' = TRUE
    /\ pending' = [pending EXCEPT ![w] = {}]
    /\ GoTo(w, "flush")
    /\ UNCHANGED <<queueVars, total_queued, active_workers, should_stop, cancel,
                   processed, index, dir, left, batch, seen, crawlVars>>

(* PushSubdirs: the items under the mutex of the deque, then the counter.   *)
PushSubdirs(w) ==
    /\ pc[w] = "push"
    /\ wq_items' = [wq_items EXCEPT ![w] = @ \cup pending[w]]
    /\ GoTo(w, "count")
    /\ UNCHANGED <<taken, total_queued, active_workers, should_stop, cancel,
                   errors, processed, index, workerVars, crawlVars, slot_lost>>

CountsOne(w) ==   \* mutant of CountSubdirs
    /\ pc[w] = "count"
    /\ total_queued' = total_queued + 1
    /\ pending' = [pending EXCEPT ![w] = {}]
    /\ GoTo(w, "release")
    /\ UNCHANGED <<queueVars, active_workers, should_stop, cancel, errors,
                   processed, index, dir, left, batch, seen, crawlVars, slot_lost>>

CountSubdirs(w) ==
    /\ pc[w] = "count"
    /\ total_queued' = total_queued + Cardinality(pending[w])
    /\ pending' = [pending EXCEPT ![w] = {}]
    /\ GoTo(w, "release")
    /\ UNCHANGED <<queueVars, active_workers, should_stop, cancel, errors,
                   processed, index, dir, left, batch, seen, crawlVars, slot_lost>>

(* The slot is given back.  After a stop the loop is left at once, as the   *)
(* check at its top would do: no flag of stopping is ever lowered.          *)
ReleaseSlot(w) ==
    /\ pc[w] = "release"
    /\ active_workers' = active_workers - 1
    /\ GoTo(w, "idle")
    /\ UNCHANGED <<queueVars, total_queued, should_stop, cancel, errors, processed,
                   index, workerVars, crawlVars, slot_lost>>

DropsLastBatch(w) ==   \* mutant of FlushRemaining
    /\ pc[w] = "flush"
    /\ batch' = [batch EXCEPT ![w] = {}]
    /\ GoTo(w, "exited")
    /\ UNCHANGED <<queueVars, total_queued, active_workers, should_stop, cancel, errors,
                   processed, index, dir, left, pending, seen, crawlVars, slot_lost>>

FlushRemaining(w) ==
    /\ pc[w] = "flush"
    /\ IF batch[w] = {} THEN UNCHANGED <<index, errors>> ELSE FlushBatch(batch[w])
    /\ batch' = [batch EXCEPT ![w] = {}]
    /\ GoTo(w, "exited")
    /\ UNCHANGED <<queueVars, total_queued, active_workers, should_stop, cancel,
                   processed, dir, left, pending, seen, crawlVars, slot_lost>>

Worker(w) ==
    \/ CheckStop(w) \/ TryGetWork(w) \/ AcquireWorkItem(w) \/ NoWork(w)
    \/ EnumerateDirectory(w) \/ EnumerateFails(w) \/ GiveUp(w)
    \/ ProcessEntry(w) \/ StopInDirectory(w) \/ EntriesDone(w) \/ WorkerThrows(w)
    \/ PushSubdirs(w) \/ CountSubdirs(w) \/ ReleaseSlot(w) \/ FlushRemaining(w)

-----------------------------------------------------------------------------
(* Crawl and the thread of the builder around it.                           *)

CrawlGoTo(from, to) == crawl = from /\ crawl' = to

SeedRoot ==
    /\ CrawlGoTo("seed", "seed_count")
    /\ wq_items' = [wq_items EXCEPT ![First] = @ \cup {Root}]
    /\ UNCHANGED <<taken, total_queued, active_workers, should_stop, cancel, errors,
                   processed, index, pc, workerVars, cancelled, build, slot_lost>>

CountRoot ==
    /\ CrawlGoTo("seed_count", "read_total")
    /\ total_queued' = total_queued + 1
    /\ UNCHANGED <<queueVars, active_workers, should_stop, cancel, errors,
                   processed, index, pc, workerVars, cancelled, build, slot_lost>>

(* The predicate of the wait: the cancel flag or total_queued_ ...          *)
ReadTotal ==
    /\ crawl = "read_total"
    /\ \/ cancel /\ crawl' = "stop"
       \/ ~cancel /\ total_queued = 0 /\ crawl' = "read_active"
    /\ UNCHANGED <<queueVars, total_queued, active_workers, should_stop, cancel, errors,
                   processed, index, pc, workerVars, cancelled, build, slot_lost>>

(* ... and then active_workers_.                                            *)
ReadActive ==
    /\ crawl = "read_active"
    /\ crawl' = IF active_workers = 0 THEN "stop" ELSE "read_total"
    /\ UNCHANGED <<queueVars, total_queued, active_workers, should_stop, cancel, errors,
                   processed, index, pc, workerVars, cancelled, build, slot_lost>>

ForgetsWorkers ==   \* mutant of StopWorkers
    /\ CrawlGoTo("stop", "read_cancel")
    /\ UNCHANGED <<queueVars, total_queued, active_workers, should_stop, cancel, errors,
                   processed, index, pc, workerVars, cancelled, build, slot_lost>>

StopWorkers ==
    /\ CrawlGoTo("stop", "read_cancel")
    /\ should_stop' = TRUE
    /\ UNCHANGED <<queueVars, total_queued, active_workers, cancel, errors,
                   processed, index, pc, workerVars, cancelled, build, slot_lost>>

ReadCancel ==
    /\ CrawlGoTo("read_cancel", "join")
    /\ cancelled' = cancel
    /\ UNCHANGED <<queueVars, total_queued, active_workers, should_stop, cancel, errors,
                   processed, index, pc, workerVars, build, slot_lost>>

(* The join, and what Crawl returns.                                        *)
JoinWorkers ==
    /\ crawl = "join"
    /\ \A w \in Workers : pc[w] = "exited"
    /\ LET success == ~cancelled /\ (errors = 0 \/ processed)
       IN  /\ crawl' = IF success THEN "finalize" ELSE "failed"
           /\ build' = [build EXCEPT !.finalizing = success]
    /\ UNCHANGED <<queueVars, total_queued, active_workers, should_stop, cancel, errors,
                   processed, index, pc, workerVars, cancelled, slot_lost>>

(* FinalizeFolderCrawlIndexing, then the gate of the searches opens again.  *)
Finalize ==
    /\ CrawlGoTo("finalize", "succeeded")
    /\ build' = [build EXCEPT !.finalizing = FALSE]
    /\ UNCHANGED <<queueVars, total_queued, active_workers, should_stop, cancel, errors,
                   processed, index, pc, workerVars, cancelled, slot_lost>>

Report ==
    /\ \/ /\ CrawlGoTo("succeeded", "done")
          /\ build' = [build EXCEPT !.outcome = "completed"]
       \/ /\ CrawlGoTo("failed", "done")
          /\ build' = [build EXCEPT !.outcome = "failed"]
    /\ UNCHANGED <<queueVars, total_queued, active_workers, should_stop, cancel, errors,
                   processed, index, pc, workerVars, cancelled, slot_lost>>

Crawl ==
    \/ SeedRoot \/ CountRoot \/ ReadTotal \/ ReadActive \/ StopWorkers
    \/ ReadCancel \/ JoinWorkers \/ Finalize \/ Report

-----------------------------------------------------------------------------
(* IndexBuilderBase::Stop, from the UI thread.                              *)
Cancel ==
    /\ ~cancel /\ cancel' = TRUE
    /\ UNCHANGED <<queueVars, total_queued, active_workers, should_stop, errors,
                   processed, index, pc, workerVars, crawlVars, slot_lost>>

Next == (\E w \in Workers : Worker(w)) \/ Crawl \/ Cancel

(* Every thread of the crawl goes on running.                               *)
Fairness == WF_vars(Crawl) /\ \A w \in Workers : WF_vars(Worker(w))

Spec == Init /\ [][Next]_vars /\ Fairness

-----------------------------------------------------------------------------
(* Properties.                                                              *)

Seeded == crawl \notin {"seed", "seed_count"}

(* AcquireWorkItem raises one counter before it lowers the other, so that   *)
(* both are never zero at one moment while a directory waits on a deque, is *)
(* staged, or is being listed.                                              *)
NoFalseZero ==
    Seeded /\ total_queued = 0 /\ active_workers = 0
        => /\ \A w \in Workers : wq_items[w] = {}
           /\ Busy = {}

(* What a worker put in a batch is in the index when the build reports its  *)
(* outcome, unless an error was counted: no batch is lost at a stop, at a   *)
(* cancellation or at the end.                                              *)
FoundIsIndexed ==
    build.outcome # "none" /\ errors = 0 => \A n \in seen : index[n] # "none"

(* A directory is taken from a deque once, whoever steals it: none is       *)
(* listed twice, and none is on two deques.                                 *)
TakenOnce ==
    /\ \A v \in Workers : wq_items[v] \cap taken = {}
    /\ \A v, w \in Workers : v # w => wq_items[v] \cap wq_items[w] = {}

(* Crawl returns and the build reports an outcome, whatever directories     *)
(* cannot be listed, unless a worker died with its slot: then Crawl waits   *)
(* until the user cancels.                                                  *)
CrawlEnds == <>(crawl = "done" \/ (slot_lost /\ ~cancel))

(* A build that reports success without an error listed the whole tree.     *)
(* The predicate of the wait reads the two counters one after the other: a  *)
(* worker may push what it found and give its slot back in between.         *)
CompletedListsAll ==
    build.outcome = "completed" /\ errors = 0 => \A d \in Dirs : d \in taken

=============================================================================
