------------------------- MODULE FolderCrawlerProofs -------------------------
(***************************************************************************)
(* Theorems about FolderCrawler, for every tree and every number of         *)
(* workers.                                                                 *)
(*                                                                         *)
(* The counters are tied to sets: total_queued_ is the difference between   *)
(* the directories counted in and those counted out, active_workers_ is at  *)
(* least the number of busy workers.  To keep the first equation, a         *)
(* directory must be pushed once and taken once, which the tree gives:      *)
(* only the worker that listed the parent of a directory pushes it.         *)
(***************************************************************************)
EXTENDS FolderCrawler, FiniteSetTheorems, TLAPS

USE DEF queueVars, workerVars, crawlVars, vars

Pushed == {d \in Dirs : d \in taken \/ \E w \in Workers : d \in wq_items[w]}

Uncounted(d) ==
    \/ crawl = "seed_count" /\ d = Root
    \/ \E w \in Workers : pc[w] = "count" /\ d \in pending[w]

CountedIn  == {d \in Dirs : d \in Pushed /\ ~Uncounted(d)}
CountedOut == {d \in Dirs : d \in taken /\ \A w \in Workers : pc[w] = "took" => dir[w] # d}

(* Where a worker stands with respect to the directory it lists.            *)
Listing ==
    \A w \in Workers :
        /\ pc[w] \in BusyPCs => dir[w] \in taken
        /\ \A v \in Workers :
              v # w /\ pc[v] \in BusyPCs /\ pc[w] \in BusyPCs => dir[v] # dir[w]
        /\ pc[w] = "entries" => left[w] \subseteq Children(dir[w])
        /\ pc[w] \in {"entries", "push", "count"} => pending[w] \subseteq Children(dir[w])
        /\ pc[w] = "count" => pending[w] \subseteq Pushed
        /\ pc[w] \in {"took", "enumerate", "entries", "push"} =>
              Children(dir[w]) \cap Pushed = {}

(* A directory is pushed after its parent was taken, the root by Crawl.     *)
FromParent ==
    /\ crawl = "seed" => Pushed = {}
    /\ crawl = "seed_count" => Root \in Pushed
    /\ \A d \in Pushed \ {Root} : Parent[d] \in taken

Counters ==
    /\ total_queued = Cardinality(CountedIn) - Cardinality(CountedOut)
    /\ active_workers >= Cardinality(Busy)

IInv == TypeOK /\ TakenOnce /\ Listing /\ FromParent /\ Counters

-----------------------------------------------------------------------------
(* Types.                                                                   *)

(* Handing a batch over keeps the type of the index and of the counter.     *)
LEMMA FlushTypes ==
  ASSUME TypeOK, NEW b, FlushBatch(b)
  PROVE  /\ index' \in [Nodes -> {"none", "placeholder", "entry"}]
         /\ errors' \in Nat
<1>1. CASE InsertPaths(b) /\ UNCHANGED errors
  BY <1>1 DEF InsertPaths, TypeOK
<1>2. CASE errors < MaxFaults /\ errors' = errors + 1 /\ UNCHANGED index
  BY <1>2 DEF TypeOK
<1>3. QED
  BY <1>1, <1>2 DEF FlushBatch

(* A step of a worker keeps the types.                                      *)
LEMMA WorkerTypes ==
  ASSUME TypeOK, NEW w \in Workers, Worker(w)
  PROVE  TypeOK'
<1> USE WorkersAssumption, TreeAssumption, BoundsAssumption DEF TypeOK, GoTo, BusyPCs
<1>1. CASE CheckStop(w)
  BY <1>1 DEF CheckStop, ShouldStopWorker, SignalStop
<1>2. CASE TryGetWork(w)
  BY <1>2 DEF TryGetWork, Victims
<1>3. CASE AcquireWorkItem(w)
  BY <1>3 DEF AcquireWorkItem
<1>4. CASE NoWork(w)
  BY <1>4 DEF NoWork
<1>5. CASE EnumerateDirectory(w)
  BY <1>5 DEF EnumerateDirectory, Children, Nodes
<1>6. CASE EnumerateFails(w)
  BY <1>6 DEF EnumerateFails
<1>7. CASE GiveUp(w)
  BY <1>7 DEF GiveUp
<1>8. CASE ProcessEntry(w)
  <2>1. PICK n \in left[w] :
            LET b == batch[w] \cup {n}
                full == Cardinality(b) >= BatchSize
            IN  /\ left' = [left EXCEPT ![w] = @ \ {n}]
                /\ pending' = [pending EXCEPT ![w] = @ \cup ({n} \cap Dirs)]
                /\ seen' = seen \cup {n}
                /\ batch' = [batch EXCEPT ![w] = IF full THEN {} ELSE b]
                /\ IF full THEN FlushBatch(b) ELSE UNCHANGED <<index, errors>>
    BY <1>8 DEF ProcessEntry
  <2>2. n \in Nodes
    OBVIOUS
  <2>3. /\ index' \in [Nodes -> {"none", "placeholder", "entry"}]
        /\ errors' \in Nat
    <3>1. CASE FlushBatch(batch[w] \cup {n})
      BY <3>1, FlushTypes
    <3>2. CASE UNCHANGED <<index, errors>>
      BY <3>2
    <3>3. QED
      BY <2>1, <3>1, <3>2
  <2>4. left' \in [Workers -> SUBSET Nodes] /\ seen' \in SUBSET Nodes
    BY <2>1, <2>2
  <2>5. pending' \in [Workers -> SUBSET Dirs]
    BY <2>1
  <2>6. batch' \in [Workers -> SUBSET Nodes]
    BY <2>1, <2>2
  <2>7. QED
    BY <1>8, <2>3, <2>4, <2>5, <2>6 DEF ProcessEntry
<1>9. CASE StopInDirectory(w)
  BY <1>9 DEF StopInDirectory, SignalStop, Processed
<1>10. CASE EntriesDone(w)
  BY <1>10 DEF EntriesDone, Processed
<1>11. CASE WorkerThrows(w)
  BY <1>11 DEF WorkerThrows
<1>12. CASE PushSubdirs(w)
  BY <1>12 DEF PushSubdirs
<1>13. CASE CountSubdirs(w)
  <2>1. Cardinality(pending[w]) \in Nat
    BY FS_Subset, FS_CardinalityType
  <2>2. QED
    BY <1>13, <2>1 DEF CountSubdirs
<1>14. CASE ReleaseSlot(w)
  BY <1>14 DEF ReleaseSlot
<1>15. CASE FlushRemaining(w)
  <2>1. /\ index' \in [Nodes -> {"none", "placeholder", "entry"}]
        /\ errors' \in Nat
    <3>1. CASE FlushBatch(batch[w])
      BY <3>1, FlushTypes
    <3>2. CASE UNCHANGED <<index, errors>>
      BY <3>2
    <3>3. QED
      BY <1>15, <3>1, <3>2 DEF FlushRemaining
  <2>2. QED
    BY <1>15, <2>1 DEF FlushRemaining
<1>16. QED
  BY <1>1, <1>2, <1>3, <1>4, <1>5, <1>6, <1>7, <1>8, <1>9, <1>10, <1>11, <1>12, <1>13, <1>14, <1>15 DEF Worker

(* Types are kept by every step.                                            *)
LEMMA TypeStep == TypeOK /\ [Next]_vars => TypeOK'
<1> SUFFICES ASSUME TypeOK, [Next]_vars PROVE TypeOK'
  OBVIOUS
<1>1. ASSUME NEW w \in Workers, Worker(w) PROVE TypeOK'
  BY <1>1, WorkerTypes
<1>2. CASE Crawl
  <2>1. CASE SeedRoot
    BY <1>2, <2>1, WorkersAssumption, TreeAssumption DEF TypeOK, CrawlGoTo, SeedRoot
  <2>2. CASE CountRoot
    BY <1>2, <2>2, WorkersAssumption, TreeAssumption DEF TypeOK, CrawlGoTo, CountRoot
  <2>3. CASE ReadTotal
    BY <1>2, <2>3, WorkersAssumption, TreeAssumption DEF TypeOK, CrawlGoTo, ReadTotal
  <2>4. CASE ReadActive
    BY <1>2, <2>4, WorkersAssumption, TreeAssumption DEF TypeOK, CrawlGoTo, ReadActive
  <2>5. CASE StopWorkers
    BY <1>2, <2>5, WorkersAssumption, TreeAssumption DEF TypeOK, CrawlGoTo, StopWorkers
  <2>6. CASE ReadCancel
    BY <1>2, <2>6, WorkersAssumption, TreeAssumption DEF TypeOK, CrawlGoTo, ReadCancel
  <2>7. CASE JoinWorkers
    BY <1>2, <2>7, WorkersAssumption, TreeAssumption DEF TypeOK, CrawlGoTo, JoinWorkers
  <2>8. CASE Finalize
    BY <1>2, <2>8, WorkersAssumption, TreeAssumption DEF TypeOK, CrawlGoTo, Finalize
  <2>9. CASE Report
    BY <1>2, <2>9, WorkersAssumption, TreeAssumption DEF TypeOK, CrawlGoTo, Report
  <2>10. QED
    BY <1>2, <2>1, <2>2, <2>3, <2>4, <2>5, <2>6, <2>7, <2>8, <2>9 DEF Crawl
<1>3. CASE Cancel
  BY <1>3 DEF Cancel, TypeOK
<1>4. CASE UNCHANGED vars
  BY <1>4 DEF TypeOK
<1>5. QED
  BY <1>1, <1>2, <1>3, <1>4 DEF Next

(* The initial state has the types.                                         *)
LEMMA TypeInit == Init => TypeOK
<1> SUFFICES ASSUME Init PROVE TypeOK
  OBVIOUS
<1>1. index \in [Nodes -> {"none", "placeholder", "entry"}]
  BY DEF Init
<1>2. build \in [finalizing : BOOLEAN, outcome : {"none", "completed", "failed"}]
  BY DEF Init
<1>3. /\ wq_items \in [Workers -> SUBSET Dirs]
      /\ dir \in [Workers -> Dirs]
      /\ left \in [Workers -> SUBSET Nodes]
      /\ pending \in [Workers -> SUBSET Dirs]
      /\ batch \in [Workers -> SUBSET Nodes]
  BY TreeAssumption DEF Init
<1>4. pc \in [Workers -> BusyPCs \cup {"idle", "look", "flush", "exited"}]
  BY DEF Init
<1>5. total_queued \in Int /\ active_workers \in Int /\ errors \in Nat
  BY DEF Init
<1>6. /\ taken \in SUBSET Dirs /\ seen \in SUBSET Nodes
      /\ should_stop \in BOOLEAN /\ cancel \in BOOLEAN /\ processed \in BOOLEAN
      /\ cancelled \in BOOLEAN /\ slot_lost \in BOOLEAN
  BY DEF Init
<1>7. crawl \in {"seed", "seed_count", "read_total", "read_active", "stop",
                 "read_cancel", "join", "finalize", "succeeded", "failed", "done"}
  BY DEF Init
<1>8. QED
  BY <1>1, <1>2, <1>3, <1>4, <1>5, <1>6, <1>7 DEF TypeOK

(* The fields of the crawl keep their types in every behaviour.             *)
THEOREM TypeCorrect == Spec => []TypeOK
<1>1. QED
  BY TypeInit, TypeStep, PTL DEF Spec


-----------------------------------------------------------------------------
(* Where the directories are.                                               *)

(* Steps of a worker keep the queues apart, the tree order and the listings *)
(* of the workers separate.                                                 *)
LEMMA WorkerPlaces ==
  ASSUME TypeOK, TakenOnce, Listing, FromParent, NEW w \in Workers, Worker(w)
  PROVE  TakenOnce' /\ Listing' /\ FromParent'
<1> USE TreeAssumption DEF TypeOK, GoTo
<1>1. CASE CheckStop(w)
  <2>1. TakenOnce'
    BY <1>1 DEF CheckStop, ShouldStopWorker, SignalStop, TakenOnce
  <2>2. Listing'
    BY <1>1 DEF CheckStop, ShouldStopWorker, SignalStop, Listing, BusyPCs, Pushed
  <2>3. FromParent'
    BY <1>1 DEF CheckStop, ShouldStopWorker, SignalStop, FromParent, Pushed
  <2>4. QED
    BY <2>1, <2>2, <2>3
<1>2. CASE TryGetWork(w)
  <2>1. TakenOnce'
    BY <1>2 DEF TryGetWork, Victims, TakenOnce
  <2>2. Listing'
    BY <1>2 DEF TryGetWork, Victims, Listing, BusyPCs, Pushed, TakenOnce, FromParent, Children
  <2>3. FromParent'
    BY <1>2 DEF TryGetWork, Victims, FromParent, Pushed
  <2>4. QED
    BY <2>1, <2>2, <2>3
<1>3. CASE AcquireWorkItem(w)
  <2>1. TakenOnce'
    BY <1>3 DEF AcquireWorkItem, TakenOnce
  <2>2. Listing'
    BY <1>3 DEF AcquireWorkItem, Listing, BusyPCs, Pushed
  <2>3. FromParent'
    BY <1>3 DEF AcquireWorkItem, FromParent, Pushed
  <2>4. QED
    BY <2>1, <2>2, <2>3
<1>4. CASE NoWork(w)
  <2>1. TakenOnce'
    BY <1>4 DEF NoWork, TakenOnce
  <2>2. Listing'
    BY <1>4 DEF NoWork, Listing, BusyPCs, Pushed
  <2>3. FromParent'
    BY <1>4 DEF NoWork, FromParent, Pushed
  <2>4. QED
    BY <2>1, <2>2, <2>3
<1>5. CASE EnumerateDirectory(w)
  <2>1. TakenOnce'
    BY <1>5 DEF EnumerateDirectory, Children, Nodes, TakenOnce
  <2>2. Listing'
    BY <1>5 DEF EnumerateDirectory, Children, Nodes, Listing, BusyPCs, Pushed
  <2>3. FromParent'
    BY <1>5 DEF EnumerateDirectory, Children, Nodes, FromParent, Pushed
  <2>4. QED
    BY <2>1, <2>2, <2>3
<1>6. CASE EnumerateFails(w)
  <2>1. TakenOnce'
    BY <1>6 DEF EnumerateFails, TakenOnce
  <2>2. Listing'
    BY <1>6 DEF EnumerateFails, Listing, BusyPCs, Pushed
  <2>3. FromParent'
    BY <1>6 DEF EnumerateFails, FromParent, Pushed
  <2>4. QED
    BY <2>1, <2>2, <2>3
<1>7. CASE GiveUp(w)
  <2>1. TakenOnce'
    BY <1>7 DEF GiveUp, TakenOnce
  <2>2. Listing'
    BY <1>7 DEF GiveUp, Listing, BusyPCs, Pushed
  <2>3. FromParent'
    BY <1>7 DEF GiveUp, FromParent, Pushed
  <2>4. QED
    BY <2>1, <2>2, <2>3
<1>8. CASE ProcessEntry(w)
  <2>1. TakenOnce'
    BY <1>8 DEF ProcessEntry, TakenOnce
  <2>2. Listing'
    BY <1>8 DEF ProcessEntry, Listing, BusyPCs, Pushed, Children
  <2>3. FromParent'
    BY <1>8 DEF ProcessEntry, FromParent, Pushed
  <2>4. QED
    BY <2>1, <2>2, <2>3
<1>9. CASE StopInDirectory(w)
  <2>1. TakenOnce'
    BY <1>9 DEF StopInDirectory, SignalStop, Processed, TakenOnce
  <2>2. Listing'
    BY <1>9 DEF StopInDirectory, SignalStop, Processed, Listing, BusyPCs, Pushed
  <2>3. FromParent'
    BY <1>9 DEF StopInDirectory, SignalStop, Processed, FromParent, Pushed
  <2>4. QED
    BY <2>1, <2>2, <2>3
<1>10. CASE EntriesDone(w)
  <2>1. TakenOnce'
    BY <1>10 DEF EntriesDone, Processed, TakenOnce
  <2>2. Listing'
    BY <1>10 DEF EntriesDone, Processed, Listing, BusyPCs, Pushed
  <2>3. FromParent'
    BY <1>10 DEF EntriesDone, Processed, FromParent, Pushed
  <2>4. QED
    BY <2>1, <2>2, <2>3
<1>11. CASE WorkerThrows(w)
  <2>1. TakenOnce'
    BY <1>11 DEF WorkerThrows, TakenOnce
  <2>2. Listing'
    BY <1>11 DEF WorkerThrows, Listing, BusyPCs, Pushed
  <2>3. FromParent'
    BY <1>11 DEF WorkerThrows, FromParent, Pushed
  <2>4. QED
    BY <2>1, <2>2, <2>3
<1>12. CASE PushSubdirs(w)
  <2>1. TakenOnce'
    BY <1>12 DEF PushSubdirs, TakenOnce, Listing, FromParent, Pushed, Children
  <2>2. Listing'
    BY <1>12 DEF PushSubdirs, Listing, BusyPCs, Pushed, TakenOnce, FromParent, Children
  <2>3. FromParent'
    BY <1>12 DEF PushSubdirs, FromParent, Pushed, Listing, Children, BusyPCs
  <2>4. QED
    BY <2>1, <2>2, <2>3
<1>13. CASE CountSubdirs(w)
  <2>1. TakenOnce'
    BY <1>13 DEF CountSubdirs, TakenOnce
  <2>2. Listing'
    BY <1>13 DEF CountSubdirs, Listing, BusyPCs, Pushed
  <2>3. FromParent'
    BY <1>13 DEF CountSubdirs, FromParent, Pushed
  <2>4. QED
    BY <2>1, <2>2, <2>3
<1>14. CASE ReleaseSlot(w)
  <2>1. TakenOnce'
    BY <1>14 DEF ReleaseSlot, TakenOnce
  <2>2. Listing'
    BY <1>14 DEF ReleaseSlot, Listing, BusyPCs, Pushed
  <2>3. FromParent'
    BY <1>14 DEF ReleaseSlot, FromParent, Pushed
  <2>4. QED
    BY <2>1, <2>2, <2>3
<1>15. CASE FlushRemaining(w)
  <2>1. TakenOnce'
    BY <1>15 DEF FlushRemaining, TakenOnce
  <2>2. Listing'
    BY <1>15 DEF FlushRemaining, Listing, BusyPCs, Pushed
  <2>3. FromParent'
    BY <1>15 DEF FlushRemaining, FromParent, Pushed
  <2>4. QED
    BY <2>1, <2>2, <2>3
<1>16. QED
  BY <1>1, <1>2, <1>3, <1>4, <1>5, <1>6, <1>7, <1>8, <1>9, <1>10, <1>11, <1>12, <1>13, <1>14, <1>15 DEF Worker

(* So do the steps of Crawl, which pushes the root.                         *)
LEMMA CrawlPlaces ==
  ASSUME TypeOK, TakenOnce, Listing, FromParent, Crawl
  PROVE  TakenOnce' /\ Listing' /\ FromParent'
<1> USE WorkersAssumption, TreeAssumption DEF TypeOK, CrawlGoTo
<1>1. CASE SeedRoot
  <2>1. TakenOnce'
    BY <1>1 DEF SeedRoot, TakenOnce, FromParent, Pushed
  <2>2. Listing'
    BY <1>1 DEF SeedRoot, Listing, BusyPCs, Pushed, Children
  <2>3. FromParent'
    BY <1>1 DEF SeedRoot, FromParent, Pushed
  <2>4. QED
    BY <2>1, <2>2, <2>3
<1>2. CASE CountRoot
  <2>1. TakenOnce'
    BY <1>2 DEF CountRoot, TakenOnce
  <2>2. Listing'
    BY <1>2 DEF CountRoot, Listing, BusyPCs, Pushed
  <2>3. FromParent'
    BY <1>2 DEF CountRoot, FromParent, Pushed
  <2>4. QED
    BY <2>1, <2>2, <2>3
<1>3. CASE ReadTotal
  <2>1. TakenOnce'
    BY <1>3 DEF ReadTotal, TakenOnce
  <2>2. Listing'
    BY <1>3 DEF ReadTotal, Listing, BusyPCs, Pushed
  <2>3. FromParent'
    BY <1>3 DEF ReadTotal, FromParent, Pushed
  <2>4. QED
    BY <2>1, <2>2, <2>3
<1>4. CASE ReadActive
  <2>1. TakenOnce'
    BY <1>4 DEF ReadActive, TakenOnce
  <2>2. Listing'
    BY <1>4 DEF ReadActive, Listing, BusyPCs, Pushed
  <2>3. FromParent'
    BY <1>4 DEF ReadActive, FromParent, Pushed
  <2>4. QED
    BY <2>1, <2>2, <2>3
<1>5. CASE StopWorkers
  <2>1. TakenOnce'
    BY <1>5 DEF StopWorkers, TakenOnce
  <2>2. Listing'
    BY <1>5 DEF StopWorkers, Listing, BusyPCs, Pushed
  <2>3. FromParent'
    BY <1>5 DEF StopWorkers, FromParent, Pushed
  <2>4. QED
    BY <2>1, <2>2, <2>3
<1>6. CASE ReadCancel
  <2>1. TakenOnce'
    BY <1>6 DEF ReadCancel, TakenOnce
  <2>2. Listing'
    BY <1>6 DEF ReadCancel, Listing, BusyPCs, Pushed
  <2>3. FromParent'
    BY <1>6 DEF ReadCancel, FromParent, Pushed
  <2>4. QED
    BY <2>1, <2>2, <2>3
<1>7. CASE JoinWorkers
  <2>1. TakenOnce'
    BY <1>7 DEF JoinWorkers, TakenOnce
  <2>2. Listing'
    BY <1>7 DEF JoinWorkers, Listing, BusyPCs, Pushed
  <2>3. FromParent'
    BY <1>7 DEF JoinWorkers, FromParent, Pushed
  <2>4. QED
    BY <2>1, <2>2, <2>3
<1>8. CASE Finalize
  <2>1. TakenOnce'
    BY <1>8 DEF Finalize, TakenOnce
  <2>2. Listing'
    BY <1>8 DEF Finalize, Listing, BusyPCs, Pushed
  <2>3. FromParent'
    BY <1>8 DEF Finalize, FromParent, Pushed
  <2>4. QED
    BY <2>1, <2>2, <2>3
<1>9. CASE Report
  <2>1. TakenOnce'
    BY <1>9 DEF Report, TakenOnce
  <2>2. Listing'
    BY <1>9 DEF Report, Listing, BusyPCs, Pushed
  <2>3. FromParent'
    BY <1>9 DEF Report, FromParent, Pushed
  <2>4. QED
    BY <2>1, <2>2, <2>3
<1>10. QED
  BY <1>1, <1>2, <1>3, <1>4, <1>5, <1>6, <1>7, <1>8, <1>9 DEF Crawl

-----------------------------------------------------------------------------
(* The counters.                                                            *)

LEMMA Finite ==
  ASSUME TypeOK
  PROVE  /\ IsFiniteSet(CountedIn) /\ IsFiniteSet(CountedOut) /\ IsFiniteSet(Busy)
         /\ Cardinality(CountedIn) \in Nat /\ Cardinality(CountedOut) \in Nat
         /\ Cardinality(Busy) \in Nat
<1>1. CountedIn \in SUBSET Dirs /\ CountedOut \in SUBSET Dirs /\ Busy \in SUBSET Workers
  BY DEF CountedIn, CountedOut, Busy
<1>2. IsFiniteSet(CountedIn) /\ IsFiniteSet(CountedOut) /\ IsFiniteSet(Busy)
  BY <1>1, FS_Subset, TreeAssumption, WorkersAssumption
<1>3. QED
  BY <1>2, FS_CardinalityType

(* A step that leaves the counters alone leaves the counted sets alone; a   *)
(* step that moves a counter moves the sets with it.                        *)
LEMMA WorkerCounters ==
  ASSUME IInv, NEW w \in Workers, Worker(w)
  PROVE  Counters'
<1> USE TreeAssumption DEF TypeOK, GoTo, IInv
<1>0. /\ IsFiniteSet(CountedIn) /\ IsFiniteSet(CountedOut) /\ IsFiniteSet(Busy)
      /\ Cardinality(CountedIn) \in Nat /\ Cardinality(CountedOut) \in Nat
      /\ Cardinality(Busy) \in Nat
  BY Finite
<1>1. CASE CheckStop(w)
  <2>1. CountedIn' = CountedIn
    BY <1>1 DEF CheckStop, ShouldStopWorker, SignalStop, CountedIn, CountedOut, Uncounted, Pushed
  <2>2. CountedOut' = CountedOut
    BY <1>1 DEF CheckStop, ShouldStopWorker, SignalStop, CountedIn, CountedOut, Uncounted, Pushed
  <2>3. Busy' = Busy
    BY <1>1 DEF CheckStop, ShouldStopWorker, SignalStop, Busy, BusyPCs
  <2>4. QED
    BY <1>1, <1>0, <2>1, <2>2, <2>3 DEF CheckStop, Counters
<1>2. CASE TryGetWork(w)
  <2>1. CountedIn' = CountedIn
    BY <1>2 DEF TryGetWork, Victims, CountedIn, CountedOut, Uncounted, Pushed, Listing, TakenOnce, FromParent, Children, BusyPCs
  <2>2. CountedOut' = CountedOut
    BY <1>2 DEF TryGetWork, Victims, CountedIn, CountedOut, Uncounted, Pushed, Listing, TakenOnce, FromParent, Children, BusyPCs
  <2>3. Busy' = Busy \cup {w} /\ w \notin Busy
    BY <1>2 DEF TryGetWork, Victims, Busy, BusyPCs
  <2>4. Cardinality(Busy \cup {w}) = Cardinality(Busy) + 1
    BY <1>0, <2>3, FS_AddElement
  <2>5. QED
    BY <1>2, <1>0, <2>1, <2>2, <2>3, <2>4 DEF TryGetWork, Counters
<1>3. CASE AcquireWorkItem(w)
  <2>1. CountedIn' = CountedIn
    BY <1>3 DEF AcquireWorkItem, CountedIn, CountedOut, Uncounted, Pushed
  <2>2. CountedOut' = CountedOut \cup {dir[w]}
    BY <1>3 DEF AcquireWorkItem, CountedIn, CountedOut, Uncounted, Pushed, Listing, TakenOnce, FromParent, Children, BusyPCs
  <2>3. Busy' = Busy
    BY <1>3 DEF AcquireWorkItem, Busy, BusyPCs
  <2>4. Cardinality(CountedOut \cup {dir[w]}) = Cardinality(CountedOut) + 1
    <3>1. dir[w] \notin CountedOut
      BY <1>3 DEF AcquireWorkItem, CountedOut
    <3>2. QED
      BY <1>0, <3>1, FS_AddElement
  <2>5. QED
    BY <1>3, <1>0, <2>1, <2>2, <2>3, <2>4 DEF AcquireWorkItem, Counters
<1>4. CASE NoWork(w)
  <2>1. CountedIn' = CountedIn
    BY <1>4 DEF NoWork, CountedIn, CountedOut, Uncounted, Pushed
  <2>2. CountedOut' = CountedOut
    BY <1>4 DEF NoWork, CountedIn, CountedOut, Uncounted, Pushed
  <2>3. Busy' = Busy
    BY <1>4 DEF NoWork, Busy, BusyPCs
  <2>4. QED
    BY <1>4, <1>0, <2>1, <2>2, <2>3 DEF NoWork, Counters
<1>5. CASE EnumerateDirectory(w)
  <2>1. CountedIn' = CountedIn
    BY <1>5 DEF EnumerateDirectory, Children, Nodes, CountedIn, CountedOut, Uncounted, Pushed
  <2>2. CountedOut' = CountedOut
    BY <1>5 DEF EnumerateDirectory, Children, Nodes, CountedIn, CountedOut, Uncounted, Pushed
  <2>3. Busy' = Busy
    BY <1>5 DEF EnumerateDirectory, Children, Nodes, Busy, BusyPCs
  <2>4. QED
    BY <1>5, <1>0, <2>1, <2>2, <2>3 DEF EnumerateDirectory, Counters
<1>6. CASE EnumerateFails(w)
  <2>1. CountedIn' = CountedIn
    BY <1>6 DEF EnumerateFails, CountedIn, CountedOut, Uncounted, Pushed
  <2>2. CountedOut' = CountedOut
    BY <1>6 DEF EnumerateFails, CountedIn, CountedOut, Uncounted, Pushed
  <2>3. Busy' = Busy
    BY <1>6 DEF EnumerateFails, Busy, BusyPCs
  <2>4. QED
    BY <1>6, <1>0, <2>1, <2>2, <2>3 DEF EnumerateFails, Counters
<1>7. CASE GiveUp(w)
  <2>1. CountedIn' = CountedIn
    BY <1>7 DEF GiveUp, CountedIn, CountedOut, Uncounted, Pushed
  <2>2. CountedOut' = CountedOut
    BY <1>7 DEF GiveUp, CountedIn, CountedOut, Uncounted, Pushed
  <2>3. Busy' = Busy \ {w} /\ w \in Busy
    BY <1>7 DEF GiveUp, Busy, BusyPCs
  <2>4. Cardinality(Busy \ {w}) = Cardinality(Busy) - 1
    BY <1>0, <2>3, FS_RemoveElement
  <2>5. QED
    BY <1>7, <1>0, <2>1, <2>2, <2>3, <2>4 DEF GiveUp, Counters
<1>8. CASE ProcessEntry(w)
  <2>1. CountedIn' = CountedIn
    BY <1>8 DEF ProcessEntry, CountedIn, CountedOut, Uncounted, Pushed
  <2>2. CountedOut' = CountedOut
    BY <1>8 DEF ProcessEntry, CountedIn, CountedOut, Uncounted, Pushed
  <2>3. Busy' = Busy
    BY <1>8 DEF ProcessEntry, Busy, BusyPCs
  <2>4. QED
    BY <1>8, <1>0, <2>1, <2>2, <2>3 DEF ProcessEntry, Counters
<1>9. CASE StopInDirectory(w)
  <2>1. CountedIn' = CountedIn
    BY <1>9 DEF StopInDirectory, SignalStop, Processed, CountedIn, CountedOut, Uncounted, Pushed
  <2>2. CountedOut' = CountedOut
    BY <1>9 DEF StopInDirectory, SignalStop, Processed, CountedIn, CountedOut, Uncounted, Pushed
  <2>3. Busy' = Busy
    BY <1>9 DEF StopInDirectory, SignalStop, Processed, Busy, BusyPCs
  <2>4. QED
    BY <1>9, <1>0, <2>1, <2>2, <2>3 DEF StopInDirectory, Counters
<1>10. CASE EntriesDone(w)
  <2>1. CountedIn' = CountedIn
    BY <1>10 DEF EntriesDone, Processed, CountedIn, CountedOut, Uncounted, Pushed
  <2>2. CountedOut' = CountedOut
    BY <1>10 DEF EntriesDone, Processed, CountedIn, CountedOut, Uncounted, Pushed
  <2>3. Busy' = Busy
    BY <1>10 DEF EntriesDone, Processed, Busy, BusyPCs
  <2>4. QED
    BY <1>10, <1>0, <2>1, <2>2, <2>3 DEF EntriesDone, Counters
<1>11. CASE WorkerThrows(w)
  <2>1. CountedIn' = CountedIn
    BY <1>11 DEF WorkerThrows, CountedIn, CountedOut, Uncounted, Pushed
  <2>2. CountedOut' = CountedOut
    BY <1>11 DEF WorkerThrows, CountedIn, CountedOut, Uncounted, Pushed
  <2>3. Busy' = Busy \ {w} /\ w \in Busy
    BY <1>11 DEF WorkerThrows, Busy, BusyPCs
  <2>4. Cardinality(Busy \ {w}) = Cardinality(Busy) - 1
    BY <1>0, <2>3, FS_RemoveElement
  <2>5. QED
    BY <1>11, <1>0, <2>1, <2>2, <2>3, <2>4 DEF WorkerThrows, Counters
<1>12. CASE PushSubdirs(w)
  <2>1. CountedIn' = CountedIn
    BY <1>12 DEF PushSubdirs, CountedIn, CountedOut, Uncounted, Pushed, Listing, TakenOnce, FromParent, Children, BusyPCs
  <2>2. CountedOut' = CountedOut
    BY <1>12 DEF PushSubdirs, CountedIn, CountedOut, Uncounted, Pushed
  <2>3. Busy' = Busy
    BY <1>12 DEF PushSubdirs, Busy, BusyPCs
  <2>4. QED
    BY <1>12, <1>0, <2>1, <2>2, <2>3 DEF PushSubdirs, Counters
<1>13. CASE CountSubdirs(w)
  <2>1. CountedIn' = CountedIn \cup pending[w]
    BY <1>13 DEF CountSubdirs, CountedIn, CountedOut, Uncounted, Pushed, Listing, TakenOnce, FromParent, Children, BusyPCs
  <2>2. CountedOut' = CountedOut
    BY <1>13 DEF CountSubdirs, CountedIn, CountedOut, Uncounted, Pushed
  <2>3. Busy' = Busy
    BY <1>13 DEF CountSubdirs, Busy, BusyPCs
  <2>4. CountedIn \cap pending[w] = {}
    BY <1>13 DEF CountSubdirs, CountedIn, Uncounted
  <2>5. IsFiniteSet(pending[w])
    BY FS_Subset
  <2>6. Cardinality(pending[w]) \in Nat
    BY <2>5, FS_CardinalityType
  <2>7. Cardinality(CountedIn \cup pending[w]) = Cardinality(CountedIn) + Cardinality(pending[w])
    <3>1. Cardinality(CountedIn \cup pending[w])
             = Cardinality(CountedIn) + Cardinality(pending[w])
               - Cardinality(CountedIn \cap pending[w])
      BY <1>0, <2>5, FS_Union
    <3>2. Cardinality(CountedIn \cap pending[w]) = 0
      BY <2>4, FS_EmptySet
    <3>3. QED
      BY <1>0, <2>6, <3>1, <3>2
  <2>8. QED
    BY <1>13, <1>0, <2>1, <2>2, <2>3, <2>6, <2>7 DEF CountSubdirs, Counters
<1>14. CASE ReleaseSlot(w)
  <2>1. CountedIn' = CountedIn
    BY <1>14 DEF ReleaseSlot, CountedIn, CountedOut, Uncounted, Pushed
  <2>2. CountedOut' = CountedOut
    BY <1>14 DEF ReleaseSlot, CountedIn, CountedOut, Uncounted, Pushed
  <2>3. Busy' = Busy \ {w} /\ w \in Busy
    BY <1>14 DEF ReleaseSlot, Busy, BusyPCs
  <2>4. Cardinality(Busy \ {w}) = Cardinality(Busy) - 1
    BY <1>0, <2>3, FS_RemoveElement
  <2>5. QED
    BY <1>14, <1>0, <2>1, <2>2, <2>3, <2>4 DEF ReleaseSlot, Counters
<1>15. CASE FlushRemaining(w)
  <2>1. CountedIn' = CountedIn
    BY <1>15 DEF FlushRemaining, CountedIn, CountedOut, Uncounted, Pushed
  <2>2. CountedOut' = CountedOut
    BY <1>15 DEF FlushRemaining, CountedIn, CountedOut, Uncounted, Pushed
  <2>3. Busy' = Busy
    BY <1>15 DEF FlushRemaining, Busy, BusyPCs
  <2>4. QED
    BY <1>15, <1>0, <2>1, <2>2, <2>3 DEF FlushRemaining, Counters
<1>16. QED
  BY <1>1, <1>2, <1>3, <1>4, <1>5, <1>6, <1>7, <1>8, <1>9, <1>10, <1>11, <1>12, <1>13, <1>14, <1>15 DEF Worker

LEMMA CrawlCounters ==
  ASSUME IInv, Crawl
  PROVE  Counters'
<1> USE WorkersAssumption, TreeAssumption DEF TypeOK, CrawlGoTo, IInv
<1>0. /\ IsFiniteSet(CountedIn) /\ IsFiniteSet(CountedOut) /\ IsFiniteSet(Busy)
      /\ Cardinality(CountedIn) \in Nat /\ Cardinality(CountedOut) \in Nat
      /\ Cardinality(Busy) \in Nat
  BY Finite
<1>1. CASE SeedRoot
  <2>1. CountedIn' = CountedIn
    BY <1>1 DEF SeedRoot, CountedIn, Uncounted, Pushed, FromParent
  <2>2. CountedOut' = CountedOut /\ Busy' = Busy
    BY <1>1 DEF SeedRoot, CountedOut, Busy
  <2>3. QED
    BY <1>1, <2>1, <2>2 DEF SeedRoot, Counters
<1>2. CASE CountRoot
  <2>1. CountedIn' = CountedIn \cup {Root} /\ Root \notin CountedIn
    BY <1>2 DEF CountRoot, CountedIn, Uncounted, Pushed, FromParent, Listing, Children
  <2>2. CountedOut' = CountedOut /\ Busy' = Busy
    BY <1>2 DEF CountRoot, CountedOut, Busy
  <2>3. Cardinality(CountedIn \cup {Root}) = Cardinality(CountedIn) + 1
    BY <1>0, <2>1, FS_AddElement
  <2>4. QED
    BY <1>0, <1>2, <2>1, <2>2, <2>3 DEF CountRoot, Counters
<1>3. CASE ReadTotal \/ ReadActive \/ StopWorkers \/ ReadCancel \/ JoinWorkers
           \/ Finalize \/ Report
  <2>1. CountedIn' = CountedIn /\ CountedOut' = CountedOut /\ Busy' = Busy
    BY <1>3 DEF ReadTotal, ReadActive, StopWorkers, ReadCancel, JoinWorkers, Finalize,
                Report, CountedIn, CountedOut, Uncounted, Pushed, Busy
  <2>2. QED
    BY <1>3, <2>1 DEF ReadTotal, ReadActive, StopWorkers, ReadCancel, JoinWorkers,
                      Finalize, Report, Counters
<1>4. QED
  BY <1>1, <1>2, <1>3 DEF Crawl

-----------------------------------------------------------------------------
(* The invariant is inductive ...                                           *)
LEMMA InvInit == Init => IInv
<1> SUFFICES ASSUME Init PROVE IInv
  OBVIOUS
<1>1. TypeOK
  BY TypeInit
<1>2. TakenOnce /\ Listing /\ FromParent
  BY DEF Init, TakenOnce, Listing, FromParent, Pushed, BusyPCs
<1>3. CountedIn = {} /\ CountedOut = {} /\ Busy = {}
  BY DEF Init, CountedIn, CountedOut, Pushed, Busy, BusyPCs
<1>4. Counters
  BY <1>3, FS_EmptySet DEF Init, Counters
<1>5. QED
  BY <1>1, <1>2, <1>4 DEF IInv

LEMMA InvStep == IInv /\ [Next]_vars => IInv'
<1> SUFFICES ASSUME IInv, [Next]_vars PROVE IInv'
  OBVIOUS
<1>1. TypeOK'
  BY TypeStep DEF IInv
<1>2. ASSUME NEW w \in Workers, Worker(w) PROVE IInv'
  BY <1>1, <1>2, WorkerPlaces, WorkerCounters DEF IInv
<1>3. CASE Crawl
  BY <1>1, <1>3, CrawlPlaces, CrawlCounters DEF IInv
<1>4. CASE Cancel \/ UNCHANGED vars
  <2>1. CountedIn' = CountedIn /\ CountedOut' = CountedOut /\ Busy' = Busy
    BY <1>4 DEF Cancel, CountedIn, CountedOut, Uncounted, Pushed, Busy
  <2>2. TakenOnce' /\ Listing' /\ FromParent'
    BY <1>4 DEF IInv, Cancel, TakenOnce, Listing, FromParent, Pushed
  <2>3. QED
    BY <1>1, <1>4, <2>1, <2>2 DEF IInv, Cancel, Counters
<1>5. QED
  BY <1>2, <1>3, <1>4 DEF Next

(* ... and implies that two zero counters mean that nothing is left.        *)
LEMMA InvNoFalseZero == IInv => NoFalseZero
<1> SUFFICES ASSUME IInv, Seeded, total_queued = 0, active_workers = 0
             PROVE  (\A w \in Workers : wq_items[w] = {}) /\ Busy = {}
  BY DEF NoFalseZero
<1> USE DEF IInv
<1>1. /\ IsFiniteSet(CountedIn) /\ IsFiniteSet(CountedOut) /\ IsFiniteSet(Busy)
      /\ Cardinality(CountedIn) \in Nat /\ Cardinality(CountedOut) \in Nat
      /\ Cardinality(Busy) \in Nat
  BY Finite
<1>2. Busy = {}
  BY <1>1, FS_EmptySet DEF Counters
<1>3. CountedIn = Pushed /\ CountedOut = taken
  BY <1>2 DEF Busy, BusyPCs, CountedIn, CountedOut, Uncounted, Pushed, Seeded, TypeOK
<1>4. taken \in SUBSET Pushed
  BY DEF Pushed, TypeOK
<1>5. Cardinality(Pushed) = Cardinality(taken)
  BY <1>1, <1>3 DEF Counters
<1>6. Pushed = taken
  BY <1>1, <1>3, <1>4, <1>5, FS_Subset
<1>7. QED
  BY <1>2, <1>6 DEF Pushed, TakenOnce, TypeOK

(* Whatever the tree and the number of workers, the two counters are never  *)
(* zero at one moment while work is left.                                   *)
THEOREM NeverFalseZero == Spec => []NoFalseZero
<1>1. QED
  BY InvInit, InvStep, InvNoFalseZero, PTL DEF Spec

(* Whatever the tree and the number of workers, no directory is taken from  *)
(* a deque twice, by whichever worker.                                      *)
THEOREM ListedOnce == Spec => []TakenOnce
<1>1. IInv => TakenOnce
  BY DEF IInv
<1>2. QED
  BY <1>1, InvInit, InvStep, PTL DEF Spec

-----------------------------------------------------------------------------
(* Where the entries are.                                                   *)

(* An entry that was found is in the index or in the batch of a worker,     *)
(* until an error is counted.                                               *)
Kept ==
    errors = 0 => \A n \in seen : index[n] # "none" \/ \E w \in Workers : n \in batch[w]

(* A worker leaves with an empty batch, and Crawl waits for all of them.    *)
Exits == \A w \in Workers : pc[w] = "exited" => batch[w] = {}
Joined ==
    /\ build.outcome # "none" => crawl = "done"
    /\ crawl \in {"finalize", "succeeded", "failed", "done"}
          => \A w \in Workers : pc[w] = "exited"

FoundInv == TypeOK /\ Kept /\ Exits /\ Joined

(* A batch handed over is in the index, and nothing leaves the index; or an *)
(* error is counted.                                                        *)
LEMMA FlushKeeps ==
  ASSUME TypeOK, NEW b \in SUBSET Nodes, FlushBatch(b)
  PROVE  \/ errors' # 0
         \/ /\ errors' = errors
            /\ \A n \in Nodes : n \in b \/ index[n] # "none" => index'[n] # "none"
<1>1. CASE InsertPaths(b) /\ UNCHANGED errors
  BY <1>1 DEF InsertPaths, TypeOK
<1>2. CASE errors < MaxFaults /\ errors' = errors + 1 /\ UNCHANGED index
  BY <1>2 DEF TypeOK
<1>3. QED
  BY <1>1, <1>2 DEF FlushBatch

(* The steps of a worker but two leave the index and the batches alone.     *)
LEMMA WorkerKeeps ==
  ASSUME FoundInv, NEW w \in Workers, Worker(w)
  PROVE  Kept' /\ Exits' /\ Joined'
<1> USE DEF FoundInv
<1>1. CASE ProcessEntry(w)
  <2>1. PICK n \in left[w] :
            LET b == batch[w] \cup {n}
                full == Cardinality(b) >= BatchSize
            IN  /\ left' = [left EXCEPT ![w] = @ \ {n}]
                /\ pending' = [pending EXCEPT ![w] = @ \cup ({n} \cap Dirs)]
                /\ seen' = seen \cup {n}
                /\ batch' = [batch EXCEPT ![w] = IF full THEN {} ELSE b]
                /\ IF full THEN FlushBatch(b) ELSE UNCHANGED <<index, errors>>
    BY <1>1 DEF ProcessEntry
  <2> DEFINE b == batch[w] \cup {n}
  <2>2. n \in Nodes /\ b \in SUBSET Nodes /\ seen \in SUBSET Nodes
    BY DEF TypeOK
  <2>3. pc[w] = "entries" /\ UNCHANGED <<pc, crawl, build>>
    BY <1>1 DEF ProcessEntry
  <2>4. Kept'
    <3>1. CASE Cardinality(b) >= BatchSize
      <4>1. FlushBatch(b) /\ seen' = seen \cup {n} /\ batch' = [batch EXCEPT ![w] = {}]
        BY <2>1, <3>1
      <4>2. \/ errors' # 0
            \/ /\ errors' = errors
               /\ \A m \in Nodes : m \in b \/ index[m] # "none" => index'[m] # "none"
        BY <2>2, <4>1, FlushKeeps
      <4>3. QED
        BY <2>2, <4>1, <4>2 DEF Kept, TypeOK
    <3>2. CASE ~(Cardinality(b) >= BatchSize)
      <4>1. /\ seen' = seen \cup {n} /\ batch' = [batch EXCEPT ![w] = b]
            /\ UNCHANGED <<index, errors>>
        BY <2>1, <3>2
      <4>2. QED
        BY <2>2, <4>1 DEF Kept, TypeOK
    <3>3. QED
      BY <3>1, <3>2
  <2>5. Exits'
    <3>1. \A v \in Workers : v # w => batch'[v] = batch[v]
      BY <2>1 DEF TypeOK
    <3>2. QED
      BY <2>3, <3>1 DEF Exits
  <2>6. Joined'
    BY <2>3 DEF Joined
  <2>7. QED
    BY <2>4, <2>5, <2>6
<1>2. CASE FlushRemaining(w)
  <2>1. /\ pc[w] = "flush" /\ pc' = [pc EXCEPT ![w] = "exited"]
        /\ batch' = [batch EXCEPT ![w] = {}] /\ UNCHANGED <<seen, crawl, build>>
    BY <1>2 DEF FlushRemaining, GoTo
  <2>2. Kept'
    <3>1. \/ errors' # 0
          \/ /\ errors' = errors
             /\ \A n \in Nodes : n \in batch[w] \/ index[n] # "none" => index'[n] # "none"
      <4>1. CASE batch[w] = {}
        BY <1>2, <4>1 DEF FlushRemaining
      <4>2. CASE batch[w] # {}
        <5>1. FlushBatch(batch[w]) /\ batch[w] \in SUBSET Nodes
          BY <1>2, <4>2 DEF FlushRemaining, TypeOK
        <5>2. QED
          BY <5>1, FlushKeeps
      <4>3. QED
        BY <4>1, <4>2
    <3>2. QED
      BY <2>1, <3>1 DEF Kept, TypeOK
  <2>3. Exits' /\ Joined'
    BY <2>1 DEF Exits, Joined, TypeOK
  <2>4. QED
    BY <2>2, <2>3
<1>3. CASE ~ProcessEntry(w) /\ ~FlushRemaining(w)
  <2>1. /\ UNCHANGED <<batch, seen, index, crawl, build>>
        /\ errors' # 0 \/ errors' = errors
    BY <1>3 DEF Worker, CheckStop, TryGetWork, AcquireWorkItem, NoWork, EnumerateDirectory,
                EnumerateFails, GiveUp, StopInDirectory, EntriesDone, WorkerThrows,
                PushSubdirs, CountSubdirs, ReleaseSlot, TypeOK
  <2>2. \A v \in Workers : pc'[v] = "exited" <=> pc[v] = "exited"
    BY <1>3 DEF Worker, CheckStop, TryGetWork, AcquireWorkItem, NoWork, EnumerateDirectory,
                EnumerateFails, GiveUp, StopInDirectory, EntriesDone, WorkerThrows,
                PushSubdirs, CountSubdirs, ReleaseSlot, GoTo, TypeOK
  <2>3. Kept'
    BY <2>1 DEF Kept
  <2>4. Exits' /\ Joined'
    BY <2>1, <2>2 DEF Exits, Joined
  <2>5. QED
    BY <2>3, <2>4
<1>4. QED
  BY <1>1, <1>2, <1>3

LEMMA CrawlKeeps ==
  ASSUME FoundInv, Crawl
  PROVE  Kept' /\ Exits' /\ Joined'
<1>1. UNCHANGED <<batch, seen, index, errors, pc>>
  BY DEF Crawl, SeedRoot, CountRoot, ReadTotal, ReadActive, StopWorkers, ReadCancel,
         JoinWorkers, Finalize, Report
<1>2. Kept' /\ Exits'
  BY <1>1 DEF FoundInv, Kept, Exits
<1>3. Joined'
  <2>1. CASE JoinWorkers
    BY <2>1 DEF FoundInv, Joined, JoinWorkers, TypeOK
  <2>2. CASE Finalize \/ Report
    BY <2>2 DEF FoundInv, Joined, Finalize, Report, CrawlGoTo, TypeOK
  <2>3. CASE SeedRoot \/ CountRoot \/ ReadTotal \/ ReadActive \/ StopWorkers \/ ReadCancel
    BY <2>3 DEF FoundInv, Joined, SeedRoot, CountRoot, ReadTotal, ReadActive, StopWorkers,
                ReadCancel, CrawlGoTo
  <2>4. QED
    BY <2>1, <2>2, <2>3 DEF Crawl
<1>4. QED
  BY <1>2, <1>3

(* Whatever the tree, the number of workers and the size of the batches, a  *)
(* build that reports its outcome without an error counted has every entry  *)
(* its workers found in the index, after a stop and a cancellation too.     *)
THEOREM NothingFoundIsLost == Spec => []FoundIsIndexed
<1>1. Init => FoundInv
  <2> SUFFICES ASSUME Init PROVE FoundInv
    OBVIOUS
  <2>1. TypeOK
    BY TypeInit
  <2>2. Kept /\ Exits /\ Joined
    BY DEF Init, Kept, Exits, Joined
  <2>3. QED
    BY <2>1, <2>2 DEF FoundInv
<1>2. FoundInv /\ [Next]_vars => FoundInv'
  <2> SUFFICES ASSUME FoundInv, [Next]_vars PROVE FoundInv'
    OBVIOUS
  <2>1. TypeOK'
    BY TypeStep DEF FoundInv
  <2>2. ASSUME NEW w \in Workers, Worker(w) PROVE FoundInv'
    BY <2>1, <2>2, WorkerKeeps DEF FoundInv
  <2>3. CASE Crawl
    BY <2>1, <2>3, CrawlKeeps DEF FoundInv
  <2>4. CASE Cancel \/ UNCHANGED vars
    BY <2>1, <2>4 DEF FoundInv, Cancel, Kept, Exits, Joined
  <2>5. QED
    BY <2>2, <2>3, <2>4 DEF Next
<1>3. FoundInv => FoundIsIndexed
  BY DEF FoundInv, Kept, Exits, Joined, FoundIsIndexed
<1>4. QED
  BY <1>1, <1>2, <1>3, PTL DEF Spec
=============================================================================
