# FindHelper: TLA+ models and proofs

FindHelper is a desktop file search. It keeps an index of a volume or a folder in memory, scans
it in parallel for every search, and, on Windows, follows the USN change journal of the volume to
keep the index current. This directory holds models of its concurrent core, the TLC
configurations that check them, and TLAPS proofs about them.

To repeat the checks: `tlc -config X.cfg M` for the pairs listed under "Runs", and `tlapm M.tla`
for the modules whose names end in `Proofs`.

## 1. The system

### Components

| Component | State it keeps | Operations | Model |
|---|---|---|---|
| `SearchWorker` (search/) | request flag and parameters, results, recycle snapshot under `mutex_`; atomics `is_searching_`, `search_complete_`, `cancel_current_search_` | `StartSearch`, `GetResultsData`, `DiscardResults`, `CancelSearch`, `SetRecycleSnapshot`, destructor; worker thread | `SearchWorker` |
| `SearchController` and the frame (search/, core/Application, gui/) | inputs, `SearchPipelineState`, visible results, history flags | one frame: shortcuts, crawl completion, clear, poll, cancel, debounce, auto-refresh, history | `SearchController` |
| `UsnJournalQueue` (usn/) | bounded deque, stop flag, one condition variable | `Push`, `Pop`, `Stop` | `UsnJournalQueue` |
| `UsnMonitor` (usn/) | reader and processor threads, volume handle, state flags, integrity latch, queue, enricher | `Start`, `Stop`, population, replay drain, live loop, clean-up | `UsnMonitor` |
| `WindowsIndexBuilder`, `IndexBuildState`, index builds of `Application` | build flags, builder thread, `use_usn_monitor_` | bootstrap, poll, `StopIndexBuilding`, `StartIndexBuilding` | `UsnIndexBuild` |
| `ParallelSearchEngine`, `ThreadPool` | tasks, shared chunk counter, matchers | partition, scan, cancellation; `enqueue`, destructor | planned |
| Posting-list indexes (extensions, trigrams; `IndexBuildLifecycle`) | postings, build generation, buffered mutations, ready flag | mark, commit, abort, replay, retire | `PostingIndex` |
| `FileIndex`, `IndexOperations`, `FileIndexStorage`, `PathStorage` | entries by file reference, names, paths, children that wait for a parent | insert, remove, rename, move, heal, recompute, maintenance | live changes: `IndexOperations`, `UsnIngest`; compaction: `PostingIndex` |
| `FolderCrawler` and its builder | per-worker deques, `total_queued_`, `active_workers_`, stop flag | crawl, steal, flush, cancel, finalise | `FolderCrawler` |
| MFT readers (`DoubleBufferedChunkReader`), `InitialIndexPopulator` | two slots, read/write cursors, stop and EOF flags | start, next chunk, stop | planned (reader) |
| `LazyAttributeLoader` | sizes and times of entries, "not loaded" and "failed" marks | check, load without lock, write back | planned |
| Asynchronous sort (`AsyncSortState`, `SearchResultUtils`) | token, latch, generation, staging buffers | begin, load, apply, reset | `AsyncSort` |
| `FolderSizeAggregator` | queue, pending set, results, generation | request, cancel, reset, compute | planned |
| `RecycleBinEnricher` and store | queue, coalescing set, worker | enqueue, cancel, drain, stop | only its lifetime, in `UsnMonitor` |
| `SearchHistory` store | entries, navigation | record, merge, navigate, save | only when an entry is recorded, in `SearchController` |
| Selection, incremental search, export; settings; logging; metrics recorder; pattern matching and filters; Gemini client; windows | state of one thread, pure functions, or pure I/O | | not modelled, see section 8 |

### Interactions

* The UI thread runs a frame loop. In every frame it hands requests to the `SearchWorker`, polls
  its results, and reads two samples of the index: its mutation counter and the depth of the USN
  backlog.
* The worker thread splits a search into pool tasks, waits for their futures, and publishes one
  result under its mutex. The UI cancels through one atomic flag that every task reads.
* `UsnMonitor` has a reader, which populates the index, replays the journal from the cursor taken
  before the MFT scan, and then feeds the queue; and a processor, which applies buffers to the
  index. `Start` and `Stop` are called by the UI thread and by the builder's thread.
* The volume is seen through its journal only: a record is written when the last handle of a file is
  closed, and the index has to reach the same tree from records in that order.
* Changes of the index change the posting lists with it, or are buffered for the build under way. A
  compaction gives the rows new numbers and starts a new build, on the pool.
* `FolderCrawler` lists directories with several workers that steal from each other; the thread of its
  builder learns from two counters that nothing is left.
* A sort by size or time starts tasks on the pool that hold pointers into the sort state of the UI; a
  later frame applies what they staged.
* `WindowsIndexBuilder` polls two flags of the monitor to find the end of the population.
  `Application` joins it before it replaces the index by a folder crawl.

### What is hard

* Reads of one frame that are not atomic: `IsBusy()` and `HasNewResults()` are asked several times
  while the worker runs.
* One cancel flag that outlives searches: reset at pick-up, raised by newer requests, by the UI and
  by the destructor, without a common lock.
* Cancelled searches whose tasks still hold references, and searches that throw.
* A condition variable shared by producers and consumers, woken with `notify_one`.
* A stream that must have no gap between an MFT scan, a replay and a live loop.
* Threads that end by themselves, while `Stop` closes their handle and destroys their queue; the
  ten-second timeout of `Start`; a journal that wraps or is recreated.
* Flags and counters that two threads set and read one after the other.
* Records of the journal that come before those of their parents, name old references, or tell of
  several changes at once.
* Values that name rows (postings, staged attributes, buffered mutations) while rows get new numbers.

The properties that make each component correct are those of section 4. `PROJECT.json` lists the
hazards at their lines.

## 2. Modules

`SearchService`: what a search worker promises. At most the latest request is outstanding; it is
answered for itself and in full unless it was cancelled after it had begun; a faulty service may drop
it. Shutdown promises nothing for the outstanding request.

`SearchWorker`: `SearchWorker.cpp`, with the pool tasks of one search. Every section under `mutex_`
is one action, and so is every access to an atomic outside of it. `pc` is the place of the worker
thread. A search is the number of its `StartSearch` call. Of the hits, two facts are kept: whether
all tasks scanned their whole range, and whether recycled items were appended. Tasks whose future was
destroyed without `get()` are `orphans`.

`SearchWorkerRefines`: the mapping of the one to the other. The request owed is the pending one or,
when nothing is pending, the one being served.

`SearchController`: the frame of the UI thread as a sequence of phases, with the user, the worker and
the index taking steps between them. The worker is an instance of `SearchService`, which `SearchWorker`
implements, so the two modules compose through the service. Times are two flags: `quiet` (the debounce
delay is over) and `cooled` (the auto-refresh cooldown is over), which pass in either order. `cleared_at`, `manual_open` and
`asked` are history variables for the properties only; no guard reads them.

`BoundedChannel`: what the USN queue promises, a bounded FIFO that drops nothing while open.

`UsnJournalQueue`: `UsnJournalQueue.h` with its mutex and condition variable. A thread is running,
blocked in a wait, woken (it has to take the mutex again) or refused by `Stop`. `notify_one` wakes any
blocked thread, and a wait may end for no reason.

`UsnMonitor`: `UsnMonitor.cpp` with an owner thread, the reader and the processor. A buffer is the pair
of its first and last record; records are numbered. The queue between the threads is an instance of
`BoundedChannel`, which `UsnJournalQueue` implements. `open` counts open volume handles; `taken` is the
handle that `Stop` has moved out and not closed yet. The journal is external: it grows, drops old
records and may be recreated, and each kind of answer the code tells apart is an alternative of the
read. A buffer with a corrupt record is applied as far as the record (`CorruptTail`); `dropped` and `threw`
are history variables.

`UsnIndexBuild`: extends `UsnMonitor` with the UI thread and the builder's thread of a session that is
indexed from the journal. `index` records where the entries of the index come from. The journal does
not wrap and is not recreated here: that only ends the population or the monitor, which other
alternatives of the same steps do already.

`FolderCrawler`: `FolderCrawler.cpp` and the thread of `FolderCrawlerIndexBuilder`. Every access to a
counter or flag and every section under a mutex is an action; `pc` is the place of a worker, `crawl` that
of the thread in `Crawl`. A deque is a set of directories. The tree is a constant (`Parent`); a
directory is a node, an entry of it is processed in one step. `taken`, `seen` and `slot_lost` are history
variables. `MCFolderCrawler` gives TLC a tree of four directories and two files.

`PostingIndex`: `IndexBuildLifecycle.h` as `ExtensionIndex` and `FilenameTrigramIndex` share it, with its
callers in `FileIndex.cpp` and `IndexOperations.cpp`. Kept is the posting list of one key; a row is
keyed, plain or dead. `Compacts` states what a compaction does to rows. A ticket is a build that was
marked and not yet submitted, with the snapshot it carries. `stale` and `mixed` are history: postings
made for other rows than there are, and a buffer that mixes two layouts.

`IndexOperations`: the live changes of the tree as operators from one index to the next: resolution of
references, insert, remove, rename, move, and the awaiting and healing of entries whose parent is
unknown. An index is a record of `entries`, `canonical` (`record_number_to_id_`) and `awaiting`.

`UsnIngest`: the volume, its journal, and `ProcessOneBuffer` and the sweep of `UsnMonitor`, which apply
records with those operators. The volume is external: files are created, renamed, moved and deleted as
NTFS permits, and a record is written at the last close. `drift` and `astray` are history: the code has
misread a record (`Misread`), and the parents in the index have been such that paths are not kept
(`Astray`: a cycle, a reused record number, a path as long as the walk of `IsDescendantOf`). Section 7 has
the cases. `MCUsnIngest` adds the symmetry.

`AsyncSort`: the sort of the results by an attribute that has to be loaded, `AsyncSortState.h` with the
steps of `SearchResultUtils.cpp`, `SearchResultsService.cpp`, `SearchController.cpp` and `GuiState.cpp` that
start, complete, cancel or outrun it. `ui` says what the UI thread is blocked in the latch for. The size
of file f is written f, so that a row with another number shows the size of another file. `shuffled` and
`lost` are history: rows were reordered during a load, and a pending sort was forgotten.

`SearchWorkerProofs` (with the refinement), `SearchControllerProofs`, `UsnJournalQueueProofs`,
`UsnMonitorProofs` (with the session of `UsnIndexBuild`), `UsnIngestProofs`, `FolderCrawlerProofs`,
`PostingIndexProofs`, `AsyncSortProofs`: section 6.

Definitions marked `mutant of X` are plausible wrong versions of X: replacing X by one of them makes TLC
report a property that depends on it. They are not used otherwise.

## 3. From code to model

* Guards are the conditions and early returns of the code; the order of assignments that other threads
  can see is kept, e.g. the three steps of `~SearchWorker`, the two flags a failed population clears
  and sets, and the take, close, stop, join, reset order of `UsnMonitor::Stop`.
* Left out: logging, metrics, formatting, the content of hits and of records.
* A frame reads the worker in several phases. Reads without an answer between them that makes a
  difference share a phase; the comments say where.
* `Start` holds `mutex_` while it joins (`owner = "joining"`); steps of the reader that take the mutex
  are disabled then. All other sections under that mutex are single actions.
* An exception is an alternative of the steps whose code can throw, switched on or counted by a constant.
* Sections under the unique lock of the index are single actions, also where they call many functions:
  `IndexOperations` is therefore a module of operators, and only its callers have actions.
* A counter that is unsigned in the code and may pass below zero for a moment (`total_queued_`) is an
  integer: the code compares it with zero only.

## 4. Runs

| Run | Module, configuration | What it shows |
|---|---|---|
| `search_worker` | `SearchWorkerRefines`, `SearchWorker.cfg` | Three searches of up to two futures, any of which may throw, cancels, discards and a destructor in every interleaving: `ImplementsSearchService` (safety and progress), a scan that was superseded is always cancelled (`SupersededScanCancelled`), a cancel cuts short only the search it was raised against (`CancelHitsOnlyCurrent`), the join of the destructor returns (`DestructorTerminates`). |
| `search_controller` | `SearchController`, `SearchController.cfg` | Results become visible only for the latest search; once a Clear is carried out nothing from before it is visible or can become so; at rest the screen shows all hits of the current inputs; one history entry per manual search; the frame loop comes to rest; auto-refresh misses no mutation. |
| `usn_queue` | `UsnJournalQueue`, `UsnJournalQueue.cfg` | One producer and one consumer, as `UsnMonitor` uses the queue: it is a bounded FIFO channel, never stalls, and `Stop` frees everybody. |
| `usn_monitor` | `UsnMonitor`, `UsnMonitor.cfg` | One start and any number of stops, with threads that may throw, on a journal that grows, wraps and is recreated: from the cursor on no record is skipped or applied twice, and what a corrupt buffer drops is latched (`NothingSkipped`); a reader that dies says why, the processor does not end behind an active monitor and the populating flag does not outlive the reader, unless by an exception; no handle is leaked, the queue outlives reader and processor (`QueueOutlivesWorkers`), calls return, records reach the index. |
| `usn_index_build` | `UsnIndexBuild`, `UsnIndexBuild.cfg` | UI and builder never stop the monitor together, a failed population leaves no threads behind, the monitor is quiet once the crawl runs, the builder ends. |
| `usn_ingest` | `MCUsnIngest`, `UsnIngest.cfg` | Once the journal is applied the index shows the volume (`ConvergesUnlessMisread`); on the way an entry is below its parent (`PathsFollowParents`), a bare name waits for its parent (`BareNamesWait`, the code's own `CheckBareNameInvariant`), and nothing else waits; except after the cases of section 7. |
| `usn_ingest_deleted` | `MCUsnIngest`, `UsnIngestDeleted.cfg` | Finding: a file renamed and deleted while it was open comes back. |
| `posting_index` | `PostingIndex`, `PostingIndex.cfg` | Two callers compact, submit and clear while the index changes: postings in use are exactly the rows with the key unless rows were compacted behind them (`ReadyMeansExact`), and a build comes to an end (`BuildSettles`). |
| `folder_crawler` | `MCFolderCrawler`, `FolderCrawler.cfg` | Two workers, a failure and a cancellation anywhere: the counters are never both zero while work is left (`NoFalseZero`), what was found is indexed, nothing is listed twice, the crawl ends unless a worker died with its slot. |
| `folder_crawler_race` | `MCFolderCrawler`, `FolderCrawlerRace.cfg` | Finding: the two counters are read one after the other, and a crawl may be reported complete with directories unlisted. |
| `async_sort` | `AsyncSort`, `AsyncSort.cfg` | Clicks, searches, refreshes and clears during a load: token, buffers and latch are never reused under a task (`DrainedBeforeReuse`); rows show their own size unless rows were reordered during a load; at rest they are in the order of the header unless a sort was forgotten (`SettledInOrder`); every wait and load ends (`ComesToRest`). |
| `async_sort_mixed` | `AsyncSort`, `AsyncSortMixed.cfg` | Finding: a click on another column during a load puts sizes at the wrong files. |

### Bounds

* `SearchWorker`: three requests are enough for one being served, one pending and one that supersedes
  it; two futures for one that fails or is cancelled while another still runs.
* `SearchController`: `MaxActs` bounds acts of the user and index builds together (three), one index
  mutation. The interesting sequences (search, type, clear; clear, search, clear; mutation during a
  build) have at most three. `MaxSearches` is never reached: its assumption says that every act or
  mutation leads to one search at most, and `BoundIsNeverMet` proves it.
* `UsnJournalQueue`: capacity two and eight buffers, to see the ring full and empty again several times.
* `UsnMonitor`: queue of one buffer and three records, so that a record can be in each place (applied,
  being applied, queued, held) at once; two consecutive errors for the limit and the reset before it.
* `UsnIngest`: three records (a directory, its child and grandchild, or two directories and what moves
  between them), two names and five operations, e.g. two directories, a file, a move and a rename; buffers
  of up to four records, so that a buffer may hold, or split, what belongs together. `MaxParentWalk`, 64 in
  the code, is four: longer than any path of three records, so that it never cuts a walk here; the proofs
  are for every length of it. Record numbers and names are symmetric: no property or
  definition singles one out.
* `PostingIndex`: two rows, three generations and three buffered mutations, for a rename (two mutations)
  followed by a removal, and a build superseded by another and by a clear.
* `FolderCrawler`: two workers, batches of two, a tree of depth three with two directories at the root,
  so that there is something to steal while the other worker pushes; one fault.
* `AsyncSort`: three files in batches of two, for two tasks that end in any order; two clicks for a load
  and what outruns it, two searches for a refresh and a commit.

### Deadlock

Deadlock is checked in `search_worker`, `search_controller`, `usn_queue` and `usn_monitor`. The other
systems may stop: `usn_index_build` where the crawl begins, `folder_crawler` when it is over or waits with
a lost slot, `usn_ingest` when its operations are used up and the index is at rest, `posting_index` after
the destructor or at its bounds, `async_sort` when clicks and searches are used up.

## 5. Fairness

* `SearchWorker`: the worker thread and the pool threads are scheduled, and a destructor that began
  goes on. Nothing obliges the UI to call anything.
* `SearchController`: frames go on (the main loop redraws while idle and only sleeps while the window is
  minimized), the worker answers (which `SearchWorker` is shown to do), an index build and a backlog end,
  clocks advance. The user and the index are not obliged to do anything.
* `UsnJournalQueue`: a waiting producer comes back within 50 ms (`wait_for`), a woken thread gets the
  mutex, and the processor calls `Pop` in a loop.
* `UsnMonitor`: its three threads are scheduled, the MFT scan ends, and `Start` waits ten seconds at
  most. The reads of a journal that has records, or has lost them, do not answer with nothing or with
  `ERROR_INVALID_PARAMETER` for ever: the code retries that error without limit, so that much must be
  asked of the kernel (strong fairness of `ReadData \/ JournalLost`).

* `FolderCrawler`: the workers and the builder's thread are scheduled. Nobody has to cancel.
* `PostingIndex`: a caller that marked a build goes on to submit it, outside of the lock, and the pool
  runs the task. Nobody has to change, compact or clear.
* `AsyncSort`: frames are drawn, pool threads run, a search that was started answers. The user is not
  obliged to anything.
* `UsnIngest` has no liveness: that records reach the index is `CatchesUp` of `UsnMonitor`.

## 6. Proofs

All theorems hold for every value of the constants under the assumptions the modules name.

`SearchWorker` (`SearchWorkerProofs`). None of the safety properties is inductive. The invariant `IInv`
adds to the types: `Naming`, which search each field names (a pending request is always the last one; a
worker that serves with nothing pending serves the last one; results at rest are those of the last one);
`Whole`, an incomplete batch implies a raised cancel flag when nothing throws; and `TasksOfLoop`, which
tasks exist at each place of the loop over the futures, which is what keeps the future index inside its
range. Theorems: `TypeCorrect`, `IdleResultsAreFresh` and `TasksEndFirst` (without exceptions),
`SupersededIsCancelled` and `DestructorCancelStays` (with them too).

`SearchWorkerRefines` (in the same module). From `IInv`, every step maps to a step of
`SearchService` or a stutter (`ImplementsSafety`). The action property `CancelHitsOnlyCurrent` needs no
invariant: it is shown step by step (`CancelReachesItsSearch`).

`SearchController` (`SearchControllerProofs`), for every bound. The steps of the frame fall into nine kinds
for the fields that matter (a request is made, cut short, answered or dropped, its answer shown, a Clear
asked for or carried out, inputs edited, nothing); the lemma `Moves` says which step is of which kind, and
the invariant is then proved once per kind. It adds to the types: `Order` (only the last request is
outstanding, answers and results are of earlier ones or its own), `Latest` (with no search active results
are the last one's), `Inputs` (inputs not marked as changed are those of the last search, or were cleared
since), `CutShort` (a search is cut short only for new inputs or a Clear), `Manual` for the history and
`Budget` for the bound. Theorems: `ControllerTypeCorrect`, `ClearIsFinal`, `EntriesAreManual`,
`BoundIsNeverMet`, with searches that throw or not; `OnlyLatestIsShown` and `RestShowsInputs` under
`~Faulty`, which they need: see section 7.

`UsnJournalQueue` (`UsnJournalQueueProofs`). `TypeCorrect` (the capacity is kept), `StopFrees`,
`ImplementsChannelSafety` for any producers and consumers; `NoLostWakeup` for a single producer and any
consumers. The latter needs that a thread is refused only after `Stop`, and that with one producer a
`notify_one` after a push can only reach a consumer.

`UsnMonitor` (`UsnMonitorProofs`), for every journal, queue size, error limit and number of starts. The
invariant has a part about control and one about the stream. `Control` says who owns the volume handle (at
most one of the member and a `Stop` in progress; the reader opens one only when there is none), which threads
exist at each place of `Start` and `Stop`, until when the active and populating flags may be up, and why a
reader that is leaving does so. `Stream` and `Chain` say that the buffer being applied, the queue, the buffer
held by the reader and its cursor follow each other record by record; the queue is linked by the successive
ends of its buffers, so that pushing, popping and applying each change one link. Theorems: `TypeCorrect`,
`StreamHasNoGap`, `DeadReaderSaysWhy`, `NoStallBehindActive`, `HandleClosedOnce`,
`WorkersEndBeforeQueue` (of the reader and the processor only, see section 7), `PopulationFlagEnds`, `EnricherEnds`.

`UsnIndexBuild` (same module). A session makes only steps of the monitor or leaves it alone
(`SessionRunsMonitor`), so all of the above holds in it; with where builder and UI thread can be (`Lives`,
`Calls`, `Stopped`) it gives `StopsAreSerialized`, `FailureStopsMonitor` and the action property
`CrawlIsUndisturbed`.

`UsnIngest` (`UsnIngestProofs`), for every finite set of record numbers, every set of names, number of
operations and size of buffer. The operators of `IndexOperations` are folds over waiters, iterations over
levels and a fold over the buffer. Their values are reached through lemmas about sets instead of operators:
a fold or an iteration is a function from subsets, or steps, to values that exists (`FoldExists`,
`IterationExists`) and is unique, and a family of sets that is closed has all of them (`SetInduction`,
`Upwards`). Each operator then has a lemma that says what it keeps (`MoveSubtreeTypes` up to
`RecordTypes`), whence `IngestTypeCorrect` and `OnlyPlaceholdersWait`, also after records that are misread.
`BareNamesAlwaysWait` holds until a record is misread and needs an invariant that ties index, journal and
volume together. `Tidy` says that an entry is the one in use of its record number, that nothing waits for
what is there, and that bare names wait. `JournalInv` says what a journal is like: per record number,
sequence numbers grow and the delete comes last (`Ordered`), the create comes first, what is not alive has
its delete in the journal (`Covered`). `InStep` says that an entry lives or its delete is still to come, and
that no record to come is of an earlier use. From these, each record finds its file alone with its number
(`NextIsAlone`). That a buffer is applied directories first is covered by `ShuffleExists` and
`ShuffledInv`: the order applied is a shuffle of the journal in which records move only ahead of those of
other record numbers, unless `Misread`, and the invariants of the journal hold of the shuffle too.

`PathsStayBelowParents` and `IndexConverges` hold until a record is misread or a parent goes astray, the two
cases section 7 shows real, and need `PathInv` besides. It says that the volume is a tree (`Tree`), that the
journal tells what was done to it (`Told`: the last record of a closed file has its name and parent, the
delete of a parent comes after the records that name it, and the uses of a number come in their order), that
all agree on which references are directories, and that the index is `Healthy` given the records not yet
applied:

* `Straight`, what `astray` records when it fails: the parent an entry names is not resolved to an earlier or
  later use of its number, no walk up the parents returns, and no path is as long as that walk
  (`MaxParentWalk`);
* `FollowsBut` and `AtRoot`: an entry has the path of its parent and a name more, one at the root its name;
* `Elder`, `Fresh`, `ParentKnown`: records to come speak of no earlier use of a number, and what is still to
  be created has no entry; `Orphans`: what neither has its parent nor waits for it has lost it for good;
* `Present` and `Settled`: a file has an entry from its create on, and once nothing is left to apply for it
  the entry has its parent and its name.

The operators first: the walk of `IsDescendantOf` is a sequence of sets (`WalkIs`) that reaches an entry at
the step its depth says (`PathsBelow`), so that the prefix test of `MoveSubtree` finds all that is below and
nothing else, and entries below come out below again (`MoveSubtreeFollows`). Healing, insertion, renaming,
moving and removal follow. A buffer is then a `Run` of records in the order applied: each
fits those after it (`Fits`), and the lemma for one record carries `Healthy` along as long as what results is
straight; once it is not, `astray` says so. Where the journal is applied, `Settled` puts
each entry below that of the file's parent (`EntriesInPlace`), and by induction on the number of names every
path is that of the volume (`PathsConverge`). Nothing waits there (`NothingWaits`), so that the
sweep removes nothing.

`FolderCrawler` (`FolderCrawlerProofs`), for every tree and number of workers. The counters are tied to
sets: `total_queued_` is the number of directories counted in less those counted out, `active_workers_`
is at least the number of busy workers. To keep the first equation a directory must be pushed once and
taken once, which follows from the tree: only the worker that lists a directory pushes its children.
Theorems: `TypeCorrect`, `NeverFalseZero`, `ListedOnce`; and `NothingFoundIsLost`, from an invariant of its
own: what was seen is indexed or in the batch of a worker until an error is counted (`Kept`), a worker leaves
with an empty batch (`Exits`), and the outcome is only reported after all have left (`Joined`).

`PostingIndex` (`PostingIndexProofs`), for every number of callers, rows, builds and mutations. The
invariant says that of the outstanding builds at most one is of the current generation, only while
`building` is set, and that what it will commit, its snapshot with the buffer replayed, is the truth; its
heart is the lemma `ReplayConcat`: replaying one buffer and then another is replaying both together.
Theorems: `TypeCorrect`, `PostingsExact`.

`AsyncSort` (`AsyncSortProofs`), for every number of files, clicks, searches and batch size. The invariant
says that the latch published counts at least the tasks there are (`Counted`) and that they are all of
the sort that published it (`OneSort`); `TasksCounted` shows that a sort starts as many batches as it
counts at most, and `WaitedForAll` that whoever has waited for the latch has waited for every task.
The invariant for the rows, `RowsInv`, says what is staged: as long as rows
keep their places, what a task holds or has staged for a row is the size of that row's file (`Sizes`), a load
that is not cancelled reaches every row without a size (`Loads`), and the rows shown or about to be committed
are in the order of the header where no load or sort is pending (`Shown`). That sorting puts rows of distinct
files in the one order there is comes from counting the rows before a row. Theorems: `BuffersAreDrained`,
`SortTypeCorrect`, `OnlyMovedRowsAreMixed`, `RestShowsOrder`.

Only model-checked: everything about liveness (`DestructorTerminates`, `ComesToRest`, `RefreshCatchesUp`,
`CallsReturn`, `CatchesUp`, `BuildEnds`, `BuildSettles`, `CrawlEnds`, and the progress halves of
`ImplementsSearchService` and `ImplementsChannel`), since fairness and ENABLED are out of the prover's
reach.

## 7. Findings

Each quotes the line it disagrees with in `PROJECT.json`.

* `folder_crawler_race`: `Crawl` loads `total_queued_` and then `active_workers_`; a worker that pushes
  subdirectories and gives its slot back between the two loads is missed, and the build is reported
  complete without them.
* `usn_ingest_deleted`: the record of a file renamed and deleted while it was open removes the entry in
  one branch and inserts it again in the next.
* `async_sort_mixed`: sizes are staged by row number; a click on another column reorders the rows under
  the load, and the sizes are then applied to the wrong files. A later refresh keeps them
  (`ReconcileComputedDirectoryAttributes` copies them to the new rows).

Seen with the same models and one changed constant or property, and without a run of their own. The
definitions named here are in the modules:

Search:

* `FreshWhenIdle` with `CanThrow = TRUE`: a search that throws leaves the untaken results of the one before
  it, which are then handed out as its own.
* `NoStaleAfterClear`: the clear step and the poll of one frame read `IsBusy()` apart; a search that ends in
  between is shown for a frame after the Clear.
* `DiscardsOnlyStale`: a search started while a Clear waits for the worker is discarded with it.
* `HistoryRecordsCompletedSearch`: the parameters recorded for a completed manual search are read from the
  inputs in every frame, so that the history may hold text that was typed and never searched for.
* `ComesToRest` of `SearchController` with `Faulty = TRUE`: `search_active` stays set after a search that
  throws.
* `ShowsOnlyLatest` with `Faulty = TRUE`: a search is started while the answer of the one before waits to be
  polled, and throws; the next poll shows the older answer. `SearchController.cpp:566` relies on the next
  run to replace it.

USN journal:

* `CrawlReplacesIndex`: `StartIndexBuilding` clears the index before it stops the monitor, which goes on
  writing to it; entries of the volume survive the replacement.
* `CompletedMeansPopulated` and `CompletedDidNotFail`: the builder may poll before the population flag is
  set, or read the two flags around a failure, and reports an empty or failed index as complete.
* `EveryBufferPopped` with two producers: a `notify_one` meant for the consumer wakes a producer.
  `UsnMonitor` has one.
* `CallsReturn` with two starts and `StopsFirst = FALSE`: `Start` joins, under the mutex, a reader that needs
  the mutex to end. The application calls `Start` once.
* `NoSilentStop`, `NoSilentStall` and `PopulationEnds` without the exception for `threw`: an exception ends
  the reader with nothing latched, or the processor behind an active monitor, or leaves
  `is_populating_index_` set, and then `BuildEnds` fails too.
* The UI thread reads `queue_` in `GetQueueSize` (`UsnMonitor.cpp:995-1000`, called at `Application.cpp:917` and
  `1167`) without the mutex, while the builder's `Stop` may reset it after a failed population
  (`WindowsIndexBuilder.cpp:65`, `UsnMonitor.cpp:981`); `UsnMonitor.h:507` says "Status queries - thread-safe".
  Found by reading: `QueueOutlivesWorkers` is about the two threads that `Stop` joins.
* A read error of the MFT ends the scan like its end does, and a chunk that cannot be parsed is only logged:
  `RunRawMft` returns true (`InitialIndexPopulator.cpp:667-775`), so that the population is reported complete
  without the rest. Found by reading: a population that succeeds is complete in the model.

Index (what `drift` and `astray` of `UsnIngest` excuse, besides the run above):

* A record number that is deleted and used again in one buffer by a directory, or by a parent of one: the
  creation is applied first and folded into the old reference, whose deletion then removes it.
* `WalkMeetsFolderPaths` (two records, four operations): a directory is moved out of its parent, the parent
  into it, and the handle of the second is closed first. In between the index has a cycle of parents; the
  paths written then are wrong and stay wrong. `docs/design/USN_INGEST_PIPELINE_DESIGN.md:312` has the
  tests assert "walk-result == stored path for every entry".
* `WalkMeetsFilePaths` (two records, three names, six operations): a file is moved out of a directory, the
  directory is deleted, a new one gets its record number, and the file is moved there before it is closed.
  `HandleFileRename` compares the parents by record number ("Same parent record (sequence may differ) -
  name-only rename", `UsnMonitor.cpp:772`), so that the path below the deleted directory stays.
* What is 64 levels or more below a directory that is moved, renamed or healed keeps its old path
  (`kMaxParentWalk`).
* The sweep assumes that a parent arrives within five minutes or 1 MB of journal. A directory held open
  for longer has its children swept, and its own record does not bring them back. The model runs the sweep
  only when everything has arrived (`CaughtUp`).

Posting lists (what `stale` and `mixed` of `PostingIndex` excuse; `ReadyIsExact` is the property without):

* When the extraction fails after a compaction, `AbortBuild` marks postings ready that name rows of the
  old layout.
* A compaction during a build keeps the buffer, whose mutations name rows of the old layout; the next
  commit or abort replays them on the new rows.
* `SubmitBuildPayload` does not catch what `Enqueue` throws; the generation then stays marked and nobody
  commits or aborts it. Found by reading: the model has no such step.

Folder crawl:

* An exception out of `ProcessEntries` leaves the worker without giving its slot back: `Crawl` waits until
  the user cancels (`slot_lost`).
* If the finalisation of the builder throws, `finalizing_population` stays set and searches stay gated.

Sort:

* `OrderShown`: with all sizes loaded a click on Size leaves the sort in `Ready` for the next frame. An
  automatic or debounced search begun before then sets it back to `Idle`; when its results equal the rows
  they are not committed, and nothing sorts the rows any more, while `SearchController.cpp:612` argues
  that "the front buffer already shows this set in this order".
* A task that throws, e.g. by a failed allocation, never arrives at the latch; the next click or search
  blocks the UI thread for ever. Found by reading: the tasks of the model do not throw.
* Folder statistics that arrive during a refresh trigger no sort. Found by reading.

## 8. Not modelled

Matching of names, paths, sizes and times, the decoding of NTFS records, settings, logging, the Gemini
client and all drawing: pure functions on data or pure I/O, without steps of two actors. Selection,
incremental search and export live on the UI thread alone. The metrics recorder observes the others.
In the frame: folder sizes and periodic recrawl. In the monitor: the activity tracker, and `UpdateConfig`,
which has no caller; of the MFT scan only whether it succeeds; the UI's reads of the queue's size. In the index: the deferred insertion of the population, the tree walk of
`RecomputeAllPaths` (`PostingIndex` has its effect on rows), the directory caches, 8.3 aliases, the recycle
bin, and attributes. In the crawl: the enumeration calls of the operating systems and progress reports.
In the sort: the selection, the filter caches and folder statistics. `ParallelSearchEngine`,
`ThreadPool`, the MFT reader, `LazyAttributeLoader` and `FolderSizeAggregator` are planned.

## 9. Plan

In this order, each with an abstract specification where one is worth stating:

1. `ScanPartition` and `ThreadPool` (`ParallelSearchEngine`): initial and dynamic chunks over an index
   that changes its size; abstract: each entry scanned once.
2. `ChunkReader` (`DoubleBufferedChunkReader`): two slots, end of file, errors, stop.
3. `LazyAttributes`, `FolderSizes`: work done without a lock and written back under one, with the check or
   generation that makes it safe.
4. The deferred population of the index, with `RecomputeAllPaths`, and its hand-over to the live changes
   of `UsnIngest`.
