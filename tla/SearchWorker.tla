---------------------------- MODULE SearchWorker ----------------------------
(***************************************************************************)
(* SearchWorker (src/src/search/SearchWorker.cpp): one background thread   *)
(* that serves the latest search request of the UI thread.                 *)
(*                                                                         *)
(* Actors: the UI thread (StartSearch, GetResultsData, DiscardResults,     *)
(* CancelSearch, SetRecycleSnapshot, the destructor), the worker thread    *)
(* (WorkerThread and what it calls) and the tasks of the thread pool that  *)
(* scan the index.  A section of code under mutex_ is one action; so is    *)
(* each access to an atomic outside of it.                                 *)
(*                                                                         *)
(* A search is named by the number of the StartSearch call that asked for  *)
(* it; 0 names none.  Of the hits only two facts are kept: whether every   *)
(* task scanned its whole range, and whether the batch of recycled items   *)
(* was appended.                                                           *)
(***************************************************************************)
EXTENDS Naturals

CONSTANTS
    MaxSearches,   \* bound: StartSearch calls
    Tasks,         \* bound: futures one search is split into
    CanThrow       \* whether a search may throw (allocation failure)

ASSUME MaxSearchesAssumption == MaxSearches \in Nat
ASSUME TasksAssumption == Tasks \in Nat
ASSUME CanThrowAssumption == CanThrow \in BOOLEAN

VARIABLES
    \* guarded by mutex_
    thread_running, search_requested, next_params,
    has_new_results, results_data, recycle_snapshot,
    \* atomics
    is_searching, search_complete, cancel_current_search,
    \* locals of the worker thread
    pc, params, results, snapshot, future_idx, futures,
    \* the pool: task[i] computes future i; orphans are the running tasks whose
    \* future was destroyed without get()
    task, orphans,
    \* progress of ~SearchWorker, and the number of StartSearch calls
    dtor, started

requestVars == <<thread_running, search_requested, next_params, dtor, started>>
resultVars  == <<has_new_results, results_data>>
statusVars  == <<is_searching, search_complete>>
workerVars  == <<pc, params, results, snapshot, future_idx, futures>>
poolVars    == <<task, orphans>>
vars == <<requestVars, resultVars, statusVars, recycle_snapshot,
          cancel_current_search, workerVars, poolVars>>

Searches == 0..MaxSearches
Indices  == 0..(Tasks - 1)

NoBatches == [whole |-> TRUE, recycled |-> FALSE]
NoData    == [req |-> 0, whole |-> TRUE, recycled |-> FALSE]

Batches == [whole : BOOLEAN, recycled : BOOLEAN]
Data    == [req : Searches, whole : BOOLEAN, recycled : BOOLEAN]

PCs == {"wait", "snapshot", "submit", "check", "get", "drain", "discard",
        "recycle", "publish", "caught", "exited"}

TypeOK ==
    /\ thread_running \in BOOLEAN
    /\ search_requested \in BOOLEAN
    /\ next_params \in Searches
    /\ has_new_results \in BOOLEAN
    /\ results_data \in Data
    /\ recycle_snapshot \in BOOLEAN
    /\ is_searching \in BOOLEAN
    /\ search_complete \in BOOLEAN
    /\ cancel_current_search \in BOOLEAN
    /\ pc \in PCs
    /\ params \in Searches
    /\ results \in Batches
    /\ snapshot \in BOOLEAN
    /\ future_idx \in 0..Tasks
    /\ futures \in 0..Tasks
    /\ task \in [Indices -> {"none", "run", "full", "cut", "lost"}]
    /\ orphans \subseteq Searches \X Indices
    /\ dtor \in {"live", "stopped", "cancelled", "joined"}
    /\ started \in Searches

Init ==
    /\ thread_running = TRUE /\ search_requested = FALSE /\ next_params = 0
    /\ has_new_results = FALSE /\ results_data = NoData
    /\ recycle_snapshot = FALSE
    /\ is_searching = FALSE /\ search_complete = FALSE
    /\ cancel_current_search = FALSE
    /\ pc = "wait" /\ params = 0 /\ results = NoBatches /\ snapshot = FALSE
    /\ future_idx = 0 /\ futures = 0
    /\ task = [i \in Indices |-> "none"] /\ orphans = {}
    /\ dtor = "live" /\ started = 0

-----------------------------------------------------------------------------
(* UI thread.                                                              *)

IsBusy == is_searching \/ search_requested

CancelNothing == cancel_current_search   \* mutant of CancelIfSearching

CancelIfSearching == cancel_current_search \/ is_searching

StartSearch ==
    /\ dtor = "live"
    /\ started < MaxSearches
    /\ started' = started + 1
    /\ next_params' = started + 1
    /\ search_requested' = TRUE
    /\ cancel_current_search' = CancelIfSearching
    /\ UNCHANGED <<thread_running, dtor, resultVars, statusVars,
                   recycle_snapshot, workerVars, poolVars>>

GetResultsData ==
    /\ dtor = "live"
    /\ has_new_results
    /\ has_new_results' = FALSE
    /\ results_data' = NoData
    /\ UNCHANGED <<requestVars, statusVars, recycle_snapshot,
                   cancel_current_search, workerVars, poolVars>>

DiscardResults ==
    /\ dtor = "live"
    /\ has_new_results' = FALSE
    /\ results_data' = NoData
    /\ UNCHANGED <<requestVars, statusVars, recycle_snapshot,
                   cancel_current_search, workerVars, poolVars>>

CancelSearch ==
    /\ dtor = "live"
    /\ cancel_current_search' = TRUE
    /\ UNCHANGED <<requestVars, resultVars, statusVars, recycle_snapshot,
                   workerVars, poolVars>>

SetRecycleSnapshot ==
    /\ dtor = "live"
    /\ recycle_snapshot' = ~recycle_snapshot
    /\ UNCHANGED <<requestVars, resultVars, statusVars,
                   cancel_current_search, workerVars, poolVars>>

(* Mutant of DestructorStop: the section under the lock is missing.         *)
DestructorForgetsFlags ==
    /\ dtor = "live"
    /\ dtor' = "stopped"
    /\ UNCHANGED <<thread_running, search_requested, next_params, started,
                   resultVars, statusVars, recycle_snapshot,
                   cancel_current_search, workerVars, poolVars>>

(* ~SearchWorker: the flags under the lock, then the cancel flag, then join. *)
DestructorStop ==
    /\ dtor = "live"
    /\ dtor' = "stopped"
    /\ thread_running' = FALSE
    /\ search_requested' = FALSE
    /\ UNCHANGED <<next_params, started, resultVars, statusVars,
                   recycle_snapshot, cancel_current_search, workerVars, poolVars>>

DestructorCancel ==
    /\ dtor = "stopped"
    /\ dtor' = "cancelled"
    /\ cancel_current_search' = TRUE
    /\ UNCHANGED <<thread_running, search_requested, next_params, started,
                   resultVars, statusVars, recycle_snapshot, workerVars, poolVars>>

DestructorJoin ==
    /\ dtor = "cancelled"
    /\ pc = "exited"
    /\ dtor' = "joined"
    /\ UNCHANGED <<thread_running, search_requested, next_params, started,
                   resultVars, statusVars, recycle_snapshot,
                   cancel_current_search, workerVars, poolVars>>

-----------------------------------------------------------------------------
(* Worker thread.                                                          *)

CancelKept == cancel_current_search   \* mutant of CancelAtPickUp

CancelAtPickUp == FALSE

WaitForSearchRequest ==
    /\ pc = "wait"
    /\ thread_running /\ search_requested
    /\ params' = next_params
    /\ search_requested' = FALSE
    /\ is_searching' = TRUE
    /\ search_complete' = FALSE
    /\ cancel_current_search' = CancelAtPickUp
    /\ pc' = "snapshot"
    /\ UNCHANGED <<thread_running, next_params, dtor, started, resultVars,
                   recycle_snapshot, results, snapshot, future_idx, futures,
                   poolVars>>

WorkerExit ==
    /\ pc = "wait"
    /\ ~thread_running
    /\ pc' = "exited"
    /\ UNCHANGED <<requestVars, resultVars, statusVars, recycle_snapshot,
                   cancel_current_search, params, results, snapshot,
                   future_idx, futures, poolVars>>

TakeRecycleSnapshot ==
    /\ pc = "snapshot"
    /\ snapshot' = recycle_snapshot
    /\ results' = NoBatches
    /\ future_idx' = 0
    /\ pc' = "submit"
    /\ UNCHANGED <<requestVars, resultVars, statusVars, recycle_snapshot,
                   cancel_current_search, params, futures, poolVars>>

Launch(n) ==
    task' = [i \in Indices |-> IF i < n THEN "run" ELSE "none"]

(* Mutant of Submit: the recycled batch is counted as a future.             *)
SubmitCountsRecycled ==
    /\ pc = "submit"
    /\ \E n \in 0..Tasks :
          /\ futures' = n + 1
          /\ Launch(n)
    /\ pc' = "check"
    /\ UNCHANGED <<requestVars, resultVars, statusVars, recycle_snapshot,
                   cancel_current_search, params, results, snapshot, future_idx,
                   orphans>>

(* SearchAsyncWithData returns n futures: none when the index is empty or   *)
(* the cancel flag is already set.                                          *)
Submit ==
    /\ pc = "submit"
    /\ \E n \in 0..Tasks :
          /\ futures' = n
          /\ Launch(n)
          /\ results' = [results EXCEPT !.whole = (n > 0 \/ ~cancel_current_search)]
    /\ pc' = "check"
    /\ UNCHANGED <<requestVars, resultVars, statusVars, recycle_snapshot,
                   cancel_current_search, params, snapshot, future_idx, orphans>>

(* It throws after enqueueing n tasks: their futures are destroyed, which   *)
(* does not wait for them.                                                  *)
SubmitThrows ==
    /\ CanThrow
    /\ pc = "submit"
    /\ \E n \in 0..Tasks :
          orphans' = orphans \cup {<<params, i>> : i \in {j \in Indices : j < n}}
    /\ pc' = "caught"
    /\ UNCHANGED <<requestVars, resultVars, statusVars, recycle_snapshot,
                   cancel_current_search, params, results, snapshot,
                   future_idx, futures, task>>

OnCancel == "drain"

(* ProcessSearchFutures looks at the cancel flag before every second get,   *)
(* and drains the remaining futures once it is set.                         *)
CheckCancel ==
    /\ pc = "check"
    /\ \/ /\ future_idx = futures
          /\ pc' = "discard"
          /\ UNCHANGED results
       \/ /\ future_idx < futures
          /\ future_idx % 2 = 0 /\ cancel_current_search
          /\ pc' = OnCancel
          /\ results' = [results EXCEPT !.whole = FALSE]
       \/ /\ future_idx < futures
          /\ ~(future_idx % 2 = 0 /\ cancel_current_search)
          /\ pc' = "get"
          /\ UNCHANGED results
    /\ UNCHANGED <<requestVars, resultVars, statusVars, recycle_snapshot,
                   cancel_current_search, params, snapshot, future_idx,
                   futures, poolVars>>

Ready(i) == task[i] \in {"full", "cut", "lost"}

NextFuture == future_idx + 1

GetFuture ==
    /\ pc = "get"
    /\ Ready(future_idx)
    /\ results' = [results EXCEPT !.whole = @ /\ task[future_idx] = "full"]
    /\ task' = [task EXCEPT ![future_idx] = "none"]
    /\ future_idx' = NextFuture
    /\ pc' = "check"
    /\ UNCHANGED <<requestVars, resultVars, statusVars, recycle_snapshot,
                   cancel_current_search, params, snapshot, futures, orphans>>

DrainFuture ==
    /\ pc = "drain"
    /\ Ready(future_idx)
    /\ task' = [task EXCEPT ![future_idx] = "none"]
    /\ future_idx' = NextFuture
    /\ pc' = IF NextFuture = futures THEN "discard" ELSE "drain"
    /\ UNCHANGED <<requestVars, resultVars, statusVars, recycle_snapshot,
                   cancel_current_search, params, results, snapshot, futures,
                   orphans>>

(* get() rethrows what the pool stored when it rejected the task at its own *)
(* shutdown; the remaining futures are destroyed without a get.             *)
GetThrows ==
    /\ CanThrow
    /\ pc \in {"get", "drain"}
    /\ orphans' = orphans \cup
          {<<params, i>> : i \in {j \in Indices : j # future_idx /\ task[j] = "run"}}
    /\ task' = [i \in Indices |-> "none"]
    /\ pc' = "caught"
    /\ UNCHANGED <<requestVars, resultVars, statusVars, recycle_snapshot,
                   cancel_current_search, params, results, snapshot,
                   future_idx, futures>>

NeverSuperseded == FALSE   \* mutant of Superseded

Superseded == search_requested

(* The check under the lock after the primary scan: a superseded search     *)
(* drops its batches and skips the recycled items.                          *)
DiscardIfSuperseded ==
    /\ pc = "discard"
    /\ results' = IF Superseded THEN NoBatches ELSE results
    /\ pc' = IF Superseded THEN "publish" ELSE "recycle"
    /\ UNCHANGED <<requestVars, resultVars, statusVars, recycle_snapshot,
                   cancel_current_search, params, snapshot, future_idx,
                   futures, poolVars>>

ScanRecycle ==
    /\ pc = "recycle"
    /\ \/ UNCHANGED results
       \/ /\ snapshot
          /\ results' = [results EXCEPT !.recycled = TRUE]
    /\ pc' = "publish"
    /\ UNCHANGED <<requestVars, resultVars, statusVars, recycle_snapshot,
                   cancel_current_search, params, snapshot, future_idx,
                   futures, poolVars>>

ScanRecycleThrows ==
    /\ CanThrow
    /\ pc = "recycle" /\ snapshot
    /\ pc' = "caught"
    /\ UNCHANGED <<requestVars, resultVars, statusVars, recycle_snapshot,
                   cancel_current_search, params, results, snapshot,
                   future_idx, futures, poolVars>>

(* The last section of ExecuteSearch: a superseded search publishes nothing *)
(* and leaves is_searching_ set for the search that follows at once.        *)
Publish ==
    /\ pc = "publish"
    /\ ~Superseded
    /\ results_data' = [req |-> params, whole |-> results.whole,
                        recycled |-> results.recycled]
    /\ has_new_results' = TRUE
    /\ is_searching' = FALSE
    /\ search_complete' = TRUE
    /\ pc' = "wait"
    /\ UNCHANGED <<requestVars, recycle_snapshot, cancel_current_search, params,
                   results, snapshot, future_idx, futures, poolVars>>

SkipPublish ==
    /\ pc = "publish"
    /\ Superseded
    /\ pc' = "wait"
    /\ UNCHANGED <<requestVars, resultVars, statusVars, recycle_snapshot,
                   cancel_current_search, params, results, snapshot,
                   future_idx, futures, poolVars>>

(* The catch clauses of WorkerThread.                                       *)
CatchException ==
    /\ pc = "caught"
    /\ is_searching' = FALSE
    /\ search_complete' = TRUE
    /\ pc' = "wait"
    /\ UNCHANGED <<requestVars, resultVars, recycle_snapshot,
                   cancel_current_search, params, results, snapshot,
                   future_idx, futures, poolVars>>

-----------------------------------------------------------------------------
(* Pool tasks.                                                              *)

TaskScans(i) ==
    /\ task[i] = "run"
    /\ task' = [task EXCEPT ![i] = "full"]
    /\ UNCHANGED <<requestVars, resultVars, statusVars, recycle_snapshot,
                   cancel_current_search, workerVars, orphans>>

TaskSeesCancel(i) ==
    /\ task[i] = "run"
    /\ cancel_current_search
    /\ task' = [task EXCEPT ![i] = "cut"]
    /\ UNCHANGED <<requestVars, resultVars, statusVars, recycle_snapshot,
                   cancel_current_search, workerVars, orphans>>

(* A task swallows its exception and returns the batch it has.              *)
TaskThrows(i) ==
    /\ CanThrow
    /\ task[i] = "run"
    /\ task' = [task EXCEPT ![i] = "lost"]
    /\ UNCHANGED <<requestVars, resultVars, statusVars, recycle_snapshot,
                   cancel_current_search, workerVars, orphans>>

OrphanEnds ==
    /\ \E o \in orphans : orphans' = orphans \ {o}
    /\ UNCHANGED <<requestVars, resultVars, statusVars, recycle_snapshot,
                   cancel_current_search, workerVars, task>>

-----------------------------------------------------------------------------
Worker ==
    \/ WaitForSearchRequest \/ WorkerExit \/ TakeRecycleSnapshot
    \/ Submit \/ SubmitThrows \/ CheckCancel \/ GetFuture \/ DrainFuture \/ GetThrows
    \/ DiscardIfSuperseded \/ ScanRecycle \/ ScanRecycleThrows
    \/ Publish \/ SkipPublish \/ CatchException

Pool ==
    \/ \E i \in Indices : TaskScans(i) \/ TaskSeesCancel(i) \/ TaskThrows(i)
    \/ OrphanEnds

Destructor == DestructorStop \/ DestructorCancel \/ DestructorJoin

UI == \/ StartSearch \/ GetResultsData \/ DiscardResults \/ CancelSearch
      \/ SetRecycleSnapshot

(* After join nothing is left to run but orphans.                           *)
Terminated == dtor = "joined" /\ UNCHANGED vars

Next == UI \/ Destructor \/ Worker \/ Pool \/ Terminated

(* The worker thread and the pool threads are scheduled; a destructor that  *)
(* began goes on.  The UI is not obliged to call anything.                  *)
Fairness ==
    /\ WF_vars(Worker)
    /\ WF_vars(DestructorCancel) /\ WF_vars(DestructorJoin)
    /\ \A i \in Indices : WF_vars(TaskScans(i) \/ TaskSeesCancel(i) \/ TaskThrows(i))
    /\ WF_vars(OrphanEnds)

Spec == Init /\ [][Next]_vars /\ Fairness

-----------------------------------------------------------------------------
(* Properties.                                                             *)

(* What PollResults relies on (SearchController.cpp:564): results taken     *)
(* while the worker is not busy belong to the last StartSearch, whatever    *)
(* was started, superseded or cancelled before.                             *)
FreshWhenIdle ==
    (thread_running /\ has_new_results /\ ~IsBusy) => results_data.req = started

(* SearchWorker.cpp:237: is_searching_ is read under the lock, so a request *)
(* that arrives during a scan always finds it and raises the cancel flag;   *)
(* no scan goes on at full length once a newer request is pending.          *)
Scanning == pc \in {"snapshot", "submit", "check", "get", "drain", "discard"}
SupersededScanCancelled ==
    (Scanning /\ search_requested) => cancel_current_search

(* SearchWorker.cpp:223: the store of the destructor is not undone by the   *)
(* reset at the start of a search, though it is made outside of the lock.   *)
DestructorCancelSticks == dtor \in {"cancelled", "joined"} => cancel_current_search

(* SearchWorker.cpp:322: the tasks hold a reference to the index and to the *)
(* cancel flag, so none may still run when the worker thread has ended.     *)
NoTaskOutlivesWorker ==
    pc = "exited" => orphans = {} /\ \A i \in Indices : task[i] # "run"

(* join() in the destructor returns.                                        *)
DestructorTerminates == dtor = "stopped" ~> dtor = "joined"
=============================================================================
