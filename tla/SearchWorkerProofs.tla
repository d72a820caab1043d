------------------------- MODULE SearchWorkerProofs -------------------------
(***************************************************************************)
(* Theorems about SearchWorker, for every number of searches and tasks.    *)
(*                                                                         *)
(* The inductive invariant has three parts: types; how the request fields  *)
(* the UI writes and the locals of the worker name the same search; and    *)
(* which tasks exist at each point of the worker's loop over the futures.  *)
(* The same invariant carries the refinement of SearchService at the end.  *)
(***************************************************************************)
EXTENDS SearchWorkerRefines, TLAPS

USE DEF requestVars, resultVars, statusVars, workerVars, poolVars, vars

AtWork == pc \notin {"wait", "exited"}
InLoop == pc \in {"check", "get", "drain"}

(* Which search each field names, and what the flags say of the worker.     *)
Naming ==
    /\ next_params <= started /\ params <= started
    /\ (dtor = "live" <=> thread_running)
    /\ ~thread_running => ~search_requested
    /\ search_requested => next_params # 0
    /\ (thread_running /\ search_requested) => next_params = started
    /\ is_searching => params # 0
    /\ (thread_running /\ is_searching /\ ~search_requested) => params = started
    /\ AtWork => is_searching
    /\ pc = "caught" => CanThrow
    /\ ~CanThrow /\ thread_running /\ has_new_results /\ ~IsBusy
          => results_data.req = started
    /\ SupersededScanCancelled
    /\ DestructorCancelSticks

(* A batch is incomplete only because of the cancel flag, unless scans throw. *)
Whole ==
    ~CanThrow =>
       /\ AtWork /\ pc # "snapshot" /\ ~results.whole => cancel_current_search
       /\ \A i \in Indices : task[i] # "lost"
       /\ \A i \in Indices : task[i] = "cut" => cancel_current_search

(* A task exists only between its launch and the get of its future.         *)
TasksOfLoop ==
    /\ ~CanThrow => orphans = {}
    /\ pc = "check" => future_idx <= futures
    /\ pc \in {"get", "drain"} => future_idx < futures
    /\ pc = "submit" => future_idx = 0
    /\ \A i \in Indices :
          task[i] # "none" => InLoop /\ future_idx <= i /\ i < futures

IInv == TypeOK /\ Naming /\ Whole /\ TasksOfLoop

-----------------------------------------------------------------------------
(* The values the handlers reset the results to have their types.           *)
LEMMA ConstantTypes == NoData \in Data /\ NoBatches \in Batches
  BY MaxSearchesAssumption DEF NoData, Data, NoBatches, Batches, Searches

(* Types are kept by every step, given where the loop stands.               *)
LEMMA TypeStep == TypeOK /\ TasksOfLoop /\ [Next]_vars => TypeOK'
<1> SUFFICES ASSUME TypeOK /\ TasksOfLoop, [Next]_vars PROVE TypeOK'
  OBVIOUS
<1> USE MaxSearchesAssumption, TasksAssumption, CanThrowAssumption DEF TypeOK
<1>1. CASE StartSearch
  BY <1>1 DEF StartSearch, CancelIfSearching, Searches
<1>2. CASE GetResultsData
  BY <1>2, ConstantTypes DEF GetResultsData
<1>3. CASE DiscardResults
  BY <1>3, ConstantTypes DEF DiscardResults
<1>4. CASE CancelSearch
  BY <1>4 DEF CancelSearch
<1>5. CASE SetRecycleSnapshot
  BY <1>5 DEF SetRecycleSnapshot
<1>6. CASE DestructorStop
  BY <1>6 DEF DestructorStop
<1>7. CASE DestructorCancel
  BY <1>7 DEF DestructorCancel
<1>8. CASE DestructorJoin
  BY <1>8 DEF DestructorJoin
<1>9. CASE WaitForSearchRequest
  BY <1>9 DEF WaitForSearchRequest, CancelAtPickUp, PCs
<1>10. CASE WorkerExit
  BY <1>10 DEF WorkerExit, PCs
<1>11. CASE TakeRecycleSnapshot
  BY <1>11, ConstantTypes DEF TakeRecycleSnapshot, PCs
<1>12. CASE Submit
  BY <1>12 DEF Submit, Launch, PCs, Batches, Indices
<1>13. CASE SubmitThrows
  BY <1>13 DEF SubmitThrows, PCs, Indices
<1>14. CASE CheckCancel
  BY <1>14 DEF CheckCancel, OnCancel, PCs, Batches
<1>15. CASE GetFuture
  <2>1. future_idx' \in 0..Tasks
    BY <1>15 DEF GetFuture, NextFuture, TasksOfLoop
  <2>2. results' \in Batches
    BY <1>15 DEF GetFuture, Batches
  <2>3. task' \in [Indices -> {"none", "run", "full", "cut", "lost"}]
    BY <1>15 DEF GetFuture
  <2>4. pc' \in PCs
    BY <1>15 DEF GetFuture, PCs
  <2>5. QED
    BY <1>15, <2>1, <2>2, <2>3, <2>4 DEF GetFuture
<1>16. CASE DrainFuture
  BY <1>16 DEF DrainFuture, Ready, NextFuture, PCs, Indices, TasksOfLoop
<1>17. CASE GetThrows
  BY <1>17 DEF GetThrows, PCs, Indices
<1>18. CASE DiscardIfSuperseded
  BY <1>18, ConstantTypes DEF DiscardIfSuperseded, Superseded, PCs
<1>19. CASE ScanRecycle
  BY <1>19 DEF ScanRecycle, PCs, Batches
<1>20. CASE ScanRecycleThrows
  BY <1>20 DEF ScanRecycleThrows, PCs
<1>21. CASE Publish
  BY <1>21 DEF Publish, Superseded, PCs, Data, Batches
<1>22. CASE SkipPublish
  BY <1>22 DEF SkipPublish, Superseded, PCs
<1>23. CASE CatchException
  BY <1>23 DEF CatchException, PCs
<1>24. ASSUME NEW i \in Indices, TaskScans(i) \/ TaskSeesCancel(i) \/ TaskThrows(i)
      PROVE TypeOK'
  BY <1>24 DEF TaskScans, TaskSeesCancel, TaskThrows
<1>25. CASE OrphanEnds
  BY <1>25 DEF OrphanEnds
<1>26. CASE Terminated \/ UNCHANGED vars
  BY <1>26 DEF Terminated
<1>27. QED
  BY <1>1, <1>2, <1>3, <1>4, <1>5, <1>6, <1>7, <1>8, <1>9, <1>10, <1>11, <1>12, <1>13, <1>14, <1>15, <1>16, <1>17, <1>18, <1>19, <1>20, <1>21, <1>22, <1>23, <1>24, <1>25, <1>26
  DEF Next, UI, Destructor, Worker, Pool

(* The request fields, the locals and the flags keep naming one search.     *)
LEMMA NamingStep == TypeOK /\ Naming /\ [Next]_vars => Naming'
<1> SUFFICES ASSUME TypeOK /\ Naming, [Next]_vars PROVE Naming'
  OBVIOUS
<1> USE MaxSearchesAssumption, TasksAssumption, CanThrowAssumption DEF TypeOK, Naming, PCs, Searches, Data, NoData, AtWork, IsBusy,
  Scanning, SupersededScanCancelled, DestructorCancelSticks
<1>1. CASE StartSearch
  BY <1>1 DEF StartSearch, CancelIfSearching
<1>2. CASE GetResultsData
  BY <1>2 DEF GetResultsData
<1>3. CASE DiscardResults
  BY <1>3 DEF DiscardResults
<1>4. CASE CancelSearch
  BY <1>4 DEF CancelSearch
<1>5. CASE SetRecycleSnapshot
  BY <1>5 DEF SetRecycleSnapshot
<1>6. CASE DestructorStop
  BY <1>6 DEF DestructorStop
<1>7. CASE DestructorCancel
  BY <1>7 DEF DestructorCancel
<1>8. CASE DestructorJoin
  BY <1>8 DEF DestructorJoin
<1>9. CASE WaitForSearchRequest
  BY <1>9 DEF WaitForSearchRequest, CancelAtPickUp
<1>10. CASE WorkerExit
  BY <1>10 DEF WorkerExit
<1>11. CASE TakeRecycleSnapshot
  BY <1>11 DEF TakeRecycleSnapshot
<1>12. CASE Submit
  BY <1>12 DEF Submit, Launch
<1>13. CASE SubmitThrows
  BY <1>13 DEF SubmitThrows
<1>14. CASE CheckCancel
  BY <1>14 DEF CheckCancel, OnCancel
<1>15. CASE GetFuture
  BY <1>15 DEF GetFuture, Ready, NextFuture
<1>16. CASE DrainFuture
  BY <1>16 DEF DrainFuture, Ready, NextFuture
<1>17. CASE GetThrows
  BY <1>17 DEF GetThrows
<1>18. CASE DiscardIfSuperseded
  BY <1>18 DEF DiscardIfSuperseded, Superseded
<1>19. CASE ScanRecycle
  BY <1>19 DEF ScanRecycle
<1>20. CASE ScanRecycleThrows
  BY <1>20 DEF ScanRecycleThrows
<1>21. CASE Publish
  BY <1>21 DEF Publish, Superseded
<1>22. CASE SkipPublish
  BY <1>22 DEF SkipPublish, Superseded
<1>23. CASE CatchException
  BY <1>23 DEF CatchException
<1>24. ASSUME NEW i \in Indices, TaskScans(i) \/ TaskSeesCancel(i) \/ TaskThrows(i)
      PROVE Naming'
  BY <1>24 DEF TaskScans, TaskSeesCancel, TaskThrows
<1>25. CASE OrphanEnds
  BY <1>25 DEF OrphanEnds
<1>26. CASE Terminated \/ UNCHANGED vars
  BY <1>26 DEF Terminated
<1>27. QED
  BY <1>1, <1>2, <1>3, <1>4, <1>5, <1>6, <1>7, <1>8, <1>9, <1>10, <1>11, <1>12, <1>13, <1>14, <1>15, <1>16, <1>17, <1>18, <1>19, <1>20, <1>21, <1>22, <1>23, <1>24, <1>25, <1>26
  DEF Next, UI, Destructor, Worker, Pool

(* Nothing is missing from a batch unless the cancel flag is up.            *)
LEMMA WholeStep == TypeOK /\ Naming /\ TasksOfLoop /\ Whole /\ [Next]_vars => Whole'
<1> SUFFICES ASSUME TypeOK /\ Naming /\ TasksOfLoop /\ Whole, [Next]_vars PROVE Whole'
  OBVIOUS
<1> USE MaxSearchesAssumption, TasksAssumption, CanThrowAssumption DEF TypeOK, Naming, TasksOfLoop, Whole, PCs, Indices, Batches,
  NoBatches, AtWork, InLoop
<1>1. CASE StartSearch
  BY <1>1 DEF StartSearch, CancelIfSearching
<1>2. CASE GetResultsData
  BY <1>2 DEF GetResultsData
<1>3. CASE DiscardResults
  BY <1>3 DEF DiscardResults
<1>4. CASE CancelSearch
  BY <1>4 DEF CancelSearch
<1>5. CASE SetRecycleSnapshot
  BY <1>5 DEF SetRecycleSnapshot
<1>6. CASE DestructorStop
  BY <1>6 DEF DestructorStop
<1>7. CASE DestructorCancel
  BY <1>7 DEF DestructorCancel
<1>8. CASE DestructorJoin
  BY <1>8 DEF DestructorJoin
<1>9. CASE WaitForSearchRequest
  BY <1>9 DEF WaitForSearchRequest, CancelAtPickUp
<1>10. CASE WorkerExit
  BY <1>10 DEF WorkerExit
<1>11. CASE TakeRecycleSnapshot
  BY <1>11 DEF TakeRecycleSnapshot
<1>12. CASE Submit
  BY <1>12 DEF Submit, Launch
<1>13. CASE SubmitThrows
  BY <1>13 DEF SubmitThrows
<1>14. CASE CheckCancel
  BY <1>14 DEF CheckCancel, OnCancel
<1>15. CASE GetFuture
  BY <1>15 DEF GetFuture, Ready, NextFuture
<1>16. CASE DrainFuture
  BY <1>16 DEF DrainFuture, Ready, NextFuture
<1>17. CASE GetThrows
  BY <1>17 DEF GetThrows
<1>18. CASE DiscardIfSuperseded
  BY <1>18 DEF DiscardIfSuperseded, Superseded
<1>19. CASE ScanRecycle
  BY <1>19 DEF ScanRecycle
<1>20. CASE ScanRecycleThrows
  BY <1>20 DEF ScanRecycleThrows
<1>21. CASE Publish
  BY <1>21 DEF Publish, Superseded
<1>22. CASE SkipPublish
  BY <1>22 DEF SkipPublish, Superseded
<1>23. CASE CatchException
  BY <1>23 DEF CatchException
<1>24. ASSUME NEW i \in Indices, TaskScans(i) \/ TaskSeesCancel(i) \/ TaskThrows(i)
      PROVE Whole'
  BY <1>24 DEF TaskScans, TaskSeesCancel, TaskThrows
<1>25. CASE OrphanEnds
  BY <1>25 DEF OrphanEnds
<1>26. CASE Terminated \/ UNCHANGED vars
  BY <1>26 DEF Terminated
<1>27. QED
  BY <1>1, <1>2, <1>3, <1>4, <1>5, <1>6, <1>7, <1>8, <1>9, <1>10, <1>11, <1>12, <1>13, <1>14, <1>15, <1>16, <1>17, <1>18, <1>19, <1>20, <1>21, <1>22, <1>23, <1>24, <1>25, <1>26
  DEF Next, UI, Destructor, Worker, Pool

(* The tasks in flight are those of the futures not yet taken.              *)
LEMMA TasksStep == TypeOK /\ Naming /\ TasksOfLoop /\ [Next]_vars => TasksOfLoop'
<1> SUFFICES ASSUME TypeOK /\ Naming /\ TasksOfLoop, [Next]_vars PROVE TasksOfLoop'
  OBVIOUS
<1> USE MaxSearchesAssumption, TasksAssumption, CanThrowAssumption DEF TypeOK, Naming, TasksOfLoop, PCs, Indices, InLoop
<1>1. CASE StartSearch
  BY <1>1 DEF StartSearch, CancelIfSearching
<1>2. CASE GetResultsData
  BY <1>2 DEF GetResultsData
<1>3. CASE DiscardResults
  BY <1>3 DEF DiscardResults
<1>4. CASE CancelSearch
  BY <1>4 DEF CancelSearch
<1>5. CASE SetRecycleSnapshot
  BY <1>5 DEF SetRecycleSnapshot
<1>6. CASE DestructorStop
  BY <1>6 DEF DestructorStop
<1>7. CASE DestructorCancel
  BY <1>7 DEF DestructorCancel
<1>8. CASE DestructorJoin
  BY <1>8 DEF DestructorJoin
<1>9. CASE WaitForSearchRequest
  BY <1>9 DEF WaitForSearchRequest, CancelAtPickUp
<1>10. CASE WorkerExit
  BY <1>10 DEF WorkerExit
<1>11. CASE TakeRecycleSnapshot
  BY <1>11 DEF TakeRecycleSnapshot
<1>12. CASE Submit
  BY <1>12 DEF Submit, Launch
<1>13. CASE SubmitThrows
  BY <1>13 DEF SubmitThrows
<1>14. CASE CheckCancel
  BY <1>14 DEF CheckCancel, OnCancel
<1>15. CASE GetFuture
  BY <1>15 DEF GetFuture, Ready, NextFuture
<1>16. CASE DrainFuture
  BY <1>16 DEF DrainFuture, Ready, NextFuture
<1>17. CASE GetThrows
  BY <1>17 DEF GetThrows
<1>18. CASE DiscardIfSuperseded
  BY <1>18 DEF DiscardIfSuperseded, Superseded
<1>19. CASE ScanRecycle
  BY <1>19 DEF ScanRecycle
<1>20. CASE ScanRecycleThrows
  BY <1>20 DEF ScanRecycleThrows
<1>21. CASE Publish
  BY <1>21 DEF Publish, Superseded
<1>22. CASE SkipPublish
  BY <1>22 DEF SkipPublish, Superseded
<1>23. CASE CatchException
  BY <1>23 DEF CatchException
<1>24. ASSUME NEW i \in Indices, TaskScans(i) \/ TaskSeesCancel(i) \/ TaskThrows(i)
      PROVE TasksOfLoop'
  BY <1>24 DEF TaskScans, TaskSeesCancel, TaskThrows
<1>25. CASE OrphanEnds
  BY <1>25 DEF OrphanEnds
<1>26. CASE Terminated \/ UNCHANGED vars
  BY <1>26 DEF Terminated
<1>27. QED
  BY <1>1, <1>2, <1>3, <1>4, <1>5, <1>6, <1>7, <1>8, <1>9, <1>10, <1>11, <1>12, <1>13, <1>14, <1>15, <1>16, <1>17, <1>18, <1>19, <1>20, <1>21, <1>22, <1>23, <1>24, <1>25, <1>26
  DEF Next, UI, Destructor, Worker, Pool

(* The inductive invariant holds throughout.                                *)
THEOREM InvariantHolds == Spec => []IInv
<1>1. Init => IInv
  <2> SUFFICES ASSUME Init PROVE IInv
    OBVIOUS
  <2>1. TypeOK
    <3>1. next_params \in Searches /\ params \in Searches /\ started \in Searches
      BY MaxSearchesAssumption DEF Init, Searches
    <3>2. future_idx \in 0..Tasks /\ futures \in 0..Tasks
      BY TasksAssumption DEF Init
    <3>3. task \in [Indices -> {"none", "run", "full", "cut", "lost"}]
      BY DEF Init
    <3>4. orphans \subseteq Searches \X Indices
      BY DEF Init
    <3>5. results_data \in Data /\ results \in Batches
      BY ConstantTypes DEF Init
    <3>6. QED
      BY <3>1, <3>2, <3>3, <3>4, <3>5 DEF Init, TypeOK, PCs
  <2>2. Naming
    BY DEF Init, Naming, AtWork, IsBusy, Scanning, NoData, SupersededScanCancelled,
           DestructorCancelSticks
  <2>3. Whole /\ TasksOfLoop
    BY DEF Init, Whole, TasksOfLoop, AtWork, InLoop
  <2>4. QED
    BY <2>1, <2>2, <2>3 DEF IInv
<1>2. IInv /\ [Next]_vars => IInv'
  BY TypeStep, NamingStep, WholeStep, TasksStep DEF IInv
<1>3. QED
  BY <1>1, <1>2, PTL DEF Spec

(* Every variable keeps its type: the position in the loop over the futures *)
(* stays within them, whatever order the tasks finish in.                   *)
THEOREM TypeCorrect == Spec => []TypeOK
<1>1. IInv => TypeOK
  BY DEF IInv
<1>2. QED
  BY <1>1, InvariantHolds, PTL

(* When searches do not throw, an idle worker hands out the results of the  *)
(* last StartSearch: what PollResults takes is never an older search.       *)
THEOREM IdleResultsAreFresh == ~CanThrow => (Spec => []FreshWhenIdle)
<1> SUFFICES ASSUME ~CanThrow PROVE Spec => []FreshWhenIdle
  OBVIOUS
<1>1. IInv => FreshWhenIdle
  BY DEF IInv, Naming, FreshWhenIdle
<1>2. QED
  BY <1>1, InvariantHolds, PTL

(* A request that arrives during a scan raises the cancel flag, and the     *)
(* flag stays up until the scan has ended, also when scans throw.           *)
THEOREM SupersededIsCancelled == Spec => []SupersededScanCancelled
<1>1. IInv => SupersededScanCancelled
  BY DEF IInv, Naming
<1>2. QED
  BY <1>1, InvariantHolds, PTL

(* The store of the destructor is never undone by a search that starts.     *)
THEOREM DestructorCancelStays == Spec => []DestructorCancelSticks
<1>1. IInv => DestructorCancelSticks
  BY DEF IInv, Naming
<1>2. QED
  BY <1>1, InvariantHolds, PTL

(* When searches do not throw, no pool task refers to the index or to the   *)
(* cancel flag once the worker thread has ended.                            *)
THEOREM TasksEndFirst == ~CanThrow => (Spec => []NoTaskOutlivesWorker)
<1> SUFFICES ASSUME ~CanThrow PROVE Spec => []NoTaskOutlivesWorker
  OBVIOUS
<1>1. IInv => NoTaskOutlivesWorker
  BY DEF IInv, TasksOfLoop, InLoop, NoTaskOutlivesWorker
<1>2. QED
  BY <1>1, InvariantHolds, PTL

-----------------------------------------------------------------------------
(* The worker implements the request/answer service: every step of the      *)
(* worker, of its pool and of its caller is a step of the service or leaves *)
(* what the caller sees alone.                                              *)

(* What the caller sees: all a stuttering step must leave alone.            *)
Visible == <<started, Wanted, Answered, Excused, ~thread_running>>

(* The steps that concern neither the request, its cancel flag nor the      *)
(* answer.                                                                  *)
Internal ==
    \/ SetRecycleSnapshot \/ DestructorJoin \/ WorkerExit \/ TakeRecycleSnapshot
    \/ Submit \/ SubmitThrows \/ CheckCancel \/ GetFuture \/ DrainFuture \/ GetThrows
    \/ DiscardIfSuperseded \/ ScanRecycle \/ ScanRecycleThrows \/ SkipPublish
    \/ Pool \/ Terminated \/ UNCHANGED vars

(* Scans, futures, the recycle snapshot and join() are invisible.           *)
LEMMA InternalStutters == Internal => UNCHANGED Visible
<1> SUFFICES ASSUME Internal PROVE UNCHANGED Visible
  OBVIOUS
<1>1. UNCHANGED <<started, search_requested, next_params, is_searching, params,
                  cancel_current_search, has_new_results, results_data,
                  thread_running>>
  <2>1. CASE SetRecycleSnapshot \/ DestructorJoin \/ WorkerExit \/ TakeRecycleSnapshot
    BY <2>1 DEF SetRecycleSnapshot, DestructorJoin, WorkerExit, TakeRecycleSnapshot,
         requestVars, resultVars, statusVars, workerVars
  <2>2. CASE Submit \/ SubmitThrows \/ CheckCancel \/ GetFuture \/ DrainFuture \/ GetThrows
    BY <2>2 DEF Submit, SubmitThrows, CheckCancel, GetFuture, DrainFuture, GetThrows,
         requestVars, resultVars, statusVars, workerVars
  <2>3. CASE DiscardIfSuperseded \/ ScanRecycle \/ ScanRecycleThrows \/ SkipPublish
    BY <2>3 DEF DiscardIfSuperseded, Superseded, ScanRecycle, ScanRecycleThrows, SkipPublish,
         requestVars, resultVars, statusVars, workerVars
  <2>4. CASE Pool
    BY <2>4 DEF Pool, TaskScans, TaskSeesCancel, TaskThrows, OrphanEnds,
         requestVars, resultVars, statusVars, workerVars
  <2>5. CASE Terminated \/ UNCHANGED vars
    BY <2>5 DEF Terminated, vars, requestVars, resultVars, statusVars, workerVars
  <2>6. QED
    BY <2>1, <2>2, <2>3, <2>4, <2>5 DEF Internal
<1>2. QED
  BY <1>1 DEF Visible, Wanted, Answered, Excused

(* Each visible step is the step of the service it stands for.              *)
LEMMA StepImplements == IInv /\ [Next]_vars => [Service!Next]_(Service!svars)
<1> SUFFICES ASSUME IInv, [Next]_vars PROVE Service!Next \/ UNCHANGED Visible
  BY DEF Service!svars, Visible
<1> USE DEF Wanted, Excused, Answered, requestVars, resultVars, statusVars, workerVars
<1>1. CASE StartSearch
  <2>1. Service!Request
    BY <1>1 DEF StartSearch, IInv, Naming, Service!Request
  <2>2. QED
    BY <2>1 DEF Service!Next
<1>2. CASE GetResultsData \/ DiscardResults
  <2>1. Service!Take
    BY <1>2 DEF GetResultsData, DiscardResults, IInv, Naming, Service!Take,
         Service!NoAnswer
  <2>2. QED
    BY <2>1 DEF Service!Next
<1>3. CASE CancelSearch
  <2>1. CASE is_searching /\ ~search_requested
    <3>1. Service!Cancel
      BY <1>3, <2>1 DEF CancelSearch, IInv, Naming, Service!Cancel
    <3>2. QED
      BY <3>1 DEF Service!Next
  <2>2. CASE ~(is_searching /\ ~search_requested)
    BY <1>3, <2>2 DEF CancelSearch, Visible
  <2>3. QED
    BY <2>1, <2>2
<1>4. CASE DestructorStop
  <2>1. Wanted' \in 0..started
    BY <1>4 DEF DestructorStop, IInv, TypeOK, Searches, Naming
  <2>2. Service!Stop
    BY <1>4, <2>1 DEF DestructorStop, IInv, TypeOK, Naming, Service!Stop
  <2>3. QED
    BY <2>2 DEF Service!Next
<1>5. CASE DestructorCancel
  <2>1. CASE is_searching
    <3>1. Service!CancelOnStop
      BY <1>5, <2>1 DEF DestructorCancel, IInv, Naming, Service!CancelOnStop
    <3>2. QED
      BY <3>1 DEF Service!Next
  <2>2. CASE ~is_searching
    BY <1>5, <2>2 DEF DestructorCancel, Visible
  <2>3. QED
    BY <2>1, <2>2
<1>6. CASE WaitForSearchRequest
  BY <1>6 DEF WaitForSearchRequest, CancelAtPickUp, Visible
<1>7. CASE Publish
  <2>1. is_searching /\ params # 0
    BY <1>7 DEF Publish, Superseded, IInv, Naming, AtWork
  <2>2. results.whole \in BOOLEAN
    BY DEF IInv, TypeOK, Batches
  <2>3. ~results.whole => Excused \/ CanThrow
    BY <1>7, <2>1 DEF Publish, Superseded, IInv, Whole, AtWork
  <2>4. Service!Answer
    BY <1>7, <2>1, <2>2, <2>3 DEF Publish, Superseded, Service!Answer
  <2>5. QED
    BY <2>4 DEF Service!Next
<1>8. CASE CatchException
  <2>1. is_searching /\ params # 0 /\ CanThrow
    BY <1>8 DEF CatchException, IInv, Naming, AtWork
  <2>2. CASE search_requested
    BY <1>8, <2>2 DEF CatchException, Visible
  <2>3. CASE ~search_requested
    <3>1. Service!Drop
      BY <1>8, <2>1, <2>3 DEF CatchException, Service!Drop
    <3>2. QED
      BY <3>1 DEF Service!Next
  <2>4. QED
    BY <2>2, <2>3
<1>9. CASE Internal
  BY <1>9, InternalStutters
<1>10. QED
  BY <1>1, <1>2, <1>3, <1>4, <1>5, <1>6, <1>7, <1>8, <1>9
  DEF Next, UI, Destructor, Worker, Internal

(* The safety half of the refinement: nothing but the outstanding request   *)
(* is ever answered, with all its hits unless it was cancelled, for any     *)
(* number of searches and futures, and whether or not searches throw.       *)
THEOREM ImplementsSafety == Spec => Service!Safety
<1>1. Init => Service!Init
  BY DEF Init, Service!Init, Wanted, Excused, Answered, Service!NoAnswer
<1>2. QED
  BY <1>1, StepImplements, InvariantHolds, PTL DEF Spec, Service!Safety
(* A search is cut short only by a cancel raised after it was picked up:    *)
(* picking a search up lowers the flag, every other step that lowers        *)
(* search_requested ends the thread, and what is left raises the flag.      *)
THEOREM CancelReachesItsSearch == Spec => CancelHitsOnlyCurrent
<1> DEFINE Same == UNCHANGED <<is_searching, search_requested, cancel_current_search>>
<1>1. ASSUME [Next]_vars, thread_running', ~Excused, Excused'
      PROVE  ~cancel_current_search
  <2> USE DEF requestVars, resultVars, statusVars
  <2>1. CASE StartSearch
    BY <1>1, <2>1 DEF StartSearch, Excused
  <2>2. CASE CancelSearch
    <3>1. UNCHANGED <<is_searching, search_requested>>
      BY <2>2 DEF CancelSearch
    <3>2. QED
      BY <1>1, <3>1 DEF Excused
  <2>3. CASE Destructor
    BY <1>1, <2>3 DEF Destructor, DestructorStop, DestructorCancel, DestructorJoin, Excused
  <2>4. CASE WaitForSearchRequest
    BY <1>1, <2>4 DEF WaitForSearchRequest, CancelAtPickUp, Excused
  <2>5. CASE Publish \/ CatchException
    BY <1>1, <2>5 DEF Publish, CatchException, Excused
  <2>6. CASE Same
    BY <1>1, <2>6 DEF Excused
  <2>7. GetResultsData \/ DiscardResults \/ SetRecycleSnapshot => Same
    BY DEF GetResultsData, DiscardResults, SetRecycleSnapshot
  <2>8. \/ WorkerExit \/ TakeRecycleSnapshot \/ Submit \/ SubmitThrows
        \/ CheckCancel \/ GetFuture \/ DrainFuture \/ GetThrows
        => Same
    BY DEF WorkerExit, TakeRecycleSnapshot, Submit, SubmitThrows,
       CheckCancel, GetFuture, DrainFuture, GetThrows
  <2>9. DiscardIfSuperseded \/ ScanRecycle \/ ScanRecycleThrows \/ SkipPublish => Same
    BY DEF DiscardIfSuperseded, ScanRecycle, ScanRecycleThrows, SkipPublish
  <2>10. Pool => Same
    BY DEF Pool, TaskScans, TaskSeesCancel, TaskThrows, OrphanEnds
  <2>11. UNCHANGED vars => Same
    BY DEF vars
  <2>12. QED
    BY <1>1, <2>1, <2>2, <2>3, <2>4, <2>5, <2>6, <2>7, <2>8, <2>9, <2>10, <2>11
       DEF Next, UI, Worker, Terminated
<1>2. [Next]_vars => [thread_running' /\ ~Excused /\ Excused' => ~cancel_current_search]_vars
  BY <1>1
<1>3. QED
  BY <1>2, PTL DEF Spec, CancelHitsOnlyCurrent
=============================================================================
