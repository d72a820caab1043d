--------------------------- MODULE SearchWorkerRefines ---------------------------
(* The refinement mapping from SearchWorker to SearchService.               *)
EXTENDS SearchWorker

(* The request the worker still owes an answer to: the pending one, or the  *)
(* one being served if nothing is pending.                                  *)
Wanted == IF search_requested THEN next_params
          ELSE IF is_searching THEN params ELSE 0

(* Only a cancel raised after the request was picked up, and not yet        *)
(* followed by a newer request, reaches it.                                 *)
Excused == is_searching /\ ~search_requested /\ cancel_current_search

Answered == IF has_new_results
            THEN [req |-> results_data.req, whole |-> results_data.whole]
            ELSE [req |-> 0, whole |-> TRUE]

Service == INSTANCE SearchService
    WITH Faulty <- CanThrow, last <- started, wanted <- Wanted,
         answer <- Answered, excused <- Excused, stopped <- ~thread_running

(* The worker, its pool and the calls of the UI thread implement the        *)
(* service: nothing but the outstanding request is ever answered, with all  *)
(* of its hits unless it was cancelled, and it is answered once requests    *)
(* stop coming.                                                             *)
ImplementsSearchService == Service!Spec

(* SearchWorker.cpp:567: a search is cut short only by a cancel raised      *)
(* after it was picked up, never by one meant for the search before it.     *)
CancelHitsOnlyCurrent ==
    [][thread_running' /\ ~Excused /\ Excused' => ~cancel_current_search]_vars
=============================================================================
