--------------------------- MODULE SearchService ---------------------------
(***************************************************************************)
(* What SearchWorker promises its caller, without threads, locks or tasks: *)
(* at most one request is outstanding, the latest one; it is answered for  *)
(* itself, with all of its hits unless it was cancelled after the worker   *)
(* had begun it; an answer stays until it is taken, discarded or replaced. *)
(* A faulty service may also drop the outstanding request, or answer it    *)
(* with part of its hits.                                                  *)
(***************************************************************************)
EXTENDS Naturals

CONSTANTS MaxSearches, Faulty

VARIABLES
    last,      \* number of the last request
    wanted,    \* the outstanding request, 0 when there is none
    answer,    \* [req, whole], req = 0 when there is none to take
    excused,   \* the outstanding request was cancelled
    stopped    \* the service is being shut down

svars == <<last, wanted, answer, excused, stopped>>

NoAnswer == [req |-> 0, whole |-> TRUE]

Init ==
    /\ last = 0 /\ wanted = 0 /\ answer = NoAnswer
    /\ excused = FALSE /\ stopped = FALSE

Request ==
    /\ ~stopped
    /\ last < MaxSearches
    /\ last' = last + 1
    /\ wanted' = last + 1
    /\ excused' = FALSE
    /\ UNCHANGED <<answer, stopped>>

Cancel ==
    /\ ~stopped
    /\ wanted # 0
    /\ excused' = TRUE
    /\ UNCHANGED <<last, wanted, answer, stopped>>

Answer ==
    /\ wanted # 0
    /\ \E w \in BOOLEAN :
          /\ ~w => excused \/ Faulty \/ stopped
          /\ answer' = [req |-> wanted, whole |-> w]
    /\ wanted' = 0
    /\ excused' = FALSE
    /\ UNCHANGED <<last, stopped>>

Drop ==
    /\ Faulty
    /\ wanted # 0
    /\ wanted' = 0
    /\ excused' = FALSE
    /\ UNCHANGED <<last, answer, stopped>>

Take ==
    /\ ~stopped
    /\ answer' = NoAnswer
    /\ UNCHANGED <<last, wanted, excused, stopped>>

(* A service that stops promises nothing about the outstanding request.     *)
Stop ==
    /\ ~stopped
    /\ stopped' = TRUE
    /\ wanted' \in 0..last
    /\ excused' \in BOOLEAN
    /\ UNCHANGED <<last, answer>>

CancelOnStop ==
    /\ stopped
    /\ excused' = TRUE
    /\ UNCHANGED <<last, wanted, answer, stopped>>

Next == Request \/ Cancel \/ Answer \/ Drop \/ Take \/ Stop \/ CancelOnStop

Safety == Init /\ [][Next]_svars

(* The outstanding request is answered or dropped unless the service stops. *)
Spec == Safety /\ WF_svars(~stopped /\ (Answer \/ Drop))
=============================================================================
