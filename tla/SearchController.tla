--------------------------- MODULE SearchController ---------------------------
(***************************************************************************)
(* The frame loop of the UI thread around SearchController::Update         *)
(* (src/src/search/SearchController.cpp), with the user, the index build   *)
(* and the index mutations as its environment.  The worker is the service  *)
(* SearchWorker implements: a search is named by the number of its         *)
(* StartSearch call, and answered by it at any time.                       *)
(*                                                                         *)
(* A frame passes through the phases below; between two of them the worker *)
(* and the index may take steps, which is where a frame reads state that   *)
(* changes under it.  Two reads of the worker stand in one phase only when *)
(* no answer between them can make a difference.                           *)
(*                                                                         *)
(* A text is a number, 0 the empty search box.  Elapsed times are the      *)
(* flags quiet (the user stopped typing) and cooled (auto-refresh may run).*)
(***************************************************************************)
EXTENDS Naturals

CONSTANTS
    MaxSearches,    \* bound of the service; never reached, see below
    Faulty,         \* whether searches may throw
    MaxActs,        \* bound: acts of the user and index builds, together
    MaxMutations,   \* bound: changes of the index outside of a build
    MaxBuilds       \* bound: index builds

ASSUME BoundsAssumption ==
    /\ {MaxSearches, MaxActs, MaxMutations, MaxBuilds} \subseteq Nat
    /\ MaxSearches >= MaxActs + MaxMutations
    /\ MaxBuilds <= MaxActs
ASSUME FaultyAssumption == Faulty \in BOOLEAN

VARIABLES
    \* the service, and what each search was asked for
    last, wanted, answer, excused, asked,
    \* GuiState: the inputs
    criteria, instant_search, auto_refresh, input_changed, quiet,
    \* GuiState: the search pipeline and the visible results
    search_active, clear_results_requested, last_index_mutation, cooled, shown,
    \* history of manual searches
    search_was_manual, pending_manual_history_record, completed_manual,
    last_search_params, history,
    \* the frame: its phase, and what it read at its start
    phase, frame,
    \* the environment
    index_building, last_active, index_mutation, usn_backlog, acts, builds,
    \* the last search that a Clear has made stale; whether a manual search
    \* was started since the last history entry
    cleared_at, manual_open

serviceVars == <<last, wanted, answer, excused, asked>>
inputVars   == <<criteria, instant_search, auto_refresh, input_changed, quiet>>
pipeVars    == <<search_active, clear_results_requested, last_index_mutation, cooled, shown>>
historyVars == <<search_was_manual, pending_manual_history_record, completed_manual,
                 last_search_params, history>>
envVars     == <<index_building, last_active, index_mutation, usn_backlog, acts, builds>>
ghostVars   == <<cleared_at, manual_open>>
vars == <<serviceVars, inputVars, pipeVars, historyVars, phase, frame, envVars, ghostVars>>

Searches == 0..MaxSearches
Texts    == 0..MaxActs
Versions == 0..MaxMutations

Nothing == [req |-> 0, whole |-> TRUE]   \* no results

Phases == {"begin", "shortcuts", "clear", "poll", "cancel", "debounce", "refresh",
           "record", "render"}

(* The worker is stopped only after the last frame.                         *)
Service == INSTANCE SearchService WITH stopped <- (phase \notin Phases)

TypeOK ==
    /\ last \in Searches /\ wanted \in Searches /\ excused \in BOOLEAN
    /\ answer \in [req : Searches, whole : BOOLEAN]
    /\ asked \in [1..MaxSearches -> [text : Texts, version : Versions]]
    /\ criteria \in Texts
    /\ {instant_search, auto_refresh, input_changed, quiet} \subseteq BOOLEAN
    /\ {search_active, clear_results_requested, cooled} \subseteq BOOLEAN
    /\ last_index_mutation \in Versions
    /\ shown \in [req : Searches, whole : BOOLEAN]
    /\ {search_was_manual, pending_manual_history_record} \subseteq BOOLEAN
    /\ completed_manual \in Searches
    /\ last_search_params \in Texts
    /\ history \in [text : Texts, of : Searches]
    /\ phase \in Phases
    /\ frame \in [building : BOOLEAN, active : BOOLEAN, mutation : Versions,
                  backlog : BOOLEAN]
    /\ {index_building, last_active, usn_backlog} \subseteq BOOLEAN
    /\ index_mutation \in Versions
    /\ acts \in 0..MaxActs /\ builds \in 0..MaxBuilds
    /\ cleared_at \in Searches /\ manual_open \in BOOLEAN

Init ==
    /\ phase = "begin"
    /\ Service!Init
    /\ asked = [n \in 1..MaxSearches |-> [text |-> 0, version |-> 0]]
    /\ criteria = 0 /\ instant_search \in BOOLEAN /\ auto_refresh \in BOOLEAN
    /\ input_changed = FALSE /\ quiet = TRUE
    /\ search_active = FALSE /\ clear_results_requested = FALSE
    /\ last_index_mutation = 0 /\ cooled = TRUE /\ shown = Nothing
    /\ search_was_manual = FALSE /\ pending_manual_history_record = FALSE
    /\ completed_manual = 0 /\ last_search_params = 0
    /\ history = [text |-> 0, of |-> 0]
    /\ frame = [building |-> FALSE, active |-> FALSE, mutation |-> 0, backlog |-> FALSE]
    /\ index_building \in {b \in BOOLEAN : b => MaxBuilds > 0}
    /\ last_active = index_building /\ builds = (IF index_building THEN 1 ELSE 0)
    /\ index_mutation = 0 /\ usn_backlog = FALSE /\ acts = 0
    /\ cleared_at = 0 /\ manual_open = FALSE

-----------------------------------------------------------------------------
(* What the steps below are made of.                                       *)

IsBusy == wanted # 0
HasNewResults == answer.req # 0
HasSearchText == criteria # 0

StartSearch ==
    /\ Service!Request
    /\ asked' = [asked EXCEPT ![last + 1] = [text |-> criteria, version |-> index_mutation]]

(* The flag is lost when the worker has not begun the search, and is        *)
(* without effect when it has ended it.                                     *)
CancelSearch ==
    /\ Service!Cancel \/ UNCHANGED <<last, wanted, answer, excused>>
    /\ UNCHANGED asked

TriggerManualSearch ==
    /\ StartSearch
    /\ shown' = Nothing
    /\ input_changed' = FALSE
    /\ search_active' = TRUE
    /\ search_was_manual' = TRUE
    /\ manual_open' = TRUE
    /\ UNCHANGED <<criteria, instant_search, auto_refresh, quiet,
                   clear_results_requested, last_index_mutation, cooled,
                   pending_manual_history_record, completed_manual,
                   last_search_params, history, cleared_at>>

BeginInFlightSearchKeepingVisibleResults ==
    /\ input_changed' = FALSE
    /\ search_active' = TRUE
    /\ search_was_manual' = FALSE

-----------------------------------------------------------------------------
(* The user: while shortcuts are handled, and while the window is rendered. *)

Acts == acts + builds < MaxActs /\ acts' = acts + 1

UserUnchanged == UNCHANGED <<phase, frame, index_building, last_active,
                             index_mutation, usn_backlog, builds>>

Type ==
    /\ phase = "render"
    /\ Acts
    /\ criteria' = acts + 1
    /\ input_changed' = TRUE
    /\ quiet' = FALSE
    /\ UserUnchanged
    /\ UNCHANGED <<serviceVars, instant_search, auto_refresh, pipeVars,
                   historyVars, ghostVars>>

Toggle ==
    /\ phase = "render"
    /\ Acts
    /\ \/ instant_search' = ~instant_search /\ UNCHANGED auto_refresh
       \/ auto_refresh' = ~auto_refresh /\ UNCHANGED instant_search
    /\ UserUnchanged
    /\ UNCHANGED <<serviceVars, criteria, input_changed, quiet, pipeVars,
                   historyVars, ghostVars>>

(* F5 goes by the state of the build the frame read at its start; Enter and *)
(* the buttons read it again.                                               *)
RequestManualSearch ==
    /\ \/ phase = "shortcuts" /\ ~frame.building
       \/ phase = "render" /\ ~index_building
    /\ Acts /\ UserUnchanged
    /\ TriggerManualSearch

ClearInputs ==
    /\ phase \in {"shortcuts", "render"}
    /\ Acts
    /\ criteria' = 0
    /\ input_changed' = FALSE
    /\ shown' = Nothing
    /\ search_active' = FALSE
    /\ clear_results_requested' = TRUE
    /\ cleared_at' = last
    /\ UserUnchanged
    /\ UNCHANGED <<serviceVars, instant_search, auto_refresh, quiet,
                   last_index_mutation, cooled, historyVars, manual_open>>

User == Type \/ Toggle \/ RequestManualSearch \/ ClearInputs

-----------------------------------------------------------------------------
(* The phases of a frame.                                                   *)

(* ProcessFrame reads IsIndexBuilding once; UpdateSearchState then keeps    *)
(* the current inputs as the parameters of the search in flight.            *)
BeginFrame ==
    /\ phase = "begin"
    /\ frame' = [frame EXCEPT !.building = index_building, !.active = search_active]
    /\ last_search_params' = IF search_active THEN criteria ELSE last_search_params
    /\ phase' = "shortcuts"
    /\ UNCHANGED <<serviceVars, inputVars, pipeVars, search_was_manual,
                   pending_manual_history_record, completed_manual, history,
                   envVars, ghostVars>>

SampledNext == index_mutation + 1   \* mutant of SampledMutation

SampledMutation == index_mutation

(* A crawl found complete starts a search, whether or not the frame counts  *)
(* as building; then Update is called with what it is passed by value.      *)
CallUpdate ==
    /\ phase = "shortcuts"
    /\ phase' = "clear"
    /\ IF last_active /\ ~index_building /\ (HasSearchText \/ shown.req # 0)
       THEN TriggerManualSearch
       ELSE UNCHANGED <<serviceVars, inputVars, pipeVars, historyVars, ghostVars>>
    /\ last_active' = index_building
    /\ frame' = [frame EXCEPT !.mutation = SampledMutation, !.backlog = usn_backlog]
    /\ UNCHANGED <<index_building, index_mutation, usn_backlog, acts, builds>>

FlagKept == FALSE   \* mutant of ClearDone

ClearDone == ~IsBusy

(* Mutant of ClearStep: the worker's results are not discarded.             *)
ClearForgetsWorker ==
    /\ phase = "clear"
    /\ phase' = "poll"
    /\ clear_results_requested' = (clear_results_requested /\ ~ClearDone)
    /\ UNCHANGED <<serviceVars, inputVars, search_active, last_index_mutation, cooled,
                   shown, historyVars, frame, envVars, ghostVars>>

ClearStep ==
    /\ phase = "clear"
    /\ phase' = "poll"
    /\ \/ /\ ~clear_results_requested
          /\ UNCHANGED <<serviceVars, pipeVars>>
       \/ /\ clear_results_requested /\ IsBusy
          /\ CancelSearch
          /\ UNCHANGED pipeVars
       \/ /\ clear_results_requested /\ ~IsBusy
          /\ Service!Take /\ UNCHANGED asked
          /\ shown' = Nothing
          /\ search_active' = FALSE
          /\ clear_results_requested' = ~ClearDone
          /\ UNCHANGED <<last_index_mutation, cooled>>
    /\ UNCHANGED <<inputVars, historyVars, frame, envVars, ghostVars>>

PollIgnoresBusy == HasNewResults   \* mutant of MayPoll

MayPoll == HasNewResults /\ ~IsBusy

(* PollResults, then NoteCompletedManualSearchForHistory; a frame that      *)
(* counts as building ends its Update here.                                 *)
PollStep ==
    /\ phase = "poll"
    /\ phase' = IF frame.building THEN "record" ELSE "cancel"
    /\ IF MayPoll
       THEN /\ shown' = answer
            /\ search_active' = FALSE
            /\ Service!Take /\ UNCHANGED asked
       ELSE UNCHANGED <<shown, search_active, serviceVars>>
    /\ IF search_was_manual /\ ~search_active'
       THEN /\ pending_manual_history_record' = TRUE
            /\ completed_manual' = shown'.req
       ELSE UNCHANGED <<pending_manual_history_record, completed_manual>>
    /\ UNCHANGED <<inputVars, clear_results_requested, last_index_mutation, cooled,
                   search_was_manual, last_search_params, history, frame, envVars,
                   ghostVars>>

CancelAlways == instant_search /\ IsBusy   \* mutant of CancelOnInput

CancelOnInput == input_changed /\ instant_search /\ IsBusy

CancelStep ==
    /\ phase = "cancel"
    /\ phase' = "debounce"
    /\ IF CancelOnInput THEN CancelSearch ELSE UNCHANGED serviceVars
    /\ UNCHANGED <<inputVars, pipeVars, historyVars, frame, envVars, ghostVars>>

ShouldTriggerDebouncedSearch == instant_search /\ input_changed /\ quiet /\ ~IsBusy

DebounceStep ==
    /\ phase = "debounce"
    /\ phase' = "refresh"
    /\ IF ShouldTriggerDebouncedSearch
       THEN /\ BeginInFlightSearchKeepingVisibleResults
            /\ StartSearch
       ELSE UNCHANGED <<input_changed, search_active, search_was_manual, serviceVars>>
    /\ UNCHANGED <<criteria, instant_search, auto_refresh, quiet,
                   clear_results_requested, last_index_mutation, cooled, shown,
                   pending_manual_history_record, completed_manual,
                   last_search_params, history, frame, envVars, ghostVars>>

Armed == auto_refresh /\ (shown.req # 0 \/ HasSearchText)

ShouldRefresh ==
    Armed /\ ~frame.backlog /\ frame.mutation # last_index_mutation /\ ~IsBusy /\ cooled

BaselineAlways == frame.mutation   \* mutant of NextBaseline

NextBaseline == IF ShouldRefresh THEN frame.mutation ELSE last_index_mutation

HandleAutoRefresh ==
    /\ phase = "refresh"
    /\ phase' = "record"
    /\ last_index_mutation' = NextBaseline
    /\ IF ShouldRefresh
       THEN /\ cooled' = FALSE
            /\ BeginInFlightSearchKeepingVisibleResults
            /\ StartSearch
       ELSE UNCHANGED <<cooled, input_changed, search_active, search_was_manual, serviceVars>>
    /\ UNCHANGED <<criteria, instant_search, auto_refresh, quiet,
                   clear_results_requested, shown, pending_manual_history_record,
                   completed_manual, last_search_params, history, frame, envVars,
                   ghostVars>>

PendingKept == pending_manual_history_record   \* mutant of PendingConsumed

PendingConsumed == FALSE

(* The rest of UpdateSearchState: the history entry of a completed manual   *)
(* search.                                                                  *)
RecordStep ==
    /\ phase = "record"
    /\ phase' = "render"
    /\ last_search_params' =
          IF ~frame.active /\ (search_was_manual \/ pending_manual_history_record)
          THEN criteria ELSE last_search_params
    /\ IF pending_manual_history_record \/ (search_was_manual /\ ~search_active)
       THEN /\ history' = [text |-> last_search_params', of |-> completed_manual]
            /\ pending_manual_history_record' = PendingConsumed
            /\ completed_manual' = 0
            /\ manual_open' = (search_was_manual /\ search_active)
       ELSE UNCHANGED <<history, pending_manual_history_record, completed_manual, manual_open>>
    /\ search_was_manual' = (search_was_manual /\ search_active)
    /\ UNCHANGED <<serviceVars, inputVars, pipeVars, frame, envVars, cleared_at>>

EndFrame ==
    /\ phase = "render"
    /\ phase' = "begin"
    /\ UNCHANGED <<serviceVars, inputVars, pipeVars, historyVars, frame, envVars,
                   ghostVars>>

Frame ==
    \/ BeginFrame \/ CallUpdate \/ ClearStep \/ PollStep \/ CancelStep
    \/ DebounceStep \/ HandleAutoRefresh \/ RecordStep \/ EndFrame

-----------------------------------------------------------------------------
(* The worker and the index.                                                *)

UIUnchanged == UNCHANGED <<asked, inputVars, pipeVars, historyVars, phase, frame, ghostVars>>

WorkerAnswers == UIUnchanged /\ UNCHANGED envVars /\ (Service!Answer \/ Service!Drop)

(* A change comes out of the journal queue, which may be deep behind it.    *)
IndexChanges ==
    /\ index_mutation < MaxMutations
    /\ index_mutation' = index_mutation + 1
    /\ usn_backlog' \in {usn_backlog, TRUE}
    /\ UIUnchanged
    /\ UNCHANGED <<last, wanted, answer, excused, index_building, last_active,
                   acts, builds>>

EnvUnchanged == UNCHANGED <<last, wanted, answer, excused, index_mutation, acts>>

BuildStarts ==
    /\ ~index_building
    /\ builds < MaxBuilds /\ acts + builds < MaxActs
    /\ builds' = builds + 1
    /\ index_building' = TRUE
    /\ EnvUnchanged /\ UIUnchanged
    /\ UNCHANGED <<last_active, usn_backlog>>

BuildEnds ==
    /\ index_building
    /\ index_building' = FALSE
    /\ EnvUnchanged /\ UIUnchanged
    /\ UNCHANGED <<last_active, usn_backlog, builds>>

BacklogDrains ==
    /\ usn_backlog
    /\ usn_backlog' = FALSE
    /\ EnvUnchanged /\ UIUnchanged
    /\ UNCHANGED <<index_building, last_active, builds>>

(* The debounce delay and the cooldown end in either order.                 *)
DebounceElapses ==
    /\ ~quiet
    /\ quiet' = TRUE
    /\ UNCHANGED <<serviceVars, criteria, instant_search, auto_refresh, input_changed,
                   pipeVars, historyVars, phase, frame, envVars, ghostVars>>

CooldownElapses ==
    /\ ~cooled
    /\ cooled' = TRUE
    /\ UNCHANGED <<serviceVars, inputVars, search_active, clear_results_requested,
                   last_index_mutation, shown, historyVars, phase, frame, envVars, ghostVars>>

TimePasses == DebounceElapses \/ CooldownElapses

Next ==
    \/ User \/ Frame \/ WorkerAnswers \/ TimePasses
    \/ IndexChanges \/ BuildStarts \/ BuildEnds \/ BacklogDrains

(* Frames go on while the window is open and not minimized; the worker      *)
(* answers (SearchService); a build and a backlog end; clocks advance.      *)
Fairness ==
    /\ WF_vars(Frame) /\ WF_vars(WorkerAnswers)
    /\ WF_vars(DebounceElapses) /\ WF_vars(CooldownElapses)
    /\ WF_vars(BuildEnds) /\ WF_vars(BacklogDrains)

Spec == Init /\ [][Next]_vars /\ Fairness

-----------------------------------------------------------------------------
(* Properties.                                                              *)

(* SearchController.cpp:563: results become visible only if no newer search *)
(* was started, whatever the order of polls, clears, cancels and answers.   *)
ShowsOnlyLatest == [][shown' # shown /\ shown'.req # 0 => shown'.req = last]_vars

(* GuiState.cpp:94: once a Clear has been carried out, no results of a      *)
(* search from before it are visible, and none can become visible.          *)
ClearedStaysCleared ==
    ~clear_results_requested =>
       /\ shown.req = 0 \/ shown.req > cleared_at
       /\ answer.req = 0 \/ answer.req > cleared_at
       /\ wanted = 0 \/ wanted > cleared_at

(* When nothing is pending, visible results are all the hits of the current *)
(* inputs: cancelled searches leave none of their partial results behind.   *)
Settled ==
    /\ ~search_active /\ ~IsBusy /\ ~HasNewResults
    /\ ~input_changed /\ ~clear_results_requested
SettledShowsCriteria ==
    Settled /\ shown.req # 0 => asked[shown.req].text = criteria /\ shown.whole

(* SearchHistory.h:137: every history entry is due to a manual search of    *)
(* its own; refreshes and debounced searches add none.                      *)
OneEntryPerManualSearch == [][history' # history => manual_open]_vars

(* SearchController.h:114: no input keeps instant search waiting forever,   *)
(* and every search and Clear comes to an end.                              *)
ComesToRest ==
    <>[](~search_active /\ ~IsBusy /\ ~clear_results_requested
         /\ (instant_search => ~input_changed))

(* SearchController.cpp:504: an index change is never lost to a backlog, a  *)
(* busy worker, the cooldown or a cancelled refresh: results that stay      *)
(* visible were searched for after the last change.                         *)
RefreshCatchesUp ==
    <>[](auto_refresh /\ shown.req # 0 => asked[shown.req].version = index_mutation)

(* SearchController.cpp:389: a Clear keeps PollResults from applying stale  *)
(* results.                                                                 *)
NoStaleAfterClear == shown.req = 0 \/ shown.req > cleared_at

(* SearchPipelineState.h:75: what a Clear makes the controller discard is   *)
(* stale: it was searched for before the Clear.                             *)
DiscardsOnlyStale == [][phase = "clear" /\ answer.req # 0 /\ answer'.req = 0
                          => answer.req <= cleared_at]_vars

(* SearchHistory.h:141: the parameters recorded are those of the search     *)
(* that completed.                                                          *)
HistoryRecordsCompletedSearch ==
    history.of # 0 => history.text = asked[history.of].text
=============================================================================
