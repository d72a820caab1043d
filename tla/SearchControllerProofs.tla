------------------------ MODULE SearchControllerProofs ------------------------
(***************************************************************************)
(* Theorems about SearchController, for every number of acts, changes of   *)
(* the index and builds.                                                   *)
(*                                                                         *)
(* The invariant relates the requests of the service, which are numbered,  *)
(* to the inputs they were made for and the results on screen.  The many   *)
(* phases of a frame touch these in nine ways only (Moves), and the        *)
(* protocol part of the invariant is proved once for each of them.         *)
(***************************************************************************)
EXTENDS SearchController, TLAPS

(* The flags of requests, inputs and results, and the others.               *)
CoreFlags ==
    /\ excused \in BOOLEAN /\ answer.whole \in BOOLEAN /\ shown.whole \in BOOLEAN
    /\ input_changed \in BOOLEAN /\ search_active \in BOOLEAN
    /\ clear_results_requested \in BOOLEAN

InputFlags ==
    /\ instant_search \in BOOLEAN /\ auto_refresh \in BOOLEAN
    /\ quiet \in BOOLEAN /\ cooled \in BOOLEAN

HistoryFlags ==
    /\ search_was_manual \in BOOLEAN /\ pending_manual_history_record \in BOOLEAN
    /\ manual_open \in BOOLEAN

BuildFlags ==
    /\ index_building \in BOOLEAN /\ last_active \in BOOLEAN /\ usn_backlog \in BOOLEAN
    /\ frame.building \in BOOLEAN /\ frame.active \in BOOLEAN /\ frame.backlog \in BOOLEAN

(* The searches, texts and versions named.                                  *)
Numbers ==
    /\ last \in Searches /\ wanted \in Searches /\ cleared_at \in Searches
    /\ answer.req \in Searches /\ shown.req \in Searches /\ completed_manual \in Searches
    /\ criteria \in Texts /\ last_search_params \in Texts
    /\ index_mutation \in Versions /\ last_index_mutation \in Versions
    /\ frame.mutation \in Versions
    /\ acts \in 0..MaxActs /\ builds \in 0..MaxBuilds

Records ==
    /\ answer = [req |-> answer.req, whole |-> answer.whole]
    /\ shown = [req |-> shown.req, whole |-> shown.whole]
    /\ frame = [building |-> frame.building, active |-> frame.active,
                mutation |-> frame.mutation, backlog |-> frame.backlog]
    /\ history \in [text : Texts, of : Searches]
    /\ asked \in [1..MaxSearches -> [text : Texts, version : Versions]]
    /\ phase \in Phases

(* The requests are numbered: only the last one is outstanding, and answers *)
(* and results are of earlier ones.                                         *)
Order ==
    /\ wanted \in {0, last} /\ answer.req <= last /\ shown.req <= last
    /\ cleared_at <= last

(* An answer that is not followed by a request is the last one's, so that   *)
(* results are the last search's whenever none is active.                   *)
Latest ==
    ~Faulty =>
       /\ wanted = 0 /\ answer.req # 0 => answer.req = last
       /\ ~search_active => shown.req \in {0, last}

(* Inputs that have not changed are those of the last search, or cleared    *)
(* since.                                                                   *)
Inputs == ~input_changed /\ last # 0 => asked[last].text = criteria \/ cleared_at = last

(* A search is cut short only for new inputs or a Clear.                    *)
CutShort ==
    ~Faulty =>
       /\ excused => wanted # 0 /\ (input_changed \/ clear_results_requested)
       /\ answer.req # 0 /\ ~answer.whole =>
             input_changed \/ clear_results_requested \/ wanted # 0
       /\ shown.req # 0 /\ ~shown.whole =>
             input_changed \/ clear_results_requested \/ search_active

Manual == pending_manual_history_record \/ search_was_manual => manual_open

(* What may still ask for a search: changed inputs, a build whose end was   *)
(* not noticed, index changes not yet searched for.                         *)
Pending(b) == IF b THEN 1 ELSE 0

Budget ==
    /\ last_index_mutation <= frame.mutation /\ frame.mutation <= index_mutation
    /\ acts + builds <= MaxActs
    /\ last + Pending(input_changed) + Pending(last_active \/ index_building)
         <= acts + builds + last_index_mutation

IInv ==
    /\ CoreFlags /\ InputFlags /\ HistoryFlags /\ BuildFlags
    /\ Numbers /\ Records
    /\ Order /\ ClearedStaysCleared /\ Latest /\ Inputs /\ CutShort /\ Manual /\ Budget

-----------------------------------------------------------------------------
(* What a step does to requests, inputs and results.                        *)

core == <<last, wanted, answer, excused, asked, criteria, input_changed, search_active,
          clear_results_requested, shown, cleared_at>>

Asks ==
    /\ last < MaxSearches
    /\ last' = last + 1 /\ wanted' = last + 1 /\ excused' = FALSE
    /\ asked' = [asked EXCEPT ![last + 1] = [text |-> criteria, version |-> index_mutation]]
    /\ shown' \in {shown, Nothing}
    /\ search_active' = TRUE /\ input_changed' = FALSE
    /\ UNCHANGED <<answer, criteria, clear_results_requested, cleared_at>>

Cuts ==
    /\ wanted # 0
    /\ input_changed \/ clear_results_requested
    /\ excused' = TRUE
    /\ UNCHANGED <<last, wanted, answer, asked, criteria, input_changed, search_active,
                   clear_results_requested, shown, cleared_at>>

Answers ==
    /\ wanted # 0
    /\ \E w \in BOOLEAN : /\ ~w => excused \/ Faulty
                          /\ answer' = [req |-> wanted, whole |-> w]
    /\ wanted' = 0 /\ excused' = FALSE
    /\ UNCHANGED <<last, asked, criteria, input_changed, search_active,
                   clear_results_requested, shown, cleared_at>>

Drops ==
    /\ Faulty
    /\ wanted' = 0 /\ excused' = FALSE
    /\ UNCHANGED <<last, answer, asked, criteria, input_changed, search_active,
                   clear_results_requested, shown, cleared_at>>

Shows ==
    /\ wanted = 0 /\ answer.req # 0
    /\ shown' = answer /\ answer' = Nothing
    /\ search_active' = FALSE
    /\ UNCHANGED <<last, wanted, excused, asked, criteria, input_changed,
                   clear_results_requested, cleared_at>>

Clears ==
    /\ criteria' = 0 /\ input_changed' = FALSE
    /\ shown' = Nothing /\ search_active' = FALSE
    /\ clear_results_requested' = TRUE /\ cleared_at' = last
    /\ UNCHANGED <<last, wanted, answer, excused, asked>>

Discards ==
    /\ wanted = 0
    /\ answer' = Nothing /\ shown' = Nothing /\ search_active' = FALSE
    /\ clear_results_requested' = FALSE
    /\ UNCHANGED <<last, wanted, excused, asked, criteria, input_changed, cleared_at>>

Types ==
    /\ input_changed' = TRUE
    /\ UNCHANGED <<last, wanted, answer, excused, asked, search_active,
                   clear_results_requested, shown, cleared_at>>

LEMMA Moves ==
    ASSUME phase \in Phases, [Next]_vars
    PROVE  \/ Asks \/ Cuts \/ Answers \/ Drops \/ Shows \/ Clears \/ Discards \/ Types
           \/ UNCHANGED core
<1> USE DEF core, serviceVars, inputVars, pipeVars, historyVars, envVars, ghostVars
<1>1. CASE Type
  BY <1>1 DEF Type, Types
<1>2. CASE Toggle \/ BeginFrame \/ RecordStep \/ EndFrame
  BY <1>2 DEF Toggle, BeginFrame, RecordStep, EndFrame
<1>3. CASE RequestManualSearch
  BY <1>3 DEF RequestManualSearch, TriggerManualSearch, StartSearch, Service!Request, Asks
<1>4. CASE ClearInputs
  BY <1>4 DEF ClearInputs, Clears
<1>5. CASE CallUpdate
  BY <1>5 DEF CallUpdate, TriggerManualSearch, StartSearch, Service!Request, Asks
<1>6. CASE ClearStep
  <2>1. CASE clear_results_requested /\ IsBusy
    BY <1>6, <2>1 DEF ClearStep, CancelSearch, Service!Cancel, IsBusy, Cuts
  <2>2. CASE clear_results_requested /\ ~IsBusy
    BY <1>6, <2>2 DEF ClearStep, Service!Take, Service!NoAnswer, Nothing, ClearDone, IsBusy,
                      Discards
  <2>3. CASE ~clear_results_requested
    BY <1>6, <2>3 DEF ClearStep
  <2> QED BY <2>1, <2>2, <2>3
<1>7. CASE PollStep
  BY <1>7 DEF PollStep, MayPoll, HasNewResults, IsBusy, Service!Take, Service!NoAnswer,
              Nothing, Shows
<1>8. CASE CancelStep
  BY <1>8 DEF CancelStep, CancelOnInput, CancelSearch, Service!Cancel, IsBusy, Cuts
<1>9. CASE DebounceStep
  BY <1>9 DEF DebounceStep, BeginInFlightSearchKeepingVisibleResults, StartSearch,
              Service!Request, Asks
<1>10. CASE HandleAutoRefresh
  BY <1>10 DEF HandleAutoRefresh, BeginInFlightSearchKeepingVisibleResults, StartSearch,
               Service!Request, Asks
<1>11. CASE WorkerAnswers
  BY <1>11 DEF WorkerAnswers, UIUnchanged, Service!Answer, Service!Drop, Answers, Drops
<1>12. CASE IndexChanges \/ BuildStarts \/ BuildEnds \/ BacklogDrains \/ TimePasses
  BY <1>12 DEF IndexChanges, BuildStarts, BuildEnds, BacklogDrains, TimePasses, DebounceElapses,
               CooldownElapses, UIUnchanged, EnvUnchanged
<1>13. CASE UNCHANGED vars
  BY <1>13 DEF vars
<1> QED BY <1>1, <1>2, <1>3, <1>4, <1>5, <1>6, <1>7, <1>8, <1>9, <1>10, <1>11, <1>12, <1>13
        DEF Next, User, Frame

-----------------------------------------------------------------------------
Protocol == Order /\ ClearedStaysCleared /\ Latest /\ Inputs /\ CutShort

LEMMA ProtocolStep ==
    ASSUME Numbers, Records, Protocol, [Next]_vars
    PROVE  Protocol'
<1> USE DEF Numbers, Searches
<1>0. MaxSearches \in Nat
  BY BoundsAssumption
<1>1. CASE Asks
  <2>1. asked'[last'].text = criteria'
    <3>1. last + 1 \in 1..MaxSearches
      BY <1>0, <1>1 DEF Asks
    <3> QED BY <1>1, <3>1 DEF Asks, Records
  <2>2. Order'
    BY <1>1 DEF Asks, Protocol, Order, Nothing
  <2>3. ClearedStaysCleared'
    BY <1>1 DEF Asks, Protocol, Order, ClearedStaysCleared, Nothing
  <2>4. Latest'
    BY <1>1 DEF Asks, Latest
  <2>5. Inputs'
    BY <2>1 DEF Inputs
  <2>6. CutShort'
    BY <1>1 DEF Asks, CutShort
  <2> QED BY <2>2, <2>3, <2>4, <2>5, <2>6 DEF Protocol
<1>2. CASE Cuts
  BY <1>2 DEF Cuts, Protocol, Order, ClearedStaysCleared, Latest, Inputs, CutShort
<1>3. CASE Answers
  <2>1. PICK w \in BOOLEAN : (~w => excused \/ Faulty) /\ answer' = [req |-> wanted, whole |-> w]
    BY <1>3 DEF Answers
  <2>2. answer'.req = wanted /\ answer'.whole = w /\ wanted = last
    BY <1>3, <2>1 DEF Answers, Protocol, Order
  <2>3. Order' /\ ClearedStaysCleared' /\ Latest' /\ Inputs'
    BY <1>3, <2>2 DEF Answers, Protocol, Order, ClearedStaysCleared, Latest, Inputs
  <2>4. CutShort'
    BY <1>3, <2>1, <2>2 DEF Answers, Protocol, CutShort
  <2> QED BY <2>3, <2>4 DEF Protocol
<1>4. CASE Drops
  BY <1>4 DEF Drops, Protocol, Order, ClearedStaysCleared, Latest, Inputs, CutShort
<1>5. CASE Shows
  BY <1>5 DEF Shows, Nothing, Protocol, Order, ClearedStaysCleared, Latest, Inputs, CutShort
<1>6. CASE Clears
  BY <1>6 DEF Clears, Nothing, Protocol, Order, ClearedStaysCleared, Latest, Inputs, CutShort
<1>7. CASE Discards
  BY <1>7 DEF Discards, Nothing, Protocol, Order, ClearedStaysCleared, Latest, Inputs, CutShort
<1>8. CASE Types
  BY <1>8 DEF Types, Protocol, Order, ClearedStaysCleared, Latest, Inputs, CutShort
<1>9. CASE UNCHANGED core
  BY <1>9 DEF core, Protocol, Order, ClearedStaysCleared, Latest, Inputs, CutShort
<1>10. phase \in Phases
  BY DEF Records
<1> QED BY <1>1, <1>2, <1>3, <1>4, <1>5, <1>6, <1>7, <1>8, <1>9, <1>10, Moves

-----------------------------------------------------------------------------
(* Types.                                                                   *)

LEMMA CoreFlagsStep ==
    ASSUME CoreFlags, Records, [Next]_vars
    PROVE  CoreFlags'
<1>1. Nothing.whole \in BOOLEAN
  BY DEF Nothing
<1>2. CASE Answers
  <2>1. PICK w \in BOOLEAN : answer' = [req |-> wanted, whole |-> w]
    BY <1>2 DEF Answers
  <2>2. answer'.whole \in BOOLEAN
    BY <2>1
  <2> QED BY <1>2, <2>2 DEF Answers, CoreFlags
<1>3. CASE Asks \/ Cuts \/ Drops
  BY <1>1, <1>3 DEF Asks, Cuts, Drops, CoreFlags
<1>4. CASE Shows \/ Clears
  BY <1>1, <1>4 DEF Shows, Clears, CoreFlags
<1>5. CASE Discards \/ Types \/ UNCHANGED core
  BY <1>1, <1>5 DEF Discards, Types, core, CoreFlags
<1>6. phase \in Phases
  BY DEF Records
<1> QED BY <1>2, <1>3, <1>4, <1>5, <1>6, Moves

LEMMA InputFlagsStep ==
    ASSUME InputFlags, [Next]_vars
    PROVE  InputFlags'
<1> USE DEF InputFlags, inputVars, pipeVars
<1>1. CASE Type \/ Toggle
  BY <1>1 DEF Type, Toggle
<1>2. CASE RequestManualSearch \/ ClearInputs \/ CallUpdate
  BY <1>2 DEF RequestManualSearch, TriggerManualSearch, ClearInputs, CallUpdate
<1>3. CASE BeginFrame \/ ClearStep \/ PollStep \/ CancelStep
  BY <1>3 DEF BeginFrame, ClearStep, PollStep, CancelStep
<1>4. CASE DebounceStep \/ HandleAutoRefresh \/ RecordStep \/ EndFrame
  BY <1>4 DEF DebounceStep, HandleAutoRefresh, RecordStep, EndFrame
<1>5. CASE WorkerAnswers \/ IndexChanges \/ BuildStarts \/ BuildEnds \/ BacklogDrains
  BY <1>5 DEF WorkerAnswers, IndexChanges, BuildStarts, BuildEnds, BacklogDrains, UIUnchanged
<1>6. CASE TimePasses \/ UNCHANGED vars
  BY <1>6 DEF TimePasses, DebounceElapses, CooldownElapses, vars
<1> QED BY <1>1, <1>2, <1>3, <1>4, <1>5, <1>6 DEF Next, User, Frame

LEMMA HistoryFlagsStep ==
    ASSUME HistoryFlags, [Next]_vars
    PROVE  HistoryFlags'
<1> USE DEF HistoryFlags, historyVars, ghostVars
<1>1. CASE Type \/ Toggle \/ ClearInputs
  BY <1>1 DEF Type, Toggle, ClearInputs
<1>2. CASE RequestManualSearch \/ CallUpdate
  BY <1>2 DEF RequestManualSearch, TriggerManualSearch, CallUpdate
<1>3. CASE BeginFrame \/ ClearStep \/ PollStep \/ CancelStep
  BY <1>3 DEF BeginFrame, ClearStep, PollStep, CancelStep
<1>4. CASE DebounceStep \/ HandleAutoRefresh \/ EndFrame
  BY <1>4 DEF DebounceStep, HandleAutoRefresh, BeginInFlightSearchKeepingVisibleResults, EndFrame
<1>5. CASE RecordStep
  <2>1. search_was_manual' \in BOOLEAN /\ pending_manual_history_record' \in BOOLEAN
    BY <1>5, Zenon DEF RecordStep, PendingConsumed
  <2>2. manual_open' \in BOOLEAN
    BY <1>5, Zenon DEF RecordStep
  <2> QED BY <2>1, <2>2
<1>6. CASE WorkerAnswers \/ IndexChanges \/ BuildStarts \/ BuildEnds \/ BacklogDrains
  BY <1>6 DEF WorkerAnswers, IndexChanges, BuildStarts, BuildEnds, BacklogDrains, UIUnchanged
<1>7. CASE TimePasses \/ UNCHANGED vars
  BY <1>7 DEF TimePasses, DebounceElapses, CooldownElapses, vars
<1> QED BY <1>1, <1>2, <1>3, <1>4, <1>5, <1>6, <1>7 DEF Next, User, Frame

LEMMA BuildFlagsStep ==
    ASSUME CoreFlags, BuildFlags, Records, [Next]_vars
    PROVE  BuildFlags'
<1> USE DEF BuildFlags, envVars
<1>1. CASE User
  BY <1>1 DEF User, Type, Toggle, RequestManualSearch, ClearInputs, UserUnchanged
<1>2. CASE BeginFrame
  <2>1. frame' = [building |-> index_building, active |-> search_active,
                  mutation |-> frame.mutation, backlog |-> frame.backlog]
    BY <1>2 DEF BeginFrame, Records
  <2>2. UNCHANGED <<index_building, last_active, usn_backlog>>
    BY <1>2 DEF BeginFrame
  <2> QED BY <2>1, <2>2 DEF CoreFlags
<1>3. CASE CallUpdate
  <2>1. frame' = [building |-> frame.building, active |-> frame.active,
                  mutation |-> SampledMutation, backlog |-> usn_backlog]
    BY <1>3 DEF CallUpdate, Records
  <2>2. UNCHANGED <<index_building, usn_backlog>> /\ last_active' = index_building
    BY <1>3 DEF CallUpdate
  <2> QED BY <2>1, <2>2
<1>4. CASE ClearStep \/ PollStep \/ CancelStep
  BY <1>4 DEF ClearStep, PollStep, CancelStep
<1>5. CASE DebounceStep \/ HandleAutoRefresh \/ RecordStep \/ EndFrame
  BY <1>5 DEF DebounceStep, HandleAutoRefresh, RecordStep, EndFrame
<1>6. CASE WorkerAnswers \/ IndexChanges
  BY <1>6 DEF WorkerAnswers, IndexChanges, UIUnchanged
<1>7. CASE BuildStarts \/ BuildEnds \/ BacklogDrains
  BY <1>7 DEF BuildStarts, BuildEnds, BacklogDrains, UIUnchanged
<1>8. CASE TimePasses \/ UNCHANGED vars
  BY <1>8 DEF TimePasses, DebounceElapses, CooldownElapses, vars
<1> QED BY <1>1, <1>2, <1>3, <1>4, <1>5, <1>6, <1>7, <1>8 DEF Next, Frame

LEMMA NumbersStep ==
    ASSUME Numbers, Records, [Next]_vars
    PROVE  Numbers'
<1> USE BoundsAssumption DEF Numbers, Searches, Texts, Versions, serviceVars, inputVars, pipeVars,
        historyVars, envVars, ghostVars
<1>1. CASE Type \/ Toggle
  BY <1>1 DEF Type, Toggle, UserUnchanged, Acts
<1>2. CASE RequestManualSearch
  BY <1>2 DEF RequestManualSearch, UserUnchanged, Acts, TriggerManualSearch, StartSearch,
              Service!Request, Nothing
<1>3. CASE ClearInputs
  BY <1>3 DEF ClearInputs, UserUnchanged, Acts, Nothing
<1>4. CASE BeginFrame \/ EndFrame
  BY <1>4 DEF BeginFrame, EndFrame, Records
<1>5. CASE CallUpdate
  <2>1. frame' = [building |-> frame.building, active |-> frame.active,
                  mutation |-> index_mutation, backlog |-> usn_backlog]
    BY <1>5 DEF CallUpdate, SampledMutation, Records
  <2>2. frame'.mutation = index_mutation
    BY <2>1
  <2>3. CASE TriggerManualSearch
    BY <1>5, <2>2, <2>3 DEF CallUpdate, TriggerManualSearch, StartSearch, Service!Request, Nothing
  <2>4. CASE UNCHANGED <<serviceVars, inputVars, pipeVars, historyVars, ghostVars>>
    BY <1>5, <2>2, <2>4 DEF CallUpdate
  <2> QED BY <1>5, <2>3, <2>4 DEF CallUpdate
<1>6. CASE ClearStep
  BY <1>6 DEF ClearStep, CancelSearch, Service!Cancel, Service!Take, Service!NoAnswer, Nothing
<1>7. CASE PollStep
  BY <1>7 DEF PollStep, Service!Take, Service!NoAnswer
<1>8. CASE CancelStep
  BY <1>8 DEF CancelStep, CancelSearch, Service!Cancel
<1>9. CASE DebounceStep
  BY <1>9 DEF DebounceStep, BeginInFlightSearchKeepingVisibleResults, StartSearch,
              Service!Request
<1>10. CASE HandleAutoRefresh
  BY <1>10 DEF HandleAutoRefresh, BeginInFlightSearchKeepingVisibleResults, StartSearch,
               Service!Request, NextBaseline
<1>11. CASE RecordStep
  BY <1>11 DEF RecordStep
<1>12. CASE WorkerAnswers
  BY <1>12 DEF WorkerAnswers, UIUnchanged, Service!Answer, Service!Drop
<1>13. CASE IndexChanges
  BY <1>13 DEF IndexChanges, UIUnchanged
<1>14. CASE BuildStarts \/ BuildEnds \/ BacklogDrains \/ TimePasses
  BY <1>14 DEF BuildStarts, BuildEnds, BacklogDrains, TimePasses, DebounceElapses, CooldownElapses,
               UIUnchanged, EnvUnchanged
<1>15. CASE UNCHANGED vars
  BY <1>15 DEF vars
<1> QED BY <1>1, <1>2, <1>3, <1>4, <1>5, <1>6, <1>7, <1>8, <1>9, <1>10, <1>11, <1>12, <1>13,
           <1>14, <1>15 DEF Next, User, Frame

LEMMA RecordsStep ==
    ASSUME Numbers, Records, [Next]_vars
    PROVE  Records'
<1> USE BoundsAssumption DEF Records, serviceVars, inputVars, pipeVars, historyVars, envVars,
        ghostVars
<1>a. ASSUME last < MaxSearches,
             asked' = [asked EXCEPT ![last + 1] = [text |-> criteria, version |-> index_mutation]]
      PROVE  asked' \in [1..MaxSearches -> [text : Texts, version : Versions]]
  <2>1. [text |-> criteria, version |-> index_mutation] \in [text : Texts, version : Versions]
    BY DEF Numbers
  <2> QED BY <1>a, <2>1
<1>1. CASE Type \/ Toggle
  BY <1>1 DEF Type, Toggle, UserUnchanged
<1>2. CASE RequestManualSearch
  BY <1>2, <1>a DEF RequestManualSearch, UserUnchanged, TriggerManualSearch, StartSearch,
              Service!Request, Nothing
<1>3. CASE ClearInputs
  BY <1>3 DEF ClearInputs, UserUnchanged, Nothing
<1>4. CASE BeginFrame
  <2>1. frame' = [building |-> index_building, active |-> search_active,
                  mutation |-> frame.mutation, backlog |-> frame.backlog]
    BY <1>4 DEF BeginFrame
  <2> QED BY <1>4, <2>1 DEF BeginFrame, Phases
<1>5. CASE CallUpdate
  <2>1. frame' = [building |-> frame.building, active |-> frame.active,
                  mutation |-> index_mutation, backlog |-> usn_backlog]
    BY <1>5 DEF CallUpdate, SampledMutation
  <2>2. frame' = [building |-> frame'.building, active |-> frame'.active,
                mutation |-> frame'.mutation, backlog |-> frame'.backlog]
    BY <2>1
  <2>3. asked' \in [1..MaxSearches -> [text : Texts, version : Versions]]
    BY <1>5, <1>a DEF CallUpdate, TriggerManualSearch, StartSearch, Service!Request
  <2>4. answer' = answer /\ shown' \in {shown, Nothing} /\ history' = history /\ phase' = "clear"
    BY <1>5 DEF CallUpdate, TriggerManualSearch, StartSearch, Service!Request
  <2> QED BY <2>2, <2>3, <2>4 DEF Nothing, Phases
<1>6. CASE ClearStep
  BY <1>6 DEF ClearStep, CancelSearch, Service!Cancel, Service!Take, Service!NoAnswer, Nothing,
              Phases
<1>7. CASE PollStep
  BY <1>7 DEF PollStep, Service!Take, Service!NoAnswer, Phases
<1>8. CASE CancelStep
  BY <1>8 DEF CancelStep, CancelSearch, Service!Cancel, Phases
<1>9. CASE DebounceStep
  BY <1>9, <1>a DEF DebounceStep, BeginInFlightSearchKeepingVisibleResults, StartSearch,
              Service!Request, Phases
<1>10. CASE HandleAutoRefresh
  BY <1>10, <1>a DEF HandleAutoRefresh, BeginInFlightSearchKeepingVisibleResults, StartSearch,
               Service!Request, Phases
<1>11. CASE RecordStep
  <2>1. last_search_params' \in Texts /\ completed_manual \in Searches
    BY <1>11 DEF RecordStep, Numbers
  <2> QED BY <1>11, <2>1 DEF RecordStep, Phases
<1>12. CASE WorkerAnswers
  BY <1>12 DEF WorkerAnswers, UIUnchanged, Service!Answer, Service!Drop
<1>13. CASE IndexChanges \/ BuildStarts \/ BuildEnds \/ BacklogDrains \/ TimePasses
  BY <1>13 DEF IndexChanges, BuildStarts, BuildEnds, BacklogDrains, TimePasses, DebounceElapses,
               CooldownElapses, UIUnchanged, EnvUnchanged
<1>14. CASE EndFrame
  BY <1>14 DEF EndFrame, Phases
<1>15. CASE UNCHANGED vars
  BY <1>15 DEF vars
<1> QED BY <1>1, <1>2, <1>3, <1>4, <1>5, <1>6, <1>7, <1>8, <1>9, <1>10, <1>11, <1>12, <1>13,
           <1>14, <1>15 DEF Next, User, Frame

-----------------------------------------------------------------------------
(* Manual searches.                                                         *)

LEMMA ManualStep ==
    ASSUME Manual, [Next]_vars
    PROVE  Manual' /\ (history' # history => manual_open)
<1> USE DEF Manual, historyVars, ghostVars
<1>1. CASE Type \/ Toggle \/ ClearInputs
  BY <1>1 DEF Type, Toggle, ClearInputs
<1>2. CASE RequestManualSearch \/ CallUpdate
  BY <1>2 DEF RequestManualSearch, TriggerManualSearch, CallUpdate
<1>3. CASE BeginFrame \/ ClearStep \/ PollStep \/ CancelStep
  BY <1>3 DEF BeginFrame, ClearStep, PollStep, CancelStep
<1>4. CASE DebounceStep \/ HandleAutoRefresh \/ EndFrame
  BY <1>4 DEF DebounceStep, HandleAutoRefresh, BeginInFlightSearchKeepingVisibleResults, EndFrame
<1>5. CASE RecordStep
  BY <1>5 DEF RecordStep, PendingConsumed
<1>6. CASE WorkerAnswers \/ IndexChanges \/ BuildStarts \/ BuildEnds \/ BacklogDrains
  <2>1. UNCHANGED <<historyVars, ghostVars>>
    BY <1>6 DEF WorkerAnswers, IndexChanges, BuildStarts, BuildEnds, BacklogDrains, UIUnchanged
  <2> QED BY <2>1
<1>7. CASE TimePasses \/ UNCHANGED vars
  BY <1>7 DEF TimePasses, DebounceElapses, CooldownElapses, vars
<1> QED BY <1>1, <1>2, <1>3, <1>4, <1>5, <1>6, <1>7 DEF Next, User, Frame

-----------------------------------------------------------------------------
(* How many searches there may be.                                          *)

LEMMA BudgetStep ==
    ASSUME Numbers, Records, Budget, [Next]_vars
    PROVE  Budget'
<1> USE BoundsAssumption
    DEF Budget, Pending, Numbers, Searches, Texts, Versions, serviceVars, inputVars, pipeVars,
        historyVars, envVars, ghostVars
<1>1. CASE Type \/ Toggle
  BY <1>1 DEF Type, Toggle, UserUnchanged, Acts
<1>2. CASE RequestManualSearch
  BY <1>2 DEF RequestManualSearch, UserUnchanged, Acts, TriggerManualSearch, StartSearch,
              Service!Request
<1>3. CASE ClearInputs
  BY <1>3 DEF ClearInputs, UserUnchanged, Acts
<1>4. CASE BeginFrame
  <2>1. frame'.mutation = frame.mutation
    BY <1>4 DEF BeginFrame, Records
  <2> QED BY <1>4, <2>1 DEF BeginFrame
<1>5. CASE CallUpdate
  <2>1. frame' = [building |-> frame.building, active |-> frame.active,
                  mutation |-> index_mutation, backlog |-> usn_backlog]
    BY <1>5 DEF CallUpdate, SampledMutation, Records
  <2>2. frame'.mutation = index_mutation
    BY <2>1
  <2>3. CASE last_active /\ ~index_building /\ TriggerManualSearch
    BY <1>5, <2>2, <2>3 DEF CallUpdate, TriggerManualSearch, StartSearch, Service!Request
  <2>4. CASE UNCHANGED <<serviceVars, inputVars, pipeVars, historyVars, ghostVars>>
    BY <1>5, <2>2, <2>4 DEF CallUpdate
  <2> QED BY <1>5, <2>3, <2>4 DEF CallUpdate
<1>6. CASE ClearStep \/ PollStep \/ CancelStep
  BY <1>6 DEF ClearStep, PollStep, CancelStep, CancelSearch, Service!Cancel, Service!Take
<1>7. CASE DebounceStep
  BY <1>7 DEF DebounceStep, ShouldTriggerDebouncedSearch,
              BeginInFlightSearchKeepingVisibleResults, StartSearch, Service!Request
<1>8. CASE HandleAutoRefresh
  <2>1. CASE ShouldRefresh
    BY <1>8, <2>1 DEF HandleAutoRefresh, ShouldRefresh, NextBaseline,
                      BeginInFlightSearchKeepingVisibleResults, StartSearch, Service!Request
  <2>2. CASE ~ShouldRefresh
    BY <1>8, <2>2 DEF HandleAutoRefresh, NextBaseline
  <2> QED BY <2>1, <2>2
<1>9. CASE RecordStep \/ EndFrame
  BY <1>9 DEF RecordStep, EndFrame
<1>10. CASE WorkerAnswers
  BY <1>10 DEF WorkerAnswers, UIUnchanged, Service!Answer, Service!Drop
<1>11. CASE IndexChanges
  BY <1>11 DEF IndexChanges, UIUnchanged
<1>12. CASE BuildStarts \/ BuildEnds
  BY <1>12 DEF BuildStarts, BuildEnds, UIUnchanged, EnvUnchanged
<1>13. CASE BacklogDrains \/ TimePasses
  BY <1>13 DEF BacklogDrains, TimePasses, DebounceElapses, CooldownElapses, UIUnchanged, EnvUnchanged
<1>14. CASE UNCHANGED vars
  BY <1>14 DEF vars
<1> QED BY <1>1, <1>2, <1>3, <1>4, <1>5, <1>6, <1>7, <1>8, <1>9, <1>10, <1>11, <1>12, <1>13,
           <1>14 DEF Next, User, Frame

-----------------------------------------------------------------------------
LEMMA InitHolds == Init => IInv
<1> SUFFICES ASSUME Init PROVE IInv
  OBVIOUS
<1> USE BoundsAssumption DEF Init, Service!Init, Service!NoAnswer, Nothing, Searches, Texts, Versions
<1>1. CoreFlags /\ InputFlags /\ HistoryFlags
  BY DEF CoreFlags, InputFlags, HistoryFlags
<1>2. BuildFlags
  BY DEF BuildFlags
<1>3. Numbers
  BY DEF Numbers
<1>4. Records
  <2>1. asked \in [1..MaxSearches -> [text : Texts, version : Versions]]
    OBVIOUS
  <2> QED BY <2>1 DEF Records, Phases
<1>5. Order /\ ClearedStaysCleared /\ Latest /\ Inputs /\ CutShort
  BY DEF Order, ClearedStaysCleared, Latest, Inputs, CutShort
<1>6. Manual
  BY DEF Manual
<1>7. Budget
  BY DEF Budget, Pending
<1> QED BY <1>1, <1>2, <1>3, <1>4, <1>5, <1>6, <1>7 DEF IInv

LEMMA Inductive == IInv /\ [Next]_vars => IInv'
<1> SUFFICES ASSUME IInv, [Next]_vars PROVE IInv'
  OBVIOUS
<1> USE DEF IInv
<1>1. CoreFlags' /\ InputFlags' /\ HistoryFlags' /\ BuildFlags'
  BY CoreFlagsStep, InputFlagsStep, HistoryFlagsStep, BuildFlagsStep
<1>2. Numbers' /\ Records'
  BY NumbersStep, RecordsStep
<1>3. Order' /\ ClearedStaysCleared' /\ Latest' /\ Inputs' /\ CutShort'
  BY ProtocolStep DEF Protocol
<1>4. Manual' /\ Budget'
  BY ManualStep, BudgetStep
<1> QED BY <1>1, <1>2, <1>3, <1>4

(* The inductive invariant of the frame loop holds throughout.              *)
THEOREM ControllerInvariantHolds == Spec => []IInv
BY InitHolds, Inductive, PTL DEF Spec

(* Type correctness of the frame loop.                                      *)
THEOREM ControllerTypeCorrect == Spec => []TypeOK
<1>1. IInv => TypeOK
  <2> SUFFICES ASSUME IInv PROVE TypeOK
    OBVIOUS
  <2>1. /\ answer \in [req : Searches, whole : BOOLEAN]
        /\ shown \in [req : Searches, whole : BOOLEAN]
    BY DEF IInv, CoreFlags, Numbers, Records
  <2>2. frame \in [building : BOOLEAN, active : BOOLEAN, mutation : Versions, backlog : BOOLEAN]
    BY DEF IInv, BuildFlags, Numbers, Records
  <2>3. /\ excused \in BOOLEAN
        /\ {instant_search, auto_refresh, input_changed, quiet} \subseteq BOOLEAN
        /\ {search_active, clear_results_requested, cooled} \subseteq BOOLEAN
        /\ {search_was_manual, pending_manual_history_record} \subseteq BOOLEAN
        /\ {index_building, last_active, usn_backlog} \subseteq BOOLEAN
        /\ manual_open \in BOOLEAN
    BY DEF IInv, CoreFlags, InputFlags, HistoryFlags, BuildFlags
  <2>4. Numbers
    BY DEF IInv
  <2>5. /\ history \in [text : Texts, of : Searches] /\ phase \in Phases
        /\ asked \in [1..MaxSearches -> [text : Texts, version : Versions]]
    BY DEF IInv, Records
  <2> QED BY <2>1, <2>2, <2>3, <2>4, <2>5, Zenon DEF TypeOK, Numbers
<1> QED BY <1>1, ControllerInvariantHolds, PTL

(* GuiState.cpp:94: what a Clear has discarded stays away, in whatever      *)
(* order the worker answers, the user types and frames poll; even if        *)
(* searches throw.                                                          *)
THEOREM ClearIsFinal == Spec => []ClearedStaysCleared
BY ControllerInvariantHolds, PTL DEF IInv

(* Nothing pending means that the results on screen are all the hits of the *)
(* inputs in the boxes, if no search throws.                                *)
THEOREM RestShowsInputs == ~Faulty => (Spec => []SettledShowsCriteria)
<1> SUFFICES ASSUME ~Faulty PROVE Spec => []SettledShowsCriteria
  OBVIOUS
<1>1. IInv => SettledShowsCriteria
  <2> SUFFICES ASSUME IInv, Settled, shown.req # 0
               PROVE  asked[shown.req].text = criteria /\ shown.whole
    BY DEF SettledShowsCriteria
  <2>1. shown.req = last /\ last # 0
    BY DEF IInv, Latest, Settled
  <2>2. shown.req > cleared_at
    BY DEF IInv, ClearedStaysCleared, Settled
  <2>3. cleared_at # last
    BY <2>1, <2>2 DEF IInv, Numbers, Searches
  <2>4. asked[last].text = criteria
    BY <2>1, <2>3 DEF IInv, Inputs, Settled
  <2>5. shown.whole
    BY DEF IInv, CutShort, Settled
  <2> QED BY <2>1, <2>4, <2>5
<1> QED BY <1>1, ControllerInvariantHolds, PTL

(* SearchController.cpp:563: results become visible only if no newer search *)
(* was started, if no search throws.                                        *)
THEOREM OnlyLatestIsShown == ~Faulty => (Spec => ShowsOnlyLatest)
<1> SUFFICES ASSUME ~Faulty PROVE Spec => ShowsOnlyLatest
  OBVIOUS
<1>1. IInv /\ [Next]_vars => [shown' # shown /\ shown'.req # 0 => shown'.req = last]_vars
  <2> SUFFICES ASSUME IInv, [Next]_vars, shown' # shown, shown'.req # 0
               PROVE  shown'.req = last
    OBVIOUS
  <2>1. Nothing.req = 0
    BY DEF Nothing
  <2>2. phase \in Phases
    BY DEF IInv, Records
  <2>3. Shows
    BY <2>1, <2>2, Moves DEF Asks, Cuts, Answers, Drops, Clears, Discards, Types, core
  <2> QED BY <2>3 DEF Shows, IInv, Latest
<1> QED BY <1>1, ControllerInvariantHolds, PTL DEF Spec, ShowsOnlyLatest

(* SearchHistory.h:137: every history entry is due to a manual search of    *)
(* its own.                                                                 *)
THEOREM EntriesAreManual == Spec => OneEntryPerManualSearch
<1>1. IInv /\ [Next]_vars => [history' # history => manual_open]_vars
  BY ManualStep DEF IInv
<1> QED BY <1>1, ControllerInvariantHolds, PTL DEF Spec, OneEntryPerManualSearch

(* Where the code calls StartSearch.                                        *)
CallsStartSearch ==
    \/ phase \in {"shortcuts", "render"} /\ acts + builds < MaxActs
    \/ phase = "shortcuts" /\ last_active /\ ~index_building
    \/ phase = "debounce" /\ ShouldTriggerDebouncedSearch
    \/ phase = "refresh" /\ ShouldRefresh

(* The bound on searches hides nothing: the controller starts no more       *)
(* searches than there are acts of the user, builds and index changes, so   *)
(* that every call of StartSearch the code makes is a step of the model.    *)
THEOREM BoundIsNeverMet == Spec => [](CallsStartSearch => last < MaxSearches)
<1>1. IInv => (CallsStartSearch => last < MaxSearches)
  <2> SUFFICES ASSUME IInv, CallsStartSearch PROVE last < MaxSearches
    OBVIOUS
  <2> USE BoundsAssumption DEF IInv, Numbers, Searches, Texts, Versions, Budget, Pending
  <2>1. CASE acts + builds < MaxActs
    BY <2>1
  <2>2. CASE last_active \/ input_changed
    BY <2>2
  <2>3. CASE ShouldRefresh
    BY <2>3 DEF ShouldRefresh
  <2> QED BY <2>1, <2>2, <2>3 DEF CallsStartSearch, ShouldTriggerDebouncedSearch
<1> QED BY <1>1, ControllerInvariantHolds, PTL
===============================================================================
