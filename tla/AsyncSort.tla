----------------------------- MODULE AsyncSort -----------------------------
(***************************************************************************)
(* Sorting the results by an attribute that must be read from disk first   *)
(* (src/src/gui/AsyncSortState.h and its users in SearchResultUtils.cpp,   *)
(* SearchResultsService.cpp and SearchController.cpp).                     *)
(*                                                                         *)
(* A click on Size or Last Modified enqueues tasks on the thread pool.     *)
(* Each loads a batch of rows into staging buffers, by row number, and     *)
(* arrives at a latch; a later frame of the UI thread finds the latch      *)
(* open, copies the staged values into the rows and sorts them.  Before    *)
(* the buffers are used again the UI thread cancels the tasks and blocks   *)
(* until all of them have arrived.  Meanwhile the rows may be sorted by    *)
(* another column, replaced by a search, or cleared.                       *)
(*                                                                         *)
(* Only the UI thread and the tasks run; ui says what the UI thread is     *)
(* blocked in the latch for ("free": it is not).  A file is a number: the  *)
(* attribute of file f is written f, and a row that carries another        *)
(* number shows the size of another file.  Size stands for both columns    *)
(* that load; the direction of a sort is left out.                         *)
(***************************************************************************)
EXTENDS Naturals, Sequences, FiniteSets, Functions

CONSTANTS
    NumFiles,     \* the files a search may find
    BatchSize,    \* kSortAttributeLoadBatchSize
    MaxClicks,    \* bound: clicks on a column header
    MaxSearches   \* bound: searches started, and clears

ASSUME NumFilesAssumption == NumFiles \in Nat \ {0}
ASSUME BatchSizeAssumption == BatchSize \in Nat \ {0}
ASSUME MaxClicksAssumption == MaxClicks \in Nat
ASSUME MaxSearchesAssumption == MaxSearches \in Nat

VARIABLES
    results,        \* the rows shown
    column,         \* last_sort_column
    dirty,          \* the column of SpecsDirty, "none" when it is not set
    updated,        \* search_pipeline.results_updated
    presorted,      \* search_pipeline.results_presorted_on_commit
    complete,       \* search_pipeline.results_complete (not search_active)
    searching,      \* the worker has a search whose results are not taken yet
    state,          \* sort_ready_state_
    cancelled,      \* the token
    counter,        \* the generation whose latch is published, 0 for null
    remaining,      \* remaining_ of the latch of each generation
    generation,     \* generation_
    staging,        \* sizes_ and flags_: NotLoaded where no flag is set
    stagingGen,     \* staging_generation_
    tasks,          \* the tasks on the pool
    ui, back,       \* why the UI thread is blocked, and the back buffer it holds
    clicks, searches,
    shuffled, lost  \* history, for the properties

sortVars   == <<state, cancelled, counter, generation, staging, stagingGen>>
poolVars   == <<remaining, tasks>>
tableVars  == <<results, column, dirty>>
searchVars == <<updated, presorted, complete, searching>>
uiVars     == <<ui, back>>
counts     == <<clicks, searches>>
history    == <<shuffled, lost>>
vars == <<sortVars, poolVars, tableVars, searchVars, uiVars, counts, history>>

Files     == 1..NumFiles
NotLoaded == 0
Row       == [file : Files, size : Files \cup {NotLoaded}]
Columns   == {"Filename", "FullPath", "Size"}
MaxSorts  == MaxClicks + MaxSearches
NoTasks   == [g \in 1..MaxSorts |-> 0]

-----------------------------------------------------------------------------
(* Order of rows.  The sentinel sorts as size 0; ties go by path.           *)

Path(f) == NumFiles - f

Key(c, r) ==
    CASE c = "Filename" -> r.file
      [] c = "FullPath" -> Path(r.file)
      [] c = "Size"     -> r.size % NumFiles

Before(c, r, s) ==
    \/ Key(c, r) < Key(c, s)
    \/ Key(c, r) = Key(c, s) /\ Path(r.file) < Path(s.file)

(* The rows of a set, in order: as many are before the k-th as k - 1.       *)
SortRows(rows, c) ==
    [k \in 1..Cardinality(rows) |->
        CHOOSE r \in rows : Cardinality({s \in rows : Before(c, s, r)}) = k - 1]

InOrder(rows, c) ==
    \A i, j \in DOMAIN rows : i < j => Before(c, rows[i], rows[j])

-----------------------------------------------------------------------------
Init ==
    /\ results = <<>> /\ column = "none" /\ dirty = "none"
    /\ updated = FALSE /\ presorted = FALSE /\ complete = TRUE /\ searching = FALSE
    /\ state = "Idle" /\ cancelled = FALSE /\ counter = 0 /\ generation = 0
    /\ staging = <<>> /\ stagingGen = 0
    /\ remaining = NoTasks /\ tasks = {}
    /\ ui = "free" /\ back = <<>>
    /\ clicks = 0 /\ searches = 0
    /\ shuffled = "no" /\ lost = FALSE

(***************************************************************************)
(* The latch and the reset.                                                *)
(***************************************************************************)
Open == counter # 0 => remaining[counter] = 0

BriefWait == TRUE   \* mutant of Drained

(* WaitForCancelledTasksFully: the UI thread goes on only when it is open.  *)
Drained == Open

(* token.Cancel(), then the UI thread blocks in the latch.                  *)
CancelAndDrain(for) ==
    /\ cancelled' = TRUE
    /\ ui' = for

(* AsyncSortState::Reset and ReinstallFreshTokenAfterDrain.                 *)
ResetSort ==
    /\ state' = "Idle" /\ counter' = 0
    /\ staging' = <<>> /\ stagingGen' = 0
    /\ cancelled' = FALSE
    /\ UNCHANGED generation

(***************************************************************************)
(* Starting a sort: the tasks of the rows that need a load.                *)
(***************************************************************************)
NeedsLoad(rows) == {i \in DOMAIN rows : rows[i].size = NotLoaded}

RoundsDown(n) == n \div BatchSize   \* mutant of TaskCount

TaskCount(n) == (n + BatchSize - 1) \div BatchSize

BatchOf(need, i) == Cardinality({j \in need : j < i}) \div BatchSize

Task(gen, rows, items) ==
    [gen |-> gen, files |-> [i \in items |-> rows[i].file], pc |-> "load"]

TasksFor(gen, rows) ==
    LET need == NeedsLoad(rows) IN
    {Task(gen, rows, {i \in need : BatchOf(need, i) = b}) :
        b \in {BatchOf(need, i) : i \in need}}

(* The rest of StartSortAttributeLoading, once the old tasks have arrived.  *)
StartSortAttributeLoading ==
    /\ ui = "start"
    /\ Drained
    /\ generation < MaxSorts
    /\ ui' = "free"
    /\ cancelled' = FALSE
    /\ generation' = generation + 1
    /\ LET need == Cardinality(NeedsLoad(results)) IN
          IF need = 0
          THEN /\ state' = "Ready" /\ counter' = 0
               /\ staging' = <<>> /\ stagingGen' = 0
               /\ UNCHANGED poolVars
          ELSE /\ state' = "Loading" /\ counter' = generation + 1
               /\ staging' = [i \in DOMAIN results |-> NotLoaded]
               /\ stagingGen' = generation + 1
               /\ remaining' = [remaining EXCEPT ![generation + 1] = TaskCount(need)]
               /\ tasks' = tasks \cup TasksFor(generation + 1, results)
    /\ shuffled' = IF shuffled = "moved" THEN "no" ELSE shuffled
    /\ lost' = FALSE
    /\ UNCHANGED <<tableVars, searchVars, back, counts>>

-----------------------------------------------------------------------------
(* Tasks (RunAttributeLoadBatchTask).                                       *)

ForgetsToArrive == "gone"   \* mutant of AfterCancel

AfterCancel == "arrive"

Becomes(t, pc) == (tasks \ {t}) \cup {[t EXCEPT !.pc = pc]}

(* The values are read from the index, and the token is looked at again.    *)
TaskLoad(t) ==
    /\ t.pc = "load"
    /\ tasks' = Becomes(t, IF cancelled THEN AfterCancel ELSE "write")
    /\ UNCHANGED <<remaining, sortVars, tableVars, searchVars, uiVars, counts, history>>

(* Mutant of Stage: the position in the batch instead of the row number.    *)
StageByPosition(t, i) ==
    IF i \in 1..Cardinality(DOMAIN t.files)
    THEN t.files[CHOOSE j \in DOMAIN t.files :
                    Cardinality({k \in DOMAIN t.files : k < j}) = i - 1]
    ELSE staging[i]

Stage(t, i) == IF i \in DOMAIN t.files THEN t.files[i] ELSE staging[i]

(* WriteStagingBatch: under the lock, rows beyond the buffer are skipped.   *)
TaskWrite(t) ==
    /\ t.pc = "write"
    /\ staging' = [i \in DOMAIN staging |-> Stage(t, i)]
    /\ tasks' = Becomes(t, "arrive")
    /\ UNCHANGED <<state, cancelled, counter, generation, stagingGen, remaining,
                   tableVars, searchVars, uiVars, counts, history>>

TaskArrive(t) ==
    /\ t.pc = "arrive"
    /\ remaining' = [remaining EXCEPT ![t.gen] = @ - 1]
    /\ tasks' = tasks \ {t}
    /\ UNCHANGED <<sortVars, tableVars, searchVars, uiVars, counts, history>>

-----------------------------------------------------------------------------
(* Completion: CheckAndCompleteAsyncSort, every frame.                      *)

Apply(rows) ==
    IF stagingGen = generation
    THEN [i \in DOMAIN rows |->
            IF i \in DOMAIN staging /\ staging[i] # NotLoaded
            THEN [rows[i] EXCEPT !.size = staging[i]] ELSE rows[i]]
    ELSE rows

CheckAndCompleteAsyncSort ==
    /\ ui = "free"
    /\ ~complete \/ results # <<>>
    /\ state = "Ready" \/ (state = "Loading" /\ counter # 0 /\ remaining[counter] = 0)
    /\ results' = SortRows(Range(Apply(results)), column)
    /\ state' = "Idle" /\ counter' = 0 /\ staging' = <<>> /\ stagingGen' = 0
    /\ shuffled' = IF shuffled = "moved" THEN "mixed" ELSE shuffled
    /\ lost' = FALSE
    /\ UNCHANGED <<cancelled, generation, poolVars, column, dirty, searchVars,
                   uiVars, counts>>

-----------------------------------------------------------------------------
(* HandleTableSorting, every frame with a complete result set.              *)

ClickHeader(c) ==
    /\ ui = "free"
    /\ ~complete \/ results # <<>>
    /\ clicks < MaxClicks
    /\ clicks' = clicks + 1
    /\ dirty' = c
    /\ UNCHANGED <<sortVars, poolVars, results, column, searchVars, uiVars,
                   searches, history>>

(* SortSearchResults: the rows are put in order at once.  A load that is    *)
(* under way goes on.                                                       *)
SortInPlace(c) ==
    /\ results' = SortRows(Range(results), c)
    /\ shuffled' = IF state = "Loading" /\ results' # results /\ shuffled = "no"
                   THEN "moved" ELSE shuffled
    /\ lost' = FALSE
    /\ UNCHANGED <<sortVars, ui>>

LoadThenSort ==
    /\ CancelAndDrain("start")
    /\ UNCHANGED <<state, counter, generation, staging, stagingGen, results, history>>

SortByClickedColumn ==
    /\ ui = "free"
    /\ complete /\ results # <<>>
    /\ dirty # "none"
    /\ dirty' = "none"
    /\ column' = dirty
    /\ presorted' = FALSE
    /\ IF dirty = "Size" THEN LoadThenSort ELSE SortInPlace(dirty)
    /\ UNCHANGED <<poolVars, updated, complete, searching, back, counts>>

(* Mutant of NeedsAsync: the presorted branch is taken first.               *)
PresortedFirst == column = "Size" /\ ~presorted

NeedsAsync == column = "Size"

SortUpdatedResults ==
    /\ ui = "free"
    /\ complete /\ results # <<>>
    /\ dirty = "none" /\ column # "none" /\ updated
    /\ IF NeedsAsync THEN LoadThenSort
       ELSE IF presorted THEN UNCHANGED <<sortVars, results, ui, history>>
       ELSE SortInPlace(column)
    /\ presorted' = FALSE
    /\ updated' = FALSE
    /\ UNCHANGED <<poolVars, column, dirty, complete, searching, back, counts>>

(* EnsureDisplayStringsPopulated loads a row that is on screen.             *)
ShowRow(i) ==
    /\ ui = "free"
    /\ results[i].size = NotLoaded
    /\ results' = [results EXCEPT ![i].size = results[i].file]
    /\ UNCHANGED <<sortVars, poolVars, column, dirty, searchVars, uiVars, counts, history>>

-----------------------------------------------------------------------------
(* Searches and clears (SearchController, GuiState).                        *)

(* BeginInFlightSearchKeepingVisibleResults, by typing or auto-refresh:     *)
(* the tasks are cancelled, the sort forgotten, nothing is drained.         *)
BeginInFlightSearch ==
    /\ ui = "free"
    /\ searches < MaxSearches
    /\ searches' = searches + 1
    /\ cancelled' = TRUE
    /\ state' = "Idle"
    /\ searching' = TRUE
    /\ complete' = FALSE
    /\ lost' = (lost \/ state # "Idle")
    /\ UNCHANGED <<counter, generation, staging, stagingGen, poolVars, tableVars,
                   updated, presorted, uiVars, clicks, shuffled>>

TriggerManualSearch ==
    /\ ui = "free"
    /\ searches < MaxSearches
    /\ searches' = searches + 1
    /\ state' = "Idle"
    /\ CancelAndDrain("search")
    /\ UNCHANGED <<counter, generation, staging, stagingGen, poolVars, tableVars,
                   searchVars, back, clicks, history>>

ClearInputs ==
    /\ ui = "free"
    /\ searches < MaxSearches
    /\ searches' = searches + 1
    /\ CancelAndDrain("clear")
    /\ UNCHANGED <<state, counter, generation, staging, stagingGen, poolVars,
                   tableVars, searchVars, back, clicks, history>>

(* MergeAndConvertToSearchResults and ReconcileComputedDirectoryAttributes: *)
(* the files found, with the sizes the index has (known) or the rows had.   *)
BackBuffer(found, known) ==
    {[file |-> f,
      size |-> IF f \in known THEN f
               ELSE LET front == {i \in DOMAIN results : results[i].file = f}
                    IN IF front = {} THEN NotLoaded
                       ELSE results[CHOOSE i \in front : TRUE].size] : f \in found}

SortInFlight == state # "Idle"

PresortColumn ==
    IF column = "none" \/ (SortInFlight /\ column = "Size") THEN "Filename" ELSE column

PollResults ==
    /\ ui = "free"
    /\ searching
    /\ \E found \in SUBSET Files : \E known \in SUBSET found :
          LET rows   == BackBuffer(found, known)
              sorted == SortRows(rows, PresortColumn)
          IN IF (~SortInFlight /\ rows = Range(results)) \/ sorted = results
             THEN /\ searching' = FALSE
                  /\ complete' = TRUE
                  /\ UNCHANGED <<updated, presorted, sortVars, uiVars>>
             ELSE /\ CancelAndDrain("commit")
                  /\ back' = sorted
                  /\ presorted' = ~SortInFlight
                  /\ searching' = FALSE
                  /\ UNCHANGED <<updated, complete, state, counter, generation,
                                 staging, stagingGen>>
    /\ UNCHANGED <<poolVars, tableVars, counts, history>>

(* WaitForAllAttributeLoadingFutures has returned: the rows are replaced.   *)
ReplaceRows(rows) ==
    /\ Drained
    /\ ResetSort
    /\ ui' = "free" /\ back' = <<>>
    /\ results' = rows
    /\ shuffled' = IF shuffled = "mixed" /\ rows # <<>> THEN "mixed" ELSE "no"
    /\ lost' = FALSE
    /\ UNCHANGED <<poolVars, column, dirty, counts>>

CommitNewSearchResults ==
    /\ ui = "commit"
    /\ ReplaceRows(back)
    /\ updated' = TRUE
    /\ complete' = TRUE
    /\ UNCHANGED <<presorted, searching>>

ClearAndSearch ==
    /\ ui = "search"
    /\ ReplaceRows(<<>>)
    /\ updated' = TRUE
    /\ complete' = FALSE
    /\ searching' = TRUE
    /\ UNCHANGED presorted

ClearRows ==
    /\ ui = "clear"
    /\ ReplaceRows(<<>>)
    /\ complete' = TRUE
    /\ UNCHANGED <<updated, presorted, searching>>

-----------------------------------------------------------------------------
Frame ==
    \/ StartSortAttributeLoading \/ CheckAndCompleteAsyncSort
    \/ SortByClickedColumn \/ SortUpdatedResults
    \/ PollResults \/ CommitNewSearchResults \/ ClearAndSearch \/ ClearRows

User ==
    \/ \E c \in Columns : ClickHeader(c)
    \/ \E i \in DOMAIN results : ShowRow(i)
    \/ BeginInFlightSearch \/ TriggerManualSearch \/ ClearInputs

Pool == \E t \in tasks : TaskLoad(t) \/ TaskWrite(t) \/ TaskArrive(t)

Next == Frame \/ User \/ Pool

(* Frames are drawn and pool threads run; a search that was started answers *)
(* (SearchWorker).  The user is not obliged to anything.                    *)
Fairness ==
    /\ WF_vars(StartSortAttributeLoading \/ CommitNewSearchResults
               \/ ClearAndSearch \/ ClearRows)
    /\ WF_vars(CheckAndCompleteAsyncSort)
    /\ WF_vars(SortByClickedColumn \/ SortUpdatedResults)
    /\ WF_vars(PollResults)
    /\ WF_vars(Pool)

Spec == Init /\ [][Next]_vars /\ Fairness

-----------------------------------------------------------------------------
(* Properties.                                                             *)

TaskTypeOK(t) ==
    /\ DOMAIN t = {"gen", "files", "pc"}
    /\ t.gen \in 1..MaxSorts
    /\ DOMAIN t.files \subseteq 1..NumFiles /\ DOMAIN t.files # {}
    /\ \A i \in DOMAIN t.files : t.files[i] \in Files
    /\ t.pc \in {"load", "write", "arrive"}

TypeOK ==
    /\ results \in Seq(Row) /\ back \in Seq(Row)
    /\ column \in Columns \cup {"none"} /\ dirty \in Columns \cup {"none"}
    /\ updated \in BOOLEAN /\ presorted \in BOOLEAN
    /\ complete \in BOOLEAN /\ searching \in BOOLEAN
    /\ state \in {"Idle", "Loading", "Ready"}
    /\ cancelled \in BOOLEAN
    /\ counter \in 0..MaxSorts /\ generation \in 0..MaxSorts
    /\ stagingGen \in 0..MaxSorts
    /\ staging \in Seq(Files \cup {NotLoaded})
    /\ remaining \in [1..MaxSorts -> Nat]
    /\ \A t \in tasks : TaskTypeOK(t)
    /\ ui \in {"free", "start", "commit", "search", "clear"}
    /\ clicks \in 0..MaxClicks /\ searches \in 0..MaxSearches
    /\ shuffled \in {"no", "moved", "mixed"} /\ lost \in BOOLEAN

(* AsyncSortState.h:207: the tasks hold pointers to the token and to the    *)
(* buffers.  As long as one is in flight these are the ones it was given    *)
(* and its latch is the published, closed one, so that whoever waits for it *)
(* waits for the task, however sorts, searches and clears follow each other. *)
DrainedBeforeReuse ==
    \A t \in tasks : /\ t.gen = generation
                     /\ t.gen = stagingGen
                     /\ t.gen = counter
                     /\ remaining[t.gen] > 0

(* ApplyPendingSortAttributeUpdates copies by row number.  Unless rows were *)
(* put in another order while a load was under way, every row shows its own *)
(* size, whatever was cancelled, replaced or loaded on screen meanwhile.    *)
OnlyReorderingMixesRows ==
    shuffled # "mixed" =>
        \A i \in DOMAIN results : results[i].size \in {NotLoaded, results[i].file}

(* The same without the exception.                                          *)
RowsShowTheirOwnSize ==
    \A i \in DOMAIN results : results[i].size \in {NotLoaded, results[i].file}

(* When nothing is left to do the rows are in the order of the column that  *)
(* the header shows, and a sort by size knew all of them; except for a sort *)
(* that a search, begun while it was pending, has made the code forget.     *)
AtRest == /\ ui = "free" /\ state = "Idle"
          /\ complete /\ dirty = "none" /\ (updated => column = "none")
OrderShown ==
    (AtRest /\ column # "none") =>
        /\ InOrder(results, column)
        /\ column = "Size" => \A i \in DOMAIN results : results[i].size # NotLoaded
SettledInOrder == ~lost => OrderShown

(* The UI thread comes out of every wait, every load ends and every click   *)
(* on a shown header is served.                                             *)
ComesToRest ==
    <>[](/\ ui = "free" /\ ~searching /\ tasks = {}
         /\ (results # <<>> => AtRest))
=============================================================================
