-------------------------- MODULE AsyncSortProofs --------------------------
(* Buffers, token and latch of a sort are never reused under a task that    *)
(* is in flight; rows that keep their places show their own sizes; and at   *)
(* rest the rows are in the order the header shows.  For any number of      *)
(* files, clicks, searches and any size of a batch.                         *)
EXTENDS AsyncSort, FiniteSetTheorems, TLAPS

(* Rows are numbered from 1, without gap and finitely many.                 *)
Numbered(rows) == \E n \in Nat : DOMAIN rows = 1..n

Numbers ==
    /\ Numbered(results) /\ Numbered(back)
    /\ generation \in 0..MaxSorts
    /\ remaining \in [1..MaxSorts -> Nat]

(* Every task belongs to the sort whose latch is published, and the latch   *)
(* counts at least the tasks.                                               *)
ShapeOK(t) == t = [gen |-> t.gen, files |-> t.files, pc |-> t.pc]

OneSort ==
    \A t \in tasks : /\ ShapeOK(t)
                     /\ t.gen \in 1..MaxSorts
                     /\ t.gen = generation
                     /\ t.gen = stagingGen
                     /\ t.gen = counter

Counted ==
    /\ IsFiniteSet(tasks)
    /\ tasks # {} => Cardinality(tasks) <= remaining[generation]

ReadyHasNone == state = "Ready" => tasks = {}

IInv == Numbers /\ OneSort /\ Counted /\ ReadyHasNone

-----------------------------------------------------------------------------
LEMMA Finite == \A rows : Numbered(rows) => IsFiniteSet(Range(rows))
<1> SUFFICES ASSUME NEW rows, NEW n \in Nat, DOMAIN rows = 1..n
             PROVE  IsFiniteSet(Range(rows))
  BY DEF Numbered
<1>1. IsFiniteSet(1..n)
  BY FS_Interval
<1> DEFINE f == [i \in 1..n |-> rows[i]]
<1>2. f \in Surjection(1..n, Range(rows))
  BY DEF Surjection, Range
<1> QED BY <1>1, <1>2, FS_Surjection DEF ExistsSurjection

LEMMA SortedIsNumbered ==
    ASSUME NEW rows, IsFiniteSet(rows), NEW c
    PROVE  Numbered(SortRows(rows, c))
<1>1. Cardinality(rows) \in Nat
  BY FS_CardinalityType
<1> QED BY <1>1 DEF SortRows, Numbered

(* A sort starts at most as many tasks as its latch counts.                 *)
LEMMA TasksCounted ==
    ASSUME NEW rows, Numbered(rows), NEW gen
    PROVE  LET n == Cardinality(NeedsLoad(rows)) IN
           /\ n \in Nat
           /\ TaskCount(n) \in Nat
           /\ IsFiniteSet(TasksFor(gen, rows))
           /\ Cardinality(TasksFor(gen, rows)) <= TaskCount(n)
<1> DEFINE need == NeedsLoad(rows)
           n == Cardinality(need)
           numbers == {BatchOf(need, i) : i \in need}
<1>1. IsFiniteSet(need) /\ need \subseteq Nat /\ n \in Nat
  <2>1. PICK m \in Nat : DOMAIN rows = 1..m
    BY DEF Numbered
  <2>2. IsFiniteSet(1..m) /\ need \in SUBSET (1..m)
    BY <2>1, FS_Interval DEF NeedsLoad
  <2>3. IsFiniteSet(need)
    BY <2>2, FS_Subset
  <2> QED BY <2>2, <2>3, FS_CardinalityType
<1>2. TaskCount(n) \in Nat
  BY <1>1, BatchSizeAssumption DEF TaskCount
<1>3. numbers \subseteq 0..(TaskCount(n) - 1)
  <2> SUFFICES ASSUME NEW i \in need
               PROVE  BatchOf(need, i) \in 0..(TaskCount(n) - 1)
    OBVIOUS
  <2> DEFINE smaller == {j \in need : j < i}
             k == Cardinality(smaller)
  <2>1. smaller \in SUBSET need /\ smaller # need
    BY <1>1
  <2>2. IsFiniteSet(smaller) /\ k <= n /\ k # n
    BY <1>1, <2>1, FS_Subset
  <2>3. k \in Nat
    BY <2>2, FS_CardinalityType
  <2>4. k + 1 <= n
    BY <1>1, <2>2, <2>3
  <2> HIDE DEF smaller, k, n
  <2>5. k \div BatchSize \in Nat /\ k \div BatchSize < (n + BatchSize - 1) \div BatchSize
    BY <1>1, <2>3, <2>4, BatchSizeAssumption
  <2> QED BY <1>2, <2>5 DEF BatchOf, TaskCount, k, smaller
<1>4. IsFiniteSet(0..(TaskCount(n) - 1)) /\ Cardinality(0..(TaskCount(n) - 1)) = TaskCount(n)
  <2> HIDE DEF n
  <2> QED BY <1>2, FS_Interval
<1>5. IsFiniteSet(numbers) /\ Cardinality(numbers) <= TaskCount(n)
  <2> HIDE DEF numbers, n
  <2> QED BY <1>3, <1>4, FS_Subset
<1> DEFINE f == [b \in numbers |-> Task(gen, rows, {i \in need : BatchOf(need, i) = b})]
<1>6. f \in Surjection(numbers, TasksFor(gen, rows))
  BY DEF Surjection, TasksFor
<1>7. IsFiniteSet(TasksFor(gen, rows)) /\ Cardinality(TasksFor(gen, rows)) <= Cardinality(numbers)
  <2> HIDE DEF numbers, f
  <2> QED BY <1>5, <1>6, FS_Surjection DEF ExistsSurjection
<1>8. Cardinality(numbers) \in Nat /\ Cardinality(TasksFor(gen, rows)) \in Nat
  BY <1>5, <1>7, FS_CardinalityType
<1> HIDE DEF numbers, n
<1> QED BY <1>1, <1>2, <1>5, <1>7, <1>8 DEF n

(* Whoever has waited for the latch has waited for every task.              *)
LEMMA WaitedForAll ==
    ASSUME IInv, Drained
    PROVE  tasks = {}
<1> SUFFICES ASSUME NEW t \in tasks PROVE FALSE
  OBVIOUS
<1>1. Cardinality(tasks) \in Nat /\ Cardinality(tasks) # 0
  BY FS_CardinalityType, FS_EmptySet DEF IInv, Counted
<1>2. counter # 0 /\ remaining[counter] \in Nat /\ remaining[counter] >= 1
  BY <1>1 DEF IInv, OneSort, Counted, Numbers
<1> QED BY <1>2 DEF Drained, Open

-----------------------------------------------------------------------------
LEMMA InitHolds == Init => IInv
<1> SUFFICES ASSUME Init PROVE IInv
  OBVIOUS
<1>1. Numbered(<<>>)
  BY DEF Numbered
<1>2. MaxSorts \in Nat
  BY MaxClicksAssumption, MaxSearchesAssumption DEF MaxSorts
<1> QED BY <1>1, <1>2, FS_EmptySet DEF Init, NoTasks, IInv, Numbers, OneSort, Counted, ReadyHasNone

(* A task that goes on is still of its sort, and there are not more tasks.  *)
LEMMA TaskGoesOn ==
    ASSUME IInv, NEW t \in tasks, NEW pc, tasks' = Becomes(t, pc),
           UNCHANGED <<state, counter, generation, stagingGen, remaining, results, back>>
    PROVE  IInv'
<1> DEFINE u == [t EXCEPT !.pc = pc]
<1>1. u = [gen |-> t.gen, files |-> t.files, pc |-> pc]
  BY DEF IInv, OneSort, ShapeOK
<1>2. tasks' = (tasks \ {t}) \cup {u}
  BY DEF Becomes
<1>3. OneSort'
  <2> SUFFICES ASSUME NEW v \in tasks'
               PROVE  ShapeOK(v) /\ v.gen \in 1..MaxSorts /\ v.gen = generation
                      /\ v.gen = stagingGen /\ v.gen = counter
    BY DEF OneSort, ShapeOK
  <2>1. CASE v \in tasks
    BY <2>1 DEF IInv, OneSort
  <2>2. CASE v = u
    BY <2>2, <1>1 DEF IInv, OneSort, ShapeOK
  <2> QED BY <1>2, <2>1, <2>2
<1>4. Counted'
  <2> HIDE DEF u
  <2>1. IsFiniteSet(tasks \ {t}) /\ Cardinality(tasks \ {t}) = Cardinality(tasks) - 1
    BY FS_RemoveElement DEF IInv, Counted
  <2>2. Cardinality(tasks) \in Nat /\ Cardinality(tasks \ {t}) \in Nat
    BY <2>1, FS_CardinalityType DEF IInv, Counted
  <2>3. IsFiniteSet(tasks') /\ Cardinality(tasks') <= Cardinality(tasks \ {t}) + 1
    BY <1>2, <2>1, <2>2, FS_AddElement
  <2>4. Cardinality(tasks') \in Nat
    BY <2>3, FS_CardinalityType
  <2>5. generation \in 1..MaxSorts /\ remaining[generation] \in Nat
    BY DEF IInv, OneSort, Numbers
  <2> QED BY <2>1, <2>2, <2>3, <2>4, <2>5 DEF IInv, Counted
<1>5. Numbers' /\ ReadyHasNone'
  BY <1>2 DEF IInv, Numbers, Numbered, ReadyHasNone
<1> QED BY <1>3, <1>4, <1>5 DEF IInv

LEMMA Arrives ==
    ASSUME IInv, NEW t \in tasks, TaskArrive(t)
    PROVE  IInv'
<1>1. t.gen = generation /\ generation \in 1..MaxSorts
  BY DEF IInv, OneSort
<1>2. IsFiniteSet(tasks') /\ Cardinality(tasks') = Cardinality(tasks) - 1
  BY FS_RemoveElement DEF IInv, Counted, TaskArrive
<1>3. Cardinality(tasks) \in Nat /\ Cardinality(tasks') \in Nat
  BY <1>2, FS_CardinalityType DEF IInv, Counted
<1>4. remaining[generation] \in Nat /\ Cardinality(tasks) <= remaining[generation]
  BY <1>1 DEF IInv, Numbers, Counted
<1>5. remaining[generation] - 1 \in Nat /\ Cardinality(tasks') <= remaining[generation] - 1
  BY <1>2, <1>3, <1>4
<1>6. /\ remaining' \in [1..MaxSorts -> Nat]
      /\ generation' = generation /\ remaining'[generation] = remaining[generation] - 1
  BY <1>1, <1>5 DEF TaskArrive, sortVars, IInv, Numbers
<1>7. Counted'
  BY <1>2, <1>5, <1>6 DEF Counted
<1>8. Numbers' /\ OneSort' /\ ReadyHasNone'
  BY <1>6 DEF IInv, Numbers, Numbered, OneSort, ShapeOK, ReadyHasNone, TaskArrive,
              sortVars, tableVars, uiVars
<1> QED BY <1>7, <1>8 DEF IInv

(* A sort starts only after its predecessor has drained.                    *)
LEMMA Starts ==
    ASSUME IInv, StartSortAttributeLoading
    PROVE  IInv'
<1> DEFINE n == Cardinality(NeedsLoad(results))
           gen == generation + 1
<1>1. tasks = {}
  BY WaitedForAll DEF StartSortAttributeLoading
<1>2. generation' = gen /\ gen \in 1..MaxSorts /\ results' = results /\ back' = back
  BY MaxClicksAssumption, MaxSearchesAssumption
  DEF StartSortAttributeLoading, IInv, Numbers, MaxSorts, tableVars
<1>3. CASE n = 0
  <2>1. tasks' = {} /\ remaining' = remaining
    BY <1>1, <1>3 DEF StartSortAttributeLoading, poolVars
  <2> QED BY <1>2, <2>1, FS_EmptySet
          DEF IInv, Numbers, Numbered, OneSort, Counted, ReadyHasNone
<1>4. CASE n # 0
  <2>1. /\ tasks' = TasksFor(gen, results)
        /\ remaining' = [remaining EXCEPT ![gen] = TaskCount(n)]
        /\ counter' = gen /\ stagingGen' = gen /\ state' = "Loading"
    BY <1>1, <1>4 DEF StartSortAttributeLoading
  <2>2. /\ TaskCount(n) \in Nat
        /\ IsFiniteSet(TasksFor(gen, results))
        /\ Cardinality(TasksFor(gen, results)) <= TaskCount(n)
    BY TasksCounted DEF IInv, Numbers
  <2>3. Numbers'
    BY <1>2, <2>1, <2>2 DEF IInv, Numbers, Numbered
  <2>4. OneSort'
    <3> SUFFICES ASSUME NEW t \in TasksFor(gen, results)
                 PROVE  ShapeOK(t) /\ t.gen = gen
      BY <1>2, <2>1 DEF OneSort, ShapeOK
    <3>1. PICK items : t = Task(gen, results, items)
      BY DEF TasksFor
    <3> QED BY <3>1 DEF ShapeOK, Task
  <2>5. Counted'
    BY <1>2, <2>1, <2>2 DEF IInv, Numbers, Counted
  <2> QED BY <2>1, <2>3, <2>4, <2>5 DEF IInv, ReadyHasNone
<1> QED BY <1>3, <1>4

LEMMA Completes ==
    ASSUME IInv, CheckAndCompleteAsyncSort
    PROVE  IInv'
<1>1. tasks = {}
  BY WaitedForAll DEF CheckAndCompleteAsyncSort, IInv, ReadyHasNone, Drained, Open
<1>2. Numbered(Apply(results))
  BY DEF IInv, Numbers, Numbered, Apply
<1>3. Numbered(results')
  BY <1>2, Finite, SortedIsNumbered DEF CheckAndCompleteAsyncSort
<1> QED BY <1>1, <1>3, FS_EmptySet
        DEF CheckAndCompleteAsyncSort, poolVars, uiVars, IInv, Numbers, Numbered, OneSort,
            Counted, ReadyHasNone

LEMMA Replaces ==
    ASSUME IInv, NEW rows, Numbered(rows), ReplaceRows(rows)
    PROVE  IInv'
<1>1. tasks = {}
  BY WaitedForAll DEF ReplaceRows
<1>2. Numbered(<<>>)
  BY DEF Numbered
<1> QED BY <1>1, <1>2, FS_EmptySet
        DEF ReplaceRows, ResetSort, poolVars, IInv, Numbers, Numbered, OneSort, Counted,
            ReadyHasNone

LEMMA SortsInPlace ==
    ASSUME IInv, NEW c, SortInPlace(c), UNCHANGED <<poolVars, back>>
    PROVE  IInv'
<1>1. Numbered(results')
  BY Finite, SortedIsNumbered DEF SortInPlace, IInv, Numbers
<1> QED BY <1>1 DEF SortInPlace, sortVars, poolVars, IInv, Numbers, Numbered, OneSort,
                    ShapeOK, Counted, ReadyHasNone

(* What neither moves rows nor touches the sort, but for giving it up.      *)
LEMMA LeavesSort ==
    ASSUME IInv,
           UNCHANGED <<poolVars, counter, generation, stagingGen>>,
           DOMAIN results' = DOMAIN results, Numbered(back'),
           state' \in {state, "Idle"}
    PROVE  IInv'
BY DEF poolVars, IInv, Numbers, Numbered, OneSort, ShapeOK, Counted, ReadyHasNone

LEMMA Polls ==
    ASSUME IInv, PollResults
    PROVE  IInv'
<1>1. PICK found \in SUBSET Files : \E known \in SUBSET found :
        \/ UNCHANGED <<sortVars, uiVars>>
        \/ /\ back' = SortRows(BackBuffer(found, known), PresortColumn)
           /\ UNCHANGED <<state, counter, generation, stagingGen>>
  BY Zenon DEF PollResults
<1>2. IsFiniteSet(found)
  <2>1. IsFiniteSet(1..NumFiles)
    BY NumFilesAssumption, FS_Interval
  <2> QED BY <2>1, FS_Subset DEF Files
<1>3. PICK known \in SUBSET found :
        \/ UNCHANGED <<sortVars, uiVars>>
        \/ /\ back' = SortRows(BackBuffer(found, known), PresortColumn)
           /\ UNCHANGED <<state, counter, generation, stagingGen>>
  BY <1>1
<1> DEFINE size(f) == IF f \in known THEN f
                      ELSE LET front == {i \in DOMAIN results : results[i].file = f}
                           IN IF front = {} THEN NotLoaded
                              ELSE results[CHOOSE i \in front : TRUE].size
           row == [f \in found |-> [file |-> f, size |-> size(f)]]
<1>4. row \in Surjection(found, BackBuffer(found, known))
  BY DEF Surjection, BackBuffer
<1>5. IsFiniteSet(BackBuffer(found, known))
  <2> HIDE DEF row
  <2> QED BY <1>2, <1>4, FS_Surjection
<1>6. Numbered(back')
  BY <1>3, <1>5, SortedIsNumbered DEF IInv, Numbers, uiVars
<1>7. UNCHANGED <<poolVars, counter, generation, stagingGen, results, state>>
  BY <1>3 DEF PollResults, tableVars, sortVars
<1> QED BY <1>6, <1>7, LeavesSort

LEMMA SortsTable ==
    ASSUME IInv, SortByClickedColumn \/ SortUpdatedResults
    PROVE  IInv'
<1>1. UNCHANGED <<poolVars, back>>
  BY DEF SortByClickedColumn, SortUpdatedResults
<1>2. \/ \E c : SortInPlace(c)
      \/ UNCHANGED <<state, counter, generation, stagingGen, results>>
  BY DEF SortByClickedColumn, SortUpdatedResults, LoadThenSort, sortVars
<1>3. CASE \E c : SortInPlace(c)
  BY <1>1, <1>3, SortsInPlace
<1>4. CASE UNCHANGED <<state, counter, generation, stagingGen, results>>
  BY <1>1, <1>4, LeavesSort DEF IInv, Numbers, Numbered
<1> QED BY <1>2, <1>3, <1>4

LEMMA UserActs ==
    ASSUME IInv, User
    PROVE  IInv'
<1>1. Numbered(back) /\ (back' = back => Numbered(back'))
  BY DEF IInv, Numbers, Numbered
<1>2. CASE \E c \in Columns : ClickHeader(c)
  BY <1>1, <1>2, LeavesSort DEF ClickHeader, sortVars, uiVars
<1>3. CASE \E i \in DOMAIN results : ShowRow(i)
  BY <1>1, <1>3, LeavesSort DEF ShowRow, sortVars, uiVars
<1>4. CASE BeginInFlightSearch
  BY <1>1, <1>4, LeavesSort DEF BeginInFlightSearch, tableVars, uiVars
<1>5. CASE TriggerManualSearch
  BY <1>1, <1>5, LeavesSort DEF TriggerManualSearch, tableVars
<1>6. CASE ClearInputs
  BY <1>1, <1>6, LeavesSort DEF ClearInputs, tableVars
<1> QED BY <1>2, <1>3, <1>4, <1>5, <1>6 DEF User

LEMMA Inductive == IInv /\ [Next]_vars => IInv'
<1> SUFFICES ASSUME IInv, [Next]_vars PROVE IInv'
  OBVIOUS
<1>0. Numbered(<<>>)
  BY DEF Numbered
<1>1. CASE StartSortAttributeLoading
  BY <1>1, Starts
<1>2. CASE CheckAndCompleteAsyncSort
  BY <1>2, Completes
<1>3. CASE SortByClickedColumn \/ SortUpdatedResults
  BY <1>3, SortsTable
<1>4. CASE PollResults
  BY <1>4, Polls
<1>5. CASE CommitNewSearchResults
  BY <1>5, Replaces DEF CommitNewSearchResults, IInv, Numbers
<1>6. CASE ClearAndSearch \/ ClearRows
  BY <1>0, <1>6, Replaces DEF ClearAndSearch, ClearRows
<1>7. CASE User
  BY <1>7, UserActs
<1>8. ASSUME NEW t \in tasks, TaskLoad(t) \/ TaskWrite(t) PROVE IInv'
  BY <1>8, TaskGoesOn DEF TaskLoad, TaskWrite, sortVars, tableVars, uiVars
<1>9. ASSUME NEW t \in tasks, TaskArrive(t) PROVE IInv'
  BY <1>9, Arrives
<1>10. CASE UNCHANGED vars
  BY <1>10, LeavesSort DEF vars, sortVars, poolVars, tableVars, uiVars, IInv, Numbers, Numbered
<1> QED BY <1>1, <1>2, <1>3, <1>4, <1>5, <1>6, <1>7, <1>8, <1>9, <1>10 DEF Next, Frame, Pool

(* The code behaviour of AsyncSortState.h:207: while a task is in flight,   *)
(* token, buffers and latch are the ones it was given and the latch is      *)
(* closed, however clicks, completions, searches and clears are ordered.    *)
THEOREM BuffersAreDrained == Spec => []DrainedBeforeReuse
<1>1. IInv => DrainedBeforeReuse
  <2> SUFFICES ASSUME IInv, NEW t \in tasks PROVE remaining[t.gen] > 0
    BY DEF DrainedBeforeReuse, IInv, OneSort
  <2>1. Cardinality(tasks) \in Nat /\ Cardinality(tasks) # 0
    BY FS_CardinalityType, FS_EmptySet DEF IInv, Counted
  <2> QED BY <2>1 DEF IInv, OneSort, Counted, Numbers
<1> QED BY <1>1, InitHolds, Inductive, PTL DEF Spec

-----------------------------------------------------------------------------
(* What the rows show.                                                      *)

(* Rows are of distinct files.                                              *)
RowsOK(rows) ==
    /\ rows \in Seq(Row) /\ Len(rows) <= NumFiles
    /\ \A i, j \in DOMAIN rows : rows[i].file = rows[j].file => i = j

OwnSizes(rows) == \A i \in DOMAIN rows : rows[i].size \in {NotLoaded, rows[i].file}

AllLoaded(rows) == \A i \in DOMAIN rows : rows[i].size # NotLoaded

Flags ==
    /\ updated \in BOOLEAN /\ presorted \in BOOLEAN
    /\ complete \in BOOLEAN /\ searching \in BOOLEAN
    /\ cancelled \in BOOLEAN /\ lost \in BOOLEAN
    /\ clicks \in 0..MaxClicks /\ searches \in 0..MaxSearches
    /\ shuffled \in {"no", "moved", "mixed"}

Tables ==
    /\ RowsOK(results) /\ RowsOK(back)
    /\ column \in Columns \cup {"none"} /\ dirty \in Columns \cup {"none"}
    /\ state \in {"Idle", "Loading", "Ready"}
    /\ ui \in {"free", "start", "commit", "search", "clear"}
    /\ state # "Idle" => column # "none"
    /\ ui = "start" => column = "Size"

Staged ==
    /\ staging \in Seq(Files \cup {NotLoaded})
    /\ counter \in 0..MaxSorts /\ stagingGen \in 0..MaxSorts
    /\ \A t \in tasks : TaskTypeOK(t)
    /\ state = "Loading" => Len(staging) = Len(results) /\ stagingGen = generation
    /\ state = "Ready" => staging = <<>>

(* As long as rows keep their places, what is staged or in the hands of a   *)
(* task for a row is the size of its file.                                  *)
Sizes ==
    /\ shuffled # "mixed" => OwnSizes(results)
    /\ shuffled # "mixed" /\ ui = "commit" => OwnSizes(back)
    /\ state = "Loading" /\ shuffled = "no" =>
          \A i \in DOMAIN results :
             /\ staging[i] \in {NotLoaded, results[i].file}
             /\ \A t \in tasks : i \in DOMAIN t.files => t.files[i] = results[i].file

(* A load that is not cancelled reaches every row that lacks its size.      *)
Loads ==
    /\ state = "Loading" /\ ui = "free" => ~cancelled
    /\ state = "Loading" /\ ui = "free" /\ column = "Size" =>
          \A i \in DOMAIN results :
             results[i].size = NotLoaded =>
                \/ staging[i] # NotLoaded
                \/ \E t \in tasks : i \in DOMAIN t.files /\ t.pc # "arrive"
    /\ state = "Ready" => AllLoaded(results)

(* The order of the rows, and of those about to be committed.               *)
Shown ==
    /\ ui = "free" /\ state = "Idle" /\ ~updated /\ ~lost /\ column # "none" =>
          InOrder(results, column) /\ (column = "Size" => AllLoaded(results))
    /\ ui # "commit" /\ updated /\ presorted /\ column \in {"Filename", "FullPath"} =>
          InOrder(results, column)
    /\ ui = "commit" /\ presorted /\ column \in {"Filename", "FullPath"} =>
          InOrder(back, column)
-----------------------------------------------------------------------------
(* Sorting.  Rows of distinct files are strictly ordered by every column,   *)
(* so that the number of rows before a row tells its place.                 *)

OfDistinctFiles(rows) == \A r, s \in rows : r.file = s.file => r = s

LEMMA KeyIsNumber ==
    ASSUME NEW c \in Columns, NEW r \in Row
    PROVE  Key(c, r) \in Nat /\ Path(r.file) \in Nat /\ r.file \in Nat
<1>1. r.file \in 1..NumFiles /\ r.size \in Nat /\ NumFiles \in Nat \ {0}
  BY NumFilesAssumption DEF Row, Files, NotLoaded
<1>2. Path(r.file) \in Nat
  BY <1>1 DEF Path
<1>3. r.size % NumFiles \in Nat
  <2> DEFINE n == r.size
  <2> HIDE DEF n
  <2> QED BY <1>1 DEF n
<1> QED BY <1>1, <1>2, <1>3 DEF Key, Columns

LEMMA BeforeIsStrict ==
    ASSUME NEW c \in Columns, NEW r \in Row, NEW s \in Row, NEW t \in Row
    PROVE  /\ ~ Before(c, r, r)
           /\ Before(c, r, s) /\ Before(c, s, t) => Before(c, r, t)
           /\ r.file # s.file => Before(c, r, s) \/ Before(c, s, r)
<1>1. /\ Key(c, r) \in Nat /\ Key(c, s) \in Nat /\ Key(c, t) \in Nat
      /\ Path(r.file) \in Nat /\ Path(s.file) \in Nat /\ Path(t.file) \in Nat
  BY KeyIsNumber
<1>2. r.file # s.file => Path(r.file) # Path(s.file)
  BY KeyIsNumber, NumFilesAssumption DEF Path
<1> QED BY <1>1, <1>2 DEF Before

LEMMA FewRows ==
    ASSUME NEW rows \in SUBSET Row, OfDistinctFiles(rows)
    PROVE  /\ IsFiniteSet(rows)
           /\ Cardinality(rows) \in Nat
           /\ Cardinality(rows) <= NumFiles
<1> DEFINE f == [r \in rows |-> r.file]
<1>1. IsFiniteSet(Files) /\ Cardinality(Files) = NumFiles
  BY NumFilesAssumption, FS_Interval DEF Files
<1>2. f \in Injection(rows, Files)
  BY DEF Injection, IsInjective, OfDistinctFiles, Row
<1>3. IsFiniteSet(rows) /\ Cardinality(rows) <= NumFiles
  <2> HIDE DEF f
  <2> QED BY <1>1, <1>2, FS_Injection
<1> QED BY <1>3, FS_CardinalityType

(* Every row of the set has its place, and every place its row.             *)
LEMMA PlacesAreTaken ==
    ASSUME NEW rows \in SUBSET Row, OfDistinctFiles(rows), NEW c \in Columns,
           NEW k \in 1..Cardinality(rows)
    PROVE  \E r \in rows : Cardinality({s \in rows : Before(c, s, r)}) = k - 1
<1> DEFINE ahead(r) == {s \in rows : Before(c, s, r)}
           n == Cardinality(rows)
           rank == [r \in rows |-> Cardinality(ahead(r))]
<1>1. IsFiniteSet(rows) /\ n \in Nat
  BY FewRows
<1>2. \A r \in rows : IsFiniteSet(ahead(r)) /\ Cardinality(ahead(r)) \in 0..(n - 1)
  <2> SUFFICES ASSUME NEW r \in rows
               PROVE  IsFiniteSet(ahead(r)) /\ Cardinality(ahead(r)) \in 0..(n - 1)
    OBVIOUS
  <2>1. ahead(r) \in SUBSET rows /\ r \notin ahead(r)
    BY BeforeIsStrict
  <2> HIDE DEF ahead
  <2>2. ahead(r) # rows
    BY <2>1
  <2>3. IsFiniteSet(ahead(r)) /\ Cardinality(ahead(r)) <= n /\ Cardinality(ahead(r)) # n
    BY <1>1, <2>1, <2>2, FS_Subset
  <2>4. Cardinality(ahead(r)) \in Nat
    BY <2>3, FS_CardinalityType
  <2> HIDE DEF n
  <2> QED BY <1>1, <2>3, <2>4
<1>3. \A r, s \in rows : Before(c, r, s) => Cardinality(ahead(r)) # Cardinality(ahead(s))
  <2> SUFFICES ASSUME NEW r \in rows, NEW s \in rows, Before(c, r, s)
               PROVE  Cardinality(ahead(r)) # Cardinality(ahead(s))
    OBVIOUS
  <2>1. ahead(r) \in SUBSET ahead(s) /\ r \in ahead(s) /\ r \notin ahead(r)
    BY BeforeIsStrict
  <2> HIDE DEF ahead
  <2> QED BY <1>2, <2>1, FS_Subset
<1>4. rank \in Injection(rows, 0..(n - 1))
  <2>1. \A r, s \in rows : rank[r] = rank[s] => r = s
    <3> SUFFICES ASSUME NEW r \in rows, NEW s \in rows, r # s
                 PROVE  Cardinality(ahead(r)) # Cardinality(ahead(s))
      BY Zenon
    <3>1. r.file # s.file
      BY DEF OfDistinctFiles
    <3>2. Before(c, r, s) \/ Before(c, s, r)
      BY <3>1, BeforeIsStrict
    <3> QED BY <1>3, <3>2
  <2>2. rank \in [rows -> 0..(n - 1)]
    BY <1>2
  <2> HIDE DEF rank, n
  <2> QED BY <2>1, <2>2 DEF Injection, IsInjective
<1>5. IsFiniteSet(0..(n - 1)) /\ Cardinality(0..(n - 1)) = n
  <2> HIDE DEF n
  <2> QED BY <1>1, FS_Interval
<1>6. rank \in Surjection(rows, 0..(n - 1))
  <2> HIDE DEF rank
  <2> QED BY <1>1, <1>4, <1>5, FS_Injection
<1>7. k - 1 \in 0..(n - 1)
  <2> HIDE DEF n
  <2>1. k \in 1..n
    BY DEF n
  <2> QED BY <1>1, <2>1
<1>8. PICK r \in rows : rank[r] = k - 1
  <2> HIDE DEF rank
  <2> QED BY <1>6, <1>7 DEF Surjection
<1> QED BY <1>8

(* The order of the numbers of predecessors is the order of the rows.       *)
LEMMA RankOrders ==
    ASSUME NEW rows \in SUBSET Row, OfDistinctFiles(rows), NEW c \in Columns,
           NEW r \in rows, NEW s \in rows,
           Cardinality({t \in rows : Before(c, t, r)})
              < Cardinality({t \in rows : Before(c, t, s)})
    PROVE  Before(c, r, s)
<1> DEFINE ahead(t) == {u \in rows : Before(c, u, t)}
<1> SUFFICES ASSUME ~ Before(c, r, s) PROVE FALSE
  OBVIOUS
<1>1. IsFiniteSet(rows)
  BY FewRows
<1>2. IsFiniteSet(ahead(r)) /\ IsFiniteSet(ahead(s))
  BY <1>1, FS_Subset
<1>3. Cardinality(ahead(r)) \in Nat /\ Cardinality(ahead(s)) \in Nat
  BY <1>2, FS_CardinalityType
<1>4. Cardinality(ahead(r)) < Cardinality(ahead(s))
  OBVIOUS
<1>5. r # s
  BY <1>3, <1>4
<1>6. Before(c, s, r)
  BY <1>5, BeforeIsStrict DEF OfDistinctFiles
<1>7. ahead(s) \in SUBSET ahead(r)
  BY <1>6, BeforeIsStrict
<1> HIDE DEF ahead
<1>8. Cardinality(ahead(s)) <= Cardinality(ahead(r))
  BY <1>2, <1>7, FS_Subset
<1> QED BY <1>3, <1>4, <1>8

(* What the sort of a table gives: some of the rows, at most one of a file, *)
(* in order.                                                                *)
LEMMA SortSorts ==
    ASSUME NEW rows \in SUBSET Row, OfDistinctFiles(rows), NEW c \in Columns
    PROVE  /\ RowsOK(SortRows(rows, c))
           /\ \A i \in DOMAIN SortRows(rows, c) : SortRows(rows, c)[i] \in rows
           /\ InOrder(SortRows(rows, c), c)
<1> DEFINE q == SortRows(rows, c)
           n == Cardinality(rows)
           ahead(r) == {s \in rows : Before(c, s, r)}
           place(k) == CHOOSE r \in rows : Cardinality(ahead(r)) = k - 1
<1>1. n \in Nat /\ n <= NumFiles
  BY FewRows
<1>2. DOMAIN q = 1..n
  BY DEF SortRows
<1>3. \A k \in 1..n : q[k] \in rows /\ Cardinality(ahead(q[k])) = k - 1
  <2> SUFFICES ASSUME NEW k \in 1..n
               PROVE  q[k] \in rows /\ Cardinality(ahead(q[k])) = k - 1
    OBVIOUS
  <2>1. q[k] = CHOOSE r \in rows : Cardinality({s \in rows : Before(c, s, r)}) = k - 1
    BY Zenon DEF SortRows
  <2>2. \E r \in rows : Cardinality({s \in rows : Before(c, s, r)}) = k - 1
    BY PlacesAreTaken
  <2> QED BY <2>1, <2>2
<1>4. q = [k \in 1..n |-> place(k)]
  BY Zenon DEF SortRows
<1> HIDE DEF q
<1>5. InOrder(q, c)
  <2> SUFFICES ASSUME NEW i \in 1..n, NEW j \in 1..n, i < j
               PROVE  Before(c, q[i], q[j])
    BY <1>2 DEF InOrder
  <2>1. Cardinality(ahead(q[i])) < Cardinality(ahead(q[j]))
    <3> HIDE DEF ahead, n
    <3> QED BY <1>1, <1>3
  <2> QED BY <1>3, <2>1, RankOrders
<1>6. q \in Seq(Row) /\ Len(q) = n
  <2> HIDE DEF n, ahead, place
  <2>1. \A k \in 1..n : place(k) \in Row
    BY <1>3, <1>4
  <2> QED BY <1>1, <1>2, <1>4, <2>1
<1>7. \A i, j \in 1..n : q[i].file = q[j].file => i = j
  <2> SUFFICES ASSUME NEW i \in 1..n, NEW j \in 1..n, q[i].file = q[j].file
               PROVE  i = j
    OBVIOUS
  <2>1. q[i] = q[j]
    BY <1>3 DEF OfDistinctFiles
  <2> HIDE DEF ahead, n
  <2>2. i - 1 = j - 1
    BY <1>3, <2>1
  <2> QED BY <1>1, <2>2
<1> HIDE DEF n
<1> QED BY <1>1, <1>2, <1>3, <1>5, <1>6, <1>7 DEF RowsOK, q

LEMMA RangeOfRows ==
    ASSUME NEW rows, RowsOK(rows)
    PROVE  /\ Range(rows) \in SUBSET Row
           /\ OfDistinctFiles(Range(rows))
           /\ Cardinality(Range(rows)) = Len(rows)
<1>1. Len(rows) \in Nat /\ DOMAIN rows = 1..Len(rows) /\ rows \in [1..Len(rows) -> Row]
  BY DEF RowsOK
<1>2. Range(rows) \in SUBSET Row /\ OfDistinctFiles(Range(rows))
  BY <1>1 DEF Range, OfDistinctFiles, RowsOK
<1>3. IsFiniteSet(Range(rows))
  BY <1>2, FewRows
<1>4. rows \in Injection(1..Len(rows), Range(rows))
  BY <1>1 DEF Injection, IsInjective, Range, RowsOK
<1>5. rows \in Surjection(1..Len(rows), Range(rows))
  BY <1>1 DEF Surjection, Range
<1>6. Cardinality(1..Len(rows)) = Len(rows)
  BY <1>1, FS_Interval
<1> QED BY <1>2, <1>3, <1>4, <1>5, <1>6, FS_Injection

(* The sort of a table keeps its length and brings only rows it had.        *)
LEMMA Resorted ==
    ASSUME NEW rows, RowsOK(rows), NEW c \in Columns
    PROVE  LET q == SortRows(Range(rows), c) IN
           /\ RowsOK(q) /\ Len(q) = Len(rows) /\ InOrder(q, c)
           /\ OwnSizes(rows) => OwnSizes(q)
           /\ AllLoaded(rows) => AllLoaded(q)
<1> DEFINE q == SortRows(Range(rows), c)
<1>1. RowsOK(q) /\ InOrder(q, c) /\ \A i \in DOMAIN q : q[i] \in Range(rows)
  BY RangeOfRows, SortSorts
<1>2. Cardinality(Range(rows)) = Len(rows) /\ Len(rows) \in Nat
  BY RangeOfRows DEF RowsOK
<1>3. DOMAIN q = 1..Cardinality(Range(rows))
  BY DEF SortRows
<1> HIDE DEF q
<1>4. Len(q) = Len(rows)
  BY <1>1, <1>2, <1>3 DEF RowsOK
<1>5. \A i \in DOMAIN q : \E j \in DOMAIN rows : q[i] = rows[j]
  BY <1>1 DEF Range
<1> QED BY <1>1, <1>4, <1>5 DEF OwnSizes, AllLoaded, q

LEMMA NoRows ==
    /\ RowsOK(<<>>) /\ Len(<<>>) = 0 /\ OwnSizes(<<>>) /\ AllLoaded(<<>>)
    /\ \A c : InOrder(<<>>, c)
    /\ \A S : <<>> \in Seq(S)
BY NumFilesAssumption DEF RowsOK, OwnSizes, AllLoaded, InOrder

(* The file and the size of a row.                                          *)
LEMMA RowParts ==
    ASSUME NEW rows, RowsOK(rows)
    PROVE  /\ Len(rows) \in Nat /\ DOMAIN rows = 1..Len(rows) /\ Len(rows) <= NumFiles
           /\ \A i \in DOMAIN rows :
                 /\ rows[i] \in Row
                 /\ rows[i].file \in Files
                 /\ rows[i].size \in Files \cup {NotLoaded}
                 /\ rows[i] = [file |-> rows[i].file, size |-> rows[i].size]
<1>1. \A r \in Row : /\ r.file \in Files
                    /\ r.size \in Files \cup {NotLoaded}
                    /\ r = [file |-> r.file, size |-> r.size]
  BY DEF Row
<1>2. Len(rows) \in Nat /\ DOMAIN rows = 1..Len(rows) /\ Len(rows) <= NumFiles
      /\ \A i \in DOMAIN rows : rows[i] \in Row
  BY DEF RowsOK
<1> QED BY <1>1, <1>2

-----------------------------------------------------------------------------
(* The part of the invariant that is about rows.                           *)
RowsInv == Tables /\ Staged /\ Sizes /\ Loads /\ Shown

LEMMA RowsInit == Init => RowsInv /\ Flags
<1> SUFFICES ASSUME Init PROVE RowsInv /\ Flags
  OBVIOUS
<1>1. Flags
  <2>1. clicks \in 0..MaxClicks /\ searches \in 0..MaxSearches
    BY MaxClicksAssumption, MaxSearchesAssumption DEF Init
  <2> QED BY <2>1, Zenon DEF Init, Flags
<1>2. MaxSorts \in Nat
  BY MaxClicksAssumption, MaxSearchesAssumption DEF MaxSorts
<1>3. Tables /\ Staged
  BY <1>2, NoRows DEF Init, Tables, Staged
<1>4. Sizes /\ Loads /\ Shown
  BY NoRows DEF Init, Sizes, Loads, Shown
<1> QED BY <1>1, <1>3, <1>4 DEF RowsInv

(* The tasks of a sort have the rows that need a load among them.           *)
LEMMA TasksHaveRows ==
    ASSUME NEW rows, RowsOK(rows), NEW gen \in 1..MaxSorts
    PROVE  /\ \A t \in TasksFor(gen, rows) :
                 /\ TaskTypeOK(t)
                 /\ \A i \in DOMAIN t.files : i \in DOMAIN rows /\ t.files[i] = rows[i].file
           /\ \A i \in NeedsLoad(rows) : \E t \in TasksFor(gen, rows) :
                 i \in DOMAIN t.files /\ t.pc = "load"
<1> DEFINE need == NeedsLoad(rows)
           batch(b) == {i \in need : BatchOf(need, i) = b}
<1>1. need \subseteq 1..NumFiles /\ need \subseteq DOMAIN rows
  <2> USE NumFilesAssumption
  <2> QED BY RowParts DEF NeedsLoad
<1>2. \A i \in DOMAIN rows : rows[i].file \in Files
  BY RowParts
<1>3. \A i \in need : Task(gen, rows, batch(BatchOf(need, i))) \in TasksFor(gen, rows)
  BY DEF TasksFor
<1>4. \A t \in TasksFor(gen, rows) : \E i \in need : t = Task(gen, rows, batch(BatchOf(need, i)))
  BY DEF TasksFor
<1>5. \A i \in need : i \in batch(BatchOf(need, i))
  OBVIOUS
<1>6. \A b : batch(b) \subseteq need
  OBVIOUS
<1> HIDE DEF need, batch
<1>7. \A items : LET t == Task(gen, rows, items) IN
         t.gen = gen /\ t.pc = "load" /\ DOMAIN t = {"gen", "files", "pc"}
         /\ DOMAIN t.files = items /\ \A i \in items : t.files[i] = rows[i].file
  BY DEF Task
<1>8. ASSUME NEW t \in TasksFor(gen, rows)
      PROVE  TaskTypeOK(t)
             /\ \A i \in DOMAIN t.files : i \in DOMAIN rows /\ t.files[i] = rows[i].file
  <2>1. PICK i \in need : t = Task(gen, rows, batch(BatchOf(need, i)))
    BY <1>4
  <2>2. DOMAIN t.files = batch(BatchOf(need, i)) /\ i \in DOMAIN t.files
        /\ DOMAIN t.files \subseteq need
    BY <2>1, <1>5, <1>6, <1>7
  <2>3. \A j \in DOMAIN t.files : j \in DOMAIN rows /\ t.files[j] = rows[j].file
    BY <2>1, <2>2, <1>1, <1>7
  <2>4. TaskTypeOK(t)
    BY <2>1, <2>2, <2>3, <1>1, <1>2, <1>7 DEF TaskTypeOK
  <2> QED BY <2>3, <2>4
<1>9. ASSUME NEW i \in need
      PROVE  \E t \in TasksFor(gen, rows) : i \in DOMAIN t.files /\ t.pc = "load"
  BY <1>3, <1>5, <1>7
<1> QED BY <1>8, <1>9 DEF need

LEMMA StartsOnRows ==
    ASSUME IInv, RowsInv, StartSortAttributeLoading
    PROVE  RowsInv'
<1> DEFINE need == NeedsLoad(results)
           n == Cardinality(need)
           gen == generation + 1
<1>1. tasks = {}
  BY WaitedForAll DEF StartSortAttributeLoading
<1>2. gen \in 1..MaxSorts /\ 0 \in 0..MaxSorts /\ gen \in 0..MaxSorts
  BY MaxClicksAssumption, MaxSearchesAssumption
  DEF StartSortAttributeLoading, IInv, Numbers, MaxSorts
<1>3. /\ ui = "start" /\ ui' = "free" /\ cancelled' = FALSE /\ generation' = gen
      /\ UNCHANGED <<results, column, dirty, updated, presorted, back>>
      /\ shuffled' = IF shuffled = "moved" THEN "no" ELSE shuffled
  BY DEF StartSortAttributeLoading, tableVars, searchVars
<1>4. column = "Size" /\ RowsOK(results)
  BY <1>3 DEF RowsInv, Tables
<1>5. Len(results) \in Nat /\ DOMAIN results = 1..Len(results)
  BY <1>4, RowParts
<1>6. Shown'
  <2>1. state' # "Idle"
    BY DEF StartSortAttributeLoading
  <2> QED BY <2>1, <1>3, <1>4 DEF Shown
<1>7. CASE n = 0
  <2>1. /\ state' = "Ready" /\ counter' = 0 /\ staging' = <<>> /\ stagingGen' = 0
        /\ tasks' = {}
    BY <1>1, <1>7 DEF StartSortAttributeLoading, poolVars
  <2>2. need = {}
    <3>1. IsFiniteSet(1..Len(results)) /\ need \in SUBSET (1..Len(results))
      BY <1>5, FS_Interval DEF NeedsLoad
    <3>2. IsFiniteSet(need)
      BY <3>1, FS_Subset
    <3> HIDE DEF need
    <3> QED BY <1>7, <3>2, FS_EmptySet
  <2>3. AllLoaded(results)
    BY <2>2 DEF NeedsLoad, AllLoaded
  <2>4. Tables'
    BY <1>3, <1>4, <2>1 DEF RowsInv, Tables, RowsOK
  <2>5. Staged'
    BY <1>2, <2>1, NoRows DEF Staged
  <2>6. Sizes' /\ Loads'
    BY <1>3, <2>1, <2>3 DEF RowsInv, Sizes, Loads, OwnSizes, AllLoaded
  <2> QED BY <1>6, <2>4, <2>5, <2>6 DEF RowsInv
<1>8. CASE n # 0
  <2>1. /\ state' = "Loading" /\ counter' = gen /\ stagingGen' = gen
        /\ staging' = [i \in DOMAIN results |-> NotLoaded]
        /\ tasks' = TasksFor(gen, results)
    BY <1>1, <1>8 DEF StartSortAttributeLoading
  <2>2. Tables'
    BY <1>3, <1>4, <2>1 DEF RowsInv, Tables, RowsOK
  <2>3. Staged'
    <3>1. staging' \in Seq(Files \cup {NotLoaded}) /\ Len(staging') = Len(results)
      BY <1>5, <2>1
    <3>2. \A t \in tasks' : TaskTypeOK(t)
      BY <1>2, <1>4, <2>1, TasksHaveRows
    <3> QED BY <1>2, <1>3, <2>1, <3>1, <3>2 DEF Staged, TaskTypeOK
  <2>4. Sizes'
    <3>1. \A i \in DOMAIN results : staging'[i] = NotLoaded
      BY <2>1
    <3>2. \A t \in tasks' : \A i \in DOMAIN t.files : t.files[i] = results[i].file
      BY <1>2, <1>4, <2>1, TasksHaveRows
    <3> QED BY <1>3, <3>1, <3>2 DEF RowsInv, Sizes, OwnSizes
  <2>5. Loads'
    <3>1. \A i \in need : \E t \in tasks' : i \in DOMAIN t.files /\ t.pc = "load"
      BY <1>2, <1>4, <2>1, TasksHaveRows
    <3> QED BY <1>3, <2>1, <3>1 DEF Loads, NeedsLoad
  <2> QED BY <1>6, <2>2, <2>3, <2>4, <2>5 DEF RowsInv
<1> QED BY <1>7, <1>8

(* What was staged is copied, and the rows are sorted.                      *)
LEMMA CompletesRows ==
    ASSUME IInv, RowsInv, Flags, CheckAndCompleteAsyncSort
    PROVE  RowsInv'
<1> DEFINE rows == Apply(results)
<1>1. tasks = {}
  BY WaitedForAll DEF CheckAndCompleteAsyncSort, IInv, ReadyHasNone, Drained, Open
<1>2. /\ ui = "free" /\ state \in {"Ready", "Loading"}
      /\ results' = SortRows(Range(rows), column)
      /\ state' = "Idle" /\ counter' = 0 /\ staging' = <<>> /\ stagingGen' = 0
      /\ shuffled' = IF shuffled = "moved" THEN "mixed" ELSE shuffled
      /\ UNCHANGED <<column, dirty, tasks, ui, back>>
  BY DEF CheckAndCompleteAsyncSort, poolVars, uiVars
<1>3. /\ RowsOK(results) /\ column \in Columns
      /\ staging \in Seq(Files \cup {NotLoaded})
  BY <1>2 DEF RowsInv, Tables, Staged
<1>4. /\ Len(results) \in Nat /\ DOMAIN results = 1..Len(results)
      /\ \A i \in DOMAIN results : results[i] \in Row /\ results[i].file \in Files
      /\ Len(results) <= NumFiles
  BY <1>3, RowParts
<1>5. \A r \in Row : \A x \in Files \cup {NotLoaded} :
         LET loaded == [r EXCEPT !.size = x] IN
         loaded \in Row /\ loaded.file = r.file /\ loaded.size = x
  BY DEF Row
<1>6. /\ DOMAIN rows = DOMAIN results
      /\ \A i \in DOMAIN results :
            /\ rows[i] \in Row
            /\ rows[i].file = results[i].file
            /\ rows[i].size = results[i].size
               \/ (i \in DOMAIN staging /\ staging[i] # NotLoaded /\ rows[i].size = staging[i])
      /\ rows \in [1..Len(results) -> Row]
  <2>1. DOMAIN rows = DOMAIN results
    BY DEF Apply
  <2>2. ASSUME NEW i \in DOMAIN results
        PROVE  /\ rows[i] \in Row
               /\ rows[i].file = results[i].file
               /\ rows[i].size = results[i].size
                  \/ (i \in DOMAIN staging /\ staging[i] # NotLoaded /\ rows[i].size = staging[i])
    <3>1. \/ rows[i] = results[i]
          \/ /\ i \in DOMAIN staging /\ staging[i] # NotLoaded
             /\ rows[i] = [results[i] EXCEPT !.size = staging[i]]
      BY DEF Apply
    <3>2. i \in DOMAIN staging => staging[i] \in Files \cup {NotLoaded}
      BY <1>3
    <3>3. results[i] \in Row
      BY <1>4
    <3> HIDE DEF rows
    <3>4. CASE rows[i] = results[i]
      BY <3>3, <3>4
    <3>5. CASE /\ i \in DOMAIN staging /\ staging[i] # NotLoaded
               /\ rows[i] = [results[i] EXCEPT !.size = staging[i]]
      <4> DEFINE r == results[i]
                 x == staging[i]
      <4>1. r \in Row /\ x \in Files \cup {NotLoaded} /\ rows[i] = [r EXCEPT !.size = x]
        BY <3>2, <3>3, <3>5
      <4> HIDE DEF r, x
      <4>2. rows[i] \in Row /\ rows[i].file = r.file /\ rows[i].size = x
        BY <1>5, <4>1
      <4> QED BY <3>5, <4>2 DEF r, x
    <3> QED BY <3>1, <3>4, <3>5
  <2>3. \E f : rows = [i \in DOMAIN results |-> f[i]]
    <3>1. CASE stagingGen = generation
      <4> WITNESS [i \in DOMAIN results |->
                     IF i \in DOMAIN staging /\ staging[i] # NotLoaded
                     THEN [results[i] EXCEPT !.size = staging[i]] ELSE results[i]]
      <4> QED BY <3>1 DEF Apply
    <3>2. CASE stagingGen # generation
      <4> WITNESS results
      <4> QED BY <1>3, <1>4, <3>2 DEF Apply, RowsOK
    <3> QED BY <3>1, <3>2
  <2> HIDE DEF rows
  <2> QED BY <1>4, <2>1, <2>2, <2>3
<1>7. \A i \in DOMAIN results :
         (state = "Loading" /\ staging[i] # NotLoaded) => rows[i].size = staging[i]
  <2> SUFFICES ASSUME NEW i \in DOMAIN results, state = "Loading", staging[i] # NotLoaded
               PROVE  rows[i].size = staging[i]
    OBVIOUS
  <2>1. stagingGen = generation /\ i \in DOMAIN staging
    BY <1>3, <1>4 DEF RowsInv, Staged
  <2>2. rows[i] = [results[i] EXCEPT !.size = staging[i]]
    BY <2>1 DEF Apply
  <2>3. results[i] \in Row
    BY <1>4
  <2> HIDE DEF rows
  <2> QED BY <2>2, <2>3 DEF Row
<1> HIDE DEF rows
<1>8. RowsOK(rows)
  <2>1. rows \in Seq(Row) /\ Len(rows) = Len(results)
    BY <1>4, <1>6
  <2> QED BY <1>3, <1>4, <1>6, <2>1 DEF RowsOK
<1>9. /\ RowsOK(results') /\ Len(results') = Len(rows) /\ InOrder(results', column)
      /\ OwnSizes(rows) => OwnSizes(results')
      /\ AllLoaded(rows) => AllLoaded(results')
  BY <1>2, <1>3, <1>8, Resorted
<1>10. shuffled' # "mixed" => OwnSizes(rows)
  <2> SUFFICES ASSUME shuffled # "mixed", shuffled # "moved", NEW i \in DOMAIN results
               PROVE  rows[i].size \in {NotLoaded, rows[i].file}
    BY <1>2, <1>6 DEF OwnSizes
  <2>1. results[i].size \in {NotLoaded, results[i].file}
    BY DEF RowsInv, Sizes, OwnSizes
  <2>2. CASE state = "Ready"
    <3>1. DOMAIN staging = {}
      BY <2>2 DEF RowsInv, Staged
    <3> QED BY <1>6, <2>1, <3>1
  <2>3. CASE state = "Loading" /\ shuffled = "no"
    BY <1>6, <2>1, <2>3 DEF RowsInv, Sizes
  <2>4. state \in {"Ready", "Loading"}
    BY <1>2
  <2>5. CASE state = "Loading" /\ shuffled # "no"
    <3>1. shuffled \in {"no", "moved", "mixed"}
      BY DEF Flags
    <3> QED BY <2>5, <3>1
  <2> QED BY <2>2, <2>3, <2>4, <2>5
<1>11. column = "Size" => AllLoaded(rows)
  <2> SUFFICES ASSUME column = "Size", NEW i \in DOMAIN results
               PROVE  rows[i].size # NotLoaded
    BY <1>6 DEF AllLoaded
  <2>1. CASE results[i].size # NotLoaded
    BY <2>1, <1>6
  <2>2. CASE results[i].size = NotLoaded
    <3>1. state = "Loading"
      BY <1>2, <2>2 DEF RowsInv, Loads, AllLoaded
    <3>2. staging[i] # NotLoaded
      BY <1>1, <1>2, <2>2, <3>1 DEF RowsInv, Loads
    <3> QED BY <1>7, <3>1, <3>2
  <2> QED BY <2>1, <2>2
<1>12. Tables'
  BY <1>2, <1>9 DEF RowsInv, Tables, RowsOK
<1>13. Staged'
  <2>1. 0 \in 0..MaxSorts
    BY MaxClicksAssumption, MaxSearchesAssumption DEF MaxSorts
  <2> QED BY <1>1, <1>2, <2>1, NoRows DEF Staged
<1>14. Sizes' /\ Loads'
  BY <1>2, <1>9, <1>10 DEF Sizes, Loads, OwnSizes
<1>15. Shown'
  BY <1>2, <1>9, <1>11 DEF Shown, InOrder, AllLoaded
<1> QED BY <1>12, <1>13, <1>14, <1>15 DEF RowsInv

(* The UI thread gives the table up to the latch of the sort before.        *)
LEMMA LoadsFirst ==
    ASSUME RowsInv, LoadThenSort, ui = "free", column' = "Size",
           dirty' \in Columns \cup {"none"},
           UNCHANGED <<tasks, back>>
    PROVE  RowsInv'
<1>1. /\ UNCHANGED <<state, counter, generation, staging, stagingGen, results, shuffled>>
      /\ ui' = "start"
  BY DEF LoadThenSort, CancelAndDrain, history
<1>2. Tables'
  BY <1>1 DEF RowsInv, Tables, RowsOK, Columns
<1>3. Staged'
  BY <1>1 DEF RowsInv, Staged, TaskTypeOK
<1>4. Sizes'
  BY <1>1 DEF RowsInv, Sizes, OwnSizes
<1>5. Loads'
  BY <1>1 DEF RowsInv, Loads, AllLoaded
<1>6. Shown'
  BY <1>1 DEF Shown
<1> QED BY <1>2, <1>3, <1>4, <1>5, <1>6 DEF RowsInv

(* A column that loads nothing is sorted at once.  A load under way keeps   *)
(* its buffers: they fit the number of rows, and no longer their places.    *)
LEMMA SortsRowsInPlace ==
    ASSUME RowsInv, Flags, NEW c \in {"Filename", "FullPath"}, SortInPlace(c),
           ui = "free", column' = c, dirty' = "none", presorted' = FALSE,
           UNCHANGED <<tasks, back>>
    PROVE  RowsInv'
<1>1. /\ UNCHANGED <<state, cancelled, counter, generation, staging, stagingGen, ui>>
      /\ results' = SortRows(Range(results), c)
      /\ shuffled' = IF state = "Loading" /\ results' # results /\ shuffled = "no"
                     THEN "moved" ELSE shuffled
  BY DEF SortInPlace, sortVars
<1>2. RowsOK(results) /\ c \in Columns /\ c # "Size" /\ c # "none"
  BY DEF RowsInv, Tables, Columns
<1>3. /\ RowsOK(results') /\ Len(results') = Len(results) /\ InOrder(results', c)
      /\ OwnSizes(results) => OwnSizes(results')
      /\ AllLoaded(results) => AllLoaded(results')
  BY <1>1, <1>2, Resorted
<1>4. Tables'
  BY <1>1, <1>2, <1>3 DEF RowsInv, Tables, RowsOK
<1>5. Staged'
  BY <1>1, <1>3 DEF RowsInv, Staged, TaskTypeOK
<1>6. Sizes'
  <2>1. shuffled' # "mixed" => OwnSizes(results')
    BY <1>1, <1>3 DEF RowsInv, Sizes
  <2>2. state' = "Loading" /\ shuffled' = "no" => shuffled = "no" /\ results' = results
    BY <1>1
  <2> QED BY <1>1, <2>1, <2>2 DEF RowsInv, Sizes, OwnSizes
<1>7. Loads'
  BY <1>1, <1>2, <1>3 DEF RowsInv, Loads, AllLoaded
<1>8. Shown'
  BY <1>1, <1>2, <1>3 DEF Shown, InOrder
<1> QED BY <1>4, <1>5, <1>6, <1>7, <1>8 DEF RowsInv

LEMMA ClicksRows ==
    ASSUME RowsInv, Flags, SortByClickedColumn
    PROVE  RowsInv'
<1>1. /\ ui = "free" /\ dirty' = "none" /\ column' = dirty /\ presorted' = FALSE
      /\ UNCHANGED <<tasks, back>>
      /\ dirty \in Columns /\ dirty' \in Columns \cup {"none"}
  BY DEF SortByClickedColumn, RowsInv, Tables, poolVars
<1>2. CASE dirty = "Size"
  BY <1>1, <1>2, LoadsFirst DEF SortByClickedColumn
<1>3. CASE dirty # "Size"
  BY <1>1, <1>3, SortsRowsInPlace DEF SortByClickedColumn, Columns
<1> QED BY <1>2, <1>3

LEMMA UpdatesRows ==
    ASSUME RowsInv, Flags, SortUpdatedResults
    PROVE  RowsInv'
<1>1. /\ ui = "free" /\ column \in Columns /\ presorted' = FALSE /\ updated' = FALSE /\ updated
      /\ UNCHANGED <<tasks, back, column, dirty>>
      /\ dirty' = "none" /\ dirty' \in Columns \cup {"none"}
  BY DEF SortUpdatedResults, RowsInv, Tables, poolVars
<1>2. CASE column = "Size"
  BY <1>1, <1>2, LoadsFirst DEF SortUpdatedResults, NeedsAsync
<1>3. CASE column # "Size" /\ ~ presorted
  BY <1>1, <1>3, SortsRowsInPlace DEF SortUpdatedResults, NeedsAsync, Columns
<1>4. CASE column # "Size" /\ presorted
  <2>1. UNCHANGED <<state, cancelled, counter, generation, staging, stagingGen, results, ui,
                    shuffled, lost>>
    BY <1>4 DEF SortUpdatedResults, NeedsAsync, sortVars, history
  <2>2. Tables'
    BY <1>1, <2>1 DEF RowsInv, Tables, RowsOK
  <2>3. Staged'
    BY <1>1, <2>1 DEF RowsInv, Staged, TaskTypeOK
  <2>4. Sizes'
    BY <1>1, <2>1 DEF RowsInv, Sizes, OwnSizes
  <2>5. Loads'
    BY <1>1, <2>1 DEF RowsInv, Loads, AllLoaded
  <2>6. InOrder(results, column)
    BY <1>1, <1>4 DEF RowsInv, Shown, Columns
  <2>7. Shown'
    BY <1>1, <1>4, <2>1, <2>6 DEF Shown, InOrder
  <2> QED BY <2>2, <2>3, <2>4, <2>5, <2>7 DEF RowsInv
<1> QED BY <1>2, <1>3, <1>4

(* A row that comes on screen gets its own size; no other column looks at   *)
(* sizes.                                                                   *)
LEMMA ShowsRow ==
    ASSUME RowsInv, NEW i \in DOMAIN results, ShowRow(i)
    PROVE  RowsInv'
<1>1. /\ ui = "free" /\ results[i].size = NotLoaded
      /\ results' = [results EXCEPT ![i].size = results[i].file]
      /\ UNCHANGED <<state, cancelled, counter, generation, staging, stagingGen, remaining,
                     tasks, column, dirty, updated, presorted, ui, back, shuffled, lost>>
  BY DEF ShowRow, sortVars, poolVars, searchVars, uiVars, history
<1>2. /\ Len(results) \in Nat /\ DOMAIN results = 1..Len(results) /\ Len(results) <= NumFiles
      /\ \A j \in DOMAIN results : results[j] \in Row /\ results[j].file \in Files
      /\ results[i] \in Row /\ results[i].file \in Files /\ results \in Seq(Row)
  BY RowParts DEF RowsInv, Tables, RowsOK
<1> DEFINE row == [file |-> results[i].file, size |-> results[i].file]
<1>3. row \in Row
  BY <1>2 DEF Row
<1>4. results' = [results EXCEPT ![i] = row]
  <2>1. [results[i] EXCEPT !.size = results[i].file] = row
    BY <1>2 DEF Row
  <2> QED BY <1>1, <2>1
<1>5. /\ DOMAIN results' = DOMAIN results /\ Len(results') = Len(results)
      /\ results' \in Seq(Row)
      /\ results'[i] = row /\ row.file = results[i].file /\ row.size = results[i].file
      /\ \A j \in DOMAIN results : j # i => results'[j] = results[j]
  <2> HIDE DEF row
  <2>1. /\ DOMAIN results' = DOMAIN results /\ Len(results') = Len(results)
        /\ results' \in Seq(Row) /\ results'[i] = row
        /\ \A j \in DOMAIN results : j # i => results'[j] = results[j]
    BY <1>2, <1>3, <1>4
  <2> QED BY <2>1 DEF row
<1>6. /\ \A j \in DOMAIN results : results'[j].file = results[j].file
      /\ results'[i].size = results[i].file /\ results[i].file # NotLoaded
  BY <1>2, <1>5 DEF Files, NotLoaded
<1> HIDE DEF row
<1>7. RowsOK(results')
  BY <1>2, <1>5, <1>6 DEF RowsInv, Tables, RowsOK
<1>8. Tables'
  BY <1>1, <1>7 DEF RowsInv, Tables, RowsOK
<1>9. Staged'
  BY <1>1, <1>5 DEF RowsInv, Staged, TaskTypeOK
<1>10. OwnSizes(results) => OwnSizes(results')
  BY <1>5, <1>6 DEF OwnSizes
<1>11. Sizes'
  BY <1>1, <1>5, <1>6, <1>10 DEF RowsInv, Sizes, OwnSizes
<1>12. AllLoaded(results) => AllLoaded(results')
  BY <1>1 DEF AllLoaded
<1>13. Loads'
  <2>1. state = "Ready" => AllLoaded(results')
    BY <1>12 DEF RowsInv, Loads
  <2>2. \A j \in DOMAIN results' : results'[j].size = NotLoaded =>
           j \in DOMAIN results /\ results[j].size = NotLoaded
    BY <1>5, <1>6
  <2> QED BY <1>1, <2>1, <2>2 DEF RowsInv, Loads, AllLoaded
<1>14. \A c \in {"Filename", "FullPath"} : InOrder(results, c) => InOrder(results', c)
  <2>1. \A c \in {"Filename", "FullPath"} : \A j, k \in DOMAIN results :
           Before(c, results[j], results[k]) => Before(c, results'[j], results'[k])
    BY <1>6 DEF Before, Key
  <2> QED BY <1>5, <2>1 DEF InOrder
<1>15. Shown'
  <2>1. ~ AllLoaded(results)
    BY <1>1 DEF AllLoaded
  <2>2. column \in {"Filename", "FullPath", "Size", "none"}
    BY DEF RowsInv, Tables, Columns
  <2>3. state = "Idle" /\ ~updated /\ ~lost /\ column # "none" =>
           InOrder(results', column) /\ column # "Size"
    BY <1>1, <1>14, <2>1, <2>2 DEF RowsInv, Shown
  <2>4. updated /\ presorted /\ column \in {"Filename", "FullPath"} => InOrder(results', column)
    BY <1>1, <1>14 DEF RowsInv, Shown
  <2> QED BY <1>1, <2>3, <2>4 DEF Shown, InOrder
<1> QED BY <1>8, <1>9, <1>11, <1>13, <1>15 DEF RowsInv

(* What touches neither rows nor buffers, but may give the sort up, cancel  *)
(* it or take the UI thread to the latch.                                   *)
LEMMA KeepsRows ==
    ASSUME RowsInv,
           UNCHANGED <<results, column, staging, stagingGen, counter, generation, tasks, back,
                       shuffled, updated, presorted>>,
           dirty' \in Columns \cup {"none"},
           state' \in {state, "Idle"},
           ui = "free",
           \/ ui' \in {"search", "clear"}
           \/ ui' = "free" /\ state' = state /\ lost' = lost /\ cancelled' = cancelled
           \/ ui' = "free" /\ state' = "Idle" /\ (lost' <=> lost \/ state # "Idle")
    PROVE  RowsInv'
<1>1. Tables'
  BY DEF RowsInv, Tables, RowsOK
<1>2. Staged'
  BY DEF RowsInv, Staged, TaskTypeOK
<1>3. Sizes'
  BY DEF RowsInv, Sizes, OwnSizes
<1>4. Loads'
  BY DEF RowsInv, Loads, AllLoaded
<1>5. Shown'
  <2>1. CASE ui' \in {"search", "clear"}
    BY <2>1 DEF RowsInv, Shown, InOrder, AllLoaded
  <2>2. CASE ui' = "free" /\ state' = state /\ lost' = lost
    BY <2>2 DEF RowsInv, Shown, InOrder, AllLoaded
  <2>3. CASE ui' = "free" /\ state' = "Idle" /\ (lost' <=> lost \/ state # "Idle")
    <3>1. ~lost' => ~lost /\ state = "Idle"
      BY <2>3
    <3> QED BY <2>3, <3>1 DEF RowsInv, Shown, InOrder, AllLoaded
  <2> QED BY <2>1, <2>2, <2>3
<1> QED BY <1>1, <1>2, <1>3, <1>4, <1>5 DEF RowsInv

LEMMA UserRows ==
    ASSUME RowsInv, User
    PROVE  RowsInv'
<1>0. dirty \in Columns \cup {"none"}
  BY DEF RowsInv, Tables
<1>1. CASE \E c \in Columns : ClickHeader(c)
  BY <1>1, KeepsRows DEF ClickHeader, sortVars, poolVars, searchVars, uiVars, history
<1>2. CASE \E i \in DOMAIN results : ShowRow(i)
  BY <1>2, ShowsRow
<1>3. CASE BeginInFlightSearch
  <2>1. lost' <=> lost \/ state # "Idle"
    BY <1>3 DEF BeginInFlightSearch
  <2> QED BY <1>0, <1>3, <2>1, KeepsRows DEF BeginInFlightSearch, poolVars, tableVars, uiVars
<1>4. CASE TriggerManualSearch
  BY <1>0, <1>4, KeepsRows
  DEF TriggerManualSearch, CancelAndDrain, poolVars, tableVars, searchVars, history
<1>5. CASE ClearInputs
  BY <1>0, <1>5, KeepsRows
  DEF ClearInputs, CancelAndDrain, poolVars, tableVars, searchVars, history
<1> QED BY <1>1, <1>2, <1>3, <1>4, <1>5 DEF User

(* The rows found carry their own sizes if the rows shown do.               *)
LEMMA FoundRows ==
    ASSUME RowsOK(results), NEW found \in SUBSET Files, NEW known \in SUBSET found
    PROVE  /\ BackBuffer(found, known) \in SUBSET Row
           /\ OfDistinctFiles(BackBuffer(found, known))
           /\ OwnSizes(results) =>
                 \A r \in BackBuffer(found, known) : r.size \in {NotLoaded, r.file}
<1> DEFINE front(f) == {i \in DOMAIN results : results[i].file = f}
           size(f) == IF f \in known THEN f
                      ELSE IF front(f) = {} THEN NotLoaded
                           ELSE results[CHOOSE i \in front(f) : TRUE].size
<1>1. BackBuffer(found, known) = {[file |-> f, size |-> size(f)] : f \in found}
  BY DEF BackBuffer
<1>2. \A f \in found :
         /\ size(f) \in Files \cup {NotLoaded}
         /\ OwnSizes(results) => size(f) \in {NotLoaded, f}
  <2> SUFFICES ASSUME NEW f \in found
               PROVE  /\ size(f) \in Files \cup {NotLoaded}
                      /\ OwnSizes(results) => size(f) \in {NotLoaded, f}
    OBVIOUS
  <2>1. CASE f \in known \/ front(f) = {}
    BY <2>1
  <2>2. CASE f \notin known /\ front(f) # {}
    <3> DEFINE i == CHOOSE i \in front(f) : TRUE
    <3>1. i \in front(f)
      BY <2>2
    <3>2. size(f) = results[i].size
      BY <2>2
    <3> HIDE DEF i
    <3>3. i \in DOMAIN results /\ results[i].file = f
      BY <3>1
    <3> QED BY <3>2, <3>3, RowParts DEF OwnSizes
  <2> QED BY <2>1, <2>2
<1> HIDE DEF size
<1> QED BY <1>1, <1>2 DEF Row, OfDistinctFiles

LEMMA PollsRows ==
    ASSUME RowsInv, PollResults
    PROVE  RowsInv'
<1>1. /\ ui = "free" /\ UNCHANGED <<results, column, dirty, tasks, shuffled, lost>>
  BY DEF PollResults, poolVars, tableVars, history
<1>2. RowsOK(results)
  BY DEF RowsInv, Tables
<1>3. PICK found \in SUBSET Files : \E known \in SUBSET found :
        \/ UNCHANGED <<updated, presorted, sortVars, uiVars>>
        \/ /\ CancelAndDrain("commit")
           /\ back' = SortRows(BackBuffer(found, known), PresortColumn)
           /\ presorted' = ~SortInFlight
           /\ UNCHANGED <<updated, state, counter, generation, staging, stagingGen>>
  BY Zenon DEF PollResults
<1>4. PICK known \in SUBSET found :
        \/ UNCHANGED <<updated, presorted, sortVars, uiVars>>
        \/ /\ CancelAndDrain("commit")
           /\ back' = SortRows(BackBuffer(found, known), PresortColumn)
           /\ presorted' = ~SortInFlight
           /\ UNCHANGED <<updated, state, counter, generation, staging, stagingGen>>
  BY <1>3
<1>5. CASE UNCHANGED <<updated, presorted, sortVars, uiVars>>
  <2>1. dirty \in Columns \cup {"none"}
    BY DEF RowsInv, Tables
  <2> QED BY <1>1, <1>5, <2>1, KeepsRows DEF sortVars, uiVars
<1>6. ASSUME CancelAndDrain("commit"),
             back' = SortRows(BackBuffer(found, known), PresortColumn),
             presorted' = ~SortInFlight,
             UNCHANGED <<updated, state, counter, generation, staging, stagingGen>>
      PROVE  RowsInv'
  <2>1. PresortColumn \in Columns
    BY DEF PresortColumn, Columns, RowsInv, Tables
  <2>2. /\ BackBuffer(found, known) \in SUBSET Row
        /\ OfDistinctFiles(BackBuffer(found, known))
        /\ OwnSizes(results) => \A r \in BackBuffer(found, known) : r.size \in {NotLoaded, r.file}
    BY <1>2, FoundRows
  <2>3. /\ RowsOK(back') /\ InOrder(back', PresortColumn)
        /\ \A i \in DOMAIN back' : back'[i] \in BackBuffer(found, known)
    BY <1>6, <2>1, <2>2, SortSorts
  <2>4. OwnSizes(results) => OwnSizes(back')
    BY <2>2, <2>3 DEF OwnSizes
  <2>5. ui' = "commit"
    BY <1>6 DEF CancelAndDrain
  <2>6. Tables'
    BY <1>1, <1>6, <2>3, <2>5 DEF RowsInv, Tables, RowsOK
  <2>7. Staged'
    BY <1>1, <1>6 DEF RowsInv, Staged, TaskTypeOK
  <2>8. Sizes'
    BY <1>1, <1>6, <2>4 DEF RowsInv, Sizes, OwnSizes
  <2>9. Loads'
    BY <1>1, <1>6, <2>5 DEF RowsInv, Loads, AllLoaded
  <2>10. presorted' /\ column \in {"Filename", "FullPath"} => PresortColumn = column
    BY <1>6 DEF PresortColumn, SortInFlight
  <2>11. Shown'
    BY <1>1, <2>3, <2>5, <2>10 DEF Shown, InOrder
  <2> QED BY <2>6, <2>7, <2>8, <2>9, <2>11 DEF RowsInv
<1> QED BY <1>4, <1>5, <1>6

(* The rows are replaced after the tasks have arrived.                      *)
LEMMA ReplacesRows ==
    ASSUME RowsInv, NEW rows, ReplaceRows(rows), RowsOK(rows),
           shuffled # "mixed" \/ rows = <<>> => OwnSizes(rows),
           updated' /\ presorted' /\ column \in {"Filename", "FullPath"} => InOrder(rows, column),
           ~updated' /\ column # "none" =>
               InOrder(rows, column) /\ (column = "Size" => AllLoaded(rows))
    PROVE  RowsInv'
<1>1. /\ state' = "Idle" /\ counter' = 0 /\ staging' = <<>> /\ stagingGen' = 0
      /\ ui' = "free" /\ back' = <<>> /\ results' = rows
      /\ shuffled' = IF shuffled = "mixed" /\ rows # <<>> THEN "mixed" ELSE "no"
      /\ UNCHANGED <<tasks, column, dirty>>
  BY DEF ReplaceRows, ResetSort, poolVars
<1>2. Tables'
  BY <1>1, NoRows DEF RowsInv, Tables, RowsOK
<1>3. Staged'
  <2>1. 0 \in 0..MaxSorts
    BY MaxClicksAssumption, MaxSearchesAssumption DEF MaxSorts
  <2> QED BY <1>1, <2>1, NoRows DEF RowsInv, Staged, TaskTypeOK
<1>4. Sizes' /\ Loads'
  BY <1>1 DEF Sizes, Loads, OwnSizes
<1>5. Shown'
  BY <1>1 DEF Shown, InOrder, AllLoaded
<1> QED BY <1>2, <1>3, <1>4, <1>5 DEF RowsInv

LEMMA CommitsRows ==
    ASSUME RowsInv, CommitNewSearchResults \/ ClearAndSearch \/ ClearRows
    PROVE  RowsInv'
<1>1. CASE CommitNewSearchResults
  <2>1. RowsOK(back) /\ ui = "commit" /\ updated' = TRUE /\ presorted' = presorted
        /\ ReplaceRows(back)
    BY <1>1 DEF CommitNewSearchResults, RowsInv, Tables
  <2>2. shuffled # "mixed" \/ back = <<>> => OwnSizes(back)
    BY <2>1, NoRows DEF RowsInv, Sizes
  <2>3. presorted /\ column \in {"Filename", "FullPath"} => InOrder(back, column)
    BY <2>1 DEF RowsInv, Shown
  <2> QED BY <2>1, <2>2, <2>3, ReplacesRows
<1>2. CASE ClearAndSearch \/ ClearRows
  BY <1>2, NoRows, ReplacesRows DEF ClearAndSearch, ClearRows
<1> QED BY <1>1, <1>2

-----------------------------------------------------------------------------
(* The tasks.                                                               *)

(* A task that goes on still has its rows in hand; it gives them up unread  *)
(* only when it was cancelled.                                              *)
LEMMA LoadsRows ==
    ASSUME IInv, RowsInv, NEW t \in tasks, TaskLoad(t)
    PROVE  RowsInv'
<1> DEFINE pc == IF cancelled THEN "arrive" ELSE "write"
           u == [gen |-> t.gen, files |-> t.files, pc |-> pc]
<1>1. /\ tasks' = (tasks \ {t}) \cup {u}
      /\ t.pc = "load"
      /\ UNCHANGED <<results, column, dirty, back, state, ui, updated, presorted, shuffled, lost,
                     cancelled, counter, generation, staging, stagingGen>>
  <2>1. [t EXCEPT !.pc = pc] = u
    BY DEF IInv, OneSort, ShapeOK
  <2> HIDE DEF u
  <2> QED BY <2>1 DEF TaskLoad, Becomes, AfterCancel, sortVars, tableVars, searchVars, uiVars, history
<1>2. /\ u.gen = t.gen /\ u.files = t.files /\ u.pc = pc /\ DOMAIN u = {"gen", "files", "pc"}
      /\ u.pc \in {"write", "arrive"} /\ (~cancelled => u.pc = "write")
  OBVIOUS
<1> HIDE DEF u, pc
<1>3. Tables'
  BY <1>1 DEF RowsInv, Tables, RowsOK
<1>4. Staged'
  <2>1. TaskTypeOK(u)
    BY <1>2 DEF RowsInv, Staged, TaskTypeOK
  <2>2. \A v \in tasks' : TaskTypeOK(v)
    BY <1>1, <2>1 DEF RowsInv, Staged
  <2> QED BY <1>1, <2>2 DEF RowsInv, Staged, TaskTypeOK
<1>5. Sizes'
  BY <1>1, <1>2 DEF RowsInv, Sizes, OwnSizes
<1>6. Loads'
  BY <1>1, <1>2 DEF RowsInv, Loads, AllLoaded
<1>7. Shown'
  BY <1>1 DEF RowsInv, Shown, InOrder, AllLoaded
<1> QED BY <1>3, <1>4, <1>5, <1>6, <1>7 DEF RowsInv

(* A task writes what it has read under the numbers its rows had.           *)
LEMMA WritesRows ==
    ASSUME IInv, RowsInv, NEW t \in tasks, TaskWrite(t)
    PROVE  RowsInv'
<1> DEFINE u == [gen |-> t.gen, files |-> t.files, pc |-> "arrive"]
<1>1. /\ tasks' = (tasks \ {t}) \cup {u}
      /\ staging' = [i \in DOMAIN staging |-> Stage(t, i)]
      /\ UNCHANGED <<results, column, dirty, back, state, ui, updated, presorted, shuffled, lost,
                     cancelled, counter, generation, stagingGen>>
  <2>1. [t EXCEPT !.pc = "arrive"] = u
    BY DEF IInv, OneSort, ShapeOK
  <2> HIDE DEF u
  <2> QED BY <2>1 DEF TaskWrite, Becomes, tableVars, searchVars, uiVars, history
<1>2. /\ u.gen = t.gen /\ u.files = t.files /\ u.pc = "arrive" /\ DOMAIN u = {"gen", "files", "pc"}
  OBVIOUS
<1> HIDE DEF u
<1>3. /\ staging \in Seq(Files \cup {NotLoaded}) /\ TaskTypeOK(t)
      /\ Len(staging) \in Nat /\ DOMAIN staging = 1..Len(staging)
  BY DEF RowsInv, Staged
<1>4. \A i \in DOMAIN staging :
         /\ Stage(t, i) \in Files \cup {NotLoaded}
         /\ i \in DOMAIN t.files => Stage(t, i) = t.files[i] /\ Stage(t, i) # NotLoaded
         /\ i \notin DOMAIN t.files => Stage(t, i) = staging[i]
  <2>1. \A i \in DOMAIN t.files : t.files[i] \in Files /\ t.files[i] # NotLoaded
    BY <1>3 DEF TaskTypeOK, Files, NotLoaded
  <2> QED BY <1>3, <2>1 DEF Stage
<1>5. /\ staging' \in Seq(Files \cup {NotLoaded}) /\ Len(staging') = Len(staging)
      /\ \A i \in DOMAIN staging : staging'[i] = Stage(t, i)
  BY <1>1, <1>3, <1>4
<1>6. state = "Loading" => DOMAIN staging = DOMAIN results
  <2>1. DOMAIN results = 1..Len(results)
    BY RowParts DEF RowsInv, Tables
  <2> QED BY <1>3, <2>1 DEF RowsInv, Staged
<1>7. Tables'
  BY <1>1 DEF RowsInv, Tables, RowsOK
<1>8. Staged'
  <2>1. TaskTypeOK(u)
    BY <1>2, <1>3 DEF TaskTypeOK
  <2>2. \A v \in tasks' : TaskTypeOK(v)
    BY <1>1, <2>1 DEF RowsInv, Staged
  <2>3. state # "Ready"
    BY DEF IInv, ReadyHasNone
  <2> QED BY <1>1, <1>5, <2>2, <2>3 DEF RowsInv, Staged, TaskTypeOK
<1>9. Sizes'
  <2>1. ASSUME state = "Loading", shuffled = "no", NEW i \in DOMAIN results
        PROVE  /\ staging'[i] \in {NotLoaded, results[i].file}
               /\ \A v \in tasks' : i \in DOMAIN v.files => v.files[i] = results[i].file
    BY <1>1, <1>2, <1>4, <1>5, <1>6, <2>1 DEF RowsInv, Sizes
  <2> QED BY <1>1, <2>1 DEF RowsInv, Sizes, OwnSizes
<1>10. Loads'
  <2>1. ASSUME state = "Loading", ui = "free", column = "Size",
               NEW i \in DOMAIN results, results[i].size = NotLoaded
        PROVE  \/ staging'[i] # NotLoaded
               \/ \E v \in tasks' : i \in DOMAIN v.files /\ v.pc # "arrive"
    <3>1. CASE i \in DOMAIN t.files
      BY <1>4, <1>5, <1>6, <2>1, <3>1
    <3>2. CASE i \notin DOMAIN t.files
      <4>1. staging'[i] = staging[i]
        BY <1>4, <1>5, <1>6, <2>1, <3>2
      <4>2. \A v \in tasks : i \in DOMAIN v.files => v \in tasks'
        BY <1>1, <3>2
      <4> QED BY <2>1, <4>1, <4>2 DEF RowsInv, Loads
    <3> QED BY <3>1, <3>2
  <2> QED BY <1>1, <2>1 DEF RowsInv, Loads, AllLoaded
<1>11. Shown'
  BY <1>1 DEF RowsInv, Shown, InOrder, AllLoaded
<1> QED BY <1>7, <1>8, <1>9, <1>10, <1>11 DEF RowsInv

LEMMA ArrivesWithRows ==
    ASSUME RowsInv, NEW t \in tasks, TaskArrive(t)
    PROVE  RowsInv'
<1>1. /\ tasks' = tasks \ {t} /\ t.pc = "arrive"
      /\ UNCHANGED <<results, column, dirty, back, state, ui, updated, presorted, shuffled, lost,
                     cancelled, counter, generation, staging, stagingGen>>
  BY DEF TaskArrive, sortVars, tableVars, searchVars, uiVars, history
<1>2. Tables'
  BY <1>1 DEF RowsInv, Tables, RowsOK
<1>3. Staged'
  BY <1>1 DEF RowsInv, Staged, TaskTypeOK
<1>4. Sizes'
  BY <1>1 DEF RowsInv, Sizes, OwnSizes
<1>5. Loads'
  BY <1>1 DEF RowsInv, Loads, AllLoaded
<1>6. Shown'
  BY <1>1 DEF RowsInv, Shown, InOrder, AllLoaded
<1> QED BY <1>2, <1>3, <1>4, <1>5, <1>6 DEF RowsInv

-----------------------------------------------------------------------------
LEMMA FlagsHold ==
    ASSUME Flags, [Next]_vars
    PROVE  Flags'
<1>1. CASE StartSortAttributeLoading
  BY <1>1, Zenon DEF StartSortAttributeLoading, Flags, searchVars, counts
<1>2. CASE CheckAndCompleteAsyncSort
  BY <1>2, Zenon DEF CheckAndCompleteAsyncSort, Flags, searchVars, counts
<1>3. CASE SortByClickedColumn
  <2>1. /\ UNCHANGED <<updated, complete, searching, clicks, searches>>
        /\ presorted' = FALSE
        /\ LoadThenSort \/ \E c : SortInPlace(c)
    BY <1>3 DEF SortByClickedColumn, counts
  <2>2. /\ cancelled' = TRUE \/ cancelled' = cancelled
        /\ lost' = FALSE \/ lost' = lost
        /\ shuffled' = "moved" \/ shuffled' = shuffled
    BY <2>1 DEF LoadThenSort, SortInPlace, CancelAndDrain, history, sortVars
  <2> QED BY <2>1, <2>2, Zenon DEF Flags
<1>4. CASE SortUpdatedResults
  <2>1. /\ UNCHANGED <<complete, searching, clicks, searches>>
        /\ presorted' = FALSE /\ updated' = FALSE
        /\ LoadThenSort \/ (\E c : SortInPlace(c)) \/ UNCHANGED <<sortVars, history>>
    BY <1>4 DEF SortUpdatedResults, counts
  <2>2. /\ cancelled' = TRUE \/ cancelled' = cancelled
        /\ lost' = FALSE \/ lost' = lost
        /\ shuffled' = "moved" \/ shuffled' = shuffled
    BY <2>1 DEF LoadThenSort, SortInPlace, CancelAndDrain, history, sortVars
  <2> QED BY <2>1, <2>2, Zenon DEF Flags
<1>5. CASE PollResults
  <2>1. /\ UNCHANGED <<updated, clicks, searches, shuffled, lost>>
        /\ searching' = FALSE
        /\ cancelled' = TRUE \/ cancelled' = cancelled
        /\ complete' = TRUE \/ complete' = complete
        /\ presorted' \in BOOLEAN \/ presorted' = presorted
    BY <1>5, Zenon DEF PollResults, CancelAndDrain, sortVars, counts, history
  <2> QED BY <2>1, Zenon DEF Flags
<1>6. CASE CommitNewSearchResults
  BY <1>6, Zenon DEF CommitNewSearchResults, ReplaceRows, ResetSort, Flags, counts
<1>7. CASE ClearAndSearch
  BY <1>7, Zenon DEF ClearAndSearch, ReplaceRows, ResetSort, Flags, counts
<1>8. CASE ClearRows
  BY <1>8, Zenon DEF ClearRows, ReplaceRows, ResetSort, Flags, counts
<1>9. CASE \E c \in Columns : ClickHeader(c)
  <2>1. clicks' \in 0..MaxClicks
    BY <1>9, MaxClicksAssumption DEF ClickHeader, Flags
  <2> QED BY <1>9, <2>1, Zenon DEF ClickHeader, Flags, sortVars, searchVars, history
<1>10. CASE \E i \in DOMAIN results : ShowRow(i)
  BY <1>10, Zenon DEF ShowRow, Flags, sortVars, searchVars, counts, history
<1>11. CASE BeginInFlightSearch \/ TriggerManualSearch \/ ClearInputs
  <2>1. searches' \in 0..MaxSearches
    BY <1>11, MaxSearchesAssumption
    DEF BeginInFlightSearch, TriggerManualSearch, ClearInputs, Flags
  <2>2. lost' \in BOOLEAN
    BY <1>11, Zenon DEF BeginInFlightSearch, TriggerManualSearch, ClearInputs, Flags, history
  <2> QED BY <1>11, <2>1, <2>2, Zenon
          DEF BeginInFlightSearch, TriggerManualSearch, ClearInputs, CancelAndDrain, Flags,
              searchVars, history
<1>12. CASE Pool
  <2>1. UNCHANGED <<updated, presorted, complete, searching, cancelled, lost, shuffled,
                    clicks, searches>>
    BY <1>12 DEF Pool, TaskLoad, TaskWrite, TaskArrive, sortVars, searchVars, counts, history
  <2> QED BY <2>1, Zenon DEF Flags
<1>13. CASE UNCHANGED vars
  <2>1. UNCHANGED <<updated, presorted, complete, searching, cancelled, lost, shuffled,
                    clicks, searches>>
    BY <1>13 DEF vars, sortVars, searchVars, counts, history
  <2> QED BY <2>1, Zenon DEF Flags
<1> QED BY <1>1, <1>2, <1>3, <1>4, <1>5, <1>6, <1>7, <1>8, <1>9, <1>10, <1>11, <1>12, <1>13
        DEF Next, Frame, User

LEMMA RowsHold ==
    ASSUME IInv, Flags, RowsInv, [Next]_vars
    PROVE  RowsInv'
<1>1. CASE StartSortAttributeLoading \/ CheckAndCompleteAsyncSort
  BY <1>1, StartsOnRows, CompletesRows
<1>2. CASE SortByClickedColumn \/ SortUpdatedResults
  BY <1>2, ClicksRows, UpdatesRows
<1>3. CASE PollResults
  BY <1>3, PollsRows
<1>4. CASE CommitNewSearchResults \/ ClearAndSearch \/ ClearRows
  BY <1>4, CommitsRows
<1>5. CASE User
  BY <1>5, UserRows
<1>6. CASE Pool
  BY <1>6, LoadsRows, WritesRows, ArrivesWithRows DEF Pool
<1>7. CASE UNCHANGED vars
  <2>1. UNCHANGED <<results, column, dirty, back, tasks, state, ui, updated, presorted, shuffled,
                    lost, cancelled, counter, generation, staging, stagingGen>>
    BY <1>7 DEF vars, sortVars, poolVars, tableVars, searchVars, uiVars, history
  <2>2. Tables'
    BY <2>1 DEF RowsInv, Tables, RowsOK
  <2>3. Staged'
    BY <2>1 DEF RowsInv, Staged, TaskTypeOK
  <2>4. Sizes' /\ Loads'
    BY <2>1 DEF RowsInv, Sizes, Loads, OwnSizes, AllLoaded
  <2>5. Shown'
    BY <2>1 DEF RowsInv, Shown, InOrder, AllLoaded
  <2> QED BY <2>2, <2>3, <2>4, <2>5 DEF RowsInv
<1> QED BY <1>1, <1>2, <1>3, <1>4, <1>5, <1>6, <1>7 DEF Next, Frame

TableInv == IInv /\ Flags /\ RowsInv

LEMMA TableInvHolds == Spec => []TableInv
<1>1. Init => TableInv
  BY InitHolds, RowsInit DEF TableInv
<1>2. TableInv /\ [Next]_vars => TableInv'
  <2> SUFFICES ASSUME TableInv, [Next]_vars PROVE TableInv'
    OBVIOUS
  <2>1. IInv'
    BY Inductive DEF TableInv
  <2>2. Flags' /\ RowsInv'
    BY FlagsHold, RowsHold DEF TableInv
  <2> QED BY <2>1, <2>2 DEF TableInv
<1> QED BY <1>1, <1>2, PTL DEF Spec

(* Type correctness: in particular what the tasks carry are rows of the     *)
(* table, and the table is a sequence of rows whatever it was replaced by.  *)
THEOREM SortTypeCorrect == Spec => []TypeOK
<1>1. TableInv => TypeOK
  <2> SUFFICES ASSUME TableInv PROVE TypeOK
    OBVIOUS
  <2>1. results \in Seq(Row) /\ back \in Seq(Row)
    BY DEF TableInv, RowsInv, Tables, RowsOK
  <2>2. /\ column \in Columns \cup {"none"} /\ dirty \in Columns \cup {"none"}
        /\ state \in {"Idle", "Loading", "Ready"}
        /\ ui \in {"free", "start", "commit", "search", "clear"}
    BY DEF TableInv, RowsInv, Tables
  <2>3. /\ counter \in 0..MaxSorts /\ stagingGen \in 0..MaxSorts
        /\ staging \in Seq(Files \cup {NotLoaded}) /\ \A t \in tasks : TaskTypeOK(t)
    BY DEF TableInv, RowsInv, Staged
  <2>4. generation \in 0..MaxSorts /\ remaining \in [1..MaxSorts -> Nat]
    BY DEF TableInv, IInv, Numbers
  <2>5. Flags
    BY DEF TableInv
  <2> QED BY <2>1, <2>2, <2>3, <2>4, <2>5, Zenon DEF TypeOK, Flags
<1> QED BY <1>1, TableInvHolds, PTL

(* The code behaviour of ApplyPendingSortAttributeUpdates                   *)
(* (SearchResultUtils.cpp): values are copied by row number, and only an    *)
(* order changed while a load was under way gives a row the size of another *)
(* file, for any number of rows, batches, cancelled loads and searches.     *)
THEOREM OnlyMovedRowsAreMixed == Spec => []OnlyReorderingMixesRows
<1>1. TableInv => OnlyReorderingMixesRows
  BY DEF TableInv, RowsInv, Sizes, OwnSizes, OnlyReorderingMixesRows
<1> QED BY <1>1, TableInvHolds, PTL

(* The code behaviour of HandleTableSorting and CheckAndCompleteAsyncSort:  *)
(* at rest the rows are in the order the header shows, all sizes known when *)
(* it is by size, unless a search had the code forget a pending sort.       *)
THEOREM RestShowsOrder == Spec => []SettledInOrder
<1>1. TableInv => SettledInOrder
  BY Zenon DEF TableInv, RowsInv, Shown, AllLoaded, SettledInOrder, OrderShown, AtRest
<1> QED BY <1>1, TableInvHolds, PTL
=============================================================================
