----------------------------- MODULE UsnIngest -----------------------------
(***************************************************************************)
(* From the file system through the USN journal into the index: an NTFS     *)
(* volume whose files are created, renamed, moved and deleted, the journal  *)
(* that gets one record for a file when its last handle is closed, and      *)
(* UsnMonitor::ProcessOneBuffer, which applies the journal buffer by buffer *)
(* with the operators of IndexOperations.tla.                               *)
(*                                                                         *)
(* The journal is read with ReturnOnlyOnClose: a record carries all that    *)
(* happened to the file since it was opened, with its last name and parent, *)
(* and the record of a directory may come after those of its children.      *)
(***************************************************************************)
EXTENDS IndexOperations

Seqs == INSTANCE SequencesExt

CONSTANTS
    Names,      \* file names
    MaxOps,     \* bound: operations on the file system
    MaxBuffer   \* bound: records in a buffer

ASSUME BoundsAssumption == MaxOps \in Nat /\ MaxBuffer \in Nat \ {0}

VARIABLES
    fs,        \* record number -> the file that uses it
    ops,       \* operations so far
    journal,   \* records not yet applied
    index,     \* the index, see IndexOperations
    drift,     \* history: the code has misread a record, see Misread
    astray     \* history: the parents have been such that paths go wrong

vars == <<fs, ops, journal, index, drift, astray>>

Reasons == {"create", "rename", "delete"}
References == [rec : Records, seq : 1..MaxOps]
NoName == "none"
Files == [seq : 0..MaxOps, live : BOOLEAN, parent : Records \cup {0},
          name : Names \cup {NoName}, dir : BOOLEAN, reasons : SUBSET Reasons]
UsnRecords == [self : References, parent : References \cup {Root},
               name : Names, dir : BOOLEAN, reasons : SUBSET Reasons]

TypeOK ==
    /\ fs \in [Records -> Files]
    /\ ops \in 0..MaxOps
    /\ journal \in Seq(UsnRecords)
    /\ DOMAIN index.entries \subseteq References
    /\ \A id \in DOMAIN index.entries : index.entries[id].parent \in References \cup {Root}
    /\ DOMAIN index.canonical \subseteq Records
    /\ index.awaiting \in [Records -> SUBSET References]
    /\ drift \in BOOLEAN /\ astray \in BOOLEAN

Unused(seq) == [seq |-> seq, live |-> FALSE, parent |-> 0,
                name |-> NoName, dir |-> FALSE, reasons |-> {}]

Init ==
    /\ fs = [r \in Records |-> Unused(0)]
    /\ ops = 0
    /\ journal = <<>>
    /\ index = EmptyIndex
    /\ drift = FALSE /\ astray = FALSE

-----------------------------------------------------------------------------
(* The volume.                                                              *)
Live == {r \in Records : fs[r].live}
ParentsOf[r \in Records] == IF fs[r].parent = 0 THEN {} ELSE {fs[r].parent} \cup ParentsOf[fs[r].parent]
Free(parent, name) == \A r \in Live : <<fs[r].parent, fs[r].name>> # <<parent, name>>
Folders == {0} \cup {r \in Live : fs[r].dir}
Reference(r) == IF r = 0 THEN Root ELSE [rec |-> r, seq |-> fs[r].seq]

UsnRecord(r, reasons) ==
    [self |-> Reference(r), parent |-> Reference(fs[r].parent),
     name |-> fs[r].name, dir |-> fs[r].dir, reasons |-> reasons]

Operate ==
    /\ ops < MaxOps
    /\ ops' = ops + 1
    /\ UNCHANGED <<index, drift, astray>>

CreateFile(r, parent, name, dir) ==
    /\ Operate
    /\ ~fs[r].live /\ Free(parent, name)
    /\ fs' = [fs EXCEPT ![r] = [seq |-> @.seq + 1, live |-> TRUE, parent |-> parent,
                                name |-> name, dir |-> dir, reasons |-> {"create"}]]
    /\ UNCHANGED journal

(* No handle below a directory may be open when it is renamed.              *)
RenameFile(r, parent, name) ==
    /\ Operate
    /\ fs[r].live /\ Free(parent, name)
    /\ parent # r /\ (parent # 0 => r \notin ParentsOf[parent])
    /\ \A d \in Live : r \in ParentsOf[d] => fs[d].reasons = {}
    /\ fs' = [fs EXCEPT ![r] = [fs[r] EXCEPT !.parent = parent, !.name = name,
                                         !.reasons = @ \cup {"rename"}]]
    /\ UNCHANGED journal

(* The file is gone when its last handle is closed.                         *)
DeleteFile(r) ==
    /\ Operate
    /\ fs[r].live /\ \A d \in Live : fs[d].parent # r
    /\ journal' = Append(journal, UsnRecord(r, fs[r].reasons \cup {"delete"}))
    /\ fs' = [fs EXCEPT ![r] = Unused(@.seq)]

CloseFile(r) ==
    /\ fs[r].live /\ fs[r].reasons # {}
    /\ journal' = Append(journal, UsnRecord(r, fs[r].reasons))
    /\ fs' = [fs EXCEPT ![r].reasons = {}]
    /\ UNCHANGED <<ops, index, drift, astray>>

-----------------------------------------------------------------------------
(* One record.                                                              *)
HandleFileRename(ix, record) ==
    LET self == ResolveEntryReference(ix, record.self)
        moved == IF ix.entries[self].parent.rec # record.parent.rec
                 THEN Move(ix, self, record.parent) ELSE ix
    IN IF self = Nothing
       THEN Insert(ix, record.self, record.parent, record.name, record.dir)
       ELSE IF moved # ix /\ Leaf(moved.entries[self]) = record.name
       THEN moved
       ELSE Rename(moved, self, record.name)

ProcessUsnRecordReasons(ix, record) ==
    LET settled == IF "delete" \in record.reasons THEN Remove(ix, record.self)
                   ELSE IF "create" \in record.reasons
                   THEN Insert(ix, record.self, record.parent, record.name, record.dir)
                   ELSE ix
    IN IF "rename" \in record.reasons THEN HandleFileRename(settled, record) ELSE settled

EstablishesParent(record) == "create" \in record.reasons /\ record.dir

(* What the code is known to misread, see the findings: the record of a     *)
(* file that was renamed and deleted while open, and a record number that   *)
(* is deleted and used again in one buffer, by a directory or its parent.   *)
Misread(buffer) ==
    \/ \E i \in DOMAIN buffer : {"rename", "delete"} \subseteq buffer[i].reasons
    \/ \E i, j \in DOMAIN buffer :
          /\ i < j /\ "delete" \in buffer[i].reasons /\ EstablishesParent(buffer[j])
          /\ buffer[i].self.rec \in {buffer[j].self.rec, buffer[j].parent.rec}

(* When paths are not kept: moves that are read in another order close a    *)
(* cycle of parents; a record number is used again while an entry still     *)
(* names its last use as its parent; a path is as long as the walk.         *)
Astray(ix) ==
    \E id \in DOMAIN ix.entries :
        LET entry == ix.entries[id] IN
        \/ IsDescendantOf(ix, id, id)
        \/ ResolveEntryReference(ix, entry.parent) \notin {entry.parent, Nothing}
        \/ Len(entry.names) >= MaxParentWalk

ApplyOneUsnRecord(applied, record) ==
    LET ix == ProcessUsnRecordReasons(applied.index, record)
    IN [index |-> ix, astray |-> applied.astray \/ Astray(ix)]

(* The directories that a buffer creates come first, under the same lock.   *)
Collect(parts, record) ==
    IF EstablishesParent(record)
    THEN [parts EXCEPT !.establish_parents = Append(@, record)]
    ELSE [parts EXCEPT !.remaining = Append(@, record)]

Partition(buffer) ==
    Seqs!FoldLeft(Collect, [establish_parents |-> <<>>, remaining |-> <<>>], buffer)

ProcessOneBuffer ==
    \E n \in 1..MaxBuffer :
        /\ n <= Len(journal)
        /\ LET buffer == SubSeq(journal, 1, n)
               parts == Partition(buffer)
               order == parts.establish_parents \o parts.remaining
               applied == Seqs!FoldLeft(ApplyOneUsnRecord, [index |-> index, astray |-> astray], order)
           IN /\ index' = applied.index
              /\ astray' = applied.astray
              /\ drift' = (drift \/ Misread(buffer))
        /\ journal' = SubSeq(journal, n + 1, Len(journal))
        /\ UNCHANGED <<fs, ops>>

(* The sweep drops what has waited for five minutes: what happened before   *)
(* is assumed to be in the journal, and applied, by then.  It runs after a  *)
(* buffer, under a lock of its own; whether it is due is a matter of time.  *)
CaughtUp == journal = <<>> /\ \A r \in Records : fs[r].reasons = {}

SweepNeverArriving ==
    /\ CaughtUp
    /\ LET waiting == UNION {index.awaiting[r] : r \in Records}
           Evict(id, ix) == Remove(ix, id)
       IN /\ waiting # {}
          /\ index' = FoldSet(Evict, index, waiting)
    /\ UNCHANGED <<fs, ops, journal, drift, astray>>

Next ==
    \/ \E r \in Records, p \in Folders, n \in Names :
          (\E d \in BOOLEAN : CreateFile(r, p, n, d)) \/ RenameFile(r, p, n)
    \/ \E r \in Records : DeleteFile(r) \/ CloseFile(r)
    \/ ProcessOneBuffer \/ SweepNeverArriving

Spec == Init /\ [][Next]_vars

-----------------------------------------------------------------------------
PathInVolume[r \in Records] ==
    IF fs[r].parent = 0 THEN <<fs[r].name>> ELSE Append(PathInVolume[fs[r].parent], fs[r].name)

(* Once the journal is applied the index shows the volume: no file missing, *)
(* none left over, each one in its place and under its name.                *)
ShowsVolume ==
    CaughtUp =>
        /\ DOMAIN index.entries = {Reference(r) : r \in Live}
        /\ \A r \in Live : LET entry == index.entries[Reference(r)] IN
              /\ entry.parent.rec = fs[r].parent /\ entry.dir = fs[r].dir
              /\ entry.rooted /\ entry.names = PathInVolume[r]

ConvergesUnlessMisread == ~drift /\ ~astray => ShowsVolume

(* CheckBareNameInvariant (IndexOperations.cpp:622): an entry with a bare   *)
(* name waits for its parent, so that it is healed or swept.                *)
BareNamesWait ==
    ~drift => \A id \in DOMAIN index.entries :
        ~index.entries[id].rooted /\ Len(index.entries[id].names) = 1
            => IsAwaitingChild(index, id)

(* Whatever the order of the records, an entry is shown below its parent.   *)
PathsFollowParents ==
    ~drift /\ ~astray => \A id \in DOMAIN index.entries :
        LET parent == index.entries[id].parent
        IN parent \in DOMAIN index.entries =>
              PathOf(index, id) = PathBelow(index, parent, Leaf(index.entries[id]))

(* The oracle of FileIndexInsertPathDedupTests.cpp, WalkIndexedPath: the    *)
(* names met on the walk up the parents, resolved as the code resolves them, *)
(* are the stored path.  Apart for directories and for files, which cycles  *)
(* of parents and the reuse of record numbers put in a wrong place.         *)
WalkMeetsPath(id) ==
    LET up == ResolveEntryReference(index, index.entries[id].parent)
    IN up # Nothing => PathOf(index, id) = PathBelow(index, up, Leaf(index.entries[id]))

WalkMeetsFolderPaths ==
    ~drift /\ CaughtUp =>
        \A id \in DOMAIN index.entries : index.entries[id].dir => WalkMeetsPath(id)

(* The same for files.                                                      *)
WalkMeetsFilePaths ==
    ~drift /\ CaughtUp =>
        \A id \in DOMAIN index.entries : ~index.entries[id].dir => WalkMeetsPath(id)

(* Nothing waits but entries of the index, for the parent they have.        *)
WaitersArePlaceholders ==
    \A r \in Records : \A id \in index.awaiting[r] :
        id \in DOMAIN index.entries /\ index.entries[id].parent.rec = r
=============================================================================
