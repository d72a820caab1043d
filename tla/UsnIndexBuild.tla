---------------------------- MODULE UsnIndexBuild ----------------------------
(***************************************************************************)
(* A session that is indexed from the USN journal: the UI thread starts     *)
(* the monitor and then WindowsIndexBuilder, whose thread polls the        *)
(* population; the user may stop the build, or replace the index by the    *)
(* crawl of a folder (Application::StartIndexBuilding).                     *)
(*                                                                         *)
(* The monitor is UsnMonitor.  Its owner is the thread that called Start   *)
(* or Stop last: the UI thread or the builder's.  They may do so only one  *)
(* after the other, see StopsSerialized.                                   *)
(***************************************************************************)
EXTENDS UsnMonitor

VARIABLES
    app,      \* where the UI thread stands
    builder,  \* where the builder's worker_thread_ stands
    build,    \* index_build_state_
    use_usn,  \* use_usn_monitor_
    index     \* the sources of what file_index_ holds

session == <<app, builder, build, use_usn>>
allvars == <<vars, session, index>>

SessionTypeOK ==
    /\ TypeOK
    /\ app \in {"boot", "starting", "running", "join", "join_replace", "clear",
                "stop_monitor", "wait_stop", "crawling"}
    /\ builder \in {"none", "poll", "check", "stop_monitor", "wait_stop", "inactive", "done"}
    /\ build \in [active : BOOLEAN, completed : BOOLEAN, failed : BOOLEAN, cancel : BOOLEAN]
    /\ use_usn \in BOOLEAN
    /\ index \subseteq {"usn", "crawl"}

SessionInit ==
    /\ Init
    /\ app = "boot" /\ builder = "none"
    /\ build = [active |-> FALSE, completed |-> FALSE, failed |-> FALSE, cancel |-> FALSE]
    /\ use_usn = FALSE
    /\ index = {}

IsIndexBuilding == build.active \/ (use_usn /\ populating)

-----------------------------------------------------------------------------
(* Steps of the monitor; those that commit the MFT scan or apply a buffer   *)
(* write to the index.                                                      *)
WritesIndex ==
    \/ reader = "populate" /\ reader' # "populate"
    \/ reader = "drain" /\ reader' = "drain" /\ applied' # applied
    \/ processor = "apply" /\ processor' = "pop"

MonitorStep ==
    /\ WriteRecord \/ OwnerStep \/ ReaderStep \/ ProcessorStep
    /\ index' = IF WritesIndex THEN index \cup {"usn"} ELSE index
    /\ UNCHANGED session

-----------------------------------------------------------------------------
(* The UI thread.                                                           *)

(* AppBootstrap: Start, and a failure is only logged.                       *)
StartMonitor ==
    /\ app = "boot" /\ app' = "starting"
    /\ Start
    /\ UNCHANGED <<builder, build, use_usn, index>>

(* main_common: the builder exists as soon as the monitor does.             *)
StartBuilder ==
    /\ app = "starting" /\ app' = "running"
    /\ owner = "idle"
    /\ builder' = "poll"
    /\ build' = [active |-> TRUE, completed |-> FALSE, failed |-> FALSE, cancel |-> FALSE]
    /\ use_usn' = TRUE
    /\ UNCHANGED <<vars, index>>

(* The buttons of the settings window: Stop is shown while a build runs,    *)
(* Start otherwise.  Both call the builder's Stop, which joins its thread.  *)
CancelBuild(next) ==
    /\ app = "running" /\ app' = next
    /\ build' = [build EXCEPT !.cancel = TRUE]
    /\ UNCHANGED <<vars, builder, use_usn, index>>

StopIndexBuilding == IsIndexBuilding /\ CancelBuild("join")

StartsAtOnce ==   \* mutant of StartIndexBuilding
    /\ app = "running" /\ app' = "clear"
    /\ build' = [build EXCEPT !.cancel = TRUE]
    /\ UNCHANGED <<vars, builder, use_usn, index>>

StartIndexBuilding == ~IsIndexBuilding /\ CancelBuild("join_replace")

JoinBuilder ==
    /\ builder = "done"
    /\ \/ app = "join" /\ app' = "running"
       \/ app = "join_replace" /\ app' = "clear"
    /\ UNCHANGED <<vars, builder, build, use_usn, index>>

ClearIndex ==
    /\ app = "clear" /\ app' = "stop_monitor"
    /\ index' = {}
    /\ use_usn' = FALSE
    /\ UNCHANGED <<vars, builder, build>>

KeepsMonitor ==   \* mutant of StopMonitor
    /\ app = "stop_monitor" /\ app' = "wait_stop"
    /\ UNCHANGED <<vars, builder, build, use_usn, index>>

StopMonitor ==
    /\ app = "stop_monitor" /\ app' = "wait_stop"
    /\ Stop
    /\ UNCHANGED <<builder, build, use_usn, index>>

StartCrawl ==
    /\ app = "wait_stop" /\ app' = "crawling"
    /\ owner = "idle"
    /\ build' = [active |-> TRUE, completed |-> FALSE, failed |-> FALSE, cancel |-> FALSE]
    /\ index' = index \cup {"crawl"}
    /\ UNCHANGED <<vars, builder, use_usn>>

UiStep == JoinBuilder \/ ClearIndex \/ StopMonitor \/ StartCrawl

-----------------------------------------------------------------------------
(* The builder's thread.                                                    *)

Poll ==
    /\ builder = "poll"
    /\ \/ build.cancel /\ builder' = "inactive"
       \/ ~build.cancel /\ ~populating /\ builder' = "check"
    /\ UNCHANGED <<vars, app, build, use_usn, index>>

Check ==
    /\ builder = "check"
    /\ \/ /\ failed /\ builder' = "stop_monitor"
          /\ build' = [build EXCEPT !.failed = TRUE, !.completed = FALSE]
       \/ /\ ~failed /\ builder' = "inactive"
          /\ build' = [build EXCEPT !.failed = FALSE, !.completed = TRUE]
    /\ UNCHANGED <<vars, app, use_usn, index>>

LeavesMonitor ==   \* mutant of BuilderStopsMonitor
    /\ builder = "stop_monitor" /\ builder' = "inactive"
    /\ UNCHANGED <<vars, app, build, use_usn, index>>

BuilderStopsMonitor ==
    /\ \/ builder = "stop_monitor" /\ builder' = "wait_stop" /\ Stop
       \/ builder = "wait_stop" /\ builder' = "inactive" /\ owner = "idle" /\ UNCHANGED vars
    /\ UNCHANGED <<app, build, use_usn, index>>

Finish ==
    /\ builder = "inactive" /\ builder' = "done"
    /\ build' = [build EXCEPT !.active = FALSE]
    /\ UNCHANGED <<vars, app, use_usn, index>>

BuilderStep == Poll \/ Check \/ BuilderStopsMonitor \/ Finish

-----------------------------------------------------------------------------
SessionNext ==
    \/ MonitorStep
    \/ StartMonitor \/ StartBuilder \/ StopIndexBuilding \/ StartIndexBuilding \/ UiStep
    \/ BuilderStep

(* The threads are scheduled and the MFT scan ends; the user does nothing   *)
(* by himself.                                                              *)
SessionSpec ==
    /\ SessionInit /\ [][SessionNext]_allvars
    /\ WF_allvars(OwnerStep /\ MonitorStep) /\ WF_allvars(ReaderStep /\ MonitorStep)
    /\ WF_allvars(ProcessorStep /\ MonitorStep)
    /\ WF_allvars(StartBuilder) /\ WF_allvars(UiStep) /\ WF_allvars(BuilderStep)

-----------------------------------------------------------------------------
(* Stop is not made for two callers at a time (the second would destroy the *)
(* queue under the first one's threads): the UI thread and the builder      *)
(* never call it together, since the UI thread joins the builder first.     *)
StopsSerialized ==
    app = "stop_monitor" \/ builder = "stop_monitor" =>
        owner = "idle" /\ ~(app \in {"stop_monitor", "wait_stop"} /\ builder # "done")

(* Once the crawl has begun the monitor writes to the index no more.        *)
MonitorQuietWhileCrawling == [][app = "crawling" => ~WritesIndex]_allvars

(* A population that failed does not leave its threads behind: the builder  *)
(* that reports the failure, or the user's next crawl, stops the monitor.   *)
FailedBuildStopsMonitor == build.failed /\ builder = "done" => reader = "none" /\ ~active

(* The builder's thread ends, so that the joins of the UI thread return.    *)
BuildEnds == builder = "poll" ~> builder = "done"

(* The UI thread is never stuck in a call.                                  *)
UiReturns == app \notin {"boot", "running", "crawling"} ~> app \in {"running", "crawling"}

(* The crawl replaces the index.                                            *)
CrawlReplacesIndex == app = "crawling" => index = {"crawl"}

(* A build that calls itself complete, in a session indexed from the        *)
(* journal, is complete.                                                    *)
CompletedMeansPopulated ==
    build.completed /\ use_usn =>
        reader \in {"loop", "reading", "push", "exit", "cleanup", "done", "none"}

(* A build that calls itself complete did not fail.                         *)
CompletedDidNotFail == build.completed /\ use_usn => ~failed /\ promise # "failed"
=============================================================================
