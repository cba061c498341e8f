---------------------------- MODULE ScanLifecycle ----------------------------
(* One scan from its creation to its end (backend/app/crawl/scan_service.py,    *)
(* the run_scan and poll_scans jobs of worker.py, and the endpoints of          *)
(* api/scans.py that a user steers it with).  A scan is carried by a chain of   *)
(* jobs, each crawling one slice and enqueueing its successor; the poller       *)
(* starts a chain for a queued scan and starts another for a running one whose  *)
(* heartbeat has gone cold, although its job may just be waiting in the queue.  *)
(* What a slice does to the frontier is CrawlFrontier and appears here only as  *)
(* its answer, whether there is more to crawl, and as the reading of the        *)
(* owner's own page, from which all exclusions of a recommendation come.        *)
EXTENDS Naturals, FiniteSets

CONSTANTS
    Chains,         \* job chains that can exist for the scan at one time
    MaxSlices,      \* scan_service.MAX_SCAN_SLICES
    MaxOvertakes,   \* bound: how often the poller overtakes a job that waits
    MaxRuns,        \* bound: how often the user runs the scan again
    MaxKills        \* bound: how often a job, or the poller, is killed

ASSUME ScanLifecycleAssumption ==
    /\ Chains # {}
    /\ MaxSlices \in Nat \ {0}
    /\ MaxOvertakes \in Nat
    /\ MaxRuns \in Nat /\ MaxKills \in Nat

(* A chain's job.  "waiting": in the job queue; "crawling": past start_scan;     *)
(* "crawled": past the slice; "curating": past finalize_scan's check;            *)
(* "failing": an exception is on its way to fail_scan.                           *)
Active   == {"crawling", "crawled", "curating", "failing"}
JobState == {"none", "waiting"} \cup Active

VARIABLES
    custom,         \* the scan's kind: seeds of its own, or the owner's collection
    status,         \* the scan row: ScanStatus, or "deleted"
    slices,         \* stats.slices_run
    beat,           \* stats.last_slice_at: "none", "warm" or "cold"
    known,          \* the owner's own page is read out, and every exclusion known
    linked,         \* users.fan_id is set: the curate finds whose exclusions to read
    more,           \* PENDING rows are left, and budget for them
    job,            \* the state of each chain's job
    visited,        \* chains whose slice has visited the own page
    dispatching,    \* the poller has claimed the scan and not enqueued its job yet
    early,          \* history: who stored recommendations before all was known
    overtakes,      \* history: how often the poller reclaimed a scan with a live chain
    runs, kills

rowVars  == <<custom, status, slices, beat>>
ownVars  == <<known, linked>>
envVars  == <<overtakes, runs, kills>>
vars     == <<rowVars, ownVars, more, job, visited, dispatching, early, envVars>>

Live    == {c \in Chains : job[c] # "none"}
Running == {c \in Chains : job[c] \in Active}

\* A custom scan may come before the owner's collection is read, or after it.
Init ==
    /\ custom \in BOOLEAN
    /\ status = "queued"
    /\ slices = 0
    /\ beat = "none"
    /\ known \in {FALSE, custom}
    /\ linked \in {known, custom}
    /\ more = TRUE
    /\ job = [c \in Chains |-> "none"]
    /\ visited = {}
    /\ dispatching = FALSE
    /\ early = {}
    /\ overtakes = 0
    /\ runs = 0
    /\ kills = 0

-----------------------------------------------------------------------------
(* poll_scans.                                                                 *)

\* Mutant: a scan that never wrote a heartbeat is left alone.
OnlyCold == beat = "cold"

\* No heartbeat counts as a cold one.
NotWarm == beat # "warm"

\* reclaim_stalled_scans: queue a running scan without a warm heartbeat again.  It
\* looks at nothing else, so it may overtake a job that waits in the queue.
Reclaim ==
    /\ ~dispatching
    /\ status = "running"
    /\ NotWarm
    /\ Live # {} => overtakes < MaxOvertakes
    /\ overtakes' = IF Live = {} THEN overtakes ELSE overtakes + 1
    /\ status' = "queued"
    /\ UNCHANGED <<custom, slices, beat, ownVars, more, job, visited, dispatching, early, runs, kills>>

\* claim_queued_scans: flip it to running and commit ...
Claim ==
    /\ ~dispatching
    /\ status = "queued"
    /\ status' = "running"
    /\ dispatching' = TRUE
    /\ UNCHANGED <<custom, slices, beat, ownVars, more, job, visited, early, envVars>>

\* ... and only then enqueue its job.
EnqueueJob ==
    /\ dispatching
    /\ dispatching' = FALSE
    /\ \E c \in Chains : job[c] = "none" /\ job' = [job EXCEPT ![c] = "waiting"]
    /\ UNCHANGED <<rowVars, ownVars, more, visited, early, envVars>>

-----------------------------------------------------------------------------
(* run_scan, the job.                                                          *)

\* Mutant: a slice leaves no heartbeat.
NoBeat == beat

\* The heartbeat a slice leaves as it starts.
Beat == "warm"

\* The count start_scan arrives at: it starts over unless the scan is running.
Counted == IF status = "running" THEN slices + 1 ELSE 1

OneTooMany(n) == n > MaxSlices

\* start_scan.  One slice too many raises, with the count committed.
StartSlice(c) ==
    /\ job[c] = "waiting"
    /\ status # "deleted"
    /\ status'  = "running"
    /\ slices'  = Counted
    /\ beat'    = Beat
    /\ job'     = [job EXCEPT ![c] = IF OneTooMany(Counted) THEN "failing" ELSE "crawling"]
    /\ UNCHANGED <<custom, ownVars, more, visited, dispatching, early, envVars>>

\* start_scan does not find the scan: the job raises, and fail_scan has no row.
StartOfDeleted(c) ==
    /\ job[c] = "waiting"
    /\ status = "deleted"
    /\ job' = [job EXCEPT ![c] = "none"]
    /\ UNCHANGED <<rowVars, ownVars, more, visited, dispatching, early, envVars>>

\* A collection scan's slice visits the owner's own page, to its end or not.
VisitOwnPage(c) ==
    /\ job[c] = "crawling"
    /\ ~custom /\ ~known
    /\ visited' = visited \cup {c}
    /\ known' \in BOOLEAN
    /\ UNCHANGED <<rowVars, linked, more, job, dispatching, early, envVars>>

\* Mutant: nobody asks whether the own page is read out.
NeverMind(own) == TRUE

\* The guard of a job's curate, once _self_crawl_complete has answered ...
ExclusionsKnown(own) == own

\* ... which it does for a custom scan without looking.
SelfCrawlComplete == custom \/ known

\* curate, by a job or by the API: it needs the owner's fan, and the scan.
Curate(who, fan) ==
    /\ status # "deleted"
    /\ fan
    /\ early' = IF known THEN early ELSE early \cup {who}

\* The slice is over: the own page's fan is linked if this slice has visited it, and
\* an interim curate follows if the exclusions are known by now.
EndSlice(c) ==
    /\ job[c] = "crawling"
    /\ linked'  = (linked \/ c \in visited)
    /\ visited' = visited \ {c}
    /\ more' \in {FALSE, status # "deleted"}
    /\ \/ early' = early
       \/ ExclusionsKnown(SelfCrawlComplete) /\ Curate("job", linked')
    /\ job' = [job EXCEPT ![c] = "crawled"]
    /\ UNCHANGED <<rowVars, known, dispatching, envVars>>

\* There is more to crawl: the job enqueues its successor.
NextJob(c) ==
    /\ job[c] = "crawled"
    /\ more
    /\ job' = [job EXCEPT ![c] = "waiting"]
    /\ UNCHANGED <<rowVars, ownVars, more, visited, dispatching, early, envVars>>

\* finalize_scan refuses a missing scan and one whose own page is not read out.
Finalize(c) ==
    /\ job[c] = "crawled"
    /\ ~more
    /\ job' = [job EXCEPT ![c] =
                  IF status # "deleted" /\ ExclusionsKnown(SelfCrawlComplete)
                  THEN "curating" ELSE "failing"]
    /\ UNCHANGED <<rowVars, ownVars, more, visited, dispatching, early, envVars>>

\* It curates, marks the scan done and replaces its stats, heartbeat and all.
Publish(c) ==
    /\ job[c] = "curating"
    /\ Curate("job", linked)
    /\ status'    = "done"
    /\ slices'    = 0
    /\ beat'      = "none"
    /\ job'       = [job EXCEPT ![c] = "none"]
    /\ UNCHANGED <<custom, ownVars, more, visited, dispatching, envVars>>

\* An exception in the slice or in the curate: the row is gone, or the fan not linked.
\* What the slice has visited is forgotten.
Raise(c) ==
    /\ job[c] \in {"crawling", "curating"}
    /\ job' = [job EXCEPT ![c] = "failing"]
    /\ visited' = visited \ {c}
    /\ UNCHANGED <<rowVars, ownVars, more, dispatching, early, envVars>>

Failed == "error"

\* fail_scan, if there is still a scan.  The stats are kept.
FailScan(c) ==
    /\ job[c] = "failing"
    /\ status' = IF status = "deleted" THEN status ELSE Failed
    /\ job'    = [job EXCEPT ![c] = "none"]
    /\ UNCHANGED <<custom, slices, beat, ownVars, more, visited, dispatching, early, envVars>>

-----------------------------------------------------------------------------
(* Deaths, time and the user.                                                  *)

\* A job is cancelled at job_timeout or dies with its process: nothing records it.
KillJob(c) ==
    /\ job[c] \in Active
    /\ kills < MaxKills
    /\ kills'   = kills + 1
    /\ job'     = [job EXCEPT ![c] = "none"]
    /\ visited' = visited \ {c}
    /\ UNCHANGED <<rowVars, ownVars, more, dispatching, early, overtakes, runs>>

\* The poller dies with the scan claimed and its job not enqueued.
KillPoller ==
    /\ dispatching
    /\ kills < MaxKills
    /\ kills' = kills + 1
    /\ dispatching' = FALSE
    /\ UNCHANGED <<rowVars, ownVars, more, job, visited, early, overtakes, runs>>

\* scan_stalled_after_seconds pass.  It is longer than job_timeout, so a job that
\* has started is over by then; one that waits may wait on.
GoCold ==
    /\ beat = "warm"
    /\ Running = {}
    /\ beat' = "cold"
    /\ UNCHANGED <<custom, status, slices, ownVars, more, job, visited, dispatching, early, envVars>>

\* Mutant: a running scan may be run again.
Anytime == TRUE

NotRunning == status # "running"

\* POST /scans/{id}/run, refused with 409 while the scan is running.
RunAgain ==
    /\ status # "deleted"
    /\ NotRunning
    /\ runs < MaxRuns
    /\ runs'    = runs + 1
    /\ status'  = "queued"
    /\ UNCHANGED <<custom, slices, beat, ownVars, more, job, visited, dispatching, early, overtakes, kills>>

\* DELETE /scans/{id}: any time, but never the collection scan.
Delete ==
    /\ custom
    /\ status # "deleted"
    /\ status' = "deleted"
    /\ UNCHANGED <<custom, slices, beat, ownVars, more, job, visited, dispatching, early, envVars>>

\* POST /recommendations/recompute curates any scan of the user's, at any time, and asks for no
\* more than the fan that curate itself needs.
Recompute ==
    /\ Curate("api", linked)
    /\ UNCHANGED <<rowVars, ownVars, more, job, visited, dispatching, envVars>>

\* Next to a custom scan the owner's collection scan visits the own page.
VisitElsewhere ==
    /\ custom /\ ~known
    /\ linked' = TRUE
    /\ known' \in BOOLEAN
    /\ UNCHANGED <<rowVars, more, job, visited, dispatching, early, envVars>>

-----------------------------------------------------------------------------
Poll == Reclaim \/ Claim \/ EnqueueJob

Job(c) ==
    \/ StartSlice(c) \/ StartOfDeleted(c) \/ VisitOwnPage(c) \/ EndSlice(c) \/ NextJob(c)
    \/ Finalize(c) \/ Publish(c) \/ Raise(c) \/ FailScan(c)

Next ==
    \/ Poll \/ GoCold \/ KillPoller \/ RunAgain \/ Delete \/ Recompute \/ VisitElsewhere
    \/ \E c \in Chains : Job(c) \/ KillJob(c)

Spec == Init /\ [][Next]_vars

\* The cron keeps polling, the queue runs its jobs, and time passes.
FairSpec == Spec /\ WF_vars(Poll) /\ WF_vars(GoCold) /\ \A c \in Chains : WF_vars(Job(c))

-----------------------------------------------------------------------------
(* Properties.                                                                 *)

\* Every variable has its type.
TypeOK ==
    /\ custom \in BOOLEAN /\ known \in BOOLEAN /\ linked \in BOOLEAN /\ more \in BOOLEAN
    /\ dispatching \in BOOLEAN
    /\ status \in {"queued", "running", "done", "error", "deleted"}
    /\ slices \in Nat
    /\ beat \in {"none", "warm", "cold"}
    /\ job \in [Chains -> JobState]
    /\ visited \subseteq Chains
    /\ early \subseteq {"job", "api"}
    /\ overtakes \in 0..MaxOvertakes /\ runs \in 0..MaxRuns /\ kills \in 0..MaxKills

\* No two chains of jobs, counting the one about to be enqueued, carry one scan
\* (api.scans.run_scan refuses what "would let the poller start a second chain
\* against the same scan_id, racing the first"), unless the poller has overtaken a
\* job that waited: deaths, re-runs, deletions and failures never make two.
OneChain ==
    overtakes = 0 =>
        /\ \A c, d \in Live : c = d
        /\ dispatching => Live = {}

\* No job of a collection scan ever stores a recommendation before every exclusion is
\* known: "an early feed must not be a wrong one", not even when the scan is killed,
\* run again or carried by two chains.
JobsWaitForExclusions == "job" \in early => custom

\* The poller takes a scan away from no job that is at work on it; as long as it has
\* overtaken none, the most it overtakes is one that waits.
ReclaimsOnlyTheDead ==
    [][overtakes = 0 /\ status = "running" /\ status' = "queued" => Running = {}]_vars

\* A scan that is queued or running ends, done or failed or deleted, however often
\* its jobs and the poller die and the poller overtakes it, and even if there always
\* is more to crawl.
EveryRunEnds ==
    status \in {"queued", "running"} ~> status \in {"done", "error", "deleted"}

\* What the code says and does not do.

\* reclaim_stalled_scans: "a `running` scan whose heartbeat has gone cold has no chain
\* behind it".
ColdIsDead == [][status = "running" /\ status' = "queued" => Live = {}]_vars

\* _curate_progress: "Skipped while the owner's own collection is still being read [...]
\* an early feed must not be a wrong one".
NoWrongFeed == ~custom => early = {}

\* _self_crawl_complete: "exclusions come from an earlier collection scan".
EarlierCollectionScan == custom => "job" \notin early

\* reclaim_stalled_scans: "the frontier is resumable, so the new chain picks up exactly
\* where the dead one stopped".  Once the own page is read out its fan is linked in the
\* end; but only the slice that visited the page knows the fan.
LinkedInTheEnd == ~custom /\ known ~> linked

=============================================================================
