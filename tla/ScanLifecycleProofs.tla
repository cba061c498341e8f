-------------------------- MODULE ScanLifecycleProofs --------------------------
(* Proofs about ScanLifecycle, for any number of chains, slices, re-runs and    *)
(* kills.                                                                       *)
EXTENDS ScanLifecycle, TLAPS

\* The types in two halves: the truth values, and the rest.
FlagsOK ==
    /\ custom \in BOOLEAN /\ known \in BOOLEAN /\ linked \in BOOLEAN /\ more \in BOOLEAN
    /\ dispatching \in BOOLEAN

RowOK ==
    /\ status \in {"queued", "running", "done", "error", "deleted"}
    /\ slices \in Nat
    /\ beat \in {"none", "warm", "cold"}
    /\ job \in [Chains -> JobState]
    /\ visited \subseteq Chains
    /\ early \subseteq {"job", "api"}
    /\ overtakes \in 0..MaxOvertakes /\ runs \in 0..MaxRuns /\ kills \in 0..MaxKills

\* TypeOK is the two halves together.
LEMMA TypeHalves == TypeOK <=> FlagsOK /\ RowOK
  BY DEF TypeOK, FlagsOK, RowOK

\* Types hold in the first state.
LEMMA ScanInitType == Init => TypeOK
  <1>1. Init => FlagsOK
    BY DEF Init, FlagsOK
  <1>2. Init => RowOK
    BY ScanLifecycleAssumption DEF ScanLifecycleAssumption, Init, RowOK, JobState
  <1> QED
    BY <1>1, <1>2, TypeHalves

\* No step makes a truth value anything else.
LEMMA NextFlags == FlagsOK /\ [Next]_vars => FlagsOK'
  <1> SUFFICES ASSUME FlagsOK, [Next]_vars PROVE FlagsOK'
    OBVIOUS
  <1> USE DEF FlagsOK, rowVars, ownVars
  <1>1. CASE Reclaim \/ Claim \/ EnqueueJob
    BY <1>1, Zenon DEF Reclaim, Claim, EnqueueJob
  <1>2. CASE GoCold \/ RunAgain \/ Delete \/ KillPoller \/ Recompute
    BY <1>2, Zenon DEF GoCold, RunAgain, Delete, KillPoller, Recompute
  <1>3. CASE VisitElsewhere
    BY <1>3, Zenon DEF VisitElsewhere
  <1>4. ASSUME NEW c \in Chains, StartSlice(c) \/ StartOfDeleted(c) \/ NextJob(c) \/ Finalize(c)
        PROVE  FlagsOK'
    BY <1>4, Zenon DEF StartSlice, StartOfDeleted, NextJob, Finalize
  <1>5. ASSUME NEW c \in Chains, Publish(c) \/ Raise(c) \/ FailScan(c) \/ KillJob(c) \/ VisitOwnPage(c)
        PROVE  FlagsOK'
    BY <1>5, Zenon DEF Publish, Raise, FailScan, KillJob, VisitOwnPage
  <1>6. ASSUME NEW c \in Chains, EndSlice(c) PROVE FlagsOK'
    <2>1. known' \in BOOLEAN /\ custom' \in BOOLEAN /\ dispatching' \in BOOLEAN
      BY <1>6, Zenon DEF EndSlice
    <2>2. more' \in BOOLEAN /\ linked' \in BOOLEAN
      BY <1>6 DEF EndSlice
    <2> QED
      BY <2>1, <2>2
  <1>7. CASE UNCHANGED vars
    BY <1>7, Zenon DEF vars
  <1> QED
    BY <1>1, <1>2, <1>3, <1>4, <1>5, <1>6, <1>7 DEF Next, Poll, Job

\* Whoever curates, the history names him at most.
LEMMA CurateNames ==
    ASSUME NEW who, NEW fan, Curate(who, fan)
    PROVE  early' \subseteq early \cup {who}
  BY DEF Curate

\* Every step keeps the row, the jobs and the counts what they are.
LEMMA NextRow == RowOK /\ [Next]_vars => RowOK'
  <1> SUFFICES ASSUME RowOK, [Next]_vars PROVE RowOK'
    OBVIOUS
  <1> USE ScanLifecycleAssumption DEF ScanLifecycleAssumption, RowOK, rowVars, ownVars, envVars
  <1>1. CASE Reclaim
    BY <1>1 DEF Reclaim
  <1>2. CASE Claim \/ EnqueueJob
    BY <1>2 DEF Claim, EnqueueJob, JobState
  <1>3. CASE GoCold
    BY <1>3 DEF GoCold
  <1>4. CASE RunAgain
    BY <1>4 DEF RunAgain
  <1>5. CASE Delete
    BY <1>5 DEF Delete
  <1>6. CASE VisitElsewhere
    BY <1>6 DEF VisitElsewhere
  <1>7. CASE KillPoller
    BY <1>7 DEF KillPoller
  <1>8. CASE Recompute
    BY <1>8, CurateNames DEF Recompute
  <1>9. ASSUME NEW c \in Chains, Job(c) PROVE RowOK'
    <2>1. CASE StartSlice(c)
      <3>1. status' = "running" /\ slices' \in Nat /\ beat' = "warm"
        BY <2>1 DEF StartSlice, Counted, Beat
      <3>2. \E x \in {"failing", "crawling"} : job' = [job EXCEPT ![c] = x]
        BY <2>1 DEF StartSlice
      <3>3. job' \in [Chains -> JobState]
        BY <3>2 DEF JobState, Active
      <3> QED
        BY <2>1, <3>1, <3>3 DEF StartSlice
    <2>2. CASE StartOfDeleted(c)
      BY <2>2 DEF StartOfDeleted, JobState
    <2>3. CASE VisitOwnPage(c)
      BY <2>3 DEF VisitOwnPage
    <2>4. CASE EndSlice(c)
      <3>1. early' \subseteq {"job", "api"}
        BY <2>4, CurateNames DEF EndSlice
      <3> QED
        BY <2>4, <3>1 DEF EndSlice, JobState, Active
    <2>5. CASE NextJob(c) \/ Finalize(c) \/ Raise(c)
      BY <2>5 DEF NextJob, Finalize, Raise, JobState, Active
    <2>6. CASE Publish(c)
      <3>1. early' \subseteq {"job", "api"}
        BY <2>6, CurateNames DEF Publish
      <3> QED
        BY <2>6, <3>1 DEF Publish, JobState
    <2>7. CASE FailScan(c)
      BY <2>7 DEF FailScan, Failed, JobState
    <2> QED
      BY <1>9, <2>1, <2>3, <2>4, <2>5, <2>6, <2>7, <2>2 DEF Job
  <1>10. ASSUME NEW c \in Chains, KillJob(c) PROVE RowOK'
    BY <1>10 DEF KillJob, JobState
  <1>11. CASE UNCHANGED vars
    BY <1>11 DEF vars
  <1> QED
    BY <1>1, <1>2, <1>3, <1>7, <1>8, <1>9, <1>10, <1>11, <1>6, <1>4, <1>5 DEF Next, Poll

\* Every step of the poller, a job, the user or time keeps the types.
LEMMA ScanNextType == TypeOK /\ [Next]_vars => TypeOK'
  <1>1. TypeOK' <=> FlagsOK' /\ RowOK'
    BY DEF TypeOK, FlagsOK, RowOK
  <1> QED
    BY <1>1, TypeHalves, NextFlags, NextRow

\* In every behaviour every variable of a scan has its type.
THEOREM ScanTypeCorrect == Spec => []TypeOK
  BY ScanInitType, ScanNextType, PTL DEF Spec

-----------------------------------------------------------------------------
(* One chain at a time, until the poller overtakes a job.  Alone it is not      *)
(* inductive: that the poller may start a chain only if there is none must      *)
(* follow from what the poller can read, the status and the heartbeat.          *)

SoleChain ==
    /\ \A c, d \in Live : c = d
    /\ dispatching => Live = {}

\* Whatever is alive shows in the status, and whatever is at work in the heartbeat.
ShowsInRow ==
    /\ Live # {} \/ dispatching => status \in {"running", "deleted"}
    /\ Running # {} => beat = "warm"

Alone == SoleChain /\ ShowsInRow

ChainInv == overtakes = 0 => Alone

\* A chain that is at work is alive.
LEMMA RunningIsLive == Running \subseteq Live
  BY DEF Running, Live, Active

\* A chain that changes the state of its job without ending it stays the only one.
LEMMA JobGoesOn ==
    ASSUME TypeOK, SoleChain, NEW c \in Chains, job[c] # "none",
           NEW s \in JobState \ {"none"},
           job' = [job EXCEPT ![c] = s], dispatching' = dispatching
    PROVE  SoleChain' /\ Live' = Live /\ (Running' # {} => s \in Active) /\ Live = {c}
  <1>1. Live = {c} /\ Live' = Live
    BY DEF SoleChain, Live, TypeOK
  <1>2. Running' # {} => s \in Active
    <2> SUFFICES ASSUME NEW d \in Running' PROVE s \in Active
      OBVIOUS
    <2>1. d \in Live'
      BY DEF Running, Live, Active
    <2>2. d = c
      BY <1>1, <2>1
    <2> QED
      BY <2>2 DEF Running, TypeOK
  <1> QED
    BY <1>1, <1>2 DEF SoleChain

\* When the job of the only chain ends, nothing is left.
LEMMA JobEnds ==
    ASSUME TypeOK, SoleChain, NEW c \in Chains, job[c] # "none",
           job' = [job EXCEPT ![c] = "none"], dispatching' = dispatching
    PROVE  SoleChain' /\ Live' = {} /\ Running' = {} /\ ~dispatching
  BY DEF SoleChain, Live, Running, Active, TypeOK

\* A step of the poller that overtakes nobody keeps the chain single.
LEMMA PollKeepsOneChain ==
    ASSUME TypeOK, Alone, Poll, overtakes = 0, overtakes' = 0
    PROVE  Alone'
  <1>1. CASE Reclaim
    <2>1. Live = {}
      BY <1>1 DEF Reclaim
    <2> QED
      BY <1>1, <2>1, RunningIsLive DEF Reclaim, Alone, ShowsInRow, SoleChain, Live, Running
  <1>2. CASE Claim
    BY <1>2 DEF Claim, Alone, ShowsInRow, SoleChain, Live, Running
  <1>3. CASE EnqueueJob
    <2>1. Live = {} /\ status \in {"running", "deleted"}
      BY <1>3 DEF EnqueueJob, Alone, ShowsInRow, SoleChain
    <2>2. PICK c \in Chains : job[c] = "none" /\ job' = [job EXCEPT ![c] = "waiting"]
      BY <1>3 DEF EnqueueJob
    <2>3. Live' = {c} /\ Running' = {}
      BY <2>1, <2>2 DEF Live, Running, Active, TypeOK
    <2> QED
      BY <1>3, <2>1, <2>3 DEF EnqueueJob, rowVars, Alone, ShowsInRow, SoleChain
  <1> QED
    BY <1>1, <1>2, <1>3 DEF Poll

\* So does every step of a job.
LEMMA JobKeepsOneChain ==
    ASSUME TypeOK, Alone, NEW c \in Chains, Job(c)
    PROVE  Alone'
  <1>1. SoleChain
    BY DEF Alone
  <1>2. CASE StartSlice(c)
    <2>1. PICK s \in {"failing", "crawling"} : job' = [job EXCEPT ![c] = s]
      BY <1>2 DEF StartSlice
    <2>2. SoleChain' /\ Live' = Live /\ Live = {c}
      BY <1>1, <1>2, <2>1, JobGoesOn DEF StartSlice, JobState, Active
    <2> QED
      BY <1>2, <2>2 DEF StartSlice, Beat, Alone, ShowsInRow
  <1>3. CASE StartOfDeleted(c)
    BY <1>1, <1>3, JobEnds DEF StartOfDeleted, Alone, ShowsInRow
  <1>4. CASE VisitOwnPage(c)
    BY <1>4 DEF VisitOwnPage, rowVars, Alone, SoleChain, ShowsInRow, Live, Running
  <1>5. CASE EndSlice(c) \/ Finalize(c) \/ Raise(c)
    <2>1. PICK s \in Active : job' = [job EXCEPT ![c] = s]
      BY <1>5 DEF EndSlice, Finalize, Raise, Active
    <2>2. /\ job[c] \in Active /\ status' = status /\ beat' = beat
          /\ dispatching' = dispatching
      BY <1>5 DEF EndSlice, Finalize, Raise, Active, rowVars
    <2>3. SoleChain' /\ Live' = Live /\ Live = {c}
      BY <1>1, <2>1, <2>2, JobGoesOn DEF JobState, Active
    <2>4. c \in Running
      BY <2>2 DEF Running
    <2> QED
      BY <2>2, <2>3, <2>4 DEF Alone, ShowsInRow
  <1>6. CASE NextJob(c)
    <2>1. job[c] # "none" /\ "waiting" \in JobState \ {"none"} /\ "waiting" \notin Active
      BY <1>6 DEF NextJob, JobState, Active
    <2>2. SoleChain' /\ Live' = Live /\ Running' = {}
      BY <1>1, <1>6, <2>1, JobGoesOn DEF NextJob
    <2> QED
      BY <1>6, <2>2 DEF NextJob, rowVars, Alone, ShowsInRow
  <1>7. CASE Publish(c) \/ FailScan(c)
    BY <1>1, <1>7, JobEnds DEF Publish, FailScan, Alone, ShowsInRow
  <1> QED
    BY <1>2, <1>3, <1>4, <1>5, <1>6, <1>7 DEF Job

\* What was overtaken once stays so.
LEMMA OvertakesStay == TypeOK /\ [Next]_vars /\ overtakes' = 0 => overtakes = 0
  <1> SUFFICES ASSUME TypeOK, [Next]_vars PROVE overtakes' = overtakes \/ overtakes' = overtakes + 1
    BY DEF TypeOK
  <1> USE DEF envVars
  <1>1. CASE Poll
    BY <1>1 DEF Poll, Reclaim, Claim, EnqueueJob
  <1>2. CASE GoCold \/ RunAgain \/ Delete \/ KillPoller \/ Recompute \/ VisitElsewhere
    BY <1>2 DEF GoCold, RunAgain, Delete, KillPoller, Recompute, VisitElsewhere
  <1>3. ASSUME NEW c \in Chains, Job(c) \/ KillJob(c) PROVE overtakes' = overtakes
    BY <1>3 DEF Job, StartSlice, StartOfDeleted, VisitOwnPage, EndSlice, NextJob, Finalize, Publish,
                Raise, FailScan, KillJob
  <1>4. CASE UNCHANGED vars
    BY <1>4 DEF vars
  <1> QED
    BY <1>1, <1>2, <1>3, <1>4 DEF Next

\* Every step keeps the chain single until the poller overtakes a job.
LEMMA NextOneChain == TypeOK /\ ChainInv /\ [Next]_vars => ChainInv'
  <1> SUFFICES ASSUME TypeOK, ChainInv, [Next]_vars, overtakes' = 0 PROVE Alone'
    BY DEF ChainInv
  <1>1. overtakes = 0 /\ Alone
    BY OvertakesStay DEF ChainInv
  <1>2. CASE Poll
    BY <1>1, <1>2, PollKeepsOneChain
  <1>3. CASE GoCold
    BY <1>1, <1>3 DEF GoCold, Alone, ShowsInRow, SoleChain, Live, Running
  <1>4. CASE KillPoller
    BY <1>1, <1>4 DEF KillPoller, rowVars, Alone, ShowsInRow, SoleChain, Live, Running
  <1>5. CASE RunAgain
    BY <1>1, <1>5, RunningIsLive DEF RunAgain, NotRunning, Alone, ShowsInRow, SoleChain, Live, Running
  <1>6. CASE Delete
    BY <1>1, <1>6 DEF Delete, Alone, ShowsInRow, SoleChain, Live, Running
  <1>7. CASE Recompute \/ VisitElsewhere
    BY <1>1, <1>7 DEF Recompute, VisitElsewhere, rowVars, Alone, ShowsInRow, SoleChain, Live, Running
  <1>8. ASSUME NEW c \in Chains, Job(c) PROVE Alone'
    BY <1>1, <1>8, JobKeepsOneChain
  <1>9. ASSUME NEW c \in Chains, KillJob(c) PROVE Alone'
    <2>1. job[c] # "none"
      BY <1>9 DEF KillJob, Active
    <2>2. SoleChain' /\ Live' = {} /\ Running' = {} /\ ~dispatching
      BY <1>1, <1>9, <2>1, JobEnds DEF KillJob, Alone
    <2> QED
      BY <1>9, <2>2 DEF KillJob, Alone, ShowsInRow
  <1>10. CASE UNCHANGED vars
    BY <1>1, <1>10 DEF vars, rowVars, Alone, ShowsInRow, SoleChain, Live, Running
  <1> QED
    BY <1>2, <1>3, <1>4, <1>5, <1>6, <1>7, <1>8, <1>9, <1>10 DEF Next

\* A new scan has no chain.
LEMMA InitOneChain == Init => ChainInv
  BY DEF Init, ChainInv, Alone, ShowsInRow, SoleChain, Live, Running, Active

\* A scan has one chain of jobs at a time, through deaths of jobs and of the poller, re-runs,
\* deletions and failures, until the poller reclaims it from a chain whose job waits in the queue.
THEOREM ChainIsSingle == Spec => []OneChain
  <1>1. ChainInv => OneChain
    BY DEF ChainInv, Alone, SoleChain, OneChain
  <1> QED
    BY <1>1, InitOneChain, ScanInitType, ScanNextType, NextOneChain, PTL DEF Spec

\* Until then the poller takes the scan away from no job that is at work on it: the first chain it
\* overtakes is one whose job waits.
THEOREM PollerSparesTheLiving == Spec => ReclaimsOnlyTheDead
  <1>1. ASSUME TypeOK, ChainInv, Next, overtakes = 0, status = "running", status' = "queued"
        PROVE  Running = {}
    <2>1. Reclaim \/ RunAgain
      BY <1>1 DEF Next, Poll, Claim, EnqueueJob, GoCold, KillPoller, Delete, Recompute, VisitElsewhere,
                  KillJob, Job, rowVars, StartSlice, StartOfDeleted, VisitOwnPage, EndSlice, NextJob,
                  Finalize, Publish, Raise, FailScan, Failed
    <2> QED
      BY <1>1, <2>1 DEF Reclaim, NotWarm, RunAgain, NotRunning, ChainInv, Alone, ShowsInRow
  <1>2. TypeOK /\ ChainInv /\ [Next]_vars
          => [overtakes = 0 /\ status = "running" /\ status' = "queued" => Running = {}]_vars
    BY <1>1
  <1> QED
    BY <1>2, InitOneChain, ScanInitType, ScanNextType, NextOneChain, PTL DEF Spec, ReclaimsOnlyTheDead

-----------------------------------------------------------------------------
(* Exclusions before recommendations.  The check and the curate are two steps,  *)
(* so a curate under way must remember that the check succeeded.                *)

CurateInv ==
    /\ "job" \in early => custom
    /\ \A c \in Chains : job[c] = "curating" => custom \/ known

\* No job of a collection scan stores recommendations before all exclusions are known, however
\* many chains carry the scan; whatever else stores them is a recompute, or a custom scan.
THEOREM JobsKnowExclusions == Spec => []JobsWaitForExclusions
  <1>1. Init => CurateInv
    BY DEF Init, CurateInv
  <1>2. TypeOK /\ CurateInv /\ [Next]_vars => CurateInv'
    <2> SUFFICES ASSUME TypeOK, CurateInv, [Next]_vars PROVE CurateInv'
      OBVIOUS
    <2> USE DEF rowVars, ownVars
    <2>1. CASE Poll
      BY <2>1 DEF Poll, Reclaim, Claim, EnqueueJob, CurateInv, TypeOK
    <2>2. CASE GoCold \/ RunAgain \/ Delete \/ KillPoller
      BY <2>2 DEF GoCold, RunAgain, Delete, KillPoller, CurateInv
    <2>3. CASE Recompute
      BY <2>3 DEF Recompute, Curate, CurateInv
    <2>4. CASE VisitElsewhere
      BY <2>4 DEF VisitElsewhere, CurateInv
    <2>5. ASSUME NEW c \in Chains, Job(c) PROVE CurateInv'
      <3>1. CASE StartSlice(c) \/ StartOfDeleted(c) \/ NextJob(c) \/ Raise(c) \/ FailScan(c)
        BY <3>1 DEF StartSlice, StartOfDeleted, NextJob, Raise, FailScan, CurateInv, TypeOK
      <3>2. CASE VisitOwnPage(c)
        BY <3>2 DEF VisitOwnPage, CurateInv
      <3>3. CASE EndSlice(c)
        <4>1. custom' = custom /\ known' = known
          BY <3>3 DEF EndSlice
        <4>2. "job" \in early' => custom
          BY <3>3 DEF EndSlice, Curate, ExclusionsKnown, SelfCrawlComplete, CurateInv
        <4>3. \A d \in Chains : job'[d] = "curating" => job[d] = "curating"
          BY <3>3 DEF EndSlice, TypeOK
        <4> QED
          BY <4>1, <4>2, <4>3 DEF CurateInv
      <3>4. CASE Finalize(c)
        BY <3>4 DEF Finalize, ExclusionsKnown, SelfCrawlComplete, CurateInv, TypeOK
      <3>5. CASE Publish(c)
        BY <3>5 DEF Publish, Curate, CurateInv, TypeOK
      <3> QED
        BY <2>5, <3>1, <3>2, <3>3, <3>4, <3>5 DEF Job
    <2>6. ASSUME NEW c \in Chains, KillJob(c) PROVE CurateInv'
      BY <2>6 DEF KillJob, CurateInv, TypeOK
    <2>7. CASE UNCHANGED vars
      BY <2>7 DEF vars, CurateInv
    <2> QED
      BY <2>1, <2>2, <2>3, <2>4, <2>5, <2>6, <2>7 DEF Next
  <1>3. CurateInv => JobsWaitForExclusions
    BY DEF CurateInv, JobsWaitForExclusions
  <1> QED
    BY <1>1, <1>2, <1>3, ScanInitType, ScanNextType, PTL DEF Spec

=============================================================================
