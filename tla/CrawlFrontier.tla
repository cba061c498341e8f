---------------------------- MODULE CrawlFrontier ----------------------------
(* The crawl frontier of one scan (backend/app/crawl/frontier.py) with the     *)
(* workers of a slice draining it (crawl/runner.py) and the chain of slices    *)
(* that keeps them running (crawl/scan_service.py advance_scan, worker.py).    *)
(*                                                                             *)
(* A page stands for one (url, kind) pair, so the table's unique constraint is *)
(* the fact that every row variable is a function of the page.  A page that is *)
(* not in the table has id 0.  What a fetch returns is fixed by Links: the     *)
(* pages revealed by the n-th unit of work a visit commits.  Only fan pages    *)
(* have more than one such unit; what an album or a track reveals is committed *)
(* in one, at the end of its visit.  The lists embedded in the owner's page    *)
(* count as one unit here; FanPaging takes them apart.  A scan has one chain   *)
(* here; when the poller starts a second one is ScanLifecycle's question.      *)
EXTENDS Naturals, Sequences, FiniteSets, SequencesExt

CONSTANTS
    Pages,          \* (url, kind) pairs the crawl can meet
    Workers,        \* concurrent workers of one slice (crawl_concurrency)
    Seeds,          \* the sequence of pages start_scan enqueues, at depth 0
    Self,           \* the scan owner's own fan page
    Links,          \* Links[u][n]: pages revealed by the n-th unit of page u
    Stored,         \* Stored[u]: pages a replay of u finds in the rows other scans stored
    Shared,         \* pages that another scan may complete meanwhile
    MaxDepth,       \* Settings.crawl_max_depth
    PagesPerVisit,  \* service.PAGES_PER_VISIT
    ClaimAttempts,  \* frontier._CLAIM_ATTEMPTS
    DbRetries,      \* runner._DB_RETRIES
    MaxTimeouts,    \* runner.MAX_ENTRY_TIMEOUTS
    Budgeted,       \* the scan has a request budget (crawl_max_requests_per_scan)
    SkipLocked,     \* TRUE on Postgres: the claim's SELECT is FOR UPDATE SKIP LOCKED
    NoPage,         \* not a page: what a worker holds between two entries
    MaxKills,       \* bound: how often the process running the slice dies
    MaxDbFaults     \* bound: how often the commit that closes a visit fails

ASSUME FrontierAssumption ==
    /\ IsFiniteSet(Pages) /\ Self \in Pages /\ NoPage \notin Pages
    /\ Seeds \in Seq(Pages) /\ Seeds # <<>>
    /\ IsInjective(Seeds)
    /\ DOMAIN Links = Pages
    /\ \A u \in Pages : Links[u] \in Seq(Seq(Pages)) /\ Len(Links[u]) > 0
    /\ \A u \in Pages : \A n \in DOMAIN Links[u] : IsInjective(Links[u][n])
    /\ Stored \in [Pages -> SUBSET Pages]
    /\ Shared \subseteq Pages
    /\ MaxDepth \in Nat /\ MaxKills \in Nat /\ MaxDbFaults \in Nat
    /\ PagesPerVisit \in Nat \ {0} /\ ClaimAttempts \in Nat \ {0}
    /\ DbRetries \in Nat \ {0} /\ MaxTimeouts \in Nat \ {0}
    /\ Budgeted \in BOOLEAN /\ SkipLocked \in BOOLEAN

Status == {"absent", "pending", "in_progress", "done", "error"}

(* Worker program counters.  "ready": at the head of its loop, yet to claim in *)
(* this slice; "again": back there after an entry, when the deadline may have  *)
(* passed; "claiming": the budget was not spent when it looked; "selected":    *)
(* between the claim's SELECT and its UPDATE; "claimed": about to run          *)
(* process_entry; "visiting": inside the crawl operation; "off": returned.     *)
Control == {"off", "ready", "again", "claiming", "selected", "claimed", "visiting"}

VARIABLES
    \* the crawl_frontier rows of this scan
    serial,     \* the last id given out
    id, status, attempts, depth, timeouts, cursor,
    stale,      \* updated_at is older than STALE_CLAIM_AFTER
    ingested,   \* history: the units of each page committed to the graph
    elsewhere,  \* pages some other scan's frontier has as DONE
    \* the workers
    pc, cur, seen, tries, attempt, pos, left,
    chain,      \* the chain of slices: "queued" for the poller, "slicing", "over" or "failed"
    exhausted,  \* the scan's request budget is spent (runner.scan_budget_exhausted)
    kills, faults

rowVars    == <<serial, id, status, attempts, depth, timeouts, cursor, stale, ingested>>
workerVars == <<pc, cur, seen, tries, attempt, pos, left>>
envVars    == <<elsewhere, chain, exhausted, kills, faults>>
vars       == <<rowVars, workerVars, envVars>>

-----------------------------------------------------------------------------
(* Reading the table.                                                          *)

Queued     == {u \in Pages : id[u] # 0}
\* Mutant: pending_count counts the seeds only.
PendingSeeds == {u \in Pages : status[u] = "pending" /\ depth[u] = 0}

\* What pending_count counts.
Pending    == {u \in Pages : status[u] = "pending"}
Holding    == {"claimed", "visiting"}
Holders(u) == {w \in Workers : pc[w] \in Holding /\ cur[w] = u}
UnitCount(u) == Len(Links[u])

SeedSet     == {Seeds[i] : i \in DOMAIN Seeds}
Priority(u) == IF u \in SeedSet THEN 1 ELSE 0

\* A claim may take a PENDING row, or an IN_PROGRESS row nobody touched for long.
Eligible(u) == status[u] = "pending" \/ (status[u] = "in_progress" /\ stale[u])

\* Mutant: the SELECT ignores other claims' locks.
NeverLocked(u) == FALSE

\* FOR UPDATE SKIP LOCKED passes over a row whose claim is still uncommitted.
Locked(u) == SkipLocked /\ \E w \in Workers : pc[w] = "selected" /\ cur[w] = u

\* ORDER BY priority DESC, attempts ASC, id ASC
Precedes(u, v) ==
    \/ Priority(u) > Priority(v)
    \/ Priority(u) = Priority(v) /\ attempts[u] < attempts[v]
    \/ Priority(u) = Priority(v) /\ attempts[u] = attempts[v] /\ id[u] <= id[v]

Claimable == {u \in Pages : Eligible(u) /\ ~Locked(u)}

Best(u) == u \in Claimable /\ \A v \in Claimable : Precedes(u, v)

-----------------------------------------------------------------------------
(* Writing the table.                                                          *)

\* Mutant: positions counted from zero.
IndexFromZero(list, u) == (CHOOSE i \in DOMAIN list : list[i] = u) - 1

IndexIn(list, u) == CHOOSE i \in DOMAIN list : list[i] = u

\* The scan owner supports every record they own; their page is skipped.
Discovered(list) == ToSet(list) \ {Self}

\* The pages of the list that enqueue adds a row for.
NewOf(list) == {u \in Discovered(list) : id[u] = 0}

\* enqueue every new page of the list at the given depth, in list order.  Ids
\* only order the rows, so skipped pages may leave gaps.
Enqueue(list, d) ==
    LET new == NewOf(list)
    IN  /\ id'     = [u \in Pages |-> IF u \in new THEN serial + IndexIn(list, u) ELSE id[u]]
        /\ serial' = IF new = {} THEN serial ELSE serial + Len(list)
        /\ status' = [u \in Pages |-> IF u \in new THEN "pending" ELSE status[u]]
        /\ depth'  = [u \in Pages |-> IF u \in new THEN d ELSE depth[u]]

\* Mutant: the depth bound off by one.
RevealedTooShallow(u, n) == IF depth[u] + 1 < MaxDepth THEN Links[u][n] ELSE <<>>

\* What a unit of work at this depth reveals, cut off at the depth bound.
Revealed(u, n) == IF depth[u] < MaxDepth THEN Links[u][n] ELSE <<>>

AllLinks(u) == UNION {ToSet(Links[u][n]) : n \in DOMAIN Links[u]}

Mark(u, s) == status' = [status EXCEPT ![u] = s]

\* The worker drops its visit and goes to the head of its loop, or returns.
Leave(w, c) ==
    /\ pc'      = [pc EXCEPT ![w] = c]
    /\ cur'     = [cur EXCEPT ![w] = Self]
    /\ seen'    = [seen EXCEPT ![w] = "absent"]
    /\ tries'   = [tries EXCEPT ![w] = 0]
    /\ attempt' = [attempt EXCEPT ![w] = 0]
    /\ pos'     = [pos EXCEPT ![w] = 0]
    /\ left'    = [left EXCEPT ![w] = 0]

-----------------------------------------------------------------------------
(* start_scan has put the seeds on the frontier; no worker runs yet.           *)

Init ==
    /\ id        = [u \in Pages |-> IF u \in SeedSet THEN IndexIn(Seeds, u) ELSE 0]
    /\ serial    = Len(Seeds)
    /\ status    = [u \in Pages |-> IF u \in SeedSet THEN "pending" ELSE "absent"]
    /\ attempts  = [u \in Pages |-> 0]
    /\ depth     = [u \in Pages |-> 0]
    /\ timeouts  = [u \in Pages |-> 0]
    /\ cursor    = [u \in Pages |-> 0]
    /\ stale     = [u \in Pages |-> FALSE]
    /\ ingested  = [u \in Pages |-> {}]
    /\ elsewhere = {}
    /\ pc        = [w \in Workers |-> "off"]
    /\ cur       = [w \in Workers |-> Self]
    /\ seen      = [w \in Workers |-> "absent"]
    /\ tries     = [w \in Workers |-> 0]
    /\ attempt   = [w \in Workers |-> 0]
    /\ pos       = [w \in Workers |-> 0]
    /\ left      = [w \in Workers |-> 0]
    /\ chain     = "queued"
    /\ exhausted = FALSE
    /\ kills     = 0
    /\ faults    = 0

-----------------------------------------------------------------------------
(* The head of the loop, and claim_next.                                       *)

\* A worker looks at the budget once for every entry it claims, and returns when
\* it is spent.
ReadBudget(w) ==
    /\ pc[w] \in {"ready", "again"}
    /\ IF exhausted
       THEN Leave(w, "off")
       ELSE /\ pc' = [pc EXCEPT ![w] = "claiming"]
            /\ UNCHANGED <<cur, seen, tries, attempt, pos, left>>
    /\ UNCHANGED <<rowVars, envVars>>

\* The SELECT: nothing claimable ends the worker, else the best row is read.
FindNothing(w) ==
    /\ pc[w] = "claiming"
    /\ Claimable = {}
    /\ Leave(w, "off")
    /\ UNCHANGED <<rowVars, envVars>>

Select(w) ==
    /\ pc[w] = "claiming"
    /\ \E u \in Pages :
        /\ Best(u)
        /\ cur'  = [cur EXCEPT ![w] = u]
        /\ seen' = [seen EXCEPT ![w] = status[u]]
    /\ pc' = [pc EXCEPT ![w] = "selected"]
    /\ UNCHANGED <<rowVars, tries, attempt, pos, left, envVars>>

\* The compare of the compare-and-swap.
StatusAsRead(w) == status[cur[w]] = seen[w]

\* The UPDATE matches while the status is still the one that was read; the claim
\* is committed and the row's updated_at is now.
ClaimWins(w) ==
    /\ pc[w] = "selected"
    /\ StatusAsRead(w)
    /\ LET u == cur[w]
       IN  /\ Mark(u, "in_progress")
           /\ attempts' = [attempts EXCEPT ![u] = @ + 1]
           /\ stale'    = [stale EXCEPT ![u] = FALSE]
    /\ pc'      = [pc EXCEPT ![w] = "claimed"]
    /\ tries'   = [tries EXCEPT ![w] = 0]
    /\ attempt' = [attempt EXCEPT ![w] = 1]
    /\ UNCHANGED <<serial, id, depth, timeouts, cursor, ingested, cur, seen, pos, left, envVars>>

\* The UPDATE matches nothing: look for another row, ClaimAttempts times in all.
ClaimLoses(w) ==
    /\ pc[w] = "selected"
    /\ ~StatusAsRead(w)
    /\ IF tries[w] + 1 < ClaimAttempts
       THEN /\ pc'    = [pc EXCEPT ![w] = "claiming"]
            /\ tries' = [tries EXCEPT ![w] = @ + 1]
            /\ cur'   = [cur EXCEPT ![w] = Self]
            /\ seen'  = [seen EXCEPT ![w] = "absent"]
            /\ UNCHANGED <<attempt, pos, left>>
       ELSE Leave(w, "off")
    /\ UNCHANGED <<rowVars, envVars>>

-----------------------------------------------------------------------------
(* process_one: the visit.                                                     *)

Reusable(u) == u \in elsewhere /\ u # Self

\* Complete the page from the rows another scan stored, in whatever order the
\* database returns them; the owner's own page never.  The rows are joined by
\* the page's stored url and know no followed-artist prune, so they may reveal
\* less than a live crawl, or more.
Reuse(w) ==
    /\ pc[w] = "claimed"
    /\ LET u == cur[w]
       IN  /\ Reusable(u)
           /\ \E list \in SetToSeqs(IF depth[u] < MaxDepth THEN Stored[u] ELSE {}) :
                Enqueue(list, depth[u] + 1)
           /\ pos' = [pos EXCEPT ![w] = UnitCount(u)]
    /\ pc'   = [pc EXCEPT ![w] = "visiting"]
    /\ left' = [left EXCEPT ![w] = 0]
    /\ UNCHANGED <<attempts, timeouts, cursor, stale, ingested, cur, seen, tries, attempt, envVars>>

\* A first visit renders the page, whose embedded list costs no page of the
\* budget; a resumed one starts from the bookmark.
BeginVisit(w) ==
    /\ pc[w] = "claimed"
    /\ ~Reusable(cur[w])
    /\ pc'   = [pc EXCEPT ![w] = "visiting"]
    /\ pos'  = [pos EXCEPT ![w] = cursor[cur[w]]]
    /\ left' = [left EXCEPT ![w] = IF cursor[cur[w]] = 0 THEN PagesPerVisit + 1 ELSE PagesPerVisit]
    /\ UNCHANGED <<rowVars, cur, seen, tries, attempt, envVars>>

UnitsRemain(w) == pos[w] < UnitCount(cur[w]) /\ left[w] > 0

\* Mutant: the bookmark is taken before the token is advanced.
BookmarkBefore(u, n) == n - 1

\* The bookmark of what is still unread: NULL once nothing is.
Bookmark(u, n) == IF n < UnitCount(u) THEN n ELSE 0

\* One unit: ingest, enqueue what it reveals, and commit both with the bookmark.
ReadUnit(w) ==
    /\ pc[w] = "visiting"
    /\ UnitsRemain(w)
    /\ LET u == cur[w]
           n == pos[w] + 1
       IN  /\ Enqueue(Revealed(u, n), depth[u] + 1)
           /\ ingested' = [ingested EXCEPT ![u] = @ \cup {n}]
           /\ cursor'   = [cursor EXCEPT ![u] = Bookmark(u, n)]
           /\ stale'    = [stale EXCEPT ![u] = FALSE]
           /\ pos'      = [pos EXCEPT ![w] = n]
    /\ left' = [left EXCEPT ![w] = @ - 1]
    /\ UNCHANGED <<attempts, timeouts, pc, cur, seen, tries, attempt, envVars>>

VisitOver(w) == pc[w] = "visiting" /\ ~UnitsRemain(w)

\* Mutant: a visit that ran out of its page budget counts as complete.
AnyVisitIsComplete(w) == TRUE

PagedOut(w) == pos[w] = UnitCount(cur[w])

MarkDone(w) ==
    /\ VisitOver(w)
    /\ PagedOut(w)
    /\ Mark(cur[w], "done")
    /\ cursor'   = [cursor EXCEPT ![cur[w]] = 0]
    /\ timeouts' = [timeouts EXCEPT ![cur[w]] = 0]
    /\ Leave(w, "again")
    /\ UNCHANGED <<serial, id, attempts, depth, stale, ingested, envVars>>

MarkPartial(w) ==
    /\ VisitOver(w)
    /\ ~PagedOut(w)
    /\ Mark(cur[w], "pending")
    /\ cursor'   = [cursor EXCEPT ![cur[w]] = pos[w]]
    /\ timeouts' = [timeouts EXCEPT ![cur[w]] = 0]
    /\ Leave(w, "again")
    /\ UNCHANGED <<serial, id, attempts, depth, stale, ingested, envVars>>

-----------------------------------------------------------------------------
(* process_one: what goes wrong before a unit is committed.  The session rolls *)
(* back, so the unit leaves no trace.                                          *)

AtWork(w) == pc[w] = "claimed" \/ (pc[w] = "visiting" /\ UnitsRemain(w))

\* Mutant: the row keeps its claim.
ParkedInProgress(u) == IF timeouts[u] + 1 >= MaxTimeouts THEN "error" ELSE "in_progress"

AfterTimeout(u) == IF timeouts[u] + 1 >= MaxTimeouts THEN "error" ELSE "pending"

\* entry_seconds elapse.  The worker returns: process_one answered None.
Timeout(w) ==
    /\ AtWork(w)
    /\ LET u == cur[w]
       IN  /\ timeouts' = [timeouts EXCEPT ![u] = @ + 1]
           /\ Mark(u, AfterTimeout(u))
    /\ Leave(w, "off")
    /\ UNCHANGED <<serial, id, attempts, depth, cursor, stale, ingested, envVars>>

\* A deadlock or serialization failure: run the entry again, from the bookmark
\* the committed units left behind.
DbRetry(w) ==
    /\ AtWork(w)
    /\ attempt[w] < DbRetries
    /\ attempt' = [attempt EXCEPT ![w] = @ + 1]
    /\ pc'   = [pc EXCEPT ![w] = "claimed"]
    /\ pos'  = [pos EXCEPT ![w] = 0]
    /\ left' = [left EXCEPT ![w] = 0]
    /\ UNCHANGED <<rowVars, cur, seen, tries, envVars>>

\* Any other exception, or one retry too many.
Fail(w) ==
    /\ AtWork(w)
    /\ Mark(cur[w], "error")
    /\ Leave(w, "again")
    /\ UNCHANGED <<serial, id, attempts, depth, timeouts, cursor, stale, ingested, envVars>>

\* The database is lost before the closing mark_* commits: the exception leaves
\* process_one, run_until_empty goes on, and the row keeps its claim.
CloseFails(w) ==
    /\ pc[w] = "visiting"
    /\ faults < MaxDbFaults
    /\ faults' = faults + 1
    /\ Leave(w, "again")
    /\ UNCHANGED <<rowVars, elsewhere, chain, exhausted, kills>>

-----------------------------------------------------------------------------
(* run_until_empty and the chain of slices.                                    *)

\* The deadline, or the slice's entry count, is consulted between two entries.
DeadlinePasses(w) ==
    /\ pc[w] = "again"
    /\ Leave(w, "off")
    /\ UNCHANGED <<rowVars, envVars>>

SliceOver == chain = "slicing" /\ \A w \in Workers : pc[w] = "off"

\* A slice starts all its workers, but one only when it offers a single entry.
StartWorkers ==
    \E S \in SUBSET Workers \ {{}} :
        pc' = [w \in Workers |-> IF w \in S THEN "ready" ELSE "off"]

\* The poller dispatches the chain's first job, or the one after a kill.
Dispatch ==
    /\ chain = "queued"
    /\ chain' = "slicing"
    /\ StartWorkers
    /\ UNCHANGED <<rowVars, cur, seen, tries, attempt, pos, left, elsewhere, exhausted, kills, faults>>

\* Mutant: advance_scan takes no notice of the budget.
PendingOnly == Pending # {}

\* What advance_scan answers: PENDING rows, and budget left to crawl them.
MoreToDo == ~exhausted /\ Pending # {}

\* There is more to do, so the job enqueues its successor ...
NextSlice ==
    /\ SliceOver
    /\ MoreToDo
    /\ StartWorkers
    /\ UNCHANGED <<rowVars, cur, seen, tries, attempt, pos, left, envVars>>

\* ... or there is not, and the scan is finalized with what it has.
EndChain ==
    /\ SliceOver
    /\ ~MoreToDo
    /\ chain' = "over"
    /\ UNCHANGED <<rowVars, workerVars, elsewhere, exhausted, kills, faults>>

\* A job that cannot start its slice (MAX_SCAN_SLICES, a seed without a url, an
\* error of the database) fails the scan, and nothing follows it.
StartFails ==
    /\ chain = "queued" \/ (SliceOver /\ MoreToDo)
    /\ chain' = "failed"
    /\ UNCHANGED <<rowVars, workerVars, elsewhere, exhausted, kills, faults>>

\* The requests of the visits going on reach the scan's budget.
RunOut ==
    /\ Budgeted /\ ~exhausted
    /\ \E w \in Workers : pc[w] \in Holding
    /\ exhausted' = TRUE
    /\ UNCHANGED <<rowVars, workerVars, elsewhere, chain, kills, faults>>

\* The process dies with every worker in it; what was not committed is gone.
\* The scan's heartbeat goes cold and the poller queues it again.
Kill ==
    /\ chain = "slicing"
    /\ kills < MaxKills
    /\ kills'   = kills + 1
    /\ chain'   = "queued"
    /\ pc'      = [w \in Workers |-> "off"]
    /\ cur'     = [w \in Workers |-> Self]
    /\ seen'    = [w \in Workers |-> "absent"]
    /\ tries'   = [w \in Workers |-> 0]
    /\ attempt' = [w \in Workers |-> 0]
    /\ pos'     = [w \in Workers |-> 0]
    /\ left'    = [w \in Workers |-> 0]
    /\ UNCHANGED <<rowVars, elsewhere, exhausted, faults>>

\* STALE_CLAIM_AFTER is longer than any live visit (entry_seconds, job_timeout),
\* so only a claim nobody holds any more grows that old.
GoStale(u) ==
    /\ status[u] = "in_progress"
    /\ ~stale[u]
    /\ Holders(u) = {}
    /\ stale' = [stale EXCEPT ![u] = TRUE]
    /\ UNCHANGED <<serial, id, status, attempts, depth, timeouts, cursor, ingested, workerVars, envVars>>

\* Another scan finishes a page of the shared graph.
DoneElsewhere(u) ==
    /\ u \in Shared \ elsewhere
    /\ elsewhere' = elsewhere \cup {u}
    /\ UNCHANGED <<rowVars, workerVars, chain, exhausted, kills, faults>>

-----------------------------------------------------------------------------
\* What a worker does by itself, when nothing goes wrong.
Work(w) ==
    \/ ReadBudget(w) \/ FindNothing(w) \/ Select(w) \/ ClaimWins(w) \/ ClaimLoses(w)
    \/ Reuse(w) \/ BeginVisit(w) \/ ReadUnit(w) \/ MarkDone(w) \/ MarkPartial(w)
    \/ DeadlinePasses(w)

Trouble(w) == Timeout(w) \/ DbRetry(w) \/ Fail(w) \/ CloseFails(w)

Continue == Dispatch \/ NextSlice \/ EndChain

Next ==
    \/ \E w \in Workers : Work(w) \/ Trouble(w)
    \/ Continue \/ StartFails \/ RunOut \/ Kill
    \/ \E u \in Pages : GoStale(u) \/ DoneElsewhere(u)

Spec == Init /\ [][Next]_vars

\* The event loop runs every worker that can run, and the queue every job.
FairSpec == Spec /\ (\A w \in Workers : WF_vars(Work(w))) /\ WF_vars(Continue)

-----------------------------------------------------------------------------
(* Properties.                                                                 *)

\* Every variable has its type; in particular a row has an id exactly when it is
\* in the table, and no two rows share one.
TypeOK ==
    /\ serial \in Nat /\ id \in [Pages -> Nat] /\ status \in [Pages -> Status]
    /\ attempts \in [Pages -> Nat] /\ depth \in [Pages -> Nat]
    /\ timeouts \in [Pages -> Nat] /\ cursor \in [Pages -> Nat]
    /\ stale \in [Pages -> BOOLEAN]
    /\ ingested \in [Pages -> SUBSET Nat]
    /\ elsewhere \subseteq Shared
    /\ pc \in [Workers -> Control] /\ cur \in [Workers -> Pages]
    /\ seen \in [Workers -> Status]
    /\ tries \in [Workers -> Nat] /\ attempt \in [Workers -> Nat]
    /\ pos \in [Workers -> Nat] /\ left \in [Workers -> Nat]
    /\ chain \in {"queued", "slicing", "over", "failed"}
    /\ exhausted \in BOOLEAN
    /\ kills \in Nat /\ faults \in Nat
    /\ \A u \in Pages : id[u] = 0 <=> status[u] = "absent"
    /\ \A u \in Pages : id[u] <= serial
    /\ \A u, v \in Queued : id[u] = id[v] => u = v

\* No two live workers ever hold the same row, whatever was killed before and
\* however late (frontier.claim_next: "two of them landing on the same row would
\* crawl it twice and pay twice").
ClaimExclusive ==
    \A v, w \in Workers :
        pc[v] \in Holding /\ pc[w] \in Holding /\ cur[v] = cur[w] => v = w

\* A row that is DONE lost nothing: every unit of its page was committed, by a
\* live crawl or by another scan, and every page it reveals is on the frontier:
\* what the page itself reveals, or, for a page another scan has done, what the
\* stored rows reveal.  Bookmarks, retries, time-outs, kills and reuse must all
\* agree for this to hold.
DoneIsComplete ==
    \A u \in Pages : status[u] = "done" =>
        /\ Reusable(u) \/ ingested[u] = 1..UnitCount(u)
        /\ depth[u] < MaxDepth =>
              \/ AllLinks(u) \ {Self} \subseteq Queued
              \/ Reusable(u) /\ Stored[u] \ {Self} \subseteq Queued

\* Without a kill or a lost database a claimed row is always in some worker's
\* hands, so pending_count, which sees only PENDING, never misses work
\* (frontier.mark_retryable: a row "parked IN_PROGRESS is invisible to it").
NoSilentStrand ==
    kills = 0 /\ faults = 0 =>
        \A u \in Pages : status[u] = "in_progress" => Holders(u) # {}

\* When the chain stops no row is left half crawled in a claim, and none is left
\* to crawl unless the scan's request budget is spent (frontier.mark_retryable: the
\* work must not be "silently abandoned").
ChainEndsDrained ==
    chain = "over" =>
        \A u \in Queued : \/ status[u] \in {"done", "error"}
                          \/ exhausted /\ status[u] = "pending"

\* While no process dies and no closing commit is lost, every row on the frontier
\* is crawled to the end or given up for cause, however often its visits are cut
\* short by time-outs, retries and page budgets, unless the scan runs out of its
\* request budget or fails.
EveryRowSettles ==
    \A u \in Pages :
        status[u] = "pending" ~>
            (status[u] \in {"done", "error"} \/ kills + faults > 0 \/ exhausted \/ chain = "failed")

\* The chain of slices comes to its end in any case.
ChainEnds == <>(chain \in {"over", "failed"})

\* The frontier is a work queue whose claims are exclusive: what a worker holds is
\* its claimed row.
Queue == INSTANCE WorkQueue WITH
    Items   <- Pages,
    Initial <- SeedSet,
    None    <- NoPage,
    added   <- Queued,
    settled <- {u \in Pages : status[u] \in {"done", "error"}},
    hand    <- [w \in Workers |-> IF pc[w] \in Holding THEN cur[w] ELSE NoPage]

QueueSpec == Queue!Spec

\* The entries that no other scan can complete for this one.
Own == {u \in Pages : u \notin Shared \/ u = Self}

\* Each of them is read as Reading says, by whichever workers, slices and processes it takes.
Walk == INSTANCE Reading WITH
    Entries  <- Own,
    Units    <- [u \in Own |-> UnitCount(u)],
    state    <- [u \in Own |-> IF status[u] \in {"done", "error"} THEN status[u] ELSE "open"],
    bookmark <- [u \in Own |-> cursor[u]],
    read     <- [u \in Own |-> ingested[u]],
    ended    <- {}

WalkSpec == Walk!Spec

=============================================================================
