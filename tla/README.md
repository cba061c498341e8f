# A formal model of crate-digger

Crate-digger (backend/, frontend/) recommends Bandcamp records. It crawls a user's
collection, the supporters of the records in it and the supporters' collections into one
shared graph, and ranks what the taste neighbours own and the user does not. Pages are bought
from a scraping provider, one credit each, so the crawl must be resumable: whatever is killed,
times out or loses a race, nothing that was paid for may be lost and nothing may be bought
twice. What the crawl has written is then ranked, stored, pruned and served while all of it
goes on. And a team of agents (team/) works on the repository in unattended cycles.

The modules are TLA+, checked by TLC on small instances (`tlc -config X.cfg M`) and, where a
property matters for every size, proved with TLAPS (`tlapm M.tla`). `PROJECT.json` lists the
components, runs, mutants, findings, hazards and theorems, and for each definition the lines of
source it models.

## 1. The system

### Components, their state and operations

| Component | Source (backend/app) | State | Operations | Module |
|---|---|---|---|---|
| Crawl frontier | `crawl/frontier.py` | rows of `crawl_frontier`: status, attempts, priority, depth, cursor, timeout_count, updated_at | `enqueue`, `claim_next`, `mark_*`, `pending_count`, `completed_elsewhere` | `CrawlFrontier` |
| Crawl runner | `crawl/runner.py`, `crawl/replay.py` | the workers of a slice; none of its own that lasts | `run_until_empty`, `process_one`, `process_entry`, reuse, the request budget | `CrawlFrontier`, `Gateway` |
| Crawl operations | `crawl/service.py` | tokens and page budget of one visit | `crawl_fan_collection`, `crawl_album`, `crawl_track` | `FanPaging`, `CrawlFrontier` |
| Scan lifecycle | `crawl/scan_service.py`, `api/scans.py` | rows of `scans`: status, stats (slice count, heartbeat) | create, run again, delete; claim, reclaim; start, advance, finalize, fail | `ScanLifecycle` |
| Job worker | `worker.py` | the ARQ job queue | `poll_scans` (cron, every 30 s), `run_scan` chain | `ScanLifecycle` |
| Scraping gateway | `scraping/*` | breaker per provider, token bucket, slots, usage rows | `fetch` with retries and fallback | `Gateway` |
| Ingest | `bandcamp/mapper.py` | the graph: bands, albums, tracks, fans, tags and their edges | get-or-create and enrichment, page by page | `Ingest`, `IngestPages` |
| Curation engine | `curation/*` | `recommendations`, `scans.recompute_generation` | exclusions, scores, ranking, store, reports | `Curation`, `Feed` |
| Feed, likes, blacklist | `api/feed.py`, `api/likes.py`, `api/blacklist.py` | likes, blacklist, cooldown marks | read with ETag, like/unlike, block/unblock, recompute | `Feed` |
| Team tools | `team/tools` | `state.json`, pid file, worktrees, branches, pull requests | one cycle of the agents, from launchd's tick to its end | `TeamCycle` |
| Database | `db/*` | schema, sessions, migrations | | the modules' variables |
| Parsing and pagination clients | `bandcamp/parse.py`, `*_api.py`, `urls.py` | none | HTML/JSON to records | |
| Authentication | `api/auth.py`, `auth/security.py` | users: failed logins, lockout | signup, login, me | |
| Collection, health, wiring | `api/collection.py`, `api/health.py`, `main.py` | none | read-only | |
| Seeding and scripts | `crawl/seed.py`, `backend/scripts` | none | command-line entry points | |
| Frontend | `frontend/src` | browser state | feed, scans, collection pages | |

### How they interact

The API creates a scan as `queued`. Every 30 seconds the poller re-queues `running` scans whose
heartbeat is cold, flips every `queued` scan to `running`, commits, and enqueues a `run_scan`
job for each. A job crawls one slice: `start_scan` puts the seeds on the frontier, counts the
slice and writes the heartbeat; `run_until_empty` starts its workers; each worker reads the
request budget, claims a frontier row, commits the claim, runs the crawl operation of the row's
kind and closes the row. The operation fetches through the gateway, which all workers share,
and hands each page to the mapper, which is one transaction. If PENDING rows are left (and
budget), the job enqueues its successor, else it finalizes the scan: curate, store, `done`. Any
exception goes to `fail_scan`. What lasts is in PostgreSQL; the processes share nothing else,
and the breakers, the limiter and the recompute cooldown are each process's own. Scans share
the graph, not the frontier: a page some other scan has DONE is completed without a fetch and
its fan-out is replayed from the stored rows.

A curate reads the graph and the user's exclusions, and replaces the scan's recommendations
under a new generation; it is run by a slice, by `finalize_scan` and by the API. A like or a
block deletes the band's recommendations and raises the generation of the user's scans. A
reader sends the generation it has as an ETag. The team's cycles touch none of this; they share
`state.json`, the checkout and the pid file among themselves.

### What is hard, and what makes each part correct

* **Frontier and runner.** Dozens of workers claim in parallel; a claim is a SELECT, then an
  UPDATE. Visits end by success, by page budget, by time-out, by database retry, by exception,
  by process death, or by losing the database while closing. *Correct:* no row in two hands; a
  DONE row lost nothing; no row stranded; every row settles unless the request budget is spent
  first, and the chain of slices ends in any case.
* **Paging a fan page.** Three lists over many visits, each page committed with a bookmark.
  *Correct:* the bookmark is neither ahead of nor behind the data; a done page is whole; an
  interruption costs one bought page.
* **Scan lifecycle.** A chain of jobs with no owner but the row's status and heartbeat, a
  poller, a user, and kills. *Correct:* one chain per scan, and a living one is never replaced,
  as long as jobs need not wait; every run ends; jobs never recommend without the user's
  exclusions.
* **Gateway.** Workers that may be cancelled at any await share breakers, slots and tokens.
  *Correct:* no slot leaks; an open circuit is spared; the request budget is overdrawn by a
  bounded amount.
* **Ingest.** Select-then-insert on overlapping pages, with savepoints, unique keys and
  deadlocks. *Correct:* a page lands whole or not at all; collisions are benign; ownership wins
  over a wish; nothing known is forgotten.
* **Curation.** Three separately written readings of one set of exclusions, ties everywhere,
  a weighted sum. *Correct:* the feed is the best release of each band in any order of the
  rows; the reports agree with it; learning more of others lowers no score.
* **Feed.** Curates, likes, blocks and readers interleave statement by statement. *Correct:* a
  generation names one set of rows; what was dismissed stays out; the feed is of one curate.
* **Team tools.** Cycles are started by launchd and by hand, are killed, run out of budget, and
  leave work for the next one in a file. *Correct:* numbers are used once; what is pushed is what
  the gates judged; work that was broken off is kept, and found again.

`PROJECT.json` lists these hazards one by one with the line at which each bites.

## 2. The modules

| Module | What it is |
|---|---|
| `CrawlFrontier` | one scan's frontier, the workers of a slice, the chain of slices; `MCCrawlFrontier` its instances |
| `WorkQueue` | abstract specification: what a frontier promises (`CrawlFrontier` implements it) |
| `Reading` | abstract specification: how what takes many visits is read (`CrawlFrontier` and `FanPaging` implement it) |
| `CrawlFrontierProofs` | types, exclusive claims, no stranded claim, done rows lost nothing, the chain's end, both refinements |
| `FanPaging` | one fan page's entry over all its visits, page by page; `MCFanPaging` |
| `FanPagingProofs` | types, honest bookmark, complete collection, what resuming costs, the refinement |
| `ScanLifecycle` | one scan row, its job chains, the poller, the user; `MCScanLifecycle` |
| `ScanLifecycleProofs` | types, one chain, the poller spares the living, jobs that wait for the exclusions |
| `Gateway` | the workers' fetches, breakers, limiter, request budget; `MCGateway` |
| `GatewayProofs` | types, slots, coherent breakers, spared circuits, bounded overdraft |
| `IngestPages` | operators: which rows each kind of page makes the mapper ensure, in which order |
| `Ingest` | concurrent transactions over what pages mention; `MCIngest` puts it on `IngestPages` |
| `GraphStore` | abstract specification: what the mapper promises of the graph (`Ingest` implements it) |
| `IngestProofs` | types, atomic pages, ownership, collisions, growing knowledge, the refinement |
| `Curation` | the ranking and the reports as operators, under a graph that grows; `MCCuration` |
| `CurationProofs` | types, the weight of a co-owner, scores that only grow, reports that agree, the best of each band |
| `Feed` | the stored recommendations of one scan under curates, dismissals, readers; `MCFeed` |
| `FeedProofs` | types, truthful tags, one ranking, dismissals, cooldown |
| `TeamCycle` | the agent team's cycles; `MCTeamCycle` |
| `TeamCycleProofs` | types, numbers, gated pushes, kept worktrees |

The modules are levels of one system and meet at named places. `FanPaging` is the inside of the
visit that `CrawlFrontier` takes as a sequence of units of work; a unit's commit is a page of
`Ingest`, and the fetches it costs are those of `Gateway`; `CrawlFrontier` is the inside of what
`ScanLifecycle` takes as a slice, whose answer is `more`; the curate of `EndSlice`, `Publish` and
`Recompute` is one of `Feed`'s `Curates`; what a curate of `Feed` scores is computed in
`Curation`. They are composed by these abstractions and not by one product, whose states would be
beyond counting; each states what it takes from the others as a constant or as a free choice.

Where two levels speak of the same thing, they implement the same abstraction. `Reading` says how
an entry is read that takes many visits. The rows of `CrawlFrontier` are read so, unit by unit,
and the collection of `FanPaging` is, page by page: that a commit and its bookmark are one step in
`CrawlFrontier` is thus what its inside, where tokens are advanced, answered and cut short, has
been shown to amount to. The owner's other two lists are not read so, since their embedded part
can be lost (section 4), and no level claims that they are.

### CrawlFrontier and the code

A *page* is a (url, kind) pair. The unique constraint (scan, url, kind) is the fact that `id`,
`status`, `attempts`, `depth`, `timeouts` (timeout_count) and `cursor` are functions of the page;
id 0 and status "absent" mean there is no row. `stale` says that `updated_at` is older than
`STALE_CLAIM_AFTER`. `ingested` is a history variable: the units of the page whose commit
happened. The bookmark is abstracted to the number of units it covers (0 is NULL).

`Links[u][n]` is what the n-th unit of page u reveals: for a fan page the embedded list, then
each bought page; an album or track has one unit, since its supporters and what they reveal are
committed together at its end (the record itself is committed earlier, but it is get-or-create
and reveals nothing). The three lists embedded in the owner's page count as one unit here;
`FanPaging` takes them apart. The model is of a collection scan, whose owner's page is `Self`; a
custom scan is one in which `Self` is neither a seed nor linked. The followed-artist prune and
the URL routing are part of this constant. `Stored[u]` is what a replay of u finds in the rows
that other scans have stored: it joins by the stored url and prunes no followed artist, so it may
be less than `Links` reveals, or more.

Every worker has a program counter. One action per step that ends in a commit or reads what a
later step relies on: `ReadBudget` is the look at the request budget before every entry;
`Select`/`ClaimWins`/`ClaimLoses`/`FindNothing` are `claim_next` with its read and its
compare-and-swap apart; `Reuse`, `BeginVisit`, `ReadUnit` are `process_entry`;
`MarkDone`, `MarkPartial` close the visit; `Timeout`, `DbRetry`, `Fail` are the handlers of
`process_one`, which roll back the uncommitted unit; `CloseFails` is an exception in the closing
commit itself. `Leave` takes the worker out of the visit. `DeadlinePasses` is the slice's
deadline or entry count, consulted between entries only. `Dispatch`, `NextSlice`, `EndChain` are
the chain: there is `MoreToDo` if rows are PENDING and the budget is not spent (`exhausted`, which
`RunOut` sets at any time in a visit); `StartFails` is a job that cannot start its slice. `Kill`
is the death of the process, `GoStale` time, `DoneElsewhere` another scan.

`SkipLocked` is TRUE on PostgreSQL: the SELECT's row lock lasts until the claim's commit, so
other SELECTs pass over the row. With FALSE (SQLite) only the compare-and-swap is left.

Left out: the optional size cap of the frontier (off by default), the `kinds` filter,
`last_error`, the rows' deletion with their scan, workers left behind when the budget's own query
raises, and a second chain of the same scan (section 4). How far the request budget is
overdrawn is in `Gateway`.

### WorkQueue

Items are added, held by at most one worker, put back or settled; what is settled stays so; all
hands may lose their items at once. `CrawlFrontier!QueueSpec` instantiates it with the rows in
the table, the closed rows and the rows that workers hold.

### Reading

`Commit` adds the unit after the bookmark and moves the bookmark onto it, or to 0 after the last
one, in one step; the provider may end an entry early (`ended`). `Close` is for entries that are
read out and is final, `GiveUp` keeps what was committed. Nothing else changes anything: a claim, a
time-out, a retry, a death are stutters. `CrawlFrontier!WalkSpec` instantiates it with the rows
that no other scan can complete (`Own`) and no early end, `FanPaging!PagingSpec` with the one
collection, ended where an echoed token cut it.

### FanPaging and the code

`tokens` are the visit's three tokens, `cursor` the committed bookmark, token n standing for the
place after page n and 0 for None. `Render`/`Resume` are the two ways to begin a visit;
`AbsorbEmbedded` are the three separate commits of the embedded lists on the owner's page (one
on others'); `BuyPage` buys a page and advances the token with `_next_token`, `AbsorbPage`
ingests the page in `hand` and commits it. The provider answers with the next token, echoes the one
it was sent, or goes back to an older one, which `_next_token` takes for new. `CutShort` is a
time-out, a database retry or a death, between any two steps; `GiveUp` an error. `isMe` is chosen
once. `cut`, `fresh` and `spent` are history: lists ended by an echo, pages committed and pages
bought since the last render.

### ScanLifecycle and the code

`status` is `ScanStatus` or "deleted" (draft is never used); `slices` and `beat` are
`stats.slices_run` and `stats.last_slice_at`; `job[c]` the state of each chain's current job.
`Reclaim`, `Claim`, `EnqueueJob` are `poll_scans` step by step, with `KillPoller` in between;
`Reclaim` looks at the heartbeat only, so it may overtake a job that waits in the queue, whose
chain goes on (`MaxOvertakes` bounds how often). `StartSlice`, `VisitOwnPage`, `EndSlice`,
`NextJob`, `Finalize`, `Publish`, `Raise`, `FailScan` are `run_scan` and the functions it calls;
`RunAgain`, `Delete` and `Recompute` are the endpoints.

`known` says that the owner's page is read out, from which every exclusion comes, `linked` that
`users.fan_id` is set, without which `curate` raises. A slice that `VisitOwnPage` (in part, or to
its end) is in `visited`, and links the fan when it is over; `EndSlice` includes the interim
curate. `_self_crawl_complete` is `SelfCrawlComplete`, which a custom scan passes unseen; the
collection scan next to it is `VisitElsewhere`. `early`, `overtakes` are history: who stored
recommendations before all was known, and how often a living chain was overtaken.

The read-then-write of `reclaim_stalled_scans` and of `POST run` is one step (see the hazards).
A job's exception is not retried by ARQ: `run_scan` has recorded it by then.

### Gateway and the code

The workers share one event loop, so what lies between two awaits is one step and each await is
a place where the entry's time-out (`Cancel`) may strike. `Begin` and `StopSlice` are the budget
test of `run_until_empty` with the claim that follows it; `left` is the number of fetches a
visit may still make, `VisitCost` at most. `Fetch` enters the waterfall, `Descend` is its loop
down to the first provider whose circuit `Allow`s; `AcquireSlot`, `AcquireToken` are `slot()`;
`Respond`, `RespondMalformed` the call's end; `Succeed`, `Deny`, `LoseQuota`, `Fail` what
`_try_provider` and `fetch` make of it once it is logged; `Sleep`, `Wake` the backoff. The
breaker is `failures` and `circuit` per provider, with `Open`, `RecordFailure`, `RecordSuccess`
and `CoolDown` for the passing of `reset_timeout`. `free` and `tokens` are the limiter. `counted`
are the rows of `provider_usage` the budget counts; writing one may fail unnoticed. `calls` is
history. Clocks are abstracted to what they bring about (`Refill`, `Wake`, `CoolDown`). The cache
is left out: no process builds its gateway with one.

### IngestPages, Ingest and the code

A *sighting* says how a page mentions a row: as the fan the page is about (found by id only), as
a supporter (by id, then by username), as another node, or as an edge; and what it tells: whether
the descriptive columns are set, whether the Bandcamp id is, and whether the edge is a wish.
`IngestPages` translates each `ingest_*` function into the sequence of sightings it ensures.

A row's key stands for the fan, not for one of the three unique columns of `fans`: however a page
mentions a fan, it is one row. `Namesakes` are the rows of other fans who come under the same
username or address, as when a name has changed hands; an INSERT collides with them, too
(`Taken`), and the SELECT by id does not find them. Supporters without an id who would be taken
for a namesake are left out (`NamesakeAssumption`).

In `Ingest` a worker goes through such a sequence. `Look` is the SELECT, `Update` the filling in
of missing columns, `InsertNew`/`InsertCollides` the INSERT in its savepoint with what follows a
lost one, `Commit` the one commit of the page. `table` is what is committed, `mine[w]` what the
transaction has written; a SELECT sees both. Writers of a row or key wait for each other
(`Writable`); of a ring that waits, the database fails one (`Deadlocked`, `Retry`, `GiveUp` are
`_DB_RETRIES` in `process_one`); `Interrupt` is a time-out or a death. `After` is the order in
which one visit commits its pages. `landed`, `raced` and `refused` are history; `refused` holds
the rows on whose keys a page failed, `raced` the edges whose owner's sighting lost its INSERT to
a wish, which the mapper then leaves as it is.

### GraphStore

The store knows facts about rows: that a row is there, that its columns or its id are set, that
an edge is owned (`FactsOf`). `Land` is a page that lands as a whole: every row it mentions becomes
known, with facts that the page `Tells`, and none is forgotten. It need not add all it tells: a
sighting that loses its INSERT leaves the winner's row as it is. `Ingest!StoreSpec` instantiates it
with the committed table; what transactions do until they commit is stuttering.

### Curation and the code

The module is nearly all operators: `Seeds`, `Neighbours`, `Owners`, `Overlap`, `Damped`,
`EffectiveTags`, `TagProfile`, `Provenance` for the queries; `ExcludedItems`, `ExcludedBands`,
`FollowedHosts`, `Excluded` for `build_exclusions` and its two predicates; `Candidates`,
`Passing`, `Score`, `Key`, `Sorted`, `OnePerBand`, `Feed` for `compute_recommendations`;
`Unexplained` for `cold_start_diagnostics`, `Votes` and `BucketVotes` for the neighbour-size
report. Albums and tracks, which the code treats in parallel, are items with a kind. Scores are
whole numbers in ten-thousandths and the logarithm is a table. The steps are the surroundings:
the crawl learns of collections, wishlists, supporters and follows, and the user likes and
blocks. `seed_tags`, a facet of the seeds, is left out.

### Feed and the code

`rows` are pairs of an item and the curate that stored it. A curate is `Load` (the scan's row
with its generation), `Score`, `StartDelete`/`FinishDelete` (the DELETE sees what was committed
when it started and waits for rows that others have deleted), then `Store` or, if its INSERTs
meet rows that its DELETE has not seen, `Collide`. A dismissal is `Like` or `Block`, whose DELETE
starts, and `Dismissing`, which raises the generation in place and commits; `Unlike`, `Unblock`
and `Expire` take it back. `Accept`, `Refuse`, `CoolDown` and `Restart` are the recompute
endpoint with its per-process mark; a call that is refused late takes away whatever mark there is
(`restored`). A reader is `ReadTag`, then `ReadRows` or the two statements
of the facets. `Discover` is the crawl. `window`, `overlapped`, `raced` and `overwritten` are
history: `raced` says that the last store overlapped another change, `overwritten` that some
store raised a generation it had not read.

### TeamCycle and the code

A run goes through `Launch`, `Look`, `Lock` (`run-cycle.sh`: the recorded usage window, the pid
file), `Preflight`, `Claim` (the number), `Round`, `Rule`, `Design`, `Build` (branch and
worktree), `Develop`, `Review` and `Repair`, `Ship`, `Retro`, `Finish` (`state.json`), `Clean`
(the worktree). A turn of an agent is one step that ends well, with the usage window gone, or in
failure; what it decides is free. A dev whose turn was cut short at its cap ends well, as in
`ask`. `args` says how a run is started (`tick`, `now`, `hand`) and
with which options. `head` and `pushed` say of a branch's head and of what was pushed whether
the gates have seen it, or that QA, who may write in the worktree, has committed while they did.
`Interrupt` is Ctrl-C, which runs the `finally` block with the exit code 0; `Kill` runs nothing.
`CommitNotes`, `TurnWindow` and `Merge` are the surroundings. `broken`, `cut` and `overlapped` are
history: branches whose last dev failed or died, those whose last dev was interrupted or cut
short, and whether two cycles were ever under way together, which a start by hand does not
prevent. The retries within
a turn, prompts, transcripts and mails are left out.

## 3. The runs

| Run | Instance | What it shows |
|---|---|---|
| `frontier_crash` | PostgreSQL, fair; 2 pages, 2 workers, owner's page of 3 units with one bought page a visit, 2 time-outs; a budget that may run out, 1 death, 1 failed close | `TypeOK`, `ClaimExclusive`, `DoneIsComplete`, `EveryRowSettles`, `ChainEnds`, and the refinements `QueueSpec`, `WalkSpec` |
| `frontier_reuse` | no row locks, no death; 4 pages, 2 of them finished by another scan at any time, with stored rows that reveal less and more; a database retry, a budget | `NoSilentStrand`, `DoneIsComplete`, `ChainEndsDrained` |
| `fan_paging` | lists of up to 6 pages, 2 per visit, 3 interruptions, 1 step back to an older token, owner or not, fair | `TypeOK`, `CollectionComplete`, `BookmarkIsHonest`, `OnePageLostPerBreak`, `EntryEnds`, and the refinement `PagingSpec` |
| `scan_lifecycle` | collection or custom scan, 3 chains, 3 slices, 1 overtaken job, 2 re-runs, 2 kills, fair | `OneChain`, `ReclaimsOnlyTheDead`, `JobsWaitForExclusions`, `EveryRunEnds` |
| `gateway` | 2 workers, 2 providers, 1 slot, 1 token, 1 retry, circuits open at 2 failures; budget 1, 3 visits of up to 2 fetches | `SlotsAccounted`, `OpenCircuitSpared`, `BudgetBound` |
| `ingest` | 2 workers, 9 pages of every kind that share their rows, 3 visits, 2 attempts, fair | `PagesLandWhole`, `OwnershipWins`, `NoPageIsRefused`, `EveryVisitSettles`, and the refinement `StoreSpec` |
| `curation` | 3 fans, 5 items, 3 bands, 4 kinds of scans and settings; any 3 things learned or chosen | `FeedIsBestOfBands`, `OneMoreCoOwnerWins`, `ReportsAgree`, `CrawlingLowersNoScore` |
| `feed` | 2 items of a band each, 2 recomputes, 1 reader, 2 changes | `TypeOK`, `TagIsTruthful`, `FeedIsOneRanking`, `DismissedStayOut`, `CooldownHonoured` |
| `team_cycle` | 2 runs in three ways of starting them, 2 rounds, 2 repairs, 1 kill or interrupt | `NumbersAreSpent`, `OnlyGatedCommitsShip`, `BrokenWorkIsKept` |
| `frontier_stranded` | PostgreSQL, 1 death | finding 1 |
| `ingest_by_name` | as `ingest`, the page of supporters without ids | finding 2 |
| `team_forgets` | as `team_cycle`, no kill | finding 3 |

Every property of the runs that pass has a mutant: a definition of the model changed as a
plausible bug would change the code, with which TLC finds the property violated. Mutated forms
stand beside the definitions, marked as such.

What a run need not repeat is not in it: the types of the scans, the gateway, the ingest, the
ranking and the team are proved (section 5), and so is `NothingIsForgotten`, which `StoreSpec`
implies.

Deadlock is not checked: a finished crawl, a closed entry, a done scan, a spent number of visits
or changes are states in which the system, or the bound on it, really stops; that the crawl stops
only there is what the liveness properties say.

### The bounds and why they are enough

Two workers suffice for every race of the claim, of the limiter and of a row, which are between
two. The owner's page has three units and a budget of one bought page a visit (the render's
embedded list is free), so that first visit, resumption and completion all occur; the albums lead
to each other or to the same fan `f` and back to the owner, so discovery races and the owner's
exclusion occur; in `frontier_reuse` `f` lies at the depth bound. `MaxTimeouts` is 2 instead of
3, so that a row is queued again before it is given up; `DbRetries` is 1 or 2 instead of 3,
`ClaimAttempts` 2: each counter reaches its limit and, in one of the runs, one less.
`frontier_crash` has one album only, which is enough for a page that is found while another is read.
Attempts and ids stay finite because visits do. In `FanPaging` the lists are longer than a
visit's budget, and the budget is used up inside each list and exactly at its end; one step back
to an older token is what any longer cycle of the provider repeats.

In `gateway` one slot and one token make the two workers wait for each other at both; two
providers are what a fallback needs, two failures what tells counting from opening, a budget of
1 with visits of 2 what lets both workers overdraw it. In `ingest` three visits by two workers
let any page meet any other, in either order, and a third see what they left; the pages share
bands, albums, the track, the tag, the fans and the edges of both kinds, in orders that deadlock,
and one is the page of a fan who has taken another's username.
In `curation` one item of mine stands for 500 alike, so that the sum of tags comes as near to the
weight of a co-owner as it does in use; two items have the same id in the two tables, two items
share a band, one has none. `feed` has the two curates that any overlap is between and the two
changes that bring a generation back to where it was. `team_cycle` has a cycle and its successor,
or an overlapping one.

`MaxKills`, `MaxDbFaults`, `MaxBreaks`, `MaxBacks`, `MaxSpent`, `MaxOvertakes`, `MaxRuns`,
`Entries`, `Visits`, `Changes`, `MaxChanges` bound only how often trouble strikes or work comes;
they are guards of those actions and of nothing else. Symmetry is used where the instances are
symmetric and no liveness is checked: of the workers in `frontier_reuse`, `frontier_stranded` and
`gateway`; in `feed` the bands trade places with their items, and the recomputes trade places.

### Fairness

`WF(Work(w))`: the event loop runs every coroutine that can go on, and a fetch ends or times
out. `WF(Continue)`: ARQ runs an enqueued job and the cron polls. `WF(Visit)`: a pending entry is
claimed again and its visit goes on (which `frontier_crash` shows of the frontier).
`WF(Poll)`, `WF(GoCold)`, `WF(Job(c))`: the cron, time, and the queue. `WF(Step(w))` in `Ingest`:
a statement that need not wait is executed, and PostgreSQL sees every deadlock. No fairness is
assumed of anything that goes wrong, of the user, or of other scans, and no strong fairness
anywhere.

### Timing assumptions

* `GoStale` needs that nobody holds the row: 30 minutes is longer than any visit
  (`crawl_entry_seconds` 180, `job_timeout` 600).
* `GoCold` needs that no job is at work: `scan_stalled_after_seconds` 900 exceeds `job_timeout`,
  and a job writes the heartbeat as it starts. A job that waits in the queue may wait on.

That a job starts before the next poll is not assumed. `CrawlFrontier` has one slice at a time,
which `OneChain` establishes only until the poller overtakes a job that waits (section 4); what
two chains of one scan do to its frontier is not modelled.

## 4. Findings and observations

Where the code does something other than its own words say, a run shows it.

1. **A dead slice's rows are abandoned** (`frontier.py:283`, run `frontier_stranded`). The new
   chain starts after 15 minutes, a claim is reclaimed after 30, and the chain ends when nothing
   is PENDING. "The new chain picks up exactly where the dead one stopped" (`scan_service.py:147`)
   does not hold. `ChainEndIsTheEnd` (section 5) proves that a death or a lost closing commit is
   needed for rows to be left in a claim.
2. **A fan first met by name cannot be crawled** (`mapper.py:200`, run `ingest_by_name`). A
   supporter whom the page gives without an id is stored by username. When his own page comes,
   he is looked for by id only, his INSERT fails on the username, and so does every retry.
   `IdentifiedFansAreSafe` proves that, where ids are given, only a fan who comes under another
   fan's username or address is refused.
3. **A cycle forgets what an earlier one parked** (`cycle.py:1197`, run `team_forgets`). Every
   cycle writes `parked` as it knows it, and one that cuts no branch writes None over the branch
   that "a later cycle can resume" (`cycle.py:153`).

Five more statements of the code are false of the models, too. Each stands as a formula at the
end of its module; named in the cfg of the module's run, it is violated within seconds.

* **A job that waits is overtaken** (`scan_service.py:158`, `ScanLifecycle!ColdIsDead`). A scan runs
  from the moment its first job is enqueued, the heartbeat is written when the job starts, and
  none counts as a cold one. A job that waits past the next poll (a worker runs four) gets its
  scan a second chain: "a `running` scan whose heartbeat has gone cold has no chain behind it"
  (`scan_service.py:146-148`) does not hold.
* **A recompute shows a wrong feed** (`api/feed.py:562`, `ScanLifecycle!NoWrongFeed`). The endpoint
  curates without the guard on the owner's own collection, as soon as a first visit, perhaps a
  partial one, has linked the fan; "an early feed must not be a wrong one"
  (`scan_service.py:366-369`). `JobsKnowExclusions` proves that no job of a collection scan does so.
* **A custom scan trusts a scan that is not over** (`scan_service.py:405`,
  `ScanLifecycle!EarlierCollectionScan`). "Exclusions come from an earlier collection scan" is
  answered without looking for one; next to a collection scan that is still reading, it stores
  recommendations with the exclusions half known.
* **A dead slice can leave the owner unlinked** (`scan_service.py:334`,
  `ScanLifecycle!LinkedInTheEnd`). The fan's id is taken from the outcomes of the slice that visited
  the own page. If it dies after the page is done, nobody visits the page again, and every curate
  raises for want of the id.
* **An interrupt throws work away** (`cycle.py:1187`, `TeamCycle!StoppedWorkIsKept`). Ctrl-C is no
  `Exception`, so the `finally` block finds nothing parked and the exit code 0 and removes the
  worktree by force; so it does after a dev whose turn was cut short at its cap
  (`cycle.py:364-368`), if no gate blocks. The worktree was to be "left on disk"
  (`cycle.py:153-155`). `BrokenWorkStays` proves that a dev who fails or dies loses nothing.

Observations that follow from reading and modelling the code:

* **Frontier.** The compare-and-swap does not protect a stale claim (`frontier.py:188-194`): it
  compares the status, and a stale row is IN_PROGRESS before and after; on such a row SKIP LOCKED
  alone does. A scan whose request budget is spent is done with rows PENDING
  (`scan_service.py:352-353`). A failed closing commit is not recorded, although `runner.py:346`
  says "already recorded". `depth` is that of the first discoverer and not the distance from the
  seed.
* **Paging.** The owner's embedded wishlist or follows can be lost (`service.py:376-380`): the
  first of three commits already carries the tokens that skip them. An interruption before
  `mark_done` buys the whole fan page again (`service.py:321`): a bookmark of None means both
  "never visited" and "read out". A page that is bought is bought again if the visit is cut short
  before its commit (`service.py:389-394`). Only the echo of a token ends a list early: a provider
  that goes round older tokens is paged for ever (`service.py:254-257`).
* **Scan.** A re-run continues the slice count of the failed run
  (`scan_service.py:237`), since the poller has overwritten the status that the reset depends
  on; a scan that failed at the limit fails again at once. Running a done scan re-crawls nothing,
  although `api/scans.py:146` says "re-crawl its seeds": `enqueue` finds the closed rows.
* **Gateway.** A success that was under way when the quota ran out closes the circuit that the
  quota opened (`circuit.py:37-39`). A call that is cancelled or brings a malformed body leaves no
  usage row, so the budget does not count it; a cancellation while a quota stop is being logged
  skips the opening of the circuit. `RedisCache` is never wired.
* **Ingest.** A wish that wins the race for an edge stays a wish, though the owner's page is
  committed after it (`mapper.py:242-251`); the next visit of that page puts it right.
* **Feed.** Two curates of one scan that overlap store under one generation, so that a cached
  response can pass for the present one (`engine.py:807`; the ghost `overwritten`). An
  `IntegrityError` of concurrent curates keeps the cooldown mark, although `feed.py:557-558`
  speaks of rolling it back; a call that is refused after its cooldown has passed takes another
  call's mark away (`feed.py:565-570`). A like that waits behind a curate's DELETE misses the new
  rows.
* **Curation.** The wishlist rows of neighbours who are users themselves count as co-ownership
  (`engine.py:482-517`, `617-629`), which `engine.py:3-5` does not say. `seed_tags` (`848-882`)
  bypasses the band's tags that the ranking falls back on. The vote counts are not "only votes
  that actually reach the feed" (`915`): floor, tag filter and one per band come after them.
* **Team.** A blocked head can merge: a later cycle that is blocked pushes to a pull request on
  which an earlier one has armed auto-merge, and only adds a label (`cycle.py:936-950`). Every
  cycle dirties tracked files, so that the next preflight refuses until the operator commits. The
  status that `run-cycle.sh:132-133` reads after `|| true` is always 0. QA has the tools to
  commit in the worktree while the gates judge it (`cycle.py:850`). A cycle started by hand over
  another may write its number back.

## 5. What is proved

All for arbitrary constants, from the named assumptions of the modules, which TLC evaluates in
every run. The leaves are found by Z3, Zenon and LS4; nothing is taken on trust.

### Frontier (`CrawlFrontierProofs`)

* `TypeCorrect`: types and the table's key. Ids are distinct because `Enqueue` gives a new row
  the last id plus its index in the list, and lists name no page twice (`EnqueueKeepsKeys`).
* `ClaimIsExclusive` and `PendingCountsAllWork`, under
  `ExclusionHolds == SkipLocked \/ (MaxKills = 0 /\ MaxDbFaults = 0)`: either row locks or no
  abandoned claims. `ClaimExclusive` is not inductive: a worker about to UPDATE must be known to
  match a row that nobody holds. `ClaimInv` adds that held rows are IN_PROGRESS and not stale
  (`HeldIsClaimed`); that a status read was eligible (`SeenWasEligible`); that with locks the row
  still is as it was read, for that worker alone (`LockProtects`); and that an IN_PROGRESS row
  is held until something is killed or lost (`NoSilentStrand`), so that without locks eligible
  means PENDING and the comparison of statuses tells a claimed row.
* `FrontierIsAQueue`, under the same proviso: from `ClaimInv` every step is one of the queue's:
  the claim of a free row is `Take`, a visit's enqueue `Add`, done and error `Settle`; partial,
  parked for retry and a lost commit are `PutBack`, a death `LoseAll`, the rest stutters.
* `ChainEndIsTheEnd`, for `MaxKills = 0` and `MaxDbFaults = 0`: `EndChain` sees no PENDING row or
  a spent budget, and by `NoSilentStrand` an IN_PROGRESS row would have a holder, while all
  workers are off. So every row is settled, except that rows may be PENDING if the budget is spent.
* `DoneRowsLostNothing`, without any proviso: `KeptInv` says that neither the bookmark nor a
  visit's place ever runs ahead of the commits. Whatever a bookmark covers is ingested and what it
  reveals is queued (`BookmarkCovers`); a visit is covered up to its place in the same sense
  (`VisitCovers`); so one that is read out, or replayed from another scan's rows, closes a
  complete page, even if two workers were on it.
* `RowsAreReadInOrder`, under `ExclusionHolds`: `WalkInv` adds to the two invariants above that the
  bookmark of a row under visit is that of the visit's last unit (`VisitsInStep`), which needs the
  visitor to be the only one, and that a bookmark is short of the last unit (`BookmarksWithin`).
  Then `ReadUnit` is `Commit`, `MarkDone` is `Close`, `Fail` and a spent `Timeout` are `GiveUp`, and
  `MarkPartial` writes the bookmark that is there already. Without exclusion two visits would take
  turns in moving the bookmark back. A row of another scan's page is closed without being read;
  `DoneRowsLostNothing` covers it.

### Paging and scans (`FanPagingProofs`, `ScanLifecycleProofs`)

* `PagingTypeCorrect`, `BookmarkStaysHonest`, `DoneCollectionIsComplete`: `CoverInv` says that
  whoever pages on from the bookmark, or from a visit's tokens past the embedded collection,
  misses no page of the collection, and that a done entry covers without any token.
* `CollectionIsReadInOrder`: `ReadingInv` adds that, from the embedded page on, the bookmark is the
  visit's tokens (`SyncInv`), and that tokens and pages are those of the list (`WithinInv`). A page
  of another list leaves the token of the collection where it was, and an echo ends the list.
* `ResumingLosesOnePage`: pages bought are pages committed, but for one for each interruption and
  the one in hand or lost to a failure. `BuyInv` says that no page beyond the tokens has been
  committed since the render, so that a commit adds to what is committed, as long as the provider
  goes back to no older token.
* `ScanTypeCorrect`; `ChainIsSingle`, `PollerSparesTheLiving` as long as no waiting job has been
  overtaken: `ChainInv` adds that what is alive shows in the status the poller reads, and what is
  at work in the heartbeat. The premise is about what has happened and not about timing; the poller
  that overtakes is a step of the model.
* `JobsKnowExclusions`: a job that curates has checked the exclusions, and they never become
  unknown again; no premise, so it holds of two chains, too. Of the recompute endpoint and of
  custom scans it does not hold (section 4).

### Gateway (`GatewayProofs`)

* `GatewayTypeCorrect`, `NoSlotLeaks`: `GatewayInv` carries `SlotsAccounted` with the types,
  because only the account of the slots bounds the free ones.
* `ClosedCircuitsAreTrusted`: `BreakerCoherent`, which no run checks.
* `BudgetIsBounded` and `OpenCircuitIsSpared` bound sums over the workers. The sum is the
  cardinality of a set of pairs of a worker and one of its chances: the fetches that visits under
  way may yet make (`Due`), and the calls that a worker at a provider may yet begin there
  (`Owed`). A step that spends a chance takes at least one pair out of the set (`PairTaken`), and
  no other step of the same circuit or budget adds one.

### Ingest (`IngestProofs`)

* `IngestTypeCorrect`, `PagesAreAtomic`, `OwnershipPrevails`, `KnowledgeGrows`: `IngestInv` has
  the types, the workers' places (`PlaceInv`), what a transaction wrote (`OwnInv`: of its page,
  by nobody else, covering the committed row) and what it has passed (`SeenInv`: all of it is
  there for it to see, and no wish where the page showed an owner, unless `raced`). Waiting for
  the writer of a row is what keeps a row covered between its SELECT and the commit.
* `IdentifiedFansAreSafe`: if whoever mentions a fan with a page gives the id, then a page is
  refused only on a fan who has namesakes, for rows of such fans have the id from their first INSERT
  on, and only a namesake's row is in the way of an INSERT that found none.
* `WorkersMakeUpAStore`: `MadeInv` says that what a transaction has written is made of what is
  committed and of what its page tells, `OrderInv` that a page is begun only after those that its
  visit reads before. With `IngestInv` (a row that a transaction has written covers the committed
  one, and by its end all that it mentions is there) a `Commit` is `Land`, and no other step
  changes a committed row.

### Curation (`CurationProofs`)

The theorems are about sums and a fold over data of any size. An induction needs an operator as
a parameter, which the provers cannot instantiate; a well-founded set has a least member all the
same, so where the fold and its closed form differed there would be a least set on which they do,
and there is none. In this way a sum over a finite set is the cardinality of a set of pairs
(`SumIsPairs`), so that sums are compared by inclusions and injections; and what the loop keeps is
the rows that are the first of their band (`OnePerBandKeeps`). A list in the order of the keys
exists because everyone has a rank (`Ranks`, `Listing`). `CurationAssumption` says what the tables
are: ids that are unique per kind, finite sets, a logarithm that does not decrease.

* `CurationTypeCorrect`.
* `OneMoreCoOwnerAlwaysWins`, under `TagsLight`: the logarithm of a tag affinity is under 10. The
  code argues the same from the size of a collection (`engine.py:53-56`); it holds up to 22,025
  matches, and beyond them the statement fails. An item with all the co-owners of another and one
  more outweighs it by that one's weight, at least a whole point, and the tags by less.
* `CrawlingLowersNone`: whoever is learned to own more is still a neighbour and weighs no less; the
  seeds, and with them the tag profile, are the user's own.
* `ReportsAlwaysAgree`: an item is excluded exactly if the diagnosis has a reason for it, and the
  votes of the two buckets of neighbours add up to those of the ranking, since both count the pairs
  of a neighbour and an item that is not excluded.
* `FeedAlwaysBest`: the keys order the items strictly and totally (`BeforeOrders`), because an id
  is unique within its kind and the kind is in the key. The sorted list is then one whatever order
  the rows come in (`SortingOrders`), and what is kept of it is the first of each band.

### Feed (`FeedProofs`)

* `FeedTypeCorrect`, in four parts.
* `ReadersAreNotDeceived`: `TagInv` says that, until some curate is `overwritten`, no tag is above
  the present generation, and what was read under the present one is the present feed, also in a
  facet request half way. Every step that changes rows raises the generation past every tag.
* `UndisturbedFeedIsOneRanking`, `DismissedBandsStayOut`: `RankingInv` says that a curate which
  nothing overlapped still has the exclusions and the rows in hand as they are (`Undisturbed`),
  and that after such a store the feed is that curate's ranking and a dismissal under way has
  found all it must prune (`Ranked`). `raced` and `overwritten` are thus the price of computing
  first and storing later.
* `OneCallPerCooldown`: a call in the window keeps the mark there, and with it every other out,
  until one that waited beyond its own cooldown is refused (`restored`).

### Team (`TeamCycleProofs`)

* `TeamTypeCorrect`, `NumbersAreNotReused`, `NothingShipsUngated`, `BrokenWorkStays`: unless
  `overlapped`, at most one run is under way; `state.json` holds the highest number claimed; a run
  that ships is at a head which the gates have seen, but for what QA committed while they did; a
  run that has gone well is on a branch whose last dev has not failed, run out of the usage window
  or died. Devs that are interrupted or cut short are not covered (section 4). The premise is
  necessary: a start by hand looks at no pid file.

### Only model-checked

All liveness (`EveryRowSettles`, `ChainEnds`, `EntryEnds`, `EveryRunEnds`, `EveryVisitSettles`),
which is out of the prover's reach. What `IngestPages` makes of a page: `IngestProofs` holds for
any sightings instead. And what section 4 reports:
the three findings have runs of their own.

## 6. Not modelled, and why

* **Page parsing and pagination clients** (`bandcamp/parse.py`, the `*_api.py` clients, `urls.py`):
  decoding and plain requests without state. What they return is an input of `CrawlFrontier`
  (`Links`), `FanPaging` (tokens) and `Ingest` (`Parsed`).
* **Authentication**: tokens and hashing are library calls. The one piece of state, the count of
  failed logins, is one read and one write in a short transaction; that two simultaneous failures
  count once is listed as a hazard and is all there is to it.
* **Collection and health API, wiring**: read-only queries.
* **Migrations**: they run alone, before the program does.
* **Seeding and operator scripts**: command-line entry points over the same operations. With them
  the legacy chain of the job worker (`seed_crawl`, `crawl_next`), one job at a time over the
  same `process_one`.
* **Frontend**: copies of what the API returns; the one copy with a protocol, a response cached
  under its ETag, is the reader of `Feed`.
* **Parts of modelled components**: the frontier's size cap and `kinds` filter; the gateway's
  cache; `seed_tags`; workers left behind when the budget's query raises, and a second chain on
  one frontier; supporters without an id who would be taken for a namesake; filters, paging and
  statistics of the feed's endpoints; the read-then-write of the poller and of `POST run`, which
  is one step here; the retries within an agent's turn. The hazards these bring are in
  `PROJECT.json`, each with the reason why no property covers it.
