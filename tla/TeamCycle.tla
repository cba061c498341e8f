------------------------------- MODULE TeamCycle -------------------------------
(***************************************************************************)
(* The orchestrator of the agent team.  launchd's tick (or the operator)   *)
(* starts run-cycle.sh, which starts cycle.py unless the usage window is   *)
(* still the one recorded or another run holds the pid file; the operator  *)
(* may start cycle.py by hand, past both.  A cycle claims its number, and  *)
(* goes through its phases: grooming, design, build on a branch and its    *)
(* worktree, the gates with their repair passes, ship, retro.  Whatever    *)
(* stops it, an interrupt included, it ends by writing state.json and by   *)
(* removing the worktree of work that is not parked; unless it is killed.  *)
(*                                                                         *)
(* A turn of an agent is a step with one of three ends (the retries within *)
(* it are abstracted): "ok", the window is gone, or a failure.  A dev that *)
(* was cut short at the cap of its turn ends ok, too.  What the agents     *)
(* decide is free.  git and GitHub are modelled by their effects.          *)
(***************************************************************************)
EXTENDS Naturals

CONSTANTS
  Runs,        \* the runs there are; the branch that one cuts has its name
  Starts,      \* how they may be started: by whom each, and with which options
  None,
  MaxRounds,   \* MAX_GROOMING_ROUNDS
  MaxRepairs,  \* MAX_REPAIR_PASSES
  MaxKills     \* bound: runs killed or interrupted

ASSUME TeamAssumption ==
  /\ None \notin Runs
  /\ Starts \subseteq [Runs -> [by : {"tick", "now", "hand"}, force : BOOLEAN,
                                dry : BOOLEAN, last : 1 .. 7]]
  /\ {MaxRounds, MaxRepairs, MaxKills} \subseteq Nat

VARIABLES
  args,       \* how each run is started
  pc,         \* where each run is
  cycle,      \* what each run holds in memory
  file,       \* state.json; ahead: its resets_at has not come yet
  lock,       \* the run whose pid is in .cycle.pid
  dirty,      \* the checkout has changes that are not committed
  trees,      \* the branches with a worktree on disk
  head,       \* per branch: what the gates said of its head ("new": nothing yet;
              \* "touched": it is not the one they judged, QA having committed on top)
  pushed,     \* per branch: the same, of the head that was pushed
  pr,         \* per branch: its pull request
  broken,     \* branches whose last dev failed, or died, in its turn (history)
  cut,        \* branches whose last dev was interrupted, or cut short at its cap (history)
  overlapped, \* two cycles were under way together (history)
  kills       \* runs killed or interrupted

repoVars == <<trees, head, pushed, pr, broken, cut>>
startVars == <<file, lock, dirty, overlapped>>
vars == <<args, pc, cycle, startVars, repoVars, kills>>

NoState == [number |-> 0, parked |-> None, ahead |-> FALSE]

NoCycle == [number |-> 0, seen |-> NoState, branch |-> None, resume |-> None, rounds |-> 0,
            repairs |-> 0, review |-> "skipped", qa |-> "skipped", exit |-> "fine", ahead |-> FALSE]

Init ==
  /\ args \in Starts
  /\ pc = [r \in Runs |-> "off"] /\ cycle = [r \in Runs |-> NoCycle]
  /\ file = NoState
  /\ lock = None /\ dirty = FALSE
  /\ trees = {} /\ head = [b \in Runs |-> "none"] /\ pushed = [b \in Runs |-> "none"]
  /\ pr = [b \in Runs |-> "none"] /\ broken = {} /\ cut = {}
  /\ overlapped = FALSE /\ kills = 0

Alive(r) == pc[r] \notin {"off", "out", "dead"}
UnderWay(r) == Alive(r) /\ pc[r] \notin {"look", "lock", "preflight"}

GoTo(r, place) == pc' = [pc EXCEPT ![r] = place]

\* The process is gone; its number is remembered for the properties.
Forget(r) == cycle' = [cycle EXCEPT ![r] = [NoCycle EXCEPT !.number = cycle[r].number]]

\* The run's exit; the script's trap removes the pid file, whosever it is.
Exit(r) ==
  /\ GoTo(r, "out")
  /\ lock' = IF args[r].by = "hand" THEN lock ELSE None

-----------------------------------------------------------------------------
(* The start of a run.                                                     *)

\* launchd runs one process of a job at a time.
Launch(r) ==
  /\ pc[r] = "off"
  /\ args[r].by = "tick" => \A s \in Runs : args[s].by = "tick" => ~Alive(s)
  /\ GoTo(r, IF args[r].by = "hand" THEN "preflight"
             ELSE IF args[r].by = "tick" /\ file.ahead THEN "out" ELSE "look")
  /\ UNCHANGED <<args, cycle, startVars, repoVars, kills>>

Look(r) ==
  /\ pc[r] = "look"
  /\ GoTo(r, IF lock # None /\ Alive(lock) THEN "out" ELSE "lock")
  /\ UNCHANGED <<args, cycle, startVars, repoVars, kills>>

Lock(r) ==
  /\ pc[r] = "lock"
  /\ lock' = r /\ GoTo(r, "preflight")
  /\ UNCHANGED <<args, cycle, file, dirty, overlapped, repoVars, kills>>

\* preflight, where the dirty tree is one problem of several; then state.json is read.
Preflight(r) ==
  /\ pc[r] = "preflight"
  /\ \E problems \in BOOLEAN :
       /\ dirty => problems
       /\ IF problems /\ ~args[r].force
            THEN Exit(r) /\ UNCHANGED <<cycle, overlapped>>
            ELSE /\ GoTo(r, "claim")
                 /\ cycle' = [cycle EXCEPT ![r].seen = file]
                 /\ overlapped' = (overlapped \/ \E s \in Runs : UnderWay(s))
                 /\ UNCHANGED lock
  /\ UNCHANGED <<args, file, dirty, repoVars, kills>>

Claiming(r) ==
  /\ pc[r] = "claim"
  /\ cycle' = [cycle EXCEPT ![r].number = cycle[r].seen.number + 1]
  /\ dirty' = TRUE
  /\ GoTo(r, IF args[r].last < 2 THEN "finish" ELSE "groom")
  /\ UNCHANGED <<args, lock, overlapped, repoVars, kills>>

\* Mutant: the number is not written until the cycle ends.
ClaimLater(r) == Claiming(r) /\ UNCHANGED file

\* The number is written at once, with the rest of the state as it was read.
Claim(r) ==
  /\ Claiming(r)
  /\ file' = [cycle[r].seen EXCEPT !.number = @ + 1]

-----------------------------------------------------------------------------
(* The phases.                                                             *)

Ends == {"ok", "budget", "failure"}

\* ask: the run as it is after a turn, which told when the usage window resets.
Asked(r, end) ==
  [cycle[r] EXCEPT !.ahead = TRUE, !.exit = IF end = "ok" THEN @ ELSE end]

\* After phase n the cycle goes on to place, unless it was to go no further.
Onward(r, n, place) == IF args[r].last > n THEN place ELSE "finish"

\* One round of grooming, after the proposals if it is the first.
Round(r) ==
  /\ pc[r] = "groom"
  /\ \E end \in Ends, more \in BOOLEAN :
       /\ cycle' = [cycle EXCEPT ![r] = [Asked(r, end) EXCEPT !.rounds = @ + 1]]
       /\ GoTo(r, IF end # "ok" THEN "finish"
                  ELSE IF more /\ cycle[r].rounds + 1 < MaxRounds THEN "groom" ELSE "rule")
  /\ UNCHANGED <<args, startVars, repoVars, kills>>

\* The ruling: build or not, and on which branch of those that the standup named.
Rule(r) ==
  /\ pc[r] = "rule"
  /\ \E end \in Ends, build \in BOOLEAN,
        resume \in {None, cycle[r].seen.parked} \cup {b \in Runs : pr[b] \in {"open", "armed"}} :
       /\ cycle' = [cycle EXCEPT ![r] = [Asked(r, end) EXCEPT !.resume = resume, !.rounds = 0, !.seen = NoState]]
       /\ GoTo(r, IF end = "ok" /\ build THEN Onward(r, 2, "design") ELSE "finish")
  /\ UNCHANGED <<args, startVars, repoVars, kills>>

Design(r) ==
  /\ pc[r] = "design"
  /\ \E end \in Ends :
       /\ cycle' = [cycle EXCEPT ![r] = Asked(r, end)]
       /\ GoTo(r, IF end = "ok" THEN Onward(r, 3, "build") ELSE "finish")
  /\ UNCHANGED <<args, startVars, repoVars, kills>>

\* The worktree: that of the branch to resume, if it is there, or a new one.  The fetch
\* and git worktree may fail, the first before the cycle has a branch.
Build(r) ==
  LET resumes == cycle[r].resume # None /\ head[cycle[r].resume] # "none"
      b == IF resumes THEN cycle[r].resume ELSE r
  IN /\ pc[r] = "build"
     /\ \E fails \in {"no", "fetch", "worktree"} :
          /\ fails = "worktree" => b \notin trees
          /\ cycle' = [cycle EXCEPT ![r] =
                         [cycle[r] EXCEPT !.branch = IF fails = "fetch" THEN None ELSE b,
                                          !.exit = IF fails = "no" THEN cycle[r].exit ELSE "failure"]]
          /\ IF fails = "no"
               THEN /\ trees' = trees \cup {b}
                    /\ broken' = broken \ {b} /\ cut' = cut \ {b}
                    /\ head' = [head EXCEPT ![b] = IF resumes THEN @ ELSE "new"]
                    /\ GoTo(r, "develop")
               ELSE GoTo(r, "finish") /\ UNCHANGED <<trees, broken, cut, head>>
     /\ UNCHANGED <<args, startVars, pushed, pr, kills>>

\* The repair passes made, with the one at hand.
Passes(r) == cycle[r].repairs + (IF pc[r] = "repair" THEN 1 ELSE 0)

\* A dev at work in the tree, for the design or for a repair.  It is not asked for
\* structured output, so a turn that was cut short at its cap counts like a whole one.
Work(r, place) ==
  LET b == cycle[r].branch
  IN \E end \in Ends, whole \in BOOLEAN :
       /\ cycle' = [cycle EXCEPT ![r] = [Asked(r, end) EXCEPT !.repairs = Passes(r)]]
       /\ head' = [head EXCEPT ![b] = "new"]
       /\ broken' = IF end = "ok" THEN broken \ {b} ELSE broken \cup {b}
       /\ cut' = IF end = "ok" /\ ~whole THEN cut \cup {b} ELSE cut \ {b}
       /\ GoTo(r, IF end = "ok" THEN place ELSE "finish")
       /\ UNCHANGED <<args, startVars, trees, pushed, pr, kills>>

Develop(r) == pc[r] = "develop" /\ Work(r, Onward(r, 4, "review"))

Blocked(c) == c.review = "block" \/ c.qa = "block"

MayRepair(c) == c.repairs < MaxRepairs

\* Mutant: the last repair ships without being gated again.
LastUngated(r) == IF cycle[r].repairs + 1 < MaxRepairs THEN "review" ELSE "ship"

\* A repair is gated again.
AfterRepair(r) == "review"

\* The gates, together; a turn of theirs that breaks off leaves no new verdicts.  QA may
\* write in the tree, and commit while the reviewers read.
Review(r) ==
  /\ pc[r] = "review"
  /\ \E end \in Ends, review, qa \in {"pass", "block"}, touches \in BOOLEAN :
       LET c == [Asked(r, end) EXCEPT !.review = review, !.qa = qa]
       IN IF end = "ok"
            THEN /\ cycle' = [cycle EXCEPT ![r] = c]
                 /\ head' = [head EXCEPT ![c.branch] =
                               IF touches THEN "touched" ELSE IF Blocked(c) THEN "blocked" ELSE "green"]
                 /\ GoTo(r, IF Blocked(c) /\ MayRepair(c) THEN "repair" ELSE Onward(r, 5, "ship"))
            ELSE /\ cycle' = [cycle EXCEPT ![r] = Asked(r, end)]
                 /\ GoTo(r, "finish") /\ UNCHANGED head
  /\ UNCHANGED <<args, startVars, trees, pushed, pr, broken, cut, kills>>

Repair(r) == pc[r] = "repair" /\ Work(r, AfterRepair(r))

\* The push is checked, gh is not.  Blocked work gets a label and keeps the auto-merge
\* that its pull request may have.
Ship(r) ==
  LET b == cycle[r].branch
  IN /\ pc[r] = "ship"
     /\ IF args[r].dry
          THEN GoTo(r, Onward(r, 6, "retro")) /\ UNCHANGED <<cycle, pushed, pr>>
          ELSE \E pushes, answers \in BOOLEAN :
                 IF pushes
                   THEN /\ pushed' = [pushed EXCEPT ![b] = head[b]]
                        /\ pr' = [pr EXCEPT ![b] =
                                    IF ~answers THEN @
                                    ELSE IF Blocked(cycle[r]) /\ @ # "armed" THEN "open"
                                    ELSE "armed"]
                        /\ GoTo(r, Onward(r, 6, "retro")) /\ UNCHANGED cycle
                   ELSE /\ cycle' = [cycle EXCEPT ![r].exit = "failure"]
                        /\ GoTo(r, "finish") /\ UNCHANGED <<pushed, pr>>
     /\ UNCHANGED <<args, startVars, trees, head, broken, cut, kills>>

Retro(r) ==
  /\ pc[r] = "retro"
  /\ \E end \in Ends : cycle' = [cycle EXCEPT ![r] = Asked(r, end)]
  /\ GoTo(r, "finish")
  /\ UNCHANGED <<args, startVars, repoVars, kills>>

-----------------------------------------------------------------------------
(* The end of a cycle.                                                     *)

\* Mutant: a cycle that broke off has parked nothing.
BlockedOnly(c) == c.branch # None /\ Blocked(c)

Parked(c) == c.branch # None /\ (c.exit # "fine" \/ Blocked(c))

\* The state is written as this cycle knows it.
Finish(r) ==
  /\ pc[r] = "finish"
  /\ file' = [number |-> cycle[r].number, ahead |-> cycle[r].ahead,
              parked |-> IF Parked(cycle[r]) THEN cycle[r].branch ELSE None]
  /\ dirty' = TRUE
  /\ GoTo(r, "clean")
  /\ UNCHANGED <<args, cycle, lock, overlapped, repoVars, kills>>

Clean(r) ==
  /\ pc[r] = "clean"
  /\ trees' = IF Parked(cycle[r]) THEN trees ELSE trees \ {cycle[r].branch}
  /\ Exit(r) /\ Forget(r)
  /\ UNCHANGED <<args, file, dirty, overlapped, head, pushed, pr, broken, cut, kills>>

\* The machine dies, or the process is killed: no finally, no trap.
Kill(r) ==
  /\ Alive(r) /\ kills < MaxKills
  /\ kills' = kills + 1 /\ GoTo(r, "dead") /\ Forget(r)
  /\ broken' = IF pc[r] \in {"develop", "repair"} THEN broken \cup {cycle[r].branch} ELSE broken
  /\ UNCHANGED <<args, startVars, trees, head, pushed, pr, cut>>

\* Ctrl-C in the operator's terminal.  It is no Exception: the finally runs with the exit
\* code 0, and with the verdicts of a review that has returned.
Interrupt(r) ==
  /\ pc[r] \in {"groom", "rule", "design", "build", "develop", "review", "repair", "ship", "retro"}
  /\ args[r].by # "tick"
  /\ kills < MaxKills /\ kills' = kills + 1
  /\ cycle' = IF pc[r] \in {"review", "repair"}
                THEN [cycle EXCEPT ![r] = [cycle[r] EXCEPT !.review = "skipped", !.qa = "skipped"]]
                ELSE cycle
  /\ cut' = IF pc[r] \in {"develop", "repair"} THEN cut \cup {cycle[r].branch} ELSE cut
  /\ GoTo(r, "finish")
  /\ UNCHANGED <<args, startVars, trees, head, pushed, pr, broken>>

-----------------------------------------------------------------------------
(* The surroundings.                                                       *)

\* The operator commits what the cycles wrote.
CommitNotes ==
  /\ dirty /\ dirty' = FALSE
  /\ UNCHANGED <<args, pc, cycle, file, lock, overlapped, repoVars, kills>>

\* The usage window turns over: no resets_at that was recorded lies ahead any more.
TurnWindow ==
  /\ file' = [file EXCEPT !.ahead = FALSE]
  /\ cycle' = [r \in Runs |-> [cycle[r] EXCEPT !.ahead = FALSE, !.seen = [cycle[r].seen EXCEPT !.ahead = FALSE]]]
  /\ UNCHANGED <<args, pc, lock, dirty, overlapped, repoVars, kills>>

\* CI passes on a pull request with auto-merge.
Merge(b) ==
  /\ pr[b] = "armed" /\ pr' = [pr EXCEPT ![b] = "merged"]
  /\ UNCHANGED <<args, pc, cycle, startVars, trees, head, pushed, broken, cut, kills>>

Step(r) ==
  \/ Launch(r) \/ Look(r) \/ Lock(r) \/ Preflight(r) \/ Claim(r)
  \/ Round(r) \/ Rule(r) \/ Design(r) \/ Build(r) \/ Develop(r)
  \/ Review(r) \/ Repair(r) \/ Ship(r) \/ Retro(r) \/ Finish(r) \/ Clean(r)

Next ==
  \/ \E r \in Runs : Step(r) \/ Kill(r) \/ Interrupt(r) \/ Merge(r)
  \/ CommitNotes \/ TurnWindow

Spec == Init /\ [][Next]_vars

-----------------------------------------------------------------------------
(* Properties.                                                             *)

State == [number : Nat, parked : Runs \cup {None}, ahead : BOOLEAN]

Cycle ==
  [number : Nat, seen : State, branch : Runs \cup {None}, resume : Runs \cup {None},
   rounds : Nat, repairs : Nat, review : {"skipped", "pass", "block"},
   qa : {"skipped", "pass", "block"}, exit : {"fine", "budget", "failure"}, ahead : BOOLEAN]

\* The types.
TypeOK ==
  /\ args \in Starts
  /\ pc \in [Runs -> {"off", "look", "lock", "preflight", "claim", "groom", "rule", "design",
                     "build", "develop", "review", "repair", "ship", "retro", "finish", "clean",
                     "out", "dead"}]
  /\ cycle \in [Runs -> Cycle]
  /\ file \in State
  /\ lock \in Runs \cup {None} /\ dirty \in BOOLEAN
  /\ trees \subseteq Runs /\ broken \subseteq Runs /\ cut \subseteq Runs
  /\ head \in [Runs -> {"none", "new", "green", "blocked", "touched"}]
  /\ pushed \in [Runs -> {"none", "new", "green", "blocked", "touched"}]
  /\ pr \in [Runs -> {"none", "open", "armed", "merged"}]
  /\ overlapped \in BOOLEAN /\ kills \in 0 .. MaxKills

Claimed(r) == cycle[r].number > 0

\* A cycle's number is its own, though cycles are killed: "a crashed run should still
\* consume its number".  (Cycles that overlap may write the number back: overlapped.)
NumbersAreSpent ==
  overlapped \/ \A r, s \in Runs :
    r # s /\ Claimed(r) /\ Claimed(s) => cycle[r].number # cycle[s].number

\* What is pushed is what the gates judged, but for what QA committed while they did: no
\* repair ships unseen.
OnlyGatedCommitsShip == overlapped \/ \A b \in Runs : pushed[b] # "new"

\* A worktree in which a dev has failed, run out of the window or died stays on disk, with
\* what was not committed, until a later cycle takes the branch up, whatever stops that one.
BrokenWorkIsKept ==
  [][overlapped \/ \A b \in trees \ trees' : b \notin broken]_vars

\* What the code says and does not do: a parked worktree "is deliberately left on disk [...]
\* so a later cycle can resume it instead of redoing the work in a fresh one".  An
\* interrupted cycle has parked nothing, and one whose dev was cut short has not, either.
StoppedWorkIsKept ==
  [][overlapped \/ \A b \in trees \ trees' : b \notin broken \cup cut]_vars

\* "It'll pick back up automatically and finish this next time": when no run is at work,
\* the branch of a worktree that was kept is the one that state.json names.
ParkedIsRemembered ==
  ~overlapped /\ (\A r \in Runs : ~Alive(r)) => \A b \in trees : file.parked = b
=============================================================================
