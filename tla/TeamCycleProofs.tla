---------------------------- MODULE TeamCycleProofs ----------------------------
(* Proofs about TeamCycle, for any runs, ways of starting them and bounds.      *)
EXTENDS TeamCycle, TLAPS

\* The types in two parts.
RepoType ==
  /\ trees \subseteq Runs /\ broken \subseteq Runs /\ cut \subseteq Runs
  /\ head \in [Runs -> {"none", "new", "green", "blocked", "touched"}]
  /\ pushed \in [Runs -> {"none", "new", "green", "blocked", "touched"}]
  /\ pr \in [Runs -> {"none", "open", "armed", "merged"}]

Places == {"off", "look", "lock", "preflight", "claim", "groom", "rule", "design", "build",
           "develop", "review", "repair", "ship", "retro", "finish", "clean", "out", "dead"}

RunType ==
  /\ args \in Starts /\ pc \in [Runs -> Places] /\ cycle \in [Runs -> Cycle]
  /\ file \in State /\ lock \in Runs \cup {None} /\ dirty \in BOOLEAN
  /\ overlapped \in BOOLEAN /\ kills \in 0 .. MaxKills

\* The two parts make up the types.
LEMMA TeamTypes == TypeOK <=> RunType /\ RepoType
  BY DEF TypeOK, RunType, RepoType, Places

\* Where a cycle has a branch.
BranchAt ==
  \A r \in Runs :
    /\ pc[r] \in {"off", "look", "lock", "preflight", "claim", "groom", "rule", "design", "build"}
         => cycle[r].branch = None
    /\ pc[r] \in {"develop", "review", "repair", "ship"} => cycle[r].branch \in Runs

TeamType == TypeOK /\ BranchAt

\* How a run may be started.
LEMMA StartTypes ==
  ASSUME TypeOK, NEW r \in Runs
  PROVE  /\ args[r].by \in {"tick", "now", "hand"} /\ args[r].force \in BOOLEAN
         /\ args[r].dry \in BOOLEAN /\ args[r].last \in 1 .. 7
  <1>1. args \in [Runs -> [by : {"tick", "now", "hand"}, force : BOOLEAN, dry : BOOLEAN, last : 1 .. 7]]
    BY TeamAssumption DEF TeamAssumption, TypeOK
  <1> QED
    BY <1>1

\* What a run holds before it has claimed a number, and state.json before the first cycle.
LEMMA NoCycleType == NoState \in State /\ NoCycle \in Cycle
  <1>1. NoState \in State
    BY DEF NoState, State
  <1> QED
    BY <1>1 DEF NoCycle, Cycle

\* At the start the types hold, and no cycle has a branch.
LEMMA TeamInitType == Init => TeamType
  <1> SUFFICES ASSUME Init PROVE TeamType
    OBVIOUS
  <1>1. 0 \in 0 .. MaxKills
    BY TeamAssumption DEF TeamAssumption
  <1>2. RunType
    BY <1>1, NoCycleType DEF Init, RunType, Places
  <1>3. RepoType
    BY DEF Init, RepoType
  <1>4. BranchAt
    BY DEF Init, BranchAt, NoCycle
  <1> QED
    BY <1>2, <1>3, <1>4, TeamTypes DEF TeamType

\* A step of r is one of r alone.
Alone(r) == \A s \in Runs \ {r} : pc'[s] = pc[s] /\ cycle'[s] = cycle[s]

\* A run that goes to a place, with a cycle that has a branch there or not as it should.
LEMMA RunGoes ==
  ASSUME TeamType, NEW r \in Runs, NEW place \in Places, NEW c \in Cycle,
         pc' = [pc EXCEPT ![r] = place], cycle' = [cycle EXCEPT ![r] = c],
         place \in {"off", "look", "lock", "preflight", "claim", "groom", "rule", "design", "build"}
           => c.branch = None,
         place \in {"develop", "review", "repair", "ship"} => c.branch \in Runs
  PROVE  pc' \in [Runs -> Places] /\ cycle' \in [Runs -> Cycle] /\ BranchAt'
  BY DEF TeamType, TypeOK, BranchAt, Places

\* A run that goes to a place where it needs a branch only if it has one keeps the types.
LEMMA RunMoves ==
  ASSUME TeamType, NEW r \in Runs, NEW place \in Places,
         pc' = [pc EXCEPT ![r] = place], UNCHANGED cycle,
         place \in {"off", "look", "lock", "preflight", "claim", "groom", "rule", "design", "build"}
           => cycle[r].branch = None,
         place \in {"develop", "review", "repair", "ship"} => cycle[r].branch \in Runs
  PROVE  pc' \in [Runs -> Places] /\ cycle' \in [Runs -> Cycle] /\ BranchAt'
  BY DEF TeamType, TypeOK, BranchAt, Places

\* A turn leaves a cycle what it was, but for how it ends and what is known of the window.
LEMMA AskedType ==
  ASSUME TypeOK, NEW r \in Runs, NEW end \in Ends
  PROVE  /\ Asked(r, end) \in Cycle
         /\ Asked(r, end).branch = cycle[r].branch /\ Asked(r, end).number = cycle[r].number
         /\ Asked(r, end).exit = IF end = "ok" THEN cycle[r].exit ELSE end
  <1>1. cycle[r] \in Cycle
    BY DEF TypeOK
  <1> QED
    BY <1>1 DEF Asked, Cycle, Ends

\* A cycle goes on to a place or to its end.
LEMMA OnwardIsPlace ==
  ASSUME NEW r, NEW n, NEW place \in Places
  PROVE  Onward(r, n, place) \in {place, "finish"} /\ Onward(r, n, place) \in Places
  BY DEF Onward, Places

\* The start of a run.
LEMMA StartKeepsTypes ==
  ASSUME TeamType, NEW r \in Runs, Launch(r) \/ Look(r) \/ Lock(r) \/ Preflight(r) \/ Claim(r)
  PROVE  TeamType'
  <1>0. cycle[r] \in Cycle /\ RepoType
    BY TeamTypes DEF TeamType, TypeOK
  <1>1. CASE Launch(r)
    <2>1. PICK place \in {"preflight", "out", "look"} : pc' = [pc EXCEPT ![r] = place]
      BY <1>1 DEF Launch, GoTo
    <2>2. cycle[r].branch = None
      BY <1>1 DEF Launch, TeamType, BranchAt
    <2>3. pc' \in [Runs -> Places] /\ cycle' \in [Runs -> Cycle] /\ BranchAt'
      BY <1>1, <2>1, <2>2, RunMoves DEF Launch, Places
    <2> QED
      BY <1>1, <2>3 DEF Launch, TeamType, TypeOK, startVars, repoVars, Places
  <1>2. CASE Look(r)
    <2>1. PICK place \in {"lock", "out"} : pc' = [pc EXCEPT ![r] = place]
      BY <1>2 DEF Look, GoTo
    <2>2. cycle[r].branch = None
      BY <1>2 DEF Look, TeamType, BranchAt
    <2>3. pc' \in [Runs -> Places] /\ cycle' \in [Runs -> Cycle] /\ BranchAt'
      BY <1>2, <2>1, <2>2, RunMoves DEF Look, Places
    <2> QED
      BY <1>2, <2>3 DEF Look, TeamType, TypeOK, startVars, repoVars, Places
  <1>3. CASE Lock(r)
    <2>1. pc' = [pc EXCEPT ![r] = "preflight"] /\ cycle[r].branch = None
      BY <1>3 DEF Lock, GoTo, TeamType, BranchAt
    <2>2. pc' \in [Runs -> Places] /\ cycle' \in [Runs -> Cycle] /\ BranchAt'
      BY <1>3, <2>1, RunMoves DEF Lock, Places
    <2> QED
      BY <1>3, <2>2 DEF Lock, TeamType, TypeOK, repoVars, Places
  <1>4. CASE Preflight(r)
    <2>1. cycle[r].branch = None
      BY <1>4 DEF Preflight, TeamType, BranchAt
    <2>2. CASE Exit(r) /\ UNCHANGED <<cycle, overlapped>>
      <3>1. pc' = [pc EXCEPT ![r] = "out"] /\ lock' \in Runs \cup {None}
        BY <2>2 DEF Exit, GoTo, TeamType, TypeOK
      <3>2. pc' \in [Runs -> Places] /\ cycle' \in [Runs -> Cycle] /\ BranchAt'
        BY <2>1, <2>2, <3>1, RunMoves DEF Places
      <3> QED
        BY <1>4, <2>2, <3>1, <3>2 DEF Preflight, TeamType, TypeOK, repoVars, Places
    <2>3. CASE GoTo(r, "claim") /\ cycle' = [cycle EXCEPT ![r].seen = file] /\ UNCHANGED lock
               /\ overlapped' = (overlapped \/ \E s \in Runs : UnderWay(s))
      <3> DEFINE c == [cycle[r] EXCEPT !.seen = file]
      <3>1. c \in Cycle /\ c.branch = None
        BY <1>0, <2>1 DEF Cycle, TeamType, TypeOK
      <3>2. cycle' = [cycle EXCEPT ![r] = c] /\ pc' = [pc EXCEPT ![r] = "claim"]
        BY <2>3 DEF GoTo
      <3> HIDE DEF c
      <3>3. pc' \in [Runs -> Places] /\ cycle' \in [Runs -> Cycle] /\ BranchAt'
        BY <3>1, <3>2, RunGoes DEF Places
      <3>4. overlapped' \in BOOLEAN
        BY <2>3
      <3> QED
        BY <1>4, <2>3, <3>3, <3>4 DEF Preflight, TeamType, TypeOK, repoVars, Places
    <2> QED
      BY <1>4, <2>2, <2>3 DEF Preflight
  <1>5. CASE Claim(r)
    <2> DEFINE c == [cycle[r] EXCEPT !.number = cycle[r].seen.number + 1]
    <2>1. cycle[r].branch = None
      BY <1>5 DEF Claim, Claiming, TeamType, BranchAt
    <2>2. c \in Cycle /\ c.branch = None
      BY <1>0, <2>1 DEF Cycle, State
    <2>3. file' \in State
      BY <1>0, <1>5 DEF Claim, Cycle, State
    <2>4. PICK place \in {"finish", "groom"} : pc' = [pc EXCEPT ![r] = place]
      BY <1>5 DEF Claim, Claiming, GoTo
    <2>5. cycle' = [cycle EXCEPT ![r] = c]
      BY <1>5 DEF Claim, Claiming
    <2> HIDE DEF c
    <2>6. pc' \in [Runs -> Places] /\ cycle' \in [Runs -> Cycle] /\ BranchAt'
      BY <2>2, <2>4, <2>5, RunGoes DEF Places
    <2> QED
      BY <1>5, <2>3, <2>6 DEF Claim, Claiming, TeamType, TypeOK, repoVars, Places
  <1> QED
    BY <1>1, <1>2, <1>3, <1>4, <1>5

\* The phases without a branch, and the retro.
LEMMA TalkKeepsTypes ==
  ASSUME TeamType, NEW r \in Runs, Round(r) \/ Rule(r) \/ Design(r) \/ Retro(r)
  PROVE  TeamType'
  <1>0. cycle[r] \in Cycle /\ TypeOK
    BY DEF TeamType, TypeOK
  <1>1. \E place \in Places, c \in Cycle :
          /\ pc' = [pc EXCEPT ![r] = place] /\ cycle' = [cycle EXCEPT ![r] = c]
          /\ c.branch = cycle[r].branch
          /\ (place \in {"groom", "rule", "design", "build"} /\ pc[r] # "retro") \/ place = "finish"
    <2>1. CASE Round(r)
      <3>1. PICK end \in Ends, more \in BOOLEAN :
              /\ cycle' = [cycle EXCEPT ![r] = [Asked(r, end) EXCEPT !.rounds = @ + 1]]
              /\ GoTo(r, IF end # "ok" THEN "finish"
                         ELSE IF more /\ cycle[r].rounds + 1 < MaxRounds THEN "groom" ELSE "rule")
        BY <2>1 DEF Round
      <3> DEFINE a == Asked(r, end)
      <3>2. a \in Cycle /\ a.branch = cycle[r].branch
        BY <1>0, AskedType
      <3> HIDE DEF a
      <3>3. [a EXCEPT !.rounds = @ + 1] \in Cycle /\ [a EXCEPT !.rounds = @ + 1].branch = a.branch
        BY <3>2 DEF Cycle
      <3>4. cycle' = [cycle EXCEPT ![r] = [a EXCEPT !.rounds = @ + 1]]
        BY <3>1 DEF a
      <3>5. \E place \in {"finish", "groom", "rule"} : pc' = [pc EXCEPT ![r] = place]
        BY <3>1 DEF GoTo
      <3> QED
        BY <2>1, <3>2, <3>3, <3>4, <3>5 DEF Round, Places
    <2>2. CASE Rule(r)
      <3>1. PICK end \in Ends, build \in BOOLEAN,
                 resume \in {None, cycle[r].seen.parked} \cup {b \in Runs : pr[b] \in {"open", "armed"}} :
              /\ cycle' = [cycle EXCEPT ![r] =
                    [Asked(r, end) EXCEPT !.resume = resume, !.rounds = 0, !.seen = NoState]]
              /\ GoTo(r, IF end = "ok" /\ build THEN Onward(r, 2, "design") ELSE "finish")
        BY <2>2 DEF Rule
      <3> DEFINE a == Asked(r, end)
                 c == [a EXCEPT !.resume = resume, !.rounds = 0, !.seen = NoState]
      <3>2. a \in Cycle /\ a.branch = cycle[r].branch
        BY <1>0, AskedType
      <3>3. cycle' = [cycle EXCEPT ![r] = c]
        BY <3>1
      <3>4. resume \in Runs \cup {None}
        BY <1>0 DEF Cycle, State
      <3> HIDE DEF a
      <3>5. c \in Cycle /\ c.branch = a.branch
        BY <3>2, <3>4, NoCycleType DEF Cycle
      <3>6. \E place \in {"finish", "design"} : pc' = [pc EXCEPT ![r] = place]
        BY <3>1, OnwardIsPlace DEF GoTo, Places
      <3> HIDE DEF c
      <3> QED
        BY <2>2, <3>2, <3>3, <3>5, <3>6 DEF Rule, Places
    <2>3. CASE Design(r)
      <3>1. PICK end \in Ends :
              /\ cycle' = [cycle EXCEPT ![r] = Asked(r, end)]
              /\ GoTo(r, IF end = "ok" THEN Onward(r, 3, "build") ELSE "finish")
        BY <2>3 DEF Design
      <3>2. Asked(r, end) \in Cycle /\ Asked(r, end).branch = cycle[r].branch
        BY <1>0, AskedType
      <3>3. \E place \in {"finish", "build"} : pc' = [pc EXCEPT ![r] = place]
        BY <3>1, OnwardIsPlace DEF GoTo, Places
      <3> QED
        BY <2>3, <3>1, <3>2, <3>3 DEF Design, Places
    <2>4. CASE Retro(r)
      <3>1. PICK end \in Ends : cycle' = [cycle EXCEPT ![r] = Asked(r, end)]
        BY <2>4 DEF Retro
      <3>2. Asked(r, end) \in Cycle /\ Asked(r, end).branch = cycle[r].branch
        BY <1>0, AskedType
      <3> QED
        BY <2>4, <3>1, <3>2 DEF Retro, GoTo, Places
    <2> QED
      BY <2>1, <2>2, <2>3, <2>4
  <1>2. cycle[r].branch = None \/ pc[r] = "retro"
    BY DEF Round, Rule, Design, Retro, TeamType, BranchAt
  <1>3. pc' \in [Runs -> Places] /\ cycle' \in [Runs -> Cycle] /\ BranchAt'
    BY <1>1, <1>2, RunGoes
  <1> QED
    BY <1>3 DEF Round, Rule, Design, Retro, TeamType, TypeOK, startVars, repoVars, Places

\* The build gives the cycle its branch.
LEMMA BuildKeepsTypes ==
  ASSUME TeamType, NEW r \in Runs, Build(r)
  PROVE  TeamType'
  <1>0. cycle[r] \in Cycle
    BY DEF TeamType, TypeOK
  <1> DEFINE resumes == cycle[r].resume # None /\ head[cycle[r].resume] # "none"
             b == IF resumes THEN cycle[r].resume ELSE r
  <1>1. b \in Runs
    BY <1>0 DEF Cycle
  <1>2. PICK fails \in {"no", "fetch", "worktree"} :
          /\ cycle' = [cycle EXCEPT ![r] =
                         [cycle[r] EXCEPT !.branch = IF fails = "fetch" THEN None ELSE b,
                                          !.exit = IF fails = "no" THEN cycle[r].exit ELSE "failure"]]
          /\ IF fails = "no"
               THEN /\ trees' = trees \cup {b}
                    /\ broken' = broken \ {b} /\ cut' = cut \ {b}
                    /\ head' = [head EXCEPT ![b] = IF resumes THEN @ ELSE "new"]
                    /\ GoTo(r, "develop")
               ELSE GoTo(r, "finish") /\ UNCHANGED <<trees, broken, cut, head>>
    BY DEF Build
  <1> HIDE DEF b, resumes
  <1> DEFINE c == [cycle[r] EXCEPT !.branch = IF fails = "fetch" THEN None ELSE b,
                                   !.exit = IF fails = "no" THEN cycle[r].exit ELSE "failure"]
  <1>3. /\ c \in Cycle /\ cycle' = [cycle EXCEPT ![r] = c]
        /\ c.branch = IF fails = "fetch" THEN None ELSE b
    BY <1>0, <1>1, <1>2 DEF Cycle
  <1> HIDE DEF c
  <1>4. pc' \in [Runs -> Places] /\ cycle' \in [Runs -> Cycle] /\ BranchAt'
    <2>1. CASE fails = "no"
      <3>1. pc' = [pc EXCEPT ![r] = "develop"] /\ c.branch \in Runs
        BY <1>1, <1>2, <1>3, <2>1 DEF GoTo
      <3>2. "develop" \in Places
        BY DEF Places
      <3> QED
        BY <1>3, <3>1, <3>2, RunGoes
    <2>2. CASE fails # "no"
      <3>1. pc' = [pc EXCEPT ![r] = "finish"]
        BY <1>2, <2>2 DEF GoTo
      <3>2. "finish" \in Places
        BY DEF Places
      <3> QED
        BY <1>3, <3>1, <3>2, RunGoes
    <2> QED
      BY <2>1, <2>2
  <1>5. /\ trees' \subseteq Runs /\ broken' \subseteq Runs /\ cut' \subseteq Runs
        /\ head' \in [Runs -> {"none", "new", "green", "blocked", "touched"}]
    BY <1>1, <1>2 DEF TeamType, TypeOK
  <1> QED
    BY <1>4, <1>5 DEF Build, TeamType, TypeOK, startVars, Places

\* A dev's turn, for the design or for a repair, stays with the branch.
LEMMA WorkKeepsTypes ==
  ASSUME TeamType, NEW r \in Runs, NEW place \in {"review", "finish"},
         pc[r] \in {"develop", "repair"}, Work(r, place)
  PROVE  TeamType'
  <1>0. cycle[r] \in Cycle /\ cycle[r].branch \in Runs /\ TypeOK
    BY DEF TeamType, TypeOK, BranchAt
  <1>1. PICK end \in Ends, whole \in BOOLEAN :
          /\ cycle' = [cycle EXCEPT ![r] = [Asked(r, end) EXCEPT !.repairs = Passes(r)]]
          /\ head' = [head EXCEPT ![cycle[r].branch] = "new"]
          /\ broken' = IF end = "ok" THEN broken \ {cycle[r].branch} ELSE broken \cup {cycle[r].branch}
          /\ cut' = IF end = "ok" /\ ~whole THEN cut \cup {cycle[r].branch} ELSE cut \ {cycle[r].branch}
          /\ GoTo(r, IF end = "ok" THEN place ELSE "finish")
          /\ UNCHANGED <<args, startVars, trees, pushed, pr, kills>>
    BY DEF Work
  <1> DEFINE a == Asked(r, end)
             c == [a EXCEPT !.repairs = Passes(r)]
  <1>2. a \in Cycle /\ a.branch = cycle[r].branch
    BY <1>0, AskedType
  <1>3. Passes(r) \in Nat
    BY <1>0 DEF Passes, Cycle
  <1>4. cycle' = [cycle EXCEPT ![r] = c]
    BY <1>1
  <1> HIDE DEF a
  <1>5. c \in Cycle /\ c.branch = cycle[r].branch
    BY <1>2, <1>3 DEF Cycle
  <1> HIDE DEF c
  <1>6. pc' \in [Runs -> Places] /\ cycle' \in [Runs -> Cycle] /\ BranchAt'
    BY <1>0, <1>1, <1>4, <1>5, RunGoes DEF GoTo, Places
  <1>7. /\ broken' \subseteq Runs /\ cut' \subseteq Runs
        /\ head' \in [Runs -> {"none", "new", "green", "blocked", "touched"}]
    BY <1>0, <1>1 DEF TypeOK
  <1> QED
    BY <1>1, <1>6, <1>7 DEF TeamType, TypeOK, startVars, Places

\* What the gates say of a head, or of the one that QA has committed on top of it.
Verdict(c, touches) == IF touches THEN "touched" ELSE IF Blocked(c) THEN "blocked" ELSE "green"

\* The gates stay with it, too.
LEMMA ReviewKeepsTypes ==
  ASSUME TeamType, NEW r \in Runs, Review(r)
  PROVE  TeamType'
  <1>0. cycle[r] \in Cycle /\ cycle[r].branch \in Runs /\ TypeOK
    BY DEF TeamType, TypeOK, BranchAt, Review
  <1>1. PICK end \in Ends, review \in {"pass", "block"}, qa \in {"pass", "block"}, touches \in BOOLEAN :
          LET c == [Asked(r, end) EXCEPT !.review = review, !.qa = qa]
          IN IF end = "ok"
               THEN /\ cycle' = [cycle EXCEPT ![r] = c]
                    /\ head' = [head EXCEPT ![c.branch] = Verdict(c, touches)]
                    /\ GoTo(r, IF Blocked(c) /\ MayRepair(c) THEN "repair" ELSE Onward(r, 5, "ship"))
               ELSE /\ cycle' = [cycle EXCEPT ![r] = Asked(r, end)]
                    /\ GoTo(r, "finish") /\ UNCHANGED head
    BY DEF Review, Verdict
  <1> DEFINE a == Asked(r, end)
             c == [a EXCEPT !.review = review, !.qa = qa]
  <1>2. a \in Cycle /\ a.branch = cycle[r].branch
    BY <1>0, AskedType
  <1>3. IF end = "ok"
          THEN /\ cycle' = [cycle EXCEPT ![r] = c]
               /\ head' = [head EXCEPT ![c.branch] = Verdict(c, touches)]
               /\ GoTo(r, IF Blocked(c) /\ MayRepair(c) THEN "repair" ELSE Onward(r, 5, "ship"))
          ELSE cycle' = [cycle EXCEPT ![r] = a] /\ GoTo(r, "finish") /\ UNCHANGED head
    BY <1>1
  <1> HIDE DEF a
  <1>4. c \in Cycle /\ c.branch = cycle[r].branch
    BY <1>2 DEF Cycle
  <1> HIDE DEF c
  <1>5. \E place \in {"repair", "ship", "finish"}, d \in Cycle :
          pc' = [pc EXCEPT ![r] = place] /\ cycle' = [cycle EXCEPT ![r] = d] /\ d.branch = cycle[r].branch
    BY <1>2, <1>3, <1>4, OnwardIsPlace DEF GoTo, Places
  <1>6. pc' \in [Runs -> Places] /\ cycle' \in [Runs -> Cycle] /\ BranchAt'
    BY <1>0, <1>5, RunGoes DEF Places
  <1>7. head' \in [Runs -> {"none", "new", "green", "blocked", "touched"}]
    BY <1>0, <1>3, <1>4 DEF TypeOK, Verdict
  <1> QED
    BY <1>6, <1>7 DEF Review, TeamType, TypeOK, startVars, Places

\* So does the push.
LEMMA ShipKeepsTypes ==
  ASSUME TeamType, NEW r \in Runs, Ship(r)
  PROVE  TeamType'
  <1>0. cycle[r] \in Cycle /\ cycle[r].branch \in Runs /\ TypeOK
    BY DEF TeamType, TypeOK, BranchAt, Ship
  <1>1. \E place \in {"retro", "finish"}, c \in Cycle :
          pc' = [pc EXCEPT ![r] = place] /\ cycle' = [cycle EXCEPT ![r] = c]
    <2>1. \E place \in {"retro", "finish"} : pc' = [pc EXCEPT ![r] = place]
      BY OnwardIsPlace DEF Ship, GoTo, Places
    <2>2. [cycle[r] EXCEPT !.exit = "failure"] \in Cycle
      BY <1>0 DEF Cycle
    <2>3. \/ cycle' = [cycle EXCEPT ![r] = cycle[r]]
          \/ cycle' = [cycle EXCEPT ![r] = [cycle[r] EXCEPT !.exit = "failure"]]
      BY <1>0 DEF Ship, TypeOK
    <2> QED
      BY <1>0, <2>1, <2>2, <2>3
  <1>2. pc' \in [Runs -> Places] /\ cycle' \in [Runs -> Cycle] /\ BranchAt'
    BY <1>1, RunGoes DEF Places
  <1>3. /\ pushed' \in [Runs -> {"none", "new", "green", "blocked", "touched"}]
        /\ pr' \in [Runs -> {"none", "open", "armed", "merged"}]
    BY <1>0 DEF Ship, TypeOK
  <1> QED
    BY <1>2, <1>3 DEF Ship, TeamType, TypeOK, startVars, Places

\* The end of a cycle, or its death, leaves no branch in memory.
LEMMA EndKeepsTypes ==
  ASSUME TeamType, NEW r \in Runs, Finish(r) \/ Clean(r) \/ Kill(r)
  PROVE  TeamType'
  <1>0. cycle[r] \in Cycle /\ TypeOK
    BY DEF TeamType, TypeOK
  <1> DEFINE gone == [NoCycle EXCEPT !.number = cycle[r].number]
  <1>1. gone \in Cycle /\ gone.branch = None
    BY <1>0, NoCycleType DEF Cycle, NoCycle
  <1> HIDE DEF gone
  <1>2. CASE Finish(r)
    <2>1. pc' = [pc EXCEPT ![r] = "clean"] /\ UNCHANGED cycle
      BY <1>2 DEF Finish, GoTo
    <2>2. pc' \in [Runs -> Places] /\ cycle' \in [Runs -> Cycle] /\ BranchAt'
      BY <2>1, RunMoves DEF Places
    <2>3. file' \in State
      BY <1>0, <1>2 DEF Finish, Cycle, State
    <2> QED
      BY <1>2, <2>2, <2>3 DEF Finish, TeamType, TypeOK, repoVars, Places
  <1>3. CASE Clean(r)
    <2>1. pc' = [pc EXCEPT ![r] = "out"] /\ cycle' = [cycle EXCEPT ![r] = gone]
      BY <1>3 DEF Clean, Exit, Forget, GoTo, gone
    <2>2. pc' \in [Runs -> Places] /\ cycle' \in [Runs -> Cycle] /\ BranchAt'
      BY <1>1, <2>1, RunGoes DEF Places
    <2>3. trees' \subseteq Runs /\ lock' \in Runs \cup {None}
      BY <1>0, <1>3 DEF Clean, Exit, TypeOK
    <2> QED
      BY <1>3, <2>2, <2>3 DEF Clean, TeamType, TypeOK, Places
  <1>4. CASE Kill(r)
    <2>1. pc' = [pc EXCEPT ![r] = "dead"] /\ cycle' = [cycle EXCEPT ![r] = gone]
      BY <1>4 DEF Kill, Forget, GoTo, gone
    <2>2. pc' \in [Runs -> Places] /\ cycle' \in [Runs -> Cycle] /\ BranchAt'
      BY <1>1, <2>1, RunGoes DEF Places
    <2>3. kills' \in 0 .. MaxKills
      BY <1>0, <1>4, TeamAssumption DEF Kill, TypeOK, TeamAssumption
    <2>4. broken' \subseteq Runs
      BY <1>0, <1>4 DEF Kill, TypeOK, TeamType, BranchAt
    <2> QED
      BY <1>4, <2>2, <2>3, <2>4 DEF Kill, TeamType, TypeOK, startVars, Places
  <1> QED
    BY <1>2, <1>3, <1>4

\* An interrupt sends a cycle to its end; it may take back the verdicts.
LEMMA InterruptKeepsTypes ==
  ASSUME TeamType, NEW r \in Runs, Interrupt(r)
  PROVE  TeamType'
  <1>0. cycle[r] \in Cycle /\ TypeOK
    BY DEF TeamType, TypeOK
  <1> DEFINE c == [cycle[r] EXCEPT !.review = "skipped", !.qa = "skipped"]
  <1>1. c \in Cycle
    BY <1>0 DEF Cycle
  <1>2. \E d \in Cycle : cycle' = [cycle EXCEPT ![r] = d]
    <2>1. cycle' = [cycle EXCEPT ![r] = c] \/ cycle' = [cycle EXCEPT ![r] = cycle[r]]
      BY <1>0 DEF Interrupt, TypeOK
    <2> QED
      BY <1>0, <1>1, <2>1
  <1>3. pc' \in [Runs -> Places] /\ cycle' \in [Runs -> Cycle] /\ BranchAt'
    BY <1>2, RunGoes DEF Interrupt, GoTo, Places
  <1>4. kills' \in 0 .. MaxKills
    BY <1>0, TeamAssumption DEF Interrupt, TypeOK, TeamAssumption
  <1>5. cut' \subseteq Runs
    BY <1>0 DEF Interrupt, TypeOK, TeamType, BranchAt
  <1> QED
    BY <1>3, <1>4, <1>5 DEF Interrupt, TeamType, TypeOK, startVars, Places

\* The operator, the clock and GitHub change no run's place.
LEMMA SurroundingsKeepTypes ==
  ASSUME TeamType, CommitNotes \/ TurnWindow \/ (\E b \in Runs : Merge(b))
  PROVE  TeamType'
  <1>1. CASE CommitNotes
    BY <1>1 DEF CommitNotes, TeamType, TypeOK, BranchAt, repoVars
  <1>2. CASE TurnWindow
    <2>1. file' \in State
      BY <1>2 DEF TurnWindow, TeamType, TypeOK, State
    <2>2. ASSUME NEW r \in Runs
          PROVE  cycle'[r] \in Cycle /\ cycle'[r].branch = cycle[r].branch
      <3>1. cycle[r] \in Cycle
        BY DEF TeamType, TypeOK
      <3> DEFINE seen == [cycle[r].seen EXCEPT !.ahead = FALSE]
      <3>2. seen \in State
        BY <3>1 DEF Cycle, State
      <3>3. cycle'[r] = [cycle[r] EXCEPT !.ahead = FALSE, !.seen = seen]
        BY <1>2 DEF TurnWindow
      <3> HIDE DEF seen
      <3> QED
        BY <3>1, <3>2, <3>3 DEF Cycle
    <2>3. cycle' \in [Runs -> Cycle] /\ BranchAt'
      BY <1>2, <2>2 DEF TurnWindow, TeamType, BranchAt
    <2> QED
      BY <1>2, <2>1, <2>3 DEF TurnWindow, TeamType, TypeOK, repoVars
  <1>3. CASE \E b \in Runs : Merge(b)
    BY <1>3 DEF Merge, TeamType, TypeOK, BranchAt, startVars
  <1> QED
    BY <1>1, <1>2, <1>3

\* Every step keeps the types and where cycles have branches.
LEMMA TeamNextType == TeamType /\ [Next]_vars => TeamType'
  <1> SUFFICES ASSUME TeamType, [Next]_vars PROVE TeamType'
    OBVIOUS
  <1>1. CASE UNCHANGED vars
    BY <1>1 DEF vars, startVars, repoVars, TeamType, TypeOK, BranchAt
  <1>2. ASSUME NEW r \in Runs, Step(r) PROVE TeamType'
    <2>1. CASE Develop(r)
      <3>1. Onward(r, 4, "review") \in {"review", "finish"}
        BY DEF Onward
      <3> QED
        BY <2>1, <3>1, WorkKeepsTypes DEF Develop
    <2>2. CASE Repair(r)
      BY <2>2, WorkKeepsTypes DEF Repair, AfterRepair
    <2> QED
      BY <1>2, <2>1, <2>2, StartKeepsTypes, TalkKeepsTypes, BuildKeepsTypes, ReviewKeepsTypes,
         ShipKeepsTypes, EndKeepsTypes DEF Step
  <1> QED
    BY <1>1, <1>2, EndKeepsTypes, InterruptKeepsTypes, SurroundingsKeepTypes DEF Next

\* The types of what the runs hold, of the files they share and of the branches.
THEOREM TeamTypeCorrect == Spec => []TypeOK
  <1>1. TeamType => TypeOK
    BY DEF TeamType
  <1> QED
    BY <1>1, TeamInitType, TeamNextType, PTL DEF Spec

-------------------------------------------------------------------------------
(* What the steps do to the numbers and to who is under way.                    *)

Waiting == {"off", "look", "lock", "preflight"}

Working == {"groom", "rule", "design", "build", "develop", "review", "repair", "ship", "retro",
            "finish", "clean"}

\* The runs under way by the places they are at.
LEMMA WhoIsUnderWay ==
  ASSUME TypeOK, NEW r \in Runs
  PROVE  UnderWay(r) <=> pc[r] \in Working \cup {"claim"}
  BY DEF TypeOK, UnderWay, Alive, Working

\* Before it is under way a run touches neither branches nor state.json, and its own cycle only
\* when preflight lets it on: it then holds what it has read.
LEMMA StartEffects ==
  ASSUME TeamType, NEW r \in Runs, Launch(r) \/ Look(r) \/ Lock(r) \/ Preflight(r)
  PROVE  /\ pc[r] \in Waiting /\ Alone(r) /\ UNCHANGED <<file, repoVars>>
         /\ cycle'[r].number = cycle[r].number /\ cycle'[r].branch = cycle[r].branch
         /\ overlapped => overlapped'
         /\ \/ pc'[r] \in {"look", "lock", "preflight", "out"}
            \/ /\ pc'[r] = "claim" /\ cycle'[r].seen = file
               /\ overlapped' \/ \A s \in Runs : ~UnderWay(s)
  <1>0. cycle[r] \in Cycle /\ pc \in [Runs -> Places] /\ cycle \in [Runs -> Cycle]
    BY TeamTypes DEF TeamType, TypeOK, RunType
  <1>1. CASE Launch(r) \/ Look(r) \/ Lock(r)
    BY <1>0, <1>1 DEF Launch, Look, Lock, GoTo, Alone, startVars, repoVars, Waiting
  <1>2. CASE Preflight(r)
    <2>1. CASE Exit(r) /\ UNCHANGED <<cycle, overlapped>>
      BY <1>0, <1>2, <2>1 DEF Preflight, Exit, GoTo, Alone, repoVars, Waiting
    <2>2. CASE GoTo(r, "claim") /\ cycle' = [cycle EXCEPT ![r].seen = file]
               /\ overlapped' = (overlapped \/ \E s \in Runs : UnderWay(s))
      <3>1. cycle'[r] = [cycle[r] EXCEPT !.seen = file] /\ Alone(r) /\ pc'[r] = "claim"
        BY <1>0, <2>2 DEF GoTo, Alone
      <3>2. cycle'[r].number = cycle[r].number /\ cycle'[r].branch = cycle[r].branch
            /\ cycle'[r].seen = file
        BY <1>0, <3>1 DEF Cycle
      <3>3. (overlapped => overlapped') /\ (overlapped' \/ \A s \in Runs : ~UnderWay(s))
        BY <2>2, Zenon
      <3> QED
        BY <1>2, <3>1, <3>2, <3>3 DEF Preflight, repoVars, Waiting
    <2> QED
      BY <1>2, <2>1, <2>2 DEF Preflight
  <1> QED
    BY <1>1, <1>2

\* From its number to its end a run goes on, and nothing in it changes the number.
LEMMA PhaseEffects ==
  ASSUME TeamType, NEW r \in Runs,
         \/ Round(r) \/ Rule(r) \/ Design(r) \/ Build(r) \/ Develop(r)
         \/ Review(r) \/ Repair(r) \/ Ship(r) \/ Retro(r)
  PROVE  /\ pc[r] \in Working /\ pc'[r] \in Working /\ Alone(r)
         /\ cycle'[r].number = cycle[r].number /\ UNCHANGED <<file, overlapped>>
  <1>0. cycle[r] \in Cycle /\ pc \in [Runs -> Places] /\ cycle \in [Runs -> Cycle] /\ TypeOK
    BY TeamTypes DEF TeamType, TypeOK, RunType
  <1>1. \A end \in Ends : Asked(r, end) \in Cycle /\ Asked(r, end).number = cycle[r].number
    BY <1>0, AskedType
  <1>2. CASE Round(r)
    <2>1. PICK end \in Ends : cycle' = [cycle EXCEPT ![r] = [Asked(r, end) EXCEPT !.rounds = @ + 1]]
      BY <1>2 DEF Round
    <2> DEFINE a == Asked(r, end)
    <2>2. a \in Cycle /\ a.number = cycle[r].number
      BY <1>1
    <2>3. cycle' = [cycle EXCEPT ![r] = [a EXCEPT !.rounds = @ + 1]]
      BY <2>1
    <2> HIDE DEF a
    <2>4. cycle'[r].number = cycle[r].number /\ \A s \in Runs \ {r} : cycle'[s] = cycle[s]
      BY <1>0, <2>2, <2>3 DEF Cycle
    <2>5. pc[r] = "groom" /\ \E place \in {"groom", "rule", "finish"} : pc' = [pc EXCEPT ![r] = place]
      BY <1>2 DEF Round, GoTo
    <2>6. UNCHANGED <<file, overlapped>>
      BY <1>2 DEF Round, startVars
    <2> QED
      BY <1>0, <2>4, <2>5, <2>6 DEF Alone, Working
  <1>3. CASE Rule(r)
    <2>1. PICK end \in Ends, resume \in Runs \cup {None, cycle[r].seen.parked} :
            cycle' = [cycle EXCEPT ![r] =
                        [Asked(r, end) EXCEPT !.resume = resume, !.rounds = 0, !.seen = NoState]]
      BY <1>3 DEF Rule
    <2> DEFINE a == Asked(r, end)
    <2>2. a \in Cycle /\ a.number = cycle[r].number
      BY <1>1
    <2>3. cycle' = [cycle EXCEPT ![r] = [a EXCEPT !.resume = resume, !.rounds = 0, !.seen = NoState]]
      BY <2>1
    <2> HIDE DEF a
    <2>4. cycle'[r].number = cycle[r].number /\ \A s \in Runs \ {r} : cycle'[s] = cycle[s]
      BY <1>0, <2>2, <2>3 DEF Cycle
    <2>5. pc[r] = "rule" /\ \E place \in {"design", "finish"} : pc' = [pc EXCEPT ![r] = place]
      <3>1. Onward(r, 2, "design") \in {"design", "finish"}
        BY DEF Onward
      <3> QED
        BY <1>3, <3>1 DEF Rule, GoTo
    <2> QED
      BY <1>0, <1>3, <2>4, <2>5 DEF Rule, Alone, startVars, Working
  <1>4. CASE Design(r)
    <2>1. PICK end \in Ends : cycle' = [cycle EXCEPT ![r] = Asked(r, end)]
      BY <1>4 DEF Design
    <2>2. cycle'[r].number = cycle[r].number /\ \A s \in Runs \ {r} : cycle'[s] = cycle[s]
      BY <1>0, <1>1, <2>1
    <2>3. pc[r] = "design" /\ \E place \in {"build", "finish"} : pc' = [pc EXCEPT ![r] = place]
      BY <1>4, OnwardIsPlace DEF Design, GoTo, Places
    <2> QED
      BY <1>0, <1>4, <2>2, <2>3 DEF Design, Alone, startVars, Working
  <1>5. CASE Retro(r)
    <2>1. PICK end \in Ends : cycle' = [cycle EXCEPT ![r] = Asked(r, end)]
      BY <1>5 DEF Retro
    <2>2. cycle'[r].number = cycle[r].number /\ \A s \in Runs \ {r} : cycle'[s] = cycle[s]
      BY <1>0, <1>1, <2>1
    <2> QED
      BY <1>0, <1>5, <2>2 DEF Retro, GoTo, Alone, startVars, Working
  <1>6. CASE Build(r)
    <2>1. PICK b, fails :
            /\ cycle' = [cycle EXCEPT ![r] = [cycle[r] EXCEPT !.branch = b, !.exit = fails]]
            /\ GoTo(r, "develop") \/ GoTo(r, "finish")
      BY <1>6 DEF Build
    <2>2. cycle'[r].number = cycle[r].number /\ \A s \in Runs \ {r} : cycle'[s] = cycle[s]
      BY <1>0, <2>1 DEF Cycle
    <2> QED
      BY <1>0, <1>6, <2>1, <2>2 DEF Build, GoTo, Alone, startVars, Working
  <1>7. ASSUME NEW place \in {"review", "finish"}, pc[r] \in {"develop", "repair"}, Work(r, place)
        PROVE  /\ pc'[r] \in Working /\ Alone(r)
               /\ cycle'[r].number = cycle[r].number /\ UNCHANGED <<file, overlapped>>
    <2>1. PICK end \in Ends :
            /\ cycle' = [cycle EXCEPT ![r] = [Asked(r, end) EXCEPT !.repairs = Passes(r)]]
            /\ GoTo(r, IF end = "ok" THEN place ELSE "finish")
            /\ UNCHANGED <<file, overlapped>>
      BY <1>7 DEF Work, startVars
    <2> DEFINE a == Asked(r, end)
    <2>2. a \in Cycle /\ a.number = cycle[r].number
      BY <1>1
    <2>3. cycle' = [cycle EXCEPT ![r] = [a EXCEPT !.repairs = Passes(r)]]
      BY <2>1
    <2> HIDE DEF a
    <2>4. cycle'[r].number = cycle[r].number /\ \A s \in Runs \ {r} : cycle'[s] = cycle[s]
      BY <1>0, <2>2, <2>3 DEF Cycle
    <2> QED
      BY <1>0, <1>7, <2>1, <2>4 DEF GoTo, Alone, Working
  <1>8. CASE Develop(r)
    <2>1. Onward(r, 4, "review") \in {"review", "finish"}
      BY DEF Onward
    <2> QED
      BY <1>7, <1>8, <2>1 DEF Develop, Working
  <1>9. CASE Repair(r)
    BY <1>7, <1>9 DEF Repair, AfterRepair, Working
  <1>10. CASE Review(r)
    <2>1. PICK end \in Ends, review \in {"pass", "block"}, qa \in {"pass", "block"} :
            \/ cycle' = [cycle EXCEPT ![r] = Asked(r, end)]
            \/ cycle' = [cycle EXCEPT ![r] = [Asked(r, end) EXCEPT !.review = review, !.qa = qa]]
      BY <1>10 DEF Review
    <2> DEFINE a == Asked(r, end)
    <2>2. a \in Cycle /\ a.number = cycle[r].number
      BY <1>1
    <2>3. \/ cycle' = [cycle EXCEPT ![r] = a]
          \/ cycle' = [cycle EXCEPT ![r] = [a EXCEPT !.review = review, !.qa = qa]]
      BY <2>1
    <2> HIDE DEF a
    <2>4. cycle'[r].number = cycle[r].number /\ \A s \in Runs \ {r} : cycle'[s] = cycle[s]
      BY <1>0, <2>2, <2>3 DEF Cycle
    <2>5. pc[r] = "review" /\ \E place \in {"repair", "ship", "finish"} : pc' = [pc EXCEPT ![r] = place]
      <3>1. Onward(r, 5, "ship") \in {"ship", "finish"}
        BY DEF Onward
      <3> QED
        BY <1>10, <3>1 DEF Review, GoTo
    <2>6. UNCHANGED <<file, overlapped>>
      BY <1>10 DEF Review, startVars
    <2> QED
      BY <1>0, <2>4, <2>5, <2>6 DEF Alone, Working
  <1>11. CASE Ship(r)
    <2>1. pc[r] = "ship" /\ \E place \in {"retro", "finish"} : pc' = [pc EXCEPT ![r] = place]
      BY <1>11, OnwardIsPlace DEF Ship, GoTo, Places
    <2>2. \/ cycle' = cycle
          \/ cycle' = [cycle EXCEPT ![r] = [cycle[r] EXCEPT !.exit = "failure"]]
      BY <1>0, <1>11 DEF Ship
    <2>3. cycle'[r].number = cycle[r].number /\ \A s \in Runs \ {r} : cycle'[s] = cycle[s]
      BY <1>0, <2>2 DEF Cycle
    <2> QED
      BY <1>0, <1>11, <2>1, <2>3 DEF Ship, Alone, startVars, Working
  <1> QED
    BY <1>2, <1>3, <1>4, <1>5, <1>6, <1>8, <1>9, <1>10, <1>11

\* Neither does an interrupt, which leaves the branches as they are, and the way it ends.
LEMMA InterruptEffects ==
  ASSUME TeamType, NEW r \in Runs, Interrupt(r)
  PROVE  /\ pc[r] \in Working /\ pc'[r] = "finish" /\ Alone(r)
         /\ cycle'[r].number = cycle[r].number /\ cycle'[r].branch = cycle[r].branch
         /\ cycle'[r].exit = cycle[r].exit
         /\ UNCHANGED <<file, overlapped, trees, head, pushed, broken>>
  <1>0. cycle[r] \in Cycle /\ pc \in [Runs -> Places] /\ cycle \in [Runs -> Cycle]
    BY TeamTypes DEF TeamType, TypeOK, RunType
  <1>1. \/ cycle' = cycle
        \/ cycle' = [cycle EXCEPT ![r] = [cycle[r] EXCEPT !.review = "skipped", !.qa = "skipped"]]
    BY DEF Interrupt
  <1>2. /\ cycle'[r].number = cycle[r].number /\ cycle'[r].branch = cycle[r].branch
        /\ cycle'[r].exit = cycle[r].exit /\ \A s \in Runs \ {r} : cycle'[s] = cycle[s]
    BY <1>0, <1>1 DEF Cycle
  <1> QED
    BY <1>0, <1>2 DEF Interrupt, GoTo, Alone, startVars, Working

\* A cycle that ends or is killed keeps its number and leaves state.json as it is.
LEMMA EndEffects ==
  ASSUME TeamType, NEW r \in Runs, Clean(r) \/ Kill(r)
  PROVE  /\ pc'[r] \in {"out", "dead"} /\ Alone(r) /\ cycle'[r].branch = None
         /\ cycle'[r].number = cycle[r].number /\ UNCHANGED <<file, overlapped>>
  <1>0. pc \in [Runs -> Places] /\ cycle \in [Runs -> Cycle] /\ cycle[r].number \in Nat
    BY TeamTypes DEF TeamType, TypeOK, RunType, Cycle
  <1>1. \E place \in {"out", "dead"} : pc' = [pc EXCEPT ![r] = place]
    BY DEF Clean, Kill, Exit, GoTo
  <1>2. cycle'[r] = [NoCycle EXCEPT !.number = cycle[r].number]
    BY <1>0 DEF Clean, Kill, Forget
  <1> QED
    BY <1>0, <1>1, <1>2 DEF Clean, Kill, Forget, Alone, startVars, NoCycle

\* The surroundings move no run and change no number.
LEMMA SurroundingsEffects ==
  ASSUME TeamType, CommitNotes \/ TurnWindow \/ (\E b \in Runs : Merge(b))
  PROVE  /\ UNCHANGED <<pc, overlapped, broken, head, pushed, trees>>
         /\ file'.number = file.number
         /\ \A r \in Runs : /\ cycle'[r].number = cycle[r].number
                            /\ cycle'[r].branch = cycle[r].branch
                            /\ cycle'[r].exit = cycle[r].exit
                            /\ cycle'[r].seen.number = cycle[r].seen.number
  <1>1. CASE TurnWindow
    <2>1. file'.number = file.number
      BY <1>1 DEF TurnWindow, TeamType, TypeOK, State
    <2>2. ASSUME NEW r \in Runs
          PROVE  /\ cycle'[r].number = cycle[r].number
                 /\ cycle'[r].branch = cycle[r].branch
                 /\ cycle'[r].exit = cycle[r].exit
                 /\ cycle'[r].seen.number = cycle[r].seen.number
      <3>1. cycle[r] \in Cycle
        BY DEF TeamType, TypeOK
      <3> DEFINE seen == [cycle[r].seen EXCEPT !.ahead = FALSE]
      <3>2. seen.number = cycle[r].seen.number
        BY <3>1 DEF Cycle, State
      <3>3. cycle'[r] = [cycle[r] EXCEPT !.ahead = FALSE, !.seen = seen]
        BY <1>1 DEF TurnWindow
      <3> HIDE DEF seen
      <3> QED
        BY <3>1, <3>2, <3>3 DEF Cycle
    <2> QED
      BY <1>1, <2>1, <2>2 DEF TurnWindow, repoVars
  <1>2. CASE CommitNotes \/ \E b \in Runs : Merge(b)
    BY <1>2 DEF CommitNotes, Merge, startVars, repoVars
  <1> QED
    BY <1>1, <1>2

-------------------------------------------------------------------------------
(* Numbers.                                                                     *)

\* While no cycles have overlapped only one run is under way, no number in use is above the
\* one in state.json, and the run at work holds just that.
Sole == \A r, s \in Runs : UnderWay(r) /\ UnderWay(s) => r = s

Counted(r) ==
  /\ cycle[r].number <= file.number
  /\ pc[r] \in Waiting \cup {"claim"} => cycle[r].number = 0
  /\ pc[r] = "claim" => cycle[r].seen.number = file.number
  /\ pc[r] \in Working => cycle[r].number = file.number

Spent == \A r, s \in Runs : r # s /\ Claimed(r) /\ Claimed(s) => cycle[r].number # cycle[s].number

NumberInv == ~overlapped => Sole /\ (\A r \in Runs : Counted(r)) /\ Spent

\* At the start no number is claimed.
LEMMA NumberInit == Init => NumberInv
  BY DEF Init, NumberInv, Sole, Counted, Spent, Claimed, UnderWay, Alive, NoCycle, NoState, Working,
     Waiting

\* What the arithmetic of the numbers needs of the types.
LEMMA NumberTypes ==
  ASSUME TypeOK
  PROVE  /\ file.number \in Nat /\ pc \in [Runs -> Places]
         /\ \A r \in Runs : cycle[r].number \in Nat /\ cycle[r].seen.number \in Nat
         /\ \A r \in Runs : UnderWay(r) <=> pc[r] \in Working \cup {"claim"}
  BY WhoIsUnderWay DEF TypeOK, Cycle, State, Places

\* A step of r alone that leaves the numbers as they are.
LEMMA NumbersStay ==
  ASSUME TypeOK, TypeOK', Sole, Spent, \A s \in Runs : Counted(s), NEW r \in Runs, Alone(r),
         file'.number = file.number, cycle'[r].number = cycle[r].number,
         \/ pc[r] \in Working /\ pc'[r] \in Working
         \/ pc'[r] \in {"out", "dead"}
         \/ pc[r] \in Waiting /\ pc'[r] \in Waiting
         \/ /\ pc[r] \in Waiting /\ pc'[r] = "claim" /\ cycle'[r].seen = file
            /\ \A s \in Runs : ~UnderWay(s)
  PROVE  Sole' /\ (\A s \in Runs : Counted(s)') /\ Spent'
  <1>1. \A s \in Runs : UnderWay(s) <=> pc[s] \in Working \cup {"claim"}
    BY NumberTypes
  <1>2. \A s \in Runs : UnderWay(s)' <=> pc'[s] \in Working \cup {"claim"}
    BY DEF TypeOK, UnderWay, Alive, Working
  <1>3. Sole'
    BY <1>1, <1>2 DEF Sole, Alone, Working, Waiting
  <1>4. ASSUME NEW s \in Runs PROVE Counted(s)'
    BY DEF Counted, Alone, Working, Waiting
  <1>5. Spent'
    BY DEF Spent, Claimed, Alone
  <1> QED
    BY <1>3, <1>4, <1>5

\* The claim: the cycle alone is under way, its number is one more than all that are claimed, and
\* state.json has it.
LEMMA ClaimNumbers ==
  ASSUME TypeOK, TypeOK', Sole, Spent, \A s \in Runs : Counted(s), NEW r \in Runs, Claim(r)
  PROVE  Sole' /\ (\A s \in Runs : Counted(s)') /\ Spent'
  <1>1. \A s \in Runs : UnderWay(s) <=> pc[s] \in Working \cup {"claim"}
    BY NumberTypes
  <1>2. \A s \in Runs : UnderWay(s)' <=> pc'[s] \in Working \cup {"claim"}
    BY DEF TypeOK, UnderWay, Alive, Working
  <1>3. pc[r] = "claim" /\ pc'[r] \in {"finish", "groom"} /\ \A s \in Runs \ {r} : pc'[s] = pc[s]
    BY DEF Claim, Claiming, GoTo, TypeOK
  <1>4. /\ cycle'[r].number = file.number + 1
        /\ \A s \in Runs \ {r} : cycle'[s] = cycle[s]
    <2>1. cycle[r] \in Cycle /\ cycle[r].seen.number = file.number
      BY <1>3 DEF TypeOK, Counted
    <2>2. cycle' = [cycle EXCEPT ![r] = [cycle[r] EXCEPT !.number = cycle[r].seen.number + 1]]
      BY DEF Claim, Claiming
    <2> QED
      BY <2>1, <2>2 DEF TypeOK, Cycle
  <1>5. file'.number = file.number + 1
    <2>1. cycle[r] \in Cycle /\ cycle[r].seen.number = file.number
      BY <1>3 DEF TypeOK, Counted
    <2> QED
      BY <2>1 DEF Claim, Cycle, State
  <1>6. Sole'
    BY <1>1, <1>2, <1>3 DEF Sole, Working
  <1>7. ASSUME NEW s \in Runs PROVE Counted(s)'
    <2>1. CASE s = r
      BY <1>3, <1>4, <1>5, <2>1, NumberTypes DEF Counted, Waiting
    <2>2. CASE s # r
      <3>1. pc[s] \notin Working \cup {"claim"}
        BY <1>1, <1>3, <2>2 DEF Sole
      <3> QED
        BY <1>3, <1>4, <1>5, <2>2, <3>1, NumberTypes DEF Counted
    <2> QED
      BY <2>1, <2>2
  <1>8. Spent'
    <2>1. \A s \in Runs \ {r} : cycle'[s].number # cycle'[r].number
      BY <1>4, NumberTypes DEF Counted
    <2> QED
      BY <1>4, <2>1 DEF Spent, Claimed
  <1> QED
    BY <1>6, <1>7, <1>8

\* Every step keeps the numbers apart, as long as no two cycles have overlapped.
LEMMA NumberNext == TeamType /\ NumberInv /\ [Next]_vars => NumberInv'
  <1> SUFFICES ASSUME TeamType, TeamType', NumberInv, [Next]_vars, ~overlapped'
               PROVE  Sole' /\ (\A r \in Runs : Counted(r)') /\ Spent'
    BY TeamNextType DEF NumberInv
  <1>0. TypeOK /\ TypeOK'
    BY DEF TeamType
  <1>1. ASSUME ~overlapped PROVE Sole /\ (\A r \in Runs : Counted(r)) /\ Spent
    BY <1>1 DEF NumberInv
  <1>2. CASE UNCHANGED vars
    BY <1>1, <1>2 DEF vars, startVars, Sole, Counted, Spent, Claimed, UnderWay, Alive
  <1>3. ASSUME NEW r \in Runs, Launch(r) \/ Look(r) \/ Lock(r) \/ Preflight(r)
        PROVE  Sole' /\ (\A s \in Runs : Counted(s)') /\ Spent'
    <2>1. /\ pc[r] \in Waiting /\ Alone(r) /\ UNCHANGED file
          /\ cycle'[r].number = cycle[r].number /\ ~overlapped
          /\ \/ pc'[r] \in {"look", "lock", "preflight", "out"}
             \/ /\ pc'[r] = "claim" /\ cycle'[r].seen = file
                /\ \A s \in Runs : ~UnderWay(s)
      BY <1>3, StartEffects
    <2> QED
      BY <1>0, <1>1, <2>1, NumbersStay DEF Waiting
  <1>4. ASSUME NEW r \in Runs, Claim(r) PROVE Sole' /\ (\A s \in Runs : Counted(s)') /\ Spent'
    BY <1>0, <1>1, <1>4, ClaimNumbers DEF Claim, Claiming
  <1>5. ASSUME NEW r \in Runs,
               \/ Round(r) \/ Rule(r) \/ Design(r) \/ Build(r) \/ Develop(r)
               \/ Review(r) \/ Repair(r) \/ Ship(r) \/ Retro(r)
        PROVE  Sole' /\ (\A s \in Runs : Counted(s)') /\ Spent'
    <2>1. /\ pc[r] \in Working /\ pc'[r] \in Working /\ Alone(r)
          /\ cycle'[r].number = cycle[r].number /\ UNCHANGED <<file, overlapped>>
      BY <1>5, PhaseEffects
    <2> QED
      BY <1>0, <1>1, <2>1, NumbersStay
  <1>6. ASSUME NEW r \in Runs, Finish(r) PROVE Sole' /\ (\A s \in Runs : Counted(s)') /\ Spent'
    <2>1. pc[r] \in Working /\ pc'[r] \in Working /\ ~overlapped /\ Alone(r) /\ UNCHANGED cycle
      BY <1>0, <1>6 DEF Finish, GoTo, TypeOK, Alone, Working
    <2>2. file'.number = file.number
      BY <1>1, <1>6, <2>1 DEF Finish, Counted
    <2> QED
      BY <1>0, <1>1, <2>1, <2>2, NumbersStay
  <1>7. ASSUME NEW r \in Runs, Clean(r) \/ Kill(r)
        PROVE  Sole' /\ (\A s \in Runs : Counted(s)') /\ Spent'
    <2>1. /\ pc'[r] \in {"out", "dead"} /\ Alone(r)
          /\ cycle'[r].number = cycle[r].number /\ UNCHANGED <<file, overlapped>>
      BY <1>7, EndEffects
    <2> QED
      BY <1>0, <1>1, <2>1, NumbersStay
  <1>8. CASE CommitNotes \/ TurnWindow \/ \E b \in Runs : Merge(b)
    <2>1. /\ UNCHANGED <<pc, overlapped>> /\ file'.number = file.number
          /\ \A r \in Runs : /\ cycle'[r].number = cycle[r].number
                             /\ cycle'[r].seen.number = cycle[r].seen.number
      BY <1>8, SurroundingsEffects
    <2> QED
      BY <1>1, <2>1 DEF Sole, Counted, Spent, Claimed, UnderWay, Alive
  <1>9. ASSUME NEW r \in Runs, Interrupt(r) PROVE Sole' /\ (\A s \in Runs : Counted(s)') /\ Spent'
    <2>1. /\ pc[r] \in Working /\ pc'[r] \in Working /\ Alone(r)
          /\ cycle'[r].number = cycle[r].number /\ UNCHANGED <<file, overlapped>>
      BY <1>9, InterruptEffects DEF Working
    <2> QED
      BY <1>0, <1>1, <2>1, NumbersStay
  <1> QED
    BY <1>2, <1>3, <1>4, <1>5, <1>6, <1>7, <1>8, <1>9 DEF Next, Step

\* A cycle's number is its own, whatever is killed, while no two cycles have been under way
\* together.
THEOREM NumbersAreNotReused == Spec => []NumbersAreSpent
  <1>1. NumberInv => NumbersAreSpent
    BY DEF NumberInv, Spent, NumbersAreSpent
  <1> QED
    BY <1>1, TeamInitType, TeamNextType, NumberInit, NumberNext, PTL DEF Spec

-------------------------------------------------------------------------------
(* The gates and the broken work.                                               *)

\* The turns that leave the work alone keep the branch, and do not mend how the run ends.
LEMMA TurnEffects ==
  ASSUME TeamType, NEW r \in Runs,
         Round(r) \/ Rule(r) \/ Design(r) \/ Retro(r) \/ Review(r) \/ Ship(r)
  PROVE  /\ cycle'[r].branch = cycle[r].branch
         /\ cycle'[r].exit = "fine" => cycle[r].exit = "fine"
         /\ UNCHANGED <<trees, broken>>
  <1>0. cycle[r] \in Cycle /\ cycle \in [Runs -> Cycle] /\ TypeOK
    BY DEF TeamType, TypeOK
  <1>1. ASSUME NEW end \in Ends
        PROVE  /\ Asked(r, end) \in Cycle /\ Asked(r, end).branch = cycle[r].branch
               /\ Asked(r, end).exit = "fine" => cycle[r].exit = "fine"
    BY <1>0, AskedType DEF Ends
  <1>2. UNCHANGED <<trees, broken>>
    BY DEF Round, Rule, Design, Retro, Review, Ship, repoVars
  <1>3. CASE Ship(r)
    <2>1. \/ cycle' = cycle
          \/ cycle' = [cycle EXCEPT ![r] = [cycle[r] EXCEPT !.exit = "failure"]]
      BY <1>0, <1>3 DEF Ship
    <2> QED
      BY <1>0, <1>2, <2>1 DEF Cycle
  <1>4. CASE Round(r) \/ Rule(r) \/ Design(r) \/ Retro(r) \/ Review(r)
    <2>1. \E end \in Ends, n \in Nat, resume \in Runs \cup {None}, v \in {"pass", "block"},
             q \in {"pass", "block"} :
            \/ cycle' = [cycle EXCEPT ![r] = Asked(r, end)]
            \/ cycle' = [cycle EXCEPT ![r] = [Asked(r, end) EXCEPT !.rounds = n]]
            \/ cycle' = [cycle EXCEPT ![r] =
                           [Asked(r, end) EXCEPT !.resume = resume, !.rounds = 0, !.seen = NoState]]
            \/ cycle' = [cycle EXCEPT ![r] = [Asked(r, end) EXCEPT !.review = v, !.qa = q]]
      <3>1. CASE Round(r)
        <4>1. PICK end \in Ends :
                cycle' = [cycle EXCEPT ![r] = [Asked(r, end) EXCEPT !.rounds = @ + 1]]
          BY <3>1 DEF Round
        <4>2. Asked(r, end).rounds + 1 \in Nat
          BY <1>1 DEF Cycle
        <4>3. cycle' = [cycle EXCEPT ![r] = [Asked(r, end) EXCEPT !.rounds = Asked(r, end).rounds + 1]]
          BY <4>1
        <4> QED
          BY <4>2, <4>3
      <3>2. CASE Rule(r)
        <4>1. cycle[r].seen.parked \in Runs \cup {None}
          BY <1>0 DEF Cycle, State
        <4>2. PICK end \in Ends, resume \in Runs \cup {None, cycle[r].seen.parked} :
                cycle' = [cycle EXCEPT ![r] =
                            [Asked(r, end) EXCEPT !.resume = resume, !.rounds = 0, !.seen = NoState]]
          BY <3>2 DEF Rule
        <4> QED
          BY <4>1, <4>2
      <3>3. CASE Design(r) \/ Retro(r)
        BY <3>3 DEF Design, Retro
      <3>4. CASE Review(r)
        <4>1. PICK end \in Ends, v \in {"pass", "block"}, q \in {"pass", "block"} :
                \/ cycle' = [cycle EXCEPT ![r] = Asked(r, end)]
                \/ cycle' = [cycle EXCEPT ![r] = [Asked(r, end) EXCEPT !.review = v, !.qa = q]]
          BY <3>4 DEF Review
        <4> QED
          BY <4>1
      <3> QED
        BY <1>4, <3>1, <3>2, <3>3, <3>4
    <2>2. PICK end \in Ends, n \in Nat, resume \in Runs \cup {None}, v \in {"pass", "block"},
               q \in {"pass", "block"} :
            \/ cycle' = [cycle EXCEPT ![r] = Asked(r, end)]
            \/ cycle' = [cycle EXCEPT ![r] = [Asked(r, end) EXCEPT !.rounds = n]]
            \/ cycle' = [cycle EXCEPT ![r] =
                           [Asked(r, end) EXCEPT !.resume = resume, !.rounds = 0, !.seen = NoState]]
            \/ cycle' = [cycle EXCEPT ![r] = [Asked(r, end) EXCEPT !.review = v, !.qa = q]]
      BY <2>1
    <2> DEFINE a == Asked(r, end)
    <2>3. a \in Cycle /\ a.branch = cycle[r].branch /\ (a.exit = "fine" => cycle[r].exit = "fine")
      BY <1>1
    <2>4. \/ cycle' = [cycle EXCEPT ![r] = a]
          \/ cycle' = [cycle EXCEPT ![r] = [a EXCEPT !.rounds = n]]
          \/ cycle' = [cycle EXCEPT ![r] = [a EXCEPT !.resume = resume, !.rounds = 0, !.seen = NoState]]
          \/ cycle' = [cycle EXCEPT ![r] = [a EXCEPT !.review = v, !.qa = q]]
      BY <2>2
    <2> HIDE DEF a
    <2>5. cycle'[r].branch = a.branch /\ cycle'[r].exit = a.exit
      <3>1. CASE cycle' = [cycle EXCEPT ![r] = a]
        BY <1>0, <3>1
      <3>2. CASE cycle' = [cycle EXCEPT ![r] = [a EXCEPT !.rounds = n]]
        BY <1>0, <2>3, <3>2 DEF Cycle
      <3>3. CASE cycle' = [cycle EXCEPT ![r] =
                             [a EXCEPT !.resume = resume, !.rounds = 0, !.seen = NoState]]
        BY <1>0, <2>3, <3>3 DEF Cycle
      <3>4. CASE cycle' = [cycle EXCEPT ![r] = [a EXCEPT !.review = v, !.qa = q]]
        BY <1>0, <2>3, <3>4 DEF Cycle
      <3> QED
        BY <2>4, <3>1, <3>2, <3>3, <3>4
    <2> QED
      BY <1>2, <2>3, <2>5
  <1> QED
    BY <1>3, <1>4

\* A dev's turn: its branch is broken unless it ends well, and then the run does not end well.
LEMMA WorkEffects ==
  ASSUME TeamType, NEW r \in Runs, Develop(r) \/ Repair(r)
  PROVE  /\ cycle'[r].branch = cycle[r].branch /\ pc'[r] # "ship"
         /\ broken' = broken \ {cycle[r].branch} \/ cycle'[r].exit # "fine"
         /\ UNCHANGED <<pushed, trees>>
  <1>0. cycle[r] \in Cycle /\ cycle \in [Runs -> Cycle] /\ TypeOK
    BY DEF TeamType, TypeOK
  <1>1. PICK place \in {"review", "finish"} : Work(r, place)
    BY DEF Develop, Repair, AfterRepair, Onward
  <1>2. PICK end \in Ends :
          /\ cycle' = [cycle EXCEPT ![r] = [Asked(r, end) EXCEPT !.repairs = Passes(r)]]
          /\ broken' = IF end = "ok" THEN broken \ {cycle[r].branch} ELSE broken \cup {cycle[r].branch}
          /\ GoTo(r, IF end = "ok" THEN place ELSE "finish")
          /\ UNCHANGED <<pushed, trees>>
    BY <1>1 DEF Work
  <1> DEFINE a == Asked(r, end)
  <1>3. a \in Cycle /\ a.branch = cycle[r].branch /\ a.exit = IF end = "ok" THEN cycle[r].exit ELSE end
    BY <1>0, AskedType
  <1>4. cycle' = [cycle EXCEPT ![r] = [a EXCEPT !.repairs = Passes(r)]]
    BY <1>2
  <1> HIDE DEF a
  <1>5. cycle'[r].branch = a.branch /\ cycle'[r].exit = a.exit
    BY <1>0, <1>3, <1>4 DEF Cycle
  <1>6. pc'[r] # "ship"
    BY <1>0, <1>2 DEF GoTo, TypeOK
  <1> QED
    BY <1>2, <1>3, <1>5, <1>6 DEF Ends

\* A branch that the cycle takes up is not broken any more.
LEMMA BuildEffects ==
  ASSUME TeamType, NEW r \in Runs, Build(r)
  PROVE  /\ pc'[r] # "ship" /\ UNCHANGED pushed /\ trees \subseteq trees'
         /\ cycle'[r].exit # "fine" \/ broken' = broken \ {cycle'[r].branch}
  <1>0. cycle[r] \in Cycle /\ cycle \in [Runs -> Cycle] /\ TypeOK
    BY DEF TeamType, TypeOK
  <1> DEFINE resumes == cycle[r].resume # None /\ head[cycle[r].resume] # "none"
             b == IF resumes THEN cycle[r].resume ELSE r
  <1>1. PICK fails \in {"no", "fetch", "worktree"} :
          /\ cycle' = [cycle EXCEPT ![r] =
                         [cycle[r] EXCEPT !.branch = IF fails = "fetch" THEN None ELSE b,
                                          !.exit = IF fails = "no" THEN cycle[r].exit ELSE "failure"]]
          /\ IF fails = "no"
               THEN trees' = trees \cup {b} /\ broken' = broken \ {b} /\ GoTo(r, "develop")
               ELSE GoTo(r, "finish") /\ UNCHANGED <<trees, broken>>
    BY DEF Build
  <1> HIDE DEF b, resumes
  <1>2. /\ cycle'[r].branch = IF fails = "fetch" THEN None ELSE b
        /\ cycle'[r].exit = IF fails = "no" THEN cycle[r].exit ELSE "failure"
    BY <1>0, <1>1 DEF Cycle
  <1>3. pc'[r] # "ship" /\ trees \subseteq trees'
    BY <1>0, <1>1 DEF GoTo, TypeOK
  <1> QED
    BY <1>1, <1>2, <1>3 DEF Build

\* While no cycles have overlapped: what is about to be shipped and what is pushed has been
\* through the gates; and the branch of a run that has so far gone well is not broken.
GateInv ==
  ~overlapped =>
    /\ \A r \in Runs : pc[r] = "ship" => head[cycle[r].branch] # "new"
    /\ \A b \in Runs : pushed[b] # "new"

KeptInv ==
  ~overlapped => \A r \in Runs :
    pc[r] \in Working /\ cycle[r].branch # None /\ cycle[r].exit = "fine"
      => cycle[r].branch \notin broken

\* At the start nothing is pushed and nothing broken off.
LEMMA GateInit == Init => GateInv /\ KeptInv
  BY DEF Init, GateInv, KeptInv, NoCycle

\* While a run is under way the others are not, after its step neither.
LEMMA OthersRest ==
  ASSUME TypeOK, Sole, NEW r \in Runs, UnderWay(r), Alone(r), NEW s \in Runs \ {r}
  PROVE  pc[s] \notin Working \cup {"claim"} /\ pc'[s] \notin Working \cup {"claim"}
  BY NumberTypes DEF Sole, Alone

\* A review leaves a verdict of the gates on the head that goes on to be shipped.
LEMMA ReviewGates ==
  ASSUME TeamType, NEW r \in Runs, Review(r), pc'[r] = "ship"
  PROVE  head'[cycle'[r].branch] # "new"
  <1>0. /\ cycle[r] \in Cycle /\ cycle \in [Runs -> Cycle] /\ TypeOK
        /\ cycle[r].branch \in Runs
    BY DEF TeamType, TypeOK, BranchAt, Review
  <1>1. PICK end \in Ends, review \in {"pass", "block"}, qa \in {"pass", "block"}, touches \in BOOLEAN :
          LET c == [Asked(r, end) EXCEPT !.review = review, !.qa = qa]
          IN IF end = "ok"
               THEN /\ cycle' = [cycle EXCEPT ![r] = c]
                    /\ head' = [head EXCEPT ![c.branch] = Verdict(c, touches)]
                    /\ GoTo(r, IF Blocked(c) /\ MayRepair(c) THEN "repair" ELSE Onward(r, 5, "ship"))
               ELSE /\ cycle' = [cycle EXCEPT ![r] = Asked(r, end)]
                    /\ GoTo(r, "finish") /\ UNCHANGED head
    BY DEF Review, Verdict
  <1>2. end = "ok"
    <2>1. GoTo(r, "finish") => pc'[r] = "finish"
      BY <1>0 DEF GoTo, TypeOK
    <2> QED
      BY <1>1, <2>1
  <1> DEFINE a == Asked(r, end)
             c == [a EXCEPT !.review = review, !.qa = qa]
  <1>3. a \in Cycle /\ a.branch = cycle[r].branch
    BY <1>0, AskedType
  <1>4. head' = [head EXCEPT ![c.branch] = Verdict(c, touches)]
    BY <1>1, <1>2
  <1> HIDE DEF a
  <1>5. c.branch = cycle[r].branch
    BY <1>3 DEF Cycle
  <1> HIDE DEF c
  <1>6. cycle'[r].branch = cycle[r].branch
    BY TurnEffects
  <1> QED
    BY <1>0, <1>4, <1>5, <1>6 DEF TypeOK, Verdict

\* What a step of a phase does to the gates' verdicts.
LEMMA PhaseGates ==
  ASSUME TeamType, NumberInv, GateInv, ~overlapped, NEW r \in Runs,
         \/ Round(r) \/ Rule(r) \/ Design(r) \/ Build(r) \/ Develop(r)
         \/ Review(r) \/ Repair(r) \/ Ship(r) \/ Retro(r)
  PROVE  GateInv'
  <1>0. TypeOK /\ pc[r] \in Working /\ Alone(r) /\ UnderWay(r) /\ Sole
    BY PhaseEffects, WhoIsUnderWay DEF TeamType, NumberInv
  <1>1. \A s \in Runs \ {r} : pc'[s] # "ship"
    BY <1>0, OthersRest DEF Working
  <1>2. ASSUME pc'[r] = "ship" PROVE head'[cycle'[r].branch] # "new"
    <2>1. ~Build(r) /\ ~Develop(r) /\ ~Repair(r)
      BY <1>2, BuildEffects, WorkEffects
    <2>2. ~Round(r) /\ ~Rule(r) /\ ~Design(r) /\ ~Retro(r)
      BY <1>0, <1>2 DEF Round, Rule, Design, Retro, GoTo, Onward, TypeOK
    <2>3. ~Ship(r)
      BY <1>0, <1>2 DEF Ship, GoTo, Onward, TypeOK
    <2> QED
      BY <1>2, <2>1, <2>2, <2>3, ReviewGates
  <1>3. ASSUME NEW b \in Runs PROVE pushed'[b] # "new"
    <2>1. CASE Ship(r)
      BY <1>0, <2>1 DEF Ship, GateInv, TypeOK
    <2>2. CASE ~Ship(r)
      <3>1. UNCHANGED pushed
        BY <2>2, BuildEffects, WorkEffects DEF Round, Rule, Design, Retro, Review, repoVars
      <3> QED
        BY <3>1 DEF GateInv
    <2> QED
      BY <2>1, <2>2
  <1> QED
    BY <1>1, <1>2, <1>3 DEF GateInv

\* What a step of a phase does to the broken branches.
LEMMA PhaseKeeps ==
  ASSUME TeamType, NumberInv, KeptInv, ~overlapped, NEW r \in Runs,
         \/ Round(r) \/ Rule(r) \/ Design(r) \/ Build(r) \/ Develop(r)
         \/ Review(r) \/ Repair(r) \/ Ship(r) \/ Retro(r)
  PROVE  KeptInv'
  <1>0. TypeOK /\ pc[r] \in Working /\ Alone(r) /\ UnderWay(r) /\ Sole
    BY PhaseEffects, WhoIsUnderWay DEF TeamType, NumberInv
  <1>1. \A s \in Runs \ {r} : pc'[s] \notin Working
    BY <1>0, OthersRest
  <1>2. ASSUME cycle'[r].branch # None, cycle'[r].exit = "fine" PROVE cycle'[r].branch \notin broken'
    <2>1. CASE Build(r)
      BY <1>2, <2>1, BuildEffects
    <2>2. CASE Develop(r) \/ Repair(r)
      BY <1>2, <2>2, WorkEffects
    <2>3. CASE Round(r) \/ Rule(r) \/ Design(r) \/ Retro(r) \/ Review(r) \/ Ship(r)
      BY <1>0, <1>2, <2>3, TurnEffects DEF KeptInv
    <2> QED
      BY <2>1, <2>2, <2>3
  <1> QED
    BY <1>1, <1>2 DEF KeptInv

\* Every step keeps what is at the push gated and what is broken off on disk.
LEMMA GateNext == TeamType /\ NumberInv /\ GateInv /\ KeptInv /\ [Next]_vars => GateInv' /\ KeptInv'
  <1> SUFFICES ASSUME TeamType, NumberInv, GateInv, KeptInv, [Next]_vars PROVE GateInv' /\ KeptInv'
    OBVIOUS
  <1>0. TypeOK
    BY DEF TeamType
  <1>1. CASE UNCHANGED vars
    BY <1>1 DEF vars, startVars, repoVars, GateInv, KeptInv
  <1>2. ASSUME NEW r \in Runs, Launch(r) \/ Look(r) \/ Lock(r) \/ Preflight(r) PROVE GateInv' /\ KeptInv'
    <2>1. /\ Alone(r) /\ UNCHANGED <<head, pushed, broken>> /\ overlapped => overlapped'
          /\ pc'[r] \in {"look", "lock", "preflight", "out", "claim"}
      BY <1>2, StartEffects DEF repoVars
    <2> QED
      BY <1>2, <2>1, StartEffects DEF GateInv, KeptInv, Alone, Working, repoVars
  <1>3. ASSUME NEW r \in Runs, Claim(r) PROVE GateInv' /\ KeptInv'
    <2>1. /\ pc'[r] \in {"finish", "groom"} /\ UNCHANGED <<head, pushed, broken, overlapped>>
          /\ Alone(r)
      BY <1>0, <1>3 DEF Claim, Claiming, GoTo, Alone, TypeOK, repoVars
    <2>2. cycle'[r].branch = None
      <3>1. cycle[r] \in Cycle /\ cycle[r].branch = None
        BY <1>3 DEF Claim, Claiming, TeamType, TypeOK, BranchAt
      <3>2. cycle' = [cycle EXCEPT ![r] = [cycle[r] EXCEPT !.number = cycle[r].seen.number + 1]]
        BY <1>3 DEF Claim, Claiming
      <3> QED
        BY <1>0, <3>1, <3>2 DEF Cycle, TypeOK
    <2> QED
      BY <2>1, <2>2 DEF GateInv, KeptInv, Alone
  <1>4. ASSUME NEW r \in Runs,
               \/ Round(r) \/ Rule(r) \/ Design(r) \/ Build(r) \/ Develop(r)
               \/ Review(r) \/ Repair(r) \/ Ship(r) \/ Retro(r)
        PROVE  GateInv' /\ KeptInv'
    <2>1. CASE overlapped
      BY <1>4, <2>1, PhaseEffects DEF GateInv, KeptInv
    <2>2. CASE ~overlapped
      BY <1>4, <2>2, PhaseGates, PhaseKeeps
    <2> QED
      BY <2>1, <2>2
  <1>5. ASSUME NEW r \in Runs, Finish(r) PROVE GateInv' /\ KeptInv'
    <2>1. /\ pc[r] = "finish" /\ pc' = [pc EXCEPT ![r] = "clean"]
          /\ UNCHANGED <<cycle, head, pushed, broken, overlapped>>
      BY <1>5 DEF Finish, GoTo, repoVars
    <2> QED
      BY <1>0, <2>1 DEF GateInv, KeptInv, Working, TypeOK
  <1>6. ASSUME NEW r \in Runs, Clean(r) \/ Kill(r) PROVE GateInv' /\ KeptInv'
    <2>1. pc'[r] \in {"out", "dead"} /\ Alone(r) /\ UNCHANGED <<head, pushed, overlapped>>
      BY <1>6, EndEffects DEF Clean, Kill
    <2>2. GateInv'
      BY <2>1 DEF GateInv, Alone
    <2>3. ASSUME NEW s \in Runs, pc'[s] \in Working, ~overlapped PROVE broken' = broken
      <3>1. s # r /\ pc[s] \in Working
        BY <2>1, <2>3 DEF Alone, Working
      <3>2. pc[r] \notin Working
        BY <1>0, <2>3, <3>1, WhoIsUnderWay DEF NumberInv, Sole
      <3> QED
        BY <1>6, <3>2 DEF Clean, Kill, Working
    <2>4. KeptInv'
      BY <2>1, <2>3 DEF KeptInv, Alone, Working
    <2> QED
      BY <2>2, <2>4
  <1>7. CASE CommitNotes \/ TurnWindow \/ \E b \in Runs : Merge(b)
    <2>1. /\ UNCHANGED <<pc, overlapped, broken, head, pushed>>
          /\ \A r \in Runs : cycle'[r].branch = cycle[r].branch /\ cycle'[r].exit = cycle[r].exit
      BY <1>7, SurroundingsEffects
    <2> QED
      BY <2>1 DEF GateInv, KeptInv
  <1>8. ASSUME NEW r \in Runs, Interrupt(r) PROVE GateInv' /\ KeptInv'
    <2>1. /\ pc[r] \in Working /\ pc'[r] = "finish" /\ Alone(r)
          /\ cycle'[r].branch = cycle[r].branch /\ cycle'[r].exit = cycle[r].exit
          /\ UNCHANGED <<overlapped, head, pushed, broken>>
      BY <1>8, InterruptEffects
    <2> QED
      BY <2>1 DEF GateInv, KeptInv, Alone
  <1> QED
    BY <1>1, <1>2, <1>3, <1>4, <1>5, <1>6, <1>7, <1>8 DEF Next, Step

\* Whatever the agents decide and wherever a cycle breaks off, no head is pushed that QA and the
\* code review have not seen: a repair is gated again, and only a gated head comes to phase 6.
THEOREM NothingShipsUngated == Spec => []OnlyGatedCommitsShip
  <1>1. GateInv => OnlyGatedCommitsShip
    BY DEF GateInv, OnlyGatedCommitsShip
  <1> QED
    BY <1>1, TeamInitType, TeamNextType, NumberInit, NumberNext, GateInit, GateNext, PTL DEF Spec

\* The end of a cycle removes no worktree in which a dev has failed, run out of the window or
\* been killed; it may well remove one in which the dev was interrupted or cut short.
THEOREM BrokenWorkStays == Spec => BrokenWorkIsKept
  <1>1. ASSUME TeamType, KeptInv, [Next]_vars, ~overlapped, NEW b \in trees \ trees'
        PROVE  b \notin broken
    <2>1. PICK r \in Runs : Clean(r)
      <3>1. ASSUME NEW r \in Runs,
                   \/ Round(r) \/ Rule(r) \/ Design(r) \/ Build(r) \/ Develop(r)
                   \/ Review(r) \/ Repair(r) \/ Ship(r) \/ Retro(r)
            PROVE  trees \subseteq trees'
        BY <1>1, <3>1, TurnEffects, WorkEffects, BuildEffects
      <3>2. ASSUME NEW r \in Runs,
                   \/ Launch(r) \/ Look(r) \/ Lock(r) \/ Preflight(r) \/ Claim(r) \/ Finish(r) \/ Kill(r)
                   \/ Interrupt(r)
            PROVE  UNCHANGED trees
        BY <3>2 DEF Launch, Look, Lock, Preflight, Claim, Claiming, Finish, Kill, Interrupt, repoVars
      <3>3. CASE CommitNotes \/ TurnWindow \/ \E c \in Runs : Merge(c)
        BY <1>1, <3>3, SurroundingsEffects
      <3>4. CASE UNCHANGED vars
        BY <1>1, <3>4 DEF vars, repoVars
      <3> QED
        BY <1>1, <3>1, <3>2, <3>3, <3>4 DEF Next, Step
    <2>2. pc[r] = "clean" /\ ~Parked(cycle[r]) /\ b = cycle[r].branch
      BY <1>1, <2>1 DEF Clean
    <2>3. b # None
      BY <1>1, TeamAssumption DEF TeamAssumption, TeamType, TypeOK
    <2> QED
      BY <1>1, <2>2, <2>3 DEF Parked, KeptInv, Working
  <1>2. TeamType /\ KeptInv /\ [Next]_vars
        => [overlapped \/ \A b \in trees \ trees' : b \notin broken]_vars
    BY <1>1
  <1> QED
    BY <1>2, TeamInitType, TeamNextType, NumberInit, NumberNext, GateInit, GateNext, PTL
    DEF Spec, BrokenWorkIsKept
================================================================================
