------------------------- MODULE CrawlFrontierProofs -------------------------
(* Proofs about CrawlFrontier for every frontier, link graph, number of         *)
(* workers and bound: the types, that a claim is exclusive, that a claimed row  *)
(* is held, that a closed row lost nothing, and that the whole is the work      *)
(* queue of WorkQueue.                                                          *)
EXTENDS CrawlFrontier, FiniteSetTheorems, TLAPS

-----------------------------------------------------------------------------
(* Lemmas about the helpers the actions are built from.                        *)

\* The constants an action's types rest on.
LEMMA Bounds ==
    /\ Self \in Pages
    /\ PagesPerVisit \in Nat /\ ClaimAttempts \in Nat
    /\ \A u \in Pages : /\ UnitCount(u) \in Nat
                         /\ DOMAIN Links[u] = 1..UnitCount(u)
                         /\ \A n \in 1..UnitCount(u) : Links[u][n] \in Seq(Pages)
  BY FrontierAssumption DEF UnitCount

\* Every page has a unit.
LEMMA UnitsPositive == \A u \in Pages : UnitCount(u) \in Nat \ {0}
  BY FrontierAssumption DEF UnitCount

\* A member of a list sits at the index IndexIn names.
LEMMA IndexInList ==
    ASSUME NEW list \in Seq(Pages), NEW u \in ToSet(list)
    PROVE  /\ IndexIn(list, u) \in 1..Len(list)
           /\ list[IndexIn(list, u)] = u
  <1>1. \E i \in DOMAIN list : list[i] = u
    BY DEF ToSet
  <1>2. DOMAIN list = 1..Len(list)
    OBVIOUS
  <1> QED
    BY <1>1, <1>2 DEF IndexIn

\* Every order in which a replay may enqueue is a list of pages.
LEMMA ReplayLists ==
    ASSUME NEW u \in Pages,
           NEW list \in SetToSeqs(IF depth[u] < MaxDepth THEN Stored[u] ELSE {})
    PROVE  list \in Seq(Pages)
  <1> DEFINE S == IF depth[u] < MaxDepth THEN Stored[u] ELSE {}
  <1>1. S \subseteq Pages
    BY FrontierAssumption
  <1>2. Cardinality(S) \in Nat
    BY <1>1, FrontierAssumption, FS_Subset, FS_CardinalityType
  <1>3. list \in [1..Cardinality(S) -> S]
    BY DEF SetToSeqs
  <1> HIDE DEF S
  <1> QED
    BY <1>1, <1>2, <1>3

\* The part of TypeOK that speaks of the table's primary key.
Keys ==
    /\ serial \in Nat /\ id \in [Pages -> Nat] /\ status \in [Pages -> Status]
    /\ \A u \in Pages : id[u] = 0 <=> status[u] = "absent"
    /\ \A u \in Pages : id[u] <= serial
    /\ \A u, v \in Queued : id[u] = id[v] => u = v

\* enqueue keeps the key a key, touches no row that exists, and adds PENDING rows.
LEMMA EnqueueKeepsKeys ==
    ASSUME Keys, NEW list \in Seq(Pages), NEW d, Enqueue(list, d)
    PROVE  /\ Keys'
           /\ \A u \in Pages : status'[u] # status[u] =>
                  status[u] = "absent" /\ status'[u] = "pending"
  <1> DEFINE new == NewOf(list)
  <1>1. /\ new \subseteq Pages
        /\ \A u \in new : /\ IndexIn(list, u) \in 1..Len(list)
                          /\ list[IndexIn(list, u)] = u
                          /\ id[u] = 0
    BY IndexInList DEF NewOf, Discovered, ToSet
  <1>2. Len(list) \in Nat
    OBVIOUS
  <1>3. /\ id' = [u \in Pages |-> IF u \in new THEN serial + IndexIn(list, u) ELSE id[u]]
        /\ serial' = IF new = {} THEN serial ELSE serial + Len(list)
        /\ status' = [u \in Pages |-> IF u \in new THEN "pending" ELSE status[u]]
    BY DEF Enqueue
  <1> HIDE DEF new
  <1>4. /\ serial' \in Nat /\ id' \in [Pages -> Nat] /\ status' \in [Pages -> Status]
        /\ serial <= serial'
    BY <1>1, <1>2, <1>3 DEF Keys, Status
  <1>5. \A u \in Pages : id'[u] = 0 <=> status'[u] = "absent"
    BY <1>1, <1>3 DEF Keys
  <1>6. \A u \in Pages : id'[u] <= serial'
    <2> TAKE u \in Pages
    <2>1. CASE u \in new
      BY <2>1, <1>1, <1>2, <1>3 DEF Keys
    <2>2. CASE u \notin new
      BY <2>2, <1>3, <1>4 DEF Keys
    <2> QED BY <2>1, <2>2
  <1>7. \A u, v \in Queued' : id'[u] = id'[v] => u = v
    <2> SUFFICES ASSUME NEW u \in Pages, NEW v \in Pages, id'[u] # 0, id'[u] = id'[v]
                 PROVE  u = v
      BY DEF Queued
    <2>1. CASE u \in new /\ v \in new
      <3>1. serial + IndexIn(list, u) = serial + IndexIn(list, v)
        BY <2>1, <1>3
      <3>2. IndexIn(list, u) = IndexIn(list, v)
        BY <3>1, <2>1, <1>1, <1>2 DEF Keys
      <3> QED
        BY <3>2, <2>1, <1>1
    <2>2. CASE u \in new /\ v \notin new
      BY <2>2, <1>1, <1>2, <1>3 DEF Keys
    <2>3. CASE u \notin new /\ v \in new
      BY <2>3, <1>1, <1>2, <1>3 DEF Keys
    <2>4. CASE u \notin new /\ v \notin new
      BY <2>4, <1>3 DEF Keys, Queued
    <2> QED BY <2>1, <2>2, <2>3, <2>4
  <1>8. \A u \in Pages : status'[u] # status[u] =>
            status[u] = "absent" /\ status'[u] = "pending"
    BY <1>1, <1>3 DEF Keys
  <1> QED
    BY <1>4, <1>5, <1>6, <1>7, <1>8 DEF Keys

\* Closing or claiming a row that exists leaves the key alone.
LEMMA MarkKeepsKeys ==
    ASSUME Keys, NEW u \in Pages, NEW s \in Status \ {"absent"},
           status[u] # "absent", Mark(u, s), UNCHANGED <<serial, id>>
    PROVE  Keys'
  BY DEF Keys, Mark, Queued

-----------------------------------------------------------------------------
(* Types.                                                                      *)

\* The part of TypeOK that speaks of everything but the key and the status.
Rest ==
    /\ attempts \in [Pages -> Nat] /\ depth \in [Pages -> Nat]
    /\ timeouts \in [Pages -> Nat] /\ cursor \in [Pages -> Nat]
    /\ stale \in [Pages -> BOOLEAN]
    /\ ingested \in [Pages -> SUBSET Nat]
    /\ elsewhere \subseteq Shared
    /\ pc \in [Workers -> Control] /\ cur \in [Workers -> Pages]
    /\ seen \in [Workers -> Status]
    /\ tries \in [Workers -> Nat] /\ attempt \in [Workers -> Nat]
    /\ pos \in [Workers -> Nat] /\ left \in [Workers -> Nat]
    /\ chain \in {"queued", "slicing", "over", "failed"}
    /\ exhausted \in BOOLEAN
    /\ kills \in Nat /\ faults \in Nat

\* TypeOK is the key of the table and the rest.
LEMMA TypeSplit == TypeOK <=> Keys /\ Rest
  BY DEF TypeOK, Keys, Rest

\* A worker at work, claiming or holding, is at a row of the table.
AtARow == \A w \in Workers : pc[w] \in Holding \cup {"selected"} => status[cur[w]] # "absent"

\* seen is a status the row had, and a row never goes back to being absent.
TypeInv == TypeOK /\ AtARow

\* The types hold once start_scan has put the seeds on the frontier.
LEMMA InitType == Init => TypeInv
  <1> SUFFICES ASSUME Init PROVE TypeInv
    OBVIOUS
  <1> USE FrontierAssumption
  <1>1. SeedSet = ToSet(Seeds) /\ SeedSet \subseteq Pages
    BY DEF SeedSet, ToSet
  <1>2. \A u \in SeedSet : IndexIn(Seeds, u) \in 1..Len(Seeds) /\ Seeds[IndexIn(Seeds, u)] = u
    BY <1>1, IndexInList
  <1>3. Len(Seeds) \in Nat
    OBVIOUS
  <1>4. Keys
    <2>1. /\ serial \in Nat /\ id \in [Pages -> Nat] /\ status \in [Pages -> Status]
          /\ \A u \in Pages : id[u] = 0 <=> status[u] = "absent"
          /\ \A u \in Pages : id[u] <= serial
      BY <1>1, <1>2, <1>3 DEF Init, Status
    <2>2. \A u, v \in Queued : id[u] = id[v] => u = v
      BY <1>2 DEF Init, Queued
    <2> QED
      BY <2>1, <2>2 DEF Keys
  <1>5. Rest
    BY DEF Init, Rest, Control, Status
  <1>6. AtARow
    BY DEF Init, AtARow, Holding
  <1> QED
    BY <1>4, <1>5, <1>6, TypeSplit DEF TypeInv

\* A worker that drops its visit has variables of the right type.
LEMMA LeaveType ==
    ASSUME Rest, NEW w \in Workers, NEW c \in Control, Leave(w, c)
    PROVE  /\ pc' \in [Workers -> Control] /\ cur' \in [Workers -> Pages]
           /\ seen' \in [Workers -> Status]
           /\ tries' \in [Workers -> Nat] /\ attempt' \in [Workers -> Nat]
           /\ pos' \in [Workers -> Nat] /\ left' \in [Workers -> Nat]
  BY FrontierAssumption DEF Rest, Leave, Control, Status

\* The other workers at work still are at rows of the table.
LEMMA LeaveAtARow ==
    ASSUME Rest, AtARow, NEW w \in Workers, NEW c \in {"off", "again"}, Leave(w, c),
           \A u \in Pages : status[u] # "absent" => status'[u] # "absent"
    PROVE  AtARow'
  BY DEF Rest, Leave, AtARow, Holding

-----------------------------------------------------------------------------
(* One lemma per action that changes a row.                                    *)

\* Whatever a worker does, or goes wrong with it, keeps the types: one step per
\* kind of action, and under it the key, the rest and the worker's row.
LEMMA WorkerType ==
    ASSUME TypeInv, NEW w \in Workers, Work(w) \/ Trouble(w)
    PROVE  TypeInv'
  <1>0. Keys /\ Rest /\ AtARow
    BY TypeSplit DEF TypeInv
  <1>t. ASSUME Keys', Rest', AtARow' PROVE TypeInv'
    BY <1>t DEF TypeInv, TypeOK, Keys, Rest
  <1>1. CASE FindNothing(w)
    <2>1. Leave(w, "off") /\ UNCHANGED <<rowVars, envVars>>
      BY <1>1 DEF FindNothing
    <2>2. Keys'
      BY <1>0, <2>1 DEF Keys, Queued, rowVars
    <2>3. Rest'
      BY <1>0, <2>1, LeaveType DEF Rest, Control, rowVars, envVars
    <2>4. AtARow'
      BY <1>0, <2>1, LeaveAtARow DEF rowVars
    <2> QED BY <1>t, <2>2, <2>3, <2>4
  <1>11. CASE ReadBudget(w)
    <2>2. Keys'
      BY <1>0, <1>11 DEF ReadBudget, Keys, Queued, rowVars
    <2>3. CASE exhausted
      <3>1. Leave(w, "off") /\ UNCHANGED <<rowVars, envVars>>
        BY <1>11, <2>3 DEF ReadBudget
      <3>2. Rest'
        BY <1>0, <3>1, LeaveType DEF Rest, Control, rowVars, envVars
      <3>3. AtARow'
        BY <1>0, <3>1, LeaveAtARow DEF rowVars
      <3> QED BY <1>t, <2>2, <3>2, <3>3
    <2>4. CASE ~exhausted
      <3>1. /\ pc' = [pc EXCEPT ![w] = "claiming"]
            /\ UNCHANGED <<rowVars, cur, seen, tries, attempt, pos, left, envVars>>
        BY <1>11, <2>4 DEF ReadBudget
      <3>2. Rest'
        BY <1>0, <3>1 DEF Rest, Control, rowVars, envVars
      <3>3. AtARow'
        BY <1>0, <3>1 DEF AtARow, Rest, Holding, rowVars
      <3> QED BY <1>t, <2>2, <3>2, <3>3
    <2> QED BY <2>3, <2>4
  <1>2. CASE Select(w)
    <2>2. Keys'
      BY <1>0, <1>2 DEF Select, Keys, Queued, rowVars
    <2>3. Rest'
      BY <1>0, <1>2 DEF Select, Rest, Keys, Control, rowVars, envVars
    <2>4. AtARow'
      BY <1>0, <1>2 DEF Select, AtARow, Rest, Best, Claimable, Eligible, Holding, rowVars
    <2> QED BY <1>t, <2>2, <2>3, <2>4
  <1>3. CASE ClaimWins(w)
    <2>1. cur[w] \in Pages /\ status[cur[w]] # "absent"
      BY <1>0, <1>3 DEF ClaimWins, AtARow, Rest
    <2>2. Keys'
      BY <1>0, <1>3, <2>1, MarkKeepsKeys DEF ClaimWins, Status
    <2>3. Rest'
      BY <1>0, <1>3, <2>1 DEF ClaimWins, Rest, Control, envVars
    <2>4. AtARow'
      BY <1>0, <1>3, <2>1 DEF ClaimWins, Mark, AtARow, Rest, Keys, Holding
    <2> QED BY <1>t, <2>2, <2>3, <2>4
  <1>4. CASE ClaimLoses(w)
    <2>2. Keys'
      BY <1>0, <1>4 DEF ClaimLoses, Keys, Queued, rowVars
    <2>3. CASE tries[w] + 1 < ClaimAttempts
      <3>1. Rest'
        <4>1. /\ pc' = [pc EXCEPT ![w] = "claiming"] /\ tries' = [tries EXCEPT ![w] = @ + 1]
              /\ cur' = [cur EXCEPT ![w] = Self] /\ seen' = [seen EXCEPT ![w] = "absent"]
              /\ UNCHANGED <<attempt, pos, left, rowVars, envVars>>
          BY <1>4, <2>3 DEF ClaimLoses
        <4>2. pc' \in [Workers -> Control] /\ tries' \in [Workers -> Nat]
          BY <1>0, <4>1 DEF Rest, Control
        <4>3. cur' \in [Workers -> Pages] /\ seen' \in [Workers -> Status]
          BY <1>0, <4>1, Bounds DEF Rest, Status
        <4> QED
          BY <1>0, <4>1, <4>2, <4>3 DEF Rest, rowVars, envVars
      <3>2. AtARow'
        BY <1>0, <1>4, <2>3 DEF ClaimLoses, AtARow, Rest, Holding, rowVars
      <3> QED BY <1>t, <2>2, <3>1, <3>2
    <2>4. CASE ~(tries[w] + 1 < ClaimAttempts)
      <3>1. Leave(w, "off") /\ UNCHANGED <<rowVars, envVars>>
        BY <1>4, <2>4 DEF ClaimLoses
      <3>2. Rest'
        BY <1>0, <3>1, LeaveType DEF Rest, Control, rowVars, envVars
      <3>3. AtARow'
        BY <1>0, <3>1, LeaveAtARow DEF rowVars
      <3> QED BY <1>t, <2>2, <3>2, <3>3
    <2> QED BY <2>3, <2>4
  <1>5. CASE Reuse(w)
    <2> DEFINE u == cur[w]
    <2>1. u \in Pages
      BY <1>0 DEF Rest
    <2>2. PICK list \in SetToSeqs(IF depth[u] < MaxDepth THEN Stored[u] ELSE {}) :
                 Enqueue(list, depth[u] + 1)
      BY <1>5 DEF Reuse
    <2>4. list \in Seq(Pages)
      BY <2>1, <2>2, ReplayLists
    <2>5. Keys' /\ \A v \in Pages : status'[v] # status[v] =>
                       status[v] = "absent" /\ status'[v] = "pending"
      BY <1>0, <2>2, <2>4, EnqueueKeepsKeys
    <2>6. depth' \in [Pages -> Nat] /\ UnitCount(u) \in Nat
      <3>1. depth' = [v \in Pages |-> IF v \in NewOf(list) THEN depth[u] + 1 ELSE depth[v]]
        BY <2>2 DEF Enqueue
      <3>2. depth \in [Pages -> Nat] /\ depth[u] + 1 \in Nat
        BY <1>0, <2>1 DEF Rest
      <3> QED
        BY <2>1, <3>1, <3>2, Bounds
    <2>7. Rest'
      BY <1>0, <1>5, <2>1, <2>6 DEF Reuse, Rest, Control, envVars
    <2>8. AtARow'
      BY <1>0, <1>5, <2>1, <2>5 DEF Reuse, AtARow, Rest, Holding
    <2> QED BY <1>t, <2>5, <2>7, <2>8
  <1>6. CASE BeginVisit(w)
    <2>2. Keys'
      BY <1>0, <1>6 DEF BeginVisit, Keys, Queued, rowVars
    <2>3. Rest'
      <3>1. /\ cursor[cur[w]] \in Nat
            /\ (IF cursor[cur[w]] = 0 THEN PagesPerVisit + 1 ELSE PagesPerVisit) \in Nat
        BY <1>0, Bounds DEF Rest
      <3>2. pos' \in [Workers -> Nat] /\ left' \in [Workers -> Nat]
        BY <1>0, <1>6, <3>1 DEF BeginVisit, Rest
      <3> QED
        BY <1>0, <1>6, <3>2 DEF BeginVisit, Rest, Control, rowVars, envVars
    <2>4. AtARow'
      BY <1>0, <1>6 DEF BeginVisit, AtARow, Rest, Holding, rowVars
    <2> QED BY <1>t, <2>2, <2>3, <2>4
  <1>7. CASE ReadUnit(w)
    <2> DEFINE u == cur[w]
               n == pos[w] + 1
    <2>1. u \in Pages /\ n \in Nat
      BY <1>0 DEF Rest
    <2>2. Enqueue(Revealed(u, n), depth[u] + 1)
      BY <1>7 DEF ReadUnit
    <2>3. UnitCount(u) \in Nat /\ pos[w] < UnitCount(u) /\ left[w] > 0
      BY <1>7, <2>1, Bounds DEF ReadUnit, UnitsRemain
    <2>4. n \in 1..UnitCount(u)
      BY <1>0, <2>1, <2>3 DEF Rest
    <2>5. Revealed(u, n) \in Seq(Pages)
      BY <2>1, <2>4, Bounds DEF Revealed
    <2>6. Keys' /\ \A v \in Pages : status'[v] # status[v] =>
                       status[v] = "absent" /\ status'[v] = "pending"
      BY <1>0, <2>2, <2>5, EnqueueKeepsKeys
    <2>7. depth' \in [Pages -> Nat]
      <3>1. depth' = [v \in Pages |-> IF v \in NewOf(Revealed(u, n)) THEN depth[u] + 1 ELSE depth[v]]
        BY <2>2 DEF Enqueue
      <3>2. depth \in [Pages -> Nat] /\ depth[u] + 1 \in Nat
        BY <1>0, <2>1 DEF Rest
      <3> QED
        BY <3>1, <3>2
    <2>8. Rest'
      <3>1. Bookmark(u, n) \in Nat
        BY <2>1 DEF Bookmark
      <3>2. /\ ingested' = [ingested EXCEPT ![u] = @ \cup {n}]
            /\ cursor' = [cursor EXCEPT ![u] = Bookmark(u, n)]
            /\ stale' = [stale EXCEPT ![u] = FALSE]
            /\ pos' = [pos EXCEPT ![w] = n] /\ left' = [left EXCEPT ![w] = @ - 1]
            /\ UNCHANGED <<attempts, timeouts, pc, cur, seen, tries, attempt, envVars>>
        BY <1>7 DEF ReadUnit
      <3>3. left[w] - 1 \in Nat
        BY <1>0, <2>3 DEF Rest
      <3>4. ingested' \in [Pages -> SUBSET Nat] /\ cursor' \in [Pages -> Nat]
        BY <1>0, <2>1, <3>1, <3>2 DEF Rest
      <3>5. pos' \in [Workers -> Nat] /\ left' \in [Workers -> Nat]
        BY <1>0, <2>1, <3>2, <3>3 DEF Rest
      <3> HIDE DEF n
      <3> QED
        BY <1>0, <2>7, <3>2, <3>4, <3>5 DEF Rest, envVars
    <2>9. AtARow'
      BY <1>0, <1>7, <2>1, <2>6 DEF ReadUnit, AtARow, Rest, Holding
    <2> QED BY <1>t, <2>6, <2>8, <2>9
  <1>8. CASE MarkDone(w) \/ MarkPartial(w) \/ Timeout(w) \/ Fail(w)
    <2>1. cur[w] \in Pages /\ status[cur[w]] # "absent"
      BY <1>0, <1>8 DEF MarkDone, MarkPartial, Timeout, Fail, VisitOver, AtWork, AtARow, Rest, Holding
    <2>2. PICK s \in Status \ {"absent"} : Mark(cur[w], s)
      BY <1>8 DEF MarkDone, MarkPartial, Timeout, AfterTimeout, Fail, Status
    <2>3. Keys'
      BY <1>0, <1>8, <2>1, <2>2, MarkKeepsKeys DEF MarkDone, MarkPartial, Timeout, Fail
    <2>4. PICK c \in {"off", "again"} : Leave(w, c)
      BY <1>8 DEF MarkDone, MarkPartial, Timeout, Fail
    <2>5. Rest'
      <3>1. timeouts' \in [Pages -> Nat] /\ cursor' \in [Pages -> Nat]
        BY <1>0, <1>8 DEF MarkDone, MarkPartial, Timeout, Fail, Rest
      <3>2. UNCHANGED <<attempts, depth, stale, ingested, envVars>>
        BY <1>8 DEF MarkDone, MarkPartial, Timeout, Fail
      <3> QED
        BY <1>0, <2>4, <3>1, <3>2, LeaveType DEF Rest, Control, envVars
    <2>6. \A v \in Pages : status[v] # "absent" => status'[v] # "absent"
      BY <1>0, <2>1, <2>2 DEF Mark, Keys
    <2>7. AtARow'
      BY <1>0, <2>4, <2>6, LeaveAtARow
    <2> QED BY <1>t, <2>3, <2>5, <2>7
  <1>9. CASE DbRetry(w)
    <2>2. Keys'
      BY <1>0, <1>9 DEF DbRetry, Keys, Queued, rowVars
    <2>3. Rest'
      BY <1>0, <1>9 DEF DbRetry, Rest, Control, rowVars, envVars
    <2>4. AtARow'
      BY <1>0, <1>9 DEF DbRetry, AtWork, AtARow, Rest, Holding, rowVars
    <2> QED BY <1>t, <2>2, <2>3, <2>4
  <1>10. CASE CloseFails(w) \/ DeadlinePasses(w)
    <2>1. PICK c \in {"off", "again"} : Leave(w, c)
      BY <1>10 DEF CloseFails, DeadlinePasses
    <2>2. UNCHANGED <<rowVars, elsewhere, chain, exhausted, kills>> /\ (faults' = faults \/ faults' = faults + 1)
      BY <1>10 DEF CloseFails, DeadlinePasses, envVars
    <2>3. Keys'
      BY <1>0, <2>2 DEF Keys, Queued, rowVars
    <2>4. Rest'
      BY <1>0, <2>1, <2>2, LeaveType DEF Rest, Control, rowVars
    <2>5. AtARow'
      BY <1>0, <2>1, <2>2, LeaveAtARow DEF rowVars
    <2> QED BY <1>t, <2>3, <2>4, <2>5
  <1> QED
    BY <1>1, <1>2, <1>3, <1>4, <1>5, <1>6, <1>7, <1>8, <1>9, <1>10, <1>11 DEF Work, Trouble

\* So does every step of the workers, the chain and the world around them.
LEMMA NextType == TypeInv /\ [Next]_vars => TypeInv'
  <1> SUFFICES ASSUME TypeInv, [Next]_vars PROVE TypeInv'
    OBVIOUS
  <1>1. ASSUME NEW w \in Workers, Work(w) \/ Trouble(w) PROVE TypeInv'
    BY <1>1, WorkerType
  <1>2. CASE Dispatch \/ NextSlice
    <2>1. pc' \in [Workers -> Control] /\ \A w \in Workers : pc'[w] \in {"ready", "off"}
      BY <1>2 DEF Dispatch, NextSlice, StartWorkers, Control
    <2>2. chain' \in {"queued", "slicing", "over", "failed"}
      BY <1>2 DEF Dispatch, NextSlice, TypeInv, TypeOK, envVars
    <2>3. UNCHANGED <<rowVars, cur, seen, tries, attempt, pos, left, elsewhere, exhausted, kills, faults>>
      BY <1>2 DEF Dispatch, NextSlice, envVars
    <2> QED
      BY <2>1, <2>2, <2>3 DEF TypeInv, TypeOK, AtARow, Holding, Queued, rowVars
  <1>3. CASE EndChain \/ StartFails \/ RunOut
    BY <1>3 DEF EndChain, StartFails, RunOut, TypeInv, TypeOK, AtARow, Queued, rowVars, workerVars
  <1>4. CASE Kill
    <2>1. /\ pc' = [w \in Workers |-> "off"] /\ cur' = [w \in Workers |-> Self]
          /\ seen' = [w \in Workers |-> "absent"]
          /\ tries' = [w \in Workers |-> 0] /\ attempt' = [w \in Workers |-> 0]
          /\ pos' = [w \in Workers |-> 0] /\ left' = [w \in Workers |-> 0]
          /\ chain' = "queued" /\ kills' = kills + 1
          /\ UNCHANGED <<rowVars, elsewhere, exhausted, faults>>
      BY <1>4 DEF Kill
    <2> QED
      BY <2>1, Bounds DEF TypeInv, TypeOK, AtARow, Holding, Control, Status, Queued, rowVars
  <1>5. ASSUME NEW u \in Pages, GoStale(u) PROVE TypeInv'
    BY <1>5 DEF GoStale, TypeInv, TypeOK, AtARow, Queued, workerVars, envVars
  <1>6. ASSUME NEW u \in Pages, DoneElsewhere(u) PROVE TypeInv'
    BY <1>6 DEF DoneElsewhere, TypeInv, TypeOK, AtARow, Queued, rowVars, workerVars
  <1>7. CASE UNCHANGED vars
    BY <1>7 DEF TypeInv, TypeOK, AtARow, Queued, vars, rowVars, workerVars, envVars
  <1> QED
    BY <1>1, <1>2, <1>3, <1>4, <1>5, <1>6, <1>7 DEF Next, Continue

\* The types hold in every reachable state of every frontier.
THEOREM TypeCorrect == Spec => []TypeOK
  <1>1. Spec => []TypeInv
    BY InitType, NextType, PTL DEF Spec
  <1>2. TypeInv => TypeOK
    BY DEF TypeInv
  <1> QED
    BY <1>1, <1>2, PTL

-----------------------------------------------------------------------------
(* A claim is exclusive, and a claimed row is held.                            *)

\* What makes a claim exclusive: the SELECT skips the rows being claimed, or no
\* claim can ever go stale.
ExclusionHolds == SkipLocked \/ (MaxKills = 0 /\ MaxDbFaults = 0)

Undisturbed == kills = 0 /\ faults = 0

HeldIsClaimed ==
    \A w \in Workers : pc[w] \in Holding =>
        status[cur[w]] = "in_progress" /\ stale[cur[w]] = FALSE

\* A worker about to update read a row that was PENDING, or stranded.
SeenWasEligible ==
    \A w \in Workers : pc[w] = "selected" =>
        seen[w] = "pending" \/ (seen[w] = "in_progress" /\ ~Undisturbed)

\* The lock of the SELECT keeps the row as it was read, and for one worker only.
LockProtects ==
    SkipLocked => \A w \in Workers : pc[w] = "selected" =>
        /\ Eligible(cur[w])
        /\ \A v \in Workers : pc[v] = "selected" /\ cur[v] = cur[w] => v = w

IdleUnlessSlicing == chain # "slicing" => \A w \in Workers : pc[w] = "off"

TroubleBounded == kills <= MaxKills /\ faults <= MaxDbFaults

ClaimInv ==
    /\ TypeInv
    /\ HeldIsClaimed
    /\ ClaimExclusive
    /\ NoSilentStrand
    /\ SeenWasEligible
    /\ LockProtects
    /\ IdleUnlessSlicing
    /\ TroubleBounded

\* Nothing is claimed before the first slice.
LEMMA InitClaim == Init => ClaimInv
  <1> SUFFICES ASSUME Init PROVE ClaimInv
    OBVIOUS
  <1>1. TypeInv
    BY InitType
  <1>2. \A w \in Workers : pc[w] = "off"
    BY DEF Init
  <1>3. \A u \in Pages : status[u] # "in_progress"
    BY DEF Init
  <1>4. TroubleBounded
    BY FrontierAssumption DEF Init, TroubleBounded
  <1> QED
    BY <1>1, <1>2, <1>3, <1>4
    DEF ClaimInv, HeldIsClaimed, ClaimExclusive, NoSilentStrand, SeenWasEligible,
        LockProtects, IdleUnlessSlicing, Holding

\* While nothing was disturbed, only a PENDING row is eligible.
LEMMA EligibleIsPending ==
    ASSUME ClaimInv, Undisturbed, NEW u \in Pages, Eligible(u)
    PROVE  status[u] = "pending"
  BY DEF ClaimInv, HeldIsClaimed, NoSilentStrand, Undisturbed, Eligible, Holders, TypeInv, TypeOK

\* A row that a worker selected and may claim is held by nobody.
LEMMA ClaimableIsFree ==
    ASSUME ExclusionHolds, ClaimInv, NEW w \in Workers, pc[w] = "selected", StatusAsRead(w),
           NEW v \in Workers, pc[v] \in Holding
    PROVE  cur[v] # cur[w]
  <1>1. CASE SkipLocked
    BY <1>1 DEF ClaimInv, LockProtects, Eligible, HeldIsClaimed
  <1>2. CASE MaxKills = 0 /\ MaxDbFaults = 0
    <2>1. Undisturbed
      BY <1>2 DEF ClaimInv, TroubleBounded, Undisturbed, TypeInv, TypeOK
    <2> QED
      BY <2>1 DEF ClaimInv, SeenWasEligible, StatusAsRead, HeldIsClaimed
  <1> QED
    BY <1>1, <1>2 DEF ExclusionHolds

-----------------------------------------------------------------------------
(* Steps that leave the rows alone.                                            *)

\* A worker that drops out disturbs nothing, if it held nothing or leaves a fault.
LEMMA LeavingKeepsClaims ==
    ASSUME ClaimInv, TypeInv', NEW w \in Workers, NEW c \in {"off", "again", "claiming"},
           pc' = [pc EXCEPT ![w] = c],
           \A v \in Workers : v # w => cur'[v] = cur[v] /\ seen'[v] = seen[v],
           pc[w] \notin Holding \/ faults' > 0,
           UNCHANGED <<rowVars, chain, kills>>,
           faults' >= faults, faults' <= MaxDbFaults, chain = "slicing"
    PROVE  ClaimInv'
  <1>1. /\ pc \in [Workers -> Control] /\ cur \in [Workers -> Pages] /\ seen \in [Workers -> Status]
        /\ kills \in Nat /\ faults \in Nat /\ faults' \in Nat
    BY DEF ClaimInv, TypeInv, TypeOK
  <1>2. /\ pc'[w] = c
        /\ \A v \in Workers : v # w => pc'[v] = pc[v] /\ cur'[v] = cur[v] /\ seen'[v] = seen[v]
    BY <1>1
  <1>3. HeldIsClaimed' /\ ClaimExclusive'
    BY <1>2 DEF ClaimInv, HeldIsClaimed, ClaimExclusive, Holding, rowVars
  <1>4. NoSilentStrand'
    <2> SUFFICES ASSUME kills' = 0, faults' = 0, NEW u \in Pages, status'[u] = "in_progress"
                 PROVE  Holders(u)' # {}
      BY DEF NoSilentStrand
    <2>1. PICK v \in Workers : pc[v] \in Holding /\ cur[v] = u
      BY <1>1 DEF ClaimInv, NoSilentStrand, Holders, rowVars
    <2>2. v # w
      BY <2>1, <1>1
    <2> QED
      BY <1>2, <2>1, <2>2 DEF Holders
  <1>5. SeenWasEligible'
    BY <1>1, <1>2 DEF ClaimInv, SeenWasEligible, Undisturbed
  <1>6. LockProtects'
    BY <1>2 DEF ClaimInv, LockProtects, Eligible, rowVars
  <1>7. IdleUnlessSlicing' /\ TroubleBounded'
    BY DEF ClaimInv, IdleUnlessSlicing, TroubleBounded
  <1> QED
    BY <1>3, <1>4, <1>5, <1>6, <1>7 DEF ClaimInv

\* A worker's visit moves on, and the table only gains rows or fresher ones.
LEMMA VisitingKeepsClaims ==
    ASSUME ClaimInv, TypeInv', NEW w \in Workers, NEW c \in Holding,
           pc[w] \in Holding, pc' = [pc EXCEPT ![w] = c], UNCHANGED <<cur, seen, chain, kills, faults>>,
           \A u \in Pages : status'[u] # status[u] => status[u] = "absent" /\ status'[u] = "pending",
           stale' = stale \/ stale' = [stale EXCEPT ![cur[w]] = FALSE]
    PROVE  ClaimInv'
  <1>1. /\ pc \in [Workers -> Control] /\ cur \in [Workers -> Pages] /\ cur[w] \in Pages
        /\ stale \in [Pages -> BOOLEAN]
    BY DEF ClaimInv, TypeInv, TypeOK
  <1>2. /\ \A v \in Workers : v # w => pc'[v] = pc[v]
        /\ \A v \in Workers : pc'[v] \in Holding <=> pc[v] \in Holding
        /\ \A v \in Workers : pc'[v] = "selected" <=> pc[v] = "selected"
    BY <1>1 DEF Holding
  <1>3. \A u \in Pages : status[u] = "in_progress" <=> status'[u] = "in_progress"
    OBVIOUS
  <1>4. \A u \in Pages : u # cur[w] => stale'[u] = stale[u]
    BY <1>1
  <1>5. stale'[cur[w]] = FALSE /\ status[cur[w]] = "in_progress" /\ stale[cur[w]] = FALSE
    BY <1>1 DEF ClaimInv, HeldIsClaimed
  <1>6. HeldIsClaimed' /\ ClaimExclusive'
    BY <1>1, <1>2, <1>3, <1>4, <1>5 DEF ClaimInv, HeldIsClaimed, ClaimExclusive
  <1>7. NoSilentStrand'
    BY <1>2, <1>3 DEF ClaimInv, NoSilentStrand, Holders
  <1>8. SeenWasEligible'
    BY <1>2 DEF ClaimInv, SeenWasEligible, Undisturbed
  <1>9. \A u \in Pages : Eligible(u) => Eligible(u)'
    BY <1>3, <1>4, <1>5 DEF Eligible
  <1>10. LockProtects'
    BY <1>1, <1>2, <1>9 DEF ClaimInv, LockProtects
  <1>11. IdleUnlessSlicing' /\ TroubleBounded'
    BY <1>1, <1>2 DEF ClaimInv, IdleUnlessSlicing, TroubleBounded, Holding
  <1> QED
    BY <1>6, <1>7, <1>8, <1>10, <1>11 DEF ClaimInv

\* A worker closes or parks the row it holds and lets it go.
LEMMA ClosingKeepsClaims ==
    ASSUME ClaimInv, TypeInv', NEW w \in Workers, NEW c \in {"off", "again"},
           NEW s \in {"pending", "done", "error"},
           pc[w] \in Holding, Mark(cur[w], s), Leave(w, c),
           UNCHANGED <<stale, chain, kills, faults>>
    PROVE  ClaimInv'
  <1>1. /\ pc \in [Workers -> Control] /\ cur \in [Workers -> Pages] /\ seen \in [Workers -> Status]
        /\ cur[w] \in Pages /\ status \in [Pages -> Status]
    BY DEF ClaimInv, TypeInv, TypeOK
  <1>2. /\ pc'[w] = c /\ status'[cur[w]] = s
        /\ \A v \in Workers : v # w => pc'[v] = pc[v] /\ cur'[v] = cur[v] /\ seen'[v] = seen[v]
        /\ \A u \in Pages : u # cur[w] => status'[u] = status[u]
    BY <1>1 DEF Leave, Mark
  <1>3. \A v \in Workers : pc[v] \in Holding /\ v # w => cur[v] # cur[w]
    BY DEF ClaimInv, ClaimExclusive
  <1>4. HeldIsClaimed' /\ ClaimExclusive'
    BY <1>1, <1>2, <1>3 DEF ClaimInv, HeldIsClaimed, ClaimExclusive, Holding
  <1>5. NoSilentStrand'
    <2> SUFFICES ASSUME kills' = 0, faults' = 0, NEW u \in Pages, status'[u] = "in_progress"
                 PROVE  Holders(u)' # {}
      BY DEF NoSilentStrand
    <2>1. u # cur[w] /\ status[u] = "in_progress"
      BY <1>2
    <2>2. PICK v \in Workers : pc[v] \in Holding /\ cur[v] = u
      BY <2>1 DEF ClaimInv, NoSilentStrand, Holders
    <2>3. v # w
      BY <2>1, <2>2
    <2> QED
      BY <1>2, <2>2, <2>3 DEF Holders
  <1>6. SeenWasEligible'
    BY <1>2 DEF ClaimInv, SeenWasEligible, Undisturbed
  <1>7. LockProtects'
    <2>1. status[cur[w]] = "in_progress" /\ stale[cur[w]] = FALSE
      BY DEF ClaimInv, HeldIsClaimed
    <2>2. \A u \in Pages : Eligible(u) => u # cur[w] /\ Eligible(u)'
      BY <1>2, <2>1 DEF Eligible
    <2> QED
      BY <1>1, <1>2, <2>2 DEF ClaimInv, LockProtects
  <1>8. IdleUnlessSlicing' /\ TroubleBounded'
    BY <1>1 DEF ClaimInv, IdleUnlessSlicing, TroubleBounded, Holding
  <1> QED
    BY <1>4, <1>5, <1>6, <1>7, <1>8 DEF ClaimInv

-----------------------------------------------------------------------------
(* The claim itself.                                                           *)

\* The SELECT of a claim reads an eligible row and, with row locks, locks it.
LEMMA SelectKeepsClaims ==
    ASSUME ClaimInv, TypeInv', NEW w \in Workers, Select(w)
    PROVE  ClaimInv'
  <1>1. /\ pc \in [Workers -> Control] /\ cur \in [Workers -> Pages] /\ seen \in [Workers -> Status]
    BY DEF ClaimInv, TypeInv, TypeOK
  <1>2. PICK u \in Pages : /\ Best(u)
                           /\ cur' = [cur EXCEPT ![w] = u]
                           /\ seen' = [seen EXCEPT ![w] = status[u]]
    BY DEF Select
  <1>3. /\ pc' = [pc EXCEPT ![w] = "selected"] /\ pc[w] = "claiming"
        /\ UNCHANGED <<rowVars, envVars>>
    BY DEF Select
  <1>4. Eligible(u) /\ (SkipLocked => \A v \in Workers : ~(pc[v] = "selected" /\ cur[v] = u))
    BY <1>2 DEF Best, Claimable, Locked
  <1>5. /\ pc'[w] = "selected" /\ cur'[w] = u /\ seen'[w] = status[u]
        /\ \A v \in Workers : v # w => pc'[v] = pc[v] /\ cur'[v] = cur[v] /\ seen'[v] = seen[v]
    BY <1>1, <1>2, <1>3
  <1>6. HeldIsClaimed' /\ ClaimExclusive'
    BY <1>3, <1>5 DEF ClaimInv, HeldIsClaimed, ClaimExclusive, Holding, rowVars
  <1>7. NoSilentStrand'
    <2> SUFFICES ASSUME kills' = 0, faults' = 0, NEW p \in Pages, status'[p] = "in_progress"
                 PROVE  Holders(p)' # {}
      BY DEF NoSilentStrand
    <2>1. PICK v \in Workers : pc[v] \in Holding /\ cur[v] = p
      BY <1>3 DEF ClaimInv, NoSilentStrand, Holders, rowVars, envVars
    <2>2. v # w
      BY <2>1, <1>3 DEF Holding
    <2> QED
      BY <1>5, <2>1, <2>2 DEF Holders
  <1>8. SeenWasEligible'
    <2>1. status[u] = "pending" \/ (status[u] = "in_progress" /\ ~Undisturbed)
      BY <1>4, EligibleIsPending DEF Eligible
    <2> QED
      BY <1>3, <1>5, <2>1 DEF ClaimInv, SeenWasEligible, Undisturbed, envVars
  <1>9. LockProtects'
    BY <1>3, <1>4, <1>5 DEF ClaimInv, LockProtects, Eligible, rowVars
  <1>10. IdleUnlessSlicing' /\ TroubleBounded'
    BY <1>3 DEF ClaimInv, IdleUnlessSlicing, TroubleBounded, envVars
  <1> QED
    BY <1>6, <1>7, <1>8, <1>9, <1>10 DEF ClaimInv

\* The UPDATE of a claim puts a row nobody holds into the hands of one worker.
LEMMA ClaimWinsKeepsClaims ==
    ASSUME ExclusionHolds, ClaimInv, TypeInv', NEW w \in Workers, ClaimWins(w)
    PROVE  ClaimInv'
  <1>1. /\ pc \in [Workers -> Control] /\ cur \in [Workers -> Pages] /\ cur[w] \in Pages
        /\ status \in [Pages -> Status] /\ stale \in [Pages -> BOOLEAN]
    BY DEF ClaimInv, TypeInv, TypeOK
  <1>2. /\ pc[w] = "selected" /\ StatusAsRead(w) /\ Mark(cur[w], "in_progress")
        /\ stale' = [stale EXCEPT ![cur[w]] = FALSE] /\ pc' = [pc EXCEPT ![w] = "claimed"]
        /\ UNCHANGED <<cur, seen, chain, kills, faults>>
    BY DEF ClaimWins, envVars
  <1>3. \A v \in Workers : pc[v] \in Holding => cur[v] # cur[w]
    BY <1>2, ClaimableIsFree
  <1>4. /\ pc'[w] = "claimed" /\ status'[cur[w]] = "in_progress" /\ stale'[cur[w]] = FALSE
        /\ \A v \in Workers : v # w => pc'[v] = pc[v]
        /\ \A u \in Pages : u # cur[w] => status'[u] = status[u] /\ stale'[u] = stale[u]
    BY <1>1, <1>2 DEF Mark
  <1>5. HeldIsClaimed' /\ ClaimExclusive'
    BY <1>1, <1>2, <1>3, <1>4 DEF ClaimInv, HeldIsClaimed, ClaimExclusive, Holding
  <1>6. NoSilentStrand'
    <2> SUFFICES ASSUME kills' = 0, faults' = 0, NEW u \in Pages, status'[u] = "in_progress"
                 PROVE  Holders(u)' # {}
      BY DEF NoSilentStrand
    <2>1. CASE u = cur[w]
      BY <2>1, <1>2, <1>4 DEF Holders, Holding
    <2>2. CASE u # cur[w]
      <3>1. PICK v \in Workers : pc[v] \in Holding /\ cur[v] = u
        BY <2>2, <1>2, <1>4 DEF ClaimInv, NoSilentStrand, Holders
      <3> QED
        BY <3>1, <2>2, <1>2, <1>4 DEF Holders
    <2> QED BY <2>1, <2>2
  <1>7. SeenWasEligible'
    BY <1>2, <1>4 DEF ClaimInv, SeenWasEligible, Undisturbed
  <1>8. LockProtects'
    BY <1>1, <1>2, <1>4 DEF ClaimInv, LockProtects, Eligible
  <1>9. IdleUnlessSlicing' /\ TroubleBounded'
    BY <1>1, <1>2, <1>4 DEF ClaimInv, IdleUnlessSlicing, TroubleBounded
  <1> QED
    BY <1>5, <1>6, <1>7, <1>8, <1>9 DEF ClaimInv

-----------------------------------------------------------------------------
\* Whatever a worker does, or goes wrong with it, keeps every claim in one hand.
LEMMA WorkerClaim ==
    ASSUME ExclusionHolds, ClaimInv, NEW w \in Workers, Work(w) \/ Trouble(w)
    PROVE  ClaimInv'
  <1>t. TypeInv'
    BY WorkerType DEF ClaimInv
  <1>n. /\ kills \in Nat /\ faults \in Nat /\ faults <= MaxDbFaults
        /\ pc[w] # "off" => chain = "slicing"
        /\ pc \in [Workers -> Control] /\ cur \in [Workers -> Pages] /\ seen \in [Workers -> Status]
    BY DEF ClaimInv, TypeInv, TypeOK, IdleUnlessSlicing, TroubleBounded
  <1>l. \A c : Leave(w, c) => /\ pc' = [pc EXCEPT ![w] = c]
                             /\ \A v \in Workers : v # w => cur'[v] = cur[v] /\ seen'[v] = seen[v]
    BY <1>n DEF Leave
  <1>1. CASE FindNothing(w) \/ DeadlinePasses(w) \/ ReadBudget(w)
    <2>1. /\ pc[w] \notin Holding /\ chain = "slicing"
          /\ UNCHANGED <<rowVars, chain, kills, faults>>
      BY <1>1, <1>n DEF FindNothing, DeadlinePasses, ReadBudget, Holding, envVars
    <2>2. PICK c \in {"off", "again", "claiming"} : pc' = [pc EXCEPT ![w] = c]
      BY <1>1, <1>l DEF FindNothing, DeadlinePasses, ReadBudget
    <2>4. UNCHANGED <<rowVars, chain, kills>> /\ faults' >= faults /\ faults' <= MaxDbFaults
      BY <2>1, <1>n
    <2>3. \A v \in Workers : v # w => cur'[v] = cur[v] /\ seen'[v] = seen[v]
      BY <1>1, <1>l DEF FindNothing, DeadlinePasses, ReadBudget
    <2> QED
      BY <2>1, <2>2, <2>3, <2>4, <1>t, LeavingKeepsClaims
  <1>2. CASE CloseFails(w)
    <2>1. faults' > 0 /\ faults' >= faults /\ faults' <= MaxDbFaults
      BY <1>2, <1>n, FrontierAssumption DEF CloseFails
    <2>2. chain = "slicing"
      BY <1>2, <1>n DEF CloseFails
    <2>3. Leave(w, "again") /\ UNCHANGED <<rowVars, chain, kills>>
      BY <1>2 DEF CloseFails
    <2> QED
      BY <2>1, <2>2, <2>3, <1>t, <1>l, LeavingKeepsClaims
  <1>3. CASE ClaimLoses(w)
    <2>1. PICK c \in {"off", "claiming"} : pc' = [pc EXCEPT ![w] = c]
      BY <1>3 DEF ClaimLoses, Leave
    <2>2. \A v \in Workers : v # w => cur'[v] = cur[v] /\ seen'[v] = seen[v]
      BY <1>3, <1>n DEF ClaimLoses, Leave
    <2>3. pc[w] = "selected" /\ UNCHANGED <<rowVars, envVars>>
      BY <1>3 DEF ClaimLoses
    <2>4. pc[w] \notin Holding /\ chain = "slicing" /\ faults' >= faults /\ faults' <= MaxDbFaults
      BY <2>3, <1>n DEF Holding, envVars
    <2> QED
      BY <2>1, <2>2, <2>3, <2>4, <1>t, LeavingKeepsClaims DEF envVars
  <1>4. CASE Select(w)
    BY <1>4, <1>t, SelectKeepsClaims
  <1>5. CASE ClaimWins(w)
    BY <1>5, <1>t, ClaimWinsKeepsClaims
  <1>6. CASE Reuse(w)
    <2> DEFINE u == cur[w]
    <2>1. u \in Pages
      BY DEF ClaimInv, TypeInv, TypeOK
    <2>2. PICK list \in SetToSeqs(IF depth[u] < MaxDepth THEN Stored[u] ELSE {}) :
                 Enqueue(list, depth[u] + 1)
      BY <1>6 DEF Reuse
    <2>3. list \in Seq(Pages)
      BY <2>1, <2>2, ReplayLists
    <2>4. \A v \in Pages : status'[v] # status[v] => status[v] = "absent" /\ status'[v] = "pending"
      BY <2>2, <2>3, EnqueueKeepsKeys, TypeSplit DEF ClaimInv, TypeInv
    <2>5. /\ pc[w] \in Holding /\ pc' = [pc EXCEPT ![w] = "visiting"] /\ "visiting" \in Holding
          /\ UNCHANGED <<cur, seen, chain, kills, faults, stale>>
      BY <1>6 DEF Reuse, Holding, envVars
    <2> QED
      BY <2>4, <2>5, <1>t, VisitingKeepsClaims
  <1>7. CASE ReadUnit(w)
    <2> DEFINE u == cur[w]
               n == pos[w] + 1
    <2>1. u \in Pages /\ pos[w] \in Nat
      BY DEF ClaimInv, TypeInv, TypeOK
    <2>2. Enqueue(Revealed(u, n), depth[u] + 1) /\ pos[w] < UnitCount(u)
      BY <1>7 DEF ReadUnit, UnitsRemain
    <2>3. n \in 1..UnitCount(u)
      BY <2>1, <2>2, Bounds
    <2>4. Revealed(u, n) \in Seq(Pages)
      BY <2>1, <2>3, Bounds DEF Revealed
    <2>5. \A v \in Pages : status'[v] # status[v] => status[v] = "absent" /\ status'[v] = "pending"
      BY <2>2, <2>4, EnqueueKeepsKeys, TypeSplit DEF ClaimInv, TypeInv
    <2>6. /\ pc[w] \in Holding /\ pc' = [pc EXCEPT ![w] = "visiting"] /\ "visiting" \in Holding
          /\ UNCHANGED <<cur, seen, chain, kills, faults>>
          /\ stale' = [stale EXCEPT ![cur[w]] = FALSE]
      BY <1>7, <1>n DEF ReadUnit, Holding, envVars
    <2> QED
      BY <2>5, <2>6, <1>t, VisitingKeepsClaims
  <1>8. CASE BeginVisit(w) \/ DbRetry(w)
    <2>1. \E c \in Holding : pc' = [pc EXCEPT ![w] = c]
      BY <1>8 DEF BeginVisit, DbRetry, Holding
    <2>2. pc[w] \in Holding /\ UNCHANGED <<rowVars, cur, seen, envVars>>
      BY <1>8 DEF BeginVisit, DbRetry, AtWork, Holding
    <2> QED
      BY <2>1, <2>2, <1>t, VisitingKeepsClaims DEF rowVars, envVars
  <1>9. CASE MarkDone(w) \/ MarkPartial(w) \/ Timeout(w) \/ Fail(w)
    <2>1. pc[w] \in Holding /\ UNCHANGED <<stale, chain, kills, faults>>
      BY <1>9 DEF MarkDone, MarkPartial, Timeout, Fail, VisitOver, AtWork, Holding, envVars
    <2>2. \E s \in {"pending", "done", "error"} : Mark(cur[w], s)
      BY <1>9 DEF MarkDone, MarkPartial, Timeout, AfterTimeout, Fail
    <2>3. \E c \in {"off", "again"} : Leave(w, c)
      BY <1>9 DEF MarkDone, MarkPartial, Timeout, Fail
    <2> QED
      BY <2>1, <2>2, <2>3, <1>t, ClosingKeepsClaims
  <1> QED
    BY <1>1, <1>2, <1>3, <1>4, <1>5, <1>6, <1>7, <1>8, <1>9 DEF Work, Trouble

\* So do the chain's slices, a death of the process and the passing of time.
LEMMA NextClaim == ExclusionHolds /\ ClaimInv /\ [Next]_vars => ClaimInv'
  <1> SUFFICES ASSUME ExclusionHolds, ClaimInv, [Next]_vars PROVE ClaimInv'
    OBVIOUS
  <1>t. TypeInv'
    BY NextType DEF ClaimInv
  <1>1. ASSUME NEW w \in Workers, Work(w) \/ Trouble(w) PROVE ClaimInv'
    BY <1>1, WorkerClaim
  <1>2. CASE Dispatch \/ NextSlice
    <2>1. \A w \in Workers : pc[w] = "off"
      BY <1>2 DEF Dispatch, NextSlice, SliceOver, ClaimInv, IdleUnlessSlicing
    <2>2. \A w \in Workers : pc'[w] \in {"ready", "off"}
      BY <1>2 DEF Dispatch, NextSlice, StartWorkers
    <2>3. chain' = "slicing" /\ UNCHANGED <<rowVars, cur, seen, kills, faults>>
      BY <1>2 DEF Dispatch, NextSlice, SliceOver, envVars
    <2> QED
      BY <1>t, <2>1, <2>2, <2>3
      DEF ClaimInv, HeldIsClaimed, ClaimExclusive, NoSilentStrand, Holders, SeenWasEligible,
          LockProtects, IdleUnlessSlicing, TroubleBounded, Holding, rowVars
  <1>3. CASE EndChain \/ StartFails \/ RunOut
    BY <1>3, <1>t
    DEF EndChain, StartFails, RunOut, SliceOver, ClaimInv, HeldIsClaimed, ClaimExclusive, NoSilentStrand, Holders,
        SeenWasEligible, Undisturbed, LockProtects, Eligible, IdleUnlessSlicing, TroubleBounded,
        rowVars, workerVars
  <1>4. CASE Kill
    <2>1. /\ \A w \in Workers : pc'[w] = "off"
          /\ kills' = kills + 1 /\ kills < MaxKills /\ UNCHANGED faults
      BY <1>4 DEF Kill
    <2>2. kills \in Nat /\ faults <= MaxDbFaults
      BY DEF ClaimInv, TroubleBounded, TypeInv, TypeOK
    <2> QED
      BY <1>t, <2>1, <2>2, FrontierAssumption
      DEF ClaimInv, HeldIsClaimed, ClaimExclusive, NoSilentStrand, SeenWasEligible,
          LockProtects, IdleUnlessSlicing, TroubleBounded, Holding
  <1>5. ASSUME NEW u \in Pages, GoStale(u) PROVE ClaimInv'
    <2>1. \A w \in Workers : pc[w] \in Holding => cur[w] # u
      BY <1>5 DEF GoStale, Holders
    <2>2. /\ status[u] = "in_progress" /\ stale[u] = FALSE
          /\ \A v \in Pages : v # u => stale'[v] = stale[v]
          /\ UNCHANGED <<status, workerVars, envVars>>
      BY <1>5 DEF GoStale, ClaimInv, TypeInv, TypeOK
    <2>3. cur \in [Workers -> Pages]
      BY DEF ClaimInv, TypeInv, TypeOK
    <2>4. HeldIsClaimed' /\ ClaimExclusive' /\ NoSilentStrand'
      BY <2>1, <2>2, <2>3
      DEF ClaimInv, HeldIsClaimed, ClaimExclusive, NoSilentStrand, Holders, workerVars, envVars
    <2>5. SeenWasEligible' /\ LockProtects' /\ IdleUnlessSlicing' /\ TroubleBounded'
      BY <2>2, <2>3
      DEF ClaimInv, SeenWasEligible, Undisturbed, LockProtects, Eligible, IdleUnlessSlicing,
          TroubleBounded, workerVars, envVars
    <2> QED
      BY <1>t, <2>4, <2>5 DEF ClaimInv
  <1>6. ASSUME NEW u \in Pages, DoneElsewhere(u) PROVE ClaimInv'
    BY <1>6, <1>t
    DEF DoneElsewhere, ClaimInv, HeldIsClaimed, ClaimExclusive, NoSilentStrand, Holders,
        SeenWasEligible, Undisturbed, LockProtects, Eligible, IdleUnlessSlicing, TroubleBounded,
        rowVars, workerVars
  <1>7. CASE UNCHANGED vars
    BY <1>7, <1>t
    DEF ClaimInv, HeldIsClaimed, ClaimExclusive, NoSilentStrand, Holders,
        SeenWasEligible, Undisturbed, LockProtects, Eligible, IdleUnlessSlicing, TroubleBounded,
        vars, rowVars, workerVars, envVars
  <1> QED
    BY <1>1, <1>2, <1>3, <1>4, <1>5, <1>6, <1>7 DEF Next, Continue

\* Two workers never crawl the same row: with SKIP LOCKED whatever is killed,
\* and by the compare-and-swap alone as long as no claim can go stale.
THEOREM ClaimIsExclusive == ExclusionHolds => (Spec => []ClaimExclusive)
  <1> SUFFICES ASSUME ExclusionHolds PROVE Spec => []ClaimExclusive
    OBVIOUS
  <1>0. ClaimInv /\ [Next]_vars => ClaimInv'
    BY NextClaim
  <1>1. Spec => []ClaimInv
    BY <1>0, InitClaim, PTL DEF Spec
  <1>2. ClaimInv => ClaimExclusive
    BY DEF ClaimInv
  <1> QED
    BY <1>1, <1>2, PTL

\* Every IN_PROGRESS row is in a worker's hands until something is killed or lost,
\* so counting PENDING rows at the end of a slice counts all the work left.
THEOREM PendingCountsAllWork == ExclusionHolds => (Spec => []NoSilentStrand)
  <1> SUFFICES ASSUME ExclusionHolds PROVE Spec => []NoSilentStrand
    OBVIOUS
  <1>0. ClaimInv /\ [Next]_vars => ClaimInv'
    BY NextClaim
  <1>1. Spec => []ClaimInv
    BY <1>0, InitClaim, PTL DEF Spec
  <1>2. ClaimInv => NoSilentStrand
    BY DEF ClaimInv
  <1> QED
    BY <1>1, <1>2, PTL

-----------------------------------------------------------------------------
(* The frontier implements the abstract work queue.                            *)

Closed == {u \in Pages : status[u] \in {"done", "error"}}
Hand   == [w \in Workers |-> IF pc[w] \in Holding THEN cur[w] ELSE NoPage]

\* A step that moves no row in or out of the queue, nor of a hand, is a stutter.
LEMMA QueueStutters ==
    ASSUME UNCHANGED <<Queued, Closed, Hand>>
    PROVE  UNCHANGED Queue!queueVars
  BY DEF Queue!queueVars, Closed, Hand

\* A free row passes into an empty hand.
LEMMA QueueTakes ==
    ASSUME NEW w \in Workers, NEW u \in Queued, u \notin Closed, \A v \in Workers : Hand[v] # u,
           Hand[w] = NoPage, Hand' = [Hand EXCEPT ![w] = u], UNCHANGED <<Queued, Closed>>
    PROVE  Queue!Next
  <1>1. Queue!Take(w)
    BY DEF Queue!Take, Queue!Free, Closed, Hand
  <1> QED
    BY <1>1 DEF Queue!Next

\* A worker with a row in its hand adds rows.
LEMMA QueueAdds ==
    ASSUME NEW w \in Workers, Hand[w] # NoPage, Queued \subseteq Queued', UNCHANGED <<Closed, Hand>>
    PROVE  Queue!Next
  <1>1. Queue!Add(w)
    BY DEF Queue!Add, Closed, Hand, Queued
  <1> QED
    BY <1>1 DEF Queue!Next

\* A worker lets its row go, unsettled or settled.
LEMMA QueueLetsGo ==
    ASSUME NEW w \in Workers, Hand[w] # NoPage, Hand' = [Hand EXCEPT ![w] = NoPage],
           UNCHANGED Queued, Closed' = Closed \/ Closed' = Closed \cup {Hand[w]}
    PROVE  Queue!Next
  <1>1. CASE Closed' = Closed
    <2>1. Queue!PutBack(w)
      BY <1>1 DEF Queue!PutBack, Closed, Hand
    <2> QED
      BY <2>1 DEF Queue!Next
  <1>2. CASE Closed' = Closed \cup {Hand[w]}
    <2>1. Queue!Settle(w)
      BY <1>2 DEF Queue!Settle, Closed, Hand
    <2> QED
      BY <2>1 DEF Queue!Next
  <1> QED
    BY <1>1, <1>2

\* What is on the queue at the start is what start_scan seeded.
LEMMA QueueInit == Init => Queue!Init
  <1> SUFFICES ASSUME Init PROVE Queue!Init
    OBVIOUS
  <1>1. SeedSet \subseteq Pages /\ \A u \in SeedSet : IndexIn(Seeds, u) \in 1..Len(Seeds)
    BY FrontierAssumption, IndexInList DEF SeedSet, ToSet
  <1>2. Queued = SeedSet
    BY <1>1 DEF Init, Queued
  <1>3. Closed = {}
    BY DEF Init, Closed
  <1>4. Hand = [w \in Workers |-> NoPage]
    BY DEF Init, Hand, Holding
  <1> QED
    BY <1>2, <1>3, <1>4 DEF Queue!Init, Closed, Hand

\* What a worker is about to claim is a row that is not closed.
LEMMA SelectedIsOpen ==
    ASSUME ExclusionHolds, ClaimInv, NEW w \in Workers, pc[w] = "selected", StatusAsRead(w)
    PROVE  status[cur[w]] \in {"pending", "in_progress"}
  BY DEF ClaimInv, SeenWasEligible, StatusAsRead

\* What a visit reveals it enqueues as one list of pages.
LEMMA VisitEnqueues ==
    ASSUME ClaimInv, NEW w \in Workers, Reuse(w) \/ ReadUnit(w)
    PROVE  \E list \in Seq(Pages), d \in Nat : Enqueue(list, d)
  <1>1. cur[w] \in Pages /\ pos[w] \in Nat /\ depth[cur[w]] + 1 \in Nat
    BY DEF ClaimInv, TypeInv, TypeOK
  <1>2. CASE Reuse(w)
    <2>1. PICK list \in SetToSeqs(IF depth[cur[w]] < MaxDepth THEN Stored[cur[w]] ELSE {}) :
                 Enqueue(list, depth[cur[w]] + 1)
      BY <1>2 DEF Reuse
    <2> QED
      BY <2>1, <1>1, ReplayLists
  <1>3. CASE ReadUnit(w)
    <2>1. Enqueue(Revealed(cur[w], pos[w] + 1), depth[cur[w]] + 1) /\ pos[w] < UnitCount(cur[w])
      BY <1>3 DEF ReadUnit, UnitsRemain
    <2>2. pos[w] + 1 \in 1..UnitCount(cur[w])
      BY <2>1, <1>1, Bounds
    <2>3. Revealed(cur[w], pos[w] + 1) \in Seq(Pages)
      BY <2>2, <1>1, Bounds DEF Revealed
    <2> QED
      BY <2>1, <2>3, <1>1
  <1> QED
    BY <1>2, <1>3

\* Enqueueing removes nothing from the table.
LEMMA EnqueueKeepsRows ==
    ASSUME ClaimInv, NEW list \in Seq(Pages), NEW d, Enqueue(list, d)
    PROVE  Queued \subseteq Queued'
  BY DEF Enqueue, NewOf, Queued

\* Every step of a worker is a step of the queue or none.
LEMMA WorkerQueues ==
    ASSUME ExclusionHolds, ClaimInv, NEW w \in Workers, Work(w) \/ Trouble(w)
    PROVE  Queue!Next \/ UNCHANGED Queue!queueVars
  <1>t. /\ pc \in [Workers -> Control] /\ cur \in [Workers -> Pages] /\ status \in [Pages -> Status]
        /\ cur[w] \in Pages /\ NoPage \notin Pages /\ Self \in Pages
        /\ \A u \in Pages : id[u] = 0 <=> status[u] = "absent"
    BY Bounds, FrontierAssumption DEF ClaimInv, TypeInv, TypeOK
  <1>h. /\ \A v \in Workers : Hand[v] = IF pc[v] \in Holding THEN cur[v] ELSE NoPage
        /\ pc[w] \in Holding => Hand[w] = cur[w] /\ Hand[w] # NoPage /\ status[cur[w]] = "in_progress"
    BY <1>t DEF Hand, ClaimInv, HeldIsClaimed
  <1>1. CASE ReadBudget(w) \/ FindNothing(w) \/ Select(w) \/ ClaimLoses(w) \/ DeadlinePasses(w)
    <2>1. \E c \in Control \ Holding : pc' = [pc EXCEPT ![w] = c]
      BY <1>1 DEF ReadBudget, FindNothing, Select, ClaimLoses, DeadlinePasses, Leave, Control, Holding
    <2>2. pc[w] \notin Holding /\ UNCHANGED <<id, status>>
      BY <1>1 DEF ReadBudget, FindNothing, Select, ClaimLoses, DeadlinePasses, Holding, rowVars
    <2>3. \A v \in Workers : v # w => cur'[v] = cur[v]
      BY <1>1, <1>t DEF ReadBudget, FindNothing, Select, ClaimLoses, DeadlinePasses, Leave
    <2>4. Hand' = Hand
      BY <2>1, <2>2, <2>3, <1>t DEF Hand
    <2> QED
      BY <2>2, <2>4, QueueStutters DEF Queued, Closed
  <1>2. CASE BeginVisit(w) \/ DbRetry(w)
    <2>1. \E c \in Holding : pc' = [pc EXCEPT ![w] = c]
      BY <1>2 DEF BeginVisit, DbRetry, Holding
    <2>2. pc[w] \in Holding /\ UNCHANGED <<id, status, cur>>
      BY <1>2 DEF BeginVisit, DbRetry, AtWork, Holding, rowVars
    <2>3. Hand' = Hand
      BY <2>1, <2>2, <1>t DEF Hand
    <2> QED
      BY <2>2, <2>3, QueueStutters DEF Queued, Closed
  <1>3. CASE ClaimWins(w)
    <2>1. /\ pc[w] = "selected" /\ StatusAsRead(w) /\ status' = [status EXCEPT ![cur[w]] = "in_progress"]
          /\ pc' = [pc EXCEPT ![w] = "claimed"] /\ UNCHANGED <<id, cur>>
      BY <1>3 DEF ClaimWins, Mark
    <2>2. \A v \in Workers : pc[v] \in Holding => cur[v] # cur[w]
      BY <2>1, ClaimableIsFree
    <2>3. status[cur[w]] \in {"pending", "in_progress"}
      BY <2>1, SelectedIsOpen
    <2>4. cur[w] \in Queued /\ cur[w] \notin Closed
      BY <2>3, <1>t DEF Queued, Closed
    <2>5. \A v \in Workers : Hand[v] # cur[w]
      BY <2>2, <1>h, <1>t
    <2>6. Hand[w] = NoPage
      BY <2>1, <1>h DEF Holding
    <2>7. Hand' = [Hand EXCEPT ![w] = cur[w]]
      BY <2>1, <1>t DEF Hand, Holding
    <2>8. UNCHANGED <<Queued, Closed>>
      BY <2>1, <2>3, <1>t DEF Queued, Closed
    <2> QED
      BY <2>4, <2>5, <2>6, <2>7, <2>8, QueueTakes
  <1>4. CASE Reuse(w) \/ ReadUnit(w)
    <2>1. PICK list \in Seq(Pages), d \in Nat : Enqueue(list, d)
      BY <1>4, VisitEnqueues
    <2>2. Queued \subseteq Queued'
      BY <2>1, EnqueueKeepsRows DEF ClaimInv
    <2>3. \A v \in Pages : status'[v] # status[v] => status[v] = "absent" /\ status'[v] = "pending"
      BY <2>1, EnqueueKeepsKeys, TypeSplit DEF ClaimInv, TypeInv
    <2>4. Closed' = Closed
      BY <2>3 DEF Closed
    <2>5. pc[w] \in Holding /\ pc' = [pc EXCEPT ![w] = "visiting"] /\ cur' = cur
      BY <1>4, <1>t DEF Reuse, ReadUnit, Holding
    <2>6. Hand' = Hand
      BY <2>5, <1>t DEF Hand, Holding
    <2> QED
      BY <2>2, <2>4, <2>5, <2>6, <1>h, QueueAdds
  <1>5. CASE MarkDone(w) \/ MarkPartial(w) \/ Timeout(w) \/ Fail(w)
    <2>1. pc[w] \in Holding /\ UNCHANGED id
      BY <1>5 DEF MarkDone, MarkPartial, Timeout, Fail, VisitOver, AtWork, Holding
    <2>2. PICK s \in {"pending", "done", "error"} : status' = [status EXCEPT ![cur[w]] = s]
      BY <1>5 DEF MarkDone, MarkPartial, Timeout, AfterTimeout, Fail, Mark
    <2>3. /\ \E c \in {"off", "again"} : pc' = [pc EXCEPT ![w] = c]
          /\ cur' = [cur EXCEPT ![w] = Self]
      BY <1>5 DEF MarkDone, MarkPartial, Timeout, Fail, Leave
    <2>4. Hand' = [Hand EXCEPT ![w] = NoPage]
      BY <2>3, <1>t DEF Hand, Holding
    <2>5. Closed' = Closed \/ Closed' = Closed \cup {cur[w]}
      BY <2>1, <2>2, <1>t, <1>h DEF Closed
    <2> QED
      BY <2>1, <2>4, <2>5, <1>h, QueueLetsGo DEF Queued
  <1>6. CASE CloseFails(w)
    <2>1. pc[w] \in Holding /\ UNCHANGED <<id, status>>
      BY <1>6 DEF CloseFails, Holding, rowVars
    <2>2. pc' = [pc EXCEPT ![w] = "again"] /\ cur' = [cur EXCEPT ![w] = Self]
      BY <1>6 DEF CloseFails, Leave
    <2>3. Hand' = [Hand EXCEPT ![w] = NoPage]
      BY <2>2, <1>t DEF Hand, Holding
    <2> QED
      BY <2>1, <2>3, <1>h, QueueLetsGo DEF Queued, Closed
  <1> QED
    BY <1>1, <1>2, <1>3, <1>4, <1>5, <1>6 DEF Work, Trouble

\* So is every step of the chain of slices and of the surroundings.
LEMMA NextQueues ==
    ASSUME ExclusionHolds, ClaimInv, [Next]_vars
    PROVE  [Queue!Next]_Queue!queueVars
  <1>1. ASSUME NEW w \in Workers, Work(w) \/ Trouble(w) PROVE Queue!Next \/ UNCHANGED Queue!queueVars
    BY <1>1, WorkerQueues
  <1>2. CASE Dispatch \/ NextSlice
    <2>1. \A w \in Workers : pc[w] \notin Holding
      BY <1>2 DEF Dispatch, NextSlice, SliceOver, ClaimInv, IdleUnlessSlicing, Holding
    <2>2. \A w \in Workers : pc'[w] \notin Holding
      BY <1>2 DEF Dispatch, NextSlice, StartWorkers, Holding
    <2>3. Hand' = Hand
      BY <2>1, <2>2 DEF Hand
    <2>4. UNCHANGED <<Queued, Closed>>
      BY <1>2 DEF Dispatch, NextSlice, rowVars, Queued, Closed
    <2> QED
      BY <2>3, <2>4, QueueStutters
  <1>3. CASE Kill
    <2>1. Hand' = [w \in Workers |-> NoPage]
      BY <1>3 DEF Kill, Hand, Holding
    <2>2. UNCHANGED <<Queued, Closed>>
      BY <1>3 DEF Kill, rowVars, Queued, Closed
    <2>3. Queue!LoseAll
      BY <2>1, <2>2 DEF Queue!LoseAll, Closed, Hand
    <2> QED
      BY <2>3 DEF Queue!Next
  <1>4. CASE EndChain \/ StartFails \/ RunOut \/ UNCHANGED vars \/ \E u \in Pages : GoStale(u) \/ DoneElsewhere(u)
    <2>1. UNCHANGED <<id, status, pc, cur>>
      BY <1>4 DEF EndChain, StartFails, RunOut, GoStale, DoneElsewhere, vars, rowVars, workerVars
    <2> QED
      BY <2>1, QueueStutters DEF Queued, Closed, Hand
  <1> QED
    BY <1>1, <1>2, <1>3, <1>4 DEF Next, Continue

\* The table of rows, its claims and its marks are a work queue: whatever the
\* workers, the slices and the deaths of the process do, seen from outside an item
\* is taken by one worker at a time, put back or settled by that worker only, and
\* never unsettled.
THEOREM FrontierIsAQueue == ExclusionHolds => (Spec => QueueSpec)
  <1> SUFFICES ASSUME ExclusionHolds PROVE Spec => QueueSpec
    OBVIOUS
  <1>1. ClaimInv /\ [Next]_vars => ClaimInv'
    BY NextClaim
  <1>2. ClaimInv /\ [Next]_vars => [Queue!Next]_Queue!queueVars
    BY NextQueues
  <1> QED
    BY <1>1, <1>2, InitClaim, QueueInit, PTL DEF Spec, QueueSpec, Queue!Spec


\* The chain ends on an empty frontier or a spent budget, and nothing moves after that.
LEMMA EndKeepsPending ==
    ASSUME ClaimInv, chain = "over" => exhausted \/ Pending = {}, [Next]_vars
    PROVE  chain' = "over" => exhausted' \/ Pending' = {}
  <1>1. ASSUME NEW w \in Workers, Work(w) \/ Trouble(w) PROVE chain = "slicing" /\ chain' = chain
    <2>1. pc[w] # "off"
      BY <1>1
      DEF Work, Trouble, ReadBudget, FindNothing, Select, ClaimWins, ClaimLoses, Reuse, BeginVisit,
          ReadUnit, MarkDone, MarkPartial, DeadlinePasses, Timeout, DbRetry, Fail, CloseFails,
          VisitOver, AtWork
    <2>2. chain' = chain
      BY <1>1
      DEF Work, Trouble, ReadBudget, FindNothing, Select, ClaimWins, ClaimLoses, Reuse, BeginVisit,
          ReadUnit, MarkDone, MarkPartial, DeadlinePasses, Timeout, DbRetry, Fail, CloseFails, envVars
    <2> QED
      BY <2>1, <2>2 DEF ClaimInv, IdleUnlessSlicing
  <1>2. CASE Dispatch \/ NextSlice \/ StartFails \/ Kill
    BY <1>2 DEF Dispatch, NextSlice, StartFails, SliceOver, Kill, envVars
  <1>3. CASE EndChain \/ RunOut
    BY <1>3 DEF EndChain, MoreToDo, RunOut, Pending, rowVars
  <1>4. CASE UNCHANGED vars \/ \E u \in Pages : GoStale(u) \/ DoneElsewhere(u)
    BY <1>4 DEF GoStale, DoneElsewhere, vars, rowVars, envVars, Pending
  <1> QED
    BY <1>1, <1>2, <1>3, <1>4 DEF Next, Continue

\* Where nothing dies and no closing commit is lost, the chain of slices is over only
\* when every row is closed, or the request budget is spent and what is left is
\* PENDING: no claim is left behind that pending_count cannot see.
THEOREM ChainEndIsTheEnd ==
    MaxKills = 0 /\ MaxDbFaults = 0 => (Spec => []ChainEndsDrained)
  <1> SUFFICES ASSUME MaxKills = 0, MaxDbFaults = 0 PROVE Spec => []ChainEndsDrained
    OBVIOUS
  <1> DEFINE EndInv == ClaimInv /\ (chain = "over" => exhausted \/ Pending = {})
  <1>0. ExclusionHolds
    BY DEF ExclusionHolds
  <1>1. Init => EndInv
    BY InitClaim, <1>0 DEF Init
  <1>2. EndInv /\ [Next]_vars => EndInv'
    BY <1>0, NextClaim, EndKeepsPending
  <1>3. EndInv => ChainEndsDrained
    <2> SUFFICES ASSUME ClaimInv, chain = "over", exhausted \/ Pending = {}, NEW u \in Pages, id[u] # 0
                 PROVE  status[u] \in {"done", "error"} \/ (exhausted /\ status[u] = "pending")
      BY DEF ChainEndsDrained, Queued
    <2>1. kills = 0 /\ faults = 0 /\ status[u] \in Status /\ status[u] # "absent"
      BY DEF ClaimInv, TroubleBounded, TypeInv, TypeOK
    <2>2. Holders(u) = {}
      BY DEF ClaimInv, IdleUnlessSlicing, Holders, Holding
    <2>3. status[u] # "in_progress"
      BY <2>1, <2>2 DEF ClaimInv, NoSilentStrand
    <2> QED
      BY <2>1, <2>3 DEF Pending, Status
  <1> QED
    BY <1>1, <1>2, <1>3, PTL DEF Spec

-----------------------------------------------------------------------------
(* A closed row lost nothing.                                                  *)

\* A unit of a page is kept: it is in the graph, and what it revealed is queued.
UnitKept(u, n) ==
    /\ n \in ingested[u]
    /\ depth[u] < MaxDepth => ToSet(Links[u][n]) \ {Self} \subseteq Queued

\* The first k units of a page are.
Covered(u, k) == k \in 0..UnitCount(u) /\ \A n \in 1..k : UnitKept(u, n)

\* Everything the page reveals is queued.
AllQueued(u) == depth[u] < MaxDepth => AllLinks(u) \ {Self} \subseteq Queued

\* Everything that another scan stored of the page is queued.
StoredQueued(u) == Reusable(u) /\ (depth[u] < MaxDepth => Stored[u] \ {Self} \subseteq Queued)

\* What DoneIsComplete asks of a page's links.
FanOut(u) == AllQueued(u) \/ StoredQueued(u)

\* The visit is a replay of what another scan stored.
Replayed(w) == pos[w] = UnitCount(cur[w]) /\ left[w] = 0 /\ StoredQueued(cur[w])

BookmarkCovers == \A u \in Pages : cursor[u] # 0 => u \in Queued /\ Covered(u, cursor[u])
OnlyUnits      == \A u \in Pages : ingested[u] \subseteq 1..UnitCount(u)
VisitCovers    == \A w \in Workers : pc[w] = "visiting" => Covered(cur[w], pos[w]) \/ Replayed(w)

\* Bookmarks and visits never run ahead of what was committed.
KeptInv == TypeInv /\ BookmarkCovers /\ OnlyUnits /\ VisitCovers /\ DoneIsComplete

\* What never shrinks, and that a row keeps the depth it was discovered at.
Grows ==
    /\ Queued \subseteq Queued'
    /\ \A u \in Queued : depth'[u] = depth[u]
    /\ \A u \in Pages : ingested[u] \subseteq ingested'[u]
    /\ elsewhere \subseteq elsewhere'

\* Enqueueing puts every page of the list on the frontier but the owner's, and
\* moves no row that is there.
LEMMA EnqueuePuts ==
    ASSUME TypeInv, NEW list \in Seq(Pages), NEW d, Enqueue(list, d)
    PROVE  /\ ToSet(list) \ {Self} \subseteq Queued'
           /\ Queued \subseteq Queued'
           /\ \A u \in Queued : depth'[u] = depth[u]
  <1>1. Keys
    BY TypeSplit DEF TypeInv
  <1>2. \A u \in NewOf(list) : /\ u \in Pages /\ id[u] = 0
                               /\ IndexIn(list, u) \in 1..Len(list)
    BY IndexInList DEF NewOf, Discovered, ToSet
  <1>3. id' = [u \in Pages |-> IF u \in NewOf(list) THEN serial + IndexIn(list, u) ELSE id[u]]
    BY DEF Enqueue
  <1>4. \A u \in NewOf(list) : id'[u] # 0
    BY <1>1, <1>2, <1>3 DEF Keys
  <1>5. \A u \in Pages \ NewOf(list) : id'[u] = id[u]
    BY <1>3
  <1>6. ToSet(list) \subseteq Pages
    BY DEF ToSet
  <1>7. \A u \in ToSet(list) \ {Self} : id[u] # 0 \/ u \in NewOf(list)
    BY DEF NewOf, Discovered
  <1>8. \A u \in Queued : depth'[u] = depth[u]
    BY <1>2 DEF Enqueue, Queued, TypeInv, TypeOK
  <1> QED
    BY <1>2, <1>4, <1>5, <1>6, <1>7, <1>8 DEF Queued

\* What a replay or a unit of work puts on the frontier.
LEMMA VisitPuts ==
    ASSUME TypeInv, NEW w \in Workers
    PROVE  /\ Reuse(w) =>
                /\ Queued \subseteq Queued' /\ \A u \in Queued : depth'[u] = depth[u]
                /\ depth[cur[w]] < MaxDepth => Stored[cur[w]] \ {Self} \subseteq Queued'
           /\ ReadUnit(w) =>
                /\ Queued \subseteq Queued' /\ \A u \in Queued : depth'[u] = depth[u]
                /\ depth[cur[w]] < MaxDepth =>
                      ToSet(Links[cur[w]][pos[w] + 1]) \ {Self} \subseteq Queued'
  <1>1. cur[w] \in Pages /\ pos[w] \in Nat /\ depth[cur[w]] \in Nat
    BY DEF TypeInv, TypeOK
  <1>2. ASSUME Reuse(w)
        PROVE  /\ Queued \subseteq Queued' /\ \A u \in Queued : depth'[u] = depth[u]
               /\ depth[cur[w]] < MaxDepth => Stored[cur[w]] \ {Self} \subseteq Queued'
    <2> DEFINE S == IF depth[cur[w]] < MaxDepth THEN Stored[cur[w]] ELSE {}
    <2>0. S \subseteq Pages
      BY <1>1, FrontierAssumption
    <2>1. PICK list \in SetToSeqs(S) : Enqueue(list, depth[cur[w]] + 1)
      BY <1>2 DEF Reuse
    <2>2. list \in Seq(Pages)
      BY <2>1, <1>1, ReplayLists
    <2>3. ToSet(list) = S
      <3> HIDE DEF S
      <3>2. IsFiniteSet(S) /\ Cardinality(S) \in Nat
        BY <2>0, FrontierAssumption, FS_Subset, FS_CardinalityType
      <3>3. list \in [1..Cardinality(S) -> S] /\ \A i, j \in 1..Cardinality(S) : list[i] = list[j] => i = j
        BY <2>1 DEF SetToSeqs
      <3>5. IsFiniteSet(1..Cardinality(S)) /\ Cardinality(1..Cardinality(S)) = Cardinality(S)
        BY <3>2, FS_Interval
      <3>6. list \in Injection(1..Cardinality(S), S)
        BY <3>3 DEF Injection, IsInjective
      <3>7. list \in Surjection(1..Cardinality(S), S)
        BY <3>2, <3>5, <3>6, FS_Injection, FS_Surjection
      <3> QED
        BY <3>3, <3>7 DEF Surjection, ToSet
    <2> HIDE DEF S
    <2>4. S \ {Self} \subseteq Queued' /\ Queued \subseteq Queued' /\ \A u \in Queued : depth'[u] = depth[u]
      BY <2>1, <2>2, <2>3, EnqueuePuts
    <2> QED
      BY <2>4 DEF S
  <1>3. ASSUME ReadUnit(w)
        PROVE  /\ Queued \subseteq Queued' /\ \A u \in Queued : depth'[u] = depth[u]
               /\ depth[cur[w]] < MaxDepth =>
                     ToSet(Links[cur[w]][pos[w] + 1]) \ {Self} \subseteq Queued'
    <2>1. Enqueue(Revealed(cur[w], pos[w] + 1), depth[cur[w]] + 1) /\ pos[w] < UnitCount(cur[w])
      BY <1>3 DEF ReadUnit, UnitsRemain
    <2>2. pos[w] + 1 \in 1..UnitCount(cur[w])
      BY <2>1, <1>1, Bounds
    <2>3. Revealed(cur[w], pos[w] + 1) \in Seq(Pages)
      BY <2>2, <1>1, Bounds DEF Revealed
    <2>4. /\ ToSet(Revealed(cur[w], pos[w] + 1)) \ {Self} \subseteq Queued'
          /\ Queued \subseteq Queued' /\ \A u \in Queued : depth'[u] = depth[u]
      BY <2>1, <2>3, EnqueuePuts
    <2> QED
      BY <2>4 DEF Revealed
  <1> QED
    BY <1>2, <1>3


\* A step of the system shrinks nothing: it enqueues, commits units, or leaves
\* the table's extent alone.
LEMMA NextGrows ==
    ASSUME TypeInv, [Next]_vars
    PROVE  Grows
  <1>1. ASSUME NEW w \in Workers, Reuse(w) PROVE Grows
    BY <1>1, VisitPuts DEF Reuse, Grows, envVars
  <1>2. ASSUME NEW w \in Workers, ReadUnit(w) PROVE Grows
    <2>1. \A u \in Pages : ingested[u] \subseteq ingested'[u]
      BY <1>2 DEF ReadUnit, TypeInv, TypeOK
    <2> QED
      BY <2>1, <1>2, VisitPuts DEF ReadUnit, Grows, envVars
  <1>3. ASSUME UNCHANGED <<id, depth, ingested>>, elsewhere \subseteq elsewhere' PROVE Grows
    BY <1>3 DEF Grows, Queued
  <1>4. ASSUME NEW w \in Workers, Work(w) \/ Trouble(w), ~Reuse(w), ~ReadUnit(w)
        PROVE  UNCHANGED <<id, depth, ingested, elsewhere>>
    BY <1>4
    DEF Work, Trouble, ReadBudget, FindNothing, Select, ClaimWins, ClaimLoses, BeginVisit, MarkDone,
        MarkPartial, DeadlinePasses, Timeout, DbRetry, Fail, CloseFails, rowVars, envVars
  <1>5. ASSUME Continue \/ StartFails \/ RunOut \/ Kill \/ (\E u \in Pages : GoStale(u) \/ DoneElsewhere(u)) \/ UNCHANGED vars
        PROVE  UNCHANGED <<id, depth, ingested>> /\ elsewhere \subseteq elsewhere'
    BY <1>5
    DEF Continue, Dispatch, NextSlice, EndChain, StartFails, RunOut, Kill, GoStale, DoneElsewhere, vars, rowVars, envVars
  <1> QED
    BY <1>1, <1>2, <1>3, <1>4, <1>5 DEF Next

\* What is covered, queued or complete remains so.
LEMMA GrowthKeeps ==
    ASSUME TypeInv, Grows, NEW u \in Queued
    PROVE  /\ \A n \in Nat : UnitKept(u, n) => UnitKept(u, n)'
           /\ \A k \in Nat : Covered(u, k) => Covered(u, k)'
           /\ AllQueued(u) => AllQueued(u)'
           /\ Reusable(u) => Reusable(u)'
           /\ StoredQueued(u) => StoredQueued(u)'
           /\ FanOut(u) => FanOut(u)'
  <1>1. u \in Pages
    BY DEF Queued
  <1>2. \A n \in Nat : UnitKept(u, n) => UnitKept(u, n)'
    BY <1>1 DEF UnitKept, Grows
  <1>3. \A k \in Nat : Covered(u, k) => Covered(u, k)'
    BY <1>2 DEF Covered
  <1> QED
    BY <1>1, <1>2, <1>3 DEF AllQueued, StoredQueued, FanOut, Reusable, Grows

\* The unit that is read extends what is covered by one.
LEMMA ReadUnitCovers ==
    ASSUME KeptInv, NEW w \in Workers, ReadUnit(w), Grows,
           NEW u, u = cur[w], NEW k, k = pos[w]
    PROVE  /\ Covered(u, k + 1)'
           /\ ingested' = [ingested EXCEPT ![u] = @ \cup {k + 1}]
           /\ k + 1 \in 1..UnitCount(u)
  <1>1. /\ u \in Pages /\ k \in Nat /\ depth \in [Pages -> Nat] /\ ingested \in [Pages -> SUBSET Nat]
        /\ pc[w] = "visiting" /\ k < UnitCount(u) /\ left[w] > 0 /\ u \in Queued
        /\ UnitCount(u) \in Nat
    BY Bounds DEF KeptInv, TypeInv, TypeOK, AtARow, Holding, ReadUnit, UnitsRemain, Queued
  <1>2. Covered(u, k)
    BY <1>1 DEF KeptInv, VisitCovers, Replayed
  <1>3. Covered(u, k)'
    BY <1>1, <1>2, GrowthKeeps DEF KeptInv
  <1>4. ingested' = [ingested EXCEPT ![u] = @ \cup {k + 1}]
    BY DEF ReadUnit
  <1>5. UnitKept(u, k + 1)'
    BY <1>1, <1>4, VisitPuts DEF UnitKept, KeptInv, Grows
  <1>6. k + 1 \in 1..UnitCount(u) /\ \A n \in 1..(k + 1) : n \in 1..k \/ n = k + 1
    BY <1>1
  <1> QED
    BY <1>3, <1>4, <1>5, <1>6, <1>1 DEF Covered

\* A visit that comes to its last unit has the whole page.
LEMMA CoveredIsWhole ==
    ASSUME KeptInv, NEW w \in Workers, pc[w] = "visiting", PagedOut(w)
    PROVE  /\ Reusable(cur[w]) \/ ingested[cur[w]] = 1..UnitCount(cur[w])
           /\ FanOut(cur[w])
  <1>1. cur[w] \in Pages /\ pos[w] = UnitCount(cur[w]) /\ UnitCount(cur[w]) \in Nat
    BY Bounds DEF KeptInv, TypeInv, TypeOK, PagedOut
  <1>2. CASE Replayed(w)
    BY <1>2 DEF Replayed, StoredQueued, FanOut
  <1>3. CASE Covered(cur[w], pos[w])
    <2>1. \A n \in 1..UnitCount(cur[w]) : UnitKept(cur[w], n)
      BY <1>1, <1>3 DEF Covered
    <2>2. ingested[cur[w]] = 1..UnitCount(cur[w])
      BY <1>1, <2>1 DEF UnitKept, KeptInv, OnlyUnits
    <2>3. AllQueued(cur[w])
      BY <1>1, <2>1, Bounds DEF UnitKept, AllQueued, AllLinks
    <2> QED
      BY <2>2, <2>3 DEF FanOut
  <1> QED
    BY <1>2, <1>3 DEF KeptInv, VisitCovers


\* A bookmark changes by a unit read, by the page budget, or is cleared.
LEMMA BookmarkStep ==
    ASSUME KeptInv, [Next]_vars, Grows
    PROVE  BookmarkCovers'
  <1>1. SUFFICES ASSUME NEW u \in Pages, cursor'[u] # 0
                 PROVE  u \in Queued' /\ Covered(u, cursor[u])'
    BY DEF BookmarkCovers
  <1>t. /\ cursor \in [Pages -> Nat] /\ pos \in [Workers -> Nat] /\ cur \in [Workers -> Pages]
        /\ \A w \in Workers : pc[w] = "visiting" => cur[w] \in Queued
        /\ TypeInv
    BY DEF KeptInv, TypeInv, TypeOK, AtARow, Holding, Queued
  <1>2. CASE cursor'[u] = cursor[u]
    <2>1. u \in Queued /\ Covered(u, cursor[u]) /\ cursor[u] \in Nat
      BY <1>1, <1>2, <1>t DEF KeptInv, BookmarkCovers
    <2> DEFINE k == cursor[u]
    <2>2. PICK m \in Nat : m = cursor[u]
      BY <2>1
    <2>3. Covered(u, m)'
      BY <2>1, <2>2, <1>t, GrowthKeeps
    <2> QED
      BY <2>1, <2>2, <2>3, <1>2 DEF Grows, Covered
  <1>3. ASSUME NEW w \in Workers, ReadUnit(w), cursor'[u] # cursor[u]
        PROVE  u \in Queued' /\ Covered(u, cursor[u])'
    <2>1. cursor' = [cursor EXCEPT ![cur[w]] = Bookmark(cur[w], pos[w] + 1)] /\ pc[w] = "visiting"
      BY <1>3 DEF ReadUnit
    <2>2. u = cur[w] /\ u \in Queued /\ cursor'[u] = pos[w] + 1
      BY <2>1, <1>1, <1>3, <1>t DEF Bookmark
    <2>3. PICK k \in Nat : k = pos[w]
      BY <1>t
    <2>4. Covered(u, k + 1)'
      BY <1>3, <2>2, <2>3, ReadUnitCovers
    <2>5. cursor'[u] = k + 1
      BY <2>2, <2>3
    <2> QED
      BY <2>2, <2>4, <2>5 DEF Covered, Grows
  <1>4. ASSUME NEW w \in Workers, MarkDone(w) \/ MarkPartial(w), cursor'[u] # cursor[u]
        PROVE  u \in Queued' /\ Covered(u, cursor[u])'
    <2>1. MarkPartial(w)
      BY <1>1, <1>4, <1>t DEF MarkDone
    <2>2. cursor' = [cursor EXCEPT ![cur[w]] = pos[w]] /\ pc[w] = "visiting" /\ ~PagedOut(w)
      BY <2>1 DEF MarkPartial, VisitOver
    <2>3. u = cur[w] /\ u \in Queued /\ cursor'[u] = pos[w]
      BY <2>2, <1>4, <1>t
    <2>4. Covered(cur[w], pos[w])
      BY <2>2 DEF KeptInv, VisitCovers, Replayed, PagedOut
    <2>5. PICK k \in Nat : k = pos[w]
      BY <1>t
    <2>6. Covered(u, k)'
      BY <2>3, <2>4, <2>5, <1>t, GrowthKeeps
    <2>7. cursor'[u] = k
      BY <2>3, <2>5
    <2> QED
      BY <2>3, <2>6, <2>7 DEF Covered, Grows
  <1>5. ASSUME NEW w \in Workers, Work(w) \/ Trouble(w), ~ReadUnit(w), ~MarkDone(w), ~MarkPartial(w)
        PROVE  cursor' = cursor
    BY <1>5
    DEF Work, Trouble, ReadBudget, FindNothing, Select, ClaimWins, ClaimLoses, Reuse, BeginVisit,
        DeadlinePasses, Timeout, DbRetry, Fail, CloseFails, rowVars
  <1>6. ASSUME Continue \/ StartFails \/ RunOut \/ Kill \/ (\E v \in Pages : GoStale(v) \/ DoneElsewhere(v)) \/ UNCHANGED vars
        PROVE  cursor' = cursor
    BY <1>6 DEF Continue, Dispatch, NextSlice, EndChain, StartFails, RunOut, Kill, GoStale, DoneElsewhere, vars, rowVars
  <1> QED
    BY <1>2, <1>3, <1>4, <1>5, <1>6 DEF Next

\* Only units of the page are committed for it.
LEMMA UnitsStep ==
    ASSUME KeptInv, [Next]_vars, Grows
    PROVE  OnlyUnits'
  <1>1. ASSUME NEW w \in Workers, ReadUnit(w) PROVE OnlyUnits'
    <2>1. cur[w] \in Pages /\ pos[w] \in Nat /\ ingested \in [Pages -> SUBSET Nat]
      BY DEF KeptInv, TypeInv, TypeOK
    <2>2. /\ ingested' = [ingested EXCEPT ![cur[w]] = @ \cup {pos[w] + 1}]
          /\ pos[w] + 1 \in 1..UnitCount(cur[w])
      BY <1>1, ReadUnitCovers
    <2> QED
      BY <2>1, <2>2 DEF KeptInv, OnlyUnits, UnitCount
  <1>2. ASSUME NEW w \in Workers, Work(w) \/ Trouble(w), ~ReadUnit(w)
        PROVE  ingested' = ingested
    BY <1>2
    DEF Work, Trouble, ReadBudget, FindNothing, Select, ClaimWins, ClaimLoses, Reuse, BeginVisit, MarkDone,
        MarkPartial, DeadlinePasses, Timeout, DbRetry, Fail, CloseFails, rowVars
  <1>3. ASSUME Continue \/ StartFails \/ RunOut \/ Kill \/ (\E v \in Pages : GoStale(v) \/ DoneElsewhere(v)) \/ UNCHANGED vars
        PROVE  ingested' = ingested
    BY <1>3 DEF Continue, Dispatch, NextSlice, EndChain, StartFails, RunOut, Kill, GoStale, DoneElsewhere, vars, rowVars
  <1>4. ASSUME ingested' = ingested PROVE OnlyUnits'
    BY <1>4 DEF KeptInv, OnlyUnits, UnitCount
  <1> QED
    BY <1>1, <1>2, <1>3, <1>4 DEF Next

\* A visit begins at the bookmark or as a replay, and advances by a unit read.
LEMMA VisitStep ==
    ASSUME KeptInv, [Next]_vars, Grows
    PROVE  VisitCovers'
  <1>1. SUFFICES ASSUME NEW v \in Workers, pc'[v] = "visiting"
                 PROVE  Covered(cur[v], pos[v])' \/ Replayed(v)'
    BY DEF VisitCovers
  <1>t. /\ pc \in [Workers -> Control] /\ pos \in [Workers -> Nat] /\ cur \in [Workers -> Pages]
        /\ cursor \in [Pages -> Nat] /\ left \in [Workers -> Nat] /\ depth \in [Pages -> Nat]
        /\ \A w \in Workers : pc[w] \in Holding => cur[w] \in Queued
        /\ TypeInv
    BY DEF KeptInv, TypeInv, TypeOK, AtARow, Holding, Queued
  <1>2. ASSUME pc[v] = "visiting", UNCHANGED <<cur[v], pos[v], left[v]>>
        PROVE  Covered(cur[v], pos[v])' \/ Replayed(v)'
    <2>1. PICK u \in Pages, k \in Nat : u = cur[v] /\ k = pos[v]
      BY <1>t
    <2>2. u \in Queued
      BY <2>1, <1>2, <1>t DEF Holding
    <2>3. Covered(u, k) => Covered(u, k)'
      BY <2>2, <1>t, GrowthKeeps
    <2>4. StoredQueued(u) => StoredQueued(u)'
      BY <2>2, <1>t, GrowthKeeps
    <2>5. CASE Covered(u, k)
      <3>1. Covered(u, k)'
        BY <2>5, <2>3
      <3>2. cur'[v] = u /\ pos'[v] = k
        BY <2>1, <1>2
      <3> QED
        BY <3>1, <3>2 DEF Covered, UnitKept
    <2>6. CASE Replayed(v)
      <3>1. StoredQueued(u) /\ k = UnitCount(u) /\ left[v] = 0
        BY <2>1, <2>6 DEF Replayed
      <3>2. StoredQueued(u)'
        BY <2>4, <3>1
      <3>3. cur'[v] = u /\ pos'[v] = k /\ left'[v] = 0
        BY <2>1, <1>2, <3>1
      <3> QED
        BY <3>1, <3>2, <3>3 DEF Replayed, StoredQueued, Reusable, UnitCount
    <2> QED
      BY <2>1, <2>5, <2>6, <1>2 DEF KeptInv, VisitCovers
  <1>3. ASSUME NEW w \in Workers, Work(w) \/ Trouble(w)
        PROVE  Covered(cur[v], pos[v])' \/ Replayed(v)'
    <2>1. CASE v # w
      <3>1. UNCHANGED <<pc[v], cur[v], pos[v], left[v]>>
        BY <2>1, <1>3, <1>t
        DEF Work, Trouble, ReadBudget, FindNothing, Select, ClaimWins, ClaimLoses, Reuse, BeginVisit, ReadUnit,
            MarkDone, MarkPartial, DeadlinePasses, Timeout, DbRetry, Fail, CloseFails, Leave
      <3> QED
        BY <3>1, <1>1, <1>2
    <2>2. CASE v = w
      <3>1. Reuse(w) \/ BeginVisit(w) \/ ReadUnit(w)
        BY <2>2, <1>1, <1>3, <1>t
        DEF Work, Trouble, ReadBudget, FindNothing, Select, ClaimWins, ClaimLoses,
            MarkDone, MarkPartial, DeadlinePasses, Timeout, DbRetry, Fail, CloseFails, Leave
      <3>2. PICK u \in Pages : u = cur[v]
        BY <1>t
      <3>3. CASE Reuse(w)
        <4>1. /\ cur'[v] = u /\ pos'[v] = UnitCount(u) /\ left'[v] = 0
              /\ pc[v] = "claimed" /\ Reusable(u)
          BY <2>2, <3>2, <3>3, <1>t DEF Reuse
        <4>2. u \in Queued
          BY <4>1, <3>2, <1>t DEF Holding
        <4>3. Reusable(u)'
          BY <4>1, <4>2, <1>t, GrowthKeeps
        <4>4. depth'[u] = depth[u] /\ (depth[u] < MaxDepth => Stored[u] \ {Self} \subseteq Queued')
          BY <2>2, <3>2, <3>3, <4>2, <1>t, VisitPuts DEF Grows
        <4> QED
          BY <4>1, <4>3, <4>4 DEF Replayed, StoredQueued, Reusable, UnitCount
      <3>4. CASE BeginVisit(w)
        <4>1. cur'[v] = u /\ pos'[v] = cursor[u] /\ UNCHANGED rowVars /\ pc[v] = "claimed"
          BY <2>2, <3>2, <3>4, <1>t DEF BeginVisit
        <4>2. PICK k \in Nat : k = cursor[u]
          BY <1>t
        <4>3. Covered(u, k)
          BY <4>2, Bounds DEF KeptInv, BookmarkCovers, Covered
        <4>4. u \in Queued
          BY <4>1, <3>2, <1>t DEF Holding
        <4>5. Covered(u, k)'
          BY <4>3, <4>4, <1>t, GrowthKeeps
        <4>6. cur'[v] = u /\ pos'[v] = k
          BY <4>1, <4>2
        <4> QED
          BY <4>5, <4>6 DEF Covered, UnitKept
      <3>5. CASE ReadUnit(w)
        <4>1. PICK k \in Nat : k = pos[v]
          BY <1>t
        <4>2. Covered(u, k + 1)'
          BY <2>2, <3>2, <3>5, <4>1, ReadUnitCovers
        <4>3. cur'[v] = u /\ pos'[v] = k + 1
          BY <2>2, <3>2, <3>5, <4>1, <1>t DEF ReadUnit
        <4> QED
          BY <4>2, <4>3 DEF Covered, UnitKept
      <3> QED
        BY <3>1, <3>3, <3>4, <3>5
    <2> QED
      BY <2>1, <2>2
  <1>4. CASE Dispatch \/ NextSlice \/ Kill
    BY <1>4, <1>1 DEF Dispatch, NextSlice, StartWorkers, Kill
  <1>5. CASE EndChain \/ StartFails \/ RunOut \/ UNCHANGED vars \/ \E u \in Pages : GoStale(u) \/ DoneElsewhere(u)
    <2>1. UNCHANGED workerVars
      BY <1>5 DEF EndChain, StartFails, RunOut, GoStale, DoneElsewhere, vars
    <2> QED
      BY <2>1, <1>1, <1>2 DEF workerVars
  <1> QED
    BY <1>3, <1>4, <1>5 DEF Next, Continue

\* A row is closed at the end of a visit that has the whole page.
LEMMA DoneStep ==
    ASSUME KeptInv, [Next]_vars, Grows
    PROVE  DoneIsComplete'
  <1>1. SUFFICES ASSUME NEW u \in Pages, status'[u] = "done"
                 PROVE  /\ Reusable(u)' \/ ingested'[u] = 1..UnitCount(u)
                        /\ FanOut(u)'
    BY DEF DoneIsComplete, FanOut, AllQueued, StoredQueued, Reusable, UnitCount, AllLinks
  <1>t. /\ TypeInv /\ OnlyUnits' /\ status \in [Pages -> Status] /\ cur \in [Workers -> Pages]
        /\ \A v \in Pages : id[v] = 0 <=> status[v] = "absent"
        /\ \A w \in Workers : pc[w] \in Holding => cur[w] \in Queued
    BY UnitsStep DEF KeptInv, TypeInv, TypeOK, AtARow, Queued
  <1>2. ASSUME u \in Queued, Reusable(u) \/ ingested[u] = 1..UnitCount(u), FanOut(u)
        PROVE  /\ Reusable(u)' \/ ingested'[u] = 1..UnitCount(u)
               /\ FanOut(u)'
    <2>1. FanOut(u)' /\ (Reusable(u) => Reusable(u)')
      BY <1>2, <1>t, GrowthKeeps
    <2>2. ingested[u] \subseteq ingested'[u] /\ ingested'[u] \subseteq 1..UnitCount(u)
      BY <1>t DEF Grows, OnlyUnits, UnitCount
    <2> QED
      BY <1>2, <2>1, <2>2
  <1>3. CASE status[u] = "done"
    BY <1>2, <1>3, <1>t DEF KeptInv, DoneIsComplete, FanOut, AllQueued, StoredQueued, Queued
  <1>4. CASE status[u] # "done"
    <2>1. ASSUME NEW w \in Workers, MarkDone(w), u = cur[w]
          PROVE  /\ Reusable(u)' \/ ingested'[u] = 1..UnitCount(u)
                 /\ FanOut(u)'
      BY <2>1, <1>2, <1>t, CoveredIsWhole DEF MarkDone, VisitOver, Holding
    <2>2. ASSUME NEW w \in Workers, Work(w) \/ Trouble(w) PROVE MarkDone(w) /\ u = cur[w]
      <3>1. CASE Reuse(w) \/ ReadUnit(w)
        <4>1. \E list, d : Enqueue(list, d)
          BY <3>1 DEF Reuse, ReadUnit
        <4> QED
          BY <4>1, <1>1, <1>4 DEF Enqueue
      <3>2. CASE ~Reuse(w) /\ ~ReadUnit(w)
        BY <2>2, <3>2, <1>1, <1>4, <1>t
        DEF Work, Trouble, ReadBudget, FindNothing, Select, ClaimWins, ClaimLoses, BeginVisit,
            MarkDone, MarkPartial, DeadlinePasses, Timeout, AfterTimeout, DbRetry, Fail, CloseFails,
            Mark, rowVars
      <3> QED
        BY <3>1, <3>2
    <2>3. ASSUME Continue \/ StartFails \/ RunOut \/ Kill \/ (\E v \in Pages : GoStale(v) \/ DoneElsewhere(v)) \/ UNCHANGED vars
          PROVE  status' = status
      BY <2>3 DEF Continue, Dispatch, NextSlice, EndChain, StartFails, RunOut, Kill, GoStale, DoneElsewhere, vars, rowVars
    <2> QED
      BY <2>1, <2>2, <2>3, <1>1, <1>4 DEF Next
  <1> QED
    BY <1>3, <1>4

\* On a fresh frontier nothing is read, bookmarked or closed.
LEMMA InitKept == Init => KeptInv
  <1> SUFFICES ASSUME Init PROVE KeptInv
    OBVIOUS
  <1>1. BookmarkCovers /\ OnlyUnits /\ VisitCovers
    BY DEF Init, BookmarkCovers, OnlyUnits, VisitCovers
  <1>2. DoneIsComplete
    BY DEF Init, DoneIsComplete
  <1> QED
    BY <1>1, <1>2, InitType DEF KeptInv

\* Every step keeps all of it.
LEMMA NextKept == KeptInv /\ [Next]_vars => KeptInv'
  <1> SUFFICES ASSUME KeptInv, [Next]_vars PROVE KeptInv'
    OBVIOUS
  <1>1. TypeInv' /\ Grows
    BY NextType, NextGrows DEF KeptInv
  <1> QED
    BY <1>1, BookmarkStep, UnitsStep, VisitStep, DoneStep DEF KeptInv

\* A row that is DONE lost nothing, whatever was killed, timed out, retried or
\* claimed twice on the way: bookmarks and visits never run ahead of the commits.
\* Nothing is assumed of the database's locks.
THEOREM DoneRowsLostNothing == Spec => []DoneIsComplete
  <1>1. KeptInv => DoneIsComplete
    BY DEF KeptInv
  <1> QED
    BY <1>1, InitKept, NextKept, PTL DEF Spec

-----------------------------------------------------------------------------
(* The rows of a scan are read as Reading says.                                *)

\* The bookmark of a row under visit names the visit's last unit.
VisitsInStep ==
    \A w \in Workers : pc[w] = "visiting" /\ cur[w] \in Own =>
        cursor[cur[w]] = Bookmark(cur[w], pos[w])

BookmarksWithin == \A u \in Pages : cursor[u] < UnitCount(u)

WalkInv == ClaimInv /\ KeptInv /\ VisitsInStep /\ BookmarksWithin

\* A row of the scan's own is never replayed, and no visit is beyond its page.
LEMMA OwnVisit ==
    ASSUME KeptInv, NEW w \in Workers
    PROVE  /\ cur[w] \in Pages /\ pos[w] \in Nat /\ UnitCount(cur[w]) \in Nat \ {0}
           /\ cur[w] \in Own => ~Reusable(cur[w])
           /\ pc[w] = "visiting" => pos[w] <= UnitCount(cur[w])
  <1>1. cur[w] \in Pages /\ pos[w] \in Nat /\ elsewhere \subseteq Shared
    BY DEF KeptInv, TypeInv, TypeOK
  <1>2. UnitCount(cur[w]) \in Nat \ {0}
    BY <1>1, UnitsPositive
  <1>3. cur[w] \in Own => ~Reusable(cur[w])
    BY <1>1 DEF Own, Reusable
  <1>4. pc[w] = "visiting" => pos[w] <= UnitCount(cur[w])
    BY <1>1, <1>2 DEF KeptInv, VisitCovers, Covered, Replayed
  <1> QED
    BY <1>1, <1>2, <1>3, <1>4

\* Bookmarks are moved by units that are committed and by visits that end.
LEMMA BookmarkMoves ==
    ASSUME [Next]_vars
    PROVE  cursor' = cursor \/ \E w \in Workers : ReadUnit(w) \/ MarkDone(w) \/ MarkPartial(w)
  <1>1. ASSUME NEW w \in Workers, Work(w) \/ Trouble(w), ~ReadUnit(w), ~MarkDone(w), ~MarkPartial(w)
        PROVE  cursor' = cursor
    BY <1>1
    DEF Work, Trouble, ReadBudget, FindNothing, Select, ClaimWins, ClaimLoses, Reuse, BeginVisit,
        DeadlinePasses, Timeout, DbRetry, Fail, CloseFails, rowVars
  <1>2. ASSUME Continue \/ StartFails \/ RunOut \/ Kill \/ (\E v \in Pages : GoStale(v) \/ DoneElsewhere(v)) \/ UNCHANGED vars
        PROVE  cursor' = cursor
    BY <1>2 DEF Continue, Dispatch, NextSlice, EndChain, StartFails, RunOut, Kill, GoStale, DoneElsewhere, vars, rowVars
  <1> QED
    BY <1>1, <1>2 DEF Next

\* What each of these does to the bookmarks.
LEMMA BookmarkMoved ==
    ASSUME WalkInv, NEW w \in Workers, NEW u, u = cur[w]
    PROVE  /\ ReadUnit(w) =>
                /\ cursor' = [cursor EXCEPT ![u] = Bookmark(u, pos[w] + 1)]
                /\ pos[w] + 1 <= UnitCount(u) /\ pc[w] = "visiting"
           /\ MarkDone(w) => cursor' = [cursor EXCEPT ![u] = 0] /\ pc[w] = "visiting"
           /\ MarkPartial(w) =>
                cursor' = [cursor EXCEPT ![u] = pos[w]] /\ pos[w] < UnitCount(u) /\ pc[w] = "visiting"
  <1>1. pos[w] \in Nat /\ UnitCount(u) \in Nat \ {0} /\ (pc[w] = "visiting" => pos[w] <= UnitCount(u))
    BY OwnVisit DEF WalkInv
  <1> QED
    BY <1>1 DEF ReadUnit, UnitsRemain, MarkDone, MarkPartial, VisitOver, PagedOut

\* Every step keeps the bookmarks within their pages.
LEMMA WithinStep == WalkInv /\ [Next]_vars => BookmarksWithin'
  <1> SUFFICES ASSUME WalkInv, [Next]_vars, NEW u \in Pages PROVE cursor'[u] < UnitCount(u)
    BY DEF BookmarksWithin, UnitCount
  <1>1. cursor \in [Pages -> Nat] /\ UnitCount(u) \in Nat \ {0} /\ cursor[u] < UnitCount(u)
    BY UnitsPositive DEF WalkInv, ClaimInv, TypeInv, TypeOK, BookmarksWithin
  <1>2. ASSUME NEW w \in Workers, ReadUnit(w) \/ MarkDone(w) \/ MarkPartial(w)
        PROVE  cursor'[u] < UnitCount(u)
    <2>1. pos[w] \in Nat
      BY OwnVisit DEF WalkInv
    <2> QED
      BY <1>1, <1>2, <2>1, BookmarkMoved DEF Bookmark
  <1> QED
    BY <1>1, <1>2, BookmarkMoves

\* Every step keeps visits and bookmarks in step: only the one worker on a row moves its bookmark.
LEMMA InStepStep == ExclusionHolds /\ WalkInv /\ [Next]_vars => VisitsInStep'
  <1> SUFFICES ASSUME ExclusionHolds, WalkInv, [Next]_vars,
                      NEW v \in Workers, pc'[v] = "visiting", cur'[v] \in Own
               PROVE  cursor'[cur'[v]] = Bookmark(cur'[v], pos'[v])
    BY DEF VisitsInStep, Bookmark, Own, UnitCount
  <1>t. /\ pc \in [Workers -> Control] /\ pos \in [Workers -> Nat] /\ cur \in [Workers -> Pages]
        /\ cursor \in [Pages -> Nat]
    BY DEF WalkInv, ClaimInv, TypeInv, TypeOK
  <1>1. ASSUME pc[v] = "visiting", UNCHANGED <<cur[v], pos[v], cursor[cur[v]]>>
        PROVE  cursor'[cur'[v]] = Bookmark(cur'[v], pos'[v])
    BY <1>1 DEF WalkInv, VisitsInStep
  <1>2. ASSUME NEW w \in Workers \ {v}, Work(w) \/ Trouble(w)
        PROVE  cursor'[cur'[v]] = Bookmark(cur'[v], pos'[v])
    <2>1. UNCHANGED <<pc[v], cur[v], pos[v]>>
      BY <1>2, <1>t
      DEF Work, Trouble, ReadBudget, FindNothing, Select, ClaimWins, ClaimLoses, Reuse, BeginVisit, ReadUnit,
          MarkDone, MarkPartial, DeadlinePasses, Timeout, DbRetry, Fail, CloseFails, Leave
    <2>2. CASE ReadUnit(w) \/ MarkDone(w) \/ MarkPartial(w)
      <3>1. pc[w] = "visiting" /\ \E b : cursor' = [cursor EXCEPT ![cur[w]] = b]
        BY <2>2, BookmarkMoved
      <3>2. cur[w] # cur[v]
        BY <2>1, <3>1 DEF WalkInv, ClaimInv, ClaimExclusive, Holding
      <3> QED
        BY <1>1, <1>t, <2>1, <3>1, <3>2
    <2>3. CASE ~ReadUnit(w) /\ ~MarkDone(w) /\ ~MarkPartial(w)
      <3>1. cursor' = cursor
        BY <1>2, <2>3
        DEF Work, Trouble, ReadBudget, FindNothing, Select, ClaimWins, ClaimLoses, Reuse, BeginVisit,
            DeadlinePasses, Timeout, DbRetry, Fail, CloseFails, rowVars
      <3> QED
        BY <1>1, <2>1, <3>1
    <2> QED
      BY <2>2, <2>3
  <1>3. CASE Work(v) \/ Trouble(v)
    <2>1. Reuse(v) \/ BeginVisit(v) \/ ReadUnit(v)
      BY <1>3, <1>t
      DEF Work, Trouble, ReadBudget, FindNothing, Select, ClaimWins, ClaimLoses,
          MarkDone, MarkPartial, DeadlinePasses, Timeout, DbRetry, Fail, CloseFails, Leave
    <2>2. CASE Reuse(v)
      BY <2>2, OwnVisit DEF Reuse, WalkInv
    <2>3. CASE BeginVisit(v)
      <3>1. cur' = cur /\ pos'[v] = cursor[cur[v]] /\ cursor' = cursor /\ cur[v] \in Pages
        BY <2>3, <1>t DEF BeginVisit, rowVars
      <3>2. cursor[cur[v]] < UnitCount(cur[v])
        BY <3>1 DEF WalkInv, BookmarksWithin
      <3> QED
        BY <3>1, <3>2 DEF Bookmark
    <2>4. CASE ReadUnit(v)
      <3>1. cursor' = [cursor EXCEPT ![cur[v]] = Bookmark(cur[v], pos[v] + 1)]
        BY <2>4, BookmarkMoved
      <3>2. cur' = cur /\ pos'[v] = pos[v] + 1
        BY <2>4, <1>t DEF ReadUnit
      <3> QED
        BY <3>1, <3>2, <1>t
    <2> QED
      BY <2>1, <2>2, <2>3, <2>4
  <1>4. CASE Dispatch \/ NextSlice \/ Kill
    BY <1>4 DEF Dispatch, NextSlice, StartWorkers, Kill
  <1>5. CASE EndChain \/ StartFails \/ RunOut \/ UNCHANGED vars \/ \E u \in Pages : GoStale(u) \/ DoneElsewhere(u)
    <2>1. UNCHANGED <<pc, cur, pos, cursor>>
      BY <1>5 DEF EndChain, StartFails, RunOut, GoStale, DoneElsewhere, vars, rowVars, workerVars
    <2> QED
      BY <1>1, <2>1
  <1> QED
    BY <1>2, <1>3, <1>4, <1>5 DEF Next, Continue

\* What Reading sees of a row's status.
Shown(u) == IF status[u] \in {"done", "error"} THEN status[u] ELSE "open"

\* A step that closes no row of the scan's own, commits no unit of one and moves no bookmark of one.
LEMMA WalkStutters ==
    ASSUME \A u \in Own : UNCHANGED <<Shown(u), cursor[u], ingested[u]>>
    PROVE  UNCHANGED Walk!readingVars
  BY DEF Walk!readingVars, Shown

\* The row u becomes s, and no bookmark moves and no unit is committed.
LEMMA WalkMarks ==
    ASSUME WalkInv, NEW u \in Pages, status[u] \in {"pending", "in_progress"},
           NEW s \in Status, status' = [status EXCEPT ![u] = s],
           ingested' = ingested, \A v \in Own : cursor'[v] = cursor[v],
           s = "done" => (u \in Own => cursor[u] = 0 /\ ingested[u] = 1..UnitCount(u))
    PROVE  Walk!Next \/ UNCHANGED Walk!readingVars
  <1>1. \A v \in Own : v \in Pages /\ (v # u => Shown(v)' = Shown(v))
    BY DEF Shown, Own, WalkInv, ClaimInv, TypeInv, TypeOK
  <1>2. status'[u] = s /\ Shown(u) = "open"
    BY DEF Shown, WalkInv, ClaimInv, TypeInv, TypeOK
  <1>3. CASE u \notin Own \/ s \notin {"done", "error"}
    <2>1. \A v \in Own : Shown(v)' = Shown(v)
      BY <1>1, <1>2, <1>3 DEF Shown
    <2> QED
      BY <2>1, WalkStutters
  <1>4. CASE u \in Own /\ s = "done"
    <2>1. Walk!Close(u)
      BY <1>1, <1>2, <1>4 DEF Walk!Close, Shown
    <2> QED
      BY <1>4, <2>1 DEF Walk!Next
  <1>5. CASE u \in Own /\ s = "error"
    <2>1. Walk!GiveUp(u)
      BY <1>1, <1>2, <1>5 DEF Walk!GiveUp, Shown
    <2> QED
      BY <1>5, <2>1 DEF Walk!Next
  <1> QED
    BY <1>3, <1>4, <1>5

\* Enqueueing closes and opens nothing.
LEMMA EnqueueShows ==
    ASSUME ClaimInv, NEW w \in Workers, Reuse(w) \/ ReadUnit(w)
    PROVE  \A u \in Own : Shown(u)' = Shown(u)
  <1>1. PICK list \in Seq(Pages), d \in Nat : Enqueue(list, d)
    BY VisitEnqueues
  <1>2. \A v \in Pages : status'[v] # status[v] => status[v] = "absent" /\ status'[v] = "pending"
    BY <1>1, EnqueueKeepsKeys, TypeSplit DEF ClaimInv, TypeInv
  <1> QED
    BY <1>2 DEF Shown, Own

\* A unit read is the one after the bookmark.
LEMMA ReadUnitCommits ==
    ASSUME ExclusionHolds, WalkInv, NEW w \in Workers, ReadUnit(w)
    PROVE  Walk!Next \/ UNCHANGED Walk!readingVars
  <1> PICK u \in Pages : u = cur[w]
    BY OwnVisit DEF WalkInv
  <1>t. /\ cursor \in [Pages -> Nat] /\ ingested \in [Pages -> SUBSET Nat] /\ pos[w] \in Nat
        /\ UnitCount(u) \in Nat \ {0} /\ Own \subseteq Pages
    BY OwnVisit DEF WalkInv, ClaimInv, TypeInv, TypeOK, Own
  <1>1. \A v \in Own : Shown(v)' = Shown(v)
    BY EnqueueShows DEF WalkInv
  <1>2. /\ cursor' = [cursor EXCEPT ![u] = Bookmark(u, pos[w] + 1)]
        /\ ingested' = [ingested EXCEPT ![u] = @ \cup {pos[w] + 1}]
        /\ pos[w] + 1 <= UnitCount(u) /\ pc[w] = "visiting"
    BY BookmarkMoved DEF ReadUnit
  <1>3. CASE u \in Own
    <2>1. cursor[u] = pos[w]
      BY <1>2, <1>3, <1>t DEF WalkInv, VisitsInStep, Bookmark
    <2>2. status[u] = "in_progress"
      BY <1>2 DEF WalkInv, ClaimInv, HeldIsClaimed, Holding
    <2>3. Shown(u) = "open"
      BY <2>2 DEF Shown
    <2>4. \A v \in Own : /\ v # u => cursor'[v] = cursor[v] /\ ingested'[v] = ingested[v]
                         /\ v = u => /\ cursor'[v] = (IF cursor[u] + 1 < UnitCount(u) THEN cursor[u] + 1 ELSE 0)
                                     /\ ingested'[v] = ingested[v] \cup {cursor[u] + 1}
      BY <1>2, <1>t, <2>1 DEF Bookmark
    <2>5. Walk!Commit(u)
      BY <1>1, <1>3, <2>3, <2>4 DEF Walk!Commit, Shown
    <2> QED
      BY <1>3, <2>5 DEF Walk!Next
  <1>4. CASE u \notin Own
    BY <1>1, <1>2, <1>4, <1>t, WalkStutters
  <1> QED
    BY <1>3, <1>4

\* A visit that ends leaves the bookmark where its last unit put it.
LEMMA VisitEnds ==
    ASSUME ExclusionHolds, WalkInv, NEW w \in Workers, MarkDone(w) \/ MarkPartial(w)
    PROVE  Walk!Next \/ UNCHANGED Walk!readingVars
  <1> PICK u \in Pages : u = cur[w]
    BY OwnVisit DEF WalkInv
  <1>t. /\ cursor \in [Pages -> Nat] /\ pos[w] \in Nat /\ UnitCount(u) \in Nat \ {0}
        /\ Own \subseteq Pages /\ (u \in Own => ~Reusable(u))
    BY OwnVisit DEF WalkInv, ClaimInv, TypeInv, TypeOK, Own
  <1>1. pc[w] = "visiting" /\ ingested' = ingested
    BY DEF MarkDone, MarkPartial, VisitOver
  <1>2. status[u] = "in_progress"
    BY <1>1 DEF WalkInv, ClaimInv, HeldIsClaimed, Holding
  <1>3. u \in Own => cursor[u] = Bookmark(u, pos[w])
    BY <1>1 DEF WalkInv, VisitsInStep
  <1>4. CASE MarkDone(w)
    <2>1. /\ status' = [status EXCEPT ![u] = "done"] /\ cursor' = [cursor EXCEPT ![u] = 0]
          /\ pos[w] = UnitCount(u) /\ PagedOut(w)
      BY <1>4 DEF MarkDone, Mark, PagedOut
    <2>2. u \in Own => cursor[u] = 0 /\ ingested[u] = 1..UnitCount(u)
      BY <1>1, <1>3, <1>t, <2>1, CoveredIsWhole DEF Bookmark, WalkInv
    <2>3. \A v \in Own : cursor'[v] = cursor[v]
      BY <1>t, <2>1, <2>2
    <2> QED
      BY <1>1, <1>2, <2>1, <2>2, <2>3, WalkMarks DEF Status
  <1>5. CASE MarkPartial(w)
    <2>1. /\ status' = [status EXCEPT ![u] = "pending"]
          /\ cursor' = [cursor EXCEPT ![u] = pos[w]] /\ pos[w] < UnitCount(u)
      BY <1>5, BookmarkMoved DEF MarkPartial, Mark
    <2>2. \A v \in Own : cursor'[v] = cursor[v]
      BY <1>3, <1>t, <2>1 DEF Bookmark
    <2> QED
      BY <1>1, <1>2, <2>1, <2>2, WalkMarks DEF Status
  <1> QED
    BY <1>4, <1>5

\* Every step reads the next unit of a row, ends a row, or leaves the reading as it is.
LEMMA NextWalks ==
    ASSUME ExclusionHolds, WalkInv, [Next]_vars
    PROVE  [Walk!Next]_Walk!readingVars
  <1>t. cur \in [Workers -> Pages] /\ Own \subseteq Pages
    BY DEF WalkInv, ClaimInv, TypeInv, TypeOK, Own
  <1>1. ASSUME UNCHANGED <<status, cursor, ingested>> PROVE UNCHANGED Walk!readingVars
    BY <1>1, WalkStutters DEF Shown
  <1>2. ASSUME NEW w \in Workers, Work(w) \/ Trouble(w)
        PROVE  Walk!Next \/ UNCHANGED Walk!readingVars
    <2>1. CASE \/ ReadBudget(w) \/ FindNothing(w) \/ Select(w) \/ ClaimLoses(w) \/ DeadlinePasses(w)
               \/ BeginVisit(w) \/ DbRetry(w) \/ CloseFails(w)
      BY <1>1, <2>1 DEF ReadBudget, FindNothing, Select, ClaimLoses, DeadlinePasses, BeginVisit, DbRetry,
         CloseFails, rowVars
    <2>2. CASE ClaimWins(w)
      <3>1. status[cur[w]] \in {"pending", "in_progress"} /\ cur[w] \in Pages
        BY <2>2, <1>t, SelectedIsOpen DEF WalkInv, ClaimWins
      <3>2. status' = [status EXCEPT ![cur[w]] = "in_progress"] /\ UNCHANGED <<cursor, ingested>>
        BY <2>2 DEF ClaimWins, Mark
      <3> QED
        BY <3>1, <3>2, WalkMarks DEF Status
    <2>3. CASE Reuse(w)
      <3>1. UNCHANGED <<cursor, ingested>>
        BY <2>3 DEF Reuse
      <3> QED
        BY <2>3, <3>1, EnqueueShows, WalkStutters DEF WalkInv
    <2>4. CASE Timeout(w) \/ Fail(w)
      <3>1. status[cur[w]] = "in_progress" /\ cur[w] \in Pages
        BY <2>4, <1>t DEF Timeout, Fail, AtWork, WalkInv, ClaimInv, HeldIsClaimed, Holding
      <3>2. /\ UNCHANGED <<cursor, ingested>>
            /\ \E s \in {"pending", "error"} : status' = [status EXCEPT ![cur[w]] = s]
        BY <2>4 DEF Timeout, AfterTimeout, Fail, Mark
      <3> QED
        BY <3>1, <3>2, WalkMarks DEF Status
    <2> QED
      BY <1>2, <2>1, <2>2, <2>3, <2>4, ReadUnitCommits, VisitEnds DEF Work, Trouble
  <1>3. CASE Continue \/ StartFails \/ RunOut \/ Kill \/ (\E u \in Pages : GoStale(u) \/ DoneElsewhere(u)) \/ UNCHANGED vars
    BY <1>1, <1>3
    DEF Continue, Dispatch, NextSlice, EndChain, StartFails, RunOut, Kill, GoStale, DoneElsewhere, vars, rowVars
  <1> QED
    BY <1>2, <1>3 DEF Next

\* At the start nothing is read.
LEMMA InitWalk == Init => WalkInv /\ Walk!Init
  <1> SUFFICES ASSUME Init PROVE WalkInv /\ Walk!Init
    OBVIOUS
  <1>1. VisitsInStep
    BY DEF Init, VisitsInStep
  <1>2. BookmarksWithin
    BY UnitsPositive DEF Init, BookmarksWithin
  <1>3. Walk!Init
    BY DEF Init, Walk!Init, Own
  <1> QED
    BY <1>1, <1>2, <1>3, InitClaim, InitKept DEF WalkInv

\* mark_partial, the bookmark in every page's commit, and the claim: whichever workers, slices and
\* processes it takes, the units of a row are committed in order, each with its bookmark, and the
\* row is done, for good, only at the end.
THEOREM RowsAreReadInOrder == ExclusionHolds => (Spec => WalkSpec)
  <1> SUFFICES ASSUME ExclusionHolds PROVE Spec => WalkSpec
    OBVIOUS
  <1>1. WalkInv /\ [Next]_vars => WalkInv' /\ [Walk!Next]_Walk!readingVars
    <2> SUFFICES ASSUME WalkInv, [Next]_vars PROVE WalkInv' /\ [Walk!Next]_Walk!readingVars
      OBVIOUS
    <2>1. ClaimInv' /\ KeptInv'
      BY NextClaim, NextKept DEF WalkInv
    <2> QED
      BY <2>1, WithinStep, InStepStep, NextWalks DEF WalkInv
  <1> QED
    BY <1>1, InitWalk, PTL DEF Spec, WalkSpec, Walk!Spec

==============================================================================
