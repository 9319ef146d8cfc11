------------------------------- MODULE Registry --------------------------------
(***************************************************************************)
(* The table of worker nodes: its registration calls, retried by the       *)
(* workers (cmd/worker/main.go, server.go), the one lock of the table,     *)
(* which RegisterNode keeps while it writes to etcd, the status set by     *)
(* every metrics batch, and the consistent-hash ring                       *)
(* (internal/orchestrator/node_manager.go).                                *)
(*                                                                         *)
(* A step under nm.mu that does not wait for etcd is one action.  A        *)
(* handler goes on when its caller has given up: RegisterNode writes with  *)
(* the context of the table and not of the call.                           *)
(***************************************************************************)
EXTENDS Naturals, FiniteSets, FiniteSetsExt

CONSTANTS
  Nodes,        \* worker ids
  Old,          \* nodes registered before; bound: they rest until they are unregistered
  NoNode,
  Points,       \* values of hashKey
  Virtual,      \* the points of a node's virtual nodes; two nodes may share some
  MaxAttempts,  \* calls of registerWithOrchestrator, 3 in the code
  MaxRestarts,  \* bound on the restarts, of the orchestrator and of workers
  Env           \* what else may happen

AllEnv == {
  "etcd_error",       \* a write to etcd fails
  "lost",             \* calls and batches are lost
  "timeout",          \* a call takes longer than its 5 s
  "worker_restart",   \* a worker dies, and may come back under its id
  "unregister"}       \* UnregisterNode, which the repository never calls

ASSUME NodeAssumption   == Old \subseteq Nodes /\ NoNode \notin Nodes
ASSUME PointsAreNumbers == Points \subseteq Nat /\ Virtual \in [Nodes -> (SUBSET Points) \ {{}}]
ASSUME BoundsAreNumbers == MaxAttempts \in Nat \ {0} /\ MaxRestarts \in Nat
ASSUME EnvAssumption    == Env \subseteq AllEnv

Calls  == Nodes \X (1 .. MaxAttempts)
NoCall == <<NoNode, 0>>

VARIABLES
  nodes,     \* nm.nodes
  status,    \* WorkerNode.Status
  keys,      \* ring.keys; that it repeats the keys of a node added again is left out
  hashMap,   \* ring.hashMap
  etcd,      \* the ids stored in etcd
  calls,     \* RegisterWorker handlers that wait for nm.mu
  holder,    \* the handler that holds nm.mu and waits for etcd; attempt 0 is UnregisterNode
  worker,    \* registerWithOrchestrator on each worker
  attempt,
  engine,    \* "before", "during" or "after" the test of each worker
  batches,   \* flags of the batches of each worker that are under way
  restarts

tableVars  == <<nodes, status, keys, hashMap>>
workerVars == <<worker, attempt, engine>>
vars == <<tableVars, etcd, calls, holder, workerVars, batches, restarts>>

WorkerStatus == {"idle", "running"}
WorkerPC     == {"trying", "calling", "registered", "forgotten", "gave_up", "dead"}

TypeOK ==
  /\ nodes \subseteq Nodes /\ etcd \subseteq Nodes
  /\ status \in [Nodes -> WorkerStatus]
  /\ keys \subseteq Points
  /\ DOMAIN hashMap \subseteq Points
  /\ \A p \in DOMAIN hashMap : hashMap[p] \in Nodes
  /\ calls \subseteq Calls
  /\ holder \in Calls \cup (Nodes \X {0}) \cup {NoCall}
  /\ worker \in [Nodes -> WorkerPC]
  /\ attempt \in [Nodes -> 1 .. MaxAttempts]
  /\ engine \in [Nodes -> {"before", "during", "after"}]
  /\ batches \in [Nodes -> SUBSET BOOLEAN]
  /\ restarts \in 0 .. MaxRestarts

Init ==
  /\ nodes = Old /\ etcd = Old
  /\ keys = UNION {Virtual[w] : w \in Old}
  /\ hashMap = [p \in keys |-> CHOOSE w \in Old : p \in Virtual[w]]
  /\ status = [w \in Nodes |-> "idle"]
  /\ calls = {} /\ holder = NoCall
  /\ worker = [w \in Nodes |-> IF w \in Old THEN "registered" ELSE "trying"] /\ attempt = [w \in Nodes |-> 1]
  /\ engine = [w \in Nodes |-> "before"] /\ batches = [w \in Nodes |-> {}]
  /\ restarts = 0

-----------------------------------------------------------------------------
(***************************************************************************)
(* The ring.                                                               *)
(***************************************************************************)
NewConsistentHashRing == keys' = {} /\ hashMap' = <<>>

Add(w) ==
  /\ keys' = keys \cup Virtual[w]
  /\ hashMap' = [p \in DOMAIN hashMap \cup Virtual[w] |->
                  IF p \in Virtual[w] THEN w ELSE hashMap[p]]

\* Mutant of Remove: what is left of the keys is not written back.
RemoveKeepsKeys(w) ==
  /\ hashMap' = [p \in {q \in DOMAIN hashMap : hashMap[q] # w} |-> hashMap[p]]
  /\ UNCHANGED keys

\* The keys are rebuilt from the map.
Remove(w) ==
  /\ hashMap' = [p \in {q \in DOMAIN hashMap : hashMap[q] # w} |-> hashMap[p]]
  /\ keys' = DOMAIN hashMap'

\* Mutant of Get: the nodes share the points by number.
GetModulo(p) ==
  IF keys = {} THEN NoNode
  ELSE LET owners == {hashMap[q] : q \in DOMAIN hashMap}
           first(w) == Min({q \in DOMAIN hashMap : hashMap[q] = w})
           rank(w)  == Cardinality({v \in owners : first(v) < first(w)})
       IN  CHOOSE w \in owners : rank(w) = p % Cardinality(owners)

\* The owner of the first key from p on, or of the first of all.
Get(p) ==
  LET following == {q \in keys : q >= p} IN
  IF keys = {} THEN NoNode
  ELSE hashMap[Min(IF following = {} THEN keys ELSE following)]

GetNodeForKey(p) == IF Get(p) \in nodes THEN Get(p) ELSE NoNode

-----------------------------------------------------------------------------
(***************************************************************************)
(* The table.                                                              *)
(***************************************************************************)
\* What the API shows of the fleet.
ListWorkers == [w \in nodes |-> status[w]]

Unlocked == holder = NoCall

\* The handler takes the lock, enters the node, and writes to etcd.
RegisterNode(w, n) ==
  /\ Unlocked /\ <<w, n>> \in calls
  /\ calls' = calls \ {<<w, n>>} /\ holder' = <<w, n>>
  /\ nodes' = nodes \cup {w} /\ status' = [status EXCEPT ![w] = "idle"]
  /\ Add(w)
  /\ UNCHANGED <<etcd, workerVars, batches, restarts>>

\* The worker hears s, if it still listens to this call.
Hear(w, n, s) ==
  worker' = IF worker[w] = "calling" /\ attempt[w] = n THEN [worker EXCEPT ![w] = s] ELSE worker

\* Mutant of NextAttempt: one call too many.
NextAttemptOnceMore(w) ==
  IF attempt[w] <= MaxAttempts
    THEN attempt' = [attempt EXCEPT ![w] = @ + 1] /\ worker' = [worker EXCEPT ![w] = "trying"]
    ELSE worker' = [worker EXCEPT ![w] = "gave_up"] /\ UNCHANGED attempt

\* It tries again, or has tried often enough.
NextAttempt(w) ==
  IF attempt[w] < MaxAttempts
    THEN attempt' = [attempt EXCEPT ![w] = @ + 1] /\ worker' = [worker EXCEPT ![w] = "trying"]
    ELSE worker' = [worker EXCEPT ![w] = "gave_up"] /\ UNCHANGED attempt

HearFailure(w, n) ==
  IF worker[w] = "calling" /\ attempt[w] = n THEN NextAttempt(w) ELSE UNCHANGED <<worker, attempt>>

PutSucceeds ==
  /\ holder \in Calls
  /\ etcd' = etcd \cup {holder[1]}
  /\ holder' = NoCall
  /\ Hear(holder[1], holder[2], "registered")
  /\ UNCHANGED <<tableVars, calls, attempt, engine, batches, restarts>>

\* Mutant of PutFails: the error is dropped.
PutFailsUnnoticed ==
  /\ "etcd_error" \in Env /\ holder \in Calls
  /\ holder' = NoCall
  /\ Hear(holder[1], holder[2], "registered")
  /\ UNCHANGED <<tableVars, etcd, calls, attempt, engine, batches, restarts>>

\* The node stays in the table.
PutFails ==
  /\ "etcd_error" \in Env /\ holder \in Calls
  /\ holder' = NoCall
  /\ HearFailure(holder[1], holder[2])
  /\ UNCHANGED <<tableVars, etcd, calls, engine, batches, restarts>>

UnregisterNode(w) ==
  /\ "unregister" \in Env /\ Unlocked /\ w \in nodes
  /\ holder' = <<w, 0>>
  /\ nodes' = nodes \ {w} /\ Remove(w)
  /\ worker' = IF worker[w] = "registered" THEN [worker EXCEPT ![w] = "forgotten"] ELSE worker
  /\ UNCHANGED <<status, etcd, calls, attempt, engine, batches, restarts>>

\* etcd answers: the key is gone, or the call has failed.
DeleteAnswered ==
  /\ holder \in Nodes \X {0}
  /\ holder' = NoCall
  /\ etcd' = etcd \ {holder[1]} \/ ("etcd_error" \in Env /\ UNCHANGED etcd)
  /\ UNCHANGED <<tableVars, calls, workerVars, batches, restarts>>

\* Mutant of UpdateStatus: only a batch with the flag says anything.
UpdateStatusWhenActive(w, active) ==
  /\ Unlocked /\ active \in batches[w]
  /\ batches' = [batches EXCEPT ![w] = @ \ {active}]
  /\ status' = IF w \in nodes /\ active THEN [status EXCEPT ![w] = "running"] ELSE status
  /\ UNCHANGED <<nodes, keys, hashMap, etcd, calls, holder, workerVars, restarts>>

\* ReportMetrics: UpdateLastSeen and UpdateStatus.
UpdateStatus(w, active) ==
  /\ Unlocked /\ active \in batches[w]
  /\ batches' = [batches EXCEPT ![w] = @ \ {active}]
  /\ status' = IF w \in nodes
                 THEN [status EXCEPT ![w] = IF active THEN "running" ELSE "idle"] ELSE status
  /\ UNCHANGED <<nodes, keys, hashMap, etcd, calls, holder, workerVars, restarts>>

\* A new orchestrator process reads nothing back from etcd.
OrchRestart ==
  /\ restarts < MaxRestarts /\ restarts' = restarts + 1
  /\ nodes' = {} /\ NewConsistentHashRing /\ status' = [w \in Nodes |-> "idle"]
  /\ calls' = {} /\ holder' = NoCall /\ batches' = [w \in Nodes |-> {}]
  /\ worker' = [w \in Nodes |-> IF worker[w] = "registered" THEN "forgotten" ELSE worker[w]]
  /\ UNCHANGED <<etcd, attempt, engine>>

-----------------------------------------------------------------------------
(***************************************************************************)
(* The workers.                                                            *)
(***************************************************************************)
RegisterWorker(w) ==
  /\ worker[w] = "trying"
  /\ worker' = [worker EXCEPT ![w] = "calling"]
  /\ calls' = calls \cup {<<w, attempt[w]>>}
  /\ UNCHANGED <<tableVars, etcd, holder, attempt, engine, batches, restarts>>

\* The call is lost on its way, or nobody is there.
LoseCall(w) ==
  /\ worker[w] = "trying" /\ "lost" \in Env /\ NextAttempt(w)
  /\ UNCHANGED <<tableVars, etcd, calls, holder, engine, batches, restarts>>

\* Its reply is lost, late, or was never sent by an orchestrator that died.
Timeout(w) ==
  /\ worker[w] = "calling"
  /\ "timeout" \in Env \/ (<<w, attempt[w]>> \notin calls /\ holder # <<w, attempt[w]>>)
  /\ NextAttempt(w)
  /\ UNCHANGED <<tableVars, etcd, calls, holder, engine, batches, restarts>>

\* A test begins on the worker, and ends.
Test(w) ==
  /\ worker[w] # "dead"
  /\ \/ /\ engine[w] = "before" /\ w \in nodes /\ engine' = [engine EXCEPT ![w] = "during"]
     \/ /\ engine[w] = "during" /\ engine' = [engine EXCEPT ![w] = "after"]
  /\ UNCHANGED <<tableVars, etcd, calls, holder, worker, attempt, batches, restarts>>

\* The reporter's batches and the keep-alive's.
ReportMetrics(w) ==
  /\ worker[w] # "dead"
  /\ batches' = [batches EXCEPT ![w] = @ \cup {engine[w] = "during"}]
  /\ UNCHANGED <<tableVars, etcd, calls, holder, workerVars, restarts>>

LoseBatch(w) ==
  /\ "lost" \in Env /\ batches[w] # {}
  /\ \E b \in batches[w] : batches' = [batches EXCEPT ![w] = @ \ {b}]
  /\ UNCHANGED <<tableVars, etcd, calls, holder, workerVars, restarts>>

Die(w) ==
  /\ "worker_restart" \in Env /\ worker[w] # "dead"
  /\ worker' = [worker EXCEPT ![w] = "dead"]
  /\ UNCHANGED <<tableVars, etcd, calls, holder, attempt, engine, batches, restarts>>

\* The worker comes back, without its test, and registers again; bound: not
\* before the calls of its former life have been handled.
Restart(w) ==
  /\ worker[w] = "dead" /\ restarts < MaxRestarts /\ restarts' = restarts + 1
  /\ \A c \in calls \cup {holder} : c[1] # w
  /\ worker' = [worker EXCEPT ![w] = "trying"] /\ attempt' = [attempt EXCEPT ![w] = 1]
  /\ engine' = [engine EXCEPT ![w] = IF @ = "during" THEN "after" ELSE @]
  /\ UNCHANGED <<tableVars, etcd, calls, holder, batches>>

Next ==
  \/ PutSucceeds \/ PutFails \/ DeleteAnswered \/ OrchRestart
  \/ \E w \in Nodes : UnregisterNode(w)
  \/ \E w \in Nodes \ Old :
       \/ RegisterWorker(w) \/ LoseCall(w) \/ Timeout(w) \/ Test(w)
       \/ ReportMetrics(w) \/ LoseBatch(w) \/ Die(w) \/ Restart(w)
       \/ \E n \in 1 .. MaxAttempts : RegisterNode(w, n)
       \/ \E active \in BOOLEAN : UpdateStatus(w, active)

Spec == Init /\ [][Next]_vars

\* A handler gets the lock although others want it too, and a worker goes on: it
\* reports for ever, and not every batch is lost.  Nothing is assumed of etcd,
\* whose answer is waited for without a timeout.
Fairness ==
  \A w \in Nodes \ Old :
    /\ WF_vars(ReportMetrics(w))
    /\ \A n \in 1 .. MaxAttempts : SF_vars(RegisterNode(w, n))
    /\ \A active \in BOOLEAN : SF_vars(UpdateStatus(w, active))

FairSpec == Spec /\ Fairness

-----------------------------------------------------------------------------
(***************************************************************************)
(* What the table is worth.                                                *)
(***************************************************************************)
\* Every key of the ring leads to a node of the table, so that GetNodeForKey
\* never answers "node not found" (node_manager.go:128), and finds a node
\* whenever there is one, although nodes are added again and again and may
\* overwrite each other's points.
RingIsCovered ==
  /\ keys = DOMAIN hashMap
  /\ nodes # {} => \A p \in Points : GetNodeForKey(p) # NoNode

\* A change of the fleet moves keys only to the node that is being registered, or
\* only from the one that is being unregistered: this is what the ring is for
\* (node_manager.go:29).  The node is that of the handler that takes the lock.
Moved == {p \in Points : Get(p) # Get(p)'}
MovesOnlyItsOwn ==
  [][OrchRestart \/ \A p \in Moved :
       /\ Unlocked /\ ~Unlocked'
       /\ holder'[1] = IF holder'[2] > 0 THEN Get(p)' ELSE Get(p)]_vars

\* A point that only w has.
Own(w, p) == p \in Virtual[w] /\ \A v \in Nodes \ {w} : p \notin Virtual[v]

\* A worker that was told it is registered is in the table, in etcd, and on the
\* ring with all the points that no other node may have taken from it, as long as
\* the orchestrator lives and nobody unregisters it (cmd/worker/main.go:256),
\* whichever of its calls the answer was for.
ToldMeansListed ==
  \A w \in Nodes : worker[w] = "registered" =>
    /\ w \in nodes \cap etcd
    /\ \A p \in Points : Own(w, p) => p \in keys /\ hashMap[p] = w

\* The status that is shown of a node that lives becomes and stays that of its worker: handlers
\* left behind by calls that timed out, and batches out of order, are put right
\* by the next one (server.go:338).  Unless etcd never answers: the handler that
\* waits for it then holds the lock of the table for ever.
StatusConverges ==
  \/ <>[](~Unlocked)
  \/ \A w \in Nodes :
       <>[](w \in nodes /\ worker[w] # "dead" =>
              ListWorkers[w] = IF engine[w] = "during" THEN "running" ELSE "idle")
=============================================================================
