----------------------------- MODULE EmbedDrain -----------------------------
(***************************************************************************)
(* The asynchronous embedding pipeline of a board.  A board write enqueues *)
(* a Cloud Tasks task whose name is its debounce window                    *)
(* (enqueueEmbedDrain); the task posts /ctrl/qb-drain to the gateway,      *)
(* which embeds batches of pending nodes until none is left and then       *)
(* rebuilds the derived edges.  The un-embedded rows are the queue.  A     *)
(* coarse cron backstop re-enqueues warm boards, and an owner can run the  *)
(* same batches by hand (/embed-run), outside the single-flight guard.     *)
(* Nodes are numbered in the order of the query's ORDER BY.                *)
(***************************************************************************)
EXTENDS Naturals, FiniteSets

CONSTANTS
    MaxNode,     \* bound: nodes ever written
    BadVector,   \* nodes whose vector comes back with the wrong length
    Drains,      \* concurrent handlers of /ctrl/qb-drain
    Owner,       \* the owner's /embed-run request
    OwnerRuns,   \* bound: times the owner runs it
    Cap,         \* batch size
    MaxRounds,   \* rounds of one drain
    BackstopWindow, \* backstop window, in debounce windows
    MaxTime,     \* bound: debounce windows of the run, the last without writes
    MaxFailures  \* bound: lost enqueues and failed requests

ASSUME EmbedDrainAssumption ==
    /\ MaxNode \in Nat
    /\ BadVector \subseteq 1..MaxNode
    /\ Owner \notin Drains
    /\ OwnerRuns \in Nat
    /\ Cap \in Nat \ {0}
    /\ MaxRounds \in Nat \ {0}
    /\ BackstopWindow \in Nat \ {0}
    /\ MaxTime \in Nat
    /\ MaxFailures \in Nat

Nodes == 1..MaxNode
Workers == Drains \cup {Owner}

(* A task name: the window it stands for and whether it is a write's. *)
Window(kind) == IF kind = "write" THEN 1 ELSE BackstopWindow
TaskNames == [kind: {"write", "backstop"}, bucket: 0..MaxTime]

VARIABLES
    now,      \* the current debounce window
    written,  \* nodes committed on the board
    unqueued, \* nodes whose writer has not reached enqueueEmbedDrain yet
    rows,     \* rows[n]: rows of table embeddings for node n
    edges,    \* edges[n]: times the derived edges hold n's semantic edges
    tasks,    \* task names waiting in the queue
    used,     \* task names ever created: creating one again answers 409
    job,      \* job[w]: what the request handled by w is doing
    inFlight, \* qbDrainInFlight
    runs,     \* owner runs so far
    failures,
    lost,     \* nodes whose enqueue failed (history)
    skipped   \* nodes pending when a task was answered as redundant (history)

drainVars == <<now, written, unqueued, rows, edges, tasks, used, job, inFlight, runs, failures,
          lost, skipped>>

NoJob == [pc |-> "idle", task |-> {}, batch |-> {}, got |-> 0, total |-> 0, round |-> 0]

JobType == [pc: {"idle", "select", "embed", "insert", "count", "delete", "derive"},
            task: SUBSET TaskNames, batch: SUBSET Nodes, got: Nat, total: Nat,
            round: 0..MaxRounds]

DrainTypeOK ==
    /\ now \in 0..MaxTime
    /\ written \subseteq Nodes
    /\ unqueued \subseteq written
    /\ rows \in [Nodes -> Nat]
    /\ edges \in [Nodes -> Nat]
    /\ tasks \subseteq used
    /\ used \subseteq TaskNames
    /\ job \in [Workers -> JobType]
    /\ inFlight \in BOOLEAN
    /\ runs \in 0..OwnerRuns
    /\ failures \in 0..MaxFailures
    /\ lost \subseteq Nodes
    /\ skipped \subseteq Nodes

DrainInit ==
    /\ now = 0
    /\ written = {} /\ unqueued = {}
    /\ rows = [n \in Nodes |-> 0]
    /\ edges = [n \in Nodes |-> 0]
    /\ tasks = {} /\ used = {}
    /\ job = [w \in Workers |-> NoJob]
    /\ inFlight = FALSE
    /\ runs = 0 /\ failures = 0
    /\ lost = {} /\ skipped = {}

-----------------------------------------------------------------------------
Pending == {n \in written : rows[n] = 0}
Embedded == {n \in written : rows[n] > 0}

(* The first Cap pending nodes in the query's order. *)
FirstPending == {n \in Pending : Cardinality({m \in Pending : m < n}) < Cap}

Smallest(S) == CHOOSE n \in S : \A m \in S : n <= m

TaskNow(kind) == [kind |-> kind, bucket |-> now \div Window(kind)]

(* Mutant: the task is scheduled for the start of its window. *)
DueAtStart(t) == now >= t.bucket * Window(t.kind)

Due(t) == now >= (t.bucket + 1) * Window(t.kind)

(* A board write commits (in the order of the ids it draws). *)
Write ==
    /\ now < MaxTime
    /\ \E n \in Nodes :
          /\ n = Cardinality(written) + 1
          /\ written' = written \cup {n}
          /\ unqueued' = unqueued \cup {n}
    /\ UNCHANGED <<now, rows, edges, tasks, used, job, inFlight, runs, failures, lost,
                   skipped>>

(* createTask: an existing name coalesces, a new one waits for its window  *)
(* to end.                                                                 *)
CreateTask(kind) ==
    /\ used' = used \cup {TaskNow(kind)}
    /\ tasks' = IF TaskNow(kind) \in used THEN tasks ELSE tasks \cup {TaskNow(kind)}

(* checkpointBoard reaches enqueueEmbedDrain. *)
EnqueueEmbedDrain(n) ==
    /\ n \in unqueued
    /\ unqueued' = unqueued \ {n}
    /\ CreateTask("write")
    /\ UNCHANGED <<now, written, rows, edges, job, inFlight, runs, failures, lost, skipped>>

(* The create fails or the control API dies first: logged and swallowed. *)
EnqueueLost(n) ==
    /\ n \in unqueued
    /\ failures < MaxFailures
    /\ failures' = failures + 1
    /\ unqueued' = unqueued \ {n}
    /\ lost' = lost \cup {n}
    /\ UNCHANGED <<now, written, rows, edges, tasks, used, job, inFlight, runs, skipped>>

(* A cron tick over a warm board (drainQuackboardEmbeddings). *)
Backstop ==
    /\ written # {}
    /\ TaskNow("backstop") \notin used
    /\ (TaskNow("backstop").bucket + 1) * BackstopWindow <= MaxTime
    /\ CreateTask("backstop")
    /\ UNCHANGED <<now, written, unqueued, rows, edges, job, inFlight, runs, failures, lost,
                   skipped>>

(* Time passes; the last window of the run is for draining only. *)
Tick ==
    /\ now < MaxTime
    /\ now + 1 = MaxTime => unqueued = {}
    /\ now' = now + 1
    /\ UNCHANGED <<written, unqueued, rows, edges, tasks, used, job, inFlight, runs, failures,
                   lost, skipped>>

-----------------------------------------------------------------------------
StartJob(w, t) == [job EXCEPT ![w] = [NoJob EXCEPT !.pc = "select", !.task = t, !.round = 1]]

(* Mutant: the single-flight guard is gone. *)
DeliverUnguarded(w, t) ==
    /\ w \in Drains
    /\ t \in tasks
    /\ Due(t)
    /\ job[w].pc = "idle"
    /\ tasks' = tasks \ {t}
    /\ inFlight' = TRUE
    /\ job' = StartJob(w, {t})
    /\ UNCHANGED <<now, written, unqueued, rows, edges, used, runs, failures, lost, skipped>>

(* A due task reaches /ctrl/qb-drain. *)
Deliver(w, t) ==
    /\ w \in Drains
    /\ t \in tasks
    /\ Due(t)
    /\ job[w].pc = "idle"
    /\ ~inFlight
    /\ tasks' = tasks \ {t}
    /\ inFlight' = TRUE
    /\ job' = StartJob(w, {t})
    /\ UNCHANGED <<now, written, unqueued, rows, edges, used, runs, failures, lost, skipped>>

(* A drain is in flight: answered 200 at once, so the task is done. *)
DeliverSkipped(t) ==
    /\ t \in tasks
    /\ Due(t)
    /\ inFlight
    /\ tasks' = tasks \ {t}
    /\ skipped' = skipped \cup Pending
    /\ UNCHANGED <<now, written, unqueued, rows, edges, used, job, inFlight, runs, failures,
                   lost>>

(* The owner's /embed-run starts with its first /ctrl/qb-embed-batch. *)
EmbedRun ==
    /\ runs < OwnerRuns
    /\ job[Owner].pc = "idle"
    /\ runs' = runs + 1
    /\ job' = StartJob(Owner, {})
    /\ UNCHANGED <<now, written, unqueued, rows, edges, tasks, used, inFlight, failures, lost,
                   skipped>>

(* After the rounds: a drain re-derives the edges if it embedded anything, *)
(* the owner's run always does.                                            *)
AfterRounds(w, total) == IF total > 0 \/ w = Owner THEN "delete" ELSE "idle"

Finish(w, pc) ==
    /\ job' = [job EXCEPT ![w] = IF pc = "idle" THEN NoJob ELSE [@ EXCEPT !.pc = pc]]
    /\ inFlight' = IF pc = "idle" /\ w \in Drains THEN FALSE ELSE inFlight

(* embedPendingBatch reads the pending nodes; none left ends the rounds. *)
Select(w) ==
    /\ job[w].pc = "select"
    /\ \/ /\ Pending # {}
          /\ job' = [job EXCEPT ![w].pc = "embed", ![w].batch = FirstPending, ![w].got = 0]
          /\ UNCHANGED inFlight
       \/ /\ Pending = {}
          /\ Finish(w, AfterRounds(w, job[w].total))
    /\ UNCHANGED <<now, written, unqueued, rows, edges, tasks, used, runs, failures, lost,
                   skipped>>

(* The embeddings service answers: wrong-length vectors are dropped. *)
EmbedTexts(w) ==
    /\ job[w].pc = "embed"
    /\ job' = [job EXCEPT ![w].pc = "insert", ![w].batch = @ \ BadVector]
    /\ UNCHANGED <<now, written, unqueued, rows, edges, tasks, used, inFlight, runs, failures,
                   lost, skipped>>

(* One INSERT INTO embeddings for each vector. *)
InsertVector(w) ==
    /\ job[w].pc = "insert"
    /\ \/ /\ job[w].batch # {}
          /\ LET n == Smallest(job[w].batch)
             IN  /\ rows' = [rows EXCEPT ![n] = @ + 1]
                 /\ job' = [job EXCEPT ![w].batch = @ \ {n}, ![w].got = @ + 1]
       \/ /\ job[w].batch = {}
          /\ job' = [job EXCEPT ![w].pc = "count"]
          /\ UNCHANGED rows
    /\ UNCHANGED <<now, written, unqueued, edges, tasks, used, inFlight, runs, failures, lost,
                   skipped>>

(* Mutant: the total keeps only the last round. *)
CountRemainingLast(w) ==
    /\ job[w].pc = "count"
    /\ LET total == job[w].got
       IN  \/ /\ Pending # {} /\ job[w].got > 0 /\ job[w].round < MaxRounds
              /\ job' = [job EXCEPT ![w].pc = "select", ![w].total = total,
                                    ![w].round = @ + 1]
              /\ UNCHANGED inFlight
           \/ /\ Pending = {} \/ job[w].got = 0 \/ job[w].round = MaxRounds
              /\ Finish(w, AfterRounds(w, total))
    /\ UNCHANGED <<now, written, unqueued, rows, edges, tasks, used, runs, failures, lost,
                   skipped>>

(* The remaining count, then the loop's break: drained, stalled or out of  *)
(* rounds.                                                                 *)
CountRemaining(w) ==
    /\ job[w].pc = "count"
    /\ LET total == job[w].total + job[w].got
       IN  \/ /\ Pending # {} /\ job[w].got > 0 /\ job[w].round < MaxRounds
              /\ job' = [job EXCEPT ![w].pc = "select", ![w].total = total,
                                    ![w].round = @ + 1]
              /\ UNCHANGED inFlight
           \/ /\ Pending = {} \/ job[w].got = 0 \/ job[w].round = MaxRounds
              /\ Finish(w, AfterRounds(w, total))
    /\ UNCHANGED <<now, written, unqueued, rows, edges, tasks, used, runs, failures, lost,
                   skipped>>

(* recomputeEdges: delete the derived edges, then insert them again. *)
DeleteEdges(w) ==
    /\ job[w].pc = "delete"
    /\ edges' = [n \in Nodes |-> 0]
    /\ job' = [job EXCEPT ![w].pc = "derive"]
    /\ UNCHANGED <<now, written, unqueued, rows, tasks, used, inFlight, runs, failures, lost,
                   skipped>>

DeriveEdges(w) ==
    /\ job[w].pc = "derive"
    /\ edges' = [n \in Nodes |-> IF n \in Embedded THEN edges[n] + 1 ELSE edges[n]]
    /\ Finish(w, "idle")
    /\ UNCHANGED <<now, written, unqueued, rows, tasks, used, runs, failures, lost, skipped>>

(* Mutant: the failed task is not kept for a retry. *)
JobFailsForGood(w) ==
    /\ job[w].pc # "idle"
    /\ failures < MaxFailures
    /\ failures' = failures + 1
    /\ Finish(w, "idle")
    /\ UNCHANGED <<now, written, unqueued, rows, edges, tasks, used, runs, lost, skipped>>

(* Any await throws: 502, the guard is cleared and Cloud Tasks keeps the   *)
(* task for a retry.                                                       *)
JobFails(w) ==
    /\ job[w].pc # "idle"
    /\ failures < MaxFailures
    /\ failures' = failures + 1
    /\ tasks' = tasks \cup job[w].task
    /\ Finish(w, "idle")
    /\ UNCHANGED <<now, written, unqueued, rows, edges, used, runs, lost, skipped>>

-----------------------------------------------------------------------------
DrainNext ==
    \/ Write
    \/ \E n \in Nodes : EnqueueEmbedDrain(n)
    \/ \E n \in Nodes : EnqueueLost(n)
    \/ Backstop
    \/ Tick
    \/ \E w \in Drains, t \in TaskNames : Deliver(w, t)
    \/ \E t \in TaskNames : DeliverSkipped(t)
    \/ EmbedRun
    \/ \E w \in Workers : Select(w)
    \/ \E w \in Workers : EmbedTexts(w)
    \/ \E w \in Workers : InsertVector(w)
    \/ \E w \in Workers : CountRemaining(w)
    \/ \E w \in Workers : DeleteEdges(w)
    \/ \E w \in Workers : DeriveEdges(w)
    \/ \E w \in Workers : JobFails(w)

DrainSpec == DrainInit /\ [][DrainNext]_drainVars

(* Writers reach the enqueue, handlers run on, time passes and Cloud Tasks *)
(* delivers what is due.                                                   *)
DrainFairSpec ==
    /\ DrainSpec
    /\ WF_drainVars(Tick)
    /\ \A n \in Nodes : WF_drainVars(EnqueueEmbedDrain(n))
    /\ \A t \in TaskNames :
          WF_drainVars((\E w \in Drains : Deliver(w, t)) \/ DeliverSkipped(t))
    /\ \A w \in Workers :
          WF_drainVars(Select(w) \/ EmbedTexts(w) \/ InsertVector(w) \/ CountRemaining(w)
                  \/ DeleteEdges(w) \/ DeriveEdges(w))

-----------------------------------------------------------------------------
Quiet == tasks = {} /\ unqueued = {} /\ \A w \in Workers : job[w].pc = "idle"

(* The batch and the rounds are large enough for the backlog. *)
BacklogFits == Cardinality(BadVector) < Cap /\ MaxNode <= MaxRounds

(* A node is left without a vector when everything has come to rest only   *)
(* if its enqueue was lost, its task was answered as redundant, or its     *)
(* vector has the wrong length.  In particular a write that coalesces onto *)
(* an existing task never finds that the task has already run: the window  *)
(* names the task and the task runs after the window (enqueueEmbedDrain).  *)
OnlyKnownLosses ==
    (Quiet /\ BacklogFits) => Pending \subseteq lost \cup skipped \cup BadVector

(* No node gets two rows in table embeddings, which has no primary key,    *)
(* however tasks overlap, fail and are retried: the single-flight guard of *)
(* qb-drain and embedPendingBatch's "a retry/re-run never double-inserts". *)
(* It needs that the owner has started no embed-run: /ctrl/qb-embed-batch  *)
(* does not take the guard, and a drain and a run insert the same node.    *)
VectorsOnce == runs = 0 => \A n \in Nodes : rows[n] <= 1

(* At rest the derived edges are those of the embedded nodes, each once    *)
(* (recomputeEdges after the rounds of a drain that embedded anything), if *)
(* no request has failed: the retry of a drain that failed after its       *)
(* inserts embeds nothing and leaves the edges as they were.               *)
EdgesFollowVectors ==
    (Quiet /\ failures = 0 /\ runs = 0) =>
        \A n \in Nodes : edges[n] = (IF n \in Embedded THEN 1 ELSE 0)

(* Every node whose writer queued a drain gets its vector in the end,      *)
(* although requests fail and are retried, unless a task was answered as   *)
(* redundant while it was pending.                                         *)
NodesGetEmbedded ==
    \A n \in Nodes :
        (n \in written /\ n \notin unqueued /\ BacklogFits)
            ~> (rows[n] > 0 \/ n \in lost \cup skipped \cup BadVector)

=============================================================================
