----------------------------- MODULE BoardProofs -----------------------------
(***************************************************************************)
(* A database's way into its object, and a board's way to its vectors.     *)
(*                                                                         *)
(* WorkspacePersist, for any set of writes, any number of faults and kills.*)
(* On a workspace at most two uploads overlap: a coalesced flush, and the  *)
(* final flush of the shutdown once it no longer waits.  Alone, a flush    *)
(* sends at least what the object holds; side by side, both have           *)
(* checkpointed after the signal, so that they differ by late writes only. *)
(*                                                                         *)
(* EmbedDrain, for any numbers of nodes, handlers, rounds and failures.    *)
(* DrainInv says                                                           *)
(*   - OneDrain: the handlers of /ctrl/qb-drain work one at a time, so that*)
(*     what a batch holds has no row yet (NoRowTwice) and the edges lag    *)
(*     behind by what the one drain has inserted (EdgesFollow);            *)
(*   - NotDueIsQueued: a task stays until its window has ended, so a write *)
(*     that coalesces finds it waiting;                                    *)
(*   - Carried: a pending node nothing is known against is in front of its *)
(*     writer's enqueue, a task, or a drain that will look again; a drain  *)
(*     that is out of rounds has embedded a node in each (RoundsCount).    *)
(***************************************************************************)
EXTENDS WorkspacePersist, EmbedDrain, TLAPS, FiniteSetTheorems, WellFoundedInduction

UploadType == [pc: {"idle", "wait", "checkpoint", "read", "post", "landed"},
               body: SUBSET Writes]

\* What is durable was in the file, what is in the file was committed, what was committed
\* had been sent; a body is what some earlier state of the file was.
Nested ==
    /\ gcs \subseteq sent /\ mem \subseteq sent
    /\ Alive => gcs \subseteq file
    /\ \A u \in Uploaders : up[u].pc = "post" => up[u].body \subseteq file

\* Which uploads a phase of the container allows.
Staged ==
    /\ phase = "off" => mem = {} /\ running = {} /\ \A u \in Uploaders : up[u].pc = "idle"
    /\ phase = "up" => late = {} /\ up["final"].pc = "idle"
    /\ phase = "term" => atTerm \subseteq mem \ late
    /\ ~board => \A w \in Writes : up[w].pc = "idle"

\* No upload on its way to the object lacks a write the object has, but for late ones.
NoStalePost ==
    \A u \in Uploaders : up[u].pc = "post" => gcs \ late \subseteq up[u].body

\* While the final flush runs, every upload carries all that was committed at the signal,
\* and once it has landed the object holds that, whoever lands next.
FinalCarries ==
    InFlight("final") =>
      /\ \A u \in Uploaders : up[u].pc = "read" => mem \ late \subseteq file
      /\ \A u \in Uploaders : up[u].pc = "post" => mem \ late \subseteq up[u].body
      /\ up["final"].pc = "landed" => mem \ late \subseteq gcs

\* Unless it is re-armed, the coalesced flush carries every answered write; with no flush in
\* flight and none failed, the object holds them.
FlushCarries ==
    LET answered == mem \ running IN
    phase = "up" =>
      /\ ~flushDirty =>
           /\ up["flush"].pc = "read" => answered \subseteq file
           /\ up["flush"].pc = "post" => answered \subseteq up["flush"].body
           /\ up["flush"].pc = "landed" => answered \subseteq gcs
      /\ ~InFlight("flush") /\ ~missed => answered \subseteq gcs

Durability == NoStalePost /\ FinalCarries /\ FlushCarries

IInv == TypeOK /\ Nested /\ Staged /\ (~board => Durability) /\ FinalFlushKeeps

-----------------------------------------------------------------------------
(* How an upload moves.                                                    *)

Moved(u, pc, body) ==
    /\ up' \in [Uploaders -> UploadType]
    /\ \A v \in Uploaders \ {u} : up'[v] = up[v]
    /\ up'[u].pc = pc /\ up'[u].body = body

LEMMA UploadTyped == TypeOK => up \in [Uploaders -> UploadType]
  BY DEF TypeOK, UploadType

LEMMA ToMoves ==
    ASSUME TypeOK, NEW u \in Uploaders, NEW pc \in {"wait", "read", "landed"}, up' = To(u, pc)
    PROVE  Moved(u, pc, up[u].body)
  BY UploadTyped DEF To, Moved, UploadType

LEMMA StartMoves ==
    ASSUME TypeOK, NEW u \in Uploaders, up' = Start(u)
    PROVE  Moved(u, "checkpoint", {})
  BY UploadTyped DEF Start, Moved, UploadType

LEMMA EndMoves ==
    ASSUME TypeOK, NEW u \in Uploaders, up' = [up EXCEPT ![u] = Idle]
    PROVE  Moved(u, "idle", {})
  BY UploadTyped DEF Idle, Moved, UploadType

LEMMA PostMoves ==
    ASSUME TypeOK, NEW u \in Uploaders, up' = [up EXCEPT ![u] = [pc |-> "post", body |-> file]]
    PROVE  Moved(u, "post", file)
  BY UploadTyped DEF TypeOK, Moved, UploadType

LEMMA WhoUploads ==
    /\ "flush" \in Uploaders /\ "final" \in Uploaders /\ Writes \subseteq Uploaders
    /\ "flush" # "final" /\ "flush" \notin Writes /\ "final" \notin Writes
    /\ Uploaders \ Writes = {"flush", "final"}
  BY WorkspacePersistAssumption DEF Uploaders

-----------------------------------------------------------------------------
(* Steps that send nothing: an upload starts, waits or ends.               *)

LEMMA NothingSent ==
    ASSUME IInv, NEW u \in Uploaders, NEW pc \in {"idle", "wait", "checkpoint"}, NEW body,
           Moved(u, pc, body), UNCHANGED <<mem, file, gcs, sent, late, board>>,
           Alive, phase' # "off"
    PROVE  /\ Nested'
           /\ ~board => NoStalePost'
  BY DEF IInv, Nested, Moved, Alive, Durability, NoStalePost

LEMMA StaysCarried ==
    ASSUME IInv, ~board, UNCHANGED <<mem, file, gcs, late>>,
           NEW u \in Uploaders, NEW pc \in {"idle", "wait", "checkpoint"}, NEW body,
           Moved(u, pc, body), InFlight("final")' => InFlight("final")
    PROVE  FinalCarries'
<1>1. InFlight("final")' => FinalCarries
  BY DEF IInv, Durability
<1>2. ASSUME NEW v \in Uploaders, up'[v].pc \in {"read", "post", "landed"}
      PROVE  up'[v] = up[v]
  BY <1>2 DEF Moved
<1> QED BY <1>1, <1>2, WhoUploads DEF FinalCarries

\* A flush that starts carries what it will find at its checkpoint.
LEMMA FlushStarts ==
    ASSUME TypeOK, NEW body, Moved("flush", "checkpoint", body)
    PROVE  FlushCarries'
<1>1. up'["flush"].pc = "checkpoint"
  BY DEF Moved
<1> QED BY <1>1 DEF FlushCarries, InFlight

LEMMA FlushStays ==
    ASSUME IInv, ~board, UNCHANGED <<mem, file, gcs, missed>>, running \subseteq running',
           flushDirty => flushDirty', phase' = "up" => phase = "up", up'["flush"] = up["flush"]
    PROVE  FlushCarries'
  BY DEF IInv, Durability, FlushCarries, InFlight

LEMMA ExecuteKeeps == ASSUME IInv, NEW w \in Writes, Execute(w) PROVE IInv'
<1>1. TypeOK'
  BY DEF IInv, TypeOK, Execute
<1>2. Nested'
  BY DEF IInv, Nested, Execute, Alive
<1>3. w \notin mem
  BY DEF IInv, Nested, Execute
<1>4. Staged'
  BY <1>3 DEF IInv, Staged, Execute, Alive
<1>5. ASSUME ~board PROVE Durability'
  <2>1. NoStalePost'
    BY <1>5 DEF IInv, Durability, NoStalePost, Execute
  <2>2. FinalCarries'
    <3>1. InFlight("final") => phase = "term"
      BY DEF IInv, Staged, Execute, Alive, TypeOK, InFlight
    <3>2. InFlight("final") => mem' \ late' \subseteq mem \ late
      BY <3>1, <1>3 DEF Execute
    <3> QED BY <1>5, <3>2 DEF IInv, Durability, FinalCarries, Execute, InFlight
  <2>3. FlushCarries'
    <3>1. mem' \ running' \subseteq mem \ running
      BY DEF Execute
    <3> QED BY <1>5, <3>1 DEF IInv, Durability, FlushCarries, Execute, InFlight
  <2> QED BY <2>1, <2>2, <2>3 DEF Durability
<1>6. FinalFlushKeeps'
  BY DEF IInv, FinalFlushKeeps, Execute, Alive
<1> QED BY <1>1, <1>2, <1>4, <1>5, <1>6 DEF IInv, Execute

LEMMA AnswerKeeps == ASSUME IInv, NEW w \in Writes, Answer(w) PROVE IInv'
<1>1. CASE ~board /\ PersistWorkspace /\ InFlight("flush")
  <2>1. up' = up /\ flushDirty' = TRUE
    BY <1>1 DEF PersistWorkspace
  <2>2. TypeOK' /\ Nested' /\ Staged'
    BY <2>1 DEF IInv, TypeOK, Nested, Staged, Answer, Alive
  <2>3. NoStalePost' /\ FinalCarries' /\ FlushCarries'
    BY <1>1, <2>1
       DEF IInv, Durability, NoStalePost, FinalCarries, FlushCarries, Answer, InFlight
  <2>4. FinalFlushKeeps'
    BY DEF IInv, FinalFlushKeeps, Answer, Alive
  <2> QED BY <2>2, <2>3, <2>4 DEF IInv, Durability
<1>2. CASE ~board /\ PersistWorkspace /\ ~InFlight("flush")
  <2>1. Moved("flush", "checkpoint", {}) /\ flushDirty' = FALSE
    BY <1>2, StartMoves, WhoUploads DEF PersistWorkspace, IInv
  <2>2. TypeOK'
    BY <2>1 DEF IInv, TypeOK, Answer, Moved, UploadType
  <2>3. Nested' /\ NoStalePost'
    BY <1>2, <2>1, NothingSent, WhoUploads DEF Answer, Alive
  <2>4. up'["final"] = up["final"] /\ \A x \in Writes : up'[x] = up[x]
    BY <2>1, WhoUploads DEF Moved
  <2>5. Staged'
    BY <2>4 DEF IInv, Staged, Answer, Alive
  <2>6. FinalCarries' /\ FlushCarries'
    BY <1>2, <2>1, <2>4, StaysCarried, FlushStarts, WhoUploads DEF Answer, InFlight, IInv
  <2>7. FinalFlushKeeps'
    BY DEF IInv, FinalFlushKeeps, Answer, Alive
  <2> QED BY <2>2, <2>3, <2>5, <2>6, <2>7 DEF IInv, Durability
<1>3. CASE board /\ up' = Start(w) /\ UNCHANGED flushDirty
  <2>1. Moved(w, "checkpoint", {})
    BY <1>3, StartMoves, WhoUploads DEF IInv
  <2>2. TypeOK'
    BY <1>3, <2>1 DEF IInv, TypeOK, Answer, Moved, UploadType
  <2>3. Nested'
    BY <2>1, NothingSent, WhoUploads DEF Answer, Alive
  <2>4. up'["final"] = up["final"]
    BY <2>1, WhoUploads DEF Moved
  <2>5. Staged'
    BY <1>3, <2>4 DEF IInv, Staged, Answer, Alive
  <2>6. FinalFlushKeeps'
    BY DEF IInv, FinalFlushKeeps, Answer, Alive
  <2> QED BY <1>3, <2>2, <2>3, <2>5, <2>6 DEF IInv, Answer
<1> QED BY <1>1, <1>2, <1>3 DEF Answer

\* An upload that ends, by its answer or by a failure, or a flush that starts over.
LEMMA EndKeeps ==
    ASSUME IInv, Alive, NEW u \in Uploaders \ {"final"}, NEW pc \in {"idle", "checkpoint"},
           Moved(u, pc, {}), pc = "idle" \/ u = "flush", InFlight(u),
           UNCHANGED <<board, phase, mem, file, gcs, running, sent, atTerm, late, flushed, kills>>,
           flushDirty' \in BOOLEAN, missed' \in BOOLEAN, faults' \in 0..MaxFaults,
           u = "flush" /\ ~board => FlushCarries'
    PROVE  IInv'
<1>1. TypeOK'
  BY DEF IInv, TypeOK, Moved, UploadType
<1>2. Nested' /\ (~board => NoStalePost')
  BY NothingSent DEF Alive
<1>3. up'["final"] = up["final"] /\ \A w \in Writes \ {u} : up'[w] = up[w]
  BY WhoUploads DEF Moved
<1>4. ~board => u = "flush"
  BY WhoUploads DEF IInv, Staged, InFlight
<1>5. Staged'
  BY <1>3, <1>4, WhoUploads DEF IInv, Staged, Alive
<1>6. ~board => FinalCarries'
  BY <1>3, StaysCarried DEF InFlight
<1>7. FinalFlushKeeps'
  BY DEF IInv, FinalFlushKeeps, Alive
<1> QED BY <1>1, <1>2, <1>4, <1>5, <1>6, <1>7 DEF IInv, Durability

LEMMA FlushDoneKeeps == ASSUME IInv, FlushDone PROVE IInv'
<1>1. InFlight("flush") /\ "flush" \in Uploaders \ {"final"} /\ TypeOK
  BY WhoUploads DEF FlushDone, InFlight, IInv
<1>2. CASE flushDirty
  <2>1. Moved("flush", "checkpoint", {})
    BY <1>1, <1>2, StartMoves DEF FlushDone
  <2> QED BY <1>1, <2>1, FlushStarts, EndKeeps DEF FlushDone, IInv, TypeOK
<1>3. CASE ~flushDirty
  <2>1. Moved("flush", "idle", {})
    BY <1>1, <1>3, EndMoves DEF FlushDone
  <2>2. ~board => FlushCarries'
    BY <1>3, <2>1 DEF FlushDone, IInv, Durability, FlushCarries, Moved, InFlight
  <2> QED BY <1>1, <2>1, <2>2, EndKeeps DEF FlushDone, IInv, TypeOK
<1> QED BY <1>2, <1>3

LEMMA FlushFailsKeeps == ASSUME IInv, FlushFails PROVE IInv'
<1>1. "flush" \in Uploaders \ {"final"} /\ TypeOK
  BY WhoUploads DEF IInv
<1>2. Moved("flush", "idle", {})
  BY <1>1, EndMoves DEF FlushFails
<1>3. FlushCarries'
  BY <1>2 DEF FlushFails, FlushCarries, Moved, InFlight
<1>4. faults' \in 0..MaxFaults
  BY WorkspacePersistAssumption DEF FlushFails, IInv, TypeOK
<1> QED BY <1>1, <1>2, <1>3, <1>4, EndKeeps DEF FlushFails, IInv, TypeOK

LEMMA CheckpointDoneKeeps == ASSUME IInv, NEW w \in Writes, CheckpointDone(w) PROVE IInv'
<1>1. w \in Uploaders \ {"final"} /\ w # "flush" /\ TypeOK
  BY WhoUploads DEF IInv
<1>2. Moved(w, "idle", {})
  BY <1>1, EndMoves DEF CheckpointDone
<1> QED BY <1>1, <1>2, EndKeeps DEF CheckpointDone, IInv, TypeOK, InFlight

LEMMA CheckpointFailsKeeps == ASSUME IInv, NEW w \in Writes, CheckpointFails(w) PROVE IInv'
<1>1. w \in Uploaders \ {"final"} /\ w # "flush" /\ TypeOK
  BY WhoUploads DEF IInv
<1>2. Moved(w, "idle", {})
  BY <1>1, EndMoves DEF CheckpointFails
<1>3. faults' \in 0..MaxFaults
  BY WorkspacePersistAssumption DEF CheckpointFails, IInv, TypeOK
<1> QED BY <1>1, <1>2, <1>3, EndKeeps DEF CheckpointFails, IInv, TypeOK

\* The final flush starts when no upload of a workspace is in flight, so that whatever is
\* read from now on was checkpointed after the signal.
LEMMA FinalStarts ==
    ASSUME IInv, ~board, ~InFlight("flush"), ~InFlight("final"), up' = Start("final")
    PROVE  FinalCarries'
<1>1. Moved("final", "checkpoint", {})
  BY StartMoves, WhoUploads DEF IInv
<1>2. \A u \in Uploaders : up'[u].pc \in {"idle", "wait", "checkpoint"}
  <2>1. up'["flush"].pc \in {"idle", "wait", "checkpoint"}
    BY <1>1, WhoUploads DEF IInv, Staged, InFlight, Moved, UploadType
  <2>2. up'["final"].pc = "checkpoint" /\ \A w \in Writes : up'[w].pc = "idle"
    BY <1>1, WhoUploads DEF IInv, Staged, Moved
  <2> QED BY <2>1, <2>2 DEF Uploaders
<1> QED BY <1>2, WhoUploads DEF FinalCarries

LEMMA FlushAndExitKeeps == ASSUME IInv, FlushAndExit PROVE IInv'
<1>1. PICK pc \in {"wait", "checkpoint"} : Moved("final", pc, up'["final"].body)
  <2>1. CASE InFlight("flush")
    BY <2>1, ToMoves, WhoUploads DEF FlushAndExit, IInv, Moved
  <2>2. CASE ~InFlight("flush")
    BY <2>2, StartMoves, WhoUploads DEF FlushAndExit, IInv, Moved
  <2> QED BY <2>1, <2>2
<1>2. TypeOK'
  BY <1>1 DEF IInv, TypeOK, FlushAndExit, Moved, UploadType
<1>3. Nested' /\ (~board => NoStalePost')
  BY <1>1, NothingSent, WhoUploads DEF FlushAndExit, Alive
<1>4. Staged'
  BY <1>1, WhoUploads DEF IInv, Staged, FlushAndExit, Moved
<1>5. ~board => FinalCarries'
  <2>1. CASE InFlight("flush")
    <3>1. ~InFlight("final")'
      BY <2>1, WhoUploads, ToMoves DEF FlushAndExit, InFlight, Moved, IInv
    <3> QED BY <3>1 DEF FinalCarries
  <2>2. CASE ~InFlight("flush")
    BY <2>2, FinalStarts DEF FlushAndExit, IInv, Staged, InFlight
  <2> QED BY <2>1, <2>2
<1>6. FlushCarries' /\ FinalFlushKeeps'
  BY DEF FlushAndExit, FlushCarries, FinalFlushKeeps
<1> QED BY <1>2, <1>3, <1>4, <1>5, <1>6 DEF IInv, Durability, FlushAndExit

LEMMA FlushSettledKeeps == ASSUME IInv, FlushSettled PROVE IInv'
<1>1. Moved("final", "checkpoint", {})
  BY StartMoves, WhoUploads DEF FlushSettled, IInv
<1>2. TypeOK'
  BY <1>1 DEF IInv, TypeOK, FlushSettled, Moved, UploadType
<1>3. Nested' /\ (~board => NoStalePost')
  BY <1>1, NothingSent, WhoUploads DEF FlushSettled, Alive
<1>4. Staged'
  BY <1>1, WhoUploads DEF IInv, Staged, FlushSettled, Moved
<1>5. ~board => FinalCarries'
  BY FinalStarts DEF FlushSettled, InFlight
<1>6. FlushCarries' /\ FinalFlushKeeps'
  BY DEF FlushSettled, FlushCarries, FinalFlushKeeps
<1> QED BY <1>2, <1>3, <1>4, <1>5, <1>6 DEF IInv, Durability, FlushSettled

-----------------------------------------------------------------------------
(* Steps on the way to the object.                                         *)

LEMMA CheckpointKeeps == ASSUME IInv, NEW u \in Uploaders, Checkpoint(u) PROVE IInv'
<1>1. Moved(u, "read", up[u].body)
  BY ToMoves DEF Checkpoint, IInv
<1>2. TypeOK'
  BY <1>1 DEF IInv, TypeOK, Checkpoint, Moved, UploadType
<1>3. Nested'
  BY <1>1 DEF IInv, TypeOK, Nested, Checkpoint, Moved, Alive
<1>4. /\ ~board => u \notin Writes
      /\ phase = "up" => u # "final"
  BY DEF IInv, Staged, Checkpoint
<1>5. Staged'
  BY <1>1, <1>4, WhoUploads DEF IInv, Staged, Checkpoint, Moved, Alive
<1>6. ASSUME ~board PROVE Durability'
  <2>1. NoStalePost'
    BY <1>1, <1>6 DEF IInv, Durability, NoStalePost, Checkpoint, Moved
  <2>2. FinalCarries'
    <3>1. InFlight("final")' => InFlight("final")
      BY <1>1, WhoUploads DEF Moved, InFlight, Checkpoint
    <3>2. \A v \in Uploaders : up'[v].pc \in {"post", "landed"} => up'[v] = up[v]
      BY <1>1 DEF Moved
    <3> QED BY <1>6, <3>1, <3>2, WhoUploads DEF IInv, Durability, FinalCarries, Checkpoint
  <2>3. FlushCarries'
    <3>1. CASE u = "flush"
      BY <1>1, <3>1 DEF FlushCarries, Checkpoint, Moved, InFlight
    <3>2. CASE u = "final"
      BY <1>4, <3>2 DEF FlushCarries, Checkpoint
    <3> QED BY <1>4, <1>6, <3>1, <3>2, WhoUploads
  <2> QED BY <2>1, <2>2, <2>3 DEF Durability
<1>7. FinalFlushKeeps'
  BY DEF FinalFlushKeeps, Checkpoint, Alive
<1> QED BY <1>2, <1>3, <1>5, <1>6, <1>7 DEF IInv, Checkpoint

LEMMA ReadAndPostKeeps == ASSUME IInv, NEW u \in Uploaders, ReadAndPost(u) PROVE IInv'
<1>1. Moved(u, "post", file)
  BY PostMoves DEF ReadAndPost, IInv
<1>2. TypeOK'
  BY <1>1 DEF IInv, TypeOK, ReadAndPost, Moved, UploadType
<1>3. Nested'
  BY <1>1 DEF IInv, Nested, ReadAndPost, Moved, Alive
<1>4. /\ ~board => u \notin Writes
      /\ phase = "up" => u # "final"
  BY DEF IInv, Staged, ReadAndPost
<1>5. Staged'
  BY <1>1, <1>4, WhoUploads DEF IInv, Staged, ReadAndPost, Moved, Alive
<1>6. ASSUME ~board PROVE Durability'
  <2>1. NoStalePost'
    BY <1>1, <1>6 DEF IInv, Nested, Durability, NoStalePost, ReadAndPost, Moved
  <2>2. FinalCarries'
    <3>1. InFlight("final")' => InFlight("final")
      BY <1>1, WhoUploads DEF Moved, InFlight, ReadAndPost
    <3>2. \A v \in Uploaders : v # u => up'[v] = up[v]
      BY <1>1 DEF Moved
    <3>3. up'[u].pc = "post" /\ up'[u].body = file /\ up[u].pc = "read"
      BY <1>1 DEF Moved, ReadAndPost
    <3> QED BY <1>6, <3>1, <3>2, <3>3, WhoUploads
            DEF IInv, Durability, FinalCarries, ReadAndPost
  <2>3. FlushCarries'
    <3>1. CASE u = "flush"
      BY <1>1, <1>6, <3>1
         DEF IInv, Durability, FlushCarries, ReadAndPost, Moved, InFlight
    <3>2. CASE u = "final"
      BY <1>4, <3>2 DEF FlushCarries, ReadAndPost
    <3> QED BY <1>4, <1>6, <3>1, <3>2, WhoUploads
  <2> QED BY <2>1, <2>2, <2>3 DEF Durability
<1>7. FinalFlushKeeps'
  BY DEF FinalFlushKeeps, ReadAndPost, Alive
<1> QED BY <1>2, <1>3, <1>5, <1>6, <1>7 DEF IInv, ReadAndPost

\* Two posts of a workspace meet only while the final flush runs.
LEMMA LandKeeps == ASSUME IInv, NEW u \in Uploaders, Land(u) PROVE IInv'
<1>1. Moved(u, "landed", up[u].body)
  BY ToMoves DEF Land, IInv
<1>2. gcs' = up[u].body /\ up[u].body \subseteq file /\ file \subseteq mem /\ mem \subseteq sent
  BY DEF IInv, TypeOK, Nested, Land
<1>3. TypeOK'
  BY <1>1, <1>2 DEF IInv, TypeOK, Land, Moved, UploadType
<1>4. Nested'
  BY <1>1, <1>2 DEF IInv, Nested, Land, Moved, Alive
<1>5. /\ ~board => u \notin Writes
      /\ phase = "up" => u # "final"
  BY DEF IInv, Staged, Land
<1>6. Staged'
  BY <1>1, <1>5, WhoUploads DEF IInv, Staged, Land, Moved, Alive
<1>7. ASSUME ~board PROVE Durability'
  <2>1. NoStalePost'
    <3> SUFFICES ASSUME NEW v \in Uploaders, up'[v].pc = "post"
                 PROVE  gcs' \ late \subseteq up'[v].body
      BY DEF NoStalePost, Land
    <3>1. v # u /\ up'[v] = up[v]
      BY <1>1 DEF Moved
    <3>2. v \notin Writes
      BY <1>7, <3>1 DEF IInv, Staged
    <3>3. InFlight("final")
      BY <1>5, <1>7, <3>1, <3>2, WhoUploads DEF InFlight, Land
    <3>4. mem \ late \subseteq up[v].body
      BY <1>7, <3>1, <3>3 DEF IInv, Durability, FinalCarries
    <3> QED BY <1>2, <3>1, <3>4
  <2>2. FinalCarries'
    <3>1. InFlight("final")' => InFlight("final")
      BY <1>1, WhoUploads DEF Moved, InFlight, Land
    <3>2. InFlight("final") => mem \ late \subseteq gcs'
      BY <1>2, <1>7 DEF IInv, Durability, FinalCarries, Land
    <3>3. \A v \in Uploaders : up'[v].pc \in {"read", "post"} => up'[v] = up[v]
      BY <1>1 DEF Moved
    <3> QED BY <1>7, <3>1, <3>2, <3>3 DEF IInv, Durability, FinalCarries, Land
  <2>3. FlushCarries'
    <3>1. CASE u = "flush"
      BY <1>1, <1>2, <1>7, <3>1
         DEF IInv, Durability, FlushCarries, Land, Moved, InFlight
    <3>2. CASE u = "final"
      BY <1>5, <3>2 DEF FlushCarries, Land
    <3> QED BY <1>5, <1>7, <3>1, <3>2, WhoUploads
  <2> QED BY <2>1, <2>2, <2>3 DEF Durability
<1>8. FinalFlushKeeps'
  BY DEF FinalFlushKeeps, Land, Alive
<1> QED BY <1>3, <1>4, <1>6, <1>7, <1>8 DEF IInv, Land

-----------------------------------------------------------------------------
(* The container ends and the next one boots.                              *)

LEMMA VanishKeeps ==
    ASSUME IInv, Alive, Vanish, flushed' \in BOOLEAN,
           faults' \in 0..MaxFaults, kills' \in 0..MaxKills,
           flushed' => phase = "term" /\ up["final"].pc = "landed"
    PROVE  IInv'
<1>1. /\ up' \in [Uploaders -> UploadType]
      /\ \A u \in Uploaders : up'[u].pc = "idle"
  BY DEF Vanish, Idle, UploadType
<1>2. TypeOK' /\ Nested'
  BY <1>1 DEF IInv, TypeOK, Nested, Vanish, UploadType, Alive
<1>3. Staged'
  BY <1>1, WhoUploads DEF IInv, Staged, Vanish
<1>4. Durability'
  BY <1>1, WhoUploads
     DEF Durability, NoStalePost, FinalCarries, FlushCarries, InFlight, Vanish
<1>5. FinalFlushKeeps'
  <2>1. flushed' /\ ~board => mem \ late \subseteq gcs /\ atTerm \subseteq mem \ late
    BY DEF IInv, Durability, FinalCarries, Staged, InFlight
  <2> QED BY <2>1 DEF FinalFlushKeeps, Vanish
<1> QED BY <1>2, <1>3, <1>4, <1>5 DEF IInv

LEMMA FinalDoneKeeps == ASSUME IInv, FinalDone PROVE IInv'
  BY VanishKeeps DEF FinalDone, IInv, TypeOK, Alive

LEMMA FinalFailsKeeps == ASSUME IInv, FinalFails PROVE IInv'
<1>1. faults' \in 0..MaxFaults
  BY WorkspacePersistAssumption DEF FinalFails, IInv, TypeOK
<1> QED BY <1>1, VanishKeeps DEF FinalFails, IInv, TypeOK, Alive

LEMMA KillKeeps == ASSUME IInv, Kill PROVE IInv'
<1>1. kills' \in 0..MaxKills
  BY WorkspacePersistAssumption DEF Kill, IInv, TypeOK
<1> QED BY <1>1, VanishKeeps DEF Kill, IInv, TypeOK

LEMMA BootKeeps == ASSUME IInv, Boot PROVE IInv'
<1>1. TypeOK'
  BY DEF IInv, TypeOK, Boot
<1>2. running = {} /\ \A u \in Uploaders : up[u].pc = "idle"
  BY DEF IInv, Staged, Boot
<1>3. Nested' /\ Staged'
  BY <1>2, WhoUploads DEF IInv, Nested, Staged, Boot
<1>4. Durability'
  BY <1>2, WhoUploads
     DEF Durability, NoStalePost, FinalCarries, FlushCarries, InFlight, Boot
<1>5. FinalFlushKeeps'
  BY DEF FinalFlushKeeps, Boot
<1> QED BY <1>1, <1>3, <1>4, <1>5 DEF IInv

-----------------------------------------------------------------------------
LEMMA InitHolds == Init => IInv
<1> SUFFICES ASSUME Init PROVE IInv
  OBVIOUS
<1>1. \A u \in Uploaders : up[u].pc = "idle" /\ up[u].body = {}
  BY DEF Init, Idle
<1>2. TypeOK
  <2>1. up \in [Uploaders -> UploadType]
    BY DEF Init, Idle, UploadType
  <2>2. 0 \in 0..MaxFaults /\ 0 \in 0..MaxKills
    BY WorkspacePersistAssumption
  <2> QED BY <2>1, <2>2 DEF Init, TypeOK, UploadType
<1>3. Nested /\ Staged
  BY <1>1, WhoUploads DEF Init, Nested, Staged
<1>4. Durability
  BY <1>1, WhoUploads DEF Init, Durability, NoStalePost, FinalCarries, FlushCarries, InFlight
<1>5. FinalFlushKeeps
  BY DEF Init, FinalFlushKeeps
<1> QED BY <1>2, <1>3, <1>4, <1>5 DEF IInv

LEMMA StutterHolds == ASSUME IInv, UNCHANGED vars PROVE IInv'
<1> USE DEF vars
<1>1. TypeOK' /\ Nested' /\ Staged'
  BY DEF IInv, TypeOK, Nested, Staged, Alive
<1>2. ~board => Durability'
  BY DEF IInv, Durability, NoStalePost, FinalCarries, FlushCarries, InFlight
<1>3. FinalFlushKeeps'
  BY DEF IInv, FinalFlushKeeps
<1> QED BY <1>1, <1>2, <1>3 DEF IInv

LEMMA Inductive == IInv /\ [Next]_vars => IInv'
<1> SUFFICES ASSUME IInv, [Next]_vars PROVE IInv'
  OBVIOUS
<1>1. CASE \E w \in Writes :
             Execute(w) \/ Answer(w) \/ CheckpointDone(w) \/ CheckpointFails(w)
  BY <1>1, ExecuteKeeps, AnswerKeeps, CheckpointDoneKeeps, CheckpointFailsKeeps
<1>2. CASE \E u \in Uploaders : Checkpoint(u) \/ ReadAndPost(u) \/ Land(u)
  BY <1>2, CheckpointKeeps, ReadAndPostKeeps, LandKeeps
<1>3. CASE FlushDone \/ FlushFails \/ FlushAndExit \/ FlushSettled
  BY <1>3, FlushDoneKeeps, FlushFailsKeeps, FlushAndExitKeeps, FlushSettledKeeps
<1>4. CASE FinalDone \/ FinalFails \/ Kill \/ Boot
  BY <1>4, FinalDoneKeeps, FinalFailsKeeps, KillKeeps, BootKeeps
<1>5. CASE UNCHANGED vars
  BY <1>5, StutterHolds
<1> QED BY <1>1, <1>2, <1>3, <1>4, <1>5 DEF Next

LEMMA Always == Spec => []IInv
<1> QED BY InitHolds, Inductive, PTL DEF Spec

(* The container's database, its file and the GCS object keep their types, *)
(* and the file never holds a write the running database lacks (a          *)
(* CHECKPOINT folds committed writes in, a restart begins with the file).  *)
THEOREM TypeCorrect == Spec => []TypeOK
<1>1. IInv => TypeOK
  BY DEF IInv
<1> QED BY <1>1, Always, PTL

(* For any set of writes: a workspace that has answered them all and has   *)
(* no persistWorkspace upload in flight, none having failed since, holds   *)
(* nothing its GCS object lacks.                                           *)
THEOREM QuietIsDurable == Spec => []QuietMeansDurable
<1>1. IInv => QuietMeansDurable
  BY DEF IInv, TypeOK, Nested, Durability, FlushCarries, QuietMeansDurable, Alive
<1> QED BY <1>1, Always, PTL

(* For any set of writes, faults and kills: when flushAndExit's final      *)
(* flush of a workspace has succeeded, the object holds every write        *)
(* answered before the signal.                                             *)
THEOREM FinalFlushIsEnough == Spec => []FinalFlushKeeps
<1>1. IInv => FinalFlushKeeps
  BY DEF IInv
<1> QED BY <1>1, Always, PTL

(* No upload of a workspace, whichever lands last, takes out of the GCS    *)
(* object a write that was in it and did not commit after the signal.      *)
THEOREM NothingTakenBack == Spec => DurableStaysDurable
<1>1. IInv /\ [Next]_vars => [~board => gcs \ late \subseteq gcs']_vars
  <2> SUFFICES ASSUME IInv, Next, ~board PROVE gcs \ late \subseteq gcs'
    OBVIOUS
  <2>1. CASE \E u \in Uploaders : Land(u)
    BY <2>1 DEF IInv, Durability, NoStalePost, Land
  <2>2. CASE ~ \E u \in Uploaders : Land(u)
    BY <2>2 DEF Next, Execute, Answer, Checkpoint, ReadAndPost, FlushDone, FlushFails,
       CheckpointDone, CheckpointFails, FlushAndExit, FlushSettled, FinalDone, FinalFails,
       Kill, Vanish, Boot
  <2> QED BY <2>1, <2>2
<1> QED BY <1>1, Always, PTL DEF Spec, DurableStaysDurable

-----------------------------------------------------------------------------
(* A set of naturals has a smallest element: the intervals below its       *)
(* elements are finite sets, and inclusion is well founded on those.       *)
LEMMA SmallestExists ==
    ASSUME NEW T, T \subseteq Nat, T # {}
    PROVE  \E x \in T : \A y \in T : x <= y
<1> DEFINE Below == {1..n : n \in T}
<1>1. Below \subseteq FiniteSubsetsOf(Nat) /\ Below # {}
  <2> SUFFICES ASSUME NEW n \in T PROVE 1..n \in FiniteSubsetsOf(Nat)
    OBVIOUS
  <2>1. IsFiniteSet(1..n)
    BY FS_Interval
  <2> QED BY <2>1 DEF FiniteSubsetsOf
<1>2. PICK S \in Below : \A U \in Below : <<U, S>> \notin StrictSubsetOrdering(Nat)
  <2> HIDE DEF Below
  <2>1. IsWellFoundedOn(StrictSubsetOrdering(Nat), FiniteSubsetsOf(Nat))
    BY FS_StrictSubsetOrderingWellFounded
  <2> QED BY <1>1, <2>1, WFMin
<1>3. PICK x \in T : S = 1..x
  BY <1>2
<1>4. ASSUME NEW y \in T, y < x PROVE FALSE
  <2>1. 1..y \subseteq 1..x /\ x \in 1..x /\ x \notin 1..y
    BY <1>4
  <2>2. 1..y \in Below /\ 1..y \in SUBSET Nat /\ 1..x \in SUBSET Nat
    OBVIOUS
  <2>3. <<1..y, 1..x>> \in StrictSubsetOrdering(Nat)
    BY <2>1, <2>2 DEF StrictSubsetOrdering
  <2> QED BY <1>2, <1>3, <2>2, <2>3
<1> QED BY <1>4

-----------------------------------------------------------------------------
(* EmbedDrain.  One drain at a time: a handler of /ctrl/qb-drain that is   *)
(* at work holds the guard.                                                *)
OneDrain ==
    /\ \A d \in Drains : job[d].pc # "idle" => inFlight /\ job[d].task # {}
    /\ \A d, e \in Drains : job[d].pc # "idle" /\ job[e].pc # "idle" => d = e
    /\ \A w \in Workers : job[w].task \subseteq used
    /\ runs = 0 => job[Owner].pc = "idle"

\* Rows are of written nodes; a batch is of written nodes, and what is inserted fits.
BatchesFit ==
    /\ \A n \in Nodes : rows[n] > 0 => n \in written
    /\ \A w \in Workers : /\ job[w].pc \in {"embed", "insert"} => job[w].batch \subseteq written
                          /\ job[w].pc = "insert" => job[w].batch \cap BadVector = {}

\* Without an owner's run, what a drain will insert has no row yet.
NoRowTwice ==
    runs = 0 =>
      /\ \A n \in Nodes : rows[n] <= 1
      /\ \A d \in Drains : job[d].pc \in {"embed", "insert"} =>
            \A n \in job[d].batch : rows[n] = 0

\* The edges are those of the embedded nodes.
EdgesCurrent == \A n \in Nodes : edges[n] = IF n \in Embedded THEN 1 ELSE 0

\* The drain at work has inserted nothing that the edges lack.
NothingNew(d) ==
    \/ job[d].pc = "idle"
    \/ job[d].pc \in {"select", "embed"} /\ job[d].total = 0
    \/ job[d].pc \in {"insert", "count"} /\ job[d].total = 0 /\ job[d].got = 0

EdgesFollow ==
    (failures = 0 /\ runs = 0) =>
      /\ (\A d \in Drains : NothingNew(d)) => EdgesCurrent
      /\ (\E d \in Drains : job[d].pc = "derive") => \A n \in Nodes : edges[n] = 0

\* A task is in the queue until its window has ended.
NotDueIsQueued == \A t \in used : ~Due(t) => t \in tasks

\* Each round that inserted anything has embedded another node.
RoundsCount(d) ==
    /\ job[d].pc = "embed" => job[d].got = 0
    /\ job[d].pc = "select" => job[d].round <= Cardinality(Embedded) + 1
    /\ job[d].pc = "embed" \/ (job[d].pc = "insert" /\ job[d].got = 0)
         => job[d].round <= Cardinality(Embedded \ job[d].batch) + 1
    /\ job[d].pc \in {"insert", "count"} /\ job[d].got > 0
         => job[d].round <= Cardinality(Embedded)

\* The drain will look for pending nodes again.
Carrying(d) ==
    \/ job[d].pc = "select"
    \/ job[d].pc = "embed" /\ job[d].batch \ BadVector # {}
    \/ job[d].pc = "insert" /\ (job[d].got > 0 \/ job[d].batch # {})
    \/ job[d].pc = "count" /\ job[d].got > 0

\* A pending node that nothing is known against is ahead of somebody.
Expected == Pending \ (lost \cup skipped \cup BadVector)
Carried ==
    BacklogFits =>
        (Expected \subseteq unqueued \/ tasks # {} \/ \E d \in Drains : Carrying(d))

DrainInv ==
    /\ DrainTypeOK /\ OneDrain /\ BatchesFit /\ NoRowTwice /\ EdgesFollow /\ NotDueIsQueued
    /\ \A d \in Drains : RoundsCount(d)
    /\ Carried

LEMMA NodeSets ==
    ASSUME EmbedDrainAssumption, NEW S \in SUBSET Nodes
    PROVE  IsFiniteSet(S) /\ Cardinality(S) \in Nat /\ Cardinality(S) <= MaxNode
<1>1. IsFiniteSet(Nodes) /\ Cardinality(Nodes) = MaxNode
  <2>1. MaxNode \in Nat
    BY DEF EmbedDrainAssumption
  <2> QED BY <2>1, FS_Interval DEF Nodes
<1>2. IsFiniteSet(S) /\ Cardinality(S) <= Cardinality(Nodes)
  BY <1>1, FS_Subset
<1> QED BY <1>1, <1>2, FS_CardinalityType

LEMMA MoreNodes ==
    ASSUME EmbedDrainAssumption, NEW S \in SUBSET Nodes, NEW T \in SUBSET S
    PROVE  Cardinality(T) <= Cardinality(S)
BY NodeSets, FS_Subset

LEMMA SmallestIn ==
    ASSUME EmbedDrainAssumption, NEW S \in SUBSET Nodes, S # {}
    PROVE  Smallest(S) \in S /\ \A m \in S : Smallest(S) <= m
<1>1. S \subseteq Nat
  BY DEF Nodes, EmbedDrainAssumption
<1>2. \E n \in S : \A m \in S : n <= m
  BY <1>1, SmallestExists
<1> QED BY <1>2 DEF Smallest

(* If the bad vectors do not fill a batch, the first pending node that has *)
(* no bad vector is in the next batch.                                     *)
LEMMA GoodNodeSelected ==
    ASSUME EmbedDrainAssumption, DrainTypeOK, Cardinality(BadVector) < Cap,
           Pending \ BadVector # {}
    PROVE  FirstPending \ BadVector # {}
<1>1. Pending \in SUBSET Nodes /\ BadVector \in SUBSET Nodes
  BY DEF Pending, DrainTypeOK, EmbedDrainAssumption, Nodes
<1> DEFINE n == Smallest(Pending \ BadVector)
<1>2. n \in Pending \ BadVector /\ \A m \in Pending \ BadVector : n <= m
  <2>1. Pending \ BadVector \in SUBSET Nodes
    BY <1>1
  <2> QED BY <2>1, SmallestIn
<1> HIDE DEF n
<1>3. {m \in Pending : m < n} \subseteq BadVector
  <2> SUFFICES ASSUME NEW m \in Pending, m < n, m \notin BadVector PROVE FALSE
    OBVIOUS
  <2>1. m \in Nat /\ n \in Nat /\ n <= m
    BY <1>1, <1>2 DEF Nodes, EmbedDrainAssumption
  <2> QED BY <2>1
<1>4. Cardinality({m \in Pending : m < n}) < Cap
  <2>1. Cardinality({m \in Pending : m < n}) <= Cardinality(BadVector)
    BY <1>1, <1>3, MoreNodes
  <2>2. Cardinality({m \in Pending : m < n}) \in Nat /\ Cardinality(BadVector) \in Nat
    <3>1. {m \in Pending : m < n} \in SUBSET Nodes
      BY <1>1
    <3> QED BY <1>1, <3>1, NodeSets
  <2>3. Cap \in Nat
    BY DEF EmbedDrainAssumption
  <2> QED BY <2>1, <2>2, <2>3
<1> QED BY <1>2, <1>4 DEF FirstPending

LEMMA BatchType ==
    ASSUME DrainTypeOK
    PROVE  FirstPending \subseteq Pending /\ Pending \subseteq written /\ Pending \subseteq Nodes
BY DEF FirstPending, Pending, DrainTypeOK

LEMMA TaskNowType ==
    ASSUME EmbedDrainAssumption, DrainTypeOK, NEW kind \in {"write", "backstop"}
    PROVE  TaskNow(kind) \in TaskNames
<1>1. Window(kind) \in Nat \ {0} /\ now \in 0..MaxTime /\ MaxTime \in Nat
  BY DEF Window, EmbedDrainAssumption, DrainTypeOK
<1>2. \A k \in Nat, m \in Nat \ {0} : k \div m \in 0..k
  OBVIOUS
<1>3. now \div Window(kind) \in 0..MaxTime
  BY <1>1, <1>2
<1> QED BY <1>3 DEF TaskNow, TaskNames

LEMMA TaskNowQueued ==
    ASSUME EmbedDrainAssumption, DrainTypeOK
    PROVE  ~Due(TaskNow("write"))
<1>1. now \in Nat /\ now \div 1 = now
  BY DEF DrainTypeOK
<1>2. ~(now >= (now + 1) * 1)
  BY <1>1
<1> QED BY <1>1, <1>2 DEF Due, TaskNow, Window

LEMMA DueStays ==
    ASSUME EmbedDrainAssumption, DrainTypeOK, NEW t \in TaskNames,
           now' = now \/ now' = now + 1, Due(t)
    PROVE  Due(t)'
<1>1. (t.bucket + 1) * Window(t.kind) \in Nat
  <2>1. t.bucket + 1 \in Nat /\ Window(t.kind) \in Nat
    BY DEF TaskNames, Window, EmbedDrainAssumption
  <2>2. \A x, y \in Nat : x * y \in Nat
    OBVIOUS
  <2> QED BY <2>1, <2>2
<1>2. now \in Nat
  BY DEF DrainTypeOK
<1>3. now' >= (t.bucket + 1) * Window(t.kind)
  BY <1>1, <1>2 DEF Due
<1> QED BY <1>3 DEF Due, Window

-----------------------------------------------------------------------------
(* How a step moves the job it is about; the other jobs stay.              *)
Others(w) == \A v \in Workers \ {w} : job'[v] = job[v]

LEMMA JobMoves ==
    ASSUME DrainTypeOK, NEW w \in Workers, NEW j \in JobType, job' = [job EXCEPT ![w] = j]
    PROVE  job' \in [Workers -> JobType] /\ job'[w] = j /\ Others(w)
BY DEF DrainTypeOK, Others

LEMMA JobFields ==
    ASSUME DrainTypeOK, NEW w \in Workers
    PROVE  job[w] \in JobType /\ job[w].got \in Nat /\ job[w].total \in Nat
           /\ job[w].round \in 0..MaxRounds /\ job[w].task \subseteq TaskNames
           /\ job[w].batch \subseteq Nodes
BY DEF DrainTypeOK, JobType

LEMMA JobStarts ==
    ASSUME EmbedDrainAssumption, DrainTypeOK, NEW w \in Workers, NEW t \in SUBSET TaskNames,
           job' = StartJob(w, t)
    PROVE  /\ job' \in [Workers -> JobType] /\ Others(w)
           /\ job'[w].pc = "select" /\ job'[w].task = t
           /\ job'[w].total = 0 /\ job'[w].round = 1
<1> DEFINE j == [NoJob EXCEPT !.pc = "select", !.task = t, !.round = 1]
<1>1. j \in JobType /\ j.pc = "select" /\ j.task = t /\ j.total = 0 /\ j.round = 1
  <2>1. 1 \in 0..MaxRounds
    BY DEF EmbedDrainAssumption
  <2>2. NoJob \in JobType /\ NoJob.total = 0
    BY DEF NoJob, JobType, EmbedDrainAssumption
  <2> QED BY <2>1, <2>2 DEF JobType
<1>2. job' = [job EXCEPT ![w] = j]
  BY DEF StartJob
<1> HIDE DEF j
<1> QED BY <1>1, <1>2, JobMoves

LEMMA JobFinishes ==
    ASSUME EmbedDrainAssumption, DrainTypeOK, NEW w \in Workers, NEW pc \in {"idle", "delete"},
           Finish(w, pc)
    PROVE  /\ job' \in [Workers -> JobType] /\ Others(w)
           /\ job'[w].pc = pc /\ job'[w].task \subseteq job[w].task
           /\ pc = "delete" => job'[w].task = job[w].task /\ inFlight' = inFlight
           /\ pc = "idle" => inFlight' = IF w \in Drains THEN FALSE ELSE inFlight
<1> DEFINE j == IF pc = "idle" THEN NoJob ELSE [job[w] EXCEPT !.pc = pc]
<1>1. /\ j \in JobType /\ j.pc = pc /\ j.task \subseteq job[w].task
      /\ pc = "delete" => j.task = job[w].task
  <2>1. CASE pc = "idle"
    BY <2>1 DEF NoJob, JobType, EmbedDrainAssumption
  <2>2. CASE pc = "delete"
    BY <2>2, JobFields DEF JobType
  <2> QED BY <2>1, <2>2
<1>2. job' = [job EXCEPT ![w] = j]
  BY DEF Finish
<1> HIDE DEF j
<1>3. job' \in [Workers -> JobType] /\ job'[w] = j /\ Others(w)
  BY <1>1, <1>2, JobMoves
<1> QED BY <1>1, <1>3 DEF Finish

LEMMA SelectMoves ==
    ASSUME EmbedDrainAssumption, DrainTypeOK, NEW w \in Workers, Select(w)
    PROVE  /\ job' \in [Workers -> JobType] /\ Others(w)
           /\ \/ /\ Pending # {} /\ inFlight' = inFlight
                 /\ job'[w].pc = "embed" /\ job'[w].batch = FirstPending
                 /\ job'[w].task = job[w].task /\ job'[w].total = job[w].total
                 /\ job'[w].got = 0 /\ job'[w].round = job[w].round
              \/ /\ Pending = {}
                 /\ \E pc \in {"idle", "delete"} :
                       /\ Finish(w, pc) /\ job'[w].pc = pc
                       /\ pc = "idle" => job[w].total = 0
<1>1. CASE Pending # {}
  <2> DEFINE j == [job[w] EXCEPT !.pc = "embed", !.batch = FirstPending, !.got = 0]
  <2>1. /\ j \in JobType /\ j.pc = "embed" /\ j.batch = FirstPending /\ j.task = job[w].task
        /\ j.total = job[w].total /\ j.got = 0 /\ j.round = job[w].round
    BY JobFields, BatchType DEF JobType
  <2>2. job' = [job EXCEPT ![w] = j] /\ inFlight' = inFlight
    BY <1>1, JobFields DEF Select, DrainTypeOK, JobType
  <2> HIDE DEF j
  <2> QED BY <1>1, <2>1, <2>2, JobMoves
<1>2. CASE Pending = {}
  <2>1. PICK pc \in {"idle", "delete"} : Finish(w, pc) /\ (pc = "idle" => job[w].total = 0)
    BY <1>2, JobFields DEF Select, AfterRounds
  <2> QED BY <1>2, <2>1, JobFinishes
<1> QED BY <1>1, <1>2

LEMMA EmbedMoves ==
    ASSUME DrainTypeOK, NEW w \in Workers, EmbedTexts(w)
    PROVE  /\ job' \in [Workers -> JobType] /\ Others(w)
           /\ job'[w].pc = "insert" /\ job'[w].batch = job[w].batch \ BadVector
           /\ job'[w].task = job[w].task /\ job'[w].total = job[w].total
           /\ job'[w].got = job[w].got /\ job'[w].round = job[w].round
<1> DEFINE j == [job[w] EXCEPT !.pc = "insert", !.batch = @ \ BadVector]
<1>1. /\ j \in JobType /\ j.pc = "insert" /\ j.batch = job[w].batch \ BadVector
      /\ j.task = job[w].task /\ j.total = job[w].total
      /\ j.got = job[w].got /\ j.round = job[w].round
  BY JobFields DEF JobType
<1>2. job' = [job EXCEPT ![w] = j]
  BY DEF EmbedTexts, DrainTypeOK, JobType
<1> HIDE DEF j
<1> QED BY <1>1, <1>2, JobMoves

LEMMA InsertMoves ==
    ASSUME EmbedDrainAssumption, DrainTypeOK, NEW w \in Workers, InsertVector(w)
    PROVE  /\ job' \in [Workers -> JobType] /\ Others(w)
           /\ job'[w].task = job[w].task /\ job'[w].total = job[w].total
           /\ job'[w].round = job[w].round
           /\ \/ \E n \in job[w].batch :
                   /\ n \in Nodes /\ rows' = [rows EXCEPT ![n] = rows[n] + 1]
                   /\ job'[w].pc = "insert" /\ job'[w].batch = job[w].batch \ {n}
                   /\ job'[w].got = job[w].got + 1
              \/ /\ job[w].batch = {} /\ rows' = rows
                 /\ job'[w].pc = "count" /\ job'[w].got = job[w].got
<1>1. CASE job[w].batch # {}
  <2> DEFINE n == Smallest(job[w].batch)
  <2>1. n \in job[w].batch /\ n \in Nodes
    BY <1>1, JobFields, SmallestIn
  <2>2. rows' = [rows EXCEPT ![n] = rows[n] + 1]
    BY <1>1 DEF InsertVector
  <2> DEFINE j == [job[w] EXCEPT !.batch = @ \ {n}, !.got = @ + 1]
  <2>3. job' = [job EXCEPT ![w] = j]
    <3>1. job' = [job EXCEPT ![w].batch = @ \ {n}, ![w].got = @ + 1]
      BY <1>1 DEF InsertVector
    <3> HIDE DEF n
    <3> QED BY <3>1 DEF DrainTypeOK, JobType
  <2>4. /\ j \in JobType /\ j.pc = "insert" /\ j.batch = job[w].batch \ {n}
        /\ j.task = job[w].task /\ j.total = job[w].total
        /\ j.got = job[w].got + 1 /\ j.round = job[w].round
    <3>1. job[w].pc = "insert"
      BY DEF InsertVector
    <3>2. job[w].got + 1 \in Nat /\ job[w].batch \ {n} \in SUBSET Nodes
      BY JobFields
    <3> HIDE DEF n
    <3>3. j \in JobType
      BY <3>2, JobFields DEF JobType
    <3>4. /\ j.pc = job[w].pc /\ j.batch = job[w].batch \ {n} /\ j.task = job[w].task
          /\ j.total = job[w].total /\ j.got = job[w].got + 1 /\ j.round = job[w].round
      BY JobFields DEF JobType
    <3> QED BY <3>1, <3>3, <3>4
  <2> HIDE DEF j, n
  <2> QED BY <2>1, <2>2, <2>3, <2>4, JobMoves
<1>2. CASE job[w].batch = {}
  <2> DEFINE j == [job[w] EXCEPT !.pc = "count"]
  <2>1. job' = [job EXCEPT ![w] = j] /\ rows' = rows
    BY <1>2, JobFields DEF InsertVector, DrainTypeOK
  <2>2. /\ j \in JobType /\ j.pc = "count" /\ j.task = job[w].task
        /\ j.total = job[w].total /\ j.got = job[w].got /\ j.round = job[w].round
    BY JobFields DEF JobType
  <2> HIDE DEF j
  <2> QED BY <1>2, <2>1, <2>2, JobMoves
<1> QED BY <1>1, <1>2

LEMMA CountMoves ==
    ASSUME EmbedDrainAssumption, DrainTypeOK, NEW w \in Workers, CountRemaining(w)
    PROVE  /\ job' \in [Workers -> JobType] /\ Others(w)
           /\ \/ /\ job[w].got > 0 /\ inFlight' = inFlight
                 /\ job'[w].pc = "select" /\ job'[w].task = job[w].task
                 /\ job'[w].total > 0 /\ job'[w].round = job[w].round + 1
              \/ /\ Pending = {} \/ job[w].got = 0 \/ job[w].round = MaxRounds
                 /\ \E pc \in {"idle", "delete"} :
                       /\ Finish(w, pc) /\ job'[w].pc = pc
                       /\ pc = "idle" => job[w].total = 0 /\ job[w].got = 0
<1> DEFINE total == job[w].total + job[w].got
<1>1. total \in Nat /\ (total = 0 => job[w].total = 0 /\ job[w].got = 0)
      /\ (job[w].got > 0 => total > 0)
  BY JobFields
<1>2. CASE /\ Pending # {} /\ job[w].got > 0 /\ job[w].round < MaxRounds
           /\ job' = [job EXCEPT ![w].pc = "select", ![w].total = total, ![w].round = @ + 1]
           /\ UNCHANGED inFlight
  <2> DEFINE j == [job[w] EXCEPT !.pc = "select", !.total = total, !.round = @ + 1]
  <2>1. job' = [job EXCEPT ![w] = j]
    <3> HIDE DEF total
    <3> QED BY <1>2 DEF DrainTypeOK, JobType
  <2>2. job[w].round + 1 \in 0..MaxRounds
    BY <1>2, JobFields DEF EmbedDrainAssumption
  <2>3. /\ j \in JobType /\ j.pc = "select" /\ j.task = job[w].task
        /\ j.total = total /\ j.round = job[w].round + 1
    <3> HIDE DEF total
    <3> QED BY <1>1, <2>2, JobFields DEF JobType
  <2> HIDE DEF j, total
  <2> QED BY <1>1, <1>2, <2>1, <2>3, JobMoves
<1>3. CASE /\ Pending = {} \/ job[w].got = 0 \/ job[w].round = MaxRounds
           /\ Finish(w, AfterRounds(w, total))
  <2>1. PICK pc \in {"idle", "delete"} : Finish(w, pc) /\ (pc = "idle" => ~(total > 0))
    BY <1>3 DEF AfterRounds
  <2>2. pc = "idle" => job[w].total = 0 /\ job[w].got = 0
    BY <1>1, <2>1
  <2> QED BY <1>3, <2>1, <2>2, JobFinishes
<1> QED BY <1>2, <1>3 DEF CountRemaining

LEMMA DeleteMoves ==
    ASSUME DrainTypeOK, NEW w \in Workers, DeleteEdges(w)
    PROVE  /\ job' \in [Workers -> JobType] /\ Others(w)
           /\ job'[w].pc = "derive" /\ job'[w].task = job[w].task
<1> DEFINE j == [job[w] EXCEPT !.pc = "derive"]
<1>1. j \in JobType /\ j.pc = "derive" /\ j.task = job[w].task
  BY JobFields DEF JobType
<1>2. job' = [job EXCEPT ![w] = j]
  BY JobFields DEF DeleteEdges, DrainTypeOK
<1> HIDE DEF j
<1> QED BY <1>1, <1>2, JobMoves

-----------------------------------------------------------------------------
(* Types, the guard, and what batches and rows are about.                  *)
Shape == DrainTypeOK /\ OneDrain /\ BatchesFit

(* A request at work goes on, or ends and gives back the guard if it had it. *)
LEMMA OneDrainByJob ==
    ASSUME EmbedDrainAssumption, OneDrain, NEW w \in Workers, Others(w), job[w].pc # "idle",
           used' = used, runs' = runs, job'[w].task \subseteq job[w].task,
           job'[w].pc # "idle" => job'[w].task = job[w].task /\ inFlight' = inFlight,
           job'[w].pc = "idle" => inFlight' = IF w \in Drains THEN FALSE ELSE inFlight
    PROVE  OneDrain'
<1>1. \A d \in Drains : d \in Workers /\ d # Owner
  BY DEF Workers, EmbedDrainAssumption
<1>2. Owner \in Workers
  BY DEF Workers
<1>3. \A v \in Workers : v = w \/ job'[v] = job[v]
  BY DEF Others
<1>4. \A d, e \in Drains : job'[d].pc # "idle" /\ job'[e].pc # "idle" => d = e
  BY <1>1, <1>3 DEF OneDrain
<1>5. \A v \in Workers : job'[v].task \subseteq used
  BY <1>3 DEF OneDrain
<1>6. runs' = 0 => job'[Owner].pc = "idle"
  BY <1>2, <1>3 DEF OneDrain
<1>7. ASSUME NEW d \in Drains, job'[d].pc # "idle" PROVE inFlight' /\ job'[d].task # {}
  <2>1. CASE d = w
    BY <1>7, <2>1 DEF OneDrain
  <2>2. CASE d # w
    <3>1. job'[d] = job[d] /\ job[d].pc # "idle"
      BY <1>1, <1>3, <1>7, <2>2
    <3>2. inFlight /\ job[d].task # {} /\ w \notin Drains
      BY <2>2, <3>1 DEF OneDrain
    <3> QED BY <3>1, <3>2
  <2> QED BY <2>1, <2>2
<1> QED BY <1>4, <1>5, <1>6, <1>7 DEF OneDrain

LEMMA OneDrainByTasks ==
    ASSUME OneDrain, job' = job, inFlight' = inFlight, runs' = runs, used \subseteq used'
    PROVE  OneDrain'
BY DEF OneDrain

LEMMA BatchesByJob ==
    ASSUME DrainTypeOK, BatchesFit, NEW w \in Workers, Others(w), written' = written, rows' = rows,
           job'[w].pc \in {"embed", "insert"} => job'[w].batch \subseteq written,
           job'[w].pc = "insert" => job'[w].batch \cap BadVector = {}
    PROVE  BatchesFit'
BY DEF BatchesFit, Others

LEMMA BatchesByTasks ==
    ASSUME BatchesFit, job' = job, written \subseteq written', rows' = rows
    PROVE  BatchesFit'
BY DEF BatchesFit

LEMMA CreateTaskTyped ==
    ASSUME EmbedDrainAssumption, DrainTypeOK, NEW kind \in {"write", "backstop"},
           CreateTask(kind)
    PROVE  tasks' \subseteq used' /\ used' \subseteq TaskNames /\ used \subseteq used'
BY TaskNowType DEF CreateTask, DrainTypeOK

LEMMA ShapeByWriter ==
    ASSUME EmbedDrainAssumption, Shape,
           \/ Write \/ Backstop \/ Tick
           \/ \E n \in Nodes : EnqueueEmbedDrain(n) \/ EnqueueLost(n)
           \/ \E t \in TaskNames : DeliverSkipped(t)
    PROVE  Shape'
<1>0. DrainTypeOK /\ OneDrain /\ BatchesFit
  BY DEF Shape
<1>1. CASE Write
  <2>1. OneDrain' /\ BatchesFit'
    BY <1>0, <1>1, OneDrainByTasks, BatchesByTasks DEF Write
  <2>2. DrainTypeOK'
    BY <1>0, <1>1 DEF Write, DrainTypeOK
  <2> QED BY <2>1, <2>2 DEF Shape
<1>2. CASE Backstop
  <2>1. OneDrain' /\ BatchesFit'
    BY <1>0, <1>2, OneDrainByTasks, BatchesByTasks, CreateTaskTyped DEF Backstop
  <2>2. DrainTypeOK'
    BY <1>0, <1>2, CreateTaskTyped DEF Backstop, DrainTypeOK
  <2> QED BY <2>1, <2>2 DEF Shape
<1>3. CASE Tick
  <2>1. OneDrain' /\ BatchesFit'
    BY <1>0, <1>3, OneDrainByTasks, BatchesByTasks DEF Tick
  <2>2. now' \in 0..MaxTime
    BY <1>0, <1>3 DEF Tick, DrainTypeOK, EmbedDrainAssumption
  <2>3. DrainTypeOK'
    BY <1>0, <1>3, <2>2 DEF Tick, DrainTypeOK
  <2> QED BY <2>1, <2>3 DEF Shape
<1>4. ASSUME NEW n \in Nodes, EnqueueEmbedDrain(n) PROVE Shape'
  <2>1. OneDrain' /\ BatchesFit'
    BY <1>0, <1>4, OneDrainByTasks, BatchesByTasks, CreateTaskTyped DEF EnqueueEmbedDrain
  <2>2. DrainTypeOK'
    BY <1>0, <1>4, CreateTaskTyped DEF EnqueueEmbedDrain, DrainTypeOK
  <2> QED BY <2>1, <2>2 DEF Shape
<1>5. ASSUME NEW n \in Nodes, EnqueueLost(n) PROVE Shape'
  <2>1. OneDrain' /\ BatchesFit'
    BY <1>0, <1>5, OneDrainByTasks, BatchesByTasks DEF EnqueueLost
  <2>2. failures' \in 0..MaxFailures
    BY <1>0, <1>5 DEF EnqueueLost, DrainTypeOK, EmbedDrainAssumption
  <2>3. DrainTypeOK'
    BY <1>0, <1>5, <2>2 DEF EnqueueLost, DrainTypeOK
  <2> QED BY <2>1, <2>3 DEF Shape
<1>6. ASSUME NEW t \in TaskNames, DeliverSkipped(t) PROVE Shape'
  <2>1. OneDrain' /\ BatchesFit'
    BY <1>0, <1>6, OneDrainByTasks, BatchesByTasks DEF DeliverSkipped
  <2>2. DrainTypeOK'
    BY <1>0, <1>6, BatchType DEF DeliverSkipped, DrainTypeOK
  <2> QED BY <2>1, <2>2 DEF Shape
<1> QED BY <1>1, <1>2, <1>3, <1>4, <1>5, <1>6

LEMMA ShapeByStart ==
    ASSUME EmbedDrainAssumption, Shape,
           EmbedRun \/ \E w \in Drains, t \in TaskNames : Deliver(w, t)
    PROVE  Shape'
<1>0. DrainTypeOK /\ OneDrain /\ BatchesFit
  BY DEF Shape
<1>1. \A d \in Drains : d \in Workers /\ d # Owner
  BY DEF Workers, EmbedDrainAssumption
<1>2. ASSUME NEW w \in Drains, NEW t \in TaskNames, Deliver(w, t) PROVE Shape'
  <2>1. /\ job' \in [Workers -> JobType] /\ Others(w)
        /\ job'[w].pc = "select" /\ job'[w].task = {t}
    <3>1. {t} \in SUBSET TaskNames /\ w \in Workers /\ job' = StartJob(w, {t})
      BY <1>1, <1>2 DEF Deliver
    <3> QED BY <1>0, <3>1, JobStarts
  <2>2. OneDrain'
    <3>1. \A v \in Workers : v = w \/ job'[v] = job[v]
      BY <2>1 DEF Others
    <3>2. t \in used /\ ~inFlight /\ used' = used /\ runs' = runs
      BY <1>0, <1>2 DEF Deliver, DrainTypeOK
    <3>3. \A d \in Drains : job[d].pc = "idle"
      BY <1>0, <3>2 DEF OneDrain
    <3>4. \A d \in Drains : job'[d].pc # "idle" => d = w
      BY <1>1, <3>1, <3>3
    <3>5. \A v \in Workers : job'[v].task \subseteq used'
      BY <1>0, <2>1, <3>1, <3>2 DEF OneDrain
    <3>6. inFlight'
      BY <1>2 DEF Deliver
    <3>7. runs' = 0 => job'[Owner].pc = "idle"
      BY <1>0, <1>1, <3>1, <3>2 DEF OneDrain, Workers
    <3> QED BY <2>1, <3>4, <3>5, <3>6, <3>7 DEF OneDrain
  <2>3. BatchesFit'
    BY <1>0, <1>1, <1>2, <2>1, BatchesByJob DEF Deliver
  <2>4. DrainTypeOK'
    BY <1>0, <1>2, <2>1 DEF Deliver, DrainTypeOK
  <2> QED BY <2>2, <2>3, <2>4 DEF Shape
<1>3. CASE EmbedRun
  <2>1. /\ job' \in [Workers -> JobType] /\ Others(Owner)
        /\ job'[Owner].pc = "select" /\ job'[Owner].task = {}
    <3>1. {} \in SUBSET TaskNames /\ Owner \in Workers /\ job' = StartJob(Owner, {})
      BY <1>3 DEF EmbedRun, Workers
    <3> QED BY <1>0, <3>1, JobStarts
  <2>2. runs' \in 0..OwnerRuns /\ runs' # 0
    BY <1>0, <1>3 DEF EmbedRun, DrainTypeOK, EmbedDrainAssumption
  <2>3. OneDrain'
    BY <1>0, <1>1, <1>3, <2>1, <2>2 DEF EmbedRun, OneDrain, Others
  <2>4. BatchesFit'
    BY <1>0, <1>3, <2>1, BatchesByJob DEF EmbedRun, Workers
  <2>5. DrainTypeOK'
    BY <1>0, <1>3, <2>1, <2>2 DEF EmbedRun, DrainTypeOK
  <2> QED BY <2>3, <2>4, <2>5 DEF Shape
<1> QED BY <1>2, <1>3

LEMMA ShapeByJob ==
    ASSUME EmbedDrainAssumption, Shape, NEW w \in Workers,
           \/ Select(w) \/ EmbedTexts(w) \/ InsertVector(w) \/ CountRemaining(w)
           \/ DeleteEdges(w) \/ DeriveEdges(w) \/ JobFails(w)
    PROVE  Shape'
<1>0. DrainTypeOK /\ OneDrain /\ BatchesFit
  BY DEF Shape
<1>1. CASE Select(w)
  <2>1. /\ job' \in [Workers -> JobType] /\ Others(w) /\ job[w].pc # "idle"
        /\ job'[w].task \subseteq job[w].task
        /\ job'[w].pc # "idle" => job'[w].task = job[w].task /\ inFlight' = inFlight
        /\ job'[w].pc = "idle" => inFlight' = IF w \in Drains THEN FALSE ELSE inFlight
    BY <1>0, <1>1, SelectMoves, JobFinishes DEF Select
  <2>2. job'[w].pc \in {"embed", "idle", "delete"}
        /\ (job'[w].pc = "embed" => job'[w].batch \subseteq written)
    BY <1>0, <1>1, SelectMoves, BatchType
  <2>3. OneDrain'
    BY <1>0, <1>1, <2>1, OneDrainByJob DEF Select
  <2>4. BatchesFit'
    BY <1>0, <1>1, <2>1, <2>2, BatchesByJob DEF Select
  <2>5. inFlight' \in BOOLEAN
    BY <1>0, <2>1 DEF DrainTypeOK
  <2>6. DrainTypeOK'
    BY <1>0, <1>1, <2>1, <2>5 DEF Select, DrainTypeOK
  <2> QED BY <2>3, <2>4, <2>6 DEF Shape
<1>2. CASE EmbedTexts(w)
  <2>1. OneDrain'
    BY <1>0, <1>2, EmbedMoves, OneDrainByJob DEF EmbedTexts
  <2>2. job[w].batch \subseteq written
    BY <1>0, <1>2 DEF BatchesFit, EmbedTexts
  <2>3. BatchesFit'
    BY <1>0, <1>2, <2>2, EmbedMoves, BatchesByJob DEF EmbedTexts
  <2>4. DrainTypeOK'
    BY <1>0, <1>2, EmbedMoves DEF EmbedTexts, DrainTypeOK
  <2> QED BY <2>1, <2>3, <2>4 DEF Shape
<1>3. CASE InsertVector(w)
  <2>1. /\ job' \in [Workers -> JobType] /\ Others(w) /\ job[w].pc = "insert"
        /\ job'[w].task = job[w].task /\ job'[w].pc \in {"insert", "count"}
        /\ job'[w].pc = "insert" => job'[w].batch \subseteq job[w].batch
    BY <1>0, <1>3, InsertMoves DEF InsertVector
  <2>2. rows' \in [Nodes -> Nat] /\ \A n \in Nodes : rows'[n] = rows[n] \/ n \in job[w].batch
    BY <1>0, <1>3, InsertMoves DEF DrainTypeOK
  <2>3. OneDrain'
    BY <1>0, <1>3, <2>1, OneDrainByJob DEF InsertVector
  <2>4. BatchesFit'
    BY <1>0, <1>3, <2>1, <2>2 DEF BatchesFit, Others, InsertVector
  <2>5. DrainTypeOK'
    BY <1>0, <1>3, <2>1, <2>2 DEF InsertVector, DrainTypeOK
  <2> QED BY <2>3, <2>4, <2>5 DEF Shape
<1>4. CASE CountRemaining(w)
  <2>1. /\ job' \in [Workers -> JobType] /\ Others(w) /\ job[w].pc # "idle"
        /\ job'[w].task \subseteq job[w].task
        /\ job'[w].pc # "idle" => job'[w].task = job[w].task /\ inFlight' = inFlight
        /\ job'[w].pc = "idle" => inFlight' = IF w \in Drains THEN FALSE ELSE inFlight
    BY <1>0, <1>4, CountMoves, JobFinishes DEF CountRemaining
  <2>2. job'[w].pc \in {"select", "idle", "delete"}
    BY <1>0, <1>4, CountMoves
  <2>3. OneDrain'
    BY <1>0, <1>4, <2>1, OneDrainByJob DEF CountRemaining
  <2>4. BatchesFit'
    BY <1>0, <1>4, <2>1, <2>2, BatchesByJob DEF CountRemaining
  <2>5. inFlight' \in BOOLEAN
    BY <1>0, <2>1 DEF DrainTypeOK
  <2>6. DrainTypeOK'
    BY <1>0, <1>4, <2>1, <2>5 DEF CountRemaining, DrainTypeOK
  <2> QED BY <2>3, <2>4, <2>6 DEF Shape
<1>5. CASE DeleteEdges(w)
  <2>1. OneDrain'
    BY <1>0, <1>5, DeleteMoves, OneDrainByJob DEF DeleteEdges
  <2>2. BatchesFit'
    BY <1>0, <1>5, DeleteMoves, BatchesByJob DEF DeleteEdges
  <2>3. DrainTypeOK'
    BY <1>0, <1>5, DeleteMoves DEF DeleteEdges, DrainTypeOK
  <2> QED BY <2>1, <2>2, <2>3 DEF Shape
<1>6. CASE DeriveEdges(w) \/ JobFails(w)
  <2>1. /\ job' \in [Workers -> JobType] /\ Others(w) /\ job[w].pc # "idle"
        /\ job'[w].task \subseteq job[w].task /\ job'[w].pc = "idle"
        /\ inFlight' = IF w \in Drains THEN FALSE ELSE inFlight
    BY <1>0, <1>6, JobFinishes DEF DeriveEdges, JobFails
  <2>2. OneDrain'
    BY <1>0, <1>6, <2>1, OneDrainByJob DEF DeriveEdges, JobFails
  <2>3. BatchesFit'
    BY <1>0, <1>6, <2>1, BatchesByJob DEF DeriveEdges, JobFails
  <2>4. inFlight' \in BOOLEAN
    BY <1>0, <2>1 DEF DrainTypeOK
  <2>5. edges' \in [Nodes -> Nat]
    BY <1>0, <1>6 DEF DeriveEdges, JobFails, DrainTypeOK
  <2>6. failures' \in 0..MaxFailures
    BY <1>0, <1>6 DEF DeriveEdges, JobFails, DrainTypeOK, EmbedDrainAssumption
  <2>7. tasks' \subseteq used'
    BY <1>0, <1>6 DEF DeriveEdges, JobFails, DrainTypeOK, OneDrain
  <2>8. DrainTypeOK'
    BY <1>0, <1>6, <2>1, <2>4, <2>5, <2>6, <2>7 DEF DeriveEdges, JobFails, DrainTypeOK
  <2> QED BY <2>2, <2>3, <2>8 DEF Shape
<1> QED BY <1>1, <1>2, <1>3, <1>4, <1>5, <1>6

-----------------------------------------------------------------------------
(* One row for each node, and the edges of the rows.                       *)

(* Without an owner's run, who is at work is a drain, and the only one.    *)
LEMMA SoleDrain ==
    ASSUME EmbedDrainAssumption, OneDrain, runs = 0, NEW w \in Workers, job[w].pc # "idle"
    PROVE  w \in Drains /\ \A d \in Drains \ {w} : job[d].pc = "idle" /\ d \in Workers \ {w}
BY DEF OneDrain, Workers

LEMMA RunsStay ==
    ASSUME EmbedDrainAssumption, DrainTypeOK, EmbedRun
    PROVE  runs' # 0
BY DEF DrainTypeOK, EmbedRun, EmbedDrainAssumption

LEMMA DrainsWork == EmbedDrainAssumption => Drains \subseteq Workers
BY DEF Workers

LEMMA RowsByJob ==
    ASSUME EmbedDrainAssumption, NoRowTwice, NEW w \in Workers, Others(w), rows' = rows,
           runs' = runs,
           runs = 0 /\ job'[w].pc \in {"embed", "insert"} => \A n \in job'[w].batch : rows[n] = 0
    PROVE  NoRowTwice'
BY DrainsWork DEF NoRowTwice, Others

LEMMA RowsNext ==
    ASSUME EmbedDrainAssumption, Shape, NoRowTwice, [DrainNext]_drainVars
    PROVE  NoRowTwice'
<1>0. DrainTypeOK /\ OneDrain /\ BatchesFit
  BY DEF Shape
<1>1. CASE UNCHANGED <<job, rows, runs>>
  BY <1>1 DEF NoRowTwice
<1>2. CASE EmbedRun
  BY <1>0, <1>2, RunsStay DEF NoRowTwice
<1>3. ASSUME NEW w \in Drains, NEW t \in TaskNames, Deliver(w, t) PROVE NoRowTwice'
  <2>1. {t} \in SUBSET TaskNames /\ w \in Workers /\ job' = StartJob(w, {t})
        /\ rows' = rows /\ runs' = runs
    BY <1>3, DrainsWork DEF Deliver
  <2>2. Others(w) /\ job'[w].pc = "select"
    BY <1>0, <2>1, JobStarts
  <2> QED BY <2>1, <2>2, RowsByJob
<1>4. ASSUME NEW w \in Workers, Select(w) PROVE NoRowTwice'
  <2>1. \A n \in FirstPending : rows[n] = 0
    BY <1>0, BatchType DEF Pending
  <2> QED BY <1>0, <1>4, <2>1, SelectMoves, RowsByJob DEF Select
<1>5. ASSUME NEW w \in Workers, EmbedTexts(w) PROVE NoRowTwice'
  <2>1. runs = 0 => \A n \in job[w].batch : rows[n] = 0
    BY <1>0, <1>5, SoleDrain DEF EmbedTexts, NoRowTwice
  <2> QED BY <1>0, <1>5, <2>1, EmbedMoves, RowsByJob DEF EmbedTexts
<1>6. ASSUME NEW w \in Workers, InsertVector(w) PROVE NoRowTwice'
  <2> SUFFICES ASSUME runs = 0 PROVE NoRowTwice'
    BY <1>6 DEF InsertVector, NoRowTwice
  <2>1. /\ w \in Drains /\ \A d \in Drains \ {w} : job'[d].pc = "idle"
        /\ \A n \in job[w].batch : rows[n] = 0
    BY <1>0, <1>6, SoleDrain, InsertMoves DEF InsertVector, NoRowTwice, Others
  <2>2. CASE rows' = rows /\ job'[w].pc = "count"
    BY <2>1, <2>2 DEF NoRowTwice
  <2>3. CASE \E n \in job[w].batch :
                /\ n \in Nodes /\ rows' = [rows EXCEPT ![n] = rows[n] + 1]
                /\ job'[w].batch = job[w].batch \ {n}
    <3>1. PICK n \in job[w].batch : /\ n \in Nodes /\ rows' = [rows EXCEPT ![n] = rows[n] + 1]
                                    /\ job'[w].batch = job[w].batch \ {n}
      BY <2>3
    <3>2. \A m \in Nodes : rows'[m] = IF m = n THEN 1 ELSE rows[m]
      BY <1>0, <2>1, <3>1 DEF DrainTypeOK
    <3>3. \A m \in job'[w].batch : m \in Nodes /\ rows'[m] = 0
      BY <1>0, <2>1, <3>1, <3>2, JobFields
    <3> QED BY <2>1, <3>2, <3>3 DEF NoRowTwice
  <2> QED BY <1>0, <1>6, <2>2, <2>3, InsertMoves
<1>7. ASSUME NEW w \in Workers, CountRemaining(w) PROVE NoRowTwice'
  BY <1>0, <1>7, CountMoves, RowsByJob DEF CountRemaining
<1>8. ASSUME NEW w \in Workers, DeleteEdges(w) PROVE NoRowTwice'
  BY <1>0, <1>8, DeleteMoves, RowsByJob DEF DeleteEdges
<1>9. ASSUME NEW w \in Workers, DeriveEdges(w) \/ JobFails(w) PROVE NoRowTwice'
  BY <1>0, <1>9, JobFinishes, RowsByJob DEF DeriveEdges, JobFails
<1> QED BY <1>1, <1>2, <1>3, <1>4, <1>5, <1>6, <1>7, <1>8, <1>9
        DEF DrainNext, drainVars, Write, EnqueueEmbedDrain, EnqueueLost, Backstop, Tick,
            DeliverSkipped

LEMMA EmbeddedStays ==
    ASSUME DrainTypeOK, DrainTypeOK', BatchesFit, rows' = rows, written \subseteq written'
    PROVE  Embedded' = Embedded
BY DEF Embedded, BatchesFit, DrainTypeOK

LEMMA EdgesByTasks ==
    ASSUME DrainTypeOK, DrainTypeOK', BatchesFit, EdgesFollow, written \subseteq written',
           UNCHANGED <<job, rows, edges, runs>>, failures' = 0 => failures = 0
    PROVE  EdgesFollow'
BY EmbeddedStays DEF EdgesFollow, EdgesCurrent, NothingNew

LEMMA EdgesByJob ==
    ASSUME EmbedDrainAssumption, DrainTypeOK, DrainTypeOK', OneDrain, BatchesFit, EdgesFollow,
           NEW w \in Workers, job[w].pc # "idle", Others(w),
           UNCHANGED <<written, rows, edges, failures, runs>>,
           NothingNew(w)' => NothingNew(w), job'[w].pc # "derive"
    PROVE  EdgesFollow'
<1> SUFFICES ASSUME failures' = 0, runs' = 0
             PROVE  /\ (\A d \in Drains : NothingNew(d)') => EdgesCurrent'
                    /\ \A d \in Drains : job'[d].pc # "derive"
  BY DEF EdgesFollow
<1>1. w \in Drains /\ \A d \in Drains \ {w} : job[d].pc = "idle" /\ job'[d] = job[d]
  BY SoleDrain DEF Others
<1>2. \A d \in Drains \ {w} : NothingNew(d)
  BY <1>1 DEF NothingNew
<1>3. Embedded' = Embedded
  BY EmbeddedStays
<1>4. (\A d \in Drains : NothingNew(d)') => EdgesCurrent
  BY <1>1, <1>2 DEF EdgesFollow
<1> QED BY <1>1, <1>3, <1>4 DEF EdgesCurrent

LEMMA EdgesNext ==
    ASSUME EmbedDrainAssumption, Shape, Shape', EdgesFollow, [DrainNext]_drainVars
    PROVE  EdgesFollow'
<1>0. DrainTypeOK /\ OneDrain /\ BatchesFit /\ DrainTypeOK'
  BY DEF Shape
<1>1. CASE /\ written \subseteq written' /\ UNCHANGED <<job, rows, edges, runs>>
           /\ failures' = failures \/ failures' = failures + 1
  BY <1>0, <1>1, EdgesByTasks DEF DrainTypeOK
<1>2. CASE EmbedRun
  BY <1>0, <1>2, RunsStay DEF EdgesFollow
<1>3. ASSUME NEW w \in Drains, NEW t \in TaskNames, Deliver(w, t) PROVE EdgesFollow'
  <2>1. {t} \in SUBSET TaskNames /\ w \in Workers /\ job' = StartJob(w, {t})
        /\ UNCHANGED <<written, rows, edges, runs, failures>> /\ ~inFlight
    BY <1>3, DrainsWork DEF Deliver
  <2>2. Others(w) /\ job'[w].pc = "select"
    BY <1>0, <2>1, JobStarts
  <2>3. \A d \in Drains : job[d].pc = "idle"
    BY <1>0, <2>1 DEF OneDrain
  <2>4. \A d \in Drains : NothingNew(d) /\ job'[d].pc # "derive"
    BY <2>2, <2>3, DrainsWork DEF NothingNew, Others
  <2>5. Embedded' = Embedded
    BY <1>0, <2>1, EmbeddedStays
  <2> QED BY <2>1, <2>4, <2>5 DEF EdgesFollow, EdgesCurrent
<1>4. ASSUME NEW w \in Workers, Select(w) PROVE EdgesFollow'
  <2>1. /\ job[w].pc = "select" /\ Others(w)
        /\ job'[w].pc \in {"embed", "idle", "delete"}
        /\ job'[w].pc = "embed" => job'[w].total = job[w].total
        /\ job'[w].pc = "idle" => job[w].total = 0
    BY <1>0, <1>4, SelectMoves DEF Select
  <2>2. NothingNew(w)' => NothingNew(w)
    BY <2>1 DEF NothingNew
  <2> QED BY <1>0, <1>4, <2>1, <2>2, EdgesByJob DEF Select
<1>5. ASSUME NEW w \in Workers, EmbedTexts(w) PROVE EdgesFollow'
  <2>1. /\ job[w].pc = "embed" /\ Others(w)
        /\ job'[w].pc = "insert" /\ job'[w].total = job[w].total
    BY <1>0, <1>5, EmbedMoves DEF EmbedTexts
  <2>2. NothingNew(w)' => NothingNew(w)
    BY <2>1 DEF NothingNew
  <2> QED BY <1>0, <1>5, <2>1, <2>2, EdgesByJob DEF EmbedTexts
<1>6. ASSUME NEW w \in Workers, InsertVector(w) PROVE EdgesFollow'
  <2>1. job[w].pc = "insert" /\ Others(w) /\ job'[w].total = job[w].total
    BY <1>0, <1>6, InsertMoves DEF InsertVector
  <2>2. CASE rows' = rows /\ job'[w].pc = "count" /\ job'[w].got = job[w].got
    <3>1. NothingNew(w)' => NothingNew(w)
      BY <2>1, <2>2 DEF NothingNew
    <3> QED BY <1>0, <1>6, <2>1, <2>2, <3>1, EdgesByJob DEF InsertVector
  <2>3. CASE job'[w].pc = "insert" /\ job'[w].got = job[w].got + 1
    <3> SUFFICES ASSUME runs' = 0 PROVE EdgesFollow'
      BY DEF EdgesFollow
    <3>1. runs = 0
      BY <1>6 DEF InsertVector
    <3>2. w \in Drains /\ \A d \in Drains : job'[d].pc # "derive"
      BY <1>0, <2>1, <2>3, <3>1, SoleDrain DEF Others
    <3>3. job'[w].got # 0
      BY <1>0, <2>3, JobFields
    <3>4. ~NothingNew(w)'
      BY <2>3, <3>3 DEF NothingNew
    <3> QED BY <3>2, <3>4 DEF EdgesFollow
  <2> QED BY <1>0, <1>6, <2>2, <2>3, InsertMoves
<1>7. ASSUME NEW w \in Workers, CountRemaining(w) PROVE EdgesFollow'
  <2>1. /\ job[w].pc = "count" /\ Others(w)
        /\ job'[w].pc \in {"select", "idle", "delete"}
        /\ job'[w].pc = "select" => job'[w].total > 0
        /\ job'[w].pc = "idle" => job[w].total = 0 /\ job[w].got = 0
    BY <1>0, <1>7, CountMoves DEF CountRemaining
  <2>2. NothingNew(w)' => NothingNew(w)
    BY <2>1 DEF NothingNew
  <2> QED BY <1>0, <1>7, <2>1, <2>2, EdgesByJob DEF CountRemaining
<1>8. ASSUME NEW w \in Workers, DeleteEdges(w) PROVE EdgesFollow'
  <2> SUFFICES ASSUME runs' = 0 PROVE EdgesFollow'
    BY DEF EdgesFollow
  <2>1. runs = 0 /\ job[w].pc # "idle" /\ edges' = [n \in Nodes |-> 0]
    BY <1>8 DEF DeleteEdges
  <2>2. w \in Drains /\ job'[w].pc = "derive"
    BY <1>0, <1>8, <2>1, SoleDrain, DeleteMoves
  <2>3. ~NothingNew(w)'
    BY <2>2 DEF NothingNew
  <2> QED BY <2>1, <2>2, <2>3 DEF EdgesFollow
<1>9. ASSUME NEW w \in Workers, DeriveEdges(w) PROVE EdgesFollow'
  <2> SUFFICES ASSUME failures' = 0, runs' = 0 PROVE EdgesFollow'
    BY DEF EdgesFollow
  <2>1. failures = 0 /\ runs = 0 /\ job[w].pc = "derive" /\ rows' = rows /\ written' = written
    BY <1>9 DEF DeriveEdges
  <2>2. w \in Drains /\ \A d \in Drains : job'[d].pc # "derive"
    BY <1>0, <1>9, <2>1, SoleDrain, JobFinishes DEF DeriveEdges, Others
  <2>3. \A n \in Nodes : edges[n] = 0
    BY <2>1, <2>2 DEF EdgesFollow
  <2>4. \A n \in Nodes : edges'[n] = IF n \in Embedded THEN 1 ELSE 0
    BY <1>9, <2>3 DEF DeriveEdges
  <2>5. Embedded' = Embedded
    BY <1>0, <2>1, EmbeddedStays
  <2> QED BY <2>2, <2>4, <2>5 DEF EdgesFollow, EdgesCurrent
<1>10. ASSUME NEW w \in Workers, JobFails(w) PROVE EdgesFollow'
  <2>1. failures' # 0
    BY <1>0, <1>10 DEF JobFails, DrainTypeOK
  <2> QED BY <2>1 DEF EdgesFollow
<1>11. CASE \/ Write \/ Backstop \/ Tick \/ UNCHANGED drainVars
            \/ \E n \in Nodes : EnqueueEmbedDrain(n) \/ EnqueueLost(n)
            \/ \E t \in TaskNames : DeliverSkipped(t)
  <2>1. UNCHANGED <<job, rows, edges, runs>>
    BY <1>11 DEF drainVars, Write, EnqueueEmbedDrain, EnqueueLost, Backstop, Tick, DeliverSkipped
  <2>2. written \subseteq written'
    BY <1>11 DEF drainVars, Write, EnqueueEmbedDrain, EnqueueLost, Backstop, Tick, DeliverSkipped
  <2>3. failures' = failures \/ failures' = failures + 1
    BY <1>11 DEF drainVars, Write, EnqueueEmbedDrain, EnqueueLost, Backstop, Tick, DeliverSkipped
  <2> QED BY <1>1, <2>1, <2>2, <2>3
<1>12. \/ Write \/ Backstop \/ Tick \/ UNCHANGED drainVars
       \/ \E n \in Nodes : EnqueueEmbedDrain(n) \/ EnqueueLost(n)
       \/ \E t \in TaskNames : DeliverSkipped(t)
       \/ EmbedRun \/ \E w \in Drains, t \in TaskNames : Deliver(w, t)
       \/ \E w \in Workers : \/ Select(w) \/ EmbedTexts(w) \/ InsertVector(w)
                             \/ CountRemaining(w) \/ DeleteEdges(w) \/ DeriveEdges(w)
                             \/ JobFails(w)
  BY DEF DrainNext
<1>13. ASSUME NEW w \in Workers, \/ Select(w) \/ EmbedTexts(w) \/ InsertVector(w)
                             \/ CountRemaining(w) \/ DeleteEdges(w) \/ DeriveEdges(w)
                             \/ JobFails(w)
       PROVE EdgesFollow'
  BY <1>13, <1>4, <1>5, <1>6, <1>7, <1>8, <1>9, <1>10
<1> QED BY <1>2, <1>3, <1>11, <1>12, <1>13

-----------------------------------------------------------------------------
(* No pending node is forgotten.                                           *)
LEMMA QueuedByTasks ==
    ASSUME NotDueIsQueued, now' = now, used' = used, tasks \subseteq tasks'
    PROVE  NotDueIsQueued'
BY DEF NotDueIsQueued, Due, Window

LEMMA QueuedByCreate ==
    ASSUME NotDueIsQueued, NEW kind, CreateTask(kind), now' = now
    PROVE  NotDueIsQueued' /\ (~Due(TaskNow(kind)) => TaskNow(kind) \in tasks')
BY DEF NotDueIsQueued, CreateTask, Due, Window

LEMMA QueuedByDelivery ==
    ASSUME NotDueIsQueued, NEW t, Due(t), tasks' = tasks \ {t}, used' = used, now' = now
    PROVE  NotDueIsQueued'
BY DEF NotDueIsQueued, Due, Window

LEMMA QueuedNext ==
    ASSUME EmbedDrainAssumption, Shape, NotDueIsQueued, [DrainNext]_drainVars
    PROVE  NotDueIsQueued'
<1>0. DrainTypeOK
  BY DEF Shape
<1>1. CASE Tick
  <2>1. used \subseteq TaskNames
    BY <1>0 DEF DrainTypeOK
  <2> QED BY <1>0, <1>1, <2>1, DueStays DEF Tick, NotDueIsQueued
<1>2. CASE Backstop
  BY <1>2, QueuedByCreate DEF Backstop
<1>3. ASSUME NEW n \in Nodes, EnqueueEmbedDrain(n) PROVE NotDueIsQueued'
  BY <1>3, QueuedByCreate DEF EnqueueEmbedDrain
<1>4. ASSUME NEW t \in TaskNames, DeliverSkipped(t) PROVE NotDueIsQueued'
  BY <1>4, QueuedByDelivery DEF DeliverSkipped
<1>5. ASSUME NEW w \in Drains, NEW t \in TaskNames, Deliver(w, t) PROVE NotDueIsQueued'
  BY <1>5, QueuedByDelivery DEF Deliver
<1>6. CASE UNCHANGED <<now, tasks, used>>
  BY <1>6, QueuedByTasks
<1>7. ASSUME NEW w \in Workers, JobFails(w) PROVE NotDueIsQueued'
  BY <1>7, QueuedByTasks DEF JobFails
<1> QED BY <1>1, <1>2, <1>3, <1>4, <1>5, <1>6, <1>7
        DEF DrainNext, drainVars, Write, EnqueueLost, EmbedRun, Select, EmbedTexts,
            InsertVector, CountRemaining, DeleteEdges, DeriveEdges

(* More nodes are embedded, and the job of the drain has not moved.        *)
LEMMA RoundsStay ==
    ASSUME EmbedDrainAssumption, DrainTypeOK, Embedded \subseteq Embedded',
           Embedded' \subseteq Nodes, NEW d \in Drains, RoundsCount(d), job'[d] = job[d]
    PROVE  RoundsCount(d)'
<1> DEFINE before == Embedded \ job[d].batch
           after == Embedded' \ job[d].batch
<1>1. /\ Cardinality(Embedded) \in Nat /\ Cardinality(Embedded') \in Nat
      /\ Cardinality(Embedded) <= Cardinality(Embedded')
  BY NodeSets, MoreNodes
<1>2. /\ Cardinality(before) \in Nat /\ Cardinality(after) \in Nat
      /\ Cardinality(before) <= Cardinality(after)
  <2>1. before \in SUBSET after /\ after \in SUBSET Nodes
    OBVIOUS
  <2> HIDE DEF before, after
  <2> QED BY <2>1, NodeSets, MoreNodes
<1>3. job[d].round \in Nat
  BY JobFields, DrainsWork
<1>4. /\ before = Embedded \ job[d].batch
      /\ after = (Embedded \ job[d].batch)'
  OBVIOUS
<1> HIDE DEF before, after
<1> QED BY <1>1, <1>2, <1>3, <1>4 DEF RoundsCount

LEMMA EmbeddedGrows ==
    ASSUME EmbedDrainAssumption, Shape, Shape', [DrainNext]_drainVars
    PROVE  Embedded \subseteq Embedded' /\ Embedded' \subseteq Nodes
<1>0. DrainTypeOK /\ DrainTypeOK' /\ BatchesFit
  BY DEF Shape
<1>1. Embedded' \subseteq Nodes
  BY <1>0 DEF Embedded, DrainTypeOK
<1>2. CASE rows' = rows /\ written \subseteq written'
  BY <1>0, <1>1, <1>2, EmbeddedStays
<1>3. ASSUME NEW w \in Workers, InsertVector(w) PROVE Embedded \subseteq Embedded'
  <2>1. \A n \in Nodes : rows'[n] >= rows[n]
    <3>1. rows' = rows \/ \E n \in Nodes : rows' = [rows EXCEPT ![n] = rows[n] + 1]
      BY <1>0, <1>3, InsertMoves
    <3> QED BY <1>0, <3>1 DEF DrainTypeOK
  <2>2. \A n \in Nodes : rows[n] \in Nat /\ rows'[n] \in Nat
    BY <1>0 DEF DrainTypeOK
  <2>3. written' = written /\ written \subseteq Nodes
    BY <1>0, <1>3 DEF InsertVector, DrainTypeOK
  <2>4. \A n \in Nodes : rows[n] > 0 => rows'[n] > 0
    BY <2>1, <2>2
  <2> QED BY <2>3, <2>4 DEF Embedded
<1> QED BY <1>1, <1>2, <1>3
        DEF DrainNext, drainVars, Write, EnqueueEmbedDrain, EnqueueLost, Backstop, Tick,
            Deliver, DeliverSkipped, EmbedRun, Select, EmbedTexts, CountRemaining,
            DeleteEdges, DeriveEdges, JobFails

LEMMA RoundsByOthers ==
    ASSUME EmbedDrainAssumption, DrainTypeOK, Embedded \subseteq Embedded',
           Embedded' \subseteq Nodes, \A d \in Drains : RoundsCount(d),
           NEW w \in Workers, Others(w), w \in Drains => RoundsCount(w)'
    PROVE  \A d \in Drains : RoundsCount(d)'
<1> SUFFICES ASSUME NEW d \in Drains, d # w PROVE RoundsCount(d)'
  OBVIOUS
<1>1. job'[d] = job[d]
  BY DrainsWork DEF Others
<1> QED BY <1>1, RoundsStay

LEMMA RoundsNext ==
    ASSUME EmbedDrainAssumption, Shape, Shape', \A d \in Drains : RoundsCount(d),
           [DrainNext]_drainVars
    PROVE  \A d \in Drains : RoundsCount(d)'
<1>0. DrainTypeOK /\ BatchesFit /\ Embedded \subseteq Embedded' /\ Embedded' \subseteq Nodes
  BY EmbeddedGrows DEF Shape
<1>1. Embedded \subseteq Nodes
  BY <1>0
<1>2. Cardinality(Embedded) \in Nat /\ Cardinality(Embedded') \in Nat
  BY <1>0, <1>1, NodeSets
<1>3. CASE job' = job
  BY <1>0, <1>3, RoundsStay
<1>4. CASE EmbedRun
  <2>1. Owner \in Workers /\ job' = StartJob(Owner, {}) /\ {} \in SUBSET TaskNames
    BY <1>4 DEF EmbedRun, Workers
  <2>2. Others(Owner) /\ Owner \notin Drains
    BY <1>0, <2>1, JobStarts DEF EmbedDrainAssumption
  <2> QED BY <1>0, <2>1, <2>2, RoundsByOthers
<1>5. ASSUME NEW w \in Drains, NEW t \in TaskNames, Deliver(w, t)
      PROVE  \A d \in Drains : RoundsCount(d)'
  <2>1. w \in Workers /\ job' = StartJob(w, {t}) /\ {t} \in SUBSET TaskNames
    BY <1>5, DrainsWork DEF Deliver
  <2>2. Others(w) /\ job'[w].pc = "select" /\ job'[w].round = 1
    BY <1>0, <2>1, JobStarts
  <2>3. 1 <= Cardinality(Embedded') + 1
    BY <1>2
  <2>4. RoundsCount(w)'
    BY <2>2, <2>3 DEF RoundsCount
  <2> QED BY <1>0, <2>1, <2>2, <2>4, RoundsByOthers
<1>6. ASSUME NEW w \in Workers, Select(w) PROVE \A d \in Drains : RoundsCount(d)'
  <2>1. Others(w) /\ Embedded' = Embedded
    BY <1>0, <1>6, SelectMoves, EmbeddedStays DEF Select, Shape
  <2>2. CASE job'[w].pc \in {"idle", "delete"}
    <3>1. RoundsCount(w)'
      BY <2>2 DEF RoundsCount
    <3> QED BY <1>0, <2>1, <3>1, RoundsByOthers
  <2>3. CASE /\ job'[w].pc = "embed" /\ job'[w].batch = FirstPending
             /\ job'[w].got = 0 /\ job'[w].round = job[w].round
    <3>1. Embedded \ FirstPending = Embedded
      BY <1>0, BatchType DEF Pending, Embedded
    <3>2. w \in Drains => job[w].round <= Cardinality(Embedded) + 1
      BY <1>6 DEF RoundsCount, Select
    <3>3. w \in Drains => RoundsCount(w)'
      BY <2>1, <2>3, <3>1, <3>2 DEF RoundsCount
    <3> QED BY <1>0, <2>1, <3>3, RoundsByOthers
  <2> QED BY <1>0, <1>6, <2>2, <2>3, SelectMoves
<1>7. ASSUME NEW w \in Workers, EmbedTexts(w) PROVE \A d \in Drains : RoundsCount(d)'
  <2>1. /\ Others(w) /\ job[w].pc = "embed" /\ job'[w].pc = "insert"
        /\ job'[w].batch = job[w].batch \ BadVector
        /\ job'[w].got = job[w].got /\ job'[w].round = job[w].round
    BY <1>0, <1>7, EmbedMoves DEF EmbedTexts
  <2>2. Embedded' = Embedded
    BY <1>0, <1>7, EmbeddedStays DEF EmbedTexts, Shape
  <2>3. ASSUME w \in Drains PROVE RoundsCount(w)'
    <3>1. job'[w].got = 0 /\ job[w].round <= Cardinality(Embedded \ job[w].batch) + 1
      BY <2>1, <2>3 DEF RoundsCount
    <3> DEFINE before == Embedded \ job[w].batch
               after == Embedded \ job'[w].batch
    <3>2. before \in SUBSET after /\ after \in SUBSET Nodes /\ before \in SUBSET Nodes
      BY <1>1, <2>1
    <3>3. Cardinality(before) <= Cardinality(after)
          /\ Cardinality(before) \in Nat /\ Cardinality(after) \in Nat
      <4> HIDE DEF before, after
      <4> QED BY <3>2, NodeSets, MoreNodes
    <3>4. job'[w].round <= Cardinality(after) + 1
      BY <2>1, <3>1, <3>3, JobFields, <1>0
    <3> QED BY <2>1, <2>2, <3>1, <3>4 DEF RoundsCount
  <2> QED BY <1>0, <2>1, <2>3, RoundsByOthers
<1>8. ASSUME NEW w \in Workers, InsertVector(w) PROVE \A d \in Drains : RoundsCount(d)'
  <2>1. Others(w) /\ job[w].pc = "insert" /\ job'[w].round = job[w].round
        /\ written' = written
    BY <1>0, <1>8, InsertMoves DEF InsertVector
  <2>2. job[w].round \in Nat /\ job[w].got \in Nat /\ job[w].batch \subseteq Nodes
    BY <1>0, JobFields
  <2>3. ASSUME w \in Drains, job[w].got > 0 PROVE job[w].round <= Cardinality(Embedded')
    <3>1. job[w].round <= Cardinality(Embedded)
      BY <2>1, <2>3 DEF RoundsCount
    <3>2. Cardinality(Embedded) <= Cardinality(Embedded')
      BY <1>0, MoreNodes
    <3> QED BY <1>2, <2>2, <3>1, <3>2
  <2>4. CASE job'[w].pc = "count" /\ job'[w].got = job[w].got
    <3>1. w \in Drains => RoundsCount(w)'
      BY <2>1, <2>3, <2>4 DEF RoundsCount
    <3> QED BY <1>0, <2>1, <3>1, RoundsByOthers
  <2>5. ASSUME NEW n \in job[w].batch, n \in Nodes, rows' = [rows EXCEPT ![n] = rows[n] + 1],
               job'[w].pc = "insert", job'[w].got = job[w].got + 1, w \in Drains
        PROVE  RoundsCount(w)'
    <3>1. CASE job[w].got = 0
      <4> DEFINE before == Embedded \ job[w].batch
      <4>1. job[w].round <= Cardinality(before) + 1
        BY <2>1, <2>5, <3>1 DEF RoundsCount
      <4>2. before \in SUBSET Nodes /\ n \notin before /\ before \in SUBSET Embedded
        BY <1>1
      <4>3. n \in Embedded'
        <5>1. n \in written /\ rows'[n] > 0
          BY <1>0, <2>1, <2>5 DEF BatchesFit, DrainTypeOK
        <5> QED BY <2>1, <5>1 DEF Embedded
      <4> HIDE DEF before
      <4>4. Cardinality(before) \in Nat /\ Cardinality(before \cup {n}) = Cardinality(before) + 1
        BY <4>2, NodeSets, FS_AddElement
      <4>5. Cardinality(before \cup {n}) <= Cardinality(Embedded')
        <5>1. before \cup {n} \in SUBSET Embedded'
          BY <1>0, <4>2, <4>3
        <5> QED BY <1>0, <5>1, MoreNodes
      <4>6. job[w].round <= Cardinality(Embedded')
        BY <1>2, <2>2, <4>1, <4>4, <4>5
      <4> QED BY <2>1, <2>2, <2>5, <3>1, <4>6 DEF RoundsCount
    <3>2. CASE job[w].got # 0
      <4>1. job[w].round <= Cardinality(Embedded') /\ job'[w].got > 0
        BY <2>2, <2>3, <2>5, <3>2
      <4> QED BY <2>1, <2>5, <4>1 DEF RoundsCount
    <3> QED BY <3>1, <3>2
  <2> QED BY <1>0, <1>8, <2>1, <2>4, <2>5, InsertMoves, RoundsByOthers
<1>9. ASSUME NEW w \in Workers, CountRemaining(w) PROVE \A d \in Drains : RoundsCount(d)'
  <2>1. Others(w) /\ job[w].pc = "count" /\ Embedded' = Embedded
    BY <1>0, <1>9, CountMoves, EmbeddedStays DEF CountRemaining, Shape
  <2>2. CASE job'[w].pc \in {"idle", "delete"}
    <3>1. RoundsCount(w)'
      BY <2>2 DEF RoundsCount
    <3> QED BY <1>0, <2>1, <3>1, RoundsByOthers
  <2>3. CASE job[w].got > 0 /\ job'[w].pc = "select" /\ job'[w].round = job[w].round + 1
    <3>1. w \in Drains => job[w].round <= Cardinality(Embedded)
      BY <2>1, <2>3 DEF RoundsCount
    <3>2. job[w].round \in Nat
      BY <1>0, JobFields
    <3>3. w \in Drains => job'[w].round <= Cardinality(Embedded') + 1
      BY <1>2, <2>1, <2>3, <3>1, <3>2
    <3>4. w \in Drains => RoundsCount(w)'
      BY <2>3, <3>3 DEF RoundsCount
    <3> QED BY <1>0, <2>1, <3>4, RoundsByOthers
  <2> QED BY <1>0, <1>9, <2>2, <2>3, CountMoves
<1>10. ASSUME NEW w \in Workers, DeleteEdges(w) \/ DeriveEdges(w) \/ JobFails(w)
       PROVE  \A d \in Drains : RoundsCount(d)'
  <2>1. Others(w) /\ job'[w].pc \in {"derive", "idle"}
    BY <1>0, <1>10, DeleteMoves, JobFinishes DEF DeriveEdges, JobFails
  <2>2. RoundsCount(w)'
    BY <2>1 DEF RoundsCount
  <2> QED BY <1>0, <2>1, <2>2, RoundsByOthers
<1> QED BY <1>3, <1>4, <1>5, <1>6, <1>7, <1>8, <1>9, <1>10
        DEF DrainNext, drainVars, Write, EnqueueEmbedDrain, EnqueueLost, Backstop, Tick,
            DeliverSkipped

Ahead == Expected \subseteq unqueued \/ tasks # {} \/ \E d \in Drains : Carrying(d)

(* A request moves on, and a drain that carried the nodes still does or    *)
(* has left none of them behind.                                           *)
LEMMA AheadByJob ==
    ASSUME EmbedDrainAssumption, Ahead, NEW w \in Workers, Others(w),
           Expected' \subseteq Expected, unqueued' = unqueued, tasks \subseteq tasks',
           w \in Drains /\ Carrying(w) => Carrying(w)' \/ Expected' = {}
    PROVE  Ahead'
<1>1. ASSUME NEW d \in Drains, Carrying(d), d # w PROVE Carrying(d)'
  BY <1>1, DrainsWork DEF Others, Carrying
<1> QED BY <1>1 DEF Ahead

LEMMA AheadByTasks ==
    ASSUME Ahead, job' = job, tasks \subseteq tasks',
           Expected \subseteq unqueued => Expected' \subseteq unqueued'
    PROVE  Ahead'
BY DEF Ahead, Carrying

LEMMA ExpectedStays ==
    ASSUME UNCHANGED <<written, rows, lost, skipped>>
    PROVE  Pending' = Pending /\ Expected' = Expected
BY DEF Expected, Pending

(* Out of rounds, every node has been embedded.                            *)
LEMMA RoundsSuffice ==
    ASSUME EmbedDrainAssumption, DrainTypeOK, MaxNode <= MaxRounds,
           MaxRounds <= Cardinality(Embedded)
    PROVE  Pending = {}
<1>1. Embedded \in SUBSET Nodes
  BY DEF Embedded, DrainTypeOK
<1>2. Cardinality(Embedded) <= MaxNode /\ Cardinality(Embedded) \in Nat
  BY <1>1, NodeSets
<1>3. IsFiniteSet(Nodes) /\ Cardinality(Nodes) = MaxNode
  <2>1. MaxNode \in Nat
    BY DEF EmbedDrainAssumption
  <2> QED BY <2>1, FS_Interval DEF Nodes
<1>4. Cardinality(Nodes) = Cardinality(Embedded)
  BY <1>2, <1>3 DEF EmbedDrainAssumption
<1>5. Nodes = Embedded
  BY <1>1, <1>3, <1>4, FS_Subset
<1>6. \A n \in written : n \in Nodes /\ rows[n] > 0
  BY <1>5 DEF Embedded, DrainTypeOK
<1> QED BY <1>6 DEF Pending

LEMMA AheadNext ==
    ASSUME EmbedDrainAssumption, BacklogFits, Shape, \A d \in Drains : RoundsCount(d),
           NotDueIsQueued, Ahead, [DrainNext]_drainVars
    PROVE  Ahead'
<1>0. DrainTypeOK /\ OneDrain /\ BatchesFit
  BY DEF Shape
<1>1. CASE Write
  <2>1. PICK n \in Nodes : written' = written \cup {n} /\ unqueued' = unqueued \cup {n}
    BY <1>1 DEF Write
  <2>2. Expected' \subseteq Expected \cup {n}
    BY <1>1, <2>1 DEF Write, Expected, Pending
  <2> QED BY <1>1, <2>1, <2>2, AheadByTasks DEF Write
<1>2. CASE Backstop
  BY <1>2, ExpectedStays, AheadByTasks DEF Backstop, CreateTask
<1>3. CASE Tick \/ UNCHANGED drainVars
  BY <1>3, ExpectedStays, AheadByTasks DEF Tick, drainVars
<1>4. ASSUME NEW n \in Nodes, EnqueueEmbedDrain(n) PROVE Ahead'
  <2>1. TaskNow("write") \in tasks'
    BY <1>0, <1>4, QueuedByCreate, TaskNowQueued DEF EnqueueEmbedDrain
  <2> QED BY <2>1 DEF Ahead
<1>5. ASSUME NEW n \in Nodes, EnqueueLost(n) PROVE Ahead'
  <2>1. Expected' = Expected \ {n} /\ unqueued' = unqueued \ {n}
    BY <1>5 DEF EnqueueLost, Expected, Pending
  <2> QED BY <1>5, <2>1, AheadByTasks DEF EnqueueLost
<1>6. ASSUME NEW t \in TaskNames, DeliverSkipped(t) PROVE Ahead'
  <2>1. Expected' = {}
    BY <1>6 DEF DeliverSkipped, Expected, Pending
  <2> QED BY <2>1 DEF Ahead
<1>7. ASSUME NEW w \in Drains, NEW t \in TaskNames, Deliver(w, t) PROVE Ahead'
  <2>1. w \in Workers /\ job' = StartJob(w, {t}) /\ {t} \in SUBSET TaskNames
    BY <1>7, DrainsWork DEF Deliver
  <2>2. job'[w].pc = "select"
    BY <1>0, <2>1, JobStarts
  <2> QED BY <2>2 DEF Ahead, Carrying
<1>8. CASE EmbedRun
  <2>1. Owner \in Workers /\ job' = StartJob(Owner, {}) /\ {} \in SUBSET TaskNames
    BY <1>8 DEF EmbedRun, Workers
  <2>2. Others(Owner) /\ Owner \notin Drains
    BY <1>0, <2>1, JobStarts DEF EmbedDrainAssumption
  <2> QED BY <1>8, <2>1, <2>2, ExpectedStays, AheadByJob DEF EmbedRun
<1>9. ASSUME NEW w \in Workers, Select(w) PROVE Ahead'
  <2>1. Others(w) /\ Expected' = Expected
    BY <1>0, <1>9, SelectMoves, ExpectedStays DEF Select
  <2>2. CASE Expected = {}
    BY <2>1, <2>2 DEF Ahead
  <2>3. CASE Expected # {}
    <3>1. Pending \ BadVector # {}
      BY <2>3 DEF Expected
    <3>2. FirstPending \ BadVector # {}
      BY <1>0, <3>1, GoodNodeSelected DEF BacklogFits
    <3>3. job'[w].pc = "embed" /\ job'[w].batch = FirstPending
      BY <1>0, <1>9, <3>1, SelectMoves
    <3>4. Carrying(w)'
      BY <3>2, <3>3 DEF Carrying
    <3> QED BY <1>9, <2>1, <3>4, AheadByJob DEF Select
  <2> QED BY <2>2, <2>3
<1>10. ASSUME NEW w \in Workers, EmbedTexts(w) PROVE Ahead'
  <2>1. /\ Others(w) /\ Expected' = Expected /\ job[w].pc = "embed"
        /\ job'[w].pc = "insert" /\ job'[w].batch = job[w].batch \ BadVector
    BY <1>0, <1>10, EmbedMoves, ExpectedStays DEF EmbedTexts
  <2>2. Carrying(w) => Carrying(w)'
    BY <2>1 DEF Carrying
  <2> QED BY <1>10, <2>1, <2>2, AheadByJob DEF EmbedTexts
<1>11. ASSUME NEW w \in Workers, InsertVector(w) PROVE Ahead'
  <2>1. Others(w) /\ job[w].pc = "insert" /\ job[w].got \in Nat
    BY <1>0, <1>11, InsertMoves, JobFields DEF InsertVector
  <2>2. Expected' \subseteq Expected
    <3>1. rows' = rows \/ \E n \in Nodes : rows' = [rows EXCEPT ![n] = rows[n] + 1]
      BY <1>0, <1>11, InsertMoves
    <3>2. \A n \in Nodes : rows'[n] = 0 => rows[n] = 0
      BY <1>0, <3>1 DEF DrainTypeOK
    <3>3. Pending' \subseteq Pending
      BY <1>0, <1>11, <3>2 DEF Pending, InsertVector, DrainTypeOK
    <3> QED BY <1>11, <3>3 DEF Expected, InsertVector
  <2>3. Carrying(w) => Carrying(w)'
    <3>1. CASE job'[w].pc = "insert" /\ job'[w].got = job[w].got + 1
      <4>1. job'[w].got > 0
        BY <2>1, <3>1
      <4> QED BY <3>1, <4>1 DEF Carrying
    <3>2. CASE job[w].batch = {} /\ job'[w].pc = "count" /\ job'[w].got = job[w].got
      BY <2>1, <3>2 DEF Carrying
    <3> QED BY <1>0, <1>11, <3>1, <3>2, InsertMoves
  <2> QED BY <1>11, <2>1, <2>2, <2>3, AheadByJob DEF InsertVector
<1>12. ASSUME NEW w \in Workers, CountRemaining(w) PROVE Ahead'
  <2>1. Others(w) /\ job[w].pc = "count" /\ Expected' = Expected
    BY <1>0, <1>12, CountMoves, ExpectedStays DEF CountRemaining
  <2>2. w \in Drains /\ Carrying(w) => Carrying(w)' \/ Expected' = {}
    <3> SUFFICES ASSUME w \in Drains, job[w].got > 0, ~(job'[w].pc = "select")
                 PROVE  Expected' = {}
      BY <2>1 DEF Carrying
    <3>1. Pending = {} \/ job[w].got = 0 \/ job[w].round = MaxRounds
      BY <1>0, <1>12, CountMoves
    <3>2. job[w].round <= Cardinality(Embedded)
      BY <2>1 DEF RoundsCount
    <3>3. job[w].got # 0
      OBVIOUS
    <3>4. Pending = {}
      BY <1>0, <3>1, <3>2, <3>3, RoundsSuffice DEF BacklogFits
    <3> QED BY <2>1, <3>4 DEF Expected
  <2> QED BY <1>12, <2>1, <2>2, AheadByJob DEF CountRemaining
<1>13. ASSUME NEW w \in Workers, DeleteEdges(w) \/ DeriveEdges(w) PROVE Ahead'
  <2>1. Others(w) /\ job[w].pc \in {"delete", "derive"} /\ Expected' = Expected
    BY <1>0, <1>13, DeleteMoves, JobFinishes, ExpectedStays DEF DeleteEdges, DeriveEdges
  <2>2. ~Carrying(w)
    BY <2>1 DEF Carrying
  <2> QED BY <1>13, <2>1, <2>2, AheadByJob DEF DeleteEdges, DeriveEdges
<1>14. ASSUME NEW w \in Workers, JobFails(w) PROVE Ahead'
  <2>1. Others(w) /\ Expected' = Expected /\ tasks' = tasks \cup job[w].task
    BY <1>0, <1>14, JobFinishes, ExpectedStays DEF JobFails
  <2>2. CASE w \in Drains
    <3>1. job[w].task # {}
      BY <1>0, <1>14, <2>2 DEF OneDrain, JobFails
    <3> QED BY <2>1, <3>1 DEF Ahead
  <2>3. CASE w \notin Drains
    BY <1>14, <2>1, <2>3, AheadByJob DEF JobFails
  <2> QED BY <2>2, <2>3
<1> QED BY <1>1, <1>2, <1>3, <1>4, <1>5, <1>6, <1>7, <1>8, <1>9, <1>10, <1>11, <1>12,
           <1>13, <1>14
        DEF DrainNext

LEMMA DrainBegins == EmbedDrainAssumption /\ DrainInit => DrainInv
<1> SUFFICES ASSUME EmbedDrainAssumption, DrainInit PROVE DrainInv
  OBVIOUS
<1>1. /\ NoJob \in JobType /\ NoJob.pc = "idle" /\ NoJob.task = {}
      /\ \A w \in Workers : job[w] = NoJob
  BY DEF DrainInit, NoJob, JobType, EmbedDrainAssumption
<1>2. DrainTypeOK
  <2>1. job \in [Workers -> JobType]
    BY <1>1 DEF DrainInit
  <2>2. now \in 0..MaxTime /\ runs \in 0..OwnerRuns /\ failures \in 0..MaxFailures
    BY DEF DrainInit, EmbedDrainAssumption
  <2>3. inFlight \in BOOLEAN
    BY DEF DrainInit
  <2> QED BY <2>1, <2>2, <2>3 DEF DrainInit, DrainTypeOK
<1>3. \A d \in Drains : job[d].pc = "idle"
  BY <1>1, DrainsWork
<1>4. OneDrain
  BY <1>1, <1>3 DEF OneDrain, Workers
<1>5. BatchesFit /\ NoRowTwice /\ EdgesFollow
  <2>1. \A n \in Nodes : rows[n] = 0 /\ edges[n] = 0
    BY DEF DrainInit
  <2>2. Embedded = {}
    BY DEF DrainInit, Embedded
  <2> QED BY <1>1, <1>3, <2>1, <2>2 DEF BatchesFit, NoRowTwice, EdgesFollow, EdgesCurrent
<1>6. NotDueIsQueued /\ \A d \in Drains : RoundsCount(d)
  BY <1>3 DEF NotDueIsQueued, RoundsCount, DrainInit
<1>7. Carried
  BY DEF Carried, Expected, Pending, DrainInit
<1> QED BY <1>2, <1>4, <1>5, <1>6, <1>7 DEF DrainInv

LEMMA DrainStays == EmbedDrainAssumption /\ DrainInv /\ [DrainNext]_drainVars => DrainInv'
<1> SUFFICES ASSUME EmbedDrainAssumption, DrainInv, [DrainNext]_drainVars PROVE DrainInv'
  OBVIOUS
<1>1. Shape /\ NoRowTwice /\ EdgesFollow /\ NotDueIsQueued /\ Carried
      /\ \A d \in Drains : RoundsCount(d)
  BY DEF DrainInv, Shape
<1>2. Shape'
  <2>1. CASE UNCHANGED drainVars
    BY <1>1, <2>1 DEF drainVars, Shape, DrainTypeOK, OneDrain, BatchesFit
  <2>2. CASE DrainNext
    BY <1>1, <2>2, ShapeByWriter, ShapeByStart, ShapeByJob DEF DrainNext
  <2> QED BY <2>1, <2>2
<1>3. NoRowTwice' /\ EdgesFollow' /\ NotDueIsQueued' /\ \A d \in Drains : RoundsCount(d)'
  BY <1>1, <1>2, RowsNext, EdgesNext, QueuedNext, RoundsNext
<1>4. Carried'
  BY <1>1, AheadNext DEF Carried, Ahead, BacklogFits
<1> QED BY <1>2, <1>3, <1>4 DEF DrainInv, Shape

LEMMA DrainInvariant == DrainSpec => []DrainInv
BY EmbedDrainAssumption, DrainBegins, DrainStays, PTL DEF DrainSpec

(* Every variable of the board, the queue and the handlers keeps its type, *)
(* for any number of nodes, handlers and rounds; a task that waits has     *)
(* been created.                                                           *)
THEOREM DrainTypesKept == DrainSpec => []DrainTypeOK
<1>1. DrainInv => DrainTypeOK
  BY DEF DrainInv
<1> QED BY <1>1, DrainInvariant, PTL

(* OnlyKnownLosses, for any set of handlers and any board whose backlog    *)
(* fits: at rest a written node has its vector, or its enqueue was lost,   *)
(* its task was answered as redundant, or its vector has the wrong length  *)
(* (enqueueEmbedDrain, qb-drain's guard and its rounds).                   *)
THEOREM LossesAreKnown == DrainSpec => []OnlyKnownLosses
<1>1. EmbedDrainAssumption /\ DrainInv => OnlyKnownLosses
  <2> SUFFICES ASSUME EmbedDrainAssumption, DrainInv, Quiet, BacklogFits
               PROVE  Expected = {}
    BY DEF OnlyKnownLosses, Expected
  <2>1. \A d \in Drains : ~Carrying(d)
    BY DrainsWork DEF Quiet, Carrying
  <2> QED BY <2>1 DEF DrainInv, Carried, Quiet
<1> QED BY <1>1, EmbedDrainAssumption, DrainInvariant, PTL

(* VectorsOnce: while the owner has started no run by hand, no node gets   *)
(* two rows in table embeddings, for any number of drains, deliveries and  *)
(* retries (embedPendingBatch under qbDrainInFlight).                      *)
THEOREM RowsOnce == DrainSpec => []VectorsOnce
<1>1. DrainInv => VectorsOnce
  BY DEF DrainInv, NoRowTwice, VectorsOnce
<1> QED BY <1>1, DrainInvariant, PTL

(* EdgesFollowVectors: at rest, without failures and runs by hand, the     *)
(* derived edges are those of the embedded nodes, each once                *)
(* (recomputeEdges at the end of every drain that embedded anything).      *)
THEOREM EdgesOfTheEmbedded == DrainSpec => []EdgesFollowVectors
<1>1. EmbedDrainAssumption /\ DrainInv => EdgesFollowVectors
  <2> SUFFICES ASSUME EmbedDrainAssumption, DrainInv, Quiet, failures = 0, runs = 0
               PROVE  EdgesCurrent
    BY DEF EdgesFollowVectors, EdgesCurrent
  <2>1. \A d \in Drains : NothingNew(d)
    BY DrainsWork DEF Quiet, NothingNew
  <2> QED BY <2>1 DEF DrainInv, EdgesFollow
<1> QED BY <1>1, EmbedDrainAssumption, DrainInvariant, PTL
=============================================================================
