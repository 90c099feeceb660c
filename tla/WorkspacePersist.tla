-------------------------- MODULE WorkspacePersist --------------------------
(***************************************************************************)
(* Durability of a workspace or board database (gateway entrypoint.mjs and *)
(* gcs.ts).  The live DuckDB file sits on a container's local disk; a      *)
(* write is durable only after CHECKPOINT has folded it into the file and  *)
(* the whole file has replaced one GCS object.  Three paths upload it:     *)
(*   - persistWorkspace, the coalescing writer a workspace's /relay-query  *)
(*     fires without waiting for it;                                       *)
(*   - POST /ctrl/checkpoint, which the control API sends after every      *)
(*     board mutation and which runs outside the coalescer;                *)
(*   - flushAndExit on SIGTERM or SIGINT.                                  *)
(* Databases are the sets of writes they contain, so a restart that loses  *)
(* writes and goes on from there is a different set, not a lower number.   *)
(* An upload reads the file in one step and later replaces the object in   *)
(* one step; the response comes later still, or never.                     *)
(***************************************************************************)
EXTENDS Naturals

CONSTANTS
    Writes,     \* the mutating statements clients send
    MaxFaults,  \* bound: failed checkpoints and uploads
    MaxKills    \* bound: containers killed without a signal handler run

ASSUME WorkspacePersistAssumption ==
    /\ MaxFaults \in Nat
    /\ MaxKills \in Nat
    /\ "flush" \notin Writes
    /\ "final" \notin Writes

(***************************************************************************)
(* The uploaders: the coalescing writer, the shutdown flush, and on a      *)
(* board one /ctrl/checkpoint request for each write.                      *)
(***************************************************************************)
Uploaders == {"flush", "final"} \cup Writes

VARIABLES
    board,      \* the container's mode: a quackboard gateway, or a workspace gateway
    phase,      \* "up", "term" (signal received), "off" (no container)
    mem,        \* writes committed in the running database
    file,       \* writes folded into the local .duckdb file
    gcs,        \* writes in the GCS object
    up,         \* up[u]: where the upload of u stands, and the body it sends
    flushDirty, \* the coalescer's re-arm flag
    running,    \* statements committed whose handler has not resumed
    sent,       \* statements that reached a gateway
    atTerm,     \* writes answered when the signal arrived (history)
    late,       \* statements that committed after the signal (history)
    missed,     \* the last flush ended in the catch clause (history)
    flushed,    \* the last container ended by a successful final flush
    faults, kills

vars == <<board, phase, mem, file, gcs, up, flushDirty, running, sent, atTerm, late,
          missed, flushed, faults, kills>>

Idle == [pc |-> "idle", body |-> {}]

TypeOK ==
    /\ board \in BOOLEAN
    /\ phase \in {"up", "term", "off"}
    /\ mem \subseteq Writes
    /\ file \subseteq mem
    /\ gcs \subseteq Writes
    /\ up \in [Uploaders -> [pc: {"idle", "wait", "checkpoint", "read", "post", "landed"},
                             body: SUBSET Writes]]
    /\ flushDirty \in BOOLEAN
    /\ running \subseteq sent
    /\ sent \subseteq Writes
    /\ atTerm \subseteq Writes
    /\ late \subseteq Writes
    /\ missed \in BOOLEAN
    /\ flushed \in BOOLEAN
    /\ faults \in 0..MaxFaults
    /\ kills \in 0..MaxKills

(* First boot: gcsDownload answers 404 and DuckDB opens an empty file. *)
Init ==
    /\ board \in BOOLEAN
    /\ phase = "up"
    /\ mem = {} /\ file = {} /\ gcs = {}
    /\ up = [u \in Uploaders |-> Idle]
    /\ flushDirty = FALSE
    /\ running = {} /\ sent = {}
    /\ atTerm = {} /\ late = {}
    /\ missed = FALSE /\ flushed = FALSE
    /\ faults = 0 /\ kills = 0

-----------------------------------------------------------------------------
Alive == phase # "off"

InFlight(u) == up[u].pc \in {"checkpoint", "read", "post", "landed"}

To(u, pc) == [up EXCEPT ![u].pc = pc]

Start(u) == [up EXCEPT ![u] = [pc |-> "checkpoint", body |-> {}]]

(* A statement commits on DuckDB's own thread. *)
Execute(w) ==
    /\ Alive
    /\ w \notin sent
    /\ sent' = sent \cup {w}
    /\ mem' = mem \cup {w}
    /\ running' = running \cup {w}
    /\ late' = IF phase = "term" THEN late \cup {w} ELSE late
    /\ UNCHANGED <<board, phase, file, gcs, up, flushDirty, atTerm, missed, flushed,
                   faults, kills>>

(* Mutant: a call during an upload is dropped instead of re-arming it. *)
PersistWorkspaceDrops ==
    IF InFlight("flush")
    THEN UNCHANGED <<flushDirty, up>>
    ELSE /\ flushDirty' = FALSE
         /\ up' = Start("flush")

(* persistWorkspace: an upload in flight is re-armed, otherwise one starts. *)
PersistWorkspace ==
    IF InFlight("flush")
    THEN /\ flushDirty' = TRUE
         /\ UNCHANGED up
    ELSE /\ flushDirty' = FALSE
         /\ up' = Start("flush")

(* The handler resumes.  A workspace's /relay-query calls persistWorkspace *)
(* and answers; a board's mutation answers the control API, whose          *)
(* checkpointBoard then posts /ctrl/checkpoint.                            *)
Answer(w) ==
    /\ Alive
    /\ w \in running
    /\ running' = running \ {w}
    /\ \/ /\ ~board
          /\ PersistWorkspace
       \/ /\ board
          /\ up' = Start(w)
          /\ UNCHANGED flushDirty
    /\ UNCHANGED <<board, phase, mem, file, gcs, sent, atTerm, late, missed, flushed, faults,
                   kills>>

-----------------------------------------------------------------------------
(* Mutant: the upload sends the file without folding the WAL into it. *)
CheckpointSkipped(u) ==
    /\ Alive
    /\ up[u].pc = "checkpoint"
    /\ up' = To(u, "read")
    /\ UNCHANGED <<board, phase, mem, file, gcs, flushDirty, running, sent, atTerm, late,
                   missed, flushed, faults, kills>>

(* rt.run("CHECKPOINT") resolves: the file holds every committed write. *)
Checkpoint(u) ==
    /\ Alive
    /\ up[u].pc = "checkpoint"
    /\ file' = mem
    /\ up' = To(u, "read")
    /\ UNCHANGED <<board, phase, mem, gcs, flushDirty, running, sent, atTerm, late,
                   missed, flushed, faults, kills>>

(* gcsUpload after the token await: read the whole file, post it. *)
ReadAndPost(u) ==
    /\ Alive
    /\ up[u].pc = "read"
    /\ up' = [up EXCEPT ![u] = [pc |-> "post", body |-> file]]
    /\ UNCHANGED <<board, phase, mem, file, gcs, flushDirty, running, sent, atTerm, late,
                   missed, flushed, faults, kills>>

(* GCS replaces the object; uploads land in any order. *)
Land(u) ==
    /\ Alive
    /\ up[u].pc = "post"
    /\ gcs' = up[u].body
    /\ up' = To(u, "landed")
    /\ UNCHANGED <<board, phase, mem, file, flushDirty, running, sent, atTerm, late,
                   missed, flushed, faults, kills>>

(* Mutant: the loop does not clear the flag it tests. *)
FlushDoneStaysDirty ==
    /\ Alive
    /\ up["flush"].pc = "landed"
    /\ up' = IF flushDirty THEN Start("flush") ELSE [up EXCEPT !["flush"] = Idle]
    /\ missed' = FALSE
    /\ UNCHANGED <<board, phase, mem, file, gcs, flushDirty, running, sent, atTerm, late,
                   flushed, faults, kills>>

(* The flush's do-while condition and its finally. *)
FlushDone ==
    /\ Alive
    /\ up["flush"].pc = "landed"
    /\ flushDirty' = FALSE
    /\ up' = IF flushDirty THEN Start("flush") ELSE [up EXCEPT !["flush"] = Idle]
    /\ missed' = FALSE
    /\ UNCHANGED <<board, phase, mem, file, gcs, running, sent, atTerm, late, flushed, faults,
                   kills>>

(* A checkpoint, a token fetch or an upload throws.  The flush's catch     *)
(* logs and its finally clears flushInFlight, whatever flushDirty says.    *)
FlushFails ==
    /\ Alive
    /\ InFlight("flush")
    /\ faults < MaxFaults
    /\ faults' = faults + 1
    /\ up' = [up EXCEPT !["flush"] = Idle]
    /\ missed' = TRUE
    /\ UNCHANGED <<board, phase, mem, file, gcs, flushDirty, running, sent, atTerm, late,
                   flushed, kills>>

(* /ctrl/checkpoint answers 200; the control API ignores the answer. *)
CheckpointDone(w) ==
    /\ Alive
    /\ up[w].pc = "landed"
    /\ up' = [up EXCEPT ![w] = Idle]
    /\ UNCHANGED <<board, phase, mem, file, gcs, flushDirty, running, sent, atTerm, late,
                   missed, flushed, faults, kills>>

(* It answers 500, or never got there: checkpointBoard only logs it. *)
CheckpointFails(w) ==
    /\ Alive
    /\ InFlight(w)
    /\ faults < MaxFaults
    /\ faults' = faults + 1
    /\ up' = [up EXCEPT ![w] = Idle]
    /\ missed' = TRUE
    /\ UNCHANGED <<board, phase, mem, file, gcs, flushDirty, running, sent, atTerm, late,
                   flushed, kills>>

-----------------------------------------------------------------------------
(* Mutant: the shutdown flush does not wait for an upload in flight. *)
FlushAndExitAtOnce ==
    /\ phase = "up"
    /\ phase' = "term"
    /\ atTerm' = mem \ running
    /\ up' = Start("final")
    /\ UNCHANGED <<board, mem, file, gcs, flushDirty, running, sent, late, missed,
                   flushed, faults, kills>>

(* flushAndExit; shuttingDown makes a second signal a no-op. *)
FlushAndExit ==
    /\ phase = "up"
    /\ phase' = "term"
    /\ atTerm' = mem \ running
    /\ up' = IF InFlight("flush") THEN To("final", "wait") ELSE Start("final")
    /\ UNCHANGED <<board, mem, file, gcs, flushDirty, running, sent, late, missed,
                   flushed, faults, kills>>

(* The awaited flushInFlight promise settles (it never rejects). *)
FlushSettled ==
    /\ phase = "term"
    /\ up["final"].pc = "wait"
    /\ ~InFlight("flush")
    /\ up' = Start("final")
    /\ UNCHANGED <<board, phase, mem, file, gcs, flushDirty, running, sent, atTerm, late,
                   missed, flushed, faults, kills>>

(* The container ends: local disk, handlers and open requests go with it. *)
Vanish ==
    /\ phase' = "off"
    /\ mem' = {}
    /\ file' = {}
    /\ up' = [u \in Uploaders |-> Idle]
    /\ flushDirty' = FALSE
    /\ running' = {}
    /\ UNCHANGED <<board, gcs, sent, atTerm, late, missed>>

FinalDone ==
    /\ phase = "term"
    /\ up["final"].pc = "landed"
    /\ Vanish
    /\ flushed' = TRUE
    /\ UNCHANGED <<faults, kills>>

(* The final flush throws: logged, and the process exits all the same. *)
FinalFails ==
    /\ phase = "term"
    /\ InFlight("final")
    /\ faults < MaxFaults
    /\ faults' = faults + 1
    /\ Vanish
    /\ flushed' = FALSE
    /\ UNCHANGED kills

(* SIGKILL, out of memory, or the grace period running out. *)
Kill ==
    /\ Alive
    /\ kills < MaxKills
    /\ kills' = kills + 1
    /\ Vanish
    /\ flushed' = FALSE
    /\ UNCHANGED faults

(* The next container restores the object before DuckDB opens the file. *)
Boot ==
    /\ phase = "off"
    /\ phase' = "up"
    /\ mem' = gcs
    /\ file' = gcs
    /\ flushed' = FALSE
    /\ missed' = FALSE
    /\ atTerm' = {}
    /\ late' = {}
    /\ UNCHANGED <<board, gcs, up, flushDirty, running, sent, faults, kills>>

-----------------------------------------------------------------------------
Next ==
    \/ \E w \in Writes : Execute(w)
    \/ \E w \in Writes : Answer(w)
    \/ \E u \in Uploaders : Checkpoint(u)
    \/ \E u \in Uploaders : ReadAndPost(u)
    \/ \E u \in Uploaders : Land(u)
    \/ FlushDone
    \/ FlushFails
    \/ \E w \in Writes : CheckpointDone(w)
    \/ \E w \in Writes : CheckpointFails(w)
    \/ FlushAndExit
    \/ FlushSettled
    \/ FinalDone
    \/ FinalFails
    \/ Kill
    \/ Boot

Spec == Init /\ [][Next]_vars

(* GCS answers what it is sent and handlers resume; nobody has to send a   *)
(* write, stop the container or boot one.                                  *)
FairSpec ==
    /\ Spec
    /\ \A w \in Writes : WF_vars(Answer(w)) /\ WF_vars(CheckpointDone(w))
    /\ \A u \in Uploaders :
          WF_vars(Checkpoint(u)) /\ WF_vars(ReadAndPost(u)) /\ WF_vars(Land(u))
    /\ WF_vars(FlushDone)
    /\ WF_vars(FlushSettled)
    /\ WF_vars(FinalDone)

-----------------------------------------------------------------------------
(* A workspace that has answered every statement and has no upload in      *)
(* flight holds nothing the GCS object lacks: the re-arm flag never loses  *)
(* a write that arrives between an upload's read of the file and its       *)
(* response.  The exception is a flush that ended in persistWorkspace's    *)
(* catch, which leaves the loop though the flag is set.                    *)
QuietMeansDurable ==
    (/\ phase = "up"
     /\ ~board
     /\ running = {}
     /\ ~InFlight("flush")
     /\ ~missed) => gcs = mem

(* flushAndExit calls its upload the authoritative final flush: a          *)
(* workspace container that exits after it succeeded leaves in GCS every   *)
(* write that was answered before the signal came, also when an older      *)
(* upload was in flight at that moment.  On a board the older upload is a  *)
(* /ctrl/checkpoint, which flushAndExit does not wait for and which may    *)
(* land after the final one.                                               *)
FinalFlushKeeps ==
    (phase = "off" /\ flushed /\ ~board) => atTerm \subseteq gcs

(* A write in a workspace's GCS object is never taken out of it again: no  *)
(* upload replaces the object with an older file.  Writes that commit      *)
(* after the signal are left out: the final flush and a new coalesced      *)
(* flush run side by side then.                                            *)
DurableStaysDurable == [][~board => gcs \ late \subseteq gcs']_vars

(* Every mutation a handler has committed reaches the GCS object, unless   *)
(* an upload fails or the container is stopped first: persistWorkspace on  *)
(* a workspace, checkpointBoard on a board.                                *)
MutationReachesObject ==
    \A w \in Writes :
        (phase = "up" /\ w \in running) ~> (w \in gcs \/ faults > 0 \/ phase # "up")

(* flushAndExit always ends the process: the upload it waits for settles,  *)
(* with its trailing upload, and so does its own.                          *)
ShutdownEnds == phase = "term" ~> phase = "off"

=============================================================================
