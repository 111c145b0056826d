----------------------------- MODULE AcpSession -----------------------------
(***************************************************************************)
(* One persistent Session of the daemon: its ledger record, the successive *)
(* generations of AcpSessionRuntime that serve it (one agent process, one  *)
(* FIFO queue and one worker task each), the commands that reach it from a *)
(* thread, from the scheduler's tools and from background jobs, and the    *)
(* daemon's shutdown, crash and restart.                                   *)
(*                                                                         *)
(* The daemon is a single-threaded asyncio program: a step of this module  *)
(* is what runs between two awaits.  worker[g] names the await at which    *)
(* generation g's worker task is suspended.                                *)
(***************************************************************************)
EXTENDS Naturals, Sequences, FiniteSets

CONSTANTS Turns,        (* identities of TurnRequests                        *)
          Blocks,       (* results of background jobs                        *)
          MaxGen,       (* bound: how many runtimes are ever launched        *)
          MaxMarkers,   (* bound: stop markers waiting in one queue          *)
          IdleTimeout   (* cfg.idle_timeout > 0                              *)

ASSUME SessionAssumption ==
  /\ MaxGen \in Nat \ {0} /\ MaxMarkers \in Nat \ {0}
  /\ IdleTimeout \in BOOLEAN
  /\ Turns \cap Blocks = {}
  /\ IsFiniteSet(Turns \cup Blocks)

Ids  == Turns \cup Blocks
Gens == 1..MaxGen

(* What a queue holds: a turn, a batch of background results, or the None  *)
(* that tells the worker to stop.                                          *)
TurnOf(t)  == [kind |-> "turn", ids |-> {t}]
BatchOf(b) == [kind |-> "batch", ids |-> {b}]
End      == [kind |-> "end", ids |-> {}]
NoItem   == [kind |-> "none", ids |-> {}]

Terminal == {"done", "stopped"}
Statuses == {"starting", "running", "idle", "suspended", "failed"} \cup Terminal

TurnPhases == {"mirroring", "opening", "prompting", "cancelling", "failing",
               "settling", "unwinding"}
LoopPhases == {"ready", "wait", "locking"}
LivePhases == {"fresh", "starting", "started", "startFailed", "terminating",
               "suspending"} \cup LoopPhases \cup TurnPhases
Phases     == {"none", "draining", "closing", "dead"} \cup LivePhases

Outcomes == {"completed", "cancelled", "failed", "interrupted", "lost"}
Fates == {"new", "queued", "running"} \cup Outcomes

VARIABLES
  status,       \* Session.status in the ledger; "gone" once the record is deleted
  resumable,    \* Session.agent_session_id is known
  current,      \* the generation in SessionRuntimeRegistry, 0 if none
  launched,     \* number of generations launched so far
  worker,       \* per generation: where its worker task is suspended
  queue,        \* per generation: AcpSessionRuntime._queue
  batch,        \* per generation: _pending_background_batch is not None
  item,         \* per generation: the item the worker has taken
  termination,  \* per generation: _terminate_status
  closed,       \* per generation: _closed
  idle,         \* per generation: the event wait_idle waits for
  process,      \* per generation: the agent process exists
  lock,         \* holder of the Session's turn lock, 0 if free
  daemon,       \* "up", the stages of _shutdown, or "down"
  target,       \* the generation _shutdown is waiting for, 0 if none
  fate          \* per id: what became of it (history)

ledger   == <<status, resumable>>
registry == <<current, launched>>
runtime  == <<queue, batch, item, termination, closed, idle, process, lock>>
host     == <<daemon, target>>
vars     == <<ledger, registry, worker, runtime, host, fate>>

----------------------------------------------------------------------------
(* Helpers.  An operator headed by "Variant" changes the definition after  *)
(* it the way a bug would; the specification does not use it.              *)

(* Variant: stopping throws the user's turns away too. *)
IsEnd(i) == i.kind = "end"

IsTurnOrEnd(i) == i.kind # "batch"
IdsIn(q)    == UNION {q[i].ids : i \in 1..Len(q)}

Fated(S, f) == [i \in Ids |-> IF i \in S THEN f ELSE fate[i]]

(* SessionStore.update does nothing once the record is deleted.            *)
Record(s) == status' = IF status = "gone" THEN "gone" ELSE s

(* _accepts_turns: not closed and the worker task is not done.             *)
Accepts(g) == g # 0 /\ ~closed[g] /\ worker[g] # "dead"

(* The Channel callbacks and job watchers run until the channels stop.     *)
Serving == daemon \notin {"halted", "down"}

(* async with _session_turn_lock: the Session's lock can be taken.         *)
(* Variant: no lock. *)
Unlocked == TRUE

LockFree == lock = 0

(* submit/enqueue: an ordinary turn ends the merging of background results.*)
(* Variants: batches stay open; submitted twice. *)
EnqueueMergeable(g, t) ==
  /\ queue' = [queue EXCEPT ![g] = Append(@, TurnOf(t))]
  /\ idle'  = [idle EXCEPT ![g] = FALSE]
  /\ fate'  = Fated({t}, "queued")
  /\ UNCHANGED batch
EnqueueTwice(g, t) ==
  /\ queue' = [queue EXCEPT ![g] = @ \o <<TurnOf(t), TurnOf(t)>>]
  /\ batch' = [batch EXCEPT ![g] = FALSE]
  /\ idle'  = [idle EXCEPT ![g] = FALSE]
  /\ fate'  = Fated({t}, "queued")

Enqueue(g, t) ==
  /\ queue' = [queue EXCEPT ![g] = Append(@, TurnOf(t))]
  /\ batch' = [batch EXCEPT ![g] = FALSE]
  /\ idle'  = [idle EXCEPT ![g] = FALSE]
  /\ fate'  = Fated({t}, "queued")

(* _launch: a new generation, its first turn queued, registered, its worker*)
(* task created but not yet run.                                           *)
Launch(first) ==
  LET g == launched + 1 IN
  /\ g \in Gens
  /\ launched' = g
  /\ current' = g
  /\ worker' = [worker EXCEPT ![g] = "fresh"]
  /\ queue' = [queue EXCEPT ![g] = first]
  /\ idle' = [idle EXCEPT ![g] = (first = <<>>)]
  /\ fate' = Fated(IdsIn(first), "queued")
  /\ UNCHANGED <<ledger, batch, item, termination, closed, process, lock, host>>

(* _try_resume, called when no runtime is registered: a record without an  *)
(* agent session becomes failed, otherwise a generation is launched.       *)
Resume(first) ==
  \/ /\ ~resumable
     /\ status' = "failed"
     /\ UNCHANGED <<resumable, registry, worker, runtime, host, fate>>
  \/ resumable /\ Launch(first)

(* cancel_current_turn asks the agent; only a prompt in flight can answer. *)
AskAgent(g) ==
  worker' = IF worker[g] = "prompting"
            THEN [worker EXCEPT ![g] = "cancelling"] ELSE worker

Markers(g) == {n \in 1..Len(queue[g]) : queue[g][n] = End}

(* The places of a queue whose items stay, and what is left of it then: the*)
(* kept items, in their order.                                             *)
Staying(q) == {n \in 1..Len(q) : IsTurnOrEnd(q[n])}
Nth(S, k) == CHOOSE n \in S : Cardinality({m \in S : m <= n}) = k
WithoutBatches(q) == [k \in 1..Cardinality(Staying(q)) |-> q[Nth(Staying(q), k)]]

(* request_termination: turns stay queued, background batches are dropped, *)
(* the stop marker goes last.                                              *)
RequestTermination(g, s) ==
  Cardinality(Markers(g)) < MaxMarkers /\
  LET dropped == UNION {queue[g][n].ids : n \in (1..Len(queue[g])) \ Staying(queue[g])} IN
  /\ termination' = [termination EXCEPT ![g] = s]
  /\ queue' = [queue EXCEPT ![g] = Append(WithoutBatches(@), End)]
  /\ batch' = [batch EXCEPT ![g] = FALSE]
  /\ fate' = Fated(dropped, "lost")

----------------------------------------------------------------------------
(* What reaches the Session from outside                                   *)

(* A reply in the thread, /raw, send_to_task or a delegation's turn: to the*)
(* registered runtime if it accepts, else a resumption when not terminal.  *)
Reply(t) ==
  /\ Serving /\ status # "gone" /\ fate[t] = "new"
  /\ \/ /\ Accepts(current)
        /\ Enqueue(current, t)
        /\ UNCHANGED <<ledger, registry, worker, item, termination, closed,
                       process, lock, host>>
     \/ /\ current = 0 /\ status \notin Terminal
        /\ Resume(<<TurnOf(t)>>)

(* /cancel, with or without a replacement turn.                            *)
Cancel(R) ==
  /\ Serving /\ status # "gone" /\ current # 0
  /\ worker[current] \in TurnPhases
  /\ \A t \in R : fate[t] = "new"
  /\ AskAgent(current)
  /\ IF R = {} THEN UNCHANGED <<queue, batch, idle, fate>>
               ELSE \E t \in R : Enqueue(current, t)
  /\ UNCHANGED <<ledger, registry, item, termination, closed, process, lock, host>>

(* /stop: ask the worker to stop and cancel the turn in flight; without a  *)
(* runtime only the record changes.                                        *)
Stop ==
  /\ Serving /\ status # "gone"
  /\ \/ /\ Accepts(current)
        /\ RequestTermination(current, "stopped")
        /\ AskAgent(current)
        /\ UNCHANGED <<ledger, registry, item, closed, idle, process, lock, host>>
     \/ /\ current = 0 /\ status \notin Terminal
        /\ status' = "stopped"
        /\ UNCHANGED <<resumable, registry, worker, runtime, host, fate>>

(* /done and mark_done.  The tool also overwrites a terminal status.       *)
MarkDone ==
  /\ Serving /\ status # "gone"
  /\ IF Accepts(current)
     THEN /\ RequestTermination(current, "done")
          /\ UNCHANGED <<ledger, registry, worker, item, closed, idle, process,
                         lock, host>>
     ELSE /\ status' = "done"
          /\ UNCHANGED <<resumable, registry, worker, runtime, host, fate>>

(* resume_task: bring the agent back without a turn, terminal or not.      *)
ResumeTask ==
  /\ Serving /\ status # "gone" /\ current = 0
  /\ Resume(<<>>)

(* /clear, or the pruning of old terminal records.                         *)
Clear ==
  /\ Serving /\ status \in Terminal
  /\ status' = "gone"
  /\ UNCHANGED <<resumable, registry, worker, runtime, host, fate>>

(* submit_background_turn: merge into the pending batch, which is the last *)
(* queued item or the one the worker holds while it waits for the lock.    *)
AddBlock(g, b) ==
  /\ IF ~batch[g]
     THEN /\ queue' = [queue EXCEPT ![g] = Append(@, BatchOf(b))]
          /\ UNCHANGED item
     ELSE IF queue[g] # <<>>
     THEN /\ queue' = [queue EXCEPT ![g][Len(queue[g])].ids = @ \cup {b}]
          /\ UNCHANGED item
     ELSE /\ item' = [item EXCEPT ![g].ids = @ \cup {b}]
          /\ UNCHANGED queue
  /\ batch' = [batch EXCEPT ![g] = TRUE]
  /\ idle' = IF batch[g] THEN idle ELSE [idle EXCEPT ![g] = FALSE]
  /\ fate' = Fated({b}, "queued")

(* A background job has ended: its result goes to the runtime, or resumes  *)
(* the Session as a first turn, or is only announced when terminal.        *)
BgResult(b) ==
  /\ Serving /\ status # "gone" /\ fate[b] = "new"
  /\ \/ /\ Accepts(current)
        /\ AddBlock(current, b)
        /\ UNCHANGED <<ledger, registry, worker, termination, closed, process,
                       lock, host>>
     \/ /\ current = 0 /\ status \notin Terminal
        /\ Resume(<<TurnOf(b)>>)

External ==
  \/ \E t \in Turns : Reply(t)
  \/ \E t \in Turns : Cancel({t})
  \/ Cancel({})
  \/ Stop
  \/ MarkDone
  \/ ResumeTask
  \/ Clear
  \/ \E b \in Blocks : BgResult(b)

----------------------------------------------------------------------------
(* The worker task of generation g                                         *)

(* The finally clause of _run: _close_session takes the runtime off the    *)
(* registry if it is still the registered one, then waits for the events.  *)
Exit(g) ==
  /\ worker' = [worker EXCEPT ![g] = "draining"]
  /\ current' = IF current = g THEN 0 ELSE current

(* The test of the worker's loop, with what is then queued.                *)
LoopTop(g, q) ==
  IF current = g
  THEN /\ worker' = [worker EXCEPT ![g] = IF q = <<>> THEN "wait" ELSE "ready"]
       /\ UNCHANGED current
  ELSE Exit(g)

(* The task runs for the first time and starts the agent process.          *)
Begin(g) ==
  /\ worker[g] = "fresh"
  /\ worker' = [worker EXCEPT ![g] = "starting"]
  /\ process' = [process EXCEPT ![g] = TRUE]
  /\ UNCHANGED <<ledger, registry, queue, batch, item, termination, closed, idle,
                 lock, host, fate>>

(* The handshake succeeds: on_started records the agent's session.         *)
StartOk(g) ==
  /\ worker[g] = "starting"
  /\ IF current = g
     THEN /\ Record("idle")
          /\ resumable' = (status # "gone" \/ resumable)
          /\ worker' = [worker EXCEPT ![g] = "started"]
          /\ UNCHANGED current
     ELSE Exit(g) /\ UNCHANGED ledger
  /\ UNCHANGED <<launched, runtime, host, fate>>

StartFail(g) ==
  /\ worker[g] = "starting"
  /\ IF current = g
     THEN /\ Record("failed")
          /\ worker' = [worker EXCEPT ![g] = "startFailed"]
          /\ UNCHANGED <<resumable, current>>
     ELSE Exit(g) /\ UNCHANGED ledger
  /\ UNCHANGED <<launched, runtime, host, fate>>

(* on_started has told the thread; the worker enters its loop.             *)
Announced(g) ==
  /\ worker[g] = "started"
  /\ idle' = [idle EXCEPT ![g] = @ \/ queue[g] = <<>>]
  /\ LoopTop(g, queue[g])
  /\ UNCHANGED <<ledger, launched, queue, batch, item, termination, closed, process,
                 lock, host, fate>>

(* _resolve_queue_item: the batch that is taken takes no more results.     *)
(* Variant: it does. *)
OpenAfterTake(g, q) == batch[g]

OpenAfter(g, q) == batch[g] /\ q # <<>>

(* With the turn lock held: resolve the item, which stays open to merging  *)
(* no longer.  An input is first mirrored to the other conversations; a    *)
(* batch goes straight to prepare_turn.                                    *)
BeginTurn(g, i, q) ==
  /\ lock' = g
  /\ item' = [item EXCEPT ![g] = i]
  /\ batch' = [batch EXCEPT ![g] = OpenAfter(g, q)]
  /\ idle' = [idle EXCEPT ![g] = FALSE]
  /\ fate' = Fated(i.ids, "running")
  /\ IF i.kind = "turn"
     THEN /\ worker' = [worker EXCEPT ![g] = "mirroring"]
          /\ UNCHANGED status
     ELSE /\ worker' = [worker EXCEPT ![g] = "opening"]
          /\ Record("running")

(* The queue yields an item: a stale worker drops it and leaves, the stop  *)
(* marker ends the Session, anything else becomes a turn once the Session's*)
(* lock is free.                                                           *)
Take(g) ==
  /\ worker[g] \in {"ready", "wait"} /\ queue[g] # <<>>
  /\ queue' = [queue EXCEPT ![g] = Tail(@)]
  /\ LET i == Head(queue[g]) IN
     \/ /\ current # g
        /\ Exit(g)
        /\ fate' = Fated(i.ids, "lost")
        /\ UNCHANGED <<status, batch, item, idle, lock>>
     \/ /\ current = g /\ i = End
        /\ Record(termination[g])
        /\ idle' = [idle EXCEPT ![g] = TRUE]
        /\ worker' = [worker EXCEPT ![g] = "terminating"]
        /\ UNCHANGED <<current, batch, item, lock, fate>>
     \/ /\ current = g /\ i # End /\ LockFree
        /\ BeginTurn(g, i, Tail(queue[g]))
        /\ UNCHANGED current
     \/ /\ current = g /\ i # End /\ ~LockFree
        /\ item' = [item EXCEPT ![g] = i]
        /\ worker' = [worker EXCEPT ![g] = "locking"]
        /\ UNCHANGED <<status, current, batch, idle, lock, fate>>
  /\ UNCHANGED <<resumable, launched, termination, closed, process, host>>

(* The lock a worker waited for is free; a stale worker gives it back.     *)
Acquire(g) ==
  /\ worker[g] = "locking" /\ LockFree
  /\ IF current = g
     THEN BeginTurn(g, item[g], queue[g]) /\ UNCHANGED current
     ELSE /\ Exit(g)
          /\ item' = [item EXCEPT ![g] = NoItem]
          /\ fate' = Fated(item[g].ids, "lost")
          /\ UNCHANGED <<status, batch, idle, lock>>
  /\ UNCHANGED <<resumable, launched, queue, termination, closed, process, host>>

(* No input for idle_timeout seconds.  An input that arrives in the very   *)
(* iteration in which the timer fires stays queued.                        *)
IdleExpires(g) ==
  /\ IdleTimeout /\ worker[g] = "wait"
  /\ IF current = g
     THEN /\ Record("suspended")
          /\ idle' = [idle EXCEPT ![g] = TRUE]
          /\ worker' = [worker EXCEPT ![g] = "suspending"]
          /\ UNCHANGED current
     ELSE Exit(g) /\ UNCHANGED <<status, idle>>
  /\ UNCHANGED <<resumable, launched, queue, batch, item, termination, closed,
                 process, lock, host, fate>>

(* The notices of a failed start, a termination or a suspension are sent.  *)
Noticed(g) ==
  /\ worker[g] \in {"startFailed", "terminating", "suspending"}
  /\ Exit(g)
  /\ UNCHANGED <<ledger, launched, runtime, host, fate>>

(* prepare_turn follows the mirrored input; it does not ask is_current.    *)
(* Variant: the record is left as it is. *)
PrepareUnrecorded(g) ==
  /\ worker[g] = "mirroring"
  /\ worker' = [worker EXCEPT ![g] = "opening"]
  /\ UNCHANGED <<ledger, registry, runtime, host, fate>>

Prepare(g) ==
  /\ worker[g] = "mirroring"
  /\ Record("running")
  /\ worker' = [worker EXCEPT ![g] = "opening"]
  /\ UNCHANGED <<resumable, registry, runtime, host, fate>>

(* AgentOutputStarted is published; the prompt goes to the agent.          *)
Prompt(g) ==
  /\ worker[g] = "opening"
  /\ worker' = [worker EXCEPT ![g] = "prompting"]
  /\ UNCHANGED <<ledger, registry, runtime, host, fate>>

(* The agent answers, with s = "cancelled" only if it was asked to cancel. *)
(* A stale worker publishes "interrupted" and leaves the record alone.     *)
Answer(g, s) ==
  /\ \/ worker[g] = "prompting" /\ s = "completed"
     \/ worker[g] = "cancelling"
  /\ IF current = g
     THEN /\ Record("idle")
          /\ fate' = Fated(item[g].ids, s)
          /\ worker' = [worker EXCEPT ![g] = "settling"]
     ELSE /\ fate' = Fated(item[g].ids, "interrupted")
          /\ worker' = [worker EXCEPT ![g] = "unwinding"]
          /\ UNCHANGED status
  /\ UNCHANGED <<resumable, registry, runtime, host>>

(* The prompt raises: the record fails and the thread is told.             *)
PromptFails(g) ==
  /\ worker[g] \in {"prompting", "cancelling"}
  /\ IF current = g
     THEN /\ Record("failed")
          /\ worker' = [worker EXCEPT ![g] = "failing"]
          /\ UNCHANGED fate
     ELSE /\ fate' = Fated(item[g].ids, "failed")
          /\ worker' = [worker EXCEPT ![g] = "unwinding"]
          /\ UNCHANGED status
  /\ UNCHANGED <<resumable, registry, runtime, host>>

FailureTold(g) ==
  /\ worker[g] = "failing"
  /\ fate' = Fated(item[g].ids, "failed")
  /\ worker' = [worker EXCEPT ![g] = "unwinding"]
  /\ UNCHANGED <<ledger, registry, runtime, host>>

(* Finished is published and its events are out: the turn is reset and the *)
(* lock released; the worker goes on unless the turn ended its loop.       *)
EndTurn(g) ==
  /\ worker[g] \in {"settling", "unwinding"}
  /\ item' = [item EXCEPT ![g] = NoItem]
  /\ lock' = 0
  /\ IF worker[g] = "settling"
     THEN /\ idle' = [idle EXCEPT ![g] = @ \/ queue[g] = <<>>]
          /\ LoopTop(g, queue[g])
     ELSE Exit(g) /\ UNCHANGED idle
  /\ UNCHANGED <<ledger, launched, queue, batch, termination, closed, process,
                 host, fate>>

(* AcpSessionRuntime.close: whatever is still queued is thrown away.       *)
Close(g) ==
  /\ worker[g] = "draining"
  /\ IF closed[g]
     THEN /\ worker' = [worker EXCEPT ![g] = "dead"]
          /\ UNCHANGED <<queue, batch, closed, fate>>
     ELSE /\ worker' = [worker EXCEPT ![g] = "closing"]
          /\ fate' = Fated(IdsIn(queue[g]), "lost")
          /\ queue' = [queue EXCEPT ![g] = <<>>]
          /\ batch' = [batch EXCEPT ![g] = FALSE]
          /\ closed' = [closed EXCEPT ![g] = TRUE]
  /\ UNCHANGED <<ledger, registry, item, termination, idle, process, lock, host>>

(* The agent process is gone.                                              *)
(* Variant: the process survives aclose. *)
AgentClosedAlive(g) ==
  /\ worker[g] = "closing"
  /\ worker' = [worker EXCEPT ![g] = "dead"]
  /\ idle' = [idle EXCEPT ![g] = TRUE]
  /\ UNCHANGED <<ledger, registry, queue, batch, item, termination, closed,
                 process, lock, host, fate>>

AgentClosed(g) ==
  /\ worker[g] = "closing"
  /\ worker' = [worker EXCEPT ![g] = "dead"]
  /\ process' = [process EXCEPT ![g] = FALSE]
  /\ idle' = [idle EXCEPT ![g] = TRUE]
  /\ UNCHANGED <<ledger, registry, queue, batch, item, termination, closed, lock,
                 host, fate>>

Worker(g) ==
  \/ Begin(g) \/ StartOk(g) \/ StartFail(g) \/ Announced(g)
  \/ Take(g) \/ Acquire(g) \/ IdleExpires(g) \/ Noticed(g)
  \/ Prepare(g) \/ Prompt(g)
  \/ Answer(g, "completed") \/ Answer(g, "cancelled")
  \/ PromptFails(g) \/ FailureTold(g) \/ EndTurn(g)
  \/ Close(g) \/ AgentClosed(g)

----------------------------------------------------------------------------
(* The daemon's shutdown, its end and its restart                          *)

(* Task.cancel on worker g.  A task that never ran never reaches its       *)
(* finally clause; a turn whose output was opened ends as interrupted.     *)
(* Variant: the cancellation is swallowed. *)
CancelSwallowed(g) == UNCHANGED <<worker, item>>

CancelWorker(g) ==
  /\ worker' = [worker EXCEPT ![g] =
       CASE worker[g] = "fresh"         -> "dead"
         [] worker[g] \in TurnPhases    -> "unwinding"
         [] worker[g] \in {"draining", "dead"} -> "dead"
         [] OTHER                       -> "draining"]
  /\ item' = IF worker[g] = "locking" THEN [item EXCEPT ![g] = NoItem] ELSE item

(* What becomes of the turn or item a cancelled worker holds.              *)
(* Variant: no outcome is published. *)
CutShortSilently(g) == fate

CutShort(g) ==
  CASE worker[g] \in {"locking", "mirroring"} -> Fated(item[g].ids, "lost")
    [] worker[g] \in {"opening", "prompting", "cancelling", "failing"}
         -> Fated(item[g].ids, "interrupted")
    [] OTHER -> fate

(* SIGINT, SIGTERM or /reboot: _shutdown first stops the control server.   *)
BeginShutdown ==
  /\ daemon = "up"
  /\ daemon' = "stopping"
  /\ UNCHANGED <<ledger, registry, worker, runtime, target, fate>>

(* Then it marks a live Session suspended and cancels its worker.          *)
SuspendAll ==
  /\ daemon = "stopping"
  /\ daemon' = "gathering"
  /\ target' = current
  /\ IF current # 0 /\ status \notin Terminal THEN Record("suspended")
                                             ELSE UNCHANGED status
  /\ IF current = 0
     THEN UNCHANGED <<current, worker, item, fate>>
     ELSE /\ CancelWorker(current)
          /\ fate' = CutShort(current)
          /\ current' = IF worker[current] \in TurnPhases \cup {"fresh"}
                        THEN current ELSE 0
  /\ UNCHANGED <<resumable, launched, queue, batch, termination, closed, idle,
                 process, lock>>

(* The cancelled workers are done; a runtime registered by now, left by a  *)
(* task that never ran or launched in the meantime, is unregistered and    *)
(* will be closed.                                                         *)
Sweep ==
  /\ daemon = "gathering"
  /\ target # 0 => worker[target] = "dead"
  /\ target' = current
  /\ current' = 0
  /\ daemon' = IF current = 0 THEN "halted" ELSE "sweeping"
  /\ UNCHANGED <<ledger, launched, worker, runtime, fate>>

(* close() from outside the worker: drop the queue, cancel the task.       *)
SweepClose ==
  /\ daemon = "sweeping"
  /\ IF closed[target]
     THEN /\ daemon' = "halted"
          /\ UNCHANGED <<worker, queue, batch, item, closed, fate>>
     ELSE /\ daemon' = "closing"
          /\ CancelWorker(target)
          /\ fate' = [i \in Ids |-> IF i \in IdsIn(queue[target]) THEN "lost"
                                    ELSE CutShort(target)[i]]
          /\ queue' = [queue EXCEPT ![target] = <<>>]
          /\ batch' = [batch EXCEPT ![target] = FALSE]
          /\ closed' = [closed EXCEPT ![target] = TRUE]
  /\ UNCHANGED <<ledger, registry, termination, idle, process, lock, target>>

(* Its worker is done: the agent is closed and the channels stop.          *)
SweepDone ==
  /\ daemon = "closing" /\ worker[target] = "dead"
  /\ daemon' = "halted"
  /\ process' = [process EXCEPT ![target] = FALSE]
  /\ idle' = [idle EXCEPT ![target] = TRUE]
  /\ UNCHANGED <<ledger, registry, worker, queue, batch, item, termination, closed,
                 lock, target, fate>>

(* The process ends, by itself or by a crash: only the ledger remains.     *)
ProcessEnds ==
  /\ daemon # "down"
  /\ daemon' = "down"
  /\ current' = 0
  /\ target' = 0
  /\ lock' = 0
  /\ worker' = [g \in Gens |-> IF g <= launched THEN "dead" ELSE "none"]
  /\ queue' = [g \in Gens |-> <<>>]
  /\ batch' = [g \in Gens |-> FALSE]
  /\ item' = [g \in Gens |-> NoItem]
  /\ closed' = [g \in Gens |-> g <= launched]
  /\ idle' = [g \in Gens |-> TRUE]
  /\ process' = [g \in Gens |-> FALSE]
  /\ fate' = [i \in Ids |-> CASE fate[i] = "queued"  -> "lost"
                               [] fate[i] = "running" -> "interrupted"
                               [] OTHER               -> fate[i]]
  /\ UNCHANGED <<ledger, launched, termination>>

Restart ==
  /\ daemon = "down"
  /\ daemon' = "up"
  /\ UNCHANGED <<ledger, registry, worker, runtime, target, fate>>

Lifecycle == BeginShutdown \/ SuspendAll \/ Sweep \/ SweepClose \/ SweepDone
             \/ ProcessEnds \/ Restart

----------------------------------------------------------------------------
(* The Session has just been created: by /run, spawn_agent or              *)
(* create_session with a first turn, or by /attach to an existing agent    *)
(* session without one.  Or an earlier daemon left its record, suspended.  *)
Created ==
  /\ status = "starting"
  /\ current = 1 /\ launched = 1
  /\ \/ /\ resumable = TRUE
        /\ queue = [g \in Gens |-> <<>>]
     \/ /\ resumable = FALSE
        /\ \E t \in Turns :
             queue = [g \in Gens |-> IF g = 1 THEN <<TurnOf(t)>> ELSE <<>>]

Loaded ==
  /\ status = "suspended" /\ resumable = TRUE
  /\ current = 0 /\ launched = 0
  /\ queue = [g \in Gens |-> <<>>]

Init ==
  /\ Created \/ Loaded
  /\ worker = [g \in Gens |-> IF g = current THEN "fresh" ELSE "none"]
  /\ batch = [g \in Gens |-> FALSE]
  /\ item = [g \in Gens |-> NoItem]
  /\ termination = [g \in Gens |-> "stopped"]
  /\ closed = [g \in Gens |-> FALSE]
  /\ idle = [g \in Gens |-> queue[g] = <<>>]
  /\ process = [g \in Gens |-> FALSE]
  /\ lock = 0
  /\ daemon = "up" /\ target = 0
  /\ fate = [i \in Ids |-> IF i \in IdsIn(queue[1]) THEN "queued" ELSE "new"]

Next == External \/ Lifecycle \/ (daemon # "down" /\ \E g \in Gens : Worker(g))

Spec == Init /\ [][Next]_vars

(* What the scheduling of the daemon justifies: the event loop runs every  *)
(* ready worker and every step of _shutdown; the agent is assumed to answer*)
(* or to fail in the end.  Nothing makes a user, a job or an idle timer act.*)
WorkerStep(g) ==
  /\ daemon # "down"
  /\ \/ Begin(g) \/ StartOk(g) \/ StartFail(g) \/ Announced(g)
     \/ Take(g) \/ Acquire(g) \/ Noticed(g) \/ Prepare(g) \/ Prompt(g)
     \/ Answer(g, "completed") \/ Answer(g, "cancelled")
     \/ PromptFails(g) \/ FailureTold(g) \/ EndTurn(g)
     \/ Close(g) \/ AgentClosed(g)

Fairness ==
  /\ \A g \in Gens : WF_vars(WorkerStep(g))
  /\ WF_vars(SuspendAll) /\ WF_vars(Sweep) /\ WF_vars(SweepClose)
  /\ WF_vars(SweepDone)

FairSpec == Spec /\ Fairness

----------------------------------------------------------------------------
(* Properties                                                              *)

(* Every variable has its type; the items of the queues are described by   *)
(* EveryInputAccounted and PendingBatchIsLast.                             *)
TypeOK ==
  /\ status \in Statuses \cup {"gone"} /\ resumable \in BOOLEAN
  /\ current \in 0..MaxGen /\ launched \in 0..MaxGen
  /\ worker \in [Gens -> Phases]
  /\ DOMAIN queue = Gens /\ DOMAIN item = Gens
  /\ batch \in [Gens -> BOOLEAN]
  /\ termination \in [Gens -> Terminal] /\ closed \in [Gens -> BOOLEAN]
  /\ idle \in [Gens -> BOOLEAN] /\ process \in [Gens -> BOOLEAN]
  /\ lock \in 0..MaxGen /\ target \in 0..MaxGen
  /\ daemon \in {"up", "stopping", "gathering", "sweeping", "closing",
                 "halted", "down"}
  /\ fate \in [Ids -> Fates]

(* Two generations of a Session never run a turn at the same time, also    *)
(* when _shutdown has unregistered one of them and a late message launches *)
(* the next (the Session's turn lock, daemon.py _session_turn_lock).       *)
TurnsExclusive ==
  \A g, h \in Gens : worker[g] \in TurnPhases /\ worker[h] \in TurnPhases => g = h

(* Why TurnsExclusive holds: the worker that executes a turn is the one    *)
(* that holds the Session's turn lock.                                     *)
LockHeldByTurn ==
  \A g \in Gens : worker[g] \in TurnPhases <=> lock = g

(* While the daemon serves, the registered generation is the only one whose*)
(* worker may still act for the Session: whoever leaves the registry has   *)
(* left its loop for good, and whoever is in it still has a worker.        *)
OneLiveGeneration ==
  daemon = "up" => \A g \in Gens : worker[g] \in LivePhases <=> g = current

(* The two together: whatever the order of terminations, resumptions and   *)
(* the shutdown, at most one generation acts for the Session.              *)
OneGenerationActs == TurnsExclusive /\ OneLiveGeneration

(* Why OneLiveGeneration holds: generations are launched in turn, a dead   *)
(* process leaves none alive, only a closing worker is closed.             *)
Generations ==
  /\ current \in 0..launched /\ target \in 0..launched
  /\ \A g \in Gens : g > launched <=> worker[g] = "none"
  /\ daemon = "down" => current = 0 /\ \A g \in Gens : worker[g] \in {"none", "dead"}
  /\ daemon \in {"up", "down"} =>
       \A g \in Gens : closed[g] => worker[g] \in {"closing", "dead"}

(* While the daemon serves, the ledger says what the worker does, whatever *)
(* mixture of /stop, /done, mark_done, resume_task and /clear came before: *)
(* a prompt runs only under a running record, a terminal record is never   *)
(* under a turn, a worker that waits is idle.                              *)
LedgerTracksWorker ==
  (daemon = "up" /\ current # 0 /\ status # "gone") =>
     /\ worker[current] \in {"opening", "prompting", "cancelling"} =>
          status = "running"
     /\ worker[current] \in LoopPhases \cup {"started", "mirroring", "settling"} =>
          status = "idle"
     /\ worker[current] = "suspending" => status = "suspended"
     /\ worker[current] \in {"failing", "startFailed", "unwinding"} =>
          status = "failed"
     /\ worker[current] = "terminating" => status \in Terminal

(* The places where the generations hold an input: as the item in a        *)
(* worker's hands, or in a queue.                                          *)
Places(i) ==
  {<<g, 0>> : g \in {h \in Gens : i \in item[h].ids}}
    \cup UNION {{<<g, n>> : n \in {m \in 1..Len(queue[g]) : i \in queue[g][m].ids}} : g \in Gens}

(* wait_idle does not return while a turn runs or while a worker that goes *)
(* on has inputs.  It may return with inputs left in the queue of a worker *)
(* that is suspending, stopping or leaving: those will be thrown away.     *)
WaitIdleIsHonest ==
  \A g \in Gens : idle[g] =>
     /\ worker[g] \notin TurnPhases
     /\ worker[g] \in {"fresh", "starting", "started"} \cup LoopPhases =>
          IdsIn(queue[g]) = {}

(* No input disappears without an outcome, is served twice or merged into a*)
(* turn that has already been sent: an accepted input is in exactly one    *)
(* queue or in the hands of exactly one worker, a running one is the turn  *)
(* that worker executes.  LossesHaveReasons says which inputs may get the  *)
(* outcome "lost".                                                         *)
EveryInputAccounted ==
  /\ WaitIdleIsHonest
  /\ \A i \in Ids :
        /\ fate[i] \in {"queued", "running"} => Cardinality(Places(i)) = 1
        /\ fate[i] = "new" => Places(i) = {}
        /\ \A g \in Gens : i \in item[g].ids =>
             CASE worker[g] = "locking" -> fate[i] = "queued"
               [] worker[g] \in {"mirroring", "opening", "prompting",
                                 "cancelling", "failing"} -> fate[i] = "running"
               [] OTHER -> fate[i] \in Outcomes

(* While a runtime is registered, the batch that takes its background      *)
(* results is the last thing the worker will see: a result never overtakes *)
(* a user's later input and is never added behind the stop marker (enqueue,*)
(* request_termination and _resolve_queue_item reset                       *)
(* _pending_background_batch).                                             *)
PendingBatchIsLast ==
  \A g \in Gens : Accepts(g) /\ g = current /\ batch[g] =>
     LET last == IF queue[g] # <<>> THEN queue[g][Len(queue[g])] ELSE item[g] IN
     /\ last.kind = "batch"
     /\ queue[g] = <<>> => worker[g] = "locking"

(* An agent process has a worker that will close it, or _shutdown is       *)
(* closing it: no sequence of terminations, failed starts, cancellations   *)
(* and sweeps leaves one running with nobody to end it.                    *)
NoOrphanAgent ==
  \A g \in Gens : process[g] =>
     \/ worker[g] \in {"draining", "closing"} \cup (LivePhases \ {"fresh"})
     \/ daemon = "closing" /\ target = g

(* An input that was accepted in time: the registered worker goes on, and  *)
(* has it in its hands or in its queue, before any stop marker.            *)
GoesOn == {"fresh", "starting", "started", "mirroring", "opening", "prompting",
           "cancelling", "settling"} \cup LoopPhases
Due(i) ==
  /\ current # 0 /\ worker[current] \in GoesOn
  /\ \/ worker[current] = "locking" /\ i \in item[current].ids
     \/ \E n \in 1..Len(queue[current]) :
           i \in queue[current][n].ids /\ \A m \in Markers(current) : n < m

(* What may take it away while the daemon serves: the agent fails, the idle*)
(* timer fires in the iteration the input arrives in, or a stop drops a    *)
(* background result.                                                      *)
AgentFails  == worker'[current] \in {"startFailed", "failing"}
TimerRaces  == worker[current] = "wait" /\ worker'[current] = "suspending"
StopDrops(i) ==
  i \in Blocks /\ queue'[current] = Append(WithoutBatches(queue[current]), End)

(* No input is lost but for a reason.  One accepted in time is taken by its*)
(* worker, unless the agent fails, the idle timer races it, a stop drops   *)
(* the background result or the daemon goes down.  A user's turn that came *)
(* too late for its worker is thrown away only when the runtime closes or  *)
(* the daemon goes down: a stop drops none.                                *)
LossesHaveReasons ==
  [][/\ daemon' \in {"up", "stopping"} => \A i \in Ids : Due(i) =>
           Due(i)' \/ fate'[i] = "running" \/ AgentFails \/ TimerRaces \/ StopDrops(i)
     /\ \A t \in Turns : fate[t] = "queued" /\ fate'[t] = "lost" =>
           \/ daemon \notin {"up", "stopping"} \/ daemon' # daemon
           \/ \E g \in Gens : worker[g] = "draining" /\ worker'[g] = "closing"]_vars

(* The Session as its users see it: AcpSession implements TurnService.     *)
Service == INSTANCE TurnService WITH
  waiting <- {i \in Ids : \E g \in Gens :
                 \/ i \in IdsIn(queue[g])
                 \/ worker[g] = "locking" /\ i \in item[g].ids},
  serving <- UNION {item[g].ids : g \in {h \in Gens : worker[h] \in
                 {"mirroring", "opening", "prompting", "cancelling", "failing"}}},
  outcome <- [i \in Ids |-> IF fate[i] \in Outcomes THEN fate[i] ELSE "none"]

ImplementsTurnService == Service!Spec

(* try_submit, acp_session_runtime.py:199: a turn is enqueued only while    *)
(* the worker can still consume it.  So none waits behind a stop marker, or*)
(* for a worker that is saying that it has stopped or gone to sleep.       *)
AcceptedTurnsAreServed ==
  \A g \in Gens, n \in 1..Cardinality(Ids) + MaxMarkers :
     n <= Len(queue[g]) /\ queue[g][n].kind = "turn" =>
        /\ \A m \in Markers(g) : m > n
        /\ worker[g] \notin {"suspending", "terminating"}

(* _shutdown, daemon.py:4022 and 4048: new requests are stopped first, so  *)
(* a Session recorded as suspended for the restart is not made alive again.*)
SuspendedForRestart ==
  [][(daemon \in {"gathering", "sweeping", "closing"} /\ status = "suspended")
        => status' \notin {"starting", "running", "idle"}]_vars

(* With an agent that answers, every accepted input gets an outcome: no    *)
(* wakeup is lost between the queue, the lock, the stop marker and the     *)
(* shutdown.                                                               *)
EveryInputEnds ==
  \A i \in Ids : fate[i] = "queued" ~> fate[i] \in Outcomes

(* A stop marker in a queue is not forgotten: the worker dies.             *)
StopIsObeyed ==
  \A g \in Gens : Markers(g) # {} ~> worker[g] = "dead"

(* _shutdown never waits for ever for a worker it has cancelled.           *)
ShutdownCompletes == daemon = "stopping" ~> daemon \in {"halted", "down"}

(* Inputs, stop markers and the shutdown come to an end.                   *)
NothingWaitsForever == EveryInputEnds /\ StopIsObeyed /\ ShutdownCompletes

=============================================================================
