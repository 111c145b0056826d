------------------------------ MODULE ToolLoop ------------------------------
(***************************************************************************)
(* The runtime of a Session that an LLM drives with tools: the dispatcher  *)
(* or a Project Manager.  Turns are served one by one by a worker that     *)
(* ends when no turn is left; each is a loop of LLM calls and tool calls   *)
(* in a task of its own, whose exchange goes to a memory that is kept on   *)
(* disk.  The runtime's events are traced and shown by a chain of tasks,   *)
(* one per event.  The daemon makes the runtime when it is first needed,   *)
(* closes it in a shutdown, and may die.                                   *)
(***************************************************************************)
EXTENDS Naturals, Sequences, FiniteSets, SequencesExt

CONSTANTS
  Turns,      \* the inputs
  MaxIters,   \* rounds of a tool loop (max_iters)
  MaxTurns,   \* turns that a memory keeps (max_turns)
  MaxLives,   \* bound on starts of the daemon
  MaxFaults   \* bound on memory files that cannot be written

ASSUME ToolLoopAssumption ==
  /\ IsFiniteSet(Turns) /\ {MaxIters, MaxTurns, MaxLives} \subseteq Nat \ {0} /\ MaxFaults \in Nat

NoTurn == "no turn"
ASSUME NoTurnAssumption == NoTurn \notin Turns

VARIABLES
  daemon,    \* "up", "closing" the runtimes it knows, "flushing" events, "down"
  registered,\* the runtime exists, and is in the registry
  closed,    \* _closed
  closing,   \* close: "no", "waits" for the worker, "done"
  state,     \* _state
  pending,   \* _pending
  worker,    \* _worker: "none", "ready", "waits" for the turn's task, "done"
  current,   \* _current_task: its turn, step and rounds
  idle,      \* _idle
  memory,    \* the turns remembered (_turns)
  disk,      \* and those in the memory's file
  tail,      \* events queued and not yet shown, each after the one before
  shown,     \* events shown (history)
  loaded,    \* the memory that this process began with (history)
  ended,     \* turns answered by this process, in order (history)
  outcome,   \* per turn: how it ended, "none" until then (history)
  lives, faults

runtime == <<registered, closed, closing, state, pending, worker, current, idle>>
events  == <<tail, shown>>
history == <<loaded, ended, outcome>>
bounds  == <<lives, faults>>
vars    == <<daemon, runtime, memory, disk, events, history, bounds>>

NoTask == [turn |-> NoTurn, step |-> "none", rounds |-> 0]

(* ToolLoopSessionRuntime.__init__, of a process whose memory is m         *)
Blank(m) ==
  /\ registered = FALSE /\ closed = FALSE /\ closing = "no" /\ state = "idle"
  /\ pending = <<>> /\ worker = "none" /\ current = NoTask /\ idle = TRUE
  /\ memory = m /\ loaded = m /\ ended = <<>> /\ tail = <<>>

Init ==
  /\ daemon = "up" /\ Blank(<<>>) /\ disk = <<>> /\ shown = <<>>
  /\ outcome = [t \in Turns |-> "none"] /\ lives = 1 /\ faults = 0

----------------------------------------------------------------------------
(* Events                                                                  *)

(* _emit_event: every event becomes a task of _queue_runtime_event.        *)
Event(t, is) == [turn |-> t, is |-> is]
Emits(es)    == tail' = tail \o es

(* _set_state, which says nothing when the state is the same already       *)
StateEvents(from, to) == IF from = to THEN <<>> ELSE <<Event(NoTurn, to)>>

(* Variant: a task does not wait for the one before it.                    *)
AwaitedAny(i) == i \in DOMAIN tail

(* The task of an event waits for the one before it.                       *)
Awaited(i) == i = 1

(* consume: the event is traced, and shown in the Session's conversations  *)
(* if it is of a kind that is.                                             *)
Consume ==
  /\ daemon # "down"
  /\ \E i \in DOMAIN tail :
       /\ Awaited(i)
       /\ tail' = RemoveAt(tail, i)
       /\ shown' = IF tail[i].turn = NoTurn THEN shown ELSE Append(shown, tail[i])
  /\ UNCHANGED <<daemon, runtime, memory, disk, history, bounds>>

----------------------------------------------------------------------------
(* Inputs                                                                  *)

Known(t) == outcome[t] # "none" \/ t \in ToSet(pending) \/ t = current.turn

(* Variant: a worker that has ended is not replaced.                       *)
WorkerForFirst == IF worker = "none" THEN "ready" ELSE worker

(* Variant: a worker is begun for each turn.                               *)
WorkerForEach == "ready"

(* _ensure_worker                                                          *)
WorkerFor == IF worker \in {"none", "done"} THEN "ready" ELSE worker

(* _get_project_manager_runtime, _get_dispatcher_runtime                   *)
Made == registered' = TRUE

(* submit, by a text in a conversation of the Session or the result of a   *)
(* delegation; the runtime is made if there is none.  A closed runtime     *)
(* raises, and nothing changes.                                            *)
Submit(t) ==
  /\ daemon # "down" /\ ~closed /\ ~Known(t)
  /\ Made
  /\ Emits(<<Event(t, "accepted")>>)
  /\ pending' = Append(pending, t)
  /\ idle' = FALSE
  /\ worker' = WorkerFor
  /\ UNCHANGED <<daemon, closed, closing, state, current, memory, disk, shown, history, bounds>>

----------------------------------------------------------------------------
(* The worker                                                              *)

Task(t) == [turn |-> t, step |-> "created", rounds |-> 0]

(* The loop of _run, from where the worker has no turn, with events es     *)
(* emitted before: the next turn begins, or the worker ends.               *)
Loops(es) ==
  IF pending # <<>> /\ ~closed
  THEN /\ pending' = Tail(pending)
       /\ state' = "running"
       /\ Emits(es \o StateEvents(state, "running") \o <<Event(Head(pending), "started")>>)
       /\ current' = Task(Head(pending))
       /\ worker' = "waits"
       /\ UNCHANGED idle
  ELSE LET last == IF closed THEN "stopped" ELSE "idle" IN
       /\ state' = last
       /\ Emits(es \o StateEvents(state, last))
       /\ current' = NoTask
       /\ worker' = "done"
       /\ idle' = TRUE
       /\ UNCHANGED pending

WorkerBegins ==
  /\ worker = "ready" /\ Loops(<<>>)
  /\ UNCHANGED <<daemon, registered, closed, closing, memory, disk, shown, history, bounds>>

(* The turn's task is done, or was cancelled.                              *)
TurnOver ==
  /\ worker = "waits" /\ current.step \in {"done", "cancelled"}
  /\ LET t == current.turn IN
     IF current.step = "cancelled"
     THEN Loops(<<Event(t, "finished")>>) /\ outcome' = [outcome EXCEPT ![t] = "cancelled"]
     ELSE Loops(<<>>) /\ UNCHANGED outcome
  /\ UNCHANGED <<daemon, registered, closed, closing, memory, disk, shown, loaded, ended, bounds>>

----------------------------------------------------------------------------
(* A turn: _execute_turn and run_tool_loop                                 *)

(* Variant: the turns that came first are kept.                            *)
RememberedFirst(ts) == SubSeq(ts, 1, IF Len(ts) > MaxTurns THEN MaxTurns ELSE Len(ts))

(* add_turn keeps the last turns.                                          *)
Remembered(ts) ==
  IF Len(ts) > MaxTurns THEN SubSeq(ts, Len(ts) - MaxTurns + 1, Len(ts)) ELSE ts

(* The turn ends: it is remembered, by its messages or, where it failed,   *)
(* by its input and the error; then its answer is given.                   *)
Ends(how) ==
  LET t == current.turn IN
  /\ memory' = Remembered(Append(memory, t))
  /\ \/ disk' = memory' /\ UNCHANGED faults
     \/ faults < MaxFaults /\ faults' = faults + 1 /\ UNCHANGED disk
  /\ Emits((IF how = "failed" THEN <<Event(NoTurn, "error")>> ELSE <<>>)
           \o <<Event(t, "delta"), Event(t, "finished")>>)
  /\ outcome' = [outcome EXCEPT ![t] = how]
  /\ ended' = Append(ended, t)
  /\ current' = [current EXCEPT !.step = "done"]

Goes(step, rounds) ==
  /\ current' = [current EXCEPT !.step = step, !.rounds = rounds]
  /\ UNCHANGED <<memory, disk, tail, outcome, ended, faults>>

TurnKeeps ==
  UNCHANGED <<daemon, registered, closed, closing, state, pending, worker, idle, shown, loaded, lives>>

(* The task begins: without an LLM it has failed.                          *)
TurnBegins ==
  /\ daemon # "down" /\ current.step = "created"
  /\ Goes("asks", 0) \/ Ends("failed")
  /\ TurnKeeps

(* The LLM answers with a text, or asks for tools, or the call fails.      *)
Answered ==
  /\ daemon # "down" /\ current.step = "asks"
  /\ \/ Ends("completed") \/ Ends("failed")
     \/ Goes("calls", current.rounds + 1)
  /\ TurnKeeps

(* The tools' results are there, an exception being one of them.           *)
ToolsDone ==
  /\ daemon # "down" /\ current.step = "calls"
  /\ IF current.rounds < MaxIters THEN Goes("asks", current.rounds) ELSE Ends("completed")
  /\ TurnKeeps

(* The cancellation reaches the task.                                      *)
TurnCancelled ==
  /\ daemon # "down" /\ current.step = "cancelling"
  /\ Goes("cancelled", current.rounds)
  /\ TurnKeeps

----------------------------------------------------------------------------
(* The daemon                                                              *)

(* The turns of ts that have no outcome are lost.                          *)
Losing(ts) ==
  outcome' = [t \in Turns |-> IF t \in ts /\ outcome[t] = "none" THEN "lost" ELSE outcome[t]]

(* cancel: the turn's task, unless there is none or it is done             *)
Cancelled ==
  IF current.step \in {"none", "done"} THEN current ELSE [current EXCEPT !.step = "cancelling"]

(* The shutdown closes the runtimes it knows, of which this is one if it   *)
(* was made before.                                                        *)
BeginShutdown ==
  /\ daemon = "up" /\ daemon' = "closing"
  /\ IF registered
     THEN /\ closed' = TRUE
          /\ pending' = <<>> /\ Losing(ToSet(pending))
          /\ current' = Cancelled
          /\ closing' = "waits"
     ELSE UNCHANGED <<closed, pending, outcome, current, closing>>
  /\ UNCHANGED <<registered, state, worker, idle, memory, disk, events, loaded, ended, bounds>>

(* close goes on when there is no worker, or it has ended.                 *)
Closed ==
  /\ closing = "waits" /\ worker \in {"none", "done"}
  /\ closing' = "done"
  /\ Emits(StateEvents(state, "stopped")) /\ state' = "stopped"
  /\ idle' = TRUE
  /\ UNCHANGED <<daemon, registered, closed, pending, worker, current, memory, disk, shown,
                 history, bounds>>

(* _wait_runtime_events, when the runtimes are closed                      *)
Flushed ==
  /\ daemon = "closing" /\ closing # "waits" /\ tail = <<>>
  /\ daemon' = "flushing"
  /\ UNCHANGED <<runtime, memory, disk, events, history, bounds>>

(* The process ends: after a shutdown, or because it dies.                 *)
Gone ==
  /\ daemon' = "down"
  /\ Losing(ToSet(pending) \cup {current.turn})
  /\ registered' = FALSE /\ closed' = FALSE /\ closing' = "no" /\ state' = "idle"
  /\ pending' = <<>> /\ worker' = "none" /\ current' = NoTask /\ idle' = TRUE
  /\ tail' = <<>>
  /\ UNCHANGED <<memory, disk, shown, loaded, ended, bounds>>

ProcessEnds == daemon = "flushing" /\ Gone
ProcessDies == daemon # "down" /\ Gone

(* SchedulerMemory._load                                                   *)
Restart ==
  /\ daemon = "down" /\ lives < MaxLives
  /\ daemon' = "up" /\ lives' = lives + 1
  /\ memory' = disk /\ loaded' = disk /\ ended' = <<>>
  /\ UNCHANGED <<runtime, disk, events, outcome, faults>>

Next ==
  \/ \E t \in Turns : Submit(t)
  \/ WorkerBegins \/ TurnOver
  \/ TurnBegins \/ Answered \/ ToolsDone \/ TurnCancelled
  \/ Consume
  \/ BeginShutdown \/ Closed \/ Flushed \/ ProcessEnds \/ ProcessDies \/ Restart

Spec == Init /\ [][Next]_vars

(* The event loop runs what is ready; LLM calls and tools have timeouts.   *)
FairSpec ==
  /\ Spec
  /\ WF_vars(WorkerBegins) /\ WF_vars(TurnOver) /\ WF_vars(TurnBegins) /\ WF_vars(Answered)
  /\ WF_vars(ToolsDone) /\ WF_vars(TurnCancelled) /\ WF_vars(Consume) /\ WF_vars(Closed)

----------------------------------------------------------------------------
(* Properties                                                              *)

Steps == {"none", "created", "asks", "calls", "cancelling", "cancelled", "done"}

(* The runtime's flags agree: wait_idle is answered exactly when no turn   *)
(* waits or runs, a turn that waits has a worker that will take it, and a  *)
(* closed runtime takes no further step of a turn than its cancellation.   *)
ToolLoopConsistent ==
  /\ pending \in Seq(Turns) /\ IsInjective(pending)
  /\ current.turn \in Turns \cup {NoTurn} /\ current.step \in Steps /\ current.rounds \in 0..MaxIters
  /\ (current = NoTask) = (current.turn = NoTurn) /\ (worker = "waits") = (current # NoTask)
  /\ current.turn \notin ToSet(pending)
  /\ worker \in {"ready", "waits"} => ~idle
  /\ ~idle => worker \in {"ready", "waits"}
  /\ closed => pending = <<>> /\ current.step \notin {"created", "asks", "calls"}
  /\ closing = "done" => state = "stopped" /\ idle

Unended == {t \in {current.turn} \ {NoTurn} : outcome[t] = "none"}
Outcomes == {"completed", "failed", "cancelled", "lost"}

(* A tool loop is a turn service like an ACP Session: an input that was    *)
(* accepted is served at most once, alone, and gets one outcome, through   *)
(* the shutdown and the death of the daemon.                               *)
Service == INSTANCE TurnService
             WITH Ids <- Turns, Outcomes <- Outcomes,
                  waiting <- ToSet(pending), serving <- Unended, outcome <- outcome
ImplementsTurnService == Service!Spec

LastTurns(ts) == SubSeq(ts, Len(ts) - MaxTurns + 1, Len(ts))

(* The LLM is told of the last MaxTurns turns that were answered, those of *)
(* earlier processes included, in their order, and of no turn that was cut *)
(* short; where every write succeeded, a restart keeps them all, so that   *)
(* an answer that was shown and is recent enough is remembered.            *)
MemoryIsWhole ==
  /\ memory = IF Len(loaded \o ended) <= MaxTurns THEN loaded \o ended
              ELSE LastTurns(loaded \o ended)
  /\ faults = 0 => disk = memory
  /\ \A t \in ToSet(memory) \cup ToSet(disk) : outcome[t] \in {"completed", "failed"}

Before(s, e, f)  == \E i, j \in DOMAIN s : i < j /\ s[i] = e /\ s[j] = f
Follows(s, f, e) == f \in ToSet(s) => Before(s, e, f)

(* Of each turn, events in their order, none of them twice; turns begin in *)
(* the order in which they were accepted.                                  *)
InOrder(s) ==
  /\ \A i, j \in DOMAIN s : s[i] = s[j] /\ s[i].turn \in Turns => i = j
  /\ \A t \in Turns : /\ Follows(s, Event(t, "started"), Event(t, "accepted"))
                      /\ Follows(s, Event(t, "delta"), Event(t, "started"))
                      /\ Follows(s, Event(t, "finished"), Event(t, "started"))
  /\ \A t, u \in Turns : Before(s, Event(t, "started"), Event(u, "started"))
                         => Before(s, Event(t, "accepted"), Event(u, "accepted"))

(* What is shown of a turn is in order and without a gap, ends once, has   *)
(* its answer before its end unless the turn was cancelled, and turns      *)
(* begin in the order in which they were accepted, although each event is  *)
(* a task of its own.                                                      *)
TurnsShownWhole ==
  /\ InOrder(shown)
  /\ \A t \in Turns :
       /\ outcome[t] # "cancelled" => Follows(shown, Event(t, "finished"), Event(t, "delta"))
       /\ Event(t, "delta") \in ToSet(shown) => outcome[t] \in {"completed", "failed"}

(* An accepted turn is finished in front of the user, whatever moment it   *)
(* found the worker at, unless the daemon is stopped before.               *)
EveryTurnIsAnswered ==
  \A t \in Turns : (t \in ToSet(pending) \cup Unended /\ daemon = "up")
                     ~> (Event(t, "finished") \in ToSet(shown) \/ daemon # "up")
=============================================================================
