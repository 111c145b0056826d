# Verification of feishu-dispatcher in TLA+

feishu-dispatcher is a daemon that runs coding agents (ACP child processes) on
behalf of people who talk to it in threads: it starts an agent for a task, queues
the replies of its thread as turns, hibernates and revives it, runs background
jobs for it, lets a Project Manager delegate work to it, and keeps ledgers so that
all this survives a restart. This directory holds TLA+ models of that machinery,
the TLC runs that check them on small instances and TLAPS proofs of their main
invariants. Paths below are relative to the repository; `daemon.py`, `store.py`
and so on are in `feishu_dispatcher/agent/`.

The daemon is one process with one asyncio event loop. Everything a coroutine does
between two awaits is atomic, nothing else is; so **one action of a module is what
runs between two awaits**, and a variable such as `worker[g]`, `call[c]` or
`stage[w]` names the await at which a task stands.

## 1. Inventory

| Component | State | Operations | Hard behaviour |
|---|---|---|---|
| **ACP Session runtime** (`session/acp_session_runtime.py`, `session_runtime_registry.py`) | FIFO queue, pending background batch, worker task, current turn, termination status, idle event, agent process; registry Session -> runtime | submit, try_submit, submit_background_turn, cancel, request_termination, wait_idle, close | one worker, many producers; stop marker; a runtime replaced by its next generation while it still unwinds |
| **Session lifecycle** (`daemon.py` 2398-3030, 3402-3484) | the Session's record, turn lock | reply, /cancel, /stop, /done, mark_done, resume_task, /clear, send_to_task, agent start, turn, failure, idle timeout | stale workers after each await; records deleted or terminal under a runtime |
| **Session ledger** (`store.py` 144-430) | records, id sequence | create, update, prune, clear | flush after each change, load after a crash |
| **Admission** (`daemon.py` 579-607, 1118-1257, 2096-2377, 3509-3584, `util/git.py`) | reservation counter, registry, worktrees | /run, spawn_agent, create_session, /attach, resume | several awaits between check and act; compensation; cancellation |
| **Delegation** (`daemon.py` 980-1106, 1316-1422, 3643-3695, `store.py` 437-590) | delegation ledger | delegate, continue, complete, report, settle, notify | rounds of a delegation, reports, results, restart |
| **Background jobs** (`daemon.py` 3612-3960, `control.py`) | job ledger, watchers, processes | run, list, logs, kill, watch, deliver | kill against exit, results for a Session that is going, control timeout |
| **Event pipeline** (`daemon.py` 723-890, 1520-1545, `trace_store.py`) | per-Session event tails, trace sequence, audiences | publish, persist, project, notify | order across tasks, consumers that fail |
| **Tool loops** (`session/tool_loop_session_runtime.py`, `scheduler.py`) | queue, worker, turn's task, memory and its file | submit, cancel, close, model and tool calls | lost wakeup when the worker ends, cancellation at any await, one Finished per turn |
| **Ingress** (`channel/agent/implementation/feishu.py` 400-620, `daemon.py` 609-700, 1639-1765, 2764-2974) | connection, fragments, tasks of the main loop, seen message ids, bindings | receive, combine, acknowledge, deduplicate, route, bind | redelivery, lost acknowledgements, dead connections, a Session made while messages come |
| **HTTP channel** (`channel/agent/implementation/http.py`) | conversations, targets, event rings, cursors | message, poll, create, bind, roll back | threads under one lock, ring overflow, expired cursor, limits |
| **Web client** (`webui/app.ts`, `storage.ts`, `tasks.ts`) | selected Task, cursors, polling generation, localStorage | poll, send, select, reset, reload | answers that come late, a daemon that starts anew, a cursor that has expired |
| **Live cards** (`feishu.py`, `feishu_livecard.py`, `throttler.py`) | card, throttler buffer, default thread pool | feed, flush, roll, close | roll against flush, last flush, threads that wait for threads |
| **Ledger files** (`_atomic.py`, `store.py` 44-90) | file, .bak | atomic write, read with fallback | crash between two renames |
| **Process frame** (`cli.py`, `singleinstance.py`, `daemon.run`, `_shutdown`) | lock file, exit status | start, reboot, shutdown | order of the shutdown |
| LLM, forge, scan, Android client | - | calls to external programs, user interface | not modelled, see section 8 |

How they interact: the channels call `_handle_channel_message`, each message in a
task of its own; it reaches a runtime through the registry, or a tool loop. The
tool loops' tools call the same operations. A runtime calls back into the daemon
through its hooks (`on_started`, `prepare_turn`, `execute_turn`, ...), and publishes
events that the daemon persists, feeds to the delegation ledger and projects to the
channels. Agents call the control server from outside (`fdx bg`, `fdx delegation
report`). What makes each component correct is stated with its module below, or in
the plan.

## 2. Modules

| Module | What it is |
|---|---|
| `AcpSession` | one Session: its record, the generations of its runtime, everything that reaches it, shutdown, crash, restart |
| `TurnService` | what a Session promises: each accepted input is served at most once, one turn at a time, and gets one outcome |
| `AgentSlots` | how Sessions come into being and how many may be |
| `Delegation` | the Project Manager's delegations, the Workers' turns that carry them, the ledger across restarts; a Worker is used as a `TurnService` |
| `BgJobs` | background jobs: their processes, ledger and watchers, and the way of a result back to its Session |
| `AcpOutput` | the way of an agent's output to the trace and the conversations, over the turns of one runtime |
| `ToolLoop` | the runtime of the dispatcher or of a Project Manager, with its memory and its events; it implements `TurnService` too |
| `Ingress` | the way of a user's message from Feishu's server to the Session, or the console, that takes it |
| `HttpChannel`, `WebClient` | the HTTP channel's conversations and rings; a browser that polls and sends over it (`WebClient` extends `HttpChannel`) |
| `LiveCard` | the presentation of turns in Feishu: card, throttler, calls and the thread pool they share |
| `LedgerFile` | the Session ledger and its file, one step per file operation |
| `MCAcpSession`, `MCAgentSlots`, `MCDelegation`, `MCBgJobs`, `MCAcpOutput`, `MCToolLoop`, `MCIngress`, `MCWebClient`, `MCLiveCard`, `MCLedgerFile` | the small instances TLC checks |
| `AcpSessionProofs`, `AgentSlotsProofs`, `DelegationProofs`, `FeishuProofs` (of `Ingress` and `LiveCard`), `LedgerFileProofs`, `OutputProofs` (of `AcpOutput` and `BgJobs`), `ToolLoopProofs`, `WebClientProofs` (with `HttpChannel`) | the theorems |

How they compose. `TurnService` is the contract between whoever gives a Session work and the
runtime that does it: `AcpSession` and `ToolLoop` implement it, and `Delegation` uses its
Workers only as TurnServices and checks that it does. What `AgentSlots` assumes of the
Project Manager (one tool call at a time) is `ToolLoop`'s `Implements`. `BgJobs`
lets a Session come and go as `AcpSession` does and hands it results, which `AcpSession`
merges. `WebClient` runs on top of `HttpChannel`'s state.

In every module an operator under a comment "Variant" is the following definition
with a plausible bug. The specifications do not use the variants: with one of them
in its place, the run named for it in `PROJECT.json` finds a property violated,
which shows that the property depends on that piece of the code.

### AcpSession

| Model | Code |
|---|---|
| `status`, `resumable` | `Session.status`, `Session.agent_session_id` in the ledger |
| `current`, `launched` | the runtime in the registry, the runtimes `_launch` has made |
| `worker[g]` | the await of `AcpSessionRuntime._run` and its hooks: `fresh` (task created), `starting` (`agent.start`), `started`/`startFailed`/`terminating`/`suspending` (a notice is being sent), `ready`/`wait` (`queue.get`), `locking` (turn lock), `mirroring`, `opening`, `prompting` (the three publications and the prompt), `cancelling` (prompt asked to cancel), `settling`/`failing`/`unwinding` (the turn's end), `draining`, `closing` (`_close_session`), `dead` |
| `queue`, `batch`, `item`, `termination`, `closed`, `idle` | `_queue`, `_pending_background_batch`, the item taken, `_terminate_status`, `_closed`, `_idle` |
| `lock` | the Session's `asyncio.Lock` in `_session_turn_lock` |
| `daemon`, `target` | where `_shutdown` stands |
| `fate` | history: what became of each input |

An input is only an identity; the text of turns, models, titles and audiences are
left out. A background result is a member of a batch; all results have the same
guidance text, as in the code. The registry, queue and lock behave as the code has
them, including what a cancelled task does at each await: a task that never ran
never reaches its `finally`, a turn past `output_started` publishes "interrupted".
A consumer that raises while an event is published (each is caught and logged in
`_emit_session_event`) and the loss of a notice (`_safe_send_text` catches) change
nothing in this state and are left out.

What a stop leaves of a queue is `WithoutBatches(q)`, given by the positions that stay (`Staying`,
`Nth`) and not by a recursion, so that it can be reasoned about.

Properties: `OneGenerationActs` (`TurnsExclusive` and `OneLiveGeneration`),
`LedgerTracksWorker`, `EveryInputAccounted` (with `WaitIdleIsHonest`), `PendingBatchIsLast`,
`NoOrphanAgent`, `LossesHaveReasons`, refinement of `TurnService`, and with fairness
`NothingWaitsForever` (`EveryInputEnds`, `StopIsObeyed`, `ShutdownCompletes`).

Where inputs are lost. `EveryInputAccounted` says where an input is, not that it is served: the code throws
inputs away. `LossesHaveReasons` says when. An input is due (`Due`) if the registered worker goes on and has it in hand
or in its queue, before any stop marker; a due input stays due until it runs, unless the agent fails (`AgentFails`), a
stop drops a background result (`StopDrops`), the daemon goes down, or the idle timer fires in the iteration in
which the input arrived (`TimerRaces`). The last is a loss nobody intended: the input stays in the queue of a worker that is
suspending. There, and behind a stop marker, the idle event is set with inputs still queued,
so `wait_idle` says that nothing is left to do; `WaitIdleIsHonest` claims it only of
workers that go on, and of none while a turn runs.

### AgentSlots

`call[c]` is the await at which a call of /run, spawn_agent, create_session or
/attach stands: `briefing` (spawn_agent with an issue asks for its text before it reserves), `worktree` (git), `thread` (the channel makes the thread),
`undoing` (the worktree is removed), `probing` (the probe of /attach). `pending` is
`_pending_agent_launches`; `runtimes` the ACP runtimes in the registry; `recorded`
the ledger; `worktree[c]` what create_session left on disk; `severed` is history:
the calls that were cancelled by `_shutdown`, cut by a crash, or whose compensation
failed. The code between the last await of a call and its end (record, launch,
register, release) is one action, `ThreadMade`. That a Project Manager's calls do not overlap
(`ManagerFree`) is the tool loop's doing: `ToolLoopSessionRuntime._run` executes one
turn at a time, and the loop of `scheduler.py` one tool call at a time.

### Delegation

`record`, `seq` are `DelegationStore`, `disk` its file after the last flush.
`waiting`, `serving`, `stage` and `booting` are the part of a Worker's runtime that
matters here; `WorkersAreTurnServices` checks that this simpler Worker is a
`TurnService`, the specification `AcpSession` implements. A Worker between the
end of one runtime and the start of the next is seen as one Worker: the turn lock keeps their
turns apart (`TurnsExclusive`). A delegated turn is sent, recorded and answered
in one action, because `_send_turn_to_session` contains no await.
`CancelWorkers` is the step of `_shutdown` that records all Sessions suspended and cancels
their workers: a turn whose output has begun will publish "interrupted", an
event on its way is cut. The Manager has a conversation, the one it delegated from; that its project is removed before a
result comes, after which nobody is told, is left out. Reports still arrive then (`ThreadingHTTPServer.shutdown`
does not wait for the requests it has accepted). `told` and `outcome` are history.

### BgJobs

| Model | Code |
|---|---|
| `seq`, `owner`, `status` | `JobStore`'s last id, `Job.session_id`, `Job.status`; every change is flushed, so memory and file agree |
| `proc`, `signal` | the operating system's process and who killed it first |
| `table` | `_bg_procs` |
| `watcher[j]` | the await of the job's coroutines: `spawning` (`create_subprocess_exec`), `waiting` (`wait_for(proc.wait())`), `reaping` (`proc.wait()` after the timeout's kill), `posting` (the result goes to the thread), `telling` (the main line is told) |
| `word[j]` | which of the sentences of `_deliver_bg_result` the main line gets |
| `runtime`, `recorded` | is a runtime registered for the Session (its agent then holds a control token); its record is active, terminal or cleared |
| `up` | the daemon's process |
| `given`, `left` | history: results put into a runtime; jobs recorded as running that nobody watches |

`Run`, `Kill` are the control server's operations; `Spawned`, `SpawnFails`,
`ProcEnds`, `Expires`, `Exited`, `Posted`, `Told` the life of a job; `Resumes`,
`Recorded`, `Leaves`, `Cleared` what a Session may do at any moment (AcpSession says
when exactly: here it is free to, which includes all of that). `Down` is a shutdown, which
awaits neither jobs nor watchers, or a crash: a process may survive it. `left` gets the jobs
that were running then, and a job whose log could not be opened: `_ctl_bg_run`
records it before it opens the log and leaves the record behind. Listing and reading
logs change nothing.

Properties: `JobsAccounted` (`RunningIsWatched` and `LiveIsKillable`), `ToldAsGiven`, and
`JobsEnd` (`SettledForGood`, and with fairness `EveryEndIsTold` and `CondemnedEnd`).

One observation, as modelled: `_watch_bg_job` records `killed` only after its own timeout. A
job ended by `fdx bg kill` is recorded as `exited`, although the comment on
`Job.status` (`store.py:793`) has `killed` for a job that was killed.

### AcpOutput

| Model | Code |
|---|---|
| `stage` | the await at which the worker stands in a turn: `mirroring`, `opening` (publication of the input, of Started), `prompting`, `finishing` (publication of Finished), `announcing` (`_wait_runtime_events` before the notice), `flushing` (the same in `_finish_agent_turn_projection`), `leaving` (out of the registry, in `_close_session`) |
| `turn`, `chunks` | `_current_turn_id`, `_message_chunks` |
| `buffer`, `last` | `_message_buf` of the ACP client, `Session.last_output` |
| `updates` | `session_update` handlers that wait for `_session_update_lock`, first come first served |
| `writers` | publications that wait for the trace's thread (`asyncio.to_thread` in `_emit_session_event`) |
| `strays` | threads whose publication was cancelled |
| `trace` | `SessionTraceStore` |
| `tail` | the chain of projections that `_runtime_event_tails` ends |
| `audience` | the entries of `_turn_audiences` |
| `shown`, `noticed` | what the conversation got; the turns announced as completed |
| `asked`, `sent` | the turn whose prompt the agent is answering; history: what it has sent |

`session_update` runs in a task of its own for each notification; the library
calls them in the order of arrival, and resolves the prompt's response after the handlers
started before it (`test_prompt_waits_for_received_update_callbacks`,
`tests/test_acp_extract.py`). That is modelled (`PromptReturns`) and not verified;
without it `FinishedIsWhole` fails. A turn is cut by `CancelWorker` at any await.
Plans and thoughts are handled as tool calls and messages are. An append that raises
is logged and leaves a gap in the trace; a channel that raises is logged: neither changes
anything else. A replaced runtime's late updates are refused by `on_output`, hence
`heard`. One conversation follows the Session; each of several would get the same.

Properties: `FinishedIsWhole` (a Finished has all of the turn's text, as `last_output`
has), `ShownInOrder` (trace and conversation have each event once, in order, except for the rest
of a turn that was cut or failed; nothing of a turn is shown after the next begins, and the
notice comes after the Finished), and with fairness `TurnsEnd`.

One observation beyond the bounds: `_wait_runtime_events` goes on while the Session
has a projection queued, and an agent whose turn was cut may stream until it is
closed, which comes after; without a bound on updates the shutdown has none either.

### ToolLoop

| Model | Code |
|---|---|
| `registered`, `closed`, `state`, `pending`, `idle` | the runtime in the registry, `_closed`, `_state`, `_pending`, `_idle` |
| `worker` | `_worker`: `ready` (created, has not run), `waits` (for the turn's task), `done` |
| `current` | `_current_task`: its turn; `created`, `asks` (the model), `calls` (tools), `cancelling` (the cancellation has not reached it), `cancelled`, `done`; the rounds of `run_tool_loop` |
| `closing` | where `close` stands: it cancels, then awaits the worker |
| `memory`, `disk` | `SchedulerMemory._turns` and its file |
| `tail`, `shown` | the chain of `_queue_runtime_event`'s tasks; what came out of it (history) |
| `daemon` | the serving daemon, `_shutdown` closing the runtimes, then waiting for events, the process gone |

A worker that finds its queue empty ends; whether `submit` sees it as ended or still there
is decided at the same awaits as in the code. A turn is cancelled at any of its awaits, also
before its task has run once. A flush of the memory may fail, which is logged. Texts,
models and tools are left out: a tool is a step whose exception is a result like any other.

Properties: `MemoryIsWhole` (the model is told of the last turns that were answered, in order,
of none that was cut, also after a restart), `TurnsShownWhole`, refinement of
`TurnService`, and with fairness `EveryTurnIsAnswered` (no lost wakeup).
`ToolLoopConsistent` is the module's type and flag invariant; it is proved.

Observations, as modelled: `_shutdown` closes a snapshot of the runtimes, so one made
afterwards is never closed; what is submitted to a closed runtime raises and its sender gets
no answer; tools that ran in a turn that was cancelled, or cut by a crash, are in no
memory; a crash between the memory's flush and the Finished leaves a turn remembered
that was never shown.

### Ingress

| Model | Code |
|---|---|
| `server`, `wire`, `link` | what Feishu's server still pushes; frames on the websocket; the connection and its thread (`_ws_run_forever`) |
| `cache` | `_frag_cache`, the parts of messages that come in several frames |
| `tasks` | the handlers that `_dispatch_event` has scheduled on the main loop |
| `seen` | `_seen_message_keys`, the window of `_is_duplicate` |
| `ledger`, `bound`, `managed` | the Sessions' records, `_conversation_session_ids`, `ManagerConversationStore` |
| `log` | history: who took which message |

Feishu's side (`server`, the push) is external and taken from how `feishu.py` uses it: what
is not acknowledged is pushed again. A fault is a connection or a thread that ends, a
fragment that expires, a dispatch that raises. `Taker` is the decision of
`_handle_channel_message`: a binding of a Session that still exists, else the Session whose record names the
conversation, else the console. `Handled` is the part of a handler up to its first await; a command there may be
/manager, which gives the project's conversation to its Project Manager (`OpensManager`), as a client does
that opens one (`ManagerOpened`). A conversation made for a Session (`Homes`) is made for that one only. A Session that has ended may be
resumed (`SessionResumed`), and one whose record is cleared may have a runtime left, which keeps its bindings alive
(`unrecorded`).

Properties: `ExecutedOnce`, `AckedIsTaken`, `RepliesReachSession`, and with fairness
`EveryTextIsTaken`. They say as much as the code can give, and no more: the window is bounded and in memory, so
a message whose acknowledgement was lost is executed again after a restart (`docs/setup.md:171`
says, without this exception, that messages are deduplicated); acknowledged messages that wait as tasks are lost when the
process ends; a text in a new thread that comes before its Session's record belongs to the
console, and if it is natural language the thread becomes the dispatcher's and the launch of its
Session raises.

### HttpChannel and WebClient

`HttpChannel` has the maps under `_state_lock`: `open`, `events`, `next`, `targets`,
`owner` are `_conversations`, its states and `_target_conversations`; `bound` is the daemon's
binding and `opening` a Task conversation between its creation and its binding. One use of the lock is one
action, and so is a use for a target followed by one for the event that names it (`ShowEvent`, `SendText`,
`CreateThread`): between the two, no other request can tell the difference. `page` in `WebClient` is the state of `app.ts` with what `localStorage` keeps; `op` says at which await
`connect`, `sendMessage` and `selectTask` stand; a poll is in `page.polls` from the
request to the reading of its answer, and bumping `pollGeneration` empties the set. `shown` and `told`
are history: events rendered, and events a notice reported lost or that a reload took from the screen.

A page of events is the tail of the ring past the cursor (`After`): a ring is in order.

Properties: `ChannelConsistent`, `EventsShownOnce` (`NoSilentGap` and `ShownOnce`),
`TaskMessagesReachTask`, and with fairness `CatchesUp`.

A Session ends, is resumed or vanishes from the ledger at any moment (`ChangeSession`). `recoverPollingError` looks at the
generation of the poll that failed and not at its conversation, so a poll must be ended whenever the conversation
shown changes. `Select` of another Task and `Reset` do that. Two ways do not: `applyTasks` leaves a Task that vanished for the
dispatcher without bumping `pollGeneration`; and a Task that was selected after its end
gets a conversation when it is resumed and clicked again, without a bump because it is the selected one (`app.ts:1207`). A poll whose cursor has expired
then sets the cursor of the conversation shown now. `page.crossed` (history) has the conversations that happened to,
and `EventsShownOnce` holds for all others. It is checked and proved with these steps in the model;
`web_vanished` and `web_resumed` show that both ways are reached (section 4).

Two more observations: conversations (128) and targets (4096) are never freed, after which requests get
429; and `TaskMessagesReachTask` excepts a restart between the health check and the message, which the client
cannot see.

### LiveCard

`live[t]` is the presentation of a turn: `body`, `id`, `dirty`, `status` are `LiveCard`'s
fields, `loop`, `pending`, `lock` the throttler's task, event and lock, `finish` the await
of `AgentOutputFinished`'s projection, `rolls` the footer patches that have not begun. `pool` is the default
`ThreadPoolExecutor`: projections hold a thread of it in `future.result()` until the main
loop has done their work, and the calls to Feishu need one. `cards` is what the conversation shows.
Texts are numbered; a card holds `Room` of them. Modes are a card, plain messages (the text stream), and
a conversation that did not see the turn start. Time is left out: a window may end at any moment.

Properties: `LiveConsistent` (the lock excludes), `NoTextTwice`, `OutputIsWhole`
(`WholeWhenClosed` and `DoneIsWhole`), and with fairness `PoolDrains`: the pool gets empty again and again, or it is
`Starved` for good, each of its threads held by a projection that waits for a call that waits for a
thread. The code does starve (section 4); what `PoolDrains` says is that nothing else stops it, and
that what looks like it for a moment and is not (a call that has its thread) passes.

Observations: `WholeWhenClosed` excepts a card that was rolled over while its patch was
under way (`raced`), because `_patch_roll_footer` takes no lock and the two patches race; and a POST that
is retried may make a second card, which is a fault here.

### LedgerFile

`mem` is `SessionStore` (its counter, active and ended Sessions, oldest first); `disk` the file and its
`.bak` as the running system sees them, `views` what a loss of power may leave of them until
the directory is synced. `stage` is the file operation of `atomic_write` that comes next. Every
mishap happens at most once: a flush that fails (`_flush` logs it), a rename to `.bak` that fails (ignored), a directory that is
not synced (as on Windows), a torn file that cannot be put aside, a file found damaged.

Properties: `SavedSurvives` (`NothingSavedIsLost`, `DamageCostsOneChange`), `IdsNeverReused`.
What they except is what the code does not cover: a flush that failed is only logged, and a crash after
it gives an id again (`store.py:4-5` says never); when a torn file cannot be archived, the next flush makes it
the `.bak`. Not in the model: a file that parses but has a status or field the loader does
not know empties the store, and two flushes later both copies are gone
(`delegation_ledger_lost` is this for delegations).

## 3. The runs

| Run | Question | Distinct states |
|---|---|---|
| `acp_generations` | do two generations of a Session, two turns, a shutdown, crash and restart keep every safety property | 449 thousand |
| `acp_batches` | do two background results and a turn merge only where they may; does everything end | 103 thousand |
| `agent_slots` | slots, worktrees and names under one /run, three create_session (two of one name), one /attach and an old Session, two slots | 170 thousand |
| `delegation` | two delegations to one Worker, three rounds | 225 thousand |
| `delegation_ledger_lost` | does a restart find the delegations that were written: **no** | - |
| `bg_jobs` | two jobs of one Session that starts, ends and is cleared at any moment, kills, timeouts, restarts: is every end recorded once, told and given at most once | 44 thousand |
| `acp_output` | two turns and two updates, with failures and a shutdown at any await: is everything logged and shown, once and in order, before the next turn and the notice | 115 thousand |
| `tool_loop` | two turns of a tool loop, two rounds each, a memory of one turn, a failing flush, cancellation, shutdown, crash and restart: is every turn answered, shown whole and remembered | 89 thousand |
| `web_client` | a browser with three actions or failures, three conversations, rings of two events, two daemons, a Task that ends, is resumed or vanishes: is every event shown once or reported lost | 610 thousand |
| `live_card` | a turn of three texts and one of one text, cards of two, a failing call, a pool of two threads: is the output shown once and whole, and what stops the pool | 761 thousand |
| `ledger_file` | four changes of the ledger, two mishaps, deaths at any file operation: does what was saved survive | 290 thousand |
| `ingress` | three messages (one in two frames, one ignored), a window of one, two faults, two daemons: is each text taken, once, by its Session, while that ends, is resumed and is cleared | 828 thousand |

Eight more configurations each have one property a document, a comment or the program's own notice states and the code
does not keep; TLC finds each violated (`tlc -config X.cfg MC....tla`, module in
section 4): `acp_lost_turn`, `acp_shutdown_ledger`, `attach_race`, `delegation_hanging`,
`output_after_finish`, `output_pool`, `web_vanished`, `web_resumed`.

The bounds. Two generations are needed, and enough, for one to unwind while its
successor runs; a third only repeats the pair, since a generation that has left the
registry is never looked up again. Two turns give a queue with an order; one
turn and two results give every order of merging around it. `MaxMarkers` bounds the
stop markers that wait at once: with one, a second /stop before the first is
taken is not tried, which would only add a second marker behind the first one.
`MaxAgents` = 2 with five calls and an old Session fills the slots while calls are
under way. Three turns for two delegations let one be continued while the
other is queued. Two jobs let one end while the other is under way, and reuse
an id if the code would; jobs of different Sessions share nothing but the counter (two
Sessions with two jobs have 1.0 million states and no error either, in a time too long for a
routine run). Two updates are two of one turn, or one of each of two turns; the second turn
is there for what the first may leave behind. Turns are interchangeable, hence the symmetry of
`acp_generations`; it is not used with temporal properties that need liveness.

A memory of one turn with two turns makes the tool loop forget one; two rounds let the limit of
rounds be reached with a tool call before it; two lives let a turn of the second find what the first
left. A ring of two events and three cursors lets a cursor expire once in each conversation, with the recovery limit
of one attempt reached; two of the three conversations fit, so that one is refused. Three texts on cards of two
fill and roll a card, and leave a second to be finished; the second turn (`Brief`) is there to hold the pool's other
thread, so that as many turns end at once as there are threads. Four changes fill the file, its backup
and one change in memory after two Sessions have ended, with `Keep` = 1 so that one is pruned. A window of
one message id is full after the first, so a second message makes the daemon forget. `MaxClicks`, `MaxFaults`, `MaxFailures`,
`MaxMishaps` and `MaxLives` bound what users do and what goes wrong in a behaviour; everything else is free.

The configurations set `CHECK_DEADLOCK FALSE` where the models do stop:
when every input, turn, change or event that the bounds allow is used up. Those of `AgentSlots`,
`Delegation` and `BgJobs` check for deadlock.

Fairness. `AcpSession!FairSpec` has weak fairness of each worker's steps and of
`_shutdown`'s steps: the event loop runs whatever is ready. It includes that an
agent in the end starts or fails and answers or fails; agents that hang
are outside the daemon's control (there is no prompt timeout in the code). No user,
job or idle timer is forced to act. `Delegation!FairSpec` has the same for the
Worker's progress, and nothing for the Manager, the reports or the shutdown.
`BgJobs!FairJobs` has weak fairness of each watcher's steps, and a process that has
been killed ends; one that has not been may run for ever.
`AcpOutput!FairSpec` has weak fairness of the threads, handlers, projections and the
worker together, and none of the agent: a prompt need not be answered.
`ToolLoop!FairSpec` has weak fairness of the worker, the turn's task and the events; the model
answers or fails because its calls time out (`llm.py:195`), and the tools that call programs have timeouts too.
`Ingress!FairSpec` has the connection's loop, the watchdog, the frames and the main loop, and of Feishu that it
pushes what is pending. `WebClient!FairSpec` has the polling loop and `selectTask`: a request that does not fail is answered.
`LiveCard!FairCards` has the tasks of each presentation and the threads that work for it: the calls have timeouts.

## 4. What disagrees with the documents

The fifth is a run with expectation `violation` and listed in `PROJECT.json`; the other
configurations are run by hand.

1. **A turn is accepted and lost** (`acp_lost_turn.cfg`, `MCAcpSession`). `try_submit` says it enqueues
   only while the worker can still consume the turn (`acp_session_runtime.py:199`). After /stop or /done has
   queued the marker, or while the idle notice is being sent, it still returns a receipt,
   and `close()` empties the queue. No message tells the sender. The same happens to an input that the idle timer races
(`TimerRaces`), and `wait_idle` returns with it still queued.
2. **The shutdown's ledger** (`acp_shutdown_ledger.cfg`, `MCAcpSession`). `_shutdown` says new requests
   are stopped first (`daemon.py:4022`) and the ledger is accurate after a restart (4048). Only the control
   server is stopped first; a reply during the shutdown revives a suspended Session.
3. **Attached twice** (`attach_race.cfg`, `MCAgentSlots`). The duplicate check of /attach (`daemon.py:2277`) is made before two
   awaits; two concurrent attachments of one agent session both succeed.
4. **A delegation that hangs** (`delegation_hanging.cfg`, `MCDelegation`). `docs/usage.md:99` says that no delegation hangs for ever. A delegated turn still queued
   when its Worker leaves publishes no event: the delegation stays `submitted`, and
   `continue_delegation` refuses it.
5. **The delegation ledger is dropped** (`delegation_ledger_lost`, `MCDelegation`). A turn cut by the
   shutdown settles its delegation as `interrupted`, which `DelegationStore.update` assigns
   before it refuses it; a later flush writes it and the next start drops the whole ledger.
6. **Output after Finished** (`output_after_finish.cfg`, `MCAcpOutput`). `CONTEXT.md:9` says a turn's output ends
   with its one Finished. A worker cancelled by `_shutdown` publishes `interrupted` while
   a handler may be publishing a Delta, and the agent may send more until it is closed.
7. **The pool of threads that wait for themselves** (`output_pool.cfg`, `MCLiveCard`). `feishu_livecard.py:127`
   says that a card's failures must never drag down the worker. When as many turns end at once as the default
   executor has threads (`min(32, cpu + 4)`), each projection holds a thread in `future.result()`
   (`feishu.py:764`) while its last call waits for one: none goes on, ever. The run (`PoolAlwaysDrains`) shows it with two
   turns and two threads.
8. **Another conversation's notice** (`web_vanished.cfg`, `web_resumed.cfg`, `MCWebClient`). The notice of `app.ts:1352` tells the user that earlier
   events of the timeline shown were dropped, and at which cursor it goes on. After a Task has vanished, or
   was clicked again after its end, it may be the answer to the poll of the conversation shown before:
   the cursor of the one shown now is set to another's, and its events are skipped without a word, or shown again. `web_resumed` shows it for the
   conversation of a Task that was resumed.

## 5. What is proved

For every value of the constants (any number of inputs, generations, calls, slots):

`AcpSessionProofs`
- `OneActs`: `OneGenerationActs`, from the two theorems `OneLives` and `TurnsExclude` below.
- `TypeCorrect`: `TypeOK`.
- `OneLives`: `OneLiveGeneration`. It is not inductive alone; `GenInv` adds
  `Generations` (generations are launched in turn, a generation not yet launched has
  no worker, after the process has ended none lives, only a closing worker is
  closed). One step of the proof per action: only `Launch` makes a worker live, and
  it does so when no runtime is registered, that is when none lives.
- `LedgerTracks`: `LedgerTracksWorker`, inductive relative to `GenInv`: only the
  registered generation writes the record, and it is the only one that lives.
- `TurnsExclude`: `TurnsExclusive`, from the inductive invariant `LockHeldByTurn`
  (a worker is in a turn exactly when it holds the lock), also during the shutdown,
  when `OneLiveGeneration` no longer helps.
- `InputsAccounted`: `EveryInputAccounted`, from `Accounts`, which is three things: what each generation's queue, worker and idle
  event may be (`Held`); that an input is queued exactly when it waits at one place, a position of a queue or the hands of a worker
  that waits for the lock (`Waits`); and that it runs exactly when it is of the turn a worker executes (`Runs`). It needs the invariants of
  generations, lock and shutdown above. Since a stop drops batches from the middle of a queue, lemmas about `WithoutBatches` say what it
  keeps and in which order.
- `BatchIsLast`: `PendingBatchIsLast`, from the same invariant.
- `LossesAreExplained`: `LossesHaveReasons`. Each action leaves a due input where it is, moves it towards the head of the same queue,
  takes it, or is one of the exceptions: appending keeps what is before a marker (`EnqueueKeeps`, `BlockKeeps`), and a stop, which drops
  batches from the middle, keeps every turn and the order of the turns and the marker (`StayAhead`, `StopKeeps`).
- `IsTurnService`: `ImplementsTurnService`. Under that invariant each step is a `FateStep` (an input
  arrives, a turn begins, ends or is dropped, a generation is taken down with its turn), and each of those is a step of `TurnService`.
- `NobodyOrphaned`: `NoOrphanAgent`. The inductive part is `Attended`: the shutdown never finds a worker
  that is already unwinding in the registry, so a runtime closed before its worker was through is
  the one `_shutdown` itself closes.

`AgentSlotsProofs`
- `Balanced`, `Bounded`, `SlotTypes`: the counter is the number of calls that hold a
  reservation, never negative, and with the registered runtimes at most
  `max_agents`; `Admission` puts them together (`SlotsAccounted`). The invariant `SlotInv` is their conjunction; five lemmas state how
  a step changes the set of holders and its cardinality, and each action is one of them.
- `Owned`, `NamesUnique`, together `Creation` (`CreationsOwned`): `NameInv` adds that a Manager has one call under way and
  that a call that holds a reservation has a name no record has yet.

`OutputProofs`, of `AcpOutput`
- `OutputIsFinished`, `OutputInOrder` (and `OutputTyped`): `FinishedIsWhole`, `ShownInOrder`. One inductive invariant, `OutputInv`, with one
  lemma per action. The properties are about what was logged; the invariant has to speak of what is on its way there. `Places`: an event that is still
  moving is of the turn begun last, and an agent's event is one the agent has sent. `Publication`, `Standing`: what is published where the worker
  stands, and that outside the prompt of a turn that was neither cut nor failed no update waits or is published. `Order`: in such a turn
  what is queued comes after what is shown, what is published after what is queued, and what waits for a handler after all. From the moment a turn
  is cut or fails nothing of the kind is claimed: its events are all of one turn, and the logs are in order but for that turn (`Logs`).
  `Heard`: a turn has no update before its prompt, and no Finished before the prompt has returned. `Telling`: each thing the agent has sent is shown, queued, published or waiting, so that an empty queue
  means that all is shown. `Wholes`: what was said is what the worker has in hand and what still waits in messages, in order.
  What the agent's library promises (the answer comes after its handlers) is used in one place, the lemma about `PromptReturns`.

`OutputProofs`, of `BgJobs`
- `TypeCorrect`, `Watched`, `Killable` (together `Accounted`: `JobsAccounted`), `GivenOnce`:
  `JobTypes`, `RunningIsWatched`, `LiveIsKillable`, `ToldAsGiven`. They follow from one inductive invariant, `IInv`, which
  says of each job how ledger, process, table, watcher and word fit together: it is
  needed because none of the four properties alone says, for instance, that a
  watcher which posts a result has a settled record and an ended process. One lemma per action.
- `EndIsFinal`: `SettledForGood`, an action property, from the same invariant.

`ToolLoopProofs`
- `FlagsAgree`: `ToolLoopConsistent`. The inductive invariant `IInv` has four parts: the types, where a
  turn may be (queued, running or ended, and only one of them), that a turn's task exists exactly
  while the worker waits for it, and how the flags follow. One lemma per part, one step per action.
- `Remembers`: `MemoryIsWhole`. `Memory` says that the turns told to the model are the last `MaxTurns` of those that
  ended with an answer, and that the file has the same unless a flush has failed since.
- `ShowsWhole`: `TurnsShownWhole`. What was shown says too little by itself, because its events were queued earlier. The invariant
  `LineInv` is about one line, what was shown followed by what waits to be: an event that is shown moves from one part to the
  other and keeps its place. `Story` says of the line that events are single and in order (`Ordered`), which of them a turn that is queued, in hand
  or over has (`Marks`, `Endings`), and that turns queued are accepted in the order of the queue, after all those begun (`Queued`).
  Each action appends to the line, which one lemma per kind of event carries through, or takes an event of no turn out of
  it (`Alike`), or, when the process goes, cuts it off where it is shown (`StoryCut`).
- `Implements`: `ImplementsTurnService`. With `IInv` each action is one of
  `TurnService`'s or a stutter: a turn is begun when the worker takes it, and has ended when its
  outcome is known, which may be before its task is gone.

`LedgerFileProofs`
- `Survives`: `SavedSurvives`. `FileInv` says of every view a loss of power may leave what a
  start from it would load (`Worth`) and what it would load from the backup alone (`Reserve`).
  Neither property is inductive without the stages of a flush: the new file is synced before a rename, the
  file in use is missing between the renames unless its backup failed, and the backup then holds
  at least the last saved change, which becomes `before` when the flush is counted. A torn file exists only
  after damage, and none is in use while the daemon runs unless it could not be put aside.

- `NeverReused`: `IdsNeverReused`. `Covered` adds to `FileInv` that without the mishaps the property excepts each id
  given is at most the counter in memory and the counter of every view that a start may load.

`FeishuProofs`, of `Ingress`
- `Consistent`: `IngressConsistent`; `Once`: `ExecutedOnce`; `Acked`: `AckedIsTaken`; `Replies`: `RepliesReachSession`. The invariant `IngressInv`
  adds to them `Window` (the window of ids is the end of the log of messages taken, each once; while it is not full it has all
  that this life of the daemon took) and `HomesKept` (a conversation made for a Session is bound to no other taker). A
  message that is taken again must have left the window, and then `Capacity` others were taken since.

`FeishuProofs`, of `LiveCard`
- `CardsConsistent`, `TextsOnce`, `CardsWhole`: `LiveConsistent`, `NoTextTwice`, `OutputIsWhole`. The invariant `CardInv` is about one
  turn at a time, as three values: its presentation, the cards of its conversation, and its items of the pool. `Locked` and `Busy` say which task is at the
  lock and that the call under way is its holder's; a card that is clean while the finishing task holds the lock is why a closed presentation has
  nothing left to show. `Ordered` speaks of every version of a card there is or will be - shown, on the way in a call, due in
  a footer patch, or being gathered - and says that versions of different cards never share a text: a roll-over moves
  one from the last place to the one before. `Kept` says that every text fed is in one of those places, and
  that a clean card is shown as it stands or is on its way. `Ordered` is claimed while no call went wrong, `Kept` while also no card was rolled over
  during its patch (`raced`). `Ended` does not depend on either. Each part of a step (a text fed, a roll-over, a call
  made, a call that returns) has a lemma about the three values alone, and the lemma of an action applies it to its turn (`TurnSteps`: the others stay).

`WebClientProofs`
- `Consistent`: `ChannelConsistent`, from `ChannelInv`: a ring is the last of the cursors given out (`Rings`), the two maps of targets
  agree (`Maps`), a conversation that is not open has no events (`Closed`), and where the Task's conversation stands (`Threads`).
- `Reach`: `TaskMessagesReachTask`. `PageInv` adds what the page knows: no answer is of an older daemon than the one the page has seen (`Fit`),
  its Task conversation is bound in that daemon (`Attached`), and what each operation holds at its await (`Operating`, `Sending`).
- `ShownToUser`: `EventsShownOnce`. `TimelineInv` says that at most one request is out, from the saved cursor of a conversation that
  the page has, though perhaps not of the one shown (`OneRequest`), that what was shown or reported of a conversation that was not crossed is
  all up to its saved cursor (`Timeline`), that no such cursor runs ahead of the daemon it belongs to (`Behaved`), and that a
  conversation not used yet is blank (`Unused`). The answer to a request that is not about the conversation shown moves
  only the cursor of one that is crossed from then on.

`DelegationProofs`
- `Hearing`: `ResultIsTold`, and `Standing`: `NothingTakenBack`. `DelegationInv` says of each record, in
  memory and on disk, that an active round has been told to nobody and a settled one has been told or is
  being told by its own Worker, that no two delegations share a turn, and that the turns a Worker has
  queued or in hand are its own. The disk is part of it because a restart makes it the ledger: without it the
  invariant does not survive `Restart`.
- `Follows`: `LedgerFollowsWork`. `FollowInv` adds that a queue holds no turn twice, that a turn which is
  finishing has its outcome, and that the ledger on disk lags behind memory only for a turn that is over
  (the status "interrupted", which is not flushed).
- `WorkersServe`: `WorkersAreTurnServices`. One lemma per action of `TurnService` says which change of
  queue, turn in hand and outcomes is that action; each step of `Delegation` is one of them, or a stutter,
  for every Worker. A turn not issued yet has no outcome, which makes a new one fresh.

The assumptions are those the modules declare on their constants: bounds are naturals, sets of inputs and calls are
finite and disjoint, each Session of `Ingress` has a conversation of its own that is not the Project Manager's, a ring, a map and
the number of daemons are at least 1. TLC evaluates them on every run.

## 6. What is only model-checked

Liveness (`NothingWaitsForever`, `RunningSettles`, `TurnsEnd`, the leads-to parts of `JobsEnd`,
`EveryTurnIsAnswered`, `CatchesUp`, `PoolDrains`, `EveryTextIsTaken`) is outside the prover's reach: it needs ENABLED.
Every safety invariant of the runs has a theorem. `LedgerConsistent`, the type invariant of `LedgerFile`, is checked by adding it to
the INVARIANTS of its configuration.

## 7. Plan

What is left, in the order it matters:

1. `TraceStore`: gap-free sequence numbers under repeated appends, and the Timeline the clients read from it.
2. A model of the loaders that refuse a record they do not know, for each ledger.
3. A run on agent processes (probes and closing generations against `max_agents`).
4. The two channels side by side: one Session shown in a Feishu thread and a browser.

## 8. What is not modelled

The ACP protocol inside the agent's library, LLM back ends, forges and directory
scans (`llm.py`, `forge.py`, `_scanner.py`): calls whose only effects
on the daemon's state are to succeed, to fail or to take long, which the models have.
The Android client, the web client's rendering, history and task editor, workspace reads and
authentication of the HTTP API, texts, cards' layout, formatting and configuration parsing: no control state that
the properties speak of. `/model` changes one field of the record and no control. The Timeline, the
single-instance lock and the limiter of outgoing requests are small and on the plan or sequential.
