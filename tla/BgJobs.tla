------------------------------- MODULE BgJobs -------------------------------
(***************************************************************************)
(* Background jobs: processes the daemon runs for the agents (`fdx bg`),   *)
(* the ledger that records them, the watchers that wait for them, and the  *)
(* way a result takes back to the Session it belongs to.                   *)
(*                                                                         *)
(* What a Session does with a result it has been given is AcpSession's     *)
(* matter; here a Session has a runtime or not, and a record.              *)
(***************************************************************************)
EXTENDS Naturals

CONSTANTS Sessions, MaxJobs   \* MaxJobs: bound on the job ids
ASSUME BgJobsAssumption == MaxJobs \in Nat

Jobs     == 1..MaxJobs
NoOwner  == "nobody"
Statuses == {"none", "running", "exited", "killed"}

(* Where a job's coroutines stand: _launch_bg_job starts the process, then *)
(* _watch_bg_job waits for it (to end of itself, then after its timeout),  *)
(* shows the result in the Session's thread, and tells the main line.      *)
JobStages   == {"none", "spawning", "waiting", "reaping", "posting", "telling", "done"}
Awaiting == {"spawning", "waiting", "reaping"}
Words    == {"none", "missing", "continues", "resumed", "ended", "failed"}

VARIABLES
  up,       \* the daemon's process runs
  seq,      \* JobStore's last id
  owner,    \* per job: its Session
  status,   \* per job: its status in the ledger, in memory and on disk alike
  proc,     \* per job: its process, "none", "alive" or "ended"
  signal,   \* per job: who killed its process first, "none" if nobody
  table,    \* _bg_procs: the jobs that `fdx bg kill` can reach
  watcher,  \* per job: its stage
  word,     \* per job: what the main line is told of its end
  given,    \* per job: how often its result was put into a runtime (history)
  left,     \* jobs recorded as running that nobody watches (history)
  runtime,  \* per Session: a runtime is registered, and its agent has a token
  recorded  \* per Session: its record, "active", "terminal" or "gone"

ledger  == <<seq, owner, status>>
session == <<runtime, recorded>>
jobVars    == <<up, ledger, proc, signal, table, watcher, word, given, left, session>>

(* proc.kill: SIGKILL, without effect on a process that has ended.         *)
Hit(j, who) ==
  signal' = IF proc[j] = "alive" /\ signal[j] = "none"
            THEN [signal EXCEPT ![j] = who] ELSE signal

----------------------------------------------------------------------------
(* The control server's calls.  An operator headed by "Variant" changes    *)
(* the definition after it the way a bug would.                            *)

(* _ctl_bg_run up to its first await: the job is recorded, its log opened. *)
(* A log that cannot be opened leaves the record as it is.                 *)
Run(s) ==
  LET j == seq + 1 IN
  /\ up /\ runtime[s] /\ recorded[s] # "gone"
  /\ j \in Jobs /\ seq' = j
  /\ owner' = [owner EXCEPT ![j] = s]
  /\ status' = [status EXCEPT ![j] = "running"]
  /\ \/ watcher' = [watcher EXCEPT ![j] = "spawning"] /\ UNCHANGED left
     \/ left' = left \cup {j} /\ UNCHANGED watcher
  /\ UNCHANGED <<up, proc, signal, table, word, given, session>>

(* create_subprocess_exec returns.                                         *)
Spawned(j) ==
  /\ watcher[j] = "spawning"
  /\ watcher' = [watcher EXCEPT ![j] = "waiting"]
  /\ proc' = [proc EXCEPT ![j] = "alive"]
  /\ table' = table \cup {j}
  /\ UNCHANGED <<up, ledger, signal, word, given, left, session>>

(* It raises.  Variant: the record is left as it is.                       *)
SpawnFailsSilently(j) ==
  /\ watcher[j] = "spawning"
  /\ watcher' = [watcher EXCEPT ![j] = "none"]
  /\ UNCHANGED <<up, ledger, proc, signal, table, word, given, left, session>>

SpawnFails(j) ==
  /\ watcher[j] = "spawning"
  /\ watcher' = [watcher EXCEPT ![j] = "none"]
  /\ status' = [status EXCEPT ![j] = "killed"]
  /\ UNCHANGED <<up, seq, owner, proc, signal, table, word, given, left, session>>

(* `fdx bg kill` of one's own job; the watcher does the rest.              *)
Kill(s, j) ==
  /\ up /\ runtime[s] /\ owner[j] = s /\ j \in table
  /\ Hit(j, "kill")
  /\ UNCHANGED <<up, ledger, proc, table, watcher, word, given, left, session>>

----------------------------------------------------------------------------
(* The process and its watcher                                             *)

ProcEnds(j) ==
  /\ proc[j] = "alive"
  /\ proc' = [proc EXCEPT ![j] = "ended"]
  /\ UNCHANGED <<up, ledger, signal, table, watcher, word, given, left, session>>

(* wait_for gives up.  It may do so after the process has ended, as long as*)
(* the watcher has not been woken.                                         *)
Expires(j) ==
  /\ watcher[j] = "waiting"
  /\ watcher' = [watcher EXCEPT ![j] = "reaping"]
  /\ Hit(j, "timeout")
  /\ UNCHANGED <<up, ledger, proc, table, word, given, left, session>>

(* proc.wait returns: the ledger is brought up to date and, in the same    *)
(* step, _deliver_bg_result looks for the Session's record.                *)
(* Variant: a job that timed out is recorded, and forgotten.               *)
ExitedUntold(j) ==
  /\ watcher[j] \in {"waiting", "reaping"} /\ proc[j] = "ended"
  /\ table' = table \ {j}
  /\ status' = [status EXCEPT ![j] = IF watcher[j] = "reaping" THEN "killed" ELSE "exited"]
  /\ watcher' = [watcher EXCEPT ![j] = IF @ = "reaping" THEN "done" ELSE "posting"]
  /\ UNCHANGED <<up, seq, owner, proc, signal, word, given, left, session>>

Exited(j) ==
  /\ watcher[j] \in {"waiting", "reaping"} /\ proc[j] = "ended"
  /\ table' = table \ {j}
  /\ status' = [status EXCEPT ![j] = IF watcher[j] = "reaping" THEN "killed" ELSE "exited"]
  /\ IF recorded[owner[j]] = "gone"
     THEN /\ watcher' = [watcher EXCEPT ![j] = "telling"]
          /\ word' = [word EXCEPT ![j] = "missing"]
     ELSE /\ watcher' = [watcher EXCEPT ![j] = "posting"]
          /\ UNCHANGED word
  /\ UNCHANGED <<up, seq, owner, proc, signal, given, left, session>>

Announce(j, w) ==
  /\ watcher' = [watcher EXCEPT ![j] = "telling"]
  /\ word' = [word EXCEPT ![j] = w]

(* _try_resume: no slot left, no such agent, nothing to resume; or a new   *)
(* runtime, whose first turn is the result.                                *)
Revive(j) ==
  \/ /\ Announce(j, "failed")
     /\ UNCHANGED <<given, runtime>>
  \/ /\ Announce(j, "resumed")
     /\ given' = [given EXCEPT ![j] = @ + 1]
     /\ runtime' = [runtime EXCEPT ![owner[j]] = TRUE]

(* The thread has the result.  The runtime is looked up only now; a record *)
(* that was cleared meanwhile was terminal.  Variant: a finished Session   *)
(* is woken all the same.                                                  *)
PostedToAll(j) ==
  LET s == owner[j] IN
  /\ watcher[j] = "posting"
  /\ IF runtime[s]
     THEN /\ Announce(j, "continues")
          /\ given' = [given EXCEPT ![j] = @ + 1]
          /\ UNCHANGED runtime
     ELSE IF recorded[s] # "active"
     THEN /\ Announce(j, "ended")
          /\ given' = [given EXCEPT ![j] = @ + 1]
          /\ runtime' = [runtime EXCEPT ![s] = TRUE]
     ELSE Revive(j)
  /\ UNCHANGED <<up, ledger, proc, signal, table, left, recorded>>

Posted(j) ==
  LET s == owner[j] IN
  /\ watcher[j] = "posting"
  /\ IF runtime[s]
     THEN /\ Announce(j, "continues")
          /\ given' = [given EXCEPT ![j] = @ + 1]
          /\ UNCHANGED runtime
     ELSE IF recorded[s] # "active"
     THEN /\ Announce(j, "ended")
          /\ UNCHANGED <<given, runtime>>
     ELSE Revive(j)
  /\ UNCHANGED <<up, ledger, proc, signal, table, left, recorded>>

Told(j) ==
  /\ watcher[j] = "telling"
  /\ watcher' = [watcher EXCEPT ![j] = "done"]
  /\ UNCHANGED <<up, ledger, proc, signal, table, word, given, left, session>>

----------------------------------------------------------------------------
(* What happens to a Session meanwhile (AcpSession)                        *)

(* A reply or resume_task launches a runtime, on a finished Session too.   *)
Resumes(s) ==
  /\ up /\ ~runtime[s] /\ recorded[s] # "gone"
  /\ runtime' = [runtime EXCEPT ![s] = TRUE]
  /\ UNCHANGED <<up, ledger, proc, signal, table, watcher, word, given, left, recorded>>

(* The worker records that it runs or that it has been stopped; without a  *)
(* runtime, /stop, /done and mark_done write the record.                   *)
Recorded(s, r) ==
  /\ up /\ recorded[s] \notin {"gone", r}
  /\ runtime[s] \/ r = "terminal"
  /\ recorded' = [recorded EXCEPT ![s] = r]
  /\ UNCHANGED <<up, ledger, proc, signal, table, watcher, word, given, left, runtime>>

(* _close_session: the runtime and its token go.                           *)
Leaves(s) ==
  /\ up /\ runtime[s]
  /\ runtime' = [runtime EXCEPT ![s] = FALSE]
  /\ UNCHANGED <<up, ledger, proc, signal, table, watcher, word, given, left, recorded>>

Cleared(s) ==
  /\ up /\ recorded[s] = "terminal"
  /\ recorded' = [recorded EXCEPT ![s] = "gone"]
  /\ UNCHANGED <<up, ledger, proc, signal, table, watcher, word, given, left, runtime>>

----------------------------------------------------------------------------
(* The daemon ends, by a shutdown, which awaits neither jobs nor watchers, *)
(* or by a crash.  The processes may survive it.                           *)
Down ==
  /\ up /\ up' = FALSE
  /\ left' = left \cup {j \in Jobs : status[j] = "running"}
  /\ watcher' = [j \in Jobs |-> "none"]
  /\ table' = {}
  /\ \E S \in SUBSET {j \in Jobs : proc[j] = "alive"} :
       proc' = [j \in Jobs |-> IF j \in S THEN "ended" ELSE proc[j]]
  /\ runtime' = [s \in Sessions |-> FALSE]
  /\ UNCHANGED <<ledger, signal, word, given, recorded>>

(* JobStore._load keeps the records as they are: a job that was running is *)
(* one whose result nobody knows.                                          *)
Restart ==
  /\ ~up /\ up' = TRUE
  /\ UNCHANGED <<ledger, proc, signal, table, watcher, word, given, left, session>>

JobsInit ==
  /\ up = TRUE /\ seq = 0
  /\ owner = [j \in Jobs |-> NoOwner] /\ status = [j \in Jobs |-> "none"]
  /\ proc = [j \in Jobs |-> "none"] /\ signal = [j \in Jobs |-> "none"]
  /\ table = {} /\ left = {}
  /\ watcher = [j \in Jobs |-> "none"] /\ word = [j \in Jobs |-> "none"]
  /\ given = [j \in Jobs |-> 0]
  /\ runtime \in [Sessions -> BOOLEAN]
  /\ recorded = [s \in Sessions |-> "active"]

(* What the event loop carries on with by itself.                          *)
Watch(j) == Exited(j) \/ Posted(j) \/ Told(j)

Job(j) ==
  \/ Spawned(j) \/ SpawnFails(j)
  \/ ProcEnds(j) \/ Expires(j) \/ Watch(j)
  \/ \E s \in Sessions : Kill(s, j)

SessionStep(s) ==
  \/ Run(s) \/ Resumes(s) \/ Leaves(s) \/ Cleared(s)
  \/ \E r \in {"active", "terminal"} : Recorded(s, r)

JobsNext ==
  \/ \E j \in Jobs : Job(j)
  \/ \E s \in Sessions : SessionStep(s)
  \/ Down \/ Restart

JobsSpec == JobsInit /\ [][JobsNext]_jobVars

(* Messages are sent, the loop runs, and a killed process ends.            *)
FairJobs ==
  JobsSpec /\ \A j \in Jobs : /\ WF_jobVars(Watch(j))
                          /\ WF_jobVars(signal[j] # "none" /\ ProcEnds(j))

----------------------------------------------------------------------------
(* Properties                                                              *)

(* A job beyond the last id has no history, one before it has an owner.    *)
Numbered ==
  \A j \in Jobs : IF j > seq
    THEN /\ status[j] = "none" /\ proc[j] = "none" /\ watcher[j] = "none"
         /\ word[j] = "none" /\ given[j] = 0 /\ j \notin left
    ELSE status[j] # "none" /\ owner[j] \in Sessions

(* Every variable has its type, and the ids are given out in order.        *)
JobTypes ==
  /\ up \in BOOLEAN /\ seq \in 0..MaxJobs
  /\ owner \in [Jobs -> Sessions \cup {NoOwner}]
  /\ status \in [Jobs -> Statuses]
  /\ proc \in [Jobs -> {"none", "alive", "ended"}]
  /\ signal \in [Jobs -> {"none", "kill", "timeout"}]
  /\ table \in SUBSET Jobs /\ left \in SUBSET Jobs
  /\ watcher \in [Jobs -> JobStages] /\ word \in [Jobs -> Words]
  /\ given \in [Jobs -> Nat]
  /\ runtime \in [Sessions -> BOOLEAN]
  /\ recorded \in [Sessions -> {"active", "terminal", "gone"}]
  /\ Numbered

(* A job is recorded as running exactly while a coroutine of the daemon    *)
(* will record its end; those left behind are known (store.py JobStore).   *)
RunningIsWatched ==
  \A j \in Jobs : status[j] = "running" <=> watcher[j] \in Awaiting \/ j \in left

(* `fdx bg kill` reaches every process the daemon has started and not      *)
(* lost, and finds nothing else on its table.                              *)
LiveIsKillable ==
  /\ \A j \in Jobs : proc[j] = "alive" => j \in table \cup left
  /\ \A j \in table : watcher[j] \in {"waiting", "reaping"} /\ proc[j] # "none"

(* Record, watcher, process and table of a job agree, so that each running *)
(* job can be killed and each end is recorded.                             *)
JobsAccounted == RunningIsWatched /\ LiveIsKillable

(* The record of a job's end is final, an id names one job, and a job lost *)
(* in a restart is never taken for a later one.                            *)
SettledForGood ==
  [][\A j \in Jobs : status[j] \in {"exited", "killed"} \/ j \in left
        => status'[j] = status[j] /\ owner'[j] = owner[j] /\ watcher'[j] # "spawning"]_jobVars

(* A result reaches the agent at most once, only after the job has ended,  *)
(* and the main line says that the agent goes on exactly when it has it.   *)
ToldAsGiven ==
  \A j \in Jobs :
    /\ given[j] = IF word[j] \in {"continues", "resumed"} THEN 1 ELSE 0
    /\ given[j] = 1 => proc[j] = "ended" /\ status[j] \in {"exited", "killed"}

(* docs/usage.md:92: the end of a watched job is always told, however the  *)
(* Session and other jobs move meanwhile, unless the daemon stops first.   *)
EveryEndIsTold ==
  \A j \in Jobs : (proc[j] = "ended" /\ watcher[j] \in {"waiting", "reaping"})
                    ~> ((watcher[j] = "done" /\ word[j] # "none") \/ ~up)

(* A job that was killed, or has outlived its time, is recorded as ended.  *)
CondemnedEnd ==
  \A j \in Jobs : (signal[j] # "none" \/ watcher[j] = "reaping") /\ j \notin left
                    ~> (status[j] \in {"exited", "killed"} \/ ~up)

(* Every job ends, is told, and has ended for good.                        *)
JobsEnd == EveryEndIsTold /\ CondemnedEnd /\ SettledForGood
=============================================================================
