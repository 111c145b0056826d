----------------------------- MODULE AgentSlots -----------------------------
(***************************************************************************)
(* How Sessions come into being: /run, spawn_agent, the Project Manager's  *)
(* create_session and /attach, each a sequence of awaits during which other*)
(* calls run; the reservations that keep the number of agents bounded; the *)
(* git worktree create_session makes before its Session exists; and the    *)
(* registry of runtimes these calls and _try_resume fill.  What a Session  *)
(* does once it is registered is the subject of AcpSession.                *)
(*                                                                         *)
(* A call creates at most one Session, so the call names the Session.      *)
(***************************************************************************)
EXTENDS Integers, FiniteSets

CONSTANTS Runs,      (* calls of /run and spawn_agent                       *)
          Creates,   (* calls of create_session                             *)
          Attaches,  (* calls of /attach and attach_session                 *)
          Old,       (* Sessions of the ledger the daemon starts with       *)
          MaxAgents, (* cfg.max_agents                                      *)
          Project,   (* the project of a call or an old Session             *)
          Name       (* its description; for Attaches, the agent's session  *)

Calls    == Runs \cup Creates \cup Attaches
Sessions == Calls \cup Old

ASSUME SlotsAssumption ==
  /\ MaxAgents \in Nat
  /\ IsFiniteSet(Sessions)
  /\ Runs \cap Creates = {} /\ (Runs \cup Creates) \cap Attaches = {}
  /\ Calls \cap Old = {}

VARIABLES
  call,      \* per call: the await at which it is suspended
  pending,   \* _pending_agent_launches
  runtimes,  \* the Sessions in SessionRuntimeRegistry
  recorded,  \* the Sessions in the ledger
  worktree,  \* per create_session: "none", "made", or "bound" to its record
  severed,   \* the calls that were cut short: cancelled, or not undone (history)
  daemon     \* "up", "stopping" (_shutdown has begun) or "down"

vars == <<call, pending, runtimes, recorded, worktree, severed, daemon>>

Holding == {"worktree", "thread", "undoing"}
Stages  == {"new", "briefing", "probing", "ended"} \cup Holding

(* The calls that hold a reservation.                                      *)
Holders == {c \in Calls : call[c] \in Holding}

----------------------------------------------------------------------------
(* Helpers.  An operator headed by "Variant" changes the definition after  *)
(* it the way a bug would; the specification does not use it.              *)

Goes(c, stage) == call' = [call EXCEPT ![c] = stage]

(* _reserve_agent_slot: registered runtimes and launches under way count.  *)
Room == Cardinality(runtimes) + pending < MaxAgents

(* create_session refuses a name the project's ledger already has; /attach *)
(* refuses an agent session that a record already has.                     *)
Conflict(c) ==
  \E s \in recorded \ Attaches : Project[s] = Project[c] /\ Name[s] = Name[c]

Attached(c) == \E s \in recorded \cap Attaches : Name[s] = Name[c]

(* A Project Manager executes its turns, and their tool calls, one by one. *)
ManagerFree(c) ==
  \A d \in Creates : Project[d] = Project[c] => call[d] \in {"new", "ended"}

----------------------------------------------------------------------------
(* The calls                                                               *)

(* Reserve a slot, then create a thread.                                   *)
Reserves(c) ==
  IF Room THEN Goes(c, "thread") /\ pending' = pending + 1
          ELSE Goes(c, "ended") /\ UNCHANGED pending

(* /run, _spawn_for_root; spawn_agent without an issue is the same.        *)
Run(c) ==
  /\ daemon # "down" /\ call[c] = "new"
  /\ Reserves(c)
  /\ UNCHANGED <<runtimes, recorded, worktree, severed, daemon>>

(* spawn_agent with an issue waits for its text, fetched or not, and only  *)
(* then reserves: what it learned of the slots before would be stale.      *)
Briefs(c) ==
  /\ daemon # "down" /\ call[c] = "new"
  /\ Goes(c, "briefing")
  /\ UNCHANGED <<pending, runtimes, recorded, worktree, severed, daemon>>

Spawn(c) ==
  /\ call[c] = "briefing"
  /\ Reserves(c)
  /\ UNCHANGED <<runtimes, recorded, worktree, severed, daemon>>

(* create_session: refuse a name in use, reserve a slot and a Session id,  *)
(* then make the worktree.                                                 *)
Create(c) ==
  /\ daemon # "down" /\ call[c] = "new" /\ ManagerFree(c)
  /\ IF ~Conflict(c) /\ Room
     THEN Goes(c, "worktree") /\ pending' = pending + 1
     ELSE Goes(c, "ended") /\ UNCHANGED pending
  /\ UNCHANGED <<runtimes, recorded, worktree, severed, daemon>>

(* git worktree add succeeds, or fails.  Then create_worktree takes down   *)
(* what there is; when that fails too, it is reported and left.            *)
WorktreeMade(c) ==
  /\ call[c] = "worktree"
  /\ Goes(c, "thread")
  /\ worktree' = [worktree EXCEPT ![c] = "made"]
  /\ UNCHANGED <<pending, runtimes, recorded, severed, daemon>>

WorktreeFails(c) ==
  /\ call[c] = "worktree"
  /\ Goes(c, "ended")
  /\ pending' = pending - 1
  /\ \/ UNCHANGED <<worktree, severed>>
     \/ /\ worktree' = [worktree EXCEPT ![c] = "made"]
        /\ severed' = severed \cup {c}
  /\ UNCHANGED <<runtimes, recorded, daemon>>

(* _attach_task: refuse a session already attached, then probe it.         *)
Attach(c) ==
  /\ daemon # "down" /\ call[c] = "new"
  /\ Goes(c, IF Attached(c) THEN "ended" ELSE "probing")
  /\ UNCHANGED <<pending, runtimes, recorded, worktree, severed, daemon>>

(* The probe has loaded the session, or has failed.  Only now is a slot    *)
(* reserved.                                                               *)
Probed(c) ==
  /\ call[c] = "probing"
  /\ \/ Goes(c, "ended") /\ UNCHANGED pending
     \/ Room /\ Goes(c, "thread") /\ pending' = pending + 1
  /\ UNCHANGED <<runtimes, recorded, worktree, severed, daemon>>

(* The Channel has created the thread: the Session is recorded, launched   *)
(* and registered, and the reservation returned, in one step.  A launch    *)
(* that raises leaves the record.                                          *)
ThreadMade(c) ==
  /\ call[c] = "thread"
  /\ Goes(c, "ended")
  /\ pending' = pending - 1
  /\ recorded' = recorded \cup {c}
  /\ \/ runtimes' = runtimes \cup {c}
     \/ UNCHANGED runtimes
  /\ worktree' = IF c \in Creates THEN [worktree EXCEPT ![c] = "bound"] ELSE worktree
  /\ UNCHANGED <<severed, daemon>>

(* The Channel cannot create it: create_session takes its worktree down.   *)
(* Variants: the worktree, or the reservation, is forgotten. *)
ThreadFailsForWorktree(c) ==
  /\ call[c] = "thread"
  /\ Goes(c, "ended") /\ pending' = pending - 1
  /\ UNCHANGED <<runtimes, recorded, worktree, severed, daemon>>
ThreadFailsForSlot(c) ==
  /\ call[c] = "thread"
  /\ Goes(c, IF c \in Creates THEN "undoing" ELSE "ended")
  /\ UNCHANGED <<pending, runtimes, recorded, worktree, severed, daemon>>

ThreadFails(c) ==
  /\ call[c] = "thread"
  /\ IF c \in Creates
     THEN Goes(c, "undoing") /\ UNCHANGED pending
     ELSE Goes(c, "ended") /\ pending' = pending - 1
  /\ UNCHANGED <<runtimes, recorded, worktree, severed, daemon>>

(* _remove_session_worktree succeeds, or fails and is reported.            *)
Undone(c) ==
  /\ call[c] = "undoing"
  /\ Goes(c, "ended")
  /\ pending' = pending - 1
  /\ \/ worktree' = [worktree EXCEPT ![c] = "none"] /\ UNCHANGED severed
     \/ UNCHANGED worktree /\ severed' = severed \cup {c}
  /\ UNCHANGED <<runtimes, recorded, daemon>>

(* The tool call is cancelled: _shutdown closes the tool loops first.  The *)
(* reservation is returned, the worktree is not; a git command already     *)
(* running goes on.                                                        *)
Cancelled(c) ==
  /\ daemon = "stopping" /\ call[c] \notin {"new", "ended"}
  /\ Goes(c, "ended")
  /\ pending' = IF call[c] \in Holding THEN pending - 1 ELSE pending
  /\ severed' = severed \cup {c}
  /\ \/ UNCHANGED worktree
     \/ call[c] = "worktree" /\ worktree' = [worktree EXCEPT ![c] = "made"]
     \/ call[c] = "undoing"  /\ worktree' = [worktree EXCEPT ![c] = "none"]
  /\ UNCHANGED <<runtimes, recorded, daemon>>

----------------------------------------------------------------------------
(* The Sessions                                                            *)

(* _try_resume: reserve, launch and release without an await between.      *)
Resume(s) ==
  /\ daemon # "down" /\ s \in recorded /\ s \notin runtimes
  /\ Room
  /\ runtimes' = runtimes \cup {s}
  /\ UNCHANGED <<call, pending, recorded, worktree, severed, daemon>>

(* _close_session unregisters a runtime whose worker has ended.            *)
WorkerEnds(s) ==
  /\ s \in runtimes
  /\ runtimes' = runtimes \ {s}
  /\ UNCHANGED <<call, pending, recorded, worktree, severed, daemon>>

(* A terminal record is cleared or pruned; its worktree stays on disk.     *)
Clear(s) ==
  /\ daemon # "down" /\ s \in recorded \ runtimes
  /\ recorded' = recorded \ {s}
  /\ UNCHANGED <<call, pending, runtimes, worktree, severed, daemon>>

----------------------------------------------------------------------------
(* The daemon                                                              *)

BeginShutdown ==
  /\ daemon = "up" /\ daemon' = "stopping"
  /\ UNCHANGED <<call, pending, runtimes, recorded, worktree, severed>>

(* The process ends or crashes: only the ledger and the worktrees remain.  *)
ProcessEnds ==
  /\ daemon # "down" /\ daemon' = "down"
  /\ call' = [c \in Calls |-> IF call[c] = "new" THEN "new" ELSE "ended"]
  /\ severed' = severed \cup {c \in Calls : call[c] \notin {"new", "ended"}}
  /\ pending' = 0
  /\ runtimes' = {}
  /\ UNCHANGED <<recorded, worktree>>

Restart ==
  /\ daemon = "down" /\ daemon' = "up"
  /\ UNCHANGED <<call, pending, runtimes, recorded, worktree, severed>>

Init ==
  /\ call = [c \in Calls |-> "new"]
  /\ pending = 0
  /\ runtimes = {}
  /\ recorded = Old
  /\ worktree = [c \in Creates |-> "none"]
  /\ severed = {}
  /\ daemon = "up"

Call(c) ==
  \/ c \in Runs /\ (Run(c) \/ Briefs(c) \/ Spawn(c))
  \/ c \in Creates /\ (Create(c) \/ WorktreeMade(c) \/ WorktreeFails(c) \/ Undone(c))
  \/ c \in Attaches /\ (Attach(c) \/ Probed(c))
  \/ ThreadMade(c) \/ ThreadFails(c) \/ Cancelled(c)

Session(s) == Resume(s) \/ WorkerEnds(s) \/ Clear(s)

Next ==
  \/ \E c \in Calls : Call(c)
  \/ \E s \in Sessions : Session(s)
  \/ BeginShutdown \/ ProcessEnds \/ Restart

Spec == Init /\ [][Next]_vars

----------------------------------------------------------------------------
(* Properties                                                              *)

(* Every variable has its type; above all _pending_agent_launches is never *)
(* negative, so _release_agent_slot (daemon.py:605) never raises.          *)
TypeOK ==
  /\ call \in [Calls -> Stages]
  /\ pending \in Nat
  /\ runtimes \subseteq Sessions /\ recorded \subseteq Sessions
  /\ worktree \in [Creates -> {"none", "made", "bound"}]
  /\ severed \subseteq Calls
  /\ daemon \in {"up", "stopping", "down"}

(* The reservation counter never drifts: however calls interleave, fail,   *)
(* are undone or cancelled, it is the number of calls between a reservation*)
(* and its release, so no slot is lost and none is given twice.            *)
ReservationsBalanced == pending = Cardinality(Holders)

(* Registered agents and launches under way never exceed max_agents, also  *)
(* when a resumption comes between a reservation and its launch.           *)
SlotsBounded == Cardinality(runtimes) + pending <= MaxAgents

(* Admission is sound: the count is right and the bound is kept.           *)
SlotsAccounted == ReservationsBalanced /\ SlotsBounded

(* A worktree made for a Session that has no record is in the hands of the *)
(* call that will bind or remove it, unless that call was cut short.       *)
WorktreesOwned ==
  \A c \in Creates : worktree[c] = "made" =>
     call[c] \in {"thread", "undoing"} \/ c \in severed

(* The Project Manager creates no two Sessions of the same name, although  *)
(* the ledger is asked two awaits before the record exists: its tool calls *)
(* run one by one.                                                         *)
CreatedOnce ==
  \A c, d \in Creates \cap recorded :
     Project[c] = Project[d] /\ Name[c] = Name[d] => c = d

(* A creation that fails, is undone, cut short or raced leaves neither a   *)
(* worktree that nobody answers for nor a second Session of the name.      *)
CreationsOwned == WorktreesOwned /\ CreatedOnce

(* _attach_task, daemon.py:2277 and 3498: an agent session that already has*)
(* a Task is not attached again.                                           *)
AttachedOnce ==
  \A c, d \in Attaches \cap recorded : Name[c] = Name[d] => c = d

=============================================================================
