----------------------------- MODULE Delegation -----------------------------
(***************************************************************************)
(* The work a Project Manager delegates to Worker Sessions: the ledger of  *)
(* delegations, the turns that carry them, the Worker's report through the *)
(* control server, the result that goes back to the Manager, and what is   *)
(* left of all this by a shutdown, a crash and a restart.                  *)
(*                                                                         *)
(* A Worker is seen as TurnService describes it: AcpSession implements that*)
(* specification, WorkersAreTurnServices shows that this module uses it.   *)
(***************************************************************************)
EXTENDS Naturals, Sequences, Functions

CONSTANTS Workers,        (* Worker Sessions                                *)
          MaxDelegations, (* bound: delegation ids                          *)
          MaxTurns,       (* bound: turns ever sent to the Workers          *)
          Reports,        (* what `fdx delegation report` may say           *)
          WorkerOf        (* the Worker a delegation is given to            *)

Ids   == 1..MaxDelegations
Turns == 1..MaxTurns

ASSUME DelegationAssumption ==
  /\ MaxDelegations \in Nat /\ MaxTurns \in Nat
  /\ WorkerOf \in [Ids -> Workers]
  /\ "" \notin Reports /\ "unreported" \notin Reports

Active   == {"submitted", "running"}
Answers  == {"completed", "cancelled", "failed"}
Statuses == Active \cup Answers \cup {"waiting_manager"}

NoRecord == [status |-> "none", turn |-> 0, report |-> ""]

VARIABLES
  record,   \* DelegationStore in memory
  seq,      \* its last id
  disk,     \* delegations.json: what the last flush wrote
  issued,   \* number of turn ids issued
  alive,    \* per Worker: a runtime is registered
  booting,  \* per Worker: it was launched for the head of its queue
  waiting,  \* per Worker: its queue
  serving,  \* per Worker: the turn it executes (_current_turn_id), 0 if none
  stage,    \* per Worker: the await at which that turn stands
  result,   \* per Worker: the outcome its Finished event carries
  telling,  \* per Worker: the turn whose result is being sent to the Manager
  outcome,  \* per Worker and turn: how it ended (history)
  told,     \* per turn: whether the Manager heard of its end (history)
  daemon    \* "up", the stages of _shutdown ("stopping", "cancelled"), "down"

ledger == <<record, seq, disk>>
turn   == <<waiting, serving, stage, result, outcome>>
vars   == <<ledger, issued, alive, booting, turn, telling, told, daemon>>

Outcomes == Answers \cup {"interrupted", "lost"}
Stages   == {"idle", "begun", "working", "finishing", "telling"}

----------------------------------------------------------------------------
(* Helpers.  An operator headed by "Variant" changes the definition after  *)
(* it the way a bug would; the specification does not use it.              *)

(* DelegationStore.create and update: the whole ledger is flushed.         *)
Flush(r, n) == record' = r /\ seq' = n /\ disk' = [record |-> r, seq |-> n]
Save(r)     == Flush(r, seq)

(* by_worker_turn.                                                         *)
About(t) == {d \in Ids : record[d].turn = t /\ t # 0}

(* The turns S of Worker w end as o, the others as they did.               *)
Ended(w, S, o) ==
  [outcome EXCEPT ![w] = [t \in Turns |-> IF t \in S THEN o ELSE @[t]]]

(* _send_turn_to_session: queue the turn, or launch a runtime for it.      *)
Send(w, t) ==
  /\ waiting' = [waiting EXCEPT ![w] = Append(@, t)]
  /\ alive' = [alive EXCEPT ![w] = TRUE]
  /\ booting' = [booting EXCEPT ![w] = @ \/ ~alive[w]]

(* A new round of delegation d, n the last id: recorded, then sent.  A     *)
(* Worker that takes no turn (terminal, no slot, no agent session) fails   *)
(* the delegation, and the tool's answer says so.                          *)
Hand(d, n) ==
  LET t == issued + 1 IN
  /\ t \in Turns /\ issued' = t
  /\ \/ /\ Send(WorkerOf[d], t)
        /\ Flush([record EXCEPT ![d] =
                    [status |-> "submitted", turn |-> t, report |-> ""]], n)
        /\ UNCHANGED told
     \/ /\ ~alive[WorkerOf[d]]
        /\ Flush([record EXCEPT ![d] =
                    [status |-> "failed", turn |-> t, report |-> "unreported"]], n)
        /\ told' = [told EXCEPT ![t] = "yes"]
        /\ UNCHANGED <<alive, booting, waiting>>
  /\ UNCHANGED <<serving, stage, result, outcome, telling, daemon>>

(* The report of a round that ends: the Worker's own if there is one.      *)
OrUnreported(r) == IF r = "" THEN "unreported" ELSE r

(* _finish_delegation_turn.  The status is checked after it is assigned: a *)
(* status the ledger does not know stays in memory and the rest is skipped.*)
(* Variants: the report is overwritten; nobody is told of a cancellation.  *)
SettleUnreported(w, d, o) ==
  LET s == IF o = "completed" THEN "waiting_manager" ELSE o
      r == [record EXCEPT ![d].status = s, ![d].report = "unreported"] IN
  IF record[d].status \notin Active THEN UNCHANGED <<ledger, telling>>
  ELSE Save(r) /\ telling' = [telling EXCEPT ![w] = record[d].turn]
SettleUntold(w, d, o) ==
  LET s == IF o = "completed" THEN "waiting_manager" ELSE o
      r == [record EXCEPT ![d].status = s, ![d].report = OrUnreported(@)] IN
  IF record[d].status \notin Active THEN UNCHANGED <<ledger, telling>>
  ELSE /\ Save(r)
       /\ telling' = [telling EXCEPT ![w] = IF o = "cancelled" THEN 0
                                            ELSE record[d].turn]

Settle(w, d, o) ==
  LET s == IF o = "completed" THEN "waiting_manager" ELSE o
      r == [record EXCEPT ![d].status = s, ![d].report = OrUnreported(@)] IN
  IF record[d].status \notin Active THEN UNCHANGED <<ledger, telling>>
  ELSE IF s \in Statuses
  THEN Save(r) /\ telling' = [telling EXCEPT ![w] = record[d].turn]
  ELSE record' = r /\ UNCHANGED <<seq, disk, telling>>

(* The turns whose output has not begun.                                   *)
Unserved(w) ==
  Range(waiting[w]) \cup IF stage[w] = "begun" THEN {serving[w]} ELSE {}

(* The Manager hears, or will never hear, of the end of the turns S.       *)
Hears(S) == [t \in Turns |-> IF t \notin S THEN told[t]
                             ELSE IF told[t] = "yes" THEN "twice" ELSE "yes"]
Misses(S) == [t \in Turns |-> IF t \in S THEN "cut" ELSE told[t]]

(* The Worker's runtime leaves: what waits for it is thrown away.          *)
Leave(w) ==
  /\ alive' = [alive EXCEPT ![w] = FALSE]
  /\ booting' = [booting EXCEPT ![w] = FALSE]
  /\ waiting' = [waiting EXCEPT ![w] = <<>>]
  /\ serving' = [serving EXCEPT ![w] = 0]
  /\ stage' = [stage EXCEPT ![w] = "idle"]
  /\ telling' = [telling EXCEPT ![w] = 0]

----------------------------------------------------------------------------
(* The Project Manager's tools; its tool loop is closed first by _shutdown *)

Delegate ==
  LET d == seq + 1 IN
  /\ daemon = "up" /\ d \in Ids
  /\ Hand(d, d)

(* Only a delegation whose round has ended can be continued.               *)
Continue(d) ==
  /\ daemon = "up"
  /\ record[d].status \in {"waiting_manager", "failed", "cancelled"}
  /\ Hand(d, seq)

Complete(d) ==
  /\ daemon = "up" /\ record[d].status = "waiting_manager"
  /\ Save([record EXCEPT ![d].status = "completed"])
  /\ UNCHANGED <<issued, alive, booting, turn, telling, told, daemon>>

----------------------------------------------------------------------------
(* The Worker                                                              *)

(* Variant: the worker does not wait for the end of the turn in progress.  *)
BeginAnyTime(w) ==
  /\ alive[w] /\ waiting[w] # <<>>
  /\ serving' = [serving EXCEPT ![w] = Head(waiting[w])]
  /\ waiting' = [waiting EXCEPT ![w] = Tail(@)]
  /\ stage' = [stage EXCEPT ![w] = "begun"]
  /\ booting' = [booting EXCEPT ![w] = FALSE]
  /\ UNCHANGED <<ledger, issued, alive, result, outcome, telling, told, daemon>>
Begin(w) ==
  /\ alive[w] /\ stage[w] = "idle" /\ waiting[w] # <<>>
  /\ serving' = [serving EXCEPT ![w] = Head(waiting[w])]
  /\ waiting' = [waiting EXCEPT ![w] = Tail(@)]
  /\ stage' = [stage EXCEPT ![w] = "begun"]
  /\ booting' = [booting EXCEPT ![w] = FALSE]
  /\ UNCHANGED <<ledger, issued, alive, result, outcome, telling, told, daemon>>

(* AgentOutputStarted reaches _handle_delegation_event.                    *)
Started(w) ==
  /\ stage[w] = "begun"
  /\ stage' = [stage EXCEPT ![w] = "working"]
  /\ LET S == {d \in About(serving[w]) : record[d].status = "submitted"} IN
     IF S = {} THEN UNCHANGED ledger
     ELSE \E d \in S : Save([record EXCEPT ![d].status = "running"])
  /\ UNCHANGED <<issued, alive, booting, waiting, serving, result, outcome, telling,
                 told, daemon>>

(* The agent reports through the control server.  Stopping the server does *)
(* not wait for the requests it has accepted, so a report may still come   *)
(* in while the Workers unwind.  A report that is there is kept.           *)
(* Variant: the turn in progress is not asked for.                         *)
ReportAnyTime(d, r) ==
  /\ daemon # "down" /\ record[d].report = "" /\ record[d].status \in Active
  /\ alive[WorkerOf[d]]
  /\ Save([record EXCEPT ![d].report = r])
  /\ UNCHANGED <<issued, alive, booting, turn, telling, told, daemon>>

Report(d, r) ==
  /\ daemon # "down" /\ record[d].report = "" /\ record[d].status \in Active
  /\ alive[WorkerOf[d]] /\ serving[WorkerOf[d]] = record[d].turn
  /\ Save([record EXCEPT ![d].report = r])
  /\ UNCHANGED <<issued, alive, booting, turn, telling, told, daemon>>

(* The agent's turn ends; AgentOutputFinished is being recorded.           *)
Answer(w, o) ==
  /\ stage[w] = "working"
  /\ stage' = [stage EXCEPT ![w] = "finishing"]
  /\ result' = [result EXCEPT ![w] = o]
  /\ outcome' = Ended(w, {serving[w]}, o)
  /\ UNCHANGED <<ledger, issued, alive, booting, waiting, serving, telling, told,
                 daemon>>

(* AgentOutputFinished reaches _handle_delegation_event.                   *)
(* Variant: a cancelled turn is not taken for the end of the round.        *)
FinishedUncancelled(w) ==
  /\ stage[w] = "finishing"
  /\ stage' = [stage EXCEPT ![w] = "telling"]
  /\ IF About(serving[w]) = {} \/ result[w] = "cancelled"
     THEN UNCHANGED <<ledger, telling>>
     ELSE \E d \in About(serving[w]) : Settle(w, d, result[w])
  /\ UNCHANGED <<issued, alive, booting, waiting, serving, result, outcome,
                 told, daemon>>

Finished(w) ==
  /\ stage[w] = "finishing"
  /\ stage' = [stage EXCEPT ![w] = "telling"]
  /\ IF About(serving[w]) = {} THEN UNCHANGED <<ledger, telling>>
     ELSE \E d \in About(serving[w]) : Settle(w, d, result[w])
  /\ UNCHANGED <<issued, alive, booting, waiting, serving, result, outcome, told,
                 daemon>>

(* The agent does not start: the delegation it was launched for fails.     *)
StartFails(w) ==
  /\ alive[w] /\ booting[w] /\ stage[w] = "idle"
  /\ stage' = [stage EXCEPT ![w] = "telling"]
  /\ result' = [result EXCEPT ![w] = "failed"]
  /\ booting' = [booting EXCEPT ![w] = FALSE]
  /\ LET S == About(Head(waiting[w])) IN
     IF S = {} THEN UNCHANGED <<ledger, telling>>
     ELSE \E d \in S : Settle(w, d, "failed")
  /\ UNCHANGED <<issued, alive, waiting, serving, outcome, told, daemon>>

(* The result is in the Manager's Conversation: a turn is submitted to the *)
(* Manager, unless _shutdown has closed it.  The Manager delegated from a  *)
(* conversation, which stays its own; that its project is removed before   *)
(* the result comes, so that nobody is told, is left out.  The Worker goes *)
(* on, or leaves after a failure.                                          *)
Told(w) ==
  /\ stage[w] = "telling"
  /\ told' = IF daemon = "up" THEN Hears({telling[w]}) ELSE Misses({telling[w]})
  /\ IF result[w] \in {"failed", "interrupted"}
     THEN /\ Leave(w)
          /\ outcome' = Ended(w, Range(waiting[w]), "lost")
     ELSE /\ serving' = [serving EXCEPT ![w] = 0]
          /\ stage' = [stage EXCEPT ![w] = "idle"]
          /\ telling' = [telling EXCEPT ![w] = 0]
          /\ UNCHANGED <<alive, booting, waiting, outcome>>
  /\ UNCHANGED <<ledger, issued, result, daemon>>

(* Between two turns the Worker leaves: stopped, done, gone to sleep.      *)
WorkerEnds(w) ==
  /\ alive[w] /\ stage[w] = "idle" /\ ~booting[w]
  /\ Leave(w)
  /\ outcome' = Ended(w, Range(waiting[w]), "lost")
  /\ UNCHANGED <<ledger, issued, result, told, daemon>>

----------------------------------------------------------------------------
(* The daemon                                                              *)

BeginShutdown ==
  /\ daemon = "up" /\ daemon' = "stopping"
  /\ UNCHANGED <<ledger, issued, alive, booting, turn, telling, told>>

(* _shutdown cancels all Workers in one step: a turn whose output has begun*)
(* (P) will publish "interrupted"; one before that, or an event or result  *)
(* on its way, is dropped.                                                 *)
CancelWorkers ==
  /\ daemon = "stopping" /\ daemon' = "cancelled"
  /\ \E P \in SUBSET {w \in Workers : stage[w] \in {"begun", "working"}} :
       /\ \A w \in Workers : stage[w] = "working" => w \in P
       /\ alive' = [w \in Workers |-> w \in P]
       /\ waiting' = [w \in Workers |-> IF w \in P THEN waiting[w] ELSE <<>>]
       /\ serving' = [w \in Workers |-> IF w \in P THEN serving[w] ELSE 0]
       /\ stage' = [w \in Workers |-> IF w \in P THEN "finishing" ELSE "idle"]
       /\ result' = [w \in Workers |-> IF w \in P THEN "interrupted" ELSE result[w]]
       /\ outcome' = [w \in Workers |-> [t \in Turns |->
            CASE w \in P /\ serving[w] = t      -> "interrupted"
              [] w \notin P /\ t \in Unserved(w) -> "lost"
              [] OTHER                          -> outcome[w][t]]]
       /\ told' = Misses({telling[w] : w \in Workers \ P})
  /\ booting' = [w \in Workers |-> FALSE]
  /\ telling' = [w \in Workers |-> 0]
  /\ UNCHANGED <<ledger, issued>>

ProcessEnds ==
  /\ daemon # "down" /\ daemon' = "down"
  /\ alive' = [w \in Workers |-> FALSE]
  /\ booting' = [w \in Workers |-> FALSE]
  /\ waiting' = [w \in Workers |-> <<>>]
  /\ serving' = [w \in Workers |-> 0]
  /\ stage' = [w \in Workers |-> "idle"]
  /\ result' = [w \in Workers |-> "completed"]
  /\ telling' = [w \in Workers |-> 0]
  /\ outcome' = [w \in Workers |-> [t \in Turns |->
       IF t \in Range(waiting[w]) THEN "lost"
       ELSE IF stage[w] \in {"begun", "working"} /\ serving[w] = t
       THEN "interrupted" ELSE outcome[w][t]]]
  /\ told' = Misses(Range(telling))
  /\ UNCHANGED <<ledger, issued>>

(* DelegationStore._load: one record with a status it does not know, and   *)
(* the whole ledger is dropped, its sequence number included.              *)
Empty == /\ record' = [d \in Ids |-> NoRecord]
         /\ seq' = 0
         /\ UNCHANGED disk

Load ==
  IF \A d \in Ids : disk.record[d].status \in Statuses \cup {"none"}
  THEN record' = disk.record /\ seq' = disk.seq /\ UNCHANGED disk
  ELSE Empty

Restart ==
  /\ daemon = "down" /\ daemon' = "up"
  /\ Load
  /\ UNCHANGED <<issued, alive, booting, turn, telling, told>>

----------------------------------------------------------------------------
Init ==
  /\ record = [d \in Ids |-> NoRecord]
  /\ seq = 0
  /\ disk = [record |-> record, seq |-> 0]
  /\ issued = 0
  /\ alive \in [Workers -> BOOLEAN]
  /\ booting = [w \in Workers |-> FALSE]
  /\ waiting = [w \in Workers |-> <<>>]
  /\ serving = [w \in Workers |-> 0]
  /\ stage = [w \in Workers |-> "idle"]
  /\ result = [w \in Workers |-> "completed"]
  /\ telling = [w \in Workers |-> 0]
  /\ outcome = [w \in Workers |-> [t \in Turns |-> "none"]]
  /\ told = [t \in Turns |-> "no"]
  /\ daemon = "up"

Manager == Delegate \/ \E d \in Ids : Continue(d) \/ Complete(d)

(* What the event loop and an agent that answers carry on by themselves.   *)
Progress(w) ==
  \/ Begin(w) \/ Started(w) \/ \E o \in Answers : Answer(w, o)
  \/ Finished(w) \/ Told(w)

Worker(w) == Progress(w) \/ StartFails(w) \/ WorkerEnds(w)

Next ==
  \/ Manager
  \/ \E d \in Ids, r \in Reports : Report(d, r)
  \/ \E w \in Workers : Worker(w)
  \/ BeginShutdown \/ CancelWorkers \/ ProcessEnds \/ Restart

Spec == Init /\ [][Next]_vars

(* The Workers' fairness is that of AcpSession: an agent that answers.     *)
FairSpec == Spec /\ \A w \in Workers : WF_vars(Progress(w))

----------------------------------------------------------------------------
(* Properties                                                              *)

(* Every variable has its type.  The ledger may hold a status that no other*)
(* part of the program knows; a Worker being launched has the turn it is   *)
(* launched for at the head of its queue, a turn in progress is one turn.  *)
TypeOK ==
  /\ record \in [Ids -> [status : Statuses \cup {"none", "interrupted"},
                         turn : 0..MaxTurns,
                         report : Reports \cup {"", "unreported"}]]
  /\ seq \in 0..MaxDelegations /\ issued \in 0..MaxTurns
  /\ disk \in [record : [Ids -> [status : Statuses \cup {"none", "interrupted"},
                                 turn : 0..MaxTurns,
                                 report : Reports \cup {"", "unreported"}]],
               seq : 0..MaxDelegations]
  /\ alive \in [Workers -> BOOLEAN] /\ booting \in [Workers -> BOOLEAN]
  /\ waiting \in [Workers -> Seq(Turns)]
  /\ serving \in [Workers -> 0..MaxTurns] /\ stage \in [Workers -> Stages]
  /\ result \in [Workers -> Answers \cup {"interrupted"}]
  /\ telling \in [Workers -> 0..MaxTurns]
  /\ outcome \in [Workers -> [Turns -> Outcomes \cup {"none"}]]
  /\ told \in [Turns -> {"no", "yes", "twice", "cut"}]
  /\ daemon \in {"up", "stopping", "cancelled", "down"}
  /\ \A w \in Workers :
       /\ booting[w] => alive[w] /\ waiting[w] # <<>>
       /\ stage[w] \in {"begun", "working", "finishing"} => serving[w] # 0

(* What the ledger says of a delegation is what its Worker does with it: a *)
(* running one is being executed, a submitted one waits, unless the turn is*)
(* already over for the Worker.  A continued delegation is never mistaken  *)
(* for its earlier round.                                                  *)
RunningIsServed ==
  \A d \in Ids :
    LET w == WorkerOf[d]  t == record[d].turn IN
    /\ record[d].status = "running" =>
         (serving[w] = t /\ stage[w] \in {"working", "finishing"}) \/ outcome[w][t] # "none"
    /\ record[d].status = "submitted" =>
         \/ t \in Range(waiting[w])
         \/ serving[w] = t /\ stage[w] \in {"begun", "finishing"}
         \/ outcome[w][t] # "none"

(* A report is taken only from the turn it is about: a delegation whose    *)
(* round is still waiting has none (_ctl_delegation_report, owns_turn).    *)
ReportsAreTimely ==
  \A d \in Ids : record[d].report \in Reports =>
     record[d].turn \notin Range(waiting[WorkerOf[d]])

(* The Worker's own report survives the end of its turn, in whatever order *)
(* report, Finished, the Manager's tools and a shutdown come.              *)
ReportIsKept ==
  [][\A d \in Ids : record[d].report \in Reports /\ record'[d].turn = record[d].turn
        => record'[d].report = record[d].report \/ daemon = "down"]_vars

(* The ledger, its reports included, follows the Worker's work.            *)
LedgerFollowsWork == RunningIsServed /\ ReportsAreTimely

(* Whatever ends the round of a delegation, the Manager hears of it, once: *)
(* the result is delivered, on its way, or cut off by the daemon's end.    *)
ResultIsTold ==
  /\ \A t \in Turns : told[t] # "twice"
  /\ \A d \in Ids : record[d].status \in {"waiting_manager", "failed", "cancelled"} =>
       \/ told[record[d].turn] \in {"yes", "cut"}
       \/ telling[WorkerOf[d]] = record[d].turn

(* Nothing reopens a delegation the Manager has accepted.                  *)
CompletedIsFinal ==
  [][\A d \in Ids : record[d].status = "completed" =>
        record'[d].status = "completed" \/ daemon = "down"]_vars

(* No later step takes back what the Worker reported or the Manager decided.*)
NothingTakenBack == ReportIsKept /\ CompletedIsFinal

(* Each Worker is the TurnService that AcpSession implements.              *)
Service(w) == INSTANCE TurnService WITH
  Ids     <- Turns,
  waiting <- Range(waiting[w]),
  serving <- IF stage[w] \in {"begun", "working"} THEN {serving[w]} ELSE {},
  outcome <- outcome[w]

WorkersAreTurnServices ==
  /\ \A w \in Workers : Service(w)!Init
  /\ [][\A w \in Workers : [Service(w)!Next]_(Service(w)!vars)]_vars

(* A delegation whose turn is being executed is settled, as long as the    *)
(* daemon does not stop.                                                   *)
RunningSettles ==
  \A d \in Ids :
    (record[d].status = "running" /\ serving[WorkerOf[d]] = record[d].turn) ~>
       (record[d].status # "running" \/ daemon # "up")

(* docs/usage.md:99: a Worker's turn that ends, ends its delegation; none  *)
(* stays open for ever.                                                    *)
NoneLeftHanging ==
  \A d \in Ids : (daemon = "up" /\ record[d].status \in Active) =>
     LET w == WorkerOf[d] IN
     record[d].turn \in Range(waiting[w]) \cup {serving[w]}

(* store.py:74: a damaged ledger is not silently emptied.  So the daemon   *)
(* starts with the delegations it had written.                             *)
LedgerSurvivesRestart ==
  [][daemon = "down" /\ daemon' = "up" => record' = disk.record]_vars

=============================================================================
