-------------------------- MODULE AcpSessionProofs --------------------------
(***************************************************************************)
(* Proofs about AcpSession, for any number of inputs and of generations.   *)
(***************************************************************************)
EXTENDS AcpSession, SequenceTheorems, FiniteSetTheorems, TLAPS

(* Which values belong to which set, so that no leaf expands the sets.     *)
LEMMA Values ==
  /\ {"none", "draining", "closing", "dead", "fresh", "starting", "started",
      "startFailed", "terminating", "suspending", "ready", "wait", "locking"}
        \cup TurnPhases \subseteq Phases
  /\ {"mirroring", "opening", "prompting", "cancelling", "failing", "settling",
      "unwinding"} \subseteq TurnPhases
  /\ {"starting", "running", "idle", "suspended", "failed"} \cup Terminal
        \subseteq Statuses
  /\ {"done", "stopped"} \subseteq Terminal
  /\ {"new", "queued", "running", "completed", "cancelled", "failed",
      "interrupted", "lost"} \subseteq Fates
  BY DEF Phases, LivePhases, LoopPhases, TurnPhases, Statuses, Terminal, Fates,
         Outcomes

(* A generation is a number above 0, the place of "no generation".         *)
LEMMA GensAre == /\ Gens \subseteq 0..MaxGen /\ 0 \in 0..MaxGen
                 /\ 0 \notin Gens /\ \A n \in 0..MaxGen : n # 0 => n \in Gens
  BY SessionAssumption DEF Gens

----------------------------------------------------------------------------
(* Types: first the helpers                                                *)

(* Fated keeps the type of the history of the inputs.                      *)
LEMMA FatedType ==
  ASSUME TypeOK, NEW S, NEW f \in Fates PROVE Fated(S, f) \in [Ids -> Fates]
  BY DEF TypeOK, Fated

(* SessionStore.update writes a status of the table.                       *)
LEMMA RecordType ==
  ASSUME TypeOK, NEW s \in Statuses, Record(s)
  PROVE  status' \in Statuses \cup {"gone"}
  BY DEF TypeOK, Record

(* Queueing an input (AcpSessionRuntime.enqueue) keeps the types.          *)
LEMMA EnqueueType ==
  ASSUME TypeOK, NEW g, NEW t, Enqueue(g, t)
  PROVE  /\ DOMAIN queue' = Gens /\ batch' \in [Gens -> BOOLEAN]
         /\ idle' \in [Gens -> BOOLEAN] /\ fate' \in [Ids -> Fates]
  BY FatedType, Values DEF TypeOK, Enqueue

(* Launching a generation (_launch) keeps every type.                      *)
LEMMA LaunchType ==
  ASSUME TypeOK, NEW first, Launch(first) PROVE TypeOK'
<1>1. launched' \in 0..MaxGen /\ current' \in 0..MaxGen
  BY GensAre DEF Launch
<1>2. worker' \in [Gens -> Phases] /\ fate' \in [Ids -> Fates]
  BY FatedType, Values DEF TypeOK, Launch
<1>3. DOMAIN queue' = Gens /\ idle' \in [Gens -> BOOLEAN]
  BY DEF TypeOK, Launch
<1> QED
  BY <1>1, <1>2, <1>3 DEF TypeOK, Launch, ledger, host

(* So does resuming, which launches or records the failure (_try_resume).  *)
LEMMA ResumeType ==
  ASSUME TypeOK, NEW first, Resume(first) PROVE TypeOK'
<1>1. CASE Launch(first)
  BY <1>1, LaunchType
<1>2. CASE /\ status' = "failed"
           /\ UNCHANGED <<resumable, registry, worker, runtime, host, fate>>
  <2>1. status' \in Statuses \cup {"gone"}
    BY <1>2, Values
  <2> QED
    BY <1>2, <2>1 DEF TypeOK, registry, runtime, host
<1> QED
  BY <1>1, <1>2 DEF Resume

(* Asking the agent to start leaves the worker in a phase of its own.      *)
LEMMA AskAgentType ==
  ASSUME TypeOK, NEW g, AskAgent(g) PROVE worker' \in [Gens -> Phases]
  BY Values DEF TypeOK, AskAgent

(* The stop marker keeps the types (request_termination).                  *)
LEMMA RequestTerminationType ==
  ASSUME TypeOK, NEW g, NEW s \in Terminal, RequestTermination(g, s)
  PROVE  /\ DOMAIN queue' = Gens /\ batch' \in [Gens -> BOOLEAN]
         /\ termination' \in [Gens -> Terminal] /\ fate' \in [Ids -> Fates]
  BY FatedType, Values DEF TypeOK, RequestTermination

(* A background result keeps the types, merged into a batch or not.        *)
LEMMA AddBlockType ==
  ASSUME TypeOK, NEW g, NEW b, AddBlock(g, b)
  PROVE  /\ DOMAIN queue' = Gens /\ DOMAIN item' = Gens
         /\ batch' \in [Gens -> BOOLEAN] /\ idle' \in [Gens -> BOOLEAN]
         /\ fate' \in [Ids -> Fates]
<1>1. fate' \in [Ids -> Fates]
  BY FatedType, Values DEF AddBlock
<1>2. DOMAIN queue' = Gens /\ DOMAIN item' = Gens
  BY DEF TypeOK, AddBlock
<1>3. batch' \in [Gens -> BOOLEAN] /\ idle' \in [Gens -> BOOLEAN]
  BY DEF TypeOK, AddBlock
<1> QED
  BY <1>1, <1>2, <1>3

(* The end of the worker keeps the types (_close_session).                 *)
LEMMA ExitType ==
  ASSUME TypeOK, NEW g, Exit(g)
  PROVE  worker' \in [Gens -> Phases] /\ current' \in 0..MaxGen
  BY Values, GensAre DEF TypeOK, Exit

(* So does the top of its loop, which either waits or ends.                *)
LEMMA LoopTopType ==
  ASSUME TypeOK, NEW g, NEW q, LoopTop(g, q)
  PROVE  worker' \in [Gens -> Phases] /\ current' \in 0..MaxGen
  BY ExitType, Values DEF TypeOK, LoopTop

(* Preparing a turn keeps the types (prepare_turn).                        *)
LEMMA BeginTurnType ==
  ASSUME TypeOK, NEW g \in Gens, NEW i, NEW q, BeginTurn(g, i, q)
  PROVE  /\ lock' \in 0..MaxGen /\ DOMAIN item' = Gens
         /\ batch' \in [Gens -> BOOLEAN] /\ idle' \in [Gens -> BOOLEAN]
         /\ fate' \in [Ids -> Fates] /\ worker' \in [Gens -> Phases]
         /\ status' \in Statuses \cup {"gone"}
<1>1. fate' \in [Ids -> Fates]
  BY FatedType, Values DEF BeginTurn
<1>2. batch' \in [Gens -> BOOLEAN] /\ idle' \in [Gens -> BOOLEAN]
  BY DEF TypeOK, BeginTurn, OpenAfter
<1>3. lock' \in 0..MaxGen /\ DOMAIN item' = Gens
  BY GensAre DEF TypeOK, BeginTurn
<1>4. worker' \in [Gens -> Phases] /\ status' \in Statuses \cup {"gone"}
  BY RecordType, Values DEF TypeOK, BeginTurn
<1> QED
  BY <1>1, <1>2, <1>3, <1>4

(* Cancelling the worker leaves it in a phase (request_worker_stop).       *)
LEMMA CancelWorkerType ==
  ASSUME TypeOK, NEW g, CancelWorker(g)
  PROVE  worker' \in [Gens -> Phases] /\ DOMAIN item' = Gens
  BY Values DEF TypeOK, CancelWorker

(* The inputs a worker gives up have a fate.                               *)
LEMMA CutShortType ==
  ASSUME TypeOK, NEW g PROVE CutShort(g) \in [Ids -> Fates]
  BY FatedType, Values DEF TypeOK, CutShort

(* Every variable of a Session keeps its type, for any number of inputs and*)
(* generations: in particular a generation in the registry is one that was *)
(* launched.                                                               *)
THEOREM TypeCorrect == Spec => []TypeOK
<1>1. Init => TypeOK
  <2> SUFFICES ASSUME Init PROVE TypeOK
    OBVIOUS
  <2>1. /\ status \in Statuses \cup {"gone"} /\ resumable \in BOOLEAN
        /\ current \in 0..MaxGen /\ launched \in 0..MaxGen
        /\ DOMAIN queue = Gens
    <3>1. 1 \in 0..MaxGen /\ 0 \in 0..MaxGen
      BY SessionAssumption
    <3>2. CASE Created
      BY <3>1, <3>2, Values DEF Created
    <3>3. CASE Loaded
      BY <3>1, <3>3, Values DEF Loaded
    <3> QED
      BY <3>2, <3>3 DEF Init
  <2>2. worker \in [Gens -> Phases] /\ termination \in [Gens -> Terminal]
    BY Values DEF Init
  <2>3. fate \in [Ids -> Fates]
    BY Values DEF Init
  <2> QED
    BY <2>1, <2>2, <2>3, GensAre DEF Init, TypeOK
<1>2. TypeOK /\ [Next]_vars => TypeOK'
  <2> SUFFICES ASSUME TypeOK, [Next]_vars PROVE TypeOK'
    OBVIOUS
  <2> USE DEF ledger, registry, runtime, host
  <2>1. ASSUME NEW t \in Turns, Reply(t) PROVE TypeOK'
    <3>1. CASE Enqueue(current, t) /\ ~Resume(<<TurnOf(t)>>)
      BY <2>1, <3>1, EnqueueType DEF Reply, TypeOK
    <3>2. CASE Resume(<<TurnOf(t)>>)
      BY <3>2, ResumeType
    <3> QED
      BY <2>1, <3>1, <3>2 DEF Reply
  <2>2. ASSUME NEW R \in SUBSET Turns, Cancel(R) PROVE TypeOK'
    <3>1. worker' \in [Gens -> Phases]
      BY <2>2, AskAgentType DEF Cancel
    <3>2. /\ DOMAIN queue' = Gens /\ batch' \in [Gens -> BOOLEAN]
          /\ idle' \in [Gens -> BOOLEAN] /\ fate' \in [Ids -> Fates]
      BY <2>2, EnqueueType DEF Cancel, TypeOK
    <3> QED
      BY <2>2, <3>1, <3>2 DEF Cancel, TypeOK
  <2>3. CASE Stop
    <3>1. CASE RequestTermination(current, "stopped") /\ AskAgent(current)
               /\ UNCHANGED <<ledger, registry, item, closed, idle, process, lock, host>>
      BY <3>1, RequestTerminationType, AskAgentType, Values DEF TypeOK
    <3>2. CASE status' = "stopped"
               /\ UNCHANGED <<resumable, registry, worker, runtime, host, fate>>
      BY <3>2, Values DEF TypeOK
    <3> QED
      BY <2>3, <3>1, <3>2 DEF Stop
  <2>4. CASE MarkDone
    <3>1. CASE Accepts(current)
      BY <2>4, <3>1, RequestTerminationType, Values DEF MarkDone, TypeOK
    <3>2. CASE ~Accepts(current)
      BY <2>4, <3>2, Values DEF MarkDone, TypeOK
    <3> QED
      BY <3>1, <3>2
  <2>5. CASE ResumeTask
    BY <2>5, ResumeType DEF ResumeTask
  <2>6. CASE Clear
    BY <2>6 DEF Clear, TypeOK
  <2>7. ASSUME NEW b \in Blocks, BgResult(b) PROVE TypeOK'
    <3>1. CASE AddBlock(current, b) /\ UNCHANGED <<ledger, registry, worker,
                 termination, closed, process, lock, host>>
      BY <3>1, AddBlockType DEF TypeOK
    <3>2. CASE Resume(<<TurnOf(b)>>)
      BY <3>2, ResumeType
    <3> QED
      BY <2>7, <3>1, <3>2 DEF BgResult
  <2>8. ASSUME NEW g \in Gens, Worker(g) PROVE TypeOK'
    <3>1. CASE Begin(g)
      BY <3>1, Values DEF Begin, TypeOK
    <3>2. CASE StartOk(g)
      BY <3>2, ExitType, RecordType, Values DEF StartOk, TypeOK
    <3>3. CASE StartFail(g)
      BY <3>3, ExitType, RecordType, Values DEF StartFail, TypeOK
    <3>4. CASE Announced(g)
      BY <3>4, LoopTopType DEF Announced, TypeOK
    <3>5. CASE Take(g)
      <4>1. resumable' \in BOOLEAN /\ DOMAIN queue' = Gens
        BY <3>5 DEF Take, TypeOK
      <4>2. CASE Exit(g) /\ fate' = Fated(Head(queue[g]).ids, "lost")
                 /\ UNCHANGED <<status, batch, item, idle, lock>>
        BY <3>5, <4>1, <4>2, ExitType, FatedType, Values DEF Take, TypeOK
      <4>3. CASE /\ Record(termination[g])
                 /\ idle' = [idle EXCEPT ![g] = TRUE]
                 /\ worker' = [worker EXCEPT ![g] = "terminating"]
                 /\ UNCHANGED <<current, batch, item, lock, fate>>
        <5>1. status' \in Statuses \cup {"gone"}
          BY <4>3, RecordType, Values DEF TypeOK
        <5> QED
          BY <3>5, <4>1, <4>3, <5>1, Values DEF Take, TypeOK
      <4>4. CASE BeginTurn(g, Head(queue[g]), Tail(queue[g])) /\ UNCHANGED current
        BY <3>5, <4>1, <4>4, BeginTurnType DEF Take, TypeOK
      <4>5. CASE /\ item' = [item EXCEPT ![g] = Head(queue[g])]
                 /\ worker' = [worker EXCEPT ![g] = "locking"]
                 /\ UNCHANGED <<status, current, batch, idle, lock, fate>>
        BY <3>5, <4>1, <4>5, Values DEF Take, TypeOK
      <4> QED
        BY <3>5, <4>2, <4>3, <4>4, <4>5 DEF Take
    <3>6. CASE Acquire(g)
      <4>1. CASE current = g
        BY <3>6, <4>1, BeginTurnType DEF Acquire, TypeOK
      <4>2. CASE current # g
        BY <3>6, <4>2, ExitType, FatedType, Values DEF Acquire, TypeOK
      <4> QED
        BY <4>1, <4>2
    <3>7. CASE IdleExpires(g)
      BY <3>7, ExitType, RecordType, Values DEF IdleExpires, TypeOK
    <3>8. CASE Noticed(g)
      BY <3>8, ExitType DEF Noticed, TypeOK
    <3>9. CASE Prepare(g)
      BY <3>9, RecordType, Values DEF Prepare, TypeOK
    <3>10. CASE Prompt(g)
      BY <3>10, Values DEF Prompt, TypeOK
    <3>11. ASSUME NEW s \in {"completed", "cancelled"}, Answer(g, s) PROVE TypeOK'
      <4>1. fate' \in [Ids -> Fates]
        BY <3>11, FatedType, Values DEF Answer
      <4> QED
        BY <3>11, <4>1, RecordType, Values DEF Answer, TypeOK
    <3>12. CASE PromptFails(g)
      <4>1. fate' \in [Ids -> Fates]
        BY <3>12, FatedType, Values DEF PromptFails, TypeOK
      <4> QED
        BY <3>12, <4>1, RecordType, Values DEF PromptFails, TypeOK
    <3>13. CASE FailureTold(g)
      BY <3>13, FatedType, Values DEF FailureTold, TypeOK
    <3>14. CASE EndTurn(g)
      <4>1. worker' \in [Gens -> Phases] /\ current' \in 0..MaxGen
        BY <3>14, LoopTopType, ExitType DEF EndTurn
      <4> QED
        BY <3>14, <4>1, GensAre DEF EndTurn, TypeOK
    <3>15. CASE Close(g)
      <4>1. fate' \in [Ids -> Fates]
        BY <3>15, FatedType, Values DEF Close, TypeOK
      <4> QED
        BY <3>15, <4>1, Values DEF Close, TypeOK
    <3>16. CASE AgentClosed(g)
      BY <3>16, Values DEF AgentClosed, TypeOK
    <3> QED
      BY <2>8, <3>1, <3>2, <3>3, <3>4, <3>5, <3>6, <3>7, <3>8, <3>9, <3>10, <3>11,
         <3>12, <3>13, <3>14, <3>15, <3>16 DEF Worker
  <2>9. CASE BeginShutdown
    BY <2>9 DEF BeginShutdown, TypeOK
  <2>10. CASE SuspendAll
    <3>1. status' \in Statuses \cup {"gone"} /\ current' \in 0..MaxGen
      BY <2>10, RecordType, Values, GensAre DEF SuspendAll, TypeOK
    <3>2. worker' \in [Gens -> Phases] /\ DOMAIN item' = Gens
      BY <2>10, CancelWorkerType DEF SuspendAll, TypeOK
    <3>3. fate' \in [Ids -> Fates]
      BY <2>10, CutShortType DEF SuspendAll, TypeOK
    <3> QED
      BY <2>10, <3>1, <3>2, <3>3 DEF SuspendAll, TypeOK
  <2>11. CASE Sweep
    BY <2>11, GensAre DEF Sweep, TypeOK
  <2>12. CASE SweepClose
    <3>1. worker' \in [Gens -> Phases] /\ DOMAIN item' = Gens
      BY <2>12, CancelWorkerType DEF SweepClose, TypeOK
    <3>2. fate' \in [Ids -> Fates]
      <4>1. CASE closed[target]
        BY <2>12, <4>1 DEF SweepClose, TypeOK
      <4>2. CASE ~closed[target]
        BY <2>12, <4>2, CutShortType, Values DEF SweepClose
      <4> QED
        BY <4>1, <4>2
    <3> QED
      BY <2>12, <3>1, <3>2 DEF SweepClose, TypeOK
  <2>13. CASE SweepDone
    BY <2>13 DEF SweepDone, TypeOK
  <2>14. CASE ProcessEnds
    <3>1. worker' \in [Gens -> Phases] /\ fate' \in [Ids -> Fates]
      BY <2>14, Values DEF ProcessEnds, TypeOK
    <3>2. closed' \in [Gens -> BOOLEAN] /\ idle' \in [Gens -> BOOLEAN]
          /\ batch' \in [Gens -> BOOLEAN] /\ process' \in [Gens -> BOOLEAN]
      BY <2>14 DEF ProcessEnds
    <3> QED
      BY <2>14, <3>1, <3>2, GensAre DEF ProcessEnds, TypeOK
  <2>15. CASE Restart
    BY <2>15 DEF Restart, TypeOK
  <2>16. CASE UNCHANGED vars
    BY <2>16 DEF vars, TypeOK
  <2> QED
    BY <2>1, <2>2, <2>3, <2>4, <2>5, <2>6, <2>7, <2>8, <2>9, <2>10, <2>11, <2>12,
       <2>13, <2>14, <2>15, <2>16 DEF Next, External, Lifecycle
<1> QED
  BY <1>1, <1>2, PTL DEF Spec

----------------------------------------------------------------------------
(* The turn lock                                                           *)

(* One generation at a time executes a turn: each step keeps the turn lock *)
(* and the phases in which it is held together (_session_turn_lock).       *)
LEMMA LockStep ==
  ASSUME TypeOK, LockHeldByTurn, Generations, [Next]_vars PROVE LockHeldByTurn'
<1> USE DEF ledger, registry, runtime, host
<1>1. ASSUME UNCHANGED <<worker, lock>> PROVE LockHeldByTurn'
  BY <1>1 DEF LockHeldByTurn
<1>2. ASSUME NEW first, Launch(first) PROVE LockHeldByTurn'
  BY <1>2 DEF Launch, TypeOK, LockHeldByTurn, Generations, TurnPhases
<1>3. ASSUME NEW first, Resume(first) PROVE LockHeldByTurn'
  BY <1>1, <1>2, <1>3 DEF Resume
<1>4. ASSUME NEW g, AskAgent(g), UNCHANGED lock PROVE LockHeldByTurn'
  BY <1>4 DEF AskAgent, TypeOK, LockHeldByTurn, TurnPhases
<1>5. ASSUME NEW g, worker[g] \notin TurnPhases, Exit(g), UNCHANGED lock
      PROVE LockHeldByTurn'
  BY <1>5 DEF Exit, TypeOK, LockHeldByTurn, TurnPhases
<1>6. ASSUME NEW g \in Gens, NEW i, NEW q, worker[g] \notin TurnPhases, LockFree,
             BeginTurn(g, i, q)
      PROVE LockHeldByTurn'
  BY <1>6, GensAre DEF BeginTurn, LockFree, TypeOK, LockHeldByTurn, TurnPhases
<1>7. ASSUME NEW g \in Gens, CancelWorker(g), UNCHANGED lock PROVE LockHeldByTurn'
  BY <1>7 DEF CancelWorker, TypeOK, LockHeldByTurn, TurnPhases
<1>8. ASSUME NEW t \in Turns, Reply(t) PROVE LockHeldByTurn'
  BY <1>1, <1>3, <1>8 DEF Reply
<1>9. ASSUME NEW R, Cancel(R) PROVE LockHeldByTurn'
  BY <1>4, <1>9 DEF Cancel
<1>10. CASE Stop
  BY <1>1, <1>4, <1>10 DEF Stop
<1>11. CASE MarkDone
  BY <1>1, <1>11 DEF MarkDone
<1>12. CASE ResumeTask
  BY <1>3, <1>12 DEF ResumeTask
<1>13. CASE Clear
  BY <1>1, <1>13 DEF Clear
<1>14. ASSUME NEW b \in Blocks, BgResult(b) PROVE LockHeldByTurn'
  BY <1>1, <1>3, <1>14 DEF BgResult
<1>15. ASSUME NEW g \in Gens, Worker(g) PROVE LockHeldByTurn'
  <2>1. CASE Begin(g)
    BY <2>1 DEF Begin, TypeOK, LockHeldByTurn, TurnPhases
  <2>2. CASE StartOk(g)
    BY <2>2, <1>5 DEF StartOk, TypeOK, LockHeldByTurn, TurnPhases
  <2>3. CASE StartFail(g)
    BY <2>3, <1>5 DEF StartFail, TypeOK, LockHeldByTurn, TurnPhases
  <2>4. CASE Announced(g)
    BY <2>4, <1>5 DEF Announced, LoopTop, TypeOK, LockHeldByTurn, TurnPhases
  <2>5. CASE Take(g)
    <3>1. worker[g] \notin TurnPhases
      BY <2>5 DEF Take, TurnPhases
    <3>2. CASE Exit(g) /\ UNCHANGED lock
      BY <3>1, <3>2, <1>5
    <3>3. CASE LockFree /\ BeginTurn(g, Head(queue[g]), Tail(queue[g]))
      BY <3>1, <3>3, <1>6
    <3>4. CASE UNCHANGED lock /\ \/ worker' = [worker EXCEPT ![g] = "terminating"]
                                 \/ worker' = [worker EXCEPT ![g] = "locking"]
      BY <3>1, <3>4 DEF TypeOK, LockHeldByTurn, TurnPhases
    <3> QED
      BY <2>5, <3>2, <3>3, <3>4 DEF Take
  <2>6. CASE Acquire(g)
    <3>1. worker[g] \notin TurnPhases
      BY <2>6 DEF Acquire, TurnPhases
    <3> QED
      BY <2>6, <3>1, <1>5, <1>6 DEF Acquire
  <2>7. CASE IdleExpires(g)
    BY <2>7, <1>5 DEF IdleExpires, TypeOK, LockHeldByTurn, TurnPhases
  <2>8. CASE Noticed(g)
    BY <2>8, <1>5 DEF Noticed, TurnPhases
  <2>9. CASE Prepare(g) \/ Prompt(g) \/ PromptFails(g) \/ FailureTold(g)
    BY <2>9 DEF Prepare, Prompt, PromptFails, FailureTold, TypeOK, LockHeldByTurn,
                TurnPhases
  <2>10. ASSUME NEW s, Answer(g, s) PROVE LockHeldByTurn'
    BY <2>10 DEF Answer, TypeOK, LockHeldByTurn, TurnPhases
  <2>11. CASE EndTurn(g)
    <3>1. lock = g /\ lock' = 0
      BY <2>11 DEF EndTurn, LockHeldByTurn, TurnPhases
    <3>2. \E p \in {"wait", "ready", "draining"} : worker' = [worker EXCEPT ![g] = p]
      BY <2>11 DEF EndTurn, LoopTop, Exit
    <3> QED
      BY <3>1, <3>2, GensAre DEF TypeOK, LockHeldByTurn, TurnPhases
  <2>12. CASE Close(g) \/ AgentClosed(g)
    BY <2>12 DEF Close, AgentClosed, TypeOK, LockHeldByTurn, TurnPhases
  <2> QED
    BY <1>15, <2>1, <2>2, <2>3, <2>4, <2>5, <2>6, <2>7, <2>8, <2>9, <2>10, <2>11,
       <2>12 DEF Worker
<1>16. CASE BeginShutdown \/ Sweep \/ SweepDone \/ Restart
  BY <1>1, <1>16 DEF BeginShutdown, Sweep, SweepDone, Restart
<1>17. CASE SuspendAll
  <2>1. current # 0 => current \in Gens
    BY GensAre DEF TypeOK
  <2> QED
    BY <1>1, <1>7, <1>17, <2>1 DEF SuspendAll
<1>18. CASE SweepClose
  <2>1. CASE closed[target]
    BY <1>1, <1>18, <2>1 DEF SweepClose
  <2>2. CASE ~closed[target]
    BY <1>18, <2>2 DEF SweepClose, CancelWorker, TypeOK, LockHeldByTurn, TurnPhases
  <2> QED
    BY <2>1, <2>2
<1>19. CASE ProcessEnds
  BY <1>19, GensAre DEF ProcessEnds, LockHeldByTurn, TurnPhases
<1>20. CASE UNCHANGED vars
  BY <1>1, <1>20 DEF vars
<1> QED
  BY <1>8, <1>9, <1>10, <1>11, <1>12, <1>13, <1>14, <1>15, <1>16, <1>17, <1>18,
     <1>19, <1>20 DEF Next, External, Lifecycle

----------------------------------------------------------------------------
(* The generations                                                         *)

(* Which phases are those of a living worker.                              *)
LEMMA LiveFacts ==
  /\ {"fresh", "starting", "started", "startFailed", "terminating", "suspending",
      "ready", "wait", "locking"} \cup TurnPhases \subseteq LivePhases
  /\ {"none", "draining", "closing", "dead"} \cap LivePhases = {}
  BY DEF LivePhases, LoopPhases, TurnPhases

(* Until _shutdown cancels the workers, one generation lives at most.      *)
OneAlive ==
  daemon \in {"up", "stopping"} => \A g \in Gens : worker[g] \in LivePhases <=> g = current

GenInv == TypeOK /\ Generations /\ OneAlive

(* Initially no generation lives unless the registry has it.               *)
LEMMA GenInit == Init => Generations /\ OneAlive
<1>1. CASE Init /\ Created
  BY <1>1, LiveFacts, SessionAssumption
     DEF Init, Created, Generations, OneAlive, Gens
<1>2. CASE Init /\ Loaded
  BY <1>2, LiveFacts, SessionAssumption
     DEF Init, Loaded, Generations, OneAlive, Gens
<1> QED
  BY <1>1, <1>2 DEF Init

(* Each step keeps the generations in order: those not yet launched are    *)
(* empty, and of the launched ones only the registered one lives.          *)
LEMMA GenStep ==
  ASSUME GenInv, [Next]_vars PROVE Generations' /\ OneAlive'
<1> DEFINE Kept == Generations' /\ OneAlive'
<1> USE DEF ledger, registry, runtime, host, GenInv
<1>1. ASSUME UNCHANGED <<worker, current, launched, closed, host>> PROVE Kept
  BY <1>1 DEF Generations, OneAlive
<1>2. ASSUME NEW first, Launch(first), current = 0, daemon # "down" PROVE Kept
  <2>1. launched + 1 \in Gens /\ worker[launched + 1] = "none"
    BY <1>2 DEF Launch, Generations, TypeOK, Gens
  <2>2. Generations'
    BY <1>2, <2>1 DEF Launch, Generations, TypeOK, Gens
  <2>3. OneAlive'
    BY <1>2, <2>1, GensAre, LiveFacts DEF Launch, OneAlive, TypeOK
  <2> QED
    BY <2>2, <2>3
<1>3. ASSUME NEW first, Resume(first), current = 0, daemon # "down" PROVE Kept
  BY <1>1, <1>2, <1>3 DEF Resume
(* A live worker moves on. *)
<1>4. ASSUME NEW g \in Gens, NEW p \in LivePhases, worker[g] \in LivePhases,
             worker' = [worker EXCEPT ![g] = p], daemon # "down",
             UNCHANGED <<current, launched, closed, host>>
      PROVE Kept
  BY <1>4, LiveFacts DEF Generations, OneAlive, TypeOK
<1>5. ASSUME NEW g \in Gens, Exit(g), worker[g] \in LivePhases, daemon # "down",
             UNCHANGED <<launched, closed, host>>
      PROVE Kept
  <2>1. Generations'
    BY <1>5, LiveFacts DEF Exit, Generations, TypeOK
  <2>2. OneAlive'
    BY <1>5, LiveFacts, GensAre DEF Exit, OneAlive, TypeOK
  <2> QED
    BY <2>1, <2>2
<1>6. ASSUME NEW g, AskAgent(g), daemon # "down",
             UNCHANGED <<current, launched, closed, host>>
      PROVE Kept
  BY <1>1, <1>4, <1>6, LiveFacts DEF AskAgent, TypeOK, TurnPhases
<1>7. ASSUME NEW t \in Turns, Reply(t) PROVE Kept
  BY <1>1, <1>3, <1>7 DEF Reply, Serving
<1>8. ASSUME NEW R, Cancel(R) PROVE Kept
  BY <1>6, <1>8 DEF Cancel, Serving
<1>9. CASE Stop
  BY <1>1, <1>6, <1>9 DEF Stop, Serving
<1>10. CASE MarkDone
  BY <1>1, <1>10 DEF MarkDone
<1>11. CASE ResumeTask
  BY <1>3, <1>11 DEF ResumeTask, Serving
<1>12. CASE Clear
  BY <1>1, <1>12 DEF Clear
<1>13. ASSUME NEW b \in Blocks, BgResult(b) PROVE Kept
  BY <1>1, <1>3, <1>13 DEF BgResult, Serving
<1>14. ASSUME NEW g \in Gens, daemon # "down", Worker(g) PROVE Kept
  <2>1. CASE Begin(g) \/ Prepare(g) \/ Prompt(g) \/ FailureTold(g)
    BY <1>4, <1>14, <2>1, LiveFacts
       DEF Begin, Prepare, Prompt, FailureTold, TurnPhases
  <2>2. CASE StartOk(g) \/ StartFail(g)
    BY <1>4, <1>5, <1>14, <2>2, LiveFacts DEF StartOk, StartFail
  <2>3. ASSUME NEW q, LoopTop(g, q), worker[g] \in LivePhases,
               UNCHANGED <<launched, closed, host>>
        PROVE Kept
    BY <1>4, <1>5, <1>14, <2>3, LiveFacts DEF LoopTop
  <2>4. CASE Announced(g)
    BY <2>3, <2>4, LiveFacts DEF Announced
  <2>5. ASSUME NEW i, NEW q, BeginTurn(g, i, q), worker[g] \in LivePhases,
               UNCHANGED <<current, launched, closed, host>>
        PROVE Kept
    BY <1>4, <1>14, <2>5, LiveFacts DEF BeginTurn, TurnPhases
  <2>6. CASE Take(g)
    <3>1. worker[g] \in LivePhases
      BY <2>6, LiveFacts DEF Take
    <3>2. CASE Exit(g)
      BY <1>5, <1>14, <2>6, <3>1, <3>2 DEF Take
    <3>3. CASE BeginTurn(g, Head(queue[g]), Tail(queue[g])) /\ UNCHANGED current
      BY <2>5, <2>6, <3>1, <3>3 DEF Take
    <3>4. CASE UNCHANGED current
               /\ \/ worker' = [worker EXCEPT ![g] = "terminating"]
                  \/ worker' = [worker EXCEPT ![g] = "locking"]
      BY <1>4, <1>14, <2>6, <3>1, <3>4, LiveFacts DEF Take
    <3> QED
      BY <2>6, <3>2, <3>3, <3>4 DEF Take
  <2>7. CASE Acquire(g)
    BY <1>5, <1>14, <2>5, <2>7, LiveFacts DEF Acquire
  <2>8. CASE IdleExpires(g) \/ Noticed(g)
    BY <1>4, <1>5, <1>14, <2>8, LiveFacts DEF IdleExpires, Noticed
  <2>9. ASSUME NEW s, Answer(g, s) PROVE Kept
    BY <1>4, <1>14, <2>9, LiveFacts DEF Answer, TurnPhases
  <2>10. CASE PromptFails(g)
    BY <1>4, <1>14, <2>10, LiveFacts DEF PromptFails, TurnPhases
  <2>11. CASE EndTurn(g)
    <3>1. worker[g] \in LivePhases
      BY <2>11, LiveFacts DEF EndTurn, TurnPhases
    <3> QED
      BY <1>5, <1>14, <2>3, <2>11, <3>1 DEF EndTurn
  <2>12. CASE Close(g) \/ AgentClosed(g)
    BY <1>14, <2>12, LiveFacts DEF Close, AgentClosed, Generations,
       OneAlive, TypeOK
  <2> QED
    BY <1>14, <2>1, <2>2, <2>4, <2>6, <2>7, <2>8, <2>9, <2>10, <2>11, <2>12 DEF Worker
<1>15. CASE BeginShutdown \/ Sweep \/ SweepDone
  BY <1>15, GensAre DEF BeginShutdown, Sweep, SweepDone, Generations,
     OneAlive, TypeOK
<1>16. ASSUME NEW g \in Gens, worker[g] # "none", CancelWorker(g),
              UNCHANGED launched, current' \in {0, current}, target' \in {target, current},
              daemon' \notin {"up", "stopping", "down"}
       PROVE Kept
  BY <1>16 DEF CancelWorker, Generations, OneAlive, TypeOK, TurnPhases
<1>17. CASE SuspendAll
  <2>1. CASE current = 0
    BY <1>17, <2>1 DEF SuspendAll, Generations, OneAlive, TypeOK
  <2>2. CASE current # 0
    <3>1. current \in Gens /\ worker[current] # "none"
      BY <2>2, GensAre DEF Generations, TypeOK
    <3> QED
      BY <1>16, <1>17, <2>2, <3>1 DEF SuspendAll
  <2> QED
    BY <2>1, <2>2
<1>18. CASE SweepClose
  <2>1. CASE closed[target]
    BY <1>18, <2>1 DEF SweepClose, Generations, OneAlive
  <2>2. CASE ~closed[target] /\ target = 0
    BY <1>18, <2>2, GensAre DEF SweepClose, CancelWorker, Generations, OneAlive,
       TypeOK
  <2>3. CASE ~closed[target] /\ target # 0
    <3>1. target \in Gens /\ worker[target] # "none"
      BY <2>3, GensAre DEF Generations, TypeOK
    <3> QED
      BY <1>16, <1>18, <2>3, <3>1 DEF SweepClose
  <2> QED
    BY <2>1, <2>2, <2>3
<1>19. CASE ProcessEnds
  <2>1. daemon' = "down" /\ current' = 0 /\ target' = 0 /\ launched' = launched
    BY <1>19 DEF ProcessEnds
  <2>2. \A g \in Gens : /\ worker'[g] = IF g <= launched THEN "dead" ELSE "none"
                        /\ closed'[g] = (g <= launched)
    BY <1>19 DEF ProcessEnds
  <2>3. \A g \in Gens : g > launched <=> ~(g <= launched)
    BY DEF TypeOK, Gens
  <2>4. 0 \in 0..launched
    BY DEF TypeOK
  <2> QED
    BY <2>1, <2>2, <2>3, <2>4 DEF Generations, OneAlive
<1>20. CASE Restart
  BY <1>20, GensAre, LiveFacts DEF Restart, Generations, OneAlive, TypeOK
<1>21. CASE UNCHANGED vars
  BY <1>1, <1>21 DEF vars
<1> QED
  BY <1>7, <1>8, <1>9, <1>10, <1>11, <1>12, <1>13, <1>14, <1>15, <1>17, <1>18,
     <1>19, <1>20, <1>21 DEF Next, External, Lifecycle

----------------------------------------------------------------------------
(* The ledger                                                              *)

(* Each step keeps the ledger in step with the worker, given that one      *)
(* generation lives (GenInv).                                              *)
LEMMA LedgerStep ==
  ASSUME GenInv, LedgerTracksWorker, [Next]_vars PROVE LedgerTracksWorker'
<1> USE DEF ledger, registry, runtime, host, GenInv
<1>1. ASSUME UNCHANGED <<status, worker, current, daemon>>
      PROVE LedgerTracksWorker'
  BY <1>1 DEF LedgerTracksWorker
<1>2. ASSUME current' = 0 \/ daemon' # "up" \/ status' = "gone"
      PROVE LedgerTracksWorker'
  BY <1>2 DEF LedgerTracksWorker
<1>3. ASSUME NEW first, Launch(first) PROVE LedgerTracksWorker'
  <2>1. launched + 1 \in Gens
    BY <1>3 DEF Launch
  <2>2. worker'[current'] = "fresh"
    BY <1>3, <2>1 DEF Launch, TypeOK
  <2> QED
    BY <2>2 DEF LedgerTracksWorker, LoopPhases
<1>4. ASSUME NEW first, Resume(first), current = 0 PROVE LedgerTracksWorker'
  <2>1. CASE Launch(first)
    BY <1>3, <2>1
  <2>2. CASE UNCHANGED current
    BY <1>2, <1>4, <2>2
  <2> QED
    BY <1>4, <2>1, <2>2 DEF Resume
<1>5. ASSUME NEW g, AskAgent(g), UNCHANGED <<status, current, daemon>>
      PROVE LedgerTracksWorker'
  BY <1>5, GensAre DEF AskAgent, LedgerTracksWorker, TypeOK, LoopPhases
(* The registered worker's step: its new phase and the record agree. *)
<1>6. ASSUME NEW g \in Gens, NEW p, worker' = [worker EXCEPT ![g] = p],
             UNCHANGED daemon, current' = current,
             current = g => /\ p \in {"opening", "prompting", "cancelling"} => status' \in {"running", "gone"}
                            /\ p \in LoopPhases \cup {"started", "mirroring", "settling"} => status' \in {"idle", "gone"}
                            /\ p = "suspending" => status' \in {"suspended", "gone"}
                            /\ p \in {"failing", "startFailed", "unwinding"} => status' \in {"failed", "gone"}
                            /\ p = "terminating" => status' \in Terminal \cup {"gone"},
             current # g => status' = status
      PROVE LedgerTracksWorker'
  <2>1. CASE current = g
    <3>1. worker'[current'] = p
      BY <1>6, <2>1 DEF TypeOK
    <3> QED
      BY <1>6, <2>1, <3>1 DEF LedgerTracksWorker
  <2>2. CASE current # g
    <3>1. current # 0 => worker'[current'] = worker[current]
      BY <1>6, <2>2, GensAre DEF TypeOK
    <3> QED
      BY <1>6, <2>2, <3>1 DEF LedgerTracksWorker
  <2> QED
    BY <2>1, <2>2
<1>7. ASSUME NEW g \in Gens, Exit(g), daemon' = daemon, worker[g] \in LivePhases
      PROVE LedgerTracksWorker'
  <2>1. daemon = "up" => g = current
    BY <1>7 DEF OneAlive
  <2> QED
    BY <1>2, <1>7, <2>1 DEF Exit
<1>8. ASSUME NEW t \in Turns, Reply(t) PROVE LedgerTracksWorker'
  BY <1>1, <1>4, <1>8 DEF Reply
<1>9. ASSUME NEW R, Cancel(R) PROVE LedgerTracksWorker'
  BY <1>5, <1>9 DEF Cancel
<1>10. CASE Stop
  BY <1>2, <1>5, <1>10 DEF Stop
<1>11. CASE MarkDone
  <2>1. CASE daemon # "up" \/ current = 0
    BY <1>2, <1>11, <2>1 DEF MarkDone
  <2>2. CASE daemon = "up" /\ current # 0
    <3>1. current \in Gens /\ worker[current] \in LivePhases
      BY <2>2, GensAre DEF OneAlive, TypeOK
    <3>2. Accepts(current)
      BY <2>2, <3>1, LiveFacts DEF Accepts, Generations
    <3> QED
      BY <1>1, <1>11, <3>2 DEF MarkDone
  <2> QED
    BY <2>1, <2>2
<1>12. CASE ResumeTask
  BY <1>4, <1>12 DEF ResumeTask
<1>13. CASE Clear
  BY <1>2, <1>13 DEF Clear
<1>14. ASSUME NEW b \in Blocks, BgResult(b) PROVE LedgerTracksWorker'
  BY <1>1, <1>4, <1>14 DEF BgResult
<1>15. ASSUME NEW g \in Gens, Worker(g) PROVE LedgerTracksWorker'
  <2>0. UNCHANGED daemon
    BY <1>15 DEF Worker, Begin, StartOk, StartFail, Announced, Take, Acquire,
       IdleExpires, Noticed, Prepare, Prompt, Answer, PromptFails, FailureTold,
       EndTurn, Close, AgentClosed
  <2> SUFFICES ASSUME daemon = "up", daemon' = "up" PROVE LedgerTracksWorker'
    BY <1>2, <2>0
  <2>1. worker[g] \in LivePhases => g = current
    BY DEF OneAlive
  <2>2. CASE Begin(g)
    BY <1>6, <2>2 DEF Begin, LoopPhases
  <2>3. CASE StartOk(g)
    <3>1. CASE current = g
      BY <1>6, <2>3, <3>1 DEF StartOk, Record, LoopPhases
    <3>2. CASE current # g
      BY <1>7, <2>1, <2>3, <3>2, LiveFacts DEF StartOk
    <3> QED
      BY <3>1, <3>2
  <2>4. CASE StartFail(g)
    <3>1. CASE current = g
      BY <1>6, <2>4, <3>1 DEF StartFail, Record, LoopPhases
    <3>2. CASE current # g
      BY <2>1, <2>4, <3>2, LiveFacts DEF StartFail
    <3> QED
      BY <3>1, <3>2
  <2>5. ASSUME NEW q, LoopTop(g, q), worker[g] \in {"started", "settling"},
               UNCHANGED status
        PROVE LedgerTracksWorker'
    <3>1. current = g
      BY <2>1, <2>5, LiveFacts, Values
    <3>2. status \in {"idle", "gone"}
      BY <2>5, <3>1, GensAre DEF LedgerTracksWorker
    <3>3. PICK p \in {"wait", "ready"} : worker' = [worker EXCEPT ![g] = p]
      BY <2>5, <3>1 DEF LoopTop
    <3>4. current' = current
      BY <2>5, <3>1 DEF LoopTop
    <3> QED
      BY <1>6, <2>5, <3>1, <3>2, <3>3, <3>4 DEF LoopPhases
  <2>6. CASE Announced(g)
    BY <2>5, <2>6 DEF Announced
  <2>7. ASSUME NEW i, NEW q, BeginTurn(g, i, q), worker[g] \in LoopPhases,
               UNCHANGED current
        PROVE LedgerTracksWorker'
    <3>1. current = g
      BY <2>1, <2>7 DEF LivePhases
    <3>2. status \in {"idle", "gone"}
      BY <2>7, <3>1, GensAre DEF LedgerTracksWorker
    <3>3. CASE worker' = [worker EXCEPT ![g] = "mirroring"] /\ UNCHANGED status
      BY <1>6, <2>7, <3>1, <3>2, <3>3 DEF LoopPhases
    <3>4. CASE worker' = [worker EXCEPT ![g] = "opening"] /\ Record("running")
      BY <1>6, <2>7, <3>1, <3>4 DEF Record, LoopPhases
    <3> QED
      BY <2>7, <3>3, <3>4 DEF BeginTurn
  <2>8. CASE Take(g)
    <3>1. worker[g] \in LoopPhases /\ g = current
      BY <2>1, <2>8, LiveFacts DEF Take, LoopPhases
    <3>2. status \in {"idle", "gone"}
      BY <3>1, GensAre DEF LedgerTracksWorker
    <3>3. CASE Record(termination[g]) /\ worker' = [worker EXCEPT ![g] = "terminating"]
               /\ UNCHANGED current
      <4>1. status' \in Terminal \cup {"gone"}
        BY <3>3 DEF Record, TypeOK
      <4> QED
        BY <1>6, <3>1, <3>3, <4>1 DEF LoopPhases
    <3>4. CASE BeginTurn(g, Head(queue[g]), Tail(queue[g])) /\ UNCHANGED current
      BY <2>7, <3>1, <3>4
    <3>5. CASE worker' = [worker EXCEPT ![g] = "locking"]
               /\ UNCHANGED <<status, current>>
      BY <1>6, <3>1, <3>2, <3>5 DEF LoopPhases
    <3> QED
      BY <2>8, <3>1, <3>3, <3>4, <3>5 DEF Take
  <2>9. CASE Acquire(g)
    <3>1. worker[g] \in LoopPhases /\ g = current
      BY <2>1, <2>9, LiveFacts DEF Acquire, LoopPhases
    <3> QED
      BY <2>7, <2>9, <3>1 DEF Acquire
  <2>10. CASE IdleExpires(g)
    <3>1. g = current
      BY <2>1, <2>10, LiveFacts DEF IdleExpires
    <3> QED
      BY <1>6, <2>10, <3>1 DEF IdleExpires, Record, LoopPhases
  <2>11. CASE Noticed(g)
    BY <1>7, <2>11, LiveFacts DEF Noticed
  <2>12. CASE Prepare(g)
    <3>1. g = current
      BY <2>1, <2>12, LiveFacts, Values DEF Prepare
    <3> QED
      BY <1>6, <2>12, <3>1 DEF Prepare, Record, LoopPhases
  <2>13. CASE Prompt(g)
    <3>1. g = current
      BY <2>1, <2>13, LiveFacts, Values DEF Prompt
    <3>2. status \in {"running", "gone"}
      BY <2>13, <3>1, GensAre DEF Prompt, LedgerTracksWorker
    <3> QED
      BY <1>6, <2>13, <3>1, <3>2 DEF Prompt, LoopPhases
  <2>14. ASSUME NEW s, Answer(g, s) PROVE LedgerTracksWorker'
    <3>1. g = current
      BY <2>1, <2>14, LiveFacts, Values DEF Answer
    <3> QED
      BY <1>6, <2>14, <3>1 DEF Answer, Record, LoopPhases
  <2>15. CASE PromptFails(g)
    <3>1. g = current
      BY <2>1, <2>15, LiveFacts, Values DEF PromptFails
    <3> QED
      BY <1>6, <2>15, <3>1 DEF PromptFails, Record, LoopPhases
  <2>16. CASE FailureTold(g)
    <3>1. g = current
      BY <2>1, <2>16, LiveFacts, Values DEF FailureTold
    <3>2. status \in {"failed", "gone"}
      BY <2>16, <3>1, GensAre DEF FailureTold, LedgerTracksWorker
    <3> QED
      BY <1>6, <2>16, <3>1, <3>2 DEF FailureTold, LoopPhases
  <2>17. CASE EndTurn(g)
    BY <1>7, <2>5, <2>17, LiveFacts, Values DEF EndTurn
  <2>18. CASE Close(g) \/ AgentClosed(g)
    BY <1>6, <2>18, LiveFacts DEF Close, AgentClosed, LoopPhases
  <2> QED
    BY <1>15, <2>2, <2>3, <2>4, <2>6, <2>8, <2>9, <2>10, <2>11, <2>12, <2>13,
       <2>14, <2>15, <2>16, <2>17, <2>18 DEF Worker
<1>16. CASE Lifecycle
  <2>1. current' = 0 \/ daemon' # "up"
    <3>1. daemon = "down" => current = 0
      BY DEF Generations
    <3> QED
      BY <1>16, <3>1 DEF Lifecycle, BeginShutdown, SuspendAll, Sweep, SweepClose,
                   SweepDone, ProcessEnds, Restart
  <2> QED
    BY <1>2, <2>1
<1>17. CASE UNCHANGED vars
  BY <1>1, <1>17 DEF vars
<1> QED
  BY <1>8, <1>9, <1>10, <1>11, <1>12, <1>13, <1>14, <1>15, <1>16, <1>17
     DEF Next, External

----------------------------------------------------------------------------
(* The agent processes                                                     *)

(* Why NoOrphanAgent holds: the shutdown finds no worker that is already   *)
(* unwinding in the registry, and a runtime closed before its worker was   *)
(* through is the one that _shutdown closes.                               *)
Attended ==
  /\ daemon \in {"up", "stopping"} /\ current # 0 => worker[current] \in LivePhases
  /\ \A g \in Gens : closed[g] =>
       worker[g] \in {"closing", "dead"} \/ (daemon = "closing" /\ target = g)

(* Each step keeps every agent process in somebody's care.                 *)
LEMMA OrphanStep ==
  ASSUME GenInv, Attended, NoOrphanAgent, [Next]_vars PROVE Attended' /\ NoOrphanAgent'
<1> DEFINE Kept == Attended' /\ NoOrphanAgent'
<1> USE DEF ledger, registry, runtime, host, GenInv
<1>1. ASSUME UNCHANGED <<worker, current, closed, process, host>> PROVE Kept
  BY <1>1 DEF Attended, NoOrphanAgent
<1>2. ASSUME NEW first, Launch(first) PROVE Kept
  <2>1. /\ launched + 1 \in Gens /\ worker[launched + 1] = "none"
        /\ target # launched + 1
    BY <1>2 DEF Launch, Generations, TypeOK, Gens
  <2>2. ~closed[launched + 1] /\ ~process[launched + 1]
    BY <2>1, LiveFacts DEF Attended, NoOrphanAgent
  <2>3. /\ worker' = [worker EXCEPT ![launched + 1] = "fresh"] /\ current' = launched + 1
        /\ UNCHANGED <<closed, process, daemon, target>>
    BY <1>2 DEF Launch
  <2>4. Attended'
    BY <2>1, <2>2, <2>3, LiveFacts DEF Attended, TypeOK
  <2>5. NoOrphanAgent'
    BY <2>1, <2>2, <2>3 DEF NoOrphanAgent, TypeOK
  <2> QED
    BY <2>4, <2>5
<1>3. ASSUME NEW first, Resume(first) PROVE Kept
  BY <1>1, <1>2, <1>3 DEF Resume
(* A live worker moves on, or leaves its loop. *)
<1>4. ASSUME NEW g \in Gens, NEW p \in LivePhases \ {"fresh"}, worker[g] \in LivePhases,
             worker' = [worker EXCEPT ![g] = p], UNCHANGED <<current, closed, process, host>>
      PROVE Kept
  <2>1. Attended'
    BY <1>4, LiveFacts DEF Attended, TypeOK
  <2>2. NoOrphanAgent'
    BY <1>4 DEF NoOrphanAgent, TypeOK
  <2> QED
    BY <2>1, <2>2
<1>5. ASSUME NEW g \in Gens, Exit(g), worker[g] \in LivePhases,
             UNCHANGED <<closed, process, host>>
      PROVE Kept
  <2>1. Attended'
    BY <1>5, LiveFacts DEF Exit, Attended, TypeOK
  <2>2. NoOrphanAgent'
    BY <1>5 DEF Exit, NoOrphanAgent, TypeOK
  <2> QED
    BY <2>1, <2>2
<1>6. ASSUME NEW g, AskAgent(g), UNCHANGED <<current, closed, process, host>>
      PROVE Kept
  BY <1>1, <1>4, <1>6, LiveFacts DEF AskAgent, TypeOK, TurnPhases
<1>7. ASSUME NEW t \in Turns, Reply(t) PROVE Kept
  BY <1>1, <1>3, <1>7 DEF Reply
<1>8. ASSUME NEW R, Cancel(R) PROVE Kept
  BY <1>6, <1>8 DEF Cancel
<1>9. CASE Stop
  BY <1>1, <1>6, <1>9 DEF Stop
<1>10. CASE MarkDone
  BY <1>1, <1>10 DEF MarkDone
<1>11. CASE ResumeTask
  BY <1>3, <1>11 DEF ResumeTask
<1>12. CASE Clear
  BY <1>1, <1>12 DEF Clear
<1>13. ASSUME NEW b \in Blocks, BgResult(b) PROVE Kept
  BY <1>1, <1>3, <1>13 DEF BgResult
<1>14. ASSUME NEW g \in Gens, daemon # "down", Worker(g) PROVE Kept
  <2>1. CASE Begin(g)
    <3>1. /\ worker[g] = "fresh" /\ worker' = [worker EXCEPT ![g] = "starting"]
          /\ process' = [process EXCEPT ![g] = TRUE]
          /\ UNCHANGED <<current, closed, host>>
      BY <2>1 DEF Begin
    <3>2. Attended'
      BY <3>1, LiveFacts DEF Attended, TypeOK
    <3>3. NoOrphanAgent'
      BY <3>1, LiveFacts DEF NoOrphanAgent, TypeOK
    <3> QED
      BY <3>2, <3>3
  <2>2. CASE Prepare(g) \/ Prompt(g) \/ FailureTold(g)
    BY <1>4, <2>2, LiveFacts DEF Prepare, Prompt, FailureTold, TurnPhases
  <2>3. CASE StartOk(g) \/ StartFail(g)
    BY <1>4, <1>5, <2>3, LiveFacts DEF StartOk, StartFail
  <2>4. ASSUME NEW q, LoopTop(g, q), worker[g] \in LivePhases,
               UNCHANGED <<closed, process, host>>
        PROVE Kept
    BY <1>4, <1>5, <2>4, LiveFacts DEF LoopTop
  <2>5. CASE Announced(g)
    BY <2>4, <2>5, LiveFacts DEF Announced
  <2>6. ASSUME NEW i, NEW q, BeginTurn(g, i, q), worker[g] \in LivePhases,
               UNCHANGED <<current, closed, process, host>>
        PROVE Kept
    BY <1>4, <2>6, LiveFacts DEF BeginTurn, TurnPhases
  <2>7. CASE Take(g)
    <3>1. worker[g] \in LivePhases
      BY <2>7, LiveFacts DEF Take
    <3>2. CASE Exit(g)
      BY <1>5, <2>7, <3>1, <3>2 DEF Take
    <3>3. CASE BeginTurn(g, Head(queue[g]), Tail(queue[g])) /\ UNCHANGED current
      BY <2>6, <2>7, <3>1, <3>3 DEF Take
    <3>4. CASE UNCHANGED current
               /\ \/ worker' = [worker EXCEPT ![g] = "terminating"]
                  \/ worker' = [worker EXCEPT ![g] = "locking"]
      BY <1>4, <2>7, <3>1, <3>4, LiveFacts DEF Take
    <3> QED
      BY <2>7, <3>2, <3>3, <3>4 DEF Take
  <2>8. CASE Acquire(g)
    BY <1>5, <2>6, <2>8, LiveFacts DEF Acquire
  <2>9. CASE IdleExpires(g) \/ Noticed(g)
    BY <1>4, <1>5, <2>9, LiveFacts DEF IdleExpires, Noticed
  <2>10. ASSUME NEW s, Answer(g, s) PROVE Kept
    BY <1>4, <2>10, LiveFacts DEF Answer, TurnPhases
  <2>11. CASE PromptFails(g)
    BY <1>4, <2>11, LiveFacts DEF PromptFails, TurnPhases
  <2>12. CASE EndTurn(g)
    <3>1. worker[g] \in LivePhases
      BY <2>12, LiveFacts DEF EndTurn, TurnPhases
    <3> QED
      BY <1>5, <2>4, <2>12, <3>1 DEF EndTurn
  <2>13. CASE Close(g) \/ AgentClosed(g)
    <3>1. worker[g] \in {"draining", "closing"} /\ UNCHANGED <<current, host>>
      BY <2>13 DEF Close, AgentClosed
    <3>2. \A h \in Gens : h # g => worker'[h] = worker[h] /\ closed'[h] = closed[h]
      BY <2>13 DEF Close, AgentClosed, TypeOK
    <3>3. daemon \in {"up", "stopping"} /\ current # 0 => current \in Gens /\ current # g
      BY <3>1, LiveFacts, GensAre DEF Attended, TypeOK
    <3>4. closed'[g] => worker'[g] \in {"closing", "dead"}
      BY <2>13 DEF Close, AgentClosed, TypeOK
    <3>5. Attended'
      BY <3>1, <3>2, <3>3, <3>4 DEF Attended
    <3>6. NoOrphanAgent'
      BY <2>13, <3>1 DEF Close, AgentClosed, Attended, NoOrphanAgent, TypeOK
    <3> QED
      BY <3>5, <3>6
  <2> QED
    BY <1>14, <2>1, <2>2, <2>3, <2>5, <2>7, <2>8, <2>9, <2>10, <2>11, <2>12, <2>13
    DEF Worker
<1>15. CASE BeginShutdown \/ Sweep \/ Restart
  BY <1>15 DEF BeginShutdown, Sweep, Restart, Generations, Attended, NoOrphanAgent
<1>16. CASE SweepDone
  BY <1>16 DEF SweepDone, Attended, NoOrphanAgent, TypeOK
<1>17. CASE SuspendAll
  <2>1. CASE current = 0
    BY <1>17, <2>1 DEF SuspendAll, Attended, NoOrphanAgent
  <2>2. CASE current # 0
    <3>1. /\ current \in Gens /\ worker[current] \in LivePhases
          /\ CancelWorker(current) /\ daemon = "stopping" /\ daemon' = "gathering"
          /\ UNCHANGED <<closed, process>>
      BY <1>17, <2>2, GensAre DEF SuspendAll, Attended, TypeOK
    <3>2. \A g \in Gens : g # current => worker'[g] = worker[g]
      BY <3>1 DEF CancelWorker, TypeOK
    <3>3. worker[current] # "fresh" => worker'[current] \in {"draining", "unwinding"}
      BY <3>1, LiveFacts DEF CancelWorker, TypeOK
    <3>4. Attended'
      BY <3>1, <3>2, LiveFacts DEF Attended
    <3>5. NoOrphanAgent'
      BY <3>1, <3>2, <3>3, LiveFacts DEF NoOrphanAgent, TurnPhases
    <3> QED
      BY <3>4, <3>5
  <2> QED
    BY <2>1, <2>2
<1>18. CASE SweepClose
  <2>1. CASE closed[target]
    BY <1>18, <2>1 DEF SweepClose, Attended, NoOrphanAgent
  <2>2. CASE ~closed[target]
    <3>1. /\ daemon = "sweeping" /\ daemon' = "closing" /\ target' = target
          /\ CancelWorker(target) /\ closed' = [closed EXCEPT ![target] = TRUE]
          /\ UNCHANGED process
      BY <1>18, <2>2 DEF SweepClose
    <3>2. \A g \in Gens : g # target => worker'[g] = worker[g] /\ closed'[g] = closed[g]
      BY <3>1 DEF CancelWorker, TypeOK
    <3> QED
      BY <3>1, <3>2 DEF Attended, NoOrphanAgent
  <2> QED
    BY <2>1, <2>2
<1>19. CASE ProcessEnds
  <2>1. daemon' = "down" /\ current' = 0
    BY <1>19 DEF ProcessEnds
  <2>2. \A g \in Gens : /\ worker'[g] = IF g <= launched THEN "dead" ELSE "none"
                        /\ closed'[g] = (g <= launched) /\ process'[g] = FALSE
    BY <1>19 DEF ProcessEnds
  <2> QED
    BY <2>1, <2>2 DEF Attended, NoOrphanAgent
<1>20. CASE UNCHANGED vars
  BY <1>1, <1>20 DEF vars
<1> QED
  BY <1>7, <1>8, <1>9, <1>10, <1>11, <1>12, <1>13, <1>14, <1>15, <1>16, <1>17, <1>18,
     <1>19, <1>20 DEF Next, External, Lifecycle

----------------------------------------------------------------------------
(* The places of a queue                                                   *)

(* The elements of a set of places, counted: Nth numbers them without a gap*)
(* and without a repetition.                                               *)
LEMMA NthOf ==
  ASSUME NEW N \in Nat, NEW S \in SUBSET (1..N)
  PROVE  /\ Cardinality(S) \in Nat
         /\ \A k \in 1..Cardinality(S) : Nth(S, k) \in S
         /\ \A k, l \in 1..Cardinality(S) : Nth(S, k) = Nth(S, l) => k = l
         /\ \A n \in S : \E k \in 1..Cardinality(S) : Nth(S, k) = n
         /\ \A k, l \in 1..Cardinality(S) : k < l => Nth(S, k) < Nth(S, l)
<1> DEFINE c == Cardinality(S)
           B(n) == {m \in S : m <= n}
           r == [n \in S |-> Cardinality(B(n))]
<1>1. IsFiniteSet(S) /\ c \in Nat /\ \A n \in S : n \in Nat
  <2>1. IsFiniteSet(1..N)
    BY FS_Interval
  <2>2. IsFiniteSet(S)
    BY <2>1, FS_Subset
  <2> QED
    BY <2>2, FS_CardinalityType
<1>2. ASSUME NEW n \in S
      PROVE  B(n) \in SUBSET S /\ IsFiniteSet(B(n)) /\ n \in B(n) /\ Cardinality(B(n)) \in 1..c
  <2>1. B(n) \in SUBSET S /\ n \in B(n)
    BY <1>1
  <2>2. IsFiniteSet(B(n)) /\ Cardinality(B(n)) <= c
    BY <1>1, <2>1, FS_Subset
  <2>3. Cardinality(B(n)) \in Nat /\ Cardinality(B(n)) # 0
    BY <2>1, <2>2, FS_CardinalityType, FS_EmptySet
  <2> QED
    BY <1>1, <2>1, <2>2, <2>3
<1>3. ASSUME NEW n \in S, NEW l \in S, n < l PROVE r[n] # r[l]
  <2>0. n \in Nat /\ l \in Nat /\ \A m \in S : m \in Nat
    BY <1>1
  <2>4. ASSUME NEW m \in S, m <= n PROVE m <= l
    BY <2>0, <2>4, <1>3
  <2>5. l <= l /\ ~(l <= n)
    BY <2>0, <1>3
  <2>1. B(n) \in SUBSET B(l) /\ l \notin B(n) /\ l \in B(l)
    BY <2>4, <2>5
  <2>3. IsFiniteSet(B(l))
    BY <1>2
  <2>2. Cardinality(B(l)) # Cardinality(B(n))
    BY <2>1, <2>3, FS_Subset
  <2> QED
    BY <2>2
<1>4. r \in Injection(S, 1..c)
  <2>1. r \in [S -> 1..c]
    BY <1>2
  <2>2. \A n, l \in S : r[n] = r[l] => n = l
    <3>1. \A n, l \in S : n < l \/ l < n \/ n = l
      BY <1>1
    <3> QED
      BY <1>3, <3>1
  <2> QED
    BY <2>1, <2>2 DEF Injection, IsInjective
<1>5. r \in Surjection(S, 1..c)
  <2>1. IsFiniteSet(1..c) /\ Cardinality(1..c) = c
    BY <1>1, FS_Interval
  <2> HIDE DEF r
  <2> QED
    BY <1>4, <2>1, FS_Injection
<1>6. ASSUME NEW k \in 1..c PROVE Nth(S, k) \in S /\ r[Nth(S, k)] = k
  <2>1. \E n \in S : Cardinality(B(n)) = k
    BY <1>5 DEF Surjection
  <2>2. Nth(S, k) \in S /\ Cardinality(B(Nth(S, k))) = k
    BY <2>1 DEF Nth
  <2> QED
    BY <2>2
<1>7. ASSUME NEW n \in S PROVE r[n] \in 1..c /\ Nth(S, r[n]) = n
  <2>1. r[n] \in 1..c
    BY <1>4 DEF Injection
  <2>2. Nth(S, r[n]) \in S /\ r[Nth(S, r[n])] = r[n]
    BY <1>6, <2>1
  <2> QED
    BY <1>4, <2>1, <2>2 DEF Injection, IsInjective
<1>8. ASSUME NEW k \in 1..c, NEW l \in 1..c, k < l PROVE Nth(S, k) < Nth(S, l)
  <2>1. PICK n \in S, m \in S : n = Nth(S, k) /\ m = Nth(S, l)
    BY <1>6
  <2>2. Cardinality(B(n)) = k /\ Cardinality(B(m)) = l
    <3>1. r[n] = k /\ r[m] = l
      BY <1>6, <2>1
    <3> QED
      BY <3>1
  <2>3. ~(m <= n)
    <3>1. SUFFICES ASSUME m <= n PROVE FALSE
      OBVIOUS
    <3>2. n \in Nat /\ m \in Nat /\ \A j \in S : j \in Nat
      BY <1>1
    <3>3. \A j \in S : j <= m => j <= n
      BY <3>1, <3>2
    <3>4. B(m) \in SUBSET B(n)
      BY <3>3
    <3>5. Cardinality(B(m)) <= Cardinality(B(n))
      BY <1>2, <3>4, FS_Subset
    <3> QED
      BY <1>8, <2>2, <3>5
  <2> QED
    BY <1>1, <2>1, <2>3
<1> QED
  BY <1>1, <1>6, <1>7, <1>8

(* A stop leaves every turn and marker at one new place, and nothing else  *)
(* (request_termination).                                                  *)
LEMMA WithoutBatchesIs ==
  ASSUME NEW T, NEW q \in Seq(T)
  PROVE  LET w == WithoutBatches(q) IN
         /\ w \in Seq(T)
         /\ \A k \in 1..Len(w) : \E n \in 1..Len(q) : w[k] = q[n] /\ IsTurnOrEnd(q[n])
         /\ \A k, l \in 1..Len(w) : k # l =>
              \E n, m \in 1..Len(q) : w[k] = q[n] /\ w[l] = q[m] /\ n # m
         /\ \A n \in 1..Len(q) : IsTurnOrEnd(q[n]) => \E k \in 1..Len(w) : w[k] = q[n]
<1> DEFINE S == Staying(q)
           w == WithoutBatches(q)
<1>1. Len(q) \in Nat /\ S \in SUBSET (1..Len(q))
  BY DEF Staying
<1>2. /\ Cardinality(S) \in Nat
      /\ \A k \in 1..Cardinality(S) : Nth(S, k) \in S
      /\ \A k, l \in 1..Cardinality(S) : Nth(S, k) = Nth(S, l) => k = l
      /\ \A n \in S : \E k \in 1..Cardinality(S) : Nth(S, k) = n
  BY <1>1, NthOf
<1>3. \A k \in 1..Cardinality(S) : q[Nth(S, k)] \in T
  BY <1>1, <1>2
<1>4. w \in [1..Cardinality(S) -> T]
  BY <1>3 DEF WithoutBatches
<1>5. w \in Seq(T) /\ Len(w) = Cardinality(S)
  BY <1>2, <1>4
<1>6. \A k \in 1..Len(w) : w[k] = q[Nth(S, k)]
  BY <1>5 DEF WithoutBatches
<1>7. \A n \in S : IsTurnOrEnd(q[n])
  BY DEF Staying
<1>8. \A n \in 1..Len(q) : IsTurnOrEnd(q[n]) => n \in S
  BY DEF Staying
<1> HIDE DEF S, w
<1>9. \A k \in 1..Len(w) : \E n \in 1..Len(q) : w[k] = q[n] /\ IsTurnOrEnd(q[n])
  BY <1>1, <1>2, <1>5, <1>6, <1>7
<1>10. \A k, l \in 1..Len(w) : k # l =>
         \E n, m \in 1..Len(q) : w[k] = q[n] /\ w[l] = q[m] /\ n # m
  BY <1>1, <1>2, <1>5, <1>6
<1>11. \A n \in 1..Len(q) : IsTurnOrEnd(q[n]) => \E k \in 1..Len(w) : w[k] = q[n]
  BY <1>2, <1>5, <1>6, <1>8
<1> QED
  BY <1>5, <1>9, <1>10, <1>11 DEF w

(* What is then ahead of a turn or marker was ahead of it before.          *)
LEMMA StayAhead ==
  ASSUME NEW T, NEW q \in Seq(T), NEW n \in 1..Len(q), IsTurnOrEnd(q[n])
  PROVE  LET w == WithoutBatches(q) IN
         \E k \in 1..Len(w) : /\ w[k] = q[n]
                              /\ \A l \in 1..k : \E m \in 1..n : w[l] = q[m]
<1> DEFINE S == Staying(q)
           w == WithoutBatches(q)
<1>1. Len(q) \in Nat /\ S \in SUBSET (1..Len(q)) /\ n \in S
  BY DEF Staying
<1>2. /\ Cardinality(S) \in Nat
      /\ \A k \in 1..Cardinality(S) : Nth(S, k) \in S
      /\ \A j \in S : \E k \in 1..Cardinality(S) : Nth(S, k) = j
      /\ \A k, l \in 1..Cardinality(S) : k < l => Nth(S, k) < Nth(S, l)
  BY <1>1, NthOf
<1>3. w = [k \in 1..Cardinality(S) |-> q[Nth(S, k)]]
  BY DEF WithoutBatches
<1>4. Len(w) = Cardinality(S)
  BY <1>2, <1>3
<1> HIDE DEF S, w
<1>5. PICK k \in 1..Cardinality(S) : Nth(S, k) = n
  BY <1>1, <1>2
<1>6. ASSUME NEW l \in 1..k PROVE \E m \in 1..n : w[l] = q[m]
  <2>1. l \in 1..Cardinality(S) /\ (l < k \/ l = k)
    BY <1>2
  <2>2. Nth(S, l) \in 1..Len(q) /\ (l < k => Nth(S, l) < Nth(S, k)) /\ (l = k => Nth(S, l) = Nth(S, k))
    BY <1>1, <1>2, <2>1
  <2>3. Nth(S, l) \in 1..n
    BY <1>1, <1>5, <2>1, <2>2
  <2> QED
    BY <1>3, <2>1, <2>3
<1> QED
  BY <1>3, <1>4, <1>5, <1>6 DEF w

----------------------------------------------------------------------------
(* The inputs, and where they are                                          *)

Running == {"mirroring", "opening", "prompting", "cancelling", "failing"}
Settled == {"settling", "unwinding"}
Holding == TurnPhases \cup {"locking"}
Open    == {"fresh", "starting", "started"} \cup LoopPhases

(* What a queue holds are turns, batches of results and stop markers.      *)
Inputs == [kind : {"turn"}, ids : (SUBSET Ids) \ {{}}]
            \cup [kind : {"batch"}, ids : (SUBSET Blocks) \ {{}}]
Things == Inputs \cup {End}

LEMMA ThingFacts ==
  /\ \A x \in Things : x.ids \subseteq Ids
  /\ \A x \in Inputs : x \in Things /\ x.ids # {} /\ x # End /\ x # NoItem
  /\ \A x \in Things : x.kind \notin {"turn", "end"} => x \in Inputs /\ x.kind = "batch" /\ x.ids \subseteq Blocks
  /\ \A x \in Things : x # End => x \in Inputs
  /\ \A i \in Ids : TurnOf(i) \in Inputs /\ TurnOf(i).ids = {i}
  /\ \A b \in Blocks : BatchOf(b) \in Inputs /\ BatchOf(b).ids = {b} /\ BatchOf(b).kind = "batch"
  /\ \A x \in Things, b \in Blocks : x.kind = "batch" =>
       LET y == [x EXCEPT !.ids = x.ids \cup {b}] IN
       y \in Inputs /\ y.kind = "batch" /\ y.ids = x.ids \cup {b}
  /\ End \in Things /\ End.ids = {} /\ NoItem.ids = {} /\ End.kind = "end"
BY DEF Things, Inputs, Ids, TurnOf, BatchOf, End, NoItem

LEMMA PhaseFacts ==
  /\ Running \cap Settled = {} /\ TurnPhases = Running \cup Settled
  /\ "locking" \notin TurnPhases /\ Holding \cap {"ready", "wait"} = {}
  /\ Running \cup {"locking"} \subseteq Holding /\ Settled \subseteq Holding
  /\ TurnPhases \cap Open = {} /\ {"ready", "wait", "locking"} \subseteq Open
  /\ {"none", "dead", "draining", "closing", "terminating", "suspending", "startFailed"}
       \cap (Holding \cup Open) = {}
  /\ {"fresh", "starting", "started", "ready", "wait"} \cap Holding = {}
BY DEF Running, Settled, TurnPhases, Holding, Open, LoopPhases

(* The batch that takes results is the last thing its worker will see.     *)
LastIsBatch(g) ==
  g = current /\ batch[g] =>
    /\ queue[g] # <<>> => queue[g][Len(queue[g])].kind = "batch"
    /\ queue[g] = <<>> => worker[g] = "locking" /\ item[g].kind = "batch"

(* What is so of each generation by itself: an item in the hands of the    *)
(* worker that waits for the lock or has it, nothing in a queue before the *)
(* launch or after the end, and an honest wait_idle.                       *)
Held(g) ==
  /\ queue[g] \in Seq(Things)
  /\ worker[g] \in Holding => item[g] \in Inputs
  /\ worker[g] \notin Holding => item[g] = NoItem
  /\ g > launched => queue[g] = <<>> /\ ~batch[g]
  /\ closed[g] => queue[g] = <<>>
  /\ LastIsBatch(g)
  /\ idle[g] => /\ worker[g] \notin TurnPhases
                /\ worker[g] \in Open => \A n \in 1..Len(queue[g]) : queue[g][n].ids = {}

(* The inputs that wait at a place of generation g: 0 is the hands of a    *)
(* worker that waits for the lock.                                         *)
At(g, n) == IF n = 0 THEN IF worker[g] = "locking" THEN item[g].ids ELSE {}
            ELSE IF n \in 1..Len(queue[g]) THEN queue[g][n].ids ELSE {}

(* An input is queued if and only if it waits at a place, and at one only. *)
Waits ==
  /\ \A g \in Gens, n \in Nat : \A i \in At(g, n) : i \in Ids /\ fate[i] = "queued"
  /\ \A g, h \in Gens, n, m \in Nat : \A i \in At(g, n) : i \in At(h, m) => g = h /\ n = m
  /\ \A i \in Ids : fate[i] = "queued" => \E g \in Gens, n \in Nat : i \in At(g, n)

(* The turn that a worker runs is of running inputs, and no other input is *)
(* running; the turn that is over has its outcome.                         *)
RunsAt(g) ==
  /\ worker[g] \in Running => \A i \in item[g].ids : fate[i] = "running"
  /\ worker[g] \in Settled => \A i \in item[g].ids : fate[i] \in Outcomes
Runs ==
  /\ \A g \in Gens : RunsAt(g)
  /\ \A i \in Ids : fate[i] = "running" => \E g \in Gens : worker[g] \in Running /\ i \in item[g].ids

(* The generation that _shutdown closes is not the registered one, and a   *)
(* closed one is at its end.                                               *)
Swept ==
  /\ daemon \in {"sweeping", "closing"} => target # 0 /\ target # current
  /\ \A g \in Gens : closed[g] => worker[g] \in {"unwinding", "draining", "closing", "dead"}

Accounts == (\A g \in Gens : Held(g)) /\ Waits /\ Runs
Base == GenInv /\ Attended /\ LockHeldByTurn /\ Swept /\ Accounts

(* A step of one generation leaves the others alone.                       *)
Only(g) == \A h \in Gens : h # g =>
  /\ queue'[h] = queue[h] /\ item'[h] = item[h] /\ worker'[h] = worker[h]
  /\ batch'[h] = batch[h] /\ closed'[h] = closed[h] /\ idle'[h] = idle[h]

(* Such a step keeps the account of all inputs, if what it does with those *)
(* of its generation is right: those that wait there are those that did,   *)
(* or are new; what no longer waits there has a fate; and it changes no    *)
(* fate of an input that is running elsewhere or had its outcome.          *)
LEMMA OneMoves ==
  ASSUME Base, NEW g \in Gens, Only(g), launched' >= launched, launched' \in Nat,
         current' \in {current, 0, g}, fate' \in [Ids -> Fates], Held(g)', RunsAt(g)',
         \A n \in Nat : \A i \in At(g, n)' :
            /\ i \in Ids /\ fate'[i] = "queued"
            /\ fate[i] = "new" \/ \E m \in Nat : i \in At(g, m),
         \A n, m \in Nat : \A i \in At(g, n)' : i \in At(g, m)' => n = m,
         \A i \in Ids : fate'[i] = "queued" =>
            \/ \E n \in Nat : i \in At(g, n)'
            \/ fate[i] = "queued" /\ \A n \in Nat : i \notin At(g, n),
         \A i \in Ids : fate[i] = "queued" /\ fate'[i] # "queued" => \E n \in Nat : i \in At(g, n),
         \A i \in Ids : fate'[i] # fate[i] =>
            \/ fate[i] \in {"new", "queued"}
            \/ fate[i] = "running" /\ worker[g] \in Running,
         \A i \in Ids : fate'[i] = "running" =>
            \/ worker'[g] \in Running /\ i \in item'[g].ids
            \/ fate[i] = "running" /\ ~(worker[g] \in Running /\ i \in item[g].ids)
  PROVE  Accounts'
<1> USE DEF Base, Accounts
<1>1. ASSUME NEW h \in Gens, h # g
      PROVE  /\ queue'[h] = queue[h] /\ item'[h] = item[h] /\ worker'[h] = worker[h]
             /\ batch'[h] = batch[h] /\ closed'[h] = closed[h] /\ idle'[h] = idle[h]
  BY <1>1 DEF Only
<1>2. ASSUME NEW h \in Gens PROVE Held(h)'
  <2>1. CASE h # g
    <3>1. h > launched' => h > launched
      BY DEF Gens, GenInv, TypeOK
    <3>2. h = current' => h = current
      BY <2>1, GensAre
    <3> QED
      BY <1>1, <2>1, <3>1, <3>2 DEF Held, LastIsBatch
  <2> QED
    BY <2>1
<1>3. ASSUME NEW h \in Gens, h # g, NEW n \in Nat PROVE At(h, n)' = At(h, n)
  BY <1>1, <1>3 DEF At
<1>4. Waits'
  <2> USE DEF Waits
  <2>1. ASSUME NEW h \in Gens, h # g, NEW n \in Nat, NEW i \in At(h, n)
        PROVE  i \in Ids /\ fate[i] = "queued" /\ fate'[i] = "queued"
               /\ \A m \in Nat : i \notin At(g, m)' 
    <3>1. i \in Ids /\ fate[i] = "queued"
      BY <2>1
    <3>2. \A m \in Nat : i \notin At(g, m)
      BY <2>1
    <3> QED
      BY <3>1, <3>2
  <2>2. ASSUME NEW h \in Gens, NEW n \in Nat, NEW i \in At(h, n)'
        PROVE  i \in Ids /\ fate'[i] = "queued"
    BY <1>3, <2>1
  <2>3. ASSUME NEW h \in Gens, NEW k \in Gens, NEW n \in Nat, NEW m \in Nat,
               NEW i \in At(h, n)', i \in At(k, m)'
        PROVE  h = k /\ n = m
    <3>1. CASE h # g /\ k # g
      BY <1>3, <2>3, <3>1
    <3>2. CASE h = g /\ k = g
      BY <2>3, <3>2
    <3>3. CASE (h # g /\ k = g) \/ (h = g /\ k # g)
      BY <1>3, <2>1, <2>3, <3>3
    <3> QED
      BY <3>1, <3>2, <3>3
  <2>4. ASSUME NEW i \in Ids, fate'[i] = "queued" PROVE \E h \in Gens, n \in Nat : i \in At(h, n)'
    <3>1. CASE \E n \in Nat : i \in At(g, n)'
      BY <3>1
    <3>2. CASE fate[i] = "queued" /\ \A n \in Nat : i \notin At(g, n)
      <4>1. PICK h \in Gens, n \in Nat : i \in At(h, n)
        BY <3>2
      <4> QED
        BY <1>3, <3>2, <4>1
    <3> QED
      BY <2>4, <3>1, <3>2
  <2> QED
    BY <2>2, <2>3, <2>4
<1>5. Runs'
  <2>1. ASSUME NEW h \in Gens, h # g PROVE RunsAt(h)'
    <3>1. worker[h] \in Running => worker[g] \notin Running
      BY <2>1, PhaseFacts DEF LockHeldByTurn
    <3>2. worker[h] \in Holding => item[h].ids \subseteq Ids
      BY ThingFacts DEF Held
    <3>3. CASE worker[h] \in Running
      BY <1>1, <2>1, <3>1, <3>2, <3>3, PhaseFacts DEF RunsAt, Runs
    <3>4. CASE worker[h] \in Settled
      <4>1. \A i \in item[h].ids : i \in Ids /\ fate[i] \in Outcomes
        BY <3>2, <3>4, PhaseFacts DEF RunsAt, Runs
      <4>2. \A i \in item[h].ids : fate'[i] = fate[i]
        BY <4>1 DEF Outcomes
      <4> QED
        BY <1>1, <2>1, <3>4, <4>1, <4>2, PhaseFacts DEF RunsAt
    <3> QED
      BY <1>1, <2>1, <3>3, <3>4 DEF RunsAt
  <2>2. ASSUME NEW i \in Ids, fate'[i] = "running"
        PROVE  \E h \in Gens : worker'[h] \in Running /\ i \in item'[h].ids
    <3>1. CASE worker'[g] \in Running /\ i \in item'[g].ids
      BY <3>1
    <3>2. CASE fate[i] = "running" /\ ~(worker[g] \in Running /\ i \in item[g].ids)
      <4>1. PICK h \in Gens : worker[h] \in Running /\ i \in item[h].ids
        BY <3>2 DEF Runs
      <4> QED
        BY <1>1, <3>2, <4>1
    <3> QED
      BY <2>2, <3>1, <3>2
  <2> QED
    BY <2>1, <2>2 DEF Runs
<1> QED
  BY <1>2, <1>4, <1>5

(* The worker moves on with what it holds, or with the outcome of its turn.*)
LEMMA PhaseMoves ==
  ASSUME Base, NEW g \in Gens, NEW p \in Phases, worker' = [worker EXCEPT ![g] = p],
         UNCHANGED <<queue, item, batch, closed, launched>>, current' \in {current, 0},
         p \in Holding <=> worker[g] \in Holding, p = "locking" <=> worker[g] = "locking",
         \A h \in Gens : h # g => idle'[h] = idle[h],
         idle'[g] => /\ p \notin TurnPhases
                     /\ p \in Open => \A n \in 1..Len(queue[g]) : queue[g][n].ids = {},
         \/ fate' = fate /\ (p \in Running <=> worker[g] \in Running)
         \/ /\ worker[g] \in Running /\ p \in Settled
            /\ \E o \in Outcomes : fate' = Fated(item[g].ids, o)
  PROVE  Accounts'
<1> USE DEF Base, Accounts
<1>1. worker'[g] = p /\ \A h \in Gens : h # g => worker'[h] = worker[h]
  BY DEF GenInv, TypeOK
<1>2. Only(g) /\ launched' \in Nat /\ launched' >= launched
  BY <1>1 DEF Only, GenInv, TypeOK
<1>3. Held(g)'
  BY <1>1, GensAre DEF Held, LastIsBatch
<1>4. \A n \in Nat : At(g, n)' = At(g, n)
  BY <1>1 DEF At
<1>5. \A n \in Nat : \A i \in At(g, n) : i \in Ids /\ fate[i] = "queued"
  BY DEF Waits
<1>6. fate \in [Ids -> Fates]
  BY DEF GenInv, TypeOK
<1>7. CASE fate' = fate /\ (p \in Running <=> worker[g] \in Running)
  <2>1. RunsAt(g)'
    <3>1. p \in Settled <=> worker[g] \in Settled
      BY <1>7, PhaseFacts DEF Holding
    <3> QED
      BY <1>1, <1>7, <3>1 DEF Runs, RunsAt
  <2>2. \A n, m \in Nat : \A i \in At(g, n) : i \in At(g, m) => n = m
    BY DEF Waits
  <2>3. \A i \in Ids : fate'[i] = "queued" =>
          (\E n \in Nat : i \in At(g, n)') \/ (fate[i] = "queued" /\ \A n \in Nat : i \notin At(g, n))
    BY <1>4, <1>7
  <2>4. \A n \in Nat : \A i \in At(g, n)' :
          /\ i \in Ids /\ fate'[i] = "queued"
          /\ fate[i] = "new" \/ \E m \in Nat : i \in At(g, m)
    BY <1>4, <1>5, <1>7
  <2>5. \A i \in Ids : fate'[i] = "running" =>
            \/ worker'[g] \in Running /\ i \in item'[g].ids
            \/ fate[i] = "running" /\ ~(worker[g] \in Running /\ i \in item[g].ids)
    BY <1>1, <1>7
  <2> QED
    BY <1>2, <1>3, <1>4, <1>6, <1>7, <2>1, <2>2, <2>3, <2>4, <2>5, OneMoves
<1>8. CASE /\ worker[g] \in Running /\ p \in Settled
           /\ \E o \in Outcomes : fate' = Fated(item[g].ids, o)
  <2>1. PICK o \in Outcomes : fate' = Fated(item[g].ids, o)
    BY <1>8
  <2>2. item[g].ids \subseteq Ids /\ \A i \in item[g].ids : fate[i] = "running"
    BY <1>8, ThingFacts, PhaseFacts DEF Held, Runs, RunsAt
  <2>3. /\ fate' \in [Ids -> Fates]
        /\ \A i \in Ids : fate'[i] = IF i \in item[g].ids THEN o ELSE fate[i]
        /\ o \notin {"new", "queued", "running"}
    BY <1>6, <2>1 DEF Fated, Fates, Outcomes
  <2>4. RunsAt(g)'
    BY <1>1, <1>8, <2>1, <2>2, <2>3, PhaseFacts DEF RunsAt
  <2>5. \A n, m \in Nat : \A i \in At(g, n) : i \in At(g, m) => n = m
    BY DEF Waits
  <2>6. \A n \in Nat : \A i \in At(g, n)' :
          /\ i \in Ids /\ fate'[i] = "queued"
          /\ fate[i] = "new" \/ \E m \in Nat : i \in At(g, m)
    BY <1>4, <1>5, <2>2, <2>3
  <2>7. \A i \in Ids : (fate'[i] = "queued" <=> fate[i] = "queued")
    BY <2>2, <2>3
  <2>8. \A i \in Ids : fate'[i] = "queued" =>
          (\E n \in Nat : i \in At(g, n)') \/ (fate[i] = "queued" /\ \A n \in Nat : i \notin At(g, n))
    BY <1>4, <2>7
  <2>9. \A i \in Ids : fate'[i] # fate[i] => fate[i] = "running" /\ worker[g] \in Running
    BY <1>8, <2>2, <2>3
  <2>10. \A i \in Ids : fate'[i] = "running" => fate[i] = "running" /\ i \notin item[g].ids
    BY <2>3
  <2> QED
    BY <1>2, <1>3, <1>4, <2>3, <2>4, <2>5, <2>6, <2>7, <2>8, <2>9, <2>10, OneMoves
<1> QED
  BY <1>7, <1>8

(* Nothing of any generation changes but which one is registered.          *)
LEMMA Still ==
  ASSUME Base, UNCHANGED <<queue, item, worker, batch, closed, idle, fate, launched>>,
         current' \in {current, 0}
  PROVE  Accounts'
<1>1. 1 \in Gens
  BY SessionAssumption DEF Gens
<1>2. /\ worker[1] \in Phases /\ worker' = [worker EXCEPT ![1] = worker[1]]
  BY <1>1 DEF Base, GenInv, TypeOK
<1>3. idle'[1] => /\ worker[1] \notin TurnPhases
                  /\ worker[1] \in Open => \A n \in 1..Len(queue[1]) : queue[1][n].ids = {}
  BY <1>1 DEF Base, Accounts, Held
<1> QED
  BY <1>1, <1>2, <1>3, PhaseMoves

(* The agent is asked to cancel: the turn goes on until it answers.        *)
LEMMA Asked ==
  ASSUME TypeOK, NEW g \in Gens, worker' = worker \/ AskAgent(g)
  PROVE  /\ \A h \in Gens : h # g => worker'[h] = worker[h]
         /\ worker'[g] \in Running <=> worker[g] \in Running
         /\ worker'[g] \in Settled <=> worker[g] \in Settled
         /\ worker'[g] \in Holding <=> worker[g] \in Holding
         /\ worker'[g] \in TurnPhases <=> worker[g] \in TurnPhases
         /\ worker'[g] \in Open <=> worker[g] \in Open
         /\ worker'[g] = "locking" <=> worker[g] = "locking"
<1>1. CASE worker' = worker
  BY <1>1
<1>2. CASE worker[g] # "prompting" /\ AskAgent(g)
  BY <1>2 DEF AskAgent
<1>3. CASE worker[g] = "prompting" /\ AskAgent(g)
  BY <1>3 DEF AskAgent, TypeOK, Running, Settled, Holding, TurnPhases, Open, LoopPhases
<1> QED
  BY <1>1, <1>2, <1>3

(* An item put at the end of a queue is at a place of its own.             *)
LEMMA AppendPlaces ==
  ASSUME NEW q \in Seq(Things), NEW x \in Things
  PROVE  LET r == Append(q, x) IN
         /\ r \in Seq(Things) /\ r # <<>> /\ Len(r) = Len(q) + 1 /\ Len(q) \in Nat
         /\ r[Len(r)] = x /\ \A n \in 1..Len(q) : r[n] = q[n]
         /\ 1..Len(r) = (1..Len(q)) \cup {Len(q) + 1}
BY AppendProperties

(* A new input comes to a place of its own or to one that is taken.        *)
LEMMA NewInput ==
  ASSUME Base, NEW g \in Gens, NEW k \in Nat, NEW t \in Ids, fate[t] = "new",
         Only(g), UNCHANGED <<current, launched>>, fate' = Fated({t}, "queued"), Held(g)',
         \A n \in Nat : n # k => At(g, n)' = At(g, n), At(g, k)' = At(g, k) \cup {t},
         worker'[g] \in Running <=> worker[g] \in Running,
         worker'[g] \in Settled <=> worker[g] \in Settled,
         item'[g] = item[g] \/ worker[g] \notin TurnPhases
  PROVE  Accounts'
<1> USE DEF Base, Accounts
<1>1. launched' \in Nat /\ launched' >= launched
  BY DEF GenInv, TypeOK
<1>2. /\ fate' \in [Ids -> Fates]
      /\ \A i \in Ids : fate'[i] = IF i = t THEN "queued" ELSE fate[i]
  BY DEF Fated, GenInv, TypeOK, Fates
<1>3. \A n \in Nat : \A i \in At(g, n) : i \in Ids /\ fate[i] = "queued"
  BY DEF Waits
<1>4. RunsAt(g)'
  <2>1. worker[g] \in Holding => item[g].ids \subseteq Ids
    BY ThingFacts DEF Held
  <2>2. worker[g] \in Running => \A i \in item[g].ids : i \in Ids /\ fate'[i] = "running"
    BY <1>2, <2>1, PhaseFacts DEF Runs, RunsAt
  <2>3. worker[g] \in Settled => \A i \in item[g].ids : i \in Ids /\ fate'[i] \in Outcomes
    <3>1. "new" \notin Outcomes
      BY DEF Outcomes
    <3> QED
      BY <1>2, <2>1, <3>1, PhaseFacts, ZenonT(30) DEF Runs, RunsAt
  <2>4. worker[g] \in Running \cup Settled => item'[g] = item[g]
    BY PhaseFacts
  <2> QED
    BY <2>2, <2>3, <2>4 DEF RunsAt
<1>5. \A n \in Nat : \A i \in At(g, n)' :
          /\ i \in Ids /\ fate'[i] = "queued"
          /\ fate[i] = "new" \/ \E m \in Nat : i \in At(g, m)
  BY <1>2, <1>3
<1>6. \A n, m \in Nat : \A i \in At(g, n)' : i \in At(g, m)' => n = m
  <2>1. \A n, m \in Nat : \A i \in At(g, n) : i \in At(g, m) => n = m
    BY DEF Waits
  <2>2. \A n \in Nat : t \notin At(g, n)
    BY <1>3
  <2> QED
    BY <2>1, <2>2
<1>7. \A i \in Ids : fate'[i] = "queued" =>
            \/ \E n \in Nat : i \in At(g, n)'
            \/ fate[i] = "queued" /\ \A n \in Nat : i \notin At(g, n)
  <2>1. \A n \in Nat : At(g, n) \subseteq At(g, n)'
    OBVIOUS
  <2> QED
    BY <1>2, <2>1
<1>8. \A i \in Ids : fate'[i] = "running" =>
            \/ worker'[g] \in Running /\ i \in item'[g].ids
            \/ fate[i] = "running" /\ ~(worker[g] \in Running /\ i \in item[g].ids)
  BY <1>2, PhaseFacts
<1>9. /\ \A i \in Ids : fate[i] = "queued" /\ fate'[i] # "queued" => \E n \in Nat : i \in At(g, n)
      /\ \A i \in Ids : fate'[i] # fate[i] =>
            fate[i] \in {"new", "queued"} \/ (fate[i] = "running" /\ worker[g] \in Running)
  BY <1>2
<1> QED
  BY <1>1, <1>2, <1>4, <1>5, <1>6, <1>7, <1>8, <1>9, OneMoves

(* It is put at the end of a queue, by itself.                             *)
LEMMA AppendMoves ==
  ASSUME Base, NEW g \in Gens, NEW t \in Ids, fate[t] = "new", NEW x \in Inputs, x.ids = {t},
         queue' = [queue EXCEPT ![g] = Append(@, x)], idle' = [idle EXCEPT ![g] = FALSE],
         \A h \in Gens : h # g => batch'[h] = batch[h], batch'[g] => x.kind = "batch",
         fate' = Fated({t}, "queued"),
         ~closed[g], g <= launched, worker' = worker \/ AskAgent(g),
         UNCHANGED <<item, closed, current, launched>>
  PROVE  Accounts'
<1> USE DEF Base, Accounts
<1> DEFINE q == queue[g]
           r == Append(q, x)
<1>1. q \in Seq(Things) /\ x \in Things
  BY ThingFacts DEF Held
<1>2. /\ r \in Seq(Things) /\ r # <<>> /\ Len(r) = Len(q) + 1 /\ Len(q) \in Nat
      /\ r[Len(r)] = x /\ \A n \in 1..Len(q) : r[n] = q[n]
      /\ 1..Len(r) = (1..Len(q)) \cup {Len(q) + 1}
  BY <1>1, AppendPlaces
<1>3. queue'[g] = r /\ ~idle'[g]
  BY DEF GenInv, TypeOK
<1> HIDE DEF r
<1>4. Only(g)
  BY Asked DEF Only, GenInv, TypeOK
<1>5. Held(g)'
  <2>1. ~(g > launched)
    BY GensAre DEF GenInv, TypeOK, Gens
  <2> QED
    BY <1>2, <1>3, <2>1, Asked DEF Held, LastIsBatch, GenInv
<1>6. PICK k \in Nat : k = Len(q) + 1
  BY <1>2
<1>7. /\ \A n \in Nat : n # k => At(g, n)' = At(g, n)
      /\ At(g, k)' = At(g, k) \cup {t}
  <2>1. At(g, k)' = {t} /\ At(g, k) = {}
    BY <1>1, <1>2, <1>3, <1>6 DEF At
  <2>2. ASSUME NEW n \in Nat, n # k PROVE At(g, n)' = At(g, n)
    <3>1. n \in 1..Len(r) <=> n \in 1..Len(q)
      BY <1>2, <1>6, <2>2
    <3>2. CASE n = 0
      BY <3>2, Asked DEF At, GenInv
    <3>3. CASE n # 0
      BY <1>2, <1>3, <3>1, <3>3 DEF At
    <3> QED
      BY <3>2, <3>3
  <2> QED
    BY <2>1, <2>2
<1> QED
  BY <1>4, <1>5, <1>7, Asked, NewInput DEF GenInv

LEMMA EnqueueMoves ==
  ASSUME Base, NEW g \in Gens, NEW t \in Ids, fate[t] = "new", Enqueue(g, t),
         ~closed[g], g <= launched, worker' = worker \/ AskAgent(g),
         UNCHANGED <<item, closed, current, launched>>
  PROVE  Accounts'
<1>1. ~batch'[g] /\ \A h \in Gens : h # g => batch'[h] = batch[h]
  BY DEF Enqueue, Base, GenInv, TypeOK
<1>2. TurnOf(t) \in Inputs /\ TurnOf(t).ids = {t}
  BY ThingFacts
<1> QED
  BY <1>1, <1>2, AppendMoves DEF Enqueue

(* A result is put at the end of the queue, or merged into the batch that  *)
(* is last there or in the hands of a worker that waits for the lock.      *)
LEMMA AddBlockMoves ==
  ASSUME Base, NEW g \in Gens, g = current, NEW b \in Blocks, fate[b] = "new", AddBlock(g, b),
         ~closed[g], g <= launched, UNCHANGED <<worker, closed, current, launched>>
  PROVE  Accounts'
<1> USE DEF Base, Accounts
<1> DEFINE q == queue[g]
<1>1. b \in Ids /\ fate' = Fated({b}, "queued") /\ batch' = [batch EXCEPT ![g] = TRUE]
  BY DEF AddBlock, Ids
<1>2. ~(g > launched)
  BY GensAre DEF GenInv, TypeOK, Gens
<1>3. CASE ~batch[g]
  <2>1. \A h \in Gens : h # g => batch'[h] = batch[h]
    BY <1>1 DEF GenInv, TypeOK
  <2>2. /\ queue' = [queue EXCEPT ![g] = Append(@, BatchOf(b))]
        /\ idle' = [idle EXCEPT ![g] = FALSE] /\ UNCHANGED item
    BY <1>3 DEF AddBlock
  <2>3. BatchOf(b) \in Inputs /\ BatchOf(b).ids = {b} /\ BatchOf(b).kind = "batch"
    BY ThingFacts
  <2> QED
    BY <1>1, <2>1, <2>2, <2>3, AppendMoves
<1>4. CASE batch[g] /\ q # <<>>
  <2> DEFINE y == [q[Len(q)] EXCEPT !.ids = q[Len(q)].ids \cup {b}]
             r == [q EXCEPT ![Len(q)] = y]
  <2>1. q \in Seq(Things) /\ Len(q) \in Nat /\ Len(q) >= 1 /\ q[Len(q)] \in Things
        /\ q[Len(q)].kind = "batch"
    BY <1>4 DEF Held, LastIsBatch
  <2>2. /\ y \in Inputs /\ y \in Things /\ y.kind = "batch" /\ y.ids = q[Len(q)].ids \cup {b}
        /\ q[Len(q)].ids # {}
    BY <2>1, ThingFacts DEF End
  <2> HIDE DEF y
  <2>3. /\ r \in Seq(Things) /\ Len(r) = Len(q) /\ r # <<>> /\ r[Len(q)] = y
        /\ \A n \in 1..Len(q) : n # Len(q) => r[n] = q[n]
    BY <2>1, <2>2
  <2> HIDE DEF r
  <2>4. queue' = [queue EXCEPT ![g] = r] /\ UNCHANGED <<item, idle>>
    BY <1>4 DEF AddBlock, y, r
  <2>5. queue'[g] = r /\ Only(g)
    BY <1>1, <2>4 DEF Only, GenInv, TypeOK
  <2>6. Held(g)'
    <3>1. idle[g] => worker[g] \notin Open /\ worker[g] \notin TurnPhases
      <4>1. Len(q) \in 1..Len(q)
        BY <2>1
      <4> QED
        BY <2>2, <4>1 DEF Held
    <3> QED
      BY <1>2, <2>2, <2>3, <2>4, <2>5, <3>1 DEF Held, LastIsBatch
  <2>7. PICK k \in Nat : k = Len(q)
    BY <2>1
  <2>8. /\ \A n \in Nat : n # k => At(g, n)' = At(g, n)
        /\ At(g, k)' = At(g, k) \cup {b}
    <3>1. k # 0 /\ k \in 1..Len(q)
      BY <2>1, <2>7
    <3> QED
      BY <2>2, <2>3, <2>4, <2>5, <2>7, <3>1 DEF At
  <2> QED
    BY <1>1, <2>4, <2>5, <2>6, <2>8, NewInput
<1>5. CASE batch[g] /\ q = <<>>
  <2> DEFINE y == [item[g] EXCEPT !.ids = item[g].ids \cup {b}]
  <2>1. worker[g] = "locking" /\ item[g] \in Inputs /\ item[g].kind = "batch"
    BY <1>5, PhaseFacts DEF Held, LastIsBatch
  <2>2. y \in Inputs /\ y.kind = "batch" /\ y.ids = item[g].ids \cup {b}
    BY <2>1, ThingFacts
  <2> HIDE DEF y
  <2>3. item' = [item EXCEPT ![g] = y] /\ UNCHANGED <<queue, idle>>
    BY <1>5 DEF AddBlock, y
  <2>4. item'[g] = y /\ Only(g)
    BY <1>1, <2>3 DEF Only, GenInv, TypeOK
  <2>5. Held(g)'
    BY <1>2, <2>1, <2>2, <2>3, <2>4, <1>5, PhaseFacts DEF Held, LastIsBatch
  <2>6. /\ \A n \in Nat : n # 0 => At(g, n)' = At(g, n)
        /\ At(g, 0)' = At(g, 0) \cup {b}
    BY <2>1, <2>2, <2>3, <2>4 DEF At
  <2> QED
    BY <1>1, <2>1, <2>3, <2>4, <2>5, <2>6, NewInput, PhaseFacts
<1> QED
  BY <1>3, <1>4, <1>5

(* A generation is launched, with a new input as its first turn or none.   *)
LEMMA LaunchMoves ==
  ASSUME Base, NEW first,
         first = <<>> \/ \E t \in Ids : first = <<TurnOf(t)>> /\ fate[t] = "new",
         Launch(first)
  PROVE  Accounts'
<1> USE DEF Base, Accounts
<1>0. PICK g \in Gens : g = launched + 1
  BY DEF Launch
<1>1. /\ launched' = g /\ current' = g
      /\ worker' = [worker EXCEPT ![g] = "fresh"] /\ queue' = [queue EXCEPT ![g] = first]
      /\ idle' = [idle EXCEPT ![g] = (first = <<>>)] /\ fate' = Fated(IdsIn(first), "queued")
      /\ UNCHANGED <<batch, item, closed>>
  BY <1>0 DEF Launch
<1>2. g > launched /\ launched \in Nat /\ g \in Nat
  BY <1>0 DEF GenInv, TypeOK
<1>3. worker[g] = "none" /\ queue[g] = <<>> /\ ~batch[g] /\ item[g] = NoItem
  BY <1>1, <1>2, PhaseFacts DEF GenInv, Generations, Held
<1>4. ~closed[g]
  <2>1. target # g
    BY <1>1, <1>2 DEF GenInv, Generations
  <2> QED
    BY <1>1, <1>3, <2>1 DEF Attended
<1>5. worker'[g] = "fresh" /\ queue'[g] = first /\ idle'[g] = (first = <<>>) /\ Only(g)
  BY <1>1 DEF GenInv, TypeOK, Only
<1>6. /\ first \in Seq(Things) /\ IdsIn(first) \subseteq Ids
      /\ \A i \in IdsIn(first) : fate[i] = "new"
      /\ \A n \in 1..Len(first) : n = 1 /\ first[1].ids = IdsIn(first)
      /\ IdsIn(first) # {} => 1 \in 1..Len(first)
  <2>1. CASE first = <<>>
    BY <2>1 DEF IdsIn
  <2>2. CASE first # <<>>
    <3>1. PICK t \in Ids : first = <<TurnOf(t)>> /\ fate[t] = "new"
      BY <2>2
    <3>2. TurnOf(t) \in Things /\ TurnOf(t).ids = {t}
      BY ThingFacts
    <3>3. Len(first) = 1 /\ first[1] = TurnOf(t) /\ first \in Seq(Things)
      BY <3>1, <3>2
    <3>4. IdsIn(first) = {t}
      BY <3>2, <3>3 DEF IdsIn
    <3> QED
      BY <3>1, <3>2, <3>3, <3>4
  <2> QED
    BY <2>1, <2>2
<1>7. Held(g)'
  <2>1. ~(g > launched') /\ ~closed'[g] /\ ~batch'[g] /\ item'[g] = NoItem
    BY <1>1, <1>2, <1>3, <1>4
  <2>2. idle'[g] => \A n \in 1..Len(first) : first[n].ids = {}
    <3>1. CASE first = <<>>
      <4>1. 1..Len(first) = {}
        BY <3>1
      <4> QED
        BY <4>1
    <3>2. CASE first # <<>>
      BY <1>5, <3>2
    <3> QED
      BY <3>1, <3>2
  <2> QED
    BY <1>5, <1>6, <2>1, <2>2, PhaseFacts DEF Held, LastIsBatch
<1>8. /\ \A n \in Nat : At(g, n) = {}
      /\ \A n \in Nat : At(g, n)' = IF n = 1 THEN IdsIn(first) ELSE {}
  <2>1. \A n \in Nat : At(g, n) = {}
    BY <1>3 DEF At
  <2>2. At(g, 0)' = {}
    BY <1>5 DEF At
  <2>3. ASSUME NEW n \in Nat, n # 0 PROVE At(g, n)' = IF n = 1 THEN IdsIn(first) ELSE {}
    <3>1. At(g, n)' = IF n \in 1..Len(first) THEN first[n].ids ELSE {}
      BY <1>5, <2>3 DEF At
    <3> QED
      BY <1>6, <3>1
  <2> QED
    BY <2>1, <2>2, <2>3
<1>9. /\ fate' \in [Ids -> Fates]
      /\ \A i \in Ids : fate'[i] = IF i \in IdsIn(first) THEN "queued" ELSE fate[i]
  BY <1>1 DEF Fated, GenInv, TypeOK, Fates
<1>10. RunsAt(g)'
  BY <1>5, PhaseFacts, Values DEF RunsAt, Running, Settled
<1>11. worker[g] \notin Running
  BY <1>3 DEF Running
<1> QED
  BY <1>1, <1>2, <1>5, <1>6, <1>7, <1>8, <1>9, <1>10, <1>11, OneMoves

(* Without a registered generation the input resumes the Session, or makes *)
(* its record a failed one.                                                *)
LEMMA ResumeMoves ==
  ASSUME Base, NEW first,
         first = <<>> \/ \E t \in Ids : first = <<TurnOf(t)>> /\ fate[t] = "new",
         Resume(first)
  PROVE  Accounts'
BY LaunchMoves, Still DEF Resume, registry, runtime

(* A stop: the batches go, and what else waits stays, before the marker.   *)
LEMMA StopMoves ==
  ASSUME Base, NEW g \in Gens, NEW s, RequestTermination(g, s), ~closed[g], g <= launched,
         worker' = worker \/ AskAgent(g), UNCHANGED <<item, closed, idle, current, launched>>
  PROVE  /\ Accounts'
         /\ \E S \in SUBSET Blocks : fate' = Fated(S, "lost") /\ \A i \in S : fate[i] = "queued"
<1> USE DEF Base, Accounts
<1> DEFINE q == queue[g]
           w == WithoutBatches(q)
           r == Append(w, End)
           dropped == UNION {q[n].ids : n \in (1..Len(q)) \ Staying(q)}
<1>1. /\ queue' = [queue EXCEPT ![g] = r] /\ batch' = [batch EXCEPT ![g] = FALSE]
      /\ fate' = Fated(dropped, "lost")
  BY DEF RequestTermination
<1>2. q \in Seq(Things) /\ Len(q) \in Nat
  BY DEF Held
<1>3. /\ w \in Seq(Things)
      /\ \A k \in 1..Len(w) : \E n \in 1..Len(q) : w[k] = q[n] /\ IsTurnOrEnd(q[n])
      /\ \A k, l \in 1..Len(w) : k # l =>
           \E n, m \in 1..Len(q) : w[k] = q[n] /\ w[l] = q[m] /\ n # m
      /\ \A n \in 1..Len(q) : IsTurnOrEnd(q[n]) => \E k \in 1..Len(w) : w[k] = q[n]
  BY <1>2, WithoutBatchesIs
<1> HIDE DEF w
<1>4. /\ r \in Seq(Things) /\ r # <<>> /\ Len(r) = Len(w) + 1 /\ Len(w) \in Nat
      /\ r[Len(r)] = End /\ \A n \in 1..Len(w) : r[n] = w[n]
      /\ 1..Len(r) = (1..Len(w)) \cup {Len(w) + 1}
  BY <1>3, ThingFacts, AppendPlaces
<1> HIDE DEF r
<1>5. \A i : i \in dropped <=> \E n \in 1..Len(q) : ~IsTurnOrEnd(q[n]) /\ i \in q[n].ids
  BY DEF Staying
<1> HIDE DEF dropped
<1>6. /\ \A n \in 1..Len(q) : n \in Nat /\ At(g, n) = q[n].ids
      /\ \A n \in Nat : n # 0 /\ n \notin 1..Len(q) => At(g, n) = {}
  BY <1>2 DEF At
<1>7. \A n \in Nat : \A i \in At(g, n) : i \in Ids /\ fate[i] = "queued"
  BY DEF Waits
<1>8. \A n, m \in Nat : \A i \in At(g, n) : i \in At(g, m) => n = m
  BY DEF Waits
<1>9. /\ dropped \subseteq Ids /\ \A i \in dropped : fate[i] = "queued"
      /\ dropped \subseteq Blocks
  <2>1. \A n \in 1..Len(q) : q[n] \in Things
    BY <1>2
  <2>2. \A n \in 1..Len(q) : ~IsTurnOrEnd(q[n]) => q[n].ids \subseteq Blocks
    BY <2>1 DEF IsTurnOrEnd, Things, Inputs, End
  <2> QED
    BY <1>5, <1>6, <1>7, <2>2
<1>10. /\ fate' \in [Ids -> Fates]
       /\ \A i \in Ids : fate'[i] = IF i \in dropped THEN "lost" ELSE fate[i]
  BY <1>1 DEF Fated, GenInv, TypeOK, Fates, Outcomes
<1>11. queue'[g] = r /\ ~batch'[g] /\ idle'[g] = idle[g] /\ item'[g] = item[g]
  BY <1>1 DEF GenInv, TypeOK
<1>12. Only(g) /\ launched' \in Nat /\ launched' >= launched
  BY <1>1, Asked DEF Only, GenInv, TypeOK
<1>13. Held(g)'
  <2>1. ~(g > launched)
    BY GensAre DEF GenInv, TypeOK, Gens
  <2>2. ASSUME \A n \in 1..Len(q) : q[n].ids = {}, NEW n \in 1..Len(r) PROVE r[n].ids = {}
    <3>1. CASE n \in 1..Len(w)
      <4>1. PICK m \in 1..Len(q) : w[n] = q[m]
        BY <1>3, <3>1
      <4>2. r[n] = w[n]
        BY <1>4, <3>1
      <4> QED
        BY <2>2, <4>1, <4>2
    <3>2. CASE n \notin 1..Len(w)
      BY <1>4, <3>2, ThingFacts
    <3> QED
      BY <3>1, <3>2
  <2> QED
    BY <1>4, <1>11, <2>1, <2>2, Asked DEF Held, LastIsBatch, GenInv
<1>14. /\ At(g, 0)' = At(g, 0)
       /\ \A n \in 1..Len(w) : At(g, n)' = w[n].ids
       /\ \A n \in Nat : n # 0 /\ n \notin 1..Len(w) => At(g, n)' = {}
  <2>1. At(g, 0)' = At(g, 0)
    BY <1>11, Asked DEF At, GenInv
  <2>2. ASSUME NEW n \in 1..Len(w) PROVE At(g, n)' = w[n].ids
    BY <1>4, <1>11 DEF At
  <2>3. ASSUME NEW n \in Nat, n # 0, n \notin 1..Len(w) PROVE At(g, n)' = {}
    <3>1. n \in 1..Len(r) => r[n] = End
      BY <1>4, <2>3
    <3> QED
      BY <1>11, <2>3, <3>1, ThingFacts DEF At
  <2> QED
    BY <2>1, <2>2, <2>3
<1>15. ASSUME NEW n \in Nat, NEW i \in At(g, n)'
       PROVE  /\ \E m \in Nat : i \in At(g, m) /\ (n = 0 <=> m = 0)
              /\ i \notin dropped
  <2>1. CASE n = 0
    <3>1. i \in At(g, 0)
      BY <1>14, <1>15, <2>1
    <3>2. i \notin dropped
      BY <1>5, <1>6, <1>8, <3>1
    <3> QED
      BY <2>1, <3>1, <3>2
  <2>2. CASE n # 0
    <3>1. n \in 1..Len(w) /\ i \in w[n].ids
      BY <1>14, <1>15, <2>2
    <3>2. PICK m \in 1..Len(q) : w[n] = q[m] /\ IsTurnOrEnd(q[m])
      BY <1>3, <3>1
    <3>3. i \in At(g, m) /\ m # 0
      BY <1>6, <3>1, <3>2
    <3>4. i \notin dropped
      BY <1>5, <1>6, <1>8, <3>2, <3>3
    <3> QED
      BY <1>6, <2>2, <3>3, <3>4
  <2> QED
    BY <2>1, <2>2
<1>16. \A n \in Nat : \A i \in At(g, n)' :
          /\ i \in Ids /\ fate'[i] = "queued"
          /\ fate[i] = "new" \/ \E m \in Nat : i \in At(g, m)
  BY <1>7, <1>10, <1>15
<1>17. ASSUME NEW n \in Nat, NEW m \in Nat, NEW i \in At(g, n)', i \in At(g, m)' PROVE n = m
  <2>1. CASE n = 0 \/ m = 0
    BY <1>8, <1>15, <1>17, <2>1
  <2>2. CASE n # 0 /\ m # 0 /\ n # m
    <3>1. n \in 1..Len(w) /\ m \in 1..Len(w) /\ i \in w[n].ids /\ i \in w[m].ids
      BY <1>14, <1>17, <2>2
    <3>2. PICK a \in 1..Len(q), b \in 1..Len(q) : w[n] = q[a] /\ w[m] = q[b] /\ a # b
      BY <1>3, <2>2, <3>1
    <3> QED
      BY <1>6, <1>8, <3>1, <3>2
  <2> QED
    BY <2>1, <2>2
<1>18. \A i \in Ids : fate'[i] = "queued" =>
            \/ \E n \in Nat : i \in At(g, n)'
            \/ fate[i] = "queued" /\ \A n \in Nat : i \notin At(g, n)
  <2>1. ASSUME NEW i \in Ids, fate'[i] = "queued", NEW n \in Nat, i \in At(g, n)
        PROVE  \E m \in Nat : i \in At(g, m)'
    <3>1. CASE n = 0
      BY <1>14, <2>1, <3>1
    <3>2. CASE n # 0
      <4>1. n \in 1..Len(q) /\ i \in q[n].ids /\ i \notin dropped
        BY <1>6, <1>10, <2>1, <3>2
      <4>2. PICK k \in 1..Len(w) : w[k] = q[n]
        BY <1>3, <1>5, <4>1
      <4>3. k \in Nat /\ i \in At(g, k)'
        BY <1>4, <1>14, <4>1, <4>2
      <4> QED
        BY <4>3
    <3> QED
      BY <3>1, <3>2
  <2> QED
    BY <1>10, <2>1
<1>19. /\ \A i \in Ids : fate[i] = "queued" /\ fate'[i] # "queued" => \E n \in Nat : i \in At(g, n)
       /\ \A i \in Ids : fate'[i] # fate[i] => fate[i] \in {"new", "queued"}
  BY <1>5, <1>6, <1>9, <1>10
<1>20. RunsAt(g)' /\ \A i \in Ids : fate'[i] = "running" =>
            \/ worker'[g] \in Running /\ i \in item'[g].ids
            \/ fate[i] = "running" /\ ~(worker[g] \in Running /\ i \in item[g].ids)
  <2>1. worker[g] \in Holding => item[g].ids \subseteq Ids
    BY ThingFacts DEF Held
  <2>2. worker[g] \in Running => \A i \in item[g].ids : i \in Ids /\ fate'[i] = "running"
    BY <1>9, <1>10, <2>1, PhaseFacts DEF Runs, RunsAt
  <2>3. worker[g] \in Settled => \A i \in item[g].ids : i \in Ids /\ fate'[i] \in Outcomes
    <3>1. "queued" \notin Outcomes
      BY DEF Outcomes
    <3> QED
      BY <1>9, <1>10, <2>1, <3>1, PhaseFacts DEF Runs, RunsAt
  <2> QED
    BY <1>10, <1>11, <2>2, <2>3, Asked DEF RunsAt, GenInv
<1>21. Accounts'
  BY <1>10, <1>12, <1>13, <1>16, <1>17, <1>18, <1>19, <1>20, OneMoves
<1> QED
  BY <1>1, <1>9, <1>21

(* An item is taken from the head of a queue.                              *)
LEMMA Taken ==
  ASSUME Base, NEW g \in Gens, queue[g] # <<>>, worker[g] \in {"ready", "wait"},
         queue' = [queue EXCEPT ![g] = Tail(@)]
  PROVE  LET i == Head(queue[g])
             r == Tail(queue[g]) IN
         /\ queue'[g] = r /\ i \in Things /\ r \in Seq(Things)
         /\ r # <<>> => r[Len(r)] = queue[g][Len(queue[g])]
         /\ r = <<>> => i = queue[g][Len(queue[g])]
         /\ \A n \in 1..Len(r) : n + 1 \in 1..Len(queue[g]) /\ r[n] = queue[g][n + 1]
         /\ \A n \in Nat : n # 0 => At(g, n)' = At(g, n + 1)
         /\ At(g, 0) = {} /\ At(g, 1) = i.ids /\ i.ids \subseteq Ids
         /\ \A h \in Gens : h # g => queue'[h] = queue[h]
         /\ item[g] = NoItem /\ worker[g] \notin TurnPhases /\ worker[g] \in Open
<1> DEFINE q == queue[g]
           i == Head(q)
           r == Tail(q)
<1>1. q \in Seq(Things) /\ Held(g)
  BY DEF Base, Accounts, Held
<1>2. /\ i \in Things /\ r \in Seq(Things) /\ Len(r) = Len(q) - 1 /\ i = q[1]
      /\ Len(q) \in Nat /\ Len(q) >= 1 /\ \A n \in 1..Len(r) : r[n] = q[n + 1]
  BY <1>1, HeadTailProperties
<1>3. queue'[g] = r /\ \A h \in Gens : h # g => queue'[h] = queue[h]
  BY DEF Base, GenInv, TypeOK
<1> HIDE DEF r, i
<1>4. /\ r # <<>> => Len(r) \in 1..Len(r) /\ r[Len(r)] = q[Len(q)]
      /\ r = <<>> => i = q[Len(q)]
  BY <1>2
<1>5. ASSUME NEW n \in Nat, n # 0 PROVE At(g, n)' = At(g, n + 1)
  <2>1. n \in 1..Len(r) <=> n + 1 \in 1..Len(q)
    BY <1>2, <1>5
  <2>2. n + 1 # 0 /\ n + 1 \in Nat
    BY <1>5
  <2> QED
    BY <1>2, <1>3, <1>5, <2>1, <2>2 DEF At
<1>6. At(g, 0) = {} /\ At(g, 1) = i.ids /\ i.ids \subseteq Ids
  <2>1. 1 \in 1..Len(q) /\ worker[g] # "locking"
    BY <1>2
  <2> QED
    BY <1>2, <2>1, ThingFacts DEF At
<1>7. item[g] = NoItem /\ worker[g] \notin TurnPhases /\ worker[g] \in Open
  BY <1>1, PhaseFacts DEF Held
<1>8. \A n \in 1..Len(r) : n + 1 \in 1..Len(q)
  BY <1>2
<1> QED
  BY <1>2, <1>3, <1>4, <1>5, <1>6, <1>7, <1>8 DEF r, i

(* A marker ends the loop of the worker, or a stale worker drops what it   *)
(* took.                                                                   *)
LEMMA DropMoves ==
  ASSUME Base, NEW g \in Gens, queue[g] # <<>>, worker[g] \in {"ready", "wait"},
         queue' = [queue EXCEPT ![g] = Tail(@)],
         NEW p \in Phases \ (Holding \cup Open), worker' = [worker EXCEPT ![g] = p],
         current' \in {current, 0}, current' = g => Head(queue[g]).kind # "batch",
         fate' = Fated(Head(queue[g]).ids, "lost"),
         \A h \in Gens : h # g => idle'[h] = idle[h],
         UNCHANGED <<batch, item, closed, launched>>
  PROVE  Accounts'
<1> USE DEF Base, Accounts
<1> DEFINE x == Head(queue[g])
           r == Tail(queue[g])
<1>1. /\ queue'[g] = r /\ x \in Things /\ r \in Seq(Things)
      /\ r # <<>> => r[Len(r)] = queue[g][Len(queue[g])]
      /\ r = <<>> => x = queue[g][Len(queue[g])]
      /\ \A n \in Nat : n # 0 => At(g, n)' = At(g, n + 1)
      /\ At(g, 0) = {} /\ At(g, 1) = x.ids /\ x.ids \subseteq Ids
      /\ \A h \in Gens : h # g => queue'[h] = queue[h]
      /\ item[g] = NoItem
  BY Taken
<1>2. worker'[g] = p /\ p \notin Holding /\ p \notin Open /\ p \notin TurnPhases /\ Only(g)
  BY <1>1 DEF Only, GenInv, TypeOK, Holding
<1>3. launched' \in Nat /\ launched' >= launched
  BY DEF GenInv, TypeOK
<1>4. Held(g)'
  <2>1. g > launched => FALSE
    BY DEF Held
  <2>2. closed[g] => FALSE
    BY DEF Held
  <2>3. current' = g /\ batch[g] => r # <<>> /\ r[Len(r)].kind = "batch"
    <3>1. current' = g => current = g
      BY GensAre
    <3> QED
      BY <1>1, <3>1 DEF Held, LastIsBatch
  <2> HIDE DEF r, x
  <2> QED
    BY <1>1, <1>2, <2>1, <2>2, <2>3 DEF Held, LastIsBatch
<1> HIDE DEF r, x
<1>5. At(g, 0)' = {}
  BY <1>2, PhaseFacts DEF At
<1>6. \A n \in Nat : \A i \in At(g, n) : i \in Ids /\ fate[i] = "queued"
  BY DEF Waits
<1>7. \A n, m \in Nat : \A i \in At(g, n) : i \in At(g, m) => n = m
  BY DEF Waits
<1>8. /\ fate' \in [Ids -> Fates]
      /\ \A i \in Ids : fate'[i] = IF i \in At(g, 1) THEN "lost" ELSE fate[i]
  BY <1>1 DEF Fated, GenInv, TypeOK, Fates, Outcomes, x
<1>9. ASSUME NEW n \in Nat, NEW i \in At(g, n)' PROVE n # 0 /\ n + 1 \in Nat /\ i \in At(g, n + 1) /\ i \notin At(g, 1)
  <2>1. n # 0 /\ i \in At(g, n + 1)
    BY <1>1, <1>5, <1>9
  <2>2. n + 1 # 1 /\ n + 1 \in Nat
    BY <2>1
  <2> QED
    BY <1>7, <2>1, <2>2
<1>10. \A n \in Nat : \A i \in At(g, n)' :
          /\ i \in Ids /\ fate'[i] = "queued"
          /\ fate[i] = "new" \/ \E m \in Nat : i \in At(g, m)
  BY <1>6, <1>8, <1>9
<1>11. ASSUME NEW n \in Nat, NEW m \in Nat, NEW i \in At(g, n)', i \in At(g, m)' PROVE n = m
  <2>1. n + 1 = m + 1
    BY <1>7, <1>9, <1>11
  <2> QED
    BY <2>1
<1>12. \A i \in Ids : fate'[i] = "queued" =>
            \/ \E n \in Nat : i \in At(g, n)'
            \/ fate[i] = "queued" /\ \A n \in Nat : i \notin At(g, n)
  <2>1. ASSUME NEW i \in Ids, fate'[i] = "queued", NEW n \in Nat, i \in At(g, n)
        PROVE  \E m \in Nat : i \in At(g, m)'
    <3>1. n # 0 /\ n # 1
      BY <1>1, <1>8, <2>1
    <3>2. n - 1 \in Nat /\ n - 1 # 0 /\ (n - 1) + 1 = n
      BY <3>1
    <3>3. i \in At(g, (n - 1) + 1)
      BY <2>1, <3>2
    <3>4. PICK m \in Nat : m = n - 1
      BY <3>2
    <3>5. At(g, m)' = At(g, m + 1)
      BY <1>1, <3>2, <3>4
    <3> QED
      BY <3>3, <3>4, <3>5
  <2> QED
    BY <1>8, <2>1
<1>13. /\ \A i \in Ids : fate[i] = "queued" /\ fate'[i] # "queued" => \E n \in Nat : i \in At(g, n)
       /\ \A i \in Ids : fate'[i] # fate[i] => fate[i] \in {"new", "queued"}
       /\ \A i \in Ids : fate'[i] = "running" => fate[i] = "running"
       /\ worker[g] \notin Running
  BY <1>6, <1>8, PhaseFacts
<1>14. RunsAt(g)'
  BY <1>2, PhaseFacts DEF RunsAt
<1> QED
  BY <1>2, <1>3, <1>4, <1>8, <1>10, <1>11, <1>12, <1>13, <1>14, OneMoves

(* The turn that a worker has taken begins: no other one runs.             *)
LEMMA NoneRuns ==
  ASSUME Base, LockFree
  PROVE  /\ \A h \in Gens : worker[h] \notin TurnPhases
         /\ \A i \in Ids : fate[i] # "running"
<1>1. \A h \in Gens : worker[h] \notin TurnPhases
  BY GensAre DEF Base, LockHeldByTurn, LockFree
<1> QED
  BY <1>1, PhaseFacts DEF Base, Accounts, Runs

(* The item at a place of a queue is taken and its turn begins, with the   *)
(* lock: what is left is r, and what waits there is what waited before and *)
(* is not of that turn.  f says which place each one moved from.           *)
TakenFrom(g, x, k, f) ==
  /\ At(g, k) = x.ids
  /\ BeginTurn(g, x, queue'[g]) /\ LockFree /\ ~closed[g] /\ g <= launched
  /\ \A h \in Gens : h # g => queue'[h] = queue[h]
  /\ queue'[g] \in Seq(Things)
  /\ batch[g] /\ queue'[g] # <<>> /\ g = current => queue'[g][Len(queue'[g])].kind = "batch"
  /\ \A n, m \in Nat : f[n] = f[m] => n = m
  /\ \A n \in Nat : IF f[n] = k THEN At(g, n)' = {} ELSE At(g, n)' = At(g, f[n])
  /\ \A m \in Nat : At(g, m) # {} => \E n \in Nat : f[n] = m
  /\ UNCHANGED <<closed, current, launched>>

LEMMA BeginMoves ==
  ASSUME Base, NEW g \in Gens, NEW x \in Inputs, NEW k \in Nat, NEW f \in [Nat -> Nat],
         TakenFrom(g, x, k, f)
  PROVE  Accounts' /\ x.ids \subseteq Ids /\ \A i \in x.ids : fate[i] = "queued"
<1> USE DEF Base, Accounts, TakenFrom
<1>1. /\ item' = [item EXCEPT ![g] = x] /\ idle' = [idle EXCEPT ![g] = FALSE]
      /\ batch' = [batch EXCEPT ![g] = OpenAfter(g, queue'[g])]
      /\ fate' = Fated(x.ids, "running")
      /\ \/ worker' = [worker EXCEPT ![g] = "mirroring"]
         \/ worker' = [worker EXCEPT ![g] = "opening"]
  BY DEF BeginTurn
<1>2. /\ item'[g] = x /\ ~idle'[g] /\ batch'[g] = (batch[g] /\ queue'[g] # <<>>)
      /\ worker'[g] \in {"mirroring", "opening"} /\ Only(g)
  BY <1>1 DEF GenInv, TypeOK, OpenAfter, Only
<1>3. worker'[g] \in Running /\ worker'[g] \in Holding /\ worker'[g] \notin Settled
      /\ worker'[g] # "locking"
  BY <1>2 DEF Running, Holding, Settled, TurnPhases
<1>4. launched' \in Nat /\ launched' >= launched /\ ~(g > launched)
  BY DEF GenInv, TypeOK, Gens
<1>5. Held(g)'
  BY <1>2, <1>3, <1>4 DEF Held, LastIsBatch
<1>6. \A n \in Nat : \A i \in At(g, n) : i \in Ids /\ fate[i] = "queued"
  BY DEF Waits
<1>7. \A n, m \in Nat : \A i \in At(g, n) : i \in At(g, m) => n = m
  BY DEF Waits
<1>8. x.ids \subseteq Ids /\ \A i \in x.ids : fate[i] = "queued"
  BY <1>6
<1>9. /\ fate' \in [Ids -> Fates]
      /\ \A i \in Ids : fate'[i] = IF i \in x.ids THEN "running" ELSE fate[i]
  BY <1>1 DEF Fated, GenInv, TypeOK, Fates
<1>10. ASSUME NEW n \in Nat, NEW i \in At(g, n)'
       PROVE  f[n] # k /\ i \in At(g, f[n]) /\ f[n] \in Nat /\ i \notin x.ids
  <2>1. f[n] # k /\ i \in At(g, f[n]) /\ f[n] \in Nat
    BY <1>10
  <2> QED
    BY <1>7, <2>1, SMTT(30)
<1>11. \A n \in Nat : \A i \in At(g, n)' :
          /\ i \in Ids /\ fate'[i] = "queued"
          /\ fate[i] = "new" \/ \E m \in Nat : i \in At(g, m)
  BY <1>6, <1>9, <1>10
<1>12. ASSUME NEW n \in Nat, NEW m \in Nat, NEW i \in At(g, n)', i \in At(g, m)' PROVE n = m
  <2>1. f[n] = f[m]
    BY <1>7, <1>10, <1>12
  <2> QED
    BY <2>1
<1>13. \A i \in Ids : fate'[i] = "queued" =>
            \/ \E n \in Nat : i \in At(g, n)'
            \/ fate[i] = "queued" /\ \A n \in Nat : i \notin At(g, n)
  <2>1. ASSUME NEW i \in Ids, fate'[i] = "queued", NEW m \in Nat, i \in At(g, m)
        PROVE  \E n \in Nat : i \in At(g, n)'
    <3>1. i \notin x.ids
      BY <1>9, <2>1
    <3>2. PICK n \in Nat : f[n] = m
      BY <2>1
    <3> QED
      BY <2>1, <3>1, <3>2
  <2> QED
    BY <1>9, <2>1
<1>14. /\ \A i \in Ids : fate[i] = "queued" /\ fate'[i] # "queued" => \E n \in Nat : i \in At(g, n)
       /\ \A i \in Ids : fate'[i] # fate[i] => fate[i] \in {"new", "queued"}
       /\ \A i \in Ids : fate'[i] = "running" => worker'[g] \in Running /\ i \in item'[g].ids
  <2>1. \A i \in Ids : fate[i] # "running"
    BY NoneRuns
  <2>2. ASSUME NEW i \in Ids, fate'[i] = "running" PROVE i \in x.ids
    BY <1>9, <2>1, <2>2
  <2>3. ASSUME NEW i \in Ids, fate'[i] # fate[i] PROVE fate[i] = "queued" /\ i \in At(g, k)
    BY <1>8, <1>9, <2>3
  <2>4. ASSUME NEW i \in Ids, fate'[i] = "running"
        PROVE  worker'[g] \in Running /\ i \in item'[g].ids
    BY <1>2, <1>3, <2>2, <2>4
  <2> QED
    BY <2>3, <2>4
<1>15. RunsAt(g)'
  BY <1>2, <1>3, <1>8, <1>9 DEF RunsAt
<1> QED
  BY <1>2, <1>4, <1>5, <1>8, <1>9, <1>11, <1>12, <1>13, <1>14, <1>15, OneMoves

(* A worker that cannot have the lock keeps what it took in its hands.     *)
LEMMA LockingMoves ==
  ASSUME Base, NEW g \in Gens, queue[g] # <<>>, worker[g] \in {"ready", "wait"},
         queue' = [queue EXCEPT ![g] = Tail(@)], Head(queue[g]) # End,
         item' = [item EXCEPT ![g] = Head(queue[g])],
         worker' = [worker EXCEPT ![g] = "locking"],
         UNCHANGED <<current, batch, idle, fate, closed, launched>>
  PROVE  Accounts'
<1> USE DEF Base, Accounts
<1> DEFINE x == Head(queue[g])
           r == Tail(queue[g])
<1>1. /\ queue'[g] = r /\ x \in Things /\ r \in Seq(Things)
      /\ r # <<>> => r[Len(r)] = queue[g][Len(queue[g])]
      /\ r = <<>> => x = queue[g][Len(queue[g])]
      /\ \A n \in 1..Len(r) : n + 1 \in 1..Len(queue[g]) /\ r[n] = queue[g][n + 1]
      /\ \A n \in Nat : n # 0 => At(g, n)' = At(g, n + 1)
      /\ At(g, 0) = {} /\ At(g, 1) = x.ids /\ x.ids \subseteq Ids
      /\ \A h \in Gens : h # g => queue'[h] = queue[h]
      /\ worker[g] \notin TurnPhases /\ worker[g] \in Open
  BY Taken
<1>2. x \in Inputs
  BY <1>1, ThingFacts
<1>3. worker'[g] = "locking" /\ item'[g] = x /\ Only(g)
  BY <1>1 DEF Only, GenInv, TypeOK
<1>4. launched' \in Nat /\ launched' >= launched
  BY DEF GenInv, TypeOK
<1>5. Held(g)'
  <2>1. g > launched => FALSE
    BY DEF Held
  <2>2. closed[g] => FALSE
    BY DEF Held
  <2>3. current = g /\ batch[g] =>
          /\ r # <<>> => r[Len(r)].kind = "batch"
          /\ r = <<>> => x.kind = "batch"
    BY <1>1 DEF Held, LastIsBatch
  <2> HIDE DEF r, x
  <2>4. ASSUME idle[g], NEW n \in 1..Len(r) PROVE r[n].ids = {}
    <3>1. \A m \in 1..Len(queue[g]) : queue[g][m].ids = {}
      BY <1>1, <2>4 DEF Held
    <3> QED
      BY <1>1, <3>1
  <2> QED
    BY <1>1, <1>2, <1>3, <2>1, <2>2, <2>3, <2>4, PhaseFacts DEF Held, LastIsBatch
<1> HIDE DEF r, x
<1>6. At(g, 0)' = At(g, 1)
  BY <1>1, <1>3 DEF At
<1>7. \A n \in Nat : At(g, n)' = At(g, n + 1)
  BY <1>1, <1>6
<1>8. \A n \in Nat : \A i \in At(g, n) : i \in Ids /\ fate[i] = "queued"
  BY DEF Waits
<1>9. \A n, m \in Nat : \A i \in At(g, n) : i \in At(g, m) => n = m
  BY DEF Waits
<1>10. \A n \in Nat : \A i \in At(g, n)' :
          /\ i \in Ids /\ fate'[i] = "queued"
          /\ fate[i] = "new" \/ \E m \in Nat : i \in At(g, m)
  BY <1>7, <1>8
<1>11. ASSUME NEW n \in Nat, NEW m \in Nat, NEW i \in At(g, n)', i \in At(g, m)' PROVE n = m
  <2>1. n + 1 = m + 1
    BY <1>7, <1>9, <1>11
  <2> QED
    BY <2>1
<1>12. \A i \in Ids : fate'[i] = "queued" =>
            \/ \E n \in Nat : i \in At(g, n)'
            \/ fate[i] = "queued" /\ \A n \in Nat : i \notin At(g, n)
  <2>1. ASSUME NEW i \in Ids, NEW n \in Nat, i \in At(g, n) PROVE \E m \in Nat : i \in At(g, m)'
    <3>1. n # 0
      BY <1>1, <2>1
    <3>2. PICK m \in Nat : n = m + 1
      <4>1. n - 1 \in Nat /\ n = (n - 1) + 1
        BY <3>1
      <4> QED
        BY <4>1
    <3> QED
      BY <1>7, <2>1, <3>2
  <2> QED
    BY <2>1
<1>13. RunsAt(g)' /\ worker[g] \notin Running
  BY <1>1, <1>3, PhaseFacts DEF RunsAt
<1>14. fate' \in [Ids -> Fates]
  BY DEF GenInv, TypeOK
<1> QED
  BY <1>3, <1>4, <1>5, <1>8, <1>10, <1>11, <1>12, <1>13, <1>14, OneMoves

(* A worker takes an input, or gets the lock for the one it took.          *)
LEMMA TakeBegins ==
  ASSUME Base, NEW g \in Gens, queue[g] # <<>>, worker[g] \in {"ready", "wait"},
         queue' = [queue EXCEPT ![g] = Tail(@)], Head(queue[g]) # End, LockFree,
         BeginTurn(g, Head(queue[g]), Tail(queue[g])), UNCHANGED <<closed, current, launched>>
  PROVE  Accounts' /\ \A i \in Head(queue[g]).ids : fate[i] = "queued"
<1> DEFINE x == Head(queue[g])
           r == Tail(queue[g])
           f == [n \in Nat |-> n + 1]
<1>1. /\ queue'[g] = r /\ x \in Things /\ r \in Seq(Things)
      /\ r # <<>> => r[Len(r)] = queue[g][Len(queue[g])]
      /\ \A n \in Nat : n # 0 => At(g, n)' = At(g, n + 1)
      /\ At(g, 0) = {} /\ At(g, 1) = x.ids
      /\ \A h \in Gens : h # g => queue'[h] = queue[h]
  BY Taken
<1>2. x \in Inputs
  BY <1>1, ThingFacts
<1>3. ~closed[g] /\ g <= launched
  BY GensAre DEF Base, Accounts, Held, GenInv, TypeOK, Gens
<1>4. batch[g] /\ r # <<>> /\ g = current => r[Len(r)].kind = "batch"
  BY <1>1 DEF Base, Accounts, Held, LastIsBatch
<1>5. At(g, 0)' = {}
  BY DEF At, BeginTurn, Base, GenInv, TypeOK
<1>6. /\ f \in [Nat -> Nat] /\ \A n, m \in Nat : f[n] = f[m] => n = m
      /\ \A n \in Nat : f[n] = n + 1
  OBVIOUS
<1>7. \A m \in Nat : m # 0 => \E n \in Nat : f[n] = m
  <2>1. ASSUME NEW m \in Nat, m # 0 PROVE m - 1 \in Nat /\ f[m - 1] = m
    BY <2>1
  <2> QED
    BY <2>1
<1> HIDE DEF f, x, r
<1>8. \A n \in Nat : IF f[n] = 1 THEN At(g, n)' = {} ELSE At(g, n)' = At(g, f[n])
  <2>1. ASSUME NEW n \in Nat PROVE (f[n] = 1 <=> n = 0) /\ (n # 0 => At(g, n)' = At(g, f[n]))
    <3>1. f[n] = n + 1
      BY <1>6
    <3>2. f[n] = 1 <=> n = 0
      BY <3>1
    <3>3. n # 0 => At(g, n)' = At(g, n + 1)
      BY <1>1
    <3> QED
      BY <3>1, <3>2, <3>3
  <2> QED
    BY <1>5, <2>1
<1>9. \A m \in Nat : At(g, m) # {} => \E n \in Nat : f[n] = m
  BY <1>1, <1>7
<1>10. BeginTurn(g, x, queue'[g]) /\ (batch[g] /\ queue'[g] # <<>> /\ g = current =>
            queue'[g][Len(queue'[g])].kind = "batch") /\ queue'[g] \in Seq(Things)
       /\ \A h \in Gens : h # g => queue'[h] = queue[h]
  BY <1>1, <1>4 DEF x, r
<1>11. PICK k \in Nat, y \in Inputs : k = 1 /\ y = x
  BY <1>2
<1>12. /\ At(g, k) = y.ids /\ BeginTurn(g, y, queue'[g])
       /\ \A n \in Nat : IF f[n] = k THEN At(g, n)' = {} ELSE At(g, n)' = At(g, f[n])
  BY <1>1, <1>8, <1>10, <1>11
<1>13. Accounts' /\ \A i \in y.ids : fate[i] = "queued"
  <2>1. TakenFrom(g, y, k, f)
    BY <1>3, <1>6, <1>9, <1>10, <1>12 DEF TakenFrom
  <2> QED
    BY <1>6, <2>1, BeginMoves
<1> QED
  BY <1>11, <1>13 DEF x

LEMMA AcquireBegins ==
  ASSUME Base, NEW g \in Gens, worker[g] = "locking", LockFree,
         BeginTurn(g, item[g], queue[g]), UNCHANGED <<queue, closed, current, launched>>
  PROVE  Accounts' /\ \A i \in item[g].ids : fate[i] = "queued"
<1> DEFINE f == [n \in Nat |-> n]
<1>1. /\ f \in [Nat -> Nat] /\ \A n, m \in Nat : f[n] = f[m] => n = m
      /\ \A n \in Nat : f[n] = n
  OBVIOUS
<1> HIDE DEF f
<1>2. item[g] \in Inputs /\ At(g, 0) = item[g].ids
  BY PhaseFacts DEF Base, Accounts, Held, At
<1>3. ~closed[g] /\ g <= launched
  <2>1. ~closed[g]
    BY DEF Base, Swept
  <2>2. ~(g > launched)
    BY DEF Base, GenInv, Generations
  <2> QED
    BY <2>1, <2>2 DEF Base, GenInv, TypeOK, Gens
<1>4. batch[g] /\ queue[g] # <<>> /\ g = current => queue[g][Len(queue[g])].kind = "batch"
  BY DEF Base, Accounts, Held, LastIsBatch
<1>5. At(g, 0)' = {}
  BY DEF At, BeginTurn, Base, GenInv, TypeOK
<1>6. \A n \in Nat : n # 0 => At(g, n)' = At(g, n)
  BY DEF At
<1>7. /\ \A n \in Nat : IF f[n] = 0 THEN At(g, n)' = {} ELSE At(g, n)' = At(g, f[n])
      /\ \A m \in Nat : At(g, m) # {} => \E n \in Nat : f[n] = m
  BY <1>1, <1>5, <1>6
<1>8. queue[g] \in Seq(Things)
  BY DEF Base, Accounts, Held
<1>9. PICK y \in Inputs : y = item[g]
  BY <1>2
<1>10. TakenFrom(g, y, 0, f)
  BY <1>1, <1>2, <1>3, <1>4, <1>7, <1>8, <1>9 DEF TakenFrom
<1>11. f \in [Nat -> Nat] /\ 0 \in Nat
  BY <1>1
<1> QED
  BY <1>9, <1>10, <1>11, BeginMoves

(* A worker ends its turn or gives up: what it holds and what no longer    *)
(* waits has an outcome.                                                   *)
LEMMA LeaveMoves ==
  ASSUME Base, NEW g \in Gens, Only(g), UNCHANGED launched, current' \in {current, 0}, Held(g)',
         worker'[g] \notin Running, worker'[g] # "locking",
         worker'[g] \in Settled => worker[g] \in TurnPhases /\ item'[g] = item[g],
         \A n \in Nat : n # 0 => At(g, n)' \in {At(g, n), {}},
         fate' \in [Ids -> Fates],
         \A n \in Nat : \A i \in At(g, n) :
            IF n = 0 \/ At(g, n)' = {} THEN fate'[i] \in Outcomes ELSE fate'[i] = fate[i],
         worker[g] \in Running => \A i \in item[g].ids : fate'[i] \in Outcomes,
         \A i \in Ids : fate'[i] # fate[i] =>
            (\E n \in Nat : i \in At(g, n)) \/ (worker[g] \in Running /\ i \in item[g].ids)
  PROVE  Accounts'
<1> USE DEF Base, Accounts
<1>1. launched' \in Nat /\ launched' >= launched
  BY DEF GenInv, TypeOK
<1>2. At(g, 0)' = {}
  BY DEF At
<1>3. \A n \in Nat : \A i \in At(g, n) : i \in Ids /\ fate[i] = "queued"
  BY DEF Waits
<1>4. \A n, m \in Nat : \A i \in At(g, n) : i \in At(g, m) => n = m
  BY DEF Waits
<1>5. Outcomes \cap {"new", "queued", "running"} = {}
  BY DEF Outcomes
<1>6. ASSUME NEW n \in Nat, NEW i \in At(g, n)'
      PROVE  i \in At(g, n) /\ i \in Ids /\ fate'[i] = "queued"
  <2>1. n # 0 /\ At(g, n)' = At(g, n)
    BY <1>2, <1>6
  <2>2. i \in At(g, n)
    BY <2>1
  <2>3. At(g, n)' # {}
    BY <1>6
  <2> QED
    BY <1>3, <2>1, <2>2, <2>3
<1>7. \A i \in Ids : fate'[i] = "queued" =>
            \/ \E n \in Nat : i \in At(g, n)'
            \/ fate[i] = "queued" /\ \A n \in Nat : i \notin At(g, n)
  <2>1. ASSUME NEW i \in Ids, fate'[i] = "queued", NEW n \in Nat, i \in At(g, n)
        PROVE  i \in At(g, n)'
    <3>1. n # 0 /\ At(g, n)' # {}
      BY <1>5, <2>1
    <3> QED
      BY <2>1, <3>1
  <2>2. ASSUME NEW i \in Ids, fate'[i] = "queued", \A n \in Nat : i \notin At(g, n)
        PROVE  fate[i] = "queued"
    BY <1>5, <2>2
  <2> QED
    BY <2>1, <2>2
<1>8. RunsAt(g)'
  <2>1. ASSUME worker'[g] \in Settled, NEW i \in item'[g].ids PROVE fate'[i] \in Outcomes
    <3>1. worker[g] \in TurnPhases /\ item'[g] = item[g] /\ i \in item[g].ids
      BY <2>1
    <3>2. CASE worker[g] \in Running
      BY <3>1, <3>2
    <3>3. CASE worker[g] \in Settled
      <4>1. i \in Ids /\ fate[i] \in Outcomes
        BY <3>1, <3>3, ThingFacts, PhaseFacts DEF Held, Runs, RunsAt
      <4>2. worker[g] \notin Running /\ \A n \in Nat : i \notin At(g, n)
        BY <1>3, <1>5, <3>3, <4>1, PhaseFacts
      <4> QED
        BY <4>1, <4>2
    <3> QED
      BY <3>1, <3>2, <3>3, PhaseFacts
  <2> QED
    BY <2>1 DEF RunsAt
<1>9. /\ \A n \in Nat : \A i \in At(g, n)' :
            /\ i \in Ids /\ fate'[i] = "queued"
            /\ fate[i] = "new" \/ \E m \in Nat : i \in At(g, m)
      /\ \A n, m \in Nat : \A i \in At(g, n)' : i \in At(g, m)' => n = m
  BY <1>4, <1>6
<1>10. ASSUME NEW i \in Ids, fate[i] = "queued", fate'[i] # "queued"
       PROVE  \E n \in Nat : i \in At(g, n)
  <2>1. worker[g] \in Running => i \notin item[g].ids
    BY <1>10 DEF Runs, RunsAt
  <2> QED
    BY <1>10, <2>1
<1>11. ASSUME NEW i \in Ids, fate'[i] # fate[i]
       PROVE  fate[i] = "queued" \/ (fate[i] = "running" /\ worker[g] \in Running)
  <2>1. worker[g] \in Running /\ i \in item[g].ids => fate[i] = "running"
    BY DEF Runs, RunsAt
  <2> QED
    BY <1>3, <1>11, <2>1
<1>12. ASSUME NEW i \in Ids, fate'[i] = "running"
       PROVE  fate[i] = "running" /\ ~(worker[g] \in Running /\ i \in item[g].ids)
  <2>1. ~(worker[g] \in Running /\ i \in item[g].ids)
    BY <1>5, <1>12
  <2>2. ASSUME NEW n \in Nat, i \in At(g, n) PROVE FALSE
    BY <1>3, <1>5, <1>12, <2>2
  <2> QED
    BY <1>12, <2>1, <2>2
<1> QED
  BY <1>1, <1>7, <1>8, <1>9, <1>10, <1>11, <1>12, OneMoves

(* The turn is over: its worker loops or leaves.                           *)
LEMMA EndTurnMoves ==
  ASSUME Base, NEW g \in Gens, EndTurn(g) PROVE Accounts'
<1> USE DEF Base, Accounts
<1>1. worker[g] \in Settled /\ worker[g] \in TurnPhases /\ item' = [item EXCEPT ![g] = NoItem]
      /\ UNCHANGED <<queue, batch, closed, launched, fate>>
  BY DEF EndTurn, Settled, TurnPhases
<1>2. /\ current' \in {current, 0}
      /\ \/ worker' = [worker EXCEPT ![g] = "wait"]
         \/ worker' = [worker EXCEPT ![g] = "ready"]
         \/ worker' = [worker EXCEPT ![g] = "draining"]
      /\ idle'[g] => queue[g] = <<>> /\ \A h \in Gens : h # g => idle'[h] = idle[h]
      /\ \A h \in Gens : h # g => idle'[h] = idle[h]
  <2>1. ~idle[g]
    BY <1>1 DEF Held
  <2>2. CASE worker[g] = "settling"
    BY <2>1, <2>2 DEF EndTurn, LoopTop, Exit, GenInv, TypeOK
  <2>3. CASE worker[g] # "settling"
    BY <2>1, <2>3 DEF EndTurn, Exit
  <2> QED
    BY <2>2, <2>3
<1>3. worker'[g] \in {"wait", "ready", "draining"} /\ item'[g] = NoItem /\ Only(g)
  BY <1>1, <1>2 DEF Only, GenInv, TypeOK
<1>4. /\ worker'[g] \notin Running /\ worker'[g] \notin Settled /\ worker'[g] # "locking"
      /\ worker'[g] \notin Holding /\ worker'[g] \notin TurnPhases
  BY <1>3 DEF Running, Settled, Holding, TurnPhases
<1>5. worker[g] \notin Running /\ worker[g] # "locking"
  BY <1>1, PhaseFacts
<1>6. Held(g)'
  <2>1. current' = g => current = g
    BY <1>2, GensAre
  <2>2. LastIsBatch(g)'
    BY <1>1, <1>5, <2>1 DEF Held, LastIsBatch
  <2>3. queue[g] = <<>> => \A n \in 1..Len(queue[g]) : queue[g][n].ids = {}
    OBVIOUS
  <2> QED
    BY <1>1, <1>2, <1>3, <1>4, <2>2, <2>3 DEF Held
<1>7. \A n \in Nat : At(g, n)' = At(g, n)
  BY <1>1, <1>4, <1>5 DEF At
<1>8. \A n \in Nat : \A i \in At(g, n) : n # 0 /\ At(g, n)' # {}
  BY <1>5, <1>7 DEF At
<1>9. fate' \in [Ids -> Fates]
  BY <1>1 DEF GenInv, TypeOK
<1>10. \A n \in Nat : \A i \in At(g, n) :
          IF n = 0 \/ At(g, n)' = {} THEN fate'[i] \in Outcomes ELSE fate'[i] = fate[i]
  BY <1>1, <1>8
<1> QED
  BY <1>1, <1>2, <1>3, <1>4, <1>5, <1>6, <1>7, <1>9, <1>10, LeaveMoves

(* A worker that waited for the lock and is stale gives up.                *)
LEMMA AcquireStaleMoves ==
  ASSUME Base, NEW g \in Gens, worker[g] = "locking", Exit(g),
         item' = [item EXCEPT ![g] = NoItem], fate' = Fated(item[g].ids, "lost"),
         UNCHANGED <<queue, batch, closed, idle, launched>>
  PROVE  Accounts'
<1> USE DEF Base, Accounts
<1>1. /\ worker'[g] = "draining" /\ item'[g] = NoItem /\ Only(g) /\ current' \in {current, 0}
      /\ current' # g
  BY GensAre DEF Exit, Only, GenInv, TypeOK
<1>2. /\ worker'[g] \notin Running /\ worker'[g] \notin Settled /\ worker'[g] # "locking"
      /\ worker'[g] \notin Holding /\ worker'[g] \notin TurnPhases /\ worker'[g] \notin Open
      /\ worker[g] \notin Running
  BY <1>1, PhaseFacts DEF Running, Settled, Holding
<1>3. Held(g)'
  BY <1>1, <1>2 DEF Held, LastIsBatch
<1>4. At(g, 0) = item[g].ids /\ \A n \in Nat : n # 0 => At(g, n)' = At(g, n)
  BY DEF At
<1>5. \A n \in Nat : \A i \in At(g, n) : i \in Ids /\ fate[i] = "queued"
  BY DEF Waits
<1>6. \A n, m \in Nat : \A i \in At(g, n) : i \in At(g, m) => n = m
  BY DEF Waits
<1>7. /\ fate' \in [Ids -> Fates] /\ "lost" \in Outcomes
      /\ \A i \in Ids : fate'[i] = IF i \in At(g, 0) THEN "lost" ELSE fate[i]
  BY <1>4 DEF Fated, GenInv, TypeOK, Fates, Outcomes
<1>8. \A n \in Nat : \A i \in At(g, n) :
         IF n = 0 \/ At(g, n)' = {} THEN fate'[i] \in Outcomes ELSE fate'[i] = fate[i]
  <2>1. ASSUME NEW n \in Nat, NEW i \in At(g, n), n # 0
        PROVE  At(g, n)' # {} /\ fate'[i] = fate[i]
    <3>1. i \notin At(g, 0) /\ i \in Ids
      BY <1>5, <1>6, <2>1
    <3>2. At(g, n)' = At(g, n)
      BY <1>4, <2>1
    <3> QED
      BY <1>7, <2>1, <3>1, <3>2
  <2> QED
    BY <1>5, <1>7, <2>1
<1>9. \A i \in Ids : fate'[i] # fate[i] => \E n \in Nat : i \in At(g, n)
  BY <1>7
<1>10. \A n \in Nat : n # 0 => At(g, n)' \in {At(g, n), {}}
  BY <1>4
<1> QED
  BY <1>1, <1>2, <1>3, <1>7, <1>8, <1>9, <1>10, LeaveMoves

(* What is still queued when the runtime closes is lost.                   *)
LEMMA CloseMoves ==
  ASSUME Base, NEW g \in Gens, Close(g) PROVE Accounts'
<1> USE DEF Base, Accounts
<1>0. UNCHANGED <<item, idle, launched, current>> /\ worker[g] = "draining"
  BY DEF Close, registry
<1>1. worker[g] \notin Holding /\ worker[g] \notin Open /\ worker[g] \notin TurnPhases
      /\ "closing" \in Phases \ (Holding \cup Open) /\ "dead" \in Phases \ (Holding \cup Open)
      /\ "dead" \notin TurnPhases /\ "closing" \notin TurnPhases /\ "draining" # "locking"
      /\ worker[g] \notin Running /\ "dead" \notin Running /\ "closing" \notin Running
      /\ "closing" \notin Settled
  BY <1>0, PhaseFacts, Values DEF Holding
<1>2. CASE closed[g]
  <2>1. worker' = [worker EXCEPT ![g] = "dead"] /\ UNCHANGED <<queue, batch, closed, fate>>
    BY <1>2 DEF Close
  <2> QED
    BY <1>0, <1>1, <2>1, PhaseMoves
<1>3. CASE ~closed[g]
  <2>1. /\ worker' = [worker EXCEPT ![g] = "closing"]
        /\ fate' = Fated(IdsIn(queue[g]), "lost")
        /\ queue' = [queue EXCEPT ![g] = <<>>]
        /\ batch' = [batch EXCEPT ![g] = FALSE]
        /\ closed' = [closed EXCEPT ![g] = TRUE]
    BY <1>3 DEF Close
  <2>2. /\ worker'[g] = "closing" /\ queue'[g] = <<>> /\ ~batch'[g] /\ closed'[g] /\ Only(g)
        /\ item'[g] = NoItem
    BY <1>0, <1>1, <2>1 DEF Only, GenInv, TypeOK, Held
  <2>3. Held(g)'
    BY <1>1, <2>2 DEF Held, LastIsBatch
  <2>4. /\ At(g, 0) = {} /\ \A n \in Nat : At(g, n)' = {}
        /\ \A n \in Nat : \A i \in At(g, n) : i \in Ids /\ i \in IdsIn(queue[g])
    BY <1>0, <2>2 DEF At, Waits, IdsIn
  <2>5. /\ fate' \in [Ids -> Fates] /\ "lost" \in Outcomes
        /\ \A i \in Ids : fate'[i] = IF i \in IdsIn(queue[g]) THEN "lost" ELSE fate[i]
    BY <2>1 DEF Fated, GenInv, TypeOK, Fates, Outcomes
  <2>6. \A i \in IdsIn(queue[g]) : \E n \in Nat : i \in At(g, n)
    BY DEF IdsIn, At
  <2>7. \A n \in Nat : \A i \in At(g, n) :
           IF n = 0 \/ At(g, n)' = {} THEN fate'[i] \in Outcomes ELSE fate'[i] = fate[i]
    BY <2>4, <2>5
  <2>8. /\ \A n \in Nat : n # 0 => At(g, n)' \in {At(g, n), {}}
        /\ \A i \in Ids : fate'[i] # fate[i] => \E n \in Nat : i \in At(g, n)
    BY <2>4, <2>5, <2>6
  <2> QED
    BY <1>0, <1>1, <2>2, <2>3, <2>5, <2>7, <2>8, LeaveMoves
<1> QED
  BY <1>2, <1>3

(* A cancelled worker ends its turn, or drops what it holds.               *)
LEMMA Cancelled ==
  ASSUME Base, NEW g \in Gens, CancelWorker(g)
  PROVE  /\ worker'[g] \in {"unwinding", "dead", "draining"}
         /\ worker'[g] = "unwinding" <=> worker[g] \in TurnPhases
         /\ item'[g] = IF worker[g] \in TurnPhases THEN item[g] ELSE NoItem
         /\ \A h \in Gens : h # g => worker'[h] = worker[h] /\ item'[h] = item[h]
         /\ CutShort(g) \in [Ids -> Fates]
         /\ \A i \in Ids : IF worker[g] \in Running \cup {"locking"} /\ i \in item[g].ids
                           THEN CutShort(g)[i] \in Outcomes ELSE CutShort(g)[i] = fate[i]
<1>1. worker'[g] \in {"unwinding", "dead", "draining"}
      /\ (worker'[g] = "unwinding" <=> worker[g] \in TurnPhases)
      /\ \A h \in Gens : h # g => worker'[h] = worker[h] /\ item'[h] = item[h]
  BY DEF CancelWorker, Base, GenInv, TypeOK, TurnPhases
<1>2. item'[g] = IF worker[g] \in TurnPhases THEN item[g] ELSE NoItem
  BY PhaseFacts DEF CancelWorker, Base, GenInv, TypeOK, Accounts, Held, Holding
<1>3. \A i \in Ids : IF worker[g] \in Running \cup {"locking"} /\ i \in item[g].ids
                     THEN CutShort(g)[i] \in Outcomes ELSE CutShort(g)[i] = fate[i]
  BY DEF CutShort, Fated, Running, Outcomes
<1>4. CutShort(g) \in [Ids -> Fates]
  BY CutShortType DEF Base, GenInv
<1> QED
  BY <1>1, <1>2, <1>3, <1>4

(* That of the registered generation at the shutdown, whose queue stays    *)
(* until it closes; or of a generation that _shutdown closes itself.       *)
LEMMA CancelMoves ==
  ASSUME Base, NEW g \in Gens, CancelWorker(g), current' \in {current, 0}, UNCHANGED <<launched, idle>>,
         current' = g => worker[g] # "locking",
         \/ fate' = CutShort(g) /\ UNCHANGED <<queue, batch, closed>>
         \/ /\ fate' = [i \in Ids |-> IF i \in IdsIn(queue[g]) THEN "lost" ELSE CutShort(g)[i]]
            /\ queue' = [queue EXCEPT ![g] = <<>>]
            /\ batch' = [batch EXCEPT ![g] = FALSE]
            /\ closed' = [closed EXCEPT ![g] = TRUE]
  PROVE  Accounts'
<1> USE DEF Base, Accounts
<1>1. /\ worker'[g] \in {"unwinding", "dead", "draining"}
      /\ worker'[g] = "unwinding" <=> worker[g] \in TurnPhases
      /\ item'[g] = IF worker[g] \in TurnPhases THEN item[g] ELSE NoItem
      /\ \A h \in Gens : h # g => worker'[h] = worker[h] /\ item'[h] = item[h]
      /\ CutShort(g) \in [Ids -> Fates]
      /\ \A i \in Ids : IF worker[g] \in Running \cup {"locking"} /\ i \in item[g].ids
                        THEN CutShort(g)[i] \in Outcomes ELSE CutShort(g)[i] = fate[i]
  BY Cancelled
<1>2. /\ worker'[g] \notin Running /\ worker'[g] # "locking" /\ worker'[g] \notin Open
      /\ worker'[g] \in TurnPhases <=> worker'[g] = "unwinding"
      /\ worker'[g] \in Holding <=> worker'[g] = "unwinding"
      /\ worker'[g] \in Settled <=> worker'[g] = "unwinding"
  BY <1>1 DEF Running, Open, Settled, Holding, TurnPhases, LoopPhases
<1>3. Only(g)
  <2>1. CASE UNCHANGED <<queue, batch, closed>>
    BY <1>1, <2>1 DEF Only
  <2>2. CASE /\ queue' = [queue EXCEPT ![g] = <<>>]
             /\ batch' = [batch EXCEPT ![g] = FALSE]
             /\ closed' = [closed EXCEPT ![g] = TRUE]
    BY <1>1, <2>2 DEF Only, GenInv, TypeOK
  <2> QED
    BY <2>1, <2>2
<1>4. /\ queue'[g] \in {queue[g], <<>>}
      /\ UNCHANGED <<queue, batch, closed>> \/ (queue'[g] = <<>> /\ ~batch'[g])
      /\ closed'[g] => queue'[g] = <<>>
  BY DEF GenInv, TypeOK, Held
<1>5. Held(g)'
  <2>1. LastIsBatch(g)'
    <3>1. ASSUME current' = g, batch'[g]
          PROVE  current = g /\ batch[g] /\ UNCHANGED <<queue, batch, closed>>
      BY <1>4, <3>1, GensAre
    <3> QED
      BY <1>1, <3>1 DEF Held, LastIsBatch
  <2> QED
    <3>1. queue'[g] \in Seq(Things) /\ (g > launched => queue'[g] = <<>> /\ ~batch'[g])
      <4>1. <<>> \in Seq(Things) /\ queue[g] \in Seq(Things)
        BY DEF Held
      <4>2. g > launched => queue[g] = <<>> /\ ~batch[g]
        BY DEF Held
      <4> QED
        BY <1>4, <4>1, <4>2
    <3>2. worker[g] \in TurnPhases => item[g] \in Inputs
      BY DEF Held, Holding
    <3>3. idle[g] => worker[g] \notin TurnPhases
      BY DEF Held
    <3> QED
      BY <1>1, <1>2, <1>4, <2>1, <3>1, <3>2, <3>3 DEF Held
<1>6. /\ At(g, 0)' = {} /\ \A n \in Nat : n # 0 => At(g, n)' \in {At(g, n), {}}
      /\ \A n \in Nat : n # 0 => \A i \in At(g, n) : i \in IdsIn(queue[g])
      /\ \A i \in IdsIn(queue[g]) : \E n \in Nat : n # 0 /\ i \in At(g, n)
      /\ \A i \in At(g, 0) : worker[g] = "locking" /\ i \in item[g].ids
      /\ worker[g] = "locking" => At(g, 0) = item[g].ids
  BY <1>2, <1>4 DEF At, IdsIn
<1>7. \A n \in Nat : \A i \in At(g, n) : i \in Ids /\ fate[i] = "queued"
  BY DEF Waits
<1>8. \A n, m \in Nat : \A i \in At(g, n) : i \in At(g, m) => n = m
  BY DEF Waits
<1>9. worker[g] \in Running => \A i \in item[g].ids : i \in Ids /\ fate[i] = "running"
  BY ThingFacts, PhaseFacts DEF Held, Runs, RunsAt
<1>10. Outcomes \subseteq Fates /\ "lost" \in Outcomes /\ "queued" \notin Outcomes
  BY DEF Outcomes, Fates
<1>11. fate' \in [Ids -> Fates]
  BY <1>1, <1>10
<1>12. \A i \in Ids : fate'[i] = CutShort(g)[i] \/ (i \in IdsIn(queue[g]) /\ fate'[i] = "lost")
  BY <1>1
<1>13. ASSUME NEW n \in Nat, NEW i \in At(g, n)
       PROVE  IF n = 0 \/ At(g, n)' = {} THEN fate'[i] \in Outcomes ELSE fate'[i] = fate[i]
  <2>1. i \in Ids /\ fate[i] = "queued" /\ (worker[g] \in Running => i \notin item[g].ids)
    BY <1>7, <1>9, <1>13
  <2>2. CASE n = 0
    BY <1>1, <1>6, <1>10, <1>12, <2>1, <2>2
  <2>3. CASE n # 0 /\ UNCHANGED <<queue, batch, closed>> /\ fate' = CutShort(g)
    <3>1. At(g, n)' = At(g, n)
      BY <2>3 DEF At
    <3>2. worker[g] = "locking" => i \notin item[g].ids
      BY <1>6, <1>8, <2>3
    <3>3. CutShort(g)[i] = fate[i]
      BY <1>1, <2>1, <3>2
    <3> QED
      BY <2>3, <3>1, <3>3
  <2>4. CASE /\ n # 0
             /\ fate' = [j \in Ids |-> IF j \in IdsIn(queue[g]) THEN "lost" ELSE CutShort(g)[j]]
             /\ queue' = [queue EXCEPT ![g] = <<>>]
    <3>1. At(g, n)' = {}
      BY <2>4 DEF At, GenInv, TypeOK
    <3> QED
      BY <1>6, <1>10, <2>1, <2>4, <3>1
  <2> QED
    BY <2>2, <2>3, <2>4
<1>14. worker[g] \in Running => \A i \in item[g].ids : fate'[i] \in Outcomes
  BY <1>1, <1>9, <1>10, <1>12
<1>15. ASSUME NEW i \in Ids, fate'[i] # fate[i]
       PROVE  (\E n \in Nat : i \in At(g, n)) \/ (worker[g] \in Running /\ i \in item[g].ids)
  <2>1. CASE i \in IdsIn(queue[g])
    BY <1>6, <2>1
  <2>2. CASE i \notin IdsIn(queue[g])
    <3>1. worker[g] \in Running \cup {"locking"} /\ i \in item[g].ids
      BY <1>1, <1>12, <1>15, <2>2
    <3> QED
      BY <1>6, <3>1
  <2> QED
    BY <2>1, <2>2
<1>16. worker'[g] \in Settled => worker[g] \in TurnPhases /\ item'[g] = item[g]
  BY <1>1, <1>2
<1> QED
  BY <1>2, <1>3, <1>5, <1>6, <1>11, <1>13, <1>14, <1>15, <1>16, LeaveMoves

(* Each step keeps closed generations at their end.                        *)
LEMMA SweptStep ==
  ASSUME GenInv, Swept, [Next]_vars PROVE Swept'
<1> USE DEF ledger, registry, runtime, host, GenInv, Swept
<1> DEFINE Ending == {"unwinding", "draining", "closing", "dead"}
<1>1. ASSUME UNCHANGED <<worker, closed, host>>, current' \in {current, 0} PROVE Swept'
  BY <1>1
<1>2. ASSUME NEW first, Launch(first), current = 0 PROVE Swept'
  <2>1. PICK g \in Gens : g = launched + 1
    BY <1>2 DEF Launch
  <2>2. worker[g] = "none" /\ target # g /\ g # 0
    BY <2>1, GensAre DEF Generations, TypeOK
  <2> QED
    BY <1>2, <2>1, <2>2 DEF Launch, TypeOK
<1>3. ASSUME NEW first, Resume(first), current = 0 PROVE Swept'
  BY <1>1, <1>2, <1>3 DEF Resume
(* A worker moves on. *)
<1>4. ASSUME NEW g \in Gens, NEW p, worker' = [worker EXCEPT ![g] = p],
             p \in Ending \/ worker[g] \notin Ending, UNCHANGED <<closed, host>>,
             current' \in {current, 0}
      PROVE  Swept'
  BY <1>4 DEF TypeOK
<1>5. ASSUME NEW g \in Gens, Exit(g), UNCHANGED <<closed, host>> PROVE Swept'
  BY <1>4, <1>5 DEF Exit
<1>6. ASSUME NEW g, AskAgent(g), UNCHANGED <<current, closed, host>> PROVE Swept'
  BY <1>1, <1>4, <1>6 DEF AskAgent, TypeOK
<1>7. ASSUME NEW t \in Turns, Reply(t) PROVE Swept'
  BY <1>1, <1>3, <1>7 DEF Reply
<1>8. ASSUME NEW R, Cancel(R) PROVE Swept'
  BY <1>6, <1>8 DEF Cancel
<1>9. CASE Stop
  BY <1>1, <1>6, <1>9 DEF Stop
<1>10. CASE MarkDone
  BY <1>1, <1>10 DEF MarkDone
<1>11. CASE ResumeTask
  BY <1>3, <1>11 DEF ResumeTask
<1>12. CASE Clear
  BY <1>1, <1>12 DEF Clear
<1>13. ASSUME NEW b \in Blocks, BgResult(b) PROVE Swept'
  BY <1>1, <1>3, <1>13 DEF BgResult
<1>14. ASSUME NEW g \in Gens, Worker(g) PROVE Swept'
  <2>1. CASE Begin(g) \/ Prepare(g) \/ Prompt(g) \/ FailureTold(g)
    BY <1>4, <2>1 DEF Begin, Prepare, Prompt, FailureTold
  <2>2. CASE StartOk(g) \/ StartFail(g)
    BY <1>4, <1>5, <2>2 DEF StartOk, StartFail
  <2>3. ASSUME NEW q, LoopTop(g, q), worker[g] \notin Ending, UNCHANGED <<closed, host>>
        PROVE  Swept'
    BY <1>4, <1>5, <2>3 DEF LoopTop
  <2>4. CASE Announced(g)
    BY <2>3, <2>4 DEF Announced
  <2>5. ASSUME NEW i, NEW q, BeginTurn(g, i, q), worker[g] \notin Ending,
               UNCHANGED <<current, closed, host>>
        PROVE  Swept'
    BY <1>4, <2>5 DEF BeginTurn
  <2>6. CASE Take(g)
    BY <1>4, <1>5, <2>5, <2>6 DEF Take
  <2>7. CASE Acquire(g)
    BY <1>5, <2>5, <2>7 DEF Acquire
  <2>8. CASE IdleExpires(g) \/ Noticed(g)
    BY <1>4, <1>5, <2>8 DEF IdleExpires, Noticed
  <2>9. ASSUME NEW s, Answer(g, s) PROVE Swept'
    BY <1>4, <2>9 DEF Answer
  <2>10. CASE PromptFails(g)
    BY <1>4, <2>10 DEF PromptFails
  <2>11. CASE EndTurn(g)
    <3>1. UNCHANGED <<closed, host>>
      BY <2>11 DEF EndTurn
    <3>2. CASE worker[g] = "settling"
      BY <2>3, <2>11, <3>1, <3>2 DEF EndTurn
    <3>3. CASE worker[g] # "settling"
      BY <1>5, <2>11, <3>1, <3>3 DEF EndTurn
    <3> QED
      BY <3>2, <3>3
  <2>12. CASE Close(g) \/ AgentClosed(g)
    BY <2>12 DEF Close, AgentClosed, TypeOK
  <2> QED
    BY <1>14, <2>1, <2>2, <2>4, <2>6, <2>7, <2>8, <2>9, <2>10, <2>11, <2>12 DEF Worker
<1>15. CASE BeginShutdown \/ Sweep \/ SweepDone
  BY <1>15, GensAre DEF BeginShutdown, Sweep, SweepDone
<1>16. ASSUME NEW g \in Gens, CancelWorker(g)
       PROVE  /\ worker'[g] \in Ending
              /\ \A h \in Gens : h # g => worker'[h] = worker[h]
  BY <1>16 DEF CancelWorker, TypeOK
<1>17. CASE SuspendAll
  <2>1. CASE current = 0
    BY <1>17, <2>1 DEF SuspendAll
  <2>2. CASE current # 0
    <3>1. current \in Gens
      BY <2>2, GensAre DEF TypeOK
    <3>2. CancelWorker(current) /\ UNCHANGED closed /\ daemon' = "gathering"
      BY <1>17, <2>2 DEF SuspendAll
    <3> QED
      BY <1>16, <3>1, <3>2
  <2> QED
    BY <2>1, <2>2
<1>18. CASE SweepClose
  <2>1. target \in Gens /\ daemon = "sweeping"
    BY <1>18, GensAre DEF SweepClose, TypeOK
  <2>2. CASE closed[target]
    BY <1>18, <2>2 DEF SweepClose
  <2>3. CASE ~closed[target]
    <3>1. CancelWorker(target) /\ closed' = [closed EXCEPT ![target] = TRUE]
          /\ daemon' = "closing" /\ UNCHANGED <<current, target>>
      BY <1>18, <2>3 DEF SweepClose
    <3> QED
      BY <1>16, <2>1, <3>1 DEF TypeOK
  <2> QED
    BY <2>2, <2>3
<1>19. CASE ProcessEnds
  BY <1>19 DEF ProcessEnds
<1>20. CASE Restart
  BY <1>20 DEF Restart
<1>21. CASE UNCHANGED vars
  BY <1>1, <1>21 DEF vars
<1> QED
  BY <1>7, <1>8, <1>9, <1>10, <1>11, <1>12, <1>13, <1>14, <1>15, <1>17, <1>18,
     <1>19, <1>20, <1>21 DEF Next, External, Lifecycle

(* The end of the process leaves nothing queued and nothing running.       *)
LEMMA EndMoves ==
  ASSUME Base, ProcessEnds PROVE Accounts'
<1>1. /\ \A g \in Gens : /\ queue'[g] = <<>> /\ ~batch'[g] /\ item'[g] = NoItem
                         /\ worker'[g] \in {"dead", "none"}
      /\ \A i \in Ids : fate'[i] \notin {"queued", "running"}
  BY DEF ProcessEnds
<1>2. \A g \in Gens, n \in Nat : At(g, n)' = {}
  BY <1>1 DEF At
<1>3. {"dead", "none"} \cap (Holding \cup Open \cup Running \cup Settled \cup TurnPhases) = {}
  BY PhaseFacts DEF Holding
<1>4. ASSUME NEW g \in Gens PROVE Held(g)' /\ RunsAt(g)'
  <2>1. /\ worker'[g] \notin Holding /\ worker'[g] \notin TurnPhases /\ worker'[g] \notin Open
        /\ worker'[g] \notin Running /\ worker'[g] \notin Settled
    BY <1>1, <1>3
  <2>2. queue'[g] = <<>> /\ ~batch'[g] /\ item'[g] = NoItem /\ <<>> \in Seq(Things)
    BY <1>1
  <2> QED
    BY <2>1, <2>2 DEF Held, LastIsBatch, RunsAt
<1>5. Waits'
  BY <1>1, <1>2 DEF Waits
<1> QED
  BY <1>1, <1>4, <1>5 DEF Accounts, Runs

(* Initially the first turn waits in the first generation's queue.         *)
LEMMA AccountsInit == Init => Accounts /\ Swept
<1> SUFFICES ASSUME Init PROVE Accounts /\ Swept
  OBVIOUS
<1>1. 1 \in Gens /\ \A g \in Gens : g \in Nat /\ g >= 1
  BY SessionAssumption DEF Gens
<1>2. PICK first : /\ \/ first = <<>>
                      \/ \E t \in Turns : first = <<TurnOf(t)>>
                   /\ queue = [g \in Gens |-> IF g = 1 THEN first ELSE <<>>]
                   /\ first # <<>> => current = 1 /\ launched = 1
  <2>1. CASE Loaded
    <3>1. queue = [g \in Gens |-> IF g = 1 THEN <<>> ELSE <<>>]
      BY <2>1 DEF Loaded
    <3> QED
      BY <3>1
  <2>2. CASE Created
    <3>1. CASE queue = [g \in Gens |-> <<>>]
      <4>1. queue = [g \in Gens |-> IF g = 1 THEN <<>> ELSE <<>>]
        BY <3>1
      <4> QED
        BY <4>1
    <3>2. CASE \E t \in Turns : queue = [g \in Gens |-> IF g = 1 THEN <<TurnOf(t)>> ELSE <<>>]
      BY <2>2, <3>2 DEF Created
    <3> QED
      BY <2>2, <3>1, <3>2 DEF Created
  <2> QED
    BY <2>1, <2>2 DEF Init
<1>3. /\ \A g \in Gens : /\ worker[g] \in {"fresh", "none"} /\ ~batch[g] /\ item[g] = NoItem
                         /\ ~closed[g] /\ (idle[g] <=> queue[g] = <<>>)
      /\ fate = [i \in Ids |-> IF i \in IdsIn(queue[1]) THEN "queued" ELSE "new"]
      /\ daemon = "up" /\ launched \in {0, 1}
  BY DEF Init, Created, Loaded
<1>4. {"fresh", "none"} \cap (Holding \cup Running \cup Settled \cup TurnPhases \cup {"locking"}) = {}
  BY PhaseFacts DEF Holding
<1>5. /\ first \in Seq(Things) /\ Len(first) \in {0, 1}
      /\ first # <<>> => \E t \in Ids : Len(first) = 1 /\ first[1] = TurnOf(t) /\ first[1].ids = {t}
  <2>1. CASE first = <<>>
    BY <2>1
  <2>2. CASE \E t \in Turns : first = <<TurnOf(t)>>
    <3>1. PICK t \in Turns : first = <<TurnOf(t)>>
      BY <2>2
    <3>2. t \in Ids /\ TurnOf(t) \in Things /\ TurnOf(t).ids = {t}
      BY ThingFacts DEF Ids
    <3> QED
      BY <3>1, <3>2
  <2> QED
    BY <1>2, <2>1, <2>2
<1>6. ASSUME NEW g \in Gens PROVE Held(g) /\ RunsAt(g)
  <2>1. queue[g] = IF g = 1 THEN first ELSE <<>>
    BY <1>2
  <2>2. queue[g] \in Seq(Things) /\ (g > launched => queue[g] = <<>>)
    BY <1>1, <1>2, <1>3, <1>5, <2>1
  <2> QED
    BY <1>3, <1>4, <2>2 DEF Held, LastIsBatch, RunsAt
<1>7. /\ \A g \in Gens, n \in Nat : At(g, n) = IF g = 1 /\ n = 1 /\ first # <<>> THEN first[1].ids ELSE {}
      /\ IdsIn(queue[1]) = IF first # <<>> THEN first[1].ids ELSE {}
  <2>1. 1..Len(first) = IF first = <<>> THEN {} ELSE {1}
    BY <1>5
  <2>2. \A g \in Gens : queue[g] = IF g = 1 THEN first ELSE <<>>
    BY <1>2
  <2>3. ASSUME NEW g \in Gens, NEW n \in Nat
        PROVE  At(g, n) = IF g = 1 /\ n = 1 /\ first # <<>> THEN first[1].ids ELSE {}
    BY <1>3, <2>1, <2>2 DEF At
  <2>4. IdsIn(queue[1]) = IF first # <<>> THEN first[1].ids ELSE {}
    BY <1>1, <2>1, <2>2 DEF IdsIn
  <2> QED
    BY <2>3, <2>4
<1>8. first # <<>> => first[1].ids \subseteq Ids
  BY <1>5
<1>9. Waits
  BY <1>1, <1>3, <1>7, <1>8 DEF Waits
<1>10. \A i \in Ids : fate[i] # "running"
  BY <1>3
<1> QED
  BY <1>3, <1>6, <1>9, <1>10 DEF Accounts, Runs, Swept

----------------------------------------------------------------------------
(* A step, as what it makes of the inputs                                  *)

(* An input arrives, a turn begins or ends, inputs are dropped, or a       *)
(* generation is taken down with its turn.                                 *)
FateStep ==
  \/ fate' = fate
  \/ \E t \in Ids : fate[t] = "new" /\ fate' = Fated({t}, "queued")
  \/ \E S \in SUBSET Ids : /\ S # {} /\ \A i \in S : fate[i] = "queued"
                           /\ \A i \in Ids : fate[i] # "running"
                           /\ fate' = Fated(S, "running")
  \/ \E o \in Outcomes : fate' = Fated({i \in Ids : fate[i] = "running"}, o)
  \/ \E S \in SUBSET Ids : /\ \A i \in S : fate[i] = "queued"
                           /\ fate' = Fated(S, "lost")
  \/ \E S \in SUBSET Ids, o \in {"interrupted", "lost"} :
        /\ \A i \in S : fate[i] = "queued"
        /\ fate' = [i \in Ids |-> IF i \in S THEN "lost"
                                  ELSE IF fate[i] = "running" THEN o ELSE fate[i]]

TurnsStay ==
  \A t \in Turns : fate[t] = "queued" /\ fate'[t] = "lost" =>
     \/ daemon \notin {"up", "stopping"} \/ daemon' # daemon
     \/ \E g \in Gens : worker[g] = "draining" /\ worker'[g] = "closing"

LEMMA SameFate == ASSUME fate' = fate PROVE FateStep /\ TurnsStay
BY DEF FateStep, TurnsStay

LEMMA NewFate ==
  ASSUME NEW t \in Ids, fate[t] = "new", fate' = Fated({t}, "queued")
  PROVE  FateStep /\ TurnsStay
<1>1. TurnsStay
  BY DEF TurnsStay, Fated, Ids
<1> QED
  BY <1>1 DEF FateStep

LEMMA BegunFate ==
  ASSUME NEW S \in SUBSET Ids, S # {}, \A i \in S : fate[i] = "queued",
         \A i \in Ids : fate[i] # "running", fate' = Fated(S, "running")
  PROVE  FateStep /\ TurnsStay
<1>1. TurnsStay
  BY DEF TurnsStay, Fated, Ids
<1> QED
  BY <1>1 DEF FateStep

(* The running inputs are those of the one turn that runs.                 *)
LEMMA RunningIs ==
  ASSUME Base, NEW g \in Gens, worker[g] \in Running
  PROVE  item[g].ids = {i \in Ids : fate[i] = "running"}
<1> USE DEF Base, Accounts
<1>1. \A h \in Gens : worker[h] \in Running => h = g
  BY PhaseFacts DEF LockHeldByTurn
<1>2. \A i \in item[g].ids : i \in Ids /\ fate[i] = "running"
  BY ThingFacts, PhaseFacts DEF Held, Runs, RunsAt
<1>3. \A i \in Ids : fate[i] = "running" => i \in item[g].ids
  BY <1>1 DEF Runs
<1> QED
  BY <1>2, <1>3

LEMMA EndedFate ==
  ASSUME Base, NEW g \in Gens, worker[g] \in Running, NEW o \in Outcomes,
         fate' = Fated(item[g].ids, o)
  PROVE  FateStep /\ TurnsStay
<1>1. item[g].ids = {i \in Ids : fate[i] = "running"}
  BY RunningIs
<1>2. TurnsStay
  BY <1>1 DEF TurnsStay, Fated, Ids
<1> QED
  BY <1>1, <1>2 DEF FateStep

(* What a queue or the hands of a waiting worker hold is queued.           *)
LEMMA QueuedIs ==
  ASSUME Base, NEW g \in Gens
  PROVE  /\ IdsIn(queue[g]) \subseteq Ids /\ \A i \in IdsIn(queue[g]) : fate[i] = "queued"
         /\ queue[g] # <<>> => /\ Head(queue[g]).ids \subseteq Ids
                               /\ \A i \in Head(queue[g]).ids : fate[i] = "queued"
         /\ worker[g] = "locking" => /\ item[g].ids \subseteq Ids /\ item[g].ids # {}
                                     /\ \A i \in item[g].ids : fate[i] = "queued"
<1> USE DEF Base, Accounts
<1>1. \A n \in Nat : \A i \in At(g, n) : i \in Ids /\ fate[i] = "queued"
  BY DEF Waits
<1>2. \A i \in IdsIn(queue[g]) : \E n \in Nat : i \in At(g, n)
  BY DEF IdsIn, At
<1>3. queue[g] # <<>> => Head(queue[g]).ids \subseteq At(g, 1)
  <2>1. queue[g] \in Seq(Things)
    BY DEF Held
  <2> QED
    BY <2>1 DEF At
<1>4. worker[g] = "locking" => item[g].ids = At(g, 0) /\ item[g].ids # {}
  BY ThingFacts, PhaseFacts DEF Held, At
<1> QED
  BY <1>1, <1>2, <1>3, <1>4

LEMMA LostFate ==
  ASSUME NEW S \in SUBSET Ids, \A i \in S : fate[i] = "queued", fate' = Fated(S, "lost"),
         \/ daemon \notin {"up", "stopping"} \/ daemon' # daemon
         \/ \E g \in Gens : worker[g] = "draining" /\ worker'[g] = "closing"
         \/ S \cap Turns = {}
  PROVE  FateStep /\ TurnsStay
<1>1. TurnsStay
  BY DEF TurnsStay, Fated, Ids
<1> QED
  BY <1>1 DEF FateStep

(* Taking a generation down: what waits in T is lost, what it holds is cut *)
(* short.                                                                  *)
LEMMA CancelFate ==
  ASSUME Base, NEW g \in Gens, CancelWorker(g), NEW T \in {{}, IdsIn(queue[g])},
         fate' = [i \in Ids |-> IF i \in T THEN "lost" ELSE CutShort(g)[i]],
         daemon' # daemon
  PROVE  FateStep /\ TurnsStay
<1>1. TurnsStay
  BY DEF TurnsStay
<1>2. T \subseteq Ids /\ \A i \in T : fate[i] = "queued"
  BY QueuedIs
<1>3. fate \in [Ids -> Fates]
  BY DEF Base, GenInv, TypeOK
<1>4. CASE worker[g] \in Running
  <2>1. item[g].ids = {i \in Ids : fate[i] = "running"}
    BY <1>4, RunningIs
  <2>2. PICK o \in {"interrupted", "lost"} : CutShort(g) = Fated(item[g].ids, o)
    BY <1>4 DEF CutShort, Running
  <2>3. fate' = [i \in Ids |-> IF i \in T THEN "lost"
                               ELSE IF fate[i] = "running" THEN o ELSE fate[i]]
    BY <2>1, <2>2 DEF Fated
  <2> QED
    BY <1>1, <1>2, <2>3 DEF FateStep
<1>5. CASE worker[g] = "locking"
  <2>1. item[g].ids \subseteq Ids /\ \A i \in item[g].ids : fate[i] = "queued"
    BY <1>5, QueuedIs
  <2>2. CutShort(g) = Fated(item[g].ids, "lost")
    BY <1>5 DEF CutShort
  <2>3. fate' = Fated(T \cup item[g].ids, "lost")
    BY <2>2 DEF Fated
  <2>4. T \cup item[g].ids \in SUBSET Ids /\ \A i \in T \cup item[g].ids : fate[i] = "queued"
    BY <1>2, <2>1
  <2> QED
    BY <1>1, <2>3, <2>4 DEF FateStep
<1>6. CASE worker[g] \notin Running /\ worker[g] # "locking"
  <2>1. CutShort(g) = fate
    BY <1>6 DEF CutShort, Running
  <2>2. fate' = Fated(T, "lost")
    BY <2>1 DEF Fated
  <2> QED
    BY <1>1, <1>2, <2>2 DEF FateStep
<1> QED
  BY <1>4, <1>5, <1>6

LEMMA EndFate == ASSUME Base, ProcessEnds PROVE FateStep /\ TurnsStay
<1>1. TurnsStay
  BY DEF TurnsStay, ProcessEnds
<1> DEFINE S == {i \in Ids : fate[i] = "queued"}
<1>2. S \in SUBSET Ids /\ \A i \in S : fate[i] = "queued"
  OBVIOUS
<1>3. fate' = [i \in Ids |-> IF i \in S THEN "lost"
                             ELSE IF fate[i] = "running" THEN "interrupted" ELSE fate[i]]
  BY DEF ProcessEnds
<1> QED
  BY <1>1, <1>2, <1>3 DEF FateStep

(* Each step keeps the account of the inputs.                              *)
LEMMA AccountsStep ==
  ASSUME Base, [Next]_vars PROVE Accounts' /\ FateStep /\ TurnsStay
<1> DEFINE Good == Accounts' /\ FateStep /\ TurnsStay
<1> USE DEF ledger, registry, runtime, host
<1>0. TypeOK /\ Generations /\ OneAlive /\ \A g \in Gens : Held(g)
  BY DEF Base, Accounts, GenInv
<1>1. ASSUME UNCHANGED <<queue, item, worker, batch, closed, idle, fate, launched>>,
             current' \in {current, 0}
      PROVE  Good
  BY <1>1, Still, SameFate
<1>2. ASSUME NEW t \in Ids, fate[t] = "new", Resume(<<TurnOf(t)>>) PROVE Good
  <2>1. Accounts'
    BY <1>2, ResumeMoves
  <2>2. IdsIn(<<TurnOf(t)>>) = {t}
    BY DEF IdsIn, TurnOf
  <2>3. fate' = Fated({t}, "queued") \/ fate' = fate
    BY <1>2, <2>2 DEF Resume, Launch
  <2> QED
    BY <1>2, <2>1, <2>3, NewFate, SameFate
<1>3. ASSUME Resume(<<>>) PROVE Good
  <2>1. Accounts'
    BY <1>3, ResumeMoves
  <2>2. IdsIn(<<>>) = {}
    BY DEF IdsIn
  <2>3. fate' = Fated({}, "queued") \/ fate' = fate
    BY <1>3, <2>2 DEF Resume, Launch
  <2>4. fate' = fate
    BY <1>0, <2>3 DEF Fated, TypeOK
  <2> QED
    BY <2>1, <2>4, SameFate
(* A worker moves on with what it holds. *)
<1>4. ASSUME NEW g \in Gens, NEW p \in Phases, worker' = [worker EXCEPT ![g] = p],
             UNCHANGED <<queue, item, batch, closed, launched, fate>>, current' \in {current, 0},
             p \in Holding <=> worker[g] \in Holding, p = "locking" <=> worker[g] = "locking",
             p \in Running <=> worker[g] \in Running, p \in Open => worker[g] \in Open,
             UNCHANGED idle \/ (idle' = [idle EXCEPT ![g] = TRUE] /\ p \notin Open \cup Holding)
      PROVE  Good
  <2>1. p \in TurnPhases <=> worker[g] \in TurnPhases
    BY <1>4, PhaseFacts DEF Holding
  <2>2. \A h \in Gens : h # g => idle'[h] = idle[h]
    BY <1>0, <1>4 DEF TypeOK
  <2>3. idle'[g] => /\ p \notin TurnPhases
                    /\ p \in Open => \A n \in 1..Len(queue[g]) : queue[g][n].ids = {}
    BY <1>0, <1>4, <2>1 DEF Held, Holding
  <2>4. Accounts'
    BY <1>4, <2>2, <2>3, PhaseMoves
  <2> QED
    BY <1>4, <2>4, SameFate
<1>5. ASSUME NEW g \in Gens, Exit(g), worker[g] \notin Holding,
             UNCHANGED <<queue, item, batch, closed, launched, fate, idle>>
      PROVE  Good
  <2>1. /\ "draining" \in Phases /\ "draining" \notin Holding \cup Open \cup Running
        /\ worker[g] # "locking" /\ worker[g] \notin Running
    BY <1>5, Values, PhaseFacts
  <2> QED
    BY <1>4, <1>5, <2>1 DEF Exit
<1>6. ASSUME NEW g \in Gens, AskAgent(g), current' = current,
             UNCHANGED <<queue, item, batch, closed, launched, fate, idle>>
      PROVE  Good
  <2>1. CASE worker[g] # "prompting"
    BY <1>1, <1>6, <2>1 DEF AskAgent
  <2>2. CASE worker[g] = "prompting"
    <3>1. /\ {"prompting", "cancelling"} \subseteq Holding \cap Running \cap Phases
          /\ "cancelling" \notin Open
      BY Values DEF Holding, Running, TurnPhases, Open, LoopPhases
    <3> QED
      BY <1>4, <1>6, <2>2, <3>1 DEF AskAgent
  <2> QED
    BY <2>1, <2>2
<1>7. Accepts(current) => /\ current \in Gens /\ current <= launched /\ ~closed[current]
  BY <1>0, GensAre DEF Accepts, TypeOK, Generations
<1>8. ASSUME NEW s, Accepts(current), RequestTermination(current, s),
             worker' = worker \/ AskAgent(current), UNCHANGED <<item, closed, idle, current, launched>>
      PROVE  Good
  <2>1. Accounts' /\ \E S \in SUBSET Blocks : fate' = Fated(S, "lost") /\ \A i \in S : fate[i] = "queued"
    BY <1>7, <1>8, StopMoves
  <2>2. \A S \in SUBSET Blocks : S \in SUBSET Ids /\ S \cap Turns = {}
    BY SessionAssumption DEF Ids
  <2> QED
    BY <2>1, <2>2, LostFate
<1>9. ASSUME NEW t \in Turns, Reply(t) PROVE Good
  <2>1. t \in Ids /\ fate[t] = "new"
    BY <1>9 DEF Reply, Ids
  <2>2. CASE /\ Accepts(current) /\ Enqueue(current, t)
             /\ UNCHANGED <<current, launched, worker, item, closed>>
    <3>1. Accounts' /\ fate' = Fated({t}, "queued")
      BY <1>7, <2>1, <2>2, EnqueueMoves DEF Enqueue
    <3> QED
      BY <2>1, <3>1, NewFate
  <2> QED
    BY <1>2, <1>9, <2>1, <2>2 DEF Reply
<1>10. ASSUME NEW R \in SUBSET Turns, Cancel(R) PROVE Good
  <2>1. /\ current \in Gens /\ current # 0 /\ worker[current] \in TurnPhases /\ AskAgent(current)
        /\ UNCHANGED <<current, launched, item, closed>>
    BY <1>0, <1>10, GensAre DEF Cancel, TypeOK
  <2>2. CASE R = {}
    BY <1>6, <1>10, <2>1, <2>2 DEF Cancel
  <2>3. ASSUME NEW t \in R, Enqueue(current, t), fate[t] = "new" PROVE Good
    <3>1. t \in Ids
      BY DEF Ids
    <3>2. ~closed[current]
      BY <1>10, <2>1, GensAre, LiveFacts DEF Cancel, Serving, Base, Attended, Swept
    <3>3. current <= launched
      BY <1>0 DEF Generations, TypeOK
    <3>4. Accounts' /\ fate' = Fated({t}, "queued")
      BY <2>1, <2>3, <3>1, <3>2, <3>3, EnqueueMoves DEF Enqueue
    <3> QED
      BY <2>3, <3>1, <3>4, NewFate
  <2> QED
    BY <1>10, <2>2, <2>3 DEF Cancel
<1>11. CASE Stop
  BY <1>1, <1>8, <1>11 DEF Stop
<1>12. CASE MarkDone
  BY <1>1, <1>8, <1>12 DEF MarkDone
<1>13. CASE ResumeTask
  BY <1>3, <1>13 DEF ResumeTask
<1>14. CASE Clear
  BY <1>1, <1>14 DEF Clear
<1>15. ASSUME NEW b \in Blocks, BgResult(b) PROVE Good
  <2>1. b \in Ids /\ fate[b] = "new"
    BY <1>15 DEF BgResult, Ids
  <2>2. CASE /\ Accepts(current) /\ AddBlock(current, b)
             /\ UNCHANGED <<current, launched, worker, closed>>
    <3>1. Accounts' /\ fate' = Fated({b}, "queued")
      BY <1>7, <2>1, <2>2, AddBlockMoves DEF AddBlock
    <3> QED
      BY <2>1, <3>1, NewFate
  <2> QED
    BY <1>2, <1>15, <2>1, <2>2 DEF BgResult
<1>16. ASSUME NEW g \in Gens, Worker(g) PROVE Good
  <2>1. CASE Begin(g)
    <3>1. /\ "starting" \in Phases /\ "starting" \notin Holding \cup Running
          /\ {"starting", "fresh"} \subseteq Open /\ "fresh" \notin Holding \cup Running
      BY Values, PhaseFacts DEF Holding, Open
    <3> QED
      BY <1>4, <2>1, <3>1 DEF Begin
  <2>2. CASE StartOk(g) \/ StartFail(g)
    <3>1. /\ {"started", "startFailed"} \subseteq Phases
          /\ {"starting", "started", "startFailed"} \cap (Holding \cup Running) = {}
          /\ "starting" \in Open
      BY Values, PhaseFacts DEF Holding, Open
    <3> QED
      BY <1>4, <1>5, <2>2, <3>1 DEF StartOk, StartFail
  <2>3. CASE Announced(g)
    <3>1. PICK p \in {"wait", "ready", "draining"} :
            worker' = [worker EXCEPT ![g] = p] /\ current' \in {current, 0}
      BY <2>3 DEF Announced, LoopTop, Exit
    <3>2. /\ p \in Phases /\ p \notin Holding \cup Running /\ p # "locking" /\ p \notin TurnPhases
          /\ worker[g] \notin Holding \cup Running /\ worker[g] # "locking" /\ worker[g] \in Open
      BY <2>3, <3>1, Values, PhaseFacts DEF Announced, Holding, Open
    <3>3. /\ \A h \in Gens : h # g => idle'[h] = idle[h]
          /\ idle'[g] => idle[g] \/ queue[g] = <<>>
      BY <1>0, <2>3 DEF Announced, TypeOK
    <3>4. idle'[g] => \A n \in 1..Len(queue[g]) : queue[g][n].ids = {}
      <4>1. CASE idle[g]
        BY <1>0, <3>2, <4>1 DEF Held
      <4>2. CASE queue[g] = <<>>
        BY <4>2
      <4> QED
        BY <3>3, <4>1, <4>2
    <3>5. UNCHANGED <<queue, item, batch, closed, launched, fate>>
      BY <2>3 DEF Announced
    <3>6. Accounts'
      BY <3>1, <3>2, <3>3, <3>4, <3>5, PhaseMoves
    <3> QED
      BY <3>5, <3>6, SameFate
  <2>4. ASSUME NEW i, NEW q, BeginTurn(g, i, q), LockFree, i.ids \subseteq Ids, i.ids # {},
               \A j \in i.ids : fate[j] = "queued"
        PROVE  FateStep /\ TurnsStay
    BY <2>4, NoneRuns, BegunFate DEF BeginTurn
  <2>5. CASE Take(g)
    <3> DEFINE x == Head(queue[g])
    <3>1. /\ worker[g] \in {"ready", "wait"} /\ queue[g] # <<>> /\ queue' = [queue EXCEPT ![g] = Tail(@)]
          /\ UNCHANGED <<launched, closed, daemon>>
      BY <2>5 DEF Take
    <3>2. x \in Things /\ x.ids \subseteq Ids /\ \A j \in x.ids : fate[j] = "queued"
      BY <3>1, Taken, QueuedIs
    <3>3. /\ {"draining", "terminating"} \subseteq Phases \ (Holding \cup Open)
          /\ worker[g] \in LivePhases
      BY <3>1, Values, PhaseFacts, LiveFacts
    <3>4. CASE /\ current # g /\ Exit(g) /\ fate' = Fated(x.ids, "lost")
               /\ UNCHANGED <<batch, item, idle>>
      <4>1. worker' = [worker EXCEPT ![g] = "draining"] /\ UNCHANGED current
        BY <3>4 DEF Exit
      <4>2. Accounts'
        BY <3>1, <3>3, <3>4, <4>1, DropMoves
      <4>3. daemon \notin {"up", "stopping"}
        BY <1>0, <3>3, <3>4 DEF OneAlive
      <4> QED
        BY <3>2, <3>4, <4>2, <4>3, LostFate
    <3>5. CASE /\ x = End /\ idle' = [idle EXCEPT ![g] = TRUE]
               /\ worker' = [worker EXCEPT ![g] = "terminating"]
               /\ UNCHANGED <<current, batch, item, fate>>
      <4>1. x.ids = {} /\ x.kind # "batch"
        BY <3>5 DEF End
      <4>2. fate' = Fated(x.ids, "lost")
        BY <1>0, <3>5, <4>1 DEF Fated, TypeOK
      <4>3. \A h \in Gens : h # g => idle'[h] = idle[h]
        BY <1>0, <3>5 DEF TypeOK
      <4>4. Accounts'
        BY <3>1, <3>3, <3>5, <4>1, <4>2, <4>3, DropMoves
      <4> QED
        BY <3>5, <4>4, SameFate
    <3>6. CASE x # End /\ LockFree /\ BeginTurn(g, x, Tail(queue[g])) /\ UNCHANGED current
      <4>1. Accounts'
        BY <3>1, <3>6, TakeBegins
      <4>2. x.ids # {}
        BY <3>2, <3>6, ThingFacts
      <4> HIDE DEF x
      <4> QED
        BY <2>4, <3>2, <3>6, <4>1, <4>2
    <3>7. CASE /\ x # End /\ item' = [item EXCEPT ![g] = x]
               /\ worker' = [worker EXCEPT ![g] = "locking"]
               /\ UNCHANGED <<current, batch, idle, fate>>
      BY <3>1, <3>7, LockingMoves, SameFate
    <3> QED
      BY <2>5, <3>4, <3>5, <3>6, <3>7 DEF Take
  <2>6. CASE Acquire(g)
    <3>1. worker[g] = "locking" /\ LockFree /\ UNCHANGED <<queue, closed, launched>>
      BY <2>6 DEF Acquire
    <3>2. item[g].ids \subseteq Ids /\ item[g].ids # {} /\ \A j \in item[g].ids : fate[j] = "queued"
      BY <3>1, QueuedIs
    <3>3. CASE BeginTurn(g, item[g], queue[g]) /\ UNCHANGED current
      <4>1. Accounts'
        BY <3>1, <3>3, AcquireBegins
      <4> QED
        BY <2>4, <3>1, <3>2, <3>3, <4>1
    <3>4. CASE /\ current # g /\ Exit(g) /\ item' = [item EXCEPT ![g] = NoItem]
               /\ fate' = Fated(item[g].ids, "lost") /\ UNCHANGED <<batch, idle>>
      <4>1. Accounts'
        BY <3>1, <3>4, AcquireStaleMoves
      <4>2. daemon \notin {"up", "stopping"}
        BY <1>0, <3>1, <3>4, LiveFacts DEF OneAlive
      <4> QED
        BY <3>2, <3>4, <4>1, <4>2, LostFate
    <3> QED
      BY <2>6, <3>3, <3>4 DEF Acquire
  <2>7. CASE IdleExpires(g) \/ Noticed(g)
    <3>1. /\ {"startFailed", "terminating", "suspending", "wait"} \cap (Holding \cup Running) = {}
          /\ "suspending" \in Phases /\ "suspending" \notin Open
      BY Values, PhaseFacts DEF Holding
    <3> QED
      BY <1>4, <1>5, <2>7, <3>1 DEF IdleExpires, Noticed
  <2>8. CASE Prepare(g) \/ Prompt(g)
    <3>1. /\ {"mirroring", "opening", "prompting"} \subseteq Holding \cap Running \cap Phases
          /\ {"opening", "prompting"} \cap Open = {}
      BY Values DEF Holding, Running, TurnPhases, Open, LoopPhases
    <3> QED
      BY <1>4, <2>8, <3>1 DEF Prepare, Prompt
  <2>9. ASSUME worker[g] \in Running, NEW p \in Settled, worker' = [worker EXCEPT ![g] = p],
               NEW o \in Outcomes, fate' = Fated(item[g].ids, o),
               UNCHANGED <<queue, item, batch, closed, launched, current, idle>>
        PROVE  Good
    <3>1. /\ p \in Phases /\ p \in Holding /\ worker[g] \in Holding /\ worker[g] \in TurnPhases
          /\ p # "locking" /\ worker[g] # "locking"
      BY <2>9, PhaseFacts DEF Phases, LivePhases
    <3>2. ~idle[g]
      BY <1>0, <3>1 DEF Held
    <3>3. Accounts'
      BY <2>9, <3>1, <3>2, PhaseMoves
    <3> QED
      BY <2>9, <3>3, EndedFate
  <2>10. {"settling", "unwinding"} \subseteq Settled /\ {"prompting", "cancelling", "failing"} \subseteq Running
         /\ {"completed", "cancelled", "interrupted", "failed"} \subseteq Outcomes
    BY DEF Settled, Running, Outcomes
  <2>11. ASSUME NEW s \in {"completed", "cancelled"}, Answer(g, s) PROVE Good
    BY <2>9, <2>10, <2>11 DEF Answer
  <2>12. CASE PromptFails(g)
    <3>1. "failing" \in Holding \cap Running \cap Phases /\ "failing" \notin Open
          /\ worker[g] \in Holding \cap Running /\ worker[g] # "locking"
      BY <2>12, Values DEF PromptFails, Holding, Running, TurnPhases, Open, LoopPhases
    <3> QED
      BY <1>4, <2>9, <2>10, <2>12, <3>1 DEF PromptFails
  <2>13. CASE FailureTold(g)
    BY <2>9, <2>10, <2>13 DEF FailureTold
  <2>14. CASE EndTurn(g)
    <3>1. Accounts' /\ fate' = fate
      BY <2>14, EndTurnMoves DEF EndTurn
    <3> QED
      BY <3>1, SameFate
  <2>15. CASE Close(g)
    <3>1. Accounts'
      BY <2>15, CloseMoves
    <3>2. CASE closed[g]
      BY <2>15, <3>1, <3>2, SameFate DEF Close
    <3>3. CASE ~closed[g]
      <4>1. /\ worker[g] = "draining" /\ worker'[g] = "closing"
            /\ fate' = Fated(IdsIn(queue[g]), "lost")
        BY <1>0, <2>15, <3>3 DEF Close, TypeOK
      <4> QED
        BY <3>1, <4>1, QueuedIs, LostFate
    <3> QED
      BY <3>2, <3>3
  <2>16. CASE AgentClosed(g)
    <3>1. /\ "dead" \in Phases /\ {"closing", "dead"} \cap (Holding \cup Running \cup Open) = {}
      BY Values, PhaseFacts DEF Holding
    <3> QED
      BY <1>4, <2>16, <3>1 DEF AgentClosed
  <2> QED
    BY <1>16, <2>1, <2>2, <2>3, <2>5, <2>6, <2>7, <2>8, <2>11, <2>12, <2>13, <2>14, <2>15, <2>16
       DEF Worker
<1>17. CASE BeginShutdown \/ Sweep \/ Restart
  BY <1>1, <1>17 DEF BeginShutdown, Sweep, Restart
<1>18. CASE SuspendAll
  <2>1. CASE current = 0
    BY <1>1, <1>18, <2>1 DEF SuspendAll
  <2>2. CASE current # 0
    <3>1. PICK g \in Gens : g = current
      BY <1>0, <2>2, GensAre DEF TypeOK
    <3>2. /\ CancelWorker(g) /\ fate' = CutShort(g) /\ current' \in {current, 0}
          /\ current' = g => worker[g] # "locking"
          /\ UNCHANGED <<launched, idle, queue, batch, closed>> /\ daemon' # daemon
      BY <1>18, <2>2, <3>1, GensAre, PhaseFacts DEF SuspendAll
    <3>3. Accounts'
      BY <3>2, CancelMoves
    <3>4. fate' = [i \in Ids |-> IF i \in {} THEN "lost" ELSE CutShort(g)[i]]
      <4>1. CutShort(g) \in [Ids -> Fates]
        BY <3>2, Cancelled
      <4> QED
        BY <3>2, <4>1
    <3> QED
      BY <3>2, <3>3, <3>4, CancelFate
  <2> QED
    BY <2>1, <2>2
<1>19. CASE SweepClose
  <2>1. PICK g \in Gens : g = target
    BY <1>0, <1>19, GensAre DEF SweepClose, Base, Swept, TypeOK
  <2>2. CASE closed[target]
    BY <1>1, <1>19, <2>2 DEF SweepClose
  <2>3. CASE ~closed[target]
    <3>1. /\ CancelWorker(g)
          /\ fate' = [i \in Ids |-> IF i \in IdsIn(queue[g]) THEN "lost" ELSE CutShort(g)[i]]
          /\ queue' = [queue EXCEPT ![g] = <<>>]
          /\ batch' = [batch EXCEPT ![g] = FALSE]
          /\ closed' = [closed EXCEPT ![g] = TRUE]
          /\ UNCHANGED <<current, launched, idle>> /\ daemon' # daemon
      BY <1>19, <2>1, <2>3 DEF SweepClose
    <3>2. current' # g
      BY <1>19, <2>1, <3>1 DEF SweepClose, Base, Swept
    <3>3. Accounts'
      BY <3>1, <3>2, CancelMoves
    <3> QED
      BY <3>1, <3>3, CancelFate
  <2> QED
    BY <2>2, <2>3
<1>20. CASE SweepDone
  <2>1. PICK g \in Gens : g = target
    BY <1>0, <1>20, GensAre DEF SweepDone, Base, Swept, TypeOK
  <2>2. /\ worker[g] = "dead" /\ worker' = [worker EXCEPT ![g] = "dead"]
        /\ idle' = [idle EXCEPT ![g] = TRUE]
        /\ UNCHANGED <<queue, item, batch, closed, launched, fate, current>>
    BY <1>0, <1>20, <2>1 DEF SweepDone, TypeOK
  <2>3. "dead" \in Phases /\ "dead" \notin Holding \cup Open
    BY Values, PhaseFacts
  <2> QED
    BY <1>4, <2>2, <2>3
<1>21. CASE ProcessEnds
  BY <1>21, EndMoves, EndFate
<1>22. CASE UNCHANGED vars
  BY <1>1, <1>22 DEF vars
<1> QED
  BY <1>9, <1>10, <1>11, <1>12, <1>13, <1>14, <1>15, <1>16, <1>17, <1>18, <1>19, <1>20,
     <1>21, <1>22 DEF Next, External, Lifecycle

----------------------------------------------------------------------------
(* The theorems                                                            *)

(* The turns of a Session exclude one another for any number of            *)
(* generations, whatever the shutdown does to the registry.                *)
THEOREM TurnsExclude == Spec => []TurnsExclusive
<1>1. Init => LockHeldByTurn
  BY GensAre DEF Init, LockHeldByTurn, TurnPhases
<1>2. LockHeldByTurn => TurnsExclusive
  BY DEF LockHeldByTurn, TurnsExclusive
<1> QED
  BY <1>1, <1>2, GenInit, GenStep, LockStep, TypeCorrect, PTL DEF Spec, GenInv

(* While the daemon serves, exactly the registered generation is alive.    *)
THEOREM OneLives == Spec => []OneLiveGeneration
<1>1. OneAlive => OneLiveGeneration
  BY DEF OneAlive, OneLiveGeneration
<1> QED
  BY <1>1, GenInit, GenStep, TypeCorrect, PTL DEF Spec, GenInv

(* While the daemon serves, the ledger's status follows the worker.        *)
THEOREM LedgerTracks == Spec => []LedgerTracksWorker
<1>1. Init => LedgerTracksWorker
  <2>1. Init /\ current # 0 => worker[current] = "fresh"
    BY SessionAssumption DEF Init, Created, Loaded, Gens
  <2> QED
    BY <2>1 DEF LedgerTracksWorker, LoopPhases
<1> QED
  BY <1>1, GenInit, GenStep, LedgerStep, TypeCorrect, PTL DEF Spec, GenInv

(* Of the generations of a Session at most one acts for it, also while the *)
(* shutdown and late messages replace one by another.                      *)
THEOREM OneActs == Spec => []OneGenerationActs
<1>1. TurnsExclusive /\ OneLiveGeneration => OneGenerationActs
  BY DEF OneGenerationActs
<1> QED
  BY <1>1, TurnsExclude, OneLives, PTL

(* Whatever ends a Session, and in whatever order a shutdown meets the end *)
(* of a worker and a late launch, no agent process is left without somebody*)
(* who closes it (AcpSessionRuntime.close, _shutdown).                     *)
THEOREM NobodyOrphaned == Spec => []NoOrphanAgent
<1>1. Init => Attended /\ NoOrphanAgent
  BY LiveFacts, SessionAssumption DEF Init, Created, Loaded, Attended, NoOrphanAgent, Gens
<1> QED
  BY <1>1, GenInit, GenStep, OrphanStep, TypeCorrect, PTL DEF Spec, GenInv

(* Where an input is, in the words of the account.                         *)
LEMMA PlacesAre ==
  ASSUME Base, NEW i \in Ids
  PROVE  /\ \A p \in Places(i) : \E h \in Gens, m \in Nat :
               /\ p = <<h, m>>
               /\ \/ i \in At(h, m)
                  \/ m = 0 /\ worker[h] \in TurnPhases /\ i \in item[h].ids
         /\ \A h \in Gens, m \in Nat : i \in At(h, m) => <<h, m>> \in Places(i)
         /\ \A h \in Gens : i \in item[h].ids => <<h, 0>> \in Places(i)
<1> USE DEF Base, Accounts
<1>1. \A g \in Gens : i \in item[g].ids => worker[g] \in TurnPhases \/ i \in At(g, 0)
  BY ThingFacts DEF Held, Holding, At
<1>2. ASSUME NEW p \in Places(i)
      PROVE  \E h \in Gens, m \in Nat :
               /\ p = <<h, m>>
               /\ \/ i \in At(h, m)
                  \/ m = 0 /\ worker[h] \in TurnPhases /\ i \in item[h].ids
  <2>1. CASE \E h \in Gens : i \in item[h].ids /\ p = <<h, 0>>
    BY <1>1, <2>1
  <2>2. ASSUME NEW h \in Gens, NEW m \in 1..Len(queue[h]), i \in queue[h][m].ids, p = <<h, m>>
        PROVE  m \in Nat /\ i \in At(h, m)
    <3>1. Len(queue[h]) \in Nat
      BY DEF Held
    <3> QED
      BY <2>2, <3>1 DEF At
  <2> QED
    BY <2>1, <2>2 DEF Places
<1>3. ASSUME NEW h \in Gens, NEW m \in Nat, i \in At(h, m) PROVE <<h, m>> \in Places(i)
  <2>1. CASE m = 0
    BY <1>3, <2>1 DEF At, Places
  <2>2. CASE m # 0
    BY <1>3, <2>2 DEF At, Places
  <2> QED
    BY <2>1, <2>2
<1>4. \A h \in Gens : i \in item[h].ids => <<h, 0>> \in Places(i)
  BY DEF Places
<1> QED
  BY <1>2, <1>3, <1>4

LEMMA AccountsAre == Base => EveryInputAccounted
<1> SUFFICES ASSUME Base PROVE EveryInputAccounted
  OBVIOUS
<1> USE DEF Base, Accounts
<1>1. WaitIdleIsHonest
  BY DEF WaitIdleIsHonest, Held, IdsIn, Open
<1>2. /\ \A g \in Gens, n \in Nat : \A i \in At(g, n) : i \in Ids /\ fate[i] = "queued"
      /\ \A g, h \in Gens, n, m \in Nat : \A i \in At(g, n) : i \in At(h, m) => g = h /\ n = m
  BY DEF Waits
<1>3. \A g \in Gens : \A i \in item[g].ids :
         /\ i \in Ids /\ worker[g] \in {"locking"} \cup Running \cup Settled
         /\ worker[g] = "locking" => fate[i] = "queued"
         /\ worker[g] \in Running => fate[i] = "running"
         /\ worker[g] \in Settled => fate[i] \in Outcomes
  <2> SUFFICES ASSUME NEW g \in Gens, NEW i \in item[g].ids
               PROVE  /\ i \in Ids /\ worker[g] \in {"locking"} \cup Running \cup Settled
                      /\ worker[g] = "locking" => fate[i] = "queued"
                      /\ worker[g] \in Running => fate[i] = "running"
                      /\ worker[g] \in Settled => fate[i] \in Outcomes
    OBVIOUS
  <2>1. worker[g] \in Holding /\ i \in Ids
    BY ThingFacts DEF Held
  <2>2. worker[g] = "locking" => i \in At(g, 0)
    BY DEF At
  <2> QED
    BY <1>2, <2>1, <2>2, PhaseFacts DEF Holding, Runs, RunsAt
<1>4. Outcomes \cap {"new", "queued", "running"} = {} /\ Running \cap Settled = {}
      /\ "locking" \notin Running \cup Settled /\ Running \cup Settled = TurnPhases
  BY PhaseFacts DEF Outcomes
<1>5. ASSUME NEW i \in Ids, fate[i] \in {"queued", "running"} PROVE Cardinality(Places(i)) = 1
  <2>1. CASE fate[i] = "queued"
    <3>1. PICK g \in Gens, n \in Nat : i \in At(g, n)
      BY <2>1 DEF Waits
    <3>2. ASSUME NEW p \in Places(i) PROVE p = <<g, n>>
      <4>1. PICK h \in Gens, m \in Nat :
               /\ p = <<h, m>>
               /\ \/ i \in At(h, m)
                  \/ m = 0 /\ worker[h] \in TurnPhases /\ i \in item[h].ids
        BY PlacesAre
      <4>2. i \in At(h, m)
        BY <1>3, <1>4, <2>1, <4>1
      <4> QED
        BY <1>2, <3>1, <4>1, <4>2
    <3>3. Places(i) = {<<g, n>>}
      BY <3>1, <3>2, PlacesAre
    <3> QED
      BY <3>3, FS_Singleton
  <2>2. CASE fate[i] = "running"
    <3>1. PICK g \in Gens : worker[g] \in Running /\ i \in item[g].ids
      BY <2>2 DEF Runs
    <3>2. ASSUME NEW p \in Places(i) PROVE p = <<g, 0>>
      <4>1. PICK h \in Gens, m \in Nat :
               /\ p = <<h, m>>
               /\ \/ i \in At(h, m)
                  \/ m = 0 /\ worker[h] \in TurnPhases /\ i \in item[h].ids
        BY PlacesAre
      <4>2. m = 0 /\ worker[h] \in TurnPhases
        BY <1>2, <2>2, <4>1
      <4>3. lock = g /\ lock = h
        BY <1>4, <3>1, <4>2 DEF LockHeldByTurn
      <4> QED
        BY <4>1, <4>2, <4>3
    <3>3. Places(i) = {<<g, 0>>}
      BY <3>1, <3>2, PlacesAre
    <3> QED
      BY <3>3, FS_Singleton
  <2> QED
    BY <1>5, <2>1, <2>2
<1>6. ASSUME NEW i \in Ids, fate[i] = "new" PROVE Places(i) = {}
  <2>1. ASSUME NEW p \in Places(i) PROVE FALSE
    <3>1. PICK h \in Gens, m \in Nat :
             /\ p = <<h, m>>
             /\ \/ i \in At(h, m)
                \/ m = 0 /\ worker[h] \in TurnPhases /\ i \in item[h].ids
      BY PlacesAre
    <3> QED
      BY <1>2, <1>3, <1>4, <1>6, <3>1
  <2> QED
    BY <2>1
<1>7. ASSUME NEW i \in Ids, NEW g \in Gens, i \in item[g].ids
      PROVE  CASE worker[g] = "locking" -> fate[i] = "queued"
               [] worker[g] \in {"mirroring", "opening", "prompting",
                                 "cancelling", "failing"} -> fate[i] = "running"
               [] OTHER -> fate[i] \in Outcomes
  <2>1. CASE worker[g] = "locking"
    BY <1>3, <1>7, <2>1
  <2>2. CASE worker[g] \in Running
    BY <1>3, <1>7, <2>2 DEF Running
  <2>3. CASE worker[g] \in Settled
    BY <1>3, <1>7, <2>3 DEF Settled
  <2> QED
    BY <1>3, <1>7, <2>1, <2>2, <2>3
<1> QED
  BY <1>1, <1>5, <1>6, <1>7 DEF EveryInputAccounted

(* Everything that the steps preserve together.                            *)
LEMMA BaseHolds == Spec => []Base
<1>1. Init => Generations /\ OneAlive /\ Attended /\ NoOrphanAgent /\ LockHeldByTurn
  <2>1. Init => Attended /\ NoOrphanAgent
    BY LiveFacts, SessionAssumption DEF Init, Created, Loaded, Attended, NoOrphanAgent, Gens
  <2>2. Init => LockHeldByTurn
    BY GensAre DEF Init, LockHeldByTurn, TurnPhases
  <2> QED
    BY <2>1, <2>2, GenInit
<1>2. TypeOK /\ Generations /\ OneAlive /\ Attended /\ NoOrphanAgent /\ LockHeldByTurn
        /\ Accounts /\ Swept /\ [Next]_vars
      => Accounts' /\ Swept'
  BY AccountsStep, SweptStep DEF Base, GenInv
<1>3. TypeOK /\ Generations /\ OneAlive /\ Attended /\ LockHeldByTurn /\ Accounts /\ Swept => Base
  BY DEF Base, GenInv
<1> QED
  BY <1>1, <1>2, <1>3, AccountsInit, GenStep, OrphanStep, LockStep, TypeCorrect, PTL
     DEF Spec, GenInv

(* No accepted input is lost without a trace, served twice or left behind  *)
(* by an honest wait_idle, for any number of inputs and generations: the   *)
(* queue, the batch, the hands of the worker, the stop marker, the shutdown*)
(* and the sweep never lose count of one (acp_session_runtime.py).         *)
THEOREM InputsAccounted == Spec => []EveryInputAccounted
BY BaseHolds, AccountsAre, PTL

(* A background result never overtakes a later input of a user, nor is it  *)
(* put behind the stop marker (submit_background_turn).                    *)
THEOREM BatchIsLast == Spec => []PendingBatchIsLast
<1>1. Base => PendingBatchIsLast
  BY DEF Base, Accounts, Held, LastIsBatch, PendingBatchIsLast
<1> QED
  BY <1>1, BaseHolds, PTL

----------------------------------------------------------------------------
(* What is accepted in time is served                                      *)

Ahead(i) == \E n \in 1..Len(queue[current]) :
               i \in queue[current][n].ids /\ \A m \in Markers(current) : n < m

DueKept ==
  daemon' \in {"up", "stopping"} => \A i \in Ids : Due(i) =>
     Due(i)' \/ fate'[i] = "running" \/ AgentFails \/ TimerRaces \/ StopDrops(i)

(* A queue that grows at its end keeps what is ahead of its markers.       *)
LEMMA AheadStays ==
  ASSUME NEW i, Ahead(i), current' = current,
         NEW k \in Nat, NEW l \in Nat, k <= l, Len(queue[current]) = k, Len(queue'[current]) = l,
         \A n \in 1..k : /\ queue[current][n].ids \subseteq queue'[current][n].ids
                         /\ queue'[current][n] = End => queue[current][n] = End
  PROVE  Ahead(i)'
<1> DEFINE q == queue[current]
           r == queue'[current]
<1>1. PICK n \in 1..k : i \in q[n].ids /\ \A m \in 1..k : q[m] = End => n < m
  BY DEF Ahead, Markers
<1>2. n \in 1..l /\ i \in r[n].ids
  BY <1>1
<1>3. ASSUME NEW m \in 1..l, r[m] = End PROVE n < m
  <2>1. CASE m \in 1..k
    BY <1>1, <1>3, <2>1
  <2>2. CASE m \notin 1..k
    BY <1>1, <2>2
  <2> QED
    BY <2>1, <2>2
<1> QED
  BY <1>2, <1>3 DEF Ahead, Markers

LEMMA DueStays ==
  ASSUME NEW i, Due(i), current' = current, queue' = queue, worker'[current] \in GoesOn,
         Len(queue[current]) \in Nat,
         worker[current] = "locking" => worker'[current] = "locking" /\ item'[current] = item[current]
  PROVE  Due(i)'
<1>1. CASE worker[current] = "locking" /\ i \in item[current].ids
  BY <1>1 DEF Due
<1>2. CASE Ahead(i)
  <2>1. Ahead(i)'
    BY <1>2, AheadStays
  <2> QED
    BY <2>1 DEF Due, Ahead
<1> QED
  BY <1>1, <1>2 DEF Due, Ahead

(* What reaches the Session leaves what is due.                            *)
LEMMA EnqueueKeeps ==
  ASSUME Base, NEW i, Due(i), NEW t \in Ids, Enqueue(current, t), current' = current, item' = item,
         worker'[current] \in GoesOn, worker[current] = "locking" => worker'[current] = "locking"
  PROVE  Due(i)'
<1>1. current \in Gens
  BY GensAre DEF Base, GenInv, TypeOK, Due
<1> DEFINE q == queue[current]
           r == queue'[current]
<1>2. q \in Seq(Things) /\ Len(q) \in Nat
  BY <1>1 DEF Base, Accounts, Held
<1>3. r = Append(q, TurnOf(t))
  BY <1>1 DEF Enqueue, Base, GenInv, TypeOK
<1>4. Len(r) = Len(q) + 1 /\ \A n \in 1..Len(q) : r[n] = q[n]
  BY <1>2, <1>3, ThingFacts, AppendPlaces
<1>5. CASE worker[current] = "locking" /\ i \in item[current].ids
  BY <1>5 DEF Due
<1>6. CASE Ahead(i)
  <2>1. Ahead(i)'
    BY <1>2, <1>4, <1>6, AheadStays
  <2> QED
    BY <2>1 DEF Due, Ahead
<1> QED
  BY <1>5, <1>6 DEF Due, Ahead

LEMMA BlockKeeps ==
  ASSUME Base, NEW i, Due(i), NEW b \in Blocks, AddBlock(current, b), current' = current, worker' = worker
  PROVE  Due(i)'
<1>1. current \in Gens /\ DOMAIN queue = Gens /\ DOMAIN item = Gens
  BY GensAre DEF Base, GenInv, TypeOK, Due
<1> DEFINE q == queue[current]
           r == queue'[current]
           k == Len(q)
<1>2. q \in Seq(Things) /\ k \in Nat /\ LastIsBatch(current)
  BY <1>1 DEF Base, Accounts, Held
<1>3. CASE ~batch[current]
  <2>1. r = Append(q, BatchOf(b)) /\ item' = item
    BY <1>1, <1>3 DEF AddBlock
  <2>2. Len(r) = k + 1 /\ \A n \in 1..k : r[n] = q[n]
    BY <1>2, <2>1, ThingFacts, AppendPlaces
  <2>3. Ahead(i) => Ahead(i)'
    BY <1>2, <2>2, AheadStays
  <2> QED
    BY <2>1, <2>3 DEF Due, Ahead
<1>4. CASE batch[current] /\ q # <<>>
  <2>1. r = [q EXCEPT ![k] = [q[k] EXCEPT !.ids = q[k].ids \cup {b}]] /\ item' = item
    BY <1>1, <1>4 DEF AddBlock
  <2>2. q[k] \in Things /\ q[k].kind = "batch" /\ k \in 1..k
    BY <1>2, <1>4 DEF LastIsBatch
  <2> DEFINE y == [q[k] EXCEPT !.ids = q[k].ids \cup {b}]
  <2>3. y \in Inputs /\ y.ids = q[k].ids \cup {b} /\ y # End
    BY <2>2, ThingFacts
  <2>4. Len(r) = k /\ r[k] = y /\ \A n \in 1..k : n # k => r[n] = q[n]
    BY <1>2, <2>1, <2>2
  <2> HIDE DEF y
  <2>5. Ahead(i) => Ahead(i)'
    BY <1>2, <2>3, <2>4, AheadStays
  <2> QED
    BY <2>1, <2>5 DEF Due, Ahead
<1>5. CASE batch[current] /\ q = <<>>
  <2>1. ~Ahead(i) /\ i \in item[current].ids /\ worker[current] = "locking"
    BY <1>5 DEF Ahead, Due
  <2>2. item'[current].ids = item[current].ids \cup {b}
    <3>1. item[current] \in Inputs
      BY <1>1, <2>1, PhaseFacts DEF Base, Accounts, Held
    <3>2. item' = [item EXCEPT ![current].ids = @ \cup {b}]
      BY <1>5 DEF AddBlock
    <3> QED
      BY <1>1, <3>1, <3>2 DEF Inputs
  <2> QED
    BY <2>1, <2>2 DEF Due
<1> QED
  BY <1>3, <1>4, <1>5

LEMMA StopKeeps ==
  ASSUME Base, NEW i \in Ids, Due(i), NEW s, RequestTermination(current, s), current' = current,
         item' = item, worker' = worker \/ AskAgent(current)
  PROVE  Due(i)' \/ StopDrops(i)
<1>1. current \in Gens /\ DOMAIN queue = Gens
  BY GensAre DEF Base, GenInv, TypeOK, Due
<1> DEFINE q == queue[current]
           w == WithoutBatches(q)
           r == Append(w, End)
<1>2. q \in Seq(Things) /\ Len(q) \in Nat
  BY <1>1 DEF Base, Accounts, Held
<1>3. queue'[current] = r
  BY <1>1 DEF RequestTermination
<1>4. CASE i \in Blocks
  BY <1>3, <1>4 DEF StopDrops
<1>5. CASE i \notin Blocks
  <2>1. worker'[current] \in GoesOn /\ (worker[current] = "locking" => worker'[current] = "locking")
    <3>1. worker'[current] \in {worker[current], "cancelling"}
            /\ (worker[current] # "prompting" => worker'[current] = worker[current])
      BY <1>1 DEF AskAgent, Base, GenInv, TypeOK
    <3> QED
      BY <3>1 DEF Due, GoesOn
  <2>2. CASE worker[current] = "locking" /\ i \in item[current].ids
    BY <2>1, <2>2 DEF Due
  <2>3. CASE Ahead(i)
    <3>1. PICK n \in 1..Len(q) : i \in q[n].ids /\ \A m \in 1..Len(q) : q[m] = End => n < m
      BY <2>3 DEF Ahead, Markers
    <3>2. IsTurnOrEnd(q[n])
      <4>1. q[n] \in Things
        BY <1>2
      <4> QED
        BY <1>5, <3>1, <4>1 DEF Things, Inputs, End, IsTurnOrEnd
    <3>3. PICK k \in 1..Len(w) : w[k] = q[n] /\ \A l \in 1..k : \E m \in 1..n : w[l] = q[m]
      BY <1>2, <3>2, StayAhead
    <3>4. w \in Seq(Things)
      BY <1>2, WithoutBatchesIs
    <3> HIDE DEF w
    <3>5. Len(r) = Len(w) + 1 /\ Len(w) \in Nat /\ \A l \in 1..Len(w) : r[l] = w[l]
      BY <3>4, ThingFacts, AppendPlaces
    <3>6. \A m \in 1..n : q[m] # End
      BY <1>2, <3>1
    <3>7. ASSUME NEW m \in 1..Len(r), r[m] = End PROVE k < m
      <4>1. CASE m \in 1..k
        <5>1. w[m] = End
          BY <3>5, <3>7, <4>1
        <5> QED
          BY <3>3, <3>6, <4>1, <5>1
      <4>2. CASE m \notin 1..k
        BY <3>5, <4>2
      <4> QED
        BY <4>1, <4>2
    <3>8. k \in 1..Len(r) /\ i \in r[k].ids
      BY <3>1, <3>3, <3>5
    <3>9. Ahead(i)'
      BY <1>3, <3>7, <3>8 DEF Ahead, Markers
    <3> QED
      BY <2>1, <3>9 DEF Due, Ahead
  <2> QED
    BY <2>2, <2>3 DEF Due, Ahead
<1> QED
  BY <1>4, <1>5

(* The other generations do not touch the registered one.                  *)
LEMMA OthersKeep ==
  ASSUME Base, current \in Gens, NEW g \in Gens, g # current, Worker(g)
  PROVE  /\ current' = current /\ queue'[current] = queue[current]
         /\ item'[current] = item[current] /\ worker'[current] = worker[current]
<1> USE DEF ledger, registry, runtime, host
<1>1. worker \in [Gens -> Phases] /\ DOMAIN queue = Gens /\ DOMAIN item = Gens
  BY DEF Base, GenInv, TypeOK
<1>2. CASE Begin(g) \/ StartOk(g) \/ StartFail(g) \/ Announced(g)
  BY <1>1, <1>2 DEF Begin, StartOk, StartFail, Announced, Exit, LoopTop
<1>3. CASE Take(g)
  BY <1>1, <1>3 DEF Take, Exit, BeginTurn
<1>4. CASE Acquire(g) \/ IdleExpires(g) \/ Noticed(g)
  BY <1>1, <1>4 DEF Acquire, IdleExpires, Noticed, Exit, BeginTurn
<1>5. CASE Prepare(g) \/ Prompt(g) \/ Answer(g, "completed") \/ Answer(g, "cancelled")
  BY <1>1, <1>5 DEF Prepare, Prompt, Answer
<1>6. CASE PromptFails(g) \/ FailureTold(g) \/ EndTurn(g)
  BY <1>1, <1>6 DEF PromptFails, FailureTold, EndTurn, Exit, LoopTop
<1>7. CASE Close(g) \/ AgentClosed(g)
  BY <1>1, <1>7 DEF Close, AgentClosed
<1> QED
  BY <1>2, <1>3, <1>4, <1>5, <1>6, <1>7 DEF Worker

(* The registered worker goes on with what is due, or begins it.           *)
LEMMA TakeKeeps ==
  ASSUME Base, current \in Gens, NEW i, Due(i), Take(current)
  PROVE  Due(i)' \/ fate'[i] = "running"
<1> DEFINE g == current
           q == queue[g]
           r == Tail(q)
<1>1. worker[g] \in {"ready", "wait"} /\ q # <<>> /\ queue' = [queue EXCEPT ![g] = Tail(@)]
  BY DEF Take
<1>2. /\ queue'[g] = r /\ r \in Seq(Things) /\ Head(q).ids \subseteq Ids
      /\ \A n \in 1..Len(r) : n + 1 \in 1..Len(q) /\ r[n] = q[n + 1]
  BY <1>1, Taken
<1>3. q \in Seq(Things) /\ Len(q) \in Nat /\ Head(q) = q[1] /\ Len(r) = Len(q) - 1
  BY <1>1, HeadTailProperties DEF Base, Accounts, Held
<1>4. worker \in [Gens -> Phases] /\ DOMAIN item = Gens /\ fate \in [Ids -> Fates]
  BY DEF Base, GenInv, TypeOK
<1>5. PICK n \in 1..Len(q) : i \in q[n].ids /\ \A m \in 1..Len(q) : q[m] = End => n < m
  BY <1>1 DEF Due, Markers
<1>6. Head(q) # End
  BY <1>1, <1>3, <1>5
<1>7. /\ worker'[g] \in {"mirroring", "opening", "locking"} /\ current' = current
      /\ \/ worker'[g] = "locking" /\ item'[g] = Head(q)
         \/ fate' = Fated(Head(q).ids, "running")
  BY <1>4, <1>6 DEF Take, BeginTurn
<1>8. CASE n = 1
  <2>1. i \in Head(q).ids
    BY <1>3, <1>5, <1>8
  <2>2. CASE worker'[g] = "locking" /\ item'[g] = Head(q)
    BY <1>7, <2>1, <2>2 DEF Due, GoesOn, LoopPhases
  <2>3. CASE fate' = Fated(Head(q).ids, "running")
    BY <1>2, <2>1, <2>3 DEF Fated
  <2> QED
    BY <1>7, <2>2, <2>3
<1>9. CASE n # 1
  <2>1. PICK k \in Nat : n = k + 1
    BY <1>3, <1>9
  <2>2. k \in 1..Len(r) /\ i \in r[k].ids
    BY <1>2, <1>3, <1>5, <1>9, <2>1
  <2> HIDE DEF r
  <2>3. \A m \in 1..Len(r) : r[m] = End => k < m
    <3>1. SUFFICES ASSUME NEW m \in 1..Len(r), r[m] = End PROVE k < m
      OBVIOUS
    <3>2. m + 1 \in 1..Len(q) /\ q[m + 1] = End
      BY <1>2, <3>1
    <3>3. k + 1 < m + 1
      BY <1>5, <2>1, <3>2
    <3> QED
      BY <1>3, <2>1, <3>3
  <2>4. Ahead(i)'
    BY <1>2, <1>7, <2>2, <2>3 DEF Ahead, Markers
  <2> QED
    BY <1>1, <1>7, <2>4 DEF Due, Ahead, GoesOn, LoopPhases
<1> QED
  BY <1>8, <1>9

LEMMA WorkerKeeps ==
  ASSUME Base, current \in Gens, NEW i \in Ids, Due(i), Worker(current)
  PROVE  Due(i)' \/ fate'[i] = "running" \/ AgentFails \/ TimerRaces
<1> USE DEF ledger, registry, runtime, host
<1> DEFINE g == current
<1>1. /\ worker \in [Gens -> Phases] /\ DOMAIN item = Gens /\ fate \in [Ids -> Fates]
      /\ Len(queue[g]) \in Nat
  <2>1. queue[g] \in Seq(Things)
    BY DEF Base, Accounts, Held
  <2> QED
    BY <2>1 DEF Base, GenInv, TypeOK
<1>2. worker[g] \in GoesOn
  BY DEF Due
<1>3. CASE Begin(g)
  <2>1. worker'[g] \in GoesOn /\ worker[g] # "locking" /\ UNCHANGED <<current, queue>>
    BY <1>1, <1>3 DEF Begin, GoesOn
  <2> QED
    BY <1>1, <2>1, DueStays
<1>4. CASE StartOk(g)
  <2>1. worker'[g] \in GoesOn /\ worker[g] # "locking" /\ UNCHANGED <<current, queue>>
    BY <1>1, <1>4 DEF StartOk, GoesOn
  <2> QED
    BY <1>1, <2>1, DueStays
<1>5. CASE StartFail(g) \/ PromptFails(g)
  BY <1>1, <1>5 DEF StartFail, PromptFails, AgentFails
<1>6. CASE Announced(g)
  <2>1. worker'[g] \in GoesOn /\ worker[g] # "locking" /\ UNCHANGED <<current, queue>>
    BY <1>1, <1>6 DEF Announced, LoopTop, GoesOn, LoopPhases
  <2> QED
    BY <1>1, <2>1, DueStays
<1>7. CASE Take(g)
  BY <1>7, TakeKeeps
<1>8. CASE Acquire(g)
  <2>1. /\ worker[g] = "locking" /\ UNCHANGED <<current, queue>> /\ worker'[g] \in GoesOn
        /\ fate' = Fated(item[g].ids, "running")
    BY <1>1, <1>8 DEF Acquire, BeginTurn, GoesOn
  <2>2. CASE i \in item[g].ids
    BY <2>1, <2>2 DEF Fated
  <2>3. CASE Ahead(i)
    <3>1. Ahead(i)'
      BY <1>1, <2>1, <2>3, AheadStays
    <3> QED
      BY <2>1, <3>1 DEF Due, Ahead
  <2> QED
    BY <2>2, <2>3 DEF Due, Ahead
<1>9. CASE IdleExpires(g)
  BY <1>1, <1>9 DEF IdleExpires, TimerRaces
<1>10. CASE Noticed(g) \/ FailureTold(g) \/ Close(g) \/ AgentClosed(g)
  BY <1>2, <1>10 DEF Noticed, FailureTold, Close, AgentClosed, GoesOn, LoopPhases
<1>11. CASE Prepare(g) \/ Prompt(g)
  <2>1. worker'[g] \in GoesOn /\ worker[g] # "locking" /\ UNCHANGED <<current, queue>>
    BY <1>1, <1>11 DEF Prepare, Prompt, GoesOn
  <2> QED
    BY <1>1, <2>1, DueStays
<1>12. CASE Answer(g, "completed") \/ Answer(g, "cancelled")
  <2>1. worker'[g] \in GoesOn /\ worker[g] # "locking" /\ UNCHANGED <<current, queue>>
    BY <1>1, <1>12 DEF Answer, GoesOn
  <2> QED
    BY <1>1, <2>1, DueStays
<1>13. CASE EndTurn(g)
  <2>1. worker[g] = "settling"
    BY <1>2, <1>13 DEF EndTurn, GoesOn, LoopPhases
  <2>2. worker'[g] \in GoesOn /\ UNCHANGED <<current, queue>>
    BY <1>1, <1>13, <2>1 DEF EndTurn, LoopTop, GoesOn, LoopPhases
  <2> QED
    BY <1>1, <2>1, <2>2, DueStays
<1> QED
  BY <1>3, <1>4, <1>5, <1>6, <1>7, <1>8, <1>9, <1>10, <1>11, <1>12, <1>13 DEF Worker

LEMMA DueStep == ASSUME Base, [Next]_vars PROVE DueKept
<1> USE DEF ledger, registry, runtime, host
<1>1. SUFFICES ASSUME daemon' \in {"up", "stopping"}, NEW i \in Ids, Due(i)
               PROVE  Due(i)' \/ fate'[i] = "running" \/ AgentFails \/ TimerRaces \/ StopDrops(i)
  BY DEF DueKept
<1> DEFINE Good == Due(i)' \/ fate'[i] = "running" \/ AgentFails \/ TimerRaces \/ StopDrops(i)
<1>2. /\ current # 0 /\ current \in Gens /\ worker[current] \in GoesOn
      /\ worker \in [Gens -> Phases] /\ Len(queue[current]) \in Nat
  <2>1. current \in Gens
    BY <1>1, GensAre DEF Due, Base, GenInv, TypeOK
  <2>2. queue[current] \in Seq(Things)
    BY <2>1 DEF Base, Accounts, Held
  <2> QED
    BY <1>1, <2>1, <2>2 DEF Due, Base, GenInv, TypeOK
<1>3. ASSUME UNCHANGED <<current, queue, worker, item>> PROVE Good
  BY <1>1, <1>2, <1>3, DueStays
<1>4. ASSUME NEW t \in Turns, Reply(t) PROVE Good
  <2>1. t \in Ids /\ Enqueue(current, t) /\ UNCHANGED <<current, worker, item>>
    BY <1>2, <1>4 DEF Reply, Ids
  <2> QED
    BY <1>1, <1>2, <2>1, EnqueueKeeps
<1>5. ASSUME NEW R \in SUBSET Turns, Cancel(R) PROVE Good
  <2>1. /\ worker'[current] \in GoesOn /\ worker[current] # "locking"
        /\ UNCHANGED <<current, item>>
    BY <1>2, <1>5, PhaseFacts DEF Cancel, AskAgent, GoesOn
  <2>2. CASE queue' = queue
    BY <1>1, <1>2, <2>1, <2>2, DueStays
  <2>3. ASSUME NEW t \in R, Enqueue(current, t) PROVE Good
    <3>1. t \in Ids
      BY DEF Ids
    <3> QED
      BY <1>1, <2>1, <2>3, <3>1, EnqueueKeeps
  <2> QED
    BY <1>5, <2>2, <2>3 DEF Cancel
<1>6. CASE Stop
  <2>1. RequestTermination(current, "stopped") /\ AskAgent(current) /\ UNCHANGED <<current, item>>
    BY <1>2, <1>6 DEF Stop
  <2> QED
    BY <1>1, <2>1, StopKeeps
<1>7. CASE MarkDone
  <2>1. CASE RequestTermination(current, "done") /\ UNCHANGED <<current, item, worker>>
    BY <1>1, <2>1, StopKeeps
  <2>2. CASE UNCHANGED <<current, item, worker, queue>>
    BY <1>3, <2>2
  <2> QED
    BY <1>7, <2>1, <2>2 DEF MarkDone
<1>8. CASE ResumeTask
  BY <1>2, <1>8 DEF ResumeTask
<1>9. CASE Clear
  BY <1>3, <1>9 DEF Clear
<1>10. ASSUME NEW b \in Blocks, BgResult(b) PROVE Good
  <2>1. AddBlock(current, b) /\ UNCHANGED <<current, worker>>
    BY <1>2, <1>10 DEF BgResult
  <2> QED
    BY <1>1, <2>1, BlockKeeps
<1>11. ASSUME NEW g \in Gens, Worker(g) PROVE Good
  <2>1. CASE g = current
    BY <1>1, <1>2, <1>11, <2>1, WorkerKeeps
  <2>2. CASE g # current
    <3>1. /\ current' = current /\ queue'[current] = queue[current]
          /\ item'[current] = item[current] /\ worker'[current] = worker[current]
      BY <1>2, <1>11, <2>2, OthersKeep
    <3>2. Due(i)'
      BY <1>1, <3>1 DEF Due, Markers
    <3> QED
      BY <3>2
  <2> QED
    BY <2>1, <2>2
<1>12. CASE BeginShutdown
  BY <1>3, <1>12 DEF BeginShutdown
<1>13. CASE SuspendAll \/ Sweep \/ SweepClose \/ SweepDone \/ ProcessEnds
  <2>1. daemon' \notin {"up", "stopping"}
    BY <1>13 DEF SuspendAll, Sweep, SweepClose, SweepDone, ProcessEnds
  <2> QED
    BY <1>1, <2>1
<1>14. CASE Restart
  BY <1>2, <1>14 DEF Restart, Base, GenInv, Generations
<1>15. CASE UNCHANGED vars
  BY <1>3, <1>15 DEF vars
<1> QED
  BY <1>4, <1>5, <1>6, <1>7, <1>8, <1>9, <1>10, <1>11, <1>12, <1>13, <1>14, <1>15
     DEF Next, External, Lifecycle

(* No input is lost without a reason: what is accepted in time is served   *)
(* unless the agent fails, the idle timer races it, a stop drops it as a   *)
(* background result or the daemon goes down, and a stop drops no user's   *)
(* turn (_run and request_termination, acp_session_runtime.py).            *)
THEOREM LossesAreExplained == Spec => LossesHaveReasons
<1>1. Base /\ [Next]_vars => [TurnsStay]_vars /\ [DueKept]_vars
  BY AccountsStep, DueStep
<1>2. [TurnsStay]_vars /\ [DueKept]_vars =>
      [/\ daemon' \in {"up", "stopping"} => \A i \in Ids : Due(i) =>
            Due(i)' \/ fate'[i] = "running" \/ AgentFails \/ TimerRaces \/ StopDrops(i)
       /\ \A t \in Turns : fate[t] = "queued" /\ fate'[t] = "lost" =>
            \/ daemon \notin {"up", "stopping"} \/ daemon' # daemon
            \/ \E g \in Gens : worker[g] = "draining" /\ worker'[g] = "closing"]_vars
  BY DEF TurnsStay, DueKept
<1> QED
  BY <1>1, <1>2, BaseHolds, PTL DEF Spec, LossesHaveReasons

----------------------------------------------------------------------------
(* The abstract state of the service, as the fates of the inputs say it.   *)
Waiting == {i \in Ids : \E g \in Gens :
               \/ i \in IdsIn(queue[g])
               \/ worker[g] = "locking" /\ i \in item[g].ids}
Serves  == UNION {item[g].ids : g \in {h \in Gens : worker[h] \in
               {"mirroring", "opening", "prompting", "cancelling", "failing"}}}
Outcome == [i \in Ids |-> IF fate[i] \in Outcomes THEN fate[i] ELSE "none"]

Served == /\ Waiting = {i \in Ids : fate[i] = "queued"}
          /\ Serves = {i \in Ids : fate[i] = "running"}

LEMMA ServiceIs == Accounts => Served
<1> SUFFICES ASSUME Accounts PROVE Served
  OBVIOUS
<1> USE DEF Accounts
<1>1. ASSUME NEW i \in Ids
      PROVE  (\E g \in Gens : i \in IdsIn(queue[g]) \/ (worker[g] = "locking" /\ i \in item[g].ids))
               <=> \E g \in Gens, n \in Nat : i \in At(g, n)
  <2>1. ASSUME NEW g \in Gens, i \in IdsIn(queue[g]) \/ (worker[g] = "locking" /\ i \in item[g].ids)
        PROVE  \E n \in Nat : i \in At(g, n)
    <3>1. CASE i \in IdsIn(queue[g])
      BY <3>1 DEF IdsIn, At, Held
    <3>2. CASE worker[g] = "locking" /\ i \in item[g].ids
      BY <3>2 DEF At
    <3> QED
      BY <2>1, <3>1, <3>2
  <2>2. ASSUME NEW g \in Gens, NEW n \in Nat, i \in At(g, n)
        PROVE  i \in IdsIn(queue[g]) \/ (worker[g] = "locking" /\ i \in item[g].ids)
    BY <2>2 DEF At, IdsIn
  <2> QED
    BY <2>1, <2>2
<1>2. Waiting = {i \in Ids : fate[i] = "queued"}
  BY <1>1 DEF Waiting, Waits
<1>3. \A g \in Gens : worker[g] \in Running => \A i \in item[g].ids : i \in Ids /\ fate[i] = "running"
  BY ThingFacts, PhaseFacts DEF Held, Runs, RunsAt
<1>4. Serves = {i \in Ids : fate[i] = "running"}
  BY <1>3 DEF Serves, Runs, Running
<1> QED
  BY <1>2, <1>4 DEF Served

(* Each change of the fates is a step of the service.                      *)
LEMMA ServiceStep ==
  ASSUME Accounts, Accounts', FateStep, fate \in [Ids -> Fates]
  PROVE  [Service!Next]_(Service!vars)
<1>1. Served /\ Served'
  BY ServiceIs, PTL
<1> DEFINE W == {i \in Ids : fate[i] = "queued"}
           R == {i \in Ids : fate[i] = "running"}
<1>2. /\ Waiting = W /\ Serves = R
      /\ Waiting' = {i \in Ids : fate'[i] = "queued"}
      /\ Serves' = {i \in Ids : fate'[i] = "running"}
      /\ Outcome' = [i \in Ids |-> IF fate'[i] \in Outcomes THEN fate'[i] ELSE "none"]
  BY <1>1 DEF Served, Outcome
<1>3. "none" \notin Outcomes /\ Outcomes \cap {"new", "queued", "running"} = {}
      /\ {"lost", "interrupted"} \subseteq Outcomes /\ Fates = {"new", "queued", "running"} \cup Outcomes
  BY DEF Outcomes, Fates
<1>4. CASE fate' = fate
  <2>1. UNCHANGED <<Waiting, Serves, Outcome>>
    BY <1>2, <1>4 DEF Outcome
  <2> QED
    BY <2>1 DEF Service!vars, Waiting, Serves, Outcome
<1>5. ASSUME NEW t \in Ids, fate[t] = "new", fate' = Fated({t}, "queued") PROVE Service!Accept
  <2>1. \A i \in Ids : fate'[i] = IF i = t THEN "queued" ELSE fate[i]
    BY <1>5 DEF Fated
  <2>2. Waiting' = Waiting \cup {t} /\ Serves' = Serves /\ Outcome' = Outcome
    BY <1>2, <1>3, <1>5, <2>1 DEF Outcome
  <2>3. t \notin Waiting \cup Serves /\ Outcome[t] = "none"
    BY <1>2, <1>3, <1>5 DEF Outcome
  <2> QED
    BY <2>2, <2>3 DEF Service!Accept, Service!Fresh, Waiting, Serves, Outcome
<1>6. ASSUME NEW S \in SUBSET Ids, S # {}, \A i \in S : fate[i] = "queued",
             \A i \in Ids : fate[i] # "running", fate' = Fated(S, "running")
      PROVE  Service!Begin
  <2>1. \A i \in Ids : fate'[i] = IF i \in S THEN "running" ELSE fate[i]
    BY <1>6 DEF Fated
  <2>2. Waiting' = Waiting \ S /\ Serves' = S /\ Serves = {} /\ Outcome' = Outcome
    BY <1>2, <1>3, <1>6, <2>1 DEF Outcome
  <2>3. S \in (SUBSET Waiting) \ {{}}
    BY <1>2, <1>6
  <2> QED
    BY <2>2, <2>3 DEF Service!Begin, Waiting, Serves, Outcome
<1>7. ASSUME NEW o \in Outcomes, fate' = Fated(R, o), R # {} PROVE Service!Finish
  <2>1. \A i \in Ids : fate'[i] = IF i \in R THEN o ELSE fate[i]
    BY <1>7 DEF Fated
  <2>2. Waiting' = Waiting /\ Serves' = {} /\ Serves = R
    BY <1>2, <1>3, <1>7, <2>1
  <2>3. Outcome' = [i \in Ids |-> IF i \in Serves THEN o ELSE Outcome[i]]
    BY <1>2, <1>3, <1>7, <2>1, <2>2 DEF Outcome
  <2> QED
    BY <1>7, <2>2, <2>3 DEF Service!Finish, Service!Ended, Waiting, Serves, Outcome
<1>8. ASSUME NEW S \in SUBSET Ids, \A i \in S : fate[i] = "queued", fate' = Fated(S, "lost"), S # {}
      PROVE  Service!Drop
  <2>1. \A i \in Ids : fate'[i] = IF i \in S THEN "lost" ELSE fate[i]
    BY <1>8 DEF Fated
  <2>2. Waiting' = Waiting \ S /\ Serves' = Serves
    BY <1>2, <1>3, <1>8, <2>1
  <2>3. Outcome' = [i \in Ids |-> IF i \in S THEN "lost" ELSE Outcome[i]]
    BY <1>2, <1>3, <1>8, <2>1 DEF Outcome
  <2>4. S \in (SUBSET Waiting) \ {{}}
    BY <1>2, <1>8
  <2> QED
    BY <2>2, <2>3, <2>4 DEF Service!Drop, Waiting, Serves, Outcome
<1>9. ASSUME NEW S \in SUBSET Ids, NEW o \in {"interrupted", "lost"}, \A i \in S : fate[i] = "queued",
             fate' = [i \in Ids |-> IF i \in S THEN "lost"
                                    ELSE IF fate[i] = "running" THEN o ELSE fate[i]]
      PROVE  Service!Abandon
  <2>1. \A i \in Ids : fate'[i] = IF i \in S THEN "lost"
                                  ELSE IF fate[i] = "running" THEN o ELSE fate[i]
    BY <1>9
  <2>2. Waiting' = Waiting \ S /\ Serves' = {} /\ Serves = R
    BY <1>2, <1>3, <1>9, <2>1
  <2>3. Outcome' = [i \in Ids |-> IF i \in S THEN "lost"
                                  ELSE IF i \in Serves THEN o ELSE Outcome[i]]
    BY <1>2, <1>3, <1>9, <2>1, <2>2 DEF Outcome
  <2>4. S \in SUBSET Waiting
    BY <1>2, <1>9
  <2>5. \E T \in SUBSET Waiting, p \in {"interrupted", "lost"} :
          /\ Waiting' = Waiting \ T /\ Serves' = {}
          /\ Outcome' = [i \in Ids |-> IF i \in T THEN "lost"
                                       ELSE IF i \in Serves THEN p ELSE Outcome[i]]
    BY <2>2, <2>3, <2>4
  <2> QED
    BY <2>5 DEF Service!Abandon, Waiting, Serves, Outcome
<1>10. ASSUME NEW S, S = {}, NEW o, fate' = Fated(S, o) PROVE fate' = fate
  BY <1>10 DEF Fated
<1> QED
  BY <1>4, <1>5, <1>6, <1>7, <1>8, <1>9, <1>10 DEF FateStep, Service!Next

(* For any number of inputs and generations, a Session is the service that *)
(* TurnService describes: each of its steps accepts an input, begins a turn*)
(* while none runs, ends it with one outcome for all its inputs, or drops  *)
(* what waits; whatever else the daemon does leaves the inputs alone.      *)
THEOREM IsTurnService == Spec => ImplementsTurnService
<1>1. Init => Service!Init
  <2> SUFFICES ASSUME Init PROVE Service!Init
    OBVIOUS
  <2>1. Waiting \subseteq Ids /\ \A i \in Ids : fate[i] \in {"new", "queued"}
    BY DEF Waiting, Init
  <2>2. \A g \in Gens : worker[g] \in {"fresh", "none"}
    BY DEF Init
  <2>3. Serves = {} /\ Outcome = [i \in Ids |-> "none"]
    BY <2>1, <2>2 DEF Serves, Outcome, Outcomes
  <2> QED
    BY <2>1, <2>3 DEF Service!Init, Waiting, Serves, Outcome
<1>2. Base /\ Base' /\ [Next]_vars => [Service!Next]_(Service!vars)
  <2> SUFFICES ASSUME Base, Base', [Next]_vars PROVE [Service!Next]_(Service!vars)
    OBVIOUS
  <2>1. Accounts /\ Accounts' /\ fate \in [Ids -> Fates] /\ FateStep
    BY AccountsStep DEF Base, GenInv, TypeOK
  <2> QED
    BY <2>1, ServiceStep
<1> QED
  BY <1>1, <1>2, BaseHolds, PTL DEF Spec, ImplementsTurnService, Service!Spec
=============================================================================
