--------------------------- MODULE ToolLoopProofs ---------------------------
(***************************************************************************)
(* For any inputs and any bounds: the flags of a tool loop agree with its  *)
(* queue and its task, and it is the turn service that a Session promises  *)
(* to be.                                                                  *)
(***************************************************************************)
EXTENDS ToolLoop, SequenceTheorems, TLAPS

----------------------------------------------------------------------------
(* The queue as a set                                                      *)

Once(s) == \A i, j \in DOMAIN s : s[i] = s[j] => i = j

(* A turn put at the end of the queue is one more in it ...                *)
LEMMA AppendOnce ==
  ASSUME NEW s \in Seq(Turns), NEW t \in Turns
  PROVE  /\ Append(s, t) \in Seq(Turns)
         /\ ToSet(Append(s, t)) = ToSet(s) \cup {t}
         /\ Once(s) /\ t \notin ToSet(s) => Once(Append(s, t))
<1> DEFINE r == Append(s, t)
<1>1. r \in Seq(Turns) /\ DOMAIN r = 1..(Len(s) + 1) /\ DOMAIN s = 1..Len(s) /\ Len(s) \in Nat
  OBVIOUS
<1>2. \A i \in 1..Len(s) : r[i] = s[i]
  OBVIOUS
<1>3. r[Len(s) + 1] = t
  OBVIOUS
<1>4. ToSet(r) = ToSet(s) \cup {t}
  BY <1>1, <1>2, <1>3 DEF ToSet
<1>5. Once(s) /\ t \notin ToSet(s) => Once(r)
  BY <1>1, <1>2, <1>3 DEF Once, ToSet
<1> QED
  BY <1>1, <1>4, <1>5

(* ... and the one that is taken from its head is one less.                *)
LEMMA TailOnce ==
  ASSUME NEW s \in Seq(Turns), Once(s), s # <<>>
  PROVE  /\ Tail(s) \in Seq(Turns) /\ Head(s) \in ToSet(s) /\ Head(s) \in Turns
         /\ ToSet(Tail(s)) = ToSet(s) \ {Head(s)}
         /\ Once(Tail(s))
<1> DEFINE r == Tail(s)
<1>1. r \in Seq(Turns) /\ DOMAIN r = 1..(Len(s) - 1) /\ DOMAIN s = 1..Len(s)
      /\ Len(s) \in Nat /\ Len(s) >= 1
  OBVIOUS
<1>2. \A i \in 1..(Len(s) - 1) : r[i] = s[i + 1]
  OBVIOUS
<1>3. Head(s) = s[1] /\ s[1] \in Turns
  BY <1>1
<1>4. Once(r)
  BY <1>1, <1>2 DEF Once
<1>5. ToSet(r) = ToSet(s) \ {s[1]}
  <2>1. \A x \in ToSet(r) : x \in ToSet(s) /\ x # s[1]
    BY <1>1, <1>2 DEF Once, ToSet
  <2>2. ASSUME NEW x \in ToSet(s), x # s[1] PROVE x \in ToSet(r)
    <3>1. PICK i \in 1..Len(s) : x = s[i]
      BY <1>1 DEF ToSet
    <3>2. i - 1 \in 1..(Len(s) - 1) /\ r[i - 1] = x
      BY <1>1, <1>2, <2>2, <3>1
    <3> QED
      BY <1>1, <3>2 DEF ToSet
  <2> QED
    BY <2>1, <2>2
<1>6. Head(s) \in ToSet(s)
  BY <1>1, <1>3 DEF ToSet
<1> QED
  BY <1>1, <1>3, <1>4, <1>5, <1>6

LEMMA QueueOfTurns == ASSUME NEW s \in Seq(Turns) PROVE ToSet(s) \subseteq Turns
BY DEF ToSet

LEMMA EmptyQueue == <<>> \in Seq(Turns) /\ ToSet(<<>>) = {} /\ Once(<<>>)
BY DEF ToSet, Once

----------------------------------------------------------------------------
(* The invariant                                                           *)

Workers == {"none", "ready", "waits", "done"}
Tasks   == [turn : Turns \cup {NoTurn}, step : Steps, rounds : 0..MaxIters]

Types ==
  /\ pending \in Seq(Turns) /\ Once(pending)
  /\ current \in Tasks /\ worker \in Workers
  /\ outcome \in [Turns -> Outcomes \cup {"none"}]
  /\ closed \in BOOLEAN /\ idle \in BOOLEAN

(* A turn that waits has no outcome; the task of the turn that runs has one*)
(* when it is done, and not before.                                        *)
Places ==
  /\ \A t \in ToSet(pending) : outcome[t] = "none"
  /\ current.turn \notin ToSet(pending)
  /\ current.turn \in Turns => (outcome[current.turn] = "none" <=> current.step # "done")

(* The worker waits exactly for a task; a task that asks may still ask; a  *)
(* task is cancelled by close only.                                        *)
OneTask ==
  /\ current.turn = NoTurn => current = NoTask
  /\ worker = "waits" <=> current.turn # NoTurn
  /\ current.turn # NoTurn => current.step # "none"
  /\ current.step = "asks" => current.rounds < MaxIters
  /\ current.step \in {"cancelling", "cancelled"} => closed

Flags ==
  /\ worker \in {"ready", "waits"} <=> ~idle
  /\ pending # <<>> => ~idle
  /\ closed => pending = <<>> /\ current.step \notin {"created", "asks", "calls"}
  /\ closing # "no" => closed
  /\ closing = "done" => state = "stopped" /\ worker \in {"none", "done"}

IInv == Types /\ Places /\ OneTask /\ Flags

LEMMA Facts ==
  /\ NoTurn \notin Turns /\ NoTask \in Tasks /\ MaxIters \in Nat /\ MaxIters >= 1
  /\ \A t \in Turns : Task(t) \in Tasks
BY ToolLoopAssumption, NoTurnAssumption DEF Tasks, Task, NoTask, Steps

LEMMA Consistent == IInv => ToolLoopConsistent
BY NoTurnAssumption DEF IInv, Types, Places, OneTask, Flags, ToolLoopConsistent, Tasks, Workers,
   NoTask, IsInjective, Once, Steps

LEMMA InitHolds == Init => IInv
<1> SUFFICES ASSUME Init PROVE IInv
  OBVIOUS
<1>1. /\ pending = <<>> /\ current = NoTask /\ worker = "none" /\ idle = TRUE
      /\ closed = FALSE /\ closing = "no" /\ outcome = [t \in Turns |-> "none"]
  BY DEF Init, Blank
<1>2. Types
  BY <1>1, Facts, EmptyQueue DEF Types, Workers
<1>3. Places /\ OneTask /\ Flags
  BY <1>1, Facts, EmptyQueue DEF Places, OneTask, Flags, NoTask
<1> QED
  BY <1>2, <1>3 DEF IInv

(* What the loop does where it has no turn.                                *)
LEMMA LoopsKeeps ==
  ASSUME IInv, NEW es, Loops(es), worker \in {"ready", "waits"},
         closed' = closed, closing' = closing,
         outcome' \in [Turns -> Outcomes \cup {"none"}],
         \A t \in Turns : t # current.turn => outcome'[t] = outcome[t]
  PROVE  IInv'
<1> USE DEF IInv
<1>1. CASE pending # <<>> /\ ~closed
  <2> DEFINE t == Head(pending)
  <2>1. /\ pending' = Tail(pending) /\ current' = Task(t) /\ worker' = "waits"
        /\ idle' = idle
    BY <1>1 DEF Loops
  <2>2. /\ Tail(pending) \in Seq(Turns) /\ Once(Tail(pending)) /\ t \in Turns
        /\ ToSet(Tail(pending)) = ToSet(pending) \ {t} /\ t \in ToSet(pending)
    BY <1>1, TailOnce DEF Types
  <2>3. Types'
    BY <2>1, <2>2, Facts DEF Types, Workers
  <2>4. t # current.turn
    BY <2>2 DEF Places
  <2>5. Places'
    <3>1. ToSet(pending) \subseteq Turns
      BY QueueOfTurns DEF Types
    <3>2. /\ outcome'[t] = "none" /\ t \notin ToSet(Tail(pending))
          /\ \A u \in ToSet(Tail(pending)) : outcome'[u] = "none"
      BY <2>2, <2>4, <3>1 DEF Places
    <3> QED
      BY <2>1, <3>2 DEF Places, Task
  <2>6. OneTask' /\ Flags'
    BY <1>1, <2>1, <2>2, Facts DEF OneTask, Flags, Task, NoTask
  <2> QED
    BY <2>3, <2>5, <2>6
<1>2. CASE pending = <<>> \/ closed
  <2>1. /\ pending' = <<>> /\ pending = <<>> /\ current' = NoTask /\ worker' = "done"
        /\ idle' = TRUE
    BY <1>2 DEF Loops, Flags
  <2>2. Types' /\ Places' /\ OneTask'
    BY <2>1, Facts, EmptyQueue DEF Types, Places, OneTask, Workers, NoTask
  <2>3. Flags'
    BY <2>1 DEF Flags, NoTask
  <2> QED
    BY <2>2, <2>3
<1> QED
  BY <1>1, <1>2

(* A turn that ends has its outcome and nothing else changes for it.       *)
LEMMA EndsKeeps ==
  ASSUME IInv, NEW how \in {"completed", "failed"}, Ends(how), TurnKeeps,
         current.step \in {"created", "asks", "calls"}
  PROVE  IInv'
<1> USE DEF IInv
<1>1. current.turn \in Turns
  BY DEF OneTask, NoTask, Types, Tasks
<1>2. current' = [current EXCEPT !.step = "done"]
      /\ outcome' = [outcome EXCEPT ![current.turn] = how]
  BY DEF Ends
<1>3. UNCHANGED <<pending, worker, closed, idle, closing, state>>
  BY DEF TurnKeeps
<1>4. Types'
  BY <1>1, <1>2, <1>3 DEF Types, Tasks, Outcomes, Steps
<1>5. Places'
  BY <1>1, <1>2, <1>3, QueueOfTurns DEF Places, Types, Tasks
<1>6. OneTask' /\ Flags'
  BY <1>1, <1>2, <1>3, Facts DEF OneTask, Flags, Types, Tasks, NoTask
<1> QED
  BY <1>4, <1>5, <1>6

(* A turn that goes on keeps its place.                                    *)
LEMMA GoesKeeps ==
  ASSUME IInv, NEW step \in Steps \ {"none", "created", "done"}, NEW n \in 0..MaxIters,
         Goes(step, n), TurnKeeps, current.step \notin {"none", "done"},
         step = "asks" => n < MaxIters,
         step \in {"asks", "calls"} => current.step \in {"created", "asks", "calls"},
         step \in {"cancelling", "cancelled"} => closed
  PROVE  IInv'
<1> USE DEF IInv
<1>1. current.turn \in Turns
  BY DEF OneTask, NoTask, Types, Tasks
<1>2. /\ current' = [current EXCEPT !.step = step, !.rounds = n]
      /\ outcome' = outcome
  BY DEF Goes
<1>3. UNCHANGED <<pending, worker, closed, idle, closing, state>>
  BY DEF TurnKeeps
<1>4. Types'
  BY <1>1, <1>2, <1>3 DEF Types, Tasks
<1>5. Places' /\ OneTask' /\ Flags'
  BY <1>1, <1>2, <1>3, Facts DEF Places, OneTask, Flags, Types, Tasks, NoTask
<1> QED
  BY <1>4, <1>5

(* Whoever loses turns that waited or ran leaves the others as they are.   *)
LEMMA LosingType ==
  ASSUME Types, NEW ts, Losing(ts)
  PROVE  /\ outcome' \in [Turns -> Outcomes \cup {"none"}]
         /\ \A t \in Turns : t \notin ts => outcome'[t] = outcome[t]
         /\ \A t \in Turns : outcome[t] # "none" => outcome'[t] = outcome[t]
BY DEF Types, Losing, Outcomes

LEMMA StepHolds == IInv /\ [Next]_vars => IInv'
<1> SUFFICES ASSUME IInv, [Next]_vars PROVE IInv'
  OBVIOUS
<1> USE DEF IInv
<1>1. ASSUME NEW t \in Turns, Submit(t) PROVE IInv'
  <2>1. /\ ~closed /\ outcome[t] = "none" /\ t \notin ToSet(pending) /\ t # current.turn
        /\ pending' = Append(pending, t) /\ idle' = FALSE /\ worker' = WorkerFor
        /\ UNCHANGED <<closed, closing, state, current, outcome>>
    BY <1>1 DEF Submit, Known, history
  <2>2. Types'
    BY <2>1, AppendOnce DEF Types, Workers, WorkerFor
  <2>3. Places'
    BY <2>1, AppendOnce DEF Places, Types
  <2>4. OneTask' /\ Flags'
    BY <2>1 DEF OneTask, Flags, WorkerFor, Types, Workers
  <2> QED
    BY <2>2, <2>3, <2>4
<1>2. ASSUME WorkerBegins PROVE IInv'
  BY <1>2, LoopsKeeps DEF WorkerBegins, Types, history
<1>3. ASSUME TurnOver PROVE IInv'
  <2>1. /\ closed' = closed /\ closing' = closing /\ worker = "waits"
        /\ current.turn \in Turns
    BY <1>3, Facts DEF TurnOver, OneTask, Types, Tasks
  <2>2. CASE current.step = "cancelled"
    <3>1. /\ Loops(<<Event(current.turn, "finished")>>)
          /\ outcome' = [outcome EXCEPT ![current.turn] = "cancelled"]
      BY <1>3, <2>2 DEF TurnOver
    <3>2. /\ outcome' \in [Turns -> Outcomes \cup {"none"}]
          /\ \A t \in Turns : t # current.turn => outcome'[t] = outcome[t]
      BY <2>1, <3>1 DEF Types, Outcomes
    <3> QED
      BY <2>1, <3>1, <3>2, LoopsKeeps
  <2>3. CASE current.step # "cancelled"
    <3>1. Loops(<<>>) /\ outcome' = outcome
      BY <1>3, <2>3 DEF TurnOver
    <3> QED
      BY <2>1, <3>1, LoopsKeeps DEF Types
  <2> QED
    BY <2>2, <2>3
<1>4. ASSUME TurnBegins PROVE IInv'
  <2>1. CASE Goes("asks", 0)
    BY <1>4, <2>1, Facts, GoesKeeps DEF TurnBegins, Steps
  <2>2. CASE Ends("failed")
    BY <1>4, <2>2, EndsKeeps DEF TurnBegins
  <2> QED
    BY <1>4, <2>1, <2>2 DEF TurnBegins
<1>5. ASSUME Answered PROVE IInv'
  <2>1. CASE Ends("completed") \/ Ends("failed")
    BY <1>5, <2>1, EndsKeeps DEF Answered
  <2>2. CASE Goes("calls", current.rounds + 1)
    <3>1. current.rounds + 1 \in 0..MaxIters
      BY <1>5, Facts DEF Answered, OneTask, Types, Tasks
    <3> QED
      BY <1>5, <2>2, <3>1, GoesKeeps DEF Answered, Steps
  <2> QED
    BY <1>5, <2>1, <2>2 DEF Answered
<1>6. ASSUME ToolsDone PROVE IInv'
  <2>1. CASE current.rounds < MaxIters
    <3>1. Goes("asks", current.rounds) /\ current.rounds \in 0..MaxIters
      BY <1>6, <2>1 DEF ToolsDone, Types, Tasks
    <3> QED
      BY <1>6, <2>1, <3>1, GoesKeeps DEF ToolsDone, Steps
  <2>2. CASE ~(current.rounds < MaxIters)
    BY <1>6, <2>2, EndsKeeps DEF ToolsDone
  <2> QED
    BY <2>1, <2>2
<1>7. ASSUME TurnCancelled PROVE IInv'
  <2>1. /\ Goes("cancelled", current.rounds) /\ current.rounds \in 0..MaxIters
        /\ current.step = "cancelling" /\ closed
    BY <1>7 DEF TurnCancelled, Types, Tasks, OneTask
  <2> QED
    BY <1>7, <2>1, GoesKeeps DEF TurnCancelled, Steps
<1>8. ASSUME BeginShutdown PROVE IInv'
  <2>1. CASE registered
    <3>1. /\ closed' = TRUE /\ pending' = <<>> /\ Losing(ToSet(pending))
          /\ current' = Cancelled /\ closing' = "waits" /\ UNCHANGED <<worker, idle, state>>
      BY <1>8, <2>1 DEF BeginShutdown
    <3>2. current' \in Tasks /\ current'.turn = current.turn
          /\ (current.step \in {"none", "done"} => current' = current)
          /\ (current.step \notin {"none", "done"} =>
                current' = [current EXCEPT !.step = "cancelling"])
      BY <3>1 DEF Cancelled, Types, Tasks, Steps
    <3>3. Types'
      BY <3>1, <3>2, LosingType, EmptyQueue DEF Types
    <3>4. Places'
      BY <3>1, <3>2, LosingType, EmptyQueue DEF Places, Types, Tasks
    <3>5. OneTask' /\ Flags'
      BY <3>1, <3>2, Facts DEF OneTask, Flags, NoTask, Types, Tasks
    <3> QED
      BY <3>3, <3>4, <3>5
  <2>2. CASE ~registered
    BY <1>8, <2>2 DEF BeginShutdown, Types, Places, OneTask, Flags
  <2> QED
    BY <2>1, <2>2
<1>9. ASSUME Closed PROVE IInv'
  BY <1>9 DEF Closed, Types, Places, OneTask, Flags, Workers, history
<1>10. ASSUME ProcessEnds \/ ProcessDies PROVE IInv'
  <2>1. /\ pending' = <<>> /\ current' = NoTask /\ worker' = "none" /\ idle' = TRUE
        /\ closed' = FALSE /\ closing' = "no"
        /\ Losing(ToSet(pending) \cup {current.turn})
    BY <1>10 DEF ProcessEnds, ProcessDies, Gone
  <2>2. Types'
    BY <2>1, LosingType, EmptyQueue, Facts DEF Types, Workers
  <2>3. Places' /\ OneTask' /\ Flags'
    BY <2>1, EmptyQueue, Facts DEF Places, OneTask, Flags, NoTask
  <2> QED
    BY <2>2, <2>3
<1>11. ASSUME Consume \/ Flushed \/ Restart \/ UNCHANGED vars PROVE IInv'
  BY <1>11 DEF Consume, Flushed, Restart, vars, runtime, history, Types, Places, OneTask, Flags
<1> QED
  BY <1>1, <1>2, <1>3, <1>4, <1>5, <1>6, <1>7, <1>8, <1>9, <1>10, <1>11 DEF Next

----------------------------------------------------------------------------
(* The memory                                                              *)

(* What is kept of the turns s.                                            *)
Kept(s) == IF Len(s) <= MaxTurns THEN s ELSE LastTurns(s)

LEMMA KeptIs ==
  ASSUME NEW s \in Seq(Turns)
  PROVE  /\ Kept(s) \in Seq(Turns) /\ Len(Kept(s)) <= MaxTurns
         /\ Len(s) <= MaxTurns => Kept(s) = s
         /\ Len(s) > MaxTurns => /\ Len(Kept(s)) = MaxTurns
                                 /\ \A i \in 1..MaxTurns : Kept(s)[i] = s[Len(s) - MaxTurns + i]
<1>1. MaxTurns \in Nat /\ MaxTurns >= 1 /\ Len(s) \in Nat
  BY ToolLoopAssumption
<1>2. CASE Len(s) <= MaxTurns
  BY <1>1, <1>2 DEF Kept
<1>3. CASE Len(s) > MaxTurns
  <2> DEFINE m == Len(s) - MaxTurns + 1
  <2>1. m \in 1..(Len(s) + 1) /\ Len(s) \in 0..Len(s) /\ Len(s) - m + 1 = MaxTurns /\ m <= Len(s) + 1
    BY <1>1, <1>3
  <2>2. /\ SubSeq(s, m, Len(s)) \in Seq(Turns)
        /\ Len(SubSeq(s, m, Len(s))) = Len(s) - m + 1
        /\ \A i \in 1..(Len(s) - m + 1) : SubSeq(s, m, Len(s))[i] = s[m + i - 1]
    BY <2>1, SubSeqProperties
  <2>3. Kept(s) = SubSeq(s, m, Len(s))
    BY <1>1, <1>3 DEF Kept, LastTurns
  <2>4. \A i \in 1..MaxTurns : m + i - 1 = Len(s) - MaxTurns + i
    BY <1>1
  <2> QED
    BY <1>1, <1>3, <2>1, <2>2, <2>3, <2>4
<1> QED
  BY <1>1, <1>2, <1>3

(* add_turn drops what a longer list of turns would not have kept.         *)
LEMMA RememberedIs == \A s \in Seq(Turns) : Remembered(s) = Kept(s)
BY ToolLoopAssumption DEF Remembered, Kept, LastTurns

LEMMA KeptGrows ==
  ASSUME NEW s \in Seq(Turns), NEW t \in Turns
  PROVE  Kept(Append(Kept(s), t)) = Kept(Append(s, t))
<1> DEFINE k == Kept(s)
           a == Append(k, t)
           b == Append(s, t)
<1>1. MaxTurns \in Nat /\ MaxTurns >= 1 /\ Len(s) \in Nat
  BY ToolLoopAssumption
<1>2. /\ k \in Seq(Turns) /\ Len(k) <= MaxTurns /\ Len(k) \in Nat
      /\ Len(s) > MaxTurns => /\ Len(k) = MaxTurns
                              /\ \A i \in 1..MaxTurns : k[i] = s[Len(s) - MaxTurns + i]
      /\ Len(s) <= MaxTurns => k = s
  BY KeptIs
<1> HIDE DEF k
<1>3. /\ a \in Seq(Turns) /\ Len(a) = Len(k) + 1 /\ a[Len(k) + 1] = t
      /\ \A i \in 1..Len(k) : a[i] = k[i]
      /\ b \in Seq(Turns) /\ Len(b) = Len(s) + 1 /\ b[Len(s) + 1] = t
      /\ \A i \in 1..Len(s) : b[i] = s[i]
  BY <1>2, AppendProperties
<1> HIDE DEF a, b
<1>4. CASE Len(s) <= MaxTurns
  <2>1. k = s
    BY <1>2, <1>4
  <2> QED
    BY <2>1 DEF k
<1>5. CASE Len(s) > MaxTurns
  <2>1. /\ Len(k) = MaxTurns /\ Len(a) = MaxTurns + 1 /\ Len(a) > MaxTurns /\ Len(b) > MaxTurns
        /\ Len(a) - MaxTurns = 1 /\ Len(b) - MaxTurns = Len(s) - MaxTurns + 1
    BY <1>1, <1>2, <1>3, <1>5
  <2>2. /\ Kept(a) \in Seq(Turns) /\ Len(Kept(a)) = MaxTurns
        /\ \A i \in 1..MaxTurns : Kept(a)[i] = a[Len(a) - MaxTurns + i]
    BY <1>3, <2>1, KeptIs
  <2>3. /\ Kept(b) \in Seq(Turns) /\ Len(Kept(b)) = MaxTurns
        /\ \A i \in 1..MaxTurns : Kept(b)[i] = b[Len(b) - MaxTurns + i]
    BY <1>3, <2>1, KeptIs
  <2>4. ASSUME NEW i \in 1..MaxTurns PROVE Kept(a)[i] = Kept(b)[i]
    <3>1. /\ Kept(a)[i] = a[1 + i] /\ Kept(b)[i] = b[Len(s) - MaxTurns + 1 + i]
      BY <2>1, <2>2, <2>3
    <3>2. CASE i = MaxTurns
      <4>1. 1 + i = Len(k) + 1 /\ Len(s) - MaxTurns + 1 + i = Len(s) + 1
        BY <1>1, <2>1, <3>2
      <4> QED
        BY <1>3, <3>1, <4>1
    <3>3. CASE i # MaxTurns
      <4>1. /\ 1 + i \in 1..MaxTurns /\ 1 + i \in 1..Len(k)
            /\ Len(s) - MaxTurns + (1 + i) = Len(s) - MaxTurns + 1 + i
            /\ Len(s) - MaxTurns + 1 + i \in 1..Len(s)
        BY <1>1, <1>5, <2>1, <3>3
      <4>2. a[1 + i] = k[1 + i] /\ k[1 + i] = s[Len(s) - MaxTurns + (1 + i)]
        BY <1>2, <1>3, <1>5, <4>1
      <4>3. b[Len(s) - MaxTurns + 1 + i] = s[Len(s) - MaxTurns + 1 + i]
        BY <1>3, <4>1
      <4> QED
        BY <3>1, <4>1, <4>2, <4>3
    <3> QED
      BY <3>2, <3>3
  <2>5. Len(Kept(a)) = Len(Kept(b)) /\ \A i \in 1..Len(Kept(a)) : Kept(a)[i] = Kept(b)[i]
    BY <2>2, <2>3, <2>4
  <2>6. Kept(a) = Kept(b)
    BY <2>2, <2>3, <2>5, SeqEqual
  <2> QED
    BY <2>6 DEF a, b, k
<1> QED
  BY <1>1, <1>4, <1>5

(* The memory is what is kept of the turns answered, here and, as far as   *)
(* they were remembered then, by the processes before; its members have    *)
(* their outcome; and what is on disk is short enough to be loaded.        *)
Memory ==
  /\ {memory, disk, loaded, ended} \subseteq Seq(Turns)
  /\ memory = Kept(loaded \o ended)
  /\ Len(disk) <= MaxTurns
  /\ faults \in Nat /\ (faults = 0 => disk = memory)
  /\ \A t \in ToSet(memory) \cup ToSet(disk) : outcome[t] \in {"completed", "failed"}

LEMMA MemoryInit == Init => Memory
<1> SUFFICES ASSUME Init PROVE Memory
  OBVIOUS
<1>1. memory = <<>> /\ disk = <<>> /\ loaded = <<>> /\ ended = <<>> /\ faults = 0
  BY DEF Init, Blank
<1>2. <<>> \in Seq(Turns) /\ Len(<<>>) = 0 /\ ToSet(<<>>) = {} /\ <<>> \o <<>> = <<>>
  BY EmptyQueue, ConcatEmptySeq, EmptySeq
<1>3. Kept(<<>>) = <<>>
  BY <1>2, ToolLoopAssumption DEF Kept
<1> QED
  BY <1>1, <1>2, <1>3, ToolLoopAssumption DEF Memory

(* A turn that is kept was in the list before.                             *)
LEMMA KeptMembers == \A s \in Seq(Turns) : ToSet(Kept(s)) \subseteq ToSet(s)
<1> SUFFICES ASSUME NEW s \in Seq(Turns), NEW t \in ToSet(Kept(s)) PROVE t \in ToSet(s)
  OBVIOUS
<1>1. MaxTurns \in Nat /\ MaxTurns >= 1 /\ Len(s) \in Nat /\ DOMAIN s = 1..Len(s)
  BY ToolLoopAssumption
<1>2. CASE Len(s) <= MaxTurns
  BY <1>2 DEF Kept
<1>3. CASE Len(s) > MaxTurns
  <2>1. /\ Kept(s) \in Seq(Turns) /\ Len(Kept(s)) = MaxTurns
        /\ \A i \in 1..MaxTurns : Kept(s)[i] = s[Len(s) - MaxTurns + i]
    BY <1>3, KeptIs
  <2>2. PICK i \in 1..MaxTurns : t = Kept(s)[i]
    BY <2>1 DEF ToSet
  <2>3. Len(s) - MaxTurns + i \in 1..Len(s)
    BY <1>1, <1>3
  <2> QED
    BY <1>1, <2>1, <2>2, <2>3 DEF ToSet
<1> QED
  BY <1>1, <1>2, <1>3

LEMMA ConcatAppend ==
  ASSUME NEW r \in Seq(Turns), NEW s \in Seq(Turns), NEW t \in Turns
  PROVE  r \o Append(s, t) = Append(r \o s, t)
<1>1. <<t>> \in Seq(Turns) /\ r \o s \in Seq(Turns)
  BY ConcatProperties
<1>2. Append(s, t) = s \o <<t>> /\ Append(r \o s, t) = (r \o s) \o <<t>>
  BY <1>1, AppendIsConcat
<1> QED
  BY <1>1, <1>2, ConcatAssociative

(* An answered turn is put at the end of the memory, and of the file where *)
(* it can be written.                                                      *)
LEMMA MemoryEnds ==
  ASSUME IInv, Memory, NEW how \in {"completed", "failed"}, Ends(how), UNCHANGED loaded,
         current.turn \in Turns
  PROVE  Memory'
<1> DEFINE t == current.turn
<1>1. /\ memory' = Remembered(Append(memory, t))
      /\ (disk' = memory' /\ faults' = faults) \/ (faults' = faults + 1 /\ disk' = disk)
      /\ outcome' = [outcome EXCEPT ![t] = how] /\ ended' = Append(ended, t)
  BY DEF Ends
<1>2. /\ memory \in Seq(Turns) /\ disk \in Seq(Turns) /\ loaded \in Seq(Turns) /\ ended \in Seq(Turns)
      /\ outcome \in [Turns -> Outcomes \cup {"none"}] /\ faults \in Nat
  BY DEF Memory, IInv, Types
<1>3. /\ Append(memory, t) \in Seq(Turns) /\ ToSet(Append(memory, t)) = ToSet(memory) \cup {t}
      /\ ended' \in Seq(Turns)
  BY <1>1, <1>2, AppendOnce
<1>4. /\ memory' = Kept(Append(memory, t)) /\ memory' \in Seq(Turns) /\ Len(memory') <= MaxTurns
      /\ ToSet(memory') \subseteq ToSet(memory) \cup {t}
  <2> DEFINE a == Append(memory, t)
  <2>1. a \in Seq(Turns) /\ memory' = Remembered(a) /\ ToSet(a) = ToSet(memory) \cup {t}
    BY <1>1, <1>3
  <2> HIDE DEF a
  <2>2. memory' = Kept(a)
    BY <2>1, RememberedIs
  <2>3. Kept(a) \in Seq(Turns) /\ Len(Kept(a)) <= MaxTurns
    BY <2>1, KeptIs
  <2>4. ToSet(Kept(a)) \subseteq ToSet(a)
    BY <2>1, KeptMembers
  <2> QED
    BY <2>1, <2>2, <2>3, <2>4 DEF a
<1>5. memory' = Kept(loaded' \o ended')
  <2>1. loaded \o ended \in Seq(Turns) /\ loaded \o Append(ended, t) = Append(loaded \o ended, t)
    BY <1>2, ConcatProperties, ConcatAppend
  <2>2. Kept(Append(Kept(loaded \o ended), t)) = Kept(Append(loaded \o ended, t))
    BY <2>1, KeptGrows
  <2> QED
    BY <1>1, <1>4, <2>1, <2>2 DEF Memory
<1>6. /\ disk' \in Seq(Turns) /\ Len(disk') <= MaxTurns
      /\ faults' \in Nat /\ (faults' = 0 => disk' = memory')
      /\ ToSet(disk') \subseteq ToSet(disk) \cup ToSet(memory')
  BY <1>1, <1>2, <1>4 DEF Memory
<1>7. ASSUME NEW u \in ToSet(memory') \cup ToSet(disk')
      PROVE  outcome'[u] \in {"completed", "failed"}
  <2>1. u \in ToSet(memory) \cup ToSet(disk) \cup {t} /\ u \in Turns
    BY <1>2, <1>4, <1>6, QueueOfTurns
  <2> QED
    BY <1>1, <1>2, <2>1 DEF Memory
<1> QED
  BY <1>2, <1>3, <1>4, <1>5, <1>6, <1>7 DEF Memory

LEMMA MemoryKept ==
  ASSUME Memory, UNCHANGED <<memory, disk, loaded, ended, faults>>,
         \A t \in Turns : outcome[t] # "none" => outcome'[t] = outcome[t]
  PROVE  Memory'
<1>1. ASSUME NEW t \in ToSet(memory) \cup ToSet(disk) PROVE outcome'[t] = outcome[t]
  <2>1. t \in Turns /\ outcome[t] \in {"completed", "failed"}
    BY QueueOfTurns DEF Memory
  <2> QED
    BY <2>1
<1> QED
  BY <1>1 DEF Memory

LEMMA MemoryStep == IInv /\ Memory /\ [Next]_vars => Memory'
<1> SUFFICES ASSUME IInv, Memory, [Next]_vars PROVE Memory'
  OBVIOUS
<1>1. ASSUME TurnBegins \/ Answered \/ ToolsDone \/ TurnCancelled PROVE Memory'
  <2>1. current.step \in {"created", "asks", "calls", "cancelling"} /\ TurnKeeps
    BY <1>1 DEF TurnBegins, Answered, ToolsDone, TurnCancelled
  <2>2. current.turn \in Turns
    BY <2>1, Facts DEF IInv, OneTask, NoTask, Types, Tasks
  <2>3. CASE \E how \in {"completed", "failed"} : Ends(how)
    BY <2>1, <2>2, <2>3, MemoryEnds DEF TurnKeeps
  <2>4. CASE \E step, n : Goes(step, n)
    BY <2>1, <2>4, MemoryKept DEF Goes, TurnKeeps
  <2> QED
    BY <1>1, <2>3, <2>4 DEF TurnBegins, Answered, ToolsDone, TurnCancelled
<1>2. ASSUME TurnOver PROVE Memory'
  <2>1. /\ current.turn \in Turns
        /\ current.step = "cancelled" => outcome[current.turn] = "none"
    BY <1>2, Facts DEF TurnOver, IInv, OneTask, Types, Tasks, Places
  <2>2. /\ UNCHANGED <<memory, disk, loaded, ended, faults>>
        /\ \/ outcome' = outcome
           \/ current.step = "cancelled" /\ outcome' = [outcome EXCEPT ![current.turn] = "cancelled"]
    BY <1>2 DEF TurnOver, bounds
  <2>3. \A t \in Turns : outcome[t] # "none" => outcome'[t] = outcome[t]
    BY <2>1, <2>2 DEF IInv, Types
  <2> QED
    BY <2>2, <2>3, MemoryKept
<1>3. ASSUME BeginShutdown PROVE Memory'
  BY <1>3, LosingType, MemoryKept DEF BeginShutdown, IInv, bounds
<1>4. ASSUME ProcessEnds \/ ProcessDies PROVE Memory'
  BY <1>4, LosingType, MemoryKept DEF ProcessEnds, ProcessDies, Gone, IInv, bounds
<1>5. ASSUME Restart PROVE Memory'
  <2>1. /\ memory' = disk /\ loaded' = disk /\ ended' = <<>> /\ disk' = disk
        /\ outcome' = outcome /\ faults' = faults
    BY <1>5 DEF Restart
  <2>2. disk \in Seq(Turns) /\ <<>> \in Seq(Turns) /\ disk \o <<>> = disk /\ Kept(disk) = disk
    BY EmptyQueue, ConcatEmptySeq, KeptIs DEF Memory
  <2> QED
    BY <2>1, <2>2 DEF Memory
<1>6. ASSUME (\E t \in Turns : Submit(t)) \/ WorkerBegins \/ Consume \/ Closed \/ Flushed
             \/ UNCHANGED vars
      PROVE  Memory'
  BY <1>6, MemoryKept DEF Submit, WorkerBegins, Consume, Closed, Flushed, vars, history, bounds
<1> QED
  BY <1>1, <1>2, <1>3, <1>4, <1>5, <1>6 DEF Next

----------------------------------------------------------------------------
(* The refinement: what a step of the tool loop is to the turn service     *)

(* The turn being served is the one of a task that is not done.            *)
LEMMA Serving ==
  ASSUME IInv
  PROVE  /\ current.turn \in Turns /\ current.step # "done" => Unended = {current.turn}
         /\ current.turn \notin Turns \/ current.step = "done" => Unended = {}
         /\ Unended \in SUBSET Turns
BY NoTurnAssumption DEF IInv, Places, Types, Tasks, Unended

(* The loop, between two turns: the first of the queue begins, or nothing. *)
LEMMA LoopsBegins ==
  ASSUME IInv, NEW es, Loops(es), worker \in {"ready", "waits"}, Unended = {},
         outcome' = outcome, IInv'
  PROVE  Service!Begin \/ UNCHANGED Service!vars
<1> USE DEF IInv
<1>1. CASE pending # <<>> /\ ~closed
  <2> DEFINE t == Head(pending)
  <2>1. pending' = Tail(pending) /\ current' = Task(t)
    BY <1>1 DEF Loops
  <2>2. t \in ToSet(pending) /\ t \in Turns /\ ToSet(Tail(pending)) = ToSet(pending) \ {t}
    BY <1>1, TailOnce DEF Types
  <2>3. Unended' = {t}
    BY <2>1, <2>2, Facts DEF Task, Unended, Places
  <2>4. {t} \in (SUBSET ToSet(pending)) \ {{}}
    <3>1. {t} \in SUBSET ToSet(pending) /\ {t} # {}
      BY <2>2
    <3> QED
      BY <3>1
  <2> QED
    BY <2>1, <2>2, <2>3, <2>4 DEF Service!Begin
<1>2. CASE pending = <<>> \/ closed
  <2>1. pending' = pending /\ current' = NoTask
    BY <1>2 DEF Loops, Flags
  <2>2. Unended' = {}
    BY <2>1, Facts DEF Unended, NoTask
  <2> QED
    BY <2>1, <2>2 DEF Service!vars
<1> QED
  BY <1>1, <1>2

(* A turn that has its outcome is no longer served.                        *)
LEMMA EndsFinishes ==
  ASSUME IInv, NEW how \in Outcomes, current.turn \in Turns, Unended = {current.turn},
         outcome' = [outcome EXCEPT ![current.turn] = how], Unended' = {},
         ToSet(pending') = ToSet(pending)
  PROVE  Service!Finish
<1>1. outcome' = [i \in Turns |-> IF i \in Unended THEN how ELSE outcome[i]]
  BY DEF IInv, Types
<1> QED
  BY <1>1 DEF Service!Finish, Service!Ended

LEMMA EndsServed ==
  ASSUME IInv, IInv', NEW how \in {"completed", "failed"}, Ends(how), TurnKeeps,
         current.step \in {"created", "asks", "calls"}
  PROVE  Service!Finish
<1>1. current.turn \in Turns /\ current \in Tasks
  BY DEF IInv, OneTask, NoTask, Types, Tasks
<1>2. /\ current' = [current EXCEPT !.step = "done"]
      /\ outcome' = [outcome EXCEPT ![current.turn] = how] /\ pending' = pending
  BY DEF Ends, TurnKeeps
<1>3. Unended = {current.turn}
  BY <1>1, Serving
<1>4. Unended' = {}
  BY <1>1, <1>2 DEF Unended, Tasks, Steps, IInv, Types
<1> QED
  BY <1>1, <1>2, <1>3, <1>4, EndsFinishes DEF Outcomes

(* The turn's task moves on, or anything else happens that the service does*)
(* not see.                                                                *)
LEMMA Stutters ==
  ASSUME UNCHANGED <<pending, outcome>>, current'.turn = current.turn
  PROVE  UNCHANGED Service!vars
BY DEF Service!vars, Unended

LEMMA ServiceStep ==
  ASSUME IInv, [Next]_vars PROVE [Service!Next]_(Service!vars)
<1> USE DEF IInv
<1>p. IInv'
  BY StepHolds
<1>1. ASSUME NEW t \in Turns, Submit(t) PROVE Service!Accept
  <2>1. /\ outcome[t] = "none" /\ t \notin ToSet(pending) /\ t # current.turn
        /\ pending' = Append(pending, t) /\ UNCHANGED <<current, outcome>>
    BY <1>1 DEF Submit, Known, history
  <2>2. Service!Fresh(t) /\ ToSet(pending') = ToSet(pending) \cup {t} /\ Unended' = Unended
    BY <2>1, AppendOnce DEF Service!Fresh, Unended, Types
  <2> QED
    BY <2>1, <2>2 DEF Service!Accept
<1>2. ASSUME WorkerBegins PROVE Service!Begin \/ UNCHANGED Service!vars
  <2>1. Unended = {} /\ outcome' = outcome /\ Loops(<<>>)
    BY <1>2, Serving, Facts DEF WorkerBegins, OneTask, history
  <2> QED
    BY <1>2, <1>p, <2>1, LoopsBegins DEF WorkerBegins
<1>3. ASSUME TurnOver PROVE Service!Finish \/ Service!Begin \/ UNCHANGED Service!vars
  <2>1. /\ worker = "waits" /\ current.turn \in Turns
        /\ current.step \in {"cancelled", "done"}
    BY <1>3, Facts DEF TurnOver, OneTask, Types, Tasks
  <2>2. CASE current.step = "cancelled"
    <3>1. /\ Loops(<<Event(current.turn, "finished")>>)
          /\ outcome' = [outcome EXCEPT ![current.turn] = "cancelled"]
      BY <1>3, <2>2 DEF TurnOver
    <3>2. pending' = pending /\ current' = NoTask
      BY <2>2, <3>1 DEF Loops, OneTask, Flags
    <3>3. Unended = {current.turn} /\ Unended' = {}
      BY <2>1, <2>2, <3>2, Serving, Facts DEF Unended, NoTask
    <3> QED
      BY <2>1, <3>1, <3>2, <3>3, EndsFinishes DEF Outcomes
  <2>3. CASE current.step = "done"
    <3>1. Loops(<<>>) /\ outcome' = outcome /\ Unended = {}
      BY <1>3, <2>3, Serving DEF TurnOver
    <3> QED
      BY <1>p, <2>1, <3>1, LoopsBegins
  <2> QED
    BY <2>1, <2>2, <2>3
<1>4. ASSUME TurnBegins \/ Answered \/ ToolsDone \/ TurnCancelled
      PROVE Service!Finish \/ UNCHANGED Service!vars
  <2>1. CASE \E how \in {"completed", "failed"} :
               Ends(how) /\ TurnKeeps /\ current.step \in {"created", "asks", "calls"}
    BY <1>p, <2>1, EndsServed
  <2>2. CASE \E step, n : Goes(step, n) /\ TurnKeeps
    <3>1. UNCHANGED <<pending, outcome>> /\ current'.turn = current.turn
      BY <2>2 DEF Goes, TurnKeeps, Types, Tasks
    <3> QED
      BY <3>1, Stutters
  <2> QED
    BY <1>4, <2>1, <2>2 DEF TurnBegins, Answered, ToolsDone, TurnCancelled
<1>5. ASSUME BeginShutdown PROVE Service!Drop \/ UNCHANGED Service!vars
  <2>1. CASE registered
    <3>1. /\ pending' = <<>> /\ Losing(ToSet(pending)) /\ current' = Cancelled
      BY <1>5, <2>1 DEF BeginShutdown
    <3>2. current'.turn = current.turn
      BY <3>1 DEF Cancelled, Types, Tasks
    <3>3. outcome' = [i \in Turns |-> IF i \in ToSet(pending) THEN "lost" ELSE outcome[i]]
      BY <3>1 DEF Losing, Places, Types
    <3>4. Unended' = Unended
      BY <3>2, <3>3 DEF Unended, Places, Types, Tasks
    <3>5. CASE pending = <<>>
      BY <3>1, <3>3, <3>4, <3>5, EmptyQueue DEF Service!vars, Types
    <3>6. CASE pending # <<>>
      <4>1. Head(pending) \in ToSet(pending) /\ ToSet(pending') = {}
        BY <3>1, <3>6, TailOnce, EmptyQueue DEF Types
      <4>2. ToSet(pending) \in (SUBSET ToSet(pending)) \ {{}}
        BY <4>1
      <4> QED
        BY <3>3, <3>4, <4>1, <4>2 DEF Service!Drop
    <3> QED
      BY <3>5, <3>6
  <2>2. CASE ~registered
    BY <1>5, <2>2, Stutters DEF BeginShutdown
  <2> QED
    BY <2>1, <2>2
<1>6. ASSUME ProcessEnds \/ ProcessDies PROVE Service!Abandon
  <2>1. pending' = <<>> /\ current' = NoTask /\ Losing(ToSet(pending) \cup {current.turn})
    BY <1>6 DEF ProcessEnds, ProcessDies, Gone
  <2>2. Unended' = {} /\ ToSet(pending') = {}
    BY <2>1, Facts, EmptyQueue DEF Unended, NoTask
  <2>3. outcome' = [i \in Turns |-> IF i \in ToSet(pending) THEN "lost"
                                    ELSE IF i \in Unended THEN "lost" ELSE outcome[i]]
    <3>1. \A i \in Turns : i \in Unended <=> i = current.turn /\ outcome[i] = "none"
      BY Facts DEF Unended
    <3>2. \A i \in ToSet(pending) : outcome[i] = "none"
      BY DEF Places
    <3> QED
      BY <2>1, <3>1, <3>2 DEF Losing
  <2> QED
    BY <2>2, <2>3 DEF Service!Abandon
<1>7. ASSUME Closed \/ Consume \/ Flushed \/ Restart \/ UNCHANGED vars
      PROVE UNCHANGED Service!vars
  BY <1>7, Stutters DEF Closed, Consume, Flushed, Restart, vars, runtime, history
<1> QED
  BY <1>1, <1>2, <1>3, <1>4, <1>5, <1>6, <1>7 DEF Next, Service!Next

----------------------------------------------------------------------------
(* What is shown.  The line of events is what was shown and what waits to  *)
(* be: an event of a turn keeps its place in it when it is shown, and the  *)
(* death of the daemon cuts the line where it is.                          *)

Kinds == {"accepted", "started", "delta", "finished", "error", "running", "idle", "stopped"}
Said  == [turn : Turns \cup {NoTurn}, is : Kinds]
Single(s) == \A i, j \in DOMAIN s : s[i] = s[j] /\ s[i].turn \in Turns => i = j

LEMMA EventIs ==
  /\ \A t \in Turns \cup {NoTurn}, k \in Kinds : Event(t, k) \in Said
  /\ \A t, k : Event(t, k).turn = t
  /\ \A t, u, k, l : Event(t, k) = Event(u, l) => t = u /\ k = l
BY DEF Event, Said

LEMMA Appended ==
  ASSUME NEW s \in Seq(Said), NEW e \in Said, NEW r, r = s \o <<e>>
  PROVE  /\ r \in Seq(Said) /\ Len(r) = Len(s) + 1 /\ r[Len(s) + 1] = e
         /\ DOMAIN s = 1..Len(s) /\ DOMAIN r = 1..(Len(s) + 1) /\ Len(s) \in Nat
         /\ \A i \in 1..Len(s) : r[i] = s[i]
<1>1. <<e>> \in Seq(Said) /\ Len(<<e>>) = 1 /\ <<e>>[1] = e
  OBVIOUS
<1>2. PICK x : x = <<e>>
  OBVIOUS
<1>3. x \in Seq(Said) /\ Len(x) = 1 /\ x[1] = e /\ r = s \o x
  BY <1>1, <1>2
<1> QED
  BY <1>3, ConcatProperties

(* An event more: what comes before what                                   *)
LEMMA Adds ==
  ASSUME NEW s \in Seq(Said), NEW e \in Said, NEW r, r = s \o <<e>>
  PROVE  /\ r \in Seq(Said) /\ ToSet(r) = ToSet(s) \cup {e}
         /\ \A f, g : Before(r, f, g) <=> Before(s, f, g) \/ (g = e /\ f \in ToSet(s))
         /\ Single(s) /\ (e.turn \in Turns => e \notin ToSet(s)) => Single(r)
<1>1. /\ r \in Seq(Said) /\ Len(r) = Len(s) + 1 /\ r[Len(s) + 1] = e
      /\ DOMAIN s = 1..Len(s) /\ DOMAIN r = 1..(Len(s) + 1) /\ Len(s) \in Nat
      /\ \A i \in 1..Len(s) : r[i] = s[i]
  BY Appended
<1>2. ToSet(r) = ToSet(s) \cup {e}
  BY <1>1 DEF ToSet
<1>3. ASSUME NEW f, NEW g PROVE Before(r, f, g) <=> Before(s, f, g) \/ (g = e /\ f \in ToSet(s))
  <2>1. ASSUME Before(r, f, g) PROVE Before(s, f, g) \/ (g = e /\ f \in ToSet(s))
    <3>1. PICK i \in DOMAIN r : \E j \in DOMAIN r : i < j /\ r[i] = f /\ r[j] = g
      BY <2>1 DEF Before
    <3>2. PICK j \in DOMAIN r : i < j /\ r[i] = f /\ r[j] = g
      BY <3>1
    <3>3. i \in 1..Len(s) /\ s[i] = f
      BY <1>1, <3>2
    <3>4. CASE j = Len(s) + 1
      BY <1>1, <3>2, <3>3, <3>4 DEF ToSet
    <3>5. CASE j # Len(s) + 1
      <4>1. j \in 1..Len(s) /\ s[j] = g
        BY <1>1, <3>2, <3>5
      <4> QED
        BY <1>1, <3>2, <3>3, <4>1 DEF Before
    <3> QED
      BY <3>4, <3>5
  <2>2. ASSUME Before(s, f, g) PROVE Before(r, f, g)
    BY <1>1, <2>2 DEF Before
  <2>3. ASSUME g = e, f \in ToSet(s) PROVE Before(r, f, g)
    <3>1. PICK i \in 1..Len(s) : s[i] = f
      BY <1>1, <2>3 DEF ToSet
    <3>2. i < Len(s) + 1 /\ r[i] = f /\ r[Len(s) + 1] = g /\ i \in DOMAIN r /\ Len(s) + 1 \in DOMAIN r
      BY <1>1, <2>3, <3>1
    <3> QED
      BY <3>2 DEF Before
  <2> QED
    BY <2>1, <2>2, <2>3
<1>4. ASSUME Single(s), e.turn \in Turns => e \notin ToSet(s) PROVE Single(r)
  BY <1>1, <1>4 DEF Single, ToSet
<1> QED
  BY <1>1, <1>2, <1>3, <1>4

(* Two lines that tell the same of the turns                               *)
Alike(s, r) ==
  /\ r \in Seq(Said)
  /\ \A e \in Said : e.turn \in Turns => (e \in ToSet(r) <=> e \in ToSet(s))
  /\ \A e, f \in Said : e.turn \in Turns /\ f.turn \in Turns => (Before(r, e, f) <=> Before(s, e, f))
  /\ Single(s) => Single(r)

LEMMA QuietAdds ==
  ASSUME NEW s \in Seq(Said), NEW k \in Kinds
  PROVE  Alike(s, s \o <<Event(NoTurn, k)>>)
<1>1. PICK e \in Said : e = Event(NoTurn, k) /\ e.turn \notin Turns
  BY EventIs, NoTurnAssumption
<1>2. PICK r : r = s \o <<e>>
  OBVIOUS
<1>3. /\ r \in Seq(Said) /\ ToSet(r) = ToSet(s) \cup {e}
      /\ \A f, g : Before(r, f, g) <=> Before(s, f, g) \/ (g = e /\ f \in ToSet(s))
      /\ Single(s) => Single(r)
  BY <1>1, <1>2, Adds, ZenonT(30)
<1>4. Alike(s, r)
  BY <1>1, <1>3 DEF Alike
<1> QED
  BY <1>1, <1>2, <1>4

LEMMA QuietDrops ==
  ASSUME NEW a \in Seq(Said), NEW b \in Seq(Said), b # <<>>, Head(b).turn \notin Turns
  PROVE  Alike(a \o b, a \o Tail(b))
<1>1. PICK n \in Nat, m \in Nat : n = Len(a) /\ m = Len(b)
  OBVIOUS
<1>2. PICK c \in Seq(Said) : c = Tail(b) /\ Len(c) = m - 1 /\ \A i \in 1..(m - 1) : c[i] = b[i + 1]
  <2>1. /\ Tail(b) \in Seq(Said) /\ Len(Tail(b)) = m - 1
        /\ \A i \in 1..(m - 1) : Tail(b)[i] = b[i + 1]
    BY <1>1
  <2> QED
    BY <2>1
<1>3. m >= 1 /\ b[1] = Head(b)
  BY <1>1, EmptySeq
<1>4. PICK s \in Seq(Said) :
        /\ s = a \o b /\ Len(s) = n + m
        /\ \A i \in 1..(n + m) : s[i] = IF i <= n THEN a[i] ELSE b[i - n]
  <2>1. /\ a \o b \in Seq(Said) /\ Len(a \o b) = n + m
        /\ \A i \in 1..(n + m) : (a \o b)[i] = IF i <= n THEN a[i] ELSE b[i - n]
    BY <1>1, ConcatProperties
  <2> QED
    BY <2>1
<1>5. PICK r \in Seq(Said) :
        /\ r = a \o c /\ Len(r) = n + m - 1
        /\ \A i \in 1..(n + m - 1) : r[i] = IF i <= n THEN a[i] ELSE c[i - n]
  <2>1. Len(a) + Len(c) = n + m - 1
    BY <1>1, <1>2
  <2>2. /\ a \o c \in Seq(Said) /\ Len(a \o c) = n + m - 1
        /\ \A i \in 1..(n + m - 1) : (a \o c)[i] = IF i <= n THEN a[i] ELSE c[i - n]
    BY <1>1, <1>2, <2>1, ConcatProperties
  <2> QED
    BY <2>2
<1> DEFINE up(i)   == IF i <= n THEN i ELSE i + 1
           down(i) == IF i <= n THEN i ELSE i - 1
<1>6. ASSUME NEW i \in 1..(n + m - 1) PROVE up(i) \in 1..(n + m) /\ r[i] = s[up(i)]
  BY <1>2, <1>3, <1>4, <1>5
<1>7. ASSUME NEW i \in 1..(n + m), s[i].turn \in Turns PROVE down(i) \in 1..(n + m - 1) /\ s[i] = r[down(i)] /\ i # n + 1
  <2>1. i # n + 1
    BY <1>3, <1>4, <1>7
  <2>2. CASE i <= n
    <3>1. i \in 1..(n + m - 1) /\ i \in 1..(n + m)
      BY <1>3, <2>2
    <3>2. s[i] = a[i] /\ r[i] = a[i]
      BY <1>4, <1>5, <2>2, <3>1
    <3> QED
      BY <2>1, <2>2, <3>1, <3>2
  <2>3. CASE i > n + 1
    <3>1. i - n \in 2..m /\ i - 1 \in 1..(n + m - 1) /\ i - 1 - n \in 1..(m - 1) /\ i - 1 - n + 1 = i - n
      BY <2>3
    <3>2. ~(i <= n) /\ ~(i - 1 <= n) /\ i \in 1..(n + m)
      BY <2>3
    <3>3. s[i] = b[i - n]
      BY <1>4, <3>2
    <3>4. PICK l \in 1..(n + m - 1) : l = i - 1 /\ ~(l <= n) /\ l - n \in 1..(m - 1) /\ l - n + 1 = i - n
      BY <3>1, <3>2
    <3>5. r[l] = c[l - n] /\ c[l - n] = b[l - n + 1]
      BY <1>2, <1>5, <3>4
    <3> QED
      BY <2>1, <2>3, <3>3, <3>4, <3>5
  <2> QED
    BY <2>1, <2>2, <2>3
<1>8. DOMAIN s = 1..(n + m) /\ DOMAIN r = 1..(n + m - 1)
  BY <1>3, <1>4, <1>5
<1> HIDE DEF up, down
<1>9. ASSUME NEW e \in Said, e.turn \in Turns PROVE e \in ToSet(r) <=> e \in ToSet(s)
  <2>1. ASSUME e \in ToSet(r) PROVE e \in ToSet(s)
    <3>1. PICK i \in 1..(n + m - 1) : r[i] = e
      BY <1>8, <2>1 DEF ToSet
    <3> QED
      BY <1>6, <1>8, <3>1 DEF ToSet
  <2>2. ASSUME e \in ToSet(s) PROVE e \in ToSet(r)
    <3>1. PICK i \in 1..(n + m) : s[i] = e
      BY <1>8, <2>2 DEF ToSet
    <3>2. down(i) \in 1..(n + m - 1) /\ r[down(i)] = e
      BY <1>7, <1>9, <3>1
    <3> QED
      BY <1>8, <3>2 DEF ToSet
  <2> QED
    BY <2>1, <2>2
<1>10. ASSUME NEW e \in Said, NEW f \in Said, e.turn \in Turns, f.turn \in Turns
       PROVE  Before(r, e, f) <=> Before(s, e, f)
  <2>1. ASSUME Before(r, e, f) PROVE Before(s, e, f)
    <3>1. PICK i \in DOMAIN r : \E j \in DOMAIN r : i < j /\ r[i] = e /\ r[j] = f
      BY <2>1 DEF Before
    <3>2. PICK j \in DOMAIN r : i < j /\ r[i] = e /\ r[j] = f
      BY <3>1
    <3>3. up(i) \in DOMAIN s /\ up(j) \in DOMAIN s /\ s[up(i)] = e /\ s[up(j)] = f
      BY <1>6, <1>8, <3>2
    <3>4. i \in Nat /\ j \in Nat
      BY <1>8, <3>2
    <3>5. up(i) < up(j)
      BY <3>2, <3>4 DEF up
    <3> QED
      BY <3>3, <3>5 DEF Before
  <2>2. ASSUME Before(s, e, f) PROVE Before(r, e, f)
    <3>1. PICK i \in DOMAIN s : \E j \in DOMAIN s : i < j /\ s[i] = e /\ s[j] = f
      BY <2>2 DEF Before
    <3>2. PICK j \in DOMAIN s : i < j /\ s[i] = e /\ s[j] = f
      BY <3>1
    <3>3. /\ down(i) \in DOMAIN r /\ down(j) \in DOMAIN r /\ r[down(i)] = e /\ r[down(j)] = f
          /\ i # n + 1 /\ j # n + 1
      BY <1>7, <1>8, <1>10, <3>2
    <3>4. i \in Nat /\ j \in Nat
      BY <1>8, <3>2
    <3>5. down(i) < down(j)
      BY <3>2, <3>3, <3>4 DEF down
    <3> QED
      BY <3>3, <3>5 DEF Before
  <2> QED
    BY <2>1, <2>2
<1>11. ASSUME Single(s) PROVE Single(r)
  <2>1. ASSUME NEW i \in DOMAIN r, NEW j \in DOMAIN r, r[i] = r[j], r[i].turn \in Turns PROVE i = j
    <3>1. up(i) = up(j)
      BY <1>6, <1>8, <1>11, <2>1 DEF Single
    <3>2. i \in Nat /\ j \in Nat
      BY <1>8, <2>1
    <3> QED
      BY <3>1, <3>2 DEF up
  <2> QED
    BY <2>1 DEF Single
<1>12. Alike(s, r)
  BY <1>9, <1>10, <1>11 DEF Alike
<1> QED
  BY <1>2, <1>4, <1>5, <1>12

(* A beginning of a line                                                   *)
LEMMA Begins ==
  ASSUME NEW q \in Seq(Said), NEW p \in Seq(Said), NEW s, s = q \o p
  PROVE  /\ s \in Seq(Said) /\ ToSet(q) \subseteq ToSet(s) /\ (Single(s) => Single(q))
         /\ \A e, f : Before(q, e, f) => Before(s, e, f)
         /\ Single(s) => \A e, f : f.turn \in Turns /\ f \in ToSet(q) /\ Before(s, e, f) => Before(q, e, f)
<1>1. PICK n \in Nat, m \in Nat : n = Len(q) /\ m = Len(p)
  OBVIOUS
<1>2. /\ s \in Seq(Said) /\ Len(s) = n + m /\ \A i \in 1..n : s[i] = q[i]
      /\ DOMAIN q = 1..n /\ DOMAIN s = 1..(n + m)
  BY <1>1, ConcatProperties
<1>3. ToSet(q) \subseteq ToSet(s) /\ (Single(s) => Single(q))
  BY <1>2 DEF ToSet, Single
<1>4. \A e, f : Before(q, e, f) => Before(s, e, f)
  BY <1>2 DEF Before
<1>5. ASSUME Single(s), NEW e, NEW f, f.turn \in Turns, f \in ToSet(q), Before(s, e, f) PROVE Before(q, e, f)
  <2>1. PICK i \in DOMAIN s : \E j \in DOMAIN s : i < j /\ s[i] = e /\ s[j] = f
    BY <1>5 DEF Before
  <2>2. PICK j \in DOMAIN s : i < j /\ s[i] = e /\ s[j] = f
    BY <2>1
  <2>3. PICK k \in DOMAIN q : q[k] = f
    BY <1>5 DEF ToSet
  <2>4. k \in DOMAIN s /\ s[k] = f
    BY <1>2, <2>3
  <2>5. k = j
    BY <1>5, <2>2, <2>4 DEF Single
  <2>6. i \in DOMAIN q /\ q[i] = e
    BY <1>2, <2>2, <2>3, <2>5
  <2> QED
    BY <2>2, <2>3, <2>5, <2>6 DEF Before
<1> QED
  BY <1>2, <1>3, <1>4, <1>5

(* What the line s tells, with turns p queued, c in hand and outcomes o    *)
Accepted(t) == Event(t, "accepted")
Started(t)  == Event(t, "started")
Delta(t)    == Event(t, "delta")
Finished(t) == Event(t, "finished")

Ordered(s) ==
  /\ s \in Seq(Said) /\ Single(s)
  /\ \A t \in Turns : /\ Started(t) \in ToSet(s) => Before(s, Accepted(t), Started(t))
                      /\ Delta(t) \in ToSet(s) => Before(s, Started(t), Delta(t))
                      /\ Finished(t) \in ToSet(s) => Before(s, Started(t), Finished(t))
  /\ \A t, u \in Turns : Before(s, Started(t), Started(u)) => Before(s, Accepted(t), Accepted(u))

Marks(s, p, c, o) ==
  \A t \in Turns :
    /\ Accepted(t) \in ToSet(s) => o[t] # "none" \/ t \in ToSet(p) \/ t = c
    /\ Started(t) \in ToSet(s) => o[t] # "none" \/ t = c
    /\ t \in ToSet(p) => Accepted(t) \in ToSet(s)
    /\ t = c /\ o[t] = "none" => Started(t) \in ToSet(s)

Endings(s, o) ==
  \A t \in Turns :
    /\ Delta(t) \in ToSet(s) => o[t] \in {"completed", "failed"}
    /\ Finished(t) \in ToSet(s) => /\ o[t] \in {"completed", "failed", "cancelled"}
                                   /\ o[t] # "cancelled" => Before(s, Delta(t), Finished(t))

Queued(s, p) ==
  /\ \A t \in Turns, u \in ToSet(p) : Started(t) \in ToSet(s) => Before(s, Accepted(t), Accepted(u))
  /\ \A i, j \in DOMAIN p : i < j => Before(s, Accepted(p[i]), Accepted(p[j]))

Story(s, p, c, o) == Ordered(s) /\ Marks(s, p, c, o) /\ Endings(s, o) /\ Queued(s, p)

LEMMA KindsOfEvents ==
  /\ \A t \in Turns : {Accepted(t), Started(t), Delta(t), Finished(t)} \subseteq Said
  /\ \A t : Accepted(t).turn = t /\ Started(t).turn = t /\ Delta(t).turn = t /\ Finished(t).turn = t
  /\ \A t, u : /\ Accepted(t) = Accepted(u) => t = u
               /\ Started(t) = Started(u) => t = u
               /\ Delta(t) = Delta(u) => t = u
               /\ Finished(t) = Finished(u) => t = u
  /\ \A t, u : /\ Accepted(t) \notin {Started(u), Delta(u), Finished(u)}
               /\ Started(t) \notin {Delta(u), Finished(u)} /\ Delta(t) # Finished(u)
<1>1. {"accepted", "started", "delta", "finished"} \subseteq Kinds
  BY DEF Kinds
<1> QED
  BY <1>1, EventIs DEF Accepted, Started, Delta, Finished

LEMMA BeforeIn == \A s, e, f : Before(s, e, f) => e \in ToSet(s) /\ f \in ToSet(s)
BY DEF Before, ToSet

LEMMA AlikeStory ==
  ASSUME NEW s, NEW r, NEW p \in Seq(Turns), NEW c, NEW o, Story(s, p, c, o), Alike(s, r)
  PROVE  Story(r, p, c, o)
<1>1. r \in Seq(Said) /\ (Single(s) => Single(r))
  BY DEF Alike
<1>2. ASSUME NEW t \in Turns
      PROVE  /\ Accepted(t) \in ToSet(r) <=> Accepted(t) \in ToSet(s)
             /\ Started(t) \in ToSet(r) <=> Started(t) \in ToSet(s)
             /\ Delta(t) \in ToSet(r) <=> Delta(t) \in ToSet(s)
             /\ Finished(t) \in ToSet(r) <=> Finished(t) \in ToSet(s)
             /\ Before(r, Accepted(t), Started(t)) <=> Before(s, Accepted(t), Started(t))
             /\ Before(r, Started(t), Delta(t)) <=> Before(s, Started(t), Delta(t))
             /\ Before(r, Started(t), Finished(t)) <=> Before(s, Started(t), Finished(t))
             /\ Before(r, Delta(t), Finished(t)) <=> Before(s, Delta(t), Finished(t))
  BY KindsOfEvents DEF Alike
<1>3. ASSUME NEW t \in Turns, NEW u \in Turns
      PROVE  /\ Before(r, Started(t), Started(u)) <=> Before(s, Started(t), Started(u))
             /\ Before(r, Accepted(t), Accepted(u)) <=> Before(s, Accepted(t), Accepted(u))
  BY KindsOfEvents DEF Alike
<1>4. Ordered(r)
  BY <1>1, <1>2, <1>3 DEF Story, Ordered
<1>5. Marks(r, p, c, o) /\ Endings(r, o)
  BY <1>2 DEF Story, Marks, Endings
<1>6. Queued(r, p)
  <2>1. ToSet(p) \subseteq Turns /\ \A i \in DOMAIN p : p[i] \in Turns
    BY QueueOfTurns
  <2> QED
    BY <1>2, <1>3, <2>1 DEF Story, Queued
<1> QED
  BY <1>4, <1>5, <1>6 DEF Story

(* An event is the next of its turn.                                       *)
IsNext(s, e) ==
  /\ e \notin ToSet(s)
  /\ \E t \in Turns :
       \/ e = Accepted(t)
       \/ /\ e = Started(t) /\ Accepted(t) \in ToSet(s)
          /\ \A u \in Turns : Started(u) \in ToSet(s) => Before(s, Accepted(u), Accepted(t))
       \/ e \in {Delta(t), Finished(t)} /\ Started(t) \in ToSet(s)

Longer(s, e, r) ==
  /\ Ordered(r) /\ ToSet(r) = ToSet(s) \cup {e}
  /\ \A f, g : Before(r, f, g) <=> Before(s, f, g) \/ (g = e /\ f \in ToSet(s))

LEMMA OrderAdds ==
  ASSUME NEW s, NEW e, NEW r, Ordered(s), IsNext(s, e), r = s \o <<e>>
  PROVE  Longer(s, e, r)
<1>1. s \in Seq(Said) /\ e \in Said
  BY KindsOfEvents DEF Ordered, IsNext
<1>2. /\ r \in Seq(Said) /\ ToSet(r) = ToSet(s) \cup {e} /\ Single(r)
      /\ \A f, g : Before(r, f, g) <=> Before(s, f, g) \/ (g = e /\ f \in ToSet(s))
  BY <1>1, Adds DEF Ordered, IsNext
<1>3. PICK x \in Turns :
        \/ e = Accepted(x)
        \/ /\ e = Started(x) /\ Accepted(x) \in ToSet(s)
           /\ \A u \in Turns : Started(u) \in ToSet(s) => Before(s, Accepted(u), Accepted(x))
        \/ e \in {Delta(x), Finished(x)} /\ Started(x) \in ToSet(s)
  BY DEF IsNext
<1>4. ASSUME NEW t \in Turns
      PROVE  /\ Started(t) \in ToSet(r) => Before(r, Accepted(t), Started(t))
             /\ Delta(t) \in ToSet(r) => Before(r, Started(t), Delta(t))
             /\ Finished(t) \in ToSet(r) => Before(r, Started(t), Finished(t))
  <2>1. /\ Started(t) = e => t = x /\ Accepted(t) \in ToSet(s)
        /\ Delta(t) = e => t = x /\ Started(t) \in ToSet(s)
        /\ Finished(t) = e => t = x /\ Started(t) \in ToSet(s)
    BY <1>3, KindsOfEvents
  <2> QED
    BY <1>2, <2>1 DEF Ordered
<1>5. ASSUME NEW t \in Turns, NEW u \in Turns, Before(r, Started(t), Started(u))
      PROVE  Before(r, Accepted(t), Accepted(u))
  <2>1. CASE Before(s, Started(t), Started(u))
    BY <1>2, <2>1 DEF Ordered
  <2>2. CASE e = Started(u) /\ Started(t) \in ToSet(s)
    <3>1. u = x /\ Before(s, Accepted(t), Accepted(u))
      BY <1>3, <2>2, KindsOfEvents
    <3> QED
      BY <1>2, <3>1
  <2> QED
    BY <1>2, <1>5, <2>1, <2>2
<1> QED
  BY <1>2, <1>4, <1>5 DEF Ordered, Longer

(* submit                                                                  *)
LEMMA StorySubmits ==
  ASSUME NEW s, NEW p \in Seq(Turns), NEW c, NEW o, Story(s, p, c, o),
         NEW t \in Turns, o[t] = "none", t \notin ToSet(p), t # c
  PROVE  Story(s \o <<Accepted(t)>>, Append(p, t), c, o)
<1>1. PICK e, r, q : e = Accepted(t) /\ r = s \o <<e>> /\ q = Append(p, t)
  OBVIOUS
<1>2. Ordered(s) /\ IsNext(s, e)
  BY <1>1 DEF Story, Marks, IsNext
<1>3. /\ Ordered(r) /\ ToSet(r) = ToSet(s) \cup {e}
      /\ \A f, g : Before(r, f, g) <=> Before(s, f, g) \/ (g = e /\ f \in ToSet(s))
  <2>1. Longer(s, e, r)
    BY <1>1, <1>2, OrderAdds
  <2> QED
    BY <2>1 DEF Longer
<1>4. /\ ToSet(q) = ToSet(p) \cup {t} /\ DOMAIN q = 1..(Len(p) + 1) /\ DOMAIN p = 1..Len(p)
      /\ Len(p) \in Nat /\ \A i \in 1..Len(p) : q[i] = p[i] /\ p[i] \in ToSet(p)
      /\ q[Len(p) + 1] = t
  <2>1. ToSet(q) = ToSet(p) \cup {t}
    BY <1>1, AppendOnce
  <2>2. \A i \in 1..Len(p) : p[i] \in ToSet(p)
    BY DEF ToSet
  <2> QED
    BY <1>1, <2>1, <2>2, AppendProperties
<1>5. Marks(r, q, c, o) /\ Endings(r, o)
  <2>1. ASSUME NEW u \in Turns
        PROVE  /\ Started(u) \in ToSet(r) <=> Started(u) \in ToSet(s)
               /\ Delta(u) \in ToSet(r) <=> Delta(u) \in ToSet(s)
               /\ Finished(u) \in ToSet(r) <=> Finished(u) \in ToSet(s)
               /\ Accepted(u) \in ToSet(r) <=> Accepted(u) \in ToSet(s) \/ u = t
    BY <1>1, <1>3, KindsOfEvents
  <2> QED
    BY <1>3, <1>4, <2>1 DEF Story, Marks, Endings
<1>6. Queued(r, q)
  <2>1. ASSUME NEW u \in Turns, NEW v \in ToSet(q), Started(u) \in ToSet(r)
        PROVE  Before(r, Accepted(u), Accepted(v))
    <3>1. Started(u) \in ToSet(s)
      BY <1>1, <1>3, <2>1, KindsOfEvents
    <3>2. CASE v \in ToSet(p)
      BY <1>3, <3>1, <3>2 DEF Story, Queued
    <3>3. CASE v = t
      <4>1. Accepted(u) \in ToSet(s)
        BY <3>1, BeforeIn DEF Story, Ordered
      <4> QED
        BY <1>1, <1>3, <3>3, <4>1
    <3> QED
      BY <1>4, <3>2, <3>3
  <2>2. ASSUME NEW i \in DOMAIN q, NEW j \in DOMAIN q, i < j PROVE Before(r, Accepted(q[i]), Accepted(q[j]))
    <3>1. i \in 1..Len(p) /\ i \in DOMAIN p /\ q[i] = p[i] /\ p[i] \in ToSet(p) /\ p[i] \in Turns
      BY <1>4, <2>2
    <3>2. CASE j = Len(p) + 1
      <4>1. q[j] = t /\ Accepted(p[i]) \in ToSet(s)
        BY <1>4, <3>1, <3>2 DEF Story, Marks
      <4> QED
        BY <1>1, <1>3, <3>1, <4>1
    <3>3. CASE j # Len(p) + 1
      <4>1. j \in DOMAIN p /\ q[j] = p[j]
        BY <1>4, <3>3
      <4> QED
        BY <1>3, <2>2, <3>1, <4>1 DEF Story, Queued
    <3> QED
      BY <3>2, <3>3
  <2> QED
    BY <2>1, <2>2 DEF Queued
<1> QED
  BY <1>1, <1>3, <1>5, <1>6 DEF Story

(* The first turn of the queue begins.                                     *)
LEMMA StoryBegins ==
  ASSUME NEW s, NEW p \in Seq(Turns), NEW c, NEW o, Story(s, p, c, o), Once(p), p # <<>>,
         o[Head(p)] = "none", c \notin ToSet(p), c \in Turns => o[c] # "none"
  PROVE  Story(s \o <<Started(Head(p))>>, Tail(p), Head(p), o)
<1>1. PICK t, e, r, q : t = Head(p) /\ e = Started(t) /\ r = s \o <<e>> /\ q = Tail(p)
  OBVIOUS
<1>2. /\ t \in Turns /\ t \in ToSet(p) /\ q \in Seq(Turns) /\ ToSet(q) = ToSet(p) \ {t} /\ ToSet(p) \subseteq Turns
  BY <1>1, TailOnce, QueueOfTurns
<1>3. /\ DOMAIN p = 1..Len(p) /\ DOMAIN q = 1..(Len(p) - 1) /\ Len(p) \in Nat /\ Len(p) >= 1
      /\ t = p[1] /\ \A i \in 1..(Len(p) - 1) : q[i] = p[i + 1]
  BY <1>1
<1>4. e \notin ToSet(s) /\ Accepted(t) \in ToSet(s)
  BY <1>1, <1>2 DEF Story, Marks
<1>5. Ordered(s) /\ IsNext(s, e)
  <2>1. \A u \in Turns : Started(u) \in ToSet(s) => Before(s, Accepted(u), Accepted(t))
    BY <1>2 DEF Story, Queued
  <2> QED
    BY <1>1, <1>2, <1>4, <2>1 DEF Story, IsNext
<1>6. /\ Ordered(r) /\ ToSet(r) = ToSet(s) \cup {e}
      /\ \A f, g : Before(r, f, g) <=> Before(s, f, g) \/ (g = e /\ f \in ToSet(s))
  <2>1. Longer(s, e, r)
    BY <1>1, <1>5, OrderAdds
  <2> QED
    BY <2>1 DEF Longer
<1>7. ASSUME NEW u \in Turns
      PROVE  /\ Accepted(u) \in ToSet(r) <=> Accepted(u) \in ToSet(s)
             /\ Delta(u) \in ToSet(r) <=> Delta(u) \in ToSet(s)
             /\ Finished(u) \in ToSet(r) <=> Finished(u) \in ToSet(s)
             /\ Started(u) \in ToSet(r) <=> Started(u) \in ToSet(s) \/ u = t
  BY <1>1, <1>6, KindsOfEvents
<1>8. Marks(r, q, t, o)
  <2>1. ASSUME NEW u \in Turns
        PROVE  /\ Accepted(u) \in ToSet(r) => o[u] # "none" \/ u \in ToSet(q) \/ u = t
               /\ Started(u) \in ToSet(r) => o[u] # "none" \/ u = t
               /\ u \in ToSet(q) => Accepted(u) \in ToSet(r)
               /\ u = t /\ o[u] = "none" => Started(u) \in ToSet(r)
    BY <1>2, <1>7 DEF Story, Marks
  <2> QED
    BY <2>1 DEF Marks
<1>9. Endings(r, o)
  BY <1>6, <1>7 DEF Story, Endings
<1>10. Queued(r, q)
  <2>1. ASSUME NEW u \in Turns, NEW v \in ToSet(q), Started(u) \in ToSet(r)
        PROVE  Before(r, Accepted(u), Accepted(v))
    <3>1. CASE Started(u) \in ToSet(s)
      BY <1>2, <1>6, <3>1 DEF Story, Queued
    <3>2. CASE u = t
      <4>1. PICK i \in 1..(Len(p) - 1) : v = q[i]
        BY <1>3 DEF ToSet
      <4>2. 1 \in DOMAIN p /\ i + 1 \in DOMAIN p /\ 1 < i + 1 /\ v = p[i + 1]
        BY <1>3, <4>1
      <4>3. Before(s, Accepted(p[1]), Accepted(p[i + 1]))
        BY <4>2 DEF Story, Queued
      <4> QED
        BY <1>3, <1>6, <3>2, <4>2, <4>3
    <3> QED
      BY <1>7, <2>1, <3>1, <3>2
  <2>2. ASSUME NEW i \in DOMAIN q, NEW j \in DOMAIN q, i < j PROVE Before(r, Accepted(q[i]), Accepted(q[j]))
    <3>1. i + 1 \in DOMAIN p /\ j + 1 \in DOMAIN p /\ i + 1 < j + 1 /\ q[i] = p[i + 1] /\ q[j] = p[j + 1]
      BY <1>3, <2>2
    <3>2. Before(s, Accepted(p[i + 1]), Accepted(p[j + 1]))
      BY <3>1 DEF Story, Queued
    <3> QED
      BY <1>6, <3>1, <3>2
  <2> QED
    BY <2>1, <2>2 DEF Queued
<1> QED
  BY <1>1, <1>6, <1>8, <1>9, <1>10 DEF Story

(* A turn gets its outcome, before its last events or with them.           *)
LEMMA StoryOutcome ==
  ASSUME NEW s, NEW p \in Seq(Turns), NEW c \in Turns, NEW o \in [Turns -> Outcomes \cup {"none"}],
         Story(s, p, c, o), o[c] = "none", NEW h \in Outcomes
  PROVE  /\ Story(s, p, c, [o EXCEPT ![c] = h])
         /\ Started(c) \in ToSet(s) /\ Delta(c) \notin ToSet(s) /\ Finished(c) \notin ToSet(s)
<1>1. PICK n : n = [o EXCEPT ![c] = h]
  OBVIOUS
<1>2. n[c] = h /\ h # "none" /\ \A t \in Turns : t # c => n[t] = o[t]
  BY <1>1 DEF Outcomes
<1>3. Started(c) \in ToSet(s) /\ Delta(c) \notin ToSet(s) /\ Finished(c) \notin ToSet(s)
  BY DEF Story, Marks, Endings
<1>4. Marks(s, p, c, n)
  <2>1. Marks(s, p, c, o)
    BY DEF Story
  <2>2. \A t \in Turns : n[t] = "none" => o[t] = "none"
    BY <1>2
  <2>3. \A t \in Turns : o[t] # "none" => n[t] # "none"
    BY <1>2
  <2> QED
    BY <2>1, <2>2, <2>3 DEF Marks
<1>5. Endings(s, n)
  <2>1. ASSUME NEW t \in Turns
        PROVE  /\ Delta(t) \in ToSet(s) => n[t] \in {"completed", "failed"}
               /\ Finished(t) \in ToSet(s) => /\ n[t] \in {"completed", "failed", "cancelled"}
                                              /\ n[t] # "cancelled" => Before(s, Delta(t), Finished(t))
    <3>1. CASE t = c
      BY <1>3, <3>1
    <3>2. CASE t # c
      BY <1>2, <3>2 DEF Story, Endings
    <3> QED
      BY <3>1, <3>2
  <2> QED
    BY <2>1 DEF Endings
<1> QED
  BY <1>1, <1>3, <1>4, <1>5 DEF Story

(* The answer, then the end, of the turn that has an outcome               *)
LEMMA StoryAdds ==
  ASSUME NEW s, NEW p \in Seq(Turns), NEW c \in Turns, NEW o, Story(s, p, c, o),
         Started(c) \in ToSet(s), NEW e, e \in {Delta(c), Finished(c)}, e \notin ToSet(s),
         e = Delta(c) => o[c] \in {"completed", "failed"},
         e = Finished(c) => /\ o[c] \in {"completed", "failed", "cancelled"}
                            /\ o[c] # "cancelled" => Delta(c) \in ToSet(s)
  PROVE  Story(s \o <<e>>, p, c, o) /\ ToSet(s \o <<e>>) = ToSet(s) \cup {e}
<1>1. PICK r : r = s \o <<e>>
  OBVIOUS
<1>2. Ordered(s) /\ IsNext(s, e)
  BY DEF Story, IsNext
<1>3. /\ Ordered(r) /\ ToSet(r) = ToSet(s) \cup {e}
      /\ \A f, g : Before(r, f, g) <=> Before(s, f, g) \/ (g = e /\ f \in ToSet(s))
  <2>1. Longer(s, e, r)
    BY <1>1, <1>2, OrderAdds
  <2> QED
    BY <2>1 DEF Longer
<1>4. ASSUME NEW t \in Turns
      PROVE  /\ Accepted(t) \in ToSet(r) <=> Accepted(t) \in ToSet(s)
             /\ Started(t) \in ToSet(r) <=> Started(t) \in ToSet(s)
             /\ Delta(t) \in ToSet(r) <=> Delta(t) \in ToSet(s) \/ (t = c /\ e = Delta(c))
             /\ Finished(t) \in ToSet(r) <=> Finished(t) \in ToSet(s) \/ (t = c /\ e = Finished(c))
  BY <1>3, KindsOfEvents
<1>5. Marks(r, p, c, o)
  BY <1>4 DEF Story, Marks
<1>6. Endings(r, o)
  <2>1. ASSUME NEW t \in Turns
        PROVE  /\ Delta(t) \in ToSet(r) => o[t] \in {"completed", "failed"}
               /\ Finished(t) \in ToSet(r) => /\ o[t] \in {"completed", "failed", "cancelled"}
                                              /\ o[t] # "cancelled" => Before(r, Delta(t), Finished(t))
    BY <1>3, <1>4 DEF Story, Endings
  <2> QED
    BY <2>1 DEF Endings
<1>7. Queued(r, p)
  <2>1. ToSet(p) \subseteq Turns
    BY QueueOfTurns
  <2> QED
    BY <1>3, <1>4, <2>1 DEF Story, Queued
<1> QED
  BY <1>1, <1>3, <1>5, <1>6, <1>7 DEF Story

Answers(s, p, c, o, e) ==
  /\ Story(s, p, c, o) /\ Started(c) \in ToSet(s) /\ e \notin ToSet(s)
  /\ \/ e = Delta(c) /\ o[c] \in {"completed", "failed"}
     \/ /\ e = Finished(c) /\ o[c] \in {"completed", "failed", "cancelled"}
        /\ o[c] # "cancelled" => Delta(c) \in ToSet(s)

LEMMA StoryAnswers ==
  \A s, e, o : \A p \in Seq(Turns), c \in Turns :
    Answers(s, p, c, o, e) => Story(s \o <<e>>, p, c, o) /\ ToSet(s \o <<e>>) = ToSet(s) \cup {e}
<1> SUFFICES ASSUME NEW s, NEW e, NEW o, NEW p \in Seq(Turns), NEW c \in Turns, Answers(s, p, c, o, e)
             PROVE  Story(s \o <<e>>, p, c, o) /\ ToSet(s \o <<e>>) = ToSet(s) \cup {e}
  OBVIOUS
<1>1. /\ Story(s, p, c, o) /\ Started(c) \in ToSet(s) /\ e \notin ToSet(s) /\ e \in {Delta(c), Finished(c)}
      /\ \/ e = Delta(c) /\ o[c] \in {"completed", "failed"}
         \/ /\ e = Finished(c) /\ o[c] \in {"completed", "failed", "cancelled"}
            /\ o[c] # "cancelled" => Delta(c) \in ToSet(s)
  BY DEF Answers
<1>2. Delta(c) # Finished(c)
  BY KindsOfEvents
<1>3. /\ e = Delta(c) => o[c] \in {"completed", "failed"}
      /\ e = Finished(c) => /\ o[c] \in {"completed", "failed", "cancelled"}
                            /\ o[c] # "cancelled" => Delta(c) \in ToSet(s)
  BY <1>1, <1>2
<1> QED
  BY <1>1, <1>3, StoryAdds

(* No turn is in hand any more.                                            *)
LEMMA StoryRests ==
  ASSUME NEW s, NEW p, NEW c, NEW o, Story(s, p, c, o), c \in Turns => o[c] # "none"
  PROVE  Story(s, p, NoTurn, o)
BY NoTurnAssumption DEF Story, Marks

(* The queue is emptied; the turns in it, and maybe the one in hand, are   *)
(* lost; a line may be cut off.                                            *)
Cut(q, z, p, c, o, d, n) ==
  /\ Story(q \o z, p, c, o) /\ d \in {c, NoTurn}
  /\ \A t \in Turns : o[t] # "none" => n[t] = o[t]
  /\ \A t \in ToSet(p) : n[t] # "none"
  /\ c \in Turns /\ c # d => n[c] # "none"
  /\ d \in Turns => z = <<>>

LEMMA StoryCut ==
  \A q, z \in Seq(Said), p \in Seq(Turns) : \A c, o, d, n :
    Cut(q, z, p, c, o, d, n) => Story(q, <<>>, d, n)
<1> SUFFICES ASSUME NEW q \in Seq(Said), NEW z \in Seq(Said), NEW p \in Seq(Turns), NEW c, NEW o, NEW d, NEW n,
                    Cut(q, z, p, c, o, d, n)
             PROVE  Story(q, <<>>, d, n)
  OBVIOUS
<1> PICK s : s = q \o z
  OBVIOUS
<1> /\ Story(s, p, c, o) /\ d \in {c, NoTurn} /\ (d \in Turns => q = s)
    /\ \A t \in Turns : o[t] # "none" => n[t] = o[t]
    /\ \A t \in ToSet(p) : n[t] # "none"
    /\ c \in Turns /\ c # d => n[c] # "none"
  BY ConcatEmptySeq DEF Cut
<1>1. /\ ToSet(q) \subseteq ToSet(s) /\ (Single(s) => Single(q))
      /\ \A e, f : Before(q, e, f) => Before(s, e, f)
      /\ Single(s) => \A e, f : f.turn \in Turns /\ f \in ToSet(q) /\ Before(s, e, f) => Before(q, e, f)
  BY Begins
<1>2. Single(s)
  BY DEF Story, Ordered
<1>3. Ordered(q)
  <2>1. ASSUME NEW t \in Turns
        PROVE  /\ Started(t) \in ToSet(q) => Before(q, Accepted(t), Started(t))
               /\ Delta(t) \in ToSet(q) => Before(q, Started(t), Delta(t))
               /\ Finished(t) \in ToSet(q) => Before(q, Started(t), Finished(t))
    <3>1. \A e, f : f \in {Started(t), Delta(t), Finished(t)} /\ f \in ToSet(q) /\ Before(s, e, f) => Before(q, e, f)
      BY <1>1, <1>2, KindsOfEvents
    <3> QED
      BY <1>1, <3>1 DEF Story, Ordered
  <2>2. ASSUME NEW t \in Turns, NEW u \in Turns, Before(q, Started(t), Started(u))
        PROVE  Before(q, Accepted(t), Accepted(u))
    <3>1. Started(u) \in ToSet(q)
      BY <2>2, BeforeIn
    <3>2. Accepted(u) \in ToSet(q)
      BY <2>1, <3>1, BeforeIn
    <3>3. Before(s, Accepted(t), Accepted(u))
      BY <1>1, <2>2 DEF Story, Ordered
    <3> QED
      BY <1>1, <1>2, <3>2, <3>3, KindsOfEvents
  <2> QED
    BY <1>1, <1>2, <2>1, <2>2 DEF Ordered
<1>4. Endings(q, n)
  <2>1. ASSUME NEW t \in Turns
        PROVE  /\ Delta(t) \in ToSet(q) => n[t] \in {"completed", "failed"}
               /\ Finished(t) \in ToSet(q) => /\ n[t] \in {"completed", "failed", "cancelled"}
                                              /\ n[t] # "cancelled" => Before(q, Delta(t), Finished(t))
    <3>1. \A e : Finished(t) \in ToSet(q) /\ Before(s, e, Finished(t)) => Before(q, e, Finished(t))
      BY <1>1, <1>2, KindsOfEvents
    <3> QED
      BY <1>1, <3>1 DEF Story, Endings
  <2> QED
    BY <2>1 DEF Endings
<1>5. ToSet(<<>>) = {} /\ DOMAIN <<>> = {}
  BY EmptyQueue
<1>6. Marks(q, <<>>, d, n)
  <2>1. ASSUME NEW t \in Turns
        PROVE  /\ Accepted(t) \in ToSet(q) => n[t] # "none" \/ t = d
               /\ Started(t) \in ToSet(q) => n[t] # "none" \/ t = d
               /\ t = d /\ n[t] = "none" => Started(t) \in ToSet(q)
    BY <1>1, NoTurnAssumption DEF Story, Marks
  <2> QED
    BY <1>5, <2>1 DEF Marks
<1>7. Queued(q, <<>>)
  BY <1>5 DEF Queued
<1> QED
  BY <1>3, <1>4, <1>6, <1>7 DEF Story

LEMMA Joins ==
  /\ \A a, b \in Seq(Said) : a \o b \in Seq(Said)
  /\ \A a, b, c \in Seq(Said) : a \o (b \o c) = (a \o b) \o c
  /\ \A a \in Seq(Said) : a \o <<>> = a /\ <<>> \o a = a
  /\ <<>> \in Seq(Said) /\ ToSet(<<>>) = {} /\ DOMAIN <<>> = {}
<1>1. ASSUME NEW a \in Seq(Said), NEW b \in Seq(Said) PROVE a \o b \in Seq(Said)
  BY ConcatProperties
<1>2. ASSUME NEW a \in Seq(Said), NEW b \in Seq(Said), NEW c \in Seq(Said)
      PROVE  a \o (b \o c) = (a \o b) \o c
  <2>1. (a \o b) \o c = a \o (b \o c)
    BY ConcatAssociative, SMTT(30)
  <2> QED
    BY <2>1, Zenon
<1>3. ASSUME NEW a \in Seq(Said) PROVE a \o <<>> = a /\ <<>> \o a = a
  BY ConcatEmptySeq
<1>4. <<>> \in Seq(Said) /\ ToSet(<<>>) = {} /\ DOMAIN <<>> = {}
  BY EmptyQueue
<1> QED
  BY <1>1, <1>2, <1>3, <1>4

Associates(a, b, c) == a \o (b \o c) = (a \o b) \o c

LEMMA Association == \A a, b, c \in Seq(Said) : Associates(a, b, c)
BY Joins, Zenon DEF Associates

(* What the end of a turn says, joined to what was said                    *)
Joined(l, er, x, y) == er \o (x \o y) \in Seq(Said) /\ l \o (er \o (x \o y)) = ((l \o er) \o x) \o y

LEMMA Pieces == \A l, er, x, y \in Seq(Said) : Joined(l, er, x, y)
<1> SUFFICES ASSUME NEW l \in Seq(Said), NEW er \in Seq(Said), NEW x \in Seq(Said), NEW y \in Seq(Said)
             PROVE  Joined(l, er, x, y)
  OBVIOUS
<1>1. x \o y \in Seq(Said) /\ l \o er \in Seq(Said)
  BY Joins
<1>2. PICK w \in Seq(Said), k \in Seq(Said) : w = x \o y /\ k = l \o er
  BY <1>1
<1>3. er \o w \in Seq(Said)
  BY Joins
<1>4. Associates(l, er, w) /\ Associates(k, x, y)
  BY Association
<1> QED
  BY <1>2, <1>3, <1>4 DEF Associates, Joined

LEMMA OneAndTwo ==
  ASSUME NEW d \in Said
  PROVE  /\ <<d>> \in Seq(Said) /\ \A s \in Seq(Said) : Append(s, d) = s \o <<d>>
         /\ \A e \in Said : <<d, e>> = <<d>> \o <<e>>
<1>1. <<d>> \in Seq(Said)
  OBVIOUS
<1>2. ASSUME NEW s \in Seq(Said) PROVE Append(s, d) = s \o <<d>>
  BY AppendIsConcat
<1>3. ASSUME NEW e \in Said PROVE <<d, e>> = <<d>> \o <<e>>
  <2>1. Append(<<d>>, e) = <<d>> \o <<e>>
    BY <1>1, AppendIsConcat
  <2>2. <<d>> \in Seq(Said) /\ Len(<<d>>) = 1 /\ <<d>>[1] = d
    OBVIOUS
  <2>3. <<d, e>> \in Seq(Said) /\ Len(<<d, e>>) = 2 /\ <<d, e>>[1] = d /\ <<d, e>>[2] = e
    OBVIOUS
  <2>4. PICK x \in Seq(Said), y \in Seq(Said) :
          /\ x = <<d>> /\ Len(x) = 1 /\ x[1] = d
          /\ y = <<d, e>> /\ Len(y) = 2 /\ y[1] = d /\ y[2] = e
    BY <2>2, <2>3
  <2> DEFINE r == Append(x, e)
  <2>5. r \in Seq(Said) /\ Len(r) = 2 /\ r[1] = d /\ r[2] = e
    BY <2>4, AppendProperties
  <2> HIDE DEF r
  <2>6. r = y
    BY <2>4, <2>5, SeqEqual
  <2> QED
    BY <2>1, <2>4, <2>6 DEF r
<1> QED
  BY <1>1, <1>2, <1>3

LEMMA FirstOf ==
  ASSUME NEW b \in Seq(Said), 1 \in DOMAIN b
  PROVE  /\ b # <<>> /\ b[1] \in Said /\ Head(b) = b[1] /\ Tail(b) \in Seq(Said)
         /\ b = <<b[1]>> \o Tail(b) /\ RemoveAt(b, 1) = Tail(b)
<1>1. b # <<>> /\ b[1] \in Said /\ Head(b) = b[1] /\ Tail(b) \in Seq(Said) /\ Len(b) \in Nat /\ Len(b) >= 1
  OBVIOUS
<1>2. PICK h \in Said, z \in Seq(Said) : h = b[1] /\ z = Tail(b)
  BY <1>1
<1>3. Len(z) = Len(b) - 1 /\ \A i \in 1..(Len(b) - 1) : z[i] = b[i + 1]
  BY <1>1, <1>2
<1>4. b = <<h>> \o z
  <2>1. PICK x \in Seq(Said) : x = <<h>> /\ Len(x) = 1 /\ x[1] = h
    <3>1. <<h>> \in Seq(Said) /\ Len(<<h>>) = 1 /\ <<h>>[1] = h
      OBVIOUS
    <3> QED
      BY <3>1
  <2>2. /\ x \o z \in Seq(Said) /\ Len(x \o z) = Len(b)
        /\ \A i \in 1..Len(b) : (x \o z)[i] = IF i <= 1 THEN x[i] ELSE z[i - 1]
    <3>1. 1 + Len(z) = Len(b)
      BY <1>1, <1>3
    <3>2. Len(x) + Len(z) = Len(b)
      BY <2>1, <3>1
    <3>3. /\ x \o z \in Seq(Said) /\ Len(x \o z) = Len(x) + Len(z)
          /\ \A i \in 1..(Len(x) + Len(z)) : (x \o z)[i] = IF i <= Len(x) THEN x[i] ELSE z[i - Len(x)]
      BY ConcatProperties
    <3> QED
      BY <2>1, <3>2, <3>3
  <2>3. PICK r \in Seq(Said) :
          /\ r = x \o z /\ Len(r) = Len(b)
          /\ \A i \in 1..Len(b) : r[i] = IF i <= 1 THEN x[i] ELSE z[i - 1]
    BY <2>2
  <2>4. ASSUME NEW i \in 1..Len(b) PROVE r[i] = b[i]
    <3>1. CASE i = 1
      BY <1>1, <1>2, <2>1, <2>3, <3>1
    <3>2. CASE i # 1
      <4>1. i - 1 \in 1..(Len(b) - 1) /\ ~(i <= 1) /\ i - 1 + 1 = i
        BY <1>1, <3>2
      <4> QED
        BY <1>3, <2>3, <4>1
    <3> QED
      BY <3>1, <3>2
  <2>5. r = b
    BY <2>3, <2>4, SeqEqual
  <2> QED
    BY <2>1, <2>3, <2>5
<1>5. RemoveAt(b, 1) = z
  <2>1. SubSeq(b, 2, Len(b)) = z
    BY <1>1, <1>2, TailIsSubSeq
  <2>2. SubSeq(b, 1, 0) = <<>>
    BY <1>1, SubSeqEmpty
  <2> QED
    BY <2>1, <2>2, Joins DEF RemoveAt
<1> QED
  BY <1>1, <1>2, <1>4, <1>5

(* The steps of the tool loop                                              *)
LineInv ==
  /\ shown \in Seq(Said) /\ tail \in Seq(Said)
  /\ Story(shown \o tail, pending, current.turn, outcome)

LEMMA LineEmits ==
  ASSUME LineInv, NEW es \in Seq(Said), Emits(es), UNCHANGED shown
  PROVE  shown' \in Seq(Said) /\ tail' \in Seq(Said) /\ shown' \o tail' = (shown \o tail) \o es
<1>1. shown' = shown /\ tail' = tail \o es /\ shown \in Seq(Said) /\ tail \in Seq(Said)
  BY DEF LineInv, Emits
<1>2. tail \o es \in Seq(Said)
  BY <1>1, Joins, Zenon
<1>3. Associates(shown, tail, es)
  BY <1>1, Association, Zenon
<1> QED
  BY <1>1, <1>2, <1>3, Zenon DEF Associates

LEMMA StateIsQuiet ==
  ASSUME NEW s, NEW p \in Seq(Turns), NEW c, NEW o, Story(s, p, c, o),
         NEW from, NEW to \in {"running", "idle", "stopped"}
  PROVE  StateEvents(from, to) \in Seq(Said) /\ Story(s \o StateEvents(from, to), p, c, o)
<1>1. s \in Seq(Said) /\ Event(NoTurn, to) \in Said /\ to \in Kinds
  BY EventIs DEF Story, Ordered, Kinds
<1>2. CASE from = to
  BY <1>1, <1>2, ConcatEmptySeq DEF StateEvents
<1>3. CASE from # to
  <2>1. StateEvents(from, to) = <<Event(NoTurn, to)>>
    BY <1>3 DEF StateEvents
  <2>2. Alike(s, s \o <<Event(NoTurn, to)>>)
    BY <1>1, QuietAdds
  <2>3. <<Event(NoTurn, to)>> \in Seq(Said)
    BY <1>1
  <2>4. Story(s \o <<Event(NoTurn, to)>>, p, c, o)
    BY <2>2, AlikeStory
  <2> QED
    BY <2>1, <2>3, <2>4
<1> QED
  BY <1>2, <1>3

(* The loop goes on, after events that leave its turn ended.               *)
LEMMA LineLoops ==
  ASSUME IInv, LineInv, NEW es \in Seq(Said), Loops(es), UNCHANGED shown,
         Story((shown \o tail) \o es, pending, current.turn, outcome'),
         current.turn \in Turns => outcome'[current.turn] # "none",
         \A t \in ToSet(pending) : outcome'[t] = "none"
  PROVE  LineInv'
<1>1. pending \in Seq(Turns) /\ Once(pending) /\ current.turn \notin ToSet(pending)
  BY DEF IInv, Types, Places
<1>2. shown \in Seq(Said) /\ tail \in Seq(Said) /\ shown \o tail \in Seq(Said)
  BY ConcatProperties DEF LineInv
<1>3. PICK l \in Seq(Said) : l = shown \o tail /\ l \o es \in Seq(Said)
  BY <1>2, ConcatProperties
<1>4. CASE pending # <<>> /\ ~closed
  <2>1. PICK t \in Turns : t = Head(pending) /\ t \in ToSet(pending)
    BY <1>1, <1>4, TailOnce
  <2>2. PICK st \in Seq(Said), e \in Said :
          /\ st = StateEvents(state, "running") /\ e = Started(t)
          /\ Story((l \o es) \o st, pending, current.turn, outcome')
    BY <1>1, <1>3, StateIsQuiet, KindsOfEvents
  <2>3. Story(((l \o es) \o st) \o <<e>>, Tail(pending), t, outcome')
    BY <1>1, <1>4, <2>1, <2>2, StoryBegins
  <2>4. <<e>> \in Seq(Said) /\ es \o st \in Seq(Said) /\ es \o st \o <<e>> \in Seq(Said)
    BY <2>2, ConcatProperties
  <2>5. /\ Emits(es \o st \o <<e>>) /\ pending' = Tail(pending) /\ current' = Task(t)
    BY <1>4, <2>1, <2>2 DEF Loops, Started
  <2>6. shown' \in Seq(Said) /\ tail' \in Seq(Said) /\ shown' \o tail' = l \o (es \o st \o <<e>>)
    BY <1>3, <2>4, <2>5, LineEmits
  <2>7. l \o (es \o st \o <<e>>) = ((l \o es) \o st) \o <<e>>
    <3>1. Associates(l, es \o st, <<e>>)
      BY <2>4, Association, Zenon
    <3>2. Associates(l, es, st)
      BY Association, Zenon
    <3> QED
      BY <3>1, <3>2, Zenon DEF Associates
  <2>8. current'.turn = t
    BY <2>5 DEF Task
  <2> QED
    BY <2>3, <2>5, <2>6, <2>7, <2>8 DEF LineInv
<1>5. CASE ~(pending # <<>> /\ ~closed)
  <2>1. PICK last \in {"stopped", "idle"} : /\ Emits(es \o StateEvents(state, last))
                                            /\ current' = NoTask /\ pending' = pending
    BY <1>5 DEF Loops
  <2>2. PICK st \in Seq(Said) : /\ st = StateEvents(state, last)
                                /\ Story((l \o es) \o st, pending, current.turn, outcome')
    BY <1>1, <1>3, StateIsQuiet
  <2>3. Story((l \o es) \o st, pending, NoTurn, outcome')
    BY <2>2, StoryRests
  <2>4. es \o st \in Seq(Said) /\ l \o (es \o st) = (l \o es) \o st
    <3>1. Associates(l, es, st)
      BY Association, Zenon
    <3>2. es \o st \in Seq(Said)
      BY Joins, Zenon
    <3> QED
      BY <3>1, <3>2, Zenon DEF Associates
  <2>5. shown' \in Seq(Said) /\ tail' \in Seq(Said) /\ shown' \o tail' = (l \o es) \o st
    BY <1>3, <2>1, <2>2, <2>4, LineEmits
  <2>6. current'.turn = NoTurn
    BY <2>1 DEF NoTask
  <2> QED
    BY <2>1, <2>3, <2>5, <2>6 DEF LineInv
<1> QED
  BY <1>4, <1>5

LEMMA LineEnds ==
  ASSUME IInv, LineInv, NEW how \in {"completed", "failed"}, Ends(how), TurnKeeps,
         current.turn \in Turns, outcome[current.turn] = "none"
  PROVE  LineInv'
<1>1. PICK c, n : c = current.turn /\ c \in Turns /\ n = [outcome EXCEPT ![c] = how]
  OBVIOUS
<1>2. /\ pending \in Seq(Turns) /\ outcome \in [Turns -> Outcomes \cup {"none"}] /\ how \in Outcomes
      /\ n[c] = how
  BY <1>1 DEF IInv, Types, Outcomes
<1>3. PICK l \in Seq(Said) : l = shown \o tail /\ Story(l, pending, c, outcome)
  BY <1>1, ConcatProperties DEF LineInv
<1>4. /\ Story(l, pending, c, n) /\ Started(c) \in ToSet(l) /\ Delta(c) \notin ToSet(l)
      /\ Finished(c) \notin ToSet(l)
  BY <1>1, <1>2, <1>3, StoryOutcome
<1>5. PICK er \in Seq(Said) :
        /\ er = (IF how = "failed" THEN <<Event(NoTurn, "error")>> ELSE <<>>)
        /\ Alike(l, l \o er)
  <2>1. CASE how = "failed"
    <3>1. "error" \in Kinds /\ Event(NoTurn, "error") \in Said
      BY EventIs DEF Kinds
    <3>2. Alike(l, l \o <<Event(NoTurn, "error")>>)
      BY <3>1, QuietAdds
    <3>3. <<Event(NoTurn, "error")>> \in Seq(Said)
      BY <3>1
    <3> QED
      BY <2>1, <3>2, <3>3
  <2>2. CASE how # "failed"
    <3>1. l \o <<>> = l /\ <<>> \in Seq(Said)
      BY ConcatEmptySeq
    <3>2. Alike(l, l)
      BY DEF Alike
    <3> QED
      BY <2>2, <3>1, <3>2
  <2> QED
    BY <2>1, <2>2
<1>6. Delta(c) \in Said /\ Finished(c) \in Said /\ Delta(c).turn \in Turns /\ Finished(c).turn \in Turns
      /\ Started(c) \in Said /\ Started(c).turn \in Turns /\ Delta(c) # Finished(c)
  <2>1. \A t \in Turns : {Accepted(t), Started(t), Delta(t), Finished(t)} \subseteq Said
    BY KindsOfEvents
  <2>2. \A t : Accepted(t).turn = t /\ Started(t).turn = t /\ Delta(t).turn = t /\ Finished(t).turn = t
    BY KindsOfEvents
  <2>3. \A t, u : Delta(t) # Finished(u)
    BY KindsOfEvents
  <2> QED
    BY <1>1, <2>1, <2>2, <2>3
<1>7. PICK k \in Seq(Said) : /\ k = l \o er /\ Story(k, pending, c, n) /\ Started(c) \in ToSet(k)
                             /\ Delta(c) \notin ToSet(k) /\ Finished(c) \notin ToSet(k)
  <2>1. Story(l \o er, pending, c, n)
    BY <1>2, <1>4, <1>5, AlikeStory
  <2> QED
    BY <1>4, <1>5, <1>6, <2>1 DEF Alike
<1>8. PICK d, e : d = Delta(c) /\ e = Finished(c)
  OBVIOUS
<1>9. Story(k \o <<d>>, pending, c, n) /\ ToSet(k \o <<d>>) = ToSet(k) \cup {d}
  <2>1. Answers(k, pending, c, n, d)
    BY <1>2, <1>7, <1>8 DEF Answers
  <2> QED
    BY <1>1, <1>2, <2>1, StoryAnswers
<1>10. Story((k \o <<d>>) \o <<e>>, pending, c, n)
  <2>1. PICK m : m = k \o <<d>>
    OBVIOUS
  <2>2. Story(m, pending, c, n) /\ Started(c) \in ToSet(m) /\ e \notin ToSet(m) /\ Delta(c) \in ToSet(m)
    BY <1>6, <1>7, <1>8, <1>9, <2>1
  <2>3. Answers(m, pending, c, n, e)
    BY <1>2, <1>8, <2>2 DEF Answers
  <2>4. Story(m \o <<e>>, pending, c, n)
    BY <1>1, <1>2, <2>3, StoryAnswers
  <2> QED
    BY <2>1, <2>4
<1>11. Emits(er \o <<d, e>>) /\ current'.turn = c /\ outcome' = n /\ UNCHANGED <<pending, shown>>
  BY <1>1, <1>5, <1>8 DEF Ends, TurnKeeps, Delta, Finished, IInv, Types, Tasks
<1>12. PICK x \in Seq(Said), y \in Seq(Said) : x = <<d>> /\ y = <<e>> /\ <<d, e>> = x \o y
  <2>1. <<d>> \in Seq(Said) /\ <<e>> \in Seq(Said)
    BY <1>6, <1>8
  <2>2. <<d, e>> = <<d>> \o <<e>>
    BY <1>6, <1>8, OneAndTwo
  <2> QED
    BY <2>1, <2>2
<1>13. er \o (x \o y) \in Seq(Said) /\ l \o (er \o (x \o y)) = (k \o x) \o y
  <2>1. Joined(l, er, x, y)
    BY Pieces
  <2> QED
    BY <1>7, <2>1 DEF Joined
<1>14. shown' \in Seq(Said) /\ tail' \in Seq(Said) /\ shown' \o tail' = (k \o x) \o y
  BY <1>3, <1>11, <1>12, <1>13, LineEmits
<1> QED
  BY <1>10, <1>11, <1>12, <1>14 DEF LineInv

LEMMA LineConsumes ==
  ASSUME IInv, LineInv, Consume
  PROVE  LineInv'
<1>1. tail \in Seq(Said) /\ shown \in Seq(Said) /\ UNCHANGED <<pending, current, outcome>>
  BY DEF LineInv, Consume, runtime, history
<1>2. PICK h \in Said, z \in Seq(Said) :
        /\ h = Head(tail) /\ z = Tail(tail) /\ tail # <<>> /\ tail' = z /\ tail = <<h>> \o z
        /\ shown' = IF h.turn = NoTurn THEN shown ELSE Append(shown, h)
  <2>1. PICK i \in DOMAIN tail :
          /\ i = 1 /\ tail' = RemoveAt(tail, i)
          /\ shown' = IF tail[i].turn = NoTurn THEN shown ELSE Append(shown, tail[i])
    BY DEF Consume, Awaited
  <2>2. /\ tail # <<>> /\ tail[1] \in Said /\ Head(tail) = tail[1] /\ Tail(tail) \in Seq(Said)
        /\ tail = <<tail[1]>> \o Tail(tail) /\ RemoveAt(tail, 1) = Tail(tail)
    BY <1>1, <2>1, FirstOf
  <2> QED
    BY <2>1, <2>2
<1>3. pending \in Seq(Turns) /\ Story(shown \o tail, pending, current.turn, outcome)
  BY DEF IInv, Types, LineInv
<1>4. CASE h.turn = NoTurn
  <2>1. Alike(shown \o tail, shown \o z)
    BY <1>1, <1>2, <1>4, NoTurnAssumption, QuietDrops
  <2>2. Story(shown \o z, pending, current.turn, outcome)
    BY <1>3, <2>1, AlikeStory
  <2> QED
    BY <1>1, <1>2, <1>4, <2>2 DEF LineInv
<1>5. CASE h.turn # NoTurn
  <2>1. PICK x \in Seq(Said) : x = <<h>> /\ Append(shown, h) = shown \o x /\ tail = x \o z
    <3>1. <<h>> \in Seq(Said) /\ Append(shown, h) = shown \o <<h>>
      BY <1>1, OneAndTwo
    <3> QED
      BY <1>2, <3>1
  <2>2. (shown \o x) \o z = shown \o tail /\ shown \o x \in Seq(Said)
    BY <1>1, <2>1, Joins
  <2>3. shown' = shown \o x /\ tail' = z
    BY <1>1, <1>2, <1>5, <2>1
  <2> QED
    BY <1>1, <1>2, <1>3, <2>2, <2>3 DEF LineInv
<1> QED
  BY <1>4, <1>5

LEMMA LineInit == Init => LineInv
<1> SUFFICES ASSUME Init PROVE LineInv
  OBVIOUS
<1>1. shown = <<>> /\ tail = <<>> /\ pending = <<>> /\ current.turn = NoTurn
  BY DEF Init, Blank, NoTask
<1>2. PICK s : s = <<>> /\ s \in Seq(Said) /\ s \o s = s /\ ToSet(s) = {} /\ DOMAIN s = {}
  BY Joins
<1>3. \A e, f : ~Before(s, e, f)
  BY <1>2 DEF Before
<1>4. Story(s, s, NoTurn, outcome)
  BY <1>2, <1>3, NoTurnAssumption DEF Story, Ordered, Single, Marks, Endings, Queued
<1> QED
  BY <1>1, <1>2, <1>4 DEF LineInv

LEMMA LineStep == IInv /\ LineInv /\ [Next]_vars => LineInv'
<1> SUFFICES ASSUME IInv, LineInv, [Next]_vars PROVE LineInv'
  OBVIOUS
<1>1. /\ pending \in Seq(Turns) /\ outcome \in [Turns -> Outcomes \cup {"none"}] /\ current \in Tasks
      /\ Types
  BY DEF IInv, Types
<1>2. PICK l \in Seq(Said) : l = shown \o tail /\ Story(l, pending, current.turn, outcome)
  BY ConcatProperties DEF LineInv
<1>3. PICK none \in Seq(Said) : none = <<>> /\ none \in Seq(Turns) /\ l \o none = l
  BY Joins, EmptyQueue
<1>4. ASSUME NEW t \in Turns, Submit(t) PROVE LineInv'
  <2>1. /\ outcome[t] = "none" /\ t \notin ToSet(pending) /\ t # current.turn
        /\ pending' = Append(pending, t) /\ UNCHANGED <<shown, current, outcome>>
        /\ Emits(<<Accepted(t)>>)
    BY <1>4 DEF Submit, Known, history, Accepted
  <2>2. Story(l \o <<Accepted(t)>>, Append(pending, t), current.turn, outcome)
    BY <1>1, <1>2, <2>1, StorySubmits
  <2>3. <<Accepted(t)>> \in Seq(Said)
    <3>1. Accepted(t) \in Said
      BY KindsOfEvents
    <3> QED
      BY <3>1
  <2>4. shown' \in Seq(Said) /\ tail' \in Seq(Said) /\ shown' \o tail' = l \o <<Accepted(t)>>
    BY <1>2, <2>1, <2>3, LineEmits
  <2> QED
    BY <2>1, <2>2, <2>4 DEF LineInv
<1>5. ASSUME Loops(<<>>), UNCHANGED <<shown, outcome>>, current.turn \in Turns => outcome[current.turn] # "none"
      PROVE  LineInv'
  <2>1. \A t \in ToSet(pending) : outcome'[t] = "none"
    BY <1>5 DEF IInv, Places
  <2>2. Story((shown \o tail) \o none, pending, current.turn, outcome')
    BY <1>2, <1>3, <1>5
  <2>3. Loops(none)
    BY <1>3, <1>5
  <2> QED
    BY <1>5, <2>1, <2>2, <2>3, LineLoops
<1>6. ASSUME WorkerBegins PROVE LineInv'
  <2>1. current.turn \notin Turns
    BY <1>1, <1>6, NoTurnAssumption DEF WorkerBegins, IInv, OneTask, Tasks
  <2> QED
    BY <1>5, <1>6, <2>1 DEF WorkerBegins, history
<1>7. ASSUME TurnOver PROVE LineInv'
  <2>1. /\ current.turn \in Turns /\ shown' = shown
        /\ outcome[current.turn] = "none" <=> current.step # "done"
    BY <1>1, <1>7 DEF TurnOver, IInv, OneTask, Tasks, Places
  <2>2. CASE current.step # "cancelled"
    BY <1>5, <1>7, <2>1, <2>2 DEF TurnOver
  <2>3. CASE current.step = "cancelled"
    <3>1. PICK c, n : /\ c = current.turn /\ c \in Turns
                      /\ n = [outcome EXCEPT ![c] = "cancelled"] /\ outcome' = n
      BY <1>7, <2>1, <2>3 DEF TurnOver
    <3>2. n[c] = "cancelled" /\ "cancelled" \in Outcomes
      BY <1>1, <3>1 DEF Outcomes
    <3>3. Story(l, pending, c, n) /\ Started(c) \in ToSet(l) /\ Finished(c) \notin ToSet(l)
      BY <1>1, <1>2, <2>1, <2>3, <3>1, <3>2, StoryOutcome
    <3>4. PICK e \in Said : e = Finished(c)
      BY <3>1, KindsOfEvents
    <3>5. Story(l \o <<e>>, pending, c, n)
      <4>1. Answers(l, pending, c, n, e)
        BY <3>2, <3>3, <3>4 DEF Answers
      <4> QED
        BY <1>1, <3>1, <4>1, StoryAnswers
    <3>6. PICK es \in Seq(Said) : es = <<e>>
      <4>1. <<e>> \in Seq(Said)
        BY <3>4
      <4> QED
        BY <4>1
    <3>7. Loops(es)
      BY <1>7, <2>3, <3>1, <3>4, <3>6 DEF TurnOver, Finished
    <3>8. \A t \in ToSet(pending) : outcome'[t] = "none"
      <4>1. ToSet(pending) \subseteq Turns /\ current.turn \notin ToSet(pending)
        BY <1>1, QueueOfTurns DEF IInv, Places
      <4> QED
        BY <3>1, <4>1 DEF IInv, Places
    <3> QED
      BY <1>2, <2>1, <3>1, <3>2, <3>5, <3>6, <3>7, <3>8, LineLoops
  <2> QED
    BY <2>2, <2>3
<1>8. ASSUME TurnBegins \/ Answered \/ ToolsDone \/ TurnCancelled PROVE LineInv'
  <2>1. /\ current.turn \in Turns /\ outcome[current.turn] = "none" /\ TurnKeeps
    BY <1>1, <1>8, Facts DEF TurnBegins, Answered, ToolsDone, TurnCancelled, IInv, OneTask, NoTask, Tasks, Places
  <2>2. CASE \E how \in {"completed", "failed"} : Ends(how)
    BY <2>1, <2>2, LineEnds
  <2>3. CASE \E step, n : Goes(step, n)
    <3>1. current'.turn = current.turn /\ UNCHANGED <<pending, shown, tail, outcome>>
      BY <1>1, <2>1, <2>3 DEF Goes, TurnKeeps, Tasks
    <3> QED
      BY <3>1 DEF LineInv
  <2> QED
    BY <1>8, <2>2, <2>3 DEF TurnBegins, Answered, ToolsDone, TurnCancelled
<1>9. ASSUME BeginShutdown PROVE LineInv'
  <2>1. CASE registered
    <3>1. /\ pending' = <<>> /\ Losing(ToSet(pending)) /\ current' = Cancelled /\ UNCHANGED <<shown, tail>>
      BY <1>9, <2>1 DEF BeginShutdown, events
    <3>2. current'.turn = current.turn
      BY <1>1, <3>1 DEF Cancelled, Tasks
    <3>3. /\ \A t \in Turns : outcome[t] # "none" => outcome'[t] = outcome[t]
          /\ \A t \in ToSet(pending) : outcome'[t] # "none"
      <4>1. ToSet(pending) \subseteq Turns
        BY <1>1, QueueOfTurns
      <4> QED
        BY <1>1, <3>1, <4>1, LosingType DEF Losing
    <3>4. Story(l, <<>>, current.turn, outcome')
      <4>1. PICK p, c, n : p = pending /\ p \in Seq(Turns) /\ c = current.turn /\ n = outcome'
        BY <1>1
      <4>2. Cut(l, none, p, c, outcome, c, n)
        BY <1>2, <1>3, <3>3, <4>1 DEF Cut
      <4>3. Story(l, <<>>, c, n)
        BY <4>1, <4>2, StoryCut
      <4> QED
        BY <4>1, <4>3
    <3> QED
      BY <1>2, <3>1, <3>2, <3>4 DEF LineInv
  <2>2. CASE ~registered
    BY <1>9, <2>2 DEF BeginShutdown, events, LineInv
  <2> QED
    BY <2>1, <2>2
<1>10. ASSUME Closed PROVE LineInv'
  <2>1. Emits(StateEvents(state, "stopped")) /\ UNCHANGED <<shown, pending, current, outcome>>
    BY <1>10 DEF Closed, history
  <2>2. PICK st \in Seq(Said) : st = StateEvents(state, "stopped") /\ Story(l \o st, pending, current.turn, outcome)
    BY <1>1, <1>2, StateIsQuiet
  <2>3. shown' \in Seq(Said) /\ tail' \in Seq(Said) /\ shown' \o tail' = l \o st
    BY <1>2, <2>1, <2>2, LineEmits
  <2> QED
    BY <2>1, <2>2, <2>3 DEF LineInv
<1>11. ASSUME ProcessEnds \/ ProcessDies PROVE LineInv'
  <2>1. /\ pending' = <<>> /\ current' = NoTask /\ tail' = <<>> /\ shown' = shown
        /\ Losing(ToSet(pending) \cup {current.turn})
    BY <1>11 DEF ProcessEnds, ProcessDies, Gone
  <2>2. /\ \A t \in Turns : outcome[t] # "none" => outcome'[t] = outcome[t]
        /\ \A t \in ToSet(pending) : outcome'[t] # "none"
        /\ current.turn \in Turns => outcome'[current.turn] # "none"
    <3>1. ToSet(pending) \subseteq Turns
      BY <1>1, QueueOfTurns
    <3> QED
      BY <1>1, <2>1, <3>1, LosingType DEF Losing
  <2>3. shown \in Seq(Said) /\ tail \in Seq(Said) /\ shown \o none = shown
    BY <1>3, ConcatEmptySeq DEF LineInv
  <2>4. PICK q \in Seq(Said), z \in Seq(Said), d \in {current.turn, NoTurn} :
          q = shown /\ z = tail /\ d = NoTurn /\ d \notin Turns /\ l = q \o z
    BY <1>2, <2>3, NoTurnAssumption
  <2>5. Story(q, <<>>, d, outcome')
    <3>1. PICK p, c, n : p = pending /\ p \in Seq(Turns) /\ c = current.turn /\ n = outcome'
      BY <1>1
    <3>2. /\ \A t \in Turns : outcome[t] # "none" => n[t] = outcome[t]
          /\ \A t \in ToSet(p) : n[t] # "none"
          /\ c \in Turns => n[c] # "none"
          /\ Story(l, p, c, outcome) /\ d \in {c, NoTurn}
      BY <1>2, <2>2, <2>4, <3>1
    <3>3. Cut(q, z, p, c, outcome, d, n)
      BY <2>4, <3>2 DEF Cut
    <3>4. Story(q, <<>>, d, n)
      BY <3>1, <3>3, StoryCut
    <3> QED
      BY <3>1, <3>4
  <2>6. current'.turn = NoTurn
    BY <2>1 DEF NoTask
  <2> QED
    BY <1>3, <2>1, <2>3, <2>4, <2>5, <2>6 DEF LineInv
<1>12. ASSUME Flushed \/ Restart \/ UNCHANGED vars PROVE LineInv'
  BY <1>12 DEF Flushed, Restart, vars, runtime, history, events, LineInv
<1>13. ASSUME Consume PROVE LineInv'
  BY <1>13, LineConsumes
<1> QED
  BY <1>4, <1>6, <1>7, <1>8, <1>9, <1>10, <1>11, <1>12, <1>13 DEF Next

----------------------------------------------------------------------------
(* The theorems                                                            *)

(* wait_idle is answered exactly when no turn waits or runs, no turn waits *)
(* without a worker, a closed runtime goes on with no turn, and an LLM is  *)
(* asked at most MaxIters times.                                           *)
THEOREM FlagsAgree == Spec => []ToolLoopConsistent
<1> QED
  BY InitHolds, StepHolds, Consistent, PTL DEF Spec

(* The memory that the LLM is told of is the last turns that were answered,*)
(* in their order, over all the lives of the daemon whose writes of the    *)
(* memory's file succeeded; a turn that was cut short is never in it.      *)
THEOREM Remembers == Spec => []MemoryIsWhole
<1>1. Memory => MemoryIsWhole
  BY DEF Memory, MemoryIsWhole, Kept
<1> QED
  BY <1>1, InitHolds, StepHolds, MemoryInit, MemoryStep, PTL DEF Spec

(* What users see of their turns is in order and whole: events are not     *)
(* shown twice or out of order, a turn has its answer before its end       *)
(* unless it was cancelled, and turns begin in the order in which they     *)
(* came, although each event is a task of its own, and whatever a          *)
(* cancellation, a shutdown or a death of the daemon cuts.                 *)
THEOREM ShowsWhole == Spec => []TurnsShownWhole
<1>1. LineInv => TurnsShownWhole
  <2> SUFFICES ASSUME LineInv PROVE TurnsShownWhole
    OBVIOUS
  <2>1. PICK s, p, c : s = shown \o tail /\ p = pending /\ c = current.turn
    OBVIOUS
  <2>2. shown \in Seq(Said) /\ tail \in Seq(Said) /\ Story(s, p, c, outcome) /\ Single(s)
    BY <2>1 DEF LineInv, Story, Ordered
  <2>3. /\ ToSet(shown) \subseteq ToSet(s) /\ Single(shown)
        /\ \A e, f : Before(shown, e, f) => Before(s, e, f)
        /\ \A e, f : f.turn \in Turns /\ f \in ToSet(shown) /\ Before(s, e, f) => Before(shown, e, f)
    BY <2>1, <2>2, Begins
  <2>4. ASSUME NEW t \in Turns
        PROVE  /\ Started(t) \in ToSet(shown) => Before(shown, Accepted(t), Started(t))
               /\ Delta(t) \in ToSet(shown) => Before(shown, Started(t), Delta(t))
               /\ Finished(t) \in ToSet(shown) => Before(shown, Started(t), Finished(t))
               /\ Finished(t) \in ToSet(shown) /\ outcome[t] # "cancelled"
                    => Before(shown, Delta(t), Finished(t))
               /\ Delta(t) \in ToSet(shown) => outcome[t] \in {"completed", "failed"}
    <3>1. \A e, f : f \in {Started(t), Delta(t), Finished(t)} /\ f \in ToSet(shown) /\ Before(s, e, f)
                      => Before(shown, e, f)
      BY <2>3, KindsOfEvents
    <3> QED
      BY <2>2, <2>3, <3>1 DEF Story, Ordered, Endings
  <2>5. ASSUME NEW t \in Turns, NEW u \in Turns, Before(shown, Started(t), Started(u))
        PROVE  Before(shown, Accepted(t), Accepted(u))
    <3>1. Accepted(u) \in ToSet(shown) /\ Accepted(u).turn \in Turns
      BY <2>4, <2>5, BeforeIn, KindsOfEvents
    <3>2. Before(s, Accepted(t), Accepted(u))
      BY <2>2, <2>3, <2>5 DEF Story, Ordered
    <3> QED
      BY <2>3, <3>1, <3>2
  <2>6. InOrder(shown)
    BY <2>3, <2>4, <2>5 DEF InOrder, Follows, Single, Accepted, Started, Delta, Finished
  <2> QED
    BY <2>4, <2>6 DEF TurnsShownWhole, Follows, Delta, Finished
<1> QED
  BY <1>1, InitHolds, StepHolds, LineInit, LineStep, PTL DEF Spec

(* Every accepted turn is served at most once, alone, and ends once, also  *)
(* through a shutdown and the death of the daemon: a tool loop implements  *)
(* the abstract turn service.                                              *)
THEOREM Implements == Spec => ImplementsTurnService
<1>1. Init => Service!Init
  <2> SUFFICES ASSUME Init PROVE Service!Init
    OBVIOUS
  <2>1. pending = <<>> /\ current = NoTask /\ outcome = [t \in Turns |-> "none"]
    BY DEF Init, Blank
  <2> QED
    BY <2>1, Facts, EmptyQueue DEF Service!Init, Unended, NoTask
<1> QED
  BY <1>1, InitHolds, StepHolds, ServiceStep, PTL DEF Spec, ImplementsTurnService, Service!Spec
=============================================================================
