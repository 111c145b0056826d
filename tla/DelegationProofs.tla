-------------------------- MODULE DelegationProofs --------------------------
(***************************************************************************)
(* Proofs about Delegation, for any number of Workers, delegations and     *)
(* turns: the Manager hears of each round's end once, what a Worker has    *)
(* reported or the Manager has decided is not taken back, the ledger says  *)
(* what the Workers do, and each Worker is a turn service.                 *)
(***************************************************************************)
EXTENDS Delegation, TLAPS

----------------------------------------------------------------------------
(* The ledger, in memory or on disk                                        *)

Settled == {"waiting_manager", "failed", "cancelled"}

(* What a record says when no report came.                                 *)
Silent == {"", "unreported"}

Record == [status : Statuses \cup {"none", "interrupted"}, turn : 0..MaxTurns,
           report : Reports \cup Silent]

(* A record of Worker w, when i turns have been issued, the Manager has    *)
(* heard of what h says, and g is being told: of an active one it has not  *)
(* heard, of a settled one it has, or is about to.                         *)
SoundRecord(x, w, i, h, g) ==
  /\ x.status = "none" => x = NoRecord
  /\ x.status # "none" => x.turn \in 1..i
  /\ x.status \in Active => h[x.turn] = "no" /\ \A v \in Workers : g[v] # x.turn
  /\ x.status \in Settled => h[x.turn] \in {"yes", "cut"} \/ g[w] = x.turn

(* A ledger r whose last id is n: no two delegations have a turn in common.*)
SoundLedger(r, n, i, h, g) ==
  /\ r \in [Ids -> Record] /\ n \in 0..MaxDelegations
  /\ \A d \in Ids :
       /\ SoundRecord(r[d], WorkerOf[d], i, h, g)
       /\ d > n => r[d].status = "none"
       /\ \A c \in Ids : r[c].status # "none" /\ r[c].turn = r[d].turn => c = d

----------------------------------------------------------------------------
(* What is on its way                                                      *)

Typed ==
  /\ issued \in 0..MaxTurns /\ told \in [Turns -> {"no", "yes", "cut"}]
  /\ telling \in [Workers -> 0..MaxTurns] /\ serving \in [Workers -> 0..MaxTurns]
  /\ stage \in [Workers -> Stages] /\ waiting \in [Workers -> Seq(Turns)]
  /\ booting \in [Workers -> BOOLEAN] /\ alive \in [Workers -> BOOLEAN]
  /\ result \in [Workers -> Answers \cup {"interrupted"}]
  /\ DOMAIN disk = {"record", "seq"}

(* A turn that is being told is told by one Worker, and not told yet.      *)
Telling ==
  /\ \A t \in Turns : t > issued => told[t] = "no"
  /\ \A w \in Workers : telling[w] # 0 =>
       /\ stage[w] = "telling" /\ told[telling[w]] = "no" /\ telling[w] <= issued
       /\ \A v \in Workers : telling[v] = telling[w] => v = w

(* The turns a Worker has are its own.                                     *)
Holding ==
  \A w \in Workers :
    /\ \A t \in Range(waiting[w]) \cup {serving[w]} :
         t <= issued /\ \A d \in Ids : t # 0 /\ record[d].turn = t => WorkerOf[d] = w
    /\ booting[w] => waiting[w] # <<>>

(* Nothing is left of a process that has ended but its ledger.             *)
Ended0 ==
  daemon = "down" => \A w \in Workers :
    /\ ~alive[w] /\ stage[w] = "idle" /\ telling[w] = 0 /\ serving[w] = 0
    /\ waiting[w] = <<>>

WorkInv == Typed /\ Telling /\ Holding /\ Ended0

LedgerInv ==
  /\ SoundLedger(record, seq, issued, told, telling)
  /\ SoundLedger(disk.record, disk.seq, issued, told, telling)

DelegationInv == WorkInv /\ LedgerInv

----------------------------------------------------------------------------
(* Which values belong to which set                                        *)

LEMMA Values ==
  /\ Ids \subseteq Nat \ {0} /\ Turns \subseteq Nat \ {0} /\ Turns = 1..MaxTurns
  /\ MaxTurns \in Nat /\ MaxDelegations \in Nat /\ WorkerOf \in [Ids -> Workers]
  /\ NoRecord \in Record /\ NoRecord.status = "none" /\ NoRecord.turn = 0
  /\ {"submitted", "running", "failed", "completed", "cancelled", "waiting_manager",
      "none", "interrupted"} \subseteq Statuses \cup {"none", "interrupted"}
  /\ {"none", "completed", "interrupted"} \cap (Active \cup Settled) = {}
  /\ Active \cap Settled = {} /\ Active \subseteq Statuses /\ Settled \subseteq Statuses
  /\ "none" \notin Statuses /\ "interrupted" \notin Statuses
  /\ {"idle", "begun", "working", "finishing", "telling"} = Stages
  /\ "submitted" \in Active /\ "running" \in Active /\ Active = {"submitted", "running"}
<1>1. /\ Ids \subseteq Nat \ {0} /\ Turns \subseteq Nat \ {0} /\ Turns = 1..MaxTurns
      /\ MaxTurns \in Nat /\ MaxDelegations \in Nat /\ WorkerOf \in [Ids -> Workers]
  <2>1. MaxTurns \in Nat /\ MaxDelegations \in Nat /\ WorkerOf \in [Ids -> Workers]
    BY DelegationAssumption
  <2> QED
    BY <2>1 DEF Ids, Turns
<1>2. NoRecord \in Record /\ NoRecord.status = "none" /\ NoRecord.turn = 0
  BY <1>1 DEF Record, NoRecord, Silent, Statuses
<1>3. /\ Active = {"submitted", "running"} /\ "none" \notin Statuses
      /\ Statuses = {"submitted", "running", "completed", "cancelled", "failed",
                     "waiting_manager"}
      /\ "interrupted" \notin Statuses
  BY DEF Statuses, Active, Answers
<1>4. {"idle", "begun", "working", "finishing", "telling"} = Stages
  BY DEF Stages
<1> QED
  BY <1>1, <1>2, <1>3, <1>4 DEF Settled

LEMMA RecordFields ==
  ASSUME NEW x \in Record
  PROVE  /\ x.turn \in Nat /\ x = [status |-> x.status, turn |-> x.turn, report |-> x.report]
         /\ x.status \in Statuses \cup {"none", "interrupted"}
         /\ x.report \in Reports \cup Silent /\ x.turn \in 0..MaxTurns
<1>1. /\ x = [status |-> x.status, turn |-> x.turn, report |-> x.report]
      /\ x.status \in Statuses \cup {"none", "interrupted"}
      /\ x.report \in Reports \cup Silent /\ x.turn \in 0..MaxTurns
  BY DEF Record
<1>2. MaxTurns \in Nat
  BY DelegationAssumption
<1>3. x.turn \in Nat
  BY <1>1, <1>2
<1> QED
  BY <1>1, <1>3, Zenon

LEMMA QueueFacts ==
  ASSUME NEW s \in Seq(Turns), NEW t \in Turns
  PROVE  /\ Append(s, t) \in Seq(Turns) /\ Append(s, t) # <<>>
         /\ Range(Append(s, t)) = Range(s) \cup {t}
         /\ Range(<<>>) = {} /\ Range(s) \subseteq Turns
         /\ s # <<>> => /\ Head(s) \in Range(s) /\ Head(s) \in Turns
                        /\ Tail(s) \in Seq(Turns) /\ Range(Tail(s)) \subseteq Range(s)
<1>1. Append(s, t) \in Seq(Turns) /\ Append(s, t) # <<>>
  <2>1. Append(s, t) \in Seq(Turns) /\ Len(Append(s, t)) = Len(s) + 1 /\ Len(s) \in Nat
    OBVIOUS
  <2>2. Len(<<>>) = 0
    OBVIOUS
  <2> QED
    BY <2>1, <2>2
<1>2. Range(Append(s, t)) = Range(s) \cup {t}
  <2>1. /\ DOMAIN Append(s, t) = 1..(Len(s) + 1) /\ DOMAIN s = 1..Len(s) /\ Len(s) \in Nat
        /\ \A i \in 1..Len(s) : Append(s, t)[i] = s[i]
        /\ Append(s, t)[Len(s) + 1] = t
    OBVIOUS
  <2> QED
    BY <2>1 DEF Range
<1>3. Range(<<>>) = {} /\ Range(s) \subseteq Turns
  BY DEF Range
<1>4. ASSUME s # <<>> PROVE Head(s) \in Range(s) /\ Head(s) \in Turns
  BY <1>4 DEF Range
<1>5. ASSUME s # <<>>
      PROVE Tail(s) \in Seq(Turns) /\ Range(Tail(s)) \subseteq Range(s)
  <2>1. /\ Tail(s) \in Seq(Turns) /\ Len(s) \in Nat \ {0} /\ DOMAIN s = 1..Len(s)
        /\ DOMAIN Tail(s) = 1..(Len(s) - 1)
        /\ \A i \in 1..(Len(s) - 1) : Tail(s)[i] = s[i + 1]
    BY <1>5
  <2> QED
    BY <2>1 DEF Range
<1> QED
  BY <1>1, <1>2, <1>3, <1>4, <1>5

LEMMA DelegationInit == Init => DelegationInv
<1> SUFFICES ASSUME Init PROVE DelegationInv
  OBVIOUS
<1>1. Typed
  <2>1. /\ issued \in 0..MaxTurns /\ told \in [Turns -> {"no", "yes", "cut"}]
        /\ telling \in [Workers -> 0..MaxTurns] /\ serving \in [Workers -> 0..MaxTurns]
    BY Values DEF Init
  <2>2. stage \in [Workers -> Stages] /\ waiting \in [Workers -> Seq(Turns)]
    BY DEF Init, Stages
  <2>3. /\ booting \in [Workers -> BOOLEAN] /\ alive \in [Workers -> BOOLEAN]
        /\ result \in [Workers -> Answers \cup {"interrupted"}]
        /\ DOMAIN disk = {"record", "seq"}
    BY DEF Init, Answers
  <2> QED
    BY <2>1, <2>2, <2>3 DEF Typed
<1>2. Telling /\ Ended0
  BY DEF Init, Telling, Ended0
<1>3. Holding
  <2>1. \A w \in Workers : Range(waiting[w]) = {} /\ serving[w] = 0 /\ booting[w] = FALSE
    BY DEF Init, Range
  <2> QED
    BY <2>1 DEF Holding, Init
<1>4. SoundLedger(record, seq, issued, told, telling)
  BY Values DEF Init, SoundLedger, SoundRecord
<1>5. disk.record = record /\ disk.seq = seq
  BY DEF Init
<1> QED
  BY <1>1, <1>2, <1>3, <1>4, <1>5 DEF DelegationInv, WorkInv, LedgerInv

(* Nothing about a ledger depends on more than these.                      *)
LEMMA OneChanges ==
  ASSUME NEW r, NEW n, NEW i \in Nat, NEW h, NEW g, SoundLedger(r, n, i, h, g),
         NEW d \in Ids, NEW x \in Record, x.status # "none",
         NEW n2 \in 0..MaxDelegations, n <= n2, d <= n2,
         NEW i2 \in Nat, i <= i2, NEW h2, NEW g2,
         SoundRecord(x, WorkerOf[d], i2, h2, g2),
         x.turn > i \/ (x.turn = r[d].turn /\ r[d].status # "none"),
         \A c \in Ids : c # d => SoundRecord(r[c], WorkerOf[c], i2, h2, g2)
  PROVE  SoundLedger([r EXCEPT ![d] = x], n2, i2, h2, g2)
<1> DEFINE q == [r EXCEPT ![d] = x]
<1>1. /\ q \in [Ids -> Record] /\ q[d] = x /\ \A c \in Ids : c # d => q[c] = r[c]
      /\ Ids \subseteq Nat /\ n \in Nat /\ n2 \in Nat
  BY Values DEF SoundLedger
<1>2. \A c \in Ids : SoundRecord(q[c], WorkerOf[c], i2, h2, g2)
  BY <1>1
<1>3. \A c \in Ids : c > n2 => q[c].status = "none"
  BY <1>1 DEF SoundLedger
<1>4. \A c \in Ids : r[c] \in Record /\ r[c].turn \in Nat /\ r[c].turn <= i
  <2> SUFFICES ASSUME NEW c \in Ids PROVE r[c] \in Record /\ r[c].turn \in 0..i
    OBVIOUS
  <2>1. r[c] \in Record /\ SoundRecord(r[c], WorkerOf[c], i, h, g)
    BY DEF SoundLedger
  <2> QED
    BY <2>1, Values DEF SoundRecord
<1>5. x.turn \in Nat
  BY RecordFields
<1>6. ASSUME NEW b \in Ids, NEW c \in Ids, q[c].status # "none", q[c].turn = q[b].turn
      PROVE  c = b
  <2>1. CASE c # d /\ b # d
    BY <1>1, <1>6, <2>1 DEF SoundLedger
  <2>2. CASE c = d /\ b # d
    <3>1. x.turn = r[b].turn
      BY <1>1, <1>6, <2>2
    <3>2. x.turn = r[d].turn /\ r[d].status # "none"
      BY <3>1, <1>4, <1>5
    <3> QED
      BY <2>2, <3>1, <3>2 DEF SoundLedger
  <2>3. CASE c # d /\ b = d
    <3>1. x.turn = r[c].turn /\ r[c].status # "none"
      BY <1>1, <1>6, <2>3
    <3>2. x.turn = r[d].turn
      BY <3>1, <1>4, <1>5
    <3> QED
      BY <2>3, <3>1, <3>2 DEF SoundLedger
  <2> QED
    BY <2>1, <2>2, <2>3
<1> QED
  BY <1>1, <1>2, <1>3, <1>6 DEF SoundLedger

(* The ledger is left alone, and so is who is told.                        *)
LEMMA LedgerStill ==
  ASSUME LedgerInv, UNCHANGED <<ledger, issued, told, telling>> PROVE LedgerInv'
BY DEF LedgerInv, ledger

(* One record of the ledger in use changes, and it is flushed.             *)
LEMMA Flushed ==
  ASSUME DelegationInv, NEW d \in Ids, NEW x \in Record, x.status # "none",
         NEW n \in 0..MaxDelegations, seq <= n, d <= n, Flush([record EXCEPT ![d] = x], n),
         DOMAIN disk = {"record", "seq"},
         issued' \in Nat, issued <= issued',
         SoundRecord(x, WorkerOf[d], issued', told', telling'),
         x.turn > issued \/ (x.turn = record[d].turn /\ record[d].status # "none"),
         \A c \in Ids : c # d => SoundRecord(record[c], WorkerOf[c], issued', told', telling')
  PROVE  LedgerInv' /\ DOMAIN disk' = {"record", "seq"}
<1>1. issued \in Nat
  BY Values DEF DelegationInv, WorkInv, Typed
<1>2. SoundLedger([record EXCEPT ![d] = x], n, issued', told', telling')
  BY <1>1, OneChanges DEF DelegationInv, LedgerInv
<1>3. record' = [record EXCEPT ![d] = x] /\ seq' = n
      /\ disk' = [record |-> record', seq |-> seq']
  BY DEF Flush
<1> QED
  BY <1>2, <1>3 DEF LedgerInv

(* What the invariant says of the records.                                 *)
LEMMA RecordsAre ==
  ASSUME DelegationInv
  PROVE  /\ issued \in Nat /\ issued \in 0..MaxTurns /\ seq \in 0..MaxDelegations
         /\ \A c \in Ids :
              /\ record[c] \in Record /\ record[c].turn \in 0..issued
              /\ SoundRecord(record[c], WorkerOf[c], issued, told, telling)
              /\ record[c].status # "none" => record[c].turn \in Turns
<1>1. issued \in Nat /\ issued \in 0..MaxTurns /\ seq \in 0..MaxDelegations
  BY Values DEF DelegationInv, WorkInv, LedgerInv, Typed, SoundLedger
<1>2. ASSUME NEW c \in Ids
      PROVE  /\ record[c] \in Record /\ record[c].turn \in 0..issued
             /\ SoundRecord(record[c], WorkerOf[c], issued, told, telling)
             /\ record[c].status # "none" => record[c].turn \in Turns
  <2>1. record[c] \in Record /\ SoundRecord(record[c], WorkerOf[c], issued, told, telling)
    BY DEF DelegationInv, LedgerInv, SoundLedger
  <2>2. record[c].status = "none" => record[c].turn = 0
    BY <2>1, Values DEF SoundRecord
  <2>3. record[c].status # "none" => record[c].turn \in 1..issued
    BY <2>1 DEF SoundRecord
  <2> QED
    BY <1>1, <2>1, <2>2, <2>3, Values
<1> QED
  BY <1>1, <1>2

----------------------------------------------------------------------------
(* Each step keeps the invariant                                           *)

LEMMA HandKeeps ==
  ASSUME DelegationInv, daemon = "up", NEW d \in Ids, NEW n \in 0..MaxDelegations, Hand(d, n),
         (n = seq /\ record[d].status # "none" /\ d <= seq) \/ (n = seq + 1 /\ d = n)
  PROVE  DelegationInv'
<1> DEFINE t == issued + 1
           w == WorkerOf[d]
           x(s, p) == [status |-> s, turn |-> t, report |-> p]
<1>1. /\ t \in Turns /\ issued' = t /\ t \in 0..MaxTurns /\ w \in Workers
      /\ issued \in Nat /\ seq \in 0..MaxDelegations /\ told[t] = "no"
      /\ \A v \in Workers : telling[v] # t
      /\ DOMAIN disk = {"record", "seq"} /\ told \in [Turns -> {"no", "yes", "cut"}]
      /\ t # 0 /\ t > issued /\ t \in Nat /\ t \in 1..issued' /\ issued' \in Nat
      /\ issued <= issued' /\ 0..issued \subseteq 0..issued' /\ t \notin 0..issued
      /\ 1..issued \subseteq 1..issued'
  <2>1. issued \in Nat /\ seq \in 0..MaxDelegations
    BY RecordsAre
  <2>2. t \in Turns /\ issued' = t
    BY DEF Hand
  <2>3. w \in Workers /\ t \in 0..MaxTurns
    BY <2>1, <2>2, Values
  <2>4. /\ DOMAIN disk = {"record", "seq"} /\ told \in [Turns -> {"no", "yes", "cut"}]
        /\ Telling
    BY DEF DelegationInv, WorkInv, Typed
  <2>5. t # 0 /\ t > issued
    BY <2>1
  <2>6. told[t] = "no" /\ \A v \in Workers : telling[v] # t
    BY <2>1, <2>2, <2>4, <2>5 DEF Telling
  <2>7. t \in Nat /\ t \in 1..t /\ issued <= t /\ t \notin 0..issued
    BY <2>1
  <2>8. 0..issued \subseteq 0..t /\ 1..issued \subseteq 1..t
    BY <2>1
  <2> QED
    BY <2>1, <2>2, <2>3, <2>4, <2>5, <2>6, <2>7, <2>8
<1>2. UNCHANGED <<serving, stage, result, telling, daemon>>
  BY DEF Hand
<1>3. ASSUME NEW s \in Statuses, NEW p \in Silent,
             Flush([record EXCEPT ![d] = x(s, p)], n),
             \/ s \in Active /\ told' = told
             \/ s = "failed" /\ told' = [told EXCEPT ![t] = "yes"]
      PROVE  LedgerInv' /\ DOMAIN disk' = {"record", "seq"}
  <2>1. x(s, p) \in Record /\ s # "none"
    BY <1>1, <1>3, Values DEF Record
  <2>2. told'[t] = IF s = "failed" THEN "yes" ELSE "no"
    BY <1>1, <1>3, Values DEF Settled
  <2>3. SoundRecord(x(s, p), w, issued', told', telling')
    <3>1. t \in 1..issued' /\ \A v \in Workers : telling'[v] # t
      BY <1>1, <1>2
    <3>2. s \in Settled => s = "failed"
      BY <1>3 DEF Settled, Active
    <3>3. s \in Active => s # "failed"
      BY DEF Active
    <3> HIDE DEF t
    <3> QED
      BY <2>1, <2>2, <3>1, <3>2, <3>3 DEF SoundRecord
  <2>4. \A c \in Ids : SoundRecord(record[c], WorkerOf[c], issued', told', telling')
    <3> SUFFICES ASSUME NEW c \in Ids
                 PROVE  SoundRecord(record[c], WorkerOf[c], issued', told', telling')
      OBVIOUS
    <3>1. record[c].turn \in 0..issued /\ SoundRecord(record[c], WorkerOf[c], issued, told, telling)
      BY RecordsAre
    <3>2. ASSUME record[c].status # "none"
          PROVE  told'[record[c].turn] = told[record[c].turn]
      <4>1. record[c].turn \in Turns /\ record[c].turn # t
        BY <1>1, <3>1, <3>2, RecordsAre, Zenon
      <4> QED
        BY <1>1, <1>3, <4>1
    <3>3. record[c].status \in Active \cup Settled => record[c].status # "none"
      BY DEF Active, Settled
    <3>4. record[c].turn \in 1..issued => record[c].turn \in 1..issued'
      BY <1>1
    <3> QED
      BY <1>2, <3>1, <3>2, <3>3, <3>4 DEF SoundRecord
  <2>5. seq <= n /\ d <= n
    <3>1. seq \in Nat
      BY <1>1, Values
    <3> QED
      BY <3>1
  <2>6. /\ x(s, p).status # "none" /\ x(s, p).turn > issued
        /\ issued' \in Nat /\ issued <= issued'
    BY <1>1, <2>1
  <2> HIDE DEF t, x
  <2> QED
    BY <1>1, <1>3, <2>1, <2>3, <2>4, <2>5, <2>6, Flushed
<1>4. ASSUME record' = [record EXCEPT ![d] = x(record'[d].status, record'[d].report)],
             \/ Send(w, t)
             \/ UNCHANGED <<waiting, booting>>
      PROVE  Holding'
  <2> SUFFICES ASSUME NEW v \in Workers
               PROVE  /\ \A u \in Range(waiting'[v]) \cup {serving'[v]} :
                           /\ u <= issued'
                           /\ \A c \in Ids : u # 0 /\ record'[c].turn = u => WorkerOf[c] = v
                      /\ booting'[v] => waiting'[v] # <<>>
    BY DEF Holding
  <2>1. \/ waiting'[v] = waiting[v] /\ (booting'[v] => waiting[v] # <<>>)
        \/ v = w /\ waiting'[v] = Append(waiting[v], t)
    <3>1. /\ waiting \in [Workers -> Seq(Turns)]
          /\ booting[v] => waiting[v] # <<>>
      BY DEF DelegationInv, WorkInv, Typed, Holding
    <3>2. CASE UNCHANGED <<waiting, booting>>
      BY <3>1, <3>2
    <3>3. CASE Send(w, t) /\ v = w
      BY <1>1, <3>1, <3>3 DEF Send
    <3>4. CASE Send(w, t) /\ v # w
      <4>1. booting \in [Workers -> BOOLEAN]
        BY DEF DelegationInv, WorkInv, Typed
      <4> QED
        BY <1>1, <3>1, <3>4, <4>1 DEF Send
    <3> QED
      BY <1>4, <3>2, <3>3, <3>4
  <2>2. /\ waiting[v] \in Seq(Turns) /\ serving[v] \in 0..MaxTurns
        /\ Range(waiting[v]) \subseteq Turns
    BY <1>1, QueueFacts DEF DelegationInv, WorkInv, Typed
  <2>3. /\ booting'[v] => waiting'[v] # <<>>
        /\ Range(waiting'[v]) = Range(waiting[v])
           \/ (v = w /\ Range(waiting'[v]) = Range(waiting[v]) \cup {t})
    <3>1. /\ Append(waiting[v], t) # <<>>
          /\ Range(Append(waiting[v], t)) = Range(waiting[v]) \cup {t}
      BY <1>1, <2>2, QueueFacts
    <3> QED
      BY <2>1, <3>1
  <2>4. ASSUME NEW u \in Range(waiting[v]) \cup {serving[v]}
        PROVE  /\ u <= issued'
               /\ \A c \in Ids : u # 0 /\ record'[c].turn = u => WorkerOf[c] = v
    <3>1. u <= issued /\ u \in 0..MaxTurns
      BY <2>2, <2>4, Values DEF DelegationInv, WorkInv, Holding
    <3>2. \A c \in Ids : record'[c].turn = IF c = d THEN t ELSE record[c].turn
      BY <1>4, RecordsAre DEF DelegationInv, LedgerInv, SoundLedger
    <3> QED
      BY <1>1, <3>1, <3>2, Values, SMTT(30) DEF DelegationInv, WorkInv, Holding
  <2>5. \A c \in Ids : record'[c].turn = t => WorkerOf[c] = w
    <3>1. \A c \in Ids : c # d => record'[c].turn = record[c].turn
      BY <1>4 DEF DelegationInv, LedgerInv, SoundLedger
    <3> QED
      BY <1>1, <3>1, RecordsAre
  <2> QED
    BY <1>1, <1>2, <2>3, <2>4, <2>5, Values
<1>5. ASSUME \/ told' = told
             \/ told' = [told EXCEPT ![t] = "yes"]
      PROVE  Telling' /\ told' \in [Turns -> {"no", "yes", "cut"}]
  <2>1. told' \in [Turns -> {"no", "yes", "cut"}]
    BY <1>1, <1>5
  <2>2. \A u \in Turns : u # t => told'[u] = told[u]
    BY <1>1, <1>5
  <2>3. \A u \in Turns : u > issued' => u > issued /\ u # t
    BY <1>1, Values
  <2>4. \A u \in Turns : u > issued' => told'[u] = "no"
    BY <2>2, <2>3 DEF DelegationInv, WorkInv, Telling
  <2>5. \A v \in Workers : telling[v] # 0 =>
          telling[v] <= issued' /\ telling[v] \in Turns /\ telling[v] # t
    BY <1>1, Values DEF DelegationInv, WorkInv, Telling, Typed
  <2> QED
    BY <1>1, <1>2, <2>1, <2>2, <2>4, <2>5 DEF Telling, DelegationInv, WorkInv
<1>6. Ended0'
  BY <1>2 DEF Ended0
<1>7. ASSUME \/ Send(w, t)
             \/ UNCHANGED <<alive, booting, waiting>>
      PROVE  /\ waiting' \in [Workers -> Seq(Turns)]
             /\ booting' \in [Workers -> BOOLEAN] /\ alive' \in [Workers -> BOOLEAN]
  <2>1. /\ waiting \in [Workers -> Seq(Turns)] /\ booting \in [Workers -> BOOLEAN]
        /\ alive \in [Workers -> BOOLEAN]
    BY DEF DelegationInv, WorkInv, Typed
  <2>2. CASE UNCHANGED <<alive, booting, waiting>>
    BY <2>1, <2>2
  <2>3. CASE Send(w, t)
    <3>1. Append(waiting[w], t) \in Seq(Turns)
      BY <1>1, <2>1, QueueFacts
    <3> QED
      BY <1>1, <2>1, <2>3, <3>1 DEF Send
  <2> QED
    BY <1>7, <2>2, <2>3
<1>8. CASE Send(w, t) /\ Flush([record EXCEPT ![d] = x("submitted", "")], n) /\ told' = told
  <2>1. LedgerInv' /\ DOMAIN disk' = {"record", "seq"}
    <3>1. "" \in Silent /\ "submitted" \in Statuses
      BY Zenon DEF Silent, Statuses, Active
    <3> QED
      BY <1>3, <1>8, <3>1, Values, Zenon
  <2>2. record' = [record EXCEPT ![d] = x(record'[d].status, record'[d].report)]
    BY <1>8 DEF Flush, DelegationInv, LedgerInv, SoundLedger
  <2>3. Holding' /\ Telling'
    BY <1>4, <1>5, <1>8, <2>2
  <2> QED
    BY <1>1, <1>2, <1>5, <1>6, <1>7, <1>8, <2>1, <2>3 DEF DelegationInv, WorkInv, Typed
<1>9. CASE /\ Flush([record EXCEPT ![d] = x("failed", "unreported")], n)
           /\ told' = [told EXCEPT ![t] = "yes"] /\ UNCHANGED <<alive, booting, waiting>>
  <2>1. LedgerInv' /\ DOMAIN disk' = {"record", "seq"}
    <3>1. "unreported" \in Silent /\ "failed" \in Statuses
      BY Zenon DEF Silent, Statuses, Answers
    <3> QED
      BY <1>3, <1>9, <3>1, Values, Zenon
  <2>2. record' = [record EXCEPT ![d] = x(record'[d].status, record'[d].report)]
    BY <1>9 DEF Flush, DelegationInv, LedgerInv, SoundLedger
  <2>3. Holding' /\ Telling'
    BY <1>4, <1>5, <1>9, <2>2
  <2> QED
    BY <1>1, <1>2, <1>5, <1>6, <1>7, <1>9, <2>1, <2>3 DEF DelegationInv, WorkInv, Typed
<1> QED
  BY <1>8, <1>9 DEF Hand

(* What is said of the Workers' queues survives a step that gives no turn. *)
LEMMA HoldingKeeps ==
  ASSUME Holding, issued \in Nat, issued' = issued,
         \A c \in Ids : record'[c].turn = record[c].turn,
         \A v \in Workers :
           /\ Range(waiting'[v]) \cup {serving'[v]} \subseteq
                Range(waiting[v]) \cup {serving[v]} \cup {0}
           /\ booting'[v] => waiting'[v] # <<>>
  PROVE  Holding'
<1> SUFFICES ASSUME NEW v \in Workers, NEW u \in Range(waiting'[v]) \cup {serving'[v]}
             PROVE  u <= issued' /\ \A c \in Ids : u # 0 /\ record'[c].turn = u => WorkerOf[c] = v
  BY DEF Holding
<1>1. CASE u = 0
  BY <1>1
<1>2. CASE u \in Range(waiting[v]) \cup {serving[v]}
  <2>1. u <= issued /\ \A c \in Ids : u # 0 /\ record[c].turn = u => WorkerOf[c] = v
    BY <1>2 DEF Holding
  <2> QED
    BY <2>1
<1> QED
  BY <1>1, <1>2

(* A step of the Workers that the ledger and the Manager do not see.       *)
LEMMA Unseen ==
  ASSUME DelegationInv, UNCHANGED <<ledger, issued, told, telling>>, Typed', Ended0',
         \A v \in Workers :
           /\ stage[v] = "telling" => stage'[v] = "telling"
           /\ Range(waiting'[v]) \cup {serving'[v]} \subseteq
                Range(waiting[v]) \cup {serving[v]} \cup {0}
           /\ booting'[v] => waiting'[v] # <<>>
  PROVE  DelegationInv'
<1>1. LedgerInv'
  BY LedgerStill DEF DelegationInv
<1>2. Telling'
  BY DEF DelegationInv, WorkInv, Telling
<1>3. Holding'
  BY RecordsAre, HoldingKeeps DEF DelegationInv, WorkInv, ledger
<1> QED
  BY <1>1, <1>2, <1>3 DEF DelegationInv, WorkInv

(* What a settlement does to the ledger, and to whom it is told.           *)
LEMMA SettleIs ==
  ASSUME DelegationInv, NEW w \in Workers, NEW d \in Ids,
         NEW o \in Answers \cup {"interrupted"}, Settle(w, d, o)
  PROVE  \/ UNCHANGED <<ledger, telling>>
         \/ \E x \in Record :
              /\ record[d].status \in Active /\ x.turn = record[d].turn
              /\ record[d].report \in Reports \/ x.report \in Reports =>
                   x.report = record[d].report
              /\ \/ /\ x.status \in Settled /\ Flush([record EXCEPT ![d] = x], seq)
                    /\ telling' = [telling EXCEPT ![w] = record[d].turn]
                 \/ /\ x.status = "interrupted" /\ record' = [record EXCEPT ![d] = x]
                    /\ UNCHANGED <<seq, disk, telling>> /\ o = "interrupted"
<1> DEFINE s == IF o = "completed" THEN "waiting_manager" ELSE o
           p == OrUnreported(record[d].report)
           x == [status |-> s, turn |-> record[d].turn, report |-> p]
           r == [record EXCEPT ![d].status = s, ![d].report = OrUnreported(@)]
<1>1. record \in [Ids -> Record] /\ record[d] \in Record
  BY DEF DelegationInv, LedgerInv, SoundLedger
<1>2. p \in Reports \cup Silent
  <2>1. record[d].report \in Reports \cup Silent
    BY <1>1, RecordFields
  <2> QED
    BY <2>1, Zenon DEF OrUnreported, Silent
<1>3. s \in Settled \cup {"interrupted"} /\ Settled \subseteq Statuses
  BY DEF Answers, Settled, Statuses
<1>4. x \in Record
  <2>1. record[d].turn \in 0..MaxTurns
    BY <1>1, RecordFields
  <2> QED
    BY <1>2, <1>3, <2>1 DEF Record
<1>5. r = [record EXCEPT ![d] = x]
  <2>1. r[d] = [record[d] EXCEPT !.status = s, !.report = p]
    BY <1>1
  <2>2. r[d] = x
    BY <1>1, <2>1 DEF Record
  <2>3. r = [record EXCEPT ![d] = r[d]]
    BY <1>1
  <2> QED
    BY <2>2, <2>3
<1>6. \/ UNCHANGED <<ledger, telling>>
      \/ /\ record[d].status \in Active /\ s \in Statuses /\ Flush(r, seq)
         /\ telling' = [telling EXCEPT ![w] = record[d].turn]
      \/ /\ record[d].status \in Active /\ s \notin Statuses /\ record' = r
         /\ UNCHANGED <<seq, disk, telling>>
  BY Zenon DEF Settle, Save
<1>7. s \in Statuses => s \in Settled
  BY <1>3, Values
<1>8. s \notin Statuses => s = "interrupted" /\ o = "interrupted"
  BY <1>3
<1>9. x.status = s /\ x.turn = record[d].turn /\ x.report = p
  OBVIOUS
<1>10. record[d].report \in Reports \/ p \in Reports => p = record[d].report
  <2>1. "" \notin Reports /\ "unreported" \notin Reports
    BY Zenon, DelegationAssumption
  <2> QED
    BY <2>1, Zenon DEF OrUnreported
<1> HIDE DEF x, s, p, r
<1> QED
  BY <1>4, <1>5, <1>6, <1>7, <1>8, <1>9, <1>10

(* A Worker w settles delegation d, as the end of its turn.                *)
LEMMA SettleKeeps ==
  ASSUME DelegationInv, NEW w \in Workers, NEW d \in Ids,
         NEW o \in Answers \cup {"interrupted"}, Settle(w, d, o),
         WorkerOf[d] = w, telling[w] = 0, UNCHANGED <<issued, told>>
  PROVE  /\ LedgerInv' /\ DOMAIN disk' = {"record", "seq"}
         /\ \A c \in Ids : record'[c].turn = record[c].turn
         /\ \/ telling' = telling
            \/ \E t \in Turns : /\ telling' = [telling EXCEPT ![w] = t] /\ told[t] = "no"
                                /\ t <= issued /\ \A v \in Workers : telling[v] # t
<1>1. CASE UNCHANGED <<ledger, telling>>
  <2>1. DOMAIN disk = {"record", "seq"}
    BY DEF DelegationInv, WorkInv, Typed
  <2> QED
    BY <1>1, <2>1, LedgerStill DEF DelegationInv, ledger
<1>2. ASSUME NEW x \in Record, record[d].status \in Active, x.turn = record[d].turn,
             record' = [record EXCEPT ![d] = x]
      PROVE  \A c \in Ids : record'[c].turn = record[c].turn
  BY <1>2 DEF DelegationInv, LedgerInv, SoundLedger
<1>3. ASSUME record[d].status \in Active
      PROVE  /\ record[d].turn \in Turns /\ record[d].turn \in 1..issued
             /\ told[record[d].turn] = "no" /\ record[d].status # "none"
             /\ \A v \in Workers : telling[v] # record[d].turn
             /\ d <= seq
  <2>1. record[d].status # "none"
    BY <1>3, Values
  <2>2. SoundRecord(record[d], WorkerOf[d], issued, told, telling)
    BY RecordsAre
  <2>3. ~(d > seq)
    BY <2>1 DEF DelegationInv, LedgerInv, SoundLedger
  <2>4. d <= seq
    BY <2>3, RecordsAre, Values
  <2> QED
    BY <1>3, <2>1, <2>2, <2>4, RecordsAre DEF SoundRecord
<1>4. ASSUME NEW x \in Record, record[d].status \in Active, x.turn = record[d].turn,
             x.status \in Settled, Flush([record EXCEPT ![d] = x], seq),
             telling' = [telling EXCEPT ![w] = record[d].turn]
      PROVE  LedgerInv' /\ DOMAIN disk' = {"record", "seq"}
  <2>1. telling'[w] = record[d].turn /\ \A v \in Workers : v # w => telling'[v] = telling[v]
    BY <1>4 DEF DelegationInv, WorkInv, Typed
  <2>2. SoundRecord(x, WorkerOf[d], issued', told', telling')
    BY <1>3, <1>4, <2>1, Values DEF SoundRecord
  <2>3. ASSUME NEW c \in Ids, c # d
        PROVE  SoundRecord(record[c], WorkerOf[c], issued', told', telling')
    <3>1. SoundRecord(record[c], WorkerOf[c], issued, told, telling)
      BY RecordsAre
    <3>2. record[c].turn # record[d].turn
      BY <1>3, <1>4, <2>3 DEF DelegationInv, LedgerInv, SoundLedger
    <3>3. record[c].status \in Settled => record[c].turn # 0
      <4>1. record[c].status \in Settled => record[c].status # "none"
        BY DEF Settled
      <4> QED
        BY <4>1, RecordsAre, Values
    <3>4. ASSUME record[c].status \in Active
          PROVE  \A v \in Workers : telling'[v] # record[c].turn
      BY <2>1, <3>1, <3>2, <3>4 DEF SoundRecord
    <3>5. ASSUME record[c].status \in Settled, telling[WorkerOf[c]] = record[c].turn
          PROVE  telling'[WorkerOf[c]] = record[c].turn
      BY <1>4, <2>1, <3>3, <3>5, Values
    <3> QED
      BY <3>1, <3>4, <3>5 DEF SoundRecord
  <2>4. /\ DOMAIN disk = {"record", "seq"} /\ seq <= seq /\ d <= seq
        /\ issued' \in Nat /\ issued <= issued'
    BY <1>3, <1>4, RecordsAre, Values DEF DelegationInv, WorkInv, Typed
  <2>5. x.status # "none" /\ seq \in 0..MaxDelegations /\ record[d].status # "none"
    BY <1>3, <1>4, RecordsAre DEF Settled
  <2> QED
    BY <1>4, <2>2, <2>3, <2>4, <2>5, Flushed
<1>5. ASSUME NEW x \in Record, record[d].status \in Active, x.turn = record[d].turn,
             x.status = "interrupted", record' = [record EXCEPT ![d] = x],
             UNCHANGED <<seq, disk, telling>>
      PROVE  LedgerInv' /\ DOMAIN disk' = {"record", "seq"}
  <2>1. SoundRecord(x, WorkerOf[d], issued, told, telling)
    BY <1>3, <1>5, Values DEF SoundRecord
  <2>2. \A c \in Ids : SoundRecord(record[c], WorkerOf[c], issued, told, telling)
    BY RecordsAre
  <2>3. SoundLedger(record', seq, issued, told, telling)
    <3>1. /\ SoundLedger(record, seq, issued, told, telling) /\ issued \in Nat
          /\ seq \in 0..MaxDelegations /\ seq <= seq /\ issued <= issued
      BY RecordsAre, Values DEF DelegationInv, LedgerInv
    <3>2. x.status # "none" /\ d <= seq /\ record[d].status # "none"
      BY <1>3, <1>5
    <3> QED
      BY <1>5, <2>1, <2>2, <3>1, <3>2, OneChanges
  <2>4. DOMAIN disk = {"record", "seq"} /\ SoundLedger(disk.record, disk.seq, issued, told, telling)
    BY DEF DelegationInv, WorkInv, Typed, LedgerInv
  <2> QED
    BY <1>5, <2>3, <2>4 DEF LedgerInv
<1> QED
  <2>1. CASE UNCHANGED <<ledger, telling>>
    BY <1>1, <2>1 DEF ledger
  <2>2. \/ UNCHANGED <<ledger, telling>>
        \/ \E x \in Record :
              /\ record[d].status \in Active /\ x.turn = record[d].turn
              /\ \/ /\ x.status \in Settled /\ Flush([record EXCEPT ![d] = x], seq)
                    /\ telling' = [telling EXCEPT ![w] = record[d].turn]
                 \/ /\ x.status = "interrupted" /\ record' = [record EXCEPT ![d] = x]
                    /\ UNCHANGED <<seq, disk, telling>>
    BY SettleIs
  <2>3. CASE ~UNCHANGED <<ledger, telling>>
    <3>1. PICK x \in Record :
              /\ record[d].status \in Active /\ x.turn = record[d].turn
              /\ \/ /\ x.status \in Settled /\ Flush([record EXCEPT ![d] = x], seq)
                    /\ telling' = [telling EXCEPT ![w] = record[d].turn]
                 \/ /\ x.status = "interrupted" /\ record' = [record EXCEPT ![d] = x]
                    /\ UNCHANGED <<seq, disk, telling>>
      BY <2>2, <2>3
    <3>2. record' = [record EXCEPT ![d] = x]
      BY <3>1 DEF Flush
    <3>3. \A c \in Ids : record'[c].turn = record[c].turn
      BY <1>2, <3>1, <3>2
    <3>4. LedgerInv' /\ DOMAIN disk' = {"record", "seq"}
      BY <1>4, <1>5, <3>1
    <3>5. \/ telling' = telling
          \/ \E t \in Turns : /\ telling' = [telling EXCEPT ![w] = t] /\ told[t] = "no"
                              /\ t <= issued /\ \A v \in Workers : telling[v] # t
      BY <1>3, <3>1
    <3> QED
      BY <3>3, <3>4, <3>5
  <2> QED
    BY <2>1, <2>3

(* A record is rewritten without a change of round.                        *)
LEMMA Rewritten ==
  ASSUME DelegationInv, NEW d \in Ids, NEW x \in Record, record[d].status # "none",
         x.turn = record[d].turn, x.status # "none",
         x.status \in Active => record[d].status \in Active,
         x.status \in Settled => record[d].status \in Settled,
         Flush([record EXCEPT ![d] = x], seq), UNCHANGED <<issued, told, telling>>
  PROVE  /\ LedgerInv' /\ DOMAIN disk' = {"record", "seq"}
         /\ \A c \in Ids : record'[c].turn = record[c].turn
<1>1. \A c \in Ids : SoundRecord(record[c], WorkerOf[c], issued, told, telling)
  BY RecordsAre
<1>2. SoundRecord(x, WorkerOf[d], issued, told, telling)
  BY <1>1 DEF SoundRecord
<1>3. /\ DOMAIN disk = {"record", "seq"} /\ seq \in 0..MaxDelegations /\ seq <= seq
      /\ issued' \in Nat /\ issued <= issued'
  BY RecordsAre, Values DEF DelegationInv, WorkInv, Typed
<1>4. d <= seq
  <2>1. ~(d > seq)
    BY DEF DelegationInv, LedgerInv, SoundLedger
  <2> QED
    BY <2>1, <1>3, Values
<1>5. LedgerInv' /\ DOMAIN disk' = {"record", "seq"}
  BY <1>1, <1>2, <1>3, <1>4, Flushed
<1>6. record \in [Ids -> Record] /\ record' = [record EXCEPT ![d] = x]
  BY DEF Flush, DelegationInv, LedgerInv, SoundLedger
<1> QED
  BY <1>5, <1>6

(* One field of one record is written.                                     *)
LEMMA StatusSet ==
  ASSUME DelegationInv, NEW d \in Ids, NEW s \in Statuses
  PROVE  \E x \in Record : /\ [record EXCEPT ![d].status = s] = [record EXCEPT ![d] = x]
                           /\ x.status = s /\ x.turn = record[d].turn
                           /\ x.report = record[d].report
<1> DEFINE x == [record[d] EXCEPT !.status = s]
<1>1. record \in [Ids -> Record] /\ record[d] \in Record
  BY DEF DelegationInv, LedgerInv, SoundLedger
<1>2. /\ x \in Record /\ x.status = s /\ x.turn = record[d].turn
      /\ x.report = record[d].report
  BY <1>1 DEF Record
<1>3. [record EXCEPT ![d].status = s] = [record EXCEPT ![d] = x]
  BY <1>1
<1> HIDE DEF x
<1> QED
  BY <1>2, <1>3

LEMMA ReportSet ==
  ASSUME DelegationInv, NEW d \in Ids, NEW p \in Reports
  PROVE  \E x \in Record : /\ [record EXCEPT ![d].report = p] = [record EXCEPT ![d] = x]
                           /\ x.status = record[d].status /\ x.turn = record[d].turn
                           /\ x.report = p
<1> DEFINE x == [record[d] EXCEPT !.report = p]
<1>1. record \in [Ids -> Record] /\ record[d] \in Record
  BY DEF DelegationInv, LedgerInv, SoundLedger
<1>2. /\ x \in Record /\ x.status = record[d].status /\ x.turn = record[d].turn
      /\ x.report = p
  BY <1>1 DEF Record
<1>3. [record EXCEPT ![d].report = p] = [record EXCEPT ![d] = x]
  BY <1>1
<1> HIDE DEF x
<1> QED
  BY <1>2, <1>3

(* The Workers S have told the Manager, or never will.                     *)
LEMMA Heard ==
  ASSUME DelegationInv, UNCHANGED <<ledger, issued>>, NEW S \in SUBSET Workers,
         telling' \in [Workers -> 0..MaxTurns], told' \in [Turns -> {"no", "yes", "cut"}],
         \A v \in Workers : telling'[v] = IF v \in S THEN 0 ELSE telling[v],
         \A t \in Turns : IF \E v \in S : telling[v] = t THEN told'[t] \in {"yes", "cut"}
                          ELSE told'[t] = told[t],
         \A v \in Workers \ S : stage[v] = "telling" => stage'[v] = "telling"
  PROVE  LedgerInv' /\ Telling'
<1>1. issued \in Nat /\ issued' = issued /\ 1..issued \subseteq Turns
  <2>1. issued \in Nat /\ issued \in 0..MaxTurns
    BY RecordsAre
  <2> QED
    BY <2>1, Values
<1>2. ASSUME NEW x, NEW w \in Workers, SoundRecord(x, w, issued, told, telling)
      PROVE  SoundRecord(x, w, issued, told', telling')
  <2>1. x.status \in Active \cup Settled => x.turn \in Turns /\ x.turn # 0
    <3>1. x.status \in Active \cup Settled => x.status # "none"
      BY DEF Active, Settled
    <3> QED
      BY <1>1, <1>2, <3>1, Values DEF SoundRecord
  <2>2. ASSUME x.status \in Active
        PROVE  told'[x.turn] = "no" /\ \A v \in Workers : telling'[v] # x.turn
    BY <1>2, <2>1, <2>2 DEF SoundRecord
  <2>3. ASSUME x.status \in Settled
        PROVE  told'[x.turn] \in {"yes", "cut"} \/ telling'[w] = x.turn
    BY <1>2, <2>1, <2>3 DEF SoundRecord
  <2> QED
    BY <1>2, <2>2, <2>3 DEF SoundRecord
<1>3. WorkerOf \in [Ids -> Workers]
  BY DelegationAssumption
<1>4. LedgerInv'
  BY <1>1, <1>2, <1>3 DEF DelegationInv, LedgerInv, SoundLedger, ledger
<1>5. ASSUME NEW t \in Turns, t > issued PROVE told'[t] = "no"
  <2>1. told[t] = "no" /\ \A v \in Workers : telling[v] # 0 => telling[v] <= issued
    BY <1>5 DEF DelegationInv, WorkInv, Telling
  <2>2. \A v \in Workers : telling[v] # t
    BY <1>1, <1>5, <2>1, Values
  <2> QED
    BY <2>1, <2>2
<1>6. ASSUME NEW w \in Workers, telling'[w] # 0
      PROVE  /\ stage'[w] = "telling" /\ told'[telling'[w]] = "no" /\ telling'[w] <= issued'
             /\ \A v \in Workers : telling'[v] = telling'[w] => v = w
  <2>1. /\ w \notin S /\ telling'[w] = telling[w]
        /\ \A v \in Workers : telling'[v] # 0 => telling'[v] = telling[v]
    BY <1>6
  <2>2. /\ stage[w] = "telling" /\ told[telling[w]] = "no" /\ telling[w] <= issued
        /\ \A v \in Workers : telling[v] = telling[w] => v = w
    BY <1>6, <2>1 DEF DelegationInv, WorkInv, Telling
  <2>3. telling[w] \in Turns
    BY <1>6, <2>1, Values DEF DelegationInv, WorkInv, Typed
  <2> QED
    BY <1>1, <1>6, <2>1, <2>2, <2>3
<1> QED
  BY <1>1, <1>4, <1>5, <1>6 DEF Telling

(* Every action but those of the whole daemon needs a daemon that is up.   *)
LEMMA WorksMeansAlive ==
  ASSUME DelegationInv, NEW w \in Workers, alive[w] \/ stage[w] # "idle"
  PROVE  daemon # "down"
BY DEF DelegationInv, WorkInv, Ended0

LEMMA CompleteKeeps ==
  ASSUME DelegationInv, NEW d \in Ids, Complete(d) PROVE DelegationInv'
<1>1. record[d].status = "waiting_manager" /\ "completed" \in Statuses
  BY Zenon DEF Complete, Statuses, Answers
<1>2. PICK x \in Record : /\ [record EXCEPT ![d].status = "completed"] = [record EXCEPT ![d] = x]
                          /\ x.status = "completed" /\ x.turn = record[d].turn
                          /\ x.report = record[d].report
  BY <1>1, StatusSet, Zenon
<1>3. /\ Flush([record EXCEPT ![d] = x], seq)
      /\ UNCHANGED <<issued, alive, booting, waiting, serving, stage, result, outcome,
                     telling, told, daemon>>
  BY <1>2 DEF Complete, Save, turn
<1>4. /\ x.status # "none" /\ record[d].status # "none" /\ x.status \notin Active
      /\ x.status \notin Settled
  BY <1>1, <1>2 DEF Active, Settled
<1>5. /\ LedgerInv' /\ DOMAIN disk' = {"record", "seq"}
      /\ \A c \in Ids : record'[c].turn = record[c].turn
  BY <1>2, <1>3, <1>4, Rewritten
<1>6. Holding'
  BY <1>3, <1>5, RecordsAre, HoldingKeeps DEF DelegationInv, WorkInv, Holding
<1>7. Typed' /\ Telling' /\ Ended0'
  BY <1>3, <1>5 DEF DelegationInv, WorkInv, Typed, Telling, Ended0
<1> QED
  BY <1>5, <1>6, <1>7 DEF DelegationInv, WorkInv

LEMMA ReportKeeps ==
  ASSUME DelegationInv, NEW d \in Ids, NEW p \in Reports, Report(d, p) PROVE DelegationInv'
<1>1. record[d].status \in Active
  BY Zenon DEF Report
<1>2. PICK x \in Record : /\ [record EXCEPT ![d].report = p] = [record EXCEPT ![d] = x]
                          /\ x.status = record[d].status /\ x.turn = record[d].turn
                          /\ x.report = p
  BY ReportSet, Zenon
<1>3. /\ Flush([record EXCEPT ![d] = x], seq)
      /\ UNCHANGED <<issued, alive, booting, waiting, serving, stage, result, outcome,
                     telling, told, daemon>>
  <2>1. /\ Save([record EXCEPT ![d].report = p])
        /\ UNCHANGED <<issued, alive, booting, turn, telling, told, daemon>>
    BY Zenon DEF Report
  <2> QED
    BY <1>2, <2>1 DEF Save, turn
<1>4. x.status # "none" /\ record[d].status # "none"
  BY <1>1, <1>2 DEF Active
<1>5. /\ LedgerInv' /\ DOMAIN disk' = {"record", "seq"}
      /\ \A c \in Ids : record'[c].turn = record[c].turn
  BY <1>2, <1>3, <1>4, Rewritten
<1>6. Holding'
  BY <1>3, <1>5, RecordsAre, HoldingKeeps DEF DelegationInv, WorkInv, Holding
<1>7. Typed' /\ Telling' /\ Ended0'
  BY <1>3, <1>5 DEF DelegationInv, WorkInv, Typed, Telling, Ended0
<1> QED
  BY <1>5, <1>6, <1>7 DEF DelegationInv, WorkInv

LEMMA StartedKeeps ==
  ASSUME DelegationInv, NEW w \in Workers, Started(w) PROVE DelegationInv'
<1>1. /\ stage[w] = "begun" /\ stage' = [stage EXCEPT ![w] = "working"]
      /\ UNCHANGED <<issued, alive, booting, waiting, serving, result, outcome, telling,
                     told, daemon>>
  BY DEF Started
<1>2. /\ LedgerInv' /\ DOMAIN disk' = {"record", "seq"}
      /\ \A c \in Ids : record'[c].turn = record[c].turn
  <2>1. CASE UNCHANGED ledger
    BY <1>1, <2>1, LedgerStill DEF DelegationInv, WorkInv, Typed, ledger
  <2>2. ASSUME NEW d \in Ids, record[d].status = "submitted",
               Save([record EXCEPT ![d].status = "running"])
        PROVE  /\ LedgerInv' /\ DOMAIN disk' = {"record", "seq"}
               /\ \A c \in Ids : record'[c].turn = record[c].turn
    <3>1. PICK x \in Record :
            /\ [record EXCEPT ![d].status = "running"] = [record EXCEPT ![d] = x]
            /\ x.status = "running" /\ x.turn = record[d].turn
            /\ x.report = record[d].report
      <4>1. "running" \in Statuses
        BY Zenon DEF Statuses, Active
      <4> QED
        BY <4>1, StatusSet, Zenon
    <3>2. Flush([record EXCEPT ![d] = x], seq)
      BY <2>2, <3>1 DEF Save
    <3>3. /\ x.status # "none" /\ record[d].status # "none" /\ record[d].status \in Active
          /\ x.status \notin Settled
      BY <2>2, <3>1 DEF Active, Settled
    <3> QED
      BY <1>1, <3>1, <3>2, <3>3, Rewritten
  <2> QED
    BY <2>1, <2>2 DEF Started, About
<1>3. stage \in [Workers -> Stages] /\ "working" \in Stages
  BY DEF DelegationInv, WorkInv, Typed, Stages
<1>4. Typed'
  BY <1>1, <1>2, <1>3 DEF DelegationInv, WorkInv, Typed
<1>5. Telling'
  BY <1>1, <1>3 DEF DelegationInv, WorkInv, Telling
<1>6. Holding'
  BY <1>1, <1>2, RecordsAre, HoldingKeeps DEF DelegationInv, WorkInv, Holding
<1>7. Ended0'
  BY <1>1, WorksMeansAlive DEF Ended0
<1> QED
  BY <1>2, <1>4, <1>5, <1>6, <1>7 DEF DelegationInv, WorkInv

LEMMA AnswerKeeps ==
  ASSUME DelegationInv, NEW w \in Workers, NEW o \in Answers, Answer(w, o)
  PROVE  DelegationInv'
<1>1. /\ stage[w] = "working" /\ stage' = [stage EXCEPT ![w] = "finishing"]
      /\ result' = [result EXCEPT ![w] = o]
      /\ UNCHANGED <<ledger, issued, alive, booting, waiting, serving, telling, told, daemon>>
  BY DEF Answer
<1>2. /\ stage \in [Workers -> Stages] /\ "finishing" \in Stages
      /\ result \in [Workers -> Answers \cup {"interrupted"}]
  BY DEF DelegationInv, WorkInv, Typed, Stages
<1>3. Typed'
  BY <1>1, <1>2 DEF DelegationInv, WorkInv, Typed, ledger
<1>4. Ended0'
  BY <1>1, WorksMeansAlive DEF Ended0
<1>5. \A v \in Workers : stage[v] = "telling" => stage'[v] = "telling"
  BY <1>1, <1>2
<1>6. \A v \in Workers :
        /\ Range(waiting'[v]) \cup {serving'[v]} \subseteq
             Range(waiting[v]) \cup {serving[v]} \cup {0}
        /\ booting'[v] => waiting'[v] # <<>>
  BY <1>1 DEF DelegationInv, WorkInv, Holding
<1> QED
  BY <1>1, <1>3, <1>4, <1>5, <1>6, Unseen

LEMMA BeginKeeps ==
  ASSUME DelegationInv, NEW w \in Workers, Begin(w) PROVE DelegationInv'
<1> DEFINE q == waiting[w]
<1>1. /\ alive[w] /\ stage[w] = "idle" /\ q # <<>>
      /\ serving' = [serving EXCEPT ![w] = Head(q)]
      /\ waiting' = [waiting EXCEPT ![w] = Tail(q)]
      /\ stage' = [stage EXCEPT ![w] = "begun"]
      /\ booting' = [booting EXCEPT ![w] = FALSE]
      /\ UNCHANGED <<ledger, issued, alive, result, told, telling, daemon>>
  BY DEF Begin
<1>2. /\ stage \in [Workers -> Stages] /\ "begun" \in Stages
      /\ serving \in [Workers -> 0..MaxTurns] /\ waiting \in [Workers -> Seq(Turns)]
      /\ booting \in [Workers -> BOOLEAN]
  BY DEF DelegationInv, WorkInv, Typed, Stages
<1>3. /\ Head(q) \in Range(q) /\ Head(q) \in 0..MaxTurns /\ Tail(q) \in Seq(Turns)
      /\ Range(Tail(q)) \subseteq Range(q)
  <2>1. Turns # {}
    BY <1>1, <1>2
  <2>2. PICK t \in Turns : TRUE
    BY <2>1
  <2>3. /\ Head(q) \in Range(q) /\ Head(q) \in Turns /\ Tail(q) \in Seq(Turns)
        /\ Range(Tail(q)) \subseteq Range(q)
    BY <1>1, <1>2, <2>2, QueueFacts
  <2> QED
    BY <2>3, Values
<1>4. Typed'
  BY <1>1, <1>2, <1>3 DEF DelegationInv, WorkInv, Typed, ledger
<1>5. Ended0'
  BY <1>1, WorksMeansAlive DEF Ended0
<1>6. ASSUME NEW v \in Workers
      PROVE  /\ stage[v] = "telling" => stage'[v] = "telling"
             /\ Range(waiting'[v]) \cup {serving'[v]} \subseteq
                  Range(waiting[v]) \cup {serving[v]} \cup {0}
             /\ booting'[v] => waiting'[v] # <<>>
  <2>1. CASE v = w
    BY <1>1, <1>2, <1>3, <2>1
  <2>2. CASE v # w
    BY <1>1, <1>2, <2>2 DEF DelegationInv, WorkInv, Holding
  <2> QED
    BY <2>1, <2>2
<1> QED
  BY <1>1, <1>4, <1>5, <1>6, Unseen

LEMMA WorkerEndsKeeps ==
  ASSUME DelegationInv, NEW w \in Workers, WorkerEnds(w) PROVE DelegationInv'
<1>1. /\ alive[w] /\ stage[w] = "idle" /\ Leave(w)
      /\ UNCHANGED <<ledger, issued, result, told, daemon>>
  BY DEF WorkerEnds
<1>2. /\ stage \in [Workers -> Stages] /\ "idle" \in Stages
      /\ serving \in [Workers -> 0..MaxTurns] /\ 0 \in 0..MaxTurns
      /\ telling \in [Workers -> 0..MaxTurns] /\ waiting \in [Workers -> Seq(Turns)]
      /\ booting \in [Workers -> BOOLEAN] /\ alive \in [Workers -> BOOLEAN]
  BY Values DEF DelegationInv, WorkInv, Typed, Stages
<1>3. telling[w] = 0
  BY <1>1 DEF DelegationInv, WorkInv, Telling
<1>4. telling' = telling
  BY <1>1, <1>2, <1>3 DEF Leave
<1>5. Typed'
  BY <1>1, <1>2, <1>4 DEF Leave, DelegationInv, WorkInv, Typed, ledger
<1>6. Ended0'
  BY <1>1, WorksMeansAlive DEF Ended0
<1>7. ASSUME NEW v \in Workers
      PROVE  /\ stage[v] = "telling" => stage'[v] = "telling"
             /\ Range(waiting'[v]) \cup {serving'[v]} \subseteq
                  Range(waiting[v]) \cup {serving[v]} \cup {0}
             /\ booting'[v] => waiting'[v] # <<>>
  <2>1. CASE v = w
    BY <1>1, <1>2, <2>1 DEF Leave, Range
  <2>2. CASE v # w
    BY <1>1, <1>2, <2>2 DEF Leave, DelegationInv, WorkInv, Holding
  <2> QED
    BY <2>1, <2>2
<1> QED
  BY <1>1, <1>4, <1>5, <1>6, <1>7, Unseen

LEMMA BeginShutdownKeeps ==
  ASSUME DelegationInv, BeginShutdown PROVE DelegationInv'
<1>1. /\ daemon = "up" /\ daemon' = "stopping"
      /\ UNCHANGED <<ledger, issued, alive, booting, waiting, serving, stage, result, outcome,
                     telling, told>>
  BY DEF BeginShutdown, turn
<1>2. Typed' /\ Ended0'
  BY <1>1 DEF DelegationInv, WorkInv, Typed, Ended0, ledger
<1>3. \A v \in Workers :
        /\ stage[v] = "telling" => stage'[v] = "telling"
        /\ Range(waiting'[v]) \cup {serving'[v]} \subseteq
             Range(waiting[v]) \cup {serving[v]} \cup {0}
        /\ booting'[v] => waiting'[v] # <<>>
  BY <1>1 DEF DelegationInv, WorkInv, Holding
<1> QED
  BY <1>1, <1>2, <1>3, Unseen

(* The two steps that settle a delegation: the Worker w then tells of it.  *)
LEMMA SettlingKeeps ==
  ASSUME DelegationInv, NEW w \in Workers, stage[w] # "telling", daemon # "down",
         stage' = [stage EXCEPT ![w] = "telling"],
         result' \in [Workers -> Answers \cup {"interrupted"}],
         booting' \in [Workers -> BOOLEAN], \A v \in Workers : booting'[v] => booting[v],
         UNCHANGED <<issued, alive, waiting, serving, told, daemon>>,
         NEW t \in Range(waiting[w]) \cup {serving[w]}, NEW o \in Answers \cup {"interrupted"},
         \/ UNCHANGED <<ledger, telling>>
         \/ \E d \in About(t) : Settle(w, d, o)
  PROVE  DelegationInv'
<1>1. telling[w] = 0
  BY DEF DelegationInv, WorkInv, Telling
<1>2. /\ LedgerInv' /\ DOMAIN disk' = {"record", "seq"}
      /\ \A c \in Ids : record'[c].turn = record[c].turn
      /\ \/ telling' = telling
         \/ \E u \in Turns : /\ telling' = [telling EXCEPT ![w] = u] /\ told[u] = "no"
                             /\ u <= issued /\ \A v \in Workers : telling[v] # u
  <2>1. CASE UNCHANGED <<ledger, telling>>
    BY <2>1, LedgerStill DEF DelegationInv, WorkInv, Typed, ledger
  <2>2. ASSUME NEW d \in About(t), Settle(w, d, o)
        PROVE  d \in Ids /\ WorkerOf[d] = w
    BY DEF DelegationInv, WorkInv, Holding, About
  <2> QED
    BY <1>1, <2>1, <2>2, SettleKeeps
<1>3. /\ stage \in [Workers -> Stages] /\ "telling" \in Stages
      /\ telling \in [Workers -> 0..MaxTurns] /\ Turns \subseteq 0..MaxTurns
  BY Values DEF DelegationInv, WorkInv, Typed, Stages
<1>4. telling' \in [Workers -> 0..MaxTurns]
  BY <1>2, <1>3
<1>5. Typed'
  BY <1>2, <1>3, <1>4 DEF DelegationInv, WorkInv, Typed
<1>6. Telling'
  <2>1. \A u \in Turns : u > issued' => told'[u] = "no"
    BY DEF DelegationInv, WorkInv, Telling
  <2>2. \A v \in Workers : v # w => telling'[v] = telling[v] /\ stage'[v] = stage[v]
    BY <1>2, <1>3
  <2>3. ASSUME telling' = telling PROVE Telling'
    BY <1>1, <1>3, <2>1, <2>2, <2>3 DEF DelegationInv, WorkInv, Telling
  <2>4. ASSUME NEW u \in Turns, telling' = [telling EXCEPT ![w] = u], told[u] = "no",
               u <= issued, \A v \in Workers : telling[v] # u
        PROVE  Telling'
    <3>1. telling'[w] = u /\ stage'[w] = "telling"
      BY <1>3, <2>4
    <3>2. ASSUME NEW v \in Workers, telling'[v] # 0
          PROVE  /\ stage'[v] = "telling" /\ told'[telling'[v]] = "no"
                 /\ telling'[v] <= issued'
                 /\ \A z \in Workers : telling'[z] = telling'[v] => z = v
      <4>1. CASE v = w
        BY <2>2, <2>4, <3>1, <4>1
      <4>2. CASE v # w
        BY <2>2, <2>4, <3>1, <3>2, <4>2 DEF DelegationInv, WorkInv, Telling
      <4> QED
        BY <4>1, <4>2
    <3> QED
      BY <2>1, <3>2 DEF Telling
  <2> QED
    BY <1>2, <2>3, <2>4
<1>7. Holding'
  BY <1>2, RecordsAre, HoldingKeeps DEF DelegationInv, WorkInv, Holding
<1>8. Ended0'
  BY DEF Ended0
<1> QED
  BY <1>2, <1>5, <1>6, <1>7, <1>8 DEF DelegationInv, WorkInv

LEMMA FinishedKeeps ==
  ASSUME DelegationInv, NEW w \in Workers, Finished(w) PROVE DelegationInv'
<1>1. /\ stage[w] = "finishing" /\ stage' = [stage EXCEPT ![w] = "telling"]
      /\ UNCHANGED <<issued, alive, booting, waiting, serving, result, told, daemon>>
      /\ \/ UNCHANGED <<ledger, telling>>
         \/ \E d \in About(serving[w]) : Settle(w, d, result[w])
  BY DEF Finished
<1>2. /\ result \in [Workers -> Answers \cup {"interrupted"}]
      /\ booting \in [Workers -> BOOLEAN]
  BY DEF DelegationInv, WorkInv, Typed
<1>3. daemon # "down"
  BY <1>1, WorksMeansAlive
<1>4. serving[w] \in Range(waiting[w]) \cup {serving[w]}
  OBVIOUS
<1>5. result[w] \in Answers \cup {"interrupted"}
  BY <1>2
<1> QED
  BY <1>1, <1>2, <1>3, <1>4, <1>5, SettlingKeeps

LEMMA StartFailsKeeps ==
  ASSUME DelegationInv, NEW w \in Workers, StartFails(w) PROVE DelegationInv'
<1> DEFINE t == Head(waiting[w])
<1>1. /\ alive[w] /\ booting[w] /\ stage[w] = "idle"
      /\ stage' = [stage EXCEPT ![w] = "telling"]
      /\ result' = [result EXCEPT ![w] = "failed"]
      /\ booting' = [booting EXCEPT ![w] = FALSE]
      /\ UNCHANGED <<issued, alive, waiting, serving, told, daemon>>
      /\ \/ UNCHANGED <<ledger, telling>>
         \/ \E d \in About(t) : Settle(w, d, "failed")
  BY DEF StartFails
<1>2. "failed" \in Answers \cup {"interrupted"}
  BY DEF Answers
<1>3. /\ result' \in [Workers -> Answers \cup {"interrupted"}]
      /\ booting' \in [Workers -> BOOLEAN]
      /\ \A v \in Workers : booting'[v] => booting[v]
  BY <1>1, <1>2 DEF DelegationInv, WorkInv, Typed
<1>4. t \in Range(waiting[w]) \cup {serving[w]}
  <2>1. waiting[w] # <<>> /\ waiting[w] \in Seq(Turns)
    BY <1>1 DEF DelegationInv, WorkInv, Typed, Holding
  <2>2. PICK u \in Turns : TRUE
    BY <2>1
  <2> QED
    BY <2>1, <2>2, QueueFacts
<1>5. daemon # "down" /\ stage[w] # "telling"
  BY <1>1, WorksMeansAlive
<1> HIDE DEF t
<1> QED
  BY <1>1, <1>2, <1>3, <1>4, <1>5, SettlingKeeps

LEMMA ToldKeeps ==
  ASSUME DelegationInv, NEW w \in Workers, Told(w) PROVE DelegationInv'
<1>1. /\ stage[w] = "telling" /\ UNCHANGED <<ledger, issued, result, daemon>>
      /\ told' = IF daemon = "up" THEN Hears({telling[w]}) ELSE Misses({telling[w]})
      /\ \/ Leave(w)
         \/ /\ serving' = [serving EXCEPT ![w] = 0]
            /\ stage' = [stage EXCEPT ![w] = "idle"]
            /\ telling' = [telling EXCEPT ![w] = 0]
            /\ UNCHANGED <<alive, booting, waiting>>
  BY DEF Told
<1>2. /\ stage \in [Workers -> Stages] /\ "idle" \in Stages
      /\ serving \in [Workers -> 0..MaxTurns] /\ 0 \in 0..MaxTurns
      /\ telling \in [Workers -> 0..MaxTurns] /\ waiting \in [Workers -> Seq(Turns)]
      /\ booting \in [Workers -> BOOLEAN] /\ alive \in [Workers -> BOOLEAN]
      /\ told \in [Turns -> {"no", "yes", "cut"}] /\ 0 \notin Turns
  BY Values DEF DelegationInv, WorkInv, Typed, Stages
<1>3. /\ telling' = [telling EXCEPT ![w] = 0] /\ serving' = [serving EXCEPT ![w] = 0]
      /\ stage' = [stage EXCEPT ![w] = "idle"]
  BY <1>1 DEF Leave
<1>4. \/ waiting' = waiting /\ booting' = booting /\ alive' = alive
      \/ /\ waiting' = [waiting EXCEPT ![w] = <<>>]
         /\ booting' = [booting EXCEPT ![w] = FALSE]
         /\ alive' = [alive EXCEPT ![w] = FALSE]
  BY <1>1 DEF Leave
<1>5. telling[w] \in Turns => told[telling[w]] = "no"
  BY <1>2 DEF DelegationInv, WorkInv, Telling
<1>6. \A t \in Turns : IF t = telling[w] THEN told'[t] \in {"yes", "cut"}
                       ELSE told'[t] = told[t]
  BY <1>1, <1>5 DEF Hears, Misses
<1>7. told' \in [Turns -> {"no", "yes", "cut"}]
  <2>1. told' = [t \in Turns |-> told'[t]]
    BY <1>1 DEF Hears, Misses
  <2> QED
    BY <1>2, <1>6, <2>1
<1>8. LedgerInv' /\ Telling'
  <2>1. {w} \in SUBSET Workers /\ telling' \in [Workers -> 0..MaxTurns]
    BY <1>2, <1>3
  <2>2. \A v \in Workers : telling'[v] = IF v \in {w} THEN 0 ELSE telling[v]
    BY <1>2, <1>3
  <2>3. \A t \in Turns : IF \E v \in {w} : telling[v] = t THEN told'[t] \in {"yes", "cut"}
                         ELSE told'[t] = told[t]
    BY <1>6
  <2>4. \A v \in Workers \ {w} : stage[v] = "telling" => stage'[v] = "telling"
    BY <1>2, <1>3
  <2> QED
    BY <1>1, <1>7, <2>1, <2>2, <2>3, <2>4, Heard
<1>9. Typed'
  <2>1. waiting' \in [Workers -> Seq(Turns)]
    <3>1. <<>> \in Seq(Turns)
      OBVIOUS
    <3> QED
      BY <1>2, <1>4, <3>1
  <2>2. booting' \in [Workers -> BOOLEAN] /\ alive' \in [Workers -> BOOLEAN]
    BY <1>2, <1>4
  <2>3. /\ telling' \in [Workers -> 0..MaxTurns] /\ serving' \in [Workers -> 0..MaxTurns]
        /\ stage' \in [Workers -> Stages]
    BY <1>2, <1>3
  <2> QED
    BY <1>1, <1>7, <2>1, <2>2, <2>3 DEF DelegationInv, WorkInv, Typed, ledger
<1>10. Holding'
  <2>1. ASSUME NEW v \in Workers
        PROVE  /\ Range(waiting'[v]) \cup {serving'[v]} \subseteq
                    Range(waiting[v]) \cup {serving[v]} \cup {0}
               /\ booting'[v] => waiting'[v] # <<>>
    <3>1. serving'[v] \in {serving[v], 0}
      BY <1>2, <1>3
    <3>2. \/ waiting'[v] = waiting[v] /\ booting'[v] = booting[v]
          \/ waiting'[v] = <<>> /\ booting'[v] = FALSE
      BY <1>2, <1>4
    <3>3. Range(<<>>) = {} /\ (booting[v] => waiting[v] # <<>>)
      BY DEF Range, DelegationInv, WorkInv, Holding
    <3> QED
      BY <3>1, <3>2, <3>3
  <2>2. \A c \in Ids : record'[c].turn = record[c].turn
    BY <1>1 DEF ledger
  <2> QED
    BY <1>1, <2>1, <2>2, RecordsAre, HoldingKeeps DEF DelegationInv, WorkInv
<1>11. Ended0'
  BY <1>1, WorksMeansAlive DEF Ended0
<1> QED
  BY <1>8, <1>9, <1>10, <1>11 DEF DelegationInv, WorkInv

LEMMA CancelWorkersKeeps ==
  ASSUME DelegationInv, CancelWorkers PROVE DelegationInv'
<1>1. PICK P \in SUBSET {w \in Workers : stage[w] \in {"begun", "working"}} :
        /\ alive' = [w \in Workers |-> w \in P]
        /\ waiting' = [w \in Workers |-> IF w \in P THEN waiting[w] ELSE <<>>]
        /\ serving' = [w \in Workers |-> IF w \in P THEN serving[w] ELSE 0]
        /\ stage' = [w \in Workers |-> IF w \in P THEN "finishing" ELSE "idle"]
        /\ result' = [w \in Workers |-> IF w \in P THEN "interrupted" ELSE result[w]]
        /\ told' = Misses({telling[w] : w \in Workers \ P})
  BY DEF CancelWorkers
<1>2. /\ daemon' = "cancelled" /\ booting' = [w \in Workers |-> FALSE]
      /\ telling' = [w \in Workers |-> 0] /\ UNCHANGED <<ledger, issued>>
  BY DEF CancelWorkers
<1>3. /\ stage \in [Workers -> Stages] /\ {"idle", "finishing"} \subseteq Stages
      /\ serving \in [Workers -> 0..MaxTurns] /\ 0 \in 0..MaxTurns
      /\ waiting \in [Workers -> Seq(Turns)]
      /\ result \in [Workers -> Answers \cup {"interrupted"}]
      /\ told \in [Turns -> {"no", "yes", "cut"}] /\ 0 \notin Turns
  BY Values DEF DelegationInv, WorkInv, Typed, Stages
<1>4. \A w \in P : telling[w] = 0
  BY <1>1 DEF DelegationInv, WorkInv, Telling
<1>5. told' \in [Turns -> {"no", "yes", "cut"}]
  BY <1>1, <1>3 DEF Misses
<1>6. LedgerInv' /\ Telling'
  <2>1. \A t \in Turns : IF \E v \in Workers : telling[v] = t THEN told'[t] \in {"yes", "cut"}
                         ELSE told'[t] = told[t]
    <3> SUFFICES ASSUME NEW t \in Turns
                 PROVE  IF \E v \in Workers : telling[v] = t THEN told'[t] \in {"yes", "cut"}
                        ELSE told'[t] = told[t]
      OBVIOUS
    <3>1. told'[t] = IF t \in {telling[w] : w \in Workers \ P} THEN "cut" ELSE told[t]
      BY <1>1 DEF Misses
    <3>2. (\E v \in Workers : telling[v] = t) => \E v \in Workers \ P : telling[v] = t
      BY <1>3, <1>4
    <3> QED
      BY <3>1, <3>2
  <2>2. /\ telling' \in [Workers -> 0..MaxTurns] /\ Workers \in SUBSET Workers
        /\ \A v \in Workers : telling'[v] = IF v \in Workers THEN 0 ELSE telling[v]
        /\ \A v \in Workers \ Workers : stage[v] = "telling" => stage'[v] = "telling"
    BY <1>2, <1>3
  <2> QED
    BY <1>2, <1>5, <2>1, <2>2, Heard
<1>7. Typed'
  <2>1. <<>> \in Seq(Turns)
    OBVIOUS
  <2>2. waiting' \in [Workers -> Seq(Turns)]
    BY <1>1, <1>3, <2>1
  <2>3. /\ serving' \in [Workers -> 0..MaxTurns] /\ stage' \in [Workers -> Stages]
        /\ telling' \in [Workers -> 0..MaxTurns]
    BY <1>1, <1>2, <1>3
  <2>4. /\ alive' \in [Workers -> BOOLEAN] /\ booting' \in [Workers -> BOOLEAN]
        /\ result' \in [Workers -> Answers \cup {"interrupted"}]
    BY <1>1, <1>2, <1>3
  <2> QED
    BY <1>2, <1>5, <2>2, <2>3, <2>4 DEF DelegationInv, WorkInv, Typed, ledger
<1>8. Holding'
  <2>1. ASSUME NEW v \in Workers
        PROVE  /\ Range(waiting'[v]) \cup {serving'[v]} \subseteq
                    Range(waiting[v]) \cup {serving[v]} \cup {0}
               /\ booting'[v] => waiting'[v] # <<>>
    <3>1. serving'[v] \in {serving[v], 0} /\ booting'[v] = FALSE
      BY <1>1, <1>2
    <3>2. waiting'[v] = waiting[v] \/ waiting'[v] = <<>>
      BY <1>1
    <3>3. Range(<<>>) = {}
      BY DEF Range
    <3> QED
      BY <3>1, <3>2, <3>3
  <2>2. \A c \in Ids : record'[c].turn = record[c].turn
    BY <1>2 DEF ledger
  <2> QED
    BY <1>2, <2>1, <2>2, RecordsAre, HoldingKeeps DEF DelegationInv, WorkInv
<1>9. Ended0'
  BY <1>2 DEF Ended0
<1> QED
  BY <1>6, <1>7, <1>8, <1>9 DEF DelegationInv, WorkInv

LEMMA ProcessEndsKeeps ==
  ASSUME DelegationInv, ProcessEnds PROVE DelegationInv'
<1>1. /\ alive' = [w \in Workers |-> FALSE] /\ booting' = [w \in Workers |-> FALSE]
      /\ waiting' = [w \in Workers |-> <<>>] /\ serving' = [w \in Workers |-> 0]
      /\ stage' = [w \in Workers |-> "idle"] /\ result' = [w \in Workers |-> "completed"]
      /\ telling' = [w \in Workers |-> 0] /\ told' = Misses(Range(telling))
      /\ UNCHANGED <<ledger, issued>>
  BY DEF ProcessEnds
<1>2. /\ "idle" \in Stages /\ 0 \in 0..MaxTurns /\ "completed" \in Answers
      /\ told \in [Turns -> {"no", "yes", "cut"}] /\ 0 \notin Turns
      /\ telling \in [Workers -> 0..MaxTurns]
  BY Values DEF DelegationInv, WorkInv, Typed, Answers
<1>3. told' \in [Turns -> {"no", "yes", "cut"}]
  BY <1>1, <1>2 DEF Misses
<1>4. LedgerInv' /\ Telling'
  <2>1. \A t \in Turns : IF \E v \in Workers : telling[v] = t THEN told'[t] \in {"yes", "cut"}
                         ELSE told'[t] = told[t]
    BY <1>1, <1>2 DEF Misses, Range
  <2>2. /\ telling' \in [Workers -> 0..MaxTurns] /\ Workers \in SUBSET Workers
        /\ \A v \in Workers : telling'[v] = IF v \in Workers THEN 0 ELSE telling[v]
        /\ \A v \in Workers \ Workers : stage[v] = "telling" => stage'[v] = "telling"
    BY <1>1, <1>2
  <2> QED
    BY <1>1, <1>3, <2>1, <2>2, Heard
<1>5. Typed'
  <2>1. <<>> \in Seq(Turns)
    OBVIOUS
  <2>2. waiting' \in [Workers -> Seq(Turns)]
    BY <1>1, <2>1
  <2>3. /\ serving' \in [Workers -> 0..MaxTurns] /\ stage' \in [Workers -> Stages]
        /\ telling' \in [Workers -> 0..MaxTurns]
    BY <1>1, <1>2
  <2>4. /\ alive' \in [Workers -> BOOLEAN] /\ booting' \in [Workers -> BOOLEAN]
        /\ result' \in [Workers -> Answers \cup {"interrupted"}]
    BY <1>1, <1>2
  <2> QED
    BY <1>1, <1>3, <2>2, <2>3, <2>4 DEF DelegationInv, WorkInv, Typed, ledger
<1>6. Ended0'
  BY <1>1 DEF Ended0
<1>7. Holding'
  <2>1. \A v \in Workers : /\ Range(waiting'[v]) \cup {serving'[v]} = {0}
                           /\ booting'[v] = FALSE
    <3>1. Range(<<>>) = {}
      BY DEF Range
    <3> QED
      BY <1>1, <3>1
  <2>2. \A c \in Ids : record'[c].turn = record[c].turn
    BY <1>1 DEF ledger
  <2> QED
    BY <1>1, <2>1, <2>2, RecordsAre, HoldingKeeps DEF DelegationInv, WorkInv
<1> QED
  BY <1>4, <1>5, <1>6, <1>7 DEF DelegationInv, WorkInv

LEMMA RestartKeeps ==
  ASSUME DelegationInv, Restart PROVE DelegationInv'
<1>1. /\ daemon = "down" /\ daemon' = "up" /\ Load
      /\ UNCHANGED <<issued, alive, booting, waiting, serving, stage, result, outcome,
                     telling, told>>
  BY DEF Restart, turn
<1>2. \/ record' = disk.record /\ seq' = disk.seq /\ disk' = disk
      \/ record' = [d \in Ids |-> NoRecord] /\ seq' = 0 /\ disk' = disk
  BY <1>1 DEF Load, Empty
<1>3. issued \in Nat
  BY RecordsAre
<1>4. SoundLedger([d \in Ids |-> NoRecord], 0, issued, told, telling)
  BY Values DEF SoundLedger, SoundRecord
<1>5. LedgerInv'
  BY <1>1, <1>2, <1>4 DEF LedgerInv, DelegationInv
<1>6. Typed' /\ Telling' /\ Ended0'
  BY <1>1, <1>2 DEF DelegationInv, WorkInv, Typed, Telling, Ended0
<1>7. Holding'
  <2>1. \A v \in Workers : Range(waiting'[v]) \cup {serving'[v]} = {0} /\ ~booting'[v]
    <3>1. Range(<<>>) = {}
      BY DEF Range
    <3>2. \A v \in Workers : waiting'[v] = <<>> /\ serving'[v] = 0 /\ ~booting'[v]
      BY <1>1 DEF DelegationInv, WorkInv, Ended0, Holding
    <3> QED
      BY <3>1, <3>2
  <2> QED
    BY <1>1, <1>3, <2>1 DEF Holding
<1> QED
  BY <1>5, <1>6, <1>7 DEF DelegationInv, WorkInv

LEMMA HandedKeeps ==
  ASSUME DelegationInv, Delegate \/ \E d \in Ids : Continue(d) PROVE DelegationInv'
<1>1. seq \in 0..MaxDelegations /\ seq \in Nat
  BY RecordsAre, Values
<1>2. ASSUME Delegate PROVE DelegationInv'
  <2>1. /\ daemon = "up" /\ seq + 1 \in Ids /\ Hand(seq + 1, seq + 1)
    BY <1>2 DEF Delegate
  <2>2. seq + 1 \in 0..MaxDelegations
    BY <1>1, <2>1 DEF Ids
  <2> QED
    BY <2>1, <2>2, HandKeeps
<1>3. ASSUME NEW d \in Ids, Continue(d) PROVE DelegationInv'
  <2>1. daemon = "up" /\ Hand(d, seq) /\ record[d].status # "none"
    BY <1>3 DEF Continue
  <2>2. ~(d > seq)
    BY <2>1 DEF DelegationInv, LedgerInv, SoundLedger
  <2>3. d <= seq
    BY <1>1, <2>2, Values
  <2> QED
    BY <1>1, <2>1, <2>3, HandKeeps
<1> QED
  BY <1>2, <1>3

LEMMA DelegationStep == DelegationInv /\ [Next]_vars => DelegationInv'
<1> SUFFICES ASSUME DelegationInv, [Next]_vars PROVE DelegationInv'
  OBVIOUS
<1>1. CASE UNCHANGED vars
  <2>1. UNCHANGED <<ledger, issued, alive, booting, waiting, serving, stage, result, outcome,
                    telling, told, daemon>>
    BY <1>1 DEF vars, turn
  <2>2. UNCHANGED <<record, seq, disk>>
    BY <2>1 DEF ledger
  <2> QED
    BY <2>1, <2>2 DEF DelegationInv, WorkInv, LedgerInv, Typed, Telling, Holding, Ended0
<1>2. CASE Manager
  BY <1>2, HandedKeeps, CompleteKeeps DEF Manager
<1>3. CASE \E d \in Ids, r \in Reports : Report(d, r)
  BY <1>3, ReportKeeps
<1>4. CASE \E w \in Workers : Worker(w)
  BY <1>4, BeginKeeps, StartedKeeps, AnswerKeeps, FinishedKeeps, ToldKeeps,
     StartFailsKeeps, WorkerEndsKeeps DEF Worker, Progress
<1>5. CASE BeginShutdown \/ CancelWorkers \/ ProcessEnds \/ Restart
  BY <1>5, BeginShutdownKeeps, CancelWorkersKeeps, ProcessEndsKeeps, RestartKeeps
<1> QED
  BY <1>1, <1>2, <1>3, <1>4, <1>5 DEF Next

LEMMA DelegationAlways == Spec => []DelegationInv
<1>1. Init => DelegationInv
  BY DelegationInit
<1>2. DelegationInv /\ [Next]_vars => DelegationInv'
  BY DelegationStep
<1> QED
  BY <1>1, <1>2, PTL DEF Spec

(* Whatever ends the round of a delegation, its Manager hears of it, and no*)
(* more than once, for any number of Workers, delegations and turns.       *)
THEOREM Hearing == Spec => []ResultIsTold
<1>1. DelegationInv => ResultIsTold
  <2> SUFFICES ASSUME DelegationInv PROVE ResultIsTold
    OBVIOUS
  <2>1. \A t \in Turns : told[t] # "twice"
    BY DEF DelegationInv, WorkInv, Typed
  <2>2. \A d \in Ids : SoundRecord(record[d], WorkerOf[d], issued, told, telling)
    BY RecordsAre
  <2> QED
    BY <2>1, <2>2 DEF ResultIsTold, SoundRecord, Settled
<1> QED
  BY <1>1, DelegationAlways, PTL

----------------------------------------------------------------------------
(* What a step does to a record                                            *)

(* Of the record x, the record y that a step makes of it keeps the Worker's*)
(* report, while the round is the same, and the Manager's decision.        *)
Kept(x, y) ==
  /\ x.report \in Reports /\ y.turn = x.turn => y.report = x.report
  /\ x.status = "completed" => y.status = "completed"

LEMMA OneKept ==
  ASSUME DelegationInv, NEW d \in Ids, NEW x \in Record, Kept(record[d], x),
         record' = [record EXCEPT ![d] = x]
  PROVE  \A c \in Ids : Kept(record[c], record'[c])
<1>1. record'[d] = x /\ \A c \in Ids : c # d => record'[c] = record[c]
  BY DEF DelegationInv, LedgerInv, SoundLedger
<1> QED
  BY <1>1 DEF Kept

LEMMA SettleKept ==
  ASSUME DelegationInv, NEW w \in Workers, NEW d \in Ids,
         NEW o \in Answers \cup {"interrupted"}, Settle(w, d, o)
  PROVE  \A c \in Ids : Kept(record[c], record'[c])
<1>1. CASE UNCHANGED <<ledger, telling>>
  BY <1>1 DEF Kept, ledger
<1>2. CASE record[d].status \in Active
  <2>1. ASSUME NEW x \in Record, record' = [record EXCEPT ![d] = x],
               record[d].report \in Reports => x.report = record[d].report
        PROVE  \A c \in Ids : Kept(record[c], record'[c])
    <3>1. record[d].status # "completed"
      BY <1>2 DEF Active
    <3>2. Kept(record[d], x)
      BY <2>1, <3>1 DEF Kept
    <3> QED
      BY <2>1, <3>2, OneKept
  <2> QED
    BY <1>1, <2>1, SettleIs DEF Flush
<1> QED
  BY <1>1, <1>2, SettleIs

LEMMA HandKept ==
  ASSUME DelegationInv, NEW d \in Ids, NEW n, Hand(d, n), record[d].status # "completed"
  PROVE  \A c \in Ids : Kept(record[c], record'[c])
<1>1. PICK x : /\ record' = [record EXCEPT ![d] = x] /\ x.turn = issued + 1
  <2>1. PICK s, p :
          record' = [record EXCEPT ![d] = [status |-> s, turn |-> issued + 1, report |-> p]]
    BY Zenon DEF Hand, Flush
  <2>2. [status |-> s, turn |-> issued + 1, report |-> p].turn = issued + 1
    OBVIOUS
  <2> QED
    BY <2>1, <2>2
<1>2. record[d].turn \in 0..issued /\ issued \in Nat
  BY RecordsAre
<1>3. Kept(record[d], x)
  BY <1>1, <1>2 DEF Kept
<1>4. record'[d] = x /\ \A c \in Ids : c # d => record'[c] = record[c]
  BY <1>1 DEF DelegationInv, LedgerInv, SoundLedger
<1> QED
  BY <1>3, <1>4 DEF Kept

LEMMA StepKept ==
  ASSUME DelegationInv, Next, daemon # "down"
  PROVE  \A c \in Ids : Kept(record[c], record'[c])
<1>1. ASSUME UNCHANGED record PROVE \A c \in Ids : Kept(record[c], record'[c])
  BY <1>1 DEF Kept
<1>2. ASSUME Delegate PROVE \A c \in Ids : Kept(record[c], record'[c])
  <2>1. seq + 1 \in Ids /\ Hand(seq + 1, seq + 1)
    BY <1>2 DEF Delegate
  <2>2. seq + 1 > seq
    BY RecordsAre, Values
  <2>3. record[seq + 1].status = "none"
    BY <2>1, <2>2 DEF DelegationInv, LedgerInv, SoundLedger
  <2> QED
    BY <2>1, <2>3, HandKept
<1>3. ASSUME NEW d \in Ids, Continue(d) PROVE \A c \in Ids : Kept(record[c], record'[c])
  BY <1>3, HandKept DEF Continue
<1>4. ASSUME NEW d \in Ids, Complete(d) PROVE \A c \in Ids : Kept(record[c], record'[c])
  <2>1. "completed" \in Statuses /\ record[d].status = "waiting_manager"
    BY <1>4, Zenon DEF Complete, Statuses, Answers
  <2>2. PICK x \in Record :
          /\ [record EXCEPT ![d].status = "completed"] = [record EXCEPT ![d] = x]
          /\ x.status = "completed" /\ x.turn = record[d].turn
          /\ x.report = record[d].report
    BY <2>1, StatusSet, Zenon
  <2>3. record' = [record EXCEPT ![d] = x]
    BY <1>4, <2>2 DEF Complete, Save, Flush
  <2>4. Kept(record[d], x)
    BY <2>1, <2>2 DEF Kept
  <2> QED
    BY <2>3, <2>4, OneKept
<1>5. ASSUME NEW d \in Ids, NEW p \in Reports, Report(d, p)
      PROVE  \A c \in Ids : Kept(record[c], record'[c])
  <2>1. record[d].report \notin Reports /\ record[d].status \in Active
    BY <1>5, Zenon, DelegationAssumption DEF Report
  <2>2. PICK x \in Record :
          /\ [record EXCEPT ![d].report = p] = [record EXCEPT ![d] = x]
          /\ x.status = record[d].status /\ x.turn = record[d].turn
          /\ x.report = p
    BY ReportSet, Zenon
  <2>3. record' = [record EXCEPT ![d].report = p]
    BY <1>5, Zenon DEF Report, Save, Flush
  <2>4. Kept(record[d], x)
    BY <2>1, <2>2 DEF Kept, Active
  <2> QED
    BY <2>2, <2>3, <2>4, OneKept
<1>6. ASSUME NEW w \in Workers, Started(w) PROVE \A c \in Ids : Kept(record[c], record'[c])
  <2>1. ASSUME NEW d \in Ids, record[d].status = "submitted",
               Save([record EXCEPT ![d].status = "running"])
        PROVE  \A c \in Ids : Kept(record[c], record'[c])
    <3>1. "running" \in Statuses
      BY Zenon DEF Statuses, Active
    <3>2. PICK x \in Record :
            /\ [record EXCEPT ![d].status = "running"] = [record EXCEPT ![d] = x]
            /\ x.status = "running" /\ x.turn = record[d].turn
            /\ x.report = record[d].report
      BY <3>1, StatusSet, Zenon
    <3>3. record' = [record EXCEPT ![d] = x] /\ Kept(record[d], x)
      BY <2>1, <3>2 DEF Save, Flush, Kept
    <3> QED
      BY <3>3, OneKept
  <2> QED
    BY <1>1, <1>6, <2>1 DEF Started, About, ledger
<1>7. ASSUME NEW w \in Workers, Finished(w) PROVE \A c \in Ids : Kept(record[c], record'[c])
  <2>1. result[w] \in Answers \cup {"interrupted"}
    BY DEF DelegationInv, WorkInv, Typed
  <2> QED
    BY <1>1, <1>7, <2>1, SettleKept DEF Finished, About, ledger
<1>8. ASSUME NEW w \in Workers, StartFails(w)
      PROVE  \A c \in Ids : Kept(record[c], record'[c])
  <2>1. "failed" \in Answers \cup {"interrupted"}
    BY DEF Answers
  <2> QED
    BY <1>1, <1>8, <2>1, SettleKept DEF StartFails, About, ledger
<1>9. ASSUME NEW w \in Workers,
             Begin(w) \/ (\E o \in Answers : Answer(w, o)) \/ Told(w) \/ WorkerEnds(w)
      PROVE  UNCHANGED record
  BY <1>9 DEF Begin, Answer, Told, WorkerEnds, ledger
<1>10. ASSUME BeginShutdown \/ CancelWorkers \/ ProcessEnds PROVE UNCHANGED record
  BY <1>10 DEF BeginShutdown, CancelWorkers, ProcessEnds, ledger
<1>11. ~Restart
  BY DEF Restart
<1>12. CASE Manager
  BY <1>2, <1>3, <1>4, <1>12 DEF Manager
<1>13. CASE \E w \in Workers : Worker(w)
  BY <1>1, <1>6, <1>7, <1>8, <1>9, <1>13 DEF Worker, Progress
<1> QED
  BY <1>1, <1>5, <1>10, <1>11, <1>12, <1>13 DEF Next

(* No later step takes back what the Worker reported or the Manager decided*)
(* as long as the process lives, whatever the Reports are.                 *)
THEOREM Standing == Spec => NothingTakenBack
<1>1. DelegationInv /\ [Next]_vars =>
        [\A d \in Ids : record[d].report \in Reports /\ record'[d].turn = record[d].turn
            => record'[d].report = record[d].report \/ daemon = "down"]_vars
  BY StepKept DEF Kept
<1>2. DelegationInv /\ [Next]_vars =>
        [\A d \in Ids : record[d].status = "completed" =>
            record'[d].status = "completed" \/ daemon = "down"]_vars
  BY StepKept DEF Kept
<1>3. Spec => ReportIsKept
  BY <1>1, DelegationAlways, PTL DEF Spec, ReportIsKept
<1>4. Spec => CompletedIsFinal
  BY <1>2, DelegationAlways, PTL DEF Spec, CompletedIsFinal
<1> QED
  BY <1>3, <1>4 DEF NothingTakenBack

----------------------------------------------------------------------------
(* The ledger and the Workers' queues                                      *)

(* Worker w has the turn of the record x in hand, or is through with it.   *)
InHand(x, w) ==
  /\ x.status = "running" =>
       (serving[w] = x.turn /\ stage[w] \in {"working", "finishing"}) \/ outcome[w][x.turn] # "none"
  /\ x.status = "submitted" =>
       \/ x.turn \in Range(waiting[w])
       \/ serving[w] = x.turn /\ stage[w] \in {"begun", "finishing"}
       \/ outcome[w][x.turn] # "none"

Where == \A d \in Ids : InHand(record[d], WorkerOf[d])

(* The ledger on disk lags behind only for a turn that is over.            *)
Lagging == \A d \in Ids : disk.record[d].status \in Active =>
             disk.record[d] = record[d] \/ outcome[WorkerOf[d]][disk.record[d].turn] # "none"

Timely == \A d \in Ids : record[d].report \in Reports =>
            record[d].turn \notin Range(waiting[WorkerOf[d]])

(* A Worker has no turn twice.                                             *)
Queues ==
  \A w \in Workers :
    /\ \A i, j \in 1..Len(waiting[w]) : waiting[w][i] = waiting[w][j] => i = j
    /\ serving[w] \notin Range(waiting[w])

(* A turn that is finishing has its outcome.                               *)
Over ==
  /\ outcome \in [Workers -> [Turns -> Outcomes \cup {"none"}]]
  /\ \A w \in Workers :
       /\ stage[w] \in {"begun", "working", "finishing"} => serving[w] \in Turns
       /\ stage[w] = "finishing" => outcome[w][serving[w]] # "none"

FollowInv == Where /\ Lagging /\ Timely /\ Queues /\ Over

LEMMA FollowInit == Init => FollowInv
<1> SUFFICES ASSUME Init PROVE FollowInv
  OBVIOUS
<1>1. \A d \in Ids : record[d].status = "none" /\ record[d].report \notin Reports
  <2>1. record = [d \in Ids |-> NoRecord]
    BY DEF Init
  <2>2. NoRecord.status = "none" /\ NoRecord.report \notin Reports
    <3>1. NoRecord.report = ""
      BY Zenon DEF NoRecord
    <3> QED
      BY <3>1, Values, DelegationAssumption, Zenon
  <2> QED
    BY <2>1, <2>2
<1>2. \A w \in Workers : /\ waiting[w] = <<>> /\ Range(<<>>) = {} /\ Len(waiting[w]) = 0
                         /\ stage[w] = "idle"
  BY DEF Init, Range
<1>3. outcome \in [Workers -> [Turns -> Outcomes \cup {"none"}]]
  BY DEF Init
<1>4. disk.record = record
  BY DEF Init
<1> QED
  BY <1>1, <1>2, <1>3, <1>4, Values DEF FollowInv, Where, InHand, Lagging, Timely, Queues, Over, Active

(* What the theorem is about follows.                                      *)
LEMMA FollowMeans == FollowInv => LedgerFollowsWork
BY DEF FollowInv, Where, InHand, Timely, LedgerFollowsWork, RunningIsServed, ReportsAreTimely

(* A step of the Workers that the ledger does not see: a turn that leaves  *)
(* the queue is begun or over, one that leaves the worker is over.         *)
LEMMA Onward ==
  ASSUME DelegationInv, FollowInv, UNCHANGED ledger,
         \A w \in Workers :
           /\ \A t \in Turns : outcome[w][t] # "none" => outcome'[w][t] # "none"
           /\ Range(waiting'[w]) \subseteq Range(waiting[w])
           /\ \A t \in Range(waiting[w]) :
                \/ t \in Range(waiting'[w]) \/ outcome'[w][t] # "none"
                \/ serving'[w] = t /\ stage'[w] = "begun"
           /\ stage[w] \in {"begun", "working"} =>
                \/ outcome'[w][serving[w]] # "none"
                \/ serving'[w] = serving[w] /\ stage'[w] = stage[w]
  PROVE  Where' /\ Lagging' /\ Timely'
<1>1. WorkerOf \in [Ids -> Workers] /\ record' = record /\ disk' = disk
  BY DelegationAssumption DEF ledger
<1>2. ASSUME NEW d \in Ids PROVE InHand(record[d], WorkerOf[d])'
  <2> DEFINE w == WorkerOf[d]
             t == record[d].turn
  <2>1. w \in Workers /\ InHand(record[d], w) /\ Over
    BY <1>1 DEF FollowInv, Where
  <2>2. record[d].status \in {"running", "submitted"} => t \in Turns
    BY RecordsAre
  <2>3. ASSUME t \in Turns, serving[w] = t, stage[w] = "finishing" PROVE outcome'[w][t] # "none"
    BY <2>1, <2>3 DEF Over
  <2>4. ASSUME record[d].status = "running"
        PROVE  (serving'[w] = t /\ stage'[w] \in {"working", "finishing"}) \/ outcome'[w][t] # "none"
    BY <2>1, <2>2, <2>3, <2>4 DEF InHand
  <2>5. ASSUME record[d].status = "submitted"
        PROVE  \/ t \in Range(waiting'[w])
               \/ serving'[w] = t /\ stage'[w] \in {"begun", "finishing"}
               \/ outcome'[w][t] # "none"
    BY <2>1, <2>2, <2>3, <2>5 DEF InHand
  <2> QED
    BY <1>1, <2>4, <2>5 DEF InHand
<1>3. ASSUME NEW d \in Ids, disk.record[d].status \in Active,
             outcome[WorkerOf[d]][disk.record[d].turn] # "none"
      PROVE  outcome'[WorkerOf[d]][disk.record[d].turn] # "none"
  <2>1. disk.record[d].turn \in 1..issued /\ issued \in 0..MaxTurns
    <3>1. SoundRecord(disk.record[d], WorkerOf[d], issued, told, telling)
      BY DEF DelegationInv, LedgerInv, SoundLedger
    <3>2. disk.record[d].status # "none"
      BY <1>3 DEF Active
    <3> QED
      BY <3>1, <3>2, RecordsAre DEF SoundRecord
  <2>2. disk.record[d].turn \in Turns
    BY <2>1, Values
  <2> QED
    BY <1>1, <1>3, <2>2
<1>4. Lagging'
  BY <1>1, <1>3 DEF FollowInv, Lagging
<1>5. Timely'
  BY <1>1 DEF FollowInv, Timely
<1> QED
  BY <1>2, <1>4, <1>5 DEF Where

(* One record is written, its round the same; the queues are left alone.   *)
LEMMA Touched ==
  ASSUME DelegationInv, FollowInv, NEW d \in Ids, NEW x \in Record, x.turn = record[d].turn,
         record' = [record EXCEPT ![d] = x], UNCHANGED <<waiting, serving, outcome>>,
         \/ disk'.record = record'
         \/ disk' = disk /\ outcome[WorkerOf[d]][record[d].turn] # "none",
         x.report \in Reports => \/ record[d].report \in Reports
                                 \/ record[d].turn \notin Range(waiting[WorkerOf[d]])
  PROVE  Lagging' /\ Timely'
<1>1. record'[d] = x /\ \A c \in Ids : c # d => record'[c] = record[c]
  BY DEF DelegationInv, LedgerInv, SoundLedger
<1>2. Timely'
  BY <1>1 DEF FollowInv, Timely
<1>3. CASE disk'.record = record'
  BY <1>2, <1>3 DEF Lagging
<1>4. CASE disk' = disk /\ outcome[WorkerOf[d]][record[d].turn] # "none"
  BY <1>1, <1>2, <1>4 DEF FollowInv, Lagging
<1> QED
  BY <1>3, <1>4

LEMMA QueuesKeep ==
  ASSUME DelegationInv, Queues,
         \A v \in Workers : /\ waiting'[v] = waiting[v] \/ waiting'[v] = <<>>
                            /\ serving'[v] = serving[v] \/ serving'[v] = 0
  PROVE  Queues'
<1> SUFFICES ASSUME NEW v \in Workers
             PROVE  /\ \A i, j \in 1..Len(waiting'[v]) : waiting'[v][i] = waiting'[v][j] => i = j
                    /\ serving'[v] \notin Range(waiting'[v])
  BY DEF Queues
<1>1. CASE waiting'[v] = <<>>
  BY <1>1 DEF Range
<1>2. CASE waiting'[v] = waiting[v]
  <2>1. Range(waiting[v]) \subseteq Turns /\ 0 \notin Turns
    BY Values DEF DelegationInv, WorkInv, Typed, Range
  <2> QED
    BY <1>2, <2>1 DEF Queues
<1> QED
  BY <1>1, <1>2

(* A step of the ledger alone.                                             *)
LEMMA FollowLedger ==
  ASSUME DelegationInv, FollowInv, NEW d \in Ids, NEW x \in Record, x.turn = record[d].turn,
         Flush([record EXCEPT ![d] = x], seq),
         UNCHANGED <<waiting, serving, stage, outcome>>,
         x.status \in Active => x.status = record[d].status,
         x.report \in Reports => \/ record[d].report \in Reports
                                 \/ record[d].turn \notin Range(waiting[WorkerOf[d]])
  PROVE  FollowInv'
<1>1. record' = [record EXCEPT ![d] = x] /\ disk'.record = record'
  BY DEF Flush
<1>2. Lagging' /\ Timely'
  BY <1>1, Touched
<1>3. record'[d] = x /\ \A c \in Ids : c # d => record'[c] = record[c]
  BY <1>1 DEF DelegationInv, LedgerInv, SoundLedger
<1>4. Where'
  BY <1>3 DEF FollowInv, Where, InHand, Active
<1>5. Queues' /\ Over'
  BY DEF FollowInv, Queues, Over
<1> QED
  BY <1>2, <1>4, <1>5 DEF FollowInv

LEMMA FollowComplete ==
  ASSUME DelegationInv, FollowInv, NEW d \in Ids, Complete(d) PROVE FollowInv'
<1>1. "completed" \in Statuses
  BY Zenon DEF Statuses, Answers
<1>2. PICK x \in Record :
        /\ [record EXCEPT ![d].status = "completed"] = [record EXCEPT ![d] = x]
        /\ x.status = "completed" /\ x.turn = record[d].turn
        /\ x.report = record[d].report
  BY <1>1, StatusSet, Zenon
<1>3. /\ Flush([record EXCEPT ![d] = x], seq)
      /\ UNCHANGED <<waiting, serving, stage, outcome>>
  BY <1>2 DEF Complete, Save, turn
<1>4. x.status \notin Active
  BY <1>2 DEF Active
<1> QED
  BY <1>2, <1>3, <1>4, FollowLedger

LEMMA FollowReport ==
  ASSUME DelegationInv, FollowInv, NEW d \in Ids, NEW p \in Reports, Report(d, p)
  PROVE  FollowInv'
<1>1. PICK x \in Record :
        /\ [record EXCEPT ![d].report = p] = [record EXCEPT ![d] = x]
        /\ x.status = record[d].status /\ x.turn = record[d].turn
        /\ x.report = p
  BY ReportSet, Zenon
<1>2. /\ Save([record EXCEPT ![d].report = p]) /\ serving[WorkerOf[d]] = record[d].turn
      /\ UNCHANGED <<issued, alive, booting, turn, telling, told, daemon>>
  BY Zenon DEF Report
<1>3. /\ Flush([record EXCEPT ![d] = x], seq)
      /\ UNCHANGED <<waiting, serving, stage, outcome>>
  BY <1>1, <1>2 DEF Save, turn
<1>4. record[d].turn \notin Range(waiting[WorkerOf[d]])
  BY <1>2, DelegationAssumption DEF FollowInv, Queues
<1> QED
  BY <1>1, <1>3, <1>4, FollowLedger

LEMMA FollowStarted ==
  ASSUME DelegationInv, FollowInv, NEW w \in Workers, Started(w) PROVE FollowInv'
<1>1. /\ stage[w] = "begun" /\ stage' = [stage EXCEPT ![w] = "working"]
      /\ UNCHANGED <<waiting, serving, outcome>>
  BY DEF Started
<1>2. /\ stage'[w] = "working" /\ \A v \in Workers : v # w => stage'[v] = stage[v]
  BY <1>1 DEF DelegationInv, WorkInv, Typed
<1>3. Queues' /\ Over'
  BY <1>1, <1>2 DEF FollowInv, Queues, Over
<1>4. ASSUME NEW c \in Ids, InHand(record[c], WorkerOf[c]),
             ~(WorkerOf[c] = w /\ record[c].turn = serving[w] /\ record[c].status = "submitted"),
             record'[c] = record[c]
      PROVE  InHand(record[c], WorkerOf[c])'
  <2>1. WorkerOf[c] \in Workers
    BY DelegationAssumption
  <2>2. CASE WorkerOf[c] = w
    BY <1>1, <1>2, <1>4, <2>2 DEF InHand
  <2>3. CASE WorkerOf[c] # w
    BY <1>1, <1>2, <1>4, <2>1, <2>3 DEF InHand
  <2> QED
    BY <2>2, <2>3
<1>5. CASE UNCHANGED ledger /\ {d \in About(serving[w]) : record[d].status = "submitted"} = {}
  <2>1. record' = record /\ disk' = disk
    BY <1>5 DEF ledger
  <2>2. serving[w] \in Turns /\ 0 \notin Turns
    BY <1>1, Values DEF FollowInv, Over
  <2>3. \A c \in Ids : ~(record[c].turn = serving[w] /\ record[c].status = "submitted")
    BY <1>5, <2>2 DEF About
  <2>4. Where'
    BY <1>4, <2>1, <2>3 DEF FollowInv, Where
  <2>5. Lagging' /\ Timely'
    BY <1>1, <2>1 DEF FollowInv, Lagging, Timely
  <2> QED
    BY <1>3, <2>4, <2>5 DEF FollowInv
<1>6. ASSUME NEW d \in Ids, record[d].turn = serving[w], record[d].status = "submitted",
             Save([record EXCEPT ![d].status = "running"])
      PROVE  FollowInv'
  <2>1. "running" \in Statuses
    BY Zenon DEF Statuses, Active
  <2>2. PICK x \in Record :
          /\ [record EXCEPT ![d].status = "running"] = [record EXCEPT ![d] = x]
          /\ x.status = "running" /\ x.turn = record[d].turn
          /\ x.report = record[d].report
    BY <2>1, StatusSet, Zenon
  <2>3. record' = [record EXCEPT ![d] = x] /\ disk'.record = record'
    BY <1>6, <2>2 DEF Save, Flush
  <2>4. Lagging' /\ Timely'
    BY <1>1, <2>2, <2>3, Touched
  <2>5. record'[d] = x /\ \A c \in Ids : c # d => record'[c] = record[c]
    BY <2>3 DEF DelegationInv, LedgerInv, SoundLedger
  <2>6. ASSUME NEW c \in Ids, c # d PROVE InHand(record[c], WorkerOf[c])'
    <3>1. record[c].turn # serving[w]
      BY <1>6, <2>6 DEF DelegationInv, LedgerInv, SoundLedger
    <3> QED
      BY <1>4, <2>5, <2>6, <3>1 DEF FollowInv, Where
  <2>7. InHand(record[d], WorkerOf[d])'
    <3>1. WorkerOf[d] = w
      <4>1. serving[w] # 0
        BY <1>1, Values DEF FollowInv, Over
      <4> QED
        BY <1>6, <4>1 DEF DelegationInv, WorkInv, Holding
    <3> QED
      BY <1>1, <1>2, <1>6, <2>2, <2>5, <3>1 DEF InHand
  <2>8. Where'
    BY <2>6, <2>7 DEF Where
  <2> QED
    BY <1>3, <2>4, <2>8 DEF FollowInv
<1> QED
  BY <1>5, <1>6 DEF Started, About

LEMMA FollowAnswer ==
  ASSUME DelegationInv, FollowInv, NEW w \in Workers, NEW o \in Answers, Answer(w, o)
  PROVE  FollowInv'
<1>1. /\ stage[w] = "working" /\ stage' = [stage EXCEPT ![w] = "finishing"]
      /\ outcome' = Ended(w, {serving[w]}, o)
      /\ UNCHANGED <<ledger, waiting, serving>>
  BY DEF Answer
<1>2. /\ stage'[w] = "finishing" /\ \A v \in Workers : v # w => stage'[v] = stage[v]
  BY <1>1 DEF DelegationInv, WorkInv, Typed
<1>3. /\ outcome \in [Workers -> [Turns -> Outcomes \cup {"none"}]] /\ serving[w] \in Turns
      /\ o \in Outcomes /\ o # "none"
  BY <1>1 DEF FollowInv, Over, Outcomes, Answers
<1>4. /\ outcome' \in [Workers -> [Turns -> Outcomes \cup {"none"}]]
      /\ \A v \in Workers, t \in Turns :
           outcome'[v][t] = IF v = w /\ t = serving[w] THEN o ELSE outcome[v][t]
  BY <1>1, <1>3 DEF Ended
<1>5. Queues' /\ Over'
  <2>1. Queues'
    BY <1>1 DEF FollowInv, Queues
  <2>2. Over'
    BY <1>1, <1>2, <1>3, <1>4, ZenonT(30) DEF FollowInv, Over
  <2> QED
    BY <2>1, <2>2
<1>6. ASSUME NEW v \in Workers
      PROVE  /\ \A t \in Turns : outcome[v][t] # "none" => outcome'[v][t] # "none"
             /\ Range(waiting'[v]) \subseteq Range(waiting[v])
             /\ \A t \in Range(waiting[v]) :
                  \/ t \in Range(waiting'[v]) \/ outcome'[v][t] # "none"
                  \/ serving'[v] = t /\ stage'[v] = "begun"
             /\ stage[v] \in {"begun", "working"} =>
                  \/ outcome'[v][serving[v]] # "none"
                  \/ serving'[v] = serving[v] /\ stage'[v] = stage[v]
  BY <1>1, <1>2, <1>3, <1>4
<1> QED
  BY <1>1, <1>5, <1>6, Onward DEF FollowInv

(* The head of a queue that holds no turn twice leaves it.                 *)
LEMMA HeadLeaves ==
  ASSUME NEW q \in Seq(Turns), q # <<>>, \A i, j \in 1..Len(q) : q[i] = q[j] => i = j
  PROVE  /\ Head(q) \in Turns /\ Tail(q) \in Seq(Turns) /\ Head(q) \in Range(q)
         /\ Range(Tail(q)) = Range(q) \ {Head(q)}
         /\ \A i, j \in 1..Len(Tail(q)) : Tail(q)[i] = Tail(q)[j] => i = j
<1>1. /\ Len(q) \in Nat \ {0} /\ Head(q) = q[1] /\ Head(q) \in Turns
      /\ Tail(q) \in Seq(Turns) /\ Len(Tail(q)) = Len(q) - 1
      /\ \A i \in 1..Len(Tail(q)) : Tail(q)[i] = q[i + 1]
  OBVIOUS
<1>2. /\ \A i, j \in 1..Len(Tail(q)) : Tail(q)[i] = Tail(q)[j] => i = j
      /\ \A i \in 1..Len(Tail(q)) : Tail(q)[i] # Head(q)
  BY <1>1
<1>3. DOMAIN q = 1..Len(q) /\ DOMAIN Tail(q) = 1..Len(Tail(q))
  BY <1>1
<1>4. /\ Head(q) \notin Range(Tail(q)) /\ Range(Tail(q)) \subseteq Range(q)
      /\ Head(q) \in Range(q)
  BY <1>1, <1>2, <1>3 DEF Range
<1>5. ASSUME NEW i \in 1..Len(q), i # 1 PROVE q[i] \in Range(Tail(q))
  <2>1. i - 1 \in 1..Len(Tail(q)) /\ Tail(q)[i - 1] = q[i]
    BY <1>1, <1>5
  <2> QED
    BY <1>3, <2>1 DEF Range
<1>6. \A t \in Range(q) : t = Head(q) \/ t \in Range(Tail(q))
  BY <1>1, <1>3, <1>5 DEF Range
<1> QED
  BY <1>1, <1>2, <1>4, <1>6

LEMMA FollowBegin ==
  ASSUME DelegationInv, FollowInv, NEW w \in Workers, Begin(w) PROVE FollowInv'
<1> DEFINE q == waiting[w]
<1>1. /\ stage[w] = "idle" /\ q # <<>>
      /\ serving' = [serving EXCEPT ![w] = Head(q)]
      /\ waiting' = [waiting EXCEPT ![w] = Tail(q)]
      /\ stage' = [stage EXCEPT ![w] = "begun"]
      /\ UNCHANGED <<ledger, outcome>>
  BY DEF Begin
<1>2. /\ stage'[w] = "begun" /\ serving'[w] = Head(q) /\ waiting'[w] = Tail(q)
      /\ \A v \in Workers : v # w => /\ stage'[v] = stage[v] /\ serving'[v] = serving[v]
                                     /\ waiting'[v] = waiting[v]
  BY <1>1 DEF DelegationInv, WorkInv, Typed
<1>3. q \in Seq(Turns) /\ \A i, j \in 1..Len(q) : q[i] = q[j] => i = j
  BY DEF DelegationInv, WorkInv, Typed, FollowInv, Queues
<1>4. /\ Head(q) \in Turns /\ Tail(q) \in Seq(Turns) /\ Head(q) \in Range(q)
      /\ Range(Tail(q)) = Range(q) \ {Head(q)}
      /\ \A i, j \in 1..Len(Tail(q)) : Tail(q)[i] = Tail(q)[j] => i = j
  <2> HIDE DEF q
  <2> QED
    BY <1>1, <1>3, HeadLeaves
<1>5. Queues'
  BY <1>2, <1>4 DEF FollowInv, Queues
<1>6. Over'
  BY <1>1, <1>2, <1>4 DEF FollowInv, Over
<1>7. ASSUME NEW v \in Workers
      PROVE  /\ \A t \in Turns : outcome[v][t] # "none" => outcome'[v][t] # "none"
             /\ Range(waiting'[v]) \subseteq Range(waiting[v])
             /\ \A t \in Range(waiting[v]) :
                  \/ t \in Range(waiting'[v]) \/ outcome'[v][t] # "none"
                  \/ serving'[v] = t /\ stage'[v] = "begun"
             /\ stage[v] \in {"begun", "working"} =>
                  \/ outcome'[v][serving[v]] # "none"
                  \/ serving'[v] = serving[v] /\ stage'[v] = stage[v]
  <2>1. CASE v = w
    BY <1>1, <1>2, <1>4, <2>1
  <2>2. CASE v # w
    BY <1>1, <1>2, <2>2
  <2> QED
    BY <2>1, <2>2
<1> QED
  BY <1>1, <1>5, <1>6, <1>7, Onward DEF FollowInv

(* Worker w lets go of its turn, and loses its queue if it leaves.         *)
LEMMA FollowLeaves ==
  ASSUME DelegationInv, FollowInv, NEW w \in Workers, Told(w) \/ WorkerEnds(w)
  PROVE  FollowInv'
<1>1. /\ stage[w] \in {"idle", "telling"} /\ UNCHANGED ledger
      /\ stage' = [stage EXCEPT ![w] = "idle"] /\ serving' = [serving EXCEPT ![w] = 0]
      /\ \/ /\ waiting' = [waiting EXCEPT ![w] = <<>>]
            /\ outcome' = Ended(w, Range(waiting[w]), "lost")
         \/ UNCHANGED <<waiting, outcome>>
  BY DEF Told, WorkerEnds, Leave
<1>2. /\ stage'[w] = "idle" /\ serving'[w] = 0
      /\ \A v \in Workers : v # w => stage'[v] = stage[v] /\ serving'[v] = serving[v]
  BY <1>1 DEF DelegationInv, WorkInv, Typed
<1>3. /\ outcome \in [Workers -> [Turns -> Outcomes \cup {"none"}]] /\ "lost" \in Outcomes
      /\ waiting \in [Workers -> Seq(Turns)] /\ Range(<<>>) = {}
      /\ \A v \in Workers : Range(waiting[v]) \subseteq Turns
  BY DEF FollowInv, Over, Outcomes, DelegationInv, WorkInv, Typed, Range
<1>4. CASE UNCHANGED <<waiting, outcome>>
  <2>1. Queues'
    BY <1>2, <1>4, QueuesKeep DEF FollowInv
  <2>2. Over'
    BY <1>2, <1>4 DEF FollowInv, Over
  <2>3. ASSUME NEW v \in Workers
        PROVE  stage[v] \in {"begun", "working"} => v # w
    BY <1>1
  <2>4. Where' /\ Lagging' /\ Timely'
    BY <1>1, <1>2, <1>4, <2>3, Onward
  <2> QED
    BY <2>1, <2>2, <2>4 DEF FollowInv
<1>5. CASE /\ waiting' = [waiting EXCEPT ![w] = <<>>]
           /\ outcome' = Ended(w, Range(waiting[w]), "lost")
  <2>1. /\ outcome' \in [Workers -> [Turns -> Outcomes \cup {"none"}]]
        /\ \A v \in Workers, t \in Turns :
             outcome'[v][t] = IF v = w /\ t \in Range(waiting[w]) THEN "lost" ELSE outcome[v][t]
    BY <1>3, <1>5 DEF Ended
  <2>2. waiting'[w] = <<>> /\ \A v \in Workers : v # w => waiting'[v] = waiting[v]
    BY <1>3, <1>5
  <2>3. Queues'
    BY <1>2, <2>2, QueuesKeep DEF FollowInv
  <2>4. Over'
    <3>1. ASSUME NEW v \in Workers, stage'[v] \in {"begun", "working", "finishing"}
          PROVE  v # w /\ serving'[v] \in Turns /\ serving'[v] = serving[v] /\ stage'[v] = stage[v]
      BY <1>2, <3>1 DEF FollowInv, Over
    <3> QED
      BY <2>1, <3>1 DEF FollowInv, Over
  <2>5. ASSUME NEW v \in Workers
        PROVE  /\ \A t \in Turns : outcome[v][t] # "none" => outcome'[v][t] # "none"
               /\ Range(waiting'[v]) \subseteq Range(waiting[v])
               /\ \A t \in Range(waiting[v]) :
                    \/ t \in Range(waiting'[v]) \/ outcome'[v][t] # "none"
                    \/ serving'[v] = t /\ stage'[v] = "begun"
               /\ stage[v] \in {"begun", "working"} =>
                    \/ outcome'[v][serving[v]] # "none"
                    \/ serving'[v] = serving[v] /\ stage'[v] = stage[v]
    <3>1. CASE v = w
      BY <1>1, <1>3, <2>1, <2>2, <3>1
    <3>2. CASE v # w
      BY <1>2, <2>1, <2>2, <3>2
    <3> QED
      BY <3>1, <3>2
  <2>6. Where' /\ Lagging' /\ Timely'
    BY <1>1, <2>5, Onward
  <2> QED
    BY <2>3, <2>4, <2>6 DEF FollowInv
<1> QED
  BY <1>1, <1>4, <1>5

LEMMA FollowCancel ==
  ASSUME DelegationInv, FollowInv, CancelWorkers PROVE FollowInv'
<1>1. PICK P \in SUBSET {w \in Workers : stage[w] \in {"begun", "working"}} :
        /\ \A w \in Workers : stage[w] = "working" => w \in P
        /\ waiting' = [w \in Workers |-> IF w \in P THEN waiting[w] ELSE <<>>]
        /\ serving' = [w \in Workers |-> IF w \in P THEN serving[w] ELSE 0]
        /\ stage' = [w \in Workers |-> IF w \in P THEN "finishing" ELSE "idle"]
        /\ outcome' = [w \in Workers |-> [t \in Turns |->
             CASE w \in P /\ serving[w] = t      -> "interrupted"
               [] w \notin P /\ t \in Unserved(w) -> "lost"
               [] OTHER                          -> outcome[w][t]]]
  BY DEF CancelWorkers
<1>2. UNCHANGED ledger
  BY DEF CancelWorkers
<1>3. /\ outcome \in [Workers -> [Turns -> Outcomes \cup {"none"}]]
      /\ "lost" \in Outcomes /\ "interrupted" \in Outcomes /\ Range(<<>>) = {}
      /\ \A v \in Workers : Range(waiting[v]) \subseteq Turns
      /\ \A v \in Workers : stage[v] \in {"begun", "working"} => serving[v] \in Turns
  BY DEF FollowInv, Over, Outcomes, DelegationInv, WorkInv, Typed, Range
<1>4. ASSUME NEW v \in Workers, NEW t \in Turns
      PROVE  /\ v \in P /\ serving[v] = t => outcome'[v][t] = "interrupted"
             /\ v \notin P /\ t \in Unserved(v) => outcome'[v][t] = "lost"
             /\ outcome'[v][t] \in {"interrupted", "lost", outcome[v][t]}
  <2>1. outcome'[v][t] = CASE v \in P /\ serving[v] = t      -> "interrupted"
                           [] v \notin P /\ t \in Unserved(v) -> "lost"
                           [] OTHER                          -> outcome[v][t]
    BY <1>1
  <2> QED
    BY <2>1
<1>5. outcome' \in [Workers -> [Turns -> Outcomes \cup {"none"}]]
  <2>1. \A v \in Workers, t \in Turns : outcome'[v][t] \in Outcomes \cup {"none"}
    BY <1>3, <1>4
  <2>2. outcome' = [v \in Workers |-> [t \in Turns |-> outcome'[v][t]]]
    BY <1>1
  <2> QED
    BY <2>1, <2>2
<1>6. Queues'
  <2>1. \A v \in Workers : /\ waiting'[v] = waiting[v] \/ waiting'[v] = <<>>
                           /\ serving'[v] = serving[v] \/ serving'[v] = 0
    BY <1>1
  <2> QED
    BY <2>1, QueuesKeep DEF FollowInv
<1>7. Over'
  <2>1. ASSUME NEW v \in Workers, stage'[v] \in {"begun", "working", "finishing"}
        PROVE  serving'[v] \in Turns /\ outcome'[v][serving'[v]] # "none"
    <3>1. v \in P /\ serving'[v] = serving[v]
      BY <1>1, <2>1
    <3>2. serving[v] \in Turns
      BY <1>3, <3>1
    <3> QED
      BY <1>4, <3>1, <3>2
  <2> QED
    BY <1>5, <2>1 DEF Over
<1>8. ASSUME NEW v \in Workers
      PROVE  /\ \A t \in Turns : outcome[v][t] # "none" => outcome'[v][t] # "none"
             /\ Range(waiting'[v]) \subseteq Range(waiting[v])
             /\ \A t \in Range(waiting[v]) :
                  \/ t \in Range(waiting'[v]) \/ outcome'[v][t] # "none"
                  \/ serving'[v] = t /\ stage'[v] = "begun"
             /\ stage[v] \in {"begun", "working"} =>
                  \/ outcome'[v][serving[v]] # "none"
                  \/ serving'[v] = serving[v] /\ stage'[v] = stage[v]
  <2>1. \A t \in Turns : outcome[v][t] # "none" => outcome'[v][t] # "none"
    BY <1>4
  <2>2. CASE v \in P
    <3>1. waiting'[v] = waiting[v]
      BY <1>1, <2>2
    <3> QED
      BY <1>3, <1>4, <2>1, <2>2, <3>1
  <2>3. CASE v \notin P
    <3>1. waiting'[v] = <<>>
      BY <1>1, <2>3
    <3>2. \A t \in Range(waiting[v]) : outcome'[v][t] # "none"
      BY <1>3, <1>4, <2>3 DEF Unserved
    <3>3. stage[v] \in {"begun", "working"} => outcome'[v][serving[v]] # "none"
      BY <1>1, <1>3, <1>4, <2>3 DEF Unserved
    <3> QED
      BY <1>3, <2>1, <3>1, <3>2, <3>3
  <2> QED
    BY <2>2, <2>3
<1> QED
  BY <1>2, <1>6, <1>7, <1>8, Onward DEF FollowInv

LEMMA FollowEnds ==
  ASSUME DelegationInv, FollowInv, ProcessEnds PROVE FollowInv'
<1>1. /\ waiting' = [w \in Workers |-> <<>>] /\ serving' = [w \in Workers |-> 0]
      /\ stage' = [w \in Workers |-> "idle"] /\ UNCHANGED ledger
      /\ outcome' = [w \in Workers |-> [t \in Turns |->
           IF t \in Range(waiting[w]) THEN "lost"
           ELSE IF stage[w] \in {"begun", "working"} /\ serving[w] = t
           THEN "interrupted" ELSE outcome[w][t]]]
  BY DEF ProcessEnds
<1>2. /\ outcome \in [Workers -> [Turns -> Outcomes \cup {"none"}]]
      /\ "lost" \in Outcomes /\ "interrupted" \in Outcomes /\ Range(<<>>) = {}
      /\ \A v \in Workers : Range(waiting[v]) \subseteq Turns
      /\ \A v \in Workers : stage[v] \in {"begun", "working"} => serving[v] \in Turns
  BY DEF FollowInv, Over, Outcomes, DelegationInv, WorkInv, Typed, Range
<1>3. /\ outcome' \in [Workers -> [Turns -> Outcomes \cup {"none"}]]
      /\ \A v \in Workers, t \in Turns :
           outcome'[v][t] = IF t \in Range(waiting[v]) THEN "lost"
                            ELSE IF stage[v] \in {"begun", "working"} /\ serving[v] = t
                            THEN "interrupted" ELSE outcome[v][t]
  BY <1>1, <1>2
<1>4. Queues'
  BY <1>1, QueuesKeep DEF FollowInv
<1>5. Over'
  BY <1>1, <1>3 DEF Over
<1>6. ASSUME NEW v \in Workers
      PROVE  /\ \A t \in Turns : outcome[v][t] # "none" => outcome'[v][t] # "none"
             /\ Range(waiting'[v]) \subseteq Range(waiting[v])
             /\ \A t \in Range(waiting[v]) :
                  \/ t \in Range(waiting'[v]) \/ outcome'[v][t] # "none"
                  \/ serving'[v] = t /\ stage'[v] = "begun"
             /\ stage[v] \in {"begun", "working"} =>
                  \/ outcome'[v][serving[v]] # "none"
                  \/ serving'[v] = serving[v] /\ stage'[v] = stage[v]
  BY <1>1, <1>2, <1>3
<1> QED
  BY <1>1, <1>4, <1>5, <1>6, Onward DEF FollowInv

LEMMA FollowRestart ==
  ASSUME DelegationInv, FollowInv, Restart PROVE FollowInv'
<1>1. /\ daemon = "down" /\ UNCHANGED <<waiting, serving, stage, outcome>>
      /\ Load
  BY DEF Restart, turn
<1>2. \/ record' = disk.record /\ disk' = disk
      \/ record' = [d \in Ids |-> NoRecord] /\ disk' = disk
  BY <1>1 DEF Load, Empty
<1>3. \A w \in Workers : waiting[w] = <<>> /\ stage[w] = "idle" /\ Range(waiting[w]) = {}
  BY <1>1 DEF DelegationInv, WorkInv, Ended0, Range
<1>4. ASSUME NEW d \in Ids, disk.record[d].status \in Active
      PROVE  outcome[WorkerOf[d]][disk.record[d].turn] # "none"
  <2>1. CASE disk.record[d] = record[d]
    <3>1. InHand(record[d], WorkerOf[d]) /\ WorkerOf[d] \in Workers
      BY DelegationAssumption DEF FollowInv, Where
    <3> QED
      BY <1>3, <1>4, <2>1, <3>1 DEF InHand, Active
  <2> QED
    BY <1>4, <2>1 DEF FollowInv, Lagging
<1>5. ASSUME NEW d \in Ids
      PROVE  record'[d].status \in Active => outcome[WorkerOf[d]][record'[d].turn] # "none"
  <2>1. CASE record' = disk.record
    BY <1>4, <2>1
  <2>2. CASE record' = [c \in Ids |-> NoRecord]
    BY <2>2, Values
  <2> QED
    BY <1>2, <2>1, <2>2
<1>6. Where'
  BY <1>1, <1>5 DEF Where, InHand, Active
<1>7. Lagging'
  BY <1>1, <1>2, <1>4 DEF Lagging
<1>8. Timely'
  <2>1. \A d \in Ids : WorkerOf[d] \in Workers
    BY DelegationAssumption
  <2> QED
    BY <1>1, <1>3, <2>1 DEF Timely
<1>9. Queues' /\ Over'
  BY <1>1 DEF FollowInv, Queues, Over
<1> QED
  BY <1>6, <1>7, <1>8, <1>9 DEF FollowInv

(* Worker w settles a delegation of its own, or none.                      *)
LEMMA FollowSettling ==
  ASSUME DelegationInv, FollowInv, NEW w \in Workers, stage[w] \in {"finishing", "idle"},
         stage' = [stage EXCEPT ![w] = "telling"], UNCHANGED <<waiting, serving, outcome>>,
         NEW o \in Answers \cup {"interrupted"},
         \/ UNCHANGED <<ledger, telling>>
         \/ \E d \in Ids : /\ WorkerOf[d] = w /\ Settle(w, d, o)
                           /\ o = "interrupted" => outcome[w][record[d].turn] # "none"
  PROVE  FollowInv'
<1>1. /\ stage'[w] = "telling" /\ \A v \in Workers : v # w => stage'[v] = stage[v]
  BY DEF DelegationInv, WorkInv, Typed
<1>2. Queues' /\ Over'
  BY <1>1 DEF FollowInv, Queues, Over
<1>3. ASSUME NEW c \in Ids, InHand(record[c], WorkerOf[c]), record'[c] = record[c]
      PROVE  InHand(record[c], WorkerOf[c])'
  <2>1. WorkerOf[c] \in Workers
    BY DelegationAssumption
  <2>2. CASE WorkerOf[c] = w
    <3>1. serving[w] = record[c].turn /\ stage[w] = "finishing" =>
            outcome[w][record[c].turn] # "none"
      BY DEF FollowInv, Over
    <3> QED
      BY <1>1, <1>3, <2>2, <3>1 DEF InHand
  <2>3. CASE WorkerOf[c] # w
    BY <1>1, <1>3, <2>1, <2>3 DEF InHand
  <2> QED
    BY <2>2, <2>3
<1>4. CASE UNCHANGED <<ledger, telling>>
  <2>1. record' = record /\ disk' = disk
    BY <1>4 DEF ledger
  <2>2. Where'
    BY <1>3, <2>1 DEF FollowInv, Where
  <2>3. Lagging' /\ Timely'
    BY <2>1 DEF FollowInv, Lagging, Timely
  <2> QED
    BY <1>2, <2>2, <2>3 DEF FollowInv
<1>5. ASSUME NEW d \in Ids, WorkerOf[d] = w, NEW x \in Record, x.turn = record[d].turn,
             x.report \in Reports => x.report = record[d].report,
             x.status \notin Active, record' = [record EXCEPT ![d] = x],
             \/ disk'.record = record'
             \/ disk' = disk /\ outcome[w][record[d].turn] # "none"
      PROVE  FollowInv'
  <2>1. Lagging' /\ Timely'
    BY <1>5, Touched
  <2>2. record'[d] = x /\ \A c \in Ids : c # d => record'[c] = record[c]
    BY <1>5 DEF DelegationInv, LedgerInv, SoundLedger
  <2>3. InHand(record[d], WorkerOf[d])'
    BY <1>5, <2>2 DEF InHand, Active
  <2>4. Where'
    BY <1>3, <2>2, <2>3 DEF FollowInv, Where
  <2> QED
    BY <1>2, <2>1, <2>4 DEF FollowInv
<1>6. ASSUME NEW d \in Ids, WorkerOf[d] = w, Settle(w, d, o),
             o = "interrupted" => outcome[w][record[d].turn] # "none",
             ~UNCHANGED <<ledger, telling>>
      PROVE  FollowInv'
  <2>1. PICK x \in Record :
              /\ x.turn = record[d].turn
              /\ x.report \in Reports => x.report = record[d].report
              /\ \/ /\ x.status \in Settled /\ Flush([record EXCEPT ![d] = x], seq)
                 \/ /\ x.status = "interrupted" /\ record' = [record EXCEPT ![d] = x]
                    /\ disk' = disk /\ o = "interrupted"
    <3>1. PICK x \in Record :
              /\ record[d].status \in Active /\ x.turn = record[d].turn
              /\ record[d].report \in Reports \/ x.report \in Reports =>
                   x.report = record[d].report
              /\ \/ /\ x.status \in Settled /\ Flush([record EXCEPT ![d] = x], seq)
                    /\ telling' = [telling EXCEPT ![w] = record[d].turn]
                 \/ /\ x.status = "interrupted" /\ record' = [record EXCEPT ![d] = x]
                    /\ UNCHANGED <<seq, disk, telling>> /\ o = "interrupted"
      BY <1>6, SettleIs, Zenon
    <3> QED
      BY <3>1
  <2>2. x.status \notin Active
    BY <2>1 DEF Active, Settled
  <2> QED
    BY <1>5, <1>6, <2>1, <2>2 DEF Flush
<1> QED
  BY <1>4, <1>6

LEMMA FollowFinished ==
  ASSUME DelegationInv, FollowInv, NEW w \in Workers, Finished(w) PROVE FollowInv'
<1>1. /\ stage[w] = "finishing" /\ stage' = [stage EXCEPT ![w] = "telling"]
      /\ UNCHANGED <<waiting, serving, outcome>>
      /\ \/ UNCHANGED <<ledger, telling>>
         \/ \E d \in About(serving[w]) : Settle(w, d, result[w])
  BY DEF Finished
<1>2. result[w] \in Answers \cup {"interrupted"}
  BY DEF DelegationInv, WorkInv, Typed
<1>3. ASSUME NEW d \in About(serving[w])
      PROVE  d \in Ids /\ WorkerOf[d] = w /\ outcome[w][record[d].turn] # "none"
  BY <1>1 DEF About, DelegationInv, WorkInv, Holding, FollowInv, Over
<1> QED
  BY <1>1, <1>2, <1>3, FollowSettling

LEMMA FollowStartFails ==
  ASSUME DelegationInv, FollowInv, NEW w \in Workers, StartFails(w) PROVE FollowInv'
<1> DEFINE t == Head(waiting[w])
<1>1. /\ booting[w] /\ stage[w] = "idle" /\ stage' = [stage EXCEPT ![w] = "telling"]
      /\ UNCHANGED <<waiting, serving, outcome>>
      /\ \/ UNCHANGED <<ledger, telling>>
         \/ \E d \in About(t) : Settle(w, d, "failed")
  BY DEF StartFails
<1>2. "failed" \in Answers \cup {"interrupted"} /\ "failed" # "interrupted"
  BY DEF Answers
<1>3. t \in Range(waiting[w])
  <2>1. waiting[w] # <<>> /\ waiting[w] \in Seq(Turns)
    BY <1>1 DEF DelegationInv, WorkInv, Typed, Holding
  <2>2. PICK u \in Turns : TRUE
    BY <2>1
  <2> QED
    BY <2>1, <2>2, QueueFacts
<1>4. ASSUME NEW d \in About(t) PROVE d \in Ids /\ WorkerOf[d] = w
  BY <1>3 DEF About, DelegationInv, WorkInv, Holding
<1> HIDE DEF t
<1> QED
  BY <1>1, <1>2, <1>4, FollowSettling

LEMMA FollowHand ==
  ASSUME DelegationInv, FollowInv, NEW d \in Ids, NEW n, Hand(d, n) PROVE FollowInv'
<1> DEFINE t == issued + 1
           w == WorkerOf[d]
<1>1. PICK x : /\ record' = [record EXCEPT ![d] = x] /\ x.turn = t /\ x.report \notin Reports
               /\ disk'.record = record'
               /\ \/ Send(w, t)
                  \/ waiting' = waiting /\ x.status = "failed"
               /\ x.status = "submitted" \/ x.status = "failed"
  <2>1. PICK s, p :
          /\ Flush([record EXCEPT ![d] = [status |-> s, turn |-> t, report |-> p]], n)
          /\ p \notin Reports
          /\ \/ Send(w, t)
             \/ waiting' = waiting /\ s = "failed"
          /\ s = "submitted" \/ s = "failed"
    <3>1. "" \notin Reports /\ "unreported" \notin Reports
      BY Zenon, DelegationAssumption
    <3> QED
      BY <3>1, Zenon DEF Hand
  <2> DEFINE x == [status |-> s, turn |-> t, report |-> p]
  <2>2. x.status = s /\ x.turn = t /\ x.report = p
    OBVIOUS
  <2>3. record' = [record EXCEPT ![d] = x] /\ disk'.record = record'
    BY <2>1 DEF Flush
  <2> HIDE DEF x
  <2> QED
    BY <2>1, <2>2, <2>3
<1>2. /\ t \in Turns /\ issued \in Nat /\ t \notin 0..issued /\ w \in Workers
      /\ UNCHANGED <<serving, stage, outcome>>
  <2>1. issued \in Nat /\ w \in Workers
    BY RecordsAre, Values
  <2>2. t \in Turns /\ UNCHANGED <<serving, stage, outcome>>
    BY Zenon DEF Hand
  <2>3. t \notin 0..issued
    BY <2>1
  <2> QED
    BY <2>1, <2>2, <2>3
<1>3. record'[d] = x /\ \A c \in Ids : c # d => record'[c] = record[c]
  BY <1>1 DEF DelegationInv, LedgerInv, SoundLedger
<1>4. ASSUME NEW v \in Workers
      PROVE  /\ waiting[v] \in Seq(Turns)
             /\ waiting'[v] = waiting[v] \/ (v = w /\ waiting'[v] = Append(waiting[v], t))
             /\ \A u \in Range(waiting[v]) \cup {serving[v]} : u # t
  <2>1. waiting \in [Workers -> Seq(Turns)]
    BY DEF DelegationInv, WorkInv, Typed
  <2>2. \A u \in Range(waiting[v]) \cup {serving[v]} : u <= issued
    BY DEF DelegationInv, WorkInv, Holding
  <2>3. ~(t <= issued)
    BY <1>2
  <2>4. waiting'[v] = waiting[v] \/ (v = w /\ waiting'[v] = Append(waiting[v], t))
    BY <1>1, <2>1 DEF Send
  <2> QED
    BY <2>1, <2>2, <2>3, <2>4
<1>5. ASSUME NEW v \in Workers
      PROVE  /\ Range(waiting[v]) \subseteq Range(waiting'[v])
             /\ \A u \in Range(waiting'[v]) : u \in Range(waiting[v]) \/ u = t
             /\ \A i, j \in 1..Len(waiting'[v]) : waiting'[v][i] = waiting'[v][j] => i = j
             /\ serving'[v] \notin Range(waiting'[v])
  <2> DEFINE q == waiting[v]
  <2>1. /\ q \in Seq(Turns) /\ t \notin Range(q) /\ serving[v] # t /\ serving[v] \notin Range(q)
        /\ \A i, j \in 1..Len(q) : q[i] = q[j] => i = j
    BY <1>4 DEF FollowInv, Queues
  <2>2. CASE waiting'[v] = q
    BY <1>2, <2>1, <2>2
  <2>3. CASE waiting'[v] = Append(q, t)
    <3>1. Range(Append(q, t)) = Range(q) \cup {t}
      BY <1>2, <2>1, QueueFacts
    <3>2. /\ Len(q) \in Nat /\ Len(Append(q, t)) = Len(q) + 1 /\ Append(q, t)[Len(q) + 1] = t
          /\ \A i \in 1..Len(q) : Append(q, t)[i] = q[i] /\ q[i] # t
      BY <2>1 DEF Range
    <3>3. \A i, j \in 1..(Len(q) + 1) : Append(q, t)[i] = Append(q, t)[j] => i = j
      BY <2>1, <3>2
    <3>4. serving'[v] = serving[v]
      BY <1>2
    <3>5. /\ Range(waiting'[v]) = Range(q) \cup {t} /\ Len(waiting'[v]) = Len(q) + 1
          /\ \A i, j \in 1..(Len(q) + 1) : waiting'[v][i] = waiting'[v][j] => i = j
      BY <2>3, <3>1, <3>2, <3>3, Zenon
    <3> HIDE DEF t
    <3> QED
      BY <2>1, <3>4, <3>5
  <2> QED
    BY <1>4, <2>2, <2>3
<1>6. ASSUME NEW c \in Ids, c # d PROVE InHand(record[c], WorkerOf[c])'
  <2>1. InHand(record[c], WorkerOf[c]) /\ WorkerOf[c] \in Workers
    BY DelegationAssumption DEF FollowInv, Where
  <2> QED
    BY <1>2, <1>3, <1>5, <1>6, <2>1 DEF InHand
<1>7. x.status # "failed" => t \in Range(waiting'[w])
  <2>1. ASSUME Send(w, t) PROVE t \in Range(waiting'[w])
    <3>1. waiting'[w] = Append(waiting[w], t)
      BY <1>2, <2>1 DEF Send, DelegationInv, WorkInv, Typed
    <3> QED
      BY <1>2, <1>4, <3>1, QueueFacts
  <2> QED
    BY <1>1, <2>1
<1>8. InHand(record[d], WorkerOf[d])'
  BY <1>1, <1>3, <1>7 DEF InHand
<1>9. Where'
  BY <1>6, <1>8 DEF Where
<1>10. Lagging'
  BY <1>1 DEF Lagging
<1>11. Timely'
  <2>1. ASSUME NEW c \in Ids, c # d, record[c].report \in Reports
        PROVE  record[c].turn \notin Range(waiting'[WorkerOf[c]])
    <3>1. record[c].turn # t
      BY <1>2, RecordsAre
    <3>2. record[c].turn \notin Range(waiting[WorkerOf[c]]) /\ WorkerOf[c] \in Workers
      BY <2>1, DelegationAssumption DEF FollowInv, Timely
    <3> QED
      BY <1>5, <3>1, <3>2
  <2> QED
    BY <1>1, <1>3, <2>1 DEF Timely
<1>12. Queues' /\ Over'
  BY <1>2, <1>5 DEF FollowInv, Queues, Over
<1> QED
  BY <1>9, <1>10, <1>11, <1>12 DEF FollowInv

LEMMA FollowStep == DelegationInv /\ FollowInv /\ [Next]_vars => FollowInv'
<1> SUFFICES ASSUME DelegationInv, FollowInv, [Next]_vars PROVE FollowInv'
  OBVIOUS
<1>1. ASSUME UNCHANGED <<record, disk, waiting, serving, stage, outcome>> PROVE FollowInv'
  BY <1>1 DEF FollowInv, Where, InHand, Lagging, Timely, Queues, Over
<1>2. CASE UNCHANGED vars
  <2>1. UNCHANGED <<record, disk, waiting, serving, stage, outcome>>
    BY <1>2 DEF vars, ledger, turn
  <2> QED
    BY <1>1, <2>1
<1>3. CASE BeginShutdown
  <2>1. UNCHANGED <<record, disk, waiting, serving, stage, outcome>>
    BY <1>3 DEF BeginShutdown, ledger, turn
  <2> QED
    BY <1>1, <2>1
<1>4. CASE Manager
  <2>1. CASE Delegate
    BY <2>1, FollowHand DEF Delegate
  <2>2. ASSUME NEW d \in Ids, Continue(d) PROVE FollowInv'
    BY <2>2, FollowHand DEF Continue
  <2> QED
    BY <1>4, <2>1, <2>2, FollowComplete DEF Manager
<1>5. CASE \E d \in Ids, r \in Reports : Report(d, r)
  BY <1>5, FollowReport
<1>6. CASE \E w \in Workers : Worker(w)
  BY <1>6, FollowBegin, FollowStarted, FollowAnswer, FollowFinished, FollowLeaves,
     FollowStartFails DEF Worker, Progress
<1>7. CASE CancelWorkers \/ ProcessEnds \/ Restart
  BY <1>7, FollowCancel, FollowEnds, FollowRestart
<1> QED
  BY <1>2, <1>3, <1>4, <1>5, <1>6, <1>7 DEF Next

(* What the ledger says of a delegation is what its Worker does with it,   *)
(* and a report comes only from the turn it is about, whatever steps the   *)
(* Workers, the Manager, a shutdown and a crash take.                      *)
THEOREM Follows == Spec => []LedgerFollowsWork
<1>1. Init => DelegationInv /\ FollowInv
  BY DelegationInit, FollowInit
<1>2. (DelegationInv /\ FollowInv) /\ [Next]_vars => (DelegationInv /\ FollowInv)'
  BY DelegationStep, FollowStep
<1>3. DelegationInv /\ FollowInv => LedgerFollowsWork
  BY FollowMeans
<1> QED
  BY <1>1, <1>2, <1>3, PTL DEF Spec

----------------------------------------------------------------------------
(* Each Worker is a TurnService                                            *)

(* The turn the abstract service serves.                                   *)
Served(w) == IF stage[w] \in {"begun", "working"} THEN {serving[w]} ELSE {}

(* A turn that has not been issued has no outcome.                         *)
Unissued == \A w \in Workers, t \in Turns : t > issued => outcome[w][t] = "none"

ServiceInv == DelegationInv /\ FollowInv /\ Unissued

Serves(w) == [Service(w)!Next]_(Service(w)!vars)

LEMMA ServesInit ==
  ASSUME Init, NEW w \in Workers PROVE Service(w)!Init
BY DEF Init, Service!Init, Range

LEMMA ServesSame ==
  ASSUME NEW w \in Workers, Range(waiting'[w]) = Range(waiting[w]), Served(w)' = Served(w),
         outcome'[w] = outcome[w]
  PROVE  Serves(w)
BY DEF Serves, Service!vars, Served

LEMMA ServesAccept ==
  ASSUME NEW w \in Workers, NEW t \in Turns,
         Range(waiting'[w]) = Range(waiting[w]) \cup {t}, Served(w)' = Served(w),
         outcome'[w] = outcome[w], t \notin Range(waiting[w]) \cup Served(w),
         outcome[w][t] = "none"
  PROVE  Serves(w)
<1>1. Service(w)!Accept
  BY DEF Service!Accept, Service!Fresh, Served
<1> QED
  BY <1>1 DEF Serves, Service!Next

LEMMA ServesBegin ==
  ASSUME NEW w \in Workers, NEW t \in Range(waiting[w]),
         Range(waiting'[w]) = Range(waiting[w]) \ {t}, Served(w) = {}, Served(w)' = {t},
         outcome'[w] = outcome[w]
  PROVE  Serves(w)
<1>1. {t} \in (SUBSET Range(waiting[w])) \ {{}}
  OBVIOUS
<1>2. Service(w)!Begin
  BY <1>1 DEF Service!Begin, Served
<1> QED
  BY <1>2 DEF Serves, Service!Next

LEMMA ServesFinish ==
  ASSUME NEW w \in Workers, Range(waiting'[w]) = Range(waiting[w]), Served(w) # {},
         Served(w)' = {}, NEW o \in Outcomes,
         outcome'[w] = [t \in Turns |-> IF t \in Served(w) THEN o ELSE outcome[w][t]]
  PROVE  Serves(w)
<1>1. Service(w)!Finish
  BY DEF Service!Finish, Service!Ended, Served
<1> QED
  BY <1>1 DEF Serves, Service!Next

LEMMA ServesDrop ==
  ASSUME NEW w \in Workers, Range(waiting'[w]) = {}, Range(waiting[w]) # {},
         Served(w)' = Served(w),
         outcome'[w] = [t \in Turns |-> IF t \in Range(waiting[w]) THEN "lost"
                                        ELSE outcome[w][t]]
  PROVE  Serves(w)
<1>1. Range(waiting[w]) \in (SUBSET Range(waiting[w])) \ {{}}
  OBVIOUS
<1>2. Service(w)!Drop
  BY <1>1 DEF Service!Drop, Served
<1> QED
  BY <1>2 DEF Serves, Service!Next

LEMMA ServesAbandon ==
  ASSUME NEW w \in Workers, NEW S \in SUBSET Range(waiting[w]),
         Range(waiting'[w]) = Range(waiting[w]) \ S, Served(w)' = {},
         NEW o \in {"interrupted", "lost"},
         outcome'[w] = [t \in Turns |-> IF t \in S THEN "lost"
                                        ELSE IF t \in Served(w) THEN o ELSE outcome[w][t]]
  PROVE  Serves(w)
<1>1. Service(w)!Abandon
  BY DEF Service!Abandon, Served
<1> QED
  BY <1>1 DEF Serves, Service!Next

LEMMA BeginServes ==
  ASSUME ServiceInv, NEW w \in Workers, Begin(w), NEW v \in Workers PROVE Serves(v)
<1> DEFINE q == waiting[w]
<1>1. /\ stage[w] = "idle" /\ q # <<>> /\ outcome' = outcome
      /\ serving' = [serving EXCEPT ![w] = Head(q)]
      /\ waiting' = [waiting EXCEPT ![w] = Tail(q)]
      /\ stage' = [stage EXCEPT ![w] = "begun"]
  BY DEF Begin
<1>2. /\ stage'[w] = "begun" /\ serving'[w] = Head(q) /\ waiting'[w] = Tail(q)
      /\ \A u \in Workers : u # w => /\ stage'[u] = stage[u] /\ serving'[u] = serving[u]
                                     /\ waiting'[u] = waiting[u]
  BY <1>1 DEF ServiceInv, DelegationInv, WorkInv, Typed
<1>3. q \in Seq(Turns) /\ \A i, j \in 1..Len(q) : q[i] = q[j] => i = j
  BY DEF ServiceInv, DelegationInv, WorkInv, Typed, FollowInv, Queues
<1>4. Head(q) \in Range(q) /\ Range(Tail(q)) = Range(q) \ {Head(q)}
  <2> HIDE DEF q
  <2> QED
    BY <1>1, <1>3, HeadLeaves
<1>5. CASE v = w
  <2>1. /\ Range(waiting'[v]) = Range(waiting[v]) \ {Head(q)} /\ Served(v) = {}
        /\ Served(v)' = {Head(q)} /\ Head(q) \in Range(waiting[v]) /\ outcome'[v] = outcome[v]
    BY <1>1, <1>2, <1>4, <1>5 DEF Served
  <2> HIDE DEF q
  <2> QED
    BY <2>1, ServesBegin
<1>6. CASE v # w
  BY <1>1, <1>2, <1>6, ServesSame DEF Served
<1> QED
  BY <1>5, <1>6

LEMMA AnswerServes ==
  ASSUME ServiceInv, NEW w \in Workers, NEW o \in Answers, Answer(w, o), NEW v \in Workers
  PROVE  Serves(v)
<1>1. /\ stage[w] = "working" /\ stage' = [stage EXCEPT ![w] = "finishing"]
      /\ outcome' = Ended(w, {serving[w]}, o) /\ UNCHANGED <<waiting, serving>>
  BY DEF Answer
<1>2. /\ stage'[w] = "finishing" /\ \A u \in Workers : u # w => stage'[u] = stage[u]
  BY <1>1 DEF ServiceInv, DelegationInv, WorkInv, Typed
<1>3. outcome \in [Workers -> [Turns -> Outcomes \cup {"none"}]] /\ o \in Outcomes
  BY DEF ServiceInv, FollowInv, Over, Outcomes
<1>4. CASE v = w
  <2>1. Served(v) = {serving[w]} /\ Served(v)' = {}
    BY <1>1, <1>2, <1>4 DEF Served
  <2>2. outcome'[v] = [t \in Turns |-> IF t \in Served(v) THEN o ELSE outcome[v][t]]
    BY <1>1, <1>3, <1>4, <2>1 DEF Ended
  <2> QED
    BY <1>1, <1>3, <2>1, <2>2, ServesFinish
<1>5. CASE v # w
  <2>1. outcome'[v] = outcome[v]
    BY <1>1, <1>3, <1>5 DEF Ended
  <2> QED
    BY <1>1, <1>2, <1>5, <2>1, ServesSame DEF Served
<1> QED
  BY <1>4, <1>5

(* Started, Finished and StartFails: the abstract turn is the same.        *)
LEMMA StageServes ==
  ASSUME ServiceInv, NEW w \in Workers, Started(w) \/ Finished(w) \/ StartFails(w),
         NEW v \in Workers
  PROVE  Serves(v)
<1>1. /\ UNCHANGED <<waiting, serving, outcome>>
      /\ \/ stage[w] = "begun" /\ stage' = [stage EXCEPT ![w] = "working"]
         \/ stage[w] \in {"finishing", "idle"} /\ stage' = [stage EXCEPT ![w] = "telling"]
  BY DEF Started, Finished, StartFails
<1>2. stage \in [Workers -> Stages]
  BY DEF ServiceInv, DelegationInv, WorkInv, Typed
<1>3. Served(v)' = Served(v)
  <2>1. CASE v = w
    BY <1>1, <1>2, <2>1 DEF Served
  <2>2. CASE v # w
    BY <1>1, <1>2, <2>2 DEF Served
  <2> QED
    BY <2>1, <2>2
<1> QED
  BY <1>1, <1>3, ServesSame

LEMMA LeaveServes ==
  ASSUME ServiceInv, NEW w \in Workers, Told(w) \/ WorkerEnds(w), NEW v \in Workers
  PROVE  Serves(v)
<1>1. /\ stage[w] \in {"idle", "telling"}
      /\ stage' = [stage EXCEPT ![w] = "idle"] /\ serving' = [serving EXCEPT ![w] = 0]
      /\ \/ /\ waiting' = [waiting EXCEPT ![w] = <<>>]
            /\ outcome' = Ended(w, Range(waiting[w]), "lost")
         \/ UNCHANGED <<waiting, outcome>>
  BY DEF Told, WorkerEnds, Leave
<1>2. /\ stage'[w] = "idle"
      /\ \A u \in Workers : u # w => stage'[u] = stage[u] /\ serving'[u] = serving[u]
  BY <1>1 DEF ServiceInv, DelegationInv, WorkInv, Typed
<1>3. Served(v)' = Served(v)
  <2>1. CASE v = w
    BY <1>1, <1>2, <2>1 DEF Served
  <2>2. CASE v # w
    BY <1>2, <2>2 DEF Served
  <2> QED
    BY <2>1, <2>2
<1>4. CASE UNCHANGED <<waiting, outcome>>
  BY <1>3, <1>4, ServesSame
<1>5. CASE /\ waiting' = [waiting EXCEPT ![w] = <<>>]
           /\ outcome' = Ended(w, Range(waiting[w]), "lost")
  <2>1. /\ outcome \in [Workers -> [Turns -> Outcomes \cup {"none"}]]
        /\ waiting \in [Workers -> Seq(Turns)] /\ Range(<<>>) = {}
    BY DEF ServiceInv, FollowInv, Over, DelegationInv, WorkInv, Typed, Range
  <2>2. CASE v # w
    <3>1. waiting'[v] = waiting[v] /\ outcome'[v] = outcome[v]
      BY <1>5, <2>1, <2>2 DEF Ended
    <3> QED
      BY <1>3, <3>1, ServesSame
  <2>3. CASE v = w
    <3>1. /\ Range(waiting'[v]) = {}
          /\ outcome'[v] = [t \in Turns |-> IF t \in Range(waiting[v]) THEN "lost"
                                            ELSE outcome[v][t]]
      BY <1>5, <2>1, <2>3 DEF Ended
    <3>2. CASE Range(waiting[v]) = {}
      <4>1. outcome'[v] = outcome[v]
        BY <2>1, <3>1, <3>2
      <4> QED
        BY <1>3, <3>1, <3>2, <4>1, ServesSame
    <3> QED
      BY <1>3, <3>1, <3>2, ServesDrop
  <2> QED
    BY <2>2, <2>3
<1> QED
  BY <1>1, <1>4, <1>5

LEMMA CancelServes ==
  ASSUME ServiceInv, CancelWorkers, NEW v \in Workers PROVE Serves(v)
<1>1. PICK P \in SUBSET {w \in Workers : stage[w] \in {"begun", "working"}} :
        /\ \A w \in Workers : stage[w] = "working" => w \in P
        /\ waiting' = [w \in Workers |-> IF w \in P THEN waiting[w] ELSE <<>>]
        /\ stage' = [w \in Workers |-> IF w \in P THEN "finishing" ELSE "idle"]
        /\ outcome' = [w \in Workers |-> [t \in Turns |->
             CASE w \in P /\ serving[w] = t      -> "interrupted"
               [] w \notin P /\ t \in Unserved(w) -> "lost"
               [] OTHER                          -> outcome[w][t]]]
  BY DEF CancelWorkers
<1>2. Range(<<>>) = {} /\ Served(v)' = {}
  BY <1>1 DEF Range, Served
<1>3. CASE v \in P
  <2>1. Served(v) = {serving[v]}
    BY <1>1, <1>3 DEF Served
  <2>2. outcome'[v] = [t \in Turns |-> IF t \in {} THEN "lost"
                          ELSE IF t \in Served(v) THEN "interrupted" ELSE outcome[v][t]]
    BY <1>1, <1>3, <2>1
  <2>3. /\ {} \in SUBSET Range(waiting[v]) /\ "interrupted" \in {"interrupted", "lost"}
        /\ Range(waiting'[v]) = Range(waiting[v]) \ {}
    BY <1>1, <1>3
  <2> QED
    BY <1>2, <2>2, <2>3, ServesAbandon
<1>4. CASE v \notin P
  <2>1. Unserved(v) = Range(waiting[v]) \cup Served(v)
    BY <1>1, <1>4 DEF Unserved, Served
  <2>2. outcome'[v] = [t \in Turns |-> IF t \in Range(waiting[v]) THEN "lost"
                          ELSE IF t \in Served(v) THEN "lost" ELSE outcome[v][t]]
    BY <1>1, <1>4, <2>1
  <2>3. /\ Range(waiting[v]) \in SUBSET Range(waiting[v])
        /\ "lost" \in {"interrupted", "lost"}
        /\ Range(waiting'[v]) = Range(waiting[v]) \ Range(waiting[v])
    BY <1>1, <1>2, <1>4
  <2> QED
    BY <1>2, <2>2, <2>3, ServesAbandon
<1> QED
  BY <1>3, <1>4

LEMMA EndsServes ==
  ASSUME ServiceInv, ProcessEnds, NEW v \in Workers PROVE Serves(v)
<1>1. /\ waiting' = [w \in Workers |-> <<>>] /\ stage' = [w \in Workers |-> "idle"]
      /\ outcome' = [w \in Workers |-> [t \in Turns |->
           IF t \in Range(waiting[w]) THEN "lost"
           ELSE IF stage[w] \in {"begun", "working"} /\ serving[w] = t
           THEN "interrupted" ELSE outcome[w][t]]]
  BY DEF ProcessEnds
<1>2. Range(<<>>) = {} /\ Served(v)' = {}
  BY <1>1 DEF Range, Served
<1>3. outcome'[v] = [t \in Turns |-> IF t \in Range(waiting[v]) THEN "lost"
                        ELSE IF t \in Served(v) THEN "interrupted" ELSE outcome[v][t]]
  BY <1>1 DEF Served
<1>4. /\ Range(waiting[v]) \in SUBSET Range(waiting[v])
      /\ "interrupted" \in {"interrupted", "lost"}
      /\ Range(waiting'[v]) = Range(waiting[v]) \ Range(waiting[v])
  BY <1>1, <1>2
<1> QED
  BY <1>2, <1>3, <1>4, ServesAbandon

LEMMA HandServes ==
  ASSUME ServiceInv, NEW d \in Ids, NEW n, Hand(d, n), NEW v \in Workers PROVE Serves(v)
<1> DEFINE t == issued + 1
           w == WorkerOf[d]
<1>1. /\ t \in Turns /\ UNCHANGED <<serving, stage, outcome>>
      /\ Send(w, t) \/ waiting' = waiting
  BY Zenon DEF Hand
<1>2. /\ waiting \in [Workers -> Seq(Turns)] /\ w \in Workers /\ issued \in Nat
      /\ \A u \in Range(waiting[v]) \cup {serving[v]} : u <= issued
  BY RecordsAre, Values DEF ServiceInv, DelegationInv, WorkInv, Typed, Holding
<1>3. t > issued /\ ~(t <= issued)
  BY <1>2
<1>4. outcome[v][t] = "none" /\ t \notin Range(waiting[v]) \cup Served(v)
  BY <1>1, <1>2, <1>3 DEF ServiceInv, Unissued, Served
<1>5. Served(v)' = Served(v) /\ outcome'[v] = outcome[v]
  BY <1>1 DEF Served
<1> HIDE DEF t
<1>6. CASE waiting'[v] = waiting[v]
  BY <1>5, <1>6, ServesSame
<1>7. CASE waiting'[v] = Append(waiting[v], t)
  <2>1. Range(waiting'[v]) = Range(waiting[v]) \cup {t}
    BY <1>1, <1>2, <1>7, QueueFacts
  <2> QED
    BY <1>1, <1>4, <1>5, <2>1, ServesAccept
<1>8. waiting'[v] = waiting[v] \/ waiting'[v] = Append(waiting[v], t)
  BY <1>1, <1>2 DEF Send
<1> QED
  BY <1>6, <1>7, <1>8

LEMMA StillServes ==
  ASSUME UNCHANGED <<waiting, serving, stage, outcome>>, NEW v \in Workers PROVE Serves(v)
BY ServesSame DEF Served

LEMMA StepServes ==
  ASSUME ServiceInv, [Next]_vars, NEW v \in Workers PROVE Serves(v)
<1>1. CASE UNCHANGED vars
  BY <1>1, StillServes DEF vars, turn
<1>2. CASE BeginShutdown \/ Restart
  BY <1>2, StillServes DEF BeginShutdown, Restart, turn
<1>3. CASE Manager
  <2>1. CASE Delegate
    BY <2>1, HandServes DEF Delegate
  <2>2. ASSUME NEW d \in Ids, Continue(d) PROVE Serves(v)
    BY <2>2, HandServes DEF Continue
  <2>3. ASSUME NEW d \in Ids, Complete(d) PROVE Serves(v)
    BY <2>3, StillServes DEF Complete, turn
  <2> QED
    BY <1>3, <2>1, <2>2, <2>3 DEF Manager
<1>4. CASE \E d \in Ids, r \in Reports : Report(d, r)
  <2>1. UNCHANGED turn
    BY <1>4, Zenon DEF Report
  <2> QED
    BY <2>1, StillServes DEF turn
<1>5. CASE \E w \in Workers : Worker(w)
  BY <1>5, BeginServes, AnswerServes, StageServes, LeaveServes DEF Worker, Progress
<1>6. CASE CancelWorkers \/ ProcessEnds
  BY <1>6, CancelServes, EndsServes
<1> QED
  BY <1>1, <1>2, <1>3, <1>4, <1>5, <1>6 DEF Next

(* Only a turn that waits or is served gets an outcome.                    *)
LEMMA OutcomeOf ==
  ASSUME NEW w \in Workers, Serves(w), NEW t \in Turns, outcome'[w][t] # outcome[w][t]
  PROVE  t \in Range(waiting[w]) \cup {serving[w]}
BY DEF Serves, Service!Next, Service!Accept, Service!Begin, Service!Finish, Service!Ended,
       Service!Drop, Service!Abandon, Service!vars

LEMMA IssuedGrows == [Next]_vars /\ issued \in Nat => issued <= issued'
<1> SUFFICES ASSUME [Next]_vars, issued \in Nat PROVE issued <= issued'
  OBVIOUS
<1>1. ASSUME issued' = issued \/ issued' = issued + 1 PROVE issued <= issued'
  BY <1>1
<1>2. CASE UNCHANGED vars \/ BeginShutdown \/ CancelWorkers \/ ProcessEnds \/ Restart
  BY <1>1, <1>2 DEF vars, BeginShutdown, CancelWorkers, ProcessEnds, Restart
<1>3. CASE Manager
  <2>1. \A d, n : Hand(d, n) => issued' = issued + 1
    BY Zenon DEF Hand
  <2> QED
    BY <1>1, <1>3, <2>1 DEF Manager, Delegate, Continue, Complete
<1>4. CASE \E d \in Ids, r \in Reports : Report(d, r)
  <2>1. issued' = issued
    BY <1>4, Zenon DEF Report
  <2> QED
    BY <1>1, <2>1
<1>5. CASE \E w \in Workers : Worker(w)
  BY <1>1, <1>5 DEF Worker, Progress, Begin, Started, Answer, Finished, Told, StartFails,
                    WorkerEnds
<1> QED
  BY <1>2, <1>3, <1>4, <1>5 DEF Next

LEMMA ServiceStep == ServiceInv /\ [Next]_vars => ServiceInv'
<1> SUFFICES ASSUME ServiceInv, [Next]_vars PROVE ServiceInv'
  OBVIOUS
<1>1. DelegationInv' /\ FollowInv'
  BY DelegationStep, FollowStep DEF ServiceInv
<1>2. ASSUME NEW w \in Workers, NEW t \in Turns, t > issued' PROVE outcome'[w][t] = "none"
  <2>1. issued \in Nat /\ issued' \in Nat /\ issued <= issued' /\ t \in Nat
    BY <1>1, RecordsAre, IssuedGrows, Values DEF ServiceInv, DelegationInv, WorkInv, Typed
  <2>2. t > issued /\ ~(t <= issued)
    BY <1>2, <2>1
  <2>3. t \notin Range(waiting[w]) \cup {serving[w]}
    BY <2>2 DEF ServiceInv, DelegationInv, WorkInv, Holding
  <2>4. outcome'[w][t] = outcome[w][t]
    BY <2>3, StepServes, OutcomeOf
  <2> QED
    BY <2>2, <2>4 DEF ServiceInv, Unissued
<1> QED
  BY <1>1, <1>2 DEF ServiceInv, Unissued

(* Each Worker, seen from the ledger of delegations, is the turn service   *)
(* that a Session promises to be: a turn waits, is served at most once and *)
(* ends once, through refused sends, failed starts, shutdowns and crashes. *)
THEOREM WorkersServe == Spec => WorkersAreTurnServices
<1>1. Init => ServiceInv
  <2>1. Init => Unissued
    BY DEF Init, Unissued
  <2> QED
    BY <2>1, DelegationInit, FollowInit DEF ServiceInv
<1>2. ServiceInv /\ [Next]_vars => [\A w \in Workers : [Service(w)!Next]_(Service(w)!vars)]_vars
  BY StepServes DEF Serves
<1>3. Init => \A w \in Workers : Service(w)!Init
  BY ServesInit
<1> QED
  BY <1>1, <1>2, <1>3, ServiceStep, PTL DEF Spec, WorkersAreTurnServices

=============================================================================
