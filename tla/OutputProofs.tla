---------------------------- MODULE OutputProofs ----------------------------
(***************************************************************************)
(* The theorems about what comes out of an agent's work.                   *)
(*                                                                         *)
(* AcpOutput: the Finished of an answered turn has all that the agent said,*)
(* and the trace and the conversation have the events in order, each turn  *)
(* whole before the next one begins.                                       *)
(*                                                                         *)
(* BgJobs: the ledger agrees with the watchers, every process can be       *)
(* killed, the end of a job is final, and a result is given once.          *)
(***************************************************************************)
EXTENDS BgJobs, AcpOutput, SequenceTheorems, TLAPS

----------------------------------------------------------------------------
(* Where the events of a runtime are                                       *)
InTail  == {tail[i].event : i \in DOMAIN tail}
Writing == {w.event : w \in writers}
Moving  == InTail \cup Writing \cup strays
Logged  == ToSet(shown) \cup ToSet(trace)

(* What the conversation has seen, or will                                 *)
Seen == ToSet(shown) \cup {tail[i].event : i \in {j \in DOMAIN tail : tail[j].seen}}

(* Neither cancelled nor failed                                            *)
Clean == ~stopping /\ outcome # "failed"

(* Events come from the agent, and are of the turn that has begun last     *)
(* until they are logged.                                                  *)
Places ==
  /\ \A k \in DOMAIN sent : sent[k].text = <<k>> /\ sent[k].kind \in FromAgent
  /\ \A e \in Logged \cup Moving \cup ToSet(updates) : e.kind \in FromAgent => e \in ToSet(sent)
  /\ ToSet(updates) \subseteq ToSet(sent)
  /\ \A e \in Logged \cup ToSet(sent) : e.turn <= begun
  /\ \A e \in Moving \cup ToSet(updates) : e.turn = begun

(* What is being published, where the worker stands                        *)
Publication ==
  /\ \A v, w \in writers : v.by = w.by => v = w
  /\ \A w \in writers : w.by = "worker" =>
       \/ stage = "mirroring" /\ w.event = Event(begun, "accepted", <<>>)
       \/ stage = "opening" /\ w.event = Event(begun, "started", <<>>)
       \/ stage = "finishing" /\ w.event.kind = outcome /\ outcome \in Ends
  /\ stage \in {"mirroring", "opening", "finishing"} => \E w \in writers : w.by = "worker"
  /\ \A w \in writers : w.by = "update" => w.event.kind \in FromAgent

(* What else is so where the worker stands                                 *)
Standing ==
  /\ stopping => stage \in {"finishing", "flushing", "leaving", "closed"}
  /\ stopping /\ stage = "finishing" => outcome = "interrupted"
  /\ strays # {} => stopping
  /\ stage = "mirroring" => tail = <<>>
  /\ stage = "idle" => tail = <<>> /\ outcome \in Answers \cup {"none"}
  /\ Clean /\ stage # "prompting" => updates = <<>> /\ \A w \in writers : w.by = "worker"
  /\ asked # NoTurn => begun # 0 /\ (stage = "prompting" \/ stopping)
  /\ stage \in {"mirroring", "opening"} => outcome = "none" /\ chunks = <<>>
  /\ stage \in {"mirroring", "opening"} => \A u \in ToSet(sent) : u.turn < begun
  /\ stage = "prompting" => outcome \in Answers \cup {"none"} /\ (asked # NoTurn => outcome = "none")
  /\ Clean /\ stage \in {"finishing", "announcing", "flushing"} => outcome \in Answers
  /\ stage = "announcing" => outcome = "completed"
  /\ outcome = "failed" => stage \in {"finishing", "flushing", "leaving", "closed"}

(* An event comes after all of a set.                                      *)
After(S, e) == \A f \in S : Precedes(f, e)

(* The order in which what is under way will be logged and shown           *)
Order ==
  Clean =>
    /\ \A i, j \in DOMAIN tail : i < j => Precedes(tail[i].event, tail[j].event)
    /\ \A e \in InTail : After(ToSet(shown), e)
    /\ \A w \in writers : /\ After(ToSet(shown) \cup InTail, w.event)
                          /\ ~w.written => After(ToSet(trace), w.event)
    /\ \A u \in ToSet(updates) : After(Logged \cup Moving, u)
    /\ \A i, j \in DOMAIN updates : i < j => Precedes(updates[i], updates[j])

(* A log in order, but for the turn b                                      *)
Sorted(log, b) ==
  \A i, j \in DOMAIN log :
    i < j => Precedes(log[i], log[j]) \/ (log[i].turn = b /\ log[j].turn = b)

Trailing == IF Clean THEN NoTurn ELSE begun
Logs     == Sorted(shown, Trailing) /\ Sorted(trace, Trailing)

(* Of the turn that has begun, what there is yet                           *)
OfTurn(kinds) == \A e \in Logged \cup Moving : e.turn = begun => e.kind \in kinds
Heard ==
  /\ stage = "mirroring" => OfTurn({"accepted"})
  /\ stage = "opening" => OfTurn({"accepted", "started"})
  /\ stage = "prompting" => OfTurn({"accepted", "started"} \cup FromAgent)

(* What is shown of a turn that is over, and of the one that has begun     *)
ShownWhole(t) ==
  /\ Event(t, "started", <<>>) \in ToSet(shown)
  /\ \A u \in ToSet(sent) : u.turn = t => u \in ToSet(shown)
  /\ \E e \in ToSet(shown) : e.turn = t /\ e.kind \in Answers

InTurn  == {"opening", "prompting", "finishing", "announcing", "flushing"}
Telling ==
  /\ \A t \in Turns : t < begun \/ (t = begun /\ stage = "idle") => ShownWhole(t)
  /\ Clean /\ stage \in InTurn => begun \in audience
  /\ Clean /\ stage \in InTurn \ {"opening"} => Event(begun, "started", <<>>) \in Seen
  /\ Clean /\ stage \in InTurn => \A u \in ToSet(sent) : u.turn = begun => u \in Seen \cup Writing \cup ToSet(updates)
  /\ Clean /\ stage \in {"announcing", "flushing"} => \E e \in Seen : e.turn = begun /\ e.kind = outcome
  /\ \A t \in noticed : \E e \in ToSet(shown) : e.turn = t /\ e.kind = "completed"

(* What the agent has said, in the hands of the worker and in its Finished *)
Messages == {u.text[1] : u \in {v \in ToSet(updates) : v.kind = "message"}}
Wholes ==
  /\ \A e \in Logged \cup Moving : e.kind \in Answers =>
       /\ IsSaid(e.text, e.turn)
       /\ e.turn = begun => asked = NoTurn
       /\ e.turn = begun /\ e.kind = "completed" => last = e.text
  /\ stage = "prompting" =>
       /\ buffer = chunks /\ Rising(chunks)
       /\ ToSet(chunks) \cup Messages = Spoken(begun)
       /\ \A k \in ToSet(chunks), u \in ToSet(updates) : k < u.text[1]

OutputInv ==
  TypeOK /\ Places /\ Publication /\ Standing /\ Order /\ Logs /\ Heard /\ Telling /\ Wholes

----------------------------------------------------------------------------
(* Sequences and the order of events                                       *)

(* r is s with e at its end.                                               *)
Grows(s, r, e) ==
  /\ ToSet(r) = ToSet(s) \cup {e} /\ Len(s) \in Nat
  /\ DOMAIN s = 1..Len(s) /\ DOMAIN r = 1..(Len(s) + 1) /\ r[Len(s) + 1] = e
  /\ \A i \in 1..Len(s) : r[i] = s[i]

(* What Append makes of a sequence.                                        *)
LEMMA Adds ==
  ASSUME NEW S, NEW s \in Seq(S), NEW e \in S
  PROVE  Append(s, e) \in Seq(S) /\ Grows(s, Append(s, e), e)
<1> DEFINE r == Append(s, e)
<1>1. /\ r \in Seq(S) /\ Len(s) \in Nat /\ Len(r) = Len(s) + 1
      /\ r[Len(s) + 1] = e /\ \A i \in 1..Len(s) : r[i] = s[i]
  BY AppendProperties
<1>2. DOMAIN s = 1..Len(s) /\ DOMAIN r = 1..(Len(s) + 1)
  BY <1>1
<1> HIDE DEF r
<1>3. ToSet(r) = ToSet(s) \cup {e}
  BY <1>1, <1>2 DEF ToSet
<1>4. r \in Seq(S) /\ Grows(s, r, e)
  BY <1>1, <1>2, <1>3 DEF Grows
<1> QED
  BY <1>4 DEF r

TailType == [event : EventType, seen : BOOLEAN]
(* The same for logs and for the queue of projections.                     *)
LEMMA EventAdds ==
  \A s \in Seq(EventType), e \in EventType : \A r :
    r = Append(s, e) => r \in Seq(EventType) /\ Grows(s, r, e)
BY Adds
LEMMA TailAdds ==
  \A s \in Seq(TailType), e \in TailType : \A r :
    r = Append(s, e) => r \in Seq(TailType) /\ Grows(s, r, e)
BY Adds

(* r is s without its first element.                                       *)
Shrinks(s, r) ==
  /\ Len(s) \in Nat /\ Len(s) >= 1
  /\ DOMAIN s = 1..Len(s) /\ DOMAIN r = 1..(Len(s) - 1)
  /\ \A i \in 1..(Len(s) - 1) : r[i] = s[i + 1]
  /\ ToSet(s) = ToSet(r) \cup {s[1]}

(* What Tail makes of a sequence.                                          *)
LEMMA Drops ==
  ASSUME NEW S, NEW s \in Seq(S), s # <<>>
  PROVE  Tail(s) \in Seq(S) /\ Shrinks(s, Tail(s)) /\ Head(s) = s[1] /\ s[1] \in S
<1> DEFINE r == Tail(s)
<1>1. /\ r \in Seq(S) /\ Head(s) = s[1] /\ s[1] \in S /\ Len(s) \in Nat /\ Len(s) >= 1
      /\ DOMAIN s = 1..Len(s) /\ DOMAIN r = 1..(Len(s) - 1)
      /\ \A i \in 1..(Len(s) - 1) : r[i] = s[i + 1]
  OBVIOUS
<1> HIDE DEF r
<1>2. ASSUME NEW e \in ToSet(s) PROVE e \in ToSet(r) \cup {s[1]}
  <2>1. PICK i \in 1..Len(s) : s[i] = e
    BY <1>1 DEF ToSet
  <2>2. CASE i = 1
    BY <2>1, <2>2
  <2>3. CASE i # 1
    <3>1. i - 1 \in 1..(Len(s) - 1) /\ (i - 1) + 1 = i
      BY <1>1, <2>3
    <3>2. r[i - 1] = e
      BY <1>1, <2>1, <3>1
    <3> QED
      BY <1>1, <3>1, <3>2 DEF ToSet
  <2> QED
    BY <2>2, <2>3
<1>3. ASSUME NEW e \in ToSet(r) \cup {s[1]} PROVE e \in ToSet(s)
  <2>1. 1 \in DOMAIN s
    BY <1>1
  <2>2. ASSUME NEW i \in DOMAIN r PROVE r[i] \in ToSet(s)
    <3>1. i + 1 \in DOMAIN s /\ r[i] = s[i + 1]
      BY <1>1
    <3> QED
      BY <3>1 DEF ToSet
  <2> QED
    BY <2>1, <2>2 DEF ToSet
<1>4. r \in Seq(S) /\ Shrinks(s, r)
  BY <1>1, <1>2, <1>3 DEF Shrinks
<1> QED
  BY <1>1, <1>4 DEF r

(* The same for logs and for the queue of projections.                     *)
LEMMA EventDrops ==
  \A s \in Seq(EventType) : \A r : s # <<>> /\ r = Tail(s) =>
    r \in Seq(EventType) /\ Shrinks(s, r) /\ Head(s) = s[1] /\ s[1] \in EventType
BY Drops
LEMMA TailDrops ==
  \A s \in Seq(TailType) : \A r : s # <<>> /\ r = Tail(s) =>
    r \in Seq(TailType) /\ Shrinks(s, r) /\ Head(s) = s[1] /\ s[1] \in TailType
BY Drops

(* The empty sequence.                                                     *)
LEMMA Nothing == \A S : <<>> \in Seq(S) /\ ToSet(<<>>) = {} /\ DOMAIN <<>> = {}
BY DEF ToSet

(* Each kind of event has its rank.                                        *)
LEMMA Ranks ==
  ASSUME NEW e
  PROVE  /\ e.kind = "accepted" => Rank(e) = 0
         /\ e.kind = "started" => Rank(e) = 1
         /\ e.kind \in FromAgent => Rank(e) = 2
         /\ e.kind \in Ends => Rank(e) = 3
         /\ Rank(e) \in 0..3
BY DEF Rank, FromAgent, Ends, Answers

(* When an event comes after another                                       *)
LEMMA ByTurn == \A e, f : e.turn < f.turn => Precedes(e, f)
BY DEF Precedes

LEMMA ByRank ==
  \A e, f : e.turn = f.turn =>
    /\ e.kind = "accepted" /\ f.kind = "started" => Precedes(e, f)
    /\ e.kind \in {"accepted", "started"} /\ f.kind \in FromAgent => Precedes(e, f)
    /\ e.kind \in {"accepted", "started"} \cup FromAgent /\ f.kind \in Ends => Precedes(e, f)
    /\ e.kind \in FromAgent /\ f.kind \in FromAgent /\ e.text[1] < f.text[1] => Precedes(e, f)
<1> SUFFICES ASSUME NEW e, NEW f, e.turn = f.turn
             PROVE  /\ e.kind = "accepted" /\ f.kind = "started" => Precedes(e, f)
                    /\ e.kind \in {"accepted", "started"} /\ f.kind \in FromAgent => Precedes(e, f)
                    /\ e.kind \in {"accepted", "started"} \cup FromAgent /\ f.kind \in Ends => Precedes(e, f)
                    /\ e.kind \in FromAgent /\ f.kind \in FromAgent /\ e.text[1] < f.text[1] => Precedes(e, f)
  OBVIOUS
<1> QED
  BY Ranks DEF Precedes

(* A log stays in order under an event that comes after all in it.         *)
LEMMA SortedAdds ==
  ASSUME NEW s, NEW r, NEW e, NEW b, Sorted(s, b), Grows(s, r, e),
         \A f \in ToSet(s) : Precedes(f, e) \/ (f.turn = b /\ e.turn = b)
  PROVE  Sorted(r, b)
<1>2. /\ ToSet(r) = ToSet(s) \cup {e} /\ Len(s) \in Nat
      /\ DOMAIN s = 1..Len(s) /\ DOMAIN r = 1..(Len(s) + 1) /\ r[Len(s) + 1] = e
      /\ \A i \in 1..Len(s) : r[i] = s[i]
  BY DEF Grows
<1>3. ASSUME NEW i \in DOMAIN r, NEW j \in DOMAIN r, i < j
      PROVE  Precedes(r[i], r[j]) \/ (r[i].turn = b /\ r[j].turn = b)
  <2>1. i \in 1..Len(s) /\ r[i] = s[i] /\ s[i] \in ToSet(s)
    BY <1>2, <1>3 DEF ToSet
  <2>2. CASE j = Len(s) + 1
    BY <1>2, <2>1, <2>2
  <2>3. CASE j # Len(s) + 1
    <3>1. j \in 1..Len(s) /\ r[j] = s[j]
      BY <1>2, <2>3
    <3> QED
      BY <1>2, <1>3, <2>1, <3>1 DEF Sorted
  <2> QED
    BY <2>2, <2>3
<1> QED
  BY <1>3 DEF Sorted



----------------------------------------------------------------------------
(* Types                                                                   *)

(* Events have their type,                                                 *)
LEMMA EventsTyped ==
  ASSUME NEW t \in Turns, NEW kind \in Kinds, NEW text \in Texts
  PROVE  Event(t, kind, text) \in EventType
BY DEF Event, EventType

(* and so have publications, which are written once.                       *)
LEMMA Records ==
  \A w : w \in [by : {"worker", "update"}, event : EventType, written : BOOLEAN] =>
    /\ w.by \in {"worker", "update"} /\ w.event \in EventType /\ w.written \in BOOLEAN
    /\ [w EXCEPT !.written = TRUE] \in [by : {"worker", "update"}, event : EventType, written : BOOLEAN]
    /\ [w EXCEPT !.written = TRUE].by = w.by /\ [w EXCEPT !.written = TRUE].event = w.event
    /\ [w EXCEPT !.written = TRUE].written
OBVIOUS

(* What the types say of the worker and of the sequences.                  *)
LEMMA Typed ==
  ASSUME TypeOK
  PROVE  /\ stage \in Stages /\ begun \in 0..MaxTurns /\ MaxTurns \in Nat /\ turn \in {NoTurn, begun}
         /\ turn = NoTurn <=> stage \in {"idle", "leaving", "closed"}
         /\ sent \in Seq(EventType) /\ updates \in Seq(EventType)
         /\ trace \in Seq(EventType) /\ shown \in Seq(EventType)
         /\ tail \in Seq(TailType)
         /\ (turn # NoTurn => turn \in Turns) /\ (asked # NoTurn => asked \in Turns)
<1>1. sent \in Seq(EventType) /\ updates \in Seq(EventType) /\ trace \in Seq(EventType) /\ shown \in Seq(EventType)
  BY DEF TypeOK
<1>2. MaxTurns \in Nat
  BY AcpOutputAssumption
<1> QED
  BY <1>1, <1>2 DEF TypeOK, TailType, NoTurn, Turns


(* Elements of a sequence are in its set.                                  *)
LEMMA Elements == \A S : \A s \in Seq(S) : \A e \in ToSet(s) : e \in S
BY DEF ToSet

(* What is known of the turns of events                                    *)
LEMMA Dated ==
  ASSUME OutputInv
  PROVE  /\ begun \in Nat
         /\ \A e \in Logged \cup Moving \cup ToSet(updates) \cup ToSet(sent) :
              e \in EventType /\ e.turn \in Nat /\ e.turn # NoTurn /\ e.turn <= begun
<1>1. /\ \A e \in ToSet(shown) \cup ToSet(trace) \cup ToSet(updates) \cup ToSet(sent) : e \in EventType
      /\ \A i \in DOMAIN tail : tail[i] \in TailType
  BY Typed, Elements DEF OutputInv
<1>2. \A e \in Logged \cup Moving \cup ToSet(updates) \cup ToSet(sent) : e \in EventType
  BY <1>1 DEF OutputInv, TypeOK, TailType, Logged, Moving, InTail, Writing
<1>3. begun \in Nat /\ MaxTurns \in Nat
  BY Typed DEF OutputInv
<1>4. \A e \in EventType : e.turn \in Nat /\ e.turn # NoTurn
  BY <1>3 DEF EventType, Turns, NoTurn
<1>5. \A e \in Logged \cup Moving \cup ToSet(updates) \cup ToSet(sent) : e.turn <= begun
  BY <1>3 DEF OutputInv, Places
<1> QED
  BY <1>2, <1>3, <1>4, <1>5

----------------------------------------------------------------------------
(* Publications                                                            *)

(* A log in order, and without turn b, has no exceptions.                  *)
LEMMA Weaker == \A s, b, c : Sorted(s, b) /\ (\A e \in ToSet(s) : e.turn # b) => Sorted(s, c)
BY DEF Sorted, ToSet

(* The thread has appended an event to the trace.                          *)
LEMMA WrittenKeeps ==
  ASSUME OutputInv, NEW w \in writers, Written(w)
  PROVE  OutputInv'
<1> DEFINE v == [w EXCEPT !.written = TRUE]
<1>1. /\ w.event \in EventType /\ w.by \in {"worker", "update"} /\ ~w.written
      /\ v.by = w.by /\ v.event = w.event /\ v.written
      /\ v \in [by : {"worker", "update"}, event : EventType, written : BOOLEAN]
      /\ writers \subseteq [by : {"worker", "update"}, event : EventType, written : BOOLEAN]
  BY Records DEF Written, OutputInv, TypeOK
<1>2. writers' = (writers \ {w}) \cup {v}
  BY DEF Written
<1> HIDE DEF v
<1>3. trace' \in Seq(EventType) /\ Grows(trace, trace', w.event) /\ ToSet(trace') = ToSet(trace) \cup {w.event}
  <2>1. trace \in Seq(EventType) /\ trace' = Append(trace, w.event)
    BY Typed DEF OutputInv, Written
  <2>2. trace' \in Seq(EventType) /\ Grows(trace, trace', w.event)
    BY <1>1, <2>1, EventAdds
  <2> QED
    BY <2>2 DEF Grows
<1>4. /\ UNCHANGED <<stage, begun, turn, outcome, stopping, chunks, last, buffer, asked, sent, updates, strays,
                    tail, shown, audience, noticed>>
  BY DEF Written, worker, client
<1>5. TypeOK'
  BY <1>1, <1>2, <1>3, <1>4 DEF OutputInv, TypeOK
<1>6. /\ Writing' = Writing /\ InTail' = InTail /\ Moving' = Moving /\ Seen' = Seen
      /\ Logged' = Logged \cup {w.event} /\ w.event \in Moving /\ Clean' = Clean
      /\ w.event.turn = begun
  BY <1>1, <1>2, <1>3, <1>4 DEF Writing, InTail, Moving, Seen, Logged, Clean, OutputInv, Places
<1>7. Places'
  BY <1>4, <1>6 DEF OutputInv, Places, TypeOK
<1>8. Publication'
  BY <1>1, <1>2, <1>4 DEF OutputInv, Publication
<1>9. Standing'
  BY <1>1, <1>2, <1>4 DEF OutputInv, Standing, Clean
<1>10. Order'
  <2> SUFFICES ASSUME Clean PROVE Order'
    BY <1>6 DEF Order
  <2>1. \A u \in writers : u = w
    BY <1>1 DEF OutputInv, Publication, Standing
  <2>2. \A u \in writers' : u = v
    BY <1>2, <2>1
  <2> QED
    BY <1>1, <1>4, <1>6, <2>2 DEF OutputInv, Order, After
<1>11. Logs'
  <2>1. \A f \in ToSet(trace) : Precedes(f, w.event) \/ (f.turn = Trailing /\ w.event.turn = Trailing)
    <3>1. CASE Clean
      BY <1>1, <3>1 DEF OutputInv, Order, After
    <3>2. CASE ~Clean
      BY <1>6, <3>2, ByTurn, Dated DEF Logged, Trailing
    <3> QED
      BY <3>1, <3>2
  <2>2. Trailing' = Trailing
    BY <1>4, <1>6 DEF Trailing
  <2> QED
    BY <1>3, <1>4, <2>1, <2>2, SortedAdds DEF OutputInv, Logs
<1>12. Heard'
  BY <1>4, <1>6 DEF OutputInv, Heard, OfTurn
<1>13. Telling'
  BY <1>4, <1>6 DEF OutputInv, Telling, ShownWhole
<1>14. Wholes'
  BY <1>4, <1>6, SMTT(30) DEF OutputInv, Wholes, IsSaid, Spoken, Messages
<1> QED
  BY <1>5, <1>7, <1>8, <1>9, <1>10, <1>11, <1>12, <1>13, <1>14 DEF OutputInv

(* An event takes its place behind the projections.                        *)
LEMMA Queued ==
  ASSUME OutputInv, NEW w \in writers, writers' = writers \ {w}, Queues(w.event), Clean' = Clean,
         UNCHANGED <<begun, sent, updates, strays, trace, shown, audience>>
  PROVE  /\ w.event \in EventType /\ w.event.turn = begun
         /\ tail' \in Seq(TailType)
         /\ InTail' = InTail \cup {w.event} /\ Moving' = Moving /\ Logged' = Logged
         /\ Writing \subseteq Writing' \cup {w.event} /\ Writing' \subseteq Writing
         /\ Seen \subseteq Seen' /\ (begun \in audience => Seen' = Seen \cup {w.event})
         /\ (Clean => writers' = {})
         /\ Order'
<1> DEFINE p == [event |-> w.event, seen |-> w.event.turn \in audience]
<1>1. w.event \in EventType /\ w.event.turn = begun
  BY Records DEF OutputInv, TypeOK, Places, Moving, Writing
<1>2. p \in TailType /\ p.event = w.event /\ p.seen = (begun \in audience)
  BY <1>1 DEF TailType
<1>3. tail' = Append(tail, p)
  BY DEF Queues
<1> HIDE DEF p
<1>4. tail' \in Seq(TailType) /\ Grows(tail, tail', p)
  BY <1>2, <1>3, TailAdds, Typed DEF OutputInv
<1>5. /\ Len(tail) \in Nat /\ DOMAIN tail = 1..Len(tail) /\ DOMAIN tail' = 1..(Len(tail) + 1)
      /\ tail'[Len(tail) + 1] = p /\ \A i \in 1..Len(tail) : tail'[i] = tail[i]
  BY <1>4 DEF Grows
<1>6. InTail' = InTail \cup {w.event}
  <2>1. InTail' \subseteq InTail \cup {w.event}
    <3>1. ASSUME NEW i \in DOMAIN tail' PROVE tail'[i].event \in InTail \cup {w.event}
      <4>1. i \in DOMAIN tail \/ i = Len(tail) + 1
        BY <1>5
      <4> QED
        BY <1>2, <1>5, <4>1 DEF InTail
    <3> QED
      BY <3>1 DEF InTail
  <2>2. InTail \subseteq InTail'
    BY <1>5 DEF InTail
  <2>3. w.event \in InTail'
    <3>1. Len(tail) + 1 \in DOMAIN tail'
      BY <1>5
    <3> QED
      BY <1>2, <1>5, <3>1 DEF InTail
  <2> QED
    BY <2>1, <2>2, <2>3
<1>7. /\ Writing \subseteq Writing' \cup {w.event} /\ Writing' \subseteq Writing
      /\ Moving' = Moving /\ Logged' = Logged
  BY <1>6 DEF Writing, Moving, Logged
<1>8. Seen \subseteq Seen' /\ (begun \in audience => Seen' = Seen \cup {w.event})
  <2>1. Seen \subseteq Seen'
    BY <1>5 DEF Seen
  <2>2. Seen' \subseteq Seen \cup {w.event}
    <3>1. ASSUME NEW i \in DOMAIN tail', tail'[i].seen PROVE tail'[i].event \in Seen \cup {w.event}
      <4>1. i \in DOMAIN tail \/ i = Len(tail) + 1
        BY <1>5
      <4> QED
        BY <1>2, <1>5, <3>1, <4>1 DEF Seen
    <3> QED
      BY <3>1 DEF Seen
  <2>3. ASSUME begun \in audience PROVE w.event \in Seen'
    <3>1. Len(tail) + 1 \in DOMAIN tail'
      BY <1>5
    <3>2. p.seen
      BY <1>2, <2>3, Zenon
    <3>3. tail'[Len(tail) + 1].seen
      BY <1>5, <3>2
    <3> QED
      BY <1>2, <1>5, <3>1, <3>3 DEF Seen
  <2> QED
    BY <2>1, <2>2, <2>3
<1>9. Clean => writers' = {}
  BY Records DEF OutputInv, TypeOK, Publication, Standing
<1>10. Order'
  <2> SUFFICES ASSUME Clean PROVE Order'
    BY DEF Order
  <2>1. After(ToSet(shown) \cup InTail, w.event)
    BY DEF OutputInv, Order
  <2>2. ASSUME NEW i \in DOMAIN tail', NEW j \in DOMAIN tail', i < j
        PROVE  Precedes(tail'[i].event, tail'[j].event)
    <3>1. i \in DOMAIN tail /\ tail'[i] = tail[i] /\ tail[i].event \in InTail
      BY <1>5, <2>2 DEF InTail
    <3>2. CASE j = Len(tail) + 1
      BY <1>2, <1>5, <2>1, <3>1, <3>2 DEF After
    <3>3. CASE j # Len(tail) + 1
      <4>1. j \in DOMAIN tail /\ tail'[j] = tail[j]
        BY <1>5, <3>3
      <4> QED
        BY <2>2, <3>1, <4>1 DEF OutputInv, Order
    <3> QED
      BY <3>2, <3>3
  <2>3. \A e \in InTail' : After(ToSet(shown'), e)
    BY <1>6, <2>1 DEF OutputInv, Order, After
  <2>4. \A u \in ToSet(updates') : After(Logged' \cup Moving', u)
    BY <1>7 DEF OutputInv, Order
  <2>5. \A i, j \in DOMAIN updates' : i < j => Precedes(updates'[i], updates'[j])
    BY DEF OutputInv, Order
  <2> QED
    BY <1>9, <2>2, <2>3, <2>4, <2>5 DEF Order
<1> QED
  BY <1>1, <1>4, <1>6, <1>7, <1>8, <1>9, <1>10

(* An update is queued.                                                    *)
LEMMA UpdatePublishedKeeps ==
  ASSUME OutputInv, NEW w \in writers, UpdatePublished(w)
  PROVE  OutputInv'
<1>1. UNCHANGED <<stage, begun, turn, outcome, stopping, chunks, last, buffer, asked, sent, updates, strays,
                 trace, shown, audience, noticed>>
  BY DEF UpdatePublished, worker, client
<1>2. writers' = writers \ {w} /\ Queues(w.event) /\ w.by = "update" /\ Clean' = Clean
  BY <1>1 DEF UpdatePublished, Mine, Clean
<1>3. /\ w.event \in EventType /\ w.event.turn = begun /\ tail' \in Seq(TailType)
      /\ InTail' = InTail \cup {w.event} /\ Moving' = Moving /\ Logged' = Logged
      /\ Writing \subseteq Writing' \cup {w.event} /\ Writing' \subseteq Writing
      /\ Seen \subseteq Seen' /\ (begun \in audience => Seen' = Seen \cup {w.event})
      /\ (Clean => writers' = {}) /\ Order'
  BY <1>1, <1>2, Queued
<1>4. TypeOK'
  BY <1>1, <1>2, <1>3 DEF OutputInv, TypeOK, TailType
<1>5. Places'
  BY <1>1, <1>3 DEF OutputInv, Places
<1>6. Publication'
  BY <1>1, <1>2 DEF OutputInv, Publication
<1>7. Standing'
  <2>1. ~(stage \in {"idle", "mirroring"})
    BY <1>2 DEF OutputInv, Standing, Clean, Answers
  <2> QED
    BY <1>1, <1>2, <2>1 DEF OutputInv, Standing, Clean
<1>8. Logs'
  BY <1>1, <1>2 DEF OutputInv, Logs, Trailing
<1>9. Heard'
  BY <1>1, <1>3 DEF OutputInv, Heard, OfTurn
<1>10. Telling'
  BY <1>1, <1>2, <1>3 DEF OutputInv, Telling, ShownWhole
<1>11. Wholes'
  BY <1>1, <1>3 DEF OutputInv, Wholes, IsSaid, Spoken, Messages
<1> QED
  BY <1>3, <1>4, <1>5, <1>6, <1>7, <1>8, <1>9, <1>10, <1>11 DEF OutputInv

(* The thread of a publication that was given up ends.                     *)
LEMMA StrayEndsKeeps ==
  ASSUME OutputInv, NEW e \in strays, StrayEnds(e)
  PROVE  OutputInv'
<1>1. UNCHANGED <<stage, begun, turn, outcome, stopping, chunks, last, buffer, asked, sent, updates, writers,
                 tail, shown, audience, noticed>>
  BY DEF StrayEnds, worker, client
<1>2. strays' = strays \ {e} /\ e \in EventType /\ ~Clean /\ ~Clean' /\ e.turn = begun
  BY <1>1 DEF StrayEnds, OutputInv, TypeOK, Standing, Clean, Places, Moving
<1>3. trace' = trace \/ (trace' \in Seq(EventType) /\ Grows(trace, trace', e))
  <2>1. trace' = trace \/ trace' = Append(trace, e)
    BY DEF StrayEnds
  <2>2. trace \in Seq(EventType)
    BY Typed DEF OutputInv
  <2> QED
    BY <1>2, <2>1, <2>2, EventAdds
<1>4. TypeOK'
  BY <1>1, <1>2, <1>3 DEF OutputInv, TypeOK
<1>5. /\ Writing' = Writing /\ InTail' = InTail /\ Seen' = Seen /\ Moving' \subseteq Moving
      /\ Logged' \subseteq Logged \cup {e} /\ e \in Moving
  BY <1>1, <1>2, <1>3 DEF Writing, InTail, Seen, Moving, Logged, Grows
<1>6. Places'
  BY <1>1, <1>2, <1>5, Dated DEF OutputInv, Places
<1>7. Publication'
  BY <1>1 DEF OutputInv, Publication
<1>8. Standing'
  BY <1>1, <1>2 DEF OutputInv, Standing, Clean
<1>9. Order'
  BY <1>2 DEF Order
<1>10. Logs'
  <2>1. \A f \in ToSet(trace) : Precedes(f, e) \/ (f.turn = begun /\ e.turn = begun)
    BY <1>2, ByTurn, Dated DEF Logged
  <2>2. Trailing = begun /\ Trailing' = begun
    BY <1>1, <1>2 DEF Trailing
  <2> QED
    BY <1>1, <1>3, <2>1, <2>2, SortedAdds DEF OutputInv, Logs
<1>11. Heard'
  BY <1>1, <1>5 DEF OutputInv, Heard, OfTurn
<1>12. Telling'
  BY <1>1, <1>2, <1>5 DEF OutputInv, Telling, ShownWhole
<1>13. Wholes'
  BY <1>1, <1>5 DEF OutputInv, Wholes, IsSaid, Spoken, Messages
<1> QED
  BY <1>4, <1>6, <1>7, <1>8, <1>9, <1>10, <1>11, <1>12, <1>13 DEF OutputInv

(* The projection at the head of the queue ends.                           *)
LEMMA ProjectedKeeps ==
  ASSUME OutputInv, Projected
  PROVE  OutputInv'
<1> DEFINE p == tail[1]
<1>1. UNCHANGED <<stage, begun, turn, outcome, stopping, chunks, last, buffer, asked, sent, updates, writers,
                 strays, trace, audience, noticed>>
  BY DEF Projected, worker, client
<1>2. /\ tail' \in Seq(TailType) /\ Shrinks(tail, tail') /\ p \in TailType
      /\ shown' = IF p.seen THEN Append(shown, p.event) ELSE shown
  <2>1. tail # <<>> /\ tail' = Tail(tail) /\ shown' = IF Head(tail).seen THEN Append(shown, Head(tail).event) ELSE shown
    BY DEF Projected, Shows
  <2>2. tail \in Seq(TailType)
    BY Typed DEF OutputInv
  <2>3. tail' \in Seq(TailType) /\ Shrinks(tail, tail') /\ Head(tail) = p /\ p \in TailType
    BY <2>1, <2>2, TailDrops
  <2> QED
    BY <2>1, <2>3
<1> HIDE DEF p
<1>3. p.event \in EventType /\ Clean' = Clean
  BY <1>1, <1>2 DEF TailType, Clean
<1>4. (shown' = shown /\ ~p.seen) \/ (p.seen /\ shown' \in Seq(EventType) /\ Grows(shown, shown', p.event))
  <2>1. CASE p.seen
    <3>1. shown \in Seq(EventType) /\ shown' = Append(shown, p.event)
      BY <1>2, <2>1, Typed DEF OutputInv
    <3> QED
      BY <1>3, <2>1, <3>1, EventAdds
  <2> QED
    BY <1>2, <2>1
<1>5. /\ Len(tail) \in Nat /\ Len(tail) >= 1 /\ DOMAIN tail = 1..Len(tail)
      /\ DOMAIN tail' = 1..(Len(tail) - 1)
      /\ \A i \in 1..(Len(tail) - 1) : tail'[i] = tail[i + 1]
  BY <1>2 DEF Shrinks
<1>6. \A i \in DOMAIN tail' : i + 1 \in DOMAIN tail /\ tail'[i] = tail[i + 1] /\ 1 < i + 1 /\ 1 \in DOMAIN tail
  BY <1>5
<1>7. InTail = InTail' \cup {p.event} /\ Writing' = Writing /\ Moving' \subseteq Moving /\ p.event \in Moving
  <2>1. ToSet(tail) = ToSet(tail') \cup {p}
    BY <1>2 DEF Shrinks, p
  <2>2. InTail = {q.event : q \in ToSet(tail)} /\ InTail' = {q.event : q \in ToSet(tail')}
    BY DEF InTail, ToSet
  <2>3. InTail = InTail' \cup {p.event}
    BY <2>1, <2>2
  <2> QED
    BY <1>1, <2>3 DEF Moving, Writing
<1>8. Seen' = Seen
  <2>1. ToSet(tail) = ToSet(tail') \cup {p}
    BY <1>2 DEF Shrinks, p
  <2>2. /\ Seen = ToSet(shown) \cup {q.event : q \in {r \in ToSet(tail) : r.seen}}
        /\ Seen' = ToSet(shown') \cup {q.event : q \in {r \in ToSet(tail') : r.seen}}
    BY DEF Seen, ToSet
  <2>3. CASE p.seen
    <3>1. ToSet(shown') = ToSet(shown) \cup {p.event}
      BY <1>4, <2>3 DEF Grows
    <3> QED
      BY <2>1, <2>2, <2>3, <3>1
  <2>4. CASE ~p.seen
    BY <1>4, <2>1, <2>2, <2>4
  <2> QED
    BY <2>3, <2>4
<1>9. ToSet(shown) \subseteq ToSet(shown') /\ ToSet(shown') \subseteq ToSet(shown) \cup {p.event}
      /\ Logged' \subseteq Logged \cup {p.event}
  BY <1>1, <1>4 DEF Logged, Grows
<1>10. p.event.turn = begun /\ p.event \in InTail
  BY <1>7 DEF OutputInv, Places
<1>11. TypeOK'
  BY <1>1, <1>2, <1>4 DEF OutputInv, TypeOK, TailType
<1>12. Places'
  BY <1>1, <1>7, <1>9, <1>10, Dated DEF OutputInv, Places
<1>13. Publication'
  BY <1>1 DEF OutputInv, Publication
<1>14. Standing'
  <2>1. tail # <<>>
    BY DEF Projected
  <2> QED
    BY <1>1, <1>3, <2>1 DEF OutputInv, Standing
<1>15. Order'
  <2> SUFFICES ASSUME Clean PROVE Order'
    BY <1>3 DEF Order
  <2>1. \A i, j \in DOMAIN tail' : i < j => Precedes(tail'[i].event, tail'[j].event)
    <3>1. ASSUME NEW i \in DOMAIN tail', NEW j \in DOMAIN tail', i < j
          PROVE  Precedes(tail'[i].event, tail'[j].event)
      <4>1. i + 1 < j + 1
        BY <1>5, <3>1
      <4> QED
        BY <1>6, <4>1 DEF OutputInv, Order
    <3> QED
      BY <3>1
  <2>2. \A e \in InTail' : Precedes(p.event, e)
    <3>1. ASSUME NEW i \in DOMAIN tail' PROVE Precedes(p.event, tail'[i].event)
      BY <1>6 DEF OutputInv, Order, p
    <3> QED
      BY <3>1 DEF InTail
  <2>3. \A e \in InTail' : After(ToSet(shown'), e)
    BY <1>7, <1>9, <2>2 DEF OutputInv, Order, After
  <2>4. \A w \in writers' : /\ After(ToSet(shown') \cup InTail', w.event)
                            /\ ~w.written => After(ToSet(trace'), w.event)
    BY <1>1, <1>7, <1>9, <1>10 DEF OutputInv, Order, After
  <2>5. \A u \in ToSet(updates') : After(Logged' \cup Moving', u)
    BY <1>1, <1>7, <1>9, <1>10 DEF OutputInv, Order, After
  <2>6. \A i, j \in DOMAIN updates' : i < j => Precedes(updates'[i], updates'[j])
    BY <1>1 DEF OutputInv, Order
  <2> QED
    BY <2>1, <2>3, <2>4, <2>5, <2>6 DEF Order
<1>16. Logs'
  <2>1. \A f \in ToSet(shown) : Precedes(f, p.event) \/ (f.turn = Trailing /\ p.event.turn = Trailing)
    <3>1. CASE Clean
      BY <1>10, <3>1 DEF OutputInv, Order, After
    <3>2. CASE ~Clean
      BY <1>10, <3>2, ByTurn, Dated DEF Logged, Trailing
    <3> QED
      BY <3>1, <3>2
  <2>2. Trailing' = Trailing
    BY <1>1, <1>3 DEF Trailing
  <2> QED
    BY <1>1, <1>4, <2>1, <2>2, SortedAdds DEF OutputInv, Logs
<1>17. Heard'
  BY <1>1, <1>7, <1>9 DEF OutputInv, Heard, OfTurn
<1>18. Telling'
  BY <1>1, <1>3, <1>7, <1>8, <1>9 DEF OutputInv, Telling, ShownWhole
<1>19. Wholes'
  BY <1>1, <1>7, <1>9 DEF OutputInv, Wholes, IsSaid, Spoken, Messages
<1> QED
  BY <1>11, <1>12, <1>13, <1>14, <1>15, <1>16, <1>17, <1>18, <1>19 DEF OutputInv

(* A message is added to what was said,                                    *)
LEMMA Speaks ==
  ASSUME NEW s \in Texts, NEW k \in 1..MaxUpdates
  PROVE  s \o <<k>> \in Texts /\ Grows(s, s \o <<k>>, k)
<1>1. s \o <<k>> = Append(s, k)
  BY DEF Texts
<1>2. Append(s, k) \in Texts /\ Grows(s, Append(s, k), k)
  BY Adds DEF Texts
<1> QED
  BY <1>1, <1>2

(* and stays in order there.                                               *)
LEMMA RisingAdds ==
  ASSUME NEW s, NEW r, NEW k, Rising(s), Grows(s, r, k), \A m \in ToSet(s) : m < k
  PROVE  Rising(r)
<1>1. ASSUME NEW i \in DOMAIN r, NEW j \in DOMAIN r, i < j PROVE r[i] < r[j]
  <2>1. i \in DOMAIN s /\ r[i] = s[i] /\ s[i] \in ToSet(s)
    BY <1>1 DEF Grows, ToSet
  <2>2. CASE j = Len(s) + 1
    BY <2>1, <2>2 DEF Grows
  <2>3. CASE j # Len(s) + 1
    BY <1>1, <2>1, <2>3 DEF Grows, Rising
  <2> QED
    BY <2>2, <2>3
<1> QED
  BY <1>1 DEF Rising

(* What the agent has sent                                                 *)
LEMMA FromTheAgent ==
  ASSUME OutputInv, NEW u \in ToSet(sent)
  PROVE  /\ u \in EventType /\ u.kind \in FromAgent
         /\ \E k \in 1..Len(sent) : u.text = <<k>> /\ k \in 1..MaxUpdates /\ Len(sent) \in Nat /\ sent[k] = u
<1>1. sent \in Seq(EventType)
  BY Typed DEF OutputInv
<1>2. PICK k \in 1..Len(sent) : sent[k] = u /\ k \in DOMAIN sent /\ Len(sent) \in Nat
  BY <1>1 DEF ToSet
<1>3. u \in EventType /\ u.text = <<k>> /\ u.kind \in FromAgent
  BY <1>1, <1>2 DEF OutputInv, Places
<1>4. k \in 1..MaxUpdates
  <2>1. u.text \in Seq(1..MaxUpdates)
    BY <1>3 DEF EventType, Texts
  <2>2. <<k>>[1] \in 1..MaxUpdates
    BY <1>3, <2>1
  <2> QED
    BY <2>2
<1> QED
  BY <1>2, <1>3, <1>4

(* A handler takes an update.                                              *)
LEMMA UpdateHandledKeeps ==
  ASSUME OutputInv, UpdateHandled
  PROVE  OutputInv'
<1> DEFINE u == updates[1]
           heard == stage # "leaving" /\ stage # "closed" /\ turn # NoTurn
           v == [by |-> "update", event |-> u, written |-> FALSE]
<1>1. UNCHANGED <<stage, begun, turn, outcome, stopping, last, asked, sent, strays, trace, tail, shown, audience,
                  noticed>>
  BY DEF UpdateHandled, Handles
<1>2. /\ updates' \in Seq(EventType) /\ Shrinks(updates, updates') /\ Head(updates) = u /\ u \in EventType
      /\ updates # <<>> /\ ToSet(updates) = ToSet(updates') \cup {u}
  <2>1. updates # <<>> /\ updates' = Tail(updates) /\ updates \in Seq(EventType)
    BY Typed DEF UpdateHandled, OutputInv
  <2>2. updates' \in Seq(EventType) /\ Shrinks(updates, updates') /\ Head(updates) = u /\ u \in EventType
    BY <2>1, EventDrops
  <2> QED
    BY <2>1, <2>2 DEF Shrinks
<1>3. u.turn = begun /\ u \in ToSet(sent) /\ Clean' = Clean
  BY <1>1, <1>2 DEF OutputInv, Places, Clean
<1>4. PICK k \in 1..Len(sent) : u.text = <<k>> /\ k \in 1..MaxUpdates /\ Len(sent) \in Nat /\ u.kind \in FromAgent
  BY <1>3, FromTheAgent
<1>5. /\ buffer' = IF u.kind = "message" THEN buffer \o u.text ELSE buffer
      /\ chunks' = IF u.kind = "message" /\ heard THEN chunks \o u.text ELSE chunks
      /\ writers' = IF heard THEN writers \cup {[by |-> "update", event |-> [u EXCEPT !.turn = turn], written |-> FALSE]}
                             ELSE writers
  <2>1. Handles(u) /\ Head(updates) = u
    BY <1>2 DEF UpdateHandled
  <2> HIDE DEF u
  <2> QED
    BY <2>1 DEF Handles, Publishes
<1>6. heard => turn = begun
  BY DEF OutputInv, TypeOK
<1>7. writers' = IF heard THEN writers \cup {v} ELSE writers
  <2>1. ASSUME heard PROVE [u EXCEPT !.turn = turn] = u
    <3>1. u \in EventType /\ turn = u.turn
      BY <1>2, <1>3, <1>6, <2>1
    <3> HIDE DEF u
    <3> QED
      BY <3>1 DEF EventType
  <2> QED
    BY <1>5, <2>1
<1>8. v.by = "update" /\ v.event = u /\ ~v.written /\ v \in [by : {"worker", "update"}, event : EventType, written : BOOLEAN]
  BY <1>2
<1>9. u.text[1] = k
  BY <1>4
<1>10. /\ buffer' \in Texts /\ chunks' \in Texts /\ chunks \in Texts /\ buffer \in Texts
       /\ u.kind = "message" => Grows(buffer, buffer', k)
       /\ u.kind = "message" /\ heard => Grows(chunks, chunks', k)
  <2>1. chunks \in Texts /\ buffer \in Texts
    BY DEF OutputInv, TypeOK
  <2> QED
    BY <1>4, <1>5, <2>1, Speaks
<1> HIDE DEF u, v
<1>11. \A w \in writers : w.by # "update"
  BY DEF UpdateHandled, Mine
<1>12. TypeOK'
  BY <1>1, <1>2, <1>7, <1>8, <1>10 DEF OutputInv, TypeOK
<1>13. /\ InTail' = InTail /\ Logged' = Logged /\ Seen' = Seen
       /\ Writing' = (IF heard THEN Writing \cup {u} ELSE Writing)
       /\ Moving' = (IF heard THEN Moving \cup {u} ELSE Moving)
  BY <1>1, <1>7, <1>8 DEF InTail, Logged, Seen, Writing, Moving
<1>14. Places'
  BY <1>1, <1>2, <1>3, <1>13 DEF OutputInv, Places
<1>15. Publication'
  BY <1>1, <1>4, <1>7, <1>8, <1>11 DEF OutputInv, Publication
<1>16. Clean => ~heard \/ stage = "prompting"
  BY <1>2 DEF OutputInv, Standing
<1>17. ~(stage \in {"mirroring", "opening"})
  BY <1>2 DEF OutputInv, Standing, Clean
<1>18. Standing'
  <2>1. updates = <<>> => FALSE
    BY <1>2
  <2> QED
    BY <1>1, <1>3, <1>7, <1>16, <1>17, <2>1 DEF OutputInv, Standing
<1>19. Order'
  <2> SUFFICES ASSUME Clean PROVE Order'
    BY <1>3 DEF Order
  <2>1. \A i, j \in DOMAIN updates' : i < j => Precedes(updates'[i], updates'[j])
    <3>1. ASSUME NEW i \in DOMAIN updates', NEW j \in DOMAIN updates', i < j
          PROVE  Precedes(updates'[i], updates'[j])
      <4>1. /\ i + 1 < j + 1 /\ i + 1 \in DOMAIN updates /\ j + 1 \in DOMAIN updates
            /\ updates'[i] = updates[i + 1] /\ updates'[j] = updates[j + 1]
        BY <1>2, <3>1 DEF Shrinks
      <4> QED
        BY <4>1 DEF OutputInv, Order
    <3> QED
      BY <3>1
  <2>2. \A f \in ToSet(updates') : Precedes(u, f)
    <3>1. ASSUME NEW i \in DOMAIN updates' PROVE Precedes(u, updates'[i])
      <4>1. /\ 1 < i + 1 /\ 1 \in DOMAIN updates /\ i + 1 \in DOMAIN updates /\ updates'[i] = updates[i + 1]
        BY <1>2, <3>1 DEF Shrinks
      <4> QED
        BY <4>1 DEF OutputInv, Order, u
    <3> QED
      BY <3>1 DEF ToSet
  <2>3. After(Logged \cup Moving, u)
    BY <1>2 DEF OutputInv, Order
  <2>4. \A f \in ToSet(updates') : After(Logged' \cup Moving', f)
    BY <1>2, <1>13, <2>2 DEF OutputInv, Order, After
  <2>5. \A w \in writers' : /\ After(ToSet(shown') \cup InTail', w.event)
                            /\ ~w.written => After(ToSet(trace'), w.event)
    BY <1>1, <1>7, <1>8, <1>13, <2>3 DEF OutputInv, Order, After, Logged, Moving
  <2>6. /\ \A i, j \in DOMAIN tail' : i < j => Precedes(tail'[i].event, tail'[j].event)
        /\ \A e \in InTail' : After(ToSet(shown'), e)
    BY <1>1, <1>13 DEF OutputInv, Order
  <2> QED
    BY <2>1, <2>4, <2>5, <2>6 DEF Order
<1>20. Logs'
  BY <1>1, <1>3 DEF OutputInv, Logs, Trailing
<1>21. Heard'
  BY <1>1, <1>4, <1>13, <1>17 DEF OutputInv, Heard, OfTurn
<1>22. Telling'
  <2>1. stage \in InTurn => heard
    BY DEF OutputInv, TypeOK, InTurn
  <2> QED
    BY <1>1, <1>2, <1>3, <1>13, <2>1 DEF OutputInv, Telling, ShownWhole
<1>23. Wholes'
  <2>1. \A e \in Logged' \cup Moving' : e.kind \in Answers =>
          /\ IsSaid(e.text, e.turn)
          /\ e.turn = begun => asked = NoTurn
          /\ e.turn = begun /\ e.kind = "completed" => last = e.text
    BY <1>4, <1>13 DEF OutputInv, Wholes, Answers, FromAgent
  <2>2. ASSUME stage = "prompting"
        PROVE  /\ buffer' = chunks' /\ Rising(chunks')
               /\ ToSet(chunks') \cup Messages' = Spoken(begun)
               /\ \A m \in ToSet(chunks'), f \in ToSet(updates') : m < f.text[1]
    <3>1. heard
      BY <2>2 DEF OutputInv, TypeOK
    <3>2. buffer' = chunks'
      BY <1>5, <2>2, <3>1 DEF OutputInv, Wholes
    <3>3. CASE u.kind = "message"
      <4>1. Grows(chunks, chunks', k) /\ ToSet(chunks') = ToSet(chunks) \cup {k}
        BY <1>10, <3>1, <3>3 DEF Grows
      <4>2. \A m \in ToSet(chunks) : m < k
        BY <1>2, <1>9, <2>2 DEF OutputInv, Wholes
      <4>3. Rising(chunks')
        BY <2>2, <4>1, <4>2, RisingAdds DEF OutputInv, Wholes
      <4>4. Messages = Messages' \cup {k}
        BY <1>2, <1>9, <3>3 DEF Messages
      <4>5. \A f \in ToSet(updates') : k < f.text[1]
        <5>1. ASSUME NEW f \in ToSet(updates') PROVE k < f.text[1]
          <6>1. Precedes(u, f)
            <7>1. Clean
              BY <2>2 DEF OutputInv, Standing, Clean
            <7>2. PICK i \in DOMAIN updates' : f = updates'[i]
              BY <5>1 DEF ToSet
            <7>3. /\ 1 < i + 1 /\ 1 \in DOMAIN updates /\ i + 1 \in DOMAIN updates /\ updates'[i] = updates[i + 1]
              BY <1>2, <7>2 DEF Shrinks
            <7> QED
              BY <7>1, <7>2, <7>3 DEF OutputInv, Order, u
          <6>2. f \in ToSet(sent) /\ f.turn = begun
            BY <1>2, <5>1 DEF OutputInv, Places
          <6>3. f.kind \in FromAgent /\ Rank(f) = 2 /\ Rank(u) = 2 /\ begun \in Nat
            BY <1>4, <6>2, FromTheAgent, Ranks, Dated
          <6> QED
            BY <1>3, <1>9, <6>1, <6>2, <6>3 DEF Precedes
        <5> QED
          BY <5>1
      <4> QED
        BY <1>2, <2>2, <3>2, <4>1, <4>3, <4>4, <4>5 DEF OutputInv, Wholes
    <3>4. CASE u.kind # "message"
      <4>1. Messages' = Messages /\ chunks' = chunks
        BY <1>2, <1>5, <3>4 DEF Messages
      <4> QED
        BY <1>2, <2>2, <3>2, <4>1 DEF OutputInv, Wholes
    <3> QED
      BY <3>3, <3>4
  <2>3. (\A text, t : IsSaid(text, t)' <=> IsSaid(text, t)) /\ (\A t : Spoken(t)' = Spoken(t))
    BY <1>1 DEF IsSaid, Spoken
  <2> QED
    BY <1>1, <2>1, <2>2, <2>3 DEF Wholes, IsSaid, Spoken
<1> QED
  BY <1>12, <1>14, <1>15, <1>18, <1>19, <1>20, <1>21, <1>22, <1>23 DEF OutputInv

----------------------------------------------------------------------------
(* The end of a turn                                                       *)

(* The worker starts a publication.                                        *)
LEMMA Starting ==
  ASSUME NEW e \in EventType, Publishes("worker", e)
  PROVE  \E v \in [by : {"worker", "update"}, event : EventType, written : BOOLEAN] :
           v.by = "worker" /\ v.event = e /\ ~v.written /\ writers' = writers \cup {v}
<1> DEFINE v == [by |-> "worker", event |-> e, written |-> FALSE]
<1>1. v \in [by : {"worker", "update"}, event : EventType, written : BOOLEAN]
  OBVIOUS
<1>2. v.by = "worker" /\ v.event = e /\ ~v.written /\ writers' = writers \cup {v}
  BY DEF Publishes
<1> QED
  BY <1>1, <1>2

(* The parts of an event.                                                  *)
LEMMA Fields == \A t, kind, text : Event(t, kind, text).turn = t /\ Event(t, kind, text).kind = kind
                                   /\ Event(t, kind, text).text = text
BY DEF Event

(* The agent has answered: Finished has all it has said.                   *)
LEMMA PromptReturnsKeeps ==
  ASSUME OutputInv, PromptReturns
  PROVE  OutputInv'
<1> DEFINE e == Event(turn, outcome, chunks)
<1>1. /\ UNCHANGED <<begun, turn, outcome, stopping, chunks, buffer, asked, sent, updates, strays, trace, tail,
                     shown, audience, noticed>>
      /\ stage = "prompting" /\ stage' = "finishing" /\ outcome \in Answers /\ asked = NoTurn
      /\ updates = <<>> /\ \A w \in writers : w.by # "update"
      /\ last' = IF outcome = "completed" THEN buffer ELSE last
  BY DEF PromptReturns, Ending, Mine
<1>2. turn = begun /\ begun \in Turns /\ Clean /\ Clean'
  BY <1>1, Typed DEF OutputInv, Standing, Clean, Answers
<1>3. writers = {}
  BY <1>1, Records DEF OutputInv, TypeOK, Publication
<1>4. /\ e \in EventType /\ e.turn = begun /\ e.kind = outcome /\ e.text = chunks
      /\ outcome \in Kinds /\ e.kind \in Ends /\ e.kind \notin FromAgent
  <2>1. chunks \in Texts /\ outcome \in Kinds /\ outcome \in Ends /\ outcome \notin FromAgent
    BY <1>1 DEF OutputInv, TypeOK, Kinds, Ends, Answers, FromAgent
  <2> QED
    BY <1>2, <2>1, EventsTyped, Fields
<1>5. Publishes("worker", e)
  BY DEF PromptReturns, Ending, Finished
<1> HIDE DEF e
<1>6. PICK v \in [by : {"worker", "update"}, event : EventType, written : BOOLEAN] :
        v.by = "worker" /\ v.event = e /\ ~v.written /\ writers' = {v}
  BY <1>3, <1>4, <1>5, Starting
<1>7. /\ InTail' = InTail /\ Logged' = Logged /\ Seen' = Seen /\ Writing = {} /\ Writing' = {e}
      /\ Moving' = Moving \cup {e}
  BY <1>1, <1>3, <1>6 DEF InTail, Logged, Seen, Writing, Moving
<1>8. TypeOK'
  BY <1>1, <1>2, <1>6 DEF OutputInv, TypeOK, Stages
<1>9. Places'
  BY <1>1, <1>4, <1>7 DEF OutputInv, Places
<1>10. Publication'
  BY <1>1, <1>4, <1>6 DEF OutputInv, Publication
<1>11. Standing'
  BY <1>1, <1>2, <1>6 DEF OutputInv, Standing, Clean, Answers
<1>12. ToSet(updates) = {}
  BY <1>1, Nothing
<1>13. \A f \in Logged \cup Moving : Precedes(f, e)
  <2>1. ASSUME NEW f \in Logged \cup Moving PROVE Precedes(f, e)
    <3>1. CASE f.turn = begun
      BY <1>1, <1>4, <3>1, ByRank DEF OutputInv, Heard, OfTurn
    <3>2. CASE f.turn # begun
      BY <1>4, <3>2, ByTurn, Dated
    <3> QED
      BY <3>1, <3>2
  <2> QED
    BY <2>1
<1>14. Order'
  BY <1>1, <1>2, <1>6, <1>7, <1>12, <1>13 DEF OutputInv, Order, After, Logged, Moving
<1>15. Logs'
  BY <1>1, <1>2 DEF OutputInv, Logs, Trailing
<1>16. Heard'
  BY <1>1 DEF Heard
<1>17. Telling'
  BY <1>1, <1>2, <1>7 DEF OutputInv, Telling, ShownWhole, InTurn
<1>18. Wholes'
  <2>1. \A f \in Logged \cup Moving : f.turn = begun => f.kind \notin Answers
    BY <1>1 DEF OutputInv, Heard, OfTurn, Answers, FromAgent
  <2>2. ToSet(chunks) = Spoken(begun) /\ Rising(chunks) /\ buffer = chunks
    BY <1>1, <1>12 DEF OutputInv, Wholes, Messages
  <2>3. (\A text, t : IsSaid(text, t)' <=> IsSaid(text, t))
    BY <1>1 DEF IsSaid, Spoken
  <2> QED
    BY <1>1, <1>4, <1>7, <2>1, <2>2, <2>3 DEF OutputInv, Wholes, IsSaid
<1> QED
  BY <1>8, <1>9, <1>10, <1>11, <1>14, <1>15, <1>16, <1>17, <1>18 DEF OutputInv

(* The prompt fails: the turn is not clean any more.                       *)
LEMMA PromptFailsKeeps ==
  ASSUME OutputInv, PromptFails
  PROVE  OutputInv'
<1> DEFINE e == Event(turn, "failed", chunks)
<1>1. /\ UNCHANGED <<begun, turn, stopping, chunks, last, buffer, sent, updates, strays, trace, tail,
                     shown, audience, noticed>>
      /\ stage = "prompting" /\ stage' = "finishing" /\ outcome' = "failed" /\ asked' = NoTurn
  BY DEF PromptFails, Ending
<1>2. turn = begun /\ begun \in Turns /\ Clean /\ ~Clean'
  BY <1>1, Typed DEF OutputInv, Standing, Clean, Answers
<1>3. \A w \in writers : w.by = "update"
  BY <1>1, Records DEF OutputInv, TypeOK, Publication
<1>4. /\ e \in EventType /\ e.turn = begun /\ e.kind = "failed" /\ e.text = chunks
      /\ "failed" \in Ends /\ e.kind \notin FromAgent /\ e.kind \notin Answers
  <2>1. chunks \in Texts /\ "failed" \in Kinds /\ "failed" \in Ends /\ "failed" \notin FromAgent
        /\ "failed" \notin Answers
    BY <1>1 DEF OutputInv, TypeOK, Kinds, Ends, Answers, FromAgent
  <2> QED
    BY <1>2, <2>1, EventsTyped, Fields
<1>5. Publishes("worker", e)
  BY DEF PromptFails, Ending, Finished
<1> HIDE DEF e
<1>6. PICK v \in [by : {"worker", "update"}, event : EventType, written : BOOLEAN] :
        v.by = "worker" /\ v.event = e /\ ~v.written /\ writers' = writers \cup {v}
  BY <1>4, <1>5, Starting
<1>7. /\ InTail' = InTail /\ Logged' = Logged /\ Seen' = Seen
      /\ Moving' = Moving \cup {e}
  BY <1>1, <1>6 DEF InTail, Logged, Seen, Writing, Moving
<1>8. TypeOK'
  BY <1>1, <1>2, <1>4, <1>6 DEF OutputInv, TypeOK, Stages
<1>9. Places'
  BY <1>1, <1>4, <1>7 DEF OutputInv, Places
<1>10. Publication'
  BY <1>1, <1>3, <1>4, <1>6 DEF OutputInv, Publication
<1>11. Standing'
  BY <1>1, <1>2 DEF OutputInv, Standing, Clean, Answers
<1>12. Order'
  BY <1>2 DEF Order
<1>13. Logs'
  <2>1. (\A f \in ToSet(shown) \cup ToSet(trace) : f.turn # NoTurn) /\ Trailing = NoTurn
    BY <1>2, Dated DEF Logged, Trailing
  <2> QED
    BY <1>1, <1>2, <2>1, Weaker DEF OutputInv, Logs
<1>14. Heard'
  BY <1>1 DEF Heard
<1>15. Telling'
  BY <1>1, <1>2 DEF OutputInv, Telling, ShownWhole
<1>16. Wholes'
  BY <1>1, <1>4, <1>7 DEF OutputInv, Wholes, IsSaid, Spoken
<1> QED
  BY <1>8, <1>9, <1>10, <1>11, <1>12, <1>13, <1>14, <1>15, <1>16 DEF OutputInv

(* Finished is queued.                                                     *)
LEMMA FinishPublishedKeeps ==
  ASSUME OutputInv, NEW w \in writers, FinishPublished(w)
  PROVE  OutputInv'
<1>1. /\ UNCHANGED <<begun, turn, outcome, stopping, chunks, last, buffer, asked, sent, updates, strays,
                     trace, shown, audience, noticed>>
      /\ stage = "finishing" /\ stage' = IF w.event.kind = "completed" THEN "announcing" ELSE "flushing"
  BY DEF FinishPublished, client
<1>2. writers' = writers \ {w} /\ Queues(w.event) /\ w.by = "worker" /\ Clean' = Clean
  BY <1>1 DEF FinishPublished, Mine, Clean
<1>3. /\ w.event \in EventType /\ w.event.turn = begun /\ tail' \in Seq(TailType)
      /\ InTail' = InTail \cup {w.event} /\ Moving' = Moving /\ Logged' = Logged
      /\ Writing \subseteq Writing' \cup {w.event} /\ Writing' \subseteq Writing
      /\ Seen \subseteq Seen' /\ (begun \in audience => Seen' = Seen \cup {w.event})
      /\ (Clean => writers' = {}) /\ Order'
  BY <1>1, <1>2, Queued
<1>4. w.event.kind = outcome /\ stage' \in {"announcing", "flushing"} /\ (stage' = "announcing" <=> outcome = "completed")
  BY <1>1, <1>2 DEF OutputInv, Publication
<1>5. TypeOK'
  BY <1>1, <1>2, <1>3, <1>4 DEF OutputInv, TypeOK, TailType, Stages
<1>6. Places'
  BY <1>1, <1>3 DEF OutputInv, Places
<1>7. Publication'
  BY <1>1, <1>2, <1>4, Records DEF OutputInv, Publication, TypeOK
<1>8. Standing'
  <2>1. (stopping => stage' = "flushing")
    BY <1>1, <1>4 DEF OutputInv, Standing, Answers
  <2> QED
    BY <1>1, <1>2, <1>4, <2>1 DEF OutputInv, Standing, Clean
<1>9. Logs'
  BY <1>1, <1>2 DEF OutputInv, Logs, Trailing
<1>10. Heard'
  BY <1>4 DEF Heard
<1>11. Telling'
  BY <1>1, <1>2, <1>3, <1>4 DEF OutputInv, Telling, ShownWhole, InTurn
<1>12. Wholes'
  BY <1>1, <1>3, <1>4 DEF OutputInv, Wholes, IsSaid, Spoken
<1> QED
  BY <1>3, <1>5, <1>6, <1>7, <1>8, <1>9, <1>10, <1>11, <1>12 DEF OutputInv

(* The announcement waits until Finished is shown,                         *)
LEMMA AnnouncedKeeps ==
  ASSUME OutputInv, Announced
  PROVE  OutputInv'
<1>1. /\ UNCHANGED <<begun, turn, outcome, stopping, chunks, last, buffer, asked, sent, updates, writers, strays,
                     trace, tail, shown, audience>>
      /\ stage = "announcing" /\ stage' = "flushing" /\ tail = <<>> /\ noticed' = noticed \cup {turn}
  BY DEF Announced, client, events
<1>2. turn = begun /\ begun \in Turns /\ Clean /\ Clean' /\ outcome = "completed"
  BY <1>1, Typed DEF OutputInv, Standing, Clean
<1>3. InTail' = InTail /\ Logged' = Logged /\ Seen' = Seen /\ Writing' = Writing /\ Moving' = Moving
  BY <1>1 DEF InTail, Logged, Seen, Writing, Moving
<1>4. Seen = ToSet(shown)
  BY <1>1, Nothing DEF Seen
<1>5. TypeOK'
  BY <1>1, <1>2 DEF OutputInv, TypeOK, Stages
<1>6. Places'
  BY <1>1, <1>3 DEF OutputInv, Places
<1>7. Publication'
  BY <1>1 DEF OutputInv, Publication
<1>8. Standing'
  BY <1>1, <1>2 DEF OutputInv, Standing, Clean
<1>9. Order'
  BY <1>1, <1>2, <1>3 DEF OutputInv, Order
<1>10. Logs'
  BY <1>1, <1>2 DEF OutputInv, Logs, Trailing
<1>11. Heard'
  BY <1>1 DEF Heard
<1>12. Telling'
  BY <1>1, <1>2, <1>3, <1>4 DEF OutputInv, Telling, ShownWhole, InTurn
<1>13. Wholes'
  BY <1>1, <1>3 DEF OutputInv, Wholes, IsSaid, Spoken
<1> QED
  BY <1>5, <1>6, <1>7, <1>8, <1>9, <1>10, <1>11, <1>12, <1>13 DEF OutputInv

(* and the reset of the turn until all of it is.                           *)
LEMMA FlushedKeeps ==
  ASSUME OutputInv, Flushed
  PROVE  OutputInv'
<1>1. /\ UNCHANGED <<begun, outcome, stopping, last, buffer, asked, sent, updates, writers, strays,
                     trace, tail, shown, noticed>>
      /\ stage = "flushing" /\ tail = <<>> /\ audience' = audience \ {turn}
      /\ turn' = NoTurn /\ chunks' = <<>>
      /\ stage' = IF stopping \/ outcome \notin Answers THEN "leaving" ELSE "idle"
  BY DEF Flushed, ResetTurn, client, events
<1>2. turn = begun /\ begun \in Turns /\ Clean' = Clean /\ stage' \in {"leaving", "idle"}
      /\ (stage' = "idle" => Clean /\ outcome \in Answers) /\ (Clean => stage' = "idle")
  BY <1>1, Typed DEF OutputInv, Standing, Clean, Answers
<1>3. InTail' = InTail /\ Logged' = Logged /\ Seen' = Seen /\ Writing' = Writing /\ Moving' = Moving
  BY <1>1 DEF InTail, Logged, Seen, Writing, Moving
<1>4. Seen = ToSet(shown)
  BY <1>1, Nothing DEF Seen
<1>5. Clean => Writing = {} /\ ToSet(updates) = {}
  <2>1. ASSUME Clean PROVE updates = <<>> /\ writers = {}
    BY <1>1, <2>1, Records DEF OutputInv, TypeOK, Publication, Standing
  <2> QED
    BY <2>1, Nothing DEF Writing
<1>6. TypeOK'
  BY <1>1, <1>2, Nothing DEF OutputInv, TypeOK, Stages, Texts
<1>7. Places'
  BY <1>1, <1>3 DEF OutputInv, Places
<1>8. Publication'
  BY <1>1, <1>2 DEF OutputInv, Publication
<1>9. Standing'
  BY <1>1, <1>2 DEF OutputInv, Standing, Clean
<1>10. Order'
  BY <1>1, <1>2, <1>3 DEF OutputInv, Order
<1>11. Logs'
  BY <1>1, <1>2 DEF OutputInv, Logs, Trailing
<1>12. Heard'
  BY <1>2 DEF Heard
<1>13. Telling'
  <2>1. stage' = "idle" => ShownWhole(begun)
    BY <1>1, <1>2, <1>4, <1>5 DEF OutputInv, Telling, ShownWhole, InTurn
  <2> QED
    BY <1>1, <1>2, <1>3, <2>1 DEF OutputInv, Telling, ShownWhole, InTurn
<1>14. Wholes'
  BY <1>1, <1>2, <1>3 DEF OutputInv, Wholes, IsSaid, Spoken
<1> QED
  BY <1>6, <1>7, <1>8, <1>9, <1>10, <1>11, <1>12, <1>13, <1>14 DEF OutputInv

(* A worker without a turn ends,                                           *)
LEMMA RetiresKeeps ==
  ASSUME OutputInv, Retires
  PROVE  OutputInv'
<1>1. /\ UNCHANGED <<begun, turn, outcome, stopping, chunks, last, buffer, asked, sent, updates, writers, strays,
                     trace, tail, shown, audience, noticed>>
      /\ stage = "idle" /\ stage' = "leaving"
  BY DEF Retires, client, events
<1>2. InTail' = InTail /\ Logged' = Logged /\ Seen' = Seen /\ Writing' = Writing /\ Moving' = Moving /\ Clean' = Clean
  BY <1>1 DEF InTail, Logged, Seen, Writing, Moving, Clean
<1>3. TypeOK'
  BY <1>1 DEF OutputInv, TypeOK, Stages
<1>4. Places' /\ Publication' /\ Standing' /\ Order' /\ Logs' /\ Heard'
  BY <1>1, <1>2 DEF OutputInv, Places, Publication, Standing, Order, Logs, Trailing, Heard
<1>5. Telling' /\ Wholes'
  BY <1>1, <1>2 DEF OutputInv, Telling, ShownWhole, InTurn, Wholes, IsSaid, Spoken
<1> QED
  BY <1>3, <1>4, <1>5 DEF OutputInv

(* and its Session is closed.                                              *)
LEMMA ClosesKeeps ==
  ASSUME OutputInv, Closes
  PROVE  OutputInv'
<1>1. /\ UNCHANGED <<begun, turn, outcome, stopping, chunks, last, buffer, sent, updates, writers, strays,
                     trace, tail, shown, noticed>>
      /\ stage = "leaving" /\ stage' = "closed" /\ audience' = {} /\ asked' = NoTurn
  BY DEF Closes, events
<1>2. InTail' = InTail /\ Logged' = Logged /\ Seen' = Seen /\ Writing' = Writing /\ Moving' = Moving /\ Clean' = Clean
  BY <1>1 DEF InTail, Logged, Seen, Writing, Moving, Clean
<1>3. TypeOK'
  BY <1>1 DEF OutputInv, TypeOK, Stages
<1>4. Places' /\ Publication' /\ Standing' /\ Order' /\ Logs' /\ Heard'
  BY <1>1, <1>2 DEF OutputInv, Places, Publication, Standing, Order, Logs, Trailing, Heard
<1>5. Telling' /\ Wholes'
  BY <1>1, <1>2 DEF OutputInv, Telling, ShownWhole, InTurn, Wholes, IsSaid, Spoken
<1> QED
  BY <1>3, <1>4, <1>5 DEF OutputInv

----------------------------------------------------------------------------
(* The agent                                                               *)

(* The agent answers the prompt,                                           *)
LEMMA AgentAnswersKeeps ==
  ASSUME OutputInv, NEW end \in Answers, AgentAnswers(end)
  PROVE  OutputInv'
<1>1. /\ UNCHANGED <<stage, begun, turn, stopping, chunks, last, buffer, sent, updates, writers, strays,
                     trace, tail, shown, audience, noticed>>
      /\ asked # NoTurn /\ asked' = NoTurn
      /\ outcome' = IF stage = "prompting" THEN end ELSE outcome
  BY DEF AgentAnswers, events
<1>2. InTail' = InTail /\ Logged' = Logged /\ Seen' = Seen /\ Writing' = Writing /\ Moving' = Moving
  BY <1>1 DEF InTail, Logged, Seen, Writing, Moving
<1>3. Clean' = Clean
  BY <1>1 DEF OutputInv, Standing, Clean, Answers
<1>4. TypeOK'
  BY <1>1 DEF OutputInv, TypeOK, Ends
<1>5. Places' /\ Order' /\ Logs' /\ Heard'
  BY <1>1, <1>2, <1>3 DEF OutputInv, Places, Order, Logs, Trailing, Heard, OfTurn
<1>6. Publication'
  BY <1>1 DEF OutputInv, Publication
<1>7. Standing'
  BY <1>1, <1>3 DEF OutputInv, Standing, Answers
<1>8. Telling'
  BY <1>1, <1>2, <1>3 DEF OutputInv, Telling, ShownWhole, InTurn
<1>9. Wholes'
  BY <1>1, <1>2 DEF OutputInv, Wholes, IsSaid, Spoken, Messages
<1> QED
  BY <1>4, <1>5, <1>6, <1>7, <1>8, <1>9 DEF OutputInv

(* or sends an update, which comes after all others.                       *)
LEMMA AgentSendsKeeps ==
  ASSUME OutputInv, NEW kind \in FromAgent, AgentSends(kind)
  PROVE  OutputInv'
<1> DEFINE n == Len(sent) + 1
           u == Event(asked, kind, <<n>>)
<1>1. /\ UNCHANGED <<stage, begun, turn, outcome, stopping, chunks, last, buffer, asked, writers, strays,
                     trace, tail, shown, audience, noticed>>
      /\ asked # NoTurn /\ Len(sent) < MaxUpdates
      /\ sent' = Append(sent, u) /\ updates' = Append(updates, u)
  BY DEF AgentSends, worker, events
<1>2. /\ asked = begun /\ begun \in Turns /\ begun \in Nat /\ sent \in Seq(EventType) /\ updates \in Seq(EventType)
      /\ MaxUpdates \in Nat
  BY <1>1, Typed, Dated, AcpOutputAssumption DEF OutputInv, TypeOK
<1>3. n \in 1..MaxUpdates /\ n \in Nat /\ Len(sent) \in Nat /\ Len(sent) < n
  BY <1>1, <1>2
<1>4. <<n>> \in Texts /\ <<n>>[1] = n
  BY <1>3 DEF Texts
<1> HIDE DEF n
<1>5. u \in EventType /\ u.turn = begun /\ u.kind = kind /\ u.text = <<n>> /\ u.text[1] = n
  <2>1. kind \in Kinds
    BY DEF Kinds
  <2>2. u \in EventType
    BY <1>1, <1>2, <1>4, <2>1, EventsTyped
  <2>3. u.turn = asked /\ u.kind = kind /\ u.text = <<n>>
    BY Fields
  <2> HIDE DEF u
  <2> QED
    BY <1>2, <1>4, <2>2, <2>3
<1> HIDE DEF u
<1>6. /\ sent' \in Seq(EventType) /\ Grows(sent, sent', u) /\ updates' \in Seq(EventType) /\ Grows(updates, updates', u)
  BY <1>1, <1>2, <1>5, EventAdds
<1>7. ToSet(sent') = ToSet(sent) \cup {u} /\ ToSet(updates') = ToSet(updates) \cup {u}
  BY <1>6 DEF Grows
<1>8. InTail' = InTail /\ Logged' = Logged /\ Seen' = Seen /\ Writing' = Writing /\ Moving' = Moving /\ Clean' = Clean
  BY <1>1 DEF InTail, Logged, Seen, Writing, Moving, Clean
<1>9. stage = "prompting" \/ (stopping /\ stage \notin {"idle", "mirroring", "opening"})
  BY <1>1 DEF OutputInv, Standing
<1>10. \A f \in ToSet(sent) : f.text[1] < n /\ f.text[1] \in Nat
  <2>1. ASSUME NEW f \in ToSet(sent) PROVE f.text[1] < n /\ f.text[1] \in Nat
    <3>1. PICK k \in 1..Len(sent) : f.text = <<k>>
      BY FromTheAgent
    <3> QED
      BY <1>3, <3>1
  <2> QED
    BY <2>1
<1>11. TypeOK'
  BY <1>1, <1>6 DEF OutputInv, TypeOK
<1>12. Places'
  <2>1. \A k \in DOMAIN sent' : sent'[k].text = <<k>> /\ sent'[k].kind \in FromAgent
    <3>1. ASSUME NEW k \in DOMAIN sent' PROVE sent'[k].text = <<k>> /\ sent'[k].kind \in FromAgent
      <4>1. CASE k = n
        BY <1>5, <1>6, <4>1 DEF Grows, n
      <4>2. CASE k # n
        BY <1>6, <3>1, <4>2 DEF Grows, n, OutputInv, Places
      <4> QED
        BY <4>1, <4>2
    <3> QED
      BY <3>1
  <2>2. u.turn <= begun
    BY <1>2, <1>5
  <2> QED
    BY <1>1, <1>5, <1>7, <1>8, <2>1, <2>2 DEF OutputInv, Places
<1>13. Publication'
  BY <1>1 DEF OutputInv, Publication
<1>14. Standing'
  BY <1>1, <1>8, <1>9 DEF OutputInv, Standing, Clean
<1>15. Order'
  <2> SUFFICES ASSUME Clean PROVE Order'
    BY <1>8 DEF Order
  <2>1. stage = "prompting"
    BY <1>9 DEF Clean
  <2>2. \A f \in Logged \cup Moving \cup ToSet(updates) : Precedes(f, u)
    <3>1. ASSUME NEW f \in Logged \cup Moving \cup ToSet(updates) PROVE Precedes(f, u)
      <4>1. CASE f.turn # begun
        BY <1>5, <4>1, ByTurn, Dated
      <4>2. CASE f.turn = begun /\ f.kind \in {"accepted", "started"}
        BY <1>5, <4>2, ByRank
      <4>3. CASE f.turn = begun /\ f \in ToSet(sent)
        <5>1. f.kind \in FromAgent
          BY <4>3, FromTheAgent
        <5> QED
          BY <1>5, <1>10, <4>3, <5>1, ByRank
      <4>4. f.turn = begun => f.kind \in {"accepted", "started"} \/ f \in ToSet(sent)
        BY <2>1 DEF OutputInv, Heard, OfTurn, Places
      <4> QED
        BY <4>1, <4>2, <4>3, <4>4
    <3> QED
      BY <3>1
  <2>3. \A f \in ToSet(updates') : After(Logged' \cup Moving', f)
    BY <1>7, <1>8, <2>2 DEF OutputInv, Order, After
  <2>4. \A i, j \in DOMAIN updates' : i < j => Precedes(updates'[i], updates'[j])
    <3>1. ASSUME NEW i \in DOMAIN updates', NEW j \in DOMAIN updates', i < j
          PROVE  Precedes(updates'[i], updates'[j])
      <4>1. i \in DOMAIN updates /\ updates'[i] = updates[i] /\ updates[i] \in ToSet(updates)
        BY <1>6, <3>1 DEF Grows, ToSet
      <4>2. CASE j = Len(updates) + 1
        BY <1>6, <2>2, <4>1, <4>2 DEF Grows
      <4>3. CASE j # Len(updates) + 1
        <5>1. j \in DOMAIN updates /\ updates'[j] = updates[j]
          BY <1>6, <3>1, <4>3 DEF Grows
        <5> QED
          BY <3>1, <4>1, <5>1 DEF OutputInv, Order
      <4> QED
        BY <4>2, <4>3
    <3> QED
      BY <3>1
  <2>5. /\ \A i, j \in DOMAIN tail' : i < j => Precedes(tail'[i].event, tail'[j].event)
        /\ \A e \in InTail' : After(ToSet(shown'), e)
        /\ \A w \in writers' : /\ After(ToSet(shown') \cup InTail', w.event)
                               /\ ~w.written => After(ToSet(trace'), w.event)
    BY <1>1, <1>8 DEF OutputInv, Order
  <2> QED
    BY <2>3, <2>4, <2>5 DEF Order
<1>16. Logs'
  BY <1>1, <1>8 DEF OutputInv, Logs, Trailing
<1>17. Heard'
  BY <1>1, <1>8 DEF OutputInv, Heard, OfTurn
<1>18. Telling'
  <2>1. \A t : t # begun => (ShownWhole(t) => ShownWhole(t)')
    BY <1>1, <1>5, <1>7 DEF ShownWhole
  <2>2. \A t \in Turns : t < begun => t # begun
    BY <1>2 DEF Turns
  <2>3. \A t \in Turns : t < begun \/ (t = begun /\ stage = "idle") => ShownWhole(t)'
    BY <1>9, <2>1, <2>2 DEF OutputInv, Telling
  <2> QED
    BY <1>1, <1>7, <1>8, <2>3 DEF OutputInv, Telling
<1>19. Wholes'
  <2>1. \A t : t # begun => Spoken(t)' = Spoken(t)
    BY <1>5, <1>7 DEF Spoken
  <2>2. \A e \in Logged' \cup Moving' : e.kind \in Answers =>
          /\ IsSaid(e.text, e.turn)'
          /\ e.turn = begun => asked = NoTurn
          /\ e.turn = begun /\ e.kind = "completed" => last = e.text
    BY <1>1, <1>8, <2>1 DEF OutputInv, Wholes, IsSaid
  <2>3. ASSUME stage = "prompting"
        PROVE  /\ ToSet(chunks) \cup Messages' = Spoken(begun)'
               /\ \A k \in ToSet(chunks), f \in ToSet(updates') : k < f.text[1]
    <3>1. ToSet(chunks) \cup Messages = Spoken(begun) /\ \A k \in ToSet(chunks), f \in ToSet(updates) : k < f.text[1]
      BY <2>3 DEF OutputInv, Wholes
    <3>2. \A k \in ToSet(chunks) : k < n
      BY <1>10, <3>1 DEF Spoken
    <3>3. \A k \in ToSet(chunks), f \in ToSet(updates') : k < f.text[1]
      BY <1>5, <1>7, <3>1, <3>2
    <3>4. CASE kind = "message"
      <4>1. Spoken(begun)' = Spoken(begun) \cup {n} /\ Messages' = Messages \cup {n}
        BY <1>1, <1>5, <1>7, <3>4 DEF Spoken, Messages
      <4> QED
        BY <3>1, <3>3, <4>1
    <3>5. CASE kind # "message"
      <4>1. Spoken(begun)' = Spoken(begun) /\ Messages' = Messages
        BY <1>1, <1>5, <1>7, <3>5 DEF Spoken, Messages
      <4> QED
        BY <3>1, <3>3, <4>1
    <3> QED
      BY <3>4, <3>5
  <2> QED
    BY <1>1, <2>2, <2>3 DEF OutputInv, Wholes
<1> QED
  BY <1>11, <1>12, <1>13, <1>14, <1>15, <1>16, <1>17, <1>18, <1>19 DEF OutputInv

----------------------------------------------------------------------------
(* The beginning of a turn                                                 *)

(* Before its prompt, a turn has seen nothing of the agent.                *)
LEMMA Untouched ==
  ASSUME OutputInv, stage \in {"idle", "mirroring", "opening"}
  PROVE  /\ Clean /\ ~stopping /\ strays = {} /\ updates = <<>> /\ ToSet(updates) = {} /\ asked = NoTurn
         /\ (stage # "opening" => tail = <<>>) /\ \A w \in writers : w.by = "worker"
         /\ \A v, w \in writers : v = w
         /\ (stage = "idle" => writers = {})
<1>1. Clean /\ ~stopping /\ strays = {} /\ updates = <<>> /\ asked = NoTurn /\ (stage # "opening" => tail = <<>>)
      /\ \A w \in writers : w.by = "worker"
  BY DEF OutputInv, Standing, Clean, Answers
<1> QED
  BY <1>1, Nothing DEF OutputInv, Publication

(* A turn begins,                                                          *)
LEMMA BeginTurnKeeps ==
  ASSUME OutputInv, BeginTurn
  PROVE  OutputInv'
<1> DEFINE t == begun + 1
<1>1. /\ UNCHANGED <<stopping, last, buffer, asked, sent, updates, strays, trace, tail, shown, noticed>>
      /\ stage = "idle" /\ t \in Turns /\ begun' = t /\ turn' = t /\ outcome' = "none" /\ chunks' = <<>>
      /\ stage' \in {"mirroring", "opening"} /\ audience \subseteq audience'
      /\ (stage' = "opening" => audience' = audience \cup {t}) /\ (stage' = "mirroring" => audience' = audience)
  BY DEF BeginTurn, Opens, client
<1>2. PICK kind \in {"accepted", "started"} :
        Publishes("worker", Event(t, kind, <<>>)) /\ (stage' = "mirroring" <=> kind = "accepted")
  BY DEF BeginTurn, Opens
<1> DEFINE e == Event(t, kind, <<>>)
<1>3. /\ Clean /\ Clean' /\ strays = {} /\ updates = <<>> /\ ToSet(updates) = {} /\ asked = NoTurn
      /\ tail = <<>> /\ writers = {}
  BY <1>1, Untouched DEF Clean
<1>4. e \in EventType /\ e.turn = t /\ e.kind = kind
  <2>1. kind \in Kinds /\ <<>> \in Texts
    BY Nothing DEF Kinds, Texts
  <2> QED
    BY <1>1, <2>1, EventsTyped, Fields
<1>5. begun \in Nat /\ t \in Nat /\ begun < t
  BY Dated
<1>6. PICK v \in [by : {"worker", "update"}, event : EventType, written : BOOLEAN] :
        v.by = "worker" /\ v.event = e /\ ~v.written /\ writers' = {v}
  BY <1>2, <1>3, <1>4, Starting
<1>7. /\ InTail = {} /\ InTail' = {} /\ Logged' = Logged /\ Seen' = Seen /\ Seen = ToSet(shown)
      /\ Writing' = {e} /\ Moving' = {e} /\ Moving = {}
  BY <1>1, <1>3, <1>6, Nothing DEF InTail, Logged, Seen, Writing, Moving
<1>8. \A f \in Logged \cup ToSet(sent) : f.turn \in Nat /\ f.turn < t
  BY <1>5, Dated
<1>9. ToSet(updates') = {} /\ DOMAIN tail' = {} /\ DOMAIN updates' = {}
  BY <1>1, <1>3, Nothing
<1> HIDE DEF e, t
<1>10. TypeOK'
  <2>1. begun' \in 0..MaxTurns /\ begun' # NoTurn
    BY <1>1, AcpOutputAssumption DEF Turns, NoTurn
  <2>2. stage' \in Stages /\ stage' \notin {"idle", "leaving", "closed"} /\ chunks' \in Texts
    BY <1>1, Nothing DEF Stages, Texts
  <2>3. audience' \subseteq Turns
    BY <1>1 DEF OutputInv, TypeOK
  <2> QED
    BY <1>1, <1>3, <1>6, <2>1, <2>2, <2>3 DEF OutputInv, TypeOK
<1>11. Places'
  <2>1. \A f \in Logged' \cup ToSet(sent') : f.turn <= begun'
    BY <1>1, <1>5, <1>7, <1>8
  <2> QED
    BY <1>1, <1>2, <1>3, <1>4, <1>7, <2>1 DEF OutputInv, Places, FromAgent
<1>12. Publication'
  <2>1. e = Event(begun', kind, <<>>)
    BY <1>1 DEF e
  <2> QED
    BY <1>1, <1>2, <1>6, <2>1 DEF OutputInv, Publication
<1>13. Standing'
  BY <1>1, <1>3, <1>6, <1>8 DEF OutputInv, Standing, Clean
<1>14. Order'
  <2>1. \A f \in Logged : Precedes(f, e)
    BY <1>4, <1>8, ByTurn
  <2> QED
    BY <1>1, <1>3, <1>6, <1>7, <1>9, <2>1 DEF Order, After, Logged
<1>15. Logs'
  BY <1>1, <1>3 DEF OutputInv, Logs, Trailing
<1>16. Heard'
  BY <1>1, <1>2, <1>4, <1>5, <1>7, <1>8 DEF Heard, OfTurn
<1>17. Telling'
  <2>1. \A s \in Turns : s < t => ShownWhole(s)
    BY <1>1, <1>5 DEF OutputInv, Telling, Turns, t
  <2>2. \A s \in Turns : s < begun' \/ (s = begun' /\ stage' = "idle") => ShownWhole(s)'
    BY <1>1, <2>1 DEF ShownWhole
  <2>3. \A u \in ToSet(sent') : u.turn # begun'
    BY <1>1, <1>8
  <2> QED
    BY <1>1, <2>2, <2>3 DEF OutputInv, Telling, InTurn
<1>18. Wholes'
  <2>1. \A f \in Logged' \cup Moving' : f.kind \in Answers => IsSaid(f.text, f.turn) /\ f.turn # begun'
    BY <1>1, <1>2, <1>4, <1>5, <1>7, <1>8 DEF OutputInv, Wholes, Answers
  <2> QED
    BY <1>1, <2>1 DEF Wholes, IsSaid, Spoken
<1> QED
  BY <1>10, <1>11, <1>12, <1>13, <1>14, <1>15, <1>16, <1>17, <1>18 DEF OutputInv

(* its input is shown and Started goes out,                                *)
LEMMA MirroredKeeps ==
  ASSUME OutputInv, NEW w \in writers, Mirrored(w)
  PROVE  OutputInv'
<1> DEFINE e == Event(turn, "started", <<>>)
           v == [by |-> "worker", event |-> e, written |-> FALSE]
<1>1. /\ UNCHANGED <<begun, turn, outcome, stopping, chunks, last, buffer, asked, sent, updates, strays, trace,
                     tail, noticed>>
      /\ stage = "mirroring" /\ stage' = "opening" /\ audience' = audience \cup {turn}
      /\ shown' = Append(shown, w.event) /\ w.by = "worker"
      /\ writers' = (writers \ {w}) \cup {v}
  BY DEF Mirrored, Opens, PublishesNext, client, Mine
<1>2. /\ Clean /\ Clean' /\ strays = {} /\ updates = <<>> /\ ToSet(updates) = {} /\ asked = NoTurn
      /\ tail = <<>> /\ writers = {w}
  BY <1>1, Untouched DEF Clean
<1>3. turn = begun /\ begun \in Turns /\ begun \in Nat
  BY <1>1, Typed, Dated DEF OutputInv
<1>4. e \in EventType /\ e.turn = begun /\ e.kind = "started" /\ e = Event(begun, "started", <<>>)
  <2>1. "started" \in Kinds /\ <<>> \in Texts
    BY Nothing DEF Kinds, Texts
  <2> QED
    BY <1>3, <2>1, EventsTyped, Fields
<1>5. v.by = "worker" /\ v.event = e /\ ~v.written /\ v \in [by : {"worker", "update"}, event : EventType, written : BOOLEAN]
      /\ writers' = {v}
  BY <1>1, <1>2, <1>4
<1> HIDE DEF e, v
<1>6. w.event \in EventType /\ w.event.turn = begun /\ w.event.kind = "accepted" /\ w.event \in Moving
  <2>1. w.event = Event(begun, "accepted", <<>>)
    BY <1>1 DEF OutputInv, Publication
  <2> QED
    BY <2>1, Records, Fields DEF OutputInv, TypeOK, Moving, Writing
<1>7. shown' \in Seq(EventType) /\ Grows(shown, shown', w.event) /\ ToSet(shown') = ToSet(shown) \cup {w.event}
  <2>1. shown \in Seq(EventType)
    BY Typed DEF OutputInv
  <2>2. shown' \in Seq(EventType) /\ Grows(shown, shown', w.event)
    BY <1>1, <1>6, <2>1, EventAdds
  <2> QED
    BY <2>2 DEF Grows
<1>8. /\ InTail = {} /\ InTail' = {} /\ Logged' = Logged \cup {w.event}
      /\ Seen' = Seen \cup {w.event} /\ Writing' = {e} /\ Moving' = {e} /\ Moving = {w.event}
  BY <1>1, <1>2, <1>5, <1>7, Nothing DEF InTail, Logged, Seen, Writing, Moving
<1>9. ToSet(updates') = {} /\ DOMAIN tail' = {} /\ DOMAIN updates' = {}
  BY <1>1, <1>2, Nothing
<1>10. TypeOK'
  BY <1>1, <1>3, <1>5, <1>7 DEF OutputInv, TypeOK, Stages
<1>11. Places'
  BY <1>1, <1>2, <1>3, <1>4, <1>6, <1>8, Dated DEF OutputInv, Places, FromAgent
<1>12. Publication'
  BY <1>1, <1>4, <1>5 DEF OutputInv, Publication
<1>13. Standing'
  BY <1>1, <1>2, <1>5 DEF OutputInv, Standing, Clean
<1>14. \A f \in Logged' : Precedes(f, e)
  <2>1. ASSUME NEW f \in Logged' PROVE Precedes(f, e)
    <3>1. CASE f.turn = begun
      BY <1>1, <1>4, <1>6, <1>8, <2>1, <3>1, ByRank DEF OutputInv, Heard, OfTurn
    <3>2. CASE f.turn # begun
      BY <1>4, <1>6, <1>8, <2>1, <3>2, ByTurn, Dated
    <3> QED
      BY <3>1, <3>2
  <2> QED
    BY <2>1
<1>15. Order'
  BY <1>1, <1>2, <1>5, <1>8, <1>9, <1>14 DEF Order, After, Logged
<1>16. Logs'
  <2>1. \A f \in ToSet(shown) : Precedes(f, w.event)
    BY <1>2 DEF OutputInv, Order, After
  <2> QED
    BY <1>1, <1>2, <1>7, <2>1, SortedAdds DEF OutputInv, Logs, Trailing
<1>17. Heard'
  BY <1>1, <1>4, <1>6, <1>8 DEF OutputInv, Heard, OfTurn
<1>18. Telling'
  <2>1. \A u \in ToSet(sent) : u.turn < begun /\ u.turn \in Nat
    BY <1>1, Dated DEF OutputInv, Standing
  <2>2. \A u \in ToSet(sent) : u.turn # begun
    BY <1>3, <2>1
  <2> QED
    BY <1>1, <1>3, <1>7, <2>2 DEF OutputInv, Telling, InTurn, ShownWhole
<1>19. Wholes'
  BY <1>1, <1>4, <1>6, <1>8 DEF OutputInv, Wholes, IsSaid, Spoken, Answers
<1> QED
  BY <1>10, <1>11, <1>12, <1>13, <1>15, <1>16, <1>17, <1>18, <1>19 DEF OutputInv

(* and then its prompt.                                                    *)
LEMMA PromptsKeeps ==
  ASSUME OutputInv, NEW w \in writers, Prompts(w)
  PROVE  OutputInv'
<1>1. /\ UNCHANGED <<begun, turn, outcome, stopping, chunks, last, sent, updates, strays, trace, shown, audience,
                     noticed>>
      /\ stage = "opening" /\ stage' = "prompting" /\ asked' = turn /\ buffer' = <<>>
      /\ writers' = writers \ {w} /\ Queues(w.event) /\ w.by = "worker"
  BY DEF Prompts, Mine
<1>2. /\ Clean /\ Clean' /\ ~stopping /\ strays = {} /\ updates = <<>> /\ ToSet(updates) = {} /\ asked = NoTurn
      /\ writers' = {} /\ outcome = "none" /\ chunks = <<>>
  BY <1>1, Untouched DEF Clean, OutputInv, Standing
<1>3. turn = begun /\ begun \in Turns /\ begun \in Nat /\ begun # NoTurn
  BY <1>1, Typed, Dated DEF OutputInv, Turns, NoTurn
<1>4. /\ w.event \in EventType /\ w.event.turn = begun /\ tail' \in Seq(TailType)
      /\ InTail' = InTail \cup {w.event} /\ Moving' = Moving /\ Logged' = Logged
      /\ Seen \subseteq Seen' /\ (begun \in audience => Seen' = Seen \cup {w.event}) /\ Order'
  BY <1>1, <1>2, Queued
<1>5. w.event = Event(begun, "started", <<>>)
  BY <1>1 DEF OutputInv, Publication
<1>6. \A u \in ToSet(sent) : u.turn # begun
  <2>1. \A u \in ToSet(sent) : u.turn < begun /\ u.turn \in Nat
    BY <1>1, Dated DEF OutputInv, Standing
  <2> QED
    BY <1>3, <2>1
<1>7. TypeOK'
  BY <1>1, <1>2, <1>3, <1>4, Nothing DEF OutputInv, TypeOK, TailType, Stages, Texts
<1>8. Places'
  BY <1>1, <1>4 DEF OutputInv, Places
<1>9. Publication'
  BY <1>1, <1>2 DEF Publication
<1>10. Standing'
  BY <1>1, <1>2, <1>3 DEF OutputInv, Standing, Clean, NoTurn
<1>11. Logs'
  BY <1>1, <1>2 DEF OutputInv, Logs, Trailing
<1>12. Heard'
  BY <1>1, <1>4 DEF OutputInv, Heard, OfTurn
<1>13. Telling'
  BY <1>1, <1>2, <1>4, <1>5, <1>6 DEF OutputInv, Telling, InTurn, ShownWhole
<1>14. Wholes'
  <2>1. \A f \in Logged \cup Moving : f.turn = begun => f.kind \notin Answers
    BY <1>1 DEF OutputInv, Heard, OfTurn, Answers
  <2>2. /\ buffer' = chunks' /\ Rising(chunks') /\ ToSet(chunks') = {} /\ ToSet(updates') = {}
    BY <1>1, <1>2, Nothing DEF Rising
  <2>3. Messages' = {} /\ Spoken(begun)' = {}
    BY <1>1, <1>6, <2>2 DEF Messages, Spoken
  <2> QED
    BY <1>1, <1>4, <2>1, <2>2, <2>3 DEF OutputInv, Wholes, IsSaid, Spoken
<1> QED
  BY <1>4, <1>7, <1>8, <1>9, <1>10, <1>11, <1>12, <1>13, <1>14 DEF OutputInv

----------------------------------------------------------------------------
(* The cancellation of the worker                                          *)

(* An input may still be shown.                                            *)
LEMMA Uncovers ==
  ASSUME OutputInv,
         \/ shown' = shown
         \/ \E w \in writers : stage = "mirroring" /\ w.by = "worker" /\ shown' = Append(shown, w.event)
  PROVE  /\ shown' \in Seq(EventType) /\ ToSet(shown) \subseteq ToSet(shown')
         /\ ToSet(shown') \subseteq ToSet(shown) \cup Moving
         /\ Sorted(shown', Trailing)
<1>1. shown \in Seq(EventType) /\ Sorted(shown, Trailing)
  BY Typed DEF OutputInv, Logs
<1>2. CASE shown' = shown
  BY <1>1, <1>2
<1>3. ASSUME NEW w \in writers, stage = "mirroring", shown' = Append(shown, w.event)
      PROVE  /\ shown' \in Seq(EventType) /\ ToSet(shown') = ToSet(shown) \cup {w.event} /\ w.event \in Moving
             /\ Sorted(shown', Trailing)
  <2>1. w.event \in EventType /\ w.event \in Moving
    BY Records DEF OutputInv, TypeOK, Moving, Writing
  <2>2. shown' \in Seq(EventType) /\ Grows(shown, shown', w.event)
    BY <1>1, <1>3, <2>1, EventAdds
  <2>3. \A f \in ToSet(shown) : Precedes(f, w.event)
    BY <1>3, Untouched DEF OutputInv, Order, After
  <2> QED
    BY <1>1, <2>1, <2>2, <2>3, SortedAdds DEF Grows
<1> QED
  BY <1>2, <1>3

(* Wherever the worker is cut, what is shown and logged stays in order.    *)
LEMMA CancelKeeps ==
  ASSUME OutputInv, CancelWorker
  PROVE  OutputInv'
<1> DEFINE e == Event(turn, "interrupted", chunks)
           v == [by |-> "worker", event |-> e, written |-> FALSE]
<1>1. /\ UNCHANGED <<begun, last, buffer, asked, sent, updates, trace, tail, audience, noticed>>
      /\ ~stopping /\ stopping' /\ stopping' = TRUE /\ ~Clean'
  BY DEF CancelWorker, client, Clean
<1>2. InTail' = InTail
  BY <1>1 DEF InTail
<1>3. begun \in Nat
  BY Dated
<1>4. ASSUME CutOutput PROVE OutputInv'
  <2>1. /\ UNCHANGED <<turn, chunks, shown>>
        /\ stage \in {"opening", "prompting"} /\ stage' = "finishing" /\ outcome' = "interrupted"
        /\ strays' = strays \cup {w.event : w \in {x \in Mine("worker") : ~x.written}}
        /\ writers' = (writers \ Mine("worker")) \cup {v}
    BY <1>4 DEF CutOutput, Abandons, Finished
  <2>2. turn = begun /\ begun \in Turns /\ Clean
    BY <1>1, <2>1, Typed DEF OutputInv, Standing, Clean, Answers
  <2>3. e \in EventType /\ e.turn = begun /\ e.kind = "interrupted" /\ "interrupted" \in Ends
        /\ e.kind \notin FromAgent /\ e.kind \notin Answers
    <3>1. "interrupted" \in Kinds /\ chunks \in Texts /\ "interrupted" \in Ends
          /\ "interrupted" \notin FromAgent /\ "interrupted" \notin Answers
      BY DEF OutputInv, TypeOK, Kinds, Ends, FromAgent, Answers
    <3> QED
      BY <2>2, <3>1, EventsTyped, Fields
  <2>4. v.by = "worker" /\ v.event = e /\ v \in [by : {"worker", "update"}, event : EventType, written : BOOLEAN]
    BY <2>3
  <2> HIDE DEF e, v
  <2>5. /\ Writing' \subseteq Writing \cup {e} /\ strays' \subseteq strays \cup Writing
        /\ Moving' \subseteq Moving \cup {e} /\ Logged' = Logged
    BY <1>1, <1>2, <2>1, <2>4 DEF Writing, Mine, Moving, Logged
  <2>6. TypeOK'
    BY <1>1, <2>1, <2>2, <2>4 DEF OutputInv, TypeOK, Stages, Ends, Mine
  <2>7. Places'
    BY <1>1, <2>3, <2>5 DEF OutputInv, Places
  <2>8. Publication'
    BY <1>1, <2>1, <2>3, <2>4 DEF OutputInv, Publication, Mine
  <2>9. Standing'
    BY <1>1, <2>1 DEF OutputInv, Standing, Clean
  <2>10. Order'
    BY <1>1 DEF Order
  <2>11. Logs'
    <3>1. (\A f \in ToSet(shown) \cup ToSet(trace) : f.turn # NoTurn) /\ Trailing = NoTurn
      BY <2>2, Dated DEF Logged, Trailing
    <3> QED
      BY <1>1, <2>1, <3>1, Weaker DEF OutputInv, Logs
  <2>12. Heard'
    BY <2>1 DEF Heard
  <2>13. Telling'
    BY <1>1, <2>1 DEF OutputInv, Telling, ShownWhole
  <2>14. Wholes'
    BY <1>1, <2>1, <2>3, <2>5 DEF OutputInv, Wholes, IsSaid, Spoken
  <2> QED
    BY <2>6, <2>7, <2>8, <2>9, <2>10, <2>11, <2>12, <2>13, <2>14 DEF OutputInv
<1>5. ASSUME CutEdges \/ CutFlush \/ CutRest PROVE OutputInv'
  <2>1. /\ outcome' = outcome
        /\ \/ turn' = turn /\ chunks' = chunks /\ stage \in {"mirroring", "finishing", "announcing"} /\ stage' = "flushing"
           \/ turn' = NoTurn /\ chunks' = <<>> /\ stage = "flushing" /\ stage' = "leaving"
           \/ turn' = turn /\ chunks' = chunks /\ stage = "idle" /\ stage' = "leaving"
           \/ turn' = turn /\ chunks' = chunks /\ stage = "leaving" /\ stage' = "closed"
        /\ writers' \subseteq writers /\ strays' \subseteq strays \cup Writing
        /\ \/ writers' = writers
           \/ writers' = writers \ Mine("worker")
        /\ (stage' = "flushing" => writers' = writers \ Mine("worker"))
    BY <1>5 DEF CutEdges, CutFlush, CutRest, Abandons, Mine, Writing
  <2>2. \/ shown' = shown
        \/ \E w \in writers : stage = "mirroring" /\ w.by = "worker" /\ shown' = Append(shown, w.event)
    BY <1>5 DEF CutEdges, CutFlush, CutRest, Mine
  <2>3. /\ shown' \in Seq(EventType) /\ ToSet(shown) \subseteq ToSet(shown')
        /\ ToSet(shown') \subseteq ToSet(shown) \cup Moving
        /\ Sorted(shown', Trailing)
    BY <2>2, Uncovers
  <2>4. Writing \subseteq EventType
    BY Records DEF OutputInv, TypeOK, Writing
  <2>5. Moving' \subseteq Moving /\ Logged' \subseteq Logged \cup Moving
    BY <1>1, <1>2, <2>1, <2>3 DEF Moving, Writing, Logged
  <2>6. TypeOK'
    BY <1>1, <2>1, <2>3, <2>4, Nothing DEF OutputInv, TypeOK, Stages, Texts
  <2>7. Places'
    BY <1>1, <2>5, Dated DEF OutputInv, Places
  <2>8. Publication'
    BY <2>1 DEF OutputInv, Publication, Mine
  <2>9. Standing'
    BY <1>1, <2>1 DEF OutputInv, Standing, Clean
  <2>10. Order'
    BY <1>1 DEF Order
  <2>11. Logs'
    <3>1. \A f \in ToSet(shown') \cup ToSet(trace) : f.turn # NoTurn
      BY <2>3, Dated DEF Logged
    <3>2. Sorted(shown', begun) /\ Sorted(trace, begun)
      BY <2>3, <3>1, Weaker DEF OutputInv, Logs, Trailing
    <3> QED
      BY <1>1, <3>2 DEF Logs, Trailing
  <2>12. Heard'
    BY <2>1 DEF Heard
  <2>13. Telling'
    BY <1>1, <2>1, <2>3 DEF OutputInv, Telling, ShownWhole
  <2>14. Wholes'
    BY <1>1, <2>1, <2>5 DEF OutputInv, Wholes, IsSaid, Spoken
  <2> QED
    BY <2>6, <2>7, <2>8, <2>9, <2>10, <2>11, <2>12, <2>13, <2>14 DEF OutputInv
<1> QED
  BY <1>1, <1>4, <1>5 DEF CancelWorker

----------------------------------------------------------------------------
(* The specification                                                       *)

(* The beginning,                                                          *)
LEMMA Starts == Init => OutputInv
<1> SUFFICES ASSUME Init PROVE OutputInv
  OBVIOUS
<1>1. /\ stage = "idle" /\ begun = 0 /\ turn = NoTurn /\ outcome = "none" /\ stopping = FALSE
      /\ chunks = <<>> /\ buffer = <<>> /\ last = <<>>
      /\ asked = NoTurn /\ sent = <<>> /\ updates = <<>>
      /\ writers = {} /\ strays = {} /\ trace = <<>> /\ tail = <<>>
      /\ audience = {} /\ shown = <<>> /\ noticed = {}
  BY DEF Init
<1>2. /\ ToSet(shown) = {} /\ ToSet(trace) = {} /\ ToSet(updates) = {} /\ ToSet(sent) = {}
      /\ DOMAIN tail = {} /\ DOMAIN sent = {} /\ DOMAIN updates = {} /\ DOMAIN shown = {} /\ DOMAIN trace = {}
  BY <1>1, Nothing
<1>3. InTail = {} /\ Writing = {} /\ Moving = {} /\ Logged = {} /\ Clean
  BY <1>1, <1>2 DEF InTail, Writing, Moving, Logged, Clean
<1>4. TypeOK
  <2>1. /\ <<>> \in Texts /\ <<>> \in Seq(EventType) /\ <<>> \in Seq([event : EventType, seen : BOOLEAN])
    BY Nothing DEF Texts
  <2>2. begun \in 0..MaxTurns
    BY <1>1, AcpOutputAssumption
  <2> QED
    BY <1>1, <2>1, <2>2 DEF TypeOK, Stages, NoTurn
<1>5. Places /\ Publication /\ Standing /\ Order /\ Logs /\ Heard
  BY <1>1, <1>2, <1>3 DEF Places, Publication, Standing, Order, Logs, Sorted, Heard, NoTurn
<1>6. Telling
  <2>1. \A t \in Turns : ~(t < begun \/ (t = begun /\ stage = "idle"))
    BY <1>1, AcpOutputAssumption DEF Turns
  <2> QED
    BY <1>1, <2>1 DEF Telling, InTurn
<1>7. Wholes
  BY <1>1, <1>3 DEF Wholes
<1> QED
  BY <1>4, <1>5, <1>6, <1>7 DEF OutputInv

(* every step,                                                             *)
LEMMA OutputStays == OutputInv /\ [Next]_vars => OutputInv'
<1> SUFFICES ASSUME OutputInv, [Next]_vars PROVE OutputInv'
  OBVIOUS
<1>1. CASE Progress
  <2>1. ASSUME NEW w \in writers, Written(w) \/ UpdatePublished(w) \/ Mirrored(w) \/ Prompts(w) \/ FinishPublished(w)
        PROVE  OutputInv'
    BY <2>1, WrittenKeeps, UpdatePublishedKeeps, MirroredKeeps, PromptsKeeps, FinishPublishedKeeps
  <2>2. ASSUME NEW e \in strays, StrayEnds(e) PROVE OutputInv'
    BY <2>2, StrayEndsKeeps
  <2> QED
    BY <1>1, <2>1, <2>2, ProjectedKeeps, UpdateHandledKeeps, PromptReturnsKeeps, AnnouncedKeeps, FlushedKeeps,
       ClosesKeeps DEF Progress, Publishing
<1>2. CASE Agent
  BY <1>2, AgentSendsKeeps, AgentAnswersKeeps, PromptFailsKeeps DEF Agent
<1>3. CASE BeginTurn \/ Retires \/ CancelWorker
  BY <1>3, BeginTurnKeeps, RetiresKeeps, CancelKeeps
<1>4. CASE UNCHANGED vars
  <2>1. UNCHANGED <<stage, begun, turn, outcome, stopping, chunks, last, buffer, asked, sent, updates, writers,
                    strays, trace, tail, shown, audience, noticed>>
    BY <1>4 DEF vars, worker, client, events
  <2>2. InTail' = InTail /\ Logged' = Logged /\ Seen' = Seen /\ Writing' = Writing /\ Moving' = Moving /\ Clean' = Clean
    BY <2>1 DEF InTail, Logged, Seen, Writing, Moving, Clean
  <2>3. TypeOK' /\ Places' /\ Publication' /\ Standing' /\ Order' /\ Logs' /\ Heard'
    BY <2>1, <2>2, ZenonT(30) DEF OutputInv, TypeOK, Places, Publication, Standing, Order, Logs, Trailing, Heard, OfTurn
  <2>4. Telling' /\ Wholes'
    BY <2>1, <2>2 DEF OutputInv, Telling, ShownWhole, Wholes, IsSaid, Spoken, Messages
  <2> QED
    BY <2>3, <2>4 DEF OutputInv
<1> QED
  BY <1>1, <1>2, <1>3, <1>4 DEF Next

(* and so every state.                                                     *)
LEMMA OutputStands == Spec => []OutputInv
<1> QED
  BY Starts, OutputStays, PTL DEF Spec

(* Every variable of the output's way has its type, and the worker is in a *)
(* turn exactly while there is a current one.                              *)
THEOREM OutputTyped == Spec => []TypeOK
<1>1. OutputInv => TypeOK
  BY DEF OutputInv
<1> QED
  BY <1>1, OutputStands, PTL

(* Whatever the tasks interleave to, the Finished of an answered turn, in  *)
(* the trace and as it is shown, has all messages that the agent sent in   *)
(* the turn and no other, in the order in which it sent them; the record's *)
(* last output is that of the last completed turn.                         *)
THEOREM OutputIsFinished == Spec => []FinishedIsWhole
<1>1. OutputInv => FinishedIsWhole
  <2> SUFFICES ASSUME OutputInv PROVE FinishedIsWhole
    OBVIOUS
  <2>1. \A e \in ToSet(shown) \cup ToSet(trace) : e.kind \in Answers =>
          /\ IsSaid(e.text, e.turn)
          /\ e.turn = begun /\ e.kind = "completed" => last = e.text
    BY DEF OutputInv, Wholes, Logged
  <2>2. "completed" \in Answers
    BY DEF Answers
  <2> QED
    BY <2>1, <2>2 DEF FinishedIsWhole
<1> QED
  BY <1>1, OutputStands, PTL

(* The trace and the conversation have the events once and in the order of *)
(* the turns, up to the turn that was cut or has failed; a worker is ready *)
(* for its next turn once all of the last is shown; and no announcement of *)
(* a completed turn overtakes its Finished.                                *)
THEOREM OutputInOrder == Spec => []ShownInOrder
<1>1. ASSUME OutputInv PROVE ShownInOrder
  <2>1. LoggedInOrder
    <3>1. ASSUME NEW log \in {shown, trace}, NEW i \in DOMAIN log, NEW j \in DOMAIN log, i < j
          PROVE  \/ Precedes(log[i], log[j])
                 \/ log[i].turn = log[j].turn /\ Broken(log[i].turn)
      <4>1. Precedes(log[i], log[j]) \/ (log[i].turn = Trailing /\ log[j].turn = Trailing)
        BY <1>1, <3>1 DEF OutputInv, Logs, Sorted
      <4>2. log[i].turn # NoTurn
        BY <1>1, <3>1, Dated DEF Logged, ToSet
      <4> QED
        BY <4>1, <4>2 DEF Trailing, Broken, Clean
    <3> QED
      BY <3>1 DEF LoggedInOrder
  <2>2. TurnIsShown
    <3>1. ASSUME stage = "idle", NEW t \in 1..begun PROVE ShownWhole(t)
      <4>1. t \in Turns /\ (t < begun \/ t = begun)
        BY <1>1, Typed DEF OutputInv, Turns
      <4> QED
        BY <1>1, <3>1, <4>1 DEF OutputInv, Telling
    <3> QED
      BY <3>1 DEF TurnIsShown, ShownWhole
  <2>3. NoticeAfterFinished
    BY <1>1 DEF OutputInv, Telling, NoticeAfterFinished
  <2> QED
    BY <2>1, <2>2, <2>3 DEF ShownInOrder
<1> QED
  BY <1>1, OutputStands, PTL

----------------------------------------------------------------------------
(* Background jobs                                                         *)

(* What the stage of a job says of its process, record and result, and what*)
(* is left of a job nobody watches: one job at a time, the invariants of   *)
(* BgJobs and what they need.                                              *)
Fits(j) ==
  /\ status[j] = "running" <=> watcher[j] \in Awaiting \/ j \in left
  /\ j \in table <=> watcher[j] \in {"waiting", "reaping"}
  /\ proc[j] = "alive" => j \in table \cup left
  /\ j \in table => proc[j] # "none"
  /\ j \in left => watcher[j] = "none"
  /\ watcher[j] = "spawning" => proc[j] = "none"
  /\ watcher[j] = "posting" => proc[j] = "ended"
  /\ watcher[j] \in Awaiting \cup {"posting"} \/ j \in left => word[j] = "none"
  /\ word[j] # "none" => proc[j] = "ended" /\ status[j] \in {"exited", "killed"}
  /\ given[j] = IF word[j] \in {"continues", "resumed"} THEN 1 ELSE 0
  /\ watcher[j] = "posting" => status[j] \in {"exited", "killed"}

(* JobTypes, in parts.                                                       *)
LedgerTypes ==
  /\ up \in BOOLEAN /\ seq \in 0..MaxJobs
  /\ owner \in [Jobs -> Sessions \cup {NoOwner}]
  /\ status \in [Jobs -> Statuses]
ProcTypes ==
  /\ proc \in [Jobs -> {"none", "alive", "ended"}]
  /\ signal \in [Jobs -> {"none", "kill", "timeout"}]
  /\ table \in SUBSET Jobs
WatcherTypes ==
  /\ watcher \in [Jobs -> JobStages] /\ word \in [Jobs -> Words]
  /\ given \in [Jobs -> Nat]
SessionTypes ==
  /\ runtime \in [Sessions -> BOOLEAN]
  /\ recorded \in [Sessions -> {"active", "terminal", "gone"}]

IInv == JobTypes /\ \A j \in Jobs : Fits(j)

----------------------------------------------------------------------------
(* The invariants of BgJobs are what Fits says of each job.                *)
LEMMA Implied ==
  ASSUME IInv PROVE RunningIsWatched /\ LiveIsKillable /\ ToldAsGiven
<1>1. RunningIsWatched
  BY DEF IInv, Fits, RunningIsWatched
<1>2. LiveIsKillable
  BY DEF IInv, JobTypes, Fits, LiveIsKillable
<1>3. ToldAsGiven
  BY DEF IInv, Fits, ToldAsGiven
<1>4. QED
  BY <1>1, <1>2, <1>3

(* The ledger is empty at the start.                                       *)
LEMMA InitIInv == ASSUME JobsInit PROVE IInv
<1>1. JobTypes
  BY BgJobsAssumption DEF JobsInit, JobTypes, Numbered, Jobs, Statuses, JobStages, Words
<1>2. ASSUME NEW j \in Jobs PROVE Fits(j)
  BY DEF JobsInit, Fits, Awaiting
<1>3. QED
  BY <1>1, <1>2 DEF IInv

(* A new job is the one after the last.                                    *)
LEMMA RunIInv ==
  ASSUME NEW s \in Sessions, IInv, Run(s)
  PROVE  IInv'
<1>1. Numbered'
  BY BgJobsAssumption DEF IInv, JobTypes, Numbered, Fits, Jobs, Awaiting, Run, ledger, session
<1>2. JobTypes'
  <2>1. LedgerTypes'
    BY BgJobsAssumption DEF IInv, JobTypes, LedgerTypes, Jobs, Statuses, Run, ledger, session
  <2>2. ProcTypes'
    BY DEF IInv, JobTypes, ProcTypes, Run, ledger, session
  <2>3. (left \in SUBSET Jobs)'
    <3>1. left' = left \cup {seq + 1} \/ left' = left
      BY DEF Run
    <3>2. seq + 1 \in Jobs
      BY DEF Run
    <3>3. QED
      BY <3>1, <3>2 DEF IInv, JobTypes
  <2>4. WatcherTypes'
    BY DEF IInv, JobTypes, WatcherTypes, JobStages, Words, Run, ledger, session
  <2>5. SessionTypes'
    BY DEF IInv, JobTypes, Numbered, SessionTypes, Run, ledger, session
  <2>6. QED
    BY <1>1, <2>1, <2>2, <2>3, <2>4, <2>5
    DEF JobTypes, LedgerTypes, ProcTypes, WatcherTypes, SessionTypes
<1>3. ASSUME NEW k \in Jobs PROVE Fits(k)'
  BY BgJobsAssumption DEF IInv, JobTypes, Numbered, Fits, Jobs, Awaiting, Run, ledger, session
<1>4. QED
  BY <1>2, <1>3 DEF IInv

(* A process that has started is on the table.                             *)
LEMMA SpawnedIInv ==
  ASSUME NEW j \in Jobs, IInv, Spawned(j)
  PROVE  IInv'
<1>1. Numbered'
  BY BgJobsAssumption DEF IInv, JobTypes, Numbered, Fits, Jobs, Awaiting, Spawned, ledger, session
<1>2. JobTypes'
  BY <1>1, BgJobsAssumption DEF IInv, JobTypes, Jobs, Statuses, JobStages, Words, Spawned, ledger, session
<1>3. ASSUME NEW k \in Jobs PROVE Fits(k)'
  BY BgJobsAssumption DEF IInv, JobTypes, Numbered, Fits, Jobs, Awaiting, Spawned, ledger, session
<1>4. QED
  BY <1>2, <1>3 DEF IInv

(* One that has not is recorded as killed.                                 *)
LEMMA SpawnFailsIInv ==
  ASSUME NEW j \in Jobs, IInv, SpawnFails(j)
  PROVE  IInv'
<1>1. Numbered'
  BY BgJobsAssumption DEF IInv, JobTypes, Numbered, Fits, Jobs, Awaiting, SpawnFails, session
<1>2. JobTypes'
  BY <1>1, BgJobsAssumption DEF IInv, JobTypes, Jobs, Statuses, JobStages, Words, SpawnFails, session
<1>3. ASSUME NEW k \in Jobs PROVE Fits(k)'
  BY BgJobsAssumption DEF IInv, JobTypes, Numbered, Fits, Jobs, Awaiting, SpawnFails, session
<1>4. QED
  BY <1>2, <1>3 DEF IInv

(* A kill leaves everything to the watcher.                                *)
LEMMA KillIInv ==
  ASSUME NEW j \in Jobs, NEW s \in Sessions, IInv, Kill(s, j)
  PROVE  IInv'
<1>1. Numbered'
  BY BgJobsAssumption DEF IInv, JobTypes, Numbered, Fits, Jobs, Awaiting, Kill, Hit, ledger, session
<1>2. JobTypes'
  BY <1>1, BgJobsAssumption DEF IInv, JobTypes, Jobs, Statuses, JobStages, Words, Kill, Hit, ledger, session
<1>3. ASSUME NEW k \in Jobs PROVE Fits(k)'
  BY BgJobsAssumption DEF IInv, JobTypes, Numbered, Fits, Jobs, Awaiting, Kill, Hit, ledger, session
<1>4. QED
  BY <1>2, <1>3 DEF IInv

(* A process that ends stays on the table until its watcher is woken.      *)
LEMMA ProcEndsIInv ==
  ASSUME NEW j \in Jobs, IInv, ProcEnds(j)
  PROVE  IInv'
<1>1. Numbered'
  BY BgJobsAssumption DEF IInv, JobTypes, Numbered, Fits, Jobs, Awaiting, ProcEnds, ledger, session
<1>2. JobTypes'
  BY <1>1, BgJobsAssumption DEF IInv, JobTypes, Jobs, Statuses, JobStages, Words, ProcEnds, ledger, session
<1>3. ASSUME NEW k \in Jobs PROVE Fits(k)'
  BY BgJobsAssumption DEF IInv, JobTypes, Numbered, Fits, Jobs, Awaiting, ProcEnds, ledger, session
<1>4. QED
  BY <1>2, <1>3 DEF IInv

(* A timeout leaves the record to the watcher.                             *)
LEMMA ExpiresIInv ==
  ASSUME NEW j \in Jobs, IInv, Expires(j)
  PROVE  IInv'
<1>1. Numbered'
  BY BgJobsAssumption DEF IInv, JobTypes, Numbered, Fits, Jobs, Awaiting, Expires, Hit, ledger, session
<1>2. JobTypes'
  BY <1>1, BgJobsAssumption DEF IInv, JobTypes, Jobs, Statuses, JobStages, Words, Expires, Hit, ledger, session
<1>3. ASSUME NEW k \in Jobs PROVE Fits(k)'
  BY BgJobsAssumption DEF IInv, JobTypes, Numbered, Fits, Jobs, Awaiting, Expires, Hit, ledger, session
<1>4. QED
  BY <1>2, <1>3 DEF IInv

(* The watcher records the end and clears the table together.              *)
LEMMA ExitedIInv ==
  ASSUME NEW j \in Jobs, IInv, Exited(j)
  PROVE  IInv'
<1>1. Numbered'
  BY BgJobsAssumption DEF IInv, JobTypes, Numbered, Fits, Jobs, Awaiting, Exited, session
<1>2. JobTypes'
  <2>1. LedgerTypes'
    BY BgJobsAssumption DEF IInv, JobTypes, LedgerTypes, Jobs, Statuses, Exited, session
  <2>2. ProcTypes'
    BY DEF IInv, JobTypes, ProcTypes, Exited, session
  <2>3. (left \in SUBSET Jobs)'
    BY DEF IInv, JobTypes, Exited, session
  <2>4. WatcherTypes'
    BY DEF IInv, JobTypes, WatcherTypes, JobStages, Words, Exited, session
  <2>5. SessionTypes'
    BY DEF IInv, JobTypes, Numbered, SessionTypes, Exited, session
  <2>6. QED
    BY <1>1, <2>1, <2>2, <2>3, <2>4, <2>5
    DEF JobTypes, LedgerTypes, ProcTypes, WatcherTypes, SessionTypes
<1>3. ASSUME NEW k \in Jobs PROVE Fits(k)'
  BY BgJobsAssumption DEF IInv, JobTypes, Numbered, Fits, Jobs, Awaiting, Exited, session
<1>4. QED
  BY <1>2, <1>3 DEF IInv

(* The result is given with the word that says so.                         *)
LEMMA PostedIInv ==
  ASSUME NEW j \in Jobs, IInv, Posted(j)
  PROVE  IInv'
<1>1. Numbered'
  BY BgJobsAssumption DEF IInv, JobTypes, Numbered, Fits, Jobs, Awaiting, Posted, Revive, Announce, ledger
<1>2. JobTypes'
  <2>1. LedgerTypes'
    BY BgJobsAssumption DEF IInv, JobTypes, LedgerTypes, Jobs, Statuses, Posted, Revive, Announce, ledger
  <2>2. ProcTypes'
    BY DEF IInv, JobTypes, ProcTypes, Posted, Revive, Announce, ledger
  <2>3. (left \in SUBSET Jobs)'
    BY DEF IInv, JobTypes, Posted, Revive, Announce, ledger
  <2>4. WatcherTypes'
    BY DEF IInv, JobTypes, WatcherTypes, JobStages, Words, Posted, Revive, Announce, ledger
  <2>5. SessionTypes'
    BY DEF IInv, JobTypes, Numbered, SessionTypes, Posted, Revive, Announce, ledger
  <2>6. QED
    BY <1>1, <2>1, <2>2, <2>3, <2>4, <2>5
    DEF JobTypes, LedgerTypes, ProcTypes, WatcherTypes, SessionTypes
<1>3. ASSUME NEW k \in Jobs PROVE Fits(k)'
  BY BgJobsAssumption, SMTT(30) DEF IInv, JobTypes, Numbered, Fits, Jobs, Awaiting, Posted, Revive, Announce, ledger
<1>4. QED
  BY <1>2, <1>3 DEF IInv

(* Telling the main line is the end.                                       *)
LEMMA ToldIInv ==
  ASSUME NEW j \in Jobs, IInv, Told(j)
  PROVE  IInv'
<1>1. Numbered'
  BY BgJobsAssumption DEF IInv, JobTypes, Numbered, Fits, Jobs, Awaiting, Told, ledger, session
<1>2. JobTypes'
  BY <1>1, BgJobsAssumption DEF IInv, JobTypes, Jobs, Statuses, JobStages, Words, Told, ledger, session
<1>3. ASSUME NEW k \in Jobs PROVE Fits(k)'
  BY BgJobsAssumption DEF IInv, JobTypes, Numbered, Fits, Jobs, Awaiting, Told, ledger, session
<1>4. QED
  BY <1>2, <1>3 DEF IInv

(* What becomes of a Session changes no job.                               *)
LEMMA SessionIInv ==
  ASSUME NEW s \in Sessions, IInv,
         \/ Resumes(s) \/ Leaves(s) \/ Cleared(s)
         \/ \E r \in {"active", "terminal"} : Recorded(s, r)
  PROVE  IInv'
<1>1. Numbered'
  BY BgJobsAssumption DEF IInv, JobTypes, Numbered, Fits, Jobs, Awaiting, Resumes, Leaves, Cleared, Recorded, ledger
<1>2. JobTypes'
  <2>1. LedgerTypes'
    BY BgJobsAssumption DEF IInv, JobTypes, LedgerTypes, Jobs, Statuses, Resumes, Leaves, Cleared, Recorded, ledger
  <2>2. ProcTypes'
    BY DEF IInv, JobTypes, ProcTypes, Resumes, Leaves, Cleared, Recorded, ledger
  <2>3. (left \in SUBSET Jobs)'
    BY DEF IInv, JobTypes, Resumes, Leaves, Cleared, Recorded, ledger
  <2>4. WatcherTypes'
    BY DEF IInv, JobTypes, WatcherTypes, JobStages, Words, Resumes, Leaves, Cleared, Recorded, ledger
  <2>5. SessionTypes'
    <3>1. (runtime \in [Sessions -> BOOLEAN])'
      BY DEF IInv, JobTypes, Resumes, Leaves, Cleared, Recorded
    <3>2. (recorded \in [Sessions -> {"active", "terminal", "gone"}])'
      BY DEF IInv, JobTypes, Resumes, Leaves, Cleared, Recorded
    <3>3. QED
      BY <3>1, <3>2 DEF SessionTypes
  <2>6. QED
    BY <1>1, <2>1, <2>2, <2>3, <2>4, <2>5
    DEF JobTypes, LedgerTypes, ProcTypes, WatcherTypes, SessionTypes
<1>3. ASSUME NEW k \in Jobs PROVE Fits(k)'
  BY BgJobsAssumption DEF IInv, JobTypes, Numbered, Fits, Jobs, Awaiting, Resumes, Leaves, Cleared, Recorded, ledger
<1>4. QED
  BY <1>2, <1>3 DEF IInv

(* With the daemon, what ran is left behind.                               *)
LEMMA DownIInv ==
  ASSUME IInv, Down
  PROVE  IInv'
<1>1. Numbered'
  BY BgJobsAssumption DEF IInv, JobTypes, Numbered, Fits, Jobs, Awaiting, Down, ledger
<1>2. JobTypes'
  <2>1. LedgerTypes'
    BY BgJobsAssumption DEF IInv, JobTypes, LedgerTypes, Jobs, Statuses, Down, ledger
  <2>2. ProcTypes'
    BY DEF IInv, JobTypes, ProcTypes, Down, ledger
  <2>3. (left \in SUBSET Jobs)'
    BY DEF IInv, JobTypes, Down, ledger
  <2>4. WatcherTypes'
    BY DEF IInv, JobTypes, WatcherTypes, JobStages, Words, Down, ledger
  <2>5. SessionTypes'
    BY DEF IInv, JobTypes, Numbered, SessionTypes, Down, ledger
  <2>6. QED
    BY <1>1, <2>1, <2>2, <2>3, <2>4, <2>5
    DEF JobTypes, LedgerTypes, ProcTypes, WatcherTypes, SessionTypes
<1>3. ASSUME NEW k \in Jobs PROVE Fits(k)'
  BY BgJobsAssumption DEF IInv, JobTypes, Numbered, Fits, Jobs, Awaiting, Down, ledger
<1>4. QED
  BY <1>2, <1>3 DEF IInv

(* A restart reads what is there.                                          *)
LEMMA RestIInv ==
  ASSUME IInv, Restart \/ UNCHANGED jobVars
  PROVE  IInv'
<1>1. Numbered'
  BY BgJobsAssumption DEF IInv, JobTypes, Numbered, Fits, Jobs, Awaiting, Restart, jobVars, ledger, session
<1>2. JobTypes'
  BY <1>1, BgJobsAssumption, ZenonT(30) DEF IInv, JobTypes, Jobs, Statuses, JobStages, Words, Restart, jobVars, ledger, session
<1>3. ASSUME NEW k \in Jobs PROVE Fits(k)'
  BY BgJobsAssumption DEF IInv, JobTypes, Numbered, Fits, Jobs, Awaiting, Restart, jobVars, ledger, session
<1>4. QED
  BY <1>2, <1>3 DEF IInv

(* Every step keeps the invariant.                                         *)
LEMMA NextIInv == ASSUME IInv, [JobsNext]_jobVars PROVE IInv'
BY RunIInv, SpawnedIInv, SpawnFailsIInv, KillIInv, ProcEndsIInv, ExpiresIInv, ExitedIInv,
   PostedIInv, ToldIInv, SessionIInv, DownIInv, RestIInv
DEF JobsNext, Job, SessionStep, Watch

(* So it holds in every state.                                            *)
LEMMA Inductive == JobsSpec => []IInv
<1>1. JobsInit => IInv
  BY InitIInv
<1>2. IInv /\ [JobsNext]_jobVars => IInv'
  BY NextIInv
<1>3. QED
  BY <1>1, <1>2, PTL DEF JobsSpec

(* What a settled job is, in one step: its watcher does not await its end, *)
(* it is not the next to be created, and nothing else writes its record.   *)
Settled(j) == status[j] \in {"exited", "killed"} \/ j \in left
Stays(j) == status'[j] = status[j] /\ owner'[j] = owner[j] /\ watcher'[j] # "spawning"

(* A settled job stays as it is.                                           *)
LEMMA StepSettled ==
  ASSUME IInv, [JobsNext]_jobVars, NEW j \in Jobs, Settled(j)
  PROVE  Stays(j)
<1>1. watcher[j] \notin Awaiting /\ j <= seq
  <2>1. watcher[j] \notin Awaiting
    BY DEF IInv, Fits, Settled, Awaiting
  <2>2. ~(j > seq)
    BY DEF IInv, JobTypes, Numbered, Settled
  <2>3. QED
    BY <2>1, <2>2, BgJobsAssumption DEF IInv, JobTypes, Jobs
<1>2. ASSUME NEW s \in Sessions, Run(s) PROVE Stays(j)
  <2>1. j # seq + 1
    BY <1>1, BgJobsAssumption DEF IInv, JobTypes, Jobs
  <2>2. QED
    BY <1>1, <1>2, <2>1 DEF IInv, JobTypes, Run, Stays, Awaiting
<1>3. ASSUME NEW k \in Jobs, Spawned(k) \/ SpawnFails(k) \/ Exited(k) PROVE Stays(j)
  <2>1. k # j
    BY <1>1, <1>3 DEF Spawned, SpawnFails, Exited, Awaiting
  <2>2. QED
    BY <1>1, <1>3, <2>1
    DEF IInv, JobTypes, Spawned, SpawnFails, Exited, ledger, Stays, Awaiting
<1>4. ASSUME NEW k \in Jobs,
             \/ ProcEnds(k) \/ Expires(k) \/ Posted(k) \/ Told(k)
             \/ \E s \in Sessions : Kill(s, k)
      PROVE  Stays(j)
  BY <1>1, <1>4 DEF IInv, JobTypes, ProcEnds, Expires, Posted, Revive, Announce, Told, Kill,
     ledger, Stays, Awaiting
<1>5. ASSUME NEW s \in Sessions, \/ Resumes(s) \/ Leaves(s) \/ Cleared(s)
             \/ \E r \in {"active", "terminal"} : Recorded(s, r)
      PROVE  Stays(j)
  BY <1>1, <1>5 DEF Resumes, Leaves, Cleared, Recorded, ledger, Stays, Awaiting
<1>6. ASSUME Down \/ Restart \/ UNCHANGED jobVars PROVE Stays(j)
  BY <1>1, <1>6 DEF Down, Restart, jobVars, ledger, Stays, Awaiting
<1>7. QED
  BY <1>2, <1>3, <1>4, <1>5, <1>6 DEF JobsNext, Job, SessionStep, Watch

----------------------------------------------------------------------------
(* Every variable keeps its type, and the ids are given out in order.      *)
THEOREM TypeCorrect == JobsSpec => []JobTypes
<1>1. IInv => JobTypes
  BY DEF IInv
<1>2. QED
  BY <1>1, Inductive, PTL

(* A job is recorded as running exactly while the daemon will record its   *)
(* end, apart from the jobs known to be left behind.                       *)
THEOREM Watched == JobsSpec => []RunningIsWatched
<1>1. IInv => RunningIsWatched
  BY Implied
<1>2. QED
  BY <1>1, Inductive, PTL

(* Every process of a job that is not left behind can be killed by its     *)
(* Session, and the table holds no other job.                              *)
THEOREM Killable == JobsSpec => []LiveIsKillable
<1>1. IInv => LiveIsKillable
  BY Implied
<1>2. QED
  BY <1>1, Inductive, PTL

(* The agent has a job's result at most once, and exactly when the main    *)
(* line says that it goes on.                                              *)
THEOREM GivenOnce == JobsSpec => []ToldAsGiven
<1>1. IInv => ToldAsGiven
  BY Implied
<1>2. QED
  BY <1>1, Inductive, PTL

(* The end of a job is recorded once and for all, across restarts too.     *)
THEOREM EndIsFinal == JobsSpec => SettledForGood
<1>1. IInv /\ [JobsNext]_jobVars =>
        [\A j \in Jobs : status[j] \in {"exited", "killed"} \/ j \in left
          => status'[j] = status[j] /\ owner'[j] = owner[j] /\ watcher'[j] # "spawning"]_jobVars
  BY StepSettled DEF Settled, Stays
<1>2. QED
  BY <1>1, Inductive, PTL DEF JobsSpec, SettledForGood

(* Record, watcher, process and table of every job agree.                  *)
THEOREM Accounted == JobsSpec => []JobsAccounted
<1>1. RunningIsWatched /\ LiveIsKillable => JobsAccounted
  BY DEF JobsAccounted
<1> QED
  BY <1>1, Watched, Killable, PTL
=============================================================================
