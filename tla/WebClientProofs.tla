-------------------------- MODULE WebClientProofs --------------------------
(***************************************************************************)
(* What is proved of the HTTP channel and the web client on it, for any    *)
(* conversations and targets, any size of a ring and of the maps, and any  *)
(* number of restarts, failures and actions of the user.                   *)
(***************************************************************************)
EXTENDS WebClient, SequenceTheorems, FiniteSetTheorems, TLAPS

----------------------------------------------------------------------------
(* The channel                                                             *)

(* What a ring holds when n events have been given a cursor                *)
Least(a, b) == IF a <= b THEN a ELSE b
Kept(n)     == [i \in 1..Least(MaxEvents, n) |-> n - Least(MaxEvents, n) + i]

Rings ==
  /\ next \in [Ids -> Nat \ {0}] /\ events \in [Ids -> Seq(Nat)]
  /\ \A c \in Ids : events[c] = Kept(next[c] - 1)

Maps ==
  /\ open \subseteq Ids /\ IsFiniteSet(open) /\ Cardinality(open) <= MaxConversations
  /\ targets \in [Ids -> SUBSET Targets] /\ owner \in [Targets -> Ids \cup {Nobody}]
  /\ \A c \in Ids : /\ Cardinality(targets[c]) <= MaxTargets
                    /\ targets[c] = {t \in Targets : owner[t] = c}
                    /\ c \in open \/ targets[c] = {}
Closed == \A c \in Ids : c \in open \/ next[c] = 1

(* The conversations of the Task, made one after another                   *)
Threads ==
  /\ opening \in (Made \cap open) \cup {Nobody}
  /\ bound \subseteq open \cap Made /\ opening \notin bound
  /\ bound \cup ({opening} \ {Nobody}) \subseteq used /\ used \subseteq Ids
  /\ session \in {"live", "terminal", "gone"}

ChannelInv == instance \in 1..MaxInstances /\ Rings /\ Maps /\ Closed /\ Threads

----------------------------------------------------------------------------
(* The page                                                                *)

Kinds   == {"none", "unknown_conversation", "cursor_invalid", "cursor_expired", "ok"}
Answered == [instance : Nat, kind : Kinds, events : Seq(Nat), latest : Nat, oldest : Nat]
Polls   == [id : Ids, after : Int, answer : Answered]
Pages   ==
  [own : Own, opened : Made \cup {Nobody}, selected : {"dispatcher", "task"},
   task : {"live", "terminal", "gone"}, instance : Nat, cursor : Int, rendered : Int,
   started : BOOLEAN, connected : BOOLEAN, loop : {"off", "asking", "resting"},
   attempts : Nat, polls : SUBSET Polls, saved : [Ids -> Int], begun : SUBSET Ids,
   alert : BOOLEAN, shown : [Ids -> Seq(Int)], told : [Ids -> SUBSET Int], crossed : SUBSET Ids]
Ops ==
  [phase : {"idle", "health", "tasks", "post", "create"}, task : {"dispatcher", "task"},
   id : Ids \cup {Nobody}, answer : Nat, join : BOOLEAN, news : BOOLEAN, checked : Nat]

(* An answer is never of a daemon older than the one the page knows.       *)
Fit(p) ==
  /\ p \in Pages /\ p.instance <= instance
  /\ \A q \in p.polls : q.answer = NoAnswer \/ p.instance <= q.answer.instance
  /\ \A q \in p.polls : q.answer.instance <= instance

(* The Task's conversation that the page has is bound, in the daemon that  *)
(* the page knows.                                                         *)
Attached(p) == p.opened # Nobody /\ p.instance = instance => p.opened \in bound

(* Where each operation may stand                                          *)
Stands(o, s) ==
  /\ s \in Ops
  /\ o = "connect" => s.phase \in {"idle", "health", "tasks"} /\ (s.phase = "health" => s.join)
  /\ o = "send"    => /\ s.phase \in {"idle", "health", "tasks", "post"}
                      /\ s.phase = "post" => s.id \in Ids
  /\ o = "select"  => /\ s.phase \in {"idle", "health", "create"} /\ s.id \in used \cup {Nobody}
                      /\ s.id # Nobody => s.phase = "create"
                      /\ s.answer = 201 => s.phase = "create" /\ s.id \in bound

Operating ==
  /\ op \in [Operations -> Ops] /\ \A o \in Operations : Stands(o, op[o])
  /\ inbox \subseteq Ids

Sending(p) ==
  /\ op["send"].checked <= p.instance
  /\ op["send"].phase = "post" /\ op["send"].id \in Made /\ op["send"].checked = instance
       => op["send"].id \in bound

PageInv == Fit(page) /\ Attached(page) /\ Operating /\ Sending(page)

----------------------------------------------------------------------------
(* The timeline                                                            *)

Shown(p, c) == ToSet(p.shown[c]) \cup p.told[c]
Own2(p)     == {p.own, p.opened} \ {Nobody}

(* What an answer says to the request that it is for                       *)
Honest(q) ==
  LET a == q.answer IN
  CASE a.kind = "ok"             -> /\ q.after <= a.latest
                                    /\ a.events = [i \in 1..(a.latest - q.after) |-> q.after + i]
    [] a.kind = "cursor_expired" -> q.after + 1 < a.oldest /\ a.oldest <= a.latest
    [] OTHER                     -> a.kind = "unknown_conversation"

Proper(a) == a.kind # "none" /\ (a.kind = "cursor_expired" => a.oldest # 0)

(* One request at most, from the cursor of a conversation that the page    *)
(* has, though perhaps not of the one shown.  It is answered as a cursor   *)
(* deserves that only that conversation's events have moved.               *)
OneRequest(p) ==
  /\ p.loop # "asking" => p.polls = {}
  /\ \A q \in p.polls :
       /\ p.polls = {q} /\ q.id \in Own2(p) /\ q.after = p.saved[q.id]
       /\ q.answer = NoAnswer \/ Proper(q.answer)
       /\ q.answer.instance = p.instance /\ q.id \notin p.crossed
            => q.answer = NoAnswer \/ Honest(q)

(* A cursor is what the user saw of a conversation, unless another's       *)
(* request has moved it.                                                   *)
Timeline(p) ==
  /\ p.cursor = p.saved[Active(p)] /\ p.saved \in [Ids -> Nat]
  /\ Active(p) \notin p.crossed => p.rendered <= p.cursor
  /\ \A c \in Ids \ p.crossed :
       /\ Shown(p, c) \subseteq 1..p.saved[c]
       /\ \A i, j \in DOMAIN p.shown[c] : i < j => p.shown[c][i] < p.shown[c][j]
       /\ ToSet(p.shown[c]) \cap p.told[c] = {}
  /\ \A c \in Own2(p) \ p.crossed : 1..p.saved[c] \subseteq Shown(p, c)

(* In the daemon that the page knows, no such cursor is past the last      *)
(* event.                                                                  *)
Behaved(p) ==
  p.instance = instance =>
    /\ \A c \in Own2(p) \ p.crossed : p.saved[c] < next[c]
    /\ \A q \in p.polls : q.answer.instance = instance => q.answer.latest < next[q.id]

Blanks(p, c) == p.saved[c] = 0 /\ p.shown[c] = <<>> /\ p.told[c] = {} /\ c \notin Own2(p)
Unused(p) ==
  /\ \A c \in Ids \ used : Blanks(p, c) /\ c \notin p.begun
  /\ op["select"].id # Nobody => Blanks(p, op["select"].id)

(* A Task gets a conversation while the page has none for it.              *)
Picks(p) ==
  /\ op["select"].phase # "idle" => op["select"].task = "task" /\ p.opened = Nobody
  /\ p.own \in used

Truthful(p) == OneRequest(p) /\ Timeline(p) /\ Behaved(p)
TimelineInv == Truthful(page) /\ Unused(page) /\ Picks(page)

----------------------------------------------------------------------------
(* Rings and their tails                                                   *)

LEMMA LeastOf ==
  ASSUME NEW a \in Int, NEW b \in Int
  PROVE  Min({a, b}) = Least(a, b)
<1>1. \E x \in {a, b} : \A y \in {a, b} : x <= y
  OBVIOUS
<1>2. Min({a, b}) \in {a, b} /\ \A y \in {a, b} : Min({a, b}) <= y
  BY <1>1 DEF Min
<1> QED
  BY <1>2 DEF Least

LEMMA MostOf ==
  ASSUME NEW a \in Int, NEW b \in Int
  PROVE  Max({a, b}) = IF a >= b THEN a ELSE b
<1>1. \E x \in {a, b} : \A y \in {a, b} : x >= y
  OBVIOUS
<1>2. Max({a, b}) \in {a, b} /\ \A y \in {a, b} : Max({a, b}) >= y
  BY <1>1 DEF Max
<1> QED
  BY <1>2

(* A ring is a sequence of cursors, the last of them at its end.           *)
LEMMA KeptIs ==
  ASSUME NEW n \in Nat
  PROVE  /\ Least(MaxEvents, n) \in Nat /\ Kept(n) \in Seq(Nat)
         /\ Len(Kept(n)) = Least(MaxEvents, n) /\ DOMAIN Kept(n) = 1..Least(MaxEvents, n)
         /\ \A i \in 1..Least(MaxEvents, n) : Kept(n)[i] = n - Least(MaxEvents, n) + i
<1>1. Least(MaxEvents, n) \in Nat /\ Least(MaxEvents, n) <= n
  BY HttpChannelAssumption DEF Least
<1>2. PICK l \in Nat : l = Least(MaxEvents, n) /\ l <= n
  BY <1>1
<1>3. \A i \in 1..l : n - l + i \in Nat
  BY <1>2
<1>4. [i \in 1..l |-> n - l + i] \in Seq(Nat)
  BY <1>3
<1> QED
  BY <1>2, <1>4 DEF Kept

(* The end of a sequence; sequences that agree in each place               *)
IsEnd(r, es, f) == Len(r) = Len(es) - f + 1 /\ \A i \in 1..Len(r) : r[i] = es[f + i - 1]

LEMMA PieceIs ==
  ASSUME NEW S, NEW es \in Seq(S), NEW f \in Nat \ {0}, NEW l \in Nat, l = Len(es), f <= l + 1
  PROVE  SubSeq(es, f, l) \in Seq(S) /\ IsEnd(SubSeq(es, f, l), es, f)
<1>1. \A i \in f..l : es[i] \in S
  OBVIOUS
<1>2. /\ SubSeq(es, f, l) \in Seq(S)
      /\ Len(SubSeq(es, f, l)) = IF f <= l THEN l - f + 1 ELSE 0
      /\ \A i \in 1..(l - f + 1) : SubSeq(es, f, l)[i] = es[f + i - 1]
  BY <1>1, SubSeqProperties, SMTT(30)
<1>3. Len(SubSeq(es, f, l)) = l - f + 1
  BY <1>2
<1> QED
  BY <1>2, <1>3 DEF IsEnd

LEMMA SameSeq ==
  ASSUME NEW S, NEW q \in Seq(S), NEW r \in Seq(S), NEW n \in Nat, Len(q) = n, Len(r) = n,
         \A i \in 1..n : q[i] = r[i]
  PROVE  q = r
BY SeqEqual

(* k more events in a full or a growing ring                               *)
LEMMA RingGrows ==
  ASSUME NEW n \in Nat, NEW k \in Nat
  PROVE  Ring(Kept(n) \o [i \in 1..k |-> n + 1 + i - 1]) = Kept(n + k)
<1> DEFINE new == [i \in 1..k |-> n + 1 + i - 1]
<1>1. new \in Seq(Nat) /\ Len(new) = k /\ \A i \in 1..k : new[i] = n + i
  <2>1. \A i \in 1..k : n + 1 + i - 1 \in Nat
    OBVIOUS
  <2>2. new \in Seq(Nat)
    BY <2>1
  <2> QED
    BY <2>2
<1>2. PICK l \in Nat, m \in Nat, u \in Nat :
        l = Least(MaxEvents, n) /\ m = Least(MaxEvents, n + k) /\ u = MaxEvents
  <2>1. Least(MaxEvents, n) \in Nat
    BY KeptIs
  <2>2. n + k \in Nat
    OBVIOUS
  <2>3. Least(MaxEvents, n + k) \in Nat
    BY <2>2, KeptIs
  <2> QED
    BY <2>1, <2>3, HttpChannelAssumption
<1>3. l = (IF u <= n THEN u ELSE n) /\ m = (IF u <= n + k THEN u ELSE n + k)
  BY <1>2 DEF Least
<1>4. PICK es \in Seq(Nat) : es = Kept(n) \o new
  BY <1>1, KeptIs, ConcatProperties
<1>5. Len(es) = l + k /\ \A i \in 1..(l + k) : es[i] = n - l + i
  <2>1. Len(Kept(n)) = l /\ \A i \in 1..l : Kept(n)[i] = n - l + i
    BY <1>2, KeptIs
  <2>2. Len(es) = l + k /\ \A i \in 1..(l + k) : es[i] = IF i <= l THEN Kept(n)[i] ELSE new[i - l]
    <3>1. Kept(n) \in Seq(Nat)
      BY KeptIs
    <3>2. /\ Len(Kept(n) \o new) = Len(Kept(n)) + Len(new)
          /\ \A i \in 1..(Len(Kept(n)) + Len(new)) :
               (Kept(n) \o new)[i] = IF i <= Len(Kept(n)) THEN Kept(n)[i] ELSE new[i - Len(Kept(n))]
      BY <1>1, <3>1, ConcatProperties
    <3> HIDE DEF new
    <3> QED
      BY <1>1, <1>4, <2>1, <3>2
  <2> HIDE DEF new
  <2>3. ASSUME NEW i \in 1..(l + k) PROVE es[i] = n - l + i
    <3>1. CASE i <= l
      BY <2>1, <2>2, <3>1
    <3>2. CASE ~(i <= l)
      <4>1. i - l \in 1..k /\ es[i] = new[i - l]
        BY <2>2, <3>2
      <4> QED
        BY <1>1, <4>1
    <3> QED
      BY <3>1, <3>2
  <2> QED
    BY <2>2, <2>3
<1> HIDE DEF new
<1>6. PICK f \in Nat \ {0} : f = (IF l + k > u THEN l + k - u + 1 ELSE 1) /\ f <= l + k + 1
  <2>1. CASE l + k > u
    <3>1. l + k - u + 1 \in Nat \ {0} /\ l + k - u + 1 <= l + k + 1
      BY <2>1
    <3> QED
      BY <2>1, <3>1
  <2>2. CASE ~(l + k > u)
    BY <2>2
  <2> QED
    BY <2>1, <2>2
<1>7. PICK e \in Nat : e = l + k /\ Len(es) = e /\ f <= e + 1
  BY <1>5, <1>6
<1>8. Ring(es) = SubSeq(es, f, e)
  <2>1. f = IF Len(es) > MaxEvents THEN Len(es) - MaxEvents + 1 ELSE 1
    BY <1>2, <1>6, <1>7
  <2> QED
    BY <1>7, <2>1 DEF Ring
<1>9. PICK r \in Seq(Nat) : r = Ring(es) /\ Len(r) = m /\ \A i \in 1..m : r[i] = es[f + i - 1]
  <2>1. e - f + 1 = m
    BY <1>3, <1>6, <1>7
  <2>2. PICK r \in Seq(Nat) : r = SubSeq(es, f, e) /\ IsEnd(r, es, f)
    BY <1>7, PieceIs
  <2>3. Len(r) = m
    BY <1>7, <2>1, <2>2 DEF IsEnd
  <2> QED
    BY <1>8, <2>2, <2>3 DEF IsEnd
<1>10. \A i \in 1..m : r[i] = n + k - m + i
  <2>1. ASSUME NEW i \in 1..m PROVE r[i] = n + k - m + i
    <3>1. PICK x \in 1..(l + k) : x = f + i - 1 /\ r[i] = es[x]
      <4>1. f + i - 1 \in 1..(l + k)
        BY <1>3, <1>6, <1>7
      <4> QED
        BY <1>9, <4>1
    <3>2. r[i] = n - l + x
      BY <1>5, <3>1
    <3> QED
      BY <1>3, <1>6, <1>7, <3>1, <3>2
  <2> QED
    BY <2>1
<1>11. PICK t \in Seq(Nat) : t = Kept(n + k) /\ Len(t) = m /\ \A i \in 1..m : t[i] = n + k - m + i
  <2>1. PICK x \in Nat : x = n + k
    OBVIOUS
  <2>2. /\ Kept(x) \in Seq(Nat) /\ Len(Kept(x)) = Least(MaxEvents, x)
        /\ \A i \in 1..Least(MaxEvents, x) : Kept(x)[i] = x - Least(MaxEvents, x) + i
    BY KeptIs
  <2> QED
    BY <1>2, <2>1, <2>2
<1>12. r = t
  <2>1. \A i \in 1..m : r[i] = t[i]
    BY <1>10, <1>11
  <2> QED
    BY <1>9, <1>11, <2>1, SameSeq
<1> QED
  BY <1>4, <1>9, <1>11, <1>12 DEF new

(* How many of a sequence's first members a cursor has passed              *)
Skipped(es, n) == Cardinality({i \in DOMAIN es : es[i] <= n})

LEMMA Skips ==
  ASSUME NEW S, NEW es \in Seq(S), NEW n \in Int
  PROVE  Skipped(es, n) \in Nat /\ Skipped(es, n) <= Len(es)
<1> DEFINE low == {i \in DOMAIN es : es[i] <= n}
<1>1. PICK l \in Nat : l = Len(es) /\ DOMAIN es = 1..l
  OBVIOUS
<1>2. IsFiniteSet(1..l) /\ Cardinality(1..l) = l
  <2>1. IsFiniteSet(1..l) /\ Cardinality(1..l) = IF 1 > l THEN 0 ELSE l - 1 + 1
    BY FS_Interval
  <2> QED
    BY <2>1
<1>3. low \in SUBSET (1..l)
  BY <1>1
<1>4. IsFiniteSet(low) /\ Cardinality(low) <= l
  BY <1>2, <1>3, FS_Subset
<1>5. Cardinality(low) \in Nat
  BY <1>4, FS_CardinalityType
<1> QED
  BY <1>1, <1>4, <1>5 DEF Skipped

LEMMA AfterAny ==
  ASSUME NEW S, NEW es \in Seq(S), NEW n \in Int
  PROVE  /\ After(es, n) \in Seq(S)
         /\ (\A i \in DOMAIN es : ~(es[i] <= n)) => After(es, n) = es
<1>1. PICK k \in Nat, l \in Nat : k = Skipped(es, n) /\ k <= l /\ l = Len(es)
  BY Skips
<1>2. PICK f \in Nat \ {0} : f = k + 1 /\ f <= l + 1
  BY <1>1
<1>3. After(es, n) = SubSeq(es, f, l)
  BY <1>1, <1>2 DEF After, Skipped
<1>4. SubSeq(es, f, l) \in Seq(S)
  BY <1>1, <1>2, PieceIs
<1>5. ASSUME \A i \in DOMAIN es : ~(es[i] <= n) PROVE After(es, n) = es
  <2>1. {i \in DOMAIN es : es[i] <= n} = {}
    BY <1>5
  <2>2. k = 0
    BY <1>1, <2>1, FS_EmptySet DEF Skipped
  <2>3. f = 1
    BY <1>2, <2>2
  <2> QED
    BY <1>1, <1>3, <2>3, SubSeqFull
<1> QED
  BY <1>3, <1>4, <1>5

(* The tail past a cursor that the ring has not lost                       *)
LEMMA AfterIs ==
  ASSUME NEW n \in Nat, NEW a \in Nat, a <= n, n - Least(MaxEvents, n) <= a
  PROVE  After(Kept(n), a) = [i \in 1..(n - a) |-> a + i]
<1>1. PICK l \in Nat, es \in Seq(Nat) :
        /\ l = Least(MaxEvents, n) /\ es = Kept(n) /\ Len(es) = l /\ DOMAIN es = 1..l
        /\ \A i \in 1..l : es[i] = n - l + i
  BY KeptIs
<1>2. PICK k \in Nat : k = a - (n - l) /\ k <= l
  BY <1>1
<1>3. {i \in DOMAIN es : es[i] <= a} = 1..k
  <2>1. \A i \in 1..l : es[i] <= a <=> i <= k
    BY <1>1, <1>2
  <2>2. 1..k = {i \in 1..l : i <= k}
    BY <1>2
  <2> QED
    BY <1>1, <2>1, <2>2
<1>4. Cardinality(1..k) = k
  <2>1. Cardinality(1..k) = IF 1 > k THEN 0 ELSE k - 1 + 1
    BY FS_Interval
  <2> QED
    BY <2>1
<1>5. After(es, a) = SubSeq(es, k + 1, l)
  BY <1>1, <1>3, <1>4 DEF After
<1>6. PICK r \in Seq(Nat), d \in Nat : /\ r = After(es, a) /\ d = n - a /\ d = l - k /\ Len(r) = d
                                       /\ \A i \in 1..d : r[i] = es[k + i]
  <2>1. PICK f \in Nat \ {0} : f = k + 1 /\ f <= l + 1
    BY <1>2
  <2>2. PICK r \in Seq(Nat) : r = SubSeq(es, f, l) /\ IsEnd(r, es, f)
    BY <1>1, <2>1, PieceIs
  <2>3. PICK d \in Nat : d = n - a /\ d = l - k /\ d = l - f + 1 /\ \A i \in 1..d : f + i - 1 = k + i
    BY <1>2, <2>1
  <2>4. r = After(es, a) /\ Len(r) = d
    BY <1>1, <1>5, <2>1, <2>2, <2>3 DEF IsEnd
  <2>5. \A i \in 1..d : r[i] = es[k + i]
    BY <2>2, <2>3, <2>4 DEF IsEnd
  <2> QED
    BY <2>3, <2>4, <2>5
<1>7. PICK t \in Seq(Nat) : /\ t = [i \in 1..(n - a) |-> a + i] /\ Len(t) = d
                             /\ \A i \in 1..d : t[i] = a + i
  <2>1. \A i \in 1..d : a + i \in Nat
    OBVIOUS
  <2>2. /\ [i \in 1..d |-> a + i] \in Seq(Nat) /\ Len([i \in 1..d |-> a + i]) = d
        /\ \A i \in 1..d : [j \in 1..d |-> a + j][i] = a + i
    BY <2>1
  <2> QED
    BY <1>6, <2>2
<1>8. ASSUME NEW i \in 1..d PROVE r[i] = t[i]
  <2>1. PICK x \in 1..l : x = k + i
    BY <1>2, <1>6
  <2>2. r[i] = n - l + x
    BY <1>1, <1>6, <2>1
  <2> QED
    BY <1>2, <1>6, <1>7, <2>1, <2>2
<1>9. r = t
  BY <1>6, <1>7, <1>8, SameSeq
<1> QED
  BY <1>1, <1>6, <1>7, <1>9

----------------------------------------------------------------------------
(* The channel's steps                                                     *)

LEMMA AppendsKeeps ==
  ASSUME Rings, NEW c \in Ids, NEW k \in Nat, Appends(c, k)
  PROVE  /\ Rings' /\ \A d \in Ids : next[d] <= next'[d] /\ (d # c => next'[d] = next[d])
<1>1. PICK n \in Nat : n = next[c] - 1 /\ next[c] = n + 1 /\ events[c] = Kept(n)
  BY DEF Rings
<1>2. next' = [next EXCEPT ![c] = @ + k] /\ next' \in [Ids -> Nat \ {0}] /\ next'[c] = n + k + 1
  BY <1>1 DEF Appends, Rings
<1>3. PICK ring : ring = Ring(Kept(n) \o [i \in 1..k |-> n + 1 + i - 1])
  OBVIOUS
<1>4. ring = Kept(n + k) /\ ring \in Seq(Nat)
  <2>1. PICK m \in Nat : m = n + k
    OBVIOUS
  <2> QED
    BY <1>3, <2>1, RingGrows, KeptIs
<1>5. events' = [events EXCEPT ![c] = ring]
  BY <1>1, <1>3 DEF Appends
<1>6. events' \in [Ids -> Seq(Nat)]
  BY <1>4, <1>5 DEF Rings
<1>7. ASSUME NEW d \in Ids PROVE events'[d] = Kept(next'[d] - 1)
  <2>1. CASE d = c
    <3>1. next'[c] - 1 = n + k
      BY <1>2
    <3> QED
      BY <1>4, <1>5, <2>1, <3>1 DEF Rings
  <2>2. CASE d # c
    BY <1>2, <1>5, <2>2 DEF Rings
  <2> QED
    BY <2>1, <2>2
<1>8. \A d \in Ids : next[d] <= next'[d] /\ (d # c => next'[d] = next[d])
  <2>1. \A d \in Ids : d # c => next'[d] = next[d]
    BY <1>2 DEF Rings
  <2>2. \A d \in Ids : next[d] \in Nat
    BY DEF Rings
  <2> QED
    BY <1>1, <1>2, <2>1, <2>2
<1> QED
  BY <1>2, <1>6, <1>7, <1>8 DEF Rings

LEMMA ClaimedKeeps ==
  ASSUME Maps, NEW c \in Ids, NEW ts \in SUBSET Targets, HasRoom(c), ts = {} \/ Claims(c, ts),
         Claimed(c, ts)
  PROVE  Maps' /\ open' = open \cup {c}
<1>1. open' = open \cup {c} /\ open' \subseteq Ids
  BY DEF Claimed, Maps
<1>2. IsFiniteSet(open') /\ Cardinality(open') <= MaxConversations
  <2>1. /\ IsFiniteSet(open \cup {c})
        /\ Cardinality(open \cup {c}) = IF c \in open THEN Cardinality(open) ELSE Cardinality(open) + 1
    BY FS_AddElement DEF Maps
  <2>2. Cardinality(open) \in Nat
    BY FS_CardinalityType DEF Maps
  <2> QED
    BY <1>1, <2>1, <2>2, HttpChannelAssumption DEF HasRoom, Maps
<1>3. targets' \in [Ids -> SUBSET Targets] /\ owner' \in [Targets -> Ids \cup {Nobody}]
  BY DEF Claimed, Maps
<1>4. targets'[c] = targets[c] \cup ts /\ \A d \in Ids : d # c => targets'[d] = targets[d]
  BY DEF Claimed, Maps
<1>5. \A t \in Targets : owner'[t] = IF t \in ts THEN c ELSE owner[t]
  BY DEF Claimed
<1>6. \A t \in ts : owner[t] \in {Nobody, c}
  BY DEF Claims
<1>7. Cardinality(targets'[c]) <= MaxTargets
  <2>1. CASE ts = {}
    <3>1. targets'[c] = targets[c]
      BY <1>4, <2>1
    <3> QED
      BY <3>1 DEF Maps
  <2>2. CASE Claims(c, ts)
    BY <1>4, <2>2 DEF Claims
  <2> QED
    BY <2>1, <2>2
<1>8. targets[c] = {t \in Targets : owner[t] = c}
  BY DEF Maps
<1>9. targets'[c] = {t \in Targets : owner'[t] = c}
  BY <1>4, <1>5, <1>8
<1>10. ASSUME NEW d \in Ids, d # c
       PROVE  targets'[d] = {t \in Targets : owner'[t] = d}
  <2>1. d # Nobody /\ targets[d] = {t \in Targets : owner[t] = d}
    BY HttpChannelAssumption DEF Maps
  <2>2. \A t \in Targets : owner'[t] = d <=> owner[t] = d
    BY <1>5, <1>6, <1>10, <2>1
  <2> QED
    BY <1>4, <1>10, <2>1, <2>2
<1>11. \A d \in Ids : d # c => Cardinality(targets'[d]) <= MaxTargets /\ (d \in open' \/ targets'[d] = {})
  BY <1>1, <1>4 DEF Maps
<1>12. ASSUME NEW d \in Ids
       PROVE  /\ Cardinality(targets'[d]) <= MaxTargets
              /\ targets'[d] = {t \in Targets : owner'[t] = d}
              /\ d \in open' \/ targets'[d] = {}
  BY <1>1, <1>7, <1>9, <1>10, <1>11
<1> QED
  BY <1>1, <1>2, <1>3, <1>12 DEF Maps

(* A use of the lock that gives c targets and events                       *)
Serves(c) ==
  /\ \E ts \in SUBSET Targets : HasRoom(c) /\ (ts = {} \/ Claims(c, ts)) /\ Claimed(c, ts)
  /\ UNCHANGED <<events, next>> \/ \E k \in 1..2 : Appends(c, k)

LEMMA ServesKeeps ==
  ASSUME Rings, Maps, Closed, NEW c \in Ids, Serves(c)
  PROVE  /\ Rings' /\ Maps' /\ Closed' /\ open' = open \cup {c}
         /\ \A d \in Ids : next[d] <= next'[d]
<1>1. Maps' /\ open' = open \cup {c}
  BY ClaimedKeeps DEF Serves
<1>2. CASE UNCHANGED <<events, next>>
  <2>1. Rings' /\ Closed'
    BY <1>1, <1>2 DEF Rings, Closed
  <2>2. \A d \in Ids : next[d] \in Nat /\ next[d] <= next'[d]
    BY <1>2 DEF Rings
  <2> QED
    BY <1>1, <2>1, <2>2
<1>3. CASE \E k \in 1..2 : Appends(c, k)
  <2>1. PICK k \in Nat : Appends(c, k)
    BY <1>3
  <2>2. Rings' /\ \A d \in Ids : next[d] <= next'[d] /\ (d # c => next'[d] = next[d])
    BY <2>1, AppendsKeeps
  <2>3. Closed'
    BY <1>1, <2>2 DEF Closed
  <2> QED
    BY <1>1, <2>2, <2>3
<1> QED
  BY <1>2, <1>3 DEF Serves

LEMMA FreshIs ==
  ASSUME NEW t, Fresh(t)
  PROVE  t \in Targets /\ {t} \in SUBSET Targets
BY DEF Fresh, Free

LEMMA ShowEventServes ==
  ASSUME NEW c \in Ids, NEW k, ShowEvent(c, k)
  PROVE  Serves(c) /\ UNCHANGED <<instance, bound, opening, session>>
<1>1. PICK t \in Targets :
        /\ Fresh(t)
        /\ CASE k = "started"  -> Claims(c, {t}) /\ Claimed(c, {t}) /\ Appends(c, 1)
             [] k = "accepted" -> /\ HasRoom(c)
                                  /\ IF Claims(c, {t})
                                     THEN Claimed(c, {t}) /\ Appends(c, 2)
                                     ELSE Claimed(c, {}) /\ Appends(c, 1)
             [] OTHER          -> HasRoom(c) /\ Claimed(c, {}) /\ Appends(c, 1)
  BY DEF ShowEvent
<1>2. {t} \in SUBSET Targets /\ {} \in SUBSET Targets /\ 1 \in 1..2 /\ 2 \in 1..2
  OBVIOUS
<1>3. Claims(c, {t}) => HasRoom(c)
  BY DEF Claims
<1>4. \/ Claims(c, {t}) /\ Claimed(c, {t}) /\ (Appends(c, 1) \/ Appends(c, 2))
      \/ HasRoom(c) /\ Claimed(c, {}) /\ Appends(c, 1)
  <2>1. CASE k = "started"
    BY <1>1, <2>1
  <2>2. CASE k = "accepted"
    BY <1>1, <2>2
  <2>3. CASE k # "started" /\ k # "accepted"
    BY <1>1, <2>3
  <2> QED
    BY <2>1, <2>2, <2>3
<1>5. Serves(c)
  BY <1>2, <1>3, <1>4 DEF Serves
<1> QED
  BY <1>5 DEF ShowEvent

LEMMA SendTextServes ==
  ASSUME NEW c \in Ids, SendText(c)
  PROVE  Serves(c) /\ UNCHANGED <<instance, bound, opening, session>>
<1>1. PICK t \in Targets : Claims(c, {t}) /\ Claimed(c, {t})
  BY DEF SendText
<1>2. {t} \in SUBSET Targets /\ HasRoom(c) /\ 1 \in 1..2
  BY <1>1 DEF Claims
<1> QED
  BY <1>1, <1>2 DEF Serves, SendText

LEMMA AcceptMessageServes ==
  ASSUME NEW c \in Ids, NEW t \in Targets, AcceptMessage(c, t)
  PROVE  Serves(c) /\ UNCHANGED <<instance, next, bound, opening, session>>
<1>1. {t} \in SUBSET Targets /\ HasRoom(c)
  BY DEF Claims, AcceptMessage
<1> QED
  BY <1>1 DEF Serves, AcceptMessage

LEMMA CreateThreadServes ==
  ASSUME NEW c \in Ids, CreateThread(c)
  PROVE  Serves(c) /\ opening = Nobody /\ opening' = c /\ UNCHANGED <<instance, bound, session>>
<1>1. PICK t \in Targets : Claims(c, {t}) /\ Claimed(c, {t})
  BY DEF CreateThread
<1>2. {t} \in SUBSET Targets /\ HasRoom(c) /\ 1 \in 1..2
  BY <1>1 DEF Claims
<1> QED
  BY <1>1, <1>2 DEF Serves, CreateThread

LEMMA KeptNone ==
  Kept(0) = <<>> /\ <<>> \in Seq(Nat)
<1>1. Least(MaxEvents, 0) = 0
  BY HttpChannelAssumption DEF Least
<1> QED
  BY <1>1 DEF Kept

LEMMA BlankKeeps ==
  ASSUME open = {}, events = [c \in Ids |-> <<>>], next = [c \in Ids |-> 1],
         targets = [c \in Ids |-> {}], owner = [t \in Targets |-> Nobody]
  PROVE  Rings /\ Maps /\ Closed
<1>1. Rings
  BY KeptNone DEF Rings
<1>2. IsFiniteSet({}) /\ Cardinality({}) = 0
  BY FS_EmptySet
<1>3. Cardinality(open) <= MaxConversations /\ IsFiniteSet(open)
  BY <1>2, HttpChannelAssumption
<1>4. \A c \in Ids : Cardinality(targets[c]) <= MaxTargets /\ targets[c] = {} /\ next[c] = 1
  BY <1>2, HttpChannelAssumption
<1>5. \A c \in Ids : targets[c] = {t \in Targets : owner[t] = c}
  BY HttpChannelAssumption
<1>6. targets \in [Ids -> SUBSET Targets] /\ owner \in [Targets -> Ids \cup {Nobody}]
  OBVIOUS
<1> QED
  BY <1>1, <1>3, <1>4, <1>5, <1>6 DEF Maps, Closed

LEMMA RollBackKeeps ==
  ASSUME Rings, Maps, Closed, Threads, RollBackConversation
  PROVE  /\ Rings' /\ Maps' /\ Closed' /\ open' = open \ {opening} /\ opening \in Ids
         /\ \A d \in Ids : d # opening => next'[d] = next[d]
<1>1. opening \in Ids /\ opening # Nobody /\ open' = open \ {opening}
  BY DEF RollBackConversation, Threads, Maps
<1>2. /\ events' = [events EXCEPT ![opening] = <<>>] /\ next' = [next EXCEPT ![opening] = 1]
      /\ targets' = [targets EXCEPT ![opening] = {}]
      /\ owner' = [t \in Targets |-> IF t \in targets[opening] /\ owner[t] = opening
                                     THEN Nobody ELSE owner[t]]
  BY DEF RollBackConversation
<1>3. Rings'
  BY <1>1, <1>2, KeptNone DEF Rings
<1>4. IsFiniteSet(open') /\ Cardinality(open') <= MaxConversations
  <2>1. open \ {opening} \in SUBSET open
    OBVIOUS
  <2>2. /\ IsFiniteSet(open \ {opening}) /\ Cardinality(open \ {opening}) <= Cardinality(open)
        /\ Cardinality(open \ {opening}) \in Nat /\ Cardinality(open) \in Nat
    BY <2>1, FS_Subset, FS_CardinalityType DEF Maps
  <2> QED
    BY <1>1, <2>2, HttpChannelAssumption DEF Maps
<1>5. targets' \in [Ids -> SUBSET Targets] /\ owner' \in [Targets -> Ids \cup {Nobody}]
  BY <1>2 DEF Maps
<1>6. ASSUME NEW c \in Ids
      PROVE  /\ Cardinality(targets'[c]) <= MaxTargets
             /\ targets'[c] = {t \in Targets : owner'[t] = c}
             /\ c \in open' \/ targets'[c] = {}
  <2>1. \A t \in Targets : owner'[t] = IF t \in targets[opening] /\ owner[t] = opening
                                       THEN Nobody ELSE owner[t]
    BY <1>2
  <2>2. c # Nobody /\ targets[c] = {t \in Targets : owner[t] = c}
        /\ targets[opening] = {t \in Targets : owner[t] = opening}
    BY <1>1, HttpChannelAssumption DEF Maps
  <2>3. CASE c = opening
    <3>1. targets'[c] = {} /\ Cardinality({}) = 0
      BY <1>1, <1>2, <2>3, FS_EmptySet DEF Maps
    <3>2. \A t \in Targets : owner'[t] # c
      BY <2>1, <2>2, <2>3
    <3> QED
      BY <3>1, <3>2, HttpChannelAssumption
  <2>4. CASE c # opening
    <3>1. targets'[c] = targets[c]
      BY <1>1, <1>2, <2>4 DEF Maps
    <3>2. \A t \in Targets : owner'[t] = c <=> owner[t] = c
      BY <2>1, <2>2, <2>4
    <3> QED
      BY <1>1, <2>2, <2>4, <3>1, <3>2 DEF Maps
  <2> QED
    BY <2>3, <2>4
<1>7. \A d \in Ids : d # opening => next'[d] = next[d]
  BY <1>2 DEF Rings
<1>8. Closed'
  BY <1>1, <1>2, <1>7 DEF Closed, Rings
<1> QED
  BY <1>1, <1>3, <1>4, <1>5, <1>6, <1>7, <1>8 DEF Maps

----------------------------------------------------------------------------
(* Every step, by what it does to the channel                              *)

(* Nothing, but for the ids that the page makes                            *)
Apart == /\ UNCHANGED <<server>>
         /\ used' = used \/ \E c \in Own : used' = used \cup {c}

(* The daemon goes on: no conversation bound is lost, no event taken back, *)
(* but for the conversation that is rolled back.                           *)
GoesOn ==
  /\ used \subseteq used'
  /\ \/ /\ instance' = instance /\ bound \subseteq bound'
        /\ \A c \in Ids \ {opening} : next[c] <= next'[c]
     \/ instance' = instance + 1

LEMMA ApartKeeps ==
  ASSUME ChannelInv, Apart
  PROVE  ChannelInv' /\ GoesOn
<1> USE WebClientAssumption
<1>1. Rings' /\ Maps' /\ Closed' /\ instance' \in 1..MaxInstances
  BY DEF ChannelInv, Apart, server, Rings, Maps, Closed
<1>2. Threads'
  BY DEF ChannelInv, Apart, server, Threads
<1>3. \A c \in Ids : next[c] <= next'[c]
  BY DEF ChannelInv, Apart, server, Rings
<1> QED
  BY <1>1, <1>2, <1>3 DEF ChannelInv, GoesOn, Apart, server

LEMMA ServesGoesOn ==
  ASSUME ChannelInv, NEW c \in Ids, Serves(c), UNCHANGED <<instance, bound, session>>,
         \/ UNCHANGED <<opening, used>>
         \/ opening = Nobody /\ opening' = c /\ c \in Made \ used /\ used' = used \cup {c}
  PROVE  ChannelInv' /\ GoesOn
<1>1. /\ Rings' /\ Maps' /\ Closed' /\ open' = open \cup {c}
      /\ \A d \in Ids : next[d] <= next'[d]
  BY ServesKeeps DEF ChannelInv
<1>2. Threads'
  <2>1. bound' = bound /\ session' = session /\ open \subseteq open' /\ c \in open'
    BY <1>1
  <2>2. CASE UNCHANGED <<opening, used>>
    BY <2>1, <2>2 DEF ChannelInv, Threads
  <2>3. CASE opening' = c /\ c \in Made \ used /\ used' = used \cup {c}
    BY <2>1, <2>3 DEF ChannelInv, Threads
  <2> QED
    BY <2>2, <2>3
<1> QED
  BY <1>1, <1>2 DEF ChannelInv, GoesOn

LEMMA FinishKeeps ==
  ASSUME ChannelInv, BindConversation \/ RollBackConversation, UNCHANGED used
  PROVE  ChannelInv' /\ GoesOn
<1>1. CASE BindConversation
  <2>1. /\ bound' = bound \cup {opening} /\ opening' = Nobody /\ opening # Nobody
        /\ UNCHANGED <<instance, open, events, next, targets, owner, session, used>>
    BY <1>1 DEF BindConversation
  <2>2. Rings' /\ Maps' /\ Closed'
    BY <2>1 DEF ChannelInv, Rings, Maps, Closed
  <2>3. Threads'
    BY <2>1, HttpChannelAssumption DEF ChannelInv, Threads, Maps
  <2>4. \A d \in Ids : next[d] <= next'[d]
    BY <2>1 DEF ChannelInv, Rings
  <2> QED
    BY <2>1, <2>2, <2>3, <2>4 DEF ChannelInv, GoesOn
<1>2. CASE RollBackConversation
  <2>1. /\ Rings' /\ Maps' /\ Closed' /\ open' = open \ {opening} /\ opening \in Ids
        /\ \A d \in Ids : d # opening => next'[d] = next[d]
    BY <1>2, RollBackKeeps DEF ChannelInv
  <2>2. opening # Nobody /\ opening' = Nobody /\ UNCHANGED <<instance, bound, session, used>>
    BY <1>2 DEF RollBackConversation
  <2>3. Threads'
    BY <2>1, <2>2, HttpChannelAssumption DEF ChannelInv, Threads, Maps
  <2>4. \A d \in Ids \ {opening} : next[d] <= next'[d]
    BY <2>1 DEF ChannelInv, Rings
  <2> QED
    BY <2>1, <2>2, <2>3, <2>4 DEF ChannelInv, GoesOn
<1> QED
  BY <1>1, <1>2

LEMMA EndKeeps ==
  ASSUME ChannelInv, ChangeSession, UNCHANGED used
  PROVE  ChannelInv' /\ GoesOn
<1>1. UNCHANGED <<instance, open, events, next, targets, owner, bound, opening, used>>
  BY DEF ChangeSession
<1>2. session' \in {"live", "terminal", "gone"}
  <2>1. session \in {"live", "terminal", "gone"} /\ session' \in Later[session]
    BY DEF ChangeSession, ChannelInv, Threads
  <2>2. CASE session = "live"
    BY <2>1, <2>2 DEF Later
  <2>3. CASE session = "terminal"
    BY <2>1, <2>3 DEF Later
  <2>4. CASE session = "gone"
    BY <2>1, <2>4 DEF Later
  <2> QED
    BY <2>1, <2>2, <2>3, <2>4
<1>3. Rings' /\ Maps' /\ Closed'
  BY <1>1 DEF ChannelInv, Rings, Maps, Closed
<1>4. Threads'
  BY <1>1, <1>2 DEF ChannelInv, Threads
<1>5. \A d \in Ids : next[d] <= next'[d]
  BY <1>1 DEF ChannelInv, Rings
<1> QED
  BY <1>1, <1>2, <1>3, <1>4, <1>5 DEF ChannelInv, GoesOn

(* A daemon that has just started                                          *)
Started ==
  /\ open = {} /\ events = [c \in Ids |-> <<>>] /\ next = [c \in Ids |-> 1]
  /\ targets = [c \in Ids |-> {}] /\ owner = [t \in Targets |-> Nobody]
  /\ bound = {} /\ opening = Nobody
  /\ used \subseteq Ids /\ session \in {"live", "terminal", "gone"}
  /\ instance \in 1..MaxInstances

LEMMA BlankStarts == Started => ChannelInv
<1> SUFFICES ASSUME Started PROVE ChannelInv
  OBVIOUS
<1>1. Rings /\ Maps /\ Closed
  BY BlankKeeps DEF Started
<1> QED
  BY <1>1 DEF ChannelInv, Threads, Started

Restarts ==
  /\ instance < MaxInstances /\ instance' = instance + 1
  /\ open' = {} /\ events' = [c \in Ids |-> <<>>] /\ next' = [c \in Ids |-> 1]
  /\ targets' = [c \in Ids |-> {}] /\ owner' = [t \in Targets |-> Nobody]
  /\ bound' = {} /\ opening' = Nobody /\ UNCHANGED <<session, used>>

LEMMA RestartKeeps ==
  ASSUME ChannelInv, Restarts
  PROVE  ChannelInv' /\ GoesOn
<1>1. /\ used' \subseteq Ids /\ session' \in {"live", "terminal", "gone"}
      /\ instance' \in 1..MaxInstances
  BY HttpChannelAssumption DEF ChannelInv, Threads, Restarts
<1>2. /\ open' = {} /\ events' = [c \in Ids |-> <<>>] /\ next' = [c \in Ids |-> 1]
      /\ targets' = [c \in Ids |-> {}] /\ owner' = [t \in Targets |-> Nobody]
      /\ bound' = {} /\ opening' = Nobody
  BY DEF Restarts
<1>3. Started'
  BY <1>1, <1>2 DEF Started
<1>4. ChannelInv'
  BY <1>3, BlankStarts, PTL
<1> QED
  BY <1>4 DEF GoesOn, Restarts

(* What the page's own steps leave alone                                   *)
LEMMA PageApart ==
  ASSUME \/ \E q \in page.polls : ServePoll(q) \/ PollAnswered(q) \/ PollFails(q)
         \/ PollsAgain \/ TasksPolled \/ Connect \/ Send \/ (\E t \in {"dispatcher", "task"} : Select(t))
         \/ Reset \/ Reload \/ PostAnswered \/ CreateAnswered
         \/ \E o \in Operations : OperationFails(o) \/ HealthAnswered(o) \/ TasksLoaded(o)
  PROVE  Apart
<1>1. ASSUME NEW q, ServePoll(q) \/ PollAnswered(q) \/ PollFails(q) PROVE Apart
  BY <1>1 DEF ServePoll, PollAnswered, PollFails, Apart
<1>2. PollsAgain \/ TasksPolled \/ Connect \/ Send => Apart
  BY DEF PollsAgain, TasksPolled, Connect, Send, Apart
<1>3. ASSUME NEW t, Select(t) PROVE Apart
  BY <1>3 DEF Select, Apart
<1>4. Reset \/ Reload \/ PostAnswered \/ CreateAnswered => Apart
  BY DEF Reset, Reload, PostAnswered, CreateAnswered, Apart
<1>5. ASSUME NEW o, OperationFails(o) \/ HealthAnswered(o) \/ TasksLoaded(o) PROVE Apart
  BY <1>5 DEF OperationFails, HealthAnswered, TasksLoaded, Apart
<1> QED
  BY <1>1, <1>2, <1>3, <1>4, <1>5

LEMMA NextCases ==
  ASSUME Next
  PROVE  \/ \E q \in page.polls : ServePoll(q) \/ PollAnswered(q) \/ PollFails(q)
         \/ PollsAgain \/ TasksPolled \/ Connect \/ Send \/ (\E t \in {"dispatcher", "task"} : Select(t))
         \/ Reset \/ Reload \/ PostAnswered \/ CreateAnswered
         \/ \E o \in Operations : OperationFails(o) \/ HealthAnswered(o) \/ TasksLoaded(o)
         \/ ServePost \/ ServeCreate \/ FinishCreate
         \/ \E c \in Ids : Answer(c) \/ SessionEvent(c)
         \/ SessionChanges \/ DaemonStartsAnew
BY DEF Next

LEMMA ChannelStep ==
  ASSUME ChannelInv, Operating, [Next]_vars
  PROVE  ChannelInv' /\ GoesOn
<1>1. CASE Apart
  BY <1>1, ApartKeeps
<1>2. CASE UNCHANGED vars
  <2>1. Apart
    BY <1>2 DEF vars, Apart
  <2> QED
    BY <2>1, ApartKeeps
<1>3. CASE ServePost
  <2>1. UNCHANGED used
    BY <1>3 DEF ServePost
  <2>2. CASE UNCHANGED server
    <3>1. Apart
      BY <2>1, <2>2 DEF Apart
    <3> QED
      BY <3>1, ApartKeeps
  <2>3. CASE \E t \in Targets : AcceptMessage(op["send"].id, t)
    <3>1. PICK t \in Targets : AcceptMessage(op["send"].id, t)
      BY <2>3
    <3>2. op["send"].id \in Ids
      BY <1>3 DEF ServePost, Operating, Stands, Operations
    <3>3. Serves(op["send"].id) /\ UNCHANGED <<instance, bound, opening, session>>
      BY <3>1, <3>2, AcceptMessageServes
    <3> QED
      BY <2>1, <3>2, <3>3, ServesGoesOn
  <2> QED
    BY <1>3, <2>2, <2>3 DEF ServePost
<1>4. CASE ServeCreate
  <2>1. CASE UNCHANGED <<server, used>>
    <3>1. Apart
      BY <2>1 DEF Apart
    <3> QED
      BY <3>1, ApartKeeps
  <2>2. CASE \E c \in Made \ used : CreateThread(c) /\ used' = used \cup {c}
    <3>1. PICK c \in Made \ used : CreateThread(c) /\ used' = used \cup {c}
      BY <2>2
    <3>2. c \in Ids
      BY WebClientAssumption
    <3>3. Serves(c) /\ opening = Nobody /\ opening' = c /\ UNCHANGED <<instance, bound, session>>
      BY <3>1, <3>2, CreateThreadServes
    <3> QED
      BY <3>1, <3>2, <3>3, ServesGoesOn
  <2> QED
    BY <1>4, <2>1, <2>2 DEF ServeCreate
<1>5. CASE FinishCreate
  <2>1. (BindConversation \/ RollBackConversation) /\ UNCHANGED used
    BY <1>5 DEF FinishCreate
  <2> QED
    BY <2>1, FinishKeeps
<1>6. ASSUME NEW c \in Ids, Answer(c) \/ SessionEvent(c) PROVE ChannelInv' /\ GoesOn
  <2>1. UNCHANGED used /\ (SendText(c) \/ \E k : ShowEvent(c, k))
    BY <1>6 DEF Answer, SessionEvent
  <2>2. Serves(c) /\ UNCHANGED <<instance, bound, opening, session>>
    BY <2>1, SendTextServes, ShowEventServes
  <2> QED
    BY <2>1, <2>2, ServesGoesOn
<1>7. CASE SessionChanges
  BY <1>7, EndKeeps DEF SessionChanges
<1>8. CASE DaemonStartsAnew
  <2>1. Restarts
    BY <1>8 DEF DaemonStartsAnew, StartAnew, Restarts
  <2> QED
    BY <2>1, RestartKeeps
<1> QED
  BY <1>1, <1>2, <1>3, <1>4, <1>5, <1>6, <1>7, <1>8, NextCases, PageApart

----------------------------------------------------------------------------
(* The page's functions                                                    *)

Request(p) == [id |-> Active(p), after |-> p.cursor, answer |-> NoAnswer]

(* The page is as it was, but for its loop, its requests and its alert.    *)
Same(p, r) ==
  /\ r.own = p.own /\ r.opened = p.opened /\ r.selected = p.selected /\ r.task = p.task
  /\ r.instance = p.instance /\ r.cursor = p.cursor /\ r.rendered = p.rendered
  /\ r.started = p.started /\ r.connected = p.connected /\ r.saved = p.saved
  /\ r.begun = p.begun /\ r.shown = p.shown /\ r.told = p.told /\ r.crossed = p.crossed

LEMMA ActiveIs ==
  ASSUME NEW p \in Pages
  PROVE  /\ Active(p) \in Ids /\ Active(p) \in Own2(p) /\ Request(p) \in Polls
         /\ Active(p) \in {p.own, p.opened}
<1>1. p.own \in Own /\ p.opened \in Made \cup {Nobody} /\ p.cursor \in Int
  BY DEF Pages
<1>2. Active(p) \in {p.own, p.opened} /\ Active(p) # Nobody /\ Active(p) \in Ids
  BY <1>1, WebClientAssumption, HttpChannelAssumption DEF Active
<1>3. NoAnswer \in Answered
  <2>1. <<>> \in Seq(Nat)
    OBVIOUS
  <2> QED
    BY <2>1 DEF NoAnswer, Answered, Kinds
<1> QED
  BY <1>1, <1>2, <1>3 DEF Own2, Request, Polls

LEMMA StopPollingIs ==
  ASSUME NEW p \in Pages
  PROVE  /\ StopPolling(p) \in Pages /\ Same(p, StopPolling(p))
         /\ StopPolling(p).polls = {} /\ StopPolling(p).loop = "off"
         /\ StopPolling(p).attempts = p.attempts /\ StopPolling(p).alert = p.alert
BY DEF StopPolling, Pages, Same

LEMMA AskIs ==
  ASSUME NEW p \in Pages
  PROVE  /\ Ask(p) \in Pages /\ Same(p, Ask(p))
         /\ Ask(p).polls = p.polls \cup {Request(p)} /\ Ask(p).loop = "asking"
<1>1. p.polls \cup {Request(p)} \in SUBSET Polls
  BY ActiveIs DEF Pages
<1>2. Ask(p) = [p EXCEPT !.loop = "asking", !.polls = p.polls \cup {Request(p)}]
  BY DEF Ask, Request
<1> QED
  BY <1>1, <1>2 DEF Pages, Same

LEMMA StartPollingIs ==
  ASSUME NEW p \in Pages
  PROVE  /\ StartPolling(p) \in Pages /\ Same(p, StartPolling(p))
         /\ StartPolling(p).polls \subseteq {Request(p)}
         /\ StartPolling(p).loop # "asking" => StartPolling(p).polls = {}
<1> DEFINE q == [StopPolling(p) EXCEPT !.attempts = 0]
<1>1. q \in Pages /\ Same(p, q) /\ q.polls = {} /\ q.loop = "off"
  BY StopPollingIs, ZenonT(30) DEF Pages, Same
<1>2. Request(q) = Request(p)
  BY <1>1 DEF Request, Active, Same
<1>3. /\ Ask(q) \in Pages /\ Same(q, Ask(q)) /\ Ask(q).polls = {Request(p)}
      /\ Ask(q).loop = "asking"
  BY <1>1, <1>2, AskIs
<1>4. StartPolling(p) = IF Loops(q) THEN Ask(q) ELSE q
  BY DEF StartPolling
<1> HIDE DEF q
<1>5. Same(p, Ask(q))
  BY <1>1, <1>3 DEF Same
<1> QED
  BY <1>1, <1>3, <1>4, <1>5

LEMMA LoadIs ==
  ASSUME NEW p \in Pages
  PROVE  LET r == LoadActiveConversationState(p) IN
         /\ r \in Pages
         /\ r.own = p.own /\ r.opened = p.opened /\ r.selected = p.selected /\ r.task = p.task
         /\ r.instance = p.instance /\ r.connected = p.connected /\ r.saved = p.saved
         /\ r.begun = p.begun /\ r.shown = p.shown /\ r.told = p.told /\ r.crossed = p.crossed
         /\ r.loop = p.loop /\ r.polls = p.polls /\ r.alert = p.alert /\ r.attempts = p.attempts
         /\ r.cursor = p.saved[Active(p)] /\ r.rendered = p.saved[Active(p)]
         /\ r.started = (Active(p) \in p.begun)
<1>1. p.saved[Active(p)] \in Int /\ (Active(p) \in p.begun) \in BOOLEAN
  BY ActiveIs DEF Pages
<1>2. LoadActiveConversationState(p) =
        [p EXCEPT !.cursor = p.saved[Active(p)], !.rendered = p.saved[Active(p)],
                  !.started = Active(p) \in p.begun]
  BY DEF LoadActiveConversationState
<1> QED
  BY <1>1, <1>2, ZenonT(30) DEF Pages

LEMMA PersistIs ==
  ASSUME NEW p \in Pages
  PROVE  LET r == PersistCursor(p) IN
         /\ r \in Pages
         /\ r.own = p.own /\ r.opened = p.opened /\ r.selected = p.selected /\ r.task = p.task
         /\ r.instance = p.instance /\ r.connected = p.connected
         /\ r.saved = [p.saved EXCEPT ![Active(p)] = p.cursor]
         /\ r.begun = p.begun /\ r.shown = p.shown /\ r.told = p.told /\ r.crossed = p.crossed
         /\ r.loop = p.loop /\ r.polls = p.polls /\ r.alert = p.alert /\ r.attempts = p.attempts
         /\ r.cursor = p.cursor /\ r.rendered = p.rendered /\ r.started = p.started
<1>1. [p.saved EXCEPT ![Active(p)] = p.cursor] \in [Ids -> Int]
  BY ActiveIs DEF Pages
<1>2. PersistCursor(p) = [p EXCEPT !.saved = [p.saved EXCEPT ![Active(p)] = p.cursor]]
  BY DEF PersistCursor
<1> QED
  BY <1>1, <1>2 DEF Pages

(* What a page that starts from nothing knows                              *)
Clean(p, r) ==
  /\ r \in Pages /\ r.own = p.own /\ r.task = p.task /\ r.connected = p.connected
  /\ r.opened = Nobody /\ r.selected = "dispatcher"
  /\ r.polls = {} /\ r.loop = "off" /\ r.cursor = 0 /\ r.rendered = 0 /\ r.started = FALSE
  /\ r.saved = [c \in Ids |-> IF c \in {p.own, p.opened} THEN 0 ELSE p.saved[c]]
  /\ r.begun = p.begun \ {p.own, p.opened}
  /\ r.shown = [c \in Ids |-> <<>>] /\ r.told = [c \in Ids |-> {}] /\ r.crossed = {}

LEMMA ClearedIs ==
  ASSUME NEW p \in Pages
  PROVE  Clean(p, Cleared(p)) /\ Cleared(p).instance = p.instance
<1> DEFINE s == StopPolling(p)
           saved == [c \in Ids |-> IF c \in {p.own, p.opened} THEN 0 ELSE p.saved[c]]
           begun == p.begun \ {p.own, p.opened}
           shown == [c \in Ids |-> <<>>]
           told == [c \in Ids |-> {}]
           no == FALSE
           none == 0
<1>1. s \in Pages /\ Same(p, s) /\ s.polls = {} /\ s.loop = "off"
  BY StopPollingIs
<1>2. saved \in [Ids -> Int] /\ begun \in SUBSET Ids /\ told \in [Ids -> SUBSET Int]
      /\ no \in BOOLEAN /\ none \in Int
  BY DEF Pages
<1>3. shown \in [Ids -> Seq(Int)]
  OBVIOUS
<1>4. Cleared(p) =
        [s EXCEPT !.saved = saved, !.begun = begun, !.cursor = none, !.rendered = none, !.started = no,
                  !.selected = "dispatcher", !.opened = Nobody, !.shown = shown, !.told = told, !.crossed = {}]
  BY <1>1 DEF Cleared, Same
<1> HIDE DEF s, saved, begun, shown, told, no, none
<1>5. /\ Cleared(p) \in Pages /\ Cleared(p).own = s.own /\ Cleared(p).task = s.task
      /\ Cleared(p).connected = s.connected /\ Cleared(p).instance = s.instance
      /\ Cleared(p).opened = Nobody /\ Cleared(p).selected = "dispatcher"
      /\ Cleared(p).polls = s.polls /\ Cleared(p).loop = s.loop
      /\ Cleared(p).cursor = none /\ Cleared(p).rendered = none /\ Cleared(p).started = no
      /\ Cleared(p).saved = saved /\ Cleared(p).begun = begun
      /\ Cleared(p).shown = shown /\ Cleared(p).told = told /\ Cleared(p).crossed = {}
  <2>1. PICK r : r = Cleared(p)
    OBVIOUS
  <2>2. r = [s EXCEPT !.saved = saved, !.begun = begun, !.cursor = none, !.rendered = none,
                      !.started = no, !.selected = "dispatcher", !.opened = Nobody,
                      !.shown = shown, !.told = told, !.crossed = {}]
    BY <1>4, <2>1
  <2>3. r \in Pages
    BY <1>1, <1>2, <1>3, <2>2 DEF Pages
  <2>4. r.own = s.own /\ r.task = s.task /\ r.connected = s.connected /\ r.instance = s.instance
        /\ r.polls = s.polls /\ r.loop = s.loop
    BY <1>1, <2>2 DEF Pages
  <2>5. r.opened = Nobody /\ r.selected = "dispatcher" /\ r.cursor = none /\ r.rendered = none /\ r.started = no
    BY <1>1, <2>2 DEF Pages
  <2>6. r.saved = saved /\ r.begun = begun /\ r.shown = shown /\ r.told = told /\ r.crossed = {}
    BY <1>1, <2>2 DEF Pages
  <2> QED
    BY <2>1, <2>3, <2>4, <2>5, <2>6
<1> QED
  BY <1>1, <1>5 DEF Clean, Same, saved, begun, shown, told, no, none

LEMMA AcceptIs ==
  ASSUME NEW p \in Pages, NEW i \in Nat
  PROVE  /\ i = p.instance => Accept(p, i) = p
         /\ i # p.instance => Clean(p, Accept(p, i)) /\ Accept(p, i).instance = i
<1>1. i = p.instance => Accept(p, i) = p
  BY DEF Accept
<1>2. ASSUME i # p.instance PROVE Clean(p, Accept(p, i)) /\ Accept(p, i).instance = i
  <2> DEFINE s == Cleared(p)
             a == (p.instance # 0)
  <2>1. Clean(p, s) /\ a \in BOOLEAN
    BY ClearedIs
  <2>2. Accept(p, i) = [s EXCEPT !.instance = i, !.alert = a]
    BY <1>2 DEF Accept
  <2>3. PICK r : r = Accept(p, i)
    OBVIOUS
  <2> HIDE DEF s, a
  <2>4. s \in Pages /\ r = [s EXCEPT !.instance = i, !.alert = a]
    BY <2>1, <2>2, <2>3 DEF Clean
  <2>5. r \in Pages /\ r.instance = i
    BY <2>1, <2>4 DEF Pages
  <2>6. /\ r.own = s.own /\ r.task = s.task /\ r.connected = s.connected /\ r.opened = s.opened
        /\ r.selected = s.selected /\ r.polls = s.polls /\ r.loop = s.loop /\ r.cursor = s.cursor
        /\ r.rendered = s.rendered /\ r.started = s.started
    BY <2>4 DEF Pages
  <2>7. r.saved = s.saved /\ r.begun = s.begun /\ r.shown = s.shown /\ r.told = s.told /\ r.crossed = s.crossed
    BY <2>4 DEF Pages
  <2> QED
    BY <2>1, <2>3, <2>5, <2>6, <2>7 DEF Clean
<1> QED
  BY <1>1, <1>2

(* The timeline of the conversation shown goes on.                         *)
LEMMA RenderedIs ==
  ASSUME NEW p \in Pages, NEW a \in Answered
  PROVE  LET r == Rendered(p, a)
             new == After(a.events, p.rendered)
         IN
         /\ r \in Pages /\ new \in Seq(Nat)
         /\ r.own = p.own /\ r.opened = p.opened /\ r.selected = p.selected /\ r.task = p.task
         /\ r.instance = p.instance /\ r.connected = p.connected /\ r.started = p.started
         /\ r.begun = p.begun /\ r.told = p.told /\ r.crossed = p.crossed /\ r.polls = p.polls /\ r.loop = "resting"
         /\ r.shown = [p.shown EXCEPT ![Active(p)] = p.shown[Active(p)] \o new]
         /\ r.rendered = IF new = <<>> THEN p.rendered ELSE new[Len(new)]
         /\ r.cursor = IF p.cursor >= a.latest THEN p.cursor ELSE a.latest
         /\ r.saved = [p.saved EXCEPT ![Active(p)] = r.cursor]
<1> DEFINE new == After(a.events, p.rendered)
           shown == [p.shown EXCEPT ![Active(p)] = p.shown[Active(p)] \o new]
           rendered == IF new = <<>> THEN p.rendered ELSE new[Len(new)]
           cursor == IF p.cursor >= a.latest THEN p.cursor ELSE a.latest
           none == 0
           no == FALSE
           q == [p EXCEPT !.shown = shown, !.rendered = rendered, !.cursor = cursor,
                          !.loop = "resting", !.attempts = none, !.alert = no]
<1>1. p.cursor \in Int /\ p.rendered \in Int /\ a.latest \in Int /\ a.events \in Seq(Nat)
      /\ p.shown \in [Ids -> Seq(Int)] /\ Active(p) \in Ids
  <2>1. Active(p) \in Ids
    BY ActiveIs
  <2>2. p.cursor \in Int /\ p.rendered \in Int /\ p.shown \in [Ids -> Seq(Int)]
    BY DEF Pages
  <2>3. a.latest \in Int /\ a.events \in Seq(Nat)
    BY DEF Answered
  <2> QED
    BY <2>1, <2>2, <2>3
<1>2. new \in Seq(Nat)
  BY <1>1, AfterAny
<1>3. rendered \in Int
  <2>1. new # <<>> => new[Len(new)] \in Nat
    BY <1>2
  <2> QED
    BY <1>1, <2>1
<1>4. shown \in [Ids -> Seq(Int)]
  <2>1. new \in Seq(Int)
    BY <1>2
  <2>2. p.shown[Active(p)] \o new \in Seq(Int)
    BY <1>1, <2>1, ConcatProperties
  <2> QED
    BY <1>1, <2>2
<1>5. cursor \in Int /\ no \in BOOLEAN /\ none \in Nat
  BY <1>1
<1>6. Max({p.cursor, a.latest}) = cursor
  BY <1>1, MostOf
<1>7. Rendered(p, a) = PersistCursor(q)
  BY <1>6 DEF Rendered, Last
<1> HIDE DEF new, shown, rendered, cursor, none, no
<1>8. q \in Pages
  BY <1>3, <1>4, <1>5 DEF Pages
<1>9. /\ q.own = p.own /\ q.opened = p.opened /\ q.selected = p.selected /\ q.task = p.task
      /\ q.instance = p.instance /\ q.connected = p.connected /\ q.started = p.started
      /\ q.begun = p.begun /\ q.told = p.told /\ q.crossed = p.crossed /\ q.polls = p.polls /\ q.loop = "resting"
      /\ q.shown = shown /\ q.rendered = rendered /\ q.cursor = cursor /\ q.saved = p.saved
  BY DEF Pages
<1>10. Active(q) = Active(p)
  BY <1>9 DEF Active
<1> HIDE DEF q
<1>11. LET r == PersistCursor(q) IN
       /\ r \in Pages
       /\ r.own = q.own /\ r.opened = q.opened /\ r.selected = q.selected /\ r.task = q.task
       /\ r.instance = q.instance /\ r.connected = q.connected /\ r.started = q.started
       /\ r.saved = [q.saved EXCEPT ![Active(q)] = q.cursor]
       /\ r.begun = q.begun /\ r.shown = q.shown /\ r.told = q.told /\ r.crossed = q.crossed
       /\ r.loop = q.loop /\ r.polls = q.polls
       /\ r.cursor = q.cursor /\ r.rendered = q.rendered
  BY <1>8, PersistIs
<1> QED
  BY <1>2, <1>7, <1>9, <1>10, <1>11 DEF new, shown, rendered, cursor

(* Where the cursor goes when its event is lost, and what is told of it    *)
Target(p, a) == IF a.kind = "cursor_invalid" THEN 0 ELSE a.oldest - 1
Notice(p, id, a) ==
  IF id # Active(p) THEN p.told
  ELSE [p.told EXCEPT ![id] = @ \cup (p.cursor + 1)..Target(p, a)]
Crosses(p, id) == IF id # Active(p) THEN p.crossed \cup {Active(p)} ELSE p.crossed

LEMMA RetriedIs ==
  ASSUME NEW p \in Pages, NEW id, NEW a \in Answered
  PROVE  LET r == Retried(p, id, a) IN
         /\ r \in Pages
         /\ r.own = p.own /\ r.opened = p.opened /\ r.selected = p.selected /\ r.task = p.task
         /\ r.instance = p.instance /\ r.connected = p.connected /\ r.started = p.started
         /\ r.begun = p.begun /\ r.shown = p.shown /\ r.rendered = p.rendered
         /\ r.cursor = Target(p, a) /\ r.told = Notice(p, id, a) /\ r.crossed = Crosses(p, id)
         /\ r.saved = [p.saved EXCEPT ![Active(p)] = Target(p, a)]
         /\ r.polls \subseteq p.polls \cup {Request(r)}
         /\ r.loop # "asking" => r.polls = p.polls
<1> DEFINE target == Target(p, a)
           notice == Notice(p, id, a)
           crosses == Crosses(p, id)
           rec == Recover(p, id, a)
           q == PersistCursor(rec)
           more == q.attempts + 1
           yes == TRUE
<1>1. target \in Int /\ notice \in [Ids -> SUBSET Int] /\ crosses \in SUBSET Ids
  <2>1. Active(p) \in Ids
    BY ActiveIs
  <2>2. p.cursor \in Int /\ p.told \in [Ids -> SUBSET Int] /\ p.crossed \in SUBSET Ids
    BY DEF Pages
  <2>3. target \in Int
    BY DEF Answered, Target
  <2> HIDE DEF target
  <2>4. (p.cursor + 1)..target \in SUBSET Int
    BY <2>2, <2>3
  <2>5. [p.told EXCEPT ![Active(p)] = @ \cup (p.cursor + 1)..target] \in [Ids -> SUBSET Int]
    BY <2>1, <2>2, <2>4
  <2> QED
    BY <2>1, <2>2, <2>3, <2>5 DEF Notice, Crosses, target
<1>2. rec = [p EXCEPT !.cursor = target, !.told = notice, !.crossed = crosses]
  <2> DEFINE at == [p EXCEPT !.cursor = target]
  <2>1. rec = IF id # Active(p) THEN [at EXCEPT !.crossed = @ \cup {Active(p)}]
              ELSE [at EXCEPT !.told[id] = @ \cup (p.cursor + 1)..at.cursor]
    BY DEF Recover, Target
  <2>2. at \in Pages /\ at.cursor = target /\ at.told = p.told /\ at.crossed = p.crossed
    BY <1>1 DEF Pages
  <2>3. CASE id # Active(p)
    <3>1. notice = p.told /\ crosses = p.crossed \cup {Active(p)}
      BY <2>3 DEF Notice, Crosses
    <3> HIDE DEF target, notice, crosses
    <3>2. rec = [at EXCEPT !.crossed = crosses]
      BY <2>1, <2>2, <2>3, <3>1 DEF at
    <3> QED
      BY <3>1, <3>2 DEF Pages, at
  <2>4. CASE id = Active(p)
    <3>1. crosses = p.crossed /\ notice = [p.told EXCEPT ![id] = @ \cup (p.cursor + 1)..target]
      BY <2>4 DEF Notice, Crosses
    <3> HIDE DEF target, notice, crosses
    <3>2. rec = [at EXCEPT !.told = [at.told EXCEPT ![id] = @ \cup (p.cursor + 1)..at.cursor]]
      BY <2>1, <2>4 DEF at
    <3>3. rec = [at EXCEPT !.told = notice]
      BY <2>2, <3>1, <3>2 DEF at
    <3> QED
      BY <3>1, <3>3 DEF Pages, at
  <2> QED
    BY <2>3, <2>4
<1> HIDE DEF target, notice, crosses
<1>3. rec \in Pages
  BY <1>1, <1>2 DEF Pages
<1>4. /\ rec.own = p.own /\ rec.opened = p.opened /\ rec.selected = p.selected /\ rec.task = p.task
      /\ rec.instance = p.instance /\ rec.connected = p.connected /\ rec.started = p.started
      /\ rec.begun = p.begun /\ rec.shown = p.shown /\ rec.rendered = p.rendered
      /\ rec.cursor = target /\ rec.told = notice /\ rec.crossed = crosses
      /\ rec.saved = p.saved /\ rec.polls = p.polls
      /\ rec.loop = p.loop
  BY <1>2 DEF Pages
<1>5. Active(rec) = Active(p)
  BY <1>4 DEF Active
<1> HIDE DEF rec
<1>6. /\ q \in Pages
      /\ q.own = rec.own /\ q.opened = rec.opened /\ q.selected = rec.selected /\ q.task = rec.task
      /\ q.instance = rec.instance /\ q.connected = rec.connected /\ q.started = rec.started
      /\ q.begun = rec.begun /\ q.shown = rec.shown /\ q.rendered = rec.rendered
      /\ q.cursor = rec.cursor /\ q.told = rec.told /\ q.crossed = rec.crossed /\ q.polls = rec.polls
      /\ q.saved = [rec.saved EXCEPT ![Active(rec)] = rec.cursor]
  BY <1>3, PersistIs
<1> HIDE DEF q
<1>7. more \in Nat /\ yes \in BOOLEAN
  BY <1>6 DEF Pages
<1> DEFINE u == [q EXCEPT !.attempts = more]
           r == Retried(p, id, a)
<1>8. \/ r = Ask(u)
      \/ r = [q EXCEPT !.loop = "off"]
      \/ r = [q EXCEPT !.loop = "off", !.alert = yes]
  <2>1. r = IF p.attempts < MaxAttempts
            THEN IF Loops(q) THEN Ask(u) ELSE [q EXCEPT !.loop = "off"]
            ELSE [q EXCEPT !.loop = "off", !.alert = yes]
    BY DEF Retried, q, rec
  <2> HIDE DEF r, u, yes
  <2> QED
    BY <2>1
<1> HIDE DEF more, yes
<1>9. u \in Pages /\ Same(q, u) /\ u.polls = q.polls /\ Request(u) = Request(q)
  <2>1. u \in Pages /\ Same(q, u) /\ u.polls = q.polls
    BY <1>6, <1>7 DEF Pages, Same
  <2> QED
    BY <2>1 DEF Same, Request, Active
<1> HIDE DEF u
<1>10. r \in Pages /\ Same(q, r) /\ r.polls \subseteq q.polls \cup {Request(q)}
       /\ (r.loop # "asking" => r.polls = q.polls)
  <2>1. CASE r = Ask(u)
    <3>1. Ask(u) \in Pages /\ Same(u, Ask(u)) /\ Ask(u).polls = u.polls \cup {Request(u)} /\ Ask(u).loop = "asking"
      BY <1>9, AskIs
    <3>2. Same(q, Ask(u))
      BY <1>9, <3>1 DEF Same
    <3> QED
      BY <1>9, <2>1, <3>1, <3>2
  <2> HIDE DEF r
  <2>2. CASE r = [q EXCEPT !.loop = "off"]
    BY <1>6, <2>2 DEF Pages, Same
  <2>3. CASE r = [q EXCEPT !.loop = "off", !.alert = yes]
    BY <1>6, <1>7, <2>3 DEF Pages, Same
  <2> QED
    BY <1>8, <2>1, <2>2, <2>3
<1>11. Request(r) = Request(q)
  BY <1>10 DEF Same, Request, Active
<1> HIDE DEF r
<1> QED
  BY <1>4, <1>5, <1>6, <1>10, <1>11 DEF Same, target, notice, crosses, r

(* What a page keeps when it recovers from an error.                       *)
Repairs(p, r) ==
  /\ r \in Pages /\ r.own = p.own /\ r.opened = p.opened /\ r.selected = p.selected
  /\ r.task = p.task /\ r.begun = p.begun /\ r.instance = p.instance
  /\ r.polls \subseteq p.polls \cup {Request(r)}

LEMMA RetriedRepairs ==
  ASSUME NEW p \in Pages, NEW id, NEW a \in Answered
  PROVE  Repairs(p, Retried(p, id, a))
<1>1. PICK r : r = Retried(p, id, a)
  OBVIOUS
<1>2. /\ r \in Pages /\ r.own = p.own /\ r.opened = p.opened /\ r.selected = p.selected
      /\ r.task = p.task /\ r.begun = p.begun /\ r.instance = p.instance
      /\ r.cursor = Target(p, a) /\ r.told = Notice(p, id, a) /\ r.crossed = Crosses(p, id)
      /\ r.saved = [p.saved EXCEPT ![Active(p)] = Target(p, a)]
      /\ r.polls \subseteq p.polls \cup {Request(r)}
  BY <1>1, RetriedIs
<1> QED
  BY <1>1, <1>2 DEF Repairs

----------------------------------------------------------------------------
(* What every function of the page keeps                                   *)

(* An answer of the daemon, or none, in each request; a conversation of    *)
(* the Task that the page knew, and none of another daemon.                *)
Sane(p, r) ==
  /\ r \in Pages /\ r.opened \in {p.opened, Nobody}
  /\ p.instance <= r.instance /\ r.instance <= instance
  /\ r.instance # p.instance => r.opened = Nobody
  /\ \A q \in r.polls : q.answer = NoAnswer \/ (q \in p.polls /\ r.instance = p.instance)

LEMMA SaneKeeps ==
  ASSUME instance \in Nat, NEW p, NEW r, Fit(p), Sane(p, r)
  PROVE  Fit(r) /\ (Attached(p) => Attached(r)) /\ (op \in [Operations -> Ops] /\ Sending(p) => Sending(r))
<1>1. r \in Pages /\ r.instance <= instance /\ r.instance \in Nat /\ p.instance \in Nat
  BY DEF Fit, Sane, Pages
<1>2. \A q \in r.polls : /\ q.answer = NoAnswer \/ r.instance <= q.answer.instance
                         /\ q.answer.instance <= instance
  <2>1. NoAnswer.instance = 0
    BY DEF NoAnswer
  <2> QED
    BY <2>1 DEF Fit, Sane
<1>3. Fit(r)
  BY <1>1, <1>2 DEF Fit
<1>4. Attached(p) => Attached(r)
  BY DEF Attached, Sane
<1>5. op \in [Operations -> Ops] /\ Sending(p) => Sending(r)
  <2>1. ASSUME op \in [Operations -> Ops], Sending(p) PROVE Sending(r)
    <3>1. op["send"].checked \in Nat /\ p.instance <= r.instance
      BY <2>1 DEF Ops, Operations, Sane
    <3> QED
      BY <1>1, <2>1, <3>1 DEF Sending
  <2> QED
    BY <2>1
<1> QED
  BY <1>3, <1>4, <1>5

LEMMA SaneChain ==
  ASSUME NEW p, NEW q, NEW r, p \in Pages, Sane(p, q), Sane(q, r)
  PROVE  Sane(p, r)
BY DEF Sane, Pages

LEMMA SaneSame ==
  ASSUME NEW p, NEW r, Fit(p), r \in Pages, r.opened = p.opened, r.instance = p.instance,
         \A q \in r.polls : q \in p.polls \/ q.answer = NoAnswer
  PROVE  Sane(p, r)
BY DEF Sane, Fit, Pages

LEMMA SaneClean ==
  ASSUME NEW p, NEW r, Fit(p), Clean(p, r), r.instance \in Nat, p.instance <= r.instance,
         r.instance <= instance
  PROVE  Sane(p, r)
BY DEF Sane, Fit, Pages, Clean

LEMMA AcceptSane ==
  ASSUME NEW p, Fit(p), NEW i \in Nat, p.instance <= i, i <= instance
  PROVE  Sane(p, Accept(p, i)) /\ Accept(p, i).instance = i
<1>1. p \in Pages
  BY DEF Fit
<1>2. CASE i = p.instance
  <2>1. Accept(p, i) = p
    BY <1>1, <1>2, AcceptIs
  <2> QED
    BY <1>1, <1>2, <2>1, SaneSame
<1>3. CASE i # p.instance
  <2>1. Clean(p, Accept(p, i)) /\ Accept(p, i).instance = i
    BY <1>1, <1>3, AcceptIs
  <2> QED
    BY <2>1, SaneClean
<1> QED
  BY <1>2, <1>3

LEMMA ClearedSane ==
  ASSUME NEW p, Fit(p), NEW b \in BOOLEAN
  PROVE  LET r == [Cleared(p) EXCEPT !.alert = b] IN
         /\ Sane(p, r) /\ Clean(p, r) /\ r.instance = p.instance
<1>1. PICK c \in Pages : c = Cleared(p) /\ Clean(p, c) /\ c.instance = p.instance
  BY ClearedIs DEF Clean, Fit
<1>2. PICK r : r = [c EXCEPT !.alert = b]
  OBVIOUS
<1>3. r \in Pages
  BY <1>2 DEF Pages
<1>4. /\ r.own = c.own /\ r.task = c.task /\ r.connected = c.connected
      /\ r.opened = c.opened /\ r.selected = c.selected /\ r.polls = c.polls /\ r.loop = c.loop
      /\ r.cursor = c.cursor /\ r.rendered = c.rendered /\ r.started = c.started
      /\ r.saved = c.saved /\ r.begun = c.begun /\ r.shown = c.shown /\ r.told = c.told /\ r.crossed = c.crossed
      /\ r.instance = c.instance
  BY <1>2 DEF Pages
<1>5. Clean(p, r) /\ r.instance = p.instance
  BY <1>1, <1>3, <1>4 DEF Clean
<1>6. p.instance \in Nat /\ p.instance <= p.instance /\ p.instance <= instance
  BY DEF Fit, Pages
<1>7. Sane(p, r)
  BY <1>5, <1>6, SaneClean
<1> QED
  BY <1>1, <1>2, <1>5, <1>7

(* The answer of the live request, case by case                            *)
LEMMA PolledCases ==
  ASSUME NEW p, NEW id, NEW a
  PROVE  \/ a.kind = "ok" /\ id # Active(p) /\ Polled(p, id, a) = [p EXCEPT !.loop = "off"]
         \/ a.instance # p.instance /\ Polled(p, id, a) = Accept(p, a.instance)
         \/ a.instance = p.instance /\ a.kind = "unknown_conversation"
              /\ Polled(p, id, a) = [Cleared(p) EXCEPT !.alert = TRUE]
         \/ a.instance = p.instance /\ a.kind = "ok" /\ id = Active(p)
              /\ Polled(p, id, a) = Rendered(p, a)
         \/ a.instance = p.instance /\ a.kind \notin {"ok", "unknown_conversation"}
              /\ Polled(p, id, a) = Retried(p, id, a)
<1>1. CASE a.kind = "ok" /\ id # Active(p)
  BY <1>1 DEF Polled
<1>2. CASE ~(a.kind = "ok" /\ id # Active(p)) /\ a.instance # p.instance
  BY <1>2 DEF Polled
<1>3. CASE a.instance = p.instance /\ a.kind = "unknown_conversation"
  BY <1>3 DEF Polled
<1>4. CASE a.instance = p.instance /\ a.kind = "ok" /\ id = Active(p)
  BY <1>4 DEF Polled
<1>5. CASE a.instance = p.instance /\ a.kind \notin {"ok", "unknown_conversation"}
  BY <1>5 DEF Polled
<1> QED
  BY <1>1, <1>2, <1>3, <1>4, <1>5

LEMMA PolledSane ==
  ASSUME NEW p, Fit(p), NEW a \in Answered, p.instance <= a.instance, a.instance <= instance,
         NEW id
  PROVE  Sane(p, Polled(p, id, a))
<1> DEFINE r == Polled(p, id, a)
<1>1. p \in Pages
  BY DEF Fit
<1>2. CASE r = [p EXCEPT !.loop = "off"]
  <2>1. PICK u : u = [p EXCEPT !.loop = "off"]
    OBVIOUS
  <2>2. u \in Pages /\ u.opened = p.opened /\ u.instance = p.instance /\ u.polls = p.polls
    BY <1>1, <2>1 DEF Pages
  <2>3. Sane(p, u)
    BY <2>2, SaneSame
  <2> QED
    BY <1>2, <2>1, <2>3
<1>3. CASE a.instance # p.instance /\ r = Accept(p, a.instance)
  <2>1. a.instance \in Nat
    BY DEF Answered
  <2>2. Sane(p, Accept(p, a.instance))
    BY <2>1, AcceptSane
  <2> QED
    BY <1>3, <2>2
<1>4. CASE r = [Cleared(p) EXCEPT !.alert = TRUE]
  <2>1. Sane(p, [Cleared(p) EXCEPT !.alert = TRUE])
    BY ClearedSane
  <2> QED
    BY <1>4, <2>1
<1>5. CASE r = Rendered(p, a)
  <2>1. PICK u : u = Rendered(p, a)
    OBVIOUS
  <2>2. u \in Pages /\ u.opened = p.opened /\ u.instance = p.instance /\ u.polls = p.polls
    BY <1>1, <2>1, RenderedIs
  <2>3. Sane(p, u)
    BY <2>2, SaneSame
  <2> QED
    BY <1>5, <2>1, <2>3
<1>6. CASE r = Retried(p, id, a)
  <2>1. PICK u : u = Retried(p, id, a)
    OBVIOUS
  <2>2. /\ u \in Pages /\ u.opened = p.opened /\ u.instance = p.instance
        /\ u.polls \subseteq p.polls \cup {Request(u)}
    <3>1. Repairs(p, u)
      BY <1>1, <2>1, RetriedRepairs
    <3> QED
      BY <3>1 DEF Repairs
  <2>3. \A q \in u.polls : q \in p.polls \/ q.answer = NoAnswer
    BY <2>2 DEF Request
  <2>4. Sane(p, u)
    BY <2>2, <2>3, SaneSame
  <2> QED
    BY <1>6, <2>1, <2>4
<1> HIDE DEF r
<1>7. Sane(p, r)
  BY <1>2, <1>3, <1>4, <1>5, <1>6, PolledCases DEF r
<1> QED
  BY <1>7 DEF r

(* The list of Tasks: only a Task that is gone is left.  Then another      *)
(* conversation is shown, from its saved cursor.                           *)
Looks(p, r) ==
  \/ r.selected = p.selected /\ r.cursor = p.cursor /\ r.rendered = p.rendered
  \/ r.cursor = p.saved[Active(r)] /\ r.rendered = r.cursor

LEMMA WithTasksIs ==
  ASSUME NEW p \in Pages, session \in {"live", "terminal", "gone"}
  PROVE  LET r == WithTasks(p) IN
         /\ r \in Pages /\ r.own = p.own /\ r.opened = p.opened /\ r.task = session
         /\ r.instance = p.instance /\ r.connected = p.connected /\ r.saved = p.saved
         /\ r.begun = p.begun /\ r.shown = p.shown /\ r.told = p.told /\ r.crossed = p.crossed
         /\ r.loop = p.loop /\ r.polls = p.polls /\ Looks(p, r)
<1> DEFINE q == [p EXCEPT !.task = session]
           u == [q EXCEPT !.selected = "dispatcher"]
<1>1. /\ q \in Pages /\ q.own = p.own /\ q.opened = p.opened /\ q.task = session
      /\ q.instance = p.instance /\ q.connected = p.connected /\ q.saved = p.saved
      /\ q.begun = p.begun /\ q.shown = p.shown /\ q.told = p.told /\ q.crossed = p.crossed
      /\ q.loop = p.loop /\ q.polls = p.polls /\ q.selected = p.selected /\ q.cursor = p.cursor
      /\ q.rendered = p.rendered /\ q.started = p.started
  BY DEF Pages
<1>2. WithTasks(p) = IF session = "gone" /\ p.selected = "task"
                     THEN LoadActiveConversationState(u) ELSE q
  BY DEF WithTasks
<1> HIDE DEF q
<1>3. /\ u \in Pages /\ u.own = q.own /\ u.opened = q.opened /\ u.task = q.task
      /\ u.instance = q.instance /\ u.connected = q.connected /\ u.saved = q.saved
      /\ u.begun = q.begun /\ u.shown = q.shown /\ u.told = q.told /\ u.crossed = q.crossed
      /\ u.loop = q.loop /\ u.polls = q.polls
  BY <1>1 DEF Pages
<1> HIDE DEF u
<1>4. LET r == LoadActiveConversationState(u) IN
      /\ r \in Pages /\ r.own = u.own /\ r.opened = u.opened /\ r.task = u.task
      /\ r.instance = u.instance /\ r.connected = u.connected /\ r.saved = u.saved
      /\ r.begun = u.begun /\ r.shown = u.shown /\ r.told = u.told /\ r.crossed = u.crossed
      /\ r.loop = u.loop /\ r.polls = u.polls /\ r.selected = u.selected
      /\ r.cursor = u.saved[Active(u)] /\ r.rendered = u.saved[Active(u)]
  BY <1>3, LoadIs
<1>5. CASE session = "gone" /\ p.selected = "task"
  <2>1. PICK r : r = WithTasks(p) /\ r = LoadActiveConversationState(u)
    BY <1>2, <1>5
  <2>2. Active(r) = Active(u)
    BY <1>4, <2>1 DEF Active
  <2>3. Looks(p, r)
    BY <1>1, <1>3, <1>4, <2>1, <2>2 DEF Looks
  <2> QED
    BY <1>1, <1>3, <1>4, <1>5, <2>1, <2>3
<1>6. CASE ~(session = "gone" /\ p.selected = "task")
  <2>1. WithTasks(p) = q
    BY <1>2, <1>6
  <2>2. Looks(p, q)
    BY <1>1 DEF Looks
  <2> QED
    BY <1>1, <2>1, <2>2
<1> QED
  BY <1>5, <1>6

(* The conversation of the Task that is selected is shown.                 *)
LEMMA SelectedIs ==
  ASSUME NEW p \in Pages, NEW s, s.task \in {"dispatcher", "task"}
  PROVE  LET r == Selected(p, s) IN
         /\ r \in Pages /\ r.own = p.own /\ r.opened = p.opened /\ r.task = p.task
         /\ r.instance = p.instance /\ r.connected = p.connected /\ r.saved = p.saved
         /\ r.begun = p.begun /\ r.shown = p.shown /\ r.told = p.told /\ r.crossed = p.crossed /\ r.selected = s.task
         /\ r.cursor = p.saved[Active(r)] /\ r.rendered = r.cursor
         /\ r.started = (Active(r) \in p.begun)
         /\ \/ r.polls = p.polls /\ r.loop = p.loop /\ ~(s.join /\ r.started)
            \/ r.polls \subseteq {Request(r)} /\ (r.loop # "asking" => r.polls = {})
<1> DEFINE u == [p EXCEPT !.selected = s.task]
           q == LoadActiveConversationState(u)
<1>1. /\ u \in Pages /\ u.own = p.own /\ u.opened = p.opened /\ u.task = p.task
      /\ u.instance = p.instance /\ u.connected = p.connected /\ u.saved = p.saved
      /\ u.begun = p.begun /\ u.shown = p.shown /\ u.told = p.told /\ u.crossed = p.crossed /\ u.selected = s.task
      /\ u.loop = p.loop /\ u.polls = p.polls
  BY DEF Pages
<1> HIDE DEF u
<1>2. /\ q \in Pages /\ q.own = u.own /\ q.opened = u.opened /\ q.task = u.task
      /\ q.instance = u.instance /\ q.connected = u.connected /\ q.saved = u.saved
      /\ q.begun = u.begun /\ q.shown = u.shown /\ q.told = u.told /\ q.crossed = u.crossed /\ q.selected = u.selected
      /\ q.loop = u.loop /\ q.polls = u.polls
      /\ q.cursor = u.saved[Active(u)] /\ q.rendered = u.saved[Active(u)]
      /\ q.started = (Active(u) \in u.begun)
  BY <1>1, LoadIs
<1>3. Active(q) = Active(u)
  BY <1>2 DEF Active
<1>4. Selected(p, s) = IF s.join /\ q.started THEN StartPolling(q) ELSE q
  BY DEF Selected, q, u
<1> HIDE DEF q
<1>5. CASE s.join /\ q.started
  <2>1. PICK r : r = StartPolling(q) /\ r = Selected(p, s)
    BY <1>4, <1>5
  <2>2. /\ r \in Pages /\ Same(q, r) /\ r.polls \subseteq {Request(q)}
        /\ r.loop # "asking" => r.polls = {}
    BY <1>2, <2>1, StartPollingIs
  <2>3. Active(r) = Active(q) /\ Request(r) = Request(q)
    BY <2>2 DEF Same, Active, Request
  <2>4. r.started = q.started /\ q.started = (Active(r) \in p.begun)
    BY <1>1, <1>2, <1>3, <2>2, <2>3 DEF Same
  <2>5. /\ r.own = p.own /\ r.opened = p.opened /\ r.task = p.task
        /\ r.instance = p.instance /\ r.connected = p.connected /\ r.saved = p.saved
        /\ r.begun = p.begun /\ r.shown = p.shown /\ r.told = p.told /\ r.crossed = p.crossed /\ r.selected = s.task
        /\ r.cursor = p.saved[Active(r)] /\ r.rendered = r.cursor
    BY <1>1, <1>2, <1>3, <2>2, <2>3 DEF Same
  <2> QED
    BY <2>1, <2>2, <2>3, <2>4, <2>5
<1>6. CASE ~(s.join /\ q.started)
  <2>1. Selected(p, s) = q
    BY <1>4, <1>6
  <2> QED
    BY <1>1, <1>2, <1>3, <1>6, <2>1
<1> QED
  BY <1>5, <1>6

(* What an operation that cannot go on leaves                              *)
LEMMA FailedIs ==
  ASSUME NEW p \in Pages, NEW o \in Operations, op \in [Operations -> Ops]
  PROVE  LET r == Failed(p, o) IN
         /\ r \in Pages
         /\ r.own = p.own /\ r.opened = p.opened /\ r.selected = p.selected /\ r.task = p.task
         /\ r.instance = p.instance /\ r.cursor = p.cursor /\ r.rendered = p.rendered
         /\ r.saved = p.saved /\ r.begun = p.begun /\ r.shown = p.shown /\ r.told = p.told /\ r.crossed = p.crossed
         /\ \/ r.polls = p.polls /\ r.loop = p.loop
            \/ r.polls \subseteq {Request(p)} /\ (r.loop # "asking" => r.polls = {})
<1> DEFINE yes == TRUE
           no == FALSE
           al == (p.alert \/ op[o].phase # "post" \/ op[o].id = Active(p))
<1>1. yes \in BOOLEAN /\ no \in BOOLEAN /\ al \in BOOLEAN
  OBVIOUS
<1>2. Failed(p, o) \in {[p EXCEPT !.connected = no, !.alert = yes], [p EXCEPT !.alert = al],
                        [StartPolling(p) EXCEPT !.alert = yes], [p EXCEPT !.alert = yes]}
  BY DEF Failed, Operations
<1> HIDE DEF yes, no, al
<1>3. CASE Failed(p, o) = [p EXCEPT !.connected = no, !.alert = yes]
  <2>1. PICK r : r = Failed(p, o) /\ r = [p EXCEPT !.connected = no, !.alert = yes]
    BY <1>3
  <2>2. r \in Pages
    BY <1>1, <2>1 DEF Pages
  <2>3. /\ r.own = p.own /\ r.opened = p.opened /\ r.selected = p.selected /\ r.task = p.task
        /\ r.instance = p.instance /\ r.cursor = p.cursor /\ r.rendered = p.rendered
        /\ r.polls = p.polls /\ r.loop = p.loop
    BY <2>1 DEF Pages
  <2>4. r.saved = p.saved /\ r.begun = p.begun /\ r.shown = p.shown /\ r.told = p.told /\ r.crossed = p.crossed
    BY <2>1 DEF Pages
  <2> QED
    BY <2>1, <2>2, <2>3, <2>4
<1>4. ASSUME NEW b \in BOOLEAN, Failed(p, o) = [p EXCEPT !.alert = b]
      PROVE LET r == Failed(p, o) IN
         /\ r \in Pages
         /\ r.own = p.own /\ r.opened = p.opened /\ r.selected = p.selected /\ r.task = p.task
         /\ r.instance = p.instance /\ r.cursor = p.cursor /\ r.rendered = p.rendered
         /\ r.saved = p.saved /\ r.begun = p.begun /\ r.shown = p.shown /\ r.told = p.told /\ r.crossed = p.crossed
         /\ r.polls = p.polls /\ r.loop = p.loop
  <2>1. PICK r : r = Failed(p, o) /\ r = [p EXCEPT !.alert = b]
    BY <1>4
  <2>2. r \in Pages
    BY <2>1 DEF Pages
  <2>3. /\ r.own = p.own /\ r.opened = p.opened /\ r.selected = p.selected /\ r.task = p.task
        /\ r.instance = p.instance /\ r.cursor = p.cursor /\ r.rendered = p.rendered
        /\ r.polls = p.polls /\ r.loop = p.loop
    BY <2>1 DEF Pages
  <2>4. r.saved = p.saved /\ r.begun = p.begun /\ r.shown = p.shown /\ r.told = p.told /\ r.crossed = p.crossed
    BY <2>1 DEF Pages
  <2> QED
    BY <2>1, <2>2, <2>3, <2>4
<1>5. CASE Failed(p, o) = [StartPolling(p) EXCEPT !.alert = yes]
  <2>1. PICK q \in Pages : /\ q = StartPolling(p) /\ Same(p, q) /\ q.polls \subseteq {Request(p)}
                           /\ q.loop # "asking" => q.polls = {}
    BY StartPollingIs
  <2>2. PICK r : r = Failed(p, o) /\ r = [q EXCEPT !.alert = yes]
    BY <1>5, <2>1
  <2>3. r \in Pages /\ Same(q, r) /\ r.polls = q.polls /\ r.loop = q.loop
    BY <1>1, <2>2 DEF Pages, Same
  <2> QED
    BY <2>1, <2>2, <2>3 DEF Same
<1> QED
  BY <1>1, <1>2, <1>3, <1>4, <1>5

----------------------------------------------------------------------------
(* The page after each of its steps                                        *)

LEMMA PageAnswers ==
  ASSUME ChannelInv, NEW c \in Ids, NEW n \in Int
  PROVE  Page(c, n) \in Answered /\ Page(c, n).instance = instance /\ Page(c, n).kind # "none"
<1> DEFINE answer(kind, es) == [instance |-> instance, kind |-> kind, events |-> es,
                                latest |-> Latest(c), oldest |-> Oldest(c)]
<1>1. instance \in Nat /\ Latest(c) \in Nat /\ events[c] \in Seq(Nat)
  BY DEF ChannelInv, Rings, Latest
<1>2. Oldest(c) \in Nat
  BY <1>1 DEF Oldest
<1>3. After(events[c], n) \in Seq(Nat) /\ <<>> \in Seq(Nat)
  BY <1>1, AfterAny
<1>4. PICK l \in Nat, o \in Nat, tail \in Seq(Nat), none \in Seq(Nat) :
        l = Latest(c) /\ o = Oldest(c) /\ tail = After(events[c], n) /\ none = <<>>
  BY <1>1, <1>2, <1>3
<1>5. PICK zero \in Nat : zero = 0
  OBVIOUS
<1>6. \/ Page(c, n) = [answer("unknown_conversation", none) EXCEPT !.latest = zero]
      \/ Page(c, n) = answer("cursor_invalid", none)
      \/ Page(c, n) = answer("cursor_expired", none)
      \/ Page(c, n) = answer("ok", tail)
  <2>1. CASE c \notin open
    BY <1>4, <1>5, <2>1 DEF Page
  <2>2. CASE c \in open /\ n > Latest(c)
    BY <1>4, <2>2 DEF Page
  <2>3. CASE c \in open /\ ~(n > Latest(c)) /\ events[c] # <<>> /\ n + 1 < Oldest(c)
    BY <1>4, <2>3 DEF Page
  <2>4. CASE c \in open /\ ~(n > Latest(c)) /\ ~(events[c] # <<>> /\ n + 1 < Oldest(c))
    BY <1>4, <2>4 DEF Page
  <2> QED
    BY <2>1, <2>2, <2>3, <2>4
<1>7. \A k \in Kinds \ {"none"}, es \in Seq(Nat) :
        answer(k, es) \in Answered /\ answer(k, es).instance = instance /\ answer(k, es).kind = k
  BY <1>1, <1>4 DEF Answered
<1> HIDE DEF answer
<1>8. /\ "unknown_conversation" \in Kinds \ {"none"} /\ "cursor_invalid" \in Kinds \ {"none"}
      /\ "cursor_expired" \in Kinds \ {"none"} /\ "ok" \in Kinds \ {"none"}
  BY DEF Kinds
<1>9. CASE Page(c, n) = [answer("unknown_conversation", none) EXCEPT !.latest = zero]
  <2>1. PICK x \in Answered : /\ x = answer("unknown_conversation", none)
                              /\ x.instance = instance /\ x.kind = "unknown_conversation"
    BY <1>4, <1>7, <1>8
  <2>2. PICK y : y = [x EXCEPT !.latest = zero] /\ y = Page(c, n)
    BY <1>9, <2>1
  <2>3. y \in Answered /\ y.instance = x.instance /\ y.kind = x.kind
    BY <1>5, <2>2 DEF Answered
  <2> QED
    BY <2>1, <2>2, <2>3
<1>10. ASSUME NEW k \in Kinds \ {"none"}, NEW es \in Seq(Nat), Page(c, n) = answer(k, es)
       PROVE  Page(c, n) \in Answered /\ Page(c, n).instance = instance /\ Page(c, n).kind # "none"
  BY <1>7, <1>10
<1>11. CASE \/ Page(c, n) = answer("cursor_invalid", none) \/ Page(c, n) = answer("cursor_expired", none)
            \/ Page(c, n) = answer("ok", tail)
  BY <1>8, <1>10, <1>11
<1> QED
  BY <1>6, <1>9, <1>11

LEMMA ServePollFits ==
  ASSUME ChannelInv, Fit(page), NEW q, ServePoll(q)
  PROVE  /\ Fit(page') /\ page'.opened = page.opened /\ page'.instance = page.instance
         /\ Same(page, page') /\ page'.loop = page.loop
         /\ \E a \in Answered :
              /\ a = Page(q.id, q.after)
              /\ page'.polls = (page.polls \ {q}) \cup {[q EXCEPT !.answer = a]}
<1>1. q \in page.polls /\ q \in Polls /\ page \in Pages
  BY DEF ServePoll, Fit, Pages
<1>2. PICK a \in Answered : a = Page(q.id, q.after) /\ a.instance = instance
  <2>1. q.id \in Ids /\ q.after \in Int
    BY <1>1 DEF Polls
  <2> QED
    BY <2>1, PageAnswers
<1>3. PICK u : u = [q EXCEPT !.answer = a]
  OBVIOUS
<1>4. u \in Polls /\ u.answer = a
  BY <1>1, <1>3 DEF Polls
<1>5. PICK ps : ps = (page.polls \ {q}) \cup {u}
  OBVIOUS
<1>6. ps \in SUBSET Polls
  BY <1>1, <1>4, <1>5 DEF Pages
<1>7. page' = [page EXCEPT !.polls = ps]
  BY <1>2, <1>3, <1>5 DEF ServePoll
<1>8. page' \in Pages /\ page'.polls = ps /\ Same(page, page') /\ page'.loop = page.loop
  BY <1>1, <1>6, <1>7 DEF Pages, Same
<1>9. page.instance <= instance /\ instance \in Nat
  BY DEF Fit, ChannelInv
<1>10. Fit(page')
  <2>1. page'.instance = page.instance
    BY <1>8 DEF Same
  <2>2. \A x \in ps : /\ x.answer = NoAnswer \/ page.instance <= x.answer.instance
                      /\ x.answer.instance <= instance
    BY <1>2, <1>4, <1>5, <1>9 DEF Fit
  <2> QED
    BY <1>8, <1>9, <2>1, <2>2 DEF Fit
<1> QED
  BY <1>2, <1>3, <1>5, <1>8, <1>10 DEF Same

(* A page without a request that was answered or has failed                *)
LEMMA WithoutIs ==
  ASSUME NEW p, Fit(p), NEW q
  PROVE  LET r == [p EXCEPT !.polls = @ \ {q}] IN
         Fit(r) /\ Same(p, r) /\ r.polls = p.polls \ {q} /\ r.loop = p.loop
<1>1. p \in Pages
  BY DEF Fit
<1>2. PICK r : r = [p EXCEPT !.polls = p.polls \ {q}]
  OBVIOUS
<1>3. r \in Pages /\ r.polls = p.polls \ {q} /\ Same(p, r) /\ r.loop = p.loop
  BY <1>1, <1>2 DEF Pages, Same
<1>4. Fit(r)
  BY <1>3 DEF Fit, Same
<1> QED
  BY <1>2, <1>3, <1>4

LEMMA PollAnsweredFits ==
  ASSUME Fit(page), NEW q, PollAnswered(q)
  PROVE  LET p == [page EXCEPT !.polls = @ \ {q}] IN
         /\ Sane(p, page') /\ Fit(p) /\ Same(page, p) /\ p.polls = page.polls \ {q}
         /\ p.loop = page.loop
         /\ q.answer \in Answered /\ page' = Polled(p, q.id, q.answer)
         /\ p.instance <= q.answer.instance /\ q.answer.instance <= instance
<1>1. PICK p : p = [page EXCEPT !.polls = @ \ {q}]
  OBVIOUS
<1>2. Fit(p) /\ Same(page, p) /\ p.polls = page.polls \ {q} /\ p.loop = page.loop
  BY <1>1, WithoutIs
<1>3. /\ q \in page.polls /\ q.answer # NoAnswer
      /\ page' = Polled(p, q.id, q.answer)
  BY <1>1 DEF PollAnswered
<1>4. q.answer \in Answered
  <2>1. q \in Polls
    BY <1>3 DEF Fit, Pages
  <2> QED
    BY <2>1 DEF Polls
<1>5. p.instance <= q.answer.instance /\ q.answer.instance <= instance
  BY <1>2, <1>3 DEF Fit, Same
<1>6. Sane(p, page')
  BY <1>2, <1>3, <1>4, <1>5, PolledSane
<1> QED
  BY <1>1, <1>2, <1>3, <1>4, <1>5, <1>6

(* What TasksLoaded makes of the page                                      *)
Loaded(p) ==
  LET q == [WithTasks(p) EXCEPT !.connected = TRUE, !.alert = FALSE]
  IN IF q.started THEN StartPolling(q) ELSE q

LEMMA LoadedIs ==
  ASSUME NEW p \in Pages, session \in {"live", "terminal", "gone"}
  PROVE  LET r == Loaded(p) IN
         /\ r \in Pages /\ r.own = p.own /\ r.opened = p.opened /\ r.task = session
         /\ r.instance = p.instance /\ r.saved = p.saved
         /\ r.begun = p.begun /\ r.shown = p.shown /\ r.told = p.told /\ r.crossed = p.crossed
         /\ Looks(p, r)
         /\ \/ r.polls = p.polls /\ r.loop = p.loop
            \/ r.polls \subseteq {Request(r)} /\ (r.loop # "asking" => r.polls = {})
<1>1. PICK w \in Pages :
        /\ w = WithTasks(p) /\ w.own = p.own /\ w.opened = p.opened /\ w.task = session
        /\ w.instance = p.instance /\ w.saved = p.saved
        /\ w.begun = p.begun /\ w.shown = p.shown /\ w.told = p.told /\ w.crossed = p.crossed
        /\ w.loop = p.loop /\ w.polls = p.polls /\ Looks(p, w)
  <2>1. PICK w : w = WithTasks(p)
    OBVIOUS
  <2> QED
    BY <2>1, WithTasksIs
<1>2. PICK yes \in BOOLEAN, no \in BOOLEAN : yes = TRUE /\ no = FALSE
  OBVIOUS
<1>3. PICK q : q = [w EXCEPT !.connected = yes, !.alert = no]
  OBVIOUS
<1>4. q \in Pages
  BY <1>2, <1>3 DEF Pages
<1>5. /\ q.own = w.own /\ q.opened = w.opened /\ q.task = w.task /\ q.instance = w.instance
      /\ q.saved = w.saved /\ q.begun = w.begun /\ q.shown = w.shown /\ q.told = w.told /\ q.crossed = w.crossed
      /\ q.loop = w.loop /\ q.polls = w.polls /\ q.selected = w.selected /\ q.cursor = w.cursor
      /\ q.rendered = w.rendered
  BY <1>3 DEF Pages
<1>6. Looks(p, q) /\ Active(q) = Active(w)
  BY <1>1, <1>5 DEF Looks, Active
<1>7. Loaded(p) = IF q.started THEN StartPolling(q) ELSE q
  BY <1>1, <1>2, <1>3 DEF Loaded
<1>8. CASE q.started
  <2>1. PICK r : r = StartPolling(q) /\ r = Loaded(p)
    BY <1>7, <1>8
  <2>2. /\ r \in Pages /\ Same(q, r) /\ r.polls \subseteq {Request(q)}
        /\ r.loop # "asking" => r.polls = {}
    BY <1>4, <2>1, StartPollingIs
  <2>3. Request(r) = Request(q) /\ Active(r) = Active(q)
    BY <2>2 DEF Same, Request, Active
  <2>4. Looks(p, r)
    BY <1>6, <2>2, <2>3 DEF Looks, Same
  <2> QED
    BY <1>1, <1>5, <2>1, <2>2, <2>3, <2>4 DEF Same
<1>9. CASE ~q.started
  <2>1. Loaded(p) = q
    BY <1>7, <1>9
  <2> QED
    BY <1>1, <1>4, <1>5, <1>6, <2>1
<1> QED
  BY <1>8, <1>9

LEMMA AlertIs ==
  ASSUME NEW p \in Pages, NEW b \in BOOLEAN
  PROVE  LET r == [p EXCEPT !.alert = b] IN
         r \in Pages /\ Same(p, r) /\ r.polls = p.polls /\ r.loop = p.loop
<1>1. PICK r : r = [p EXCEPT !.alert = b]
  OBVIOUS
<1>2. r \in Pages
  BY <1>1 DEF Pages
<1>3. Same(p, r) /\ r.polls = p.polls /\ r.loop = p.loop
  BY <1>1 DEF Same, Pages
<1> QED
  BY <1>1, <1>2, <1>3

LEMMA SaneAlert ==
  ASSUME NEW p, NEW q \in Pages, Sane(p, q), NEW b \in BOOLEAN
  PROVE  Sane(p, [q EXCEPT !.alert = b])
<1>1. PICK r \in Pages : r = [q EXCEPT !.alert = b] /\ Same(q, r) /\ r.polls = q.polls
  BY AlertIs
<1>2. Sane(p, r)
  BY <1>1 DEF Sane, Same
<1> QED
  BY <1>1, <1>2

(* A step of the page, the answer to a created conversation apart          *)
LEMMA PageMoves ==
  ASSUME ChannelInv, Fit(page), op \in [Operations -> Ops],
         \/ \E q \in page.polls : PollAnswered(q) \/ PollFails(q)
         \/ PollsAgain \/ TasksPolled \/ Connect \/ Send \/ (\E t \in {"dispatcher", "task"} : Select(t))
         \/ Reset \/ Reload \/ PostAnswered
         \/ \E o \in Operations : OperationFails(o) \/ HealthAnswered(o) \/ TasksLoaded(o)
  PROVE  Sane(page, page')
<1> USE DEF ChannelInv
<1>0. page \in Pages /\ instance \in Nat
  BY DEF Fit
<1>1. ASSUME NEW q, PollAnswered(q) PROVE Sane(page, page')
  <2>1. PICK p : Sane(p, page') /\ Same(page, p) /\ p.polls \subseteq page.polls
    BY <1>1, PollAnsweredFits
  <2> QED
    BY <2>1 DEF Sane, Same
<1>2. ASSUME NEW q, PollFails(q) PROVE Sane(page, page')
  <2>1. PICK ps : ps = page.polls \ {q} /\ ps \in SUBSET Polls
    <3>1. page.polls \in SUBSET Polls
      BY <1>0 DEF Pages
    <3> QED
      BY <3>1
  <2>2. PICK yes \in BOOLEAN : yes = TRUE
    OBVIOUS
  <2>3. page' = [page EXCEPT !.polls = ps, !.loop = "off", !.alert = yes]
    BY <1>2, <2>1, <2>2 DEF PollFails
  <2>4. page' \in Pages /\ page'.opened = page.opened /\ page'.instance = page.instance /\ page'.polls = ps
    BY <1>0, <2>1, <2>3 DEF Pages
  <2> QED
    BY <2>1, <2>4, SaneSame
<1>3. CASE PollsAgain
  <2>1. CASE page' = Ask(page)
    <3>1. /\ page' \in Pages /\ Same(page, page')
          /\ page'.polls = page.polls \cup {Request(page)}
      BY <1>0, <2>1, AskIs
    <3> QED
      BY <3>1, SaneSame DEF Same, Request
  <2>2. CASE page' = [page EXCEPT !.loop = "off"]
    <3>1. page' \in Pages /\ page'.opened = page.opened /\ page'.instance = page.instance /\ page'.polls = page.polls
      BY <1>0, <2>2 DEF Pages
    <3> QED
      BY <3>1, SaneSame
  <2> QED
    BY <1>3, <2>1, <2>2 DEF PollsAgain
<1>4. CASE TasksPolled
  <2>1. page' = WithTasks(page) /\ session \in {"live", "terminal", "gone"}
    BY <1>4 DEF TasksPolled, Threads
  <2>2. page' \in Pages /\ page'.opened = page.opened /\ page'.instance = page.instance /\ page'.polls = page.polls
    BY <1>0, <2>1, WithTasksIs
  <2> QED
    BY <2>2, SaneSame
<1>5. ASSUME NEW b \in BOOLEAN, page' = [page EXCEPT !.alert = b] PROVE Sane(page, page')
  <2>1. page' \in Pages /\ page'.opened = page.opened /\ page'.instance = page.instance /\ page'.polls = page.polls
    BY <1>0, <1>5 DEF Pages
  <2> QED
    BY <2>1, SaneSame
<1>6. CASE Connect
  <2>1. page' = [page EXCEPT !.alert = FALSE]
    BY <1>6 DEF Connect
  <2> QED
    BY <1>5, <2>1
<1>7. CASE Send
  <2>1. PICK b \in BOOLEAN : b = (IF page.connected THEN page.alert ELSE FALSE)
    BY <1>0 DEF Pages
  <2>2. page' = [page EXCEPT !.alert = b]
    BY <1>7, <2>1 DEF Send
  <2> QED
    BY <1>5, <2>2
<1>8. ASSUME NEW t \in {"dispatcher", "task"}, Select(t) PROVE Sane(page, page')
  <2> DEFINE s == [Idle EXCEPT !.phase = "health", !.task = t, !.join = t # page.selected]
             p == IF s.join THEN StopPolling(page) ELSE page
  <2>1. p \in Pages /\ Same(page, p) /\ p.polls \subseteq page.polls
    <3>1. /\ StopPolling(page) \in Pages /\ Same(page, StopPolling(page)) /\ StopPolling(page).polls = {}
          /\ Same(page, page)
      BY <1>0, StopPollingIs DEF Same
    <3> HIDE DEF s
    <3> QED
      BY <1>0, <3>1
  <2>2. s.task = t
    BY DEF Idle
  <2>3. \/ page' = [p EXCEPT !.alert = FALSE]
        \/ page' = [Selected(p, s) EXCEPT !.alert = FALSE]
    BY <1>8 DEF Select
  <2>4. Selected(p, s) \in Pages /\ Selected(p, s).opened = p.opened /\ Selected(p, s).instance = p.instance
        /\ \A q \in Selected(p, s).polls : q \in p.polls \/ q.answer = NoAnswer
    <3> HIDE DEF p, s
    <3>1. PICK r : r = Selected(p, s)
      OBVIOUS
    <3>2. r \in Pages /\ r.opened = p.opened /\ r.instance = p.instance
          /\ (r.polls = p.polls \/ r.polls \subseteq {Request(r)})
      BY <2>1, <2>2, <3>1, SelectedIs
    <3> QED
      BY <3>1, <3>2 DEF Request
  <2>5. PICK u \in Pages, no \in BOOLEAN :
          /\ u.opened = p.opened /\ u.instance = p.instance
          /\ \A q \in u.polls : q \in p.polls \/ q.answer = NoAnswer
          /\ page' = [u EXCEPT !.alert = no]
    BY <2>1, <2>3, <2>4
  <2> HIDE DEF p
  <2>6. page' \in Pages /\ page'.opened = u.opened /\ page'.instance = u.instance /\ page'.polls = u.polls
    BY <2>5 DEF Pages
  <2> QED
    BY <2>1, <2>5, <2>6, SaneSame DEF Same
<1>9. CASE Reset
  <2>1. PICK c \in Own : page' = [Cleared(page) EXCEPT !.own = c, !.alert = FALSE]
    BY <1>9 DEF Reset
  <2>2. PICK u \in Pages, no \in BOOLEAN :
          /\ u = Cleared(page) /\ u.polls = {} /\ u.opened = Nobody /\ u.instance = page.instance
          /\ no = FALSE
    BY <1>0, ClearedIs DEF Clean
  <2>3. page' = [u EXCEPT !.own = c, !.alert = no]
    BY <2>1, <2>2
  <2>4. page' \in Pages /\ page'.polls = {} /\ page'.opened = Nobody /\ page'.instance = page.instance
    BY <2>2, <2>3 DEF Pages
  <2> QED
    BY <1>0, <2>4 DEF Sane, Fit, Pages
<1>10. CASE PostAnswered
  <2> DEFINE s == op["send"]
             yes == TRUE
             no == FALSE
             begun == page.begun \cup {s.id}
             q == [page EXCEPT !.started = yes, !.begun = begun, !.alert = no]
  <2>1. \/ page' = Failed(page, "send") \/ page' = page
        \/ page' = StartPolling(q) /\ s.id = Active(page)
    BY <1>10 DEF PostAnswered
  <2>2. ASSUME s.id = Active(page)
        PROVE  StartPolling(q) \in Pages /\ StartPolling(q).opened = page.opened
               /\ StartPolling(q).instance = page.instance
               /\ \A x \in StartPolling(q).polls : x.answer = NoAnswer
    <3>1. begun \in SUBSET Ids /\ yes \in BOOLEAN /\ no \in BOOLEAN
      <4>1. page.begun \in SUBSET Ids
        BY <1>0 DEF Pages
      <4>2. s.id \in Ids
        BY <1>0, <2>2, ActiveIs
      <4> QED
        BY <4>1, <4>2
    <3> HIDE DEF begun, yes, no, s
    <3>2. q \in Pages /\ q.opened = page.opened /\ q.instance = page.instance
      BY <1>0, <3>1 DEF Pages
    <3> HIDE DEF q
    <3>3. PICK r : r = StartPolling(q)
      OBVIOUS
    <3>4. r \in Pages /\ Same(q, r) /\ r.polls \subseteq {Request(q)}
      BY <3>2, <3>3, StartPollingIs
    <3> QED
      BY <3>2, <3>3, <3>4 DEF Same, Request
  <2>3. /\ Failed(page, "send") \in Pages /\ Failed(page, "send").opened = page.opened
        /\ Failed(page, "send").instance = page.instance
        /\ \A x \in Failed(page, "send").polls : x \in page.polls \/ x.answer = NoAnswer
    <3>1. PICK r : r = Failed(page, "send")
      OBVIOUS
    <3>2. "send" \in Operations
      BY DEF Operations
    <3>3. r \in Pages /\ r.opened = page.opened /\ r.instance = page.instance
          /\ (r.polls = page.polls \/ r.polls \subseteq {Request(page)})
      BY <1>0, <3>1, <3>2, FailedIs
    <3> QED
      BY <3>1, <3>3 DEF Request
  <2> HIDE DEF q, s
  <2>4. page' \in Pages /\ page'.opened = page.opened /\ page'.instance = page.instance
        /\ \A x \in page'.polls : x \in page.polls \/ x.answer = NoAnswer
    BY <1>0, <2>1, <2>2, <2>3
  <2> QED
    BY <2>4, SaneSame
<1>11. ASSUME NEW o \in Operations, OperationFails(o) PROVE Sane(page, page')
  <2>1. page' = Failed(page, o)
    BY <1>11 DEF OperationFails
  <2>2. PICK r : r = Failed(page, o)
    OBVIOUS
  <2>3. r \in Pages /\ r.opened = page.opened /\ r.instance = page.instance
        /\ (r.polls = page.polls \/ r.polls \subseteq {Request(page)})
    BY <1>0, <2>2, FailedIs
  <2> QED
    BY <2>1, <2>2, <2>3, SaneSame DEF Request
<1>12. CASE Reload
  <2> DEFINE cursor == page.saved[page.own]
             started == (page.own \in page.begun)
             none == 0
             no == FALSE
             shown == [c \in Ids |-> <<>>]
             told == [c \in Ids |-> page.told[c] \cup ToSet(page.shown[c])]
             ps == {}
             u == [page EXCEPT !.cursor = cursor, !.rendered = none, !.started = started,
                               !.connected = no, !.attempts = none, !.alert = no]
             v == [u EXCEPT !.opened = Nobody, !.selected = "dispatcher", !.task = session,
                            !.loop = "off", !.polls = ps, !.shown = shown, !.told = told]
  <2>1. page' = v
    BY <1>0, <1>12, ZenonT(30) DEF Reload, Pages
  <2>2. page.saved \in [Ids -> Int] /\ page.own \in Ids /\ page.told \in [Ids -> SUBSET Int]
        /\ page.shown \in [Ids -> Seq(Int)]
    BY <1>0, WebClientAssumption DEF Pages
  <2>3. cursor \in Int /\ started \in BOOLEAN /\ none \in Nat /\ none \in Int /\ no \in BOOLEAN /\ ps \in SUBSET Polls
    BY <2>2
  <2>4. shown \in [Ids -> Seq(Int)]
    OBVIOUS
  <2>5. told \in [Ids -> SUBSET Int]
    <3>1. \A c \in Ids : page.told[c] \in SUBSET Int /\ ToSet(page.shown[c]) \in SUBSET Int
      BY <2>2 DEF ToSet
    <3> QED
      BY <3>1
  <2>6. session \in {"live", "terminal", "gone"}
    BY DEF Threads
  <2> HIDE DEF cursor, started, none, no, shown, told, ps
  <2>7. u \in Pages /\ u.instance = page.instance
    <3>1. PICK w : w = [page EXCEPT !.cursor = cursor, !.rendered = none, !.attempts = none]
      OBVIOUS
    <3>2. w \in Pages /\ w.instance = page.instance
      BY <1>0, <2>3, <3>1 DEF Pages
    <3>3. PICK x : x = [w EXCEPT !.started = started, !.connected = no, !.alert = no]
      OBVIOUS
    <3>4. x \in Pages /\ x.instance = w.instance
      BY <2>3, <3>2, <3>3 DEF Pages
    <3>5. u = x
      BY <1>0, <3>1, <3>3 DEF Pages
    <3> QED
      BY <3>2, <3>4, <3>5
  <2> HIDE DEF u
  <2>8. v \in Pages
    BY <2>3, <2>4, <2>5, <2>6, <2>7 DEF Pages
  <2>9. v.instance = page.instance /\ v.opened = Nobody /\ v.polls = {}
    BY <2>7 DEF Pages, ps
  <2> HIDE DEF v
  <2> QED
    BY <1>0, <2>1, <2>8, <2>9 DEF Sane, Fit, Pages
<1>13. ASSUME NEW o \in Operations, HealthAnswered(o) PROVE Sane(page, page')
  <2>1. PICK p : p = Accept(page, instance)
    OBVIOUS
  <2>2. Sane(page, p) /\ p \in Pages
    BY <1>0, <2>1, AcceptSane DEF Sane, Fit
  <2>3. page' = p \/ page' = [p EXCEPT !.alert = TRUE]
    BY <1>13, <2>1 DEF HealthAnswered, Post
  <2> QED
    BY <2>2, <2>3, SaneAlert
<1>14. ASSUME NEW o \in Operations, TasksLoaded(o) PROVE Sane(page, page')
  <2>1. PICK p : /\ p = Loaded(page) /\ p \in Pages /\ p.opened = page.opened /\ p.instance = page.instance
                 /\ (p.polls = page.polls \/ p.polls \subseteq {Request(p)})
    BY <1>0, LoadedIs DEF Threads
  <2>2. Sane(page, p)
    BY <2>1, SaneSame DEF Request
  <2>3. page' = p \/ page' = [p EXCEPT !.alert = TRUE]
    BY <1>14, <2>1 DEF TasksLoaded, Loaded, Post
  <2> QED
    BY <2>1, <2>2, <2>3, SaneAlert, ZenonT(30)
<1> QED
  BY <1>1, <1>2, <1>3, <1>4, <1>6, <1>7, <1>8, <1>9, <1>10, <1>11, <1>12, <1>13, <1>14

----------------------------------------------------------------------------
(* The user's operations                                                   *)

LEMMA IdleStands == \A o \in Operations : Stands(o, Idle) /\ Idle.checked = 0 /\ Idle.phase = "idle"
<1>1. Idle \in Ops
  BY DEF Idle, Ops
<1> QED
  BY <1>1 DEF Stands, Idle, Operations

(* One operation goes to where it may stand, or none does.                 *)
LEMMA OneGoes ==
  ASSUME Operating, used \subseteq used', bound \subseteq bound', inbox' \subseteq Ids,
         \/ UNCHANGED op
         \/ \E o \in Operations, s \in Ops : Stands(o, s)' /\ Goes(o, s)
  PROVE  Operating'
<1>1. \A o \in Operations : Stands(o, op[o]) /\ op[o] \in Ops
  BY DEF Operating
<1>2. CASE UNCHANGED op
  <2>1. ASSUME NEW o \in Operations PROVE (Stands(o, op[o]))'
    BY <1>1, <1>2 DEF Stands
  <2> QED
    BY <1>2, <2>1 DEF Operating
<1>3. ASSUME NEW o \in Operations, NEW s \in Ops, Stands(o, s)', Goes(o, s)
      PROVE  Operating'
  <2>1. op' = [op EXCEPT ![o] = s]
    BY <1>3 DEF Goes
  <2>2. op' \in [Operations -> Ops] /\ op'[o] = s /\ \A x \in Operations \ {o} : op'[x] = op[x]
    BY <2>1 DEF Operating
  <2>3. ASSUME NEW x \in Operations PROVE (Stands(x, op[x]))'
    BY <1>1, <1>3, <2>2 DEF Stands
  <2> QED
    BY <2>2, <2>3 DEF Operating
<1> QED
  BY <1>2, <1>3

(* What sendMessage does once it knows the instance                        *)
LEMMA PostIs ==
  ASSUME NEW p, NEW s, Post(p, s)
  PROVE  \/ /\ Goes("send", Idle) /\ page' = [p EXCEPT !.alert = TRUE]
         \/ /\ page' = p
            /\ Goes("send", [s EXCEPT !.phase = "post", !.id = IF s.task = "task" THEN p.opened ELSE p.own])
            /\ s.task = "task" => p.opened # Nobody
BY DEF Post

LEMMA PostStands ==
  ASSUME ChannelInv, NEW p, Fit(p), Attached(p), NEW s \in Ops, Stands("send", s), s.checked <= p.instance,
         s.task = "task" => p.opened # Nobody
  PROVE  LET t == [s EXCEPT !.phase = "post", !.id = IF s.task = "task" THEN p.opened ELSE p.own] IN
         /\ t \in Ops /\ Stands("send", t) /\ t.checked = s.checked
         /\ t.id \in Made /\ t.checked = instance => t.id \in bound
<1>1. PICK i : i = IF s.task = "task" THEN p.opened ELSE p.own
  OBVIOUS
<1>2. /\ p.own \in Own /\ p.opened \in Made \cup {Nobody} /\ p.instance \in Nat
      /\ p.instance <= instance /\ instance \in Nat
  BY DEF Fit, Pages, ChannelInv
<1>3. i \in Ids /\ (i \in Made => i = p.opened /\ p.opened # Nobody)
  BY <1>1, <1>2, WebClientAssumption
<1>4. PICK t : t = [s EXCEPT !.phase = "post", !.id = i]
  OBVIOUS
<1>5. t \in Ops /\ t.phase = "post" /\ t.id = i /\ t.checked = s.checked /\ t.checked \in Nat
  BY <1>3, <1>4 DEF Ops
<1>6. Stands("send", t)
  BY <1>3, <1>5 DEF Stands
<1>7. t.id \in Made /\ t.checked = instance => t.id \in bound
  BY <1>2, <1>3, <1>5 DEF Attached
<1> QED
  BY <1>1, <1>4, <1>5, <1>6, <1>7

(* The page and op["send"] after a step that leaves the server alone       *)
LEMMA SendKept ==
  ASSUME ChannelInv, PageInv, UNCHANGED server, Sane(page, page'), op'["send"] = op["send"]
  PROVE  Fit(page)' /\ Attached(page)' /\ Sending(page)'
<1>1. Fit(page') /\ Attached(page') /\ Sending(page')
  <2>1. instance \in Nat
    BY DEF ChannelInv
  <2> QED
    BY <2>1, SaneKeeps DEF PageInv, Operating
<1> QED
  BY <1>1 DEF server, Fit, Attached, Sending

LEMMA SendGoes ==
  ASSUME ChannelInv, PageInv, UNCHANGED server, Sane(page, page'), NEW s \in Ops, Goes("send", s),
         s.checked <= page'.instance,
         s.phase = "post" /\ s.id \in Made /\ s.checked = instance => s.id \in bound
  PROVE  Fit(page)' /\ Attached(page)' /\ Sending(page)'
<1>1. Fit(page') /\ Attached(page')
  <2>1. instance \in Nat
    BY DEF ChannelInv
  <2> QED
    BY <2>1, SaneKeeps DEF PageInv
<1>2. op'["send"] = s
  BY DEF Goes, PageInv, Operating, Operations
<1> QED
  BY <1>1, <1>2 DEF server, Fit, Attached, Sending

(* The page while the daemon goes on                                       *)
LEMMA PageRests ==
  ASSUME ChannelInv, PageInv, GoesOn, UNCHANGED page,
         op'["send"].checked = op["send"].checked, op'["send"].phase = op["send"].phase,
         op'["send"].id = op["send"].id
  PROVE  Fit(page)' /\ Attached(page)' /\ Sending(page)'
<1>1. /\ page \in Pages /\ page.instance \in Nat /\ page.instance <= instance /\ instance \in Nat
      /\ \A q \in page.polls : q.answer.instance <= instance /\ q.answer.instance \in Nat
  BY DEF PageInv, Fit, Pages, Polls, Answered, ChannelInv
<1>2. op["send"].checked \in Nat
  BY DEF PageInv, Operating, Ops, Operations
<1>3. CASE instance' = instance /\ bound \subseteq bound'
  BY <1>1, <1>2, <1>3 DEF PageInv, Fit, Attached, Sending
<1>4. CASE instance' = instance + 1
  <2>1. page.instance < instance' /\ page.instance <= instance' /\ page.instance # instance'
    BY <1>1, <1>4
  <2>2. op["send"].checked <= page.instance
    BY DEF PageInv, Sending
  <2>3. op["send"].checked # instance'
    BY <1>1, <1>2, <2>1, <2>2
  <2>4. \A q \in page.polls : q.answer.instance <= instance'
    BY <1>1, <1>4
  <2> QED
    BY <1>1, <2>1, <2>2, <2>3, <2>4 DEF PageInv, Fit, Attached, Sending
<1> QED
  BY <1>3, <1>4 DEF GoesOn

LEMMA PageStepAlone ==
  ASSUME ChannelInv, PageInv,
         \/ \E q \in page.polls : ServePoll(q) \/ PollAnswered(q) \/ PollFails(q)
         \/ PollsAgain \/ TasksPolled \/ Reset
  PROVE  PageInv'
<1>1. UNCHANGED <<server, op, inbox>> /\ used \subseteq used'
  BY DEF ServePoll, PollAnswered, PollFails, PollsAgain, TasksPolled, Reset
<1>2. bound' = bound
  BY <1>1 DEF server
<1>3. Operating'
  BY <1>1, <1>2, OneGoes DEF PageInv, Operating
<1>4. CASE \E q \in page.polls : ServePoll(q)
  <2>1. PICK q : ServePoll(q)
    BY <1>4
  <2>2. Fit(page') /\ page'.opened = page.opened /\ page'.instance = page.instance
    BY <2>1, ServePollFits DEF PageInv
  <2> QED
    BY <1>1, <1>3, <2>2 DEF server, PageInv, Fit, Attached, Sending
<1>5. CASE \/ \E q \in page.polls : PollAnswered(q) \/ PollFails(q)
           \/ PollsAgain \/ TasksPolled \/ Reset
  <2>1. Sane(page, page')
    BY <1>5, PageMoves DEF PageInv, Operating
  <2>2. Fit(page)' /\ Attached(page)' /\ Sending(page)'
    BY <1>1, <2>1, SendKept
  <2> QED
    BY <1>3, <2>2 DEF PageInv
<1> QED
  BY <1>4, <1>5

LEMMA PageStepUser ==
  ASSUME ChannelInv, PageInv, Connect \/ Send \/ (\E t \in {"dispatcher", "task"} : Select(t)) \/ Reload
  PROVE  PageInv'
<1>1. UNCHANGED <<server, used, inbox>>
  BY DEF Connect, Send, Select, Reload
<1>2. bound' = bound /\ used' = used /\ inbox' \subseteq Ids /\ Operating
      /\ used \subseteq used' /\ bound \subseteq bound'
  BY <1>1 DEF server, PageInv, Operating
<1>3. Sane(page, page')
  BY PageMoves DEF PageInv, Operating
<1>4. /\ op \in [Operations -> Ops] /\ page.selected \in {"dispatcher", "task"} /\ page.connected \in BOOLEAN
      /\ page'.instance \in Nat
  BY <1>3 DEF PageInv, Operating, Fit, Pages, Sane
<1>5. ASSUME NEW o \in Operations, NEW s \in Ops, Goes(o, s),
             s.phase = "health", s.checked = 0, s.id = Nobody, s.answer = 0, o = "connect" => s.join
      PROVE  PageInv'
  <2>1. Stands(o, s)'
    BY <1>5 DEF Stands
  <2>2. Operating'
    BY <1>2, <1>5, <2>1, OneGoes
  <2>3. Fit(page)' /\ Attached(page)' /\ Sending(page)'
    <3>1. CASE o = "send"
      <4>1. Goes("send", s) /\ s.checked <= page'.instance /\ s.phase # "post"
        BY <1>4, <1>5, <3>1
      <4> QED
        BY <1>1, <1>3, <4>1, SendGoes
    <3>2. CASE o # "send"
      <4>1. op'["send"] = op["send"]
        BY <1>4, <1>5, <3>2 DEF Goes, Operations
      <4> QED
        BY <1>1, <1>3, <4>1, SendKept
    <3> QED
      BY <3>1, <3>2
  <2> QED
    BY <2>2, <2>3 DEF PageInv
<1>6. CASE Connect
  <2>1. PICK s : s = [Idle EXCEPT !.phase = "health", !.join = TRUE] /\ Goes("connect", s)
    BY <1>6 DEF Connect
  <2>2. s \in Ops /\ s.phase = "health" /\ s.checked = 0 /\ s.id = Nobody /\ s.answer = 0 /\ s.join
    BY <2>1 DEF Idle, Ops
  <2> QED
    BY <1>5, <2>1, <2>2 DEF Operations
<1>7. CASE Send
  <2>1. PICK b \in BOOLEAN : b = ~page.connected
    OBVIOUS
  <2>2. PICK s : s = [Idle EXCEPT !.phase = "health", !.task = page.selected, !.join = b] /\ Goes("send", s)
    BY <1>7, <2>1 DEF Send
  <2>3. s \in Ops /\ s.phase = "health" /\ s.checked = 0 /\ s.id = Nobody /\ s.answer = 0
    BY <1>4, <2>2 DEF Idle, Ops
  <2> QED
    BY <1>5, <2>2, <2>3 DEF Operations
<1>8. ASSUME NEW t \in {"dispatcher", "task"}, Select(t) PROVE PageInv'
  <2>1. PICK b \in BOOLEAN : b = (t # page.selected)
    OBVIOUS
  <2>2. PICK s : s = [Idle EXCEPT !.phase = "health", !.task = t, !.join = b]
    OBVIOUS
  <2>3. s \in Ops /\ s.phase = "health" /\ s.checked = 0 /\ s.id = Nobody /\ s.answer = 0
    BY <2>2 DEF Idle, Ops
  <2>4. UNCHANGED op \/ Goes("select", s)
    BY <1>8, <2>1, <2>2 DEF Select
  <2>5. CASE UNCHANGED op
    <3>1. Operating'
      BY <1>2, <2>5, OneGoes
    <3> QED
      BY <1>1, <1>3, <2>5, <3>1, SendKept DEF PageInv
  <2> QED
    BY <1>5, <2>3, <2>4, <2>5 DEF Operations
<1>9. CASE Reload
  <2>1. op' = [o \in Operations |-> Idle] /\ Idle \in Ops
    BY <1>9 DEF Reload, Idle, Ops
  <2>2. Operating'
    <3>1. ASSUME NEW o \in Operations PROVE Stands(o, op[o])'
      BY <1>2, <2>1 DEF Stands, Idle
    <3> QED
      BY <1>2, <2>1, <3>1 DEF Operating
  <2>3. op'["send"] = Idle
    BY <2>1 DEF Operations
  <2>4. Fit(page') /\ Attached(page')
    <3>1. instance \in Nat
      BY DEF ChannelInv
    <3> QED
      BY <1>3, <3>1, SaneKeeps DEF PageInv
  <2>5. op'["send"].checked = 0 /\ op'["send"].phase = "idle"
    BY <2>3 DEF Idle
  <2> QED
    BY <1>1, <1>4, <2>2, <2>4, <2>5 DEF PageInv, Fit, Attached, Sending, server
<1> QED
  BY <1>6, <1>7, <1>8, <1>9

LEMMA PageStepOps ==
  ASSUME ChannelInv, PageInv,
         \E o \in Operations : OperationFails(o) \/ HealthAnswered(o) \/ TasksLoaded(o)
  PROVE  PageInv'
<1>1. UNCHANGED <<server, used, inbox>>
  BY DEF OperationFails, HealthAnswered, TasksLoaded
<1>2. bound' = bound /\ used' = used /\ inbox' \subseteq Ids /\ Operating /\ instance \in Nat
      /\ used \subseteq used' /\ bound \subseteq bound'
  BY <1>1 DEF server, PageInv, Operating, ChannelInv
<1>3. Sane(page, page')
  BY PageMoves DEF PageInv, Operating
<1>4. \A x \in Operations : \A s : Stands(x, s) => Stands(x, s)'
  BY <1>2 DEF Stands
<1>5. ASSUME NEW o \in Operations \ {"send"}, NEW s \in Ops, Stands(o, s), Goes(o, s)
      PROVE  PageInv'
  <2>1. Operating'
    BY <1>2, <1>4, <1>5, OneGoes
  <2>2. op'["send"] = op["send"]
    BY <1>2, <1>5 DEF Goes, Operating, Operations
  <2> QED
    BY <1>1, <1>3, <2>1, <2>2, SendKept DEF PageInv
<1>6. ASSUME NEW s \in Ops, Stands("send", s), Goes("send", s), s.checked <= page'.instance,
             s.phase = "post" /\ s.id \in Made /\ s.checked = instance => s.id \in bound
      PROVE  PageInv'
  <2>1. Operating'
    BY <1>2, <1>4, <1>6, OneGoes DEF Operations
  <2> QED
    BY <1>1, <1>3, <1>6, <2>1, SendGoes DEF PageInv
<1>7. page'.instance \in Nat
  BY <1>3 DEF Sane, Pages
<1>8. ASSUME NEW o \in Operations, Goes(o, Idle) PROVE PageInv'
  <2>1. Idle \in Ops /\ Stands(o, Idle) /\ Idle.checked <= page'.instance /\ Idle.phase # "post"
    BY <1>7, <1>8, IdleStands DEF Stands
  <2> QED
    BY <1>5, <1>6, <1>8, <2>1
<1>9. ASSUME NEW p, Fit(p), Attached(p), NEW s \in Ops, Stands("send", s), s.checked <= p.instance, Post(p, s)
      PROVE  PageInv'
  <2>1. CASE Goes("send", Idle)
    BY <1>8, <2>1 DEF Operations
  <2>2. CASE ~Goes("send", Idle)
    <3>1. PICK t : t = [s EXCEPT !.phase = "post", !.id = IF s.task = "task" THEN p.opened ELSE p.own]
      OBVIOUS
    <3>2. page' = p /\ Goes("send", t) /\ (s.task = "task" => p.opened # Nobody)
      BY <1>9, <2>2, <3>1, PostIs
    <3>3. t \in Ops /\ Stands("send", t) /\ t.checked = s.checked
          /\ (t.id \in Made /\ t.checked = instance => t.id \in bound)
      BY <1>9, <3>1, <3>2, PostStands
    <3> QED
      BY <1>6, <1>9, <3>2, <3>3
  <2> QED
    BY <2>1, <2>2
<1>10. ASSUME NEW o \in Operations, OperationFails(o) PROVE PageInv'
  <2>1. Goes(o, Idle)
    BY <1>10 DEF OperationFails
  <2> QED
    BY <1>8, <2>1
<1>11. ASSUME NEW o \in Operations, HealthAnswered(o) PROVE PageInv'
  <2>1. PICK p : p = Accept(page, instance)
    OBVIOUS
  <2>2. Sane(page, p) /\ p.instance = instance
    BY <1>2, <2>1, AcceptSane DEF PageInv, Fit
  <2>3. Fit(p) /\ Attached(p)
    BY <1>2, <2>2, SaneKeeps DEF PageInv
  <2>4. PICK b \in BOOLEAN : b = (instance # page.instance)
    OBVIOUS
  <2>5. PICK s : s = [op[o] EXCEPT !.news = b, !.checked = instance]
    OBVIOUS
  <2>6. Stands(o, op[o]) /\ op[o] \in Ops /\ op[o].phase = "health"
    BY <1>11 DEF HealthAnswered, PageInv, Operating
  <2>7. s \in Ops /\ s.checked = instance /\ s.phase = "health" /\ s.id = op[o].id /\ s.answer = op[o].answer
        /\ s.join = op[o].join
    BY <1>2, <2>5, <2>6 DEF Ops
  <2>8. Stands(o, s)
    BY <2>6, <2>7 DEF Stands
  <2>9. \/ o = "select" /\ Goes(o, [s EXCEPT !.phase = "create"]) /\ page' = p
        \/ o # "select" /\ Goes(o, [s EXCEPT !.phase = "tasks"]) /\ page' = p
        \/ o # "select" /\ ~s.join /\ Post(p, s)
    <3>1. s.join = op[o].join
      BY <2>5, <2>6 DEF Ops
    <3> QED
      BY <1>11, <2>1, <2>4, <2>5, <3>1 DEF HealthAnswered
  <2>10. CASE o = "select" /\ Goes(o, [s EXCEPT !.phase = "create"])
    <3>1. PICK t : t = [s EXCEPT !.phase = "create"] /\ Goes(o, t)
      BY <2>10
    <3>2. t \in Ops /\ t.phase = "create" /\ t.id = s.id /\ t.answer = s.answer
      BY <2>7, <3>1 DEF Ops
    <3>3. Stands(o, t)
      BY <2>7, <2>8, <2>10, <3>2 DEF Stands
    <3> QED
      BY <1>5, <2>10, <3>1, <3>2, <3>3
  <2>11. CASE o # "select" /\ Goes(o, [s EXCEPT !.phase = "tasks"]) /\ page' = p
    <3>1. PICK t : t = [s EXCEPT !.phase = "tasks"] /\ Goes(o, t)
      BY <2>11
    <3>2. t \in Ops /\ t.phase = "tasks" /\ t.checked = instance
      BY <2>7, <3>1 DEF Ops
    <3>3. Stands(o, t)
      BY <2>11, <3>2 DEF Stands
    <3>4. t.checked <= page'.instance
      BY <1>2, <2>2, <2>11, <3>2
    <3>5. CASE o = "send"
      BY <1>6, <3>1, <3>2, <3>3, <3>4, <3>5
    <3> QED
      BY <1>5, <3>1, <3>2, <3>3, <3>5
  <2>12. CASE o # "select" /\ ~s.join /\ Post(p, s)
    <3>1. CASE o = "send"
      <4>1. s.checked <= p.instance
        BY <1>2, <2>2, <2>7
      <4> QED
        BY <1>9, <2>3, <2>7, <2>8, <2>12, <3>1, <4>1
    <3>2. o # "connect"
      <4>1. s.join = op[o].join
        BY <2>5, <2>6 DEF Ops
      <4> QED
        BY <2>6, <2>12, <4>1 DEF Stands
    <3> QED
      BY <2>12, <3>1, <3>2 DEF Operations
  <2> QED
    BY <2>9, <2>10, <2>11, <2>12
<1>12. ASSUME NEW o \in Operations, TasksLoaded(o) PROVE PageInv'
  <2>1. CASE o # "send"
    <3>1. Goes(o, Idle)
      BY <1>12, <2>1 DEF TasksLoaded
    <3> QED
      BY <1>8, <3>1
  <2>2. CASE o = "send"
    <3>1. PICK p : /\ p = Loaded(page) /\ p \in Pages /\ p.opened = page.opened /\ p.instance = page.instance
                   /\ (p.polls = page.polls \/ p.polls \subseteq {Request(p)})
      <4>1. page \in Pages /\ session \in {"live", "terminal", "gone"}
        BY DEF PageInv, Fit, ChannelInv, Threads
      <4>2. PICK p : p = Loaded(page)
        OBVIOUS
      <4> QED
        BY <4>1, <4>2, LoadedIs
    <3>2. Sane(page, p)
      BY <3>1, SaneSame DEF Request, PageInv
    <3>3. Fit(p) /\ Attached(p)
      BY <1>2, <3>2, SaneKeeps DEF PageInv
    <3>4. Post(p, op["send"])
      BY <1>12, <2>2, <3>1 DEF TasksLoaded, Loaded
    <3>5. op["send"] \in Ops /\ Stands("send", op["send"]) /\ op["send"].checked <= p.instance
      BY <3>1 DEF PageInv, Operating, Operations, Sending
    <3> QED
      BY <1>9, <3>3, <3>4, <3>5
  <2> QED
    BY <2>1, <2>2
<1> QED
  BY <1>10, <1>11, <1>12

LEMMA PageStepAnswers ==
  ASSUME ChannelInv, PageInv, PostAnswered \/ CreateAnswered
  PROVE  PageInv'
<1>1. UNCHANGED <<server, used, inbox>>
  BY DEF PostAnswered, CreateAnswered
<1>2. bound' = bound /\ used' = used /\ inbox' \subseteq Ids /\ Operating /\ instance \in Nat
      /\ used \subseteq used' /\ bound \subseteq bound' /\ Fit(page) /\ page \in Pages
  BY <1>1 DEF server, PageInv, Operating, ChannelInv, Fit
<1>3. \A x \in Operations : Stands(x, Idle)'
  BY <1>2 DEF Stands, Idle, Ops, Operations
<1>4. Idle \in Ops /\ Idle.checked = 0 /\ Idle.phase = "idle"
  BY DEF Idle, Ops
<1>5. CASE PostAnswered
  <2>1. Sane(page, page') /\ Goes("send", Idle)
    BY <1>2, <1>5, PageMoves DEF Operating, PostAnswered
  <2>2. Operating'
    BY <1>2, <1>3, <1>4, <2>1, OneGoes DEF Operations
  <2>3. Idle.checked <= page'.instance
    BY <1>4, <2>1 DEF Sane, Pages
  <2> QED
    BY <1>1, <1>4, <2>1, <2>2, <2>3, SendGoes DEF PageInv
<1>6. CASE CreateAnswered
  <2> DEFINE s == op["select"]
  <2>1. Goes("select", Idle) /\ s.phase = "create"
    BY <1>6 DEF CreateAnswered
  <2>2. Operating' /\ op'["send"] = op["send"]
    <3>1. Operating'
      BY <1>2, <1>3, <1>4, <2>1, OneGoes DEF Operations
    <3> QED
      BY <1>2, <2>1, <3>1 DEF Goes, Operating, Operations
  <2>3. CASE s.answer # 201
    <3>1. PICK r : r = Failed(page, "select")
      OBVIOUS
    <3>2. page' = r
      BY <1>6, <2>3, <3>1 DEF CreateAnswered
    <3>3. r \in Pages /\ r.opened = page.opened /\ r.instance = page.instance
          /\ (r.polls = page.polls \/ r.polls \subseteq {Request(page)})
      BY <1>2, <3>1, FailedIs DEF Operating, Operations
    <3>4. Sane(page, page')
      BY <1>2, <3>2, <3>3, SaneSame DEF Request
    <3> QED
      BY <1>1, <2>2, <3>4, SendKept DEF PageInv
  <2>4. CASE s.answer = 201
    <3>1. s.id \in bound /\ s.id \in Made /\ s.id \in Ids /\ s.task \in {"dispatcher", "task"}
      BY <1>2, <2>4, WebClientAssumption DEF Operating, Operations, Stands, Ops, ChannelInv, Threads
    <3>2. PICK begun : begun = page.begun \cup {s.id} /\ begun \in SUBSET Ids
      <4>1. page.begun \in SUBSET Ids
        BY <1>2 DEF Pages
      <4> QED
        BY <3>1, <4>1
    <3>3. PICK id : id = s.id /\ id \in Made
      BY <3>1
    <3>4. PICK p : p = [page EXCEPT !.opened = id, !.begun = begun] /\ page' = Selected(p, s)
      BY <1>6, <2>4, <3>2, <3>3 DEF CreateAnswered
    <3>5. p \in Pages /\ p.instance = page.instance /\ p.opened = id /\ p.polls = page.polls
      BY <1>2, <3>2, <3>3, <3>4 DEF Pages
    <3>6. PICK r : r = Selected(p, s)
      OBVIOUS
    <3>7. r \in Pages /\ r.opened = p.opened /\ r.instance = p.instance
          /\ (r.polls = p.polls \/ r.polls \subseteq {Request(r)})
      BY <3>1, <3>5, <3>6, SelectedIs
    <3>8. Fit(r)
      <4>1. NoAnswer.instance = 0
        BY DEF NoAnswer
      <4> QED
        BY <1>2, <3>5, <3>7, <4>1 DEF Fit, Request
    <3>9. Attached(r)
      BY <3>1, <3>3, <3>5, <3>7 DEF Attached
    <3>10. Sending(r)
      BY <3>5, <3>7 DEF PageInv, Sending
    <3>11. page' = r
      BY <3>4, <3>6
    <3> QED
      BY <1>1, <2>2, <3>8, <3>9, <3>10, <3>11 DEF PageInv, server, Fit, Attached, Sending
  <2> QED
    BY <2>3, <2>4
<1> QED
  BY <1>5, <1>6

LEMMA PageStepServer ==
  ASSUME ChannelInv, PageInv, GoesOn,
         \/ ServePost \/ ServeCreate \/ FinishCreate \/ (\E c \in Ids : Answer(c) \/ SessionEvent(c))
         \/ SessionChanges \/ DaemonStartsAnew
  PROVE  PageInv'
<1>1. Operating /\ op \in [Operations -> Ops] /\ inbox \subseteq Ids /\ used \subseteq used'
  BY DEF PageInv, Operating, GoesOn
<1>2. ASSUME UNCHANGED <<page, op>>, inbox' \subseteq Ids, bound \subseteq bound' PROVE PageInv'
  <2>1. Operating'
    BY <1>1, <1>2, OneGoes
  <2> QED
    BY <1>2, <2>1, PageRests DEF PageInv
<1>3. CASE SessionChanges \/ \E c \in Ids : Answer(c) \/ SessionEvent(c)
  <2>1. UNCHANGED <<page, op>> /\ inbox' \subseteq Ids
    BY <1>1, <1>3 DEF SessionChanges, Answer, SessionEvent
  <2>2. bound' = bound
    BY <1>3 DEF SessionChanges, ChangeSession, Answer, SessionEvent, SendText, ShowEvent
  <2> QED
    BY <1>2, <2>1, <2>2
<1>4. CASE ServePost
  <2>1. op["send"] \in Ops /\ Stands("send", op["send"]) /\ op["send"].phase = "post" /\ op["send"].id \in Ids
    BY <1>1, <1>4 DEF Operating, Operations, Stands, ServePost
  <2>2. PICK n \in Nat : Goes("send", [op["send"] EXCEPT !.answer = n])
    BY <1>4 DEF ServePost
  <2>3. PICK s : s = [op["send"] EXCEPT !.answer = n]
    OBVIOUS
  <2>4. s \in Ops /\ s.phase = op["send"].phase /\ s.id = op["send"].id /\ s.checked = op["send"].checked
    BY <2>1, <2>3 DEF Ops
  <2>5. Stands("send", s)'
    BY <2>1, <2>4 DEF Stands
  <2>6. UNCHANGED page /\ inbox' \subseteq Ids /\ bound' = bound
    BY <1>1, <1>4, <2>1 DEF ServePost, AcceptMessage, server
  <2>7. Operating'
    BY <1>1, <2>2, <2>3, <2>4, <2>5, <2>6, OneGoes DEF Operations
  <2>8. op'["send"] = s
    BY <1>1, <2>2, <2>3 DEF Goes, Operations
  <2> QED
    BY <2>4, <2>6, <2>7, <2>8, PageRests DEF PageInv
<1>5. ASSUME NEW s \in Ops, Stands("select", s)', Goes("select", s), UNCHANGED <<page, inbox>>,
             bound \subseteq bound'
      PROVE  PageInv'
  <2>1. Operating'
    BY <1>1, <1>5, OneGoes DEF Operations
  <2>2. op'["send"] = op["send"]
    BY <1>1, <1>5 DEF Goes, Operations
  <2> QED
    BY <1>5, <2>1, <2>2, PageRests DEF PageInv
<1>6. op["select"] \in Ops /\ Stands("select", op["select"])
  BY <1>1 DEF Operating, Operations
<1>7. CASE ServeCreate
  <2>1. op["select"].phase = "create" /\ op["select"].answer = 0 /\ UNCHANGED <<page, inbox>>
    BY <1>7 DEF ServeCreate
  <2>2. CASE \E c \in Made \ used : /\ CreateThread(c) /\ used' = used \cup {c}
                                    /\ Goes("select", [op["select"] EXCEPT !.id = c])
    <3>1. PICK c \in Made \ used : /\ CreateThread(c) /\ used' = used \cup {c}
                                   /\ Goes("select", [op["select"] EXCEPT !.id = c])
      BY <2>2
    <3>2. PICK s : s = [op["select"] EXCEPT !.id = c]
      OBVIOUS
    <3>3. s \in Ops /\ s.phase = "create" /\ s.id = c /\ s.answer = 0
      BY <1>6, <2>1, <3>2, WebClientAssumption DEF Ops
    <3>4. Stands("select", s)'
      BY <3>1, <3>3 DEF Stands
    <3>5. bound' = bound
      BY <3>1 DEF CreateThread
    <3> QED
      BY <1>5, <2>1, <3>1, <3>2, <3>3, <3>4, <3>5
  <2>3. CASE Goes("select", [op["select"] EXCEPT !.answer = 500]) /\ UNCHANGED <<server, used>>
    <3>1. PICK s : s = [op["select"] EXCEPT !.answer = 500]
      OBVIOUS
    <3>2. s \in Ops /\ s.phase = "create" /\ s.id = op["select"].id /\ s.answer = 500
      BY <1>6, <2>1, <3>1 DEF Ops
    <3>3. bound' = bound
      BY <2>3 DEF server
    <3>4. Stands("select", s)'
      BY <1>6, <2>3, <3>2 DEF Stands
    <3> QED
      BY <1>5, <2>1, <2>3, <3>1, <3>2, <3>3, <3>4
  <2> QED
    BY <1>7, <2>2, <2>3 DEF ServeCreate
<1>8. CASE FinishCreate
  <2>1. UNCHANGED <<page, used, inbox>> /\ bound \subseteq bound' /\ opening # Nobody
    BY <1>8 DEF FinishCreate, BindConversation, RollBackConversation
  <2>2. CASE op["select"].id # opening
    <3>1. UNCHANGED op
      BY <1>8, <2>2 DEF FinishCreate, Answers
    <3> QED
      BY <1>1, <1>2, <2>1, <3>1
  <2>3. CASE op["select"].id = opening
    <3>1. PICK n \in Nat : /\ op' = [op EXCEPT !["select"].answer = n]
                           /\ n = 201 => opening \in bound'
      BY <1>8, <2>3 DEF FinishCreate, Answers, BindConversation
    <3>2. PICK s : s = [op["select"] EXCEPT !.answer = n]
      OBVIOUS
    <3>3. s \in Ops /\ s.phase = op["select"].phase /\ s.id = opening /\ s.answer = n
      BY <1>6, <2>3, <3>2 DEF Ops
    <3>4. op["select"].phase = "create"
      BY <1>6, <2>1, <2>3 DEF Stands
    <3>5. Stands("select", s)'
      BY <1>6, <2>1, <2>3, <3>1, <3>3, <3>4 DEF Stands
    <3>6. Goes("select", s)
      BY <3>1, <3>2 DEF Goes
    <3> QED
      BY <1>5, <2>1, <3>3, <3>5, <3>6
  <2> QED
    BY <2>2, <2>3
<1>9. CASE DaemonStartsAnew
  <2>1. UNCHANGED <<page, used>> /\ inbox' = {} /\ bound' = {}
    BY <1>9 DEF DaemonStartsAnew, StartAnew
  <2>2. \A x \in Operations : op'[x] = IF x = "select" /\ op["select"].phase = "create"
                                         THEN [op["select"] EXCEPT !.answer = 500] ELSE op[x]
    BY <1>1, <1>9 DEF DaemonStartsAnew
  <2>3. op' \in [Operations -> Ops]
    <3>1. [op["select"] EXCEPT !.answer = 500] \in Ops
      BY <1>6 DEF Ops
    <3>2. CASE op["select"].phase = "create"
      <4>1. op' = [op EXCEPT !["select"] = [op["select"] EXCEPT !.answer = 500]]
        BY <1>9, <3>2 DEF DaemonStartsAnew
      <4> QED
        BY <1>1, <3>1, <4>1
    <3>3. CASE op["select"].phase # "create"
      BY <1>1, <1>9, <3>3 DEF DaemonStartsAnew
    <3> QED
      BY <3>2, <3>3
  <2>4. ASSUME NEW x \in Operations PROVE (Stands(x, op[x]))'
    <3>1. Stands(x, op[x]) /\ op[x] \in Ops
      BY <1>1 DEF Operating
    <3>2. CASE x = "select" /\ op["select"].phase = "create"
      <4>1. PICK s : s = [op["select"] EXCEPT !.answer = 500] /\ op'[x] = s
        BY <2>2, <3>2
      <4>2. s \in Ops /\ s.phase = "create" /\ s.answer = 500 /\ s.id = op[x].id
        BY <1>6, <3>2, <4>1 DEF Ops
      <4> QED
        BY <2>1, <3>1, <3>2, <4>1, <4>2 DEF Stands
    <3>3. CASE ~(x = "select" /\ op["select"].phase = "create")
      <4>1. op'[x] = op[x]
        BY <2>2, <3>3
      <4>2. x = "select" => op[x].answer # 201
        BY <3>1, <3>3 DEF Stands
      <4> QED
        BY <2>1, <3>1, <4>1, <4>2 DEF Stands
    <3> QED
      BY <3>2, <3>3
  <2>5. Operating'
    BY <2>1, <2>3, <2>4 DEF Operating
  <2>6. op'["send"] = op["send"]
    BY <2>2 DEF Operations
  <2> QED
    BY <2>1, <2>5, <2>6, PageRests DEF PageInv
<1> QED
  BY <1>3, <1>4, <1>7, <1>8, <1>9

----------------------------------------------------------------------------
(* The channel and the page together                                       *)

WebInv == ChannelInv /\ PageInv

LEMMA WebInit == Init => WebInv
<1> SUFFICES ASSUME Init PROVE WebInv
  OBVIOUS
<1>1. PICK c : c = CHOOSE d \in Own : TRUE
  OBVIOUS
<1>2. c \in Own
  BY <1>1, WebClientAssumption
<1>3. c \in Ids /\ Own \subseteq Ids
  BY <1>2, WebClientAssumption
<1>4. ChannelInv
  <2>1. used = {c}
    BY <1>1 DEF Init
  <2>2. 1 \in 1..MaxInstances
    BY HttpChannelAssumption
  <2>3. Started
    BY <1>3, <2>1, <2>2 DEF Started, Init, Blank
  <2> QED
    BY <2>3, BlankStarts
<1>5. PICK no \in BOOLEAN, off \in {"off"}, none \in Nat,
            all \in [Ids -> Int], one \in [Ids -> Seq(Int)], two \in [Ids -> SUBSET Int] :
        no = FALSE /\ none = 0 /\ all = [i \in Ids |-> none]
        /\ one = [i \in Ids |-> <<>>] /\ two = [i \in Ids |-> {}]
  <2>1. [i \in Ids |-> 0] \in [Ids -> Int] /\ [i \in Ids |-> {}] \in [Ids -> SUBSET Int]
    OBVIOUS
  <2>2. [i \in Ids |-> <<>>] \in [Ids -> Seq(Int)]
    OBVIOUS
  <2> QED
    BY <2>1, <2>2
<1>6. page = [own |-> c, opened |-> Nobody, selected |-> "dispatcher", task |-> "live",
              instance |-> none, cursor |-> none, rendered |-> none, started |-> no,
              connected |-> no, loop |-> off, attempts |-> none, polls |-> {},
              saved |-> all, begun |-> {}, alert |-> no, shown |-> one, told |-> two,
              crossed |-> {}]
  BY <1>1, <1>5 DEF Init
<1>7. page \in Pages
  <2>1. none \in Int /\ all \in [Ids -> Int] /\ one \in [Ids -> Seq(Int)] /\ two \in [Ids -> SUBSET Int]
    BY <1>5
  <2> QED
    BY <1>2, <1>5, <1>6, <2>1 DEF Pages
<1>8. page.opened = Nobody /\ page.instance = 0 /\ page.polls = {}
  BY <1>5, <1>6
<1>9. Fit(page) /\ Attached(page)
  BY <1>4, <1>7, <1>8 DEF Fit, Attached, ChannelInv
<1>10. op = [o \in Operations |-> Idle] /\ inbox = {}
  BY DEF Init
<1>11. Operating /\ op["send"].checked = 0 /\ op["send"].phase = "idle"
  <2>1. Idle \in Ops
    BY DEF Idle, Ops
  <2> QED
    BY <1>10, <2>1, IdleStands DEF Operating, Operations
<1>12. Sending(page)
  BY <1>8, <1>11 DEF Sending
<1> QED
  BY <1>4, <1>9, <1>11, <1>12 DEF WebInv, PageInv

LEMMA WebStep ==
  ASSUME WebInv, [Next]_vars
  PROVE  WebInv' /\ GoesOn
<1>1. ChannelInv /\ PageInv /\ Operating
  BY DEF WebInv, PageInv
<1>2. ChannelInv' /\ GoesOn
  BY <1>1, ChannelStep
<1>3. PageInv'
  <2>1. CASE UNCHANGED vars
    <3>1. Operating'
      BY <1>1, <2>1, OneGoes DEF vars, server, Operating
    <3> QED
      BY <1>1, <1>2, <2>1, <3>1, PageRests DEF vars, PageInv
  <2>2. CASE Next
    <3>1. CASE \/ \E q \in page.polls : ServePoll(q) \/ PollAnswered(q) \/ PollFails(q)
               \/ PollsAgain \/ TasksPolled \/ Reset
      BY <1>1, <3>1, PageStepAlone
    <3>2. CASE Connect \/ Send \/ (\E t \in {"dispatcher", "task"} : Select(t)) \/ Reload
      BY <1>1, <3>2, PageStepUser
    <3>3. CASE \E o \in Operations : OperationFails(o) \/ HealthAnswered(o) \/ TasksLoaded(o)
      BY <1>1, <3>3, PageStepOps
    <3>4. CASE PostAnswered \/ CreateAnswered
      BY <1>1, <3>4, PageStepAnswers
    <3>5. CASE \/ ServePost \/ ServeCreate \/ FinishCreate \/ (\E c \in Ids : Answer(c) \/ SessionEvent(c))
               \/ SessionChanges \/ DaemonStartsAnew
      BY <1>1, <1>2, <3>5, PageStepServer
    <3> QED
      BY <2>2, <3>1, <3>2, <3>3, <3>4, <3>5, NextCases
  <2> QED
    BY <2>1, <2>2
<1> QED
  BY <1>2, <1>3 DEF WebInv

LEMMA WebSafe == Spec => []WebInv
<1>1. WebInv /\ [Next]_vars => WebInv'
  BY WebStep
<1> QED
  BY WebInit, <1>1, PTL DEF Spec

(* The maps of the channel agree with each other whatever order its        *)
(* threads come in, with clients, the daemon's events, rollbacks and       *)
(* restarts: the rings under the code's deque, the owners of targets under *)
(* _claim_targets and rollback_thread, the bounds on both.                 *)
THEOREM Consistent == Spec => []ChannelConsistent
<1>1. WebInv => ChannelConsistent
  <2> SUFFICES ASSUME WebInv PROVE ChannelConsistent
    OBVIOUS
  <2>1. ChannelInv
    BY DEF WebInv
  <2>2. ASSUME NEW c \in Ids
        PROVE  LET n == Min({MaxEvents, Latest(c)})
               IN events[c] = [i \in 1..n |-> Latest(c) - n + i]
    <3>1. PICK l \in Nat : l = Latest(c) /\ events[c] = Kept(l)
      BY <2>1 DEF ChannelInv, Rings, Latest
    <3>2. Min({MaxEvents, l}) = Least(MaxEvents, l)
      BY <3>1, LeastOf, HttpChannelAssumption
    <3> QED
      BY <3>1, <3>2 DEF Kept
  <2>3. ASSUME NEW c \in Ids
        PROVE  /\ Cardinality(targets[c]) <= MaxTargets
               /\ targets[c] = {t \in Targets : owner[t] = c}
               /\ c \in open \/ (targets[c] = {} /\ events[c] = <<>>)
    BY <2>1, KeptNone DEF ChannelInv, Maps, Closed, Rings
  <2>4. instance \in 1..MaxInstances /\ open \subseteq Ids /\ Cardinality(open) <= MaxConversations
    BY <2>1 DEF ChannelInv, Maps
  <2>5. bound \cup ({opening} \ {Nobody}) \subseteq open
    BY <2>1 DEF ChannelInv, Threads
  <2> QED
    BY <2>2, <2>3, <2>4, <2>5 DEF ChannelConsistent
<1> QED
  BY WebSafe, <1>1, PTL

(* sendMessage never hands a message for a Task to the dispatcher: a       *)
(* conversation of the Task that takes a message is bound to its Session,  *)
(* however the answers of createTaskConversation, restarts and changes of  *)
(* the Task shown interleave, unless the daemon was restarted since the    *)
(* message's own request for the instance.                                 *)
THEOREM Reach == Spec => TaskMessagesReachTask
<1>1. WebInv /\ [Next]_vars =>
        [\A c \in Made : c \in inbox' \ inbox => c \in bound \/ instance # op["send"].checked]_vars
  <2> SUFFICES ASSUME WebInv, Next, NEW c \in Made, c \in inbox' \ inbox
               PROVE  c \in bound \/ instance # op["send"].checked
    BY DEF vars
  <2>1. CASE ServePost
    <3>1. op["send"].phase = "post" /\ inbox' \subseteq inbox \cup {op["send"].id}
      BY <2>1 DEF ServePost
    <3>2. c = op["send"].id
      BY <3>1
    <3> QED
      BY <3>1, <3>2 DEF WebInv, PageInv, Sending
  <2>2. CASE ~ServePost
    <3>1. inbox' \subseteq inbox
      <4>1. CASE \E q \in page.polls : ServePoll(q) \/ PollAnswered(q) \/ PollFails(q)
        BY <4>1 DEF ServePoll, PollAnswered, PollFails
      <4>2. CASE \/ PollsAgain \/ TasksPolled \/ Connect \/ Send \/ (\E t \in {"dispatcher", "task"} : Select(t))
                 \/ Reset \/ Reload \/ PostAnswered \/ CreateAnswered
        BY <4>2 DEF PollsAgain, TasksPolled, Connect, Send, Select, Reset, Reload, PostAnswered, CreateAnswered
      <4>3. CASE \E o \in Operations : OperationFails(o) \/ HealthAnswered(o) \/ TasksLoaded(o)
        BY <4>3 DEF OperationFails, HealthAnswered, TasksLoaded
      <4>4. CASE ServeCreate \/ FinishCreate \/ (\E d \in Ids : Answer(d) \/ SessionEvent(d))
        BY <4>4 DEF ServeCreate, FinishCreate, Answer, SessionEvent
      <4>5. CASE SessionChanges \/ DaemonStartsAnew
        BY <4>5 DEF SessionChanges, DaemonStartsAnew
      <4> QED
        BY <2>2, <4>1, <4>2, <4>3, <4>4, <4>5, NextCases
    <3> QED
      BY <3>1
  <2> QED
    BY <2>1, <2>2
<1> QED
  BY WebSafe, <1>1, PTL DEF Spec, TaskMessagesReachTask

----------------------------------------------------------------------------
(* The timeline                                                            *)

(* The conversations, and what the user saw of them, are as they were,     *)
(* though another one may be shown; polling goes on as it did, or starts   *)
(* over.                                                                   *)
Still(p, r) ==
  /\ r \in Pages /\ r.own = p.own /\ r.opened = p.opened /\ r.instance = p.instance /\ Looks(p, r)
  /\ r.saved = p.saved /\ r.shown = p.shown /\ r.told = p.told /\ r.crossed = p.crossed
Quiet(p, r) == \/ r.polls = p.polls /\ r.loop = p.loop
               \/ r.polls \subseteq {Request(r)} /\ (r.loop # "asking" => r.polls = {})
Spares(p, r) == \A c \in Ids : Blanks(p, c) => Blanks(r, c)

LEMMA NotAnswered == NoAnswer.instance = 0 /\ NoAnswer.latest = 0
BY DEF NoAnswer

(* A request that starts polling over                                      *)
LEMMA NewRequest ==
  ASSUME ChannelInv, NEW r \in Pages, r.cursor = r.saved[Active(r)],
         r.polls \subseteq {Request(r)}, r.loop # "asking" => r.polls = {}
  PROVE  OneRequest(r) /\ \A q \in r.polls : q.answer.instance # instance
<1>1. \A q \in r.polls : /\ q.id = Active(r) /\ q.after = r.cursor /\ q.answer = NoAnswer
                         /\ r.polls = {q}
  BY DEF Request
<1>2. instance # 0
  BY DEF ChannelInv
<1>3. Active(r) \in Own2(r)
  BY ActiveIs
<1> QED
  BY <1>1, <1>2, <1>3, NotAnswered DEF OneRequest

LEMMA StillKeeps ==
  ASSUME ChannelInv, NEW p, NEW r, Truthful(p), Still(p, r), Quiet(p, r)
  PROVE  Truthful(r) /\ Spares(p, r)
<1>1. /\ r.own = p.own /\ r.opened = p.opened /\ r.instance = p.instance
      /\ r.saved = p.saved /\ r.shown = p.shown /\ r.told = p.told /\ r.crossed = p.crossed
      /\ r \in Pages /\ Looks(p, r)
  BY DEF Still
<1>2. Own2(r) = Own2(p) /\ \A c \in Ids : Shown(r, c) = Shown(p, c)
  BY <1>1 DEF Own2, Shown
<1>3. Timeline(p)
  BY DEF Truthful
<1>4. r.cursor = r.saved[Active(r)] /\ (Active(r) \notin r.crossed => r.rendered <= r.cursor)
  <2>1. CASE r.selected = p.selected /\ r.cursor = p.cursor /\ r.rendered = p.rendered
    <3>1. Active(r) = Active(p)
      BY <1>1, <2>1 DEF Active
    <3> QED
      BY <1>1, <1>3, <2>1, <3>1 DEF Timeline
  <2>2. CASE r.cursor = p.saved[Active(r)] /\ r.rendered = r.cursor
    <3>1. r.cursor \in Int
      BY <1>1 DEF Pages
    <3> QED
      BY <1>1, <2>2, <3>1
  <2> QED
    BY <1>1, <2>1, <2>2 DEF Looks
<1>5. Timeline(r)
  <2>1. \A c \in Own2(r) \ r.crossed : 1..r.saved[c] \subseteq Shown(r, c)
    <3>1. Own2(r) \subseteq Ids
      BY <1>1, WebClientAssumption DEF Own2, Pages
    <3> QED
      BY <1>1, <1>2, <1>3, <3>1 DEF Timeline
  <2>2. ASSUME NEW c \in Ids \ r.crossed
        PROVE  /\ Shown(r, c) \subseteq 1..r.saved[c]
               /\ \A i, j \in DOMAIN r.shown[c] : i < j => r.shown[c][i] < r.shown[c][j]
               /\ ToSet(r.shown[c]) \cap r.told[c] = {}
    BY <1>1, <1>2, <1>3 DEF Timeline
  <2>3. r.saved \in [Ids -> Nat]
    BY <1>1, <1>3 DEF Timeline
  <2> QED
    BY <1>4, <2>1, <2>2, <2>3 DEF Timeline
<1>6. Spares(p, r)
  BY <1>1, <1>2 DEF Spares, Blanks
<1>7. CASE r.polls = p.polls /\ r.loop = p.loop
  <2>1. OneRequest(r)
    BY <1>1, <1>2, <1>7 DEF OneRequest, Truthful
  <2>2. Behaved(r)
    BY <1>1, <1>2, <1>7 DEF Behaved, Truthful
  <2> QED
    BY <1>5, <1>6, <2>1, <2>2 DEF Truthful
<1>8. CASE r.polls \subseteq {Request(r)} /\ (r.loop # "asking" => r.polls = {})
  <2>1. OneRequest(r) /\ \A q \in r.polls : q.answer.instance # instance
    BY <1>1, <1>4, <1>8, NewRequest
  <2>2. Behaved(r)
    BY <1>1, <1>2, <2>1 DEF Behaved, Truthful
  <2> QED
    BY <1>5, <1>6, <2>1, <2>2 DEF Truthful
<1> QED
  BY <1>7, <1>8 DEF Quiet

(* A page that starts from nothing, with a conversation of its own that    *)
(* nothing is known of                                                     *)
LEMMA NothingSeen ==
  ASSUME ChannelInv, NEW r \in Pages, r.selected = "dispatcher", r.opened = Nobody, r.polls = {},
         r.cursor = 0, r.rendered = 0, r.saved[r.own] = 0, r.saved \in [Ids -> Nat],
         r.shown = [c \in Ids |-> <<>>], r.told = [c \in Ids |-> {}]
  PROVE  Truthful(r)
<1>1. r.own \in Ids /\ Nobody \notin Ids
  BY WebClientAssumption, HttpChannelAssumption DEF Pages
<1>2. Active(r) = r.own /\ Own2(r) = {r.own}
  BY <1>1 DEF Active, Own2
<1>3. \A c \in Ids : Shown(r, c) = {} /\ r.shown[c] = <<>> /\ r.told[c] = {} /\ ToSet(r.shown[c]) = {}
  BY DEF Shown, ToSet
<1>4. 1..0 = {}
  OBVIOUS
<1>5. Timeline(r)
  <2>1. \A c \in Ids : DOMAIN r.shown[c] = {}
    BY <1>3
  <2> QED
    BY <1>1, <1>2, <1>3, <1>4, <2>1 DEF Timeline
<1>6. Behaved(r)
  <2>1. next[r.own] \in Nat \ {0}
    BY <1>1 DEF ChannelInv, Rings
  <2> QED
    BY <1>2, <2>1 DEF Behaved
<1>7. OneRequest(r)
  BY DEF OneRequest
<1> QED
  BY <1>5, <1>6, <1>7 DEF Truthful

LEMMA CleanKeeps ==
  ASSUME ChannelInv, NEW p \in Pages, NEW r, Truthful(p), Clean(p, r)
  PROVE  Truthful(r) /\ Spares(p, r)
<1>1. /\ r \in Pages /\ r.own = p.own /\ r.opened = Nobody /\ r.selected = "dispatcher"
      /\ r.polls = {} /\ r.cursor = 0 /\ r.rendered = 0
      /\ r.saved = [c \in Ids |-> IF c \in {p.own, p.opened} THEN 0 ELSE p.saved[c]]
      /\ r.shown = [c \in Ids |-> <<>>] /\ r.told = [c \in Ids |-> {}]
  BY DEF Clean
<1>2. p.saved \in [Ids -> Nat] /\ p.own \in Ids
  BY WebClientAssumption DEF Truthful, Timeline, Pages
<1>3. r.saved \in [Ids -> Nat] /\ r.saved[r.own] = 0
  BY <1>1, <1>2
<1>4. Truthful(r)
  BY <1>1, <1>3, NothingSeen
<1>5. Spares(p, r)
  <2>1. ASSUME NEW c \in Ids, Blanks(p, c) PROVE Blanks(r, c)
    BY <1>1, <1>2, <2>1 DEF Blanks, Own2
  <2> QED
    BY <2>1 DEF Spares
<1> QED
  BY <1>4, <1>5

Ascends(s) == \A i, j \in DOMAIN s : i < j => s[i] < s[j]
From(n, l) == [i \in 1..(l - n) |-> n + i]
Grows(s, n, l) ==
  /\ ToSet(s \o From(n, l)) = ToSet(s) \cup (n + 1)..l /\ Ascends(s \o From(n, l))
  /\ From(n, l) \in Seq(Nat) /\ Len(From(n, l)) = l - n /\ DOMAIN From(n, l) = 1..(l - n)
  /\ \A i \in 1..(l - n) : From(n, l)[i] = n + i

(* A timeline that gets the next cursors, up to l                          *)
LEMMA Lengthened ==
  ASSUME NEW s \in Seq(Int), NEW n \in Nat, NEW l \in Nat, n <= l, ToSet(s) \subseteq 1..n, Ascends(s)
  PROVE  Grows(s, n, l)
<1> DEFINE ev == From(n, l)
<1>1. PICK d \in Nat : d = l - n
  OBVIOUS
<1>2. ev \in Seq(Nat) /\ Len(ev) = d /\ DOMAIN ev = 1..d /\ \A i \in 1..d : ev[i] = n + i
  <2>1. \A i \in 1..d : n + i \in Nat
    OBVIOUS
  <2>2. [i \in 1..d |-> n + i] \in Seq(Nat) /\ Len([i \in 1..d |-> n + i]) = d
        /\ \A i \in 1..d : [j \in 1..d |-> n + j][i] = n + i
    BY <2>1
  <2> QED
    BY <1>1, <2>2 DEF From
<1> HIDE DEF ev
<1>3. PICK k \in Nat : k = Len(s) /\ DOMAIN s = 1..k
  OBVIOUS
<1>4. \A i \in 1..k : s[i] \in 1..n
  BY <1>3 DEF ToSet
<1>5. PICK t \in Seq(Int) : /\ t = s \o ev /\ Len(t) = k + d /\ DOMAIN t = 1..(k + d)
                            /\ \A i \in 1..(k + d) : t[i] = IF i <= k THEN s[i] ELSE ev[i - k]
  <2>1. ev \in Seq(Int)
    BY <1>2
  <2>2. /\ s \o ev \in Seq(Int) /\ Len(s \o ev) = k + d
        /\ \A i \in 1..(k + d) : (s \o ev)[i] = IF i <= k THEN s[i] ELSE ev[i - k]
    BY <1>2, <1>3, <2>1, ConcatProperties
  <2>3. DOMAIN (s \o ev) = 1..(k + d)
    BY <2>2
  <2> QED
    BY <2>2, <2>3
<1>6. \A i \in 1..(k + d) : i <= k => t[i] = s[i]
  BY <1>5
<1>0. /\ ToSet(s) = {s[i] : i \in 1..k} /\ ToSet(t) = {t[i] : i \in 1..(k + d)}
      /\ \A i, j \in 1..k : i < j => s[i] < s[j]
  <2>1. ToSet(s) = {s[i] : i \in 1..k}
    BY <1>3 DEF ToSet
  <2>2. ToSet(t) = {t[i] : i \in 1..(k + d)}
    BY <1>5 DEF ToSet
  <2>3. \A i, j \in 1..k : i < j => s[i] < s[j]
    BY <1>3 DEF Ascends
  <2> QED
    BY <2>1, <2>2, <2>3
<1>7. \A i \in 1..(k + d) : ~(i <= k) => t[i] = n + (i - k)
  <2>1. ASSUME NEW i \in 1..(k + d), ~(i <= k) PROVE t[i] = n + (i - k)
    <3>1. PICK x \in 1..d : x = i - k
      BY <2>1
    <3> QED
      BY <1>2, <1>5, <2>1, <3>1
  <2> QED
    BY <2>1
<1>8. ToSet(t) = ToSet(s) \cup (n + 1)..l
  <2>1. ASSUME NEW i \in 1..(k + d) PROVE t[i] \in ToSet(s) \cup (n + 1)..l
    <3>1. CASE i <= k
      <4>1. t[i] = s[i] /\ i \in 1..k
        BY <1>6, <3>1
      <4> QED
        BY <1>0, <4>1
    <3>2. CASE ~(i <= k)
      BY <1>1, <1>7, <3>2
    <3> QED
      BY <3>1, <3>2
  <2>2. ASSUME NEW i \in 1..k PROVE s[i] \in ToSet(t)
    <3>1. i \in 1..(k + d) /\ t[i] = s[i]
      BY <1>6
    <3> QED
      BY <1>5, <3>1 DEF ToSet
  <2>3. ASSUME NEW x \in (n + 1)..l PROVE x \in ToSet(t)
    <3>1. PICK i \in 1..(k + d) : i = k + (x - n) /\ ~(i <= k) /\ i - k = x - n
      BY <1>1
    <3>2. t[i] = x
      BY <1>7, <3>1
    <3> QED
      BY <1>5, <3>2 DEF ToSet
  <2> QED
    BY <1>0, <2>1, <2>2, <2>3
<1>9. Ascends(t)
  <2> SUFFICES ASSUME NEW i \in 1..(k + d), NEW j \in 1..(k + d), i < j PROVE t[i] < t[j]
    BY <1>5 DEF Ascends
  <2>1. CASE j <= k
    <3>1. i \in 1..k /\ j \in 1..k /\ t[i] = s[i] /\ t[j] = s[j]
      BY <1>6, <2>1, SMTT(30)
    <3> QED
      BY <1>0, <3>1
  <2>2. CASE ~(j <= k) /\ i <= k
    <3>1. t[i] \in 1..n
      BY <1>4, <1>6, <2>2, SMTT(30)
    <3> QED
      BY <1>7, <2>2, <3>1
  <2>3. CASE ~(i <= k)
    BY <1>7, <2>3
  <2> QED
    BY <2>1, <2>2, <2>3
<1> QED
  BY <1>1, <1>2, <1>5, <1>8, <1>9 DEF ev, Grows

(* The conversation shown goes on to cursor l: what came in between is     *)
(* shown or told.                                                          *)
Advances(p, r, shown, told, l) ==
  LET c == Active(p) IN
  /\ r.own = p.own /\ r.opened = p.opened /\ r.selected = p.selected /\ r.instance = p.instance
  /\ r.shown = [p.shown EXCEPT ![c] = shown] /\ r.told = [p.told EXCEPT ![c] = told]
  /\ r.saved = [p.saved EXCEPT ![c] = l] /\ r.cursor = l /\ r.rendered <= l /\ p.cursor <= l
  /\ r.crossed = p.crossed /\ c \notin p.crossed
  /\ ToSet(shown) \cup told = Shown(p, c) \cup (p.cursor + 1)..l
  /\ Ascends(shown) /\ ToSet(shown) \cap told = {}
  /\ p.instance = instance => l < next[c]
  /\ r.polls \subseteq {Request(r)} /\ (r.loop # "asking" => r.polls = {})

LEMMA Further ==
  ASSUME ChannelInv, NEW p \in Pages, NEW r \in Pages, Timeline(p), Behaved(p),
         NEW shown, NEW told, NEW l \in Nat, Advances(p, r, shown, told, l)
  PROVE  Truthful(r) /\ Spares(p, r)
<1>0. PICK c : c = Active(p)
  OBVIOUS
<1>a. /\ r.own = p.own /\ r.opened = p.opened /\ r.selected = p.selected /\ r.instance = p.instance
      /\ r.shown = [p.shown EXCEPT ![c] = shown] /\ r.told = [p.told EXCEPT ![c] = told]
      /\ r.saved = [p.saved EXCEPT ![c] = l] /\ r.cursor = l /\ r.rendered <= l /\ p.cursor <= l
      /\ r.crossed = p.crossed /\ c \notin p.crossed
      /\ ToSet(shown) \cup told = Shown(p, c) \cup (p.cursor + 1)..l
      /\ Ascends(shown) /\ ToSet(shown) \cap told = {}
      /\ p.instance = instance => l < next[c]
      /\ r.polls \subseteq {Request(r)} /\ (r.loop # "asking" => r.polls = {})
  BY <1>0 DEF Advances
<1>1. /\ c \in Ids /\ c \in Own2(p) /\ Own2(r) = Own2(p) /\ Active(r) = c
      /\ p.shown \in [Ids -> Seq(Int)] /\ p.told \in [Ids -> SUBSET Int]
  <2>1. p.shown \in [Ids -> Seq(Int)] /\ p.told \in [Ids -> SUBSET Int]
    BY DEF Pages
  <2>2. Own2(r) = Own2(p) /\ Active(r) = c
    BY <1>0, <1>a DEF Own2, Active
  <2> QED
    BY <1>0, <2>1, <2>2, ActiveIs
<1>2. /\ p.saved \in [Ids -> Nat] /\ p.cursor = p.saved[c]
      /\ \A d \in Ids \ p.crossed : /\ Shown(p, d) \subseteq 1..p.saved[d] /\ Ascends(p.shown[d])
                                    /\ ToSet(p.shown[d]) \cap p.told[d] = {}
      /\ \A d \in Own2(p) \ p.crossed : 1..p.saved[d] \subseteq Shown(p, d)
  BY <1>0 DEF Timeline, Ascends
<1>3. /\ r.saved \in [Ids -> Nat] /\ r.saved[c] = l /\ r.shown[c] = shown /\ r.told[c] = told
      /\ \A d \in Ids \ {c} : r.saved[d] = p.saved[d] /\ r.shown[d] = p.shown[d] /\ r.told[d] = p.told[d]
  BY <1>a, <1>1, <1>2
<1>4. Shown(r, c) = 1..l
  <2>1. Shown(p, c) = 1..p.cursor
    BY <1>a, <1>1, <1>2
  <2>2. 1..p.cursor \cup (p.cursor + 1)..l = 1..l
    BY <1>a, <1>1, <1>2
  <2> QED
    BY <1>a, <1>3, <2>1, <2>2 DEF Shown
<1>5. \A d \in Ids \ {c} : Shown(r, d) = Shown(p, d)
  BY <1>3 DEF Shown
<1>6. Timeline(r)
  <2>1. r.cursor = r.saved[Active(r)] /\ r.rendered <= r.cursor /\ r.saved \in [Ids -> Nat]
    BY <1>a, <1>1, <1>3
  <2>2. ASSUME NEW d \in Ids \ r.crossed
        PROVE  /\ Shown(r, d) \subseteq 1..r.saved[d]
               /\ \A i, j \in DOMAIN r.shown[d] : i < j => r.shown[d][i] < r.shown[d][j]
               /\ ToSet(r.shown[d]) \cap r.told[d] = {}
    <3>1. CASE d = c
      BY <1>a, <1>3, <1>4, <3>1 DEF Ascends
    <3>2. CASE d # c
      BY <1>a, <1>2, <1>3, <1>5, <3>2 DEF Ascends
    <3> QED
      BY <3>1, <3>2
  <2>3. ASSUME NEW d \in Own2(r) \ r.crossed PROVE 1..r.saved[d] \subseteq Shown(r, d)
    <3>1. CASE d = c
      BY <1>3, <1>4, <3>1
    <3>2. CASE d # c
      <4>1. d \in Ids
        BY WebClientAssumption DEF Own2, Pages
      <4> QED
        BY <1>a, <1>1, <1>2, <1>3, <1>5, <3>2, <4>1
    <3> QED
      BY <3>1, <3>2
  <2> QED
    BY <2>1, <2>2, <2>3 DEF Timeline
<1>7. OneRequest(r) /\ \A q \in r.polls : q.answer.instance # instance
  BY <1>a, <1>1, <1>3, NewRequest
<1>8. Behaved(r)
  <2> SUFFICES ASSUME p.instance = instance, NEW d \in Own2(r) \ r.crossed PROVE r.saved[d] < next[d]
    BY <1>a, <1>7 DEF Behaved
  <2>1. d \in Ids
    BY WebClientAssumption DEF Own2, Pages
  <2> QED
    BY <1>a, <1>1, <1>3, <2>1 DEF Behaved
<1>9. Spares(p, r)
  BY <1>a, <1>1, <1>3 DEF Spares, Blanks
<1> QED
  BY <1>6, <1>7, <1>8, <1>9 DEF Truthful

(* A request of another conversation, or one that goes on from such a      *)
(* cursor, moves only the cursor of the conversation shown.                *)
Strays(p, r) ==
  LET c == Active(p) IN
  /\ r.own = p.own /\ r.opened = p.opened /\ r.selected = p.selected /\ r.instance = p.instance
  /\ r.crossed = p.crossed \cup {c} /\ r.saved \in [Ids -> Nat] /\ r.cursor = r.saved[c]
  /\ \A d \in Ids \ {c} : r.saved[d] = p.saved[d] /\ r.shown[d] = p.shown[d] /\ r.told[d] = p.told[d]
  /\ r.polls \subseteq {Request(r)} /\ (r.loop # "asking" => r.polls = {})

LEMMA Astray ==
  ASSUME ChannelInv, NEW p \in Pages, NEW r \in Pages, Timeline(p), Behaved(p), Strays(p, r)
  PROVE  Truthful(r) /\ Spares(p, r)
<1>1. PICK c : c = Active(p)
  OBVIOUS
<1>2. /\ r.own = p.own /\ r.opened = p.opened /\ r.selected = p.selected /\ r.instance = p.instance
      /\ r.crossed = p.crossed \cup {c} /\ r.saved \in [Ids -> Nat] /\ r.cursor = r.saved[c]
      /\ \A d \in Ids \ {c} : r.saved[d] = p.saved[d] /\ r.shown[d] = p.shown[d] /\ r.told[d] = p.told[d]
      /\ r.polls \subseteq {Request(r)} /\ (r.loop # "asking" => r.polls = {})
  BY <1>1 DEF Strays
<1>3. c \in Own2(p) /\ Own2(r) = Own2(p) /\ Active(r) = c /\ Own2(r) \subseteq Ids
  <2>1. Own2(r) = Own2(p) /\ Active(r) = c
    BY <1>1, <1>2 DEF Own2, Active
  <2>2. Own2(r) \subseteq Ids
    BY WebClientAssumption DEF Own2, Pages
  <2> QED
    BY <1>1, <2>1, <2>2, ActiveIs
<1>4. \A d \in Ids \ r.crossed : d \in Ids \ p.crossed /\ d # c /\ Shown(r, d) = Shown(p, d)
  BY <1>2 DEF Shown
<1>5. Timeline(r)
  <2>1. ASSUME NEW d \in Ids \ r.crossed
        PROVE  /\ Shown(r, d) \subseteq 1..r.saved[d]
               /\ \A i, j \in DOMAIN r.shown[d] : i < j => r.shown[d][i] < r.shown[d][j]
               /\ ToSet(r.shown[d]) \cap r.told[d] = {}
    BY <1>2, <1>4 DEF Timeline
  <2>2. ASSUME NEW d \in Own2(r) \ r.crossed PROVE 1..r.saved[d] \subseteq Shown(r, d)
    BY <1>2, <1>3, <1>4 DEF Timeline
  <2> QED
    BY <1>2, <1>3, <2>1, <2>2 DEF Timeline
<1>6. OneRequest(r) /\ \A q \in r.polls : q.answer.instance # instance
  BY <1>2, <1>3, NewRequest
<1>7. Behaved(r)
  BY <1>2, <1>3, <1>4, <1>6 DEF Behaved
<1>8. Spares(p, r)
  BY <1>2, <1>3 DEF Spares, Blanks
<1> QED
  BY <1>5, <1>6, <1>7, <1>8 DEF Truthful

Renders(p, a, new, r) ==
  /\ r \in Pages
  /\ r.own = p.own /\ r.opened = p.opened /\ r.selected = p.selected /\ r.instance = p.instance
  /\ r.told = p.told /\ r.crossed = p.crossed /\ r.polls = p.polls /\ r.loop = "resting"
  /\ r.shown = [p.shown EXCEPT ![Active(p)] = p.shown[Active(p)] \o new]
  /\ r.rendered = IF new = <<>> THEN p.rendered ELSE new[Len(new)]
  /\ r.cursor = IF p.cursor >= a.latest THEN p.cursor ELSE a.latest
  /\ r.saved = [p.saved EXCEPT ![Active(p)] = r.cursor]

LEMMA RenderedTo ==
  ASSUME NEW p \in Pages, NEW a \in Answered
  PROVE  Renders(p, a, After(a.events, p.rendered), Rendered(p, a))
BY RenderedIs DEF Renders

LEMMA RenderedKeeps ==
  ASSUME ChannelInv, NEW p \in Pages, Timeline(p), Behaved(p), p.polls = {}, NEW q \in Polls,
         q.after = p.cursor, q.answer.kind = "ok", Honest(q), Active(p) \notin p.crossed,
         p.instance = instance => q.answer.latest < next[Active(p)]
  PROVE  Truthful(Rendered(p, q.answer)) /\ Spares(p, Rendered(p, q.answer))
<1>1. PICK a \in Answered : a = q.answer
  BY DEF Polls
<1>2. PICK c \in Ids : c = Active(p)
  BY ActiveIs
<1>3. p.shown \in [Ids -> Seq(Int)] /\ p.told \in [Ids -> SUBSET Int] /\ p.rendered \in Int
  BY DEF Pages
<1>4. /\ p.saved \in [Ids -> Nat] /\ p.cursor = p.saved[c] /\ p.rendered <= p.cursor
      /\ Shown(p, c) \subseteq 1..p.saved[c] /\ Ascends(p.shown[c])
      /\ ToSet(p.shown[c]) \cap p.told[c] = {}
  BY <1>2 DEF Timeline, Ascends
<1>5. PICK n \in Nat, l \in Nat : n = p.cursor /\ l = a.latest /\ n <= l
  <2>1. a.latest \in Nat /\ p.cursor \in Nat
    BY <1>1, <1>4 DEF Answered
  <2>2. p.cursor <= a.latest
    BY <1>1 DEF Honest
  <2> QED
    BY <2>1, <2>2
<1>6. PICK ev : ev = a.events /\ ev = From(n, l)
  BY <1>1, <1>5 DEF Honest, From
<1>7. PICK old \in Seq(Int) : old = p.shown[c] /\ ToSet(old) \subseteq 1..n /\ Ascends(old)
  BY <1>3, <1>4, <1>5 DEF Shown
<1> DEFINE shown == old \o ev
<1>8. /\ ToSet(shown) = ToSet(old) \cup (n + 1)..l /\ Ascends(shown)
      /\ ev \in Seq(Nat) /\ Len(ev) = l - n /\ DOMAIN ev = 1..(l - n)
      /\ \A i \in 1..(l - n) : ev[i] = n + i
  <2>1. Grows(old, n, l)
    BY <1>5, <1>7, Lengthened
  <2>2. shown = old \o From(n, l)
    BY <1>6
  <2> HIDE DEF shown
  <2> QED
    BY <1>6, <2>1, <2>2 DEF Grows
<1> HIDE DEF shown
<1>9. After(ev, p.rendered) = ev
  <2>1. \A i \in DOMAIN ev : ~(ev[i] <= p.rendered)
    BY <1>3, <1>4, <1>5, <1>8
  <2> QED
    BY <1>3, <1>8, <2>1, AfterAny
<1>9a. PICK r : r = Rendered(p, a) /\ Renders(p, a, ev, r)
  <2>1. Renders(p, a, After(a.events, p.rendered), Rendered(p, a))
    BY RenderedTo
  <2>2. After(a.events, p.rendered) = ev
    BY <1>6, <1>9
  <2> QED
    BY <2>1, <2>2
<1>10. /\ r = Rendered(p, a) /\ r \in Pages
       /\ r.own = p.own /\ r.opened = p.opened /\ r.selected = p.selected /\ r.instance = p.instance
       /\ r.told = p.told /\ r.crossed = p.crossed /\ r.polls = p.polls /\ r.loop = "resting"
       /\ r.shown = [p.shown EXCEPT ![Active(p)] = p.shown[Active(p)] \o ev]
       /\ r.rendered = (IF ev = <<>> THEN p.rendered ELSE ev[Len(ev)])
       /\ r.cursor = (IF p.cursor >= a.latest THEN p.cursor ELSE a.latest)
       /\ r.saved = [p.saved EXCEPT ![Active(p)] = r.cursor]
  BY <1>9a DEF Renders
<1>11. r.cursor = l
  BY <1>5, <1>10
<1>12. r.rendered <= l
  <2>1. CASE ev = <<>>
    BY <1>3, <1>4, <1>5, <1>10, <2>1
  <2>2. CASE ev # <<>>
    <3>1. Len(ev) # 0 /\ Len(ev) \in Nat
      BY <1>8, <2>2
    <3>2. l - n \in 1..(l - n)
      BY <1>5, <1>8, <3>1
    <3>3. ev[Len(ev)] = l
      BY <1>5, <1>8, <3>2
    <3> QED
      BY <1>5, <1>10, <2>2, <3>3
  <2> QED
    BY <2>1, <2>2
<1>13. /\ r.shown = [p.shown EXCEPT ![c] = shown] /\ r.saved = [p.saved EXCEPT ![c] = l]
       /\ r.told = [p.told EXCEPT ![c] = p.told[c]]
  <2>1. r.shown = [p.shown EXCEPT ![c] = shown]
    BY <1>2, <1>7, <1>10 DEF shown
  <2>2. r.saved = [p.saved EXCEPT ![c] = l]
    BY <1>2, <1>10, <1>11
  <2>3. r.told = [p.told EXCEPT ![c] = p.told[c]]
    BY <1>3, <1>10
  <2> QED
    BY <2>1, <2>2, <2>3
<1>14. ToSet(shown) \cup p.told[c] = Shown(p, c) \cup (p.cursor + 1)..l
  BY <1>5, <1>7, <1>8 DEF Shown
<1>15. ToSet(shown) \cap p.told[c] = {}
  <2>1. p.told[c] \subseteq 1..n
    BY <1>4, <1>5 DEF Shown
  <2>2. (n + 1)..l \cap 1..n = {}
    BY <1>5
  <2> QED
    BY <1>4, <1>7, <1>8, <2>1, <2>2
<1>16. p.instance = instance => l < next[c]
  BY <1>1, <1>2, <1>5
<1>17. Truthful(r) /\ Spares(p, r)
  <2>1. p.cursor <= l /\ r.polls \subseteq {Request(r)} /\ r.polls = {}
    BY <1>5, <1>10
  <2>2. r.own = p.own /\ r.opened = p.opened /\ r.selected = p.selected /\ r.instance = p.instance
    BY <1>10
  <2>3. Advances(p, r, shown, p.told[c], l)
    BY <1>2, <1>8, <1>10, <1>11, <1>12, <1>13, <1>14, <1>15, <1>16, <2>1, <2>2 DEF Advances
  <2> QED
    BY <1>10, <2>3, Further
<1> QED
  BY <1>1, <1>10, <1>17

LEMMA RenderedAstray ==
  ASSUME ChannelInv, NEW p \in Pages, Timeline(p), Behaved(p), p.polls = {}, NEW a \in Answered,
         Active(p) \in p.crossed
  PROVE  Truthful(Rendered(p, a)) /\ Spares(p, Rendered(p, a))
<1>1. PICK new, r : r = Rendered(p, a) /\ Renders(p, a, new, r)
  BY RenderedTo
<1>2. PICK c \in Ids : c = Active(p)
  BY ActiveIs
<1>3. /\ r.own = p.own /\ r.opened = p.opened /\ r.selected = p.selected /\ r.instance = p.instance
      /\ r.told = p.told /\ r.crossed = p.crossed /\ r.polls = p.polls /\ r \in Pages
      /\ r.shown = [p.shown EXCEPT ![c] = p.shown[c] \o new]
      /\ r.cursor = (IF p.cursor >= a.latest THEN p.cursor ELSE a.latest)
      /\ r.saved = [p.saved EXCEPT ![c] = r.cursor]
  BY <1>1, <1>2 DEF Renders
<1>4. p.saved \in [Ids -> Nat] /\ p.cursor \in Nat /\ a.latest \in Nat /\ p.shown \in [Ids -> Seq(Int)]
  <2>1. p.saved \in [Ids -> Nat] /\ p.cursor = p.saved[c]
    BY <1>2 DEF Timeline
  <2> QED
    BY <2>1 DEF Answered, Pages
<1>5. r.saved \in [Ids -> Nat] /\ r.cursor = r.saved[c]
  BY <1>3, <1>4
<1>6. \A d \in Ids \ {c} : r.saved[d] = p.saved[d] /\ r.shown[d] = p.shown[d] /\ r.told[d] = p.told[d]
  BY <1>3, <1>4
<1>7. Strays(p, r)
  BY <1>2, <1>3, <1>5, <1>6 DEF Strays
<1> QED
  BY <1>1, <1>3, <1>7, Astray

LEMMA RetriedKeeps ==
  ASSUME ChannelInv, NEW p \in Pages, Timeline(p), Behaved(p), p.polls = {}, NEW q \in Polls,
         q.after = p.cursor, q.answer.kind \notin {"ok", "unknown_conversation"}, Honest(q),
         q.id = Active(p), Active(p) \notin p.crossed,
         p.instance = instance => q.answer.latest < next[Active(p)]
  PROVE  Truthful(Retried(p, q.id, q.answer)) /\ Spares(p, Retried(p, q.id, q.answer))
<1>1. PICK a \in Answered : a = q.answer
  BY DEF Polls
<1>2. PICK c \in Ids : c = Active(p)
  BY ActiveIs
<1>3. p.shown \in [Ids -> Seq(Int)] /\ p.told \in [Ids -> SUBSET Int] /\ p.rendered \in Int
  BY DEF Pages
<1>4. /\ p.saved \in [Ids -> Nat] /\ p.cursor = p.saved[c] /\ p.rendered <= p.cursor
      /\ Shown(p, c) \subseteq 1..p.saved[c] /\ Ascends(p.shown[c])
      /\ ToSet(p.shown[c]) \cap p.told[c] = {}
  BY <1>2 DEF Timeline, Ascends
<1>5. a.kind = "cursor_expired" /\ q.after + 1 < a.oldest /\ a.oldest <= a.latest
  BY <1>1 DEF Honest
<1>6. PICK n \in Nat, l \in Nat : n = p.cursor /\ l = a.oldest - 1 /\ n < l /\ l < a.latest /\ a.latest \in Nat
  <2>1. a.latest \in Nat /\ a.oldest \in Nat /\ p.cursor \in Nat
    BY <1>1, <1>4 DEF Answered
  <2> QED
    BY <1>5, <2>1
<1>7. PICK told : told = p.told[c] \cup (n + 1)..l
  OBVIOUS
<1>8. Target(p, a) = l /\ Notice(p, q.id, a) = [p.told EXCEPT ![c] = told]
  <2>1. Target(p, a) = l
    BY <1>5, <1>6 DEF Target
  <2> QED
    BY <1>2, <1>6, <1>7, <2>1 DEF Notice
<1>9. PICK r :
         /\ r = Retried(p, q.id, a) /\ r \in Pages
         /\ r.own = p.own /\ r.opened = p.opened /\ r.selected = p.selected /\ r.instance = p.instance
         /\ r.shown = p.shown /\ r.rendered = p.rendered
         /\ r.cursor = Target(p, a) /\ r.told = Notice(p, q.id, a) /\ r.crossed = Crosses(p, q.id)
         /\ r.saved = [p.saved EXCEPT ![Active(p)] = Target(p, a)]
         /\ r.polls \subseteq p.polls \cup {Request(r)}
         /\ r.loop # "asking" => r.polls = p.polls
  <2>1. PICK r : r = Retried(p, q.id, a)
    OBVIOUS
  <2> QED
    BY <2>1, RetriedIs
<1>10. /\ r.cursor = l /\ r.told = [p.told EXCEPT ![c] = told] /\ r.saved = [p.saved EXCEPT ![c] = l]
       /\ r.shown = [p.shown EXCEPT ![c] = p.shown[c]] /\ r.rendered <= l
  <2>1. r.rendered <= l
    BY <1>3, <1>4, <1>6, <1>9
  <2>2. r.shown = [p.shown EXCEPT ![c] = p.shown[c]]
    BY <1>3, <1>9
  <2> QED
    BY <1>2, <1>8, <1>9, <2>1, <2>2
<1>11. ToSet(p.shown[c]) \cup told = Shown(p, c) \cup (p.cursor + 1)..l
  BY <1>6, <1>7 DEF Shown
<1>12. ToSet(p.shown[c]) \cap told = {}
  <2>1. ToSet(p.shown[c]) \subseteq 1..n
    BY <1>4, <1>6 DEF Shown
  <2>2. (n + 1)..l \cap 1..n = {}
    BY <1>6
  <2> QED
    BY <1>4, <1>7, <2>1, <2>2
<1>13. p.instance = instance => l < next[c]
  <2>1. next[c] \in Nat
    BY DEF ChannelInv, Rings
  <2> QED
    BY <1>1, <1>2, <1>6, <2>1
<1>14. Truthful(r) /\ Spares(p, r)
  <2>1. p.cursor <= l /\ r.polls \subseteq {Request(r)} /\ (r.loop # "asking" => r.polls = {})
    BY <1>6, <1>9
  <2>2. /\ r.own = p.own /\ r.opened = p.opened /\ r.selected = p.selected /\ r.instance = p.instance
        /\ r.crossed = p.crossed
    BY <1>9 DEF Crosses
  <2>3. Advances(p, r, p.shown[c], told, l)
    BY <1>2, <1>4, <1>9, <1>10, <1>11, <1>12, <1>13, <2>1, <2>2 DEF Advances
  <2> QED
    BY <1>9, <2>3, Further
<1> QED
  BY <1>1, <1>9, <1>14

LEMMA RetriedAstray ==
  ASSUME ChannelInv, NEW p \in Pages, Timeline(p), Behaved(p), p.polls = {}, NEW q \in Polls,
         q.id # Active(p) \/ q.id \in p.crossed, Proper(q.answer),
         q.answer.kind \notin {"ok", "unknown_conversation"}
  PROVE  Truthful(Retried(p, q.id, q.answer)) /\ Spares(p, Retried(p, q.id, q.answer))
<1>1. PICK a \in Answered : a = q.answer
  BY DEF Polls
<1>2. PICK id : id = q.id
  OBVIOUS
<1>3. PICK c \in Ids : c = Active(p)
  BY ActiveIs
<1>4. Target(p, a) \in Nat
  <2>1. a.kind = "cursor_expired" \/ a.kind = "cursor_invalid"
    BY <1>1 DEF Answered, Kinds, Proper
  <2>2. a.oldest \in Nat /\ (a.kind = "cursor_expired" => a.oldest # 0)
    BY <1>1 DEF Answered, Proper
  <2> QED
    BY <2>1, <2>2 DEF Target
<1>5. PICK r :
         /\ r = Retried(p, id, a) /\ r \in Pages
         /\ r.own = p.own /\ r.opened = p.opened /\ r.selected = p.selected /\ r.instance = p.instance
         /\ r.shown = p.shown /\ r.cursor = Target(p, a) /\ r.told = Notice(p, id, a)
         /\ r.crossed = Crosses(p, id) /\ r.saved = [p.saved EXCEPT ![Active(p)] = Target(p, a)]
         /\ r.polls \subseteq p.polls \cup {Request(r)}
         /\ r.loop # "asking" => r.polls = p.polls
  <2>1. PICK r : r = Retried(p, id, a)
    OBVIOUS
  <2> QED
    BY <2>1, RetriedIs
<1>6. PICK l \in Nat : l = Target(p, a)
  BY <1>4
<1>7. r.saved = [p.saved EXCEPT ![c] = l] /\ r.cursor = l
  BY <1>3, <1>5, <1>6
<1>8. p.saved \in [Ids -> Nat] /\ p.told \in [Ids -> SUBSET Int]
  BY DEF Timeline, Pages
<1>9. r.saved \in [Ids -> Nat] /\ r.cursor = r.saved[c]
  BY <1>7, <1>8
<1>10. r.crossed = p.crossed \cup {c}
  BY <1>2, <1>3, <1>5 DEF Crosses
<1>11. ASSUME NEW d \in Ids \ {c}
       PROVE  r.saved[d] = p.saved[d] /\ r.shown[d] = p.shown[d] /\ r.told[d] = p.told[d]
  <2>1. r.saved[d] = p.saved[d] /\ r.shown[d] = p.shown[d]
    BY <1>5, <1>7, <1>8
  <2>2. r.told[d] = p.told[d]
    <3>1. CASE id # Active(p)
      BY <1>5, <3>1 DEF Notice
    <3>2. CASE id = c
      <4>1. r.told = [p.told EXCEPT ![c] = @ \cup (p.cursor + 1)..Target(p, a)]
        BY <1>3, <1>5, <3>2 DEF Notice
      <4> QED
        BY <1>8, <4>1
    <3> QED
      BY <1>3, <3>1, <3>2
  <2> QED
    BY <2>1, <2>2
<1>12. Strays(p, r)
  <2>1. r.polls \subseteq {Request(r)} /\ (r.loop # "asking" => r.polls = {})
    BY <1>5
  <2> QED
    BY <1>3, <1>5, <1>9, <1>10, <1>11, <2>1 DEF Strays
<1> QED
  BY <1>1, <1>2, <1>5, <1>12, Astray

(* What a step of the page does to its conversations                       *)
Moves(p, r) ==
  /\ r \in Pages /\ Truthful(r) /\ Spares(p, r)
  /\ r.own = p.own /\ r.opened \in {p.opened, Nobody} /\ r.begun \subseteq p.begun \cup Own2(p)

LEMMA StillMoves ==
  ASSUME ChannelInv, NEW p, NEW r, Truthful(p), Still(p, r), Quiet(p, r),
         r.begun \subseteq p.begun \cup Own2(p)
  PROVE  Moves(p, r)
<1>1. Truthful(r) /\ Spares(p, r)
  BY StillKeeps
<1> QED
  BY <1>1 DEF Moves, Still

LEMMA SameMoves ==
  ASSUME ChannelInv, NEW p, NEW r \in Pages, Truthful(p), Same(p, r), Quiet(p, r)
  PROVE  Moves(p, r)
<1>1. Still(p, r) /\ r.begun = p.begun
  BY DEF Same, Still, Looks
<1> QED
  BY <1>1, StillMoves

LEMMA CleanMoves ==
  ASSUME ChannelInv, NEW p \in Pages, NEW r, Truthful(p), Clean(p, r)
  PROVE  Moves(p, r)
<1>1. Truthful(r) /\ Spares(p, r)
  BY CleanKeeps
<1> QED
  BY <1>1 DEF Moves, Clean

LEMMA MovesTwice ==
  ASSUME NEW p, NEW q, NEW r, Moves(p, q), Moves(q, r)
  PROVE  Moves(p, r)
<1>1. Spares(p, r)
  BY DEF Moves, Spares
<1>2. Own2(q) \subseteq Own2(p)
  BY DEF Moves, Own2
<1> QED
  BY <1>1, <1>2 DEF Moves

LEMMA AlertMoves ==
  ASSUME ChannelInv, NEW p, NEW q, Moves(p, q), NEW b \in BOOLEAN
  PROVE  Moves(p, [q EXCEPT !.alert = b])
<1>1. q \in Pages /\ Truthful(q)
  BY DEF Moves
<1>2. PICK r : r = [q EXCEPT !.alert = b]
  OBVIOUS
<1>3. r \in Pages /\ Same(q, r) /\ Quiet(q, r)
  BY <1>1, <1>2, AlertIs DEF Quiet
<1>4. Moves(q, r)
  BY <1>1, <1>3, SameMoves
<1> QED
  BY <1>2, <1>4, MovesTwice

(* The page without its request                                            *)
LEMMA WithoutMoves ==
  ASSUME ChannelInv, NEW p, Fit(p), Truthful(p), NEW q, q \in p.polls
  PROVE  LET r == [p EXCEPT !.polls = @ \ {q}] IN
         Moves(p, r) /\ r.polls = {} /\ Same(p, r)
<1>1. p.polls = {q}
  BY DEF Truthful, OneRequest
<1>2. PICK r : r = [p EXCEPT !.polls = @ \ {q}]
  OBVIOUS
<1>3. r \in Pages /\ Same(p, r) /\ r.polls = {}
  BY <1>1, <1>2, WithoutIs DEF Fit
<1>4. Quiet(p, r)
  BY <1>3 DEF Quiet
<1>5. Moves(p, r)
  BY <1>3, <1>4, SameMoves
<1> QED
  BY <1>2, <1>3, <1>5

Fates(p, id, a, r) ==
  \/ r = [p EXCEPT !.loop = "off"]
  \/ a.instance # p.instance /\ r = Accept(p, a.instance)
  \/ r = [Cleared(p) EXCEPT !.alert = TRUE]
  \/ a.instance = p.instance /\ a.kind = "ok" /\ id = Active(p) /\ r = Rendered(p, a)
  \/ a.instance = p.instance /\ a.kind \notin {"ok", "unknown_conversation"} /\ r = Retried(p, id, a)

LEMMA PolledFates ==
  ASSUME NEW p, NEW id, NEW a
  PROVE  Fates(p, id, a, Polled(p, id, a))
<1>1. PICK r : r = Polled(p, id, a)
  OBVIOUS
<1>2. Fates(p, id, a, r)
  BY <1>1, PolledCases DEF Fates
<1> QED
  BY <1>1, <1>2

LEMMA PollAnsweredMoves ==
  ASSUME ChannelInv, Fit(page), Truthful(page), NEW q, PollAnswered(q)
  PROVE  Moves(page, page')
<1>1. q \in page.polls /\ q \in Polls /\ q.answer # NoAnswer /\ page \in Pages
  BY DEF PollAnswered, Fit, Pages
<1>2. PICK p : p = [page EXCEPT !.polls = @ \ {q}]
  OBVIOUS
<1>3. /\ Moves(page, p) /\ p.polls = {} /\ Same(page, p) /\ p \in Pages /\ Truthful(p)
      /\ q.answer \in Answered /\ page' = Polled(p, q.id, q.answer)
  <2>1. Moves(page, p) /\ p.polls = {} /\ Same(page, p)
    BY <1>1, <1>2, WithoutMoves
  <2>2. q.answer \in Answered /\ page' = Polled(p, q.id, q.answer)
    BY <1>2, PollAnsweredFits
  <2> QED
    BY <2>1, <2>2 DEF Moves
<1>4. /\ q.id \in Own2(p) /\ q.after = p.saved[q.id] /\ Proper(q.answer)
      /\ q.answer.instance = p.instance /\ q.id \notin p.crossed => Honest(q)
      /\ q.answer.instance = p.instance /\ p.instance = instance => q.answer.latest < next[q.id]
  <2>1. /\ q.id \in Own2(page) /\ q.after = page.saved[q.id] /\ Proper(q.answer)
        /\ q.answer.instance = page.instance /\ q.id \notin page.crossed => Honest(q)
    BY <1>1 DEF Truthful, OneRequest
  <2>2. Own2(p) = Own2(page) /\ p.saved = page.saved /\ p.instance = page.instance
        /\ p.crossed = page.crossed
    BY <1>3 DEF Same, Own2
  <2>3. page.instance = instance /\ q.answer.instance = instance => q.answer.latest < next[q.id]
    BY <1>1 DEF Truthful, Behaved
  <2> QED
    BY <2>1, <2>2, <2>3
<1>a. Timeline(p) /\ Behaved(p) /\ p.cursor = p.saved[Active(p)]
  BY <1>3 DEF Truthful, Timeline
<1> DEFINE a == q.answer
<1>5. CASE page' = [p EXCEPT !.loop = "off"]
  <2>1. PICK r : r = [p EXCEPT !.loop = "off"]
    OBVIOUS
  <2>2. r \in Pages /\ Same(p, r) /\ r.polls = {}
    BY <1>3, <2>1 DEF Pages, Same
  <2>3. Moves(p, r)
    BY <1>3, <2>2, SameMoves DEF Quiet
  <2> QED
    BY <1>3, <1>5, <2>1, <2>3, MovesTwice
<1>6. CASE a.instance # p.instance /\ page' = Accept(p, a.instance)
  <2>1. Clean(p, page')
    BY <1>3, <1>6, AcceptIs DEF Answered
  <2> QED
    BY <1>3, <2>1, CleanMoves, MovesTwice
<1>7. CASE page' = [Cleared(p) EXCEPT !.alert = TRUE]
  <2>1. Moves(p, Cleared(p))
    BY <1>3, ClearedIs, CleanMoves
  <2>2. Moves(page, Cleared(p))
    BY <1>3, <2>1, MovesTwice
  <2> QED
    BY <1>7, <2>2, AlertMoves
<1>8. CASE a.instance = p.instance /\ a.kind = "ok" /\ q.id = Active(p) /\ page' = Rendered(p, a)
  <2>1. PICK r : r = Rendered(p, a)
    OBVIOUS
  <2>2. Truthful(r) /\ Spares(p, r)
    <3>1. CASE q.id \in p.crossed
      BY <1>3, <1>a, <1>8, <2>1, <3>1, RenderedAstray
    <3>2. CASE q.id \notin p.crossed
      BY <1>1, <1>3, <1>4, <1>a, <1>8, <2>1, <3>2, RenderedKeeps
    <3> QED
      BY <3>1, <3>2
  <2>3. /\ r \in Pages /\ r.own = p.own /\ r.opened = p.opened /\ r.selected = p.selected
        /\ r.task = p.task /\ r.begun = p.begun
    BY <1>3, <2>1, RenderedIs
  <2>4. Moves(p, r)
    BY <2>2, <2>3 DEF Moves
  <2> QED
    BY <1>3, <1>8, <2>1, <2>4, MovesTwice
<1>9. CASE a.instance = p.instance /\ a.kind \notin {"ok", "unknown_conversation"} /\ page' = Retried(p, q.id, a)
  <2>1. PICK r : r = Retried(p, q.id, a)
    OBVIOUS
  <2>2. Truthful(r) /\ Spares(p, r)
    <3>1. CASE q.id # Active(p) \/ q.id \in p.crossed
      BY <1>1, <1>3, <1>4, <1>a, <1>9, <2>1, <3>1, RetriedAstray
    <3>2. CASE q.id = Active(p) /\ q.id \notin p.crossed
      BY <1>1, <1>3, <1>4, <1>a, <1>9, <2>1, <3>2, RetriedKeeps
    <3> QED
      BY <3>1, <3>2
  <2>3. /\ r \in Pages /\ r.own = p.own /\ r.opened = p.opened /\ r.selected = p.selected
        /\ r.task = p.task /\ r.begun = p.begun
    <3>1. Repairs(p, r)
      BY <1>3, <2>1, RetriedRepairs
    <3> QED
      BY <3>1 DEF Repairs
  <2>4. Moves(p, r)
    BY <2>2, <2>3 DEF Moves
  <2> QED
    BY <1>3, <1>9, <2>1, <2>4, MovesTwice
<1>10. Fates(p, q.id, a, page')
  BY <1>3, PolledFates
<1> QED
  BY <1>5, <1>6, <1>7, <1>8, <1>9, <1>10 DEF Fates

LEMMA FailedMoves ==
  ASSUME ChannelInv, Fit(page), Truthful(page), op \in [Operations -> Ops], NEW o \in Operations
  PROVE  Moves(page, Failed(page, o))
<1>1. PICK r : r = Failed(page, o)
  OBVIOUS
<1>2. /\ r \in Pages /\ page \in Pages
      /\ r.own = page.own /\ r.opened = page.opened /\ r.selected = page.selected /\ r.task = page.task
      /\ r.instance = page.instance /\ r.cursor = page.cursor /\ r.rendered = page.rendered
      /\ r.saved = page.saved /\ r.begun = page.begun /\ r.shown = page.shown /\ r.told = page.told /\ r.crossed = page.crossed
      /\ \/ r.polls = page.polls /\ r.loop = page.loop
         \/ r.polls \subseteq {Request(page)} /\ (r.loop # "asking" => r.polls = {})
  BY <1>1, FailedIs DEF Fit
<1>3. Request(r) = Request(page)
  BY <1>2 DEF Request, Active
<1>4. Still(page, r) /\ Quiet(page, r)
  BY <1>2, <1>3 DEF Still, Quiet, Looks
<1> QED
  BY <1>1, <1>2, <1>4, StillMoves

LEMMA LoadedMoves ==
  ASSUME ChannelInv, Fit(page), Truthful(page)
  PROVE  Moves(page, Loaded(page))
<1>1. PICK r : r = Loaded(page)
  OBVIOUS
<1>2. page \in Pages /\ session \in {"live", "terminal", "gone"}
  BY DEF Fit, ChannelInv, Threads
<1>3. /\ r \in Pages /\ r.own = page.own /\ r.opened = page.opened /\ r.task = session
      /\ r.instance = page.instance /\ r.saved = page.saved
      /\ r.begun = page.begun /\ r.shown = page.shown /\ r.told = page.told /\ r.crossed = page.crossed
      /\ Looks(page, r)
      /\ \/ r.polls = page.polls /\ r.loop = page.loop
         \/ r.polls \subseteq {Request(r)} /\ (r.loop # "asking" => r.polls = {})
  BY <1>1, <1>2, LoadedIs
<1>4. Still(page, r) /\ Quiet(page, r)
  BY <1>3 DEF Still, Quiet
<1> QED
  BY <1>1, <1>3, <1>4, StillMoves

LEMMA ReloadIs ==
  ASSUME page \in Pages, session \in {"live", "terminal", "gone"}, Reload
  PROVE  /\ page' \in Pages /\ page'.own = page.own /\ page'.opened = Nobody
         /\ page'.selected = "dispatcher" /\ page'.task = session /\ page'.instance = page.instance
         /\ page'.cursor = page.saved[page.own] /\ page'.rendered = 0 /\ page'.polls = {}
         /\ page'.saved = page.saved /\ page'.begun = page.begun
         /\ page'.shown = [c \in Ids |-> <<>>]
         /\ page'.told = [c \in Ids |-> page.told[c] \cup ToSet(page.shown[c])]
         /\ page'.crossed = page.crossed
<1> DEFINE cursor == page.saved[page.own]
           started == (page.own \in page.begun)
           none == 0
           no == FALSE
           shown == [c \in Ids |-> <<>>]
           told == [c \in Ids |-> page.told[c] \cup ToSet(page.shown[c])]
           ps == {}
           u == [page EXCEPT !.cursor = cursor, !.rendered = none, !.started = started,
                             !.connected = no, !.attempts = none, !.alert = no]
           v == [u EXCEPT !.opened = Nobody, !.selected = "dispatcher", !.task = session,
                          !.loop = "off", !.polls = ps, !.shown = shown, !.told = told]
<1>1. page' = v
  BY ZenonT(30) DEF Reload, Pages
<1>2. page.saved \in [Ids -> Int] /\ page.own \in Ids /\ page.told \in [Ids -> SUBSET Int]
      /\ page.shown \in [Ids -> Seq(Int)]
  BY WebClientAssumption DEF Pages
<1>3. cursor \in Int /\ started \in BOOLEAN /\ none \in Nat /\ none \in Int /\ no \in BOOLEAN /\ ps \in SUBSET Polls
  BY <1>2
<1>4. shown \in [Ids -> Seq(Int)]
  OBVIOUS
<1>5. told \in [Ids -> SUBSET Int]
  <2>1. \A c \in Ids : page.told[c] \in SUBSET Int /\ ToSet(page.shown[c]) \in SUBSET Int
    BY <1>2 DEF ToSet
  <2> QED
    BY <2>1
<1> HIDE DEF cursor, started, none, no, shown, told, ps
<1>6. PICK w : w = [page EXCEPT !.cursor = cursor, !.rendered = none, !.attempts = none]
  OBVIOUS
<1>7. w \in Pages /\ w.cursor = cursor /\ w.rendered = none
  BY <1>3, <1>6 DEF Pages
<1>8. w.own = page.own /\ w.instance = page.instance /\ w.saved = page.saved /\ w.begun = page.begun
      /\ w.crossed = page.crossed
  BY <1>6 DEF Pages
<1>9. PICK x : x = [w EXCEPT !.started = started, !.connected = no, !.alert = no]
  OBVIOUS
<1>10. x \in Pages /\ x.cursor = w.cursor /\ x.rendered = w.rendered
  BY <1>3, <1>7, <1>9 DEF Pages
<1>11. x.own = w.own /\ x.instance = w.instance /\ x.saved = w.saved /\ x.begun = w.begun
       /\ x.crossed = w.crossed
  BY <1>7, <1>9 DEF Pages
<1>12. u = x
  BY <1>6, <1>9 DEF Pages
<1> HIDE DEF u
<1>13. v \in Pages
  BY <1>3, <1>4, <1>5, <1>10, <1>12 DEF Pages
<1>14. v.own = x.own /\ v.instance = x.instance /\ v.saved = x.saved /\ v.begun = x.begun
       /\ v.crossed = x.crossed
       /\ v.cursor = x.cursor /\ v.rendered = x.rendered
  BY <1>10, <1>12 DEF Pages
<1>15. v.opened = Nobody /\ v.selected = "dispatcher" /\ v.task = session /\ v.polls = ps
       /\ v.shown = shown /\ v.told = told
  BY <1>10, <1>12 DEF Pages
<1> HIDE DEF v
<1> QED
  BY <1>1, <1>7, <1>8, <1>10, <1>11, <1>13, <1>14, <1>15 DEF cursor, none, shown, told, ps

LEMMA ReloadMoves ==
  ASSUME ChannelInv, Fit(page), Truthful(page), Reload
  PROVE  Moves(page, page')
<1>1. page \in Pages /\ session \in {"live", "terminal", "gone"}
  BY DEF Fit, ChannelInv, Threads
<1>2. PICK r : r = page'
  OBVIOUS
<1>3. /\ r \in Pages /\ r.own = page.own /\ r.opened = Nobody
      /\ r.selected = "dispatcher" /\ r.task = session /\ r.instance = page.instance
      /\ r.cursor = page.saved[page.own] /\ r.rendered = 0 /\ r.polls = {}
      /\ r.saved = page.saved /\ r.begun = page.begun
      /\ r.shown = [c \in Ids |-> <<>>]
      /\ r.told = [c \in Ids |-> page.told[c] \cup ToSet(page.shown[c])] /\ r.crossed = page.crossed
  BY <1>1, <1>2, ReloadIs
<1>4. page.own \in Ids /\ page.own # Nobody
  BY <1>1, WebClientAssumption, HttpChannelAssumption DEF Pages
<1>5. Active(r) = r.own /\ Own2(r) = {r.own} /\ r.own \in Own2(page)
  BY <1>3, <1>4 DEF Active, Own2
<1>6. \A c \in Ids : r.shown[c] = <<>> /\ ToSet(r.shown[c]) = {} /\ DOMAIN r.shown[c] = {}
                     /\ Shown(r, c) = Shown(page, c)
  <2>1. ToSet(<<>>) = {}
    BY DEF ToSet
  <2> QED
    BY <1>3, <2>1 DEF Shown
<1>7. Timeline(page) /\ page.saved \in [Ids -> Nat]
  BY DEF Truthful, Timeline
<1>8. Timeline(r)
  <2>1. r.cursor = r.saved[Active(r)] /\ r.rendered <= r.cursor /\ r.saved \in [Ids -> Nat]
    BY <1>3, <1>4, <1>5, <1>7
  <2>2. \A c \in Own2(r) \ r.crossed : 1..r.saved[c] \subseteq Shown(r, c)
    BY <1>3, <1>4, <1>5, <1>6, <1>7 DEF Timeline
  <2>3. ASSUME NEW c \in Ids \ r.crossed
        PROVE  /\ Shown(r, c) \subseteq 1..r.saved[c]
               /\ \A i, j \in DOMAIN r.shown[c] : i < j => r.shown[c][i] < r.shown[c][j]
               /\ ToSet(r.shown[c]) \cap r.told[c] = {}
    BY <1>3, <1>6, <1>7 DEF Timeline
  <2> QED
    BY <2>1, <2>2, <2>3 DEF Timeline
<1>9. OneRequest(r) /\ Behaved(r)
  BY <1>3, <1>5 DEF OneRequest, Behaved, Truthful
<1>10. Spares(page, r)
  <2>1. ASSUME NEW c \in Ids, Blanks(page, c) PROVE Blanks(r, c)
    <3>1. page.saved[c] = 0 /\ page.shown[c] = <<>> /\ page.told[c] = {} /\ c \notin Own2(page)
      BY <2>1 DEF Blanks
    <3>2. ToSet(page.shown[c]) = {}
      BY <3>1 DEF ToSet
    <3>3. r.told[c] = {}
      BY <1>3, <3>1, <3>2
    <3> QED
      BY <1>3, <1>5, <1>6, <3>1, <3>3 DEF Blanks
  <2> QED
    BY <2>1 DEF Spares
<1> QED
  BY <1>2, <1>3, <1>8, <1>9, <1>10 DEF Moves, Truthful

(* The steps of the page that neither open nor make a conversation         *)
LEMMA PageGoesOn ==
  ASSUME ChannelInv, Fit(page), Truthful(page), op \in [Operations -> Ops],
         \/ \E q \in page.polls : PollAnswered(q) \/ PollFails(q)
         \/ PollsAgain \/ TasksPolled \/ Connect \/ Send \/ Reload \/ PostAnswered
         \/ \E o \in Operations : OperationFails(o) \/ HealthAnswered(o) \/ TasksLoaded(o)
  PROVE  Moves(page, page')
<1>1. page \in Pages /\ instance \in Nat /\ session \in {"live", "terminal", "gone"}
  BY DEF Fit, ChannelInv, Threads
<1>2. Moves(page, page)
  <2>1. Same(page, page) /\ Quiet(page, page)
    BY DEF Same, Quiet
  <2> QED
    BY <1>1, <2>1, SameMoves
<1>3. ASSUME NEW q, PollAnswered(q) PROVE Moves(page, page')
  BY <1>3, PollAnsweredMoves
<1>4. ASSUME NEW q \in page.polls, PollFails(q) PROVE Moves(page, page')
  <2>1. PICK p : p = [page EXCEPT !.polls = @ \ {q}]
    OBVIOUS
  <2>2. Moves(page, p) /\ p.polls = {} /\ p \in Pages /\ Truthful(p) /\ page.polls \ {q} = {}
    <3>1. Moves(page, p) /\ p.polls = {}
      BY <2>1, WithoutMoves
    <3>2. page.polls \ {q} = {}
      BY DEF Truthful, OneRequest
    <3> QED
      BY <3>1, <3>2 DEF Moves
  <2>3. PICK ps \in SUBSET Polls, yes \in BOOLEAN : ps = {} /\ yes = TRUE
    OBVIOUS
  <2>4. page' = [page EXCEPT !.polls = ps, !.loop = "off", !.alert = yes]
    BY <1>4, <2>2, <2>3 DEF PollFails
  <2>5. page' \in Pages /\ Same(page, page') /\ page'.polls = {} /\ page'.loop = "off"
    BY <1>1, <2>3, <2>4 DEF Pages, Same
  <2>6. Quiet(page, page')
    BY <2>5 DEF Quiet
  <2> QED
    BY <2>5, <2>6, SameMoves
<1>5. CASE PollsAgain
  <2>1. page.loop = "resting" /\ page.polls = {}
    BY <1>5 DEF PollsAgain, Truthful, OneRequest
  <2>2. CASE page' = Ask(page)
    <3>1. page' \in Pages /\ Same(page, page') /\ page'.polls = {Request(page)} /\ page'.loop = "asking"
      BY <1>1, <2>1, <2>2, AskIs
    <3>2. Quiet(page, page')
      BY <3>1 DEF Quiet, Request, Same, Active
    <3> QED
      BY <3>1, <3>2, SameMoves
  <2>3. CASE page' = [page EXCEPT !.loop = "off"]
    <3>1. page' \in Pages /\ Same(page, page') /\ page'.polls = {}
      BY <1>1, <2>1, <2>3 DEF Pages, Same
    <3>2. Quiet(page, page')
      BY <3>1 DEF Quiet
    <3> QED
      BY <3>1, <3>2, SameMoves
  <2> QED
    BY <1>5, <2>2, <2>3 DEF PollsAgain
<1>6. CASE TasksPolled
  <2>1. PICK r : r = WithTasks(page) /\ page' = r
    BY <1>6 DEF TasksPolled
  <2>2. /\ r \in Pages /\ r.own = page.own /\ r.opened = page.opened /\ r.task = session
        /\ r.instance = page.instance /\ r.saved = page.saved
        /\ r.begun = page.begun /\ r.shown = page.shown /\ r.told = page.told /\ r.crossed = page.crossed
        /\ r.loop = page.loop /\ r.polls = page.polls /\ Looks(page, r)
    BY <1>1, <2>1, WithTasksIs
  <2>3. Still(page, r) /\ Quiet(page, r)
    BY <2>2 DEF Still, Quiet
  <2>4. Moves(page, r)
    BY <2>2, <2>3, StillMoves
  <2> QED
    BY <2>1, <2>4
<1>7. CASE Connect
  <2>1. page' = [page EXCEPT !.alert = FALSE]
    BY <1>7 DEF Connect
  <2> QED
    BY <1>2, <2>1, AlertMoves
<1>8. CASE Send
  <2>1. PICK b \in BOOLEAN : b = (IF page.connected THEN page.alert ELSE FALSE)
    BY <1>1 DEF Pages
  <2>2. page' = [page EXCEPT !.alert = b]
    BY <1>8, <2>1 DEF Send
  <2> QED
    BY <1>2, <2>2, AlertMoves
<1>9. CASE Reload
  BY <1>9, ReloadMoves
<1>10. CASE PostAnswered
  <2> DEFINE s == op["send"]
             yes == TRUE
             no == FALSE
             begun == page.begun \cup {s.id}
             q == [page EXCEPT !.started = yes, !.begun = begun, !.alert = no]
  <2>1. \/ page' = Failed(page, "send") \/ page' = page
        \/ page' = StartPolling(q) /\ s.id = Active(page)
    BY <1>10 DEF PostAnswered
  <2>2. Moves(page, Failed(page, "send"))
    BY FailedMoves DEF Operations
  <2>3. ASSUME s.id = Active(page) PROVE Moves(page, StartPolling(q))
    <3>1. begun \in SUBSET Ids /\ yes \in BOOLEAN /\ no \in BOOLEAN /\ begun \subseteq page.begun \cup Own2(page)
      <4>1. page.begun \in SUBSET Ids
        BY <1>1 DEF Pages
      <4>2. s.id \in Ids /\ s.id \in Own2(page)
        BY <1>1, <2>3, ActiveIs
      <4> QED
        BY <4>1, <4>2
    <3> HIDE DEF begun, yes, no, s
    <3>2. q \in Pages /\ q.begun = begun /\ q.own = page.own /\ q.opened = page.opened /\ q.selected = page.selected
          /\ q.task = page.task /\ q.instance = page.instance /\ q.cursor = page.cursor /\ q.rendered = page.rendered
      BY <1>1, <3>1 DEF Pages
    <3>3. q.saved = page.saved /\ q.shown = page.shown /\ q.told = page.told /\ q.crossed = page.crossed
      BY <1>1, <3>1 DEF Pages
    <3> HIDE DEF q
    <3>4. PICK r : r = StartPolling(q)
      OBVIOUS
    <3>5. r \in Pages /\ Same(q, r) /\ r.polls \subseteq {Request(q)} /\ (r.loop # "asking" => r.polls = {})
      BY <3>2, <3>4, StartPollingIs
    <3>6. Request(r) = Request(q)
      BY <3>5 DEF Same, Request, Active
    <3>7. Still(page, r) /\ Quiet(page, r)
      BY <3>2, <3>3, <3>5, <3>6 DEF Still, Quiet, Same, Looks
    <3>8. Moves(page, r)
      BY <3>1, <3>2, <3>5, <3>7, StillMoves DEF Same
    <3> QED
      BY <3>4, <3>8
  <2> HIDE DEF q, s
  <2> QED
    BY <1>2, <2>1, <2>2, <2>3
<1>11. ASSUME NEW o \in Operations, OperationFails(o) PROVE Moves(page, page')
  <2>1. page' = Failed(page, o)
    BY <1>11 DEF OperationFails
  <2> QED
    BY <2>1, FailedMoves
<1>12. ASSUME NEW o \in Operations, HealthAnswered(o) PROVE Moves(page, page')
  <2>1. PICK p : p = Accept(page, instance)
    OBVIOUS
  <2>2. Moves(page, p)
    <3>1. p = page \/ Clean(page, p)
      BY <1>1, <2>1, AcceptIs
    <3> QED
      BY <1>1, <1>2, <3>1, CleanMoves
  <2>3. page' = p \/ page' = [p EXCEPT !.alert = TRUE]
    BY <1>12, <2>1 DEF HealthAnswered, Post
  <2>4. Moves(page, [p EXCEPT !.alert = TRUE])
    BY <2>2, AlertMoves
  <2> QED
    BY <2>2, <2>3, <2>4
<1>13. ASSUME NEW o \in Operations, TasksLoaded(o) PROVE Moves(page, page')
  <2>1. PICK p : p = Loaded(page)
    OBVIOUS
  <2>2. Moves(page, p)
    BY <2>1, LoadedMoves
  <2>3. page' = p \/ page' = [p EXCEPT !.alert = TRUE]
    BY <1>13, <2>1 DEF TasksLoaded, Loaded, Post
  <2>4. Moves(page, [p EXCEPT !.alert = TRUE])
    BY <2>2, AlertMoves
  <2> QED
    BY <2>2, <2>3, <2>4
<1> QED
  BY <1>3, <1>4, <1>5, <1>6, <1>7, <1>8, <1>9, <1>10, <1>11, <1>12, <1>13

(* The selection goes on to create a conversation of the Task, or ends.    *)
SelectKept ==
  /\ op'["select"].id \in {op["select"].id, Nobody}
  /\ op'["select"].phase # "idle" =>
       \/ op["select"].phase # "idle" /\ op'["select"].task = op["select"].task
       \/ op'["select"].task = "task" /\ page.opened = Nobody

LEMMA MovesOn ==
  ASSUME ChannelInv, Operating, TimelineInv, Moves(page, page'), UNCHANGED <<server, used>>, SelectKept
  PROVE  TimelineInv'
<1>1. /\ page' \in Pages /\ Truthful(page') /\ Spares(page, page') /\ page'.own = page.own
      /\ page'.opened \in {page.opened, Nobody} /\ page'.begun \subseteq page.begun \cup Own2(page)
  BY DEF Moves
<1>2. used' = used /\ session' = session /\ next' = next /\ instance' = instance
  BY DEF server
<1>3. Truthful(page)'
  BY <1>1, <1>2 DEF Truthful, OneRequest, Timeline, Behaved
<1>4. Unused(page)'
  <2>1. ASSUME NEW c \in Ids \ used' PROVE Blanks(page', c) /\ c \notin page'.begun
    <3>1. Blanks(page, c) /\ c \notin page.begun
      BY <1>2 DEF TimelineInv, Unused
    <3> QED
      BY <1>1, <3>1 DEF Spares, Blanks
  <2>2. ASSUME op'["select"].id # Nobody PROVE Blanks(page', op'["select"].id)
    <3>1. PICK c : c = op["select"].id /\ c = op'["select"].id
      BY <2>2 DEF SelectKept
    <3>2. c \in Ids /\ Blanks(page, c)
      BY <2>2, <3>1 DEF TimelineInv, Unused, Operating, Operations, Ops
    <3> QED
      BY <1>1, <3>1, <3>2 DEF Spares
  <2> QED
    BY <2>1, <2>2 DEF Unused, Blanks, Own2
<1>5. Picks(page)'
  BY <1>1, <1>2 DEF TimelineInv, Picks, SelectKept
<1> QED
  BY <1>3, <1>4, <1>5 DEF TimelineInv

LEMMA SelectGoes ==
  ASSUME Operating, NEW o \in Operations, NEW s, Goes(o, s),
         o = "select" => /\ s.id \in {op["select"].id, Nobody}
                         /\ s.phase # "idle" => op["select"].phase # "idle" /\ s.task = op["select"].task
  PROVE  SelectKept
<1>1. op' = [op EXCEPT ![o] = s] /\ op \in [Operations -> Ops] /\ "select" \in Operations
  BY DEF Goes, Operating, Operations
<1>2. CASE o = "select"
  <2>1. op'["select"] = s
    BY <1>1, <1>2
  <2> QED
    BY <1>2, <2>1 DEF SelectKept
<1>3. CASE o # "select"
  <2>1. op'["select"] = op["select"]
    BY <1>1, <1>3
  <2> QED
    BY <2>1 DEF SelectKept
<1> QED
  BY <1>2, <1>3

LEMMA SelectRests ==
  ASSUME PageInv,
         \/ \E q \in page.polls : PollAnswered(q) \/ PollFails(q)
         \/ PollsAgain \/ TasksPolled \/ Connect \/ Send \/ Reload \/ PostAnswered
         \/ \E o \in Operations : OperationFails(o) \/ HealthAnswered(o) \/ TasksLoaded(o)
  PROVE  SelectKept
<1>1. Operating /\ op \in [Operations -> Ops] /\ \A o \in Operations : Stands(o, op[o])
  BY DEF PageInv, Operating
<1>2. Idle.id = Nobody /\ Idle.phase = "idle"
  BY DEF Idle
<1>3. ASSUME NEW o \in Operations, Goes(o, Idle) PROVE SelectKept
  BY <1>1, <1>2, <1>3, SelectGoes
<1>4. ASSUME NEW o \in Operations \ {"select"}, NEW s, Goes(o, s) PROVE SelectKept
  BY <1>1, <1>4, SelectGoes
<1>5. ASSUME UNCHANGED op PROVE SelectKept
  BY <1>5 DEF SelectKept
<1>6. CASE \/ \E q \in page.polls : PollAnswered(q) \/ PollFails(q)
           \/ PollsAgain \/ TasksPolled
  BY <1>5, <1>6 DEF PollAnswered, PollFails, PollsAgain, TasksPolled
<1>7. CASE Connect
  BY <1>4, <1>7 DEF Connect, Operations
<1>8. CASE Send
  BY <1>4, <1>8 DEF Send, Operations
<1>9. CASE PostAnswered
  BY <1>4, <1>9 DEF PostAnswered, Operations
<1>10. CASE Reload
  <2>1. op'["select"] = Idle
    BY <1>10 DEF Reload, Operations
  <2> QED
    BY <1>2, <2>1 DEF SelectKept
<1>11. ASSUME NEW o \in Operations, OperationFails(o) PROVE SelectKept
  BY <1>3, <1>11 DEF OperationFails
<1>12. ASSUME NEW p, NEW s, Post(p, s) PROVE SelectKept
  BY <1>4, <1>12 DEF Post, Operations
<1>13. ASSUME NEW o \in Operations, TasksLoaded(o) PROVE SelectKept
  <2>1. Goes(o, Idle) \/ \E p : Post(p, op[o])
    BY <1>13 DEF TasksLoaded
  <2> QED
    BY <1>3, <1>12, <2>1
<1>14. ASSUME NEW o \in Operations, HealthAnswered(o) PROVE SelectKept
  <2>1. CASE o # "select"
    <3>1. \/ \E s : Goes(o, s)
          \/ \E p, s : Post(p, s)
      BY <1>14, <2>1 DEF HealthAnswered
    <3> QED
      BY <1>4, <1>12, <2>1, <3>1, SMTT(30)
  <2>2. CASE o = "select"
    <3>1. PICK b \in BOOLEAN : b = (instance # page.instance)
      OBVIOUS
    <3>2. PICK s : s = [op[o] EXCEPT !.news = b, !.checked = instance]
      OBVIOUS
    <3>3. op[o] \in Ops /\ op[o].phase = "health" /\ Goes(o, [s EXCEPT !.phase = "create"])
      BY <1>1, <1>14, <2>2, <3>1, <3>2 DEF HealthAnswered
    <3>4. s.id = op[o].id /\ s.task = op[o].task
      BY <3>2, <3>3 DEF Ops
    <3>5. PICK t : t = [s EXCEPT !.phase = "create"]
      OBVIOUS
    <3>6. t.id = op[o].id /\ t.task = op[o].task
      BY <3>2, <3>3, <3>4, <3>5 DEF Ops
    <3> QED
      BY <1>1, <2>2, <3>3, <3>5, <3>6, SelectGoes
  <2> QED
    BY <2>1, <2>2
<1> QED
  BY <1>6, <1>7, <1>8, <1>9, <1>10, <1>11, <1>13, <1>14

LEMMA TimelineAlone ==
  ASSUME ChannelInv, PageInv, TimelineInv,
         \/ \E q \in page.polls : PollAnswered(q) \/ PollFails(q)
         \/ PollsAgain \/ TasksPolled \/ Connect \/ Send \/ Reload \/ PostAnswered
         \/ \E o \in Operations : OperationFails(o) \/ HealthAnswered(o) \/ TasksLoaded(o)
  PROVE  TimelineInv'
<1>1. UNCHANGED <<server, used>>
  BY DEF PollAnswered, PollFails, PollsAgain, TasksPolled, Connect, Send, Reload, PostAnswered,
         OperationFails, HealthAnswered, TasksLoaded
<1>2. Fit(page) /\ Truthful(page) /\ op \in [Operations -> Ops] /\ Operating
  BY DEF PageInv, TimelineInv, Operating
<1>3. Moves(page, page')
  BY <1>2, PageGoesOn
<1>4. SelectKept
  BY SelectRests
<1> QED
  BY <1>1, <1>2, <1>3, <1>4, MovesOn

(* What the channel answers to a cursor that is not past its last event    *)
LEMMA PageHonest ==
  ASSUME ChannelInv, NEW c \in Ids, NEW n \in Nat, n < next[c], NEW u, u.after = n, u.answer = Page(c, n)
  PROVE  Honest(u) /\ u.answer.latest < next[c]
<1>1. PICK l \in Nat : l = Latest(c) /\ l + 1 = next[c] /\ n <= l /\ events[c] = Kept(l)
  BY DEF ChannelInv, Rings, Latest
<1>2. PICK k \in Nat, es \in Seq(Nat) :
        /\ k = Least(MaxEvents, l) /\ es = Kept(l) /\ Len(es) = k /\ \A i \in 1..k : es[i] = l - k + i
  BY <1>1, KeptIs
<1>3. es = events[c] /\ (es = <<>> <=> k = 0) /\ k <= l /\ (k = 0 => l = 0)
  <2>1. es = <<>> <=> k = 0
    BY <1>2, EmptySeq
  <2> QED
    BY <1>1, <1>2, <2>1, HttpChannelAssumption DEF Least
<1>4. PICK o \in Nat : o = Oldest(c) /\ (k # 0 => o = l - k + 1)
  <2>1. CASE k = 0
    BY <1>3, <2>1 DEF Oldest
  <2>2. CASE k # 0
    <3>1. 1 \in 1..k
      BY <2>2
    <3>2. Head(es) = l - k + 1
      BY <1>2, <1>3, <2>2, <3>1
    <3>3. Oldest(c) = l - k + 1 /\ l - k + 1 \in Nat
      BY <1>3, <2>2, <3>2 DEF Oldest
    <3> QED
      BY <3>3
  <2> QED
    BY <2>1, <2>2
<1> DEFINE answer(kind, ev) == [instance |-> instance, kind |-> kind, events |-> ev,
                                latest |-> Latest(c), oldest |-> Oldest(c)]
<1>5. PICK none \in Seq(Nat), zero \in Nat : none = <<>> /\ zero = 0
  <2>1. <<>> \in Seq(Nat) /\ 0 \in Nat
    OBVIOUS
  <2> QED
    BY <2>1
<1>6. CASE c \notin open
  <2>1. Page(c, n) = [answer("unknown_conversation", none) EXCEPT !.latest = zero]
    BY <1>5, <1>6 DEF Page
  <2>2. u.answer.kind = "unknown_conversation" /\ u.answer.latest = 0
    BY <1>5, <2>1
  <2> QED
    BY <1>1, <2>2 DEF Honest
<1>7. CASE c \in open /\ k # 0 /\ n + 1 < o
  <2>1. ~(n > Latest(c)) /\ events[c] # <<>> /\ n + 1 < Oldest(c)
    BY <1>1, <1>3, <1>4, <1>7
  <2>2. Page(c, n) = answer("cursor_expired", none)
    BY <1>5, <1>7, <2>1 DEF Page
  <2>3. u.answer.kind = "cursor_expired" /\ u.answer.latest = l /\ u.answer.oldest = o
    BY <1>1, <1>4, <2>2
  <2>4. o <= l
    BY <1>2, <1>4, <1>7
  <2> QED
    BY <1>1, <1>4, <1>7, <2>3, <2>4 DEF Honest
<1>8. CASE c \in open /\ ~(k # 0 /\ n + 1 < o)
  <2>1. ~(n > Latest(c)) /\ ~(events[c] # <<>> /\ n + 1 < Oldest(c))
    BY <1>1, <1>3, <1>4, <1>8
  <2>2. PICK ev : ev = After(events[c], n)
    OBVIOUS
  <2>3. ev = [i \in 1..(l - n) |-> n + i]
    <3>1. l - Least(MaxEvents, l) <= n
      BY <1>1, <1>2, <1>3, <1>4, <1>8
    <3> QED
      BY <1>1, <2>2, <3>1, AfterIs
  <2>4. Page(c, n) = answer("ok", ev)
    BY <1>8, <2>1, <2>2 DEF Page
  <2>5. u.answer.kind = "ok" /\ u.answer.latest = l /\ u.answer.events = ev
    BY <1>1, <2>4
  <2> QED
    BY <1>1, <2>3, <2>5 DEF Honest
<1> QED
  BY <1>6, <1>7, <1>8

(* What it answers to any cursor                                           *)
LEMMA PageProper ==
  ASSUME ChannelInv, NEW c \in Ids, NEW n \in Int
  PROVE  Proper(Page(c, n)) /\ Page(c, n).latest < next[c]
<1>1. PICK l \in Nat : l = Latest(c) /\ l + 1 = next[c] /\ events[c] = Kept(l)
  BY DEF ChannelInv, Rings, Latest
<1>2. PICK a : a = Page(c, n)
  OBVIOUS
<1>3. a.kind # "none"
  BY <1>2, PageAnswers
<1>4. a.latest \in {0, l}
  <2>1. CASE c \notin open
    BY <1>2, <2>1 DEF Page
  <2>2. CASE c \in open /\ n > Latest(c)
    BY <1>1, <1>2, <2>2 DEF Page
  <2>3. CASE c \in open /\ ~(n > Latest(c)) /\ events[c] # <<>> /\ n + 1 < Oldest(c)
    BY <1>1, <1>2, <2>3 DEF Page
  <2>4. CASE c \in open /\ ~(n > Latest(c)) /\ ~(events[c] # <<>> /\ n + 1 < Oldest(c))
    BY <1>1, <1>2, <2>4 DEF Page
  <2> QED
    BY <2>1, <2>2, <2>3, <2>4
<1>5. a.kind = "cursor_expired" => events[c] # <<>> /\ a.oldest = Oldest(c)
  <2>1. CASE c \notin open
    BY <1>2, <2>1 DEF Page
  <2>2. CASE c \in open /\ n > Latest(c)
    BY <1>2, <2>2 DEF Page
  <2>3. CASE c \in open /\ ~(n > Latest(c)) /\ events[c] # <<>> /\ n + 1 < Oldest(c)
    BY <1>2, <2>3 DEF Page
  <2>4. CASE c \in open /\ ~(n > Latest(c)) /\ ~(events[c] # <<>> /\ n + 1 < Oldest(c))
    BY <1>2, <2>4 DEF Page
  <2> QED
    BY <2>1, <2>2, <2>3, <2>4
<1>6. events[c] # <<>> => Oldest(c) # 0
  <2>1. PICK k \in Nat, es \in Seq(Nat) :
          /\ k = Least(MaxEvents, l) /\ es = Kept(l) /\ Len(es) = k
          /\ \A i \in 1..k : es[i] = l - k + i
    BY <1>1, KeptIs
  <2>2. k <= l
    BY <2>1, HttpChannelAssumption DEF Least
  <2>3. ASSUME es # <<>> PROVE Head(es) # 0
    <3>1. 1 \in 1..k
      BY <2>1, <2>3, EmptySeq
    <3>2. Head(es) = l - k + 1
      BY <2>1, <2>3, <3>1
    <3> QED
      BY <2>2, <3>2
  <2> QED
    BY <1>1, <2>1, <2>3 DEF Oldest
<1>7. Proper(a)
  BY <1>3, <1>5, <1>6 DEF Proper
<1>8. a.latest < next[c]
  BY <1>1, <1>4
<1> QED
  BY <1>2, <1>7, <1>8

LEMMA TimelineServes ==
  ASSUME ChannelInv, PageInv, TimelineInv, NEW q \in page.polls, ServePoll(q)
  PROVE  TimelineInv'
<1>1. /\ Fit(page) /\ Truthful(page) /\ page \in Pages /\ q \in Polls /\ UNCHANGED <<server, used, op>>
      /\ Operating
  BY DEF PageInv, TimelineInv, Fit, Pages, ServePoll
<1>2. /\ page.polls = {q} /\ page.loop = "asking"
      /\ q.id \in Own2(page) /\ q.after = page.saved[q.id]
  BY <1>1 DEF Truthful, OneRequest
<1>3. PICK c \in Ids, n \in Nat : /\ c = q.id /\ n = q.after /\ c \in Own2(page) /\ n = page.saved[c]
  <2>1. q.id \in Ids
    BY <1>1 DEF Polls
  <2>2. page.saved \in [Ids -> Nat]
    BY <1>1 DEF Truthful, Timeline
  <2> QED
    BY <1>2, <2>1, <2>2
<1>4. PICK a \in Answered :
        /\ a = Page(q.id, q.after) /\ a.instance = instance
        /\ page' \in Pages /\ Same(page, page') /\ page'.loop = page.loop
        /\ page'.polls = (page.polls \ {q}) \cup {[q EXCEPT !.answer = a]}
  <2>1. Page(q.id, q.after).instance = instance
    <3>1. Page(c, n).instance = instance
      BY PageAnswers
    <3> QED
      BY <1>3, <3>1
  <2>2. Fit(page') => page' \in Pages
    BY DEF Fit
  <2> QED
    BY <1>1, <2>1, <2>2, ServePollFits
<1>5. PICK u : u = [q EXCEPT !.answer = a] /\ page'.polls = {u}
  BY <1>2, <1>4
<1>6. u.id = c /\ u.after = n /\ u.answer = a
  BY <1>1, <1>3, <1>5 DEF Polls
<1>7. /\ page.instance = instance /\ c \notin page.crossed => Honest(u)
      /\ Proper(a) /\ a.latest < next[c]
  <2>1. page.instance = instance /\ c \notin page.crossed => n < next[c]
    BY <1>1, <1>3 DEF Truthful, Behaved
  <2>2. page.instance = instance /\ c \notin page.crossed => Honest(u)
    BY <1>3, <1>4, <1>6, <2>1, PageHonest
  <2>3. Proper(Page(c, n)) /\ Page(c, n).latest < next[c]
    BY PageProper
  <2> QED
    BY <1>3, <1>4, <2>2, <2>3
<1>8. Active(page') = Active(page) /\ Own2(page') = Own2(page) /\ page'.instance = page.instance
      /\ page'.saved = page.saved /\ page'.crossed = page.crossed
  BY <1>4 DEF Same, Active, Own2
<1>9. OneRequest(page')
  BY <1>2, <1>3, <1>4, <1>5, <1>6, <1>7, <1>8 DEF OneRequest
<1>10. Timeline(page') /\ Spares(page, page')
  <2>1. \A b : Shown(page', b) = Shown(page, b)
    BY <1>4 DEF Same, Shown
  <2>2. /\ page'.cursor = page.cursor /\ page'.rendered = page.rendered /\ page'.saved = page.saved
        /\ page'.shown = page.shown /\ page'.told = page.told /\ page'.crossed = page.crossed
    BY <1>4 DEF Same
  <2>3. Timeline(page)
    BY <1>1 DEF Truthful
  <2>4. Timeline(page')
    <3>1. /\ page'.cursor = page'.saved[Active(page')]
          /\ Active(page') \notin page'.crossed => page'.rendered <= page'.cursor
          /\ page'.saved \in [Ids -> Nat]
      BY <1>8, <2>2, <2>3 DEF Timeline
    <3>2. \A b \in Own2(page') \ page'.crossed : 1..page'.saved[b] \subseteq Shown(page', b)
      BY <1>8, <2>1, <2>2, <2>3 DEF Timeline
    <3>3. ASSUME NEW b \in Ids \ page'.crossed
          PROVE  /\ Shown(page', b) \subseteq 1..page'.saved[b]
                 /\ \A i, j \in DOMAIN page'.shown[b] : i < j => page'.shown[b][i] < page'.shown[b][j]
                 /\ ToSet(page'.shown[b]) \cap page'.told[b] = {}
      BY <2>1, <2>2, <2>3 DEF Timeline
    <3> QED
      BY <3>1, <3>2, <3>3 DEF Timeline
  <2>5. Spares(page, page')
    BY <1>8, <2>2 DEF Spares, Blanks
  <2> QED
    BY <2>4, <2>5
<1>11. Behaved(page')
  <2>1. page'.saved = page.saved
    BY <1>4 DEF Same
  <2>2. page.instance = instance => \A b \in Own2(page) \ page.crossed : page.saved[b] < next[b]
    BY <1>1 DEF Truthful, Behaved
  <2> QED
    BY <1>5, <1>6, <1>7, <1>8, <2>1, <2>2 DEF Behaved
<1>12. Moves(page, page')
  BY <1>4, <1>9, <1>10, <1>11 DEF Moves, Truthful, Same
<1>13. SelectKept
  BY <1>1 DEF SelectKept
<1> QED
  BY <1>1, <1>12, <1>13, MovesOn

(* The page while the channel, the daemon and its Session go on            *)
LEMMA TimelineRests ==
  ASSUME ChannelInv, ChannelInv', PageInv, TimelineInv, GoesOn, UNCHANGED page,
         op'["select"].phase = op["select"].phase, op'["select"].task = op["select"].task,
         op'["select"].id = op["select"].id \/ op'["select"].id \in Ids \ used
  PROVE  TimelineInv'
<1>1. /\ page \in Pages /\ page.instance \in Nat /\ page.instance <= instance /\ instance \in Nat
      /\ Truthful(page)
  BY DEF PageInv, Fit, Pages, ChannelInv, TimelineInv
<1>2. used \subseteq used'
  BY DEF GoesOn
<1>3. Behaved(page)'
  <2>1. CASE page.instance # instance'
    BY <2>1 DEF Behaved
  <2>2. CASE page.instance = instance'
    <3>1. /\ instance' = instance /\ page.instance = instance
          /\ \A c \in Ids \ {opening} : next[c] <= next'[c]
      BY <1>1, <2>2 DEF GoesOn
    <3>2. ASSUME NEW c \in Own2(page)
          PROVE  c \in Ids /\ next[c] <= next'[c] /\ next[c] \in Nat /\ next'[c] \in Nat
      <4>1. page.own \in Own /\ page.opened \in Made \cup {Nobody}
        BY <1>1 DEF Pages
      <4>2. c \in Ids /\ c # opening
        <5>1. opening \in Made \cup {Nobody} /\ opening \notin bound
          BY DEF ChannelInv, Threads
        <5>2. page.opened # Nobody => page.opened \in bound
          BY <3>1 DEF PageInv, Attached
        <5> QED
          BY <4>1, <5>1, <5>2, WebClientAssumption, HttpChannelAssumption DEF Own2
      <4>3. next[c] \in Nat /\ next'[c] \in Nat
        BY <4>2 DEF ChannelInv, Rings
      <4> QED
        BY <3>1, <4>2, <4>3
    <3>3. \A c \in Own2(page) : page.saved[c] \in Nat
      BY <1>1, <3>2 DEF Truthful, Timeline
    <3>4. ASSUME NEW q \in page.polls
          PROVE  q.id \in Own2(page) /\ q.answer.latest \in Nat
      <4>1. q.id \in Own2(page) /\ q \in Polls
        BY <1>1 DEF Truthful, OneRequest, Pages
      <4> QED
        BY <4>1 DEF Polls, Answered
    <3>5. /\ \A c \in Own2(page) \ page.crossed : page.saved[c] < next[c]
          /\ \A q \in page.polls : q.answer.instance = instance => q.answer.latest < next[q.id]
      BY <1>1, <3>1 DEF Truthful, Behaved
    <3>6. \A c \in Own2(page) \ page.crossed : page.saved[c] < next'[c]
      BY <3>2, <3>3, <3>5
    <3>7. \A q \in page.polls : q.answer.instance = instance => q.answer.latest < next'[q.id]
      BY <3>2, <3>4, <3>5
    <3> QED
      BY <3>1, <3>6, <3>7 DEF Behaved, Own2
  <2> QED
    BY <2>1, <2>2
<1>4. Truthful(page)'
  BY <1>1, <1>3 DEF Truthful, OneRequest, Timeline, Active, Own2, Shown, Honest
<1>5. Unused(page)'
  BY <1>2 DEF TimelineInv, Unused, Blanks, Own2
<1>6. Picks(page)'
  BY <1>2 DEF TimelineInv, Picks
<1> QED
  BY <1>4, <1>5, <1>6 DEF TimelineInv

(* Another conversation is shown, from its own cursor.                     *)
Accounted(p) ==
  /\ p.saved \in [Ids -> Nat]
  /\ \A c \in Ids \ p.crossed : /\ Shown(p, c) \subseteq 1..p.saved[c] /\ Ascends(p.shown[c])
                                /\ ToSet(p.shown[c]) \cap p.told[c] = {}
  /\ \A c \in Own2(p) \ p.crossed : 1..p.saved[c] \subseteq Shown(p, c)
  /\ p.instance = instance => \A c \in Own2(p) \ p.crossed : p.saved[c] < next[c]

LEMMA AccountedIs ==
  ASSUME NEW p, Truthful(p)
  PROVE  Accounted(p)
<1>1. Timeline(p) /\ Behaved(p)
  BY DEF Truthful
<1> QED
  BY <1>1 DEF Timeline, Behaved, Accounted, Ascends

LEMMA ShowsOther ==
  ASSUME ChannelInv, NEW r \in Pages, Accounted(r), r.cursor = r.saved[Active(r)], r.rendered = r.cursor,
         \/ OneRequest(r) /\ \A q \in r.polls : q.answer.instance = instance /\ r.instance = instance
                                                  => q.answer.latest < next[q.id]
         \/ r.polls \subseteq {Request(r)} /\ (r.loop # "asking" => r.polls = {})
  PROVE  Truthful(r)
<1>1. OneRequest(r) /\ \A q \in r.polls : q.answer.instance = instance /\ r.instance = instance
                                            => q.answer.latest < next[q.id]
  <2>1. CASE r.polls \subseteq {Request(r)} /\ (r.loop # "asking" => r.polls = {})
    BY <2>1, NewRequest
  <2> QED
    BY <2>1
<1>2. Timeline(r)
  <2>1. r.cursor \in Nat
    BY ActiveIs DEF Accounted
  <2> QED
    BY <2>1 DEF Accounted, Timeline, Ascends
<1>3. Behaved(r)
  BY <1>1 DEF Accounted, Behaved
<1> QED
  BY <1>1, <1>2, <1>3 DEF Truthful

(* A Task is selected: its conversation is shown, or is created first.     *)
LEMMA TimelineSelects ==
  ASSUME ChannelInv, PageInv, TimelineInv, NEW t \in {"dispatcher", "task"}, Select(t)
  PROVE  TimelineInv'
<1>1. /\ page \in Pages /\ Truthful(page) /\ Operating /\ UNCHANGED <<server, used>>
      /\ op["select"].phase = "idle" /\ op["select"].id = Nobody
  <2>1. op["select"].phase = "idle" /\ UNCHANGED <<server, used>>
    BY DEF Select, Busy
  <2>2. Stands("select", op["select"])
    BY DEF PageInv, Operating, Operations
  <2>3. op["select"].id = Nobody
    BY <2>1, <2>2 DEF Stands
  <2> QED
    BY <2>1, <2>3 DEF PageInv, TimelineInv, Fit
<1>2. PICK b \in BOOLEAN : b = (t # page.selected)
  OBVIOUS
<1>3. PICK s : s = [Idle EXCEPT !.phase = "health", !.task = t, !.join = b]
  OBVIOUS
<1>4. s.phase = "health" /\ s.task = t /\ s.join = b /\ s.id = Nobody
  BY <1>3 DEF Idle
<1>5. PICK p : p = IF s.join THEN StopPolling(page) ELSE page
  OBVIOUS
<1>6. p \in Pages /\ Same(page, p) /\ (p.polls = {} \/ (p.polls = page.polls /\ p.loop = page.loop))
  <2>1. Same(page, page)
    BY DEF Same
  <2> QED
    BY <1>1, <1>5, <2>1, StopPollingIs
<1>7. IF t = "task" /\ page.task = "live" /\ page.opened = Nobody
      THEN Goes("select", s) /\ page' = [p EXCEPT !.alert = FALSE]
      ELSE UNCHANGED op /\ page' = [Selected(p, s) EXCEPT !.alert = FALSE]
  BY <1>2, <1>3, <1>5 DEF Select
<1>8. CASE t = "task" /\ page.task = "live" /\ page.opened = Nobody
  <2>1. Moves(page, p)
    BY <1>1, <1>6, SameMoves DEF Quiet
  <2>2. Moves(page, page')
    <3>1. Moves(page, [p EXCEPT !.alert = FALSE])
      BY <2>1, AlertMoves
    <3> QED
      BY <1>7, <1>8, <3>1
  <2>3. op'["select"] = s
    BY <1>1, <1>7, <1>8 DEF Goes, Operating, Operations
  <2>4. SelectKept
    BY <1>4, <1>8, <2>3 DEF SelectKept
  <2> QED
    BY <1>1, <2>2, <2>4, MovesOn
<1>9. CASE ~(t = "task" /\ page.task = "live" /\ page.opened = Nobody)
  <2>1. PICK r : r = Selected(p, s)
    OBVIOUS
  <2>2. page' = [r EXCEPT !.alert = FALSE] /\ UNCHANGED op
    BY <1>7, <1>9, <2>1
  <2>3. /\ r \in Pages /\ r.own = p.own /\ r.opened = p.opened
        /\ r.instance = p.instance /\ r.saved = p.saved
        /\ r.begun = p.begun /\ r.shown = p.shown /\ r.told = p.told /\ r.crossed = p.crossed
        /\ r.cursor = p.saved[Active(r)] /\ r.rendered = r.cursor
        /\ \/ r.polls = p.polls /\ r.loop = p.loop
           \/ r.polls \subseteq {Request(r)} /\ (r.loop # "asking" => r.polls = {})
    BY <1>4, <1>6, <2>1, SelectedIs
  <2>4. Still(page, r) /\ r.begun = page.begun
    BY <1>6, <2>3 DEF Same, Still, Looks
  <2>5. Quiet(page, r)
    BY <1>6, <2>3 DEF Quiet
  <2>6. Moves(page, r)
    BY <1>1, <2>4, <2>5, StillMoves
  <2>7. Moves(page, page')
    BY <2>2, <2>6, AlertMoves
  <2>8. SelectKept
    BY <1>1, <2>2 DEF SelectKept
  <2> QED
    BY <1>1, <2>7, <2>8, MovesOn
<1> QED
  BY <1>8, <1>9

(* A new conversation of the client's own                                  *)
LEMMA TimelineResets ==
  ASSUME ChannelInv, PageInv, TimelineInv, Reset
  PROVE  TimelineInv'
<1>1. PICK c \in Own \ used : used' = used \cup {c} /\ page' = [Cleared(page) EXCEPT !.own = c, !.alert = FALSE]
  BY DEF Reset
<1>2. /\ page \in Pages /\ Truthful(page) /\ UNCHANGED <<server, op>> /\ c \in Ids /\ c \in used'
      /\ op["select"].phase = "idle" /\ op["select"].id = Nobody
  <2>1. op["select"].phase = "idle" /\ UNCHANGED <<server, op>>
    BY DEF Reset, Busy
  <2>2. Stands("select", op["select"])
    BY DEF PageInv, Operating, Operations
  <2>3. op["select"].id = Nobody
    BY <2>1, <2>2 DEF Stands
  <2> QED
    BY <1>1, <2>1, <2>3, WebClientAssumption DEF PageInv, TimelineInv, Fit
<1>3. session' = session /\ next' = next /\ instance' = instance
  BY <1>2 DEF server
<1>4. PICK u : u = Cleared(page)
  OBVIOUS
<1>5. Clean(page, u)
  BY <1>2, <1>4, ClearedIs
<1>6. PICK no \in BOOLEAN : no = FALSE
  OBVIOUS
<1>7. page' = [u EXCEPT !.own = c, !.alert = no] /\ u \in Pages
  BY <1>1, <1>4, <1>5, <1>6 DEF Clean
<1>8. page' \in Pages /\ page'.own = c /\ page'.opened = u.opened /\ page'.selected = u.selected
      /\ page'.task = u.task /\ page'.polls = u.polls /\ page'.cursor = u.cursor /\ page'.rendered = u.rendered
  BY <1>1, <1>7 DEF Pages
<1>9. page'.saved = u.saved /\ page'.shown = u.shown /\ page'.told = u.told /\ page'.begun = u.begun
  BY <1>7 DEF Pages
<1>10. /\ page'.opened = Nobody /\ page'.selected = "dispatcher" /\ page'.task = page.task
       /\ page'.polls = {} /\ page'.cursor = 0 /\ page'.rendered = 0
       /\ page'.saved = [d \in Ids |-> IF d \in {page.own, page.opened} THEN 0 ELSE page.saved[d]]
       /\ page'.begun = page.begun \ {page.own, page.opened}
       /\ page'.shown = [d \in Ids |-> <<>>] /\ page'.told = [d \in Ids |-> {}]
  BY <1>5, <1>8, <1>9 DEF Clean
<1>11. \A d \in Ids \ used : page.saved[d] = 0 /\ d \notin page.begun
  BY DEF TimelineInv, Unused, Blanks
<1>12. page.saved \in [Ids -> Nat]
  BY <1>2 DEF Truthful, Timeline
<1>13. page'.saved \in [Ids -> Nat] /\ page'.saved[c] = 0
  BY <1>1, <1>2, <1>10, <1>11, <1>12
<1>14. Truthful(page')
  BY <1>8, <1>10, <1>13, NothingSeen
<1>15. Truthful(page)'
  BY <1>3, <1>14 DEF Truthful, OneRequest, Timeline, Behaved
<1>16. Unused(page)'
  <2>1. ASSUME NEW d \in Ids \ used' PROVE Blanks(page', d) /\ d \notin page'.begun
    <3>1. d \notin used /\ d # c
      BY <1>1
    <3>2. d \notin Own2(page')
      BY <1>8, <1>10, <3>1 DEF Own2
    <3> QED
      BY <1>10, <1>11, <3>1, <3>2 DEF Blanks
  <2>2. op'["select"].id = Nobody
    BY <1>2
  <2> QED
    BY <2>1, <2>2 DEF Unused, Blanks, Own2
<1>17. Picks(page)'
  BY <1>2, <1>3, <1>8, <1>10 DEF TimelineInv, Picks
<1> QED
  BY <1>15, <1>16, <1>17 DEF TimelineInv

(* The conversation that was created is shown from its first event on, or  *)
(* it was not created.                                                     *)
LEMMA TimelineCreates ==
  ASSUME ChannelInv, PageInv, TimelineInv, CreateAnswered
  PROVE  TimelineInv'
<1> DEFINE s == op["select"]
<1>1. /\ page \in Pages /\ Truthful(page) /\ Operating /\ UNCHANGED <<server, used>>
      /\ Fit(page) /\ op \in [Operations -> Ops] /\ Goes("select", Idle) /\ s.phase = "create" /\ s \in Ops
      /\ Stands("select", s) /\ s.task = "task" /\ page.opened = Nobody
  BY DEF PageInv, TimelineInv, Fit, Operating, Operations, CreateAnswered, Picks
<1>2. op'["select"] = Idle /\ Idle.id = Nobody /\ Idle.phase = "idle"
  BY <1>1 DEF Goes, Operating, Operations, Idle
<1>3. used' = used /\ session' = session /\ next' = next /\ instance' = instance
  BY <1>1 DEF server
<1>4. CASE s.answer # 201
  <2>1. page' = Failed(page, "select")
    BY <1>4 DEF CreateAnswered
  <2>2. Moves(page, page')
    BY <1>1, <2>1, FailedMoves DEF Operations
  <2>3. SelectKept
    BY <1>2 DEF SelectKept
  <2> QED
    BY <1>1, <2>2, <2>3, MovesOn
<1>5. CASE s.answer = 201
  <2>1. PICK id : id = s.id
    OBVIOUS
  <2>2. id \in Made /\ id \in used /\ id \in Ids /\ id # Nobody /\ Blanks(page, id)
    <3>1. id \in bound
      BY <1>1, <1>5, <2>1 DEF Stands
    <3>2. id \in Made /\ id \in used
      BY <3>1 DEF ChannelInv, Threads
    <3>3. id \in Ids /\ id # Nobody
      BY <3>2, WebClientAssumption, HttpChannelAssumption
    <3> QED
      BY <2>1, <3>2, <3>3 DEF TimelineInv, Unused
  <2>3. PICK begun : begun = page.begun \cup {id} /\ begun \in SUBSET Ids
    <3>1. page.begun \in SUBSET Ids
      BY <1>1 DEF Pages
    <3> QED
      BY <2>2, <3>1
  <2>4. PICK p : p = [page EXCEPT !.opened = id, !.begun = begun] /\ page' = Selected(p, s)
    BY <1>5, <2>1, <2>3 DEF CreateAnswered
  <2>5. /\ p \in Pages /\ p.own = page.own /\ p.opened = id /\ p.task = page.task /\ p.begun = begun
        /\ p.polls = page.polls /\ p.loop = page.loop
        /\ p.instance = page.instance /\ p.saved = page.saved /\ p.shown = page.shown /\ p.told = page.told /\ p.crossed = page.crossed
    BY <1>1, <2>2, <2>3, <2>4 DEF Pages
  <2> HIDE DEF s
  <2>6. PICK r : r = Selected(p, s)
    OBVIOUS
  <2>7. /\ r \in Pages /\ r.own = p.own /\ r.opened = p.opened /\ r.task = p.task
        /\ r.instance = p.instance /\ r.saved = p.saved
        /\ r.begun = p.begun /\ r.shown = p.shown /\ r.told = p.told /\ r.crossed = p.crossed /\ r.selected = "task"
        /\ r.cursor = p.saved[Active(r)] /\ r.rendered = r.cursor
        /\ \/ r.polls = p.polls /\ r.loop = p.loop
           \/ r.polls \subseteq {Request(r)} /\ (r.loop # "asking" => r.polls = {})
    BY <1>1, <2>5, <2>6, SelectedIs
  <2>8. Active(r) = id /\ Own2(r) = {page.own, id}
    <3>1. page.own # Nobody
      BY <1>1, WebClientAssumption, HttpChannelAssumption DEF Pages
    <3> QED
      BY <2>2, <2>5, <2>7, <3>1 DEF Active, Own2
  <2>9. \/ OneRequest(r) /\ \A q \in r.polls : q.answer.instance = instance /\ r.instance = instance
                                                 => q.answer.latest < next[q.id]
        \/ r.polls \subseteq {Request(r)} /\ (r.loop # "asking" => r.polls = {})
    <3>1. CASE r.polls = page.polls /\ r.loop = page.loop
      <4>1. /\ r.saved = page.saved /\ r.crossed = page.crossed /\ r.instance = page.instance
            /\ Own2(page) \subseteq Own2(r)
        BY <1>1, <2>5, <2>7, <2>8 DEF Own2
      <4>2. OneRequest(r)
        BY <1>1, <3>1, <4>1 DEF Truthful, OneRequest
      <4>3. \A q \in r.polls : q.answer.instance = instance /\ r.instance = instance
                                 => q.answer.latest < next[q.id]
        BY <1>1, <3>1, <4>1 DEF Truthful, Behaved
      <4> QED
        BY <4>2, <4>3
    <3> QED
      BY <2>5, <2>7, <3>1
  <2>10. Accounted(r)
    <3>1. Accounted(page) /\ page.own \in Own2(page)
      BY <1>1, AccountedIs, WebClientAssumption, HttpChannelAssumption DEF Own2, Pages
    <3>2. \A c \in Ids : Shown(r, c) = Shown(page, c)
      BY <2>5, <2>7 DEF Shown
    <3>3. /\ r.saved = page.saved /\ r.shown = page.shown /\ r.told = page.told /\ r.crossed = page.crossed /\ r.instance = page.instance
          /\ page.saved[id] = 0
      BY <2>2, <2>5, <2>7 DEF Blanks
    <3>4. ASSUME NEW c \in Own2(r) \ r.crossed
          PROVE  1..r.saved[c] \subseteq Shown(r, c) /\ (r.instance = instance => r.saved[c] < next[c])
      <4>1. CASE c = id
        <5>1. next[id] \in Nat \ {0}
          BY <2>2 DEF ChannelInv, Rings
        <5>2. 1..0 = {}
          OBVIOUS
        <5> QED
          BY <3>3, <4>1, <5>1, <5>2
      <4>2. CASE c = page.own
        <5>1. page.own \in Ids
          BY <1>1, WebClientAssumption DEF Pages
        <5> QED
          BY <3>1, <3>2, <3>3, <4>2, <5>1 DEF Accounted
      <4> QED
        BY <2>8, <4>1, <4>2
    <3> QED
      BY <3>1, <3>2, <3>3, <3>4 DEF Accounted
  <2>11. Truthful(r)
    BY <2>5, <2>7, <2>9, <2>10, ShowsOther
  <2>12. page' = r
    BY <2>4, <2>6
  <2>13. Truthful(page)'
    BY <1>3, <2>11, <2>12 DEF Truthful, OneRequest, Timeline, Behaved
  <2>14. Unused(page)'
    <3>1. ASSUME NEW c \in Ids \ used' PROVE Blanks(r, c) /\ c \notin r.begun
      <4>1. Blanks(page, c) /\ c \notin page.begun /\ c # id
        BY <1>3, <2>2 DEF TimelineInv, Unused
      <4>2. c \notin Own2(r)
        <5>1. c # page.own
          BY <1>3 DEF TimelineInv, Picks
        <5> QED
          BY <2>8, <4>1, <5>1
      <4> QED
        BY <2>3, <2>5, <2>7, <4>1, <4>2 DEF Blanks
    <3> QED
      BY <1>2, <2>12, <3>1 DEF Unused, Blanks, Own2
  <2>15. Picks(page)'
    <3>1. page'.own = page.own /\ page'.opened # Nobody /\ page'.task = page.task
      BY <2>2, <2>5, <2>7, <2>12
    <3> QED
      BY <1>2, <1>3, <3>1 DEF TimelineInv, Picks
  <2> QED
    BY <2>13, <2>14, <2>15 DEF TimelineInv
<1> QED
  BY <1>4, <1>5

(* What the channel, the daemon and its Session do leaves the page alone.  *)
LEMMA TimelineServer ==
  ASSUME ChannelInv, ChannelInv', PageInv, TimelineInv, GoesOn,
         \/ ServePost \/ ServeCreate \/ FinishCreate \/ (\E c \in Ids : Answer(c) \/ SessionEvent(c))
         \/ SessionChanges \/ DaemonStartsAnew \/ UNCHANGED vars
  PROVE  TimelineInv'
<1>1. op \in [Operations -> Ops] /\ op["select"] \in Ops /\ {"select", "send"} \subseteq Operations
  BY DEF PageInv, Operating, Operations
<1>2. UNCHANGED page
  BY DEF ServePost, ServeCreate, FinishCreate, Answer, SessionEvent, SessionChanges, DaemonStartsAnew, vars
<1>3. ASSUME op'["select"] = op["select"] PROVE TimelineInv'
  BY <1>2, <1>3, TimelineRests
<1>4. ASSUME NEW n \in Nat, op' = [op EXCEPT !["select"].answer = n] PROVE TimelineInv'
  <2>1. PICK s : s = [op["select"] EXCEPT !.answer = n]
    OBVIOUS
  <2>2. s.phase = op["select"].phase /\ s.task = op["select"].task
        /\ s.id = op["select"].id
    BY <1>1, <2>1 DEF Ops
  <2>3. op'["select"] = s
    BY <1>1, <1>4, <2>1
  <2> QED
    BY <1>2, <2>2, <2>3, TimelineRests
<1>5. CASE ServePost
  <2>1. \E s : Goes("send", s)
    BY <1>5 DEF ServePost
  <2>2. op'["select"] = op["select"]
    BY <1>1, <2>1 DEF Goes
  <2> QED
    BY <1>3, <2>2
<1>6. CASE ServeCreate
  <2>1. CASE \E c \in Made \ used : /\ CreateThread(c) /\ used' = used \cup {c}
                                    /\ Goes("select", [op["select"] EXCEPT !.id = c])
    <3>1. PICK c \in Made \ used : Goes("select", [op["select"] EXCEPT !.id = c])
      BY <2>1
    <3>2. PICK s : s = [op["select"] EXCEPT !.id = c]
      OBVIOUS
    <3>3. s.phase = op["select"].phase /\ s.task = op["select"].task
          /\ s.id = c
      BY <1>1, <3>2 DEF Ops
    <3>4. op'["select"] = s /\ c \in Ids \ used
      BY <1>1, <3>1, <3>2, WebClientAssumption DEF Goes
    <3> QED
      BY <1>2, <3>3, <3>4, TimelineRests
  <2>2. CASE Goes("select", [op["select"] EXCEPT !.answer = 500])
    <3>1. PICK n \in Nat : n = 500
      OBVIOUS
    <3>2. op' = [op EXCEPT !["select"].answer = n]
      BY <2>2, <3>1 DEF Goes
    <3> QED
      BY <1>4, <3>2
  <2> QED
    BY <1>6, <2>1, <2>2 DEF ServeCreate
<1>7. CASE FinishCreate
  <2>1. UNCHANGED op \/ \E n \in Nat : op' = [op EXCEPT !["select"].answer = n]
    BY <1>7 DEF FinishCreate, Answers
  <2> QED
    BY <1>3, <1>4, <2>1
<1>8. CASE DaemonStartsAnew
  <2>1. UNCHANGED op \/ op' = [op EXCEPT !["select"].answer = 500]
    BY <1>8 DEF DaemonStartsAnew
  <2> QED
    BY <1>3, <1>4, <2>1
<1>9. CASE SessionChanges \/ (\E c \in Ids : Answer(c) \/ SessionEvent(c)) \/ UNCHANGED vars
  <2>1. UNCHANGED op
    BY <1>9 DEF SessionChanges, Answer, SessionEvent, vars
  <2> QED
    BY <1>3, <2>1
<1> QED
  BY <1>5, <1>6, <1>7, <1>8, <1>9

LEMMA TimelineInit == Init => TimelineInv
<1> SUFFICES ASSUME Init PROVE TimelineInv
  OBVIOUS
<1>1. ChannelInv /\ page \in Pages
  BY WebInit DEF WebInv, PageInv, Fit
<1>2. /\ page.own \in used /\ page.opened = Nobody /\ page.selected = "dispatcher"
      /\ page.task = "live" /\ page.polls = {} /\ page.begun = {}
      /\ page.cursor = 0 /\ page.rendered = 0 /\ page.saved = [c \in Ids |-> 0]
      /\ page.shown = [c \in Ids |-> <<>>] /\ page.told = [c \in Ids |-> {}]
  BY DEF Init
<1>3. page.own \in Ids
  BY <1>1, WebClientAssumption DEF Pages
<1>4. op["select"].id = Nobody /\ op["select"].phase = "idle"
  BY DEF Init, Idle, Operations
<1>5. Truthful(page)
  <2>1. page.saved \in [Ids -> Nat] /\ page.saved[page.own] = 0
    BY <1>2, <1>3
  <2> QED
    BY <1>1, <1>2, <2>1, NothingSeen
<1>6. Unused(page)
  <2>1. \A c \in Ids \ used : c \notin Own2(page)
    BY <1>2 DEF Own2
  <2> QED
    BY <1>2, <1>4, <2>1 DEF Unused, Blanks
<1>7. Picks(page)
  BY <1>2, <1>4 DEF Picks
<1> QED
  BY <1>5, <1>6, <1>7 DEF TimelineInv

LEMMA TimelineStep ==
  ASSUME WebInv, TimelineInv, [Next]_vars
  PROVE  TimelineInv'
<1>1. ChannelInv /\ PageInv /\ ChannelInv' /\ GoesOn
  BY WebStep DEF WebInv
<1>2. CASE \/ ServePost \/ ServeCreate \/ FinishCreate \/ (\E c \in Ids : Answer(c) \/ SessionEvent(c))
           \/ SessionChanges \/ DaemonStartsAnew \/ UNCHANGED vars
  BY <1>1, <1>2, TimelineServer
<1>3. CASE \E q \in page.polls : ServePoll(q)
  BY <1>1, <1>3, TimelineServes
<1>4. CASE \/ \E q \in page.polls : PollAnswered(q) \/ PollFails(q)
           \/ PollsAgain \/ TasksPolled \/ Connect \/ Send \/ Reload \/ PostAnswered
           \/ \E o \in Operations : OperationFails(o) \/ HealthAnswered(o) \/ TasksLoaded(o)
  BY <1>1, <1>4, TimelineAlone
<1>5. CASE \E t \in {"dispatcher", "task"} : Select(t)
  BY <1>1, <1>5, TimelineSelects
<1>6. CASE Reset
  BY <1>1, <1>6, TimelineResets
<1>7. CASE CreateAnswered
  BY <1>1, <1>7, TimelineCreates
<1>8. CASE Next
  BY <1>2, <1>3, <1>4, <1>5, <1>6, <1>7, <1>8, NextCases
<1> QED
  BY <1>2, <1>8

(* The user sees every event of a conversation once and in order, or is    *)
(* told that it is lost: no cursor of the page, the one in localStorage    *)
(* too, gets past an event that was neither shown nor reported, over       *)
(* answers that come late, rings that forget, pollOnce's recoveries,       *)
(* changes of the Task shown, Tasks that end, are resumed or vanish,       *)
(* reloads and restarts.  Excepted is a conversation whose cursor          *)
(* recoverPollingError has set for the request of another one.             *)
THEOREM ShownToUser == Spec => []EventsShownOnce
<1>1. WebInv /\ TimelineInv => EventsShownOnce
  <2> SUFFICES ASSUME WebInv, TimelineInv, NEW c \in Ids \ page.crossed
               PROVE  NoSilentGap(c) /\ ShownOnce(c)
    BY DEF EventsShownOnce
  <2>1. page \in Pages /\ Timeline(page)
    BY DEF WebInv, PageInv, Fit, TimelineInv, Truthful
  <2>2. NoSilentGap(c)
    <3>1. ASSUME c \in Own2(page) PROVE 1..Position(c) \subseteq Seen(c)
      BY <2>1, <3>1 DEF Timeline, Position, Seen, Shown
    <3>2. c # Nobody
      BY HttpChannelAssumption
    <3> QED
      BY <3>1, <3>2 DEF NoSilentGap, Own2
  <2>3. ShownOnce(c)
    BY <2>1 DEF ShownOnce, Timeline
  <2> QED
    BY <2>2, <2>3
<1>2. WebInv /\ TimelineInv /\ [Next]_vars => WebInv' /\ TimelineInv'
  BY WebStep, TimelineStep
<1>3. Init => WebInv /\ TimelineInv
  BY WebInit, TimelineInit
<1> QED
  BY <1>1, <1>2, <1>3, PTL DEF Spec
=============================================================================
