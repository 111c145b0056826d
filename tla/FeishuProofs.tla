---------------------------- MODULE FeishuProofs ----------------------------
(***************************************************************************)
(* What is proved of the Feishu channel: of the way of a message, Ingress, *)
(* for any users, messages, conversations and Sessions, any size of the    *)
(* window of remembered ids, and any number of faults and restarts; and of *)
(* the presentation of turns, LiveCard, for any turns, threads and texts,  *)
(* any size of a card, and any number of calls that go wrong.              *)
(***************************************************************************)
EXTENDS Ingress, LiveCard, FiniteSetTheorems, SequenceTheorems, TLAPS

Frames  == [msg : Msgs, part : Nat]
Entries == [msg : Msgs, life : Nat, to : Takers, stored : SUBSET Sessions]

(* The sequences hold messages; a frame is a part of its event.            *)
Typed ==
  /\ server \in [Msgs -> {"unsent", "pending", "acked"}]
  /\ wire \in Seq(Frames)
  /\ \A i \in DOMAIN wire : wire[i].part \in 1..Parts[wire[i].msg]
  /\ tasks \in Seq(Msgs \ Ignored) /\ seen \in Seq(Msgs) /\ log \in Seq(Entries)
  /\ cache \in [Msgs -> SUBSET Nat] /\ managed \subseteq Convs
  /\ lives \in Nat \ {0}

(* The rest of IngressConsistent                                           *)
Flags ==
  /\ link \in {"up", "down", "dead"} /\ (link # "up" => wire = <<>>)
  /\ \A m \in Msgs : cache[m] \subseteq 1..Parts[m] /\ cache[m] # 1..Parts[m]
  /\ ledger \in [Sessions -> {"none", "active", "ended", "unrecorded", "gone"}]
  /\ bound \in [Convs -> Takers \cup {None}] /\ \A c \in managed : bound[c] = Manager

(* The window holds the last messages taken, each once.  While it is not   *)
(* full, it has all that this life of the daemon took.                     *)
Window ==
  /\ Len(seen) <= Capacity /\ Len(seen) <= Len(log)
  /\ \A j \in 1..Len(seen) : seen[j] = log[Len(log) - Len(seen) + j].msg
  /\ \A j, k \in 1..Len(seen) : seen[j] = seen[k] => j = k
  /\ \A i \in 1..Len(log) : log[i].life <= lives
  /\ Len(seen) < Capacity =>
       \A i \in 1..Len(log) : log[i].life = lives => Len(log) - Len(seen) < i

(* A conversation made for a Session is bound to no other Session, and     *)
(* never to a Project Manager.                                             *)
HomesKept ==
  /\ \A c \in managed : c \notin Homes
  /\ \A c \in Convs : /\ bound[c] = Manager => c \notin Homes
                      /\ bound[c] \in Sessions => c \notin Homes \/ Home[bound[c]] = c

----------------------------------------------------------------------------
(* Sequences                                                               *)

(* Of the end of a sequence that is not empty                              *)
LEMMA Ends ==
  ASSUME NEW T, NEW q \in Seq(T), q # <<>>
  PROVE  /\ Head(q) \in T /\ Tail(q) \in Seq(T) /\ Len(Tail(q)) = Len(q) - 1
         /\ Head(q) = q[1] /\ 1 \in DOMAIN q
         /\ \A i \in 1..Len(Tail(q)) : Tail(q)[i] = q[i + 1] /\ i + 1 \in DOMAIN q
OBVIOUS

(* A sequence without repetition has as many members as it is long.        *)
LEMMA DistinctCount ==
  ASSUME NEW T, NEW q \in Seq(T), \A j, k \in 1..Len(q) : q[j] = q[k] => j = k
  PROVE  IsFiniteSet(ToSet(q)) /\ Cardinality(ToSet(q)) = Len(q)
<1>1. IsFiniteSet(1..Len(q)) /\ Cardinality(1..Len(q)) = Len(q)
  <2>1. PICK n \in Nat : n = Len(q)
    OBVIOUS
  <2>2. IsFiniteSet(1..n) /\ Cardinality(1..n) = IF 1 > n THEN 0 ELSE n - 1 + 1
    BY FS_Interval
  <2> QED
    BY <2>1, <2>2
<1>2. q \in Surjection(1..Len(q), ToSet(q)) /\ q \in Injection(1..Len(q), ToSet(q))
  <2>1. q \in [1..Len(q) -> ToSet(q)] /\ DOMAIN q = 1..Len(q)
    BY DEF ToSet
  <2> QED
    BY <2>1 DEF Surjection, Injection, IsInjective, ToSet
<1> QED
  BY <1>1, <1>2, FS_Surjection

----------------------------------------------------------------------------
(* Messages taken                                                          *)

(* What Handled does with the first of the messages handed to it: nothing, *)
(* if its id is remembered; else it is logged once, and it goes to the     *)
(* Session of its conversation where a record has one.                     *)
Taken(m, e) ==
  /\ e \in Entries /\ e.msg = m /\ e.life = lives /\ m \notin ToSet(seen)
  /\ e.stored # {} => e.to \in e.stored
  /\ seen' = Remembers(m) /\ log' = Append(log, e)

Bindings == [Convs -> Takers \cup {None}]

(* Who takes a message, and who owns the conversation afterwards.          *)
LEMMA TakerFits ==
  ASSUME Typed, bound \in Bindings, HomesKept, NEW c \in Convs
  PROVE  /\ Taker(c) \in Takers
         /\ Taker(c) \in Sessions => BoundTo(c) \in {None, Taker(c)}
         /\ Taker(c) \in Sessions => c \notin Homes \/ Home[Taker(c)] = c
         /\ bound[c] # Console /\ Stored(c) # {} => Taker(c) \in Stored(c)
<1>1. Stored(c) # {} => (CHOOSE s \in Stored(c) : TRUE) \in Stored(c)
  OBVIOUS
<1>2. \A s \in Stored(c) : s \in Sessions /\ Recorded(s) /\ Home[s] = c /\ c \in Homes
  BY DEF Stored, Homes
<1>3. BoundTo(c) \in Takers \cup {None} /\ (BoundTo(c) # None => BoundTo(c) = bound[c] /\ Exists(bound[c]))
  BY DEF BoundTo, Bindings
<1>4. bound[c] = Manager => c \notin Homes
  BY DEF HomesKept
<1>5. bound[c] \in Sessions => c \notin Homes \/ Home[bound[c]] = c
  BY DEF HomesKept
<1>6. None \notin Takers /\ Console \notin Sessions /\ Manager \notin Sessions /\ Console # Manager
  BY IngressAssumption DEF Takers, None, Console
<1>7. CASE BoundTo(c) # None
  <2>1. Taker(c) = bound[c] /\ Taker(c) = BoundTo(c) /\ bound[c] \in Takers
    BY <1>3, <1>7 DEF Taker
  <2>2. bound[c] \in Sessions /\ Stored(c) # {} => bound[c] \in Stored(c)
    BY <1>2, <1>5, IngressAssumption
  <2> QED
    BY <1>2, <1>4, <1>5, <2>1, <2>2 DEF Takers
<1>8. CASE BoundTo(c) = None
  <2>1. CASE Stored(c) # {}
    <3>1. Taker(c) \in Stored(c)
      BY <1>1, <1>8, <2>1 DEF Taker
    <3> QED
      BY <1>2, <1>8, <3>1 DEF Takers
  <2>2. CASE Stored(c) = {}
    BY <1>6, <1>8, <2>2 DEF Taker, Takers
  <2> QED
    BY <2>1, <2>2
<1> QED
  BY <1>7, <1>8

LEMMA HandledCases ==
  ASSUME Typed, bound \in Bindings, HomesKept, Handled
  PROVE  /\ tasks # <<>> /\ Head(tasks) \in Msgs /\ tasks' = Tail(tasks)
         /\ \/ Head(tasks) \in ToSet(seen) /\ UNCHANGED <<seen, bound, log>>
            \/ \E e \in Entries : Taken(Head(tasks), e)
         /\ bound' \in Bindings
         /\ \A c \in Convs :
              \/ bound'[c] = bound[c] \/ bound'[c] \in {None, Console}
              \/ bound'[c] \in Sessions /\ bound[c] # Manager /\ (c \notin Homes \/ Home[bound'[c]] = c)
         /\ \A c \in Convs : bound[c] = Manager => bound'[c] = Manager
<1> DEFINE m == Head(tasks)
           c == ConvOf[m]
           s == Taker(c)
<1>1. tasks # <<>> /\ m \in Msgs /\ c \in Convs /\ tasks' = Tail(tasks)
  BY IngressAssumption DEF Handled, Typed
<1>2. CASE m \in ToSet(seen)
  BY <1>1, <1>2 DEF Handled
<1>3. CASE m \notin ToSet(seen)
  <2> DEFINE e == [msg |-> m, life |-> lives,
                   to |-> IF s \in Sessions /\ Conflict(s, c) THEN "raised" ELSE s,
                   stored |-> IF bound[c] = Console THEN {} ELSE Stored(c)]
  <2>1. seen' = Remembers(m) /\ log' = Append(log, e)
    BY <1>3 DEF Handled
  <2>2. /\ s \in Takers /\ (s \in Sessions => ~Conflict(s, c))
        /\ s \in Sessions => c \notin Homes \/ Home[s] = c
        /\ bound[c] # Console /\ Stored(c) # {} => s \in Stored(c)
        /\ s \in Sessions => BoundTo(c) \in {None, s}
    BY <1>1, TakerFits DEF Conflict
  <2>3. Stored(c) \subseteq Sessions /\ lives \in Nat
    BY DEF Stored, Typed
  <2>4. e \in Entries /\ Taken(m, e)
    BY <1>1, <1>3, <2>1, <2>2, <2>3 DEF Entries, Taken
  <2>5. IF s = Console THEN \E b \in {BoundTo(c), Console} : bound' = [bound EXCEPT ![c] = b]
        ELSE IF s = Manager \/ Conflict(s, c) THEN UNCHANGED bound
        ELSE Binds(s, c)
    BY <1>3 DEF Handled
  <2>6. BoundTo(c) \in {bound[c], None} /\ BoundTo(c) \in Takers \cup {None}
    BY <1>1 DEF BoundTo, Bindings
  <2>7. /\ Console # Manager /\ None # Manager /\ Manager \notin Sessions /\ Console \notin Sessions
        /\ None \notin Sessions
    BY IngressAssumption DEF Console, None
  <2>8. bound[c] = Manager => BoundTo(c) = Manager /\ s = Manager
    BY <2>7 DEF BoundTo, Exists, Taker
  <2>9. \/ UNCHANGED bound
        \/ \E b \in {bound[c], None, Console} : bound' = [bound EXCEPT ![c] = b] /\ bound[c] # Manager
        \/ s \in Sessions /\ bound' = [bound EXCEPT ![c] = s] /\ bound[c] # Manager
    <3>1. CASE s = Console
      BY <2>5, <2>6, <2>7, <2>8, <3>1
    <3>2. CASE s = Manager
      BY <2>5, <2>7, <3>2
    <3>3. CASE s \in Sessions
      <4>1. Binds(s, c) /\ bound[c] # Manager
        BY <2>2, <2>5, <2>7, <2>8, <3>3
      <4> QED
        BY <2>6, <3>3, <4>1 DEF Binds
    <3> QED
      BY <2>2, <3>1, <3>2, <3>3 DEF Takers
  <2>10. bound' \in Bindings
    BY <1>1, <2>2, <2>9 DEF Bindings, Takers
  <2>11. \A d \in Convs \ {c} : bound'[d] = bound[d]
    BY <2>9 DEF Bindings
  <2>12. UNCHANGED bound \/ (bound[c] # Manager /\ \/ bound'[c] \in {bound[c], None, Console}
                                                   \/ s \in Sessions /\ bound'[c] = s)
    BY <1>1, <2>9 DEF Bindings
  <2> QED
    BY <1>1, <2>2, <2>4, <2>10, <2>11, <2>12
<1> QED
  BY <1>2, <1>3

----------------------------------------------------------------------------
(* The steps, by what they touch                                           *)

(* The steps of the server and the connection, of the frames, of the main  *)
(* loop, of the Sessions, and of the daemon.                               *)
Links == Connected \/ Revived \/ (\E how \in {"down", "dead"} : Lost(how))
           \/ \E m \in Msgs : UserSends(m) \/ Pushed(m)
Lives == \/ \E s \in Sessions : SessionStarts(s) \/ SessionEnds(s) \/ SessionResumed(s)
         \/ \E s \in Sessions : SessionForgotten(s) \/ RuntimeLeaves(s)
         \/ \E c \in Convs : ManagerOpened(c) \/ \E s \in Sessions : Opened(s, c)

LEMMA NextCases ==
  Next => Links \/ Receives \/ Handled \/ Lives \/ Restarted
BY DEF Next, Links, Lives

LEMMA LinksKeep ==
  ASSUME Links
  PROVE  /\ UNCHANGED <<tasks, seen, sessions, log, lives, cache>>
         /\ \/ UNCHANGED server
            \/ \E n \in Msgs : server[n] = "unsent" /\ server' = [server EXCEPT ![n] = "pending"]
BY DEF Links, Connected, Revived, Lost, UserSends, Pushed, sessions

LEMMA LivesKeep == Lives => UNCHANGED <<channel, tasks, seen, log, lives>>
BY DEF Lives, SessionStarts, SessionEnds, SessionResumed, SessionForgotten,
      RuntimeLeaves, Opened, ManagerOpened

(* What a frame does to the messages handed over and acknowledged.         *)
LEMMA ReceivesCases ==
  ASSUME Typed, Receives
  PROVE  /\ wire # <<>> /\ Head(wire).msg \in Msgs /\ link = "up"
         /\ \E expired \in SUBSET Msgs, ok \in BOOLEAN, raises \in BOOLEAN :
              Received(expired, ok, raises)
<1>0. wire # <<>> /\ link = "up" /\ wire \in Seq(Frames)
  BY DEF Typed, Receives, FrameHandled, FrameFails
<1>1. wire # <<>> /\ Head(wire) \in Frames /\ link = "up"
  BY <1>0, Ends
<1>2. CASE FrameHandled
  <2>1. Received({}, TRUE, FALSE) /\ {} \in SUBSET Msgs
    BY <1>2 DEF FrameHandled
  <2> QED
    BY <1>1, <2>1 DEF Frames
<1>3. CASE FrameFails
  <2>1. \E expired \in SUBSET Msgs : \/ Received(expired, TRUE, FALSE)
                                      \/ Received(expired, TRUE, TRUE)
                                      \/ Received(expired, FALSE, FALSE)
    <3>1. {} \in SUBSET Msgs
      OBVIOUS
    <3> QED
      BY <1>3, <3>1 DEF FrameFails
  <2> QED
    BY <1>1, <2>1 DEF Frames
<1> QED
  BY <1>2, <1>3 DEF Receives

(* What a frame changes of the channel and of the messages handed over.    *)
LEMMA ReceivedKeeps ==
  ASSUME Typed, NEW expired, NEW ok \in BOOLEAN, NEW raises \in BOOLEAN, wire # <<>>,
         Received(expired, ok, raises)
  PROVE  LET m == Head(wire).msg IN
         /\ m \in Msgs
         /\ UNCHANGED <<seen, sessions, log, lives>>
         /\ \/ UNCHANGED tasks
            \/ m \notin Ignored /\ tasks' = Append(tasks, m)
         /\ \/ UNCHANGED server
            \/ /\ server' = [server EXCEPT ![m] = "acked"]
               /\ m \notin Ignored => tasks' = Append(tasks, m)
         /\ wire' \in {Tail(wire), <<>>} /\ (link' = "up" \/ (link' = "down" /\ wire' = <<>>))
         /\ \E n \in Msgs, c \in [Msgs -> SUBSET Nat] :
              /\ \A k \in Msgs : c[k] \in {{}, cache[k]}
              /\ \/ cache' = [c EXCEPT ![n] = {}]
                 \/ /\ cache' = [c EXCEPT ![n] = @ \cup {Head(wire).part}]
                    /\ n = m /\ c[n] \cup {Head(wire).part} # 1..Parts[n]
<1> DEFINE m     == Head(wire).msg
           part  == Head(wire).part
           fresh == [n \in Msgs |-> IF n \in expired THEN {} ELSE cache[n]]
<1>1. Head(wire) \in Frames
  BY Ends DEF Typed
<1>2. m \in Msgs /\ fresh \in [Msgs -> SUBSET Nat] /\ \A k \in Msgs : fresh[k] \in {{}, cache[k]}
  BY <1>1 DEF Typed, Frames
<1>3. CASE Complete(m, fresh[m], part)
  <2>1. /\ IF raises THEN UNCHANGED tasks ELSE Dispatched(m)
        /\ server' = [server EXCEPT ![m] = IF Answers(ok, raises) THEN "acked" ELSE @]
        /\ cache' = [fresh EXCEPT ![m] = {}]
        /\ wire' = IF ok THEN Tail(wire) ELSE <<>>
        /\ link' = IF ok THEN "up" ELSE "down"
        /\ UNCHANGED <<seen, sessions, log, lives>>
    BY <1>3 DEF Received
  <2>2. Answers(ok, raises) => ~raises
    BY DEF Answers
  <2>3. CASE Answers(ok, raises)
    <3>1. server' = [server EXCEPT ![m] = "acked"]
      BY <2>1, <2>3
    <3>2. tasks' = IF m \notin Ignored THEN Append(tasks, m) ELSE tasks
      BY <2>1, <2>2, <2>3 DEF Dispatched, IsText
    <3> QED
      BY <1>2, <2>1, <3>1, <3>2
  <2>4. CASE ~Answers(ok, raises)
    <3>1. UNCHANGED server
      BY <2>1, <2>4 DEF Typed
    <3>2. UNCHANGED tasks \/ (m \notin Ignored /\ tasks' = Append(tasks, m))
      BY <2>1 DEF Dispatched, IsText
    <3> QED
      BY <1>2, <2>1, <3>1, <3>2
  <2> QED
    BY <2>3, <2>4
<1>4. CASE ~Complete(m, fresh[m], part)
  <2>1. /\ cache' = [fresh EXCEPT ![m] = @ \cup {part}]
        /\ UNCHANGED <<server, tasks>>
        /\ wire' = IF ok THEN Tail(wire) ELSE <<>>
        /\ link' = IF ok THEN "up" ELSE "down"
        /\ UNCHANGED <<seen, sessions, log, lives>>
    BY <1>4 DEF Received
  <2>2. fresh[m] \cup {part} # 1..Parts[m]
    BY <1>4 DEF Complete
  <2> QED
    BY <1>2, <2>1, <2>2
<1> QED
  BY <1>3, <1>4

----------------------------------------------------------------------------
(* The invariant                                                           *)

IngressInv ==
  /\ Typed /\ Flags /\ Window /\ HomesKept
  /\ ExecutedOnce /\ AckedIsTaken /\ RepliesReachSession

LEMMA ConsistentIs == Typed /\ Flags /\ Window => IngressConsistent
<1> SUFFICES ASSUME Typed, Flags, Window PROVE IngressConsistent
  OBVIOUS
<1>1. ToSet(tasks) \cap Ignored = {}
  BY DEF Typed, ToSet
<1>2. Cardinality(ToSet(seen)) = Len(seen)
  BY DistinctCount DEF Typed, Window
<1>3. \A i \in DOMAIN log : log[i].to \in Takers
  <2>1. \A i \in DOMAIN log : log[i] \in Entries
    BY DEF Typed
  <2> QED
    BY <2>1 DEF Entries
<1> QED
  BY <1>1, <1>2, <1>3 DEF Typed, Flags, Window, IngressConsistent

LEMMA IngressInit == Init => IngressInv
<1> SUFFICES ASSUME Init PROVE IngressInv
  OBVIOUS
<1>1. /\ server = [m \in Msgs |-> "unsent"] /\ wire = <<>> /\ link = "down"
      /\ cache = [m \in Msgs |-> {}] /\ tasks = <<>> /\ seen = <<>>
      /\ ledger = [s \in Sessions |-> "none"] /\ managed = {ManagerHome}
      /\ bound = AtStart(managed) /\ log = <<>> /\ lives = 1
  BY DEF Init
<1>2. Typed
  BY <1>1, IngressAssumption DEF Typed
<1>3. /\ bound = [c \in Convs |-> IF c \in managed THEN Manager ELSE IF c = Control THEN Console ELSE None]
      /\ managed \subseteq Convs /\ ManagerHome \notin Homes
  BY <1>1, IngressAssumption DEF AtStart, Homes
<1>4. HomesKept
  BY <1>1, <1>3, IngressAssumption DEF HomesKept, Homes, None, Console
<1>5. Window
  BY <1>1, IngressAssumption DEF Window
<1>6. Flags
  <2>1. \A m \in Msgs : cache[m] \subseteq 1..Parts[m] /\ cache[m] # 1..Parts[m]
    BY <1>1, IngressAssumption
  <2>2. bound \in [Convs -> Takers \cup {None}] /\ \A c \in managed : bound[c] = Manager
    BY <1>3 DEF Takers
  <2> QED
    BY <1>1, <2>1, <2>2 DEF Flags
<1>7. ExecutedOnce /\ RepliesReachSession
  BY <1>1 DEF ExecutedOnce, RepliesReachSession
<1>8. AckedIsTaken
  BY <1>1 DEF AckedIsTaken
<1> QED
  BY <1>2, <1>4, <1>5, <1>6, <1>7, <1>8 DEF IngressInv

(* Types and flags, step by step                                           *)

LEMMA TypedStep == IngressInv /\ [Next]_vars => Typed'
<1> SUFFICES ASSUME IngressInv, [Next]_vars PROVE Typed'
  OBVIOUS
<1>t. Typed /\ Flags /\ HomesKept /\ bound \in Bindings
  BY DEF IngressInv, Flags, Bindings
<1>1. CASE Links
  <2>1. /\ UNCHANGED <<tasks, seen, managed, log, lives, cache>>
        /\ server' \in [Msgs -> {"unsent", "pending", "acked"}]
    BY <1>1, <1>t, LinksKeep DEF Typed, sessions
  <2>2. /\ wire' \in Seq(Frames)
        /\ \A i \in DOMAIN wire' : wire'[i].part \in 1..Parts[wire'[i].msg]
    <3>1. CASE \E m \in Msgs : Pushed(m)
      <4>1. PICK m \in Msgs : Pushed(m)
        BY <3>1
      <4> DEFINE fs == [k \in 1..Parts[m] |-> [msg |-> m, part |-> k]]
      <4>2. Parts[m] \in Nat /\ fs \in Seq(Frames) /\ Len(fs) = Parts[m]
        <5>1. Parts[m] \in Nat /\ fs \in [1..Parts[m] -> Frames]
          BY IngressAssumption DEF Frames
        <5> HIDE DEF fs
        <5> QED
          BY <5>1
      <4>3. wire' = wire \o fs /\ wire \in Seq(Frames)
        BY <1>t, <4>1 DEF Pushed, Typed
      <4>4. \A i \in 1..Len(fs) : fs[i].part \in 1..Parts[fs[i].msg]
        BY <4>2
      <4>5. \A i \in 1..Len(wire) : wire[i].part \in 1..Parts[wire[i].msg]
        BY <1>t DEF Typed
      <4> HIDE DEF fs
      <4>6. wire' \in Seq(Frames) /\ Len(wire') = Len(wire) + Len(fs)
            /\ DOMAIN wire' = 1..Len(wire')
            /\ \A i \in 1..Len(wire') : wire'[i] = IF i <= Len(wire) THEN wire[i] ELSE fs[i - Len(wire)]
        <5>1. /\ wire \o fs \in Seq(Frames) /\ Len(wire \o fs) = Len(wire) + Len(fs)
              /\ \A i \in 1..Len(wire) + Len(fs) :
                   (wire \o fs)[i] = IF i <= Len(wire) THEN wire[i] ELSE fs[i - Len(wire)]
          BY <4>2, <4>3, ConcatProperties
        <5>2. wire' \in Seq(Frames) /\ Len(wire') = Len(wire) + Len(fs)
          BY <4>3, <5>1
        <5> QED
          BY <4>3, <5>1, <5>2
      <4>7. \A i \in 1..Len(wire') : i <= Len(wire) \/ i - Len(wire) \in 1..Len(fs)
        BY <4>2, <4>3, <4>6
      <4>8. Len(wire) \in Nat
        BY <4>3
      <4>9. \A i \in 1..Len(wire') : wire'[i].part \in 1..Parts[wire'[i].msg]
        <5> TAKE i \in 1..Len(wire')
        <5>1. CASE i <= Len(wire)
          <6>1. i \in 1..Len(wire) /\ wire'[i] = wire[i]
            BY <4>6, <4>8, <5>1
          <6> QED
            BY <4>5, <6>1
        <5>2. CASE ~(i <= Len(wire))
          <6>1. i - Len(wire) \in 1..Len(fs) /\ wire'[i] = fs[i - Len(wire)]
            BY <4>6, <4>7, <5>2
          <6> QED
            BY <4>4, <6>1
        <5> QED
          BY <5>1, <5>2
      <4> QED
        BY <4>6, <4>9
    <3>2. CASE wire' = wire \/ wire' = <<>>
      <4>1. <<>> \in Seq(Frames) /\ DOMAIN <<>> = {}
        OBVIOUS
      <4> QED
        BY <1>t, <3>2, <4>1 DEF Typed
    <3>3. wire' = wire \/ wire' = <<>> \/ \E m \in Msgs : Pushed(m)
      BY <1>1 DEF Links, Connected, Revived, Lost, UserSends
    <3> QED
      BY <3>1, <3>2, <3>3
  <2> QED
    BY <1>t, <2>1, <2>2 DEF Typed
<1>2. CASE Receives
  <2>1. PICK expired \in SUBSET Msgs, ok \in BOOLEAN, raises \in BOOLEAN : wire # <<>> /\ Received(expired, ok, raises)
    BY <1>2, <1>t, ReceivesCases
  <2> DEFINE m == Head(wire).msg
  <2>2. /\ m \in Msgs /\ UNCHANGED <<seen, sessions, log, lives>>
        /\ \/ UNCHANGED tasks
           \/ m \notin Ignored /\ tasks' = Append(tasks, m)
        /\ UNCHANGED server \/ server' = [server EXCEPT ![m] = "acked"]
        /\ wire' \in {Tail(wire), <<>>}
        /\ \E n \in Msgs, c \in [Msgs -> SUBSET Nat] :
             \/ cache' = [c EXCEPT ![n] = {}]
             \/ cache' = [c EXCEPT ![n] = @ \cup {Head(wire).part}]
    BY <1>t, <2>1, ReceivedKeeps
  <2>3. Head(wire).part \in Nat
    BY <1>t, <2>1, Ends DEF Typed
  <2>4. cache' \in [Msgs -> SUBSET Nat]
    BY <2>2, <2>3
  <2>5. tasks' \in Seq(Msgs \ Ignored)
    <3>1. CASE m \in Msgs \ Ignored /\ tasks' = Append(tasks, m)
      <4> DEFINE T == Msgs \ Ignored
      <4>1. tasks \in Seq(T) /\ m \in T
        BY <1>t, <3>1 DEF Typed
      <4> QED
        BY <3>1, <4>1, AppendProperties
    <3>2. CASE UNCHANGED tasks
      BY <1>t, <3>2 DEF Typed
    <3> QED
      BY <2>2, <3>1, <3>2
  <2>6. server' \in [Msgs -> {"unsent", "pending", "acked"}]
    BY <1>t, <2>2 DEF Typed
  <2>7. /\ wire' \in Seq(Frames)
        /\ \A i \in DOMAIN wire' : wire'[i].part \in 1..Parts[wire'[i].msg]
    <3>1. CASE wire' = <<>>
      BY <3>1
    <3>2. CASE wire' = Tail(wire)
      <4>1. /\ Tail(wire) \in Seq(Frames)
            /\ \A i \in 1..Len(Tail(wire)) : Tail(wire)[i] = wire[i + 1] /\ i + 1 \in DOMAIN wire
        BY <1>t, <2>1, Ends DEF Typed
      <4> QED
        BY <1>t, <3>2, <4>1 DEF Typed
    <3> QED
      BY <2>2, <3>1, <3>2
  <2> QED
    BY <1>t, <2>2, <2>4, <2>5, <2>6, <2>7 DEF Typed, sessions
<1>3. CASE Handled
  <2>1. /\ tasks # <<>> /\ Head(tasks) \in Msgs /\ tasks' = Tail(tasks)
        /\ \/ UNCHANGED <<seen, bound, log>>
           \/ \E e \in Entries : Taken(Head(tasks), e)
    BY <1>3, <1>t, HandledCases
  <2>2. UNCHANGED <<channel, managed, lives>>
    BY <1>3 DEF Handled
  <2>3. tasks' \in Seq(Msgs \ Ignored)
    BY <1>t, <2>1 DEF Typed
  <2>4. seen' \in Seq(Msgs) /\ log' \in Seq(Entries)
    <3>1. CASE UNCHANGED <<seen, bound, log>>
      BY <1>t, <3>1 DEF Typed
    <3>2. CASE \E e \in Entries : Taken(Head(tasks), e)
      <4>1. PICK e \in Entries : Taken(Head(tasks), e)
        BY <3>2
      <4>2. log' \in Seq(Entries)
        <5>1. log \in Seq(Entries) /\ log' = Append(log, e)
          BY <1>t, <4>1 DEF Typed, Taken
        <5> QED
          BY <5>1, AppendProperties
      <4>3. seen' = Append(seen, Head(tasks)) \/ seen' = Tail(Append(seen, Head(tasks)))
        BY <4>1 DEF Taken, Remembers
      <4>4. Append(seen, Head(tasks)) \in Seq(Msgs) /\ Append(seen, Head(tasks)) # <<>>
        <5>1. seen \in Seq(Msgs)
          BY <1>t DEF Typed
        <5> QED
          BY <2>1, <5>1, AppendProperties
      <4> QED
        BY <4>2, <4>3, <4>4, Ends
    <3> QED
      BY <2>1, <3>1, <3>2
  <2> QED
    BY <1>t, <2>2, <2>3, <2>4 DEF Typed, channel
<1>4. CASE Lives
  <2>1. managed' \subseteq Convs
    BY <1>4, <1>t DEF Typed, Lives, SessionStarts, SessionEnds, SessionResumed, SessionForgotten,
      RuntimeLeaves, Opened, ManagerOpened, OpensManager
  <2> QED
    BY <1>4, <1>t, <2>1, LivesKeep DEF Typed, channel
<1>5. CASE Restarted
  BY <1>5, <1>t DEF Typed, Restarted
<1>6. CASE UNCHANGED vars
  BY <1>6, <1>t DEF Typed, vars, channel, sessions
<1> QED
  BY <1>1, <1>2, <1>3, <1>4, <1>5, <1>6, NextCases

LEMMA FlagsStep == IngressInv /\ [Next]_vars => Flags'
<1> SUFFICES ASSUME IngressInv, [Next]_vars PROVE Flags'
  OBVIOUS
<1>t. Typed /\ Flags /\ HomesKept /\ bound \in Bindings
  BY DEF IngressInv, Flags, Bindings
<1>e. \A m \in Msgs : {} # 1..Parts[m]
  BY IngressAssumption
<1>1. CASE Links
  <2>1. link' \in {"up", "down", "dead"} /\ (link' # "up" => wire' = <<>>)
    BY <1>1, <1>t DEF Links, Connected, Revived, Lost, UserSends, Pushed, Flags
  <2> QED
    BY <1>1, <1>t, <2>1, LinksKeep DEF Flags, sessions
<1>2. CASE Receives
  <2>1. PICK expired \in SUBSET Msgs, ok \in BOOLEAN, raises \in BOOLEAN :
          wire # <<>> /\ Received(expired, ok, raises)
    BY <1>2, <1>t, ReceivesCases
  <2>2. /\ UNCHANGED sessions /\ Head(wire).msg \in Msgs
        /\ link' = "up" \/ (link' = "down" /\ wire' = <<>>)
        /\ \E n \in Msgs, c \in [Msgs -> SUBSET Nat] :
              /\ \A k \in Msgs : c[k] \in {{}, cache[k]}
              /\ \/ cache' = [c EXCEPT ![n] = {}]
                 \/ /\ cache' = [c EXCEPT ![n] = @ \cup {Head(wire).part}]
                    /\ n = Head(wire).msg /\ c[n] \cup {Head(wire).part} # 1..Parts[n]
    BY <1>t, <2>1, ReceivedKeeps
  <2>3. Head(wire).part \in 1..Parts[Head(wire).msg]
    BY <1>t, <2>1, Ends DEF Typed
  <2>4. \A m \in Msgs : cache'[m] \subseteq 1..Parts[m] /\ cache'[m] # 1..Parts[m]
    <3>1. PICK n \in Msgs, c \in [Msgs -> SUBSET Nat] :
              /\ \A k \in Msgs : c[k] \in {{}, cache[k]}
              /\ \/ cache' = [c EXCEPT ![n] = {}]
                 \/ /\ cache' = [c EXCEPT ![n] = @ \cup {Head(wire).part}]
                    /\ n = Head(wire).msg /\ c[n] \cup {Head(wire).part} # 1..Parts[n]
      BY <2>2
    <3>2. \A k \in Msgs : c[k] \subseteq 1..Parts[k] /\ c[k] # 1..Parts[k]
      BY <1>t, <1>e, <3>1 DEF Flags
    <3>3. \A k \in Msgs : k # n => cache'[k] = c[k]
      BY <3>1
    <3>4. cache'[n] \subseteq 1..Parts[n] /\ cache'[n] # 1..Parts[n]
      <4>1. CASE cache' = [c EXCEPT ![n] = {}]
        BY <1>e, <3>1, <4>1
      <4>2. CASE /\ cache' = [c EXCEPT ![n] = @ \cup {Head(wire).part}]
                 /\ n = Head(wire).msg /\ c[n] \cup {Head(wire).part} # 1..Parts[n]
        <5>1. cache'[n] = c[n] \cup {Head(wire).part} /\ Head(wire).part \in 1..Parts[n]
          BY <2>3, <3>1, <4>2
        <5> QED
          BY <3>2, <4>2, <5>1
      <4> QED
        BY <3>1, <4>1, <4>2
    <3> QED
      BY <3>2, <3>3, <3>4
  <2>5. link' \in {"up", "down", "dead"} /\ (link' # "up" => wire' = <<>>)
    BY <2>2
  <2> QED
    BY <1>t, <2>2, <2>4, <2>5 DEF Flags, sessions
<1>3. CASE Handled
  <2>1. /\ bound' \in Bindings
        /\ \A c \in Convs : bound[c] = Manager => bound'[c] = Manager
    BY <1>3, <1>t, HandledCases
  <2>2. UNCHANGED <<channel, ledger, managed>>
    BY <1>3 DEF Handled
  <2>3. \A c \in managed' : bound'[c] = Manager
    BY <1>t, <2>1, <2>2 DEF Flags, Typed
  <2> QED
    BY <1>t, <2>1, <2>2, <2>3 DEF Flags, channel, Bindings
<1>4. CASE Lives
  <2>1. UNCHANGED channel
    BY <1>4, LivesKeep
  <2>2. ledger' \in [Sessions -> {"none", "active", "ended", "unrecorded", "gone"}]
    BY <1>4, <1>t DEF Flags, Lives, SessionStarts, SessionEnds, SessionResumed, SessionForgotten,
      RuntimeLeaves, Opened, ManagerOpened
  <2>3. \A c \in Convs : bound[c] = Manager => BoundTo(c) = Manager
    BY DEF BoundTo, Exists
  <2>4. /\ bound' \in [Convs -> Takers \cup {None}]
        /\ \A c \in managed' : bound'[c] = Manager
    <3>1. CASE UNCHANGED <<bound, managed>>
      BY <1>t, <3>1 DEF Flags
    <3>2. CASE /\ UNCHANGED managed
               /\ \E s \in Sessions, c \in Convs : ~Conflict(s, c) /\ bound' = [bound EXCEPT ![c] = s]
      <4>1. PICK s \in Sessions, c \in Convs : ~Conflict(s, c) /\ bound' = [bound EXCEPT ![c] = s]
        BY <3>2
      <4>2. bound[c] # Manager
        BY <2>3, <4>1, IngressAssumption DEF Conflict, None
      <4> QED
        BY <1>t, <3>2, <4>1, <4>2 DEF Flags, Takers, Typed
    <3>3. CASE \E c \in Convs : OpensManager(c)
      BY <1>t, <3>3 DEF OpensManager, Flags, Takers, Typed
    <3> QED
      BY <1>4, <3>1, <3>2, <3>3, IngressAssumption
      DEF Lives, SessionStarts, SessionEnds, SessionResumed, SessionForgotten,
      RuntimeLeaves, Opened, ManagerOpened
  <2> QED
    BY <1>t, <2>1, <2>2, <2>4 DEF Flags, channel
<1>5. CASE Restarted
  <2>1. bound' \in [Convs -> Takers \cup {None}] /\ \A c \in managed' : bound'[c] = Manager
    BY <1>5, <1>t DEF Restarted, AtStart, Takers, Typed
  <2>2. \A m \in Msgs : cache'[m] \subseteq 1..Parts[m] /\ cache'[m] # 1..Parts[m]
    BY <1>5, <1>e DEF Restarted
  <2> QED
    BY <1>5, <1>t, <2>1, <2>2 DEF Flags, Restarted
<1>6. CASE UNCHANGED vars
  BY <1>6, <1>t DEF Flags, vars, channel, sessions
<1> QED
  BY <1>1, <1>2, <1>3, <1>4, <1>5, <1>6, NextCases

(* No step gives a Session's conversation to another.                      *)
LEMMA HomesStep == IngressInv /\ [Next]_vars => HomesKept'
<1> SUFFICES ASSUME IngressInv, [Next]_vars PROVE HomesKept'
  OBVIOUS
<1>t. Typed /\ Flags /\ HomesKept /\ bound \in Bindings
  BY DEF IngressInv, Flags, Bindings
<1>a. /\ Manager \notin Sessions /\ None \notin Sessions /\ Console \notin Sessions
      /\ None # Manager /\ Console # Manager
  BY IngressAssumption DEF None, Console
<1>1. CASE UNCHANGED <<bound, managed>>
  BY <1>1, <1>t DEF HomesKept, Homes
<1>2. CASE Handled
  <2>1. \A c \in Convs :
          \/ bound'[c] = bound[c] \/ bound'[c] \in {None, Console}
          \/ bound'[c] \in Sessions /\ bound[c] # Manager /\ (c \notin Homes \/ Home[bound'[c]] = c)
    BY <1>2, <1>t, HandledCases
  <2>2. UNCHANGED managed
    BY <1>2 DEF Handled
  <2> QED
    BY <1>a, <1>t, <2>1, <2>2 DEF HomesKept, Homes
<1>3. CASE Lives
  <2>1. CASE \E s \in Sessions : SessionStarts(s)
    <3>1. PICK s \in Sessions : SessionStarts(s)
      BY <2>1
    <3>2. /\ UNCHANGED managed
          /\ \A c \in Convs : bound'[c] = bound[c] \/ (c = Home[s] /\ bound'[c] = s)
      BY <1>t, <3>1 DEF SessionStarts, Bindings
    <3> QED
      BY <1>a, <1>t, <3>2 DEF HomesKept, Homes
  <2>2. CASE \E s \in Sessions, c \in Convs : Opened(s, c)
    <3>1. PICK s \in Sessions, c \in Convs : Opened(s, c)
      BY <2>2
    <3>2. /\ UNCHANGED managed /\ c \notin Homes
          /\ \A d \in Convs : bound'[d] = bound[d] \/ (d = c /\ bound'[d] = s)
      BY <1>t, <3>1 DEF Opened, Bindings
    <3> QED
      BY <1>a, <1>t, <3>2 DEF HomesKept, Homes
  <2>3. CASE \E c \in Convs : ManagerOpened(c)
    <3>1. PICK c \in Convs : ManagerOpened(c)
      BY <2>3
    <3>2. /\ managed' = managed \cup {c} /\ c \notin Homes
          /\ \A d \in Convs : bound'[d] = bound[d] \/ (d = c /\ bound'[d] = Manager)
      BY <1>t, <3>1 DEF ManagerOpened, OpensManager, Bindings
    <3> QED
      BY <1>a, <1>t, <3>2 DEF HomesKept, Homes
  <2>4. CASE \E s \in Sessions : SessionEnds(s) \/ SessionForgotten(s) \/ RuntimeLeaves(s)
    BY <1>1, <2>4 DEF SessionEnds, SessionForgotten, RuntimeLeaves
  <2>5. CASE \E s \in Sessions : SessionResumed(s)
    <3>1. PICK s \in Sessions : SessionResumed(s)
      BY <2>5
    <3>2. /\ UNCHANGED managed
          /\ \A c \in Convs : bound'[c] = bound[c] \/ (c = Home[s] /\ bound'[c] = s)
      BY <1>t, <3>1 DEF SessionResumed, Bindings
    <3> QED
      BY <1>a, <1>t, <3>2 DEF HomesKept, Homes
  <2> QED
    BY <1>3, <2>1, <2>2, <2>3, <2>4, <2>5 DEF Lives
<1>4. CASE Restarted
  <2>1. managed' = managed /\ bound' = AtStart(managed)
    BY <1>4 DEF Restarted
  <2>2. \A c \in Convs : bound'[c] = IF c \in managed THEN Manager ELSE IF c = Control THEN Console ELSE None
    BY <2>1 DEF AtStart
  <2> QED
    BY <1>a, <1>t, <2>1, <2>2 DEF HomesKept, Homes
<1>5. CASE Links \/ Receives \/ UNCHANGED vars
  <2>1. Receives => UNCHANGED sessions
    BY DEF Receives, FrameHandled, FrameFails, Received
  <2> QED
    BY <1>1, <1>5, <2>1, LinksKeep DEF sessions, vars
<1> QED
  BY <1>2, <1>3, <1>4, <1>5, NextCases

----------------------------------------------------------------------------
(* The window of remembered ids and the log                                *)

LEMMA RemembersIs ==
  ASSUME Typed, Window, NEW m \in Msgs
  PROVE  /\ Len(seen) < Capacity => Remembers(m) = Append(seen, m)
         /\ Len(seen) = Capacity => Remembers(m) = Tail(Append(seen, m))
         /\ Append(seen, m) \in Seq(Msgs) /\ Len(Append(seen, m)) = Len(seen) + 1
         /\ Len(seen) \in Nat /\ Capacity \in Nat \ {0} /\ Len(seen) <= Capacity
         /\ \A j \in 1..Len(seen) : Append(seen, m)[j] = seen[j]
         /\ Append(seen, m)[Len(seen) + 1] = m
<1>1. seen \in Seq(Msgs) /\ Capacity \in Nat \ {0} /\ Len(seen) <= Capacity /\ Len(seen) \in Nat
  BY IngressAssumption DEF Typed, Window
<1>2. /\ Append(seen, m) \in Seq(Msgs) /\ Len(Append(seen, m)) = Len(seen) + 1
      /\ \A j \in 1..Len(seen) : Append(seen, m)[j] = seen[j]
      /\ Append(seen, m)[Len(seen) + 1] = m
  BY <1>1, AppendProperties
<1> QED
  BY <1>1, <1>2 DEF Remembers

LEMMA LogGrows ==
  ASSUME Typed, NEW e \in Entries, log' = Append(log, e)
  PROVE  /\ Len(log') = Len(log) + 1 /\ Len(log) \in Nat
         /\ \A i \in 1..Len(log) : log'[i] = log[i]
         /\ log'[Len(log) + 1] = e
<1>1. log \in Seq(Entries)
  BY DEF Typed
<1> QED
  BY <1>1, AppendProperties

LEMMA TakenInWindow ==
  ASSUME Typed, Window, NEW m \in Msgs, NEW e, Taken(m, e), UNCHANGED lives
  PROVE  Window'
<1> DEFINE n == Len(seen)
           N == Len(log)
<1>1. /\ e \in Entries /\ e.msg = m /\ e.life = lives /\ m \notin ToSet(seen)
      /\ seen' = Remembers(m) /\ log' = Append(log, e)
  BY DEF Taken
<1>2. /\ n < Capacity => seen' = Append(seen, m)
      /\ n = Capacity => seen' = Tail(Append(seen, m))
      /\ Append(seen, m) \in Seq(Msgs) /\ Len(Append(seen, m)) = n + 1
      /\ n \in Nat /\ Capacity \in Nat \ {0} /\ n <= Capacity
      /\ \A j \in 1..n : Append(seen, m)[j] = seen[j]
      /\ Append(seen, m)[n + 1] = m
  BY <1>1, RemembersIs
<1>3. /\ Len(log') = N + 1 /\ N \in Nat /\ lives \in Nat
      /\ \A i \in 1..N : log'[i] = log[i]
      /\ log'[N + 1] = e
  BY <1>1, LogGrows DEF Typed
<1>4. /\ n <= N
      /\ \A j \in 1..n : seen[j] = log[N - n + j].msg /\ seen[j] # m
      /\ \A j, k \in 1..n : seen[j] = seen[k] => j = k
      /\ \A i \in 1..N : log[i].life <= lives
      /\ n < Capacity => \A i \in 1..N : log[i].life = lives => N - n < i
  <2>1. \A j \in 1..n : seen[j] \in ToSet(seen)
    BY DEF Typed, ToSet
  <2>2. \A j \in 1..n : seen[j] = log[N - n + j].msg
    BY DEF Window
  <2> QED
    BY <1>1, <2>1, <2>2 DEF Window
<1>5. \A i \in 1..Len(log') : log'[i].life <= lives'
  <2> TAKE i \in 1..Len(log')
  <2>1. i \in 1..N \/ i = N + 1
    BY <1>3
  <2> QED
    BY <1>1, <1>3, <1>4, <2>1
<1>6. CASE n < Capacity
  <2>1. seen' = Append(seen, m) /\ Len(seen') = n + 1
    BY <1>2, <1>6
  <2>2. \A j \in 1..Len(seen') : seen'[j] = log'[Len(log') - Len(seen') + j].msg
    <3> TAKE j \in 1..Len(seen')
    <3>1. CASE j \in 1..n
      <4>1. N - n + j \in 1..N /\ Len(log') - Len(seen') + j = N - n + j
        BY <1>2, <1>3, <1>4, <2>1, <3>1
      <4>2. seen'[j] = seen[j] /\ log'[N - n + j] = log[N - n + j]
        BY <1>2, <1>3, <2>1, <3>1, <4>1
      <4>3. seen[j] = log[N - n + j].msg
        BY <1>4, <3>1
      <4> QED
        BY <4>1, <4>2, <4>3
    <3>2. CASE j = n + 1
      <4>1. Len(log') - Len(seen') + j = N + 1
        BY <1>2, <1>3, <2>1, <3>2
      <4> QED
        BY <1>1, <1>2, <1>3, <2>1, <3>2, <4>1
    <3> QED
      BY <1>2, <2>1, <3>1, <3>2
  <2>3. \A j, k \in 1..Len(seen') : seen'[j] = seen'[k] => j = k
    <3>1. \A j \in 1..Len(seen') : j \in 1..n \/ j = n + 1
      BY <1>2, <2>1
    <3> QED
      BY <1>2, <1>4, <2>1, <3>1
  <2>4. \A i \in 1..Len(log') : log'[i].life = lives' => Len(log') - Len(seen') < i
    <3> TAKE i \in 1..Len(log')
    <3>1. i \in 1..N \/ i = N + 1
      BY <1>3
    <3>2. Len(log') - Len(seen') = N - n
      BY <1>2, <1>3, <2>1
    <3> QED
      BY <1>2, <1>3, <1>4, <1>6, <3>1, <3>2
  <2>5. Len(seen') <= Capacity /\ Len(seen') <= Len(log')
    BY <1>2, <1>3, <1>4, <1>6, <2>1
  <2> QED
    BY <1>5, <2>2, <2>3, <2>4, <2>5 DEF Window
<1>7. CASE n = Capacity
  <2>1. /\ seen' = Tail(Append(seen, m)) /\ Len(seen') = n /\ Append(seen, m) # <<>>
        /\ \A j \in 1..n : seen'[j] = Append(seen, m)[j + 1]
    <3>1. seen' = Tail(Append(seen, m)) /\ Append(seen, m) # <<>>
      BY <1>2, <1>7
    <3>2. /\ Len(Tail(Append(seen, m))) = n + 1 - 1
          /\ \A j \in 1..Len(Tail(Append(seen, m))) : Tail(Append(seen, m))[j] = Append(seen, m)[j + 1]
      BY <1>2, <3>1, Ends
    <3> QED
      BY <1>2, <3>1, <3>2
  <2>2. \A j \in 1..n : IF j = n THEN seen'[j] = m ELSE j + 1 \in 1..n /\ seen'[j] = seen[j + 1]
    BY <1>2, <2>1
  <2>3. \A j \in 1..Len(seen') : seen'[j] = log'[Len(log') - Len(seen') + j].msg
    <3>0. Len(seen') = n /\ Len(log') = N + 1 /\ n \in Nat /\ N \in Nat /\ n <= N
      BY <1>2, <1>3, <1>4, <2>1
    <3>1. \A j \in 1..n : seen'[j] = log'[(N + 1) - n + j].msg
      <4> TAKE j \in 1..n
      <4>1. CASE j # n
        <5>1. N - n + (j + 1) \in 1..N /\ (N + 1) - n + j = N - n + (j + 1)
          BY <3>0, <4>1
        <5>2. seen'[j] = seen[j + 1] /\ j + 1 \in 1..n
          BY <2>2, <4>1
        <5>3. seen[j + 1] = log[N - n + (j + 1)].msg
          BY <1>4, <5>2
        <5> QED
          BY <1>3, <5>1, <5>2, <5>3
      <4>2. CASE j = n
        <5>1. (N + 1) - n + j = N + 1
          BY <3>0, <4>2
        <5> QED
          BY <1>1, <1>3, <2>2, <4>2, <5>1
      <4> QED
        BY <4>1, <4>2
    <3> QED
      BY <3>0, <3>1
  <2>4. \A j, k \in 1..Len(seen') : seen'[j] = seen'[k] => j = k
    <3> SUFFICES ASSUME NEW j \in 1..n, NEW k \in 1..n, seen'[j] = seen'[k] PROVE j = k
      BY <2>1
    <3>0. \A i \in 1..n : i # n => seen'[i] # m
      <4> TAKE i \in 1..n
      <4>1. i # n => seen'[i] = seen[i + 1] /\ i + 1 \in 1..n
        BY <2>2
      <4> QED
        BY <1>4, <4>1
    <3>1. CASE j = n \/ k = n
      <4>1. j = n => seen'[j] = m
        BY <2>2
      <4>2. k = n => seen'[k] = m
        BY <2>2
      <4> QED
        BY <3>0, <3>1, <4>1, <4>2
    <3>2. CASE j # n /\ k # n
      <4>1. seen[j + 1] = seen[k + 1] /\ j + 1 \in 1..n /\ k + 1 \in 1..n
        BY <2>2, <3>2
      <4>2. j + 1 = k + 1
        BY <1>4, <4>1
      <4> QED
        BY <1>2, <4>2
    <3> QED
      BY <3>1, <3>2
  <2>5. Len(seen') <= Capacity /\ Len(seen') <= Len(log') /\ ~(Len(seen') < Capacity)
    BY <1>2, <1>3, <1>4, <1>7, <2>1
  <2> QED
    BY <1>5, <2>3, <2>4, <2>5 DEF Window
<1> QED
  BY <1>2, <1>6, <1>7

LEMMA WindowStep == IngressInv /\ [Next]_vars => Window'
<1> SUFFICES ASSUME IngressInv, [Next]_vars PROVE Window'
  OBVIOUS
<1>t. Typed /\ Flags /\ HomesKept /\ bound \in Bindings /\ Window
  BY DEF IngressInv, Flags, Bindings
<1>1. CASE Handled
  <2>1. \/ UNCHANGED <<seen, bound, log>>
        \/ Head(tasks) \in Msgs /\ \E e \in Entries : Taken(Head(tasks), e)
    BY <1>1, <1>t, HandledCases
  <2>2. UNCHANGED lives
    BY <1>1 DEF Handled
  <2> QED
    BY <1>t, <2>1, <2>2, TakenInWindow DEF Window
<1>2. CASE Restarted
  <2>1. seen' = <<>> /\ log' = log /\ lives' = lives + 1
    BY <1>2 DEF Restarted
  <2>2. Len(seen') = 0 /\ Len(log) \in Nat /\ lives \in Nat /\ Capacity \in Nat \ {0}
        /\ \A i \in 1..Len(log) : log[i].life \in Nat
    <3>1. \A i \in 1..Len(log) : log[i] \in Entries
      BY <1>t DEF Typed
    <3> QED
      BY <1>t, <2>1, <3>1, IngressAssumption DEF Typed, Entries
  <2>3. \A i \in 1..Len(log) : log[i].life <= lives' /\ log[i].life # lives'
    <3>1. \A i \in 1..Len(log) : log[i].life <= lives
      BY <1>t DEF Window
    <3> QED
      BY <2>1, <2>2, <3>1
  <2>4. Len(seen') <= Capacity /\ Len(seen') <= Len(log') /\ 1..Len(seen') = {}
    BY <2>1, <2>2
  <2> QED
    BY <2>1, <2>3, <2>4 DEF Window
<1>3. CASE UNCHANGED <<seen, log, lives>>
  BY <1>t, <1>3 DEF Window
<1>4. Receives => UNCHANGED <<seen, log, lives>>
  BY DEF Receives, FrameHandled, FrameFails, Received
<1> QED
  BY <1>1, <1>2, <1>3, <1>4, NextCases, LinksKeep, LivesKeep DEF vars

----------------------------------------------------------------------------
(* The properties, step by step                                            *)

(* A message whose id has left the window, or that was taken in an earlier *)
(* life, has Capacity others between.                                      *)
LEMMA TakenOnce ==
  ASSUME Typed, Window, ExecutedOnce, NEW m \in Msgs, NEW e, Taken(m, e)
  PROVE  ExecutedOnce'
<1> DEFINE n == Len(seen)
           N == Len(log)
<1>1. /\ e \in Entries /\ e.msg = m /\ e.life = lives /\ m \notin ToSet(seen)
      /\ log' = Append(log, e)
  BY DEF Taken
<1>2. /\ Len(log') = N + 1 /\ N \in Nat /\ DOMAIN log' = 1..N + 1 /\ DOMAIN log = 1..N
      /\ \A i \in 1..N : log'[i] = log[i]
      /\ log'[N + 1] = e /\ log \in Seq(Entries)
  <2>1. log \in Seq(Entries) /\ log' \in Seq(Entries)
    BY <1>1, AppendProperties DEF Typed
  <2> QED
    BY <1>1, <2>1, LogGrows
<1>3. /\ seen \in Seq(Msgs) /\ n \in Nat /\ n <= N /\ n <= Capacity /\ Capacity \in Nat
      /\ \A j \in 1..n : seen[j] = log[N - n + j].msg
      /\ \A j, k \in 1..n : seen[j] = seen[k] => j = k
  BY IngressAssumption DEF Typed, Window
<1>4. n < Capacity => \A i \in 1..N : log[i].life = lives => N - n < i
  BY DEF Window
<1>5. \A j \in 1..n : seen[j] # m
  <2>1. \A j \in 1..n : seen[j] \in ToSet(seen)
    BY <1>3 DEF ToSet
  <2> QED
    BY <1>1, <2>1
<1>6. ASSUME NEW i \in 1..N, log[i].msg = m
      PROVE  i <= N - n
  <2>1. SUFFICES ASSUME N - n < i PROVE FALSE
    BY <1>2, <1>3
  <2>2. i - (N - n) \in 1..n /\ N - n + (i - (N - n)) = i
    BY <1>2, <1>3, <2>1
  <2>3. seen[i - (N - n)] = log[i].msg
    BY <1>3, <2>2
  <2> QED
    BY <1>5, <1>6, <2>2, <2>3
<1>7. ASSUME NEW i \in 1..N, log[i].msg = m, log[i].life = lives
      PROVE  Cardinality({log'[k].msg : k \in i + 1 .. N}) >= Capacity
  <2>1. i <= N - n /\ n = Capacity
    BY <1>3, <1>4, <1>6, <1>7
  <2> DEFINE D == i + 1 .. N
             g == [k \in D |-> log'[k].msg]
             T == {log'[k].msg : k \in D}
  <2>2. IsFiniteSet(D)
    BY <1>2, FS_Interval
  <2>3. g \in Surjection(D, T)
    BY DEF Surjection
  <2>4. IsFiniteSet(T)
    BY <2>2, <2>3, FS_Surjection
  <2>5. ToSet(seen) \subseteq T
    <3>1. \A j \in 1..n : seen[j] \in T
      <4> TAKE j \in 1..n
      <4>1. N - n + j \in D /\ N - n + j \in 1..N
        BY <1>2, <1>3, <2>1
      <4>2. seen[j] = log'[N - n + j].msg
        BY <1>2, <1>3, <4>1
      <4> QED
        BY <4>1, <4>2
    <3> HIDE DEF T
    <3> QED
      BY <1>3, <3>1 DEF ToSet
  <2>6. Cardinality(ToSet(seen)) = n
    BY <1>3, DistinctCount
  <2>7. Cardinality(T) \in Nat /\ Cardinality(ToSet(seen)) <= Cardinality(T)
    BY <2>4, <2>5, FS_Subset, FS_CardinalityType
  <2> QED
    BY <1>3, <2>1, <2>6, <2>7
<1>8. ASSUME NEW i \in 1..N, NEW j \in 1..N, i < j, log[i].msg = log[j].msg, log[i].life = log[j].life
      PROVE  Cardinality({log'[k].msg : k \in i + 1 .. j - 1}) >= Capacity
  <2>1. \A k \in i + 1 .. j - 1 : k \in 1..N
    BY <1>2
  <2>2. {log'[k].msg : k \in i + 1 .. j - 1} = {log[k].msg : k \in i + 1 .. j - 1}
    BY <1>2, <2>1
  <2> QED
    BY <1>2, <1>8, <2>2 DEF ExecutedOnce
<1>9. SUFFICES ASSUME NEW i \in 1..N + 1, NEW j \in 1..N + 1, i < j,
                      log'[i].msg = log'[j].msg, log'[i].life = log'[j].life
               PROVE  Cardinality({log'[k].msg : k \in i + 1 .. j - 1}) >= Capacity
  BY <1>2 DEF ExecutedOnce
<1>10. i \in 1..N
  BY <1>2, <1>9
<1>11. CASE j = N + 1
  <2>1. log[i].msg = m /\ log[i].life = lives /\ j - 1 = N
    BY <1>1, <1>2, <1>9, <1>10, <1>11
  <2> QED
    BY <1>7, <1>10, <2>1
<1>12. CASE j # N + 1
  BY <1>2, <1>8, <1>9, <1>10, <1>12
<1> QED
  BY <1>11, <1>12

LEMMA ExecutedStep == IngressInv /\ [Next]_vars => ExecutedOnce'
<1> SUFFICES ASSUME IngressInv, [Next]_vars PROVE ExecutedOnce'
  OBVIOUS
<1>t. Typed /\ Flags /\ HomesKept /\ bound \in Bindings /\ Window /\ ExecutedOnce
  BY DEF IngressInv, Flags, Bindings
<1>1. CASE UNCHANGED log
  BY <1>t, <1>1 DEF ExecutedOnce
<1>2. CASE Handled
  <2>1. \/ UNCHANGED log
        \/ Head(tasks) \in Msgs /\ \E e \in Entries : Taken(Head(tasks), e)
    BY <1>2, <1>t, HandledCases
  <2> QED
    BY <1>1, <1>t, <2>1, TakenOnce
<1>3. Receives \/ Restarted => UNCHANGED log
  BY DEF Receives, FrameHandled, FrameFails, Received, Restarted
<1> QED
  BY <1>1, <1>2, <1>3, NextCases, LinksKeep, LivesKeep DEF vars

LEMMA RepliesStep == IngressInv /\ [Next]_vars => RepliesReachSession'
<1> SUFFICES ASSUME IngressInv, [Next]_vars PROVE RepliesReachSession'
  OBVIOUS
<1>t. Typed /\ Flags /\ HomesKept /\ bound \in Bindings /\ RepliesReachSession
  BY DEF IngressInv, Flags, Bindings
<1>1. CASE UNCHANGED log
  BY <1>t, <1>1 DEF RepliesReachSession
<1>2. CASE \E e \in Entries : Taken(Head(tasks), e)
  <2>1. PICK e \in Entries : Taken(Head(tasks), e)
    BY <1>2
  <2>2. log' = Append(log, e) /\ (e.stored # {} => e.to \in e.stored)
    BY <2>1 DEF Taken
  <2>3. /\ log \in Seq(Entries) /\ log' \in Seq(Entries) /\ Len(log') = Len(log) + 1
        /\ \A i \in 1..Len(log) : log'[i] = log[i]
        /\ log'[Len(log) + 1] = e
    BY <1>t, <2>2, AppendProperties DEF Typed
  <2>4. \A i \in DOMAIN log' : i \in DOMAIN log \/ i = Len(log) + 1
    BY <2>3
  <2> QED
    BY <1>t, <2>2, <2>3, <2>4 DEF RepliesReachSession
<1>3. Handled => UNCHANGED log \/ \E e \in Entries : Taken(Head(tasks), e)
  BY <1>t, HandledCases
<1>4. Receives \/ Restarted => UNCHANGED log
  BY DEF Receives, FrameHandled, FrameFails, Received, Restarted
<1> QED
  BY <1>1, <1>2, <1>3, <1>4, NextCases, LinksKeep, LivesKeep DEF vars

(* The messages of the tasks and of the log                                *)
Given(m)  == m \in ToSet(tasks) \/ \E i \in DOMAIN log : log[i].msg = m

(* A message given to the main loop stays given while the daemon lives:    *)
(* it is taken, or it is dropped because its id is in the window, and then *)
(* the log has it.                                                         *)
LEMMA GivenStays ==
  ASSUME IngressInv, Handled, NEW m \in Msgs, Given(m)
  PROVE  Given(m)'
<1>t. Typed /\ Flags /\ HomesKept /\ bound \in Bindings /\ Window
  BY DEF IngressInv, Flags, Bindings
<1>1. /\ tasks # <<>> /\ Head(tasks) \in Msgs /\ tasks' = Tail(tasks)
      /\ \/ Head(tasks) \in ToSet(seen) /\ UNCHANGED <<seen, bound, log>>
         \/ \E e \in Entries : Taken(Head(tasks), e)
  BY <1>t, HandledCases
<1>2. /\ log \in Seq(Entries) /\ seen \in Seq(Msgs) /\ tasks \in Seq(Msgs \ Ignored)
      /\ Len(seen) \in Nat /\ Len(log) \in Nat /\ Len(seen) <= Len(log)
  BY <1>t DEF Typed, Window
<1>3. \A i \in DOMAIN log : i \in DOMAIN log' /\ log'[i] = log[i]
  <2>1. CASE UNCHANGED log
    BY <2>1
  <2>2. CASE \E e \in Entries : Taken(Head(tasks), e)
    <3>1. PICK e \in Entries : log' = Append(log, e)
      BY <2>2 DEF Taken
    <3>2. /\ log' \in Seq(Entries) /\ Len(log') = Len(log) + 1
          /\ \A i \in 1..Len(log) : log'[i] = log[i]
      BY <1>2, <3>1, AppendProperties
    <3> QED
      BY <1>2, <3>2
  <2> QED
    BY <1>1, <2>1, <2>2
<1>4. CASE \E i \in DOMAIN log : log[i].msg = m
  BY <1>3, <1>4 DEF Given
<1>5. CASE m \in ToSet(tasks) /\ m # Head(tasks)
  <2>1. PICK i \in 1..Len(tasks) : tasks[i] = m
    BY <1>2, <1>5 DEF ToSet
  <2>2. /\ Len(Tail(tasks)) = Len(tasks) - 1 /\ Head(tasks) = tasks[1] /\ Len(tasks) \in Nat
        /\ \A k \in 1..Len(Tail(tasks)) : Tail(tasks)[k] = tasks[k + 1]
        /\ DOMAIN Tail(tasks) = 1..Len(Tail(tasks))
    BY <1>1, <1>2, Ends
  <2>3. i - 1 \in 1..Len(Tail(tasks)) /\ (i - 1) + 1 = i
    BY <1>5, <2>1, <2>2
  <2>4. Tail(tasks)[i - 1] = m
    BY <2>1, <2>2, <2>3
  <2> QED
    BY <1>1, <2>2, <2>3, <2>4 DEF Given, ToSet
<1>6. CASE m = Head(tasks) /\ m \in ToSet(seen)
  <2>1. PICK j \in 1..Len(seen) : seen[j] = m
    BY <1>2, <1>6 DEF ToSet
  <2>2. Len(log) - Len(seen) + j \in DOMAIN log /\ seen[j] = log[Len(log) - Len(seen) + j].msg
    BY <1>2, <1>t DEF Window
  <2> QED
    BY <1>4, <2>1, <2>2
<1>7. CASE m = Head(tasks) /\ m \notin ToSet(seen)
  <2>1. PICK e \in Entries : log' = Append(log, e) /\ e.msg = m
    BY <1>1, <1>7 DEF Taken
  <2>2. /\ log' \in Seq(Entries) /\ Len(log') = Len(log) + 1 /\ log'[Len(log) + 1] = e
    BY <1>2, <2>1, AppendProperties
  <2>3. Len(log) + 1 \in DOMAIN log'
    BY <1>2, <2>2
  <2> QED
    BY <2>1, <2>2, <2>3 DEF Given
<1> QED
  BY <1>4, <1>5, <1>6, <1>7 DEF Given

LEMMA AckedStep == IngressInv /\ [Next]_vars => AckedIsTaken'
<1> SUFFICES ASSUME IngressInv, [Next]_vars,
                    lives' = 1, NEW m \in Msgs \ Ignored, server'[m] = "acked"
             PROVE  Given(m)'
  BY DEF AckedIsTaken, Given
<1>t. Typed /\ Flags /\ HomesKept /\ bound \in Bindings /\ AckedIsTaken
  BY DEF IngressInv, Flags, Bindings
<1>0. lives = 1 /\ server[m] = "acked" => Given(m)
  BY <1>t DEF AckedIsTaken, Given
<1>1. CASE UNCHANGED <<server, tasks, log, lives>>
  BY <1>0, <1>1 DEF Given
<1>2. CASE Links
  <2>1. /\ UNCHANGED <<tasks, log, lives>>
        /\ \/ UNCHANGED server
           \/ \E n \in Msgs : server[n] = "unsent" /\ server' = [server EXCEPT ![n] = "pending"]
    BY <1>2, LinksKeep
  <2>2. server[m] = "acked"
    BY <1>t, <2>1 DEF Typed
  <2> QED
    BY <1>0, <2>1, <2>2 DEF Given
<1>3. CASE Receives
  <2>1. PICK expired \in SUBSET Msgs, ok \in BOOLEAN, raises \in BOOLEAN :
          wire # <<>> /\ Received(expired, ok, raises)
    BY <1>3, <1>t, ReceivesCases
  <2> DEFINE n == Head(wire).msg
  <2>2. /\ n \in Msgs /\ UNCHANGED <<log, lives>>
        /\ UNCHANGED tasks \/ (n \notin Ignored /\ tasks' = Append(tasks, n))
        /\ \/ UNCHANGED server
           \/ /\ server' = [server EXCEPT ![n] = "acked"]
              /\ n \notin Ignored => tasks' = Append(tasks, n)
    BY <1>t, <2>1, ReceivedKeeps
  <2>3. tasks' = Append(tasks, n) /\ n \in Msgs \ Ignored =>
          n \in ToSet(tasks)' /\ \A k \in Msgs : k \in ToSet(tasks) => k \in ToSet(tasks)'
    <3> SUFFICES ASSUME tasks' = Append(tasks, n), n \in Msgs \ Ignored
                 PROVE  n \in ToSet(tasks)' /\ ToSet(tasks) \subseteq ToSet(tasks)'
      OBVIOUS
    <3> DEFINE T == Msgs \ Ignored
    <3>1. tasks \in Seq(T) /\ n \in T
      BY <1>t DEF Typed
    <3>2. /\ tasks' \in Seq(T) /\ Len(tasks') = Len(tasks) + 1 /\ tasks'[Len(tasks) + 1] = n
          /\ \A i \in 1..Len(tasks) : tasks'[i] = tasks[i]
      BY <3>1, AppendProperties
    <3> HIDE DEF T
    <3>3. DOMAIN tasks' = 1..Len(tasks) + 1 /\ DOMAIN tasks = 1..Len(tasks) /\ Len(tasks) \in Nat
      BY <3>1, <3>2
    <3> QED
      BY <3>2, <3>3 DEF ToSet
  <2>4. Given(m) => Given(m)'
    BY <2>2, <2>3 DEF Given
  <2>5. CASE m = n /\ server[m] # "acked"
    BY <2>2, <2>3, <2>5 DEF Given
  <2>6. CASE m # n \/ server[m] = "acked"
    <3>1. server[m] = "acked"
      BY <1>t, <2>2, <2>6 DEF Typed
    <3> QED
      BY <1>0, <2>2, <2>4, <3>1
  <2> QED
    BY <2>5, <2>6
<1>4. CASE Handled
  <2>1. UNCHANGED <<server, lives>>
    BY <1>4 DEF Handled, channel
  <2> QED
    BY <1>0, <1>4, <2>1, GivenStays
<1>5. CASE Lives
  BY <1>1, <1>5, LivesKeep DEF channel
<1>6. CASE Restarted
  BY <1>6, <1>t DEF Restarted, Typed
<1> QED
  BY <1>1, <1>2, <1>3, <1>4, <1>5, <1>6, NextCases DEF vars, channel

----------------------------------------------------------------------------
(* The theorems                                                            *)

LEMMA IngressStep == IngressInv /\ [Next]_vars => IngressInv'
BY TypedStep, FlagsStep, WindowStep, HomesStep, ExecutedStep, AckedStep, RepliesStep DEF IngressInv

(* What the variables of the channel and the routing say, always holds: no *)
(* event is left half gathered, the window of ids holds each once, within  *)
(* its capacity, and every message taken went to one taker.                *)
THEOREM Consistent == Spec => []IngressConsistent
<1>1. IngressInv => IngressConsistent
  BY ConsistentIs DEF IngressInv
<1> QED
  BY <1>1, IngressInit, IngressStep, PTL DEF Spec

(* However often a message is pushed, in fragments and over connections    *)
(* that break, it is executed once while its id is remembered.             *)
THEOREM Once == Spec => []ExecutedOnce
<1>1. IngressInv => ExecutedOnce
  BY DEF IngressInv
<1> QED
  BY <1>1, IngressInit, IngressStep, PTL DEF Spec

(* A message that is acknowledged was given to the main loop whole.        *)
THEOREM Acked == Spec => []AckedIsTaken
<1>1. IngressInv => AckedIsTaken
  BY DEF IngressInv
<1> QED
  BY <1>1, IngressInit, IngressStep, PTL DEF Spec

(* A reply in a conversation goes to the Session whose record has it.      *)
THEOREM Replies == Spec => []RepliesReachSession
<1>1. IngressInv => RepliesReachSession
  BY DEF IngressInv
<1> QED
  BY <1>1, IngressInit, IngressStep, PTL DEF Spec

-----------------------------------------------------------------------------
(***************************************************************************)
(* LiveCard, where a turn is what three parts show of it: its presentation *)
(* c, the cards s of the conversation, and the items x of the pool.        *)
(***************************************************************************)
Bodies     == Seq(1..MaxTexts)
Versions   == [card : Nat, body : Bodies]
Loops      == {"none", "idle", "window", "draining", "over"}
Finishings == {"no", "status", "flush", "joining", "last", "closed"}
Locks      == {<<>>, <<"loop">>, <<"finish">>, <<"loop", "finish">>, <<"finish", "loop">>}

Presentations ==
  [mode : Modes, fed : 0..MaxTexts, body : Bodies, status : {"running", "done"}, id : Nat,
   dirty : BOOLEAN, closed : BOOLEAN, pending : BOOLEAN, loop : Loops, finish : Finishings,
   lock : Locks, inside : BOOLEAN, rolls : SUBSET Versions, raced : BOOLEAN]

OfPool == {"feed", "finish"}
OfCard == {"emit", "send"}

Projections == [turn : Turns, does : OfPool]
CallItems   == [turn : Turns, does : Calls, card : Nat, content : Contents]
PoolItems   == Projections \cup CallItems

CardTyped ==
  /\ live \in [Turns -> Presentations] /\ cards \in [Turns -> Seq(Contents)]
  /\ pool \in Seq(PoolItems) /\ failures \in 0..MaxFailures

(* The items of a turn in the queue q                                      *)
ItemsOf(q, t) == {q[k] : k \in {n \in DOMAIN q : q[n].turn = t}}

(* Two of them would be one too many.                                      *)
Alike(i, j) == (i.does \in OfPool /\ j.does \in OfPool) \/ (i.does \in OfCard /\ j.does \in OfCard)

Lone(q) == \A k, l \in DOMAIN q : q[k].turn = q[l].turn /\ Alike(q[k], q[l]) => k = l

Single(x) == \A i, j \in x : Alike(i, j) => i = j

Does(x, kinds) == \E i \in x : i.does \in kinds
CallsOf(x)     == {i \in x : i.does \in Calls}

(* The tasks and the lock                                                  *)
Locked(c) ==
  /\ "loop" \in ToSet(c.lock) <=> c.loop = "draining"
  /\ "finish" \in ToSet(c.lock) <=> c.finish \in {"status", "flush", "last"}
  /\ c.finish \in {"last", "closed"} => c.loop \in {"none", "over"}
  /\ c.inside /\ c.lock # <<>> /\ Head(c.lock) = "finish" => ~c.dirty
  /\ c.finish = "closed" => ~c.dirty

(* The modes                                                               *)
OfMode(c) ==
  /\ c.mode = "direct" => /\ c.lock = <<>> /\ c.loop = "none" /\ c.finish \in {"no", "closed"}
                          /\ c.body = <<>> /\ ~c.dirty
  /\ c.mode # "card" => c.id = NoCard /\ c.rolls = {} /\ c.status = "running"
  /\ c.mode = "card" => (c.status = "done" <=> c.finish # "no")

(* What is under way                                                       *)
Busy(c, x) ==
  /\ c.inside <=> Does(x, OfCard)
  /\ Does(x, {"emit"}) => c.mode # "direct" /\ c.lock # <<>>
  /\ Does(x, {"send"}) => c.mode = "direct" /\ Does(x, {"feed"})
  /\ Does(x, {"feed"}) => c.finish = "no" /\ (c.fed < MaxTexts \/ Does(x, {"send"}))
  /\ Does(x, {"roll"}) => c.mode = "card"

(* Cards that are referred to are there.                                   *)
Numbered(c, s, x) ==
  /\ c.id <= Len(s)
  /\ \A i \in CallsOf(x) : i.card <= Len(s)
  /\ \A r \in c.rolls : r.card \in 1..Len(s)

Consecutive(b) == \A k \in DOMAIN b : b[k] = b[1] + k - 1

(* Texts are in order, and the last one fed is the last one gathered.      *)
Worded(c, s, x) ==
  /\ Consecutive(c.body)
  /\ \A j \in DOMAIN s : Consecutive(s[j].body)
  /\ \A i \in CallsOf(x) : Consecutive(i.content.body)
  /\ \A r \in c.rolls : Consecutive(r.body)
  /\ c.body # <<>> => c.body[Len(c.body)] = c.fed
  /\ c.mode = "card" /\ c.fed > 0 => c.body # <<>>
  /\ c.mode = "text" /\ ~c.dirty => c.body = <<>>

(* An outcome comes with the end of the output.                            *)
Whole(c, card) ==
  card.status = "done" /\ ~card.next =>
    c.finish # "no" /\ (c.fed > 0 => card.body # <<>> /\ card.body[Len(card.body)] = c.fed)

Ended(c, s, x) ==
  /\ \A j \in DOMAIN s : Whole(c, s[j])
  /\ \A i \in CallsOf(x) : Whole(c, i.content) /\ (i.content.next <=> i.does = "roll")

(* The versions of the cards that are or will be shown; the texts gathered *)
(* now are for the current one.                                            *)
Version(card, body) == [card |-> card, body |-> body]
Current(c, s) ==
  IF c.id # NoCard THEN c.id ELSE IF c.mode = "text" /\ c.inside THEN Len(s) + 2 ELSE Len(s) + 1
Target(s, i)  == IF i.card = NoCard THEN Len(s) + 1 ELSE i.card
Of(c, s, x, v) ==
  \/ \E j \in DOMAIN s : v = Version(j, s[j].body)
  \/ \E i \in CallsOf(x) : v = Version(Target(s, i), i.content.body)
  \/ v \in c.rolls
  \/ v = Version(Current(c, s), c.body)

Before(a, b) == \A k \in ToSet(a), l \in ToSet(b) : k < l
UpTo(a, n)   == \A k \in ToSet(a) : k <= n

Numbers(c, s, x) ==
  /\ c.id \in {NoCard, Len(s)}
  /\ \A i \in CallsOf(x) : i.card = NoCard => c.id = NoCard /\ i.does # "roll"
  /\ c.mode # "card" => \A i \in CallsOf(x) : i.card = NoCard

Ordered(c, s, x) ==
  /\ Numbers(c, s, x)
  /\ \A v, w \in Versions : Of(c, s, x, v) /\ Of(c, s, x, w) /\ v.card < w.card => Before(v.body, w.body)
  /\ \A v \in Versions : Of(c, s, x, v) => UpTo(v.body, c.fed)

(* The last patch of card n with the texts b is due or under way.          *)
Due(c, x, n, b) ==
  \/ Version(n, b) \in c.rolls
  \/ \E i \in x : i.does = "roll" /\ i.card = n /\ i.content.body = b

Final(c) == [body |-> c.body, status |-> c.status, next |-> FALSE]

(* Every text is gathered, or due for a card, or on one that is continued. *)
KeptOnCards(c, s, x) ==
  /\ \A k \in 1..c.fed : \/ k \in ToSet(c.body)
                         \/ \E n \in Nat, b \in Bodies : Due(c, x, n, b) /\ k \in ToSet(b)
                         \/ \E j \in DOMAIN s : s[j].next /\ k \in ToSet(s[j].body)
  /\ \A j \in DOMAIN s : j = c.id \/ s[j].next \/ \E b \in Bodies : Due(c, x, j, b)
  /\ \A n \in Nat, b \in Bodies : Due(c, x, n, b) =>
       /\ n # c.id /\ n \in DOMAIN s
       /\ s[n].next => s[n].body = b
       /\ \A d \in Bodies : Due(c, x, n, d) => d = b
  /\ c.id # NoCard => ~s[c.id].next
  /\ \A i \in x : i.does = "emit" => i.card \in {NoCard, c.id}
  /\ ~c.dirty /\ (c.fed > 0 \/ c.status = "done") =>
       IF c.inside THEN \A i \in x : i.does = "emit" => i.content = Final(c)
       ELSE c.id # NoCard /\ s[c.id] = Final(c)

KeptInMessages(c, s, x) ==
  \A k \in 1..c.fed : \/ k \in ToSet(c.body)
                      \/ \E i \in CallsOf(x) : k \in ToSet(i.content.body)
                      \/ \E j \in DOMAIN s : k \in ToSet(s[j].body)

Kept(c, s, x) == IF c.mode = "card" THEN KeptOnCards(c, s, x) ELSE KeptInMessages(c, s, x)

Sound(c, s, x, ok) ==
  /\ Locked(c) /\ OfMode(c) /\ Busy(c, x) /\ Numbered(c, s, x)
  /\ Worded(c, s, x) /\ Ended(c, s, x)
  /\ ok => Ordered(c, s, x)
  /\ ok /\ ~c.raced => Kept(c, s, x)

Unfailed == failures = 0

CardInv ==
  /\ CardTyped /\ Lone(pool)
  /\ \A t \in Turns : Sound(live[t], cards[t], ItemsOf(pool, t), Unfailed)

----------------------------------------------------------------------------
(* Sequences                                                               *)

(* What Append makes, and what RemoveAt leaves: each place of the new      *)
(* sequence is one of the old, but for the place that is removed, and no   *)
(* two places are the same.                                                *)
LEMMA Appends ==
  ASSUME NEW T, NEW q \in Seq(T), NEW e \in T
  PROVE  /\ Append(q, e) \in Seq(T) /\ Len(Append(q, e)) = Len(q) + 1
         /\ DOMAIN Append(q, e) = 1..(Len(q) + 1) /\ DOMAIN q = 1..Len(q) /\ Len(q) \in Nat
         /\ Append(q, e)[Len(q) + 1] = e
         /\ \A k \in DOMAIN q : Append(q, e)[k] = q[k]
OBVIOUS

Moved(k, i) == IF k < i THEN k ELSE k + 1

LEMMA Removes ==
  ASSUME NEW T, NEW q \in Seq(T), NEW i \in DOMAIN q
  PROVE  /\ RemoveAt(q, i) \in Seq(T)
         /\ \A k \in DOMAIN RemoveAt(q, i) :
              /\ Moved(k, i) \in DOMAIN q /\ Moved(k, i) # i
              /\ RemoveAt(q, i)[k] = q[Moved(k, i)]
         /\ \A k, l \in DOMAIN RemoveAt(q, i) : Moved(k, i) = Moved(l, i) => k = l
         /\ \A k \in DOMAIN q : k # i =>
              \E l \in DOMAIN RemoveAt(q, i) : k = Moved(l, i)
<1>1. i \in 1..Len(q) /\ Len(q) \in Nat /\ DOMAIN q = 1..Len(q)
  OBVIOUS
<1> DEFINE a == SubSeq(q, 1, i - 1)  b == SubSeq(q, i + 1, Len(q))
<1>2. a \in Seq(T) /\ Len(a) = i - 1 /\ \A k \in 1..(i - 1) : a[k] = q[k]
  BY <1>1, SubSeqProperties
<1>3. b \in Seq(T) /\ Len(b) = Len(q) - i /\ \A k \in 1..(Len(q) - i) : b[k] = q[i + k]
  BY <1>1, SubSeqProperties
<1> HIDE DEF a, b
<1>4. /\ a \o b \in Seq(T) /\ Len(a \o b) = Len(q) - 1
      /\ \A k \in 1..(Len(q) - 1) : (a \o b)[k] = IF k < i THEN q[k] ELSE q[k + 1]
  <2>1. a \o b \in Seq(T) /\ Len(a \o b) = Len(a) + Len(b)
    BY <1>2, <1>3, ConcatProperties
  <2>2. ASSUME NEW k \in 1..(Len(q) - 1) PROVE (a \o b)[k] = IF k < i THEN q[k] ELSE q[k + 1]
    <3>1. (a \o b)[k] = IF k <= Len(a) THEN a[k] ELSE b[k - Len(a)]
      BY <1>1, <1>2, <1>3, ConcatProperties
    <3>2. CASE k < i
      BY <1>1, <1>2, <3>1, <3>2
    <3>3. CASE ~(k < i)
      <4>1. k - Len(a) \in 1..(Len(q) - i) /\ ~(k <= Len(a)) /\ i + (k - Len(a)) = k + 1
        BY <1>1, <1>2, <3>3
      <4>2. b[k - Len(a)] = q[i + (k - Len(a))]
        BY <1>3, <4>1
      <4> QED
        BY <3>1, <3>3, <4>1, <4>2
    <3> QED
      BY <3>2, <3>3
  <2> QED
    BY <2>1, <2>2, <1>1, <1>2, <1>3
<1>5. RemoveAt(q, i) = a \o b
  BY DEF RemoveAt, a, b
<1>6. DOMAIN RemoveAt(q, i) = 1..(Len(q) - 1)
  <2>1. \A z \in Seq(T) : DOMAIN z = 1..Len(z)
    OBVIOUS
  <2> QED
    BY <1>4, <1>5, <2>1
<1>7. ASSUME NEW k \in DOMAIN q, k # i PROVE \E l \in DOMAIN RemoveAt(q, i) : k = Moved(l, i)
  <2>1. CASE k < i
    BY <2>1, <1>1, <1>6 DEF Moved
  <2>2. CASE k > i
    <3>1. k - 1 \in 1..(Len(q) - 1) /\ ~(k - 1 < i) /\ k = (k - 1) + 1
      BY <2>2, <1>1
    <3>2. k = Moved(k - 1, i)
      BY <3>1 DEF Moved
    <3> QED
      BY <3>1, <3>2, <1>6
  <2> QED
    BY <2>1, <2>2, <1>1, <1>7
<1>8. \A k \in DOMAIN RemoveAt(q, i) : RemoveAt(q, i)[k] = q[Moved(k, i)]
  BY <1>4, <1>5, <1>6 DEF Moved
<1>9. \A k \in DOMAIN RemoveAt(q, i) : Moved(k, i) \in DOMAIN q /\ Moved(k, i) # i
  BY <1>1, <1>6 DEF Moved
<1>10. \A k, l \in DOMAIN RemoveAt(q, i) : Moved(k, i) = Moved(l, i) => k = l
  BY <1>1, <1>6 DEF Moved
<1> QED
  BY <1>4, <1>5, <1>7, <1>8, <1>9, <1>10

----------------------------------------------------------------------------
(* The pool                                                                *)

(* An item that comes is in the items of its turn.                         *)
LEMMA QueueGrows ==
  ASSUME NEW q \in Seq(PoolItems), NEW e \in PoolItems
  PROVE  /\ Append(q, e) \in Seq(PoolItems)
         /\ \A t \in Turns : ItemsOf(Append(q, e), t) = IF e.turn = t THEN ItemsOf(q, t) \cup {e} ELSE ItemsOf(q, t)
         /\ Lone(q) /\ (\A i \in ItemsOf(q, e.turn) : ~Alike(i, e)) => Lone(Append(q, e))
<1> DEFINE r == Append(q, e)
<1>1. /\ r \in Seq(PoolItems) /\ DOMAIN r = 1..(Len(q) + 1) /\ DOMAIN q = 1..Len(q) /\ Len(q) \in Nat
      /\ r[Len(q) + 1] = e /\ \A k \in DOMAIN q : r[k] = q[k]
  BY Appends
<1>2. \A k \in DOMAIN r : k \in DOMAIN q \/ k = Len(q) + 1
  BY <1>1
<1>3. \A k \in DOMAIN q : k \in DOMAIN r /\ k # Len(q) + 1
  BY <1>1
<1>4. Len(q) + 1 \in DOMAIN r
  BY <1>1
<1> HIDE DEF r
<1>5. ASSUME NEW t \in Turns
      PROVE  ItemsOf(r, t) = IF e.turn = t THEN ItemsOf(q, t) \cup {e} ELSE ItemsOf(q, t)
  BY <1>1, <1>2, <1>3, <1>4 DEF ItemsOf
<1>6. ASSUME Lone(q), \A i \in ItemsOf(q, e.turn) : ~Alike(i, e) PROVE Lone(r)
  <2> SUFFICES ASSUME NEW k \in DOMAIN r, NEW l \in DOMAIN r, r[k].turn = r[l].turn, Alike(r[k], r[l])
               PROVE  k = l
    BY DEF Lone
  <2>1. \A n \in DOMAIN q : q[n].turn = e.turn => q[n] \in ItemsOf(q, e.turn)
    BY DEF ItemsOf
  <2>2. \A a, b \in PoolItems : Alike(a, b) <=> Alike(b, a)
    BY DEF Alike
  <2>3. \A n \in DOMAIN q : q[n] \in PoolItems
    BY <1>1
  <2>4. CASE k \in DOMAIN q /\ l \in DOMAIN q
    BY <2>4, <1>1, <1>6 DEF Lone
  <2>5. CASE k \in DOMAIN q /\ l = Len(q) + 1
    BY <2>5, <1>1, <1>6, <2>1
  <2>6. CASE k = Len(q) + 1 /\ l \in DOMAIN q
    BY <2>6, <1>1, <1>6, <2>1, <2>2, <2>3
  <2> QED
    BY <1>2, <2>4, <2>5, <2>6
<1> QED
  BY <1>1, <1>5, <1>6 DEF r

(* An item that is done goes; one of its kind is not there twice, and a    *)
(* footer's patch may be.                                                  *)
LEMMA QueueShrinks ==
  ASSUME NEW q \in Seq(PoolItems), NEW i \in DOMAIN q, Lone(q)
  PROVE  /\ RemoveAt(q, i) \in Seq(PoolItems) /\ Lone(RemoveAt(q, i))
         /\ \A t \in Turns : /\ ItemsOf(RemoveAt(q, i), t) \subseteq ItemsOf(q, t)
                             /\ ItemsOf(q, t) \ {q[i]} \subseteq ItemsOf(RemoveAt(q, i), t)
                             /\ Alike(q[i], q[i]) => q[i] \notin ItemsOf(RemoveAt(q, i), t)
                             /\ t # q[i].turn => ItemsOf(RemoveAt(q, i), t) = ItemsOf(q, t)
<1> DEFINE r == RemoveAt(q, i)
<1>1. /\ r \in Seq(PoolItems)
      /\ \A k \in DOMAIN r : Moved(k, i) \in DOMAIN q /\ Moved(k, i) # i /\ r[k] = q[Moved(k, i)]
      /\ \A k, l \in DOMAIN r : Moved(k, i) = Moved(l, i) => k = l
      /\ \A k \in DOMAIN q : k # i => \E l \in DOMAIN r : k = Moved(l, i)
  BY Removes
<1> HIDE DEF r
<1>2. Lone(r)
  BY <1>1 DEF Lone
<1>3. ASSUME NEW t \in Turns PROVE ItemsOf(r, t) \subseteq ItemsOf(q, t)
  BY <1>1 DEF ItemsOf
<1>4. ASSUME NEW t \in Turns PROVE ItemsOf(q, t) \ {q[i]} \subseteq ItemsOf(r, t)
  <2> SUFFICES ASSUME NEW k \in DOMAIN q, q[k].turn = t, q[k] # q[i] PROVE q[k] \in ItemsOf(r, t)
    BY DEF ItemsOf
  <2>1. PICK l \in DOMAIN r : k = Moved(l, i)
    BY <1>1
  <2> QED
    BY <2>1, <1>1 DEF ItemsOf
<1>5. ASSUME NEW t \in Turns, Alike(q[i], q[i]), q[i] \in ItemsOf(r, t) PROVE FALSE
  <2>1. PICK k \in DOMAIN r : r[k] = q[i]
    BY <1>5 DEF ItemsOf
  <2>2. Moved(k, i) \in DOMAIN q /\ Moved(k, i) # i /\ q[Moved(k, i)] = q[i]
    BY <1>1, <2>1
  <2> QED
    BY <2>2, <1>5 DEF Lone
<1>6. ASSUME NEW t \in Turns, t # q[i].turn PROVE ItemsOf(r, t) = ItemsOf(q, t)
  <2>1. \A y \in ItemsOf(q, t) : y.turn = t
    BY DEF ItemsOf
  <2>2. ItemsOf(q, t) \subseteq ItemsOf(r, t)
    BY <1>4, <1>6, <2>1
  <2> QED
    BY <2>2, <1>3
<1> QED
  BY <1>1, <1>2, <1>3, <1>4, <1>5, <1>6 DEF r

(* What is in the pool, by kind                                            *)
LEMMA ItemTypes ==
  /\ \A i \in PoolItems : i.turn \in Turns
  /\ \A i \in PoolItems : i.does \in OfPool \/ (i.does \in Calls /\ i.card \in Nat /\ i.content \in Contents)
  /\ \A t \in Turns, what \in OfPool : /\ Projection(t, what) \in PoolItems
                                       /\ Projection(t, what).turn = t /\ Projection(t, what).does = what
BY DEF PoolItems, Projections, CallItems, Projection, OfPool, Calls

LEMMA CallIs ==
  ASSUME NEW t \in Turns, NEW what \in Calls, NEW n \in Nat, NEW content \in Contents
  PROVE  /\ Call(t, what, n, content) \in PoolItems
         /\ Call(t, what, n, content).turn = t /\ Call(t, what, n, content).does = what
         /\ Call(t, what, n, content).card = n /\ Call(t, what, n, content).content = content
BY DEF PoolItems, CallItems, Call

LEMMA ItemsOfTurn ==
  ASSUME NEW q \in Seq(PoolItems), NEW t \in Turns, Lone(q)
  PROVE  /\ ItemsOf(q, t) \subseteq PoolItems /\ Single(ItemsOf(q, t))
         /\ \A i \in ItemsOf(q, t) : i.turn = t
BY DEF ItemsOf, Lone, Single

----------------------------------------------------------------------------
(* The lock's queue                                                        *)

LEMMA Twos ==
  ASSUME NEW a, NEW b
  PROVE  Append(<<a>>, b) = <<a, b>>
<1> DEFINE T == {a, b}  p == Append(<<a>>, b)  q == <<a, b>>
<1>1. <<a>> \in Seq(T) /\ b \in T /\ q \in Seq(T) /\ Len(q) = 2 /\ q[1] = a /\ q[2] = b
  OBVIOUS
<1>2. Len(<<a>>) = 1 /\ <<a>>[1] = a
  OBVIOUS
<1>3. p \in Seq(T) /\ Len(p) = 2 /\ p[1] = a /\ p[2] = b
  BY <1>1, <1>2, AppendProperties
<1>4. \A i \in 1..2 : i = 1 \/ i = 2
  OBVIOUS
<1> HIDE DEF p, q, T
<1>5. p = q
  BY <1>1, <1>3, <1>4, SeqEqual
<1> QED
  BY <1>5 DEF p, q

LEMMA LockGrows ==
  ASSUME NEW l \in Locks, NEW who \in {"loop", "finish"}, who \notin ToSet(l)
  PROVE  /\ Append(l, who) \in Locks /\ Append(l, who) # <<>>
         /\ ToSet(Append(l, who)) = ToSet(l) \cup {who}
         /\ Head(Append(l, who)) = IF l = <<>> THEN who ELSE Head(l)
<1>1. CASE l = <<>>
  BY <1>1 DEF Locks, ToSet
<1>2. CASE l = <<"loop">>
  <2>1. who = "finish"
    BY <1>2 DEF ToSet
  <2>2. Append(l, who) = <<"loop", "finish">>
    BY <1>2, <2>1, Twos
  <2>3. ToSet(<<"loop", "finish">>) = ToSet(<<"loop">>) \cup {"finish"}
    BY DEF ToSet
  <2>4. Head(<<"loop", "finish">>) = "loop" /\ Head(<<"loop">>) = "loop" /\ <<"loop">> # <<>> /\ <<"loop", "finish">> # <<>>
    OBVIOUS
  <2> QED
    BY <1>2, <2>1, <2>2, <2>3, <2>4 DEF Locks
<1>3. CASE l = <<"finish">>
  <2>1. who = "loop"
    BY <1>3 DEF ToSet
  <2>2. Append(l, who) = <<"finish", "loop">>
    BY <1>3, <2>1, Twos
  <2>3. ToSet(<<"finish", "loop">>) = ToSet(<<"finish">>) \cup {"loop"}
    BY DEF ToSet
  <2>4. Head(<<"finish", "loop">>) = "finish" /\ Head(<<"finish">>) = "finish" /\ <<"finish">> # <<>> /\ <<"finish", "loop">> # <<>>
    OBVIOUS
  <2> QED
    BY <1>3, <2>1, <2>2, <2>3, <2>4 DEF Locks
<1>4. CASE l \in {<<"loop", "finish">>, <<"finish", "loop">>}
  BY <1>4 DEF ToSet
<1> QED
  BY <1>1, <1>2, <1>3, <1>4 DEF Locks

LEMMA LockShrinks ==
  ASSUME NEW l \in Locks, l # <<>>
  PROVE  /\ Tail(l) \in Locks /\ ToSet(Tail(l)) = ToSet(l) \ {Head(l)}
         /\ Head(l) \in {"loop", "finish"} /\ Head(l) \in ToSet(l)
<1>1. CASE l = <<"loop">>
  BY <1>1 DEF Locks, ToSet
<1>2. CASE l = <<"finish">>
  BY <1>2 DEF Locks, ToSet
<1>3. CASE l = <<"loop", "finish">>
  BY <1>3 DEF Locks, ToSet
<1>4. CASE l = <<"finish", "loop">>
  BY <1>4 DEF Locks, ToSet
<1> QED
  BY <1>1, <1>2, <1>3, <1>4 DEF Locks

----------------------------------------------------------------------------
(* What the operators of a presentation change                             *)

SameTexts(c, d) ==
  /\ d.mode = c.mode /\ d.fed = c.fed /\ d.body = c.body
  /\ d.rolls = c.rolls /\ d.raced = c.raced

Same(c, d) == SameTexts(c, d) /\ d.id = c.id /\ d.status = c.status /\ d.dirty = c.dirty

LEMMA DrainsIs ==
  ASSUME NEW c \in Presentations, NEW who \in {"loop", "finish"}, who \notin ToSet(c.lock)
  PROVE  /\ Drains(c, who) \in Presentations /\ Same(c, Drains(c, who))
         /\ Drains(c, who).lock = Append(c.lock, who) /\ Drains(c, who).closed = c.closed
         /\ Drains(c, who).loop = c.loop /\ Drains(c, who).finish = c.finish
         /\ Drains(c, who).inside = c.inside
<1>1. c.lock \in Locks
  BY DEF Presentations
<1>2. Append(c.lock, who) \in Locks
  BY <1>1, LockGrows
<1> QED
  BY <1>2 DEF Presentations, Drains, SameTexts, Same

LEMMA ClosingIs ==
  ASSUME NEW c \in Presentations
  PROVE  /\ Closing(c) \in Presentations /\ Same(c, Closing(c))
         /\ Closing(c).lock = c.lock /\ Closing(c).loop = c.loop /\ Closing(c).finish = "joining"
         /\ Closing(c).inside = c.inside
BY DEF Presentations, Closing, SameTexts, Same, Finishings

LEMMA FinishesIs ==
  ASSUME NEW c \in Presentations, c.mode # "direct", "finish" \notin ToSet(c.lock)
  PROVE  /\ Finishes(c) \in Presentations /\ SameTexts(c, Finishes(c))
         /\ Finishes(c).lock = Append(c.lock, "finish") /\ Finishes(c).loop = c.loop
         /\ Finishes(c).inside = c.inside /\ Finishes(c).id = c.id
         /\ c.mode = "card" => /\ Finishes(c).status = "done" /\ Finishes(c).dirty
                               /\ Finishes(c).finish = "status"
         /\ c.mode = "text" => /\ Finishes(c).status = c.status /\ Finishes(c).dirty = c.dirty
                               /\ Finishes(c).finish = "flush"
<1>1. CASE c.mode = "card"
  <2> DEFINE d == [c EXCEPT !.status = "done", !.dirty = TRUE, !.finish = "status"]
  <2>1. /\ d \in Presentations /\ SameTexts(c, d) /\ d.lock = c.lock /\ d.loop = c.loop
        /\ d.inside = c.inside /\ d.id = c.id /\ d.status = "done" /\ d.dirty /\ d.finish = "status"
    BY DEF Presentations, SameTexts, Finishings
  <2>2. Finishes(c) = Drains(d, "finish")
    BY <1>1 DEF Finishes
  <2> HIDE DEF d
  <2> QED
    BY <1>1, <2>1, <2>2, DrainsIs DEF Same, SameTexts
<1>2. CASE c.mode = "text"
  <2> DEFINE d == [c EXCEPT !.finish = "flush"]
  <2>1. /\ d \in Presentations /\ Same(c, d) /\ d.lock = c.lock /\ d.loop = c.loop
        /\ d.inside = c.inside /\ d.finish = "flush"
    BY DEF Presentations, SameTexts, Same, Finishings
  <2>2. Finishes(c) = Drains(d, "finish")
    BY <1>2 DEF Finishes
  <2> HIDE DEF d
  <2> QED
    BY <1>2, <2>1, <2>2, DrainsIs DEF Same, SameTexts
<1> QED
  BY <1>1, <1>2 DEF Presentations, Modes

Gathers(c, d) ==
  [d EXCEPT !.fed = @ + 1, !.body = Append(@, c.fed + 1), !.dirty = TRUE, !.pending = TRUE,
            !.loop = IF @ = "none" THEN "idle" ELSE @]

(* A text is gathered, on a new card when the old one is full.             *)
LEMMA FedIs ==
  ASSUME NEW c \in Presentations, c.fed < MaxTexts, c.mode # "direct"
  PROVE  /\ Fed(c) \in Presentations
         /\ Fed(c).mode = c.mode /\ Fed(c).fed = c.fed + 1 /\ Fed(c).dirty /\ Fed(c).status = c.status
         /\ Fed(c).loop = (IF c.loop = "none" THEN "idle" ELSE c.loop)
         /\ Fed(c).finish = c.finish /\ Fed(c).lock = c.lock /\ Fed(c).inside = c.inside
         /\ IF Full(c)
            THEN /\ Fed(c).body = <<c.fed + 1>> /\ Fed(c).id = NoCard
                 /\ Fed(c).rolls = c.rolls \cup {Version(c.id, c.body)}
                 /\ (Fed(c).raced <=> c.raced \/ c.inside)
            ELSE /\ Fed(c).body = Append(c.body, c.fed + 1) /\ Fed(c).id = c.id
                 /\ Fed(c).rolls = c.rolls /\ Fed(c).raced = c.raced
<1> USE LiveCardAssumption
<1>1. c.fed + 1 \in 1..MaxTexts /\ c.fed + 1 \in 0..MaxTexts /\ c.body \in Bodies
  BY DEF Presentations
<1>2. ASSUME NEW d \in Presentations, d.fed = c.fed, d.loop = c.loop
      PROVE  LET e == Gathers(c, d)
             IN /\ e \in Presentations /\ e.mode = d.mode /\ e.fed = c.fed + 1 /\ e.dirty
                /\ e.status = d.status /\ e.loop = (IF c.loop = "none" THEN "idle" ELSE c.loop)
                /\ e.finish = d.finish /\ e.lock = d.lock /\ e.inside = d.inside
                /\ e.body = Append(d.body, c.fed + 1) /\ e.id = d.id
                /\ e.rolls = d.rolls /\ e.raced = d.raced
  <2>1. Append(d.body, c.fed + 1) \in Bodies
    BY <1>1, AppendProperties DEF Bodies, Presentations
  <2> QED
    BY <1>1, <1>2, <2>1 DEF Presentations, Loops, Gathers
<1>3. CASE Full(c)
  <2>1. Version(c.id, c.body) \in Versions
    BY DEF Presentations, Versions, Version
  <2>2. c.rolls \cup {Version(c.id, c.body)} \in SUBSET Versions
    BY <2>1 DEF Presentations
  <2>3. Rolled(c) = [c EXCEPT !.body = <<>>, !.id = NoCard, !.rolls = @ \cup {Version(c.id, c.body)},
                              !.raced = @ \/ c.inside]
    BY DEF Rolled, Version
  <2>4. <<>> \in Bodies /\ NoCard \in Nat
    BY DEF Bodies, NoCard
  <2>5. /\ Rolled(c) \in Presentations
        /\ Rolled(c).fed = c.fed /\ Rolled(c).loop = c.loop
        /\ Rolled(c).mode = c.mode /\ Rolled(c).status = c.status /\ Rolled(c).finish = c.finish
        /\ Rolled(c).lock = c.lock /\ Rolled(c).inside = c.inside /\ Rolled(c).body = <<>>
        /\ Rolled(c).id = NoCard /\ Rolled(c).rolls = c.rolls \cup {Version(c.id, c.body)}
    <3>1. Rolled(c) \in Presentations
      BY <2>2, <2>3, <2>4 DEF Presentations
    <3>2. /\ Rolled(c).fed = c.fed /\ Rolled(c).loop = c.loop
          /\ Rolled(c).mode = c.mode /\ Rolled(c).status = c.status /\ Rolled(c).finish = c.finish
          /\ Rolled(c).lock = c.lock /\ Rolled(c).inside = c.inside /\ Rolled(c).body = <<>>
          /\ Rolled(c).id = NoCard /\ Rolled(c).rolls = c.rolls \cup {Version(c.id, c.body)}
      BY <2>3 DEF Presentations
    <3> QED
      BY <3>1, <3>2
  <2>6. Rolled(c).raced <=> c.raced \/ c.inside
    BY <2>3 DEF Presentations
  <2>7. Append(<<>>, c.fed + 1) = <<c.fed + 1>>
    OBVIOUS
  <2>8. Fed(c) = Gathers(c, Rolled(c))
    BY <1>3 DEF Fed, Gathers
  <2> QED
    BY <1>2, <1>3, <2>5, <2>6, <2>7, <2>8
<1>4. CASE ~Full(c)
  <2>1. Fed(c) = Gathers(c, c)
    BY <1>4 DEF Fed, Gathers
  <2> QED
    BY <1>2, <1>4, <2>1
<1> QED
  BY <1>3, <1>4

(* The holder of the lock goes on.                                         *)
LEMMA LeavesIs ==
  ASSUME NEW c \in Presentations, Locked(c), OfMode(c), c.lock # <<>>, c.inside \/ ~c.dirty
  PROVE  /\ Leaves(c) \in Presentations /\ Same(c, Leaves(c)) /\ ~Leaves(c).inside
         /\ Leaves(c).finish = "no" <=> c.finish = "no"
         /\ Locked(Leaves(c)) /\ OfMode(Leaves(c))
<1> DEFINE d == [c EXCEPT !.lock = Tail(@), !.inside = FALSE]
<1>1. /\ Tail(c.lock) \in Locks /\ ToSet(Tail(c.lock)) = ToSet(c.lock) \ {Head(c.lock)}
      /\ Head(c.lock) \in {"loop", "finish"} /\ Head(c.lock) \in ToSet(c.lock)
  BY LockShrinks DEF Presentations
<1>2. /\ d \in Presentations /\ Same(c, d) /\ ~d.inside /\ d.lock = Tail(c.lock)
      /\ d.loop = c.loop /\ d.finish = c.finish
  BY <1>1 DEF Presentations, Same, SameTexts
<1>3. CASE Head(c.lock) = "loop"
  <2> DEFINE e == [d EXCEPT !.loop = IF c.closed THEN "over" ELSE "idle"]
  <2>1. Leaves(c) = e
    BY <1>3 DEF Leaves
  <2>2. /\ e \in Presentations /\ Same(d, e) /\ ~e.inside /\ e.lock = d.lock /\ e.finish = d.finish
        /\ e.loop \in {"over", "idle"}
    BY <1>2 DEF Presentations, Same, SameTexts, Loops
  <2> HIDE DEF d, e
  <2>3. Locked(e) /\ OfMode(e)
    BY <1>1, <1>2, <1>3, <2>2 DEF Locked, OfMode, Same, SameTexts
  <2> QED
    BY <1>2, <2>1, <2>2, <2>3 DEF Same, SameTexts
<1>4. CASE Head(c.lock) = "finish"
  <2>1. c.finish \in {"status", "flush", "last"}
    BY <1>1, <1>4 DEF Locked
  <2>2. ~c.dirty /\ "finish" \notin ToSet(d.lock) /\ c.mode # "direct"
    BY <1>1, <1>2, <1>4 DEF Locked, OfMode
  <2>3. CASE c.finish = "status"
    <3> DEFINE e == [d EXCEPT !.finish = "flush"]
    <3>1. Leaves(c) = Drains(e, "finish")
      BY <1>4, <2>3 DEF Leaves
    <3>2. /\ e \in Presentations /\ Same(d, e) /\ ~e.inside /\ e.lock = d.lock /\ e.finish = "flush"
          /\ e.loop = d.loop
      BY <1>2 DEF Presentations, Same, SameTexts, Finishings
    <3> HIDE DEF d, e
    <3> DEFINE f == Drains(e, "finish")
    <3>3. /\ f \in Presentations /\ Same(e, f) /\ f.lock = Append(e.lock, "finish")
          /\ f.loop = e.loop /\ f.finish = e.finish /\ f.inside = e.inside
      BY <2>2, <3>2, DrainsIs
    <3>4. ToSet(f.lock) = ToSet(e.lock) \cup {"finish"}
      BY <1>1, <1>2, <2>2, <3>2, <3>3, LockGrows
    <3> HIDE DEF f
    <3>5. Locked(f) /\ OfMode(f)
      BY <1>1, <1>2, <1>4, <2>2, <2>3, <3>2, <3>3, <3>4 DEF Locked, OfMode, Same, SameTexts
    <3> QED
      BY <1>2, <2>3, <3>1, <3>2, <3>3, <3>5 DEF Same, SameTexts, f
  <2>4. CASE c.finish = "flush"
    <3>1. Leaves(c) = Closing(d)
      BY <1>4, <2>4 DEF Leaves
    <3> DEFINE f == Closing(d)
    <3> HIDE DEF d
    <3>2. /\ f \in Presentations /\ Same(d, f) /\ f.lock = d.lock /\ f.loop = d.loop
          /\ f.finish = "joining" /\ f.inside = d.inside
      BY <1>2, ClosingIs
    <3> HIDE DEF f
    <3>3. Locked(f) /\ OfMode(f)
      BY <1>1, <1>2, <1>4, <2>2, <2>4, <3>2 DEF Locked, OfMode, Same, SameTexts
    <3> QED
      BY <1>2, <2>4, <3>1, <3>2, <3>3 DEF Same, SameTexts, f
  <2>5. CASE c.finish = "last"
    <3> DEFINE f == [d EXCEPT !.finish = "closed"]
    <3>1. Leaves(c) = f
      BY <1>4, <2>5 DEF Leaves
    <3>2. /\ f \in Presentations /\ Same(d, f) /\ f.lock = d.lock /\ f.loop = d.loop
          /\ f.finish = "closed" /\ f.inside = d.inside
      BY <1>2 DEF Presentations, Same, SameTexts, Finishings
    <3> HIDE DEF d, f
    <3>3. Locked(f) /\ OfMode(f)
      BY <1>1, <1>2, <1>4, <2>2, <2>5, <3>2 DEF Locked, OfMode, Same, SameTexts
    <3> QED
      BY <1>2, <2>5, <3>1, <3>2, <3>3 DEF Same, SameTexts
  <2> QED
    BY <2>1, <2>3, <2>4, <2>5
<1> QED
  BY <1>1, <1>3, <1>4

----------------------------------------------------------------------------
(* Texts                                                                   *)

LEMMA TextsGrow ==
  ASSUME NEW b \in Seq(Nat), NEW n \in Nat
  PROVE  /\ ToSet(Append(b, n + 1)) = ToSet(b) \cup {n + 1}
         /\ Append(b, n + 1) # <<>> /\ Append(b, n + 1)[Len(Append(b, n + 1))] = n + 1
         /\ ToSet(<<>>) = {} /\ ToSet(<<n + 1>>) = {n + 1} /\ ToSet(b) \subseteq Nat
<1>1. /\ Append(b, n + 1) \in Seq(Nat) /\ Append(b, n + 1) # <<>> /\ Len(Append(b, n + 1)) = Len(b) + 1
      /\ DOMAIN Append(b, n + 1) = 1..(Len(b) + 1) /\ DOMAIN b = 1..Len(b) /\ Len(b) \in Nat
      /\ Append(b, n + 1)[Len(b) + 1] = n + 1
      /\ \A k \in DOMAIN b : Append(b, n + 1)[k] = b[k]
  BY Appends, AppendProperties
<1>2. ToSet(Append(b, n + 1)) = ToSet(b) \cup {n + 1}
  <2>1. \A k \in DOMAIN Append(b, n + 1) : k \in DOMAIN b \/ k = Len(b) + 1
    BY <1>1
  <2>2. \A k \in DOMAIN b : k \in DOMAIN Append(b, n + 1)
    BY <1>1
  <2>3. Len(b) + 1 \in DOMAIN Append(b, n + 1)
    BY <1>1
  <2> QED
    BY <1>1, <2>1, <2>2, <2>3 DEF ToSet
<1>3. ToSet(<<>>) = {} /\ ToSet(<<n + 1>>) = {n + 1} /\ ToSet(b) \subseteq Nat
  BY DEF ToSet
<1> QED
  BY <1>1, <1>2, <1>3

LEMMA ConsecutiveGrows ==
  ASSUME NEW b \in Seq(Nat), NEW n \in Nat, Consecutive(b), b # <<>> => b[Len(b)] = n
  PROVE  Consecutive(Append(b, n + 1)) /\ Consecutive(<<n + 1>>) /\ Consecutive(<<>>)
<1>1. /\ DOMAIN Append(b, n + 1) = 1..(Len(b) + 1) /\ DOMAIN b = 1..Len(b) /\ Len(b) \in Nat
      /\ Append(b, n + 1)[Len(b) + 1] = n + 1
      /\ \A k \in DOMAIN b : Append(b, n + 1)[k] = b[k]
  BY Appends
<1>2. CASE b = <<>>
  BY <1>1, <1>2 DEF Consecutive
<1>3. CASE b # <<>>
  <2>1. Len(b) > 0 /\ n = b[1] + Len(b) - 1 /\ b[1] \in Nat
    BY <1>1, <1>3 DEF Consecutive
  <2>2. \A k \in 1..(Len(b) + 1) : k \in DOMAIN b \/ k = Len(b) + 1
    BY <1>1
  <2>3. \A k \in DOMAIN b : b[k] = b[1] + k - 1
    BY DEF Consecutive
  <2> DEFINE a == Append(b, n + 1)
  <2>4. a[1] = b[1] /\ a[Len(b) + 1] = b[1] + (Len(b) + 1) - 1
    BY <1>1, <2>1
  <2> HIDE DEF a
  <2>5. \A k \in 1..(Len(b) + 1) : a[k] = a[1] + k - 1
    BY <1>1, <2>2, <2>3, <2>4 DEF a
  <2>6. Consecutive(Append(b, n + 1))
    BY <1>1, <2>5 DEF Consecutive, a
  <2>7. Consecutive(<<n + 1>>) /\ Consecutive(<<>>)
    BY DEF Consecutive
  <2> QED
    BY <2>6, <2>7
<1> QED
  BY <1>2, <1>3

LEMMA TextTypes ==
  /\ Bodies \subseteq Seq(Nat) /\ <<>> \in Bodies
  /\ \A c \in Presentations : c.body \in Bodies /\ c.fed \in Nat /\ c.id \in Nat /\ c.rolls \subseteq Versions
  /\ \A content \in Contents : content.body \in Bodies
  /\ \A v \in Versions : v.card \in Nat /\ v.body \in Bodies
  /\ \A n \in Nat, b \in Bodies : /\ Version(n, b) \in Versions
                                  /\ Version(n, b).card = n /\ Version(n, b).body = b
BY LiveCardAssumption DEF Bodies, Presentations, Contents, Versions, Version

----------------------------------------------------------------------------
(* A turn's part of the invariant, step by step                            *)

(* The texts stay where they are.                                          *)
LEMMA Staying ==
  ASSUME NEW c \in Presentations, NEW d \in Presentations, NEW s \in Seq(Contents),
         NEW x \in SUBSET PoolItems, NEW y \in SUBSET PoolItems, NEW ok \in BOOLEAN,
         Sound(c, s, x, ok), SameTexts(c, d), d.id = c.id, d.inside <=> c.inside,
         CallsOf(y) = CallsOf(x), d.dirty \/ (~c.dirty /\ d.status = c.status),
         c.finish # "no" => d.finish # "no", Locked(d), OfMode(d), Busy(d, y)
  PROVE  Sound(d, s, y, ok)
<1>1. Numbered(d, s, y)
  BY DEF Sound, Numbered, SameTexts
<1>2. Worded(d, s, y)
  BY DEF Sound, Worded, SameTexts
<1>3. Ended(d, s, y)
  BY DEF Sound, Ended, Whole, SameTexts
<1>4. ASSUME ok PROVE Ordered(d, s, y)
  <2>1. Current(d, s) = Current(c, s)
    BY DEF Current, SameTexts
  <2>2. \A v \in Versions : Of(d, s, y, v) <=> Of(c, s, x, v)
    BY <2>1 DEF Of, SameTexts
  <2>3. Numbers(d, s, y)
    BY <1>4 DEF Sound, Ordered, Numbers, SameTexts
  <2> QED
    BY <1>4, <2>2, <2>3 DEF Sound, Ordered, SameTexts
<1>5. ASSUME ok, ~d.raced PROVE Kept(d, s, y)
  <2>1. Kept(c, s, x)
    BY <1>5 DEF Sound, SameTexts
  <2>2. \A i \in x : i \in y \/ i.does \notin Calls
    BY DEF CallsOf
  <2>3. \A i \in y : i \in x \/ i.does \notin Calls
    BY DEF CallsOf
  <2>4. \A n \in Nat, b \in Bodies : Due(d, y, n, b) <=> Due(c, x, n, b)
    BY <2>2, <2>3 DEF Due, SameTexts, Calls
  <2>5. \A i : i \in y /\ i.does = "emit" <=> i \in x /\ i.does = "emit"
    BY <2>2, <2>3 DEF Calls
  <2>6. CASE c.mode = "card"
    <3>1. KeptOnCards(c, s, x)
      BY <2>1, <2>6 DEF Kept
    <3>2. d.dirty \/ Final(d) = Final(c)
      BY DEF Final, SameTexts
    <3>3. ~d.dirty /\ (d.fed > 0 \/ d.status = "done") =>
            IF d.inside THEN \A i \in y : i.does = "emit" => i.content = Final(d)
            ELSE d.id # NoCard /\ s[d.id] = Final(d)
      BY <3>1, <3>2, <2>5 DEF KeptOnCards, SameTexts
    <3>4. KeptOnCards(d, s, y)
      BY <3>1, <3>3, <2>4, <2>5 DEF KeptOnCards, SameTexts
    <3> QED
      BY <2>6, <3>4 DEF Kept, SameTexts
  <2>7. CASE c.mode # "card"
    BY <2>1, <2>7 DEF Kept, KeptInMessages, SameTexts
  <2> QED
    BY <2>6, <2>7
<1> QED
  BY <1>1, <1>2, <1>3, <1>4, <1>5 DEF Sound

(* What is fed makes no version of a card beyond the current one.          *)
LEMMA CurrentIsLast ==
  ASSUME NEW c \in Presentations, NEW s \in Seq(Contents), NEW x \in SUBSET PoolItems,
         Sound(c, s, x, TRUE), Numbers(c, s, x)
  PROVE  /\ Current(c, s) \in Nat /\ Len(s) \in Nat /\ DOMAIN s = 1..Len(s)
         /\ \A v \in Versions : Of(c, s, x, v) => v.card <= Current(c, s)
<1>1. Len(s) \in Nat /\ DOMAIN s = 1..Len(s) /\ c.id \in Nat
  BY TextTypes
<1>2. Current(c, s) \in Nat /\ Current(c, s) >= Len(s)
  BY <1>1 DEF Current, Sound, Numbers, NoCard
<1>3. ASSUME NEW v \in Versions, NEW j \in DOMAIN s, v = Version(j, s[j].body)
      PROVE  v.card <= Current(c, s)
  BY <1>1, <1>2, <1>3 DEF Version
<1>4. ASSUME NEW v \in Versions, NEW i \in CallsOf(x), v = Version(Target(s, i), i.content.body)
      PROVE  v.card <= Current(c, s)
  <2>1. i.card \in Nat /\ i.card <= Len(s)
    BY ItemTypes DEF CallsOf, Sound, Numbered, Calls, OfPool
  <2>2. i.card = NoCard => c.id = NoCard
    BY DEF Numbers
  <2>3. i.card = NoCard => Current(c, s) >= Len(s) + 1
    BY <1>1, <2>2 DEF Current
  <2> QED
    BY <1>1, <1>2, <1>4, <2>1, <2>3 DEF Target, Version
<1>5. ASSUME NEW v \in c.rolls PROVE v.card <= Current(c, s)
  BY <1>1, <1>2, TextTypes DEF Sound, Numbered
<1> QED
  BY <1>1, <1>2, <1>3, <1>4, <1>5, TextTypes DEF Of, Version

(* feed: a text is gathered, and the texts before it are on their way to a *)
(* card that is full.                                                      *)
LEMMA Feeding ==
  ASSUME NEW c \in Presentations, NEW s \in Seq(Contents), NEW x \in SUBSET PoolItems,
         NEW ok \in BOOLEAN, Sound(c, s, x, ok), c.fed < MaxTexts, c.mode # "direct", c.finish = "no",
         ~Does(x, {"feed"})
  PROVE  Fed(c) \in Presentations /\ Fed(c).mode = c.mode /\ Fed(c).finish = c.finish /\ Sound(Fed(c), s, x, ok)
<1> DEFINE d == Fed(c)
<1>1. /\ d \in Presentations
      /\ d.mode = c.mode /\ d.fed = c.fed + 1 /\ d.dirty /\ d.status = c.status
      /\ d.loop = (IF c.loop = "none" THEN "idle" ELSE c.loop)
      /\ d.finish = c.finish /\ d.lock = c.lock /\ d.inside = c.inside
      /\ IF Full(c)
         THEN /\ d.body = <<c.fed + 1>> /\ d.id = NoCard
              /\ d.rolls = c.rolls \cup {Version(c.id, c.body)}
              /\ (d.raced <=> c.raced \/ c.inside)
         ELSE /\ d.body = Append(c.body, c.fed + 1) /\ d.id = c.id
              /\ d.rolls = c.rolls /\ d.raced = c.raced
  BY FedIs
<1> HIDE DEF d
<1>2. /\ c.body \in Bodies /\ c.body \in Seq(Nat) /\ c.fed \in Nat /\ c.id \in Nat /\ Len(s) \in Nat
      /\ DOMAIN s = 1..Len(s)
  BY TextTypes
<1>3. /\ d.body # <<>> /\ d.body[Len(d.body)] = d.fed /\ Consecutive(d.body)
      /\ IF Full(c) THEN ToSet(d.body) = {c.fed + 1} ELSE ToSet(d.body) = ToSet(c.body) \cup {c.fed + 1}
  <2>1. Consecutive(c.body) /\ (c.body # <<>> => c.body[Len(c.body)] = c.fed)
    BY DEF Sound, Worded
  <2>2. <<c.fed + 1>> # <<>> /\ <<c.fed + 1>>[Len(<<c.fed + 1>>)] = c.fed + 1
    OBVIOUS
  <2>3. /\ ToSet(Append(c.body, c.fed + 1)) = ToSet(c.body) \cup {c.fed + 1}
        /\ Append(c.body, c.fed + 1) # <<>>
        /\ Append(c.body, c.fed + 1)[Len(Append(c.body, c.fed + 1))] = c.fed + 1
        /\ ToSet(<<c.fed + 1>>) = {c.fed + 1}
    BY <1>2, TextsGrow
  <2>4. Consecutive(Append(c.body, c.fed + 1)) /\ Consecutive(<<c.fed + 1>>)
    BY <1>2, <2>1, ConsecutiveGrows
  <2>5. CASE Full(c)
    BY <1>1, <2>2, <2>3, <2>4, <2>5
  <2>6. CASE ~Full(c)
    BY <1>1, <2>3, <2>4, <2>6
  <2> QED
    BY <2>5, <2>6
<1>4. Locked(d)
  <2>1. "finish" \notin ToSet(c.lock)
    BY DEF Sound, Locked
  <2>2. c.lock # <<>> => Head(c.lock) # "finish"
    BY <2>1, LockShrinks DEF Presentations
  <2> QED
    BY <1>1, <2>1, <2>2 DEF Sound, Locked
<1>5. OfMode(d) /\ Busy(d, x)
  <2>1. Full(c) => c.mode = "card"
    BY DEF Full
  <2> QED
    BY <1>1, <2>1 DEF Sound, OfMode, Busy
<1>6. Numbered(d, s, x)
  <2>1. Full(c) => Version(c.id, c.body).card \in 1..Len(s)
    BY <1>2 DEF Full, Sound, Numbered, Version, NoCard
  <2> QED
    BY <1>1, <1>2, <2>1 DEF Sound, Numbered, NoCard
<1>7. Worded(d, s, x)
  <2>1. Version(c.id, c.body).body = c.body
    BY DEF Version
  <2> QED
    BY <1>1, <1>3, <2>1 DEF Sound, Worded
<1>8. Ended(d, s, x)
  BY <1>1 DEF Sound, Ended, Whole
<1>9. ASSUME ok PROVE Ordered(d, s, x)
  <2>1. Ordered(c, s, x) /\ Numbers(c, s, x) /\ Sound(c, s, x, TRUE)
    BY <1>9 DEF Sound, Ordered
  <2>2. Numbers(d, s, x)
    BY <1>1, <2>1 DEF Numbers, Full
  <2>3. \A v \in Versions : Of(c, s, x, v) => v.card <= Current(c, s)
    BY <2>1, CurrentIsLast
  <2>4. \A v \in Versions : Of(d, s, x, v) => Of(c, s, x, v) \/ v = Version(Current(d, s), d.body)
    <3>1. CASE Full(c)
      <4>1. Current(c, s) = c.id
        BY <3>1 DEF Current, Full
      <4> QED
        BY <1>1, <3>1, <4>1 DEF Of
    <3>2. CASE ~Full(c)
      BY <1>1, <3>2 DEF Of
    <3> QED
      BY <3>1, <3>2
  <2>5. \A v \in Versions : Of(d, s, x, v) => v.card <= Current(d, s)
    <3>1. Current(c, s) <= Current(d, s) /\ Current(c, s) \in Nat /\ Current(d, s) \in Nat
      <4>1. CASE Full(c)
        BY <1>1, <1>2, <2>1, <4>1 DEF Current, Full, Numbers, NoCard
      <4>2. CASE ~Full(c)
        BY <1>1, <1>2, <4>2 DEF Current
      <4> QED
        BY <4>1, <4>2
    <3> QED
      BY <2>3, <2>4, <3>1, TextTypes DEF Version
  <2>6. \A v \in Versions : Of(c, s, x, v) => UpTo(v.body, c.fed)
    BY <2>1 DEF Ordered
  <2>7. \A v \in Versions : ToSet(v.body) \subseteq Nat
    BY TextTypes, TextsGrow
  <2>8. /\ Version(Current(d, s), d.body) \in Versions /\ Current(d, s) \in Nat
        /\ Version(Current(d, s), d.body).card = Current(d, s)
        /\ Version(Current(d, s), d.body).body = d.body
    <3>1. d.body \in Bodies /\ d.id \in Nat
      BY <1>1, TextTypes
    <3>2. Current(d, s) \in Nat
      BY <1>2, <3>1 DEF Current
    <3> QED
      BY <3>1, <3>2, TextTypes
  <2>9. UpTo(d.body, d.fed)
    <3>1. UpTo(c.body, c.fed)
      <4>1. Version(Current(c, s), c.body) \in Versions
        <5>1. Current(c, s) \in Nat
          BY <1>2, TextTypes DEF Current
        <5>2. c.body \in Bodies
          BY TextTypes
        <5> QED
          BY <5>1, <5>2, TextTypes
      <4> QED
        BY <2>6, <4>1 DEF Of, Version
    <3>2. ToSet(c.body) \subseteq Nat
      BY <1>2, TextsGrow
    <3> QED
      BY <1>1, <1>2, <1>3, <3>1, <3>2 DEF UpTo
  <2>10. ASSUME NEW v \in Versions, Of(d, s, x, v) PROVE UpTo(v.body, d.fed)
    <3>1. CASE Of(c, s, x, v)
      <4>1. UpTo(v.body, c.fed) /\ ToSet(v.body) \subseteq Nat /\ d.fed = c.fed + 1
        BY <1>1, <2>6, <2>7, <3>1
      <4> QED
        BY <1>2, <4>1 DEF UpTo
    <3>2. CASE v = Version(Current(d, s), d.body)
      BY <2>8, <2>9, <3>2
    <3> QED
      BY <2>4, <2>10, <3>1, <3>2
  <2>11. ASSUME NEW v \in Versions, NEW w \in Versions, Of(d, s, x, v), Of(d, s, x, w), v.card < w.card
         PROVE  Before(v.body, w.body)
    <3>1. CASE Of(c, s, x, w)
      <4>1. Of(c, s, x, v)
        <5>1. v.card < Current(d, s)
          BY <2>5, <2>8, <2>11, TextTypes
        <5> QED
          BY <2>4, <2>8, <2>11, <5>1, TextTypes
      <4> QED
        BY <2>1, <2>11, <3>1, <4>1 DEF Ordered
    <3>2. CASE w = Version(Current(d, s), d.body)
      <4>1. Of(c, s, x, v) /\ w.body = d.body /\ w.card = Current(d, s)
        <5>1. w.body = d.body /\ w.card = Current(d, s)
          BY <2>8, <3>2
        <5>2. v # Version(Current(d, s), d.body)
          BY <2>8, <2>11, <5>1
        <5> QED
          BY <2>4, <2>11, <5>1, <5>2
      <4>2. UpTo(v.body, c.fed) /\ ToSet(v.body) \subseteq Nat
        BY <2>6, <2>7, <4>1
      <4>3. CASE Full(c)
        BY <1>2, <1>3, <4>1, <4>2, <4>3 DEF UpTo, Before
      <4>4. CASE ~Full(c)
        <5>1. Current(d, s) = Current(c, s)
          BY <1>1, <4>4 DEF Current
        <5>2. Version(Current(c, s), c.body) \in Versions
          BY <1>2, TextTypes DEF Current
        <5>3. Before(v.body, c.body)
          BY <2>1, <2>11, <4>1, <5>1, <5>2 DEF Ordered, Of, Version
        <5> QED
          BY <1>2, <1>3, <4>1, <4>2, <4>4, <5>3 DEF UpTo, Before
      <4> QED
        BY <4>3, <4>4
    <3> QED
      BY <2>4, <2>11, <3>1, <3>2
  <2> QED
    BY <2>2, <2>10, <2>11 DEF Ordered
<1>10. ASSUME ok, ~d.raced PROVE Kept(d, s, x)
  <2>1. ~c.raced /\ Kept(c, s, x)
    BY <1>1, <1>10 DEF Sound
  <2>2. \A k \in 1..d.fed : k \in 1..c.fed \/ k = c.fed + 1
    BY <1>1, <1>2
  <2>3. CASE c.mode # "card"
    <3>1. ~Full(c)
      BY <2>3 DEF Full
    <3> QED
      BY <1>1, <1>3, <2>1, <2>2, <2>3, <3>1 DEF Kept, KeptInMessages
  <2>4. CASE c.mode = "card" /\ ~Full(c)
    <3>1. \A n \in Nat, b \in Bodies : Due(d, x, n, b) <=> Due(c, x, n, b)
      BY <1>1, <2>4 DEF Due
    <3>2. KeptOnCards(c, s, x)
      BY <2>1, <2>4 DEF Kept
    <3>3. KeptOnCards(d, s, x)
      BY <1>1, <1>3, <2>2, <2>4, <3>1, <3>2 DEF KeptOnCards
    <3> QED
      BY <1>1, <2>4, <3>3 DEF Kept
  <2>5. CASE c.mode = "card" /\ Full(c)
    <3>1. KeptOnCards(c, s, x) /\ Ordered(c, s, x)
      BY <1>10, <2>1, <2>5 DEF Kept, Sound
    <3>2. \A n \in Nat, b \in Bodies : Due(d, x, n, b) <=> Due(c, x, n, b) \/ (n = c.id /\ b = c.body)
      BY <1>1, <2>5 DEF Due, Version
    <3>3. c.id # NoCard /\ c.id \in DOMAIN s /\ ~s[c.id].next
      BY <1>2, <2>5, <3>1 DEF Full, KeptOnCards, Ordered, Numbers, NoCard
    <3>4. ~d.inside
      BY <1>1, <1>10, <2>5
    <3>5. \A i \in x : i.does # "emit"
      BY <1>1, <3>4 DEF Sound, Busy, Does, OfCard
    <3>6. ASSUME NEW k \in 1..d.fed
          PROVE  \/ k \in ToSet(d.body)
                 \/ \E n \in Nat, b \in Bodies : Due(d, x, n, b) /\ k \in ToSet(b)
                 \/ \E j \in DOMAIN s : s[j].next /\ k \in ToSet(s[j].body)
      <4>1. CASE k = c.fed + 1
        BY <1>3, <2>5, <4>1
      <4>2. CASE k \in 1..c.fed
        <5>1. CASE k \in ToSet(c.body)
          BY <1>2, <3>2, <5>1
        <5>2. CASE k \notin ToSet(c.body)
          BY <3>1, <3>2, <4>2, <5>2 DEF KeptOnCards
        <5> QED
          BY <5>1, <5>2
      <4> QED
        BY <2>2, <4>1, <4>2
    <3>7. ASSUME NEW j \in DOMAIN s
          PROVE  j = d.id \/ s[j].next \/ \E b \in Bodies : Due(d, x, j, b)
      <4>1. j \in Nat
        BY <1>2
      <4> QED
        BY <1>2, <3>1, <3>2, <4>1 DEF KeptOnCards
    <3>8. ASSUME NEW n \in Nat, NEW b \in Bodies, Due(d, x, n, b)
          PROVE  /\ n # d.id /\ n \in DOMAIN s
                 /\ s[n].next => s[n].body = b
                 /\ \A e \in Bodies : Due(d, x, n, e) => e = b
      <4>1. CASE n = c.id /\ b = c.body
        <5>1. \A e \in Bodies : ~Due(c, x, n, e)
          BY <3>1, <4>1 DEF KeptOnCards
        <5> QED
          BY <1>1, <2>5, <3>2, <3>3, <4>1, <5>1
      <4>2. CASE Due(c, x, n, b)
        <5>1. n # c.id /\ n \in DOMAIN s
          BY <3>1, <4>2 DEF KeptOnCards
        <5>2. n # NoCard
          BY <1>2, <5>1 DEF NoCard
        <5> QED
          BY <1>1, <2>5, <3>1, <3>2, <4>2, <5>1, <5>2 DEF KeptOnCards
      <4> QED
        BY <3>2, <3>8, <4>1, <4>2
    <3>9. KeptOnCards(d, s, x)
      BY <1>1, <2>5, <3>5, <3>6, <3>7, <3>8 DEF KeptOnCards
    <3> QED
      BY <1>1, <2>5, <3>9 DEF Kept
  <2> QED
    BY <2>3, <2>4, <2>5
<1> QED
  BY <1>1, <1>4, <1>5, <1>6, <1>7, <1>8, <1>9, <1>10 DEF Sound, d

(* The lock is held only by those that came to it.                         *)
LEMMA InsideHasLock ==
  ASSUME NEW c \in Presentations, NEW x \in SUBSET PoolItems, Busy(c, x), c.inside, c.mode # "direct"
  PROVE  c.lock # <<>>
BY DEF Busy, Does, OfCard

(* AgentOutputFinished: the finishing task comes to the lock.              *)
LEMMA Finishing ==
  ASSUME NEW c \in Presentations, NEW s \in Seq(Contents), NEW x \in SUBSET PoolItems,
         NEW ok \in BOOLEAN, Sound(c, s, x, ok), c.mode # "direct", c.finish = "no", ~Does(x, {"feed"})
  PROVE  Finishes(c) \in Presentations /\ Sound(Finishes(c), s, x, ok)
<1> DEFINE d == Finishes(c)
<1>1. "finish" \notin ToSet(c.lock) /\ c.mode \in {"card", "text"} /\ c.lock \in Locks
  BY DEF Sound, Locked, Presentations, Modes
<1>2. /\ d \in Presentations /\ SameTexts(c, d) /\ d.lock = Append(c.lock, "finish") /\ d.loop = c.loop
      /\ d.inside = c.inside /\ d.id = c.id
      /\ c.mode = "card" => d.status = "done" /\ d.dirty /\ d.finish = "status"
      /\ c.mode = "text" => d.status = c.status /\ d.dirty = c.dirty /\ d.finish = "flush"
  BY <1>1, FinishesIs
<1> HIDE DEF d
<1>3. /\ ToSet(d.lock) = ToSet(c.lock) \cup {"finish"} /\ d.lock # <<>>
      /\ Head(d.lock) = IF c.lock = <<>> THEN "finish" ELSE Head(c.lock)
  BY <1>1, <1>2, LockGrows
<1>4. c.lock = <<>> => ~c.inside
  BY InsideHasLock DEF Sound
<1>5. c.lock # <<>> => Head(c.lock) # "finish"
  BY <1>1, LockShrinks
<1>6. Locked(d) /\ OfMode(d)
  BY <1>1, <1>2, <1>3, <1>4, <1>5 DEF Sound, Locked, OfMode, SameTexts
<1>7. Busy(d, x)
  BY <1>1, <1>2, <1>3 DEF Sound, Busy, SameTexts
<1>8. Sound(d, s, x, ok)
  BY <1>1, <1>2, <1>6, <1>7, Staying
<1> QED
  BY <1>2, <1>8 DEF d

(* What there is is sent to be shown.                                      *)
LEMMA Emitting ==
  ASSUME NEW c \in Presentations, NEW d \in Presentations, NEW s \in Seq(Contents),
         NEW x \in SUBSET PoolItems, NEW ok \in BOOLEAN, NEW e \in PoolItems, Sound(c, s, x, ok),
         c.lock # <<>>, ~c.inside,
         d.mode = c.mode, d.fed = c.fed, d.id = c.id, d.status = c.status, d.rolls = c.rolls,
         d.raced = c.raced, d.lock = c.lock, d.loop = c.loop, d.finish = c.finish, ~d.dirty, d.inside,
         d.body = (IF c.mode = "card" THEN c.body ELSE <<>>),
         e.does = "emit", e.card = c.id, e.content = Card(c, c.body, FALSE)
  PROVE  Sound(d, s, x \cup {e}, ok)
<1> DEFINE y == x \cup {e}
<1>1. c.mode \in {"card", "text"}
  BY DEF Sound, OfMode, Presentations, Modes
<1>2. /\ \A i \in y : i \in x \/ i = e
      /\ \A i \in x : i \in y /\ i.does \notin OfCard
      /\ e \in y /\ CallsOf(y) = CallsOf(x) \cup {e}
  BY DEF Sound, Busy, Does, CallsOf, Calls, OfCard
<1>3. /\ c.body \in Bodies /\ c.fed \in Nat /\ c.id \in Nat /\ Len(s) \in Nat
      /\ e.content.body = c.body /\ e.content.status = c.status /\ e.content.next = FALSE
  BY TextTypes DEF Card
<1> HIDE DEF y
<1>4. Locked(d) /\ OfMode(d)
  BY <1>1 DEF Sound, Locked, OfMode
<1>5. Busy(d, y)
  BY <1>1, <1>2 DEF Sound, Busy, Does, OfCard
<1>6. Numbered(d, s, y)
  BY <1>2 DEF Sound, Numbered
<1>7. Worded(d, s, y)
  <2>1. Consecutive(<<>>)
    BY DEF Consecutive
  <2> QED
    BY <1>1, <1>2, <1>3, <2>1 DEF Sound, Worded
<1>8. Ended(d, s, y)
  <2>1. Whole(d, e.content)
    BY <1>1, <1>3 DEF Sound, Worded, OfMode, Whole
  <2> QED
    BY <1>2, <1>3, <2>1 DEF Sound, Ended, Whole
<1>9. ASSUME ok PROVE Ordered(d, s, y)
  <2>1. Ordered(c, s, x) /\ Numbers(c, s, x) /\ Sound(c, s, x, TRUE)
    BY <1>9 DEF Sound, Ordered
  <2>2. Numbers(d, s, y)
    BY <1>2, <2>1 DEF Numbers, Sound, OfMode
  <2>3. \A v \in Versions : Of(c, s, x, v) => v.card <= Current(c, s)
    BY <2>1, CurrentIsLast
  <2>4. Target(s, e) = Current(c, s) /\ Current(c, s) \in Nat
    BY <1>3 DEF Target, Current, NoCard
  <2>5. CASE c.mode = "card"
    <3>1. \A v \in Versions : Of(d, s, y, v) => Of(c, s, x, v)
      BY <1>2, <1>3, <2>4, <2>5 DEF Of, Current
    <3> QED
      BY <2>1, <2>2, <3>1 DEF Ordered
  <2>6. CASE c.mode = "text"
    <3>1. /\ Current(c, s) = Len(s) + 1 /\ Current(d, s) = Len(s) + 2 /\ d.body = <<>>
          /\ Version(Current(d, s), d.body).card = Len(s) + 2
          /\ Version(Current(d, s), d.body).body = <<>>
      BY <2>6 DEF Current, Sound, OfMode, Version
    <3>2. \A v \in Versions : Of(d, s, y, v) => Of(c, s, x, v) \/ v = Version(Current(d, s), d.body)
      BY <1>2, <1>3, <2>4, <2>6 DEF Of
    <3>3. \A b \in Bodies : Before(b, <<>>)
      BY DEF Before, ToSet
    <3>4. UpTo(<<>>, d.fed)
      BY DEF UpTo, ToSet
    <3>5. ASSUME NEW v \in Versions, NEW w \in Versions, Of(d, s, y, v), Of(d, s, y, w), v.card < w.card
          PROVE  Before(v.body, w.body)
      <4>1. CASE w = Version(Current(d, s), d.body)
        BY <3>1, <3>3, <4>1, TextTypes
      <4>2. CASE Of(c, s, x, w)
        <5>1. v # Version(Current(d, s), d.body)
          BY <1>3, <2>3, <3>1, <3>5, <4>2, TextTypes
        <5> QED
          BY <2>1, <3>2, <3>5, <4>2, <5>1 DEF Ordered
      <4> QED
        BY <3>2, <3>5, <4>1, <4>2
    <3>6. ASSUME NEW v \in Versions, Of(d, s, y, v) PROVE UpTo(v.body, d.fed)
      BY <2>1, <3>1, <3>2, <3>4, <3>6 DEF Ordered
    <3> QED
      BY <2>2, <3>5, <3>6 DEF Ordered
  <2> QED
    BY <1>1, <2>5, <2>6
<1>10. ASSUME ok, ~d.raced PROVE Kept(d, s, y)
  <2>1. Kept(c, s, x)
    BY <1>10 DEF Sound
  <2>2. CASE c.mode = "card"
    <3>1. KeptOnCards(c, s, x)
      BY <2>1, <2>2 DEF Kept
    <3>2. \A n \in Nat, b \in Bodies : Due(d, y, n, b) <=> Due(c, x, n, b)
      BY <1>2 DEF Due
    <3>3. \A i \in y : i.does = "emit" => i = e
      BY <1>2 DEF OfCard
    <3>4. e.content = Final(d)
      BY <2>2 DEF Card, Final
    <3>5. \A i \in y : i.does = "emit" => i.content = Final(d) /\ i.card \in {NoCard, d.id}
      BY <3>3, <3>4
    <3>6. KeptOnCards(d, s, y)
      BY <1>3, <2>2, <3>1, <3>2, <3>5 DEF KeptOnCards
    <3> QED
      BY <2>2, <3>6 DEF Kept
  <2>3. CASE c.mode = "text"
    BY <1>2, <1>3, <2>1, <2>3 DEF Kept, KeptInMessages
  <2> QED
    BY <1>1, <2>2, <2>3
<1> QED
  BY <1>4, <1>5, <1>6, <1>7, <1>8, <1>9, <1>10 DEF Sound, y

(* The task of r begins, and its call e comes to the pool.                 *)
RollBegun(c, d, e, r) ==
  /\ r \in c.rolls /\ d.rolls = c.rolls \ {r}
  /\ d.mode = c.mode /\ d.fed = c.fed /\ d.body = c.body /\ d.raced = c.raced /\ d.id = c.id
  /\ d.status = c.status /\ d.dirty = c.dirty
  /\ d.lock = c.lock /\ d.loop = c.loop /\ d.finish = c.finish /\ d.inside = c.inside
  /\ e.does = "roll" /\ e.card = r.card /\ e.content = Card(c, r.body, TRUE)

(* _patch_roll_footer begins.                                              *)
LEMMA RollBeginning ==
  ASSUME NEW c \in Presentations, NEW d \in Presentations, NEW s \in Seq(Contents),
         NEW x \in SUBSET PoolItems, NEW ok \in BOOLEAN, NEW e \in PoolItems, NEW r,
         Sound(c, s, x, ok), RollBegun(c, d, e, r)
  PROVE  Sound(d, s, x \cup {e}, ok)
<1> USE DEF RollBegun
<1> DEFINE y == x \cup {e}
<1>1. /\ d.mode = c.mode /\ d.fed = c.fed /\ d.body = c.body /\ d.raced = c.raced /\ d.id = c.id
      /\ d.status = c.status /\ d.dirty = c.dirty
  OBVIOUS
<1>2. c.mode = "card"
  BY DEF Sound, OfMode
<1>3. /\ \A i \in y : i \in x \/ i = e
      /\ \A i \in x : i \in y
      /\ e \in y /\ CallsOf(y) = CallsOf(x) \cup {e}
  BY DEF CallsOf, Calls
<1>4. /\ e.content.body = r.body /\ e.content.next = TRUE /\ r = Version(r.card, r.body)
      /\ r.card \in 1..Len(s) /\ r.body \in Bodies /\ r.card \in Nat /\ Len(s) \in Nat /\ r.card # NoCard
  <2>1. r \in Versions /\ r.card \in 1..Len(s) /\ Len(s) \in Nat
    BY TextTypes DEF Sound, Numbered
  <2>2. r = Version(r.card, r.body)
    BY <2>1 DEF Versions, Version
  <2> QED
    BY <2>1, <2>2, TextTypes DEF Card, NoCard
<1> HIDE DEF y
<1>5. Locked(d) /\ OfMode(d)
  BY <1>1, <1>2 DEF Sound, Locked, OfMode
<1>6. Busy(d, y)
  BY <1>1, <1>2, <1>3 DEF Sound, Busy, Does, OfCard
<1>7. Numbered(d, s, y)
  BY <1>1, <1>3, <1>4 DEF Sound, Numbered
<1>8. Worded(d, s, y)
  BY <1>1, <1>3, <1>4 DEF Sound, Worded
<1>9. Ended(d, s, y)
  BY <1>1, <1>3, <1>4 DEF Sound, Ended, Whole
<1>10. ASSUME ok PROVE Ordered(d, s, y)
  <2>1. Ordered(c, s, x) /\ Numbers(c, s, x)
    BY <1>10 DEF Sound, Ordered
  <2>2. Numbers(d, s, y)
    BY <1>1, <1>2, <1>3, <1>4, <2>1 DEF Numbers
  <2>3. Current(d, s) = Current(c, s)
    BY <1>1 DEF Current
  <2>4. r = Version(Target(s, e), e.content.body)
    BY <1>4 DEF Target
  <2>5. \A v \in Versions : Of(d, s, y, v) => Of(c, s, x, v)
    BY <1>1, <1>3, <2>3, <2>4 DEF Of
  <2> QED
    BY <1>1, <2>1, <2>2, <2>5 DEF Ordered
<1>11. ASSUME ok, ~d.raced PROVE Kept(d, s, y)
  <2>1. KeptOnCards(c, s, x)
    BY <1>1, <1>2, <1>11 DEF Sound, Kept
  <2>2. \A n \in Nat, b \in Bodies : Version(n, b) = r <=> n = r.card /\ b = r.body
    BY <1>4 DEF Version
  <2>3. ASSUME NEW n \in Nat, NEW b \in Bodies PROVE Due(d, y, n, b) <=> Due(c, x, n, b)
    <3>1. CASE n = r.card /\ b = r.body
      <4>1. Due(c, x, n, b)
        BY <2>2, <3>1 DEF Due
      <4>2. Due(d, y, n, b)
        BY <1>3, <1>4, <3>1 DEF Due
      <4> QED
        BY <4>1, <4>2
    <3>2. CASE ~(n = r.card /\ b = r.body)
      <4>1. Version(n, b) \in d.rolls <=> Version(n, b) \in c.rolls
        BY <2>2, <3>2
      <4> QED
        BY <1>3, <1>4, <3>2, <4>1 DEF Due
    <3> QED
      BY <3>1, <3>2
  <2>4. \A i \in y : i.does = "emit" => i \in x
    BY <1>3
  <2>5. \A i \in x : i.does = "emit" => i \in y
    BY <1>3
  <2>6. Final(d) = Final(c)
    BY <1>1 DEF Final
  <2>7. KeptOnCards(d, s, y)
    BY <1>1, <2>1, <2>3, <2>4, <2>5, <2>6 DEF KeptOnCards
  <2> QED
    BY <1>1, <1>2, <2>7 DEF Kept
<1> QED
  BY <1>5, <1>6, <1>7, <1>8, <1>9, <1>10, <1>11 DEF Sound, y

(* Without an output a text is sent at once.                               *)
LEMMA Sending ==
  ASSUME NEW c \in Presentations, NEW d \in Presentations, NEW s \in Seq(Contents),
         NEW x \in SUBSET PoolItems, NEW ok \in BOOLEAN, NEW e \in PoolItems, Sound(c, s, x, ok),
         c.mode = "direct", ~c.inside, Does(x, {"feed"}),
         SameTexts([c EXCEPT !.fed = @ + 1], d), d.id = c.id, d.status = c.status, d.dirty = c.dirty,
         d.lock = c.lock, d.loop = c.loop, d.finish = c.finish, d.inside,
         e.does = "send", e.card = NoCard, e.content = Card(c, <<c.fed + 1>>, FALSE)
  PROVE  Sound(d, s, x \cup {e}, ok)
<1> DEFINE y == x \cup {e}
<1>1. d.mode = c.mode /\ d.fed = c.fed + 1 /\ d.body = c.body /\ d.rolls = c.rolls /\ d.raced = c.raced
  BY DEF SameTexts, Presentations
<1>2. /\ c.lock = <<>> /\ c.finish = "no" /\ c.body = <<>> /\ c.id = NoCard /\ c.rolls = {}
      /\ c.status = "running"
  BY DEF Sound, OfMode, Busy
<1>3. /\ \A i \in y : i \in x \/ i = e
      /\ \A i \in x : i \in y /\ i.does \notin Calls
      /\ e \in y /\ CallsOf(y) = {e} /\ CallsOf(x) = {}
  BY DEF Sound, Busy, Does, OfCard, CallsOf, Calls
<1>4. /\ e.content.body = <<c.fed + 1>> /\ e.content.status = "running" /\ e.content.next = FALSE
      /\ c.fed \in Nat /\ Len(s) \in Nat /\ DOMAIN s = 1..Len(s) /\ ToSet(<<c.fed + 1>>) = {c.fed + 1}
      /\ ToSet(<<>>) = {}
  <2>1. c.fed \in Nat /\ <<>> \in Seq(Nat)
    BY TextTypes
  <2>2. ToSet(<<c.fed + 1>>) = {c.fed + 1} /\ ToSet(<<>>) = {}
    BY <2>1, TextsGrow
  <2> QED
    BY <1>2, <2>1, <2>2 DEF Card
<1> HIDE DEF y
<1>5. Locked(d) /\ OfMode(d)
  BY <1>1, <1>2 DEF Sound, Locked, OfMode
<1>6. Busy(d, y)
  BY <1>1, <1>2, <1>3 DEF Sound, Busy, Does, OfCard, Calls
<1>7. Numbered(d, s, y)
  BY <1>1, <1>2, <1>3, <1>4 DEF Sound, Numbered, NoCard
<1>8. Worded(d, s, y)
  <2>1. Consecutive(<<c.fed + 1>>) /\ Consecutive(<<>>)
    BY <1>4 DEF Consecutive
  <2> QED
    BY <1>1, <1>2, <1>3, <1>4, <2>1 DEF Sound, Worded
<1>9. Ended(d, s, y)
  BY <1>1, <1>2, <1>3, <1>4 DEF Sound, Ended, Whole
<1>10. ASSUME ok PROVE Ordered(d, s, y)
  <2>1. Ordered(c, s, x) /\ Numbers(c, s, x) /\ Sound(c, s, x, TRUE)
    BY <1>10 DEF Sound, Ordered
  <2>2. Numbers(d, s, y)
    BY <1>1, <1>2, <1>3 DEF Numbers
  <2>3. Current(d, s) = Len(s) + 1 /\ Current(c, s) = Len(s) + 1 /\ Target(s, e) = Len(s) + 1
    BY <1>1, <1>2 DEF Current, Target
  <2> DEFINE new == Version(Len(s) + 1, <<c.fed + 1>>)
  <2>4. new.card = Len(s) + 1 /\ new.body = <<c.fed + 1>>
    BY DEF Version
  <2>5. \A v \in Versions : Of(d, s, y, v) => Of(c, s, x, v) \/ v = new
    BY <1>1, <1>3, <1>4, <2>3 DEF Of
  <2> HIDE DEF new
  <2>6. ASSUME NEW v \in Versions, Of(c, s, x, v)
        PROVE  /\ v.card <= Len(s) + 1 /\ v.card \in Nat
               /\ \A k \in ToSet(v.body) : k \in Nat /\ k <= c.fed
    <3>1. v.card <= Len(s) + 1
      BY <2>1, <2>3, <2>6, CurrentIsLast
    <3>2. UpTo(v.body, c.fed)
      BY <2>1, <2>6 DEF Ordered
    <3>3. v.card \in Nat /\ v.body \in Seq(Nat)
      BY TextTypes
    <3>4. ToSet(v.body) \subseteq Nat
      BY <1>4, <3>3, TextsGrow
    <3> QED
      BY <3>1, <3>2, <3>3, <3>4 DEF UpTo
  <2>7. ASSUME NEW v \in Versions, NEW w \in Versions, Of(d, s, y, v), Of(d, s, y, w), v.card < w.card
        PROVE  Before(v.body, w.body)
    <3>1. Of(c, s, x, v)
      BY <1>4, <2>4, <2>5, <2>6, <2>7
    <3>2. CASE Of(c, s, x, w)
      BY <2>1, <2>7, <3>1, <3>2 DEF Ordered
    <3>3. CASE w = new
      <4>1. \A k \in ToSet(v.body) : k \in Nat /\ k <= c.fed
        BY <2>6, <3>1
      <4>2. \A l \in ToSet(w.body) : l = c.fed + 1
        BY <1>4, <2>4, <3>3
      <4> QED
        BY <1>4, <4>1, <4>2 DEF Before
    <3> QED
      BY <2>5, <2>7, <3>2, <3>3
  <2>8. ASSUME NEW v \in Versions, Of(d, s, y, v) PROVE UpTo(v.body, d.fed)
    <3>1. CASE Of(c, s, x, v)
      <4>1. \A k \in ToSet(v.body) : k \in Nat /\ k <= c.fed
        BY <2>6, <3>1
      <4> QED
        BY <1>1, <1>4, <4>1 DEF UpTo
    <3>2. CASE v = new
      BY <1>1, <1>4, <2>4, <3>2 DEF UpTo
    <3> QED
      BY <2>5, <2>8, <3>1, <3>2
  <2> QED
    BY <2>2, <2>7, <2>8 DEF Ordered
<1>11. ASSUME ok, ~d.raced PROVE Kept(d, s, y)
  <2>1. KeptInMessages(c, s, x)
    BY <1>1, <1>11 DEF Sound, Kept
  <2>2. \A k \in 1..d.fed : k \in 1..c.fed \/ k = c.fed + 1
    BY <1>1, <1>4
  <2>3. KeptInMessages(d, s, y)
    BY <1>1, <1>3, <1>4, <2>1, <2>2 DEF KeptInMessages
  <2> QED
    BY <1>1, <2>3 DEF Kept
<1> QED
  BY <1>5, <1>6, <1>7, <1>8, <1>9, <1>10, <1>11 DEF Sound, y

LEMMA Positions ==
  ASSUME NEW s \in Seq(Contents)
  PROVE  Len(s) \in Nat /\ \A j \in DOMAIN s : j \in Nat /\ j # 0 /\ j <= Len(s)
OBVIOUS

(* What the conversation shows when a call is made                         *)
LEMMA ShownIs ==
  ASSUME NEW s \in Seq(Contents), NEW i \in PoolItems, i.does \in Calls, i.card <= Len(s)
  PROVE  /\ Shown(s, i) \in Seq(Contents) /\ Target(s, i) \in 1..Len(Shown(s, i))
         /\ DOMAIN Shown(s, i) = 1..Len(Shown(s, i)) /\ DOMAIN s = 1..Len(s) /\ Len(s) \in Nat
         /\ Len(Shown(s, i)) = IF i.card = NoCard THEN Len(s) + 1 ELSE Len(s)
         /\ \A j \in DOMAIN Shown(s, i) :
              IF j = Target(s, i) THEN Shown(s, i)[j] = i.content
              ELSE j \in DOMAIN s /\ Shown(s, i)[j] = s[j]
         /\ \A j \in DOMAIN s : j # Target(s, i) => j \in DOMAIN Shown(s, i) /\ Shown(s, i)[j] = s[j]
<1>1. i.card \in Nat /\ i.content \in Contents
  BY ItemTypes DEF Calls, OfPool
<1>2. DOMAIN s = 1..Len(s) /\ Len(s) \in Nat
  OBVIOUS
<1>3. CASE i.card = NoCard
  <2>1. Shown(s, i) = Append(s, i.content) /\ Target(s, i) = Len(s) + 1
    BY <1>3 DEF Shown, Target
  <2>2. /\ Append(s, i.content) \in Seq(Contents) /\ Len(Append(s, i.content)) = Len(s) + 1
        /\ DOMAIN Append(s, i.content) = 1..(Len(s) + 1)
        /\ Append(s, i.content)[Len(s) + 1] = i.content
        /\ \A k \in DOMAIN s : Append(s, i.content)[k] = s[k]
    BY <1>1, Appends
  <2> QED
    BY <1>2, <1>3, <2>1, <2>2
<1>4. CASE i.card # NoCard
  <2>1. Shown(s, i) = [s EXCEPT ![i.card] = i.content] /\ Target(s, i) = i.card /\ i.card \in 1..Len(s)
    BY <1>1, <1>2, <1>4 DEF Shown, Target, NoCard
  <2>2. /\ [s EXCEPT ![i.card] = i.content] \in Seq(Contents)
        /\ Len([s EXCEPT ![i.card] = i.content]) = Len(s)
        /\ DOMAIN [s EXCEPT ![i.card] = i.content] = 1..Len(s)
        /\ \A j \in 1..Len(s) : [s EXCEPT ![i.card] = i.content][j] = IF j = i.card THEN i.content ELSE s[j]
    BY <1>1, <2>1
  <2> QED
    BY <1>2, <1>4, <2>1, <2>2
<1> QED
  BY <1>3, <1>4

(* The call i, one of the items x, is done or failed: the presentation is  *)
(* d, the conversation shows z, and the items y are left.                  *)
Answered(c, d, s, z, x, y, i) ==
  /\ y \subseteq x /\ i.does \in Calls /\ (z = s \/ z = Shown(s, i))
  /\ SameTexts(c, d) /\ d.status = c.status /\ d.dirty = c.dirty
  /\ d.finish = "no" <=> c.finish = "no"
  /\ d.id = c.id \/ d.id = Len(z)

(* A card that is shown comes from what was shown or under way.            *)
LEMMA AnsweredKeeps ==
  ASSUME NEW c \in Presentations, NEW d \in Presentations, NEW s \in Seq(Contents), NEW z \in Seq(Contents),
         NEW x \in SUBSET PoolItems, NEW y \in SUBSET PoolItems, NEW ok \in BOOLEAN, NEW i \in x,
         Sound(c, s, x, ok), Answered(c, d, s, z, x, y, i)
  PROVE  Numbered(d, z, y) /\ Worded(d, z, y) /\ Ended(d, z, y)
<1> USE DEF Answered
<1>1. i \in CallsOf(x) /\ i.card <= Len(s) /\ CallsOf(y) \subseteq CallsOf(x)
  BY DEF CallsOf, Sound, Numbered
<1>2. Len(z) \in Nat /\ DOMAIN z = 1..Len(z) /\ Len(s) \in Nat /\ DOMAIN s = 1..Len(s) /\ Len(z) >= Len(s)
  BY <1>1, ShownIs
<1>3. \A j \in DOMAIN z : z[j] = i.content \/ \E k \in DOMAIN s : z[j] = s[k]
  BY <1>1, ShownIs
<1>4. Numbered(d, z, y)
  <2>1. c.id \in Nat /\ d.id \in Nat /\ d.id <= Len(z)
    BY <1>2, TextTypes DEF Sound, Numbered
  <2>2. \A k \in CallsOf(y) : k.card <= Len(z)
    <3>1. \A k \in CallsOf(y) : k.card \in Nat /\ k.card <= Len(s)
      BY <1>1, ItemTypes DEF Sound, Numbered, CallsOf, Calls, OfPool
    <3> QED
      BY <1>2, <3>1
  <2>3. \A r \in d.rolls : r.card \in 1..Len(z)
    BY <1>2 DEF Sound, Numbered, SameTexts
  <2> QED
    BY <2>1, <2>2, <2>3 DEF Numbered
<1>5. Worded(d, z, y)
  BY <1>1, <1>3 DEF Sound, Worded, SameTexts
<1>6. Ended(d, z, y)
  BY <1>1, <1>3 DEF Sound, Ended, Whole, SameTexts
<1> QED
  BY <1>2, <1>4, <1>5, <1>6

(* The versions of cards do not change when one of them is shown.          *)
LEMMA AnsweredOrder ==
  ASSUME NEW c \in Presentations, NEW d \in Presentations, NEW s \in Seq(Contents), NEW z \in Seq(Contents),
         NEW x \in SUBSET PoolItems, NEW y \in SUBSET PoolItems, NEW i \in x,
         Ordered(c, s, x), y \subseteq x, i.does \in Calls, i.card <= Len(s), z = Shown(s, i),
         SameTexts(c, d), d.id \in {NoCard, Len(z)}, Current(d, z) = Current(c, s),
         \A j \in CallsOf(y) : j.card = NoCard => Len(z) = Len(s) /\ d.id = NoCard
  PROVE  Ordered(d, z, y)
<1>1. i \in CallsOf(x) /\ CallsOf(y) \subseteq CallsOf(x)
  BY DEF CallsOf
<1>2. /\ Target(s, i) \in DOMAIN z
      /\ \A j \in DOMAIN z : IF j = Target(s, i) THEN z[j] = i.content ELSE j \in DOMAIN s /\ z[j] = s[j]
  BY ShownIs
<1>3. \A v \in Versions : Of(d, z, y, v) => Of(c, s, x, v)
  <2> SUFFICES ASSUME NEW v \in Versions, Of(d, z, y, v) PROVE Of(c, s, x, v)
    OBVIOUS
  <2>1. ASSUME NEW j \in DOMAIN z, v = Version(j, z[j].body) PROVE Of(c, s, x, v)
    BY <1>1, <1>2, <2>1 DEF Of
  <2>2. ASSUME NEW j \in CallsOf(y), v = Version(Target(z, j), j.content.body) PROVE Of(c, s, x, v)
    <3>1. Target(z, j) = Target(s, j)
      BY DEF Target
    <3> QED
      BY <1>1, <2>2, <3>1 DEF Of
  <2>3. v \in d.rolls => Of(c, s, x, v)
    BY DEF Of, SameTexts
  <2>4. v = Version(Current(d, z), d.body) => Of(c, s, x, v)
    BY DEF Of, SameTexts
  <2> QED
    BY <2>1, <2>2, <2>3, <2>4 DEF Of
<1>4. Numbers(d, z, y)
  BY <1>1 DEF Ordered, Numbers, SameTexts
<1> QED
  BY <1>3, <1>4 DEF Ordered, SameTexts

(* A call of _emit, i of the items x, leaves z shown, the items y and the  *)
(* card id to the presentation; well says that it did not go wrong.        *)
EmitAnswered(c, d, s, z, x, y, i, id, ok, well) ==
  /\ d = Leaves([c EXCEPT !.id = id])
  /\ i.does = "emit" /\ y = x \ {i} /\ (z = s \/ z = Shown(s, i))
  /\ id = c.id \/ (id = Len(z) /\ c.mode = "card" /\ z = Shown(s, i))
  /\ well => /\ ok /\ z = Shown(s, i)
             /\ id = IF i.card = NoCard /\ c.mode = "card" THEN Len(z) ELSE c.id

(* _emit goes on: the card is there, if it is not known already.           *)
LEMMA EmitReturns ==
  ASSUME NEW c \in Presentations, NEW s \in Seq(Contents), NEW z \in Seq(Contents),
         NEW x \in SUBSET PoolItems, NEW y \in SUBSET PoolItems, NEW ok \in BOOLEAN, NEW well \in BOOLEAN,
         NEW d, NEW i \in x, NEW id \in Nat,
         Single(x), Sound(c, s, x, ok), EmitAnswered(c, d, s, z, x, y, i, id, ok, well)
  PROVE  d \in Presentations /\ Sound(d, z, y, well)
<1> DEFINE e == [c EXCEPT !.id = id]
<1>0. /\ i.does = "emit" /\ y = x \ {i} /\ (z = s \/ z = Shown(s, i))
      /\ id = c.id \/ (id = Len(z) /\ c.mode = "card" /\ z = Shown(s, i))
      /\ well => /\ ok /\ z = Shown(s, i)
                 /\ id = IF i.card = NoCard /\ c.mode = "card" THEN Len(z) ELSE c.id
  BY DEF EmitAnswered
<1> USE <1>0
<1>1. /\ e \in Presentations /\ SameTexts(c, e) /\ e.id = id /\ e.status = c.status /\ e.dirty = c.dirty
      /\ e.lock = c.lock /\ e.loop = c.loop /\ e.finish = c.finish /\ e.inside = c.inside
  BY DEF Presentations, SameTexts
<1>2. /\ i \in CallsOf(x) /\ c.mode \in {"card", "text"} /\ c.inside /\ c.lock # <<>> /\ i.card <= Len(s)
      /\ i.card \in Nat
  BY ItemTypes DEF Sound, Busy, Numbered, Does, OfCard, OfPool, Calls, CallsOf, Presentations, Modes
<1>3. Locked(e) /\ OfMode(e)
  BY <1>1, <1>2 DEF Sound, Locked, OfMode, SameTexts
<1>4. d = Leaves(e)
  BY DEF EmitAnswered
<1> HIDE DEF e
<1>5. /\ d \in Presentations /\ Same(e, d) /\ ~d.inside /\ (d.finish = "no" <=> c.finish = "no")
      /\ Locked(d) /\ OfMode(d)
  BY <1>4, <1>1, <1>2, <1>3, LeavesIs
<1>6. SameTexts(c, d) /\ d.id = id /\ d.status = c.status /\ d.dirty = c.dirty
  BY <1>1, <1>5 DEF Same, SameTexts
<1>7. \A j \in y : j \in x /\ j.does \notin OfCard
  BY DEF Single, Alike, OfCard
<1>8. Busy(d, y)
  BY <1>5, <1>6, <1>7 DEF Sound, Busy, Does, OfCard, SameTexts
<1>9. Numbered(d, z, y) /\ Worded(d, z, y) /\ Ended(d, z, y)
  <2>1. Answered(c, d, s, z, x, y, i)
    BY <1>2, <1>5, <1>6 DEF CallsOf, Answered
  <2> QED
    BY <1>5, <2>1, AnsweredKeeps
<1>10. /\ Len(z) \in Nat /\ Len(s) \in Nat
       /\ \A j \in DOMAIN z : j \in Nat /\ j # 0
       /\ \A j \in DOMAIN s : j \in Nat /\ j # 0 /\ j <= Len(s)
  BY Positions
<1>11. ASSUME well
      PROVE  /\ ok /\ z = Shown(s, i) /\ d.id = IF i.card = NoCard /\ c.mode = "card" THEN Len(z) ELSE c.id
             /\ Ordered(c, s, x) /\ Numbers(c, s, x)
             /\ Len(z) = IF i.card = NoCard THEN Len(s) + 1 ELSE Len(s)
  BY <1>2, <1>6, <1>11, ShownIs DEF Sound, Ordered, CallsOf
<1>12. ASSUME well PROVE Ordered(d, z, y)
  <2>1. Current(d, z) = Current(c, s)
    <3>1. i.card = NoCard => c.id = NoCard
      BY <1>2, <1>11, <1>12 DEF Numbers
    <3>2. CASE c.mode = "card"
      <4>1. CASE i.card = NoCard
        <5>1. Current(c, s) = Len(s) + 1 /\ d.id = Len(s) + 1
          BY <1>11, <1>12, <3>1, <3>2, <4>1 DEF Current
        <5> QED
          BY <1>10, <5>1 DEF Current, NoCard
      <4>2. CASE i.card # NoCard
        BY <1>6, <1>11, <1>12, <3>2, <4>2 DEF Current, SameTexts
      <4> QED
        BY <4>1, <4>2
    <3>3. CASE c.mode = "text"
      <4>1. i.card = NoCard /\ c.id = NoCard
        BY <1>2, <1>11, <1>12, <3>3 DEF Numbers
      <4> QED
        BY <1>2, <1>5, <1>6, <1>10, <1>11, <1>12, <3>3, <4>1 DEF Current, SameTexts
    <3> QED
      BY <1>2, <3>2, <3>3
  <2>2. \A j \in CallsOf(y) : j.card # NoCard
    BY <1>7, <1>11, <1>12 DEF Numbers, CallsOf, Calls, OfCard
  <2>3. d.id \in {NoCard, Len(z)}
    BY <1>2, <1>11, <1>12 DEF Numbers
  <2>4. /\ Ordered(c, s, x) /\ y \subseteq x /\ i.does \in Calls /\ i.card <= Len(s) /\ z = Shown(s, i)
        /\ \A j \in CallsOf(y) : j.card = NoCard => Len(z) = Len(s) /\ d.id = NoCard
    BY <1>2, <1>11, <1>12, <2>2 DEF CallsOf
  <2> QED
    BY <1>5, <1>6, <2>1, <2>3, <2>4, AnsweredOrder
<1>13. ASSUME well, ~d.raced PROVE Kept(d, z, y)
  <2>1. Kept(c, s, x)
    BY <1>6, <1>11, <1>13 DEF Sound, SameTexts
  <2>2. /\ Target(s, i) \in DOMAIN z /\ z[Target(s, i)] = i.content
        /\ \A j \in DOMAIN z : j # Target(s, i) => j \in DOMAIN s /\ z[j] = s[j]
        /\ \A j \in DOMAIN s : j # Target(s, i) => j \in DOMAIN z /\ z[j] = s[j]
    BY <1>2, <1>11, <1>13, ShownIs DEF CallsOf
  <2>3. CASE c.mode = "card"
    <3>1. KeptOnCards(c, s, x)
      BY <2>1, <2>3 DEF Kept
    <3>2. \A n \in Nat, b \in Bodies : Due(d, y, n, b) <=> Due(c, x, n, b)
      BY <1>6, <1>7 DEF Due, SameTexts
    <3>3. /\ d.id = Target(s, i) /\ d.id # NoCard /\ ~z[d.id].next
          /\ (c.id = NoCard /\ d.id = Len(s) + 1) \/ d.id = c.id
      <4>1. ~i.content.next
        BY <1>2 DEF Sound, Ended
      <4>2. i.card \in {NoCard, c.id} /\ (i.card = NoCard => c.id = NoCard)
        BY <1>2, <1>11, <1>13, <3>1 DEF KeptOnCards, Numbers
      <4>3. CASE i.card = NoCard
        <5>1. c.id = NoCard /\ d.id = Len(s) + 1 /\ Target(s, i) = Len(s) + 1
          BY <1>11, <1>13, <2>3, <4>2, <4>3 DEF Target
        <5> QED
          BY <1>10, <2>2, <4>1, <5>1 DEF NoCard
      <4>4. CASE i.card # NoCard
        <5>1. i.card = c.id /\ d.id = c.id /\ Target(s, i) = c.id
          BY <1>11, <1>13, <4>2, <4>4 DEF Target
        <5> QED
          BY <2>2, <4>1, <4>4, <5>1
      <4> QED
        BY <4>3, <4>4
    <3>4. c.id = NoCard => d.id \notin DOMAIN s
      BY <1>10, <3>3
    <3>5. \A j \in DOMAIN s : s[j].next => j # d.id
      BY <3>1, <3>3, <3>4 DEF KeptOnCards
    <3>6. ASSUME NEW k \in 1..d.fed
          PROVE  \/ k \in ToSet(d.body)
                 \/ \E n \in Nat, b \in Bodies : Due(d, y, n, b) /\ k \in ToSet(b)
                 \/ \E j \in DOMAIN z : z[j].next /\ k \in ToSet(z[j].body)
      <4>1. \/ k \in ToSet(c.body)
            \/ \E n \in Nat, b \in Bodies : Due(c, x, n, b) /\ k \in ToSet(b)
            \/ \E j \in DOMAIN s : s[j].next /\ k \in ToSet(s[j].body)
        BY <1>6, <3>1 DEF KeptOnCards, SameTexts
      <4> QED
        BY <1>6, <2>2, <3>2, <3>3, <3>5, <4>1 DEF SameTexts
    <3>7. ASSUME NEW j \in DOMAIN z PROVE j = d.id \/ z[j].next \/ \E b \in Bodies : Due(d, y, j, b)
      <4>1. CASE j # d.id
        <5>1. j \in DOMAIN s /\ z[j] = s[j] /\ j \in Nat /\ j # c.id
          BY <1>10, <2>2, <3>3, <4>1 DEF NoCard
        <5> QED
          BY <3>1, <3>2, <5>1 DEF KeptOnCards
      <4> QED
        BY <4>1
    <3>8. ASSUME NEW n \in Nat, NEW b \in Bodies, Due(d, y, n, b)
          PROVE  /\ n # d.id /\ n \in DOMAIN z
                 /\ z[n].next => z[n].body = b
                 /\ \A f \in Bodies : Due(d, y, n, f) => f = b
      <4>1. /\ n # c.id /\ n \in DOMAIN s /\ (s[n].next => s[n].body = b)
            /\ \A f \in Bodies : Due(c, x, n, f) => f = b
        BY <3>1, <3>2, <3>8 DEF KeptOnCards
      <4>2. n # d.id
        BY <3>3, <3>4, <4>1
      <4> QED
        BY <2>2, <3>2, <3>3, <4>1, <4>2
    <3>9. ~d.dirty /\ (d.fed > 0 \/ d.status = "done") => z[d.id] = Final(d)
      <4>1. Final(d) = Final(c)
        BY <1>6 DEF Final, SameTexts
      <4> QED
        BY <1>2, <1>6, <2>2, <3>1, <3>3, <4>1 DEF KeptOnCards, SameTexts
    <3>10. \A j \in y : j.does # "emit"
      BY <1>7 DEF OfCard
    <3>11. KeptOnCards(d, z, y)
      BY <1>5, <3>3, <3>6, <3>7, <3>8, <3>9, <3>10 DEF KeptOnCards
    <3> QED
      BY <1>6, <2>3, <3>11 DEF Kept, SameTexts
  <2>4. CASE c.mode = "text"
    <3>1. KeptInMessages(c, s, x) /\ i.card = NoCard
      BY <1>2, <1>11, <1>13, <2>1, <2>4 DEF Kept, Numbers
    <3>2. \A j \in DOMAIN s : j # Target(s, i)
      <4>1. Target(s, i) = Len(s) + 1
        BY <3>1 DEF Target
      <4> QED
        BY <1>10, <4>1
    <3>3. \A j \in CallsOf(x) : j = i \/ j \in CallsOf(y)
      BY DEF CallsOf
    <3>4. KeptInMessages(d, z, y)
      BY <1>6, <2>2, <3>1, <3>2, <3>3 DEF KeptInMessages, SameTexts
    <3> QED
      BY <1>6, <2>4, <3>4 DEF Kept, SameTexts
  <2> QED
    BY <1>2, <2>3, <2>4
<1> QED
  BY <1>5, <1>8, <1>9, <1>12, <1>13 DEF Sound

(* _patch_roll_footer ends; the same patch may be on its way twice.        *)
LEMMA RollReturns ==
  ASSUME NEW c \in Presentations, NEW s \in Seq(Contents), NEW z \in Seq(Contents),
         NEW x \in SUBSET PoolItems, NEW y \in SUBSET PoolItems, NEW ok \in BOOLEAN, NEW well \in BOOLEAN,
         NEW i \in x,
         Sound(c, s, x, ok), i.does = "roll", y \subseteq x, x \ {i} \subseteq y,
         z = s \/ z = Shown(s, i), well => ok /\ z = Shown(s, i)
  PROVE  Sound(c, z, y, well)
<1>1. /\ i \in CallsOf(x) /\ c.mode = "card" /\ i.card <= Len(s) /\ i.card \in Nat /\ SameTexts(c, c)
      /\ i.content.body \in Bodies
  BY ItemTypes, TextTypes
  DEF Sound, Busy, Numbered, Does, OfCard, OfPool, Calls, CallsOf, SameTexts
<1>2. \A j \in x : j.does # "roll" => j \in y
  OBVIOUS
<1>3. Locked(c) /\ OfMode(c) /\ Busy(c, y)
  BY <1>1, <1>2 DEF Sound, Busy, Does, OfCard
<1>4. /\ Numbered(c, z, y) /\ Worded(c, z, y) /\ Ended(c, z, y)
      /\ Len(z) \in Nat /\ DOMAIN z = 1..Len(z) /\ Len(s) \in Nat /\ DOMAIN s = 1..Len(s)
  <2>1. Answered(c, c, s, z, x, y, i)
    BY <1>1 DEF CallsOf, Answered
  <2>2. Numbered(c, z, y) /\ Worded(c, z, y) /\ Ended(c, z, y)
    BY <2>1, AnsweredKeeps
  <2>3. Len(z) \in Nat /\ DOMAIN z = 1..Len(z) /\ Len(s) \in Nat /\ DOMAIN s = 1..Len(s)
    OBVIOUS
  <2> QED
    BY <2>2, <2>3
<1>5. ASSUME well
      PROVE  /\ ok /\ z = Shown(s, i) /\ Ordered(c, s, x) /\ Numbers(c, s, x) /\ i.card # NoCard
             /\ Len(z) = Len(s) /\ Target(s, i) = i.card
  <2>1. ok /\ z = Shown(s, i) /\ Ordered(c, s, x) /\ Numbers(c, s, x) /\ i.card # NoCard
    BY <1>1, <1>5 DEF Sound, Ordered, Numbers
  <2> QED
    BY <1>1, <2>1, ShownIs DEF CallsOf, Target
<1>6. ASSUME well PROVE Ordered(c, z, y)
  <2>1. Current(c, z) = Current(c, s) /\ c.id \in {NoCard, Len(z)}
    BY <1>5, <1>6 DEF Current, Numbers
  <2>2. \A j \in CallsOf(y) : j.card = NoCard => Len(z) = Len(s) /\ c.id = NoCard
    BY <1>5, <1>6 DEF Numbers, CallsOf
  <2> QED
    BY <1>1, <1>5, <1>6, <2>1, <2>2, AnsweredOrder DEF CallsOf
<1>7. ASSUME well, ~c.raced PROVE Kept(c, z, y)
  <2>1. KeptOnCards(c, s, x)
    BY <1>1, <1>5, <1>7 DEF Sound, Kept
  <2>2. /\ i.card \in DOMAIN z /\ z[i.card] = i.content
        /\ \A j \in DOMAIN z : j \in DOMAIN s /\ (j # i.card => z[j] = s[j])
        /\ \A j \in DOMAIN s : j \in DOMAIN z
    BY <1>1, <1>4, <1>5, <1>7, ShownIs DEF CallsOf
  <2>3. Due(c, x, i.card, i.content.body) /\ i.content.next
    BY <1>1 DEF Due, Sound, Ended
  <2>4. \A n \in Nat, b \in Bodies : Due(c, y, n, b) => Due(c, x, n, b)
    BY DEF Due
  <2>5. \A n \in Nat, b \in Bodies :
          Due(c, x, n, b) => Due(c, y, n, b) \/ (n = i.card /\ b = i.content.body)
    BY DEF Due
  <2>6. i.card # c.id
    BY <1>1, <2>1, <2>3 DEF KeptOnCards
  <2>7. ASSUME NEW k \in 1..c.fed
        PROVE  \/ k \in ToSet(c.body)
               \/ \E n \in Nat, b \in Bodies : Due(c, y, n, b) /\ k \in ToSet(b)
               \/ \E j \in DOMAIN z : z[j].next /\ k \in ToSet(z[j].body)
    <3>1. CASE k \in ToSet(i.content.body)
      BY <2>2, <2>3, <3>1
    <3>2. CASE k \notin ToSet(i.content.body)
      <4>1. ASSUME NEW j \in DOMAIN s, s[j].next, k \in ToSet(s[j].body)
            PROVE  z[j].next /\ k \in ToSet(z[j].body) /\ j \in DOMAIN z
        <5>1. j # i.card
          BY <1>1, <2>1, <2>3, <3>2, <4>1 DEF KeptOnCards
        <5> QED
          BY <2>2, <4>1, <5>1
      <4>2. ASSUME NEW n \in Nat, NEW b \in Bodies, Due(c, x, n, b), k \in ToSet(b)
            PROVE  Due(c, y, n, b)
        BY <2>5, <3>2, <4>2
      <4> QED
        BY <2>1, <4>1, <4>2 DEF KeptOnCards
    <3> QED
      BY <3>1, <3>2
  <2>8. ASSUME NEW j \in DOMAIN z PROVE j = c.id \/ z[j].next \/ \E b \in Bodies : Due(c, y, j, b)
    <3>1. CASE j = i.card
      BY <2>2, <2>3, <3>1
    <3>2. CASE j # i.card
      <4>1. j \in DOMAIN s /\ z[j] = s[j] /\ j \in Nat
        BY <1>4, <2>2, <3>2
      <4>2. \A b \in Bodies : Due(c, x, j, b) => Due(c, y, j, b)
        BY <2>5, <3>2, <4>1
      <4> QED
        BY <2>1, <4>1, <4>2 DEF KeptOnCards
    <3> QED
      BY <3>1, <3>2
  <2>9. ASSUME NEW n \in Nat, NEW b \in Bodies, Due(c, y, n, b)
        PROVE  /\ n # c.id /\ n \in DOMAIN z
               /\ z[n].next => z[n].body = b
               /\ \A f \in Bodies : Due(c, y, n, f) => f = b
    <3>1. Due(c, x, n, b)
      BY <2>4, <2>9
    <3>2. /\ n # c.id /\ n \in DOMAIN s /\ (s[n].next => s[n].body = b)
          /\ \A f \in Bodies : Due(c, x, n, f) => f = b
      BY <2>1, <3>1 DEF KeptOnCards
    <3>3. n = i.card => z[n].body = b
      BY <1>1, <2>2, <2>3, <3>2
    <3> QED
      BY <2>2, <2>4, <3>2, <3>3
  <2>10. c.id # NoCard => c.id \in DOMAIN z /\ z[c.id] = s[c.id]
    <3>1. c.id # NoCard => c.id \in DOMAIN s
      BY <1>4, <1>5, <1>7, TextTypes DEF Numbers, Sound, Numbered, NoCard
    <3> QED
      BY <2>2, <2>6, <3>1
  <2>11. \A j : j \in y /\ j.does = "emit" <=> j \in x /\ j.does = "emit"
    OBVIOUS
  <2>12. KeptOnCards(c, z, y)
    BY <2>1, <2>7, <2>8, <2>9, <2>10, <2>11 DEF KeptOnCards
  <2> QED
    BY <1>1, <2>12 DEF Kept
<1> QED
  BY <1>3, <1>4, <1>6, <1>7 DEF Sound

(* The call for a direct text, and with it the projection of the text      *)
SendAnswered(c, d, s, z, x, y, i, ok, well) ==
  /\ d = [c EXCEPT !.inside = FALSE]
  /\ i.does = "send" /\ y \subseteq x /\ CallsOf(y) = {} /\ ~Does(y, {"feed"})
  /\ (z = s \/ z = Shown(s, i)) /\ (well => ok /\ z = Shown(s, i))

(* The projection that waits for its text to be sent ends with the call.   *)
LEMMA SendReturns ==
  ASSUME NEW c \in Presentations, NEW s \in Seq(Contents), NEW z \in Seq(Contents),
         NEW x \in SUBSET PoolItems, NEW y \in SUBSET PoolItems, NEW ok \in BOOLEAN, NEW well \in BOOLEAN,
         NEW d, NEW i \in x,
         Single(x), Sound(c, s, x, ok), SendAnswered(c, d, s, z, x, y, i, ok, well)
  PROVE  d \in Presentations /\ Sound(d, z, y, well)
<1> USE DEF SendAnswered
<1>1. /\ d \in Presentations /\ Same(c, d) /\ ~d.inside /\ d.lock = c.lock /\ d.loop = c.loop
      /\ d.finish = c.finish
  BY DEF Presentations, Same, SameTexts
<1>2. /\ i \in CallsOf(x) /\ c.mode = "direct" /\ i.card <= Len(s) /\ c.lock = <<>>
      /\ \A j \in CallsOf(x) : j = i
  BY DEF Sound, Busy, OfMode, Numbered, Does, OfCard, Calls, CallsOf, Single, Alike
<1>3. Locked(d) /\ OfMode(d)
  BY <1>1, <1>2 DEF Sound, Locked, OfMode, Same, SameTexts
<1>4. \A j \in y : j.does \notin Calls
  BY DEF CallsOf
<1>5. Busy(d, y)
  BY <1>1, <1>4 DEF Busy, Does, OfCard, Calls
<1>6. Numbered(d, z, y) /\ Worded(d, z, y) /\ Ended(d, z, y)
  <2>1. Answered(c, d, s, z, x, y, i)
    BY <1>1, <1>2 DEF CallsOf, Same, Answered
  <2> QED
    BY <1>1, <2>1, AnsweredKeeps
<1>7. /\ Len(z) \in Nat /\ Len(s) \in Nat
       /\ \A j \in DOMAIN s : j \in Nat /\ j # 0 /\ j <= Len(s)
  BY Positions
<1>8. ASSUME well
      PROVE  /\ ok /\ z = Shown(s, i) /\ Ordered(c, s, x) /\ Numbers(c, s, x) /\ i.card = NoCard
             /\ c.id = NoCard /\ Len(z) = Len(s) + 1 /\ Target(s, i) = Len(s) + 1
  <2>1. ok /\ z = Shown(s, i) /\ Ordered(c, s, x) /\ Numbers(c, s, x) /\ i.card = NoCard /\ c.id = NoCard
    BY <1>2, <1>8 DEF Sound, Ordered, Numbers
  <2> QED
    BY <1>2, <2>1, ShownIs DEF CallsOf, Target
<1>9. ASSUME well PROVE Ordered(d, z, y)
  <2>1. Current(d, z) = Len(s) + 2 /\ d.body = <<>> /\ Current(c, s) = Len(s) + 1 /\ d.rolls = {}
    BY <1>1, <1>2, <1>7, <1>8, <1>9 DEF Current, Same, SameTexts, Sound, OfMode
  <2>2. \A j \in DOMAIN z : IF j = Target(s, i) THEN z[j] = i.content ELSE j \in DOMAIN s /\ z[j] = s[j]
    BY <1>2, <1>8, <1>9, ShownIs DEF CallsOf
  <2> DEFINE new == Version(Len(s) + 2, <<>>)
  <2>3. new.card = Len(s) + 2 /\ new.body = <<>>
    BY DEF Version
  <2>4. \A v \in Versions : Of(d, z, y, v) => Of(c, s, x, v) \/ v = new
    <3> SUFFICES ASSUME NEW v \in Versions, Of(d, z, y, v), v # new PROVE Of(c, s, x, v)
      OBVIOUS
    <3>1. PICK j \in DOMAIN z : v = Version(j, z[j].body)
      BY <2>1 DEF Of
    <3> QED
      BY <1>2, <2>2, <3>1 DEF Of
  <2> HIDE DEF new
  <2>5. \A v \in Versions : Of(c, s, x, v) => v.card <= Len(s) + 1
    <3>1. Sound(c, s, x, TRUE)
      BY <1>8, <1>9 DEF Sound
    <3> QED
      BY <1>8, <1>9, <2>1, <3>1, CurrentIsLast
  <2>6. (\A b \in Bodies : Before(b, <<>>)) /\ UpTo(<<>>, d.fed)
    BY DEF Before, UpTo, ToSet
  <2>7. ASSUME NEW v \in Versions, NEW w \in Versions, Of(d, z, y, v), Of(d, z, y, w), v.card < w.card
        PROVE  Before(v.body, w.body)
    <3>1. CASE w = new
      BY <2>3, <2>6, <3>1, TextTypes
    <3>2. CASE Of(c, s, x, w)
      <4>1. v # new
        BY <1>7, <2>3, <2>5, <2>7, <3>2, TextTypes
      <4> QED
        BY <1>8, <1>9, <2>4, <2>7, <3>2, <4>1 DEF Ordered
    <3> QED
      BY <2>4, <2>7, <3>1, <3>2
  <2>8. ASSUME NEW v \in Versions, Of(d, z, y, v) PROVE UpTo(v.body, d.fed)
    BY <1>1, <1>8, <1>9, <2>3, <2>4, <2>6, <2>8 DEF Ordered, Same, SameTexts
  <2>9. Numbers(d, z, y)
    BY <1>1, <1>2, <1>4, <1>8, <1>9 DEF Numbers, CallsOf, Same, SameTexts
  <2> QED
    BY <2>7, <2>8, <2>9 DEF Ordered
<1>10. ASSUME well, ~d.raced PROVE Kept(d, z, y)
  <2>1. KeptInMessages(c, s, x)
    BY <1>1, <1>2, <1>8, <1>10 DEF Sound, Kept, Same, SameTexts
  <2>2. /\ Target(s, i) \in DOMAIN z /\ z[Target(s, i)] = i.content
        /\ \A j \in DOMAIN s : j # Target(s, i) => j \in DOMAIN z /\ z[j] = s[j]
    BY <1>2, <1>7, <1>8, <1>10, ShownIs DEF CallsOf
  <2>3. \A j \in DOMAIN s : j # Target(s, i)
    BY <1>7, <1>8, <1>10
  <2>4. KeptInMessages(d, z, y)
    BY <1>1, <1>2, <2>1, <2>2, <2>3 DEF KeptInMessages, Same, SameTexts
  <2> QED
    BY <1>1, <1>2, <2>4 DEF Kept, Same, SameTexts
<1> QED
  BY <1>1, <1>3, <1>5, <1>6, <1>9, <1>10 DEF Sound

----------------------------------------------------------------------------
(* The steps of the system                                                 *)

LEMMA PartsOf ==
  ASSUME CardInv, NEW t \in Turns
  PROVE  /\ live[t] \in Presentations /\ cards[t] \in Seq(Contents) /\ Unfailed \in BOOLEAN
         /\ ItemsOf(pool, t) \in SUBSET PoolItems /\ Single(ItemsOf(pool, t))
         /\ \A i \in ItemsOf(pool, t) : i.turn = t
         /\ Sound(live[t], cards[t], ItemsOf(pool, t), Unfailed)
<1>1. pool \in Seq(PoolItems) /\ Lone(pool)
  BY DEF CardInv, CardTyped
<1>2. ItemsOf(pool, t) \subseteq PoolItems /\ Single(ItemsOf(pool, t)) /\ \A i \in ItemsOf(pool, t) : i.turn = t
  BY <1>1, ItemsOfTurn
<1>3. Unfailed \in BOOLEAN
  BY DEF Unfailed
<1> QED
  BY <1>2, <1>3 DEF CardInv, CardTyped

LEMMA ItemAt ==
  ASSUME CardInv, NEW i \in DOMAIN pool
  PROVE  pool[i] \in PoolItems /\ pool[i].turn \in Turns /\ pool[i] \in ItemsOf(pool, pool[i].turn)
<1>1. pool[i] \in PoolItems
  BY DEF CardInv, CardTyped
<1> QED
  BY <1>1, ItemTypes DEF ItemsOf

(* A step of one turn leaves the others alone.                             *)
LEMMA TurnSteps ==
  ASSUME CardInv, NEW t \in Turns, NEW d \in Presentations, NEW z \in Seq(Contents),
         live' = [live EXCEPT ![t] = d], cards' = [cards EXCEPT ![t] = z],
         pool' \in Seq(PoolItems), Lone(pool'),
         \A u \in Turns : u # t => ItemsOf(pool', u) = ItemsOf(pool, u),
         failures' \in 0..MaxFailures, failures' = 0 => failures = 0,
         Sound(d, z, ItemsOf(pool', t), Unfailed')
  PROVE  CardInv'
<1>1. CardTyped'
  BY DEF CardInv, CardTyped
<1>2. ASSUME NEW u \in Turns PROVE Sound(live'[u], cards'[u], ItemsOf(pool', u), Unfailed')
  <2>1. CASE u = t
    BY <2>1 DEF CardInv, CardTyped
  <2>2. CASE u # t
    <3>1. Sound(live[u], cards[u], ItemsOf(pool', u), Unfailed)
      BY <2>2 DEF CardInv
    <3>2. live'[u] = live[u] /\ cards'[u] = cards[u]
      BY <2>2 DEF CardInv, CardTyped
    <3>3. Unfailed' => Unfailed
      BY DEF Unfailed
    <3>4. Sound(live[u], cards[u], ItemsOf(pool', u), Unfailed')
      BY <3>1, <3>3 DEF Sound
    <3> QED
      BY <3>2, <3>4
  <2> QED
    BY <2>1, <2>2
<1> QED
  BY <1>1, <1>2 DEF CardInv

(* The pool keeps its items, and no card changes.                          *)
LEMMA LiveSteps ==
  ASSUME CardInv, NEW t \in Turns, NEW d \in Presentations, live' = [live EXCEPT ![t] = d],
         UNCHANGED <<pool, cards, failures>>, Sound(d, cards[t], ItemsOf(pool, t), Unfailed)
  PROVE  CardInv'
<1>1. cards' = [cards EXCEPT ![t] = cards[t]] /\ cards[t] \in Seq(Contents)
  BY DEF CardInv, CardTyped
<1>2. pool' \in Seq(PoolItems) /\ Lone(pool') /\ failures' \in 0..MaxFailures /\ pool' = pool
  BY DEF CardInv, CardTyped
<1>3. Unfailed' = Unfailed
  BY DEF Unfailed
<1>4. Sound(d, cards[t], ItemsOf(pool', t), Unfailed')
  BY <1>2, <1>3
<1> QED
  BY <1>1, <1>2, <1>4, TurnSteps

LEMMA PublishedStep ==
  ASSUME CardInv, NEW t \in Turns, NEW what \in OfPool, Published(t, what)
  PROVE  CardInv'
<1> DEFINE c == live[t]  s == cards[t]  x == ItemsOf(pool, t)  p == Projection(t, what)  y == x \cup {p}
<1>1. /\ c \in Presentations /\ s \in Seq(Contents) /\ Unfailed \in BOOLEAN /\ x \in SUBSET PoolItems
      /\ Sound(c, s, x, Unfailed)
  BY PartsOf
<1>2. p \in PoolItems /\ p.turn = t /\ p.does = what
  BY ItemTypes
<1>3. /\ pool' = Append(pool, p) /\ UNCHANGED <<live, cards, failures>> /\ c.finish = "no"
      /\ (what = "feed" => c.fed < MaxTexts)
      /\ \A i \in x : i.does \notin OfPool
  BY DEF Published, MoreText, Projecting, Works, ItemsOf, OfPool
<1>4. /\ pool' \in Seq(PoolItems)
      /\ ItemsOf(pool', t) = y /\ \A u \in Turns : u # t => ItemsOf(pool', u) = ItemsOf(pool, u)
      /\ Lone(pool')
  <2>1. pool \in Seq(PoolItems) /\ Lone(pool)
    BY DEF CardInv, CardTyped
  <2>2. \A i \in ItemsOf(pool, p.turn) : ~Alike(i, p)
    BY <1>2, <1>3 DEF Alike, OfPool, OfCard
  <2> HIDE DEF p
  <2> QED
    BY <1>2, <1>3, <2>1, <2>2, QueueGrows
<1> HIDE DEF c, s, x, p, y
<1>5. Sound(c, s, y, Unfailed)
  <2>1. CallsOf(y) = CallsOf(x)
    BY <1>2 DEF CallsOf, Calls, OfPool, y
  <2>2. Busy(c, y) /\ Locked(c) /\ OfMode(c) /\ SameTexts(c, c)
    BY <1>1, <1>2, <1>3 DEF Sound, Busy, Does, OfPool, OfCard, y, SameTexts
  <2>3. c.dirty \/ ~c.dirty
    OBVIOUS
  <2>4. y \in SUBSET PoolItems
    BY <1>1, <1>2 DEF y
  <2> QED
    BY <1>1, <2>1, <2>2, <2>3, <2>4, Staying
<1>6. live' = [live EXCEPT ![t] = c] /\ cards' = [cards EXCEPT ![t] = s] /\ failures' \in 0..MaxFailures
  BY <1>3 DEF CardInv, CardTyped, c, s
<1>7. Unfailed' = Unfailed
  BY <1>3 DEF Unfailed
<1>8. Sound(c, s, ItemsOf(pool', t), Unfailed')
  BY <1>4, <1>5, <1>7
<1> QED
  BY <1>1, <1>3, <1>4, <1>6, <1>8, TurnSteps

(* What is left of the pool when an item is done                           *)
LEMMA Leaving ==
  ASSUME CardInv, NEW i \in DOMAIN pool, NEW q, q = RemoveAt(pool, i)
  PROVE  /\ q \in Seq(PoolItems) /\ Lone(q)
         /\ \A u \in Turns : u # pool[i].turn => ItemsOf(q, u) = ItemsOf(pool, u)
         /\ ItemsOf(q, pool[i].turn) \in SUBSET PoolItems
         /\ ItemsOf(q, pool[i].turn) \subseteq ItemsOf(pool, pool[i].turn)
         /\ ItemsOf(pool, pool[i].turn) \ {pool[i]} \subseteq ItemsOf(q, pool[i].turn)
         /\ pool[i].does # "roll" =>
              ItemsOf(q, pool[i].turn) = ItemsOf(pool, pool[i].turn) \ {pool[i]}
<1> DEFINE t == pool[i].turn
<1>1. pool \in Seq(PoolItems) /\ Lone(pool) /\ pool[i] \in PoolItems /\ t \in Turns
  BY ItemAt DEF CardInv, CardTyped
<1>2. /\ q \in Seq(PoolItems) /\ Lone(q)
      /\ ItemsOf(q, t) \subseteq ItemsOf(pool, t) /\ ItemsOf(pool, t) \ {pool[i]} \subseteq ItemsOf(q, t)
      /\ Alike(pool[i], pool[i]) => pool[i] \notin ItemsOf(q, t)
  BY <1>1, QueueShrinks
<1>3. ASSUME NEW u \in Turns, u # t PROVE ItemsOf(q, u) = ItemsOf(pool, u)
  BY <1>1, <1>3, QueueShrinks
<1>4. ItemsOf(q, t) \subseteq PoolItems
  BY <1>1, <1>2, ItemsOfTurn
<1>5. pool[i].does # "roll" => Alike(pool[i], pool[i])
  BY <1>1, ItemTypes DEF Alike, OfPool, OfCard, Calls
<1> HIDE DEF t
<1>6. pool[i].does # "roll" => ItemsOf(q, t) = ItemsOf(pool, t) \ {pool[i]}
  BY <1>2, <1>5
<1> QED
  BY <1>2, <1>3, <1>4, <1>6 DEF t

(* A projection is done: the calls are what they were.                     *)
LEMMA ProjectionLeaves ==
  ASSUME CardInv, NEW i \in DOMAIN pool, pool[i].does \in OfPool, NEW q, q = RemoveAt(pool, i),
         ~Does(ItemsOf(pool, pool[i].turn), {"send"})
  PROVE  /\ Sound(live[pool[i].turn], cards[pool[i].turn], ItemsOf(q, pool[i].turn), Unfailed)
         /\ ~Does(ItemsOf(q, pool[i].turn), OfPool)
<1> DEFINE t == pool[i].turn  c == live[t]  s == cards[t]  x == ItemsOf(pool, t)  y == ItemsOf(q, t)
<1>1. /\ t \in Turns /\ pool[i] \in x /\ pool[i] \in PoolItems
      /\ c \in Presentations /\ s \in Seq(Contents) /\ Unfailed \in BOOLEAN /\ x \in SUBSET PoolItems
      /\ Single(x) /\ Sound(c, s, x, Unfailed)
  BY ItemAt, PartsOf
<1>2. y \in SUBSET PoolItems /\ y = x \ {pool[i]}
  BY Leaving DEF OfPool
<1> HIDE DEF t, c, s, x, y
<1>3. \A j \in y : j \in x /\ j.does \notin OfPool
  BY <1>1, <1>2 DEF Single, Alike
<1>4. \A j \in x : j.does \notin OfPool => j \in y
  BY <1>2
<1>5. CallsOf(y) = CallsOf(x)
  BY <1>3, <1>4 DEF CallsOf, Calls, OfPool
<1>6. Busy(c, y) /\ Locked(c) /\ OfMode(c) /\ SameTexts(c, c)
  <2>1. ~Does(x, {"send"})
    BY DEF x, t
  <2> QED
    BY <1>1, <1>3, <1>4, <2>1 DEF Sound, Busy, Does, OfPool, OfCard, SameTexts
<1>7. c.dirty \/ ~c.dirty
  OBVIOUS
<1>8. Sound(c, s, y, Unfailed)
  BY <1>1, <1>2, <1>5, <1>6, <1>7, Staying
<1>9. ~Does(y, OfPool)
  BY <1>3 DEF Does
<1> QED
  BY <1>8, <1>9 DEF t, c, s, y

LEMMA DeltaProjectedStep ==
  ASSUME CardInv, NEW i \in DOMAIN pool, DeltaProjected(i)
  PROVE  CardInv'
<1> DEFINE t == pool[i].turn  c == live[t]  s == cards[t]  x == ItemsOf(pool, t)  y == ItemsOf(pool', t)
<1>1. /\ t \in Turns /\ pool[i] \in x
      /\ c \in Presentations /\ s \in Seq(Contents) /\ Unfailed \in BOOLEAN /\ x \in SUBSET PoolItems
      /\ Sound(c, s, x, Unfailed)
  BY ItemAt, PartsOf
<1>2. /\ pool[i].does = "feed" /\ c.mode # "direct" /\ live' = [live EXCEPT ![t] = Fed(c)]
      /\ pool' = RemoveAt(pool, i) /\ UNCHANGED <<cards, failures>>
  BY DEF DeltaProjected, Becomes, Done
<1>3. /\ pool' \in Seq(PoolItems) /\ Lone(pool') /\ y \in SUBSET PoolItems
      /\ \A u \in Turns : u # t => ItemsOf(pool', u) = ItemsOf(pool, u)
  BY <1>2, Leaving
<1>4. ~Does(x, {"send"}) /\ c.finish = "no" /\ c.fed < MaxTexts
  <2>1. ~Does(x, {"send"})
    BY <1>1, <1>2 DEF Sound, Busy
  <2>2. Does(x, {"feed"})
    BY <1>1, <1>2 DEF Does
  <2> QED
    BY <1>1, <2>1, <2>2 DEF Sound, Busy
<1>5. Sound(c, s, y, Unfailed) /\ ~Does(y, {"feed"})
  <2>1. Sound(c, s, y, Unfailed) /\ ~Does(y, OfPool)
    BY <1>2, <1>4, ProjectionLeaves DEF OfPool
  <2> QED
    BY <2>1 DEF Does, OfPool
<1> HIDE DEF t, c, s, x, y
<1>6. Fed(c) \in Presentations /\ Sound(Fed(c), s, y, Unfailed)
  BY <1>1, <1>2, <1>3, <1>4, <1>5, Feeding
<1>7. cards' = [cards EXCEPT ![t] = s] /\ failures' \in 0..MaxFailures /\ failures' = failures
  BY <1>1, <1>2 DEF CardInv, CardTyped, s
<1>8. Sound(Fed(c), s, ItemsOf(pool', t), Unfailed')
  <2>1. Unfailed' = Unfailed
    BY <1>7 DEF Unfailed
  <2> QED
    BY <1>6, <2>1 DEF y
<1> QED
  BY <1>1, <1>2, <1>3, <1>6, <1>7, <1>8, TurnSteps

LEMMA DeltaSentStep ==
  ASSUME CardInv, NEW i \in DOMAIN pool, DeltaSentDirectly(i)
  PROVE  CardInv'
<1> DEFINE t == pool[i].turn  c == live[t]  s == cards[t]  x == ItemsOf(pool, t)
           m == Card(c, <<c.fed + 1>>, FALSE)
           e == Call(t, "send", NoCard, m)
           d == [c EXCEPT !.fed = @ + 1, !.inside = TRUE]
<1>1. /\ t \in Turns /\ pool[i] \in x
      /\ c \in Presentations /\ s \in Seq(Contents) /\ Unfailed \in BOOLEAN /\ x \in SUBSET PoolItems
      /\ Sound(c, s, x, Unfailed)
  BY ItemAt, PartsOf
<1>2. /\ pool[i].does = "feed" /\ c.mode = "direct" /\ ~c.inside /\ live' = [live EXCEPT ![t] = d]
      /\ pool' = Append(pool, e) /\ UNCHANGED <<cards, failures>>
  BY DEF DeltaSentDirectly, Becomes
<1> HIDE DEF t, c, s, x
<1>3. Does(x, {"feed"}) /\ ~Does(x, OfCard) /\ c.fed < MaxTexts /\ c.status \in {"running", "done"}
  <2>1. Does(x, {"feed"}) /\ ~Does(x, OfCard)
    BY <1>1, <1>2 DEF Does, Sound, Busy
  <2>2. ~Does(x, {"send"})
    BY <2>1 DEF Does, OfCard
  <2> QED
    BY <1>1, <2>1, <2>2 DEF Sound, Busy, Presentations
<1>4. c.fed \in Nat /\ c.fed + 1 \in 1..MaxTexts /\ c.fed + 1 \in 0..MaxTexts
  BY <1>1, <1>3, TextTypes, LiveCardAssumption
<1>5. m \in Contents
  <2>1. <<c.fed + 1>> \in Seq(1..MaxTexts)
    BY <1>4
  <2> QED
    BY <1>3, <2>1 DEF Card, Contents
<1> HIDE DEF m
<1>6. e \in PoolItems /\ e.turn = t /\ e.does = "send" /\ e.card = NoCard /\ e.content = m
  <2>1. NoCard \in Nat /\ "send" \in Calls
    BY DEF NoCard, Calls
  <2> QED
    BY <1>1, <1>5, <2>1, CallIs
<1> HIDE DEF e
<1>7. /\ d \in Presentations /\ SameTexts([c EXCEPT !.fed = @ + 1], d) /\ d.id = c.id
      /\ d.status = c.status /\ d.dirty = c.dirty /\ d.lock = c.lock /\ d.loop = c.loop
      /\ d.finish = c.finish /\ d.inside
  BY <1>1, <1>4 DEF Presentations, SameTexts
<1> HIDE DEF d
<1>8. Sound(d, s, x \cup {e}, Unfailed)
  BY <1>1, <1>2, <1>3, <1>6, <1>7, Sending DEF m
<1>9. /\ pool' \in Seq(PoolItems) /\ ItemsOf(pool', t) = x \cup {e} /\ Lone(pool')
      /\ \A u \in Turns : u # t => ItemsOf(pool', u) = ItemsOf(pool, u)
  <2>1. pool \in Seq(PoolItems) /\ Lone(pool)
    BY DEF CardInv, CardTyped
  <2>2. x = ItemsOf(pool, e.turn)
    BY <1>6 DEF x
  <2>3. \A j \in x : ~Alike(j, e)
    BY <1>3, <1>6 DEF Alike, OfPool, OfCard, Does
  <2>4. /\ pool' \in Seq(PoolItems) /\ Lone(pool')
        /\ \A u \in Turns : ItemsOf(pool', u) = IF e.turn = u THEN ItemsOf(pool, u) \cup {e} ELSE ItemsOf(pool, u)
    BY <1>2, <1>6, <2>1, <2>2, <2>3, QueueGrows
  <2> QED
    BY <1>1, <1>6, <2>2, <2>4
<1>10. cards' = [cards EXCEPT ![t] = s] /\ failures' \in 0..MaxFailures /\ failures' = failures
  BY <1>1, <1>2 DEF CardInv, CardTyped, s
<1>11. Sound(d, s, ItemsOf(pool', t), Unfailed')
  <2>1. Unfailed' = Unfailed
    BY <1>10 DEF Unfailed
  <2> QED
    BY <1>8, <1>9, <2>1
<1> QED
  BY <1>1, <1>2, <1>7, <1>9, <1>10, <1>11, TurnSteps

LEMMA FinishedProjectedStep ==
  ASSUME CardInv, NEW i \in DOMAIN pool, FinishedProjected(i)
  PROVE  CardInv'
<1> DEFINE t == pool[i].turn  c == live[t]  s == cards[t]  x == ItemsOf(pool, t)  y == ItemsOf(pool', t)
<1>1. /\ t \in Turns /\ pool[i] \in x
      /\ c \in Presentations /\ s \in Seq(Contents) /\ Unfailed \in BOOLEAN /\ x \in SUBSET PoolItems
      /\ Single(x) /\ Sound(c, s, x, Unfailed)
  BY ItemAt, PartsOf
<1>2. pool[i].does = "finish" /\ c.finish = "no" /\ UNCHANGED <<cards, failures>>
  BY DEF FinishedProjected
<1>3. ~Does(x, {"feed"}) /\ ~Does(x, {"send"})
  <2>1. ~Does(x, {"feed"})
    BY <1>1, <1>2 DEF Does, Single, Alike, OfPool
  <2> QED
    BY <1>1, <2>1 DEF Sound, Busy
<1>4. CASE c.mode = "direct"
  <2> DEFINE d == [c EXCEPT !.finish = "closed"]
  <2>1. live' = [live EXCEPT ![t] = d] /\ pool' = RemoveAt(pool, i)
    BY <1>4 DEF FinishedProjected, Becomes, Done
  <2>2. /\ pool' \in Seq(PoolItems) /\ Lone(pool') /\ y \in SUBSET PoolItems
        /\ \A u \in Turns : u # t => ItemsOf(pool', u) = ItemsOf(pool, u)
    BY <2>1, Leaving
  <2>3. Sound(c, s, y, Unfailed) /\ ~Does(y, OfPool)
    BY <1>2, <1>3, <2>1, ProjectionLeaves DEF OfPool
  <2>4. cards' = [cards EXCEPT ![t] = s] /\ failures' \in 0..MaxFailures /\ failures' = failures
    BY <1>1, <1>2 DEF CardInv, CardTyped
  <2> HIDE DEF t, c, s, x, y
  <2>5. /\ d \in Presentations /\ Same(c, d) /\ d.inside = c.inside /\ d.lock = c.lock /\ d.loop = c.loop
        /\ d.finish = "closed"
    BY <1>1 DEF Presentations, Same, SameTexts, Finishings
  <2> HIDE DEF d
  <2>6. Locked(d) /\ OfMode(d) /\ Busy(d, y)
    BY <1>4, <2>3, <2>5 DEF Sound, Locked, OfMode, Busy, Does, OfPool, Same, SameTexts, ToSet
  <2>7. SameTexts(c, d) /\ d.id = c.id /\ (d.dirty \/ (~c.dirty /\ d.status = c.status))
    BY <1>1, <1>4, <2>5 DEF Same, Sound, OfMode
  <2>8. Sound(d, s, y, Unfailed)
    BY <1>1, <2>2, <2>3, <2>5, <2>6, <2>7, Staying
  <2>9. Sound(d, s, ItemsOf(pool', t), Unfailed')
    <3>1. Unfailed' = Unfailed
      BY <2>4 DEF Unfailed
    <3> QED
      BY <2>8, <3>1 DEF y
  <2> QED
    BY <1>1, <2>1, <2>2, <2>4, <2>5, <2>9, TurnSteps
<1>5. CASE c.mode # "direct"
  <2>1. /\ UNCHANGED pool
        /\ \/ live' = [live EXCEPT ![t] = Finishes(c)]
           \/ c.fed < MaxTexts /\ live' = [live EXCEPT ![t] = Finishes(Fed(c))]
    BY <1>5 DEF FinishedProjected, MoreText, Becomes
  <2> HIDE DEF c, s, x, y
  <2>2. Finishes(c) \in Presentations /\ Sound(Finishes(c), s, x, Unfailed)
    BY <1>1, <1>2, <1>3, <1>5, Finishing
  <2>3. ASSUME c.fed < MaxTexts
        PROVE  Finishes(Fed(c)) \in Presentations /\ Sound(Finishes(Fed(c)), s, x, Unfailed)
    <3>1. Fed(c) \in Presentations /\ Fed(c).mode = c.mode /\ Fed(c).finish = c.finish /\ Sound(Fed(c), s, x, Unfailed)
      BY <1>1, <1>2, <1>3, <1>5, <2>3, Feeding
    <3> QED
      BY <1>1, <1>2, <1>3, <1>5, <3>1, Finishing
  <2> QED
    BY <1>1, <1>2, <2>1, <2>2, <2>3, LiveSteps DEF s, x
<1> QED
  BY <1>4, <1>5

LEMMA FinishedDoneStep ==
  ASSUME CardInv, NEW i \in DOMAIN pool, FinishedDone(i)
  PROVE  CardInv'
<1> DEFINE t == pool[i].turn  c == live[t]  s == cards[t]  x == ItemsOf(pool, t)  y == ItemsOf(pool', t)
<1>1. /\ t \in Turns /\ pool[i] \in x
      /\ c \in Presentations /\ s \in Seq(Contents)
      /\ Single(x) /\ Sound(c, s, x, Unfailed)
  BY ItemAt, PartsOf
<1>2. pool[i].does = "finish" /\ UNCHANGED <<live, cards, failures>> /\ pool' = RemoveAt(pool, i)
  BY DEF FinishedDone, Done
<1>3. ~Does(x, {"send"})
  BY <1>1, <1>2 DEF Does, Single, Alike, OfPool, Sound, Busy
<1>4. /\ pool' \in Seq(PoolItems) /\ Lone(pool') /\ y \in SUBSET PoolItems
      /\ \A u \in Turns : u # t => ItemsOf(pool', u) = ItemsOf(pool, u)
  BY <1>2, Leaving
<1>5. Sound(c, s, y, Unfailed)
  BY <1>2, <1>3, ProjectionLeaves DEF OfPool
<1>6. /\ live' = [live EXCEPT ![t] = c] /\ cards' = [cards EXCEPT ![t] = s]
      /\ failures' \in 0..MaxFailures /\ failures' = failures
  BY <1>1, <1>2 DEF CardInv, CardTyped
<1>7. Unfailed' = Unfailed
  BY <1>6 DEF Unfailed
<1> HIDE DEF t, c, s, x, y
<1>8. Sound(c, s, ItemsOf(pool', t), Unfailed')
  BY <1>5, <1>7 DEF y
<1> QED
  BY <1>1, <1>4, <1>6, <1>8, TurnSteps

LEMMA LoopWakesStep ==
  ASSUME CardInv, NEW t \in Turns, LoopWakes(t)
  PROVE  CardInv'
<1> DEFINE c == live[t]  s == cards[t]  x == ItemsOf(pool, t)
           d == [c EXCEPT !.loop = IF c.closed THEN "over" ELSE "window"]
<1>1. /\ c \in Presentations /\ s \in Seq(Contents) /\ Unfailed \in BOOLEAN /\ x \in SUBSET PoolItems
      /\ Sound(c, s, x, Unfailed)
  BY PartsOf
<1>2. /\ c.loop = "idle" /\ live' = [live EXCEPT ![t] = d] /\ UNCHANGED <<pool, cards, failures>>
  BY DEF LoopWakes, Becomes
<1> HIDE DEF c, s, x
<1>3. /\ d \in Presentations /\ Same(c, d) /\ d.inside = c.inside /\ d.lock = c.lock
      /\ d.finish = c.finish /\ d.loop \in {"over", "window"}
  BY <1>1 DEF Presentations, Same, SameTexts, Loops
<1> HIDE DEF d
<1>4. Locked(d) /\ OfMode(d) /\ Busy(d, x)
  BY <1>1, <1>2, <1>3 DEF Sound, Locked, OfMode, Busy, Same, SameTexts
<1>5. SameTexts(c, d) /\ d.id = c.id /\ (d.dirty \/ (~c.dirty /\ d.status = c.status))
  BY <1>1, <1>3 DEF Same, Presentations
<1>6. Sound(d, s, x, Unfailed)
  BY <1>1, <1>3, <1>4, <1>5, Staying
<1> QED
  BY <1>2, <1>3, <1>6, LiveSteps DEF s, x

LEMMA WindowEndsStep ==
  ASSUME CardInv, NEW t \in Turns, WindowEnds(t)
  PROVE  CardInv'
<1> DEFINE c == live[t]  s == cards[t]  x == ItemsOf(pool, t)
           e == [c EXCEPT !.loop = "draining", !.pending = FALSE]  d == Drains(e, "loop")
<1>1. /\ c \in Presentations /\ s \in Seq(Contents) /\ Unfailed \in BOOLEAN /\ x \in SUBSET PoolItems
      /\ Sound(c, s, x, Unfailed)
  BY PartsOf
<1>2. /\ c.loop = "window" /\ live' = [live EXCEPT ![t] = d] /\ UNCHANGED <<pool, cards, failures>>
  BY DEF WindowEnds, Becomes
<1> HIDE DEF c, s, x
<1>3. /\ e \in Presentations /\ Same(c, e) /\ e.inside = c.inside /\ e.lock = c.lock
      /\ e.finish = c.finish /\ e.loop = "draining"
  BY <1>1 DEF Presentations, Same, SameTexts, Loops
<1> HIDE DEF e
<1>4. "loop" \notin ToSet(c.lock) /\ c.lock \in Locks /\ c.mode # "direct"
  BY <1>1, <1>2 DEF Sound, Locked, OfMode, Presentations
<1>5. /\ d \in Presentations /\ Same(e, d) /\ d.lock = Append(c.lock, "loop") /\ d.loop = "draining"
      /\ d.finish = c.finish /\ d.inside = c.inside
  BY <1>3, <1>4, DrainsIs
<1> HIDE DEF d
<1>6. /\ ToSet(d.lock) = ToSet(c.lock) \cup {"loop"} /\ d.lock # <<>>
      /\ Head(d.lock) = IF c.lock = <<>> THEN "loop" ELSE Head(c.lock)
  BY <1>4, <1>5, LockGrows
<1>7. Locked(d) /\ OfMode(d) /\ Busy(d, x)
  BY <1>1, <1>2, <1>3, <1>4, <1>5, <1>6 DEF Sound, Locked, OfMode, Busy, Same, SameTexts
<1>8. SameTexts(c, d) /\ d.id = c.id /\ (d.dirty \/ (~c.dirty /\ d.status = c.status))
  BY <1>1, <1>3, <1>5 DEF Same, SameTexts, Presentations
<1>9. Sound(d, s, x, Unfailed)
  BY <1>1, <1>5, <1>7, <1>8, Staying
<1> QED
  BY <1>2, <1>5, <1>9, LiveSteps DEF s, x

LEMMA LoopJoinedStep ==
  ASSUME CardInv, NEW t \in Turns, LoopJoined(t)
  PROVE  CardInv'
<1> DEFINE c == live[t]  s == cards[t]  x == ItemsOf(pool, t)
           e == [c EXCEPT !.finish = "last"]  d == Drains(e, "finish")
<1>1. /\ c \in Presentations /\ s \in Seq(Contents) /\ Unfailed \in BOOLEAN /\ x \in SUBSET PoolItems
      /\ Sound(c, s, x, Unfailed)
  BY PartsOf
<1>2. /\ c.finish = "joining" /\ c.loop \in {"none", "over"} /\ live' = [live EXCEPT ![t] = d]
      /\ UNCHANGED <<pool, cards, failures>>
  BY DEF LoopJoined, Becomes
<1> HIDE DEF c, s, x
<1>3. /\ e \in Presentations /\ Same(c, e) /\ e.inside = c.inside /\ e.lock = c.lock
      /\ e.finish = "last" /\ e.loop = c.loop
  BY <1>1 DEF Presentations, Same, SameTexts, Finishings
<1> HIDE DEF e
<1>4. "finish" \notin ToSet(c.lock) /\ c.lock \in Locks /\ c.mode # "direct"
  BY <1>1, <1>2 DEF Sound, Locked, OfMode, Presentations
<1>5. /\ d \in Presentations /\ Same(e, d) /\ d.lock = Append(c.lock, "finish") /\ d.loop = c.loop
      /\ d.finish = "last" /\ d.inside = c.inside
  BY <1>3, <1>4, DrainsIs
<1> HIDE DEF d
<1>6. /\ ToSet(d.lock) = ToSet(c.lock) \cup {"finish"} /\ d.lock # <<>>
      /\ Head(d.lock) = IF c.lock = <<>> THEN "finish" ELSE Head(c.lock)
  BY <1>4, <1>5, LockGrows
<1>7. (c.lock = <<>> => ~c.inside) /\ (c.lock # <<>> => Head(c.lock) # "finish")
  BY <1>1, <1>4, InsideHasLock, LockShrinks DEF Sound
<1>8. Locked(d) /\ OfMode(d) /\ Busy(d, x)
  BY <1>1, <1>2, <1>3, <1>4, <1>5, <1>6, <1>7 DEF Sound, Locked, OfMode, Busy, Same, SameTexts
<1>9. SameTexts(c, d) /\ d.id = c.id /\ (d.dirty \/ (~c.dirty /\ d.status = c.status))
  BY <1>1, <1>3, <1>5 DEF Same, SameTexts, Presentations
<1>10. Sound(d, s, x, Unfailed)
  BY <1>1, <1>5, <1>8, <1>9, Staying
<1> QED
  BY <1>2, <1>5, <1>10, LiveSteps DEF s, x

(* An item comes to the pool, and no card changes.                         *)
LEMMA CallBegins ==
  ASSUME CardInv, NEW t \in Turns, NEW d \in Presentations, NEW e \in PoolItems, e.turn = t,
         live' = [live EXCEPT ![t] = d], pool' = Append(pool, e), UNCHANGED <<cards, failures>>,
         \A j \in ItemsOf(pool, t) : ~Alike(j, e),
         Sound(d, cards[t], ItemsOf(pool, t) \cup {e}, Unfailed)
  PROVE  CardInv'
<1>1. pool \in Seq(PoolItems) /\ Lone(pool) /\ cards[t] \in Seq(Contents)
  BY DEF CardInv, CardTyped
<1>2. /\ pool' \in Seq(PoolItems) /\ Lone(pool')
      /\ \A u \in Turns : ItemsOf(pool', u) = IF e.turn = u THEN ItemsOf(pool, u) \cup {e} ELSE ItemsOf(pool, u)
  BY <1>1, QueueGrows
<1>3. /\ ItemsOf(pool', t) = ItemsOf(pool, t) \cup {e}
      /\ \A u \in Turns : u # t => ItemsOf(pool', u) = ItemsOf(pool, u)
  BY <1>2
<1>4. cards' = [cards EXCEPT ![t] = cards[t]] /\ failures' \in 0..MaxFailures /\ failures' = failures
  BY DEF CardInv, CardTyped
<1>5. Sound(d, cards[t], ItemsOf(pool', t), Unfailed')
  <2>1. Unfailed' = Unfailed
    BY <1>4 DEF Unfailed
  <2> QED
    BY <1>3, <2>1
<1> QED
  BY <1>1, <1>2, <1>3, <1>4, <1>5, TurnSteps

LEMMA DrainEnteredStep ==
  ASSUME CardInv, NEW t \in Turns, DrainEntered(t)
  PROVE  CardInv'
<1> DEFINE c == live[t]  s == cards[t]  x == ItemsOf(pool, t)
<1>1. /\ c \in Presentations /\ s \in Seq(Contents) /\ Unfailed \in BOOLEAN /\ x \in SUBSET PoolItems
      /\ Sound(c, s, x, Unfailed)
  BY PartsOf
<1>2. c.lock # <<>> /\ ~c.inside
  BY DEF DrainEntered, MayDrain
<1>3. CASE c.dirty
  <2> DEFINE m == Card(c, c.body, FALSE)  e == Call(t, "emit", c.id, m)
             d == [c EXCEPT !.dirty = FALSE, !.inside = TRUE, !.body = IF c.mode = "card" THEN @ ELSE <<>>]
  <2>1. live' = [live EXCEPT ![t] = d] /\ pool' = Append(pool, e) /\ UNCHANGED <<cards, failures>>
    BY <1>3 DEF DrainEntered, Emits, Becomes
  <2> HIDE DEF c, s, x
  <2>2. m \in Contents
    BY <1>1 DEF Card, Contents, Presentations, Bodies
  <2>3. "emit" \in Calls /\ c.id \in Nat
    BY <1>1, TextTypes DEF Calls
  <2> HIDE DEF m
  <2>4. e \in PoolItems /\ e.turn = t /\ e.does = "emit" /\ e.card = c.id /\ e.content = m
    BY <2>2, <2>3, CallIs
  <2> HIDE DEF e
  <2>5. /\ d \in Presentations
        /\ d.mode = c.mode /\ d.fed = c.fed /\ d.id = c.id /\ d.status = c.status /\ d.rolls = c.rolls
        /\ d.raced = c.raced /\ d.lock = c.lock /\ d.loop = c.loop /\ d.finish = c.finish /\ ~d.dirty /\ d.inside
        /\ d.body = IF c.mode = "card" THEN c.body ELSE <<>>
    BY <1>1, TextTypes DEF Presentations
  <2> HIDE DEF d
  <2>6. e.content = Card(c, c.body, FALSE)
    BY <2>4 DEF m
  <2>7. Sound(d, s, x \cup {e}, Unfailed)
    BY <1>1, <1>2, <2>4, <2>5, <2>6, Emitting
  <2>8. \A j \in x : ~Alike(j, e)
    BY <1>1, <1>2, <2>4 DEF Sound, Busy, Does, Alike, OfCard, OfPool
  <2> QED
    BY <2>1, <2>4, <2>5, <2>7, <2>8, CallBegins DEF s, x
<1>4. CASE ~c.dirty
  <2> DEFINE d == Leaves(c)
  <2>1. live' = [live EXCEPT ![t] = d] /\ UNCHANGED <<pool, cards, failures>>
    BY <1>4 DEF DrainEntered, Becomes
  <2> HIDE DEF c, s, x
  <2>2. /\ d \in Presentations /\ Same(c, d) /\ ~d.inside /\ (d.finish = "no" <=> c.finish = "no")
        /\ Locked(d) /\ OfMode(d)
    BY <1>1, <1>2, <1>4, LeavesIs DEF Sound
  <2> HIDE DEF d
  <2>3. Busy(d, x)
    BY <1>1, <1>2, <2>2 DEF Sound, Busy, Does, OfCard, Same, SameTexts
  <2>4. SameTexts(c, d) /\ d.id = c.id /\ (d.dirty \/ (~c.dirty /\ d.status = c.status)) /\ (d.inside <=> c.inside)
    BY <1>2, <1>4, <2>2 DEF Same
  <2>5. Sound(d, s, x, Unfailed)
    BY <1>1, <2>2, <2>3, <2>4, Staying
  <2> QED
    BY <2>1, <2>2, <2>5, LiveSteps DEF s, x
<1> QED
  BY <1>3, <1>4

LEMMA RollBeginsStep ==
  ASSUME CardInv, NEW t \in Turns, RollBegins(t)
  PROVE  CardInv'
<1> DEFINE c == live[t]  s == cards[t]  x == ItemsOf(pool, t)
<1>1. /\ c \in Presentations /\ s \in Seq(Contents) /\ Unfailed \in BOOLEAN /\ x \in SUBSET PoolItems
      /\ Sound(c, s, x, Unfailed)
  BY PartsOf
<1>2. PICK r \in c.rolls :
        /\ live' = [live EXCEPT ![t] = [c EXCEPT !.rolls = @ \ {r}]]
        /\ pool' = Append(pool, Call(t, "roll", r.card, Card(c, r.body, TRUE)))
        /\ UNCHANGED <<cards, failures>>
  BY DEF RollBegins, Becomes
<1> DEFINE m == Card(c, r.body, TRUE)  e == Call(t, "roll", r.card, m)  d == [c EXCEPT !.rolls = @ \ {r}]
<1> HIDE DEF c, s, x
<1>3. r \in Versions /\ r.card \in Nat /\ r.body \in Bodies
  BY <1>1, TextTypes
<1>4. m \in Contents /\ "roll" \in Calls
  BY <1>1, <1>3 DEF Card, Contents, Presentations, Bodies, Calls
<1> HIDE DEF m
<1>5. e \in PoolItems /\ e.turn = t /\ e.does = "roll" /\ e.card = r.card /\ e.content = m
  BY <1>3, <1>4, CallIs
<1>6. e.content = Card(c, r.body, TRUE) /\ pool' = Append(pool, e)
  BY <1>2, <1>5 DEF m
<1> HIDE DEF e
<1>7. /\ d \in Presentations /\ d.rolls = c.rolls \ {r} /\ d.mode = c.mode /\ d.fed = c.fed
      /\ d.body = c.body /\ d.raced = c.raced /\ d.id = c.id /\ d.status = c.status /\ d.dirty = c.dirty
      /\ d.lock = c.lock /\ d.loop = c.loop /\ d.finish = c.finish /\ d.inside = c.inside
  BY <1>1 DEF Presentations
<1> HIDE DEF d
<1>8. RollBegun(c, d, e, r)
  BY <1>5, <1>6, <1>7 DEF RollBegun
<1>9. Sound(d, s, x \cup {e}, Unfailed)
  BY <1>1, <1>5, <1>7, <1>8, RollBeginning
<1>10. \A j \in x : ~Alike(j, e)
  BY <1>5 DEF Alike, OfCard, OfPool
<1> QED
  BY <1>2, <1>5, <1>6, <1>7, <1>9, <1>10, CallBegins DEF s, x, d


(* The pool when a call has returned: with the call for a direct text, the *)
(* projection that waited for it is done.                                  *)
LEMMA WithoutCall ==
  ASSUME CardInv, NEW i \in DOMAIN pool, pool[i].does \in Calls, NEW q, q = Without(i)
  PROVE  /\ q \in Seq(PoolItems) /\ Lone(q)
         /\ \A u \in Turns : u # pool[i].turn => ItemsOf(q, u) = ItemsOf(pool, u)
         /\ ItemsOf(q, pool[i].turn) \in SUBSET PoolItems
         /\ ItemsOf(q, pool[i].turn) \subseteq ItemsOf(pool, pool[i].turn)
         /\ pool[i].does = "emit" =>
              ItemsOf(q, pool[i].turn) = ItemsOf(pool, pool[i].turn) \ {pool[i]}
         /\ pool[i].does = "roll" =>
              ItemsOf(pool, pool[i].turn) \ {pool[i]} \subseteq ItemsOf(q, pool[i].turn)
         /\ pool[i].does = "send" =>
              CallsOf(ItemsOf(q, pool[i].turn)) = {} /\ ~Does(ItemsOf(q, pool[i].turn), {"feed"})
<1> DEFINE t == pool[i].turn  rest == RemoveAt(pool, i)
<1>1. CASE pool[i].does # "send"
  BY <1>1, Leaving DEF Without
<1>2. CASE pool[i].does = "send"
  <2> DEFINE p == pool[i]  x == ItemsOf(pool, t)  y == ItemsOf(rest, t)  c == live[t]
             j == CHOOSE k \in DOMAIN rest : rest[k].turn = t
  <2>1. /\ rest \in Seq(PoolItems) /\ Lone(rest) /\ y = x \ {p}
        /\ \A u \in Turns : u # t => ItemsOf(rest, u) = ItemsOf(pool, u)
    BY <1>2, Leaving
  <2>2. t \in Turns /\ p \in x /\ Single(x) /\ c.mode = "direct" /\ Does(x, {"feed"}) /\ c.rolls = {}
        /\ x \in SUBSET PoolItems /\ ~Does(x, {"roll"}) /\ ~Does(x, {"emit"}) /\ p.does = "send"
    <3>1. t \in Turns /\ p \in x /\ Single(x) /\ Sound(c, cards[t], x, Unfailed) /\ x \in SUBSET PoolItems
      BY ItemAt, PartsOf
    <3>2. Does(x, {"send"})
      BY <1>2, <3>1 DEF Does
    <3> QED
      BY <1>2, <3>1, <3>2 DEF Sound, Busy, OfMode, Does
  <2>3. q = RemoveAt(rest, j)
    BY <1>2 DEF Without
  <2>4. \A f \in y : f \in x /\ f.does \in OfPool
    <3> HIDE DEF t, x, y, p
    <3>1. \A f \in x : f.does \in OfPool \/ f.does \in Calls
      BY <2>2, ItemTypes
    <3>2. \A f \in x : f.does = "send" => f = p
      BY <2>2 DEF Single, Alike, OfCard
    <3> QED
      BY <2>1, <2>2, <3>1, <3>2 DEF Does, Calls
  <2>5. \A f, g \in y : f = g
    <3> HIDE DEF t, x, y, p
    <3> QED
      BY <2>2, <2>4 DEF Single, Alike
  <2>6. y # {}
    <3> HIDE DEF t, x, y, p
    <3> QED
      BY <2>1, <2>2 DEF Does
  <2>7. j \in DOMAIN rest /\ rest[j].turn = t /\ rest[j] \in y
    <3>1. \E k \in DOMAIN rest : rest[k].turn = t
      BY <2>6 DEF ItemsOf
    <3>2. j \in DOMAIN rest /\ rest[j].turn = t
      BY <3>1
    <3> HIDE DEF rest, j, t
    <3> QED
      BY <3>2 DEF ItemsOf
  <2>8. Alike(rest[j], rest[j])
    <3> HIDE DEF rest, j, t, x, y, p
    <3> QED
      BY <2>4, <2>7 DEF Alike
  <2> HIDE DEF rest, j, t
  <2>9. /\ q \in Seq(PoolItems) /\ Lone(q) /\ ItemsOf(q, t) \subseteq y /\ rest[j] \notin ItemsOf(q, t)
        /\ \A u \in Turns : u # t => ItemsOf(q, u) = ItemsOf(rest, u)
    BY <2>1, <2>2, <2>3, <2>7, <2>8, QueueShrinks
  <2>10. ItemsOf(q, t) = {}
    BY <2>5, <2>7, <2>9
  <2> QED
    BY <1>2, <2>1, <2>9, <2>10 DEF CallsOf, Does, t
<1> QED
  BY <1>1, <1>2

(* The task that made the call goes on; z is what the conversation shows,  *)
(* and id the card it learned of.                                          *)
Returned(i, z, id) ==
  LET t == pool[i].turn  call == pool[i] IN
  /\ call.does \in Calls /\ (z = cards[t] \/ z = Shown(cards[t], call))
  /\ id = live[t].id \/ (id = Len(z) /\ live[t].mode = "card" /\ z = Shown(cards[t], call))
  /\ Unfailed' => /\ Unfailed /\ z = Shown(cards[t], call)
                  /\ id = IF call.card = NoCard /\ live[t].mode = "card" THEN Len(z) ELSE live[t].id

LEMMA CallReturns ==
  ASSUME CardInv, NEW i \in DOMAIN pool, NEW z, NEW id, pool[i].does \in Calls, Returned(i, z, id),
         live' = [live EXCEPT ![pool[i].turn] = Returns(pool[i].turn, pool[i], id)],
         cards' = [cards EXCEPT ![pool[i].turn] = z],
         pool' = Without(i), failures' \in 0..MaxFailures, failures' = 0 => failures = 0
  PROVE  CardInv'
<1> DEFINE t == pool[i].turn  p == pool[i]  c == live[t]  s == cards[t]  x == ItemsOf(pool, t)
           y == ItemsOf(pool', t)  d == Returns(t, p, id)  ok == Unfailed  well == Unfailed'
<1>1. /\ t \in Turns /\ p \in x /\ p \in PoolItems
      /\ c \in Presentations /\ s \in Seq(Contents) /\ ok \in BOOLEAN /\ x \in SUBSET PoolItems
      /\ Single(x) /\ Sound(c, s, x, ok)
  BY ItemAt, PartsOf
<1>2. well \in BOOLEAN
  BY DEF Unfailed
<1>3. /\ pool' \in Seq(PoolItems) /\ Lone(pool')
      /\ \A u \in Turns : u # t => ItemsOf(pool', u) = ItemsOf(pool, u)
      /\ y \in SUBSET PoolItems /\ y \subseteq x
      /\ p.does = "emit" => y = x \ {p}
      /\ p.does = "roll" => x \ {p} \subseteq y
      /\ p.does = "send" => CallsOf(y) = {} /\ ~Does(y, {"feed"})
  BY WithoutCall
<1>4. /\ z = s \/ z = Shown(s, p)
      /\ id = c.id \/ (id = Len(z) /\ c.mode = "card" /\ z = Shown(s, p))
      /\ well => /\ ok /\ z = Shown(s, p)
                 /\ id = IF p.card = NoCard /\ c.mode = "card" THEN Len(z) ELSE c.id
  BY DEF Returned
<1>5. /\ d = CASE p.does = "emit" -> Leaves([c EXCEPT !.id = id])
               [] p.does = "send" -> [c EXCEPT !.inside = FALSE]
               [] p.does = "roll" -> c
      /\ p.does \in Calls
  BY DEF Returns
<1>6. live' = [live EXCEPT ![t] = d] /\ cards' = [cards EXCEPT ![t] = z]
  OBVIOUS
<1> HIDE DEF t, p, c, s, x, y, d, ok, well
<1>7. z \in Seq(Contents) /\ id \in Nat
  <2>1. p \in CallsOf(x)
    BY <1>1, <1>5 DEF CallsOf
  <2>2. p.card <= Len(s)
    BY <1>1, <2>1 DEF Sound, Numbered
  <2>3. Shown(s, p) \in Seq(Contents)
    BY <1>1, <1>5, <2>2, ShownIs
  <2>4. z \in Seq(Contents)
    BY <1>1, <1>4, <2>3
  <2>5. Len(z) \in Nat /\ c.id \in Nat
    BY <1>1, <2>4, TextTypes
  <2> QED
    BY <1>4, <2>4, <2>5
<1>8. d \in Presentations /\ Sound(d, z, y, well)
  <2>1. CASE p.does = "emit"
    <3>1. EmitAnswered(c, d, s, z, x, y, p, id, ok, well)
      BY <1>3, <1>4, <1>5, <2>1 DEF EmitAnswered
    <3> QED
      BY <1>1, <1>2, <1>3, <1>7, <3>1, EmitReturns
  <2>2. CASE p.does = "send"
    <3>1. SendAnswered(c, d, s, z, x, y, p, ok, well)
      BY <1>3, <1>4, <1>5, <2>2 DEF SendAnswered
    <3> QED
      BY <1>1, <1>2, <1>3, <1>7, <3>1, SendReturns
  <2>3. CASE p.does = "roll"
    <3>1. d = c
      BY <1>5, <2>3
    <3>2. Sound(c, z, y, well)
      BY <1>1, <1>2, <1>3, <1>4, <1>7, <2>3, RollReturns
    <3> QED
      BY <1>1, <3>1, <3>2
  <2> QED
    BY <1>5, <2>1, <2>2, <2>3 DEF Calls
<1>9. Sound(d, z, ItemsOf(pool', t), Unfailed')
  BY <1>8 DEF y, well
<1> QED
  BY <1>1, <1>3, <1>6, <1>7, <1>8, <1>9, TurnSteps

LEMMA CallMadeStep ==
  ASSUME CardInv, NEW i \in DOMAIN pool, CallMade(i)
  PROVE  CardInv'
<1> DEFINE t == pool[i].turn  z == Shown(cards[t], pool[i])
           id == IF pool[i].card = NoCard /\ live[t].mode = "card" THEN Len(z) ELSE live[t].id
<1>1. /\ pool[i].does \in Calls /\ cards' = [cards EXCEPT ![t] = z]
      /\ live' = [live EXCEPT ![t] = Returns(t, pool[i], id)]
      /\ pool' = Without(i) /\ failures' = failures
  BY DEF CallMade, Becomes
<1>2. failures \in 0..MaxFailures /\ Unfailed' = Unfailed
  BY <1>1 DEF CardInv, CardTyped, Unfailed
<1>3. Returned(i, z, id)
  BY <1>1, <1>2 DEF Returned
<1> HIDE DEF z, id
<1> QED
  BY <1>1, <1>2, <1>3, CallReturns DEF t

LEMMA CallFailsStep ==
  ASSUME CardInv, NEW i \in DOMAIN pool, CallFails(i)
  PROVE  CardInv'
<1> DEFINE t == pool[i].turn  id == live[t].id
<1>1. /\ pool[i].does \in Calls /\ pool' = Without(i)
      /\ live' = [live EXCEPT ![t] = Returns(t, pool[i], id)]
      /\ failures < MaxFailures /\ failures' = failures + 1
  BY DEF CallFails, Becomes
<1>2. failures' \in 0..MaxFailures /\ failures' # 0 /\ ~Unfailed'
  BY <1>1, LiveCardAssumption DEF CardInv, CardTyped, Unfailed
<1>3. PICK z : (z = cards[t] \/ z = Shown(cards[t], pool[i])) /\ cards' = [cards EXCEPT ![t] = z]
  <2>1. CASE UNCHANGED cards
    <3>1. cards' = [cards EXCEPT ![t] = cards[t]]
      BY <2>1 DEF CardInv, CardTyped
    <3> QED
      BY <3>1
  <2>2. CASE cards' = [cards EXCEPT ![t] = Shown(@, pool[i])]
    <3>1. cards' = [cards EXCEPT ![t] = Shown(cards[t], pool[i])]
      <4>1. t \in DOMAIN cards
        BY ItemAt DEF CardInv, CardTyped
      <4> QED
        BY <2>2, <4>1
    <3> QED
      BY <3>1
  <2> QED
    BY <2>1, <2>2 DEF CallFails
<1>4. Returned(i, z, id)
  BY <1>1, <1>2, <1>3 DEF Returned
<1> HIDE DEF id
<1> QED
  BY <1>1, <1>2, <1>3, <1>4, CallReturns DEF t

LEMMA CardStep ==
  ASSUME CardInv, [CardNext]_cardVars
  PROVE  CardInv'
<1>1. ASSUME NEW t \in Turns, Step(t) PROVE CardInv'
  BY <1>1, LoopWakesStep, WindowEndsStep, LoopJoinedStep, DrainEnteredStep, RollBeginsStep DEF Step
<1>2. ASSUME NEW t \in Turns, NEW what \in {"feed", "finish"}, Published(t, what) PROVE CardInv'
  BY <1>2, PublishedStep DEF OfPool
<1>3. ASSUME NEW i \in DOMAIN pool, Work(i) PROVE CardInv'
  BY <1>3, DeltaProjectedStep, DeltaSentStep, FinishedProjectedStep, FinishedDoneStep, CallMadeStep,
     CallFailsStep DEF Work
<1>4. ASSUME UNCHANGED cardVars PROVE CardInv'
  <2>1. CardTyped' /\ Lone(pool)' /\ Unfailed' = Unfailed
    BY <1>4 DEF cardVars, CardInv, CardTyped, Lone, Unfailed
  <2> QED
    BY <1>4, <2>1 DEF cardVars, CardInv
<1> QED
  BY <1>1, <1>2, <1>3, <1>4 DEF CardNext

LEMMA CardStart ==
  ASSUME CardInit
  PROVE  CardInv
<1>1. \A t \in Turns : ItemsOf(pool, t) = {}
  BY DEF CardInit, ItemsOf
<1>2. \A m \in Modes : Fresh(m) \in Presentations /\ Fresh(m).body = <<>> /\ Fresh(m).lock = <<>>
  <2>1. <<>> \in Bodies /\ 0 \in 0..MaxTexts
    BY LiveCardAssumption, TextTypes
  <2> QED
    BY <2>1 DEF Fresh, Presentations, Modes, Locks, Loops, Finishings, NoCard
<1>3. CardTyped /\ Lone(pool)
  <2>1. cards \in [Turns -> Seq(Contents)] /\ pool \in Seq(PoolItems) /\ failures \in 0..MaxFailures
    BY LiveCardAssumption DEF CardInit
  <2>2. live \in [Turns -> Presentations]
    BY <1>2 DEF CardInit
  <2> QED
    BY <2>1, <2>2 DEF CardTyped, CardInit, Lone
<1>4. ASSUME NEW t \in Turns PROVE Sound(live[t], cards[t], ItemsOf(pool, t), Unfailed)
  <2>1. PICK m \in Modes : live[t] = Fresh(m)
    BY DEF CardInit
  <2> DEFINE c == live[t]  s == cards[t]  x == ItemsOf(pool, t)
  <2>2. s = <<>> /\ x = {} /\ c \in Presentations /\ Unfailed
    BY <1>1, <1>3 DEF CardInit, CardTyped, Unfailed
  <2>3. /\ c.mode = m /\ c.fed = 0 /\ c.body = <<>> /\ c.status = "running" /\ c.id = NoCard /\ ~c.dirty
        /\ c.loop = "none" /\ c.finish = "no" /\ c.lock = <<>> /\ ~c.inside /\ c.rolls = {} /\ ~c.raced
    BY <2>1 DEF Fresh
  <2>4. CallsOf(x) = {} /\ (\A kinds : ~Does(x, kinds)) /\ DOMAIN s = {} /\ Len(s) = 0
    BY <2>2 DEF CallsOf, Does
  <2>5. ToSet(c.lock) = {} /\ ToSet(c.body) = {} /\ DOMAIN c.body = {}
    BY <2>3 DEF ToSet
  <2> HIDE DEF c, s, x
  <2>6. Locked(c) /\ OfMode(c)
    BY <2>3, <2>5 DEF Locked, OfMode
  <2>7. Busy(c, x) /\ Numbered(c, s, x)
    BY <2>3, <2>4 DEF Busy, Numbered, NoCard
  <2>8. Worded(c, s, x) /\ Ended(c, s, x)
    BY <2>3, <2>4, <2>5 DEF Worded, Consecutive, Ended
  <2>9. Ordered(c, s, x)
    <3>1. \A v \in Versions : Of(c, s, x, v) => v = Version(Current(c, s), c.body)
      BY <2>3, <2>4 DEF Of
    <3>2. \A v \in Versions : Of(c, s, x, v) => ToSet(v.body) = {}
      BY <2>5, <3>1 DEF Version
    <3>3. Numbers(c, s, x)
      BY <2>2, <2>3, <2>4 DEF Numbers
    <3> QED
      BY <3>2, <3>3 DEF Ordered, Before, UpTo
  <2>10. Kept(c, s, x)
    <3>1. 1..c.fed = {}
      BY <2>3
    <3>2. \A n \in Nat, b \in Bodies : ~Due(c, x, n, b)
      BY <2>2, <2>3 DEF Due
    <3> QED
      BY <2>2, <2>3, <2>4, <3>1, <3>2 DEF Kept, KeptOnCards, KeptInMessages
  <2>11. Sound(c, s, x, Unfailed)
    BY <2>6, <2>7, <2>8, <2>9, <2>10 DEF Sound
  <2> QED
    BY <2>11 DEF c, s, x
<1> QED
  BY <1>3, <1>4 DEF CardInv

----------------------------------------------------------------------------
(* What the invariant says of the conversations                            *)

(* Of items of which no two are alike, there is one of a kind or none.     *)
LEMMA WorksAre ==
  ASSUME CardInv, NEW t \in Turns, NEW kinds,
         \A i, j \in PoolItems : i.does \in kinds /\ j.does \in kinds => Alike(i, j)
  PROVE  /\ Cardinality(Works(t, kinds)) = IF Works(t, kinds) = {} THEN 0 ELSE 1
         /\ Does(ItemsOf(pool, t), kinds) <=> Works(t, kinds) # {}
<1> DEFINE W == Works(t, kinds)
<1>1. pool \in Seq(PoolItems) /\ Lone(pool)
  BY DEF CardInv, CardTyped
<1>2. Does(ItemsOf(pool, t), kinds) <=> W # {}
  BY DEF Does, ItemsOf, Works
<1>3. \A k, l \in W : k = l
  <2>1. \A k \in W : k \in DOMAIN pool /\ pool[k].turn = t /\ pool[k].does \in kinds /\ pool[k] \in PoolItems
    BY <1>1 DEF Works
  <2> HIDE DEF W
  <2>2. \A k, l \in W : Alike(pool[k], pool[l])
    BY <2>1
  <2> QED
    BY <1>1, <2>1, <2>2 DEF Lone
<1> HIDE DEF W
<1>4. CASE W = {}
  BY <1>2, <1>4, FS_EmptySet DEF W
<1>5. CASE W # {}
  <2>1. PICK k \in W : W = {k}
    BY <1>3, <1>5
  <2>2. Cardinality({k}) = 1
    BY FS_Singleton
  <2>3. Cardinality(W) = 1
    BY <2>1, <2>2
  <2> QED
    BY <1>2, <1>5, <2>3 DEF W
<1> QED
  BY <1>4, <1>5

LEMMA LiveIs ==
  ASSUME CardInv
  PROVE  LiveConsistent
<1>1. ASSUME NEW t \in Turns
      PROVE  LET c == live[t] IN
       /\ c.mode \in Modes /\ c.fed \in 0..MaxTexts /\ c.id \in 0..Len(cards[t])
       /\ Cardinality(Works(t, {"emit", "send"})) = IF c.inside THEN 1 ELSE 0
       /\ Cardinality(Works(t, {"feed", "finish"})) <= 1
       /\ ToSet(c.lock) = (IF c.loop = "draining" THEN {"loop"} ELSE {})
                      \cup (IF c.finish \in {"status", "flush", "last"} THEN {"finish"} ELSE {})
       /\ c.finish = "closed" => c.loop \in {"none", "over"} /\ ~c.inside
  <2> DEFINE c == live[t]  s == cards[t]  x == ItemsOf(pool, t)
  <2>1. c \in Presentations /\ s \in Seq(Contents) /\ Sound(c, s, x, Unfailed)
    BY PartsOf
  <2>2. /\ Cardinality(Works(t, OfPool)) <= 1
        /\ Cardinality(Works(t, OfCard)) = IF Does(x, OfCard) THEN 1 ELSE 0
    <3>1. /\ \A i, j \in PoolItems : i.does \in OfPool /\ j.does \in OfPool => Alike(i, j)
          /\ \A i, j \in PoolItems : i.does \in OfCard /\ j.does \in OfCard => Alike(i, j)
      BY DEF Alike
    <3> HIDE DEF x
    <3>2. Cardinality(Works(t, OfPool)) <= 1
      BY <3>1, WorksAre
    <3>3. /\ Does(ItemsOf(pool, t), OfCard) <=> Works(t, OfCard) # {}
          /\ Cardinality(Works(t, OfCard)) = IF Works(t, OfCard) = {} THEN 0 ELSE 1
      BY <3>1, WorksAre
    <3> QED
      BY <3>2, <3>3 DEF x
  <2> HIDE DEF c, s, x
  <2>3. c.mode \in Modes /\ c.fed \in 0..MaxTexts /\ c.id \in 0..Len(s)
    BY <2>1 DEF Presentations, Sound, Numbered
  <2>4. Does(x, OfCard) <=> c.inside
    BY <2>1 DEF Sound, Busy
  <2>5. \A a \in ToSet(c.lock) : a \in {"loop", "finish"}
    <3>1. c.lock \in Locks
      BY <2>1 DEF Presentations
    <3> QED
      BY <3>1 DEF Locks, ToSet
  <2>6. ToSet(c.lock) = (IF c.loop = "draining" THEN {"loop"} ELSE {})
                   \cup (IF c.finish \in {"status", "flush", "last"} THEN {"finish"} ELSE {})
    BY <2>1, <2>5 DEF Sound, Locked
  <2>7. c.finish = "closed" => c.loop \in {"none", "over"} /\ ~c.inside
    <3>1. ASSUME c.finish = "closed" PROVE ~Does(x, OfCard)
      <4>1. ToSet(c.lock) = {} /\ c.loop \in {"none", "over"}
        BY <2>1, <2>6, <3>1 DEF Sound, Locked
      <4>2. c.lock \in Locks
        BY <2>1 DEF Presentations
      <4>3. c.lock = <<>>
        BY <4>1, <4>2, LockShrinks
      <4> QED
        BY <2>1, <3>1, <4>3 DEF Sound, Busy, Does, OfCard
    <3> QED
      BY <2>1, <2>4, <3>1 DEF Sound, Locked
  <2> QED
    BY <2>2, <2>3, <2>4, <2>6, <2>7 DEF c, s, OfPool, OfCard
<1> QED
  BY <1>1 DEF LiveConsistent, CardInv, CardTyped

LEMMA TextsAre ==
  ASSUME CardInv
  PROVE  NoTextTwice
<1> SUFFICES ASSUME NEW t \in Turns, NEW i \in DOMAIN cards[t]
             PROVE  LET body == cards[t][i].body IN
                      /\ \A k \in DOMAIN body : body[k] = body[1] + k - 1
                      /\ failures = 0 =>
                           \A j \in 1..(i - 1) : \A k \in ToSet(cards[t][j].body) : \A l \in ToSet(body) : k < l
  BY DEF NoTextTwice
<1> DEFINE c == live[t]  s == cards[t]  x == ItemsOf(pool, t)
<1>1. /\ c \in Presentations /\ s \in Seq(Contents) /\ Sound(c, s, x, Unfailed) /\ i \in DOMAIN s
      /\ i \in Nat /\ DOMAIN s = 1..Len(s) /\ Len(s) \in Nat
  BY PartsOf
<1> HIDE DEF c, s, x
<1>2. \A k \in DOMAIN s[i].body : s[i].body[k] = s[i].body[1] + k - 1
  BY <1>1 DEF Sound, Worded, Consecutive
<1>3. ASSUME failures = 0, NEW j \in 1..(i - 1)
      PROVE  \A k \in ToSet(s[j].body) : \A l \in ToSet(s[i].body) : k < l
  <2>1. j \in DOMAIN s /\ j \in Nat /\ j < i
    BY <1>1, <1>3
  <2>2. s[i] \in Contents /\ s[j] \in Contents
    BY <1>1, <2>1
  <2>3. s[i].body \in Bodies /\ s[j].body \in Bodies
    BY <2>2, TextTypes
  <2> DEFINE v == Version(j, s[j].body)  w == Version(i, s[i].body)
  <2>4. v \in Versions /\ w \in Versions /\ v.card = j /\ w.card = i /\ v.body = s[j].body /\ w.body = s[i].body
    BY <1>1, <2>1, <2>3, TextTypes
  <2>5. Of(c, s, x, v) /\ Of(c, s, x, w)
    BY <1>1, <2>1 DEF Of
  <2> HIDE DEF v, w
  <2>6. Ordered(c, s, x)
    BY <1>1, <1>3 DEF Sound, Unfailed
  <2>7. Before(v.body, w.body)
    BY <2>1, <2>4, <2>5, <2>6 DEF Ordered
  <2> QED
    BY <2>4, <2>7 DEF Before
<1> QED
  BY <1>2, <1>3 DEF s

(* The texts of a turn of which nothing is under way                       *)
LEMMA ClosedIsWhole ==
  ASSUME NEW c \in Presentations, NEW s \in Seq(Contents), NEW x \in SUBSET PoolItems,
         Sound(c, s, x, TRUE), CallsOf(x) = {}, c.finish = "closed", c.rolls = {}, ~c.raced
  PROVE  /\ UNION {ToSet(s[i].body) : i \in DOMAIN s} = 1..c.fed
         /\ c.mode = "card" => /\ s # <<>> /\ Last(s).status = "done"
                               /\ \A i \in DOMAIN s : s[i].next <=> i < Len(s)
<1>1. /\ Ordered(c, s, x) /\ Kept(c, s, x) /\ ~c.dirty /\ c.fed \in Nat /\ Len(s) \in Nat /\ DOMAIN s = 1..Len(s)
  BY TextTypes DEF Sound, Locked
<1>2. ~c.inside /\ \A i \in x : i.does \notin Calls
  <2>1. \A i \in x : i.does \notin Calls
    BY DEF CallsOf
  <2> QED
    BY <2>1 DEF Sound, Busy, Does, OfCard, Calls
<1>3. ASSUME NEW j \in DOMAIN s, NEW k \in ToSet(s[j].body) PROVE k \in 1..c.fed
  <2>1. s[j] \in Contents /\ j \in Nat
    OBVIOUS
  <2>2. s[j].body \in Bodies /\ s[j].body \in Seq(Nat) /\ s[j].body \in Seq(1..MaxTexts)
    BY <2>1, TextTypes DEF Bodies
  <2>3. Version(j, s[j].body) \in Versions /\ Version(j, s[j].body).body = s[j].body
    BY <2>1, <2>2, TextTypes
  <2>4. Of(c, s, x, Version(j, s[j].body))
    BY DEF Of
  <2>5. UpTo(s[j].body, c.fed)
    BY <1>1, <2>3, <2>4 DEF Ordered
  <2>6. k \in 1..MaxTexts
    <3>1. PICK n \in DOMAIN s[j].body : k = s[j].body[n]
      BY DEF ToSet
    <3> DEFINE b == s[j].body
    <3>2. b \in Seq(1..MaxTexts) /\ n \in DOMAIN b /\ k = b[n]
      BY <2>2, <3>1
    <3> HIDE DEF b
    <3>3. n \in 1..Len(b)
      BY <3>2
    <3>4. b[n] \in 1..MaxTexts
      BY <3>2, <3>3, ElementOfSeq
    <3> QED
      BY <3>2, <3>4
  <2> QED
    BY <1>1, <2>5, <2>6, LiveCardAssumption DEF UpTo
<1>4. CASE c.mode = "card"
  <2>1. KeptOnCards(c, s, x)
    BY <1>1, <1>4 DEF Kept
  <2>2. \A n \in Nat, b \in Bodies : ~Due(c, x, n, b)
    BY <1>2 DEF Due, Calls
  <2>3. c.status = "done" /\ c.id # NoCard /\ s[c.id] = Final(c) /\ c.id = Len(s)
    <3>1. c.status = "done"
      BY <1>4 DEF Sound, OfMode
    <3> QED
      BY <1>1, <1>2, <2>1, <3>1 DEF KeptOnCards, Ordered, Numbers
  <2>4. c.id \in DOMAIN s /\ s # <<>> /\ Last(s) = s[c.id]
    BY <1>1, <2>3 DEF NoCard, Last
  <2>5. s[c.id].status = "done" /\ ~s[c.id].next /\ s[c.id].body = c.body
    BY <2>3 DEF Final
  <2>6. \A j \in DOMAIN s : s[j].next <=> j # c.id
    BY <2>1, <2>2, <2>5 DEF KeptOnCards
  <2>7. \A j \in DOMAIN s : s[j].next <=> j < Len(s)
    BY <1>1, <2>3, <2>6
  <2>8. \A k \in 1..c.fed : \E j \in DOMAIN s : k \in ToSet(s[j].body)
    <3> TAKE k \in 1..c.fed
    <3>1. k \in ToSet(c.body) \/ \E j \in DOMAIN s : s[j].next /\ k \in ToSet(s[j].body)
      BY <2>1, <2>2 DEF KeptOnCards
    <3> QED
      BY <2>4, <2>5, <3>1
  <2> QED
    BY <1>3, <2>4, <2>5, <2>7, <2>8
<1>5. CASE c.mode # "card"
  <2>1. KeptInMessages(c, s, x) /\ ToSet(c.body) = {}
    <3>1. c.body = <<>>
      BY <1>1, <1>5 DEF Sound, OfMode, Worded, Presentations, Modes
    <3> QED
      BY <1>1, <1>5, <3>1 DEF Kept, ToSet
  <2>2. \A k \in 1..c.fed : \E j \in DOMAIN s : k \in ToSet(s[j].body)
    BY <2>1 DEF KeptInMessages
  <2> QED
    BY <1>3, <1>5, <2>2
<1> QED
  BY <1>4, <1>5

LEMMA WholeIs ==
  ASSUME CardInv
  PROVE  OutputIsWhole
<1>1. WholeWhenClosed
  <2> SUFFICES ASSUME NEW t \in Turns, live[t].finish = "closed", live[t].rolls = {}, Works(t, Calls) = {},
                      ~live[t].raced, failures = 0
               PROVE  /\ UNION {ToSet(cards[t][i].body) : i \in DOMAIN cards[t]} = 1..live[t].fed
                      /\ live[t].mode = "card" =>
                           /\ cards[t] # <<>> /\ Last(cards[t]).status = "done"
                           /\ \A i \in DOMAIN cards[t] : cards[t][i].next <=> i < Len(cards[t])
    BY DEF WholeWhenClosed
  <2>1. /\ live[t] \in Presentations /\ cards[t] \in Seq(Contents) /\ ItemsOf(pool, t) \in SUBSET PoolItems
        /\ Sound(live[t], cards[t], ItemsOf(pool, t), Unfailed)
    BY PartsOf
  <2>2. Sound(live[t], cards[t], ItemsOf(pool, t), TRUE)
    BY <2>1 DEF Sound, Unfailed
  <2>3. CallsOf(ItemsOf(pool, t)) = {}
    BY DEF CallsOf, ItemsOf, Works
  <2> QED
    BY <2>1, <2>2, <2>3, ClosedIsWhole
<1>2. DoneIsWhole
  <2> SUFFICES ASSUME NEW t \in Turns, NEW i \in DOMAIN cards[t], cards[t][i].status = "done",
                      ~cards[t][i].next, live[t].fed > 0
               PROVE  cards[t][i].body # <<>> /\ Last(cards[t][i].body) = live[t].fed
    BY DEF DoneIsWhole
  <2>1. Sound(live[t], cards[t], ItemsOf(pool, t), Unfailed)
    BY PartsOf
  <2> QED
    BY <2>1 DEF Sound, Ended, Whole, Last
<1> QED
  BY <1>1, <1>2 DEF OutputIsWhole

----------------------------------------------------------------------------

LEMMA CardInvariance == CardSpec => []CardInv
<1>1. CardInit => CardInv
  BY CardStart
<1>2. CardInv /\ [CardNext]_cardVars => CardInv'
  BY CardStep
<1> QED
  BY <1>1, <1>2, PTL DEF CardSpec

(* The lock of a presentation does its work: while the loop that shows a   *)
(* turn and the coroutine that ends it both flush, at most one call that   *)
(* shows the turn is under way, and a closed presentation has none left    *)
(* (LiveCard._drain, StreamThrottler.aclose).                              *)
THEOREM CardsConsistent == CardSpec => []LiveConsistent
<1>1. CardInv => LiveConsistent
  BY LiveIs
<1> QED
  BY <1>1, CardInvariance, PTL

(* For any number of turns, threads and texts: what a conversation shows   *)
(* is in the order of the agent's output, and no text is on two cards as   *)
(* long as no call went wrong (LiveCard.feed, _roll, _emit).               *)
THEOREM TextsOnce == CardSpec => []NoTextTwice
<1>1. CardInv => NoTextTwice
  BY TextsAre
<1> QED
  BY <1>1, CardInvariance, PTL

(* A turn that is over is shown whole, unless a call went wrong or a card  *)
(* was rolled over while its patch was under way; and a card with the      *)
(* outcome shows the output's end whatever went wrong (LiveCard.aclose,    *)
(* set_status, _patch_roll_footer).                                        *)
THEOREM CardsWhole == CardSpec => []OutputIsWhole
<1>1. CardInv => OutputIsWhole
  BY WholeIs
<1> QED
  BY <1>1, CardInvariance, PTL
=============================================================================
