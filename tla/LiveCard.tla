----------------------------- MODULE LiveCard ------------------------------
(***************************************************************************)
(* The Feishu channel's presentation of turns: the texts of a turn are     *)
(* gathered and shown in a card that is patched at intervals and continued *)
(* on a new card when it is full, or, in the console, in messages.  A      *)
(* projection holds a thread of the event loop's default pool until it is  *)
(* done, and the calls to Feishu that it makes need a thread of that pool. *)
(*                                                                         *)
(* Time is left out: a window may end at once.  A coroutine may be         *)
(* overtaken wherever it awaits, also where it need not wait.              *)
(***************************************************************************)
EXTENDS Naturals, Sequences, FiniteSets, SequencesExt

CONSTANTS
  Turns,       \* turns of different Sessions, each shown in one conversation
  Pool,        \* threads of the default executor
  Room,        \* texts that fit in a card (_MAX_BODY_BYTES)
  MaxTexts,    \* bound on the texts of a turn
  Brief,       \* bound: turns of at most one text
  MaxFailures  \* bound on the calls to Feishu that go wrong

ASSUME LiveCardAssumption ==
  /\ IsFiniteSet(Turns)
  /\ Pool \in Nat \ {0} /\ Room \in Nat \ {0}
  /\ MaxTexts \in Nat /\ MaxFailures \in Nat

NoCard == 0                             \* _card_msg_id is None
Modes  == {"card", "text", "direct"}

VARIABLES
  live,        \* the presentation of each turn
  pool,        \* the executor's work: the first Pool items are running
  cards,       \* what the conversation shows of the turn: cards or messages
  failures     \* calls that went wrong

cardVars == <<live, pool, cards, failures>>

(* A card as it is built, a text message being a card without status.      *)
Card(c, body, next) == [body |-> body, status |-> c.status, next |-> next]

(* LiveCard.__init__, StreamThrottler.__init__; "direct" has no output:    *)
(* the conversation did not see the turn start.                            *)
Fresh(mode) ==
  [mode |-> mode, fed |-> 0, body |-> <<>>, status |-> "running", id |-> NoCard,
   dirty |-> FALSE, closed |-> FALSE, pending |-> FALSE,
   loop |-> "none",      \* none idle window draining over
   finish |-> "no",      \* no status flush joining last closed
   lock |-> <<>>,        \* _flush_lock: its holder, then those who wait
   inside |-> FALSE,     \* the holder's call is under way
   rolls |-> {},         \* _patch_roll_footer tasks that have not begun
   raced |-> FALSE]      \* a card was rolled over while its patch was under way

CardInit ==
  /\ live \in [Turns -> {Fresh(m) : m \in Modes}]
  /\ pool = <<>> /\ failures = 0
  /\ cards = [t \in Turns |-> <<>>]

----------------------------------------------------------------------------
(* The presentation                                                        *)

(* _roll is due: the card exists and has no room for the text.             *)
Full(c) == c.mode = "card" /\ c.id # NoCard /\ Len(c.body) >= Room

(* Variant: the text stays for the new card.                               *)
RolledWithBody(c) ==
  [c EXCEPT !.id = NoCard, !.rolls = @ \cup {[card |-> c.id, body |-> c.body]},
            !.raced = @ \/ c.inside]

(* _roll: the old card's last patch is a task of its own.                  *)
Rolled(c) ==
  [c EXCEPT !.body = <<>>, !.id = NoCard, !.rolls = @ \cup {[card |-> c.id, body |-> c.body]},
            !.raced = @ \/ c.inside]

(* feed                                                                    *)
Fed(c) ==
  LET d == IF Full(c) THEN Rolled(c) ELSE c IN
  [d EXCEPT !.fed = @ + 1, !.body = Append(@, c.fed + 1), !.dirty = TRUE, !.pending = TRUE,
            !.loop = IF @ = "none" THEN "idle" ELSE @]

(* One of the two tasks that flush comes to the lock.                      *)
Drains(c, who) == [c EXCEPT !.lock = Append(@, who)]

(* Variant: aclose does not wake the loop.                                 *)
ClosingQuietly(c) == [c EXCEPT !.closed = TRUE, !.finish = "joining"]

(* aclose up to the wait for the loop                                      *)
Closing(c) == [c EXCEPT !.closed = TRUE, !.pending = TRUE, !.finish = "joining"]

(* The holder of the lock leaves _drain and goes on.                       *)
Leaves(c) ==
  LET d == [c EXCEPT !.lock = Tail(@), !.inside = FALSE] IN
  IF Head(c.lock) = "loop" THEN [d EXCEPT !.loop = IF c.closed THEN "over" ELSE "idle"]
  ELSE CASE c.finish = "status" -> Drains([d EXCEPT !.finish = "flush"], "finish")
         [] c.finish = "flush"  -> Closing(d)
         [] c.finish = "last"   -> [d EXCEPT !.finish = "closed"]

(* Variant: set_status does not mark the card dirty.                       *)
FinishesUnseen(c) ==
  IF c.mode = "card"
  THEN Drains([c EXCEPT !.status = "done", !.finish = "status"], "finish")
  ELSE Drains([c EXCEPT !.finish = "flush"], "finish")

(* AgentOutputFinished: set_footer and set_status(...), or flush where the *)
(* status is not shown; what the texts lacked of the message is fed first. *)
Finishes(c) ==
  IF c.mode = "card"
  THEN Drains([c EXCEPT !.status = "done", !.dirty = TRUE, !.finish = "status"], "finish")
  ELSE Drains([c EXCEPT !.finish = "flush"], "finish")

----------------------------------------------------------------------------
(* The pool                                                                *)

Running(i) == i \in DOMAIN pool /\ i <= Pool

Projection(t, what) == [turn |-> t, does |-> what]
Call(t, what, card, content) == [turn |-> t, does |-> what, card |-> card, content |-> content]

Works(t, kinds) == {i \in DOMAIN pool : pool[i].turn = t /\ pool[i].does \in kinds}
Projecting(t)   == Works(t, {"feed", "finish"}) # {}

(* The presentation of t becomes c, and an item of the pool is done.       *)
Becomes(t, c)   == live' = [live EXCEPT ![t] = c]
Done(i)         == pool' = RemoveAt(pool, i)

(* The bound on the texts of a turn.                                       *)
MoreText(t) == live[t].fed < MaxTexts /\ (t \in Brief => live[t].fed = 0)

(* _publish_session_event, one event of a Session at a time: an            *)
(* AgentOutputDelta, or the last event of the turn.                        *)
Published(t, what) ==
  /\ ~Projecting(t) /\ live[t].finish = "no"
  /\ what = "feed" => MoreText(t)
  /\ pool' = Append(pool, Projection(t, what))
  /\ UNCHANGED <<live, cards, failures>>

(* The coroutine of an AgentOutputDelta on the main loop.                  *)
DeltaProjected(i) ==
  LET t == pool[i].turn IN
  /\ Running(i) /\ pool[i].does = "feed" /\ live[t].mode # "direct"
  /\ Becomes(t, Fed(live[t])) /\ Done(i)
  /\ UNCHANGED <<cards, failures>>

(* No output for the turn: the text is sent by another thread, and waited  *)
(* for.                                                                    *)
DeltaSentDirectly(i) ==
  LET t == pool[i].turn IN
  /\ Running(i) /\ pool[i].does = "feed" /\ live[t].mode = "direct"
  /\ ~live[t].inside
  /\ Becomes(t, [live[t] EXCEPT !.fed = @ + 1, !.inside = TRUE])
  /\ pool' = Append(pool, Call(t, "send", NoCard, Card(live[t], <<live[t].fed + 1>>, FALSE)))
  /\ UNCHANGED <<cards, failures>>

FinishedProjected(i) ==
  LET t == pool[i].turn IN
  /\ Running(i) /\ pool[i].does = "finish" /\ live[t].finish = "no"
  /\ IF live[t].mode = "direct"
     THEN Becomes(t, [live[t] EXCEPT !.finish = "closed"]) /\ Done(i)
     ELSE /\ \/ Becomes(t, Finishes(live[t]))
             \/ MoreText(t) /\ Becomes(t, Finishes(Fed(live[t])))
          /\ UNCHANGED pool
  /\ UNCHANGED <<cards, failures>>

(* The projection of AgentOutputFinished returns.                          *)
FinishedDone(i) ==
  /\ Running(i) /\ pool[i].does = "finish" /\ live[pool[i].turn].finish = "closed"
  /\ Done(i)
  /\ UNCHANGED <<live, cards, failures>>

----------------------------------------------------------------------------
(* The tasks of a presentation                                             *)

LoopWakes(t) ==
  /\ live[t].loop = "idle" /\ live[t].pending
  /\ Becomes(t, [live[t] EXCEPT !.loop = IF live[t].closed THEN "over" ELSE "window"])
  /\ UNCHANGED <<pool, cards, failures>>

WindowEnds(t) ==
  /\ live[t].loop = "window"
  /\ Becomes(t, Drains([live[t] EXCEPT !.loop = "draining", !.pending = FALSE], "loop"))
  /\ UNCHANGED <<pool, cards, failures>>

(* aclose goes on when the loop has ended.                                 *)
LoopJoined(t) ==
  /\ live[t].finish = "joining" /\ live[t].loop \in {"none", "over"}
  /\ Becomes(t, Drains([live[t] EXCEPT !.finish = "last"], "finish"))
  /\ UNCHANGED <<pool, cards, failures>>

(* _drain and _emit with the lock held: what is shown is decided now.      *)
Emits(t) ==
  LET c == live[t] IN
  /\ Becomes(t, [c EXCEPT !.dirty = FALSE, !.inside = TRUE,
                          !.body = IF c.mode = "card" THEN @ ELSE <<>>])
  /\ pool' = Append(pool, Call(t, "emit", c.id, Card(c, c.body, FALSE)))
  /\ UNCHANGED <<cards, failures>>

(* Variant: there is no lock.                                              *)
MayDrainAtOnce(c) == c.lock # <<>>

(* The lock is free for the first of those that came to it.                *)
MayDrain(c) == c.lock # <<>> /\ ~c.inside

DrainEntered(t) ==
  /\ MayDrain(live[t])
  /\ IF live[t].dirty THEN Emits(t)
     ELSE Becomes(t, Leaves(live[t])) /\ UNCHANGED <<pool, cards, failures>>

(* _patch_roll_footer                                                      *)
RollBegins(t) ==
  \E r \in live[t].rolls :
    /\ Becomes(t, [live[t] EXCEPT !.rolls = @ \ {r}])
    /\ pool' = Append(pool, Call(t, "roll", r.card, Card(live[t], r.body, TRUE)))
    /\ UNCHANGED <<cards, failures>>

----------------------------------------------------------------------------
(* The calls to Feishu                                                     *)

(* send_card, update_card, send_text at the server.                        *)
Shown(shown, call) ==
  IF call.card = NoCard THEN Append(shown, call.content)
  ELSE [shown EXCEPT ![call.card] = call.content]

(* The task that made the call goes on; id is the card it learned of.      *)
Returns(t, call, id) ==
  CASE call.does = "emit" -> Leaves([live[t] EXCEPT !.id = id])
    [] call.does = "send" -> [live[t] EXCEPT !.inside = FALSE]
    [] call.does = "roll" -> live[t]

(* The item is done, and with the call for a direct text its projection.   *)
Without(i) ==
  LET rest == RemoveAt(pool, i) IN
  IF pool[i].does = "send"
  THEN RemoveAt(rest, CHOOSE j \in DOMAIN rest : rest[j].turn = pool[i].turn)
  ELSE rest

Calls == {"emit", "roll", "send"}

CallMade(i) ==
  LET t == pool[i].turn  call == pool[i]  shown == Shown(cards[t], call)
      id == IF call.card = NoCard /\ live[t].mode = "card" THEN Len(shown) ELSE live[t].id
  IN /\ Running(i) /\ call.does \in Calls
     /\ cards' = [cards EXCEPT ![t] = shown]
     /\ Becomes(t, Returns(t, call, id))
     /\ pool' = Without(i)
     /\ UNCHANGED failures

(* The call raises: Feishu did not do it, or its answer was lost.  The     *)
(* exception is logged.                                                    *)
CallFails(i) ==
  LET t == pool[i].turn  call == pool[i] IN
  /\ Running(i) /\ call.does \in Calls /\ failures < MaxFailures
  /\ failures' = failures + 1
  /\ \/ UNCHANGED cards
     \/ cards' = [cards EXCEPT ![t] = Shown(@, call)]
  /\ Becomes(t, Returns(t, call, live[t].id))
  /\ pool' = Without(i)

----------------------------------------------------------------------------

Work(i) ==
  \/ DeltaProjected(i) \/ DeltaSentDirectly(i) \/ FinishedProjected(i) \/ FinishedDone(i)
  \/ CallMade(i) \/ CallFails(i)

Step(t) == LoopWakes(t) \/ WindowEnds(t) \/ LoopJoined(t) \/ DrainEntered(t) \/ RollBegins(t)

CardNext ==
  \/ \E t \in Turns : Step(t) \/ \E what \in {"feed", "finish"} : Published(t, what)
  \/ \E i \in DOMAIN pool : Work(i)

CardSpec == CardInit /\ [][CardNext]_cardVars

(* The main loop runs what is ready, and a thread what it has begun: the   *)
(* calls have timeouts.                                                    *)
WorkOf(t) == \E i \in DOMAIN pool : pool[i].turn = t /\ Work(i)

FairCards == CardSpec /\ \A t \in Turns : WF_cardVars(Step(t)) /\ WF_cardVars(WorkOf(t))

----------------------------------------------------------------------------
(* Properties                                                              *)

Contents == [body : Seq(1..MaxTexts), status : {"running", "done"}, next : BOOLEAN]

(* The state is what its variables say, and the lock does its work: a call *)
(* that shows the turn is under way exactly while a task is inside _drain, *)
(* never two of them, and the loop and the finishing task are at the lock  *)
(* when their stage says so.                                               *)
LiveConsistent ==
  /\ failures \in 0..MaxFailures
  /\ \A t \in Turns : cards[t] \in Seq(Contents)
  /\ \A t \in Turns : LET c == live[t] IN
       /\ c.mode \in Modes /\ c.fed \in 0..MaxTexts /\ c.id \in 0..Len(cards[t])
       /\ Cardinality(Works(t, {"emit", "send"})) = IF c.inside THEN 1 ELSE 0
       /\ Cardinality(Works(t, {"feed", "finish"})) <= 1
       /\ ToSet(c.lock) = (IF c.loop = "draining" THEN {"loop"} ELSE {})
                      \cup (IF c.finish \in {"status", "flush", "last"} THEN {"finish"} ELSE {})
       /\ c.finish = "closed" => c.loop \in {"none", "over"} /\ ~c.inside

(* What a conversation shows of a turn is in the order of the agent's      *)
(* output, and unless a call went wrong no text is on two cards: neither a *)
(* roll-over, which feed makes while a flush may be under way, nor the     *)
(* flushes of the loop and of the turn's end show a text again.            *)
NoTextTwice ==
  \A t \in Turns : \A i \in DOMAIN cards[t] : LET body == cards[t][i].body IN
    /\ \A k \in DOMAIN body : body[k] = body[1] + k - 1
    /\ failures = 0 =>
         \A j \in 1..(i - 1) : \A k \in ToSet(cards[t][j].body) : \A l \in ToSet(body) : k < l

(* When the presentation of a turn is closed and its calls are made, and   *)
(* none of them went wrong, the conversation has the whole output, the     *)
(* last card with the turn's outcome and the others with the note that     *)
(* leads to the next - unless a card was rolled over while a patch of it   *)
(* was under way: the two patches race, and the older text may stay.       *)
WholeWhenClosed ==
  \A t \in Turns : LET c == live[t]  shown == cards[t] IN
    (c.finish = "closed" /\ c.rolls = {} /\ Works(t, Calls) = {} /\ ~c.raced /\ failures = 0) =>
      /\ UNION {ToSet(shown[i].body) : i \in DOMAIN shown} = 1..c.fed
      /\ c.mode = "card" =>
           /\ shown # <<>> /\ Last(shown).status = "done"
           /\ \A i \in DOMAIN shown : shown[i].next <=> i < Len(shown)

(* A card that shows the turn's outcome, and no note to a next card, shows *)
(* the output to its end, whatever calls went wrong before, and is not     *)
(* patched again with less.                                                *)
DoneIsWhole ==
  \A t \in Turns : \A i \in DOMAIN cards[t] :
    LET card == cards[t][i] IN
    (card.status = "done" /\ ~card.next) =>
      (live[t].fed > 0 => card.body # <<>> /\ Last(card.body) = live[t].fed)

(* What remains to be read when a turn is over is all of its output.       *)
OutputIsWhole == WholeWhenClosed /\ DoneIsWhole

(* The threads are all held by projections that wait for a call, and the   *)
(* calls wait for a thread.                                                *)
Waits(i) ==
  LET c == live[pool[i].turn] IN
  \/ pool[i].does = "finish" /\ c.finish \notin {"no", "closed"}
  \/ pool[i].does = "feed" /\ c.inside
Starved ==
  /\ Len(pool) > Pool /\ \A i \in 1..Pool : Waits(i)
  /\ \A i \in (Pool + 1)..Len(pool) : pool[i].does \in Calls

(* The executor gets through its work: every projection returns, with the  *)
(* presentation closed if it was the turn's last - unless as many turns as *)
(* there are threads end at once, or send a text at once, and each thread  *)
(* waits for a call that waits for a thread: then, and only then, the pool *)
(* stands still for good.                                                  *)
PoolDrains == []<>(pool = <<>>) \/ <>[]Starved

(* _emit must never bring the worker down (feishu_livecard.py:127), so the *)
(* executor always gets through its work.  It does not: see Starved.       *)
PoolAlwaysDrains == []<>(pool = <<>>)

=============================================================================
