----------------------------- MODULE WebClient -----------------------------
(***************************************************************************)
(* The page of the web client, one browser tab, over the HTTP channel: it  *)
(* polls the conversation it shows by cursor, sends messages, opens the    *)
(* conversation of a Task, and recovers when the daemon was restarted or   *)
(* its cursor has fallen out of the ring.  Code between two awaits is one  *)
(* step; requests and their answers take time, and may fail.  There is one *)
(* Task besides the dispatcher's.                                          *)
(***************************************************************************)
EXTENDS HttpChannel, SequencesExt

CONSTANTS
  Own,          \* ids the client makes for its dispatcher conversation
  Made,         \* ids the channel makes for Task conversations
  MaxAttempts,  \* MAX_POLL_RECOVERY_ATTEMPTS
  MaxClicks     \* bound: what the user does, and requests that fail

ASSUME WebClientAssumption ==
  /\ Ids = Own \cup Made /\ Own \cap Made = {} /\ Own # {}
  /\ {MaxAttempts, MaxClicks} \subseteq Nat

Operations == {"connect", "send", "select"}

VARIABLES
  page,    \* the state of app.ts, and what localStorage keeps of it
  op,      \* connect, sendMessage and selectTask: where each one stands
  used,    \* ids handed out so far, by either side (history)
  inbox,   \* conversations with an accepted message that has no answer yet
  clicks

vars == <<server, page, op, used, inbox, clicks>>

(* page: own is conversationId, opened the Task's taskConversations entry, *)
(* instance is channelInstanceId (0: null), task the status of the Task in *)
(* the list; saved and begun are the cursors and "started" flags in        *)
(* localStorage; loop is the polling loop of this generation, polls its    *)
(* event request.  alert says that the status line shows an error or a     *)
(* restart.  History: shown is what the timeline of a conversation got on   *)
(* this page, told the cursors that were seen before a reload, or that a   *)
(* notice reported lost; crossed has the conversations whose cursor was    *)
(* once set by an error of another conversation's request.                 *)
Active(p) == IF p.selected = "task" /\ p.opened # Nobody THEN p.opened ELSE p.own

Idle == [phase |-> "idle", task |-> "dispatcher", id |-> Nobody, answer |-> 0,
         join |-> FALSE, news |-> FALSE, checked |-> 0]
Busy == op["select"].phase # "idle"                  \* taskSelectionBusy

NoAnswer == [instance |-> 0, kind |-> "none", events |-> <<>>, latest |-> 0, oldest |-> 0]

----------------------------------------------------------------------------
(* The page's synchronous functions                                        *)

(* Variant: the answer to a request of a past generation is used.          *)
StopPollingLate(p) == [p EXCEPT !.loop = "off"]

(* ++pollGeneration: the answer to a request under way will be ignored.    *)
StopPolling(p) == [p EXCEPT !.loop = "off", !.polls = {}]

(* pollOnce up to its request                                              *)
Ask(p) ==
  [p EXCEPT !.loop = "asking",
            !.polls = @ \cup {[id |-> Active(p), after |-> p.cursor,
                               answer |-> NoAnswer]}]

Loops(p) == p.connected /\ p.started
StartPolling(p) ==
  LET q == [StopPolling(p) EXCEPT !.attempts = 0] IN IF Loops(q) THEN Ask(q) ELSE q

LoadActiveConversationState(p) ==
  LET c == p.saved[Active(p)]
  IN [p EXCEPT !.cursor = c, !.rendered = c, !.started = Active(p) \in p.begun]

PersistCursor(p) == [p EXCEPT !.saved[Active(p)] = p.cursor]

(* clearChannelRuntimeState                                                *)
Cleared(p) ==
  [StopPolling(p) EXCEPT
     !.saved = [c \in Ids |-> IF c \in {p.own, p.opened} THEN 0 ELSE @[c]],
     !.begun = @ \ {p.own, p.opened},
     !.cursor = 0, !.rendered = 0, !.started = FALSE, !.selected = "dispatcher",
     !.opened = Nobody,
     !.shown = [c \in Ids |-> <<>>], !.told = [c \in Ids |-> {}], !.crossed = {}]

(* Variant: what the old daemon knew is kept.                              *)
AcceptAll(p, i) == [p EXCEPT !.instance = i]

(* acceptChannelInstance                                                   *)
Accept(p, i) ==
  IF i = p.instance THEN p
  ELSE [Cleared(p) EXCEPT !.instance = i, !.alert = p.instance # 0]

(* pollOnce, its answer accepted: events below renderedCursor are not      *)
(* rendered again.                                                         *)
Rendered(p, a) ==
  LET new == After(a.events, p.rendered)
  IN PersistCursor([p EXCEPT
       !.shown[Active(p)] = @ \o new,
       !.rendered = IF new = <<>> THEN @ ELSE Last(new),
       !.cursor = Max({@, a.latest}),
       !.loop = "resting", !.attempts = 0, !.alert = FALSE])

(* recoverPollingError: where the next attempt goes on, and, for events    *)
(* lost from the ring, the notice in the timeline.  It does not look whose *)
(* request failed: when the conversation shown has changed since, the      *)
(* cursor of the new one is set, and the notice is not about its events.   *)
Recover(p, id, a) ==
  LET q == [p EXCEPT !.cursor = IF a.kind = "cursor_invalid" THEN 0 ELSE a.oldest - 1]
  IN IF id # Active(p) THEN [q EXCEPT !.crossed = @ \cup {Active(p)}]
     ELSE [q EXCEPT !.told[id] = @ \cup (p.cursor + 1)..q.cursor]

(* Variant: the cursor stays, and nothing counts the attempts.             *)
RetriedInPlace(p, id, a) == Ask(p)

Retried(p, id, a) ==
  LET q == PersistCursor(Recover(p, id, a))
  IN IF p.attempts < MaxAttempts
     THEN IF Loops(q) THEN Ask([q EXCEPT !.attempts = @ + 1]) ELSE [q EXCEPT !.loop = "off"]
     ELSE [q EXCEPT !.loop = "off", !.alert = TRUE]

(* The answer of the live request.                                         *)
Polled(p, id, a) ==
  IF a.kind = "ok" /\ id # Active(p) THEN [p EXCEPT !.loop = "off"]
  ELSE IF a.instance # p.instance THEN Accept(p, a.instance)
  ELSE CASE a.kind = "unknown_conversation" -> [Cleared(p) EXCEPT !.alert = TRUE]
         [] a.kind = "ok"                   -> Rendered(p, a)
         [] OTHER                           -> Retried(p, id, a)

----------------------------------------------------------------------------
Init ==
  /\ Blank(1) /\ session = "live"
  /\ LET c == CHOOSE c \in Own : TRUE IN
       /\ used = {c}
       /\ page = [own |-> c, opened |-> Nobody, selected |-> "dispatcher", task |-> "live",
                  instance |-> 0, cursor |-> 0, rendered |-> 0, started |-> FALSE,
                  connected |-> FALSE, loop |-> "off", attempts |-> 0, polls |-> {},
                  saved |-> [i \in Ids |-> 0], begun |-> {}, alert |-> FALSE,
                  shown |-> [i \in Ids |-> <<>>], told |-> [i \in Ids |-> {}],
                  crossed |-> {}]
  /\ op = [o \in Operations |-> Idle]
  /\ inbox = {} /\ clicks = 0

Click == clicks < MaxClicks /\ clicks' = clicks + 1
Goes(o, s) == op' = [op EXCEPT ![o] = s]

----------------------------------------------------------------------------
(* Polling                                                                 *)

ServePoll(q) ==
  /\ q \in page.polls /\ q.answer = NoAnswer
  /\ page' = [page EXCEPT !.polls = (@ \ {q}) \cup {[q EXCEPT !.answer = Page(q.id, q.after)]}]
  /\ UNCHANGED <<server, op, used, inbox, clicks>>

PollAnswered(q) ==
  /\ q \in page.polls /\ q.answer # NoAnswer
  /\ page' = Polled([page EXCEPT !.polls = @ \ {q}], q.id, q.answer)
  /\ UNCHANGED <<server, op, used, inbox, clicks>>

(* The request fails: no answer, or none that is known here.               *)
PollFails(q) ==
  /\ q \in page.polls /\ Click
  /\ page' = [page EXCEPT !.polls = @ \ {q}, !.loop = "off", !.alert = TRUE]
  /\ UNCHANGED <<server, op, used, inbox>>

(* wait(700) is over.                                                      *)
PollsAgain ==
  /\ page.loop = "resting"
  /\ page' = IF Loops(page) THEN Ask(page) ELSE [page EXCEPT !.loop = "off"]
  /\ UNCHANGED <<server, op, used, inbox, clicks>>

(* fetchTasks and applyTasks: a Task that is gone is left.                 *)
WithTasks(p) ==
  LET q == [p EXCEPT !.task = session]
  IN IF session = "gone" /\ p.selected = "task"
     THEN LoadActiveConversationState([q EXCEPT !.selected = "dispatcher"]) ELSE q

TasksPolled ==
  /\ page.connected /\ ~Busy /\ page.task # session
  /\ page' = WithTasks(page)
  /\ UNCHANGED <<server, op, used, inbox, clicks>>

----------------------------------------------------------------------------
(* The user                                                                *)

(* sendMessage connects first, if need be; else it only asks for the       *)
(* instance.                                                               *)
Connect ==
  /\ op["connect"].phase = "idle" /\ Click
  /\ Goes("connect", [Idle EXCEPT !.phase = "health", !.join = TRUE])
  /\ page' = [page EXCEPT !.alert = FALSE]
  /\ UNCHANGED <<server, used, inbox>>

Send ==
  /\ op["send"].phase = "idle" /\ ~Busy /\ Click
  /\ page.selected = "dispatcher" \/ page.task = "live"
  /\ Goes("send", [Idle EXCEPT !.phase = "health", !.task = page.selected,
                               !.join = ~page.connected])
  /\ page' = [page EXCEPT !.alert = IF page.connected THEN @ ELSE FALSE]
  /\ UNCHANGED <<server, used, inbox>>

(* selectTask, its end: the conversation is shown.                         *)
Selected(p, s) ==
  LET q == LoadActiveConversationState([p EXCEPT !.selected = s.task])
  IN IF s.join /\ q.started THEN StartPolling(q) ELSE q

(* selectTask: a live Task without a conversation gets one first.  join    *)
(* says that polling was paused.                                           *)
Select(t) ==
  /\ ~Busy /\ Click
  /\ t = "task" => page.task # "gone"
  /\ LET s == [Idle EXCEPT !.phase = "health", !.task = t, !.join = t # page.selected]
         p == IF s.join THEN StopPolling(page) ELSE page
     IN IF t = "task" /\ page.task = "live" /\ page.opened = Nobody
        THEN Goes("select", s) /\ page' = [p EXCEPT !.alert = FALSE]
        ELSE UNCHANGED op /\ page' = [Selected(p, s) EXCEPT !.alert = FALSE]
  /\ UNCHANGED <<server, used, inbox>>

(* resetConversation                                                       *)
Reset ==
  /\ ~Busy /\ Click
  /\ \E c \in Own \ used :
       /\ used' = used \cup {c}
       /\ page' = [Cleared(page) EXCEPT !.own = c, !.alert = FALSE]
  /\ UNCHANGED <<server, op, inbox>>

(* The page is loaded again: localStorage is what it starts from.          *)
Reload ==
  /\ Click
  /\ page' = [page EXCEPT
       !.opened = Nobody, !.selected = "dispatcher", !.task = session,
       !.cursor = page.saved[page.own], !.rendered = 0, !.started = page.own \in page.begun,
       !.connected = FALSE, !.loop = "off", !.attempts = 0, !.polls = {}, !.alert = FALSE,
       !.shown = [c \in Ids |-> <<>>],
       !.told = [c \in Ids |-> page.told[c] \cup ToSet(page.shown[c])]]
  /\ op' = [o \in Operations |-> Idle]
  /\ UNCHANGED <<server, used, inbox>>

----------------------------------------------------------------------------
(* The user's operations, await by await                                   *)

(* What an operation that cannot go on leaves.                             *)
Failed(p, o) ==
  CASE o = "connect" -> [p EXCEPT !.connected = FALSE, !.alert = TRUE]
    [] o = "send"    -> [p EXCEPT !.alert = @ \/ op[o].phase # "post" \/ op[o].id = Active(p)]
    [] o = "select"  -> IF op[o].join /\ p.started THEN [StartPolling(p) EXCEPT !.alert = TRUE]
                                                   ELSE [p EXCEPT !.alert = TRUE]

OperationFails(o) ==
  /\ op[o].phase # "idle" /\ Click
  /\ page' = Failed(page, o) /\ Goes(o, Idle)
  /\ UNCHANGED <<server, used, inbox>>

(* sendMessage, once the instance is known: may the message go, and where? *)
Post(p, s) ==
  IF /\ ~Busy /\ p.selected = s.task
     /\ s.task = "task" => ~s.news /\ p.task = "live" /\ p.opened # Nobody
  THEN /\ Goes("send", [s EXCEPT !.phase = "post", !.id = IF s.task = "task" THEN p.opened ELSE p.own])
       /\ page' = p
  ELSE Goes("send", Idle) /\ page' = [p EXCEPT !.alert = TRUE]

(* GET /api/channel/health.  Whatever daemon serves it, its answer is read *)
(* before one of a later daemon.                                           *)
HealthAnswered(o) ==
  /\ op[o].phase = "health"
  /\ LET p == Accept(page, instance)
         s == [op[o] EXCEPT !.news = instance # page.instance, !.checked = instance]
     IN CASE o = "select"           -> Goes(o, [s EXCEPT !.phase = "create"]) /\ page' = p
          [] o # "select" /\ s.join -> Goes(o, [s EXCEPT !.phase = "tasks"]) /\ page' = p
          [] OTHER                  -> Post(p, s)
  /\ UNCHANGED <<server, used, inbox, clicks>>

(* connect: the lists are loaded, polling begins.                          *)
TasksLoaded(o) ==
  /\ op[o].phase = "tasks"
  /\ LET q == [WithTasks(page) EXCEPT !.connected = TRUE, !.alert = FALSE]
         p == IF q.started THEN StartPolling(q) ELSE q
     IN IF o = "send" THEN Post(p, op[o]) ELSE Goes(o, Idle) /\ page' = p
  /\ UNCHANGED <<server, used, inbox, clicks>>

ServePost ==
  LET c == op["send"].id IN
  /\ op["send"].phase = "post" /\ op["send"].answer = 0
  /\ \/ /\ \E t \in Targets : Fresh(t) /\ AcceptMessage(c, t)
        /\ inbox' = inbox \cup {c}
        /\ Goes("send", [op["send"] EXCEPT !.answer = 202])
     \/ /\ ~ \E t \in Targets : Fresh(t) /\ Claims(c, {t})
        /\ Goes("send", [op["send"] EXCEPT !.answer = 429])
        /\ UNCHANGED <<server, inbox>>
  /\ UNCHANGED <<page, used, clicks>>

PostAnswered ==
  LET s == op["send"] IN
  /\ s.phase = "post" /\ s.answer # 0
  /\ Goes("send", Idle)
  /\ page' = IF s.answer # 202 THEN Failed(page, "send")
             ELSE IF s.id # Active(page) THEN page
             ELSE StartPolling([page EXCEPT !.started = TRUE, !.begun = @ \cup {s.id},
                                            !.alert = FALSE])
  /\ UNCHANGED <<server, used, inbox, clicks>>

(* POST /api/tasks/{id}/conversations: the thread is made, or the route    *)
(* fails: no such Session, no room, its time is over.                      *)
ServeCreate ==
  /\ op["select"].phase = "create" /\ op["select"].answer = 0 /\ op["select"].id = Nobody
  /\ opening = Nobody
  /\ \/ \E c \in Made \ used :
          /\ CreateThread(c) /\ used' = used \cup {c}
          /\ Goes("select", [op["select"] EXCEPT !.id = c])
     \/ /\ Goes("select", [op["select"] EXCEPT !.answer = 500])
        /\ UNCHANGED <<server, used>>
  /\ UNCHANGED <<page, inbox, clicks>>

Answers(code) == op' = IF op["select"].id = opening
                       THEN [op EXCEPT !["select"].answer = code] ELSE op

FinishCreate ==
  /\ \/ BindConversation /\ Answers(201)
     \/ RollBackConversation /\ Answers(409)
  /\ UNCHANGED <<page, used, inbox, clicks>>

CreateAnswered ==
  LET s == op["select"] IN
  /\ s.phase = "create" /\ s.answer # 0
  /\ Goes("select", Idle)
  /\ page' = IF s.answer # 201 THEN Failed(page, "select")
             ELSE Selected([page EXCEPT !.opened = s.id, !.begun = @ \cup {s.id}], s)
  /\ UNCHANGED <<server, used, inbox, clicks>>

----------------------------------------------------------------------------
(* The daemon                                                              *)

(* An accepted message is handled: it is answered, or its turn shows.      *)
Answer(c) ==
  /\ c \in inbox /\ c \in open /\ inbox' = inbox \ {c}
  /\ SendText(c) \/ ShowEvent(c, "other")
  /\ UNCHANGED <<page, op, used, clicks>>

SessionEvent(c) ==
  /\ c \in bound /\ session # "gone"
  /\ \E k \in {"started", "accepted", "other"} : ShowEvent(c, k)
  /\ UNCHANGED <<page, op, used, inbox, clicks>>

SessionChanges == ChangeSession /\ UNCHANGED <<page, op, used, inbox, clicks>>

(* The daemon is restarted.  A Task conversation that was asked for is not *)
(* answered any more; the answer of an old daemon is not read after that   *)
(* of a new one.                                                           *)
DaemonStartsAnew ==
  /\ StartAnew /\ inbox' = {}
  /\ op' = IF op["select"].phase = "create"
           THEN [op EXCEPT !["select"].answer = 500] ELSE op
  /\ UNCHANGED <<page, used, clicks>>

Next ==
  \/ \E q \in page.polls : ServePoll(q) \/ PollAnswered(q) \/ PollFails(q)
  \/ PollsAgain \/ TasksPolled
  \/ Connect \/ Send \/ \E t \in {"dispatcher", "task"} : Select(t)
  \/ Reset \/ Reload
  \/ \E o \in Operations :
       OperationFails(o) \/ HealthAnswered(o) \/ TasksLoaded(o)
  \/ ServePost \/ PostAnswered \/ ServeCreate \/ FinishCreate \/ CreateAnswered
  \/ \E c \in Ids : Answer(c) \/ SessionEvent(c)
  \/ SessionChanges \/ DaemonStartsAnew

Spec == Init /\ [][Next]_vars

(* A request that does not fail is answered; the browser runs what is due. *)
FairSpec ==
  /\ Spec
  /\ WF_vars(\E q \in page.polls : ServePoll(q))
  /\ WF_vars(\E q \in page.polls : PollAnswered(q))
  /\ WF_vars(PollsAgain)
  /\ WF_vars(HealthAnswered("select"))
  /\ WF_vars(ServeCreate) /\ WF_vars(FinishCreate) /\ WF_vars(CreateAnswered)

----------------------------------------------------------------------------
(* Properties                                                              *)

Position(c) == IF c = Active(page) THEN page.cursor ELSE page.saved[c]
Seen(c)     == ToSet(page.shown[c]) \cup page.told[c]

(* The page never passes over an event: what lies behind the cursor of a   *)
(* conversation, the saved one too, was shown to the user, or a notice in  *)
(* the timeline says that it is lost.  A cursor of one daemon instance is  *)
(* never used with the next one.                                           *)
NoSilentGap(c) == c \in {page.own, page.opened} => 1..Position(c) \subseteq Seen(c)

(* An event is shown once, in the order the channel gave it, over answers  *)
(* that come late, recoveries, changes of the Task shown, and reloads.     *)
ShownOnce(c) ==
  /\ \A i, j \in DOMAIN page.shown[c] : i < j => page.shown[c][i] < page.shown[c][j]
  /\ ToSet(page.shown[c]) \cap page.told[c] = {}

(* Between the ring that forgets, answers that come late, changes of the   *)
(* Task shown, Tasks that end, are resumed or vanish, and restarts, the    *)
(* user sees every event of a conversation once or is told that it is lost,*)
(* unless recoverPollingError has set its cursor for another's request.    *)
EventsShownOnce == \A c \in Ids \ page.crossed : NoSilentGap(c) /\ ShownOnce(c)

(* The notice of recoverPollingError, app.ts:1352, that earlier events of  *)
(* the conversation shown are gone, and the cursor it goes on from, are    *)
(* about that conversation.                                                *)
RecoversItsOwn == page.crossed = {}

(* The same of the conversation of a Task, which another conversation's    *)
(* poll finds in its place when a Task is opened anew after its end.       *)
TasksRecoverTheirOwn == page.crossed \cap Made = {}

(* sendMessage: a message for a Task that is accepted reaches the Task's   *)
(* Session, not the dispatcher, whom an unbound conversation belongs to,   *)
(* unless the daemon was restarted after sendMessage had asked for it.     *)
TaskMessagesReachTask ==
  [][\A c \in Made : c \in inbox' \ inbox => c \in bound \/ instance # op["send"].checked]_vars

(* A page that polls the conversation it shows does not stay behind for    *)
(* ever: the cursor gets to the last event, unless the user turns          *)
(* elsewhere, the daemon is restarted, or the status line shows an error.  *)
Behind ==
  LET c == Active(page) IN
  /\ page.loop = "resting" \/ \E q \in page.polls : q.id = c
  /\ page.connected /\ ~page.alert /\ page.instance = instance
  /\ page.cursor < Latest(c)
CatchesUp == []<>~Behind
=============================================================================
