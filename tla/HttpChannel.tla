---------------------------- MODULE HttpChannel ----------------------------
(***************************************************************************)
(* The HTTP channel of the daemon: conversations, each with a ring of      *)
(* events that clients read by cursor, and with the ids ("targets") that   *)
(* belong to it.  Requests are served by threads, session events come from *)
(* others; all of them meet under _state_lock, and a use of the lock is a  *)
(* step here.  What takes it twice in a row, for a target and for the event*)
(* that names it, is one step: a target says nothing before its event.     *)
(* None of this state is written to disk: a daemon that starts anew has    *)
(* another instance id and knows no conversation.                          *)
(***************************************************************************)
EXTENDS Naturals, Sequences, FiniteSets, FiniteSetsExt

CONSTANTS
  Ids,               \* conversation ids, a client's own and those made here
  Targets,           \* ids of messages and outputs
  Nobody,            \* no conversation
  MaxConversations,  \* _max_conversations
  MaxTargets,        \* _max_targets, of one conversation
  MaxEvents,         \* _max_events, the length of a ring
  MaxCursor,         \* bound: events of one conversation
  MaxInstances       \* bound: starts of the daemon

ASSUME HttpChannelAssumption ==
  /\ Nobody \notin Ids
  /\ {MaxConversations, MaxTargets, MaxEvents, MaxInstances} \subseteq Nat \ {0}
  /\ MaxCursor \in Nat

VARIABLES
  instance,  \* _instance_id, counted
  open,      \* the keys of _conversations
  events,    \* conversation -> cursors of the events in its ring, oldest first
  next,      \* conversation -> next_cursor
  targets,   \* conversation -> its targets
  owner,     \* _target_conversations
  bound,     \* conversations the daemon shows the Session in (_conversation_session_ids)
  opening,   \* the Task conversation that was created and is not bound yet
  session    \* the Session of the Task: live, terminal, or gone from the ledger

server == <<instance, open, events, next, targets, owner, bound, opening, session>>

Latest(c) == next[c] - 1
Oldest(c) == IF events[c] = <<>> THEN 0 ELSE Head(events[c])

(* _conversations, _target_conversations and the bindings of a new process *)
Blank(i) ==
  /\ instance = i
  /\ open = {} /\ bound = {} /\ opening = Nobody
  /\ events = [c \in Ids |-> <<>>]
  /\ next = [c \in Ids |-> 1]
  /\ targets = [c \in Ids |-> {}]
  /\ owner = [t \in Targets |-> Nobody]

----------------------------------------------------------------------------
(* State under _state_lock                                                 *)

(* _claim_targets: what must hold, else the request or event fails.        *)
HasRoom(c)    == c \in open \/ Cardinality(open) < MaxConversations
Claims(c, ts) == /\ HasRoom(c)
                 /\ \A t \in ts : owner[t] \in {Nobody, c}
                 /\ Cardinality(targets[c] \cup ts) <= MaxTargets
Claimed(c, ts) ==
  /\ open' = open \cup {c}
  /\ targets' = [targets EXCEPT ![c] = @ \cup ts]
  /\ owner' = [t \in Targets |-> IF t \in ts THEN c ELSE owner[t]]

(* A deque with maxlen drops its oldest element.                           *)
Ring(es) == SubSeq(es, IF Len(es) > MaxEvents THEN Len(es) - MaxEvents + 1 ELSE 1, Len(es))

(* _append_event, n times in a row                                         *)
Appends(c, n) ==
  /\ next[c] + n <= MaxCursor + 1
  /\ events' = [events EXCEPT ![c] = Ring(@ \o [i \in 1..n |-> next[c] + i - 1])]
  /\ next' = [next EXCEPT ![c] = @ + n]

(* _new_target: an id nobody has; which one does not matter.               *)
Free     == {t \in Targets : owner[t] = Nobody}
Fresh(t) == Free # {} /\ t = CHOOSE u \in Free : TRUE

(* The events past a cursor: a ring is in order, so they are its tail.     *)
After(es, n) == SubSeq(es, Cardinality({i \in DOMAIN es : es[i] <= n}) + 1, Len(es))

(* _events_after: a page, or why there is none.                            *)
Page(c, after) ==
  LET answer(kind, es) == [instance |-> instance, kind |-> kind, events |-> es,
                           latest |-> Latest(c), oldest |-> Oldest(c)]
  IN CASE c \notin open -> [answer("unknown_conversation", <<>>) EXCEPT !.latest = 0]
       [] c \in open /\ after > Latest(c) -> answer("cursor_invalid", <<>>)
       [] c \in open /\ events[c] # <<>> /\ after + 1 < Oldest(c) -> answer("cursor_expired", <<>>)
       [] OTHER -> answer("ok", After(events[c], after))

----------------------------------------------------------------------------
(* Events of the daemon                                                    *)

(* handle_session_event for a conversation that follows the Session.  A     *)
(* started turn needs a target for its output; the input of another        *)
(* channel is repeated as a message, which needs one too.  What finds no   *)
(* room is an error of this projection: the event is not shown here.       *)
ShowEvent(c, kind) ==
  /\ \E t \in Targets :
       /\ Fresh(t)
       /\ CASE kind = "started"  -> Claims(c, {t}) /\ Claimed(c, {t}) /\ Appends(c, 1)
            [] kind = "accepted" -> /\ HasRoom(c)
                                    /\ IF Claims(c, {t})
                                       THEN Claimed(c, {t}) /\ Appends(c, 2)
                                       ELSE Claimed(c, {}) /\ Appends(c, 1)
            [] OTHER             -> HasRoom(c) /\ Claimed(c, {}) /\ Appends(c, 1)
  /\ UNCHANGED <<instance, bound, opening, session>>

(* send_text: an answer, a notice                                          *)
SendText(c) ==
  /\ \E t \in Targets : Fresh(t) /\ Claims(c, {t}) /\ Claimed(c, {t})
  /\ Appends(c, 1)
  /\ UNCHANGED <<instance, bound, opening, session>>

(* The Session ends, and then is resumed (resume_task) or cleared from the *)
(* ledger: its conversations stay.                                         *)
Later == [live |-> {"terminal"}, terminal |-> {"live", "gone"}, gone |-> {}]
ChangeSession ==
  /\ session' \in Later[session]
  /\ UNCHANGED <<instance, open, events, next, targets, owner, bound, opening>>

(* The daemon starts anew.  The ledger keeps the Session.                  *)
StartAnew ==
  /\ instance < MaxInstances
  /\ instance' = instance + 1
  /\ open' = {} /\ bound' = {} /\ opening' = Nobody
  /\ events' = [c \in Ids |-> <<>>]
  /\ next' = [c \in Ids |-> 1]
  /\ targets' = [c \in Ids |-> {}]
  /\ owner' = [t \in Targets |-> Nobody]
  /\ UNCHANGED session

----------------------------------------------------------------------------
(* Requests                                                                *)

(* POST /api/channel/messages: accepted, the handler runs later.           *)
AcceptMessage(c, t) ==
  /\ Claims(c, {t}) /\ Claimed(c, {t})
  /\ UNCHANGED <<instance, events, next, bound, opening, session>>

(* POST /api/tasks/{id}/conversations: create_thread under a new id, then  *)
(* the binding, or, for a Session that has ended since, the rollback.      *)
CreateThread(c) ==
  /\ opening = Nobody /\ session # "gone"
  /\ \E t \in Targets : Fresh(t) /\ Claims(c, {t}) /\ Claimed(c, {t})
  /\ Appends(c, 1)
  /\ opening' = c
  /\ UNCHANGED <<instance, bound, session>>

BindConversation ==
  /\ opening # Nobody /\ session = "live"
  /\ bound' = bound \cup {opening}
  /\ opening' = Nobody
  /\ UNCHANGED <<instance, open, events, next, targets, owner, session>>

(* Variant: the rollback forgets the targets.                              *)
RollBackOnlyConversation ==
  /\ opening # Nobody /\ session # "live"
  /\ open' = open \ {opening}
  /\ events' = [events EXCEPT ![opening] = <<>>]
  /\ next' = [next EXCEPT ![opening] = 1]
  /\ targets' = [targets EXCEPT ![opening] = {}]
  /\ opening' = Nobody
  /\ UNCHANGED <<instance, owner, bound, session>>

RollBackConversation ==
  /\ opening # Nobody /\ session # "live"
  /\ open' = open \ {opening}
  /\ events' = [events EXCEPT ![opening] = <<>>]
  /\ next' = [next EXCEPT ![opening] = 1]
  /\ targets' = [targets EXCEPT ![opening] = {}]
  /\ owner' = [t \in Targets |-> IF t \in targets[opening] /\ owner[t] = opening
                                 THEN Nobody ELSE owner[t]]
  /\ opening' = Nobody
  /\ UNCHANGED <<instance, bound, session>>

----------------------------------------------------------------------------
(* Consistency of the channel's own maps, whatever order the threads come  *)
(* in: a ring holds the last cursors given out, without a gap and at most  *)
(* MaxEvents of them; a target belongs to exactly the conversation that    *)
(* lists it, also after a rollback; the bounds on conversations and        *)
(* targets are kept; only conversations that exist are shown a Session.    *)
ChannelConsistent ==
  /\ instance \in 1..MaxInstances
  /\ open \subseteq Ids /\ bound \cup ({opening} \ {Nobody}) \subseteq open
  /\ Cardinality(open) <= MaxConversations
  /\ \A c \in Ids :
       LET n == Min({MaxEvents, Latest(c)})
       IN events[c] = [i \in 1..n |-> Latest(c) - n + i]
  /\ \A c \in Ids : /\ Cardinality(targets[c]) <= MaxTargets
                    /\ targets[c] = {t \in Targets : owner[t] = c}
                    /\ c \in open \/ (targets[c] = {} /\ events[c] = <<>>)
=============================================================================
