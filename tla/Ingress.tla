------------------------------ MODULE Ingress ------------------------------
(***************************************************************************)
(* The way of a user's message from Feishu's server to a Session or to the *)
(* console.  The channel's thread receives an event in frames, puts its    *)
(* parts together, hands the message to the main loop and acknowledges it; *)
(* the server pushes again what is not acknowledged.  The daemon drops a   *)
(* message whose id it remembers, and finds the Session of the             *)
(* conversation in its bindings or in the ledger.                          *)
(*                                                                         *)
(* Everything that can keep a message from being taken - a frame or an     *)
(* acknowledgement lost with the connection, parts that come too late, a   *)
(* dispatch that raises, the death of the thread - counts as a fault.      *)
(***************************************************************************)
EXTENDS Naturals, Sequences, FiniteSets, SequencesExt

CONSTANTS
  Msgs,          \* messages the users send
  Ignored,       \* those among them that are no text for the daemon
  Parts,         \* frames that the event of each message takes
  Convs, ConvOf, \* conversations, and the one of each message
  Sessions, Home,\* Sessions, and the conversation kept in each one's record
  Manager,       \* a Project Manager's Session, which has no record,
  ManagerHome,   \* and the conversation in its store
  Control,       \* the control conversation, the dispatcher's
  Capacity,      \* message ids that are remembered (_DEDUP_CAPACITY)
  MaxFaults,     \* bound on faults
  MaxLives       \* bound on starts of the daemon

None    == "none"          \* no Session
Console == "console"       \* commands, and the dispatcher

(* A Session's conversation, and the Project Manager's, is a thread made   *)
(* for it.                                                                 *)
ASSUME IngressAssumption ==
  /\ Ignored \subseteq Msgs /\ Parts \in [Msgs -> Nat \ {0}] /\ ConvOf \in [Msgs -> Convs]
  /\ Home \in [Sessions -> Convs] /\ {ManagerHome, Control} \subseteq Convs
  /\ \A s \in Sessions : Home[s] # ManagerHome /\ \A t \in Sessions : Home[s] = Home[t] => s = t
  /\ Manager \notin Sessions /\ {None, Console} \cap (Sessions \cup {Manager}) = {}
  /\ Capacity \in Nat \ {0} /\ MaxFaults \in Nat /\ MaxLives \in Nat \ {0}

VARIABLES
  server,    \* what the server knows of each message
  wire,      \* frames pushed and not yet received
  link,      \* the connection and its thread: "up", "down" or "dead"
  cache,     \* _frag_cache: parts by message, {} without an entry
  tasks,     \* messages handed to the main loop
  seen,      \* _seen_message_keys, the oldest first
  ledger,    \* the record of each Session: "none", "active", "ended" or "gone";
             \* "unrecorded" without a record but with a runtime
  bound,     \* _conversation_session_ids
  managed,   \* manager_conversation_store: the Project Manager's conversations
  log,       \* messages taken, and what took them (history)
  faults,    \* faults so far
  lives      \* starts of the daemon

channel  == <<server, wire, link, cache>>
sessions == <<ledger, bound, managed>>
vars     == <<channel, tasks, seen, sessions, log, faults, lives>>

(* A restart forgets all bindings but those of the control conversation    *)
(* and, restored from their store, the Project Manager's.                  *)
AtStart(ms) == [c \in Convs |-> IF c \in ms THEN Manager ELSE IF c = Control THEN Console ELSE None]

Init ==
  /\ server = [m \in Msgs |-> "unsent"] /\ wire = <<>> /\ link = "down"
  /\ cache = [m \in Msgs |-> {}] /\ tasks = <<>> /\ seen = <<>>
  /\ ledger = [s \in Sessions |-> "none"] /\ managed = {ManagerHome} /\ bound = AtStart(managed)
  /\ log = <<>> /\ faults = 0 /\ lives = 1

Fault == faults < MaxFaults /\ faults' = faults + 1

----------------------------------------------------------------------------
(* Feishu's server and the connection                                      *)

UserSends(m) ==
  /\ server[m] = "unsent" /\ server' = [server EXCEPT ![m] = "pending"]
  /\ UNCHANGED <<wire, link, cache, tasks, seen, sessions, log, faults, lives>>

OnTheWire(m) == \E i \in DOMAIN wire : wire[i].msg = m

(* The event is pushed, or pushed again.                                   *)
Pushed(m) ==
  /\ server[m] = "pending" /\ link = "up" /\ ~OnTheWire(m)
  /\ wire' = wire \o [k \in 1..Parts[m] |-> [msg |-> m, part |-> k]]
  /\ UNCHANGED <<server, link, cache, tasks, seen, sessions, log, faults, lives>>

(* _ws_connect_once, in the loop of _ws_run_forever                        *)
Connected ==
  /\ link = "down" /\ link' = "up"
  /\ UNCHANGED <<server, wire, cache, tasks, seen, sessions, log, faults, lives>>

(* The connection is lost, or with it the thread.                          *)
Lost(how) ==
  /\ link = "up" /\ Fault
  /\ link' = how /\ wire' = <<>>
  /\ UNCHANGED <<server, cache, tasks, seen, sessions, log, lives>>

(* Variant: is_alive is read the wrong way round.                          *)
RevivedAlive ==
  /\ link = "down" /\ link' = "down"
  /\ UNCHANGED <<server, wire, cache, tasks, seen, sessions, log, faults, lives>>

(* _restart_dead_channels of the watchdog, and restart                     *)
Revived ==
  /\ link = "dead" /\ link' = "down"
  /\ UNCHANGED <<server, wire, cache, tasks, seen, sessions, log, faults, lives>>

----------------------------------------------------------------------------
(* The frames                                                              *)

(* The last of the parts is there.                                         *)
Complete(m, parts, part) == parts \cup {part} = 1..Parts[m]

(* _parse_event_message: a text or a post, of a group, and not a bot's own *)
IsText(m) == m \notin Ignored

(* _dispatch_event: a text is given to the main loop.                      *)
Dispatched(m) == tasks' = IF IsText(m) THEN Append(tasks, m) ELSE tasks

(* Variant: a dispatch that raises is answered with 200.                   *)
AnswersAlways(ok, raises) == ok

(* The answer is 200, and it gets through.                                 *)
Answers(ok, raises) == ok /\ ~raises

(* The first frame on the wire; expired are messages whose first part came *)
(* too long ago, which _combine forgets first.  What is whole is           *)
(* dispatched and acknowledged; the ack gets through if ok.                *)
Received(expired, ok, raises) ==
  LET m     == Head(wire).msg
      fresh == [n \in Msgs |-> IF n \in expired THEN {} ELSE cache[n]]
      parts == fresh[m]
      part  == Head(wire).part
  IN /\ IF Complete(m, parts, part)
        THEN /\ IF raises THEN UNCHANGED tasks ELSE Dispatched(m)
             /\ server' = [server EXCEPT ![m] = IF Answers(ok, raises) THEN "acked" ELSE @]
             /\ cache' = [fresh EXCEPT ![m] = {}]
        ELSE /\ ok /\ ~raises
             /\ cache' = [fresh EXCEPT ![m] = @ \cup {part}]
             /\ UNCHANGED <<server, tasks>>
     /\ wire' = IF ok THEN Tail(wire) ELSE <<>>
     /\ link' = IF ok THEN "up" ELSE "down"
     /\ UNCHANGED <<seen, sessions, log, lives>>

FrameHandled ==
  /\ link = "up" /\ wire # <<>>
  /\ Received({}, TRUE, FALSE)
  /\ UNCHANGED faults

(* The same with a fault: entries have expired, the dispatch raises and is *)
(* answered with 500, or the connection breaks before the answer.          *)
FrameFails ==
  /\ link = "up" /\ wire # <<>> /\ Fault
  /\ \/ \E expired \in (SUBSET {n \in Msgs : cache[n] # {}}) \ {{}} : Received(expired, TRUE, FALSE)
     \/ /\ Complete(Head(wire).msg, cache[Head(wire).msg], Head(wire).part)
        /\ Received({}, TRUE, TRUE) \/ Received({}, FALSE, FALSE)

----------------------------------------------------------------------------
(* The main loop                                                           *)

(* Variant: the newest id goes when the window is full.                    *)
RemembersOldest(m) == IF Len(seen) < Capacity THEN Append(seen, m) ELSE seen

(* The window of _is_duplicate with the id of m                            *)
Remembers(m) ==
  LET all == Append(seen, m) IN
  IF Len(all) > Capacity THEN Tail(all) ELSE all

(* _session_identity_exists                                                *)
Recorded(s) == s \in Sessions /\ ledger[s] \in {"active", "ended"}
Exists(s)   ==
  s \in {Manager, Console} \/ Recorded(s) \/ (s \in Sessions /\ ledger[s] = "unrecorded")

(* _session_id_for_conversation: a binding of a Session that is no more is *)
(* forgotten.                                                              *)
BoundTo(c) == IF Exists(bound[c]) THEN bound[c] ELSE None

(* _stored_session_for_conversation                                        *)
Stored(c) == {s \in Sessions : Recorded(s) /\ Home[s] = c}

(* Variant: the ledger is not asked.                                       *)
TakerByBinding(c) == IF BoundTo(c) # None THEN BoundTo(c) ELSE Console

(* _handle_channel_message and _forward_to_agent: who takes a message.     *)
Taker(c) ==
  IF BoundTo(c) # None THEN BoundTo(c)
  ELSE IF Stored(c) # {} THEN CHOOSE s \in Stored(c) : TRUE ELSE Console

(* bind_conversation raises: the conversation is another Session's.        *)
Conflict(s, c) == BoundTo(c) \notin {None, s}

(* bind_conversation, which leaves an ended Session unbound                *)
Binds(s, c) ==
  bound' = [bound EXCEPT ![c] = IF s \in Sessions /\ ledger[s] = "ended" THEN BoundTo(c) ELSE s]

(* A message is taken, up to the first await: a Session's queue or its     *)
(* resumption has it, or its answer says that the Session has ended.  What *)
(* the console takes may be a text for the dispatcher, which then owns the *)
(* conversation (_dispatch_nl).                                            *)
Handled ==
  /\ tasks # <<>> /\ tasks' = Tail(tasks)
  /\ LET m == Head(tasks)  c == ConvOf[m]  s == Taker(c) IN
     IF m \in ToSet(seen) THEN UNCHANGED <<seen, bound, log>>
     ELSE /\ seen' = Remembers(m)
          /\ IF s = Console THEN \E b \in {BoundTo(c), Console} : bound' = [bound EXCEPT ![c] = b]
             ELSE IF s = Manager \/ Conflict(s, c) THEN UNCHANGED bound
             ELSE Binds(s, c)
          /\ log' = Append(log, [msg |-> m, life |-> lives,
                                 to |-> IF s \in Sessions /\ Conflict(s, c) THEN "raised" ELSE s,
                                 stored |-> IF bound[c] = Console THEN {} ELSE Stored(c)])
  /\ UNCHANGED <<channel, ledger, managed, faults, lives>>

----------------------------------------------------------------------------
(* The Sessions                                                            *)

(* A Session gets its record and is launched, in a conversation made for   *)
(* it; the launch raises if a text there has made it the dispatcher's.     *)
SessionStarts(s) ==
  /\ ledger[s] = "none"
  /\ ledger' = [ledger EXCEPT ![s] = "active"]
  /\ bound' = IF Conflict(s, Home[s]) THEN bound ELSE [bound EXCEPT ![Home[s]] = s]
  /\ UNCHANGED <<channel, tasks, seen, managed, log, faults, lives>>

SessionEnds(s) ==
  /\ ledger[s] = "active" /\ ledger' = [ledger EXCEPT ![s] = "ended"]
  /\ UNCHANGED <<channel, tasks, seen, bound, managed, log, faults, lives>>

(* resume_task launches a Session that is suspended, which binds it, or    *)
(* one that has ended, which does not; the agent that starts makes it      *)
(* active again.                                                           *)
SessionResumed(s) ==
  /\ \/ ledger[s] = "ended" /\ UNCHANGED bound
     \/ ledger[s] = "active" /\ ~Conflict(s, Home[s]) /\ bound' = [bound EXCEPT ![Home[s]] = s]
  /\ ledger' = [ledger EXCEPT ![s] = "active"]
  /\ UNCHANGED <<channel, tasks, seen, managed, log, faults, lives>>

(* /clear, or pruned, which does not ask whether a runtime is left         *)
SessionForgotten(s) ==
  /\ ledger[s] = "ended"
  /\ \E rest \in {"unrecorded", "gone"} : ledger' = [ledger EXCEPT ![s] = rest]
  /\ UNCHANGED <<channel, tasks, seen, bound, managed, log, faults, lives>>

(* The runtime without a record goes.                                      *)
RuntimeLeaves(s) ==
  /\ ledger[s] = "unrecorded" /\ ledger' = [ledger EXCEPT ![s] = "gone"]
  /\ UNCHANGED <<channel, tasks, seen, bound, managed, log, faults, lives>>

(* The conversations made for the Sessions                                 *)
Homes == {Home[s] : s \in Sessions}

(* open_session_conversation: a client opens a conversation of its own for *)
(* the Session; where that raises, or the Session has ended, nothing       *)
(* changes.                                                                *)
Opened(s, c) ==
  /\ ledger[s] = "active" /\ c \notin Homes /\ ~Conflict(s, c) /\ bound[c] # s
  /\ bound' = [bound EXCEPT ![c] = s]
  /\ UNCHANGED <<channel, tasks, seen, ledger, managed, log, faults, lives>>

(* open_project_manager binds, and then stores, the conversation.          *)
OpensManager(c) ==
  /\ ~Conflict(Manager, c) /\ bound[c] # Manager
  /\ bound' = [bound EXCEPT ![c] = Manager]
  /\ managed' = managed \cup {c}

(* The same for the Project Manager: /manager makes a conversation for it, *)
(* or a client opens one.                                                  *)
ManagerOpened(c) ==
  /\ c \notin Homes /\ OpensManager(c)
  /\ UNCHANGED <<channel, tasks, seen, ledger, log, faults, lives>>

(* The daemon ends or dies, and starts.                                    *)
Restarted ==
  /\ lives < MaxLives /\ lives' = lives + 1
  /\ wire' = <<>> /\ link' = "down" /\ cache' = [m \in Msgs |-> {}]
  /\ tasks' = <<>> /\ seen' = <<>> /\ bound' = AtStart(managed)
  /\ ledger' = [s \in Sessions |-> IF ledger[s] = "unrecorded" THEN "gone" ELSE ledger[s]]
  /\ UNCHANGED <<server, managed, log, faults>>

Receives == FrameHandled \/ FrameFails

Next ==
  \/ \E m \in Msgs : UserSends(m) \/ Pushed(m)
  \/ Connected \/ \E how \in {"down", "dead"} : Lost(how)
  \/ Revived \/ Receives \/ Handled \/ Restarted
  \/ \E s \in Sessions : SessionStarts(s) \/ SessionEnds(s) \/ SessionResumed(s)
  \/ \E s \in Sessions : SessionForgotten(s) \/ RuntimeLeaves(s)
  \/ \E c \in Convs : ManagerOpened(c) \/ \E s \in Sessions : Opened(s, c)

Spec == Init /\ [][Next]_vars

(* The server pushes what is pending, and the threads run.                 *)
FairSpec ==
  /\ Spec
  /\ WF_vars(Connected) /\ WF_vars(Revived) /\ WF_vars(FrameHandled) /\ WF_vars(Handled)
  /\ \A m \in Msgs : WF_vars(Pushed(m))

----------------------------------------------------------------------------
(* Properties                                                              *)

Takers == Sessions \cup {Manager, Console}

(* The state is what its variables say, a message taken went to one taker, *)
(* and the window holds each of the last ids taken once.                   *)
IngressConsistent ==
  /\ server \in [Msgs -> {"unsent", "pending", "acked"}] /\ link \in {"up", "down", "dead"}
  /\ link # "up" => wire = <<>>
  /\ \A m \in Msgs : cache[m] \subseteq 1..Parts[m] /\ cache[m] # 1..Parts[m]
  /\ ToSet(tasks) \cap Ignored = {}
  /\ ledger \in [Sessions -> {"none", "active", "ended", "unrecorded", "gone"}]
  /\ bound \in [Convs -> Takers \cup {None}] /\ \A c \in managed : bound[c] = Manager
  /\ Len(seen) <= Capacity /\ Cardinality(ToSet(seen)) = Len(seen)
  /\ \A i \in DOMAIN log : log[i].to \in Takers

(* A message is executed once by a process, however often Feishu pushes it *)
(* and in whatever order its copies come, as long as its id is in the      *)
(* window: between two executions at least Capacity other messages were    *)
(* taken.                                                                  *)
ExecutedOnce ==
  \A i, j \in DOMAIN log :
    (i < j /\ log[i].msg = log[j].msg /\ log[i].life = log[j].life) =>
      Cardinality({log[k].msg : k \in i + 1 .. j - 1}) >= Capacity

(* What is acknowledged has been given to the main loop, whole: Feishu     *)
(* does not push it again, and only a restart can lose it.                 *)
AckedIsTaken ==
  lives = 1 =>
    \A m \in Msgs \ Ignored :
      server[m] = "acked" => m \in ToSet(tasks) \/ \E i \in DOMAIN log : log[i].msg = m

(* A reply in a Session's conversation goes to that Session as long as it  *)
(* has a record, also when its binding was lost in a restart or was never  *)
(* made: it is not taken for a command of the console.  stored is the      *)
(* Session whose record has the conversation; it is left out only where a  *)
(* text that came before the record has given the conversation to the      *)
(* dispatcher, until the next restart.                                     *)
RepliesReachSession ==
  \A i \in DOMAIN log : log[i].stored # {} => log[i].to \in log[i].stored

(* Unless the daemon restarts, every text that was sent is taken in the    *)
(* end: after lost connections, incomplete events and dead threads.        *)
Untaken(m) == server[m] # "unsent" /\ \A i \in DOMAIN log : log[i].msg # m

EveryTextIsTaken == []<>(lives > 1 \/ \A m \in Msgs \ Ignored : ~Untaken(m))

=============================================================================
