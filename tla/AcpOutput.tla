----------------------------- MODULE AcpOutput -----------------------------
(***************************************************************************)
(* The way of an agent's output from the agent's updates to the trace and  *)
(* to the conversations that follow a Session, over the turns of one       *)
(* runtime.  Updates are handled by tasks of the ACP library, the turn by  *)
(* the runtime's worker; both publish events.  An event is appended to the *)
(* trace by a thread, and then queued behind the projections under way.    *)
(*                                                                         *)
(* One conversation follows the Session; it is not where the turns come    *)
(* from, so it sees their inputs too.                                      *)
(***************************************************************************)
EXTENDS Naturals, Sequences, SequencesExt

CONSTANTS MaxTurns, MaxUpdates   \* bounds on turns, and on updates in all
ASSUME AcpOutputAssumption == MaxTurns \in Nat /\ MaxUpdates \in Nat

Turns     == 1..MaxTurns
NoTurn    == 0                        \* _current_turn_id is None
Answers   == {"completed", "cancelled"}
Ends      == Answers \cup {"failed", "interrupted"}   \* AgentOutputFinished
FromAgent == {"message", "tool"}      \* AgentOutputDelta, ToolCallObserved
Kinds     == {"accepted", "started"} \cup FromAgent \cup Ends
Stages    == {"idle", "mirroring", "opening", "prompting", "finishing",
              "announcing", "flushing", "leaving", "closed"}

VARIABLES
  stage,     \* where the worker stands
  begun,     \* turns begun so far
  turn,      \* _current_turn_id
  outcome,   \* of the turn, once it is known; "none" before
  stopping,  \* _shutdown has cancelled the worker
  chunks,    \* _message_chunks
  buffer,    \* the client's _message_buf
  asked,     \* the turn whose prompt the agent is answering
  sent,      \* the updates the agent has sent (history)
  updates,   \* session_update handlers that wait for _session_update_lock
  writers,   \* publications between emission and projection
  strays,    \* events whose publication was cancelled, their thread at work
  trace,     \* the trace store
  tail,      \* projections queued for the Session, the first one under way
  audience,  \* turns with an entry in _turn_audiences
  shown,     \* what the conversation was shown
  noticed,   \* turns whose completion was announced
  last       \* the record's last_output

worker == <<stage, begun, turn, outcome, stopping, chunks, last>>
client == <<buffer, asked, sent, updates>>
events == <<writers, strays, trace, tail, shown>>
vars   == <<worker, client, events, audience, noticed>>

----------------------------------------------------------------------------
(* Events                                                                  *)

Event(t, kind, text) == [turn |-> t, kind |-> kind, text |-> text]

(* publish up to its first await: the trace's thread is started.           *)
Publishes(by, e) == writers' = writers \cup {[by |-> by, event |-> e, written |-> FALSE]}

Mine(by) == {w \in writers : w.by = by}

(* The worker's publication is over, and it publishes e.                   *)
PublishesNext(w, e) ==
  writers' = (writers \ {w}) \cup {[by |-> "worker", event |-> e, written |-> FALSE]}

(* _finish_turn                                                            *)
Finished(end) == Event(turn, end, chunks)

(* The thread has appended the event.  (An append that fails is logged; the*)
(* event goes on without a sequence number, and nothing else changes.)     *)
Written(w) ==
  /\ w \in writers /\ ~w.written
  /\ writers' = (writers \ {w}) \cup {[w EXCEPT !.written = TRUE]}
  /\ trace' = Append(trace, w.event)
  /\ UNCHANGED <<worker, client, strays, tail, shown, audience, noticed>>

(* A thread outlives the publication that waited for it.  If it had not    *)
(* begun, the event is not appended.                                       *)
StrayEnds(e) ==
  /\ e \in strays /\ strays' = strays \ {e}
  /\ trace' = Append(trace, e) \/ trace' = trace
  /\ UNCHANGED <<worker, client, writers, tail, shown, audience, noticed>>

(* _queue_session_event_projection: the audience is looked up now.         *)
Queues(e) == tail' = Append(tail, [event |-> e, seen |-> e.turn \in audience])

(* The projection at the head of the chain ends.                           *)
Shows(p) == shown' = IF p.seen THEN Append(shown, p.event) ELSE shown

(* Variant: a projection does not take itself off the chain.               *)
ProjectedStays ==
  /\ tail # <<>> /\ tail' = [tail EXCEPT ![1].seen = FALSE]
  /\ Shows(Head(tail))
  /\ UNCHANGED <<worker, client, writers, strays, trace, audience, noticed>>

Projected ==
  /\ tail # <<>> /\ tail' = Tail(tail)
  /\ Shows(Head(tail))
  /\ UNCHANGED <<worker, client, writers, strays, trace, audience, noticed>>

----------------------------------------------------------------------------
(* The agent, and the client's handlers                                    *)

AgentSends(kind) ==
  /\ asked # NoTurn /\ Len(sent) < MaxUpdates
  /\ LET u == Event(asked, kind, <<Len(sent) + 1>>) IN
       /\ sent' = Append(sent, u)
       /\ updates' = Append(updates, u)
  /\ UNCHANGED <<worker, buffer, asked, events, audience, noticed>>

AgentAnswers(end) ==
  /\ asked # NoTurn /\ asked' = NoTurn
  /\ outcome' = IF stage = "prompting" THEN end ELSE outcome
  /\ UNCHANGED <<stage, begun, turn, stopping, chunks, last, buffer, sent, updates,
                 events, audience, noticed>>

(* A handler gets the lock and runs to its publication, which it makes if  *)
(* the runtime is the current one and in a turn.                           *)
Handles(u) ==
  LET message == u.kind = "message"
      heard   == stage # "leaving" /\ stage # "closed" /\ turn # NoTurn
  IN /\ buffer' = IF message THEN buffer \o u.text ELSE buffer
     /\ IF heard
        THEN /\ chunks' = IF message THEN chunks \o u.text ELSE chunks
             /\ Publishes("update", [u EXCEPT !.turn = turn])
        ELSE UNCHANGED <<chunks, writers>>
     /\ UNCHANGED <<stage, begun, turn, outcome, stopping, last, asked, sent,
                    strays, trace, tail, shown, audience, noticed>>

UpdateHandled ==
  /\ updates # <<>> /\ updates' = Tail(updates)
  /\ Mine("update") = {}
  /\ Handles(Head(updates))

UpdatePublished(w) ==
  /\ w \in Mine("update") /\ w.written
  /\ writers' = writers \ {w}
  /\ Queues(w.event)
  /\ UNCHANGED <<worker, client, strays, trace, shown, audience, noticed>>

----------------------------------------------------------------------------
(* The worker                                                              *)

(* prepare_turn, and Started goes out.                                     *)
Opens(t) ==
  /\ audience' = audience \cup {t}
  /\ stage' = "opening"

(* A turn is taken from the queue.  Its input is published first, except   *)
(* for background results.                                                 *)
BeginTurn ==
  LET t == begun + 1 IN
  /\ stage = "idle" /\ t \in Turns
  /\ begun' = t /\ turn' = t
  /\ outcome' = "none" /\ chunks' = <<>>
  /\ \/ /\ stage' = "mirroring"
        /\ Publishes("worker", Event(t, "accepted", <<>>))
        /\ UNCHANGED audience
     \/ /\ Opens(t)
        /\ Publishes("worker", Event(t, "started", <<>>))
  /\ UNCHANGED <<stopping, last, client, strays, trace, tail, shown, noticed>>

(* The input is shown at once, without a place in the queue.               *)
Mirrored(w) ==
  /\ stage = "mirroring" /\ w \in Mine("worker") /\ w.written
  /\ shown' = Append(shown, w.event)
  /\ Opens(turn)
  /\ PublishesNext(w, Event(turn, "started", <<>>))
  /\ UNCHANGED <<begun, turn, outcome, stopping, chunks, last, client, strays, trace,
                 tail, noticed>>

(* Started is queued; execute_turn sends the prompt.                       *)
Prompts(w) ==
  /\ stage = "opening" /\ w \in Mine("worker") /\ w.written
  /\ writers' = writers \ {w} /\ Queues(w.event)
  /\ stage' = "prompting"
  /\ asked' = turn /\ buffer' = <<>>
  /\ UNCHANGED <<begun, turn, outcome, stopping, chunks, last, sent, updates, strays,
                 trace, shown, audience, noticed>>

(* The agent has answered, and the library has seen every handler started  *)
(* before to its end (test_prompt_waits_for_received_update_callbacks).    *)
Ending(end) ==
  /\ stage = "prompting" /\ stage' = "finishing"
  /\ outcome' = end
  /\ Publishes("worker", Finished(end))
  /\ UNCHANGED <<begun, turn, stopping, chunks, buffer, sent, updates, strays, trace,
                 tail, shown, audience, noticed>>

(* Variant: the answer overtakes the handlers.                             *)
PromptReturnsEarly ==
  /\ outcome \in Answers /\ asked = NoTurn
  /\ Ending(outcome)
  /\ last' = IF outcome = "completed" THEN buffer ELSE last
  /\ UNCHANGED asked

PromptReturns ==
  /\ outcome \in Answers /\ asked = NoTurn
  /\ updates = <<>> /\ Mine("update") = {}
  /\ Ending(outcome)
  /\ last' = IF outcome = "completed" THEN buffer ELSE last
  /\ UNCHANGED asked

PromptFails ==
  /\ asked # NoTurn
  /\ Ending("failed")
  /\ asked' = NoTurn
  /\ UNCHANGED last

(* Finished is queued; after a completed turn comes its announcement.      *)
FinishPublished(w) ==
  /\ stage = "finishing" /\ w \in Mine("worker") /\ w.written
  /\ writers' = writers \ {w} /\ Queues(w.event)
  /\ stage' = IF w.event.kind = "completed" THEN "announcing" ELSE "flushing"
  /\ UNCHANGED <<begun, turn, outcome, stopping, chunks, last, client, strays, trace,
                 shown, audience, noticed>>

(* _wait_runtime_events, and the announcement.                             *)
Announced ==
  /\ stage = "announcing" /\ stage' = "flushing"
  /\ tail = <<>>
  /\ noticed' = noticed \cup {turn}
  /\ UNCHANGED <<begun, turn, outcome, stopping, chunks, last, client, events, audience>>

(* on_turn_finished and _reset_turn.  Unless the turn was answered, the    *)
(* worker leaves.  Variant: no waiting.                                    *)
ResetTurn ==
  /\ turn' = NoTurn /\ chunks' = <<>>
  /\ stage' = IF stopping \/ outcome \notin Answers THEN "leaving" ELSE "idle"

FlushedAtOnce ==
  /\ stage = "flushing"
  /\ audience' = audience \ {turn}
  /\ ResetTurn
  /\ UNCHANGED <<begun, outcome, stopping, last, client, events, noticed>>

Flushed ==
  /\ stage = "flushing" /\ tail = <<>>
  /\ audience' = audience \ {turn}
  /\ ResetTurn
  /\ UNCHANGED <<begun, outcome, stopping, last, client, events, noticed>>

(* A worker without a turn ends: idle timeout, /stop.                      *)
Retires ==
  /\ stage = "idle" /\ stage' = "leaving"
  /\ UNCHANGED <<begun, turn, outcome, stopping, chunks, last, client, events, audience,
                 noticed>>

(* _close_session, after the runtime has left the registry.                *)
Closes ==
  /\ stage = "leaving" /\ tail = <<>>
  /\ stage' = "closed" /\ audience' = {} /\ asked' = NoTurn
  /\ UNCHANGED <<begun, turn, outcome, stopping, chunks, last, buffer, sent, updates,
                 events, noticed>>

----------------------------------------------------------------------------
(* _shutdown cancels the worker at its await.  A publication it was waiting*)
(* for is abandoned, its thread is not; a turn whose output has begun, and *)
(* not ended, is finished as interrupted.                                  *)
Abandons == strays' = strays \cup {w.event : w \in {v \in Mine("worker") : ~v.written}}

CutOutput ==
  /\ stage \in {"opening", "prompting"}
  /\ stage' = "finishing" /\ outcome' = "interrupted"
  /\ Abandons
  /\ writers' = (writers \ Mine("worker"))
                  \cup {[by |-> "worker", event |-> Finished("interrupted"),
                        written |-> FALSE]}
  /\ UNCHANGED <<turn, chunks, shown>>

(* An input that is being shown may still be.                              *)
CutEdges ==
  /\ stage \in {"mirroring", "finishing", "announcing"}
  /\ stage' = "flushing"
  /\ Abandons
  /\ writers' = writers \ Mine("worker")
  /\ \/ shown' = shown
     \/ \E w \in Mine("worker") : /\ stage = "mirroring" /\ w.written
                                  /\ shown' = Append(shown, w.event)
  /\ UNCHANGED <<turn, outcome, chunks>>

CutFlush ==
  /\ stage = "flushing" /\ stage' = "leaving"
  /\ turn' = NoTurn /\ chunks' = <<>>
  /\ UNCHANGED <<outcome, writers, strays, shown>>

CutRest ==
  /\ \/ stage = "idle" /\ stage' = "leaving"
     \/ stage = "leaving" /\ stage' = "closed"
  /\ UNCHANGED <<turn, outcome, chunks, writers, strays, shown>>

CancelWorker ==
  /\ ~stopping /\ stopping' = TRUE
  /\ CutOutput \/ CutEdges \/ CutFlush \/ CutRest
  /\ UNCHANGED <<begun, last, client, trace, tail, audience, noticed>>

----------------------------------------------------------------------------
Init ==
  /\ stage = "idle" /\ begun = 0 /\ turn = NoTurn /\ outcome = "none"
  /\ stopping = FALSE
  /\ chunks = <<>> /\ buffer = <<>> /\ last = <<>>
  /\ asked = NoTurn /\ sent = <<>> /\ updates = <<>>
  /\ writers = {} /\ strays = {} /\ trace = <<>> /\ tail = <<>>
  /\ audience = {} /\ shown = <<>> /\ noticed = {}

Publishing ==
  \/ \E w \in writers : \/ Written(w) \/ UpdatePublished(w) \/ Mirrored(w)
                        \/ Prompts(w) \/ FinishPublished(w)
  \/ \E e \in strays : StrayEnds(e)
  \/ Projected

Progress == Publishing \/ UpdateHandled \/ PromptReturns \/ Announced \/ Flushed \/ Closes

Agent == \/ \E kind \in FromAgent : AgentSends(kind)
         \/ \E end \in Answers : AgentAnswers(end)
         \/ PromptFails

Next == Progress \/ Agent \/ BeginTurn \/ Retires \/ CancelWorker

Spec == Init /\ [][Next]_vars

(* The loop runs what is ready and threads end; the agent may hang.        *)
FairSpec == Spec /\ WF_vars(Progress)

----------------------------------------------------------------------------
(* Properties                                                              *)

Texts     == Seq(1..MaxUpdates)
EventType == [turn : Turns, kind : Kinds, text : Texts]

(* Every variable has its type, and there is a current turn exactly while  *)
(* the worker is in one (handle_output relies on it).                      *)
TypeOK ==
  /\ stage \in Stages /\ begun \in 0..MaxTurns /\ turn \in {NoTurn, begun}
  /\ turn = NoTurn <=> stage \in {"idle", "leaving", "closed"}
  /\ outcome \in Ends \cup {"none"} /\ stopping \in BOOLEAN
  /\ chunks \in Texts /\ buffer \in Texts /\ last \in Texts
  /\ asked \in {NoTurn, begun}
  /\ \A log \in {sent, updates, trace, shown} : log \in Seq(EventType)
  /\ writers \subseteq [by : {"worker", "update"}, event : EventType, written : BOOLEAN]
  /\ strays \subseteq EventType
  /\ tail \in Seq([event : EventType, seen : BOOLEAN])
  /\ audience \subseteq Turns /\ noticed \subseteq Turns

(* What the agent has said in a turn: its messages, in the order in which  *)
(* it sent them.                                                           *)
Spoken(t) == {u.text[1] : u \in {v \in ToSet(sent) : v.turn = t /\ v.kind = "message"}}
Rising(s) == \A i, j \in DOMAIN s : i < j => s[i] < s[j]
IsSaid(text, t) == ToSet(text) = Spoken(t) /\ Rising(text)

(* session_event.py:96: a Finished is the whole output of its turn, when   *)
(* the agent has answered; so is the last_output the record keeps.         *)
FinishedIsWhole ==
  /\ \A e \in ToSet(shown) \cup ToSet(trace) : e.kind \in Answers => IsSaid(e.text, e.turn)
  /\ \A e \in ToSet(shown) : e.kind = "completed" /\ e.turn = begun => last = e.text

Rank(e) == CASE e.kind = "accepted" -> 0 [] e.kind = "started" -> 1
             [] e.kind \in FromAgent -> 2 [] OTHER -> 3

Precedes(e, f) ==
  \/ e.turn < f.turn
  \/ e.turn = f.turn /\ Rank(e) < Rank(f)
  \/ e.turn = f.turn /\ Rank(e) = 2 /\ Rank(f) = 2 /\ e.text[1] < f.text[1]

(* The last turn was cut or has failed: the rest of its output may trail.  *)
Broken(t) == t = begun /\ (stopping \/ outcome = "failed")

(* The conversation and the trace have each event once and in the order of *)
(* the turns: input, Started, what the agent sent as it sent it, Finished. *)
LoggedInOrder ==
  \A log \in {shown, trace} : \A i, j \in DOMAIN log :
    i < j => \/ Precedes(log[i], log[j])
             \/ log[i].turn = log[j].turn /\ Broken(log[i].turn)

(* When a worker is ready for its next turn, the conversation has seen all *)
(* of the turns before.                                                    *)
TurnIsShown ==
  stage = "idle" => \A t \in 1..begun :
    /\ Event(t, "started", <<>>) \in ToSet(shown)
    /\ {u \in ToSet(sent) : u.turn = t} \subseteq ToSet(shown)
    /\ \E e \in ToSet(shown) : e.turn = t /\ e.kind \in Answers

(* daemon.py:794: no announcement overtakes the Finished it is about.      *)
NoticeAfterFinished ==
  \A t \in noticed : \E e \in ToSet(shown) : e.turn = t /\ e.kind = "completed"

(* What the user is shown: everything, once, in order, and before anything *)
(* that follows from it.                                                   *)
ShownInOrder == LoggedInOrder /\ TurnIsShown /\ NoticeAfterFinished

(* Neither publications, handlers nor projections hold up each other for   *)
(* ever: an answered turn ends, and so does a worker that is stopped.      *)
TurnsEnd ==
  /\ (stage # "prompting") ~> (stage \in {"idle", "prompting", "closed"})
  /\ (outcome # "none") ~> (stage \in {"idle", "closed"})
  /\ stopping ~> (stage = "closed")

(* CONTEXT.md:9: a turn's output ends with its one Finished.               *)
FinishedEndsTurn ==
  \A i, j \in DOMAIN shown :
    i < j /\ shown[i].kind \in Ends \ {"failed"} => shown[j].turn # shown[i].turn
=============================================================================
