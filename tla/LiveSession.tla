----------------------------- MODULE LiveSession -----------------------------
(***************************************************************************)
(* A live-mode session from end to end: one browser tab                    *)
(* (live-browser.js), the helper (live-server.mjs) with its durable        *)
(* journal (live/session-store.mjs), the polling agents (live-poll.mjs,    *)
(* live-accept.mjs, live-complete.mjs, live-resume.mjs) and the project's  *)
(* source, which the dev server brings back to the tab by hot reload.      *)
(*                                                                         *)
(* A request handler, a callback of the tab and a run of a script are one  *)
(* action each.  Requests are in flight between them; a message to the tab *)
(* travels on the event stream and is lost when the stream is.             *)
(***************************************************************************)
EXTENDS LiveQueue

CONSTANTS
    Sessions,       \* ids handleGo may draw (id8)
    Steers,         \* ids submitSteerMessage may draw
    None,           \* absent value
    FaultKinds,     \* the faults that may happen: "restart" of the helper, the
                    \* end of a lease ("expiry"), "reload" of the page, a lost
                    \* request, response or stream ("drop"), death of an agent
                    \* or of its script ("crash")
    MaxFaults,      \* bound: how many of them
    MaxDecisions,   \* bound: accepts and discards the user asks for
    MaxRevision     \* bound: checkpoints the tab sends

ASSUME SessionAssumption ==
    /\ Ids = Sessions \cup Steers
    /\ Sessions \cap Steers = {}
    /\ None \notin Ids \cup Events
    /\ Types = {"generate", "accept", "discard", "steer"}
    /\ FaultKinds \subseteq {"restart", "expiry", "reload", "drop", "crash"}
    /\ {MaxFaults, MaxDecisions, MaxRevision} \subseteq Nat

VARIABLES
    journal,        \* snapshot the journal of an id rebuilds to
    up, token,      \* the helper runs; the random token of its process
    stream,         \* the tab's EventSource: "open", "retrying", "closed"
    inbox,          \* messages on the event stream
    exitTimer,      \* state.exitTimer is set
    source,         \* the session's block in the source file
    dom,            \* the same block as the tab last got it
    job,            \* what an agent is doing with the event it was given
    \* --- the tab ---
    bar,            \* its state variable
    current,        \* currentSessionId
    arrived,        \* arrivedVariants >= expectedVariants > 0
    accepting,      \* id of pendingAcceptedSession
    finishing,      \* id whose accept cleanup is scheduled
    observer,       \* variantObserver is connected
    capturing,      \* sessions whose screenshot captureAndEmit still takes
    steering,       \* steerRequestId
    checkpointDue,  \* checkpointTimer is set
    revision,       \* checkpointRevision
    pageToken,      \* TOKEN the page was served with
    saved, handled, \* localStorage: the session, the id marked handled
    calls,          \* POST /events requests under way or answered
    decisions,      \* how many accepts and discards were asked for
    faults          \* how many faults have happened

helper == <<journal, up, token, exitTimer>>
link == <<stream, inbox>>
project == <<source, dom>>
tab == <<bar, current, arrived, accepting, finishing, observer, capturing, steering,
         checkpointDue, revision, pageToken, saved, handled>>
bounds == <<decisions, faults>>
vars == <<queueVars, helper, link, project, job, tab, calls, bounds>>

Terminal == {"completed", "discarded"}
Blank == [phase |-> "new", pending |-> None, revision |-> 0]
Idle == [stage |-> "idle", event |-> NoEvent, reply |-> "", token |-> 0]

Decides == decisions < MaxDecisions /\ decisions' = decisions + 1 /\ UNCHANGED faults
Happens(kind) == kind \in FaultKinds /\ faults < MaxFaults /\ faults' = faults + 1 /\ UNCHANGED decisions

Init ==
    /\ QueueInit
    /\ journal = [i \in Ids |-> Blank]
    /\ up = TRUE /\ token = 1 /\ exitTimer = FALSE
    /\ stream = "retrying" /\ inbox = <<>>
    /\ source = [s \in Sessions |-> "original"] /\ dom = source
    /\ job = [p \in Pollers |-> Idle]
    /\ bar = "PICKING" /\ current = None /\ arrived = FALSE
    /\ accepting = None /\ finishing = None /\ observer = FALSE /\ capturing = {}
    /\ steering = None /\ checkpointDue = FALSE /\ revision = 0 /\ pageToken = 1
    /\ saved = None /\ handled = None
    /\ calls = {} /\ decisions = 0 /\ faults = 0

-----------------------------------------------------------------------------
(* The journal: applyEvent of live/session-store.mjs.                       *)

Requested == [generate |-> "generate_requested", accept |-> "accept_requested",
              discard |-> "discard_requested", steer |-> "steer_requested"]
Settled == [agent_done |-> "variants_ready", carbonize |-> "carbonize_required",
            steer_done |-> "steer_done", discarded |-> "discarded",
            complete |-> "completed", agent_error |-> "agent_error"]

ApplyCheckpoint(s, phase, rev) ==
    IF s.phase \in Terminal \/ rev < s.revision
    THEN s
    ELSE [s EXCEPT !.phase = phase, !.revision = rev]

ApplyRequest(s, event) == [s EXCEPT !.phase = Requested[event.type], !.pending = event]

ApplyReply(s, type) == [s EXCEPT !.phase = Settled[type], !.pending = None]

\* listActiveSessions, and what restorePendingEventsFromStore takes from it.
Active == {i \in Ids : journal[i].phase \notin Terminal \cup {"new"}}
Owed == {journal[i].pending : i \in {j \in Active : journal[j].pending # None}}

\* isTerminalSessionSummary: phases after which the tab does not restore.
Closed == Terminal \cup {"discard_requested", "accept_requested"}

-----------------------------------------------------------------------------
(* The helper's request handlers.                                           *)

Broadcast(msg) == inbox' = IF stream = "open" THEN Append(inbox, msg) ELSE inbox

Message(type, id) == [type |-> type, id |-> id, active |-> {}, open |-> {}]

\* POST /events: journal first, then the queue; a checkpoint is only journaled.
HandlePostEvent(c) ==
    IF c.type = "checkpoint"
    THEN /\ journal' = [journal EXCEPT ![c.id] = ApplyCheckpoint(@, c.phase, c.revision)]
         /\ UNCHANGED queueVars
    ELSE LET event == [id |-> c.id, type |-> c.type] IN
         /\ journal' = [journal EXCEPT ![c.id] = ApplyRequest(@, event)]
         /\ EnqueueEvent(event)

\* handlePollPost: acknowledge whatever is queued under the id, journal the
\* reply unless it answers nothing and the session is over, tell the tab.
Known(id) == WithId(id) # {} \/ journal[id].phase # "new"

HandlePollPost(id, type, carbonize) ==
    LET logged == CASE type \in {"done", "agent_done"} ->
                           IF carbonize THEN "carbonize" ELSE "agent_done"
                    [] type = "error" -> "agent_error"
                    [] OTHER -> type
        skip == WithId(id) = {} /\ journal[id].phase \in Terminal
    IN  /\ Known(id)
        /\ AcknowledgePendingEvent(id)
        /\ journal' = IF skip THEN journal
                      ELSE [journal EXCEPT ![id] = ApplyReply(@, logged)]
        /\ Broadcast(Message(type, id))
        /\ UNCHANGED <<stream, up, token, exitTimer>>

-----------------------------------------------------------------------------
(* Requests of the tab.                                                     *)

Call(type, id, phase, rev) ==
    [type |-> type, id |-> id, phase |-> phase, revision |-> rev,
     token |-> pageToken, mine |-> TRUE, stage |-> "sent"]

Request(type, id) == Call(type, id, "", 0)

\* sendCheckpoint and sendSteerCheckpoint: numbered, sent, forgotten.
Phase(b) == [PICKING |-> "picking", GENERATING |-> "generating", CYCLING |-> "cycling",
             SAVING |-> "saving", CONFIRMED |-> "confirmed", IDLE |-> "idle"][b]

Checkpoint(id, phase) ==
    IF revision < MaxRevision THEN {Call("checkpoint", id, phase, revision + 1)} ELSE {}
NextRevision == IF revision < MaxRevision THEN revision + 1 ELSE revision

\* A failed generate or checkpoint is dropped and a delivered accept needs no
\* answer; the promises of the other requests come back to the tab.
Answered(c, ok) ==
    IF c.mine /\ c.type \in (IF ok THEN {"discard"} ELSE {"accept", "steer"})
    THEN {[c EXCEPT !.stage = IF ok THEN "ok" ELSE "failed"]}
    ELSE {}

Return(c, ok) == calls' = (calls \ {c}) \cup Answered(c, ok)

RequestArrives(c) ==
    /\ up /\ c.stage = "sent"
    /\ IF c.token = token
       THEN HandlePostEvent(c) /\ Return(c, TRUE)
       ELSE Return(c, FALSE) /\ UNCHANGED <<queueVars, journal>>
    /\ UNCHANGED <<up, token, exitTimer, link, project, job, tab, bounds>>

\* The helper is down, the request is lost, or only its response is.
RequestFails(c) ==
    /\ c.stage = "sent"
    /\ IF up THEN Happens("drop") ELSE UNCHANGED bounds
    /\ Return(c, FALSE)
    /\ UNCHANGED <<queueVars, helper, link, project, job, tab>>

ResponseLost(c) ==
    /\ up /\ c.stage = "sent" /\ c.token = token
    /\ c.type \in {"accept", "discard", "steer"}
    /\ Happens("drop")
    /\ HandlePostEvent(c)
    /\ Return(c, FALSE)
    /\ UNCHANGED <<up, token, exitTimer, link, project, job, tab>>

-----------------------------------------------------------------------------
(* The tab.                                                                 *)

Saved(id, b, a, rev) == [id |-> id, state |-> b, arrived |-> a, revision |-> rev]

\* handleGo and handleInsertCreate: a fresh session; the generate event
\* follows when the screenshot is taken.
Go(s) ==
    /\ bar = "PICKING"
    /\ journal[s] = Blank /\ s \notin capturing
    /\ \A c \in calls : c.id # s
    /\ (saved # None => saved.id # s) /\ current # s
    /\ bar' = "GENERATING" /\ current' = s /\ arrived' = FALSE
    /\ accepting' = None /\ observer' = TRUE
    /\ capturing' = capturing \cup {s}
    /\ revision' = NextRevision
    /\ saved' = Saved(s, "GENERATING", FALSE, NextRevision)
    /\ calls' = calls \cup Checkpoint(s, "generating")
    /\ UNCHANGED <<queueVars, helper, link, project, job, bounds, finishing, steering,
                   checkpointDue, pageToken, handled>>

\* captureAndEmit, after the capture and the upload: sends the event of the
\* session it was started for.
EmitGenerate(s) ==
    /\ s \in capturing
    /\ capturing' = capturing \ {s}
    /\ calls' = calls \cup {Request("generate", s)}
    /\ UNCHANGED <<queueVars, helper, link, project, job, bounds, bar, current, arrived,
                   accepting, finishing, observer, steering, checkpointDue, revision,
                   pageToken, saved, handled>>

\* Hot reload, or the /source fallback after a reply, shows the tab the source.
HasWrapper(s) == dom[s] \in {"wrapped", "variants"}

Refresh ==
    /\ dom # source
    /\ dom' = source
    /\ UNCHANGED <<queueVars, helper, link, source, job, tab, calls, bounds>>

\* startVariantObserver's callback: the last variant is in the document.
VariantsArrive ==
    /\ observer /\ current # None
    /\ current \in Sessions /\ dom[current] = "variants" /\ ~arrived
    /\ arrived' = TRUE /\ bar' = "CYCLING" /\ checkpointDue' = TRUE
    /\ saved' = Saved(current, "CYCLING", TRUE, revision)
    /\ UNCHANGED <<queueVars, helper, link, project, job, calls, bounds, current, accepting,
                   finishing, observer, capturing, steering, revision, pageToken, handled>>

\* selectVariant: saved and, a moment later, checkpointed.
SelectVariant ==
    /\ bar = "CYCLING" /\ current # None /\ arrived /\ ~checkpointDue
    /\ checkpointDue' = TRUE
    /\ saved' = Saved(current, "CYCLING", TRUE, revision)
    /\ UNCHANGED <<queueVars, helper, link, project, job, calls, bounds, bar, current,
                   arrived, accepting, finishing, observer, capturing, steering, revision,
                   pageToken, handled>>

\* The timer of queueCheckpoint reads the state the tab is in by then.
CheckpointTimer ==
    /\ checkpointDue
    /\ checkpointDue' = FALSE
    /\ IF current = None
       THEN UNCHANGED <<calls, revision, saved>>
       ELSE /\ calls' = calls \cup Checkpoint(current, Phase(bar))
            /\ revision' = NextRevision
            /\ saved' = IF saved = None THEN None ELSE [saved EXCEPT !.revision = NextRevision]
    /\ UNCHANGED <<queueVars, helper, link, project, job, bounds, bar, current, arrived,
                   accepting, finishing, observer, capturing, steering, pageToken, handled>>

\* handleAccept: the bar saves until the agent's answer is broadcast.
HandleAccept ==
    /\ Decides
    /\ bar = "CYCLING" /\ accepting = None /\ current # None /\ arrived
    /\ bar' = "SAVING" /\ accepting' = current
    /\ saved' = Saved(current, "SAVING", arrived, revision)
    /\ calls' = calls \cup {Request("accept", current)}
    /\ UNCHANGED <<queueVars, helper, link, project, job, current, arrived, finishing,
                   observer, capturing, steering, checkpointDue, revision, pageToken, handled>>

\* ... and its catch: the session is kept for another try.
AcceptFailed(c) ==
    /\ c.type = "accept" /\ c.stage = "failed"
    /\ calls' = calls \ {c}
    /\ accepting' = IF accepting = c.id THEN None ELSE accepting
    /\ bar' = "CYCLING"
    /\ UNCHANGED <<queueVars, helper, link, project, job, bounds, current, arrived, finishing,
                   observer, capturing, steering, checkpointDue, revision, pageToken, saved,
                   handled>>

\* handleDiscard: nothing changes in the tab before the helper has answered.
HandleDiscard ==
    /\ Decides
    /\ bar = "CYCLING" /\ current # None
    /\ calls' = calls \cup {Request("discard", current)}
    /\ UNCHANGED <<queueVars, helper, link, project, job, tab>>

\* cleanup and cleanupAcceptedSession: the tab lets go of its session.
Forget ==
    /\ saved' = None /\ current' = None /\ observer' = FALSE /\ bar' = "PICKING"

\* markSessionHandled: whatever session is the current one by now.
MarkHandled == handled' = IF current = None THEN handled ELSE current

\* handleDiscard's continuation: clean up if the helper has the event.
DiscardAnswered(c) ==
    /\ c.type = "discard" /\ c.stage = "ok"
    /\ calls' = calls \ {c}
    /\ MarkHandled /\ Forget
    /\ UNCHANGED <<queueVars, helper, link, project, job, bounds, arrived, accepting,
                   finishing, capturing, steering, checkpointDue, revision, pageToken>>

\* cleanupAcceptedSession, from the timers of scheduleAcceptCleanup: at once
\* if the document is clean, else only if the accept is still pending.
AcceptCleanup ==
    /\ finishing # None
    /\ finishing' = None
    /\ IF dom[finishing] = "clean" \/ accepting = finishing
       THEN Forget /\ accepting' = None
       ELSE UNCHANGED <<saved, current, observer, bar, accepting>>
    /\ UNCHANGED <<queueVars, helper, link, project, job, calls, bounds, arrived, capturing,
                   steering, checkpointDue, revision, pageToken, handled>>

\* submitSteerMessage: the chat is locked until an answer or a timeout.
SteerCheckpoint(id) == Checkpoint(id, "steer")

SubmitSteer(m) ==
    /\ steering = None
    /\ journal[m] = Blank /\ \A c \in calls : c.id # m
    /\ steering' = m
    /\ calls' = calls \cup SteerCheckpoint(m) \cup {Request("steer", m)}
    /\ revision' = NextRevision
    /\ saved' = IF saved = None THEN None ELSE [saved EXCEPT !.revision = NextRevision]
    /\ UNCHANGED <<queueVars, helper, link, project, job, bounds, bar, current, arrived,
                   accepting, finishing, observer, capturing, checkpointDue, pageToken, handled>>

UnlockSteer ==
    /\ steering' = None
    /\ revision' = NextRevision
    /\ saved' = IF saved = None THEN None ELSE [saved EXCEPT !.revision = NextRevision]

\* The request failed (it unlocks whatever steer is pending by then), or
\* STEER_AWAIT_TIMEOUT_MS have passed.
SteerFailed(c) ==
    /\ c.type = "steer" /\ c.stage = "failed"
    /\ calls' = (calls \ {c}) \cup (IF steering = None THEN {} ELSE SteerCheckpoint(steering))
    /\ UnlockSteer
    /\ UNCHANGED <<queueVars, helper, link, project, job, bounds, bar, current, arrived,
                   accepting, finishing, observer, capturing, checkpointDue, pageToken, handled>>

SteerTimeout ==
    /\ steering # None
    /\ calls' = calls \cup SteerCheckpoint(steering)
    /\ UnlockSteer
    /\ UNCHANGED <<queueVars, helper, link, project, job, bounds, bar, current, arrived,
                   accepting, finishing, observer, capturing, checkpointDue, pageToken, handled>>

-----------------------------------------------------------------------------
(* Messages of the event stream: connectSSE's onmessage.                    *)

Receive(type) == inbox # <<>> /\ Head(inbox).type = type /\ inbox' = Tail(inbox)
IsSteer(m) == steering # None /\ m.id = steering

\* restoreSessionWithoutWrapper, given the sessions the helper calls active
\* and those of them that are not closed (active = {} for "none, or not asked").
Restorable(active, open) ==
    /\ saved # None
    /\ saved.id # handled
    /\ saved.state \in {"GENERATING", "CYCLING"}
    /\ active # {} => saved.id \in open

Restore ==
    /\ current' = saved.id /\ arrived' = saved.arrived /\ bar' = "GENERATING"
    /\ observer' = TRUE /\ checkpointDue' = TRUE
    /\ revision' = IF saved.revision > revision THEN saved.revision ELSE revision
    /\ saved' = Saved(saved.id, "GENERATING", saved.arrived, revision')
    /\ UNCHANGED <<accepting, finishing, capturing, steering, pageToken, handled>>

\* 'connected': restoreFromActiveSessions when the page shows no wrapper.
OnConnected ==
    /\ Receive("connected")
    /\ LET m == Head(inbox) IN
       IF (\A s \in Sessions : ~HasWrapper(s)) /\ Restorable(m.active, m.open)
       THEN Restore
       ELSE /\ bar' = IF bar = "IDLE" THEN "PICKING" ELSE bar
            /\ UNCHANGED <<current, arrived, accepting, finishing, observer, capturing, steering,
                           checkpointDue, revision, pageToken, saved, handled>>
    /\ UNCHANGED <<queueVars, helper, stream, project, job, calls, bounds>>

\* 'done': variants that have arrived are shown.  Which session is answered
\* is not compared; the /source fallback is Refresh.
OnDone ==
    /\ Receive("done")
    /\ bar' = IF bar = "GENERATING" /\ arrived THEN "CYCLING" ELSE bar
    /\ UNCHANGED <<queueVars, helper, stream, project, job, calls, bounds, current, arrived,
                   accepting, finishing, observer, capturing, steering, checkpointDue, revision,
                   pageToken, saved, handled>>

\* 'complete': maybeCompleteAcceptedSession.
OnComplete ==
    /\ Receive("complete")
    /\ LET id == Head(inbox).id IN
       IF accepting # id \/ finishing = id
       THEN UNCHANGED tab
       ELSE IF current \notin {None, id}
       THEN /\ accepting' = None
            /\ UNCHANGED <<bar, current, arrived, finishing, observer, capturing, steering,
                           checkpointDue, revision, pageToken, saved, handled>>
       ELSE /\ finishing' = id /\ MarkHandled /\ bar' = "CONFIRMED"
            /\ UNCHANGED <<current, arrived, accepting, observer, capturing, steering,
                           checkpointDue, revision, pageToken, saved>>
    /\ UNCHANGED <<queueVars, helper, stream, project, job, calls, bounds>>

\* 'discarded': an agent has restored the source of the current session.
OnDiscarded ==
    /\ Receive("discarded")
    /\ IF current # None /\ Head(inbox).id = current
       THEN MarkHandled /\ Forget
       ELSE UNCHANGED <<handled, saved, current, observer, bar>>
    /\ UNCHANGED <<queueVars, helper, stream, project, job, calls, bounds, arrived, accepting,
                   finishing, capturing, steering, checkpointDue, revision, pageToken>>

\* 'agent_done' leaves the bar saving; 'steer_done' unlocks the chat.
OnSteerOrAgentDone ==
    /\ \/ /\ Receive("agent_done")
          /\ UNCHANGED <<calls, steering, revision, saved>>
       \/ /\ Receive("steer_done")
          /\ IF IsSteer(Head(inbox))
             THEN UnlockSteer /\ calls' = calls \cup SteerCheckpoint(steering)
             ELSE UNCHANGED <<calls, steering, revision, saved>>
    /\ UNCHANGED <<queueVars, helper, stream, project, job, bounds, bar, current, arrived,
                   accepting, finishing, observer, capturing, checkpointDue, pageToken, handled>>

\* 'error': of a pending accept, of the pending steer, or of any other
\* session, in which case the bar goes away whatever it was showing.
OnError ==
    /\ Receive("error")
    /\ LET m == Head(inbox) IN
       IF accepting # None /\ m.id = accepting
       THEN /\ accepting' = None /\ bar' = "CYCLING"
            /\ UNCHANGED <<calls, steering, revision, saved>>
       ELSE IF IsSteer(m)
       THEN /\ UnlockSteer /\ calls' = calls \cup SteerCheckpoint(steering)
            /\ UNCHANGED <<accepting, bar>>
       ELSE bar' = "PICKING" /\ UNCHANGED <<accepting, calls, steering, revision, saved>>
    /\ UNCHANGED <<queueVars, helper, stream, project, job, bounds, current, arrived, finishing,
                   observer, capturing, checkpointDue, pageToken, handled>>

-----------------------------------------------------------------------------
(* The page and its event stream.                                           *)

\* A reload: requests on the way are on their own, the script is served with
\* the token of the running helper, and resumeSession picks up a wrapper of
\* the page, or else the session localStorage still has.
Orphaned == {[c EXCEPT !.mine = FALSE] : c \in {d \in calls : d.stage = "sent"}}

ResumeFromWrapper(s) ==
    /\ source[s] \in {"wrapped", "variants"} /\ handled # s
    /\ current' = s /\ arrived' = (source[s] = "variants")
    /\ bar' = IF source[s] = "variants" THEN "CYCLING" ELSE "GENERATING"
    /\ revision' = IF saved = None THEN 0 ELSE saved.revision
    /\ saved' = Saved(s, bar', arrived', revision')
    /\ observer' = TRUE /\ checkpointDue' = TRUE /\ UNCHANGED handled

ResumeFromStorage ==
    /\ \A s \in Sessions : source[s] \notin {"wrapped", "variants"}
    /\ IF Restorable({}, {})
       THEN /\ current' = saved.id /\ arrived' = saved.arrived /\ bar' = "GENERATING"
            /\ revision' = saved.revision /\ saved' = [saved EXCEPT !.state = "GENERATING"]
            /\ observer' = TRUE /\ checkpointDue' = TRUE /\ UNCHANGED handled
       ELSE /\ saved' = None /\ handled' = None
            /\ current' = None /\ arrived' = FALSE /\ bar' = "PICKING"
            /\ revision' = IF saved = None THEN 0 ELSE saved.revision
            /\ observer' = FALSE /\ checkpointDue' = FALSE

NoResume ==
    /\ \E s \in Sessions : source[s] \in {"wrapped", "variants"} /\ handled = s
    /\ current' = None /\ arrived' = FALSE /\ bar' = "PICKING" /\ revision' = 0
    /\ observer' = FALSE /\ checkpointDue' = FALSE /\ UNCHANGED <<saved, handled>>

Reload ==
    /\ up
    /\ Happens("reload")
    /\ dom' = source
    /\ calls' = Orphaned /\ capturing' = {}
    /\ accepting' = None /\ finishing' = None /\ steering' = None
    /\ pageToken' = token
    /\ stream' = "retrying" /\ inbox' = <<>>
    /\ exitTimer' = (exitTimer \/ stream = "open")
    /\ (\E s \in Sessions : ResumeFromWrapper(s)) \/ ResumeFromStorage \/ NoResume
    /\ UNCHANGED <<queueVars, journal, up, token, source, job>>

\* GET /events: the exit that the tab's absence queued is withdrawn and the
\* tab is told which sessions are active.
Connect ==
    /\ up /\ stream = "retrying" /\ pageToken = token
    /\ stream' = "open" /\ exitTimer' = FALSE
    /\ CancelQueuedAnonymousExitEvents
    /\ inbox' = <<[type |-> "connected", id |-> NoId, active |-> Active,
                   open |-> {i \in Active : journal[i].phase \notin Closed}]>>
    /\ UNCHANGED <<journal, up, token, project, job, tab, calls, bounds>>

\* The connection breaks, with whatever was on it; eight seconds later the
\* helper tells the agents that the browser has left.
Disconnect ==
    /\ stream = "open" /\ up
    /\ Happens("drop")
    /\ stream' = "retrying" /\ inbox' = <<>> /\ exitTimer' = TRUE
    /\ UNCHANGED <<queueVars, journal, up, token, project, job, tab, calls>>

ExitTimerFires ==
    /\ up /\ exitTimer /\ stream # "open"
    /\ exitTimer' = FALSE
    /\ EnqueueEvent(Exit)
    /\ UNCHANGED <<journal, up, token, link, project, job, tab, calls, bounds>>

\* handleServerLost, after SSE_MAX_RETRIES failures; the session is kept.
ServerLost ==
    /\ stream = "retrying" /\ ~up
    /\ stream' = "closed"
    /\ observer' = FALSE
    /\ bar' = IF current = None THEN "IDLE" ELSE bar
    /\ saved' = IF current = None THEN saved ELSE Saved(current, bar, arrived, revision)
    /\ UNCHANGED <<queueVars, helper, inbox, project, job, calls, bounds, current, arrived,
                   accepting, finishing, capturing, steering, checkpointDue, revision,
                   pageToken, handled>>

-----------------------------------------------------------------------------
(* The helper's process.                                                    *)

Crash ==
    /\ up /\ Happens("restart")
    /\ up' = FALSE /\ QueueLost
    /\ stream' = IF stream = "open" THEN "retrying" ELSE stream
    /\ inbox' = <<>> /\ exitTimer' = FALSE
    /\ UNCHANGED <<journal, token, project, job, tab, calls>>

\* Startup: a new token, and the journal's pending events queued again.
Restart ==
    /\ ~up /\ up' = TRUE /\ token' = token + 1
    /\ RestorePendingEvents(Owed)
    /\ UNCHANGED <<journal, exitTimer, link, project, job, tab, calls, bounds>>

\* A lease nobody works under any more ends in time; to lose it while the
\* agent still works is a fault.
Held(event) == \E p \in Pollers : answer[p] = event \/ job[p].event = event

LeaseRunsOut(e) ==
    /\ up
    /\ IF Held(e.event) THEN Happens("expiry") ELSE UNCHANGED bounds
    /\ LeaseExpires(e)
    /\ UNCHANGED <<helper, link, project, job, tab, calls>>

TimerFires ==
    /\ up /\ LeaseTimerFires
    /\ UNCHANGED <<helper, link, project, job, tab, calls, bounds>>

-----------------------------------------------------------------------------
(* The agents.                                                              *)

Free(p) == job[p].stage = "idle" /\ ~Parked(p) /\ answer[p] \in {NoEvent, Exit}

\* fetchNextEvent asks, with the token it read; a request that times out is
\* asked again.
Poll(p) ==
    /\ up /\ Free(p)
    /\ HandlePollGet(p)
    /\ job' = [job EXCEPT ![p].token = token]
    /\ UNCHANGED <<helper, link, project, tab, calls, bounds>>

\* The event the poll returned, until the agent is done with it.
Working(p, type) == job[p].stage = "idle" /\ answer[p] \in [id : Ids, type : {type}]
Event(p) == answer[p]

Finish(p, reply) ==
    /\ job' = [job EXCEPT ![p] = [@ EXCEPT !.stage = "replying", !.event = answer[p],
                                           !.reply = reply]]
    /\ answer' = [answer EXCEPT ![p] = NoEvent]
    /\ UNCHANGED <<pendingEvents, pendingPolls, leaseTimer>>

\* generate: live-wrap.mjs puts the wrapper around the element, one edit adds
\* all variants, then the agent replies; it may give up at any time.
Wrap(p) ==
    /\ Working(p, "generate")
    /\ LET s == Event(p).id IN
       /\ source[s] = "original"
       /\ source' = [source EXCEPT ![s] = "wrapped"]
    /\ UNCHANGED <<queueVars, helper, link, dom, job, tab, calls, bounds>>

WriteVariants(p) ==
    /\ Working(p, "generate")
    /\ LET s == Event(p).id IN
       /\ source[s] = "wrapped"
       /\ source' = [source EXCEPT ![s] = "variants"]
    /\ UNCHANGED <<queueVars, helper, link, dom, job, tab, calls, bounds>>

FinishGenerate(p) ==
    /\ Working(p, "generate")
    /\ LET s == Event(p).id IN
       \/ /\ source[s] \notin {"original", "wrapped"}
          /\ Finish(p, "done") /\ UNCHANGED source
       \/ /\ source[s] \in {"original", "wrapped"}
          /\ Finish(p, "error") /\ source' = [source EXCEPT ![s] = "original"]
    /\ UNCHANGED <<helper, link, dom, tab, calls, bounds>>

FinishSteer(p) ==
    /\ Working(p, "steer")
    /\ \E reply \in {"steer_done", "error"} : Finish(p, reply)
    /\ UNCHANGED <<helper, link, project, tab, calls, bounds>>

\* augmentEventWithAcceptHandling: live-accept.mjs rewrites the source block it
\* finds by its markers; a variant that brings CSS leaves a carbonize block.
\* Without markers nothing is handled, which completionTypeForAcceptResult
\* reports as agent_done for an accept and as error for a discard; so does a
\* script that fails.
HasMarkers(s) == source[s] \in {"wrapped", "variants"}

RunAccept(p) ==
    /\ Working(p, "accept")
    /\ LET s == Event(p).id IN
       \/ /\ HasMarkers(s) /\ UNCHANGED bounds
          /\ \E reply \in {"complete", "carbonize"} :
                /\ source' = [source EXCEPT ![s] = IF reply = "complete" THEN "clean"
                                                   ELSE "carbonize"]
                /\ Finish(p, reply)
       \/ ~HasMarkers(s) /\ UNCHANGED <<source, bounds>> /\ Finish(p, "agent_done")
       \/ Happens("crash") /\ UNCHANGED source /\ Finish(p, "error")
    /\ UNCHANGED <<helper, link, dom, tab, calls>>

RunDiscard(p) ==
    /\ Working(p, "discard")
    /\ LET s == Event(p).id IN
       IF HasMarkers(s)
       THEN source' = [source EXCEPT ![s] = "original"] /\ Finish(p, "discarded")
       ELSE UNCHANGED source /\ Finish(p, "error")
    /\ UNCHANGED <<helper, link, dom, tab, calls, bounds>>

\* Mutants: an accept with a cleanup still to do is reported as complete, and
\* every handled accept as agent_done.
CarbonizeCompletes(reply) == IF reply = "carbonize" THEN "complete" ELSE reply
AlwaysAgentDone(reply) == IF reply \in {"carbonize", "complete"} THEN "agent_done" ELSE reply

\* completionTypeForAcceptResult.
CompletionType(reply) == IF reply = "carbonize" THEN "agent_done" ELSE reply

\* postReply.  The reply to an accept or a discard carries the token of the
\* poll; --reply is a run of its own and reads the token that is valid now.
\* A carbonize accept leaves the agent with the cleanup, sent or not.
ReplyReaches(p) ==
    up /\ (job[p].event.type \in {"accept", "discard"} => job[p].token = token)

Reply(p) ==
    /\ job[p].stage = "replying"
    /\ LET id == job[p].event.id
           carbonize == job[p].reply = "carbonize"
       IN  /\ IF ReplyReaches(p) /\ Known(id)
              THEN HandlePollPost(id, CompletionType(job[p].reply), carbonize)
              ELSE UNCHANGED <<queueVars, helper, link>>
           /\ job' = [job EXCEPT ![p] = IF carbonize THEN [@ EXCEPT !.stage = "carbonize"]
                                        ELSE Idle]
    /\ UNCHANGED <<project, tab, calls, bounds>>

\* "Required after accept": the agent folds the carbonize block into the
\* source and runs live-complete.mjs.
Carbonize(p) ==
    /\ job[p].stage = "carbonize"
    /\ source' = [source EXCEPT ![job[p].event.id] = "clean"]
    /\ job' = [job EXCEPT ![p].stage = "completing"]
    /\ UNCHANGED <<queueVars, helper, link, dom, tab, calls, bounds>>

\* live-complete.mjs: through the helper, else straight into the journal.
Complete(p) ==
    /\ job[p].stage = "completing"
    /\ LET id == job[p].event.id IN
       IF up /\ Known(id)
       THEN HandlePollPost(id, "complete", FALSE)
       ELSE /\ journal' = [journal EXCEPT ![id] = ApplyReply(@, "complete")]
            /\ UNCHANGED <<queueVars, up, token, exitTimer, link>>
    /\ job' = [job EXCEPT ![p] = Idle]
    /\ UNCHANGED <<project, tab, calls, bounds>>

\* An agent dies with what it was doing; a later one runs live-resume.mjs,
\* which sends it to the cleanup only if the journal's phase still says so.
AgentDies(p) ==
    /\ Happens("crash")
    /\ job' = [job EXCEPT ![p] = Idle]
    /\ IF Parked(p)
       THEN \E k \in 1..Len(pendingPolls) : pendingPolls[k] = p /\ DropPoll(k)
       ELSE /\ ~Free(p)
            /\ answer' = [answer EXCEPT ![p] = NoEvent]
            /\ UNCHANGED <<pendingEvents, pendingPolls, leaseTimer>>
    /\ UNCHANGED <<helper, link, project, tab, calls>>

Resume(p, s) ==
    /\ Free(p) /\ \A q \in Pollers : ~(job[q].stage # "idle" /\ job[q].event.id = s)
    /\ journal[s].phase = "carbonize_required" /\ journal[s].pending = None
    /\ job' = [job EXCEPT ![p] = [stage |-> "carbonize", reply |-> "", token |-> token,
                                  event |-> [id |-> s, type |-> "accept"]]]
    /\ UNCHANGED <<queueVars, helper, link, project, tab, calls, bounds>>

-----------------------------------------------------------------------------

User ==
    \/ \E s \in Sessions : Go(s)
    \/ SelectVariant \/ HandleAccept \/ HandleDiscard
    \/ \E m \in Steers : SubmitSteer(m)

TabStep ==
    \/ \E s \in Sessions : EmitGenerate(s)
    \/ Refresh \/ VariantsArrive \/ CheckpointTimer \/ AcceptCleanup \/ SteerTimeout
    \/ \E c \in calls : AcceptFailed(c) \/ DiscardAnswered(c) \/ SteerFailed(c)
    \/ OnConnected \/ OnDone \/ OnComplete \/ OnDiscarded \/ OnSteerOrAgentDone \/ OnError

Network ==
    \/ \E c \in calls : RequestArrives(c) \/ RequestFails(c) \/ ResponseLost(c)
    \/ Connect \/ Disconnect \/ ServerLost \/ Reload

Helper ==
    \/ ExitTimerFires \/ TimerFires \/ Crash \/ Restart
    \/ \E e \in pendingEvents : LeaseRunsOut(e)

Work(p) ==
    \/ Poll(p)
    \/ Wrap(p) \/ WriteVariants(p) \/ FinishGenerate(p) \/ FinishSteer(p)
    \/ RunAccept(p) \/ RunDiscard(p) \/ Reply(p) \/ Carbonize(p) \/ Complete(p)
    \/ \E s \in Sessions : Resume(p, s)

Agent(p) == Work(p) \/ AgentDies(p)

Next == User \/ TabStep \/ Network \/ Helper \/ \E p \in Pollers : Agent(p)

Spec == Init /\ [][Next]_vars

\* Timers fire, requests that are sent arrive or fail, EventSource reconnects,
\* the helper is started again, agents go on working and polling (the loop of
\* reference/live.md).  Users decide as they like and faults are optional.
Fairness ==
    /\ WF_vars(TabStep) /\ WF_vars(Connect) /\ WF_vars(Restart) /\ WF_vars(TimerFires)
    /\ WF_vars(\E c \in calls : RequestArrives(c))
    /\ WF_vars(~up /\ \E c \in calls : RequestFails(c))
    /\ WF_vars(\E e \in pendingEvents : ~Held(e.event) /\ LeaseRunsOut(e))
    /\ \A p \in Pollers : WF_vars(Work(p))

LiveSpec == Spec /\ Fairness

-----------------------------------------------------------------------------
(* What must hold.                                                          *)

Blocks == {"original", "wrapped", "variants", "carbonize", "clean"}
Bars == {"PICKING", "GENERATING", "CYCLING", "SAVING", "CONFIRMED", "IDLE"}

\* Type correctness of the session's state.
TypeOK ==
    /\ QueueTypeOK
    /\ \A i \in Ids : journal[i].pending \in Events \cup {None}
    /\ up \in BOOLEAN /\ token \in 1..(MaxFaults + 1) /\ exitTimer \in BOOLEAN
    /\ stream \in {"open", "retrying", "closed"}
    /\ source \in [Sessions -> Blocks] /\ dom \in [Sessions -> Blocks]
    /\ bar \in Bars /\ current \in Sessions \cup {None} /\ arrived \in BOOLEAN
    /\ accepting \in Sessions \cup {None} /\ finishing \in Sessions \cup {None}
    /\ capturing \subseteq Sessions /\ steering \in Steers \cup {None}
    /\ handled \in Sessions \cup {None} /\ revision \in 0..MaxRevision

\* What the journal says an agent still has to do is in the running helper's
\* queue: no handler journals a request it does not queue, drops one it has
\* journaled, or comes back from a restart without one.
PendingIsQueued ==
    up => \A i \in Ids : journal[i].pending # None =>
              \E e \in pendingEvents : e.event = journal[i].pending

\* The bar says "confirmed" only for a session whose accepted variant is in
\* the source, carbonize cleanup included.
ConfirmedIsWritten == finishing # None => source[finishing] = "clean"

\* Every event with an id is dealt with in the end: leases bring it to another
\* agent when one dies, the journal brings it back when the helper does.
EventsAreHandled ==
    \A i \in Ids : (\E e \in pendingEvents : e.event.id = i)
                   ~> ~(\E e \in pendingEvents : e.event.id = i)

\* As long as the event stream is there whenever the tab has a session, no
\* accept is delivered twice and no agent forgets its cleanup, a bar that saves
\* or generates does not do so for ever: an answer gets to the tab and finds it
\* in a state that reacts to it.  (A second live-accept.mjs finds no markers,
\* and a cleanup is taken up again only by an agent that runs live-resume.mjs.)
ConnectedAndPrompt ==
    /\ current # None => stream = "open"
    /\ \A e \in pendingEvents : e.event.type = "accept" => e.lease # "expired"
    /\ \A s \in Sessions : journal[s].phase = "carbonize_required" =>
           \E p \in Pollers : job[p].stage # "idle" /\ job[p].event.id = s

BarMovesOn ==
    []ConnectedAndPrompt =>
        /\ bar = "SAVING" ~> bar # "SAVING"
        /\ bar = "GENERATING" ~> bar # "GENERATING"

\* The queue survives a restart of the helper: an event that no reply has
\* acknowledged is still owed by the journal (reference/live.md, rule 7).
UnacknowledgedIsDurable ==
    \A e \in pendingEvents : e.event.id # NoId => journal[e.event.id].pending # None
=============================================================================
