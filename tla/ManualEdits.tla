----------------------------- MODULE ManualEdits -----------------------------
(***************************************************************************)
(* Staged copy edits of live mode: the buffer of edits the user saved      *)
(* (live/manual-edits-buffer.mjs), the Apply that has an agent write them  *)
(* into the source, verifies the result and rolls back what it cannot      *)
(* verify (live-commit-manual-edits.mjs, live/manual-apply.mjs,            *)
(* live/manual-edit-routes.mjs), and the controls of the tab that start it *)
(* (live-browser.js).                                                      *)
(*                                                                         *)
(* The helper is one Node process: a request handler together with the     *)
(* promise continuations it sets off is one action.  The buffer, the       *)
(* transaction and the source are files, everything else dies with the     *)
(* helper.  One page, one tab, one agent at a time; an edit has one op.    *)
(* Time only passes: an apply event may time out whenever it is awaited.   *)
(***************************************************************************)
EXTENDS Integers, FiniteSets, Functions, SequencesExt

CONSTANTS
    Entries, Files,
    FileOf,         \* the file that has the text of an edit
    None,
    ChunkSize,      \* manualEditApplyChunkSize
    MaxAttempts,    \* repairAttemptLimit
    MaxVersion      \* bound: texts an edit can have

Versions == 0..MaxVersion
Texts == UNION {[es -> Versions] : es \in SUBSET Entries}
Snapshots == [files : SUBSET Files, broken : SUBSET Files, source : Texts]
Transactions == [entries : SUBSET Entries, snapshot : Snapshots]
ApplyEvents == [entries : SUBSET Entries, snapshot : Snapshots, taken : BOOLEAN]

ASSUME EditsAssumption ==
    /\ IsFiniteSet(Entries) /\ FileOf \in [Entries -> Files]
    /\ None \notin Transactions \cup ApplyEvents
    /\ MaxVersion \in Nat
    /\ {ChunkSize, MaxAttempts} \subseteq Nat \ {0}

VARIABLES
    \* --- files ---
    source,         \* the text each edit's place shows: 0, or a version
    broken,         \* files that runCopyEditPostApplyChecks rejects
    buffer,         \* staged version of an edit, 0 if it is not staged
    transaction,    \* manual-edit-apply-transaction.json
    \* --- the helper ---
    commit,         \* the running POST /manual-edit-commit
    event,          \* the apply event it waits for
    \* --- the agent ---
    agent,          \* what it works on, and what the helper knows of that
    \* --- the tab ---
    locked,         \* pendingApplyInFlight
    kept,           \* the state of the Apply in sessionStorage
    offered,        \* the buttons "keep fixing" and "roll back" are shown
    disabled,       \* pendingPillEl.disabled
    mail,           \* message of the event stream the tab has yet to handle
    \* --- history ---
    applied,        \* the text of an edit that Applies, once over, have left
    stray,          \* the agent changed source where the helper never looks
    undone          \* a late answer to a later chunk, or to a repair, came

files == <<source, broken, buffer, transaction>>
tab == <<locked, kept, offered, disabled>>
history == <<applied, stray, undone>>
vars == <<files, commit, event, agent, tab, mail, history>>

-----------------------------------------------------------------------------
(* The source, its snapshots and how they are restored.                    *)

World == [source |-> source, broken |-> broken]
Become(w) == source' = w.source /\ broken' = w.broken

FilesOf(es) == {FileOf[e] : e \in es}

Snapshot(w, fs) ==
    [files |-> fs, broken |-> w.broken \cap fs,
     source |-> Restrict(w.source, {e \in Entries : FileOf[e] \in fs})]

Restore(w, snapshot) ==
    [source |-> [e \in Entries |-> IF e \in DOMAIN snapshot.source
                                   THEN snapshot.source[e] ELSE w.source[e]],
     broken |-> (w.broken \ snapshot.files) \cup snapshot.broken]

Staged == {e \in Entries : buffer[e] # 0}

\* Mutant: what an earlier Apply left is forgotten, not rolled back.
Forgotten == World

\* rollbackManualApplyTransaction, which also removes the transaction.
RolledBack ==
    IF transaction # None /\ transaction.entries \cap Staged # {}
    THEN Restore(World, transaction.snapshot)
    ELSE World

\* The agent is still at work on the first event of an Apply that timed out.  Its
\* answer will undo what it does until then.
Late == agent.on = "tombstone" /\ agent.first
Unfinished == Late /\ Restore(World, agent.snapshot) # World

-----------------------------------------------------------------------------
(* The commit.                                                             *)

NoCommit == [stage |-> "idle"]
Running == commit.stage # "idle"

\* splitManualApplyBatch; the order is the order of the buffer.
Chunkings(es) ==
    LET n == (Cardinality(es) + ChunkSize - 1) \div ChunkSize
    IN  {c \in [1..n -> SUBSET es] :
            /\ UNION Range(c) = es
            /\ \A i \in 1..(n - 1) : Cardinality(c[i]) = ChunkSize
            /\ \A i, j \in 1..n : i # j => c[i] \cap c[j] = {}}

\* pushApplyEventAndWait: the event carries the files as they are now.
Dispatched(w, es) ==
    [entries |-> es, snapshot |-> Snapshot(w, FilesOf(es)), taken |-> FALSE]

Shown(e) == source[e] = commit.batch[e]

\* Edits of the batch that have another text than the one asked for in a file
\* the agent reported: nothing looks for it when such an edit is not reported
\* as applied (findUnappliedEntrySourceChanges), and it stays.
Overlooked(touched) ==
    {e \in DOMAIN commit.batch : FileOf[e] \in touched /\ ~Shown(e)}

\* The edits of es leave the buffer, and the user is told of them.
Clear(es, touched) ==
    /\ buffer' = [e \in Entries |-> IF e \in es THEN 0 ELSE buffer[e]]
    /\ applied' = [e \in Entries |->
                      IF e \in es THEN commit.batch[e]
                      ELSE IF e \in Overlooked(touched) THEN source[e]
                      ELSE applied[e]]

\* commitManualEdits returns and the route answers the tab.
Return(w, es, touched) ==
    /\ Become(w) /\ Clear(es, touched)
    /\ commit' = NoCommit /\ event' = None
    /\ transaction' = None /\ mail' = "done"

RollBackCommit == Return(Restore(World, commit.base), {}, {})

\* Mutant: one attempt too many.
RepairOnceMore(appliedIds, touched) ==
    /\ UNCHANGED files /\ UNCHANGED applied
    /\ IF commit.attempt <= MaxAttempts
       THEN /\ commit' = [commit EXCEPT !.stage = "repair", !.attempt = @ + 1,
                                        !.applied = appliedIds, !.files = touched]
            /\ event' = Dispatched(World, DOMAIN commit.batch)
            /\ UNCHANGED mail
       ELSE /\ commit' = NoCommit /\ event' = None
            /\ mail' = "decision"

\* The next attempt of repairPostApplyValidation, or the user's decision.
Repair(appliedIds, touched) ==
    /\ UNCHANGED files /\ UNCHANGED applied
    /\ IF commit.attempt < MaxAttempts
       THEN /\ commit' = [commit EXCEPT !.stage = "repair", !.attempt = @ + 1,
                                        !.applied = appliedIds, !.files = touched]
            /\ event' = Dispatched(World, DOMAIN commit.batch)
            /\ UNCHANGED mail
       ELSE /\ commit' = NoCommit /\ event' = None
            /\ mail' = "decision"

\* Mutant: files nobody reported are not compared with the snapshot.
ChangedReported == {}

\* Files the commit owns that are not what they were when it began.
Changed ==
    {f \in commit.base.files : Snapshot(World, {f}) #
        Snapshot(Restore(World, commit.base), {f})}

\* An edit that was not reported as applied and is in the source all the same.
Leaked(appliedIds) ==
    {e \in DOMAIN commit.batch \ appliedIds :
        Shown(e) /\ commit.base.source[e] # commit.batch[e]}

\* A result that commitManualEdits does not even verify.
Refused(result) ==
    \/ result.status = "error"
    \/ result.applied \cap result.failed # {}
    \/ Changed \ result.files # {}
    \/ result.status = "done" /\ result.applied = {}

\* commitManualEdits with the result of the agent.
Verify(result) ==
    LET appliedIds == result.applied
        verified == {e \in appliedIds : Shown(e)}
    IN  IF Refused(result)
        THEN RollBackCommit
        ELSE IF appliedIds # {} /\ result.files = {}
        THEN Repair(appliedIds, {})
        ELSE IF Leaked(appliedIds) # {}
        THEN RollBackCommit
        ELSE IF verified # appliedIds
        THEN Repair(appliedIds, result.files)
        ELSE IF broken \cap result.files # {}
        THEN Repair(IF verified # {} THEN verified ELSE DOMAIN commit.batch,
                    result.files)
        ELSE Return(World, appliedIds, result.files)

\* pushBatchInChunksAndWait: what the chunks add up to.
Collected(c) ==
    LET appliedIds == c.applied \ c.failed
        failed == DOMAIN c.batch \ appliedIds
    IN  [applied |-> appliedIds, failed |-> failed, files |-> c.files,
         status |-> IF failed = {} THEN "done"
                    ELSE IF appliedIds # {} THEN "partial" ELSE "error"]

\* One chunk is done: the next one is dispatched, unless the chunk aborts.
ChunkDone(c, aborted) ==
    IF c.todo = <<>> \/ aborted
    THEN Verify(Collected(c))
    ELSE /\ commit' = [c EXCEPT !.todo = Tail(@)]
         /\ event' = Dispatched(World, Head(c.todo))
         /\ UNCHANGED <<files, applied, mail>>

\* The promise of the event is resolved with the agent's reply.
Resolved(reply) ==
    CASE commit.stage = "apply" /\ commit.whole -> Verify(reply)
      [] commit.stage = "apply" /\ ~commit.whole ->
            ChunkDone([commit EXCEPT !.applied = @ \cup reply.applied,
                                     !.failed = @ \cup reply.failed,
                                     !.files = @ \cup reply.files],
                      reply.status = "error")
      [] commit.stage = "repair" ->
            LET appliedIds == commit.applied \cup reply.applied
                touched == commit.files \cup reply.files
            IN  IF (\A e \in appliedIds : Shown(e)) /\ broken \cap touched = {}
                THEN Return(World, appliedIds, touched)
                ELSE Repair(appliedIds, touched)

\* Mutant: an attempt that timed out does not count.
RejectedUncounted ==
    CASE commit.stage = "apply" /\ commit.whole -> RollBackCommit
      [] commit.stage = "apply" /\ ~commit.whole -> ChunkDone(commit, TRUE)
      [] commit.stage = "repair" ->
            /\ event' = Dispatched(World, DOMAIN commit.batch)
            /\ UNCHANGED <<files, applied, commit, mail>>

\* It is rejected: chat_agent_timeout.
Rejected ==
    CASE commit.stage = "apply" /\ commit.whole -> RollBackCommit
      [] commit.stage = "apply" /\ ~commit.whole -> ChunkDone(commit, TRUE)
      [] commit.stage = "repair" -> Repair(commit.applied, commit.files)

-----------------------------------------------------------------------------
(* The tab.                                                                *)

\* Mutant: the running Apply is remembered by the page only.
LoadingInMemory == /\ locked' = TRUE /\ kept' = FALSE
                   /\ disabled' = TRUE /\ offered' = FALSE

\* setPendingApplyLoading(true)
Loading == /\ locked' = TRUE /\ kept' = TRUE
           /\ disabled' = TRUE /\ offered' = FALSE

\* hidePendingApplyDock
Hidden == /\ locked' = FALSE /\ kept' = FALSE
          /\ disabled' = FALSE /\ offered' = FALSE

\* updatePendingCounter
Counter(n) ==
    IF n = 0 THEN Hidden
    ELSE IF locked \/ kept THEN Loading
    ELSE UNCHANGED tab

\* showManualApplyDecision
Decide == /\ locked' = FALSE /\ kept' = TRUE
          /\ disabled' = TRUE /\ offered' = TRUE

\* The pill and the bin can be clicked.
Enabled == ~locked /\ ~disabled /\ Staged # {}

\* A later text of the same place replaces the staged one.
StageEntry(e, v) == buffer' = [buffer EXCEPT ![e] = v]

\* POST /manual-edit-stash: the user saves a text the page does not show.
Stage(e) ==
    /\ ~locked
    /\ \E v \in 1..MaxVersion \ {source[e]} : StageEntry(e, v)
    /\ Counter(1)
    /\ UNCHANGED <<source, broken, transaction, commit, event, agent, mail,
                   history>>

\* POST /manual-edit-commit: what an earlier Apply left is rolled back first.
Apply ==
    /\ Enabled
    /\ LET w == RolledBack
           owned == Snapshot(w, FilesOf(Staged))
       IN  \E chunks \in Chunkings(Staged) :
             /\ Become(w)
             /\ transaction' = [entries |-> Staged, snapshot |-> owned]
             /\ commit' = [stage |-> "apply", batch |-> Restrict(buffer, Staged),
                           base |-> owned, whole |-> Len(chunks) = 1,
                           todo |-> Tail(chunks), applied |-> {}, failed |-> {},
                           files |-> {}, attempt |-> 0]
             /\ event' = Dispatched(w, Head(chunks))
    /\ Loading
    /\ stray' = (stray \/ Unfinished)
    /\ UNCHANGED <<buffer, agent, mail, applied, undone>>

\* The same with repair=1: the staged edits count as applied, and only the
\* checks are run.  Without a transaction it is refused.
RepairOnly ==
    LET c == [stage |-> "apply", batch |-> Restrict(buffer, Staged),
              base |-> Snapshot(World, FilesOf(Staged)), whole |-> TRUE,
              todo |-> <<>>, applied |-> Staged, failed |-> {},
              files |-> FilesOf(Staged), attempt |-> 1]
    IN  /\ UNCHANGED <<source, broken>>
        /\ IF source # [e \in Entries |-> IF e \in Staged THEN buffer[e] ELSE source[e]]
              \/ broken \cap c.files # {}
           THEN /\ commit' = [c EXCEPT !.stage = "repair"]
                /\ event' = Dispatched(World, Staged)
                /\ UNCHANGED <<buffer, transaction, applied, mail>>
           ELSE /\ buffer' = [e \in Entries |-> 0]
                /\ applied' = [e \in Entries |-> IF e \in Staged THEN buffer[e] ELSE applied[e]]
                /\ transaction' = None /\ mail' = "done"
                /\ UNCHANGED <<commit, event>>

KeepFixing ==
    /\ offered /\ Staged # {}
    /\ IF transaction # None
       THEN RepairOnly /\ Loading
       ELSE Decide /\ UNCHANGED <<files, commit, event, mail, applied>>
    /\ UNCHANGED <<agent, stray, undone>>

\* POST /manual-edit-repair-decision
RollbackDecision ==
    /\ offered
    /\ Become(RolledBack) /\ transaction' = None
    /\ kept' = FALSE
    /\ UNCHANGED <<buffer, commit, event, agent, locked, offered, disabled,
                   mail, history>>

\* POST /manual-edit-discard
Discard ==
    /\ Enabled
    /\ Become(RolledBack) /\ transaction' = None
    /\ buffer' = [e \in Entries |-> 0]
    /\ Hidden
    /\ UNCHANGED <<commit, event, agent, mail, history>>

\* handleManualEditActivity
Receive ==
    /\ mail # "none" /\ mail' = "none"
    /\ IF mail = "decision"
       THEN Decide
       ELSE IF Staged = {} THEN Hidden
       ELSE /\ locked' = FALSE /\ kept' = FALSE /\ disabled' = FALSE
            /\ UNCHANGED offered
    /\ UNCHANGED <<files, commit, event, agent, history>>

\* The page is loaded again and asks for the count.  What the stream had for
\* the old page is gone.
Reload ==
    /\ mail' = "none"
    /\ IF kept /\ Staged # {} THEN Loading ELSE Hidden
    /\ UNCHANGED <<files, commit, event, agent, history>>

\* MANUAL_APPLY_STATE_TTL_MS after its last message the state is forgotten;
\* a commit has messages more often than that.
Expire ==
    /\ kept /\ ~Running /\ mail = "none"
    /\ kept' = FALSE
    /\ UNCHANGED <<files, commit, event, agent, locked, offered, disabled,
                   mail, history>>

-----------------------------------------------------------------------------
(* The agent, the timer and the helper's restart.                          *)

NoWork == [on |-> "nothing"]

\* The event that is awaited is the first one of its Apply: its snapshot has
\* the source as the Apply found it.
FirstEvent ==
    commit.stage = "apply" /\ commit.applied \cup commit.failed = {}

Take ==
    /\ agent = NoWork /\ event # None /\ ~event.taken
    /\ event' = [event EXCEPT !.taken = TRUE]
    /\ agent' = [on |-> "event", snapshot |-> event.snapshot, first |-> FirstEvent,
                 batch |-> Restrict(commit.batch, event.entries)]
    /\ UNCHANGED <<files, commit, tab, mail, history>>

\* The agent does what the helper neither checks nor could undo: nobody knows
\* of its work any more, it is repairing one thing and changes another, or
\* what it changes is in a file that the transaction has no snapshot of.
Astray(e) ==
    \/ agent.on # "event" /\ ~Late
    \/ agent.on = "event" /\ commit.stage = "repair" /\ e \notin commit.applied
    \/ agent.on = "event" /\ commit.stage = "repair" /\ FileOf[e] \notin commit.files
    \/ transaction # None /\ FileOf[e] \notin transaction.snapshot.files

\* It gives the place of e the text that is asked for, or a wrong one.
EditEntry(e) ==
    /\ agent # NoWork /\ e \in DOMAIN agent.batch
    /\ \E v \in Versions \ {source[e]} : source' = [source EXCEPT ![e] = v]
    /\ stray' = (stray \/ Astray(e))
    /\ UNCHANGED <<broken, buffer, transaction, commit, event, agent, tab, mail,
                   applied, undone>>

\* It leaves the file of e with a syntax error, or repairs it.
DamageFile(e) ==
    /\ agent # NoWork /\ e \in DOMAIN agent.batch
    /\ broken' = IF FileOf[e] \in broken THEN broken \ {FileOf[e]}
                 ELSE broken \cup {FileOf[e]}
    /\ stray' = (stray \/ Astray(e))
    /\ UNCHANGED <<source, buffer, transaction, commit, event, agent, tab, mail,
                   applied, undone>>

\* What validateManualApplyResultMessage lets pass.
Replies(es) ==
    {r \in [status : {"done", "partial", "error"}, applied : SUBSET es,
            failed : SUBSET es, files : SUBSET FilesOf(es)] :
        /\ r.status = "done" => r.failed = {} /\ r.applied # {}
        /\ r.status = "partial" => r.applied # {} \/ r.failed # {}
        /\ r.status = "error" => r.applied = {}}

\* POST /poll with a result, for the event that is awaited.
Reply ==
    /\ agent.on = "event"
    /\ \E r \in Replies(event.entries) : Resolved(r)
    /\ agent' = NoWork
    /\ UNCHANGED <<tab, stray, undone>>

\* Mutant: the answer to an event that timed out is only refused.
NotRestored(w, snapshot) == w

\* rollbackTimedOutReply: the source is put back as it was at the dispatch of
\* the event, whatever has become of its Apply since.
Undo(w, snapshot) == Restore(w, snapshot)

\* The same for an event that timed out, or one a new helper knows nothing of.
ReplyLate ==
    /\ agent.on \in {"tombstone", "unknown"}
    /\ Become(IF agent.on = "tombstone" THEN Undo(World, agent.snapshot) ELSE World)
    /\ agent' = NoWork
    /\ undone' = (undone \/ (agent.on = "tombstone" /\ ~agent.first))
    /\ UNCHANGED <<buffer, transaction, commit, event, tab, mail, applied, stray>>

\* What an agent did late stays, if it dies before it answers.
Die ==
    /\ agent # NoWork /\ agent' = NoWork
    /\ stray' = (stray \/ Unfinished)
    /\ UNCHANGED <<files, commit, event, tab, mail, applied, undone>>

\* APPLY_EVENT_HARD_TIMEOUT_MS: the event is withdrawn and a tombstone kept.
Timeout ==
    /\ event # None
    /\ Rejected
    /\ agent' = IF agent.on = "event" THEN [agent EXCEPT !.on = "tombstone"] ELSE agent
    /\ UNCHANGED <<tab, stray, undone>>

\* The helper dies and is started again, which rolls back what it finds; its
\* new token leaves the page, once loaded again, without the state it kept.
Restart ==
    /\ Become(RolledBack) /\ transaction' = None
    /\ commit' = NoCommit /\ event' = None /\ mail' = "none"
    /\ agent' = IF agent = NoWork THEN NoWork ELSE [agent EXCEPT !.on = "unknown"]
    /\ Hidden
    /\ stray' = (stray \/ Unfinished)
    /\ UNCHANGED <<buffer, applied, undone>>

-----------------------------------------------------------------------------

Init ==
    /\ source = [e \in Entries |-> 0] /\ broken = {}
    /\ buffer = [e \in Entries |-> 0] /\ transaction = None
    /\ commit = NoCommit /\ event = None /\ agent = NoWork
    /\ locked = FALSE /\ kept = FALSE /\ offered = FALSE /\ disabled = FALSE
    /\ mail = "none"
    /\ applied = [e \in Entries |-> 0] /\ stray = FALSE /\ undone = FALSE

User == (\E e \in Entries : Stage(e)) \/ Apply \/ KeepFixing \/ RollbackDecision \/ Discard
Tab == Receive \/ Reload \/ Expire
Agent == Take \/ Reply \/ ReplyLate \/ Die \/ (\E e \in Entries : EditEntry(e) \/ DamageFile(e))

Next == User \/ Tab \/ Agent \/ Timeout \/ Restart

\* Only the helper's timer is fair: agents and users may do nothing for ever.
Spec == Init /\ [][Next]_vars /\ WF_vars(Timeout)

-----------------------------------------------------------------------------
(* Properties.                                                             *)

\* Every variable has its type, and an event is awaited exactly while a commit
\* runs.
TypeOK ==
    /\ source \in [Entries -> Versions] /\ broken \subseteq Files
    /\ buffer \in [Entries -> Versions] /\ applied \in [Entries -> Versions]
    /\ transaction # None => /\ transaction.entries \subseteq Entries
                             /\ transaction.snapshot \in Snapshots
    /\ Running => /\ commit.stage \in {"apply", "repair"}
                  /\ DOMAIN commit.batch \subseteq Staged
                  /\ commit.attempt \in 0..MaxAttempts
                  /\ commit.base \in Snapshots
    /\ Running <=> event # None
    /\ agent.on = "event" => event # None /\ event.taken
    /\ {locked, kept, offered, disabled, stray, undone} \subseteq BOOLEAN
    /\ mail \in {"none", "done", "decision"}

\* The source shows what the Applies so far have left: the text the user was
\* told is applied, and a wrong one only in place of an edit of which the user
\* was told that it failed (Overlooked).
SourceIsApplied == source = applied /\ broken = {}

\* Once an Apply is over, whether it succeeded, failed, was given up by a
\* timeout, a restart, or rolled back by the user, the source has exactly the
\* edits the user was told are applied and passes its checks
\* (rollbackChangedFiles, rollbackManualApplyTransaction).  An agent that works
\* on after its Apply has timed out is undone by its own late answer
\* (rollbackTimedOutReply).  For late answers to a later chunk or to an attempt
\* to repair this is not so (undone; ToldStays).
SettledSource ==
    ~Running /\ transaction = None /\ agent.on # "tombstone" /\ ~stray /\ ~undone =>
        SourceIsApplied

\* When the user has rolled an Apply back (the buttons stay), the source stays
\* as it was before ("Rolled back source; copy edits are still staged.",
\* live-browser.js).
RolledBackStays == offered /\ transaction = None => SourceIsApplied

\* An edit that the user was told is applied, and has not changed since, stays
\* in the source ("The browser will ask the user before any rollback.",
\* live.md).
AppliedStays == \A e \in Entries \ Staged : applied[e] # 0 => source[e] = applied[e]

\* What the user was told of an Apply stays true, whichever answers come late: it
\* is rolled back, or its edits are applied (rollbackTimedOutReply).
ToldStays ==
    ~Running /\ ~stray /\ agent.on # "tombstone" => RolledBackStays /\ AppliedStays

\* The snapshot that a rollback will restore holds what was applied when the
\* Apply began, however often it was repaired since (writeManualApplyTransaction).
RollbackTarget ==
    transaction # None /\ ~stray /\ ~undone =>
        LET w == Restore(World, transaction.snapshot)
        IN  w.source = applied /\ w.broken = {}

\* A saved edit leaves the buffer only because the user discards it or because
\* the source shows its latest text (clearAppliedEntries removes by id).
NoEditLost ==
    [][\A e \in Entries :
         (Running \/ offered) /\ buffer[e] # 0 /\ buffer'[e] = 0 => source'[e] = buffer[e]]_vars

\* A commit ends, whatever the agent does (the timer of pushApplyEventAndWait,
\* the limit of repairPostApplyValidation).
CommitEnds == Running ~> ~Running
=============================================================================
