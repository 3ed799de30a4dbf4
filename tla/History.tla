------------------------------ MODULE History -------------------------------
(* How the turns of one session reach the database.  Every instance of the     *)
(* project may track the session: its task polls the log and pushes turns into *)
(* a buffer that is written every few seconds or when it is full               *)
(* (persistence.rs).  At start and on request the whole log is imported,       *)
(* unless its size and time are those recorded (import.rs).  Both write the    *)
(* same table, which keeps the first row of a turn (repository/entries.rs);    *)
(* the server may stop between any two statements.                             *)
EXTENDS Naturals, Sequences, FiniteSets

CONSTANTS
    Trackers,    \* tracking tasks, one for each instance that finds the session
    Timer,       \* the task that flushes every few seconds
    NoStamp,     \* no size and time recorded
    BatchSize,   \* entries at which the buffer is flushed at once (50)
    MaxTurns,    \* bound: turns in the log
    MaxConvs     \* bound: conversations

ASSUME WriterAssumption == Timer \notin Trackers
ASSUME StampAssumption == NoStamp \notin Nat
ASSUME HistoryBoundAssumption == BatchSize \in Nat \ {0} /\ {MaxTurns, MaxConvs} \subseteq Nat

VARIABLES
    log,        \* the session's log: how many turns, and which have their results
    tracker,    \* task -> its phase, its conversation, what it polled and has still to push
    buffer,     \* PersistenceService::buffer
    writing,    \* writer -> the batch it drained and has not written
    convs,      \* conversations of the session: the stamp recorded for each
    stored,     \* conversation_entries: turn -> its row
    imp,        \* the import at work
    imported,   \* history: turns the last import that ended well found in the log
    cut         \* history: an import ended between creating and filling a conversation

dbVars == <<convs, stored>>
historyVars == <<log, tracker, buffer, writing, dbVars, imp, imported, cut>>

Turns == 1..MaxTurns
Writers == Trackers \cup {Timer}
Logs == {l \in [turns : 0..MaxTurns, answered : SUBSET Turns] : l.answered \subseteq 1..l.turns}
Entries == [turn : Turns, answered : BOOLEAN, conv : 1..MaxConvs]

Version(l, t) == t \in l.answered

\* What tells one content of the file from another (mtime, size).
Stamp(l) == l.turns + Cardinality(l.answered)

\* The entries of a log for conversation c, in its order.
AllOf(l, c) == [t \in 1..l.turns |-> [turn |-> t, answered |-> Version(l, t), conv |-> c]]

NoLog == [turns |-> 0, answered |-> {}]
Untracked == [phase |-> "none", conv |-> 0, polled |-> NoLog, pending |-> {}]
Over == [Untracked EXCEPT !.phase = "ended"]
NoImport == [phase |-> "none", stamp |-> 0, turns |-> 0, conv |-> 0, read |-> NoLog]

HistoryInit ==
    /\ log = NoLog
    /\ tracker = [t \in Trackers |-> Untracked]
    /\ buffer = <<>>
    /\ writing = [w \in Writers |-> <<>>]
    /\ convs = <<>> /\ stored = <<>>
    /\ imp = NoImport
    /\ imported = 0 /\ cut = FALSE

-----------------------------------------------------------------------------
(* Claude's log.                                                               *)

LogTurn ==
    /\ log.turns < MaxTurns
    /\ log' = [log EXCEPT !.turns = @ + 1]
    /\ UNCHANGED <<tracker, buffer, writing, dbVars, imp, imported, cut>>

\* The results of a turn's tools follow it in the log, and become part of it.
LogAnswer ==
    /\ \E t \in 1..log.turns \ log.answered : log' = [log EXCEPT !.answered = @ \cup {t}]
    /\ UNCHANGED <<tracker, buffer, writing, dbVars, imp, imported, cut>>

-----------------------------------------------------------------------------
(* persistence.rs                                                              *)

\* add_entries_batch: INSERT OR IGNORE, so the first row of a turn stays.
Written(batch, rows) ==
    [t \in DOMAIN rows \cup {batch[k].turn : k \in DOMAIN batch} |->
        IF t \in DOMAIN rows THEN rows[t]
        ELSE LET k == CHOOSE k \in DOMAIN batch : batch[k].turn = t /\ \A j \in 1..(k - 1) : batch[j].turn # t
             IN  [answered |-> batch[k].answered, conv |-> batch[k].conv]]

\* check_for_new_sessions, track_conversation: a conversation of its own.
Track(t) ==
    /\ tracker[t].phase = "none"
    /\ Len(convs) < MaxConvs
    /\ convs' = Append(convs, NoStamp)
    /\ tracker' = [tracker EXCEPT ![t].phase = "on", ![t].conv = Len(convs) + 1]
    /\ UNCHANGED <<log, buffer, writing, stored, imp, imported, cut>>

\* Turn for what is new, TurnUpdated for what has changed.
Poll(t) ==
    /\ tracker[t].phase = "on" /\ tracker[t].pending = {}
    /\ LET polled == tracker[t].polled
           news == {k \in 1..log.turns : k > polled.turns \/ Version(log, k) # Version(polled, k)}
       IN  /\ news # {}
           /\ tracker' = [tracker EXCEPT
                ![t].polled = log,
                ![t].pending = {[turn |-> k, answered |-> Version(log, k), conv |-> tracker[t].conv] : k \in news}]
    /\ UNCHANGED <<log, buffer, writing, dbVars, imp, imported, cut>>

\* add_to_buffer
Push(t) ==
    /\ tracker[t].phase = "on"
    /\ \E e \in tracker[t].pending :
        /\ \A f \in tracker[t].pending : e.turn <= f.turn
        /\ buffer' = Append(buffer, e)
        /\ tracker' = [tracker EXCEPT ![t].pending = @ \ {e},
                                      ![t].phase = IF Len(buffer') >= BatchSize THEN "full" ELSE "on"]
    /\ UNCHANGED <<log, writing, dbVars, imp, imported, cut>>

\* flush_buffer, by the task that found the buffer full, by the timer or at
\* shutdown: "Release lock before database operation".
Drain(w) ==
    /\ writing[w] = <<>>
    /\ IF w = Timer THEN buffer # <<>> ELSE tracker[w].phase = "full"
    /\ writing' = [writing EXCEPT ![w] = buffer]
    /\ buffer' = <<>>
    /\ tracker' = [t \in Trackers |->
                     IF t = w THEN [tracker[t] EXCEPT !.phase = IF buffer = <<>> THEN "on" ELSE "writing"] ELSE tracker[t]]
    /\ UNCHANGED <<log, dbVars, imp, imported, cut>>

\* The batch is in the database, or "Failed to persist": it is gone.
Write(w) ==
    /\ writing[w] # <<>>
    /\ writing' = [writing EXCEPT ![w] = <<>>]
    /\ stored' \in {Written(writing[w], stored), stored}
    /\ tracker' = [t \in Trackers |-> IF t = w THEN [tracker[t] EXCEPT !.phase = "on"] ELSE tracker[t]]
    /\ UNCHANGED <<log, buffer, convs, imp, imported, cut>>

\* "Conversation might have ended"
End(t) ==
    /\ tracker[t].phase = "on" /\ tracker[t].pending = {}
    /\ tracker' = [tracker EXCEPT ![t] = Over]
    /\ UNCHANGED <<log, buffer, writing, dbVars, imp, imported, cut>>

-----------------------------------------------------------------------------
(* import_session                                                              *)

Step(phase) == imp' = [imp EXCEPT !.phase = phase]

\* The import ends well.
Done ==
    /\ imp' = NoImport
    /\ imported' = imp.turns

\* "Stat the file for mtime + size"
Stat ==
    /\ imp.phase = "none"
    /\ imp' = [NoImport EXCEPT !.phase = "stat", !.stamp = Stamp(log), !.turns = log.turns]
    /\ UNCHANGED <<log, tracker, buffer, writing, dbVars, imported, cut>>

\* "Check if this conversation already exists": of several the index yields the
\* oldest.
Miss ==
    /\ imp.phase = "stat"
    /\ convs = <<>>
    /\ Step("new")
    /\ UNCHANGED <<log, tracker, buffer, writing, dbVars, imported, cut>>

\* "File unchanged and import version is current, skip"
Skip ==
    /\ imp.phase = "stat"
    /\ convs # <<>> /\ Head(convs) = imp.stamp
    /\ Done
    /\ UNCHANGED <<log, tracker, buffer, writing, dbVars, cut>>

\* "Re-import needed: file changed or import version outdated"
Hit ==
    /\ imp.phase = "stat"
    /\ convs # <<>> /\ Head(convs) # imp.stamp
    /\ imp' = [imp EXCEPT !.phase = "stale", !.conv = 1]
    /\ UNCHANGED <<log, tracker, buffer, writing, dbVars, imported, cut>>

\* "Delete old entries"
DeleteEntries ==
    /\ imp.phase = "stale"
    /\ Step("deleted")
    /\ LET kept == {t \in DOMAIN stored : stored[t].conv # imp.conv}
       IN  stored' = [t \in kept |-> stored[t]]
    /\ imported' = 0
    /\ UNCHANGED <<log, tracker, buffer, writing, convs, cut>>

\* load_conversation
Load ==
    /\ imp.phase \in {"new", "deleted"}
    /\ imp' = [imp EXCEPT !.phase = IF imp.phase = "new" THEN "loaded" ELSE "reloaded", !.read = log]
    /\ UNCHANGED <<log, tracker, buffer, writing, dbVars, imported, cut>>

\* "Save to database": with the stamp, before the entries.
CreateConversation ==
    /\ imp.phase = "loaded"
    /\ Len(convs) < MaxConvs
    /\ convs' = Append(convs, imp.stamp)
    /\ imp' = [imp EXCEPT !.phase = "created", !.conv = Len(convs) + 1]
    /\ UNCHANGED <<log, tracker, buffer, writing, stored, imported, cut>>

\* "Add all entries"
Fill ==
    /\ imp.phase = "created"
    /\ stored' = Written(AllOf(imp.read, imp.conv), stored)
    /\ Done
    /\ UNCHANGED <<log, tracker, buffer, writing, convs, cut>>

\* "Re-read and re-insert entries"
Refill ==
    /\ imp.phase = "reloaded"
    /\ stored' = Written(AllOf(imp.read, imp.conv), stored)
    /\ Step("refilled")
    /\ UNCHANGED <<log, tracker, buffer, writing, convs, imported, cut>>

\* Fault: the stamp is taken when it is recorded.
NewStamp_Late == Stamp(log)

NewStamp == imp.stamp

\* update_conversation_file_metadata: of every conversation of the session.
Record ==
    /\ imp.phase = "refilled"
    /\ convs' = [c \in DOMAIN convs |-> NewStamp]
    /\ Done
    /\ UNCHANGED <<log, tracker, buffer, writing, stored, cut>>

\* A statement fails: the session counts as failed, the rest goes on.
Abort ==
    /\ imp.phase # "none"
    /\ cut' = (cut \/ imp.phase = "created")
    /\ imp' = NoImport
    /\ UNCHANGED <<log, tracker, buffer, writing, dbVars, imported>>

-----------------------------------------------------------------------------

\* The server stops and starts again: only the log and the database remain.
Crash ==
    /\ cut' = (cut \/ imp.phase = "created")
    /\ imp' = NoImport
    /\ tracker' = [t \in Trackers |-> IF tracker[t].phase = "none" THEN Untracked ELSE Over]
    /\ buffer' = <<>>
    /\ writing' = [w \in Writers |-> <<>>]
    /\ UNCHANGED <<log, dbVars, imported>>

HistoryNext ==
    \/ LogTurn \/ LogAnswer
    \/ \E t \in Trackers : Track(t) \/ Poll(t) \/ Push(t) \/ End(t)
    \/ \E w \in Writers : Drain(w) \/ Write(w)
    \/ Stat \/ Miss \/ Skip \/ Hit \/ DeleteEntries \/ Load
    \/ CreateConversation \/ Fill \/ Refill \/ Record \/ Abort
    \/ Crash

HistorySpec == HistoryInit /\ [][HistoryNext]_historyVars

-----------------------------------------------------------------------------
(* Properties.                                                                 *)

Rows == [answered : BOOLEAN, conv : 1..MaxConvs]
Convs == 0..MaxConvs

HistoryTypeOK ==
    /\ log \in Logs
    /\ tracker \in [Trackers -> [phase : {"none", "on", "full", "writing", "ended"}, conv : Convs,
                                 polled : Logs, pending : SUBSET Entries]]
    /\ buffer \in Seq(Entries)
    /\ writing \in [Writers -> Seq(Entries)]
    /\ convs \in Seq(0..(2 * MaxTurns) \cup {NoStamp}) /\ Len(convs) <= MaxConvs
    /\ DOMAIN stored \subseteq Turns /\ \A t \in DOMAIN stored : stored[t] \in Rows
    /\ imp \in [phase : {"none", "stat", "new", "stale", "deleted", "loaded", "reloaded", "created", "refilled"},
                stamp : 0..(2 * MaxTurns), turns : 0..MaxTurns, conv : Convs, read : Logs]
    /\ imported \in 0..MaxTurns
    /\ cut \in BOOLEAN

\* What an import that ended well found in the log is in the database, and
\* stays there until the next import replaces it: whatever a tracker lost with
\* its buffer, wherever an earlier import or the server stopped, and whatever is
\* logged and tracked meanwhile.  One stop or failure is excepted: between creating
\* a conversation, stamp included, and filling it.
EveryTurnStored == ~cut => 1..imported \subseteq DOMAIN stored

\* The exception is needed: it fails.
EveryTurnAlwaysStored == 1..imported \subseteq DOMAIN stored

\* What is stored of a turn is what the import read: it fails, for a tracker
\* may write an older version of it first.
AnswersAreStored ==
    imp.phase = "refilled" => \A t \in 1..imp.read.turns : stored[t].answered = Version(imp.read, t)
=============================================================================
