---------------------------- MODULE Conversation ----------------------------
(* The turns of one instance's conversation on their way through the server:   *)
(* Claude's log, the watcher that polls it and merges late tool results        *)
(* (ws/conversation_watcher.rs, ws/merging_watcher.rs), the channel to the     *)
(* actor, the driver's copy, and what the driver broadcasts                    *)
(* (claude_driver.rs).                                                         *)
EXTENDS Naturals, Sequences, FiniteSets

CONSTANTS
    Tools,       \* tool uses of a turn
    SignalCap,   \* capacity of the channel to the actor (100)
    MaxTurns,    \* bound: turns Claude writes
    MaxEntries   \* bound: entries Claude writes

ASSUME CapAssumption == SignalCap \in Nat \ {0}
ASSUME BoundAssumption == MaxTurns \in Nat /\ MaxEntries \in Nat

VARIABLES
    log,      \* the entries Claude has written
    read,     \* how many of them the watcher has seen
    polled,   \* TRUE once the watcher has polled for the first time
    turns,    \* the watcher's conversation_turns
    out,      \* the message the watcher is sending, as a sequence of at most one
    signals,  \* messages in the channel to the actor
    driver,   \* the driver's conversation_turns
    events    \* everything the driver has broadcast

serverVars == <<log, read, polled, turns, out, signals, driver, events>>

Turn == [id : Nat, results : SUBSET Tools]
Messages == [kind : {"snapshot", "delta"}, turns : Seq(Turn)]
Events == [kind : {"full", "update"}, turns : Seq(Turn)]
TurnEntry(n) == [kind |-> "turn", id |-> n, tool |-> {}]
ResultEntry(n, t) == [kind |-> "result", id |-> n, tool |-> {t}]
Entry == [kind : {"turn", "result"}, id : 1..MaxTurns, tool : SUBSET Tools]

ServerInit ==
    /\ log = <<>>
    /\ read = 0
    /\ polled = FALSE
    /\ turns = <<>>
    /\ out = <<>>
    /\ signals = <<>>
    /\ driver = <<>>
    /\ events = <<>>

-----------------------------------------------------------------------------
(* Claude: turns are numbered as they are written; a result follows the turn  *)
(* that uses the tool, once.                                                   *)

Written == {log[i] : i \in DOMAIN log}

Write(e) ==
    /\ Len(log) < MaxEntries
    /\ e \notin Written
    /\ log' = Append(log, e)
    /\ UNCHANGED <<read, polled, turns, out, signals, driver, events>>

WriteTurn ==
    \E n \in 1..MaxTurns :
        /\ \A k \in 1..MaxTurns : TurnEntry(k) \in Written <=> k < n
        /\ Write(TurnEntry(n))

WriteResult ==
    \E n \in 1..MaxTurns, t \in Tools :
        TurnEntry(n) \in Written /\ Write(ResultEntry(n, t))

-----------------------------------------------------------------------------
(* The watcher.                                                                *)

\* What a poll returns: the entries not seen yet.
Unseen == {log[i] : i \in read + 1..Len(log)}

\* The results for turn n in this poll, merged into the turn wherever it is:
\* among the events of this poll (merge_into_batch) or among emitted_turns.
Results(n) == {t \in Tools : ResultEntry(n, t) \in Unseen}

\* The turns a poll finds, each with the results found with it.
Found == {n \in 1..MaxTurns : TurnEntry(n) \in Unseen}

NewTurns ==
    [i \in 1..Cardinality(Found) |->
        [id |-> Len(turns) + i, results |-> Results(Len(turns) + i)]]

\* TurnUpdated: a result for a turn of an earlier poll.
HadUpdate == \E i \in DOMAIN turns : Results(turns[i].id) # {}

\* Fault: a result for a turn already emitted is lost.
UpdatedTurns_Unmerged == turns

UpdatedTurns == [i \in DOMAIN turns |-> [turns[i] EXCEPT !.results = @ \cup Results(turns[i].id)]]

\* Fault: a late result is only ever sent with the turns that follow it.
Message_DeltaOnly == <<[kind |-> "delta", turns |-> NewTurns]>>

\* conversation_turns after the poll.
NextTurns == UpdatedTurns \o NewTurns

\* What the poll tells the driver.
Message ==
    IF HadUpdate THEN <<[kind |-> "snapshot", turns |-> NextTurns]>>
    ELSE IF NewTurns # <<>> THEN <<[kind |-> "delta", turns |-> NewTurns]>>
    ELSE <<>>

\* "Initial poll": always a snapshot, of all there is.
InitialPoll ==
    /\ ~polled
    /\ polled' = TRUE
    /\ read' = Len(log)
    /\ turns' = NewTurns
    /\ out' = <<[kind |-> "snapshot", turns |-> NewTurns]>>
    /\ UNCHANGED <<log, signals, driver, events>>

\* "Initial poll failed": nothing is sent, and the entries are found later.
InitialPollFails ==
    /\ ~polled
    /\ polled' = TRUE
    /\ UNCHANGED <<log, read, turns, out, signals, driver, events>>

\* A tick of the poll loop that finds entries.
Poll ==
    /\ polled
    /\ out = <<>>
    /\ read < Len(log)
    /\ read' = Len(log)
    /\ turns' = NextTurns
    /\ out' = Message
    /\ UNCHANGED <<log, polled, signals, driver, events>>

\* driver_tx.send, which waits while the channel is full.
SendSignal ==
    /\ out # <<>>
    /\ Len(signals) < SignalCap
    /\ signals' = signals \o out
    /\ out' = <<>>
    /\ UNCHANGED <<log, read, polled, turns, driver, events>>

-----------------------------------------------------------------------------
(* The actor and its driver.                                                   *)

\* Fault: a snapshot is taken for a delta.
Applied_Extended(d, m) == d \o m.turns

\* conversation_turns of the driver after message m.
Applied(d, m) == IF m.kind = "snapshot" THEN m.turns ELSE d \o m.turns

Event(m) == [kind |-> IF m.kind = "snapshot" THEN "full" ELSE "update", turns |-> m.turns]

\* on_signal: the driver's copy and the broadcast change together.
TakeSignal ==
    /\ signals # <<>>
    /\ signals' = Tail(signals)
    /\ driver' = Applied(driver, Head(signals))
    /\ events' = Append(events, Event(Head(signals)))
    /\ UNCHANGED <<log, read, polled, turns, out>>

ServerNext ==
    \/ WriteTurn \/ WriteResult
    \/ InitialPoll \/ InitialPollFails \/ Poll \/ SendSignal \/ TakeSignal

ServerSpec == ServerInit /\ [][ServerNext]_serverVars

-----------------------------------------------------------------------------
(* Properties.                                                                 *)

ServerTypeOK ==
    /\ log \in Seq(Entry)
    /\ read \in 0..Len(log)
    /\ polled \in BOOLEAN
    /\ turns \in Seq(Turn)
    /\ out \in Seq(Messages) /\ Len(out) <= 1
    /\ signals \in Seq(Messages) /\ Len(signals) <= SignalCap
    /\ driver \in Seq(Turn)
    /\ events \in Seq(Events)

\* The entries the watcher has read.
Seen == {log[i] : i \in 1..read}

\* However Claude's entries are split over polls, the watcher's turns are what one
\* poll of them all gives: every turn in its place, with every result, although a
\* result may arrive polls after its turn has been sent.
AsReadAtOnce ==
    /\ DOMAIN turns = {n \in 1..MaxTurns : TurnEntry(n) \in Seen}
    /\ \A n \in DOMAIN turns :
        turns[n] = [id |-> n, results |-> {t \in Tools : ResultEntry(n, t) \in Seen}]

DriverCopy == INSTANCE LaggingCopy WITH source <- turns, copy <- driver, MayForget <- FALSE

\* The driver's copy is late, but never wrong: whatever mixture of snapshots and
\* deltas it was built from, it is an earlier state of the watcher's copy, and
\* it never loses what it has.
DriverFollows == DriverCopy!Spec
=============================================================================
