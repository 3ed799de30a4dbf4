--------------------------- MODULE StateInference ---------------------------
(* How the server tells whether Claude works or waits: the conversation       *)
(* watcher polls the JSONL log and turns batches of entries into signals      *)
(* (ws/conversation_watcher.rs, ws/merging_watcher.rs), a bounded channel     *)
(* carries them to the instance actor, and there the driver feeds them, and   *)
(* every chunk of terminal output, to the state manager                       *)
(* (claude_driver.rs, inference/manager.rs) and publishes changes             *)
(* (instance_actor.rs).                                                       *)
(*                                                                            *)
(* Claude is external: it prints what it likes when it likes, and writes the  *)
(* log in the order docs/claude-jsonl-protocol.md describes.  An entry is its *)
(* kind; an assistant entry uses at most one tool, "tool" standing for those  *)
(* that run by themselves and "ask" for those that wait for the user.         *)
EXTENDS Naturals, Sequences

CONSTANTS
    Tools,        \* the tools whose pattern the terminal may show
    ChannelCap,   \* mpsc::channel(100) from the watcher to the actor
    MaxEntries,   \* bound: log entries Claude writes
    MaxChunks     \* bound: chunks of terminal output

Quiet == {"Initializing", "Starting", "Idle", "WaitingForInput"}
None == "none"

ASSUME ToolsAssumption ==
    Tools \cap (Quiet \cup {"Thinking", "Responding", "Working", None}) = {}
ASSUME CapAssumption == ChannelCap \in Nat /\ MaxEntries \in Nat /\ MaxChunks \in Nat

VARIABLES
    claude,      \* external: prompt, generating, tool (one is running), asking
    last,        \* external: the last entry of the log that is no progress entry
    file,        \* entries of the log the watcher has not read
    watching,    \* FALSE until a session is discovered
    unanswered,  \* what the pending_tool_uses of the MergingWatcher wait for
    held,        \* held_text_only
    batch,       \* events of the last poll that are still to be signalled
    signals,     \* the channel from the watcher to the actor
    state,       \* the state manager's state; a tool's name is ToolExecuting
    definitive,  \* definitive_idle
    process,     \* the driver's current_state
    published,   \* claude_state of InstanceInfo, as last broadcast
    written, printed    \* counters for the bounds

claudeVars == <<claude, last, written>>
watcherVars == <<watching, unanswered, held>>
actorVars == <<state, definitive, process, published>>
vars == <<claudeVars, file, watcherVars, batch, signals, actorVars, printed>>

Entry == {"user", "text", "tool", "ask", "result", "progress", "turn_duration"}
Signal == (Entry \ {"result"}) \cup {"tool_result"}
Event == Signal \cup {"merged", "released"}
ClaudeState == Quiet \cup {"Thinking", "Responding"} \cup Tools

Init ==
    /\ claude = "prompt" /\ last = None /\ written = 0
    /\ file = <<>>
    /\ watching = FALSE /\ unanswered = None /\ held = FALSE
    /\ batch = <<>> /\ signals = <<>>
    /\ state = "Initializing" /\ definitive = FALSE
    /\ process = "Initializing" /\ published = "Initializing"
    /\ printed = 0

-----------------------------------------------------------------------------
(* Claude writes its log. *)

Write(from, entry, to) ==
    /\ written < MaxEntries
    /\ claude \in from
    /\ written' = written + 1
    /\ file' = Append(file, entry)
    /\ last' = IF entry = "progress" THEN last ELSE entry
    /\ claude' = to
    /\ UNCHANGED <<watcherVars, batch, signals, actorVars, printed>>

Prompt == Write({"prompt"}, "user", "generating")
Say == Write({"generating"}, "text", "generating")
UseTool == Write({"generating"}, "tool", "tool")
Ask == Write({"generating"}, "ask", "asking")
Report == Write({"tool", "asking"}, "progress", claude)
Result == Write({"tool", "asking"}, "result", "generating")

\* The turn ends with the text just written; turn_duration may follow or not.
EndTurn ==
    /\ claude = "generating" /\ last = "text"
    /\ claude' = "prompt"
    /\ UNCHANGED <<last, written, file, watcherVars, batch, signals, actorVars, printed>>

RecordDuration == last = "text" /\ Write({"prompt"}, "turn_duration", "prompt")

-----------------------------------------------------------------------------
(* The watcher. *)

\* A tool result whose tool use is in the same poll is merged into that turn
\* and makes no event: MergingWatcher::merge_into_batch.
Merged(entries, i) ==
    entries[i] = "result" /\ \E j \in 1..(i - 1) : entries[j] \in {"tool", "ask"}

\* Fault: a late result is passed on under its own name.
EventAt_Raw(entries, i) == IF Merged(entries, i) THEN "merged" ELSE entries[i]

\* What poll and watcher_event_to_driver_signal make of an entry: a late result
\* updates a turn of an earlier poll, and counts as the user's answer if that
\* turn has an interactive tool.
EventAt(entries, i) ==
    IF Merged(entries, i) THEN "merged"
    ELSE IF entries[i] # "result" THEN entries[i]
    ELSE IF unanswered = "ask" THEN "user" ELSE "tool_result"

\* Fault: the events of turns that are updated come after those of new turns.
Events_UpdatesLast(entries) ==
    LET late(i) == entries[i] = "result"
        at == SelectSeq([i \in 1..Len(entries) |-> i], LAMBDA i : ~late(i))
              \o SelectSeq([i \in 1..Len(entries) |-> i], late)
    IN  [k \in 1..Len(entries) |-> EventAt(entries, at[k])]

Events(entries) == [i \in 1..Len(entries) |-> EventAt(entries, i)]

\* is_substantive_event
Substantive == {"user", "text", "tool", "ask", "tool_result"}
AnySubstantive(events) == \E i \in 1..Len(events) : events[i] \in Substantive

\* pending_tool_uses after a poll: the last tool use, if no result follows it.
ToolEntry == {"tool", "ask", "result"}
Unanswered(entries) ==
    LET final == {i \in 1..Len(entries) : entries[i] \in ToolEntry
                       /\ \A j \in (i + 1)..Len(entries) : entries[j] \notin ToolEntry}
        i == CHOOSE i \in final : TRUE
    IN  IF final = {} THEN unanswered
        ELSE IF entries[i] = "result" THEN None ELSE entries[i]

\* The first poll signals its last event only, and a text at once.
LastOnly(events) ==
    LET final == {i \in 1..Len(events) : events[i] # "merged"
                       /\ \A j \in (i + 1)..Len(events) : events[j] = "merged"}
        i == CHOOSE i \in final : TRUE
    IN  IF final = {} THEN <<>>
        ELSE <<IF events[i] = "text" THEN "released" ELSE events[i]>>

\* A session is discovered and read for the first time.
InitialPoll ==
    /\ ~watching
    /\ watching' = TRUE
    /\ batch' = LastOnly(Events(file))
    /\ unanswered' = Unanswered(file)
    /\ file' = <<>>
    /\ UNCHANGED <<claudeVars, held, signals, actorVars, printed>>

\* Fault: an empty poll does not release the text it was to release.
Released_Never(events) == <<>>

\* What becomes of a held text: dropped if the poll brings a substantive event,
\* else sent, before the poll's own signals.
Released(events) == IF held /\ ~AnySubstantive(events) THEN <<"released">> ELSE <<>>

\* One tick of the poll loop, once all of the last one is sent.
Poll ==
    /\ watching
    /\ batch = <<>>
    /\ batch' = Released(Events(file)) \o Events(file)
    /\ held' = FALSE
    /\ unanswered' = Unanswered(file)
    /\ file' = <<>>
    /\ UNCHANGED <<claudeVars, watching, signals, actorVars, printed>>

\* The loop over the events: a merged result is none, a text is skipped if a
\* substantive event follows in the batch and held if not, ...
Skip ==
    /\ batch # <<>>
    /\ Head(batch) \in {"merged", "text"}
    /\ held' = (held \/ (Head(batch) = "text" /\ ~AnySubstantive(Tail(batch))))
    /\ batch' = Tail(batch)
    /\ UNCHANGED <<claudeVars, file, watching, unanswered, signals, actorVars, printed>>

\* ... and all else is sent, when the channel has room.
Send ==
    /\ batch # <<>>
    /\ Head(batch) \notin {"merged", "text"}
    /\ Len(signals) < ChannelCap
    /\ signals' = Append(signals, IF Head(batch) = "released" THEN "text" ELSE Head(batch))
    /\ batch' = Tail(batch)
    /\ UNCHANGED <<claudeVars, file, watcherVars, actorVars, printed>>

-----------------------------------------------------------------------------
(* The instance actor: driver and state manager. *)

\* ClaudeDriver::map_state
MapState(s) == IF s \in {"Thinking", "Responding"} THEN "Working" ELSE s

\* Fault: the driver does not keep the state it compares with.
Publish_NotKept(s, d, returned) ==
    /\ state' = s /\ definitive' = d
    /\ published' = IF returned /\ MapState(s) # process THEN s ELSE published
    /\ UNCHANGED process

\* The manager's new state s and flag d; apply_state_change and broadcast_state
\* run if process returned a state and its coarser form is new.  Nothing else
\* sets current_claude_state, so what is published is s.
Publish(s, d, returned) ==
    /\ state' = s /\ definitive' = d
    /\ IF returned /\ MapState(s) # process
       THEN process' = MapState(s) /\ published' = s
       ELSE UNCHANGED <<process, published>>

\* Any entry but turn_duration shows that Claude is up.
Booted(s) == IF s \in {"Initializing", "Starting"} THEN "Idle" ELSE s

\* Fault: a late text turns a definitive idle into a tentative one.
OnEntry_Downgrades(signal) ==
    CASE signal = "turn_duration" -> Publish("WaitingForInput", TRUE, TRUE)
      [] signal = "user" -> Publish("Thinking", FALSE, state # "Thinking")
      [] signal = "tool_result" /\ ~definitive /\ Booted(state) \in {"Idle", "WaitingForInput"}
            -> Publish("Thinking", FALSE, TRUE)
      [] signal \in {"text", "ask"}
            -> Publish("WaitingForInput", FALSE, state # "WaitingForInput")
      [] OTHER -> Publish(Booted(state), definitive, Booted(state) # state)

\* StateManager::process for a conversation entry.
OnEntry(signal) ==
    CASE signal = "turn_duration" -> Publish("WaitingForInput", TRUE, TRUE)
      [] signal = "user" -> Publish("Thinking", FALSE, state # "Thinking")
      [] signal = "tool_result" /\ ~definitive /\ Booted(state) \in {"Idle", "WaitingForInput"}
            -> Publish("Thinking", FALSE, TRUE)
      [] signal \in {"text", "ask"} /\ ~definitive
            -> Publish("WaitingForInput", FALSE, state # "WaitingForInput")
      [] OTHER -> Publish(Booted(state), definitive, Booted(state) # state)

TakeSignal ==
    /\ signals # <<>>
    /\ signals' = Tail(signals)
    /\ OnEntry(Head(signals))
    /\ UNCHANGED <<claudeVars, file, watcherVars, batch, printed>>

\* The boot phase: the first byte, then the banner.
Boot(banner) ==
    IF state \in {"Initializing", "Starting"}
    THEN IF banner THEN "Idle" ELSE "Starting"
    ELSE state

\* StateManager::process for a chunk of output that may show the banner and the
\* pattern of a tool (the first that matches, if several do).
OnOutput(banner, tool) ==
    LET s == Boot(banner)
        sticky == s = "WaitingForInput" /\ definitive
        new == CASE sticky -> s
                 [] ~sticky /\ tool # None -> tool
                 [] ~sticky /\ tool = None /\ s = "Thinking" -> "Responding"
                 [] OTHER -> s
    IN  Publish(new, definitive /\ (sticky \/ tool = None), new # state)

Output ==
    /\ printed < MaxChunks
    /\ printed' = printed + 1
    /\ \E banner \in BOOLEAN, tool \in Tools \cup {None} : OnOutput(banner, tool)
    /\ UNCHANGED <<claudeVars, file, watcherVars, batch, signals>>

-----------------------------------------------------------------------------
Claude == Prompt \/ Say \/ UseTool \/ Ask \/ Report \/ Result \/ EndTurn \/ RecordDuration

Next == Claude \/ InitialPoll \/ Poll \/ Skip \/ Send \/ TakeSignal \/ Output

Spec == Init /\ [][Next]_vars

\* The watcher's interval ticks, and the actor's select! comes to its channel.
\* Claude and the terminal owe nothing.
FairSpec ==
    /\ Spec
    /\ WF_vars(InitialPoll) /\ WF_vars(Poll) /\ WF_vars(Skip) /\ WF_vars(Send)
    /\ WF_vars(TakeSignal)

-----------------------------------------------------------------------------
TypeOK ==
    /\ claude \in {"prompt", "generating", "tool", "asking"}
    /\ last \in (Entry \ {"progress"}) \cup {None}
    /\ written \in Nat /\ printed \in Nat
    /\ file \in Seq(Entry)
    /\ watching \in BOOLEAN /\ held \in BOOLEAN
    /\ unanswered \in {"tool", "ask", None}
    /\ batch \in Seq(Event)
    /\ signals \in Seq(Signal)
    /\ state \in ClaudeState
    /\ definitive \in BOOLEAN
    /\ process \in Quiet \cup {"Working"} \cup Tools
    /\ published \in ClaudeState

\* What clients see is never behind what the manager knows, up to the one
\* distinction (Thinking or Responding) that is not published: two caches, the
\* driver's and InstanceInfo's, are kept on every path.
PublishedCurrent ==
    /\ process = MapState(state)
    /\ process = MapState(published)

\* Once turn_duration ended a turn, only the user's next message or answer ends
\* the wait: no output, no late entry.
DefinitiveIdleSticks ==
    [][definitive /\ (~definitive' \/ state' # "WaitingForInput")
        => /\ signals # <<>> /\ Head(signals) = "user"
           /\ signals' = Tail(signals)]_vars

\* Everything Claude wrote is read, signalled and processed, but for a held text.
CaughtUp == watching /\ file = <<>> /\ batch = <<>> /\ signals = <<>>

\* When all of a log that ends in turn_duration is processed, Claude is known to
\* wait, whatever was held, merged or printed on the way.
DurationIsFinal ==
    CaughtUp /\ last = "turn_duration" => state = "WaitingForInput" /\ definitive

\* A turn that ended is in the end shown as waiting for good.  Without
\* turn_duration the pattern of a tool, printed late, still undoes it.
TurnEndIsShown ==
    <>[](claude = "prompt" /\ last # None) =>
        <>[](\/ published = "WaitingForInput"
             \/ published \in Tools /\ last # "turn_duration")

\* When Claude goes on after a text it wrote in the middle of a turn, it has not
\* been shown as waiting in the meantime.
NoGreenFlash ==
    [][CaughtUp /\ claude = "generating" /\ last = "text" /\ file' # file
        => published # "WaitingForInput"]_vars

\* Once the user's answer to a question is processed, Claude is not shown as
\* waiting for it.
AnswerEndsWait ==
    CaughtUp /\ claude = "generating" /\ last = "result"
        => published # "WaitingForInput"

\* A client sees when Claude starts to respond.
RespondingIsShown == state = "Responding" => published = "Responding"
=============================================================================
