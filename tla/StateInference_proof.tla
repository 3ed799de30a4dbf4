------------------------ MODULE StateInference_proof ------------------------
(* State inference for any tools, any channel capacity and any run of Claude. *)
EXTENDS StateInference, TLAPS

USE ToolsAssumption, CapAssumption DEF None

-----------------------------------------------------------------------------
(* Types. *)

\* The events of a poll, and what the first poll and a held text make of them.
LEMMA EventsType ==
    ASSUME TypeOK
    PROVE  /\ Events(file) \in Seq(Event)
           /\ Len(Events(file)) = Len(file)
           /\ LastOnly(Events(file)) \in Seq(Event)
           /\ Released(Events(file)) \in Seq(Event)
           /\ Unanswered(file) \in {"tool", "ask", None}
<1>1. file \in Seq(Entry) /\ unanswered \in {"tool", "ask", None} /\ Len(file) \in Nat
  BY DEF TypeOK
<1>2. \A i \in 1..Len(file) : EventAt(file, i) \in Event
  BY <1>1 DEF EventAt, Event, Signal, Entry
<1>3. Events(file) \in [1..Len(file) -> Event]
  BY <1>2 DEF Events
<1>4. Events(file) \in Seq(Event) /\ Len(Events(file)) = Len(file)
  BY <1>1, <1>3
<1>5. LastOnly(Events(file)) \in Seq(Event)
  <2> DEFINE E == Events(file)
             final == {i \in 1..Len(E) : E[i] # "merged"
                         /\ \A j \in (i + 1)..Len(E) : E[j] = "merged"}
             i == CHOOSE i \in final : TRUE
  <2>1. CASE final = {}
    BY <2>1 DEF LastOnly
  <2>2. CASE final # {}
    <3>1. i \in final
      BY <2>2
    <3>2. E[i] \in Event
      BY <3>1, <1>4
    <3>3. (IF E[i] = "text" THEN "released" ELSE E[i]) \in Event
      BY <3>2 DEF Event
    <3>4. LastOnly(E) = <<IF E[i] = "text" THEN "released" ELSE E[i]>>
      BY <2>2, Zenon DEF LastOnly
    <3> QED
      BY <3>3, <3>4
  <2> QED
    BY <2>1, <2>2
<1>6. Released(Events(file)) \in Seq(Event)
  <2>1. <<"released">> \in Seq(Event)
    BY DEF Event
  <2> QED
    BY <2>1 DEF Released
<1>7. Unanswered(file) \in {"tool", "ask", None}
  <2> DEFINE final == {i \in 1..Len(file) : file[i] \in ToolEntry
                         /\ \A j \in (i + 1)..Len(file) : file[j] \notin ToolEntry}
             top == CHOOSE i \in final : TRUE
  <2>1. CASE final = {}
    BY <2>1, <1>1 DEF Unanswered
  <2>2. CASE final # {}
    <3>1. Unanswered(file) = IF file[top] = "result" THEN None ELSE file[top]
      BY <2>2, Zenon DEF Unanswered
    <3>2. top \in final
      BY <2>2
    <3>3. file[top] \in ToolEntry
      BY <3>2
    <3> QED
      BY <3>1, <3>3 DEF ToolEntry
  <2> QED
    BY <2>1, <2>2
<1> QED
  BY <1>4, <1>5, <1>6, <1>7

\* What publishing does, from a state the caches agree with.
LEMMA PublishKeeps ==
    ASSUME NEW s \in ClaudeState, NEW d \in BOOLEAN, NEW returned \in BOOLEAN,
           TypeOK, PublishedCurrent, Publish(s, d, returned),
           returned \/ MapState(s) = MapState(state)
    PROVE  /\ state' = s /\ definitive' = d
           /\ process' \in Quiet \cup {"Working"} \cup Tools
           /\ published' \in ClaudeState
           /\ PublishedCurrent'
<1>1. MapState(s) \in Quiet \cup {"Working"} \cup Tools
  BY DEF MapState, ClaudeState
<1>2. CASE returned /\ MapState(s) # process
  BY <1>1, <1>2 DEF Publish, PublishedCurrent, MapState
<1>3. CASE ~(returned /\ MapState(s) # process)
  BY <1>1, <1>3 DEF Publish, PublishedCurrent, TypeOK, MapState
<1> QED
  BY <1>2, <1>3

\* The invariant about the actor: a definitive idle is a wait, and the caches
\* agree with the manager.
ActorInv ==
    /\ definitive => state = "WaitingForInput"
    /\ PublishedCurrent

\* What an entry does: types and ActorInv are kept, turn_duration makes the wait
\* definitive, and no entry but the user's ends a definitive wait.
LEMMA EntryKeeps ==
    ASSUME TypeOK, ActorInv, NEW signal \in Signal, OnEntry(signal)
    PROVE  /\ state' \in ClaudeState /\ definitive' \in BOOLEAN
           /\ process' \in Quiet \cup {"Working"} \cup Tools /\ published' \in ClaudeState
           /\ ActorInv'
           /\ signal = "turn_duration" => definitive'
           /\ definitive /\ signal # "user" => definitive'
<1>1. Booted(state) \in ClaudeState
  BY DEF Booted, TypeOK, ClaudeState, Quiet
<1>2. "WaitingForInput" \in ClaudeState /\ "Thinking" \in ClaudeState
  BY DEF ClaudeState, Quiet
<1>3. PICK s \in ClaudeState, d \in BOOLEAN, r \in BOOLEAN :
        /\ Publish(s, d, r)
        /\ r \/ s = state
        /\ d => s = "WaitingForInput"
        /\ signal = "turn_duration" => d
        /\ definitive /\ signal # "user" => d
  <2>1. CASE signal = "turn_duration"
    <3>1. Publish("WaitingForInput", TRUE, TRUE)
      BY <2>1 DEF OnEntry
    <3> QED
      BY <3>1, <1>2, <2>1
  <2>2. CASE signal = "user"
    <3>1. Publish("Thinking", FALSE, state # "Thinking")
      BY <2>2 DEF OnEntry
    <3> QED
      BY <3>1, <1>2, <2>2
  <2>3. CASE signal = "tool_result" /\ ~definitive /\ Booted(state) \in {"Idle", "WaitingForInput"}
    <3>1. Publish("Thinking", FALSE, TRUE)
      BY <2>3 DEF OnEntry
    <3> QED
      BY <3>1, <1>2, <2>3
  <2>4. CASE signal \in {"text", "ask"} /\ ~definitive
    <3>1. Publish("WaitingForInput", FALSE, state # "WaitingForInput")
      BY <2>4 DEF OnEntry
    <3> QED
      BY <3>1, <1>2, <2>4
  <2>5. CASE /\ signal # "turn_duration" /\ signal # "user"
             /\ ~(signal = "tool_result" /\ ~definitive /\ Booted(state) \in {"Idle", "WaitingForInput"})
             /\ ~(signal \in {"text", "ask"} /\ ~definitive)
    <3>1. Publish(Booted(state), definitive, Booted(state) # state)
      BY <2>5 DEF OnEntry
    <3>2. definitive => Booted(state) = "WaitingForInput"
      BY DEF ActorInv, Booted
    <3>3. definitive \in BOOLEAN
      BY DEF TypeOK
    <3> QED
      BY <3>1, <3>2, <3>3, <1>1, <2>5
  <2> QED
    BY <2>1, <2>2, <2>3, <2>4, <2>5
<1>4. /\ state' = s /\ definitive' = d
      /\ process' \in Quiet \cup {"Working"} \cup Tools /\ published' \in ClaudeState
      /\ PublishedCurrent'
  BY <1>3, PublishKeeps DEF ActorInv
<1> QED
  BY <1>3, <1>4 DEF ActorInv

\* What output does: as an entry, but it never ends a definitive wait.
LEMMA OutputKeeps ==
    ASSUME TypeOK, ActorInv, NEW banner \in BOOLEAN, NEW tool \in Tools \cup {None},
           OnOutput(banner, tool)
    PROVE  /\ state' \in ClaudeState /\ definitive' \in BOOLEAN
           /\ process' \in Quiet \cup {"Working"} \cup Tools /\ published' \in ClaudeState
           /\ ActorInv'
           /\ definitive => definitive'
<1> DEFINE s == Boot(banner)
           sticky == s = "WaitingForInput" /\ definitive
           new == CASE sticky -> s
                    [] ~sticky /\ tool # None -> tool
                    [] ~sticky /\ tool = None /\ s = "Thinking" -> "Responding"
                    [] OTHER -> s
           flag == definitive /\ (sticky \/ tool = None)
<1>1. s \in ClaudeState
  BY DEF Boot, TypeOK, ClaudeState, Quiet
<1>2. definitive => s = "WaitingForInput"
  BY DEF ActorInv, Boot
<1>3. new \in ClaudeState
  <2>1. CASE sticky
    BY <2>1, <1>1
  <2>2. CASE ~sticky /\ tool # None
    BY <2>2 DEF ClaudeState
  <2>3. CASE ~sticky /\ tool = None
    BY <2>3, <1>1 DEF ClaudeState
  <2> QED
    BY <2>1, <2>2, <2>3
<1>4. flag \in BOOLEAN /\ (flag <=> definitive) /\ (flag => new = "WaitingForInput")
  BY <1>2 DEF TypeOK
<1>5. Publish(new, flag, new # state)
  BY DEF OnOutput
<1>6. (new # state) \in BOOLEAN
  OBVIOUS
<1> HIDE DEF new, flag
<1>7. /\ state' = new /\ definitive' = flag
      /\ process' \in Quiet \cup {"Working"} \cup Tools /\ published' \in ClaudeState
      /\ PublishedCurrent'
  BY <1>3, <1>4, <1>5, <1>6, PublishKeeps DEF ActorInv
<1> QED
  BY <1>3, <1>4, <1>7 DEF ActorInv
-----------------------------------------------------------------------------
(* The inductive invariant: types and the actor's part of it. *)

Inv == TypeOK /\ ActorInv

LEMMA InitInv == Init => Inv
<1> SUFFICES ASSUME Init PROVE Inv
  OBVIOUS
<1>1. file \in Seq(Entry) /\ batch \in Seq(Event) /\ signals \in Seq(Signal)
  BY DEF Init
<1>2. TypeOK
  BY <1>1 DEF Init, TypeOK, ClaudeState, Quiet
<1>3. ActorInv
  BY DEF Init, ActorInv, PublishedCurrent, MapState
<1> QED
  BY <1>2, <1>3 DEF Inv

\* Steps that write the log.
LEMMA WriteKeeps ==
    ASSUME Inv, NEW from, NEW entry \in Entry,
           NEW to \in {"prompt", "generating", "tool", "asking"}, Write(from, entry, to)
    PROVE  Inv'
<1>1. file' \in Seq(Entry) /\ written' \in Nat /\ last' \in (Entry \ {"progress"}) \cup {None}
  BY DEF Inv, TypeOK, Write
<1> QED
  BY <1>1 DEF Inv, TypeOK, ActorInv, PublishedCurrent, Write, watcherVars, actorVars

LEMMA ClaudeKeeps == ASSUME Inv, Claude PROVE Inv'
<1> USE WriteKeeps DEF Entry
<1>1. CASE Prompt
  BY <1>1 DEF Prompt
<1>2. CASE Say
  BY <1>2 DEF Say
<1>3. CASE UseTool
  BY <1>3 DEF UseTool
<1>4. CASE Ask
  BY <1>4 DEF Ask
<1>5. CASE Report
  BY <1>5 DEF Report, Inv, TypeOK
<1>6. CASE Result
  BY <1>6 DEF Result
<1>7. CASE EndTurn
  BY <1>7 DEF EndTurn, Inv, TypeOK, ActorInv, PublishedCurrent, watcherVars, actorVars
<1>8. CASE RecordDuration
  BY <1>8 DEF RecordDuration
<1> QED
  BY <1>1, <1>2, <1>3, <1>4, <1>5, <1>6, <1>7, <1>8 DEF Claude

LEMMA NextInv == Inv /\ [Next]_vars => Inv'
<1> SUFFICES ASSUME Inv, [Next]_vars PROVE Inv'
  OBVIOUS
<1>1. CASE Claude
  BY <1>1, ClaudeKeeps
<1>2. CASE InitialPoll
  <2>1. file' \in Seq(Entry) /\ batch' \in Seq(Event) /\ unanswered' \in {"tool", "ask", None}
    BY <1>2, EventsType DEF InitialPoll, Inv
  <2> QED
    BY <1>2, <2>1 DEF InitialPoll, Inv, TypeOK, ActorInv, PublishedCurrent, claudeVars, actorVars
<1>3. CASE Poll
  <2>1. file' \in Seq(Entry) /\ batch' \in Seq(Event) /\ unanswered' \in {"tool", "ask", None}
    BY <1>3, EventsType DEF Poll, Inv
  <2> QED
    BY <1>3, <2>1 DEF Poll, Inv, TypeOK, ActorInv, PublishedCurrent, claudeVars, actorVars
<1>4. CASE Skip
  <2>1. batch' \in Seq(Event) /\ held' \in BOOLEAN
    BY <1>4 DEF Skip, Inv, TypeOK
  <2> QED
    BY <1>4, <2>1 DEF Skip, Inv, TypeOK, ActorInv, PublishedCurrent, claudeVars, actorVars
<1>5. CASE Send
  <2>1. Head(batch) \in Event /\ Tail(batch) \in Seq(Event)
    BY <1>5 DEF Send, Inv, TypeOK
  <2>2. (IF Head(batch) = "released" THEN "text" ELSE Head(batch)) \in Signal
    BY <1>5, <2>1 DEF Send, Event, Signal, Entry
  <2>3. signals' \in Seq(Signal)
    BY <1>5, <2>2 DEF Send, Inv, TypeOK
  <2> QED
    BY <1>5, <2>1, <2>3 DEF Send, Inv, TypeOK, ActorInv, PublishedCurrent, claudeVars, watcherVars, actorVars
<1>6. CASE TakeSignal
  <2>1. Head(signals) \in Signal /\ Tail(signals) \in Seq(Signal)
    BY <1>6 DEF TakeSignal, Inv, TypeOK
  <2>2. /\ state' \in ClaudeState /\ definitive' \in BOOLEAN
        /\ process' \in Quiet \cup {"Working"} \cup Tools /\ published' \in ClaudeState
        /\ ActorInv'
    BY <1>6, <2>1, EntryKeeps DEF TakeSignal, Inv
  <2> QED
    BY <1>6, <2>1, <2>2 DEF TakeSignal, Inv, TypeOK, claudeVars, watcherVars
<1>7. CASE Output
  <2>1. PICK banner \in BOOLEAN, tool \in Tools \cup {None} : OnOutput(banner, tool)
    BY <1>7 DEF Output
  <2>2. /\ state' \in ClaudeState /\ definitive' \in BOOLEAN
        /\ process' \in Quiet \cup {"Working"} \cup Tools /\ published' \in ClaudeState
        /\ ActorInv'
    BY <2>1, OutputKeeps DEF Inv
  <2> QED
    BY <1>7, <2>2 DEF Output, Inv, TypeOK, claudeVars, watcherVars
<1>8. CASE UNCHANGED vars
  BY <1>8 DEF vars, claudeVars, watcherVars, actorVars, Inv, TypeOK, ActorInv, PublishedCurrent
<1> QED
  BY <1>1, <1>2, <1>3, <1>4, <1>5, <1>6, <1>7, <1>8 DEF Next

THEOREM InvCorrect == Spec => []Inv
BY InitInv, NextInv, PTL DEF Spec

\* All state keeps its type, for any tools and any capacity of the channel.
THEOREM TypeCorrect == Spec => []TypeOK
<1>1. Inv => TypeOK
  BY DEF Inv
<1> QED
  BY <1>1, InvCorrect, PTL

\* The driver's state and the published one never fall behind the manager's.
THEOREM PublishedCorrect == Spec => []PublishedCurrent
<1>1. Inv => PublishedCurrent
  BY DEF Inv, ActorInv
<1> QED
  BY <1>1, InvCorrect, PTL

\* After turn_duration, Claude is taken to wait until a user's entry.
THEOREM SticksCorrect == Spec => DefinitiveIdleSticks
<1> DEFINE Ends == definitive /\ (~definitive' \/ state' # "WaitingForInput")
           ByUser == signals # <<>> /\ Head(signals) = "user" /\ signals' = Tail(signals)
<1>1. Inv /\ [Next]_vars => [Ends => ByUser]_vars
  <2> SUFFICES ASSUME Inv, Next, Ends PROVE ByUser
    OBVIOUS
  <2>1. Inv'
    BY NextInv
  <2>2. ~definitive'
    BY <2>1 DEF Inv, ActorInv
  <2>3. CASE TakeSignal
    <3>1. Head(signals) \in Signal
      BY <2>3 DEF TakeSignal, Inv, TypeOK
    <3> QED
      BY <2>2, <2>3, <3>1, EntryKeeps DEF TakeSignal, Inv
  <2>4. CASE Output
    BY <2>2, <2>4, OutputKeeps DEF Output, Inv
  <2>5. CASE Claude \/ InitialPoll \/ Poll \/ Skip \/ Send
    <3>1. UNCHANGED actorVars
      BY <2>5 DEF Claude, Prompt, Say, UseTool, Ask, Report, Result, EndTurn, RecordDuration,
                  Write, InitialPoll, Poll, Skip, Send
    <3> QED
      BY <2>2, <3>1 DEF actorVars
  <2> QED
    BY <2>3, <2>4, <2>5 DEF Next
<1> QED
  BY <1>1, InvCorrect, PTL DEF Spec, DefinitiveIdleSticks

-----------------------------------------------------------------------------
(* A turn_duration on its way through file, batch and channel. *)

\* A sequence of events or signals that brings turn_duration, and no message of
\* the user after it; and one that brings no message of the user at all.
Final(q) ==
    \E i \in 1..Len(q) : q[i] = "turn_duration" /\ \A j \in (i + 1)..Len(q) : q[j] # "user"
Clean(q) == \A i \in 1..Len(q) : q[i] # "user"

LEMMA FinalTail ==
    ASSUME NEW S, NEW q \in Seq(S), q # <<>>, Final(q)
    PROVE  \/ Head(q) = "turn_duration" /\ Clean(Tail(q))
           \/ Final(Tail(q))
<1>1. PICK i \in 1..Len(q) : q[i] = "turn_duration" /\ \A j \in (i + 1)..Len(q) : q[j] # "user"
  BY DEF Final
<1>2. Len(Tail(q)) = Len(q) - 1 /\ \A k \in 1..Len(Tail(q)) : Tail(q)[k] = q[k + 1]
  OBVIOUS
<1>3. CASE i = 1
  BY <1>1, <1>2, <1>3 DEF Clean
<1>4. CASE i > 1
  <2>1. i - 1 \in 1..Len(Tail(q)) /\ Tail(q)[i - 1] = "turn_duration"
    BY <1>1, <1>2, <1>4
  <2>2. \A j \in ((i - 1) + 1)..Len(Tail(q)) : Tail(q)[j] # "user"
    BY <1>1, <1>2, <1>4
  <2> QED
    BY <2>1, <2>2 DEF Final
<1> QED
  BY <1>1, <1>3, <1>4

LEMMA CleanTail ==
    ASSUME NEW S, NEW q \in Seq(S), q # <<>>, Clean(q)
    PROVE  Head(q) # "user" /\ Clean(Tail(q))
<1>1. Len(Tail(q)) = Len(q) - 1 /\ \A k \in 1..Len(Tail(q)) : Tail(q)[k] = q[k + 1]
  OBVIOUS
<1> QED
  BY <1>1 DEF Clean

LEMMA AppendKeeps ==
    ASSUME NEW S, NEW q \in Seq(S), NEW e \in S, e # "user"
    PROVE  /\ Clean(q) => Clean(Append(q, e))
           /\ Final(q) => Final(Append(q, e))
           /\ e = "turn_duration" => Final(Append(q, e))
<1>1. /\ Len(Append(q, e)) = Len(q) + 1 /\ Append(q, e)[Len(q) + 1] = e
      /\ \A k \in 1..Len(q) : Append(q, e)[k] = q[k]
  OBVIOUS
<1>2. Clean(q) => Clean(Append(q, e))
  BY <1>1 DEF Clean
<1>3. ASSUME Final(q) PROVE Final(Append(q, e))
  <2>1. PICK i \in 1..Len(q) : q[i] = "turn_duration" /\ \A j \in (i + 1)..Len(q) : q[j] # "user"
    BY <1>3 DEF Final
  <2>2. i \in 1..Len(Append(q, e)) /\ Append(q, e)[i] = "turn_duration"
    BY <1>1, <2>1
  <2>3. \A j \in (i + 1)..Len(Append(q, e)) : Append(q, e)[j] # "user"
    BY <1>1, <2>1
  <2> QED
    BY <2>2, <2>3 DEF Final
<1>4. ASSUME e = "turn_duration" PROVE Final(Append(q, e))
  <2>1. Len(q) + 1 \in 1..Len(Append(q, e))
    BY <1>1
  <2>2. \A j \in ((Len(q) + 1) + 1)..Len(Append(q, e)) : Append(q, e)[j] # "user"
    BY <1>1
  <2> QED
    BY <1>1, <1>4, <2>1, <2>2 DEF Final
<1> QED
  BY <1>2, <1>3, <1>4

\* Where the turn_duration that ends the log can be: unread, in the batch, in
\* the channel, or taken to heart.
Unread == file # <<>> /\ file[Len(file)] = "turn_duration"
Read == watching /\ file = <<>>
Under ==
    \/ Final(batch)
    \/ Clean(batch) /\ Final(signals)
    \/ Clean(batch) /\ Clean(signals) /\ definitive
DurationInv ==
    last = "turn_duration" => claude = "prompt" /\ (Unread \/ (Read /\ Under))

\* A poll of a log that ends in turn_duration.
LEMMA PollFinds ==
    ASSUME Inv, Unread
    PROVE  /\ Final(Released(Events(file)) \o Events(file))
           /\ Final(LastOnly(Events(file)))
<1> DEFINE E == Events(file)
           n == Len(file)
<1>1. E \in Seq(Event) /\ Len(E) = n /\ n \in Nat \ {0} /\ file \in Seq(Entry)
  BY EventsType DEF Inv, TypeOK, Unread
<1>2. E[n] = "turn_duration"
  BY <1>1 DEF Events, EventAt, Merged, Unread
<1>3. Final(Released(E) \o E)
  <2> DEFINE R == Released(E)
             Q == R \o E
  <2>1. R \in Seq(Event) /\ Len(R) \in Nat
    BY EventsType DEF Inv
  <2> HIDE DEF R, E
  <2>2. Len(Q) = Len(R) + n /\ Q[Len(R) + n] = E[n]
    BY <1>1, <2>1
  <2>3. Len(R) + n \in 1..Len(Q)
    BY <1>1, <2>1, <2>2
  <2>4. \A j \in ((Len(R) + n) + 1)..Len(Q) : Q[j] # "user"
    BY <1>1, <2>1, <2>2
  <2>5. Final(Q)
    BY <1>2, <2>2, <2>3, <2>4 DEF Final
  <2> QED
    BY <2>5 DEF R, E
<1>4. Final(LastOnly(E))
  <2> DEFINE final == {i \in 1..Len(E) : E[i] # "merged"
                         /\ \A j \in (i + 1)..Len(E) : E[j] = "merged"}
             top == CHOOSE i \in final : TRUE
  <2> HIDE DEF E
  <2>1. n \in final
    BY <1>1, <1>2
  <2>2. \A i \in final : i = n
    <3> SUFFICES ASSUME NEW i \in final, i # n PROVE FALSE
      OBVIOUS
    <3>1. n \in (i + 1)..Len(E)
      BY <1>1
    <3> QED
      BY <3>1, <1>2
  <2>3. top = n
    BY <2>1, <2>2
  <2>4. LastOnly(E) = <<IF E[top] = "text" THEN "released" ELSE E[top]>>
    BY <2>1, Zenon DEF LastOnly
  <2>5. LastOnly(E) = <<"turn_duration">>
    BY <2>3, <2>4, <1>2
  <2> QED
    BY <2>5 DEF Final
<1> QED
  BY <1>3, <1>4

LEMMA InitDuration == Init => DurationInv
BY DEF Init, DurationInv

LEMMA NextDuration == Inv /\ DurationInv /\ [Next]_vars => DurationInv'
<1> SUFFICES ASSUME Inv, DurationInv, [Next]_vars, last' = "turn_duration"
             PROVE  (claude = "prompt" /\ (Unread \/ (Read /\ Under)))'
  BY DEF DurationInv
<1>1. CASE Claude
  <2>1. CASE RecordDuration
    <3>1. file' = Append(file, "turn_duration") /\ claude' = "prompt" /\ file \in Seq(Entry)
      BY <2>1 DEF RecordDuration, Write, Inv, TypeOK
    <3>2. Append(file, "turn_duration") # <<>>
          /\ Append(file, "turn_duration")[Len(Append(file, "turn_duration"))] = "turn_duration"
      BY <3>1
    <3> QED
      BY <3>1, <3>2 DEF Unread
  <2>2. CASE Report
    BY <2>2 DEF Report, Write, DurationInv
  <2>3. CASE EndTurn
    BY <2>3 DEF EndTurn, DurationInv
  <2>4. CASE Prompt \/ Say \/ UseTool \/ Ask \/ Result
    BY <2>4 DEF Prompt, Say, UseTool, Ask, Result, Write
  <2> QED
    BY <1>1, <2>1, <2>2, <2>3, <2>4 DEF Claude
<1>2. ASSUME UNCHANGED <<claude, last>>
      PROVE  claude' = "prompt" /\ (Unread \/ (Read /\ Under))
  BY <1>2 DEF DurationInv
<1>3. CASE InitialPoll
  <2>1. claude' = "prompt" /\ (Unread \/ (Read /\ Under))
    BY <1>2, <1>3 DEF InitialPoll, claudeVars
  <2>2. Unread
    BY <2>1, <1>3 DEF InitialPoll, Read
  <2>3. Final(batch') /\ watching' /\ file' = <<>>
    BY <1>3, <2>2, PollFinds DEF InitialPoll
  <2> QED
    BY <2>1, <2>3 DEF Read, Under
<1>4. CASE Poll
  <2>1. claude' = "prompt" /\ (Unread \/ (Read /\ Under))
    BY <1>2, <1>4 DEF Poll, claudeVars
  <2>2. watching' /\ file' = <<>>
    BY <1>4 DEF Poll
  <2>3. CASE Unread
    <3>1. Final(batch')
      BY <1>4, <2>3, PollFinds DEF Poll
    <3> QED
      BY <2>1, <2>2, <3>1 DEF Read, Under
  <2>4. CASE Read /\ Under
    <3>1. Events(file) = <<>>
      BY <2>4 DEF Read, Events
    <3>2. batch' = <<>> \/ batch' = <<"released">>
      BY <1>4, <3>1 DEF Poll, Released
    <3>3. Clean(batch')
      BY <3>2 DEF Clean
    <3>4. ~Final(batch)
      BY <1>4 DEF Poll, Final
    <3>5. Final(signals') \/ (Clean(signals') /\ definitive')
      BY <1>4, <2>4, <3>4 DEF Under, Poll, actorVars
    <3> QED
      BY <2>1, <2>2, <3>3, <3>5 DEF Read, Under
  <2> QED
    BY <2>1, <2>3, <2>4
<1>5. CASE Skip
  <2>1. claude' = "prompt" /\ (Unread \/ (Read /\ Under))
    BY <1>2, <1>5 DEF Skip, claudeVars
  <2>2. UNCHANGED <<file, watching, signals, definitive>> /\ batch' = Tail(batch) /\ batch # <<>>
        /\ Head(batch) # "turn_duration" /\ batch \in Seq(Event)
    BY <1>5 DEF Skip, actorVars, Inv, TypeOK
  <2>3. (Final(batch) => Final(batch')) /\ (Clean(batch) => Clean(batch'))
    BY <2>2, FinalTail, CleanTail
  <2> QED
    BY <2>1, <2>2, <2>3 DEF Unread, Read, Under
<1>6. CASE Send
  <2>1. claude' = "prompt" /\ (Unread \/ (Read /\ Under))
    BY <1>2, <1>6 DEF Send, claudeVars
  <2> DEFINE e == IF Head(batch) = "released" THEN "text" ELSE Head(batch)
  <2>2. UNCHANGED <<file, watching, definitive>> /\ batch' = Tail(batch) /\ batch # <<>>
        /\ batch \in Seq(Event) /\ signals' = Append(signals, e) /\ signals \in Seq(Signal)
    BY <1>6 DEF Send, actorVars, watcherVars, Inv, TypeOK
  <2>3. e \in Signal /\ (e = "user" <=> Head(batch) = "user")
        /\ (e = "turn_duration" <=> Head(batch) = "turn_duration")
    <3>1. Head(batch) \in Event
      BY <2>2
    <3> QED
      BY <1>6, <3>1 DEF Send, Event, Signal, Entry
  <2> HIDE DEF e
  <2>4. CASE Final(batch)
    <3>1. Final(batch') \/ (e = "turn_duration" /\ Clean(batch'))
      BY <2>2, <2>3, <2>4, FinalTail
    <3>2. e = "turn_duration" => Final(signals')
      BY <2>2, <2>3, AppendKeeps
    <3> QED
      BY <2>1, <2>2, <3>1, <3>2, <2>4 DEF Unread, Read, Under
  <2>5. CASE Clean(batch)
    <3>1. Clean(batch') /\ e # "user"
      BY <2>2, <2>3, <2>5, CleanTail
    <3>2. (Final(signals) => Final(signals')) /\ (Clean(signals) => Clean(signals'))
      BY <2>2, <2>3, <3>1, AppendKeeps
    <3>3. Final(batch) => Final(signals') \/ Final(batch')
      BY <2>2, <2>3, FinalTail, AppendKeeps
    <3> QED
      BY <2>1, <2>2, <3>1, <3>2, <3>3 DEF Unread, Read, Under
  <2> QED
    BY <2>1, <2>2, <2>4, <2>5 DEF Unread, Read, Under
<1>7. CASE TakeSignal
  <2>1. claude' = "prompt" /\ (Unread \/ (Read /\ Under))
    BY <1>2, <1>7 DEF TakeSignal, claudeVars
  <2>2. UNCHANGED <<file, watching, batch>> /\ signals' = Tail(signals) /\ signals # <<>>
        /\ signals \in Seq(Signal) /\ Head(signals) \in Signal /\ OnEntry(Head(signals))
    BY <1>7 DEF TakeSignal, watcherVars, Inv, TypeOK
  <2>3. /\ Head(signals) = "turn_duration" => definitive'
        /\ definitive /\ Head(signals) # "user" => definitive'
    BY <2>2, EntryKeeps DEF Inv
  <2>4. Final(signals) => Final(signals') \/ (Clean(signals') /\ definitive')
    BY <2>2, <2>3, FinalTail
  <2>5. Clean(signals) => Clean(signals') /\ Head(signals) # "user"
    BY <2>2, CleanTail
  <2> QED
    BY <2>1, <2>2, <2>3, <2>4, <2>5 DEF Unread, Read, Under
<1>8. CASE Output
  <2>1. claude' = "prompt" /\ (Unread \/ (Read /\ Under))
    BY <1>2, <1>8 DEF Output, claudeVars
  <2>2. UNCHANGED <<file, watching, batch, signals>>
    BY <1>8 DEF Output, watcherVars
  <2>3. definitive => definitive'
    BY <1>8, OutputKeeps DEF Output, Inv
  <2> QED
    BY <2>1, <2>2, <2>3 DEF Unread, Read, Under
<1>9. CASE UNCHANGED vars
  <2>1. claude' = "prompt" /\ (Unread \/ (Read /\ Under))
    BY <1>2, <1>9 DEF vars, claudeVars
  <2>2. UNCHANGED <<file, watching, batch, signals, definitive>>
    BY <1>9 DEF vars, watcherVars, actorVars
  <2> QED
    BY <2>1, <2>2 DEF Unread, Read, Under
<1> QED
  BY <1>1, <1>3, <1>4, <1>5, <1>6, <1>7, <1>8, <1>9 DEF Next

\* Once all of a log that ends in turn_duration is processed, Claude is taken to
\* wait, for good as far as the terminal goes.
THEOREM DurationCorrect == Spec => []DurationIsFinal
<1>1. Inv /\ DurationInv => DurationIsFinal
  <2> SUFFICES ASSUME Inv, DurationInv, CaughtUp, last = "turn_duration"
               PROVE  state = "WaitingForInput" /\ definitive
    BY DEF DurationIsFinal
  <2>1. ~Unread /\ ~Final(batch) /\ ~Final(signals)
    BY DEF CaughtUp, Unread, Final
  <2>2. definitive
    BY <2>1 DEF DurationInv, Under
  <2> QED
    BY <2>2 DEF Inv, ActorInv
<1>2. Inv /\ DurationInv /\ [Next]_vars => DurationInv'
  BY NextDuration
<1> QED
  BY <1>1, <1>2, InitDuration, InvCorrect, PTL DEF Spec
=============================================================================
