---------------------------- MODULE Inbox_proof ----------------------------
(* Proofs about the inbox: its variables have their types, the client shows    *)
(* the row the table has but for what it missed, and the row of a running      *)
(* instance is one its state calls for.                                        *)
EXTENDS Inbox, Integers, TLAPS

\* What the watcher can have to do at once.
Lists == {<<Completed>>, <<NeedsInput>>, <<Responded>>, <<NewWork>>, <<Responded, NewWork>>}

Works == [id : InboxInstances, todo : Lists, stage : {"begin", "selected", "written"}, item : Items \cup {NoItem}]

\* Its task is one of these, and it reads a row only to write one.
TaskInv ==
    \/ task = Rest
    \/ /\ task \in Works
       /\ task.stage = "begin" => task.item = NoItem
       /\ task.stage = "selected" => task.todo \in {<<Completed>>, <<NeedsInput>>}

\* The broadcasts it has read or lost.
Read == changes - Len(heard)

\* It has a turn to count.
Owes == task # Rest /\ task.stage # "written" /\ task.todo = <<Completed>>

\* No row counts more turns than broadcasts were read, nor one that is not
\* counted yet.
Counted(item) == item # NoItem => item.count <= Read /\ (Owes => item.count < Read)

CountInv ==
    /\ Len(heard) <= changes
    /\ task # Rest => Read >= 1
    /\ \A i \in InboxInstances : Counted(row[i])
    /\ task # Rest => Counted(task.item)

TypeInv == InboxTypeOK /\ TaskInv /\ CountInv

-----------------------------------------------------------------------------
(* What is on its way to the client about an instance.                         *)

IsList(m) == "list" \in DOMAIN m
Says(m, i) == IsList(m) \/ m.id = i
Told(m, i) == IF IsList(m) THEN m.list[i] ELSE m.item

Silent(q, i) == \A k \in DOMAIN q : ~Says(q[k], i)
LastSays(q, i, v) ==
    \E k \in DOMAIN q : Says(q[k], i) /\ Told(q[k], i) = v /\ \A l \in (k + 1)..Len(q) : ~Says(q[l], i)

\* What the client shows of i once all of it has arrived.
Word(i, v) ==
    \/ LastSays(news, i, v)
    \/ Silent(news, i) /\ (LastSays(inboxWire, i, v) \/ (Silent(inboxWire, i) /\ shown[i] = v))

\* The watcher wrote or deleted the row of i and has not said so.
Untold(i) == task # Rest /\ task.stage = "written" /\ task.id = i

\* A row nobody has news of is the last the client hears of.
WordInv ==
    /\ inboxLink # "on" => news = <<>>
    /\ inboxLink = "off" => inboxWire = <<>>
    /\ inboxLink # "off" =>
         \A i \in InboxInstances \ inboxTorn : dismissing[i] # "deleted" /\ ~Untold(i) => Word(i, row[i])

-----------------------------------------------------------------------------
(* What the watcher has heard of an instance, and what it still has to do.     *)

Unheard(q, i) == \A k \in DOMAIN q : q[k].id # i
LastHeard(q, i, s) ==
    \E k \in DOMAIN q : q[k].id = i /\ q[k].state = s /\ \A l \in (k + 1)..Len(q) : q[l].id # i

AheadOf(t, i, step) ==
    /\ t # Rest /\ t.id = i
    /\ \E k \in DOMAIN t.todo : t.todo[k] = step /\ (k = 1 => t.stage # "written")
Ahead(i, step) == AheadOf(task, i, step)

\* An instance that has not started is nobody's business.
UnbornInv ==
    \A i \in InboxInstances : state[i] = "unborn" =>
        row[i] = NoItem /\ prev[i] = NoState /\ Unheard(heard, i)

\* The last broadcast is the state, unless it was lost.
HeardInv ==
    /\ \A i \in missed : Unheard(heard, i)
    /\ \A i \in InboxInstances \ missed : state[i] \in States =>
           \/ LastHeard(heard, i, state[i])
           \/ Unheard(heard, i) /\ (prev[i] = state[i] \/ (prev[i] = NoState /\ state[i] = "starting"))

\* No instance starts twice.
StartInv ==
    /\ \A k \in DOMAIN heard : heard[k].state = "starting" =>
           /\ prev[heard[k].id] \in {NoState, "starting"}
           /\ \A l \in 1..k : heard[l].id = heard[k].id => heard[l].state = "starting"
    /\ \A i \in InboxInstances : state[i] = "starting" =>
           /\ prev[i] \in {NoState, "starting"}
           /\ \A k \in DOMAIN heard : heard[k].id = i => heard[k].state = "starting"

\* What it does, it does for the state it has noted.
DutyInv ==
    task # Rest =>
        /\ task.todo = <<Completed>> => prev[task.id] = "idle"
        /\ task.todo = <<NeedsInput>> => prev[task.id] = "waiting"
        /\ task.todo \in {<<Responded>>, <<Responded, NewWork>>} => prev[task.id] # "waiting"
        /\ prev[task.id] # NoState

\* A row is one the state noted calls for, or its removal is ahead; a question
\* has its row, or it is ahead.
RowInv ==
    \A i \in InboxInstances :
        /\ prev[i] = NoState /\ state[i] \in States => row[i] = NoItem
        /\ i \notin failed /\ state[i] \in States /\ prev[i] # NoState =>
             /\ Has(i, "needs_input") => prev[i] = "waiting" \/ Ahead(i, Responded)
             /\ Has(i, "completed_turn") => prev[i] = "idle" \/ Ahead(i, NewWork) \/ Ahead(i, NeedsInput)
             /\ prev[i] = "waiting" /\ i \notin excused => Has(i, "needs_input") \/ Ahead(i, NeedsInput)

FollowInv == UnbornInv /\ HeardInv /\ StartInv /\ DutyInv /\ RowInv

-----------------------------------------------------------------------------
(* What a task is made of, and what becomes of it.                             *)

Steps == {Completed, NeedsInput, Responded, NewWork}

LEMMA StepsDiffer ==
    /\ Completed # NeedsInput /\ Completed # Responded /\ Completed # NewWork
    /\ NeedsInput # Responded /\ NeedsInput # NewWork /\ Responded # NewWork
    /\ Completed.write /\ NeedsInput.write /\ ~Responded.write /\ ~NewWork.write
BY DEF Completed, NeedsInput, Responded, NewWork

\* A list is one step, or the two after an answer.
LEMMA ListIs ==
    ASSUME NEW L \in Lists
    PROVE  /\ L \in Seq(Steps) \ {<<>>}
           /\ \/ L \in {<<Completed>>, <<NeedsInput>>, <<Responded>>, <<NewWork>>} /\ Len(L) = 1 /\ L[1] = Head(L) /\ L = <<Head(L)>>
              \/ L = <<Responded, NewWork>> /\ Len(L) = 2 /\ Head(L) = Responded /\ Tail(L) = <<NewWork>>
<1> DEFINE A == Completed  B == NeedsInput  C == Responded  D == NewWork
<1>1. Steps = {A, B, C, D} /\ Lists = {<<A>>, <<B>>, <<C>>, <<D>>, <<C, D>>}
  BY DEF Steps, Lists
<1> HIDE DEF A, B, C, D
<1>2. L \in Seq(Steps) \ {<<>>}
  <2>1. A \in Steps /\ B \in Steps /\ C \in Steps /\ D \in Steps
    BY <1>1
  <2>2. /\ <<A>> \in Seq(Steps) /\ <<B>> \in Seq(Steps) /\ <<C>> \in Seq(Steps) /\ <<D>> \in Seq(Steps)
        /\ <<C, D>> \in Seq(Steps)
    BY <2>1
  <2>3. <<A>> # <<>> /\ <<B>> # <<>> /\ <<C>> # <<>> /\ <<D>> # <<>> /\ <<C, D>> # <<>>
    OBVIOUS
  <2> QED BY <1>1, <2>2, <2>3
<1>3. CASE L = <<C, D>>
  <2>1. Len(L) = 2 /\ Head(L) = C /\ Tail(L) = <<D>>
    BY <1>3
  <2> QED BY <2>1, <1>2, <1>3 DEF C, D
<1>4. CASE L \in {<<A>>, <<B>>, <<C>>, <<D>>}
  <2>1. Len(L) = 1 /\ L[1] = Head(L) /\ L = <<Head(L)>>
    BY <1>4
  <2> QED BY <2>1, <1>2, <1>4 DEF A, B, C, D
<1> QED BY <1>1, <1>3, <1>4

\* The list for each change of state.
LEMMA TodoIs ==
    ASSUME NEW p \in States \cup {NoState}, NEW s \in States
    PROVE  /\ p = "active" /\ s = "idle" => Todo(p, s) = <<Completed>>
           /\ p \notin {NoState, "waiting"} /\ s = "waiting" => Todo(p, s) = <<NeedsInput>>
           /\ p = "waiting" /\ s = "active" => Todo(p, s) = <<Responded, NewWork>>
           /\ p = "waiting" /\ s \in {"starting", "idle"} => Todo(p, s) = <<Responded>>
           /\ p \in {"starting", "idle"} /\ s = "active" => Todo(p, s) = <<NewWork>>
           /\ p = NoState \/ p = s \/ (p # "waiting" /\ s = "starting") \/ (p = "starting" /\ s = "idle")
                => Todo(p, s) = <<>>
<1> DEFINE A == Completed  B == NeedsInput  C == Responded  D == NewWork
<1>1. A # B /\ A # C /\ A # D /\ B # C /\ B # D /\ C # D
  BY StepsDiffer
<1>2. /\ IfDue(A, p, s) = IF p = "active" /\ s = "idle" THEN <<A>> ELSE <<>>
      /\ IfDue(B, p, s) = IF s = "waiting" /\ p # "waiting" THEN <<B>> ELSE <<>>
      /\ IfDue(C, p, s) = IF p = "waiting" /\ s # "waiting" THEN <<C>> ELSE <<>>
      /\ IfDue(D, p, s) = IF p # "active" /\ s = "active" THEN <<D>> ELSE <<>>
  <2> HIDE DEF A, B, C, D
  <2>1. A = Completed /\ B = NeedsInput /\ C = Responded /\ D = NewWork
    BY DEF A, B, C, D
  <2> QED BY <2>1, <1>1 DEF IfDue, Due
<1>3. Todo(p, s) = IF p = NoState THEN <<>> ELSE IfDue(A, p, s) \o IfDue(B, p, s) \o IfDue(C, p, s) \o IfDue(D, p, s)
  BY DEF Todo
<1> HIDE DEF A, B, C, D
<1>4. /\ p \in {"starting", "idle", "active", "waiting", NoState} /\ s \in {"starting", "idle", "active", "waiting"}
      /\ NoState \notin {"starting", "idle", "active", "waiting"}
  BY InboxAssumption DEF States
<1>5. /\ <<A>> \o <<>> \o <<>> \o <<>> = <<A>> /\ <<>> \o <<B>> \o <<>> \o <<>> = <<B>> /\ <<>> \o <<>> \o <<C>> \o <<>> = <<C>>
      /\ <<>> \o <<>> \o <<>> \o <<D>> = <<D>> /\ <<>> \o <<>> \o <<C>> \o <<D>> = <<C, D>> /\ <<>> \o <<>> \o <<>> \o <<>> = <<>>
  <2>1. \A q \in Seq(Steps) : <<>> \o q = q /\ q \o <<>> = q
    OBVIOUS
  <2>2. <<>> \in Seq(Steps) /\ <<A>> \in Seq(Steps) /\ <<B>> \in Seq(Steps) /\ <<C>> \in Seq(Steps) /\ <<D>> \in Seq(Steps)
    BY DEF Steps, A, B, C, D
  <2>3. <<C>> \o <<D>> = <<C, D>>
    <3> DEFINE q == <<C>> \o <<D>>
    <3>1. q \in Seq(Steps) /\ Len(q) = 2 /\ q[1] = C /\ q[2] = D
      BY <2>2
    <3> HIDE DEF q
    <3>2. q = <<C, D>>
      BY <3>1
    <3> QED BY <3>2 DEF q
  <2> QED BY <2>1, <2>2, <2>3
<1>6. /\ p = "active" /\ s = "idle" => Todo(p, s) = <<A>>
      /\ p \notin {NoState, "waiting"} /\ s = "waiting" => Todo(p, s) = <<B>>
      /\ p = "waiting" /\ s = "active" => Todo(p, s) = <<C, D>>
  BY <1>2, <1>3, <1>4, <1>5
<1>7. /\ p = "waiting" /\ s \in {"starting", "idle"} => Todo(p, s) = <<C>>
      /\ p \in {"starting", "idle"} /\ s = "active" => Todo(p, s) = <<D>>
      /\ p = NoState \/ p = s \/ (p # "waiting" /\ s = "starting") \/ (p = "starting" /\ s = "idle")
                => Todo(p, s) = <<>>
  BY <1>2, <1>3, <1>4, <1>5
<1> QED BY <1>6, <1>7 DEF A, B, C, D

LEMMA WorkIsNoRest == \A t \in Works : t # Rest
BY DEF Works, Rest

\* After a step the watcher rests, or new work follows an answer.
LEMMA ProceedIs ==
    ASSUME task \in Works, Proceed
    PROVE  \/ Len(task.todo) = 1 /\ task' = Rest
           \/ /\ task.todo = <<Responded, NewWork>>
              /\ task' = [id |-> task.id, todo |-> <<NewWork>>, stage |-> "begin", item |-> NoItem]
              /\ task' \in Works
<1>1. task.todo \in Lists /\ task.id \in InboxInstances
  BY DEF Works
<1>2. CASE Len(task.todo) = 1
  BY <1>2 DEF Proceed
<1>3. CASE Len(task.todo) # 1
  <2>1. task.todo = <<Responded, NewWork>> /\ Tail(task.todo) = <<NewWork>>
    BY <1>1, <1>3, ListIs
  <2>2. task' = [id |-> task.id, todo |-> <<NewWork>>, stage |-> "begin", item |-> NoItem]
    BY <1>3, <2>1 DEF Proceed, At
  <2>3. <<NewWork>> \in Lists
    BY DEF Lists
  <2> QED BY <1>1, <2>1, <2>2, <2>3 DEF Works
<1> QED BY <1>2, <1>3

LEMMA ProceedOwes == ASSUME task \in Works, Proceed PROVE ~Owes'
<1>1. <<NewWork>> # <<Completed>>
  <2> DEFINE A == Completed  D == NewWork
  <2>1. A # D
    BY StepsDiffer
  <2> HIDE DEF A, D
  <2>2. <<D>>[1] = D /\ <<A>>[1] = A
    OBVIOUS
  <2>3. <<D>> # <<A>>
    BY <2>1, <2>2
  <2> QED BY <2>3 DEF A, D
<1> QED BY <1>1, ProceedIs DEF Owes

\* A step half done keeps its instance and its list.
LEMMA GoesIs ==
    ASSUME task \in Works, NEW stage \in {"begin", "selected", "written"}, NEW item \in Items \cup {NoItem}, Reaches(stage, item)
    PROVE  /\ task' \in Works /\ task'.id = task.id /\ task'.todo = task.todo
           /\ task'.stage = stage /\ task'.item = item
BY DEF Works, Reaches

\* What the step is tells what the list is.
LEMMA StepIs ==
    ASSUME task \in Works
    PROVE  /\ Duty \in Steps /\ Duty = task.todo[1]
           /\ Duty.write => /\ Len(task.todo) = 1
                            /\ \/ task.todo = <<Completed>> /\ Duty = Completed
                               \/ task.todo = <<NeedsInput>> /\ Duty = NeedsInput
           /\ ~Duty.write => \/ task.todo = <<Responded>> /\ Duty = Responded
                             \/ task.todo = <<NewWork>> /\ Duty = NewWork
                             \/ task.todo = <<Responded, NewWork>> /\ Duty = Responded
<1>1. task.todo \in Lists
  BY DEF Works
<1> DEFINE A == Completed  B == NeedsInput  C == Responded  D == NewWork
<1>2. A.write /\ B.write /\ ~C.write /\ ~D.write
  BY StepsDiffer
<1>3. Duty = Head(task.todo)
  BY DEF Duty
<1>4. Lists = {<<A>>, <<B>>, <<C>>, <<D>>, <<C, D>>} /\ Steps = {A, B, C, D}
  BY DEF Lists, Steps
<1> HIDE DEF A, B, C, D
<1>5. CASE task.todo = <<A>>
  <2>1. Duty \in Steps /\ Duty = task.todo[1] /\ Duty.write /\ Duty = A /\ Len(task.todo) = 1
    BY <1>2, <1>3, <1>4, <1>5
  <2> QED BY <1>5, <2>1 DEF A
<1>6. CASE task.todo = <<B>>
  BY <1>2, <1>3, <1>4, <1>6 DEF B
<1>7. CASE task.todo = <<C>> \/ task.todo = <<D>> \/ task.todo = <<C, D>>
  <2>1. Duty \in Steps /\ Duty = task.todo[1] /\ ~Duty.write
    BY <1>2, <1>3, <1>4, <1>7
  <2>2. \/ task.todo = <<C>> /\ Duty = C
        \/ task.todo = <<D>> /\ Duty = D
        \/ task.todo = <<C, D>> /\ Duty = C
    BY <1>3, <1>7
  <2> QED BY <2>1, <2>2 DEF C, D
<1> QED BY <1>1, <1>4, <1>5, <1>6, <1>7

-----------------------------------------------------------------------------
(* The types.                                                                  *)

LEMMA QueuedType ==
    ASSUME NEW S, NEW q \in Seq(S), NEW m \in S, NEW cap \in Nat \ {0}, Len(q) <= cap
    PROVE  /\ Queued(q, cap, m) \in Seq(S) /\ Len(Queued(q, cap, m)) <= cap
           /\ Len(q) <= Len(Queued(q, cap, m)) /\ Len(Queued(q, cap, m)) <= Len(q) + 1
BY DEF Queued

LEMMA BroadcastType ==
    ASSUME InboxTypeOK, NEW i \in InboxInstances, NEW item \in Items \cup {NoItem}, Broadcast(i, item)
    PROVE  news' \in Seq(Updates) /\ Len(news') <= NewsCap /\ inboxTorn' \subseteq InboxInstances
<1> DEFINE m == [id |-> i, item |-> item]
<1>1. m \in Updates
  BY DEF Updates
<1>2. news \in Seq(Updates) /\ Len(news) <= NewsCap /\ NewsCap \in Nat \ {0} /\ inboxTorn \subseteq InboxInstances
  BY InboxAssumption DEF InboxTypeOK
<1>3. Queued(news, NewsCap, m) \in Seq(Updates) /\ Len(Queued(news, NewsCap, m)) <= NewsCap
  BY <1>1, <1>2, QueuedType
<1>4. news' = IF inboxLink = "on" THEN Queued(news, NewsCap, m) ELSE news
  BY DEF Broadcast
<1>5. Len(news) >= NewsCap => Head(news) \in Updates /\ Head(news).id \in InboxInstances
  <2>1. Len(news) >= NewsCap => Head(news) \in Updates
    BY <1>2
  <2> QED BY <2>1 DEF Updates
<1>6. inboxTorn' \subseteq InboxInstances
  BY <1>2, <1>5 DEF Broadcast
<1> QED BY <1>2, <1>3, <1>4, <1>6

\* What is counted stays counted while nothing is read and no count falls due.
LEMMA CountedKeeps ==
    ASSUME NEW item, Counted(item), heard' = heard, changes' = changes, Owes' => Owes
    PROVE  Counted(item)'
BY DEF Counted, Read

LEMMA CountKeeps ==
    ASSUME CountInv, heard' = heard, changes' = changes, Owes' => Owes, task' # Rest => task # Rest,
           \A i \in InboxInstances : row'[i] \in {row[i], NoItem}, task' # Rest => task'.item \in {task.item, NoItem}
    PROVE  CountInv'
<1>1. Len(heard') <= changes' /\ (task' # Rest => Read' >= 1)
  BY DEF CountInv, Read
<1>2. ASSUME NEW i \in InboxInstances
      PROVE  Counted(row[i])'
  <2>1. Counted(row[i]) /\ Counted(NoItem)
    BY DEF CountInv, Counted
  <2> QED BY <2>1 DEF Counted, Read
<1>3. ASSUME task' # Rest
      PROVE  Counted(task.item)'
  <2>1. Counted(task.item) /\ Counted(NoItem)
    BY <1>3 DEF CountInv, Counted
  <2> QED BY <2>1, <1>3 DEF Counted, Read
<1> QED BY <1>1, <1>2, <1>3 DEF CountInv

\* The watcher's task and what it has read stay, and no row grows.
LEMMA TaskStays ==
    ASSUME TaskInv, CountInv, UNCHANGED <<heard, task, changes>>, \A i \in InboxInstances : row'[i] \in {row[i], NoItem}
    PROVE  TaskInv' /\ CountInv'
<1>1. TaskInv'
  BY DEF TaskInv
<1>2. Owes' => Owes
  BY DEF Owes
<1> QED BY <1>1, <1>2, CountKeeps

LEMMA EmptyRows == ASSUME NEW S PROVE <<>> \in Seq(S) /\ Len(<<>>) = 0
OBVIOUS

LEMMA TypeInit == ASSUME InboxInit PROVE TypeInv
<1>1. InboxTypeOK
  BY EmptyRows, InboxAssumption DEF InboxInit, InboxTypeOK, InboxRows
<1>2. TaskInv /\ CountInv
  BY DEF InboxInit, TaskInv, CountInv, Counted, Read, Owes
<1> QED BY <1>1, <1>2 DEF TypeInv

\* What the watcher's task may be, as the module's type says it.
LEMMA WorksAreTasks == Works \subseteq Tasks
<1>1. \A L \in Lists : L \in Seq({Completed, NeedsInput, Responded, NewWork}) \ {<<>>}
  BY ListIs DEF Steps
<1> QED BY <1>1 DEF Works, Tasks

\* The parts of an instance's life, of a request and of a connection.
LEMMA TypeOthers ==
    ASSUME TypeInv, NEW i \in InboxInstances,
           Create(i) \/ EndInstance(i) \/ Dismiss(i) \/ Dismissed(i) \/ Forget(i)
    PROVE  TypeInv'
<1>1. InboxTypeOK /\ TaskInv /\ CountInv
  BY DEF TypeInv
<1>2. TaskInv' /\ CountInv'
  <2>1. UNCHANGED <<heard, task, changes>> /\ \A j \in InboxInstances : row'[j] \in {row[j], NoItem}
    <3>1. row \in InboxRows
      BY <1>1 DEF InboxTypeOK
    <3> QED BY <3>1 DEF Create, EndInstance, Dismiss, Dismissed, Forget, watcherVars, InboxRows
  <2> QED BY <1>1, <2>1, TaskStays
<1>3. CASE Create(i) \/ EndInstance(i)
  BY <1>1, <1>2, <1>3 DEF Create, EndInstance, InboxTypeOK, TypeInv, States, watcherVars, clientVars, InboxRows
<1>4. CASE Dismiss(i)
  BY <1>1, <1>2, <1>4 DEF Dismiss, InboxTypeOK, TypeInv, watcherVars, clientVars, InboxRows
<1>5. CASE Dismissed(i)
  <2>1. news' \in Seq(Updates) /\ Len(news') <= NewsCap /\ inboxTorn' \subseteq InboxInstances
    BY <1>1, <1>5, BroadcastType DEF Dismissed
  <2>2. dismissing' \in [InboxInstances -> {"none", "deleted", "answered"}]
    BY <1>1, <1>5 DEF Dismissed, InboxTypeOK
  <2>3. UNCHANGED <<state, heard, prev, task, row, inboxLink, inboxWire, shown, excused, failed, missed, changes>>
    BY <1>5 DEF Dismissed, watcherVars
  <2>4. InboxTypeOK'
    BY <1>1, <2>1, <2>2, <2>3 DEF InboxTypeOK
  <2> QED BY <2>4, <1>2 DEF TypeInv
<1>6. CASE Forget(i)
  BY <1>1, <1>2, <1>6 DEF Forget, InboxTypeOK, TypeInv, watcherVars, InboxRows
<1> QED BY <1>3, <1>4, <1>5, <1>6

LEMMA TypeConnection ==
    ASSUME TypeInv, ConnectInbox \/ SubscribeNews \/ Forward \/ DeliverInbox \/ DisconnectInbox
    PROVE  TypeInv'
<1>1. InboxTypeOK /\ TaskInv /\ CountInv
  BY DEF TypeInv
<1>2. TaskInv' /\ CountInv'
  <2>1. UNCHANGED <<heard, task, changes, row>>
    BY DEF ConnectInbox, SubscribeNews, Forward, DeliverInbox, DisconnectInbox, watcherVars
  <2> QED BY <1>1, <2>1, TaskStays
<1>3. UNCHANGED <<state, heard, prev, task, row, dismissing, excused, failed, missed, changes>>
  BY DEF ConnectInbox, SubscribeNews, Forward, DeliverInbox, DisconnectInbox, watcherVars
<1>4. row \in InboxRows /\ shown \in InboxRows /\ InboxWireCap \in Nat \ {0} /\ NewsCap \in Nat \ {0}
      /\ news \in Seq(Updates) /\ Len(news) <= NewsCap /\ inboxTorn \subseteq InboxInstances
      /\ inboxWire \in Seq(Updates \cup [list : InboxRows]) /\ Len(inboxWire) <= InboxWireCap
  BY <1>1, InboxAssumption DEF InboxTypeOK
<1>5. /\ shown' \in InboxRows /\ inboxLink' \in {"off", "listed", "on"}
      /\ news' \in Seq(Updates) /\ Len(news') <= NewsCap /\ inboxTorn' \subseteq InboxInstances
      /\ inboxWire' \in Seq(Updates \cup [list : InboxRows]) /\ Len(inboxWire') <= InboxWireCap
  <2>1. CASE ConnectInbox
    <3>1. [list |-> row] \in Updates \cup [list : InboxRows]
      BY <1>4
    <3>2. <<[list |-> row]>> \in Seq(Updates \cup [list : InboxRows]) /\ Len(<<[list |-> row]>>) = 1
      BY <3>1
    <3>3. inboxWire' \in {<<[list |-> row]>>, <<>>} /\ inboxTorn' \subseteq InboxInstances /\ inboxLink' = "listed" /\ UNCHANGED <<news, shown>>
      BY <2>1 DEF ConnectInbox
    <3>4. <<>> \in Seq(Updates \cup [list : InboxRows]) /\ Len(<<>>) = 0
      BY EmptyRows
    <3>5. inboxWire' \in Seq(Updates \cup [list : InboxRows]) /\ Len(inboxWire') <= InboxWireCap
      <4>1. InboxWireCap >= 1
        BY <1>4
      <4>2. CASE inboxWire' = <<[list |-> row]>>
        BY ONLY <3>2, <4>1, <4>2
      <4>3. CASE inboxWire' = <<>>
        BY ONLY <3>4, <1>4, <4>3
      <4> QED BY <3>3, <4>2, <4>3
    <3> QED BY <1>4, <3>3, <3>5
  <2>2. CASE SubscribeNews
    BY <1>4, <2>2 DEF SubscribeNews
  <2>3. CASE Forward
    <3>1. Head(news) \in Updates /\ Tail(news) \in Seq(Updates) /\ Len(Tail(news)) <= Len(news)
      BY <1>4, <2>3 DEF Forward
    <3>2. inboxWire' = Append(inboxWire, Head(news)) /\ Len(inboxWire) < InboxWireCap /\ news' = Tail(news) /\ UNCHANGED <<inboxLink, shown, inboxTorn>>
      BY <2>3 DEF Forward
    <3>3. inboxLink \in {"off", "listed", "on"}
      BY <1>1 DEF InboxTypeOK
    <3>4. Append(inboxWire, Head(news)) \in Seq(Updates \cup [list : InboxRows]) /\ Len(Append(inboxWire, Head(news))) = Len(inboxWire) + 1
      BY <1>4, <3>1
    <3> QED BY <1>4, <3>1, <3>2, <3>3, <3>4
  <2>4. CASE DeliverInbox
    <3>1. Head(inboxWire) \in Updates \cup [list : InboxRows] /\ Tail(inboxWire) \in Seq(Updates \cup [list : InboxRows]) /\ Len(Tail(inboxWire)) <= Len(inboxWire)
      BY <1>4, <2>4 DEF DeliverInbox
    <3>2. CASE "list" \in DOMAIN Head(inboxWire)
      <4>1. Head(inboxWire) \in [list : InboxRows]
        BY <3>1, <3>2 DEF Updates
      <4>2. Head(inboxWire).list \in InboxRows
        BY <4>1
      <4>3. shown' = Head(inboxWire).list
        BY <2>4, <3>2 DEF DeliverInbox
      <4>4. inboxWire' = Tail(inboxWire) /\ UNCHANGED <<inboxLink, news, inboxTorn>> /\ inboxLink \in {"off", "listed", "on"}
        BY <1>1, <2>4 DEF DeliverInbox, InboxTypeOK
      <4> QED BY <1>4, <3>1, <4>2, <4>3, <4>4
    <3>3. CASE "list" \notin DOMAIN Head(inboxWire)
      <4>1. Head(inboxWire) \in Updates
        BY <3>1, <3>3
      <4>2. Head(inboxWire).id \in InboxInstances /\ Head(inboxWire).item \in Items \cup {NoItem}
        BY <4>1 DEF Updates
      <4>3. shown' = [shown EXCEPT ![Head(inboxWire).id] = Head(inboxWire).item]
        BY <2>4, <3>3 DEF DeliverInbox
      <4>4. shown' \in InboxRows
        BY <1>4, <4>2, <4>3 DEF InboxRows
      <4> QED BY <1>1, <1>4, <2>4, <3>1, <4>4 DEF DeliverInbox, InboxTypeOK
    <3> QED BY <3>2, <3>3
  <2>5. CASE DisconnectInbox
    BY <1>4, <2>5, EmptyRows DEF DisconnectInbox
  <2> QED BY <2>1, <2>2, <2>3, <2>4, <2>5
<1>6. InboxTypeOK'
  BY <1>1, <1>3, <1>5 DEF InboxTypeOK
<1> QED BY <1>2, <1>6 DEF TypeInv

LEMMA CountTyped ==
    ASSUME TypeInv
    PROVE  /\ changes \in Nat /\ changes <= MaxChanges /\ MaxChanges \in Nat /\ Len(heard) \in Nat /\ Read \in Nat /\ Read <= changes
           /\ \A i \in InboxInstances : row[i] = NoItem \/ row[i] \in Items
           /\ \A item \in Items : item # NoItem /\ item.count \in Nat /\ 1 <= item.count /\ item.type \in {"completed_turn", "needs_input"}
<1>1. changes \in Nat /\ changes <= MaxChanges /\ MaxChanges \in Nat /\ Len(heard) \in Nat /\ Len(heard) <= changes /\ row \in InboxRows
  BY InboxAssumption DEF TypeInv, InboxTypeOK, CountInv
<1>2. Read \in Nat /\ Read <= changes
  BY <1>1 DEF Read
<1>3. \A i \in InboxInstances : row[i] = NoItem \/ row[i] \in Items
  BY <1>1 DEF InboxRows
<1>4. ASSUME NEW item \in Items
      PROVE  item # NoItem /\ item.count \in Nat /\ 1 <= item.count /\ item.type \in {"completed_turn", "needs_input"}
  <2>1. item \in [type : {"completed_turn", "needs_input"}, count : Nat] /\ item.count \in 1..MaxChanges
        /\ item.type \in {"completed_turn", "needs_input"}
    BY <1>1 DEF Items
  <2> QED BY <1>1, <2>1, InboxAssumption
<1> QED BY <1>1, <1>2, <1>3, <1>4

\* Reading a broadcast, or losing one, counts for every row.
LEMMA CountMoves ==
    ASSUME TypeInv, Len(heard') <= changes', Read' >= Read, Read' \in Nat,
           row' = row, Owes' => Owes \/ Read' >= Read + 1,
           task' # Rest => Read' >= 1 /\ (task'.item = NoItem \/ task' = task)
    PROVE  CountInv'
<1>1. /\ Read \in Nat /\ Len(heard) \in Nat
      /\ \A i \in InboxInstances : row[i] = NoItem \/ row[i].count \in Nat
      /\ task # Rest => task.item = NoItem \/ task.item.count \in Nat
  <2>1. task # Rest => task.item = NoItem \/ task.item \in Items
    BY DEF TypeInv, TaskInv, Works
  <2> QED BY <2>1, CountTyped
<1>2. ASSUME NEW i \in InboxInstances
      PROVE  Counted(row[i])'
  <2>1. Counted(row[i])
    BY DEF TypeInv, CountInv
  <2> QED BY <1>1, <2>1 DEF Counted
<1>3. ASSUME task' # Rest
      PROVE  Counted(task.item)'
  <2>1. CASE task' = task /\ task.item # NoItem
    <3>1. Counted(task.item)
      BY <1>3, <2>1 DEF TypeInv, CountInv
    <3> QED BY <1>1, <1>3, <2>1, <3>1 DEF Counted
  <2>2. CASE task'.item = NoItem
    BY <2>2 DEF Counted
  <2> QED BY <1>3, <2>1, <2>2
<1> QED BY <1>2, <1>3 DEF CountInv

LEMMA HeardIs ==
    ASSUME heard \in Seq([id : InboxInstances, state : States])
    PROVE  \A k \in DOMAIN heard : heard[k].id \in InboxInstances /\ heard[k].state \in States
<1> DEFINE S == [id : InboxInstances, state : States]
<1>1. \A m \in S : m.id \in InboxInstances /\ m.state \in States
  OBVIOUS
<1>2. heard \in Seq(S)
  OBVIOUS
<1> HIDE DEF S
<1>3. \A k \in DOMAIN heard : heard[k] \in S
  BY <1>2
<1> QED BY <1>1, <1>3

LEMMA TypeChange ==
    ASSUME TypeInv, NEW i \in InboxInstances, Change(i)
    PROVE  TypeInv'
<1>1. InboxTypeOK /\ TaskInv /\ CountInv
  BY DEF TypeInv
<1>2. PICK s \in States : /\ state' = [state EXCEPT ![i] = s]
                          /\ heard' = Queued(heard, HeardCap, [id |-> i, state |-> s])
  BY DEF Change
<1>3. /\ heard' \in Seq([id : InboxInstances, state : States]) /\ Len(heard') <= HeardCap
      /\ Len(heard) <= Len(heard') /\ Len(heard') <= Len(heard) + 1
  <2>1. heard \in Seq([id : InboxInstances, state : States]) /\ Len(heard) <= HeardCap /\ HeardCap \in Nat \ {0}
    BY <1>1, InboxAssumption DEF InboxTypeOK
  <2>2. [id |-> i, state |-> s] \in [id : InboxInstances, state : States]
    OBVIOUS
  <2> QED BY <1>2, <2>1, <2>2, QueuedType
<1>4. changes' = changes + 1 /\ changes < MaxChanges /\ UNCHANGED <<prev, task, row, dismissing, inboxLink, news, inboxWire, shown, inboxTorn, excused, failed>>
  BY DEF Change, clientVars
<1>5. changes \in Nat /\ Len(heard) \in Nat /\ Len(heard') \in Nat /\ Read \in Nat /\ MaxChanges \in Nat
  BY <1>3, CountTyped
<1>6. Len(heard') <= changes' /\ Read' >= Read /\ Read' \in Nat
  BY <1>1, <1>3, <1>4, <1>5 DEF Read, CountInv
<1>7. CountInv'
  BY <1>1, <1>4, <1>5, <1>6, CountMoves DEF Owes, CountInv
<1>8. missed' \subseteq InboxInstances
  <2>1. heard \in Seq([id : InboxInstances, state : States]) /\ missed \subseteq InboxInstances
    BY <1>1 DEF InboxTypeOK
  <2>2. \A k \in DOMAIN heard : heard[k].id \in InboxInstances
    BY <2>1, HeardIs
  <2> QED BY <2>1, <2>2 DEF Change
<1>9. InboxTypeOK'
  <2>1. state' \in [InboxInstances -> States \cup {"unborn", "gone"}]
    BY <1>1, <1>2 DEF InboxTypeOK
  <2>2. changes' \in 0..MaxChanges
    BY <1>4, <1>5
  <2> QED BY <1>1, <1>3, <1>4, <1>8, <2>1, <2>2 DEF InboxTypeOK
<1>10. TaskInv'
  BY <1>1, <1>4 DEF TaskInv
<1> QED BY <1>7, <1>9, <1>10 DEF TypeInv

LEMMA TypeRestart ==
    ASSUME TypeInv, RestartServer
    PROVE  TypeInv'
<1>1. InboxTypeOK /\ TaskInv /\ CountInv
  BY DEF TypeInv
<1>2. heard' = <<>> /\ task' = Rest /\ row' = row /\ changes' = changes
  BY DEF RestartServer
<1>3. CountInv'
  <2>1. changes \in Nat /\ Len(heard) \in Nat /\ Read \in Nat /\ Len(heard') = 0
    BY <1>2, CountTyped
  <2>2. Read' >= Read /\ Read' \in Nat /\ Len(heard') <= changes'
    BY <1>2, <2>1 DEF Read
  <2>3. ~Owes'
    BY <1>2 DEF Owes
  <2> QED BY <1>2, <2>2, <2>3, CountMoves
<1>4. TaskInv'
  BY <1>2 DEF TaskInv
<1>5. state' \in [InboxInstances -> States \cup {"unborn", "gone"}]
  BY DEF RestartServer
<1>6. heard' \in Seq([id : InboxInstances, state : States]) /\ news' \in Seq(Updates) /\ inboxWire' \in Seq(Updates \cup [list : InboxRows])
      /\ Len(heard') = 0 /\ Len(news') = 0 /\ Len(inboxWire') = 0
  BY EmptyRows DEF RestartServer
<1>7. prev' \in [InboxInstances -> States \cup {NoState}] /\ dismissing' \in [InboxInstances -> {"none", "deleted", "answered"}]
      /\ inboxLink' \in {"off", "listed", "on"}
  BY DEF RestartServer
<1>8. InboxTypeOK'
  <2>1. UNCHANGED <<row, shown, inboxTorn, excused, failed, missed, changes>>
    BY DEF RestartServer
  <2>2. HeardCap >= 0 /\ NewsCap >= 0 /\ InboxWireCap >= 0
    BY InboxAssumption
  <2> QED BY <1>1, <1>2, <1>5, <1>6, <1>7, <2>1, <2>2 DEF InboxTypeOK
<1> QED BY <1>3, <1>4, <1>8 DEF TypeInv

\* The watcher takes a broadcast: what it has to do fits the states before and
\* after.
LEMMA TakeIs ==
    ASSUME InboxTypeOK, Take
    PROVE  LET i == Head(heard).id
               s == Head(heard).state
               todo == Todo(prev[i], s)
           IN  /\ heard \in Seq([id : InboxInstances, state : States]) /\ heard # <<>> /\ heard' = Tail(heard)
               /\ i \in InboxInstances /\ s \in States /\ prev[i] \in States \cup {NoState}
               /\ todo = <<>> \/ todo \in Lists
               /\ prev' = [prev EXCEPT ![i] = s]
               /\ task = Rest /\ task' = IF todo = <<>> THEN Rest ELSE [id |-> i, todo |-> todo, stage |-> "begin", item |-> NoItem]
<1> DEFINE i == Head(heard).id
           s == Head(heard).state
<1>1. heard \in Seq([id : InboxInstances, state : States]) /\ heard # <<>> /\ heard' = Tail(heard) /\ task = Rest
  BY DEF Take, InboxTypeOK
<1>2. i \in InboxInstances /\ s \in States
  <2>1. Head(heard) = heard[1] /\ 1 \in DOMAIN heard
    BY <1>1
  <2> QED BY <1>1, <2>1, HeardIs
<1>3. prev[i] \in States \cup {NoState}
  BY <1>2 DEF InboxTypeOK
<1>4. Todo(prev[i], s) = <<>> \/ Todo(prev[i], s) \in Lists
  <2> DEFINE p == prev[i]
  <2>1. p \in States \cup {NoState} /\ s \in States
    BY <1>2, <1>3
  <2> HIDE DEF p, s
  <2>2. Todo(p, s) = <<>> \/ Todo(p, s) \in Lists
    BY <2>1, TodoIs DEF Lists, States
  <2> QED BY <2>2 DEF p
<1>5. /\ prev' = [prev EXCEPT ![i] = s]
      /\ task' = IF Todo(prev[i], s) = <<>> THEN Rest ELSE [id |-> i, todo |-> Todo(prev[i], s), stage |-> "begin", item |-> NoItem]
  BY DEF Take, At
<1> QED BY <1>1, <1>2, <1>3, <1>4, <1>5

LEMMA TypeTake ==
    ASSUME TypeInv, Take
    PROVE  TypeInv'
<1>1. InboxTypeOK /\ TaskInv /\ CountInv
  BY DEF TypeInv
<1> DEFINE i == Head(heard).id
           s == Head(heard).state
           todo == Todo(prev[i], s)
<1>2. /\ heard \in Seq([id : InboxInstances, state : States]) /\ heard # <<>> /\ heard' = Tail(heard)
      /\ i \in InboxInstances /\ s \in States
      /\ todo = <<>> \/ todo \in Lists
      /\ prev' = [prev EXCEPT ![i] = s]
      /\ task = Rest /\ task' = IF todo = <<>> THEN Rest ELSE [id |-> i, todo |-> todo, stage |-> "begin", item |-> NoItem]
  BY <1>1, TakeIs
<1>3. UNCHANGED <<state, row, dismissing, inboxLink, news, inboxWire, shown, inboxTorn, failed, missed, changes>> /\ excused' \in {excused, excused \cup {i}, excused \ {i}}
  BY DEF Take, clientVars
<1> HIDE DEF i, s, todo
<1>4. TaskInv'
  BY <1>2 DEF TaskInv, Works
<1>5. CountInv'
  <2>1. changes \in Nat /\ Len(heard) \in Nat /\ Read \in Nat /\ Len(heard') = Len(heard) - 1 /\ Len(heard) >= 1
    BY <1>2, CountTyped
  <2>2. Read' = Read + 1 /\ Len(heard') <= changes' /\ Read' \in Nat
    BY <1>1, <1>3, <2>1 DEF Read, CountInv
  <2>3. task' # Rest => task'.item = NoItem
    BY <1>2
  <2> QED BY <1>3, <2>1, <2>2, <2>3, CountMoves
<1>6. InboxTypeOK'
  <2>1. heard' \in Seq([id : InboxInstances, state : States]) /\ Len(heard') <= HeardCap
    <3>1. Len(heard') = Len(heard) - 1 /\ Len(heard) <= HeardCap /\ Len(heard) \in Nat /\ HeardCap \in Nat
      BY <1>1, <1>2, InboxAssumption DEF InboxTypeOK
    <3> QED BY <1>2, <3>1
  <2>2. prev' \in [InboxInstances -> States \cup {NoState}] /\ excused' \subseteq InboxInstances
    BY <1>1, <1>2, <1>3 DEF InboxTypeOK
  <2>3. task' = Rest \/ task' \in Tasks
    BY <1>4, WorksAreTasks DEF TaskInv
  <2> QED BY <1>1, <1>3, <2>1, <2>2, <2>3 DEF InboxTypeOK
<1> QED BY <1>4, <1>5, <1>6 DEF TypeInv

\* The watcher is at work: the row it has before it, and nothing else, changes.
LEMMA AtWork ==
    ASSUME TypeInv, Select \/ Increment \/ Replace \/ Clear \/ Tell \/ Fail
    PROVE  /\ task \in Works /\ task # Rest
           /\ UNCHANGED <<state, heard, prev, dismissing, inboxLink, inboxWire, shown, excused, missed, changes>>
           /\ task' = Rest \/ task' \in Works
           /\ \A i \in InboxInstances \ {task.id} : row'[i] = row[i]
<1>1. task.stage \in {"begin", "selected", "written"}
  BY DEF Select, Increment, Replace, Clear, Tell, Fail
<1>2. task \in Works /\ task # Rest
  BY <1>1 DEF TypeInv, TaskInv, Rest
<1>3. row \in InboxRows /\ (\A i \in InboxInstances : row[i] = NoItem \/ row[i] \in Items) /\ task.id \in InboxInstances
      /\ 1 <= MaxChanges /\ MaxChanges \in Nat
  <2>1. Read >= 1
    BY <1>2 DEF TypeInv, CountInv
  <2> QED BY <1>2, <2>1, CountTyped DEF TypeInv, InboxTypeOK, Works
<1>4. UNCHANGED <<state, heard, prev, dismissing, inboxLink, inboxWire, shown, excused, missed, changes>>
  BY DEF Select, Increment, Replace, Clear, Tell, Fail, clientVars
<1>5. \A i \in InboxInstances \ {task.id} : row'[i] = row[i]
  BY <1>3 DEF Select, Increment, Replace, Clear, Tell, Fail, InboxRows
<1>6. task' = Rest \/ task' \in Works
  <2>1. CASE Select
    BY <1>2, <1>3, <2>1, GoesIs DEF Select
  <2>2. CASE Increment
    <3> DEFINE item == [task.item EXCEPT !.count = @ + 1]
    <3>1. task.stage = "selected" /\ task.item # NoItem /\ Reaches("written", item) /\ Duty = Completed
      BY <2>2 DEF Increment
    <3>2. task.item \in Items
      BY <1>2, <3>1 DEF Works
    <3>3. Owes /\ Counted(task.item)
      BY <1>2, <3>1, StepIs, StepsDiffer DEF Owes, TypeInv, CountInv
    <3>4. task.item.count + 1 \in 1..MaxChanges
      BY <3>1, <3>2, <3>3, CountTyped DEF Counted
    <3>5. item \in Items
      BY <3>2, <3>4 DEF Items
    <3> QED BY <1>2, <3>1, <3>5, GoesIs
  <2>3. CASE Replace
    <3>1. Duty.type \in {"completed_turn", "needs_input"}
      BY <1>2, StepIs DEF Steps, Completed, NeedsInput, Responded, NewWork
    <3>2. [type |-> Duty.type, count |-> 1] \in Items
      BY <1>3, <3>1 DEF Items
    <3> QED BY <1>2, <2>3, <3>2, GoesIs DEF Replace
  <2>4. CASE Clear
    <3>1. Reaches("written", NoItem) \/ Proceed
      BY <2>4 DEF Clear, Cleared
    <3> QED BY <1>2, <3>1, GoesIs, ProceedIs
  <2>5. CASE Tell \/ Fail
    BY <1>2, <2>5, ProceedIs DEF Tell, Fail
  <2> QED BY <2>1, <2>2, <2>3, <2>4, <2>5
<1> QED BY <1>2, <1>4, <1>5, <1>6

\* What a step leaves of the rows, of the task, and of what is owed.
LEMMA TypeWork ==
    ASSUME TypeInv, Select \/ Increment \/ Replace \/ Clear \/ Tell \/ Fail
    PROVE  TypeInv'
<1>1. InboxTypeOK /\ TaskInv /\ CountInv
  BY DEF TypeInv
<1>2. /\ task \in Works /\ task # Rest
      /\ UNCHANGED <<state, heard, prev, dismissing, inboxLink, inboxWire, shown, excused, missed, changes>>
      /\ task' = Rest \/ task' \in Works
      /\ \A i \in InboxInstances \ {task.id} : row'[i] = row[i]
  BY AtWork
<1>3. /\ task.id \in InboxInstances /\ task.item \in Items \cup {NoItem}
      /\ 1 <= Read /\ Read \in Nat /\ Read <= MaxChanges /\ MaxChanges \in Nat /\ Read' = Read
      /\ row \in InboxRows
      /\ \A i \in InboxInstances : row[i] = NoItem \/ (row[i] \in Items /\ row[i].count \in Nat)
      /\ changes \in Nat /\ Len(heard) \in Nat
  <2>1. /\ Read \in Nat /\ Read <= MaxChanges /\ MaxChanges \in Nat /\ changes \in Nat /\ Len(heard) \in Nat
    BY CountTyped
  <2>2. \A i \in InboxInstances : row[i] = NoItem \/ (row[i] \in Items /\ row[i].count \in Nat)
    BY CountTyped
  <2>3. Read' = Read /\ 1 <= Read
    BY <1>1, <1>2 DEF Read, CountInv
  <2> QED BY <1>1, <1>2, <2>1, <2>2, <2>3 DEF Works, InboxTypeOK
<1>4. row' \in InboxRows /\ failed' \subseteq InboxInstances /\ news' \in Seq(Updates) /\ Len(news') <= NewsCap /\ inboxTorn' \subseteq InboxInstances
      /\ TaskInv' /\ CountInv'
  <2>1. CASE Select
    <3>1. /\ task.stage = "begin" /\ Duty.write /\ task'.id = task.id /\ task'.todo = task.todo /\ task'.stage = "selected" /\ task'.item = row[task.id]
          /\ task' \in Works /\ UNCHANGED <<news, inboxTorn, failed, row>>
      BY <1>2, <1>3, <2>1, GoesIs DEF Select, clientVars
    <3>2. TaskInv'
      BY <1>2, <3>1, StepIs DEF TaskInv
    <3>3. Owes' => Owes
      BY <1>2, <3>1 DEF Owes
    <3>4. Counted(row[task.id])'
      BY <1>1, <1>2, <1>3, <3>1, <3>3, CountedKeeps DEF CountInv, Counted
    <3>5. \A i \in InboxInstances : Counted(row[i])'
      BY <1>1, <1>2, <1>3, <3>1, <3>3 DEF CountInv, Counted
    <3>6. Counted(task.item)'
      BY <1>1, <1>2, <1>3, <3>1, <3>3 DEF CountInv, Counted
    <3> QED BY <1>1, <1>2, <1>3, <3>1, <3>2, <3>5, <3>6 DEF InboxTypeOK, CountInv
  <2>2. CASE Increment
    <3> DEFINE item == [task.item EXCEPT !.count = @ + 1]
    <3>1. /\ task.stage = "selected" /\ task.item # NoItem /\ Reaches("written", item) /\ Duty = Completed
          /\ row' = IF row[task.id] = NoItem THEN row ELSE [row EXCEPT ![task.id].count = item.count]
          /\ UNCHANGED <<news, inboxTorn, failed>>
      BY <2>2 DEF Increment, clientVars
    <3>2. Owes /\ Counted(task.item) /\ \A i \in InboxInstances : Counted(row[i])
      BY <1>1, <1>2, <3>1, StepIs, StepsDiffer DEF Owes, CountInv
    <3>3. task.item \in Items /\ task.item.count \in Nat /\ task.item.count + 1 <= Read /\ item.count = task.item.count + 1
      <4>1. task.item \in Items /\ task.item.count \in Nat /\ task.item.count < Read
        BY <1>3, <3>1, <3>2, CountTyped DEF Counted
      <4>2. item.count = task.item.count + 1
        BY <4>1 DEF Items
      <4> QED BY <1>3, <4>1, <4>2
    <3>4. item \in Items
      BY <1>3, <3>3 DEF Items
    <3>5. task'.stage = "written" /\ task'.item = item /\ task' \in Works
      BY <1>2, <3>1, <3>4, GoesIs
    <3>6. ~Owes'
      BY <3>5 DEF Owes
    <3>7. row' \in InboxRows /\ \A i \in InboxInstances : row'[i] = row[i] \/ (row'[i] # NoItem /\ row'[i].count = item.count)
      <4>1. CASE row[task.id] = NoItem
        BY <1>3, <3>1, <4>1
      <4>2. CASE row[task.id] # NoItem
        <5>1. row[task.id] \in Items
          BY <1>3, <4>2
        <5>2. row' = [row EXCEPT ![task.id].count = item.count]
          BY <3>1, <4>2
        <5> HIDE DEF item
        <5>3. [row[task.id] EXCEPT !.count = item.count] \in Items /\ [row[task.id] EXCEPT !.count = item.count].count = item.count
          BY <1>3, <3>3, <5>1 DEF Items
        <5>4. row' = [row EXCEPT ![task.id] = [row[task.id] EXCEPT !.count = item.count]]
          BY <5>2
        <5>5. row' \in InboxRows /\ row'[task.id] = [row[task.id] EXCEPT !.count = item.count] /\ \A i \in InboxInstances \ {task.id} : row'[i] = row[i]
          BY <1>3, <5>3, <5>4 DEF InboxRows
        <5> QED BY <5>3, <5>5, CountTyped
      <4> QED BY <4>1, <4>2
    <3>8. Counted(task.item)'
      BY <1>3, <3>3, <3>5, <3>6 DEF Counted
    <3>9. \A i \in InboxInstances : Counted(row[i])'
      BY <1>3, <3>2, <3>3, <3>6, <3>7 DEF Counted
    <3>10. CountInv'
      BY <1>1, <1>2, <1>3, <3>8, <3>9 DEF CountInv
    <3>11. TaskInv'
      BY <3>5 DEF TaskInv
    <3> QED BY <1>1, <3>1, <3>7, <3>10, <3>11 DEF InboxTypeOK
  <2>3. CASE Replace
    <3> DEFINE item == [type |-> Duty.type, count |-> 1]
    <3>1. Reaches("written", item) /\ row' = [row EXCEPT ![task.id] = item] /\ UNCHANGED <<news, inboxTorn, failed>>
      BY <2>3 DEF Replace, clientVars
    <3>2. item \in Items /\ item.count = 1
      <4>1. Duty.type \in {"completed_turn", "needs_input"}
        BY <1>2, StepIs DEF Steps, Completed, NeedsInput, Responded, NewWork
      <4> QED BY <1>3, <4>1 DEF Items
    <3> HIDE DEF item
    <3>3. task'.stage = "written" /\ task'.item = item /\ task' \in Works
      BY <1>2, <3>1, <3>2, GoesIs
    <3>4. ~Owes'
      BY <3>3 DEF Owes
    <3>5. row' \in InboxRows /\ row'[task.id] = item
      BY <1>3, <3>1, <3>2 DEF InboxRows
    <3>6. Counted(task.item)'
      BY <1>3, <3>2, <3>3, <3>4 DEF Counted
    <3>7. \A i \in InboxInstances : Counted(row[i])'
      BY <1>1, <1>2, <1>3, <3>2, <3>4, <3>5 DEF Counted, CountInv
    <3>8. CountInv'
      BY <1>1, <1>2, <1>3, <3>6, <3>7 DEF CountInv
    <3>9. TaskInv'
      BY <3>3 DEF TaskInv
    <3> QED BY <1>1, <3>1, <3>5, <3>8, <3>9 DEF InboxTypeOK
  <2>4. CASE Clear
    <3>1. /\ ~Duty.write /\ UNCHANGED <<news, inboxTorn, failed>>
          /\ Reaches("written", NoItem) \/ Proceed
          /\ row' = row \/ row' = [row EXCEPT ![task.id] = NoItem]
      BY <2>4 DEF Clear, Cleared, clientVars
    <3>2. /\ task' = Rest \/ (task' \in Works /\ task'.item = NoItem)
          /\ TaskInv'
      <4>1. CASE Reaches("written", NoItem)
        BY <1>2, <4>1, GoesIs DEF TaskInv
      <4>2. CASE Proceed
        <5>1. task' = Rest \/ task' = [id |-> task.id, todo |-> <<NewWork>>, stage |-> "begin", item |-> NoItem]
          BY <1>2, <4>2, ProceedIs
        <5>2. task' = Rest \/ (task'.item = NoItem /\ task'.stage = "begin")
          BY <5>1
        <5> QED BY <1>2, <5>2 DEF TaskInv
      <4> QED BY <3>1, <4>1, <4>2
    <3>3. ~Owes'
      <4>1. CASE Reaches("written", NoItem)
        BY <1>2, <4>1, GoesIs DEF Owes
      <4>2. CASE Proceed
        BY <1>2, <4>2, ProceedOwes
      <4> QED BY <3>1, <4>1, <4>2
    <3>4. row' \in InboxRows /\ \A i \in InboxInstances : row'[i] \in {row[i], NoItem}
      BY <1>3, <3>1 DEF InboxRows
    <3>5. CountInv'
      BY <1>1, <1>2, <3>2, <3>3, <3>4, CountKeeps
    <3> QED BY <1>1, <3>1, <3>2, <3>4, <3>5 DEF InboxTypeOK
  <2>5. CASE Tell \/ Fail
    <3>1. Proceed /\ row' = row
      BY <2>5 DEF Tell, Fail
    <3>2. (task' # Rest => task'.item = NoItem /\ task'.stage = "begin") /\ ~Owes'
      BY <1>2, <3>1, ProceedIs, ProceedOwes
    <3>3. TaskInv' /\ CountInv'
      <4>1. TaskInv'
        BY <1>2, <3>2 DEF TaskInv
      <4>2. CountInv'
        BY <1>1, <1>2, <3>1, <3>2, CountKeeps
      <4> QED BY <4>1, <4>2
    <3>4. CASE Tell
      <4>1. Broadcast(task.id, task.item) /\ failed' = failed
        BY <3>4 DEF Tell
      <4>2. news' \in Seq(Updates) /\ Len(news') <= NewsCap /\ inboxTorn' \subseteq InboxInstances
        BY <1>1, <1>3, <4>1, BroadcastType
      <4> QED BY <1>1, <1>3, <3>1, <3>3, <4>1, <4>2 DEF InboxTypeOK
    <3>5. CASE Fail
      <4>1. failed' = failed \cup {task.id} /\ UNCHANGED <<news, inboxTorn>>
        BY <3>5 DEF Fail, clientVars
      <4> QED BY <1>1, <1>3, <3>1, <3>3, <4>1 DEF InboxTypeOK
    <3> QED BY <2>5, <3>4, <3>5
  <2> QED BY <2>1, <2>2, <2>3, <2>4, <2>5
<1>5. task' = Rest \/ task' \in Tasks
  BY <1>2, WorksAreTasks
<1>6. InboxTypeOK'
  BY <1>1, <1>2, <1>4, <1>5 DEF InboxTypeOK
<1> QED BY <1>4, <1>6 DEF TypeInv

LEMMA TypeNext ==
    ASSUME TypeInv, [InboxNext]_inboxVars
    PROVE  TypeInv'
<1>1. CASE InboxNext
  BY <1>1, TypeOthers, TypeChange, TypeConnection, TypeTake, TypeWork, TypeRestart DEF InboxNext
<1>2. CASE UNCHANGED inboxVars
  <2>1. TaskInv' /\ CountInv' /\ InboxTypeOK'
    BY <1>2 DEF TypeInv, TaskInv, CountInv, InboxTypeOK, Counted, Read, Owes, inboxVars, watcherVars, clientVars
  <2> QED BY <2>1 DEF TypeInv
<1> QED BY <1>1, <1>2

\* Every variable has its type: no row counts more turns than broadcasts were
\* made, and no channel or queue holds more than its capacity.
THEOREM InboxTypeCorrect == InboxSpec => []InboxTypeOK
<1>1. InboxInit => TypeInv
  BY TypeInit
<1>2. TypeInv /\ [InboxNext]_inboxVars => TypeInv'
  BY TypeNext
<1>3. TypeInv => InboxTypeOK
  BY DEF TypeInv
<1> QED BY <1>1, <1>2, <1>3, PTL DEF InboxSpec

-----------------------------------------------------------------------------
(* What a queue says of an instance, as messages join and leave it.            *)

LEMMA AppendSays ==
    ASSUME NEW S, NEW q \in Seq(S), NEW m \in S, NEW i, NEW v
    PROVE  /\ Says(m, i) /\ Told(m, i) = v => LastSays(Append(q, m), i, v)
           /\ ~Says(m, i) => /\ Silent(q, i) => Silent(Append(q, m), i)
                             /\ LastSays(q, i, v) => LastSays(Append(q, m), i, v)
<1> DEFINE r == Append(q, m)
<1>1. Len(r) = Len(q) + 1 /\ r[Len(r)] = m /\ Len(r) \in DOMAIN r /\ DOMAIN r = 1..Len(r) /\ Len(q) \in Nat /\ Len(r) \in Nat
      /\ DOMAIN q = 1..Len(q) /\ \A k \in 1..Len(q) : r[k] = q[k]
  OBVIOUS
<1> HIDE DEF r
<1>2. Says(m, i) /\ Told(m, i) = v => LastSays(r, i, v)
  BY <1>1 DEF LastSays
<1>3. ASSUME ~Says(m, i), Silent(q, i)
      PROVE  Silent(r, i)
  <2>1. \A k \in 1..Len(r) : k = Len(r) \/ k \in 1..Len(q)
    BY <1>1
  <2> QED BY <1>1, <1>3, <2>1 DEF Silent
<1>4. ASSUME ~Says(m, i), LastSays(q, i, v)
      PROVE  LastSays(r, i, v)
  <2>1. PICK k \in 1..Len(q) : Says(q[k], i) /\ Told(q[k], i) = v /\ \A l \in (k + 1)..Len(q) : ~Says(q[l], i)
    BY <1>1, <1>4 DEF LastSays
  <2>2. \A l \in (k + 1)..Len(r) : l = Len(r) \/ (l \in (k + 1)..Len(q) /\ l \in 1..Len(q))
    BY <1>1
  <2>3. \A l \in (k + 1)..Len(r) : ~Says(r[l], i)
    BY <1>1, <1>4, <2>1, <2>2
  <2>4. k \in DOMAIN r /\ r[k] = q[k]
    BY <1>1
  <2> QED BY <2>1, <2>3, <2>4 DEF LastSays
<1> QED BY <1>2, <1>3, <1>4 DEF r

LEMMA TailSays ==
    ASSUME NEW S, NEW q \in Seq(S), q # <<>>, NEW i, NEW v
    PROVE  /\ Silent(q, i) => ~Says(Head(q), i) /\ Silent(Tail(q), i)
           /\ LastSays(q, i, v) => \/ LastSays(Tail(q), i, v)
                                   \/ Says(Head(q), i) /\ Told(Head(q), i) = v /\ Silent(Tail(q), i)
<1> DEFINE r == Tail(q)
<1>1. Len(q) \in Nat /\ Len(q) >= 1 /\ Len(r) = Len(q) - 1 /\ DOMAIN q = 1..Len(q) /\ DOMAIN r = 1..Len(r) /\ Head(q) = q[1]
      /\ \A k \in 1..Len(r) : r[k] = q[k + 1]
  OBVIOUS
<1> HIDE DEF r
<1>2. ASSUME Silent(q, i)
      PROVE  ~Says(Head(q), i) /\ Silent(r, i)
  <2>1. 1 \in 1..Len(q) /\ \A k \in 1..Len(r) : k + 1 \in 1..Len(q)
    BY <1>1
  <2> QED BY <1>1, <1>2, <2>1 DEF Silent
<1>3. ASSUME LastSays(q, i, v)
      PROVE  \/ LastSays(r, i, v)
             \/ Says(Head(q), i) /\ Told(Head(q), i) = v /\ Silent(r, i)
  <2>1. PICK k \in 1..Len(q) : Says(q[k], i) /\ Told(q[k], i) = v /\ \A l \in (k + 1)..Len(q) : ~Says(q[l], i)
    BY <1>1, <1>3 DEF LastSays
  <2>2. CASE k = 1
    <3>1. \A l \in 1..Len(r) : l + 1 \in (k + 1)..Len(q)
      BY <1>1, <2>2
    <3> QED BY <1>1, <2>1, <2>2, <3>1 DEF Silent
  <2>3. CASE k # 1
    <3>1. k - 1 \in 1..Len(r) /\ r[k - 1] = q[k]
      BY <1>1, <2>3
    <3>2. \A l \in (k - 1 + 1)..Len(r) : l \in 1..Len(r) /\ l + 1 \in (k + 1)..Len(q)
      BY <1>1, <2>3
    <3>3. \A l \in (k - 1 + 1)..Len(r) : ~Says(r[l], i)
      BY <1>1, <2>1, <3>2
    <3> QED BY <1>1, <2>1, <3>1, <3>3 DEF LastSays
  <2> QED BY <2>2, <2>3
<1> QED BY <1>2, <1>3 DEF r

LEMMA NothingSaid == \A i : Silent(<<>>, i)
BY DEF Silent

\* What an update says, and what a list says.
LEMMA SaysIs ==
    /\ \A m \in Updates : ~IsList(m) /\ \A i : (Says(m, i) <=> m.id = i) /\ Told(m, i) = m.item
    /\ \A m \in [list : InboxRows] : IsList(m) /\ \A i : Says(m, i) /\ Told(m, i) = m.list[i]
BY DEF Updates, IsList, Says, Told

\* The client still learns the row of an instance that is not torn when another's
\* is told, and learns a row that is told as it is.
LEMMA BroadcastTells ==
    ASSUME InboxTypeOK, NEW j \in InboxInstances, NEW item \in Items \cup {NoItem}, Broadcast(j, item),
           UNCHANGED <<inboxWire, shown, row, inboxLink>>, inboxLink # "on" => news = <<>>,
           NEW i \in InboxInstances, i \notin inboxTorn',
           i # j /\ i \notin inboxTorn => Word(i, row[i])
    PROVE  /\ inboxLink' # "on" => news' = <<>>
           /\ Word(i, row[i])'
<1> DEFINE m == [id |-> j, item |-> item]
           q == IF Len(news) < NewsCap THEN news ELSE Tail(news)
<1>1. m \in Updates /\ news \in Seq(Updates) /\ NewsCap \in Nat \ {0}
  BY InboxAssumption DEF Updates, InboxTypeOK
<1>2. news' = IF inboxLink = "on" THEN Append(q, m) ELSE news
  BY DEF Broadcast, Queued
<1>3. CASE inboxLink # "on"
  <2>1. news' = <<>> /\ news = <<>> /\ i # j /\ i \notin inboxTorn
    BY <1>2, <1>3 DEF Broadcast
  <2>2. Word(i, row[i])
    BY <2>1
  <2>3. news' = news /\ inboxWire' = inboxWire /\ shown' = shown /\ row' = row
    BY <2>1
  <2> QED BY <2>1, <2>2, <2>3 DEF Word
<1>4. CASE inboxLink = "on"
  <2>1. q \in Seq(Updates)
    BY <1>1
  <2>2. CASE i = j
    <3>1. row[i] = item
      BY <1>4, <2>2 DEF Broadcast
    <3>2. Says(m, i) /\ Told(m, i) = row[i]
      BY <1>1, <2>2, <3>1, SaysIs
    <3>3. LastSays(news', i, row'[i])
      BY <1>1, <1>2, <1>4, <2>1, <3>2, AppendSays
    <3> QED BY <1>4, <3>3 DEF Word
  <2>3. CASE i # j
    <3>1. ~Says(m, i)
      BY <1>1, <2>3, SaysIs
    <3>2. i \notin inboxTorn /\ (Len(news) >= NewsCap => Head(news).id # i)
      BY <1>4, <2>3 DEF Broadcast
    <3>3. (LastSays(news, i, row[i]) => LastSays(q, i, row[i])) /\ (Silent(news, i) => Silent(q, i))
      <4>1. CASE Len(news) < NewsCap
        BY <4>1
      <4>2. CASE ~(Len(news) < NewsCap)
        <5>1. news # <<>> /\ Len(news) >= NewsCap /\ q = Tail(news)
          BY <1>1, <4>2
        <5>2. Head(news) \in Updates
          BY <1>1, <5>1
        <5>3. ~Says(Head(news), i)
          BY <3>2, <5>1, <5>2, SaysIs
        <5> HIDE DEF q
        <5> QED BY <1>1, <5>1, <5>3, TailSays
      <4> QED BY <4>1, <4>2
    <3>4. Word(i, row[i])
      BY <2>3, <3>2
    <3> HIDE DEF q, m
    <3>5. /\ LastSays(q, i, row[i]) => LastSays(Append(q, m), i, row[i])
          /\ Silent(q, i) => Silent(Append(q, m), i)
      BY <1>1, <2>1, <3>1, AppendSays
    <3> QED BY <1>2, <1>4, <3>3, <3>4, <3>5 DEF Word
  <2> QED BY <1>4, <2>2, <2>3
<1> QED BY <1>3, <1>4

\* What the client will show of i is as it was, and so is the row.
LEMMA WordStays ==
    ASSUME NEW i, Word(i, row[i]), UNCHANGED <<news, inboxWire>>, shown'[i] = shown[i], row'[i] = row[i]
    PROVE  Word(i, row[i])'
BY DEF Word

LEMMA WordInit == ASSUME InboxInit PROVE WordInv
BY DEF InboxInit, WordInv

LEMMA WordOthers ==
    ASSUME TypeInv, WordInv, NEW j \in InboxInstances,
           Create(j) \/ Change(j) \/ EndInstance(j) \/ Dismiss(j) \/ Dismissed(j) \/ Forget(j)
    PROVE  WordInv'
<1>1. InboxTypeOK /\ row \in InboxRows /\ shown \in InboxRows /\ inboxTorn \subseteq InboxInstances /\ dismissing \in [InboxInstances -> {"none", "deleted", "answered"}]
  BY DEF TypeInv, InboxTypeOK
<1>2. CASE Create(j) \/ Change(j) \/ EndInstance(j)
  <2>1. UNCHANGED <<task, row, dismissing, inboxLink, news, inboxWire, shown, inboxTorn>>
    BY <1>2 DEF Create, Change, EndInstance, watcherVars, clientVars
  <2>2. \A i \in InboxInstances : Untold(i)' <=> Untold(i)
    BY <2>1 DEF Untold
  <2> QED BY <2>1, <2>2, WordStays DEF WordInv
<1>3. CASE Dismiss(j)
  <2>1. UNCHANGED <<task, inboxLink, news, inboxWire, shown, inboxTorn>> /\ dismissing'[j] = "deleted"
        /\ \A i \in InboxInstances \ {j} : dismissing'[i] = dismissing[i] /\ row'[i] = row[i]
    BY <1>1, <1>3 DEF Dismiss, watcherVars, clientVars, InboxRows
  <2>2. \A i \in InboxInstances : Untold(i)' <=> Untold(i)
    BY <2>1 DEF Untold
  <2> QED BY <2>1, <2>2, WordStays DEF WordInv
<1>4. CASE Dismissed(j)
  <2>1. UNCHANGED <<task, inboxLink, inboxWire, shown, row>> /\ Broadcast(j, NoItem)
        /\ \A i \in InboxInstances \ {j} : dismissing'[i] = dismissing[i]
    BY <1>1, <1>4 DEF Dismissed, watcherVars
  <2>2. \A i \in InboxInstances : Untold(i)' <=> Untold(i)
    BY <2>1 DEF Untold
  <2>3. inboxLink # "on" => news' = <<>>
    BY <2>1 DEF Broadcast, WordInv
  <2>4. ASSUME inboxLink' # "off", NEW i \in InboxInstances \ inboxTorn', ~Untold(i)', dismissing'[i] # "deleted"
        PROVE  Word(i, row[i])'
    <3>1. i # j => i \notin inboxTorn
      BY <2>1, <2>4 DEF Broadcast
    <3>2. i # j => Word(i, row[i])
      BY <2>1, <2>2, <2>4, <3>1 DEF WordInv
    <3> QED BY <1>1, <2>1, <2>4, <3>2, BroadcastTells DEF WordInv
  <2> QED BY <2>1, <2>3, <2>4 DEF WordInv
<1>5. CASE Forget(j)
  <2>1. UNCHANGED <<task, inboxLink, news, inboxWire, row>> /\ shown'[j] = NoItem
        /\ dismissing[j] = "answered" /\ inboxTorn' = (IF row[j] = NoItem THEN inboxTorn ELSE inboxTorn \cup {j})
        /\ \A i \in InboxInstances \ {j} : dismissing'[i] = dismissing[i] /\ shown'[i] = shown[i]
    BY <1>1, <1>5 DEF Forget, watcherVars, InboxRows
  <2>2. \A i \in InboxInstances : Untold(i)' <=> Untold(i)
    BY <2>1 DEF Untold
  <2>3. ASSUME inboxLink' # "off", NEW i \in InboxInstances \ inboxTorn', ~Untold(i)', dismissing'[i] # "deleted"
        PROVE  Word(i, row[i])'
    <3>1. i \notin inboxTorn /\ dismissing[i] # "deleted" /\ ~Untold(i) /\ inboxLink # "off"
      BY <2>1, <2>2, <2>3
    <3>2. Word(i, row[i])
      BY <3>1 DEF WordInv
    <3>3. CASE i # j
      BY <2>1, <3>2, <3>3, WordStays
    <3>4. CASE i = j
      <4>1. row[i] = NoItem /\ shown'[i] = row'[i] /\ row'[i] = row[i]
        BY <2>1, <2>3, <3>4
      <4> QED BY <2>1, <3>2, <4>1 DEF Word
    <3> QED BY <3>3, <3>4
  <2> QED BY <2>1, <2>3 DEF WordInv
<1> QED BY <1>2, <1>3, <1>4, <1>5

LEMMA WordConnection ==
    ASSUME TypeInv, WordInv, ConnectInbox \/ SubscribeNews \/ Forward \/ DeliverInbox \/ DisconnectInbox
    PROVE  WordInv'
<1>1. row \in InboxRows /\ shown \in InboxRows /\ inboxTorn \subseteq InboxInstances /\ news \in Seq(Updates) /\ inboxWire \in Seq(Updates \cup [list : InboxRows])
  BY DEF TypeInv, InboxTypeOK
<1>2. UNCHANGED <<task, row, dismissing>>
  BY DEF ConnectInbox, SubscribeNews, Forward, DeliverInbox, DisconnectInbox, watcherVars
<1>3. \A i \in InboxInstances : Untold(i)' <=> Untold(i)
  BY <1>2 DEF Untold
<1>4. CASE ConnectInbox
  <2>1. inboxLink = "off" /\ inboxLink' = "listed" /\ news' = <<>> /\ news = <<>> /\ shown' = shown
    BY <1>4 DEF ConnectInbox, WordInv
  <2>2. ASSUME NEW i \in InboxInstances \ inboxTorn'
        PROVE  Word(i, row[i])'
    <3>1. \/ inboxWire' = <<[list |-> row]>>
          \/ inboxWire' = <<>> /\ inboxTorn' = {j \in InboxInstances : shown[j] # row[j]}
      BY <1>4 DEF ConnectInbox
    <3>2. CASE inboxWire' = <<[list |-> row]>>
      <4> DEFINE m == [list |-> row]
      <4>1. m \in [list : InboxRows] /\ m.list = row
        BY <1>1
      <4>2. Says(m, i) /\ Told(m, i) = row[i]
        BY <4>1, SaysIs
      <4> HIDE DEF m
      <4>3. inboxWire' = <<m>> /\ Len(<<m>>) = 1 /\ <<m>>[1] = m /\ DOMAIN <<m>> = 1..1
        BY <3>2 DEF m
      <4>4. \A l \in (1 + 1)..1 : FALSE
        OBVIOUS
      <4>5. LastSays(inboxWire', i, row[i])
        BY <4>2, <4>3, <4>4 DEF LastSays
      <4> QED BY <1>2, <2>1, <4>5, NothingSaid DEF Word
    <3>3. CASE inboxWire' = <<>> /\ inboxTorn' = {j \in InboxInstances : shown[j] # row[j]}
      <4>1. shown[i] = row[i]
        BY <2>2, <3>3
      <4> QED BY <1>2, <2>1, <3>3, <4>1, NothingSaid DEF Word
    <3> QED BY <3>1, <3>2, <3>3
  <2> QED BY <2>1, <2>2 DEF WordInv
<1>5. CASE SubscribeNews
  <2>1. inboxLink = "listed" /\ inboxLink' = "on" /\ UNCHANGED <<news, inboxWire, shown, inboxTorn>>
    BY <1>5 DEF SubscribeNews
  <2> QED BY <1>2, <1>3, <2>1, WordStays DEF WordInv
<1>6. CASE Forward
  <2>1. inboxLink = "on" /\ inboxLink' = "on" /\ news # <<>> /\ inboxWire' = Append(inboxWire, Head(news)) /\ news' = Tail(news) /\ UNCHANGED <<shown, inboxTorn>>
    BY <1>6 DEF Forward
  <2>2. ASSUME NEW i, Word(i, row[i])
        PROVE  Word(i, row[i])'
    <3> DEFINE v == row[i]  m == Head(news)  S == Updates \cup [list : InboxRows]
    <3>1. m \in Updates /\ m \in S /\ inboxWire \in Seq(S)
      BY <1>1, <2>1
    <3>2. row'[i] = v /\ inboxWire' = Append(inboxWire, m)
      BY <1>2, <2>1
    <3> HIDE DEF v, S
    <3>3. /\ Says(m, i) /\ Told(m, i) = v => LastSays(inboxWire', i, v)
          /\ ~Says(m, i) => /\ Silent(inboxWire, i) => Silent(inboxWire', i)
                            /\ LastSays(inboxWire, i, v) => LastSays(inboxWire', i, v)
      BY <3>1, <3>2, AppendSays
    <3>4. /\ Silent(news, i) => ~Says(m, i) /\ Silent(news', i)
          /\ LastSays(news, i, v) => \/ LastSays(news', i, v)
                                     \/ Says(m, i) /\ Told(m, i) = v /\ Silent(news', i)
      BY <1>1, <2>1, TailSays
    <3>5. LastSays(news, i, v) \/ (Silent(news, i) /\ (LastSays(inboxWire, i, v) \/ (Silent(inboxWire, i) /\ shown[i] = v)))
      BY <2>2 DEF Word, v
    <3>6. LastSays(news', i, v) \/ (Silent(news', i) /\ (LastSays(inboxWire', i, v) \/ (Silent(inboxWire', i) /\ shown'[i] = v)))
      BY <2>1, <3>3, <3>4, <3>5
    <3> QED BY <3>2, <3>6 DEF Word
  <2> QED BY <1>2, <1>3, <2>1, <2>2 DEF WordInv
<1>7. CASE DeliverInbox
  <2>1. inboxWire # <<>> /\ inboxWire' = Tail(inboxWire) /\ UNCHANGED <<inboxLink, news, inboxTorn>>
        /\ shown' = (IF IsList(Head(inboxWire)) THEN Head(inboxWire).list ELSE [shown EXCEPT ![Head(inboxWire).id] = Head(inboxWire).item])
    BY <1>7 DEF DeliverInbox, IsList
  <2>2. ASSUME NEW i \in InboxInstances, Word(i, row[i])
        PROVE  Word(i, row[i])'
    <3> DEFINE v == row[i]  m == Head(inboxWire)  S == Updates \cup [list : InboxRows]
    <3>1. m \in S /\ inboxWire \in Seq(S)
      BY <1>1, <2>1
    <3>2. row'[i] = v
      BY <1>2
    <3>3. /\ Says(m, i) => shown'[i] = Told(m, i)
          /\ ~Says(m, i) => shown'[i] = shown[i]
      BY <1>1, <2>1, <2>2 DEF Says, Told, InboxRows
    <3> HIDE DEF v, S, m
    <3>4. /\ Silent(inboxWire, i) => ~Says(m, i) /\ Silent(inboxWire', i)
          /\ LastSays(inboxWire, i, v) => \/ LastSays(inboxWire', i, v)
                                          \/ Says(m, i) /\ Told(m, i) = v /\ Silent(inboxWire', i)
      BY <2>1, <3>1, TailSays DEF m
    <3>5. LastSays(news, i, v) \/ (Silent(news, i) /\ (LastSays(inboxWire, i, v) \/ (Silent(inboxWire, i) /\ shown[i] = v)))
      BY <2>2 DEF Word, v
    <3>6. LastSays(news', i, v) \/ (Silent(news', i) /\ (LastSays(inboxWire', i, v) \/ (Silent(inboxWire', i) /\ shown'[i] = v)))
      BY <2>1, <3>3, <3>4, <3>5
    <3> QED BY <3>2, <3>6 DEF Word
  <2> QED BY <1>2, <1>3, <2>1, <2>2 DEF WordInv
<1>8. CASE DisconnectInbox
  BY <1>8 DEF DisconnectInbox, WordInv
<1> QED BY <1>4, <1>5, <1>6, <1>7, <1>8

LEMMA WordWatcher ==
    ASSUME TypeInv, WordInv, Take \/ Select \/ Increment \/ Replace \/ Clear \/ Tell \/ Fail
    PROVE  WordInv'
<1>1. InboxTypeOK
  BY DEF TypeInv
<1>2. CASE Take
  <2>1. UNCHANGED <<row, dismissing, inboxLink, news, inboxWire, shown, inboxTorn>>
    BY <1>2 DEF Take, clientVars
  <2>2. \A i \in InboxInstances : ~Untold(i)
    BY <1>2 DEF Take, Untold
  <2> QED BY <2>1, <2>2, WordStays DEF WordInv
<1>3. CASE Select \/ Fail \/ (Clear /\ row' = row)
  <2>1. UNCHANGED <<row, dismissing, inboxLink, news, inboxWire, shown, inboxTorn>> /\ task.stage # "written"
    BY <1>3 DEF Select, Fail, Clear, clientVars
  <2>2. \A i \in InboxInstances : ~Untold(i)
    BY <2>1 DEF Untold
  <2> QED BY <2>1, <2>2, WordStays DEF WordInv
<1>4. CASE Increment \/ Replace \/ (Clear /\ row' # row)
  <2>1. UNCHANGED <<dismissing, inboxLink, news, inboxWire, shown, inboxTorn>> /\ task.stage # "written"
        /\ \E item : Reaches("written", item)
    BY <1>4 DEF Increment, Replace, Clear, Cleared, clientVars
  <2>2. task \in Works /\ \A i \in InboxInstances \ {task.id} : row'[i] = row[i]
    BY <1>4, AtWork
  <2>3. task'.stage = "written" /\ task'.id = task.id /\ task' # Rest
    BY <2>1, <2>2 DEF Reaches, Works, Rest
  <2>4. \A i \in InboxInstances : ~Untold(i) /\ (i # task.id \/ Untold(i)')
    BY <2>1, <2>3 DEF Untold
  <2>5. \A i \in InboxInstances \ inboxTorn' : inboxLink' # "off" /\ dismissing'[i] # "deleted" /\ ~Untold(i)' => Word(i, row[i])'
    BY <2>1, <2>2, <2>4, WordStays DEF WordInv
  <2> QED BY <2>1, <2>5 DEF WordInv
<1>5. CASE Tell
  <2>1. task \in Works /\ UNCHANGED <<dismissing, inboxLink, inboxWire, shown>>
    BY <1>5, AtWork
  <2>2. row' = row /\ Broadcast(task.id, task.item) /\ task.id \in InboxInstances /\ task.item \in Items \cup {NoItem}
    BY <1>5, <2>1 DEF Tell, Works
  <2>3. inboxLink # "on" => news' = <<>>
    BY <2>2 DEF Broadcast, WordInv
  <2>4. ASSUME inboxLink' # "off", NEW i \in InboxInstances \ inboxTorn', dismissing'[i] # "deleted"
        PROVE  Word(i, row[i])'
    <3>1. i # task.id => i \notin inboxTorn /\ ~Untold(i)
      BY <2>2, <2>4 DEF Broadcast, Untold
    <3>2. i # task.id => Word(i, row[i])
      BY <2>1, <2>4, <3>1 DEF WordInv
    <3> QED BY <1>1, <2>1, <2>2, <2>4, <3>2, BroadcastTells DEF WordInv
  <2> QED BY <2>1, <2>3, <2>4 DEF WordInv
<1> QED BY <1>2, <1>3, <1>4, <1>5

LEMMA WordNext ==
    ASSUME TypeInv, WordInv, [InboxNext]_inboxVars
    PROVE  WordInv'
<1>1. CASE UNCHANGED inboxVars
  <2>1. UNCHANGED <<task, row, dismissing, inboxLink, news, inboxWire, shown, inboxTorn>>
    BY <1>1 DEF inboxVars, watcherVars, clientVars
  <2>2. \A i \in InboxInstances : Untold(i)' <=> Untold(i)
    BY <2>1 DEF Untold
  <2> QED BY <2>1, <2>2, WordStays DEF WordInv
<1>2. CASE RestartServer
  BY <1>2 DEF RestartServer, WordInv
<1>3. CASE InboxNext /\ ~RestartServer
  BY <1>3, WordOthers, WordConnection, WordWatcher DEF InboxNext
<1> QED BY <1>1, <1>2, <1>3

\* The client shows of each instance the row the table has, once every update
\* has arrived, but for what it missed for good.
THEOREM InStepCorrect == InboxSpec => []InboxInStep
<1>1. InboxInit => TypeInv /\ WordInv
  BY TypeInit, WordInit
<1>2. TypeInv /\ WordInv /\ [InboxNext]_inboxVars => TypeInv' /\ WordInv'
  BY TypeNext, WordNext
<1>3. TypeInv /\ WordInv => InboxInStep
  <2> SUFFICES ASSUME TypeInv, WordInv, inboxLink = "on", inboxWire = <<>>, news = <<>>, NEW i \in InboxInstances \ inboxTorn,
                      dismissing[i] = "none", ~(task.stage = "written" /\ task.id = i)
               PROVE  shown[i] = row[i]
    BY DEF InboxInStep
  <2>1. Word(i, row[i])
    BY DEF WordInv, Untold
  <2>2. \A v : ~LastSays(<<>>, i, v)
    BY DEF LastSays
  <2> QED BY <2>1, <2>2 DEF Word
<1> QED BY <1>1, <1>2, <1>3, PTL DEF InboxSpec

-----------------------------------------------------------------------------
(* What the watcher has heard, and what it owes the rows.                      *)

\* A queue that takes a message keeps its order and loses at most its first.
LEMMA QueuedIs ==
    ASSUME NEW S, NEW q \in Seq(S), NEW m \in S, NEW cap \in Nat \ {0}
    PROVE  \E r \in Seq(S) :
               /\ r = Queued(q, cap, m)
               /\ Len(r) \in Nat /\ Len(q) \in Nat /\ DOMAIN r = 1..Len(r) /\ DOMAIN q = 1..Len(q)
               /\ Len(r) >= 1 /\ r[Len(r)] = m
               /\ \E d \in {0, 1} : Len(r) = Len(q) - d + 1 /\ \A k \in 1..(Len(r) - 1) : r[k] = q[k + d]
<1> DEFINE b == IF Len(q) < cap THEN q ELSE Tail(q)
           r == Append(b, m)
<1>1. Queued(q, cap, m) = r
  BY DEF Queued
<1>2. PICK d \in {0, 1} : b \in Seq(S) /\ Len(b) = Len(q) - d /\ \A k \in 1..Len(b) : b[k] = q[k + d]
  <2>1. CASE Len(q) < cap
    <3>1. b \in Seq(S) /\ Len(b) = Len(q) - 0 /\ \A k \in 1..Len(b) : b[k] = q[k + 0]
      BY <2>1
    <3> QED BY <3>1
  <2>2. CASE ~(Len(q) < cap)
    <3>1. q # <<>> /\ b = Tail(q)
      BY <2>2
    <3>2. Tail(q) \in Seq(S) /\ Len(Tail(q)) = Len(q) - 1 /\ \A k \in 1..Len(Tail(q)) : Tail(q)[k] = q[k + 1]
      BY <3>1
    <3>3. b = Tail(q)
      BY <3>1
    <3> HIDE DEF b
    <3>4. b \in Seq(S) /\ Len(b) = Len(q) - 1 /\ \A k \in 1..Len(b) : b[k] = q[k + 1]
      BY <3>2, <3>3
    <3> QED BY <3>4
  <2> QED BY <2>1, <2>2
<1> HIDE DEF b
<1>3. /\ r \in Seq(S) /\ Len(r) = Len(b) + 1 /\ r[Len(r)] = m /\ \A k \in 1..Len(b) : r[k] = b[k]
      /\ Len(b) \in Nat /\ DOMAIN r = 1..Len(r) /\ Len(q) \in Nat /\ DOMAIN q = 1..Len(q)
  BY <1>2
<1> HIDE DEF r
<1>4. Len(r) = Len(q) - d + 1 /\ \A k \in 1..(Len(r) - 1) : r[k] = q[k + d]
  <2>1. Len(r) - 1 = Len(b) /\ Len(r) = Len(q) - d + 1
    BY <1>2, <1>3
  <2> QED BY <1>2, <1>3, <2>1
<1>5. Len(r) >= 1 /\ Len(r) \in Nat
  BY <1>3
<1>6. \E e \in {0, 1} : Len(r) = Len(q) - e + 1 /\ \A k \in 1..(Len(r) - 1) : r[k] = q[k + e]
  BY <1>4
<1> QED BY <1>1, <1>3, <1>5, <1>6

\* What a message that joins changes of what is heard last.
LEMMA QueuedHears ==
    ASSUME NEW S, NEW q \in Seq(S), NEW m \in S, NEW cap \in Nat \ {0}
    PROVE  LET r == Queued(q, cap, m)
           IN  /\ LastHeard(r, m.id, m.state)
               /\ \A i : i # m.id /\ Unheard(q, i) => Unheard(r, i)
               /\ \A i : \A s : i # m.id /\ LastHeard(q, i, s) => LastHeard(r, i, s) \/ Unheard(r, i)
<1>1. PICK r \in Seq(S) :
          /\ r = Queued(q, cap, m)
          /\ Len(r) \in Nat /\ Len(q) \in Nat /\ DOMAIN r = 1..Len(r) /\ DOMAIN q = 1..Len(q)
          /\ Len(r) >= 1 /\ r[Len(r)] = m
          /\ \E d \in {0, 1} : Len(r) = Len(q) - d + 1 /\ \A k \in 1..(Len(r) - 1) : r[k] = q[k + d]
  BY QueuedIs
<1>2. PICK d \in {0, 1} : Len(r) = Len(q) - d + 1 /\ \A k \in 1..(Len(r) - 1) : r[k] = q[k + d]
  BY <1>1
<1>3. LastHeard(r, m.id, m.state)
  <2>1. \A l \in (Len(r) + 1)..Len(r) : FALSE
    BY <1>1
  <2> QED BY <1>1, <2>1 DEF LastHeard
<1>4. \A k \in DOMAIN r : k = Len(r) \/ (k \in 1..(Len(r) - 1) /\ k + d \in DOMAIN q)
  BY <1>1, <1>2
<1>5. ASSUME NEW i, i # m.id, Unheard(q, i)
      PROVE  Unheard(r, i)
  BY <1>1, <1>2, <1>4, <1>5 DEF Unheard
<1>6. ASSUME NEW i, NEW s, i # m.id, LastHeard(q, i, s)
      PROVE  LastHeard(r, i, s) \/ Unheard(r, i)
  <2>1. PICK k \in 1..Len(q) : q[k].id = i /\ q[k].state = s /\ \A l \in (k + 1)..Len(q) : q[l].id # i
    BY <1>1, <1>6 DEF LastHeard
  <2>2. CASE k - d >= 1
    <3>1. k - d \in 1..(Len(r) - 1) /\ k - d \in DOMAIN r /\ k - d + d = k
      BY <1>1, <1>2, <2>1, <2>2
    <3>2. r[k - d] = q[k]
      BY <1>2, <3>1
    <3>3. \A l \in (k - d + 1)..Len(r) : l \in DOMAIN r /\ (l = Len(r) \/ (l \in 1..(Len(r) - 1) /\ l + d \in (k + 1)..Len(q)))
      <4> TAKE l \in (k - d + 1)..Len(r)
      <4>1. l \in Int /\ k - d + 1 <= l /\ l <= Len(r) /\ k \in Int /\ 1 <= k /\ k <= Len(q) /\ d \in Int
        BY <1>1, <2>1
      <4>2. l \in DOMAIN r
        BY <1>1, <2>2, <4>1
      <4>3. l # Len(r) => l \in 1..(Len(r) - 1) /\ l + d \in (k + 1)..Len(q)
        BY <1>1, <1>2, <2>2, <4>1
      <4> QED BY <4>2, <4>3
    <3>4. \A l \in (k - d + 1)..Len(r) : r[l].id # i
      BY <1>1, <1>2, <1>6, <2>1, <3>3
    <3> QED BY <2>1, <3>1, <3>2, <3>4 DEF LastHeard
  <2>3. CASE k - d < 1
    <3>1. \A l \in 1..(Len(r) - 1) : l + d \in (k + 1)..Len(q)
      BY <1>1, <1>2, <2>1, <2>3
    <3>2. \A l \in 1..(Len(r) - 1) : r[l].id # i
      BY <1>2, <2>1, <3>1
    <3> QED BY <1>1, <1>4, <1>6, <3>2 DEF Unheard
  <2> QED BY <1>2, <2>1, <2>2, <2>3
<1> QED BY <1>1, <1>3, <1>5, <1>6

\* What the watcher that reads the first message changes of it.
LEMMA TailHears ==
    ASSUME NEW S, NEW q \in Seq(S), q # <<>>
    PROVE  /\ \A i : Unheard(q, i) => i # Head(q).id /\ Unheard(Tail(q), i)
           /\ \A i : \A s : LastHeard(q, i, s) =>
                \/ LastHeard(Tail(q), i, s)
                \/ Head(q).id = i /\ Head(q).state = s /\ Unheard(Tail(q), i)
<1> DEFINE r == Tail(q)
<1>1. Len(q) \in Nat /\ Len(q) >= 1 /\ Len(r) = Len(q) - 1 /\ DOMAIN q = 1..Len(q) /\ DOMAIN r = 1..Len(r) /\ Head(q) = q[1]
      /\ \A k \in 1..Len(r) : r[k] = q[k + 1]
  OBVIOUS
<1> HIDE DEF r
<1>2. 1 \in 1..Len(q) /\ \A k \in 1..Len(r) : k + 1 \in 1..Len(q)
  BY <1>1
<1>3. \A i : Unheard(q, i) => i # Head(q).id /\ Unheard(r, i)
  BY <1>1, <1>2 DEF Unheard
<1>4. ASSUME NEW i, NEW s, LastHeard(q, i, s)
      PROVE  \/ LastHeard(r, i, s)
             \/ Head(q).id = i /\ Head(q).state = s /\ Unheard(r, i)
  <2>1. PICK k \in 1..Len(q) : q[k].id = i /\ q[k].state = s /\ \A l \in (k + 1)..Len(q) : q[l].id # i
    BY <1>1, <1>4 DEF LastHeard
  <2>2. CASE k = 1
    <3>1. \A l \in 1..Len(r) : l + 1 \in (k + 1)..Len(q)
      BY <1>1, <2>2
    <3> QED BY <1>1, <2>1, <2>2, <3>1 DEF Unheard
  <2>3. CASE k # 1
    <3>1. k - 1 \in 1..Len(r) /\ r[k - 1] = q[k]
      BY <1>1, <2>3
    <3>2. \A l \in (k - 1 + 1)..Len(r) : l \in 1..Len(r) /\ l + 1 \in (k + 1)..Len(q)
      BY <1>1, <2>3
    <3>3. \A l \in (k - 1 + 1)..Len(r) : r[l].id # i
      BY <1>1, <2>1, <3>2
    <3> QED BY <1>1, <2>1, <3>1, <3>3 DEF LastHeard
  <2> QED BY <2>2, <2>3
<1> QED BY <1>3, <1>4 DEF r

\* What is ahead, by the list of the task.
LEMMA AheadIs ==
    ASSUME NEW t \in Works, NEW i
    PROVE  /\ AheadOf(t, i, Responded) <=> t.id = i /\ t.stage # "written" /\ (t.todo = <<Responded>> \/ t.todo = <<Responded, NewWork>>)
           /\ AheadOf(t, i, NeedsInput) <=> t.id = i /\ t.stage # "written" /\ t.todo = <<NeedsInput>>
           /\ AheadOf(t, i, NewWork) <=> t.id = i /\ (t.todo = <<Responded, NewWork>> \/ (t.todo = <<NewWork>> /\ t.stage # "written"))
<1> DEFINE A == Completed  B == NeedsInput  C == Responded  D == NewWork
<1>1. A # B /\ A # C /\ A # D /\ B # C /\ B # D /\ C # D
  BY StepsDiffer
<1>2. t.todo \in {<<A>>, <<B>>, <<C>>, <<D>>, <<C, D>>} /\ t # Rest
  BY WorkIsNoRest DEF Works, Lists
<1> HIDE DEF A, B, C, D
<1>3. \A x : DOMAIN <<x>> = {1} /\ <<x>>[1] = x
  OBVIOUS
<1>4. DOMAIN <<C, D>> = {1, 2} /\ <<C, D>>[1] = C /\ <<C, D>>[2] = D
  OBVIOUS
<1>5. /\ <<A>> # <<B>> /\ <<A>> # <<C>> /\ <<A>> # <<D>> /\ <<B>> # <<C>> /\ <<B>> # <<D>> /\ <<C>> # <<D>>
  BY <1>1, <1>3
<1>6. \A x : <<x>> # <<C, D>>
  <2>1. 2 \notin {1}
    OBVIOUS
  <2> QED BY <1>3, <1>4, <2>1
<1>7. \A x : t.todo = <<x>> => \A step : AheadOf(t, i, step) <=> t.id = i /\ step = x /\ t.stage # "written"
  BY <1>2, <1>3 DEF AheadOf
<1>8. t.todo = <<C, D>> => \A step : AheadOf(t, i, step) <=> t.id = i /\ ((step = C /\ t.stage # "written") \/ step = D)
  BY <1>2, <1>4 DEF AheadOf
<1>9. /\ AheadOf(t, i, C) <=> t.id = i /\ t.stage # "written" /\ (t.todo = <<C>> \/ t.todo = <<C, D>>)
      /\ AheadOf(t, i, B) <=> t.id = i /\ t.stage # "written" /\ t.todo = <<B>>
      /\ AheadOf(t, i, D) <=> t.id = i /\ (t.todo = <<C, D>> \/ (t.todo = <<D>> /\ t.stage # "written"))
  <2>1. CASE t.todo = <<C, D>>
    BY <1>1, <1>6, <1>8, <2>1
  <2>2. CASE t.todo = <<A>>
    BY <1>1, <1>5, <1>6, <1>7, <2>2
  <2>3. CASE t.todo = <<B>>
    BY <1>1, <1>5, <1>6, <1>7, <2>3
  <2>4. CASE t.todo = <<C>>
    BY <1>1, <1>5, <1>6, <1>7, <2>4
  <2>5. CASE t.todo = <<D>>
    BY <1>1, <1>5, <1>6, <1>7, <2>5
  <2> QED BY <1>2, <2>1, <2>2, <2>3, <2>4, <2>5
<1> QED BY <1>9 DEF B, C, D

LEMMA ListsDiffer ==
    /\ <<Completed>> # <<NeedsInput>> /\ <<Completed>> # <<Responded>> /\ <<Completed>> # <<NewWork>> /\ <<Completed>> # <<Responded, NewWork>>
    /\ <<NeedsInput>> # <<Responded>> /\ <<NeedsInput>> # <<NewWork>> /\ <<NeedsInput>> # <<Responded, NewWork>>
    /\ <<Responded>> # <<NewWork>> /\ <<Responded>> # <<Responded, NewWork>> /\ <<NewWork>> # <<Responded, NewWork>>
    /\ <<Completed>> # <<>> /\ <<NeedsInput>> # <<>> /\ <<Responded>> # <<>> /\ <<NewWork>> # <<>> /\ <<Responded, NewWork>> # <<>>
<1> DEFINE A == Completed  B == NeedsInput  C == Responded  D == NewWork
<1>1. A # B /\ A # C /\ A # D /\ B # C /\ B # D /\ C # D
  BY StepsDiffer
<1> HIDE DEF A, B, C, D
<1>2. \A x : Len(<<x>>) = 1 /\ <<x>>[1] = x
  OBVIOUS
<1>3. Len(<<C, D>>) = 2 /\ Len(<<>>) = 0
  OBVIOUS
<1>4. /\ <<A>> # <<B>> /\ <<A>> # <<C>> /\ <<A>> # <<D>> /\ <<B>> # <<C>> /\ <<B>> # <<D>> /\ <<C>> # <<D>>
  BY <1>1, <1>2
<1>5. \A x : <<x>> # <<C, D>> /\ <<x>> # <<>>
  <2>1. 1 # 2 /\ 1 # 0
    OBVIOUS
  <2> QED BY <1>2, <1>3, <2>1
<1>6. <<C, D>> # <<>>
  BY <1>3
<1> QED BY <1>4, <1>5, <1>6 DEF A, B, C, D

LEMMA LongList == Len(<<Responded, NewWork>>) # 1
OBVIOUS

LEMMA ReplaceTyped ==
    ASSUME TypeInv, task # Rest, task \in Works
    PROVE  [type |-> Duty.type, count |-> 1] \in Items
<1>1. Duty.type \in {"completed_turn", "needs_input"}
  BY StepIs DEF Steps, Completed, NeedsInput, Responded, NewWork
<1>2. 1 <= MaxChanges /\ MaxChanges \in Nat
  BY CountTyped DEF TypeInv, CountInv
<1> QED BY <1>1, <1>2 DEF Items

LEMMA NothingAhead == \A i, step : ~AheadOf(Rest, i, step)
BY DEF AheadOf

LEMMA FollowInit == ASSUME InboxInit PROVE FollowInv
<1>1. /\ heard = <<>> /\ task = Rest /\ missed = {}
      /\ \A i \in InboxInstances : state[i] = "unborn" /\ "unborn" \notin States /\ prev[i] = NoState /\ row[i] = NoItem
  BY DEF InboxInit, States
<1>2. UnbornInv /\ DutyInv /\ RowInv
  BY <1>1 DEF UnbornInv, DutyInv, RowInv, Unheard
<1>3. HeardInv /\ StartInv
  BY <1>1 DEF HeardInv, StartInv, States
<1> QED BY <1>2, <1>3 DEF FollowInv

\* An instance the step leaves alone keeps its part of the invariant.
LEMMA RowStays ==
    ASSUME RowInv, UNCHANGED <<state, prev, task, failed>>, excused \subseteq excused',
           \A i \in InboxInstances : row'[i] = row[i] \/ (row'[i] = NoItem /\ i \in excused')
    PROVE  RowInv'
<1> SUFFICES ASSUME NEW i \in InboxInstances
             PROVE  /\ prev'[i] = NoState /\ state'[i] \in States => row'[i] = NoItem
                    /\ i \notin failed' /\ state'[i] \in States /\ prev'[i] # NoState =>
                         /\ Has(i, "needs_input")' => prev'[i] = "waiting" \/ Ahead(i, Responded)'
                         /\ Has(i, "completed_turn")' => prev'[i] = "idle" \/ Ahead(i, NewWork)' \/ Ahead(i, NeedsInput)'
                         /\ prev'[i] = "waiting" /\ i \notin excused' => Has(i, "needs_input")' \/ Ahead(i, NeedsInput)'
  BY DEF RowInv, States
<1>1. \A step : Ahead(i, step)' <=> Ahead(i, step)
  BY DEF Ahead
<1>2. CASE row'[i] = row[i]
  <2>1. \A type : Has(i, type)' <=> Has(i, type)
    BY <1>2 DEF Has
  <2> QED BY <1>1, <1>2, <2>1 DEF RowInv
<1>3. CASE row'[i] = NoItem /\ i \in excused'
  BY <1>3 DEF Has
<1> QED BY <1>2, <1>3

\* What the watcher has heard does not depend on rows and clients.
LEMMA HeardStays ==
    ASSUME UNCHANGED <<state, heard, prev, missed>>, HeardInv, StartInv
    PROVE  HeardInv' /\ StartInv'
BY DEF HeardInv, StartInv

LEMMA FollowOthers ==
    ASSUME TypeInv, FollowInv,
           (\E i \in InboxInstances : Dismiss(i) \/ Dismissed(i) \/ Forget(i)) \/ ConnectInbox \/ SubscribeNews \/ Forward \/ DeliverInbox \/ DisconnectInbox \/ UNCHANGED inboxVars
    PROVE  FollowInv'
<1>1. UNCHANGED <<state, heard, prev, task, failed, missed>> /\ excused \subseteq excused'
  BY DEF Dismiss, Dismissed, Forget, ConnectInbox, SubscribeNews, Forward, DeliverInbox, DisconnectInbox, inboxVars, watcherVars, clientVars
<1>2. \A j \in InboxInstances : row'[j] = row[j] \/ (row'[j] = NoItem /\ j \in excused')
  <2>1. row \in InboxRows
    BY DEF TypeInv, InboxTypeOK
  <2> QED BY <2>1 DEF Dismiss, Dismissed, Forget, ConnectInbox, SubscribeNews, Forward, DeliverInbox, DisconnectInbox, inboxVars, InboxRows
<1>3. RowInv'
  BY <1>1, <1>2, RowStays DEF FollowInv
<1>4. HeardInv' /\ StartInv'
  BY <1>1, HeardStays DEF FollowInv
<1>5. UnbornInv' /\ DutyInv'
  BY <1>1, <1>2 DEF FollowInv, UnbornInv, DutyInv
<1> QED BY <1>3, <1>4, <1>5 DEF FollowInv

LEMMA FollowLife ==
    ASSUME TypeInv, FollowInv, NEW i \in InboxInstances, Create(i) \/ EndInstance(i)
    PROVE  FollowInv'
<1>1. UNCHANGED <<heard, prev, task, row, failed, excused, missed>>
  BY DEF Create, EndInstance, watcherVars
<1>2. /\ state \in [InboxInstances -> States \cup {"unborn", "gone"}]
      /\ "unborn" \notin States /\ "gone" \notin States
      /\ \A j \in InboxInstances \ {i} : state'[j] = state[j]
      /\ \/ state[i] = "unborn" /\ state'[i] = "starting"
         \/ state[i] \in States /\ state'[i] = "gone"
  BY DEF TypeInv, InboxTypeOK, States, Create, EndInstance
<1>3. UnbornInv' /\ DutyInv'
  BY <1>1, <1>2 DEF FollowInv, UnbornInv, DutyInv
<1>4. state[i] = "unborn" => row[i] = NoItem /\ prev[i] = NoState /\ Unheard(heard, i)
  BY DEF FollowInv, UnbornInv
<1>5. HeardInv'
  BY <1>1, <1>2, <1>4 DEF FollowInv, HeardInv, States
<1>6. StartInv'
  BY <1>1, <1>2, <1>4 DEF FollowInv, StartInv, Unheard
<1>7. RowInv'
  <2>1. \A j \in InboxInstances : \A step : Ahead(j, step)' <=> Ahead(j, step)
    BY <1>1 DEF Ahead
  <2>2. \A j \in InboxInstances : \A type : Has(j, type)' <=> Has(j, type)
    BY <1>1 DEF Has
  <2> QED BY <1>1, <1>2, <1>4, <2>1, <2>2 DEF FollowInv, RowInv
<1> QED BY <1>3, <1>5, <1>6, <1>7 DEF FollowInv

LEMMA FollowChange ==
    ASSUME TypeInv, FollowInv, NEW i \in InboxInstances, Change(i)
    PROVE  FollowInv'
<1> DEFINE S == [id : InboxInstances, state : States]
<1>1. UNCHANGED <<prev, task, row, failed, excused>>
  BY DEF Change, clientVars
<1>2. PICK s \in States : /\ s = "starting" => state[i] = "starting"
                          /\ state' = [state EXCEPT ![i] = s]
                          /\ heard' = Queued(heard, HeardCap, [id |-> i, state |-> s])
  BY DEF Change
<1>3. state \in [InboxInstances -> States \cup {"unborn", "gone"}] /\ state[i] \in States /\ "unborn" \notin States
  BY DEF Change, TypeInv, InboxTypeOK, States
<1>4. state'[i] = s /\ \A j \in InboxInstances \ {i} : state'[j] = state[j]
  BY <1>2, <1>3
<1> DEFINE m == [id |-> i, state |-> s]
<1>5. heard \in Seq(S) /\ m \in S /\ m.id = i /\ m.state = s /\ HeardCap \in Nat \ {0} /\ heard' = Queued(heard, HeardCap, m)
  BY <1>2, InboxAssumption DEF TypeInv, InboxTypeOK
<1> HIDE DEF m, S
<1>6. /\ LastHeard(heard', i, s)
      /\ \A j : j # i /\ Unheard(heard, j) => Unheard(heard', j)
      /\ \A j : \A v : j # i /\ LastHeard(heard, j, v) => LastHeard(heard', j, v) \/ Unheard(heard', j)
  BY <1>5, QueuedHears
<1>7. PICK r \in Seq(S) :
          /\ r = Queued(heard, HeardCap, m)
          /\ Len(r) \in Nat /\ Len(heard) \in Nat /\ DOMAIN r = 1..Len(r) /\ DOMAIN heard = 1..Len(heard)
          /\ Len(r) >= 1 /\ r[Len(r)] = m
          /\ \E d \in {0, 1} : Len(r) = Len(heard) - d + 1 /\ \A k \in 1..(Len(r) - 1) : r[k] = heard[k + d]
  BY <1>5, QueuedIs
<1>8. UnbornInv' /\ DutyInv'
  BY <1>1, <1>3, <1>4, <1>6 DEF FollowInv, UnbornInv, DutyInv
<1>9. HeardInv'
  <2>1. missed' = {j \in missed \cup {heard[k].id : k \in DOMAIN heard} : j \notin {heard'[k].id : k \in DOMAIN heard'}}
    BY DEF Change
  <2>2. \A j \in missed' : Unheard(heard', j)
    BY <2>1 DEF Unheard
  <2>3. ASSUME NEW j \in InboxInstances \ missed', state'[j] \in States
        PROVE  \/ LastHeard(heard', j, state'[j])
               \/ Unheard(heard', j) /\ (prev'[j] = state'[j] \/ (prev'[j] = NoState /\ state'[j] = "starting"))
    <3>1. CASE j = i
      BY <1>4, <1>6, <3>1
    <3>2. CASE j # i
      <4>1. j \notin missed
        <5>1. j \in missed => Unheard(heard', j)
          BY <1>6, <3>2 DEF FollowInv, HeardInv
        <5>2. Unheard(heard', j) => j \notin {heard'[k].id : k \in DOMAIN heard'}
          BY DEF Unheard
        <5> QED BY <2>1, <2>3, <5>1, <5>2
      <4>2. state'[j] = state[j] /\ prev'[j] = prev[j]
        BY <1>1, <1>4, <3>2
      <4>3. CASE LastHeard(heard, j, state[j])
        <5>1. j \in {heard[k].id : k \in DOMAIN heard}
          BY <4>3 DEF LastHeard
        <5>2. ~Unheard(heard', j)
          BY <2>1, <2>3, <5>1 DEF Unheard
        <5> QED BY <1>6, <3>2, <4>2, <4>3, <5>2
      <4>4. CASE Unheard(heard, j) /\ (prev[j] = state[j] \/ (prev[j] = NoState /\ state[j] = "starting"))
        BY <1>6, <3>2, <4>2, <4>4
      <4> QED BY <2>3, <4>1, <4>2, <4>3, <4>4 DEF FollowInv, HeardInv
    <3> QED BY <3>1, <3>2
  <2> QED BY <2>2, <2>3 DEF HeardInv
<1>10. StartInv'
  <2>1. PICK d \in {0, 1} : Len(r) = Len(heard) - d + 1 /\ \A k \in 1..(Len(r) - 1) : r[k] = heard[k + d]
    BY <1>7
  <2>2. \A k \in DOMAIN r : k = Len(r) \/ (k \in 1..(Len(r) - 1) /\ k + d \in DOMAIN heard /\ r[k] = heard[k + d])
    BY <1>7, <2>1
  <2>3. heard' = r
    BY <1>5, <1>7
  <2>4. state[i] = "starting" =>
            /\ prev[i] \in {NoState, "starting"}
            /\ \A k \in DOMAIN heard : heard[k].id = i => heard[k].state = "starting"
    BY DEF FollowInv, StartInv
  <2>5. ASSUME NEW k \in DOMAIN r, r[k].state = "starting"
        PROVE  /\ prev[r[k].id] \in {NoState, "starting"}
               /\ \A l \in 1..k : r[l].id = r[k].id => r[l].state = "starting"
    <3>1. CASE k = Len(r)
      <4>1. r[k] = m /\ s = "starting" /\ state[i] = "starting"
        BY <1>2, <1>5, <1>7, <2>5, <3>1
      <4>2. \A l \in 1..k : l \in DOMAIN r
        BY <1>7, <3>1
      <4>3. \A l \in 1..k : r[l].id = i => r[l].state = "starting"
        BY <2>2, <2>4, <2>5, <4>1, <4>2, <3>1
      <4> QED BY <1>5, <2>4, <4>1, <4>3
    <3>2. CASE k # Len(r)
      <4>1. k \in 1..(Len(r) - 1) /\ k + d \in DOMAIN heard /\ r[k] = heard[k + d]
        BY <2>2, <3>2
      <4>2. /\ prev[heard[k + d].id] \in {NoState, "starting"}
            /\ \A l \in 1..(k + d) : heard[l].id = heard[k + d].id => heard[l].state = "starting"
        BY <2>5, <4>1 DEF FollowInv, StartInv
      <4>3. \A l \in 1..k : l \in 1..(Len(r) - 1) /\ l + d \in 1..(k + d)
        BY <1>7, <4>1
      <4>4. \A l \in 1..k : r[l] = heard[l + d]
        BY <2>1, <4>3
      <4> QED BY <4>1, <4>2, <4>3, <4>4
    <3> QED BY <3>1, <3>2
  <2>6. ASSUME NEW j \in InboxInstances, state'[j] = "starting"
        PROVE  /\ prev[j] \in {NoState, "starting"}
               /\ \A k \in DOMAIN r : r[k].id = j => r[k].state = "starting"
    <3>1. state[j] = "starting" /\ (j = i => s = "starting")
      BY <1>2, <1>4, <2>6
    <3>2. /\ prev[j] \in {NoState, "starting"}
          /\ \A k \in DOMAIN heard : heard[k].id = j => heard[k].state = "starting"
      BY <3>1 DEF FollowInv, StartInv
    <3> QED BY <1>5, <1>7, <2>2, <3>1, <3>2
  <2> QED BY <1>1, <2>3, <2>5, <2>6 DEF StartInv
<1>11. RowInv'
  <2>1. \A j \in InboxInstances : \A step : Ahead(j, step)' <=> Ahead(j, step)
    BY <1>1 DEF Ahead
  <2>2. \A j \in InboxInstances : \A type : Has(j, type)' <=> Has(j, type)
    BY <1>1 DEF Has
  <2>3. \A j \in InboxInstances : state'[j] \in States => state[j] \in States
    BY <1>3, <1>4
  <2> QED BY <1>1, <2>1, <2>2, <2>3 DEF FollowInv, RowInv
<1> QED BY <1>8, <1>9, <1>10, <1>11 DEF FollowInv

LEMMA FollowRestart ==
    ASSUME TypeInv, FollowInv, RestartServer
    PROVE  FollowInv'
<1>1. /\ state' = [i \in InboxInstances |-> IF state[i] = "unborn" THEN "unborn" ELSE "gone"]
      /\ heard' = <<>> /\ task' = Rest /\ prev' = [i \in InboxInstances |-> NoState] /\ row' = row /\ missed' = missed
  BY DEF RestartServer
<1>2. \A i \in InboxInstances : state'[i] \notin States /\ prev'[i] = NoState /\ (state'[i] = "unborn" => state[i] = "unborn")
  BY <1>1 DEF States
<1>3. \A i : Unheard(heard', i)
  BY <1>1 DEF Unheard
<1>4. UnbornInv' /\ DutyInv'
  BY <1>1, <1>2, <1>3 DEF FollowInv, UnbornInv, DutyInv
<1>5. HeardInv'
  BY <1>2, <1>3 DEF HeardInv
<1>6. StartInv'
  BY <1>1, <1>2 DEF StartInv, States
<1>7. RowInv'
  BY <1>2 DEF RowInv
<1> QED BY <1>4, <1>5, <1>6, <1>7 DEF FollowInv

\* The watcher reads: what the change calls for is on its list.
LEMMA FollowTake ==
    ASSUME TypeInv, FollowInv, Take
    PROVE  FollowInv'
<1> DEFINE i == Head(heard).id
           s == Head(heard).state
           p == prev[i]
           todo == Todo(p, s)
           S == [id : InboxInstances, state : States]
<1>1. InboxTypeOK /\ prev \in [InboxInstances -> States \cup {NoState}]
  BY DEF TypeInv, InboxTypeOK
<1>2. /\ heard \in Seq(S) /\ heard # <<>> /\ heard' = Tail(heard)
      /\ i \in InboxInstances /\ s \in States /\ p \in States \cup {NoState}
      /\ todo = <<>> \/ todo \in Lists
      /\ prev' = [prev EXCEPT ![i] = s]
      /\ task = Rest /\ task' = IF todo = <<>> THEN Rest ELSE [id |-> i, todo |-> todo, stage |-> "begin", item |-> NoItem]
  BY <1>1, TakeIs
<1>3. UNCHANGED <<state, row, failed, missed>>
      /\ excused' = CASE p = NoState -> excused \cup {i}
                      [] todo # <<>> -> excused \ {i}
                      [] OTHER -> excused
  BY DEF Take, clientVars
<1>4. prev'[i] = s /\ \A j \in InboxInstances \ {i} : prev'[j] = prev[j]
  BY <1>1, <1>2
<1>5. /\ heard[1].id = i /\ heard[1].state = s /\ Len(heard) \in Nat /\ Len(heard) >= 1
      /\ DOMAIN heard = 1..Len(heard) /\ DOMAIN heard' = 1..(Len(heard) - 1)
      /\ \A k \in 1..(Len(heard) - 1) : heard'[k] = heard[k + 1]
  BY <1>2
<1>6. /\ \A j : Unheard(heard, j) => j # i /\ Unheard(heard', j)
      /\ \A j : \A v : LastHeard(heard, j, v) => LastHeard(heard', j, v) \/ (i = j /\ s = v /\ Unheard(heard', j))
  BY <1>2, TailHears
<1>7. /\ p = "active" /\ s = "idle" => todo = <<Completed>>
      /\ p \notin {NoState, "waiting"} /\ s = "waiting" => todo = <<NeedsInput>>
      /\ p = "waiting" /\ s = "active" => todo = <<Responded, NewWork>>
      /\ p = "waiting" /\ s \in {"starting", "idle"} => todo = <<Responded>>
      /\ p \in {"starting", "idle"} /\ s = "active" => todo = <<NewWork>>
      /\ p = NoState \/ p = s \/ (p # "waiting" /\ s = "starting") \/ (p = "starting" /\ s = "idle") => todo = <<>>
  <2>1. p \in States \cup {NoState} /\ s \in States
    BY <1>2
  <2> HIDE DEF p, s
  <2> QED BY <2>1, TodoIs
<1> HIDE DEF i, s, p, todo, S
<1>8. s = "starting" => p \in {NoState, "starting"}
  <2>1. 1 \in DOMAIN heard
    BY <1>5
  <2> QED BY <1>5, <2>1 DEF FollowInv, StartInv, p
<1>9. \A j \in InboxInstances : state[j] = "starting" =>
          /\ prev[j] \in {NoState, "starting"}
          /\ \A k \in DOMAIN heard : heard[k].id = j => heard[k].state = "starting"
  BY DEF FollowInv, StartInv
<1>10. UnbornInv'
  BY <1>3, <1>4, <1>6 DEF FollowInv, UnbornInv
<1>11. HeardInv'
  <2>1. \A j \in missed : j # i /\ Unheard(heard', j)
    BY <1>6 DEF FollowInv, HeardInv
  <2>2. ASSUME NEW j \in InboxInstances \ missed, state[j] \in States
        PROVE  \/ LastHeard(heard', j, state[j])
               \/ Unheard(heard', j) /\ (prev'[j] = state[j] \/ (prev'[j] = NoState /\ state[j] = "starting"))
    <3>1. CASE LastHeard(heard, j, state[j])
      BY <1>4, <1>6, <3>1
    <3>2. CASE Unheard(heard, j) /\ (prev[j] = state[j] \/ (prev[j] = NoState /\ state[j] = "starting"))
      BY <1>4, <1>6, <3>2
    <3> QED BY <2>2, <3>1, <3>2 DEF FollowInv, HeardInv
  <2> QED BY <1>3, <2>1, <2>2 DEF HeardInv
<1>12. StartInv'
  <2>1. ASSUME NEW k \in 1..(Len(heard) - 1), heard'[k].state = "starting"
        PROVE  /\ prev'[heard'[k].id] \in {NoState, "starting"}
               /\ \A l \in 1..k : heard'[l].id = heard'[k].id => heard'[l].state = "starting"
    <3>1. k + 1 \in DOMAIN heard /\ heard'[k] = heard[k + 1] /\ 1 \in 1..(k + 1)
      BY <1>5
    <3>2. /\ prev[heard[k + 1].id] \in {NoState, "starting"}
          /\ \A l \in 1..(k + 1) : heard[l].id = heard[k + 1].id => heard[l].state = "starting"
      BY <2>1, <3>1 DEF FollowInv, StartInv
    <3>3. \A l \in 1..k : l + 1 \in 1..(k + 1) /\ heard'[l] = heard[l + 1]
      BY <1>5
    <3>4. heard[k + 1].id \in InboxInstances /\ (heard[k + 1].id = i => s = "starting")
      BY <1>2, <1>5, <3>1, <3>2, HeardIs DEF S
    <3> QED BY <1>4, <3>1, <3>2, <3>3, <3>4
  <2>2. ASSUME NEW j \in InboxInstances, state[j] = "starting"
        PROVE  /\ prev'[j] \in {NoState, "starting"}
               /\ \A k \in 1..(Len(heard) - 1) : heard'[k].id = j => heard'[k].state = "starting"
    <3>1. /\ prev[j] \in {NoState, "starting"}
          /\ \A k \in DOMAIN heard : heard[k].id = j => heard[k].state = "starting"
      BY <1>9, <2>2
    <3>2. 1 \in DOMAIN heard /\ \A k \in 1..(Len(heard) - 1) : k + 1 \in DOMAIN heard
      BY <1>5
    <3> QED BY <1>4, <1>5, <3>1, <3>2
  <2> QED BY <1>3, <1>5, <2>1, <2>2 DEF StartInv
<1>13. todo = <<>> => task' = Rest
  BY <1>2
<1>14. todo # <<>> => task' \in Works /\ task'.id = i /\ task'.todo = todo /\ task'.stage = "begin" /\ task' # Rest
  BY <1>2, WorkIsNoRest DEF Works
<1>15. /\ p = NoState \/ p \in {"starting", "idle", "active", "waiting"}
       /\ s \in {"starting", "idle", "active", "waiting"} /\ NoState \notin {"starting", "idle", "active", "waiting"}
  BY <1>2, InboxAssumption DEF States
<1>16. DutyInv'
  <2> DEFINE A == <<Completed>>  B == <<NeedsInput>>  C == <<Responded>>  D == <<NewWork>>  E == <<Responded, NewWork>>
  <2>1. /\ A # B /\ A # C /\ A # D /\ A # E /\ B # C /\ B # D /\ B # E /\ C # D /\ C # E /\ D # E
        /\ A # <<>> /\ B # <<>> /\ C # <<>> /\ D # <<>> /\ E # <<>>
    BY ListsDiffer
  <2>2. s # NoState
    BY <1>2, InboxAssumption DEF States
  <2>3. ASSUME todo # <<>>
        PROVE  /\ todo = A => s = "idle"
               /\ todo = B => s = "waiting"
               /\ todo \in {C, E} => s # "waiting"
    <3> HIDE DEF A, B, C, D, E
    <3>1. /\ p = "active" /\ s = "idle" => todo = A
          /\ p \notin {NoState, "waiting"} /\ s = "waiting" => todo = B
          /\ p = "waiting" /\ s = "active" => todo = E
          /\ p = "waiting" /\ s \in {"starting", "idle"} => todo = C
          /\ p \in {"starting", "idle"} /\ s = "active" => todo = D
      BY <1>7 DEF A, B, C, D, E
    <3>2. s \in {"starting", "idle", "active", "waiting"} /\ p \in {"starting", "idle", "active", "waiting", NoState}
      BY <1>2 DEF States
    <3> QED BY <1>7, <2>1, <2>3, <3>1, <3>2
  <2> QED BY <1>4, <1>13, <1>14, <2>2, <2>3 DEF DutyInv
<1>17. RowInv'
  <2>1. ASSUME NEW j \in InboxInstances \ {i}
        PROVE  /\ prev'[j] = prev[j] /\ (j \in excused' <=> j \in excused)
               /\ \A step : ~Ahead(j, step) /\ ~AheadOf(task', j, step)
    BY <1>2, <1>3, <1>4, <1>13, <1>14 DEF Ahead, AheadOf
  <2>2. \A j \in InboxInstances : \A type : Has(j, type)' <=> Has(j, type)
    BY <1>3 DEF Has
  <2>3. \A step : ~Ahead(i, step)
    BY <1>2, NothingAhead DEF Ahead
  <2>4. /\ todo \in {<<Responded>>, <<Responded, NewWork>>} => AheadOf(task', i, Responded)
        /\ todo = <<NeedsInput>> => AheadOf(task', i, NeedsInput)
        /\ todo \in {<<NewWork>>, <<Responded, NewWork>>} => AheadOf(task', i, NewWork)
    <3>1. <<Responded>> # <<>> /\ <<Responded, NewWork>> # <<>> /\ <<NeedsInput>> # <<>> /\ <<NewWork>> # <<>>
      BY ListsDiffer
    <3>2. CASE todo \in {<<Responded>>, <<Responded, NewWork>>, <<NeedsInput>>, <<NewWork>>}
      <4>1. task' \in Works /\ task'.id = i /\ task'.todo = todo /\ task'.stage # "written"
        BY <1>14, <3>1, <3>2
      <4>2. \A t \in Works : t.id = i /\ t.todo = todo /\ t.stage # "written" =>
                /\ todo \in {<<Responded>>, <<Responded, NewWork>>} => AheadOf(t, i, Responded)
                /\ todo = <<NeedsInput>> => AheadOf(t, i, NeedsInput)
                /\ todo \in {<<NewWork>>, <<Responded, NewWork>>} => AheadOf(t, i, NewWork)
        <5> SUFFICES ASSUME NEW t \in Works, t.id = i, t.todo = todo, t.stage # "written"
                     PROVE  /\ todo \in {<<Responded>>, <<Responded, NewWork>>} => AheadOf(t, i, Responded)
                            /\ todo = <<NeedsInput>> => AheadOf(t, i, NeedsInput)
                            /\ todo \in {<<NewWork>>, <<Responded, NewWork>>} => AheadOf(t, i, NewWork)
          OBVIOUS
        <5> QED BY AheadIs
      <4> QED BY <4>1, <4>2
    <3> QED BY <3>2
  <2>5. /\ p = NoState /\ state[i] \in States => row[i] = NoItem
        /\ i \notin failed /\ state[i] \in States /\ p # NoState =>
             /\ Has(i, "needs_input") => p = "waiting"
             /\ Has(i, "completed_turn") => p = "idle"
             /\ p = "waiting" /\ i \notin excused => Has(i, "needs_input")
    BY <1>2, <2>3 DEF FollowInv, RowInv, p
  <2>6. s # NoState /\ s \in {"starting", "idle", "active", "waiting"}
    BY <1>2, InboxAssumption DEF States
  <2>7. ASSUME i \notin failed, state[i] \in States
        PROVE  /\ Has(i, "needs_input") => s = "waiting" \/ AheadOf(task', i, Responded)
               /\ Has(i, "completed_turn") => s = "idle" \/ AheadOf(task', i, NewWork) \/ AheadOf(task', i, NeedsInput)
               /\ s = "waiting" /\ i \notin excused' => Has(i, "needs_input") \/ AheadOf(task', i, NeedsInput)
    <3>1. CASE p = NoState
      <4>1. row[i] = NoItem /\ i \in excused'
        BY <1>3, <1>7, <2>5, <2>7, <3>1
      <4> QED BY <4>1 DEF Has
    <3>2. CASE p # NoState
      <4>1. Has(i, "needs_input") => s = "waiting" \/ AheadOf(task', i, Responded)
        BY <1>7, <2>4, <2>5, <2>6, <2>7, <3>2
      <4>2. Has(i, "completed_turn") => s = "idle" \/ AheadOf(task', i, NewWork) \/ AheadOf(task', i, NeedsInput)
        BY <1>7, <1>8, <2>4, <2>5, <2>6, <2>7, <3>2
      <4>3. s = "waiting" /\ i \notin excused' => Has(i, "needs_input") \/ AheadOf(task', i, NeedsInput)
        <5>1. CASE p = "waiting" /\ s = "waiting"
          BY <1>3, <1>7, <2>5, <2>7, <3>2, <5>1
        <5>2. CASE p # "waiting"
          BY <1>7, <2>4, <3>2, <5>2
        <5> QED BY <5>1, <5>2
      <4> QED BY <4>1, <4>2, <4>3
    <3> QED BY <3>1, <3>2
  <2>8. ASSUME NEW j \in InboxInstances
        PROVE  /\ prev'[j] = NoState /\ state[j] \in States => row[j] = NoItem
               /\ j \notin failed /\ state[j] \in States /\ prev'[j] # NoState =>
                    /\ Has(j, "needs_input") => prev'[j] = "waiting" \/ AheadOf(task', j, Responded)
                    /\ Has(j, "completed_turn") => prev'[j] = "idle" \/ AheadOf(task', j, NewWork) \/ AheadOf(task', j, NeedsInput)
                    /\ prev'[j] = "waiting" /\ j \notin excused' => Has(j, "needs_input") \/ AheadOf(task', j, NeedsInput)
    <3>1. CASE j = i
      <4>1. prev'[j] = s /\ s # NoState
        BY <1>4, <2>6, <3>1
      <4> QED BY <2>7, <3>1, <4>1
    <3>2. CASE j # i
      BY <2>1, <3>2 DEF FollowInv, RowInv
    <3> QED BY <3>1, <3>2
  <2> QED BY <1>3, <2>2, <2>8 DEF RowInv, Ahead
<1> QED BY <1>10, <1>11, <1>12, <1>16, <1>17 DEF FollowInv

\* The watcher works: the row it has before it is settled, one step at a time.
LEMMA FollowWork ==
    ASSUME TypeInv, FollowInv, Select \/ Increment \/ Replace \/ Clear \/ Tell \/ Fail
    PROVE  FollowInv'
<1>1. /\ task \in Works /\ task # Rest
      /\ UNCHANGED <<state, heard, prev, dismissing, excused, missed>>
      /\ task' = Rest \/ task' \in Works
      /\ \A j \in InboxInstances \ {task.id} : row'[j] = row[j]
  BY AtWork
<1>2. /\ task.id \in InboxInstances /\ row \in InboxRows /\ prev[task.id] # NoState
      /\ task.todo = <<Completed>> => prev[task.id] = "idle"
      /\ task.todo = <<NeedsInput>> => prev[task.id] = "waiting"
      /\ task.todo \in {<<Responded>>, <<Responded, NewWork>>} => prev[task.id] # "waiting"
  BY <1>1 DEF Works, TypeInv, InboxTypeOK, FollowInv, DutyInv
<1>3. /\ state[task.id] # "unborn"
      /\ task' # Rest => task'.id = task.id /\ (task'.todo = task.todo \/ (task.todo = <<Responded, NewWork>> /\ task'.todo = <<NewWork>>))
  <2>1. state[task.id] # "unborn"
    BY <1>2 DEF FollowInv, UnbornInv
  <2>2. Proceed \/ \E stage \in {"begin", "selected", "written"} : \E item : Reaches(stage, item)
    BY DEF Select, Increment, Replace, Clear, Cleared, Tell, Fail
  <2>3. CASE Proceed
    <3>1. task' = Rest \/ (task.todo = <<Responded, NewWork>> /\ task' = [id |-> task.id, todo |-> <<NewWork>>, stage |-> "begin", item |-> NoItem])
      BY <1>1, <2>3, ProceedIs
    <3> QED BY <2>1, <3>1
  <2>4. CASE \E stage \in {"begin", "selected", "written"} : \E item : Reaches(stage, item)
    BY <1>1, <2>1, <2>4 DEF Reaches, Works
  <2> QED BY <2>2, <2>3, <2>4
<1>4. UnbornInv'
  BY <1>1, <1>3 DEF FollowInv, UnbornInv
<1>5. HeardInv' /\ StartInv'
  BY <1>1, HeardStays DEF FollowInv
<1>6. DutyInv'
  BY <1>1, <1>2, <1>3, ListsDiffer DEF DutyInv
<1>7. ASSUME NEW j \in InboxInstances \ {task.id}, NEW step
      PROVE  ~Ahead(j, step) /\ ~AheadOf(task', j, step)
  BY <1>1, <1>3, <1>7 DEF Ahead, AheadOf
<1>8. /\ Ahead(task.id, Responded) <=> task.stage # "written" /\ (task.todo = <<Responded>> \/ task.todo = <<Responded, NewWork>>)
      /\ Ahead(task.id, NeedsInput) <=> task.stage # "written" /\ task.todo = <<NeedsInput>>
      /\ Ahead(task.id, NewWork) <=> task.todo = <<Responded, NewWork>> \/ (task.todo = <<NewWork>> /\ task.stage # "written")
  BY <1>1, AheadIs DEF Ahead
<1>9. ASSUME task' \in Works, task'.id = task.id
      PROVE  /\ AheadOf(task', task.id, Responded) <=> task'.stage # "written" /\ (task'.todo = <<Responded>> \/ task'.todo = <<Responded, NewWork>>)
             /\ AheadOf(task', task.id, NeedsInput) <=> task'.stage # "written" /\ task'.todo = <<NeedsInput>>
             /\ AheadOf(task', task.id, NewWork) <=> task'.todo = <<Responded, NewWork>> \/ (task'.todo = <<NewWork>> /\ task'.stage # "written")
  BY <1>9, AheadIs
<1>10. /\ prev[task.id] = NoState /\ state[task.id] \in States => row[task.id] = NoItem
       /\ task.id \notin failed /\ state[task.id] \in States =>
            /\ Has(task.id, "needs_input") => prev[task.id] = "waiting" \/ Ahead(task.id, Responded)
            /\ Has(task.id, "completed_turn") => prev[task.id] = "idle" \/ Ahead(task.id, NewWork) \/ Ahead(task.id, NeedsInput)
            /\ prev[task.id] = "waiting" /\ task.id \notin excused => Has(task.id, "needs_input") \/ Ahead(task.id, NeedsInput)
  BY <1>2 DEF FollowInv, RowInv
<1> DEFINE Is(type) == row'[task.id] # NoItem /\ row'[task.id].type = type
<1>11. ASSUME task.id \notin failed', state[task.id] \in States
       PROVE  /\ Is("needs_input") => prev[task.id] = "waiting" \/ AheadOf(task', task.id, Responded)
              /\ Is("completed_turn") => prev[task.id] = "idle" \/ AheadOf(task', task.id, NewWork) \/ AheadOf(task', task.id, NeedsInput)
              /\ prev[task.id] = "waiting" /\ task.id \notin excused => Is("needs_input") \/ AheadOf(task', task.id, NeedsInput)
  <2>1. CASE Select
    <3>1. task' \in Works /\ task'.id = task.id /\ task'.todo = task.todo /\ task.stage = "begin" /\ task'.stage = "selected"
          /\ UNCHANGED <<row, failed>>
      BY <1>1, <2>1 DEF Select, Reaches, Works, Rest
    <3> QED BY <1>8, <1>9, <1>10, <1>11, <3>1 DEF Has
  <2>2. CASE Increment
    <3>1. task.stage = "selected" /\ Duty = Completed /\ failed' = failed
      BY <2>2 DEF Increment
    <3>2. task.todo = <<Completed>>
      BY <1>1, <3>1, StepIs, StepsDiffer
    <3>3. /\ \A type : Is(type) <=> Has(task.id, type)
      <4>1. row[task.id] \in Items \cup {NoItem}
        BY <1>2 DEF InboxRows
      <4>2. CASE row[task.id] = NoItem
        BY <2>2, <4>2 DEF Increment, Has
      <4>3. CASE row[task.id] # NoItem
        <5> DEFINE n == [task.item EXCEPT !.count = @ + 1].count
        <5>1. row' = [row EXCEPT ![task.id].count = n]
          BY <2>2, <4>3 DEF Increment
        <5> HIDE DEF n
        <5>2. row'[task.id] = [row[task.id] EXCEPT !.count = n]
          BY <1>2, <5>1 DEF InboxRows
        <5>3. row[task.id] \in Items /\ row'[task.id] \in [type : {"completed_turn", "needs_input"}, count : {n}]
              /\ row'[task.id].type = row[task.id].type
          BY <4>1, <4>3, <5>2 DEF Items
        <5>4. row'[task.id] # NoItem
          <6>1. task.item \in Items
            BY <1>1, <2>2 DEF Increment, Works
          <6>2. n \in Nat
            BY <6>1, CountTyped DEF n, Items
          <6>3. row'[task.id] \in [type : {"completed_turn", "needs_input"}, count : Nat]
            BY <5>3, <6>2
          <6> QED BY <6>3, InboxAssumption
        <5> QED BY <4>3, <5>3, <5>4 DEF Has
      <4> QED BY <4>2, <4>3
    <3> QED BY <1>2, <1>8, <1>10, <1>11, <3>1, <3>2, <3>3, ListsDiffer
  <2>3. CASE Replace
    <3> DEFINE item == [type |-> Duty.type, count |-> 1]
    <3>1. task.stage = "selected" /\ row' = [row EXCEPT ![task.id] = item] /\ failed' = failed /\ Reaches("written", item)
      BY <2>3 DEF Replace
    <3>2. \/ task.todo = <<Completed>> /\ Duty = Completed
          \/ task.todo = <<NeedsInput>> /\ Duty = NeedsInput
      BY <1>1, <3>1, StepIs, ListsDiffer DEF TypeInv, TaskInv
    <3>3. row'[task.id].type = Duty.type
      BY <1>2, <3>1 DEF InboxRows
    <3>4. row'[task.id] # NoItem
      <4>1. row'[task.id] = item /\ item \in Items
        BY <1>1, <1>2, <3>1, ReplaceTyped DEF InboxRows
      <4> QED BY <4>1, CountTyped
    <3>5. CASE task.todo = <<Completed>> /\ Duty = Completed
      <4>1. row'[task.id].type = "completed_turn" /\ prev[task.id] = "idle"
        BY <1>2, <3>3, <3>5 DEF Completed
      <4> QED BY <4>1
    <3>6. CASE task.todo = <<NeedsInput>> /\ Duty = NeedsInput
      <4>1. row'[task.id].type = "needs_input" /\ prev[task.id] = "waiting"
        BY <1>2, <3>3, <3>6 DEF NeedsInput
      <4> QED BY <3>4, <4>1
    <3> QED BY <3>2, <3>5, <3>6
  <2>4. CASE Clear
    <3>1. task.stage = "begin" /\ ~Duty.write /\ failed' = failed
      BY <2>4 DEF Clear
    <3>2. \/ task.todo = <<Responded>> /\ Duty = Responded
          \/ task.todo = <<NewWork>> /\ Duty = NewWork
          \/ task.todo = <<Responded, NewWork>> /\ Duty = Responded
      BY <1>1, <3>1, StepIs
    <3>3. Responded.type = "needs_input" /\ NewWork.type = "completed_turn" /\ Responded # NewWork
      BY DEF Responded, NewWork
    <3>4. ~Ahead(task.id, NeedsInput) /\ (Duty = NewWork => ~Ahead(task.id, Responded))
          /\ (task.todo = <<Responded>> => ~Ahead(task.id, NewWork))
      BY <1>8, <3>2, <3>3, ListsDiffer
    <3>5. CASE Has(task.id, Duty.type)
      <4>1. row'[task.id] = NoItem
        BY <1>2, <2>4, <3>5 DEF Clear, InboxRows
      <4>2. ~(prev[task.id] = "waiting" /\ task.id \notin excused)
        <5>1. CASE Duty = Responded
          BY <1>2, <3>2, <3>3, <5>1
        <5>2. CASE Duty = NewWork
          <6>1. ~Has(task.id, "needs_input")
            BY <3>3, <3>5, <5>2 DEF Has
          <6> QED BY <1>10, <1>11, <3>1, <3>4, <6>1
        <5> QED BY <3>2, <5>1, <5>2
      <4> QED BY <4>1, <4>2
    <3>6. CASE ~Has(task.id, Duty.type)
      <4>1. row' = row /\ Proceed
        BY <2>4, <3>6 DEF Clear
      <4>2. \A type : Is(type) <=> Has(task.id, type)
        BY <4>1 DEF Has
      <4>3. task.todo = <<Responded, NewWork>> => AheadOf(task', task.id, NewWork)
        <5> SUFFICES ASSUME task.todo = <<Responded, NewWork>>
                     PROVE  AheadOf(task', task.id, NewWork)
          OBVIOUS
        <5>1. Len(task.todo) # 1
          BY LongList
        <5>2. task' \in Works /\ task' = [id |-> task.id, todo |-> <<NewWork>>, stage |-> "begin", item |-> NoItem]
          BY <1>1, <4>1, <5>1, ProceedIs
        <5>3. task'.id = task.id /\ task'.todo = <<NewWork>> /\ task'.stage = "begin"
          BY <5>2
        <5> QED BY <1>9, <5>2, <5>3
      <4>4. Is("needs_input") => prev[task.id] = "waiting"
        <5>1. CASE Duty = Responded
          BY <3>3, <3>6, <4>2, <5>1
        <5>2. CASE Duty = NewWork
          BY <1>10, <1>11, <3>1, <3>4, <4>2, <5>2
        <5> QED BY <3>2, <5>1, <5>2
      <4>5. Is("completed_turn") => prev[task.id] = "idle" \/ AheadOf(task', task.id, NewWork)
        <5>1. CASE Duty = NewWork
          BY <3>3, <3>6, <4>2, <5>1
        <5>2. CASE Duty = Responded
          BY <1>10, <1>11, <3>1, <3>2, <3>3, <3>4, <4>2, <4>3, <5>2
        <5> QED BY <3>2, <5>1, <5>2
      <4>6. prev[task.id] = "waiting" /\ task.id \notin excused => Is("needs_input")
        BY <1>10, <1>11, <3>1, <3>4, <4>2
      <4> QED BY <4>4, <4>5, <4>6
    <3> QED BY <3>5, <3>6
  <2>5. CASE Tell
    <3>1. task.stage = "written" /\ Proceed /\ UNCHANGED <<row, failed>>
      BY <2>5 DEF Tell
    <3>2. \A type : Is(type) <=> Has(task.id, type)
      BY <3>1 DEF Has
    <3>3. ~Ahead(task.id, Responded) /\ ~Ahead(task.id, NeedsInput)
      BY <1>8, <3>1
    <3>4. Ahead(task.id, NewWork) => AheadOf(task', task.id, NewWork)
      <4> SUFFICES ASSUME task.todo = <<Responded, NewWork>>
                   PROVE  AheadOf(task', task.id, NewWork)
        BY <1>8, <3>1
      <4>1. Len(task.todo) # 1
        BY LongList
      <4>2. task' \in Works /\ task' = [id |-> task.id, todo |-> <<NewWork>>, stage |-> "begin", item |-> NoItem]
        BY <1>1, <3>1, <4>1, ProceedIs
      <4>3. task'.id = task.id /\ task'.todo = <<NewWork>> /\ task'.stage = "begin"
        BY <4>2
      <4> QED BY <1>9, <4>2, <4>3
    <3> QED BY <1>10, <1>11, <3>1, <3>2, <3>3, <3>4
  <2>6. CASE Fail
    BY <1>11, <2>6 DEF Fail
  <2> QED BY <2>1, <2>2, <2>3, <2>4, <2>5, <2>6
<1>12. failed \subseteq failed'
  BY DEF Select, Increment, Replace, Clear, Tell, Fail
<1>13. ASSUME NEW j \in InboxInstances
       PROVE  /\ prev'[j] = NoState /\ state'[j] \in States => row'[j] = NoItem
              /\ j \notin failed' /\ state'[j] \in States /\ prev'[j] # NoState =>
                   /\ Has(j, "needs_input")' => prev'[j] = "waiting" \/ Ahead(j, Responded)'
                   /\ Has(j, "completed_turn")' => prev'[j] = "idle" \/ Ahead(j, NewWork)' \/ Ahead(j, NeedsInput)'
                   /\ prev'[j] = "waiting" /\ j \notin excused' => Has(j, "needs_input")' \/ Ahead(j, NeedsInput)'
  <2>1. CASE j # task.id
    <3>1. row'[j] = row[j] /\ \A type : Has(j, type)' <=> Has(j, type)
      BY <1>1, <2>1 DEF Has
    <3> QED BY <1>1, <1>7, <1>12, <2>1, <3>1 DEF FollowInv, RowInv
  <2>2. CASE j = task.id
    <3>1. \A type : Has(j, type)' <=> Is(type)
      BY <2>2 DEF Has
    <3>2. \A step : Ahead(j, step)' <=> AheadOf(task', task.id, step)
      BY <2>2 DEF Ahead
    <3> HIDE DEF Is
    <3> QED BY <1>1, <1>2, <1>11, <2>2, <3>1, <3>2
  <2> QED BY <2>1, <2>2
<1>14. RowInv'
  BY <1>13 DEF RowInv, States
<1> QED BY <1>4, <1>5, <1>6, <1>14 DEF FollowInv

LEMMA FollowNext ==
    ASSUME TypeInv, FollowInv, [InboxNext]_inboxVars
    PROVE  FollowInv'
<1>1. CASE \E i \in InboxInstances : Create(i) \/ Change(i) \/ EndInstance(i) \/ Dismiss(i) \/ Dismissed(i) \/ Forget(i)
  BY <1>1, FollowOthers, FollowLife, FollowChange
<1>2. CASE ConnectInbox \/ SubscribeNews \/ Forward \/ DeliverInbox \/ DisconnectInbox \/ UNCHANGED inboxVars
  BY <1>2, FollowOthers
<1>3. CASE Take
  BY <1>3, FollowTake
<1>4. CASE Select \/ Increment \/ Replace \/ Clear \/ Tell \/ Fail
  BY <1>4, FollowWork
<1>5. CASE RestartServer
  BY <1>5, FollowRestart
<1> QED BY <1>1, <1>2, <1>3, <1>4, <1>5 DEF InboxNext

\* Once the watcher has caught up, the row of a running instance is one its
\* state calls for.
THEOREM FollowsStateCorrect == InboxSpec => []InboxFollowsState
<1>1. InboxInit => TypeInv /\ FollowInv
  BY TypeInit, FollowInit
<1>2. TypeInv /\ FollowInv /\ [InboxNext]_inboxVars => TypeInv' /\ FollowInv'
  BY TypeNext, FollowNext
<1>3. TypeInv /\ FollowInv => InboxFollowsState
  <2> SUFFICES ASSUME TypeInv, FollowInv, task = Rest, heard = <<>>, NEW i \in InboxInstances \ (failed \cup missed), state[i] \in States
               PROVE  /\ Has(i, "needs_input") => state[i] = "waiting"
                      /\ Has(i, "completed_turn") => state[i] = "idle"
                      /\ state[i] = "waiting" /\ i \notin excused => Has(i, "needs_input")
    BY DEF InboxFollowsState
  <2>1. \A step : ~Ahead(i, step)
    BY NothingAhead DEF Ahead
  <2>2. \A v : ~LastHeard(heard, i, v)
    BY DEF LastHeard
  <2>3. prev[i] = state[i] \/ (prev[i] = NoState /\ state[i] = "starting")
    BY <2>2 DEF FollowInv, HeardInv
  <2>4. prev[i] = NoState => row[i] = NoItem
    BY DEF FollowInv, RowInv
  <2>5. CASE prev[i] = NoState
    BY <2>3, <2>4, <2>5, InboxAssumption DEF Has, States
  <2>6. CASE prev[i] # NoState
    BY <2>1, <2>3, <2>6 DEF FollowInv, RowInv
  <2> QED BY <2>5, <2>6
<1> QED BY <1>1, <1>2, <1>3, PTL DEF InboxSpec
=============================================================================
