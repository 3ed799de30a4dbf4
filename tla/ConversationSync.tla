-------------------------- MODULE ConversationSync --------------------------
(* How the conversation reaches one client: the focus tasks that send a        *)
(* snapshot and forward broadcasts (ws/focus.rs), the synchronisation of a tab *)
(* that becomes visible (send_conversation_since), the connection, and the     *)
(* client's list (stores/instances.ts, websocket.ts).                          *)
(*                                                                             *)
(* Every Focus starts a task of its own, a generation; a cancelled task runs   *)
(* on until its select! picks the cancellation.                                *)
EXTENDS Conversation

CONSTANTS
    EventCap,   \* capacity of the driver's broadcast channel (64)
    WireCap,    \* capacity of the connection's queue of messages (100)
    MaxFocus,   \* bound: times the client focuses the instance
    MaxAsks     \* bound: times the client asks for a synchronisation

ASSUME ClientAssumption ==
    /\ EventCap \in Nat \ {0} /\ WireCap \in Nat \ {0}
    /\ MaxFocus \in Nat /\ MaxAsks \in Nat

VARIABLES
    pc,         \* generation -> where its focus task is
    pos,        \* generation -> the event its receiver reads next
    carry,      \* generation -> the message it is sending
    cancelled,  \* generations whose token is cancelled
    current,    \* the generation in focus, 0 if none
    sync,       \* ask -> where its answer is: a phase and the last id or the message
    asks,       \* synchronisations asked for
    wire,       \* messages on their way to the client
    shown,      \* the client's turns
    waiting,    \* TRUE while the client's timer for an answer runs
    raced       \* history: TRUE once two senders were at work for this client

taskVars == <<pc, pos, carry>>
handlerVars == <<cancelled, current>>
syncVars == <<sync, asks>>
clientVars == <<wire, shown, waiting, raced>>
vars == <<serverVars, taskVars, handlerVars, syncVars, clientVars>>

Gens == 1..MaxFocus
Asks == 1..MaxAsks
Ack == [kind |-> "ack", turns |-> <<>>]
Full(s) == [kind |-> "full", turns |-> s]
Update(s) == [kind |-> "update", turns |-> s]
Idle == [phase |-> "none", since |-> 0, answer |-> Ack]
WireMessage == [kind : {"ack", "full", "update"}, turns : Seq(Turn)]

Init ==
    /\ ServerInit
    /\ pc = [g \in Gens |-> "unborn"]
    /\ pos = [g \in Gens |-> 0]
    /\ carry = [g \in Gens |-> Ack]
    /\ cancelled = {}
    /\ current = 0
    /\ sync = [a \in Asks |-> Idle]
    /\ asks = 0
    /\ wire = <<>>
    /\ shown = <<>>
    /\ waiting = FALSE
    /\ raced = FALSE

\* Fault: the connection's queue has no bound.
Room_Unbounded == TRUE

\* The connection's queue has room.
Room == Len(wire) < WireCap
Started == {g \in Gens : pc[g] # "unborn"}
Alive == {g \in Gens : pc[g] \notin {"unborn", "done"}}

Server == ServerNext /\ UNCHANGED <<taskVars, handlerVars, syncVars, clientVars>>

-----------------------------------------------------------------------------
(* The handler of the client's messages.                                       *)

\* ClientMessage::Focus for this instance, also after a reconnect.
Focus(g) ==
    /\ Started = 1..(g - 1)
    /\ cancelled' = Started
    /\ current' = g
    /\ pc' = [pc EXCEPT ![g] = "ack"]
    /\ raced' = (raced \/ Alive # {})
    /\ UNCHANGED <<serverVars, pos, carry, syncVars, wire, shown, waiting>>

\* ClientMessage::Focus for another instance.
FocusOther ==
    /\ current # 0
    /\ cancelled' = Started
    /\ current' = 0
    /\ UNCHANGED <<serverVars, taskVars, syncVars, clientVars>>

-----------------------------------------------------------------------------
(* handle_focus.                                                               *)

SendAck(g) ==
    /\ pc[g] = "ack"
    /\ Room
    /\ wire' = Append(wire, Ack)
    /\ pc' = [pc EXCEPT ![g] = "subscribe"]
    /\ UNCHANGED <<serverVars, pos, carry, handlerVars, syncVars, shown, waiting, raced>>

\* "Subscribe to conversation broadcast BEFORE reading the snapshot."
Subscribe(g) ==
    /\ pc[g] = "subscribe"
    /\ pc' = [pc EXCEPT ![g] = "snapshot"]
    /\ pos' = [pos EXCEPT ![g] = Len(events) + 1]
    /\ UNCHANGED <<serverVars, carry, handlerVars, syncVars, clientVars>>

\* GetConversationSnapshot, at the start and after a lag; an empty one is not sent.
Snapshot(g) ==
    /\ pc[g] = "snapshot"
    /\ carry' = [carry EXCEPT ![g] = IF driver = <<>> THEN Ack ELSE Full(driver)]
    /\ pc' = [pc EXCEPT ![g] = IF driver = <<>> THEN "loop" ELSE "send"]
    /\ UNCHANGED <<serverVars, pos, handlerVars, syncVars, clientVars>>

\* The oldest event the broadcast channel still holds.
Oldest == IF Len(events) > EventCap THEN Len(events) - EventCap + 1 ELSE 1

\* convo_rx.recv(): an event to forward.
Receive(g) ==
    /\ pc[g] = "loop"
    /\ pos[g] \in Oldest..Len(events)
    /\ carry' = [carry EXCEPT ![g] = events[pos[g]]]
    /\ pos' = [pos EXCEPT ![g] = @ + 1]
    /\ pc' = [pc EXCEPT ![g] = "send"]
    /\ UNCHANGED <<serverVars, handlerVars, syncVars, clientVars>>

\* Fault: a lag is only logged.
AfterLag_Ignored == "loop"

\* "Re-sync from actor's driver"
AfterLag == "snapshot"

\* convo_rx.recv(): Lagged.
Lag(g) ==
    /\ pc[g] = "loop"
    /\ pos[g] < Oldest
    /\ pos' = [pos EXCEPT ![g] = Oldest]
    /\ pc' = [pc EXCEPT ![g] = AfterLag]
    /\ UNCHANGED <<serverVars, carry, handlerVars, syncVars, clientVars>>

Send(g) ==
    /\ pc[g] = "send"
    /\ Room
    /\ wire' = Append(wire, carry[g])
    /\ carry' = [carry EXCEPT ![g] = Ack]
    /\ pc' = [pc EXCEPT ![g] = "loop"]
    /\ UNCHANGED <<serverVars, pos, handlerVars, syncVars, shown, waiting, raced>>

\* cancel.cancelled()
Stop(g) ==
    /\ pc[g] = "loop"
    /\ g \in cancelled
    /\ pc' = [pc EXCEPT ![g] = "done"]
    /\ pos' = [pos EXCEPT ![g] = 0]
    /\ UNCHANGED <<serverVars, carry, handlerVars, syncVars, clientVars>>

Task(g) ==
    \/ SendAck(g) \/ Subscribe(g) \/ Snapshot(g) \/ Receive(g) \/ Lag(g) \/ Send(g) \/ Stop(g)

-----------------------------------------------------------------------------
(* ConversationSync, each in a task of its own.                                *)

LastId == IF shown = <<>> THEN 0 ELSE shown[Len(shown)].id

\* refreshAfterVisibilityChange: ask for what follows the last turn shown.
Ask ==
    /\ current # 0
    /\ asks < MaxAsks
    /\ asks' = asks + 1
    /\ sync' = [sync EXCEPT ![asks + 1] = [phase |-> "asked", since |-> LastId, answer |-> Ack]]
    /\ waiting' = TRUE
    /\ raced' = TRUE
    /\ UNCHANGED <<serverVars, taskVars, handlerVars, wire, shown>>

\* The driver's turns after the one with that id; all of them if it has none.
After(since) ==
    LET here == {i \in DOMAIN driver : driver[i].id = since}
    IN  IF here = {} THEN driver ELSE SubSeq(driver, 1 + CHOOSE i \in here : TRUE, Len(driver))

\* send_conversation_since: nothing is sent if there is nothing to send.
Lookup(a) ==
    LET since == sync[a].since
        answer == IF since = 0 THEN Full(driver) ELSE Update(After(since))
    IN
    /\ sync[a].phase = "asked"
    /\ sync' = [sync EXCEPT ![a] = IF answer.turns = <<>> THEN Idle
                                 ELSE [phase |-> "send", since |-> 0, answer |-> answer]]
    /\ UNCHANGED <<serverVars, taskVars, handlerVars, asks, clientVars>>

Answer(a) ==
    /\ sync[a].phase = "send"
    /\ Room
    /\ wire' = Append(wire, sync[a].answer)
    /\ sync' = [sync EXCEPT ![a] = Idle]
    /\ UNCHANGED <<serverVars, taskVars, handlerVars, asks, shown, waiting, raced>>

-----------------------------------------------------------------------------
(* The client and its connection.                                              *)

\* Fault: what arrives is appended as it is.
Extended_Blind(list, new) == list \o new

\* The k-th of a set of positions.
Nth(s, k) == CHOOSE p \in s : Cardinality({q \in s : q <= p}) = k

\* appendInstanceTurns: the new turns whose uuid is not there yet, in their order.
Extended(list, new) ==
    LET fresh == {p \in DOMAIN new : \A i \in DOMAIN list : list[i].id # new[p].id}
    IN  list \o [k \in 1..Cardinality(fresh) |-> new[Nth(fresh, k)]]

Shown(m) ==
    CASE m.kind = "full" -> m.turns
      [] m.kind = "update" -> Extended(shown, m.turns)
      [] OTHER -> shown

Deliver ==
    /\ wire # <<>>
    /\ wire' = Tail(wire)
    /\ shown' = Shown(Head(wire))
    /\ waiting' = (waiting /\ Head(wire).kind = "ack")
    /\ UNCHANGED <<serverVars, taskVars, handlerVars, syncVars, raced>>

\* The connection is lost, with all that was on its way; what served it ends.
\* The client keeps its turns, and its timer.
Lost ==
    /\ wire' = <<>>
    /\ pc' = [g \in Gens |-> IF g \in Alive THEN "done" ELSE pc[g]]
    /\ cancelled' = Started
    /\ current' = 0
    /\ pos' = [g \in Gens |-> 0]
    /\ carry' = [g \in Gens |-> Ack]
    /\ sync' = [a \in Asks |-> Idle]
    /\ UNCHANGED <<serverVars, asks, shown, raced>>

Disconnect == current # 0 /\ Lost /\ UNCHANGED waiting

\* "ConversationSync timeout - no response in 10s, reconnecting"
Timeout == waiting /\ Lost /\ waiting' = FALSE

Next ==
    \/ Server
    \/ \E g \in Gens : Focus(g) \/ Task(g)
    \/ FocusOther
    \/ Ask
    \/ \E a \in Asks : Lookup(a) \/ Answer(a)
    \/ Deliver
    \/ Disconnect
    \/ Timeout

Spec == Init /\ [][Next]_vars

\* tokio polls what can run, and select! picks among its ready branches at random.
Fairness ==
    /\ WF_vars(InitialPoll /\ Server) /\ WF_vars(Poll /\ Server)
    /\ WF_vars(SendSignal /\ Server) /\ WF_vars(TakeSignal /\ Server)
    /\ WF_vars(Deliver)
    /\ \A g \in Gens : WF_vars(Task(g)) /\ SF_vars(Stop(g))
    /\ \A a \in Asks : WF_vars(Lookup(a)) /\ WF_vars(Answer(a))

FairSpec == Spec /\ Fairness

-----------------------------------------------------------------------------
(* Properties.                                                                 *)

TypeOK ==
    /\ ServerTypeOK
    /\ pc \in [Gens -> {"unborn", "ack", "subscribe", "snapshot", "loop", "send", "done"}]
    /\ pos \in [Gens -> Nat]
    /\ carry \in [Gens -> WireMessage]
    /\ cancelled \subseteq Gens
    /\ current \in 0..MaxFocus
    /\ sync \in [Asks -> [phase : {"none", "asked", "send"}, since : Nat, answer : WireMessage]]
    /\ asks \in 0..MaxAsks
    /\ wire \in Seq(WireMessage) /\ Len(wire) <= WireCap
    /\ shown \in Seq(Turn)
    /\ waiting \in BOOLEAN /\ raced \in BOOLEAN

\* Nobody sees a turn twice, whoever sent it: snapshots, broadcasts of one or two
\* focus tasks and answers to synchronisations overlap.
NoDuplicates == \A i, j \in DOMAIN shown : i # j => shown[i].id # shown[j].id

ClientCopy == INSTANCE LaggingCopy WITH
    source <- driver, copy <- IF raced THEN <<>> ELSE shown, MayForget <- TRUE

\* Fed by one sender at a time, the client's list is at every moment an earlier
\* state of the driver's: no gap, no turn out of place, across lags, reconnects
\* and the overlap of snapshot and subscription.
ClientFollows == ClientCopy!Spec

\* A client that stays on the instance ends up with all its turns and results.
ClientCatchesUp == <>[](current # 0 /\ ~raced => shown = driver /\ driver = turns)

\* The same whoever sends: it fails when an answer or a replaced task's snapshot
\* overtakes broadcasts, and the hole stays until the next snapshot.
WholeCopy == INSTANCE LaggingCopy WITH source <- driver, copy <- shown, MayForget <- TRUE
AlwaysFollows == WholeCopy!Spec

\* A synchronisation on a living connection is answered: it fails when there is
\* nothing new, and the client then takes the connection for dead.
AskAnswered == waiting ~> ~waiting \/ current = 0
=============================================================================
