---------------------------- MODULE OutputReplay ----------------------------
(* How the terminal of one instance reaches one connection: the actor's       *)
(* broadcast channel of output (instance_actor.rs), the focus tasks that      *)
(* forward it and send replays of the whole screen (ws/focus.rs), and the     *)
(* handler that starts, cancels and asks them (ws/handler.rs).                *)
(*                                                                            *)
(* Output is a series of chunks 1, 2, 3, ...; a replay covers the chunks the  *)
(* terminal had processed when the actor answered GetRecentOutput.  Every     *)
(* Focus starts a task of its own, a generation; a cancelled task runs on     *)
(* until its select! picks the cancellation.                                  *)
EXTENDS Naturals, Sequences, TLC

CONSTANTS
    Cap,         \* capacity of the broadcast channel (64)
    WireCap,     \* capacity of the connection's queue of messages (100)
    RefreshCap,  \* capacity of a focus task's refresh channel (4)
    MaxChunks,   \* bound: chunks the program prints
    MaxFocus,    \* bound: times the client focuses the instance
    MaxVisible,  \* bound: times the client reports its terminal visible
    Leaves       \* TRUE: the client also focuses other instances

ASSUME CapAssumption == Cap \in Nat \ {0} /\ WireCap \in Nat \ {0} /\ RefreshCap \in Nat \ {0}
ASSUME BoundAssumption == MaxChunks \in Nat \ {0} /\ MaxFocus \in Nat /\ MaxVisible \in Nat

VARIABLES
    produced,   \* chunks the actor has processed and broadcast
    pc,         \* generation -> where its focus task is
    pos,        \* generation -> the chunk its receiver reads next
    carry,      \* generation -> the message it is sending
    refresh,    \* generation -> requests waiting in its refresh channel
    cancelled,  \* generations whose token is cancelled
    current,    \* the generation in focus, 0 while another instance has it
    direct,     \* messages the input handler itself has to send
    wire,       \* messages on their way to the client
    expect,     \* the chunk the client shows next; 0 until it has a replay
    visible,    \* times the client has reported its terminal visible
    seen        \* history: "hurried" once the program has printed during a replay,
                \* "lagged" once a drain was cut short by a lag

taskVars == <<pc, pos, carry, refresh>>
handlerVars == <<cancelled, current, direct, visible>>
vars == <<produced, taskVars, handlerVars, wire, expect, seen>>

Gens == 1..MaxFocus
Ack == [kind |-> "ack", n |-> 0]
Output(n) == [kind |-> "output", n |-> n]
History(n) == [kind |-> "history", n |-> n]
Lagged(n) == [kind |-> "lagged", n |-> n]
Message == [kind : {"ack", "output", "history", "lagged"}, n : 0..MaxChunks]

Init ==
    /\ produced = 0
    /\ pc = [g \in Gens |-> "unborn"]
    /\ pos = [g \in Gens |-> 0]
    /\ carry = [g \in Gens |-> Ack]
    /\ refresh = [g \in Gens |-> 0]
    /\ cancelled = {}
    /\ current = 0
    /\ direct = <<>>
    /\ wire = <<>>
    /\ expect = 0
    /\ visible = 0
    /\ seen = {}

Room == Len(wire) < WireCap
Started == {g \in Gens : pc[g] # "unborn"}

\* A replay is between the actor's answer and the end of the drain.
Replaying == direct # <<>> \/ \E g \in Gens : pc[g] \in {"history", "drain"}

\* process_pty_output: the terminal takes the chunk, then it is broadcast.
Produce ==
    /\ produced < MaxChunks
    /\ produced' = produced + 1
    /\ seen' = IF Replaying THEN seen \cup {"hurried"} ELSE seen
    /\ UNCHANGED <<taskVars, handlerVars, wire, expect>>

-----------------------------------------------------------------------------
(* The handler of the client's messages, one at a time.                       *)

\* Fault: the previous focus task is not cancelled.
Cancelled_None == cancelled

\* "Cancel previous focus tasks"
Cancelled == Started

\* ClientMessage::Focus for this instance: a new task, a new refresh channel.
Focus(g) ==
    /\ direct = <<>>
    /\ Started = 1..(g - 1)
    /\ cancelled' = Cancelled
    /\ current' = g
    /\ pc' = [pc EXCEPT ![g] = "ack"]
    /\ expect' = 0
    /\ UNCHANGED <<produced, pos, carry, refresh, direct, wire, visible, seen>>

\* ClientMessage::Focus for another instance, whose task and output are not ours.
FocusOther ==
    /\ Leaves
    /\ direct = <<>>
    /\ current # 0
    /\ cancelled' = Cancelled
    /\ current' = 0
    /\ expect' = 0
    /\ UNCHANGED <<produced, taskVars, direct, wire, visible, seen>>

\* ClientMessage::TerminalVisible once the PTY is resized: ask the focus task if
\* the instance is focused, else answer with a replay directly.
TerminalVisible ==
    /\ direct = <<>>
    /\ visible < MaxVisible
    /\ visible' = visible + 1
    /\ expect' = 0
    /\ \/ /\ current # 0
          /\ refresh[current] < RefreshCap
          /\ refresh' = [refresh EXCEPT ![current] = @ + 1]
          /\ UNCHANGED direct
       \/ /\ current = 0
          /\ direct' = <<History(produced)>>
          /\ UNCHANGED refresh
    /\ UNCHANGED <<produced, pc, pos, carry, cancelled, current, wire, seen>>

SendDirect ==
    /\ direct # <<>>
    /\ Room
    /\ wire' = wire \o direct
    /\ direct' = <<>>
    /\ UNCHANGED <<produced, taskVars, cancelled, current, visible, expect, seen>>

-----------------------------------------------------------------------------
(* handle_focus.                                                              *)

\* FocusAck
SendAck(g) ==
    /\ pc[g] = "ack"
    /\ Room
    /\ wire' = Append(wire, Ack)
    /\ pc' = [pc EXCEPT ![g] = "subscribe"]
    /\ UNCHANGED <<produced, pos, carry, refresh, handlerVars, expect, seen>>

\* SubscribeOutput: the receiver gets what is broadcast from now on.
Subscribe(g) ==
    /\ pc[g] = "subscribe"
    /\ pc' = [pc EXCEPT ![g] = "loop"]
    /\ pos' = [pos EXCEPT ![g] = produced + 1]
    /\ UNCHANGED <<produced, carry, refresh, handlerVars, wire, expect, seen>>

\* The oldest chunk the broadcast channel still holds.
Oldest == IF produced > Cap THEN produced - Cap + 1 ELSE 1

\* Fault: a lagging receiver is sent on without being told how much it lost.
Received_LagUncounted(p) == IF p < Oldest THEN Lagged(0) ELSE Output(p)

\* What output_rx.recv() gives a receiver that has still to read chunk p.
Received(p) == IF p < Oldest THEN Lagged(Oldest - p) ELSE Output(p)

\* Fault: a lagging receiver subscribes again.
Following_Resubscribed(p) == IF p < Oldest THEN produced + 1 ELSE p + 1

\* Where it stands afterwards.
Following(p) == IF p < Oldest THEN Oldest ELSE p + 1

Receive(g) ==
    /\ pc[g] = "loop"
    /\ pos[g] <= produced
    /\ carry' = [carry EXCEPT ![g] = Received(pos[g])]
    /\ pos' = [pos EXCEPT ![g] = Following(pos[g])]
    /\ pc' = [pc EXCEPT ![g] = "send"]
    /\ UNCHANGED <<produced, refresh, handlerVars, wire, expect, seen>>

\* refresh_rx.recv(), then GetRecentOutput.
Refresh(g) ==
    /\ pc[g] = "loop"
    /\ refresh[g] > 0
    /\ refresh' = [refresh EXCEPT ![g] = @ - 1]
    /\ carry' = [carry EXCEPT ![g] = History(produced)]
    /\ pc' = [pc EXCEPT ![g] = "history"]
    /\ UNCHANGED <<produced, pos, handlerVars, wire, expect, seen>>

\* tx.send: of an Output or OutputLagged, or of the replay.
Send(g) ==
    /\ pc[g] \in {"send", "history"}
    /\ Room
    /\ wire' = Append(wire, carry[g])
    /\ pc' = [pc EXCEPT ![g] = IF @ = "send" THEN "loop" ELSE "drain"]
    /\ UNCHANGED <<produced, pos, carry, refresh, handlerVars, expect, seen>>

\* Fault: no drain.
Drained_Not(p) == p

\* while output_rx.try_recv().is_ok(): to the end, or to the first Lagged error,
\* which leaves all that the channel holds.
Drained(p) == IF p < Oldest THEN Oldest ELSE produced + 1

Drain(g) ==
    /\ pc[g] = "drain"
    /\ pos' = [pos EXCEPT ![g] = Drained(pos[g])]
    /\ seen' = IF pos[g] < Oldest THEN seen \cup {"lagged"} ELSE seen
    /\ pc' = [pc EXCEPT ![g] = "loop"]
    /\ UNCHANGED <<produced, carry, refresh, handlerVars, wire, expect>>

\* cancel.cancelled()
Stop(g) ==
    /\ pc[g] = "loop"
    /\ g \in cancelled
    /\ pc' = [pc EXCEPT ![g] = "done"]
    /\ UNCHANGED <<produced, pos, carry, refresh, handlerVars, wire, expect, seen>>

-----------------------------------------------------------------------------
\* The client: sender_task delivers the next message.  Until a replay arrives
\* output is not shown (awaitingReplay).  FocusAck starts a stream of its own.
Shown(m) ==
    CASE m.kind = "ack" -> 0
      [] m.kind = "history" -> m.n + 1
      [] m.kind = "output" /\ expect # 0 -> m.n + 1
      [] m.kind = "lagged" /\ expect # 0 -> expect + m.n
      [] OTHER -> expect

Deliver ==
    /\ wire # <<>>
    /\ wire' = Tail(wire)
    /\ expect' = Shown(Head(wire))
    /\ UNCHANGED <<produced, taskVars, handlerVars, seen>>

Task(g) ==
    \/ SendAck(g) \/ Subscribe(g) \/ Receive(g) \/ Refresh(g)
    \/ Send(g) \/ Drain(g) \/ Stop(g)

Next ==
    \/ Produce
    \/ \E g \in Gens : Focus(g) \/ Task(g)
    \/ FocusOther
    \/ TerminalVisible
    \/ SendDirect
    \/ Deliver

Spec == Init /\ [][Next]_vars

\* tokio polls what can run, and select! picks among its ready branches at
\* random: a request that stays in the refresh channel is taken in the end.
Fairness ==
    /\ WF_vars(Deliver) /\ WF_vars(SendDirect)
    /\ \A g \in Gens : WF_vars(Task(g)) /\ SF_vars(Refresh(g)) /\ SF_vars(Stop(g))

FairSpec == Spec /\ Fairness

-----------------------------------------------------------------------------
(* Properties.                                                                *)

TypeOK ==
    /\ produced \in 0..MaxChunks
    /\ pc \in [Gens -> {"unborn", "ack", "subscribe", "loop", "send", "history", "drain", "done"}]
    /\ pos \in [Gens -> 0..MaxChunks + 1]
    /\ carry \in [Gens -> Message]
    /\ refresh \in [Gens -> 0..RefreshCap]
    /\ cancelled \subseteq Gens
    /\ current \in 0..MaxFocus
    /\ direct \in Seq(Message) /\ Len(direct) <= 1
    /\ wire \in Seq(Message) /\ Len(wire) <= WireCap
    /\ expect \in Nat
    /\ visible \in 0..MaxVisible
    /\ seen \subseteq {"hurried", "lagged"}

Delivering(kind) == wire # <<>> /\ wire' = Tail(wire) /\ Head(wire).kind = kind

\* The client has focused the instance once and not left it.
Staying == Started = {1} /\ current = 1

\* "Output already baked into the replay isn't also forwarded as live Output":
\* a client that stays is never sent a chunk its terminal already shows, however
\* busy the program, unless a lag cut a drain short.
NoRepeat ==
    [][Delivering("output") /\ expect # 0 /\ Staying /\ "lagged" \notin seen
        => Head(wire).n >= expect]_vars

\* "Drain broadcasts already included in the replay", and only those: a chunk
\* the client's terminal has missed was counted in an OutputLagged before, how-
\* ever small the broadcast channel, unless the program printed during a replay.
NoSilentLoss ==
    [][Delivering("output") /\ expect # 0 /\ Staying /\ "hurried" \notin seen
        => Head(wire).n <= expect]_vars

\* With the instance focused to the end, the client's terminal ends up with every
\* chunk shown, in a replay or live, or counted as dropped.
CatchesUp ==
    <>[](Staying /\ expect # 0 /\ "hurried" \notin seen => expect = produced + 1)

\* What the comments say without those conditions.
NeverRepeated == [][Delivering("output") /\ expect # 0 => Head(wire).n >= expect]_vars
NeverSkipped == [][Delivering("output") /\ expect # 0 => Head(wire).n <= expect]_vars

\* A focus task that has been replaced ends, whatever is waiting for it.
OldTasksEnd == \A g \in Gens : g \in Started /\ g # current ~> pc[g] = "done"
=============================================================================
