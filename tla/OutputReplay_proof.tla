------------------------- MODULE OutputReplay_proof -------------------------
(* Output and replays for every channel size and every number of chunks,      *)
(* focuses and reports.                                                       *)
EXTENDS OutputReplay, SequenceTheorems, TLAPS

USE CapAssumption, BoundAssumption

\* A channel that is well typed stays so when a message is added while it has
\* room, and when its first message is taken.
LEMMA WireStaysTyped ==
    ASSUME wire \in Seq(Message), Len(wire) <= WireCap
    PROVE  /\ \A m \in Message : Room =>
                /\ Append(wire, m) \in Seq(Message)
                /\ Len(Append(wire, m)) <= WireCap
           /\ wire # <<>> =>
                /\ Tail(wire) \in Seq(Message)
                /\ Len(Tail(wire)) <= WireCap
                /\ Head(wire) \in Message
<1>1. ASSUME NEW m \in Message, Room
      PROVE  Append(wire, m) \in Seq(Message) /\ Len(Append(wire, m)) <= WireCap
  <2>1. Append(wire, m) \in Seq(Message) /\ Len(Append(wire, m)) = Len(wire) + 1
    OBVIOUS
  <2>2. Len(wire) \in Nat /\ Len(wire) < WireCap
    BY <1>1 DEF Room
  <2> QED
    BY <2>1, <2>2
<1>2. ASSUME wire # <<>>
      PROVE  Tail(wire) \in Seq(Message) /\ Len(Tail(wire)) <= WireCap /\ Head(wire) \in Message
  <2>1. Len(wire) \in Nat /\ Len(wire) # 0
    BY <1>2, EmptySeq
  <2>2. Tail(wire) \in Seq(Message) /\ Len(Tail(wire)) = Len(wire) - 1 /\ Head(wire) \in Message
    BY <1>2
  <2> QED
    BY <2>1, <2>2
<1> QED
  BY <1>1, <1>2

\* Oldest is a chunk that was or will be produced.
LEMMA OldestBounds ==
    ASSUME produced \in 0..MaxChunks
    PROVE  /\ Oldest \in 1..MaxChunks
           /\ \A p \in 0..MaxChunks + 1 :
                /\ p <= produced => Received(p) \in Message
                /\ p <= produced => Following(p) \in 0..MaxChunks + 1
                /\ Drained(p) \in 0..MaxChunks + 1
<1>1. Oldest \in 1..MaxChunks
  BY DEF Oldest
<1>2. ASSUME NEW p \in 0..MaxChunks + 1, p <= produced
      PROVE  Received(p) \in Message
  <2>1. CASE p < Oldest
    <3>1. Oldest - p \in 0..MaxChunks
      BY <1>1, <2>1
    <3> QED
      BY <2>1, <3>1 DEF Received, Lagged, Message
  <2>2. CASE ~(p < Oldest)
    <3>1. p \in 0..MaxChunks
      BY <1>2
    <3> QED
      BY <2>2, <3>1 DEF Received, Output, Message
  <2> QED
    BY <2>1, <2>2
<1>3. ASSUME NEW p \in 0..MaxChunks + 1, p <= produced
      PROVE  Following(p) \in 0..MaxChunks + 1
  BY <1>1, <1>3 DEF Following
<1>4. ASSUME NEW p \in 0..MaxChunks + 1
      PROVE  Drained(p) \in 0..MaxChunks + 1
  BY <1>1 DEF Drained
<1> QED
  BY <1>1, <1>2, <1>3, <1>4

\* The initial state is well typed.
LEMMA TypeInit == Init => TypeOK
<1> SUFFICES ASSUME Init PROVE TypeOK
  OBVIOUS
<1>1. Ack \in Message
  BY DEF Ack, Message
<1>2. direct \in Seq(Message) /\ Len(direct) <= 1 /\ wire \in Seq(Message) /\ Len(wire) <= WireCap
  BY DEF Init
<1>3. expect \in Nat /\ current \in 0..MaxFocus /\ visible \in 0..MaxVisible /\ produced \in 0..MaxChunks
  BY DEF Init
<1> QED
  BY <1>1, <1>2, <1>3 DEF Init, TypeOK

\* What the actor and the handler of the client's messages do keeps the types.
LEMMA TypeHandler ==
    ASSUME TypeOK, Produce \/ FocusOther \/ TerminalVisible \/ SendDirect \/ Deliver \/ (\E g \in Gens : Focus(g))
    PROVE  TypeOK'
<1>1. CASE Produce
  <2>1. produced' \in 0..MaxChunks
    BY <1>1 DEF TypeOK, Produce
  <2>2. seen' \subseteq {"hurried", "lagged"}
    BY <1>1 DEF TypeOK, Produce
  <2> QED
    BY <1>1, <2>1, <2>2 DEF TypeOK, Produce, taskVars, handlerVars
<1>2. CASE FocusOther
  <2>1. Cancelled \subseteq Gens
    BY DEF Cancelled, Started
  <2> QED
    BY <1>2, <2>1 DEF TypeOK, FocusOther, taskVars
<1>3. CASE \E g \in Gens : Focus(g)
  <2> PICK g \in Gens : Focus(g)
    BY <1>3
  <2>1. Cancelled \subseteq Gens
    BY DEF Cancelled, Started
  <2>2. g \in 0..MaxFocus
    BY DEF Gens
  <2> QED
    BY <2>1, <2>2 DEF TypeOK, Focus
<1>4. CASE TerminalVisible
  <2>1. visible' \in 0..MaxVisible /\ expect' \in Nat
    BY <1>4 DEF TerminalVisible, TypeOK
  <2>2. CASE /\ current # 0
             /\ refresh[current] < RefreshCap
             /\ refresh' = [refresh EXCEPT ![current] = @ + 1]
             /\ UNCHANGED direct
    <3>1. current \in Gens /\ refresh[current] \in 0..RefreshCap
      BY <2>2 DEF TypeOK, Gens
    <3>2. refresh[current] + 1 \in 0..RefreshCap
      BY <2>2, <3>1
    <3>3. refresh' \in [Gens -> 0..RefreshCap]
      BY <2>2, <3>2 DEF TypeOK
    <3> QED
      BY <1>4, <2>1, <2>2, <3>3 DEF TypeOK, TerminalVisible
  <2>3. CASE /\ current = 0
             /\ direct' = <<History(produced)>>
             /\ UNCHANGED refresh
    <3>1. History(produced) \in Message
      BY DEF History, Message, TypeOK
    <3>2. direct' \in Seq(Message) /\ Len(direct') <= 1
      BY <2>3, <3>1
    <3> QED
      BY <1>4, <2>1, <2>3, <3>2 DEF TypeOK, TerminalVisible
  <2> QED
    BY <1>4, <2>2, <2>3 DEF TerminalVisible
<1>5. CASE SendDirect
  <2>1. direct \in Seq(Message) /\ direct # <<>> /\ Len(direct) \in Nat /\ Len(direct) <= 1
    BY <1>5 DEF SendDirect, TypeOK
  <2>2. wire' \in Seq(Message)
    BY <1>5, <2>1 DEF SendDirect, TypeOK
  <2>3. Len(wire') = Len(wire) + Len(direct)
    BY <1>5, <2>1 DEF SendDirect, TypeOK
  <2>4. Len(wire') <= WireCap
    BY <1>5, <2>1, <2>3 DEF SendDirect, TypeOK, Room
  <2>5. direct' \in Seq(Message) /\ Len(direct') <= 1
    BY <1>5 DEF SendDirect
  <2> QED
    BY <1>5, <2>2, <2>4, <2>5 DEF SendDirect, TypeOK, taskVars
<1>6. CASE Deliver
  <2>1. wire' \in Seq(Message) /\ Len(wire') <= WireCap /\ Head(wire) \in Message
    BY <1>6, WireStaysTyped DEF Deliver, TypeOK
  <2>2. Head(wire).n \in Nat /\ expect \in Nat
    BY <2>1 DEF Message, TypeOK
  <2>3. Shown(Head(wire)) \in Nat
    BY <2>2 DEF Shown
  <2> QED
    BY <1>6, <2>1, <2>3 DEF Deliver, TypeOK, taskVars, handlerVars
<1> QED
  BY <1>1, <1>2, <1>3, <1>4, <1>5, <1>6

\* What a focus task does keeps the types.
LEMMA TypeTask ==
    ASSUME TypeOK, NEW g \in Gens, Task(g)
    PROVE  TypeOK'
<1>1. CASE SendAck(g)
  <2>1. Ack \in Message
    BY DEF Ack, Message
  <2>2. wire' \in Seq(Message) /\ Len(wire') <= WireCap
    BY <1>1, <2>1, WireStaysTyped DEF SendAck, TypeOK
  <2> QED
    BY <1>1, <2>2 DEF SendAck, TypeOK, handlerVars
<1>2. CASE Subscribe(g)
  <2>1. produced + 1 \in 0..MaxChunks + 1
    BY DEF TypeOK
  <2> QED
    BY <1>2, <2>1 DEF Subscribe, TypeOK, handlerVars
<1>3. CASE Receive(g)
  <2>1. pos[g] \in 0..MaxChunks + 1 /\ pos[g] <= produced /\ produced \in 0..MaxChunks
    BY <1>3 DEF Receive, TypeOK
  <2>2. Received(pos[g]) \in Message /\ Following(pos[g]) \in 0..MaxChunks + 1
    BY <2>1, OldestBounds
  <2> QED
    BY <1>3, <2>2 DEF Receive, TypeOK, handlerVars
<1>4. CASE Refresh(g)
  <2>1. refresh[g] - 1 \in 0..RefreshCap
    BY <1>4 DEF Refresh, TypeOK
  <2>2. History(produced) \in Message
    BY DEF History, Message, TypeOK
  <2> QED
    BY <1>4, <2>1, <2>2 DEF Refresh, TypeOK, handlerVars
<1>5. CASE Send(g)
  <2>1. carry[g] \in Message
    BY DEF TypeOK
  <2>2. wire' \in Seq(Message) /\ Len(wire') <= WireCap
    BY <1>5, <2>1, WireStaysTyped DEF Send, TypeOK
  <2>3. pc' \in [Gens -> {"unborn", "ack", "subscribe", "loop", "send", "history", "drain", "done"}]
    BY <1>5 DEF Send, TypeOK
  <2> QED
    BY <1>5, <2>2, <2>3 DEF Send, TypeOK, handlerVars
<1>6. CASE Drain(g)
  <2>1. pos[g] \in 0..MaxChunks + 1 /\ produced \in 0..MaxChunks
    BY DEF TypeOK
  <2>2. Drained(pos[g]) \in 0..MaxChunks + 1
    BY <2>1, OldestBounds
  <2> QED
    BY <1>6, <2>2 DEF Drain, TypeOK, handlerVars
<1>7. CASE Stop(g)
  BY <1>7 DEF Stop, TypeOK, handlerVars
<1> QED
  BY <1>1, <1>2, <1>3, <1>4, <1>5, <1>6, <1>7 DEF Task

\* Every queue, counter and receiver of the connection stays in its bounds: the
\* queue of messages never exceeds its capacity, whoever sends.
THEOREM TypeCorrect == Spec => []TypeOK
<1>1. TypeOK /\ [Next]_vars => TypeOK'
  <2> SUFFICES ASSUME TypeOK, [Next]_vars PROVE TypeOK'
    OBVIOUS
  <2>1. CASE Next
    BY <2>1, TypeHandler, TypeTask DEF Next
  <2>2. CASE UNCHANGED vars
    BY <2>2 DEF TypeOK, vars, taskVars, handlerVars
  <2> QED
    BY <2>1, <2>2
<1> QED
  BY TypeInit, <1>1, PTL DEF Spec

\* Of all focus tasks ever started at most the current one runs on without having
\* been told to stop: two tasks never both keep forwarding the same output.
OneUncancelled == Started \subseteq cancelled \cup {current}

THEOREM OneUncancelledCorrect == Spec => []OneUncancelled
<1>1. Init => OneUncancelled
  BY DEF Init, OneUncancelled, Started
<1>2. OneUncancelled /\ TypeOK /\ [Next]_vars => OneUncancelled'
  <2> SUFFICES ASSUME OneUncancelled, TypeOK, [Next]_vars PROVE OneUncancelled'
    OBVIOUS
  <2>1. CASE \E g \in Gens : Focus(g)
    <3> PICK g \in Gens : Focus(g)
      BY <2>1
    <3>1. Started' \subseteq Started \cup {g}
      BY DEF Focus, Started, TypeOK
    <3>2. cancelled' = Started /\ current' = g
      BY DEF Focus, Cancelled
    <3> QED
      BY <3>1, <3>2 DEF OneUncancelled
  <2>2. CASE FocusOther
    BY <2>2 DEF FocusOther, OneUncancelled, Cancelled, Started, taskVars
  <2>3. CASE Produce \/ TerminalVisible \/ SendDirect \/ Deliver \/ UNCHANGED vars
    BY <2>3 DEF Produce, TerminalVisible, SendDirect, Deliver, vars, OneUncancelled, Started, taskVars, handlerVars
  <2>4. ASSUME NEW g \in Gens, Task(g) PROVE OneUncancelled'
    <3>1. pc[g] # "unborn" /\ cancelled' = cancelled /\ current' = current
      BY <2>4 DEF Task, SendAck, Subscribe, Receive, Refresh, Send, Drain, Stop, handlerVars
    <3>2. \A h \in Gens : h # g => pc'[h] = pc[h]
      BY <2>4 DEF Task, SendAck, Subscribe, Receive, Refresh, Send, Drain, Stop, TypeOK
    <3>3. Started' \subseteq Started
      BY <3>1, <3>2 DEF Started
    <3> QED
      BY <3>1, <3>3 DEF OneUncancelled
  <2> QED
    BY <2>1, <2>2, <2>3, <2>4 DEF Next
<1> QED
  BY <1>1, <1>2, TypeCorrect, PTL DEF Spec

-----------------------------------------------------------------------------
(* What the client shows while it stays.  Two claims, one argument: no output   *)
(* is below the chunk the client expects ("high": what follows each message is  *)
(* bounded from above) and none is beyond it ("low": bounded from below).       *)

Sides == {"high", "low"}
Within(side, a, b) == IF side = "high" THEN a <= b ELSE b <= a

\* A client within a of the chunk it expects shows m, and is then within b.
Fits(side, a, m, b) ==
    /\ m.kind = "history" => Within(side, m.n + 1, b)
    /\ m.kind = "output" => Within(side, a, m.n) /\ Within(side, m.n + 1, b)
    /\ m.kind = "lagged" => Within(side, a + m.n, b)

\* c[k] bounds what the client expects after k of the messages q.
IsFeed(side, c, a, q, r) ==
    /\ c \in [0..Len(q) -> Nat]
    /\ c[0] = a
    /\ c[Len(q)] = r
    /\ \A k \in 1..Len(q) : Fits(side, c[k - 1], q[k], c[k])
Leads(side, a, q, r) == \E c : IsFeed(side, c, a, q, r)

\* A client that is within r after the wire stays within what task g will send.
Held(side, g, r) ==
    /\ pc[g] = "subscribe" => \A n \in produced..MaxChunks : Within(side, r, n + 1)
    /\ pc[g] = "loop" => Within(side, r, pos[g])
    /\ pc[g] = "send" => Fits(side, r, carry[g], pos[g])
    /\ pc[g] = "history" => carry[g].kind = "history" /\ Within(side, carry[g].n, produced)
    /\ pc[g] = "drain" => Within(side, r, produced + 1)

\* What the two claims leave out.
Excused(side) == IF side = "high" THEN "lagged" \in seen ELSE "hurried" \in seen

\* The client has not left the instance since its first focus.
Stay == Started = {} \/ Staying

FedInv(side) ==
    Stay /\ ~Excused(side) =>
        \E a, r \in Nat :
            /\ Leads(side, a, wire, r)
            /\ expect # 0 => Within(side, expect, a)
            /\ \A g \in Gens : Held(side, g, r)

\* The handler answers itself only while no task is in focus.
DirectInv ==
    /\ current # 0 => current \in Started /\ direct = <<>>
    /\ direct = <<>> \/ \E n \in 0..MaxChunks : direct = <<History(n)>>

LEMMA FeedEmpty ==
    ASSUME NEW side \in Sides, NEW a \in Nat
    PROVE  Leads(side, a, <<>>, a)
<1> DEFINE c == [k \in 0..0 |-> a]
<1>1. c \in [0..0 -> Nat] /\ c[0] = a
  OBVIOUS
<1> HIDE DEF c
<1>2. IsFeed(side, c, a, <<>>, a)
  BY <1>1 DEF IsFeed
<1> QED BY <1>2 DEF Leads

\* A message joins the wire.
LEMMA FeedExtends ==
    ASSUME NEW side \in Sides, NEW a, NEW q \in Seq(Message), NEW r, Leads(side, a, q, r),
           NEW m \in Message, NEW s \in Nat, Fits(side, r, m, s)
    PROVE  Leads(side, a, Append(q, m), s)
<1>1. PICK c : IsFeed(side, c, a, q, r)
  BY DEF Leads
<1> DEFINE n == Len(q)
           p == Append(q, m)
           b == [k \in 0..n + 1 |-> IF k <= n THEN c[k] ELSE s]
<1>2. n \in Nat /\ Len(p) = n + 1 /\ p[n + 1] = m /\ \A k \in 1..n : p[k] = q[k]
  OBVIOUS
<1>3. /\ \A k \in 0..n : c[k] \in Nat
      /\ c[0] = a /\ c[n] = r /\ \A k \in 1..n : Fits(side, c[k - 1], q[k], c[k])
  BY <1>1 DEF IsFeed
<1> HIDE DEF p, n
<1>4. b \in [0..n + 1 -> Nat] /\ b[n + 1] = s /\ \A k \in 0..n : b[k] = c[k]
  BY <1>2, <1>3
<1> HIDE DEF b
<1>5. ASSUME NEW k \in 1..n + 1
      PROVE  Fits(side, b[k - 1], p[k], b[k])
  <2>1. CASE k = n + 1
    <3>1. b[k - 1] = r
      BY <1>2, <1>3, <1>4, <2>1
    <3> QED BY <1>2, <1>4, <2>1, <3>1
  <2>2. CASE k # n + 1
    <3>1. k \in 1..n /\ k - 1 \in 0..n /\ k \in 0..n
      BY <1>2, <2>2
    <3> QED BY <1>2, <1>3, <1>4, <3>1
  <2> QED BY <2>1, <2>2
<1>6. b[0] = a
  <2>1. 0 \in 0..n
    BY <1>2
  <2> QED BY <1>3, <1>4, <2>1
<1>7. IsFeed(side, b, a, p, s)
  BY <1>2, <1>4, <1>5, <1>6 DEF IsFeed
<1> QED BY <1>7 DEF Leads, p

\* The client reads the first message.
LEMMA FeedAdvances ==
    ASSUME NEW side \in Sides, NEW a, NEW q \in Seq(Message), q # <<>>, NEW r, Leads(side, a, q, r)
    PROVE  a \in Nat /\ \E b \in Nat : Fits(side, a, Head(q), b) /\ Leads(side, b, Tail(q), r)
<1>1. PICK c : IsFeed(side, c, a, q, r)
  BY DEF Leads
<1> DEFINE n == Len(q)
           p == Tail(q)
           b == [k \in 0..n - 1 |-> c[k + 1]]
<1>2. n \in Nat /\ n # 0 /\ Len(p) = n - 1 /\ Head(q) = q[1] /\ \A k \in 1..n - 1 : p[k] = q[k + 1]
  BY EmptySeq
<1>3. /\ \A k \in 0..n : c[k] \in Nat
      /\ c[0] = a /\ c[n] = r /\ \A k \in 1..n : Fits(side, c[k - 1], q[k], c[k])
  BY <1>1 DEF IsFeed
<1> HIDE DEF p, n
<1>4. \A k \in 0..n - 1 : k + 1 \in 0..n /\ k + 1 \in 1..n /\ (k + 1) - 1 = k
  BY <1>2
<1>5. b \in [0..n - 1 -> Nat] /\ \A k \in 0..n - 1 : b[k] = c[k + 1]
  BY <1>3, <1>4
<1> HIDE DEF b
<1>6. 0 \in 0..n /\ 1 \in 0..n /\ 0 \in 0..n - 1 /\ n - 1 \in 0..n - 1 /\ 0 + 1 = 1 /\ (n - 1) + 1 = n /\ 1 \in 1..n /\ 1 - 1 = 0
  BY <1>2
<1>7. c[1] \in Nat /\ a \in Nat /\ Fits(side, a, Head(q), c[1])
  BY <1>2, <1>3, <1>6
<1>8. b[0] = c[1] /\ b[n - 1] = r
  BY <1>3, <1>5, <1>6
<1>9. ASSUME NEW k \in 1..n - 1
      PROVE  Fits(side, b[k - 1], p[k], b[k])
  <2>1. k + 1 \in 1..n /\ (k + 1) - 1 = k /\ k - 1 \in 0..n - 1 /\ k \in 0..n - 1 /\ (k - 1) + 1 = k
    BY <1>2
  <2>2. b[k] = c[k + 1] /\ b[k - 1] = c[k] /\ p[k] = q[k + 1]
    BY <1>2, <1>5, <2>1
  <2>3. Fits(side, c[k], q[k + 1], c[k + 1])
    BY <1>3, <2>1
  <2> QED BY <2>2, <2>3
<1>10. IsFeed(side, b, c[1], p, r)
  BY <1>2, <1>5, <1>8, <1>9 DEF IsFeed
<1> QED BY <1>7, <1>10 DEF Leads, p

LEMMA DirectInit == Init => DirectInv
BY DEF Init, DirectInv

LEMMA DirectNext == TypeOK /\ DirectInv /\ [Next]_vars => DirectInv'
<1> SUFFICES ASSUME TypeOK, DirectInv, [Next]_vars PROVE DirectInv'
  OBVIOUS
<1>1. ASSUME NEW g \in Gens, Focus(g)
      PROVE  DirectInv'
  <2>1. current' = g /\ direct' = direct /\ direct = <<>> /\ pc'[g] = "ack"
    BY <1>1 DEF Focus, TypeOK
  <2>2. g \in Started'
    BY <2>1 DEF Started
  <2> QED BY <2>1, <2>2 DEF DirectInv
<1>2. CASE FocusOther
  BY <1>2 DEF FocusOther, DirectInv
<1>3. CASE TerminalVisible
  <2>1. UNCHANGED <<pc, current>> /\ produced \in 0..MaxChunks
    BY <1>3 DEF TerminalVisible, TypeOK
  <2>2. (current = 0 /\ direct' = <<History(produced)>>) \/ direct' = direct
    BY <1>3 DEF TerminalVisible
  <2> QED BY <2>1, <2>2 DEF DirectInv, Started
<1>4. CASE SendDirect
  BY <1>4 DEF SendDirect, DirectInv, Started, taskVars
<1>5. CASE Produce \/ Deliver \/ UNCHANGED vars
  BY <1>5 DEF Produce, Deliver, vars, taskVars, handlerVars, DirectInv, Started
<1>6. ASSUME NEW g \in Gens, Task(g)
      PROVE  DirectInv'
  <2>1. UNCHANGED <<current, direct>> /\ pc[g] # "unborn" /\ pc'[g] # "unborn" /\ \A h \in Gens : h # g => pc'[h] = pc[h]
    BY <1>6 DEF Task, SendAck, Subscribe, Receive, Refresh, Send, Drain, Stop, handlerVars, TypeOK
  <2>2. Started' = Started
    BY <2>1 DEF Started
  <2> QED BY <2>1, <2>2 DEF DirectInv
<1> QED BY <1>1, <1>2, <1>3, <1>4, <1>5, <1>6 DEF Next

LEMMA FedInit ==
    ASSUME NEW side \in Sides, Init
    PROVE  FedInv(side)
<1>1. wire = <<>> /\ expect = 0 /\ \A g \in Gens : pc[g] = "unborn"
  BY DEF Init
<1>2. Leads(side, 0, wire, 0)
  BY <1>1, FeedEmpty
<1>3. \A g \in Gens : Held(side, g, 0)
  BY <1>1 DEF Held
<1> QED BY <1>1, <1>2, <1>3 DEF FedInv

\* The program prints: a replay that was complete no longer is, which spoils the
\* claim from below only.
LEMMA FedProduce ==
    ASSUME NEW side \in Sides, TypeOK, FedInv(side), Produce
    PROVE  FedInv(side)'
<1> SUFFICES ASSUME Stay', ~Excused(side)'
             PROVE  \E a, r \in Nat : /\ Leads(side, a, wire', r)
                                      /\ expect' # 0 => Within(side, expect', a)
                                      /\ \A g \in Gens : Held(side, g, r)'
  BY DEF FedInv
<1>1. UNCHANGED <<pc, pos, carry, current, wire, expect>> /\ produced' = produced + 1 /\ produced \in 0..MaxChunks
      /\ pc \in [Gens -> {"unborn", "ack", "subscribe", "loop", "send", "history", "drain", "done"}] /\ carry \in [Gens -> Message]
  BY DEF Produce, taskVars, handlerVars, TypeOK
<1>2. Stay /\ ~Excused(side)
  BY <1>1 DEF Stay, Staying, Started, Excused, Produce
<1>3. side = "low" => \A g \in Gens : pc[g] \notin {"history", "drain"}
  BY DEF Excused, Produce, Replaying
<1>4. PICK a, r \in Nat : /\ Leads(side, a, wire, r)
                          /\ expect # 0 => Within(side, expect, a)
                          /\ \A g \in Gens : Held(side, g, r)
  BY <1>2 DEF FedInv
<1>5. ASSUME NEW g \in Gens PROVE Held(side, g, r)'
  <2>0. Held(side, g, r) /\ pc'[g] = pc[g] /\ pos'[g] = pos[g] /\ carry'[g] = carry[g] /\ carry[g] \in Message
    BY <1>1, <1>4
  <2>1. carry[g].n \in Nat
    BY <2>0 DEF Message
  <2>2. pc'[g] = "subscribe" => \A n \in produced'..MaxChunks : Within(side, r, n + 1)
    BY <1>1, <2>0 DEF Held
  <2>3. pc'[g] = "loop" => Within(side, r, pos'[g])
    BY <2>0 DEF Held
  <2>4. pc'[g] = "send" => Fits(side, r, carry'[g], pos'[g])
    BY <2>0 DEF Held
  <2>5. pc'[g] = "history" => carry'[g].kind = "history" /\ Within(side, carry'[g].n, produced')
    BY <1>1, <1>3, <2>0, <2>1 DEF Held, Within, Sides
  <2>6. pc'[g] = "drain" => Within(side, r, produced' + 1)
    BY <1>1, <1>3, <2>0 DEF Held, Within, Sides
  <2> QED BY <2>2, <2>3, <2>4, <2>5, <2>6 DEF Held
<1> QED BY <1>1, <1>4, <1>5

\* What the handler does while the client stays.
LEMMA FedHandler ==
    ASSUME NEW side \in Sides, TypeOK, DirectInv, FedInv(side),
           FocusOther \/ TerminalVisible \/ SendDirect \/ (\E g \in Gens : Focus(g))
    PROVE  FedInv(side)'
<1> SUFFICES ASSUME Stay', ~Excused(side)'
             PROVE  \E a, r \in Nat : /\ Leads(side, a, wire', r)
                                      /\ expect' # 0 => Within(side, expect', a)
                                      /\ \A g \in Gens : Held(side, g, r)'
  BY DEF FedInv
<1>1. ~Excused(side) /\ UNCHANGED <<produced, pos, carry>>
  BY DEF FocusOther, TerminalVisible, SendDirect, Focus, Excused, taskVars
<1>2. CASE FocusOther
  <2>1. current' = 0 /\ current \in Started /\ Started' = Started
    BY <1>2 DEF FocusOther, DirectInv, Started, taskVars
  <2> QED BY <2>1 DEF Stay, Staying
<1>3. ASSUME Stay, UNCHANGED pc
      PROVE  \E a, r \in Nat : /\ Leads(side, a, wire, r)
                               /\ expect # 0 => Within(side, expect, a)
                               /\ \A g \in Gens : Held(side, g, r)'
  <2>1. PICK a, r \in Nat : /\ Leads(side, a, wire, r)
                            /\ expect # 0 => Within(side, expect, a)
                            /\ \A g \in Gens : Held(side, g, r)
    BY <1>1, <1>3 DEF FedInv
  <2>2. \A g \in Gens : Held(side, g, r)'
    BY <1>1, <1>3, <2>1 DEF Held
  <2> QED BY <2>1, <2>2
<1>4. CASE TerminalVisible
  <2>1. UNCHANGED <<pc, current, wire>> /\ expect' = 0
    BY <1>4 DEF TerminalVisible
  <2>2. Stay
    BY <2>1 DEF Stay, Staying, Started
  <2> QED BY <1>3, <2>1, <2>2
<1>5. CASE SendDirect
  <2>1. UNCHANGED <<pc, current, expect>> /\ wire' = wire \o direct /\ direct # <<>>
    BY <1>5 DEF SendDirect, taskVars
  <2>2. Stay
    BY <2>1 DEF Stay, Staying, Started
  <2>3. Started = {}
    BY <2>1, <2>2 DEF DirectInv, Stay, Staying
  <2>4. PICK n \in 0..MaxChunks : direct = <<History(n)>>
    BY <2>1 DEF DirectInv
  <2>5. History(n) \in Message /\ wire \in Seq(Message)
    BY DEF History, Message, TypeOK
  <2>6. wire' = Append(wire, History(n))
    BY <2>1, <2>4, <2>5
  <2>7. PICK a, r \in Nat : Leads(side, a, wire, r) /\ (expect # 0 => Within(side, expect, a))
    BY <1>3, <2>1, <2>2
  <2>8. n + 1 \in Nat /\ Fits(side, r, History(n), n + 1)
    BY DEF Fits, History, Within
  <2>9. Leads(side, a, wire', n + 1)
    BY <2>5, <2>6, <2>7, <2>8, FeedExtends
  <2>10. \A g \in Gens : Held(side, g, n + 1)'
    <3>1. \A g \in Gens : pc'[g] = "unborn"
      BY <2>1, <2>3 DEF Started
    <3> QED BY <3>1 DEF Held
  <2> QED BY <2>1, <2>7, <2>8, <2>9, <2>10
<1>6. ASSUME NEW g \in Gens, Focus(g)
      PROVE  \E a, r \in Nat : /\ Leads(side, a, wire', r)
                               /\ expect' # 0 => Within(side, expect', a)
                               /\ \A h \in Gens : Held(side, h, r)'
  <2>1. wire' = wire /\ expect' = 0 /\ pc' = [pc EXCEPT ![g] = "ack"] /\ Started = 1..(g - 1)
        /\ pc \in [Gens -> {"unborn", "ack", "subscribe", "loop", "send", "history", "drain", "done"}] /\ g \in Nat /\ g >= 1
    BY <1>6 DEF Focus, TypeOK, Gens
  <2>2. g \in Started' /\ Started \subseteq Started'
    BY <2>1 DEF Started
  <2>3. g = 1
    BY <2>2 DEF Stay, Staying
  <2>4. Started = {}
    BY <2>1, <2>3
  <2>5. PICK a, r \in Nat : Leads(side, a, wire, r)
    BY <1>1, <2>4 DEF FedInv, Stay
  <2>6. \A h \in Gens : pc'[h] \in {"unborn", "ack"}
    BY <2>1, <2>4 DEF Started
  <2>7. \A h \in Gens : Held(side, h, r)'
    BY <2>6 DEF Held
  <2> QED BY <2>1, <2>5, <2>7
<1> QED BY <1>2, <1>4, <1>5, <1>6

\* A task's step.
LEMMA FedTask ==
    ASSUME NEW side \in Sides, TypeOK, FedInv(side), NEW g \in Gens, Task(g)
    PROVE  FedInv(side)'
<1> SUFFICES ASSUME Stay', ~Excused(side)'
             PROVE  \E a, r \in Nat : /\ Leads(side, a, wire', r)
                                      /\ expect' # 0 => Within(side, expect', a)
                                      /\ \A h \in Gens : Held(side, h, r)'
  BY DEF FedInv
<1>1. /\ UNCHANGED <<produced, current, expect>> /\ produced \in 0..MaxChunks
      /\ pc \in [Gens -> {"unborn", "ack", "subscribe", "loop", "send", "history", "drain", "done"}]
      /\ pos \in [Gens -> 0..MaxChunks + 1] /\ carry \in [Gens -> Message] /\ wire \in Seq(Message)
  BY DEF Task, SendAck, Subscribe, Receive, Refresh, Send, Drain, Stop, handlerVars, TypeOK
<1>2. pc[g] # "unborn" /\ pc'[g] # "unborn" /\ \A h \in Gens : h # g => pc'[h] = pc[h]
  BY <1>1 DEF Task, SendAck, Subscribe, Receive, Refresh, Send, Drain, Stop
<1>3. Started' = Started /\ g \in Started
  BY <1>2 DEF Started
<1>4. Staying /\ g = 1 /\ \A h \in Gens : h # g => pc'[h] = "unborn"
  <2>1. Started = {1} /\ current = 1
    BY <1>1, <1>3 DEF Stay, Staying
  <2> QED BY <1>2, <1>3, <2>1 DEF Staying, Started
<1>5. Stay /\ ~Excused(side) /\ (Drain(g) /\ side = "high" => Oldest <= pos[g])
  <2>1. Stay
    BY <1>4 DEF Stay
  <2>2. "lagged" \in seen => "lagged" \in seen'
    BY DEF Task, SendAck, Subscribe, Receive, Refresh, Send, Drain, Stop
  <2>3. "hurried" \in seen => "hurried" \in seen'
    BY DEF Task, SendAck, Subscribe, Receive, Refresh, Send, Drain, Stop
  <2>4. Drain(g) /\ pos[g] < Oldest => "lagged" \in seen'
    BY DEF Drain
  <2>5. pos[g] \in Nat /\ Oldest \in Nat
    BY <1>1, OldestBounds
  <2> QED BY <2>1, <2>2, <2>3, <2>4, <2>5 DEF Excused
<1>6. PICK a, r \in Nat : /\ Leads(side, a, wire, r)
                          /\ expect # 0 => Within(side, expect, a)
                          /\ \A h \in Gens : Held(side, h, r)
  BY <1>5 DEF FedInv
<1>7. \A s : \A h \in Gens : h # g => Held(side, h, s)'
  BY <1>4 DEF Held
<1>8. /\ pos[g] \in 0..MaxChunks + 1 /\ carry[g] \in Message /\ Held(side, g, r)
      /\ Oldest \in 1..MaxChunks /\ Oldest <= produced + 1
  BY <1>1, <1>6, OldestBounds DEF Oldest
<1>9. \E s \in Nat : Leads(side, a, wire', s) /\ Held(side, g, s)'
  <2>1. CASE SendAck(g)
    <3>1. Ack \in Message /\ wire' = Append(wire, Ack) /\ pc'[g] = "subscribe"
      BY <1>1, <2>1 DEF SendAck, Ack, Message
    <3> DEFINE s == IF side = "high" THEN 0 ELSE MaxChunks + 1
    <3>2. s \in Nat /\ \A n \in produced..MaxChunks : Within(side, s, n + 1)
      BY <1>1 DEF Within, Sides
    <3> HIDE DEF s
    <3>3. Fits(side, r, Ack, s)
      BY DEF Fits, Ack
    <3>4. Leads(side, a, wire', s)
      BY <1>1, <1>6, <3>1, <3>2, <3>3, FeedExtends
    <3>5. Held(side, g, s)'
      BY <1>1, <3>1, <3>2 DEF Held
    <3> QED BY <3>2, <3>4, <3>5
  <2>2. CASE Subscribe(g)
    <3>1. wire' = wire /\ pc'[g] = "loop" /\ pos'[g] = produced + 1 /\ produced \in produced..MaxChunks
      BY <1>1, <2>2 DEF Subscribe
    <3>2. Within(side, r, produced + 1)
      BY <1>8, <2>2, <3>1 DEF Held, Subscribe
    <3>3. Held(side, g, r)'
      BY <1>1, <3>1, <3>2 DEF Held
    <3> QED BY <1>6, <3>1, <3>3
  <2>3. CASE Receive(g)
    <3>1. /\ wire' = wire /\ pc'[g] = "send" /\ carry'[g] = Received(pos[g]) /\ pos'[g] = Following(pos[g])
          /\ pos[g] <= produced
      BY <1>1, <2>3 DEF Receive
    <3>2. Within(side, r, pos[g])
      BY <1>8, <2>3 DEF Held, Receive
    <3>3. Fits(side, r, Received(pos[g]), Following(pos[g]))
      <4>1. CASE pos[g] < Oldest
        <5>1. Received(pos[g]) = Lagged(Oldest - pos[g]) /\ Following(pos[g]) = Oldest
          BY <4>1 DEF Received, Following
        <5>2. Within(side, r + (Oldest - pos[g]), Oldest)
          BY <1>6, <1>8, <3>2 DEF Within, Sides
        <5> QED BY <5>1, <5>2 DEF Fits, Lagged
      <4>2. CASE ~(pos[g] < Oldest)
        <5>1. Received(pos[g]) = Output(pos[g]) /\ Following(pos[g]) = pos[g] + 1
          BY <4>2 DEF Received, Following
        <5>2. Within(side, pos[g] + 1, pos[g] + 1)
          BY <1>8 DEF Within, Sides
        <5> QED BY <3>2, <5>1, <5>2 DEF Fits, Output
      <4> QED BY <4>1, <4>2
    <3>4. Held(side, g, r)'
      BY <1>1, <3>1, <3>3 DEF Held
    <3> QED BY <1>6, <3>1, <3>4
  <2>4. CASE Refresh(g)
    <3>1. wire' = wire /\ pc'[g] = "history" /\ carry'[g] = History(produced)
      BY <1>1, <2>4 DEF Refresh
    <3>2. Held(side, g, r)'
      BY <1>1, <3>1 DEF Held, History, Within
    <3> QED BY <1>6, <3>1, <3>2
  <2>5. CASE Send(g) /\ pc[g] = "send"
    <3>1. wire' = Append(wire, carry[g]) /\ pc'[g] = "loop" /\ pos' = pos
      BY <1>1, <2>5 DEF Send
    <3>2. pos[g] \in Nat /\ Fits(side, r, carry[g], pos[g])
      BY <1>8, <2>5 DEF Held
    <3>3. Leads(side, a, wire', pos[g])
      BY <1>1, <1>6, <1>8, <3>1, <3>2, FeedExtends
    <3>4. Within(side, pos[g], pos[g])
      BY <1>8 DEF Within
    <3>5. ASSUME NEW s \in Nat, s = pos[g] PROVE Held(side, g, s)'
      BY <3>1, <3>4, <3>5 DEF Held
    <3> QED BY <3>2, <3>3, <3>5
  <2>6. CASE Send(g) /\ pc[g] = "history"
    <3>1. wire' = Append(wire, carry[g]) /\ pc'[g] = "drain"
      BY <1>1, <2>6 DEF Send
    <3>2. carry[g].kind = "history" /\ Within(side, carry[g].n, produced) /\ carry[g].n \in Nat
      BY <1>8, <2>6 DEF Held, Message
    <3>3. Fits(side, r, carry[g], carry[g].n + 1) /\ carry[g].n + 1 \in Nat
      BY <3>2 DEF Fits, Within
    <3>4. Leads(side, a, wire', carry[g].n + 1)
      BY <1>1, <1>6, <1>8, <3>1, <3>3, FeedExtends
    <3>5. Within(side, carry[g].n + 1, produced + 1)
      BY <1>1, <3>2 DEF Within, Sides
    <3>6. ASSUME NEW s \in Nat, s = carry[g].n + 1 PROVE Held(side, g, s)'
      BY <1>1, <3>1, <3>5, <3>6 DEF Held
    <3> QED BY <3>3, <3>4, <3>6
  <2>7. CASE Drain(g)
    <3>1. wire' = wire /\ pc'[g] = "loop" /\ pos'[g] = Drained(pos[g]) /\ pc[g] = "drain"
      BY <1>1, <2>7 DEF Drain
    <3>2. Within(side, r, produced + 1)
      BY <1>8, <3>1 DEF Held
    <3>3. Within(side, r, Drained(pos[g]))
      BY <1>1, <1>5, <1>6, <1>8, <2>7, <3>2 DEF Within, Sides, Drained
    <3>4. Held(side, g, r)'
      BY <3>1, <3>3 DEF Held
    <3> QED BY <1>6, <3>1, <3>4
  <2>8. CASE Stop(g)
    <3>1. wire' = wire /\ pc'[g] = "done"
      BY <1>1, <2>8 DEF Stop
    <3>2. Held(side, g, r)'
      BY <3>1 DEF Held
    <3> QED BY <1>6, <3>1, <3>2
  <2> QED BY <2>1, <2>2, <2>3, <2>4, <2>5, <2>6, <2>7, <2>8 DEF Task, Send
<1> QED BY <1>1, <1>6, <1>7, <1>9

\* The client shows a message.
LEMMA FedDeliver ==
    ASSUME NEW side \in Sides, TypeOK, FedInv(side), Deliver
    PROVE  /\ FedInv(side)'
           /\ Stay /\ ~Excused(side) /\ Head(wire).kind = "output" /\ expect # 0
                => Within(side, expect, Head(wire).n)
<1> SUFFICES ASSUME Stay, ~Excused(side)
             PROVE  /\ \E a, r \in Nat : /\ Leads(side, a, wire', r)
                                         /\ expect' # 0 => Within(side, expect', a)
                                         /\ \A h \in Gens : Held(side, h, r)'
                    /\ Head(wire).kind = "output" /\ expect # 0 => Within(side, expect, Head(wire).n)
  BY DEF FedInv, Stay, Staying, Started, Excused, Deliver, taskVars, handlerVars
<1>1. /\ UNCHANGED <<produced, pc, pos, carry>> /\ wire' = Tail(wire) /\ expect' = Shown(Head(wire))
      /\ wire # <<>> /\ wire \in Seq(Message) /\ Head(wire) \in Message /\ expect \in Nat
  BY WireStaysTyped DEF Deliver, taskVars, TypeOK
<1>2. PICK a, r \in Nat : /\ Leads(side, a, wire, r)
                          /\ expect # 0 => Within(side, expect, a)
                          /\ \A h \in Gens : Held(side, h, r)
  BY DEF FedInv
<1>3. PICK b \in Nat : Fits(side, a, Head(wire), b) /\ Leads(side, b, Tail(wire), r)
  BY <1>1, <1>2, FeedAdvances
<1> DEFINE m == Head(wire)
<1>4. m \in Message
  BY <1>1
<1>5. m.n \in Nat /\ m.kind \in {"ack", "output", "history", "lagged"}
  BY <1>4 DEF Message
<1>6. Fits(side, a, m, b) /\ expect' = Shown(m)
  BY <1>1, <1>3
<1> HIDE DEF m
<1>7. expect' # 0 => Within(side, expect', b)
  <2>1. CASE m.kind = "ack"
    BY <1>6, <2>1 DEF Shown
  <2>2. CASE m.kind = "history"
    BY <1>6, <2>2 DEF Shown, Fits
  <2>3. CASE m.kind = "output"
    BY <1>6, <2>3 DEF Shown, Fits
  <2>4. CASE m.kind = "lagged"
    <3>1. CASE expect = 0
      BY <1>6, <2>4, <3>1 DEF Shown
    <3>2. CASE expect # 0
      <4>1. Within(side, expect, a) /\ Within(side, a + m.n, b) /\ expect' = expect + m.n
        BY <1>2, <1>6, <2>4, <3>2 DEF Shown, Fits
      <4> QED BY <1>1, <1>2, <1>3, <1>5, <4>1 DEF Within, Sides
    <3> QED BY <3>1, <3>2
  <2> QED BY <1>5, <2>1, <2>2, <2>3, <2>4
<1>8. m.kind = "output" /\ expect # 0 => Within(side, expect, m.n)
  <2> SUFFICES ASSUME m.kind = "output", expect # 0 PROVE Within(side, expect, m.n)
    OBVIOUS
  <2>1. Within(side, expect, a) /\ Within(side, a, m.n)
    BY <1>2, <1>6 DEF Fits
  <2> QED BY <1>1, <1>2, <1>5, <2>1 DEF Within, Sides
<1>9. \A h \in Gens : Held(side, h, r)'
  BY <1>1, <1>2 DEF Held
<1>10. Leads(side, b, wire', r)
  BY <1>1, <1>3
<1> QED BY <1>2, <1>3, <1>7, <1>8, <1>9, <1>10 DEF m

LEMMA FedNext ==
    ASSUME NEW side \in Sides, TypeOK, DirectInv, FedInv(side), [Next]_vars
    PROVE  FedInv(side)'
<1>1. CASE UNCHANGED vars
  BY <1>1 DEF vars, taskVars, handlerVars, FedInv, Stay, Staying, Started, Excused, Held
<1>2. CASE Next
  BY <1>2, FedProduce, FedHandler, FedTask, FedDeliver DEF Next
<1> QED BY <1>1, <1>2

\* The invariant of both claims.
ReplayInv == TypeOK /\ DirectInv /\ FedInv("high") /\ FedInv("low")

THEOREM ReplayInvCorrect == Spec => []ReplayInv
<1>1. Init => ReplayInv
  BY TypeInit, DirectInit, FedInit DEF ReplayInv, Sides
<1>2. ReplayInv /\ TypeOK' /\ [Next]_vars => ReplayInv'
  BY DirectNext, FedNext DEF ReplayInv, Sides
<1> QED
  BY <1>1, <1>2, TypeCorrect, PTL DEF Spec

\* Only the client takes a message from the wire.
LEMMA TakesAway ==
    ASSUME TypeOK, DirectInv, [Next]_vars, wire # <<>>, wire' = Tail(wire)
    PROVE  Deliver
<1>1. wire \in Seq(Message) /\ Len(wire) \in Nat /\ Len(wire) # 0 /\ Len(Tail(wire)) = Len(wire) - 1
  BY EmptySeq DEF TypeOK
<1>2. CASE wire' = wire
  BY <1>1, <1>2
<1>3. ASSUME NEW m, wire' = Append(wire, m)
      PROVE  FALSE
  <2>1. Len(Append(wire, m)) = Len(wire) + 1
    BY <1>1
  <2> QED BY <1>1, <1>3, <2>1
<1>4. SendDirect => \E m : wire' = Append(wire, m)
  <2> SUFFICES ASSUME SendDirect PROVE \E m : wire' = Append(wire, m)
    OBVIOUS
  <2>1. PICK n \in 0..MaxChunks : direct = <<History(n)>>
    BY DEF SendDirect, DirectInv
  <2>2. History(n) \in Message
    BY DEF History, Message
  <2>3. wire' = Append(wire, History(n))
    <3>1. wire' = wire \o <<History(n)>>
      BY <2>1 DEF SendDirect
    <3>2. wire \in Seq(Message)
      BY <1>1
    <3> QED BY <2>2, <3>1, <3>2
  <2> QED BY <2>3
<1>5. ASSUME NEW g \in Gens, Focus(g) \/ Task(g)
      PROVE  wire' = wire \/ \E m : wire' = Append(wire, m)
  BY <1>5 DEF Focus, Task, SendAck, Subscribe, Receive, Refresh, Send, Drain, Stop
<1>6. Produce \/ FocusOther \/ TerminalVisible \/ UNCHANGED vars => wire' = wire
  BY DEF Produce, FocusOther, TerminalVisible, vars
<1> QED BY <1>2, <1>3, <1>4, <1>5, <1>6 DEF Next

\* A client that stays is never sent a chunk its terminal already shows, unless a
\* lag cut a drain short (ws/focus.rs, the drain after a replay).
THEOREM NoRepeatCorrect == Spec => NoRepeat
<1>1. ReplayInv /\ [Next]_vars =>
        [Delivering("output") /\ expect # 0 /\ Staying /\ "lagged" \notin seen => Head(wire).n >= expect]_vars
  <2> SUFFICES ASSUME ReplayInv, [Next]_vars, Delivering("output"), expect # 0, Staying, "lagged" \notin seen
               PROVE  Head(wire).n >= expect
    OBVIOUS
  <2>1. Deliver
    <3>1. wire \in Seq(Message) /\ wire # <<>> /\ wire' = Tail(wire)
      BY DEF Delivering, ReplayInv, TypeOK
    <3> QED BY <3>1, TakesAway DEF ReplayInv
  <2>2. Within("high", expect, Head(wire).n)
    BY <2>1, FedDeliver DEF ReplayInv, Sides, Stay, Excused, Delivering
  <2>3. Head(wire) \in Message /\ expect \in Nat
    BY <2>1, WireStaysTyped DEF ReplayInv, TypeOK, Deliver
  <2>4. Head(wire).n \in Nat
    BY <2>3 DEF Message
  <2> QED BY <2>2, <2>3, <2>4 DEF Within
<1> QED
  BY <1>1, ReplayInvCorrect, PTL DEF Spec, NoRepeat

\* A chunk that the terminal of a client that stays has missed was counted in an
\* OutputLagged before, unless the program printed during a replay (ws/focus.rs).
THEOREM NoSilentLossCorrect == Spec => NoSilentLoss
<1>1. ReplayInv /\ [Next]_vars =>
        [Delivering("output") /\ expect # 0 /\ Staying /\ "hurried" \notin seen => Head(wire).n <= expect]_vars
  <2> SUFFICES ASSUME ReplayInv, [Next]_vars, Delivering("output"), expect # 0, Staying, "hurried" \notin seen
               PROVE  Head(wire).n <= expect
    OBVIOUS
  <2>1. Deliver
    <3>1. wire \in Seq(Message) /\ wire # <<>> /\ wire' = Tail(wire)
      BY DEF Delivering, ReplayInv, TypeOK
    <3> QED BY <3>1, TakesAway DEF ReplayInv
  <2>2. Within("low", expect, Head(wire).n)
    BY <2>1, FedDeliver DEF ReplayInv, Sides, Stay, Excused, Delivering
  <2>3. Head(wire) \in Message /\ expect \in Nat
    BY <2>1, WireStaysTyped DEF ReplayInv, TypeOK, Deliver
  <2>4. Head(wire).n \in Nat
    BY <2>3 DEF Message
  <2> QED BY <2>2, <2>3, <2>4 DEF Within
<1> QED
  BY <1>1, ReplayInvCorrect, PTL DEF Spec, NoSilentLoss

\* The terminal shows the last chunk that its task can have sent.
TerminalUpToDate ==
    /\ Staying /\ expect # 0 /\ seen = {} /\ wire = <<>>
    /\ pc[1] = "loop" /\ pos[1] = produced + 1
    => expect = produced + 1

\* With the wire empty and the focus task at the end of the output, a terminal that
\* has had its replay shows, or has been told it lost, exactly what the program has
\* printed: replays, drains and lags leave no chunk over and none out (ws/focus.rs).
THEOREM TerminalUpToDateCorrect == Spec => []TerminalUpToDate
<1>1. ReplayInv => TerminalUpToDate
  <2> SUFFICES ASSUME ReplayInv, Staying, expect # 0, seen = {}, wire = <<>>,
                      pc[1] = "loop", pos[1] = produced + 1
               PROVE  expect = produced + 1
    BY DEF TerminalUpToDate
  <2>1. 1 \in Gens /\ expect \in Nat /\ produced \in Nat
    <3>1. 1 \in Started
      BY DEF Staying
    <3> QED BY <3>1, BoundAssumption DEF Started, ReplayInv, TypeOK
  <2>2. ASSUME NEW side \in Sides
        PROVE  Within(side, expect, produced + 1)
    <3>1. ~Excused(side) /\ Stay
      BY DEF Excused, Stay
    <3>2. PICK a, r \in Nat : Leads(side, a, wire, r) /\ Within(side, expect, a) /\ Held(side, 1, r)
      <4>1. FedInv(side)
        BY DEF ReplayInv, Sides
      <4>2. PICK a, r \in Nat : /\ Leads(side, a, wire, r)
                                /\ expect # 0 => Within(side, expect, a)
                                /\ \A g \in Gens : Held(side, g, r)
        BY <3>1, <4>1 DEF FedInv
      <4> QED BY <2>1, <4>2
    <3>3. PICK c : IsFeed(side, c, a, wire, r)
      BY <3>2 DEF Leads
    <3>4. a = r
      BY <3>3 DEF IsFeed
    <3>5. Within(side, r, produced + 1)
      BY <3>2 DEF Held
    <3> QED BY <3>2, <3>4, <3>5, <2>1 DEF Within
  <2>3. Within("high", expect, produced + 1) /\ Within("low", expect, produced + 1)
    BY <2>2 DEF Sides
  <2> QED BY <2>1, <2>3 DEF Within
<1> QED
  BY <1>1, ReplayInvCorrect, PTL
=============================================================================
