------------------------- MODULE Conversation_proof -------------------------
(* The driver's copy of the conversation follows the watcher's, and the        *)
(* client's list follows the driver's, for every log and every capacity of the *)
(* queues between them.                                                        *)
EXTENDS ConversationSync, Integers, SequenceTheorems, FiniteSetTheorems, WellFoundedInduction, TLAPS

USE CapAssumption, BoundAssumption

Precedes(a, b) == DriverCopy!Precedes(a, b)

\* The messages the driver has still to apply.
Pending == signals \o out

\* f[i] is the driver's copy after i of the messages p: each message is applied to
\* the copy before it, nothing is lost on the way, and the last copy is t.
IsChain(f, p, d, t) ==
    /\ f \in [0..Len(p) -> Seq(Turn)]
    /\ f[0] = d
    /\ f[Len(p)] = t
    /\ \A i \in 1..Len(p) : f[i] = Applied(f[i - 1], p[i]) /\ Precedes(f[i - 1], f[i])
    /\ \A i \in 0..Len(p) : Precedes(f[i], t)

\* What a poll leaves of the watcher before its first one.
Fresh == ~polled => turns = <<>> /\ out = <<>> /\ signals = <<>>

ServerInv ==
    /\ ServerTypeOK
    /\ Fresh
    /\ \E f : IsChain(f, Pending, driver, turns)

LEMMA PrecedesReflexive == \A a \in Seq(Turn) : Precedes(a, a)
BY DEF Precedes, DriverCopy!Precedes

LEMMA PrecedesTransitive ==
    ASSUME NEW a \in Seq(Turn), NEW b \in Seq(Turn), NEW c \in Seq(Turn),
           Precedes(a, b), Precedes(b, c)
    PROVE  Precedes(a, c)
<1>1. Len(a) <= Len(c)
  BY DEF Precedes, DriverCopy!Precedes
<1>2. ASSUME NEW i \in 1..Len(a)
      PROVE  a[i].id = c[i].id /\ a[i].results \subseteq c[i].results
  <2>1. i \in 1..Len(b)
    BY DEF Precedes, DriverCopy!Precedes
  <2> QED
    BY <2>1 DEF Precedes, DriverCopy!Precedes
<1> QED
  BY <1>1, <1>2 DEF Precedes, DriverCopy!Precedes

\* A poll only adds: results to the turns there are, and turns after them.
LEMMA PollGrows ==
    ASSUME turns \in Seq(Turn)
    PROVE  /\ NewTurns \in Seq(Turn)
           /\ NextTurns \in Seq(Turn)
           /\ Precedes(turns, NextTurns)
           /\ ~HadUpdate => NextTurns = turns \o NewTurns
<1>1. Cardinality(Found) \in Nat
  <2>1. IsFiniteSet(1..MaxTurns)
    BY FS_Interval
  <2>2. IsFiniteSet(Found)
    BY <2>1, FS_Subset DEF Found
  <2> QED
    BY <2>2, FS_CardinalityType
<1>2. \A n : Results(n) \subseteq Tools
  BY DEF Results
<1>3. NewTurns \in Seq(Turn)
  <2>1. \A i \in 1..Cardinality(Found) :
          [id |-> Len(turns) + i, results |-> Results(Len(turns) + i)] \in Turn
    BY <1>1, <1>2 DEF Turn
  <2> QED
    BY <1>1, <2>1 DEF NewTurns
<1>4. UpdatedTurns \in Seq(Turn) /\ Len(UpdatedTurns) = Len(turns)
  <2> DEFINE u(i) == [turns[i] EXCEPT !.results = @ \cup Results(turns[i].id)]
  <2>1. Len(turns) \in Nat /\ DOMAIN turns = 1..Len(turns)
    OBVIOUS
  <2>2. ASSUME NEW i \in 1..Len(turns) PROVE u(i) \in Turn
    <3>1. turns[i] \in Turn
      OBVIOUS
    <3>2. turns[i].results \cup Results(turns[i].id) \in SUBSET Tools
      BY <1>2, <3>1 DEF Turn
    <3> QED
      BY <3>1, <3>2 DEF Turn
  <2>3. UpdatedTurns = [i \in 1..Len(turns) |-> u(i)]
    BY <2>1, Zenon DEF UpdatedTurns
  <2> HIDE DEF u
  <2> QED
    BY <2>1, <2>2, <2>3
<1>5. \A i \in 1..Len(turns) :
        /\ UpdatedTurns[i].id = turns[i].id
        /\ UpdatedTurns[i].results = turns[i].results \cup Results(turns[i].id)
  BY DEF UpdatedTurns, Turn
<1>6. /\ NextTurns \in Seq(Turn)
      /\ Len(NextTurns) = Len(turns) + Len(NewTurns)
      /\ \A i \in 1..Len(turns) : NextTurns[i] = UpdatedTurns[i]
  BY <1>3, <1>4 DEF NextTurns
<1>7. Precedes(turns, NextTurns)
  <2>1. Len(turns) <= Len(NextTurns)
    BY <1>3, <1>6
  <2> QED
    BY <1>5, <1>6, <2>1 DEF Precedes, DriverCopy!Precedes
<1>8. ASSUME ~HadUpdate PROVE NextTurns = turns \o NewTurns
  <2>0. DOMAIN turns = 1..Len(turns)
    OBVIOUS
  <2>1. \A i \in 1..Len(turns) : Results(turns[i].id) = {}
    BY <1>8, <2>0 DEF HadUpdate
  <2>2. ASSUME NEW i \in 1..Len(turns) PROVE UpdatedTurns[i] = turns[i]
    <3>1. turns[i] \in Turn /\ turns[i].results \cup {} = turns[i].results
      OBVIOUS
    <3>2. UpdatedTurns[i] = [turns[i] EXCEPT !.results = turns[i].results]
      BY <2>0, <2>1, <3>1 DEF UpdatedTurns
    <3> QED
      BY <3>1, <3>2 DEF Turn
  <2>3. UpdatedTurns = turns
    BY <1>4, <2>2, SeqEqual
  <2> QED
    BY <2>3 DEF NextTurns
<1> QED
  BY <1>3, <1>6, <1>7, <1>8

\* Applying a message gives turns.
LEMMA AppliedType ==
    ASSUME NEW d \in Seq(Turn), NEW m \in Messages
    PROVE  Applied(d, m) \in Seq(Turn)
BY DEF Applied, Messages

\* A message that leads on from the end of a chain makes it longer.
LEMMA ChainExtends ==
    ASSUME NEW p \in Seq(Messages), NEW f, NEW d, NEW t \in Seq(Turn), IsChain(f, p, d, t),
           NEW m \in Messages, NEW u \in Seq(Turn), u = Applied(t, m), Precedes(t, u)
    PROVE  \E g : IsChain(g, Append(p, m), d, u)
<1> DEFINE n == Len(p)
           g == [i \in 0..n + 1 |-> IF i <= n THEN f[i] ELSE u]
           q == Append(p, m)
<1>1. n \in Nat /\ Len(q) = n + 1 /\ q[n + 1] = m /\ \A i \in 1..n : q[i] = p[i]
  OBVIOUS
<1>2. \A i \in 0..n : f[i] \in Seq(Turn)
  BY DEF IsChain
<1>3. g \in [0..n + 1 -> Seq(Turn)]
  BY <1>1, <1>2
<1>4. g[0] = d /\ g[n + 1] = u /\ \A i \in 0..n : g[i] = f[i]
  BY <1>1 DEF IsChain
<1>5. ASSUME NEW i \in 1..n + 1
      PROVE  g[i] = Applied(g[i - 1], q[i]) /\ Precedes(g[i - 1], g[i])
  <2>1. CASE i = n + 1
    <3>1. g[i - 1] = t
      BY <1>1, <1>4, <2>1 DEF IsChain
    <3> QED
      BY <1>1, <1>4, <2>1, <3>1
  <2>2. CASE i # n + 1
    <3>1. i \in 1..n /\ i - 1 \in 0..n /\ i \in 0..n
      BY <1>1, <2>2
    <3>2. g[i] = f[i] /\ g[i - 1] = f[i - 1] /\ q[i] = p[i]
      BY <1>1, <1>4, <3>1
    <3> QED
      BY <3>1, <3>2 DEF IsChain
  <2> QED
    BY <2>1, <2>2
<1>6. ASSUME NEW i \in 0..n + 1
      PROVE  Precedes(g[i], u)
  <2>1. CASE i = n + 1
    BY <1>4, <2>1, PrecedesReflexive
  <2>2. CASE i # n + 1
    <3>1. i \in 0..n
      BY <1>1, <2>2
    <3>2. g[i] = f[i] /\ f[i] \in Seq(Turn) /\ Precedes(f[i], t)
      BY <1>2, <1>4, <3>1 DEF IsChain
    <3> QED
      BY <3>2, PrecedesTransitive
  <2> QED
    BY <2>1, <2>2
<1>7. IsChain(g, q, d, u)
  BY <1>1, <1>3, <1>4, <1>5, <1>6 DEF IsChain
<1> QED
  BY <1>7

\* Applying the first message shortens it.
LEMMA ChainAdvances ==
    ASSUME NEW p \in Seq(Messages), p # <<>>, NEW f, NEW d, NEW t, IsChain(f, p, d, t)
    PROVE  /\ \E g : IsChain(g, Tail(p), Applied(d, Head(p)), t)
           /\ Applied(d, Head(p)) \in Seq(Turn)
           /\ Precedes(d, Applied(d, Head(p)))
           /\ Precedes(Applied(d, Head(p)), t)
<1> DEFINE n == Len(p)
           g == [i \in 0..n - 1 |-> f[i + 1]]
           q == Tail(p)
<1>1. n \in Nat /\ n # 0 /\ Len(q) = n - 1 /\ Head(p) = p[1] /\ \A i \in 1..n - 1 : q[i] = p[i + 1]
  BY EmptySeq
<1>2. \A i \in 0..n : f[i] \in Seq(Turn)
  BY DEF IsChain
<1>3. f[1] = Applied(d, Head(p)) /\ Precedes(d, f[1])
  <2>1. 1 \in 1..n /\ 1 - 1 = 0
    BY <1>1
  <2>2. f[1] = Applied(f[1 - 1], p[1]) /\ Precedes(f[1 - 1], f[1])
    BY <2>1 DEF IsChain
  <2> QED
    BY <1>1, <2>1, <2>2 DEF IsChain
<1>4. f[1] \in Seq(Turn) /\ Precedes(f[1], t)
  <2>1. 1 \in 0..n
    BY <1>1
  <2> QED
    BY <1>2, <2>1 DEF IsChain
<1>5. g \in [0..n - 1 -> Seq(Turn)]
  BY <1>1, <1>2
<1>6. \A i \in 0..n - 1 : g[i] = f[i + 1]
  OBVIOUS
<1>7. g[0] = f[1] /\ g[n - 1] = t
  BY <1>1, <1>6 DEF IsChain
<1>8. ASSUME NEW i \in 1..n - 1
      PROVE  g[i] = Applied(g[i - 1], q[i]) /\ Precedes(g[i - 1], g[i])
  <2>1. i + 1 \in 1..n /\ (i + 1) - 1 = i /\ i - 1 \in 0..n - 1 /\ i \in 0..n - 1 /\ (i - 1) + 1 = i
    BY <1>1
  <2>2. g[i] = f[i + 1] /\ g[i - 1] = f[i] /\ q[i] = p[i + 1]
    BY <1>1, <1>6, <2>1
  <2>3. f[i + 1] = Applied(f[(i + 1) - 1], p[i + 1]) /\ Precedes(f[(i + 1) - 1], f[i + 1])
    BY <2>1 DEF IsChain
  <2> QED
    BY <2>1, <2>2, <2>3
<1>9. ASSUME NEW i \in 0..n - 1
      PROVE  Precedes(g[i], t)
  <2>1. i + 1 \in 0..n
    BY <1>1
  <2> QED
    BY <1>6, <2>1 DEF IsChain
<1>10. IsChain(g, q, f[1], t)
  BY <1>1, <1>5, <1>7, <1>8, <1>9 DEF IsChain
<1> QED
  BY <1>3, <1>4, <1>10

LEMMA TurnsType ==
    ASSUME ServerTypeOK
    PROVE  Pending \in Seq(Messages)
BY DEF ServerTypeOK, Pending

\* At the start there is nothing to apply.
LEMMA ChainInit == ServerInit => ServerInv
<1> SUFFICES ASSUME ServerInit PROVE ServerInv
  OBVIOUS
<1>1. ServerTypeOK
  <2>0. log = <<>> /\ read = 0 /\ polled = FALSE
    BY DEF ServerInit
  <2>1. log \in Seq(Entry)
    BY <2>0, EmptySeq
  <2>5. polled \in BOOLEAN
    BY <2>0
  <2>4. read \in 0..Len(log)
    <3>1. Len(log) = 0
      BY <2>0
    <3> QED
      BY <2>0, <3>1
  <2>2. turns \in Seq(Turn) /\ driver \in Seq(Turn) /\ events \in Seq(Events)
    BY DEF ServerInit
  <2>3. out \in Seq(Messages) /\ Len(out) <= 1 /\ signals \in Seq(Messages) /\ Len(signals) <= SignalCap
    BY DEF ServerInit
  <2> QED
    BY <2>1, <2>2, <2>3, <2>4, <2>5 DEF ServerTypeOK
<1>2. Fresh
  BY DEF Fresh, ServerInit
<1>3. \E f : IsChain(f, Pending, driver, turns)
  <2> DEFINE f == [i \in 0..0 |-> turns]
  <2>1. Pending = <<>> /\ Len(Pending) = 0
    BY DEF ServerInit, Pending
  <2>2. turns \in Seq(Turn) /\ driver = turns
    BY DEF ServerInit
  <2>3. Precedes(turns, turns)
    BY <2>2, PrecedesReflexive
  <2>4. IsChain(f, Pending, driver, turns)
    BY <2>1, <2>2, <2>3 DEF IsChain
  <2> QED
    BY <2>4
<1> QED
  BY <1>1, <1>2, <1>3 DEF ServerInv

\* What the watcher sends leads from its old turns to its new ones.
LEMMA MessageLeads ==
    ASSUME turns \in Seq(Turn), turns' = NextTurns
    PROVE  \/ Message = <<>> /\ NextTurns = turns
           \/ \E m \in Messages : Message = <<m>> /\ NextTurns = Applied(turns, m)
<1>1. NewTurns \in Seq(Turn) /\ NextTurns \in Seq(Turn)
  BY PollGrows
<1>2. CASE HadUpdate
  <2> DEFINE m == [kind |-> "snapshot", turns |-> NextTurns]
  <2>1. m \in Messages /\ Message = <<m>>
    BY <1>1, <1>2 DEF Message, Messages
  <2>2. NextTurns = Applied(turns, m)
    BY DEF Applied
  <2> QED
    BY <2>1, <2>2
<1>3. CASE ~HadUpdate /\ NewTurns # <<>>
  <2> DEFINE m == [kind |-> "delta", turns |-> NewTurns]
  <2>1. m \in Messages /\ Message = <<m>>
    BY <1>1, <1>3 DEF Message, Messages
  <2>2. Applied(turns, m) = turns \o NewTurns
    BY DEF Applied
  <2>3. NextTurns = turns \o NewTurns
    BY <1>3, PollGrows
  <2> QED
    BY <2>1, <2>2, <2>3
<1>4. CASE ~HadUpdate /\ NewTurns = <<>>
  <2>1. NextTurns = turns \o <<>>
    BY <1>4, PollGrows
  <2>2. NextTurns = turns
    BY <2>1, ConcatEmptySeq
  <2> QED
    BY <1>4, <2>2 DEF Message
<1> QED
  BY <1>2, <1>3, <1>4

\* A first poll that succeeds.
LEMMA InitialPollChain ==
    ASSUME ServerInv, InitialPoll
    PROVE  /\ turns' \in Seq(Turn) /\ Precedes(turns, turns')
           /\ out' \in Seq(Messages) /\ Len(out') = 1
           /\ \E f : IsChain(f, Pending', driver', turns')
<1> DEFINE m == [kind |-> "snapshot", turns |-> NewTurns]
<1>1. turns \in Seq(Turn) /\ driver \in Seq(Turn) /\ turns = <<>> /\ signals = <<>> /\ out = <<>>
  BY DEF ServerInv, ServerTypeOK, Fresh, InitialPoll
<1>2. NewTurns \in Seq(Turn)
  BY <1>1, PollGrows
<1>3. m \in Messages /\ turns' = NewTurns /\ out' = <<m>> /\ signals' = signals /\ driver' = driver
  BY <1>2 DEF Messages, InitialPoll
<1>4. Precedes(turns, turns')
  BY <1>1, <1>2, <1>3 DEF Precedes, DriverCopy!Precedes
<1>5. PICK f : IsChain(f, Pending, driver, turns)
  BY DEF ServerInv
<1>6. Pending = <<>> /\ Pending' = <<m>>
  BY <1>1, <1>3 DEF Pending
<1>7. Append(Pending, m) = Pending'
  BY <1>6
<1>8. NewTurns = Applied(turns, m)
  BY DEF Applied
<1>9. Pending \in Seq(Messages)
  BY <1>6
<1> HIDE DEF m
<1>10. \E g : IsChain(g, Append(Pending, m), driver, NewTurns)
  BY <1>1, <1>2, <1>3, <1>4, <1>5, <1>8, <1>9, ChainExtends
<1> QED
  BY <1>2, <1>3, <1>4, <1>7, <1>10

\* A later poll.
LEMMA PollChain ==
    ASSUME ServerInv, Poll
    PROVE  /\ turns' \in Seq(Turn) /\ Precedes(turns, turns')
           /\ out' \in Seq(Messages) /\ Len(out') <= 1
           /\ \E f : IsChain(f, Pending', driver', turns')
<1>1. turns \in Seq(Turn) /\ driver \in Seq(Turn) /\ signals \in Seq(Messages) /\ out = <<>>
  BY DEF ServerInv, ServerTypeOK, Poll
<1>2. turns' = NextTurns /\ out' = Message /\ signals' = signals /\ driver' = driver
  BY DEF Poll
<1>3. turns' \in Seq(Turn) /\ Precedes(turns, turns')
  BY <1>1, <1>2, PollGrows
<1>4. PICK f : IsChain(f, Pending, driver, turns)
  BY DEF ServerInv
<1>5. Pending = signals
  BY <1>1, ConcatEmptySeq DEF Pending
<1>6. CASE Message = <<>> /\ NextTurns = turns
  <2>1. Pending' = signals
    BY <1>1, <1>2, <1>6, ConcatEmptySeq DEF Pending
  <2>2. IsChain(f, Pending', driver', turns')
    BY <1>2, <1>4, <1>5, <1>6, <2>1
  <2>3. out' = <<>>
    BY <1>2, <1>6
  <2>4. out' \in Seq(Messages) /\ Len(out') <= 1
    BY <2>3
  <2> QED
    BY <1>3, <2>2, <2>4
<1>7. ASSUME NEW m \in Messages, Message = <<m>>, NextTurns = Applied(turns, m)
      PROVE  /\ out' \in Seq(Messages) /\ Len(out') <= 1
             /\ \E g : IsChain(g, Pending', driver', turns')
  <2>1. Pending' = Append(signals, m)
    BY <1>1, <1>2, <1>7 DEF Pending
  <2>2. \E g : IsChain(g, Append(signals, m), driver, NextTurns)
    BY <1>1, <1>2, <1>3, <1>4, <1>5, <1>7, ChainExtends
  <2>3. out' = <<m>>
    BY <1>2, <1>7
  <2>4. out' \in Seq(Messages) /\ Len(out') <= 1
    BY <2>3
  <2> QED
    BY <1>2, <2>1, <2>2, <2>4
<1> QED
  BY <1>1, <1>2, <1>3, <1>6, <1>7, MessageLeads

\* The driver takes the next message.
LEMMA TakeChain ==
    ASSUME ServerInv, TakeSignal
    PROVE  /\ driver' \in Seq(Turn) /\ Precedes(driver, driver') /\ Precedes(driver', turns)
           /\ \E f : IsChain(f, Pending', driver', turns')
<1>1. signals \in Seq(Messages) /\ out \in Seq(Messages) /\ signals # <<>>
  BY DEF ServerInv, ServerTypeOK, TakeSignal
<1>2. PICK f : IsChain(f, Pending, driver, turns)
  BY DEF ServerInv
<1>3. Pending \in Seq(Messages) /\ Pending # <<>>
  BY <1>1 DEF Pending
<1>4. Head(Pending) = Head(signals) /\ Tail(Pending) = Tail(signals) \o out
  <2>1. Len(signals) \in Nat /\ Len(signals) # 0
    BY <1>1, EmptySeq
  <2>2. Head(Pending) = Head(signals)
    BY <1>1, <2>1 DEF Pending
  <2>3. Tail(signals) \o out \in Seq(Messages) /\ Tail(Pending) \in Seq(Messages)
    BY <1>1, <1>3
  <2>4. Len(Tail(Pending)) = Len(Tail(signals) \o out)
    BY <1>1, <1>3, <2>1 DEF Pending
  <2>5. \A i \in 1..Len(Tail(Pending)) : Tail(Pending)[i] = (Tail(signals) \o out)[i]
    BY <1>1, <1>3, <2>1 DEF Pending
  <2> QED
    BY <2>2, <2>3, <2>4, <2>5, SeqEqual
<1>5. Pending' = Tail(Pending) /\ driver' = Applied(driver, Head(Pending)) /\ turns' = turns
  BY <1>4 DEF TakeSignal, Pending
<1> QED
  BY <1>2, <1>3, <1>5, ChainAdvances

\* Every step of the server keeps the invariant, and is a step of LaggingCopy: a
\* poll lets the source grow, the driver shows a later state, others do neither.
LEMMA ServerStep ==
    ASSUME ServerInv, [ServerNext]_serverVars
    PROVE  ServerInv' /\ [DriverCopy!Next]_<<turns, driver>>
<1> USE DEF ServerInv
<1>1. ASSUME NEW e \in Entry, Write(e)
      PROVE  ServerInv' /\ [DriverCopy!Next]_<<turns, driver>>
  <2>1. log' \in Seq(Entry) /\ read' \in 0..Len(log')
    BY <1>1 DEF Write, ServerTypeOK
  <2>2. ServerTypeOK'
    BY <1>1, <2>1 DEF Write, ServerTypeOK
  <2>3. Fresh' /\ Pending' = Pending /\ driver' = driver /\ turns' = turns
    BY <1>1 DEF Write, Fresh, Pending
  <2> QED
    BY <2>2, <2>3
<1>2. CASE WriteTurn
  <2> PICK n \in 1..MaxTurns : Write(TurnEntry(n))
    BY <1>2 DEF WriteTurn
  <2>1. TurnEntry(n) \in Entry
    BY DEF TurnEntry, Entry
  <2> QED
    BY <1>1, <2>1
<1>3. CASE WriteResult
  <2> PICK n \in 1..MaxTurns, t \in Tools : Write(ResultEntry(n, t))
    BY <1>3 DEF WriteResult
  <2>1. ResultEntry(n, t) \in Entry
    BY DEF ResultEntry, Entry
  <2> QED
    BY <1>1, <2>1
<1>4. CASE InitialPoll
  <2>1. /\ turns' \in Seq(Turn) /\ Precedes(turns, turns')
        /\ out' \in Seq(Messages) /\ Len(out') = 1
        /\ \E f : IsChain(f, Pending', driver', turns')
    BY <1>4, InitialPollChain
  <2>2. ServerTypeOK'
    BY <1>4, <2>1 DEF InitialPoll, ServerTypeOK
  <2>3. Fresh'
    BY <1>4 DEF InitialPoll, Fresh
  <2>4. DriverCopy!Grow
    BY <1>4, <2>1 DEF InitialPoll, DriverCopy!Grow, Precedes
  <2> QED
    BY <2>1, <2>2, <2>3, <2>4 DEF DriverCopy!Next
<1>5. CASE InitialPollFails
  <2>1. ServerTypeOK'
    BY <1>5 DEF InitialPollFails, ServerTypeOK
  <2>2. Fresh' /\ Pending' = Pending /\ driver' = driver /\ turns' = turns
    BY <1>5 DEF InitialPollFails, Fresh, Pending
  <2> QED
    BY <2>1, <2>2
<1>6. CASE Poll
  <2>1. /\ turns' \in Seq(Turn) /\ Precedes(turns, turns')
        /\ out' \in Seq(Messages) /\ Len(out') <= 1
        /\ \E f : IsChain(f, Pending', driver', turns')
    BY <1>6, PollChain
  <2>2. ServerTypeOK'
    BY <1>6, <2>1 DEF Poll, ServerTypeOK
  <2>3. Fresh'
    BY <1>6 DEF Poll, Fresh
  <2>4. DriverCopy!Grow
    BY <1>6, <2>1 DEF Poll, DriverCopy!Grow, Precedes
  <2> QED
    BY <2>1, <2>2, <2>3, <2>4 DEF DriverCopy!Next
<1>7. CASE SendSignal
  <2>1. signals \in Seq(Messages) /\ out \in Seq(Messages) /\ Len(out) <= 1 /\ Len(signals) < SignalCap
    BY <1>7 DEF SendSignal, ServerTypeOK
  <2>2. signals' \in Seq(Messages) /\ Len(signals') <= SignalCap
    BY <1>7, <2>1 DEF SendSignal
  <2>3. out' \in Seq(Messages) /\ Len(out') <= 1
    BY <1>7 DEF SendSignal
  <2>4. ServerTypeOK'
    BY <1>7, <2>2, <2>3 DEF SendSignal, ServerTypeOK
  <2>5. Pending' = Pending
    BY <1>7, <2>2, ConcatEmptySeq DEF SendSignal, Pending
  <2>6. Fresh' /\ driver' = driver /\ turns' = turns
    BY <1>7 DEF SendSignal, Fresh
  <2> QED
    BY <2>4, <2>5, <2>6
<1>8. CASE TakeSignal
  <2>1. /\ driver' \in Seq(Turn) /\ Precedes(driver, driver') /\ Precedes(driver', turns)
        /\ \E f : IsChain(f, Pending', driver', turns')
    BY <1>8, TakeChain
  <2>2. signals \in Seq(Messages) /\ signals # <<>> /\ Len(signals) <= SignalCap
    BY <1>8 DEF TakeSignal, ServerTypeOK
  <2>3. signals' \in Seq(Messages) /\ Len(signals') <= SignalCap
    BY <1>8, <2>2 DEF TakeSignal
  <2>4. Event(Head(signals)) \in Events
    <3>1. Head(signals) \in Messages
      BY <2>2
    <3>2. Head(signals).turns \in Seq(Turn)
      BY <3>1 DEF Messages
    <3> QED
      BY <3>2 DEF Event, Events
  <2>5. events' \in Seq(Events)
    BY <1>8, <2>4 DEF TakeSignal, ServerTypeOK
  <2>6. ServerTypeOK'
    BY <1>8, <2>1, <2>3, <2>5 DEF TakeSignal, ServerTypeOK
  <2>7. Fresh'
    BY <1>8, <2>2 DEF TakeSignal, Fresh
  <2>8. DriverCopy!Show
    BY <1>8, <2>1 DEF TakeSignal, DriverCopy!Show, Precedes
  <2> QED
    BY <2>1, <2>6, <2>7, <2>8 DEF DriverCopy!Next
<1>9. CASE UNCHANGED serverVars
  <2>1. ServerTypeOK' /\ Fresh' /\ Pending' = Pending /\ driver' = driver /\ turns' = turns
    BY <1>9 DEF serverVars, ServerTypeOK, Fresh, Pending
  <2> QED
    BY <2>1
<1> QED
  BY <1>2, <1>3, <1>4, <1>5, <1>6, <1>7, <1>8, <1>9 DEF ServerNext

\* Whatever the clients do, the server's part takes its own steps or none.
LEMMA ServerOnly == [Next]_vars => [ServerNext]_serverVars
<1> SUFFICES ASSUME [Next]_vars PROVE [ServerNext]_serverVars
  OBVIOUS
<1>1. CASE Server
  BY <1>1 DEF Server
<1>2. ASSUME NEW g \in Gens, Focus(g) \/ Task(g) PROVE UNCHANGED serverVars
  BY <1>2 DEF Focus, Task, SendAck, Subscribe, Snapshot, Receive, Lag, Send, Stop
<1>3. ASSUME NEW a \in Asks, Lookup(a) \/ Answer(a) PROVE UNCHANGED serverVars
  BY <1>3 DEF Lookup, Answer
<1>4. CASE FocusOther \/ Ask \/ Deliver \/ Disconnect \/ Timeout
  BY <1>4 DEF FocusOther, Ask, Deliver, Disconnect, Timeout, Lost
<1>5. CASE UNCHANGED vars
  BY <1>5 DEF vars
<1> QED
  BY <1>1, <1>2, <1>3, <1>4, <1>5 DEF Next

\* The server's queues and copies are well typed, and what is on its way from the
\* watcher to the driver leads from the driver's copy to the watcher's.
THEOREM ServerInvCorrect == Spec => []ServerInv
<1>1. Init => ServerInv
  BY ChainInit DEF Init
<1>2. ServerInv /\ [Next]_vars => ServerInv'
  BY ServerOnly, ServerStep
<1> QED
  BY <1>1, <1>2, PTL DEF Spec

\* Watcher, channel and driver implement a copy that is late but never wrong,
\* and never loses what it has (claude_driver.rs, on_signal).
THEOREM DriverFollowsCorrect == Spec => DriverFollows
<1>1. Init => DriverCopy!Init
  BY DEF Init, ServerInit, DriverCopy!Init
<1>2. ServerInv /\ [Next]_vars => [DriverCopy!Next]_<<turns, driver>>
  BY ServerOnly, ServerStep
<1> QED
  BY <1>1, <1>2, ServerInvCorrect, PTL DEF Spec, DriverFollows, DriverCopy!Spec

\* With nothing on its way the two copies are equal.
DriverUpToDate == out = <<>> /\ signals = <<>> => driver = turns

THEOREM DriverUpToDateCorrect == Spec => []DriverUpToDate
<1>1. ServerInv => DriverUpToDate
  <2> SUFFICES ASSUME ServerInv, out = <<>>, signals = <<>> PROVE driver = turns
    BY DEF DriverUpToDate
  <2>1. PICK f : IsChain(f, Pending, driver, turns)
    BY DEF ServerInv
  <2>2. Len(Pending) = 0
    BY DEF Pending
  <2> QED
    BY <2>1, <2>2 DEF IsChain
<1> QED
  BY <1>1, ServerInvCorrect, PTL

-----------------------------------------------------------------------------
(* The client's list.  What a list becomes with new turns.                     *)

\* A set of naturals that is not empty has a least element.
LEMMA LeastNatural ==
    ASSUME NEW S \in SUBSET Nat, S # {}
    PROVE  \E n \in S : \A j \in S : n <= j
<1> DEFINE LessThan == {p \in Nat \X Nat : p[1] < p[2]}
<1>1. IsWellFoundedOn(LessThan, Nat)
  BY NatLessThanWellFounded DEF OpToRel
<1> HIDE DEF LessThan
<1>2. PICK n \in S : \A j \in S : <<j, n>> \notin LessThan
  BY <1>1, WFMin
<1>3. ASSUME NEW j \in S PROVE n <= j
  <2>1. n \in Nat /\ j \in Nat
    OBVIOUS
  <2>2. <<j, n>>[1] = j /\ <<j, n>>[2] = n /\ <<j, n>> \in Nat \X Nat
    BY <2>1
  <2>3. j < n => <<j, n>> \in LessThan
    BY <2>2 DEF LessThan
  <2> QED
    BY <1>2, <2>1, <2>3
<1> QED
  BY <1>3

LEMMA CountTo == \A n \in Nat : Cardinality(1..n) = n
<1> TAKE n \in Nat
<1>1. Cardinality(1..n) = IF 1 > n THEN 0 ELSE n - 1 + 1
  BY FS_Interval
<1> QED BY <1>1

\* A set of positions has a k-th.
LEMMA NthPosition ==
    ASSUME NEW n \in Nat, NEW s \in SUBSET (1..n), NEW k \in 1..Cardinality(s)
    PROVE  Nth(s, k) \in s /\ Cardinality({q \in s : q <= Nth(s, k)}) = k
<1> DEFINE B(m) == {q \in s : q <= m}
           G == {m \in 0..n : k <= Cardinality(B(m))}
<1>1. IsFiniteSet(s) /\ \A q \in s : q \in Nat /\ 1 <= q /\ q <= n
  <2>1. IsFiniteSet(1..n)
    BY FS_Interval
  <2>2. IsFiniteSet(s)
    BY <2>1, FS_Subset
  <2>3. \A q \in s : q \in 1..n
    OBVIOUS
  <2> QED BY <2>2, <2>3
<1>2. \A m : IsFiniteSet(B(m)) /\ Cardinality(B(m)) \in Nat
  <2> TAKE m
  <2>1. B(m) \in SUBSET s
    OBVIOUS
  <2> QED BY <1>1, <2>1, FS_Subset, FS_CardinalityType
<1>3. B(n) = s
  BY <1>1
<1>4. Cardinality(s) \in Nat
  BY <1>1, FS_CardinalityType
<1>5. n \in G
  BY <1>3, <1>4
<1>6. PICK m \in G : \A j \in G : m <= j
  <2>1. G \in SUBSET Nat /\ G # {}
    BY <1>5
  <2> QED BY <2>1, LeastNatural
<1>7. B(m) = IF m \in s THEN B(m - 1) \cup {m} ELSE B(m - 1)
  <2>0. m \in Nat
    BY <1>6
  <2>1. \A q \in s : q <= m <=> (q = m \/ q <= m - 1)
    BY <1>1, <2>0
  <2> QED BY <2>0, <2>1
<1>8. B(0) = {} /\ m \notin B(m - 1)
  <2>1. \A q \in s : ~(q <= 0)
    BY <1>1
  <2>2. m \in Nat /\ ~(m <= m - 1)
    BY <1>6
  <2> QED BY <2>1, <2>2
<1>9. m \in 0..n /\ k <= Cardinality(B(m))
  BY <1>6
<1>10. \A j \in 0..n : k <= Cardinality(B(j)) => m <= j
  BY <1>6
<1> HIDE DEF B
<1>11. m # 0
  BY <1>4, <1>8, <1>9, FS_EmptySet
<1>12. m - 1 \in 0..n /\ ~(m <= m - 1)
  BY <1>9, <1>11
<1>13. ~(k <= Cardinality(B(m - 1)))
  BY <1>10, <1>12
<1>14. m \in s
  BY <1>7, <1>9, <1>13
<1>15. Cardinality(B(m)) = Cardinality(B(m - 1)) + 1
  <2> DEFINE C == B(m - 1)
  <2>1. B(m) = C \cup {m} /\ m \notin C /\ IsFiniteSet(C)
    BY <1>2, <1>7, <1>8, <1>14
  <2> HIDE DEF C
  <2>2. Cardinality(B(m)) = Cardinality(C) + 1
    BY <2>1, FS_AddElement
  <2> QED BY <2>2 DEF C
<1>16. Cardinality(B(m)) = k
  BY <1>2, <1>4, <1>9, <1>13, <1>15
<1> QED
  BY <1>14, <1>16 DEF Nth, B

Numbered(s) == \A i \in DOMAIN s : s[i].id = i
Distinct(s) == \A i, j \in DOMAIN s : i # j => s[i].id # s[j].id

\* The positions of the turns of new that list does not have.
Missing(list, new) == {p \in DOMAIN new : \A i \in DOMAIN list : list[i].id # new[p].id}

\* What the client's list becomes with new turns: no turn twice.
LEMMA ExtendedFacts ==
    ASSUME NEW l \in Seq(Turn), NEW d \in Seq(Turn)
    PROVE  /\ Extended(l, d) \in Seq(Turn)
           /\ Distinct(l) /\ Distinct(d) => Distinct(Extended(l, d))
           /\ Missing(l, d) = {} => Extended(l, d) = l
           /\ Missing(l, d) = DOMAIN d => Extended(l, d) = l \o d
<1> DEFINE F == Missing(l, d)
           n == Cardinality(F)
           e(k) == d[Nth(F, k)]
           s == [k \in 1..n |-> e(k)]
<1>1. DOMAIN d = 1..Len(d) /\ Len(d) \in Nat /\ \A p \in 1..Len(d) : d[p] \in Turn
  OBVIOUS
<1>2. F \in SUBSET (1..Len(d)) /\ IsFiniteSet(F) /\ n \in Nat
  <2>1. F \in SUBSET (1..Len(d))
    BY <1>1 DEF Missing
  <2>2. IsFiniteSet(1..Len(d))
    BY <1>1, FS_Interval
  <2> QED BY <2>1, <2>2, FS_Subset, FS_CardinalityType
<1>3. Extended(l, d) = l \o s
  BY DEF Extended, Missing
<1>4. \A k \in 1..n : Nth(F, k) \in F /\ Cardinality({q \in F : q <= Nth(F, k)}) = k
  BY <1>1, <1>2, NthPosition
<1>5. \A k \in 1..n : e(k) \in Turn
  BY <1>1, <1>2, <1>4
<1>6. s \in Seq(Turn) /\ Len(s) = n /\ \A k \in 1..n : s[k] = e(k)
  <2> HIDE DEF e, n
  <2> QED BY <1>2, <1>5
<1>7. Extended(l, d) \in Seq(Turn)
  BY <1>3, <1>6
<1>8. ASSUME Distinct(l), Distinct(d)
      PROVE  Distinct(Extended(l, d))
  <2> DEFINE r == l \o s
  <2>1. /\ DOMAIN r = 1..(Len(l) + n) /\ Len(l) \in Nat
        /\ \A i \in 1..(Len(l) + n) : r[i] = IF i <= Len(l) THEN l[i] ELSE s[i - Len(l)]
    <3> HIDE DEF s, n
    <3> QED BY <1>2, <1>6
  <2>2. \A i \in DOMAIN l, k \in 1..n : l[i].id # s[k].id
    BY <1>4, <1>6 DEF Missing
  <2>3. \A j, k \in 1..n : j # k => s[j].id # s[k].id
    <3> SUFFICES ASSUME NEW j \in 1..n, NEW k \in 1..n, j # k PROVE s[j].id # s[k].id
      OBVIOUS
    <3>1. Nth(F, j) # Nth(F, k) /\ Nth(F, j) \in DOMAIN d /\ Nth(F, k) \in DOMAIN d
      BY <1>1, <1>2, <1>4
    <3> QED BY <1>6, <1>8, <3>1 DEF Distinct
  <2> HIDE DEF s, n, F
  <2>4. ASSUME NEW i \in DOMAIN r, NEW j \in DOMAIN r, i # j
        PROVE  r[i].id # r[j].id
    <3>0. DOMAIN l = 1..Len(l)
      OBVIOUS
    <3>1. CASE i <= Len(l) /\ j <= Len(l)
      BY <1>8, <2>1, <2>4, <3>0, <3>1 DEF Distinct
    <3>2. CASE i <= Len(l) /\ ~(j <= Len(l))
      <4>1. i \in DOMAIN l /\ j - Len(l) \in 1..n /\ r[i] = l[i] /\ r[j] = s[j - Len(l)]
        BY <1>2, <2>1, <2>4, <3>0, <3>2
      <4> QED BY <2>2, <4>1
    <3>3. CASE ~(i <= Len(l)) /\ j <= Len(l)
      <4>1. j \in DOMAIN l /\ i - Len(l) \in 1..n /\ r[j] = l[j] /\ r[i] = s[i - Len(l)]
        BY <1>2, <2>1, <2>4, <3>0, <3>3
      <4> QED BY <2>2, <4>1
    <3>4. CASE ~(i <= Len(l)) /\ ~(j <= Len(l))
      <4>1. i - Len(l) \in 1..n /\ j - Len(l) \in 1..n /\ i - Len(l) # j - Len(l) /\ r[j] = s[j - Len(l)] /\ r[i] = s[i - Len(l)]
        BY <1>2, <2>1, <2>4, <3>4
      <4> QED BY <2>3, <4>1
    <3> QED BY <3>1, <3>2, <3>3, <3>4
  <2>5. Distinct(r)
    BY <2>4 DEF Distinct
  <2> QED BY <1>3, <2>5
<1>9. ASSUME F = {}
      PROVE  Extended(l, d) = l
  <2>1. n = 0
    BY <1>9, FS_EmptySet
  <2>2. s \in Seq(Turn) /\ Len(s) = 0
    BY <1>6, <2>1
  <2> HIDE DEF s
  <2>3. s = <<>>
    BY <2>2
  <2> QED BY <1>3, <2>3
<1>10. ASSUME F = DOMAIN d
       PROVE  Extended(l, d) = l \o d
  <2>1. n = Len(d)
    <3>1. F = 1..Len(d) /\ Len(d) \in Nat
      BY <1>1, <1>10
    <3> HIDE DEF F
    <3> QED BY <3>1, CountTo
  <2>2. ASSUME NEW k \in 1..n
        PROVE  Nth(F, k) = k
    <3> DEFINE p == Nth(F, k)
    <3>1. p \in 1..Len(d) /\ Cardinality({q \in F : q <= p}) = k
      BY <1>1, <1>4, <1>10
    <3> HIDE DEF p
    <3>2. {q \in F : q <= p} = 1..p
      BY <1>1, <1>10, <3>1
    <3>3. Cardinality(1..p) = p
      BY <1>1, <3>1, CountTo
    <3> QED BY <3>1, <3>2, <3>3 DEF p
  <2>3. \A k \in 1..Len(d) : s[k] = d[k]
    BY <1>6, <2>1, <2>2
  <2>4. s = d
    <3> HIDE DEF s, n
    <3> QED BY <1>6, <2>1, <2>3, SeqEqual
  <2> QED BY <1>3, <2>4
<1> QED
  BY <1>7, <1>8, <1>9, <1>10

-----------------------------------------------------------------------------
(* Turns are numbered by their place.                                          *)

NumberInv == Numbered(turns)

LEMMA NumberedDistinct ==
    ASSUME NEW s, Numbered(s)
    PROVE  Distinct(s)
BY DEF Numbered, Distinct

\* An earlier state of numbered turns is numbered, and so are all its parts.
LEMMA PrecedesNumbered ==
    ASSUME NEW a \in Seq(Turn), NEW b \in Seq(Turn), Precedes(a, b), Numbered(b)
    PROVE  Numbered(a)
<1>1. Len(a) <= Len(b) /\ DOMAIN a = 1..Len(a) /\ DOMAIN b = 1..Len(b) /\ Len(a) \in Nat /\ Len(b) \in Nat
      /\ \A i \in 1..Len(a) : a[i].id = b[i].id
  BY DEF Precedes, DriverCopy!Precedes
<1>2. \A i \in 1..Len(a) : i \in 1..Len(b)
  BY <1>1
<1> QED BY <1>1, <1>2 DEF Numbered

LEMMA TailNumbered ==
    ASSUME NEW a \in Seq(Turn), NEW b \in Seq(Turn), Numbered(a \o b)
    PROVE  /\ \A i \in 1..Len(b) : b[i].id = Len(a) + i
           /\ Distinct(b)
<1>1. \A i \in 1..Len(b) : Len(a) + i \in DOMAIN (a \o b) /\ (a \o b)[Len(a) + i] = b[i]
  OBVIOUS
<1>2. \A i \in 1..Len(b) : b[i].id = Len(a) + i
  BY <1>1 DEF Numbered
<1>3. DOMAIN b = 1..Len(b) /\ Len(a) \in Nat
  OBVIOUS
<1>4. Distinct(b)
  BY <1>2, <1>3 DEF Distinct
<1> QED BY <1>2, <1>4

LEMMA PollNumbers ==
    ASSUME turns \in Seq(Turn), Numbered(turns)
    PROVE  Numbered(NextTurns)
<1> DEFINE n == Cardinality(Found)
<1>1. NewTurns \in Seq(Turn) /\ NextTurns \in Seq(Turn) /\ Precedes(turns, NextTurns)
  BY PollGrows
<1>2. n \in Nat
  <2>1. IsFiniteSet(1..MaxTurns)
    BY FS_Interval
  <2>2. IsFiniteSet(Found)
    BY <2>1, FS_Subset DEF Found
  <2> QED
    BY <2>2, FS_CardinalityType
<1>3. Len(NewTurns) = n /\ \A i \in 1..n : NewTurns[i].id = Len(turns) + i
  <2>1. \A i \in 1..n : NewTurns[i] = [id |-> Len(turns) + i, results |-> Results(Len(turns) + i)]
    BY DEF NewTurns
  <2>2. DOMAIN NewTurns = 1..n
    BY DEF NewTurns
  <2>3. DOMAIN NewTurns = 1..Len(NewTurns) /\ Len(NewTurns) \in Nat
    BY <1>1
  <2> HIDE DEF n
  <2>4. Len(NewTurns) = n
    BY <1>2, <2>2, <2>3
  <2> QED BY <2>1, <2>4
<1>4. UpdatedTurns \in Seq(Turn) /\ Len(UpdatedTurns) = Len(turns)
  <2> DEFINE u(i) == [turns[i] EXCEPT !.results = @ \cup Results(turns[i].id)]
  <2>1. Len(turns) \in Nat /\ DOMAIN turns = 1..Len(turns)
    OBVIOUS
  <2>2. ASSUME NEW i \in 1..Len(turns) PROVE u(i) \in Turn
    <3>1. turns[i] \in Turn
      OBVIOUS
    <3>2. turns[i].results \cup Results(turns[i].id) \in SUBSET Tools
      BY <3>1 DEF Turn, Results
    <3> QED
      BY <3>1, <3>2 DEF Turn
  <2>3. UpdatedTurns = [i \in 1..Len(turns) |-> u(i)]
    BY <2>1, Zenon DEF UpdatedTurns
  <2> HIDE DEF u
  <2> QED
    BY <2>1, <2>2, <2>3
<1>5. \A i \in DOMAIN turns : NextTurns[i].id = turns[i].id
  BY <1>1 DEF Precedes, DriverCopy!Precedes
<1> HIDE DEF n
<1>6. /\ Len(turns) \in Nat /\ DOMAIN turns = 1..Len(turns) /\ DOMAIN NextTurns = 1..(Len(turns) + n)
      /\ \A i \in 1..n : NextTurns[Len(turns) + i] = NewTurns[i]
  <2>1. \A a, b \in Seq(Turn) : /\ Len(a) \in Nat /\ DOMAIN a = 1..Len(a) /\ DOMAIN (a \o b) = 1..(Len(a) + Len(b))
                                /\ \A i \in 1..Len(b) : (a \o b)[Len(a) + i] = b[i]
    OBVIOUS
  <2>2. Len(NewTurns) = n /\ NextTurns = UpdatedTurns \o NewTurns /\ UpdatedTurns \in Seq(Turn) /\ NewTurns \in Seq(Turn) /\ turns \in Seq(Turn)
    BY <1>1, <1>3, <1>4 DEF NextTurns
  <2> QED BY <1>4, <2>1, <2>2
<1>7. ASSUME NEW i \in DOMAIN NextTurns
      PROVE  NextTurns[i].id = i
  <2>1. CASE i <= Len(turns)
    BY <1>5, <1>6, <2>1 DEF Numbered
  <2>2. CASE ~(i <= Len(turns))
    <3>1. i - Len(turns) \in 1..n /\ Len(turns) + (i - Len(turns)) = i
      BY <1>2, <1>6, <2>2
    <3> QED BY <1>3, <1>6, <3>1
  <2> QED BY <2>1, <2>2
<1> QED BY <1>7 DEF Numbered

LEMMA NumberNext == ServerInv /\ NumberInv /\ [ServerNext]_serverVars => NumberInv'
<1> SUFFICES ASSUME ServerInv, NumberInv, [ServerNext]_serverVars PROVE NumberInv'
  OBVIOUS
<1>1. turns \in Seq(Turn)
  BY DEF ServerInv, ServerTypeOK
<1>2. CASE InitialPoll
  <2>1. turns = <<>> /\ turns' = NewTurns
    BY <1>2 DEF ServerInv, Fresh, InitialPoll
  <2>2. UpdatedTurns = <<>>
    BY <2>1 DEF UpdatedTurns
  <2>3. NewTurns \in Seq(Turn)
    BY <1>1, PollGrows
  <2>4. NextTurns = NewTurns
    BY <2>2, <2>3 DEF NextTurns
  <2> QED BY <1>1, <2>1, <2>4, PollNumbers DEF NumberInv
<1>3. CASE Poll
  BY <1>1, <1>3, PollNumbers DEF NumberInv, Poll
<1>4. CASE WriteTurn \/ WriteResult \/ InitialPollFails \/ SendSignal \/ TakeSignal \/ UNCHANGED serverVars
  <2>1. turns' = turns
    BY <1>4 DEF WriteTurn, WriteResult, Write, InitialPollFails, SendSignal, TakeSignal, serverVars
  <2> QED BY <2>1 DEF NumberInv
<1> QED BY <1>2, <1>3, <1>4 DEF ServerNext

\* The driver's copy is numbered as well.
LEMMA ChainNumbered ==
    ASSUME NEW p \in Seq(Messages), NEW d \in Seq(Turn), NEW t \in Seq(Turn), NEW f, IsChain(f, p, d, t), Numbered(t)
    PROVE  Numbered(d)
<1>1. 0 \in 0..Len(p)
  OBVIOUS
<1>2. Precedes(d, t)
  BY <1>1 DEF IsChain
<1> QED BY <1>2, PrecedesNumbered

LEMMA DriverNumbered ==
    ASSUME ServerInv, NumberInv
    PROVE  driver \in Seq(Turn) /\ Numbered(driver)
<1>1. turns \in Seq(Turn) /\ driver \in Seq(Turn) /\ Pending \in Seq(Messages)
  BY TurnsType DEF ServerInv, ServerTypeOK
<1> QED BY <1>1, ChainNumbered DEF ServerInv, NumberInv

\* What the driver broadcasts.
LEMMA TakeEvent ==
    ASSUME ServerInv, NumberInv, TakeSignal
    PROVE  /\ driver \in Seq(Turn) /\ driver' \in Seq(Turn)
           /\ Precedes(driver, driver') /\ Numbered(driver')
           /\ \E e \in Events : /\ events' = Append(events, e)
                                /\ driver' = IF e.kind = "full" THEN e.turns ELSE driver \o e.turns
                                /\ Distinct(e.turns)
<1>1. ServerInv' /\ NumberInv'
  BY ServerStep, NumberNext DEF ServerNext
<1>2. driver \in Seq(Turn) /\ driver' \in Seq(Turn) /\ Numbered(driver')
  <2>1. driver \in Seq(Turn) /\ driver' \in Seq(Turn) /\ turns' \in Seq(Turn) /\ Numbered(turns')
    BY <1>1, DriverNumbered DEF ServerInv, ServerTypeOK, NumberInv, Numbered
  <2>2. signals' \in Seq(Messages) /\ out' \in Seq(Messages)
    BY <1>1 DEF ServerInv, ServerTypeOK
  <2>3. Pending' \in Seq(Messages)
    BY <2>2 DEF Pending
  <2>4. \E f : IsChain(f, Pending', driver', turns')
    BY <1>1 DEF ServerInv
  <2> QED BY <2>1, <2>3, <2>4, ChainNumbered
<1>3. Precedes(driver, driver')
  BY TakeChain
<1>4. signals \in Seq(Messages) /\ signals # <<>>
  BY DEF ServerInv, ServerTypeOK, TakeSignal
<1> DEFINE m == Head(signals)
<1>5. m \in Messages
  BY <1>4
<1>6. m.kind \in {"snapshot", "delta"} /\ m.turns \in Seq(Turn)
  BY <1>5 DEF Messages
<1>7. events' = Append(events, Event(m)) /\ driver' = Applied(driver, m)
  BY DEF TakeSignal
<1> HIDE DEF m
<1>8. Event(m) \in Events /\ Event(m).turns = m.turns /\ (Event(m).kind = "full" <=> m.kind = "snapshot")
  BY <1>6 DEF Event, Events
<1>9. driver' = IF m.kind = "snapshot" THEN m.turns ELSE driver \o m.turns
  BY <1>7 DEF Applied
<1>10. Distinct(m.turns)
  <2>1. CASE m.kind = "snapshot"
    BY <1>2, <1>9, <2>1, NumberedDistinct
  <2>2. CASE m.kind # "snapshot"
    BY <1>2, <1>6, <1>9, <2>2, TailNumbered
  <2> QED BY <2>1, <2>2
<1> QED BY <1>2, <1>3, <1>7, <1>8, <1>9, <1>10

-----------------------------------------------------------------------------
(* The types of what serves the client, and that no message names a turn       *)
(* twice.                                                                      *)

TasksTyped ==
    /\ pc \in [Gens -> {"unborn", "ack", "subscribe", "snapshot", "loop", "send", "done"}]
    /\ pos \in [Gens -> Nat]
    /\ carry \in [Gens -> WireMessage]
    /\ cancelled \subseteq Gens
    /\ current \in 0..MaxFocus
SyncTyped ==
    /\ sync \in [Asks -> [phase : {"none", "asked", "send"}, since : Nat, answer : WireMessage]]
    /\ asks \in 0..MaxAsks
ClientTyped ==
    /\ wire \in Seq(WireMessage) /\ Len(wire) <= WireCap
    /\ shown \in Seq(Turn)
    /\ waiting \in BOOLEAN /\ raced \in BOOLEAN

LEMMA TypeParts ==
    /\ TypeOK <=> ServerTypeOK /\ TasksTyped /\ SyncTyped /\ ClientTyped
    /\ TypeOK' <=> ServerTypeOK' /\ TasksTyped' /\ SyncTyped' /\ ClientTyped'
BY DEF TypeOK, TasksTyped, SyncTyped, ClientTyped

\* Nothing on its way to the client names a turn twice.
DistinctInv ==
    /\ Distinct(shown)
    /\ \A k \in DOMAIN wire : Distinct(wire[k].turns)
    /\ \A g \in Gens : Distinct(carry[g].turns)
    /\ \A a \in Asks : Distinct(sync[a].answer.turns)
    /\ \A k \in DOMAIN events : Distinct(events[k].turns)

LEMMA EmptyFacts ==
    /\ Ack \in WireMessage /\ Distinct(<<>>) /\ Distinct(Ack.turns)
    /\ Idle \in [phase : {"none", "asked", "send"}, since : Nat, answer : WireMessage] /\ Idle.answer = Ack
    /\ \A s \in Seq(Turn) : /\ Full(s) \in WireMessage /\ Full(s).turns = s
                            /\ Update(s) \in WireMessage /\ Update(s).turns = s
    /\ Events \subseteq WireMessage
BY DEF Ack, WireMessage, Distinct, Idle, Full, Update, Events

\* At the start nothing is on its way.
LEMMA TypeInit == Init => TypeOK /\ DistinctInv /\ NumberInv
<1> SUFFICES ASSUME Init PROVE TypeOK /\ DistinctInv /\ NumberInv
  OBVIOUS
<1> USE EmptyFacts
<1>1. ServerTypeOK
  BY ChainInit DEF Init, ServerInv
<1>2. TasksTyped
  BY ClientAssumption DEF Init, TasksTyped
<1>3. SyncTyped
  BY ClientAssumption DEF Init, SyncTyped
<1>4. ClientTyped
  <2>1. wire = <<>> /\ shown = <<>> /\ waiting \in BOOLEAN /\ raced \in BOOLEAN
    BY DEF Init
  <2>2. wire \in Seq(WireMessage) /\ Len(wire) <= WireCap /\ shown \in Seq(Turn)
    BY <2>1, ClientAssumption
  <2> QED BY <2>1, <2>2 DEF ClientTyped
<1>5. DistinctInv
  BY DEF Init, DistinctInv, ServerInit
<1>6. NumberInv
  BY DEF Init, ServerInit, NumberInv, Numbered
<1> QED BY <1>1, <1>2, <1>3, <1>4, <1>5, <1>6, TypeParts

\* A message joins the wire.
LEMMA WireGrows ==
    ASSUME ClientTyped, \A k \in DOMAIN wire : Distinct(wire[k].turns), NEW m \in WireMessage, Distinct(m.turns), Room, wire' = Append(wire, m)
    PROVE  wire' \in Seq(WireMessage) /\ Len(wire') <= WireCap /\ \A k \in DOMAIN wire' : Distinct(wire'[k].turns)
<1>1. wire \in Seq(WireMessage) /\ Len(wire) < WireCap /\ WireCap \in Nat
  BY ClientAssumption DEF ClientTyped, Room
<1>2. wire' \in Seq(WireMessage) /\ Len(wire') <= WireCap
  BY <1>1
<1>3. /\ DOMAIN wire' = 1..(Len(wire) + 1) /\ DOMAIN wire = 1..Len(wire) /\ Len(wire) \in Nat
      /\ wire'[Len(wire) + 1] = m /\ \A k \in 1..Len(wire) : wire'[k] = wire[k]
  BY <1>1
<1>4. \A k \in DOMAIN wire' : k = Len(wire) + 1 \/ k \in 1..Len(wire)
  BY <1>3
<1> QED BY <1>2, <1>3, <1>4

\* What the driver and the synchronisations send.
LEMMA AfterFacts ==
    ASSUME driver \in Seq(Turn), Distinct(driver), NEW n
    PROVE  After(n) \in Seq(Turn) /\ Distinct(After(n))
<1> DEFINE here == {i \in DOMAIN driver : driver[i].id = n}
           c == CHOOSE i \in here : TRUE
<1>1. CASE here = {}
  BY <1>1 DEF After
<1>2. CASE here # {}
  <2>1. After(n) = SubSeq(driver, 1 + c, Len(driver))
    BY <1>2 DEF After
  <2>2. c \in 1..Len(driver) /\ Len(driver) \in Nat
    BY <1>2
  <2> HIDE DEF c
  <2>3. /\ SubSeq(driver, 1 + c, Len(driver)) \in Seq(Turn)
        /\ DOMAIN SubSeq(driver, 1 + c, Len(driver)) = 1..(Len(driver) - c)
        /\ \A i \in 1..(Len(driver) - c) : SubSeq(driver, 1 + c, Len(driver))[i] = driver[c + i]
    BY <2>2
  <2>4. \A i \in 1..(Len(driver) - c) : c + i \in DOMAIN driver
    BY <2>2
  <2>5. \A i, j \in 1..(Len(driver) - c) : i # j => c + i # c + j
    BY <2>2
  <2>6. Distinct(SubSeq(driver, 1 + c, Len(driver)))
    <3> DEFINE r == SubSeq(driver, 1 + c, Len(driver))
               top == Len(driver) - c
    <3>1. DOMAIN r = 1..top /\ \A i \in 1..top : r[i] = driver[c + i]
      BY <2>3
    <3>2. \A i \in 1..top : c + i \in DOMAIN driver
      BY <2>4
    <3>3. \A i, j \in 1..top : i # j => c + i # c + j
      BY <2>5
    <3> HIDE DEF r, top
    <3>4. Distinct(r)
      BY <3>1, <3>2, <3>3 DEF Distinct
    <3> QED BY <3>4 DEF r
  <2> QED BY <2>1, <2>3, <2>6
<1> QED BY <1>1, <1>2

\* The driver's broadcasts.
LEMMA DistinctServer ==
    ASSUME ServerInv, NumberInv, TypeOK, DistinctInv, Server
    PROVE  TypeOK' /\ DistinctInv'
<1>1. ServerInv' /\ UNCHANGED <<taskVars, handlerVars, syncVars, clientVars>>
  BY ServerStep DEF Server
<1>2. TypeOK'
  <2>1. ServerTypeOK'
    BY <1>1 DEF ServerInv
  <2>2. TasksTyped' /\ SyncTyped' /\ ClientTyped'
    BY <1>1, TypeParts DEF TasksTyped, SyncTyped, ClientTyped, taskVars, handlerVars, syncVars, clientVars
  <2> QED BY <2>1, <2>2, TypeParts
<1>3. \A k \in DOMAIN events' : Distinct(events'[k].turns)
  <2>1. CASE TakeSignal
    <3>1. PICK e \in Events : events' = Append(events, e) /\ Distinct(e.turns)
      BY <2>1, TakeEvent
    <3>2. events \in Seq(Events)
      BY DEF ServerInv, ServerTypeOK
    <3>3. /\ DOMAIN events' = 1..(Len(events) + 1) /\ DOMAIN events = 1..Len(events) /\ Len(events) \in Nat
          /\ events'[Len(events) + 1] = e /\ \A k \in 1..Len(events) : events'[k] = events[k]
      BY <3>1, <3>2
    <3>4. \A k \in DOMAIN events' : k = Len(events) + 1 \/ k \in 1..Len(events)
      BY <3>3
    <3> QED BY <3>1, <3>3, <3>4 DEF DistinctInv
  <2>2. CASE ~TakeSignal
    <3>1. events' = events
      BY <2>2 DEF Server, ServerNext, WriteTurn, WriteResult, Write, InitialPoll, InitialPollFails, Poll, SendSignal
    <3> QED BY <3>1 DEF DistinctInv
  <2> QED BY <2>1, <2>2
<1> QED BY <1>1, <1>2, <1>3 DEF DistinctInv, taskVars, syncVars, clientVars

\* What the focus tasks send.
LEMMA DistinctTask ==
    ASSUME ServerInv, NumberInv, TypeOK, DistinctInv, NEW g \in Gens, Focus(g) \/ Task(g)
    PROVE  TypeOK' /\ DistinctInv'
<1>0. ServerTypeOK /\ TasksTyped /\ SyncTyped /\ ClientTyped
  BY TypeParts
<1>1. UNCHANGED serverVars /\ UNCHANGED syncVars /\ UNCHANGED <<shown, waiting>> /\ raced' \in BOOLEAN
  BY <1>0 DEF Focus, Task, SendAck, Subscribe, Snapshot, Receive, Lag, Send, Stop, clientVars, ClientTyped
<1>2. driver \in Seq(Turn) /\ Distinct(driver) /\ events \in Seq(Events)
  BY DriverNumbered, NumberedDistinct DEF ServerInv, ServerTypeOK
<1>3. /\ pc' \in [Gens -> {"unborn", "ack", "subscribe", "snapshot", "loop", "send", "done"}]
      /\ cancelled' \subseteq Gens /\ current' \in 0..MaxFocus
  <2>1. CASE Focus(g)
    BY <1>0, <2>1, ClientAssumption DEF Focus, TasksTyped, Started, Gens
  <2>2. CASE Task(g)
    BY <1>0, <2>2 DEF Task, SendAck, Subscribe, Snapshot, Receive, Lag, AfterLag, Send, Stop, TasksTyped, handlerVars
  <2> QED BY <2>1, <2>2
<1>4. pos' \in [Gens -> Nat]
  <2>1. Len(events) + 1 \in Nat /\ Oldest \in Nat
    BY <1>2, ClientAssumption DEF Oldest
  <2>2. pos' = pos \/ \E n \in Nat : pos' = [pos EXCEPT ![g] = n]
    <3>1. CASE Receive(g)
      <4>1. pos[g] + 1 \in Nat /\ pos' = [pos EXCEPT ![g] = pos[g] + 1]
        BY <1>0, <3>1 DEF Receive, TasksTyped
      <4> QED BY <4>1
    <3>2. CASE ~Receive(g)
      BY <2>1, <3>2 DEF Focus, Task, SendAck, Subscribe, Snapshot, Lag, Send, Stop, taskVars
    <3> QED BY <3>1, <3>2
  <2> QED BY <1>0, <2>2 DEF TasksTyped
<1>5. carry' = carry \/ \E m \in WireMessage : carry' = [carry EXCEPT ![g] = m] /\ Distinct(m.turns)
  <2>1. CASE Snapshot(g)
    BY <1>2, <2>1, EmptyFacts DEF Snapshot
  <2>2. CASE Receive(g)
    <3>1. pos[g] \in DOMAIN events
      BY <1>0, <1>2, <2>2, ClientAssumption DEF Receive, Oldest, TasksTyped
    <3>2. events[pos[g]] \in Events
      BY <1>2, <3>1
    <3> QED BY <2>2, <3>1, <3>2, EmptyFacts DEF Receive, DistinctInv
  <2>3. CASE Send(g)
    BY <2>3, EmptyFacts DEF Send
  <2>4. CASE Focus(g) \/ SendAck(g) \/ Subscribe(g) \/ Lag(g) \/ Stop(g)
    BY <2>4 DEF Focus, SendAck, Subscribe, Lag, Stop
  <2> QED BY <2>1, <2>2, <2>3, <2>4 DEF Task
<1>6. carry' \in [Gens -> WireMessage] /\ \A h \in Gens : Distinct(carry'[h].turns)
  <2>1. carry \in [Gens -> WireMessage] /\ \A h \in Gens : Distinct(carry[h].turns)
    BY <1>0 DEF TasksTyped, DistinctInv
  <2> QED BY <1>5, <2>1
<1>7. wire' \in Seq(WireMessage) /\ Len(wire') <= WireCap /\ \A k \in DOMAIN wire' : Distinct(wire'[k].turns)
  <2>1. CASE SendAck(g)
    BY <1>0, <2>1, EmptyFacts, WireGrows DEF SendAck, DistinctInv
  <2>2. CASE Send(g)
    <3>1. carry[g] \in WireMessage /\ Distinct(carry[g].turns)
      BY <1>0 DEF TasksTyped, DistinctInv
    <3> QED BY <1>0, <2>2, <3>1, WireGrows DEF Send, DistinctInv
  <2>3. CASE Focus(g) \/ Subscribe(g) \/ Snapshot(g) \/ Receive(g) \/ Lag(g) \/ Stop(g)
    <3>1. wire' = wire
      BY <2>3 DEF Focus, Subscribe, Snapshot, Receive, Lag, Stop, clientVars
    <3> QED BY <1>0, <3>1 DEF ClientTyped, DistinctInv
  <2> QED BY <2>1, <2>2, <2>3 DEF Task
<1>8. ServerTypeOK' /\ SyncTyped'
  BY <1>0, <1>1 DEF ServerTypeOK, serverVars, SyncTyped, syncVars
<1>9. TasksTyped' /\ ClientTyped'
  BY <1>0, <1>1, <1>3, <1>4, <1>6, <1>7 DEF TasksTyped, ClientTyped
<1>10. DistinctInv'
  BY <1>1, <1>6, <1>7 DEF DistinctInv, serverVars, syncVars
<1> QED BY <1>8, <1>9, <1>10, TypeParts

\* What the synchronisations send.
LEMMA DistinctSync ==
    ASSUME ServerInv, NumberInv, TypeOK, DistinctInv, Ask \/ \E a \in Asks : Lookup(a) \/ Answer(a)
    PROVE  TypeOK' /\ DistinctInv'
<1>0. ServerTypeOK /\ TasksTyped /\ SyncTyped /\ ClientTyped
  BY TypeParts
<1> DEFINE Rows == [phase : {"none", "asked", "send"}, since : Nat, answer : WireMessage]
<1>1. UNCHANGED <<serverVars, taskVars, handlerVars, shown>> /\ waiting' \in BOOLEAN /\ raced' \in BOOLEAN
  BY <1>0 DEF Ask, Lookup, Answer, ClientTyped, clientVars
<1>2. driver \in Seq(Turn) /\ Distinct(driver)
  BY DriverNumbered, NumberedDistinct
<1>3. \E a \in Asks, r \in Rows : sync' = [sync EXCEPT ![a] = r] /\ Distinct(r.answer.turns)
  <2>1. CASE Ask
    <3>1. LastId \in Nat
      <4>1. shown \in Seq(Turn)
        BY <1>0 DEF ClientTyped
      <4>2. CASE shown = <<>>
        BY <4>2 DEF LastId
      <4>3. CASE shown # <<>>
        <5>1. Len(shown) \in DOMAIN shown
          BY <4>1, <4>3
        <5>2. shown[Len(shown)] \in Turn
          BY <4>1, <5>1
        <5> QED BY <4>3, <5>2 DEF LastId, Turn
      <4> QED BY <4>2, <4>3
    <3>2. asks + 1 \in Asks
      BY <1>0, <2>1, ClientAssumption DEF Ask, SyncTyped, Asks
    <3>3. [phase |-> "asked", since |-> LastId, answer |-> Ack] \in Rows
      BY <3>1, EmptyFacts
    <3> QED BY <2>1, <3>2, <3>3, EmptyFacts DEF Ask
  <2>2. ASSUME NEW a \in Asks, Lookup(a)
        PROVE  \E r \in Rows : sync' = [sync EXCEPT ![a] = r] /\ Distinct(r.answer.turns)
    <3> DEFINE ans == IF sync[a].since = 0 THEN Full(driver) ELSE Update(After(sync[a].since))
    <3>1. ans \in WireMessage /\ Distinct(ans.turns)
      BY <1>2, AfterFacts, EmptyFacts
    <3>2. sync' = [sync EXCEPT ![a] = IF ans.turns = <<>> THEN Idle ELSE [phase |-> "send", since |-> 0, answer |-> ans]]
      BY <2>2 DEF Lookup
    <3> HIDE DEF ans
    <3>3. [phase |-> "send", since |-> 0, answer |-> ans] \in Rows
      BY <3>1
    <3> QED BY <3>1, <3>2, <3>3, EmptyFacts
  <2>3. ASSUME NEW a \in Asks, Answer(a)
        PROVE  \E r \in Rows : sync' = [sync EXCEPT ![a] = r] /\ Distinct(r.answer.turns)
    BY <2>3, EmptyFacts DEF Answer
  <2> QED BY <2>1, <2>2, <2>3
<1>4. sync' \in [Asks -> Rows] /\ \A a \in Asks : Distinct(sync'[a].answer.turns)
  <2>1. sync \in [Asks -> Rows] /\ \A a \in Asks : Distinct(sync[a].answer.turns)
    BY <1>0 DEF SyncTyped, DistinctInv
  <2> HIDE DEF Rows
  <2> QED BY <1>3, <2>1
<1>5. asks' \in 0..MaxAsks
  BY <1>0, ClientAssumption DEF Ask, Lookup, Answer, SyncTyped
<1>6. wire' \in Seq(WireMessage) /\ Len(wire') <= WireCap /\ \A k \in DOMAIN wire' : Distinct(wire'[k].turns)
  <2>1. CASE wire' = wire
    BY <1>0, <2>1 DEF ClientTyped, DistinctInv
  <2>2. ASSUME NEW a \in Asks, Answer(a)
        PROVE  wire' \in Seq(WireMessage) /\ Len(wire') <= WireCap /\ \A k \in DOMAIN wire' : Distinct(wire'[k].turns)
    <3>1. sync[a].answer \in WireMessage /\ Distinct(sync[a].answer.turns)
      BY <1>0 DEF SyncTyped, DistinctInv
    <3> QED BY <1>0, <2>2, <3>1, WireGrows DEF Answer, DistinctInv
  <2> QED BY <2>1, <2>2 DEF Ask, Lookup, clientVars
<1>7. ServerTypeOK' /\ TasksTyped'
  BY <1>0, <1>1 DEF ServerTypeOK, serverVars, TasksTyped, taskVars, handlerVars
<1>8. SyncTyped' /\ ClientTyped'
  BY <1>0, <1>1, <1>4, <1>5, <1>6 DEF SyncTyped, ClientTyped
<1>9. DistinctInv'
  BY <1>1, <1>4, <1>6 DEF DistinctInv, serverVars, taskVars
<1> QED BY <1>7, <1>8, <1>9, TypeParts

\* What the client makes of it, and what a lost connection leaves.
LEMMA DistinctClient ==
    ASSUME ServerInv, NumberInv, TypeOK, DistinctInv, FocusOther \/ Deliver \/ Disconnect \/ Timeout
    PROVE  TypeOK' /\ DistinctInv'
<1>0. ServerTypeOK /\ TasksTyped /\ SyncTyped /\ ClientTyped
  BY TypeParts
<1>1. CASE FocusOther
  <2>1. UNCHANGED <<serverVars, taskVars, syncVars, clientVars>> /\ cancelled' \subseteq Gens /\ current' \in 0..MaxFocus
    BY <1>1, ClientAssumption DEF FocusOther, Started
  <2>2. ServerTypeOK' /\ TasksTyped' /\ SyncTyped' /\ ClientTyped'
    BY <1>0, <2>1 DEF ServerTypeOK, TasksTyped, SyncTyped, ClientTyped, serverVars, taskVars, syncVars, clientVars
  <2>3. DistinctInv'
    BY <2>1 DEF DistinctInv, serverVars, taskVars, syncVars, clientVars
  <2> QED BY <2>2, <2>3, TypeParts
<1>2. CASE Deliver
  <2>1. UNCHANGED <<serverVars, taskVars, handlerVars, syncVars, raced>> /\ waiting' \in BOOLEAN /\ wire' = Tail(wire) /\ shown' = Shown(Head(wire))
    BY <1>0, <1>2 DEF Deliver, ClientTyped
  <2>2. wire # <<>> /\ wire \in Seq(WireMessage) /\ Len(wire) <= WireCap /\ shown \in Seq(Turn) /\ Distinct(shown)
    BY <1>0, <1>2 DEF Deliver, ClientTyped, DistinctInv
  <2>3. /\ Len(wire) \in Nat /\ Len(wire) >= 1 /\ Len(wire') = Len(wire) - 1 /\ DOMAIN wire = 1..Len(wire) /\ DOMAIN wire' = 1..Len(wire')
        /\ Head(wire) = wire[1] /\ \A k \in 1..Len(wire') : wire'[k] = wire[k + 1]
        /\ Head(wire) \in WireMessage /\ wire' \in Seq(WireMessage)
    BY <2>1, <2>2
  <2>4. Len(wire') <= WireCap
    BY <2>2, <2>3, ClientAssumption
  <2>5. 1 \in DOMAIN wire /\ \A k \in DOMAIN wire' : k + 1 \in DOMAIN wire
    BY <2>3
  <2>6. Distinct(Head(wire).turns) /\ \A k \in DOMAIN wire' : Distinct(wire'[k].turns)
    BY <2>3, <2>5 DEF DistinctInv
  <2>7. Head(wire).turns \in Seq(Turn)
    BY <2>3 DEF WireMessage
  <2>8. shown' \in Seq(Turn) /\ Distinct(shown')
    BY <2>1, <2>2, <2>6, <2>7, ExtendedFacts DEF Shown
  <2>9. ServerTypeOK' /\ TasksTyped' /\ SyncTyped'
    BY <1>0, <2>1 DEF ServerTypeOK, TasksTyped, SyncTyped, serverVars, taskVars, handlerVars, syncVars
  <2>10. ClientTyped'
    BY <1>0, <2>1, <2>3, <2>4, <2>8 DEF ClientTyped
  <2>11. DistinctInv'
    BY <2>1, <2>6, <2>8 DEF DistinctInv, serverVars, taskVars, syncVars
  <2> QED BY <2>9, <2>10, <2>11, TypeParts
<1>3. CASE Lost /\ waiting' \in BOOLEAN
  <2>1. UNCHANGED serverVars /\ wire' = <<>> /\ UNCHANGED <<asks, shown, raced>>
    BY <1>3 DEF Lost
  <2>2. TasksTyped'
    <3>1. pc' \in [Gens -> {"unborn", "ack", "subscribe", "snapshot", "loop", "send", "done"}]
      BY <1>0, <1>3 DEF Lost, TasksTyped
    <3>2. pos' \in [Gens -> Nat] /\ carry' \in [Gens -> WireMessage]
      BY <1>3, EmptyFacts DEF Lost
    <3>3. cancelled' \subseteq Gens /\ current' \in 0..MaxFocus
      BY <1>3, ClientAssumption DEF Lost, Started
    <3> QED BY <3>1, <3>2, <3>3 DEF TasksTyped
  <2>3. SyncTyped'
    BY <1>0, <1>3, <2>1, EmptyFacts DEF Lost, SyncTyped
  <2>4. ClientTyped'
    <3>1. wire' \in Seq(WireMessage) /\ Len(wire') <= WireCap
      BY <2>1, ClientAssumption
    <3> QED BY <1>0, <1>3, <2>1, <3>1 DEF ClientTyped
  <2>5. ServerTypeOK'
    BY <1>0, <2>1 DEF ServerTypeOK, serverVars
  <2>6. DistinctInv'
    <3>1. \A g \in Gens : carry'[g] = Ack
      BY <1>3 DEF Lost
    <3>2. \A a \in Asks : sync'[a] = Idle
      BY <1>3 DEF Lost
    <3> QED BY <2>1, <3>1, <3>2, EmptyFacts DEF DistinctInv, serverVars
  <2> QED BY <2>2, <2>3, <2>4, <2>5, <2>6, TypeParts
<1>4. CASE Disconnect \/ Timeout
  BY <1>0, <1>3, <1>4 DEF Disconnect, Timeout, ClientTyped
<1> QED BY <1>1, <1>2, <1>4

\* The server's invariant with the numbering and the client's part.
SyncInv == ServerInv /\ NumberInv /\ TypeOK /\ DistinctInv

LEMMA SyncInvNext == SyncInv /\ [Next]_vars => SyncInv'
<1> SUFFICES ASSUME SyncInv, [Next]_vars PROVE SyncInv'
  OBVIOUS
<1>1. ServerInv' /\ NumberInv'
  BY ServerOnly, ServerStep, NumberNext DEF SyncInv
<1>2. CASE UNCHANGED vars
  <2>1. UNCHANGED <<serverVars, taskVars, handlerVars, syncVars, clientVars>>
    BY <1>2 DEF vars
  <2>2. TypeOK'
    BY <2>1, TypeParts DEF SyncInv, ServerTypeOK, TasksTyped, SyncTyped, ClientTyped, serverVars, taskVars, handlerVars, syncVars, clientVars
  <2>3. DistinctInv'
    BY <2>1 DEF SyncInv, DistinctInv, serverVars, taskVars, syncVars, clientVars
  <2> QED BY <1>1, <2>2, <2>3 DEF SyncInv
<1>3. CASE Next
  <2>1. TypeOK' /\ DistinctInv'
    BY <1>3, DistinctServer, DistinctTask, DistinctSync, DistinctClient DEF SyncInv, Next
  <2> QED BY <1>1, <2>1 DEF SyncInv
<1> QED BY <1>2, <1>3

LEMMA SyncInvCorrect == Spec => []SyncInv
<1>1. Init => SyncInv
  BY ChainInit, TypeInit DEF Init, SyncInv
<1> QED
  BY <1>1, SyncInvNext, PTL DEF Spec

\* However many generations, synchronisations and lost connections there are, the
\* connection's queue keeps its capacity and everything on it is a list of turns
\* (websocket.ts, ws/focus.rs).
THEOREM SyncTypeCorrect == Spec => []TypeOK
BY SyncInvCorrect, PTL DEF SyncInv

\* Nobody sees a turn twice, whichever of snapshots, broadcasts and answers
\* overlap (instances.ts, appendInstanceTurns).
THEOREM NoDuplicatesCorrect == Spec => []NoDuplicates
<1>1. SyncInv => NoDuplicates
  BY DEF SyncInv, DistinctInv, Distinct, NoDuplicates
<1> QED
  BY <1>1, SyncInvCorrect, PTL

-----------------------------------------------------------------------------
(* The client's list follows the driver's copy, while one sender feeds it.     *)

\* The list l after message m: Shown is this of the list shown.
Made(l, m) ==
    CASE m.kind = "full" -> m.turns
      [] m.kind = "update" -> Extended(l, m.turns)
      [] OTHER -> l

\* The driver's copy d after event e.
Taken(d, e) == IF e.kind = "full" THEN e.turns ELSE d \o e.turns

\* h[k] is the driver's copy after k of the events ev; the last is d.
IsHistory(h, ev, d) ==
    /\ h \in [0..Len(ev) -> Seq(Turn)]
    /\ h[Len(ev)] = d
    /\ \A k \in 1..Len(ev) : h[k] = Taken(h[k - 1], ev[k])
    /\ \A j, k \in 0..Len(ev) : j <= k => Precedes(h[j], h[k])

\* The messages q lead a client from the list l to the list r by way of earlier
\* states of d.
IsFeed(c, l, q, r, d) ==
    /\ c \in [0..Len(q) -> Seq(Turn)]
    /\ c[0] = l
    /\ c[Len(q)] = r
    /\ \A k \in 1..Len(q) : c[k] = Made(c[k - 1], q[k])
    /\ \A k \in 0..Len(q) : Precedes(c[k], d)
Leads(l, q, r, d) == \E c : IsFeed(c, l, q, r, d)

\* A client that is to get the list r from the wire has, once task g has sent
\* what it holds, the driver's copy of some moment since the last event that g
\* received.
Caught(g, h, r) ==
    /\ pc[g] = "loop" => \E j \in 0..Len(events) : pos[g] - 1 <= j /\ r = h[j]
    /\ pc[g] = "send" => \E j \in 0..Len(events) : pos[g] - 1 <= j /\ Made(r, carry[g]) = h[j]

\* One task at most is at work, no answer is on its way, and the client is fed.
Followed(h) ==
    ~raced =>
        /\ \A f, g \in Alive : f = g
        /\ \A a \in Asks : sync[a].phase = "none"
        /\ \E r : Leads(shown, wire, r, driver) /\ \A g \in Gens : Caught(g, h, r)

PosInv == \A g \in Gens : pc[g] \in {"snapshot", "loop", "send"} => pos[g] \in 1..(Len(events) + 1)

FollowInv == PosInv /\ \E h : IsHistory(h, events, driver) /\ Followed(h)

LEMMA MadeFacts ==
    ASSUME NEW l \in Seq(Turn), NEW m \in WireMessage
    PROVE  Made(l, m) \in Seq(Turn) /\ Made(l, Ack) = l
<1>1. m.turns \in Seq(Turn)
  BY DEF WireMessage
<1>2. Ack.kind = "ack"
  BY DEF Ack
<1> QED BY <1>1, <1>2, ExtendedFacts DEF Made

LEMMA FeedEnds ==
    ASSUME NEW l, NEW q \in Seq(WireMessage), NEW r, NEW d, Leads(l, q, r, d)
    PROVE  l \in Seq(Turn) /\ r \in Seq(Turn) /\ Precedes(l, d) /\ Precedes(r, d)
<1>1. PICK c : IsFeed(c, l, q, r, d)
  BY DEF Leads
<1>2. Len(q) \in Nat /\ 0 \in 0..Len(q) /\ Len(q) \in 0..Len(q)
  OBVIOUS
<1> QED BY <1>1, <1>2 DEF IsFeed

LEMMA FeedEmpty ==
    ASSUME NEW l \in Seq(Turn), NEW d \in Seq(Turn), Precedes(l, d)
    PROVE  Leads(l, <<>>, l, d)
<1> DEFINE c == [k \in 0..0 |-> l]
<1>1. c \in [0..0 -> Seq(Turn)] /\ c[0] = l /\ \A k \in 0..0 : c[k] = l
  OBVIOUS
<1> HIDE DEF c
<1>2. IsFeed(c, l, <<>>, l, d)
  BY <1>1 DEF IsFeed
<1> QED BY <1>2 DEF Leads

LEMMA FeedGrows ==
    ASSUME NEW l, NEW q \in Seq(WireMessage), NEW r, NEW d \in Seq(Turn), NEW e \in Seq(Turn), Leads(l, q, r, d), Precedes(d, e)
    PROVE  Leads(l, q, r, e)
<1>1. PICK c : IsFeed(c, l, q, r, d)
  BY DEF Leads
<1>2. ASSUME NEW k \in 0..Len(q)
      PROVE  Precedes(c[k], e)
  <2>1. c[k] \in Seq(Turn) /\ Precedes(c[k], d)
    BY <1>1 DEF IsFeed
  <2> QED BY <2>1, PrecedesTransitive
<1>3. IsFeed(c, l, q, r, e)
  BY <1>1, <1>2 DEF IsFeed
<1> QED BY <1>3 DEF Leads

\* A message joins the wire.
LEMMA FeedExtends ==
    ASSUME NEW l, NEW q \in Seq(WireMessage), NEW r, NEW d \in Seq(Turn), Leads(l, q, r, d),
           NEW m \in WireMessage, Made(r, m) \in Seq(Turn), Precedes(Made(r, m), d)
    PROVE  Leads(l, Append(q, m), Made(r, m), d)
<1>1. PICK c : IsFeed(c, l, q, r, d)
  BY DEF Leads
<1> DEFINE n == Len(q)
           p == Append(q, m)
           s == Made(r, m)
           b == [k \in 0..n + 1 |-> IF k <= n THEN c[k] ELSE s]
<1>2. n \in Nat /\ Len(p) = n + 1 /\ p[n + 1] = m /\ \A k \in 1..n : p[k] = q[k]
  OBVIOUS
<1>3. s \in Seq(Turn) /\ Precedes(s, d) /\ s = Made(r, m)
  OBVIOUS
<1>4. /\ \A k \in 0..n : c[k] \in Seq(Turn) /\ Precedes(c[k], d)
      /\ c[0] = l /\ c[n] = r /\ \A k \in 1..n : c[k] = Made(c[k - 1], q[k])
  BY <1>1 DEF IsFeed
<1> HIDE DEF p, s, n
<1>5. b \in [0..n + 1 -> Seq(Turn)] /\ b[n + 1] = s /\ \A k \in 0..n : b[k] = c[k]
  BY <1>2, <1>3, <1>4
<1> HIDE DEF b
<1>6. ASSUME NEW k \in 1..n + 1
      PROVE  b[k] = Made(b[k - 1], p[k])
  <2>1. CASE k = n + 1
    <3>1. b[k - 1] = r
      BY <1>2, <1>4, <1>5, <2>1
    <3> QED BY <1>2, <1>3, <1>5, <2>1, <3>1
  <2>2. CASE k # n + 1
    <3>1. k \in 1..n /\ k - 1 \in 0..n /\ k \in 0..n
      BY <1>2, <2>2
    <3> QED BY <1>2, <1>4, <1>5, <3>1
  <2> QED BY <2>1, <2>2
<1>7. ASSUME NEW k \in 0..n + 1
      PROVE  Precedes(b[k], d)
  <2>1. CASE k = n + 1
    BY <1>3, <1>5, <2>1
  <2>2. CASE k # n + 1
    <3>1. k \in 0..n
      BY <1>2, <2>2
    <3> QED BY <1>4, <1>5, <3>1
  <2> QED BY <2>1, <2>2
<1>8. b[0] = l
  <2>1. 0 \in 0..n
    BY <1>2
  <2> QED BY <1>4, <1>5, <2>1
<1>9. IsFeed(b, l, p, s, d)
  BY <1>2, <1>5, <1>6, <1>7, <1>8 DEF IsFeed
<1> QED BY <1>9 DEF Leads, p, s

\* The client reads the first message.
LEMMA FeedAdvances ==
    ASSUME NEW l, NEW q \in Seq(WireMessage), q # <<>>, NEW r, NEW d, Leads(l, q, r, d)
    PROVE  Leads(Made(l, Head(q)), Tail(q), r, d)
<1>1. PICK c : IsFeed(c, l, q, r, d)
  BY DEF Leads
<1> DEFINE n == Len(q)
           p == Tail(q)
           b == [k \in 0..n - 1 |-> c[k + 1]]
<1>2. n \in Nat /\ n # 0 /\ Len(p) = n - 1 /\ Head(q) = q[1] /\ \A k \in 1..n - 1 : p[k] = q[k + 1]
  BY EmptySeq
<1>3. /\ \A k \in 0..n : c[k] \in Seq(Turn) /\ Precedes(c[k], d)
      /\ c[0] = l /\ c[n] = r /\ \A k \in 1..n : c[k] = Made(c[k - 1], q[k])
  BY <1>1 DEF IsFeed
<1> HIDE DEF p, n
<1>4. \A k \in 0..n - 1 : k + 1 \in 0..n /\ k + 1 \in 1..n /\ (k + 1) - 1 = k
  BY <1>2
<1>5. b \in [0..n - 1 -> Seq(Turn)] /\ \A k \in 0..n - 1 : b[k] = c[k + 1]
  BY <1>3, <1>4
<1> HIDE DEF b
<1>6. b[0] = Made(l, Head(q)) /\ b[n - 1] = r
  <2>1. 0 \in 0..n - 1 /\ n - 1 \in 0..n - 1 /\ 0 + 1 = 1 /\ (n - 1) + 1 = n /\ 1 \in 1..n /\ 1 - 1 = 0
    BY <1>2
  <2>2. b[0] = c[1] /\ c[1] = Made(c[0], q[1])
    BY <1>3, <1>5, <2>1
  <2>3. b[n - 1] = c[n]
    BY <1>5, <2>1
  <2> QED BY <1>2, <1>3, <2>2, <2>3
<1>7. ASSUME NEW k \in 1..n - 1
      PROVE  b[k] = Made(b[k - 1], p[k])
  <2>1. k + 1 \in 1..n /\ (k + 1) - 1 = k /\ k - 1 \in 0..n - 1 /\ k \in 0..n - 1 /\ (k - 1) + 1 = k
    BY <1>2
  <2>2. b[k] = c[k + 1] /\ b[k - 1] = c[k] /\ p[k] = q[k + 1]
    BY <1>2, <1>5, <2>1
  <2>3. c[k + 1] = Made(c[k], q[k + 1])
    BY <1>3, <2>1
  <2> QED BY <2>2, <2>3
<1>8. \A k \in 0..n - 1 : Precedes(b[k], d)
  BY <1>3, <1>4, <1>5
<1>9. IsFeed(b, Made(l, Head(q)), p, r, d)
  BY <1>2, <1>5, <1>6, <1>7, <1>8 DEF IsFeed
<1> QED BY <1>9 DEF Leads, p

\* The driver takes a message and broadcasts it.
LEMMA HistoryExtends ==
    ASSUME NEW ev \in Seq(Events), NEW d \in Seq(Turn), NEW h, IsHistory(h, ev, d),
           NEW e \in Events, Taken(d, e) \in Seq(Turn), Precedes(d, Taken(d, e))
    PROVE  \E b : IsHistory(b, Append(ev, e), Taken(d, e)) /\ \A k \in 0..Len(ev) : b[k] = h[k]
<1> DEFINE n == Len(ev)
           p == Append(ev, e)
           s == Taken(d, e)
           b == [k \in 0..n + 1 |-> IF k <= n THEN h[k] ELSE s]
<1>1. n \in Nat /\ Len(p) = n + 1 /\ p[n + 1] = e /\ \A k \in 1..n : p[k] = ev[k]
  OBVIOUS
<1>2. s \in Seq(Turn) /\ Precedes(d, s) /\ s = Taken(d, e)
  OBVIOUS
<1>3. /\ \A k \in 0..n : h[k] \in Seq(Turn)
      /\ h[n] = d /\ \A k \in 1..n : h[k] = Taken(h[k - 1], ev[k])
      /\ \A j, k \in 0..n : j <= k => Precedes(h[j], h[k])
  BY DEF IsHistory
<1> HIDE DEF p, s, n
<1>4. b \in [0..n + 1 -> Seq(Turn)] /\ b[n + 1] = s /\ \A k \in 0..n : b[k] = h[k]
  BY <1>1, <1>2, <1>3
<1> HIDE DEF b
<1>5. ASSUME NEW k \in 1..n + 1
      PROVE  b[k] = Taken(b[k - 1], p[k])
  <2>1. CASE k = n + 1
    <3>1. b[k - 1] = d
      BY <1>1, <1>3, <1>4, <2>1
    <3> QED BY <1>1, <1>2, <1>4, <2>1, <3>1
  <2>2. CASE k # n + 1
    <3>1. k \in 1..n /\ k - 1 \in 0..n /\ k \in 0..n
      BY <1>1, <2>2
    <3> QED BY <1>1, <1>3, <1>4, <3>1
  <2> QED BY <2>1, <2>2
<1>6. ASSUME NEW j \in 0..n + 1, NEW k \in 0..n + 1, j <= k
      PROVE  Precedes(b[j], b[k])
  <2>1. CASE k # n + 1
    <3>1. j \in 0..n /\ k \in 0..n
      BY <1>1, <1>6, <2>1
    <3> QED BY <1>3, <1>4, <1>6, <3>1
  <2>2. CASE k = n + 1 /\ j # n + 1
    <3>1. j \in 0..n /\ n \in 0..n /\ j <= n
      BY <1>1, <2>2
    <3>2. Precedes(h[j], d) /\ h[j] \in Seq(Turn)
      BY <1>3, <3>1
    <3>3. Precedes(h[j], s)
      BY <1>2, <3>2, PrecedesTransitive
    <3> QED BY <1>4, <2>2, <3>1, <3>3
  <2>3. CASE j = n + 1 /\ k = n + 1
    BY <1>2, <1>4, <2>3, PrecedesReflexive
  <2> QED BY <2>1, <2>2, <2>3
<1>7. IsHistory(b, p, s)
  BY <1>1, <1>4, <1>5, <1>6 DEF IsHistory
<1> QED BY <1>4, <1>7 DEF p, s, n

\* A list that holds some state no older than the one before event p becomes, with
\* p, a state no older than the one after it: a whole conversation replaces it, and
\* of an update only the turns that are missing are taken.
LEMMA Reads ==
    ASSUME NEW ev \in Seq(Events), NEW d \in Seq(Turn), NEW h, IsHistory(h, ev, d), Numbered(d),
           NEW p \in 1..Len(ev), NEW j \in 0..Len(ev), p - 1 <= j
    PROVE  \E k \in 0..Len(ev) : p <= k /\ Made(h[j], ev[p]) = h[k]
<1>1. /\ Len(ev) \in Nat /\ p \in 0..Len(ev) /\ p - 1 \in 0..Len(ev) /\ Len(ev) \in 0..Len(ev) /\ p <= Len(ev)
  OBVIOUS
<1>2. /\ \A k \in 0..Len(ev) : h[k] \in Seq(Turn)
      /\ h[Len(ev)] = d /\ h[p] = Taken(h[p - 1], ev[p])
      /\ \A i, k \in 0..Len(ev) : i <= k => Precedes(h[i], h[k])
  BY DEF IsHistory
<1>3. ev[p] \in Events
  OBVIOUS
<1>4. ev[p].kind \in {"full", "update"} /\ ev[p].turns \in Seq(Turn)
  BY <1>3 DEF Events
<1> DEFINE e == ev[p]
           a == h[p - 1]
           b == h[p]
           l == h[j]
<1>5. a \in Seq(Turn) /\ b \in Seq(Turn) /\ l \in Seq(Turn) /\ b = Taken(a, e)
  BY <1>1, <1>2
<1>6. Numbered(b) /\ (p <= j => Precedes(b, l))
  <2>1. Precedes(b, d)
    BY <1>1, <1>2
  <2>2. p <= j => Precedes(b, l)
    BY <1>1, <1>2
  <2> HIDE DEF b, l
  <2> QED BY <1>5, <2>1, <2>2, PrecedesNumbered
<1>7. j = p - 1 => l = a
  OBVIOUS
<1>8. Numbered(l)
  <2>1. Precedes(l, d)
    BY <1>1, <1>2
  <2> HIDE DEF l
  <2> QED BY <1>5, <2>1, PrecedesNumbered
<1>9. e.kind \in {"full", "update"} /\ e.turns \in Seq(Turn)
  BY <1>4
<1> HIDE DEF e, a, b, l
<1>10. CASE e.kind = "full"
  <2>1. Made(l, e) = b
    BY <1>5, <1>10 DEF Made, Taken
  <2> QED BY <1>1, <2>1 DEF l, e, b
<1>11. CASE e.kind = "update"
  <2>1. Made(l, e) = Extended(l, e.turns) /\ b = a \o e.turns
    BY <1>5, <1>11 DEF Made, Taken
  <2>2. \A i \in 1..Len(e.turns) : e.turns[i].id = Len(a) + i
    BY <1>5, <1>6, <1>9, <2>1, TailNumbered
  <2>3. Len(a) \in Nat /\ DOMAIN e.turns = 1..Len(e.turns) /\ DOMAIN l = 1..Len(l) /\ Len(l) \in Nat
        /\ Len(e.turns) \in Nat /\ Len(b) = Len(a) + Len(e.turns)
    BY <1>5, <1>9, <2>1
  <2>4. CASE j = p - 1
    <3>1. l = a
      BY <1>7, <2>4
    <3>2. Missing(l, e.turns) = DOMAIN e.turns
      <4>1. ASSUME NEW i \in DOMAIN e.turns, NEW k \in DOMAIN l PROVE l[k].id # e.turns[i].id
        <5>1. e.turns[i].id = Len(a) + i /\ l[k].id = k
          BY <1>8, <2>2, <2>3 DEF Numbered
        <5> QED BY <2>3, <3>1, <5>1
      <4> QED BY <4>1 DEF Missing
    <3>3. Made(l, e) = b
      BY <1>5, <1>9, <2>1, <3>1, <3>2, ExtendedFacts
    <3> QED BY <1>1, <3>3 DEF l, e, b
  <2>5. CASE p <= j
    <3>1. Len(b) <= Len(l)
      BY <1>6, <2>5 DEF Precedes, DriverCopy!Precedes
    <3>2. Missing(l, e.turns) = {}
      <4>1. ASSUME NEW i \in DOMAIN e.turns PROVE \E k \in DOMAIN l : l[k].id = e.turns[i].id
        <5>1. Len(a) + i \in DOMAIN l /\ e.turns[i].id = Len(a) + i
          BY <2>2, <2>3, <3>1
        <5>2. l[Len(a) + i].id = Len(a) + i
          BY <1>8, <5>1 DEF Numbered
        <5> QED BY <5>1, <5>2
      <4> QED BY <4>1 DEF Missing
    <3>3. Made(l, e) = l
      BY <1>5, <1>9, <2>1, <3>2, ExtendedFacts
    <3> QED BY <2>5, <3>3 DEF l, e
  <2>6. j = p - 1 \/ p <= j
    OBVIOUS
  <2> QED BY <2>4, <2>5, <2>6
<1> QED BY <1>9, <1>10, <1>11

\* A receiver is never beyond what has been broadcast.
LEMMA PosNext ==
    ASSUME SyncInv, PosInv, [Next]_vars
    PROVE  PosInv'
<1>0. ServerTypeOK /\ TasksTyped
  BY TypeParts DEF SyncInv
<1>1. events \in Seq(Events) /\ Len(events) \in Nat /\ pc \in [Gens -> {"unborn", "ack", "subscribe", "snapshot", "loop", "send", "done"}] /\ pos \in [Gens -> Nat]
  BY <1>0 DEF ServerTypeOK, TasksTyped
<1>2. Oldest \in 1..(Len(events) + 1)
  BY <1>1, ClientAssumption DEF Oldest
<1>3. CASE Server \/ UNCHANGED vars
  <2>1. UNCHANGED <<pc, pos>>
    BY <1>3 DEF Server, taskVars, vars
  <2>2. events' = events \/ \E e \in Events : events' = Append(events, e)
    BY <1>3, TakeEvent DEF SyncInv, Server, ServerNext, WriteTurn, WriteResult, Write, InitialPoll, InitialPollFails, Poll, SendSignal, vars, serverVars
  <2>3. Len(events') \in Nat /\ Len(events) <= Len(events')
    BY <1>1, <2>2
  <2> QED BY <1>1, <2>1, <2>3 DEF PosInv
<1>4. ASSUME NEW g \in Gens, Focus(g) \/ Task(g)
      PROVE  PosInv'
  <2>1. events' = events
    BY <1>4 DEF Focus, Task, SendAck, Subscribe, Snapshot, Receive, Lag, Send, Stop, serverVars
  <2>2. CASE Focus(g) \/ SendAck(g)
    BY <1>1, <2>1, <2>2 DEF PosInv, Focus, SendAck
  <2>3. CASE Subscribe(g)
    BY <1>1, <2>1, <2>3 DEF PosInv, Subscribe
  <2>4. CASE Snapshot(g) \/ Send(g)
    BY <1>1, <2>1, <2>4 DEF PosInv, Snapshot, Send
  <2>5. CASE Receive(g)
    BY <1>1, <1>2, <2>1, <2>5 DEF PosInv, Receive
  <2>6. CASE Lag(g)
    BY <1>1, <1>2, <2>1, <2>6 DEF PosInv, Lag
  <2>7. CASE Stop(g)
    BY <1>1, <2>1, <2>7 DEF PosInv, Stop
  <2> QED BY <1>4, <2>2, <2>3, <2>4, <2>5, <2>6, <2>7 DEF Task
<1>5. CASE FocusOther \/ Ask \/ (\E a \in Asks : Lookup(a) \/ Answer(a)) \/ Deliver
  <2>1. UNCHANGED <<pc, pos, events>>
    BY <1>5 DEF FocusOther, Ask, Lookup, Answer, Deliver, taskVars, serverVars
  <2> QED BY <2>1 DEF PosInv
<1>6. CASE Disconnect \/ Timeout
  BY <1>1, <1>6 DEF Disconnect, Timeout, Lost, Alive, PosInv
<1> QED BY <1>3, <1>4, <1>5, <1>6 DEF Next

\* What a step that leaves the server alone has to keep.
LEMMA SameServer ==
    ASSUME FollowInv, PosInv', UNCHANGED <<events, driver>>,
           \A h : IsHistory(h, events, driver) /\ Followed(h) => Followed(h)'
    PROVE  FollowInv'
<1>1. PICK h : IsHistory(h, events, driver) /\ Followed(h)
  BY DEF FollowInv
<1>2. Followed(h)' /\ IsHistory(h, events', driver')
  BY <1>1
<1> QED BY <1>2 DEF FollowInv

LEMMA FollowInit == Init => FollowInv
<1> SUFFICES ASSUME Init PROVE FollowInv
  OBVIOUS
<1>1. PosInv
  BY DEF Init, PosInv
<1> DEFINE h == [k \in 0..0 |-> <<>>]
<1>2. <<>> \in Seq(Turn) /\ Precedes(<<>>, <<>>)
  <2>1. <<>> \in Seq(Turn)
    BY EmptySeq
  <2> QED BY <2>1, PrecedesReflexive
<1>3. events = <<>> /\ driver = <<>> /\ Len(events) = 0 /\ shown = <<>> /\ wire = <<>>
  BY DEF Init, ServerInit
<1>4. IsHistory(h, events, driver)
  BY <1>2, <1>3 DEF IsHistory
<1>5. Alive = {} /\ \A a \in Asks : sync[a].phase = "none"
  BY DEF Init, Alive, Idle
<1>6. Leads(shown, wire, <<>>, driver)
  BY <1>2, <1>3, FeedEmpty
<1>7. \A g \in Gens : pc[g] = "unborn"
  BY DEF Init
<1>8. Followed(h)
  BY <1>5, <1>6, <1>7 DEF Followed, Caught
<1> QED BY <1>1, <1>4, <1>8 DEF FollowInv

\* The server's steps.
LEMMA FollowServer ==
    ASSUME SyncInv, FollowInv, PosInv', Server
    PROVE  FollowInv'
<1>1. PICK h : IsHistory(h, events, driver) /\ Followed(h)
  BY DEF FollowInv
<1>2. UNCHANGED <<pc, pos, carry, sync, wire, shown, raced>>
  BY DEF Server, taskVars, syncVars, clientVars
<1>3. events \in Seq(Events) /\ driver \in Seq(Turn) /\ wire \in Seq(WireMessage) /\ Len(events) \in Nat
  BY DriverNumbered DEF SyncInv, ServerInv, ServerTypeOK, TypeOK
<1>4. CASE TakeSignal
  <2>1. driver' \in Seq(Turn) /\ Precedes(driver, driver')
    BY <1>4, TakeEvent DEF SyncInv
  <2>2. PICK e \in Events : events' = Append(events, e) /\ driver' = Taken(driver, e)
    BY <1>4, TakeEvent DEF SyncInv, Taken
  <2>3. PICK b : IsHistory(b, Append(events, e), Taken(driver, e)) /\ \A k \in 0..Len(events) : b[k] = h[k]
    BY <1>1, <1>3, <2>1, <2>2, HistoryExtends
  <2>4. IsHistory(b, events', driver')
    BY <2>2, <2>3
  <2>5. Len(events') = Len(events) + 1 /\ \A k \in 0..Len(events) : k \in 0..Len(events')
    BY <1>3, <2>2
  <2>6. Followed(b)'
    <3> SUFFICES ASSUME ~raced
                 PROVE  /\ \A f, g \in Alive' : f = g
                        /\ \A a \in Asks : sync'[a].phase = "none"
                        /\ \E r : Leads(shown', wire', r, driver') /\ \A g \in Gens : Caught(g, b, r)'
      BY <1>2 DEF Followed
    <3>1. Alive' = Alive
      BY <1>2 DEF Alive
    <3>2. PICK r : Leads(shown, wire, r, driver) /\ \A g \in Gens : Caught(g, h, r)
      BY <1>1 DEF Followed
    <3>3. Leads(shown', wire', r, driver')
      <4>1. Leads(shown, wire, r, driver')
        BY <1>3, <2>1, <3>2, FeedGrows
      <4> QED BY <1>2, <4>1
    <3>4. ASSUME NEW g \in Gens PROVE Caught(g, b, r)'
      BY <1>2, <2>3, <2>5, <3>2 DEF Caught
    <3> QED BY <1>1, <1>2, <3>1, <3>3, <3>4 DEF Followed
  <2> QED BY <2>4, <2>6 DEF FollowInv
<1>5. CASE ~TakeSignal
  <2>1. UNCHANGED <<events, driver>>
    BY <1>5 DEF Server, ServerNext, WriteTurn, WriteResult, Write, InitialPoll, InitialPollFails, Poll, SendSignal
  <2>2. Followed(h)'
    BY <1>1, <1>2, <2>1 DEF Followed, Caught, Alive
  <2>3. IsHistory(h, events', driver')
    BY <1>1, <2>1
  <2> QED BY <2>2, <2>3 DEF FollowInv
<1> QED BY <1>4, <1>5

\* A new focus, and what shows that two senders are at work.
LEMMA FollowFocus ==
    ASSUME SyncInv, FollowInv, PosInv',
           \/ \E g \in Gens : Focus(g)
           \/ FocusOther \/ Ask
           \/ \E a \in Asks : Lookup(a) \/ Answer(a)
    PROVE  FollowInv'
<1>0. TasksTyped /\ SyncTyped
  BY TypeParts DEF SyncInv
<1>1. UNCHANGED <<events, driver>>
  BY DEF Focus, FocusOther, Ask, Lookup, Answer, serverVars
<1>2. ASSUME NEW h, Followed(h)
      PROVE  Followed(h)'
  <2>1. ASSUME NEW g \in Gens, Focus(g)
        PROVE  Followed(h)'
    <3> SUFFICES ASSUME ~raced'
                 PROVE  /\ \A f, k \in Alive' : f = k
                        /\ \A a \in Asks : sync'[a].phase = "none"
                        /\ \E r : Leads(shown', wire', r, driver') /\ \A k \in Gens : Caught(k, h, r)'
      BY DEF Followed
    <3>1. ~raced /\ Alive = {} /\ UNCHANGED <<shown, wire, sync, driver>> /\ pc' = [pc EXCEPT ![g] = "ack"]
      BY <2>1 DEF Focus, serverVars, syncVars
    <3>2. \A k \in Gens : k # g => pc'[k] \in {"unborn", "done"}
      BY <1>0, <3>1 DEF TasksTyped, Alive
    <3>3. \A f, k \in Alive' : f = k
      BY <3>2 DEF Alive
    <3>4. \A k \in Gens : pc'[k] \notin {"loop", "send"}
      BY <1>0, <3>1, <3>2 DEF TasksTyped
    <3>5. \A r : \A k \in Gens : Caught(k, h, r)'
      BY <3>4 DEF Caught
    <3>6. \E r : Leads(shown', wire', r, driver')
      BY <1>2, <3>1 DEF Followed
    <3>7. \A a \in Asks : sync'[a].phase = "none"
      BY <1>2, <3>1 DEF Followed
    <3> QED BY <3>3, <3>5, <3>6, <3>7
  <2>2. CASE FocusOther
    BY <1>1, <1>2, <2>2 DEF FocusOther, Followed, Caught, Alive, taskVars, syncVars, clientVars
  <2>3. CASE Ask
    BY <2>3 DEF Ask, Followed
  <2>4. ASSUME NEW a \in Asks, Lookup(a) \/ Answer(a)
        PROVE  Followed(h)'
    <3>1. raced' = raced /\ sync[a].phase # "none"
      BY <2>4 DEF Lookup, Answer, clientVars
    <3> QED BY <1>2, <3>1 DEF Followed
  <2> QED BY <2>1, <2>2, <2>3, <2>4
<1> QED BY <1>1, <1>2, SameServer

\* The steps of the task in focus.
LEMMA FollowTask ==
    ASSUME SyncInv, FollowInv, PosInv', NEW g \in Gens, Task(g)
    PROVE  FollowInv'
<1>0. TasksTyped /\ ClientTyped
  BY TypeParts DEF SyncInv
<1>1. UNCHANGED <<events, driver, shown, raced, sync>>
  BY DEF Task, SendAck, Subscribe, Snapshot, Receive, Lag, Send, Stop, serverVars, syncVars, clientVars
<1>2. /\ events \in Seq(Events) /\ Len(events) \in Nat /\ driver \in Seq(Turn) /\ Numbered(driver)
      /\ wire \in Seq(WireMessage) /\ carry \in [Gens -> WireMessage] /\ pos \in [Gens -> Nat]
      /\ pc \in [Gens -> {"unborn", "ack", "subscribe", "snapshot", "loop", "send", "done"}]
  BY <1>0, DriverNumbered DEF SyncInv, ServerInv, ServerTypeOK, TasksTyped, ClientTyped
<1>3. pc[g] \notin {"unborn", "done"} /\ \A k \in Gens : k # g => pc'[k] = pc[k]
  BY <1>2 DEF Task, SendAck, Subscribe, Snapshot, Receive, Lag, Send, Stop
<1>4. ASSUME NEW h, IsHistory(h, events, driver), Followed(h)
      PROVE  Followed(h)'
  <2> SUFFICES ASSUME ~raced
               PROVE  /\ \A f, k \in Alive' : f = k
                      /\ \A a \in Asks : sync'[a].phase = "none"
                      /\ \E r : Leads(shown', wire', r, driver') /\ \A k \in Gens : Caught(k, h, r)'
    BY <1>1 DEF Followed
  <2>1. /\ \A f, k \in Alive : f = k
        /\ \A a \in Asks : sync[a].phase = "none"
    BY <1>4 DEF Followed
  <2>2. g \in Alive /\ Alive' \subseteq Alive
    BY <1>3 DEF Alive
  <2>3. \A k \in Gens : k # g => pc'[k] \in {"unborn", "done"}
    BY <1>2, <1>3, <2>1, <2>2 DEF Alive
  <2>4. \A r : \A k \in Gens : k # g => Caught(k, h, r)'
    BY <2>3 DEF Caught
  <2>5. PICK r : Leads(shown, wire, r, driver) /\ \A k \in Gens : Caught(k, h, r)
    BY <1>4 DEF Followed
  <2>6. r \in Seq(Turn) /\ Precedes(r, driver)
    BY <1>2, <2>5, FeedEnds
  <2>7. /\ \A k \in 0..Len(events) : h[k] \in Seq(Turn) /\ Precedes(h[k], driver)
        /\ h[Len(events)] = driver
    <3>1. Len(events) \in 0..Len(events) /\ \A k \in 0..Len(events) : k <= Len(events)
      BY <1>2
    <3> QED BY <1>4, <3>1 DEF IsHistory
  <2>8. \E s : Leads(shown', wire', s, driver') /\ Caught(g, h, s)'
    <3>1. CASE SendAck(g)
      <4>1. Made(r, Ack) = r
        BY <2>6, MadeFacts, EmptyFacts
      <4>2. Leads(shown, Append(wire, Ack), r, driver)
        BY <1>2, <2>5, <2>6, <4>1, EmptyFacts, FeedExtends
      <4>3. Leads(shown', wire', r, driver')
        BY <1>1, <3>1, <4>2 DEF SendAck
      <4>4. Caught(g, h, r)'
        BY <1>2, <3>1 DEF SendAck, Caught
      <4> QED BY <4>3, <4>4
    <3>2. CASE Subscribe(g) \/ Lag(g) \/ Stop(g)
      <4>1. wire' = wire /\ pc'[g] \notin {"loop", "send"}
        BY <1>2, <3>2 DEF Subscribe, Lag, AfterLag, Stop, clientVars
      <4>2. Caught(g, h, r)'
        BY <4>1 DEF Caught
      <4> QED BY <1>1, <2>5, <4>1, <4>2
    <3>3. CASE Snapshot(g)
      <4>1. wire' = wire /\ pos' = pos /\ pos[g] - 1 <= Len(events)
        BY <1>2, <3>3 DEF Snapshot, FollowInv, PosInv, clientVars
      <4>2. CASE driver = <<>>
        <5>1. pc'[g] = "loop"
          BY <1>2, <3>3, <4>2 DEF Snapshot
        <5>2. r = driver
          <6>1. Len(r) = 0
            BY <2>6, <4>2 DEF Precedes, DriverCopy!Precedes
          <6> QED BY <2>6, <4>2, <6>1
        <5>3. Len(events) \in 0..Len(events)
          BY <1>2
        <5>4. Caught(g, h, r)'
          BY <1>1, <2>7, <4>1, <5>1, <5>2, <5>3 DEF Caught
        <5> QED BY <1>1, <2>5, <4>1, <5>4
      <4>3. CASE driver # <<>>
        <5>1. pc'[g] = "send" /\ carry'[g] = Full(driver)
          BY <1>2, <3>3, <4>3 DEF Snapshot
        <5>2. Made(r, Full(driver)) = driver
          BY DEF Made, Full
        <5>3. Len(events) \in 0..Len(events)
          BY <1>2
        <5>4. Caught(g, h, r)'
          BY <1>1, <2>7, <4>1, <5>1, <5>2, <5>3 DEF Caught
        <5> QED BY <1>1, <2>5, <4>1, <5>4
      <4> QED BY <4>2, <4>3
    <3>4. CASE Receive(g)
      <4>1. wire' = wire /\ pc'[g] = "send" /\ carry'[g] = events[pos[g]] /\ pos'[g] = pos[g] + 1
        BY <1>2, <3>4 DEF Receive, clientVars
      <4>2. pos[g] \in 1..Len(events)
        BY <1>2, <3>4, ClientAssumption DEF Receive, Oldest
      <4>3. PICK j \in 0..Len(events) : pos[g] - 1 <= j /\ r = h[j]
        BY <2>5, <3>4 DEF Receive, Caught
      <4>4. PICK k \in 0..Len(events) : pos[g] <= k /\ Made(h[j], events[pos[g]]) = h[k]
        <5> DEFINE p == pos[g]
        <5>1. p \in 1..Len(events) /\ p - 1 <= j
          BY <4>2, <4>3
        <5> HIDE DEF p
        <5>2. \E k \in 0..Len(events) : p <= k /\ Made(h[j], events[p]) = h[k]
          BY <1>2, <1>4, <5>1, Reads
        <5> QED BY <5>2 DEF p
      <4>5. pos'[g] - 1 <= k
        BY <1>2, <4>1, <4>4
      <4>6. Caught(g, h, r)'
        BY <1>1, <4>1, <4>3, <4>4, <4>5 DEF Caught
      <4> QED BY <1>1, <2>5, <4>1, <4>6
    <3>5. CASE Send(g)
      <4>1. wire' = Append(wire, carry[g]) /\ pc'[g] = "loop" /\ pos' = pos /\ carry[g] \in WireMessage
        BY <1>2, <3>5 DEF Send
      <4>2. PICK j \in 0..Len(events) : pos[g] - 1 <= j /\ Made(r, carry[g]) = h[j]
        BY <2>5, <3>5 DEF Send, Caught
      <4>3. Made(r, carry[g]) \in Seq(Turn) /\ Precedes(Made(r, carry[g]), driver)
        BY <2>7, <4>2
      <4>4. Leads(shown, Append(wire, carry[g]), Made(r, carry[g]), driver)
        BY <1>2, <2>5, <4>1, <4>3, FeedExtends
      <4>5. Caught(g, h, h[j])'
        BY <1>1, <4>1, <4>2 DEF Caught
      <4>6. Leads(shown', wire', h[j], driver')
        BY <1>1, <4>1, <4>2, <4>4
      <4> QED BY <4>5, <4>6
    <3> QED BY <3>1, <3>2, <3>3, <3>4, <3>5 DEF Task
  <2>9. \A f, k \in Alive' : f = k
    BY <2>1, <2>2
  <2> QED BY <1>1, <2>1, <2>4, <2>8, <2>9
<1> QED BY <1>1, <1>4, SameServer

\* The client reads a message, or loses its connection.
LEMMA FollowClient ==
    ASSUME SyncInv, FollowInv, PosInv', Deliver \/ Disconnect \/ Timeout
    PROVE  FollowInv'
<1>0. TasksTyped /\ ClientTyped
  BY TypeParts DEF SyncInv
<1>1. UNCHANGED <<events, driver, raced>>
  BY DEF Deliver, Disconnect, Timeout, Lost, serverVars
<1>2. /\ driver \in Seq(Turn) /\ wire \in Seq(WireMessage)
      /\ pc \in [Gens -> {"unborn", "ack", "subscribe", "snapshot", "loop", "send", "done"}]
  BY <1>0, DriverNumbered DEF SyncInv, TasksTyped, ClientTyped
<1>3. ASSUME NEW h, Followed(h)
      PROVE  Followed(h)'
  <2> SUFFICES ASSUME ~raced
               PROVE  /\ \A f, k \in Alive' : f = k
                      /\ \A a \in Asks : sync'[a].phase = "none"
                      /\ \E r : Leads(shown', wire', r, driver') /\ \A k \in Gens : Caught(k, h, r)'
    BY <1>1 DEF Followed
  <2>1. /\ \A f, k \in Alive : f = k
        /\ \A a \in Asks : sync[a].phase = "none"
    BY <1>3 DEF Followed
  <2>2. PICK r : Leads(shown, wire, r, driver) /\ \A k \in Gens : Caught(k, h, r)
    BY <1>3 DEF Followed
  <2>3. CASE Deliver
    <3>1. wire # <<>> /\ wire' = Tail(wire) /\ shown' = Made(shown, Head(wire)) /\ UNCHANGED <<pc, pos, carry, sync>>
      BY <2>3 DEF Deliver, Shown, Made, taskVars, syncVars
    <3>2. Leads(Made(shown, Head(wire)), Tail(wire), r, driver)
      BY <1>2, <2>2, <3>1, FeedAdvances
    <3>3. \A k \in Gens : Caught(k, h, r)'
      BY <1>1, <2>2, <3>1 DEF Caught
    <3>4. Alive' = Alive
      BY <3>1 DEF Alive
    <3>5. Leads(shown', wire', r, driver')
      BY <1>1, <3>1, <3>2
    <3> QED BY <2>1, <3>1, <3>3, <3>4, <3>5
  <2>4. CASE Lost
    <3>1. wire' = <<>> /\ shown' = shown /\ \A k \in Gens : pc'[k] = IF k \in Alive THEN "done" ELSE pc[k]
      BY <2>4 DEF Lost
    <3>2. \A k \in Gens : pc'[k] \in {"unborn", "done"}
      BY <1>2, <3>1 DEF Alive
    <3>3. Alive' = {}
      BY <3>2 DEF Alive
    <3>4. \A a \in Asks : sync'[a].phase = "none"
      BY <2>4 DEF Lost, Idle
    <3>5. shown \in Seq(Turn) /\ Precedes(shown, driver)
      BY <1>2, <2>2, FeedEnds
    <3>6. Leads(shown', wire', shown, driver')
      BY <1>1, <1>2, <3>1, <3>5, FeedEmpty
    <3>7. \A k \in Gens : pc'[k] \notin {"loop", "send"}
      BY <3>2
    <3>8. \A s : \A k \in Gens : Caught(k, h, s)'
      BY <3>7 DEF Caught
    <3> QED BY <3>3, <3>4, <3>6, <3>8
  <2> QED BY <2>3, <2>4 DEF Disconnect, Timeout
<1> QED BY <1>1, <1>3, SameServer

LEMMA FollowNext == SyncInv /\ FollowInv /\ [Next]_vars => FollowInv'
<1> SUFFICES ASSUME SyncInv, FollowInv, [Next]_vars PROVE FollowInv'
  OBVIOUS
<1>1. PosInv'
  BY PosNext DEF FollowInv
<1>2. CASE UNCHANGED vars
  <2>1. UNCHANGED <<events, driver, pc, pos, carry, sync, wire, shown, raced>>
    BY <1>2 DEF vars, serverVars, taskVars, syncVars, clientVars
  <2>2. \A h : Followed(h) => Followed(h)'
    BY <2>1 DEF Followed, Caught, Alive
  <2> QED BY <1>1, <2>1, <2>2, SameServer
<1>3. CASE Next
  BY <1>1, <1>3, FollowServer, FollowFocus, FollowTask, FollowClient DEF Next
<1> QED BY <1>2, <1>3

\* While one sender feeds it, the client's list is an earlier state of the driver's.
InPlace == ~raced => shown \in Seq(Turn) /\ Precedes(shown, driver)

LEMMA FollowShown == SyncInv /\ FollowInv => InPlace
<1> SUFFICES ASSUME SyncInv, FollowInv, ~raced PROVE shown \in Seq(Turn) /\ Precedes(shown, driver)
  BY DEF InPlace
<1>1. wire \in Seq(WireMessage)
  BY TypeParts DEF SyncInv, ClientTyped
<1>2. \E r : Leads(shown, wire, r, driver)
  BY DEF FollowInv, Followed
<1> QED BY <1>1, <1>2, FeedEnds

\* Each step lets the driver's copy grow, or shows some earlier state of it.
LEMMA FollowStep ==
    ASSUME SyncInv, InPlace', [Next]_vars
    PROVE  [ClientCopy!Next]_<<driver, IF raced THEN <<>> ELSE shown>>
<1> DEFINE list == IF raced THEN <<>> ELSE shown
<1>1. \A a, b : Precedes(a, b) <=> ClientCopy!Precedes(a, b)
  BY DEF Precedes, DriverCopy!Precedes, ClientCopy!Precedes
<1>2. CASE driver' = driver
  <2>1. driver \in Seq(Turn) /\ <<>> \in Seq(Turn)
    BY DriverNumbered, EmptySeq DEF SyncInv
  <2>2. list' \in Seq(Turn) /\ Precedes(list', driver)
    <3>1. CASE raced'
      <4>1. list' = <<>>
        BY <3>1
      <4>2. Precedes(<<>>, driver)
        BY <2>1 DEF Precedes, DriverCopy!Precedes
      <4> QED BY <2>1, <4>1, <4>2
    <3>2. CASE ~raced'
      <4>1. shown' \in Seq(Turn) /\ Precedes(shown', driver')
        BY <3>2 DEF InPlace
      <4> QED BY <1>2, <3>2, <4>1
    <3> QED BY <3>1, <3>2
  <2> QED BY <1>1, <1>2, <2>2 DEF ClientCopy!Next, ClientCopy!Show
<1>3. CASE driver' # driver
  <2>1. Server /\ TakeSignal
    <3>1. ~UNCHANGED serverVars
      BY <1>3 DEF serverVars
    <3>2. Server
      BY <3>1 DEF Next, vars, Focus, Task, SendAck, Subscribe, Snapshot, Receive, Lag, Send, Stop,
                  FocusOther, Ask, Lookup, Answer, Deliver, Disconnect, Timeout, Lost
    <3> QED BY <1>3, <3>2 DEF Server, ServerNext, WriteTurn, WriteResult, Write, InitialPoll, InitialPollFails, Poll, SendSignal
  <2>2. driver' \in Seq(Turn) /\ Precedes(driver, driver')
    BY <2>1, TakeEvent DEF SyncInv
  <2>3. list' = list
    BY <2>1 DEF Server, clientVars
  <2> QED BY <1>1, <2>2, <2>3 DEF ClientCopy!Next, ClientCopy!Grow
<1> QED BY <1>2, <1>3

\* Fed by one sender at a time, the client's list implements a late copy of the
\* driver's: no gap and no turn out of place, across lags, reconnects and the
\* overlap of snapshot and subscription (ws/focus.rs, stores/instances.ts).
THEOREM ClientFollowsCorrect == Spec => ClientFollows
<1>1. Init => ClientCopy!Init
  BY DEF Init, ServerInit, ClientCopy!Init
<1>2. Spec => []InPlace
  <2>1. Init => FollowInv
    BY FollowInit
  <2>2. SyncInv /\ FollowInv /\ [Next]_vars => FollowInv'
    BY FollowNext
  <2> QED BY <2>1, <2>2, SyncInvCorrect, FollowShown, PTL DEF Spec
<1>3. SyncInv /\ InPlace' /\ [Next]_vars => [ClientCopy!Next]_<<driver, IF raced THEN <<>> ELSE shown>>
  BY FollowStep
<1> QED
  BY <1>1, <1>2, <1>3, SyncInvCorrect, PTL DEF Spec, ClientFollows, ClientCopy!Spec

-----------------------------------------------------------------------------
(* The watcher's turns do not depend on how the log is split over polls.       *)

\* The log: no entry twice, turns in their order, a result after its turn.
LogInv ==
    /\ \A p, q \in DOMAIN log : p # q => log[p] # log[q]
    /\ \A p \in DOMAIN log, n \in 1..MaxTurns :
        log[p] = TurnEntry(n) => \A k \in 1..(n - 1) : \E q \in 1..(p - 1) : log[q] = TurnEntry(k)
    /\ \A p \in DOMAIN log, n \in 1..MaxTurns, t \in Tools :
        log[p] = ResultEntry(n, t) => \E q \in 1..(p - 1) : log[q] = TurnEntry(n)

\* The turns in a set of entries, and the results there of turn n.
TurnsIn(S) == {n \in 1..MaxTurns : TurnEntry(n) \in S}
ResultsIn(S, n) == {t \in Tools : ResultEntry(n, t) \in S}

LEMMA EntryKinds ==
    /\ \A n, k \in 1..MaxTurns : TurnEntry(n) = TurnEntry(k) => n = k
    /\ \A n, k \in 1..MaxTurns, t \in Tools : TurnEntry(n) # ResultEntry(k, t)
    /\ \A n, k \in 1..MaxTurns, t, u \in Tools : ResultEntry(n, t) = ResultEntry(k, u) => n = k
BY DEF TurnEntry, ResultEntry

LEMMA LogGrows ==
    ASSUME log \in Seq(Entry), LogInv, NEW e \in Entry, Write(e),
           \A n \in 1..MaxTurns : e = TurnEntry(n) => \A k \in 1..(n - 1) : TurnEntry(k) \in Written,
           \A n \in 1..MaxTurns, t \in Tools : e = ResultEntry(n, t) => TurnEntry(n) \in Written
    PROVE  LogInv'
<1> DEFINE top == Len(log)
<1>1. /\ log' = Append(log, e) /\ top \in Nat /\ DOMAIN log = 1..top /\ DOMAIN log' = 1..(top + 1)
      /\ log'[top + 1] = e /\ \A p \in 1..top : log'[p] = log[p]
  BY DEF Write
<1>2. \A p \in 1..top : log[p] # e
  BY <1>1 DEF Write, Written
<1>3. \A x : x \in Written => \E q \in 1..top : log'[q] = x
  BY <1>1 DEF Written
<1> HIDE DEF top
<1>4. \A p \in 1..(top + 1) : p = top + 1 \/ p \in 1..top
  BY <1>1
<1>5. \A p, q \in DOMAIN log' : p # q => log'[p] # log'[q]
  BY <1>1, <1>2, <1>4 DEF LogInv
<1>6. ASSUME NEW p \in DOMAIN log', NEW n \in 1..MaxTurns, log'[p] = TurnEntry(n), NEW k \in 1..(n - 1)
      PROVE  \E q \in 1..(p - 1) : log'[q] = TurnEntry(k)
  <2>1. CASE p = top + 1
    <3>1. TurnEntry(k) \in Written
      BY <1>1, <1>6, <2>1
    <3>2. top = p - 1
      BY <1>1, <2>1
    <3> QED BY <1>3, <3>1, <3>2
  <2>2. CASE p \in 1..top
    <3>1. PICK q \in 1..(p - 1) : log[q] = TurnEntry(k)
      BY <1>1, <1>6, <2>2 DEF LogInv
    <3>2. q \in 1..top
      BY <1>1, <2>2
    <3> QED BY <1>1, <3>1, <3>2
  <2> QED BY <1>1, <1>4, <2>1, <2>2
<1>7. ASSUME NEW p \in DOMAIN log', NEW n \in 1..MaxTurns, NEW t \in Tools, log'[p] = ResultEntry(n, t)
      PROVE  \E q \in 1..(p - 1) : log'[q] = TurnEntry(n)
  <2>1. CASE p = top + 1
    <3>1. TurnEntry(n) \in Written
      BY <1>1, <1>7, <2>1
    <3>2. top = p - 1
      BY <1>1, <2>1
    <3> QED BY <1>3, <3>1, <3>2
  <2>2. CASE p \in 1..top
    <3>1. PICK q \in 1..(p - 1) : log[q] = TurnEntry(n)
      BY <1>1, <1>7, <2>2 DEF LogInv
    <3>2. q \in 1..top
      BY <1>1, <2>2
    <3> QED BY <1>1, <3>1, <3>2
  <2> QED BY <1>1, <1>4, <2>1, <2>2
<1> QED BY <1>5, <1>6, <1>7 DEF LogInv

\* The turns among the first entries are the first turns, and have all results.
LEMMA Prefix ==
    ASSUME log \in Seq(Entry), LogInv, NEW r \in 0..Len(log), NEW S, S = {log[i] : i \in 1..r}
    PROVE  /\ \A n \in TurnsIn(S) : \A k \in 1..(n - 1) : k \in TurnsIn(S)
           /\ \A n \in 1..MaxTurns : ResultsIn(S, n) # {} => n \in TurnsIn(S)
<1>1. Len(log) \in Nat /\ DOMAIN log = 1..Len(log) /\ \A p \in 1..r : p \in DOMAIN log /\ \A q \in 1..(p - 1) : q \in 1..r
  OBVIOUS
<1>2. ASSUME NEW n \in TurnsIn(S), NEW k \in 1..(n - 1)
      PROVE  k \in TurnsIn(S)
  <2>1. n \in 1..MaxTurns /\ k \in 1..MaxTurns
    BY BoundAssumption DEF TurnsIn
  <2>2. PICK p \in 1..r : log[p] = TurnEntry(n)
    BY DEF TurnsIn
  <2>3. PICK q \in 1..(p - 1) : log[q] = TurnEntry(k)
    BY <1>1, <2>1, <2>2 DEF LogInv
  <2> QED BY <1>1, <2>1, <2>3 DEF TurnsIn
<1>3. ASSUME NEW n \in 1..MaxTurns, NEW t \in ResultsIn(S, n)
      PROVE  n \in TurnsIn(S)
  <2>1. PICK p \in 1..r : t \in Tools /\ log[p] = ResultEntry(n, t)
    BY DEF ResultsIn
  <2>2. PICK q \in 1..(p - 1) : log[q] = TurnEntry(n)
    BY <1>1, <2>1 DEF LogInv
  <2> QED BY <1>1, <2>2 DEF TurnsIn
<1> QED BY <1>2, <1>3

\* A set of the first turns is an interval.
LEMMA FirstTurns ==
    ASSUME NEW T \in SUBSET (1..MaxTurns), \A n \in T : \A k \in 1..(n - 1) : k \in T
    PROVE  \E m \in Nat : T = 1..m
<1> DEFINE G == {k \in Nat : k # 0 /\ k \notin T}
<1>1. MaxTurns + 1 \in G
  BY BoundAssumption
<1>2. PICK k \in G : \A j \in G : k <= j
  <2>1. G \in SUBSET Nat /\ G # {}
    BY <1>1
  <2> HIDE DEF G
  <2> QED BY <2>1, LeastNatural
<1>3. k - 1 \in Nat /\ k \in Nat /\ k \notin T
  BY <1>2
<1>4. ASSUME NEW j \in 1..(k - 1) PROVE j \in T
  <2>1. j \in Nat /\ j # 0 /\ ~(k <= j)
    BY <1>3
  <2> QED BY <1>2, <2>1
<1>5. ASSUME NEW j \in T PROVE j \in 1..(k - 1)
  <2>1. j \in Nat /\ 1 <= j /\ j # k
    BY <1>3, BoundAssumption
  <2>2. CASE j > k
    <3>1. k \in 1..(j - 1)
      BY <1>2, <2>1, <2>2
    <3> QED BY <1>3, <3>1
  <2> QED BY <1>3, <2>1, <2>2
<1>6. T = 1..(k - 1)
  BY <1>4, <1>5
<1> QED BY <1>3, <1>6

ReadInv == LogInv /\ AsReadAtOnce

\* A poll reads what is left.
LEMMA PollReads ==
    ASSUME log \in Seq(Entry), read \in 0..Len(log), turns \in Seq(Turn), ReadInv
    PROVE  /\ DOMAIN NextTurns = TurnsIn(Written)
           /\ \A n \in DOMAIN NextTurns : NextTurns[n] = [id |-> n, results |-> ResultsIn(Written, n)]
<1> DEFINE a == Len(turns)
           c == Cardinality(Found)
<1>1. Len(log) \in Nat /\ DOMAIN log = 1..Len(log) /\ a \in Nat /\ DOMAIN turns = 1..a
  OBVIOUS
<1>2. /\ 1..a = TurnsIn(Seen)
      /\ \A n \in 1..a : turns[n] = [id |-> n, results |-> ResultsIn(Seen, n)]
  BY <1>1 DEF ReadInv, AsReadAtOnce, TurnsIn, ResultsIn
<1>3. /\ \A x : x \in Written <=> x \in Seen \/ x \in Unseen
      /\ \A x \in Seen : x \notin Unseen
      /\ Written = {log[i] : i \in 1..Len(log)}
  <2>1. \A i \in 1..Len(log) : i \in 1..read \/ i \in read + 1..Len(log)
    BY <1>1
  <2>2. \A i \in 1..read : i \in 1..Len(log) /\ i \notin read + 1..Len(log)
    BY <1>1
  <2>3. \A i \in read + 1..Len(log) : i \in 1..Len(log)
    BY <1>1
  <2> QED BY <1>1, <2>1, <2>2, <2>3 DEF Written, Seen, Unseen, ReadInv, LogInv
<1>4. PICK m \in Nat : TurnsIn(Written) = 1..m
  <2>1. Len(log) \in 0..Len(log)
    BY <1>1
  <2>2. \A n \in TurnsIn(Written) : \A k \in 1..(n - 1) : k \in TurnsIn(Written)
    BY <1>3, <2>1, Prefix DEF ReadInv
  <2>3. TurnsIn(Written) \in SUBSET (1..MaxTurns)
    BY DEF TurnsIn
  <2> HIDE DEF a, c
  <2> QED BY <2>2, <2>3, FirstTurns
<1>5. a <= m
  <2>1. 1..a \subseteq 1..m
    BY <1>2, <1>3, <1>4 DEF TurnsIn
  <2> HIDE DEF a
  <2> QED BY <1>1, <2>1
<1>6. Found = (a + 1)..m
  <2>1. \A n : n \in Found <=> n \in 1..m /\ n \notin 1..a
    BY <1>2, <1>3, <1>4 DEF Found, TurnsIn
  <2> HIDE DEF a
  <2>2. \A n : n \in 1..m /\ n \notin 1..a <=> n \in (a + 1)..m
    BY <1>1, <1>4
  <2> QED BY <2>1, <2>2
<1>7. c = m - a
  <2> HIDE DEF a
  <2>1. Cardinality((a + 1)..m) = IF a + 1 > m THEN 0 ELSE m - (a + 1) + 1
    <3>1. a + 1 \in Int /\ m \in Int
      BY <1>1, <1>4
    <3> QED BY <3>1, FS_Interval
  <2> QED BY <1>1, <1>4, <1>5, <1>6, <2>1
<1>8. NewTurns \in Seq(Turn) /\ NextTurns \in Seq(Turn) /\ Precedes(turns, NextTurns)
  BY PollGrows
<1>9. NewTurns = [i \in 1..c |-> [id |-> a + i, results |-> Results(a + i)]]
  BY DEF NewTurns
<1>10. UpdatedTurns = [i \in 1..a |-> [turns[i] EXCEPT !.results = @ \cup Results(turns[i].id)]]
  BY <1>1, Zenon DEF UpdatedTurns
<1>11. \A n \in 1..MaxTurns : ResultsIn(Written, n) = ResultsIn(Seen, n) \cup Results(n)
  BY <1>3 DEF ResultsIn, Results
<1>12. \A n \in 1..MaxTurns : n \notin 1..a => ResultsIn(Seen, n) = {}
  BY <1>2, Prefix DEF Seen, ReadInv
<1>13. \A n \in 1..m : n \in 1..MaxTurns
  BY <1>4 DEF TurnsIn
<1> HIDE DEF a, c
<1>14. ASSUME NEW n \in 1..a
       PROVE  UpdatedTurns[n] = [id |-> n, results |-> ResultsIn(Written, n)]
  <2>1. n \in 1..MaxTurns /\ turns[n] = [id |-> n, results |-> ResultsIn(Seen, n)]
    BY <1>1, <1>2, <1>4, <1>5, <1>13
  <2>2. turns[n].id = n /\ turns[n].results = ResultsIn(Seen, n)
    BY <2>1
  <2>3. UpdatedTurns[n] = [turns[n] EXCEPT !.results = turns[n].results \cup Results(turns[n].id)]
    BY <1>10
  <2>4. UpdatedTurns[n] = [id |-> n, results |-> ResultsIn(Seen, n) \cup Results(n)]
    BY <2>1, <2>2, <2>3
  <2> QED BY <1>11, <2>1, <2>4
<1>15. ASSUME NEW i \in 1..c
       PROVE  NewTurns[i] = [id |-> a + i, results |-> ResultsIn(Written, a + i)]
  <2>1. a + i \in 1..m /\ a + i \notin 1..a
    BY <1>1, <1>4, <1>7
  <2>2. ResultsIn(Written, a + i) = Results(a + i)
    BY <1>11, <1>12, <1>13, <2>1
  <2> QED BY <1>9, <2>2
<1>16. /\ Len(UpdatedTurns) = a /\ UpdatedTurns \in Seq(Turn) /\ Len(NewTurns) = c
  <2>1. UpdatedTurns \in Seq(Turn)
    <3>1. ASSUME NEW n \in 1..a PROVE UpdatedTurns[n] \in Turn
      <4>1. ResultsIn(Written, n) \in SUBSET Tools /\ n \in Nat
        BY <1>1 DEF ResultsIn
      <4>2. [id |-> n, results |-> ResultsIn(Written, n)] \in Turn
        BY <4>1 DEF Turn
      <4> QED BY <1>14, <4>2
    <3> DEFINE u(n) == [turns[n] EXCEPT !.results = @ \cup Results(turns[n].id)]
    <3>2. UpdatedTurns = [n \in 1..a |-> u(n)]
      BY <1>10, Zenon
    <3> HIDE DEF u
    <3> QED BY <1>1, <3>1, <3>2
  <2>2. DOMAIN UpdatedTurns = 1..a /\ DOMAIN NewTurns = 1..c
    BY <1>9, <1>10
  <2>3. c \in Nat
    BY <1>1, <1>4, <1>5, <1>7
  <2> QED BY <1>1, <1>8, <2>1, <2>2, <2>3
<1>17. /\ DOMAIN NextTurns = 1..(a + c)
       /\ \A n \in 1..a : NextTurns[n] = UpdatedTurns[n]
       /\ \A i \in 1..c : NextTurns[a + i] = NewTurns[i]
  <2>1. \A s, t \in Seq(Turn) : /\ DOMAIN (s \o t) = 1..(Len(s) + Len(t))
                                /\ \A n \in 1..Len(s) : (s \o t)[n] = s[n]
                                /\ \A i \in 1..Len(t) : (s \o t)[Len(s) + i] = t[i]
    OBVIOUS
  <2> QED BY <1>8, <1>16, <2>1 DEF NextTurns
<1>18. a + c = m
  BY <1>1, <1>4, <1>7
<1>19. ASSUME NEW n \in 1..m
       PROVE  NextTurns[n] = [id |-> n, results |-> ResultsIn(Written, n)]
  <2>1. CASE n \in 1..a
    BY <1>14, <1>17, <2>1
  <2>2. CASE n \notin 1..a
    <3>1. n - a \in 1..c /\ a + (n - a) = n
      BY <1>1, <1>4, <1>5, <1>7, <2>2
    <3> QED BY <1>15, <1>17, <3>1
  <2> QED BY <2>1, <2>2
<1> QED BY <1>4, <1>17, <1>18, <1>19

LEMMA ReadInit == ServerInit => ReadInv
BY DEF ServerInit, ReadInv, LogInv, AsReadAtOnce, Seen

\* What is written later is not yet read.
LEMMA WriteReads ==
    ASSUME ServerInv, ReadInv, NEW e \in Entry, Write(e),
           \A n \in 1..MaxTurns : e = TurnEntry(n) => \A k \in 1..(n - 1) : TurnEntry(k) \in Written,
           \A n \in 1..MaxTurns, t \in Tools : e = ResultEntry(n, t) => TurnEntry(n) \in Written
    PROVE  ReadInv'
<1>1. log \in Seq(Entry) /\ read \in 0..Len(log)
  BY DEF ServerInv, ServerTypeOK
<1>2. LogInv'
  BY <1>1, LogGrows DEF ReadInv
<1>3. \A i \in 1..read : log'[i] = log[i]
  BY <1>1 DEF Write
<1>4. Seen' = Seen /\ turns' = turns
  BY <1>3 DEF Write, Seen
<1> QED BY <1>2, <1>4 DEF ReadInv, AsReadAtOnce

LEMMA ReadNext == ServerInv /\ ReadInv /\ [ServerNext]_serverVars => ReadInv'
<1> SUFFICES ASSUME ServerInv, ReadInv, [ServerNext]_serverVars PROVE ReadInv'
  OBVIOUS
<1>1. turns \in Seq(Turn) /\ log \in Seq(Entry) /\ read \in 0..Len(log)
  BY DEF ServerInv, ServerTypeOK
<1>2. ASSUME log' = log, read' = Len(log), turns' = NextTurns
      PROVE  ReadInv'
  <2>1. LogInv'
    BY <1>2 DEF ReadInv, LogInv
  <2>2. Seen' = Written
    <3>1. DOMAIN log = 1..Len(log)
      BY <1>1
    <3> QED BY <1>2, <3>1 DEF Seen, Written
  <2>3. /\ DOMAIN NextTurns = TurnsIn(Written)
        /\ \A n \in DOMAIN NextTurns : NextTurns[n] = [id |-> n, results |-> ResultsIn(Written, n)]
    BY <1>1, PollReads
  <2> QED BY <1>2, <2>1, <2>2, <2>3 DEF ReadInv, AsReadAtOnce, TurnsIn, ResultsIn
<1>3. CASE WriteTurn
  <2>1. PICK n \in 1..MaxTurns : Write(TurnEntry(n)) /\ \A k \in 1..MaxTurns : TurnEntry(k) \in Written <=> k < n
    BY <1>3 DEF WriteTurn
  <2>2. TurnEntry(n) \in Entry
    BY DEF TurnEntry, Entry
  <2>3. \A j \in 1..MaxTurns : TurnEntry(n) = TurnEntry(j) => \A k \in 1..(j - 1) : TurnEntry(k) \in Written
    <3>1. \A j \in 1..MaxTurns : \A k \in 1..(j - 1) : k \in 1..MaxTurns /\ k < j
      BY BoundAssumption
    <3> QED BY <2>1, <3>1, EntryKinds
  <2>4. \A j \in 1..MaxTurns, t \in Tools : TurnEntry(n) # ResultEntry(j, t)
    BY EntryKinds
  <2> QED BY <2>1, <2>2, <2>3, <2>4, WriteReads
<1>4. CASE WriteResult
  <2>1. PICK n \in 1..MaxTurns, t \in Tools : TurnEntry(n) \in Written /\ Write(ResultEntry(n, t))
    BY <1>4 DEF WriteResult
  <2>2. ResultEntry(n, t) \in Entry
    BY DEF ResultEntry, Entry
  <2>3. \A j \in 1..MaxTurns : ResultEntry(n, t) # TurnEntry(j)
    BY EntryKinds
  <2>4. \A j \in 1..MaxTurns, u \in Tools : ResultEntry(n, t) = ResultEntry(j, u) => TurnEntry(j) \in Written
    BY <2>1, EntryKinds
  <2> QED BY <2>1, <2>2, <2>3, <2>4, WriteReads
<1>5. CASE InitialPoll
  <2>1. turns = <<>> /\ turns' = NewTurns /\ log' = log /\ read' = Len(log)
    BY <1>5 DEF ServerInv, Fresh, InitialPoll
  <2>2. UpdatedTurns = <<>>
    BY <2>1 DEF UpdatedTurns
  <2>3. NewTurns \in Seq(Turn)
    BY <1>1, PollGrows
  <2>4. NextTurns = NewTurns
    BY <2>2, <2>3 DEF NextTurns
  <2> QED BY <1>2, <2>1, <2>4
<1>6. CASE Poll
  BY <1>2, <1>6 DEF Poll
<1>7. CASE InitialPollFails \/ SendSignal \/ TakeSignal \/ UNCHANGED serverVars
  <2>1. log' = log /\ read' = read /\ turns' = turns
    BY <1>7 DEF InitialPollFails, SendSignal, TakeSignal, serverVars
  <2>2. Seen' = Seen
    BY <2>1 DEF Seen
  <2>3. LogInv'
    BY <2>1 DEF ReadInv, LogInv
  <2> QED BY <2>1, <2>2, <2>3 DEF ReadInv, AsReadAtOnce
<1> QED BY <1>3, <1>4, <1>5, <1>6, <1>7 DEF ServerNext

\* However Claude's log is split over polls (merging_watcher.rs), the watcher's turns
\* are those of one poll of it all: a result that comes polls after its turn is not lost,
\* and no turn is left out or counted twice.
THEOREM AsReadAtOnceCorrect == Spec => []AsReadAtOnce
<1>1. Init => ReadInv
  BY ReadInit DEF Init
<1>2. ServerInv /\ ReadInv /\ [Next]_vars => ReadInv'
  BY ReadNext, ServerOnly
<1>3. ReadInv => AsReadAtOnce
  BY DEF ReadInv
<1>4. Spec => []ServerInv
  BY ServerInvCorrect
<1> QED BY <1>1, <1>2, <1>3, <1>4, PTL DEF Spec

-----------------------------------------------------------------------------
(* From Claude's log to the client's list, over all the copies between.        *)

WholeWay == INSTANCE LaggingCopy WITH
    source <- turns, copy <- IF raced THEN <<>> ELSE shown, MayForget <- TRUE

\* The client's list is an earlier state of the watcher's.
InTurns == ~raced => shown \in Seq(Turn) /\ Precedes(shown, turns)

LEMMA InPlaceCorrect == Spec => [](SyncInv /\ FollowInv /\ InPlace)
<1>1. Init => FollowInv
  BY FollowInit
<1>2. SyncInv /\ FollowInv /\ [Next]_vars => FollowInv'
  BY FollowNext
<1> QED BY <1>1, <1>2, SyncInvCorrect, FollowShown, PTL DEF Spec

LEMMA InTurnsCorrect == ServerInv /\ InPlace => InTurns
<1> SUFFICES ASSUME ServerInv, InPlace, ~raced PROVE shown \in Seq(Turn) /\ Precedes(shown, turns)
  BY DEF InTurns
<1>1. PICK f : IsChain(f, Pending, driver, turns)
  BY DEF ServerInv
<1>2. driver \in Seq(Turn) /\ turns \in Seq(Turn) /\ Len(Pending) \in Nat
  BY DEF ServerInv, ServerTypeOK, Pending
<1>3. Precedes(driver, turns)
  BY <1>1, <1>2 DEF IsChain
<1>4. shown \in Seq(Turn) /\ Precedes(shown, driver)
  BY DEF InPlace
<1> QED BY <1>2, <1>3, <1>4, PrecedesTransitive

\* Each step lets the watcher's turns grow, or shows some earlier state of them.
LEMMA WholeWayStep ==
    ASSUME ServerInv, InTurns', [Next]_vars
    PROVE  [WholeWay!Next]_<<turns, IF raced THEN <<>> ELSE shown>>
<1> DEFINE list == IF raced THEN <<>> ELSE shown
<1>1. \A a, b : /\ Precedes(a, b) <=> WholeWay!Precedes(a, b)
                /\ Precedes(a, b) <=> DriverCopy!Precedes(a, b)
  BY DEF Precedes, DriverCopy!Precedes, WholeWay!Precedes
<1>2. turns \in Seq(Turn) /\ <<>> \in Seq(Turn) /\ Precedes(<<>>, turns)
  BY EmptySeq DEF ServerInv, ServerTypeOK, Precedes, DriverCopy!Precedes
<1>3. CASE turns' = turns
  <2>1. list' \in Seq(Turn) /\ Precedes(list', turns)
    <3>1. CASE raced'
      BY <1>2, <3>1
    <3>2. CASE ~raced'
      <4>1. shown' \in Seq(Turn) /\ Precedes(shown', turns')
        BY <3>2 DEF InTurns
      <4> QED BY <1>3, <3>2, <4>1
    <3> QED BY <3>1, <3>2
  <2> QED BY <1>1, <1>3, <2>1 DEF WholeWay!Next, WholeWay!Show
<1>4. CASE turns' # turns
  <2>1. [DriverCopy!Next]_<<turns, driver>>
    BY ServerOnly, ServerStep
  <2>2. turns' \in Seq(Turn) /\ Precedes(turns, turns')
    BY <1>1, <1>4, <2>1 DEF DriverCopy!Next, DriverCopy!Grow, DriverCopy!Show
  <2>3. list' = list
    <3>1. ~UNCHANGED serverVars
      BY <1>4 DEF serverVars
    <3>2. Server
      BY <3>1 DEF Next, vars, Focus, Task, SendAck, Subscribe, Snapshot, Receive, Lag, Send, Stop,
                  FocusOther, Ask, Lookup, Answer, Deliver, Disconnect, Timeout, Lost
    <3> QED BY <3>2 DEF Server, clientVars
  <2> QED BY <1>1, <2>2, <2>3 DEF WholeWay!Next, WholeWay!Grow
<1> QED BY <1>3, <1>4

\* The whole way from the watcher (ws/merging_watcher.rs) to the browser
\* (stores/instances.ts) is one lagging copy: the two refinements compose.
THEOREM WholeWayCorrect == Spec => WholeWay!Spec
<1>1. Init => WholeWay!Init
  BY DEF Init, ServerInit, WholeWay!Init
<1>2. Spec => [](ServerInv /\ InTurns)
  BY InPlaceCorrect, InTurnsCorrect, ServerInvCorrect, PTL
<1>3. ServerInv /\ InTurns' /\ [Next]_vars => [WholeWay!Next]_<<turns, IF raced THEN <<>> ELSE shown>>
  BY WholeWayStep
<1> QED
  BY <1>1, <1>2, <1>3, PTL DEF Spec, WholeWay!Spec

\* What the client shows at a place is the turn Claude wrote there, with no tool
\* result that Claude has not written for it.
ShownIsWritten ==
    ~raced => \A i \in DOMAIN shown :
        /\ shown[i].id = i
        /\ TurnEntry(i) \in Written
        /\ \A t \in shown[i].results : ResultEntry(i, t) \in Written

\* Nothing is shown that is not in Claude's log, or in another place of it,
\* while one sender feeds the client (format.rs, claude_driver.rs, ws/focus.rs).
THEOREM ShownIsWrittenCorrect == Spec => []ShownIsWritten
<1>1. ServerInv /\ AsReadAtOnce /\ InTurns => ShownIsWritten
  <2> SUFFICES ASSUME ServerInv, AsReadAtOnce, InTurns, ~raced, NEW i \in DOMAIN shown
               PROVE  /\ shown[i].id = i
                      /\ TurnEntry(i) \in Written
                      /\ \A t \in shown[i].results : ResultEntry(i, t) \in Written
    BY DEF ShownIsWritten
  <2>1. shown \in Seq(Turn) /\ Precedes(shown, turns) /\ turns \in Seq(Turn)
    BY DEF InTurns, ServerInv, ServerTypeOK
  <2>2. \A x \in Seen : x \in Written
    BY DEF ServerInv, ServerTypeOK, Seen, Written
  <2>3. i \in 1..Len(shown) /\ i \in DOMAIN turns
    BY <2>1 DEF Precedes, DriverCopy!Precedes
  <2>4. shown[i].id = turns[i].id /\ shown[i].results \subseteq turns[i].results
    BY <2>1, <2>3 DEF Precedes, DriverCopy!Precedes
  <2>5. TurnEntry(i) \in Seen /\ turns[i] = [id |-> i, results |-> {t \in Tools : ResultEntry(i, t) \in Seen}]
    BY <2>3 DEF AsReadAtOnce
  <2>6. turns[i].id = i /\ turns[i].results = {t \in Tools : ResultEntry(i, t) \in Seen}
    BY <2>5
  <2> QED BY <2>2, <2>4, <2>5, <2>6
<1> QED
  BY <1>1, InPlaceCorrect, InTurnsCorrect, ServerInvCorrect, AsReadAtOnceCorrect, PTL

\* The client lacks nothing once nothing is on its way and its task has read all.
ClientUpToDate ==
    /\ ~raced /\ wire = <<>> /\ out = <<>> /\ signals = <<>>
    /\ \E g \in Gens : pc[g] = "loop" /\ pos[g] = Len(events) + 1
    => shown = turns

\* No broadcast, lag or reconnection leaves a hole behind: with all queues empty
\* and the focus task at the end of the broadcasts, the client has the
\* watcher's turns (ws/focus.rs).
THEOREM ClientUpToDateCorrect == Spec => []ClientUpToDate
<1>1. SyncInv /\ FollowInv /\ DriverUpToDate => ClientUpToDate
  <2> SUFFICES ASSUME SyncInv, FollowInv, DriverUpToDate, ~raced, wire = <<>>, out = <<>>, signals = <<>>,
                      NEW g \in Gens, pc[g] = "loop", pos[g] = Len(events) + 1
               PROVE  shown = turns
    BY DEF ClientUpToDate
  <2>1. PICK h : IsHistory(h, events, driver) /\ Followed(h)
    BY DEF FollowInv
  <2>2. PICK r : Leads(shown, wire, r, driver) /\ Caught(g, h, r)
    BY <2>1 DEF Followed
  <2>3. PICK c : IsFeed(c, shown, wire, r, driver)
    BY <2>2 DEF Leads
  <2>4. r = shown
    BY <2>3 DEF IsFeed
  <2>5. PICK j \in 0..Len(events) : pos[g] - 1 <= j /\ r = h[j]
    BY <2>2 DEF Caught
  <2>6. events \in Seq(Events)
    BY DEF SyncInv, ServerInv, ServerTypeOK
  <2>7. j = Len(events)
    BY <2>5, <2>6
  <2>8. r = driver
    BY <2>1, <2>5, <2>7 DEF IsHistory
  <2> QED BY <2>4, <2>8 DEF DriverUpToDate
<1> QED
  BY <1>1, InPlaceCorrect, DriverUpToDateCorrect, PTL
=============================================================================
