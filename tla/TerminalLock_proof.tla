------------------------- MODULE TerminalLock_proof -------------------------
(* What holds of the terminal lock for every set of connections, users and    *)
(* instances and every timeout.  A theorem that needs handlers run one at a   *)
(* time, or clients that name the instance they focus, assumes Serial or      *)
(* FocusedOnly; the others hold for every choice of the two.                  *)
EXTENDS TerminalLock, TLAPS

USE UserOfAssumption, TimeoutAssumption, NoOneAssumption

-----------------------------------------------------------------------------
(* Lemmas.                                                                    *)

\* A piece of work at an instance is work.
LEMMA PieceOfWork ==
    /\ \A op \in Ops, j \in Instances : Do(op, j) \in Work
    /\ Ops = {"leave", "join", "peek", "settle", "touch", "read", "send"}
  BY DEF Do, Work, Ops

\* The work lists the handlers start with are sequences of work.
LEMMA WorkLists ==
    ASSUME NEW i \in Instances
    PROVE  /\ Reconcile(i) \in Seq(Work)
           /\ Announce(i) \in Seq(Work)
           /\ \A op \in Ops : <<Do(op, i)>> \in Seq(Work)
           /\ \A j \in Instances : <<Do("leave", j), Do("join", i)>> \in Seq(Work)
  BY PieceOfWork DEF Reconcile, Announce

LEMMA AfterJoinList ==
    ASSUME NEW i \in Instances, NEW prev \in Instances \cup {NoOne}
    PROVE  AfterJoin(prev, i) \in Seq(Work)
<1>1. CASE prev = NoOne
  BY <1>1, WorkLists DEF AfterJoin
<1>2. CASE prev # NoOne
  <2>1. prev \in Instances
    BY <1>2
  <2>2. Reconcile(prev) \in Seq(Work) /\ Announce(prev) \in Seq(Work)
    BY <2>1, WorkLists
  <2>3. Reconcile(i) \in Seq(Work) /\ Announce(i) \in Seq(Work)
    BY WorkLists
  <2> QED
    BY <1>2, <2>2, <2>3 DEF AfterJoin
<1> QED
  BY <1>1, <1>2

\* Advancing a handler keeps its work list a sequence of work, and the piece of
\* work it is at names an instance.
LEMMA Progress ==
    ASSUME TypeOK, NEW c \in Connections, NEW op, Doing(c, op)
    PROVE  /\ Here(c) \in Instances
           /\ Advance(c) => todo' \in [Connections -> Seq(Work)]
<1>1. todo[c] \in Seq(Work) /\ todo[c] # <<>>
  BY DEF TypeOK, Doing
<1>2. Head(todo[c]) \in Work /\ Tail(todo[c]) \in Seq(Work)
  BY <1>1
<1>3. Here(c) \in Instances
  BY <1>2 DEF Work, Here
<1>4. todo \in [Connections -> Seq(Work)]
  BY DEF TypeOK
<1>5. Advance(c) => todo' \in [Connections -> Seq(Work)]
  BY <1>2, <1>4 DEF Advance
<1> QED
  BY <1>3, <1>5

\* The holder of a lock is a user, and there is none without a lock.
LEMMA HolderType ==
    ASSUME TypeOK, NEW i \in Instances
    PROVE  Holder(i) \in Users \cup {NoOne}
<1>1. lock[i] \subseteq LockRecord
  BY DEF TypeOK
<1>2. CASE lock[i] = {}
  BY <1>2 DEF Holder
<1>3. CASE lock[i] # {}
  <2>1. (CHOOSE l \in lock[i] : TRUE) \in LockRecord
    BY <1>1, <1>3
  <2> QED
    BY <2>1, <1>3 DEF Holder, LockRecord
<1> QED
  BY <1>2, <1>3

\* A lock map whose entries are each one lock record at most.
Locks == {L \in [Instances -> SUBSET LockRecord] :
            \A i \in Instances : \A l, m \in L[i] : l = m}

\* Granting, clearing, refreshing and ageing a lock give such a map again.
LEMMA LockUpdates ==
    ASSUME TypeOK, NEW c \in Connections, NEW i \in Instances
    PROVE  /\ [lock EXCEPT ![i] = {}] \in Locks
           /\ [lock EXCEPT ![i] = {Fresh(c)}] \in Locks
           /\ [lock EXCEPT ![i] = Touched(c, @)] \in Locks
           /\ \A S \in SUBSET Connections : \A L \in Settled(i, S) :
                 [lock EXCEPT ![i] = L] \in Locks
           /\ [j \in Instances |-> Older(lock[j])] \in Locks
<1>0. lock \in Locks
  BY DEF TypeOK, Locks
<1>1. \A L \in SUBSET LockRecord :
         (\A l, m \in L : l = m) => [lock EXCEPT ![i] = L] \in Locks
  BY <1>0 DEF Locks
<1>2. Fresh(c) \in LockRecord
  BY DEF Fresh, LockRecord
<1>3. Touched(c, lock[i]) \in SUBSET LockRecord /\ \A l, m \in Touched(c, lock[i]) : l = m
  BY <1>0 DEF Locks, Touched, LockRecord
<1>4. ASSUME NEW S \in SUBSET Connections, NEW L \in Settled(i, S)
      PROVE  L \in SUBSET LockRecord /\ \A l, m \in L : l = m
  <2>1. CASE \E l \in lock[i] : l.conn \notin S
    BY <1>4, <2>1 DEF Settled
  <2>2. CASE ~(\E l \in lock[i] : l.conn \notin S) /\ lock[i] = {} /\ Sole(S)
    <3>1. PICK d \in S, u \in UsersOf(S) : L = {[conn |-> d, user |-> u, idle |-> 0]}
      BY <1>4, <2>2 DEF Settled
    <3> QED
      BY <3>1 DEF UsersOf, LockRecord
  <2>3. CASE ~(\E l \in lock[i] : l.conn \notin S) /\ ~(lock[i] = {} /\ Sole(S))
    BY <1>0, <1>4, <2>3 DEF Settled, Locks
  <2> QED
    BY <2>1, <2>2, <2>3
<1>5. ASSUME NEW j \in Instances
      PROVE  Older(lock[j]) \in SUBSET LockRecord /\ \A l, m \in Older(lock[j]) : l = m
  <2>1. \A l \in LockRecord :
           [l EXCEPT !.idle = IF @ < Timeout THEN @ + 1 ELSE @] \in LockRecord
    BY DEF LockRecord
  <2> QED
    BY <1>0, <2>1 DEF Locks, Older
<1>6. [j \in Instances |-> Older(lock[j])] \in Locks
  BY <1>5 DEF Locks
<1> QED
  BY <1>1, <1>2, <1>3, <1>4, <1>6

-----------------------------------------------------------------------------
(* Type correctness.                                                          *)

LEMMA TypeStep == TypeOK /\ [Next]_vars => TypeOK'
<1> SUFFICES ASSUME TypeOK, [Next]_vars PROVE TypeOK'
  OBVIOUS
<1> USE DEF TypeOK, lockVars, connVars
<1>1. ASSUME NEW c \in Connections, NEW i \in Instances, Focus(c, i) PROVE TypeOK'
  <2>1. AfterJoin(focused[c], i) \in Seq(Work)
    BY AfterJoinList
  <2>2. CASE focused[c] = NoOne
    <3>1. <<Do("join", i)>> \in Seq(Work)
      BY WorkLists DEF Ops
    <3> QED
      BY <1>1, <2>1, <2>2, <3>1 DEF Focus, Moves
  <2>3. CASE focused[c] # NoOne
    <3>1. <<Do("leave", focused[c]), Do("join", i)>> \in Seq(Work)
      BY <2>3, WorkLists
    <3> QED
      BY <1>1, <2>1, <2>3, <3>1 DEF Focus, Moves
  <2> QED
    BY <1>1, <2>2, <2>3 DEF Focus
<1>2. ASSUME NEW c \in Connections, NEW i \in Instances, Request(c, i) PROVE TypeOK'
  <2>1. lock' \in Locks
    BY <1>2, LockUpdates DEF Request
  <2>2. Announce(i) \in Seq(Work)
    BY WorkLists
  <2> QED
    BY <1>2, <2>1, <2>2 DEF Request, Locks
<1>3. ASSUME NEW c \in Connections, NEW i \in Instances, Release(c, i) PROVE TypeOK'
  <2>1. lock' \in Locks
    BY <1>3, LockUpdates DEF Release
  <2>2. Reconcile(i) \o Announce(i) \in Seq(Work)
    BY WorkLists
  <2> QED
    BY <1>3, <2>1, <2>2 DEF Release, Locks
<1>4. ASSUME NEW c \in Connections, NEW i \in Instances, Input(c, i) PROVE TypeOK'
  BY <1>4, WorkLists DEF Input, Ops
<1>5. ASSUME NEW c \in Connections, Step(c) PROVE TypeOK'
  <2>1. CASE Leave(c)
    BY <2>1, Progress DEF Leave
  <2>2. CASE Join(c)
    BY <2>2, Progress DEF Join
  <2>3. CASE Peek(c)
    BY <2>3, Progress DEF Peek
  <2>4. CASE Settle(c)
    <3>1. Here(c) \in Instances /\ todo' \in [Connections -> Seq(Work)]
      BY <2>4, Progress DEF Settle
    <3>2. seen[c] \in SUBSET Connections
      OBVIOUS
    <3>3. \A L \in Settled(Here(c), seen[c]) : [lock EXCEPT ![Here(c)] = L] \in Locks
      BY <3>1, <3>2, LockUpdates
    <3>4. PICK L \in Settled(Here(c), seen[c]) : lock' = [lock EXCEPT ![Here(c)] = L]
      BY <2>4, Zenon DEF Settle
    <3>5. lock' \in Locks
      BY <3>3, <3>4, Zenon
    <3> QED
      BY <2>4, <3>1, <3>5 DEF Settle, Locks
  <2>5. CASE Touch(c)
    <3>1. Here(c) \in Instances /\ todo' \in [Connections -> Seq(Work)]
      BY <2>5, Progress DEF Touch
    <3>2. lock' \in Locks
      BY <2>5, <3>1, LockUpdates DEF Touch
    <3> QED
      BY <2>5, <3>1, <3>2 DEF Touch, Locks
  <2>6. CASE Read(c)
    BY <2>6, Progress, HolderType DEF Read
  <2>7. CASE Send(c)
    BY <2>7, Progress DEF Send
  <2> QED
    BY <1>5, <2>1, <2>2, <2>3, <2>4, <2>5, <2>6, <2>7 DEF Step
<1>6. ASSUME NEW c \in Connections, Disconnect(c) PROVE TypeOK'
  BY <1>6 DEF Disconnect
<1>7. ASSUME NEW c \in Connections, LeaveAll(c) PROVE TypeOK'
  BY <1>7 DEF LeaveAll
<1>8. ASSUME NEW c \in Connections, NEW i \in Instances, ReleaseOne(c, i) PROVE TypeOK'
  <2>1. lock' \in Locks
    <3>1. lock \in Locks /\ [lock EXCEPT ![i] = {}] \in Locks
      BY LockUpdates DEF Locks
    <3>2. lock' = [lock EXCEPT ![i] = {}] \/ lock' = lock
      BY <1>8, Zenon DEF ReleaseOne
    <3> QED
      BY <3>1, <3>2, Zenon
  <2>2. Reconcile(i) \o Announce(i) \in Seq(Work) /\ Announce(i) \in Seq(Work)
    BY WorkLists
  <2>3. PICK w \in {Reconcile(i) \o Announce(i), Announce(i)} :
           todo' = [todo EXCEPT ![c] = w]
    BY <1>8 DEF ReleaseOne
  <2>4. todo' \in [Connections -> Seq(Work)]
    BY <2>2, <2>3
  <2> QED
    BY <1>8, <2>1, <2>4 DEF ReleaseOne, Locks
<1>9. ASSUME NEW i \in Instances, Unregister(i) PROVE TypeOK'
  BY <1>9 DEF Unregister
<1>10. CASE Tick
  <2>1. [j \in Instances |-> Older(lock[j])] \in Locks
    <3>1. CASE Connections = {}
      <4>1. LockRecord = {}
        BY <3>1 DEF LockRecord
      <4> QED
        BY <4>1 DEF Locks, Older
    <3>2. CASE Connections # {}
      <4>1. PICK c \in Connections : TRUE
        BY <3>2
      <4>2. ASSUME NEW j \in Instances PROVE [k \in Instances |-> Older(lock[k])] \in Locks
        BY <4>1, LockUpdates
      <4> QED
        BY <4>2 DEF Locks
    <3> QED
      BY <3>1, <3>2
  <2> QED
    BY <1>10, <2>1 DEF Tick, Locks
<1>11. CASE UNCHANGED vars
  BY <1>11 DEF vars
<1> QED
  BY <1>1, <1>2, <1>3, <1>4, <1>5, <1>6, <1>7, <1>8, <1>9, <1>10, <1>11
     DEF Next, Message, CleanUp

\* Every variable keeps its type and an instance has one lock at most, whichever
\* handlers interleave.
THEOREM TypeCorrect == Spec => []TypeOK
<1>1. Init => TypeOK
  BY DEF Init, TypeOK
<1> QED
  BY <1>1, TypeStep, PTL DEF Spec

-----------------------------------------------------------------------------
(* The holder of a lock.                                                      *)

\* Every lock a step leaves behind was there before, perhaps fresher or older,
\* or names a connection together with the user of that connection.
LEMMA LocksAfterStep ==
    ASSUME TypeOK, [Next]_vars, NEW i \in Instances, NEW m \in lock'[i]
    PROVE  \/ \E l \in lock[i] : l.conn = m.conn /\ l.user = m.user
           \/ m.user = UserOf[m.conn]
<1> DEFINE Goal == \/ \E l \in lock[i] : l.conn = m.conn /\ l.user = m.user
                   \/ m.user = UserOf[m.conn]
<1> USE DEF lockVars, connVars
<1>0. lock \in [Instances -> SUBSET LockRecord]
  BY DEF TypeOK
<1>1. CASE UNCHANGED lock
  BY <1>1
<1>2. ASSUME NEW j \in Instances, lock' = [lock EXCEPT ![j] = {}]
      PROVE  Goal
  BY <1>0, <1>2
<1>3. ASSUME NEW c \in Connections, NEW j \in Instances, Request(c, j) PROVE Goal
  BY <1>0, <1>3 DEF Request, Fresh
<1>4. ASSUME NEW c \in Connections, Settle(c) PROVE Goal
  <2>1. Here(c) \in Instances
    BY <1>4, Progress DEF Settle
  <2>2. PICK L \in Settled(Here(c), seen[c]) : lock' = [lock EXCEPT ![Here(c)] = L]
    BY <1>4, Zenon DEF Settle
  <2>3. CASE L = {} \/ L = lock[Here(c)]
    BY <1>0, <2>1, <2>2, <2>3
  <2>4. CASE Sole(seen[c]) /\ \E d \in seen[c], u \in UsersOf(seen[c]) :
                                 L = {[conn |-> d, user |-> u, idle |-> 0]}
    <3>1. PICK d \in seen[c], u \in UsersOf(seen[c]) : L = {[conn |-> d, user |-> u, idle |-> 0]}
      BY <2>4
    <3>2. u = UserOf[d]
      BY <2>4, <3>1 DEF Sole, UsersOf
    <3> QED
      BY <1>0, <2>1, <2>2, <3>1, <3>2
  <2> QED
    BY <2>2, <2>3, <2>4 DEF Settled
<1>5. ASSUME NEW c \in Connections, Touch(c) PROVE Goal
  <2>1. Here(c) \in Instances
    BY <1>5, Progress DEF Touch
  <2> QED
    BY <1>0, <1>5, <2>1 DEF Touch, Touched, LockRecord
<1>6. CASE Tick
  BY <1>0, <1>6 DEF Tick, Older, LockRecord
<1>7. ASSUME NEW c \in Connections, Message(c) PROVE Goal
  BY <1>1, <1>2, <1>3, <1>7 DEF Message, Focus, Release, Input
<1>8. ASSUME NEW c \in Connections, Step(c) PROVE Goal
  BY <1>1, <1>4, <1>5, <1>8 DEF Step, Leave, Join, Peek, Read, Send
<1>9. ASSUME NEW c \in Connections, Disconnect(c) \/ CleanUp(c) PROVE Goal
  BY <1>1, <1>2, <1>9 DEF CleanUp, Disconnect, LeaveAll, ReleaseOne
<1>10. CASE UNCHANGED vars
  BY <1>1, <1>10 DEF vars
<1> QED
  BY <1>2, <1>6, <1>7, <1>8, <1>9, <1>10 DEF Next, Unregister

\* A lock always names a connection and the user of that connection.
THEOREM HolderCorrect == Spec => []HolderIsOneOfUser
<1>1. Init => HolderIsOneOfUser
  BY DEF Init, HolderIsOneOfUser
<1>2. TypeOK /\ HolderIsOneOfUser /\ [Next]_vars => HolderIsOneOfUser'
  BY LocksAfterStep DEF HolderIsOneOfUser
<1> QED
  BY <1>1, <1>2, TypeCorrect, PTL DEF Spec

\* A step that puts one user's lock in the place of another user's finds that
\* other lock expired.
LEMMA TakeoverStep ==
    ASSUME TypeOK, [Next]_vars,
           NEW i \in Instances, NEW l \in lock[i], NEW m \in lock'[i], l.user # m.user
    PROVE  l.idle = Timeout
<1> USE DEF lockVars, connVars
<1>0. lock \in [Instances -> SUBSET LockRecord] /\ \A k \in lock[i] : k = l
  BY DEF TypeOK
<1>1. CASE UNCHANGED lock
  BY <1>0, <1>1
<1>2. ASSUME NEW j \in Instances, lock' = [lock EXCEPT ![j] = {}]
      PROVE  l.idle = Timeout
  BY <1>0, <1>2
<1>3. ASSUME NEW c \in Connections, NEW j \in Instances, Request(c, j)
      PROVE  l.idle = Timeout
  BY <1>0, <1>3 DEF Request, Fresh, CanAcquire
<1>4. ASSUME NEW c \in Connections, Settle(c) PROVE l.idle = Timeout
  <2>1. Here(c) \in Instances
    BY <1>4, Progress DEF Settle
  <2>2. PICK L \in Settled(Here(c), seen[c]) : lock' = [lock EXCEPT ![Here(c)] = L]
    BY <1>4, Zenon DEF Settle
  <2>3. lock[Here(c)] # {} => L = {} \/ L = lock[Here(c)]
    BY <2>2 DEF Settled
  <2> QED
    BY <1>0, <2>1, <2>2, <2>3
<1>5. ASSUME NEW c \in Connections, Touch(c) PROVE l.idle = Timeout
  <2>1. Here(c) \in Instances
    BY <1>5, Progress DEF Touch
  <2> QED
    BY <1>0, <1>5, <2>1 DEF Touch, Touched, LockRecord
<1>6. CASE Tick
  BY <1>0, <1>6 DEF Tick, Older, LockRecord
<1>7. ASSUME NEW c \in Connections, Message(c) PROVE l.idle = Timeout
  BY <1>1, <1>2, <1>3, <1>7 DEF Message, Focus, Release, Input
<1>8. ASSUME NEW c \in Connections, Step(c) PROVE l.idle = Timeout
  BY <1>1, <1>4, <1>5, <1>8 DEF Step, Leave, Join, Peek, Read, Send
<1>9. ASSUME NEW c \in Connections, Disconnect(c) \/ CleanUp(c) PROVE l.idle = Timeout
  BY <1>1, <1>2, <1>9 DEF CleanUp, Disconnect, LeaveAll, ReleaseOne
<1>10. CASE UNCHANGED vars
  BY <1>1, <1>10 DEF vars
<1> QED
  BY <1>2, <1>6, <1>7, <1>8, <1>9, <1>10 DEF Next, Unregister

\* No interleaving of handlers, clean-ups and requests takes a live lock from
\* its user before the timeout.
THEOREM TimeoutRespected == Spec => NoTakeoverBeforeTimeout
<1>1. TypeOK /\ [Next]_vars =>
         [\A i \in Instances : \A l \in lock[i], m \in lock'[i] :
             l.user # m.user => l.idle = Timeout]_vars
  BY TakeoverStep
<1> QED
  BY <1>1, TypeCorrect, PTL DEF Spec, NoTakeoverBeforeTimeout

-----------------------------------------------------------------------------
(* Presence.                                                                  *)

\* No piece of work in s moves a connection from one presence set to another.
NoMoves(s) == \A k \in 1..Len(s) : s[k].op \notin {"leave", "join"}

\* The work lists other than those of Focus move nobody; concatenation and
\* progress keep it so.
LEMMA NoMovesLists ==
    ASSUME NEW i \in Instances
    PROVE  /\ NoMoves(Reconcile(i)) /\ NoMoves(Announce(i)) /\ NoMoves(<<>>)
           /\ NoMoves(<<Do("touch", i)>>)
  BY DEF NoMoves, Reconcile, Announce, Do

LEMMA NoMovesConcat ==
    ASSUME NEW s \in Seq(Work), NEW r \in Seq(Work), NoMoves(s), NoMoves(r)
    PROVE  NoMoves(s \o r)
<1>1. \A k \in 1..Len(s \o r) :
         \/ k \in 1..Len(s) /\ (s \o r)[k] = s[k]
         \/ k - Len(s) \in 1..Len(r) /\ (s \o r)[k] = r[k - Len(s)]
  OBVIOUS
<1> QED
  BY <1>1 DEF NoMoves

LEMMA NoMovesTail ==
    ASSUME NEW s \in Seq(Work), s # <<>>, NoMoves(s)
    PROVE  NoMoves(Tail(s)) /\ Head(s).op \notin {"leave", "join"}
<1>1. \A k \in 1..Len(Tail(s)) : k + 1 \in 1..Len(s) /\ Tail(s)[k] = s[k + 1]
  OBVIOUS
<1>2. 1 \in 1..Len(s) /\ Head(s) = s[1]
  OBVIOUS
<1> QED
  BY <1>1, <1>2 DEF NoMoves

\* Taking the first one or two pieces of work off a list written with \o.
LEMMA OneOff ==
    ASSUME NEW a \in Work, NEW r \in Seq(Work)
    PROVE  /\ <<a>> \o r \in Seq(Work) /\ <<a>> \o r # <<>>
           /\ Head(<<a>> \o r) = a /\ Tail(<<a>> \o r) = r
  OBVIOUS

LEMMA TwoOff ==
    ASSUME NEW a \in Work, NEW b \in Work, NEW r \in Seq(Work)
    PROVE  /\ <<a, b>> \o r # <<>>
           /\ Head(<<a, b>> \o r) = a /\ Tail(<<a, b>> \o r) = <<b>> \o r
  OBVIOUS

\* Connection c is present exactly at the instances i with i = x (x may be NoOne).
PresentAt(c, x) == \A i \in Instances : c \in presence[i] <=> i = x

\* Where a connection is present, told from what it has still to do: on its way
\* from the instance it leaves, in no presence set, or where it is focused.
Leaving(c) ==
    /\ todo[c] # <<>> /\ Head(todo[c]).op = "leave"
    /\ PresentAt(c, Head(todo[c]).inst)
    /\ Tail(todo[c]) # <<>> /\ Head(Tail(todo[c])) = Do("join", focused[c])
    /\ NoMoves(Tail(Tail(todo[c])))

Joining(c) ==
    /\ todo[c] # <<>> /\ Head(todo[c]) = Do("join", focused[c])
    /\ \A i \in Instances : c \notin presence[i]
    /\ NoMoves(Tail(todo[c]))

Resting(c) == NoMoves(todo[c]) /\ PresentAt(c, focused[c])

Placed(c) ==
    \/ status[c] = "open" /\ (Leaving(c) \/ Joining(c) \/ Resting(c))
    \/ /\ status[c] = "closing" /\ todo[c] = <<>>
       /\ \A i, j \in Instances : c \in presence[i] /\ c \in presence[j] => i = j
    \/ /\ status[c] = "left" /\ NoMoves(todo[c])
       /\ \A i \in Instances : c \notin presence[i]

PresenceInv == \A c \in Connections : Placed(c)

\* What a step leaves alone of a connection keeps it placed.
LEMMA PlacedFrame ==
    ASSUME NEW c \in Connections, Placed(c),
           todo'[c] = todo[c], focused'[c] = focused[c], status'[c] = status[c],
           \A i \in Instances : c \in presence'[i] <=> c \in presence[i]
    PROVE  Placed(c)'
<1>1. Leaving(c) => Leaving(c)'
  BY DEF Leaving, PresentAt
<1>2. Joining(c) => Joining(c)'
  BY DEF Joining
<1>3. Resting(c) => Resting(c)'
  BY DEF Resting, PresentAt
<1> QED
  BY <1>1, <1>2, <1>3 DEF Placed

\* A piece of work that moves nobody, and the end of a handler's list.
LEMMA PlacedAdvance ==
    ASSUME TypeOK, NEW c \in Connections, Placed(c), NEW op, Doing(c, op),
           op \notin {"leave", "join"}, Advance(c),
           UNCHANGED <<presence, focused, status>>
    PROVE  Placed(c)'
<1>1. todo[c] \in Seq(Work) /\ todo[c] # <<>> /\ Head(todo[c]).op = op /\ todo'[c] = Tail(todo[c])
  BY DEF TypeOK, Doing, Advance
<1>2. ~Leaving(c) /\ ~Joining(c)
  BY <1>1 DEF Leaving, Joining, Do
<1>3. NoMoves(todo[c]) => NoMoves(Tail(todo[c]))
  BY <1>1, NoMovesTail
<1> QED
  BY <1>1, <1>2, <1>3 DEF Placed, Resting, PresentAt

\* A handler that moves nobody starts from, and leaves, a placed connection.
LEMMA PlacedStart ==
    ASSUME TypeOK, NEW c \in Connections, Placed(c), todo[c] = <<>>,
           status[c] # "closing", NEW s, NoMoves(s),
           todo' = [todo EXCEPT ![c] = s], UNCHANGED <<presence, focused, status>>
    PROVE  Placed(c)'
<1>1. todo'[c] = s
  BY DEF TypeOK
<1>2. ~Leaving(c) /\ ~Joining(c)
  BY DEF Leaving, Joining
<1> QED
  BY <1>1, <1>2 DEF Placed, Resting, PresentAt

\* What follows the move in Focus moves nobody.
LEMMA NoMovesAfterJoin ==
    ASSUME NEW i \in Instances, NEW prev \in Instances \cup {NoOne}
    PROVE  NoMoves(AfterJoin(prev, i))
<1>1. /\ Reconcile(i) \in Seq(Work) /\ NoMoves(Reconcile(i))
      /\ Announce(i) \in Seq(Work) /\ NoMoves(Announce(i))
  BY WorkLists, NoMovesLists
<1>2. CASE prev = NoOne
  BY <1>1, <1>2, NoMovesConcat DEF AfterJoin
<1>3. CASE prev # NoOne
  <2>1. /\ Reconcile(prev) \in Seq(Work) /\ NoMoves(Reconcile(prev))
        /\ Announce(prev) \in Seq(Work) /\ NoMoves(Announce(prev))
    <3>1. prev \in Instances
      BY <1>3
    <3> QED
      BY <3>1, WorkLists, NoMovesLists
  <2> DEFINE r == Reconcile(i) \o Reconcile(prev)
             a == r \o Announce(prev)
  <2>2. r \in Seq(Work) /\ NoMoves(r)
    BY <1>1, <2>1, NoMovesConcat
  <2> HIDE DEF r
  <2>3. a \in Seq(Work) /\ NoMoves(a)
    BY <2>1, <2>2, NoMovesConcat
  <2> HIDE DEF a
  <2>4. NoMoves(a \o Announce(i))
    BY <1>1, <2>3, NoMovesConcat
  <2> QED
    BY <1>3, <2>4 DEF AfterJoin, a, r
<1> QED
  BY <1>2, <1>3

\* Focus, the only handler that moves a connection, starts on a placed one.
LEMMA PlacedFocus ==
    ASSUME TypeOK, NEW c \in Connections, NEW i \in Instances, Placed(c), Focus(c, i)
    PROVE  Placed(c)'
<1> DEFINE prev == focused[c]
           rest == AfterJoin(prev, i)
<1>1. status[c] = "open" /\ status'[c] = "open" /\ todo[c] = <<>> /\ presence' = presence
  BY DEF Focus, Ready
<1>2. PresentAt(c, prev)
  BY <1>1 DEF Placed, Leaving, Joining, Resting
<1>3. focused'[c] = i /\ prev \in Instances \cup {NoOne}
  BY DEF Focus, TypeOK
<1>4. rest \in Seq(Work) /\ NoMoves(rest)
  BY <1>3, AfterJoinList, NoMovesAfterJoin
<1>5. Do("join", i) \in Work
  BY DEF Do, Work, Ops
<1>6. CASE prev = NoOne
  <2>1. todo'[c] = <<Do("join", i)>> \o rest
    BY <1>6 DEF Focus, Moves, TypeOK
  <2>2. todo'[c] # <<>> /\ Head(todo'[c]) = Do("join", i) /\ Tail(todo'[c]) = rest
    BY <1>4, <1>5, <2>1, OneOff
  <2>3. \A j \in Instances : c \notin presence'[j]
    BY <1>1, <1>2, <1>6, NoOneAssumption DEF PresentAt
  <2> QED
    BY <1>1, <1>3, <1>4, <2>2, <2>3 DEF Placed, Joining
<1>7. CASE prev # NoOne
  <2>1. todo'[c] = <<Do("leave", prev), Do("join", i)>> \o rest
    BY <1>7 DEF Focus, Moves, TypeOK
  <2>2. Do("leave", prev) \in Work
    BY <1>3, <1>7 DEF Do, Work, Ops
  <2>3. /\ todo'[c] # <<>> /\ Head(todo'[c]) = Do("leave", prev)
        /\ Tail(todo'[c]) = <<Do("join", i)>> \o rest
    BY <1>4, <1>5, <2>1, <2>2, TwoOff
  <2>4. /\ Tail(todo'[c]) # <<>> /\ Head(Tail(todo'[c])) = Do("join", i)
        /\ Tail(Tail(todo'[c])) = rest
    BY <1>4, <1>5, <2>3, OneOff
  <2>5. Head(todo'[c]).op = "leave" /\ Head(todo'[c]).inst = prev
    BY <2>3 DEF Do
  <2>6. Leaving(c)'
    <3>1. \A j \in Instances : c \in presence'[j] <=> j = Head(todo'[c]).inst
      BY <1>1, <1>2, <2>5 DEF PresentAt
    <3> QED
      BY <1>3, <1>4, <2>3, <2>4, <2>5, <3>1 DEF Leaving, PresentAt
  <2> QED
    BY <1>1, <2>6 DEF Placed
<1> QED
  BY <1>6, <1>7

\* Every step leaves every connection placed.
LEMMA PresenceStep == TypeOK /\ PresenceInv /\ [Next]_vars => PresenceInv'
<1> SUFFICES ASSUME TypeOK, PresenceInv, [Next]_vars, NEW c \in Connections
             PROVE  Placed(c)'
  BY DEF PresenceInv
<1> USE DEF lockVars, connVars
<1>0. /\ Placed(c)
      /\ presence \in [Instances -> SUBSET Connections]
      /\ todo \in [Connections -> Seq(Work)]
      /\ focused \in [Connections -> Instances \cup {NoOne}]
      /\ status \in [Connections -> {"open", "closing", "left"}]
  BY DEF PresenceInv, TypeOK
<1>1. CASE UNCHANGED <<presence, todo, focused, status>>
  BY <1>0, <1>1, PlacedFrame
<1>2. ASSUME NEW d \in Connections, d # c, NEW s, NEW x, NEW y,
             todo' = [todo EXCEPT ![d] = s], focused' = [focused EXCEPT ![d] = x],
             status' = [status EXCEPT ![d] = y],
             \A i \in Instances : c \in presence'[i] <=> c \in presence[i]
      PROVE  Placed(c)'
  BY <1>0, <1>2, PlacedFrame
<1>3. ASSUME NEW d \in Connections, Message(d) PROVE Placed(c)'
  <2>1. PICK i \in Instances : Focus(d, i) \/ Request(d, i) \/ Release(d, i) \/ Input(d, i)
    BY <1>3 DEF Message
  <2>2. CASE d # c
    <3>1. /\ \E s : todo' = [todo EXCEPT ![d] = s]
          /\ \E x : focused' = [focused EXCEPT ![d] = x]
          /\ status' = [status EXCEPT ![d] = status[d]]
          /\ presence' = presence
      <4>1. focused = [focused EXCEPT ![d] = focused[d]] /\ status = [status EXCEPT ![d] = status[d]]
        BY <1>0
      <4> QED
        BY <2>1, <4>1 DEF Focus, Request, Release, Input
    <3> QED
      BY <1>2, <2>2, <3>1
  <2>3. CASE d = c /\ Focus(c, i)
    BY <1>0, <2>3, PlacedFocus
  <2>4. CASE d = c /\ ~Focus(c, i)
    <3>1. /\ todo[c] = <<>> /\ status[c] # "closing"
          /\ UNCHANGED <<presence, focused, status>>
      BY <2>1, <2>4 DEF Request, Release, Input, Ready
    <3>2. PICK s \in {Announce(i), Reconcile(i) \o Announce(i), <<Do("touch", i)>>} :
              todo' = [todo EXCEPT ![c] = s]
      BY <2>1, <2>4 DEF Request, Release, Input
    <3>3. NoMoves(s)
      BY <3>2, WorkLists, NoMovesLists, NoMovesConcat
    <3> QED
      BY <1>0, <3>1, <3>2, <3>3, PlacedStart
  <2> QED
    BY <2>1, <2>2, <2>3, <2>4
<1>4. ASSUME NEW d \in Connections, Step(d) PROVE Placed(c)'
  <2>1. UNCHANGED <<focused, status>> /\ Advance(d) /\ todo[d] # <<>>
    BY <1>4 DEF Step, Leave, Join, Peek, Settle, Touch, Read, Send, Doing
  <2>2. CASE d # c
    <3>1. /\ focused' = [focused EXCEPT ![d] = focused[d]]
          /\ status' = [status EXCEPT ![d] = status[d]]
          /\ todo' = [todo EXCEPT ![d] = Tail(todo[d])]
      BY <1>0, <2>1 DEF Advance
    <3>2. \A i \in Instances : c \in presence'[i] <=> c \in presence[i]
      <4>1. CASE Leave(d) \/ Join(d)
        <5>1. PICK j, S : presence' = [presence EXCEPT ![j] = S]
                          /\ S \in {presence[j] \ {d}, presence[j] \cup {d}}
          BY <4>1, Zenon DEF Leave, Join
        <5> QED
          BY <1>0, <2>2, <5>1
      <4>2. CASE presence' = presence
        BY <4>2
      <4> QED
        BY <1>4, <4>1, <4>2 DEF Step, Peek, Settle, Touch, Read, Send
    <3> QED
      BY <1>2, <2>2, <3>1, <3>2
  <2>3. CASE d = c /\ Leave(c)
    <3>1. Leaving(c) /\ status[c] = "open"
      <4>1. ~NoMoves(todo[c])
        BY <1>0, <2>3, NoMovesTail DEF Leave, Doing
      <4>2. todo[c] # <<>> /\ Head(todo[c]).op = "leave"
        BY <2>3 DEF Leave, Doing
      <4> QED
        BY <1>0, <4>1, <4>2 DEF Placed, Joining, Resting, Do
    <3>2. todo'[c] = Tail(todo[c])
      BY <1>0, <2>1, <2>3 DEF Advance
    <3>3. \A i \in Instances : c \notin presence'[i]
      BY <1>0, <2>3, <3>1 DEF Leave, Leaving, PresentAt, Here
    <3> QED
      BY <2>1, <3>1, <3>2, <3>3 DEF Placed, Leaving, Joining
  <2>4. CASE d = c /\ Join(c)
    <3>1. Joining(c) /\ status[c] = "open"
      <4>1. ~NoMoves(todo[c])
        BY <1>0, <2>4, NoMovesTail DEF Join, Doing
      <4>2. todo[c] # <<>> /\ Head(todo[c]).op = "join"
        BY <2>4 DEF Join, Doing
      <4> QED
        BY <1>0, <4>1, <4>2 DEF Placed, Leaving, Resting
    <3>2. todo'[c] = Tail(todo[c])
      BY <1>0, <2>1, <2>4 DEF Advance
    <3>3. \A i \in Instances : c \in presence'[i] <=> i = focused[c]
      <4>1. Here(c) = focused[c]
        BY <3>1 DEF Joining, Here, Do
      <4> QED
        BY <1>0, <2>4, <3>1, <4>1 DEF Join, Joining
    <3> QED
      BY <2>1, <3>1, <3>2, <3>3 DEF Placed, Joining, Resting, PresentAt
  <2>5. CASE d = c /\ (Peek(c) \/ Settle(c) \/ Touch(c) \/ Read(c) \/ Send(c))
    <3>1. presence' = presence
      BY <2>5 DEF Peek, Settle, Touch, Read, Send
    <3>2. PICK op \in {"peek", "settle", "touch", "read", "send"} : Doing(c, op)
      BY <2>5 DEF Peek, Settle, Touch, Read, Send
    <3> QED
      BY <1>0, <2>1, <2>5, <3>1, <3>2, PlacedAdvance
  <2> QED
    BY <1>4, <2>2, <2>3, <2>4, <2>5 DEF Step
<1>5. ASSUME NEW d \in Connections, Disconnect(d) PROVE Placed(c)'
  <2>1. CASE d # c
    BY <1>0, <1>5, <2>1, PlacedFrame DEF Disconnect
  <2>2. CASE d = c
    <3>1. \A i, j \in Instances : c \in presence[i] /\ c \in presence[j] => i = j
      BY <1>0, <1>5, <2>2 DEF Disconnect, Placed, Leaving, Joining, Resting, PresentAt
    <3> QED
      BY <1>0, <1>5, <2>2, <3>1 DEF Disconnect, Placed
  <2> QED
    BY <2>1, <2>2
<1>6. ASSUME NEW d \in Connections, LeaveAll(d) PROVE Placed(c)'
  <2>1. CASE d # c
    BY <1>0, <1>6, <2>1, PlacedFrame DEF LeaveAll
  <2>2. CASE d = c
    <3>1. todo[c] = <<>>
      BY <1>0, <1>6, <2>2 DEF LeaveAll, Placed
    <3> QED
      BY <1>0, <1>6, <2>2, <3>1 DEF LeaveAll, Placed, NoMoves
  <2> QED
    BY <2>1, <2>2
<1>7. ASSUME NEW d \in Connections, NEW i \in Instances, ReleaseOne(d, i) PROVE Placed(c)'
  <2>1. CASE d # c
    BY <1>0, <1>7, <2>1, PlacedFrame DEF ReleaseOne
  <2>2. CASE d = c
    <3>1. todo[c] = <<>> /\ status[c] # "closing" /\ UNCHANGED <<presence, focused, status>>
      BY <1>7, <2>2 DEF ReleaseOne
    <3>2. PICK s \in {Announce(i), Reconcile(i) \o Announce(i)} :
              todo' = [todo EXCEPT ![c] = s]
      BY <1>7, <2>2 DEF ReleaseOne
    <3>3. NoMoves(s)
      BY <3>2, WorkLists, NoMovesLists, NoMovesConcat
    <3> QED
      BY <1>0, <3>1, <3>2, <3>3, PlacedStart
  <2> QED
    BY <2>1, <2>2
<1> QED
  BY <1>1, <1>3, <1>4, <1>5, <1>6, <1>7 DEF Next, CleanUp, Unregister, Tick, vars

LEMMA PresenceInvariant == Spec => []PresenceInv
<1>1. Init => PresenceInv
  <2> SUFFICES ASSUME Init, NEW c \in Connections PROVE Placed(c)
    BY DEF PresenceInv
  <2>1. NoMoves(todo[c])
    BY DEF Init, NoMoves
  <2>2. PresentAt(c, focused[c])
    BY NoOneAssumption DEF Init, PresentAt
  <2> QED
    BY <2>1, <2>2 DEF Init, Placed, Resting
<1> QED
  BY <1>1, PresenceStep, TypeCorrect, PTL DEF Spec

\* Between messages a connection is present exactly where it is focused; once
\* its clean-up has run it is present nowhere, wherever its handler was dropped.
THEOREM PresenceCorrect == Spec => []PresenceMatchesFocus
<1>1. TypeOK /\ PresenceInv => PresenceMatchesFocus
  BY DEF PresenceInv, Placed, Leaving, Joining, Resting, PresentAt, PresenceMatchesFocus
<1> QED
  BY <1>1, PresenceInvariant, TypeCorrect, PTL

\* At every point of every handler a connection is in one presence set at most.
THEOREM PresentOnceCorrect == Spec => []PresentOnce
<1>1. TypeOK /\ PresenceInv => PresentOnce
  BY DEF PresenceInv, Placed, Leaving, Joining, Resting, PresentAt, PresentOnce
<1> QED
  BY <1>1, PresenceInvariant, TypeCorrect, PTL

-----------------------------------------------------------------------------
(* One handler at a time: what a reconcile and an announcement leave behind.  *)

\* w is one of the pieces of work in s.
Ahead(s, w) == \E k \in 1..Len(s) : s[k] = w

\* A list of work in which a reconcile copies presence right before it settles
\* and is announced later, an announcement reads right before it sends, and an
\* instance that is left is reconciled later.
Planned(s) ==
    \A k \in 1..Len(s) :
        /\ s[k].op = "settle" =>
              /\ k = 1 \/ s[k - 1] = Do("peek", s[k].inst)
              /\ \E n \in (k + 1)..Len(s) : s[n] = Do("send", s[k].inst)
        /\ s[k].op = "send" => k = 1 \/ s[k - 1] = Do("read", s[k].inst)
        /\ s[k].op = "leave" => \E n \in (k + 1)..Len(s) : s[n] = Do("settle", s[k].inst)

\* Connection c is neither in a handler nor in its clean-up.
Idle(c) == todo[c] = <<>> /\ status[c] # "closing" /\ affected[c] = {}

\* One connection at most is at work.
OneBusy == \A c, d \in Connections : Idle(c) \/ Idle(d) \/ c = d

\* A reconcile settles on the presence of that moment.
SettlesOnPresence ==
    \A c \in Connections : Doing(c, "settle") => seen[c] = presence[Here(c)]

\* The clean-up of c has still to release what c held at i.
StillToRelease(c, i) == status[c] = "left" /\ i \in affected[c]

\* A holder who is not viewing the instance is about to be dealt with.
HoldersDue ==
    \A i \in Instances : \A l \in lock[i] :
        \/ l.conn \in presence[i]
        \/ \E c \in Connections : Ahead(todo[c], Do("settle", i))
        \/ StillToRelease(l.conn, i)

\* An announcement sends the holder of that moment.
SendsHolder ==
    \A c \in Connections :
        Doing(c, "send") /\ Here(c) \in registered => read[c] = Holder(Here(c))

\* A change of holder the clients have not been told is about to be announced.
AnnouncementsDue ==
    \A i \in registered :
        \/ announced[i] = Holder(i)
        \/ \E c \in Connections : Ahead(todo[c], Do("send", i)) \/ StillToRelease(c, i)

SerialInv ==
    /\ OneBusy
    /\ \A c \in Connections : Planned(todo[c])
    /\ SettlesOnPresence
    /\ SendsHolder
    /\ AnnouncementsDue

\* What the head of a planned list says of the rest of it.
LEMMA PlannedHead ==
    ASSUME NEW s \in Seq(Work), s # <<>>, Planned(s)
    PROVE  /\ Head(s).op = "settle" => Ahead(Tail(s), Do("send", Head(s).inst))
           /\ Head(s).op = "leave" => Ahead(Tail(s), Do("settle", Head(s).inst))
           /\ Tail(s) # <<>> /\ Head(Tail(s)).op = "settle" =>
                 Head(s) = Do("peek", Head(Tail(s)).inst)
           /\ Tail(s) # <<>> /\ Head(Tail(s)).op = "send" =>
                 Head(s) = Do("read", Head(Tail(s)).inst)
<1>1. 1 \in 1..Len(s) /\ Head(s) = s[1]
  OBVIOUS
<1>2. \A n \in 2..Len(s) : n - 1 \in 1..Len(Tail(s)) /\ Tail(s)[n - 1] = s[n]
  OBVIOUS
<1>3. \A w : (\E n \in 2..Len(s) : s[n] = w) => Ahead(Tail(s), w)
  BY <1>2 DEF Ahead
<1>4. Tail(s) # <<>> => 2 \in 1..Len(s) /\ Head(Tail(s)) = s[2]
  OBVIOUS
<1>5. /\ s[1].op = "settle" => \E n \in 2..Len(s) : s[n] = Do("send", s[1].inst)
      /\ s[1].op = "leave" => \E n \in 2..Len(s) : s[n] = Do("settle", s[1].inst)
  BY <1>1 DEF Planned
<1>6. 2 \in 1..Len(s) =>
         /\ s[2].op = "settle" => s[1] = Do("peek", s[2].inst)
         /\ s[2].op = "send" => s[1] = Do("read", s[2].inst)
  BY DEF Planned
<1> QED
  BY <1>1, <1>3, <1>4, <1>5, <1>6

\* Advancing keeps a list planned, and keeps ahead what is not the piece done.
LEMMA PlannedTail ==
    ASSUME NEW s \in Seq(Work), s # <<>>, Planned(s)
    PROVE  Planned(Tail(s))
<1>1. \A n \in 2..Len(s) : n - 1 \in 1..Len(Tail(s)) /\ Tail(s)[n - 1] = s[n]
  OBVIOUS
<1> SUFFICES ASSUME NEW k \in 1..Len(Tail(s))
             PROVE  /\ Tail(s)[k].op = "settle" =>
                          /\ k = 1 \/ Tail(s)[k - 1] = Do("peek", Tail(s)[k].inst)
                          /\ \E n \in (k + 1)..Len(Tail(s)) :
                                Tail(s)[n] = Do("send", Tail(s)[k].inst)
                    /\ Tail(s)[k].op = "send" =>
                          k = 1 \/ Tail(s)[k - 1] = Do("read", Tail(s)[k].inst)
                    /\ Tail(s)[k].op = "leave" =>
                          \E n \in (k + 1)..Len(Tail(s)) :
                             Tail(s)[n] = Do("settle", Tail(s)[k].inst)
  BY DEF Planned
<1>2. k + 1 \in 2..Len(s) /\ Tail(s)[k] = s[k + 1]
  OBVIOUS
<1>3. k # 1 => k - 1 \in 1..Len(Tail(s)) /\ Tail(s)[k - 1] = s[k]
  OBVIOUS
<1>4. \A w : (\E n \in (k + 2)..Len(s) : s[n] = w) =>
                \E n \in (k + 1)..Len(Tail(s)) : Tail(s)[n] = w
  <2> TAKE w
  <2> SUFFICES ASSUME NEW n \in (k + 2)..Len(s), s[n] = w
               PROVE  \E m \in (k + 1)..Len(Tail(s)) : Tail(s)[m] = w
    OBVIOUS
  <2>1. n - 1 \in (k + 1)..Len(Tail(s)) /\ Tail(s)[n - 1] = w
    OBVIOUS
  <2> QED
    BY <2>1
<1>5. k + 1 \in 1..Len(s) /\ (k + 1) - 1 = k /\ (k + 1) + 1 = k + 2
  BY <1>2
<1>6. /\ s[k + 1].op = "settle" =>
            /\ s[k] = Do("peek", s[k + 1].inst)
            /\ \E n \in (k + 2)..Len(s) : s[n] = Do("send", s[k + 1].inst)
      /\ s[k + 1].op = "send" => s[k] = Do("read", s[k + 1].inst)
      /\ s[k + 1].op = "leave" =>
            \E n \in (k + 2)..Len(s) : s[n] = Do("settle", s[k + 1].inst)
  BY <1>2, <1>5 DEF Planned
<1> QED
  BY <1>2, <1>3, <1>4, <1>6

LEMMA AheadTail ==
    ASSUME NEW s \in Seq(Work), s # <<>>, NEW w, Ahead(s, w), Head(s) # w
    PROVE  Ahead(Tail(s), w)
<1>1. PICK k \in 1..Len(s) : s[k] = w
  BY DEF Ahead
<1>2. k # 1
  BY <1>1
<1>3. k - 1 \in 1..Len(Tail(s)) /\ Tail(s)[k - 1] = w
  BY <1>1, <1>2
<1> QED
  BY <1>3 DEF Ahead

\* Lists written with \o, element by element.
LEMMA SameList ==
    ASSUME NEW s \in Seq(Work), NEW t \in Seq(Work), Len(s) = Len(t),
           \A k \in 1..Len(s) : s[k] = t[k]
    PROVE  s = t
  OBVIOUS

LEMMA FourPieces ==
    ASSUME NEW a \in Work, NEW b \in Work, NEW c \in Work, NEW d \in Work
    PROVE  <<a, b>> \o <<c, d>> = <<a, b, c, d>>
<1>1. <<a, b>> \in Seq(Work) /\ <<c, d>> \in Seq(Work) /\ <<a, b, c, d>> \in Seq(Work)
  OBVIOUS
<1>2. /\ Len(<<a, b>> \o <<c, d>>) = 4 /\ Len(<<a, b, c, d>>) = 4
      /\ \A k \in 1..4 : (<<a, b>> \o <<c, d>>)[k] = <<a, b, c, d>>[k]
  BY <1>1
<1>3. <<a, b>> \o <<c, d>> \in Seq(Work)
  BY <1>1
<1> QED
  BY <1>1, <1>2, <1>3, SameList

LEMMA FivePieces ==
    ASSUME NEW a \in Work, NEW b \in Work, NEW c \in Work, NEW d \in Work,
           NEW e \in Work
    PROVE  <<a>> \o <<b, c, d, e>> = <<a, b, c, d, e>>
<1>1. <<a>> \in Seq(Work) /\ <<b, c, d, e>> \in Seq(Work) /\ <<a, b, c, d, e>> \in Seq(Work)
  OBVIOUS
<1>2. /\ Len(<<a>> \o <<b, c, d, e>>) = 5 /\ Len(<<a, b, c, d, e>>) = 5
      /\ \A k \in 1..5 : (<<a>> \o <<b, c, d, e>>)[k] = <<a, b, c, d, e>>[k]
  BY <1>1
<1>3. <<a>> \o <<b, c, d, e>> \in Seq(Work)
  BY <1>1
<1> QED
  BY <1>1, <1>2, <1>3, SameList

LEMMA SixPieces ==
    ASSUME NEW a \in Work, NEW b \in Work, NEW c \in Work, NEW d \in Work,
           NEW e \in Work, NEW f \in Work
    PROVE  <<a, b, c, d>> \o <<e, f>> = <<a, b, c, d, e, f>>
<1>1. <<a, b, c, d>> \in Seq(Work) /\ <<e, f>> \in Seq(Work) /\ <<a, b, c, d, e, f>> \in Seq(Work)
  OBVIOUS
<1>2. /\ Len(<<a, b, c, d>> \o <<e, f>>) = 6 /\ Len(<<a, b, c, d, e, f>>) = 6
      /\ \A k \in 1..6 : (<<a, b, c, d>> \o <<e, f>>)[k] = <<a, b, c, d, e, f>>[k]
  BY <1>1
<1>3. <<a, b, c, d>> \o <<e, f>> \in Seq(Work)
  BY <1>1
<1> QED
  BY <1>1, <1>2, <1>3, SameList

LEMMA TwoMore ==
    ASSUME NEW s \in Seq(Work), NEW g \in Work, NEW h \in Work
    PROVE  /\ s \o <<g, h>> \in Seq(Work) /\ Len(s \o <<g, h>>) = Len(s) + 2
           /\ \A k \in 1..Len(s) : (s \o <<g, h>>)[k] = s[k]
           /\ (s \o <<g, h>>)[Len(s) + 1] = g /\ (s \o <<g, h>>)[Len(s) + 2] = h
  OBVIOUS

LEMMA TwoBefore ==
    ASSUME NEW s \in Seq(Work), NEW g \in Work, NEW h \in Work
    PROVE  /\ <<g, h>> \o s \in Seq(Work) /\ Len(<<g, h>> \o s) = Len(s) + 2
           /\ \A k \in 1..Len(s) : (<<g, h>> \o s)[k + 2] = s[k]
           /\ (<<g, h>> \o s)[1] = g /\ (<<g, h>> \o s)[2] = h
  OBVIOUS

\* Every handler starts on a planned list; one that reconciles or releases
\* announces the instance.
LEMMA PlannedLists ==
    ASSUME NEW i \in Instances
    PROVE  /\ Planned(<<>>) /\ Planned(Announce(i)) /\ Planned(<<Do("touch", i)>>)
           /\ Planned(Reconcile(i) \o Announce(i))
           /\ Ahead(Announce(i), Do("send", i))
           /\ Ahead(Reconcile(i) \o Announce(i), Do("send", i))
<1>1. Planned(<<>>)
  BY DEF Planned
<1>2. Planned(<<Do("touch", i)>>)
  BY DEF Planned, Do
<1>3. Planned(Announce(i)) /\ Ahead(Announce(i), Do("send", i))
  BY DEF Planned, Ahead, Announce, Do
<1>4. Reconcile(i) \o Announce(i) =
         <<Do("peek", i), Do("settle", i), Do("read", i), Do("send", i)>>
  <2>1. /\ Do("peek", i) \in Work /\ Do("settle", i) \in Work
        /\ Do("read", i) \in Work /\ Do("send", i) \in Work
    BY PieceOfWork
  <2> QED
    BY <2>1, FourPieces DEF Reconcile, Announce
<1>5. Planned(<<Do("peek", i), Do("settle", i), Do("read", i), Do("send", i)>>)
  BY DEF Planned, Do
<1>6. Ahead(<<Do("peek", i), Do("settle", i), Do("read", i), Do("send", i)>>, Do("send", i))
  BY DEF Ahead
<1> QED
  BY <1>1, <1>2, <1>3, <1>4, <1>5, <1>6

LEMMA PlannedFocus ==
    ASSUME NEW i \in Instances, NEW prev \in Instances \cup {NoOne}
    PROVE  Planned(Moves(prev, i) \o AfterJoin(prev, i))
<1>1. CASE prev = NoOne
  <2>1. Moves(prev, i) \o AfterJoin(prev, i) =
           <<Do("join", i), Do("peek", i), Do("settle", i), Do("read", i), Do("send", i)>>
    <3>1. /\ Do("peek", i) \in Work /\ Do("settle", i) \in Work
          /\ Do("read", i) \in Work /\ Do("send", i) \in Work /\ Do("join", i) \in Work
      BY PieceOfWork
    <3>2. AfterJoin(prev, i) = <<Do("peek", i), Do("settle", i), Do("read", i), Do("send", i)>>
      BY <1>1, <3>1, FourPieces DEF AfterJoin, Reconcile, Announce
    <3>3. Moves(prev, i) = <<Do("join", i)>>
      BY <1>1 DEF Moves
    <3> QED
      BY <3>1, <3>2, <3>3, FivePieces
  <2>2. Planned(<<Do("join", i), Do("peek", i), Do("settle", i), Do("read", i), Do("send", i)>>)
    BY DEF Planned, Do
  <2> QED
    BY <2>1, <2>2
<1>2. CASE prev # NoOne
  <2> DEFINE list == Moves(prev, i) \o AfterJoin(prev, i)
  <2>1. /\ Len(list) = 10
        /\ list[1] = Do("leave", prev) /\ list[2] = Do("join", i)
        /\ list[3] = Do("peek", i) /\ list[4] = Do("settle", i)
        /\ list[5] = Do("peek", prev) /\ list[6] = Do("settle", prev)
        /\ list[7] = Do("read", prev) /\ list[8] = Do("send", prev)
        /\ list[9] = Do("read", i) /\ list[10] = Do("send", i)
    <3>1. prev \in Instances
      BY <1>2
    <3>2. /\ Do("join", i) \in Work /\ Do("peek", i) \in Work /\ Do("settle", i) \in Work
          /\ Do("read", i) \in Work /\ Do("send", i) \in Work
          /\ Do("leave", prev) \in Work /\ Do("peek", prev) \in Work
          /\ Do("settle", prev) \in Work /\ Do("read", prev) \in Work
          /\ Do("send", prev) \in Work
      BY <3>1, PieceOfWork
    <3>3. Reconcile(i) \o Reconcile(prev) =
             <<Do("peek", i), Do("settle", i), Do("peek", prev), Do("settle", prev)>>
      BY <3>2, FourPieces DEF Reconcile
    <3>4. (Reconcile(i) \o Reconcile(prev)) \o Announce(prev) =
             <<Do("peek", i), Do("settle", i), Do("peek", prev), Do("settle", prev),
               Do("read", prev), Do("send", prev)>>
      BY <3>2, <3>3, SixPieces DEF Announce
    <3> DEFINE six == <<Do("peek", i), Do("settle", i), Do("peek", prev),
                        Do("settle", prev), Do("read", prev), Do("send", prev)>>
               eight == six \o <<Do("read", i), Do("send", i)>>
    <3>5. six \in Seq(Work)
      BY <3>2
    <3>l. Len(six) = 6
      OBVIOUS
    <3>6. /\ six[1] = Do("peek", i) /\ six[2] = Do("settle", i)
          /\ six[3] = Do("peek", prev) /\ six[4] = Do("settle", prev)
          /\ six[5] = Do("read", prev) /\ six[6] = Do("send", prev)
      OBVIOUS
    <3>7. AfterJoin(prev, i) = eight
      BY <1>2, <3>4 DEF AfterJoin, Announce
    <3>8. Moves(prev, i) = <<Do("leave", prev), Do("join", i)>>
      BY <1>2 DEF Moves
    <3> HIDE DEF six
    <3>9. /\ eight \in Seq(Work) /\ Len(eight) = 8
          /\ \A k \in 1..6 : eight[k] = six[k]
          /\ eight[7] = Do("read", i) /\ eight[8] = Do("send", i)
      <4>1. /\ eight \in Seq(Work) /\ Len(eight) = Len(six) + 2
            /\ \A k \in 1..Len(six) : eight[k] = six[k]
            /\ eight[Len(six) + 1] = Do("read", i) /\ eight[Len(six) + 2] = Do("send", i)
        BY <3>2, <3>5, TwoMore
      <4> QED
        BY <3>l, <4>1
    <3>e. eight \in Seq(Work)
      BY <3>9
    <3> HIDE DEF eight
    <3>10. /\ Len(list) = 10
           /\ \A k \in 1..8 : list[k + 2] = eight[k]
           /\ list[1] = Do("leave", prev) /\ list[2] = Do("join", i)
      <4>1. /\ Len(list) = Len(eight) + 2
            /\ \A k \in 1..Len(eight) : list[k + 2] = eight[k]
            /\ list[1] = Do("leave", prev) /\ list[2] = Do("join", i)
        BY <3>2, <3>7, <3>8, <3>e, TwoBefore
      <4>2. Len(eight) = 8
        BY <3>9
      <4> HIDE DEF list
      <4> QED
        BY <4>1, <4>2
    <3> HIDE DEF list
    <3>11. \A k \in 3..10 : list[k] = eight[k - 2]
      <4> TAKE k \in 3..10
      <4>1. k - 2 \in 1..8 /\ (k - 2) + 2 = k
        OBVIOUS
      <4> QED
        BY <3>10, <4>1
    <3> QED
      BY <3>6, <3>9, <3>10, <3>11
  <2> HIDE DEF list
  <2>4. /\ 4 - 1 = 3 /\ 6 - 1 = 5 /\ 8 - 1 = 7 /\ 10 - 1 = 9
        /\ 8 \in (6 + 1)..10 /\ 10 \in (4 + 1)..10 /\ 6 \in (1 + 1)..10
    OBVIOUS
  <2>5. ASSUME NEW k \in 1..10
        PROVE  /\ list[k].op = "settle" =>
                     /\ k = 1 \/ list[k - 1] = Do("peek", list[k].inst)
                     /\ \E n \in (k + 1)..10 : list[n] = Do("send", list[k].inst)
               /\ list[k].op = "send" => k = 1 \/ list[k - 1] = Do("read", list[k].inst)
               /\ list[k].op = "leave" =>
                     \E n \in (k + 1)..10 : list[n] = Do("settle", list[k].inst)
    <3>1. \A op, j : Do(op, j).op = op /\ Do(op, j).inst = j
      BY DEF Do
    <3>2. CASE k = 1
      BY <2>1, <2>4, <3>1, <3>2
    <3>3. CASE k = 4
      BY <2>1, <2>4, <3>1, <3>3
    <3>4. CASE k = 6
      BY <2>1, <2>4, <3>1, <3>4
    <3>5. CASE k = 8 \/ k = 10
      BY <2>1, <2>4, <3>1, <3>5
    <3>6. CASE k \in {2, 3, 5, 7, 9}
      BY <2>1, <3>1, <3>6
    <3> QED
      BY <3>2, <3>3, <3>4, <3>5, <3>6
  <2>6. Planned(list)
    BY <2>1, <2>5 DEF Planned
  <2> QED
    BY <2>6 DEF list
<1> QED
  BY <1>1, <1>2

\* With one handler at a time, whoever acts finds the others idle and leaves
\* them alone.
LEMMA OneActs ==
    ASSUME Serial, TypeOK, OneBusy, NEW c \in Connections,
           Message(c) \/ Step(c) \/ Disconnect(c) \/ CleanUp(c),
           NEW d \in Connections, d # c
    PROVE  /\ Idle(d)
           /\ todo'[d] = todo[d] /\ status'[d] = status[d] /\ affected'[d] = affected[d]
<1> USE DEF connVars
<1>0. /\ todo \in [Connections -> Seq(Work)] /\ affected \in [Connections -> SUBSET Instances]
      /\ status \in [Connections -> {"open", "closing", "left"}]
  BY DEF TypeOK
<1>1. Idle(d)
  <2>1. CASE Message(c) \/ Disconnect(c)
    BY <2>1 DEF Message, Focus, Request, Release, Input, Disconnect, Ready, Idle
  <2>2. CASE Step(c) \/ CleanUp(c)
    <3>1. ~Idle(c)
      BY <2>2 DEF Step, Leave, Join, Peek, Settle, Touch, Read, Send, Doing, CleanUp,
                  LeaveAll, ReleaseOne, Idle
    <3> QED
      BY <3>1 DEF OneBusy
  <2> QED
    BY <2>1, <2>2
<1>2. todo'[d] = todo[d]
  <2>1. CASE Step(c)
    BY <1>0, <2>1 DEF Step, Leave, Join, Peek, Settle, Touch, Read, Send, Advance
  <2>2. CASE ~Step(c)
    BY <1>0, <2>2 DEF Message, Focus, Request, Release, Input, Disconnect, CleanUp,
                      LeaveAll, ReleaseOne
  <2> QED
    BY <2>1, <2>2
<1>3. status'[d] = status[d] /\ affected'[d] = affected[d]
  <2>1. CASE Step(c)
    BY <1>0, <2>1 DEF Step, Leave, Join, Peek, Settle, Touch, Read, Send
  <2>2. CASE Message(c)
    BY <1>0, <2>2 DEF Message, Focus, Request, Release, Input
  <2>3. CASE Disconnect(c) \/ CleanUp(c)
    BY <1>0, <2>3 DEF Disconnect, CleanUp, LeaveAll, ReleaseOne
  <2> QED
    BY <2>1, <2>2, <2>3
<1> QED
  BY <1>1, <1>2, <1>3

\* A handler starts on a planned list that begins with neither half of a pair;
\* a step is at the head of the list and leaves its tail; the end drops the list.
LEMMA TodoAfter ==
    ASSUME TypeOK, PresenceInv, NEW c \in Connections
    PROVE  /\ \A i \in Instances :
                 Focus(c, i) \/ Request(c, i) \/ Release(c, i) \/ Input(c, i) \/ ReleaseOne(c, i) =>
                    /\ Planned(todo'[c]) /\ todo'[c] # <<>>
                    /\ Head(todo'[c]).op \notin {"settle", "send"}
           /\ Step(c) => todo[c] # <<>> /\ todo'[c] = Tail(todo[c])
           /\ Disconnect(c) \/ LeaveAll(c) => todo'[c] = <<>>
<1>0. todo \in [Connections -> Seq(Work)] /\ focused \in [Connections -> Instances \cup {NoOne}]
  BY DEF TypeOK
<1>1. ASSUME NEW i \in Instances, Focus(c, i)
      PROVE  /\ Planned(todo'[c]) /\ todo'[c] # <<>>
             /\ Head(todo'[c]).op \notin {"settle", "send"}
  <2>1. todo'[c] = Moves(focused[c], i) \o AfterJoin(focused[c], i)
    BY <1>0, <1>1 DEF Focus
  <2>2. AfterJoin(focused[c], i) \in Seq(Work)
    BY <1>0, AfterJoinList
  <2>3. Planned(todo'[c])
    BY <1>0, <2>1, PlannedFocus
  <2>4. CASE focused[c] = NoOne
    <3>1. Do("join", i) \in Work
      BY PieceOfWork
    <3>2. todo'[c] # <<>> /\ Head(todo'[c]) = Do("join", i)
      BY <2>1, <2>2, <2>4, <3>1, OneOff DEF Moves
    <3> QED
      BY <2>3, <3>2 DEF Do
  <2>5. CASE focused[c] # NoOne
    <3>1. Do("leave", focused[c]) \in Work /\ Do("join", i) \in Work
      BY <1>0, <2>5, PieceOfWork
    <3>2. todo'[c] # <<>> /\ Head(todo'[c]) = Do("leave", focused[c])
      BY <2>1, <2>2, <2>5, <3>1, TwoOff DEF Moves
    <3> QED
      BY <2>3, <3>2 DEF Do
  <2> QED
    BY <2>4, <2>5
<1>2. ASSUME NEW i \in Instances,
             Request(c, i) \/ Release(c, i) \/ Input(c, i) \/ ReleaseOne(c, i)
      PROVE  /\ Planned(todo'[c]) /\ todo'[c] # <<>>
             /\ Head(todo'[c]).op \notin {"settle", "send"}
  <2>1. todo'[c] \in {Announce(i), Reconcile(i) \o Announce(i), <<Do("touch", i)>>}
    BY <1>0, <1>2 DEF Request, Release, Input, ReleaseOne
  <2>2. Planned(todo'[c])
    BY <2>1, PlannedLists
  <2>3. CASE todo'[c] \in {Announce(i), <<Do("touch", i)>>}
    BY <2>2, <2>3 DEF Announce, Do
  <2>4. CASE todo'[c] = Reconcile(i) \o Announce(i)
    <3>1. Do("peek", i) \in Work /\ Do("settle", i) \in Work /\ Announce(i) \in Seq(Work)
      BY PieceOfWork, WorkLists
    <3>2. todo'[c] # <<>> /\ Head(todo'[c]) = Do("peek", i)
      BY <2>4, <3>1, TwoOff DEF Reconcile
    <3> QED
      BY <2>2, <3>2 DEF Do
  <2> QED
    BY <2>1, <2>3, <2>4
<1>3. Step(c) => todo[c] # <<>> /\ todo'[c] = Tail(todo[c])
  BY <1>0 DEF Step, Leave, Join, Peek, Settle, Touch, Read, Send, Doing, Advance
<1>4. Disconnect(c) \/ LeaveAll(c) => todo'[c] = <<>>
  BY <1>0 DEF Disconnect, LeaveAll, PresenceInv, Placed
<1> QED
  BY <1>1, <1>2, <1>3, <1>4

\* One connection at most is at work, on a planned list.
LEMMA BusyStep ==
    ASSUME Serial, TypeOK, PresenceInv, OneBusy, \A c \in Connections : Planned(todo[c]),
           [Next]_vars
    PROVE  OneBusy' /\ \A c \in Connections : Planned(todo[c])'
<1>1. ASSUME NEW c \in Connections, Message(c) \/ Step(c) \/ Disconnect(c) \/ CleanUp(c)
      PROVE  OneBusy' /\ \A d \in Connections : Planned(todo[d])'
  <2>1. \A d \in Connections : d # c => Idle(d)' /\ Planned(todo[d])'
    BY <1>1, OneActs DEF Idle
  <2>2. Planned(todo'[c])
    <3>1. CASE Step(c)
      <4>1. todo[c] \in Seq(Work) /\ todo[c] # <<>> /\ todo'[c] = Tail(todo[c])
        BY <3>1, TodoAfter DEF TypeOK
      <4> QED
        BY <4>1, PlannedTail
    <3>2. CASE Disconnect(c) \/ LeaveAll(c)
      BY <3>2, TodoAfter DEF Planned
    <3>3. CASE Message(c) \/ \E i \in Instances : ReleaseOne(c, i)
      BY <3>3, TodoAfter DEF Message
    <3> QED
      BY <1>1, <3>1, <3>2, <3>3 DEF CleanUp
  <2> QED
    BY <2>1, <2>2 DEF OneBusy
<1>2. CASE UNCHANGED <<todo, status, affected>>
  BY <1>2 DEF OneBusy, Idle
<1> QED
  BY <1>1, <1>2 DEF Next, Unregister, Tick, vars, connVars

\* The presence a reconcile settles on is the presence of that moment.
LEMMA SettleStep ==
    ASSUME Serial, TypeOK, PresenceInv, OneBusy, \A c \in Connections : Planned(todo[c]),
           SettlesOnPresence, [Next]_vars
    PROVE  SettlesOnPresence'
<1>1. ASSUME NEW c \in Connections, Message(c) \/ Step(c) \/ Disconnect(c) \/ CleanUp(c)
      PROVE  SettlesOnPresence'
  <2>1. \A d \in Connections : d # c => todo'[d] = <<>>
    BY <1>1, OneActs DEF Idle
  <2>2. CASE Message(c) \/ Disconnect(c) \/ CleanUp(c)
    <3>1. ~Doing(c, "settle")'
      BY <2>2, TodoAfter DEF Message, CleanUp, Doing
    <3> QED
      BY <2>1, <3>1 DEF SettlesOnPresence, Doing
  <2>3. CASE Step(c)
    <3>1. todo[c] \in Seq(Work) /\ todo[c] # <<>> /\ todo'[c] = Tail(todo[c]) /\ Planned(todo[c])
      BY <2>3, TodoAfter DEF TypeOK
    <3>2. Doing(c, "settle")' => Head(todo[c]) = Do("peek", Head(todo'[c]).inst)
      BY <3>1, PlannedHead DEF Doing
    <3>3. CASE Peek(c)
      <4>1. seen'[c] = presence[Here(c)] /\ presence' = presence
        BY <3>3 DEF Peek, TypeOK
      <4>2. Doing(c, "settle")' => Here(c)' = Here(c)
        BY <3>2 DEF Here, Do
      <4> QED
        BY <2>1, <4>1, <4>2 DEF SettlesOnPresence, Doing
    <3>4. CASE ~Peek(c)
      <4>1. Head(todo[c]).op # "peek"
        BY <2>3, <3>4 DEF Step, Leave, Join, Settle, Touch, Read, Send, Doing
      <4>2. ~Doing(c, "settle")'
        BY <3>2, <4>1 DEF Do
      <4> QED
        BY <2>1, <4>2 DEF SettlesOnPresence, Doing
    <3> QED
      BY <3>3, <3>4
  <2> QED
    BY <1>1, <2>2, <2>3
<1>2. CASE UNCHANGED <<todo, seen, presence>>
  BY <1>2 DEF SettlesOnPresence, Doing, Here
<1> QED
  BY <1>1, <1>2 DEF Next, Unregister, Tick, vars, connVars

\* The holder as a function of the entry of the lock map.
HolderOf(L) == IF L = {} THEN NoOne ELSE (CHOOSE l \in L : TRUE).user

LEMMA HolderOfLock ==
    /\ \A i : Holder(i) = HolderOf(lock[i])
    /\ \A i : Holder(i)' = HolderOf(lock'[i])
    /\ \A c : Holder(Here(c))' = HolderOf(lock'[Here(c)'])
  BY DEF Holder, HolderOf

\* Holder gives the user of the one lock there is.
LEMMA HolderIs ==
    ASSUME TypeOK, NEW i \in Instances
    PROVE  /\ \A l \in lock[i] : Holder(i) = l.user
           /\ lock[i] = {} => Holder(i) = NoOne
<1>1. \A l, m \in lock[i] : l = m
  BY DEF TypeOK
<1>2. lock[i] # {} => (CHOOSE l \in lock[i] : TRUE) \in lock[i]
  OBVIOUS
<1> QED
  BY <1>1, <1>2 DEF Holder

\* A step that keeps the user of the lock of i keeps its holder.
LEMMA HolderKept ==
    ASSUME TypeOK, TypeOK', NEW i \in Instances,
           lock[i] = {} => lock'[i] = {},
           \A l \in lock[i] : \E m \in lock'[i] : m.user = l.user
    PROVE  Holder(i)' = Holder(i)
<1>1. CASE lock[i] = {}
  BY <1>1 DEF Holder
<1>2. CASE lock[i] # {}
  <2>1. PICK l \in lock[i] : TRUE
    BY <1>2
  <2>2. PICK m \in lock'[i] : m.user = l.user
    BY <2>1
  <2>3. Holder(i) = l.user
    BY <2>1, HolderIs
  <2>4. \A k \in lock'[i] : k = m
    BY <2>2 DEF TypeOK
  <2>5. Holder(i)' = m.user
    BY <2>2, <2>4 DEF Holder
  <2> QED
    BY <2>2, <2>3, <2>5
<1> QED
  BY <1>1, <1>2

\* Input and the passing of time keep every holder.
LEMMA HolderKeptByTouch ==
    ASSUME TypeOK, TypeOK', NEW i \in Instances,
           Tick \/ \E c \in Connections : Touch(c)
    PROVE  Holder(i)' = Holder(i)
<1>0. lock \in [Instances -> SUBSET LockRecord]
  BY DEF TypeOK
<1>1. /\ lock[i] = {} => lock'[i] = {}
      /\ \A l \in lock[i] : \E m \in lock'[i] : m.user = l.user
  <2>1. CASE Tick
    <3>1. lock'[i] = {[l EXCEPT !.idle = IF @ < Timeout THEN @ + 1 ELSE @] : l \in lock[i]}
      BY <2>1 DEF Tick, Older
    <3>2. \A l \in LockRecord :
             [l EXCEPT !.idle = IF @ < Timeout THEN @ + 1 ELSE @].user = l.user
      BY DEF LockRecord
    <3>3. ASSUME NEW l \in lock[i] PROVE \E m \in lock'[i] : m.user = l.user
      <4>1. l \in LockRecord
        BY <1>0
      <4>2. [l EXCEPT !.idle = IF @ < Timeout THEN @ + 1 ELSE @] \in lock'[i]
        BY <3>1
      <4> QED
        BY <3>2, <4>1, <4>2
    <3>4. lock[i] = {} => lock'[i] = {}
      BY <3>1
    <3> QED
      BY <3>3, <3>4
  <2>2. ASSUME NEW c \in Connections, Touch(c)
        PROVE  /\ lock[i] = {} => lock'[i] = {}
               /\ \A l \in lock[i] : \E m \in lock'[i] : m.user = l.user
    <3>1. Here(c) \in Instances
      BY <2>2, Progress DEF Touch
    <3>2. lock'[i] = lock[i] \/ lock'[i] = Touched(c, lock[i])
      BY <1>0, <2>2, <3>1 DEF Touch
    <3>3. \A l \in LockRecord :
             (IF l.conn = c THEN [l EXCEPT !.idle = 0] ELSE l).user = l.user
      BY DEF LockRecord
    <3>4. Touched(c, lock[i]) = {IF l.conn = c THEN [l EXCEPT !.idle = 0] ELSE l : l \in lock[i]}
      BY DEF Touched
    <3>5. ASSUME NEW l \in lock[i] PROVE \E m \in lock'[i] : m.user = l.user
      <4>1. l \in LockRecord
        BY <1>0
      <4>2. CASE lock'[i] = lock[i]
        BY <4>2
      <4>3. CASE lock'[i] = Touched(c, lock[i])
        <5>1. (IF l.conn = c THEN [l EXCEPT !.idle = 0] ELSE l) \in lock'[i]
          BY <3>4, <4>3
        <5> QED
          BY <3>3, <4>1, <5>1
      <4> QED
        BY <3>2, <4>2, <4>3
    <3>6. lock[i] = {} => lock'[i] = {}
      BY <3>2, <3>4
    <3> QED
      BY <3>5, <3>6
  <2> QED
    BY <2>1, <2>2
<1> QED
  BY <1>1, HolderKept

\* What an announcement has read is the holder still when it sends.
LEMMA SendStep ==
    ASSUME Serial, TypeOK, TypeOK', PresenceInv, OneBusy,
           \A c \in Connections : Planned(todo[c]), SendsHolder, [Next]_vars
    PROVE  SendsHolder'
<1> USE DEF lockVars, connVars
<1>1. ASSUME NEW c \in Connections, Message(c) \/ Step(c) \/ Disconnect(c) \/ CleanUp(c)
      PROVE  SendsHolder'
  <2>1. \A d \in Connections : d # c => todo'[d] = <<>>
    BY <1>1, OneActs DEF Idle
  <2>2. CASE Message(c) \/ Disconnect(c) \/ CleanUp(c)
    <3>1. ~Doing(c, "send")'
      BY <2>2, TodoAfter DEF Message, CleanUp, Doing
    <3> QED
      BY <2>1, <3>1 DEF SendsHolder, Doing
  <2>3. CASE Step(c)
    <3>1. todo[c] \in Seq(Work) /\ todo[c] # <<>> /\ todo'[c] = Tail(todo[c]) /\ Planned(todo[c])
      BY <2>3, TodoAfter DEF TypeOK
    <3>2. Doing(c, "send")' => Head(todo[c]) = Do("read", Head(todo'[c]).inst)
      BY <3>1, PlannedHead DEF Doing
    <3>3. CASE Read(c)
      <4>1. read'[c] = Holder(Here(c)) /\ lock' = lock
        BY <3>3 DEF Read, TypeOK
      <4>2. Doing(c, "send")' => Here(c)' = Here(c)
        BY <3>2 DEF Here, Do
      <4>3. Doing(c, "send")' => Holder(Here(c))' = Holder(Here(c))
        BY <4>1, <4>2, HolderOfLock
      <4>4. Doing(c, "send")' => read'[c] = Holder(Here(c))'
        BY <4>1, <4>3
      <4> QED
        BY <2>1, <4>4 DEF SendsHolder, Doing
    <3>4. CASE ~Read(c)
      <4>1. Head(todo[c]).op # "read"
        BY <2>3, <3>4 DEF Step, Leave, Join, Settle, Touch, Peek, Send, Doing
      <4>2. ~Doing(c, "send")'
        BY <3>2, <4>1 DEF Do
      <4> QED
        BY <2>1, <4>2 DEF SendsHolder, Doing
    <3> QED
      BY <3>3, <3>4
  <2> QED
    BY <1>1, <2>2, <2>3
<1>2. CASE UNCHANGED vars
  BY <1>2, HolderOfLock DEF SendsHolder, Doing, Here, vars
<1>3. ASSUME NEW c \in Connections, Doing(c, "send")', Here(c)' \in registered',
             Tick \/ \E i \in Instances : Unregister(i)
      PROVE  read'[c] = Holder(Here(c))'
  <2>1. UNCHANGED <<todo, read>> /\ registered' \subseteq registered
    BY <1>3 DEF Tick, Unregister
  <2>2. Here(c)' = Here(c) /\ Here(c) \in Instances /\ read[c] = Holder(Here(c))
    BY <1>3, <2>1 DEF SendsHolder, Doing, Here, TypeOK
  <2>3. CASE Tick
    <3> DEFINE j == Here(c)
    <3>1. HolderOf(lock'[j]) = HolderOf(lock[j])
      <4> HIDE DEF j
      <4>1. j \in Instances
        BY <2>2 DEF j
      <4> QED
        BY <2>3, <4>1, HolderKeptByTouch, HolderOfLock
    <3>2. Holder(Here(c))' = Holder(Here(c))
      BY <2>2, <3>1, HolderOfLock
    <3> QED
      BY <2>1, <2>2, <3>2
  <2>4. ASSUME NEW i \in Instances, Unregister(i) PROVE read'[c] = Holder(Here(c))'
    <3>1. i # Here(c)
      BY <1>3, <2>2, <2>4 DEF Unregister
    <3>2. lock'[Here(c)] = lock[Here(c)]
      BY <2>2, <2>4, <3>1 DEF Unregister, TypeOK
    <3>3. Holder(Here(c))' = Holder(Here(c))
      BY <2>2, <3>2, HolderOfLock
    <3> QED
      BY <2>1, <2>2, <3>3
  <2> QED
    BY <1>3, <2>3, <2>4
<1> QED
  BY <1>1, <1>2, <1>3 DEF Next, SendsHolder

\* With nothing in progress every holder is viewing, and every holder is told.
LEMMA QuietFacts ==
    ASSUME TypeOK, Quiet
    PROVE  /\ HoldersDue => \A i \in Instances : \A l \in lock[i] : l.conn \in presence[i]
           /\ AnnouncementsDue => \A i \in registered : announced[i] = Holder(i)
<1>1. \A c \in Connections : \A w : ~Ahead(todo[c], w)
  BY DEF Quiet, Ahead
<1>2. \A c \in Connections, i \in Instances : ~StillToRelease(c, i)
  BY DEF Quiet, StillToRelease
<1>3. \A i \in Instances : \A l \in lock[i] : l.conn \in Connections
  BY DEF TypeOK, LockRecord
<1>4. registered \subseteq Instances
  BY DEF TypeOK
<1> QED
  BY <1>1, <1>2, <1>3, <1>4 DEF HoldersDue, AnnouncementsDue

\* A message is read, and a connection is closed, only when nothing is in progress.
LEMMA ReadyQuiet ==
    ASSUME Serial, NEW c \in Connections, Message(c) \/ Disconnect(c)
    PROVE  Quiet
  BY DEF Message, Focus, Request, Release, Input, Disconnect, Ready, Quiet

\* What is ahead of a connection at work stays ahead until its turn; what a
\* clean-up has to release stays to be released until its turn.
LEMMA StillAhead ==
    ASSUME Serial, TypeOK, PresenceInv, OneBusy, NEW c \in Connections, Step(c) \/ CleanUp(c),
           NEW d \in Connections, NEW w, Ahead(todo[d], w)
    PROVE  Ahead(todo'[d], w) \/ (d = c /\ Step(c) /\ Head(todo[c]) = w)
<1>1. CASE d # c
  BY <1>1, OneActs
<1>2. CASE d = c /\ Step(c)
  <2>1. todo[c] \in Seq(Work) /\ todo[c] # <<>> /\ todo'[c] = Tail(todo[c])
    BY <1>2, TodoAfter DEF TypeOK
  <2> QED
    BY <1>2, <2>1, AheadTail
<1>3. CASE d = c /\ CleanUp(c)
  <2>1. todo[c] = <<>>
    BY <1>3 DEF CleanUp, LeaveAll, ReleaseOne, PresenceInv, Placed
  <2> QED
    BY <1>3, <2>1 DEF Ahead
<1> QED
  BY <1>1, <1>2, <1>3

LEMMA StillReleased ==
    ASSUME TypeOK, NEW c \in Connections, Step(c) \/ CleanUp(c),
           NEW d \in Connections, NEW i \in Instances, StillToRelease(d, i)
    PROVE  StillToRelease(d, i)' \/ (d = c /\ ReleaseOne(c, i))
<1> USE DEF connVars
<1>0. /\ affected \in [Connections -> SUBSET Instances]
      /\ status \in [Connections -> {"open", "closing", "left"}]
  BY DEF TypeOK
<1>1. CASE Step(c)
  BY <1>1 DEF Step, Leave, Join, Peek, Settle, Touch, Read, Send, StillToRelease
<1>2. CASE LeaveAll(c)
  BY <1>0, <1>2 DEF LeaveAll, StillToRelease
<1>3. ASSUME NEW j \in Instances, ReleaseOne(c, j)
      PROVE  StillToRelease(d, i)' \/ (d = c /\ ReleaseOne(c, i))
  <2>1. status' = status /\ affected' = [affected EXCEPT ![c] = @ \ {j}]
    BY <1>3 DEF ReleaseOne
  <2> QED
    BY <1>0, <1>3, <2>1 DEF StillToRelease
<1> QED
  BY <1>1, <1>2, <1>3 DEF CleanUp

\* A change of holder is announced before everything is quiet again.
LEMMA AnnounceStep ==
    ASSUME Serial, TypeOK, TypeOK', PresenceInv, SerialInv, [Next]_vars
    PROVE  AnnouncementsDue'
<1> DEFINE Due(i) == \/ announced[i] = Holder(i)
                     \/ \E c \in Connections : Ahead(todo[c], Do("send", i)) \/ StillToRelease(c, i)
<1> SUFFICES ASSUME NEW i \in registered' PROVE Due(i)'
  BY DEF AnnouncementsDue
<1> USE DEF lockVars, connVars
<1>0. /\ i \in registered /\ i \in Instances /\ Due(i)
      /\ lock \in [Instances -> SUBSET LockRecord]
      /\ announced \in [Instances -> Users \cup {NoOne}]
      /\ todo \in [Connections -> Seq(Work)]
      /\ OneBusy /\ \A c \in Connections : Planned(todo[c])
  <2>1. registered' \subseteq registered
    BY DEF Next, Message, Focus, Request, Release, Input, Step, Leave, Join, Peek, Settle,
           Touch, Read, Send, Disconnect, CleanUp, LeaveAll, ReleaseOne, Unregister, Tick, vars
  <2> QED
    BY <2>1 DEF TypeOK, SerialInv, AnnouncementsDue
<1>1. ASSUME lock'[i] = lock[i], announced'[i] = announced[i], announced[i] = Holder(i)
      PROVE  Due(i)'
  BY <1>1, HolderOfLock
<1>2. ASSUME NEW c \in Connections, Message(c) PROVE Due(i)'
  <2>1. announced[i] = Holder(i)
    BY <1>0, <1>2, ReadyQuiet, QuietFacts DEF SerialInv
  <2>2. PICK j \in Instances : Focus(c, j) \/ Request(c, j) \/ Release(c, j) \/ Input(c, j)
    BY <1>2 DEF Message
  <2>3. announced' = announced
    BY <2>2 DEF Focus, Request, Release, Input
  <2>4. CASE Focus(c, j) \/ Input(c, j)
    BY <1>1, <2>1, <2>3, <2>4 DEF Focus, Input
  <2>5. CASE (Request(c, j) \/ Release(c, j)) /\ i # j
    BY <1>0, <1>1, <2>1, <2>3, <2>5 DEF Request, Release
  <2>6. CASE (Request(c, j) \/ Release(c, j)) /\ i = j
    <3>1. todo'[c] = Announce(i) \/ todo'[c] = Reconcile(i) \o Announce(i)
      BY <1>0, <2>6 DEF Request, Release
    <3>2. Ahead(Announce(i), Do("send", i)) /\ Ahead(Reconcile(i) \o Announce(i), Do("send", i))
      BY <1>0, PlannedLists
    <3>3. Ahead(todo'[c], Do("send", i))
      BY <3>1, <3>2
    <3> QED
      BY <3>3
  <2> QED
    BY <2>2, <2>4, <2>5, <2>6
<1>3. ASSUME NEW c \in Connections, Disconnect(c) PROVE Due(i)'
  <2>1. announced[i] = Holder(i)
    BY <1>0, <1>3, ReadyQuiet, QuietFacts DEF SerialInv
  <2> QED
    BY <1>1, <1>3, <2>1 DEF Disconnect
<1>4. ASSUME NEW c \in Connections, Step(c) \/ CleanUp(c),
             Holder(i)' = Holder(i), announced'[i] = announced[i],
             ~(Step(c) /\ Head(todo[c]) = Do("send", i)), ~ReleaseOne(c, i)
      PROVE  Due(i)'
  <2>1. CASE announced[i] = Holder(i)
    BY <1>4, <2>1
  <2>2. ASSUME NEW d \in Connections, Ahead(todo[d], Do("send", i)) PROVE Due(i)'
    <3>1. Ahead(todo'[d], Do("send", i))
      BY <1>0, <1>4, <2>2, StillAhead
    <3> QED
      BY <3>1
  <2>3. ASSUME NEW d \in Connections, StillToRelease(d, i) PROVE Due(i)'
    <3>1. StillToRelease(d, i)'
      BY <1>0, <1>4, <2>3, StillReleased
    <3> QED
      BY <3>1
  <2> QED
    BY <1>0, <2>1, <2>2, <2>3
<1>5. ASSUME NEW c \in Connections, Step(c) PROVE Due(i)'
  <2>0. todo[c] \in Seq(Work) /\ todo[c] # <<>> /\ todo'[c] = Tail(todo[c]) /\ Planned(todo[c])
    BY <1>0, <1>5, TodoAfter
  <2>1. CASE Leave(c) \/ Join(c) \/ Peek(c) \/ Read(c)
    <3>1. lock' = lock /\ announced' = announced /\ Head(todo[c]).op # "send"
      BY <2>1 DEF Leave, Join, Peek, Read, Doing
    <3>2. Holder(i)' = Holder(i)
      BY <3>1, HolderOfLock
    <3> QED
      BY <1>4, <1>5, <3>1, <3>2, <2>1 DEF Do, ReleaseOne, Leave, Join, Peek, Read, Doing
  <2>2. CASE Touch(c)
    <3>1. announced' = announced /\ Head(todo[c]).op # "send"
      BY <2>2 DEF Touch, Doing
    <3>2. Holder(i)' = Holder(i)
      BY <1>0, <2>2, HolderKeptByTouch
    <3> QED
      BY <1>4, <1>5, <3>1, <3>2, <2>2 DEF Do, ReleaseOne, Touch, Doing
  <2>3. CASE Settle(c) /\ i # Here(c)
    <3>1. announced' = announced /\ Head(todo[c]).op # "send"
      BY <2>3 DEF Settle, Doing
    <3>2. lock'[i] = lock[i]
      BY <1>0, <2>3 DEF Settle
    <3>3. Holder(i)' = Holder(i)
      BY <3>2, HolderOfLock
    <3> QED
      BY <1>4, <1>5, <3>1, <3>3, <2>3 DEF Do, ReleaseOne, Settle, Doing
  <2>4. CASE Settle(c) /\ i = Here(c)
    <3>1. Ahead(todo'[c], Do("send", i))
      BY <2>0, <2>4, PlannedHead DEF Settle, Doing, Here
    <3> QED
      BY <3>1
  <2>5. CASE Send(c) /\ i = Here(c)
    <3>1. announced'[i] = read[c] /\ lock' = lock
      BY <1>0, <2>5 DEF Send
    <3>2. read[c] = Holder(i)
      BY <1>0, <2>5 DEF Send, SerialInv, SendsHolder
    <3>3. Holder(i)' = Holder(i)
      BY <3>1, HolderOfLock
    <3> QED
      BY <3>1, <3>2, <3>3
  <2>6. CASE Send(c) /\ i # Here(c)
    <3>1. announced'[i] = announced[i] /\ lock' = lock
      BY <1>0, <2>6 DEF Send, TypeOK
    <3>2. Head(todo[c]) # Do("send", i)
      BY <2>6 DEF Here, Do
    <3>3. Holder(i)' = Holder(i)
      BY <3>1, HolderOfLock
    <3> QED
      BY <1>4, <1>5, <3>1, <3>2, <3>3, <2>0 DEF ReleaseOne
  <2> QED
    BY <1>5, <2>1, <2>2, <2>3, <2>4, <2>5, <2>6 DEF Step
<1>6. ASSUME NEW c \in Connections, LeaveAll(c) PROVE Due(i)'
  <2>1. lock' = lock /\ announced' = announced /\ status[c] = "closing"
    BY <1>6 DEF LeaveAll
  <2>2. Holder(i)' = Holder(i)
    BY <2>1, HolderOfLock
  <2>3. ~Step(c) /\ ~ReleaseOne(c, i) /\ CleanUp(c)
    <3>1. todo[c] = <<>>
      BY <2>1 DEF PresenceInv, Placed
    <3> QED
      BY <1>6, <2>1, <3>1, TodoAfter DEF ReleaseOne, CleanUp
  <2> QED
    BY <1>4, <2>1, <2>2, <2>3
<1>7. ASSUME NEW c \in Connections, NEW j \in Instances, ReleaseOne(c, j) PROVE Due(i)'
  <2>1. CASE i = j
    <3>1. todo'[c] = Announce(i) \/ todo'[c] = Reconcile(i) \o Announce(i)
      BY <1>0, <1>7, <2>1 DEF ReleaseOne
    <3>2. Ahead(Announce(i), Do("send", i)) /\ Ahead(Reconcile(i) \o Announce(i), Do("send", i))
      BY <1>0, PlannedLists
    <3>3. Ahead(todo'[c], Do("send", i))
      BY <3>1, <3>2
    <3> QED
      BY <3>3
  <2>2. CASE i # j
    <3>1. lock'[i] = lock[i] /\ announced' = announced /\ todo[c] = <<>>
      BY <1>0, <1>7, <2>2 DEF ReleaseOne
    <3>2. Holder(i)' = Holder(i)
      BY <3>1, HolderOfLock
    <3>3. ~Step(c) /\ CleanUp(c)
      BY <1>7, <3>1, TodoAfter DEF CleanUp
    <3>4. ~ReleaseOne(c, i)
      BY <1>0, <1>7, <2>2 DEF ReleaseOne, TypeOK
    <3> QED
      BY <1>4, <3>1, <3>2, <3>3, <3>4
  <2> QED
    BY <2>1, <2>2
<1>8. ASSUME Holder(i)' = Holder(i), UNCHANGED <<announced, todo, status, affected>>
      PROVE  Due(i)'
  BY <1>0, <1>8 DEF StillToRelease
<1>9. ASSUME NEW j \in Instances, Unregister(j) PROVE Due(i)'
  <2>1. i # j
    BY <1>9 DEF Unregister
  <2>2. lock'[i] = lock[i] /\ UNCHANGED <<announced, todo, status, affected>>
    BY <1>0, <1>9, <2>1 DEF Unregister
  <2> QED
    BY <1>8, <2>2, HolderOfLock
<1>10. CASE Tick
  <2>1. UNCHANGED <<announced, todo, status, affected>>
    BY <1>10 DEF Tick
  <2> QED
    BY <1>0, <1>8, <1>10, <2>1, HolderKeptByTouch
<1>11. CASE UNCHANGED vars
  BY <1>8, <1>11, HolderOfLock DEF vars
<1> QED
  BY <1>2, <1>3, <1>5, <1>6, <1>7, <1>9, <1>10, <1>11 DEF Next, CleanUp

LEMMA SerialInvStart == Init => SerialInv /\ HoldersDue
<1> SUFFICES ASSUME Init PROVE SerialInv /\ HoldersDue
  OBVIOUS
<1>1. OneBusy /\ \A c \in Connections : Planned(todo[c])
  BY PlannedLists DEF Init, OneBusy, Idle, Planned
<1>2. SettlesOnPresence /\ SendsHolder
  BY DEF Init, SettlesOnPresence, SendsHolder, Doing
<1>3. AnnouncementsDue
  BY DEF Init, AnnouncementsDue, Holder
<1>4. HoldersDue
  BY DEF Init, HoldersDue
<1> QED
  BY <1>1, <1>2, <1>3, <1>4 DEF SerialInv

LEMMA SerialInvariant ==
    ASSUME Serial
    PROVE  Spec => []SerialInv
<1>1. TypeOK /\ TypeOK' /\ PresenceInv /\ SerialInv /\ [Next]_vars => SerialInv'
  BY BusyStep, SettleStep, SendStep, AnnounceStep DEF SerialInv
<1> QED
  BY <1>1, SerialInvStart, TypeCorrect, PresenceInvariant, PTL DEF Spec

\* With handlers run one at a time, what the clients of a live instance were
\* last told is the holder, whenever nothing is in progress.
THEOREM AnnouncedCorrect ==
    ASSUME Serial
    PROVE  Spec => []AnnouncedWhenQuiet
<1>1. TypeOK /\ SerialInv => AnnouncedWhenQuiet
  BY QuietFacts DEF AnnouncedWhenQuiet, SerialInv
<1> QED
  BY <1>1, SerialInvariant, TypeCorrect, PTL

\* A list is longer than its tail.
LEMMA TailDiffers ==
    ASSUME NEW s \in Seq(Work), s # <<>>
    PROVE  Tail(s) # s
<1>1. Len(Tail(s)) # Len(s)
  OBVIOUS
<1> QED
  BY <1>1

\* With handlers run one at a time, no reconcile takes the lock from a holder
\* who is viewing the instance.
THEOREM ReconcileSpares ==
    ASSUME Serial
    PROVE  Spec => ReconcileSparesPresentHolder
<1>1. TypeOK /\ PresenceInv /\ SerialInv /\ [Next]_vars =>
         [\A c \in Connections :
             (Doing(c, "settle") /\ todo'[c] = Tail(todo[c])) =>
                \A l \in lock[Here(c)] : l.conn \in presence[Here(c)] => lock'[Here(c)] # {}]_vars
  <2> SUFFICES ASSUME TypeOK, PresenceInv, SerialInv, Next, NEW c \in Connections,
                      Doing(c, "settle"), todo'[c] = Tail(todo[c]),
                      NEW l \in lock[Here(c)], l.conn \in presence[Here(c)]
               PROVE  lock'[Here(c)] # {}
    BY DEF vars
  <2>1. todo[c] \in Seq(Work) /\ todo[c] # <<>> /\ todo'[c] # todo[c]
    BY TailDiffers DEF TypeOK, Doing
  <2>2. PICK d \in Connections : Message(d) \/ Step(d) \/ Disconnect(d) \/ CleanUp(d)
    BY <2>1 DEF Next, Unregister, Tick, connVars
  <2>3. d = c
    BY <2>1, <2>2, OneActs DEF SerialInv
  <2>4. Settle(c)
    <3>1. ~Message(c) /\ ~Disconnect(c)
      BY <2>1, ReadyQuiet DEF Quiet
    <3>2. ~CleanUp(c)
      BY <2>1 DEF CleanUp, LeaveAll, ReleaseOne, PresenceInv, Placed
    <3> QED
      BY <2>2, <2>3, <3>1, <3>2 DEF Step, Leave, Join, Peek, Touch, Read, Send, Doing
  <2>5. Here(c) \in Instances
    BY Progress
  <2>6. seen[c] = presence[Here(c)]
    BY DEF SerialInv, SettlesOnPresence
  <2>7. \A m \in lock[Here(c)] : m.conn \in seen[c]
    BY <2>5, <2>6 DEF TypeOK
  <2>8. Settled(Here(c), seen[c]) = {lock[Here(c)]}
    BY <2>7 DEF Settled
  <2> QED
    BY <2>4, <2>5, <2>8 DEF Settle, TypeOK
<1> QED
  BY <1>1, SerialInvariant, PresenceInvariant, TypeCorrect, PTL DEF Spec, ReconcileSparesPresentHolder

\* What a reconcile leaves of a lock names somebody in the snapshot.
LEMMA SettledIsSeen ==
    ASSUME NEW i \in Instances, NEW S, NEW L \in Settled(i, S), NEW m \in L
    PROVE  m.conn \in S
  BY DEF Settled

\* A connection that asks for a lock of the instance it focuses is viewing it.
LEMMA RequesterIsPresent ==
    ASSUME FocusedOnly, TypeOK, PresenceInv,
           NEW c \in Connections, NEW i \in Instances, Request(c, i)
    PROVE  c \in presence[i]
<1>1. status[c] = "open" /\ todo[c] = <<>> /\ focused[c] = i
  BY DEF Request, Ready, Names
<1> QED
  BY <1>1 DEF PresenceInv, Placed, Leaving, Joining, Resting, PresentAt

\* A holder who stops viewing an instance is dealt with before everything is
\* quiet again.
LEMMA HoldersStep ==
    ASSUME Serial, FocusedOnly, TypeOK, PresenceInv, SerialInv, HoldersDue, [Next]_vars
    PROVE  HoldersDue'
<1> DEFINE Due(i, l) == \/ l.conn \in presence[i]
                        \/ \E c \in Connections : Ahead(todo[c], Do("settle", i))
                        \/ StillToRelease(l.conn, i)
<1> SUFFICES ASSUME NEW i \in Instances, NEW m \in lock'[i] PROVE Due(i, m)'
  BY DEF HoldersDue
<1> USE DEF lockVars, connVars
<1>0. /\ lock \in [Instances -> SUBSET LockRecord]
      /\ presence \in [Instances -> SUBSET Connections]
      /\ affected \in [Connections -> SUBSET Instances]
      /\ status \in [Connections -> {"open", "closing", "left"}]
      /\ todo \in [Connections -> Seq(Work)]
      /\ OneBusy /\ \A c \in Connections : Planned(todo[c])
      /\ \A l \in lock[i] : Due(i, l)
      /\ \A l \in lock[i] : l.conn \in Connections
  BY DEF TypeOK, SerialInv, HoldersDue, LockRecord
<1>1. ASSUME NEW c \in Connections, Message(c) PROVE Due(i, m)'
  <2>1. \A l \in lock[i] : l.conn \in presence[i]
    BY <1>1, ReadyQuiet, QuietFacts
  <2>2. PICK j \in Instances : Focus(c, j) \/ Request(c, j) \/ Release(c, j) \/ Input(c, j)
    BY <1>1 DEF Message
  <2>3. presence' = presence
    BY <2>2 DEF Focus, Request, Release, Input
  <2>4. CASE m \in lock[i]
    BY <2>1, <2>3, <2>4
  <2>5. CASE m \notin lock[i]
    <3>1. Request(c, j) /\ i = j /\ m = Fresh(c)
      BY <1>0, <2>2, <2>5 DEF Focus, Request, Release, Input
    <3>2. m.conn \in presence'[i]
      BY <2>3, <3>1, RequesterIsPresent DEF Fresh
    <3> QED
      BY <3>2
  <2> QED
    BY <2>4, <2>5
<1>2. ASSUME NEW c \in Connections, Disconnect(c) PROVE Due(i, m)'
  <2>1. \A l \in lock[i] : l.conn \in presence[i]
    BY <1>2, ReadyQuiet, QuietFacts
  <2> QED
    BY <1>2, <2>1 DEF Disconnect
<1>3. ASSUME NEW c \in Connections, Step(c) \/ CleanUp(c), NEW l \in lock[i], l.conn = m.conn,
             l.conn \in presence[i] => Due(i, m)',
             ~(Step(c) /\ Head(todo[c]) = Do("settle", i)), ~ReleaseOne(c, i)
      PROVE  Due(i, m)'
  <2>1. ASSUME NEW d \in Connections, Ahead(todo[d], Do("settle", i)) PROVE Due(i, m)'
    <3>1. Ahead(todo'[d], Do("settle", i))
      BY <1>0, <1>3, <2>1, StillAhead
    <3> QED
      BY <3>1
  <2>2. CASE StillToRelease(l.conn, i)
    <3>1. StillToRelease(l.conn, i)'
      BY <1>0, <1>3, <2>2, StillReleased
    <3>2. StillToRelease(m.conn, i)'
      BY <1>3, <3>1 DEF StillToRelease
    <3> QED
      BY <3>2
  <2> QED
    BY <1>0, <1>3, <2>1, <2>2
<1>4. ASSUME NEW c \in Connections, Step(c) PROVE Due(i, m)'
  <2>0. /\ todo[c] \in Seq(Work) /\ todo[c] # <<>> /\ todo'[c] = Tail(todo[c])
        /\ Planned(todo[c]) /\ ~ReleaseOne(c, i)
    BY <1>0, <1>4, TodoAfter DEF ReleaseOne
  <2>1. CASE Leave(c)
    <3>1. lock' = lock /\ Head(todo[c]).op = "leave" /\ Here(c) \in Instances
      BY <2>1, Progress DEF Leave, Doing
    <3>2. CASE m.conn = c /\ i = Here(c)
      <4>1. Ahead(todo'[c], Do("settle", i))
        BY <2>0, <3>1, <3>2, PlannedHead DEF Here
      <4> QED
        BY <4>1
    <3>3. CASE m.conn # c \/ i # Here(c)
      <4>1. m.conn \in presence[i] => m.conn \in presence'[i]
        BY <1>0, <2>1, <3>1, <3>3 DEF Leave
      <4>2. Head(todo[c]) # Do("settle", i)
        BY <3>1 DEF Do
      <4>3. m \in lock[i]
        BY <3>1
      <4> QED
        BY <1>3, <1>4, <2>0, <4>1, <4>2, <4>3
    <3> QED
      BY <3>2, <3>3
  <2>2. CASE Join(c) \/ Peek(c) \/ Read(c) \/ Send(c)
    <3>1. lock' = lock /\ Head(todo[c]).op # "settle"
      BY <2>2 DEF Join, Peek, Read, Send, Doing
    <3>2. m \in lock[i] /\ Head(todo[c]) # Do("settle", i)
      BY <3>1 DEF Do
    <3>3. \A x : x \in presence[i] => x \in presence'[i]
      <4>1. CASE Join(c)
        BY <1>0, <4>1 DEF Join
      <4>2. CASE ~Join(c)
        BY <2>2, <4>2 DEF Peek, Read, Send
      <4> QED
        BY <4>1, <4>2
    <3> QED
      BY <1>3, <1>4, <2>0, <3>2, <3>3
  <2>3. CASE Touch(c)
    <3>1. Here(c) \in Instances /\ presence' = presence /\ Head(todo[c]).op = "touch"
      BY <2>3, Progress DEF Touch, Doing
    <3>2. lock'[i] = lock[i] \/ lock'[i] = Touched(c, lock[i])
      BY <1>0, <2>3, <3>1 DEF Touch
    <3>3. PICK l \in lock[i] : l.conn = m.conn
      BY <1>0, <3>2 DEF Touched, LockRecord
    <3>4. Head(todo[c]) # Do("settle", i)
      BY <3>1 DEF Do
    <3> QED
      BY <1>3, <1>4, <2>0, <3>1, <3>3, <3>4
  <2>4. CASE Settle(c) /\ i = Here(c)
    <3>1. seen[c] = presence[i] /\ presence' = presence
      BY <2>4 DEF Settle, SerialInv, SettlesOnPresence
    <3>2. PICK L \in Settled(i, seen[c]) : lock' = [lock EXCEPT ![i] = L]
      BY <2>4, Zenon DEF Settle
    <3>3. m \in L
      BY <1>0, <3>2
    <3>4. m.conn \in presence'[i]
      BY <3>1, <3>2, <3>3, SettledIsSeen
    <3> QED
      BY <3>4
  <2>5. CASE Settle(c) /\ i # Here(c)
    <3>1. presence' = presence /\ lock'[i] = lock[i]
      BY <1>0, <2>5 DEF Settle
    <3>2. Head(todo[c]) # Do("settle", i)
      BY <2>5 DEF Here, Do
    <3> QED
      BY <1>3, <1>4, <2>0, <3>1, <3>2
  <2> QED
    BY <1>4, <2>1, <2>2, <2>3, <2>4, <2>5 DEF Step
<1>5. ASSUME NEW c \in Connections, LeaveAll(c) PROVE Due(i, m)'
  <2>1. lock' = lock /\ status[c] = "closing"
    BY <1>5 DEF LeaveAll
  <2>2. todo[c] = <<>>
    BY <2>1 DEF PresenceInv, Placed
  <2>3. ~Step(c) /\ ~ReleaseOne(c, i) /\ CleanUp(c)
    BY <1>5, <2>1, <2>2, TodoAfter DEF ReleaseOne, CleanUp
  <2>4. m \in lock[i]
    BY <2>1
  <2>5. CASE m.conn = c /\ m.conn \in presence[i]
    <3>1. StillToRelease(m.conn, i)'
      BY <1>0, <1>5, <2>5 DEF LeaveAll, StillToRelease
    <3> QED
      BY <3>1
  <2>6. CASE ~(m.conn = c /\ m.conn \in presence[i])
    <3>1. m.conn \in presence[i] => m.conn \in presence'[i]
      BY <1>0, <1>5, <2>6 DEF LeaveAll
    <3> QED
      BY <1>3, <2>3, <2>4, <3>1
  <2> QED
    BY <2>5, <2>6
<1>6. ASSUME NEW c \in Connections, NEW j \in Instances, ReleaseOne(c, j) PROVE Due(i, m)'
  <2>1. /\ todo[c] = <<>> /\ presence' = presence /\ affected[c] # {}
        /\ status' = status /\ affected' = [affected EXCEPT ![c] = @ \ {j}]
    BY <1>6 DEF ReleaseOne
  <2>2. m \in lock[i]
    BY <1>0, <1>6 DEF ReleaseOne
  <2>3. CASE i = j
    <3>1. m.conn # c
      BY <1>0, <1>6, <2>2, <2>3 DEF ReleaseOne, HeldBy
    <3>2. \A d \in Connections : todo[d] = <<>>
      BY <1>0, <2>1 DEF OneBusy, Idle
    <3>3. m.conn \in presence[i] \/ StillToRelease(m.conn, i)
      BY <1>0, <2>2, <3>2 DEF Ahead
    <3>4. StillToRelease(m.conn, i) => StillToRelease(m.conn, i)'
      BY <1>0, <2>1, <2>2, <3>1 DEF StillToRelease
    <3> QED
      BY <2>1, <3>3, <3>4
  <2>4. CASE i # j
    <3>1. ~Step(c) /\ CleanUp(c)
      BY <1>6, <2>1, TodoAfter DEF CleanUp
    <3>2. ~ReleaseOne(c, i)
      BY <1>0, <1>6, <2>4, <2>1 DEF ReleaseOne
    <3> QED
      BY <1>3, <2>1, <2>2, <3>1, <3>2
  <2> QED
    BY <2>3, <2>4
<1>7. ASSUME NEW l \in lock[i], l.conn = m.conn, UNCHANGED <<presence, todo, status, affected>>
      PROVE  Due(i, m)'
  <2>1. Due(i, l)
    BY <1>0
  <2> QED
    BY <1>7, <2>1 DEF StillToRelease
<1>8. ASSUME NEW j \in Instances, Unregister(j) PROVE Due(i, m)'
  BY <1>0, <1>7, <1>8 DEF Unregister
<1>9. CASE Tick
  <2>1. PICK l \in lock[i] : l.conn = m.conn
    BY <1>0, <1>9 DEF Tick, Older, LockRecord
  <2> QED
    BY <1>7, <1>9, <2>1 DEF Tick
<1>10. CASE UNCHANGED vars
  BY <1>7, <1>10 DEF vars
<1> QED
  BY <1>1, <1>2, <1>4, <1>5, <1>6, <1>8, <1>9, <1>10 DEF Next, CleanUp

\* With handlers run one at a time, and clients naming the instance they focus,
\* the holder of a lock is viewing the instance whenever nothing is in progress.
THEOREM HolderPresent ==
    ASSUME Serial, FocusedOnly
    PROVE  Spec => []HolderPresentWhenQuiet
<1>1. TypeOK /\ PresenceInv /\ SerialInv /\ HoldersDue /\ [Next]_vars => HoldersDue'
  BY HoldersStep
<1>2. TypeOK /\ HoldersDue => HolderPresentWhenQuiet
  BY QuietFacts DEF HolderPresentWhenQuiet
<1> QED
  BY <1>1, <1>2, SerialInvStart, SerialInvariant, PresenceInvariant, TypeCorrect, PTL DEF Spec

\* What a step does to the locks, as the lease sees it.
LEMMA LeaseStep == TypeOK /\ [Next]_vars => [Leases!Next]_lock
<1> SUFFICES ASSUME TypeOK, [Next]_vars PROVE [Leases!Next]_lock
  OBVIOUS
<1> USE DEF lockVars, connVars
<1>1. lock \in [Instances -> SUBSET LockRecord] /\ \A i \in Instances : \A l, m \in lock[i] : l = m
  BY DEF TypeOK
<1>2. ASSUME NEW i \in Instances, lock' = [lock EXCEPT ![i] = {}]
      PROVE  Leases!Next
  BY <1>2 DEF Leases!Next, Leases!End
<1>3. ASSUME NEW c \in Connections, NEW i \in Instances, lock' = [lock EXCEPT ![i] = {Fresh(c)}], CanAcquire(c, i)
      PROVE  Leases!Next
  <2>1. Leases!Granted(c) = Fresh(c)
    BY DEF Leases!Granted, Fresh
  <2>2. Leases!Grant(i, c)
    BY <1>3, <2>1 DEF Leases!Grant, CanAcquire
  <2> QED BY <2>2 DEF Leases!Next
<1>4. ASSUME NEW c \in Connections, NEW i \in Instances, Request(c, i)
      PROVE  Leases!Next
  BY <1>3, <1>4 DEF Request
<1>5. ASSUME NEW c \in Connections, Settle(c)
      PROVE  [Leases!Next]_lock
  <2> DEFINE i == Here(c)
             S == seen[c]
  <2>1. i \in Instances /\ S \in SUBSET Connections
    BY <1>5, Progress DEF Settle, TypeOK
  <2>2. PICK L \in Settled(i, S) : lock' = [lock EXCEPT ![i] = L]
    BY <1>5, Zenon DEF Settle
  <2> HIDE DEF i, S
  <2>3. CASE L = {}
    BY <1>2, <2>1, <2>2, <2>3
  <2>4. CASE L = lock[i]
    BY <1>1, <2>1, <2>2, <2>4
  <2>5. CASE lock[i] = {} /\ Sole(S) /\ L \in {{[conn |-> d, user |-> u, idle |-> 0]} : d \in S, u \in UsersOf(S)}
    <3>1. PICK d \in S, u \in UsersOf(S) : L = {[conn |-> d, user |-> u, idle |-> 0]}
      BY <2>5
    <3>2. u = UserOf[d] /\ d \in Connections
      BY <2>1, <2>5 DEF Sole, UsersOf
    <3>3. L = {Fresh(d)} /\ CanAcquire(d, i)
      BY <2>5, <3>1, <3>2 DEF Fresh, CanAcquire
    <3> QED BY <1>3, <2>1, <2>2, <3>2, <3>3
  <2> QED BY <2>2, <2>3, <2>4, <2>5 DEF Settled
<1>6. ASSUME NEW c \in Connections, Touch(c)
      PROVE  [Leases!Next]_lock
  <2> DEFINE i == Here(c)
             L == Touched(c, lock[i])
  <2>1. i \in Instances /\ lock' = [lock EXCEPT ![i] = L]
    BY <1>6, Progress, Zenon DEF Touch
  <2>2. L = lock[i] \/ L = {[l EXCEPT !.idle = 0] : l \in lock[i]}
    <3>1. CASE \E l \in lock[i] : l.conn = c
      <4>1. \A l \in lock[i] : l.conn = c
        BY <1>1, <2>1, <3>1
      <4>2. L = {[l EXCEPT !.idle = 0] : l \in lock[i]}
        BY <4>1, Zenon DEF Touched
      <4> QED BY <4>2
    <3>2. CASE \A l \in lock[i] : l.conn # c
      <4>1. L = {l : l \in lock[i]}
        BY <3>2, Zenon DEF Touched
      <4> QED BY <4>1
    <3> QED BY <3>1, <3>2
  <2> HIDE DEF i, L
  <2>3. CASE L = lock[i]
    BY <1>1, <2>1, <2>3
  <2>4. CASE L = {[l EXCEPT !.idle = 0] : l \in lock[i]}
    <3>1. Leases!Renew(i)
      BY <2>1, <2>4 DEF Leases!Renew
    <3> QED BY <2>1, <3>1 DEF Leases!Next
  <2> QED BY <2>2, <2>3, <2>4
<1>7. CASE Tick
  BY <1>7 DEF Tick, Older, Leases!Next, Leases!Age
<1>8. ASSUME NEW c \in Connections, NEW i \in Instances, Focus(c, i) \/ Release(c, i) \/ Input(c, i) \/ ReleaseOne(c, i)
      PROVE  [Leases!Next]_lock
  <2>1. lock' = lock \/ lock' = [lock EXCEPT ![i] = {}]
    BY <1>8 DEF Focus, Release, Input, ReleaseOne
  <2> QED BY <1>2, <2>1
<1>9. ASSUME NEW c \in Connections, Leave(c) \/ Join(c) \/ Peek(c) \/ Read(c) \/ Send(c) \/ Disconnect(c) \/ LeaveAll(c)
      PROVE  [Leases!Next]_lock
  BY <1>9 DEF Leave, Join, Peek, Read, Send, Disconnect, LeaveAll
<1>10. ASSUME NEW i \in Instances, Unregister(i)
       PROVE  [Leases!Next]_lock
  BY <1>2, <1>10 DEF Unregister
<1>11. CASE UNCHANGED vars
  BY <1>11 DEF vars
<1> QED
  BY <1>4, <1>5, <1>6, <1>7, <1>8, <1>9, <1>10, <1>11 DEF Next, Message, Step, CleanUp

\* The locks of the running server (ws/state_manager.rs) are leases, for every set of
\* users, connections and instances and every timeout.
THEOREM LeasesCorrect == Spec => LocksAreLeases
<1>1. Init => Leases!Init
  BY DEF Init, Leases!Init
<1> QED
  BY <1>1, LeaseStep, TypeCorrect, PTL DEF Spec, LocksAreLeases, Leases!Spec
=============================================================================
