---------------------------- MODULE TerminalLock ----------------------------
(* Presence and the per-instance terminal lock of GlobalStateManager          *)
(* (ws/state_manager.rs), as driven by the handlers of the multiplexed        *)
(* WebSocket (ws/handler.rs).                                                 *)
(*                                                                            *)
(* `presence` and `terminal_locks` are two maps behind two tokio RwLocks and  *)
(* no handler keeps one across an await, so a handler is a series of atomic   *)
(* pieces of work.  todo[c] is what the handler that connection c is running  *)
(* has still to do; pieces of different connections interleave freely, and    *)
(* the select! of the connection may drop a handler between any two of them.  *)
EXTENDS Naturals, Sequences

CONSTANTS
    Connections,  \* connection ids: fresh per WebSocket, never reused
    Users,        \* user ids
    UserOf,       \* the user each connection is authenticated as
    Instances,    \* instance ids clients name in their messages
    Timeout,      \* TERMINAL_LOCK_TIMEOUT_SECS, in ticks of the clock
    NoOne,        \* "no instance" of focused_instance, "no holder" of a lock
    FocusedOnly,  \* TRUE: clients name the instance they focus, as the web UI does
    Serial        \* TRUE: one handler at a time, each run to its end

ASSUME UserOfAssumption == UserOf \in [Connections -> Users]
ASSUME TimeoutAssumption == Timeout \in Nat \ {0}
ASSUME NoOneAssumption == NoOne \notin Users \cup Instances

VARIABLES
    presence,    \* instance -> connections registered as viewing it
    lock,        \* instance -> at most one lock (a set of at most one record)
    announced,   \* instance -> holder in the last TerminalLockUpdate broadcast
    registered,  \* instances with a tracker
    focused,     \* connection -> focused_instance of its handler
    status,      \* connection -> open, closing (select! ended), left (not in presence)
    todo,        \* connection -> the rest of the handler it runs
    seen,        \* connection -> presence snapshot of the reconcile it is in
    read,        \* connection -> holder read for the broadcast it will send
    affected     \* connection -> instances its disconnect has still to release

lockVars == <<lock, announced, registered>>
connVars == <<focused, status, seen, read, affected>>
vars == <<presence, lock, announced, registered, focused, status, todo, seen, read, affected>>

Ops == {"leave", "join", "peek", "settle", "touch", "read", "send"}
Work == [op : Ops, inst : Instances]
LockRecord == [conn : Connections, user : Users, idle : 0..Timeout]

Do(op, i) == [op |-> op, inst |-> i]
Reconcile(i) == <<Do("peek", i), Do("settle", i)>>
Announce(i) == <<Do("read", i), Do("send", i)>>

\* The lock of a connection that was active just now.
Fresh(c) == [conn |-> c, user |-> UserOf[c], idle |-> 0]

\* The users of a set of connections (dedupe_presence).
UsersOf(S) == {UserOf[c] : c \in S}

Holder(i) == IF lock[i] = {} THEN NoOne ELSE (CHOOSE l \in lock[i] : TRUE).user

Doing(c, op) == todo[c] # <<>> /\ Head(todo[c]).op = op
Here(c) == Head(todo[c]).inst
Advance(c) == todo' = [todo EXCEPT ![c] = Tail(@)]

\* A connection reads its next message when the previous handler has finished.
Ready(c) ==
    /\ status[c] = "open"
    /\ todo[c] = <<>>
    /\ Serial => \A d \in Connections : todo[d] = <<>> /\ status[d] # "closing" /\ affected[d] = {}

Names(c, i) == FocusedOnly => i = focused[c]

Init ==
    /\ presence = [i \in Instances |-> {}]
    /\ lock = [i \in Instances |-> {}]
    /\ announced = [i \in Instances |-> NoOne]
    /\ registered = Instances
    /\ focused = [c \in Connections |-> NoOne]
    /\ status = [c \in Connections |-> "open"]
    /\ todo = [c \in Connections |-> <<>>]
    /\ seen = [c \in Connections |-> {}]
    /\ read = [c \in Connections |-> NoOne]
    /\ affected = [c \in Connections |-> {}]

-----------------------------------------------------------------------------
(* The client messages.                                                       *)

\* Fault: the new presence is added before the previous one is removed.
Moves_JoinFirst(prev, i) ==
    IF prev = NoOne THEN <<Do("join", i)>> ELSE <<Do("join", i), Do("leave", prev)>>

\* The presence part of Focus: out of the previous instance, into the new one.
Moves(prev, i) ==
    IF prev = NoOne THEN <<Do("join", i)>> ELSE <<Do("leave", prev), Do("join", i)>>

\* Fault: the previous instance is not reconciled.
AfterJoin_NoPrevReconcile(prev, i) ==
    IF prev = NoOne
    THEN Reconcile(i) \o Announce(i)
    ELSE Reconcile(i) \o Announce(prev) \o Announce(i)

\* Fault: the clients of the previous instance are not told.
AfterJoin_NoPrevBroadcast(prev, i) ==
    IF prev = NoOne
    THEN Reconcile(i) \o Announce(i)
    ELSE Reconcile(i) \o Reconcile(prev) \o Announce(i)

\* The rest of Focus once c has joined i: both reconciles, both broadcasts.
AfterJoin(prev, i) ==
    IF prev = NoOne
    THEN Reconcile(i) \o Announce(i)
    ELSE Reconcile(i) \o Reconcile(prev) \o Announce(prev) \o Announce(i)

\* ClientMessage::Focus: swap focused_instance, move presence, then the rest.
\* The previous instance may be the new one.
Focus(c, i) ==
    /\ Ready(c)
    /\ focused' = [focused EXCEPT ![c] = i]
    /\ todo' = [todo EXCEPT ![c] = Moves(focused[c], i) \o AfterJoin(focused[c], i)]
    /\ UNCHANGED <<presence, lockVars, status, seen, read, affected>>

\* Fault: a lock counts as expired one tick early.
CanAcquire_EarlyExpiry(c, i) == \A l \in lock[i] : l.user = UserOf[c] \/ l.idle + 1 >= Timeout

\* try_acquire_terminal_lock succeeds on a free lock, the user's own, or an expired one.
CanAcquire(c, i) == \A l \in lock[i] : l.user = UserOf[c] \/ l.idle = Timeout

\* ClientMessage::TerminalLockRequest.  A refusal only answers the sender.
Request(c, i) ==
    /\ Ready(c)
    /\ Names(c, i)
    /\ CanAcquire(c, i)
    /\ lock' = [lock EXCEPT ![i] = {Fresh(c)}]
    /\ todo' = [todo EXCEPT ![c] = Announce(i)]
    /\ UNCHANGED <<presence, announced, registered, connVars>>

\* release_terminal_lock takes effect only for the connection that holds.
HeldBy(c, i) == \E l \in lock[i] : l.conn = c

\* ClientMessage::TerminalLockRelease
Release(c, i) ==
    /\ Ready(c)
    /\ Names(c, i)
    /\ HeldBy(c, i)
    /\ lock' = [lock EXCEPT ![i] = {}]
    /\ todo' = [todo EXCEPT ![c] = Reconcile(i) \o Announce(i)]
    /\ UNCHANGED <<presence, announced, registered, connVars>>

\* ClientMessage::Input: handle_input fails without a tracker, else touches the lock.
Input(c, i) ==
    /\ Ready(c)
    /\ Names(c, i)
    /\ i \in registered
    /\ todo' = [todo EXCEPT ![c] = <<Do("touch", i)>>]
    /\ UNCHANGED <<presence, lockVars, connVars>>

-----------------------------------------------------------------------------
(* The pieces of work.                                                        *)

\* remove_presence_from_instance
Leave(c) ==
    /\ Doing(c, "leave")
    /\ presence' = [presence EXCEPT ![Here(c)] = @ \ {c}]
    /\ Advance(c)
    /\ UNCHANGED <<lockVars, connVars>>

\* add_presence
Join(c) ==
    /\ Doing(c, "join")
    /\ presence' = [presence EXCEPT ![Here(c)] = @ \cup {c}]
    /\ Advance(c)
    /\ UNCHANGED <<lockVars, connVars>>

\* First half of reconcile_terminal_lock_with_presence: copy presence, drop its guard.
Peek(c) ==
    /\ Doing(c, "peek")
    /\ seen' = [seen EXCEPT ![c] = presence[Here(c)]]
    /\ Advance(c)
    /\ UNCHANGED <<presence, lockVars, focused, status, read, affected>>

\* Fault: any number of users counts as one.
Sole_Any(S) == \E u \in Users : u \in UsersOf(S)

\* unique_users.len() == 1
Sole(S) == \E u \in Users : UsersOf(S) = {u}

\* Fault: the holder is compared with the first connection of the snapshot only.
Settled_FirstOnly(i, S) ==
    IF \E l \in lock[i] : \E d \in S : l.conn # d THEN {{}}
    ELSE IF lock[i] = {} /\ Sole(S)
    THEN {{[conn |-> d, user |-> u, idle |-> 0]} : d \in S, u \in UsersOf(S)}
    ELSE {lock[i]}

\* What the second half may make of the lock of i, given the snapshot S: clear
\* it, grant it (the first unique user, the first connection, both of a hash
\* map), or leave it.  Clearing returns at once: the same call never grants too.
Settled(i, S) ==
    IF \E l \in lock[i] : l.conn \notin S THEN {{}}
    ELSE IF lock[i] = {} /\ Sole(S)
    THEN {{[conn |-> d, user |-> u, idle |-> 0]} : d \in S, u \in UsersOf(S)}
    ELSE {lock[i]}

Settle(c) ==
    /\ Doing(c, "settle")
    /\ \E l \in Settled(Here(c), seen[c]) : lock' = [lock EXCEPT ![Here(c)] = l]
    /\ seen' = [seen EXCEPT ![c] = {}]
    /\ Advance(c)
    /\ UNCHANGED <<presence, announced, registered, focused, status, read, affected>>

\* Fault: input from any tab of the holder keeps the lock of a dead tab alive.
Touched_AnyTab(c, L) == {IF l.user = UserOf[c] THEN [l EXCEPT !.idle = 0] ELSE l : l \in L}

\* touch_terminal_lock
Touched(c, L) == {IF l.conn = c THEN [l EXCEPT !.idle = 0] ELSE l : l \in L}

Touch(c) ==
    /\ Doing(c, "touch")
    /\ lock' = [lock EXCEPT ![Here(c)] = Touched(c, @)]
    /\ Advance(c)
    /\ UNCHANGED <<presence, announced, registered, connVars>>

\* broadcast_terminal_lock_update: get_terminal_lock, then the broadcast.
Read(c) ==
    /\ Doing(c, "read")
    /\ read' = [read EXCEPT ![c] = Holder(Here(c))]
    /\ Advance(c)
    /\ UNCHANGED <<presence, lockVars, focused, status, seen, affected>>

Send(c) ==
    /\ Doing(c, "send")
    /\ announced' = [announced EXCEPT ![Here(c)] = read[c]]
    /\ read' = [read EXCEPT ![c] = NoOne]
    /\ Advance(c)
    /\ UNCHANGED <<presence, lock, registered, focused, status, seen, affected>>

-----------------------------------------------------------------------------
(* The end of a connection.                                                   *)

\* select! ends (close, socket error, failed send) and drops input_task wherever it is.
Disconnect(c) ==
    /\ status[c] = "open"
    /\ Serial => Ready(c)
    /\ status' = [status EXCEPT ![c] = "closing"]
    /\ todo' = [todo EXCEPT ![c] = <<>>]
    /\ seen' = [seen EXCEPT ![c] = {}]
    /\ read' = [read EXCEPT ![c] = NoOne]
    /\ UNCHANGED <<presence, lockVars, focused, affected>>

\* remove_presence_all, under one write guard.
LeaveAll(c) ==
    /\ status[c] = "closing"
    /\ status' = [status EXCEPT ![c] = "left"]
    /\ affected' = [affected EXCEPT ![c] = {i \in Instances : c \in presence[i]}]
    /\ presence' = [i \in Instances |-> presence[i] \ {c}]
    /\ UNCHANGED <<lockVars, focused, todo, seen, read>>

\* The loop over `updates`: release, reconcile if that released, always announce.
ReleaseOne(c, i) ==
    /\ status[c] = "left"
    /\ todo[c] = <<>>
    /\ i \in affected[c]
    /\ affected' = [affected EXCEPT ![c] = @ \ {i}]
    /\ \/ /\ HeldBy(c, i)
          /\ lock' = [lock EXCEPT ![i] = {}]
          /\ todo' = [todo EXCEPT ![c] = Reconcile(i) \o Announce(i)]
       \/ /\ ~HeldBy(c, i)
          /\ todo' = [todo EXCEPT ![c] = Announce(i)]
          /\ UNCHANGED lock
    /\ UNCHANGED <<presence, announced, registered, focused, status, seen, read>>

\* unregister_instance: the lock goes without a broadcast, presence stays.
Unregister(i) ==
    /\ i \in registered
    /\ registered' = registered \ {i}
    /\ lock' = [lock EXCEPT ![i] = {}]
    /\ UNCHANGED <<presence, announced, todo, connVars>>

\* Fault: the age of a lock is not compared but counted on.
Older_NoCap(L) == {[l EXCEPT !.idle = @ + 1] : l \in L}

\* One unit of time: every lock is idle for longer, up to Timeout.
Older(L) == {[l EXCEPT !.idle = IF @ < Timeout THEN @ + 1 ELSE @] : l \in L}

Tick ==
    /\ lock' = [i \in Instances |-> Older(lock[i])]
    /\ UNCHANGED <<presence, announced, registered, todo, connVars>>

Step(c) ==
    \/ Leave(c) \/ Join(c) \/ Peek(c) \/ Settle(c)
    \/ Touch(c) \/ Read(c) \/ Send(c)

Message(c) ==
    \E i \in Instances : Focus(c, i) \/ Request(c, i) \/ Release(c, i) \/ Input(c, i)

CleanUp(c) == LeaveAll(c) \/ \E i \in Instances : ReleaseOne(c, i)

Next ==
    \/ \E c \in Connections : Message(c) \/ Step(c) \/ Disconnect(c) \/ CleanUp(c)
    \/ \E i \in Instances : Unregister(i)
    \/ Tick

Spec == Init /\ [][Next]_vars

\* Time passes, and tokio keeps polling a handler until it ends; clients may stop.
Fairness ==
    /\ WF_vars(Tick)
    /\ \A c \in Connections : WF_vars(Step(c)) /\ WF_vars(CleanUp(c))

FairSpec == Spec /\ Fairness

-----------------------------------------------------------------------------
(* Properties.                                                                *)

TypeOK ==
    /\ presence \in [Instances -> SUBSET Connections]
    /\ lock \in [Instances -> SUBSET LockRecord]
    /\ \A i \in Instances : \A l, m \in lock[i] : l = m
    /\ announced \in [Instances -> Users \cup {NoOne}]
    /\ registered \subseteq Instances
    /\ focused \in [Connections -> Instances \cup {NoOne}]
    /\ status \in [Connections -> {"open", "closing", "left"}]
    /\ todo \in [Connections -> Seq(Work)]
    /\ seen \in [Connections -> SUBSET Connections]
    /\ read \in [Connections -> Users \cup {NoOne}]
    /\ affected \in [Connections -> SUBSET Instances]

\* No connection of the system is in the middle of a handler or of its clean-up.
Quiet ==
    \A c \in Connections : todo[c] = <<>> /\ status[c] # "closing" /\ affected[c] = {}

\* A lock names one connection and the user of that very connection: an
\* auto-grant never pairs a user with somebody else's tab, however the snapshot
\* it grants from has aged.
HolderIsOneOfUser == \A i \in Instances : \A l \in lock[i] : l.user = UserOf[l.conn]

Leases == INSTANCE Lease WITH lease <- lock

\* The locks are leases: whatever requests, reconciles with aged snapshots, dropped
\* handlers and late clean-ups make of them, a step grants one to a connection in its
\* own user's name, over nobody else's live lock, or renews or ends one, or ages all.
LocksAreLeases == Leases!Spec

\* While a lock lives, no step hands it to another user before it has expired:
\* no reconcile, late clean-up or request of anybody jumps the timeout.
NoTakeoverBeforeTimeout ==
    [][\A i \in Instances : \A l \in lock[i], m \in lock'[i] :
          l.user # m.user => l.idle = Timeout]_vars

\* Between messages a connection is present exactly where it is focused, and
\* one whose clean-up has run is present nowhere, even if a Focus was cut short.
PresenceMatchesFocus ==
    \A c \in Connections : \A i \in Instances :
        /\ (status[c] = "open" /\ todo[c] = <<>>) => (c \in presence[i] <=> focused[c] = i)
        /\ status[c] = "left" => c \notin presence[i]

\* A connection is in the presence set of one instance at most, also in the
\* middle of a Focus: the clean-up loop has one instance to release.
PresentOnce ==
    \A c \in Connections : \A i, j \in Instances :
        c \in presence[i] \cap presence[j] => i = j

\* A lock left to, or granted late to, a connection that is gone does not shut
\* the others out for good: from some point on it is expired or not there.
AbandonedLockExpires ==
    \A c \in Connections : \A i \in Instances :
        status[c] = "left" ~> [](\A l \in lock[i] : l.conn = c => l.idle = Timeout)

\* "Release any terminal locks held by this connection": when nothing is in
\* progress, the holder of a lock is connected and viewing the instance.
HolderPresentWhenQuiet ==
    Quiet => \A i \in Instances : \A l \in lock[i] : l.conn \in presence[i]

\* "If holder disconnected, clear the lock": a reconcile takes the lock from
\* nobody who is viewing the instance.
ReconcileSparesPresentHolder ==
    [][\A c \in Connections :
          (Doing(c, "settle") /\ todo'[c] = Tail(todo[c])) =>
             \A l \in lock[Here(c)] : l.conn \in presence[Here(c)] => lock'[Here(c)] # {}]_vars

\* "Broadcast the current terminal lock state": with nothing in progress, what
\* the clients of a live instance were last told is what the server holds.
AnnouncedWhenQuiet == Quiet => \A i \in registered : announced[i] = Holder(i)

\* "If only one user is present and no lock exists, auto-grant": a reconcile
\* that finds a single user viewing the instance leaves the lock granted.
ReconcileGrantsSoleUser ==
    [][\A c \in Connections :
          (Doing(c, "settle") /\ todo'[c] = Tail(todo[c]) /\ status'[c] = status[c]) =>
             (Sole(seen[c]) => lock'[Here(c)] # {})]_vars

\* "Touch if held by this connection OR same user (multi-tab)": input from any
\* tab of the holder leaves the lock fresh.
InputOfHolderRefreshes ==
    [][\A c \in Connections :
          (Doing(c, "touch") /\ todo'[c] = Tail(todo[c]) /\ status'[c] = "open") =>
             \A l \in lock[Here(c)] : l.user = UserOf[c] =>
                \A m \in lock'[Here(c)] : m.idle = 0]_vars
=============================================================================
