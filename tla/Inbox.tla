------------------------------- MODULE Inbox --------------------------------
(* The inbox: the watcher that turns changes of state into one row per         *)
(* instance (state_manager.rs, repository/inbox.rs), the requests that dismiss *)
(* a row (handlers/inbox.rs), and the items one client shows (ws/handler.rs,   *)
(* stores/inbox.ts).  Watcher and requests share the table without a           *)
(* transaction, and the rows outlive the server.                               *)
EXTENDS Naturals, Sequences

CONSTANTS
    InboxInstances,
    NoState,        \* a state the watcher has not seen
    NoItem,         \* no row
    HeardCap,       \* capacity of the state channel (256)
    NewsCap,        \* capacity of the lifecycle channel (64)
    InboxWireCap,   \* capacity of the connection's queue (100)
    MaxChanges      \* bound: broadcasts of state

ASSUME InboxAssumption ==
    /\ NoState \notin {"starting", "idle", "active", "waiting"}
    /\ NoItem \notin [type : {"completed_turn", "needs_input"}, count : Nat]
    /\ {HeardCap, NewsCap, InboxWireCap} \subseteq Nat \ {0}
    /\ MaxChanges \in Nat

VARIABLES
    state,       \* instance -> its state, or where it is in its life
    heard,       \* broadcasts of state the watcher has not read
    prev,        \* prev_states
    task,        \* what the watcher is doing
    row,         \* instance_inbox: instance -> its row
    dismissing,  \* instance -> where the request that dismisses its row is
    inboxLink,   \* where the client's connection is
    news,        \* updates its lifecycle receiver has not read
    inboxWire,   \* messages on their way to the client
    shown,       \* inboxItems: instance -> the item the client shows
    inboxTorn,   \* history: instances the client may be wrong about
    excused,     \* history: instances whose row may be missing
    failed,      \* history: instances whose row could not be written
    missed,      \* history: instances whose last state the watcher lost in a lag
    changes

watcherVars == <<heard, prev, task>>
clientVars == <<inboxLink, news, inboxWire, shown>>
inboxVars == <<state, watcherVars, row, dismissing, clientVars, inboxTorn, excused, failed, missed, changes>>

\* Thinking, Responding and ToolExecuting are one here, and so are the states
\* before the first turn.
States == {"starting", "idle", "active", "waiting"}
Items == [type : {"completed_turn", "needs_input"}, count : 1..MaxChanges]
Has(i, type) == row[i] # NoItem /\ row[i].type = type

\* What the watcher may do for a change of state.
Completed == [write |-> TRUE, type |-> "completed_turn"]
NeedsInput == [write |-> TRUE, type |-> "needs_input"]
Responded == [write |-> FALSE, type |-> "needs_input"]
NewWork == [write |-> FALSE, type |-> "completed_turn"]

Rest == [stage |-> "rest"]
At(i, todo, stage, item) == [id |-> i, todo |-> todo, stage |-> stage, item |-> item]
Reaches(stage, item) == task' = [task EXCEPT !.stage = stage, !.item = item]

InboxInit ==
    /\ state = [i \in InboxInstances |-> "unborn"]
    /\ heard = <<>>
    /\ prev = [i \in InboxInstances |-> NoState]
    /\ task = Rest
    /\ row = [i \in InboxInstances |-> NoItem]
    /\ dismissing = [i \in InboxInstances |-> "none"]
    /\ inboxLink = "off" /\ news = <<>> /\ inboxWire = <<>>
    /\ shown = [i \in InboxInstances |-> NoItem]
    /\ inboxTorn = {} /\ excused = {} /\ failed = {} /\ missed = {}
    /\ changes = 0

\* A channel that is full overwrites its oldest message.
Queued(q, cap, m) == Append(IF Len(q) < cap THEN q ELSE Tail(q), m)

-----------------------------------------------------------------------------
(* Instances, and what is broadcast of them.                                   *)

Create(i) ==
    /\ state[i] = "unborn"
    /\ state' = [state EXCEPT ![i] = "starting"]
    /\ UNCHANGED <<watcherVars, row, dismissing, clientVars, inboxTorn, excused, failed, missed, changes>>

\* broadcast_state: the same state may be told again, and the states before the
\* first turn never come back.
Change(i) ==
    /\ state[i] \in States
    /\ changes < MaxChanges
    /\ changes' = changes + 1
    /\ \E s \in States :
        /\ s = "starting" => state[i] = "starting"
        /\ state' = [state EXCEPT ![i] = s]
        /\ heard' = Queued(heard, HeardCap, [id |-> i, state |-> s])
    /\ missed' = {j \in missed \cup {heard[k].id : k \in DOMAIN heard} :
                    j \notin {heard'[k].id : k \in DOMAIN heard'}}
    /\ UNCHANGED <<prev, task, row, dismissing, clientVars, inboxTorn, excused, failed>>

\* delete_instance: the row stays.
EndInstance(i) ==
    /\ state[i] \in States
    /\ state' = [state EXCEPT ![i] = "gone"]
    /\ UNCHANGED <<watcherVars, row, dismissing, clientVars, inboxTorn, excused, failed, missed, changes>>

\* InboxUpdate.  A receiver that lags loses its oldest message.  An update is
\* the last word about i unless the row changed before it was sent.
Broadcast(i, item) ==
    /\ news' = IF inboxLink = "on" THEN Queued(news, NewsCap, [id |-> i, item |-> item]) ELSE news
    /\ inboxTorn' = ((inboxTorn \cup {m.id : m \in IF inboxLink = "on" /\ Len(news) >= NewsCap THEN {Head(news)} ELSE {}}) \ {i})
                    \cup (IF inboxLink = "on" /\ row[i] = item THEN {} ELSE {i})

-----------------------------------------------------------------------------
(* start_inbox_watcher                                                         *)

\* Fault: an answered question stays.
Due_NotResponded(step, p, s) ==
    CASE step = Completed -> p = "active" /\ s = "idle"
      [] step = NeedsInput -> s = "waiting" /\ p # "waiting"
      [] step = Responded -> p = "waiting" /\ s = "active"
      [] OTHER -> p # "active" /\ s = "active"

Due(step, p, s) ==
    CASE step = Completed -> p = "active" /\ s = "idle"
      [] step = NeedsInput -> s = "waiting" /\ p # "waiting"
      [] step = Responded -> p = "waiting" /\ s # "waiting"
      [] OTHER -> p # "active" /\ s = "active"

\* In the order in which the watcher asks.
IfDue(step, p, s) == IF Due(step, p, s) THEN <<step>> ELSE <<>>

Todo(p, s) ==
    IF p = NoState THEN <<>>
    ELSE IfDue(Completed, p, s) \o IfDue(NeedsInput, p, s) \o IfDue(Responded, p, s) \o IfDue(NewWork, p, s)

\* The next broadcast.  The first state of an instance writes nothing.
Take ==
    /\ task = Rest /\ heard # <<>>
    /\ heard' = Tail(heard)
    /\ LET i == Head(heard).id
           s == Head(heard).state
           todo == Todo(prev[i], s)
       IN  /\ prev' = [prev EXCEPT ![i] = s]
           /\ task' = IF todo = <<>> THEN Rest ELSE At(i, todo, "begin", NoItem)
           /\ excused' = CASE prev[i] = NoState -> excused \cup {i}
                           [] todo # <<>> -> excused \ {i}
                           [] OTHER -> excused
    /\ UNCHANGED <<state, row, dismissing, clientVars, inboxTorn, failed, missed, changes>>

Duty == Head(task.todo)

\* The step is over.
Proceed ==
    task' = IF Len(task.todo) = 1 THEN Rest ELSE At(task.id, Tail(task.todo), "begin", NoItem)

\* "Try to find existing row"
Select ==
    /\ task.stage = "begin" /\ Duty.write
    /\ Reaches("selected", row[task.id])
    /\ UNCHANGED <<state, heard, prev, row, dismissing, clientVars, inboxTorn, excused, failed, missed, changes>>

\* "Same type: increment turn_count": the row read may be gone.
Increment ==
    /\ task.stage = "selected"
    /\ Duty = Completed /\ task.item # NoItem /\ task.item.type = "completed_turn"
    /\ LET item == [task.item EXCEPT !.count = @ + 1]
       IN  /\ Reaches("written", item)
           /\ row' = IF row[task.id] = NoItem THEN row ELSE [row EXCEPT ![task.id].count = item.count]
    /\ UNCHANGED <<state, heard, prev, dismissing, clientVars, inboxTorn, excused, failed, missed, changes>>

\* "Replace (or insert new)"
Replace ==
    /\ task.stage = "selected"
    /\ ~(Duty = Completed /\ task.item # NoItem /\ task.item.type = "completed_turn")
    /\ LET item == [type |-> Duty.type, count |-> 1]
       IN  /\ Reaches("written", item)
           /\ row' = [row EXCEPT ![task.id] = item]
    /\ UNCHANGED <<state, heard, prev, dismissing, clientVars, inboxTorn, excused, failed, missed, changes>>

\* Fault: clients are not told.
Cleared_Silently == Proceed

\* A row was deleted.
Cleared == Reaches("written", NoItem)

\* clear_inbox_by_type
Clear ==
    /\ task.stage = "begin" /\ ~Duty.write
    /\ IF Has(task.id, Duty.type)
         THEN Cleared /\ row' = [row EXCEPT ![task.id] = NoItem]
         ELSE Proceed /\ UNCHANGED row
    /\ UNCHANGED <<state, heard, prev, dismissing, clientVars, inboxTorn, excused, failed, missed, changes>>

Tell ==
    /\ task.stage = "written"
    /\ Proceed
    /\ Broadcast(task.id, task.item)
    /\ UNCHANGED <<state, heard, prev, row, dismissing, inboxLink, inboxWire, shown, excused, failed, missed, changes>>

\* "Failed to upsert", "Failed to clear": the watcher goes on.
Fail ==
    /\ task.stage \in {"begin", "selected"}
    /\ failed' = failed \cup {task.id}
    /\ Proceed
    /\ UNCHANGED <<state, heard, prev, row, dismissing, clientVars, inboxTorn, excused, missed, changes>>

-----------------------------------------------------------------------------
(* dismiss_inbox_handler, and the client that asked for it.                    *)

Dismiss(i) ==
    /\ dismissing[i] = "none" /\ row[i] # NoItem
    /\ dismissing' = [dismissing EXCEPT ![i] = "deleted"]
    /\ row' = [row EXCEPT ![i] = NoItem]
    /\ excused' = excused \cup {i}
    /\ UNCHANGED <<state, watcherVars, clientVars, inboxTorn, failed, missed, changes>>

\* "Broadcast the dismissal to all clients": the one that asked is answered too.
Dismissed(i) ==
    /\ dismissing[i] = "deleted"
    /\ \E own \in BOOLEAN : dismissing' = [dismissing EXCEPT ![i] = IF own THEN "answered" ELSE "none"]
    /\ Broadcast(i, NoItem)
    /\ UNCHANGED <<state, watcherVars, row, inboxLink, inboxWire, shown, excused, failed, missed, changes>>

\* "Optimistic update": the answer and the broadcast take different ways.
Forget(i) ==
    /\ dismissing[i] = "answered"
    /\ dismissing' = [dismissing EXCEPT ![i] = "none"]
    /\ shown' = [shown EXCEPT ![i] = NoItem]
    /\ inboxTorn' = IF row[i] = NoItem THEN inboxTorn ELSE inboxTorn \cup {i}
    /\ UNCHANGED <<state, watcherVars, row, inboxLink, news, inboxWire, excused, failed, missed, changes>>

-----------------------------------------------------------------------------
(* The connection, and the client's items.                                     *)

\* "Empty inbox, nothing to send": nor is a list that could not be read.
ConnectInbox ==
    /\ inboxLink = "off"
    /\ inboxLink' = "listed"
    /\ \E read \in BOOLEAN :
           IF read /\ \E i \in InboxInstances : row[i] # NoItem
             THEN inboxWire' = <<[list |-> row]>> /\ inboxTorn' = {}
             ELSE inboxWire' = <<>> /\ inboxTorn' = {i \in InboxInstances : shown[i] # row[i]}
    /\ UNCHANGED <<state, watcherVars, row, dismissing, news, shown, excused, failed, missed, changes>>

SubscribeNews ==
    /\ inboxLink = "listed"
    /\ inboxLink' = "on"
    /\ UNCHANGED <<state, watcherVars, row, dismissing, news, inboxWire, shown, inboxTorn, excused, failed, missed, changes>>

Forward ==
    /\ inboxLink = "on" /\ news # <<>> /\ Len(inboxWire) < InboxWireCap
    /\ inboxWire' = Append(inboxWire, Head(news))
    /\ news' = Tail(news)
    /\ UNCHANGED <<state, watcherVars, row, dismissing, inboxLink, shown, inboxTorn, excused, failed, missed, changes>>

\* handleInboxUpdate, handleInboxList
DeliverInbox ==
    /\ inboxWire # <<>>
    /\ inboxWire' = Tail(inboxWire)
    /\ LET m == Head(inboxWire)
       IN  shown' = IF "list" \in DOMAIN m THEN m.list ELSE [shown EXCEPT ![m.id] = m.item]
    /\ UNCHANGED <<state, watcherVars, row, dismissing, inboxLink, news, inboxTorn, excused, failed, missed, changes>>

DisconnectInbox ==
    /\ inboxLink # "off"
    /\ inboxLink' = "off" /\ news' = <<>> /\ inboxWire' = <<>>
    /\ UNCHANGED <<state, watcherVars, row, dismissing, shown, inboxTorn, excused, failed, missed, changes>>

\* The server stops and starts: its instances are gone, their rows are not.
RestartServer ==
    /\ state' = [i \in InboxInstances |-> IF state[i] = "unborn" THEN "unborn" ELSE "gone"]
    /\ state' # state
    /\ heard' = <<>> /\ task' = Rest
    /\ prev' = [i \in InboxInstances |-> NoState]
    /\ dismissing' = [i \in InboxInstances |-> "none"]
    /\ inboxLink' = "off" /\ news' = <<>> /\ inboxWire' = <<>>
    /\ UNCHANGED <<row, shown, inboxTorn, excused, failed, missed, changes>>

InboxNext ==
    \/ \E i \in InboxInstances : Create(i) \/ Change(i) \/ EndInstance(i) \/ Dismiss(i) \/ Dismissed(i) \/ Forget(i)
    \/ Take \/ Select \/ Increment \/ Replace \/ Clear \/ Tell \/ Fail
    \/ ConnectInbox \/ SubscribeNews \/ Forward \/ DeliverInbox \/ DisconnectInbox \/ RestartServer

InboxSpec == InboxInit /\ [][InboxNext]_inboxVars

-----------------------------------------------------------------------------
(* Properties.                                                                 *)

InboxRows == [InboxInstances -> Items \cup {NoItem}]
Updates == [id : InboxInstances, item : Items \cup {NoItem}]
Tasks == [id : InboxInstances, todo : Seq({Completed, NeedsInput, Responded, NewWork}) \ {<<>>},
          stage : {"begin", "selected", "written"}, item : Items \cup {NoItem}]

InboxTypeOK ==
    /\ state \in [InboxInstances -> States \cup {"unborn", "gone"}]
    /\ heard \in Seq([id : InboxInstances, state : States]) /\ Len(heard) <= HeardCap
    /\ prev \in [InboxInstances -> States \cup {NoState}]
    /\ task = Rest \/ task \in Tasks
    /\ row \in InboxRows /\ shown \in InboxRows
    /\ dismissing \in [InboxInstances -> {"none", "deleted", "answered"}]
    /\ inboxLink \in {"off", "listed", "on"}
    /\ news \in Seq(Updates) /\ Len(news) <= NewsCap
    /\ inboxWire \in Seq(Updates \cup [list : InboxRows]) /\ Len(inboxWire) <= InboxWireCap
    /\ inboxTorn \subseteq InboxInstances /\ excused \subseteq InboxInstances /\ failed \subseteq InboxInstances /\ missed \subseteq InboxInstances
    /\ changes \in 0..MaxChanges

\* Once every update has arrived, the client shows of each instance the row the
\* table has, unless it missed an update for good: in a lag, between list and
\* subscription, in a crossing of the watcher and a dismissal, or because an
\* empty or unreadable inbox is not sent.
InboxInStep ==
    inboxLink = "on" /\ inboxWire = <<>> /\ news = <<>> =>
        \A i \in InboxInstances \ inboxTorn :
            dismissing[i] = "none" /\ ~(task.stage = "written" /\ task.id = i) => shown[i] = row[i]

\* Once the watcher has caught up, the row of a running instance is one its
\* state calls for, even if broadcasts before its last one were lost to a lag: no
\* question remains that was answered, no finished turn while the next one runs,
\* and a question asked is there unless it was dismissed or is the first thing
\* heard.
InboxFollowsState ==
    task = Rest /\ heard = <<>> =>
        \A i \in InboxInstances \ (failed \cup missed) :
            state[i] \in States =>
                /\ Has(i, "needs_input") => state[i] = "waiting"
                /\ Has(i, "completed_turn") => state[i] = "idle"
                /\ state[i] = "waiting" /\ i \notin excused => Has(i, "needs_input")
=============================================================================
