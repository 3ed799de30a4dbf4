---------------------------- MODULE InstanceList ----------------------------
(* Instances from creation to deletion (instance_manager.rs,                   *)
(* handlers/instances.rs), what the server broadcasts about them               *)
(* (state_manager.rs, instance_actor.rs), and the list one client keeps: read  *)
(* once when it connects, then updated from two broadcast channels             *)
(* (ws/handler.rs, stores/ws-handlers.ts), or fetched anew (stores/instances.ts).*)
EXTENDS Naturals, Sequences, FiniteSets

CONSTANTS
    Instances,    \* instances that may be created
    Names,        \* names
    NoName,       \* an instance not yet named
    LifeCap,      \* capacity of the lifecycle channel (64)
    StateCap,     \* capacity of the state channel (256)
    WireCap,      \* capacity of the connection's queue (100)
    MaxStates,    \* bound: state changes of an instance
    MaxRenames    \* bound: times an instance is renamed

ASSUME NameAssumption == NoName \notin Names
ASSUME CapAssumption == {LifeCap, StateCap, WireCap} \subseteq Nat \ {0}
ASSUME ListBoundAssumption == {MaxStates, MaxRenames} \subseteq Nat

VARIABLES
    phase,      \* instance -> where the request that creates it is
    name,       \* instance -> its name
    used,       \* used_names
    listed,     \* instances the manager holds
    tracked,    \* instances with a tracker
    info,       \* instance -> custom name and state, as its actor keeps them
    deleting,   \* instance -> where the request that deletes it is
    renaming,   \* instance -> custom names set and not yet broadcast
    life,       \* what the client's lifecycle receiver has not read yet
    states,     \* what its state receiver has not read yet
    link,       \* where the client's connection is
    wire,       \* messages on their way to the client
    view,       \* the client's list
    response,   \* the list it is fetching, as a sequence of at most one
    since,      \* history: instances it heard of since that list was made
    torn        \* history: instances it may be wrong about

managerVars == <<phase, name, used, listed, tracked, deleting>>
actorVars == <<info, renaming>>
channelVars == <<life, states>>
fetchVars == <<response, since>>
listVars == <<managerVars, actorVars, channelVars, link, fetchVars, wire, view, torn>>

\* What is told of an instance.  State 0 is Initializing, or not known yet.
Info == [custom : 0..MaxRenames, state : 0..MaxStates]
Fresh == [custom |-> 0, state |-> 0]
Lists == UNION {[S -> Info] : S \in SUBSET Instances}
News(kind, i) == [kind |-> kind, id |-> i, info |-> info[i]]

ListInit ==
    /\ phase = [i \in Instances |-> "none"]
    /\ name = [i \in Instances |-> NoName]
    /\ used = {} /\ listed = {} /\ tracked = {}
    /\ info = [i \in Instances |-> Fresh]
    /\ deleting = [i \in Instances |-> "none"]
    /\ renaming = [i \in Instances |-> {}]
    /\ life = <<>> /\ states = <<>>
    /\ link = "off"
    /\ wire = <<>> /\ view = <<>>
    /\ response = <<>> /\ since = {}
    /\ torn = {}

\* The request that creates i has not broadcast InstanceCreated yet.
Creating(i) == phase[i] \in {"reserved", "spawned", "stored", "found"}

\* A request about i is at work.
Busy(i) == Creating(i) \/ deleting[i] # "none" \/ renaming[i] # {}

\* The actor of i runs.
Running(i) == phase[i] = "spawned" \/ i \in listed

\* A second request about i starts while one is at work.
Overlap(i) == IF Busy(i) THEN {i} ELSE {}

-----------------------------------------------------------------------------
(* Broadcasts, and the client that is between its list and its subscriptions.  *)

\* InstanceCreated is on its way to the client.
Untold(i) ==
    \/ Creating(i)
    \/ \E q \in {life, wire} : \E k \in DOMAIN q : q[k].kind = "created" /\ q[k].id = i

\* A receiver's messages after m: when the channel is full, the oldest is lost
\* and the receiver finds itself lagged.
Kept(q, cap, m) == Append(IF Len(q) < cap THEN q ELSE Tail(q), m)

Lost(q, cap) == IF Len(q) < cap THEN {} ELSE {q[1].id}

TellLife(m) ==
    /\ life' = IF link = "on" THEN Kept(life, LifeCap, m) ELSE life
    /\ torn' = torn \cup (IF link \in {"listed", "half"} THEN {m.id} ELSE {})
                    \cup (IF link = "on" THEN Lost(life, LifeCap) ELSE {})
    /\ UNCHANGED states

TellState(m) ==
    /\ states' = IF link \in {"half", "on"} THEN Kept(states, StateCap, m) ELSE states
    /\ torn' = torn \cup (IF link = "listed" \/ Untold(m.id) THEN {m.id} ELSE {})
                    \cup (IF link \in {"half", "on"} THEN Lost(states, StateCap) ELSE {})
    /\ UNCHANGED life

-----------------------------------------------------------------------------
(* create_instance, InstanceManager::create.                                   *)

Reserve(i, n) ==
    /\ phase[i] = "none"
    /\ phase' = [phase EXCEPT ![i] = "reserved"]
    /\ name' = [name EXCEPT ![i] = n]
    /\ used' = used \cup {n}
    /\ UNCHANGED <<listed, tracked, deleting, actorVars, channelVars, link, fetchVars, wire, view, torn>>

\* "Add provided name to used names"
Provide(i) == \E n \in Names : Reserve(i, n)

\* "Keep trying until we get a unique name"
Generate(i) == \E n \in Names \ used : Reserve(i, n)

Spawn(i) ==
    /\ phase[i] = "reserved"
    /\ phase' = [phase EXCEPT ![i] = "spawned"]
    /\ UNCHANGED <<name, used, listed, tracked, deleting, actorVars, channelVars, link, fetchVars, wire, view, torn>>

\* "Failed to start PTY": the name stays in use.
SpawnFails(i) ==
    /\ phase[i] = "reserved"
    /\ phase' = [phase EXCEPT ![i] = "failed"]
    /\ UNCHANGED <<name, used, listed, tracked, deleting, actorVars, channelVars, link, fetchVars, wire, view, torn>>

\* "Store the handle"
Store(i) ==
    /\ phase[i] = "spawned"
    /\ phase' = [phase EXCEPT ![i] = "stored"]
    /\ listed' = listed \cup {i}
    /\ UNCHANGED <<name, used, tracked, deleting, actorVars, channelVars, link, fetchVars, wire, view, torn>>

\* get_handle, and register_instance if there is one.
Find(i) ==
    /\ phase[i] = "stored" /\ i \in listed
    /\ phase' = [phase EXCEPT ![i] = "found"]
    /\ UNCHANGED <<name, used, listed, tracked, deleting, actorVars, channelVars, link, fetchVars, wire, view, torn>>

\* Fault: the instance is not registered.
Registered_Never(i) == tracked

\* "Register with global state manager", if the handle was found.
Registered(i) == tracked \cup (IF phase[i] = "found" THEN {i} ELSE {})

\* The rest of the request, up to InstanceCreated.
Announce(i) ==
    /\ phase[i] = "found" \/ (phase[i] = "stored" /\ i \notin listed)
    /\ phase' = [phase EXCEPT ![i] = "done"]
    /\ tracked' = Registered(i)
    /\ TellLife([kind |-> "created", id |-> i, info |-> Fresh])
    /\ UNCHANGED <<name, used, listed, deleting, actorVars, link, fetchVars, wire, view>>

-----------------------------------------------------------------------------
(* delete_instance, set_custom_name, and the states of the actor.              *)

\* unregister_instance
Unregister(i) ==
    /\ phase[i] \in {"stored", "found", "done"}
    /\ deleting[i] = "none"
    /\ i \in listed \cup tracked
    /\ deleting' = [deleting EXCEPT ![i] = "unregistered"]
    /\ tracked' = tracked \ {i}
    /\ torn' = torn \cup Overlap(i)
    /\ UNCHANGED <<phase, name, used, listed, actorVars, channelVars, link, fetchVars, wire, view>>

\* InstanceManager::stop, under the lock of the instances.
StopInstance(i) ==
    /\ deleting[i] = "unregistered"
    /\ deleting' = [deleting EXCEPT ![i] = IF i \in listed THEN "stopped" ELSE "none"]
    /\ listed' = listed \ {i}
    /\ used' = IF i \in listed THEN used \ {name[i]} ELSE used
    /\ UNCHANGED <<phase, name, tracked, actorVars, channelVars, link, fetchVars, wire, view, torn>>

\* Fault: clients are not told.
Stopped_Untold(i) == UNCHANGED <<channelVars, torn>>

\* InstanceStopped
Stopped(i) == TellLife(News("stopped", i))

Delete(i) ==
    /\ deleting[i] = "stopped"
    /\ deleting' = [deleting EXCEPT ![i] = "none"]
    /\ Stopped(i)
    /\ UNCHANGED <<phase, name, used, listed, tracked, actorVars, link, fetchVars, wire, view>>

\* InstanceManager::set_custom_name, by the actor.
SetName(i) ==
    /\ i \in listed
    /\ info[i].custom < MaxRenames
    /\ info' = [info EXCEPT ![i].custom = @ + 1]
    /\ renaming' = [renaming EXCEPT ![i] = @ \cup {info[i].custom + 1}]
    /\ torn' = torn \cup Overlap(i)
    /\ UNCHANGED <<managerVars, channelVars, link, fetchVars, wire, view>>

\* InstanceRenamed
Renamed(i) ==
    \E c \in renaming[i] :
        /\ renaming' = [renaming EXCEPT ![i] = @ \ {c}]
        /\ TellLife([kind |-> "renamed", id |-> i, info |-> [Fresh EXCEPT !.custom = c]])
        /\ UNCHANGED <<managerVars, info, link, fetchVars, wire, view>>

\* broadcast_state
ChangeState(i) ==
    /\ Running(i)
    /\ info[i].state < MaxStates
    /\ info' = [info EXCEPT ![i].state = @ + 1]
    /\ TellState([kind |-> "state", id |-> i, info |-> [Fresh EXCEPT !.state = info[i].state + 1]])
    /\ UNCHANGED <<managerVars, renaming, link, fetchVars, wire, view>>

-----------------------------------------------------------------------------
(* The connection (handle_multiplexed_ws).                                     *)

Room == Len(wire) < WireCap

\* InstanceManager::list
List == [i \in listed |-> info[i]]

\* "Send initial instance list with states"
Connect ==
    /\ link = "off"
    /\ link' = "listed"
    /\ wire' = <<[kind |-> "list", list |-> List]>>
    /\ torn' = {i \in Instances : Busy(i) /\ (i \in torn \/ info[i] # Fresh)}
    /\ UNCHANGED <<managerVars, actorVars, channelVars, fetchVars, view>>

\* "Subscribe to state broadcasts from all instances"
SubscribeStates ==
    /\ link = "listed"
    /\ link' = "half"
    /\ UNCHANGED <<managerVars, actorVars, channelVars, fetchVars, wire, view, torn>>

\* "Subscribe to instance lifecycle broadcasts (created/stopped)"
SubscribeLife ==
    /\ link = "half"
    /\ link' = "on"
    /\ UNCHANGED <<managerVars, actorVars, channelVars, fetchVars, wire, view, torn>>

\* lifecycle_task: a message it holds while the queue is full counts as unread.
ForwardLife ==
    /\ link = "on" /\ Room /\ life # <<>>
    /\ wire' = Append(wire, Head(life))
    /\ life' = Tail(life)
    /\ UNCHANGED <<managerVars, actorVars, states, fetchVars, link, view, torn>>

\* state_broadcast_task
ForwardState ==
    /\ link = "on" /\ Room /\ states # <<>>
    /\ wire' = Append(wire, Head(states))
    /\ states' = Tail(states)
    /\ UNCHANGED <<managerVars, actorVars, life, fetchVars, link, view, torn>>

Disconnect ==
    /\ link # "off"
    /\ link' = "off"
    /\ wire' = <<>> /\ life' = <<>> /\ states' = <<>>
    /\ UNCHANGED <<managerVars, actorVars, fetchVars, view, torn>>

-----------------------------------------------------------------------------
(* The client's list.                                                          *)

\* The list after a message (createMessageHandler, updateInstancesWithStates):
\* changes of an instance that is not in it are dropped.
Updated(m) ==
    CASE m.kind = "list" -> m.list
      [] m.kind = "created" ->
            [i \in DOMAIN view \cup {m.id} |-> IF i = m.id THEN m.info ELSE view[i]]
      [] m.kind = "stopped" -> [i \in DOMAIN view \ {m.id} |-> view[i]]
      [] m.kind = "renamed" -> [i \in DOMAIN view |-> IF i = m.id THEN [view[i] EXCEPT !.custom = m.info.custom] ELSE view[i]]
      [] m.kind = "state" -> [i \in DOMAIN view |-> IF i = m.id THEN [view[i] EXCEPT !.state = m.info.state] ELSE view[i]]

About(m) == IF m.kind = "list" THEN Instances ELSE {m.id}

Deliver ==
    /\ wire # <<>>
    /\ wire' = Tail(wire)
    /\ view' = Updated(Head(wire))
    /\ since' = IF response = <<>> THEN {} ELSE since \cup About(Head(wire))
    /\ UNCHANGED <<managerVars, actorVars, channelVars, link, response, torn>>

\* fetchInstances, after a creation or a deletion of this client.
Fetch ==
    /\ response = <<>>
    /\ \E i \in Instances : phase[i] = "done"
    /\ response' = <<List>>
    /\ UNCHANGED <<managerVars, actorVars, channelVars, link, since, wire, view, torn>>

Fetched ==
    /\ response # <<>>
    /\ view' = Head(response)
    /\ response' = <<>>
    /\ since' = {}
    /\ torn' = torn \cup since
    /\ UNCHANGED <<managerVars, actorVars, channelVars, link, wire>>

-----------------------------------------------------------------------------

ListNext ==
    \/ \E i \in Instances :
        \/ Provide(i) \/ Generate(i) \/ Spawn(i) \/ SpawnFails(i) \/ Store(i) \/ Find(i) \/ Announce(i)
        \/ Unregister(i) \/ StopInstance(i) \/ Delete(i)
        \/ SetName(i) \/ Renamed(i) \/ ChangeState(i)
    \/ Connect \/ SubscribeStates \/ SubscribeLife \/ ForwardLife \/ ForwardState \/ Disconnect
    \/ Deliver \/ Fetch \/ Fetched

ListSpec == ListInit /\ [][ListNext]_listVars

-----------------------------------------------------------------------------
(* Properties.                                                                 *)

LifeMessages == [kind : {"created", "stopped", "renamed"}, id : Instances, info : Info]
StateMessages == [kind : {"state"}, id : Instances, info : Info]
Messages == LifeMessages \cup StateMessages \cup [kind : {"list"}, list : Lists]

ListTypeOK ==
    /\ phase \in [Instances -> {"none", "reserved", "spawned", "failed", "stored", "found", "done"}]
    /\ name \in [Instances -> Names \cup {NoName}]
    /\ used \subseteq Names
    /\ listed \subseteq Instances /\ tracked \subseteq Instances
    /\ info \in [Instances -> Info]
    /\ deleting \in [Instances -> {"none", "unregistered", "stopped"}]
    /\ renaming \in [Instances -> SUBSET (1..MaxRenames)]
    /\ life \in Seq(LifeMessages) /\ Len(life) <= LifeCap
    /\ states \in Seq(StateMessages) /\ Len(states) <= StateCap
    /\ link \in {"off", "listed", "half", "on"}
    /\ wire \in Seq(Messages) /\ Len(wire) <= WireCap
    /\ view \in Lists
    /\ response \in Seq(Lists) /\ Len(response) <= 1
    /\ since \subseteq Instances /\ torn \subseteq Instances

\* Nothing is on its way to the client.
Settled == link = "on" /\ wire = <<>> /\ life = <<>> /\ states = <<>>

Shows(i) == IF i \in listed THEN i \in DOMAIN view /\ view[i] = info[i] ELSE i \notin DOMAIN view

\* Once everything has arrived, the client's list says of every instance what
\* the server says, unless something about it was lost: in a lag, between list
\* and subscription, in a crossing of two requests, of the two channels or of a
\* fetched list.  A new connection makes all that good.
ListInStep == Settled => \A i \in Instances \ torn : ~Busy(i) => Shows(i)

\* The same whatever crossed: it fails.
ListAlwaysInStep == Settled => \A i \in Instances : ~Busy(i) => Shows(i)

\* An instance that is listed, with no request at work on it, can be focused.
ListedIsTracked == \A i \in listed : ~Busy(i) => i \in tracked

\* The name of a running instance stays reserved, unless another one was given
\* the same: a generated name is never that of a running instance.
NamesReserved ==
    \A i \in Instances :
        (Running(i) \/ phase[i] = "reserved") /\ (\A j \in Instances \ {i} : name[j] # name[i])
            => name[i] \in used
=============================================================================
