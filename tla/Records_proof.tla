---------------------------- MODULE Records_proof ----------------------------
(* The accounts the server keeps: the list of its instances, the history of a  *)
(* session in the database, and the files other processes find it by.          *)
EXTENDS InstanceList, History, DaemonFiles, FiniteSetTheorems, WellFoundedInduction, SequenceTheorems, TLAPS

-----------------------------------------------------------------------------
(* The list of instances, for every number of instances, names and messages in *)
(* flight.                                                                     *)

USE CapAssumption, ListBoundAssumption

\* The parts of the type invariant: manager, actors, channels and client.
ManagerTyped ==
    /\ phase \in [Instances -> {"none", "reserved", "spawned", "failed", "stored", "found", "done"}]
    /\ name \in [Instances -> Names \cup {NoName}]
    /\ used \subseteq Names
    /\ listed \subseteq Instances /\ tracked \subseteq Instances
    /\ deleting \in [Instances -> {"none", "unregistered", "stopped"}]
ActorTyped ==
    /\ info \in [Instances -> Info]
    /\ renaming \in [Instances -> SUBSET (1..MaxRenames)]
ChannelTyped ==
    /\ life \in Seq(LifeMessages) /\ Len(life) <= LifeCap
    /\ states \in Seq(StateMessages) /\ Len(states) <= StateCap
    /\ torn \subseteq Instances
ClientTyped ==
    /\ link \in {"off", "listed", "half", "on"}
    /\ wire \in Seq(Messages) /\ Len(wire) <= WireCap
    /\ view \in Lists
    /\ response \in Seq(Lists) /\ Len(response) <= 1
    /\ since \subseteq Instances

LEMMA ListParts ==
    /\ ListTypeOK <=> ManagerTyped /\ ActorTyped /\ ChannelTyped /\ ClientTyped
    /\ ListTypeOK' <=> ManagerTyped' /\ ActorTyped' /\ ChannelTyped' /\ ClientTyped'
  BY DEF ListTypeOK, ManagerTyped, ActorTyped, ChannelTyped, ClientTyped

\* A full channel makes room by losing its oldest message.
LEMMA KeptTyped ==
    ASSUME NEW S, NEW q \in Seq(S), NEW cap \in Nat \ {0}, Len(q) <= cap, NEW m \in S
    PROVE  Kept(q, cap, m) \in Seq(S) /\ Len(Kept(q, cap, m)) <= cap
<1>1. CASE Len(q) < cap
  <2>1. Append(q, m) \in Seq(S) /\ Len(Append(q, m)) = Len(q) + 1
    OBVIOUS
  <2>2. Kept(q, cap, m) = Append(q, m)
    BY <1>1 DEF Kept
  <2> QED
    BY <1>1, <2>1, <2>2
<1>2. CASE ~(Len(q) < cap)
  <2>1. q # <<>>
    BY <1>2
  <2>2. Tail(q) \in Seq(S) /\ Len(Tail(q)) = Len(q) - 1
    BY <2>1
  <2>3. Append(Tail(q), m) \in Seq(S) /\ Len(Append(Tail(q), m)) = Len(q)
    BY <2>2
  <2>4. Kept(q, cap, m) = Append(Tail(q), m)
    BY <1>2 DEF Kept
  <2> QED
    BY <2>3, <2>4
<1> QED
  BY <1>1, <1>2

\* What a lag loses is a message about some instance.
LEMMA LostTyped ==
    ASSUME NEW S, \A x \in S : x.id \in Instances, NEW q \in Seq(S), NEW cap \in Nat \ {0}
    PROVE  Lost(q, cap) \subseteq Instances
<1>1. CASE Len(q) < cap
  BY <1>1 DEF Lost
<1>2. CASE ~(Len(q) < cap)
  <2>1. 1 \in 1..Len(q)
    BY <1>2
  <2>2. q[1] \in S
    BY <2>1
  <2> QED
    BY <1>2, <2>2 DEF Lost
<1> QED
  BY <1>1, <1>2

\* A broadcast keeps the channels' types.
LEMMA TellLifeTyped ==
    ASSUME ChannelTyped, NEW m \in LifeMessages, TellLife(m)
    PROVE  ChannelTyped'
<1>1. LifeCap \in Nat \ {0} /\ m.id \in Instances
  BY DEF LifeMessages
<1>2. life' \in Seq(LifeMessages) /\ Len(life') <= LifeCap
  <2>1. Kept(life, LifeCap, m) \in Seq(LifeMessages) /\ Len(Kept(life, LifeCap, m)) <= LifeCap
    BY <1>1, KeptTyped DEF ChannelTyped
  <2> QED
    BY <2>1 DEF TellLife, ChannelTyped
<1>3. Lost(life, LifeCap) \subseteq Instances
  <2>1. \A x \in LifeMessages : x.id \in Instances
    BY DEF LifeMessages
  <2> QED
    BY <1>1, <2>1, LostTyped DEF ChannelTyped
<1>4. torn' \subseteq Instances
  BY <1>1, <1>3 DEF TellLife, ChannelTyped
<1> QED
  BY <1>2, <1>4 DEF TellLife, ChannelTyped

LEMMA TellStateTyped ==
    ASSUME ChannelTyped, NEW m \in StateMessages, TellState(m)
    PROVE  ChannelTyped'
<1>1. StateCap \in Nat \ {0} /\ m.id \in Instances
  BY DEF StateMessages
<1>2. states' \in Seq(StateMessages) /\ Len(states') <= StateCap
  <2>1. Kept(states, StateCap, m) \in Seq(StateMessages) /\ Len(Kept(states, StateCap, m)) <= StateCap
    BY <1>1, KeptTyped DEF ChannelTyped
  <2> QED
    BY <2>1 DEF TellState, ChannelTyped
<1>3. Lost(states, StateCap) \subseteq Instances
  <2>1. \A x \in StateMessages : x.id \in Instances
    BY DEF StateMessages
  <2> QED
    BY <1>1, <2>1, LostTyped DEF ChannelTyped
<1>4. torn' \subseteq Instances
  BY <1>1, <1>3 DEF TellState, ChannelTyped
<1> QED
  BY <1>2, <1>4 DEF TellState, ChannelTyped

\* The list the manager gives out.
LEMMA ListTyped ==
    ASSUME listed \subseteq Instances, info \in [Instances -> Info]
    PROVE  List \in Lists
<1>1. List \in [listed -> Info]
  BY DEF List
<1> QED
  BY <1>1 DEF Lists

\* A message leaves the client with a list.
LEMMA UpdatedTyped ==
    ASSUME view \in Lists, NEW m \in Messages
    PROVE  Updated(m) \in Lists
<1> PICK D \in SUBSET Instances : view \in [D -> Info]
  BY DEF Lists
<1>0. DOMAIN view = D /\ \A i \in D : view[i] \in Info
  OBVIOUS
<1>1. CASE m \in [kind : {"list"}, list : Lists]
  <2>1. m.kind = "list" /\ m.list \in Lists
    BY <1>1
  <2> QED
    BY <2>1 DEF Updated
<1>2. CASE m \in LifeMessages \cup StateMessages
  <2>1. m.kind \in {"created", "stopped", "renamed", "state"} /\ m.id \in Instances /\ m.info \in Info
    BY <1>2 DEF LifeMessages, StateMessages
  <2>2. m.info.custom \in 0..MaxRenames /\ m.info.state \in 0..MaxStates
    BY <2>1 DEF Info
  <2>3. CASE m.kind = "created"
    <3>1. Updated(m) \in [D \cup {m.id} -> Info]
      BY <1>0, <2>1, <2>3 DEF Updated
    <3>2. D \cup {m.id} \in SUBSET Instances
      BY <2>1
    <3> QED
      BY <3>1, <3>2 DEF Lists
  <2>4. CASE m.kind = "stopped"
    <3>1. Updated(m) \in [D \ {m.id} -> Info]
      BY <1>0, <2>4 DEF Updated
    <3> QED
      BY <3>1 DEF Lists
  <2>5. CASE m.kind = "renamed"
    <3>1. \A i \in D : [view[i] EXCEPT !.custom = m.info.custom] \in Info
      BY <1>0, <2>2 DEF Info
    <3>2. Updated(m) \in [D -> Info]
      BY <1>0, <2>5, <3>1 DEF Updated
    <3> QED
      BY <3>2 DEF Lists
  <2>6. CASE m.kind = "state"
    <3>1. \A i \in D : [view[i] EXCEPT !.state = m.info.state] \in Info
      BY <1>0, <2>2 DEF Info
    <3>2. Updated(m) \in [D -> Info]
      BY <1>0, <2>6, <3>1 DEF Updated
    <3> QED
      BY <3>2 DEF Lists
  <2> QED
    BY <2>1, <2>3, <2>4, <2>5, <2>6
<1> QED
  BY <1>1, <1>2 DEF Messages

\* The initial state is well typed.
LEMMA ListTypeInit == ListInit => ListTypeOK
<1> SUFFICES ASSUME ListInit PROVE ListTypeOK
  OBVIOUS
<1>1. Fresh \in Info
  BY DEF Fresh, Info
<1>2. <<>> \in Lists
  <2>1. <<>> \in [{} -> Info]
    OBVIOUS
  <2> QED
    BY <2>1 DEF Lists
<1>3. ManagerTyped
  BY DEF ListInit, ManagerTyped
<1>4. ActorTyped
  BY <1>1 DEF ListInit, ActorTyped
<1>5. ChannelTyped
  BY DEF ListInit, ChannelTyped
<1>6. ClientTyped
  BY <1>2 DEF ListInit, ClientTyped
<1> QED
  BY <1>3, <1>4, <1>5, <1>6, ListParts

\* What the request that creates an instance does keeps the types.
LEMMA TypeCreate ==
    ASSUME ListTypeOK, NEW i \in Instances,
           Provide(i) \/ Generate(i) \/ Spawn(i) \/ SpawnFails(i) \/ Store(i) \/ Find(i) \/ Announce(i)
    PROVE  ListTypeOK'
<1> USE ListParts
<1>1. ASSUME NEW n \in Names, Reserve(i, n)
      PROVE  ListTypeOK'
  <2>1. ManagerTyped'
    BY <1>1 DEF Reserve, ManagerTyped
  <2>2. UNCHANGED <<actorVars, channelVars, torn, link, wire, view, fetchVars>>
    BY <1>1 DEF Reserve
  <2> QED
    BY <2>1, <2>2 DEF ActorTyped, ChannelTyped, ClientTyped, actorVars, channelVars, fetchVars
<1>2. CASE Spawn(i) \/ SpawnFails(i) \/ Store(i) \/ Find(i)
  <2>1. ManagerTyped'
    BY <1>2 DEF Spawn, SpawnFails, Store, Find, ManagerTyped
  <2>2. UNCHANGED <<actorVars, channelVars, torn, link, wire, view, fetchVars>>
    BY <1>2 DEF Spawn, SpawnFails, Store, Find
  <2> QED
    BY <2>1, <2>2 DEF ActorTyped, ChannelTyped, ClientTyped, actorVars, channelVars, fetchVars
<1>3. CASE Announce(i)
  <2>1. ManagerTyped'
    BY <1>3 DEF Announce, Registered, ManagerTyped
  <2>2. [kind |-> "created", id |-> i, info |-> Fresh] \in LifeMessages
    BY DEF Fresh, Info, LifeMessages
  <2>3. ChannelTyped'
    BY <1>3, <2>2, TellLifeTyped DEF Announce
  <2>4. UNCHANGED <<actorVars, link, wire, view, fetchVars>>
    BY <1>3 DEF Announce
  <2> QED
    BY <2>1, <2>3, <2>4 DEF ActorTyped, ClientTyped, actorVars, fetchVars
<1> QED
  BY <1>1, <1>2, <1>3 DEF Provide, Generate

\* What deletes, renames or changes an instance keeps the types.
LEMMA TypeChange ==
    ASSUME ListTypeOK, NEW i \in Instances,
           Unregister(i) \/ StopInstance(i) \/ Delete(i) \/ SetName(i) \/ Renamed(i) \/ ChangeState(i)
    PROVE  ListTypeOK'
<1> USE ListParts
<1>0. info[i] \in Info
  BY DEF ActorTyped
<1>1. CASE Unregister(i)
  <2>1. ManagerTyped'
    BY <1>1 DEF Unregister, ManagerTyped
  <2>2. torn' \subseteq Instances
    BY <1>1 DEF Unregister, ChannelTyped, Overlap
  <2>3. UNCHANGED <<actorVars, channelVars, link, wire, view, fetchVars>>
    BY <1>1 DEF Unregister
  <2> QED
    BY <2>1, <2>2, <2>3 DEF ActorTyped, ChannelTyped, ClientTyped, actorVars, channelVars, fetchVars
<1>2. CASE StopInstance(i)
  <2>1. ManagerTyped'
    BY <1>2 DEF StopInstance, ManagerTyped
  <2>2. UNCHANGED <<actorVars, channelVars, torn, link, wire, view, fetchVars>>
    BY <1>2 DEF StopInstance
  <2> QED
    BY <2>1, <2>2 DEF ActorTyped, ChannelTyped, ClientTyped, actorVars, channelVars, fetchVars
<1>3. CASE Delete(i)
  <2>1. ManagerTyped'
    BY <1>3 DEF Delete, ManagerTyped
  <2>2. News("stopped", i) \in LifeMessages
    BY <1>0 DEF News, LifeMessages
  <2>3. ChannelTyped'
    BY <1>3, <2>2, TellLifeTyped DEF Delete, Stopped
  <2>4. UNCHANGED <<actorVars, link, wire, view, fetchVars>>
    BY <1>3 DEF Delete
  <2> QED
    BY <2>1, <2>3, <2>4 DEF ActorTyped, ClientTyped, actorVars, fetchVars
<1>4. CASE SetName(i)
  <2>1. info[i].custom \in 0..MaxRenames /\ info[i].custom < MaxRenames
    BY <1>0, <1>4 DEF SetName, Info
  <2>2. info[i].custom + 1 \in 1..MaxRenames
    BY <2>1
  <2>3. [info[i] EXCEPT !.custom = @ + 1] \in Info
    BY <1>0, <2>2 DEF Info
  <2>4. info' \in [Instances -> Info]
    BY <1>4, <2>3 DEF SetName, ActorTyped
  <2>5. renaming' \in [Instances -> SUBSET (1..MaxRenames)]
    BY <1>4, <2>2 DEF SetName, ActorTyped
  <2>6. torn' \subseteq Instances
    BY <1>4 DEF SetName, ChannelTyped, Overlap
  <2>7. UNCHANGED <<managerVars, channelVars, link, wire, view, fetchVars>>
    BY <1>4 DEF SetName
  <2> QED
    BY <2>4, <2>5, <2>6, <2>7 DEF ManagerTyped, ActorTyped, ChannelTyped, ClientTyped, managerVars, channelVars, fetchVars
<1>5. CASE Renamed(i)
  <2> PICK c \in renaming[i] :
        /\ renaming' = [renaming EXCEPT ![i] = @ \ {c}]
        /\ TellLife([kind |-> "renamed", id |-> i, info |-> [Fresh EXCEPT !.custom = c]])
        /\ UNCHANGED <<managerVars, info, link, fetchVars, wire, view>>
    BY <1>5 DEF Renamed
  <2>1. c \in 0..MaxRenames
    BY DEF ActorTyped
  <2>2. [Fresh EXCEPT !.custom = c] \in Info
    BY <2>1 DEF Fresh, Info
  <2>3. [kind |-> "renamed", id |-> i, info |-> [Fresh EXCEPT !.custom = c]] \in LifeMessages
    BY <2>2 DEF LifeMessages
  <2>4. ChannelTyped'
    BY <2>3, TellLifeTyped
  <2>5. ActorTyped'
    BY DEF ActorTyped
  <2> QED
    BY <2>4, <2>5 DEF ManagerTyped, ClientTyped, managerVars, fetchVars
<1>6. CASE ChangeState(i)
  <2>1. info[i].state \in 0..MaxStates /\ info[i].state < MaxStates
    BY <1>0, <1>6 DEF ChangeState, Info
  <2>2. info[i].state + 1 \in 0..MaxStates
    BY <2>1
  <2>3. [info[i] EXCEPT !.state = @ + 1] \in Info
    BY <1>0, <2>2 DEF Info
  <2>4. info' \in [Instances -> Info]
    BY <1>6, <2>3 DEF ChangeState, ActorTyped
  <2>5. [Fresh EXCEPT !.state = info[i].state + 1] \in Info
    BY <2>2 DEF Fresh, Info
  <2>6. [kind |-> "state", id |-> i, info |-> [Fresh EXCEPT !.state = info[i].state + 1]] \in StateMessages
    BY <2>5 DEF StateMessages
  <2>7. ChannelTyped'
    BY <1>6, <2>6, TellStateTyped DEF ChangeState
  <2>8. UNCHANGED <<managerVars, renaming, link, wire, view, fetchVars>>
    BY <1>6 DEF ChangeState
  <2> QED
    BY <2>4, <2>7, <2>8 DEF ManagerTyped, ActorTyped, ClientTyped, managerVars, fetchVars
<1> QED
  BY <1>1, <1>2, <1>3, <1>4, <1>5, <1>6

\* What the connection does keeps the types.
LEMMA TypeConnection ==
    ASSUME ListTypeOK, Connect \/ SubscribeStates \/ SubscribeLife \/ ForwardLife \/ ForwardState \/ Disconnect
    PROVE  ListTypeOK'
<1> USE ListParts
<1>1. CASE Connect
  <2>1. List \in Lists
    BY ListTyped DEF ManagerTyped, ActorTyped
  <2>2. [kind |-> "list", list |-> List] \in Messages
    BY <2>1 DEF Messages
  <2>3. wire' \in Seq(Messages) /\ Len(wire') <= WireCap
    BY <1>1, <2>2 DEF Connect
  <2>4. torn' \subseteq Instances
    BY <1>1 DEF Connect
  <2>5. link' = "listed" /\ UNCHANGED <<managerVars, actorVars, channelVars, fetchVars, view>>
    BY <1>1 DEF Connect
  <2> QED
    BY <2>3, <2>4, <2>5 DEF ManagerTyped, ActorTyped, ChannelTyped, ClientTyped, managerVars, actorVars, channelVars, fetchVars
<1>2. CASE SubscribeStates \/ SubscribeLife
  <2>1. link' \in {"half", "on"} /\ UNCHANGED <<managerVars, actorVars, channelVars, fetchVars, wire, view, torn>>
    BY <1>2 DEF SubscribeStates, SubscribeLife
  <2> QED
    BY <2>1 DEF ManagerTyped, ActorTyped, ChannelTyped, ClientTyped, managerVars, actorVars, channelVars, fetchVars
<1>3. ASSUME NEW S \in SUBSET Messages, NEW q \in Seq(S), q # <<>>, Room, wire' = Append(wire, Head(q))
      PROVE  wire' \in Seq(Messages) /\ Len(wire') <= WireCap
  <2>1. Head(q) \in Messages
    BY <1>3
  <2>2. wire \in Seq(Messages) /\ Len(wire) < WireCap
    BY <1>3 DEF Room, ClientTyped
  <2>3. Append(wire, Head(q)) \in Seq(Messages) /\ Len(Append(wire, Head(q))) = Len(wire) + 1
    BY <2>1, <2>2
  <2> QED
    BY <1>3, <2>2, <2>3
<1>4. CASE ForwardLife
  <2>1. life \in Seq(LifeMessages) /\ Len(life) <= LifeCap /\ life # <<>>
    BY <1>4 DEF ForwardLife, ChannelTyped
  <2>2. LifeMessages \subseteq Messages
    BY DEF Messages
  <2>3. wire' \in Seq(Messages) /\ Len(wire') <= WireCap
    BY <1>3, <1>4, <2>1, <2>2 DEF ForwardLife
  <2>4. life' \in Seq(LifeMessages) /\ Len(life') <= LifeCap
    BY <1>4, <2>1 DEF ForwardLife
  <2>5. UNCHANGED <<managerVars, actorVars, states, fetchVars, link, view, torn>>
    BY <1>4 DEF ForwardLife
  <2> QED
    BY <2>3, <2>4, <2>5 DEF ManagerTyped, ActorTyped, ChannelTyped, ClientTyped, managerVars, actorVars, fetchVars
<1>5. CASE ForwardState
  <2>1. states \in Seq(StateMessages) /\ Len(states) <= StateCap /\ states # <<>>
    BY <1>5 DEF ForwardState, ChannelTyped
  <2>2. StateMessages \subseteq Messages
    BY DEF Messages
  <2>3. wire' \in Seq(Messages) /\ Len(wire') <= WireCap
    BY <1>3, <1>5, <2>1, <2>2 DEF ForwardState
  <2>4. states' \in Seq(StateMessages) /\ Len(states') <= StateCap
    BY <1>5, <2>1 DEF ForwardState
  <2>5. UNCHANGED <<managerVars, actorVars, life, fetchVars, link, view, torn>>
    BY <1>5 DEF ForwardState
  <2> QED
    BY <2>3, <2>4, <2>5 DEF ManagerTyped, ActorTyped, ChannelTyped, ClientTyped, managerVars, actorVars, fetchVars
<1>6. CASE Disconnect
  <2>1. link' = "off" /\ wire' = <<>> /\ life' = <<>> /\ states' = <<>>
        /\ UNCHANGED <<managerVars, actorVars, fetchVars, view, torn>>
    BY <1>6 DEF Disconnect
  <2> QED
    BY <2>1 DEF ManagerTyped, ActorTyped, ChannelTyped, ClientTyped, managerVars, actorVars, fetchVars
<1> QED
  BY <1>1, <1>2, <1>4, <1>5, <1>6

\* What the client does keeps the types.
LEMMA TypeClient ==
    ASSUME ListTypeOK, Deliver \/ Fetch \/ Fetched
    PROVE  ListTypeOK'
<1> USE ListParts
<1>1. CASE Deliver
  <2>1. wire \in Seq(Messages) /\ wire # <<>> /\ Len(wire) <= WireCap
    BY <1>1 DEF Deliver, ClientTyped
  <2>2. Head(wire) \in Messages /\ wire' \in Seq(Messages) /\ Len(wire') <= WireCap
    BY <1>1, <2>1 DEF Deliver
  <2>3. view' \in Lists
    BY <1>1, <2>2, UpdatedTyped DEF Deliver, ClientTyped
  <2>4. About(Head(wire)) \subseteq Instances
    BY <2>2 DEF About, Messages, LifeMessages, StateMessages
  <2>5. since' \subseteq Instances
    BY <1>1, <2>4 DEF Deliver, ClientTyped
  <2>6. UNCHANGED <<managerVars, actorVars, channelVars, link, response, torn>>
    BY <1>1 DEF Deliver
  <2> QED
    BY <2>2, <2>3, <2>5, <2>6 DEF ManagerTyped, ActorTyped, ChannelTyped, ClientTyped, managerVars, actorVars, channelVars
<1>2. CASE Fetch
  <2>1. List \in Lists
    BY ListTyped DEF ManagerTyped, ActorTyped
  <2>2. response' \in Seq(Lists) /\ Len(response') <= 1
    BY <1>2, <2>1 DEF Fetch
  <2>3. UNCHANGED <<managerVars, actorVars, channelVars, link, since, wire, view, torn>>
    BY <1>2 DEF Fetch
  <2> QED
    BY <2>2, <2>3 DEF ManagerTyped, ActorTyped, ChannelTyped, ClientTyped, managerVars, actorVars, channelVars
<1>3. CASE Fetched
  <2>1. view' \in Lists
    BY <1>3 DEF Fetched, ClientTyped
  <2>2. response' = <<>> /\ since' = {} /\ torn' \subseteq Instances
    BY <1>3 DEF Fetched, ClientTyped, ChannelTyped
  <2>3. UNCHANGED <<managerVars, actorVars, channelVars, link, wire>>
    BY <1>3 DEF Fetched
  <2> QED
    BY <2>1, <2>2, <2>3 DEF ManagerTyped, ActorTyped, ChannelTyped, ClientTyped, managerVars, actorVars, channelVars
<1> QED
  BY <1>1, <1>2, <1>3

\* However many instances are created, renamed and deleted and however often the
\* client reconnects, its queues keep their capacities and its list names only
\* instances.
THEOREM ListTypeCorrect == ListSpec => []ListTypeOK
<1>1. ListTypeOK /\ [ListNext]_listVars => ListTypeOK'
  <2> SUFFICES ASSUME ListTypeOK, [ListNext]_listVars PROVE ListTypeOK'
    OBVIOUS
  <2>1. CASE ListNext
    BY <2>1, TypeCreate, TypeChange, TypeConnection, TypeClient DEF ListNext
  <2>2. CASE UNCHANGED listVars
    BY <2>2 DEF ListTypeOK, listVars, managerVars, actorVars, channelVars, fetchVars
  <2> QED
    BY <2>1, <2>2
<1> QED
  BY ListTypeInit, <1>1, PTL DEF ListSpec

-----------------------------------------------------------------------------
(* Where the requests about an instance can be, and what they have done.       *)

\* An instance is held only after its creation stored it, only an instance that
\* was stored is deleted, and one that is not being deleted is tracked once its
\* creation is over.  A name is given when the creation begins.
LifeInv ==
    \A i \in Instances :
        /\ i \in listed => phase[i] \in {"stored", "found", "done"}
        /\ deleting[i] # "none" => phase[i] \in {"stored", "found", "done"}
        /\ deleting[i] = "stopped" => i \notin listed
        /\ i \in listed /\ phase[i] = "done" /\ deleting[i] = "none" => i \in tracked
        /\ phase[i] = "none" <=> name[i] = NoName

\* The steps of the requests that touch none of this.
LEMMA OthersKeepLife ==
    ASSUME [ListNext]_listVars,
           ~\E i \in Instances :
               \/ Provide(i) \/ Generate(i) \/ Spawn(i) \/ SpawnFails(i) \/ Store(i) \/ Find(i) \/ Announce(i)
               \/ Unregister(i) \/ StopInstance(i) \/ Delete(i)
    PROVE  UNCHANGED managerVars
<1>1. CASE \E i \in Instances : SetName(i) \/ Renamed(i) \/ ChangeState(i)
  BY <1>1 DEF SetName, Renamed, ChangeState
<1>2. CASE Connect \/ SubscribeStates \/ SubscribeLife \/ ForwardLife \/ ForwardState \/ Disconnect
  BY <1>2 DEF Connect, SubscribeStates, SubscribeLife, ForwardLife, ForwardState, Disconnect
<1>3. CASE Deliver \/ Fetch \/ Fetched
  BY <1>3 DEF Deliver, Fetch, Fetched
<1>4. CASE UNCHANGED listVars
  BY <1>4 DEF listVars
<1> QED
  BY <1>1, <1>2, <1>3, <1>4 DEF ListNext

LEMMA LifeCreate ==
    ASSUME ManagerTyped, LifeInv, NEW i \in Instances,
           Provide(i) \/ Generate(i) \/ Spawn(i) \/ SpawnFails(i) \/ Store(i) \/ Find(i) \/ Announce(i)
    PROVE  LifeInv'
<1>1. ASSUME NEW n \in Names, Reserve(i, n)
      PROVE  LifeInv'
  <2>1. n # NoName
    BY NameAssumption
  <2> QED
    BY <1>1, <2>1 DEF Reserve, LifeInv, ManagerTyped
<1>2. CASE Spawn(i) \/ SpawnFails(i)
  BY <1>2 DEF Spawn, SpawnFails, LifeInv, ManagerTyped
<1>3. CASE Store(i)
  BY <1>3 DEF Store, LifeInv, ManagerTyped
<1>4. CASE Find(i)
  BY <1>4 DEF Find, LifeInv, ManagerTyped
<1>5. CASE Announce(i)
  BY <1>5 DEF Announce, Registered, LifeInv, ManagerTyped
<1> QED
  BY <1>1, <1>2, <1>3, <1>4, <1>5 DEF Provide, Generate

LEMMA LifeDelete ==
    ASSUME ManagerTyped, LifeInv, NEW i \in Instances, Unregister(i) \/ StopInstance(i) \/ Delete(i)
    PROVE  LifeInv'
<1>1. CASE Unregister(i)
  BY <1>1 DEF Unregister, LifeInv, ManagerTyped
<1>2. CASE StopInstance(i)
  BY <1>2 DEF StopInstance, LifeInv, ManagerTyped
<1>3. CASE Delete(i)
  BY <1>3 DEF Delete, LifeInv, ManagerTyped
<1> QED
  BY <1>1, <1>2, <1>3

\* The invariant behind the two theorems below.
LEMMA LifeCorrect == ListSpec => []LifeInv
<1>1. ListInit => LifeInv
  BY DEF ListInit, LifeInv
<1>2. ListTypeOK /\ LifeInv /\ [ListNext]_listVars => LifeInv'
  <2> SUFFICES ASSUME ListTypeOK, LifeInv, [ListNext]_listVars PROVE LifeInv'
    OBVIOUS
  <2>1. ManagerTyped
    BY ListParts
  <2>2. CASE UNCHANGED managerVars
    BY <2>2 DEF managerVars, LifeInv
  <2> QED
    BY <2>1, <2>2, OthersKeepLife, LifeCreate, LifeDelete
<1> QED
  BY <1>1, <1>2, ListTypeCorrect, PTL DEF ListSpec

\* An instance that is listed, with no request at work on it, is tracked, so that
\* a client can focus it: create_instance and delete_instance may overlap in any
\* order, for any number of instances.
THEOREM ListedCorrect == ListSpec => []ListedIsTracked
<1>1. ListTypeOK /\ LifeInv => ListedIsTracked
  <2> SUFFICES ASSUME ListTypeOK, LifeInv, NEW i \in listed, ~Busy(i) PROVE i \in tracked
    BY DEF ListedIsTracked
  <2>1. i \in Instances /\ deleting[i] = "none"
    BY DEF ListTypeOK, Busy
  <2>2. phase[i] \in {"stored", "found", "done"} /\ phase[i] \notin {"stored", "found"}
    BY <2>1 DEF LifeInv, Busy, Creating
  <2> QED
    BY <2>1, <2>2 DEF LifeInv
<1> QED
  BY <1>1, ListTypeCorrect, LifeCorrect, PTL

\* The premise under which the name of an instance is reserved.
Alone(i) == \A j \in Instances \ {i} : name[j] # name[i]
Named(i) == Running(i) \/ phase[i] = "reserved"

\* A name that no other instance bears stays in used_names as long as its
\* instance runs: InstanceManager::create checks a generated name and inserts it
\* under one lock, and stop removes no name but its own.
THEOREM NamesCorrect == ListSpec => []NamesReserved
<1>1. ListInit => NamesReserved
  BY DEF ListInit, NamesReserved, Running
<1>2. ListTypeOK /\ LifeInv /\ NamesReserved /\ [ListNext]_listVars => NamesReserved'
  <2> SUFFICES ASSUME ListTypeOK, LifeInv, NamesReserved, [ListNext]_listVars PROVE NamesReserved'
    OBVIOUS
  <2>0. ManagerTyped
    BY ListParts
  <2>1. ASSUME NEW i \in Instances, NEW n \in Names, Reserve(i, n)
        PROVE  NamesReserved'
    <3> SUFFICES ASSUME NEW j \in Instances, Named(j)', Alone(j)' PROVE (name[j] \in used)'
      BY DEF NamesReserved, Named, Alone
    <3>1. name' = [name EXCEPT ![i] = n] /\ used' = used \cup {n} /\ listed' = listed
      BY <2>1 DEF Reserve
    <3>2. CASE j = i
      BY <2>0, <3>1, <3>2 DEF ManagerTyped
    <3>3. CASE j # i
      <4>1. phase'[j] = phase[j] /\ name'[j] = name[j]
        BY <2>0, <2>1, <3>1, <3>3 DEF Reserve, ManagerTyped
      <4>2. Named(j)
        BY <3>1, <4>1 DEF Named, Running
      <4>3. phase[j] # "none"
        BY <4>2 DEF Named, Running, LifeInv
      <4>4. name[j] # NoName /\ name[i] = NoName
        BY <2>1, <4>3 DEF LifeInv, Reserve
      <4>5. \A k \in Instances \ {j} : k # i => name'[k] = name[k]
        BY <2>0, <3>1 DEF ManagerTyped
      <4>6. Alone(j)
        BY <4>1, <4>4, <4>5 DEF Alone
      <4> QED
        BY <3>1, <4>1, <4>2, <4>6 DEF NamesReserved, Named, Alone
    <3> QED
      BY <3>2, <3>3
  <2>2. ASSUME NEW i \in Instances, Spawn(i) \/ SpawnFails(i) \/ Store(i) \/ Find(i) \/ Announce(i) \/ Unregister(i) \/ Delete(i)
        PROVE  NamesReserved'
    <3>1. UNCHANGED <<name, used>>
      BY <2>2 DEF Spawn, SpawnFails, Store, Find, Announce, Unregister, Delete
    <3>2. \A j \in Instances : Named(j)' => Named(j)
      BY <2>0, <2>2 DEF Spawn, SpawnFails, Store, Find, Announce, Unregister, Delete, Named, Running, ManagerTyped
    <3> QED
      BY <3>1, <3>2 DEF NamesReserved, Named
  <2>3. ASSUME NEW i \in Instances, StopInstance(i)
        PROVE  NamesReserved'
    <3> SUFFICES ASSUME NEW j \in Instances, Named(j)', Alone(j)' PROVE (name[j] \in used)'
      BY DEF NamesReserved, Named, Alone
    <3>1. UNCHANGED <<name, phase>> /\ listed' = listed \ {i} /\ used \ {name[i]} \subseteq used'
      BY <2>3 DEF StopInstance
    <3>2. Named(j) /\ Alone(j)
      BY <3>1 DEF Named, Running, Alone
    <3>3. j # i
      <4>1. phase[i] \in {"stored", "found", "done"}
        BY <2>3 DEF StopInstance, LifeInv
      <4>2. ~Named(i)'
        BY <3>1, <4>1 DEF Named, Running
      <4> QED
        BY <4>2
    <3>4. name[j] \in used /\ name[j] # name[i]
      BY <3>2, <3>3 DEF NamesReserved, Named, Alone
    <3> QED
      BY <3>1, <3>4
  <2>4. CASE UNCHANGED managerVars
    BY <2>4 DEF managerVars, NamesReserved, Running
  <2> QED
    BY <2>1, <2>2, <2>3, <2>4, OthersKeepLife DEF Provide, Generate
<1> QED
  BY <1>1, <1>2, ListTypeCorrect, LifeCorrect, PTL DEF ListSpec

-----------------------------------------------------------------------------
(* What is on its way to the client about an instance, one thing at a time:    *)
(* whether it is there, its custom name, its state.                            *)

Sayers(f) ==
    CASE f = "presence" -> {"created", "stopped"}
      [] f = "custom" -> {"created", "renamed"}
      [] OTHER -> {"state"}

\* The message says f of i, or is a whole list.
SaysOf(m, i, f) == m.kind = "list" \/ (m.id = i /\ m.kind \in Sayers(f))

\* In the list b, f of i is v, if i is in it at all.
Fits(b, i, f, v) ==
    CASE f = "presence" -> v = IF i \in DOMAIN b THEN "there" ELSE "gone"
      [] f = "custom" -> i \in DOMAIN b => b[i].custom = v
      [] OTHER -> i \in DOMAIN b => b[i].state = v

\* The message says v.
Agrees(m, i, f, v) ==
    IF m.kind = "list" THEN Fits(m.list, i, f, v)
    ELSE CASE f = "presence" -> v = IF m.kind = "created" THEN "there" ELSE "gone"
           [] f = "custom" -> m.info.custom = v
           [] OTHER -> m.info.state = v

SilentOn(q, i, f) == \A k \in DOMAIN q : ~SaysOf(q[k], i, f)
LastOn(q, i, f, v) ==
    \E k \in DOMAIN q : SaysOf(q[k], i, f) /\ Agrees(q[k], i, f, v) /\ \A l \in (k + 1)..Len(q) : ~SaysOf(q[l], i, f)

\* What a client with the list b makes of what is on the wire w and then in the
\* channel q.
WordOn(q, w, b, i, f, v) ==
    \/ LastOn(q, i, f, v)
    \/ SilentOn(q, i, f) /\ (LastOn(w, i, f, v) \/ (SilentOn(w, i, f) /\ Fits(b, i, f, v)))

\* A message of the kind about i is in the queue.
Carries(q, kind, i) == \E k \in DOMAIN q : q[k].kind = kind /\ q[k].id = i

\* Whether the manager holds it.
Presence(i) == IF i \in listed THEN "there" ELSE "gone"

\* InstanceCreated has been broadcast and has not arrived.
Coming(i) == Carries(life, "created", i) \/ Carries(wire, "created", i)

\* Of an instance that no request has in hand, the client will learn what the
\* server has: starting from the list b.
Learns(i, b) ==
    /\ phase[i] \notin {"stored", "found"} /\ deleting[i] # "stopped" => WordOn(life, wire, b, i, "presence", Presence(i))
    /\ renaming[i] = {} => WordOn(life, wire, b, i, "custom", info[i].custom)
    /\ ~Coming(i) => WordOn(states, wire, b, i, "state", info[i].state)

\* No state of it is on its way.
Stateless(i) == ~Carries(states, "state", i) /\ ~Carries(wire, "state", i)

\* Before its process starts nothing is known of an instance, and it is not
\* renamed before it is stored.
FreshInv ==
    \A i \in Instances :
        /\ phase[i] \in {"none", "reserved", "failed"} => info[i] = Fresh
        /\ renaming[i] # {} => phase[i] \in {"stored", "found", "done"}

\* The requests about an instance that is not torn do not overlap.
Ordered(i) ==
    /\ phase[i] \in {"stored", "found"} => i \in listed /\ deleting[i] = "none"
    /\ phase[i] # "done" => info[i] = Fresh /\ renaming[i] = {} /\ Stateless(i)
    /\ renaming[i] \subseteq {info[i].custom}
    /\ Coming(i) => info[i].state = 0 /\ Stateless(i)

HasList(w) == \E k \in DOMAIN w : w[k].kind = "list"

\* The client will learn what the server has, from its list and, unless the wire
\* brings another, from the one it is fetching.
Learnt(i) ==
    link # "off" =>
        /\ Learns(i, view)
        /\ ~HasList(wire) /\ i \notin since => \A k \in DOMAIN response : Learns(i, response[k])

LearnInv == \A i \in Instances \ torn : Ordered(i) /\ Learnt(i)

\* What is in the queues: a list comes first, and a creation says nothing yet.
NewsInv ==
    /\ \A k \in DOMAIN wire : wire[k].kind = "list" => k = 1
    /\ \A k \in DOMAIN wire : wire[k].kind = "created" => wire[k].info = Fresh
    /\ \A k \in DOMAIN life : life[k].kind = "created" => life[k].info = Fresh
    /\ link # "on" => life = <<>>
    /\ link \in {"off", "listed"} => states = <<>>
    /\ link = "off" => wire = <<>>

\* What a queue says as messages join and leave it.
LEMMA AppendOn ==
    ASSUME NEW S, NEW q \in Seq(S), NEW m \in S, NEW i, NEW f, NEW v
    PROVE  /\ SaysOf(m, i, f) /\ Agrees(m, i, f, v) => LastOn(Append(q, m), i, f, v)
           /\ ~SaysOf(m, i, f) => /\ SilentOn(q, i, f) => SilentOn(Append(q, m), i, f)
                                  /\ LastOn(q, i, f, v) => LastOn(Append(q, m), i, f, v)
<1> DEFINE r == Append(q, m)
<1>1. Len(r) = Len(q) + 1 /\ r[Len(r)] = m /\ Len(r) \in DOMAIN r /\ DOMAIN r = 1..Len(r) /\ Len(q) \in Nat /\ Len(r) \in Nat
      /\ DOMAIN q = 1..Len(q) /\ \A k \in 1..Len(q) : r[k] = q[k]
  OBVIOUS
<1> HIDE DEF r
<1>2. SaysOf(m, i, f) /\ Agrees(m, i, f, v) => LastOn(r, i, f, v)
  BY <1>1 DEF LastOn
<1>3. ASSUME ~SaysOf(m, i, f), SilentOn(q, i, f)
      PROVE  SilentOn(r, i, f)
  <2>1. \A k \in 1..Len(r) : k = Len(r) \/ k \in 1..Len(q)
    BY <1>1
  <2> QED BY <1>1, <1>3, <2>1 DEF SilentOn
<1>4. ASSUME ~SaysOf(m, i, f), LastOn(q, i, f, v)
      PROVE  LastOn(r, i, f, v)
  <2>1. PICK k \in 1..Len(q) : SaysOf(q[k], i, f) /\ Agrees(q[k], i, f, v) /\ \A l \in (k + 1)..Len(q) : ~SaysOf(q[l], i, f)
    BY <1>1, <1>4 DEF LastOn
  <2>2. \A l \in (k + 1)..Len(r) : l = Len(r) \/ (l \in (k + 1)..Len(q) /\ l \in 1..Len(q))
    BY <1>1
  <2>3. \A l \in (k + 1)..Len(r) : ~SaysOf(r[l], i, f)
    BY <1>1, <1>4, <2>1, <2>2
  <2>4. k \in DOMAIN r /\ r[k] = q[k]
    BY <1>1
  <2> QED BY <2>1, <2>3, <2>4 DEF LastOn
<1> QED BY <1>2, <1>3, <1>4 DEF r

LEMMA TailOn ==
    ASSUME NEW S, NEW q \in Seq(S), q # <<>>, NEW i, NEW f, NEW v
    PROVE  /\ SilentOn(q, i, f) => ~SaysOf(Head(q), i, f) /\ SilentOn(Tail(q), i, f)
           /\ LastOn(q, i, f, v) => \/ LastOn(Tail(q), i, f, v)
                                    \/ SaysOf(Head(q), i, f) /\ Agrees(Head(q), i, f, v) /\ SilentOn(Tail(q), i, f)
<1> DEFINE r == Tail(q)
<1>1. Len(q) \in Nat /\ Len(q) >= 1 /\ Len(r) = Len(q) - 1 /\ DOMAIN q = 1..Len(q) /\ DOMAIN r = 1..Len(r) /\ Head(q) = q[1]
      /\ \A k \in 1..Len(r) : r[k] = q[k + 1]
  OBVIOUS
<1> HIDE DEF r
<1>2. ASSUME SilentOn(q, i, f)
      PROVE  ~SaysOf(Head(q), i, f) /\ SilentOn(r, i, f)
  <2>1. 1 \in 1..Len(q) /\ \A k \in 1..Len(r) : k + 1 \in 1..Len(q)
    BY <1>1
  <2> QED BY <1>1, <1>2, <2>1 DEF SilentOn
<1>3. ASSUME LastOn(q, i, f, v)
      PROVE  \/ LastOn(r, i, f, v)
             \/ SaysOf(Head(q), i, f) /\ Agrees(Head(q), i, f, v) /\ SilentOn(r, i, f)
  <2>1. PICK k \in 1..Len(q) : SaysOf(q[k], i, f) /\ Agrees(q[k], i, f, v) /\ \A l \in (k + 1)..Len(q) : ~SaysOf(q[l], i, f)
    BY <1>1, <1>3 DEF LastOn
  <2>2. CASE k = 1
    <3>1. \A l \in 1..Len(r) : l + 1 \in (k + 1)..Len(q)
      BY <1>1, <2>2
    <3> QED BY <1>1, <2>1, <2>2, <3>1 DEF SilentOn
  <2>3. CASE k # 1
    <3>1. k - 1 \in 1..Len(r) /\ r[k - 1] = q[k]
      BY <1>1, <2>3
    <3>2. \A l \in (k - 1 + 1)..Len(r) : l \in 1..Len(r) /\ l + 1 \in (k + 1)..Len(q)
      BY <1>1, <2>3
    <3>3. \A l \in (k - 1 + 1)..Len(r) : ~SaysOf(r[l], i, f)
      BY <1>1, <2>1, <3>2
    <3> QED BY <1>1, <2>1, <3>1, <3>3 DEF LastOn
  <2> QED BY <2>2, <2>3
<1> QED BY <1>2, <1>3 DEF r

LEMMA CarriesOn ==
    ASSUME NEW S, NEW q \in Seq(S), NEW m \in S, NEW kind, NEW i
    PROVE  /\ Carries(Append(q, m), kind, i) <=> Carries(q, kind, i) \/ (m.kind = kind /\ m.id = i)
           /\ q # <<>> => (Carries(q, kind, i) <=> Carries(Tail(q), kind, i) \/ (Head(q).kind = kind /\ Head(q).id = i))
<1>1. Carries(Append(q, m), kind, i) <=> Carries(q, kind, i) \/ (m.kind = kind /\ m.id = i)
  <2> DEFINE r == Append(q, m)
  <2>1. Len(r) = Len(q) + 1 /\ r[Len(r)] = m /\ DOMAIN r = 1..Len(r) /\ Len(q) \in Nat /\ DOMAIN q = 1..Len(q)
        /\ \A k \in 1..Len(q) : r[k] = q[k]
    OBVIOUS
  <2> HIDE DEF r
  <2>2. \A k \in 1..Len(r) : k = Len(r) \/ k \in 1..Len(q)
    BY <2>1
  <2>3. Len(r) \in 1..Len(r) /\ \A k \in 1..Len(q) : k \in 1..Len(r)
    BY <2>1
  <2>4. Carries(r, kind, i) <=> Carries(q, kind, i) \/ (m.kind = kind /\ m.id = i)
    BY <2>1, <2>2, <2>3 DEF Carries
  <2> QED BY <2>4 DEF r
<1>2. ASSUME q # <<>>
      PROVE  Carries(q, kind, i) <=> Carries(Tail(q), kind, i) \/ (Head(q).kind = kind /\ Head(q).id = i)
  <2> DEFINE r == Tail(q)
  <2>1. Len(q) \in Nat /\ Len(q) >= 1 /\ Len(r) = Len(q) - 1 /\ DOMAIN q = 1..Len(q) /\ DOMAIN r = 1..Len(r) /\ Head(q) = q[1]
        /\ \A k \in 1..Len(r) : r[k] = q[k + 1]
    BY <1>2
  <2> HIDE DEF r
  <2>2. 1 \in 1..Len(q) /\ \A k \in 1..Len(r) : k + 1 \in 1..Len(q)
    BY <2>1
  <2>3. \A k \in 1..Len(q) : k = 1 \/ (k - 1 \in 1..Len(r) /\ q[k] = r[k - 1])
    BY <2>1
  <2>4. ASSUME Carries(q, kind, i)
        PROVE  Carries(r, kind, i) \/ (Head(q).kind = kind /\ Head(q).id = i)
    <3>1. PICK k \in 1..Len(q) : q[k].kind = kind /\ q[k].id = i
      BY <2>1, <2>4 DEF Carries
    <3>2. CASE k = 1
      BY <2>1, <3>1, <3>2
    <3>3. CASE k # 1
      <4>1. k - 1 \in DOMAIN r /\ r[k - 1].kind = kind /\ r[k - 1].id = i
        BY <2>1, <2>3, <3>1, <3>3
      <4> QED BY <4>1 DEF Carries
    <3> QED BY <3>2, <3>3
  <2>5. ASSUME Carries(r, kind, i) \/ (Head(q).kind = kind /\ Head(q).id = i)
        PROVE  Carries(q, kind, i)
    <3>1. CASE Carries(r, kind, i)
      <4>1. PICK k \in 1..Len(r) : r[k].kind = kind /\ r[k].id = i
        BY <2>1, <3>1 DEF Carries
      <4>2. k + 1 \in DOMAIN q /\ q[k + 1].kind = kind /\ q[k + 1].id = i
        BY <2>1, <2>2, <4>1
      <4> QED BY <4>2 DEF Carries
    <3>2. CASE Head(q).kind = kind /\ Head(q).id = i
      <4>1. 1 \in DOMAIN q /\ q[1].kind = kind /\ q[1].id = i
        BY <2>1, <2>2, <3>2
      <4> QED BY <4>1 DEF Carries
    <3> QED BY <2>5, <3>1, <3>2
  <2> DEFINE P == Head(q).kind = kind /\ Head(q).id = i
  <2> HIDE DEF P
  <2>6. Carries(q, kind, i) <=> Carries(r, kind, i) \/ P
    BY <2>4, <2>5 DEF P
  <2> QED BY <2>6 DEF r, P
<1> QED BY <1>1, <1>2

LEMMA EmptyOn ==
    ASSUME NEW i
    PROVE  /\ \A f : SilentOn(<<>>, i, f) /\ \A v : ~LastOn(<<>>, i, f, v)
           /\ \A kind : ~Carries(<<>>, kind, i)
BY DEF SilentOn, LastOn, Carries

\* A broadcast adds one message, and loses none about an instance it does not
\* leave torn.
LEMMA KeptOn ==
    ASSUME NEW S, \A x \in S : x.kind # "list", NEW q \in Seq(S), NEW m \in S, NEW cap \in Nat \ {0},
           NEW i, i \notin Lost(q, cap)
    PROVE  /\ \A f : \A v :
                /\ SaysOf(m, i, f) /\ Agrees(m, i, f, v) => LastOn(Kept(q, cap, m), i, f, v)
                /\ ~SaysOf(m, i, f) => /\ SilentOn(q, i, f) => SilentOn(Kept(q, cap, m), i, f)
                                       /\ LastOn(q, i, f, v) => LastOn(Kept(q, cap, m), i, f, v)
           /\ \A kind : Carries(Kept(q, cap, m), kind, i) <=> Carries(q, kind, i) \/ (m.kind = kind /\ m.id = i)
<1>1. PICK r \in Seq(S) :
          /\ Kept(q, cap, m) = Append(r, m)
          /\ \A f : \A v : (SilentOn(q, i, f) => SilentOn(r, i, f)) /\ (LastOn(q, i, f, v) => LastOn(r, i, f, v))
          /\ \A kind : Carries(q, kind, i) <=> Carries(r, kind, i)
  <2>1. CASE Len(q) < cap
    BY <2>1 DEF Kept
  <2>2. CASE ~(Len(q) < cap)
    <3>1. q # <<>> /\ Tail(q) \in Seq(S) /\ Kept(q, cap, m) = Append(Tail(q), m) /\ q[1] = Head(q)
      BY <2>2 DEF Kept
    <3>2. Head(q) \in S
      BY <3>1
    <3>3. Head(q).id # i /\ Head(q).kind # "list"
      BY <2>2, <3>1, <3>2 DEF Lost
    <3>4. \A f : ~SaysOf(Head(q), i, f)
      BY <3>3 DEF SaysOf
    <3>5. \A f : \A v : (SilentOn(q, i, f) => SilentOn(Tail(q), i, f)) /\ (LastOn(q, i, f, v) => LastOn(Tail(q), i, f, v))
      BY <3>1, <3>4, TailOn
    <3>6. \A kind : Carries(q, kind, i) <=> Carries(Tail(q), kind, i)
      BY <3>1, <3>3, CarriesOn
    <3> QED BY <3>1, <3>5, <3>6
  <2> QED BY <2>1, <2>2
<1>2. ASSUME NEW f, NEW v
      PROVE  /\ SaysOf(m, i, f) /\ Agrees(m, i, f, v) => LastOn(Append(r, m), i, f, v)
             /\ ~SaysOf(m, i, f) => /\ SilentOn(q, i, f) => SilentOn(Append(r, m), i, f)
                                    /\ LastOn(q, i, f, v) => LastOn(Append(r, m), i, f, v)
  <2>1. (SilentOn(q, i, f) => SilentOn(r, i, f)) /\ (LastOn(q, i, f, v) => LastOn(r, i, f, v))
    BY <1>1
  <2>2. /\ SaysOf(m, i, f) /\ Agrees(m, i, f, v) => LastOn(Append(r, m), i, f, v)
        /\ ~SaysOf(m, i, f) => /\ SilentOn(r, i, f) => SilentOn(Append(r, m), i, f)
                               /\ LastOn(r, i, f, v) => LastOn(Append(r, m), i, f, v)
    BY AppendOn
  <2> QED BY <2>1, <2>2
<1>3. ASSUME NEW kind
      PROVE  Carries(Append(r, m), kind, i) <=> Carries(q, kind, i) \/ (m.kind = kind /\ m.id = i)
  <2>1. Carries(Append(r, m), kind, i) <=> Carries(r, kind, i) \/ (m.kind = kind /\ m.id = i)
    BY CarriesOn
  <2> QED BY <1>1, <2>1
<1> QED BY <1>1, <1>2, <1>3

\* What the client's list says after a message.
LEMMA UpdatedFits ==
    ASSUME view \in Lists, NEW m \in Messages, NEW i \in Instances, NEW f \in {"presence", "custom", "state"}, NEW v
    PROVE  /\ SaysOf(m, i, f) /\ Agrees(m, i, f, v) => Fits(Updated(m), i, f, v)
           /\ ~SaysOf(m, i, f) /\ Fits(view, i, f, v) /\ ~(f = "state" /\ m.kind = "created" /\ m.id = i) => Fits(Updated(m), i, f, v)
<1> PICK D \in SUBSET Instances : view \in [D -> Info]
  BY DEF Lists
<1>0. DOMAIN view = D /\ \A j \in D : view[j] \in Info
  OBVIOUS
<1>1. CASE m.kind = "list"
  BY <1>1 DEF SaysOf, Agrees, Updated
<1>2. CASE m.kind # "list"
  <2>1. m.kind \in {"created", "stopped", "renamed", "state"}
    BY <1>2 DEF Messages, LifeMessages, StateMessages
  <2>2. CASE m.kind = "created"
    <3>1. Updated(m) = [j \in D \cup {m.id} |-> IF j = m.id THEN m.info ELSE view[j]]
      BY <1>0, <2>2 DEF Updated
    <3> QED BY <1>0, <2>2, <3>1 DEF SaysOf, Sayers, Agrees, Fits
  <2>3. CASE m.kind = "stopped"
    <3>1. Updated(m) = [j \in D \ {m.id} |-> view[j]]
      BY <1>0, <2>3 DEF Updated
    <3> QED BY <1>0, <2>3, <3>1 DEF SaysOf, Sayers, Agrees, Fits
  <2>4. CASE m.kind = "renamed"
    <3>1. Updated(m) = [j \in D |-> IF j = m.id THEN [view[j] EXCEPT !.custom = m.info.custom] ELSE view[j]]
      BY <1>0, <2>4 DEF Updated
    <3>2. \A j \in D : [view[j] EXCEPT !.custom = m.info.custom].custom = m.info.custom /\ [view[j] EXCEPT !.custom = m.info.custom].state = view[j].state
      BY <1>0 DEF Info
    <3> QED BY <1>0, <2>4, <3>1, <3>2 DEF SaysOf, Sayers, Agrees, Fits
  <2>5. CASE m.kind = "state"
    <3>1. Updated(m) = [j \in D |-> IF j = m.id THEN [view[j] EXCEPT !.state = m.info.state] ELSE view[j]]
      BY <1>0, <2>5 DEF Updated
    <3>2. \A j \in D : [view[j] EXCEPT !.state = m.info.state].state = m.info.state /\ [view[j] EXCEPT !.state = m.info.state].custom = view[j].custom
      BY <1>0 DEF Info
    <3> QED BY <1>0, <2>5, <3>1, <3>2 DEF SaysOf, Sayers, Agrees, Fits
  <2> QED BY <2>1, <2>2, <2>3, <2>4, <2>5
<1> QED BY <1>1, <1>2

\* The manager's list is right about everything.
LEMMA ListFits ==
    ASSUME ListTypeOK, NEW i \in Instances
    PROVE  /\ Fits(List, i, "presence", Presence(i))
           /\ Fits(List, i, "custom", info[i].custom)
           /\ Fits(List, i, "state", info[i].state)
<1>1. DOMAIN List = listed /\ \A j \in listed : List[j] = info[j]
  BY DEF List
<1> QED BY <1>1 DEF Fits, Presence

\* What the client makes of the queues does not change as a message moves from
\* one to the other.
LEMMA ForwardWord ==
    ASSUME NEW S, NEW q \in Seq(S), q # <<>>, NEW T, NEW w \in Seq(T), Head(q) \in T,
           NEW b, NEW i, NEW f, NEW v, WordOn(q, w, b, i, f, v)
    PROVE  WordOn(Tail(q), Append(w, Head(q)), b, i, f, v)
<1>1. /\ SilentOn(q, i, f) => ~SaysOf(Head(q), i, f) /\ SilentOn(Tail(q), i, f)
      /\ LastOn(q, i, f, v) => \/ LastOn(Tail(q), i, f, v)
                               \/ SaysOf(Head(q), i, f) /\ Agrees(Head(q), i, f, v) /\ SilentOn(Tail(q), i, f)
  BY TailOn
<1> DEFINE m == Head(q)
<1>2. /\ SaysOf(m, i, f) /\ Agrees(m, i, f, v) => LastOn(Append(w, m), i, f, v)
      /\ ~SaysOf(m, i, f) => /\ SilentOn(w, i, f) => SilentOn(Append(w, m), i, f)
                             /\ LastOn(w, i, f, v) => LastOn(Append(w, m), i, f, v)
  BY AppendOn
<1> QED BY <1>1, <1>2 DEF WordOn

\* Nor as another message joins the wire.
LEMMA JoinWord ==
    ASSUME NEW q, NEW T, NEW w \in Seq(T), NEW m \in T, NEW b, NEW i, NEW f, NEW v, ~SaysOf(m, i, f), WordOn(q, w, b, i, f, v)
    PROVE  WordOn(q, Append(w, m), b, i, f, v)
<1>1. /\ SilentOn(w, i, f) => SilentOn(Append(w, m), i, f)
      /\ LastOn(w, i, f, v) => LastOn(Append(w, m), i, f, v)
  BY AppendOn
<1> QED BY <1>1 DEF WordOn

\* Nor as a message is read, if the list is then what it said.
LEMMA ReadWord ==
    ASSUME NEW q, NEW T, NEW w \in Seq(T), w # <<>>, NEW b, NEW c, NEW i, NEW f, NEW v,
           SaysOf(Head(w), i, f) /\ Agrees(Head(w), i, f, v) => Fits(c, i, f, v),
           ~SaysOf(Head(w), i, f) /\ Fits(b, i, f, v) => Fits(c, i, f, v),
           WordOn(q, w, b, i, f, v)
    PROVE  WordOn(q, Tail(w), c, i, f, v)
<1>1. /\ SilentOn(w, i, f) => ~SaysOf(Head(w), i, f) /\ SilentOn(Tail(w), i, f)
      /\ LastOn(w, i, f, v) => \/ LastOn(Tail(w), i, f, v)
                               \/ SaysOf(Head(w), i, f) /\ Agrees(Head(w), i, f, v) /\ SilentOn(Tail(w), i, f)
  BY TailOn
<1> QED BY <1>1 DEF WordOn

\* A list on the wire makes up for whatever the client has.
LEMMA ListWord ==
    ASSUME NEW q, NEW w, HasList(w), NEW b, NEW c, NEW i, NEW f, NEW v, WordOn(q, w, b, i, f, v)
    PROVE  WordOn(q, w, c, i, f, v)
<1>1. ~SilentOn(w, i, f)
  BY DEF HasList, SilentOn, SaysOf
<1> QED BY <1>1 DEF WordOn

LEMMA HasListOn ==
    ASSUME NEW S, NEW q \in Seq(S), NEW m \in S
    PROVE  /\ m.kind # "list" => (HasList(Append(q, m)) <=> HasList(q))
           /\ q # <<>> /\ Head(q).kind # "list" /\ HasList(q) => HasList(Tail(q))
<1>1. ASSUME m.kind # "list"
      PROVE  HasList(Append(q, m)) <=> HasList(q)
  <2> DEFINE r == Append(q, m)
  <2>1. Len(r) = Len(q) + 1 /\ r[Len(r)] = m /\ DOMAIN r = 1..Len(r) /\ Len(q) \in Nat /\ DOMAIN q = 1..Len(q)
        /\ \A k \in 1..Len(q) : r[k] = q[k]
    OBVIOUS
  <2> HIDE DEF r
  <2>2. \A k \in 1..Len(r) : k = Len(r) \/ k \in 1..Len(q)
    BY <2>1
  <2>3. \A k \in 1..Len(q) : k \in 1..Len(r)
    BY <2>1
  <2>4. HasList(r) <=> HasList(q)
    BY <1>1, <2>1, <2>2, <2>3 DEF HasList
  <2> QED BY <2>4 DEF r
<1>2. ASSUME q # <<>>, Head(q).kind # "list", HasList(q)
      PROVE  HasList(Tail(q))
  <2> DEFINE r == Tail(q)
  <2>1. Len(q) \in Nat /\ Len(r) = Len(q) - 1 /\ DOMAIN q = 1..Len(q) /\ DOMAIN r = 1..Len(r) /\ Head(q) = q[1]
        /\ \A k \in 1..Len(r) : r[k] = q[k + 1]
    BY <1>2
  <2> HIDE DEF r
  <2>2. PICK k \in 1..Len(q) : q[k].kind = "list"
    BY <1>2, <2>1 DEF HasList
  <2>3. k # 1
    BY <1>2, <2>1, <2>2
  <2>4. k - 1 \in 1..Len(r) /\ r[k - 1] = q[k]
    BY <2>1, <2>3
  <2>5. HasList(r)
    BY <2>1, <2>2, <2>4 DEF HasList
  <2> QED BY <2>5 DEF r
<1> QED BY <1>1, <1>2

LEMMA NewsInit ==
    /\ ListInit => NewsInv /\ FreshInv /\ LearnInv
  BY EmptyOn DEF ListInit, NewsInv, FreshInv, LearnInv, Ordered, Learnt, Coming, Stateless

-----------------------------------------------------------------------------
(* The invariant, step by step.                                                *)

\* What is not known of an instance before it is stored.
LEMMA FreshNext == ListTypeOK /\ LifeInv /\ FreshInv /\ [ListNext]_listVars => FreshInv'
<1> SUFFICES ASSUME ListTypeOK, LifeInv, FreshInv, [ListNext]_listVars PROVE FreshInv'
  OBVIOUS
<1>0. ManagerTyped /\ ActorTyped
  BY ListParts
<1>1. ASSUME NEW i \in Instances,
             Provide(i) \/ Generate(i) \/ Spawn(i) \/ SpawnFails(i) \/ Store(i) \/ Find(i) \/ Announce(i)
             \/ Unregister(i) \/ StopInstance(i) \/ Delete(i)
      PROVE  FreshInv'
  <2>1. UNCHANGED actorVars
    BY <1>1 DEF Provide, Generate, Reserve, Spawn, SpawnFails, Store, Find, Announce, Unregister, StopInstance, Delete
  <2>2. \A j \in Instances : \/ phase'[j] = phase[j]
                             \/ phase'[j] \in {"stored", "found", "done"}
                             \/ phase'[j] \in {"reserved", "spawned", "failed"} /\ phase[j] \in {"none", "reserved"}
    BY <1>0, <1>1 DEF Provide, Generate, Reserve, Spawn, SpawnFails, Store, Find, Announce, Unregister, StopInstance, Delete, ManagerTyped
  <2> QED BY <2>1, <2>2 DEF FreshInv, actorVars
<1>2. ASSUME NEW i \in Instances, SetName(i)
      PROVE  FreshInv'
  <2>1. phase[i] \in {"stored", "found", "done"}
    BY <1>2 DEF SetName, LifeInv
  <2> QED BY <1>0, <1>2, <2>1 DEF SetName, FreshInv, managerVars, ActorTyped
<1>3. ASSUME NEW i \in Instances, Renamed(i)
      PROVE  FreshInv'
  <2>1. renaming[i] # {}
    BY <1>3 DEF Renamed
  <2> QED BY <1>0, <1>3, <2>1 DEF Renamed, FreshInv, managerVars, ActorTyped
<1>4. ASSUME NEW i \in Instances, ChangeState(i)
      PROVE  FreshInv'
  <2>1. phase[i] \in {"spawned", "stored", "found", "done"}
    BY <1>4 DEF ChangeState, Running, LifeInv
  <2> QED BY <1>0, <1>4, <2>1 DEF ChangeState, FreshInv, managerVars, ActorTyped
<1>5. CASE UNCHANGED <<managerVars, actorVars>>
  BY <1>5 DEF FreshInv, managerVars, actorVars
<1>6. CASE Connect \/ SubscribeStates \/ SubscribeLife \/ ForwardLife \/ ForwardState \/ Disconnect
  BY <1>5, <1>6 DEF Connect, SubscribeStates, SubscribeLife, ForwardLife, ForwardState, Disconnect
<1>7. CASE Deliver \/ Fetch \/ Fetched
  BY <1>5, <1>7 DEF Deliver, Fetch, Fetched
<1>8. CASE UNCHANGED listVars
  BY <1>5, <1>8 DEF listVars
<1> QED BY <1>1, <1>2, <1>3, <1>4, <1>6, <1>7, <1>8 DEF ListNext

\* A step that moves no message changes nothing of what the client learns of i, if
\* what the requests about i did is not news.
LEMMA QuietLearns ==
    ASSUME NEW i \in Instances, UNCHANGED <<life, states, wire>>,
           phase'[i] \notin {"stored", "found"} /\ deleting'[i] # "stopped"
               => phase[i] \notin {"stored", "found"} /\ deleting[i] # "stopped" /\ (i \in listed' <=> i \in listed),
           renaming'[i] = {} => renaming[i] = {} /\ info'[i].custom = info[i].custom,
           info'[i].state = info[i].state,
           NEW b
    PROVE  Learns(i, b) => Learns(i, b)'
BY DEF Learns, Presence, Coming

LEMMA QuietLearnt ==
    ASSUME NEW i \in Instances, UNCHANGED <<life, states, wire, view, response, since>>,
           link' # "off" => link # "off",
           phase'[i] \notin {"stored", "found"} /\ deleting'[i] # "stopped"
               => phase[i] \notin {"stored", "found"} /\ deleting[i] # "stopped" /\ (i \in listed' <=> i \in listed),
           renaming'[i] = {} => renaming[i] = {} /\ info'[i].custom = info[i].custom,
           info'[i].state = info[i].state,
           Learnt(i)
    PROVE  Learnt(i)'
<1>1. \A b : Learns(i, b) => Learns(i, b)'
  BY QuietLearns
<1> QED BY <1>1 DEF Learnt

\* A lifecycle broadcast leaves i learnt if it says nothing of it, or says what
\* is true.
LEMMA LifeKept ==
    ASSUME ListTypeOK, NEW m \in LifeMessages, TellLife(m), NEW i \in Instances, i \notin torn'
    PROVE  /\ i \notin torn
           /\ states' = states
           /\ m.id = i => link \in {"off", "on"}
           /\ \A w, b, f, v : link = "on" /\ SaysOf(m, i, f) /\ Agrees(m, i, f, v) => WordOn(life', w, b, i, f, v)
           /\ \A w, b, f, v : (link # "on" \/ ~SaysOf(m, i, f)) /\ WordOn(life, w, b, i, f, v) => WordOn(life', w, b, i, f, v)
           /\ \A kind : Carries(life', kind, i) <=> Carries(life, kind, i) \/ (link = "on" /\ m.kind = kind /\ m.id = i)
<1>1. i \notin torn /\ states' = states /\ (m.id = i => link \notin {"listed", "half"}) /\ (link = "on" => i \notin Lost(life, LifeCap))
  BY DEF TellLife
<1>2. m.id = i => link \in {"off", "on"}
  BY <1>1 DEF ListTypeOK
<1>3. CASE link # "on"
  <2>1. life' = life
    BY <1>3 DEF TellLife
  <2> QED BY <1>1, <1>2, <1>3, <2>1
<1>4. CASE link = "on"
  <2>1. life' = Kept(life, LifeCap, m) /\ life \in Seq(LifeMessages) /\ i \notin Lost(life, LifeCap) /\ LifeCap \in Nat \ {0}
    BY <1>1, <1>4 DEF TellLife, ListTypeOK
  <2>2. \A x \in LifeMessages : x.kind # "list"
    BY DEF LifeMessages
  <2>3. /\ \A f : \A v :
             /\ SaysOf(m, i, f) /\ Agrees(m, i, f, v) => LastOn(life', i, f, v)
             /\ ~SaysOf(m, i, f) => /\ SilentOn(life, i, f) => SilentOn(life', i, f)
                                    /\ LastOn(life, i, f, v) => LastOn(life', i, f, v)
        /\ \A kind : Carries(life', kind, i) <=> Carries(life, kind, i) \/ (m.kind = kind /\ m.id = i)
    BY <2>1, <2>2, KeptOn
  <2> QED BY <1>1, <1>2, <1>4, <2>3 DEF WordOn
<1> QED BY <1>3, <1>4

LEMMA StateKept ==
    ASSUME ListTypeOK, NEW m \in StateMessages, TellState(m), NEW i \in Instances, i \notin torn'
    PROVE  /\ i \notin torn
           /\ life' = life
           /\ m.id = i => link # "listed" /\ ~Untold(i)
           /\ \A w, b, f, v : link \in {"half", "on"} /\ SaysOf(m, i, f) /\ Agrees(m, i, f, v) => WordOn(states', w, b, i, f, v)
           /\ \A w, b, f, v : ~SaysOf(m, i, f) /\ WordOn(states, w, b, i, f, v) => WordOn(states', w, b, i, f, v)
           /\ \A kind : m.id # i => (Carries(states', kind, i) <=> Carries(states, kind, i))
<1>1. i \notin torn /\ life' = life /\ (m.id = i => link # "listed" /\ ~Untold(i)) /\ (link \in {"half", "on"} => i \notin Lost(states, StateCap))
  BY DEF TellState
<1>2. CASE link \notin {"half", "on"}
  <2>1. states' = states
    BY <1>2 DEF TellState
  <2> QED BY <1>1, <1>2, <2>1
<1>3. CASE link \in {"half", "on"}
  <2>1. states' = Kept(states, StateCap, m) /\ states \in Seq(StateMessages) /\ i \notin Lost(states, StateCap) /\ StateCap \in Nat \ {0}
    BY <1>1, <1>3 DEF TellState, ListTypeOK
  <2>2. \A x \in StateMessages : x.kind # "list"
    BY DEF StateMessages
  <2>3. /\ \A f : \A v :
             /\ SaysOf(m, i, f) /\ Agrees(m, i, f, v) => LastOn(states', i, f, v)
             /\ ~SaysOf(m, i, f) => /\ SilentOn(states, i, f) => SilentOn(states', i, f)
                                    /\ LastOn(states, i, f, v) => LastOn(states', i, f, v)
        /\ \A kind : Carries(states', kind, i) <=> Carries(states, kind, i) \/ (m.kind = kind /\ m.id = i)
    BY <2>1, <2>2, KeptOn
  <2> QED BY <1>1, <2>3 DEF WordOn
<1> QED BY <1>2, <1>3

\* The steps of the requests about i itself that tell the clients nothing.
LEMMA QuietNext ==
    ASSUME ListTypeOK, LifeInv, LearnInv, NEW j \in Instances,
           Provide(j) \/ Generate(j) \/ Spawn(j) \/ SpawnFails(j) \/ Store(j) \/ Find(j)
           \/ Unregister(j) \/ StopInstance(j) \/ SetName(j),
           NEW i \in Instances, i \notin torn'
    PROVE  Ordered(i)' /\ Learnt(i)'
<1>0. ManagerTyped /\ ActorTyped
  BY ListParts
<1>1. /\ UNCHANGED <<life, states, wire, view, response, since, link>>
      /\ torn' = torn \/ torn' = torn \cup Overlap(j)
  BY DEF Provide, Generate, Reserve, Spawn, SpawnFails, Store, Find, Unregister, StopInstance, SetName, channelVars, fetchVars
<1>2. i \notin torn /\ Ordered(i) /\ Learnt(i)
  BY <1>1 DEF LearnInv
<1>3. CASE i # j
  <2>1. phase'[i] = phase[i] /\ deleting'[i] = deleting[i] /\ info'[i] = info[i] /\ renaming'[i] = renaming[i] /\ (i \in listed' <=> i \in listed)
    BY <1>0, <1>3 DEF Provide, Generate, Reserve, Spawn, SpawnFails, Store, Find, Unregister, StopInstance, SetName,
                      managerVars, actorVars, ManagerTyped, ActorTyped
  <2>2. Learnt(i)'
    BY <1>1, <1>2, <2>1, QuietLearnt
  <2>3. Ordered(i)'
    BY <1>1, <1>2, <2>1 DEF Ordered, Stateless, Coming
  <2> QED BY <2>2, <2>3
<1>4. CASE i = j
  <2> USE <1>4
  <2>1. CASE Provide(i) \/ Generate(i) \/ Spawn(i) \/ SpawnFails(i)
    <3>1. phase[i] \in {"none", "reserved"} /\ phase'[i] \in {"reserved", "spawned", "failed"} /\ UNCHANGED <<listed, deleting, info, renaming>>
      BY <1>0, <2>1 DEF Provide, Generate, Reserve, Spawn, SpawnFails, actorVars, ManagerTyped
    <3>2. Learnt(i)'
      BY <1>1, <1>2, <3>1, QuietLearnt
    <3>3. Ordered(i)'
      BY <1>1, <1>2, <3>1 DEF Ordered, Stateless, Coming
    <3> QED BY <3>2, <3>3
  <2>2. CASE Store(i) \/ Find(i)
    <3>1. phase[i] \in {"spawned", "stored"} /\ phase'[i] \in {"stored", "found"} /\ i \in listed' /\ UNCHANGED <<deleting, info, renaming>>
      BY <1>0, <2>2 DEF Store, Find, actorVars, ManagerTyped
    <3>2. Learnt(i)'
      BY <1>1, <1>2, <3>1, QuietLearnt
    <3>3. deleting[i] = "none"
      BY <1>0, <1>2, <3>1 DEF LifeInv, Ordered, ManagerTyped
    <3>4. Ordered(i)'
      BY <1>1, <1>2, <3>1, <3>3 DEF Ordered, Stateless, Coming
    <3> QED BY <3>2, <3>4
  <2>3. CASE Unregister(i)
    <3>1. deleting[i] = "none" /\ deleting'[i] = "unregistered" /\ UNCHANGED <<phase, listed, info, renaming>> /\ ~Busy(i) /\ phase[i] \in {"stored", "found", "done"}
      BY <1>0, <2>3 DEF Unregister, Overlap, actorVars, ManagerTyped
    <3>2. phase[i] = "done"
      BY <3>1 DEF Busy, Creating
    <3>3. Learnt(i)'
      BY <1>1, <1>2, <3>1, QuietLearnt
    <3>4. Ordered(i)'
      BY <1>1, <1>2, <3>1, <3>2 DEF Ordered, Stateless, Coming
    <3> QED BY <3>3, <3>4
  <2>4. CASE StopInstance(i)
    <3>1. /\ deleting[i] = "unregistered" /\ UNCHANGED <<phase, info, renaming>> /\ listed' = listed \ {i}
          /\ deleting'[i] = IF i \in listed THEN "stopped" ELSE "none"
      BY <1>0, <2>4 DEF StopInstance, actorVars, ManagerTyped
    <3>2. phase[i] \notin {"stored", "found"}
      BY <1>2, <3>1 DEF Ordered
    <3>3. Learnt(i)'
      BY <1>1, <1>2, <3>1, QuietLearnt
    <3>4. Ordered(i)'
      BY <1>1, <1>2, <3>1, <3>2 DEF Ordered, Stateless, Coming
    <3> QED BY <3>3, <3>4
  <2>5. CASE SetName(i)
    <3>1. ~Busy(i) /\ i \in listed /\ UNCHANGED <<phase, deleting, listed>>
      BY <2>5 DEF SetName, Overlap, managerVars
    <3>2. phase[i] = "done"
      BY <3>1 DEF Busy, Creating, LifeInv
    <3>3. renaming[i] = {}
      BY <3>1 DEF Busy
    <3>4. info[i] \in Info
      BY <1>0 DEF ActorTyped
    <3>5. info'[i].custom = info[i].custom + 1 /\ info'[i].state = info[i].state /\ renaming'[i] = {info[i].custom + 1}
      BY <1>0, <2>5, <3>3, <3>4 DEF SetName, ActorTyped, Info
    <3>6. Learnt(i)'
      BY <1>1, <1>2, <3>1, <3>5, QuietLearnt
    <3>7. Ordered(i)'
      BY <1>1, <1>2, <3>1, <3>2, <3>5 DEF Ordered, Stateless, Coming
    <3> QED BY <3>6, <3>7
  <2> QED BY <1>4, <2>1, <2>2, <2>3, <2>4, <2>5
<1> QED BY <1>3, <1>4

\* The steps that broadcast.
LEMMA TellNext ==
    ASSUME ListTypeOK, LifeInv, LearnInv, NEW j \in Instances, Announce(j) \/ Delete(j) \/ Renamed(j),
           NEW i \in Instances, i \notin torn'
    PROVE  Ordered(i)' /\ Learnt(i)'
<1>0. ManagerTyped /\ ActorTyped
  BY ListParts
<1>1. PICK m \in LifeMessages : /\ TellLife(m) /\ m.id = j
                                /\ \/ m.kind = "created" /\ m.info = Fresh /\ Announce(j)
                                   \/ m.kind = "stopped" /\ Delete(j)
                                   \/ m.kind = "renamed" /\ m.info.custom \in renaming[j] /\ renaming' = [renaming EXCEPT ![j] = @ \ {m.info.custom}] /\ Renamed(j)
  <2>1. CASE Announce(j)
    <3>1. [kind |-> "created", id |-> j, info |-> Fresh] \in LifeMessages
      BY DEF LifeMessages, Fresh, Info
    <3> QED BY <2>1, <3>1 DEF Announce
  <2>2. CASE Delete(j)
    <3>1. News("stopped", j) \in LifeMessages /\ News("stopped", j).kind = "stopped" /\ News("stopped", j).id = j
      BY <1>0 DEF LifeMessages, News, ActorTyped
    <3> QED BY <2>2, <3>1 DEF Delete, Stopped
  <2>3. CASE Renamed(j)
    <3>1. PICK c \in renaming[j] : /\ renaming' = [renaming EXCEPT ![j] = @ \ {c}]
                                   /\ TellLife([kind |-> "renamed", id |-> j, info |-> [Fresh EXCEPT !.custom = c]])
      BY <2>3 DEF Renamed
    <3>2. c \in 1..MaxRenames
      BY <1>0 DEF ActorTyped
    <3>3. [Fresh EXCEPT !.custom = c] \in Info /\ [Fresh EXCEPT !.custom = c].custom = c
      BY <3>2 DEF Fresh, Info
    <3>4. [kind |-> "renamed", id |-> j, info |-> [Fresh EXCEPT !.custom = c]] \in LifeMessages
      BY <3>3 DEF LifeMessages
    <3> QED BY <2>3, <3>1, <3>3, <3>4
  <2> QED BY <2>1, <2>2, <2>3
<1>2. UNCHANGED <<wire, view, response, since, link, info, listed>>
  BY DEF Announce, Delete, Renamed, fetchVars, actorVars, managerVars
<1>3. /\ i \notin torn
      /\ states' = states
      /\ m.id = i => link \in {"off", "on"}
      /\ \A w, b, f, v : link = "on" /\ SaysOf(m, i, f) /\ Agrees(m, i, f, v) => WordOn(life', w, b, i, f, v)
      /\ \A w, b, f, v : (link # "on" \/ ~SaysOf(m, i, f)) /\ WordOn(life, w, b, i, f, v) => WordOn(life', w, b, i, f, v)
      /\ \A kind : Carries(life', kind, i) <=> Carries(life, kind, i) \/ (link = "on" /\ m.kind = kind /\ m.id = i)
  BY <1>1, LifeKept
<1>4. Ordered(i) /\ Learnt(i)
  BY <1>3 DEF LearnInv
<1>5. Stateless(i)' <=> Stateless(i)
  BY <1>2, <1>3 DEF Stateless
<1>6. CASE i # j
  <2>1. phase'[i] = phase[i] /\ deleting'[i] = deleting[i] /\ renaming'[i] = renaming[i]
    BY <1>0, <1>6 DEF Announce, Delete, Renamed, managerVars, actorVars, ManagerTyped, ActorTyped
  <2>2. \A f : ~SaysOf(m, i, f)
    BY <1>1, <1>6 DEF SaysOf, LifeMessages
  <2>3. Coming(i)' <=> Coming(i)
    BY <1>1, <1>2, <1>3, <1>6 DEF Coming
  <2>4. \A b : Learns(i, b) => Learns(i, b)'
    BY <1>2, <1>3, <2>1, <2>2, <2>3 DEF Learns, Presence
  <2>5. Learnt(i)'
    BY <1>2, <1>4, <2>4 DEF Learnt
  <2>6. Ordered(i)'
    BY <1>2, <1>4, <1>5, <2>1, <2>3 DEF Ordered
  <2> QED BY <2>5, <2>6
<1>7. CASE i = j
  <2> USE <1>7
  <2>0. link \in {"off", "on"} /\ m.kind # "list" /\ m.id = i
    BY <1>1, <1>3
  <2>1. CASE Announce(i) /\ m.kind = "created" /\ m.info = Fresh
    <3>1. phase[i] \in {"stored", "found"} /\ phase'[i] = "done" /\ UNCHANGED <<deleting, renaming>> /\ ~(phase[i] = "stored" /\ i \notin listed)
      BY <1>0, <1>4, <2>1 DEF Announce, ManagerTyped, actorVars, Ordered
    <3>2. i \in listed /\ info[i] = Fresh /\ renaming[i] = {} /\ Stateless(i)
      BY <1>4, <3>1 DEF Ordered
    <3>3. Ordered(i)'
      BY <1>2, <1>5, <3>1, <3>2 DEF Ordered, Fresh
    <3>4. link = "on" => Coming(i)'
      BY <1>3, <2>0, <2>1 DEF Coming
    <3>5. ASSUME link = "on", NEW b
          PROVE  Learns(i, b)'
      <4>1. SaysOf(m, i, "presence") /\ Agrees(m, i, "presence", "there")
        BY <2>0, <2>1 DEF SaysOf, Sayers, Agrees
      <4>2. SaysOf(m, i, "custom") /\ Agrees(m, i, "custom", 0)
        BY <2>0, <2>1 DEF SaysOf, Sayers, Agrees, Fresh
      <4>3. Presence(i)' = "there" /\ info'[i].custom = 0
        BY <1>2, <3>2 DEF Presence, Fresh
      <4> QED BY <1>3, <3>4, <3>5, <4>1, <4>2, <4>3 DEF Learns
    <3>6. Learnt(i)'
      BY <1>2, <2>0, <3>5 DEF Learnt
    <3> QED BY <3>3, <3>6
  <2>2. CASE Delete(i) /\ m.kind = "stopped"
    <3>1. deleting[i] = "stopped" /\ deleting'[i] = "none" /\ UNCHANGED <<phase, renaming>>
      BY <1>0, <2>2 DEF Delete, ManagerTyped, actorVars
    <3>2. i \notin listed /\ phase[i] \notin {"stored", "found"}
      BY <1>4, <3>1 DEF LifeInv, Ordered
    <3>3. Coming(i)' <=> Coming(i)
      BY <1>2, <1>3, <2>2 DEF Coming
    <3>4. Ordered(i)'
      BY <1>2, <1>4, <1>5, <3>1, <3>2, <3>3 DEF Ordered
    <3>5. ASSUME link = "on", NEW b, Learns(i, b)
          PROVE  Learns(i, b)'
      <4>1. SaysOf(m, i, "presence") /\ Agrees(m, i, "presence", "gone") /\ ~SaysOf(m, i, "custom")
        BY <2>0, <2>2 DEF SaysOf, Sayers, Agrees
      <4>2. Presence(i)' = "gone"
        BY <1>2, <3>2 DEF Presence
      <4> QED BY <1>2, <1>3, <3>1, <3>3, <3>5, <4>1, <4>2 DEF Learns
    <3>6. Learnt(i)'
      BY <1>2, <1>4, <2>0, <3>5 DEF Learnt
    <3> QED BY <3>4, <3>6
  <2>3. CASE Renamed(i) /\ m.kind = "renamed" /\ m.info.custom \in renaming[i] /\ renaming' = [renaming EXCEPT ![i] = @ \ {m.info.custom}]
    <3>1. renaming[i] = {info[i].custom} /\ m.info.custom = info[i].custom
      BY <1>4, <2>3 DEF Ordered
    <3>2. renaming'[i] = {} /\ UNCHANGED <<phase, deleting>>
      BY <1>0, <2>3, <3>1 DEF Renamed, managerVars, ActorTyped
    <3>3. Coming(i)' <=> Coming(i)
      BY <1>2, <1>3, <2>3 DEF Coming
    <3>4. Ordered(i)'
      BY <1>2, <1>4, <1>5, <3>1, <3>2, <3>3 DEF Ordered
    <3>5. ASSUME link = "on", NEW b, Learns(i, b)
          PROVE  Learns(i, b)'
      <4>1. SaysOf(m, i, "custom") /\ Agrees(m, i, "custom", info[i].custom) /\ ~SaysOf(m, i, "presence")
        BY <2>0, <2>3, <3>1 DEF SaysOf, Sayers, Agrees
      <4>2. Presence(i)' = Presence(i)
        BY <1>2 DEF Presence
      <4> QED BY <1>2, <1>3, <3>2, <3>3, <3>5, <4>1, <4>2 DEF Learns
    <3>6. Learnt(i)'
      BY <1>2, <1>4, <2>0, <3>5 DEF Learnt
    <3> QED BY <3>4, <3>6
  <2> QED BY <1>1, <1>7, <2>1, <2>2, <2>3
<1> QED BY <1>6, <1>7

LEMMA ChangeNext ==
    ASSUME ListTypeOK, LifeInv, LearnInv, NEW j \in Instances, ChangeState(j), NEW i \in Instances, i \notin torn'
    PROVE  Ordered(i)' /\ Learnt(i)'
<1>0. ManagerTyped /\ ActorTyped
  BY ListParts
<1> DEFINE m == [kind |-> "state", id |-> j, info |-> [Fresh EXCEPT !.state = info[j].state + 1]]
<1>1. m \in StateMessages /\ m.id = j /\ m.kind = "state" /\ m.info.state = info[j].state + 1 /\ TellState(m)
  <2>1. info[j] \in Info /\ info[j].state < MaxStates
    BY <1>0 DEF ActorTyped, ChangeState
  <2>2. [Fresh EXCEPT !.state = info[j].state + 1] \in Info
    BY <2>1 DEF Info, Fresh
  <2> QED BY <2>2 DEF StateMessages, ChangeState, Fresh
<1> HIDE DEF m
<1>2. /\ i \notin torn
      /\ life' = life
      /\ m.id = i => link # "listed" /\ ~Untold(i)
      /\ \A w, b, f, v : link \in {"half", "on"} /\ SaysOf(m, i, f) /\ Agrees(m, i, f, v) => WordOn(states', w, b, i, f, v)
      /\ \A w, b, f, v : ~SaysOf(m, i, f) /\ WordOn(states, w, b, i, f, v) => WordOn(states', w, b, i, f, v)
      /\ \A kind : m.id # i => (Carries(states', kind, i) <=> Carries(states, kind, i))
  BY <1>1, StateKept
<1>3. UNCHANGED <<phase, deleting, listed, renaming, wire, view, response, since, link>>
  BY DEF ChangeState, managerVars, fetchVars
<1>4. Ordered(i) /\ Learnt(i)
  BY <1>2 DEF LearnInv
<1>5. Coming(i)' <=> Coming(i)
  BY <1>2, <1>3 DEF Coming
<1>6. CASE i # j
  <2>1. info'[i] = info[i]
    BY <1>0, <1>6 DEF ChangeState, ActorTyped
  <2>2. ~SaysOf(m, i, "state") /\ (Stateless(i)' <=> Stateless(i))
    BY <1>1, <1>2, <1>3, <1>6 DEF SaysOf, Stateless
  <2>3. \A b : Learns(i, b) => Learns(i, b)'
    BY <1>2, <1>3, <1>5, <2>1, <2>2 DEF Learns, Presence
  <2>4. Learnt(i)'
    BY <1>3, <1>4, <2>3 DEF Learnt
  <2>5. Ordered(i)'
    BY <1>3, <1>4, <1>5, <2>1, <2>2 DEF Ordered
  <2> QED BY <2>4, <2>5
<1>7. CASE i = j
  <2>1. info'[i].custom = info[i].custom /\ info'[i].state = info[i].state + 1
    BY <1>0, <1>7 DEF ChangeState, ActorTyped, Info
  <2>2. ~Coming(i) /\ ~Creating(i)
    BY <1>1, <1>2, <1>7 DEF Untold, Coming, Carries
  <2>3. phase[i] = "done"
    BY <1>7, <2>2 DEF ChangeState, Running, Creating, LifeInv
  <2>4. Ordered(i)'
    BY <1>3, <1>4, <1>5, <2>1, <2>2, <2>3 DEF Ordered
  <2>5. ASSUME link # "off", NEW b, Learns(i, b)
        PROVE  Learns(i, b)'
    <3>1. link \in {"half", "on"}
      BY <1>1, <1>2, <1>7, <2>5 DEF ListTypeOK
    <3>2. SaysOf(m, i, "state") /\ Agrees(m, i, "state", info'[i].state)
      BY <1>1, <1>7, <2>1 DEF SaysOf, Sayers, Agrees
    <3> QED BY <1>2, <1>3, <2>1, <2>5, <3>1, <3>2 DEF Learns, Presence
  <2>6. Learnt(i)'
    BY <1>3, <1>4, <2>5 DEF Learnt
  <2> QED BY <2>4, <2>6
<1> QED BY <1>6, <1>7

\* The client's connection.
LEMMA ConnectNext ==
    ASSUME ListTypeOK, LifeInv, FreshInv, NewsInv, LearnInv, Connect, NEW i \in Instances, i \notin torn'
    PROVE  Ordered(i)' /\ Learnt(i)'
<1> DEFINE m == [kind |-> "list", list |-> List]
<1>0. ManagerTyped /\ ActorTyped
  BY ListParts
<1>1. wire' = <<m>> /\ UNCHANGED <<phase, deleting, listed, info, renaming, life, states, view, response, since>>
  BY DEF Connect, managerVars, actorVars, channelVars, fetchVars
<1>2. life = <<>> /\ states = <<>>
  BY DEF NewsInv, Connect
<1>3. m.kind = "list" /\ m.list = List
  OBVIOUS
<1> HIDE DEF m
<1>4. Len(wire') = 1 /\ wire'[1] = m /\ DOMAIN wire' = 1..1
  BY <1>1
<1>5. HasList(wire')
  BY <1>3, <1>4 DEF HasList
<1>6. \A kind : kind # "list" => ~Carries(wire', kind, i)
  BY <1>3, <1>4 DEF Carries
<1>7. ~Coming(i)' /\ Stateless(i)'
  BY <1>1, <1>2, <1>6, EmptyOn DEF Coming, Stateless
<1>8. \A f, v : Fits(List, i, f, v) => LastOn(wire', i, f, v)
  BY <1>3, <1>4 DEF LastOn, SaysOf, Agrees
<1>9. \A b, f, v : Fits(List, i, f, v) => WordOn(<<>>, wire', b, i, f, v)
  BY <1>8, EmptyOn DEF WordOn
<1>10. \A b : Learns(i, b)'
  BY <1>1, <1>2, <1>9, ListFits DEF Learns, Presence
<1>11. Learnt(i)'
  BY <1>1, <1>5, <1>10 DEF Learnt
<1>12. Ordered(i)'
  <2>1. ~Busy(i) \/ (i \notin torn /\ info[i] = Fresh)
    BY DEF Connect
  <2>2. CASE ~Busy(i)
    <3>1. phase[i] \in {"none", "failed", "done"} /\ deleting[i] = "none" /\ renaming[i] = {}
      BY <1>0, <2>2 DEF Busy, Creating, ManagerTyped
    <3>2. phase[i] # "done" => info[i] = Fresh
      BY <3>1 DEF FreshInv
    <3> QED BY <1>1, <1>7, <3>1, <3>2 DEF Ordered
  <2>3. CASE i \notin torn
    <3>1. Ordered(i)
      BY <2>3 DEF LearnInv
    <3> QED BY <1>1, <1>7, <3>1 DEF Ordered
  <2> QED BY <2>1, <2>2, <2>3
<1> QED BY <1>11, <1>12

LEMMA SubscribeNext ==
    ASSUME LearnInv, SubscribeStates \/ SubscribeLife \/ UNCHANGED listVars, NEW i \in Instances, i \notin torn'
    PROVE  Ordered(i)' /\ Learnt(i)'
<1>1. UNCHANGED <<phase, deleting, listed, info, renaming, life, states, wire, view, response, since, torn>> /\ (link' # "off" => link # "off")
  BY DEF SubscribeStates, SubscribeLife, listVars, managerVars, actorVars, channelVars, fetchVars
<1>2. Ordered(i) /\ Learnt(i)
  BY <1>1 DEF LearnInv
<1>3. Learnt(i)'
  BY <1>1, <1>2, QuietLearnt
<1>4. Ordered(i)'
  BY <1>1, <1>2 DEF Ordered, Stateless, Coming
<1> QED BY <1>3, <1>4

LEMMA DisconnectNext ==
    ASSUME LearnInv, Disconnect, NEW i \in Instances, i \notin torn'
    PROVE  Ordered(i)' /\ Learnt(i)'
<1>1. UNCHANGED <<phase, deleting, listed, info, renaming, torn>> /\ wire' = <<>> /\ life' = <<>> /\ states' = <<>> /\ link' = "off"
  BY DEF Disconnect, managerVars, actorVars
<1>2. Ordered(i)
  BY <1>1 DEF LearnInv
<1>3. ~Coming(i)' /\ Stateless(i)'
  BY <1>1, EmptyOn DEF Coming, Stateless
<1>4. Ordered(i)'
  BY <1>1, <1>2, <1>3 DEF Ordered
<1> QED BY <1>1, <1>4 DEF Learnt

LEMMA ForwardLifeNext ==
    ASSUME ListTypeOK, LearnInv, ForwardLife, NEW i \in Instances, i \notin torn'
    PROVE  Ordered(i)' /\ Learnt(i)'
<1> DEFINE m == Head(life)
<1>1. /\ UNCHANGED <<phase, deleting, listed, info, renaming, states, view, response, since, link, torn>>
      /\ life # <<>> /\ life' = Tail(life) /\ wire' = Append(wire, m)
      /\ life \in Seq(LifeMessages) /\ wire \in Seq(Messages) /\ m \in LifeMessages /\ m \in Messages
  BY DEF ForwardLife, managerVars, actorVars, fetchVars, ListTypeOK, Messages
<1>2. m.kind \in {"created", "stopped", "renamed"}
  BY <1>1 DEF LifeMessages
<1>3. Ordered(i) /\ Learnt(i)
  BY <1>1 DEF LearnInv
<1>4. \A kind : /\ Carries(wire', kind, i) <=> Carries(wire, kind, i) \/ (m.kind = kind /\ m.id = i)
                /\ Carries(life, kind, i) <=> Carries(life', kind, i) \/ (m.kind = kind /\ m.id = i)
  BY <1>1, CarriesOn
<1>5. HasList(wire') <=> HasList(wire)
  BY <1>1, <1>2, HasListOn
<1>6. \A b, f, v : WordOn(life, wire, b, i, f, v) => WordOn(life', wire', b, i, f, v)
  BY <1>1, ForwardWord
<1>7. ~SaysOf(m, i, "state")
  BY <1>2 DEF SaysOf, Sayers
<1>8. \A b, v : WordOn(states, wire, b, i, "state", v) => WordOn(states, wire', b, i, "state", v)
  BY <1>1, <1>7, JoinWord
<1> HIDE DEF m
<1>9. (Coming(i)' <=> Coming(i)) /\ (Stateless(i)' <=> Stateless(i))
  BY <1>1, <1>2, <1>4 DEF Coming, Stateless
<1>10. \A b : Learns(i, b) => Learns(i, b)'
  BY <1>1, <1>6, <1>8, <1>9 DEF Learns, Presence
<1>11. Learnt(i)'
  BY <1>1, <1>3, <1>5, <1>10 DEF Learnt
<1>12. Ordered(i)'
  BY <1>1, <1>3, <1>9 DEF Ordered
<1> QED BY <1>11, <1>12

LEMMA ForwardStateNext ==
    ASSUME ListTypeOK, LearnInv, ForwardState, NEW i \in Instances, i \notin torn'
    PROVE  Ordered(i)' /\ Learnt(i)'
<1> DEFINE m == Head(states)
<1>1. /\ UNCHANGED <<phase, deleting, listed, info, renaming, life, view, response, since, link, torn>>
      /\ states # <<>> /\ states' = Tail(states) /\ wire' = Append(wire, m)
      /\ states \in Seq(StateMessages) /\ wire \in Seq(Messages) /\ m \in StateMessages /\ m \in Messages
  BY DEF ForwardState, managerVars, actorVars, fetchVars, ListTypeOK, Messages
<1>2. m.kind = "state"
  BY <1>1 DEF StateMessages
<1>3. Ordered(i) /\ Learnt(i)
  BY <1>1 DEF LearnInv
<1>4. \A kind : /\ Carries(wire', kind, i) <=> Carries(wire, kind, i) \/ (m.kind = kind /\ m.id = i)
                /\ Carries(states, kind, i) <=> Carries(states', kind, i) \/ (m.kind = kind /\ m.id = i)
  BY <1>1, CarriesOn
<1>5. HasList(wire') <=> HasList(wire)
  BY <1>1, <1>2, HasListOn
<1>6. \A b, f, v : WordOn(states, wire, b, i, f, v) => WordOn(states', wire', b, i, f, v)
  BY <1>1, ForwardWord
<1>7. ~SaysOf(m, i, "presence") /\ ~SaysOf(m, i, "custom")
  BY <1>2 DEF SaysOf, Sayers
<1>8. \A b, v : /\ WordOn(life, wire, b, i, "presence", v) => WordOn(life, wire', b, i, "presence", v)
                /\ WordOn(life, wire, b, i, "custom", v) => WordOn(life, wire', b, i, "custom", v)
  BY <1>1, <1>7, JoinWord
<1> HIDE DEF m
<1>9. (Coming(i)' <=> Coming(i)) /\ (Stateless(i)' <=> Stateless(i))
  BY <1>1, <1>2, <1>4 DEF Coming, Stateless
<1>10. \A b : Learns(i, b) => Learns(i, b)'
  BY <1>1, <1>6, <1>8, <1>9 DEF Learns, Presence
<1>11. Learnt(i)'
  BY <1>1, <1>3, <1>5, <1>10 DEF Learnt
<1>12. Ordered(i)'
  BY <1>1, <1>3, <1>9 DEF Ordered
<1> QED BY <1>11, <1>12

\* What the client does.
LEMMA DeliverNext ==
    ASSUME ListTypeOK, NewsInv, LearnInv, Deliver, NEW i \in Instances, i \notin torn'
    PROVE  Ordered(i)' /\ Learnt(i)'
<1> DEFINE m == Head(wire)
<1>1. /\ UNCHANGED <<phase, deleting, listed, info, renaming, life, states, response, link, torn>>
      /\ wire # <<>> /\ wire' = Tail(wire) /\ view' = Updated(m)
      /\ since' = IF response = <<>> THEN {} ELSE since \cup About(m)
      /\ wire \in Seq(Messages) /\ m \in Messages /\ view \in Lists
  BY DEF Deliver, managerVars, actorVars, channelVars, ListTypeOK
<1>2. m.kind = "created" => m.info = Fresh /\ ~HasList(wire)
  <2>1. 1 \in DOMAIN wire /\ wire[1] = m
    BY <1>1
  <2> QED BY <2>1 DEF NewsInv, HasList
<1>3. Ordered(i) /\ Learnt(i)
  BY <1>1 DEF LearnInv
<1>4. \A kind : Carries(wire, kind, i) <=> Carries(wire', kind, i) \/ (m.kind = kind /\ m.id = i)
  BY <1>1, CarriesOn
<1>5. m.kind # "list" /\ HasList(wire) => HasList(wire')
  BY <1>1, HasListOn
<1>6. \A b, f, v : ~SaysOf(m, i, f) /\ WordOn(life, wire, b, i, f, v) => WordOn(life, wire', b, i, f, v)
  BY <1>1, ReadWord
<1>7. \A b, f, v : ~SaysOf(m, i, f) /\ WordOn(states, wire, b, i, f, v) => WordOn(states, wire', b, i, f, v)
  BY <1>1, ReadWord
<1>8. ASSUME NEW q, NEW f \in {"presence", "custom", "state"}, NEW v, WordOn(q, wire, view, i, f, v),
             ~(f = "state" /\ m.kind = "created" /\ m.id = i)
      PROVE  WordOn(q, wire', view', i, f, v)
  <2>1. /\ SaysOf(m, i, f) /\ Agrees(m, i, f, v) => Fits(Updated(m), i, f, v)
        /\ ~SaysOf(m, i, f) /\ Fits(view, i, f, v) => Fits(Updated(m), i, f, v)
    BY <1>1, <1>8, UpdatedFits
  <2> QED BY <1>1, <1>8, <2>1, ReadWord
<1>9. SilentOn(wire, i, "state") => SilentOn(wire', i, "state")
  BY <1>1, TailOn
<1> HIDE DEF m
<1>10. (Coming(i)' => Coming(i)) /\ (Stateless(i) => Stateless(i)') /\ (~(m.kind = "created" /\ m.id = i) => (Coming(i)' <=> Coming(i)))
  BY <1>1, <1>4 DEF Coming, Stateless
<1>11. ASSUME link # "off"
       PROVE  Learns(i, view)'
  <2>1. phase[i] \notin {"stored", "found"} /\ deleting[i] # "stopped" => WordOn(life, wire', view', i, "presence", Presence(i))
    BY <1>3, <1>8, <1>11 DEF Learnt, Learns
  <2>2. renaming[i] = {} => WordOn(life, wire', view', i, "custom", info[i].custom)
    BY <1>3, <1>8, <1>11 DEF Learnt, Learns
  <2>3. ASSUME ~Coming(i)'
        PROVE  WordOn(states, wire', view', i, "state", info[i].state)
    <3>1. CASE m.kind = "created" /\ m.id = i
      <4>1. Coming(i)
        BY <1>4, <3>1 DEF Coming
      <4>2. info[i].state = 0 /\ Stateless(i)
        BY <1>3, <4>1 DEF Ordered
      <4>3. SilentOn(states, i, "state")
        <5>1. \A k \in DOMAIN states : states[k] \in StateMessages
          BY DEF ListTypeOK
        <5> QED BY <4>2, <5>1 DEF SilentOn, SaysOf, Sayers, Stateless, Carries, StateMessages
      <4>4. SilentOn(wire, i, "state")
        BY <1>2, <3>1, <4>2 DEF SilentOn, SaysOf, Sayers, Stateless, Carries, HasList
      <4>5. Fits(view', i, "state", 0)
        <5>1. view' = [h \in DOMAIN view \cup {i} |-> IF h = i THEN Fresh ELSE view[h]]
          BY <1>1, <1>2, <3>1 DEF Updated
        <5> QED BY <5>1 DEF Fits, Fresh
      <4> QED BY <1>9, <4>2, <4>3, <4>4, <4>5 DEF WordOn
    <3>2. CASE ~(m.kind = "created" /\ m.id = i)
      BY <1>3, <1>8, <1>10, <1>11, <2>3, <3>2 DEF Learnt, Learns
    <3> QED BY <3>1, <3>2
  <2> QED BY <1>1, <2>1, <2>2, <2>3 DEF Learns, Presence
<1>12. ASSUME link # "off", ~HasList(wire'), i \notin since', NEW k \in DOMAIN response
       PROVE  Learns(i, response[k])'
  <2>1. response # <<>> /\ i \notin since /\ i \notin About(m)
    BY <1>1, <1>12
  <2>2. m.kind # "list" /\ m.id # i
    BY <2>1 DEF About
  <2>3. Learns(i, response[k])
    BY <1>3, <1>5, <1>12, <2>1, <2>2 DEF Learnt
  <2>4. \A f : ~SaysOf(m, i, f)
    BY <2>2 DEF SaysOf
  <2> QED BY <1>1, <1>6, <1>7, <1>10, <2>2, <2>3, <2>4 DEF Learns, Presence
<1>13. Learnt(i)'
  BY <1>1, <1>11, <1>12 DEF Learnt
<1>14. Ordered(i)'
  BY <1>1, <1>3, <1>10 DEF Ordered
<1> QED BY <1>13, <1>14

LEMMA FetchNext ==
    ASSUME ListTypeOK, LearnInv, Fetch, NEW i \in Instances, i \notin torn'
    PROVE  Ordered(i)' /\ Learnt(i)'
<1>1. UNCHANGED <<phase, deleting, listed, info, renaming, life, states, link, since, wire, view, torn>> /\ response' = <<List>>
  BY DEF Fetch, managerVars, actorVars, channelVars
<1>2. Ordered(i) /\ Learnt(i)
  BY <1>1 DEF LearnInv
<1>3. (Coming(i)' <=> Coming(i)) /\ (Stateless(i)' <=> Stateless(i))
  BY <1>1 DEF Coming, Stateless
<1>4. \A b : Learns(i, b) => Learns(i, b)'
  BY <1>1, <1>3 DEF Learns, Presence
<1>5. \A q, f, v : WordOn(q, wire, view, i, f, v) /\ Fits(List, i, f, v) => WordOn(q, wire, List, i, f, v)
  BY DEF WordOn
<1>6. Learns(i, view) => Learns(i, List)
  BY <1>5, ListFits DEF Learns
<1>7. ASSUME link # "off", NEW k \in DOMAIN response'
      PROVE  Learns(i, response[k])'
  <2>1. Learns(i, List)
    BY <1>2, <1>6, <1>7 DEF Learnt
  <2>2. response'[k] = List
    BY <1>1, <1>7
  <2> QED BY <1>1, <1>3, <2>1, <2>2 DEF Learns, Presence
<1>8. Learnt(i)'
  BY <1>1, <1>2, <1>4, <1>7 DEF Learnt
<1>9. Ordered(i)'
  BY <1>1, <1>2, <1>3 DEF Ordered
<1> QED BY <1>8, <1>9

LEMMA FetchedNext ==
    ASSUME ListTypeOK, LearnInv, Fetched, NEW i \in Instances, i \notin torn'
    PROVE  Ordered(i)' /\ Learnt(i)'
<1>1. /\ UNCHANGED <<phase, deleting, listed, info, renaming, life, states, link, wire>>
      /\ response \in Seq(Lists) /\ response # <<>> /\ response' = <<>> /\ view' = Head(response) /\ torn' = torn \cup since
  BY DEF Fetched, managerVars, actorVars, channelVars, ListTypeOK
<1>2. i \notin since /\ Ordered(i) /\ Learnt(i)
  BY <1>1 DEF LearnInv
<1>3. (Coming(i)' <=> Coming(i)) /\ (Stateless(i)' <=> Stateless(i))
  BY <1>1 DEF Coming, Stateless
<1>4. 1 \in DOMAIN response /\ view' = response[1]
  BY <1>1
<1>5. ASSUME link # "off"
      PROVE  Learns(i, response[1])
  <2>1. CASE HasList(wire)
    <3>1. \A q, b, c, f, v : WordOn(q, wire, b, i, f, v) => WordOn(q, wire, c, i, f, v)
      BY <2>1, ListWord
    <3> QED BY <1>2, <1>5, <3>1 DEF Learnt, Learns
  <2>2. CASE ~HasList(wire)
    BY <1>2, <1>4, <1>5, <2>2 DEF Learnt
  <2> QED BY <2>1, <2>2
<1>6. link # "off" => Learns(i, view)'
  BY <1>1, <1>3, <1>4, <1>5 DEF Learns, Presence
<1>7. Learnt(i)'
  BY <1>1, <1>6 DEF Learnt
<1>8. Ordered(i)'
  BY <1>1, <1>2, <1>3 DEF Ordered
<1> QED BY <1>7, <1>8

\* What is in the queues.
LEMMA NewsNext == ListTypeOK /\ NewsInv /\ [ListNext]_listVars => NewsInv'
<1> SUFFICES ASSUME ListTypeOK, NewsInv, [ListNext]_listVars PROVE NewsInv'
  OBVIOUS
<1> DEFINE Plain(w) == \A k \in DOMAIN w : w[k].kind = "created" => w[k].info = Fresh
<1> DEFINE First(w) == \A k \in DOMAIN w : w[k].kind = "list" => k = 1
<1>1. ASSUME NEW S, NEW q \in Seq(S), Plain(q), NEW m \in S, m.kind = "created" => m.info = Fresh
      PROVE  Plain(Append(q, m))
  <2> DEFINE r == Append(q, m)
  <2>1. DOMAIN r = 1..(Len(q) + 1) /\ DOMAIN q = 1..Len(q) /\ Len(q) \in Nat /\ r[Len(q) + 1] = m /\ \A k \in 1..Len(q) : r[k] = q[k]
    OBVIOUS
  <2> HIDE DEF r
  <2>2. \A k \in DOMAIN r : k = Len(q) + 1 \/ k \in 1..Len(q)
    BY <2>1
  <2>3. Plain(r)
    BY <1>1, <2>1, <2>2
  <2> QED BY <2>3 DEF r
<1>2. ASSUME NEW S, NEW q \in Seq(S), q # <<>>, Plain(q)
      PROVE  Plain(Tail(q)) /\ (Head(q).kind = "created" => Head(q).info = Fresh)
  <2> DEFINE r == Tail(q)
  <2>1. Len(q) \in Nat /\ Len(r) = Len(q) - 1 /\ DOMAIN q = 1..Len(q) /\ DOMAIN r = 1..Len(r) /\ Head(q) = q[1] /\ 1 \in DOMAIN q
        /\ \A k \in 1..Len(r) : r[k] = q[k + 1]
    BY <1>2
  <2> HIDE DEF r
  <2>2. \A k \in DOMAIN r : k + 1 \in DOMAIN q
    BY <2>1
  <2>3. Plain(r) /\ (Head(q).kind = "created" => Head(q).info = Fresh)
    BY <1>2, <2>1, <2>2
  <2> QED BY <2>3 DEF r
<1>3. ASSUME NEW S, NEW q \in Seq(S), First(q), NEW m \in S, m.kind # "list"
      PROVE  First(Append(q, m))
  <2> DEFINE r == Append(q, m)
  <2>1. DOMAIN r = 1..(Len(q) + 1) /\ DOMAIN q = 1..Len(q) /\ Len(q) \in Nat /\ r[Len(q) + 1] = m /\ \A k \in 1..Len(q) : r[k] = q[k]
    OBVIOUS
  <2> HIDE DEF r
  <2>2. \A k \in DOMAIN r : k = Len(q) + 1 \/ k \in 1..Len(q)
    BY <2>1
  <2>3. First(r)
    BY <1>3, <2>1, <2>2
  <2> QED BY <2>3 DEF r
<1>4. ASSUME NEW S, NEW q \in Seq(S), q # <<>>, First(q)
      PROVE  First(Tail(q))
  <2> DEFINE r == Tail(q)
  <2>1. Len(q) \in Nat /\ Len(r) = Len(q) - 1 /\ DOMAIN q = 1..Len(q) /\ DOMAIN r = 1..Len(r) /\ \A k \in 1..Len(r) : r[k] = q[k + 1]
    BY <1>4
  <2> HIDE DEF r
  <2>2. \A k \in DOMAIN r : k + 1 \in DOMAIN q /\ k + 1 # 1
    BY <2>1
  <2>3. First(r)
    BY <1>4, <2>1, <2>2
  <2> QED BY <2>3 DEF r
<1>0. /\ First(wire) /\ Plain(wire) /\ Plain(life)
      /\ (link # "on" => life = <<>>) /\ (link \in {"off", "listed"} => states = <<>>) /\ (link = "off" => wire = <<>>)
      /\ wire \in Seq(Messages) /\ life \in Seq(LifeMessages) /\ states \in Seq(StateMessages) /\ link \in {"off", "listed", "half", "on"}
  BY DEF NewsInv, ListTypeOK
<1> SUFFICES /\ First(wire') /\ Plain(wire') /\ Plain(life')
             /\ (link' # "on" => life' = <<>>) /\ (link' \in {"off", "listed"} => states' = <<>>) /\ (link' = "off" => wire' = <<>>)
  BY DEF NewsInv
<1>5. Plain(<<>>) /\ First(<<>>)
  OBVIOUS
<1> HIDE DEF Plain, First
<1>6. ASSUME NEW m \in LifeMessages, m.kind = "created" => m.info = Fresh
      PROVE  Plain(Kept(life, LifeCap, m))
  <2>1. CASE Len(life) < LifeCap
    <3>1. Plain(Append(life, m))
      BY <1>0, <1>1, <1>6
    <3> QED BY <2>1, <3>1 DEF Kept
  <2>2. CASE ~(Len(life) < LifeCap)
    <3>1. life # <<>>
      BY <1>0, <2>2
    <3>2. Tail(life) \in Seq(LifeMessages) /\ Plain(Tail(life))
      BY <1>0, <1>2, <3>1
    <3>3. Plain(Append(Tail(life), m))
      BY <1>1, <1>6, <3>2
    <3> QED BY <2>2, <3>3 DEF Kept
  <2> QED BY <2>1, <2>2
<1>7. ASSUME NEW i \in Instances, Announce(i) \/ Delete(i) \/ Renamed(i)
      PROVE  Plain(life') /\ (link # "on" => life' = life) /\ UNCHANGED <<states, link, wire>>
  <2>0. info[i] \in Info
    BY DEF ListTypeOK
  <2>1. \E m \in LifeMessages : TellLife(m) /\ (m.kind = "created" => m.info = Fresh)
    <3>1. CASE Announce(i)
      <4>1. [kind |-> "created", id |-> i, info |-> Fresh] \in LifeMessages
        BY DEF LifeMessages, Fresh, Info
      <4> QED BY <3>1, <4>1 DEF Announce
    <3>2. CASE Delete(i)
      <4>1. News("stopped", i) \in LifeMessages /\ News("stopped", i).kind = "stopped"
        BY <2>0 DEF LifeMessages, News
      <4> QED BY <3>2, <4>1 DEF Delete, Stopped
    <3>3. CASE Renamed(i)
      <4>1. PICK c \in renaming[i] : TellLife([kind |-> "renamed", id |-> i, info |-> [Fresh EXCEPT !.custom = c]])
        BY <3>3 DEF Renamed
      <4>2. c \in 1..MaxRenames
        BY DEF ListTypeOK
      <4>3. [Fresh EXCEPT !.custom = c] \in Info
        BY <4>2 DEF Fresh, Info
      <4>4. [kind |-> "renamed", id |-> i, info |-> [Fresh EXCEPT !.custom = c]] \in LifeMessages
        BY <4>3 DEF LifeMessages
      <4> QED BY <4>1, <4>4
    <3> QED BY <1>7, <3>1, <3>2, <3>3
  <2>2. PICK m \in LifeMessages : TellLife(m) /\ (m.kind = "created" => m.info = Fresh)
    BY <2>1
  <2>3. Plain(life') /\ (link # "on" => life' = life) /\ UNCHANGED states
    BY <1>0, <1>6, <2>2 DEF TellLife
  <2>4. UNCHANGED <<link, wire>>
    BY <1>7 DEF Announce, Delete, Renamed
  <2> QED BY <2>3, <2>4
<1>8. ASSUME NEW i \in Instances, ChangeState(i)
      PROVE  UNCHANGED <<life, link, wire>> /\ (link \in {"off", "listed"} => states' = states)
  BY <1>8 DEF ChangeState, TellState
<1>9. ASSUME NEW i \in Instances,
             Provide(i) \/ Generate(i) \/ Spawn(i) \/ SpawnFails(i) \/ Store(i) \/ Find(i)
             \/ Unregister(i) \/ StopInstance(i) \/ SetName(i)
      PROVE  UNCHANGED <<life, states, link, wire>>
  BY <1>9 DEF Provide, Generate, Reserve, Spawn, SpawnFails, Store, Find, Unregister, StopInstance, SetName, channelVars
<1>10. CASE Connect
  <2>1. life' = life /\ states' = states /\ link' = "listed" /\ link = "off" /\ \E l : wire' = <<[kind |-> "list", list |-> l]>>
    BY <1>10 DEF Connect, channelVars
  <2>2. DOMAIN wire' = 1..1 /\ wire'[1].kind = "list"
    BY <2>1
  <2>3. First(wire') /\ Plain(wire')
    BY <2>2 DEF First, Plain
  <2> QED BY <1>0, <2>1, <2>3
<1>11. CASE SubscribeStates \/ SubscribeLife
  BY <1>0, <1>11 DEF SubscribeStates, SubscribeLife, channelVars
<1>12. CASE ForwardLife
  <2>1. /\ link = "on" /\ life # <<>> /\ wire' = Append(wire, Head(life)) /\ life' = Tail(life) /\ UNCHANGED <<states, link>>
        /\ Head(life) \in LifeMessages
    BY <1>0, <1>12 DEF ForwardLife
  <2>2. Head(life) \in Messages /\ Head(life).kind # "list"
    BY <2>1 DEF LifeMessages, Messages
  <2>3. Plain(life') /\ (Head(life).kind = "created" => Head(life).info = Fresh)
    BY <1>0, <1>2, <2>1
  <2>4. Plain(wire')
    BY <1>0, <1>1, <2>1, <2>2, <2>3
  <2>5. First(wire')
    BY <1>0, <1>3, <2>1, <2>2
  <2> QED BY <1>0, <2>1, <2>3, <2>4, <2>5
<1>13. CASE ForwardState
  <2>1. /\ link = "on" /\ wire' = Append(wire, Head(states)) /\ UNCHANGED <<life, link>>
        /\ Head(states) \in StateMessages
    BY <1>0, <1>13 DEF ForwardState
  <2>2. Head(states) \in Messages /\ Head(states).kind = "state"
    BY <2>1 DEF StateMessages, Messages
  <2>3. Plain(wire')
    BY <1>0, <1>1, <2>1, <2>2
  <2>4. First(wire')
    BY <1>0, <1>3, <2>1, <2>2
  <2> QED BY <1>0, <2>1, <2>3, <2>4
<1>14. CASE Disconnect
  BY <1>5, <1>14 DEF Disconnect
<1>15. CASE Deliver
  <2>1. wire # <<>> /\ wire' = Tail(wire) /\ UNCHANGED <<life, states, link>>
    BY <1>15 DEF Deliver, channelVars
  <2>2. Plain(wire') /\ First(wire')
    BY <1>0, <1>2, <1>4, <2>1
  <2> QED BY <1>0, <2>1, <2>2
<1>16. CASE Fetch \/ Fetched \/ UNCHANGED listVars
  BY <1>0, <1>16 DEF Fetch, Fetched, channelVars, listVars
<1>17. \A i \in Instances :
           Provide(i) \/ Generate(i) \/ Spawn(i) \/ SpawnFails(i) \/ Store(i) \/ Find(i) \/ Announce(i)
           \/ Unregister(i) \/ StopInstance(i) \/ Delete(i) \/ SetName(i) \/ Renamed(i) \/ ChangeState(i)
               => /\ First(wire') /\ Plain(wire') /\ Plain(life')
                  /\ (link' # "on" => life' = <<>>) /\ (link' \in {"off", "listed"} => states' = <<>>) /\ (link' = "off" => wire' = <<>>)
  BY <1>0, <1>7, <1>8, <1>9
<1> QED BY <1>10, <1>11, <1>12, <1>13, <1>14, <1>15, <1>16, <1>17 DEF ListNext

\* What the client will learn, whatever step is taken.
LEMMA LearnNext ==
    ListTypeOK /\ LifeInv /\ FreshInv /\ NewsInv /\ LearnInv /\ [ListNext]_listVars => LearnInv'
<1> SUFFICES ASSUME ListTypeOK, LifeInv, FreshInv, NewsInv, LearnInv, [ListNext]_listVars, NEW i \in Instances, i \notin torn'
             PROVE  Ordered(i)' /\ Learnt(i)'
  BY DEF LearnInv
<1> QED BY QuietNext, TellNext, ChangeNext, ConnectNext, SubscribeNext, DisconnectNext, ForwardLifeNext, ForwardStateNext,
           DeliverNext, FetchNext, FetchedNext DEF ListNext

\* Once nothing is on its way the client's list says of every instance what the
\* server says, unless it is torn: whatever the order in which requests, the two
\* channels, lags, reconnections and fetched lists follow one another.
THEOREM ListInStepCorrect == ListSpec => []ListInStep
<1>1. ListTypeOK /\ LearnInv => ListInStep
  <2> SUFFICES ASSUME ListTypeOK, LearnInv, Settled, NEW i \in Instances, i \notin torn, ~Busy(i) PROVE Shows(i)
    BY DEF ListInStep
  <2>1. Learns(i, view) /\ wire = <<>> /\ life = <<>> /\ states = <<>>
    BY DEF LearnInv, Learnt, Settled
  <2>2. phase[i] \notin {"stored", "found"} /\ deleting[i] = "none" /\ renaming[i] = {} /\ ~Coming(i)
    BY <2>1, EmptyOn DEF Busy, Creating, Coming
  <2>3. /\ Fits(view, i, "presence", Presence(i))
        /\ Fits(view, i, "custom", info[i].custom)
        /\ Fits(view, i, "state", info[i].state)
    BY <2>1, <2>2, EmptyOn DEF Learns, WordOn
  <2>4. i \in DOMAIN view <=> i \in listed
    BY <2>3 DEF Fits, Presence
  <2>5. ASSUME i \in DOMAIN view
        PROVE  view[i] = info[i]
    <3>1. view[i].custom = info[i].custom /\ view[i].state = info[i].state
      BY <2>3, <2>5 DEF Fits
    <3>2. view[i] \in Info /\ info[i] \in Info
      BY <2>5 DEF ListTypeOK, Lists
    <3> QED BY <3>1, <3>2 DEF Info
  <2> QED BY <2>4, <2>5 DEF Shows
<1>2. ListTypeOK /\ LifeInv /\ [ListNext]_listVars /\ FreshInv /\ NewsInv /\ LearnInv => FreshInv' /\ NewsInv' /\ LearnInv'
  BY FreshNext, NewsNext, LearnNext
<1> QED BY <1>1, <1>2, NewsInit, ListTypeCorrect, LifeCorrect, PTL DEF ListSpec

-----------------------------------------------------------------------------
(* The history of a session, for every length of its log, every number of      *)
(* tracking tasks, of failures and of stops of the server.                     *)

USE HistoryBoundAssumption

\* The parts of the type invariant: log, trackers, database and import.
TrackerRecords == [phase : {"none", "on", "full", "writing", "ended"}, conv : Convs,
                   polled : Logs, pending : SUBSET Entries]
TrackTyped ==
    /\ tracker \in [Trackers -> TrackerRecords]
    /\ buffer \in Seq(Entries)
    /\ writing \in [Writers -> Seq(Entries)]
DbTyped ==
    /\ convs \in Seq(0..(2 * MaxTurns) \cup {NoStamp}) /\ Len(convs) <= MaxConvs
    /\ DOMAIN stored \subseteq Turns /\ \A t \in DOMAIN stored : stored[t] \in Rows
ImportRecords ==
    [phase : {"none", "stat", "new", "stale", "deleted", "loaded", "reloaded", "created", "refilled"},
     stamp : 0..(2 * MaxTurns), turns : 0..MaxTurns, conv : Convs, read : Logs]
ImportTyped ==
    /\ imp \in ImportRecords
    /\ imported \in 0..MaxTurns
    /\ cut \in BOOLEAN

LEMMA HistoryParts ==
    /\ HistoryTypeOK <=> log \in Logs /\ TrackTyped /\ DbTyped /\ ImportTyped
    /\ HistoryTypeOK' <=> (log \in Logs)' /\ TrackTyped' /\ DbTyped' /\ ImportTyped'
  BY DEF HistoryTypeOK, TrackTyped, DbTyped, ImportTyped, TrackerRecords, ImportRecords

\* A task that tracks, and an import that writes, have their conversation, and a
\* task with a batch to write is writing.
TrackerHas(t) == tracker[t].phase \in {"on", "full", "writing"} => tracker[t].conv \in 1..MaxConvs
WriterHas(t) == writing[t] # <<>> => tracker[t].phase = "writing"
ConvInv ==
    /\ \A t \in Trackers : TrackerHas(t) /\ WriterHas(t)
    /\ imp.phase \in {"stale", "deleted", "reloaded", "created", "refilled"} => imp.conv \in 1..MaxConvs

\* The stamp of a log is bounded.
LEMMA StampTyped ==
    ASSUME NEW l \in Logs
    PROVE  /\ IsFiniteSet(l.answered)
           /\ Cardinality(l.answered) \in 0..l.turns
           /\ Stamp(l) \in 0..(2 * MaxTurns)
           /\ Stamp(l) = l.turns + Cardinality(l.answered)
<1>1. l.turns \in 0..MaxTurns /\ l.answered \in SUBSET (1..l.turns)
  BY DEF Logs
<1>2. IsFiniteSet(1..l.turns) /\ Cardinality(1..l.turns) = l.turns
  <2>1. 1 \in Int /\ l.turns \in Int
    BY <1>1
  <2>2. IsFiniteSet(1..l.turns) /\ Cardinality(1..l.turns) = IF 1 > l.turns THEN 0 ELSE l.turns - 1 + 1
    BY <2>1, FS_Interval
  <2> QED
    BY <1>1, <2>2
<1>3. IsFiniteSet(l.answered) /\ Cardinality(l.answered) <= l.turns
  BY <1>1, <1>2, FS_Subset
<1>4. Cardinality(l.answered) \in Nat
  BY <1>3, FS_CardinalityType
<1> QED
  BY <1>1, <1>3, <1>4 DEF Stamp

\* The log only grows, and so does its stamp.
LEMMA LogGrows ==
    ASSUME log \in Logs, LogTurn \/ LogAnswer
    PROVE  /\ log' \in Logs
           /\ Stamp(log)' = Stamp(log) + 1
           /\ log'.turns >= log.turns
<1>0. log.turns \in 0..MaxTurns /\ log.answered \subseteq 1..log.turns /\ log.answered \subseteq Turns
  BY DEF Logs, Turns
<1>1. CASE LogTurn
  <2>1. log'.turns = log.turns + 1 /\ log'.answered = log.answered /\ log.turns < MaxTurns
    BY <1>1 DEF LogTurn, Logs
  <2>2. log' = [turns |-> log.turns + 1, answered |-> log.answered]
    BY <1>1 DEF LogTurn, Logs
  <2>3. log' \in Logs
    BY <1>0, <2>1, <2>2 DEF Logs
  <2>4. Stamp(log') = Stamp(log) + 1
    BY <1>0, <2>1, StampTyped DEF Stamp
  <2> QED
    BY <1>0, <2>1, <2>3, <2>4 DEF Stamp
<1>2. CASE LogAnswer
  <2> PICK t \in 1..log.turns \ log.answered : log' = [log EXCEPT !.answered = @ \cup {t}]
    BY <1>2 DEF LogAnswer
  <2>1. log'.turns = log.turns /\ log'.answered = log.answered \cup {t}
    BY DEF Logs
  <2>2. log' = [turns |-> log.turns, answered |-> log.answered \cup {t}]
    BY DEF Logs
  <2>3. log' \in Logs
    BY <1>0, <2>2 DEF Logs, Turns
  <2>4. Cardinality(log.answered \cup {t}) = Cardinality(log.answered) + 1
    BY StampTyped, FS_AddElement
  <2>5. Stamp(log') = Stamp(log) + 1
    BY <1>0, <2>1, <2>4, StampTyped DEF Stamp
  <2> QED
    BY <1>0, <2>1, <2>3, <2>5 DEF Stamp
<1> QED
  BY <1>1, <1>2

\* An entry of a turn is well typed.
LEMMA EntryTyped ==
    ASSUME NEW l \in Logs, NEW t \in Turns, NEW c \in 1..MaxConvs
    PROVE  [turn |-> t, answered |-> Version(l, t), conv |-> c] \in Entries
<1>1. Version(l, t) \in BOOLEAN
  BY DEF Version
<1> QED
  BY <1>1 DEF Entries

\* The entries of a log are those of its turns.
LEMMA AllOfTyped ==
    ASSUME NEW l \in Logs, NEW c \in 1..MaxConvs
    PROVE  /\ AllOf(l, c) \in Seq(Entries)
           /\ \A t \in 1..l.turns : \E k \in DOMAIN AllOf(l, c) : AllOf(l, c)[k].turn = t
<1>1. l.turns \in Nat /\ 1..l.turns \subseteq Turns
  BY DEF Logs, Turns
<1>2. DOMAIN AllOf(l, c) = 1..l.turns
  BY DEF AllOf
<1>3. \A t \in 1..l.turns : AllOf(l, c)[t] = [turn |-> t, answered |-> Version(l, t), conv |-> c]
  BY DEF AllOf
<1>4. \A t \in 1..l.turns : AllOf(l, c)[t] \in Entries
  BY <1>1, <1>3, EntryTyped
<1>5. AllOf(l, c) \in [1..l.turns -> Entries]
  BY <1>4 DEF AllOf
<1>6. AllOf(l, c) \in Seq(Entries)
  BY <1>1, <1>5, IsASeq
<1>7. \A t \in 1..l.turns : AllOf(l, c)[t].turn = t
  <2> DEFINE Entry(t) == [turn |-> t, answered |-> Version(l, t), conv |-> c]
  <2>1. \A t \in 1..l.turns : Entry(t).turn = t
    OBVIOUS
  <2>2. \A t \in 1..l.turns : AllOf(l, c)[t] = Entry(t)
    BY <1>3
  <2> HIDE DEF Entry
  <2> QED
    BY <2>1, <2>2
<1> QED
  BY <1>2, <1>6, <1>7

\* A set of naturals that is not empty has a least element.
LEMMA LeastNatural ==
    ASSUME NEW S \in SUBSET Nat, S # {}
    PROVE  \E n \in S : \A j \in S : n <= j
<1> DEFINE LessThan == {p \in Nat \X Nat : p[1] < p[2]}
<1>1. IsWellFoundedOn(LessThan, Nat)
  BY NatLessThanWellFounded DEF OpToRel
<1> HIDE DEF LessThan
<1>2. PICK n \in S : \A j \in S : <<j, n>> \notin LessThan
  BY <1>1, WFMin
<1>3. ASSUME NEW j \in S PROVE n <= j
  <2>1. n \in Nat /\ j \in Nat
    OBVIOUS
  <2>2. <<j, n>>[1] = j /\ <<j, n>>[2] = n /\ <<j, n>> \in Nat \X Nat
    BY <2>1
  <2>3. j < n => <<j, n>> \in LessThan
    BY <2>2 DEF LessThan
  <2> QED
    BY <1>2, <2>1, <2>3
<1> QED
  BY <1>3

\* Writing a batch removes no row, and adds one for every turn of the batch.
LEMMA WrittenTyped ==
    ASSUME NEW batch \in Seq(Entries), NEW rows,
           DOMAIN rows \subseteq Turns, \A t \in DOMAIN rows : rows[t] \in Rows
    PROVE  /\ DOMAIN Written(batch, rows) = DOMAIN rows \cup {batch[k].turn : k \in DOMAIN batch}
           /\ DOMAIN Written(batch, rows) \subseteq Turns
           /\ \A t \in DOMAIN Written(batch, rows) : Written(batch, rows)[t] \in Rows
<1>1. DOMAIN Written(batch, rows) = DOMAIN rows \cup {batch[k].turn : k \in DOMAIN batch}
  BY DEF Written
<1>2. \A k \in DOMAIN batch : k \in Nat \ {0} /\ batch[k] \in Entries
  <2>1. DOMAIN batch = 1..Len(batch) /\ Len(batch) \in Nat
    OBVIOUS
  <2> QED
    BY <2>1, ElementOfSeq
<1>3. DOMAIN Written(batch, rows) \subseteq Turns
  BY <1>1, <1>2 DEF Entries
<1>4. ASSUME NEW t \in DOMAIN Written(batch, rows)
      PROVE  Written(batch, rows)[t] \in Rows
  <2>1. CASE t \in DOMAIN rows
    <3>1. Written(batch, rows)[t] = rows[t]
      BY <1>1, <2>1 DEF Written
    <3> QED
      BY <2>1, <3>1
  <2>2. CASE t \notin DOMAIN rows
    <3> DEFINE Of == {k \in DOMAIN batch : batch[k].turn = t}
               First(k) == k \in DOMAIN batch /\ batch[k].turn = t /\ \A j \in 1..(k - 1) : batch[j].turn # t
    <3>1. Of # {} /\ Of \in SUBSET Nat
      BY <1>1, <1>2, <2>2
    <3>2. PICK n \in Of : \A j \in Of : n <= j
      <4> HIDE DEF Of
      <4> QED
        BY <3>1, LeastNatural
    <3>3. First(n)
      <4>1. DOMAIN batch = 1..Len(batch) /\ Len(batch) \in Nat /\ n \in 1..Len(batch)
        BY <3>2
      <4>2. ASSUME NEW j \in 1..(n - 1), batch[j].turn = t PROVE FALSE
        <5>1. j \in DOMAIN batch /\ ~(n <= j)
          BY <4>1
        <5> QED
          BY <3>2, <4>2, <5>1
      <4> QED
        BY <3>2, <4>2
    <3> DEFINE k == CHOOSE k \in DOMAIN batch : batch[k].turn = t /\ \A j \in 1..(k - 1) : batch[j].turn # t
    <3>4. k \in DOMAIN batch
      BY <3>3
    <3>5. Written(batch, rows)[t] = [answered |-> batch[k].answered, conv |-> batch[k].conv]
      BY <1>1, <2>2 DEF Written
    <3>6. batch[k].answered \in BOOLEAN /\ batch[k].conv \in 1..MaxConvs
      BY <1>2, <3>4 DEF Entries
    <3> HIDE DEF k
    <3> QED
      BY <3>5, <3>6 DEF Rows
  <2> QED
    BY <2>1, <2>2
<1> QED
  BY <1>1, <1>3, <1>4

\* The initial state is well typed.
LEMMA HistoryTypeInit == HistoryInit => HistoryTypeOK /\ ConvInv
<1> SUFFICES ASSUME HistoryInit PROVE HistoryTypeOK /\ ConvInv
  OBVIOUS
<1>1. NoLog \in Logs
  BY DEF NoLog, Logs
<1>2. Untracked \in TrackerRecords
  BY <1>1 DEF Untracked, TrackerRecords, Convs
<1>3. NoImport \in ImportRecords
  BY <1>1 DEF NoImport, ImportRecords, Convs
<1>4. TrackTyped
  BY <1>2 DEF HistoryInit, TrackTyped
<1>5. DbTyped
  BY DEF HistoryInit, DbTyped
<1>6. ImportTyped
  <2>1. imp \in ImportRecords /\ cut \in BOOLEAN
    BY <1>3 DEF HistoryInit
  <2>2. imported \in 0..MaxTurns
    BY DEF HistoryInit
  <2> QED
    BY <2>1, <2>2 DEF ImportTyped
<1>7. ConvInv
  BY DEF HistoryInit, ConvInv, TrackerHas, WriterHas, Untracked, NoImport, Writers
<1> QED
  BY <1>1, <1>4, <1>5, <1>6, <1>7, HistoryParts DEF HistoryInit

\* Growth of the log keeps the types.
LEMMA TypeLog ==
    ASSUME HistoryTypeOK, ConvInv, LogTurn \/ LogAnswer
    PROVE  HistoryTypeOK' /\ ConvInv'
<1> USE HistoryParts
<1>1. (log \in Logs)'
  BY LogGrows
<1>2. UNCHANGED <<tracker, buffer, writing, dbVars, imp, imported, cut>>
  BY DEF LogTurn, LogAnswer
<1> QED
  BY <1>1, <1>2 DEF TrackTyped, DbTyped, ImportTyped, ConvInv, TrackerHas, WriterHas, dbVars

\* A tracker that goes on to another well-typed record.
LEMMA OneTracker ==
    ASSUME TrackTyped, ConvInv, NEW t \in Trackers, NEW r \in TrackerRecords,
           r.phase \in {"on", "full", "writing"} => r.conv \in 1..MaxConvs,
           tracker[t].phase # "writing", UNCHANGED writing,
           tracker' = [tracker EXCEPT ![t] = r]
    PROVE  tracker' \in [Trackers -> TrackerRecords] /\ (\A u \in Trackers : TrackerHas(u)' /\ WriterHas(u)')
<1>1. tracker' \in [Trackers -> TrackerRecords]
  BY DEF TrackTyped
<1>2. ASSUME NEW u \in Trackers PROVE TrackerHas(u)' /\ WriterHas(u)'
  <2>1. CASE u = t
    <3>1. tracker'[u] = r
      BY <2>1 DEF TrackTyped
    <3>2. writing'[u] = <<>>
      BY <2>1 DEF ConvInv, WriterHas
    <3> QED
      BY <3>1, <3>2 DEF TrackerHas, WriterHas
  <2>2. CASE u # t
    <3>1. tracker'[u] = tracker[u]
      BY <2>2 DEF TrackTyped
    <3> QED
      BY <3>1 DEF ConvInv, TrackerHas, WriterHas
  <2> QED
    BY <2>1, <2>2
<1> QED
  BY <1>1, <1>2

\* What a tracking task does on its own keeps the types.
LEMMA TypeTracker ==
    ASSUME HistoryTypeOK, ConvInv, NEW t \in Trackers, Track(t) \/ Poll(t) \/ Push(t) \/ End(t)
    PROVE  HistoryTypeOK' /\ ConvInv'
<1> USE HistoryParts
<1>9. tracker[t].phase \in {"none", "on"} /\ UNCHANGED writing
  BY DEF Track, Poll, Push, End
<1>0. tracker[t] \in TrackerRecords /\ NoLog \in Logs
  BY DEF TrackTyped, NoLog, Logs
<1>1. CASE Track(t)
  <2> DEFINE r == [tracker[t] EXCEPT !.phase = "on", !.conv = Len(convs) + 1]
  <2>1. Len(convs) \in Nat /\ Len(convs) < MaxConvs
    BY <1>1 DEF Track, DbTyped
  <2>2. r \in TrackerRecords /\ r.phase = "on" /\ r.conv \in 1..MaxConvs
    <3>1. Len(convs) + 1 \in 1..MaxConvs /\ Len(convs) + 1 \in Convs
      BY <2>1 DEF Convs
    <3> QED
      BY <1>0, <3>1 DEF TrackerRecords
  <2>3. tracker' = [tracker EXCEPT ![t] = r]
    BY <1>1 DEF Track, TrackTyped
  <2> HIDE DEF r
  <2>4. tracker' \in [Trackers -> TrackerRecords] /\ \A u \in Trackers : TrackerHas(u)' /\ WriterHas(u)'
    BY <2>2, <2>3, <1>9, OneTracker
  <2>5. convs' \in Seq(0..(2 * MaxTurns) \cup {NoStamp}) /\ Len(convs') <= MaxConvs
    BY <1>1, <2>1 DEF Track, DbTyped
  <2>6. UNCHANGED <<log, buffer, writing, stored, imp, imported, cut>>
    BY <1>1 DEF Track
  <2> QED
    BY <2>4, <2>5, <2>6 DEF TrackTyped, DbTyped, ImportTyped, ConvInv
<1>2. CASE Poll(t)
  <2>1. PICK news \in SUBSET (1..log.turns) :
            tracker' = [tracker EXCEPT
                ![t].polled = log,
                ![t].pending = {[turn |-> k, answered |-> Version(log, k), conv |-> tracker[t].conv] : k \in news}]
    BY <1>2 DEF Poll
  <2> DEFINE pending == {[turn |-> k, answered |-> Version(log, k), conv |-> tracker[t].conv] : k \in news}
             r == [tracker[t] EXCEPT !.polled = log, !.pending = pending]
  <2>2. tracker[t].phase = "on" /\ tracker[t].conv \in 1..MaxConvs
    BY <1>2 DEF Poll, ConvInv, TrackerHas
  <2>3. \A k \in news : k \in Turns
    BY DEF Logs, Turns
  <2>4. pending \in SUBSET Entries
    BY <2>2, <2>3, EntryTyped
  <2>5. tracker' = [tracker EXCEPT ![t] = r]
    BY <2>1 DEF TrackTyped
  <2> HIDE DEF pending
  <2>6. r \in TrackerRecords /\ r.phase = "on" /\ r.conv \in 1..MaxConvs
    BY <1>0, <2>2, <2>4 DEF TrackerRecords
  <2> HIDE DEF r
  <2>7. tracker' \in [Trackers -> TrackerRecords] /\ \A u \in Trackers : TrackerHas(u)' /\ WriterHas(u)'
    BY <2>5, <2>6, <1>9, OneTracker
  <2>8. UNCHANGED <<log, buffer, writing, dbVars, imp, imported, cut>>
    BY <1>2 DEF Poll
  <2> QED
    BY <2>7, <2>8 DEF TrackTyped, DbTyped, ImportTyped, ConvInv, dbVars
<1>3. CASE Push(t)
  <2>1. PICK e \in tracker[t].pending :
          /\ buffer' = Append(buffer, e)
          /\ tracker' = [tracker EXCEPT ![t].pending = @ \ {e},
                                        ![t].phase = IF Len(buffer') >= BatchSize THEN "full" ELSE "on"]
    BY <1>3 DEF Push
  <2> DEFINE goes == IF Len(buffer') >= BatchSize THEN "full" ELSE "on"
             r == [tracker[t] EXCEPT !.pending = @ \ {e}, !.phase = goes]
  <2>2. tracker[t].conv \in 1..MaxConvs /\ goes \in {"full", "on"}
    BY <1>3 DEF Push, ConvInv, TrackerHas
  <2>3. e \in Entries
    BY <1>0 DEF TrackerRecords
  <2>4. buffer' \in Seq(Entries)
    BY <2>1, <2>3 DEF TrackTyped
  <2>5. tracker' = [tracker EXCEPT ![t] = r]
    BY <2>1 DEF TrackTyped
  <2> HIDE DEF goes
  <2>6. r \in TrackerRecords /\ r.conv \in 1..MaxConvs
    BY <1>0, <2>2 DEF TrackerRecords
  <2> HIDE DEF r
  <2>7. tracker' \in [Trackers -> TrackerRecords] /\ \A u \in Trackers : TrackerHas(u)' /\ WriterHas(u)'
    BY <2>5, <2>6, <1>9, OneTracker
  <2>8. UNCHANGED <<log, writing, dbVars, imp, imported, cut>>
    BY <1>3 DEF Push
  <2> QED
    BY <2>4, <2>7, <2>8 DEF TrackTyped, DbTyped, ImportTyped, ConvInv, dbVars
<1>4. CASE End(t)
  <2>1. Over \in TrackerRecords /\ Over.phase = "ended"
    BY <1>0 DEF Over, Untracked, TrackerRecords, Convs
  <2>2. tracker' \in [Trackers -> TrackerRecords] /\ \A u \in Trackers : TrackerHas(u)' /\ WriterHas(u)'
    BY <1>4, <2>1, <1>9, OneTracker DEF End
  <2>3. UNCHANGED <<log, buffer, writing, dbVars, imp, imported, cut>>
    BY <1>4 DEF End
  <2> QED
    BY <2>2, <2>3 DEF TrackTyped, DbTyped, ImportTyped, ConvInv, dbVars
<1> QED
  BY <1>1, <1>2, <1>3, <1>4

\* Flushing keeps the types.
LEMMA TypeFlush ==
    ASSUME HistoryTypeOK, ConvInv, NEW w \in Writers, Drain(w) \/ Write(w)
    PROVE  HistoryTypeOK' /\ ConvInv'
<1> USE HistoryParts
<1>1. ASSUME NEW p \in {"on", "full", "writing"},
             w \in Trackers => tracker[w].phase \in {"on", "full", "writing"},
             tracker' = [t \in Trackers |-> IF t = w THEN [tracker[t] EXCEPT !.phase = p] ELSE tracker[t]]
      PROVE  tracker' \in [Trackers -> TrackerRecords] /\ \A u \in Trackers : TrackerHas(u)'
  <2>1. ASSUME NEW t \in Trackers
        PROVE  tracker'[t] \in TrackerRecords /\ TrackerHas(t)'
    <3>1. tracker[t] \in TrackerRecords /\ TrackerHas(t)
      BY DEF TrackTyped, ConvInv
    <3>2. CASE t = w
      <4>1. tracker'[t] = [tracker[t] EXCEPT !.phase = p]
        BY <1>1, <3>2
      <4>2. tracker[t].conv \in 1..MaxConvs
        BY <1>1, <3>1, <3>2 DEF TrackerHas
      <4>3. tracker'[t] \in TrackerRecords /\ tracker'[t].conv \in 1..MaxConvs
        BY <3>1, <4>1, <4>2 DEF TrackerRecords
      <4> QED
        BY <4>3 DEF TrackerHas
    <3>3. CASE t # w
      <4>1. tracker'[t] = tracker[t]
        BY <1>1, <3>3
      <4> QED
        BY <3>1, <4>1 DEF TrackerHas
    <3> QED
      BY <3>2, <3>3
  <2> QED
    BY <1>1, <2>1
<1>2. CASE Drain(w)
  <2> DEFINE p == IF buffer = <<>> THEN "on" ELSE "writing"
  <2>1. tracker' = [t \in Trackers |-> IF t = w THEN [tracker[t] EXCEPT !.phase = p] ELSE tracker[t]]
    BY <1>2 DEF Drain
  <2>2. w \in Trackers => tracker[w].phase \in {"on", "full", "writing"}
    BY <1>2, WriterAssumption DEF Drain
  <2>3. p \in {"on", "full", "writing"}
    OBVIOUS
  <2> HIDE DEF p
  <2>4. tracker' \in [Trackers -> TrackerRecords] /\ \A u \in Trackers : TrackerHas(u)'
    BY <1>1, <2>1, <2>2, <2>3
  <2>5. buffer' \in Seq(Entries) /\ writing' \in [Writers -> Seq(Entries)]
    BY <1>2 DEF Drain, TrackTyped
  <2>6. ASSUME NEW u \in Trackers PROVE WriterHas(u)'
    <3>1. CASE u = w
      <4>1. writing'[u] = buffer /\ tracker'[u].phase = p
        BY <1>2, <2>1, <3>1 DEF Drain, TrackTyped, TrackerRecords, Writers
      <4> QED
        BY <4>1 DEF WriterHas, p
    <3>2. CASE u # w
      <4>1. writing'[u] = writing[u] /\ tracker'[u] = tracker[u]
        BY <1>2, <2>1, <3>2 DEF Drain, TrackTyped, Writers
      <4> QED
        BY <4>1 DEF ConvInv, WriterHas
    <3> QED
      BY <3>1, <3>2
  <2>7. UNCHANGED <<log, dbVars, imp, imported, cut>>
    BY <1>2 DEF Drain
  <2> QED
    BY <2>4, <2>5, <2>6, <2>7 DEF TrackTyped, DbTyped, ImportTyped, ConvInv, dbVars
<1>3. CASE Write(w)
  <2>1. writing' \in [Writers -> Seq(Entries)] /\ writing[w] \in Seq(Entries)
    BY <1>3 DEF Write, TrackTyped
  <2>2. DOMAIN stored' \subseteq Turns /\ \A t \in DOMAIN stored' : stored'[t] \in Rows
    BY <1>3, <2>1, WrittenTyped DEF Write, DbTyped
  <2>3. tracker' \in [Trackers -> TrackerRecords] /\ \A u \in Trackers : TrackerHas(u)'
    <3>1. tracker' = [t \in Trackers |-> IF t = w THEN [tracker[t] EXCEPT !.phase = "on"] ELSE tracker[t]]
      BY <1>3 DEF Write
    <3>2. w \in Trackers => tracker[w].phase \in {"on", "full", "writing"}
      BY <1>3 DEF Write, ConvInv, WriterHas
    <3> QED
      BY <1>1, <3>1, <3>2
  <2>4. ASSUME NEW u \in Trackers PROVE WriterHas(u)'
    <3>1. CASE u = w
      <4>1. writing'[u] = <<>>
        BY <1>3, <3>1 DEF Write, TrackTyped, Writers
      <4> QED
        BY <4>1 DEF WriterHas
    <3>2. CASE u # w
      <4>1. writing'[u] = writing[u] /\ tracker'[u] = tracker[u]
        BY <1>3, <3>2 DEF Write, TrackTyped, Writers
      <4> QED
        BY <4>1 DEF ConvInv, WriterHas
    <3> QED
      BY <3>1, <3>2
  <2>5. UNCHANGED <<log, buffer, convs, imp, imported, cut>>
    BY <1>3 DEF Write
  <2> QED
    BY <2>1, <2>2, <2>3, <2>4, <2>5 DEF TrackTyped, DbTyped, ImportTyped, ConvInv
<1> QED
  BY <1>2, <1>3

\* What an import reads before it writes, and the stamps it records, keep the types.
LEMMA TypeImport ==
    ASSUME HistoryTypeOK, ConvInv,
           Stat \/ Miss \/ Skip \/ Hit \/ Load \/ CreateConversation \/ Record
    PROVE  HistoryTypeOK' /\ ConvInv'
<1> USE HistoryParts
<1>0. imp \in ImportRecords /\ NoImport \in ImportRecords /\ NoImport.phase = "none"
  BY DEF ImportTyped, NoImport, ImportRecords, NoLog, Logs, Convs
<1>1. CASE Stat
  <2>1. Stamp(log) \in 0..(2 * MaxTurns) /\ log.turns \in 0..MaxTurns
    BY StampTyped DEF Logs
  <2>2. imp' \in ImportRecords /\ imp'.phase = "stat"
    BY <1>0, <1>1, <2>1 DEF Stat, ImportRecords
  <2>3. UNCHANGED <<log, tracker, buffer, writing, dbVars, imported, cut>>
    BY <1>1 DEF Stat
  <2> QED
    BY <2>2, <2>3 DEF TrackTyped, DbTyped, ImportTyped, ConvInv, TrackerHas, WriterHas, dbVars
<1>2. CASE Miss
  <2>1. imp' \in ImportRecords /\ imp'.phase = "new"
    BY <1>0, <1>2 DEF Miss, Step, ImportRecords
  <2>2. UNCHANGED <<log, tracker, buffer, writing, dbVars, imported, cut>>
    BY <1>2 DEF Miss
  <2> QED
    BY <2>1, <2>2 DEF TrackTyped, DbTyped, ImportTyped, ConvInv, TrackerHas, WriterHas, dbVars
<1>3. CASE Skip
  <2>1. imp' = NoImport /\ imported' \in 0..MaxTurns
    BY <1>0, <1>3 DEF Skip, Done, ImportRecords
  <2>2. UNCHANGED <<log, tracker, buffer, writing, dbVars, cut>>
    BY <1>3 DEF Skip
  <2> QED
    BY <1>0, <2>1, <2>2 DEF TrackTyped, DbTyped, ImportTyped, ConvInv, TrackerHas, WriterHas, dbVars
<1>4. CASE Hit
  <2>1. Len(convs) \in Nat /\ Len(convs) # 0 /\ Len(convs) <= MaxConvs
    BY <1>4, EmptySeq DEF Hit, DbTyped
  <2>2. 1 \in 1..MaxConvs /\ 1 \in Convs
    BY <2>1 DEF Convs
  <2>3. imp' \in ImportRecords /\ imp'.conv = 1
    BY <1>0, <1>4, <2>2 DEF Hit, ImportRecords
  <2>4. UNCHANGED <<log, tracker, buffer, writing, dbVars, imported, cut>>
    BY <1>4 DEF Hit
  <2> QED
    BY <2>2, <2>3, <2>4 DEF TrackTyped, DbTyped, ImportTyped, ConvInv, TrackerHas, WriterHas, dbVars
<1>5. CASE Load
  <2>1. imp' \in ImportRecords /\ imp'.phase \in {"loaded", "reloaded"} /\ imp'.conv = imp.conv
    BY <1>0, <1>5 DEF Load, ImportRecords
  <2>2. imp'.phase = "reloaded" => imp.phase = "deleted"
    BY <1>0, <1>5 DEF Load, ImportRecords
  <2>3. UNCHANGED <<log, tracker, buffer, writing, dbVars, imported, cut>>
    BY <1>5 DEF Load
  <2> QED
    BY <2>1, <2>2, <2>3 DEF TrackTyped, DbTyped, ImportTyped, ConvInv, TrackerHas, WriterHas, dbVars
<1>6. CASE CreateConversation
  <2>1. Len(convs) \in Nat /\ Len(convs) < MaxConvs /\ imp.stamp \in 0..(2 * MaxTurns)
    BY <1>0, <1>6 DEF CreateConversation, DbTyped, ImportRecords
  <2>2. convs' \in Seq(0..(2 * MaxTurns) \cup {NoStamp}) /\ Len(convs') <= MaxConvs
    BY <1>6, <2>1 DEF CreateConversation, DbTyped
  <2>3. Len(convs) + 1 \in 1..MaxConvs /\ Len(convs) + 1 \in Convs
    BY <2>1 DEF Convs
  <2>4. imp' \in ImportRecords /\ imp'.conv = Len(convs) + 1
    BY <1>0, <1>6, <2>3 DEF CreateConversation, ImportRecords
  <2>5. UNCHANGED <<log, tracker, buffer, writing, stored, imported, cut>>
    BY <1>6 DEF CreateConversation
  <2> QED
    BY <2>2, <2>3, <2>4, <2>5 DEF TrackTyped, DbTyped, ImportTyped, ConvInv, TrackerHas, WriterHas
<1>7. CASE Record
  <2>1. imp.stamp \in 0..(2 * MaxTurns) /\ imp.turns \in 0..MaxTurns
    BY <1>0 DEF ImportRecords
  <2>2. convs' \in Seq(0..(2 * MaxTurns) \cup {NoStamp}) /\ Len(convs') = Len(convs)
    <3>1. Len(convs) \in Nat /\ DOMAIN convs = 1..Len(convs)
      BY DEF DbTyped
    <3>2. convs' = [c \in 1..Len(convs) |-> imp.stamp]
      BY <1>7, <3>1 DEF Record, NewStamp
    <3> QED
      BY <2>1, <3>1, <3>2
  <2>3. imp' = NoImport /\ imported' \in 0..MaxTurns
    BY <1>7, <2>1 DEF Record, Done
  <2>4. UNCHANGED <<log, tracker, buffer, writing, stored, cut>>
    BY <1>7 DEF Record
  <2> QED
    BY <1>0, <2>2, <2>3, <2>4 DEF TrackTyped, DbTyped, ImportTyped, ConvInv, TrackerHas, WriterHas
<1> QED
  BY <1>1, <1>2, <1>3, <1>4, <1>5, <1>6, <1>7

\* The writes of an import keep the types.
LEMMA TypeImportWrites ==
    ASSUME HistoryTypeOK, ConvInv, DeleteEntries \/ Fill \/ Refill
    PROVE  HistoryTypeOK' /\ ConvInv'
<1> USE HistoryParts
<1>0. imp \in ImportRecords /\ NoImport \in ImportRecords /\ NoImport.phase = "none"
  BY DEF ImportTyped, NoImport, ImportRecords, NoLog, Logs, Convs
<1>1. CASE DeleteEntries
  <2>1. imp' \in ImportRecords /\ imp'.conv = imp.conv /\ imp.phase = "stale"
    BY <1>0, <1>1 DEF DeleteEntries, Step, ImportRecords
  <2>2. DOMAIN stored' \subseteq Turns /\ \A t \in DOMAIN stored' : stored'[t] \in Rows
    BY <1>1 DEF DeleteEntries, DbTyped
  <2>3. imported' \in 0..MaxTurns
    BY <1>1 DEF DeleteEntries
  <2>4. UNCHANGED <<log, tracker, buffer, writing, convs, cut>>
    BY <1>1 DEF DeleteEntries
  <2> QED
    BY <2>1, <2>2, <2>3, <2>4 DEF TrackTyped, DbTyped, ImportTyped, ConvInv, TrackerHas, WriterHas
<1>2. ASSUME imp.conv \in 1..MaxConvs, stored' = Written(AllOf(imp.read, imp.conv), stored)
      PROVE  DOMAIN stored' \subseteq Turns /\ \A t \in DOMAIN stored' : stored'[t] \in Rows
  <2>1. AllOf(imp.read, imp.conv) \in Seq(Entries)
    <3>1. imp.read \in Logs
      BY <1>0 DEF ImportRecords
    <3> QED
      BY <1>2, <3>1, AllOfTyped
  <2> QED
    BY <1>2, <2>1, WrittenTyped DEF DbTyped
<1>3. CASE Fill
  <2>1. DOMAIN stored' \subseteq Turns /\ \A t \in DOMAIN stored' : stored'[t] \in Rows
    BY <1>2, <1>3 DEF Fill, ConvInv
  <2>2. imp' = NoImport /\ imported' \in 0..MaxTurns
    BY <1>0, <1>3 DEF Fill, Done, ImportRecords
  <2>3. UNCHANGED <<log, tracker, buffer, writing, convs, cut>>
    BY <1>3 DEF Fill
  <2> QED
    BY <1>0, <2>1, <2>2, <2>3 DEF TrackTyped, DbTyped, ImportTyped, ConvInv, TrackerHas, WriterHas
<1>4. CASE Refill
  <2>1. DOMAIN stored' \subseteq Turns /\ \A t \in DOMAIN stored' : stored'[t] \in Rows
    BY <1>2, <1>4 DEF Refill, ConvInv
  <2>2. imp' \in ImportRecords /\ imp'.conv = imp.conv /\ imp.conv \in 1..MaxConvs
    BY <1>0, <1>4 DEF Refill, Step, ImportRecords, ConvInv
  <2>3. UNCHANGED <<log, tracker, buffer, writing, convs, imported, cut>>
    BY <1>4 DEF Refill
  <2> QED
    BY <2>1, <2>2, <2>3 DEF TrackTyped, DbTyped, ImportTyped, ConvInv, TrackerHas, WriterHas
<1> QED
  BY <1>1, <1>3, <1>4

\* A failure and a stop keep the types.
LEMMA TypeStop ==
    ASSUME HistoryTypeOK, ConvInv, Abort \/ Crash
    PROVE  HistoryTypeOK' /\ ConvInv'
<1> USE HistoryParts
<1>0. NoImport \in ImportRecords /\ NoImport.phase = "none" /\ Untracked \in TrackerRecords /\ Over \in TrackerRecords
  BY DEF NoImport, ImportRecords, NoLog, Logs, Convs, Untracked, Over, TrackerRecords
<1>1. imp' = NoImport /\ cut' \in BOOLEAN /\ UNCHANGED <<log, dbVars, imported>>
  BY DEF Abort, Crash
<1>2. TrackTyped' /\ \A t \in Trackers : TrackerHas(t)' /\ WriterHas(t)'
  <2>1. CASE Abort
    BY <2>1 DEF Abort, TrackTyped, ConvInv, TrackerHas, WriterHas
  <2>2. CASE Crash
    <3>1. Untracked.phase = "none" /\ Over.phase = "ended"
      BY DEF Untracked, Over
    <3>2. \A t \in Trackers : tracker'[t] \in {Untracked, Over} /\ writing'[t] = <<>>
      BY <2>2 DEF Crash, Writers
    <3>3. tracker' \in [Trackers -> TrackerRecords]
      BY <1>0, <2>2 DEF Crash
    <3>4. buffer' \in Seq(Entries) /\ writing' \in [Writers -> Seq(Entries)]
      BY <2>2 DEF Crash
    <3> QED
      BY <3>1, <3>2, <3>3, <3>4 DEF TrackTyped, TrackerHas, WriterHas
  <2> QED
    BY <2>1, <2>2
<1> QED
  BY <1>0, <1>1, <1>2 DEF DbTyped, ImportTyped, ConvInv, dbVars

\* The inductive invariant of the types.
LEMMA TypesCorrect == HistorySpec => [](HistoryTypeOK /\ ConvInv)
<1>1. HistoryTypeOK /\ ConvInv /\ [HistoryNext]_historyVars => HistoryTypeOK' /\ ConvInv'
  <2> SUFFICES ASSUME HistoryTypeOK, ConvInv, [HistoryNext]_historyVars PROVE HistoryTypeOK' /\ ConvInv'
    OBVIOUS
  <2>1. CASE HistoryNext
    BY <2>1, TypeLog, TypeTracker, TypeFlush, TypeImport, TypeImportWrites, TypeStop DEF HistoryNext
  <2>2. CASE UNCHANGED historyVars
    BY <2>2 DEF HistoryTypeOK, ConvInv, TrackerHas, WriterHas, historyVars, dbVars
  <2> QED
    BY <2>1, <2>2
<1> QED
  BY HistoryTypeInit, <1>1, PTL DEF HistorySpec

\* Buffers, batches, rows, stamps and the import's position stay well typed, for
\* any number of tracking tasks and any failures.
THEOREM HistoryTypeCorrect == HistorySpec => []HistoryTypeOK
  BY TypesCorrect, PTL

-----------------------------------------------------------------------------
(* What a recorded stamp stands for.                                           *)

\* The stamp an import finds: that of the oldest conversation.
FirstStamp == IF convs = <<>> THEN NoStamp ELSE Head(convs)

Writes == {"stale", "deleted", "reloaded", "refilled"}

\* Stamps are never newer than the log, an import has read at least what its
\* stamp stands for, and one that replaces entries has found an older stamp: the
\* stamps of the log never repeat, so no later import takes that one for current.
ImportInv ==
    /\ FirstStamp # NoStamp => FirstStamp <= Stamp(log)
    /\ imp.phase # "none" => imp.stamp <= Stamp(log) /\ (imp.stamp = Stamp(log) => imp.turns = log.turns)
    /\ imp.phase \in {"loaded", "reloaded", "created", "refilled"} => imp.turns <= imp.read.turns
    /\ imp.phase # "none" => imp.turns <= log.turns
    /\ imp.phase = "stat" /\ FirstStamp # NoStamp => FirstStamp <= imp.stamp
    /\ imp.phase \in Writes /\ FirstStamp # NoStamp => FirstStamp < imp.stamp
    /\ imp.phase \in {"new", "loaded"} => FirstStamp = NoStamp
    /\ imp.phase = "created" => FirstStamp \in {NoStamp, imp.stamp}
    /\ imp.phase = "refilled" => 1..imp.read.turns \subseteq DOMAIN stored

\* A stamp that is that of the log, or the one an import has just read, stands
\* for turns that are in the database, but while a conversation is created and
\* not filled, and after that was cut short.
StoredInv ==
    ~cut =>
        /\ 1..imported \subseteq DOMAIN stored
        /\ imp.phase # "created" /\ FirstStamp = Stamp(log) => 1..log.turns \subseteq DOMAIN stored
        /\ imp.phase = "stat" /\ FirstStamp = imp.stamp => 1..imp.turns \subseteq DOMAIN stored

\* The numbers these speak of.
LEMMA Numbers ==
    ASSUME HistoryTypeOK
    PROVE  /\ log \in Logs /\ log.turns \in Nat /\ Stamp(log) \in Nat
           /\ imp \in ImportRecords /\ imp.stamp \in Nat /\ imp.turns \in Nat /\ imp.read \in Logs /\ imp.read.turns \in Nat
           /\ imported \in Nat
           /\ FirstStamp # NoStamp => FirstStamp \in Nat
           /\ NoStamp \notin Nat
<1>1. log \in Logs /\ ImportTyped /\ DbTyped
  BY HistoryParts
<1>2. log.turns \in Nat /\ Stamp(log) \in Nat
  <2>1. Stamp(log) \in 0..(2 * MaxTurns)
    BY <1>1, StampTyped
  <2> QED
    BY <1>1, <2>1 DEF Logs
<1>3. imp \in ImportRecords /\ imported \in Nat
  BY <1>1 DEF ImportTyped
<1>4. imp.stamp \in Nat /\ imp.turns \in Nat /\ imp.read \in Logs
  BY <1>3 DEF ImportRecords
<1>5. imp.read.turns \in Nat
  BY <1>4 DEF Logs
<1>6. FirstStamp # NoStamp => FirstStamp \in Nat
  <2>1. convs # <<>> => Head(convs) \in 0..(2 * MaxTurns) \cup {NoStamp}
    BY <1>1 DEF DbTyped
  <2> QED
    BY <2>1 DEF FirstStamp
<1> QED
  BY <1>1, <1>2, <1>3, <1>4, <1>5, <1>6, StampAssumption

LEMMA StoredInit == HistoryInit => ImportInv /\ StoredInv
<1> SUFFICES ASSUME HistoryInit PROVE ImportInv /\ StoredInv
  OBVIOUS
<1>1. FirstStamp = NoStamp /\ imp.phase = "none" /\ imported = 0
  BY DEF HistoryInit, FirstStamp, NoImport
<1>2. Stamp(log) \in Nat
  <2>1. NoLog \in Logs
    BY DEF NoLog, Logs
  <2> QED
    BY <2>1, StampTyped DEF HistoryInit
<1>3. FirstStamp # Stamp(log)
  BY <1>1, <1>2, StampAssumption
<1> QED
  BY <1>1, <1>3 DEF ImportInv, StoredInv, Writes

\* Trackers and flushes only add rows and conversations without a stamp.
LEMMA StoredTrackers ==
    ASSUME HistoryTypeOK, ImportInv, StoredInv,
           \/ \E t \in Trackers : Track(t) \/ Poll(t) \/ Push(t) \/ End(t)
           \/ \E w \in Writers : Drain(w) \/ Write(w)
           \/ UNCHANGED historyVars
    PROVE  ImportInv' /\ StoredInv'
<1>1. UNCHANGED <<log, imp, imported, cut>>
  BY DEF Track, Poll, Push, End, Drain, Write, historyVars
<1>2. DOMAIN stored \subseteq DOMAIN stored'
  <2>1. ASSUME NEW w \in Writers, Write(w) PROVE DOMAIN stored \subseteq DOMAIN stored'
    <3>1. writing[w] \in Seq(Entries) /\ DbTyped
      BY HistoryParts DEF TrackTyped
    <3>2. DOMAIN stored \subseteq DOMAIN Written(writing[w], stored)
      BY <3>1, WrittenTyped DEF DbTyped
    <3> QED
      BY <2>1, <3>2 DEF Write
  <2>2. CASE UNCHANGED stored
    BY <2>2
  <2> QED
    BY <2>1, <2>2 DEF Track, Poll, Push, End, Drain, historyVars, dbVars
<1>3. FirstStamp' = FirstStamp
  <2>1. ASSUME NEW t \in Trackers, Track(t) PROVE FirstStamp' = FirstStamp
    <3>1. convs \in Seq(0..(2 * MaxTurns) \cup {NoStamp}) /\ convs' = Append(convs, NoStamp)
      BY <2>1, HistoryParts DEF Track, DbTyped
    <3>2. convs' # <<>> /\ Head(convs') = IF convs = <<>> THEN NoStamp ELSE Head(convs)
      BY <3>1
    <3> QED
      BY <3>2 DEF FirstStamp
  <2>2. CASE UNCHANGED convs
    BY <2>2 DEF FirstStamp
  <2> QED
    BY <2>1, <2>2 DEF Poll, Push, End, Drain, Write, historyVars, dbVars
<1>4. Stamp(log)' = Stamp(log)
  BY <1>1 DEF Stamp
<1> QED
  BY <1>1, <1>2, <1>3, <1>4 DEF ImportInv, StoredInv

\* When the log grows, every stamp of before is an old one.
LEMMA StoredLog ==
    ASSUME HistoryTypeOK, ImportInv, StoredInv, LogTurn \/ LogAnswer
    PROVE  ImportInv' /\ StoredInv'
<1>1. UNCHANGED <<convs, stored, imp, imported, cut>>
  BY DEF LogTurn, LogAnswer, dbVars
<1>2. Stamp(log)' = Stamp(log) + 1 /\ log'.turns >= log.turns /\ log'.turns \in Nat
  <2>1. log' \in Logs /\ Stamp(log)' = Stamp(log) + 1 /\ log'.turns >= log.turns
    BY Numbers, LogGrows
  <2> QED
    BY <2>1 DEF Logs
<1>3. FirstStamp' = FirstStamp
  BY <1>1 DEF FirstStamp
<1>4. ImportInv'
  <2>1. FirstStamp # NoStamp => FirstStamp < Stamp(log)'
    BY <1>2, Numbers DEF ImportInv
  <2>2. imp.phase # "none" => imp.stamp < Stamp(log)' /\ imp.turns <= log'.turns
    BY <1>2, Numbers DEF ImportInv
  <2> QED
    BY <1>1, <1>2, <1>3, <2>1, <2>2, Numbers DEF ImportInv
<1>5. FirstStamp' # Stamp(log)'
  BY <1>2, <1>3, Numbers DEF ImportInv
<1> QED
  BY <1>1, <1>3, <1>4, <1>5 DEF StoredInv

\* What an import finds out and reads.
LEMMA StoredReads ==
    ASSUME HistoryTypeOK, ImportInv, StoredInv, Stat \/ Miss \/ Skip \/ Hit \/ Load
    PROVE  ImportInv' /\ StoredInv'
<1>1. UNCHANGED <<log, convs, stored, cut>>
  BY DEF Stat, Miss, Skip, Hit, Load, dbVars
<1>2. FirstStamp' = FirstStamp /\ Stamp(log)' = Stamp(log)
  BY <1>1 DEF FirstStamp, Stamp
<1>3. CASE Stat
  <2>1. /\ imp.phase = "none" /\ imp'.phase = "stat" /\ imp'.stamp = Stamp(log) /\ imp'.turns = log.turns
        /\ imported' = imported
    BY <1>3 DEF Stat, NoImport
  <2> QED
    BY <1>1, <1>2, <2>1, Numbers DEF ImportInv, StoredInv, Writes
<1>4. CASE Miss
  <2>1. /\ imp.phase = "stat" /\ imp'.phase = "new" /\ imp'.stamp = imp.stamp /\ imp'.turns = imp.turns
        /\ imported' = imported /\ FirstStamp = NoStamp
    BY <1>4, Numbers DEF Miss, Step, ImportRecords, FirstStamp
  <2>2. ImportInv'
    BY <1>1, <1>2, <2>1, Numbers DEF ImportInv, Writes
  <2> QED
    BY <1>1, <1>2, <2>1, <2>2 DEF StoredInv
<1>5. CASE Skip
  <2>1. /\ imp.phase = "stat" /\ imp'.phase = "none" /\ imported' = imp.turns
        /\ FirstStamp = imp.stamp
    BY <1>5 DEF Skip, Done, NoImport, FirstStamp
  <2> QED
    BY <1>1, <1>2, <2>1, Numbers DEF ImportInv, StoredInv, Writes
<1>6. CASE Hit
  <2>1. /\ imp.phase = "stat" /\ imp'.phase = "stale" /\ imp'.stamp = imp.stamp /\ imp'.turns = imp.turns
        /\ imported' = imported /\ FirstStamp # imp.stamp
    BY <1>6, Numbers DEF Hit, ImportRecords, FirstStamp
  <2>2. FirstStamp # NoStamp => FirstStamp < imp.stamp
    BY <2>1, Numbers DEF ImportInv
  <2>3. ImportInv'
    BY <1>1, <1>2, <2>1, <2>2, Numbers DEF ImportInv, Writes
  <2> QED
    BY <1>1, <1>2, <2>1, <2>3 DEF StoredInv
<1>7. CASE Load
  <2>1. /\ imp'.stamp = imp.stamp /\ imp'.turns = imp.turns /\ imp'.read = log
        /\ imported' = imported
        /\ \/ imp.phase = "new" /\ imp'.phase = "loaded"
           \/ imp.phase = "deleted" /\ imp'.phase = "reloaded"
    BY <1>7, Numbers DEF Load, ImportRecords
  <2>2. ImportInv'
    BY <1>1, <1>2, <2>1, Numbers DEF ImportInv, Writes
  <2> QED
    BY <1>1, <1>2, <2>1, <2>2 DEF StoredInv
<1> QED
  BY <1>3, <1>4, <1>5, <1>6, <1>7

\* What an import writes.
LEMMA StoredWrites ==
    ASSUME HistoryTypeOK, ConvInv, ImportInv, StoredInv, DeleteEntries \/ CreateConversation \/ Fill \/ Refill \/ Record
    PROVE  ImportInv' /\ StoredInv'
<1>1. UNCHANGED <<log, cut>> /\ Stamp(log)' = Stamp(log)
  BY DEF DeleteEntries, CreateConversation, Fill, Refill, Record, Stamp
<1>2. CASE DeleteEntries
  <2>1. /\ imp.phase = "stale" /\ imp'.phase = "deleted" /\ imp'.stamp = imp.stamp /\ imp'.turns = imp.turns
        /\ imported' = 0 /\ FirstStamp' = FirstStamp
    BY <1>2, Numbers DEF DeleteEntries, Step, ImportRecords, FirstStamp
  <2>2. FirstStamp' # Stamp(log)'
    BY <1>1, <2>1, Numbers DEF ImportInv, Writes
  <2>3. ImportInv'
    BY <1>1, <2>1, Numbers DEF ImportInv, Writes
  <2> QED
    BY <1>1, <2>1, <2>2, <2>3 DEF StoredInv
<1>3. CASE CreateConversation
  <2>1. /\ imp.phase = "loaded" /\ imp'.phase = "created" /\ imp'.stamp = imp.stamp /\ imp'.turns = imp.turns
        /\ imp'.read = imp.read /\ UNCHANGED <<imported, stored>>
    BY <1>3, Numbers DEF CreateConversation, ImportRecords
  <2>2. FirstStamp' \in {NoStamp, imp.stamp}
    <3>1. convs \in Seq(0..(2 * MaxTurns) \cup {NoStamp}) /\ convs' = Append(convs, imp.stamp)
      BY <1>3, HistoryParts DEF CreateConversation, DbTyped
    <3>2. convs' # <<>> /\ Head(convs') = IF convs = <<>> THEN imp.stamp ELSE Head(convs)
      BY <3>1
    <3>3. FirstStamp = NoStamp
      BY <2>1 DEF ImportInv
    <3> QED
      BY <3>2, <3>3 DEF FirstStamp
  <2>3. ImportInv'
    BY <1>1, <2>1, <2>2, Numbers DEF ImportInv, Writes
  <2> QED
    BY <1>1, <2>1, <2>3 DEF StoredInv
<1>4. ASSUME imp.conv \in 1..MaxConvs, stored' = Written(AllOf(imp.read, imp.conv), stored)
      PROVE  1..imp.read.turns \subseteq DOMAIN stored' /\ DOMAIN stored \subseteq DOMAIN stored'
  <2> DEFINE batch == AllOf(imp.read, imp.conv)
  <2>1. batch \in Seq(Entries) /\ \A t \in 1..imp.read.turns : \E k \in DOMAIN batch : batch[k].turn = t
    BY <1>4, Numbers, AllOfTyped
  <2> HIDE DEF batch
  <2>2. DOMAIN Written(batch, stored) = DOMAIN stored \cup {batch[k].turn : k \in DOMAIN batch}
    BY <2>1, HistoryParts, WrittenTyped DEF DbTyped
  <2> QED
    BY <1>4, <2>1, <2>2 DEF batch
<1>5. CASE Fill
  <2>1. /\ imp.phase = "created" /\ imp'.phase = "none" /\ imported' = imp.turns
        /\ FirstStamp' = FirstStamp /\ FirstStamp \in {NoStamp, imp.stamp}
    BY <1>5 DEF Fill, Done, NoImport, FirstStamp, ImportInv
  <2>2. 1..imp.turns \subseteq DOMAIN stored'
    <3>1. 1..imp.read.turns \subseteq DOMAIN stored'
      BY <1>4, <1>5 DEF Fill, ConvInv
    <3>2. imp.turns <= imp.read.turns
      BY <2>1 DEF ImportInv
    <3> QED
      BY <3>1, <3>2, Numbers
  <2>3. FirstStamp = Stamp(log) => imp.turns = log.turns
    BY <2>1, Numbers DEF ImportInv
  <2>4. ImportInv'
    BY <1>1, <2>1 DEF ImportInv, Writes
  <2> QED
    BY <1>1, <2>1, <2>2, <2>3, <2>4 DEF StoredInv
<1>6. CASE Refill
  <2>1. /\ imp.phase = "reloaded" /\ imp'.phase = "refilled" /\ imp'.stamp = imp.stamp /\ imp'.turns = imp.turns
        /\ imp'.read = imp.read /\ imported' = imported /\ FirstStamp' = FirstStamp
    BY <1>6, Numbers DEF Refill, Step, ImportRecords, FirstStamp
  <2>2. 1..imp.read.turns \subseteq DOMAIN stored' /\ DOMAIN stored \subseteq DOMAIN stored'
    BY <1>4, <1>6 DEF Refill, ConvInv
  <2>3. ImportInv'
    BY <1>1, <2>1, <2>2, Numbers DEF ImportInv, Writes
  <2> QED
    BY <1>1, <2>1, <2>2, <2>3 DEF StoredInv
<1>7. CASE Record
  <2>1. /\ imp.phase = "refilled" /\ imp'.phase = "none" /\ imported' = imp.turns /\ stored' = stored
    BY <1>7 DEF Record, Done, NoImport
  <2>2. FirstStamp' \in {NoStamp, imp.stamp}
    <3>1. CASE convs = <<>>
      <4>1. convs' = <<>>
        BY <1>7, <3>1 DEF Record
      <4> QED
        BY <4>1 DEF FirstStamp
    <3>2. CASE convs # <<>>
      <4>1. DOMAIN convs = 1..Len(convs) /\ Len(convs) \in Nat /\ Len(convs) # 0
        BY <3>2, HistoryParts, EmptySeq DEF DbTyped
      <4>2. convs' = [c \in 1..Len(convs) |-> imp.stamp]
        BY <1>7, <4>1 DEF Record, NewStamp
      <4>3. convs' # <<>> /\ Head(convs') = imp.stamp
        BY <4>1, <4>2
      <4> QED
        BY <4>3 DEF FirstStamp
    <3> QED
      BY <3>1, <3>2
  <2>3. 1..imp.turns \subseteq DOMAIN stored
    BY <2>1, Numbers DEF ImportInv
  <2>4. FirstStamp' = Stamp(log) => imp.turns = log.turns
    BY <2>1, <2>2, Numbers DEF ImportInv
  <2>5. ImportInv'
    BY <1>1, <2>1, <2>2, Numbers DEF ImportInv, Writes
  <2> QED
    BY <1>1, <2>1, <2>3, <2>4, <2>5 DEF StoredInv
<1> QED
  BY <1>2, <1>3, <1>5, <1>6, <1>7

\* What a failure or a stop leaves.
LEMMA StoredStop ==
    ASSUME HistoryTypeOK, ImportInv, StoredInv, Abort \/ Crash
    PROVE  ImportInv' /\ StoredInv'
<1>1. UNCHANGED <<log, convs, stored, imported>> /\ imp'.phase = "none" /\ cut' = (cut \/ imp.phase = "created")
  BY DEF Abort, Crash, dbVars, NoImport
<1>2. FirstStamp' = FirstStamp /\ Stamp(log)' = Stamp(log)
  BY <1>1 DEF FirstStamp, Stamp
<1>3. ImportInv'
  BY <1>1, <1>2 DEF ImportInv, Writes
<1>4. ~cut' => ~cut /\ imp.phase # "created"
  BY <1>1
<1> QED
  BY <1>1, <1>2, <1>3, <1>4 DEF StoredInv

\* What an import that ended well found in the log is in the database and stays
\* there, for logs of any length, any number of tracking tasks writing the same
\* table, any failures and any stops but one between creating a conversation and
\* filling it: import_session takes the stamp before it reads the log, and records
\* it last.
THEOREM StoredCorrect == HistorySpec => []EveryTurnStored
<1>1. HistoryTypeOK /\ ConvInv /\ ImportInv /\ StoredInv /\ [HistoryNext]_historyVars => ImportInv' /\ StoredInv'
  BY StoredTrackers, StoredLog, StoredReads, StoredWrites, StoredStop DEF HistoryNext
<1>2. StoredInv => EveryTurnStored
  BY DEF StoredInv, EveryTurnStored
<1> QED
  BY <1>1, <1>2, StoredInit, TypesCorrect, PTL DEF HistorySpec

-----------------------------------------------------------------------------
(* The files of the daemon.  For any number of servers, commands, crashes and  *)
(* restarts: one server has the data directory and is the one the files name,  *)
(* unless a server locked an unlinked file, and an orderly end leaves no files *)
(* behind.                                                                     *)

\* The parts of the type invariant: servers, files and commands.
ServerStages == {"unborn", "spawned", "opened", "locked", "bound", "written", "ready", "serving",
                 "restarting", "draining", "ending", "releasing", "dead"}

ServersTyped ==
    /\ stage \in [Servers -> ServerStages]
    /\ file \in [Servers -> Servers \cup {None}]
    /\ moves \in [Servers -> 0..MaxMoves]
    /\ rest \in [Servers -> Seq({"pid", "port", "lock"})]

FilesTyped ==
    /\ {lockPath, pidFile} \subseteq Servers \cup {None}
    /\ portFile \in Ports \cup {None}
    /\ hidden \subseteq Servers
    /\ {unlinked, crashed} \subseteq BOOLEAN

CommandRecord ==
    [at : {"idle", "check", "probe", "cleaned", "drop", "dropped", "port", "health", "found", "start", "wait"},
     ensure : BOOLEAN, first : BOOLEAN, pid : Servers \cup {None}, port : Ports \cup {None}]

LEMMA DaemonParts == DaemonTypeOK <=> ServersTyped /\ FilesTyped /\ cmd \in [Commands -> CommandRecord]
BY DEF DaemonTypeOK, ServersTyped, FilesTyped, CommandRecord, ServerStages

\* The initial state is well typed.
LEMMA DaemonTypeInit == DaemonInit => DaemonTypeOK
<1>1. DaemonInit => ServersTyped
  <2>1. <<>> \in Seq({"pid", "port", "lock"}) /\ 0 \in 0..MaxMoves
    BY DaemonAssumption DEF DaemonAssumption
  <2>2. QED
    BY <2>1 DEF DaemonInit, ServersTyped, ServerStages
<1>2. DaemonInit => FilesTyped
  BY DEF DaemonInit, FilesTyped
<1>3. Idle \in CommandRecord
  BY DEF Idle, CommandRecord
<1>4. DaemonInit => cmd \in [Commands -> CommandRecord]
  BY <1>3 DEF DaemonInit
<1>5. QED
  BY <1>1, <1>2, <1>4, DaemonParts

\* What a server does.
ServerStep(s) ==
    \/ Launch(s) \/ Open(s) \/ Lock(s) \/ Refused(s) \/ Bind(s) \/ WritePid(s) \/ WritePort(s) \/ Serve(s)
    \/ Restart(s) \/ Rebind(s) \/ Shutdown(s) \/ Finish(s) \/ Release(s) \/ Remove(s) \/ Unlock(s) \/ Killed(s)

\* What a command does.
CommandStep(c) ==
    \/ Begin(c) \/ ReadPid(c) \/ Probe(c) \/ RemovePid(c) \/ RemovePort(c) \/ ReadPort(c) \/ Health(c)
    \/ StartServer(c) \/ LookAgain(c) \/ KillServer(c) \/ Quit(c)

\* A server that goes on to another stage.
LEMMA StageTyped ==
    ASSUME ServersTyped, NEW s \in Servers, NEW at \in ServerStages, Stage(s, at)
    PROVE  stage' \in [Servers -> ServerStages]
BY DEF ServersTyped, Stage

\* The process is gone.
LEMMA GoneTyped ==
    ASSUME DaemonTypeOK, NEW s \in Servers, Gone(s)
    PROVE  ServersTyped' /\ hidden' \subseteq Servers
<1>1. ServersTyped /\ FilesTyped
  BY DaemonParts
<1>2. stage' \in [Servers -> ServerStages]
  BY <1>1, StageTyped DEF Gone, ServerStages
<1>3. /\ file' \in [Servers -> Servers \cup {None}]
      /\ moves' \in [Servers -> 0..MaxMoves]
      /\ rest' \in [Servers -> Seq({"pid", "port", "lock"})]
  BY <1>1, DaemonAssumption DEF Gone, ServersTyped, DaemonAssumption
<1>4. QED
  BY <1>1, <1>2, <1>3 DEF Gone, ServersTyped, FilesTyped

\* A port is one.
LEMMA PortTyped == ASSUME ServersTyped, NEW s \in Servers PROVE Port(s) \in Ports
BY DEF ServersTyped, Port, Ports

\* What a server does keeps the types.
LEMMA TypeServer ==
    ASSUME DaemonTypeOK, NEW s \in Servers, ServerStep(s)
    PROVE  DaemonTypeOK'
<1>0. ServersTyped /\ FilesTyped /\ cmd \in [Commands -> CommandRecord]
  BY DaemonParts
<1>1. cmd' = cmd
  BY DEF ServerStep, Launch, Open, Lock, Refused, Bind, WritePid, WritePort, Serve, Restart, Rebind,
         Shutdown, Finish, Release, Remove, Unlock, Killed
<1>a. ServersTyped' /\ FilesTyped' => DaemonTypeOK'
  BY <1>0, <1>1 DEF DaemonTypeOK, ServersTyped, FilesTyped, CommandRecord, ServerStages
<1>2. CASE Launch(s) \/ Serve(s) \/ Restart(s) \/ Shutdown(s) \/ Finish(s)
  <2>1. \E at \in ServerStages : Stage(s, at)
    BY <1>2 DEF Launch, Serve, Restart, Shutdown, Finish, ServerStages
  <2>2. stage' \in [Servers -> ServerStages]
    BY <1>0, <2>1, StageTyped
  <2>3. UNCHANGED <<file, moves, rest, lockPath, fileVars, hidden, unlinked, crashed>>
    BY <1>2 DEF Launch, Serve, Restart, Shutdown, Finish
  <2>4. ServersTyped' /\ FilesTyped'
    BY <1>0, <2>2, <2>3 DEF ServersTyped, FilesTyped, fileVars
  <2>5. QED
    BY <2>4, <1>a
<1>3. CASE Open(s)
  <2>1. stage' \in [Servers -> ServerStages]
    BY <1>0, <1>3, StageTyped DEF Open, ServerStages
  <2>2. ServersTyped' /\ FilesTyped'
    BY <1>0, <1>3, <2>1 DEF Open, ServersTyped, FilesTyped, fileVars
  <2>3. QED
    BY <2>2, <1>a
<1>4. CASE Lock(s)
  <2>1. stage' \in [Servers -> ServerStages]
    BY <1>0, <1>4, StageTyped DEF Lock, ServerStages
  <2>2. unlinked' \in BOOLEAN
    BY <1>0, <1>4 DEF Lock, FilesTyped
  <2>3. ServersTyped' /\ FilesTyped'
    BY <1>0, <1>4, <2>1, <2>2 DEF Lock, ServersTyped, FilesTyped, fileVars
  <2>4. QED
    BY <2>3, <1>a
<1>5. CASE Refused(s) \/ Unlock(s) \/ Killed(s)
  <2>1. ServersTyped' /\ hidden' \subseteq Servers
    BY <1>5, GoneTyped DEF Refused, Unlock, Killed
  <2>2. UNCHANGED <<lockPath, fileVars, unlinked>> /\ crashed' \in BOOLEAN
    BY <1>0, <1>5 DEF Refused, Unlock, Killed, FilesTyped
  <2>3. FilesTyped'
    BY <1>0, <2>1, <2>2 DEF FilesTyped, fileVars
  <2>4. QED
    BY <2>1, <2>3, <1>a
<1>6. CASE Bind(s) \/ Rebind(s)
  <2>1. stage' \in [Servers -> ServerStages]
    BY <1>0, <1>6, StageTyped DEF Bind, Rebind, ServerStages
  <2>2. moves' = moves \/ (moves[s] < MaxMoves /\ moves' = [moves EXCEPT ![s] = @ + 1])
    BY <1>6 DEF Bind, Rebind
  <2>3. moves' \in [Servers -> 0..MaxMoves]
    <3>1. moves[s] \in 0..MaxMoves /\ MaxMoves \in Nat
      BY <1>0, DaemonAssumption DEF ServersTyped, DaemonAssumption
    <3>2. moves[s] < MaxMoves => moves[s] + 1 \in 0..MaxMoves
      BY <3>1
    <3>3. QED
      BY <1>0, <2>2, <3>2 DEF ServersTyped
  <2>4. UNCHANGED <<file, rest, lockPath, fileVars, hidden, unlinked, crashed>>
    BY <1>6 DEF Bind, Rebind
  <2>5. ServersTyped' /\ FilesTyped'
    BY <1>0, <2>1, <2>3, <2>4 DEF ServersTyped, FilesTyped, fileVars
  <2>6. QED
    BY <2>5, <1>a
<1>7. CASE WritePid(s) \/ WritePort(s)
  <2>1. stage' \in [Servers -> ServerStages]
    BY <1>0, <1>7, StageTyped DEF WritePid, WritePort, ServerStages
  <2>2. ServersTyped'
    BY <1>0, <1>7, <2>1 DEF WritePid, WritePort, ServersTyped
  <2>3. {lockPath', pidFile'} \subseteq Servers \cup {None} /\ portFile' \in Ports \cup {None}
    BY <1>0, <1>7, PortTyped DEF WritePid, WritePort, FilesTyped
  <2>4. hidden' \subseteq Servers
    BY <1>0, <1>7 DEF WritePid, WritePort, FilesTyped, NamedBy
  <2>5. FilesTyped'
    BY <1>0, <1>7, <2>3, <2>4 DEF WritePid, WritePort, FilesTyped
  <2>6. QED
    BY <2>2, <2>5, <1>a
<1>8. CASE Release(s)
  <2>1. stage' \in [Servers -> ServerStages]
    BY <1>0, <1>8, StageTyped DEF Release, ServerStages
  <2>2. Removals \in Seq({"pid", "port", "lock"}) /\ <<>> \in Seq({"pid", "port", "lock"})
    BY DEF Removals
  <2>3. rest' \in [Servers -> Seq({"pid", "port", "lock"})]
    BY <1>0, <1>8, <2>2 DEF Release, ServersTyped
  <2>4. ServersTyped' /\ FilesTyped'
    BY <1>0, <1>8, <2>1, <2>3 DEF Release, ServersTyped, FilesTyped, fileVars
  <2>5. QED
    BY <2>4, <1>a
<1>9. CASE Remove(s)
  <2>1. Tail(rest[s]) \in Seq({"pid", "port", "lock"})
    BY <1>0, <1>9 DEF Remove, ServersTyped
  <2>2. ServersTyped'
    BY <1>0, <1>9, <2>1 DEF Remove, ServersTyped
  <2>3. FilesTyped'
    BY <1>0, <1>9 DEF Remove, FilesTyped
  <2>4. QED
    BY <2>2, <2>3, <1>a
<1>10. QED
  BY <1>2, <1>3, <1>4, <1>5, <1>6, <1>7, <1>8, <1>9 DEF ServerStep

\* A command that goes on well typed.
LEMMA CommandTyped ==
    ASSUME cmd \in [Commands -> CommandRecord], NEW c \in Commands, NEW r \in CommandRecord, cmd' = [cmd EXCEPT ![c] = r]
    PROVE  cmd' \in [Commands -> CommandRecord]
OBVIOUS

CommandAt == {"idle", "check", "probe", "cleaned", "drop", "dropped", "port", "health", "found", "start", "wait"}

LEMMA GoesTyped ==
    ASSUME cmd \in [Commands -> CommandRecord], NEW c \in Commands, NEW at \in CommandAt, Goes(c, at)
    PROVE  cmd' \in [Commands -> CommandRecord]
<1>1. [cmd[c] EXCEPT !.at = at] \in CommandRecord
  BY DEF CommandRecord, CommandAt
<1>2. QED
  BY <1>1 DEF Goes

LEMMA NotFoundTyped ==
    ASSUME cmd \in [Commands -> CommandRecord], NEW c \in Commands, NotFound(c)
    PROVE  cmd' \in [Commands -> CommandRecord]
<1>1. Idle \in CommandRecord
  BY DEF Idle, CommandRecord
<1>2. cmd[c].first \in BOOLEAN
  BY DEF CommandRecord
<1>3. [Idle EXCEPT !.at = IF cmd[c].first THEN "start" ELSE "wait", !.ensure = TRUE, !.first = cmd[c].first]
        \in CommandRecord
  BY <1>2 DEF Idle, CommandRecord
<1>4. QED
  BY <1>1, <1>3 DEF NotFound

\* What a command does keeps the types.
LEMMA TypeCommand ==
    ASSUME DaemonTypeOK, NEW c \in Commands, CommandStep(c)
    PROVE  DaemonTypeOK'
<1>0. ServersTyped /\ FilesTyped /\ cmd \in [Commands -> CommandRecord]
  BY DaemonParts
<1>1. Idle \in CommandRecord
  BY DEF Idle, CommandRecord
<1>2. cmd' \in [Commands -> CommandRecord]
  <2>1. CASE Begin(c)
    <3>1. PICK e \in BOOLEAN : cmd' = [cmd EXCEPT ![c].at = "check", ![c].ensure = e]
      BY <2>1 DEF Begin
    <3>2. [cmd[c] EXCEPT !.at = "check", !.ensure = e] \in CommandRecord
      BY <1>0 DEF CommandRecord
    <3>3. cmd' = [cmd EXCEPT ![c] = [cmd[c] EXCEPT !.at = "check", !.ensure = e]]
      BY <1>0, <3>1
    <3>4. QED
      BY <1>0, <3>2, <3>3
  <2>2. CASE ReadPid(c)
    <3>1. CASE pidFile = None
      BY <1>0, <2>2, <3>1, NotFoundTyped DEF ReadPid
    <3>2. CASE pidFile # None
      <4>1. [cmd[c] EXCEPT !.at = "probe", !.pid = pidFile] \in CommandRecord
        BY <1>0 DEF CommandRecord, FilesTyped
      <4>2. cmd' = [cmd EXCEPT ![c] = [cmd[c] EXCEPT !.at = "probe", !.pid = pidFile]]
        BY <1>0, <2>2, <3>2 DEF ReadPid
      <4>3. QED
        BY <1>0, <4>1, <4>2
    <3>3. QED
      BY <3>1, <3>2
  <2>3. CASE ReadPort(c)
    <3>1. CASE portFile = None
      BY <1>0, <2>3, <3>1, NotFoundTyped DEF ReadPort
    <3>2. CASE portFile # None
      <4>1. [cmd[c] EXCEPT !.at = "health", !.port = portFile] \in CommandRecord
        BY <1>0 DEF CommandRecord, FilesTyped
      <4>2. cmd' = [cmd EXCEPT ![c] = [cmd[c] EXCEPT !.at = "health", !.port = portFile]]
        BY <1>0, <2>3, <3>2 DEF ReadPort
      <4>3. QED
        BY <1>0, <4>1, <4>2
    <3>3. QED
      BY <3>1, <3>2
  <2>4. CASE Probe(c) \/ RemovePid(c) \/ LookAgain(c)
    BY <1>0, <2>4, GoesTyped DEF Probe, RemovePid, LookAgain, CommandAt
  <2>5. CASE RemovePort(c) \/ Health(c)
    <3>1. NotFound(c) \/ \E at \in CommandAt : Goes(c, at)
      BY <2>5 DEF RemovePort, Health, CommandAt
    <3>2. QED
      BY <1>0, <3>1, GoesTyped, NotFoundTyped
  <2>6. CASE StartServer(c)
    <3>1. [Idle EXCEPT !.at = "wait", !.ensure = TRUE, !.first = FALSE] \in CommandRecord
      BY DEF Idle, CommandRecord
    <3>2. QED
      BY <1>0, <2>6, <3>1 DEF StartServer
  <2>7. CASE KillServer(c) \/ Quit(c)
    BY <1>0, <1>1, <2>7 DEF KillServer, Quit
  <2>8. QED
    BY <2>1, <2>2, <2>3, <2>4, <2>5, <2>6, <2>7 DEF CommandStep
<1>3. ServersTyped'
  <2>1. CASE StartServer(c)
    <3>1. PICK s \in Servers : Stage(s, "spawned")
      BY <2>1 DEF StartServer
    <3>2. stage' \in [Servers -> ServerStages]
      BY <1>0, <3>1, StageTyped DEF ServerStages
    <3>3. QED
      BY <1>0, <2>1, <3>2 DEF StartServer, ServersTyped
  <2>2. CASE KillServer(c)
    <3>1. stage' \in [Servers -> ServerStages]
      BY <1>0, <2>2 DEF KillServer, Stage, ServersTyped, ServerStages
    <3>2. QED
      BY <1>0, <2>2, <3>1 DEF KillServer, ServersTyped
  <2>3. CASE UNCHANGED serverVars
    BY <1>0, <2>3 DEF serverVars, ServersTyped
  <2>4. QED
    BY <2>1, <2>2, <2>3 DEF CommandStep, Begin, ReadPid, Probe, RemovePid, RemovePort, ReadPort, Health,
        LookAgain, Quit
<1>4. FilesTyped'
  <2>1. NamedBy(pidFile, None) \subseteq Servers /\ NamedBy(None, portFile) \subseteq Servers
    BY DEF NamedBy
  <2>2. CASE RemovePid(c)
    BY <1>0, <2>1, <2>2 DEF RemovePid, FilesTyped
  <2>3. CASE RemovePort(c)
    BY <1>0, <2>1, <2>3 DEF RemovePort, FilesTyped
  <2>4. CASE UNCHANGED <<lockPath, fileVars, unlinked, hidden, crashed>>
    BY <1>0, <2>4 DEF fileVars, FilesTyped
  <2>5. QED
    BY <2>2, <2>3, <2>4 DEF CommandStep, Begin, ReadPid, Probe, ReadPort, Health, StartServer, LookAgain,
        KillServer, Quit
<1>5. QED
  BY <1>2, <1>3, <1>4 DEF DaemonTypeOK, ServersTyped, FilesTyped, CommandRecord, ServerStages

\* Every variable has its type, for any number of servers and commands.
THEOREM DaemonTypeCorrect == DaemonSpec => []DaemonTypeOK
<1>1. DaemonTypeOK /\ [DaemonNext]_daemonVars => DaemonTypeOK'
  <2> SUFFICES ASSUME DaemonTypeOK, [DaemonNext]_daemonVars PROVE DaemonTypeOK'
    OBVIOUS
  <2>1. CASE DaemonNext
    BY <2>1, TypeServer, TypeCommand DEF DaemonNext, ServerStep, CommandStep
  <2>2. CASE UNCHANGED daemonVars
    BY <2>2 DEF daemonVars, serverVars, fileVars, DaemonTypeOK
  <2>3. QED
    BY <2>1, <2>2
<1>2. QED
  BY <1>1, DaemonTypeInit, PTL DEF DaemonSpec

-----------------------------------------------------------------------------

\* What remains to be removed, in the order of Removals.
AllFiles == <<"pid", "port", "lock">>
AllButPid == <<"port", "lock">>
LockOnly == <<"lock">>

RestInv ==
    \A s \in Servers :
        /\ rest[s] \in {AllFiles, AllButPid, LockOnly, <<>>}
        /\ rest[s] # <<>> => stage[s] = "releasing"

\* Servers that hold a lock hold different files; those that may still touch the
\* directory hold the file at daemon.lock, unless a removed one was locked.
LockInv ==
    /\ \A s \in Servers : stage[s] = "opened" \/ Holds(s) => file[s] # None
    /\ \A s, t \in Servers : Holds(s) /\ Holds(t) /\ file[s] = file[t] => s = t
    /\ ~unlinked => \A s \in Servers : Active(s) => file[s] = lockPath

\* A server that has written its files finds them as it wrote them.
NamedInv ==
    ~unlinked => \A s \in Servers \ hidden :
        /\ stage[s] = "written" => pidFile = s
        /\ stage[s] \in {"ready", "serving", "restarting"} => pidFile = s /\ portFile = Port(s)

\* The server will remove its pid file, or the port file, if it ends in order.
Lives(s) == stage[s] \in {"bound", "written", "ready", "serving", "restarting", "draining", "ending"}
OwesPid(s) == Lives(s) \/ rest[s] = AllFiles
OwesPort(s) == Lives(s) \/ rest[s] \in {AllFiles, AllButPid}

\* A pid file is removed by the server it names, a port file by some server.
OwedInv ==
    ~crashed =>
        /\ pidFile # None => OwesPid(pidFile)
        /\ portFile # None => \E s \in Servers : OwesPort(s)

DaemonInv == DaemonTypeOK /\ RestInv /\ LockInv /\ NamedInv /\ OwedInv

\* The initial state has it all.
LEMMA DaemonInvInit == DaemonInit => DaemonInv
<1> SUFFICES ASSUME DaemonInit PROVE DaemonInv
  OBVIOUS
<1>1. DaemonTypeOK
  BY DaemonTypeInit
<1>2. RestInv
  BY DEF DaemonInit, RestInv
<1>3. LockInv
  BY DEF DaemonInit, LockInv, Holds, Active
<1>4. NamedInv /\ OwedInv
  BY DEF DaemonInit, NamedInv, OwedInv
<1>5. QED
  BY <1>1, <1>2, <1>3, <1>4 DEF DaemonInv

\* The removals, one by one.
LEMMA RemovalOrder ==
    /\ Removals = AllFiles
    /\ Head(AllFiles) = "pid" /\ Tail(AllFiles) = AllButPid
    /\ Head(AllButPid) = "port" /\ Tail(AllButPid) = LockOnly
    /\ Head(LockOnly) = "lock" /\ Tail(LockOnly) = <<>>
    /\ AllFiles # <<>> /\ AllButPid # <<>> /\ LockOnly # <<>>
    /\ AllFiles # AllButPid /\ AllFiles # LockOnly /\ AllButPid # LockOnly
BY DEF Removals, AllFiles, AllButPid, LockOnly

\* A server has files to remove only while it releases them, and removes them in order.
LEMMA RestServer ==
    ASSUME DaemonTypeOK, RestInv, NEW s \in Servers, ServerStep(s)
    PROVE  RestInv'
<1>0. ServersTyped
  BY DaemonParts
<1>1. CASE Release(s)
  <2>1. rest' = [rest EXCEPT ![s] = AllFiles] \/ rest' = [rest EXCEPT ![s] = <<>>]
    BY <1>1, RemovalOrder DEF Release
  <2>2. stage' = [stage EXCEPT ![s] = "releasing"]
    BY <1>1 DEF Release, Stage
  <2>3. QED
    BY <1>0, <2>1, <2>2 DEF RestInv, ServersTyped
<1>2. CASE Remove(s)
  <2>1. stage' = stage /\ rest' = [rest EXCEPT ![s] = Tail(rest[s])] /\ stage[s] = "releasing"
    BY <1>2 DEF Remove
  <2>2. Tail(rest[s]) \in {AllButPid, LockOnly, <<>>}
    BY <1>2, RemovalOrder DEF RestInv, Remove
  <2>3. QED
    BY <1>0, <2>1, <2>2 DEF RestInv, ServersTyped
<1>3. CASE Refused(s) \/ Unlock(s) \/ Killed(s)
  <2>1. stage' = [stage EXCEPT ![s] = "dead"] /\ rest' = [rest EXCEPT ![s] = <<>>]
    BY <1>3 DEF Refused, Unlock, Killed, Gone, Stage
  <2>2. QED
    BY <1>0, <2>1 DEF RestInv, ServersTyped
<1>4. CASE UNCHANGED rest /\ stage[s] # "releasing" /\ \E at \in ServerStages : Stage(s, at)
  BY <1>0, <1>4 DEF RestInv, ServersTyped, Stage
<1>5. ServerStep(s) /\ ~(Release(s) \/ Remove(s) \/ Refused(s) \/ Unlock(s) \/ Killed(s))
        => UNCHANGED rest /\ stage[s] # "releasing" /\ \E at \in ServerStages : Stage(s, at)
  BY DEF ServerStep, Launch, Open, Lock, Bind, WritePid, WritePort, Serve, Restart, Rebind, Shutdown, Finish,
         ServerStages
<1>6. QED
  BY <1>1, <1>2, <1>3, <1>4, <1>5

\* Under way to a lock a server holds none, and another may keep it from it.
LEMMA LockServer ==
    ASSUME DaemonTypeOK, RestInv, LockInv, NEW s \in Servers, ServerStep(s)
    PROVE  LockInv'
<1>0. ServersTyped /\ FilesTyped /\ None \notin Servers
  BY DaemonParts, DaemonAssumption DEF DaemonAssumption
<1>1. CASE Launch(s)
  BY <1>0, <1>1 DEF Launch, Stage, LockInv, Holds, Active, ServersTyped
<1>2. CASE Open(s)
  <2>1. /\ stage[s] = "spawned" /\ stage' = [stage EXCEPT ![s] = "opened"]
        /\ lockPath' # None /\ (lockPath # None => lockPath' = lockPath)
        /\ file' = [file EXCEPT ![s] = lockPath'] /\ rest' = rest /\ unlinked' = unlinked
    BY <1>0, <1>2 DEF Open, Stage
  <2>2. \A t \in Servers : (Holds(t)' <=> Holds(t)) /\ (Active(t)' <=> Active(t)) /\ (Holds(t) => t # s)
    BY <1>0, <2>1 DEF Holds, Active, ServersTyped
  <2>3. \A t \in Servers : t # s => file'[t] = file[t] /\ stage'[t] = stage[t]
    BY <1>0, <2>1 DEF ServersTyped
  <2>4. file'[s] # None
    BY <1>0, <2>1 DEF ServersTyped
  <2>5. \A t \in Servers : Active(t) => Holds(t)
    BY DEF Active
  <2>6. QED
    BY <2>1, <2>2, <2>3, <2>4, <2>5 DEF LockInv
<1>3. CASE Lock(s)
  <2>1. /\ stage[s] = "opened" /\ stage' = [stage EXCEPT ![s] = "locked"]
        /\ UNCHANGED <<file, rest, lockPath>> /\ (unlinked' <=> unlinked \/ file[s] # lockPath)
        /\ \A t \in Servers : Holds(t) => file[t] # file[s]
    BY <1>0, <1>3 DEF Lock, Stage, FilesTyped
  <2>2. \A t \in Servers : t # s => (Holds(t)' <=> Holds(t)) /\ (Active(t)' <=> Active(t))
    BY <1>0, <2>1 DEF Holds, Active, ServersTyped
  <2>3. \A t \in Servers : t # s => stage'[t] = stage[t]
    BY <1>0, <2>1 DEF ServersTyped
  <2>4. QED
    BY <2>1, <2>2, <2>3 DEF LockInv
<1>4. CASE Refused(s) \/ Unlock(s) \/ Killed(s)
  <2>1. /\ stage' = [stage EXCEPT ![s] = "dead"] /\ file' = [file EXCEPT ![s] = None]
        /\ rest' = [rest EXCEPT ![s] = <<>>] /\ UNCHANGED <<lockPath, unlinked>>
    BY <1>4 DEF Refused, Unlock, Killed, Gone, Stage
  <2>2. ~Holds(s)' /\ ~Active(s)' /\ stage'[s] # "opened"
    BY <1>0, <2>1 DEF Holds, Active, ServersTyped
  <2>3. \A t \in Servers : t # s =>
            /\ stage'[t] = stage[t] /\ file'[t] = file[t]
            /\ (Holds(t)' <=> Holds(t)) /\ (Active(t)' <=> Active(t))
    BY <1>0, <2>1 DEF Holds, Active, ServersTyped
  <2>4. QED
    BY <2>1, <2>2, <2>3 DEF LockInv
<1>5. CASE Remove(s)
  <2>1. /\ stage[s] = "releasing" /\ rest[s] # <<>> /\ UNCHANGED <<stage, file, unlinked>>
        /\ rest' = [rest EXCEPT ![s] = Tail(rest[s])]
        /\ (Head(rest[s]) # "lock" => lockPath' = lockPath)
    BY <1>5 DEF Remove
  <2>2. \A t \in Servers : (Holds(t)' <=> Holds(t)) /\ (Active(t)' => Active(t))
    BY <1>0, <2>1 DEF Holds, Active, ServersTyped
  <2>3. CASE Head(rest[s]) # "lock"
    BY <2>1, <2>2, <2>3 DEF LockInv
  <2>4. CASE Head(rest[s]) = "lock"
    <3>1. Tail(rest[s]) = <<>>
      BY <2>1, <2>4, RemovalOrder DEF RestInv
    <3>2. ~Active(s)' /\ Active(s)
      BY <1>0, <2>1, <3>1 DEF Active, Holds, ServersTyped
    <3>3. \A t \in Servers : Active(t) => Holds(t)
      BY DEF Active
    <3>4. ~unlinked => \A t \in Servers : ~Active(t)'
      BY <2>2, <3>2, <3>3 DEF LockInv
    <3>5. QED
      BY <2>1, <2>2, <3>4 DEF LockInv
  <2>5. QED
    BY <2>3, <2>4
<1>6. CASE UNCHANGED <<file, lockPath, unlinked>> /\ Holds(s) /\ Active(s)
           /\ (\A t \in Servers : Holds(t)' <=> Holds(t)) /\ (\A t \in Servers : Active(t)' => Active(t))
           /\ (\A t \in Servers : stage'[t] = "opened" => stage[t] = "opened")
  BY <1>6 DEF LockInv
<1>7. ASSUME \/ Bind(s) \/ WritePid(s) \/ WritePort(s) \/ Serve(s) \/ Restart(s) \/ Rebind(s) \/ Shutdown(s)
             \/ Finish(s) \/ Release(s)
      PROVE  LockInv'
  <2>1. UNCHANGED <<file, lockPath, unlinked>>
    BY <1>7 DEF Bind, WritePid, WritePort, Serve, Restart, Rebind, Shutdown, Finish, Release
  <2>2. PICK at \in {"bound", "written", "ready", "serving", "restarting", "draining", "ending", "releasing"} :
            stage' = [stage EXCEPT ![s] = at]
    BY <1>7 DEF Bind, WritePid, WritePort, Serve, Restart, Rebind, Shutdown, Finish, Release, Stage
  <2>3. stage[s] \in {"locked", "bound", "written", "ready", "serving", "restarting", "draining", "ending"}
    BY <1>7 DEF Bind, WritePid, WritePort, Serve, Restart, Rebind, Shutdown, Finish, Release
  <2>4. Holds(s) /\ Active(s)
    BY <2>3 DEF Holds, Active
  <2>5. \A t \in Servers : t # s => rest'[t] = rest[t]
    BY <1>0, <1>7 DEF Bind, WritePid, WritePort, Serve, Restart, Rebind, Shutdown, Finish, Release, ServersTyped
  <2>6. \A t \in Servers : (Holds(t)' <=> Holds(t)) /\ (Active(t)' => Active(t))
                           /\ (stage'[t] = "opened" => stage[t] = "opened")
    BY <1>0, <2>2, <2>4, <2>5 DEF Holds, Active, ServersTyped
  <2>7. QED
    BY <1>6, <2>1, <2>4, <2>6
<1>8. QED
  BY <1>1, <1>2, <1>3, <1>4, <1>5, <1>7 DEF ServerStep

\* To a server a command does one of three things: it starts it, it makes it end,
\* or nothing.
ServersOf(s) ==
    \/ stage[s] = "unborn" /\ stage' = [stage EXCEPT ![s] = "spawned"]
    \/ stage[s] = "serving" /\ stage' = [stage EXCEPT ![s] = "draining"]

LEMMA CommandServers ==
    ASSUME NEW c \in Commands, CommandStep(c), DaemonTypeOK
    PROVE  /\ UNCHANGED <<file, moves, rest, lockPath, unlinked, crashed>>
           /\ stage' = stage \/ \E s \in Servers : ServersOf(s)
<1>0. ServersTyped
  BY DaemonParts
<1>1. CASE StartServer(c)
  BY <1>1 DEF StartServer, Stage, ServersOf
<1>2. CASE KillServer(c)
  <2>1. cmd[c].pid \in Servers \/ stage' = stage \/ cmd[c].pid = None
    BY <1>2, DaemonParts DEF CommandRecord
  <2>2. stage[None] = "serving" /\ stage' = [stage EXCEPT ![None] = "draining"] => stage' = stage
    BY <1>0, DaemonAssumption DEF ServersTyped, DaemonAssumption
  <2>3. QED
    BY <1>2, <2>1, <2>2 DEF KillServer, Stage, ServersOf
<1>3. CASE UNCHANGED <<serverVars, lockPath, unlinked, crashed>>
  BY <1>3 DEF serverVars
<1>4. QED
  BY <1>1, <1>2, <1>3 DEF CommandStep, Begin, ReadPid, Probe, RemovePid, RemovePort, ReadPort, Health,
      LookAgain, Quit

\* Commands have no part in the locks.
LEMMA LockCommand ==
    ASSUME DaemonTypeOK, RestInv, LockInv, NEW c \in Commands, CommandStep(c)
    PROVE  RestInv' /\ LockInv'
<1>0. ServersTyped
  BY DaemonParts
<1>1. UNCHANGED <<file, rest, lockPath, unlinked>>
  BY CommandServers
<1>2. CASE stage' = stage
  BY <1>1, <1>2 DEF RestInv, LockInv, Holds, Active
<1>3. ASSUME NEW s \in Servers, ServersOf(s) PROVE RestInv' /\ LockInv'
  <2>1. \A t \in Servers : /\ (Holds(t)' <=> Holds(t)) /\ (Active(t)' <=> Active(t))
                           /\ (stage'[t] = "opened" => stage[t] = "opened")
                           /\ (stage[t] = "releasing" => stage'[t] = "releasing")
    BY <1>0, <1>1, <1>3 DEF Holds, Active, ServersTyped, ServersOf
  <2>2. QED
    BY <1>1, <2>1 DEF RestInv, LockInv
<1>4. QED
  BY <1>2, <1>3, CommandServers

\* One server at most may touch the directory: the files they locked are different,
\* and both would be the one at daemon.lock.
LEMMA OneActive ==
    ASSUME LockInv, ~unlinked, NEW s \in Servers, NEW t \in Servers, Active(s), Active(t)
    PROVE  s = t
BY DEF LockInv, Active

-----------------------------------------------------------------------------

\* The files a server wrote are touched by itself, or by a command, which hides it.
IsNamed(s) ==
    /\ stage[s] = "written" => pidFile = s
    /\ stage[s] \in {"ready", "serving", "restarting"} => pidFile = s /\ portFile = Port(s)

\* What a server does changes nothing of the others.
LEMMA OthersKept ==
    ASSUME DaemonTypeOK, NEW s \in Servers, ServerStep(s), NEW t \in Servers, t # s
    PROVE  stage'[t] = stage[t] /\ moves'[t] = moves[t] /\ rest'[t] = rest[t] /\ (unlinked => unlinked')
<1>0. ServersTyped
  BY DaemonParts
<1>1. stage' = stage \/ \E at \in ServerStages : stage' = [stage EXCEPT ![s] = at]
  BY DEF ServerStep, Launch, Open, Lock, Refused, Bind, WritePid, WritePort, Serve, Restart, Rebind,
         Shutdown, Finish, Release, Remove, Unlock, Killed, Gone, Stage, ServerStages
<1>2. moves' = moves \/ \E n \in Nat : moves' = [moves EXCEPT ![s] = n]
  <2>1. moves[s] + 1 \in Nat /\ 0 \in Nat
    BY <1>0, DaemonAssumption DEF ServersTyped, DaemonAssumption
  <2>2. CASE Bind(s) \/ Rebind(s)
    BY <2>1, <2>2 DEF Bind, Rebind
  <2>3. CASE Refused(s) \/ Unlock(s) \/ Killed(s)
    BY <2>1, <2>3 DEF Refused, Unlock, Killed, Gone
  <2>4. QED
    BY <2>2, <2>3 DEF ServerStep, Launch, Open, Lock, WritePid, WritePort, Serve, Restart, Shutdown, Finish,
        Release, Remove
<1>3. rest' = rest \/ \E r : rest' = [rest EXCEPT ![s] = r]
  BY DEF ServerStep, Launch, Open, Lock, Refused, Bind, WritePid, WritePort, Serve, Restart, Rebind,
         Shutdown, Finish, Release, Remove, Unlock, Killed, Gone
<1>4. unlinked => unlinked'
  BY DEF ServerStep, Launch, Open, Lock, Refused, Bind, WritePid, WritePort, Serve, Restart, Rebind,
         Shutdown, Finish, Release, Remove, Unlock, Killed
<1>5. QED
  BY <1>0, <1>1, <1>2, <1>3, <1>4 DEF ServersTyped

LEMMA NamedOther ==
    ASSUME DaemonTypeOK, LockInv, NamedInv, NEW s \in Servers, ServerStep(s), ~unlinked',
           NEW t \in Servers \ hidden', t # s
    PROVE  IsNamed(t)'
<1>1. stage'[t] = stage[t] /\ moves'[t] = moves[t] /\ ~unlinked
  BY OthersKept
<1>2. Port(t)' = Port(t)
  BY <1>1 DEF Port
<1>3. t \notin hidden
  BY DEF ServerStep, Launch, Open, Lock, Refused, Bind, WritePid, WritePort, Serve, Restart, Rebind,
         Shutdown, Finish, Release, Remove, Unlock, Killed, Gone
<1>4. CASE UNCHANGED <<pidFile, portFile>>
  BY <1>1, <1>2, <1>3, <1>4 DEF NamedInv, IsNamed
<1>5. CASE WritePid(s) \/ WritePort(s) \/ Remove(s)
  <2>1. Active(s)
    BY <1>5 DEF WritePid, WritePort, Remove, Active, Holds
  <2>2. ~Active(t)
    BY <1>1, <2>1, OneActive
  <2>3. stage[t] \notin {"written", "ready", "serving", "restarting"}
    BY <2>2 DEF Active, Holds
  <2>4. QED
    BY <1>1, <2>3 DEF IsNamed
<1>6. QED
  BY <1>4, <1>5 DEF ServerStep, Launch, Open, Lock, Refused, Bind, Serve, Restart, Rebind, Shutdown, Finish,
      Release, Unlock, Killed, fileVars

\* A port is not the absence of one.
LEMMA PortThere == ASSUME ServersTyped, NEW s \in Servers PROVE Port(s) # None
BY PortTyped, DaemonAssumption DEF DaemonAssumption, Ports

LEMMA NamedSelf ==
    ASSUME DaemonTypeOK, NamedInv, NEW s \in Servers, ServerStep(s), ~unlinked', s \notin hidden'
    PROVE  IsNamed(s)'
<1>0. ServersTyped
  BY DaemonParts
<1>1. CASE WritePid(s)
  BY <1>0, <1>1 DEF WritePid, Stage, IsNamed, ServersTyped
<1>2. CASE WritePort(s)
  <2>1. s \notin hidden /\ stage[s] = "written" /\ ~unlinked /\ UNCHANGED <<moves, pidFile>>
        /\ stage' = [stage EXCEPT ![s] = "ready"] /\ portFile' = Port(s)
    BY <1>2 DEF WritePort, Stage
  <2>2. Port(s)' = Port(s)
    BY <2>1 DEF Port
  <2>3. pidFile = s
    BY <2>1 DEF NamedInv
  <2>4. QED
    BY <1>0, <2>1, <2>2, <2>3 DEF IsNamed, ServersTyped
<1>3. CASE Serve(s) \/ Restart(s)
  <2>1. s \notin hidden /\ stage[s] \in {"ready", "serving"} /\ ~unlinked /\ UNCHANGED <<moves, pidFile, portFile>>
        /\ stage'[s] # "written"
    BY <1>0, <1>3 DEF Serve, Restart, Stage, fileVars, ServersTyped
  <2>2. Port(s)' = Port(s)
    BY <2>1 DEF Port
  <2>3. QED
    BY <2>1, <2>2 DEF IsNamed, NamedInv
<1>4. CASE Rebind(s)
  <2>1. s \notin hidden /\ stage[s] = "restarting" /\ ~unlinked /\ UNCHANGED <<pidFile, portFile>>
        /\ stage'[s] = "ready" /\ ((portFile = Port(s) /\ moves' = moves) \/ portFile = None)
    BY <1>0, <1>4 DEF Rebind, Stage, fileVars, ServersTyped
  <2>2. pidFile = s /\ portFile = Port(s)
    BY <2>1 DEF NamedInv
  <2>3. portFile # None
    BY <1>0, <2>2, PortThere
  <2>4. Port(s)' = Port(s)
    BY <2>1, <2>3 DEF Port
  <2>5. QED
    BY <2>1, <2>2, <2>4 DEF IsNamed
<1>5. CASE Remove(s)
  BY <1>5 DEF Remove, IsNamed
<1>6. CASE stage'[s] \notin {"written", "ready", "serving", "restarting"}
  BY <1>6 DEF IsNamed
<1>7. QED
  BY <1>0, <1>1, <1>2, <1>3, <1>4, <1>5, <1>6 DEF ServerStep, Launch, Open, Lock, Refused, Bind, Shutdown, Finish,
      Release, Unlock, Killed, Gone, Stage, ServersTyped

LEMMA NamedServer ==
    ASSUME DaemonTypeOK, LockInv, NamedInv, NEW s \in Servers, ServerStep(s)
    PROVE  NamedInv'
<1>1. ~unlinked' => \A t \in Servers \ hidden' : IsNamed(t)'
  BY NamedOther, NamedSelf
<1>2. QED
  BY <1>1 DEF NamedInv, IsNamed

\* A command that removes a file hides the server it named.
LEMMA NamedCommand ==
    ASSUME DaemonTypeOK, NamedInv, NEW c \in Commands, CommandStep(c)
    PROVE  NamedInv'
<1>0. ServersTyped
  BY DaemonParts
<1> SUFFICES ASSUME ~unlinked', NEW t \in Servers \ hidden' PROVE IsNamed(t)'
  BY DEF NamedInv, IsNamed
<1>1. UNCHANGED <<moves, unlinked>> /\ (stage' = stage \/ \E s \in Servers : ServersOf(s))
  BY CommandServers
<1>2. Port(t)' = Port(t)
  BY <1>1 DEF Port
<1>3. t \in Servers /\ t \notin hidden /\ ~unlinked
  BY <1>1 DEF CommandStep, Begin, ReadPid, Probe, RemovePid, RemovePort, ReadPort, Health, StartServer, LookAgain,
         KillServer, Quit
<1>4. IsNamed(t)
  BY <1>3 DEF NamedInv, IsNamed
<1>5. stage'[t] = stage[t] \/ stage'[t] \in {"spawned", "draining"}
  BY <1>0, <1>1 DEF ServersOf, ServersTyped
<1>6. CASE UNCHANGED fileVars
  BY <1>2, <1>4, <1>5, <1>6 DEF IsNamed, fileVars
<1>7. CASE RemovePid(c)
  <2>1. t \notin NamedBy(pidFile, None) /\ stage' = stage
    BY <1>7 DEF RemovePid, serverVars
  <2>2. ~Alive(t) \/ pidFile # t
    BY <1>3, <2>1 DEF NamedBy
  <2>3. stage[t] \notin {"written", "ready", "serving", "restarting"}
    BY <1>4, <2>2 DEF IsNamed, Alive
  <2>4. QED
    BY <2>1, <2>3 DEF IsNamed
<1>8. CASE RemovePort(c)
  <2>1. t \notin NamedBy(None, portFile) /\ stage' = stage /\ pidFile' = pidFile
    BY <1>8 DEF RemovePort, serverVars
  <2>2. portFile = Port(t) => portFile # None /\ portFile.of = t
    BY <1>0, <1>3, PortThere DEF Port
  <2>3. ~Alive(t) \/ portFile # Port(t)
    BY <1>3, <2>1, <2>2 DEF NamedBy
  <2>4. stage[t] \notin {"ready", "serving", "restarting"}
    BY <1>4, <2>3 DEF IsNamed, Alive
  <2>5. QED
    BY <1>4, <2>1, <2>4 DEF IsNamed
<1>9. QED
  BY <1>6, <1>7, <1>8 DEF CommandStep, Begin, ReadPid, Probe, ReadPort, Health, StartServer, LookAgain,
      KillServer, Quit

-----------------------------------------------------------------------------

\* What a server does to the files the others owe.
LEMMA OwedOthers ==
    ASSUME DaemonTypeOK, NEW s \in Servers, ServerStep(s), NEW t \in Servers, t # s
    PROVE  (OwesPid(t) => OwesPid(t)') /\ (OwesPort(t) => OwesPort(t)')
BY OthersKept DEF OwesPid, OwesPort, Lives

\* A server that ends in order removes what it owes, or leaves it to the server
\* whose pid file it finds.
LEMMA OwedServer ==
    ASSUME DaemonTypeOK, RestInv, OwedInv, NEW s \in Servers, ServerStep(s)
    PROVE  OwedInv'
<1>0. ServersTyped /\ FilesTyped
  BY DaemonParts
<1> SUFFICES ASSUME ~crashed'
             PROVE  /\ pidFile' # None => OwesPid(pidFile)'
                    /\ portFile' # None => \E t \in Servers : OwesPort(t)'
  BY DEF OwedInv
<1>1. ~Killed(s) /\ ~crashed
  BY DEF ServerStep, Launch, Open, Lock, Refused, Bind, WritePid, WritePort, Serve, Restart, Rebind,
         Shutdown, Finish, Release, Remove, Unlock, Killed
<1>2. /\ pidFile # None => pidFile \in Servers /\ OwesPid(pidFile)
      /\ portFile # None => \E t \in Servers : OwesPort(t)
  BY <1>0, <1>1 DEF OwedInv, FilesTyped
<1>3. ASSUME UNCHANGED <<pidFile, portFile>>, OwesPid(s) => OwesPid(s)', OwesPort(s) => OwesPort(s)'
      PROVE  /\ pidFile' # None => OwesPid(pidFile)'
             /\ portFile' # None => \E t \in Servers : OwesPort(t)'
  <2>1. \A t \in Servers : (OwesPid(t) => OwesPid(t)') /\ (OwesPort(t) => OwesPort(t)')
    BY <1>3, OwedOthers
  <2>2. pidFile' # None => OwesPid(pidFile)'
    <3>1. \A t \in Servers : pidFile = t => (OwesPid(pidFile)' <=> OwesPid(t)')
      BY <1>3 DEF OwesPid, Lives
    <3>2. QED
      BY <1>2, <1>3, <2>1, <3>1
  <2>3. QED
    BY <1>2, <1>3, <2>1, <2>2
<1>4. CASE Launch(s) \/ Open(s) \/ Lock(s) \/ Bind(s) \/ Serve(s) \/ Restart(s) \/ Rebind(s) \/ Shutdown(s)
           \/ Finish(s)
  <2>1. UNCHANGED <<pidFile, portFile, rest>>
    BY <1>4 DEF Launch, Open, Lock, Bind, Serve, Restart, Rebind, Shutdown, Finish, fileVars
  <2>2. Lives(s) => Lives(s)'
    BY <1>0, <1>4 DEF Launch, Open, Lock, Bind, Serve, Restart, Rebind, Shutdown, Finish, Stage, Lives, ServersTyped
  <2>3. QED
    BY <1>3, <2>1, <2>2 DEF OwesPid, OwesPort
<1>5. CASE WritePid(s) \/ WritePort(s)
  <2>1. Lives(s)' /\ Lives(s)
    BY <1>0, <1>5 DEF WritePid, WritePort, Stage, Lives, ServersTyped
  <2>2. OwesPid(s)' /\ OwesPort(s)'
    BY <2>1 DEF OwesPid, OwesPort
  <2>3. pidFile' # None => OwesPid(pidFile)'
    <3>1. pidFile' = s \/ pidFile' = pidFile
      BY <1>5 DEF WritePid, WritePort
    <3>2. \A t \in Servers : pidFile' = t => (OwesPid(pidFile)' <=> OwesPid(t)')
      BY DEF OwesPid, Lives
    <3>3. QED
      BY <1>2, <2>2, <3>1, <3>2, OwedOthers
  <2>4. QED
    BY <2>2, <2>3
<1>6. CASE Release(s)
  <2>1. UNCHANGED <<pidFile, portFile>> /\ stage[s] = "ending"
    BY <1>6 DEF Release, fileVars
  <2>2. CASE Dominated(s)
    <3>1. rest'[s] = AllFiles
      BY <1>0, <1>6, <2>2, RemovalOrder DEF Release, ServersTyped
    <3>2. OwesPid(s)' /\ OwesPort(s)'
      BY <3>1 DEF OwesPid, OwesPort
    <3>3. QED
      BY <1>3, <2>1, <3>2
  <2>3. CASE ~Dominated(s)
    <3>1. pidFile \in Servers /\ pidFile # s /\ OwesPid(pidFile)
      BY <1>2, <2>3 DEF Dominated
    <3>2. PICK t \in Servers : t = pidFile /\ t # s /\ OwesPid(t)
      BY <3>1
    <3>3. OwesPid(t) => OwesPort(t)
      BY RemovalOrder DEF OwesPid, OwesPort
    <3>4. OwesPid(t)' /\ OwesPort(t)'
      BY <3>2, <3>3, OwedOthers
    <3>5. pidFile' = t => (OwesPid(pidFile)' <=> OwesPid(t)')
      BY DEF OwesPid, Lives
    <3>6. QED
      BY <2>1, <3>2, <3>4, <3>5
  <2>4. QED
    BY <2>2, <2>3
<1>7. CASE Remove(s)
  <2>1. /\ stage[s] = "releasing" /\ stage' = stage /\ rest' = [rest EXCEPT ![s] = Tail(rest[s])]
        /\ pidFile' = (IF Head(rest[s]) = "pid" THEN None ELSE pidFile)
        /\ portFile' = (IF Head(rest[s]) = "port" THEN None ELSE portFile)
    BY <1>7 DEF Remove
  <2>2. rest[s] \in {AllFiles, AllButPid, LockOnly}
    BY <1>7 DEF Remove, RestInv
  <2>3. CASE rest[s] = AllFiles
    <3>1. pidFile' = None /\ portFile' = portFile /\ rest'[s] = AllButPid
      BY <1>0, <2>1, <2>3, RemovalOrder DEF ServersTyped
    <3>2. OwesPort(s)'
      BY <3>1 DEF OwesPort
    <3>3. QED
      BY <3>1, <3>2
  <2>4. CASE rest[s] = AllButPid
    <3>1. pidFile' = pidFile /\ portFile' = None
      BY <2>1, <2>4, RemovalOrder
    <3>2. ~OwesPid(s)
      BY <2>1, <2>4, RemovalOrder DEF OwesPid, Lives
    <3>3. \A t \in Servers : pidFile' = t => (OwesPid(pidFile)' <=> OwesPid(t)')
      BY DEF OwesPid, Lives
    <3>4. QED
      BY <1>2, <3>1, <3>2, <3>3, OwedOthers
  <2>5. CASE rest[s] = LockOnly
    <3>1. UNCHANGED <<pidFile, portFile>>
      BY <2>1, <2>5, RemovalOrder
    <3>2. ~OwesPid(s) /\ ~OwesPort(s)
      BY <2>1, <2>5, RemovalOrder DEF OwesPid, OwesPort, Lives
    <3>3. QED
      BY <1>3, <3>1, <3>2
  <2>6. QED
    BY <2>2, <2>3, <2>4, <2>5
<1>8. CASE Refused(s) \/ Unlock(s)
  <2>1. UNCHANGED <<pidFile, portFile>> /\ stage[s] \in {"opened", "releasing"}
    BY <1>8 DEF Refused, Unlock, fileVars
  <2>2. rest[s] = <<>>
    BY <1>8 DEF Refused, Unlock, RestInv
  <2>3. ~OwesPid(s) /\ ~OwesPort(s)
    BY <2>1, <2>2, RemovalOrder DEF OwesPid, OwesPort, Lives
  <2>4. QED
    BY <1>3, <2>1, <2>3
<1>9. QED
  BY <1>1, <1>4, <1>5, <1>6, <1>7, <1>8 DEF ServerStep

\* A command only removes files.
LEMMA OwedCommand ==
    ASSUME DaemonTypeOK, OwedInv, NEW c \in Commands, CommandStep(c)
    PROVE  OwedInv'
<1>0. ServersTyped /\ FilesTyped
  BY DaemonParts
<1>1. UNCHANGED <<rest, crashed>> /\ (stage' = stage \/ \E s \in Servers : ServersOf(s))
  BY CommandServers
<1>2. pidFile' \in {pidFile, None} /\ portFile' \in {portFile, None}
  BY DEF CommandStep, Begin, ReadPid, Probe, RemovePid, RemovePort, ReadPort, Health, StartServer, LookAgain,
         KillServer, Quit, fileVars
<1>3. \A t \in Servers : Lives(t) => Lives(t)'
  BY <1>0, <1>1 DEF Lives, ServersOf, ServersTyped
<1>4. \A t \in Servers : (OwesPid(t) => OwesPid(t)') /\ (OwesPort(t) => OwesPort(t)')
  BY <1>1, <1>3 DEF OwesPid, OwesPort
<1>5. pidFile # None => pidFile \in Servers
  BY <1>0 DEF FilesTyped
<1>6. \A t \in Servers : pidFile' = t => (OwesPid(pidFile)' <=> OwesPid(t)')
  BY DEF OwesPid, Lives
<1>7. QED
  BY <1>1, <1>2, <1>4, <1>5, <1>6 DEF OwedInv

\* Every step keeps the invariant.
LEMMA DaemonInvNext == DaemonInv /\ [DaemonNext]_daemonVars => DaemonInv'
<1> SUFFICES ASSUME DaemonInv, [DaemonNext]_daemonVars PROVE DaemonInv'
  OBVIOUS
<1>1. ASSUME NEW s \in Servers, ServerStep(s) PROVE DaemonInv'
  BY <1>1, TypeServer, RestServer, LockServer, NamedServer, OwedServer DEF DaemonInv
<1>2. ASSUME NEW c \in Commands, CommandStep(c) PROVE DaemonInv'
  BY <1>2, TypeCommand, LockCommand, NamedCommand, OwedCommand DEF DaemonInv
<1>3. CASE DaemonNext
  BY <1>1, <1>2, <1>3 DEF DaemonNext, ServerStep, CommandStep
<1>4. CASE UNCHANGED daemonVars
  <2>1. UNCHANGED <<stage, file, moves, rest, lockPath, pidFile, portFile, cmd, unlinked, hidden, crashed>>
    BY <1>4 DEF daemonVars, serverVars, fileVars
  <2>2. DaemonTypeOK' /\ RestInv'
    BY <2>1 DEF DaemonInv, DaemonTypeOK, RestInv
  <2>3. LockInv'
    BY <2>1 DEF DaemonInv, LockInv, Holds, Active
  <2>4. NamedInv'
    BY <2>1 DEF DaemonInv, NamedInv, Port
  <2>5. OwedInv'
    BY <2>1 DEF DaemonInv, OwedInv, OwesPid, OwesPort, Lives
  <2>6. QED
    BY <2>2, <2>3, <2>4, <2>5 DEF DaemonInv
<1>5. QED
  BY <1>3, <1>4

THEOREM DaemonInvCorrect == DaemonSpec => []DaemonInv
BY DaemonInvInit, DaemonInvNext, PTL DEF DaemonSpec

\* "One server per data dir", unless one locked a file that had been removed.
THEOREM OneServerCorrect == DaemonSpec => []OneServer
<1>1. DaemonInv => OneServer
  BY OneActive DEF DaemonInv, OneServer
<1>2. QED
  BY <1>1, DaemonInvCorrect, PTL

\* A server that serves is the one the files name, unless a command removed them.
THEOREM NamedCorrect == DaemonSpec => []ServingIsNamed
<1>1. DaemonInv => ServingIsNamed
  BY DEF DaemonInv, NamedInv, ServingIsNamed
<1>2. QED
  BY <1>1, DaemonInvCorrect, PTL

\* Servers that all ended in order leave no pid and no port behind.
THEOREM NothingLingersCorrect == DaemonSpec => []NothingLingers
<1>1. DaemonInv => NothingLingers
  <2> SUFFICES ASSUME DaemonInv, ~crashed, \A s \in Servers : stage[s] \in {"unborn", "spawned", "opened", "dead"}
               PROVE  pidFile = None /\ portFile = None
    BY DEF NothingLingers
  <2>1. \A s \in Servers : ~OwesPid(s) /\ ~OwesPort(s)
    BY RemovalOrder DEF DaemonInv, RestInv, OwesPid, OwesPort, Lives
  <2>2. pidFile # None => pidFile \in Servers
    BY DEF DaemonInv, DaemonTypeOK
  <2>3. QED
    BY <2>1, <2>2 DEF DaemonInv, OwedInv
<1>2. QED
  BY <1>1, DaemonInvCorrect, PTL
=============================================================================
