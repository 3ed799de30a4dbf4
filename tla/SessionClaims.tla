---------------------------- MODULE SessionClaims ---------------------------
(* Which Claude session belongs to which instance.  Claude names its session  *)
(* itself, by creating a log file, so the server has to guess: every instance *)
(* has a watcher that looks for an unclaimed file                             *)
(* (ws/conversation_watcher.rs, run_driver_conversation_watcher), every client*)
(* that focuses an instance without a session starts a second search that may *)
(* ask the user (run_session_discovery), and both write one map of claims     *)
(* (ws/state_manager.rs).  The session id clients see is a third copy, kept   *)
(* by the instance actor (instance_actor.rs).                                 *)
(*                                                                            *)
(* All instances share a working directory and were created before any file,  *)
(* so every file is a candidate for all.                                      *)
EXTENDS Naturals, Sequences, FiniteSets

CONSTANTS
    Instances, Sessions, Clients,
    None,
    MayRotate,    \* Claude may continue in another file
    MaySelect,    \* users answer when they are asked
    MayDelete     \* instances may be deleted

ASSUME NoneAssumption == None \notin Instances \cup Sessions \cup Clients

VARIABLES
    made,      \* external: session -> the instance whose Claude wrote the file
    text,      \* external: sessions that contain a message of their user
    next,      \* external: session -> the session it was continued in
    input,     \* first_input_at: none, typing (no whole line yet), line
    claim,     \* claimed_sessions: session -> instance
    server,    \* instance -> up, unregistered, stopped
    watcher,   \* instance -> phase of its watcher and the session it is about
    told,      \* instance -> SessionDiscovered signals the actor has to take
    session,   \* instance -> session_id of InstanceInfo
    search,    \* client -> phase of its discovery task, and what it is about
    picker,    \* client -> the candidates it shows, and for which instance
    chosen     \* client -> session_select channel, with room for one

claude == <<made, text, next>>
servers == <<input, claim, server>>
watchers == <<watcher, told, session>>
searches == <<search, picker, chosen>>
vars == <<claude, servers, watchers, searches>>

NoPicker == [instance |-> None, candidates |-> {}]
NoChoice == [instance |-> None, session |-> None]
Seek == [phase |-> "seek", session |-> None]
Ended == [phase |-> "end", session |-> None]
NoSearch == [phase |-> "none", instance |-> None, session |-> None]

Init ==
    /\ made = [s \in Sessions |-> None]
    /\ text = {}
    /\ next = [s \in Sessions |-> None]
    /\ input = [i \in Instances |-> "none"]
    /\ claim = [s \in Sessions |-> None]
    /\ server = [i \in Instances |-> "up"]
    /\ watcher = [i \in Instances |-> Seek]
    /\ told = [i \in Instances |-> <<>>]
    /\ session = [i \in Instances |-> None]
    /\ search = [c \in Clients |-> NoSearch]
    /\ picker = [c \in Clients |-> NoPicker]
    /\ chosen = [c \in Clients |-> NoChoice]

-----------------------------------------------------------------------------
(* Claude and its users. *)

Files == {s \in Sessions : made[s] # None}

StartClaude(i) ==
    /\ server[i] = "up"
    /\ \A s \in Files : made[s] # i
    /\ \E s \in Sessions \ Files : made' = [made EXCEPT ![s] = i]
    /\ UNCHANGED <<text, next, servers, watchers, searches>>

LogMessage(s) ==
    /\ s \in Files \ text
    /\ input[made[s]] = "line"
    /\ text' = text \cup {s}
    /\ UNCHANGED <<made, next, servers, watchers, searches>>

\* Context overflow, or the end of plan mode: Claude goes on in another file.
Continue(s) ==
    /\ MayRotate
    /\ s \in Files /\ next[s] = None
    /\ \E t \in Sessions \ Files :
          /\ made' = [made EXCEPT ![t] = made[s]]
          /\ next' = [next EXCEPT ![s] = t]
    /\ UNCHANGED <<text, servers, watchers, searches>>

\* handle_input and mark_first_input: recorded until there is a session; the
\* first key sets the time, the first newline the first content prefix.
Input(i, kind) ==
    /\ server[i] = "up"
    /\ session[i] = None
    /\ input[i] # "line" /\ input[i] # kind
    /\ input' = [input EXCEPT ![i] = kind]
    /\ UNCHANGED <<claude, claim, server, watchers, searches>>

-----------------------------------------------------------------------------
(* The watcher of an instance. *)

Candidates == {s \in Files : claim[s] = None}

\* Fault: only sessions with a message are found.
Owned_WithText(i) == {s \in text : claim[s] = i}

Owned(i) == {s \in Sessions : claim[s] = i}

\* A session claimed for the instance by the other path is taken over.
Adopt(i) ==
    /\ watcher[i].phase = "seek" /\ server[i] # "stopped"
    /\ \E s \in Owned(i) :
          watcher' = [watcher EXCEPT ![i] = [phase |-> "watch", session |-> s]]
    /\ UNCHANGED <<claude, servers, told, session, searches>>

\* should_auto_claim: no whole line was typed, or the file has no message, or
\* one of its messages was sent to this instance.
ContentOk(i, s) == input[i] = "typing" \/ s \notin text \/ made[s] = i

Look(i) ==
    /\ watcher[i].phase = "seek" /\ server[i] # "stopped"
    /\ Owned(i) = {}
    /\ input[i] # "none"
    /\ \E s \in Candidates :
          /\ Candidates = {s}
          /\ ContentOk(i, s)
          /\ watcher' = [watcher EXCEPT ![i] = [phase |-> "claim", session |-> s]]
    /\ UNCHANGED <<claude, servers, told, session, searches>>

\* Fault: the claim is not checked again under the write lock.
Free_Unchecked(s) == TRUE

Free(s) == claim[s] = None

\* Under the write lock; if the instance was stopped meanwhile, the claim is made
\* all the same and then the send fails.
Claim(i) ==
    /\ watcher[i].phase = "claim"
    /\ LET s == watcher[i].session
           up == server[i] # "stopped"
       IN  IF Free(s)
           THEN /\ claim' = [claim EXCEPT ![s] = i]
                /\ told' = [told EXCEPT ![i] = IF up THEN Append(@, s) ELSE @]
                /\ watcher' = [watcher EXCEPT ![i] =
                                 IF up THEN [phase |-> "watch", session |-> s] ELSE Ended]
           ELSE /\ watcher' = [watcher EXCEPT ![i] = Seek]
                /\ UNCHANGED <<claim, told>>
    /\ UNCHANGED <<claude, input, server, session, searches>>

\* Fault: the actor is not told.
Rotate_Silent(i) ==
    /\ watcher[i].phase = "watch" /\ server[i] # "stopped"
    /\ LET t == next[watcher[i].session]
       IN  /\ t # None
           /\ claim' = [claim EXCEPT ![t] = i]
           /\ watcher' = [watcher EXCEPT ![i].session = t]
    /\ UNCHANGED <<claude, input, server, told, session, searches>>

\* The poll follows the log into the file it is continued in, and claims that.
Rotate(i) ==
    /\ watcher[i].phase = "watch" /\ server[i] # "stopped"
    /\ LET t == next[watcher[i].session]
       IN  /\ t # None
           /\ claim' = [claim EXCEPT ![t] = i]
           /\ told' = [told EXCEPT ![i] = Append(@, t)]
           /\ watcher' = [watcher EXCEPT ![i].session = t]
    /\ UNCHANGED <<claude, input, server, session, searches>>

\* The actor takes SessionDiscovered.
TakeTold(i) ==
    /\ server[i] # "stopped"
    /\ told[i] # <<>>
    /\ told' = [told EXCEPT ![i] = Tail(@)]
    /\ session' = [session EXCEPT ![i] = Head(told[i])]
    /\ UNCHANGED <<claude, servers, watcher, searches>>

\* delete_instance: first the maps forget the instance, ...
Unregister(i) ==
    /\ MayDelete
    /\ server[i] = "up"
    /\ server' = [server EXCEPT ![i] = "unregistered"]
    /\ claim' = [s \in Sessions |-> IF claim[s] = i THEN None ELSE claim[s]]
    /\ input' = [input EXCEPT ![i] = "none"]
    /\ UNCHANGED <<claude, watchers, searches>>

\* ... then the actor is stopped; dropping its driver cancels the watcher.
Stop(i) ==
    /\ server[i] = "unregistered"
    /\ server' = [server EXCEPT ![i] = "stopped"]
    /\ told' = [told EXCEPT ![i] = <<>>]
    /\ UNCHANGED <<claude, input, claim, watcher, session, searches>>

Cancelled(i) ==
    /\ server[i] = "stopped"
    /\ watcher[i].phase \in {"seek", "watch"}
    /\ watcher' = [watcher EXCEPT ![i] = Ended]
    /\ UNCHANGED <<claude, servers, told, session, searches>>

-----------------------------------------------------------------------------
(* The discovery task of a client's focus. *)

\* A focus cancels and aborts the task of the last one, wherever that is.  What
\* the old task still manages to do it does here before the focus.
Focus(c, i) ==
    /\ server[i] = "up"
    /\ search' = [search EXCEPT ![c] =
                    IF session[i] # None THEN NoSearch
                    ELSE [phase |-> "seek", instance |-> i, session |-> None]]
    /\ UNCHANGED <<claude, servers, watchers, picker, chosen>>

\* The task of c goes on, with another phase and session.
GoesOn(c, phase, s) ==
    search' = [search EXCEPT ![c] =
                 [phase |-> phase, instance |-> search[c].instance, session |-> s]]

\* The top of the loop: the watcher was faster, ...
GiveUp(c) ==
    LET i == search[c].instance
    IN  /\ search[c].phase = "seek"
        /\ server[i] = "up" /\ session[i] # None
        /\ search' = [search EXCEPT ![c] = NoSearch]
        /\ UNCHANGED <<claude, servers, watchers, picker, chosen>>

\* ... or there are candidates: one is claimed, more are shown to the user.
FocusLook(c) ==
    LET i == search[c].instance
    IN  /\ search[c].phase = "seek"
        /\ session[i] = None
        /\ input[i] # "none"
        /\ \/ \E s \in Candidates :
                 /\ Candidates = {s}
                 /\ GoesOn(c, "claim", s)
                 /\ UNCHANGED picker
           \/ /\ Cardinality(Candidates) > 1
              /\ GoesOn(c, "ask", None)
              /\ picker' = [picker EXCEPT ![c] =
                              [instance |-> i, candidates |-> Candidates]]
        /\ UNCHANGED <<claude, servers, watchers, chosen>>

\* Fault: a refused claim is not noticed.
TryClaim_Ignored(s, i) == claim' = [claim EXCEPT ![s] = IF @ = None THEN i ELSE @]

\* Fault: the map is written without a look at the present owner.
TryClaim_Overwrites(s, i) == claim' = [claim EXCEPT ![s] = i]

\* try_claim_session, when it returns true
TryClaim(s, i) ==
    /\ claim[s] \in {None, i}
    /\ claim' = [claim EXCEPT ![s] = i]

FocusClaim(c) ==
    LET s == search[c].session
        i == search[c].instance
    IN  /\ search[c].phase = "claim"
        /\ \/ /\ TryClaim(s, i)
              /\ GoesOn(c, "set", s)
           \/ /\ claim[s] \notin {None, i}
              /\ GoesOn(c, "seek", None)
              /\ UNCHANGED claim
        /\ UNCHANGED <<claude, input, server, watchers, picker, chosen>>

\* The user picks; the message names a session but no instance.
Select(c) ==
    /\ MaySelect
    /\ chosen[c] = NoChoice
    /\ \E s \in picker[c].candidates :
          chosen' = [chosen EXCEPT ![c] =
                       [instance |-> picker[c].instance, session |-> s]]
    /\ picker' = [picker EXCEPT ![c] = NoPicker]
    /\ UNCHANGED <<claude, servers, watchers, search>>

\* Whoever waits takes the selection; whether the claim succeeded is not asked.
TakeChoice(c) ==
    LET s == chosen[c].session
        i == search[c].instance
    IN  /\ search[c].phase = "ask"
        /\ chosen[c] # NoChoice
        /\ claim' = [claim EXCEPT ![s] = IF @ = None THEN i ELSE @]
        /\ GoesOn(c, "set", s)
        /\ chosen' = [chosen EXCEPT ![c] = NoChoice]
        /\ UNCHANGED <<claude, input, server, watchers, picker>>

\* The session id is set with a command to the actor, if there is one.
SetSession(c) ==
    LET i == search[c].instance
    IN  /\ search[c].phase = "set"
        /\ session' = [session EXCEPT ![i] = IF server[i] = "up" THEN search[c].session ELSE @]
        /\ search' = [search EXCEPT ![c] = NoSearch]
        /\ UNCHANGED <<claude, servers, watcher, told, picker, chosen>>

-----------------------------------------------------------------------------
Outside ==
    \/ \E i \in Instances : StartClaude(i) \/ Unregister(i)
    \/ \E i \in Instances, kind \in {"typing", "line"} : Input(i, kind)
    \/ \E s \in Sessions : LogMessage(s) \/ Continue(s)
    \/ \E c \in Clients : Select(c) \/ \E i \in Instances : Focus(c, i)

Watch(i) == Adopt(i) \/ Look(i) \/ Claim(i) \/ Rotate(i) \/ Cancelled(i)
Search(c) == GiveUp(c) \/ FocusLook(c) \/ FocusClaim(c) \/ TakeChoice(c) \/ SetSession(c)

Next ==
    \/ Outside
    \/ \E i \in Instances : Watch(i) \/ TakeTold(i) \/ Stop(i)
    \/ \E c \in Clients : Search(c)

Spec == Init /\ [][Next]_vars

\* Tasks of the server run on; users and Claude owe nothing.
FairSpec ==
    /\ Spec
    /\ \A i \in Instances : WF_vars(Watch(i)) /\ WF_vars(TakeTold(i)) /\ WF_vars(Stop(i))
    /\ \A c \in Clients : WF_vars(Search(c))

-----------------------------------------------------------------------------
Phases == {"seek", "claim", "watch", "end"}

TypeOK ==
    /\ made \in [Sessions -> Instances \cup {None}]
    /\ text \in SUBSET Sessions
    /\ next \in [Sessions -> Sessions \cup {None}]
    /\ input \in [Instances -> {"none", "typing", "line"}]
    /\ claim \in [Sessions -> Instances \cup {None}]
    /\ server \in [Instances -> {"up", "unregistered", "stopped"}]
    /\ watcher \in [Instances -> [phase : Phases, session : Sessions \cup {None}]]
    /\ \A i \in Instances : watcher[i].phase \in {"claim", "watch"} => watcher[i].session # None
    /\ told \in [Instances -> Seq(Sessions)]
    /\ session \in [Instances -> Sessions \cup {None}]
    /\ search \in [Clients -> [phase : {"none", "seek", "claim", "ask", "set"},
                               instance : Instances \cup {None},
                               session : Sessions \cup {None}]]
    /\ picker \in [Clients -> [instance : Instances \cup {None}, candidates : SUBSET Sessions]]
    /\ chosen \in [Clients -> [instance : Instances \cup {None},
                               session : Sessions \cup {None}]]

\* The session an instance reads is claimed for it, by whichever of the two paths.
WatchedIsClaimed ==
    \A i \in Instances : server[i] = "up" /\ watcher[i].phase = "watch"
        => claim[watcher[i].session] = i

\* The session clients are told an instance has is claimed for it.
ShownIsClaimed ==
    \A i \in Instances : server[i] = "up" /\ session[i] # None => claim[session[i]] = i

\* A claim ends with its instance; no other instance takes it over.
ClaimsAreKept ==
    [][\A s \in Sessions : claim[s] # None /\ claim'[s] # claim[s]
        => claim'[s] = None /\ server'[claim[s]] # "up"]_vars

\* An instance that has a claim, made by a client's search or by a user's choice
\* that its watcher was never told of, is in the end read by the watcher, unless
\* a rotation takes the claim away.
ClaimedIsWatched ==
    \A i \in Instances :
        (\E s \in Sessions : claim[s] = i) ~>
            watcher[i].phase = "watch" \/ \A s \in Sessions : claim[s] # i

\* The actor is told of every file the watcher goes on to, in order: the last it
\* will hear of is the one that is read, however often the log was rotated.
LastToldIsWatched ==
    \A i \in Instances : told[i] # <<>> /\ server[i] # "stopped" =>
        watcher[i].phase = "watch" /\ watcher[i].session = told[i][Len(told[i])]

\* No step of a task on behalf of an instance is under way.
Settled(i) ==
    /\ told[i] = <<>>
    /\ watcher[i].phase \in {"watch", "end"}
    /\ \A c \in Clients : search[c].instance = i => search[c].phase = "none"

\* When all tasks are done, an instance that has a session reads that session.
OneSession ==
    \A i \in Instances : server[i] = "up" /\ Settled(i) /\ session[i] # None
        => session[i] = watcher[i].session

\* When all tasks are done, clients are told of the session that is read.
WatchedIsShown ==
    \A i \in Instances : server[i] = "up" /\ Settled(i) /\ watcher[i].phase = "watch"
        => session[i] # None

\* When a deleted instance's tasks have ended, it holds no claims.
DeletedHoldsNothing ==
    \A i \in Instances : server[i] = "stopped" /\ Settled(i) => Owned(i) = {}

\* A client's search does not take a file of which messages are known, none of
\* them sent to its instance, for the instance's session without asking.
MessagesMatch ==
    [][\A c \in Clients : LET i == search[c].instance
                              s == search'[c].session
                          IN  search[c].phase = "seek" /\ search'[c].phase = "claim"
                              /\ input[i] = "line" /\ s \in text
                                => made[s] = i]_vars

\* A selection is used for the instance whose candidates were shown.
ChoiceReachesItsInstance ==
    [][\A c \in Clients : chosen[c] # NoChoice /\ chosen'[c] = NoChoice
        => search[c].instance = chosen[c].instance]_vars
=============================================================================
