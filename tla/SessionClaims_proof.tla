------------------------- MODULE SessionClaims_proof ------------------------
(* Proofs about SessionClaims: types; and, as long as no session is continued *)
(* in another file and no user selects one, that a claim lasts as long as its *)
(* instance and that what is watched or shown is claimed.                     *)
EXTENDS SessionClaims, TLAPS

(* Types. *)

LEMMA InitType == Init => TypeOK
<1> SUFFICES ASSUME Init PROVE TypeOK  OBVIOUS
<1> USE DEF Init
<1>1. told \in [Instances -> Seq(Sessions)]
  <2>1. <<>> \in Seq(Sessions)  OBVIOUS
  <2> QED  BY <2>1
<1>2. \A i \in Instances : watcher[i].phase \in {"claim", "watch"} => watcher[i].session # None
  BY DEF Seek
<1>3. watcher \in [Instances -> [phase : Phases, session : Sessions \cup {None}]]
  BY DEF Seek, Phases
<1>4. search \in [Clients -> [phase : {"none", "seek", "claim", "ask", "set"},
                              instance : Instances \cup {None},
                              session : Sessions \cup {None}]]
  BY DEF NoSearch
<1>5. /\ picker \in [Clients -> [instance : Instances \cup {None}, candidates : SUBSET Sessions]]
      /\ chosen \in [Clients -> [instance : Instances \cup {None}, session : Sessions \cup {None}]]
  BY DEF NoPicker, NoChoice
<1> QED  BY <1>1, <1>2, <1>3, <1>4, <1>5 DEF TypeOK

\* What Claude, its users and the deletion do.
LEMMA OutsideType == ASSUME TypeOK, Outside PROVE TypeOK'
<1> USE DEF TypeOK, claude, servers, watchers, searches
<1>1. ASSUME NEW i \in Instances, StartClaude(i) PROVE TypeOK'
  BY <1>1 DEF StartClaude
<1>2. ASSUME NEW i \in Instances, Unregister(i) PROVE TypeOK'
  BY <1>2 DEF Unregister
<1>3. ASSUME NEW i \in Instances, NEW kind \in {"typing", "line"}, Input(i, kind) PROVE TypeOK'
  BY <1>3 DEF Input
<1>4. ASSUME NEW s \in Sessions, LogMessage(s) PROVE TypeOK'
  BY <1>4 DEF LogMessage, Files
<1>5. ASSUME NEW s \in Sessions, Continue(s) PROVE TypeOK'
  BY <1>5 DEF Continue, Files
<1>6. ASSUME NEW c \in Clients, Select(c) PROVE TypeOK'
  BY <1>6 DEF Select, NoPicker
<1>7. ASSUME NEW c \in Clients, NEW i \in Instances, Focus(c, i) PROVE TypeOK'
  BY <1>7 DEF Focus, NoSearch
<1> QED  BY <1>1, <1>2, <1>3, <1>4, <1>5, <1>6, <1>7 DEF Outside

LEMMA WatchType == ASSUME TypeOK, NEW i \in Instances, Watch(i) PROVE TypeOK'
<1> USE DEF TypeOK, claude, servers, watchers, searches
<1>1. CASE Adopt(i)
  BY <1>1, NoneAssumption DEF Adopt, Owned, Phases
<1>2. CASE Look(i)
  BY <1>2, NoneAssumption DEF Look, Candidates, Files, Phases
<1>3. CASE Claim(i)
  <2>1. watcher[i].session \in Sessions
    BY <1>3 DEF Claim
  <2>2. Append(told[i], watcher[i].session) \in Seq(Sessions)
    BY <2>1
  <2>3. CASE Free(watcher[i].session)
    <3>1. claim' = [claim EXCEPT ![watcher[i].session] = i]
      BY <1>3, <2>3 DEF Claim
    <3>2. \/ told' = [told EXCEPT ![i] = Append(@, watcher[i].session)]
          \/ told' = [told EXCEPT ![i] = @]
      BY <1>3, <2>3 DEF Claim
    <3>3. \/ watcher' = [watcher EXCEPT ![i] = [phase |-> "watch", session |-> watcher[i].session]]
          \/ watcher' = [watcher EXCEPT ![i] = Ended]
      BY <1>3, <2>3 DEF Claim
    <3>4. claim' \in [Sessions -> Instances \cup {None}]
      BY <3>1
    <3>6. told' \in [Instances -> Seq(Sessions)]
      <4>1. told \in [Instances -> Seq(Sessions)]
        OBVIOUS
      <4>2. CASE told' = [told EXCEPT ![i] = @]
        BY <4>1, <4>2
      <4>3. CASE told' = [told EXCEPT ![i] = Append(@, watcher[i].session)]
        <5>1. told' = [told EXCEPT ![i] = Append(told[i], watcher[i].session)]
          BY <4>3
        <5> QED  BY <2>2, <4>1, <5>1
      <4> QED  BY <3>2, <4>2, <4>3
    <3>5. /\ watcher' \in [Instances -> [phase : Phases, session : Sessions \cup {None}]]
          /\ \A j \in Instances : watcher'[j].phase \in {"claim", "watch"} => watcher'[j].session # None
      <4>1. CASE watcher' = [watcher EXCEPT ![i] = [phase |-> "watch", session |-> watcher[i].session]]
        BY <2>1, <4>1, NoneAssumption DEF Phases
      <4>2. CASE watcher' = [watcher EXCEPT ![i] = Ended]
        BY <4>2 DEF Ended, Phases
      <4> QED  BY <3>3, <4>1, <4>2
    <3> QED  BY <1>3, <3>4, <3>5, <3>6 DEF Claim
  <2>4. CASE ~Free(watcher[i].session)
    <3>1. watcher' = [watcher EXCEPT ![i] = Seek] /\ UNCHANGED <<claim, told>>
      BY <1>3, <2>4 DEF Claim
    <3> QED  BY <1>3, <3>1 DEF Claim, Seek, Phases
  <2> QED  BY <2>3, <2>4
<1>4. CASE Rotate(i)
  <2>1. /\ watcher[i].session \in Sessions
        /\ next[watcher[i].session] \in Sessions
    BY <1>4 DEF Rotate
  <2>2. told' \in [Instances -> Seq(Sessions)]
    BY <1>4, <2>1 DEF Rotate
  <2>3. claim' \in [Sessions -> Instances \cup {None}]
    BY <1>4, <2>1 DEF Rotate
  <2>4. /\ watcher' \in [Instances -> [phase : Phases, session : Sessions \cup {None}]]
        /\ \A j \in Instances : watcher'[j].phase \in {"claim", "watch"} => watcher'[j].session # None
    BY <1>4, <2>1, NoneAssumption DEF Rotate, Phases
  <2> QED  BY <1>4, <2>2, <2>3, <2>4 DEF Rotate
<1>5. CASE Cancelled(i)
  BY <1>5 DEF Cancelled, Ended, Phases
<1> QED  BY <1>1, <1>2, <1>3, <1>4, <1>5 DEF Watch

\* A phase and a session of a search are all that changes.
LEMMA GoesOnType ==
    ASSUME TypeOK, NEW c \in Clients, NEW s \in Sessions \cup {None},
           NEW p \in {"none", "seek", "claim", "ask", "set"}, GoesOn(c, p, s)
    PROVE  search' \in [Clients -> [phase : {"none", "seek", "claim", "ask", "set"},
                                    instance : Instances \cup {None},
                                    session : Sessions \cup {None}]]
<1>1. search[c].instance \in Instances \cup {None}
  BY DEF TypeOK
<1>2. [phase |-> p, instance |-> search[c].instance, session |-> s] \in
        [phase : {"none", "seek", "claim", "ask", "set"}, instance : Instances \cup {None},
         session : Sessions \cup {None}]
  BY <1>1
<1> QED  BY <1>2 DEF TypeOK, GoesOn

LEMMA SearchType == ASSUME TypeOK, NEW c \in Clients, Search(c) PROVE TypeOK'
<1> USE DEF TypeOK, claude, servers, watchers, searches
<1>1. CASE GiveUp(c)
  BY <1>1 DEF GiveUp, NoSearch
<1>2. CASE FocusLook(c)
  <2>1. Candidates \in SUBSET Sessions
    BY DEF Candidates, Files
  <2>2. ASSUME NEW s \in Candidates, GoesOn(c, "claim", s), UNCHANGED picker PROVE TypeOK'
    BY <1>2, <2>1, <2>2, GoesOnType DEF FocusLook
  <2>3. CASE /\ GoesOn(c, "ask", None)
             /\ picker' = [picker EXCEPT ![c] =
                             [instance |-> search[c].instance, candidates |-> Candidates]]
    <3>1. search[c].instance \in Instances \cup {None}
      OBVIOUS
    <3>2. [instance |-> search[c].instance, candidates |-> Candidates] \in
            [instance : Instances \cup {None}, candidates : SUBSET Sessions]
      BY <2>1, <3>1
    <3>3. picker' \in [Clients -> [instance : Instances \cup {None}, candidates : SUBSET Sessions]]
      BY <2>3, <3>2
    <3> QED  BY <1>2, <2>3, <3>3, GoesOnType DEF FocusLook
  <2> QED  BY <1>2, <2>2, <2>3, Zenon DEF FocusLook
<1>3. CASE FocusClaim(c)
  <2>1. search[c].session \in Sessions \cup {None} /\ search[c].instance \in Instances \cup {None}
    OBVIOUS
  <2>2. claim' \in [Sessions -> Instances \cup {None}]
    BY <1>3, <2>1 DEF FocusClaim, TryClaim
  <2>3. GoesOn(c, "set", search[c].session) \/ GoesOn(c, "seek", None)
    BY <1>3, Zenon DEF FocusClaim
  <2> QED  BY <1>3, <2>1, <2>2, <2>3, GoesOnType DEF FocusClaim
<1>4. CASE TakeChoice(c)
  <2>1. /\ chosen[c].session \in Sessions \cup {None}
        /\ search[c].instance \in Instances \cup {None}
    OBVIOUS
  <2>2. claim' \in [Sessions -> Instances \cup {None}]
    BY <1>4, <2>1 DEF TakeChoice
  <2>3. GoesOn(c, "set", chosen[c].session)
    BY <1>4, Zenon DEF TakeChoice
  <2> QED  BY <1>4, <2>1, <2>2, <2>3, GoesOnType DEF TakeChoice, NoChoice
<1>5. CASE SetSession(c)
  BY <1>5 DEF SetSession, NoSearch
<1> QED  BY <1>1, <1>2, <1>3, <1>4, <1>5 DEF Search

LEMMA TypeStep == TypeOK /\ [Next]_vars => TypeOK'
<1> SUFFICES ASSUME TypeOK, [Next]_vars PROVE TypeOK'  OBVIOUS
<1>1. ASSUME NEW i \in Instances, TakeTold(i) PROVE TypeOK'
  BY <1>1 DEF TakeTold, TypeOK, claude, servers, searches
<1>2. ASSUME NEW i \in Instances, Stop(i) PROVE TypeOK'
  <2>1. <<>> \in Seq(Sessions)  OBVIOUS
  <2> QED  BY <1>2, <2>1 DEF Stop, TypeOK, claude, searches
<1>3. CASE UNCHANGED vars
  BY <1>3 DEF TypeOK, vars, claude, servers, watchers, searches
<1> QED
  BY <1>1, <1>2, <1>3, OutsideType, WatchType, SearchType DEF Next

\* The types of all state are kept, for any instances, files and clients.
THEOREM TypeCorrect == Spec => []TypeOK
  BY InitType, TypeStep, PTL DEF Spec

-----------------------------------------------------------------------------
(* Claims last, as long as no log is continued in another file.              *)

Unrotated == \A s \in Sessions : next[s] = None

KeptStep ==
    \A s \in Sessions : claim[s] # None /\ claim'[s] # claim[s]
        => claim'[s] = None /\ server'[claim[s]] # "up"

UpStays == \A i \in Instances : server'[i] = "up" => server[i] = "up"

\* Nothing is ever continued.
LEMMA UnrotatedStep ==
    ASSUME ~MayRotate, TypeOK, Unrotated, [Next]_vars
    PROVE  Unrotated'
<1>1. UNCHANGED next
  <2> USE DEF claude
  <2>1. ASSUME NEW i \in Instances, StartClaude(i) \/ Unregister(i) PROVE UNCHANGED next
    BY <2>1, Zenon DEF StartClaude, Unregister
  <2>2. ASSUME NEW i \in Instances, NEW kind \in {"typing", "line"}, Input(i, kind)
        PROVE  UNCHANGED next
    BY <2>2, Zenon DEF Input
  <2>3. ASSUME NEW s \in Sessions, LogMessage(s) \/ Continue(s) PROVE UNCHANGED next
    BY <2>3, Zenon DEF LogMessage, Continue
  <2>4. ASSUME NEW c \in Clients, Select(c) \/ \E i \in Instances : Focus(c, i)
        PROVE  UNCHANGED next
    BY <2>4, Zenon DEF Select, Focus
  <2>5. ASSUME NEW i \in Instances, Watch(i) \/ TakeTold(i) \/ Stop(i) PROVE UNCHANGED next
    BY <2>5, Zenon DEF Watch, Adopt, Look, Claim, Rotate, Cancelled, TakeTold, Stop
  <2>6. ASSUME NEW c \in Clients, Search(c) PROVE UNCHANGED next
    BY <2>6, Zenon DEF Search, GiveUp, FocusLook, FocusClaim, TakeChoice, SetSession
  <2>7. CASE UNCHANGED vars
    BY <2>7 DEF vars
  <2>8. Outside => UNCHANGED next
    BY <2>1, <2>2, <2>3, <2>4, Zenon DEF Outside
  <2> QED  BY <2>5, <2>6, <2>7, <2>8, Zenon DEF Next
<1> QED  BY <1>1 DEF Unrotated

\* What the outside leaves alone: of the claims, all but those of a deleted instance.
LEMMA OutsideFrame ==
    ASSUME TypeOK, Outside
    PROVE  /\ UNCHANGED <<watcher, told, session>>
           /\ UNCHANGED <<claim, server>> \/ \E i \in Instances : Unregister(i)
<1> USE DEF claude, servers, watchers, searches
<1>1. ASSUME NEW i \in Instances, StartClaude(i) PROVE UNCHANGED <<watcher, told, session, claim, server>>
  BY <1>1, Zenon DEF StartClaude
<1>2. ASSUME NEW i \in Instances, Unregister(i) PROVE UNCHANGED <<watcher, told, session>>
  BY <1>2, Zenon DEF Unregister
<1>3. ASSUME NEW i \in Instances, NEW kind \in {"typing", "line"}, Input(i, kind)
      PROVE  UNCHANGED <<watcher, told, session, claim, server>>
  BY <1>3, Zenon DEF Input
<1>4. ASSUME NEW s \in Sessions, LogMessage(s) \/ Continue(s)
      PROVE  UNCHANGED <<watcher, told, session, claim, server>>
  BY <1>4, Zenon DEF LogMessage, Continue
<1>5. ASSUME NEW c \in Clients, Select(c) \/ \E i \in Instances : Focus(c, i)
      PROVE  UNCHANGED <<watcher, told, session, claim, server>>
  BY <1>5, Zenon DEF Select, Focus
<1> QED  BY <1>1, <1>2, <1>3, <1>4, <1>5, Zenon DEF Outside

\* A claim changes only when its instance is unregistered, which is for good.
LEMMA ClaimStep ==
    ASSUME TypeOK, Unrotated, [Next]_vars
    PROVE  KeptStep /\ UpStays
<1> USE DEF KeptStep, UpStays, claude, servers, watchers, searches
<1>1. ASSUME UNCHANGED <<claim, server>> PROVE KeptStep /\ UpStays
  BY <1>1
<1>2. ASSUME NEW i \in Instances, Unregister(i) PROVE KeptStep /\ UpStays
  <2>1. /\ server' = [server EXCEPT ![i] = "unregistered"]
        /\ claim' = [s \in Sessions |-> IF claim[s] = i THEN None ELSE claim[s]]
    BY <1>2, Zenon DEF Unregister
  <2> QED  BY <2>1 DEF TypeOK
<1>3. ASSUME NEW i \in Instances, Watch(i) PROVE KeptStep /\ UpStays
  <2>1. CASE Adopt(i) \/ Look(i) \/ Cancelled(i)
    BY <1>1, <2>1 DEF Adopt, Look, Cancelled
  <2>2. CASE Claim(i)
    <3>1. UNCHANGED server
      BY <2>2, Zenon DEF Claim
    <3>2. CASE Free(watcher[i].session)
      <4>1. claim' = [claim EXCEPT ![watcher[i].session] = i]
        BY <2>2, <3>2 DEF Claim
      <4> QED  BY <3>1, <3>2, <4>1 DEF TypeOK, Free
    <3>3. CASE ~Free(watcher[i].session)
      <4>1. UNCHANGED claim
        BY <2>2, <3>3 DEF Claim
      <4> QED  BY <1>1, <3>1, <4>1
    <3> QED  BY <3>2, <3>3
  <2>3. CASE Rotate(i)
    BY <2>3, NoneAssumption DEF Rotate, TypeOK, Unrotated
  <2> QED  BY <1>3, <2>1, <2>2, <2>3, Zenon DEF Watch
<1>4. ASSUME NEW i \in Instances, TakeTold(i) PROVE KeptStep /\ UpStays
  BY <1>1, <1>4 DEF TakeTold
<1>5. ASSUME NEW i \in Instances, Stop(i) PROVE KeptStep /\ UpStays
  BY <1>5 DEF Stop, TypeOK
<1>6. ASSUME NEW c \in Clients, Search(c) PROVE KeptStep /\ UpStays
  <2>1. CASE GiveUp(c) \/ FocusLook(c) \/ SetSession(c)
    BY <1>1, <2>1 DEF GiveUp, FocusLook, SetSession
  <2>2. CASE FocusClaim(c)
    <3>1. /\ UNCHANGED server
          /\ UNCHANGED claim \/ TryClaim(search[c].session, search[c].instance)
      BY <2>2, Zenon DEF FocusClaim
    <3>2. CASE TryClaim(search[c].session, search[c].instance)
      BY <3>1, <3>2 DEF TryClaim, TypeOK
    <3> QED  BY <1>1, <3>1, <3>2
  <2>3. CASE TakeChoice(c)
    BY <2>3 DEF TakeChoice, TypeOK
  <2> QED  BY <1>6, <2>1, <2>2, <2>3, Zenon DEF Search
<1> QED
  BY <1>1, <1>2, <1>3, <1>4, <1>5, <1>6, OutsideFrame, Zenon DEF Next, vars

\* A claim of an instance that is still up is still there.
LEMMA StillClaimed ==
    ASSUME TypeOK, KeptStep, NEW i \in Instances, NEW s \in Sessions,
           claim[s] = i, server'[i] = "up"
    PROVE  claim'[s] = i
BY NoneAssumption DEF KeptStep

\* Without continuation a claim ends with its instance and is never taken over.
THEOREM KeptCorrect == ~MayRotate => (Spec => ClaimsAreKept)
<1> SUFFICES ASSUME ~MayRotate PROVE Spec => ClaimsAreKept  OBVIOUS
<1>1. Init => TypeOK /\ Unrotated
  BY InitType DEF Init, Unrotated
<1>2. TypeOK /\ Unrotated /\ [Next]_vars => (TypeOK /\ Unrotated)'
  BY TypeStep, UnrotatedStep
<1>3. TypeOK /\ Unrotated /\ [Next]_vars =>
        [\A s \in Sessions : claim[s] # None /\ claim'[s] # claim[s]
            => claim'[s] = None /\ server'[claim[s]] # "up"]_vars
  BY ClaimStep DEF KeptStep
<1> QED  BY <1>1, <1>2, <1>3, PTL DEF Spec, ClaimsAreKept

-----------------------------------------------------------------------------
(* What is watched is claimed.                                               *)

\* A watcher that begins to watch has its session claimed.
LEMMA WatcherStep ==
    ASSUME TypeOK, Unrotated, [Next]_vars, NEW i \in Instances,
           watcher'[i] # watcher[i], watcher'[i].phase = "watch", server'[i] = "up"
    PROVE  claim'[watcher'[i].session] = i
<1> USE DEF claude, servers, watchers, searches
<1>1. ASSUME UNCHANGED watcher PROVE FALSE
  BY <1>1
<1>2. ASSUME NEW j \in Instances, Watch(j) PROVE claim'[watcher'[i].session] = i
  <2>1. CASE Adopt(j)
    BY <2>1 DEF Adopt, Owned, TypeOK
  <2>2. CASE Look(j) \/ Cancelled(j)
    BY <2>2 DEF Look, Cancelled, Ended, TypeOK
  <2>3. CASE Claim(j)
    <3>1. CASE Free(watcher[j].session)
      <4>1. /\ claim' = [claim EXCEPT ![watcher[j].session] = j]
            /\ \/ watcher' = [watcher EXCEPT ![j] = [phase |-> "watch", session |-> watcher[j].session]]
               \/ watcher' = [watcher EXCEPT ![j] = Ended]
        BY <2>3, <3>1 DEF Claim
      <4>2. watcher[j].session \in Sessions
        BY <2>3 DEF Claim, TypeOK
      <4>3. j = i
        BY <4>1 DEF TypeOK
      <4> QED  BY <4>1, <4>2, <4>3 DEF TypeOK, Ended
    <3>2. CASE ~Free(watcher[j].session)
      <4>1. watcher' = [watcher EXCEPT ![j] = Seek]
        BY <2>3, <3>2 DEF Claim
      <4> QED  BY <4>1 DEF TypeOK, Seek
    <3> QED  BY <3>1, <3>2
  <2>4. CASE Rotate(j)
    BY <2>4, NoneAssumption DEF Rotate, TypeOK, Unrotated
  <2> QED  BY <1>2, <2>1, <2>2, <2>3, <2>4, Zenon DEF Watch
<1>3. ASSUME NEW j \in Instances, TakeTold(j) \/ Stop(j) PROVE UNCHANGED watcher
  BY <1>3, Zenon DEF TakeTold, Stop
<1>4. ASSUME NEW c \in Clients, Search(c) PROVE UNCHANGED watcher
  BY <1>4, Zenon DEF Search, GiveUp, FocusLook, FocusClaim, TakeChoice, SetSession
<1>5. Outside => UNCHANGED watcher
  BY OutsideFrame
<1>6. UNCHANGED vars => UNCHANGED watcher
  BY DEF vars
<1> QED  BY <1>1, <1>2, <1>3, <1>4, <1>5, <1>6, Zenon DEF Next

LEMMA WatchedStep ==
    ASSUME TypeOK, Unrotated, WatchedIsClaimed, [Next]_vars
    PROVE  WatchedIsClaimed'
<1> SUFFICES ASSUME NEW i \in Instances, server'[i] = "up", watcher'[i].phase = "watch"
             PROVE  claim'[watcher'[i].session] = i
  BY DEF WatchedIsClaimed
<1>1. KeptStep /\ UpStays
  BY ClaimStep
<1>2. CASE watcher'[i] = watcher[i]
  <2>1. watcher[i].session \in Sessions
    BY <1>2 DEF TypeOK
  <2>2. claim[watcher[i].session] = i
    BY <1>1, <1>2 DEF WatchedIsClaimed, UpStays
  <2> QED  BY <1>1, <1>2, <2>1, <2>2, StillClaimed
<1>3. CASE watcher'[i] # watcher[i]
  BY <1>3, WatcherStep
<1> QED  BY <1>2, <1>3

\* Without continuation the session an instance reads is always claimed for it,
\* whichever of the two searches found it and however they interleave.
THEOREM WatchedCorrect == ~MayRotate => (Spec => []WatchedIsClaimed)
<1> SUFFICES ASSUME ~MayRotate PROVE Spec => []WatchedIsClaimed  OBVIOUS
<1>1. Init => TypeOK /\ Unrotated /\ WatchedIsClaimed
  BY InitType DEF Init, Unrotated, WatchedIsClaimed, Seek
<1>2. TypeOK /\ Unrotated /\ WatchedIsClaimed /\ [Next]_vars
        => (TypeOK /\ Unrotated /\ WatchedIsClaimed)'
  BY TypeStep, UnrotatedStep, WatchedStep
<1> QED  BY <1>1, <1>2, PTL DEF Spec

-----------------------------------------------------------------------------
(* What is shown is claimed, as long as no user selects.                     *)

Unasked == \A c \in Clients : chosen[c] = NoChoice

ToldClaimed ==
    \A i \in Instances : server[i] = "up"
        => \A k \in 1..Len(told[i]) : claim[told[i][k]] = i

\* A search that will set the session id has claimed the session.
FoundClaimed ==
    \A c \in Clients :
        /\ search[c].phase # "none" => search[c].instance \in Instances
        /\ search[c].phase \in {"claim", "set"} => search[c].session \in Sessions
        /\ search[c].phase = "set" /\ server[search[c].instance] = "up"
              => claim[search[c].session] = search[c].instance

LEMMA UnaskedStep ==
    ASSUME ~MaySelect, Unasked, [Next]_vars
    PROVE  Unasked'
<1>1. UNCHANGED chosen
  <2> USE DEF searches
  <2>1. ASSUME NEW i \in Instances, StartClaude(i) \/ Unregister(i) PROVE UNCHANGED chosen
    BY <2>1, Zenon DEF StartClaude, Unregister
  <2>2. ASSUME NEW i \in Instances, NEW kind \in {"typing", "line"}, Input(i, kind)
        PROVE  UNCHANGED chosen
    BY <2>2, Zenon DEF Input
  <2>3. ASSUME NEW s \in Sessions, LogMessage(s) \/ Continue(s) PROVE UNCHANGED chosen
    BY <2>3, Zenon DEF LogMessage, Continue
  <2>4. ASSUME NEW c \in Clients, Select(c) \/ \E i \in Instances : Focus(c, i)
        PROVE  UNCHANGED chosen
    BY <2>4, Zenon DEF Select, Focus
  <2>5. ASSUME NEW i \in Instances, Watch(i) \/ TakeTold(i) \/ Stop(i) PROVE UNCHANGED chosen
    BY <2>5, Zenon DEF Watch, Adopt, Look, Claim, Rotate, Cancelled, TakeTold, Stop
  <2>6. ASSUME NEW c \in Clients, Search(c) PROVE UNCHANGED chosen
    BY <2>6, Zenon DEF Search, GiveUp, FocusLook, FocusClaim, TakeChoice, SetSession, Unasked
  <2>7. CASE UNCHANGED vars
    BY <2>7 DEF vars
  <2>8. Outside => UNCHANGED chosen
    BY <2>1, <2>2, <2>3, <2>4, Zenon DEF Outside
  <2> QED  BY <2>5, <2>6, <2>7, <2>8, Zenon DEF Next
<1> QED  BY <1>1 DEF Unasked

LEMMA ToldStep ==
    ASSUME TypeOK, Unrotated, ToldClaimed, [Next]_vars
    PROVE  ToldClaimed'
<1> USE DEF claude, servers, watchers, searches
<1> SUFFICES ASSUME NEW i \in Instances, server'[i] = "up", NEW k \in 1..Len(told'[i])
             PROVE  claim'[told'[i][k]] = i
  BY DEF ToldClaimed
<1>1. KeptStep /\ server[i] = "up"
  BY ClaimStep DEF UpStays
<1>2. told[i] \in Seq(Sessions)
  BY DEF TypeOK
<1>3. ASSUME NEW n \in 1..Len(told[i]) PROVE claim'[told[i][n]] = i
  <2>1. told[i][n] \in Sessions
    BY <1>2
  <2>2. claim[told[i][n]] = i
    BY <1>1 DEF ToldClaimed
  <2> QED  BY <1>1, <2>1, <2>2, StillClaimed
<1>4. CASE told'[i] = told[i]
  BY <1>3, <1>4
<1>5. ASSUME NEW j \in Instances, Watch(j) PROVE claim'[told'[i][k]] = i
  <2>1. CASE Adopt(j) \/ Look(j) \/ Cancelled(j)
    BY <1>4, <2>1 DEF Adopt, Look, Cancelled
  <2>2. CASE Claim(j)
    <3>1. watcher[j].session \in Sessions
      BY <2>2 DEF Claim, TypeOK
    <3>2. CASE told' = [told EXCEPT ![j] = Append(@, watcher[j].session)]
               /\ claim' = [claim EXCEPT ![watcher[j].session] = j]
      <4>1. CASE j = i
        <5>1. told'[i] = Append(told[i], watcher[i].session)
          BY <3>2, <4>1 DEF TypeOK
        <5>2. claim'[watcher[i].session] = i
          BY <3>1, <3>2, <4>1 DEF TypeOK
        <5>3. k \in 1..Len(told[i]) \/ told'[i][k] = watcher[i].session
          BY <1>2, <3>1, <4>1, <5>1
        <5>4. k \in 1..Len(told[i]) => told'[i][k] = told[i][k]
          BY <1>2, <3>1, <4>1, <5>1
        <5> QED  BY <1>3, <5>2, <5>3, <5>4
      <4>2. CASE j # i
        BY <1>4, <3>2, <4>2 DEF TypeOK
      <4> QED  BY <4>1, <4>2
    <3>3. CASE told' = [told EXCEPT ![j] = @]
      BY <1>4, <3>3 DEF TypeOK
    <3>4. CASE UNCHANGED told
      BY <1>4, <3>4
    <3> QED  BY <2>2, <3>2, <3>3, <3>4 DEF Claim
  <2>3. CASE Rotate(j)
    BY <2>3, NoneAssumption DEF Rotate, TypeOK, Unrotated
  <2> QED  BY <1>5, <2>1, <2>2, <2>3, Zenon DEF Watch
<1>6. ASSUME NEW j \in Instances, TakeTold(j) PROVE claim'[told'[i][k]] = i
  <2>1. told' = [told EXCEPT ![j] = Tail(@)] /\ told[j] # <<>>
    BY <1>6 DEF TakeTold
  <2>2. CASE j = i
    <3>1. told'[i] = Tail(told[i]) /\ told[i] # <<>>
      BY <2>1, <2>2 DEF TypeOK
    <3>2. k + 1 \in 1..Len(told[i]) /\ told'[i][k] = told[i][k + 1]
      BY <1>2, <3>1
    <3> QED  BY <1>3, <3>2
  <2>3. CASE j # i
    BY <1>4, <2>1, <2>3 DEF TypeOK
  <2> QED  BY <2>2, <2>3
<1>7. ASSUME NEW j \in Instances, Stop(j) PROVE claim'[told'[i][k]] = i
  <2>1. j # i
    BY <1>1, <1>7 DEF Stop
  <2> QED  BY <1>4, <1>7, <2>1 DEF Stop, TypeOK
<1>8. ASSUME NEW c \in Clients, Search(c) PROVE UNCHANGED told
  BY <1>8, Zenon DEF Search, GiveUp, FocusLook, FocusClaim, TakeChoice, SetSession
<1>9. Outside \/ UNCHANGED vars => UNCHANGED told
  BY OutsideFrame DEF vars
<1> QED  BY <1>4, <1>5, <1>6, <1>7, <1>8, <1>9, Zenon DEF Next

LEMMA FoundStep ==
    ASSUME TypeOK, Unrotated, Unasked, FoundClaimed, [Next]_vars
    PROVE  FoundClaimed'
<1> USE DEF claude, servers, watchers, searches
<1> DEFINE Good(c) ==
      /\ search'[c].phase # "none" => search'[c].instance \in Instances
      /\ search'[c].phase \in {"claim", "set"} => search'[c].session \in Sessions
      /\ search'[c].phase = "set" /\ server'[search'[c].instance] = "up"
            => claim'[search'[c].session] = search'[c].instance
<1> SUFFICES ASSUME NEW c \in Clients PROVE Good(c)
  BY DEF FoundClaimed
<1>1. KeptStep /\ UpStays
  BY ClaimStep
<1>2. CASE search'[c] = search[c]
  <2>1. CASE search[c].phase = "set" /\ server'[search[c].instance] = "up"
    <3>1. search[c].instance \in Instances /\ search[c].session \in Sessions
      BY <2>1 DEF FoundClaimed
    <3>2. claim[search[c].session] = search[c].instance
      BY <1>1, <2>1, <3>1 DEF FoundClaimed, UpStays
    <3>3. claim'[search[c].session] = search[c].instance
      BY <1>1, <2>1, <3>1, <3>2, StillClaimed
    <3> QED  BY <1>2, <3>1, <3>3
  <2>2. CASE ~(search[c].phase = "set" /\ server'[search[c].instance] = "up")
    BY <1>2, <2>2 DEF FoundClaimed
  <2> QED  BY <2>1, <2>2
<1>3. CASE UNCHANGED search
  BY <1>2, <1>3
<1>4. CASE Outside
  <2>1. ASSUME NEW i \in Instances, StartClaude(i) \/ Unregister(i) PROVE UNCHANGED search
    BY <2>1, Zenon DEF StartClaude, Unregister
  <2>2. ASSUME NEW i \in Instances, NEW kind \in {"typing", "line"}, Input(i, kind)
        PROVE  UNCHANGED search
    BY <2>2, Zenon DEF Input
  <2>3. ASSUME NEW s \in Sessions, LogMessage(s) \/ Continue(s) PROVE UNCHANGED search
    BY <2>3, Zenon DEF LogMessage, Continue
  <2>4. ASSUME NEW d \in Clients, Select(d) PROVE UNCHANGED search
    BY <2>4, Zenon DEF Select
  <2>5. ASSUME NEW d \in Clients, NEW i \in Instances, Focus(d, i) PROVE Good(c)
    <3>1. CASE d # c
      BY <1>2, <2>5, <3>1 DEF Focus, TypeOK
    <3>2. CASE d = c
      BY <2>5, <3>2 DEF Focus, TypeOK, NoSearch
    <3> QED  BY <3>1, <3>2
  <2> QED  BY <1>3, <1>4, <2>1, <2>2, <2>3, <2>4, <2>5, Zenon DEF Outside
<1>5. ASSUME NEW i \in Instances, Watch(i) \/ TakeTold(i) \/ Stop(i) PROVE UNCHANGED search
  BY <1>5, Zenon DEF Watch, Adopt, Look, Claim, Rotate, Cancelled, TakeTold, Stop
<1>6. ASSUME NEW d \in Clients, Search(d) PROVE Good(c)
  <2>1. CASE search'[c] # search[c] /\ GiveUp(d)
    BY <2>1 DEF GiveUp, NoSearch, TypeOK
  <2>2. CASE search'[c] # search[c] /\ FocusLook(d)
    <3>1. Candidates \in SUBSET Sessions
      BY DEF Candidates, Files
    <3>2. search[d].phase = "seek" /\ (GoesOn(d, "ask", None) \/ \E s \in Candidates : GoesOn(d, "claim", s))
      BY <2>2, Zenon DEF FocusLook
    <3>3. search[d].instance \in Instances
      BY <3>2 DEF FoundClaimed
    <3> QED  BY <2>2, <3>1, <3>2, <3>3 DEF GoesOn, TypeOK
  <2>3. CASE search'[c] # search[c] /\ FocusClaim(d)
    <3>1. /\ search[d].phase = "claim"
          /\ \/ GoesOn(d, "set", search[d].session) /\ TryClaim(search[d].session, search[d].instance)
             \/ GoesOn(d, "seek", None)
      BY <2>3, Zenon DEF FocusClaim
    <3>2. search[d].instance \in Instances /\ search[d].session \in Sessions
      BY <3>1 DEF FoundClaimed
    <3>3. d = c
      BY <2>3, <3>1 DEF GoesOn, TypeOK
    <3> QED  BY <3>1, <3>2, <3>3 DEF GoesOn, TryClaim, TypeOK
  <2>4. CASE TakeChoice(d)
    BY <2>4 DEF TakeChoice, Unasked
  <2>5. CASE search'[c] # search[c] /\ SetSession(d)
    BY <2>5 DEF SetSession, NoSearch, TypeOK
  <2> HIDE DEF Good
  <2> QED  BY <1>2, <1>6, <2>1, <2>2, <2>3, <2>4, <2>5, Zenon DEF Search
<1>7. UNCHANGED vars => UNCHANGED search
  BY DEF vars
<1> HIDE DEF Good
<1> QED  BY <1>3, <1>4, <1>5, <1>6, <1>7, Zenon DEF Next

LEMMA ShownStep ==
    ASSUME TypeOK, Unrotated, ToldClaimed, FoundClaimed, ShownIsClaimed, [Next]_vars
    PROVE  ShownIsClaimed'
<1> USE DEF claude, servers, watchers, searches
<1> SUFFICES ASSUME NEW i \in Instances, server'[i] = "up", session'[i] # None
             PROVE  claim'[session'[i]] = i
  BY DEF ShownIsClaimed
<1>1. KeptStep /\ server[i] = "up"
  BY ClaimStep DEF UpStays
<1>2. CASE session'[i] = session[i]
  <2>1. session[i] \in Sessions /\ claim[session[i]] = i
    BY <1>1, <1>2 DEF TypeOK, ShownIsClaimed
  <2> QED  BY <1>1, <1>2, <2>1, StillClaimed
<1>3. ASSUME NEW j \in Instances, TakeTold(j), session'[i] # session[i]
      PROVE  claim'[session'[i]] = i
  <2>1. /\ session' = [session EXCEPT ![j] = Head(told[j])]
        /\ told[j] # <<>> /\ UNCHANGED claim
    BY <1>3 DEF TakeTold
  <2>2. j = i /\ session'[i] = Head(told[i])
    BY <1>3, <2>1 DEF TypeOK
  <2>3. told[i] \in Seq(Sessions) /\ told[i] # <<>>
    BY <2>1, <2>2 DEF TypeOK
  <2>4. 1 \in 1..Len(told[i]) /\ Head(told[i]) = told[i][1]
    BY <2>3
  <2> QED  BY <1>1, <2>1, <2>2, <2>4 DEF ToldClaimed
<1>4. ASSUME NEW c \in Clients, SetSession(c), session'[i] # session[i]
      PROVE  claim'[session'[i]] = i
  <2>1. i = search[c].instance /\ session'[i] = search[c].session
    BY <1>4 DEF SetSession, TypeOK
  <2>2. search[c].phase = "set" /\ UNCHANGED claim
    BY <1>4 DEF SetSession
  <2> QED  BY <1>1, <2>1, <2>2 DEF FoundClaimed
<1>5. ASSUME NEW c \in Clients, GiveUp(c) \/ FocusLook(c) \/ FocusClaim(c) \/ TakeChoice(c)
      PROVE  UNCHANGED session
  BY <1>5, Zenon DEF GiveUp, FocusLook, FocusClaim, TakeChoice
<1>6. ASSUME NEW j \in Instances, Watch(j) \/ Stop(j) PROVE UNCHANGED session
  BY <1>6, Zenon DEF Watch, Adopt, Look, Claim, Rotate, Cancelled, Stop
<1>7. Outside \/ UNCHANGED vars => UNCHANGED session
  BY OutsideFrame DEF vars
<1> QED  BY <1>2, <1>3, <1>4, <1>5, <1>6, <1>7, Zenon DEF Next, Search

\* Without continuation and without a user's choice, the session id clients are
\* given is claimed for the instance: a refused claim is never shown.
THEOREM ShownCorrect == ~MayRotate /\ ~MaySelect => (Spec => []ShownIsClaimed)
<1> SUFFICES ASSUME ~MayRotate, ~MaySelect PROVE Spec => []ShownIsClaimed  OBVIOUS
<1> DEFINE Inv == TypeOK /\ Unrotated /\ Unasked /\ ToldClaimed /\ FoundClaimed /\ ShownIsClaimed
<1>1. Init => Inv
  <2> SUFFICES ASSUME Init PROVE Inv  OBVIOUS
  <2>1. Unrotated /\ Unasked /\ ShownIsClaimed
    BY DEF Init, Unrotated, Unasked, ShownIsClaimed
  <2>2. ToldClaimed
    BY DEF Init, ToldClaimed
  <2>3. FoundClaimed
    BY DEF Init, FoundClaimed, NoSearch
  <2> QED  BY <2>1, <2>2, <2>3, InitType
<1>2. Inv /\ [Next]_vars => Inv'
  BY TypeStep, UnrotatedStep, UnaskedStep, ToldStep, FoundStep, ShownStep
<1>3. Inv => ShownIsClaimed
  OBVIOUS
<1> QED  BY <1>1, <1>2, <1>3, PTL DEF Spec

(* The order in which the actor hears of the files a watcher reads. *)

\* The last entry of a list that is added to, or of which the first is taken.
LEMMA LastOf ==
    ASSUME NEW q \in Seq(Sessions)
    PROVE  /\ \A s \in Sessions :
                 Append(q, s) # <<>> /\ Append(q, s)[Len(Append(q, s))] = s
           /\ q # <<>> /\ Tail(q) # <<>> => Tail(q)[Len(Tail(q))] = q[Len(q)]
<1>1. ASSUME NEW s \in Sessions
      PROVE  Append(q, s) # <<>> /\ Append(q, s)[Len(Append(q, s))] = s
  <2>1. Len(Append(q, s)) = Len(q) + 1 /\ Append(q, s)[Len(q) + 1] = s
    OBVIOUS
  <2> QED  BY <2>1
<1>2. ASSUME q # <<>>, Tail(q) # <<>> PROVE Tail(q)[Len(Tail(q))] = q[Len(q)]
  <2>1. Len(Tail(q)) = Len(q) - 1 /\ Len(q) - 1 \in 1..Len(Tail(q))
    BY <1>2
  <2>2. Tail(q)[Len(q) - 1] = q[(Len(q) - 1) + 1]
    BY <1>2, <2>1
  <2>3. (Len(q) - 1) + 1 = Len(q)
    OBVIOUS
  <2> QED  BY <2>1, <2>2, <2>3
<1> QED  BY <1>1, <1>2

\* Nothing is on its way to the actor unless the watcher reads the last of it:
\* a watcher that is not reading has told nothing since the actor last listened.
LEMMA LastToldStep == TypeOK /\ LastToldIsWatched /\ [Next]_vars => LastToldIsWatched'
<1> SUFFICES ASSUME TypeOK, LastToldIsWatched, [Next]_vars, NEW i \in Instances,
                    told'[i] # <<>>, server'[i] # "stopped"
             PROVE  watcher'[i].phase = "watch" /\ watcher'[i].session = told'[i][Len(told'[i])]
  BY DEF LastToldIsWatched
<1> USE DEF claude, servers, watchers, searches
<1>0. /\ told \in [Instances -> Seq(Sessions)] /\ server \in [Instances -> {"up", "unregistered", "stopped"}]
      /\ watcher \in [Instances -> [phase : Phases, session : Sessions \cup {None}]]
      /\ next \in [Sessions -> Sessions \cup {None}]
      /\ told[i] # <<>> /\ server[i] # "stopped" =>
            watcher[i].phase = "watch" /\ watcher[i].session = told[i][Len(told[i])]
  BY DEF TypeOK, LastToldIsWatched
<1>1. CASE told'[i] = told[i] /\ watcher'[i] = watcher[i] /\ server[i] # "stopped"
  BY <1>0, <1>1
<1>2. CASE Outside
  <2>1. /\ told' = told /\ watcher' = watcher /\ server[i] # "stopped"
    BY <1>0, <1>2 DEF Outside, StartClaude, Unregister, Input, LogMessage, Continue, Select, Focus
  <2> QED  BY <1>1, <2>1
<1>3. ASSUME NEW j \in Instances, Watch(j)
      PROVE  watcher'[i].phase = "watch" /\ watcher'[i].session = told'[i][Len(told'[i])]
  <2>1. CASE j # i
    <3>1. told'[i] = told[i] /\ watcher'[i] = watcher[i] /\ server' = server
      BY <1>0, <1>3, <2>1 DEF Watch, Adopt, Look, Claim, Rotate, Cancelled
    <3> QED  BY <1>1, <3>1
  <2>2. CASE Adopt(i) \/ Look(i) \/ Cancelled(i)
    <3>1. told' = told /\ server' = server
      BY <2>2 DEF Adopt, Look, Cancelled
    <3>2. watcher[i].phase = "seek"
      BY <2>2, <3>1 DEF Adopt, Look, Cancelled
    <3> QED  BY <1>0, <3>1, <3>2
  <2>3. CASE Claim(i)
    <3>1. server' = server /\ watcher[i].phase = "claim" /\ told[i] = <<>>
      BY <1>0, <2>3 DEF Claim
    <3>2. watcher[i].session \in Sessions
      BY <2>3 DEF TypeOK, Claim
    <3>3. Free(watcher[i].session)
      BY <2>3, <3>1 DEF Claim
    <3>4. /\ told'[i] = Append(told[i], watcher[i].session)
          /\ watcher'[i] = [phase |-> "watch", session |-> watcher[i].session]
      BY <1>0, <2>3, <3>1, <3>3 DEF Claim
    <3>5. told'[i][Len(told'[i])] = watcher[i].session
      BY <1>0, <3>2, <3>4, LastOf
    <3> QED  BY <3>4, <3>5
  <2>4. CASE Rotate(i)
    <3> DEFINE t == next[watcher[i].session]
    <3>1. t \in Sessions
      BY <1>0, <2>4 DEF Rotate, TypeOK
    <3>2. /\ told'[i] = Append(told[i], t)
          /\ watcher'[i] = [watcher[i] EXCEPT !.session = t] /\ watcher[i].phase = "watch"
      BY <1>0, <2>4 DEF Rotate
    <3>3. told'[i][Len(told'[i])] = t
      BY <1>0, <3>1, <3>2, LastOf
    <3>4. watcher'[i].phase = "watch" /\ watcher'[i].session = t
      BY <1>0, <3>2
    <3> QED  BY <3>3, <3>4
  <2> QED  BY <1>3, <2>1, <2>2, <2>3, <2>4 DEF Watch
<1>4. ASSUME NEW j \in Instances, TakeTold(j)
      PROVE  watcher'[i].phase = "watch" /\ watcher'[i].session = told'[i][Len(told'[i])]
  <2>1. watcher' = watcher /\ server' = server
    BY <1>4 DEF TakeTold
  <2>2. CASE j # i
    <3>1. told'[i] = told[i]
      BY <1>0, <1>4, <2>2 DEF TakeTold
    <3> QED  BY <1>1, <2>1, <3>1
  <2>3. CASE j = i
    <3>1. told[i] # <<>> /\ told'[i] = Tail(told[i])
      BY <1>0, <1>4, <2>3 DEF TakeTold
    <3>2. told'[i][Len(told'[i])] = told[i][Len(told[i])]
      BY <1>0, <3>1, LastOf
    <3> QED  BY <1>0, <2>1, <3>1, <3>2
  <2> QED  BY <2>2, <2>3
<1>5. ASSUME NEW j \in Instances, Stop(j)
      PROVE  watcher'[i].phase = "watch" /\ watcher'[i].session = told'[i][Len(told'[i])]
  <2>1. j # i
    BY <1>0, <1>5 DEF Stop
  <2>2. told'[i] = told[i] /\ watcher' = watcher /\ server[i] # "stopped"
    BY <1>0, <1>5, <2>1 DEF Stop
  <2> QED  BY <1>1, <2>2
<1>6. ASSUME NEW c \in Clients, Search(c)
      PROVE  watcher'[i].phase = "watch" /\ watcher'[i].session = told'[i][Len(told'[i])]
  <2>1. told' = told /\ watcher' = watcher /\ server' = server
    BY <1>6 DEF Search, GiveUp, FocusLook, FocusClaim, TakeChoice, SetSession
  <2> QED  BY <1>1, <2>1
<1>7. CASE UNCHANGED vars
  BY <1>1, <1>7 DEF vars
<1> QED  BY <1>2, <1>3, <1>4, <1>5, <1>6, <1>7 DEF Next

\* The last session on its way to the actor of an instance is the one its
\* watcher reads, however claims, rotations, searches and deletions interleave.
THEOREM LastToldCorrect == Spec => []LastToldIsWatched
<1>1. Init => LastToldIsWatched
  BY DEF Init, LastToldIsWatched
<1> QED  BY <1>1, LastToldStep, TypeCorrect, PTL DEF Spec
=============================================================================
