-------------------------- MODULE Viewports_proof ---------------------------
(* Dimension negotiation for every set of connections and every set of sizes. *)
EXTENDS Viewports, WellFoundedInduction, TLAPS

USE RowsAssumption, ColsAssumption

\* A set of naturals with a member has a least member.
LEMMA LeastIsLeast ==
    ASSUME NEW S \in SUBSET Nat, S # {}
    PROVE  Least(S) \in S /\ \A m \in S : Least(S) <= m
<1>1. PICK n \in S : \A m \in S : ~(<<m, n>> \in OpToRel(<, Nat))
  BY NatLessThanWellFounded, WFMin, Zenon
<1>2. \A m \in S : ~(m < n)
  BY <1>1, Zenon DEF OpToRel
<1>3. \A m \in S : n <= m
  BY <1>2
<1> QED
  BY <1>3, Zenon DEF Least

\* The least rows and columns of some viewports, each attained by one of them.
LEMMA MinimumFits ==
    ASSUME NEW V \in SUBSET Viewport, V # {}
    PROVE  /\ Minimum(V) \in Dims
           /\ \A v \in V : Minimum(V).rows <= v.rows /\ Minimum(V).cols <= v.cols
           /\ \E w \in V : w.rows = Minimum(V).rows
           /\ \E w \in V : w.cols = Minimum(V).cols
<1> DEFINE R == {v.rows : v \in V}
           C == {v.cols : v \in V}
<1>1. R \in SUBSET Rows /\ R # {} /\ C \in SUBSET Cols /\ C # {}
  BY DEF Viewport
<1>2. R \in SUBSET Nat /\ C \in SUBSET Nat
  BY <1>1
<1>3. Least(R) \in R /\ \A m \in R : Least(R) <= m
  BY <1>1, <1>2, LeastIsLeast
<1>4. Least(C) \in C /\ \A m \in C : Least(C) <= m
  BY <1>1, <1>2, LeastIsLeast
<1>5. Minimum(V) = [rows |-> Least(R), cols |-> Least(C)]
  BY DEF Minimum
<1>6. Minimum(V).rows = Least(R) /\ Minimum(V).cols = Least(C)
  BY <1>5
<1>7. Minimum(V) \in Dims
  BY <1>1, <1>3, <1>4, <1>5 DEF Dims
<1>8. \A v \in V : v.rows \in R /\ v.cols \in C
  OBVIOUS
<1>9. \A v \in V : Minimum(V).rows <= v.rows /\ Minimum(V).cols <= v.cols
  BY <1>3, <1>4, <1>6, <1>8
<1>10. (\E w \in V : w.rows = Least(R)) /\ (\E w \in V : w.cols = Least(C))
  BY <1>3, <1>4
<1> QED
  BY <1>6, <1>7, <1>9, <1>10

\* The active viewports of a well-typed map are viewports.
LEMMA ActiveType ==
    ASSUME NEW vp \in [Connections -> SUBSET Viewport]
    PROVE  Active(vp) \in SUBSET Viewport
BY DEF Active

\* What a command of the actor does to the viewports and dimensions.
LEMMA ChangeFits ==
    ASSUME TypeOK, NEW c \in Connections, NEW vp \in [Connections -> SUBSET Viewport],
           \A d \in Connections : \A v, w \in vp[d] : v = w,
           Change(c, vp)
    PROVE  /\ viewport' \in [Connections -> SUBSET Viewport]
           /\ \A d \in Connections : \A v, w \in viewport'[d] : v = w
           /\ effective' \in Dims
           /\ pending' \in [Connections -> SUBSET Dims]
           /\ EffectiveFitsAll'
           /\ Active(viewport)' = {} => effective' = effective
<1>1. /\ viewport' = vp /\ effective' = Negotiated(vp)
      /\ pending' = [pending EXCEPT ![c] = Answer(Negotiated(vp))]
  BY DEF Change
<1>2. Active(vp) \in SUBSET Viewport
  BY ActiveType
<1>3. effective \in Dims /\ pending \in [Connections -> SUBSET Dims]
  BY DEF TypeOK
<1>4. CASE Active(vp) = {}
  <2>1. effective' = effective
    BY <1>1, <1>4 DEF Negotiated
  <2>2. Answer(Negotiated(vp)) = {}
    BY <1>4 DEF Answer, Negotiated
  <2> QED
    BY <1>1, <1>3, <1>4, <2>1, <2>2 DEF EffectiveFitsAll
<1>5. CASE Active(vp) # {}
  <2>1. effective' = Minimum(Active(vp)) /\ Negotiated(vp) = Minimum(Active(vp))
    BY <1>1, <1>5 DEF Negotiated
  <2>2. Minimum(Active(vp)) \in Dims
    BY <1>2, <1>5, MinimumFits
  <2>3. Answer(Negotiated(vp)) \in SUBSET Dims
    BY <2>1, <2>2 DEF Answer
  <2>4. EffectiveFitsAll'
    BY <1>1, <1>2, <1>5, <2>1, MinimumFits DEF EffectiveFitsAll
  <2> QED
    BY <1>1, <1>3, <1>5, <2>1, <2>2, <2>3, <2>4
<1> QED
  BY <1>4, <1>5

\* A screen that fits everybody who looks still does after every step, and with
\* nobody looking it has kept its size.
Fits == TypeOK /\ EffectiveFitsAll

LEMMA FitsStep ==
    ASSUME Fits, [Next]_vars
    PROVE  Fits' /\ (Active(viewport)' = {} => effective' = effective)
<1> USE DEF Fits, TypeOK
<1>0. ASSUME UNCHANGED <<viewport, effective>>
      PROVE  EffectiveFitsAll' /\ (Active(viewport)' = {} => effective' = effective)
  BY <1>0 DEF EffectiveFitsAll, Active
<1>1. ASSUME NEW c \in Connections, NEW r \in Rows, NEW w \in Cols, Update(c, r, w)
      PROVE  Fits' /\ (Active(viewport)' = {} => effective' = effective)
  <2> DEFINE vp == Registered(c, r, w)
  <2>0. {[rows |-> r, cols |-> w, active |-> TRUE]} \in SUBSET Viewport
    BY DEF Viewport
  <2>1. vp \in [Connections -> SUBSET Viewport] /\ \A d \in Connections : \A v, x \in vp[d] : v = x
    BY <2>0 DEF Registered
  <2>2. Change(c, vp) /\ UNCHANGED <<pty, status>>
    BY <1>1 DEF Update
  <2> HIDE DEF vp
  <2> QED
    BY <2>1, <2>2, ChangeFits
<1>2. ASSUME NEW c \in Connections, Hide(c)
      PROVE  Fits' /\ (Active(viewport)' = {} => effective' = effective)
  <2> DEFINE vp == [viewport EXCEPT ![c] = {[v EXCEPT !.active = FALSE] : v \in @}]
  <2> DEFINE H == {[v EXCEPT !.active = FALSE] : v \in viewport[c]}
  <2>0. \A v \in Viewport : [v EXCEPT !.active = FALSE] \in Viewport
    BY DEF Viewport
  <2>a. H \in SUBSET Viewport /\ \A v, x \in H : v = x
    BY <2>0
  <2>b. vp = [viewport EXCEPT ![c] = H]
    OBVIOUS
  <2> HIDE DEF H
  <2>1. vp \in [Connections -> SUBSET Viewport] /\ \A d \in Connections : \A v, x \in vp[d] : v = x
    BY <2>a, <2>b
  <2>2. Change(c, vp) /\ UNCHANGED <<pty, status>>
    BY <1>2 DEF Hide
  <2> HIDE DEF vp
  <2> QED
    BY <2>1, <2>2, ChangeFits
<1>3. ASSUME NEW c \in Connections, ResizePty(c)
      PROVE  Fits' /\ (Active(viewport)' = {} => effective' = effective)
  BY <1>0, <1>3 DEF ResizePty
<1>4. ASSUME NEW c \in Connections, Disconnect(c)
      PROVE  Fits' /\ (Active(viewport)' = {} => effective' = effective)
  BY <1>0, <1>4 DEF Disconnect
<1>5. ASSUME NEW c \in Connections, Remove(c)
      PROVE  Fits' /\ (Active(viewport)' = {} => effective' = effective)
  <2>1. /\ Removed(c) \in [Connections -> SUBSET Viewport]
        /\ \A d \in Connections : \A v, x \in Removed(c)[d] : v = x
    BY DEF Removed
  <2>2. Change(c, Removed(c)) /\ pty' = pty /\ status' = [status EXCEPT ![c] = "gone"]
    BY <1>5 DEF Remove
  <2> QED
    BY <2>1, <2>2, ChangeFits
<1>6. CASE UNCHANGED vars
  BY <1>0, <1>6 DEF vars
<1> QED
  BY <1>1, <1>2, <1>3, <1>4, <1>5, <1>6 DEF Next

LEMMA FitsAlways == Spec => []Fits
<1>1. Init => Fits
  BY DEF Init, Fits, TypeOK, EffectiveFitsAll, Active, Dims, InitDims
<1>2. Fits /\ [Next]_vars => Fits'
  BY FitsStep
<1> QED
  BY <1>1, <1>2, PTL DEF Spec

\* The dimensions fit every active client and are those of active clients, for
\* any sizes reported in any order by any number of clients.
THEOREM EffectiveCorrect == Spec => []EffectiveFitsAll
<1>1. Fits => EffectiveFitsAll
  BY DEF Fits
<1> QED
  BY <1>1, FitsAlways, PTL

\* With no active client left, a step keeps the dimensions.
THEOREM KeptCorrect == Spec => KeptWhenNobodyLooks
<1>1. Fits /\ [Next]_vars => [Active(viewport)' = {} => effective' = effective]_vars
  BY FitsStep
<1> QED
  BY <1>1, FitsAlways, PTL DEF Spec, KeptWhenNobodyLooks

\* Every state the negotiation keeps has its type.
THEOREM TypeCorrect == Spec => []TypeOK
<1>1. Fits => TypeOK
  BY DEF Fits
<1> QED
  BY <1>1, FitsAlways, PTL

\* A connection whose clean-up has run has no viewport, hidden or not.
THEOREM NoGhosts == Spec => []NoGhostViewports
<1>1. Init => NoGhostViewports
  BY DEF Init, NoGhostViewports
<1>2. Fits /\ NoGhostViewports /\ [Next]_vars => NoGhostViewports'
  BY DEF Fits, TypeOK, NoGhostViewports, Next, Update, Hide, ResizePty, Disconnect,
         Remove, Removed, Registered, Change, vars
<1> QED
  BY <1>1, <1>2, FitsAlways, PTL DEF Spec

-----------------------------------------------------------------------------
(* While no handler starts before the others have sent their second command,  *)
(* the program's size follows.                                                *)

\* Connections between their two commands, or about to be cleaned up.
Busy == {c \in Connections : pending[c] # {} \/ status[c] = "closing"}

\* One connection at most is at work, and what it has still to send is what the
\* screen has already become.
SerialInv ==
    /\ \A c, d \in Busy : c = d
    /\ \A c \in Connections : pending[c] # {} => pending[c] = {effective}
    /\ \A c \in Connections : status[c] = "closing" => pending[c] = {}
    /\ (\A c \in Connections : pending[c] = {}) => pty = effective

LEMMA ChangeSerial ==
    ASSUME TypeOK, SerialInv, NEW c \in Connections, NEW vp, Change(c, vp), pty' = pty,
           \A d \in Connections : pending[d] = {},
           \A d \in Connections : status'[d] # "closing"
    PROVE  SerialInv'
<1>1. pending' = [pending EXCEPT ![c] = Answer(effective')] /\ pending \in [Connections -> SUBSET Dims]
  BY DEF Change, TypeOK
<1>2. /\ pending'[c] = Answer(effective')
      /\ \A d \in Connections : d # c => pending'[d] = {}
  BY <1>1
<1>3. \A d \in Connections : d \in Busy' => d = c
  BY <1>2 DEF Busy
<1>4. Answer(effective') = IF effective' = effective THEN {} ELSE {effective'}
  BY DEF Answer
<1>5. pty = effective
  BY DEF SerialInv
<1>6. Busy' \subseteq Connections
  BY DEF Busy
<1>7. \A d \in Connections : pending'[d] # {} => pending'[d] = {effective'}
  BY <1>2, <1>4
<1>8. (\A d \in Connections : pending'[d] = {}) => pty' = effective'
  BY <1>2, <1>4, <1>5
<1> QED BY <1>3, <1>6, <1>7, <1>8 DEF SerialInv

LEMMA SerialNext ==
    ASSUME Serial, TypeOK, SerialInv, [Next]_vars
    PROVE  SerialInv'
<1>1. ASSUME NEW c \in Connections, NEW r \in Rows, NEW w \in Cols, Update(c, r, w)
      PROVE  SerialInv'
  <2>1. (\A d \in Connections : pending[d] = {} /\ status[d] # "closing") /\ status' = status /\ pty' = pty
    BY <1>1 DEF Update, Free
  <2> QED BY <1>1, <2>1, ChangeSerial DEF Update
<1>2. ASSUME NEW c \in Connections, Hide(c)
      PROVE  SerialInv'
  <2>1. (\A d \in Connections : pending[d] = {} /\ status[d] # "closing") /\ status' = status /\ pty' = pty
    BY <1>2 DEF Hide, Free
  <2> QED BY <1>2, <2>1, ChangeSerial DEF Hide
<1>3. ASSUME NEW c \in Connections, ResizePty(c)
      PROVE  SerialInv'
  <2>1. c \in Busy /\ pending[c] = {effective} /\ pty' = effective /\ effective' = effective /\ status' = status
    BY <1>3 DEF ResizePty, Busy, SerialInv
  <2>2. \A d \in Connections : pending'[d] = {}
    BY <1>3, <2>1 DEF ResizePty, Busy, SerialInv, TypeOK
  <2>3. \A d \in Busy' : d \in Busy
    BY <2>1, <2>2 DEF Busy
  <2> QED BY <2>1, <2>2, <2>3 DEF SerialInv
<1>4. ASSUME NEW c \in Connections, Disconnect(c)
      PROVE  SerialInv'
  <2>1. /\ \A d \in Connections : pending[d] = {} /\ status[d] # "closing"
        /\ effective' = effective /\ pty' = pty /\ \A d \in Connections : pending'[d] = {}
        /\ \A d \in Connections : d # c => status'[d] = status[d]
    BY <1>4 DEF Disconnect, Free, TypeOK
  <2>2. \A d \in Busy' : d = c
    BY <2>1 DEF Busy
  <2> QED BY <2>1, <2>2 DEF SerialInv
<1>5. ASSUME NEW c \in Connections, Remove(c)
      PROVE  SerialInv'
  <2>1. c \in Busy /\ status' = [status EXCEPT ![c] = "gone"] /\ pty' = pty
    BY <1>5 DEF Remove, Busy
  <2>2. \A d \in Connections : pending[d] = {} /\ (d # c => status[d] # "closing")
    BY <1>5, <2>1 DEF Remove, SerialInv, Busy
  <2>3. \A d \in Connections : status'[d] # "closing"
    BY <2>1, <2>2 DEF TypeOK
  <2> QED BY <1>5, <2>1, <2>2, <2>3, ChangeSerial DEF Remove
<1>6. CASE UNCHANGED vars
  BY <1>6 DEF vars, SerialInv, Busy
<1> QED BY <1>1, <1>2, <1>3, <1>4, <1>5, <1>6 DEF Next

\* If handlers finish one after the other, the PTY follows the screen: what the
\* run viewports_race shows to go wrong needs two handlers between their commands.
THEOREM PtyFollows == ASSUME Serial PROVE Spec => []PtyFollowsWhenQuiet
<1>1. Init => SerialInv
  BY DEF Init, SerialInv, Busy
<1>2. TypeOK /\ SerialInv /\ [Next]_vars => SerialInv'
  BY SerialNext
<1>3. SerialInv => PtyFollowsWhenQuiet
  BY DEF SerialInv, PtyFollowsWhenQuiet, Quiet
<1> QED
  BY <1>1, <1>2, <1>3, TypeCorrect, PTL DEF Spec
=============================================================================
