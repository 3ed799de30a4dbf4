----------------------------- MODULE Viewports ------------------------------
(* Dimension negotiation of one instance: the viewports VirtualTerminal keeps *)
(* per client (virtual_terminal/src/lib.rs), the two commands a handler sends *)
(* to the instance actor to change one (instance_actor.rs), and the handlers  *)
(* and the disconnect clean-up that send them (ws/handler.rs).                *)
(*                                                                            *)
(* The actor takes one command at a time.  A handler asks for the viewport    *)
(* change, waits for the answer, and only if the effective dimensions changed *)
(* sends a second command that resizes the PTY: pending[c] is that second     *)
(* command, which comes in any order with those of other connections and is   *)
(* lost if the select! of c drops the handler first.                          *)
EXTENDS Naturals

CONSTANTS
    Connections,
    Rows, Cols,             \* the heights and widths clients report
    InitRows, InitCols,     \* the size the PTY and the terminal are created with
    Serial                  \* TRUE: no handler starts while a resize is pending

ASSUME RowsAssumption == Rows \subseteq Nat /\ InitRows \in Nat
ASSUME ColsAssumption == Cols \subseteq Nat /\ InitCols \in Nat

VARIABLES
    viewport,   \* connection -> at most one registered viewport
    effective,  \* effective_dims; the vt100 screen always has this size
    pty,        \* the size last set on the PTY
    pending,    \* connection -> at most one PTY resize it has still to send
    status      \* connection -> open, closing (select! ended), gone (viewport removed)

vars == <<viewport, effective, pty, pending, status>>

Viewport == [rows : Rows, cols : Cols, active : BOOLEAN]
Dims == [rows : Rows \cup {InitRows}, cols : Cols \cup {InitCols}]
InitDims == [rows |-> InitRows, cols |-> InitCols]

Init ==
    /\ viewport = [c \in Connections |-> {}]
    /\ effective = InitDims
    /\ pty = InitDims
    /\ pending = [c \in Connections |-> {}]
    /\ status = [c \in Connections |-> "open"]

Least(S) == CHOOSE n \in S : \A m \in S : n <= m

\* The viewports that count: is_active.
Active(vp) == {v \in UNION {vp[c] : c \in Connections} : v.active}

\* Fault: both sides of a client with the fewest rows.
Minimum_OfOneClient(V) ==
    LET v == CHOOSE v \in V : \A w \in V : v.rows <= w.rows
    IN  [rows |-> v.rows, cols |-> v.cols]

\* calculate_effective_dims, for at least one active viewport: rows and columns
\* are minimised apart.
Minimum(V) == [rows |-> Least({v.rows : v \in V}), cols |-> Least({v.cols : v \in V})]

\* Fault: with no active viewport the terminal falls back to its first size.
Negotiated_Reset(vp) == IF Active(vp) = {} THEN InitDims ELSE Minimum(Active(vp))

\* recalculate_effective_dims: with no active viewport the dimensions stay.
Negotiated(vp) == IF Active(vp) = {} THEN effective ELSE Minimum(Active(vp))

\* What the actor answers, and the handler then resizes the PTY to.
Answer(new) == IF new = effective THEN {} ELSE {new}

\* The actor runs UpdateViewport, SetClientActive or RemoveClient for c.
Change(c, vp) ==
    /\ viewport' = vp
    /\ effective' = Negotiated(vp)
    /\ pending' = [pending EXCEPT ![c] = Answer(Negotiated(vp))]

Free(c) ==
    /\ pending[c] = {}
    /\ Serial => \A d \in Connections : pending[d] = {} /\ status[d] # "closing"

\* update_viewport: a report replaces the client's viewport and makes it active.
Registered(c, r, w) ==
    [viewport EXCEPT ![c] = {[rows |-> r, cols |-> w, active |-> TRUE]}]

\* ClientMessage::Resize and ClientMessage::TerminalVisible.
Update(c, r, w) ==
    /\ status[c] = "open"
    /\ Free(c)
    /\ Change(c, Registered(c, r, w))
    /\ UNCHANGED <<pty, status>>

\* ClientMessage::TerminalHidden (set_active): ignored for a client never seen.
Hide(c) ==
    /\ status[c] = "open"
    /\ Free(c)
    /\ Change(c, [viewport EXCEPT ![c] = {[v EXCEPT !.active = FALSE] : v \in @}])
    /\ UNCHANGED <<pty, status>>

\* The second command: InstanceCommand::Resize.
ResizePty(c) ==
    /\ pending[c] # {}
    /\ pty' \in pending[c]
    /\ pending' = [pending EXCEPT ![c] = {}]
    /\ UNCHANGED <<viewport, effective, status>>

\* select! ends and drops the handler, between its two commands if it is there.
Disconnect(c) ==
    /\ status[c] = "open"
    /\ Serial => Free(c)
    /\ status' = [status EXCEPT ![c] = "closing"]
    /\ pending' = [pending EXCEPT ![c] = {}]
    /\ UNCHANGED <<viewport, effective, pty>>

\* Fault: the clean-up hides the viewport instead of removing it.
Removed_Hidden(c) == [viewport EXCEPT ![c] = {[v EXCEPT !.active = FALSE] : v \in @}]

\* remove_client: the viewport goes, active or not.
Removed(c) == [viewport EXCEPT ![c] = {}]

\* The clean-up: remove_client_and_resize.
Remove(c) ==
    /\ status[c] = "closing"
    /\ Change(c, Removed(c))
    /\ status' = [status EXCEPT ![c] = "gone"]
    /\ UNCHANGED pty

Next ==
    \E c \in Connections :
        \/ \E r \in Rows, w \in Cols : Update(c, r, w)
        \/ Hide(c)
        \/ ResizePty(c)
        \/ Disconnect(c)
        \/ Remove(c)

Spec == Init /\ [][Next]_vars

-----------------------------------------------------------------------------
(* Properties.                                                                *)

TypeOK ==
    /\ viewport \in [Connections -> SUBSET Viewport]
    /\ \A c \in Connections : \A v, w \in viewport[c] : v = w
    /\ effective \in Dims
    /\ pty \in Dims
    /\ pending \in [Connections -> SUBSET Dims]
    /\ status \in [Connections -> {"open", "closing", "gone"}]

\* The screen fits every client that shows it, and is no smaller than needed:
\* each of its sides is the side of some client that shows it.
EffectiveFitsAll ==
    \A v \in Active(viewport) :
        /\ effective.rows <= v.rows /\ effective.cols <= v.cols
        /\ \E w \in Active(viewport) : w.rows = effective.rows
        /\ \E w \in Active(viewport) : w.cols = effective.cols

\* When the last viewer hides its terminal or goes, the screen keeps its size:
\* "don't shrink to nothing".
KeptWhenNobodyLooks ==
    [][Active(viewport)' = {} => effective' = effective]_vars

\* A connection that is gone constrains nobody: it has left no viewport behind,
\* not even a hidden one, whatever its handler was doing.
NoGhostViewports == \A c \in Connections : status[c] = "gone" => viewport[c] = {}

Quiet == \A c \in Connections : pending[c] = {} /\ status[c] # "closing"

\* "Server sets PTY size to min(all active viewports)": with nothing in progress
\* and somebody looking, program and clients agree on the size of the screen.
PtyFollowsWhenQuiet == Quiet /\ Active(viewport) # {} => pty = effective
=============================================================================
