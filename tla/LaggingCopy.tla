---------------------------- MODULE LaggingCopy -----------------------------
(* A copy of a growing conversation.  The source gets new turns at its end and *)
(* results in the turns it has; the copy may be late with both, but it never   *)
(* has a gap, a turn twice or in the wrong place, or a result of its own.      *)
EXTENDS Naturals, Sequences

CONSTANTS
    Turn,       \* turns: records with an id and a set of results
    MayForget   \* TRUE: the copy may be replaced by an older one

VARIABLES source, copy

\* a is an earlier state of conversation b.
Precedes(a, b) ==
    /\ Len(a) <= Len(b)
    /\ \A i \in 1..Len(a) : a[i].id = b[i].id /\ a[i].results \subseteq b[i].results

Init == source = <<>> /\ copy = <<>>

Grow ==
    /\ source' \in Seq(Turn)
    /\ Precedes(source, source')
    /\ UNCHANGED copy

Show ==
    /\ copy' \in Seq(Turn)
    /\ Precedes(copy', source)
    /\ MayForget \/ Precedes(copy, copy')
    /\ UNCHANGED source

Next == Grow \/ Show

Spec == Init /\ [][Next]_<<source, copy>>
=============================================================================
