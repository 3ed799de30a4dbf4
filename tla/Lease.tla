------------------------------- MODULE Lease --------------------------------
(* What the terminal lock of an instance promises: a lease.  It is granted to  *)
(* one connection, in the name of its user; it may end at any time, but before *)
(* it has been idle for Timeout nobody else's grant ends it.                   *)
EXTENDS Naturals

CONSTANTS Connections, UserOf, Instances, Timeout

VARIABLE lease  \* instance -> at most one lease (a set of at most one record)

Init == lease = [i \in Instances |-> {}]

Granted(c) == [conn |-> c, user |-> UserOf[c], idle |-> 0]

\* A new lease: on what is free, over one's own, or over one that has expired.
Grant(i, c) ==
    /\ \A l \in lease[i] : l.user = UserOf[c] \/ l.idle = Timeout
    /\ lease' = [lease EXCEPT ![i] = {Granted(c)}]

\* The lease is as good as new, for whoever had it.
Renew(i) == lease' = [lease EXCEPT ![i] = {[l EXCEPT !.idle = 0] : l \in @}]

End(i) == lease' = [lease EXCEPT ![i] = {}]

\* Time passes for all leases alike.
Age == lease' = [i \in Instances |->
                    {[l EXCEPT !.idle = IF @ < Timeout THEN @ + 1 ELSE @] : l \in lease[i]}]

Next ==
    \/ \E i \in Instances : Renew(i) \/ End(i) \/ \E c \in Connections : Grant(i, c)
    \/ Age

Spec == Init /\ [][Next]_lease
=============================================================================
