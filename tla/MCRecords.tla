----------------------------- MODULE MCRecords ------------------------------
(* Small instances of the accounts the server keeps: the list of its           *)
(* instances, their inbox, the history of their sessions, and the files other  *)
(* processes find it by.  They share no state and no table, so each is         *)
(* explored with the others at rest.                                           *)
EXTENDS InstanceList, Inbox, History, DaemonFiles, TLC

Init == ListInit /\ HistoryInit /\ InboxInit /\ DaemonInit

Next ==
    \/ HistoryInit /\ InboxInit /\ DaemonInit /\ ListNext /\ UNCHANGED <<inboxVars, historyVars, daemonVars>>
    \/ ListInit /\ HistoryInit /\ DaemonInit /\ InboxNext /\ UNCHANGED <<listVars, historyVars, daemonVars>>
    \/ ListInit /\ InboxInit /\ DaemonInit /\ HistoryNext /\ UNCHANGED <<listVars, inboxVars, daemonVars>>
    \/ ListInit /\ HistoryInit /\ InboxInit /\ DaemonNext /\ UNCHANGED <<listVars, inboxVars, historyVars>>

Spec == Init /\ [][Next]_<<listVars, inboxVars, historyVars, daemonVars>>

\* Instances are alike, and so are trackers.
Symmetry == Permutations(Instances) \cup Permutations(InboxInstances) \cup Permutations(Trackers)
=============================================================================
