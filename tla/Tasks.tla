--------------------------------- MODULE Tasks ---------------------------------
(***************************************************************************)
(* What the two tasks keep in the database: the directory of the network   *)
(* task and the hubs of the RRC task.  They share no variable, so a        *)
(* behaviour takes one of them; the other stays as it was.                 *)
(***************************************************************************)
EXTENDS Directory, RrcAdapter

TasksInit == Init /\ AdapterInit

TasksNext ==
    \/ AdapterInit /\ Next /\ UNCHANGED adapterVars
    \/ Init /\ AdapterNext /\ UNCHANGED vars

\* The fairness of Directory, in the behaviours that take it.
TasksFairness ==
    /\ WF_vars(AdapterInit /\ (Start \/ Subscribe \/ AskRecent \/ EnterLoop \/ \E a \in seeds : Seed(a)))
    /\ \A k \in 1..4 : WF_vars(AdapterInit /\ ReceiveAnnounce(k))
    /\ WF_vars(AdapterInit /\ \E node \in Destinations : Tick(node))
    /\ WF_vars(AdapterInit /\ TimePasses)
    /\ WF_vars(AdapterInit /\ FinishDownload)

TasksSpec == TasksInit /\ [][TasksNext]_<<vars, adapterVars>> /\ TasksFairness

\* The types of the two parts.
TasksTypeOK == TypeOK /\ AdapterTypeOK
=============================================================================
