--------------------------- MODULE MCEventsAndTabs ---------------------------
(* The organiser's event with its venue e-mails, the session of a browser and *)
(* the lock of its cookie, each with small sets.  They share no state: a      *)
(* behaviour is about one of them (focus), and their states add up.           *)
EXTENDS Events, BrowserSession, CookieLock

CONSTANTS tab1, ac1, op1, op2, v1

VARIABLE focus

vars == <<focus, eventVars, browserVars, lockVars>>

FirstEvent == [status |-> "DRAFT", type |-> "PUBLIC", version |-> 0, venue |-> v1, start |-> 1]

Init ==
    /\ focus \in {"events", "browser", "lock"}
    /\ EventsInit /\ BrowserInit /\ LockInit
    /\ focus # "events" => event = FirstEvent
    /\ cookie \in (IF focus = "browser" THEN {ac1, NoOne} ELSE {NoOne})

\* Tabs, accounts and requests of a browser are alike: the earlier visit was ac1's,
\* the first request is tab1's, and a request takes op1 when it is free.
OneOfAKind ==
    /\ begun = 0 /\ begun' = 1 => \E o \in Op : op'[o].tab = tab1
    /\ begun' > begun /\ op[op1] = Idle => op'[op2] = op[op2]

Next ==
    \/ focus = "events" /\ EventsNext /\ UNCHANGED <<focus, browserVars, lockVars>>
    \/ focus = "browser" /\ BrowserNext /\ OneOfAKind /\ UNCHANGED <<focus, eventVars, lockVars>>
    \/ focus = "lock" /\ LockNext /\ UNCHANGED <<focus, eventVars, browserVars>>

\* Of the three, only the worker of the events is fair; it is idle in the others.
Spec == Init /\ [][Next]_vars /\ EventsFairness
=============================================================================
