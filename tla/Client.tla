-------------------------------- MODULE Client --------------------------------
(***************************************************************************)
(* The browser side of the system: the session of a tab, the pages that    *)
(* work out rent schedules, what the ledger page shows and the panes in    *)
(* which a row is worked on.  They share no variable - a page that loses   *)
(* its session is one that is left - and a behaviour is about one of them. *)
(***************************************************************************)
EXTENDS Session, RentPlan, Statement, Panes

VARIABLE topic

vars == <<topic, sessionVars, planVars, statementVars, paneVars>>

Topics == {"session", "plan", "report", "pane"}

(* The panes a behaviour is not about start in one way.                    *)
Init ==
  /\ topic \in Topics
  /\ SessionInit /\ PlanInit /\ StatementInit /\ PaneInit
  /\ topic # "pane" => kind = "record"

Next ==
  /\ UNCHANGED topic
  /\ \/ topic = "session" /\ SessionNext /\ UNCHANGED <<planVars, statementVars, paneVars>>
     \/ topic = "plan" /\ PlanNext /\ UNCHANGED <<sessionVars, statementVars, paneVars>>
     \/ topic = "report" /\ StatementNext /\ UNCHANGED <<sessionVars, planVars, paneVars>>
     \/ topic = "pane" /\ PaneNext /\ UNCHANGED <<sessionVars, planVars, statementVars>>

Spec == Init /\ [][Next]_vars

TypeOK == topic \in Topics /\ SessionTypeOK /\ PlanTypeOK /\ StatementTypeOK /\ PaneTypeOK
===============================================================================
