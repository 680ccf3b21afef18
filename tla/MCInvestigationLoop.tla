-------------------------- MODULE MCInvestigationLoop --------------------------
(* Values for the constants of InvestigationLoop. *)
EXTENDS InvestigationLoop

MCMetricOf == [c \in Claims |-> IF c = 1 THEN "revenue" ELSE "margin"]
MCRunnable == Tools \X Metrics
MCReadings == {[sup |-> 0, ref |-> 0, neutral |-> TRUE],
               [sup |-> 2, ref |-> 0, neutral |-> FALSE],
               [sup |-> 0, ref |-> 2, neutral |-> FALSE]}
===============================================================================
