-------------------------- MODULE MCDashboardPage --------------------------
(* DashboardPage with a history of two packets, so that three of them wrap *)
(* it, and one page: pages share nothing but the broadcasts.               *)
EXTENDS DashboardPage
=============================================================================
