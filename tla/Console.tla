------------------------------ MODULE Console ------------------------------
(***************************************************************************)
(* The console's requests as they meet: accounts (Accounts) decide who     *)
(* gets through to the tenancy (Numbers), while calls are being routed.    *)
(***************************************************************************)
EXTENDS Numbers

consoleVars == <<people, request, tenancy>>

ConsoleInit ==
  /\ request = [j \in Jobs |-> Idle]
  /\ AccountsInit
  /\ NumbersInit

ConsoleNext ==
  \/ AccountsNext /\ UNCHANGED tenancy
  \/ NumbersNext

ConsoleSpec == ConsoleInit /\ [][ConsoleNext]_consoleVars

ConsoleTypeOK ==
  /\ AccountsTypeOK
  /\ NumbersTypeOK
=============================================================================
