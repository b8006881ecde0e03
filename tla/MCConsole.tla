----------------------------- MODULE MCConsole -----------------------------
EXTENDS Console, TLC
JobSymmetry == Permutations(Jobs)

\* Two requests of one kind meet in each behaviour: both change accounts, or both
\* change the tenancy, for the machine and for the administrator of one organisation,
\* who signed in before.  The machine stands for the platform administrators, ann
\* among them, who stay signed out.
ChangesAccounts(j) ==
  request[j].at \in {"create user", "read user", "set role", "check last", "set active"}
ChangesTenancy(j) == request[j].at \notin {"idle", "done"} /\ ~ChangesAccounts(j)
Bound ==
  /\ ~cookie["ann"] /\ signing["ann"] = None
  /\ (\E j \in Jobs : ChangesAccounts(j)) =>
       NumbersInit /\ stored = [a \in Agents |-> Gone] /\ org = [o \in Orgs |-> "active"]
  /\ (\E j \in Jobs : ChangesTenancy(j)) \/ ~NumbersInit =>
       /\ account["ann"].role = "platform_admin"
       /\ account["bob"] = [role |-> "org_admin", org |-> "north", active |-> TRUE]
       /\ signing = [u \in Users |-> None]
=============================================================================
