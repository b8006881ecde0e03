------------------------------ MODULE Numbers ------------------------------
(***************************************************************************)
(* Organisations, the numbers that reach them and the agents that answer   *)
(* (db/tenancy.py, db/profiles.py, api/routes.py, telephony/routing.py).   *)
(* Organisations and numbers live in the database alone; an agent's        *)
(* profile is saved there and then applied to the copy in memory, which is *)
(* what a call and the check of a number go by.                            *)
(***************************************************************************)
EXTENDS Accounts

CONSTANTS
  Dids,     \* bound: the numbers
  Agents,   \* bound: the agents' keys, "default" among them
  Callers,  \* bound: the calls
  Mishaps   \* of "save", "crash": what may go wrong; bound: one of them, once

ASSUME NumbersAssumption ==
  /\ "default" \in Agents
  /\ "nobody" \notin Jobs
  /\ Mishaps \subseteq {"save", "crash"}

VARIABLES
  org,      \* by organisation: absent, active or suspended
  did,      \* by number, its mapping
  stored,   \* by key, the profile in the database
  profile,  \* by key, the profile in memory
  ring,     \* by call, the number dialled, what it was resolved to, who answers
  mishaps,  \* the ones that may still happen
  moved,    \* history: the agents removed, or given another owner, in memory
  crossed   \* history: the agents of which two changes ran at once, since the boot

tenancy == <<org, did, stored, profile, ring, mishaps, moved, crossed>>

\* A profile: who owns it, and the request that wrote it.
Gone == [owner |-> None, by |-> "nobody"]
BuiltIn == [owner |-> None, by |-> "code"]
Profiles == [owner : Orgs \cup {None}, by : Jobs \cup {"earlier"}] \cup {Gone, BuiltIn}

Unmapped == [org |-> None, agent |-> "default", active |-> FALSE]

\* The copy a boot makes: the saved profiles over the built-in default.
Loaded(kept) ==
  [a \in Agents |-> IF kept[a] = Gone /\ a = "default" THEN BuiltIn ELSE kept[a]]

\* ensure_visible: what belongs to nobody is the platform's.
Visible(by, owner) == Unrestricted(by) \/ (owner # None /\ owner = by.org)

-----------------------------------------------------------------------------
(* Organisations. *)

AskOrganisation(j, by) ==
  /\ \E o \in Orgs :
       \/ Admit(j, by, "tenants", "create org", [org |-> o])
       \/ \E active \in BOOLEAN :
            Admit(j, by, "tenants", "patch org", [org |-> o, active |-> active])
  /\ UNCHANGED <<people, tenancy>>

CreateOrganisation(j) ==
  /\ request[j].at = "create org"
  /\ org' = [org EXCEPT ![request[j].arg.org] = IF @ = "absent" THEN "active" ELSE @]
  /\ End(j)
  /\ UNCHANGED <<people, did, stored, profile, ring, mishaps, moved, crossed>>

\* Suspending takes the numbers out of service and deletes nothing.
PatchOrganisation(j) ==
  /\ request[j].at = "patch org"
  /\ org' = [org EXCEPT ![request[j].arg.org] =
       IF @ = "absent" THEN @ ELSE IF request[j].arg.active THEN "active" ELSE "suspended"]
  /\ End(j)
  /\ UNCHANGED <<people, did, stored, profile, ring, mishaps, moved, crossed>>

-----------------------------------------------------------------------------
(* Numbers. *)

AskNumber(j, by) ==
  /\ \E n \in Dids :
       \/ Admit(j, by, "tenants", "free did", [did |-> n])
       \/ \E o \in Orgs, a \in Agents, active \in BOOLEAN :
            Admit(j, by, "tenants", "check did",
                  [did |-> n, org |-> o, agent |-> a, active |-> active])
  /\ UNCHANGED <<people, tenancy>>

\* Mutant: any agent that exists will do.
AnyMayAnswer(p, o) == p # Gone
\* The agent must be its organisation's own, or nobody's.
MayAnswer(p, o) == p # Gone /\ p.owner \in {None, o}

\* The organisation is read, and the agent looked up in memory ...
CheckNumber(j) ==
  LET a == request[j].arg IN
  /\ request[j].at = "check did"
  /\ IF org[a.org] # "absent" /\ MayAnswer(profile[a.agent], a.org)
       THEN Move(j, "map did")
       ELSE End(j)
  /\ UNCHANGED <<people, tenancy>>

\* ... before the mapping is merged, over the number's old one.
MapNumber(j) ==
  LET a == request[j].arg IN
  /\ request[j].at = "map did"
  /\ did' = [did EXCEPT ![a.did] = [org |-> a.org, agent |-> a.agent, active |-> a.active]]
  /\ End(j)
  /\ UNCHANGED <<people, org, stored, profile, ring, mishaps, moved, crossed>>

FreeNumber(j) ==
  /\ request[j].at = "free did"
  /\ did' = [did EXCEPT ![request[j].arg.did] = Unmapped]
  /\ End(j)
  /\ UNCHANGED <<people, org, stored, profile, ring, mishaps, moved, crossed>>

-----------------------------------------------------------------------------
(* Agents. *)

AskAgent(j, by) ==
  /\ \E a \in Agents :
       \/ Admit(j, by, "agents", "check removal", [agent |-> a])
       \/ \E o \in Orgs \cup {None} :
            Admit(j, by, "agents", "check agent", [agent |-> a, home |-> o, new |-> Gone])
  /\ UNCHANGED <<people, tenancy>>

\* Whose an agent becomes: the creator's, or the home a platform administrator
\* names; an ordinary edit leaves it where it is.
Owner(existing, by, home) ==
  IF existing = Gone THEN (IF Unrestricted(by) THEN home ELSE by.org)
  ELSE IF home # None /\ Unrestricted(by) THEN home
  ELSE existing.owner

\* Another change of the same agent between its check and its end.
Rivals(j, a) ==
  \E k \in Jobs \ {j} :
    /\ request[k].at \in {"save agent", "apply agent", "remove agent", "forget agent"}
    /\ request[k].arg.agent = a

CheckAgent(j) ==
  LET a == request[j].arg
      by == request[j].by
      existing == profile[a.agent] IN
  /\ request[j].at = "check agent"
  /\ IF existing # Gone /\ ~Visible(by, existing.owner)
       THEN End(j) /\ UNCHANGED crossed
       ELSE /\ request' = [request EXCEPT ![j].at = "save agent",
                                  ![j].arg.new = [owner |-> Owner(existing, by, a.home), by |-> j]]
            /\ crossed' = IF Rivals(j, a.agent) THEN crossed \cup {a.agent} ELSE crossed
  /\ UNCHANGED <<people, org, did, stored, profile, ring, mishaps, moved>>

\* Mutant: a failed save is applied all the same.
SaveAgentAnyhow(j) ==
  LET a == request[j].arg IN
  /\ request[j].at = "save agent"
  /\ Move(j, "apply agent")
  /\ \/ /\ stored' = [stored EXCEPT ![a.agent] = a.new]
        /\ UNCHANGED mishaps
     \/ /\ "save" \in mishaps
        /\ mishaps' = {}
        /\ UNCHANGED stored
  /\ UNCHANGED <<people, org, did, profile, ring, moved, crossed>>
\* Saved before it is applied, "so a database failure surfaces as a failed save".
SaveAgent(j) ==
  LET a == request[j].arg IN
  /\ request[j].at = "save agent"
  /\ \/ /\ stored' = [stored EXCEPT ![a.agent] = a.new]
        /\ Move(j, "apply agent")
        /\ UNCHANGED mishaps
     \/ /\ "save" \in mishaps
        /\ mishaps' = {}
        /\ End(j)
        /\ UNCHANGED stored
  /\ UNCHANGED <<people, org, did, profile, ring, moved, crossed>>

\* Whether what is served takes an agent away, or to another owner.
Moves(a, p) == profile[a] # Gone /\ (p = Gone \/ p.owner # profile[a].owner)

Serve(a, p) ==
  /\ profile' = [profile EXCEPT ![a] = p]
  /\ moved' = IF Moves(a, p) THEN moved \cup {a} ELSE moved

ApplyAgent(j) ==
  /\ request[j].at = "apply agent"
  /\ Serve(request[j].arg.agent, request[j].arg.new)
  /\ End(j)
  /\ UNCHANGED <<people, org, did, stored, ring, mishaps, crossed>>

CheckRemoval(j) ==
  LET a == request[j].arg
      existing == profile[a.agent] IN
  /\ request[j].at = "check removal"
  /\ IF a.agent = "default" \/ existing = Gone \/ ~Visible(request[j].by, existing.owner)
       THEN End(j) /\ UNCHANGED crossed
       ELSE /\ Move(j, "remove agent")
            /\ crossed' = IF Rivals(j, a.agent) THEN crossed \cup {a.agent} ELSE crossed
  /\ UNCHANGED <<people, org, did, stored, profile, ring, mishaps, moved>>

RemoveAgent(j) ==
  /\ request[j].at = "remove agent"
  /\ \/ /\ stored' = [stored EXCEPT ![request[j].arg.agent] = Gone]
        /\ Move(j, "forget agent")
        /\ UNCHANGED mishaps
     \/ /\ "save" \in mishaps
        /\ mishaps' = {}
        /\ End(j)
        /\ UNCHANGED stored
  /\ UNCHANGED <<people, org, did, profile, ring, moved, crossed>>

ForgetAgent(j) ==
  /\ request[j].at = "forget agent"
  /\ Serve(request[j].arg.agent, Gone)
  /\ End(j)
  /\ UNCHANGED <<people, org, did, stored, ring, mishaps, crossed>>

-----------------------------------------------------------------------------
(* Calls. *)

\* resolve_did: a mapping in service of an organisation that is.
InService(n) == did[n].active /\ did[n].org # None /\ org[did[n].org] = "active"

\* The number is resolved, or the fallback answers for nobody.
Resolve(c) ==
  /\ ring[c].at = "none"
  /\ \E n \in Dids :
       ring' = [ring EXCEPT ![c] =
         [at |-> "resolved", owner |-> None,
          org |-> IF InService(n) THEN did[n].org ELSE None,
          agent |-> IF InService(n) THEN did[n].agent ELSE "default"]]
  /\ UNCHANGED <<people, request, org, did, stored, profile, mishaps, moved, crossed>>

\* services.profile: an agent that is gone is stood in for by the default.
Answering(a) == IF profile[a] = Gone THEN profile["default"] ELSE profile[a]

Answer(c) ==
  /\ ring[c].at = "resolved"
  /\ ring' = [ring EXCEPT ![c].at = "answered",
                          ![c].owner = Answering(ring[c].agent).owner,
                          ![c].agent = IF profile[@] = Gone THEN "default" ELSE @]
  /\ UNCHANGED <<people, request, org, did, stored, profile, mishaps, moved, crossed>>

-----------------------------------------------------------------------------
\* The process dies: requests and sign-ins are lost, and the copy is loaded again.
Restart ==
  /\ "crash" \in mishaps
  /\ mishaps' = {}
  /\ request' = [j \in Jobs |-> IF request[j] = Idle THEN Idle ELSE Done]
  /\ signing' = [u \in Users |-> None]
  /\ profile' = Loaded(stored)
  /\ moved' = moved \cup {a \in Agents : Moves(a, Loaded(stored)[a])}
  /\ crossed' = {}
  /\ UNCHANGED <<account, cookie, loose, org, did, stored, ring>>

NumbersInit ==
  /\ org \in {[o \in Orgs |-> "active"], [o \in Orgs |-> "absent"]}
  /\ did = [n \in Dids |-> Unmapped]
  /\ stored \in [Agents -> {Gone} \cup [owner : Orgs \cup {None}, by : {"earlier"}]]
  /\ stored["default"] = Gone
  /\ \A a \in Agents : stored[a].owner # None => org[stored[a].owner] = "active"
  /\ profile = Loaded(stored)
  /\ ring = [c \in Callers |-> [at |-> "none", org |-> None, agent |-> "default", owner |-> None]]
  /\ mishaps = Mishaps
  /\ moved = {}
  /\ crossed = {}

NumbersNext ==
  \/ \E j \in Jobs :
       \/ \E by \in Users \cup {Machine} :
            AskOrganisation(j, by) \/ AskNumber(j, by) \/ AskAgent(j, by)
       \/ CreateOrganisation(j) \/ PatchOrganisation(j)
       \/ CheckNumber(j) \/ MapNumber(j) \/ FreeNumber(j)
       \/ CheckAgent(j) \/ SaveAgent(j) \/ ApplyAgent(j)
       \/ CheckRemoval(j) \/ RemoveAgent(j) \/ ForgetAgent(j)
  \/ \E c \in Callers : Resolve(c) \/ Answer(c)
  \/ Restart

NumbersTypeOK ==
  /\ org \in [Orgs -> {"absent", "active", "suspended"}]
  /\ did \in [Dids -> [org : Orgs \cup {None}, agent : Agents, active : BOOLEAN]]
  /\ stored \in [Agents -> Profiles] /\ profile \in [Agents -> Profiles]
  /\ ring \in [Callers -> [at : {"none", "resolved", "answered"}, org : Orgs \cup {None},
                           agent : Agents, owner : Orgs \cup {None}]]
  /\ mishaps \subseteq Mishaps
  /\ moved \subseteq Agents /\ crossed \subseteq Agents

\* A number is answered by its own organisation's agent or by nobody's, and so is a
\* call that is attributed: the check of the number suffices, except for an agent
\* that was given another home afterwards.
OwnAgentAnswers ==
  /\ \A n \in Dids :
       did[n].org # None /\ did[n].agent \notin moved
         => profile[did[n].agent].owner \in {None, did[n].org}
  /\ \A c \in Callers :
       ring[c].at = "answered" /\ ring[c].org # None /\ ring[c].agent \notin moved
         => ring[c].owner \in {None, ring[c].org}

\* What the process serves is what the database holds, for every agent nobody is
\* changing, so that a restart changes no agent - unless two changes of it ran at
\* once, each applied in an order of its own.
AgentsAsSaved ==
  \A a \in Agents \ crossed :
    (\A j \in Jobs : request[j].at \in {"apply agent", "forget agent"} => request[j].arg.agent # a)
      => profile[a] = Loaded(stored)[a]
=============================================================================
