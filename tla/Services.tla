------------------------------ MODULE Services ------------------------------
(***************************************************************************)
(* The settings an operator saves (settings_store.py, api/settings.py) and *)
(* the providers built from them (core/registry.py).  A save persists the  *)
(* overrides in one go and then exchanges the providers it affects one     *)
(* after the other, waiting for each to start and for the replaced one to  *)
(* close.  Nothing keeps a second save, a reset or a call out meanwhile.   *)
(***************************************************************************)
EXTENDS Naturals, Sequences, FiniteSets

CONSTANTS
  Edited,    \* the settings the operator touches, by their names in config.py
  Values,    \* the values each may take
  Mask,      \* what the page sends back for a secret nobody retyped
  Baseline,  \* the value of every setting in the environment
  Requests,  \* bound: the saves and resets
  Calls,     \* bound: the calls
  Faults     \* of "start", "write", "crash": what may go wrong, each once

\* Which settings config.py declares for which provider.
SttKeys == {"stt_provider", "stt_model", "stt_device", "stt_compute_type",
            "stt_language", "sarvam_api_key", "sarvam_stt_model"}
LlmKeys == {"llm_provider", "llm_base_url", "llm_model", "anthropic_api_key",
            "anthropic_model", "anthropic_effort", "openai_api_key", "openai_model",
            "openai_base_url", "llm_temperature", "llm_max_tokens", "llm_timeout_s"}
TtsKeys == {"tts_provider", "sarvam_tts_model", "sarvam_voice", "tts_voice",
            "tts_voices_dir", "tts_speed", "tts_model"}
KnowledgeKeys == {"vector_store", "qdrant_url", "qdrant_api_key", "embedding_provider",
                  "embedding_model", "embedding_dim", "rag_top_k", "rag_min_score"}
Secrets == {"sarvam_api_key", "anthropic_api_key", "openai_api_key", "qdrant_api_key"}

ASSUME ServicesAssumption ==
  /\ Edited \subseteq SttKeys \cup LlmKeys \cup TtsKeys \cup KnowledgeKeys
  /\ Mask \notin Values
  /\ Baseline \in Values
  /\ Faults \subseteq {"start", "write", "crash"}

\* The groups of providers in the order a reload visits them.
Groups == <<"stt", "llm", "tts", "knowledge">>
Group == {"stt", "llm", "tts", "knowledge"}

Shared == {"openai_api_key", "openai_base_url"}

\* What the provider of each group is built from.
UsesStt == SttKeys \cup Shared \cup {"llm_timeout_s"}
UsesLlm == LlmKeys
UsesTts == TtsKeys \cup Shared \cup {"llm_timeout_s", "sarvam_api_key"}
UsesKnowledge == KnowledgeKeys \cup Shared \cup {"llm_timeout_s"}
Uses(g) == CASE g = "stt" -> UsesStt
             [] g = "llm" -> UsesLlm
             [] g = "tts" -> UsesTts
             [] g = "knowledge" -> UsesKnowledge

\* Settings of the retriever that are changed in place.
Knobs == {"rag_top_k", "rag_min_score"}

\* A change of which of them rebuilds it.
Watches(g) == CASE g = "stt" -> SttKeys \cup Shared
                [] g = "llm" -> LlmKeys
                [] g = "tts" -> TtsKeys \cup Shared \cup {"sarvam_api_key"}
                [] g = "knowledge" -> KnowledgeKeys \ Knobs

Settings == [Edited -> Values]
Overrides == UNION {[ks -> Values] : ks \in SUBSET Edited}
Patches == UNION {[ks -> Values \cup {Mask}] : ks \in SUBSET Edited \ {{}}}

\* Overrides layered over the environment.
Layered(over) == [k \in Edited |-> IF k \in DOMAIN over THEN over[k] ELSE Baseline]

VARIABLES
  overrides,  \* the store's overrides
  file,       \* the ones on disk
  settings,   \* services.settings
  providers,  \* every provider built since the boot
  inForce,    \* by group, the one services hands out
  request,    \* by request, how far it is
  call,       \* by call, whether it is live and the model it holds
  pending,    \* the faults that have not happened yet
  trouble,    \* history: a save failed or met another, since the boot
  exposed     \* history: the calls that were live while a save was let through
              \* by force, by a reset, or before they came

vars == <<overrides, file, settings, providers, inForce, request, call, pending,
          trouble, exposed>>

Idle == [at |-> "idle"]
Done == [at |-> "done"]
Underway(r) == request[r].at \in {"starting", "closing"}
AtRest == \A r \in Requests : ~Underway(r)
Live == {c \in Calls : call[c].at = "live"}

Build(g, s) == [of |-> g, with |-> [k \in Uses(g) \cap Edited |-> s[k]], is |-> "built"]
Ready(p) == [p EXCEPT !.is = "ready"]

\* What a process that reads these overrides boots with.
Boot(over) ==
  [overrides |-> over, file |-> over, settings |-> Layered(over),
   providers |-> [i \in 1 .. 4 |-> Ready(Build(Groups[i], Layered(over)))],
   inForce |-> [g \in Group |-> CHOOSE i \in 1 .. 4 : Groups[i] = g],
   trouble |-> FALSE, exposed |-> {}]

Init ==
  /\ LET b == Boot([k \in {} |-> Baseline]) IN
       /\ overrides = b.overrides /\ file = b.file /\ settings = b.settings
       /\ providers = b.providers /\ inForce = b.inForce
       /\ trouble = b.trouble /\ exposed = b.exposed
  /\ request = [r \in Requests |-> Idle]
  /\ call = [c \in Calls |-> [at |-> "none", llm |-> 0]]
  /\ pending = Faults

Rebuilds(old, new, g) == \E k \in Watches(g) \cap Edited : old[k] # new[k]

\* Mutant: the knobs of a retriever that is kept are not set.
ProceedRigid(r, req, i, made) ==
  LET rest == {j \in (i + 1) .. 4 : Rebuilds(req.old, req.new, Groups[j])} IN
  \/ \E j \in rest :
       /\ \A l \in rest : j <= l
       /\ providers' = Append(made, Build(Groups[j], req.new))
       /\ request' = [request EXCEPT ![r] =
            [req EXCEPT !.at = "starting", !.group = j, !.provider = Len(made) + 1]]
       /\ UNCHANGED settings
  \/ /\ rest = {}
     /\ providers' = made
     /\ request' = [request EXCEPT ![r] = Done]
     /\ settings' = req.new
\* The rest of a reload after its i-th group: the next group that is affected is
\* built and starts, or the cheap knobs are set and the settings are in force.
\* "made" are the providers as the step so far leaves them.
Proceed(r, req, i, made) ==
  LET rest == {j \in (i + 1) .. 4 : Rebuilds(req.old, req.new, Groups[j])} IN
  \/ \E j \in rest :
       /\ \A l \in rest : j <= l
       /\ providers' = Append(made, Build(Groups[j], req.new))
       /\ request' = [request EXCEPT ![r] =
            [req EXCEPT !.at = "starting", !.group = j, !.provider = Len(made) + 1]]
       /\ UNCHANGED settings
  \/ /\ rest = {}
     /\ providers' =
          IF Rebuilds(req.old, req.new, "knowledge") THEN made
          ELSE [made EXCEPT ![inForce'["knowledge"]].with =
                  [k \in DOMAIN @ |-> IF k \in Knobs THEN req.new[k] ELSE @[k]]]
     /\ request' = [request EXCEPT ![r] = Done]
     /\ settings' = req.new

Reload(r, kind, changed, over) ==
  /\ inForce' = inForce
  /\ Proceed(r, [at |-> "starting", kind |-> kind, old |-> settings, new |-> Layered(over),
                 changed |-> changed, group |-> 0, provider |-> 0], 0, providers)

\* The patch merged into the overrides, masks left out, and what that changes.
Merged(patch) ==
  [k \in DOMAIN overrides \cup {l \in DOMAIN patch : patch[l] # Mask} |->
     IF k \in DOMAIN patch /\ patch[k] # Mask THEN patch[k] ELSE overrides[k]]
Changed(patch) ==
  {k \in DOMAIN patch : /\ patch[k] # Mask
                        /\ k \in DOMAIN overrides => overrides[k] # patch[k]}

\* Another save in flight, or calls the change goes through under.
Note(unguarded) ==
  /\ trouble' = (trouble \/ ~AtRest)
  /\ exposed' = IF unguarded THEN exposed \cup Live ELSE exposed

\* Mutant: a save does not look for live calls.
LetAllThrough(force) == TRUE
LetThrough(force) == Live = {} \/ force

\* PUT /settings, accepted: refused while calls are live unless forced.
Put(r, patch, force) ==
  /\ request[r] = Idle
  /\ LetThrough(force)
  /\ \A k \in DOMAIN patch : patch[k] = Mask => k \in Secrets
  /\ overrides' = Merged(patch)
  /\ Note(force)
  /\ UNCHANGED <<call, pending>>
  /\ \/ /\ Changed(patch) = {}
        /\ request' = [request EXCEPT ![r] = Done]
        /\ UNCHANGED <<file, settings, providers, inForce>>
     \/ /\ Changed(patch) # {}
        /\ file' = overrides'
        /\ Reload(r, "put", Changed(patch), overrides')

\* The file cannot be written once the store already holds the patch.
PutUnwritten(r, patch, force) ==
  /\ request[r] = Idle
  /\ "write" \in pending
  /\ LetThrough(force)
  /\ \A k \in DOMAIN patch : patch[k] = Mask => k \in Secrets
  /\ Changed(patch) # {}
  /\ overrides' = Merged(patch)
  /\ request' = [request EXCEPT ![r] = Done]
  /\ pending' = pending \ {"write"}
  /\ trouble' = TRUE
  /\ UNCHANGED <<file, settings, providers, inForce, call, exposed>>

Without(over, keys) == [k \in DOMAIN over \ keys |-> over[k]]

\* POST /settings/reset: no call holds it up.
Reset(r, keys) ==
  /\ request[r] = Idle
  /\ overrides' = Without(overrides, keys)
  /\ Note(TRUE)
  /\ UNCHANGED <<call, pending>>
  /\ \/ /\ overrides' = overrides
        /\ request' = [request EXCEPT ![r] = Done]
        /\ UNCHANGED <<file, settings, providers, inForce>>
     \/ /\ overrides' # overrides
        /\ file' = overrides'
        /\ Reload(r, "reset", keys, overrides')

\* The new provider has started: it is swapped in, and the replaced one is closed,
\* a retriever excepted.
Started(r) ==
  LET req == request[r]
      g == Groups[req.group]
      made == [providers EXCEPT ![req.provider] = Ready(@)] IN
  /\ req.at = "starting"
  /\ inForce' = [inForce EXCEPT ![g] = req.provider]
  /\ \/ /\ g # "knowledge"
        /\ providers' = made
        /\ request' = [request EXCEPT ![r] = [req EXCEPT !.at = "closing",
                                                         !.provider = inForce[g]]]
        /\ UNCHANGED settings
     \/ /\ g = "knowledge"
        /\ Proceed(r, req, req.group, made)
  /\ UNCHANGED <<overrides, file, call, pending, trouble, exposed>>

\* Mutant: the provider that is closed is looked up after the swap.
ClosedNewcomer(r) ==
  LET req == request[r] IN
  /\ req.at = "closing"
  /\ inForce' = inForce
  /\ Proceed(r, req, req.group,
             [providers EXCEPT ![inForce[Groups[req.group]]].is = "closed"])
  /\ UNCHANGED <<overrides, file, call, pending, trouble, exposed>>
Closed(r) ==
  LET req == request[r] IN
  /\ req.at = "closing"
  /\ inForce' = inForce
  /\ Proceed(r, req, req.group, [providers EXCEPT ![req.provider].is = "closed"])
  /\ UNCHANGED <<overrides, file, call, pending, trouble, exposed>>

\* It does not start: a save drops the keys it changed, a reset leaves it at that.
StartFails(r) ==
  /\ "start" \in pending
  /\ request[r].at = "starting"
  /\ providers' = [providers EXCEPT ![request[r].provider].is = "failed"]
  /\ IF request[r].kind = "put"
       THEN /\ overrides' = Without(overrides, request[r].changed)
            /\ file' = IF overrides' = overrides THEN file ELSE overrides'
       ELSE UNCHANGED <<overrides, file>>
  /\ request' = [request EXCEPT ![r] = Done]
  /\ pending' = pending \ {"start"}
  /\ trouble' = TRUE
  /\ UNCHANGED <<settings, inForce, call, exposed>>

\* A call is answered: its agent keeps the model in force for good.
Answer(c) ==
  /\ call[c].at = "none"
  /\ call' = [call EXCEPT ![c] = [at |-> "live", llm |-> inForce["llm"]]]
  /\ exposed' = IF AtRest THEN exposed ELSE exposed \cup {c}
  /\ UNCHANGED <<overrides, file, settings, providers, inForce, request, pending, trouble>>

Leave(c) ==
  /\ call[c].at = "live"
  /\ call' = [call EXCEPT ![c].at = "over"]
  /\ UNCHANGED <<overrides, file, settings, providers, inForce, request, pending,
                 trouble, exposed>>

\* The process dies and boots from the file.
Crash ==
  /\ "crash" \in pending
  /\ LET b == Boot(file) IN
       /\ overrides' = b.overrides /\ file' = b.file /\ settings' = b.settings
       /\ providers' = b.providers /\ inForce' = b.inForce
       /\ trouble' = b.trouble /\ exposed' = b.exposed
  /\ request' = [r \in Requests |-> IF Underway(r) THEN Done ELSE request[r]]
  /\ call' = [c \in Calls |-> IF c \in Live THEN [call[c] EXCEPT !.at = "over"] ELSE call[c]]
  /\ pending' = pending \ {"crash"}

Next ==
  \/ \E r \in Requests :
       \/ \E patch \in Patches, force \in BOOLEAN :
            Put(r, patch, force) \/ PutUnwritten(r, patch, force)
       \/ \E keys \in SUBSET Edited : Reset(r, keys)
       \/ Started(r) \/ Closed(r) \/ StartFails(r)
  \/ \E c \in Calls : Answer(c) \/ Leave(c)
  \/ Crash

Spec == Init /\ [][Next]_vars

-----------------------------------------------------------------------------
TypeOK ==
  /\ overrides \in Overrides /\ file \in Overrides
  /\ settings \in Settings
  /\ \A i \in DOMAIN providers :
       /\ providers[i].of \in Group
       /\ providers[i].with \in [Uses(providers[i].of) \cap Edited -> Values]
       /\ providers[i].is \in {"built", "ready", "failed", "closed"}
  /\ inForce \in [Group -> DOMAIN providers]
  /\ \A r \in Requests : request[r].at \in {"idle", "starting", "closing", "done"}
  /\ \A c \in Calls : call[c].at \in {"none", "live", "over"}
  /\ pending \subseteq Faults
  /\ trouble \in BOOLEAN
  /\ exposed \subseteq Calls

\* What services hands out has started and has not been closed, however saves,
\* resets and failures interleave ("a bad API key surfaces as a failed save rather
\* than a platform left with no LLM").
InForceServes ==
  \A g \in Group : providers[inForce[g]].of = g /\ providers[inForce[g]].is = "ready"

\* Once no save is under way, the speech and model providers that were replaced
\* have been closed, each of them.
ReplacedAreClosed ==
  AtRest => \A i \in DOMAIN providers :
              providers[i].is = "ready" /\ providers[i].of # "knowledge"
                => inForce[providers[i].of] = i

ProvidersKept == InForceServes /\ ReplacedAreClosed

\* Unless a save failed or ran into another since the boot, what is on disk, in
\* the store, in services and in the providers agrees whenever no save is under
\* way: for each provider, in every setting it is watched for or that is turned
\* in place.
SavesTakeEffect ==
  AtRest /\ ~trouble =>
    /\ file = overrides
    /\ settings = Layered(overrides)
    /\ \A g \in Group :
         \A k \in (Watches(g) \cup Knobs) \cap DOMAIN providers[inForce[g]].with :
           providers[inForce[g]].with[k] = settings[k]

\* A call loses the model it holds only to a change that was forced, that was a
\* reset, or that was let through before the call came.
CallsUndisturbed ==
  \A c \in Live : providers[call[c].llm].is = "closed" => c \in exposed
=============================================================================
