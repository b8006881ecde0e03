--------------------------- MODULE ServicesProofs ---------------------------
(***************************************************************************)
(* Theorems about Services, for any settings, values, requests and calls;  *)
(* and about Agent, which runs on the model it is handed, for any number   *)
(* of turns, calls and requests, any window and any dispositions.          *)
(***************************************************************************)
EXTENDS Services, Agent, SequenceTheorems, WellFoundedInduction, TLAPS

-----------------------------------------------------------------------------
(* Types. *)

Condition == {"built", "ready", "failed", "closed"}
Provider == UNION {[of : {g}, with : [Uses(g) \cap Edited -> Values], is : Condition] : g \in Group}
Reloading == [at : {"starting", "closing"}, kind : {"put", "reset"}, old : Settings,
              new : Settings, changed : SUBSET Edited, group : 0 .. 4, provider : Nat]
Answered == [at : {"none", "live", "over"}, llm : Nat]

LEMMA ProviderParts ==
  ASSUME NEW p \in Provider
  PROVE  /\ p = [of |-> p.of, with |-> p.with, is |-> p.is]
         /\ p.of \in Group /\ p.with \in [Uses(p.of) \cap Edited -> Values] /\ p.is \in Condition
<1>1. PICK g \in Group : p \in [of : {g}, with : [Uses(g) \cap Edited -> Values], is : Condition]
  BY DEF Provider
<1> DEFINE W == [Uses(g) \cap Edited -> Values]
<1>2. p \in [of : {g}, with : W, is : Condition]
  BY <1>1
<1> HIDE DEF W
<1>3. /\ p = [of |-> p.of, with |-> p.with, is |-> p.is]
      /\ p.of = g /\ p.with \in W /\ p.is \in Condition
  BY <1>2
<1> QED BY <1>3 DEF W

LEMMA ProviderMade ==
  ASSUME NEW g \in Group, NEW w \in [Uses(g) \cap Edited -> Values], NEW c \in Condition
  PROVE  [of |-> g, with |-> w, is |-> c] \in Provider
BY DEF Provider

\* A provider in another condition, or with other values of its settings.
LEMMA ProviderChanged ==
  ASSUME NEW p \in Provider
  PROVE  /\ \A c \in Condition :
              /\ [p EXCEPT !.is = c] \in Provider
              /\ [p EXCEPT !.is = c].of = p.of /\ [p EXCEPT !.is = c].is = c
              /\ [p EXCEPT !.is = c].with = p.with
         /\ \A w \in [Uses(p.of) \cap Edited -> Values] :
              /\ [p EXCEPT !.with = w] \in Provider
              /\ [p EXCEPT !.with = w].of = p.of /\ [p EXCEPT !.with = w].is = p.is
              /\ [p EXCEPT !.with = w].with = w
<1>1. /\ p = [of |-> p.of, with |-> p.with, is |-> p.is]
      /\ p.of \in Group /\ p.with \in [Uses(p.of) \cap Edited -> Values] /\ p.is \in Condition
  BY ProviderParts
<1>2. ASSUME NEW c \in Condition
      PROVE  /\ [p EXCEPT !.is = c] \in Provider
             /\ [p EXCEPT !.is = c].of = p.of /\ [p EXCEPT !.is = c].is = c
             /\ [p EXCEPT !.is = c].with = p.with
  <2>1. [p EXCEPT !.is = c] = [of |-> p.of, with |-> p.with, is |-> c]
    BY <1>1
  <2> QED BY <1>1, <2>1, ProviderMade
<1>3. ASSUME NEW w \in [Uses(p.of) \cap Edited -> Values]
      PROVE  /\ [p EXCEPT !.with = w] \in Provider
             /\ [p EXCEPT !.with = w].of = p.of /\ [p EXCEPT !.with = w].is = p.is
             /\ [p EXCEPT !.with = w].with = w
  <2>1. [p EXCEPT !.with = w] = [of |-> p.of, with |-> w, is |-> p.is]
    BY <1>1
  <2> QED BY <1>1, <2>1, ProviderMade
<1> QED BY <1>2, <1>3

LEMMA BuildType ==
  ASSUME NEW g \in Group, NEW s \in Settings
  PROVE  /\ Build(g, s) \in Provider /\ Build(g, s).of = g /\ Build(g, s).is = "built"
         /\ Build(g, s).with = [k \in Uses(g) \cap Edited |-> s[k]]
<1>1. [k \in Uses(g) \cap Edited |-> s[k]] \in [Uses(g) \cap Edited -> Values]
  BY DEF Settings
<1> QED BY <1>1, ProviderMade DEF Build, Condition

LEMMA GroupsType ==
  /\ \A j \in 1 .. 4 : Groups[j] \in Group
  /\ \A g \in Group : \E j \in 1 .. 4 : Groups[j] = g
  /\ \A i, j \in 1 .. 4 : Groups[i] = Groups[j] => i = j
  /\ \A j \in 1 .. 4 : Groups[j] = "knowledge" <=> j = 4
<1>1. /\ Groups[1] = "stt" /\ Groups[2] = "llm" /\ Groups[3] = "tts" /\ Groups[4] = "knowledge"
  BY DEF Groups
<1>2. \A j \in 1 .. 4 : j = 1 \/ j = 2 \/ j = 3 \/ j = 4
  OBVIOUS
<1> QED BY <1>1, <1>2 DEF Group

\* What is watched is used, and the knobs are the retriever's.
LEMMA WatchesUsed ==
  /\ \A g \in Group : Watches(g) \subseteq Uses(g)
  /\ \A g \in Group : g # "knowledge" => Knobs \cap Uses(g) = {}
  /\ Knobs \cap Watches("knowledge") = {}
<1>1. /\ Watches("stt") \subseteq Uses("stt") /\ Watches("llm") \subseteq Uses("llm")
      /\ Watches("tts") \subseteq Uses("tts") /\ Watches("knowledge") \subseteq Uses("knowledge")
  BY DEF Watches, Uses, UsesStt, UsesLlm, UsesTts, UsesKnowledge
<1>2. Knobs \cap Uses("stt") = {} /\ Knobs \cap Uses("llm") = {} /\ Knobs \cap Uses("tts") = {}
  BY DEF Knobs, Uses, UsesStt, UsesLlm, UsesTts, SttKeys, LlmKeys, TtsKeys, Shared
<1>3. Knobs \cap Watches("knowledge") = {}
  BY DEF Knobs, Watches
<1> QED BY <1>1, <1>2, <1>3 DEF Group

-----------------------------------------------------------------------------
(* Overrides. *)

LEMMA OverridesMade ==
  ASSUME NEW ks \in SUBSET Edited, NEW f \in [ks -> Values]
  PROVE  f \in Overrides
BY DEF Overrides

LEMMA OverridesParts ==
  ASSUME NEW f \in Overrides
  PROVE  DOMAIN f \in SUBSET Edited /\ f \in [DOMAIN f -> Values]
<1>1. PICK ks \in SUBSET Edited : f \in [ks -> Values]
  BY DEF Overrides
<1> QED BY <1>1

LEMMA LayeredType ==
  ASSUME NEW over \in Overrides
  PROVE  Layered(over) \in Settings
BY OverridesParts, ServicesAssumption DEF Layered, Settings

LEMMA WithoutType ==
  ASSUME NEW over \in Overrides, NEW keys
  PROVE  Without(over, keys) \in Overrides
<1>1. DOMAIN over \ keys \in SUBSET Edited
  BY OverridesParts
<1>2. Without(over, keys) \in [DOMAIN over \ keys -> Values]
  BY OverridesParts DEF Without
<1> QED BY <1>1, <1>2, OverridesMade

LEMMA PatchParts ==
  ASSUME NEW patch \in Patches
  PROVE  DOMAIN patch \in SUBSET Edited /\ patch \in [DOMAIN patch -> Values \cup {Mask}]
<1>1. PICK ks \in SUBSET Edited : patch \in [ks -> Values \cup {Mask}]
  BY DEF Patches
<1> QED BY <1>1

LEMMA MergedType ==
  ASSUME overrides \in Overrides, NEW patch \in Patches
  PROVE  /\ Merged(patch) \in Overrides
         /\ Changed(patch) \in SUBSET Edited
         /\ Changed(patch) = {} => Merged(patch) = overrides
<1> DEFINE ks == DOMAIN overrides \cup {l \in DOMAIN patch : patch[l] # Mask}
<1>1. /\ DOMAIN patch \in SUBSET Edited /\ patch \in [DOMAIN patch -> Values \cup {Mask}]
      /\ DOMAIN overrides \in SUBSET Edited /\ overrides \in [DOMAIN overrides -> Values]
  BY PatchParts, OverridesParts
<1>2. ks \in SUBSET Edited
  BY <1>1
<1>3. Merged(patch) \in [ks -> Values]
  BY <1>1 DEF Merged
<1>4. Merged(patch) \in Overrides
  BY <1>2, <1>3, OverridesMade
<1>5. Changed(patch) \in SUBSET Edited
  BY <1>1 DEF Changed
<1>6. ASSUME Changed(patch) = {} PROVE Merged(patch) = overrides
  <2>1. \A l \in DOMAIN patch : patch[l] # Mask => l \in DOMAIN overrides /\ overrides[l] = patch[l]
    BY <1>6 DEF Changed
  <2>2. ks = DOMAIN overrides
    BY <2>1
  <2>3. \A k \in ks : Merged(patch)[k] = overrides[k]
    BY <2>1 DEF Merged
  <2> QED BY <1>1, <1>3, <2>2, <2>3
<1> QED BY <1>4, <1>5, <1>6

-----------------------------------------------------------------------------
(* A reload, from one group to the next. *)

RequestType == {Idle, Done} \cup Reloading

LEMMA RequestKinds ==
  /\ Idle.at = "idle" /\ Done.at = "done"
  /\ \A req \in Reloading : req.at \in {"starting", "closing"}
  /\ \A req \in RequestType : req.at \in {"starting", "closing"} => req \in Reloading
BY DEF Idle, Done, Reloading, RequestType

LEMMA ReloadingParts ==
  ASSUME NEW req \in Reloading
  PROVE  /\ req.old \in Settings /\ req.new \in Settings
         /\ req.group \in 0 .. 4 /\ req.provider \in Nat
         /\ req.changed \in SUBSET Edited /\ req.kind \in {"put", "reset"}
         /\ req.at \in {"starting", "closing"}
         /\ req = [at |-> req.at, kind |-> req.kind, old |-> req.old, new |-> req.new,
                   changed |-> req.changed, group |-> req.group, provider |-> req.provider]
<1> DEFINE S == Settings
           C == SUBSET Edited
<1>1. req \in [at : {"starting", "closing"}, kind : {"put", "reset"}, old : S,
                new : S, changed : C, group : 0 .. 4, provider : Nat]
  BY DEF Reloading
<1> HIDE DEF S, C
<1>2. /\ req.old \in S /\ req.new \in S /\ req.group \in 0 .. 4 /\ req.provider \in Nat
      /\ req.changed \in C /\ req.kind \in {"put", "reset"} /\ req.at \in {"starting", "closing"}
      /\ req = [at |-> req.at, kind |-> req.kind, old |-> req.old, new |-> req.new,
                changed |-> req.changed, group |-> req.group, provider |-> req.provider]
  BY <1>1
<1> QED BY <1>2 DEF S, C

\* One field of a reload at a time, and then several.
LEMMA ReloadingField ==
  ASSUME NEW req \in Reloading
  PROVE  /\ \A at \in {"starting", "closing"} :
              LET next == [req EXCEPT !.at = at] IN
              /\ next \in Reloading /\ next.at = at /\ next.group = req.group
              /\ next.provider = req.provider /\ next.old = req.old /\ next.new = req.new
         /\ \A j \in 0 .. 4 :
              LET next == [req EXCEPT !.group = j] IN
              /\ next \in Reloading /\ next.at = req.at /\ next.group = j
              /\ next.provider = req.provider /\ next.old = req.old /\ next.new = req.new
         /\ \A p \in Nat :
              LET next == [req EXCEPT !.provider = p] IN
              /\ next \in Reloading /\ next.at = req.at /\ next.group = req.group
              /\ next.provider = p /\ next.old = req.old /\ next.new = req.new
<1> DEFINE S == Settings
           C == SUBSET Edited
           R == [at : {"starting", "closing"}, kind : {"put", "reset"}, old : S,
                 new : S, changed : C, group : 0 .. 4, provider : Nat]
<1>1. Reloading = R
  BY DEF Reloading
<1> HIDE DEF S, C
<1>2. req \in R
  BY <1>1
<1>3. ASSUME NEW at \in {"starting", "closing"}
      PROVE  LET next == [req EXCEPT !.at = at] IN
             /\ next \in R /\ next.at = at /\ next.group = req.group
             /\ next.provider = req.provider /\ next.old = req.old /\ next.new = req.new
  BY <1>2
<1>4. ASSUME NEW j \in 0 .. 4
      PROVE  LET next == [req EXCEPT !.group = j] IN
             /\ next \in R /\ next.at = req.at /\ next.group = j
             /\ next.provider = req.provider /\ next.old = req.old /\ next.new = req.new
  BY <1>2
<1>5. ASSUME NEW p \in Nat
      PROVE  LET next == [req EXCEPT !.provider = p] IN
             /\ next \in R /\ next.at = req.at /\ next.group = req.group
             /\ next.provider = p /\ next.old = req.old /\ next.new = req.new
  BY <1>2
<1> HIDE DEF R
<1> QED BY <1>1, <1>3, <1>4, <1>5

\* A reload as it goes on to another group, or to the provider it replaces.
Starting(req, j, p) == [req EXCEPT !.at = "starting", !.group = j, !.provider = p]
Closing(req, p) == [req EXCEPT !.at = "closing", !.provider = p]

LEMMA ReloadingCloses ==
  ASSUME NEW req \in Reloading, NEW p \in Nat
  PROVE  \E next \in Reloading :
           /\ next = Closing(req, p)
           /\ next.at = "closing" /\ next.group = req.group /\ next.provider = p
           /\ next.old = req.old /\ next.new = req.new
<1> DEFINE one == [req EXCEPT !.at = "closing"]
           next == [one EXCEPT !.provider = p]
<1>1. Closing(req, p) = next
  BY DEF Closing
<1>2. /\ one \in Reloading /\ one.at = "closing" /\ one.group = req.group
      /\ one.old = req.old /\ one.new = req.new
  BY ReloadingField
<1> HIDE DEF one
<1>3. /\ next \in Reloading /\ next.at = "closing" /\ next.group = req.group
      /\ next.provider = p /\ next.old = req.old /\ next.new = req.new
  BY <1>2, ReloadingField
<1> HIDE DEF next
<1> QED BY <1>1, <1>3

LEMMA ReloadingStarts ==
  ASSUME NEW req \in Reloading, NEW j \in 1 .. 4, NEW n \in Nat
  PROVE  \E next \in Reloading :
           /\ next = Starting(req, j, n + 1)
           /\ next.at = "starting" /\ next.group = j /\ next.provider = n + 1
           /\ next.old = req.old /\ next.new = req.new
<1> DEFINE one == [req EXCEPT !.at = "starting"]
           two == [one EXCEPT !.group = j]
           next == [two EXCEPT !.provider = n + 1]
<1>1. Starting(req, j, n + 1) = next
  BY DEF Starting
<1>2. j \in 0 .. 4 /\ n + 1 \in Nat
  OBVIOUS
<1>3. /\ one \in Reloading /\ one.at = "starting" /\ one.old = req.old /\ one.new = req.new
  BY ReloadingField
<1> HIDE DEF one
<1>4. /\ two \in Reloading /\ two.at = "starting" /\ two.group = j
      /\ two.old = req.old /\ two.new = req.new
  BY <1>2, <1>3, ReloadingField
<1> HIDE DEF two
<1>5. /\ next \in Reloading /\ next.at = "starting" /\ next.group = j
      /\ next.provider = n + 1 /\ next.old = req.old /\ next.new = req.new
  BY <1>2, <1>4, ReloadingField
<1> HIDE DEF next
<1> QED BY <1>1, <1>5

\* The knobs turned in a provider that is kept.
Turned(p, new) == [k \in DOMAIN p.with |-> IF k \in Knobs THEN new[k] ELSE p.with[k]]

LEMMA TurnedType ==
  ASSUME NEW p \in Provider, NEW new \in Settings
  PROVE  Turned(p, new) \in [Uses(p.of) \cap Edited -> Values]
BY ProviderParts DEF Turned, Settings

\* What a reload's next step does, in two forms: it goes on to another group, or it ends.
GoesOn(r, req, i, made) ==
  \E j \in 1 .. 4, next \in Reloading :
    /\ i < j /\ \A l \in 1 .. 4 : i < l /\ l < j => ~Rebuilds(req.old, req.new, Groups[l])
    /\ next.at = "starting" /\ next.group = j /\ next.provider = Len(made) + 1
    /\ next.old = req.old /\ next.new = req.new
    /\ providers' = Append(made, Build(Groups[j], req.new))
    /\ request' = [request EXCEPT ![r] = next]
    /\ settings' = settings

WithKnobs(made, f, new) == [made EXCEPT ![f] = [made[f] EXCEPT !.with = Turned(made[f], new)]]

Ends(r, req, i, made) ==
  /\ \A l \in 1 .. 4 : i < l => ~Rebuilds(req.old, req.new, Groups[l])
  /\ providers' = IF Rebuilds(req.old, req.new, "knowledge") THEN made
                  ELSE WithKnobs(made, inForce'["knowledge"], req.new)
  /\ request' = [request EXCEPT ![r] = Done]
  /\ settings' = req.new

LEMMA ProceedForms ==
  ASSUME NEW r \in Requests, NEW req \in Reloading, NEW i \in 0 .. 4,
         NEW made \in Seq(Provider), inForce' \in [Group -> 1 .. Len(made)],
         request \in [Requests -> RequestType],
         Proceed(r, req, i, made)
  PROVE  GoesOn(r, req, i, made) \/ Ends(r, req, i, made)
<1> DEFINE rest == {j \in (i + 1) .. 4 : Rebuilds(req.old, req.new, Groups[j])}
           f == inForce'["knowledge"]
<1>1. CASE \E j \in rest :
             /\ \A l \in rest : j <= l
             /\ providers' = Append(made, Build(Groups[j], req.new))
             /\ request' = [request EXCEPT ![r] =
                  [req EXCEPT !.at = "starting", !.group = j, !.provider = Len(made) + 1]]
             /\ UNCHANGED settings
  <2>1. PICK j \in rest :
             /\ \A l \in rest : j <= l
             /\ providers' = Append(made, Build(Groups[j], req.new))
             /\ request' = [request EXCEPT ![r] =
                  [req EXCEPT !.at = "starting", !.group = j, !.provider = Len(made) + 1]]
             /\ UNCHANGED settings
    BY <1>1
  <2>2. j \in 1 .. 4 /\ i < j /\ Len(made) + 1 \in Nat
    OBVIOUS
  <2>3. \A l \in 1 .. 4 : i < l /\ l < j => ~Rebuilds(req.old, req.new, Groups[l])
    <3> SUFFICES ASSUME NEW l \in 1 .. 4, i < l, l < j, Rebuilds(req.old, req.new, Groups[l])
                 PROVE  FALSE
      OBVIOUS
    <3>1. l \in rest
      OBVIOUS
    <3> QED BY <2>1, <2>2, <3>1
  <2>4. Len(made) \in Nat
    OBVIOUS
  <2>5. PICK step \in Reloading :
           /\ step = Starting(req, j, Len(made) + 1)
           /\ step.at = "starting" /\ step.group = j /\ step.provider = Len(made) + 1
           /\ step.old = req.old /\ step.new = req.new
    BY <2>2, <2>4, ReloadingStarts
  <2>6. request' = [request EXCEPT ![r] = step]
    BY <2>1, <2>5 DEF Starting
  <2> HIDE DEF rest
  <2> QED BY <2>1, <2>2, <2>3, <2>5, <2>6 DEF GoesOn
<1>2. CASE /\ rest = {}
           /\ providers' =
                IF Rebuilds(req.old, req.new, "knowledge") THEN made
                ELSE [made EXCEPT ![inForce'["knowledge"]].with =
                        [k \in DOMAIN @ |-> IF k \in Knobs THEN req.new[k] ELSE @[k]]]
           /\ request' = [request EXCEPT ![r] = Done]
           /\ settings' = req.new
  <2>1. [made EXCEPT ![f].with = [k \in DOMAIN @ |-> IF k \in Knobs THEN req.new[k] ELSE @[k]]]
          = WithKnobs(made, f, req.new)
    BY DEF Turned, WithKnobs
  <2>2. \A l \in 1 .. 4 : i < l => ~Rebuilds(req.old, req.new, Groups[l])
    BY <1>2
  <2> QED BY <1>2, <2>1, <2>2 DEF Ends
<1> QED BY <1>1, <1>2 DEF Proceed

-----------------------------------------------------------------------------
(* Who holds which provider.  The parts are stated of any providers, those in force *)
(* and requests, since one step may build, exchange and close them.                 *)

TypesOf(prov, force, reqs) ==
  /\ prov \in Seq(Provider)
  /\ force \in [Group -> 1 .. Len(prov)]
  /\ reqs \in [Requests -> RequestType]

Forced(prov, force) ==
  \A g \in Group : prov[force[g]].of = g /\ prov[force[g]].is = "ready"

\* The newcomer of a reload serves nobody yet.
Newcomers(prov, reqs) ==
  \A r \in Requests : reqs[r].at = "starting" =>
    /\ reqs[r].group \in 1 .. 4
    /\ reqs[r].provider \in 1 .. Len(prov)
    /\ prov[reqs[r].provider].of = Groups[reqs[r].group]
    /\ prov[reqs[r].provider].is = "built"

\* What a reload is closing is not in force any more.
Leavers(prov, force, reqs) ==
  \A r \in Requests : reqs[r].at = "closing" =>
    /\ reqs[r].group \in 1 .. 3
    /\ reqs[r].provider \in 1 .. Len(prov)
    /\ prov[reqs[r].provider].of = Groups[reqs[r].group]
    /\ prov[reqs[r].provider].is = "ready"
    /\ force[Groups[reqs[r].group]] # reqs[r].provider

\* No two reloads have the same provider in hand.
Apart(reqs) ==
  \A r, s \in Requests :
    /\ r # s
    /\ reqs[r].at \in {"starting", "closing"} /\ reqs[s].at \in {"starting", "closing"}
    => reqs[r].provider # reqs[s].provider

\* Whatever was replaced and is not closed is being closed by somebody.
Replaced(prov, force, reqs) ==
  \A i \in 1 .. Len(prov) :
    prov[i].is = "ready" /\ prov[i].of # "knowledge" /\ force[prov[i].of] # i =>
      \E r \in Requests : reqs[r].at = "closing" /\ reqs[r].provider = i

KeptBy(prov, force, reqs) ==
  /\ TypesOf(prov, force, reqs)
  /\ Forced(prov, force) /\ Newcomers(prov, reqs) /\ Leavers(prov, force, reqs)
  /\ Apart(reqs) /\ Replaced(prov, force, reqs)

\* A reload that is between two providers goes on to build one ...
LEMMA KeptByBuilding ==
  ASSUME NEW made, NEW force, NEW reqs \in [Requests -> RequestType], NEW r \in Requests,
         KeptBy(made, force, [reqs EXCEPT ![r] = Done]),
         NEW next \in Reloading, next.at = "starting", next.group \in 1 .. 4,
         next.provider = Len(made) + 1,
         NEW b \in Provider, b.of = Groups[next.group], b.is = "built"
  PROVE  KeptBy(Append(made, b), force, [reqs EXCEPT ![r] = next])
<1> DEFINE n == Len(made)
           prov == Append(made, b)
           R == [reqs EXCEPT ![r] = Done]
           S == [reqs EXCEPT ![r] = next]
<1>1. /\ made \in Seq(Provider) /\ n \in Nat /\ force \in [Group -> 1 .. n]
      /\ Forced(made, force) /\ Newcomers(made, R) /\ Leavers(made, force, R)
      /\ Apart(R) /\ Replaced(made, force, R)
  BY DEF KeptBy, TypesOf
<1>2. /\ prov \in Seq(Provider) /\ Len(prov) = n + 1 /\ prov[n + 1] = b
      /\ \A i \in 1 .. n : prov[i] = made[i]
  BY <1>1
<1>3. /\ R[r] = Done /\ S[r] = next
      /\ \A s \in Requests : s # r => S[s] = R[s]
      /\ S \in [Requests -> RequestType]
  BY DEF RequestType
<1>4. Done.at = "done"
  BY RequestKinds
<1> HIDE DEF n, prov, R, S
<1>5. force \in [Group -> 1 .. Len(prov)]
  BY <1>1, <1>2
<1>6. Forced(prov, force)
  BY <1>1, <1>2 DEF Forced
<1>7. Newcomers(prov, S)
  <2> SUFFICES ASSUME NEW s \in Requests, S[s].at = "starting"
               PROVE  /\ S[s].group \in 1 .. 4 /\ S[s].provider \in 1 .. Len(prov)
                      /\ prov[S[s].provider].of = Groups[S[s].group]
                      /\ prov[S[s].provider].is = "built"
    BY DEF Newcomers
  <2>1. CASE s = r
    BY <2>1, <1>1, <1>2, <1>3 DEF n
  <2>2. CASE s # r
    <3>1. /\ R[s].group \in 1 .. 4 /\ R[s].provider \in 1 .. n
          /\ made[R[s].provider].of = Groups[R[s].group] /\ made[R[s].provider].is = "built"
      BY <2>2, <1>1, <1>3 DEF Newcomers, n
    <3> QED BY <2>2, <3>1, <1>1, <1>2, <1>3
  <2> QED BY <2>1, <2>2
<1>8. Leavers(prov, force, S)
  <2> SUFFICES ASSUME NEW s \in Requests, S[s].at = "closing"
               PROVE  /\ S[s].group \in 1 .. 3 /\ S[s].provider \in 1 .. Len(prov)
                      /\ prov[S[s].provider].of = Groups[S[s].group]
                      /\ prov[S[s].provider].is = "ready"
                      /\ force[Groups[S[s].group]] # S[s].provider
    BY DEF Leavers
  <2>1. s # r
    BY <1>3
  <2>2. /\ R[s].group \in 1 .. 3 /\ R[s].provider \in 1 .. n
        /\ made[R[s].provider].of = Groups[R[s].group] /\ made[R[s].provider].is = "ready"
        /\ force[Groups[R[s].group]] # R[s].provider
    BY <2>1, <1>1, <1>3 DEF Leavers, n
  <2> QED BY <2>1, <2>2, <1>1, <1>2, <1>3
<1>9. Apart(S)
  <2>1. \A s \in Requests : s # r /\ S[s].at \in {"starting", "closing"} => S[s].provider \in 1 .. n
    BY <1>1, <1>3 DEF Newcomers, Leavers, n
  <2>2. next.provider = n + 1
    BY DEF n
  <2> QED BY <2>1, <2>2, <1>1, <1>3 DEF Apart
<1>10. Replaced(prov, force, S)
  <2> SUFFICES ASSUME NEW i \in 1 .. Len(prov), prov[i].is = "ready", prov[i].of # "knowledge",
                      force[prov[i].of] # i
               PROVE  \E s \in Requests : S[s].at = "closing" /\ S[s].provider = i
    BY DEF Replaced
  <2>1. i \in 1 .. n
    BY <1>1, <1>2
  <2>2. PICK s \in Requests : R[s].at = "closing" /\ R[s].provider = i
    BY <2>1, <1>1, <1>2 DEF Replaced, n
  <2>3. s # r
    BY <2>2, <1>3, <1>4
  <2> QED BY <2>2, <2>3, <1>3
<1> QED BY <1>2, <1>3, <1>5, <1>6, <1>7, <1>8, <1>9, <1>10 DEF KeptBy, TypesOf, prov, S

\* ... and what is not a matter of who holds what may change.
LEMMA KeptByTurning ==
  ASSUME NEW made, NEW force, NEW reqs, KeptBy(made, force, reqs),
         NEW prov \in Seq(Provider), Len(prov) = Len(made),
         \A i \in 1 .. Len(made) : prov[i].of = made[i].of /\ prov[i].is = made[i].is
  PROVE  KeptBy(prov, force, reqs)
<1>1. TypesOf(prov, force, reqs)
  BY DEF KeptBy, TypesOf
<1>2. Forced(prov, force)
  <2>1. \A g \in Group : force[g] \in 1 .. Len(made)
    BY DEF KeptBy, TypesOf
  <2> QED BY <2>1 DEF KeptBy, Forced
<1>3. Newcomers(prov, reqs)
  BY DEF KeptBy, Newcomers
<1>4. Leavers(prov, force, reqs)
  BY DEF KeptBy, Leavers
<1>5. Replaced(prov, force, reqs)
  <2> SUFFICES ASSUME NEW i \in 1 .. Len(prov), prov[i].is = "ready", prov[i].of # "knowledge",
                      force[prov[i].of] # i
               PROVE  \E s \in Requests : reqs[s].at = "closing" /\ reqs[s].provider = i
    BY DEF Replaced
  <2>1. i \in 1 .. Len(made) /\ made[i].is = "ready" /\ made[i].of # "knowledge" /\ force[made[i].of] # i
    OBVIOUS
  <2> QED BY <2>1 DEF KeptBy, Replaced
<1> QED BY <1>1, <1>2, <1>3, <1>4, <1>5 DEF KeptBy

Kept == KeptBy(providers, inForce, request)

LEMMA KnowledgeGroup == Groups[4] = "knowledge" /\ "knowledge" \in Group
BY DEF Groups, Group

LEMMA GroupBuilt ==
  ASSUME NEW j \in 1 .. 4, NEW s \in Settings
  PROVE  /\ Build(Groups[j], s) \in Provider
         /\ Build(Groups[j], s).of = Groups[j] /\ Build(Groups[j], s).is = "built"
<1> DEFINE g == Groups[j]
<1>1. g \in Group
  BY GroupsType
<1> HIDE DEF g
<1>2. Build(g, s) \in Provider /\ Build(g, s).of = g /\ Build(g, s).is = "built"
  BY <1>1, BuildType
<1> QED BY <1>2 DEF g

LEMMA ProceedKeeps ==
  ASSUME NEW r \in Requests, NEW req \in Reloading, NEW i \in 0 .. 4, NEW made \in Seq(Provider),
         settings \in Settings, request \in [Requests -> RequestType],
         KeptBy(made, inForce', [request EXCEPT ![r] = Done]),
         Proceed(r, req, i, made)
  PROVE  Kept' /\ settings' \in Settings
<1> DEFINE f == inForce'["knowledge"]
<1>1. inForce' \in [Group -> 1 .. Len(made)]
  BY DEF KeptBy, TypesOf
<1>2. req.old \in Settings /\ req.new \in Settings
  BY ReloadingParts
<1>3. CASE GoesOn(r, req, i, made)
  <2>1. PICK j \in 1 .. 4, next \in Reloading :
              /\ next.at = "starting" /\ next.group = j /\ next.provider = Len(made) + 1
              /\ providers' = Append(made, Build(Groups[j], req.new))
              /\ request' = [request EXCEPT ![r] = next]
              /\ settings' = settings
    BY <1>3 DEF GoesOn
  <2> DEFINE b == Build(Groups[j], req.new)
  <2>2. b \in Provider /\ b.of = Groups[j] /\ b.is = "built"
    BY <1>2, GroupBuilt
  <2> HIDE DEF b
  <2>3. KeptBy(Append(made, b), inForce', [request EXCEPT ![r] = next])
    BY <2>1, <2>2, KeptByBuilding
  <2> QED BY <2>1, <2>3 DEF Kept, b
<1>4. CASE Ends(r, req, i, made)
  <2> DEFINE p == [made[f] EXCEPT !.with = Turned(made[f], req.new)]
             prov == [made EXCEPT ![f] = p]
  <2>1. f \in 1 .. Len(made) /\ made[f] \in Provider
    BY <1>1, KnowledgeGroup
  <2>2. Turned(made[f], req.new) \in [Uses(made[f].of) \cap Edited -> Values]
    BY <2>1, <1>2, TurnedType
  <2>3. p \in Provider /\ p.of = made[f].of /\ p.is = made[f].is
    BY <2>1, <2>2, ProviderChanged
  <2> HIDE DEF p
  <2>4. /\ prov \in Seq(Provider) /\ Len(prov) = Len(made)
        /\ \A n \in 1 .. Len(made) : prov[n].of = made[n].of /\ prov[n].is = made[n].is
    BY <2>1, <2>3
  <2> HIDE DEF prov
  <2>5. KeptBy(prov, inForce', [request EXCEPT ![r] = Done])
    BY <2>4, KeptByTurning
  <2>6. providers' = made \/ providers' = prov
    BY <1>4 DEF prov, p, Ends, WithKnobs
  <2> QED BY <1>2, <1>4, <2>5, <2>6 DEF Kept, Ends
<1> HIDE DEF Kept
<1> QED BY <1>1, <1>3, <1>4, ProceedForms

-----------------------------------------------------------------------------
(* What a save, a failure and a restart do to it. *)

\* A request that neither starts nor closes a provider may as well be over.
LEMMA KeptWhenOver ==
  ASSUME NEW r \in Requests, Kept, request[r].at \notin {"starting", "closing"}
  PROVE  KeptBy(providers, inForce, [request EXCEPT ![r] = Done])
<1> DEFINE S == [request EXCEPT ![r] = Done]
<1>1. request \in [Requests -> RequestType] /\ Done.at = "done"
  BY RequestKinds DEF Kept, KeptBy, TypesOf
<1>2. S \in [Requests -> RequestType] /\ S[r] = Done /\ \A s \in Requests : s # r => S[s] = request[s]
  BY <1>1 DEF RequestType
<1> HIDE DEF S
<1>3. TypesOf(providers, inForce, S)
  BY <1>2 DEF Kept, KeptBy, TypesOf
<1>4. Newcomers(providers, S)
  BY <1>1, <1>2 DEF Kept, KeptBy, Newcomers
<1>5. Leavers(providers, inForce, S)
  BY <1>1, <1>2 DEF Kept, KeptBy, Leavers
<1>6. Apart(S)
  BY <1>1, <1>2 DEF Kept, KeptBy, Apart
<1>7. Replaced(providers, inForce, S)
  <2> SUFFICES ASSUME NEW i \in 1 .. Len(providers), providers[i].is = "ready",
                      providers[i].of # "knowledge", inForce[providers[i].of] # i
               PROVE  \E s \in Requests : S[s].at = "closing" /\ S[s].provider = i
    BY DEF Replaced
  <2>1. PICK s \in Requests : request[s].at = "closing" /\ request[s].provider = i
    BY DEF Kept, KeptBy, Replaced
  <2> QED BY <2>1, <1>2
<1> QED BY <1>3, <1>4, <1>5, <1>6, <1>7 DEF S, Kept, KeptBy

\* A save or a reset that gets as far as to exchange providers.
LEMMA ReloadKeeps ==
  ASSUME NEW r \in Requests, Kept, settings \in Settings, request[r] = Idle,
         NEW kind \in {"put", "reset"}, NEW changed \in SUBSET Edited, NEW over \in Overrides,
         Reload(r, kind, changed, over)
  PROVE  Kept' /\ settings' \in Settings
<1> DEFINE req == [at |-> "starting", kind |-> kind, old |-> settings, new |-> Layered(over),
                   changed |-> changed, group |-> 0, provider |-> 0]
<1>1. req \in Reloading
  BY LayeredType DEF Reloading
<1>2. KeptBy(providers, inForce, [request EXCEPT ![r] = Done])
  BY KeptWhenOver, RequestKinds
<1>3. /\ providers \in Seq(Provider) /\ request \in [Requests -> RequestType]
  BY DEF Kept, KeptBy, TypesOf
<1>4. inForce' = inForce /\ Proceed(r, req, 0, providers)
  BY DEF Reload
<1> HIDE DEF req
<1>5. KeptBy(providers, inForce', [request EXCEPT ![r] = Done])
  BY <1>2, <1>4
<1>6. 0 \in 0 .. 4
  OBVIOUS
<1> QED BY <1>1, <1>3, <1>4, <1>5, <1>6, ProceedKeeps

\* A provider that its reload gives up, closed or failed, was not in force.
LEMMA KeptByParting ==
  ASSUME NEW r \in Requests, Kept, request[r].at \in {"starting", "closing"},
         NEW prov \in Seq(Provider), Len(prov) = Len(providers),
         prov[request[r].provider].of = providers[request[r].provider].of,
         prov[request[r].provider].is # "ready",
         \A i \in 1 .. Len(providers) : i # request[r].provider => prov[i] = providers[i]
  PROVE  KeptBy(prov, inForce, [request EXCEPT ![r] = Done])
<1> DEFINE p == request[r].provider
           S == [request EXCEPT ![r] = Done]
           n == Len(providers)
<1>1. /\ providers \in Seq(Provider) /\ n \in Nat /\ inForce \in [Group -> 1 .. n]
      /\ request \in [Requests -> RequestType]
      /\ Forced(providers, inForce) /\ Newcomers(providers, request)
      /\ Leavers(providers, inForce, request) /\ Apart(request)
      /\ Replaced(providers, inForce, request)
  BY DEF Kept, KeptBy, TypesOf
<1>2. /\ S \in [Requests -> RequestType] /\ S[r] = Done
      /\ \A s \in Requests : s # r => S[s] = request[s]
  BY <1>1 DEF RequestType
<1>3. Done.at = "done"
  BY RequestKinds
<1>4. \A i \in 1 .. n : prov[i].of = providers[i].of
  OBVIOUS
<1>5. \A s \in Requests : s # r /\ request[s].at \in {"starting", "closing"} =>
        request[s].provider # p
  BY <1>1 DEF Apart
<1>6. \A g \in Group : inForce[g] \in 1 .. n /\ inForce[g] # p
  <2>1. CASE request[r].at = "starting"
    BY <2>1, <1>1 DEF Forced, Newcomers
  <2>2. CASE request[r].at = "closing"
    <3>1. providers[p].of = Groups[request[r].group] /\ inForce[Groups[request[r].group]] # p
      BY <2>2, <1>1 DEF Leavers
    <3> QED BY <3>1, <1>1 DEF Forced
  <2> QED BY <2>1, <2>2
<1>7. \A i \in 1 .. n : i # p => prov[i] = providers[i]
  OBVIOUS
<1>8. prov[p].is # "ready"
  OBVIOUS
<1> HIDE DEF S, p
<1>9. Forced(prov, inForce)
  BY <1>1, <1>6, <1>7 DEF Forced
<1>10. Newcomers(prov, S)
  <2> SUFFICES ASSUME NEW s \in Requests, S[s].at = "starting"
               PROVE  /\ S[s].group \in 1 .. 4 /\ S[s].provider \in 1 .. Len(prov)
                      /\ prov[S[s].provider].of = Groups[S[s].group]
                      /\ prov[S[s].provider].is = "built"
    BY DEF Newcomers
  <2>1. s # r /\ S[s] = request[s]
    BY <1>2, <1>3
  <2>2. request[s].provider # p /\ request[s].provider \in 1 .. n
    BY <2>1, <1>1, <1>5 DEF Newcomers
  <2>3. prov[request[s].provider] = providers[request[s].provider]
    BY <2>2, <1>7
  <2> QED BY <2>1, <2>2, <2>3, <1>1 DEF Newcomers
<1>11. Leavers(prov, inForce, S)
  <2> SUFFICES ASSUME NEW s \in Requests, S[s].at = "closing"
               PROVE  /\ S[s].group \in 1 .. 3 /\ S[s].provider \in 1 .. Len(prov)
                      /\ prov[S[s].provider].of = Groups[S[s].group]
                      /\ prov[S[s].provider].is = "ready"
                      /\ inForce[Groups[S[s].group]] # S[s].provider
    BY DEF Leavers
  <2>1. s # r /\ S[s] = request[s]
    BY <1>2, <1>3
  <2>2. request[s].provider # p /\ request[s].provider \in 1 .. n
    BY <2>1, <1>1, <1>5 DEF Leavers
  <2>3. prov[request[s].provider] = providers[request[s].provider]
    BY <2>2, <1>7
  <2> QED BY <2>1, <2>2, <2>3, <1>1 DEF Leavers
<1>12. Apart(S)
  BY <1>1, <1>2, <1>3 DEF Apart
<1>13. Replaced(prov, inForce, S)
  <2> SUFFICES ASSUME NEW i \in 1 .. Len(prov), prov[i].is = "ready", prov[i].of # "knowledge",
                      inForce[prov[i].of] # i
               PROVE  \E s \in Requests : S[s].at = "closing" /\ S[s].provider = i
    BY DEF Replaced
  <2>1. i \in 1 .. n /\ i # p
    BY <1>8
  <2>2. PICK s \in Requests : request[s].at = "closing" /\ request[s].provider = i
    BY <2>1, <1>1, <1>7 DEF Replaced
  <2>3. s # r
    BY <2>1, <2>2 DEF p
  <2> QED BY <2>2, <2>3, <1>2
<1>14. TypesOf(prov, inForce, S)
  BY <1>1, <1>2 DEF TypesOf
<1> QED BY <1>9, <1>10, <1>11, <1>12, <1>13, <1>14 DEF KeptBy, S

\* A newcomer that has started is put in force, and its reload has what it replaces
\* in hand, or nothing if that is a retriever.
LEMMA KeptByStarting ==
  ASSUME NEW r \in Requests, Kept, request[r].at = "starting",
         NEW prov \in Seq(Provider), Len(prov) = Len(providers),
         prov[request[r].provider].of = providers[request[r].provider].of,
         prov[request[r].provider].is = "ready",
         \A i \in 1 .. Len(providers) : i # request[r].provider => prov[i] = providers[i],
         NEW g, g = Groups[request[r].group],
         NEW next \in RequestType,
         \/ g = "knowledge" /\ next = Done
         \/ /\ g # "knowledge" /\ next.at = "closing"
            /\ next.group = request[r].group /\ next.provider = inForce[g]
  PROVE  KeptBy(prov, [inForce EXCEPT ![g] = request[r].provider], [request EXCEPT ![r] = next])
<1> DEFINE p == request[r].provider
           S == [request EXCEPT ![r] = next]
           force == [inForce EXCEPT ![g] = p]
           n == Len(providers)
<1>1. /\ providers \in Seq(Provider) /\ n \in Nat /\ inForce \in [Group -> 1 .. n]
      /\ request \in [Requests -> RequestType]
      /\ Forced(providers, inForce) /\ Newcomers(providers, request)
      /\ Leavers(providers, inForce, request) /\ Apart(request)
      /\ Replaced(providers, inForce, request)
  BY DEF Kept, KeptBy, TypesOf
<1>2. /\ S \in [Requests -> RequestType] /\ S[r] = next
      /\ \A s \in Requests : s # r => S[s] = request[s]
  BY <1>1
<1>3. /\ request[r].group \in 1 .. 4 /\ p \in 1 .. n
      /\ providers[p].of = g /\ providers[p].is = "built"
  BY <1>1 DEF Newcomers
<1>4. g \in Group /\ (g = "knowledge" <=> request[r].group = 4)
  BY <1>3, GroupsType
<1>5. /\ force \in [Group -> 1 .. n] /\ force[g] = p
      /\ \A h \in Group : h # g => force[h] = inForce[h]
  BY <1>1, <1>3, <1>4
<1>6. \A i \in 1 .. n : prov[i].of = providers[i].of /\ (i # p => prov[i] = providers[i])
  OBVIOUS
<1>7. prov[p].is = "ready"
  OBVIOUS
<1>8. \A s \in Requests : s # r /\ request[s].at \in {"starting", "closing"} =>
        request[s].provider # p
  BY <1>1 DEF Apart
<1>9. \/ g = "knowledge" /\ next = Done
      \/ /\ g # "knowledge" /\ next.at = "closing"
         /\ next.group = request[r].group /\ next.provider = inForce[g]
  OBVIOUS
<1>10. Done.at = "done"
  BY RequestKinds
<1>11. inForce[g] \in 1 .. n /\ inForce[g] # p /\ providers[inForce[g]].of = g
       /\ providers[inForce[g]].is = "ready"
  BY <1>1, <1>3, <1>4 DEF Forced
<1>12. \A s \in Requests : s # r /\ request[s].at \in {"starting", "closing"} =>
         request[s].provider # inForce[g]
  BY <1>1, <1>4, <1>11 DEF Newcomers, Leavers
<1> HIDE DEF S, p, force, n
<1>13. Forced(prov, force)
  <2> SUFFICES ASSUME NEW h \in Group PROVE prov[force[h]].of = h /\ prov[force[h]].is = "ready"
    BY DEF Forced
  <2>1. CASE h = g
    BY <2>1, <1>3, <1>5, <1>6, <1>7
  <2>2. CASE h # g
    <3>1. force[h] = inForce[h] /\ inForce[h] \in 1 .. n /\ providers[inForce[h]].of = h
          /\ providers[inForce[h]].is = "ready"
      BY <2>2, <1>1, <1>5 DEF Forced
    <3> QED BY <3>1, <1>3, <1>6
  <2> QED BY <2>1, <2>2
<1>14. Newcomers(prov, S)
  <2> SUFFICES ASSUME NEW s \in Requests, S[s].at = "starting"
               PROVE  /\ S[s].group \in 1 .. 4 /\ S[s].provider \in 1 .. n
                      /\ prov[S[s].provider].of = Groups[S[s].group]
                      /\ prov[S[s].provider].is = "built"
    BY DEF Newcomers, n
  <2>1. s # r /\ S[s] = request[s]
    BY <1>2, <1>9, <1>10
  <2> QED BY <2>1, <1>1, <1>6, <1>8 DEF Newcomers, n
<1>15. Leavers(prov, force, S)
  <2> SUFFICES ASSUME NEW s \in Requests, S[s].at = "closing"
               PROVE  /\ S[s].group \in 1 .. 3 /\ S[s].provider \in 1 .. n
                      /\ prov[S[s].provider].of = Groups[S[s].group]
                      /\ prov[S[s].provider].is = "ready"
                      /\ force[Groups[S[s].group]] # S[s].provider
    BY DEF Leavers, n
  <2>1. CASE s = r
    <3>1. g # "knowledge" /\ S[s].group = request[r].group /\ S[s].provider = inForce[g]
      BY <2>1, <1>2, <1>9, <1>10
    <3>2. S[s].group \in 1 .. 3
      BY <3>1, <1>3, <1>4
    <3>3. Groups[S[s].group] = g
      BY <3>1
    <3> QED BY <3>1, <3>2, <3>3, <1>5, <1>6, <1>11
  <2>2. CASE s # r
    <3>1. S[s] = request[s] /\ request[s].provider # p
      BY <2>2, <1>2, <1>8
    <3>2. /\ S[s].group \in 1 .. 3 /\ S[s].provider \in 1 .. n
          /\ providers[S[s].provider].of = Groups[S[s].group]
          /\ providers[S[s].provider].is = "ready"
          /\ inForce[Groups[S[s].group]] # S[s].provider
      BY <3>1, <1>1 DEF Leavers, n
    <3>3. Groups[S[s].group] \in Group
      BY <3>2, GroupsType
    <3> QED BY <3>1, <3>2, <3>3, <1>5, <1>6
  <2> QED BY <2>1, <2>2
<1>16. Apart(S)
  <2>1. \A s \in Requests : s # r /\ S[s].at \in {"starting", "closing"} =>
          S[s].provider # inForce[g]
    BY <1>2, <1>12
  <2>2. S[r].at \in {"starting", "closing"} => S[r].provider = inForce[g]
    BY <1>2, <1>9, <1>10
  <2> SUFFICES ASSUME NEW s \in Requests, NEW t \in Requests, s # t,
                      S[s].at \in {"starting", "closing"}, S[t].at \in {"starting", "closing"}
               PROVE  S[s].provider # S[t].provider
    BY DEF Apart
  <2>3. CASE s = r
    BY <2>1, <2>2, <2>3
  <2>4. CASE t = r
    BY <2>1, <2>2, <2>4
  <2>5. CASE s # r /\ t # r
    BY <2>5, <1>1, <1>2 DEF Apart
  <2> QED BY <2>3, <2>4, <2>5
<1>17. Replaced(prov, force, S)
  <2> SUFFICES ASSUME NEW i \in 1 .. n, prov[i].is = "ready", prov[i].of # "knowledge",
                      force[prov[i].of] # i
               PROVE  \E s \in Requests : S[s].at = "closing" /\ S[s].provider = i
    BY DEF Replaced, n
  <2>1. i # p /\ prov[i] = providers[i] /\ providers[i].of \in Group
    <3>1. i # p
      BY <1>3, <1>5, <1>6
    <3>2. providers[i] \in Provider
      BY <1>1 DEF n
    <3>3. providers[i].of \in Group
      BY <3>2, ProviderParts
    <3> QED BY <3>1, <3>3, <1>6
  <2>2. CASE i = inForce[g]
    BY <2>1, <2>2, <1>2, <1>9, <1>11
  <2>3. CASE i # inForce[g]
    <3>1. inForce[providers[i].of] # i
      BY <2>1, <2>3, <1>5
    <3>2. PICK s \in Requests : request[s].at = "closing" /\ request[s].provider = i
      BY <2>1, <3>1, <1>1 DEF Replaced, n
    <3>3. s # r
      BY <3>2
    <3> QED BY <3>2, <3>3, <1>2
  <2> QED BY <2>2, <2>3
<1>18. TypesOf(prov, force, S)
  BY <1>1, <1>2, <1>5 DEF TypesOf, n
<1> QED BY <1>13, <1>14, <1>15, <1>16, <1>17, <1>18 DEF KeptBy, S, force, p

\* A boot has one provider of each group, ready and in force, and no reload.
Booted(over) == [i \in 1 .. 4 |-> Ready(Build(Groups[i], Layered(over)))]
Placed == [g \in Group |-> CHOOSE i \in 1 .. 4 : Groups[i] = g]

LEMMA BootParts ==
  ASSUME NEW over
  PROVE  /\ Boot(over).overrides = over /\ Boot(over).file = over
         /\ Boot(over).settings = Layered(over)
         /\ Boot(over).providers = Booted(over) /\ Boot(over).inForce = Placed
         /\ Boot(over).trouble = FALSE /\ Boot(over).exposed = {}
BY DEF Boot, Booted, Placed

LEMMA BootedType ==
  ASSUME NEW over \in Overrides, NEW i \in 1 .. 4
  PROVE  /\ Booted(over)[i] \in Provider
         /\ Booted(over)[i].of = Groups[i] /\ Booted(over)[i].is = "ready"
         /\ Booted(over)[i].with = [k \in Uses(Groups[i]) \cap Edited |-> Layered(over)[k]]
<1> DEFINE b == Build(Groups[i], Layered(over))
<1>1. Layered(over) \in Settings /\ Groups[i] \in Group
  BY LayeredType, GroupsType
<1>2. /\ b \in Provider /\ b.of = Groups[i]
      /\ b.with = [k \in Uses(Groups[i]) \cap Edited |-> Layered(over)[k]]
  BY <1>1, BuildType
<1>3. Booted(over)[i] = Ready(b)
  BY DEF Booted
<1> HIDE DEF b
<1>4. Ready(b) \in Provider /\ Ready(b).of = b.of /\ Ready(b).is = "ready" /\ Ready(b).with = b.with
  BY <1>2, ProviderChanged DEF Ready, Condition
<1> QED BY <1>2, <1>3, <1>4

LEMMA PlacedType ==
  /\ Placed \in [Group -> 1 .. 4]
  /\ \A g \in Group : Groups[Placed[g]] = g
  /\ \A i \in 1 .. 4 : Placed[Groups[i]] = i
<1>1. \A g \in Group : (CHOOSE i \in 1 .. 4 : Groups[i] = g) \in 1 .. 4
        /\ Groups[CHOOSE i \in 1 .. 4 : Groups[i] = g] = g
  BY GroupsType
<1>2. \A g \in Group : Placed[g] \in 1 .. 4 /\ Groups[Placed[g]] = g
  BY <1>1 DEF Placed
<1>3. Placed \in [Group -> 1 .. 4]
  BY <1>1 DEF Placed
<1>4. \A i \in 1 .. 4 : Placed[Groups[i]] = i
  BY <1>2, GroupsType
<1> QED BY <1>2, <1>3, <1>4

LEMMA KeptByBooting ==
  ASSUME NEW over \in Overrides, NEW reqs \in [Requests -> RequestType],
         \A r \in Requests : reqs[r].at \notin {"starting", "closing"}
  PROVE  KeptBy(Booted(over), Placed, reqs)
<1>1. Booted(over) \in Seq(Provider) /\ Len(Booted(over)) = 4
  <2>1. \A i \in 1 .. 4 : Booted(over)[i] \in Provider
    BY BootedType
  <2>2. DOMAIN Booted(over) = 1 .. 4 /\ Booted(over) = [i \in 1 .. 4 |-> Booted(over)[i]]
    BY DEF Booted
  <2> QED BY <2>1, <2>2
<1>2. TypesOf(Booted(over), Placed, reqs)
  BY <1>1, PlacedType DEF TypesOf
<1>3. Forced(Booted(over), Placed)
  <2> SUFFICES ASSUME NEW g \in Group
               PROVE  Booted(over)[Placed[g]].of = g /\ Booted(over)[Placed[g]].is = "ready"
    BY DEF Forced
  <2> DEFINE i == Placed[g]
  <2>1. i \in 1 .. 4 /\ Groups[i] = g
    BY PlacedType
  <2> HIDE DEF i
  <2>2. Booted(over)[i].of = Groups[i] /\ Booted(over)[i].is = "ready"
    BY <2>1, BootedType
  <2> QED BY <2>1, <2>2 DEF i
<1>4. Newcomers(Booted(over), reqs) /\ Leavers(Booted(over), Placed, reqs) /\ Apart(reqs)
  BY DEF Newcomers, Leavers, Apart
<1>5. Replaced(Booted(over), Placed, reqs)
  <2> SUFFICES ASSUME NEW i \in 1 .. 4, Placed[Booted(over)[i].of] # i PROVE FALSE
    BY <1>1 DEF Replaced
  <2> QED BY PlacedType, BootedType
<1> QED BY <1>2, <1>3, <1>4, <1>5 DEF KeptBy

-----------------------------------------------------------------------------
(* The invariant. *)

Typed ==
  /\ overrides \in Overrides /\ file \in Overrides
  /\ settings \in Settings
  /\ call \in [Calls -> Answered]
  /\ pending \subseteq Faults
  /\ trouble \in BOOLEAN /\ exposed \subseteq Calls

ServicesInv == Typed /\ Kept

LEMMA ServicesInvInit == Init => ServicesInv
<1> SUFFICES ASSUME Init PROVE ServicesInv
  OBVIOUS
<1> DEFINE none == [k \in {} |-> Baseline]
<1>1. none \in Overrides
  <2>1. {} \in SUBSET Edited /\ none \in [{} -> Values]
    OBVIOUS
  <2> HIDE DEF none
  <2> QED BY <2>1, OverridesMade
<1> HIDE DEF none
<1>2. /\ overrides = none /\ file = none /\ settings = Layered(none)
      /\ providers = Booted(none) /\ inForce = Placed
      /\ trouble = FALSE /\ exposed = {}
      /\ request = [r \in Requests |-> Idle]
      /\ call = [c \in Calls |-> [at |-> "none", llm |-> 0]]
      /\ pending = Faults
  <2> DEFINE b == Boot(none)
  <2>1. /\ b.overrides = none /\ b.file = none /\ b.settings = Layered(none)
        /\ b.providers = Booted(none) /\ b.inForce = Placed
        /\ b.trouble = FALSE /\ b.exposed = {}
    BY BootParts
  <2>2. /\ overrides = b.overrides /\ file = b.file /\ settings = b.settings
        /\ providers = b.providers /\ inForce = b.inForce
        /\ trouble = b.trouble /\ exposed = b.exposed
        /\ request = [r \in Requests |-> Idle]
        /\ call = [c \in Calls |-> [at |-> "none", llm |-> 0]]
        /\ pending = Faults
    BY DEF Init, none
  <2> HIDE DEF b
  <2> QED BY <2>1, <2>2
<1>3. Typed
  BY <1>1, <1>2, LayeredType DEF Typed, Answered
<1>4. request \in [Requests -> RequestType] /\ \A r \in Requests : request[r].at \notin {"starting", "closing"}
  BY <1>2, RequestKinds DEF RequestType
<1>5. Kept
  BY <1>1, <1>2, <1>4, KeptByBooting DEF Kept
<1> QED BY <1>3, <1>5 DEF ServicesInv

LEMMA PutKeeps ==
  ASSUME ServicesInv, NEW r \in Requests, NEW patch \in Patches, NEW force \in BOOLEAN,
         Put(r, patch, force)
  PROVE  ServicesInv'
<1>1. Typed /\ Kept
  BY DEF ServicesInv
<1>2. /\ Merged(patch) \in Overrides /\ Changed(patch) \in SUBSET Edited
  BY <1>1, MergedType DEF Typed
<1>3. /\ request[r] = Idle /\ overrides' = Merged(patch) /\ Note(force)
      /\ UNCHANGED <<call, pending>>
  BY DEF Put
<1>4. trouble' \in BOOLEAN /\ exposed' \subseteq Calls
  BY <1>1, <1>3 DEF Typed, Note, Live, AtRest, Underway
<1>5. CASE /\ request' = [request EXCEPT ![r] = Done]
           /\ UNCHANGED <<file, settings, providers, inForce>>
  <2>1. Kept'
    BY <1>1, <1>3, <1>5, KeptWhenOver, RequestKinds DEF Kept
  <2> QED BY <1>1, <1>2, <1>3, <1>4, <1>5, <2>1 DEF ServicesInv, Typed
<1>6. CASE /\ file' = overrides'
           /\ Reload(r, "put", Changed(patch), overrides')
  <2>1. Reload(r, "put", Changed(patch), Merged(patch))
    BY <1>3, <1>6
  <2>2. Kept' /\ settings' \in Settings
    BY <1>1, <1>2, <1>3, <2>1, ReloadKeeps DEF Typed
  <2> QED BY <1>1, <1>2, <1>3, <1>4, <1>6, <2>2 DEF ServicesInv, Typed
<1> QED BY <1>5, <1>6 DEF Put

LEMMA PutUnwrittenKeeps ==
  ASSUME ServicesInv, NEW r \in Requests, NEW patch \in Patches, NEW force \in BOOLEAN,
         PutUnwritten(r, patch, force)
  PROVE  ServicesInv'
<1>1. Typed /\ Kept
  BY DEF ServicesInv
<1>2. Merged(patch) \in Overrides
  BY <1>1, MergedType DEF Typed
<1>3. Kept'
  BY <1>1, KeptWhenOver, RequestKinds DEF PutUnwritten, Kept
<1> QED BY <1>1, <1>2, <1>3 DEF ServicesInv, Typed, PutUnwritten

LEMMA ResetKeeps ==
  ASSUME ServicesInv, NEW r \in Requests, NEW keys \in SUBSET Edited, Reset(r, keys)
  PROVE  ServicesInv'
<1>1. Typed /\ Kept
  BY DEF ServicesInv
<1>2. Without(overrides, keys) \in Overrides
  BY <1>1, WithoutType DEF Typed
<1>3. /\ request[r] = Idle /\ overrides' = Without(overrides, keys) /\ Note(TRUE)
      /\ UNCHANGED <<call, pending>>
  BY DEF Reset
<1>4. trouble' \in BOOLEAN /\ exposed' \subseteq Calls
  BY <1>1, <1>3 DEF Typed, Note, Live, AtRest, Underway
<1>5. CASE /\ request' = [request EXCEPT ![r] = Done]
           /\ UNCHANGED <<file, settings, providers, inForce>>
  <2>1. Kept'
    BY <1>1, <1>3, <1>5, KeptWhenOver, RequestKinds DEF Kept
  <2> QED BY <1>1, <1>2, <1>3, <1>4, <1>5, <2>1 DEF ServicesInv, Typed
<1>6. CASE /\ file' = overrides'
           /\ Reload(r, "reset", keys, overrides')
  <2>1. Reload(r, "reset", keys, Without(overrides, keys))
    BY <1>3, <1>6
  <2>2. Kept' /\ settings' \in Settings
    BY <1>1, <1>2, <1>3, <2>1, ReloadKeeps DEF Typed
  <2> QED BY <1>1, <1>2, <1>3, <1>4, <1>6, <2>2 DEF ServicesInv, Typed
<1> QED BY <1>5, <1>6 DEF Reset

\* What a reload under way is.
LEMMA UnderwayType ==
  ASSUME Kept, NEW r \in Requests, request[r].at \in {"starting", "closing"}
  PROVE  /\ request[r] \in Reloading /\ request[r].group \in 1 .. 4
         /\ request[r].provider \in 1 .. Len(providers)
         /\ providers \in Seq(Provider) /\ providers[request[r].provider] \in Provider
<1>1. request \in [Requests -> RequestType] /\ providers \in Seq(Provider)
  BY DEF Kept, KeptBy, TypesOf
<1>2. request[r] \in Reloading
  BY <1>1, RequestKinds
<1>3. request[r].group \in 1 .. 4 /\ request[r].provider \in 1 .. Len(providers)
  BY DEF Kept, KeptBy, Newcomers, Leavers
<1> QED BY <1>1, <1>2, <1>3

LEMMA StartedKeeps ==
  ASSUME ServicesInv, NEW r \in Requests, Started(r)
  PROVE  ServicesInv'
<1> DEFINE req == request[r]
           p == req.provider
           g == Groups[req.group]
           made == [providers EXCEPT ![p] = Ready(providers[p])]
<1>1. Typed /\ Kept
  BY DEF ServicesInv
<1>2. req.at = "starting"
  BY DEF Started
<1>3. /\ req \in Reloading /\ req.group \in 1 .. 4 /\ p \in 1 .. Len(providers)
      /\ providers \in Seq(Provider) /\ providers[p] \in Provider
  BY <1>1, <1>2, UnderwayType
<1>4. /\ Ready(providers[p]) \in Provider /\ Ready(providers[p]).of = providers[p].of
      /\ Ready(providers[p]).is = "ready"
  BY <1>3, ProviderChanged DEF Ready, Condition
<1>5. /\ made \in Seq(Provider) /\ Len(made) = Len(providers)
      /\ made[p].of = providers[p].of /\ made[p].is = "ready"
      /\ \A i \in 1 .. Len(providers) : i # p => made[i] = providers[i]
  BY <1>3, <1>4
<1>6. /\ inForce' = [inForce EXCEPT ![g] = p]
      /\ \/ /\ g # "knowledge" /\ providers' = made
            /\ request' = [request EXCEPT ![r] = Closing(req, inForce[g])]
            /\ UNCHANGED settings
         \/ /\ g = "knowledge" /\ Proceed(r, req, req.group, made)
      /\ UNCHANGED <<overrides, file, call, pending, trouble, exposed>>
  BY DEF Started, Closing
<1>7. /\ request \in [Requests -> RequestType] /\ inForce \in [Group -> 1 .. Len(providers)]
      /\ g \in Group /\ Done \in RequestType
  BY <1>1, <1>3, GroupsType DEF Kept, KeptBy, TypesOf, RequestType
<1> HIDE DEF made
<1>8. Kept' /\ settings' \in Settings
  <2>1. CASE /\ g # "knowledge" /\ providers' = made
             /\ request' = [request EXCEPT ![r] = Closing(req, inForce[g])]
             /\ UNCHANGED settings
    <3>1. inForce[g] \in Nat
      BY <1>7
    <3>2. PICK next \in Reloading :
            /\ next = Closing(req, inForce[g])
            /\ next.at = "closing" /\ next.group = req.group /\ next.provider = inForce[g]
      BY <1>3, <3>1, ReloadingCloses
    <3>3. next \in RequestType
      BY DEF RequestType
    <3>4. KeptBy(made, [inForce EXCEPT ![g] = p], [request EXCEPT ![r] = next])
      BY <1>1, <1>2, <1>5, <2>1, <3>2, <3>3, KeptByStarting
    <3> QED BY <1>1, <1>6, <2>1, <3>2, <3>4 DEF Kept, Typed
  <2>2. CASE g = "knowledge" /\ Proceed(r, req, req.group, made)
    <3>1. KeptBy(made, [inForce EXCEPT ![g] = p], [request EXCEPT ![r] = Done])
      BY <1>1, <1>2, <1>5, <1>7, <2>2, KeptByStarting
    <3>2. KeptBy(made, inForce', [request EXCEPT ![r] = Done])
      BY <1>6, <3>1
    <3>3. req.group \in 0 .. 4 /\ settings \in Settings
      BY <1>1, <1>3 DEF Typed
    <3> HIDE DEF req
    <3> QED BY <1>3, <1>5, <1>7, <2>2, <3>2, <3>3, ProceedKeeps
  <2> QED BY <1>6, <2>1, <2>2
<1> QED BY <1>1, <1>6, <1>8 DEF ServicesInv, Typed

LEMMA ClosedKeeps ==
  ASSUME ServicesInv, NEW r \in Requests, Closed(r)
  PROVE  ServicesInv'
<1> DEFINE req == request[r]
           p == req.provider
           gone == [providers[p] EXCEPT !.is = "closed"]
           made == [providers EXCEPT ![p] = gone]
<1>1. Typed /\ Kept
  BY DEF ServicesInv
<1>2. req.at = "closing"
  BY DEF Closed
<1>3. /\ req \in Reloading /\ req.group \in 1 .. 4 /\ p \in 1 .. Len(providers)
      /\ providers \in Seq(Provider) /\ providers[p] \in Provider
  BY <1>1, <1>2, UnderwayType
<1>4. gone \in Provider /\ gone.of = providers[p].of /\ gone.is = "closed"
  BY <1>3, ProviderChanged DEF Condition
<1>5. /\ made \in Seq(Provider) /\ Len(made) = Len(providers)
      /\ made[p].of = providers[p].of /\ made[p].is # "ready"
      /\ \A i \in 1 .. Len(providers) : i # p => made[i] = providers[i]
  BY <1>3, <1>4
<1>6. /\ inForce' = inForce
      /\ Proceed(r, req, req.group, made)
      /\ UNCHANGED <<overrides, file, call, pending, trouble, exposed>>
  BY DEF Closed
<1> HIDE DEF made
<1>7. KeptBy(made, inForce, [request EXCEPT ![r] = Done])
  BY <1>1, <1>2, <1>5, KeptByParting
<1>8. /\ request \in [Requests -> RequestType] /\ req.group \in 0 .. 4 /\ settings \in Settings
      /\ KeptBy(made, inForce', [request EXCEPT ![r] = Done])
  BY <1>1, <1>3, <1>6, <1>7 DEF Kept, KeptBy, TypesOf, Typed
<1>9. Kept' /\ settings' \in Settings
  <2> HIDE DEF req
  <2> QED BY <1>3, <1>5, <1>6, <1>8, ProceedKeeps
<1> QED BY <1>1, <1>6, <1>9 DEF ServicesInv, Typed

LEMMA StartFailsKeeps ==
  ASSUME ServicesInv, NEW r \in Requests, StartFails(r)
  PROVE  ServicesInv'
<1> DEFINE req == request[r]
           p == req.provider
           gone == [providers[p] EXCEPT !.is = "failed"]
           made == [providers EXCEPT ![p] = gone]
<1>1. Typed /\ Kept
  BY DEF ServicesInv
<1>2. req.at = "starting"
  BY DEF StartFails
<1>3. /\ req \in Reloading /\ p \in 1 .. Len(providers)
      /\ providers \in Seq(Provider) /\ providers[p] \in Provider
  BY <1>1, <1>2, UnderwayType
<1>4. gone \in Provider /\ gone.of = providers[p].of /\ gone.is = "failed"
  BY <1>3, ProviderChanged DEF Condition
<1>5. /\ made \in Seq(Provider) /\ Len(made) = Len(providers)
      /\ made[p].of = providers[p].of /\ made[p].is # "ready"
      /\ \A i \in 1 .. Len(providers) : i # p => made[i] = providers[i]
  BY <1>3, <1>4
<1>6. /\ providers' = made /\ inForce' = inForce /\ request' = [request EXCEPT ![r] = Done]
      /\ UNCHANGED <<settings, call, exposed>> /\ trouble' = TRUE /\ pending' \subseteq pending
  BY DEF StartFails
<1> HIDE DEF made
<1>7. KeptBy(made, inForce, [request EXCEPT ![r] = Done])
  BY <1>1, <1>2, <1>5, KeptByParting
<1>8. Kept'
  BY <1>6, <1>7 DEF Kept
<1>9. overrides' \in Overrides /\ file' \in Overrides
  BY <1>1, WithoutType DEF StartFails, Typed
<1> QED BY <1>1, <1>6, <1>8, <1>9 DEF ServicesInv, Typed

LEMMA CallsKeep ==
  ASSUME ServicesInv, NEW c \in Calls, Answer(c) \/ Leave(c)
  PROVE  ServicesInv'
<1>1. Typed /\ Kept
  BY DEF ServicesInv
<1>2. Kept'
  BY <1>1 DEF Answer, Leave, Kept
<1>3. CASE Answer(c)
  <2>1. inForce["llm"] \in Nat
    BY <1>1 DEF Kept, KeptBy, TypesOf, Group
  <2>2. [at |-> "live", llm |-> inForce["llm"]] \in Answered
    BY <2>1 DEF Answered
  <2> QED BY <1>1, <1>2, <1>3, <2>2 DEF ServicesInv, Typed, Answer
<1>4. CASE Leave(c)
  <2>1. [call[c] EXCEPT !.at = "over"] \in Answered
    BY <1>1 DEF Typed, Answered
  <2> QED BY <1>1, <1>2, <1>4, <2>1 DEF ServicesInv, Typed, Leave
<1> QED BY <1>3, <1>4

LEMMA CrashKeeps == ASSUME ServicesInv, Crash PROVE ServicesInv'
<1>1. Typed /\ Kept
  BY DEF ServicesInv
<1>2. /\ overrides' = file /\ file' = file /\ settings' = Layered(file)
      /\ providers' = Booted(file) /\ inForce' = Placed
      /\ trouble' = FALSE /\ exposed' = {}
      /\ request' = [r \in Requests |-> IF Underway(r) THEN Done ELSE request[r]]
      /\ call' = [c \in Calls |-> IF c \in Live THEN [call[c] EXCEPT !.at = "over"] ELSE call[c]]
      /\ pending' = pending \ {"crash"}
  <2> DEFINE b == Boot(file)
  <2>1. /\ b.overrides = file /\ b.file = file /\ b.settings = Layered(file)
        /\ b.providers = Booted(file) /\ b.inForce = Placed
        /\ b.trouble = FALSE /\ b.exposed = {}
    BY BootParts
  <2>2. /\ overrides' = b.overrides /\ file' = b.file /\ settings' = b.settings
        /\ providers' = b.providers /\ inForce' = b.inForce
        /\ trouble' = b.trouble /\ exposed' = b.exposed
        /\ request' = [r \in Requests |-> IF Underway(r) THEN Done ELSE request[r]]
        /\ call' = [c \in Calls |-> IF c \in Live THEN [call[c] EXCEPT !.at = "over"] ELSE call[c]]
        /\ pending' = pending \ {"crash"}
    BY DEF Crash
  <2> HIDE DEF b
  <2> QED BY <2>1, <2>2
<1>3. file \in Overrides /\ Layered(file) \in Settings
  BY <1>1, LayeredType DEF Typed
<1>4. /\ request' \in [Requests -> RequestType]
      /\ \A r \in Requests : request'[r].at \notin {"starting", "closing"}
  <2>1. request \in [Requests -> RequestType]
    BY <1>1 DEF Kept, KeptBy, TypesOf
  <2> QED BY <1>2, <2>1, RequestKinds DEF Underway, RequestType
<1>5. KeptBy(Booted(file), Placed, request')
  BY <1>3, <1>4, KeptByBooting
<1>6. Kept'
  BY <1>2, <1>5 DEF Kept
<1>7. call' \in [Calls -> Answered]
  <2>1. \A c \in Calls : [call[c] EXCEPT !.at = "over"] \in Answered /\ call[c] \in Answered
    BY <1>1 DEF Typed, Answered
  <2> QED BY <1>2, <2>1
<1> QED BY <1>1, <1>2, <1>3, <1>6, <1>7 DEF ServicesInv, Typed

-----------------------------------------------------------------------------
(* The theorems. *)

LEMMA ServicesInvNext == ServicesInv /\ [Next]_vars => ServicesInv'
<1> SUFFICES ASSUME ServicesInv, [Next]_vars PROVE ServicesInv'
  OBVIOUS
<1>1. ASSUME NEW r \in Requests, NEW patch \in Patches, NEW force \in BOOLEAN,
             Put(r, patch, force) \/ PutUnwritten(r, patch, force)
      PROVE  ServicesInv'
  BY <1>1, PutKeeps, PutUnwrittenKeeps
<1>2. ASSUME NEW r \in Requests, NEW keys \in SUBSET Edited, Reset(r, keys)
      PROVE  ServicesInv'
  BY <1>2, ResetKeeps
<1>3. ASSUME NEW r \in Requests, Started(r) \/ Closed(r) \/ StartFails(r)
      PROVE  ServicesInv'
  BY <1>3, StartedKeeps, ClosedKeeps, StartFailsKeeps
<1>4. ASSUME NEW c \in Calls, Answer(c) \/ Leave(c)
      PROVE  ServicesInv'
  BY <1>4, CallsKeep
<1>5. CASE Crash
  BY <1>5, CrashKeeps
<1>6. CASE UNCHANGED vars
  <2>1. Typed'
    BY <1>6 DEF vars, ServicesInv, Typed
  <2>2. Kept'
    BY <1>6 DEF vars, ServicesInv, Kept
  <2> QED BY <2>1, <2>2 DEF ServicesInv
<1> QED BY <1>1, <1>2, <1>3, <1>4, <1>5, <1>6 DEF Next

\* The invariant the theorems rest on: the types, and who holds which provider.
THEOREM ServicesInvariant == Spec => []ServicesInv
BY ServicesInvInit, ServicesInvNext, PTL DEF Spec

LEMMA TypedAll == ServicesInv => TypeOK
<1> SUFFICES ASSUME ServicesInv PROVE TypeOK
  OBVIOUS
<1>1. Typed /\ TypesOf(providers, inForce, request)
  BY DEF ServicesInv, Kept, KeptBy
<1>2. DOMAIN providers = 1 .. Len(providers) /\ \A i \in DOMAIN providers : providers[i] \in Provider
  BY <1>1 DEF TypesOf
<1>3. \A i \in DOMAIN providers :
        /\ providers[i].of \in Group
        /\ providers[i].with \in [Uses(providers[i].of) \cap Edited -> Values]
        /\ providers[i].is \in {"built", "ready", "failed", "closed"}
  BY <1>2, ProviderParts DEF Condition
<1>4. inForce \in [Group -> DOMAIN providers]
  BY <1>1, <1>2 DEF TypesOf
<1>5. \A r \in Requests : request[r].at \in {"idle", "starting", "closing", "done"}
  BY <1>1, RequestKinds DEF TypesOf, RequestType
<1>6. \A c \in Calls : call[c].at \in {"none", "live", "over"}
  BY <1>1 DEF Typed, Answered
<1> QED BY <1>1, <1>3, <1>4, <1>5, <1>6 DEF TypeOK, Typed

\* Every variable keeps its type, for any settings, values, requests and calls.
THEOREM ServicesTyped == Spec => []TypeOK
BY ServicesInvariant, TypedAll, PTL

LEMMA KeptAll == ServicesInv => ProvidersKept
<1> SUFFICES ASSUME ServicesInv PROVE ProvidersKept
  OBVIOUS
<1>1. KeptBy(providers, inForce, request)
  BY DEF ServicesInv, Kept
<1>2. InForceServes
  BY <1>1 DEF KeptBy, Forced, InForceServes
<1>3. ReplacedAreClosed
  <2>1. DOMAIN providers = 1 .. Len(providers)
    BY <1>1 DEF KeptBy, TypesOf
  <2> QED BY <1>1, <2>1 DEF KeptBy, Replaced, ReplacedAreClosed, AtRest, Underway
<1> QED BY <1>2, <1>3 DEF ProvidersKept

\* What is handed out has started and is not closed, and what was replaced is closed
\* once no save is under way, for any settings, values, requests, calls and faults.
THEOREM ProvidersAreKept == Spec => []ProvidersKept
BY ServicesInvariant, KeptAll, PTL

-----------------------------------------------------------------------------
(* Calls and the models they hold. *)

\* A call nothing was let through under finds no save under way, and holds the model
\* in force.
Sheltered == \A c \in Live : c \in exposed \/ (AtRest /\ call[c].llm = inForce["llm"])

LEMMA ShelteredBySaving ==
  ASSUME NEW r \in Requests,
         \/ \E patch \in Patches, force \in BOOLEAN : Put(r, patch, force)
         \/ \E keys \in SUBSET Edited : Reset(r, keys)
  PROVE  Sheltered'
<1>1. call' = call /\ Live' = Live /\ (Live # {} => exposed' = exposed \cup Live)
  BY DEF Put, Reset, Note, LetThrough, Live
<1> QED BY <1>1 DEF Sheltered

LEMMA ShelteredOtherwise ==
  ASSUME ServicesInv, Sheltered, NEW r \in Requests, UNCHANGED <<call, exposed>>,
         \/ request[r].at \in {"starting", "closing"}
         \/ request' = [request EXCEPT ![r] = Done] /\ inForce' = inForce
  PROVE  Sheltered'
<1>1. Live' = Live
  BY DEF Live
<1>2. CASE request[r].at \in {"starting", "closing"}
  BY <1>1, <1>2 DEF Sheltered, AtRest, Underway
<1>3. CASE request' = [request EXCEPT ![r] = Done] /\ inForce' = inForce
  <2>1. request \in [Requests -> RequestType]
    BY DEF ServicesInv, Kept, KeptBy, TypesOf
  <2>2. AtRest => AtRest'
    BY <1>3, <2>1, RequestKinds DEF AtRest, Underway
  <2> QED BY <1>1, <1>3, <2>2 DEF Sheltered
<1> QED BY <1>2, <1>3

LEMMA ShelteredNext == ServicesInv /\ Sheltered /\ [Next]_vars => Sheltered'
<1> SUFFICES ASSUME ServicesInv, Sheltered, [Next]_vars PROVE Sheltered'
  OBVIOUS
<1>0. call \in [Calls -> Answered]
  BY DEF ServicesInv, Typed
<1>1. ASSUME NEW r \in Requests, NEW patch \in Patches, NEW force \in BOOLEAN,
             Put(r, patch, force)
      PROVE  Sheltered'
  BY <1>1, ShelteredBySaving
<1>2. ASSUME NEW r \in Requests, NEW keys \in SUBSET Edited, Reset(r, keys)
      PROVE  Sheltered'
  BY <1>2, ShelteredBySaving
<1>3. ASSUME NEW r \in Requests, NEW patch \in Patches, NEW force \in BOOLEAN,
             PutUnwritten(r, patch, force)
      PROVE  Sheltered'
  BY <1>3, ShelteredOtherwise DEF PutUnwritten
<1>4. ASSUME NEW r \in Requests, Started(r) \/ Closed(r) \/ StartFails(r)
      PROVE  Sheltered'
  <2>1. UNCHANGED <<call, exposed>> /\ request[r].at \in {"starting", "closing"}
    BY <1>4 DEF Started, Closed, StartFails
  <2> QED BY <2>1, ShelteredOtherwise
<1>5. ASSUME NEW c \in Calls, Answer(c)
      PROVE  Sheltered'
  <2>1. /\ call' = [call EXCEPT ![c] = [at |-> "live", llm |-> inForce["llm"]]]
        /\ exposed' = IF AtRest THEN exposed ELSE exposed \cup {c}
        /\ inForce' = inForce /\ request' = request
    BY <1>5 DEF Answer
  <2>2. AtRest' = AtRest
    BY <2>1 DEF AtRest, Underway
  <2>3. ASSUME NEW d \in Live'
        PROVE  d \in exposed' \/ (AtRest' /\ call'[d].llm = inForce'["llm"])
    <3>1. CASE d = c
      BY <1>0, <2>1, <2>2, <3>1
    <3>2. CASE d # c
      <4>1. d \in Live /\ call'[d] = call[d]
        BY <1>0, <2>1, <2>3, <3>2 DEF Live
      <4> QED BY <2>1, <2>2, <4>1 DEF Sheltered
    <3> QED BY <3>1, <3>2
  <2> QED BY <2>3 DEF Sheltered
<1>6. ASSUME NEW c \in Calls, Leave(c)
      PROVE  Sheltered'
  <2>1. /\ call' = [call EXCEPT ![c].at = "over"]
        /\ exposed' = exposed /\ inForce' = inForce /\ request' = request
    BY <1>6 DEF Leave
  <2>2. AtRest' = AtRest
    BY <2>1 DEF AtRest, Underway
  <2>3. \A d \in Live' : d \in Live /\ call'[d] = call[d]
    <3> SUFFICES ASSUME NEW d \in Live' PROVE d \in Live /\ call'[d] = call[d]
      OBVIOUS
    <3>1. d \in Calls /\ call'[d].at = "live"
      BY DEF Live
    <3>2. d # c
      BY <1>0, <2>1, <3>1 DEF Answered
    <3> QED BY <1>0, <2>1, <3>1, <3>2 DEF Live
  <2> QED BY <2>1, <2>2, <2>3 DEF Sheltered
<1>7. CASE Crash
  <2>1. call' = [c \in Calls |-> IF c \in Live THEN [call[c] EXCEPT !.at = "over"] ELSE call[c]]
    BY <1>7 DEF Crash
  <2>2. \A d \in Calls : call'[d].at # "live"
    BY <1>0, <2>1 DEF Live, Answered
  <2> QED BY <2>2 DEF Sheltered, Live
<1>8. CASE UNCHANGED vars
  BY <1>8 DEF vars, Sheltered, Live, AtRest, Underway
<1> QED BY <1>1, <1>2, <1>3, <1>4, <1>5, <1>6, <1>7, <1>8 DEF Next

LEMMA ShelteredAll == ServicesInv /\ Sheltered => CallsUndisturbed
<1> SUFFICES ASSUME ServicesInv, Sheltered, NEW c \in Live,
                    providers[call[c].llm].is = "closed", c \notin exposed
             PROVE  FALSE
  BY DEF CallsUndisturbed
<1>1. call[c].llm = inForce["llm"]
  BY DEF Sheltered
<1>2. providers[inForce["llm"]].is = "ready"
  BY DEF ServicesInv, Kept, KeptBy, Forced, Group
<1> QED BY <1>1, <1>2

\* A call's model is closed under it only by a change that was forced, that was a reset
\* or that began before the call did, for any settings, values, requests and calls.
THEOREM CallsKeepTheirModel == Spec => []CallsUndisturbed
<1>1. Init => Sheltered
  BY DEF Init, Sheltered, Live
<1> QED BY <1>1, ShelteredNext, ShelteredAll, ServicesInvariant, PTL DEF Spec

-----------------------------------------------------------------------------
(* What is saved and what is in effect. *)

TunedTo(p, keys, s) == \A k \in keys \cap DOMAIN p.with : p.with[k] = s[k]

\* After the i-th group of a reload: the groups it has visited are as the new settings
\* say, the others as the old ones do.
Stage(prov, force, req, i) ==
  /\ \A j \in 1 .. 4 :
       TunedTo(prov[force[Groups[j]]], Watches(Groups[j]), IF j <= i THEN req.new ELSE req.old)
  /\ i = 4 => TunedTo(prov[force["knowledge"]], Knobs, req.new)

Reached(req) == IF req.at = "starting" THEN req.group - 1 ELSE req.group

Newly(prov, req) ==
  req.at = "starting" =>
    TunedTo(prov[req.provider], Watches(Groups[req.group]) \cup Knobs, req.new)

Midway(r) ==
  /\ request[r].new = Layered(overrides) /\ request[r].old = settings
  /\ Stage(providers, inForce, request[r], Reached(request[r]))
  /\ Newly(providers, request[r])

InEffect(prov, force, s) == \A g \in Group : TunedTo(prov[force[g]], Watches(g) \cup Knobs, s)

\* One reload at a time, each as far as it says, and none that left anything behind.
Orderly ==
  /\ \A r, s \in Requests : Underway(r) /\ Underway(s) => r = s
  /\ AtRest => settings = Layered(overrides) /\ InEffect(providers, inForce, settings)
  /\ \A r \in Requests : Underway(r) => Midway(r)

Effective == ~trouble => file = overrides /\ Orderly

\* A group that is not rebuilt is the same under the old settings and the new.
LEMMA TunedToBoth ==
  ASSUME NEW g \in Group, NEW p \in Provider, p.of = g, NEW old, NEW new,
         ~Rebuilds(old, new, g), TunedTo(p, Watches(g), old)
  PROVE  TunedTo(p, Watches(g), new)
<1>1. DOMAIN p.with = Uses(g) \cap Edited
  BY ProviderParts
<1> QED BY <1>1 DEF TunedTo, Rebuilds

LEMMA BuildTuned ==
  ASSUME NEW g \in Group, NEW s \in Settings, NEW keys
  PROVE  TunedTo(Build(g, s), keys, s)
<1> DEFINE w == [k \in Uses(g) \cap Edited |-> s[k]]
<1>1. Build(g, s).with = w
  BY BuildType
<1>2. \A k \in keys \cap DOMAIN w : w[k] = s[k]
  OBVIOUS
<1> HIDE DEF w
<1> QED BY <1>1, <1>2 DEF TunedTo

\* Only the retriever has knobs.
LEMMA TunedKnobs ==
  ASSUME NEW g \in Group, g # "knowledge", NEW p \in Provider, p.of = g, NEW s
  PROVE  TunedTo(p, Knobs, s)
<1>1. DOMAIN p.with = Uses(g) \cap Edited
  BY ProviderParts
<1> QED BY <1>1, WatchesUsed DEF TunedTo

LEMMA TurnedTuned ==
  ASSUME NEW made \in Seq(Provider), NEW f \in 1 .. Len(made), made[f].of = "knowledge",
         NEW new \in Settings, TunedTo(made[f], Watches("knowledge"), new)
  PROVE  TunedTo(WithKnobs(made, f, new)[f], Watches("knowledge") \cup Knobs, new)
<1> DEFINE p == made[f]
           q == [p EXCEPT !.with = Turned(p, new)]
<1>0. p \in Provider /\ p.of = "knowledge" /\ TunedTo(p, Watches("knowledge"), new)
  OBVIOUS
<1>1. q.with = Turned(p, new)
  BY TurnedType, ProviderChanged, <1>0
<1>4. WithKnobs(made, f, new) = [made EXCEPT ![f] = q]
  BY DEF WithKnobs
<1> HIDE DEF q
<1>5. WithKnobs(made, f, new)[f] = q
  BY <1>4
<1> HIDE DEF p
<1>2. DOMAIN Turned(p, new) = DOMAIN p.with
  BY DEF Turned
<1>3. ASSUME NEW k \in (Watches("knowledge") \cup Knobs) \cap DOMAIN p.with
      PROVE  Turned(p, new)[k] = new[k]
  BY <1>0 DEF Turned, TunedTo
<1> QED BY <1>1, <1>2, <1>3, <1>5 DEF TunedTo

LEMMA ProceedOrderly ==
  ASSUME NEW r \in Requests, NEW req \in Reloading, NEW i \in 0 .. 4,
         NEW made \in Seq(Provider), inForce' \in [Group -> 1 .. Len(made)],
         request \in [Requests -> RequestType], Proceed(r, req, i, made),
         \A s \in Requests : s # r => ~Underway(s),
         \A g \in Group : made[inForce'[g]].of = g,
         Stage(made, inForce', req, i),
         settings = req.old, req.new = Layered(overrides')
  PROVE  Orderly'
<1>1. /\ req.old \in Settings /\ req.new \in Settings
  BY ReloadingParts
<1>2. \A g \in Group : inForce'[g] \in 1 .. Len(made) /\ made[inForce'[g]] \in Provider
  OBVIOUS
<1>3. ASSUME NEW l \in 1 .. 4, l <= i \/ ~Rebuilds(req.old, req.new, Groups[l])
      PROVE  TunedTo(made[inForce'[Groups[l]]], Watches(Groups[l]), req.new)
  <2> DEFINE g == Groups[l]
             p == made[inForce'[g]]
  <2>1. g \in Group
    BY GroupsType
  <2>2. p \in Provider /\ p.of = g
    BY <1>2, <2>1
  <2>3. TunedTo(p, Watches(g), IF l <= i THEN req.new ELSE req.old)
    BY DEF Stage
  <2> HIDE DEF g, p
  <2>4. TunedTo(p, Watches(g), req.new)
    <3>1. CASE l <= i
      BY <2>3, <3>1
    <3>2. CASE ~(l <= i)
      <4>1. ~Rebuilds(req.old, req.new, g)
        BY <1>3, <3>2 DEF g
      <4>2. TunedTo(p, Watches(g), req.old)
        BY <2>3, <3>2
      <4> QED BY <2>1, <2>2, <4>1, <4>2, TunedToBoth
    <3> QED BY <3>1, <3>2
  <2> QED BY <2>4 DEF g, p
<1>4. CASE GoesOn(r, req, i, made)
  <2>1. PICK j \in 1 .. 4, next \in Reloading :
          /\ i < j /\ \A l \in 1 .. 4 : i < l /\ l < j => ~Rebuilds(req.old, req.new, Groups[l])
          /\ next.at = "starting" /\ next.group = j /\ next.provider = Len(made) + 1
          /\ next.old = req.old /\ next.new = req.new
          /\ providers' = Append(made, Build(Groups[j], req.new))
          /\ request' = [request EXCEPT ![r] = next]
          /\ settings' = settings
    BY <1>4 DEF GoesOn
  <2>2. request'[r] = next /\ \A s \in Requests : s # r => request'[s] = request[s]
    BY <2>1
  <2>3. /\ Underway(r)' /\ \A s \in Requests : s # r => ~Underway(s)'
    BY <2>1, <2>2 DEF Underway
  <2> DEFINE g == Groups[j]
             b == Build(g, req.new)
  <2>4. g \in Group /\ b \in Provider
    BY <1>1, GroupsType, GroupBuilt
  <2> HIDE DEF b
  <2>5. /\ providers'[Len(made) + 1] = b
        /\ \A h \in Group : providers'[inForce'[h]] = made[inForce'[h]]
    BY <1>2, <2>1, <2>4 DEF b
  <2>6. Newly(providers', next)
    <3>1. TunedTo(b, Watches(g) \cup Knobs, req.new)
      BY <1>1, <2>4, BuildTuned DEF b
    <3> QED BY <2>1, <2>5, <3>1 DEF Newly
  <2>7. Stage(providers', inForce', next, j - 1)
    <3>1. ASSUME NEW l \in 1 .. 4
          PROVE  TunedTo(providers'[inForce'[Groups[l]]], Watches(Groups[l]),
                         IF l <= j - 1 THEN next.new ELSE next.old)
      <4> DEFINE h == Groups[l]
      <4>1. h \in Group
        BY GroupsType
      <4>2. providers'[inForce'[h]] = made[inForce'[h]]
        BY <2>5, <4>1
      <4>3. CASE l <= j - 1
        <5>1. l <= i \/ ~Rebuilds(req.old, req.new, Groups[l])
          BY <2>1, <4>3
        <5>2. TunedTo(made[inForce'[h]], Watches(h), req.new)
          BY <1>3, <5>1
        <5> HIDE DEF h
        <5> QED BY <2>1, <4>2, <4>3, <5>2 DEF h
      <4>4. CASE ~(l <= j - 1)
        <5>1. ~(l <= i)
          BY <2>1, <4>4
        <5>2. TunedTo(made[inForce'[h]], Watches(h), req.old)
          BY <5>1 DEF Stage
        <5> HIDE DEF h
        <5> QED BY <2>1, <4>2, <4>4, <5>2 DEF h
      <4> QED BY <4>3, <4>4
    <3>2. j - 1 # 4
      OBVIOUS
    <3> QED BY <3>1, <3>2 DEF Stage
  <2>8. Midway(r)'
    <3>1. Reached(next) = j - 1
      BY <2>1 DEF Reached
    <3> QED BY <2>1, <2>2, <2>6, <2>7, <3>1 DEF Midway
  <2>9. ~AtRest'
    BY <2>3 DEF AtRest
  <2> QED BY <2>3, <2>8, <2>9 DEF Orderly
<1>5. CASE Ends(r, req, i, made)
  <2> DEFINE f == inForce'["knowledge"]
  <2>1. /\ \A l \in 1 .. 4 : l <= i \/ ~Rebuilds(req.old, req.new, Groups[l])
        /\ providers' = IF Rebuilds(req.old, req.new, "knowledge") THEN made
                        ELSE WithKnobs(made, f, req.new)
        /\ request' = [request EXCEPT ![r] = Done]
        /\ settings' = req.new
    BY <1>5 DEF Ends
  <2>2. \A s \in Requests : ~Underway(s)'
    BY <2>1, RequestKinds DEF Underway
  <2>3. ASSUME NEW g \in Group, g # "knowledge"
        PROVE  TunedTo(providers'[inForce'[g]], Watches(g) \cup Knobs, req.new)
    <3> DEFINE p == made[inForce'[g]]
    <3>1. PICK l \in 1 .. 4 : Groups[l] = g
      BY GroupsType
    <3>2. TunedTo(p, Watches(g), req.new)
      BY <1>3, <2>1, <3>1
    <3>3. TunedTo(p, Knobs, req.new)
      BY <1>2, <2>3, TunedKnobs
    <3>4. "knowledge" \in Group /\ inForce'[g] # f
      BY <2>3, KnowledgeGroup
    <3>5. providers'[inForce'[g]] = p
      BY <1>2, <2>1, <3>4 DEF WithKnobs
    <3> HIDE DEF p
    <3> QED BY <3>2, <3>3, <3>5 DEF TunedTo
  <2>4. TunedTo(providers'[f], Watches("knowledge") \cup Knobs, req.new)
    <3> DEFINE p == made[f]
    <3>1. /\ "knowledge" \in Group /\ Groups[4] = "knowledge" /\ 4 \in 1 .. 4
          /\ p \in Provider /\ p.of = "knowledge" /\ f \in 1 .. Len(made)
      BY <1>2, KnowledgeGroup
    <3>2. TunedTo(p, Watches("knowledge"), req.new)
      BY <1>3, <2>1, <3>1
    <3>3. CASE Rebuilds(req.old, req.new, "knowledge")
      <4>1. i = 4
        BY <2>1, <3>1, <3>3
      <4>2. TunedTo(p, Knobs, req.new)
        BY <4>1 DEF Stage
      <4>3. providers'[f] = p
        BY <2>1, <3>3
      <4> HIDE DEF p
      <4> QED BY <3>2, <4>2, <4>3 DEF TunedTo
    <3>4. CASE ~Rebuilds(req.old, req.new, "knowledge")
      <4>1. providers' = WithKnobs(made, f, req.new)
        BY <2>1, <3>4
      <4> HIDE DEF f
      <4> QED BY <1>1, <3>1, <3>2, <4>1, TurnedTuned DEF p
    <3> QED BY <3>3, <3>4
  <2>5. InEffect(providers', inForce', settings')
    BY <2>1, <2>3, <2>4 DEF InEffect
  <2> QED BY <2>1, <2>2, <2>5 DEF Orderly
<1> QED BY <1>4, <1>5, ProceedForms

LEMMA ReloadOrderly ==
  ASSUME NEW r \in Requests, ServicesInv, Orderly, AtRest, request[r] = Idle,
         NEW kind \in {"put", "reset"}, NEW changed \in SUBSET Edited, NEW over \in Overrides,
         overrides' = over, Reload(r, kind, changed, over)
  PROVE  Orderly'
<1> DEFINE req == [at |-> "starting", kind |-> kind, old |-> settings, new |-> Layered(over),
                   changed |-> changed, group |-> 0, provider |-> 0]
<1>1. /\ settings \in Settings /\ providers \in Seq(Provider) /\ 0 \in 0 .. 4
      /\ request \in [Requests -> RequestType] /\ inForce \in [Group -> 1 .. Len(providers)]
      /\ \A g \in Group : providers[inForce[g]].of = g
  BY DEF ServicesInv, Typed, Kept, KeptBy, TypesOf, Forced
<1>2. req \in Reloading /\ req.old = settings /\ req.new = Layered(over)
  BY <1>1, LayeredType DEF Reloading
<1>3. inForce' = inForce /\ Proceed(r, req, 0, providers)
  BY DEF Reload
<1>4. \A s \in Requests : s # r => ~Underway(s)
  BY DEF AtRest
<1> HIDE DEF req
<1>5. Stage(providers, inForce, req, 0)
  <2>1. ASSUME NEW j \in 1 .. 4
        PROVE  TunedTo(providers[inForce[Groups[j]]], Watches(Groups[j]),
                       IF j <= 0 THEN req.new ELSE req.old)
    <3>1. Groups[j] \in Group
      BY GroupsType
    <3>2. TunedTo(providers[inForce[Groups[j]]], Watches(Groups[j]) \cup Knobs, settings)
      BY <3>1 DEF Orderly, InEffect
    <3>3. TunedTo(providers[inForce[Groups[j]]], Watches(Groups[j]), settings)
      BY <3>2 DEF TunedTo
    <3>4. (IF j <= 0 THEN req.new ELSE req.old) = settings
      BY <1>2
    <3> QED BY <3>3, <3>4
  <2> QED BY <2>1 DEF Stage
<1>6. Stage(providers, inForce', req, 0) /\ inForce' \in [Group -> 1 .. Len(providers)]
      /\ \A g \in Group : providers[inForce'[g]].of = g
  BY <1>1, <1>3, <1>5
<1>7. settings = req.old /\ req.new = Layered(overrides')
  BY <1>2
<1> QED BY <1>1, <1>2, <1>3, <1>4, <1>6, <1>7, ProceedOrderly

\* A request that changes nothing.
LEMMA IdlyOrderly ==
  ASSUME NEW r \in Requests, ServicesInv, Orderly, AtRest,
         request' = [request EXCEPT ![r] = Done], overrides' = overrides,
         UNCHANGED <<settings, providers, inForce>>
  PROVE  Orderly'
<1>1. request \in [Requests -> RequestType]
  BY DEF ServicesInv, Kept, KeptBy, TypesOf
<1>2. \A s \in Requests : ~Underway(s)'
  BY <1>1, RequestKinds DEF AtRest, Underway
<1> QED BY <1>2 DEF Orderly, InEffect

LEMMA PutEffective ==
  ASSUME ServicesInv, Effective, NEW r \in Requests, NEW patch \in Patches,
         NEW force \in BOOLEAN, Put(r, patch, force)
  PROVE  Effective'
<1> SUFFICES ASSUME ~trouble' PROVE file' = overrides' /\ Orderly'
  BY DEF Effective
<1>1. /\ request[r] = Idle /\ overrides' = Merged(patch) /\ ~trouble /\ AtRest
  BY DEF Put, Note
<1>2. file = overrides /\ Orderly
  BY <1>1 DEF Effective
<1>3. /\ Merged(patch) \in Overrides /\ Changed(patch) \in SUBSET Edited
      /\ Changed(patch) = {} => Merged(patch) = overrides
  BY MergedType DEF ServicesInv, Typed
<1>4. CASE /\ Changed(patch) = {}
           /\ request' = [request EXCEPT ![r] = Done]
           /\ UNCHANGED <<file, settings, providers, inForce>>
  BY <1>1, <1>2, <1>3, <1>4, IdlyOrderly
<1>5. CASE file' = overrides' /\ Reload(r, "put", Changed(patch), overrides')
  BY <1>1, <1>2, <1>3, <1>5, ReloadOrderly
<1> QED BY <1>4, <1>5 DEF Put

LEMMA ResetEffective ==
  ASSUME ServicesInv, Effective, NEW r \in Requests, NEW keys \in SUBSET Edited, Reset(r, keys)
  PROVE  Effective'
<1> SUFFICES ASSUME ~trouble' PROVE file' = overrides' /\ Orderly'
  BY DEF Effective
<1>1. /\ request[r] = Idle /\ overrides' = Without(overrides, keys) /\ ~trouble /\ AtRest
  BY DEF Reset, Note
<1>2. file = overrides /\ Orderly
  BY <1>1 DEF Effective
<1>3. Without(overrides, keys) \in Overrides
  BY WithoutType DEF ServicesInv, Typed
<1>4. CASE /\ overrides' = overrides
           /\ request' = [request EXCEPT ![r] = Done]
           /\ UNCHANGED <<file, settings, providers, inForce>>
  BY <1>1, <1>2, <1>4, IdlyOrderly
<1>5. CASE file' = overrides' /\ Reload(r, "reset", keys, overrides')
  BY <1>1, <1>2, <1>3, <1>5, ReloadOrderly
<1> QED BY <1>4, <1>5 DEF Reset

\* Where the providers of a stage only change in condition, the stage is the same.
LEMMA StageCarried ==
  ASSUME NEW prov \in Seq(Provider), NEW made \in Seq(Provider),
         NEW force \in [Group -> 1 .. Len(prov)],
         \A i \in 1 .. Len(prov) : made[i].with = prov[i].with,
         NEW req, NEW i \in 0 .. 4, Stage(prov, force, req, i)
  PROVE  Stage(made, force, req, i)
<1>1. \A g \in Group : made[force[g]].with = prov[force[g]].with
  OBVIOUS
<1>2. ASSUME NEW j \in 1 .. 4
      PROVE  TunedTo(made[force[Groups[j]]], Watches(Groups[j]),
                     IF j <= i THEN req.new ELSE req.old)
  <2>1. Groups[j] \in Group
    BY GroupsType
  <2>2. TunedTo(prov[force[Groups[j]]], Watches(Groups[j]),
                IF j <= i THEN req.new ELSE req.old)
    BY DEF Stage
  <2> QED BY <1>1, <2>1, <2>2 DEF TunedTo
<1>3. i = 4 => TunedTo(made[force["knowledge"]], Knobs, req.new)
  BY <1>1, KnowledgeGroup DEF Stage, TunedTo
<1> QED BY <1>2, <1>3 DEF Stage

LEMMA ClosedEffective ==
  ASSUME ServicesInv, Effective, NEW r \in Requests, Closed(r)
  PROVE  Effective'
<1> SUFFICES ASSUME ~trouble' PROVE file' = overrides' /\ Orderly'
  BY DEF Effective
<1> DEFINE req == request[r]
           p == req.provider
           gone == [providers[p] EXCEPT !.is = "closed"]
           made == [providers EXCEPT ![p] = gone]
<1>1. /\ req.at = "closing" /\ inForce' = inForce /\ Proceed(r, req, req.group, made)
      /\ file' = file /\ overrides' = overrides /\ ~trouble
  BY DEF Closed
<1>2. /\ req \in Reloading /\ req.group \in 1 .. 4 /\ p \in 1 .. Len(providers)
      /\ providers \in Seq(Provider) /\ providers[p] \in Provider
  BY <1>1, UnderwayType DEF ServicesInv
<1>3. gone \in Provider /\ gone.of = providers[p].of /\ gone.with = providers[p].with
  BY <1>2, ProviderChanged DEF Condition
<1>4. /\ made \in Seq(Provider) /\ Len(made) = Len(providers)
      /\ \A i \in 1 .. Len(providers) :
           made[i].of = providers[i].of /\ made[i].with = providers[i].with
  BY <1>2, <1>3
<1> HIDE DEF made
<1>5. /\ request \in [Requests -> RequestType] /\ inForce \in [Group -> 1 .. Len(providers)]
      /\ \A g \in Group : providers[inForce[g]].of = g
  BY DEF ServicesInv, Kept, KeptBy, TypesOf, Forced
<1>6. file = overrides /\ Orderly /\ Underway(r)
  BY <1>1 DEF Effective, Underway
<1>7. /\ \A s \in Requests : s # r => ~Underway(s)
      /\ settings = req.old /\ req.new = Layered(overrides')
      /\ Stage(providers, inForce, req, Reached(req))
  BY <1>1, <1>6 DEF Orderly, Midway
<1>8. Reached(req) = req.group /\ req.group \in 0 .. 4
  BY <1>1, <1>2 DEF Reached
<1>9. Stage(made, inForce', req, req.group)
  <2>1. Stage(providers, inForce, req, req.group)
    BY <1>7, <1>8
  <2> HIDE DEF req
  <2> QED BY <1>1, <1>2, <1>4, <1>5, <1>8, <2>1, StageCarried
<1>10. inForce' \in [Group -> 1 .. Len(made)] /\ \A g \in Group : made[inForce'[g]].of = g
  BY <1>1, <1>4, <1>5
<1> HIDE DEF req
<1>11. Orderly'
  BY <1>1, <1>2, <1>4, <1>5, <1>7, <1>8, <1>9, <1>10, ProceedOrderly
<1> QED BY <1>1, <1>6, <1>11

LEMMA StartedEffective ==
  ASSUME ServicesInv, Effective, NEW r \in Requests, Started(r)
  PROVE  Effective'
<1> SUFFICES ASSUME ~trouble' PROVE file' = overrides' /\ Orderly'
  BY DEF Effective
<1> DEFINE req == request[r]
           p == req.provider
           g == Groups[req.group]
           made == [providers EXCEPT ![p] = Ready(providers[p])]
<1>1. /\ req.at = "starting" /\ inForce' = [inForce EXCEPT ![g] = p]
      /\ file' = file /\ overrides' = overrides /\ ~trouble
      /\ \/ /\ g # "knowledge" /\ providers' = made
            /\ request' = [request EXCEPT ![r] = Closing(req, inForce[g])]
            /\ settings' = settings
         \/ g = "knowledge" /\ Proceed(r, req, req.group, made)
  BY DEF Started, Closing
<1>2. /\ req \in Reloading /\ req.group \in 1 .. 4 /\ p \in 1 .. Len(providers)
      /\ providers \in Seq(Provider) /\ providers[p] \in Provider
  BY <1>1, UnderwayType DEF ServicesInv
<1>3. /\ Ready(providers[p]) \in Provider /\ Ready(providers[p]).of = providers[p].of
      /\ Ready(providers[p]).with = providers[p].with
  BY <1>2, ProviderChanged DEF Ready, Condition
<1>4. /\ made \in Seq(Provider) /\ Len(made) = Len(providers)
      /\ \A i \in 1 .. Len(providers) :
           made[i].of = providers[i].of /\ made[i].with = providers[i].with
  BY <1>2, <1>3
<1> HIDE DEF made
<1>5. /\ request \in [Requests -> RequestType] /\ inForce \in [Group -> 1 .. Len(providers)]
      /\ \A h \in Group : providers[inForce[h]].of = h
      /\ providers[p].of = g /\ g \in Group
  BY <1>1, <1>2, GroupsType DEF ServicesInv, Kept, KeptBy, TypesOf, Forced, Newcomers
<1>6. file = overrides /\ Orderly /\ Underway(r)
  BY <1>1 DEF Effective, Underway
<1>7. /\ \A s \in Requests : s # r => ~Underway(s)
      /\ settings = req.old /\ req.new = Layered(overrides')
      /\ Stage(providers, inForce, req, Reached(req)) /\ Newly(providers, req)
  BY <1>1, <1>6 DEF Orderly, Midway
<1>8. Reached(req) = req.group - 1 /\ req.group - 1 \in 0 .. 4 /\ req.group \in 0 .. 4
  BY <1>1, <1>2 DEF Reached
<1>9. TunedTo(made[p], Watches(g) \cup Knobs, req.new)
  BY <1>1, <1>2, <1>4, <1>7 DEF Newly, TunedTo
<1>10. Stage(made, inForce, req, req.group - 1)
  <2>1. Stage(providers, inForce, req, req.group - 1)
    BY <1>7, <1>8
  <2> HIDE DEF req
  <2> QED BY <1>2, <1>4, <1>5, <1>8, <2>1, StageCarried
<1>11. /\ inForce' \in [Group -> 1 .. Len(made)] /\ \A h \in Group : made[inForce'[h]].of = h
       /\ inForce'[g] = p /\ \A h \in Group : h # g => inForce'[h] = inForce[h]
  BY <1>1, <1>2, <1>4, <1>5
<1>12. Stage(made, inForce', req, req.group)
  <2>1. ASSUME NEW j \in 1 .. 4
        PROVE  TunedTo(made[inForce'[Groups[j]]], Watches(Groups[j]),
                       IF j <= req.group THEN req.new ELSE req.old)
    <3> DEFINE h == Groups[j]
    <3>1. h \in Group
      BY GroupsType
    <3>2. CASE j = req.group
      <4>1. TunedTo(made[p], Watches(g), req.new)
        BY <1>9 DEF TunedTo
      <4> QED BY <1>2, <1>11, <3>2, <4>1
    <3>3. CASE j # req.group
      <4>1. h # g
        BY <1>2, <3>3, GroupsType
      <4>2. TunedTo(made[inForce[h]], Watches(h), IF j <= req.group - 1 THEN req.new ELSE req.old)
        BY <1>10 DEF Stage
      <4>3. j <= req.group - 1 <=> j <= req.group
        BY <1>2, <3>3
      <4>4. inForce'[h] = inForce[h]
        BY <1>11, <3>1, <4>1
      <4> HIDE DEF h, req
      <4>5. TunedTo(made[inForce'[h]], Watches(h), IF j <= req.group THEN req.new ELSE req.old)
        BY <4>2, <4>3, <4>4
      <4> QED BY <4>5 DEF h
    <3> QED BY <3>2, <3>3
  <2>2. req.group = 4 => TunedTo(made[inForce'["knowledge"]], Knobs, req.new)
    <3> SUFFICES ASSUME req.group = 4 PROVE TunedTo(made[inForce'["knowledge"]], Knobs, req.new)
      OBVIOUS
    <3>1. g = "knowledge"
      BY KnowledgeGroup
    <3>2. TunedTo(made[p], Knobs, req.new)
      BY <1>9 DEF TunedTo
    <3> QED BY <1>11, <3>1, <3>2
  <2> QED BY <2>1, <2>2 DEF Stage
<1>13. Orderly'
  <2>1. CASE g # "knowledge" /\ providers' = made
             /\ request' = [request EXCEPT ![r] = Closing(req, inForce[g])] /\ settings' = settings
    <3>1. inForce[g] \in Nat
      BY <1>5
    <3>2. PICK next \in Reloading :
            /\ next = Closing(req, inForce[g])
            /\ next.at = "closing" /\ next.group = req.group /\ next.provider = inForce[g]
            /\ next.old = req.old /\ next.new = req.new
      BY <1>2, <3>1, ReloadingCloses
    <3>3. request'[r] = next /\ \A s \in Requests : s # r => request'[s] = request[s]
      BY <1>5, <2>1, <3>2
    <3>4. Underway(r)' /\ \A s \in Requests : s # r => ~Underway(s)'
      BY <1>7, <3>2, <3>3 DEF Underway
    <3>5. Stage(providers', inForce', next, req.group)
      BY <1>12, <2>1, <3>2 DEF Stage
    <3>6. Reached(next) = req.group /\ Newly(providers', next)
      BY <3>2 DEF Reached, Newly
    <3>7. Midway(r)'
      BY <1>7, <2>1, <3>2, <3>3, <3>5, <3>6 DEF Midway
    <3> QED BY <3>4, <3>7 DEF Orderly, AtRest
  <2>2. CASE g = "knowledge" /\ Proceed(r, req, req.group, made)
    <3> HIDE DEF req
    <3> QED BY <1>2, <1>4, <1>5, <1>7, <1>8, <1>11, <1>12, <2>2, ProceedOrderly
  <2> QED BY <1>1, <2>1, <2>2
<1> QED BY <1>1, <1>6, <1>13

LEMMA BootedInEffect ==
  ASSUME NEW over \in Overrides
  PROVE  InEffect(Booted(over), Placed, Layered(over))
<1> SUFFICES ASSUME NEW g \in Group
             PROVE  TunedTo(Booted(over)[Placed[g]], Watches(g) \cup Knobs, Layered(over))
  BY DEF InEffect
<1> DEFINE i == Placed[g]
           w == [k \in Uses(Groups[i]) \cap Edited |-> Layered(over)[k]]
<1>1. i \in 1 .. 4
  BY PlacedType
<1> HIDE DEF i
<1>2. Booted(over)[i].with = w
  BY <1>1, BootedType
<1>3. \A k \in DOMAIN w : w[k] = Layered(over)[k]
  OBVIOUS
<1> HIDE DEF w
<1>4. TunedTo(Booted(over)[i], Watches(g) \cup Knobs, Layered(over))
  BY <1>2, <1>3 DEF TunedTo
<1> QED BY <1>4 DEF i

LEMMA CrashEffective == ASSUME ServicesInv, Crash PROVE Effective'
<1> DEFINE b == Boot(file)
<1>1. /\ b.overrides = file /\ b.file = file /\ b.settings = Layered(file)
      /\ b.providers = Booted(file) /\ b.inForce = Placed
  BY BootParts
<1>2. /\ overrides' = b.overrides /\ file' = b.file /\ settings' = b.settings
      /\ providers' = b.providers /\ inForce' = b.inForce
      /\ request' = [r \in Requests |-> IF Underway(r) THEN Done ELSE request[r]]
  BY DEF Crash
<1> HIDE DEF b
<1>3. \A r \in Requests : ~Underway(r)'
  BY <1>2, RequestKinds DEF Underway
<1>4. file \in Overrides
  BY DEF ServicesInv, Typed
<1>5. InEffect(Booted(file), Placed, Layered(file))
  BY <1>4, BootedInEffect
<1> QED BY <1>1, <1>2, <1>3, <1>5 DEF Effective, Orderly

LEMMA EffectiveNext == ServicesInv /\ Effective /\ [Next]_vars => Effective'
<1> SUFFICES ASSUME ServicesInv, Effective, [Next]_vars PROVE Effective'
  OBVIOUS
<1>1. ASSUME NEW r \in Requests, NEW patch \in Patches, NEW force \in BOOLEAN,
             Put(r, patch, force) \/ PutUnwritten(r, patch, force)
      PROVE  Effective'
  BY <1>1, PutEffective DEF PutUnwritten, Effective
<1>2. ASSUME NEW r \in Requests, NEW keys \in SUBSET Edited, Reset(r, keys)
      PROVE  Effective'
  BY <1>2, ResetEffective
<1>3. ASSUME NEW r \in Requests, Started(r) \/ Closed(r)
      PROVE  Effective'
  BY <1>3, StartedEffective, ClosedEffective
<1>4. ASSUME NEW r \in Requests, StartFails(r)
      PROVE  Effective'
  BY <1>4 DEF StartFails, Effective
<1>5. CASE UNCHANGED <<overrides, file, settings, providers, inForce, request, trouble>>
  BY <1>5 DEF Effective, Orderly, AtRest, Underway, Midway, InEffect
<1>6. ASSUME NEW c \in Calls, Answer(c) \/ Leave(c)
      PROVE  Effective'
  BY <1>5, <1>6 DEF Answer, Leave
<1>7. CASE Crash
  BY <1>7, CrashEffective
<1>8. CASE UNCHANGED vars
  BY <1>5, <1>8 DEF vars
<1> QED BY <1>1, <1>2, <1>3, <1>4, <1>6, <1>7, <1>8 DEF Next

LEMMA EffectiveInit == Init => Effective
<1> SUFFICES ASSUME Init PROVE Effective
  OBVIOUS
<1> DEFINE none == [k \in {} |-> Baseline]
           b == Boot(none)
<1>1. none \in Overrides
  <2>1. {} \in SUBSET Edited /\ none \in [{} -> Values]
    OBVIOUS
  <2> HIDE DEF none
  <2> QED BY <2>1, OverridesMade
<1>2. /\ overrides = b.overrides /\ file = b.file /\ settings = b.settings
      /\ providers = b.providers /\ inForce = b.inForce
      /\ request = [r \in Requests |-> Idle]
  BY DEF Init
<1> HIDE DEF none
<1>3. /\ b.overrides = none /\ b.file = none /\ b.settings = Layered(none)
      /\ b.providers = Booted(none) /\ b.inForce = Placed
  BY BootParts
<1> HIDE DEF b
<1>4. InEffect(Booted(none), Placed, Layered(none))
  BY <1>1, BootedInEffect
<1>5. \A r \in Requests : ~Underway(r)
  BY <1>2, RequestKinds DEF Underway
<1> QED BY <1>2, <1>3, <1>4, <1>5 DEF Effective, Orderly

LEMMA EffectiveAll == ServicesInv /\ Effective => SavesTakeEffect
BY DEF Effective, Orderly, InEffect, TunedTo, SavesTakeEffect

\* Once no save is under way, and unless one failed or met another, the file, the store,
\* the settings and the providers agree, for any settings, values, requests and calls.
THEOREM SavesHaveTakenEffect == Spec => []SavesTakeEffect
BY ServicesInvariant, EffectiveInit, EffectiveNext, EffectiveAll, PTL DEF Spec

-----------------------------------------------------------------------------
(* The agent: its window, its turn and what it files. *)
\* A set of naturals has a least element.
LEMMA LeastNatural ==
  ASSUME NEW T \in SUBSET Nat, T # {}
  PROVE  \E x \in T : \A y \in T : x <= y
<1> DEFINE R == OpToRel(<, Nat)
<1>1. IsWellFoundedOn(R, Nat)
  BY NatLessThanWellFounded, Zenon
<1>2. PICK x \in T : \A y \in T : <<y, x>> \notin R
  <2> HIDE DEF R
  <2> QED BY <1>1, WFMin, Zenon
<1>3. \A y \in T : ~(y < x)
  BY <1>2, Zenon DEF OpToRel
<1> QED BY <1>3

LEMMA LimitType == Limit \in Nat
  BY AgentAssumption DEF Limit

\* The window starts at the first message that is not trimmed.
LEMMA WindowStartFirst ==
  ASSUME NEW h \in Seq(Message)
  PROVE  /\ WindowStart(h) \in 1 .. Len(h) + 1
         /\ Len(h) <= Limit => WindowStart(h) = 1
         /\ Len(h) > Limit =>
              /\ WindowStart(h) >= Len(h) - Limit + 1
              /\ \A j \in Len(h) - Limit + 1 .. WindowStart(h) - 1 : Trimmed(h[j])
              /\ WindowStart(h) <= Len(h) => ~Trimmed(h[WindowStart(h)])
<1>1. Len(h) \in Nat
  BY LenProperties
<1>2. CASE Len(h) <= Limit
  BY <1>1, <1>2, LimitType DEF WindowStart
<1>3. CASE Len(h) > Limit
  <2> DEFINE T == {i \in Len(h) - Limit + 1 .. Len(h) + 1 : i <= Len(h) => ~Trimmed(h[i])}
             First(i) == /\ \A j \in Len(h) - Limit + 1 .. i - 1 : Trimmed(h[j])
                         /\ i <= Len(h) => ~Trimmed(h[i])
  <2>1. T \in SUBSET Nat /\ T # {}
    <3>1. Len(h) + 1 \in T
      BY <1>1, LimitType
    <3> QED BY <1>1, <1>3, <3>1, LimitType
  <2>2. PICK i \in T : \A j \in T : i <= j
    BY <2>1, LeastNatural
  <2>3. First(i)
    BY <1>1, <2>2, LimitType
  <2>4. WindowStart(h) = CHOOSE n \in Len(h) - Limit + 1 .. Len(h) + 1 : First(n)
    BY <1>1, <1>3, LimitType DEF WindowStart
  <2>5. WindowStart(h) \in Len(h) - Limit + 1 .. Len(h) + 1 /\ First(WindowStart(h))
    <3> HIDE DEF First
    <3> QED BY <2>2, <2>3, <2>4
  <2> QED BY <1>1, <1>3, <2>5, LimitType
<1> QED BY <1>1, <1>2, <1>3, LimitType

-----------------------------------------------------------------------------
\* Every result in the history comes after the message that called it.
ResultsCalled ==
  \A i \in 1 .. Len(history) :
    history[i].role = "tool" => \E j \in 1 .. i : CalledAt(history, i, j)

\* While tools run, the last message that calls some has as many results after
\* it as calls that ran.
CallsOpen ==
  phase = "tools" =>
    \E j \in 1 .. Len(history) :
      /\ history[j].role = "assistant"
      /\ history[j].calls = Len(history) - j + Len(toRun)
      /\ \A k \in j + 1 .. Len(history) : history[k].role = "tool"

\* How far the caller's question may lie behind.
Behind == iteration * (1 + MaxCalls)
QuestionNear ==
  phase \in {"asking", "tools"} =>
    /\ iteration < MaxIterations
    /\ \E q \in 1 .. Len(history) :
         /\ history[q].role = "user"
         /\ \A j \in q + 1 .. Len(history) : history[j].role # "user"
         /\ IF phase = "asking" THEN Len(history) - q <= Behind
            ELSE Len(history) - q + Len(toRun) <= Behind + 1 + MaxCalls

\* What ran is recorded, or is still to be by the turn that ran it.
Accounted ==
  /\ phase \in {"asking", "tools"} => record.tools + invoked = ran
  /\ phase \in {"listening", "replying", "apologising"} => record.tools = ran
  /\ phase = "listening" /\ control.action # None => Over

\* A reference goes with the dispositions that need one, on their way into the
\* record.
Referenced ==
  /\ state.disposition \in NeedsReference => state.reference
  /\ control.disposition \in NeedsReference => control.reference
  /\ record.disposition \in NeedsReference => record.reference

AgentInv ==
  AgentTypeOK /\ ResultsCalled /\ CallsOpen /\ QuestionNear /\ Accounted /\ Referenced

-----------------------------------------------------------------------------
LEMMA MessageTypes ==
  /\ Result \in Message
  /\ \A r \in {"user", "assistant", "tool"} : Says(r) \in Message
  /\ \A w \in BOOLEAN : [Says("assistant") EXCEPT !.words = w] \in Message
  /\ \A w \in BOOLEAN, n \in 1 .. MaxCalls :
       [role |-> "assistant", words |-> w, calls |-> n] \in Message
BY AgentAssumption DEF Result, Says, Message

LEMMA Appended ==
  ASSUME NEW S, NEW h \in Seq(S), NEW m \in S
  PROVE  /\ Append(h, m) \in Seq(S)
         /\ Len(Append(h, m)) = Len(h) + 1
         /\ \A i \in 1 .. Len(h) : Append(h, m)[i] = h[i]
         /\ Append(h, m)[Len(h) + 1] = m
BY AppendProperties

LEMMA RecordsType ==
  ASSUME AgentTypeOK
  PROVE  /\ Records \in [outcome : Outcome, disposition : Disposition \cup {None},
                         reference : BOOLEAN, tools : Nat]
         /\ Records.tools = record.tools + invoked
         /\ Records.outcome = record.outcome
         /\ Records.disposition = record.disposition
         /\ Records.reference = record.reference
BY DEF AgentTypeOK, Records

LEMMA TypeInit == AgentInit => AgentTypeOK
<1> SUFFICES ASSUME AgentInit PROVE AgentTypeOK
  OBVIOUS
<1>1. history \in Seq(Message) /\ toRun \in Seq(Call)
  BY EmptySeq DEF AgentInit
<1>2. 0 \in 0 .. MaxIterations
  BY AgentAssumption
<1> QED BY <1>1, <1>2 DEF AgentInit, AgentTypeOK, NoControl, Action, Outcome

LEMMA TypeNext == AgentTypeOK /\ [AgentNext]_agentVars => AgentTypeOK'
<1> SUFFICES ASSUME AgentTypeOK, [AgentNext]_agentVars PROVE AgentTypeOK'
  OBVIOUS
<1> USE DEF AgentTypeOK
<1>1. CASE TurnBegins
  <2>1. history' \in Seq(Message)
    BY <1>1, MessageTypes, Appended DEF TurnBegins
  <2> QED BY <1>1, <2>1, AgentAssumption DEF TurnBegins, NoControl, Action
<1>2. CASE Answers
  <2>1. history' \in Seq(Message)
    BY <1>2, MessageTypes, Appended DEF Answers
  <2> QED BY <1>2, <2>1, RecordsType DEF Answers
<1>3. CASE CallsTools
  <2>1. history' \in Seq(Message) /\ toRun' \in Seq(Call)
    <3>1. PICK n \in 1 .. MaxCalls, w \in BOOLEAN :
            /\ toRun' \in [1 .. n -> Call]
            /\ history' = Append(history, [role |-> "assistant", words |-> w, calls |-> n])
      BY <1>3 DEF CallsTools
    <3>2. n \in Nat
      BY AgentAssumption
    <3>3. toRun' \in Seq(Call)
      BY <3>1, <3>2
    <3> QED BY <3>1, <3>3, MessageTypes, Appended
  <2> QED BY <1>3, <2>1 DEF CallsTools
<1>4. CASE ToolRuns
  <2>1. history' \in Seq(Message)
    BY <1>4, MessageTypes, Appended DEF ToolRuns
  <2>2. Head(toRun) \in Call /\ Tail(toRun) \in Seq(Call)
    BY <1>4, HeadTailProperties DEF ToolRuns
  <2>3. StateAfter(Head(toRun)) \in [disposition : AgentSet \cup {None}, reference : BOOLEAN]
    BY <2>2 DEF StateAfter, Accepted, Call
  <2>4. ControlAfter(Head(toRun))
          \in [action : Action, disposition : AgentSet \cup {None}, reference : BOOLEAN]
    BY <2>2 DEF ControlAfter, Action
  <2> QED BY <1>4, <2>1, <2>2, <2>3, <2>4 DEF ToolRuns
<1>5. CASE AsksAgain
  BY <1>5, AgentAssumption DEF AsksAgain
<1>6. CASE GivesUp
  <2>1. history' \in Seq(Message)
    BY <1>6, MessageTypes, Appended DEF GivesUp
  <2>2. control' \in [action : Action, disposition : AgentSet \cup {None}, reference : BOOLEAN]
    BY <1>6 DEF GivesUp, Action
  <2> QED BY <1>6, <2>1, <2>2, RecordsType, AgentAssumption DEF GivesUp
<1>7. CASE Fails
  <2>1. history' \in Seq(Message) /\ toRun' \in Seq(Call)
    BY <1>7, MessageTypes, Appended, EmptySeq DEF Fails
  <2> QED BY <1>7, <2>1, RecordsType DEF Fails
<1>8. CASE Acts
  <2>1. CarriesOut \in [outcome : Outcome, disposition : Disposition \cup {None},
                        reference : BOOLEAN, tools : Nat]
    BY DEF CarriesOut, HungUp, Outcome, Disposition
  <2> QED BY <1>8, <2>1 DEF Acts
<1>9. CASE HangsUp
  <2>1. record' \in [outcome : Outcome, disposition : Disposition \cup {None},
                     reference : BOOLEAN, tools : Nat]
    BY <1>9 DEF HangsUp, HungUp, Outcome
  <2> QED BY <1>9, <2>1 DEF HangsUp
<1>10. CASE Finish
  <2>1. record' \in [outcome : Outcome, disposition : Disposition \cup {None},
                     reference : BOOLEAN, tools : Nat]
    BY <1>10, AgentAssumption DEF Finish, Platform, Disposition
  <2>2. toRun' \in Seq(Call)
    BY <1>10, EmptySeq DEF Finish
  <2> QED BY <1>10, <2>1, <2>2 DEF Finish
<1>11. CASE UNCHANGED agentVars
  BY <1>11 DEF agentVars
<1> QED
  BY <1>1, <1>2, <1>3, <1>4, <1>5, <1>6, <1>7, <1>8, <1>9, <1>10, <1>11 DEF AgentNext, TurnStep

-----------------------------------------------------------------------------
LEMMA AccountedNext == AgentTypeOK /\ Accounted /\ [AgentNext]_agentVars => Accounted'
<1> SUFFICES ASSUME AgentTypeOK, Accounted, [AgentNext]_agentVars PROVE Accounted'
  OBVIOUS
<1> USE DEF AgentTypeOK, Accounted
<1>1. CASE TurnBegins
  BY <1>1 DEF TurnBegins, NoControl
<1>2. CASE Answers
  BY <1>2, RecordsType DEF Answers
<1>3. CASE CallsTools
  BY <1>3 DEF CallsTools
<1>4. CASE ToolRuns
  BY <1>4 DEF ToolRuns
<1>5. CASE AsksAgain
  BY <1>5 DEF AsksAgain
<1>6. CASE GivesUp
  BY <1>6, RecordsType DEF GivesUp
<1>7. CASE Fails
  BY <1>7, RecordsType DEF Fails, Waits
<1>8. CASE Acts
  <2>1. CarriesOut.tools = record.tools
    BY DEF CarriesOut, HungUp
  <2>2. control.action # None => CarriesOut.outcome # "in_progress"
    BY DEF CarriesOut, HungUp, Action
  <2> QED BY <1>8, <2>1, <2>2 DEF Acts, Over
<1>9. CASE HangsUp
  BY <1>9 DEF HangsUp, HungUp, Over
<1>10. CASE Finish
  BY <1>10 DEF Finish
<1>11. CASE UNCHANGED agentVars
  BY <1>11 DEF agentVars, Over
<1> QED
  BY <1>1, <1>2, <1>3, <1>4, <1>5, <1>6, <1>7, <1>8, <1>9, <1>10, <1>11 DEF AgentNext, TurnStep

LEMMA ReferencedNext == AgentTypeOK /\ Referenced /\ [AgentNext]_agentVars => Referenced'
<1> SUFFICES ASSUME AgentTypeOK, Referenced, [AgentNext]_agentVars PROVE Referenced'
  OBVIOUS
<1> USE DEF AgentTypeOK, Referenced
<1>1. CASE TurnBegins
  BY <1>1, AgentAssumption DEF TurnBegins, NoControl
<1>2. CASE Answers
  BY <1>2, RecordsType DEF Answers
<1>3. CASE CallsTools
  BY <1>3 DEF CallsTools
<1>4. CASE ToolRuns
  <2>1. Head(toRun) \in Call
    BY <1>4, HeadTailProperties DEF ToolRuns
  <2>2. StateAfter(Head(toRun)).disposition \in NeedsReference
          => StateAfter(Head(toRun)).reference
    BY <2>1 DEF StateAfter, Accepted, Call
  <2>3. ControlAfter(Head(toRun)).disposition \in NeedsReference
          => ControlAfter(Head(toRun)).reference
    BY DEF ControlAfter
  <2> QED BY <1>4, <2>2, <2>3 DEF ToolRuns
<1>5. CASE AsksAgain
  BY <1>5 DEF AsksAgain
<1>6. CASE GivesUp
  BY <1>6, RecordsType DEF GivesUp
<1>7. CASE Fails
  BY <1>7, RecordsType DEF Fails
<1>8. CASE Acts
  <2>1. CarriesOut.disposition \in NeedsReference => CarriesOut.reference
    BY DEF CarriesOut, HungUp
  <2> QED BY <1>8, <2>1 DEF Acts
<1>9. CASE HangsUp
  BY <1>9 DEF HangsUp, HungUp
<1>10. CASE Finish
  BY <1>10, AgentAssumption DEF Finish, Platform
<1>11. CASE UNCHANGED agentVars
  BY <1>11 DEF agentVars
<1> QED
  BY <1>1, <1>2, <1>3, <1>4, <1>5, <1>6, <1>7, <1>8, <1>9, <1>10, <1>11 DEF AgentNext, TurnStep

-----------------------------------------------------------------------------
\* The history: what is appended leaves what was there as it was.
HistoryInv == ResultsCalled /\ CallsOpen /\ QuestionNear

LEMMA CalledStays ==
  ASSUME NEW h \in Seq(Message), NEW m \in Message,
         NEW i \in 1 .. Len(h), NEW j \in 1 .. i, CalledAt(h, i, j)
  PROVE  CalledAt(Append(h, m), i, j)
<1>1. \A k \in 1 .. Len(h) : Append(h, m)[k] = h[k]
  BY Appended
<1>2. Len(h) \in Nat
  BY LenProperties
<1> QED BY <1>1, <1>2 DEF CalledAt

\* A message that is no result needs no call.
LEMMA ResultsCalledAppend ==
  ASSUME AgentTypeOK, ResultsCalled, NEW m \in Message, history' = Append(history, m),
         m.role # "tool"
  PROVE  ResultsCalled'
<1>1. Len(history) \in Nat
  BY LenProperties DEF AgentTypeOK
<1>2. /\ Len(history') = Len(history) + 1
      /\ \A i \in 1 .. Len(history) : history'[i] = history[i]
      /\ history'[Len(history) + 1] = m
  BY Appended DEF AgentTypeOK
<1>3. ASSUME NEW i \in 1 .. Len(history'), history'[i].role = "tool"
      PROVE  \E j \in 1 .. i : CalledAt(history', i, j)
  <2>1. i \in 1 .. Len(history) /\ history[i].role = "tool"
    BY <1>1, <1>2, <1>3
  <2>2. PICK j \in 1 .. i : CalledAt(history, i, j)
    BY <2>1 DEF ResultsCalled
  <2> QED BY <2>1, <2>2, CalledStays DEF AgentTypeOK
<1> QED BY <1>3 DEF ResultsCalled

LEMMA ResultsCalledNext ==
  AgentTypeOK /\ ResultsCalled /\ CallsOpen /\ [AgentNext]_agentVars => ResultsCalled'
<1> SUFFICES ASSUME AgentTypeOK, ResultsCalled, CallsOpen, [AgentNext]_agentVars PROVE ResultsCalled'
  OBVIOUS
<1>1. CASE TurnBegins
  BY <1>1, ResultsCalledAppend, MessageTypes DEF TurnBegins, Says
<1>2. CASE Answers
  <2>1. PICK w \in BOOLEAN : history' = Append(history, [Says("assistant") EXCEPT !.words = w])
    BY <1>2 DEF Answers
  <2>2. [Says("assistant") EXCEPT !.words = w].role # "tool"
    BY DEF Says
  <2> QED BY <2>1, <2>2, ResultsCalledAppend, MessageTypes
<1>3. CASE CallsTools
  <2>1. PICK n \in 1 .. MaxCalls, w \in BOOLEAN :
          history' = Append(history, [role |-> "assistant", words |-> w, calls |-> n])
    BY <1>3 DEF CallsTools
  <2> QED BY <2>1, ResultsCalledAppend, MessageTypes
<1>4. CASE ToolRuns
  <2>1. Len(history) \in Nat /\ Len(toRun) \in Nat \ {0}
    BY <1>4, LenProperties, EmptySeq DEF AgentTypeOK, ToolRuns
  <2>2. /\ Len(history') = Len(history) + 1
        /\ \A i \in 1 .. Len(history) : history'[i] = history[i]
        /\ history'[Len(history) + 1] = Result
    BY <1>4, Appended, MessageTypes DEF AgentTypeOK, ToolRuns
  <2>3. PICK j \in 1 .. Len(history) :
          /\ history[j].role = "assistant"
          /\ history[j].calls = Len(history) - j + Len(toRun)
          /\ \A k \in j + 1 .. Len(history) : history[k].role = "tool"
    BY <1>4 DEF CallsOpen, ToolRuns
  <2>4. CalledAt(history', Len(history) + 1, j)
    BY <2>1, <2>2, <2>3 DEF CalledAt, Result, Says
  <2>5. ASSUME NEW i \in 1 .. Len(history), history[i].role = "tool"
        PROVE  \E k \in 1 .. i : CalledAt(history', i, k)
    <3>1. PICK k \in 1 .. i : CalledAt(history, i, k)
      BY <2>5 DEF ResultsCalled
    <3> QED BY <1>4, <3>1, CalledStays, MessageTypes DEF AgentTypeOK, ToolRuns
  <2> QED BY <2>1, <2>2, <2>4, <2>5 DEF ResultsCalled
<1>5. CASE GivesUp
  BY <1>5, ResultsCalledAppend, MessageTypes DEF GivesUp, Says
<1>6. CASE Fails
  BY <1>6, ResultsCalledAppend, MessageTypes DEF Fails, Says
<1>7. CASE UNCHANGED history
  BY <1>7 DEF ResultsCalled, CalledAt
<1> QED
  BY <1>1, <1>2, <1>3, <1>4, <1>5, <1>6, <1>7
     DEF AgentNext, TurnStep, AsksAgain, Acts, HangsUp, Finish, agentVars

LEMMA CallsOpenNext == AgentTypeOK /\ CallsOpen /\ [AgentNext]_agentVars => CallsOpen'
<1> SUFFICES ASSUME AgentTypeOK, CallsOpen, [AgentNext]_agentVars PROVE CallsOpen'
  OBVIOUS
<1>1. CASE CallsTools
  <2>1. PICK n \in 1 .. MaxCalls, w \in BOOLEAN :
          /\ toRun' \in [1 .. n -> Call]
          /\ history' = Append(history, [role |-> "assistant", words |-> w, calls |-> n])
    BY <1>1 DEF CallsTools
  <2>2. Len(history) \in Nat /\ n \in Nat
    BY LenProperties, AgentAssumption DEF AgentTypeOK
  <2>3. Len(toRun') = n
    BY <2>1, <2>2
  <2>4. /\ Len(history') = Len(history) + 1
        /\ history'[Len(history) + 1] = [role |-> "assistant", words |-> w, calls |-> n]
    BY <2>1, Appended, MessageTypes DEF AgentTypeOK
  <2> QED BY <2>2, <2>3, <2>4 DEF CallsOpen
<1>2. CASE ToolRuns
  <2>1. Len(history) \in Nat /\ Len(toRun) \in Nat \ {0}
    BY <1>2, LenProperties, EmptySeq DEF AgentTypeOK, ToolRuns
  <2>2. /\ Len(history') = Len(history) + 1
        /\ \A i \in 1 .. Len(history) : history'[i] = history[i]
        /\ history'[Len(history) + 1] = Result
    BY <1>2, Appended, MessageTypes DEF AgentTypeOK, ToolRuns
  <2>3. Len(toRun') = Len(toRun) - 1
    BY <1>2, HeadTailProperties DEF AgentTypeOK, ToolRuns
  <2>4. PICK j \in 1 .. Len(history) :
          /\ history[j].role = "assistant"
          /\ history[j].calls = Len(history) - j + Len(toRun)
          /\ \A k \in j + 1 .. Len(history) : history[k].role = "tool"
    BY <1>2 DEF CallsOpen, ToolRuns
  <2>5. history'[j].role = "assistant" /\ j \in 1 .. Len(history')
    BY <2>1, <2>2, <2>4
  <2>6. history'[j].calls = Len(history') - j + Len(toRun')
    BY <2>1, <2>2, <2>3, <2>4
  <2>7. \A k \in j + 1 .. Len(history') : history'[k].role = "tool"
    BY <2>1, <2>2, <2>4 DEF Result, Says
  <2> QED BY <2>5, <2>6, <2>7 DEF CallsOpen
<1>3. CASE phase' # "tools"
  BY <1>3 DEF CallsOpen
<1>4. CASE UNCHANGED <<phase, history, toRun>>
  BY <1>4 DEF CallsOpen
<1> QED
  BY <1>1, <1>2, <1>3, <1>4
     DEF AgentNext, TurnStep, TurnBegins, Answers, AsksAgain, GivesUp, Fails, Acts, HangsUp, Finish, agentVars

LEMMA QuestionNearNext == AgentTypeOK /\ QuestionNear /\ [AgentNext]_agentVars => QuestionNear'
<1> SUFFICES ASSUME AgentTypeOK, QuestionNear, [AgentNext]_agentVars PROVE QuestionNear'
  OBVIOUS
<1>0. Len(history) \in Nat /\ Len(toRun) \in Nat /\ iteration \in Nat /\ MaxCalls \in Nat
  BY LenProperties, AgentAssumption DEF AgentTypeOK
<1> DEFINE Near(h, q) == /\ h[q].role = "user"
                         /\ \A j \in q + 1 .. Len(h) : h[j].role # "user"
<1>1. CASE TurnBegins
  <2>1. /\ Len(history') = Len(history) + 1
        /\ history'[Len(history) + 1] = Says("user")
    BY <1>1, Appended, MessageTypes DEF AgentTypeOK, TurnBegins
  <2>2. Near(history', Len(history'))
    BY <1>0, <2>1 DEF Says
  <2> QED BY <1>0, <1>1, <2>1, <2>2, AgentAssumption DEF TurnBegins, QuestionNear, Behind
<1>2. CASE CallsTools
  <2>1. PICK n \in 1 .. MaxCalls, w \in BOOLEAN :
          /\ toRun' \in [1 .. n -> Call]
          /\ history' = Append(history, [role |-> "assistant", words |-> w, calls |-> n])
    BY <1>2 DEF CallsTools
  <2>2. Len(toRun') = n
    BY <1>0, <2>1
  <2>3. /\ Len(history') = Len(history) + 1
        /\ \A i \in 1 .. Len(history) : history'[i] = history[i]
        /\ history'[Len(history) + 1] = [role |-> "assistant", words |-> w, calls |-> n]
    BY <2>1, Appended, MessageTypes DEF AgentTypeOK
  <2>4. PICK q \in 1 .. Len(history) : Near(history, q) /\ Len(history) - q <= Behind
    BY <1>2 DEF QuestionNear, CallsTools
  <2>5. Near(history', q)
    BY <1>0, <2>3, <2>4
  <2>6. Behind' = Behind /\ Behind \in Int /\ iteration' < MaxIterations
    BY <1>0, <1>2 DEF Behind, CallsTools, QuestionNear
  <2>7. Len(history') - q + Len(toRun') <= Behind' + 1 + MaxCalls
    BY <1>0, <2>2, <2>3, <2>4, <2>6
  <2>8. phase' = "tools" /\ q \in 1 .. Len(history')
    BY <1>0, <1>2, <2>3 DEF CallsTools
  <2> QED BY <2>5, <2>6, <2>7, <2>8 DEF QuestionNear
<1>3. CASE ToolRuns
  <2>1. Len(toRun) \in Nat \ {0}
    BY <1>0, <1>3, EmptySeq DEF AgentTypeOK, ToolRuns
  <2>2. /\ Len(history') = Len(history) + 1
        /\ \A i \in 1 .. Len(history) : history'[i] = history[i]
        /\ history'[Len(history) + 1] = Result
    BY <1>3, Appended, MessageTypes DEF AgentTypeOK, ToolRuns
  <2>3. Len(toRun') = Len(toRun) - 1
    BY <1>3, HeadTailProperties DEF AgentTypeOK, ToolRuns
  <2>4. PICK q \in 1 .. Len(history) :
          Near(history, q) /\ Len(history) - q + Len(toRun) <= Behind + 1 + MaxCalls
    BY <1>3 DEF QuestionNear, ToolRuns
  <2>5. Near(history', q)
    <3>1. history'[q].role = "user"
      BY <1>0, <2>2, <2>4
    <3>2. ASSUME NEW j \in q + 1 .. Len(history') PROVE history'[j].role # "user"
      <4>1. CASE j \in 1 .. Len(history)
        BY <1>0, <2>2, <2>4, <4>1
      <4>2. CASE j = Len(history) + 1
        BY <2>2, <4>2 DEF Result, Says
      <4> QED BY <1>0, <2>2, <4>1, <4>2
    <3> QED BY <3>1, <3>2
  <2>6. Behind' = Behind /\ Behind \in Int /\ iteration' < MaxIterations
    BY <1>0, <1>3 DEF Behind, ToolRuns, QuestionNear
  <2>7. Len(history') - q + Len(toRun') <= Behind' + 1 + MaxCalls
    BY <1>0, <2>1, <2>2, <2>3, <2>4, <2>6
  <2>8. phase' = "tools" /\ q \in 1 .. Len(history')
    BY <1>0, <1>3, <2>2 DEF ToolRuns
  <2> QED BY <2>5, <2>6, <2>7, <2>8 DEF QuestionNear
<1>4. CASE AsksAgain
  <2>1. PICK q \in 1 .. Len(history) :
          Near(history, q) /\ Len(history) - q + Len(toRun) <= Behind + 1 + MaxCalls
    BY <1>4 DEF QuestionNear, AsksAgain
  <2>2. Behind' = Behind + (1 + MaxCalls) /\ Behind \in Int
    BY <1>0, <1>4 DEF Behind, AsksAgain
  <2>3. Len(history) - q <= Behind'
    BY <1>0, <2>1, <2>2
  <2> QED BY <1>4, <2>1, <2>3 DEF QuestionNear, AsksAgain
<1>5. CASE phase' \notin {"asking", "tools"}
  BY <1>5 DEF QuestionNear
<1>6. CASE UNCHANGED <<phase, history, toRun, iteration>>
  BY <1>6 DEF QuestionNear, Behind
<1> QED
  BY <1>1, <1>2, <1>3, <1>4, <1>5, <1>6
     DEF AgentNext, TurnStep, Answers, GivesUp, Fails, Acts, HangsUp, Finish, agentVars

-----------------------------------------------------------------------------
LEMMA AgentInvAlways == AgentSpec => []AgentInv
<1>1. AgentInit => AgentInv
  <2> SUFFICES ASSUME AgentInit PROVE AgentInv
    OBVIOUS
  <2>1. Len(history) = 0
    BY EmptySeq DEF AgentInit
  <2>2. ResultsCalled /\ CallsOpen /\ QuestionNear
    BY <2>1 DEF AgentInit, ResultsCalled, CallsOpen, QuestionNear
  <2>3. Accounted
    BY DEF AgentInit, Accounted, NoControl
  <2>4. Referenced
    BY AgentAssumption DEF AgentInit, Referenced, NoControl
  <2> QED BY <2>2, <2>3, <2>4, TypeInit DEF AgentInv
<1>2. AgentInv /\ [AgentNext]_agentVars => AgentInv'
  BY TypeNext, ResultsCalledNext, CallsOpenNext, QuestionNearNext, AccountedNext, ReferencedNext
     DEF AgentInv
<1> QED BY <1>1, <1>2, PTL DEF AgentSpec

\* The state of a turn stays within its types, for any number of turns, calls and
\* requests.
THEOREM AgentTyped == AgentSpec => []AgentTypeOK
<1>1. AgentInv => AgentTypeOK
  BY DEF AgentInv
<1> QED BY <1>1, AgentInvAlways, PTL

\* Trimming never parts a result from its call, whatever the history; and a window
\* as long as a turn can get holds the question.
THEOREM RequestsAreWhole == AgentSpec => []RequestWhole
<1>1. ASSUME AgentInv, phase = "asking" PROVE RequestWhole
  <2> DEFINE W == WindowStart(history)
  <2>0. Len(history) \in Nat /\ iteration \in Nat /\ MaxCalls \in Nat /\ MaxIterations \in Nat
    BY <1>1, LenProperties, AgentAssumption DEF AgentInv, AgentTypeOK
  <2>1. /\ W \in 1 .. Len(history) + 1
        /\ Len(history) <= Limit => W = 1
        /\ Len(history) > Limit =>
             /\ W >= Len(history) - Limit + 1
             /\ \A j \in Len(history) - Limit + 1 .. W - 1 : Trimmed(history[j])
             /\ W <= Len(history) => ~Trimmed(history[W])
    BY <1>1, WindowStartFirst DEF AgentInv, AgentTypeOK
  <2> HIDE DEF W
  <2>2. ASSUME NEW i \in W .. Len(history), history[i].role = "tool"
        PROVE  \E j \in W .. i : CalledAt(history, i, j)
    <3>1. PICK j \in 1 .. i : CalledAt(history, i, j)
      BY <1>1, <2>0, <2>1, <2>2 DEF AgentInv, ResultsCalled
    <3>2. CASE j >= W
      BY <2>0, <2>1, <3>1, <3>2
    <3>3. CASE j < W
      <4>1. W \in j + 1 .. i
        BY <2>0, <2>1, <2>2, <3>3
      <4>2. history[W].role = "tool"
        BY <3>1, <4>1 DEF CalledAt
      <4>3. Len(history) > Limit /\ W <= Len(history)
        BY <2>0, <2>1, <2>2, <3>1, <3>3, LimitType
      <4> QED BY <2>1, <4>2, <4>3 DEF Trimmed
    <3> QED BY <2>0, <2>1, <3>1, <3>2, <3>3
  <2>3. ASSUME LongestTurn <= Limit
        PROVE  \E i \in W .. Len(history) :
                 /\ history[i].role = "user"
                 /\ \A j \in i + 1 .. Len(history) : history[j].role # "user"
    <3>1. PICK q \in 1 .. Len(history) :
            /\ history[q].role = "user"
            /\ \A j \in q + 1 .. Len(history) : history[j].role # "user"
            /\ Len(history) - q <= Behind
      BY <1>1 DEF AgentInv, QuestionNear
    <3>2. Behind <= (MaxIterations - 1) * (1 + MaxCalls) /\ Behind \in Int
      <4>1. iteration <= MaxIterations - 1
        BY <1>1, <2>0 DEF AgentInv, QuestionNear
      <4> QED BY <2>0, <4>1 DEF Behind
    <3>3. Len(history) - q + 1 <= Limit
      BY <2>0, <2>3, <3>1, <3>2, LimitType DEF LongestTurn
    <3>4. q >= W
      <4>1. CASE Len(history) <= Limit
        BY <2>0, <2>1, <4>1
      <4>2. CASE Len(history) > Limit
        <5>1. q >= Len(history) - Limit + 1
          BY <2>0, <3>3, LimitType
        <5>2. ~Trimmed(history[q])
          BY <3>1 DEF Trimmed
        <5> QED BY <2>0, <2>1, <4>2, <5>1, <5>2, LimitType
      <4> QED BY <2>0, <4>1, <4>2, LimitType
    <3> QED BY <2>0, <2>1, <3>1, <3>4
  <2> QED BY <2>2, <2>3 DEF W, RequestWhole
<1>2. AgentInv => RequestWhole
  BY <1>1 DEF RequestWhole
<1> QED BY <1>2, AgentInvAlways, PTL

\* No turn leaves anything undone, however it ends.
THEOREM TurnsAreSettled == AgentSpec => []TurnSettled
<1>1. AgentInv => TurnSettled
  BY DEF AgentInv, Accounted, TurnSettled
<1> QED BY <1>1, AgentInvAlways, PTL

\* What is filed has its reference and is of the vocabulary, for any vocabulary.
THEOREM CallsAreFiledProperly == AgentSpec => []FiledProperly
<1>1. AgentInv => FiledProperly
  BY DEF AgentInv, Referenced, AgentTypeOK, FiledProperly
<1> QED BY <1>1, AgentInvAlways, PTL
=============================================================================
