------------------------------ MODULE Routing ------------------------------
(***************************************************************************)
(* The catalog, its periodic refresh and the routing of requests while it  *)
(* is refreshed.  A task lists the Bedrock control plane in several calls, *)
(* then swaps the profile map and then the catalog.  A request resolves    *)
(* the model it names again at every step of its way: handler guard, raw   *)
(* lane, typed lane, region gate, rewriting of the body.  Requests only    *)
(* read what the task writes, so one request at a time, over and over,     *)
(* sees all there is to see.                                               *)
(***************************************************************************)
EXTENDS FiniteSets

CONSTANTS
    SystemProfiles,    \* inference profiles, by the call that lists them
    Application,
    Foundations,
    Underlying,        \* profile -> the foundation its first ARN names
    Eligible,          \* foundations that stream, in an allowed status
    OnDemand,          \* of these, the ones that are called by their bare id
    Aliases,           \* [[alias]] of models.toml: name -> id
    ChatEntry,         \* foundation -> params.chat_backend
    ResponsesEntry,    \* foundation -> params.responses_backend
    InRegion,          \* foundations whose allow-list admits this region
    Allowed,           \* ids that pass the allow-list of /models
    DefaultModel

Profiles  == SystemProfiles \cup Application
Names     == DOMAIN Aliases
Ids       == Profiles \cup Foundations \cup Names
NoId      == "none"

ASSUME UnderlyingAssumption == Underlying \in [Profiles -> Foundations]
ASSUME AliasAssumption ==
    \A a \in Names : /\ a \notin Profiles \cup Foundations
                      /\ Aliases[a] \in Profiles \cup Foundations
\* models.toml adapts a model to chat only if mantle serves its Responses.
ASSUME EntryAssumption ==
    /\ ChatEntry \in [Foundations -> {"converse", "mantle", "responses"}]
    /\ ResponsesEntry \in [Foundations -> {"converse", "mantle"}]
    /\ \A f \in Foundations : ChatEntry[f] = "responses" => ResponsesEntry[f] = "mantle"
ASSUME ListedAssumption ==
    /\ SystemProfiles \cap Application = {} /\ Profiles \cap Foundations = {}
    /\ OnDemand \subseteq Eligible /\ Eligible \subseteq Foundations
    /\ DefaultModel \in Foundations /\ NoId \notin Ids

VARIABLES
    live,        \* profiles that exist in the control plane
    \* The refresh task.
    refresher,   \* where it is
    gathered,    \* the profiles its calls returned so far
    fresh,       \* the catalog it is about to install
    \* Shared state.
    profiles,    \* domain of ConfigModelCapabilities.profile_map
    catalog,     \* [listed, profiles]
    mantleEnabled,   \* of both composites: a key, and no DISABLE_MANTLE
    \* One request.
    req,         \* [model, surface, stream, pc, resolved, outcome, upstream]
    disturbed    \* history: what the model resolves to changed meanwhile

task   == <<refresher, gathered, fresh>>
shared == <<profiles, catalog, mantleEnabled>>
vars   == <<live, task, shared, req, disturbed>>

Surfaces == {"chat", "completions", "responses"}

\* Where a request can be, and how it can end: "converse" and "mantle" are the
\* upstream that is asked, whatever it answers.
Places   == {"guard", "guard_chat", "chat_raw", "chat_typed", "typed_mantle",
             "responses_raw", "respond_stream", "respond", "gate", "rewrite", "done"}
Outcomes == {"none", "rejected", "converse", "mantle", "internal"}
-----------------------------------------------------------------------------
(* Resolution *)

\* An alias wins and is not resolved further; then the profile map; anything
\* else passes through.
ResolveIn(map, id) ==
    IF id \in Names THEN Aliases[id]
    ELSE IF id \in map THEN Underlying[id] ELSE id

Resolve(id) == ResolveIn(profiles, id)

\* What Converse is called with: never the foundation behind a profile.
Callable(id) == IF id \in Names THEN Aliases[id] ELSE id

\* entry_for_match is by exact key: only foundations have entries.
Chat(id)      == IF id \in Foundations THEN ChatEntry[id] ELSE "converse"
Responses(id) == IF id \in Foundations THEN ResponsesEntry[id] ELSE "converse"

ChatBackend      == Chat(Resolve(req.model))
ResponsesBackend == Responses(Resolve(req.model))
-----------------------------------------------------------------------------
(* The control plane and the refresh task *)

\* Names mantle_alias_names adds: the id of a system profile contains that of
\* its foundation, which is what the code looks for in an alias's target.
MantleNames ==
    {a \in Names : \E f \in Foundations :
        /\ Aliases[a] = f \/ (Aliases[a] \in SystemProfiles /\ Underlying[Aliases[a]] = f)
        /\ "mantle" \in {ChatEntry[f], ResponsesEntry[f]}}

\* What assemble_catalog and CatalogShape.apply make of a listing: profiles of
\* an eligible foundation, directly callable foundations, the default model
\* when there are none, and the names of both kinds of alias.
Catalog(ps) ==
    LET models == OnDemand \cup {p \in ps : Underlying[p] \in Eligible}
        served == IF models = {} THEN {DefaultModel} ELSE models
        named  == MantleNames \cup {a \in Names : Aliases[a] \in served}
    IN  [listed |-> (served \cup named) \cap Allowed, profiles |-> ps]

NoCatalog == [listed |-> {}, profiles |-> {}]

\* A failing listing at boot leaves the map empty and only mantle's names.
Init ==
    /\ live \in SUBSET Profiles
    /\ refresher = "idle" /\ gathered = {} /\ fresh = NoCatalog
    /\ \/ profiles = {} /\ catalog = [listed |-> MantleNames \cap Allowed, profiles |-> {}]
       \/ profiles = live /\ catalog = Catalog(live)
    /\ mantleEnabled \in BOOLEAN
    /\ req = [model |-> NoId, surface |-> "chat", stream |-> FALSE, pc |-> "done",
              resolved |-> NoId, outcome |-> "none", upstream |-> NoId]
    /\ disturbed = FALSE

ControlPlaneChanges ==
    /\ \E p \in Profiles : live' = (live \ {p}) \cup ({p} \ live)
    /\ UNCHANGED <<task, shared, req, disturbed>>

RefreshStep(from, to) == refresher = from /\ refresher' = to

Tick ==
    /\ RefreshStep("idle", "system")
    /\ gathered' = {}
    /\ UNCHANGED <<live, fresh, shared, req, disturbed>>

ListSystemProfiles ==
    /\ RefreshStep("system", "application")
    /\ gathered' = live \cap SystemProfiles
    /\ UNCHANGED <<live, fresh, shared, req, disturbed>>

\* Faulty: a profile without a key is kept.
KeylessKept ==
    /\ RefreshStep("application", "foundations")
    /\ gathered' = gathered \cup (live \cap Application) \cup {NoId}
    /\ UNCHANGED <<live, fresh, shared, req, disturbed>>

ListApplicationProfiles ==
    /\ RefreshStep("application", "foundations")
    /\ gathered' = gathered \cup (live \cap Application)
    /\ UNCHANGED <<live, fresh, shared, req, disturbed>>

ListFoundationModels ==
    /\ RefreshStep("foundations", "profiles")
    /\ fresh' = Catalog(gathered)
    /\ UNCHANGED <<live, gathered, shared, req, disturbed>>

\* Faulty: the first failure ends the task.
ListingFailsForGood ==
    /\ refresher \in {"system", "application", "foundations"}
    /\ refresher' = "ended" /\ gathered' = {}
    /\ UNCHANGED <<live, fresh, shared, req, disturbed>>

\* Any of the calls fails: the previous catalog is kept until the next tick.
ListingFails ==
    /\ refresher \in {"system", "application", "foundations"}
    /\ refresher' = "idle" /\ gathered' = {}
    /\ UNCHANGED <<live, fresh, shared, req, disturbed>>

\* Faulty: the map drops what is gone but takes in nothing new.
OnlyKnown(ps) == profiles \cap ps

\* replace_profiles takes the new listing as it is.
ReplacedBy(ps) == ps

InstallProfiles ==
    /\ RefreshStep("profiles", "catalog")
    /\ profiles' = ReplacedBy(fresh.profiles)
    /\ disturbed' = (disturbed \/ ResolveIn(profiles', req.model) # Resolve(req.model))
    /\ UNCHANGED <<live, gathered, fresh, catalog, mantleEnabled, req>>

InstallCatalog ==
    /\ RefreshStep("catalog", "idle")
    /\ catalog' = fresh
    /\ fresh' = NoCatalog /\ gathered' = {}
    /\ UNCHANGED <<live, profiles, mantleEnabled, req, disturbed>>
-----------------------------------------------------------------------------
(* One request *)

rest == <<live, task, shared, disturbed>>

To(pc) == req' = [req EXCEPT !.pc = pc] /\ UNCHANGED rest

Answer(outcome, upstream) ==
    /\ req' = [req EXCEPT !.pc = "done", !.outcome = outcome, !.upstream = upstream]
    /\ UNCHANGED rest

Reject   == Answer("rejected", NoId)
Internal == Answer("internal", NoId)

\* Handlers resolve the model first, but /completions does so behind its
\* guards; only a streaming Responses request has a raw lane.
Arrive ==
    /\ req.pc = "done"
    /\ \E id \in Ids, s \in Surfaces, stream \in BOOLEAN :
          req' = [model |-> id, surface |-> s, stream |-> stream,
                  pc |-> IF s # "responses" THEN "guard"
                         ELSE IF stream THEN "responses_raw" ELSE "respond",
                  resolved |-> IF s = "completions" THEN NoId ELSE Resolve(id),
                  outcome |-> "none", upstream |-> NoId]
    /\ disturbed' = FALSE
    /\ UNCHANGED <<live, task, shared>>

\* First half of both guards: is the model on mantle for Responses?
Guard ==
    /\ req.pc = "guard"
    /\ \/ req.surface = "completions" /\ ResponsesBackend = "mantle" /\ Reject
       \/ req.surface = "completions" /\ ResponsesBackend # "mantle" /\ To("guard_chat")
       \/ req.surface = "chat" /\ ResponsesBackend # "mantle" /\ To("chat_raw")
       \/ req.surface = "chat" /\ ResponsesBackend = "mantle" /\ To("guard_chat")

\* Second half: /chat/completions refuses what has no chat backend of its own,
\* /completions refuses what only the raw lane can serve.
GuardChat ==
    /\ req.pc = "guard_chat"
    /\ \/ req.surface = "chat" /\ ChatBackend = "converse" /\ Reject
       \/ req.surface = "chat" /\ ChatBackend # "converse" /\ To("chat_raw")
       \/ req.surface = "completions" /\ ChatBackend = "mantle" /\ Reject
       \/ /\ req.surface = "completions" /\ ChatBackend # "mantle"
          /\ req' = [req EXCEPT !.pc = "chat_typed", !.resolved = Resolve(req.model)]
          /\ UNCHANGED rest

\* Faulty: the composite leaves the trait's default, no raw lane.
ChatRawDefault == req.pc = "chat_raw" /\ To("chat_typed")

\* The raw lanes of the chat composite; only mantle offers one.  Without a
\* key the streaming lane refuses and the other steps aside.
ChatRaw ==
    /\ req.pc = "chat_raw"
    /\ \/ ChatBackend # "mantle" /\ To("chat_typed")
       \/ ChatBackend = "mantle" /\ mantleEnabled /\ To("gate")
       \/ ChatBackend = "mantle" /\ ~ mantleEnabled /\ req.stream /\ Reject
       \/ ChatBackend = "mantle" /\ ~ mantleEnabled /\ ~ req.stream /\ To("chat_typed")

\* chat and chat_stream of the composite.
ChatTyped ==
    /\ req.pc = "chat_typed"
    /\ \/ ChatBackend = "converse" /\ Answer("converse", Callable(req.model))
       \/ ChatBackend = "responses" /\ To(IF req.stream THEN "responses_raw" ELSE "respond")
       \/ ChatBackend = "mantle" /\ ~ mantleEnabled /\ Reject
       \/ ChatBackend = "mantle" /\ mantleEnabled /\ To("typed_mantle")

\* The typed methods of the mantle provider only fail, the non-streaming one
\* after a preflight that refuses the empty body of /completions too.
TypedMantle ==
    /\ req.pc = "typed_mantle"
    /\ IF /\ ~ req.stream
          /\ Resolve(req.model) \in Foundations \ InRegion \/ req.surface = "completions"
       THEN Reject ELSE Internal

\* respond_raw_stream of the Responses composite.
ResponsesRaw ==
    /\ req.pc = "responses_raw"
    /\ \/ ResponsesBackend = "converse" /\ To("respond_stream")
       \/ ResponsesBackend = "mantle" /\ mantleEnabled /\ To("gate")
       \/ ResponsesBackend = "mantle" /\ ~ mantleEnabled /\ Reject

\* respond_stream: no streaming on mantle without the raw lane, and no chat
\* adapter without it either.
RespondStream ==
    /\ req.pc = "respond_stream"
    /\ \/ ResponsesBackend = "mantle" /\ mantleEnabled /\ Internal
       \/ ResponsesBackend = "mantle" /\ ~ mantleEnabled /\ Reject
       \/ /\ ResponsesBackend = "converse" /\ req.surface = "responses"
          /\ Answer("converse", Callable(req.model))
       \/ ResponsesBackend = "converse" /\ req.surface # "responses" /\ Internal

Respond ==
    /\ req.pc = "respond"
    /\ \/ ResponsesBackend = "converse" /\ Answer("converse", Callable(req.model))
       \/ ResponsesBackend = "mantle" /\ mantleEnabled /\ To("gate")
       \/ ResponsesBackend = "mantle" /\ ~ mantleEnabled /\ Reject

\* preflight: the region gate and the rewriting of the model resolve it again.
RegionGate ==
    /\ req.pc = "gate"
    /\ IF Resolve(req.model) \in Foundations \ InRegion THEN Reject ELSE To("rewrite")

RewriteModel == req.pc = "rewrite" /\ Answer("mantle", Resolve(req.model))

Handle ==
    \/ Guard \/ GuardChat
    \/ ChatRaw \/ ChatTyped \/ TypedMantle
    \/ ResponsesRaw \/ RespondStream \/ Respond
    \/ RegionGate \/ RewriteModel

Refresh ==
    \/ Tick
    \/ ListSystemProfiles \/ ListApplicationProfiles \/ ListFoundationModels
    \/ InstallProfiles \/ InstallCatalog

Next == ControlPlaneChanges \/ Refresh \/ ListingFails \/ Arrive \/ Handle

Spec == Init /\ [][Next]_vars

\* The ticker fires and the task is polled; of listings tried again and again
\* some go through.
Fairness ==
    /\ WF_vars(Tick \/ InstallProfiles \/ InstallCatalog)
    /\ SF_vars(ListSystemProfiles)
    /\ SF_vars(ListApplicationProfiles)
    /\ SF_vars(ListFoundationModels)

FairSpec == Spec /\ Fairness
-----------------------------------------------------------------------------
(* Properties *)

Listing == [listed : SUBSET Ids, profiles : SUBSET Profiles]

Request == [model : Ids \cup {NoId}, surface : Surfaces, stream : BOOLEAN, pc : Places,
            resolved : Ids \cup {NoId}, outcome : Outcomes, upstream : Ids \cup {NoId}]

\* Type invariant.
TypeOK ==
    /\ live \subseteq Profiles
    /\ refresher \in {"idle", "system", "application", "foundations", "profiles", "catalog"}
    /\ gathered \subseteq Profiles
    /\ fresh \in Listing /\ catalog \in Listing
    /\ profiles \subseteq Profiles
    /\ mantleEnabled \in BOOLEAN /\ disturbed \in BOOLEAN
    /\ req \in Request

\* Between refreshes the profile map and the catalog are of one listing, and
\* while one is installed every profile /models advertises resolves, except
\* one that the new listing no longer has.
AdvertisedResolves ==
    /\ refresher # "catalog" => catalog.profiles = profiles
    /\ \A p \in catalog.listed \cap Profiles :
          p \in profiles \/ (refresher = "catalog" /\ p \notin fresh.profiles)

\* What models.toml says becomes of a request for foundation f.
Served(f, surface) ==
    LET refused  == \/ surface = "chat" /\ Chat(f) = "converse" /\ Responses(f) = "mantle"
                    \/ surface = "completions" /\ "mantle" \in {Chat(f), Responses(f)}
        onMantle == \/ surface = "chat" /\ Chat(f) # "converse"
                    \/ surface = "responses" /\ Responses(f) = "mantle"
    IN  IF refused THEN "rejected"
        ELSE IF ~ onMantle THEN "converse"
        ELSE IF mantleEnabled /\ f \in InRegion THEN "mantle" ELSE "rejected"

\* A request during which its model kept its meaning gets what the tables say
\* for that meaning, whichever lanes and guards it crossed: it never falls
\* between them, Converse is called with the callable id and mantle with the
\* foundation.
RoutedByBackend ==
    (req.pc = "done" /\ req.model # NoId /\ ~ disturbed) =>
        /\ req.outcome = Served(Resolve(req.model), req.surface)
        /\ req.outcome = "mantle" => req.upstream = Resolve(req.model)
        /\ req.outcome = "converse" => req.upstream = Callable(req.model)

\* A profile that keeps existing is eventually known to routing for good, no
\* matter how many listings fail in between.
ProfileLearned ==
    \A p \in Profiles : <>[](p \in live) => <>[](p \in profiles)

\* Head of mantle_chat_provider.rs: the typed chat and chat_stream "are
\* UNREACHABLE fallbacks", for the raw methods are consulted first.
TypedMantleUnreachable == req.pc # "typed_mantle"
=============================================================================
