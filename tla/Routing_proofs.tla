--------------------------- MODULE Routing_proofs ---------------------------
(***************************************************************************)
(* That a request is routed by what its model means, for every table of    *)
(* models.toml, every set of profiles and every interleaving with the      *)
(* refresh that leaves that meaning alone.                                 *)
(***************************************************************************)
EXTENDS Routing, TLAPS

Meaning == Resolve(req.model)

\* The chat surface serves foundation f; a mantle lane is f's.
ServedOnChat(f) ==
    req.surface = "chat" /\ ~ (Chat(f) = "converse" /\ Responses(f) = "mantle")

OnMantle(f) ==
    \/ ServedOnChat(f) /\ Chat(f) # "converse"
    \/ req.surface = "responses" /\ Responses(f) = "mantle"

\* What the steps that lead a request to pc have established of foundation f.
Established(pc, f) ==
    /\ pc = "guard" => req.surface # "responses"
    /\ pc = "guard_chat" =>
          \/ req.surface = "chat" /\ Responses(f) = "mantle"
          \/ req.surface = "completions" /\ Responses(f) # "mantle"
    /\ pc = "chat_raw" => ServedOnChat(f)
    /\ pc = "chat_typed" =>
          \/ ServedOnChat(f) /\ (Chat(f) = "mantle" => ~ mantleEnabled)
          \/ req.surface = "completions" /\ "mantle" \notin {Chat(f), Responses(f)}
    /\ pc # "typed_mantle"
    /\ pc \in {"responses_raw", "respond"} =>
          req.surface = "responses" \/ (ServedOnChat(f) /\ Chat(f) = "responses")
    /\ pc = "respond_stream" => req.surface = "responses" /\ Responses(f) = "converse"
    /\ pc \in {"gate", "rewrite"} => mantleEnabled /\ OnMantle(f)
    /\ pc = "rewrite" => f \in InRegion

\* A request whose model has kept its meaning is where that meaning leads, and
\* ends as it should.
Undisturbed == req.model # NoId /\ ~ disturbed

Course == (Undisturbed => Established(req.pc, Meaning)) /\ RoutedByBackend

IInv == TypeOK /\ Course
-----------------------------------------------------------------------------
(* Resolution and the tables *)

\* Resolving an id of any kind gives an id; so does looking up an alias.
LEMMA ResolvesToId ==
    ASSUME NEW id \in Ids \cup {NoId}, NEW map \in SUBSET Profiles
    PROVE  ResolveIn(map, id) \in Ids \cup {NoId} /\ Callable(id) \in Ids \cup {NoId}
BY AliasAssumption, UnderlyingAssumption DEF ResolveIn, Callable, Ids, Profiles

\* A backend other than Converse is only ever a foundation's, and chat is
\* adapted only to Responses on mantle.
LEMMA Tables ==
    ASSUME NEW f
    PROVE  /\ Chat(f) \in {"converse", "mantle", "responses"}
           /\ Responses(f) \in {"converse", "mantle"}
           /\ Chat(f) # "converse" \/ Responses(f) = "mantle" => f \in Foundations
           /\ Chat(f) = "responses" => Responses(f) = "mantle"
BY EntryAssumption DEF Chat, Responses

\* The catalog made of a listing lists ids.
LEMMA CatalogIsListing ==
    ASSUME NEW ps \in SUBSET Profiles
    PROVE  Catalog(ps) \in Listing
<1> DEFINE models == OnDemand \cup {p \in ps : Underlying[p] \in Eligible}
           served == IF models = {} THEN {DefaultModel} ELSE models
           named  == MantleNames \cup {a \in Names : Aliases[a] \in served}
<1>1. models \subseteq Ids
  BY ListedAssumption DEF Ids
<1>2. served \subseteq Ids
  BY <1>1, ListedAssumption DEF Ids
<1>3. named \subseteq Ids
  BY DEF MantleNames, Ids
<1>4. Catalog(ps) = [listed |-> (served \cup named) \cap Allowed, profiles |-> ps]
  BY DEF Catalog
<1>5. (served \cup named) \cap Allowed \subseteq Ids
  BY <1>2, <1>3
<1> HIDE DEF served, named
<1> QED
  BY <1>4, <1>5 DEF Listing

-----------------------------------------------------------------------------
(* Type correctness *)

\* A handler step leaves a request where there is one.
LEMMA RequestSteps ==
    ASSUME TypeOK
    PROVE  /\ Arrive => req' \in Request
           /\ Handle => req' \in Request
<1> USE DEF Request
<1>1. /\ req.model \in Ids \cup {NoId}
      /\ Resolve(req.model) \in Ids \cup {NoId}
      /\ Callable(req.model) \in Ids \cup {NoId}
      /\ NoId \in Ids \cup {NoId}
  BY ResolvesToId DEF TypeOK, Resolve
<1>2. ASSUME NEW pc \in Places, To(pc)
      PROVE  req' \in Request
  BY <1>2 DEF To, TypeOK
<1>3. ASSUME NEW outcome \in Outcomes, NEW upstream \in Ids \cup {NoId},
             Answer(outcome, upstream)
      PROVE  req' \in Request
  BY <1>3 DEF Answer, TypeOK, Places
<1>4. ASSUME Arrive
      PROVE  req' \in Request
  <2>1. PICK id \in Ids, s \in Surfaces, stream \in BOOLEAN :
          req' = [model |-> id, surface |-> s, stream |-> stream,
                  pc |-> IF s # "responses" THEN "guard"
                         ELSE IF stream THEN "responses_raw" ELSE "respond",
                  resolved |-> IF s = "completions" THEN NoId ELSE Resolve(id),
                  outcome |-> "none", upstream |-> NoId]
    BY <1>4 DEF Arrive
  <2>2. Resolve(id) \in Ids \cup {NoId}
    BY ResolvesToId DEF TypeOK, Resolve
  <2> QED
    BY <2>1, <2>2 DEF Places, Outcomes
<1>5. ASSUME Guard \/ ChatRaw \/ ChatTyped \/ TypedMantle \/ ResponsesRaw
             \/ RespondStream \/ Respond \/ RegionGate \/ RewriteModel
      PROVE  req' \in Request
  BY <1>1, <1>2, <1>3, <1>5
     DEF Guard, ChatRaw, ChatTyped, TypedMantle, ResponsesRaw, RespondStream, Respond,
         RegionGate, RewriteModel, Reject, Internal, Places, Outcomes
<1>6. ASSUME GuardChat
      PROVE  req' \in Request
  <2>1. CASE req' = [req EXCEPT !.pc = "chat_typed", !.resolved = Resolve(req.model)]
    BY <2>1, <1>1 DEF TypeOK, Places
  <2> QED
    BY <2>1, <1>2, <1>3, <1>6 DEF GuardChat, Reject, Places, Outcomes
<1> QED
  BY <1>4, <1>5, <1>6 DEF Handle

\* The types of all variables hold in every state, for every table, region,
\* allow-list and set of profiles.
THEOREM TypeCorrect == Spec => []TypeOK
<1>1. Init => TypeOK
  <2> SUFFICES ASSUME Init PROVE TypeOK
    OBVIOUS
  <2>1. NoCatalog \in Listing /\ Catalog(live) \in Listing
    BY CatalogIsListing DEF Init, NoCatalog, Listing
  <2>2. [listed |-> MantleNames \cap Allowed, profiles |-> {}] \in Listing
    BY DEF Listing, MantleNames, Ids
  <2>3. req \in Request
    BY DEF Init, Request, Surfaces, Places, Outcomes
  <2> QED
    BY <2>1, <2>2, <2>3 DEF Init, TypeOK
<1>2. TypeOK /\ [Next]_vars => TypeOK'
  <2> SUFFICES ASSUME TypeOK, [Next]_vars PROVE TypeOK'
    OBVIOUS
  <2>1. CASE Arrive \/ Handle
    <3>1. req' \in Request
      BY <2>1, RequestSteps
    <3>2. CASE Arrive
      BY <3>1, <3>2 DEF Arrive, TypeOK, task, shared
    <3>3. CASE Handle
      <4>1. UNCHANGED rest
        BY <3>3 DEF Handle, Guard, GuardChat, ChatRaw, ChatTyped, TypedMantle, ResponsesRaw,
              RespondStream, Respond, RegionGate, RewriteModel, To, Answer, Reject, Internal
      <4> QED
        BY <3>1, <4>1 DEF TypeOK, rest, task, shared
    <3> QED
      BY <2>1, <3>2, <3>3
  <2>2. CASE ControlPlaneChanges
    BY <2>2 DEF ControlPlaneChanges, TypeOK, task, shared
  <2>3. CASE Tick
    BY <2>3 DEF Tick, RefreshStep, TypeOK, shared
  <2>4. CASE ListSystemProfiles
    BY <2>4 DEF ListSystemProfiles, RefreshStep, TypeOK, shared
  <2>5. CASE ListApplicationProfiles
    BY <2>5 DEF ListApplicationProfiles, RefreshStep, TypeOK, shared
  <2>6. CASE ListFoundationModels
    <3>1. fresh' \in Listing
      BY <2>6, CatalogIsListing DEF ListFoundationModels, TypeOK
    <3> QED
      BY <2>6, <3>1 DEF ListFoundationModels, RefreshStep, TypeOK, shared
  <2>7. CASE ListingFails
    BY <2>7 DEF ListingFails, TypeOK, shared
  <2>8. CASE InstallProfiles
    <3>1. profiles' \subseteq Profiles
      BY <2>8 DEF InstallProfiles, ReplacedBy, TypeOK, Listing
    <3>2. disturbed' \in BOOLEAN
      BY <2>8 DEF InstallProfiles
    <3> QED
      BY <2>8, <3>1, <3>2 DEF InstallProfiles, RefreshStep, TypeOK
  <2>9. CASE InstallCatalog
    <3>1. NoCatalog \in Listing
      BY DEF NoCatalog, Listing
    <3> QED
      BY <2>9, <3>1 DEF InstallCatalog, RefreshStep, TypeOK
  <2>10. CASE UNCHANGED vars
    BY <2>10 DEF vars, TypeOK, task, shared
  <2> QED
    BY <2>1, <2>2, <2>3, <2>4, <2>5, <2>6, <2>7, <2>8, <2>9, <2>10 DEF Next, Refresh
<1> QED
  BY <1>1, <1>2, PTL DEF Spec
-----------------------------------------------------------------------------
(* Routing *)

\* A request that moves on, and one that is answered, keeps what it asked for
\* and what that means.
Moved(pc) ==
    /\ req'.pc = pc /\ req'.surface = req.surface /\ req'.model = req.model
    /\ UNCHANGED rest

LEMMA MovedMeans ==
    ASSUME NEW pc, Moved(pc)
    PROVE  /\ Meaning' = Meaning
           /\ mantleEnabled' = mantleEnabled /\ disturbed' = disturbed
BY DEF Moved, rest, shared, Meaning, Resolve, ResolveIn

LEMMA Moves ==
    ASSUME TypeOK, NEW pc, To(pc)
    PROVE  Moved(pc)
BY DEF To, Moved, TypeOK, Request

LEMMA Answers ==
    ASSUME TypeOK, NEW outcome, NEW upstream, Answer(outcome, upstream)
    PROVE  /\ req'.pc = "done" /\ req'.outcome = outcome /\ req'.upstream = upstream
           /\ req'.surface = req.surface /\ req'.model = req.model
           /\ Meaning' = Meaning
           /\ mantleEnabled' = mantleEnabled /\ disturbed' = disturbed
<1>1. UNCHANGED <<profiles, mantleEnabled, disturbed>>
  BY DEF Answer, rest, shared
<1>2. /\ req'.pc = "done" /\ req'.outcome = outcome /\ req'.upstream = upstream
      /\ req'.surface = req.surface /\ req'.model = req.model
  BY DEF Answer, TypeOK, Request
<1> QED
  BY <1>1, <1>2 DEF Meaning, Resolve, ResolveIn

\* It is enough that a move establishes what its destination takes for granted,
\* and that an answer is the one models.toml asks for.
LEMMA MoveKeepsCourse ==
    ASSUME NEW pc \in Places \ {"done"}, Moved(pc),
           Undisturbed => Established(pc, Meaning)
    PROVE  Course'
<1>1. /\ req'.pc = pc /\ req'.surface = req.surface /\ req'.model = req.model
      /\ Meaning' = Meaning
      /\ mantleEnabled' = mantleEnabled /\ disturbed' = disturbed
  BY MovedMeans DEF Moved
<1>2. RoutedByBackend'
  BY <1>1 DEF RoutedByBackend
<1>3. Undisturbed' => Established(req.pc, Meaning)'
  BY <1>1 DEF Undisturbed, Established, ServedOnChat, OnMantle, Chat, Responses
<1> QED
  BY <1>2, <1>3 DEF Course

LEMMA AnswerKeepsCourse ==
    ASSUME TypeOK, NEW outcome, NEW upstream, Answer(outcome, upstream),
           Undisturbed =>
              /\ outcome = Served(Meaning, req.surface)
              /\ outcome = "mantle" => upstream = Meaning
              /\ outcome = "converse" => upstream = Callable(req.model)
    PROVE  Course'
<1>1. /\ req'.pc = "done" /\ req'.outcome = outcome /\ req'.upstream = upstream
      /\ req'.surface = req.surface /\ req'.model = req.model
      /\ Meaning' = Meaning
      /\ mantleEnabled' = mantleEnabled /\ disturbed' = disturbed
  BY Answers
<1>2. RoutedByBackend'
  BY <1>1 DEF RoutedByBackend, Undisturbed, Meaning, Served, Chat, Responses
<1>3. Established(req.pc, Meaning)'
  BY <1>1 DEF Established
<1> QED
  BY <1>2, <1>3 DEF Course

\* The steps of a request, on the strength of what the earlier ones established.
LEMMA HandleKeepsCourse ==
    ASSUME IInv, Handle
    PROVE  Course'
<1> DEFINE f == Meaning
<1>1. TypeOK /\ (Undisturbed => Established(req.pc, f))
  BY DEF IInv, Course
<1>2. /\ Chat(f) \in {"converse", "mantle", "responses"}
      /\ Responses(f) \in {"converse", "mantle"}
      /\ Chat(f) # "converse" \/ Responses(f) = "mantle" => f \in Foundations
      /\ Chat(f) = "responses" => Responses(f) = "mantle"
  BY Tables
<1>3. /\ ChatBackend = Chat(f) /\ ResponsesBackend = Responses(f)
      /\ Resolve(req.model) = f
  BY DEF ChatBackend, ResponsesBackend, Meaning
<1>4. req.surface \in Surfaces
  BY <1>1 DEF TypeOK, Request
<1> HIDE DEF f
<1> USE DEF Established, ServedOnChat, OnMantle, Served, Reject, Internal, Places, Surfaces
<1>5. CASE Guard
  BY <1>1, <1>2, <1>3, <1>4, <1>5, Moves, MoveKeepsCourse, AnswerKeepsCourse DEF Guard, f
<1>6. CASE GuardChat
  <2>1. CASE req.surface = "completions" /\ ChatBackend # "mantle"
    <3>1. Moved("chat_typed")
      BY <1>1, <1>6, <2>1 DEF GuardChat, Moved, TypeOK, Request
    <3> QED
      BY <1>1, <1>2, <1>3, <1>6, <2>1, <3>1, MoveKeepsCourse DEF GuardChat, f
  <2>2. CASE req.surface = "completions" /\ ChatBackend = "mantle"
    BY <1>1, <1>2, <1>3, <1>6, <2>2, AnswerKeepsCourse DEF GuardChat, f
  <2>3. CASE req.surface = "chat"
    BY <1>1, <1>2, <1>3, <1>6, <2>3, Moves, MoveKeepsCourse, AnswerKeepsCourse
       DEF GuardChat, f
  <2> QED
    BY <1>6, <2>1, <2>2, <2>3 DEF GuardChat
<1>7. CASE ChatRaw
  BY <1>1, <1>2, <1>3, <1>4, <1>7, Moves, MoveKeepsCourse, AnswerKeepsCourse DEF ChatRaw, f
<1>8. CASE ChatTyped
  <2>1. CASE ChatBackend = "responses" /\ To(IF req.stream THEN "responses_raw" ELSE "respond")
    <3>1. PICK pc \in {"responses_raw", "respond"} : To(pc)
      BY <2>1
    <3> QED
      BY <1>1, <1>2, <1>3, <1>8, <2>1, <3>1, Moves, MoveKeepsCourse DEF ChatTyped, f
  <2>2. CASE ChatBackend = "mantle" /\ mantleEnabled /\ To("typed_mantle")
    BY <1>1, <1>2, <1>3, <1>8, <2>2, Moves, MoveKeepsCourse DEF ChatTyped, f
  <2> QED
    BY <1>1, <1>2, <1>3, <1>4, <1>8, <2>1, <2>2, AnswerKeepsCourse DEF ChatTyped, f
<1>9. CASE TypedMantle
  <2>1. ~ Undisturbed
    BY <1>1, <1>9 DEF TypedMantle
  <2> QED
    BY <1>1, <1>9, <2>1, AnswerKeepsCourse DEF TypedMantle
<1>10. CASE ResponsesRaw
  BY <1>1, <1>2, <1>3, <1>4, <1>10, Moves, MoveKeepsCourse, AnswerKeepsCourse
     DEF ResponsesRaw, f
<1>11. CASE RespondStream
  BY <1>1, <1>2, <1>3, <1>4, <1>11, AnswerKeepsCourse DEF RespondStream, f
<1>12. CASE Respond
  BY <1>1, <1>2, <1>3, <1>4, <1>12, Moves, MoveKeepsCourse, AnswerKeepsCourse DEF Respond, f
<1>13. CASE RegionGate
  BY <1>1, <1>2, <1>3, <1>4, <1>13, Moves, MoveKeepsCourse, AnswerKeepsCourse DEF RegionGate, f
<1>14. CASE RewriteModel
  BY <1>1, <1>2, <1>3, <1>4, <1>14, AnswerKeepsCourse DEF RewriteModel, f
<1> QED
  BY <1>5, <1>6, <1>7, <1>8, <1>9, <1>10, <1>11, <1>12, <1>13, <1>14 DEF Handle

\* A request that nothing disturbs is routed as models.toml says of what its
\* model means: to the upstream made for it and under the right id, or refused.
THEOREM RoutedAsConfigured == Spec => []RoutedByBackend
<1>1. Init => Course
  BY DEF Init, Course, Undisturbed, RoutedByBackend
<1>2. TypeOK /\ Course /\ [Next]_vars => Course'
  <2> SUFFICES ASSUME TypeOK, Course, [Next]_vars PROVE Course'
    OBVIOUS
  <2>1. CASE Handle
    BY <2>1, HandleKeepsCourse DEF IInv
  \* A new request starts where nothing has to be established.
  <2>2. CASE Arrive
    <3>1. /\ req'.pc \in {"guard", "responses_raw", "respond"}
          /\ req'.pc = "guard" => req'.surface # "responses"
          /\ req'.pc # "guard" => req'.surface = "responses"
      BY <2>2 DEF Arrive, Surfaces
    <3>2. Established(req.pc, Meaning)'
      BY <3>1 DEF Established
    <3>3. RoutedByBackend'
      BY <3>1 DEF RoutedByBackend
    <3> QED
      BY <3>2, <3>3 DEF Course
  \* New profiles either leave the request's meaning alone or disturb it.
  <2>3. CASE InstallProfiles
    <3>1. UNCHANGED <<req, mantleEnabled>>
      BY <2>3 DEF InstallProfiles
    <3>2. ~ disturbed' => ~ disturbed /\ Meaning' = Meaning
      BY <2>3, <3>1 DEF InstallProfiles, Meaning, Resolve
    <3>3. Undisturbed' => Established(req.pc, Meaning)'
      BY <3>1, <3>2 DEF Course, Undisturbed, Established, ServedOnChat, OnMantle, Chat, Responses
    <3>4. RoutedByBackend'
      BY <3>1, <3>2 DEF Course, RoutedByBackend, Meaning, Served, Chat, Responses, Callable
    <3> QED
      BY <3>3, <3>4 DEF Course
  <2>4. ASSUME UNCHANGED <<profiles, mantleEnabled, req, disturbed>>
        PROVE  Course'
    BY <2>4 DEF Course, Undisturbed, Established, Meaning, Resolve, ResolveIn, ServedOnChat,
          OnMantle, RoutedByBackend, Served, Chat, Responses, Callable
  <2> QED
    BY <2>1, <2>2, <2>3, <2>4
       DEF Next, Refresh, ControlPlaneChanges, Tick, ListSystemProfiles, ListApplicationProfiles,
           ListFoundationModels, ListingFails, InstallCatalog, shared, vars
<1> QED
  BY <1>1, <1>2, TypeCorrect, PTL DEF Spec, Course
-----------------------------------------------------------------------------
(* The catalog and the profile map *)

\* A catalog only advertises profiles of its own listing; the map is that of
\* the served catalog or, between the two swaps, that of the fresh one.
OneListing ==
    /\ catalog.listed \cap Profiles \subseteq catalog.profiles
    /\ fresh.listed \cap Profiles \subseteq fresh.profiles
    /\ profiles = IF refresher = "catalog" THEN fresh.profiles ELSE catalog.profiles

LEMMA CatalogAdvertisesItsOwn ==
    ASSUME NEW ps \in SUBSET Profiles
    PROVE  /\ Catalog(ps).profiles = ps
           /\ Catalog(ps).listed \cap Profiles \subseteq ps
           /\ MantleNames \cap Profiles = {}
<1>1. \A a \in Names : a \notin Profiles
  BY AliasAssumption
<1>2. DefaultModel \notin Profiles /\ OnDemand \cap Profiles = {}
  BY ListedAssumption
<1>3. MantleNames \subseteq Names
  BY DEF MantleNames
<1> QED
  BY <1>1, <1>2, <1>3 DEF Catalog

\* /models never advertises a profile that requests would not resolve, except,
\* for the time between the two swaps, one that is gone.
THEOREM AdvertisedAreKnown == Spec => []AdvertisedResolves
<1>1. Init => OneListing
  <2> SUFFICES ASSUME Init PROVE OneListing
    OBVIOUS
  <2>1. NoCatalog.listed = {} /\ NoCatalog.profiles = {}
    BY DEF NoCatalog
  <2>2. MantleNames \cap Profiles = {} /\ live \in SUBSET Profiles
    BY CatalogAdvertisesItsOwn DEF Init
  <2>3. CASE profiles = {} /\ catalog = [listed |-> MantleNames \cap Allowed, profiles |-> {}]
    BY <2>1, <2>2, <2>3 DEF Init, OneListing
  <2>4. CASE profiles = live /\ catalog = Catalog(live)
    BY <2>1, <2>2, <2>4, CatalogAdvertisesItsOwn DEF Init, OneListing
  <2> QED
    BY <2>3, <2>4 DEF Init
<1>2. TypeOK /\ OneListing /\ [Next]_vars => OneListing'
  <2> SUFFICES ASSUME TypeOK, OneListing, [Next]_vars PROVE OneListing'
    OBVIOUS
  <2>1. CASE ListFoundationModels
    BY <2>1, CatalogAdvertisesItsOwn
       DEF ListFoundationModels, RefreshStep, OneListing, TypeOK, shared
  <2>2. CASE InstallProfiles
    BY <2>2 DEF InstallProfiles, RefreshStep, ReplacedBy, OneListing
  <2>3. CASE InstallCatalog
    <3>1. NoCatalog.listed = {} /\ NoCatalog.profiles = {}
      BY DEF NoCatalog
    <3> QED
      BY <2>3, <3>1 DEF InstallCatalog, RefreshStep, OneListing
  <2>4. CASE Tick \/ ListSystemProfiles \/ ListApplicationProfiles \/ ListingFails
    BY <2>4 DEF Tick, ListSystemProfiles, ListApplicationProfiles, ListingFails, RefreshStep,
          OneListing, shared
  <2>5. CASE ControlPlaneChanges \/ Arrive
    BY <2>5 DEF ControlPlaneChanges, Arrive, OneListing, task, shared
  <2>6. CASE Handle
    <3>1. UNCHANGED rest
      BY <2>6 DEF Handle, Guard, GuardChat, ChatRaw, ChatTyped, TypedMantle, ResponsesRaw,
            RespondStream, Respond, RegionGate, RewriteModel, To, Answer, Reject, Internal
    <3> QED
      BY <3>1 DEF rest, OneListing, task, shared
  <2>7. CASE UNCHANGED vars
    BY <2>7 DEF vars, OneListing, task, shared
  <2> QED
    BY <2>1, <2>2, <2>3, <2>4, <2>5, <2>6, <2>7 DEF Next, Refresh
<1>3. OneListing => AdvertisedResolves
  BY DEF OneListing, AdvertisedResolves
<1> QED
  BY <1>1, <1>2, <1>3, TypeCorrect, PTL DEF Spec
=============================================================================
