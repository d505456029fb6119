---------------------------- MODULE CacheSupport ----------------------------
(***************************************************************************)
(* The prompt-cache safety net (bedrock/cache_support.rs) under concurrent *)
(* requests of all four send points: chat and Responses, streaming or not. *)
(* A model that rejects cachePoint blocks is found out by the first request*)
(* that injects them; the request is assembled again without them and sent *)
(* once more, and the model is remembered in a process-wide set that both  *)
(* providers consult.  The rejection is known by the words of its message, *)
(* so any model whose error speaks of cachePoints is remembered too, and   *)
(* nothing is ever forgotten.  Requests interleave at every await: image   *)
(* fetches before the set is read, and the send itself.                    *)
(***************************************************************************)
EXTENDS Naturals, Sequences, SequencesExt

CONSTANTS
    Requests,
    Models,        \* resolved model ids, as the requests name them
    Keys,          \* their normalized forms
    KeyOf,         \* normalize_for_match: several ids may share a key
    Rejecting      \* the models whose upstream accepts no cachePoint block

ASSUME KeyAssumption == KeyOf \in [Models -> Keys]
ASSUME RejectingAssumption == Rejecting \subseteq Models

VARIABLES
    model,     \* request -> the model it names
    wants,     \* request -> enabled zones would receive a cachePoint
    pc,        \* request -> where its handler is
    sent,      \* request -> for each send, whether it carried cachePoints
    answer,    \* request -> what the handler returned, or "none"
    marked,    \* CacheSupportRegistry.unsupported
    stale      \* history: requests in flight with cachePoints when their
               \* key was marked

vars == <<model, wants, pc, sent, answer, marked, stale>>

Key(r) == KeyOf[model[r]]

PcStates == {"assemble", "sending", "reassemble", "resending", "done", "cancelled"}
Answers  == {"none", "ok", "app_error", "upstream_error", "cache_error"}

InFlight(r) == pc[r] \in {"sending", "resending"}
CarriesPoints(r) == InFlight(r) /\ Last(sent[r])

Init ==
    /\ model \in [Requests -> Models]
    /\ wants \in [Requests -> BOOLEAN]
    /\ pc = [r \in Requests |-> "assemble"]
    /\ sent = [r \in Requests |-> <<>>]
    /\ answer = [r \in Requests |-> "none"]
    /\ marked = {}
    /\ stale = {}

Return(r, a) ==
    /\ pc' = [pc EXCEPT ![r] = "done"]
    /\ answer' = [answer EXCEPT ![r] = a]

\* Faulty: the set is consulted by nobody.
AssembleUngated(r) ==
    /\ pc[r] = "assemble"
    /\ sent' = [sent EXCEPT ![r] = Append(@, wants[r])]
    /\ pc' = [pc EXCEPT ![r] = "sending"]
    /\ UNCHANGED <<model, wants, answer, marked, stale>>

\* assemble(req, false), after its awaits: the set is read once, and the
\* decision travels with the request from here on.
Assemble(r) ==
    /\ pc[r] = "assemble"
    /\ sent' = [sent EXCEPT ![r] = Append(@, wants[r] /\ Key(r) \notin marked)]
    /\ pc' = [pc EXCEPT ![r] = "sending"]
    /\ UNCHANGED <<model, wants, answer, marked, stale>>

\* Faulty: the arguments of the first attempt are sent again.
ReassembleAsSent(r) ==
    /\ pc[r] = "reassemble"
    /\ sent' = [sent EXCEPT ![r] = Append(@, Last(@))]
    /\ pc' = [pc EXCEPT ![r] = "resending"]
    /\ UNCHANGED <<model, wants, answer, marked, stale>>

\* assemble(req, true): every zone is forced off.
Reassemble(r) ==
    /\ pc[r] = "reassemble"
    /\ sent' = [sent EXCEPT ![r] = Append(@, FALSE)]
    /\ pc' = [pc EXCEPT ![r] = "resending"]
    /\ UNCHANGED <<model, wants, answer, marked, stale>>

\* SendError::App: an assembly or the building of the SDK call fails.
GatewayError(r) ==
    /\ pc[r] \in {"assemble", "sending", "reassemble", "resending"}
    /\ Return(r, "app_error")
    /\ UNCHANGED <<model, wants, sent, marked, stale>>

\* The upstream serves a request with cachePoints only for a model that
\* supports them.
SendOk(r) ==
    /\ InFlight(r)
    /\ ~ (model[r] \in Rejecting /\ CarriesPoints(r))
    /\ Return(r, "ok")
    /\ UNCHANGED <<model, wants, sent, marked, stale>>

\* Throttling, a genuine authorization failure, a timeout, a 5xx.
SendError(r) ==
    /\ InFlight(r)
    /\ Return(r, "upstream_error")
    /\ UNCHANGED <<model, wants, sent, marked, stale>>

\* An error that is_cache_unsupported_error takes for a rejection: its words
\* are all that is looked at, so it may come from a model that supports
\* cachePoints (too many of them, a refused ttl) or about a request that
\* carried none.
Rejects(r) == InFlight(r)

\* Faulty: the model is remembered under the name the request used.
HealUnnormalized(r) ==
    /\ pc[r] = "sending" /\ Rejects(r) /\ Last(sent[r])
    /\ marked' = marked \cup {model[r]}
    /\ stale' = stale \cup {q \in Requests : CarriesPoints(q) /\ Key(q) = Key(r)}
    /\ pc' = [pc EXCEPT ![r] = "reassemble"]
    /\ UNCHANGED <<model, wants, sent, answer>>

\* Faulty: the guard cache_points_injected is missing.
HealAnyRejection(r) ==
    /\ pc[r] = "sending" /\ Rejects(r)
    /\ marked' = marked \cup {Key(r)}
    /\ stale' = stale \cup {q \in Requests : CarriesPoints(q) /\ Key(q) = Key(r)}
    /\ pc' = [pc EXCEPT ![r] = "reassemble"]
    /\ UNCHANGED <<model, wants, sent, answer>>

\* The first attempt injected cachePoints and they were rejected: remember the
\* model, then assemble once more.
Heal(r) ==
    /\ pc[r] = "sending" /\ Rejects(r) /\ Last(sent[r])
    /\ marked' = marked \cup {Key(r)}
    /\ stale' = stale \cup {q \in Requests : CarriesPoints(q) /\ Key(q) = Key(r)}
    /\ pc' = [pc EXCEPT ![r] = "reassemble"]
    /\ UNCHANGED <<model, wants, sent, answer>>

\* Faulty: every rejection is retried, the stripped attempt's too.
PropagateNever(r) ==
    /\ Rejects(r) /\ ~ Last(sent[r])
    /\ sent' = [sent EXCEPT ![r] = Front(@)]
    /\ pc' = [pc EXCEPT ![r] = "reassemble"]
    /\ UNCHANGED <<model, wants, answer, marked, stale>>

\* Nothing was injected, or this was the stripped attempt: no (second) retry.
Propagate(r) ==
    /\ Rejects(r) /\ (pc[r] = "resending" \/ ~ Last(sent[r]))
    /\ Return(r, "cache_error")
    /\ UNCHANGED <<model, wants, sent, marked, stale>>

\* The client disconnects; axum drops the handler at its await.
Cancel(r) ==
    /\ pc[r] \in {"assemble", "sending", "reassemble", "resending"}
    /\ pc' = [pc EXCEPT ![r] = "cancelled"]
    /\ UNCHANGED <<model, wants, sent, answer, marked, stale>>

Handle(r) ==
    \/ Assemble(r)
    \/ Reassemble(r)
    \/ GatewayError(r)
    \/ SendOk(r)
    \/ SendError(r)
    \/ Heal(r)
    \/ Propagate(r)

Next == \E r \in Requests : Handle(r) \/ Cancel(r)

Spec == Init /\ [][Next]_vars

\* Every send ends: the SDK client has a connect and a read timeout and a
\* bounded number of attempts (client.rs).
Fairness == \A r \in Requests : WF_vars(Handle(r))

FairSpec == Spec /\ Fairness
-----------------------------------------------------------------------------
(* Properties *)

\* Type invariant of the handlers and of the shared set; a request sends at
\* most twice.
TypeOK ==
    /\ model \in [Requests -> Models]
    /\ wants \in [Requests -> BOOLEAN]
    /\ pc \in [Requests -> PcStates]
    /\ sent \in [Requests -> Seq(BOOLEAN)] /\ \A r \in Requests : Len(sent[r]) <= 2
    /\ answer \in [Requests -> Answers]
    /\ marked \subseteq Keys
    /\ stale \subseteq Requests

\* As far as the place of its handler tells, cachePoints that r carried were
\* refused.
PointsRefused(r) ==
    /\ sent[r] # <<>> /\ sent[r][1]
    /\ Len(sent[r]) = 2 \/ pc[r] \in {"reassemble", "cancelled"} \/ answer[r] = "app_error"

\* The set holds what refusals taught and nothing less.  A key is in it only
\* on account of a request for one of its models whose own cachePoints were
\* refused: cache vocabulary in the error of a request that carried none marks
\* nothing.  And no request that wanted cachePoints is served by a model that
\* accepts none before the model's key is in it.
MarksAreEarned ==
    /\ \A k \in marked : \E r \in Requests : Key(r) = k /\ PointsRefused(r)
    /\ \A r \in Requests :
         answer[r] = "ok" /\ wants[r] /\ model[r] \in Rejecting => Key(r) \in marked

\* The safety net never makes a request worse: whoever is told of a cache
\* rejection was rejected on a request that carried no cachePoints.
RejectionHealed ==
    \A r \in Requests : answer[r] = "cache_error" => ~ Last(sent[r])

\* Once a key is marked, only requests that were already on their way with
\* cachePoints can still be rejected for them.
OnlyInFlightRelapse ==
    \A r \in Requests : CarriesPoints(r) /\ Key(r) \in marked => r \in stale

\* Inductive: where a handler is says what it has sent, and a request that
\* carries less than it wanted has its key in the set.
Progress ==
    \A r \in Requests :
        /\ pc[r] = "assemble" => sent[r] = <<>>
        /\ pc[r] \in {"sending", "reassemble"} => Len(sent[r]) = 1
        /\ pc[r] = "reassemble" => sent[r][1] /\ Key(r) \in marked
        /\ pc[r] = "resending" => Len(sent[r]) = 2 /\ sent[r][1] /\ ~ Last(sent[r])
        /\ InFlight(r) /\ wants[r] /\ ~ Last(sent[r]) => Key(r) \in marked
        /\ pc[r] # "done" => answer[r] = "none"

CacheInv == TypeOK /\ Progress /\ MarksAreEarned /\ RejectionHealed
                  /\ OnlyInFlightRelapse

\* Every request is answered or abandoned by its client: no retry loop.
EveryRequestEnds == \A r \in Requests : <>(pc[r] \in {"done", "cancelled"})
=============================================================================
