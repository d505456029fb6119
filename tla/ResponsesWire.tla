--------------------------- MODULE ResponsesWire ---------------------------
(***************************************************************************)
(* What a client of POST /v1/responses may rely on while it reads one      *)
(* streamed answer: the lifecycle documented at the head of                *)
(* bedrock/responses_stream.rs, as a protocol of the delivered events      *)
(* alone.  Nothing is said here of how the gateway obtains the events;     *)
(* ResponsesStream implements this module.                                 *)
(*                                                                         *)
(* An output item is one of three kinds:                                   *)
(*   "content"   a reasoning or a message item, with one part inside;      *)
(*   "call"      a function or custom call, announced when it starts;      *)
(*   "late_call" a shell or patch call, announced only when it is whole.   *)
(***************************************************************************)
EXTENDS Naturals

VARIABLES
    envelope,   \* how much of response.created, response.in_progress was sent
    item,       \* output_index -> [kind, phase], for the items announced
    terminal    \* the typed event that closed the lifecycle, or "none"

wireVars == <<envelope, item, terminal>>

ItemKinds == {"content", "call", "late_call"}
Phases    == {"added", "part", "text_done", "part_done", "args_done", "done"}
Terminals == {"completed", "incomplete", "failed"}

CallKinds == {"call", "late_call"}

\* Item i is announced and is in one of the phases ps.
In(i, kinds, ps) ==
    i \in DOMAIN item /\ item[i].kind \in kinds /\ item[i].phase \in ps

Move(i, p) ==
    /\ item' = [item EXCEPT ![i].phase = p]
    /\ UNCHANGED <<envelope, terminal>>

Live == terminal = "none" /\ envelope = "in_progress"

WireInit ==
    /\ envelope = "none"
    /\ item = [i \in {} |-> [kind |-> "content", phase |-> "done"]]
    /\ terminal = "none"
-----------------------------------------------------------------------------
Created ==
    /\ terminal = "none" /\ envelope = "none"
    /\ envelope' = "created"
    /\ UNCHANGED <<item, terminal>>

InProgress ==
    /\ terminal = "none" /\ envelope = "created"
    /\ envelope' = "in_progress"
    /\ UNCHANGED <<item, terminal>>

\* An output_index is announced once and never reused.
Add(i, k) ==
    /\ Live /\ i \notin DOMAIN item
    /\ item' = [j \in DOMAIN item \cup {i} |->
                   IF j = i THEN [kind |-> k, phase |-> "added"] ELSE item[j]]
    /\ UNCHANGED <<envelope, terminal>>

PartAdded(i) == Live /\ In(i, {"content"}, {"added"}) /\ Move(i, "part")

\* A fragment is delivered only inside an open part or an announced call.
Delta(i) ==
    /\ Live
    /\ In(i, {"content"}, {"part"}) \/ In(i, {"call"}, {"added"})
    /\ UNCHANGED wireVars

\* Both reasoning families report their full text, so this may come twice.
TextDone(i) ==
    Live /\ In(i, {"content"}, {"part", "text_done"}) /\ Move(i, "text_done")

PartDone(i) ==
    Live /\ In(i, {"content"}, {"part", "text_done"}) /\ Move(i, "part_done")

ArgsDone(i) == Live /\ In(i, {"call"}, {"added"}) /\ Move(i, "args_done")

ItemDone(i) ==
    /\ Live
    /\ \/ In(i, {"content"}, {"part_done"})
       \/ In(i, {"call"}, {"args_done"})
       \/ In(i, {"late_call"}, {"added"})
    /\ Move(i, "done")

\* response.completed leaves nothing open; response.incomplete leaves at most
\* calls that never became executable; response.failed follows no executable
\* call.  A stream that never saw an upstream event has no envelope at all.
Terminate(t) ==
    /\ terminal = "none"
    /\ envelope # "created"
    /\ t = "completed"  => \A i \in DOMAIN item : item[i].phase = "done"
    /\ t = "incomplete" => \A i \in DOMAIN item :
                               item[i].phase = "done" \/ In(i, {"call"}, {"added"})
    /\ t = "failed"     => \A i \in DOMAIN item :
                               ~ In(i, CallKinds, {"args_done", "done"})
    /\ terminal' = t
    /\ UNCHANGED <<envelope, item>>

WireNext ==
    \/ Created
    \/ InProgress
    \/ \E i \in DOMAIN item', k \in ItemKinds : Add(i, k)
    \/ \E i \in DOMAIN item :
          PartAdded(i) \/ Delta(i) \/ TextDone(i) \/ PartDone(i)
             \/ ArgsDone(i) \/ ItemDone(i)
    \/ \E t \in Terminals : Terminate(t)

WireSpec == WireInit /\ [][WireNext]_wireVars
=============================================================================
