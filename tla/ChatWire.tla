------------------------------ MODULE ChatWire ------------------------------
(***************************************************************************)
(* What a client of POST /v1/chat/completions with stream = true may rely  *)
(* on, whichever backend answers: the assistant's role comes first, then   *)
(* content and tool calls in any order, each call announced once, under    *)
(* the next index, before any piece of its arguments; one finish, which    *)
(* leaves no <think> open and is followed by the usage at most; an error   *)
(* ends everything but [DONE].  It is a protocol over delivered chunks:    *)
(* nothing is said of what they contain, only of what may follow what.     *)
(***************************************************************************)
EXTENDS Integers

VARIABLES
    stage,   \* what the client may get next
    think,   \* is a <think> open
    shown,   \* how much content was delivered
    args     \* call index -> how much of its arguments was delivered

wire == <<stage, think, shown, args>>

Init ==
    /\ stage = "new" /\ think = FALSE /\ shown = 0
    /\ args = [i \in {} |-> 0]

Role ==
    /\ stage = "new" /\ stage' = "body"
    /\ UNCHANGED <<think, shown, args>>

\* A chunk of content may open or close the tag, with or without text.
Content ==
    /\ stage = "body"
    /\ think' \in BOOLEAN
    /\ shown' \in Nat /\ shown' >= shown
    /\ UNCHANGED <<stage, args>>

Announce ==
    /\ stage = "body"
    /\ \E n \in DOMAIN args' :
          /\ DOMAIN args = 0 .. n - 1
          /\ args' = [i \in 0 .. n |-> IF i < n THEN args[i] ELSE 0]
    /\ UNCHANGED <<stage, think, shown>>

Argue(i) ==
    /\ stage = "body"
    /\ args' = [args EXCEPT ![i] = args'[i]]
    /\ args'[i] > args[i]
    /\ UNCHANGED <<stage, think, shown>>

\* The finish chunk may carry the closing tag.
Finish ==
    /\ stage = "body" /\ stage' = "finished"
    /\ think' = FALSE
    /\ UNCHANGED <<shown, args>>

Meter ==
    /\ stage = "finished" /\ stage' = "metered"
    /\ UNCHANGED <<think, shown, args>>

Error ==
    /\ stage \notin {"failed", "ended"} /\ stage' = "failed"
    /\ UNCHANGED <<think, shown, args>>

Done ==
    /\ stage # "ended" /\ stage' = "ended"
    /\ UNCHANGED <<think, shown, args>>

Next ==
    \/ Role \/ Content \/ Announce \/ \E i \in DOMAIN args : Argue(i)
    \/ Finish \/ Meter \/ Error \/ Done

Spec == Init /\ [][Next]_wire
=============================================================================
