----------------------------- MODULE MCRouting -----------------------------
(* Two profiles, one of each listing call, over five kinds of foundation.   *)
EXTENDS Routing

\* converse: no entry.  oss: mantle chat.  gpt: Responses on mantle, adapted
\* chat.  far: the same, elsewhere.  only: Responses on mantle and no chat.
MCFoundations == {"converse", "oss", "gpt", "far", "only"}

MCUnderlying == [p \in {"us.gpt", "arn.oss"} |-> IF p = "us.gpt" THEN "gpt" ELSE "oss"]

MCAliases == [a \in {"short", "chained"} |-> IF a = "short" THEN "far" ELSE "us.gpt"]

MCChatEntry ==
    [f \in MCFoundations |-> CASE f = "oss" -> "mantle"
                               [] f \in {"gpt", "far"} -> "responses"
                               [] OTHER -> "converse"]

MCResponsesEntry ==
    [f \in MCFoundations |-> IF f \in {"gpt", "far", "only"} THEN "mantle" ELSE "converse"]
=============================================================================
