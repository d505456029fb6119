--------------------------- MODULE MCConversation ---------------------------
(* Four rows of the capability table, with the ceiling, the floor and the  *)
(* flags chosen so that each rule applies to one and not to another.       *)
EXTENDS Conversation

Row(path, sorts) ==
    [path |-> path, sorts |-> sorts, sees |-> TRUE, noPrefill |-> FALSE, caching |-> TRUE,
     ceiling |-> 4, floor |-> 1, ttl1h |-> TRUE, dropSampling |-> FALSE, conflict |-> FALSE,
     skipChoice |-> FALSE]

MCModels ==
    { [Row("adaptive", {"signed", "redacted"}) EXCEPT !.noPrefill = TRUE, !.dropSampling = TRUE],
      [Row("budget", {"signed", "redacted"}) EXCEPT !.ceiling = 1, !.ttl1h = FALSE,
                                                    !.conflict = TRUE],
      [Row("deepseek", {"unsigned"}) EXCEPT !.sees = FALSE, !.caching = FALSE],
      [Row(None, {}) EXCEPT !.skipChoice = TRUE, !.floor = 2] }

F == [name |-> <<"f">>, ns |-> None, kind |-> "function"]
G == [name |-> <<"g">>, ns |-> "n", kind |-> "function"]

Bare ==
    [effort |-> None, max |-> 0, temperature |-> FALSE, topP |-> FALSE, tools |-> <<>>,
     choice |-> <<>>, thinking |-> FALSE, cacheSystem |-> None, cacheMessages |-> None,
     ttl |-> None, strip |-> FALSE]

MCOptions ==
    { [Bare EXCEPT !.thinking = TRUE, !.topP = TRUE],
      [Bare EXCEPT !.effort = "low", !.max = 1, !.temperature = TRUE, !.topP = TRUE,
                   !.tools = <<F, G>>, !.choice = <<"auto">>, !.ttl = "1h"],
      [Bare EXCEPT !.effort = "high", !.max = 5, !.topP = TRUE, !.tools = <<F, G>>,
                   !.choice = <<"tool", "f">>, !.cacheSystem = "off"],
      [Bare EXCEPT !.temperature = TRUE, !.topP = TRUE, !.tools = <<F, F>>,
                   !.choice = <<"none">>, !.strip = TRUE],
      [Bare EXCEPT !.effort = "medium", !.max = 3, !.tools = <<F>>, !.choice = <<"required">>] }

Ring(known, active, encoder) == [known |-> known, active |-> active, encoder |-> encoder]
MCKeyrings == { Ring({"k1"}, "k1", TRUE), Ring({"k1", "k2"}, "k2", TRUE), Ring({"k1"}, "k1", FALSE),
                Ring({"k2"}, "k2", TRUE) }

MCSetting == [caching |-> TRUE, ttl |-> "5m"]

Said  == Text(0)
Call  == ToolUse(0, <<>>)
Think(sort) == Reasoning(0, sort)

MCShapes == { <<Said>>, <<Call, Call>>, <<Think("signed"), Said, Said>>,
              <<Think("signed"), Think("redacted"), Said, Call, Call>>,
              <<Think("unsigned"), Said, Call>> }
=============================================================================
