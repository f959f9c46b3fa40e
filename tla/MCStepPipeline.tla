---------------------------- MODULE MCStepPipeline --------------------------
(* A scenario with two calls of one keyword, which calls another that would  *)
(* call it back, and a teardown that calls the second one too.               *)
EXTENDS StepPipeline

MCKeywords == {"signup", "verify"}

MCStepNames == {"fetch", "first", "tool", "second", "screen", "post", "inner", "hook",
                "query", "again", "wipe", "undo", "probe", "note", "listen", "check"}

S(name, kind, calls, attempts, gated, reads) ==
  [name |-> name, kind |-> kind, calls |-> calls, attempts |-> attempts,
   pauses |-> attempts > 2, gated |-> gated, reads |-> reads]

MCPlan ==
  [b \in {"main", "teardown"} \cup MCKeywords |->
     CASE b = "main" ->
            << S("fetch", "http", "unknown", 0, TRUE, {}),
               S("first", "keyword", "signup", 2, FALSE, {}),
               S("tool", "exec", "unknown", 2, FALSE, {"first"}),
               S("second", "keyword", "signup", 1, FALSE, {}),
               S("screen", "browser", "unknown", 1, FALSE, {"fetch"}) >>
       [] b = "teardown" ->
            << S("wipe", "keyword", "verify", 1, TRUE, {}),
               S("undo", "mobile", "unknown", 3, FALSE, {"fetch"}),
               S("probe", "load", "unknown", 1, FALSE, {}),
               S("note", "mail", "unknown", 1, FALSE, {}),
               S("listen", "webhook", "unknown", 1, FALSE, {}),
               S("check", "file", "unknown", 1, FALSE, {}) >>
       [] b = "signup" ->
            << S("post", "rpc", "unknown", 1, TRUE, {}),
               S("hook", "exec", "unknown", 2, FALSE, {}),
               S("inner", "keyword", "verify", 1, FALSE, {"post"}) >>
       [] b = "verify" ->
            << S("query", "sql", "unknown", 2, FALSE, {}),
               S("again", "keyword", "signup", 1, TRUE, {}) >>]

MCOutputs == [signup |-> {"post", "inner"}, verify |-> {"query"}]
=============================================================================
