----------------------------- MODULE MCFrontEnd -----------------------------
(* Small trees of files.                                                    *)
EXTENDS SuiteFiles

P(kind, attrs) == [kind |-> kind, attrs |-> attrs, reads |-> {}]

Block(type, provider, name, parts) ==
  [type |-> type, provider |-> provider, name |-> name, dependsOn |-> {}, parts |-> parts,
   vars |-> <<>>, gateUses |-> {}, uses |-> {}]

Reading(kind, attrs, attr, refs) == [P(kind, attrs) EXCEPT !.reads = {attr} \X refs]

\* An http step block whose url reads results.
B(type, name, refs) ==
  Block(type, "http", name,
        {P(<<"step", "http">>, {"request"}), Reading(<<"request", "request">>, {"url"}, "url", refs)})

Blocks ==
       {B(type, name, refs) : type \in {"step", "case"}, name \in {"a", "b"},
                              refs \in {{}, {"a"}, {"b"}}}
  \cup {[B("step", "b", {}) EXCEPT !.dependsOn = {"a"}],
        Block("step", "file", "a", {P(<<"step", "file">>, {"path"})})}

V(name, reads) == [name |-> name, reads |-> reads]

\* Steps with variables, good and bad.
VarBlocks ==
  {[B("step", "v", {}) EXCEPT !.vars = vs, !.gateUses = gate, !.uses = uses] :
     vs \in {<<>>, <<V("x", {})>>, <<V("x", {"x"})>>, <<V("x", {}), V("y", {"x"})>>,
             <<V("y", {"x"}), V("x", {})>>, <<V("x", {}), V("x", {})>>},
     gate \in {{}, {"x"}}, uses \in {{}, {"x"}, {"y"}}}

F(config, generators, keywords, scenarios, teardowns) ==
  [parses |-> TRUE, config |-> config, generators |-> generators, keywords |-> keywords,
   scenarios |-> scenarios, teardowns |-> teardowns]

D(name) == [name |-> name]
K(blocks) == [name |-> "k", blocks |-> blocks]
Sc(blocks, teardowns) == [name |-> "s", blocks |-> blocks, teardowns |-> teardowns]

Tree(files) == [readable |-> TRUE, files |-> files]

\* Sequences of up to two of them.
UpToTwo(set) == {<<>>} \cup {<<x>> : x \in set} \cup {<<x, y>> : x, y \in set}

\* One scenario with up to three steps and a teardown of one or two blocks; a keyword,
\* or a suite teardown, with up to two.
OneFile ==
       {F({}, <<>>, <<>>, <<Sc(blocks, teardowns)>>, <<>>) :
          blocks \in UpToTwo(Blocks),
          teardowns \in {<<>>, <<<<B("case", "t", {"c"}), B("step", "a", {"a"})>>>>,
                         <<<<B("step", "t", {"u"})>>, <<B("case", "u", {}), B("step", "v", {})>>>>}}
  \cup {F({}, <<>>, <<>>, <<Sc(<<B("case", "c", {})>> \o blocks, <<>>)>>, <<>>) :
          blocks \in UpToTwo(Blocks)}
  \cup {F({}, <<>>, <<K(blocks)>>, <<>>, <<>>) : blocks \in UpToTwo(Blocks)}
  \cup {F({}, <<>>, <<>>, <<>>, <<blocks>>) : blocks \in UpToTwo(Blocks)}
  \cup {F({}, <<>>, <<K(<<b>>)>>, <<>>, <<>>) : b \in VarBlocks}
  \cup {F({}, <<>>, <<>>, <<Sc(<<b>>, <<>>)>>, <<>>) : b \in VarBlocks}
  \cup {F({}, <<>>, <<>>, <<Sc(<<>>, <<<<b>>>>)>>, <<>>) : b \in VarBlocks}
  \cup {F({}, <<>>, <<>>, <<>>, <<<<b>>>>) : b \in VarBlocks}

\* Files that share names, one of which may not decode.
Sharing ==
  {F(IF scenarios = <<>> THEN {} ELSE {"url"}, generators, keywords, scenarios, teardowns) :
     generators \in {<<>>, <<D("g")>>, <<D("g"), D("g")>>},
     keywords \in {<<>>, <<K(<<>>), K(<<B("step", "a", {})>>)>>},
     scenarios \in {<<>>, <<Sc(<<>>, <<>>)>>},
     teardowns \in {<<>>, <<<<>>>>, <<<<B("step", "a", {})>>, <<B("case", "b", {})>>>>}}
  \cup {[F({}, <<>>, <<>>, <<>>, <<>>) EXCEPT !.parses = FALSE]}

-----------------------------------------------------------------------------
(* One step of every kind of part.                                         *)

\* A choice of each group: what a block must have to be accepted.
Bases(form) ==
  {form.req \cup UNION {choice[g] : g \in form.one} :
     choice \in {c \in [form.one -> UNION form.one] : \A g \in form.one : c[g] \in g}}

UpTo2(set) == {{}} \cup {{x, y} : x, y \in set}

\* One member more, one less, all, and any two: most are rejected.
Variants(kind) ==
  LET form == FormOf(kind)
      members == Known(form) \cup {"(unknown)"}
  IN UpTo2(members) \cup Bases(form) \cup {Known(form)}
     \cup UNION {{base \cup {m}, base \ {m}} : base \in Bases(form), m \in members}

Mobile == {"platform", "target"}
With(provider, members) == P(<<"step", provider>>, members)
Expects(provider, members) == P(<<"expect", provider>>, members)

\* The members a step of the provider has at least.
Minimal ==
  [http |-> {"request"}, mobile |-> Mobile, browser |-> {}, sql |-> {"connection", "exec"},
   mail |-> {"target", "message"}, load |-> {"http", "run"}, webhook |-> {"wait", "target"},
   rpc |-> {"target", "call"}, file |-> {"path"}, exec |-> {"command"}, keyword |-> {"name"}]

\* The blocks a part is nested in.
AroundRequest(family, name) ==
  CASE name = "request" -> {}
    [] name = "body" -> {P(<<family, "request">>, {"body"})}
    [] name = "basic" -> {P(<<family, "request">>, {"auth"})}
    [] OTHER -> {P(<<family, "request">>, {"body"}), P(<<family, "body">>, {"multipart"})}

AroundBlock ==
  [run |-> {With("load", Minimal.load)}, exec |-> {With("sql", {"connection", "exec"})},
   query |-> {With("sql", {"connection", "query"})}, message |-> {With("mail", Minimal.mail)},
   attachment |-> {With("mail", Minimal.mail), P(<<"block", "message">>, {"from", "to", "attachment"})},
   start |-> {With("webhook", {"start"})}, wait |-> {With("webhook", {"wait", "target"})},
   stop |-> {With("webhook", {"stop"})},
   request_expect |-> {With("webhook", {"wait", "target", "expect"}), Expects("webhook", {"request"})},
   hmac_signature |->
     {With("webhook", {"wait", "target", "expect"}), Expects("webhook", {"hmac_signature"})},
   call |-> {With("rpc", Minimal.rpc)}, sandbox |-> {With("exec", {"command", "sandbox"})},
   save |-> {With("http", {"request", "save"})}, retry |-> {With("http", {"request", "retry"})},
   skip_if |-> {With("exec", {"command", "skip_if"})},
   skip_unless |-> {With("rpc", Minimal.rpc \cup {"skip_unless"})}]

Around(kind) ==
  LET family == kind[1]  name == kind[2]
  IN CASE family = "step" -> {}
       [] family = "expect" -> {With(name, Minimal[name] \cup {"expect"})}
       [] family = "mobile" -> {With("mobile", Mobile \cup {"actions"})}
       [] family = "mobile_part" -> {With("mobile", Mobile \cup {name})}
       [] family = "mobile_expect" -> {With("mobile", Mobile \cup {"expect"}), Expects("mobile", {name})}
       [] family = "browser" -> {With("browser", {"actions"})}
       [] family = "browser_expect" -> {With("browser", {"expect"}), Expects("browser", {name})}
       [] family = "request" -> {With("http", {"request"})} \cup AroundRequest("request", name)
       [] family = "load_http" -> {With("load", Minimal.load)} \cup AroundRequest("load_http", name)
       [] family = "block" -> AroundBlock[name]

\* The step that a part is of, or is in.
StepWith(part) ==
  LET parts == Around(part.kind) \cup {part}
      step == CHOOSE q \in parts : q.kind[1] = "step"
  IN Block("step", step.kind[2], "b", parts)

\* Every variant of a part; every expression of an accepted one reading `c', defined
\* below, or `a', defined above.
PartBlocks ==
  UNION {{StepWith(P(kind, attrs)) : attrs \in Variants(kind)} : kind \in Kinds}
  \cup UNION {UNION {{StepWith(Reading(kind, base \cup {attr}, attr, {name})) : base \in Bases(FormOf(kind))} :
                  attr \in Expressions(kind), name \in {"a", "c"}} : kind \in Kinds}
  \cup {Block("step", "webhook", "b", {With("webhook", {"stop", "expect"}),
                                       Expects("webhook", {"hmac_signature"})})}

PartFiles ==
  {F({}, <<>>, <<>>, <<Sc(<<B("step", "a", {}), b, B("step", "c", {})>>, <<>>)>>, <<>>) :
     b \in PartBlocks}

\* A browser step that reads the result of a step below it, and a mail with an
\* attachment from a file.
Documented ==
  F({}, <<>>, <<>>,
    <<Sc(<<StepWith(Reading(<<"browser", "goto">>, {"url"}, "url", {"c"})),
           [StepWith(P(<<"block", "attachment">>, {"filename", "path"})) EXCEPT !.name = "c"]>>,
         <<>>)>>, <<>>)

DocumentedTrees == {Tree(<<Documented>>)}

MCTrees ==
       {[readable |-> FALSE, files |-> <<>>], Tree(<<>>)}
  \cup {Tree(<<f>>) : f \in OneFile \cup PartFiles}
  \cup {Tree(fs) : fs \in [1..2 -> Sharing]}
=============================================================================
