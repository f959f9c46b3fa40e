----------------------------- MODULE SuiteFiles -----------------------------
(***************************************************************************)
(* Loading a suite: the .tales files under a path are decoded one by one   *)
(* in the order of their names, merged into one suite, and validated. What *)
(* ScenarioRun and StepPipeline assume of a plan (names are unique, a step *)
(* reads only earlier results) is what `validateSuite' is there to ensure. *)
(*                                                                         *)
(* A definition is known by its place <<file, position>>. A step block is  *)
(* a set of parts (StepLowering), itself and blocks nested in it (one that *)
(* is not listed has what its decoder demands and reads nothing), and what *)
(* the checks of `vars' need: its variables with what each reads of the    *)
(* others, what of them `when' and the skip rules use, and the rest.       *)
(***************************************************************************)
EXTENDS Integers, Sequences, SequencesExt, StepLowering

CONSTANT Trees    \* what LoadPath may find: [readable, files], files in path order

IsList(s) == s \in Seq(Range(s))
IsListOf(s, Valid(_)) == IsList(s) /\ \A n \in DOMAIN s : Valid(s[n])

\* A reference is in an expression of its block.
APart(part) == part.kind \in Kinds /\ \A r \in part.reads : r[1] \in Expressions(part.kind)

\* The body of a scenario, a keyword or a teardown: the schema has two types of block.
ABlock(b) == b.type \in {"step", "case"} /\ \A part \in b.parts : APart(part)
ABody(blocks) == IsListOf(blocks, ABlock)
AScenario(sc) == ABody(sc.blocks) /\ IsListOf(sc.teardowns, ABody)
AKeyword(k) == ABody(k.blocks)

AFile(file) ==
  /\ IsList(file.generators)
  /\ IsListOf(file.keywords, AKeyword)
  /\ IsListOf(file.scenarios, AScenario)
  /\ IsListOf(file.teardowns, ABody)

ASSUME TreesAreTrees == \A t \in Trees : IsListOf(t.files, AFile)

VARIABLES
  tree,     \* what this command found
  next,     \* the file LoadPath is at
  suite,    \* the merged suite
  diags,    \* the error diagnostics, by summary
  status    \* "loading", "loaded", "rejected"

vars == <<tree, next, suite, diags, status>>

Names(steps) == {steps[i].name : i \in DOMAIN steps}

-----------------------------------------------------------------------------
(* decodeFile.                                                             *)

\* The blocks of one type, in the order of the file.
Slice(blocks, type) ==
  LET own == {n \in DOMAIN blocks : blocks[n].type = type}
  IN [p \in 1..Cardinality(own) |->
        blocks[CHOOSE n \in own : Cardinality({m \in own : m <= n}) = p]]

\* gohcl decodes the step blocks and the case blocks into two slices.
Decoded(blocks) == Slice(blocks, "step") \o Slice(blocks, "case")

Key(b) == <<b.provider, b.name>>

\* Mutant: the slices of gohcl are run as they are.
KeepDecodedOrder(steps, blocks) == steps

\* The walk of the syntax tree that recovers the order of the file, unless two
\* blocks have the same labels.
ReorderStepsBySource(steps, blocks) ==
  IF \E i, j \in DOMAIN steps : i # j /\ Key(steps[i]) = Key(steps[j])
  THEN steps
  ELSE [n \in DOMAIN blocks |->
          CHOOSE s \in Range(steps) : Key(s) = Key(blocks[n])]

DecodeSteps(blocks) == ReorderStepsBySource(Decoded(blocks), blocks)

DecodeTeardowns(teardowns) ==
  FlattenSeq([k \in DOMAIN teardowns |-> DecodeSteps(teardowns[k])])

\* suite.Generators[name] = ..., suite.Keywords[name] = ...: of two blocks with one
\* name in one file, the map keeps the last.
Assigned(f, blocks) ==
  [name \in {blocks[i].name : i \in DOMAIN blocks} |->
     <<f, CHOOSE i \in DOMAIN blocks :
            /\ blocks[i].name = name
            /\ \A j \in DOMAIN blocks : blocks[j].name = name => j <= i>>]

AllBlocks(file) ==
  Range(FlattenSeq(file.teardowns))
  \cup (UNION {UNION {Range(file.scenarios[i].blocks),
                      Range(FlattenSeq(file.scenarios[i].teardowns))} :
                 i \in DOMAIN file.scenarios})
  \cup (UNION {Range(file.keywords[i].blocks) : i \in DOMAIN file.keywords})

\* The diagnostics of all blocks are collected; one is enough.
Decodes(file) ==
  /\ file.parses
  /\ \A b \in AllBlocks(file) : \A part \in b.parts : Accepts(part)

DecodeFile(f, file) ==
  [config |-> [k \in file.config |-> f],
   generators |-> Assigned(f, file.generators),
   keywords |-> Assigned(f, file.keywords),
   keywordSteps |-> [p \in {<<f, i>> : i \in DOMAIN file.keywords} |->
                       DecodeSteps(file.keywords[p[2]].blocks)],
   scenarios |-> [i \in DOMAIN file.scenarios |->
                    [name |-> file.scenarios[i].name, place |-> <<f, i>>,
                     steps |-> DecodeSteps(file.scenarios[i].blocks),
                     teardown |-> DecodeTeardowns(file.scenarios[i].teardowns)]],
   teardown |-> DecodeTeardowns(file.teardowns),
   teardownFile |-> IF DecodeTeardowns(file.teardowns) = <<>> THEN 0 ELSE f]

-----------------------------------------------------------------------------
(* mergeSuite.                                                             *)

\* f, and g where f says nothing.
Over(f, g) ==
  [x \in DOMAIN f \cup DOMAIN g |-> IF x \in DOMAIN f THEN f[x] ELSE g[x]]

\* A name another file has already defined is an error, and the first one stays.
MergeNamed(dst, src) == Over(dst, src)

\* Mutant: names are not compared across files.
NoClash(dst, src) == FALSE

Clash(dst, src) == DOMAIN dst \cap DOMAIN src # {}

MergeSuite(dst, src) ==
  [config |-> Over(src.config, dst.config),             \* the later file wins
   generators |-> MergeNamed(dst.generators, src.generators),
   keywords |-> MergeNamed(dst.keywords, src.keywords),
   keywordSteps |-> Over(src.keywordSteps, dst.keywordSteps),
   scenarios |-> dst.scenarios \o src.scenarios,
   teardown |-> IF dst.teardownFile = 0 THEN src.teardown ELSE dst.teardown,
   teardownFile |-> IF dst.teardownFile = 0 THEN src.teardownFile ELSE dst.teardownFile]

Report(summary, wrong) == IF wrong THEN {summary} ELSE {}

MergeErrors(dst, src) ==
       Report("Duplicate generator", Clash(dst.generators, src.generators))
  \cup Report("Duplicate keyword", Clash(dst.keywords, src.keywords))
  \cup Report("Duplicate suite teardown", dst.teardownFile # 0 /\ src.teardown # <<>>)

-----------------------------------------------------------------------------
(* validateSuite.                                                          *)

Before(steps, i) == {steps[j].name : j \in 1..(i - 1)}

StepDependencies(step) == step.dependsOn \cup UNION {FindStepRefs(part) : part \in step.parts}

\* Mutant: the check of a step is made against all steps of the scenario.
ValidateKnownOnly(steps) ==
  \A i \in DOMAIN steps :
    /\ steps[i].name \notin StepDependencies(steps[i])
    /\ StepDependencies(steps[i]) \subseteq Names(steps)

ValidateStepOrder(steps) ==
  \A i \in DOMAIN steps :
    /\ steps[i].name \notin StepDependencies(steps[i])
    /\ StepDependencies(steps[i]) \subseteq Before(steps, i)

\* vars reads only what is declared above it, when and the skip rules nothing, the
\* rest of the step (`uses') what is declared at all.
ValidateStepVars(step) ==
  /\ IsInjective([k \in DOMAIN step.vars |-> step.vars[k].name])
  /\ \A k \in DOMAIN step.vars : step.vars[k].reads \subseteq Before(step.vars, k)
  /\ step.gateUses = {}
  /\ step.uses \subseteq Names(step.vars)

VarsValid(steps) == \A i \in DOMAIN steps : ValidateStepVars(steps[i])

UniqueNames(steps) == IsInjective([i \in DOMAIN steps |-> steps[i].name])

KeywordSteps(name) == suite.keywordSteps[suite.keywords[name]]

KeywordsValid ==
  \A name \in DOMAIN suite.keywords :
    UniqueNames(KeywordSteps(name)) /\ VarsValid(KeywordSteps(name))

ScenarioValid(sc) ==
  /\ UniqueNames(sc.steps \o sc.teardown)
  /\ ValidateStepOrder(sc.steps)
  /\ VarsValid(sc.steps \o sc.teardown)

SuiteTeardownValid == UniqueNames(suite.teardown) /\ VarsValid(suite.teardown)

ValidateSuite ==
  /\ UniqueNames(suite.scenarios)
  /\ \A i \in DOMAIN suite.scenarios : ScenarioValid(suite.scenarios[i])
  /\ KeywordsValid
  /\ SuiteTeardownValid

-----------------------------------------------------------------------------
(* LoadPath.                                                               *)
Empty == [config |-> <<>>, generators |-> <<>>, keywords |-> <<>>, keywordSteps |-> <<>>,
          scenarios |-> <<>>, teardown |-> <<>>, teardownFile |-> 0]

Init ==
  /\ tree \in Trees
  /\ next = 1 /\ suite = Empty /\ diags = {} /\ status = "loading"

\* No such path, a file without the extension, a directory without a .tales file.
CollectFails ==
  /\ status = "loading" /\ next = 1
  /\ ~tree.readable \/ tree.files = <<>>
  /\ diags' = {"Invalid path"} /\ status' = "rejected"
  /\ UNCHANGED <<tree, next, suite>>

\* A file that cannot be decoded is reported and left out; the others go on.
LoadFile ==
  /\ status = "loading" /\ tree.readable /\ next \in DOMAIN tree.files
  /\ LET file == tree.files[next]
         decoded == DecodeFile(next, file)
     IN IF ~Decodes(file)
        THEN /\ diags' = diags \cup {"Decode error"}
             /\ UNCHANGED suite
        ELSE /\ diags' = diags \cup MergeErrors(suite, decoded)
             /\ suite' = MergeSuite(suite, decoded)
  /\ next' = next + 1
  /\ UNCHANGED <<tree, status>>

\* All diagnostics are collected before the answer, so one bad file does not hide
\* what is wrong with the others.
Finish ==
  /\ status = "loading" /\ tree.readable /\ tree.files # <<>>
  /\ next = Len(tree.files) + 1
  /\ diags' = diags \cup Report("Invalid suite", ~ValidateSuite)
  /\ status' = IF diags' = {} THEN "loaded" ELSE "rejected"
  /\ UNCHANGED <<tree, next, suite>>

Next == CollectFails \/ LoadFile \/ Finish

Spec == Init /\ [][Next]_vars

-----------------------------------------------------------------------------
(* Properties.                                                             *)
Loaded == status = "loaded"

Written(place) == tree.files[place[1]].scenarios[place[2]]

\* The steps of a loaded suite are in the order of their file, `step' and `case'
\* blocks interleaved: a reordering that is given up for blocks with equal labels
\* must never reach a run, which takes the slice as the order of execution.
StepsRunInFileOrder ==
  Loaded =>
    /\ \A i \in DOMAIN suite.scenarios :
         LET sc == suite.scenarios[i]
         IN /\ sc.steps = Written(sc.place).blocks
            /\ sc.teardown = FlattenSeq(Written(sc.place).teardowns)
    /\ \A name \in DOMAIN suite.keywords :
         LET place == suite.keywords[name]
         IN KeywordSteps(name) = tree.files[place[1]].keywords[place[2]].blocks
    /\ suite.teardownFile # 0 =>
         suite.teardown = FlattenSeq(tree.files[suite.teardownFile].teardowns)

AllLists ==
       (UNION {{sc.steps, sc.teardown} : sc \in Range(suite.scenarios)})
  \cup {KeywordSteps(name) : name \in DOMAIN suite.keywords} \cup {suite.teardown}

AllSteps == UNION {Range(steps) : steps \in AllLists}

\* Where a reference is not looked at when the suite is loaded.
NotCollected(kind, attr) ==
  \/ kind[1] \in {"browser", "browser_expect", "load_http"}
  \/ kind[2] \in {"message", "attachment", "run", "multipart_file", "multipart_field"}
  \/ kind = <<"expect", "load">> /\ attr \in LoadExpectShortcuts
  \/ kind[1] = "step" /\ kind[2] \in {"browser", "mail"} /\ attr = "target"
  \/ kind[1] = "mobile" /\ attr = "first"

EvaluatedReads(part) == {r \in part.reads : r[1] \in Evaluated(part)}

\* What the steps of a loaded suite evaluate is there: the result of a step written
\* above (main steps; a teardown may guard its reads), but for the attributes no
\* collector visits; and, in every list, the variable of a `vars' entry above.
ReadsAreServed ==
  Loaded =>
    /\ \A i \in DOMAIN suite.scenarios :
         LET blocks == Written(suite.scenarios[i].place).blocks
         IN \A n \in DOMAIN blocks :
              /\ blocks[n].dependsOn \subseteq Before(blocks, n)
              /\ \A part \in blocks[n].parts : \A r \in EvaluatedReads(part) :
                   r[2] \in Before(blocks, n) \/ NotCollected(part.kind, r[1])
    /\ \A steps \in AllLists : \A n \in DOMAIN steps :
         LET vs == steps[n].vars
         IN /\ \A k \in DOMAIN vs : vs[k].reads \subseteq Before(vs, k)
            /\ steps[n].gateUses = {} /\ steps[n].uses \subseteq Names(vs)

\* What the decoders leave to the lowering, which refuses it when the step runs; an
\* attachment by path is refused whatever else it has.
FailsLate(part) ==
  \/ part.kind = <<"step", "http">> /\ "request" \notin part.attrs
  \/ part.kind = <<"step", "keyword">> /\ "name" \notin part.attrs
  \/ part.kind[1] = "browser_expect" /\ ~({"selector", "name"} \subseteq part.attrs)
  \/ part.kind[1] = "mobile_expect" /\ "value" \notin part.attrs
  \/ part.kind = <<"block", "attachment">> /\ "path" \in part.attrs

\* A block the decoders accept has the attributes its lowering demands: no step that
\* was reported valid fails for an attribute that is not there.
AcceptedStepsLower ==
  Loaded => \A step \in AllSteps : \A part \in step.parts : Lowers(part) \/ FailsLate(part)

StepAttrs(step) == (CHOOSE part \in step.parts : part.kind[1] = "step").attrs

\* An expectation that is accepted and looked at by nobody.
Unchecked(step, part, member) ==
  \/ part.kind[1] = "browser_expect" /\ member = "text"
  \/ part.kind[1] = "expect" /\
       \/ member = Nested
       \/ part.kind[2] = "keyword"
       \/ part.kind[2] = "webhook" /\ "wait" \notin StepAttrs(step)
       \/ part.kind[2] \in {"mobile", "browser"} /\ member \in TypedExpectAttrs
       \/ part.kind[2] \notin {"mobile", "browser"} /\ member \in SharedUIBlocks \cup BrowserUIBlocks
       \/ member = "strict" /\ "json" \notin part.attrs
  \/ part.kind = <<"browser_expect", "web_perf">> /\ member = Nested

\* load.go, of a performance budget outside a browser step: "the assertion never runs,
\* which would let perf budgets pass vacuously". No other member of an expect passes
\* vacuously either, but for the ones above.
NoVacuousExpectation ==
  Loaded => \A step \in AllSteps : \A part \in step.parts :
    part.kind[1] \in {"expect", "mobile_expect", "browser_expect"} =>
      \A member \in part.attrs :
        \/ member \in Evaluated(part)
        \/ part.kind[1] = "expect" /\ member \in ExpectBlocks(part.kind[2], StepAttrs(step))
        \/ Unchecked(step, part, member)

\* Loading drops nothing in silence: every definition of every file is in the loaded
\* suite, but for an earlier generator or keyword of the same name in the same file.
NothingIsLost ==
  Loaded => \A f \in DOMAIN tree.files :
    LET file == tree.files[f]
        Kept(map, blocks, i) ==
          \/ map[blocks[i].name] = <<f, i>>
          \/ \E j \in DOMAIN blocks : j > i /\ blocks[j].name = blocks[i].name
    IN /\ Decodes(file)
       /\ \A i \in DOMAIN file.generators : Kept(suite.generators, file.generators, i)
       /\ \A i \in DOMAIN file.keywords : Kept(suite.keywords, file.keywords, i)
       /\ \A i \in DOMAIN file.scenarios :
            \E n \in DOMAIN suite.scenarios : suite.scenarios[n].place = <<f, i>>
       /\ \A k \in DOMAIN file.teardowns :
            Range(file.teardowns[k]) \subseteq Range(suite.teardown)

\* What is documented of references ("forward / unknown references are rejected at
\* load time") and of attachments ("exactly one of path or content"): a step of a
\* loaded suite finds what it reads, and an attachment can be lowered.
AcceptedMeansServed ==
  Loaded => \A i \in DOMAIN suite.scenarios :
    LET steps == suite.scenarios[i].steps
    IN \A n \in DOMAIN steps : \A part \in steps[n].parts :
         /\ \A r \in EvaluatedReads(part) : r[2] \in Before(steps, n)
         /\ part.kind = <<"block", "attachment">> => Lowers(part)
=============================================================================
