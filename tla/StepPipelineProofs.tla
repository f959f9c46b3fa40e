------------------------- MODULE StepPipelineProofs -------------------------
(***************************************************************************)
(* The stack of keyword calls is treated point by point: what one action   *)
(* does to it is one of three changes (of the innermost frame, a call, a   *)
(* return), each with a lemma that says which frames are the same as       *)
(* before.                                                                 *)
(***************************************************************************)
EXTENDS StepPipeline, SequenceTheorems, TLAPS

-----------------------------------------------------------------------------
(* The inductive invariant.                                                *)

StepOf(frame) == Plan[frame.body][frame.at]
MaxOf(step)   == IF step.attempts < 1 THEN 1 ELSE step.attempts

\* A frame below the innermost stands at the step that called the one above it.
Calling(frame) ==
  frame.at <= Len(Plan[frame.body]) /\ frame.attempt <= MaxOf(StepOf(frame))

Chain(s) ==
  /\ s[1].body \in {Main, Teardown}
  /\ \A k \in 2..Len(s) : s[k].body \in Keywords
  /\ \A k \in 1..(Len(s) - 1) : Calling(s[k])
  /\ \A j, k \in 2..Len(s) : j # k => Names(s[j].body) \cap Names(s[k].body) = {}

Path(scope, s) ==
  /\ Len(scope) = Len(s) - 1
  /\ \A k \in 1..(Len(s) - 1) : scope[k] = StepOf(s[k]).name

\* `store' is the last stage, and no other is.
EndsInStore(s) == \A i \in 1..Len(s) : s[i] = "store" <=> i = Len(s)

IInv == TypeOK /\ Chain(stack) /\ Path(seedScope, stack) /\ EndsInStore(todo)

-----------------------------------------------------------------------------
(* Sequences and stages.                                                   *)

\* Every executor has a first stage, and stores its result in its last one
\* (dispatchProviderStep and the executors).
LEMMA StagesShape ==
  ASSUME NEW kind \in Kinds
  PROVE  /\ Stages(kind) \in Seq(StageNames)
         /\ Stages(kind) # <<>>
         /\ EndsInStore(Stages(kind))
<1> DEFINE Shape(s) == s \in Seq(StageNames) /\ s # <<>> /\ EndsInStore(s)
<1>1. Shape(HttpStages)
  BY DEF HttpStages, StageNames, EndsInStore
<1>2. Shape(KeywordStages)
  BY DEF KeywordStages, StageNames, EndsInStore
<1>3. Shape(MobileStages) /\ Shape(BrowserStages)
  BY DEF MobileStages, BrowserStages, StageNames, EndsInStore
<1>4. Shape(SqlStages) /\ Shape(MailStages) /\ Shape(LoadStages)
  BY DEF SqlStages, MailStages, LoadStages, StageNames, EndsInStore
<1>5. Shape(WebhookStages) /\ Shape(FileStages) /\ Shape(RpcStages)
  BY DEF WebhookStages, FileStages, RpcStages, StageNames, EndsInStore
<1>6. Shape(ExecStages)
  BY DEF ExecStages, StageNames, EndsInStore
<1> HIDE DEF Shape
<1>7. Shape(Stages(kind))
  BY <1>1, <1>2, <1>3, <1>4, <1>5, <1>6 DEF Stages, Kinds
<1> QED
  BY <1>7 DEF Shape

\* So have the stages that follow a keyword.
LEMMA AfterKeywordShape ==
  /\ AfterKeyword \in Seq(StageNames) /\ AfterKeyword # <<>> /\ EndsInStore(AfterKeyword)
BY DEF AfterKeyword, StageNames, EndsInStore

\* A stage that is not `store' leaves another to come; `store' leaves none.
LEMMA TailShape ==
  ASSUME NEW s \in Seq(StageNames), s # <<>>, EndsInStore(s)
  PROVE  /\ Tail(s) \in Seq(StageNames)
         /\ EndsInStore(Tail(s))
         /\ Head(s) = "store" <=> Tail(s) = <<>>
<1>1. /\ Tail(s) \in Seq(StageNames) /\ Len(Tail(s)) = Len(s) - 1 /\ Len(s) \in Nat \ {0}
      /\ \A i \in 1..Len(Tail(s)) : Tail(s)[i] = s[i + 1]
  BY HeadTailProperties, EmptySeq
<1>2. EndsInStore(Tail(s))
  <2> SUFFICES ASSUME NEW i \in 1..Len(Tail(s))
               PROVE  Tail(s)[i] = "store" <=> i = Len(Tail(s))
    BY DEF EndsInStore
  <2>1. i + 1 \in 1..Len(s) /\ Tail(s)[i] = s[i + 1]
    BY <1>1
  <2>2. s[i + 1] = "store" <=> i + 1 = Len(s)
    BY <2>1 DEF EndsInStore
  <2>3. i + 1 = Len(s) <=> i = Len(Tail(s))
    BY <1>1
  <2> QED
    BY <2>1, <2>2, <2>3, Zenon
<1>3. Head(s) = "store" <=> Len(s) = 1
  <2>1. Head(s) = s[1] /\ 1 \in 1..Len(s)
    BY <1>1
  <2> QED
    BY <1>1, <2>1 DEF EndsInStore
<1>4. Tail(s) = <<>> <=> Len(s) = 1
  BY <1>1, EmptySeq
<1> QED
  BY <1>1, <1>2, <1>3, <1>4

\* The innermost frame is of the type of frames, and its step of that of steps.
LEMMA TopTypes ==
  ASSUME PipelineAssumption, TypeOK
  PROVE  /\ Len(stack) \in Nat \ {0}
         /\ stack \in [1..Len(stack) -> Frames]
         /\ Top \in Frames /\ Top = stack[Len(stack)]
         /\ Plan[Top.body] \in Seq(StepRecords)
         /\ Top.at <= Len(Plan[Top.body]) => Step \in StepRecords
         /\ Step = StepOf(Top) /\ MaxAttempts = MaxOf(Step)
<1>1. /\ Len(stack) \in Nat \ {0} /\ stack \in [1..Len(stack) -> Frames]
  BY EmptySeq, LenProperties DEF TypeOK
<1>2. Top \in Frames /\ Top = stack[Len(stack)]
  BY <1>1 DEF Top
<1>3. Top.body \in Bodies /\ Top.at \in Nat \ {0}
  BY <1>2 DEF Frames
<1>4. Plan[Top.body] \in Seq(StepRecords)
  BY <1>3 DEF PipelineAssumption
<1>5. Top.at <= Len(Plan[Top.body]) => Step \in StepRecords
  <2> SUFFICES ASSUME Top.at <= Len(Plan[Top.body]) PROVE Step \in StepRecords
    OBVIOUS
  <2>1. Top.at \in 1..Len(Plan[Top.body])
    BY <1>3, <1>4, LenProperties
  <2> QED
    BY <2>1, <1>4, ElementOfSeq DEF Step
<1>6. Step = StepOf(Top) /\ MaxAttempts = MaxOf(Step)
  BY DEF Step, StepOf, MaxAttempts, MaxOf
<1> QED
  BY <1>1, <1>2, <1>4, <1>5, <1>6

\* SetTop changes the innermost frame and no other.
LEMMA TopChange ==
  ASSUME PipelineAssumption, TypeOK, NEW f \in Frames, SetTop(f)
  PROVE  /\ stack' \in Seq(Frames) /\ stack' # <<>>
         /\ Len(stack') = Len(stack)
         /\ stack'[Len(stack)] = f
         /\ \A k \in 1..(Len(stack) - 1) : stack'[k] = stack[k]
<1>1. Len(stack) \in Nat \ {0} /\ stack \in Seq(Frames)
  BY TopTypes DEF TypeOK
<1>2. Len(stack) \in 1..Len(stack)
  BY <1>1
<1>3. /\ stack' \in Seq(Frames) /\ Len(stack') = Len(stack)
      /\ \A j \in 1..Len(stack) : stack'[j] = IF j = Len(stack) THEN f ELSE stack[j]
  BY <1>1, <1>2, ExceptSeq DEF SetTop
<1> QED
  BY <1>1, <1>2, <1>3, EmptySeq

\* What a change of the innermost frame leaves of the invariant on calls.
LEMMA TopChangeKeeps ==
  ASSUME PipelineAssumption, IInv, NEW f \in Frames, SetTop(f),
         f.body = Top.body \/ (Len(stack) = 1 /\ f.body = Teardown),
         UNCHANGED seedScope
  PROVE  Chain(stack') /\ Path(seedScope', stack')
<1> DEFINE n == Len(stack)
<1>1. /\ n \in Nat \ {0}
      /\ Len(stack') = n /\ stack'[n] = f /\ \A k \in 1..(n - 1) : stack'[k] = stack[k]
  BY TopTypes, TopChange DEF IInv
<1>2. Top = stack[n]
  BY DEF Top
<1>3. stack'[1].body \in {Main, Teardown}
  <2>1. CASE n = 1
    BY <1>1, <1>2, <2>1 DEF IInv, Chain
  <2>2. CASE n # 1
    BY <1>1, <2>2 DEF IInv, Chain
  <2> QED BY <2>1, <2>2
<1>4. \A k \in 2..n : stack'[k].body = stack[k].body
  <2>1. \A k \in 2..n : k \in 1..(n - 1) \/ k = n
    BY <1>1
  <2>2. n # 1 => stack'[n].body = stack[n].body
    BY <1>1, <1>2
  <2>3. n = 1 => 2..n = {}
    OBVIOUS
  <2> QED
    BY <1>1, <2>1, <2>2, <2>3
<1>5. \A k \in 2..n : stack'[k].body \in Keywords
  BY <1>4 DEF IInv, Chain
<1>6. \A k \in 1..(n - 1) : Calling(stack'[k])
  BY <1>1 DEF IInv, Chain
<1>7. \A j, k \in 2..n : j # k => Names(stack'[j].body) \cap Names(stack'[k].body) = {}
  BY <1>4 DEF IInv, Chain
<1>8. Chain(stack')
  BY <1>1, <1>3, <1>5, <1>6, <1>7 DEF Chain
<1>9. Path(seedScope', stack')
  BY <1>1 DEF IInv, Path
<1> QED
  BY <1>8, <1>9

-----------------------------------------------------------------------------
(* Calls and returns.                                                      *)

\* What a longer stack inherits from a shorter one, and the other way round.
LEMMA ChainGrows ==
  ASSUME NEW s, NEW t, NEW n \in Nat \ {0}, Len(s) = n, Len(t) = n + 1,
         \A k \in 1..n : t[k] = s[k],
         Chain(s), Calling(s[n]), t[n + 1].body \in Keywords,
         \A k \in 2..n : Names(s[k].body) \cap Names(t[n + 1].body) = {}
  PROVE  Chain(t)
<1>1. \A k \in 2..(n + 1) : k \in 2..n \/ k = n + 1
  OBVIOUS
<1>2. \A k \in 1..n : k \in 1..(n - 1) \/ k = n
  OBVIOUS
<1>3. t[1].body \in {Main, Teardown}
  BY DEF Chain
<1>4. \A k \in 2..n : t[k].body \in Keywords
  BY DEF Chain
<1>5. \A k \in 1..(n - 1) : Calling(t[k])
  BY DEF Chain
<1>6. \A k \in 2..n : t[k] = s[k]
  OBVIOUS
<1>7. \A j, k \in 2..n : j # k => Names(s[j].body) \cap Names(s[k].body) = {}
  BY DEF Chain
<1>8. \A j, k \in 2..n : j # k => Names(t[j].body) \cap Names(t[k].body) = {}
  BY <1>6, <1>7, Zenon
<1>9. \A k \in 2..n : Names(t[k].body) \cap Names(t[n + 1].body) = {}
  BY <1>6
<1>10. \A j, k \in 2..(n + 1) : j # k => Names(t[j].body) \cap Names(t[k].body) = {}
  <2> SUFFICES ASSUME NEW j \in 2..(n + 1), NEW k \in 2..(n + 1), j # k
               PROVE  Names(t[j].body) \cap Names(t[k].body) = {}
    OBVIOUS
  <2>1. CASE j \in 2..n /\ k \in 2..n
    BY <1>8, <2>1
  <2>2. CASE j = n + 1 /\ k \in 2..n
    BY <1>9, <2>2
  <2>3. CASE j \in 2..n /\ k = n + 1
    BY <1>9, <2>3
  <2> QED
    BY <1>1, <2>1, <2>2, <2>3
<1>11. \A k \in 1..n : Calling(t[k])
  BY <1>2, <1>5
<1>12. \A k \in 2..(n + 1) : t[k].body \in Keywords
  BY <1>1, <1>4
<1>13. Len(t) - 1 = n
  OBVIOUS
<1> QED
  BY <1>3, <1>10, <1>11, <1>12, <1>13 DEF Chain

LEMMA ChainShrinks ==
  ASSUME NEW s, NEW t, NEW n \in Nat \ {0}, Len(s) = n + 1, Len(t) = n,
         \A k \in 1..n : t[k] = s[k], Chain(s)
  PROVE  Chain(t)
<1>1. t[1].body \in {Main, Teardown}
  BY DEF Chain
<1>2. \A k \in 2..n : t[k].body \in Keywords
  BY DEF Chain
<1>3. \A k \in 1..(n - 1) : Calling(t[k])
  BY DEF Chain
<1>4. \A k \in 2..n : t[k] = s[k] /\ k \in 2..(n + 1)
  OBVIOUS
<1>5. \A j, k \in 2..(n + 1) : j # k => Names(s[j].body) \cap Names(s[k].body) = {}
  BY DEF Chain
<1>6. \A j, k \in 2..n : j # k => Names(t[j].body) \cap Names(t[k].body) = {}
  BY <1>4, <1>5, Zenon
<1> QED
  BY <1>1, <1>2, <1>3, <1>6 DEF Chain

LEMMA PathGrows ==
  ASSUME NEW s, NEW t, NEW p, NEW q, NEW n \in Nat \ {0}, Len(s) = n, Len(t) = n + 1,
         \A k \in 1..n : t[k] = s[k],
         Path(p, s), Len(q) = n, \A k \in 1..(n - 1) : q[k] = p[k],
         q[n] = StepOf(s[n]).name
  PROVE  Path(q, t)
<1>1. \A k \in 1..(n - 1) : q[k] = StepOf(t[k]).name
  BY DEF Path
<1>2. \A k \in 1..n : k \in 1..(n - 1) \/ k = n
  OBVIOUS
<1>3. Len(t) - 1 = n
  OBVIOUS
<1> QED
  BY <1>1, <1>2, <1>3 DEF Path

LEMMA PathShrinks ==
  ASSUME NEW s, NEW t, NEW p, NEW q, NEW n \in Nat \ {0}, Len(s) = n + 1, Len(t) = n,
         \A k \in 1..n : t[k] = s[k],
         Path(p, s), Len(q) = n - 1, \A k \in 1..(n - 1) : q[k] = p[k]
  PROVE  Path(q, t)
BY DEF Path

\* A call puts one frame on the stack, whose names are new.
LEMMA CallKeeps ==
  ASSUME PipelineAssumption, IInv, EnterKeyword
  PROVE  TypeOK' /\ Chain(stack') /\ Path(seedScope', stack') /\ EndsInStore(todo')
<1> DEFINE n == Len(stack)  f == Frame(Step.calls, Top.results)
<1>1. TypeOK /\ n \in Nat \ {0} /\ stack \in Seq(Frames) /\ seedScope \in Seq(StepNames)
  BY TopTypes DEF IInv, TypeOK
<1>2. /\ Top \in Frames /\ Top = stack[n] /\ Step = StepOf(Top)
      /\ Top.at <= Len(Plan[Top.body]) /\ Top.attempt <= MaxOf(Step)
      /\ Step \in StepRecords
  BY <1>1, TopTypes DEF EnterKeyword, Attempting, TypeOK
<1>3. Step.calls \in Keywords /\ Step.name \in StepNames /\ Names(Step.calls) \cap Known = {}
  BY <1>2 DEF EnterKeyword, StepRecords
<1>4. f \in Frames
  BY <1>2, <1>3 DEF Frame, Frames, Bodies
<1>5. /\ stack' \in Seq(Frames) /\ Len(stack') = n + 1 /\ stack'[n + 1] = f
      /\ \A k \in 1..n : stack'[k] = stack[k]
  BY <1>1, <1>4, AppendProperties DEF EnterKeyword
<1>6. /\ seedScope' \in Seq(StepNames) /\ Len(seedScope') = n
      /\ seedScope'[n] = Step.name
      /\ \A k \in 1..(n - 1) : seedScope'[k] = seedScope[k]
  <2>1. Len(seedScope) = n - 1
    BY DEF IInv, Path
  <2> QED
    BY <1>1, <1>3, <2>1, AppendProperties DEF EnterKeyword
<1>7. f.body = Step.calls /\ f.at = 1
  BY DEF Frame
<1>8. TypeOK'
  <2>1. stack' \in Seq(Frames) /\ stack' # <<>> /\ doing' \in {"decide", "attempt", "done"}
    BY <1>1, <1>5, EmptySeq DEF EnterKeyword
  <2>2. /\ todo' \in Seq(StageNames) /\ fault' \in FaultNames \cup {"none"}
        /\ called' \in BOOLEAN /\ wrote' \in BOOLEAN
        /\ shown' \subseteq {"request", "response", "artifacts", "actions"}
        /\ seedScope' \in Seq(StepNames) /\ disk' \subseteq Seq(StepNames) \X StepNames
    BY <1>1, <1>6 DEF TypeOK, EnterKeyword, attemptVars
  <2>3. \A k \in 1..(n + 1) : stack'[k].at <= Len(Plan[stack'[k].body]) + 1
    <3>1. DOMAIN stack = 1..n
      BY <1>1, LenProperties
    <3>2. \A k \in 1..n : stack[k].at <= Len(Plan[stack[k].body]) + 1
      BY <1>1, <3>1 DEF TypeOK
    <3>3. Len(Plan[Step.calls]) \in Nat
      BY <1>3, LenProperties DEF PipelineAssumption, Bodies
    <3>4. \A k \in 1..(n + 1) : k \in 1..n \/ k = n + 1
      BY <1>1
    <3>5. stack'[n + 1].at <= Len(Plan[stack'[n + 1].body]) + 1
      BY <1>5, <1>7, <3>3
    <3>6. \A k \in 1..n : stack'[k].at <= Len(Plan[stack'[k].body]) + 1
      BY <1>5, <3>2
    <3> QED
      BY <3>4, <3>5, <3>6
  <2>4. DOMAIN stack' = 1..(n + 1)
    BY <1>5, LenProperties
  <2>5. doing' = "decide"
    BY DEF EnterKeyword
  <2> QED
    BY <2>1, <2>2, <2>3, <2>4, <2>5 DEF TypeOK
<1>9. Chain(stack')
  <2>1. Calling(stack[n])
    BY <1>2 DEF Calling
  <2>2. \A k \in 2..n : Names(stack[k].body) \cap Names(stack'[n + 1].body) = {}
    BY <1>3, <1>5, <1>7 DEF Known
  <2>3. stack'[n + 1].body \in Keywords
    BY <1>3, <1>5, <1>7
  <2>4. Chain(stack)
    BY DEF IInv
  <2> HIDE DEF n, f
  <2> QED
    BY <1>1, <1>5, <2>1, <2>2, <2>3, <2>4, ChainGrows DEF n
<1>10. Path(seedScope', stack')
  <2>1. Path(seedScope, stack)
    BY DEF IInv
  <2>2. seedScope'[n] = StepOf(stack[n]).name
    BY <1>2, <1>6
  <2> HIDE DEF n, f
  <2> QED
    BY <1>1, <1>5, <1>6, <2>1, <2>2, PathGrows DEF n
<1>11. EndsInStore(todo')
  BY DEF IInv, EnterKeyword, attemptVars, EndsInStore
<1> QED
  BY <1>8, <1>9, <1>10, <1>11

\* A return takes the innermost frame off the stack and the last name off the scope.
LEMMA ReturnKeeps ==
  ASSUME PipelineAssumption, IInv, Len(stack) > 1,
         NEW failure \in {"none", "keyword"}, LeaveKeyword(failure)
  PROVE  TypeOK' /\ Chain(stack') /\ Path(seedScope', stack') /\ EndsInStore(todo')
<1> DEFINE n == Len(stack)
<1>1. TypeOK /\ n \in Nat \ {0, 1} /\ stack \in Seq(Frames) /\ seedScope \in Seq(StepNames)
  BY TopTypes DEF IInv, TypeOK
<1>2. /\ stack' \in Seq(Frames) /\ Len(stack') = n - 1
      /\ \A k \in 1..(n - 1) : stack'[k] = stack[k]
  <2>1. \A k \in 1..(n - 1) : stack[k] \in Frames
    BY <1>1, ElementOfSeq
  <2> QED
    BY <1>1, <2>1, SubSeqProperties DEF LeaveKeyword, Front
<1>3. /\ seedScope' \in Seq(StepNames) /\ Len(seedScope') = n - 2
      /\ \A k \in 1..(n - 2) : seedScope'[k] = seedScope[k]
  <2>1. Len(seedScope) = n - 1
    BY DEF IInv, Path
  <2>2. \A k \in 1..(n - 2) : seedScope[k] \in StepNames
    BY <1>1, <2>1, ElementOfSeq
  <2> QED
    BY <1>1, <2>1, <2>2, SubSeqProperties DEF LeaveKeyword, Front
<1>4. Calling(stack[n - 1])
  BY <1>1 DEF IInv, Chain
<1>5. TypeOK'
  <2>1. stack' \in Seq(Frames) /\ stack' # <<>>
    BY <1>1, <1>2, EmptySeq
  <2>2. /\ doing' \in {"decide", "attempt", "done"}
        /\ todo' \in Seq(StageNames) /\ fault' \in FaultNames \cup {"none"}
        /\ called' \in BOOLEAN /\ wrote' \in BOOLEAN
        /\ shown' \subseteq {"request", "response", "artifacts", "actions"}
    BY AfterKeywordShape DEF LeaveKeyword, FaultNames
  <2>3. seedScope' \in Seq(StepNames) /\ disk' \subseteq Seq(StepNames) \X StepNames
    BY <1>1, <1>3 DEF TypeOK, LeaveKeyword
  <2>4. DOMAIN stack = 1..n /\ DOMAIN stack' = 1..(n - 1)
    BY <1>1, <1>2, LenProperties
  <2>5. \A k \in 1..(n - 1) : stack'[k].at <= Len(Plan[stack'[k].body]) + 1
    <3>1. \A k \in 1..n : stack[k].at <= Len(Plan[stack[k].body]) + 1
      BY <1>1, <2>4 DEF TypeOK
    <3>2. \A k \in 1..(n - 1) : k \in 1..n
      BY <1>1
    <3> QED
      BY <1>2, <3>1, <3>2
  <2>6. Top' = stack[n - 1]
    BY <1>1, <1>2 DEF Top
  <2>7. Top'.at <= Len(Plan[Top'.body]) /\ Top'.attempt <= MaxAttempts'
    BY <1>4, <2>6 DEF Calling, StepOf, MaxOf, MaxAttempts, Step
  <2> QED
    BY <2>1, <2>2, <2>3, <2>4, <2>5, <2>7 DEF TypeOK
<1>6. Chain(stack')
  <2>1. Chain(stack) /\ n - 1 \in Nat \ {0} /\ Len(stack) = (n - 1) + 1
    BY <1>1 DEF IInv
  <2> HIDE DEF n
  <2> QED
    BY <1>2, <2>1, ChainShrinks
<1>7. Path(seedScope', stack')
  <2>1. /\ Path(seedScope, stack) /\ n - 1 \in Nat \ {0} /\ Len(stack) = (n - 1) + 1
        /\ n - 2 = (n - 1) - 1
    BY <1>1 DEF IInv
  <2> HIDE DEF n
  <2> QED
    BY <1>2, <1>3, <2>1, PathShrinks
<1>8. EndsInStore(todo')
  BY AfterKeywordShape DEF LeaveKeyword, EndsInStore
<1> QED
  BY <1>5, <1>6, <1>7, <1>8

-----------------------------------------------------------------------------
(* One step.                                                               *)

\* The types of all variables but the stack.
Others ==
  /\ doing \in {"decide", "attempt", "done"}
  /\ todo \in Seq(StageNames)
  /\ fault \in FaultNames \cup {"none"}
  /\ called \in BOOLEAN /\ wrote \in BOOLEAN
  /\ shown \subseteq {"request", "response", "artifacts", "actions"}
  /\ seedScope \in Seq(StepNames)
  /\ disk \subseteq Seq(StepNames) \X StepNames

\* The changes of a frame that actions make.
LEMMA FrameMoved ==
  ASSUME NEW g \in Frames, NEW k \in Nat \ {0}
  PROVE  LET f == [g EXCEPT !.at = k]
         IN  /\ f \in Frames /\ f.body = g.body /\ f.at = k
             /\ f.results = g.results /\ f.passed = g.passed
BY DEF Frames

LEMMA FrameRetried ==
  ASSUME NEW g \in Frames, NEW k \in Nat \ {0}
  PROVE  LET f == [g EXCEPT !.attempt = k]
         IN  /\ f \in Frames /\ f.body = g.body /\ f.at = g.at /\ f.attempt = k
             /\ f.results = g.results /\ f.passed = g.passed
BY DEF Frames

LEMMA FrameSwitched ==
  ASSUME NEW g \in Frames, NEW body \in Bodies
  PROVE  LET f == [g EXCEPT !.body = body, !.at = 1]
         IN  /\ f \in Frames /\ f.body = body /\ f.at = 1
             /\ f.results = g.results /\ f.passed = g.passed
<1>1. ASSUME NEW k \in Nat \ {0}
      PROVE  LET f == [g EXCEPT !.body = body, !.at = k]
             IN  /\ f \in Frames /\ f.body = body /\ f.at = k
                 /\ f.results = g.results /\ f.passed = g.passed
  BY DEF Frames
<1>2. 1 \in Nat \ {0}
  OBVIOUS
<1> QED
  BY <1>1, <1>2, Zenon

LEMMA FrameStored ==
  ASSUME NEW g \in Frames, NEW names \in SUBSET StepNames
  PROVE  LET f == [g EXCEPT !.results = names]
         IN  f \in Frames /\ f.body = g.body /\ f.at = g.at /\ f.attempt = g.attempt
BY DEF Frames

\* A change of the innermost frame keeps the invariant when the frame has its place.
LEMMA TopKeeps ==
  ASSUME PipelineAssumption, IInv, NEW f \in Frames, SetTop(f),
         f.body = Top.body \/ (Len(stack) = 1 /\ f.body = Teardown),
         f.at <= Len(Plan[f.body]) + 1,
         doing' = "attempt" => Calling(f),
         Others', EndsInStore(todo'), UNCHANGED seedScope
  PROVE  TypeOK' /\ Chain(stack') /\ Path(seedScope', stack') /\ EndsInStore(todo')
<1> DEFINE n == Len(stack)
<1>1. /\ TypeOK /\ n \in Nat \ {0} /\ stack' \in Seq(Frames) /\ stack' # <<>>
      /\ Len(stack') = n /\ stack'[n] = f /\ \A k \in 1..(n - 1) : stack'[k] = stack[k]
  BY TopTypes, TopChange DEF IInv
<1>2. DOMAIN stack = 1..n /\ DOMAIN stack' = 1..n
  BY <1>1, LenProperties DEF TypeOK
<1>3. \A k \in 1..n : stack'[k].at <= Len(Plan[stack'[k].body]) + 1
  <2>1. \A k \in 1..n : stack[k].at <= Len(Plan[stack[k].body]) + 1
    BY <1>1, <1>2 DEF TypeOK
  <2>2. \A k \in 1..n : k \in 1..(n - 1) \/ k = n
    BY <1>1
  <2>3. \A k \in 1..(n - 1) : stack'[k].at <= Len(Plan[stack'[k].body]) + 1
    BY <1>1, <2>1
  <2>4. stack'[n].at <= Len(Plan[stack'[n].body]) + 1
    BY <1>1
  <2> QED
    BY <2>2, <2>3, <2>4
<1>4. Top' = f
  BY <1>1 DEF Top
<1>5. doing' = "attempt" => Top'.at <= Len(Plan[Top'.body]) /\ Top'.attempt <= MaxAttempts'
  BY <1>4 DEF Calling, StepOf, MaxOf, MaxAttempts, Step
<1>6. TypeOK'
  BY <1>1, <1>2, <1>3, <1>5 DEF TypeOK, Others
<1> QED
  BY <1>6, TopChangeKeeps

\* A stage that leaves the stack alone keeps the invariant.
LEMMA StageKeeps ==
  ASSUME PipelineAssumption, IInv, UNCHANGED <<stack, doing, seedScope>>,
         Others', EndsInStore(todo')
  PROVE  TypeOK' /\ Chain(stack') /\ Path(seedScope', stack') /\ EndsInStore(todo')
<1>1. /\ TypeOK /\ stack' = stack /\ doing' = doing /\ seedScope' = seedScope
      /\ Top' = Top /\ MaxAttempts' = MaxAttempts
  BY DEF IInv, Top, MaxAttempts, Step
<1>2. TypeOK'
  BY <1>1 DEF TypeOK, Others
<1> QED
  BY <1>1, <1>2 DEF IInv

\* A new attempt is well formed.
LEMMA BeginTypes ==
  ASSUME PipelineAssumption, IInv, Begin, Step.kind \in Kinds, UNCHANGED <<seedScope, disk>>
  PROVE  Others' /\ EndsInStore(todo') /\ todo' # <<>>
<1>1. todo' \in Seq(StageNames) /\ EndsInStore(todo') /\ todo' # <<>>
  BY StagesShape DEF Begin
<1> QED
  BY <1>1 DEF Begin, Others, IInv, TypeOK

\* Every action keeps the invariant, with one case per action of Next.
LEMMA Inductive ==
  ASSUME PipelineAssumption, IInv, [Next]_vars
  PROVE  IInv'
<1> DEFINE n == Len(stack)  b == Plan[Top.body]
           Goal == TypeOK' /\ Chain(stack') /\ Path(seedScope', stack') /\ EndsInStore(todo')
<1>1. /\ TypeOK /\ Others /\ EndsInStore(todo)
      /\ n \in Nat \ {0} /\ Top \in Frames /\ Top = stack[n]
      /\ b \in Seq(StepRecords) /\ Len(b) \in Nat
      /\ Step = StepOf(Top) /\ MaxAttempts = MaxOf(Step)
  BY TopTypes, LenProperties DEF IInv, TypeOK, Others
<1>0. Top \in Frames
  BY <1>1
<1>2. Top.at <= Len(b) => Step \in StepRecords /\ Step.kind \in Kinds /\ Step.name \in StepNames
  BY TopTypes, <1>1 DEF StepRecords
<1>3. /\ Top.body \in Bodies /\ Top.at \in Nat \ {0} /\ Top.attempt \in Nat \ {0}
      /\ Top.results \subseteq StepNames /\ Top.passed \subseteq StepNames
  BY <1>1 DEF Frames
<1>4. doing = "attempt" => Top.at <= Len(b) /\ Top.attempt <= MaxAttempts
  BY <1>1 DEF TypeOK
<1>5. n = 1 => Top.body \in {Main, Teardown}
  BY <1>1 DEF IInv, Chain
<1>6. Teardown \in Bodies /\ Len(Plan[Teardown]) \in Nat
  BY LenProperties DEF PipelineAssumption, Bodies
<1>7. Goal => IInv'
  BY DEF IInv
<1>8. CASE SkipStep
  <2> DEFINE f == [Top EXCEPT !.at = @ + 1]
  <2>1. f \in Frames /\ f.body = Top.body /\ f.at = Top.at + 1 /\ Top.at <= Len(b)
    <3>1. Top.at + 1 \in Nat \ {0} /\ Top.at <= Len(b)
      BY <1>3, <1>8 DEF SkipStep, Deciding
    <3> QED
      BY <1>0, <3>1, FrameMoved
  <2>2. SetTop(f) /\ doing' = "decide" /\ Others' /\ EndsInStore(todo') /\ UNCHANGED seedScope
    BY <1>1, <1>8 DEF SkipStep, Deciding, attemptVars, Others, EndsInStore
  <2> HIDE DEF f
  <2>3. Goal
    <3>1. f \in Frames /\ f.at <= Len(Plan[f.body]) + 1
      BY <1>1, <1>3, <2>1
    <3>2. f.body = Top.body \/ (n = 1 /\ f.body = Teardown)
      BY <2>1, Zenon
    <3> QED
      BY <2>2, <3>1, <3>2, TopKeeps
  <2> QED
    BY <1>7, <2>3
<1>9. CASE StartStep
  <2> DEFINE f == [Top EXCEPT !.attempt = 1]
  <2>1. f \in Frames /\ f.body = Top.body /\ f.at = Top.at /\ f.attempt = 1 /\ Top.at <= Len(b)
    <3>1. 1 \in Nat \ {0} /\ Top.at <= Len(b)
      BY <1>9 DEF StartStep, Deciding
    <3> QED
      BY <1>0, <3>1, FrameRetried
  <2>2. SetTop(f) /\ Begin /\ UNCHANGED <<seedScope, disk>>
    BY <1>9 DEF StartStep
  <2>3. 1 <= MaxOf(Step)
    BY <1>2, <2>1 DEF MaxOf, StepRecords
  <2>4. Calling(f)
    BY <1>1, <2>1, <2>3 DEF Calling, StepOf
  <2>5. Others' /\ EndsInStore(todo')
    BY <1>2, <2>1, <2>2, BeginTypes
  <2> HIDE DEF f
  <2>6. Goal
    <3>1. f \in Frames /\ f.at <= Len(Plan[f.body]) + 1
      BY <1>1, <1>3, <2>1
    <3>2. f.body = Top.body \/ (n = 1 /\ f.body = Teardown)
      BY <2>1, Zenon
    <3> QED
      BY <2>2, <2>4, <2>5, <3>1, <3>2, TopKeeps
  <2> QED
    BY <1>7, <2>6
<1>10. CASE Retry
  <2> DEFINE f == [Top EXCEPT !.attempt = @ + 1]
  <2>1. /\ f \in Frames /\ f.body = Top.body /\ f.at = Top.at /\ f.attempt = Top.attempt + 1
        /\ Top.at <= Len(b) /\ Top.attempt < MaxAttempts
    <3>1. Top.attempt + 1 \in Nat \ {0} /\ Top.at <= Len(b) /\ Top.attempt < MaxAttempts
      BY <1>3, <1>4, <1>10 DEF Retry, Failed
    <3> QED
      BY <1>0, <3>1, FrameRetried
  <2>2. SetTop(f) /\ Begin /\ UNCHANGED <<seedScope, disk>>
    BY <1>10 DEF Retry
  <2>3. f.attempt <= MaxOf(Step)
    <3>1. MaxOf(Step) \in Int
      BY <1>2, <2>1 DEF MaxOf, StepRecords
    <3> QED
      BY <1>1, <1>3, <2>1, <3>1
  <2>4. Calling(f)
    BY <1>1, <2>1, <2>3 DEF Calling, StepOf
  <2>5. Others' /\ EndsInStore(todo')
    BY <1>2, <2>1, <2>2, BeginTypes
  <2> HIDE DEF f
  <2>6. Goal
    <3>1. f \in Frames /\ f.at <= Len(Plan[f.body]) + 1
      BY <1>1, <1>3, <2>1
    <3>2. f.body = Top.body \/ (n = 1 /\ f.body = Teardown)
      BY <2>1, Zenon
    <3> QED
      BY <2>2, <2>4, <2>5, <3>1, <3>2, TopKeeps
  <2> QED
    BY <1>7, <2>6
<1>11. CASE StepPasses
  <2> DEFINE f == [Top EXCEPT !.at = @ + 1, !.passed = @ \cup {Step.name}]
  <2>1. Top.at <= Len(b) /\ Step.name \in StepNames
    BY <1>2, <1>4, <1>11 DEF StepPasses, Succeeded
  <2>2. f \in Frames /\ f.body = Top.body /\ f.at = Top.at + 1
    <3> DEFINE names == Top.passed \cup {Step.name}
               place == Top.at + 1
    <3>1. place \in Nat \ {0} /\ names \in SUBSET StepNames
      BY <1>3, <2>1
    <3>2. f = [Top EXCEPT !.at = place, !.passed = names]
      OBVIOUS
    <3> HIDE DEF f, names, place
    <3>3. /\ f \in Frames /\ f.body = Top.body /\ f.at = place
          /\ f.results = Top.results /\ f.passed = names
      BY <1>0, <3>1, <3>2 DEF Frames
    <3> QED
      BY <3>3 DEF names, place
  <2>3. SetTop(f) /\ doing' = "decide" /\ Others' /\ EndsInStore(todo') /\ UNCHANGED seedScope
    BY <1>1, <1>11 DEF StepPasses, attemptVars, Others, EndsInStore
  <2> HIDE DEF f
  <2>4. Goal
    <3>1. f \in Frames /\ f.at <= Len(Plan[f.body]) + 1
      BY <1>1, <1>3, <2>1, <2>2
    <3>2. f.body = Top.body \/ (n = 1 /\ f.body = Teardown)
      BY <2>1, <2>2, Zenon
    <3> QED
      BY <2>3, <3>1, <3>2, TopKeeps
  <2> QED
    BY <1>7, <2>4
<1>12. CASE StepFails
  <2> DEFINE f == IF Top.body = Main THEN [Top EXCEPT !.body = Teardown, !.at = 1]
                                     ELSE [Top EXCEPT !.at = @ + 1]
  <2>1. n = 1 /\ Top.at <= Len(b)
    BY <1>4, <1>12 DEF StepFails, GivenUp, Failed
  <2>2. /\ f \in Frames /\ (f.body = Top.body \/ (n = 1 /\ f.body = Teardown))
        /\ f.at <= Len(Plan[f.body]) + 1
    <3>1. CASE Top.body = Main
      <4>1. f = [Top EXCEPT !.body = Teardown, !.at = 1]
        BY <3>1
      <4> HIDE DEF f
      <4>2. f \in Frames /\ f.body = Teardown /\ f.at = 1
        BY <1>0, <1>6, <4>1, FrameSwitched, Zenon
      <4> QED
        BY <1>6, <2>1, <4>2
    <3>2. CASE Top.body # Main
      <4>1. f = [Top EXCEPT !.at = @ + 1] /\ Top.at + 1 \in Nat \ {0}
        BY <1>3, <3>2
      <4> HIDE DEF f
      <4>2. f \in Frames /\ f.body = Top.body /\ f.at = Top.at + 1
        BY <1>0, <4>1, FrameMoved
      <4>3. f.at <= Len(Plan[f.body]) + 1
        <5>1. Top.at + 1 <= Len(b) + 1
          BY <1>1, <1>3, <2>1
        <5> QED
          BY <4>2, <5>1
      <4> QED
        BY <4>2, <4>3
    <3> QED
      BY <3>1, <3>2
  <2>3. SetTop(f) /\ doing' = "decide" /\ Others' /\ EndsInStore(todo') /\ UNCHANGED seedScope
    BY <1>1, <1>12 DEF StepFails, attemptVars, Others, EndsInStore
  <2> HIDE DEF f
  <2>4. Goal
    BY <2>2, <2>3, TopKeeps
  <2> QED
    BY <1>7, <2>4
<1>13. CASE ListEnds
  <2>1. CASE Top.body = Main
    <3> DEFINE f == [Top EXCEPT !.body = Teardown, !.at = 1]
    <3>1. f \in Frames /\ n = 1 /\ f.body = Teardown /\ f.at <= Len(Plan[f.body]) + 1
      <4>1. n = 1
        BY <1>13 DEF ListEnds
      <4>2. f \in Frames /\ f.body = Teardown /\ f.at = 1
        BY <1>0, <1>6, FrameSwitched, Zenon
      <4> QED
        BY <1>6, <4>1, <4>2
    <3>2. SetTop(f) /\ doing' = "decide" /\ Others' /\ EndsInStore(todo') /\ UNCHANGED seedScope
      BY <1>1, <1>13, <2>1 DEF ListEnds, attemptVars, Others, EndsInStore
    <3> HIDE DEF f
    <3>3. Goal
      BY <3>1, <3>2, TopKeeps
    <3> QED
      BY <1>7, <3>3
  <2>2. CASE Top.body # Main
    <3>1. /\ stack' = stack /\ doing' = "done" /\ todo' = todo /\ fault' = fault
          /\ called' = called /\ wrote' = wrote /\ shown' = shown
          /\ seedScope' = seedScope /\ disk' = disk
      BY <1>13, <2>2 DEF ListEnds, attemptVars
    <3>2. TypeOK'
      BY <1>1, <3>1 DEF TypeOK, Top
    <3>3. Goal
      BY <3>1, <3>2 DEF IInv
    <3> QED
      BY <1>7, <3>3
  <2> QED
    BY <2>1, <2>2
<1>14. CASE Evaluate
  <2>1. todo # <<>> /\ todo' = Tail(todo)
    BY <1>14 DEF Evaluate, Attempting
  <2>2. todo' \in Seq(StageNames) /\ EndsInStore(todo')
    BY <1>1, <2>1, TailShape DEF Others
  <2>3. Others' /\ UNCHANGED <<stack, doing, seedScope>>
    BY <1>1, <1>14, <2>2 DEF Evaluate, Others
  <2> QED
    BY <1>7, <2>2, <2>3, StageKeeps
<1>15. CASE StageFails
  <2>1. fault' \in FaultNames
    BY <1>15 DEF StageFails, Faults, FaultNames
  <2>2. Others' /\ EndsInStore(todo') /\ UNCHANGED <<stack, doing, seedScope>>
    BY <1>1, <1>15, <2>1 DEF StageFails, Others, EndsInStore
  <2> QED
    BY <1>7, <2>2, StageKeeps
<1>16. CASE ClearArtifacts
  <2>1. todo # <<>> /\ todo' = Tail(todo)
    BY <1>16 DEF ClearArtifacts, Attempting
  <2>2. todo' \in Seq(StageNames) /\ EndsInStore(todo')
    BY <1>1, <2>1, TailShape DEF Others
  <2>3. Others' /\ UNCHANGED <<stack, doing, seedScope>>
    BY <1>1, <1>16, <2>2 DEF ClearArtifacts, Others
  <2> QED
    BY <1>7, <2>2, <2>3, StageKeeps
<1>17. CASE Call
  <2>1. todo # <<>> /\ Top.at <= Len(b) /\ UNCHANGED <<stack, doing, seedScope>>
    BY <1>4, <1>17 DEF Call, Attempting
  <2>2. todo' \in Seq(StageNames) /\ EndsInStore(todo')
    <3>1. Tail(todo) \in Seq(StageNames) /\ EndsInStore(Tail(todo))
      BY <1>1, <2>1, TailShape DEF Others
    <3>2. todo' = Tail(todo) \/ todo' = todo
      BY <1>17 DEF Call
    <3> QED
      BY <1>1, <3>1, <3>2 DEF Others
  <2>3. Directory \in Seq(StepNames) \X StepNames
    BY <1>1, <1>2, <2>1 DEF Directory, Others
  <2>4. disk' \subseteq Seq(StepNames) \X StepNames
    BY <1>1, <1>17, <2>3 DEF Call, Others
  <2>5. called' \in BOOLEAN /\ wrote' \in BOOLEAN /\ fault' \in FaultNames \cup {"none"}
    BY <1>17 DEF Call, FaultNames
  <2>6. shown' \subseteq {"request", "response", "artifacts", "actions"}
    <3>1. \A rest \in Salvaged(Step.kind) : rest \subseteq {"request", "response", "artifacts", "actions"}
      BY DEF Salvaged
    <3> QED
      BY <1>1, <1>17, <3>1 DEF Call, Others
  <2>7. Others'
    BY <1>1, <2>1, <2>2, <2>4, <2>5, <2>6 DEF Others
  <2> QED
    BY <1>7, <2>1, <2>2, <2>7, StageKeeps
<1>18. CASE Attach
  <2>1. todo # <<>> /\ todo' = Tail(todo)
    BY <1>18 DEF Attach, Attempting
  <2>2. todo' \in Seq(StageNames) /\ EndsInStore(todo')
    BY <1>1, <2>1, TailShape DEF Others
  <2>3. shown' \subseteq {"request", "response", "artifacts", "actions"}
    BY <1>1, <1>18 DEF Attach, Attached, Others
  <2>4. Others' /\ UNCHANGED <<stack, doing, seedScope>>
    BY <1>1, <1>18, <2>2, <2>3 DEF Attach, Others
  <2> QED
    BY <1>7, <2>2, <2>4, StageKeeps
<1>19. CASE Store
  <2> DEFINE f == [Top EXCEPT !.results = @ \cup {Step.name}]
  <2>1. Top.at <= Len(b) /\ Top.attempt <= MaxAttempts /\ Step.name \in StepNames /\ todo # <<>>
    BY <1>2, <1>4, <1>19 DEF Store, Attempting
  <2>2. /\ f \in Frames /\ f.body = Top.body /\ f.at = Top.at /\ f.attempt = Top.attempt
    <3>1. Top.results \cup {Step.name} \in SUBSET StepNames
      BY <1>3, <2>1
    <3> QED
      BY <1>0, <3>1, FrameStored
  <2>3. Calling(f) /\ f.at <= Len(Plan[f.body]) + 1
    BY <1>1, <1>3, <2>1, <2>2 DEF Calling, StepOf
  <2>4. todo' \in Seq(StageNames) /\ EndsInStore(todo')
    BY <1>1, <1>19, <2>1, TailShape DEF Store, Others
  <2>5. SetTop(f) /\ Others' /\ UNCHANGED seedScope
    BY <1>1, <1>19, <2>4 DEF Store, Others
  <2> HIDE DEF f
  <2>6. Goal
    <3>1. f \in Frames
      BY <2>2
    <3>2. f.body = Top.body \/ (n = 1 /\ f.body = Teardown)
      BY <2>2, Zenon
    <3> QED
      BY <2>3, <2>4, <2>5, <3>1, <3>2, TopKeeps
  <2> QED
    BY <1>7, <2>6
<1>20. CASE EnterKeyword
  BY <1>7, <1>20, CallKeeps
<1>21. CASE KeywordStepFails
  <2>1. n > 1 /\ LeaveKeyword("keyword")
    BY <1>21 DEF KeywordStepFails
  <2> QED
    BY <1>7, <2>1, ReturnKeeps
<1>22. CASE KeywordEnds
  <2>1. n > 1 /\ \E failure \in {"none", "keyword"} : LeaveKeyword(failure)
    BY <1>22 DEF KeywordEnds
  <2> QED
    BY <1>7, <2>1, ReturnKeeps
<1>23. CASE UNCHANGED vars
  <2>1. Others' /\ EndsInStore(todo') /\ UNCHANGED <<stack, doing, seedScope>>
    BY <1>1, <1>23 DEF vars, attemptVars, Others, EndsInStore
  <2> QED
    BY <1>7, <2>1, StageKeeps
<1> QED
  BY <1>8, <1>9, <1>10, <1>11, <1>12, <1>13, <1>14, <1>15, <1>16, <1>17, <1>18, <1>19,
     <1>20, <1>21, <1>22, <1>23 DEF Next, Done

-----------------------------------------------------------------------------
(* The theorems on types and on the stack of calls.                        *)

LEMMA Initially ==
  ASSUME PipelineAssumption, Init
  PROVE  IInv
<1> DEFINE f == Frame(Main, {})
<1>1. /\ f \in Frames /\ f.body = Main /\ f.at = 1 /\ f.attempt = 1
      /\ f.results = {} /\ f.passed = {}
  BY DEF Frame, Frames, Bodies
<1>2. stack = <<f>>
  BY DEF Init
<1> HIDE DEF f
<1>3. stack \in Seq(Frames) /\ stack # <<>> /\ Len(stack) = 1 /\ stack[1] = f /\ DOMAIN stack = {1}
  BY <1>1, <1>2
<1>4. Plan[Main] \in Seq(StepRecords) /\ Len(Plan[Main]) \in Nat /\ DOMAIN Plan[Main] = 1..Len(Plan[Main])
  BY LenProperties DEF PipelineAssumption, Bodies
<1>5. disk \subseteq Seq(StepNames) \X StepNames
  <2>1. \A i \in DOMAIN Plan[Main] : Plan[Main][i].name \in StepNames
    <3>1. \A i \in DOMAIN Plan[Main] : Plan[Main][i] \in StepRecords
      BY <1>4, ElementOfSeq
    <3> QED
      BY <3>1 DEF StepRecords
  <2>2. <<>> \in Seq(StepNames)
    BY EmptySeq
  <2>3. \A i \in DOMAIN Plan[Main] : <<<<>>, Plan[Main][i].name>> \in Seq(StepNames) \X StepNames
    BY <2>1, <2>2
  <2>4. disk \subseteq {<<<<>>, Plan[Main][i].name>> : i \in DOMAIN Plan[Main]}
    BY DEF Init
  <2> SUFFICES ASSUME NEW d \in disk PROVE d \in Seq(StepNames) \X StepNames
    OBVIOUS
  <2>5. PICK i \in DOMAIN Plan[Main] : d = <<<<>>, Plan[Main][i].name>>
    BY <2>4
  <2> QED
    BY <2>3, <2>5
<1>6. \A k \in DOMAIN stack : stack[k].at <= Len(Plan[stack[k].body]) + 1
  BY <1>1, <1>3, <1>4
<1>7. TypeOK
  BY <1>3, <1>5, <1>6, EmptySeq DEF Init, TypeOK
<1>8. Chain(stack)
  BY <1>1, <1>3 DEF Chain
<1>9. Path(seedScope, stack)
  BY <1>3 DEF Path, Init
<1>10. EndsInStore(todo)
  <2>1. todo = <<>> /\ Len(<<>>) = 0
    BY EmptySeq DEF Init
  <2> QED
    BY <2>1 DEF EndsInStore
<1> QED
  BY <1>7, <1>8, <1>9, <1>10 DEF IInv

LEMMA Invariant == Spec => []IInv
<1>1. Init => IInv
  BY PipelineAssumption, Initially
<1>2. IInv /\ [Next]_vars => IInv'
  BY PipelineAssumption, Inductive
<1> QED
  BY <1>1, <1>2, PTL DEF Spec

\* The types of every state, and no attempt beyond the configured number
\* (executeStepInPhase, retryOptions), for every suite.
THEOREM TypeCorrect == Spec => []TypeOK
<1>1. IInv => TypeOK
  BY DEF IInv
<1> QED
  BY <1>1, Invariant, PTL

\* The seed scope is the path of calls in every state: whatever fails in a keyword,
\* it is restored (executeKeywordStep, PushSeedScope).
THEOREM ScopeIsRestored == Spec => []SeedScopeIsCallPath
<1>1. IInv => SeedScopeIsCallPath
  <2> SUFFICES ASSUME IInv PROVE SeedScopeIsCallPath
    OBVIOUS
  <2> DEFINE m == Len(stack) - 1
             path == [k \in 1..m |-> Plan[stack[k].body][stack[k].at].name]
  <2>1. /\ seedScope \in Seq(StepNames) /\ Len(seedScope) = m
        /\ \A k \in 1..m : seedScope[k] = Plan[stack[k].body][stack[k].at].name
    BY DEF IInv, TypeOK, Path, StepOf
  <2>2. seedScope = [k \in 1..m |-> seedScope[k]]
    BY <2>1, LenProperties
  <2>3. seedScope = path
    BY <2>1, <2>2
  <2> QED
    BY <2>3 DEF SeedScopeIsCallPath
<1> QED
  BY <1>1, Invariant, PTL

\* No keyword is within itself, whichever keywords call which: every frame below
\* the innermost stands at a step, whose name a second frame would repeat
\* (newKeywordState).
THEOREM CallsAreFinite == Spec => []NoKeywordWithinItself
<1>1. IInv => NoKeywordWithinItself
  <2> SUFFICES ASSUME IInv, NEW j \in DOMAIN stack, NEW k \in DOMAIN stack,
                      j < k, stack[j].body = stack[k].body
               PROVE  FALSE
    <3>1. DOMAIN stack = 1..Len(stack) /\ Len(stack) \in Nat
      BY LenProperties DEF IInv, TypeOK
    <3>2. \A i \in DOMAIN stack : i \in Int
      BY <3>1
    <3> QED
      BY <3>2 DEF NoKeywordWithinItself
  <2>1. /\ Len(stack) \in Nat \ {0} /\ DOMAIN stack = 1..Len(stack)
        /\ stack \in [1..Len(stack) -> Frames] /\ Chain(stack)
    BY PipelineAssumption, TopTypes, LenProperties DEF IInv, TypeOK
  <2>2. j \in 1..(Len(stack) - 1) /\ k \in 2..Len(stack) /\ j # k
    BY <2>1
  <2>3. stack[j].at \in 1..Len(Plan[stack[j].body])
    <3>1. stack[j].at \in Nat \ {0} /\ stack[j].body \in Bodies
      BY <2>1 DEF Frames
    <3>2. stack[j].at <= Len(Plan[stack[j].body])
      BY <2>1, <2>2 DEF Chain, Calling
    <3>3. Len(Plan[stack[j].body]) \in Nat
      BY <3>1, PipelineAssumption, LenProperties DEF PipelineAssumption
    <3> QED
      BY <3>1, <3>2, <3>3
  <2>4. Names(stack[j].body) # {}
    <3>1. stack[j].body \in Bodies
      BY <2>1 DEF Frames
    <3>2. DOMAIN Plan[stack[j].body] = 1..Len(Plan[stack[j].body])
      BY <3>1, PipelineAssumption, LenProperties DEF PipelineAssumption
    <3> QED
      BY <2>3, <3>2 DEF Names
  <2>5. CASE j = 1
    BY <2>1, <2>2, <2>5, PipelineAssumption DEF Chain, PipelineAssumption
  <2>6. CASE j # 1
    <3>1. j \in 2..Len(stack)
      BY <2>1, <2>2, <2>6
    <3>2. Names(stack[j].body) \cap Names(stack[k].body) = {}
      BY <2>1, <2>2, <3>1 DEF Chain
    <3> QED
      BY <2>4, <3>2
  <2> QED
    BY <2>5, <2>6
<1> QED
  BY <1>1, Invariant, PTL

-----------------------------------------------------------------------------
(* Results are of passes.                                                  *)

KnownTo(s, k) ==
  Names(Main) \cup Names(Teardown) \cup UNION {Names(s[j].body) : j \in 2..k}

\* The results on a stack: of known names, none of a name of the keyword above, and
\* those added by a frame its passes; `extra' is the name stored by an attempt
\* that is about to pass.
Within(s) == \A k \in 1..Len(s) : s[k].results \subseteq KnownTo(s, k)
Fresh(s)  == \A k \in 2..Len(s) : s[k - 1].results \cap Names(s[k].body) = {}
OwnOf(s, k) == s[k].results \ (IF k = 1 THEN {} ELSE s[k - 1].results)
Earned(s, extra) ==
  /\ \A k \in 1..(Len(s) - 1) : OwnOf(s, k) = s[k].passed
  /\ OwnOf(s, Len(s)) = s[Len(s)].passed \cup extra

Stored == IF Succeeded THEN {Step.name} ELSE {}

ResultInv == IInv /\ Within(stack) /\ Fresh(stack) /\ Earned(stack, Stored)

\* What a change of the innermost frame keeps.
LEMMA TopResults ==
  ASSUME NEW s, NEW t, NEW n \in Nat \ {0}, Len(s) = n, Len(t) = n,
         \A k \in 1..(n - 1) : t[k] = s[k],
         n # 1 => t[n].body = s[n].body,
         Within(s), Fresh(s),
         t[n].results \subseteq KnownTo(s, n),
         NEW extra, OwnOf(t, n) = t[n].passed \cup extra,
         NEW before, Earned(s, before)
  PROVE  Within(t) /\ Fresh(t) /\ Earned(t, extra)
<1>1. \A k \in 2..n : t[k].body = s[k].body
  <2>1. \A k \in 2..n : k \in 1..(n - 1) \/ (k = n /\ n # 1)
    OBVIOUS
  <2> QED
    BY <2>1
<1>2. \A k \in 1..n : KnownTo(t, k) = KnownTo(s, k)
  <2> SUFFICES ASSUME NEW k \in 1..n PROVE KnownTo(t, k) = KnownTo(s, k)
    OBVIOUS
  <2>1. \A j \in 2..k : t[j].body = s[j].body
    BY <1>1
  <2>2. {Names(t[j].body) : j \in 2..k} = {Names(s[j].body) : j \in 2..k}
    BY <2>1
  <2> QED
    BY <2>2 DEF KnownTo
<1>3. Within(t)
  <2>1. \A k \in 1..(n - 1) : t[k].results \subseteq KnownTo(t, k)
    BY <1>2 DEF Within
  <2>2. t[n].results \subseteq KnownTo(t, n)
    BY <1>2
  <2>3. \A k \in 1..n : k \in 1..(n - 1) \/ k = n
    OBVIOUS
  <2> QED
    BY <2>1, <2>2, <2>3 DEF Within
<1>4. Fresh(t)
  <2>1. \A k \in 2..n : t[k - 1] = s[k - 1]
    OBVIOUS
  <2> QED
    BY <1>1, <2>1 DEF Fresh
<1>5. Earned(t, extra)
  <2>1. \A k \in 1..(n - 1) : OwnOf(t, k) = OwnOf(s, k)
    BY DEF OwnOf
  <2> QED
    BY <2>1 DEF Earned
<1> QED
  BY <1>3, <1>4, <1>5

\* A call begins with the results of its caller.
LEMMA CallResults ==
  ASSUME NEW s, NEW t, NEW n \in Nat \ {0}, Len(s) = n, Len(t) = n + 1,
         \A k \in 1..n : t[k] = s[k],
         t[n + 1].results = s[n].results, t[n + 1].passed = {},
         Names(t[n + 1].body) \cap KnownTo(s, n) = {},
         Within(s), Fresh(s), Earned(s, {})
  PROVE  Within(t) /\ Fresh(t) /\ Earned(t, {})
<1>0. \A k \in 1..(n + 1) : k \in 1..n \/ k = n + 1
  OBVIOUS
<1>1. \A k \in 1..n : KnownTo(t, k) = KnownTo(s, k)
  <2> SUFFICES ASSUME NEW k \in 1..n PROVE KnownTo(t, k) = KnownTo(s, k)
    OBVIOUS
  <2>1. {Names(t[j].body) : j \in 2..k} = {Names(s[j].body) : j \in 2..k}
    OBVIOUS
  <2> QED
    BY <2>1 DEF KnownTo
<1>2. KnownTo(t, n) \subseteq KnownTo(t, n + 1)
  BY DEF KnownTo
<1>3. Within(t)
  <2>1. \A k \in 1..n : t[k].results \subseteq KnownTo(t, k)
    BY <1>1 DEF Within
  <2>2. t[n + 1].results \subseteq KnownTo(t, n + 1)
    BY <1>2, <2>1
  <2> QED
    BY <1>0, <2>1, <2>2 DEF Within
<1>4. Fresh(t)
  <2>1. \A k \in 2..n : t[k - 1].results \cap Names(t[k].body) = {}
    BY DEF Fresh
  <2>2. t[n].results \cap Names(t[n + 1].body) = {}
    BY DEF Within
  <2>3. \A k \in 2..(n + 1) : k \in 2..n \/ (k = n + 1 /\ k - 1 = n)
    OBVIOUS
  <2> QED
    BY <2>1, <2>2, <2>3 DEF Fresh
<1>5. Earned(t, {})
  <2>1. \A k \in 1..n : OwnOf(t, k) = OwnOf(s, k)
    BY DEF OwnOf
  <2>2. \A k \in 1..n : OwnOf(s, k) = s[k].passed
    <3>1. \A k \in 1..n : k \in 1..(n - 1) \/ k = n
      OBVIOUS
    <3> QED
      BY <3>1 DEF Earned
  <2>3. OwnOf(t, n + 1) = {}
    BY DEF OwnOf
  <2> QED
    BY <2>1, <2>2, <2>3 DEF Earned
<1> QED
  BY <1>3, <1>4, <1>5

\* A return drops the results of the keyword.
LEMMA ReturnResults ==
  ASSUME NEW s, NEW t, NEW n \in Nat \ {0}, Len(s) = n + 1, Len(t) = n,
         \A k \in 1..n : t[k] = s[k],
         Within(s), Fresh(s), NEW extra, Earned(s, extra)
  PROVE  Within(t) /\ Fresh(t) /\ Earned(t, {})
<1>1. \A k \in 1..n : KnownTo(t, k) = KnownTo(s, k)
  <2> SUFFICES ASSUME NEW k \in 1..n PROVE KnownTo(t, k) = KnownTo(s, k)
    OBVIOUS
  <2>1. {Names(t[j].body) : j \in 2..k} = {Names(s[j].body) : j \in 2..k}
    OBVIOUS
  <2> QED
    BY <2>1 DEF KnownTo
<1>2. Within(t)
  BY <1>1 DEF Within
<1>3. Fresh(t)
  BY DEF Fresh
<1>4. Earned(t, {})
  <2>1. \A k \in 1..n : OwnOf(t, k) = OwnOf(s, k)
    BY DEF OwnOf
  <2>2. \A k \in 1..n : OwnOf(s, k) = s[k].passed
    BY DEF Earned
  <2>3. n \in 1..n /\ \A k \in 1..(n - 1) : k \in 1..n
    OBVIOUS
  <2> QED
    BY <2>1, <2>2, <2>3 DEF Earned
<1> QED
  BY <1>2, <1>3, <1>4

\* A change of the innermost frame that leaves its results alone.
LEMMA SameResults ==
  ASSUME PipelineAssumption, ResultInv, NEW f \in Frames, SetTop(f),
         Len(stack) # 1 => f.body = Top.body, f.results = Top.results,
         NEW extra, f.passed \cup extra = Top.passed \cup Stored
  PROVE  Within(stack') /\ Fresh(stack') /\ Earned(stack', extra)
<1> DEFINE n == Len(stack)
<1>1. /\ TypeOK /\ n \in Nat \ {0} /\ Top = stack[n]
      /\ Len(stack') = n /\ stack'[n] = f /\ \A k \in 1..(n - 1) : stack'[k] = stack[k]
  BY TopTypes, TopChange DEF ResultInv, IInv
<1>2. stack'[n].results \subseteq KnownTo(stack, n)
  BY <1>1 DEF ResultInv, Within
<1>3. OwnOf(stack', n) = OwnOf(stack, n)
  <2>1. stack'[n].results = stack[n].results
    BY <1>1
  <2>2. n # 1 => stack'[n - 1] = stack[n - 1]
    BY <1>1
  <2> HIDE DEF n
  <2> QED
    BY <2>1, <2>2 DEF OwnOf
<1>4. OwnOf(stack', n) = stack'[n].passed \cup extra
  BY <1>1, <1>3 DEF ResultInv, Earned
<1>5. n # 1 => stack'[n].body = stack[n].body
  BY <1>1
<1>6. Within(stack) /\ Fresh(stack) /\ Earned(stack, Stored)
  BY DEF ResultInv
<1> HIDE DEF n
<1> QED
  BY <1>1, <1>2, <1>4, <1>5, <1>6, TopResults DEF n

\* The name of the step under way: known, and without a result below.
LEMMA NameIsFresh ==
  ASSUME PipelineAssumption, ResultInv, doing = "attempt"
  PROVE  /\ Step.name \in KnownTo(stack, Len(stack))
         /\ Len(stack) # 1 => Step.name \notin stack[Len(stack) - 1].results
<1> DEFINE n == Len(stack)
<1>1. /\ TypeOK /\ n \in Nat \ {0} /\ Top = stack[n] /\ Top \in Frames
      /\ Plan[Top.body] \in Seq(StepRecords)
  BY TopTypes DEF ResultInv, IInv
<1>2. Top.at \in 1..Len(Plan[Top.body])
  <2>1. Top.at \in Nat \ {0} /\ Top.at <= Len(Plan[Top.body])
    BY <1>1 DEF TypeOK, Frames
  <2> QED
    BY <1>1, <2>1, LenProperties
<1>3. Step.name \in Names(Top.body)
  <2>1. DOMAIN Plan[Top.body] = 1..Len(Plan[Top.body])
    BY <1>1, LenProperties
  <2> QED
    BY <1>2, <2>1 DEF Names, Step
<1>4. CASE n = 1
  <2>1. Top.body \in {Main, Teardown}
    BY <1>1, <1>4 DEF ResultInv, IInv, Chain
  <2> QED
    BY <1>3, <1>4, <2>1 DEF KnownTo
<1>5. CASE n # 1
  <2>1. n \in 2..n
    <3>1. n \in Nat \ {0} /\ n # 1
      BY <1>1, <1>5
    <3> HIDE DEF n
    <3> QED
      BY <3>1
  <2>2. Names(stack[n].body) \subseteq KnownTo(stack, n)
    BY <2>1 DEF KnownTo
  <2>3. stack[n - 1].results \cap Names(stack[n].body) = {}
    BY <2>1 DEF ResultInv, Fresh
  <2> QED
    BY <1>1, <1>3, <2>2, <2>3
<1> QED
  BY <1>4, <1>5

\* Every action keeps the results earned.
LEMMA ResultsInductive ==
  ASSUME PipelineAssumption, ResultInv, [Next]_vars
  PROVE  ResultInv'
<1> DEFINE n == Len(stack)
           Goal == Within(stack') /\ Fresh(stack') /\ Earned(stack', Stored')
<1>1. /\ IInv /\ TypeOK /\ n \in Nat \ {0} /\ Top \in Frames /\ Top = stack[n]
      /\ todo \in Seq(StageNames) /\ EndsInStore(todo)
  BY TopTypes DEF ResultInv, IInv, TypeOK
<1>0. Top \in Frames
  BY <1>1
<1>26. /\ Top.at \in Nat \ {0} /\ Top.at + 1 \in Nat \ {0} /\ Top.attempt + 1 \in Nat \ {0}
       /\ Top.passed \subseteq StepNames /\ Teardown \in Bodies
  BY <1>0 DEF Frames, Bodies
<1>2. Within(stack) /\ Fresh(stack) /\ Earned(stack, Stored)
  BY DEF ResultInv
<1>3. IInv'
  BY <1>1, Inductive
<1>4. Goal => ResultInv'
  BY <1>3 DEF ResultInv
<1>5. doing' # "attempt" \/ fault' # "none" \/ todo' # <<>> => Stored' = {}
  BY DEF Stored, Succeeded
<1>6. doing # "attempt" \/ fault # "none" \/ todo # <<>> => Stored = {}
  BY DEF Stored, Succeeded
<1>7. ASSUME UNCHANGED stack, Stored' = Stored PROVE ResultInv'
  <2>1. stack' = stack
    BY <1>7
  <2>2. Goal
    BY <1>2, <1>7, <2>1
  <2> QED
    BY <1>4, <2>2
<1>8. CASE SkipStep
  <2> DEFINE f == [Top EXCEPT !.at = @ + 1]
  <2>1. f \in Frames /\ f.body = Top.body /\ f.results = Top.results /\ f.passed = Top.passed
    <3>1. Top.at + 1 \in Nat \ {0}
      BY <1>26
    <3> QED
      BY <1>0, <3>1, FrameMoved
  <2>2. SetTop(f) /\ Stored = {} /\ Stored' = {}
    BY <1>5, <1>6, <1>8 DEF SkipStep, Deciding
  <2> HIDE DEF f
  <2>3. Goal
    BY <2>1, <2>2, SameResults
  <2> QED
    BY <1>4, <2>3
<1>9. CASE StartStep
  <2> DEFINE f == [Top EXCEPT !.attempt = 1]
  <2>1. f \in Frames /\ f.body = Top.body /\ f.results = Top.results /\ f.passed = Top.passed
    <3>1. 1 \in Nat \ {0}
      BY <1>26
    <3> QED
      BY <1>0, <3>1, FrameRetried
  <2>2. Stored' = {}
    <3>1. Step.kind \in Kinds
      BY <1>1, <1>9, TopTypes DEF StartStep, Deciding, StepRecords
    <3> QED
      BY <1>1, <1>5, <1>9, <3>1, BeginTypes DEF StartStep
  <2>3. SetTop(f) /\ Stored = {}
    BY <1>6, <1>9 DEF StartStep, Deciding
  <2> HIDE DEF f
  <2>4. Goal
    BY <2>1, <2>2, <2>3, SameResults
  <2> QED
    BY <1>4, <2>4
<1>10. CASE Retry
  <2> DEFINE f == [Top EXCEPT !.attempt = @ + 1]
  <2>1. f \in Frames /\ f.body = Top.body /\ f.results = Top.results /\ f.passed = Top.passed
    <3>1. Top.attempt + 1 \in Nat \ {0}
      BY <1>26
    <3> QED
      BY <1>0, <3>1, FrameRetried
  <2>2. Stored' = {}
    <3>1. Step.kind \in Kinds
      BY <1>1, <1>10, TopTypes DEF Retry, Failed, TypeOK, StepRecords
    <3> QED
      BY <1>1, <1>5, <1>10, <3>1, BeginTypes DEF Retry
  <2>3. SetTop(f) /\ Stored = {}
    BY <1>6, <1>10 DEF Retry, Failed
  <2> HIDE DEF f
  <2>4. Goal
    BY <2>1, <2>2, <2>3, SameResults
  <2> QED
    BY <1>4, <2>4
<1>11. CASE StepPasses
  <2> DEFINE f == [Top EXCEPT !.at = @ + 1, !.passed = @ \cup {Step.name}]
  <2>1. Step.name \in StepNames
    BY <1>1, <1>11, TopTypes DEF StepPasses, Succeeded, TypeOK, StepRecords
  <2>2. /\ f \in Frames /\ f.body = Top.body /\ f.results = Top.results
        /\ f.passed = Top.passed \cup {Step.name}
    <3> DEFINE names == Top.passed \cup {Step.name}
               place == Top.at + 1
    <3>1. place \in Nat \ {0} /\ names \in SUBSET StepNames
      BY <1>26, <2>1
    <3>2. f = [Top EXCEPT !.at = place, !.passed = names]
      OBVIOUS
    <3> HIDE DEF f, names, place
    <3>3. /\ f \in Frames /\ f.body = Top.body /\ f.at = place
          /\ f.results = Top.results /\ f.passed = names
      BY <1>0, <3>1, <3>2 DEF Frames
    <3> QED
      BY <3>3 DEF names, place
  <2>3. SetTop(f) /\ Stored = {Step.name} /\ Stored' = {}
    BY <1>5, <1>11 DEF StepPasses, Stored
  <2> HIDE DEF f
  <2>4. Goal
    BY <2>2, <2>3, SameResults
  <2> QED
    BY <1>4, <2>4
<1>12. CASE StepFails
  <2> DEFINE f == IF Top.body = Main THEN [Top EXCEPT !.body = Teardown, !.at = 1]
                                     ELSE [Top EXCEPT !.at = @ + 1]
  <2>1. f \in Frames /\ f.results = Top.results /\ f.passed = Top.passed
    <3>1. CASE Top.body = Main
      <4>1. f = [Top EXCEPT !.body = Teardown, !.at = 1]
        BY <3>1
      <4> HIDE DEF f
      <4> QED
        BY <1>0, <1>26, <4>1, FrameSwitched, Zenon
    <3>2. CASE Top.body # Main
      <4>1. f = [Top EXCEPT !.at = @ + 1] /\ Top.at + 1 \in Nat \ {0}
        BY <1>26, <3>2
      <4> HIDE DEF f
      <4> QED
        BY <1>0, <4>1, FrameMoved
    <3> QED
      BY <3>1, <3>2
  <2>2. SetTop(f) /\ n = 1 /\ Stored = {} /\ Stored' = {}
    BY <1>5, <1>6, <1>12 DEF StepFails, GivenUp, Failed
  <2> HIDE DEF f
  <2>3. Goal
    BY <2>1, <2>2, SameResults
  <2> QED
    BY <1>4, <2>3
<1>13. CASE ListEnds
  <2>1. n = 1 /\ Stored = {}
    BY <1>6, <1>13 DEF ListEnds
  <2>2. CASE Top.body = Main
    <3> DEFINE f == [Top EXCEPT !.body = Teardown, !.at = 1]
    <3>1. f \in Frames /\ f.results = Top.results /\ f.passed = Top.passed
      BY <1>0, <1>26, FrameSwitched, Zenon
    <3>2. SetTop(f) /\ Stored' = {}
      BY <1>5, <1>13, <2>2 DEF ListEnds
    <3> HIDE DEF f
    <3>3. Goal
      BY <2>1, <3>1, <3>2, SameResults
    <3> QED
      BY <1>4, <3>3
  <2>3. CASE Top.body # Main
    BY <1>5, <1>7, <1>13, <2>1, <2>3 DEF ListEnds
  <2> QED
    BY <2>2, <2>3
<1>14. ASSUME Attempting, Head(todo) # "store", todo' = Tail(todo), UNCHANGED stack
       PROVE  ResultInv'
  <2>1. Tail(todo) # <<>> /\ todo # <<>>
    BY <1>1, <1>14, TailShape DEF Attempting
  <2>2. Stored = {} /\ Stored' = {}
    BY <1>5, <1>6, <1>14, <2>1
  <2> QED
    BY <1>7, <1>14, <2>2
<1>15. CASE Evaluate
  BY <1>14, <1>15 DEF Evaluate
<1>16. CASE StageFails
  <2>1. fault' # "none"
    BY <1>16 DEF StageFails, Faults
  <2> QED
    BY <1>5, <1>6, <1>7, <1>16, <2>1 DEF StageFails, Attempting
<1>17. CASE ClearArtifacts
  BY <1>14, <1>17 DEF ClearArtifacts
<1>18. CASE Call
  <2>1. Attempting /\ Head(todo) # "store" /\ UNCHANGED stack
    BY <1>18 DEF Call
  <2>2. todo' = Tail(todo) \/ fault' = "provider"
    BY <1>18 DEF Call
  <2>3. CASE fault' = "provider"
    BY <1>5, <1>6, <1>7, <2>1, <2>3 DEF Attempting
  <2> QED
    BY <1>14, <2>1, <2>2, <2>3
<1>19. CASE Attach
  BY <1>14, <1>19 DEF Attach
<1>20. CASE Store
  <2> DEFINE f == [Top EXCEPT !.results = @ \cup {Step.name}]
  <2>1. doing = "attempt" /\ fault = "none" /\ todo # <<>> /\ Stored = {}
    BY <1>6, <1>20 DEF Store, Attempting
  <2>2. Step.name \in StepNames
    BY <1>1, <2>1, TopTypes DEF TypeOK, StepRecords
  <2>3. /\ f \in Frames /\ f.body = Top.body /\ f.at = Top.at /\ f.passed = Top.passed
        /\ f.results = Top.results \cup {Step.name}
    BY <1>1, <2>2 DEF Frames
  <2>4. SetTop(f)
    BY <1>20 DEF Store
  <2> HIDE DEF f
  <2>5. /\ Len(stack') = n /\ stack'[n] = f
        /\ \A k \in 1..(n - 1) : stack'[k] = stack[k]
    BY <1>1, <2>3, <2>4, TopChange
  <2>6. Stored' = {Step.name}
    <3>1. todo' = <<>> /\ doing' = "attempt" /\ fault' = "none"
      BY <1>1, <1>20, <2>1, TailShape DEF Store
    <3>2. Step' = Step
      BY <2>3, <2>5 DEF Step, Top
    <3> QED
      BY <3>1, <3>2 DEF Stored, Succeeded
  <2>7. /\ Step.name \in KnownTo(stack, n)
        /\ n # 1 => Step.name \notin stack[n - 1].results
    BY <2>1, NameIsFresh
  <2>8. stack'[n].results \subseteq KnownTo(stack, n)
    BY <1>1, <1>2, <2>3, <2>5, <2>7 DEF Within
  <2>9. OwnOf(stack', n) = stack'[n].passed \cup {Step.name}
    <3>1. OwnOf(stack, n) = Top.passed
      BY <1>1, <1>2, <2>1 DEF Earned
    <3>2. OwnOf(stack', n) = OwnOf(stack, n) \cup {Step.name}
      BY <1>1, <2>3, <2>5, <2>7 DEF OwnOf
    <3> QED
      BY <2>3, <2>5, <3>1, <3>2
  <2>10. n # 1 => stack'[n].body = stack[n].body
    BY <1>1, <2>3, <2>5
  <2>11. Within(stack') /\ Fresh(stack') /\ Earned(stack', {Step.name})
    <3> HIDE DEF n
    <3> QED
      BY <1>1, <1>2, <2>5, <2>8, <2>9, <2>10, TopResults DEF n
  <2> QED
    BY <1>4, <2>6, <2>11
<1>21. CASE EnterKeyword
  <2> DEFINE f == Frame(Step.calls, Top.results)
  <2>1. /\ Stored = {} /\ Stored' = {} /\ stack' = Append(stack, f)
        /\ Names(Step.calls) \cap Known = {} /\ Step.calls \in Keywords
    BY <1>5, <1>6, <1>21 DEF EnterKeyword, Attempting
  <2>2. /\ f.body = Step.calls /\ f.results = Top.results /\ f.passed = {} /\ f \in Frames
    BY <1>1, <2>1 DEF Frame, Frames, Bodies
  <2> HIDE DEF f
  <2>3. /\ Len(stack') = n + 1 /\ stack'[n + 1] = f /\ \A k \in 1..n : stack'[k] = stack[k]
    BY <1>1, <2>1, <2>2, AppendProperties DEF TypeOK
  <2>4. KnownTo(stack, n) = Known
    BY DEF KnownTo, Known
  <2>5. Names(stack'[n + 1].body) \cap KnownTo(stack, n) = {}
    BY <2>1, <2>2, <2>3, <2>4
  <2>6. /\ stack'[n + 1].results = stack[n].results /\ stack'[n + 1].passed = {}
        /\ Earned(stack, {})
    BY <1>1, <1>2, <2>1, <2>2, <2>3
  <2>7. Within(stack') /\ Fresh(stack') /\ Earned(stack', {})
    <3> HIDE DEF n
    <3> QED
      BY <1>1, <1>2, <2>3, <2>5, <2>6, CallResults DEF n
  <2> QED
    BY <1>4, <2>1, <2>7
<1>22. ASSUME NEW failure, LeaveKeyword(failure), n > 1 PROVE ResultInv'
  <2> DEFINE m == n - 1
  <2>1. m \in Nat \ {0} /\ n = m + 1 /\ stack \in Seq(Frames)
    BY <1>1, <1>22 DEF TypeOK
  <2>2. Len(stack') = m /\ \A k \in 1..m : stack'[k] = stack[k]
    <3>1. \A k \in 1..m : stack[k] \in Frames
      BY <2>1, ElementOfSeq
    <3> QED
      BY <1>22, <2>1, <3>1, SubSeqProperties DEF LeaveKeyword, Front
  <2>3. Stored' = {}
    BY <1>5, <1>22, AfterKeywordShape DEF LeaveKeyword
  <2> HIDE DEF m
  <2>4. Within(stack') /\ Fresh(stack') /\ Earned(stack', {})
    BY <1>2, <2>1, <2>2, ReturnResults
  <2> QED
    BY <1>4, <2>3, <2>4
<1>23. CASE KeywordStepFails
  BY <1>22, <1>23 DEF KeywordStepFails
<1>24. CASE KeywordEnds
  BY <1>22, <1>24 DEF KeywordEnds
<1>25. CASE UNCHANGED vars
  <2>1. UNCHANGED stack /\ Stored' = Stored
    BY <1>25 DEF vars, attemptVars, Stored, Succeeded, Step, Top
  <2> QED
    BY <1>7, <2>1
<1> QED
  BY <1>8, <1>9, <1>10, <1>11, <1>12, <1>13, <1>15, <1>16, <1>17, <1>18, <1>19, <1>20,
     <1>21, <1>23, <1>24, <1>25 DEF Next, Done

\* A step leaves a result exactly when it passed, and a keyword leaves nothing of
\* its own steps in the state of its caller, for every suite, nesting and order of
\* failures (SetStepResult, newKeywordState).
THEOREM ResultsAreEarned == Spec => []ResultsAreOfPasses
<1>1. Init => ResultInv
  <2> SUFFICES ASSUME Init PROVE ResultInv
    OBVIOUS
  <2> DEFINE f == Frame(Main, {})
  <2>1. IInv
    BY PipelineAssumption, Initially
  <2>2. f.results = {} /\ f.passed = {}
    BY DEF Frame
  <2>3. stack = <<f>>
    BY DEF Init
  <2> HIDE DEF f
  <2>4. Len(stack) = 1 /\ stack[1] = f
    BY <2>3
  <2>5. Stored = {}
    BY DEF Init, Stored, Succeeded
  <2>6. Within(stack)
    BY <2>2, <2>4 DEF Within
  <2>7. Fresh(stack)
    BY <2>4 DEF Fresh
  <2>8. Earned(stack, Stored)
    BY <2>2, <2>4, <2>5 DEF Earned, OwnOf
  <2> QED
    BY <2>1, <2>6, <2>7, <2>8 DEF ResultInv
<1>2. ResultInv /\ [Next]_vars => ResultInv'
  BY PipelineAssumption, ResultsInductive
<1>3. ResultInv => ResultsAreOfPasses
  <2> SUFFICES ASSUME ResultInv, NEW k \in DOMAIN stack
               PROVE  Own(k) = stack[k].passed
                        \cup (IF Succeeded /\ k = Len(stack) THEN {Step.name} ELSE {})
    BY DEF ResultsAreOfPasses
  <2>1. Len(stack) \in Nat \ {0} /\ k \in 1..Len(stack)
    BY PipelineAssumption, TopTypes, LenProperties DEF ResultInv, IInv, TypeOK
  <2>2. Own(k) = OwnOf(stack, k)
    BY DEF Own, OwnOf
  <2>3. CASE k = Len(stack)
    BY <2>2, <2>3 DEF ResultInv, Earned, Stored
  <2>4. CASE k # Len(stack)
    <3>1. k \in 1..(Len(stack) - 1)
      BY <2>1, <2>4
    <3> QED
      BY <2>2, <2>4, <3>1 DEF ResultInv, Earned
  <2> QED
    BY <2>3, <2>4
<1> QED
  BY <1>1, <1>2, <1>3, PTL DEF Spec
-----------------------------------------------------------------------------
(* What the report of an attempt tells.                                    *)

\* The order in which every executor has its stages.
Rank(stage) ==
  CASE stage = "block" -> 1 [] stage = "vars" -> 2 [] stage = "payload" -> 3
    [] stage \in {"summary", "lookup"} -> 4 [] stage \in {"enter", "clear"} -> 5
    [] stage = "call" -> 6 [] stage = "attach" -> 7 [] stage = "save" -> 8
    [] stage = "expect" -> 9 [] stage = "capture" -> 10 [] OTHER -> 11

Coming(s, stage) == \E i \in 1..Len(s) : s[i] = stage
Beyond(s, stage) == \A i \in 1..Len(s) : Rank(s[i]) > Rank(stage)
Sorted(s)        == \A i, j \in 1..Len(s) : i < j => Rank(s[i]) < Rank(s[j])

\* Only keywords enter a keyword, and a keyword has no provider to judge.
Fits(kind, s) ==
  /\ Sorted(s)
  /\ IF kind = "keyword"
     THEN \A stage \in {"call", "save", "expect", "capture"} : ~Coming(s, stage)
     ELSE ~Coming(s, "enter")

\* What an attempt that has not failed has done, read off the stages before it.
\* `files' is what the artifact directory of the step holds.
Sound(kind, s, ran, put, listed, files) ==
  /\ Fits(kind, s)
  /\ listed # {} => Beyond(s, "payload")
  /\ ran => Beyond(s, "call") /\ kind # "keyword"
  /\ kind # "keyword" => ran \/ Coming(s, "call")
  /\ Coming(s, "attach") \/ {"request", "response"} \subseteq listed
  /\ kind # "keyword" /\ "response" \in listed => ran
  /\ kind = "exec" /\ "artifacts" \in listed => ran /\ put
  /\ kind = "exec" /\ ~ran => Coming(s, "clear") \/ files = {}

Files == disk \cap {Directory}

\* A frame below the innermost waits at a keyword call.
Callers(s) == \A k \in 1..(Len(s) - 1) : StepOf(s[k]).kind = "keyword"

AttemptInv ==
  /\ Callers(stack)
  /\ doing = "attempt" /\ fault = "none" => Sound(Step.kind, todo, called, wrote, shown, Files)
  /\ ReportTellsTheAttempt

\* Every executor has its stages in this order, calls its provider unless it is a
\* keyword, attaches what came back, and clears an exec step's directory first.
LEMMA StagesOrder ==
  ASSUME NEW kind \in Kinds, NEW files
  PROVE  Sound(kind, Stages(kind), FALSE, FALSE, {}, files)
<1> DEFINE Shape(s) == Sorted(s) /\ Coming(s, "attach")
           Calls(s) == Shape(s) /\ Coming(s, "call") /\ ~Coming(s, "enter")
<1>1. Calls(HttpStages)
  BY DEF HttpStages, Sorted, Coming, Rank
<1>2. Calls(MobileStages) /\ Calls(BrowserStages)
  BY DEF MobileStages, BrowserStages, Sorted, Coming, Rank
<1>3. Calls(SqlStages) /\ Calls(MailStages) /\ Calls(LoadStages)
  BY DEF SqlStages, MailStages, LoadStages, Sorted, Coming, Rank
<1>4. Calls(WebhookStages) /\ Calls(FileStages) /\ Calls(RpcStages)
  BY DEF WebhookStages, FileStages, RpcStages, Sorted, Coming, Rank
<1>5. Calls(ExecStages) /\ Coming(ExecStages, "clear")
  BY DEF ExecStages, Sorted, Coming, Rank
<1>6. /\ Shape(KeywordStages)
      /\ \A stage \in {"call", "save", "expect", "capture"} : ~Coming(KeywordStages, stage)
  BY DEF KeywordStages, Sorted, Coming, Rank
<1> HIDE DEF Shape, Calls
<1>7. CASE kind = "keyword"
  BY <1>6, <1>7 DEF Stages, Sound, Fits, Shape
<1>8. CASE kind # "keyword"
  <2>1. Calls(Stages(kind)) /\ (kind = "exec" => Coming(Stages(kind), "clear"))
    BY <1>1, <1>2, <1>3, <1>4, <1>5, <1>8 DEF Stages, Kinds
  <2> QED
    BY <1>8, <2>1 DEF Sound, Fits, Shape, Calls
<1> QED
  BY <1>7, <1>8

\* So has a keyword call that came back.
LEMMA AfterKeywordOrder ==
  ASSUME NEW files
  PROVE  Sound("keyword", AfterKeyword, FALSE, FALSE, {"request"}, files)
<1>1. /\ Sorted(AfterKeyword) /\ Beyond(AfterKeyword, "payload") /\ Coming(AfterKeyword, "attach")
      /\ \A stage \in {"call", "save", "expect", "capture"} : ~Coming(AfterKeyword, stage)
  BY DEF AfterKeyword, Sorted, Beyond, Coming, Rank
<1> QED
  BY <1>1 DEF Sound, Fits

\* A stage done leaves the stages after it, all of them later.
LEMMA StageDone ==
  ASSUME NEW s \in Seq(StageNames), s # <<>>
  PROVE  /\ \A stage \in StageNames : Coming(s, stage) <=> Head(s) = stage \/ Coming(Tail(s), stage)
         /\ \A stage \in StageNames : Beyond(s, stage) => Rank(Head(s)) > Rank(stage)
         /\ \A stage \in StageNames : Beyond(s, stage) => Beyond(Tail(s), stage)
         /\ Sorted(s) => Sorted(Tail(s)) /\ Beyond(Tail(s), Head(s))
<1>1. /\ Len(Tail(s)) = Len(s) - 1 /\ Len(s) \in Nat \ {0} /\ Head(s) = s[1]
      /\ \A i \in 1..Len(Tail(s)) : Tail(s)[i] = s[i + 1]
  BY HeadTailProperties, EmptySeq
<1>2. \A i \in 1..Len(Tail(s)) : i + 1 \in 1..Len(s) /\ 1 < i + 1
  BY <1>1
<1>3. \A i \in 1..Len(s) : i = 1 \/ (i - 1 \in 1..Len(Tail(s)) /\ (i - 1) + 1 = i)
  BY <1>1
<1>4. 1 \in 1..Len(s)
  BY <1>1
<1>5. ASSUME NEW stage \in StageNames
      PROVE  Coming(s, stage) <=> Head(s) = stage \/ Coming(Tail(s), stage)
  <2>1. ASSUME Coming(s, stage)
        PROVE  Head(s) = stage \/ Coming(Tail(s), stage)
    <3> PICK i \in 1..Len(s) : s[i] = stage
      BY <2>1 DEF Coming
    <3>1. CASE i = 1
      BY <1>1, <3>1
    <3>2. CASE i # 1
      <4>1. i - 1 \in 1..Len(Tail(s)) /\ Tail(s)[i - 1] = s[(i - 1) + 1] /\ (i - 1) + 1 = i
        BY <1>1, <1>3, <3>2
      <4> QED
        BY <4>1 DEF Coming
    <3> QED
      BY <3>1, <3>2
  <2>2. ASSUME Coming(Tail(s), stage)
        PROVE  Coming(s, stage)
    BY <1>1, <1>2, <2>2 DEF Coming
  <2>3. Head(s) = stage => Coming(s, stage)
    BY <1>1, <1>4 DEF Coming
  <2> QED
    BY <2>1, <2>2, <2>3
<1>6. ASSUME NEW stage \in StageNames, Beyond(s, stage)
      PROVE  Rank(Head(s)) > Rank(stage) /\ Beyond(Tail(s), stage)
  BY <1>1, <1>2, <1>4, <1>6 DEF Beyond
<1>7. ASSUME Sorted(s)
      PROVE  Sorted(Tail(s)) /\ Beyond(Tail(s), Head(s))
  <2>1. Sorted(Tail(s))
    <3> SUFFICES ASSUME NEW i \in 1..Len(Tail(s)), NEW j \in 1..Len(Tail(s)), i < j
                 PROVE  Rank(Tail(s)[i]) < Rank(Tail(s)[j])
      BY DEF Sorted
    <3>1. i + 1 < j + 1 /\ i + 1 \in 1..Len(s) /\ j + 1 \in 1..Len(s)
      BY <1>2
    <3> QED
      BY <1>1, <1>7, <3>1 DEF Sorted
  <2>2. Beyond(Tail(s), Head(s))
    <3> SUFFICES ASSUME NEW i \in 1..Len(Tail(s))
                 PROVE  Rank(Tail(s)[i]) > Rank(Head(s))
      BY DEF Beyond
    <3>1. Rank(s[1]) < Rank(s[i + 1])
      BY <1>2, <1>4, <1>7 DEF Sorted
    <3>2. Rank(s[1]) \in Int /\ Rank(s[i + 1]) \in Int
      BY DEF Rank
    <3> QED
      BY <1>1, <3>1, <3>2
  <2> QED
    BY <2>1, <2>2
<1> QED
  BY <1>5, <1>6, <1>7
\* A stage that only evaluates or stores something leaves the attempt sound.
LEMMA QuietStage ==
  ASSUME NEW kind \in Kinds, NEW s \in Seq(StageNames), s # <<>>,
         NEW ran \in BOOLEAN, NEW put \in BOOLEAN, NEW listed, NEW files,
         Sound(kind, s, ran, put, listed, files),
         Head(s) \notin {"call", "attach", "clear"}
  PROVE  Sound(kind, Tail(s), ran, put, listed, files)
<1>1. {"payload", "call", "attach", "save", "expect", "capture", "enter", "clear"} \subseteq StageNames
  BY DEF StageNames
<1>2. Fits(kind, Tail(s))
  BY <1>1, StageDone DEF Sound, Fits
<1>3. \A stage \in {"call", "attach", "clear"} : Coming(s, stage) => Coming(Tail(s), stage)
  BY <1>1, StageDone
<1>4. \A stage \in {"payload", "call"} : Beyond(s, stage) => Beyond(Tail(s), stage)
  BY <1>1, StageDone
<1> QED
  BY <1>2, <1>3, <1>4 DEF Sound

\* Clearing the directory leaves it clean.
LEMMA ClearingStage ==
  ASSUME NEW kind \in Kinds, NEW s \in Seq(StageNames), s # <<>>,
         NEW ran \in BOOLEAN, NEW put \in BOOLEAN, NEW listed, NEW files,
         Sound(kind, s, ran, put, listed, files), Head(s) = "clear"
  PROVE  Sound(kind, Tail(s), ran, put, listed, {})
<1>1. {"payload", "call", "attach", "save", "expect", "capture", "enter", "clear"} \subseteq StageNames
  BY DEF StageNames
<1>2. Fits(kind, Tail(s))
  BY <1>1, StageDone DEF Sound, Fits
<1>3. \A stage \in {"call", "attach"} : Coming(s, stage) => Coming(Tail(s), stage)
  BY <1>1, StageDone
<1>4. \A stage \in {"payload", "call"} : Beyond(s, stage) => Beyond(Tail(s), stage)
  BY <1>1, StageDone
<1> QED
  BY <1>2, <1>3, <1>4 DEF Sound

\* A provider is called once in an attempt, on a clean directory.
LEMMA CallIsFirst ==
  ASSUME NEW kind \in Kinds, NEW s \in Seq(StageNames), s # <<>>,
         NEW ran \in BOOLEAN, NEW put \in BOOLEAN, NEW listed, NEW files,
         Sound(kind, s, ran, put, listed, files), Head(s) = "call"
  PROVE  /\ kind # "keyword" /\ ~ran
         /\ kind = "exec" => files = {}
         /\ Fits(kind, Tail(s)) /\ Beyond(Tail(s), "call") /\ Coming(Tail(s), "attach")
<1>1. {"payload", "call", "attach", "save", "expect", "capture", "enter", "clear"} \subseteq StageNames
  BY DEF StageNames
<1>2. Fits(kind, Tail(s)) /\ Beyond(Tail(s), "call")
  BY <1>1, StageDone DEF Sound, Fits
<1>3. Coming(s, "call") /\ (Coming(s, "attach") => Coming(Tail(s), "attach"))
  BY <1>1, StageDone
<1>4. kind # "keyword"
  BY <1>3 DEF Sound, Fits
<1>5. ~ran
  <2>1. ran => Rank("call") > Rank("call")
    BY <1>1, StageDone DEF Sound
  <2> QED
    BY <2>1 DEF Rank
<1>6. ~Coming(Tail(s), "clear")
  <2>1. \A i \in 1..Len(Tail(s)) : Rank(Tail(s)[i]) > 6
    BY <1>2 DEF Beyond, Rank
  <2> QED
    BY <2>1 DEF Coming, Rank
<1>7. kind = "exec" => files = {}
  BY <1>1, <1>5, <1>6, StageDone DEF Sound
<1>8. Coming(Tail(s), "attach")
  <2>1. "response" \notin listed
    BY <1>4, <1>5 DEF Sound
  <2> QED
    BY <1>3, <2>1 DEF Sound
<1> QED
  BY <1>2, <1>4, <1>5, <1>7, <1>8

\* What came back is attached after the call, and a keyword's inputs before it.
LEMMA AttachingStage ==
  ASSUME NEW kind \in Kinds, NEW s \in Seq(StageNames), s # <<>>,
         NEW ran \in BOOLEAN, NEW put \in BOOLEAN, NEW listed, NEW files,
         Sound(kind, s, ran, put, listed, files), Head(s) \in {"attach", "summary"},
         NEW new, new = IF Head(s) = "summary" THEN {"request"} ELSE Attached(kind)
  PROVE  Sound(kind, Tail(s), ran, put, listed \cup new, files)
<1>1. {"payload", "call", "attach", "save", "expect", "capture", "enter", "clear", "summary"} \subseteq StageNames
  BY DEF StageNames
<1>2. Fits(kind, Tail(s))
  BY <1>1, StageDone DEF Sound, Fits
<1>3. \A stage \in {"call", "clear"} : Coming(s, stage) => Coming(Tail(s), stage)
  BY <1>1, StageDone
<1>4. \A stage \in {"payload", "call"} : Beyond(s, stage) => Beyond(Tail(s), stage)
  BY <1>1, StageDone
<1>5. Beyond(Tail(s), Head(s))
  BY <1>1, StageDone DEF Sound, Fits
<1>6. Beyond(Tail(s), "payload")
  BY <1>5 DEF Beyond, Rank
<1>7. CASE Head(s) = "summary" /\ new = {"request"}
  <2>1. Coming(s, "attach") => Coming(Tail(s), "attach")
    BY <1>1, <1>7, StageDone
  <2> QED
    BY <1>2, <1>3, <1>4, <1>6, <1>7, <2>1 DEF Sound
<1>8. CASE Head(s) = "attach" /\ new = Attached(kind)
  <2>1. ~Coming(Tail(s), "call")
    <3>1. \A i \in 1..Len(Tail(s)) : Rank(Tail(s)[i]) > 7
      BY <1>5, <1>8 DEF Beyond, Rank
    <3> QED
      BY <3>1 DEF Coming, Rank
  <2>2. kind # "keyword" => ran
    BY <1>3, <2>1 DEF Sound
  <2>3. {"request", "response"} \subseteq new /\ (kind = "exec" => "artifacts" \notin new)
    BY <1>8 DEF Attached
  <2> QED
    BY <1>2, <1>3, <1>4, <1>6, <2>2, <2>3 DEF Sound
<1> QED
  BY <1>7, <1>8

\* A stage that fails an attempt tells what the attempt did before it.
LEMMA FailingStage ==
  ASSUME NEW kind \in Kinds, NEW s \in Seq(StageNames), s # <<>>,
         NEW ran \in BOOLEAN, NEW put \in BOOLEAN, NEW listed, NEW files,
         Sound(kind, s, ran, put, listed, files), NEW why, why \in Faults(kind, Head(s))
  PROVE  /\ why # "none"
         /\ why \in {"save", "assertion", "capture"} => {"request", "response"} \subseteq listed
         /\ why \in {"vars", "eval"} => ~ran /\ listed = {}
<1>1. {"payload", "call", "attach", "save", "expect", "capture", "enter", "clear"} \subseteq StageNames
  BY DEF StageNames
<1>2. why # "none"
  BY DEF Faults
<1>3. ASSUME why \in {"save", "assertion", "capture"}
      PROVE  {"request", "response"} \subseteq listed
  <2>1. Head(s) \in {"save", "expect", "capture"}
    BY <1>3 DEF Faults
  <2>2. Beyond(Tail(s), Head(s))
    BY <1>1, StageDone DEF Sound, Fits
  <2>3. \A i \in 1..Len(Tail(s)) : Rank(Tail(s)[i]) > 7
    BY <2>1, <2>2 DEF Beyond, Rank
  <2>4. ~Coming(Tail(s), "attach")
    BY <2>3 DEF Coming, Rank
  <2>5. ~Coming(s, "attach")
    BY <1>1, <2>1, <2>4, StageDone
  <2> QED
    BY <2>5 DEF Sound
<1>4. ASSUME why \in {"vars", "eval"}
      PROVE  ~ran /\ listed = {}
  <2>1. Head(s) \in {"block", "vars", "payload"}
    BY <1>4 DEF Faults
  <2>2. \A stage \in {"payload", "call"} : ~Beyond(s, stage)
    BY <1>1, <2>1, StageDone DEF Rank
  <2> QED
    BY <2>2 DEF Sound
<1> QED
  BY <1>2, <1>3, <1>4
\* What a change of the innermost frame does to the stack, once its type is known.
LEMMA SetTopShape ==
  ASSUME PipelineAssumption, IInv, IInv', NEW f, SetTop(f)
  PROVE  Top' = f /\ (Callers(stack) => Callers(stack'))
<1>1. /\ Len(stack) \in Nat \ {0} /\ stack \in Seq(Frames)
      /\ Len(stack') \in Nat \ {0} /\ stack' \in Seq(Frames)
  BY TopTypes, LenProperties, EmptySeq DEF IInv, TypeOK
<1>2. stack' = [stack EXCEPT ![Len(stack)] = f]
  BY DEF SetTop
<1>3. DOMAIN stack = 1..Len(stack) /\ DOMAIN stack' = 1..Len(stack')
  BY <1>1, LenProperties
<1>4. DOMAIN stack' = DOMAIN stack
  BY <1>2
<1>5. Len(stack') = Len(stack)
  <2>1. Len(stack) \in 1..Len(stack') /\ Len(stack') \in 1..Len(stack)
    BY <1>1, <1>3, <1>4
  <2> QED
    BY <1>1, <2>1
<1>6. \A k \in 1..Len(stack) : stack'[k] = IF k = Len(stack) THEN f ELSE stack[k]
  BY <1>2, <1>3
<1>7. Top' = f
  BY <1>1, <1>5, <1>6 DEF Top
<1>8. \A k \in 1..(Len(stack) - 1) : stack'[k] = stack[k]
  BY <1>1, <1>6
<1> QED
  BY <1>5, <1>7, <1>8 DEF Callers

\* An attempt that begins is sound.
LEMMA BeginsSound ==
  ASSUME PipelineAssumption, IInv, Begin, Step.kind \in Kinds, Step' = Step
  PROVE  /\ doing' = "attempt" /\ fault' = "none"
         /\ Sound(Step'.kind, todo', called', wrote', shown', Files') /\ ReportTellsTheAttempt'
<1>1. /\ doing' = "attempt" /\ fault' = "none" /\ todo' = Stages(Step.kind)
      /\ called' = FALSE /\ wrote' = FALSE /\ shown' = {}
  BY DEF Begin
<1>3. Sound(Step.kind, Stages(Step.kind), FALSE, FALSE, {}, Files')
  BY StagesOrder
<1>4. Sound(Step'.kind, todo', called', wrote', shown', Files')
  BY <1>1, <1>3
<1>5. todo' # <<>>
  BY <1>1, StagesShape
<1>6. ~Failed' /\ ~Succeeded'
  BY <1>1, <1>5 DEF Failed, Succeeded
<1> QED
  BY <1>1, <1>4, <1>6 DEF ReportTellsTheAttempt

\* A keyword hands its caller, which is a keyword call, an attempt to go on with.
LEMMA ReturnsSound ==
  ASSUME PipelineAssumption, IInv, IInv', Callers(stack), Len(stack) > 1,
         NEW failure \in {"none", "keyword"}, LeaveKeyword(failure)
  PROVE  AttemptInv'
<1> DEFINE n == Len(stack)
<1>1. n \in Nat \ {0, 1} /\ stack \in Seq(Frames)
  BY TopTypes DEF IInv, TypeOK
<1>2. Len(stack') = n - 1 /\ \A k \in 1..(n - 1) : stack'[k] = stack[k]
  <2>1. \A k \in 1..(n - 1) : stack[k] \in Frames
    BY <1>1, ElementOfSeq
  <2> QED
    BY <1>1, <2>1, SubSeqProperties DEF LeaveKeyword, Front
<1>3. Step'.kind = "keyword"
  <2>1. Top' = stack[n - 1] /\ n - 1 \in 1..(n - 1)
    BY <1>1, <1>2 DEF Top
  <2>2. Step' = StepOf(stack[n - 1])
    BY <2>1 DEF Step, StepOf
  <2> QED
    BY <2>1, <2>2 DEF Callers
<1>4. Callers(stack')
  <2>1. \A k \in 1..(n - 2) : k \in 1..(n - 1)
    BY <1>1
  <2>2. (n - 1) - 1 = n - 2
    BY <1>1
  <2> QED
    BY <1>2, <2>1, <2>2 DEF Callers
<1>5. /\ doing' = "attempt" /\ fault' = failure /\ todo' = AfterKeyword
      /\ called' = FALSE /\ wrote' = FALSE /\ shown' = {"request"}
  BY DEF LeaveKeyword
<1>6. AfterKeyword # <<>>
  BY AfterKeywordShape
<1>7. Sound(Step'.kind, todo', called', wrote', shown', Files')
  BY <1>3, <1>5, AfterKeywordOrder
<1>8. ReportTellsTheAttempt'
  BY <1>3, <1>5, <1>6 DEF ReportTellsTheAttempt, Failed, Succeeded
<1> QED
  BY <1>4, <1>7, <1>8 DEF AttemptInv

\* An attempt about to do its next stage.
Ready ==
  /\ todo \in Seq(StageNames) /\ todo # <<>> /\ Step.kind \in Kinds
  /\ called \in BOOLEAN /\ wrote \in BOOLEAN
  /\ Sound(Step.kind, todo, called, wrote, shown, Files)

\* The three stage lemmas with something new in the report, of the actions themselves.
LEMMA FailingAttempt ==
  ASSUME Ready, StageFails
  PROVE  /\ fault' # "none"
         /\ fault' \in {"save", "assertion", "capture"} => {"request", "response"} \subseteq shown
         /\ fault' \in {"vars", "eval"} => ~called /\ shown = {}
<1>1. fault' \in Faults(Step.kind, Head(todo))
  BY DEF StageFails
<1> QED
  BY <1>1, FailingStage DEF Ready

LEMMA AttachingAttempt ==
  ASSUME Ready, Attach
  PROVE  Sound(Step.kind, Tail(todo), called, wrote, shown', Files)
<1> DEFINE new == IF Head(todo) = "summary" THEN {"request"} ELSE Attached(Step.kind)
<1>1. Head(todo) \in {"attach", "summary"} /\ shown' = shown \cup new
  BY DEF Attach
<1>2. new = IF Head(todo) = "summary" THEN {"request"} ELSE Attached(Step.kind)
  OBVIOUS
<1> HIDE DEF new
<1>3. Sound(Step.kind, Tail(todo), called, wrote, shown \cup new, Files)
  BY <1>1, <1>2, AttachingStage DEF Ready
<1> QED
  BY <1>1, <1>3

\* What an exec step finds in its directory after the command.
Listed == IF Step.kind = "exec" /\ Directory \in disk' THEN {"artifacts"} ELSE {}

LEMMA CallingAttempt ==
  ASSUME Ready, Call
  PROVE  /\ Step.kind # "keyword"
         /\ Sound(Step.kind, Tail(todo), TRUE, wrote', shown \cup Listed, Files')
<1>1. /\ Head(todo) = "call" /\ wrote' \in BOOLEAN
      /\ disk' = IF wrote' THEN disk \cup {Directory} ELSE disk
  BY DEF Call
<1>2. /\ Step.kind # "keyword" /\ ~called
      /\ Step.kind = "exec" => Files = {}
      /\ Fits(Step.kind, Tail(todo)) /\ Beyond(Tail(todo), "call") /\ Coming(Tail(todo), "attach")
  BY <1>1, CallIsFirst DEF Ready
<1>3. Step.kind = "exec" => "artifacts" \notin shown
  BY <1>2 DEF Ready, Sound
<1>4. Step.kind = "exec" => Listed = {} \/ wrote'
  BY <1>1, <1>2 DEF Files, Listed
<1>5. Listed \subseteq {"artifacts"}
  BY DEF Listed
<1>6. Beyond(Tail(todo), "payload")
  BY <1>2 DEF Beyond, Rank
<1>7. Step.kind = "exec" /\ "artifacts" \in shown \cup Listed => wrote'
  BY <1>3, <1>4
<1> QED
  BY <1>2, <1>6, <1>7 DEF Sound

\* Every action keeps an attempt accountable, with one case per action of Next.
LEMMA AttemptInductive ==
  ASSUME PipelineAssumption, IInv, AttemptInv, [Next]_vars
  PROVE  AttemptInv'
<1> DEFINE n == Len(stack)  S == Sound(Step.kind, todo, called, wrote, shown, Files)
<1>1. IInv'
  BY Inductive
<1>2. /\ TypeOK /\ n \in Nat \ {0} /\ Top \in Frames /\ todo \in Seq(StageNames)
      /\ called \in BOOLEAN /\ wrote \in BOOLEAN
  BY TopTypes DEF IInv, TypeOK, Files
<1>3. doing = "attempt" \/ Deciding => Step \in StepRecords /\ Step.kind \in Kinds
  BY TopTypes, <1>2 DEF TypeOK, StepRecords, Deciding
<1>4. ASSUME doing' \in {"decide", "done"}, Callers(stack')
      PROVE  AttemptInv'
  BY <1>4 DEF AttemptInv, ReportTellsTheAttempt, Failed, Succeeded
<1>5. ASSUME UNCHANGED <<stack, doing, seedScope>>
      PROVE  Callers(stack') /\ Step' = Step
  BY <1>5 DEF AttemptInv, Step, Top
<1>6. ASSUME Callers(stack'), fault' = "none", NEW kind, Step'.kind = kind,
             Sound(kind, todo', called', wrote', shown', Files')
      PROVE  AttemptInv'
  <2>1. Sound(Step'.kind, todo', called', wrote', shown', Files')
    BY <1>6
  <2>2. ReportTellsTheAttempt'
    <3>1. Succeeded' => ~Coming(todo', "attach")
      BY DEF Succeeded, Coming
    <3> QED
      BY <1>6, <2>1, <3>1 DEF Sound, ReportTellsTheAttempt, Failed
  <2> QED
    BY <1>6, <2>1, <2>2 DEF AttemptInv
<1>7. CASE SkipStep \/ StepPasses \/ StepFails
  <2>1. PICK f : SetTop(f)
    BY <1>7 DEF SkipStep, StepPasses, StepFails
  <2>2. doing' = "decide"
    BY <1>7 DEF SkipStep, Deciding, StepPasses, StepFails
  <2> QED
    BY <1>1, <1>4, <2>1, <2>2, SetTopShape DEF AttemptInv
<1>8. CASE StartStep \/ Retry
  <2>1. PICK f : SetTop(f) /\ f.body = Top.body /\ f.at = Top.at
    BY <1>2, <1>8 DEF StartStep, Retry, Frames
  <2>2. Callers(stack') /\ Step' = Step
    BY <1>1, <2>1, SetTopShape DEF AttemptInv, Step
  <2>3. Begin /\ Step.kind \in Kinds
    BY <1>3, <1>8 DEF StartStep, Retry, Failed
  <2> QED
    BY <2>2, <2>3, BeginsSound DEF AttemptInv
<1>9. CASE ListEnds
  <2>1. doing' \in {"decide", "done"}
    BY <1>9 DEF ListEnds
  <2>2. CASE stack' = stack
    BY <1>4, <2>1, <2>2 DEF AttemptInv
  <2>3. CASE \E f : SetTop(f)
    BY <1>1, <1>4, <2>1, <2>3, SetTopShape DEF AttemptInv
  <2> QED
    BY <1>9, <2>2, <2>3 DEF ListEnds
<1>10. Attempting => /\ todo # <<>> /\ S /\ fault = "none" /\ doing = "attempt"
                     /\ Step.kind \in Kinds /\ Head(todo) \in StageNames
  BY <1>2, <1>3 DEF Attempting, AttemptInv
<1>19. Attempting => Ready
  BY <1>2, <1>10 DEF Ready
<1>11. CASE Evaluate
  <2>1. /\ Attempting /\ Head(todo) \notin {"call", "attach", "clear"} /\ todo' = Tail(todo)
        /\ UNCHANGED <<stack, doing, fault, called, wrote, shown, seedScope, disk>>
    BY <1>11 DEF Evaluate
  <2>2. Step' = Step /\ Files' = Files /\ Callers(stack')
    BY <1>5, <2>1 DEF Files, Directory
  <2>3. Sound(Step.kind, Tail(todo), called, wrote, shown, Files)
    BY <1>19, <2>1, QuietStage DEF Ready
  <2>4. Sound(Step.kind, todo', called', wrote', shown', Files')
    BY <2>1, <2>2, <2>3
  <2> QED
    BY <1>6, <1>10, <2>1, <2>2, <2>4
<1>12. CASE StageFails
  <2>1. /\ Attempting /\ fault' \in Faults(Step.kind, Head(todo))
        /\ UNCHANGED <<stack, doing, todo, called, wrote, shown, seedScope, disk>>
    BY <1>12 DEF StageFails
  <2>2. Step' = Step /\ Callers(stack')
    BY <1>5, <2>1
  <2>3. /\ fault' # "none"
        /\ fault' \in {"save", "assertion", "capture"} => {"request", "response"} \subseteq shown
        /\ fault' \in {"vars", "eval"} => ~called /\ shown = {}
    BY <1>12, <1>19, <2>1, FailingAttempt
  <2>4. ReportTellsTheAttempt'
    BY <1>10, <2>1, <2>2, <2>3 DEF ReportTellsTheAttempt, Succeeded, Sound
  <2> QED
    BY <2>2, <2>3, <2>4 DEF AttemptInv
<1>13. CASE ClearArtifacts
  <2>1. /\ Attempting /\ Head(todo) = "clear" /\ todo' = Tail(todo) /\ disk' = disk \ {Directory}
        /\ UNCHANGED <<stack, doing, fault, called, wrote, shown, seedScope>>
    BY <1>13 DEF ClearArtifacts
  <2>2. Step' = Step /\ Files' = {} /\ Callers(stack')
    BY <1>5, <2>1 DEF Files, Directory
  <2>3. Sound(Step.kind, Tail(todo), called, wrote, shown, {})
    BY <1>19, <2>1, ClearingStage DEF Ready
  <2>4. Sound(Step.kind, todo', called', wrote', shown', Files')
    BY <2>1, <2>2, <2>3
  <2> QED
    BY <1>6, <1>10, <2>1, <2>2, <2>4
<1>14. CASE Call
  <2>1. Attempting /\ called' = TRUE /\ UNCHANGED <<stack, doing, seedScope>>
    BY <1>14 DEF Call
  <2>2. Step' = Step /\ Callers(stack')
    BY <1>5, <2>1
  <2>3. /\ Step.kind # "keyword"
        /\ Sound(Step.kind, Tail(todo), TRUE, wrote', shown \cup Listed, Files')
    BY <1>14, <1>19, <2>1, CallingAttempt
  <2>4. CASE fault' = "none" /\ todo' = Tail(todo) /\ shown' = shown \cup Listed
    <3>1. Sound(Step.kind, todo', called', wrote', shown', Files')
      BY <2>1, <2>3, <2>4
    <3> QED
      BY <1>6, <2>2, <2>4, <3>1
  <2>5. ASSUME fault' = "provider", NEW rest \in Salvaged(Step.kind),
               shown' = shown \cup Listed \cup rest
        PROVE  AttemptInv'
    <3>1. Step.kind = "exec" /\ "artifacts" \in shown' => wrote'
      BY <2>3, <2>5 DEF Salvaged, Sound
    <3>2. ReportTellsTheAttempt'
      BY <2>1, <2>2, <2>5, <3>1 DEF ReportTellsTheAttempt, Succeeded
    <3> QED
      BY <2>2, <2>5, <3>2 DEF AttemptInv
  <2> QED
    BY <1>14, <2>4, <2>5 DEF Call, Listed
<1>15. CASE Attach
  <2>1. /\ Attempting /\ todo' = Tail(todo)
        /\ UNCHANGED <<stack, doing, fault, called, wrote, seedScope, disk>>
    BY <1>15 DEF Attach
  <2>2. Step' = Step /\ Files' = Files /\ Callers(stack')
    BY <1>5, <2>1 DEF Files, Directory
  <2>3. Sound(Step.kind, Tail(todo), called, wrote, shown', Files)
    BY <1>15, <1>19, <2>1, AttachingAttempt
  <2>4. Sound(Step.kind, todo', called', wrote', shown', Files')
    BY <2>1, <2>2, <2>3
  <2> QED
    BY <1>6, <1>10, <2>1, <2>2, <2>4
<1>16. CASE Store
  <2>1. /\ Attempting /\ Head(todo) = "store" /\ todo' = Tail(todo)
        /\ UNCHANGED <<doing, fault, called, wrote, shown, seedScope, disk>>
    BY <1>16 DEF Store
  <2>2. PICK f : SetTop(f) /\ f.body = Top.body /\ f.at = Top.at
    BY <1>2, <1>16 DEF Store, Frames
  <2>3. Callers(stack') /\ Step' = Step
    BY <1>1, <2>2, SetTopShape DEF AttemptInv, Step
  <2>4. Files' = Files
    BY <2>1, <2>3 DEF Files, Directory
  <2>5. Sound(Step.kind, Tail(todo), called, wrote, shown, Files)
    <3>1. Head(todo) \notin {"call", "attach", "clear"}
      BY <2>1
    <3> QED
      BY <1>19, <2>1, <3>1, QuietStage DEF Ready
  <2>6. Sound(Step.kind, todo', called', wrote', shown', Files')
    BY <2>1, <2>4, <2>5
  <2> QED
    BY <1>6, <1>10, <2>1, <2>3, <2>6
<1>17. CASE EnterKeyword
  <2>1. /\ Attempting /\ Head(todo) = "enter" /\ doing' = "decide"
        /\ stack' = Append(stack, Frame(Step.calls, Top.results))
    BY <1>17 DEF EnterKeyword
  <2>2. Step.kind = "keyword"
    <3>1. Coming(todo, "enter")
      BY <1>2, <1>10, <2>1, StageDone
    <3> QED
      BY <1>10, <2>1, <3>1 DEF Sound, Fits
  <2>3. Len(stack') = n + 1 /\ \A k \in 1..n : stack'[k] = stack[k]
    BY <1>2, <2>1 DEF TypeOK
  <2>4. StepOf(stack[n]) = Step
    BY DEF StepOf, Step, Top
  <2>5. Callers(stack')
    <3> SUFFICES ASSUME NEW k \in 1..n PROVE StepOf(stack'[k]).kind = "keyword"
      BY <1>2, <2>3 DEF Callers
    <3>1. k = n \/ k \in 1..(n - 1)
      BY <1>2
    <3> QED
      BY <2>2, <2>3, <2>4, <3>1 DEF AttemptInv, Callers
  <2> QED
    BY <1>4, <2>1, <2>5
<1>18. CASE KeywordStepFails \/ KeywordEnds
  <2>1. n > 1 /\ \E failure \in {"none", "keyword"} : LeaveKeyword(failure)
    BY <1>18 DEF KeywordStepFails, KeywordEnds
  <2> QED
    BY <1>1, <2>1, ReturnsSound DEF AttemptInv
<1>20. CASE UNCHANGED vars
  <2>1. UNCHANGED <<stack, doing, todo, fault, called, wrote, shown, seedScope, disk>>
    BY <1>20 DEF vars, attemptVars
  <2>2. Step' = Step /\ Files' = Files
    BY <1>5, <2>1 DEF Files, Directory
  <2>3. ReportTellsTheAttempt'
    BY <2>1, <2>2 DEF AttemptInv, ReportTellsTheAttempt, Failed, Succeeded
  <2> QED
    BY <2>1, <2>2, <2>3 DEF AttemptInv
<1> QED
  BY <1>7, <1>8, <1>9, <1>11, <1>12, <1>13, <1>14, <1>15, <1>16, <1>17, <1>18, <1>20
  DEF Next, Done

\* For every suite, executor and order of failures, retries included: a report shows
\* the response its judgement rests on, no response and no artifacts but the
\* attempt's own, and nothing of a provider that was never called.
THEOREM ReportsAreTrue == Spec => []ReportTellsTheAttempt
<1>1. Init => AttemptInv
  <2> SUFFICES ASSUME Init PROVE AttemptInv
    OBVIOUS
  <2>1. Len(stack) = 1 /\ doing = "decide"
    BY DEF Init
  <2> QED
    BY <2>1 DEF AttemptInv, Callers, ReportTellsTheAttempt, Failed, Succeeded
<1>2. IInv /\ AttemptInv /\ [Next]_vars => AttemptInv'
  BY PipelineAssumption, AttemptInductive
<1>3. AttemptInv => ReportTellsTheAttempt
  BY DEF AttemptInv
<1> QED
  BY <1>1, <1>2, <1>3, Invariant, PTL DEF Spec
=============================================================================
