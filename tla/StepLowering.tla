---------------------------- MODULE StepLowering ----------------------------
(***************************************************************************)
(* The two readers of a decoded step. The collectors of lang/refs.go look  *)
(* at its expressions when the suite is loaded, so that a reference to a   *)
(* step that will not have run is an error before anything runs; the       *)
(* lowering functions of the runtime evaluate them when the step runs.     *)
(* Each walks the model by hand, field by field, in a file of its own, as  *)
(* the decoders of StepForms do: that they agree is nobody's definition.   *)
(*                                                                         *)
(* A part is a step block or a block nested in it: [kind, attrs, reads],   *)
(* its reads pairs <<attribute, step>> for every `result.<step>' in it.    *)
(***************************************************************************)
EXTENDS StepForms

-----------------------------------------------------------------------------
(* The collectors.                                                         *)
CollectRequestRefs ==
  [request |-> {"method", "url", "headers", "query", "timeout"},
   body |-> {"json", "form", "raw"}, basic |-> {"username", "password"},
   multipart_file |-> {}, multipart_field |-> {}]

CollectExpectRefs == TypedExpectAttrs
CollectSaveRefs == {"body"}
CollectFileRefs ==
  [step |-> {"path"}, expect |-> {"exists", "size_bytes", "text", "json"} \cup FileHashAttrs]
CollectExecRefs ==
  [step |-> {"command", "args", "env", "stdin", "timeout"},
   sandbox |-> {"mode", "workdir", "env", "network"},
   expect |-> {"exit_code", "stdout", "stderr", "stdout_json"}]

\* The value of an action is named key, button or orientation on the device's own.
MobileValue == {"value", "key", "button", "orientation"}

CollectMobileRefs ==
  [step |-> {"platform", "target"}, launch |-> {"clear_state"},
   action |-> Locators \cup MobileValue \cup {"secure"} \cup Timing
                \cup {"direction", "distance", "duration"},
   permissions |-> {"camera", "photos"}]

CollectMobileLocatorRefs == Locators \cup Timing
CollectMobileExpectRefs ==
  [name \in DOMAIN MobileExpects |->
     CollectMobileLocatorRefs \cup (IF name \in {"text", "value"} THEN {"value"} ELSE {})]

CollectSQLRefs == [step |-> {"connection"}, op |-> {"sql", "args"}]
CollectWebhookRefs ==
  [step |-> {"target"},
   start |-> {"address", "path", "public_url", "public_scheme", "public_host", "public_port",
              "max_body_size"},
   wait |-> {"timeout", "count"}, stop |-> {"target"}]
CollectWebhookExpectRefs ==
  [request |-> {"method", "path", "headers", "query", "json", "body"},
   hmac |-> {"header", "secret", "algorithm", "format", "payload", "timestamp_tolerance",
             "timestamp_required"}]
CollectRPCRefs ==
  [step |-> {"target"}, call |-> {"service", "method", "message", "headers", "metadata", "timeout"},
   expect |-> {"status", "error", "message", "headers", "metadata", "trailers"}]
CollectSkipRefs == {"condition", "reason", "os", "arch", "env_set", "env"}

\* What StepDependencies looks at in a step of any provider, and in its own fields.
CollectStep(own) == {"when", "vars", "capture"} \cup own

Collected ==
  [step |->
     [http |-> CollectStep({}), browser |-> CollectStep({}), mail |-> CollectStep({}),
      load |-> CollectStep({}), keyword |-> CollectStep({"name", "inputs"}),
      mobile |-> CollectStep(CollectMobileRefs.step), sql |-> CollectStep(CollectSQLRefs.step),
      webhook |-> CollectStep(CollectWebhookRefs.step), rpc |-> CollectStep(CollectRPCRefs.step),
      file |-> CollectStep(CollectFileRefs.step), exec |-> CollectStep(CollectExecRefs.step)],
   expect |->
     [p \in DOMAIN DecodeStepExpect |->
        CASE p = "file" -> CollectFileRefs.expect [] p = "exec" -> CollectExecRefs.expect
          [] p = "rpc" -> CollectRPCRefs.expect [] p = "webhook" -> {}
          [] OTHER -> CollectExpectRefs],
   mobile |-> [name \in DOMAIN DecodeMobileActionBlock |-> CollectMobileRefs.action],
   mobile_part |-> [launch |-> CollectMobileRefs.launch, terminate |-> {},
                    permissions |-> CollectMobileRefs.permissions],
   mobile_expect |-> CollectMobileExpectRefs,
   browser |-> [name \in DOMAIN DecodeBrowserActionBlock |-> {}],
   browser_expect |-> [name \in DOMAIN DecodeBrowserExpect |-> {}],
   request |-> CollectRequestRefs,
   load_http |-> [name \in DOMAIN RequestBlocks |-> {}],
   block |->
     [run |-> {}, message |-> {}, attachment |-> {}, retry |-> {},
      exec |-> CollectSQLRefs.op, query |-> CollectSQLRefs.op,
      start |-> CollectWebhookRefs.start, wait |-> CollectWebhookRefs.wait,
      stop |-> CollectWebhookRefs.stop, request_expect |-> CollectWebhookExpectRefs.request,
      hmac_signature |-> CollectWebhookExpectRefs.hmac, call |-> CollectRPCRefs.call,
      sandbox |-> CollectExecRefs.sandbox, save |-> CollectSaveRefs,
      skip_if |-> CollectSkipRefs, skip_unless |-> CollectSkipRefs]]

\* FindStepRefs over the attributes a collector passes it.
FindStepRefs(part) ==
  {r[2] : r \in {q \in part.reads : q[1] \in Collected[part.kind[1]][part.kind[2]]}}

-----------------------------------------------------------------------------
(* The lowering functions: the attributes whose value one demands, a null  *)
(* being an error, and the others it evaluates when they are there.        *)
Evaluates(must, may) == [must |-> must, may |-> may]

\* gohcl puts a null in the field of an attribute nobody wrote, and where the decoder
\* keeps it (expr, not optionalExpr) it is not Empty when the step is lowered.
KeepsPlaceholders(kind) ==
  \/ kind[1] \in {"request", "load_http"} /\ kind[2] \in {"request", "body"}
  \/ kind[1] = "expect" /\ kind[2] \notin {"file", "exec", "rpc", "webhook"}
  \/ kind[1] = "browser_expect"
  \/ kind \in {<<"step", "keyword">>, <<"step", "sql">>, <<"step", "mail">>, <<"mobile_part", "launch">>}
  \/ kind[1] = "block" /\ kind[2] \in {"exec", "query", "message", "attachment"}

NotEmpty(kind, attrs) == IF KeepsPlaceholders(kind) THEN Known(FormOf(kind)) ELSE attrs

(* A mobile step.                                                          *)
IsDeviceAction == {"press_key", "press_button", "set_orientation", "dismiss_keyboard"}
EvalMobileLocator == Locators
EvalMobileBoolAttrs == {"secure", "first"}
EvalMobileGestureAttrs == {"direction", "duration", "distance"}

EvaluateMobileStep == Evaluates({"platform", "target"}, {})
EvalMobileLaunch == Evaluates({}, {"clear_state"})
EvalMobilePermissions == Evaluates({}, {"camera", "photos"})
EvalMobileActions ==
  [name \in DOMAIN DecodeMobileActionBlock |->
     Evaluates({}, (IF name \in IsDeviceAction THEN {} ELSE EvalMobileLocator)
                     \cup Timing \cup MobileValue \cup EvalMobileBoolAttrs \cup EvalMobileGestureAttrs)]

EvalMobileVisibility == Evaluates({}, EvalMobileLocator \cup Timing)
EvalMobileValueExpectation == Evaluates({"value"}, EvalMobileLocator \cup Timing)
EvalMobileStateExpectation == Evaluates({}, EvalMobileLocator \cup Timing)
EvalMobileExpect ==
  [visible |-> EvalMobileVisibility, not_visible |-> EvalMobileVisibility,
   text |-> EvalMobileValueExpectation, value |-> EvalMobileValueExpectation,
   enabled |-> EvalMobileStateExpectation, disabled |-> EvalMobileStateExpectation]

(* A browser step.                                                         *)
EvaluateBrowserStep == Evaluates({}, {"target"})
EvalBrowserScroll(attrs) ==
  Evaluates(IF "selector" \in attrs THEN {"selector"} ELSE {"x", "y"}, {})
EvalBrowserUploadPaths == Evaluates({"selector", "paths"}, {})
EvalBrowserActions(name, attrs) ==
  LET own == CASE name = "goto" -> Evaluates({"url"}, {})
               [] name = "press" -> Evaluates({"key"}, {"selector"})
               [] name = "scroll" -> EvalBrowserScroll(attrs)
               [] name = "upload_file" -> EvalBrowserUploadPaths
               [] name \in {"reload", "back", "forward"} -> Evaluates({}, {})
               [] OTHER -> Evaluates({"selector"}, {"value"})
  IN [own EXCEPT !.may = @ \cup {"secure", "force"} \cup Timing]

EvalBrowserVisibility == Evaluates({"selector"}, Timing)
EvalBrowserValueExpectation == Evaluates({"selector"}, {"value"} \cup Timing)
EvalBrowserStateExpectation == Evaluates({"selector"}, Timing)
EvalBrowserAttribute == Evaluates({"selector", "name"}, {"value"} \cup Timing)
EvalBrowserURLOrTitle == Evaluates({}, {"value"} \cup Timing)
\* Each alias is an expectation of its own.
EvaluateWebPerf == Evaluates({}, WebPerfAliases)
EvalBrowserExpect ==
  [visible |-> EvalBrowserVisibility, not_visible |-> EvalBrowserVisibility,
   text |-> EvalBrowserValueExpectation, value |-> EvalBrowserValueExpectation,
   enabled |-> EvalBrowserStateExpectation, disabled |-> EvalBrowserStateExpectation,
   attribute |-> EvalBrowserAttribute, url |-> EvalBrowserURLOrTitle,
   title |-> EvalBrowserURLOrTitle, web_perf |-> EvaluateWebPerf]

(* A request, of an http or of a load step.                                *)
EvaluateRequest == Evaluates({}, {"method", "url", "headers", "query", "timeout"})
EvaluateRequestBody == Evaluates({}, {"json", "form", "raw"})
EvaluateMultipartFilePart ==
  Evaluates({}, {"field", "path", "content", "filename", "content_type"})
EvaluateMultipartFieldPart == Evaluates({}, {"name", "value"})
EvaluateRequestAuth == Evaluates({"username", "password"}, {})
EvaluateRequests ==
  [request |-> EvaluateRequest, body |-> EvaluateRequestBody, basic |-> EvaluateRequestAuth,
   multipart_file |-> EvaluateMultipartFilePart, multipart_field |-> EvaluateMultipartFieldPart]

(* The other providers.                                                    *)
EvaluateLoadExecution(attrs) ==
  Evaluates({IF "duration" \in attrs THEN "duration" ELSE "requests"},
            {"concurrency", "rate", "warmup"})
EvaluateSQLStep(attrs) ==
  Evaluates({"connection", IF "exec" \in attrs THEN "exec" ELSE "query"}, {})
EvaluateSQLOp == Evaluates({"sql"}, {"args"})
EvaluateMailExecution == Evaluates({"target", "message"}, {})
EvaluateMailMessage ==
  Evaluates({"from"}, {"to", "cc", "bcc", "subject", "text", "html", "headers"})
EvaluateMailAttachments(kind, attrs) ==
  Evaluates({"filename", IF "content" \in NotEmpty(kind, attrs) THEN "content" ELSE "path"},
            {"content_type"})
EvaluateWebhookStart ==
  Evaluates({"path"}, {"address", "public_url", "public_scheme", "public_host", "public_port",
                       "max_body_size"})
EvaluateWebhookWait == Evaluates({}, {"timeout", "count"})
EvaluateWebhookStop == Evaluates({"target"}, {})
EvaluateWebhookExecution(attrs) ==
  Evaluates(CASE "start" \in attrs -> {"start"}
              [] "wait" \in attrs -> {"wait", "target"}
              [] OTHER -> {"stop"}, {})
AssertWebhookRequest == Evaluates({}, {"method", "path", "headers", "query", "json", "body"})
AssertWebhookHMAC ==
  Evaluates({"header", "secret", "format"},
            {"algorithm", "timestamp_required", "payload", "timestamp_tolerance"})
EvaluateRPCExecution ==
  [step |-> Evaluates({"target", "call"}, {}),
   call |-> Evaluates({"service", "method"}, {"message", "headers", "metadata", "timeout"})]
AssertRPC == Evaluates({}, {"status", "message", "error", "headers", "metadata", "trailers"})
EvalExecSandbox == Evaluates({}, {"mode", "env", "network", "workdir"})
EvaluateExecExecution == Evaluates({"command"}, {"args", "env", "stdin", "timeout"})
AssertExec == Evaluates({}, {"exit_code", "stdout", "stderr", "stdout_json"})
ResolveFilePath == Evaluates({"path"}, {})
AssertFile == Evaluates({}, {"exists", "size_bytes", "text", "json"} \cup FileHashAttrs)
EvaluateKeywordCall == Evaluates({"name"}, {"inputs"})
ApplySave == Evaluates({"body"}, {})
EvaluateSkipRules == Evaluates({}, {"condition", "reason", "os", "arch", "env_set", "env"})

\* `strict' is evaluated after a `json' that is not null.
EvaluateExpect(attrs) ==
  Evaluates({}, {"status", "headers", "json", "body"} \cup LoadExpectShortcuts
                  \cup (IF "json" \in attrs THEN {"strict"} ELSE {}))

Lowered ==
  [step |->
     [mobile |-> EvaluateMobileStep, browser |-> EvaluateBrowserStep,
      mail |-> EvaluateMailExecution, rpc |-> EvaluateRPCExecution.step,
      file |-> ResolveFilePath, exec |-> EvaluateExecExecution, keyword |-> EvaluateKeywordCall,
      http |-> Evaluates({"request"}, {}), load |-> Evaluates({"http", "run"}, {})],
   mobile |-> EvalMobileActions,
   mobile_part |-> [launch |-> EvalMobileLaunch, terminate |-> Evaluates({}, {}),
                    permissions |-> EvalMobilePermissions],
   mobile_expect |-> EvalMobileExpect,
   browser_expect |-> EvalBrowserExpect,
   request |-> EvaluateRequests, load_http |-> EvaluateRequests,
   block |->
     [message |-> EvaluateMailMessage, exec |-> EvaluateSQLOp, query |-> EvaluateSQLOp,
      start |-> EvaluateWebhookStart, wait |-> EvaluateWebhookWait,
      stop |-> EvaluateWebhookStop, request_expect |-> AssertWebhookRequest,
      hmac_signature |-> AssertWebhookHMAC, call |-> EvaluateRPCExecution.call,
      sandbox |-> EvalExecSandbox, save |-> ApplySave,
      retry |-> Evaluates({}, {"attempts", "interval"}),
      skip_if |-> EvaluateSkipRules, skip_unless |-> EvaluateSkipRules]]

\* The runtime of each provider calls its own assertions.
Assertions(provider, attrs) ==
  CASE provider \in {"http", "sql", "mail", "load"} -> EvaluateExpect(attrs)
    [] provider = "file" -> AssertFile
    [] provider = "exec" -> AssertExec
    [] provider = "rpc" -> AssertRPC
    [] provider \in {"mobile", "browser", "webhook", "keyword"} -> Evaluates({}, {})

\* What a step of any provider evaluates: a keyword's result is its outputs.
RunStep(provider) == {"when", "vars"} \cup (IF provider = "keyword" THEN {} ELSE {"capture"})

LowerStep(provider, attrs) ==
  LET own == CASE provider = "sql" -> EvaluateSQLStep(attrs)
               [] provider = "webhook" -> EvaluateWebhookExecution(attrs)
               [] OTHER -> Lowered.step[provider]
  IN [own EXCEPT !.may = @ \cup RunStep(provider)]

Lower(part) ==
  LET family == part.kind[1]  name == part.kind[2]
  IN CASE family = "expect" -> Assertions(name, part.attrs)
       [] family = "browser" -> EvalBrowserActions(name, part.attrs)
       [] part.kind = <<"block", "attachment">> -> EvaluateMailAttachments(part.kind, part.attrs)
       [] part.kind = <<"block", "run">> -> EvaluateLoadExecution(part.attrs)
       [] family = "step" -> LowerStep(name, part.attrs)
       [] OTHER -> Lowered[family][name]

Evaluated(part) == Lower(part).must \cup Lower(part).may

\* The lowering finds a value for all it demands.
Lowers(part) == Lower(part).must \subseteq part.attrs

\* The blocks of an expect that the runtime of its provider looks at; finishWebhookSimple,
\* for a start and a stop, asserts nothing.
ExpectBlocks(provider, attrs) ==
  CASE provider = "mobile" -> SharedUIBlocks
    [] provider = "browser" -> SharedUIBlocks \cup BrowserUIBlocks \cup {"web_perf"}
    [] provider = "webhook" /\ "wait" \in attrs -> {"request", "hmac_signature"}
    [] OTHER -> {}
=============================================================================
