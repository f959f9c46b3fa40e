----------------------------- MODULE StepForms -----------------------------
(***************************************************************************)
(* What a step block may be made of. A step and each block nested in it    *)
(* has a kind, <<family, name>>, and a form: which attributes its decoder  *)
(* demands, which it allows, of which groups it wants exactly one member   *)
(* (or one of several families of them), and which of its members are      *)
(* blocks rather than expressions. A block is known here by the set of     *)
(* attributes its author wrote; a value is only what it refers to.         *)
(*                                                                         *)
(* Which of them the load-time checks look at, and which a run evaluates,  *)
(* is in StepLowering.                                                     *)
(***************************************************************************)

Form(req, opt, one) == [req |-> req, opt |-> opt, one |-> one, blocks |-> {}]

WithBlocks(form, blocks) == [form EXCEPT !.blocks = blocks]

Known(form) ==
  form.req \cup form.opt \cup form.blocks \cup UNION {UNION group : group \in form.one}

Fits(form, attrs) ==
  /\ form.req \subseteq attrs
  /\ attrs \subseteq Known(form)
  /\ \A group \in form.one : attrs \cap UNION group \in group

ExactlyOne(names) == {{n} : n \in names}
AtLeastOne(names) == (SUBSET names) \ {{}}

\* A block of a type no decoder knows.
Nested == "(another block)"

Timing == {"timeout", "interval"}

-----------------------------------------------------------------------------
(* The blocks of a mobile step.                                            *)
Locators == {"id", "label", "text"}

RequireActionLocator == ExactlyOne(Locators)

\* The loop over the attributes of an action does not look at its blocks.
Action(req, opt, one) == WithBlocks(Form(req, opt \cup Timing, one), {Nested})

DecodeScrollToBlock == Form({}, Timing, {RequireActionLocator})
DecodeDismissKeyboardBlock == Form({}, {}, {})
DecodeTapBlock == Action({}, {"first"}, {RequireActionLocator})
DecodeInputTextBlock == Action({"value"}, {"secure", "first"}, {RequireActionLocator})
DecodeClearTextBlock == Action({}, {"first"}, {RequireActionLocator})
DecodeWaitBlock == Action({}, {"first"}, {RequireActionLocator})
DecodeDoubleTapBlock == Action({}, {"first"}, {RequireActionLocator})
DecodeLongPressBlock == Action({}, {"duration", "first"}, {RequireActionLocator})
DecodeSwipeBlock ==
  Action({"direction"}, {"distance", "duration", "first"}, {RequireActionLocator})
DecodeDeviceActionBlock(arg) == Action({arg}, {}, {})

DecodeMobileActionBlock ==
  [tap |-> DecodeTapBlock, double_tap |-> DecodeDoubleTapBlock,
   long_press |-> DecodeLongPressBlock, input_text |-> DecodeInputTextBlock,
   clear_text |-> DecodeClearTextBlock, swipe |-> DecodeSwipeBlock,
   scroll |-> DecodeSwipeBlock, press_key |-> DecodeDeviceActionBlock("key"),
   press_button |-> DecodeDeviceActionBlock("button"),
   set_orientation |-> DecodeDeviceActionBlock("orientation"),
   wait_visible |-> DecodeWaitBlock, wait_not_visible |-> DecodeWaitBlock,
   wait_enabled |-> DecodeWaitBlock, wait_disabled |-> DecodeWaitBlock,
   dismiss_keyboard |-> DecodeDismissKeyboardBlock, scroll_to |-> DecodeScrollToBlock]

\* The names of the services are free; two of them stand for all.
DecodeMobilePermissions == Form({}, {"camera", "photos"}, {})

MobileParts ==
  [launch |-> Form({}, {"clear_state"}, {}), terminate |-> Form({}, {}, {}),
   permissions |-> DecodeMobilePermissions]

\* visibleBlock and stateBlock; valueBlock has `value' besides.
UIBlock == Locators \cup {"selector"} \cup Timing

RequireExpectLocator == ExactlyOne(Locators)

\* Each loop of decodeMobileStep rejects the selector of the other provider.
MobileExpectBlock(schema) ==
  Form({}, schema \ (Locators \cup {"selector"}), {RequireExpectLocator})

MobileExpects ==
  [visible |-> MobileExpectBlock(UIBlock), not_visible |-> MobileExpectBlock(UIBlock),
   text |-> MobileExpectBlock(UIBlock \cup {"value"}),
   value |-> MobileExpectBlock(UIBlock \cup {"value"}),
   enabled |-> MobileExpectBlock(UIBlock), disabled |-> MobileExpectBlock(UIBlock)]

-----------------------------------------------------------------------------
(* The blocks of a browser step.                                           *)
DecodeBrowserGoto == Action({"url"}, {}, {})
DecodeBrowserSelectorOnly == Action({"selector"}, {}, {})
BrowserPointer == Action({"selector"}, {"force"}, {})
DecodeBrowserFill == Action({"selector", "value"}, {"secure"}, {})
DecodeBrowserPress == Action({"key"}, {"selector"}, {})
DecodeBrowserSelect == Action({"selector", "value"}, {}, {})
DecodeBrowserUploadFile == Action({"selector", "paths"}, {}, {})
\* Mutant: one coordinate is enough.
BrowserScrollByEither == Action({}, {}, {{{"selector"}, {"x"}, {"y"}, {"x", "y"}}})
DecodeBrowserScroll == Action({}, {}, {{{"selector"}, {"x", "y"}}})
DecodeBrowserNoArg == Action({}, {}, {})

DecodeBrowserActionBlock ==
  [goto |-> DecodeBrowserGoto, click |-> BrowserPointer, clear |-> DecodeBrowserSelectorOnly,
   submit |-> DecodeBrowserSelectorOnly, wait_visible |-> DecodeBrowserSelectorOnly,
   wait_not_visible |-> DecodeBrowserSelectorOnly, wait_enabled |-> DecodeBrowserSelectorOnly,
   wait_disabled |-> DecodeBrowserSelectorOnly, hover |-> BrowserPointer,
   check |-> BrowserPointer, uncheck |-> BrowserPointer, fill |-> DecodeBrowserFill,
   press |-> DecodeBrowserPress, scroll |-> DecodeBrowserScroll,
   select |-> DecodeBrowserSelect, upload_file |-> DecodeBrowserUploadFile,
   reload |-> DecodeBrowserNoArg, back |-> DecodeBrowserNoArg, forward |-> DecodeBrowserNoArg]

\* rejectMobileID, rejectMobileLabel; the third locator of the mobile provider, `text',
\* is in the schema and is let through.
BrowserExpectBlock(schema) == Form({}, schema \ {"id", "label"}, {})

WebPerfAliases ==
  {"fcp", "fcp_ms", "lcp", "lcp_ms", "cls", "load", "load_event", "load_event_ms", "dom_ready",
   "dom_content_loaded", "dom_content_loaded_ms", "resources_count", "transfer_size",
   "transfer_size_bytes", "encoded_body_size", "encoded_body_size_bytes",
   "decoded_body_size", "decoded_body_size_bytes"}

DecodeWebPerfBlocks == WithBlocks(Form({}, WebPerfAliases, {}), {Nested})

DecodeBrowserExpect ==
  [visible |-> BrowserExpectBlock(UIBlock), not_visible |-> BrowserExpectBlock(UIBlock),
   text |-> BrowserExpectBlock(UIBlock \cup {"value"}),
   value |-> BrowserExpectBlock(UIBlock \cup {"value"}),
   enabled |-> BrowserExpectBlock(UIBlock), disabled |-> BrowserExpectBlock(UIBlock),
   attribute |-> Form({}, {"selector", "name", "value"} \cup Timing, {}),
   url |-> Form({}, {"value"} \cup Timing, {}), title |-> Form({}, {"value"} \cup Timing, {}),
   web_perf |-> DecodeWebPerfBlocks]

-----------------------------------------------------------------------------
(* The blocks of the other providers.                                      *)
DecodeMultipartFile ==
  Form({"field"}, {"filename", "content_type"}, {ExactlyOne({"path", "content"})})
DecodeMultipartField == Form({"name", "value"}, {}, {})
DecodeMultipartBlock ==
  [multipart_file |-> DecodeMultipartFile, multipart_field |-> DecodeMultipartField]

DecodeRequestBody ==
  WithBlocks(Form({}, {}, {ExactlyOne({"json", "form", "raw", "multipart"})}), {"multipart"})
DecodeRequestAuth == Form({"username", "password"}, {}, {})
RequestBlock ==
  WithBlocks(Form({}, {"method", "url", "headers", "query", "timeout"}, {}), {"body", "auth"})

RequestBlocks ==
  [request |-> RequestBlock, body |-> DecodeRequestBody, basic |-> DecodeRequestAuth,
   multipart_file |-> DecodeMultipartBlock.multipart_file,
   multipart_field |-> DecodeMultipartBlock.multipart_field]

DecodeLoadRun ==
  Form({}, {"concurrency", "rate", "warmup"}, {ExactlyOne({"duration", "requests"})})

SQLOpBlock == Form({"sql"}, {"args"}, {})

DecodeMailMessage ==
  WithBlocks(Form({"from"}, {"subject", "headers", "text", "html"},
                  {AtLeastOne({"to", "cc", "bcc"})}), {"attachment"})
DecodeMailAttachment ==
  Form({"filename"}, {"content_type"}, {ExactlyOne({"path", "content"})})

DecodeWebhookStart ==
  Form({"path"}, {"address", "public_url", "public_scheme", "public_host", "public_port",
                  "max_body_size"}, {})
DecodeWebhookWait == Form({}, {"timeout", "count"}, {})
DecodeWebhookStop == Form({"target"}, {}, {})
DecodeWebhookRequestExpect == Form({}, {"method", "path", "headers", "query", "json", "body"}, {})
DecodeWebhookHMAC ==
  Form({"header", "secret", "payload", "format"},
       {"algorithm", "timestamp_tolerance", "timestamp_required"}, {})

RPCCallBlock ==
  Form({"service", "method"}, {"message", "headers", "metadata", "timeout"}, {})

SandboxBlock == Form({}, {"mode", "workdir", "env", "network"}, {})

SaveBlock == Form({"body"}, {}, {})

\* gohcl fills an attribute that is not there with a null, which neither conversion
\* takes: both attributes are needed. They are evaluated here, without a scope.
DecodeRetry == Form({"attempts", "interval"}, {}, {})

DecodeSkipRule ==
  Form({}, {"reason"}, {AtLeastOne({"condition", "os", "arch", "env_set", "env"})})

OtherBlocks ==
  [run |-> DecodeLoadRun, exec |-> SQLOpBlock, query |-> SQLOpBlock,
   message |-> DecodeMailMessage, attachment |-> DecodeMailAttachment,
   start |-> DecodeWebhookStart, wait |-> DecodeWebhookWait, stop |-> DecodeWebhookStop,
   request_expect |-> DecodeWebhookRequestExpect, hmac_signature |-> DecodeWebhookHMAC,
   call |-> RPCCallBlock, sandbox |-> SandboxBlock, save |-> SaveBlock,
   retry |-> DecodeRetry, skip_if |-> DecodeSkipRule, skip_unless |-> DecodeSkipRule]

-----------------------------------------------------------------------------
(* The expect block.                                                       *)
TypedExpectAttrs == {"status", "headers", "json", "body", "strict"}
SharedUIBlocks == {"visible", "not_visible", "text", "value", "enabled", "disabled"}
BrowserUIBlocks == {"attribute", "url", "title"}

LoadExpectShortcuts ==
  {"requests", "errors", "duration_ms", "rps", "error_ratio", "status_2xx_ratio",
   "status_3xx_ratio", "status_4xx_ratio", "status_5xx_ratio", "p50", "p90", "p95", "p99",
   "min", "max", "mean"}

FileHashAttrs == {"sha1", "sha224", "sha256", "sha384", "sha512", "sha512_224", "sha512_256"}

\* The typed schema takes the blocks of all providers, and `remain' any other; only
\* attributes no provider knows are looked for (validateExpectExtras).
GenericExpect(attrs, blocks) ==
  WithBlocks(Form({}, attrs, {}), SharedUIBlocks \cup blocks \cup {Nested})

DecodeLoadExpect == GenericExpect(TypedExpectAttrs \cup LoadExpectShortcuts, {})
\* Mutant: the block is decoded by the typed schema and rejected by nobody.
ParseWebPerf == GenericExpect(TypedExpectAttrs, {"web_perf"})

RejectBrowserExpectBlocks == GenericExpect(TypedExpectAttrs, {})
DecodeFileExpect ==
  WithBlocks(Form({}, {"exists", "size_bytes", "text", "json"} \cup FileHashAttrs, {}),
             (SharedUIBlocks \ {"text"}) \cup {Nested})
DecodeExecExpect == GenericExpect({"exit_code", "stdout", "stderr", "stdout_json"}, {})
DecodeRPCExpect ==
  Form({}, {"status", "headers", "error", "message", "metadata", "trailers"}, {})
DecodeWebhookExpect == WithBlocks(Form({}, {}, {}), {"request", "hmac_signature"})

\* Typed attributes on any other provider, without web_perf.
DecodeStepExpect ==
  [http |-> GenericExpect(TypedExpectAttrs, {}), sql |-> GenericExpect(TypedExpectAttrs, {}),
   keyword |-> GenericExpect(TypedExpectAttrs, {}),
   mail |-> GenericExpect(TypedExpectAttrs, BrowserUIBlocks),
   mobile |-> RejectBrowserExpectBlocks,
   browser |-> GenericExpect(TypedExpectAttrs, BrowserUIBlocks \cup {"web_perf"}),
   load |-> DecodeLoadExpect, file |-> DecodeFileExpect, exec |-> DecodeExecExpect,
   rpc |-> DecodeRPCExpect, webhook |-> DecodeWebhookExpect]

-----------------------------------------------------------------------------
(* The step block.                                                         *)

\* Members any step may have: no guard looks at the providers of the second line.
CommonExpressions ==
  {"when", "vars", "capture", "name", "inputs", "args", "env", "stdin", "timeout"}
CommonBlocks == {"request", "expect", "response", "retry", "skip_if", "skip_unless"}

DecodeMobileStep ==
  WithBlocks(Form({"platform", "target"}, CommonExpressions, {}),
             CommonBlocks \cup {"launch", "terminate", "permissions", "actions"})
DecodeBrowserStep ==
  WithBlocks(Form({}, CommonExpressions \cup {"target"}, {}), CommonBlocks \cup {"actions"})
DecodeSQLStep ==
  WithBlocks(Form({"connection"}, CommonExpressions, {ExactlyOne({"exec", "query"})}),
             CommonBlocks \cup {"exec", "query"})
DecodeMailStep ==
  WithBlocks(Form({"target", "message"}, CommonExpressions, {}),
             CommonBlocks \cup {"message", "actions"})
DecodeLoadStep ==
  WithBlocks(Form({"http", "run"}, CommonExpressions, {}), CommonBlocks \cup {"http", "run"})
DecodeWebhookStep ==
  WithBlocks(Form({}, CommonExpressions,
                  {{{"start"}, {"wait", "target"}, {"stop"}, {"stop", "target"}}}),
             CommonBlocks \cup {"start", "wait", "stop", "actions"})
DecodeRPCStep ==
  WithBlocks(Form({"target", "call"}, CommonExpressions, {}), CommonBlocks \cup {"call", "actions"})
DecodeFileStep == WithBlocks(Form({"path"}, CommonExpressions, {}), CommonBlocks)
DecodeExecStep ==
  WithBlocks(Form({"command"}, CommonExpressions, {}), CommonBlocks \cup {"sandbox"})

\* decodeProviderSteps: a member that belongs to one provider is an error on another.
DecodeProviderSteps ==
  [mobile |-> DecodeMobileStep, browser |-> DecodeBrowserStep, sql |-> DecodeSQLStep,
   mail |-> DecodeMailStep, load |-> DecodeLoadStep, webhook |-> DecodeWebhookStep,
   rpc |-> DecodeRPCStep, file |-> DecodeFileStep, exec |-> DecodeExecStep,
   http |-> WithBlocks(Form({}, CommonExpressions, {}), CommonBlocks \cup {"save"}),
   keyword |-> WithBlocks(Form({}, CommonExpressions, {}), CommonBlocks)]

-----------------------------------------------------------------------------
Forms ==
  [step |-> DecodeProviderSteps, expect |-> DecodeStepExpect,
   mobile |-> DecodeMobileActionBlock, mobile_part |-> MobileParts,
   mobile_expect |-> MobileExpects, browser |-> DecodeBrowserActionBlock,
   browser_expect |-> DecodeBrowserExpect, request |-> RequestBlocks,
   load_http |-> RequestBlocks, block |-> OtherBlocks]

Kinds == UNION {{<<family, name>> : name \in DOMAIN Forms[family]} : family \in DOMAIN Forms}

FormOf(kind) == Forms[kind[1]][kind[2]]

\* The members that are expressions, which may refer to a result.
Expressions(kind) == Known(FormOf(kind)) \ FormOf(kind).blocks

Accepts(part) ==
  /\ Fits(FormOf(part.kind), part.attrs)
  /\ part.kind = <<"block", "retry">> => part.reads = {}
=============================================================================
