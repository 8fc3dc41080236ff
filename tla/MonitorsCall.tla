---------------------------- MODULE MonitorsCall ----------------------------
(***************************************************************************)
(* One call of a MonitorsApi operation (src/api/datadogV1/api_monitors.go) *)
(* as the goroutine that issues it sees it: the public method, its         *)
(* build*Request helper and its *Execute function.  The goroutine is one   *)
(* actor; the server behind the HTTP transport and whoever owns the call's *)
(* context (and may cancel it) are the environment.  Calls share no        *)
(* mutable state in this code, so one goroutine's call is modelled; after  *)
(* a call returns the goroutine may start the next one.                    *)
(*                                                                         *)
(* Every operation follows the same generated pattern; what differs is     *)
(* kept in its descriptor: whether it takes a variadic optional-parameters *)
(* bag, whether it has a required argument, the schema its success body is *)
(* decoded into, and the status codes for which the error body is decoded *)
(* into a structured model.                                                *)
(***************************************************************************)
EXTENDS Naturals, FiniteSets

CONSTANTS
    Operations,   \* the MonitorsApi operations a caller may invoke
    Statuses,     \* HTTP status codes the server may answer with
    Bodies        \* the abstract response bodies the server may send

OpNames == {"CheckCanDeleteMonitor", "CreateMonitor", "DeleteMonitor",
            "GetMonitor", "ListMonitors", "SearchMonitorGroups",
            "SearchMonitors", "UpdateMonitor", "ValidateExistingMonitor",
            "ValidateMonitor"}

(***************************************************************************)
(* A response body, abstracted to what decoding it does: a JSON object     *)
(* whose fields have the types of the target schema, a JSON object with a  *)
(* field of another type, a JSON array, a JSON scalar, the literal null,   *)
(* and bytes that are not JSON at all (a truncated body, for instance).   *)
(* "array_bad_item" is an array with an element no model can take (a      *)
(* scalar): decoding it into a slice of models fails at that element.      *)
(***************************************************************************)
BodyKinds == {"object_match", "object_conflict", "array", "array_bad_item",
              "scalar", "null", "invalid"}

ASSUME OperationsAssumption == Operations \subseteq OpNames /\ Operations # {}
ASSUME StatusesAssumption == Statuses \subseteq 100..599 /\ Statuses # {}
ASSUME BodiesAssumption == Bodies \subseteq BodyKinds /\ Bodies # {}

-----------------------------------------------------------------------------
(***************************************************************************)
(* Operation descriptors.  optional: the method takes o ...XOptionalParam- *)
(* eters; required: it takes a required argument (monitorIds, monitorId or *)
(* body); success: the type of localVarReturnValue; apiErrors: the codes   *)
(* whose body is decoded into APIErrorResponse; conflict: the codes whose  *)
(* body is decoded into an operation-specific model.                       *)
(***************************************************************************)
CheckCanDeleteMonitor ==
    [optional |-> FALSE, required |-> TRUE, success |-> "object",
     apiErrors |-> {400, 403, 429}, conflict |-> {409}]
CreateMonitor ==
    [optional |-> FALSE, required |-> TRUE, success |-> "object",
     apiErrors |-> {400, 403, 429}, conflict |-> {}]
DeleteMonitor ==
    [optional |-> TRUE, required |-> TRUE, success |-> "object",
     apiErrors |-> {400, 401, 403, 404, 429}, conflict |-> {}]
GetMonitor ==
    [optional |-> TRUE, required |-> TRUE, success |-> "object",
     apiErrors |-> {400, 403, 404, 429}, conflict |-> {}]
ListMonitors ==
    [optional |-> TRUE, required |-> FALSE, success |-> "array",
     apiErrors |-> {400, 403, 429}, conflict |-> {}]
SearchMonitorGroups ==
    [optional |-> TRUE, required |-> FALSE, success |-> "object",
     apiErrors |-> {400, 403, 429}, conflict |-> {}]
SearchMonitors ==
    [optional |-> TRUE, required |-> FALSE, success |-> "object",
     apiErrors |-> {400, 403, 429}, conflict |-> {}]
UpdateMonitor ==
    [optional |-> FALSE, required |-> TRUE, success |-> "object",
     apiErrors |-> {400, 401, 403, 404, 429}, conflict |-> {}]
ValidateExistingMonitor ==
    [optional |-> FALSE, required |-> TRUE, success |-> "any",
     apiErrors |-> {400, 403, 429}, conflict |-> {}]
ValidateMonitor ==
    [optional |-> FALSE, required |-> TRUE, success |-> "any",
     apiErrors |-> {400, 403, 429}, conflict |-> {}]

Descriptor(op) ==
    CASE op = "CheckCanDeleteMonitor"   -> CheckCanDeleteMonitor
      [] op = "CreateMonitor"           -> CreateMonitor
      [] op = "DeleteMonitor"           -> DeleteMonitor
      [] op = "GetMonitor"              -> GetMonitor
      [] op = "ListMonitors"            -> ListMonitors
      [] op = "SearchMonitorGroups"     -> SearchMonitorGroups
      [] op = "SearchMonitors"          -> SearchMonitors
      [] op = "UpdateMonitor"           -> UpdateMonitor
      [] op = "ValidateExistingMonitor" -> ValidateExistingMonitor
      [] op = "ValidateMonitor"         -> ValidateMonitor

(***************************************************************************)
(* Client.Decode (json.Unmarshal) of a body into a target: "typed", the    *)
(* model's UnparsedObject fallback ("unparsed"), or an error ("fail").     *)
(* A model object first decodes strictly; on a type error it re-decodes    *)
(* into map[string]interface{}, which only an object can satisfy.  null    *)
(* leaves every field nil.  interface{} takes any JSON value; a slice      *)
(* takes an array or null.  json grows a slice before it decodes each      *)
(* element and stops at the first element whose UnmarshalJSON fails, so    *)
(* that error leaves a partly filled slice behind ("partial").             *)
(***************************************************************************)
Decode(schema, b) ==
    IF b = "invalid" THEN "fail"
    ELSE IF schema = "any" \/ b = "null" THEN "typed"
    ELSE IF schema = "array" THEN (IF b = "array" THEN "typed"
                                   ELSE IF b = "array_bad_item" THEN "partial"
                                   ELSE "fail")
    ELSE IF b = "object_match" THEN "typed"
    ELSE IF b = "object_conflict" THEN "unparsed"
    ELSE "fail"

-----------------------------------------------------------------------------
(***************************************************************************)
(* The inputs of a call.  bags is the variadic o: "nil" when the caller    *)
(* passes no bag, "empty" when it spreads an empty non-nil slice (o...),   *)
(* "one" or "two" bags.  arg is the required argument: a real     *)
(* value or the zero value of its type (a nil monitorIds slice, monitorId  *)
(* 0, an empty body struct).                                               *)
(***************************************************************************)
BagArgs == {"nil", "empty", "one", "two"}

Calls == {c \in [op : Operations, bags : BagArgs, arg : {"given", "zero"}] :
            /\ ~Descriptor(c.op).optional => c.bags = "nil"
            /\ ~Descriptor(c.op).required => c.arg = "given"}

Replies == [kind : {"http"}, status : Statuses, body : Bodies]

NoReply == [kind |-> "none"]

TransportError == [kind |-> "transport_error"]

Schemas == {"APIErrorResponse", "ConflictModel"}

(***************************************************************************)
(* What the method returns: err is the kind of error (or "nil"), resp      *)
(* whether the *http.Response is non-nil, value whether the typed result   *)
(* is the zero value or a decoded model, errModel the structured model     *)
(* attached to a GenericOpenAPIError, errBody its ErrorBody and errMsg     *)
(* where its ErrorMessage comes from.                                      *)
(***************************************************************************)
ErrKinds == {"nil", "too_many_args", "missing_param", "panic", "server_url",
             "prepare", "canceled", "transport", "read", "api"}

Outcomes == [err : ErrKinds, resp : BOOLEAN,
             value : {"zero", "typed", "unparsed", "partial"},
             errModel : {"none"} \cup (Schemas \X {"typed", "unparsed"}),
             errBody : {"none"} \cup Bodies,
             errMsg : {"none", "status", "decode", "cause"}]

NoResult == [err |-> "nil", resp |-> FALSE, value |-> "zero",
             errModel |-> "none", errBody |-> "none", errMsg |-> "none"]

Failed(kind) == [NoResult EXCEPT !.err = kind]

VARIABLES
    phase,      \* "idle", "awaiting" (in CallAPI), "reading" (in ReadAll), "done"
    call,       \* the inputs of the current call
    sent,       \* whether the request was handed to the transport
    canceled,   \* whether the call's context is done
    reply,      \* NoReply, TransportError, or the status and body sent
    bodyState,  \* "pending", "complete" or "reset": how the body stream ends
    out         \* what the method returned (meaningful when phase = "done")

vars == <<phase, call, sent, canceled, reply, bodyState, out>>

TypeOK ==
    /\ phase \in {"idle", "awaiting", "reading", "done"}
    /\ call \in Calls
    /\ sent \in BOOLEAN
    /\ canceled \in BOOLEAN
    /\ reply \in {NoReply, TransportError} \cup Replies
    /\ bodyState \in {"pending", "complete", "reset"}
    /\ out \in Outcomes

Init ==
    /\ phase = "idle"
    /\ call \in Calls
    /\ sent = FALSE
    /\ canceled = FALSE
    /\ reply = NoReply
    /\ bodyState = "pending"
    /\ out = NoResult

-----------------------------------------------------------------------------
(***************************************************************************)
(* The build*Request helpers store the address of the required argument in *)
(* the request struct, so the "is required and must be specified" check of *)
(* *Execute compares a pointer that is never nil.                          *)
(***************************************************************************)
RequiredPtrNil(c) == FALSE

(***************************************************************************)
(* The synchronous prologue of a call, up to CallAPI: build*Request (at    *)
(* most one bag; o != nil reads o[0]), ServerURLWithContext, the required- *)
(* argument check, header and auth-key set-up, PrepareRequest.  urlOk and  *)
(* prepOk are the answers of the configuration and of PrepareRequest.     *)
(***************************************************************************)
(* Mutation: build*Request checks len(o) > 2, so two bags pass.           *)
PrologueLenOffByOne(c, urlOk, prepOk) ==
    IF c.bags = "empty" THEN [phase |-> "done", out |-> Failed("panic")]
    ELSE IF ~urlOk THEN [phase |-> "done",
                         out |-> [Failed("server_url") EXCEPT !.errMsg = "cause"]]
    ELSE IF ~prepOk THEN [phase |-> "done", out |-> Failed("prepare")]
    ELSE [phase |-> "awaiting", out |-> NoResult]

Prologue(c, urlOk, prepOk) ==
    IF c.bags = "two" THEN [phase |-> "done", out |-> Failed("too_many_args")]
    ELSE IF c.bags = "empty" THEN [phase |-> "done", out |-> Failed("panic")]
    ELSE IF ~urlOk THEN [phase |-> "done",
                         out |-> [Failed("server_url") EXCEPT !.errMsg = "cause"]]
    ELSE IF RequiredPtrNil(c) THEN [phase |-> "done", out |-> Failed("missing_param")]
    ELSE IF ~prepOk THEN [phase |-> "done", out |-> Failed("prepare")]
    ELSE [phase |-> "awaiting", out |-> NoResult]

(* Mutation: the request is counted as sent before the prologue's early   *)
(* returns are taken.                                                      *)
StartMarkingSentEarly ==
    /\ phase \in {"idle", "done"}
    /\ \E c \in Calls, urlOk \in BOOLEAN, prepOk \in BOOLEAN :
         LET r == Prologue(c, urlOk, prepOk) IN
         /\ call' = c
         /\ phase' = r.phase
         /\ out' = r.out
         /\ sent' = TRUE
    /\ canceled' = FALSE
    /\ reply' = NoReply
    /\ bodyState' = "pending"

Start ==
    /\ phase \in {"idle", "done"}
    /\ \E c \in Calls, urlOk \in BOOLEAN, prepOk \in BOOLEAN :
         LET r == Prologue(c, urlOk, prepOk) IN
         /\ call' = c
         /\ phase' = r.phase
         /\ out' = r.out
         /\ sent' = (r.phase = "awaiting")
    /\ canceled' = FALSE
    /\ reply' = NoReply
    /\ bodyState' = "pending"

(***************************************************************************)
(* Environment: the server answers the request (or the connection fails),  *)
(* the rest of the body arrives or the connection is reset, the context's  *)
(* owner cancels it.  None of these is guaranteed to happen.               *)
(***************************************************************************)
Respond ==
    /\ phase = "awaiting"
    /\ reply = NoReply
    /\ reply' \in Replies \cup {TransportError}
    /\ UNCHANGED <<phase, call, sent, canceled, bodyState, out>>

EndBody ==
    /\ reply \in Replies
    /\ bodyState = "pending"
    /\ bodyState' \in {"complete", "reset"}
    /\ UNCHANGED <<phase, call, sent, canceled, reply, out>>

Cancel ==
    /\ phase \in {"awaiting", "reading"}
    /\ ~canceled
    /\ canceled' = TRUE
    /\ UNCHANGED <<phase, call, sent, reply, bodyState, out>>

(***************************************************************************)
(* CallAPI returns: with the context's error once it is done (whether or   *)
(* not an answer raced in), with the transport's error, or with the        *)
(* response.  err != nil || resp == nil returns at once.                   *)
(***************************************************************************)
(* Mutation: CallAPI waits for the answer even when the context is done.  *)
CallReturnIgnoringContext ==
    /\ phase = "awaiting"
    /\ \/ /\ reply = TransportError
          /\ phase' = "done"
          /\ out' = Failed("transport")
       \/ /\ reply \in Replies
          /\ phase' = "reading"
          /\ UNCHANGED out
    /\ UNCHANGED <<call, sent, canceled, reply, bodyState>>

CallReturn ==
    /\ phase = "awaiting"
    /\ \/ /\ canceled
          /\ phase' = "done"
          /\ out' = Failed("canceled")
       \/ /\ reply = TransportError
          /\ phase' = "done"
          /\ out' = Failed("transport")
       \/ /\ reply \in Replies
          /\ phase' = "reading"
          /\ UNCHANGED out
    /\ UNCHANGED <<call, sent, canceled, reply, bodyState>>

(***************************************************************************)
(* The structured model attached to the error of a non-2xx answer: decoded *)
(* only for the operation's listed codes, and dropped when decoding fails. *)
(***************************************************************************)
(* Mutation: the status-code test is dropped, every error body is decoded  *)
(* into APIErrorResponse.                                                  *)
ErrorModelAnyStatus(d, s, b) ==
    IF Decode("object", b) # "fail"
    THEN <<"APIErrorResponse", Decode("object", b)>>
    ELSE "none"

(* Mutation: newErr.ErrorModel = v is assigned without checking err.       *)
ErrorModelIgnoringDecodeError(d, s, b) ==
    IF s \in d.apiErrors THEN <<"APIErrorResponse", Decode("object", b)>>
    ELSE IF s \in d.conflict THEN <<"ConflictModel", Decode("object", b)>>
    ELSE "none"

ErrorModel(d, s, b) ==
    LET decoded == Decode("object", b) IN
    IF s \in d.apiErrors
    THEN IF decoded = "fail" THEN "none" ELSE <<"APIErrorResponse", decoded>>
    ELSE IF s \in d.conflict
    THEN IF decoded = "fail" THEN "none" ELSE <<"ConflictModel", decoded>>
    ELSE "none"

(***************************************************************************)
(* Routing a fully read response: StatusCode >= 300 gives a               *)
(* GenericOpenAPIError with the body and the status line; otherwise the    *)
(* body is decoded into the success type, and a decode error becomes a     *)
(* GenericOpenAPIError with the body and the decoder's message, returned   *)
(* beside whatever localVarReturnValue the decoder left behind.            *)
(***************************************************************************)
StatusError(d, s, b) ==
    [err |-> "api", resp |-> TRUE, value |-> "zero",
     errModel |-> ErrorModel(d, s, b), errBody |-> b, errMsg |-> "status"]

DecodeSuccess(d, b) ==
    LET v == Decode(d.success, b) IN
    IF v \in {"fail", "partial"}
    THEN [err |-> "api", resp |-> TRUE, value |-> IF v = "partial" THEN v ELSE "zero",
          errModel |-> "none", errBody |-> b, errMsg |-> "decode"]
    ELSE [NoResult EXCEPT !.resp = TRUE, !.value = v]

(* Mutation: a failed decode of a listed error body returns the decoder's  *)
(* error instead of the HTTP failure.                                      *)
DispatchMaskingStatus(d, s, b) ==
    IF s >= 300
    THEN IF (s \in d.apiErrors \cup d.conflict) /\ Decode("object", b) = "fail"
         THEN [err |-> "api", resp |-> TRUE, value |-> "zero",
               errModel |-> "none", errBody |-> b, errMsg |-> "decode"]
         ELSE StatusError(d, s, b)
    ELSE DecodeSuccess(d, b)

(* Mutation: StatusCode > 300, so 300 is routed as a success.              *)
DispatchBoundary(d, s, b) ==
    IF s > 300 THEN StatusError(d, s, b) ELSE DecodeSuccess(d, b)

Dispatch(d, s, b) ==
    IF s >= 300 THEN StatusError(d, s, b) ELSE DecodeSuccess(d, b)

(***************************************************************************)
(* ReadAll of the body, Close, the body replaced by a replayable buffer,   *)
(* then routing.  A done context or a reset connection fails the read; the *)
(* response is still returned, with the error.                             *)
(***************************************************************************)
(* Mutation: the body is read to the end whatever the context says.       *)
ReadBodyIgnoringContext ==
    /\ phase = "reading"
    /\ \/ /\ bodyState = "reset"
          /\ out' = [Failed("read") EXCEPT !.resp = TRUE]
       \/ /\ bodyState = "complete"
          /\ out' = Dispatch(Descriptor(call.op), reply.status, reply.body)
    /\ phase' = "done"
    /\ UNCHANGED <<call, sent, canceled, reply, bodyState>>

ReadBody ==
    /\ phase = "reading"
    /\ \/ /\ canceled \/ bodyState = "reset"
          /\ out' = [Failed("read") EXCEPT !.resp = TRUE]
       \/ /\ ~canceled
          /\ bodyState = "complete"
          /\ out' = Dispatch(Descriptor(call.op), reply.status, reply.body)
    /\ phase' = "done"
    /\ UNCHANGED <<call, sent, canceled, reply, bodyState>>

Next ==
    \/ Start
    \/ Respond
    \/ EndBody
    \/ Cancel
    \/ CallReturn
    \/ ReadBody

(***************************************************************************)
(* The goroutine is scheduled whenever it can run: CallAPI and ReadAll     *)
(* return as soon as the context is done (net/http aborts both).  The      *)
(* server and the canceller get no fairness.                               *)
(***************************************************************************)
Fairness == WF_vars(CallReturn) /\ WF_vars(ReadBody)

Spec == Init /\ [][Next]_vars /\ Fairness

-----------------------------------------------------------------------------
(***************************************************************************)
(* Properties.                                                             *)
(***************************************************************************)

(* A call whose context was canceled before its body was fully read never  *)
(* returns a result, a decode error or an API error: CallAPI and ReadAll   *)
(* surface the cancellation and *Execute returns it as is.                 *)
CanceledCallYieldsNoResult ==
    phase = "done" /\ canceled => out.err \in {"canceled", "transport", "read"}

(* Every non-2xx answer whose body was read comes back as a                *)
(* GenericOpenAPIError carrying that body and the status line, with no     *)
(* value, whether or not the error body could be decoded: a failed decode  *)
(* of the error body never replaces the HTTP failure.                      *)
HTTPErrorKeepsStatusAndBody ==
    phase = "done" /\ out.resp /\ out.err # "read" /\ reply.status >= 300 =>
        /\ out.err = "api"
        /\ out.errMsg = "status"
        /\ out.errBody = reply.body
        /\ out.value = "zero"

(* A structured error model is attached only for a code the operation      *)
(* lists, into the schema listed for that code.                            *)
StructuredErrorMatchesStatus ==
    phase = "done" /\ out.errModel # "none" =>
        /\ reply \in Replies
        /\ out.errModel[1] = "APIErrorResponse" =>
               reply.status \in Descriptor(call.op).apiErrors
        /\ out.errModel[1] = "ConflictModel" =>
               reply.status \in Descriptor(call.op).conflict

(* A call returns without error only for a 2xx answer whose body was read  *)
(* to the end and decoded.                                                 *)
SuccessOnlyFor2xx ==
    phase = "done" /\ out.err = "nil" =>
        /\ reply \in Replies
        /\ reply.status < 300
        /\ bodyState = "complete"
        /\ Decode(Descriptor(call.op).success, reply.body) \in {"typed", "unparsed"}

(* The spec: a required parameter given its zero value fails with a        *)
(* MissingParameterError and performs no network call.                     *)
RequiredArgValidated ==
    phase # "idle" /\ call.arg = "zero" => ~sent

(* The spec: passing no optional-parameters bag is legal; in particular    *)
(* spreading an empty slice of bags must not crash the caller.             *)
NoBagIsLegal ==
    phase = "done" /\ call.bags = "empty" => out.err # "panic"

(* Spec section 5: a call either fully succeeds or fully fails, so a call *)
(* returns an error returns the zero value beside it.                      *)
FailedCallReturnsNoValue ==
    phase = "done" /\ out.err # "nil" => out.value = "zero"

(* Spec section 7: a usage error is detected before any network I/O.  A    *)
(* finished call sent its request exactly when what it returned came from  *)
(* the network: a cancellation, transport or read error, an API error or a *)
(* result; a bag misuse, a panic or a configuration error never sent one.  *)
SentIffNetworkOutcome ==
    phase = "done" =>
        (sent <=> out.err \in {"canceled", "transport", "read", "api", "nil"})

(* Once a call's context is done the call returns, however long the        *)
(* server takes to answer or to send the body.                             *)
CanceledCallReturns ==
    (canceled /\ phase \in {"awaiting", "reading"}) ~> (phase = "done")

-----------------------------------------------------------------------------
(***************************************************************************)
(* The refinement mapping onto MonitorsCallContract: awaiting and reading  *)
(* are both "in flight", and the error a finished call returns is mapped   *)
(* to its class (the two usage errors, the two configuration errors, and   *)
(* no error as "ok").                                                      *)
(***************************************************************************)
Class(err) ==
    IF err \in {"too_many_args", "missing_param"} THEN "usage"
    ELSE IF err \in {"server_url", "prepare"} THEN "config"
    ELSE IF err = "nil" THEN "ok"
    ELSE err

Contract == INSTANCE MonitorsCallContract
    WITH Inputs <- Calls,
         cphase <- IF phase \in {"awaiting", "reading"} THEN "inflight" ELSE phase,
         cinput <- call,
         csent <- sent,
         ccanceled <- canceled,
         cresult <- IF phase = "done" THEN Class(out.err) ELSE "none"

(* Every behaviour of the call is one the contract allows: a request is    *)
(* sent only for at most one non-empty bag, a bag misuse fails before any  *)
(* I/O, a canceled call never returns an API error or a result, and a      *)
(* canceled call always returns.                                           *)
ImplementsContract == Contract!Spec

=============================================================================
