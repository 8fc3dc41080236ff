# Formal models of the Datadog API client core

This directory holds TLA+ models of the parts of the repository under `src/`
that contain state and control flow:

- the generated `MonitorsApi` client (`src/api/datadogV1/api_monitors.go`);
- one generated model type, `SecurityFiltersResponse`
  (`src/api/v2/datadog/model_security_filters_response.go`).

It also holds the TLC configurations that check those models and the TLAPS
proofs about them.

## 1. The system and its parts

`spec.md` describes the core as four parts. Three of them appear in `src/`;
the fourth is used only as a collaborator.

| Part | Code | What it does |
|---|---|---|
| Request builder | `build*Request` and the first half of each `*Execute` in `api_monitors.go` | Checks that at most one optional-parameters bag was passed and reads `o[0]`. Checks the required argument, resolves the server URL, sets headers and auth keys, and calls `PrepareRequest`. |
| Response dispatcher | the second half of each `*Execute` | Calls `CallAPI` and then `ReadAll` on the body. Closes the body and replaces it with a replayable buffer. Routes by `StatusCode >= 300`. Decodes the error body for the status codes the operation lists (400/403/429, plus 401/404 for some operations, and 409 for `CheckCanDeleteMonitor`). Otherwise decodes the success type. |
| Model | `model_security_filters_response.go` | Optional pointer fields, getters and setters. `MarshalJSON` emits the non-nil fields, or the raw `UnparsedObject`. `UnmarshalJSON` decodes strictly and, on a type error, falls back to `map[string]interface{}`. |
| Transport, configuration, auth | `datadog.APIClient` (not in `src/`) | `CallAPI`, `PrepareRequest`, `ServerURLWithContext`, `SetAuthKeys`, `Client.Decode`. |

How the parts interact:

- A call runs on the caller's goroutine.
  - It is synchronous and shares no mutable state with other calls.
  - It suspends only in `CallAPI` and `ReadAll`.
  - The caller's `context.Context` can end it at either point.
- The dispatcher decodes bodies through `Client.Decode`, i.e. `json.Unmarshal`.
  - That calls each model's `UnmarshalJSON`.
  - So how a model decodes decides whether a response is a typed value, an `UnparsedObject` or an error.

The seven programs under `src/examples/` are demonstration harnesses: each makes
one call and prints the result. They are not modelled.

## 2. Modules

| Module | Models | State (VARIABLES) | Actions |
|---|---|---|---|
| `MonitorsCall` | One call of any `MonitorsApi` operation: the public method, `build*Request` and `*Execute`. The environment is the server, the body stream and the context's owner. | `phase` (idle, awaiting in `CallAPI`, reading in `ReadAll`, done), `call` (operation, bag shape, required argument), `sent`, `canceled`, `reply`, `bodyState`, `out` (the returned triple, abstracted) | `Start` (method, build and prologue up to `CallAPI`), `Respond`, `EndBody`, `Cancel` (environment), `CallReturn`, `ReadBody` (read, close, route) |
| `MonitorsCallContract` | The abstract contract of one call, as a caller sees it: it fails on the spot without I/O, or sends its request and later completes; a canceled call completes with a cancellation, transport or read error. It also proves its own invariant `SentIffRemoteInvariant`. | `cphase` (idle, inflight, done), `cinput`, `csent`, `ccanceled`, `cresult` (the class of what was returned) | `Invoke`, `Cancel`, `Complete` |
| `MonitorsCallProofs` | TLAPS proofs about `MonitorsCall`, including its refinement of `MonitorsCallContract` | (none) | (none) |
| `SecurityFiltersResponse` | One caller-owned model object and its JSON encoding and decoding | `obj` (Data, Meta, UnparsedObject), `input` (last payload decoded), `result` | `New`, `SetData`, `SetMeta`, `UnmarshalJSON`. Getters and `MarshalJSON` change nothing, so they are operators. |
| `MC_*` | TLC instances | | |

### How `MonitorsCall` abstracts the code

The ten operations follow one generated pattern. What differs between them is
kept in a descriptor record (`CheckCanDeleteMonitor`, ..., `ValidateMonitor`):

- whether the method takes a variadic bag;
- whether it has a required argument;
- the success type: an object model, `[]Monitor` (`"array"`) or `interface{}` (`"any"`);
- the status codes whose body is decoded into `APIErrorResponse`;
- the codes whose body is decoded into an operation-specific model (the 409 of `CheckCanDeleteMonitor`).

`Prologue` follows the order of the code's early returns:

1. too many bags;
2. the panic on `o[0]` of an empty non-nil slice;
3. `ServerURLWithContext` failing, which gives a `GenericOpenAPIError` with the cause's message;
4. the required check;
5. `PrepareRequest` failing.

`RequiredPtrNil` is `FALSE`. The builders store `&monitorIds` and `&body` (lines 29, 138, 1201, 1306, 1409), so the `== nil` checks at 64, 355, 1237, 1342 and 1444 never fire. `monitorId` is stored by value (440, 566, 1200, 1305) and has no check at all. Either way, no call stops at a missing required argument.

`CallReturn` is the `err != nil || resp == nil` return of `CallAPI`, with three outcomes:

- a done context wins, whether or not an answer raced in;
- a transport error;
- a response.

`ReadBody` is the rest of `*Execute`:

- A done context or a reset connection fails `ReadAll`, and the response is returned with that error.
- Otherwise `Dispatch` routes the response by status. `StatusError` is the `>= 300` branch, and `ErrorModel` attaches the structured error only when its decode succeeded. `DecodeSuccess` is the success decode. A failed or partial decode gives a `GenericOpenAPIError`, returned beside whatever value the decoder left.

### The contract and the refinement mapping

`MonitorsCall` defines `Contract == INSTANCE MonitorsCallContract WITH ...`:

- `awaiting` and `reading` both map to `inflight`;
- `call`, `sent` and `canceled` map to themselves;
- a finished call's `out.err` maps to its class (`Class`): the two usage errors to `usage`, the two configuration errors to `config`, no error to `ok`, and the rest to themselves.

Under this mapping `Respond`, `EndBody` and the `CallReturn` step that hands the response to `ReadAll` are stutters. `Start` is an `Invoke`. The contract's `Invoke` sends only for an input with no bag or one bag, which is the arity check at `api_monitors.go:443`. It also bounds what a call that sends nothing may report (`LocalFailures`):

- two bags give a usage error;
- an empty spread gives the panic. This is what the code does, not what the spec asks, and it is finding 2; the contract records it so that `ImplementsContract` can pass on the rest;
- any other input gives a configuration error, or a usage error only if its required argument is the zero value.

So a prologue that rejected a single bag (`len(o) > 0`) would break the contract as well as one that let two bags through. The contract's fairness, `WF(ccanceled /\ Complete)`, says only that a canceled call completes: an unanswered request may wait for ever.

Bodies are abstracted to what decoding does with them (`Decode`):

- a JSON object of the right shape;
- an object with a field of the wrong type, which triggers the `UnparsedObject` fallback;
- an array;
- an array with an element no model can take, which `json` stops at after it has grown the slice (`"partial"` for a slice, a failure for any other type);
- a scalar;
- `null`;
- text that is not JSON.

### How `SecurityFiltersResponse` abstracts the code

Field states:

- `Absent`: a nil pointer.
- `NilSlice`: a non-nil pointer to a nil slice, from `SetData(nil)`.
- A model value: a non-nil value.

A payload is a top-level `null`, array, scalar, invalid text, or an object. An
object maps the keys `data`, `meta` and `extra` (a key the model does not know)
to a value of the right type, `null` or a value of the wrong type.

`Unmarshal` follows `UnmarshalJSON` together with what `json.Unmarshal` does
around it:

- Invalid text fails before the method runs.
- A top-level `null` clears both fields.
- A strict success assigns both fields and leaves `UnparsedObject` alone.
- A type error in an object sets `UnparsedObject` and leaves the fields alone.
- An array or scalar fails in both passes and returns an error.

## 3. Runs

| Run | Config | Expect | What it shows |
|---|---|---|---|
| `monitors_call` | `MC_MonitorsCall.cfg` | pass | See below. |
| `required_arg_zero` | `MC_MonitorsCall_RequiredArgValidated.cfg` | violation | A zero-value required argument is sent (finding 1). |
| `empty_bag_spread` | `MC_MonitorsCall_NoBagIsLegal.cfg` | violation | `DeleteMonitor(ctx, id, []DeleteMonitorOptionalParameters{}...)` panics (finding 2). |
| `failed_call_value` | `MC_MonitorsCall_FailedCallReturnsNoValue.cfg` | violation | `ListMonitors` returns a partly decoded slice beside its decode error (finding 7). |
| `security_filters_response` | `MC_SecurityFiltersResponse.cfg` | pass | See below. |
| `round_trip_presence` | `..._RoundTripPresence.cfg` | violation | `SetData(nil)` does not survive a round trip (finding 5). |
| `stale_unparsed` | `..._DecodedObjectReflectsPayload.cfg` | violation | A stale `UnparsedObject` is still marshalled after a successful decode (finding 3). |
| `unknown_keys` | `..._UnknownKeysRetained.cfg` | violation | Unknown keys are dropped (finding 4). |
| `decode_total` | `..._DecodeTotal.cfg` | violation | A valid non-object payload is a decode error (finding 6). |

`monitors_call` covers every operation, bag shape, required argument, status,
body kind and cancellation point. Its properties:

- `TypeOK`.
- `CanceledCallYieldsNoResult`: cancellation is never reported as a result or as an API error.
- `HTTPErrorKeepsStatusAndBody`: a failed decode of an error body never masks the HTTP failure.
- `StructuredErrorMatchesStatus`: a structured error is attached only for a listed code, in the schema listed for it.
- `SuccessOnlyFor2xx`: success only for a 2xx answer read to the end whose body decodes.
- `SentIffNetworkOutcome`: a finished call sent its request exactly when it returned a cancellation, transport, read or API error or a result. A usage, panic or configuration failure never did any I/O (`spec.md` §7).
- `CanceledCallReturns` (liveness): a canceled call returns.
- `ImplementsContract`: every behaviour is one of `MonitorsCallContract!Spec`, fairness included. Its safety part overlaps `CanceledCallYieldsNoResult` and `SentIffNetworkOutcome`, and its fairness part overlaps `CanceledCallReturns`. What only it checks is the bag arity on both sides: a call with two bags or an empty spread never sends, and a call with one bag is never rejected.

`security_filters_response` checks every sequence of constructors, setters and
decodes:

- `TypeOK`.
- `FreshRoundTrip`: encoding the object and decoding the bytes into a new object gives the same `UnparsedObject`, `GetData` and `GetMeta`.
- `FailedDecodeLeavesObject` (an action property): a failed decode changes nothing.

Each property of a passing run has a mutant in `PROJECT.json`. A mutant is a
plausible bug in the definition the property depends on, and TLC must find it:

- `len(o) > 2` (caught by `ImplementsContract`);
- `StatusCode > 300`;
- dropping the `err == nil` test before attaching the error model;
- decoding every error status;
- returning the decode error for an error body;
- ignoring the context in `CallAPI` or in `ReadAll`;
- marshalling the fields while `UnparsedObject` is set;
- assigning the fields before checking the strict error;
- keeping a non-object payload as raw.

### Bounds

`MC_MonitorsCall` uses all ten operations and these statuses:

- 200: success;
- 300: the boundary;
- 400 and 404: listed for some operations only;
- 401: listed only for Delete and Update;
- 409: the conflict code;
- 500: never listed.

It uses all seven body kinds. The bounds are enough because everything the code
branches on is covered: every listed and unlisted status against every
operation's lists, both sides of 300, and every decode outcome, including a
partial slice (`ListMonitors` is the one operation whose success type is a
slice). The run has about 24,000 states.

`MC_SecurityFiltersResponse` uses two Data values and one Meta value, which lets
a decode replace a set value with a different one. Objects range over every
subset of the three keys with every value class. The run has about 1,000 states.

### Fairness

The server, the body stream and the canceller get no fairness: none of them is
bound to act.

`CallReturn` and `ReadBody` are weakly fair. `net/http` returns from
`Client.Do` and from a body `Read` as soon as the request's context is done. That
is what makes `CanceledCallReturns` true of the code and not only of the model.

The model object has no liveness property, so `SecurityFiltersResponse` has no
fairness.

## 4. What is proved

`MonitorsCallProofs.tla` proves the following for every set of operations,
statuses and bodies allowed by the assumptions `OperationsAssumption`,
`StatusesAssumption` and `BodiesAssumption`:

- `TypeCorrect`: `Spec => []TypeOK`.
- `CanceledCallsYieldNoResult`: `Spec => []CanceledCallYieldsNoResult`.
- `HTTPErrorsKeepStatusAndBody`: `Spec => []HTTPErrorKeepsStatusAndBody`.
- `SuccessesAre2xx`: `Spec => []SuccessOnlyFor2xx`.
- `StructuredErrorsMatchStatus`: `Spec => []StructuredErrorMatchesStatus`.
- `RefinesContract`: `Spec => Contract!SafeSpec`. `MonitorsCall` implements the safety part of the abstract call contract.
- `SentIffNetworkOutcomeHolds`: `Spec => []SentIffNetworkOutcome`.

All of them except the last follow from one inductive invariant, `IInv`. `TypeOK` alone is not
inductive, because `ReadBody` reads `reply.status`, so `IInv` adds:

- a reading call holds an HTTP reply;
- `CanceledCallYieldsNoResult`;
- `NoRespFailed`: a call that ended without reading a response ended with an error;
- `ModelFromResponse`: a structured error model is only attached to a response that was read to the end, so `Routed` applies to it;
- `Routed`: a call that read its response to the end returned exactly `Dispatch` of that reply, with the body complete and the context not canceled.

`Routed` stays true because every environment action is disabled once the call
is done, or touches only an unfinished body.

The proof of `RefinesContract` shows that `Init` maps to the contract's
`Init`, and that under `IInv` every step maps to a contract step or a stutter.
It has one case per action:

- `Start` is an `Invoke`. `PrologueContract` gives the failures the contract allows for the input, and shows that only a call with at most one non-empty bag is sent.
- `Cancel` is a `Cancel`.
- A `CallReturn` or `ReadBody` that ends the call is a `Complete`. `DispatchType` shows that a read response ends in an API error or in no error.

`SentIffNetworkOutcomeHolds` is proved through the refinement rather than from
`IInv`:

1. `MonitorsCallContract` itself proves `SentIffRemoteInvariant`: `SafeSpec => []SentIffRemote`. In the contract, a finished call has `csent` exactly when its result is one of the network results. Its inductive invariant `CInv` adds that an in-flight call has sent and returned nothing, and that an idle one has returned nothing.
2. The instance `Contract!SentIffRemoteInvariant` is then a theorem about the mapped states.
3. Under the mapping, `Contract!SentIffRemote` is `SentIffNetworkOutcome`, because `Class` takes exactly the cancellation, transport, read and API errors and `nil` to network results. That step needs only `TypeOK`.

`StructuredErrorsMatchStatus` rests on `DispatchModel`: the model `Dispatch`
attaches is the one `ErrorModel` chose for the status.

The proof of `NextIInv` has one step per action. It rests on these lemmas:

- `DescriptorType`, `DecodeRange`, `FailedType`: well-formedness facts;
- `PrologueType`: the prologue never returns a response, and never returns `nil` when it stops the call;
- `ErrorModelType`, `DispatchType`: routing a response yields an outcome that carries it;
- `StatusesNat`: status codes are natural numbers.

TLC also checked `IInv` as an invariant of the `monitors_call` instance before
it was proved.

`SecurityFiltersResponseProofs.tla` proves three more theorems for any Data and
Meta values allowed by `ValsAssumption`:

- `TypeCorrect`: `Spec => []TypeOK`.
- `FailedDecodeUnchanged`: `Spec => FailedDecodeLeavesObject`.
- `RoundTripsFresh`: `Spec => []FreshRoundTrip`.

`ValsAssumption` says that the Data and Meta values are non-empty and disjoint sets. It also says that none of them is one of the tokens the model uses for a nil pointer, a nil slice, a JSON `null`, a mistyped value or `GetMeta`'s zero value. Those tokens stand for representations that no real `[]SecurityFilter` or `SecurityFilterMeta` value has.

`TypeOK` is inductive as it stands for this module. The argument is the lemma
`UnmarshalType`, which has one case per branch of `UnmarshalJSON`:

- a strict decode assigns only values of the field types (`KnownType`);
- the fallback stores only an object (`ObjectPayload`);
- an error returns the object unchanged.

The action property follows from the same lemma. `TypeStep` is the one-step
half of `TypeCorrect`, so that later proofs can cite it.

`FreshRoundTrip` is not implied by `TypeOK`. An `UnparsedObject` holding an
object that decodes strictly would come back as typed fields with no
`UnparsedObject`. The inductive invariant `IInv` adds `FallbackOnly`: a stored
`UnparsedObject` always has a field of the wrong type, because `UnmarshalJSON`
stores a payload only after its strict decode failed. TLC checked `IInv` on
the `security_filters_response` instance before it was proved. The argument
has two lemmas:

- `TypedRoundTrip`: the object `MarshalJSON` writes for the typed fields has no mistyped field. Decoding it strictly gives back `GetData` and `GetMeta`, including the nil slice that is written as `null` and read back as unset.
- `RoundTrip`: it puts the two branches of `MarshalJSON` together.

What is only model-checked:

- the liveness property `CanceledCallReturns`, and the fairness half of `ImplementsContract`. TLAPS does not reason about fairness or `ENABLED`.

No action property of `MonitorsCall` is stated. Each step of that module sets
`out` as a whole at one of the code's return points. A property such as "the
result changes only when the call returns" would hold by the shape of the
model, so it would check nothing about the code.

## 5. Findings

1. **Required zero values are not validated** (`api_monitors.go:64`, and the same at every required check). The builder stores `&monitorIds`, so `r.monitorIds == nil` is dead code. A nil `monitorIds`, a `monitorId` of 0 or an empty body struct is sent. `spec.md` §4.3 and §8 say this should fail with `MissingParameterError` and make no network call.
2. **An empty spread of bags panics** (`api_monitors.go:447`, and every `o != nil` branch). `o != nil` is true for an empty non-nil slice, and `o[0]` then panics.
3. **A stale `UnparsedObject`** (`model_security_filters_response.go:135`). A strict decode never clears `UnparsedObject`. An object that fell back once keeps emitting the old raw payload even after a valid payload is decoded into it.
4. **Unknown keys are dropped** (line 122). This contradicts `spec.md` §8 ("unknown keys are retrievable").
5. **Presence is lost across a round trip** (line 112). After `SetData(nil)`, `HasData` is true, but after encoding and decoding it is false.
6. **A valid non-object payload is a hard error** (line 128). The fallback only accepts objects. `spec.md` §7 says structural mismatches are absorbed.
7. **A failed call returns a partial value** (`api_monitors.go:867`). `json` grows a `[]Monitor` before it decodes each element, and stops at the first element that fails. `listMonitorsExecute` returns that partly filled slice beside the `GenericOpenAPIError`. `spec.md` §5 says a call either fully succeeds or fully fails.

## 6. Not modelled

- **Query, path and header string building** (`ParameterToString`, path substitution): formatting with no control flow that a property distinguishes. The request is abstracted to `sent`.
- **The transport returning `(nil, nil)`**: no reply has neither a response nor an error, so the `localVarHTTPResponse == nil` half of the guard at `api_monitors.go:82` never applies. `spec.md` §1 takes the transport as correct, and `http.Client.Do`, which `CallAPI` returns from, never yields a nil response with a nil error: it turns one from a `RoundTripper` into an error.
- **The transport, configuration and auth collaborators**: they are not in `src/`. Their answers are nondeterministic inputs: `urlOk`, `prepOk` and the environment actions.
- **The example programs.**

## 7. Plan for later work

- Give `SecurityFiltersResponse` an abstract specification of an optional-field record, and show the model refines it.
- Compose a call with the model object it decodes into, so that a decode failure inside `*Execute` reaches the object.
