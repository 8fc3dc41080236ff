------------------------- MODULE MonitorsCallProofs -------------------------
(***************************************************************************)
(* Proofs about MonitorsCall for every set of operations, status codes and *)
(* bodies: the type invariant, and that cancellation, non-2xx answers and  *)
(* successes are reported the way CanceledCallYieldsNoResult,              *)
(* HTTPErrorKeepsStatusAndBody and SuccessOnlyFor2xx say.                  *)
(***************************************************************************)
EXTENDS MonitorsCall, TLAPS

(***************************************************************************)
(* The inductive invariant.  TypeOK alone is not inductive: ReadBody reads *)
(* reply.status and reply.body, so a reading call must hold an HTTP reply. *)
(* The last conjunct records that a response that was read to the end is   *)
(* returned exactly as Dispatch routes it, for the reply still held; no    *)
(* environment step changes reply, bodyState or canceled once the call is  *)
(* done, which is why it stays true.                                       *)
(***************************************************************************)
Routed ==
    phase = "done" /\ out.resp /\ out.err # "read" =>
        /\ reply \in Replies
        /\ bodyState = "complete"
        /\ ~canceled
        /\ out = Dispatch(Descriptor(call.op), reply.status, reply.body)

(* A call that ended before a response was read ended with an error.      *)
NoRespFailed ==
    phase = "done" /\ ~out.resp => out.err # "nil"

(* A structured error model is only ever attached to a response that was *)
(* read to the end.                                                        *)
ModelFromResponse ==
    out.errModel # "none" => out.resp /\ out.err # "read"

IInv ==
    /\ TypeOK
    /\ phase = "reading" => reply \in Replies
    /\ CanceledCallYieldsNoResult
    /\ NoRespFailed
    /\ ModelFromResponse
    /\ Routed

Success == {"object", "array", "any"}

Descriptors == [optional : BOOLEAN, required : BOOLEAN, success : Success,
                apiErrors : SUBSET Nat, conflict : SUBSET Nat]

-----------------------------------------------------------------------------
(* Status codes are natural numbers.                                       *)
LEMMA StatusesNat == Statuses \subseteq Nat
<1>1. 100..599 \subseteq Nat
  OBVIOUS
<1>2. QED
  BY <1>1, StatusesAssumption

(* Every operation's descriptor is well formed.                            *)
LEMMA DescriptorType ==
    ASSUME NEW op \in OpNames
    PROVE  Descriptor(op) \in Descriptors
BY DEF OpNames, Descriptor, Descriptors, Success,
       CheckCanDeleteMonitor, CreateMonitor, DeleteMonitor, GetMonitor,
       ListMonitors, SearchMonitorGroups, SearchMonitors, UpdateMonitor,
       ValidateExistingMonitor, ValidateMonitor

(* Decoding has four results, and only a slice is ever left partly filled. *)
LEMMA DecodeRange ==
    ASSUME NEW schema, NEW b
    PROVE  /\ Decode(schema, b) \in {"typed", "unparsed", "fail", "partial"}
           /\ schema # "array" => Decode(schema, b) # "partial"
BY DEF Decode

(* A failed call outcome has the type of an outcome and no response.      *)
LEMMA FailedType ==
    ASSUME NEW k \in ErrKinds
    PROVE  /\ Failed(k) \in Outcomes
           /\ Failed(k).resp = FALSE
           /\ Failed(k).err = k
           /\ Failed(k).errModel = "none"
BY DEF Failed, NoResult, Outcomes

(* The prologue either ends the call without a response or hands the      *)
(* request to the transport with nothing returned yet.                     *)
LEMMA PrologueType ==
    ASSUME NEW c, NEW urlOk \in BOOLEAN, NEW prepOk \in BOOLEAN
    PROVE  LET r == Prologue(c, urlOk, prepOk) IN
           /\ r.phase \in {"done", "awaiting"}
           /\ r.out \in Outcomes
           /\ r.out.resp = FALSE
           /\ r.phase = "done" => r.out.err # "nil"
           /\ r.out.errModel = "none"
<1> DEFINE r == Prologue(c, urlOk, prepOk)
<1>1. \A k \in ErrKinds : /\ [Failed(k) EXCEPT !.errMsg = "cause"] \in Outcomes
                          /\ [Failed(k) EXCEPT !.errMsg = "cause"].resp = FALSE
                          /\ [Failed(k) EXCEPT !.errMsg = "cause"].err = k
                          /\ [Failed(k) EXCEPT !.errMsg = "cause"].errModel = "none"
  BY DEF Failed, NoResult, Outcomes
<1>2. NoResult \in Outcomes /\ NoResult.resp = FALSE /\ NoResult.errModel = "none"
  BY DEF NoResult, Outcomes, ErrKinds
<1>3. QED
  BY <1>1, <1>2, FailedType DEF Prologue, RequiredPtrNil, ErrKinds

(* The structured model attached to an API error is one of the schemas,   *)
(* typed or unparsed.                                                      *)
LEMMA ErrorModelType ==
    ASSUME NEW d, NEW s, NEW b
    PROVE  ErrorModel(d, s, b) \in {"none"} \cup (Schemas \X {"typed", "unparsed"})
<1>1. Decode("object", b) \in {"typed", "unparsed", "fail"}
  BY DecodeRange, "object" # "array"
<1>2. QED
  BY <1>1 DEF ErrorModel, Schemas

(* Routing a response gives an outcome that carries the response.         *)
LEMMA DispatchType ==
    ASSUME NEW d \in Descriptors, NEW s \in Nat, NEW b \in Bodies
    PROVE  /\ Dispatch(d, s, b) \in Outcomes
           /\ Dispatch(d, s, b).resp = TRUE
           /\ Dispatch(d, s, b).err \in {"api", "nil"}
<1>1. Decode(d.success, b) \in {"typed", "unparsed", "fail", "partial"}
  BY DecodeRange
<1>2. ErrorModel(d, s, b) \in {"none"} \cup (Schemas \X {"typed", "unparsed"})
  BY ErrorModelType
<1>3. CASE s >= 300
  BY <1>2, <1>3 DEF Dispatch, StatusError, Outcomes, ErrKinds
<1>4. CASE ~(s >= 300) /\ Decode(d.success, b) \in {"fail", "partial"}
  BY <1>4 DEF Dispatch, DecodeSuccess, Outcomes, ErrKinds
<1>5. CASE ~(s >= 300) /\ Decode(d.success, b) \notin {"fail", "partial"}
  <2>1. Decode(d.success, b) \in {"typed", "unparsed"}
    BY <1>1, <1>5
  <2>2. Dispatch(d, s, b) = [NoResult EXCEPT !.resp = TRUE, !.value = Decode(d.success, b)]
    BY <1>5 DEF Dispatch, DecodeSuccess
  <2>3. QED
    BY <2>1, <2>2 DEF NoResult, Outcomes, ErrKinds
<1>6. QED
  BY <1>3, <1>4, <1>5

-----------------------------------------------------------------------------
LEMMA InitIInv == Init => IInv
<1> SUFFICES ASSUME Init PROVE IInv
  OBVIOUS
<1>1. NoResult \in Outcomes
  BY DEF NoResult, Outcomes, ErrKinds
<1>2. QED
  BY <1>1 DEF Init, IInv, TypeOK, CanceledCallYieldsNoResult, NoRespFailed, ModelFromResponse, Routed, NoResult

LEMMA NextIInv == IInv /\ [Next]_vars => IInv'
<1> SUFFICES ASSUME IInv, [Next]_vars PROVE IInv'
  OBVIOUS
<1> USE DEF IInv
<1>1. CASE Start
  <2>1. PICK c \in Calls, urlOk \in BOOLEAN, prepOk \in BOOLEAN :
              LET r == Prologue(c, urlOk, prepOk) IN
              /\ call' = c
              /\ phase' = r.phase
              /\ out' = r.out
              /\ sent' = (r.phase = "awaiting")
    BY <1>1 DEF Start
  <2>2. /\ phase' \in {"done", "awaiting"}
        /\ out' \in Outcomes
        /\ out'.resp = FALSE
        /\ phase' = "done" => out'.err # "nil"
        /\ out'.errModel = "none"
    BY <2>1, PrologueType
  <2>3. canceled' = FALSE /\ reply' = NoReply /\ bodyState' = "pending"
    BY <1>1 DEF Start
  <2>4. TypeOK'
    BY <2>1, <2>2, <2>3 DEF TypeOK
  <2>5. QED
    BY <2>2, <2>3, <2>4 DEF CanceledCallYieldsNoResult, NoRespFailed, ModelFromResponse, Routed
<1>2. CASE Respond
  BY <1>2 DEF Respond, TypeOK, CanceledCallYieldsNoResult, NoRespFailed, ModelFromResponse, Routed
<1>3. CASE EndBody
  BY <1>3 DEF EndBody, TypeOK, CanceledCallYieldsNoResult, NoRespFailed, ModelFromResponse, Routed
<1>4. CASE Cancel
  BY <1>4 DEF Cancel, TypeOK, CanceledCallYieldsNoResult, NoRespFailed, ModelFromResponse, Routed
<1>5. CASE CallReturn
  <2>1. /\ Failed("canceled") \in Outcomes /\ Failed("canceled").resp = FALSE
        /\ Failed("canceled").err = "canceled"
        /\ Failed("transport") \in Outcomes /\ Failed("transport").resp = FALSE
        /\ Failed("transport").err = "transport"
        /\ Failed("canceled").errModel = "none" /\ Failed("transport").errModel = "none"
    BY FailedType DEF ErrKinds
  <2>2. QED
    BY <1>5, <2>1 DEF CallReturn, TypeOK, CanceledCallYieldsNoResult, NoRespFailed, ModelFromResponse, Routed
<1>6. CASE ReadBody
  <2>1. reply \in Replies
    BY <1>6 DEF ReadBody
  <2>2. Descriptor(call.op) \in Descriptors
    <3>1. call.op \in OpNames
      BY OperationsAssumption DEF TypeOK, Calls
    <3>2. QED
      BY <3>1, DescriptorType
  <2>3. reply.status \in Nat /\ reply.body \in Bodies
    <3>1. reply.status \in Statuses /\ reply.body \in Bodies
      BY <2>1 DEF Replies
    <3>2. QED
      BY <3>1, StatusesNat
  <2> DEFINE D == Dispatch(Descriptor(call.op), reply.status, reply.body)
  <2>4. D \in Outcomes /\ D.resp = TRUE /\ D.err # "read"
    BY <2>2, <2>3, DispatchType
  <2>5. /\ [Failed("read") EXCEPT !.resp = TRUE] \in Outcomes
        /\ [Failed("read") EXCEPT !.resp = TRUE].err = "read"
        /\ [Failed("read") EXCEPT !.resp = TRUE].errModel = "none"
    BY DEF Failed, NoResult, Outcomes, ErrKinds
  <2>6. CASE canceled \/ bodyState = "reset"
    <3>1. out' = [Failed("read") EXCEPT !.resp = TRUE]
      BY <1>6, <2>6 DEF ReadBody
    <3>2. QED
      BY <1>6, <2>5, <3>1 DEF ReadBody, TypeOK, CanceledCallYieldsNoResult, NoRespFailed, ModelFromResponse, Routed
  <2>7. CASE ~canceled /\ bodyState = "complete"
    <3>1. out' = D
      BY <1>6, <2>7 DEF ReadBody
    <3>2. QED
      BY <1>6, <2>1, <2>4, <2>7, <3>1
         DEF ReadBody, TypeOK, CanceledCallYieldsNoResult, NoRespFailed, ModelFromResponse, Routed
  <2>8. QED
    BY <1>6, <2>6, <2>7 DEF ReadBody
<1>7. CASE UNCHANGED vars
  BY <1>7 DEF vars, TypeOK, CanceledCallYieldsNoResult, NoRespFailed, ModelFromResponse, Routed
<1>8. QED
  BY <1>1, <1>2, <1>3, <1>4, <1>5, <1>6, <1>7 DEF Next

(* The strengthened invariant holds in every reachable state.              *)
THEOREM IInvInvariant == Spec => []IInv
BY InitIInv, NextIInv, PTL DEF Spec

-----------------------------------------------------------------------------
(* Every state of every behaviour is well typed.                           *)
THEOREM TypeCorrect == Spec => []TypeOK
<1>1. IInv => TypeOK
  BY DEF IInv
<1>2. QED
  BY IInvInvariant, <1>1, PTL

(* A call whose context is done before its body was read never returns a   *)
(* result, a decode error or an API error.                                 *)
THEOREM CanceledCallsYieldNoResult == Spec => []CanceledCallYieldsNoResult
<1>1. IInv => CanceledCallYieldsNoResult
  BY DEF IInv
<1>2. QED
  BY IInvInvariant, <1>1, PTL

(* The structured model a call returns is decoded from a response whose    *)
(* status the operation lists for that model.                              *)
LEMMA DispatchModel ==
    ASSUME NEW d, NEW s, NEW b, Dispatch(d, s, b).errModel # "none"
    PROVE  /\ Dispatch(d, s, b).errModel[1] = "APIErrorResponse" => s \in d.apiErrors
           /\ Dispatch(d, s, b).errModel[1] = "ConflictModel" => s \in d.conflict
<1>1. DecodeSuccess(d, b).errModel = "none"
  BY DEF DecodeSuccess, NoResult
<1>2. Dispatch(d, s, b).errModel = ErrorModel(d, s, b)
  BY <1>1 DEF Dispatch, StatusError
<1>3. QED
  BY <1>2 DEF ErrorModel

(* An API error that carries APIErrorResponse or the conflict model was    *)
(* answered with a status the operation decodes into that model.           *)
THEOREM StructuredErrorsMatchStatus == Spec => []StructuredErrorMatchesStatus
<1>1. IInv => StructuredErrorMatchesStatus
  <2> SUFFICES ASSUME IInv, phase = "done", out.errModel # "none"
               PROVE  /\ reply \in Replies
                      /\ out.errModel[1] = "APIErrorResponse" =>
                             reply.status \in Descriptor(call.op).apiErrors
                      /\ out.errModel[1] = "ConflictModel" =>
                             reply.status \in Descriptor(call.op).conflict
    BY DEF StructuredErrorMatchesStatus
  <2>1. out.resp /\ out.err # "read"
    BY DEF IInv, ModelFromResponse
  <2>2. /\ reply \in Replies
        /\ out = Dispatch(Descriptor(call.op), reply.status, reply.body)
    BY <2>1 DEF IInv, Routed
  <2>3. QED
    BY <2>2, DispatchModel
<1>2. QED
  BY IInvInvariant, <1>1, PTL

(* Every non-2xx answer that was read is returned as an API error carrying *)
(* the body and the status line and no value.                              *)
THEOREM HTTPErrorsKeepStatusAndBody == Spec => []HTTPErrorKeepsStatusAndBody
<1>1. IInv => HTTPErrorKeepsStatusAndBody
  <2> SUFFICES ASSUME IInv, phase = "done", out.resp, out.err # "read",
                      reply.status >= 300
               PROVE  /\ out.err = "api"
                      /\ out.errMsg = "status"
                      /\ out.errBody = reply.body
                      /\ out.value = "zero"
    BY DEF HTTPErrorKeepsStatusAndBody
  <2>1. /\ reply \in Replies
        /\ out = Dispatch(Descriptor(call.op), reply.status, reply.body)
    BY DEF IInv, Routed
  <2>2. QED
    BY <2>1 DEF Dispatch, StatusError
<1>2. QED
  BY IInvInvariant, <1>1, PTL

(* A call returns without error only for a 2xx answer read to the end and  *)
(* decoded.                                                                *)
THEOREM SuccessesAre2xx == Spec => []SuccessOnlyFor2xx
<1>1. IInv => SuccessOnlyFor2xx
  <2> SUFFICES ASSUME IInv, phase = "done", out.err = "nil"
               PROVE  /\ reply \in Replies
                      /\ reply.status < 300
                      /\ bodyState = "complete"
                      /\ Decode(Descriptor(call.op).success, reply.body) \in {"typed", "unparsed"}
    BY DEF SuccessOnlyFor2xx
  <2>1. out.resp
    BY DEF IInv, NoRespFailed
  <2>2. /\ reply \in Replies
        /\ bodyState = "complete"
        /\ out = Dispatch(Descriptor(call.op), reply.status, reply.body)
    BY <2>1 DEF IInv, Routed
  <2>3. reply.status \in Nat
    <3>1. reply.status \in Statuses
      BY <2>2 DEF Replies
    <3>2. QED
      BY <3>1, StatusesNat
  <2>4. Decode(Descriptor(call.op).success, reply.body) \in {"typed", "unparsed", "fail", "partial"}
    BY DecodeRange
  <2>5. QED
    BY <2>2, <2>3, <2>4 DEF Dispatch, StatusError, DecodeSuccess, NoResult
<1>2. QED
  BY IInvInvariant, <1>1, PTL
-----------------------------------------------------------------------------
(***************************************************************************)
(* Refinement of the call contract.  Respond, EndBody and a CallReturn     *)
(* that hands the response to the body read are stutters of the contract; *)
(* Start is an Invoke, Cancel a Cancel, and the CallReturn and ReadBody    *)
(* steps that end the call are a Complete.  The two facts the steps need   *)
(* are about the prologue (what a call that never sends may report, and   *)
(* that only a call with at most one non-empty bag sends) and that a read  *)
(* response is routed to an API error or to no error.                      *)
(***************************************************************************)

(* The prologue reports the failures the contract allows for the input,    *)
(* and hands on only calls with no bag or one bag.                         *)
LEMMA PrologueContract ==
    ASSUME NEW c \in Calls, NEW urlOk \in BOOLEAN, NEW prepOk \in BOOLEAN
    PROVE  LET r == Prologue(c, urlOk, prepOk) IN
           /\ r.phase = "done" => Class(r.out.err) \in Contract!LocalFailures(c)
           /\ r.phase = "awaiting" => c.bags \in {"nil", "one"}
<1>1. c.bags \in BagArgs
  BY DEF Calls
<1>2. QED
  BY <1>1 DEF Prologue, RequiredPtrNil, Failed, NoResult, Class, BagArgs,
              Contract!LocalFailures

(* Every behaviour of MonitorsCall is a behaviour of the contract's safety *)
(* part under the refinement mapping.                                      *)
THEOREM RefinesContract == Spec => Contract!SafeSpec
<1>1. Init => Contract!Init
  BY DEF Init, Contract!Init
<1>2. IInv /\ [Next]_vars => [Contract!Next]_Contract!cvars
  <2> SUFFICES ASSUME IInv, [Next]_vars PROVE [Contract!Next]_Contract!cvars
    OBVIOUS
  <2>1. CASE Start
    <3>1. PICK c \in Calls, urlOk \in BOOLEAN, prepOk \in BOOLEAN :
                LET r == Prologue(c, urlOk, prepOk) IN
                /\ call' = c
                /\ phase' = r.phase
                /\ out' = r.out
                /\ sent' = (r.phase = "awaiting")
      BY <2>1 DEF Start
    <3> DEFINE r == Prologue(c, urlOk, prepOk)
    <3>2. /\ phase \in {"idle", "done"} /\ canceled' = FALSE
          /\ r.phase \in {"done", "awaiting"}
      BY <2>1, PrologueType DEF Start
    <3>3. CASE r.phase = "done"
      <4>1. Class(out'.err) \in Contract!LocalFailures(c)
        BY <3>1, <3>3, PrologueContract
      <4>2. QED
        BY <3>1, <3>2, <3>3, <4>1 DEF Contract!Next, Contract!Invoke
    <3>4. CASE r.phase = "awaiting"
      <4>1. c.bags \in {"nil", "one"}
        BY <3>4, PrologueContract
      <4>2. QED
        BY <3>1, <3>2, <3>4, <4>1 DEF Contract!Next, Contract!Invoke
    <3>5. QED
      BY <3>2, <3>3, <3>4
  <2>2. CASE Respond \/ EndBody
    BY <2>2 DEF Respond, EndBody, Contract!cvars
  <2>3. CASE Cancel
    BY <2>3 DEF Cancel, Contract!Next, Contract!Cancel
  <2>4. CASE CallReturn
    <3>1. Failed("canceled").err = "canceled" /\ Failed("transport").err = "transport"
      BY DEF Failed, NoResult
    <3>2. QED
      BY <2>4, <3>1 DEF CallReturn, Class, Contract!Next, Contract!Complete,
                        Contract!Completions, Contract!cvars
  <2>5. CASE ReadBody
    <3>1. [Failed("read") EXCEPT !.resp = TRUE].err = "read"
      BY DEF Failed, NoResult
    <3>2. reply \in Replies
      BY <2>5 DEF IInv, ReadBody
    <3>3. Descriptor(call.op) \in Descriptors
      BY OperationsAssumption, DescriptorType DEF IInv, TypeOK, Calls
    <3>4. reply.status \in Nat /\ reply.body \in Bodies
      BY <3>2, StatusesNat DEF Replies
    <3>5. Dispatch(Descriptor(call.op), reply.status, reply.body).err \in {"api", "nil"}
      BY <3>3, <3>4, DispatchType
    <3>6. QED
      BY <2>5, <3>1, <3>5 DEF ReadBody, Class, Contract!Next, Contract!Complete,
                              Contract!Completions
  <2>6. CASE UNCHANGED vars
    BY <2>6 DEF vars, Contract!cvars
  <2>7. QED
    BY <2>1, <2>2, <2>3, <2>4, <2>5, <2>6 DEF Next
<1>3. QED
  BY <1>1, <1>2, IInvInvariant, PTL DEF Spec, Contract!SafeSpec

(* A finished call sent its request exactly when what it returned came     *)
(* from the network.  The contract proves this of its own states           *)
(* (SentIffRemoteInvariant); the refinement carries it to MonitorsCall,    *)
(* where the class of the returned error is remote exactly for the        *)
(* cancellation, transport, read and API errors and for no error.          *)
THEOREM SentIffNetworkOutcomeHolds == Spec => []SentIffNetworkOutcome
<1>1. TypeOK /\ Contract!SentIffRemote => SentIffNetworkOutcome
  <2> SUFFICES ASSUME TypeOK, Contract!SentIffRemote, phase = "done"
               PROVE  sent <=> out.err \in {"canceled", "transport", "read", "api", "nil"}
    BY DEF SentIffNetworkOutcome
  <2>1. out.err \in ErrKinds
    BY DEF TypeOK, Outcomes
  <2>2. Class(out.err) \in Contract!Remote
          <=> out.err \in {"canceled", "transport", "read", "api", "nil"}
    BY <2>1 DEF Class, ErrKinds, Contract!Remote, Contract!Completions
  <2>3. QED
    BY <2>2 DEF Contract!SentIffRemote
<1>2. QED
  BY <1>1, RefinesContract, Contract!SentIffRemoteInvariant, TypeCorrect, PTL
=============================================================================
