----------------------- MODULE SecurityFiltersResponse -----------------------
(***************************************************************************)
(* A generated model object and its JSON (de)serialisation, from          *)
(* src/api/v2/datadog/model_security_filters_response.go.  The object has  *)
(* two optional fields, Data (a pointer to []SecurityFilter) and Meta (a  *)
(* pointer to SecurityFilterMeta), and the UnparsedObject escape hatch     *)
(* that keeps the raw JSON when strict decoding fails.  A caller owns the  *)
(* object and applies the operations one after another: construct it, set *)
(* fields, decode a payload into it (UnmarshalJSON), read or encode it     *)
(* (getters and MarshalJSON, which change nothing).                        *)
(***************************************************************************)
EXTENDS Naturals, FiniteSets

CONSTANTS
    DataVals,    \* non-nil []SecurityFilter values, as model values
    MetaVals     \* SecurityFilterMeta values, as model values


(***************************************************************************)
(* Field states.  Absent is a nil pointer; NilSlice is a non-nil pointer   *)
(* to a nil slice (SetData(nil)), which json encodes as null.              *)
(***************************************************************************)
Absent == "absent"
NilSlice == "nil_slice"
Nil == [kind |-> "nil"]            \* UnparsedObject == nil

(* Data and Meta values are real values: none of them is one of the       *)
(* representations the model uses for a nil pointer, a nil slice, a JSON  *)
(* null, a mistyped JSON value or GetMeta's zero value.                    *)
ASSUME ValsAssumption ==
    /\ DataVals # {} /\ MetaVals # {}
    /\ DataVals \cap MetaVals = {}
    /\ (DataVals \cup MetaVals) \cap {Absent, NilSlice, "null", "bad", "zero_meta"} = {}

(***************************************************************************)
(* JSON payloads, abstracted: an object maps each key it has to a value.   *)
(* "data" and "meta" are the model's keys, "extra" stands for any key the  *)
(* model does not know.  A value is one of the right type, null, or "bad": *)
(* a value of a type the field cannot take (a string for the array, a     *)
(* number for the object).  Other payloads are a top-level null, array or *)
(* scalar, and text that is not JSON.                                      *)
(***************************************************************************)
Keys == {"data", "meta", "extra"}

FieldVals(k) ==
    CASE k = "data"  -> DataVals \cup {"null", "bad"}
      [] k = "meta"  -> MetaVals \cup {"null", "bad"}
      [] k = "extra" -> {"x"}

ObjectPayloads ==
    UNION {{[kind |-> "object", fields |-> f] :
              f \in [K -> UNION {FieldVals(k) : k \in K}]} : K \in SUBSET Keys}

WellTyped(p) == \A k \in DOMAIN p.fields : p.fields[k] \in FieldVals(k)

Objects == {p \in ObjectPayloads : WellTyped(p)}

Payloads == Objects \cup {[kind |-> "null"], [kind |-> "array"],
                          [kind |-> "scalar"], [kind |-> "invalid"]}

HasBadField(p) == \E k \in DOMAIN p.fields : p.fields[k] = "bad"

Model == [data : {Absent, NilSlice} \cup DataVals,
          meta : {Absent} \cup MetaVals,
          unparsed : {Nil} \cup Objects]

(* NewSecurityFiltersResponse, NewSecurityFiltersResponseWithDefaults and  *)
(* the zero value all give an object with nothing set.                     *)
NoInput == [kind |-> "none"]

Fresh == [data |-> Absent, meta |-> Absent, unparsed |-> Nil]

-----------------------------------------------------------------------------
(***************************************************************************)
(* Getters.  GetData/GetMeta return the zero value when the pointer is     *)
(* nil; GetDataOk's flag and HasData say whether the pointer is non-nil.   *)
(***************************************************************************)
GetData(o) == IF o.data = Absent THEN NilSlice ELSE o.data

HasData(o) == o.data # Absent

GetMeta(o) == IF o.meta = Absent THEN "zero_meta" ELSE o.meta

HasMeta(o) == o.meta # Absent

(***************************************************************************)
(* MarshalJSON: the raw UnparsedObject when there is one, else an object   *)
(* with each non-nil field; a nil slice behind the pointer encodes as null.*)
(***************************************************************************)
FieldJSON(o) ==
    [k \in {k \in {"data", "meta"} : o[k] # Absent} |->
        IF o[k] = NilSlice THEN "null" ELSE o[k]]

(* Mutation: the typed fields are encoded even when UnparsedObject is set. *)
MarshalIgnoringUnparsed(o) ==
    [kind |-> "object", fields |-> FieldJSON(o)]

Marshal(o) ==
    IF o.unparsed # Nil THEN o.unparsed
    ELSE [kind |-> "object", fields |-> FieldJSON(o)]

(***************************************************************************)
(* UnmarshalJSON, with json.Unmarshal's own behaviour around it: text that *)
(* is not JSON fails before the method runs.  The method decodes strictly  *)
(* into an anonymous struct of the known fields (unknown keys are          *)
(* ignored, null sets a pointer to nil, a top-level null sets nothing);    *)
(* on a type error it decodes into map[string]interface{} instead and, if *)
(* that works, stores the map in UnparsedObject and leaves Data and Meta   *)
(* as they were.  On success it assigns both fields and leaves             *)
(* UnparsedObject as it was.                                               *)
(***************************************************************************)
Known(p, k) ==
    IF k \in DOMAIN p.fields /\ p.fields[k] # "null" THEN p.fields[k] ELSE Absent

StrictOk(p) == p.kind = "null" \/ (p.kind = "object" /\ ~HasBadField(p))

(* Mutation: the fallback keeps any JSON value (raw as interface{}), not   *)
(* only an object.                                                         *)
UnmarshalAnyRaw(o, p) ==
    IF p.kind = "null"
    THEN [ok |-> TRUE, obj |-> [o EXCEPT !.data = Absent, !.meta = Absent]]
    ELSE IF StrictOk(p)
    THEN [ok |-> TRUE, obj |-> [o EXCEPT !.data = Known(p, "data"),
                                         !.meta = Known(p, "meta")]]
    ELSE IF p.kind # "invalid"
    THEN [ok |-> TRUE, obj |-> [o EXCEPT !.unparsed = p]]
    ELSE [ok |-> FALSE, obj |-> o]

(* Mutation: o.Data and o.Meta are assigned from the anonymous struct      *)
(* before its error is checked.                                            *)
UnmarshalAssignFirst(o, p) ==
    LET typed == [o EXCEPT !.data = Known(p, "data"), !.meta = Known(p, "meta")]
        empty == [o EXCEPT !.data = Absent, !.meta = Absent]
    IN
    IF p.kind = "null" THEN [ok |-> TRUE, obj |-> empty]
    ELSE IF StrictOk(p) THEN [ok |-> TRUE, obj |-> typed]
    ELSE IF p.kind = "object" THEN [ok |-> TRUE, obj |-> [typed EXCEPT !.unparsed = p]]
    ELSE [ok |-> FALSE, obj |-> empty]

Unmarshal(o, p) ==
    IF p.kind = "null"
    THEN [ok |-> TRUE, obj |-> [o EXCEPT !.data = Absent, !.meta = Absent]]
    ELSE IF StrictOk(p)
    THEN [ok |-> TRUE, obj |-> [o EXCEPT !.data = Known(p, "data"),
                                         !.meta = Known(p, "meta")]]
    ELSE IF p.kind = "object"
    THEN [ok |-> TRUE, obj |-> [o EXCEPT !.unparsed = p]]
    ELSE [ok |-> FALSE, obj |-> o]

-----------------------------------------------------------------------------
VARIABLES
    obj,       \* the object
    input,     \* the payload of the last UnmarshalJSON, or NoInput once a
               \* constructor or setter has run since
    result     \* how that UnmarshalJSON returned: "ok" or "err" ("none")

vars == <<obj, input, result>>

TypeOK ==
    /\ obj \in Model
    /\ input \in {NoInput} \cup Payloads
    /\ result \in {"none", "ok", "err"}

Init ==
    /\ obj = Fresh
    /\ input = NoInput
    /\ result = "none"

(* A new object replaces the old one in the caller's variable.             *)
New ==
    /\ obj' = Fresh
    /\ input' = NoInput
    /\ result' = "none"

SetData ==
    /\ \E v \in DataVals \cup {NilSlice} : obj' = [obj EXCEPT !.data = v]
    /\ input' = NoInput
    /\ result' = "none"

SetMeta ==
    /\ \E v \in MetaVals : obj' = [obj EXCEPT !.meta = v]
    /\ input' = NoInput
    /\ result' = "none"

UnmarshalJSON ==
    \E p \in Payloads :
        LET r == Unmarshal(obj, p) IN
        /\ obj' = r.obj
        /\ input' = p
        /\ result' = IF r.ok THEN "ok" ELSE "err"

Next == New \/ SetData \/ SetMeta \/ UnmarshalJSON

Spec == Init /\ [][Next]_vars

-----------------------------------------------------------------------------
(***************************************************************************)
(* Properties.                                                             *)
(***************************************************************************)

(* Encoding the object and decoding the bytes into a new object succeeds   *)
(* and gives the same UnparsedObject and, when there is none, the same     *)
(* values from GetData and GetMeta: MarshalJSON and UnmarshalJSON agree on *)
(* both the typed and the fallback form, whatever setters and decodes     *)
(* produced the object.                                                    *)
FreshRoundTrip ==
    LET r == Unmarshal(Fresh, Marshal(obj)) IN
    /\ r.ok
    /\ r.obj.unparsed = obj.unparsed
    /\ obj.unparsed = Nil =>
           GetData(r.obj) = GetData(obj) /\ GetMeta(r.obj) = GetMeta(obj)

(* An UnmarshalJSON that returns an error leaves the object as it was.     *)
FailedDecodeLeavesObject ==
    [][result' = "err" => obj' = obj]_vars

(* The spec's round trip: decoding the encoding of a model without an      *)
(* UnparsedObject gives the same field states (unset or set) as the model. *)
RoundTripPresence ==
    LET r == Unmarshal(Fresh, Marshal(obj)) IN
    obj.unparsed = Nil =>
        HasData(r.obj) = HasData(obj) /\ HasMeta(r.obj) = HasMeta(obj)

(* The spec: the typed/raw choice is made at decode time, so right after   *)
(* decoding a payload the object encodes what that payload says: its known *)
(* fields when it decoded strictly, the payload itself when it fell back.  *)
DecodedObjectReflectsPayload ==
    result = "ok" /\ input \in Objects =>
        Marshal(obj) = IF StrictOk(input)
                       THEN Marshal([Fresh EXCEPT !.data = Known(input, "data"),
                                                  !.meta = Known(input, "meta")])
                       ELSE input

(* The spec: unknown top-level keys of a decoded payload can be retrieved  *)
(* from the result.                                                        *)
UnknownKeysRetained ==
    result = "ok" /\ input \in Objects /\ "extra" \in DOMAIN input.fields =>
        "extra" \in DOMAIN Marshal(obj).fields

(* The spec: decoding fails only on text that is not JSON at all.          *)
DecodeTotal ==
    result = "err" => input.kind = "invalid"
=============================================================================
