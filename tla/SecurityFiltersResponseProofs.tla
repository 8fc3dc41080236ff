-------------------- MODULE SecurityFiltersResponseProofs --------------------
(***************************************************************************)
(* Proofs about SecurityFiltersResponse for every set of Data and Meta     *)
(* values: any sequence of constructors, setters and decodes keeps the     *)
(* object well formed, and a decode that returns an error leaves it as it  *)
(* was.                                                                    *)
(***************************************************************************)
EXTENDS SecurityFiltersResponse, TLAPS

(* A payload decoded as an object is one of the well-typed objects.        *)
LEMMA ObjectPayload ==
    ASSUME NEW p \in Payloads, p.kind = "object"
    PROVE  p \in Objects
BY DEF Payloads

(* A field value taken from a payload without type errors is unset or a   *)
(* value of the field's type.                                              *)
LEMMA KnownType ==
    ASSUME NEW p \in Objects, ~HasBadField(p)
    PROVE  /\ Known(p, "data") \in {Absent} \cup DataVals
           /\ Known(p, "meta") \in {Absent} \cup MetaVals
<1>1. WellTyped(p)
  BY DEF Objects
<1>2. FieldVals("data") = DataVals \cup {"null", "bad"}
      /\ FieldVals("meta") = MetaVals \cup {"null", "bad"}
  BY DEF FieldVals
<1>3. \A k \in DOMAIN p.fields : p.fields[k] # "bad"
  BY DEF HasBadField
<1>4. QED
  BY <1>1, <1>2, <1>3 DEF WellTyped, Known

(* Decoding any payload into a well-formed object gives a well-formed      *)
(* object, and reports an error only when it leaves the object as it was. *)
LEMMA UnmarshalType ==
    ASSUME NEW o \in Model, NEW p \in Payloads
    PROVE  /\ Unmarshal(o, p).obj \in Model
           /\ Unmarshal(o, p).ok \in BOOLEAN
           /\ ~Unmarshal(o, p).ok => Unmarshal(o, p).obj = o
<1>1. CASE p.kind = "null"
  BY <1>1 DEF Unmarshal, Model
<1>2. CASE p.kind # "null" /\ StrictOk(p)
  <2>1. p.kind = "object" /\ ~HasBadField(p)
    BY <1>2 DEF StrictOk
  <2>2. p \in Objects
    BY <2>1, ObjectPayload
  <2>3. Known(p, "data") \in {Absent} \cup DataVals
        /\ Known(p, "meta") \in {Absent} \cup MetaVals
    BY <2>1, <2>2, KnownType
  <2>4. Unmarshal(o, p) = [ok |-> TRUE, obj |-> [o EXCEPT !.data = Known(p, "data"),
                                                         !.meta = Known(p, "meta")]]
    BY <1>2 DEF Unmarshal
  <2>5. /\ Known(p, "data") \in {Absent, NilSlice} \cup DataVals
        /\ Known(p, "meta") \in {Absent} \cup MetaVals
    BY <2>3
  <2>6. [o EXCEPT !.data = Known(p, "data"), !.meta = Known(p, "meta")] \in Model
    BY <2>5 DEF Model
  <2>7. QED
    BY <2>4, <2>6
<1>3. CASE p.kind = "object" /\ ~StrictOk(p)
  <2>1. p \in Objects
    BY <1>3, ObjectPayload
  <2>2. Unmarshal(o, p) = [ok |-> TRUE, obj |-> [o EXCEPT !.unparsed = p]]
    BY <1>3 DEF Unmarshal
  <2>3. QED
    BY <2>1, <2>2 DEF Model
<1>4. CASE p.kind # "null" /\ p.kind # "object"
  <2>1. ~StrictOk(p)
    BY <1>4 DEF StrictOk
  <2>2. Unmarshal(o, p) = [ok |-> FALSE, obj |-> o]
    BY <1>4, <2>1 DEF Unmarshal
  <2>3. QED
    BY <2>2
<1>5. QED
  BY <1>1, <1>2, <1>3, <1>4

-----------------------------------------------------------------------------
(* Every step keeps the object well formed.                               *)
LEMMA TypeStep == TypeOK /\ [Next]_vars => TypeOK'
<1> SUFFICES ASSUME TypeOK, [Next]_vars PROVE TypeOK'
  OBVIOUS
<1>1. CASE New
  BY <1>1 DEF New, TypeOK, Fresh, Model
<1>2. CASE SetData
  BY <1>2 DEF SetData, TypeOK, Model
<1>3. CASE SetMeta
  BY <1>3 DEF SetMeta, TypeOK, Model
<1>4. CASE UnmarshalJSON
  <2>1. PICK p \in Payloads : /\ obj' = Unmarshal(obj, p).obj
                              /\ input' = p
                              /\ result' = IF Unmarshal(obj, p).ok THEN "ok" ELSE "err"
    BY <1>4 DEF UnmarshalJSON
  <2>2. Unmarshal(obj, p).obj \in Model
    BY UnmarshalType DEF TypeOK
  <2>3. QED
    BY <2>1, <2>2 DEF TypeOK
<1>5. CASE UNCHANGED vars
  BY <1>5 DEF vars, TypeOK
<1>6. QED
  BY <1>1, <1>2, <1>3, <1>4, <1>5 DEF Next

(* Every state of every behaviour is well typed.                           *)
THEOREM TypeCorrect == Spec => []TypeOK
<1>1. Init => TypeOK
  BY DEF Init, TypeOK, Fresh, Model
<1>2. QED
  BY <1>1, TypeStep, PTL DEF Spec

-----------------------------------------------------------------------------
(***************************************************************************)
(* The round trip.  FreshRoundTrip does not follow from TypeOK: an         *)
(* UnparsedObject that decodes strictly would come back as typed fields    *)
(* and no UnparsedObject.  It holds because UnmarshalJSON stores only a    *)
(* payload whose strict decode failed, that is, an object with a field of *)
(* the wrong type.                                                         *)
(***************************************************************************)
FallbackOnly == obj.unparsed # Nil => HasBadField(obj.unparsed)

IInv == TypeOK /\ FallbackOnly

(* The object MarshalJSON writes for the typed fields has no mistyped      *)
(* field, and decoding it strictly gives back what the getters return.     *)
LEMMA TypedRoundTrip ==
    ASSUME NEW o \in Model
    PROVE  LET p == [kind |-> "object", fields |-> FieldJSON(o)] IN
           /\ StrictOk(p)
           /\ GetData([Fresh EXCEPT !.data = Known(p, "data"), !.meta = Known(p, "meta")])
                = GetData(o)
           /\ GetMeta([Fresh EXCEPT !.data = Known(p, "data"), !.meta = Known(p, "meta")])
                = GetMeta(o)
<1> DEFINE p == [kind |-> "object", fields |-> FieldJSON(o)]
<1>1. DOMAIN p.fields = {k \in {"data", "meta"} : o[k] # Absent}
  BY DEF FieldJSON
<1>2. \A k \in DOMAIN p.fields : p.fields[k] = IF o[k] = NilSlice THEN "null" ELSE o[k]
  BY DEF FieldJSON
<1>3. "bad" \notin DataVals \cup MetaVals /\ "null" \notin DataVals \cup MetaVals
  BY ValsAssumption
<1>4. StrictOk(p)
  <2>1. \A k \in DOMAIN p.fields : p.fields[k] # "bad"
    BY <1>1, <1>2, <1>3 DEF Model, Absent, NilSlice
  <2>2. QED
    BY <2>1 DEF StrictOk, HasBadField
<1>5. Known(p, "data") = IF o.data \in DataVals THEN o.data ELSE Absent
  <2>1. CASE o.data = Absent
    BY <1>1, <2>1, ValsAssumption DEF Known
  <2>2. CASE o.data = NilSlice
    BY <1>1, <1>2, <2>2, ValsAssumption DEF Known, Absent, NilSlice
  <2>3. CASE o.data \in DataVals
    BY <1>1, <1>2, <1>3, <2>3, ValsAssumption DEF Known
  <2>4. QED
    BY <2>1, <2>2, <2>3, ValsAssumption DEF Model
<1>6. Known(p, "meta") = o.meta
  <2>1. CASE o.meta = Absent
    BY <1>1, <2>1, ValsAssumption DEF Known
  <2>2. CASE o.meta \in MetaVals
    BY <1>1, <1>2, <1>3, <2>2, ValsAssumption DEF Known
  <2>3. QED
    BY <2>1, <2>2 DEF Model
<1>7. QED
  BY <1>4, <1>5, <1>6, ValsAssumption DEF GetData, GetMeta, Fresh, Model

(* Any object in which a stored UnparsedObject has a mistyped field        *)
(* survives encoding and decoding into a new object.                       *)
LEMMA RoundTrip ==
    ASSUME NEW o \in Model, o.unparsed # Nil => HasBadField(o.unparsed)
    PROVE  LET r == Unmarshal(Fresh, Marshal(o)) IN
           /\ r.ok
           /\ r.obj.unparsed = o.unparsed
           /\ o.unparsed = Nil =>
                  GetData(r.obj) = GetData(o) /\ GetMeta(r.obj) = GetMeta(o)
<1>1. CASE o.unparsed # Nil
  <2>1. o.unparsed \in Objects /\ HasBadField(o.unparsed)
    BY <1>1 DEF Model
  <2>2. o.unparsed.kind = "object" /\ ~StrictOk(o.unparsed)
    BY <2>1 DEF Objects, ObjectPayloads, StrictOk
  <2>3. Marshal(o) = o.unparsed
    BY <1>1 DEF Marshal
  <2>4. Unmarshal(Fresh, o.unparsed) = [ok |-> TRUE, obj |-> [Fresh EXCEPT !.unparsed = o.unparsed]]
    BY <2>2 DEF Unmarshal
  <2>5. QED
    BY <1>1, <2>3, <2>4 DEF Fresh
<1>2. CASE o.unparsed = Nil
  <2> DEFINE p == [kind |-> "object", fields |-> FieldJSON(o)]
  <2>1. Marshal(o) = p
    BY <1>2 DEF Marshal
  <2>2. StrictOk(p)
    BY TypedRoundTrip
  <2>3. Unmarshal(Fresh, p) = [ok |-> TRUE, obj |-> [Fresh EXCEPT !.data = Known(p, "data"),
                                                               !.meta = Known(p, "meta")]]
    BY <2>2 DEF Unmarshal
  <2> DEFINE t == [Fresh EXCEPT !.data = Known(p, "data"), !.meta = Known(p, "meta")]
  <2>4. Unmarshal(Fresh, Marshal(o)) = [ok |-> TRUE, obj |-> t]
    BY <2>1, <2>3
  <2>5. t.unparsed = Nil
    BY DEF Fresh
  <2>6. GetData(t) = GetData(o) /\ GetMeta(t) = GetMeta(o)
    BY TypedRoundTrip
  <2>7. Unmarshal(Fresh, Marshal(o)).ok /\ Unmarshal(Fresh, Marshal(o)).obj = t
    BY <2>4
  <2>8. QED
    BY <1>2, <2>5, <2>6, <2>7
<1>3. QED
  BY <1>1, <1>2

(* The strengthened invariant holds in every reachable state.              *)
THEOREM IInvInvariant == Spec => []IInv
<1>1. Init => IInv
  BY DEF Init, IInv, TypeOK, FallbackOnly, Fresh, Model
<1>2. IInv /\ [Next]_vars => IInv'
  <2> SUFFICES ASSUME IInv, [Next]_vars PROVE IInv'
    OBVIOUS
  <2>1. TypeOK'
    BY TypeStep DEF IInv
  <2>2. CASE New
    BY <2>1, <2>2 DEF New, IInv, FallbackOnly, Fresh
  <2>3. CASE SetData \/ SetMeta
    <3>1. obj'.unparsed = obj.unparsed
      BY <2>3 DEF SetData, SetMeta, IInv, TypeOK, Model
    <3>2. QED
      BY <2>1, <3>1 DEF IInv, FallbackOnly
  <2>4. CASE UnmarshalJSON
    <3>1. PICK q \in Payloads : obj' = Unmarshal(obj, q).obj
      BY <2>4 DEF UnmarshalJSON
    <3>2. CASE q.kind # "null" /\ ~StrictOk(q) /\ q.kind = "object"
      <4>1. obj' = [obj EXCEPT !.unparsed = q]
        BY <3>1, <3>2 DEF Unmarshal
      <4>2. HasBadField(q)
        BY <3>2 DEF StrictOk
      <4>3. QED
        BY <4>1, <4>2, <2>1 DEF IInv, FallbackOnly, TypeOK, Model
    <3>3. CASE ~(q.kind # "null" /\ ~StrictOk(q) /\ q.kind = "object")
      <4>1. obj'.unparsed = obj.unparsed
        BY <3>1, <3>3 DEF Unmarshal, IInv, TypeOK, Model
      <4>2. QED
        BY <4>1, <2>1 DEF IInv, FallbackOnly
    <3>4. QED
      BY <3>2, <3>3
  <2>5. CASE UNCHANGED vars
    BY <2>1, <2>5 DEF vars, IInv, FallbackOnly
  <2>6. QED
    BY <2>2, <2>3, <2>4, <2>5 DEF Next
<1>3. QED
  BY <1>1, <1>2, PTL DEF Spec

(* Encoding any reachable object with MarshalJSON and decoding the bytes   *)
(* into a new object with UnmarshalJSON succeeds and gives back the same   *)
(* UnparsedObject and, when there is none, the same GetData and GetMeta.  *)
THEOREM RoundTripsFresh == Spec => []FreshRoundTrip
<1>1. IInv => FreshRoundTrip
  BY RoundTrip DEF IInv, TypeOK, FallbackOnly, FreshRoundTrip
<1>2. QED
  BY <1>1, IInvInvariant, PTL

(* An UnmarshalJSON that returns an error leaves Data, Meta and            *)
(* UnparsedObject as they were, in every reachable state: the method       *)
(* decodes into locals and assigns only after a pass succeeded.            *)
THEOREM FailedDecodeUnchanged == Spec => FailedDecodeLeavesObject
<1>1. TypeOK /\ [Next]_vars => [result' = "err" => obj' = obj]_vars
  <2> SUFFICES ASSUME TypeOK, [Next]_vars, result' = "err" PROVE obj' = obj
    BY DEF vars
  <2>1. CASE UnmarshalJSON
    <3>1. PICK p \in Payloads : /\ obj' = Unmarshal(obj, p).obj
                                /\ result' = IF Unmarshal(obj, p).ok THEN "ok" ELSE "err"
      BY <2>1 DEF UnmarshalJSON
    <3>2. ~Unmarshal(obj, p).ok
      BY <3>1
    <3>3. QED
      BY <3>1, <3>2, UnmarshalType DEF TypeOK
  <2>2. QED
    BY <2>1 DEF Next, New, SetData, SetMeta, vars
<1>2. QED
  BY <1>1, TypeCorrect, PTL DEF FailedDecodeLeavesObject, Spec
=============================================================================
