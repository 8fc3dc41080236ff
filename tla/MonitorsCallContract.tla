------------------------ MODULE MonitorsCallContract ------------------------
(***************************************************************************)
(* What one call of a generated API method promises its caller, with the  *)
(* request building, the transport, the body read and the decoding left   *)
(* out.  A call is invoked with some input; it either fails on the spot    *)
(* without any network I/O (a usage error, a panic on an empty bag, a     *)
(* configuration error), or sends its request and later completes.  While *)
(* it is in flight the caller's context may be canceled; a canceled call   *)
(* completes with a cancellation, transport or read error, never with an  *)
(* API error or a result.  A canceled call always completes.              *)
(***************************************************************************)

EXTENDS TLAPS

(* Inputs: the calls a caller can make; each has a field "bags", the shape *)
(* of the variadic optional-parameters argument, and a field "arg",        *)
(* whether the required argument is given or its zero value.               *)
CONSTANT Inputs

VARIABLES cphase, cinput, csent, ccanceled, cresult

cvars == <<cphase, cinput, csent, ccanceled, cresult>>

(* The classes of what a call returns: "none" while nothing is returned.   *)
Results == {"none", "usage", "panic", "config", "canceled", "transport",
            "read", "api", "ok"}

(* The failures a call may report before it sends anything: more than one  *)
(* bag is a usage error; an empty spread of bags panics (what the code     *)
(* does, recorded as a defect of it, not what the spec asks); otherwise a  *)
(* configuration error, or a usage error for a zero required argument.     *)
LocalFailures(i) ==
    IF i.bags = "two" THEN {"usage"}
    ELSE IF i.bags = "empty" THEN {"panic"}
    ELSE {"config"} \cup (IF i.arg = "zero" THEN {"usage"} ELSE {})

(* The results a call that sent its request may complete with.             *)
Completions(canceledCtx) ==
    IF canceledCtx THEN {"canceled", "transport", "read"}
    ELSE {"transport", "read", "api", "ok"}

TypeOK ==
    /\ cphase \in {"idle", "inflight", "done"}
    /\ cinput \in Inputs
    /\ csent \in BOOLEAN
    /\ ccanceled \in BOOLEAN
    /\ cresult \in Results

Init ==
    /\ cphase = "idle"
    /\ cinput \in Inputs
    /\ csent = FALSE
    /\ ccanceled = FALSE
    /\ cresult = "none"

Invoke ==
    /\ cphase \in {"idle", "done"}
    /\ \E i \in Inputs :
         /\ cinput' = i
         /\ \/ /\ cphase' = "done"
               /\ csent' = FALSE
               /\ cresult' \in LocalFailures(i)
            \/ /\ i.bags \in {"nil", "one"}
               /\ cphase' = "inflight"
               /\ csent' = TRUE
               /\ cresult' = "none"
    /\ ccanceled' = FALSE

Cancel ==
    /\ cphase = "inflight"
    /\ ~ccanceled
    /\ ccanceled' = TRUE
    /\ UNCHANGED <<cphase, cinput, csent, cresult>>

Complete ==
    /\ cphase = "inflight"
    /\ cphase' = "done"
    /\ cresult' \in Completions(ccanceled)
    /\ UNCHANGED <<cinput, csent, ccanceled>>

Next == Invoke \/ Cancel \/ Complete

(* The safety part of the contract.                                        *)
SafeSpec == Init /\ [][Next]_cvars

(* A call is only bound to complete once its context is canceled: an       *)
(* unanswered request may wait for ever.                                   *)
Spec == SafeSpec /\ WF_cvars(ccanceled /\ Complete)

-----------------------------------------------------------------------------
(* The outcomes that come from the network, and the inductive invariant   *)
(* of the contract: a call in flight has sent its request and returned     *)
(* nothing yet.                                                            *)
Remote == Completions(TRUE) \cup Completions(FALSE)

(* A finished call sent its request exactly when its outcome came from the *)
(* network: a usage, panic or configuration failure never did any I/O.    *)
SentIffRemote == cphase = "done" => (csent <=> cresult \in Remote)

CInv ==
    /\ TypeOK
    /\ cphase = "inflight" => csent /\ cresult = "none"
    /\ cphase = "idle" => cresult = "none"
    /\ SentIffRemote

(* The contract keeps SentIffRemote in every state.                        *)
THEOREM SentIffRemoteInvariant == SafeSpec => []SentIffRemote
<1>1. Init => CInv
  BY DEF Init, CInv, TypeOK, SentIffRemote, Results
<1>2. CInv /\ [Next]_cvars => CInv'
  <2> SUFFICES ASSUME CInv, [Next]_cvars PROVE CInv'
    OBVIOUS
  <2>1. \A i \in Inputs : LocalFailures(i) \subseteq Results \ Remote
    BY DEF LocalFailures, Results, Remote, Completions
  <2>2. \A c \in BOOLEAN : Completions(c) \subseteq Remote \cap Results
    BY DEF Completions, Remote, Results
  <2>3. CASE Invoke
    BY <2>1, <2>3 DEF Invoke, CInv, TypeOK, SentIffRemote, Results
  <2>4. CASE Cancel
    BY <2>4 DEF Cancel, CInv, TypeOK, SentIffRemote
  <2>5. CASE Complete
    BY <2>2, <2>5 DEF Complete, CInv, TypeOK, SentIffRemote
  <2>6. CASE UNCHANGED cvars
    BY <2>6 DEF cvars, CInv, TypeOK, SentIffRemote
  <2>7. QED
    BY <2>3, <2>4, <2>5, <2>6 DEF Next
<1>3. CInv => SentIffRemote
  BY DEF CInv
<1>4. QED
  BY <1>1, <1>2, <1>3, PTL DEF SafeSpec

=============================================================================
