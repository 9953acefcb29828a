------------------------------ MODULE FailureModel ------------------------------
(***************************************************************************)
(* Classification of an exception into a RuntimeFailure (failure_model.py) *)
(* by its type, the family of its stable code and the engine's phase. What *)
(* the envelope says in words is left out.                                 *)
(***************************************************************************)

(* Where in a run an exception was raised: no field of the exception, but  *)
(* what the classification is meant to recover.                            *)
Place == {"payload", "lookup", "capability", "timeout", "prepare", "limit",
          "provider", "challenger", "revision", "result"}

ExcType == {"ProviderError", "TraceLifecycleError", "ValueError", "Exception"}

(* Families of stable codes; "none" is a message without one.              *)
Code == {"PROVIDER_UNAVAILABLE", "PROVIDER_OTHER", "CAPABILITY", "CONTEXT", "none"}

Exc == [type : ExcType, code : Code, at : Place]

Phase == {"setup", "capability", "provider", "audit", "revision"}

Kind == {"provider_execution", "contract_violation", "capability",
         "audit_challenger", "internal"}

Failure == [kind : Kind, code : Code, retryable : BOOLEAN]

(* The first rule that matches decides. The rule on the phase "route" is   *)
(* left out: the engine never sets that phase, and raises no such code.    *)
KindOf(exc, phase) ==
    IF exc.type = "ProviderError" THEN "provider_execution"
    ELSE IF exc.type = "TraceLifecycleError" THEN "contract_violation"
    ELSE IF phase = "capability" \/ exc.code = "CAPABILITY" THEN "capability"
    ELSE IF phase \in {"audit", "revision"} THEN "audit_challenger"
    ELSE IF phase = "provider" THEN "provider_execution"
    ELSE IF exc.type = "ValueError" THEN "contract_violation"
    ELSE "internal"

(* Only an unavailable provider may be asked again.                        *)
classify_exception(exc, phase) ==
    [kind |-> KindOf(exc, phase), code |-> exc.code,
     retryable |-> KindOf(exc, phase) = "provider_execution"
                   /\ exc.code = "PROVIDER_UNAVAILABLE"]
=============================================================================
