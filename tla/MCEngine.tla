-------------------------------- MODULE MCEngine --------------------------------
(***************************************************************************)
(* Engine on small instances: the callers' options, and routing tables     *)
(* that reach every outcome of route selection for both roles.             *)
(***************************************************************************)
EXTENDS Engine

CONSTANTS m1, m2

Local(model) == [ns |-> "local", model |-> model]
Cloud == [ns |-> "cloud", model |-> m1]

(* Every option of every caller; options a caller does not have are fixed. *)
EveryTask ==
    {t \in Task :
        /\ t.capabilities # 1 => t.payload_ok
        /\ t.caller # "run" => ~t.checked /\ ~t.health_check
        /\ ~t.health_check => t.reachable
        /\ t.caller = "capability" => t.capabilities = 1 /\ ~t.audit
        /\ t.caller = "run" => t.capabilities \in 0..1}

(* A command that checks the constellation and wants an audit.             *)
AuditedCommand ==
    {t \in EveryTask : t.caller = "run" /\ t.checked /\ t.audit
                       /\ t.capabilities = 0 /\ ~t.health_check}

Entries(primaries, secondaries) ==
    {Missing} \cup [primary : primaries, secondary : secondaries]

(* Executor entries with every primary and fallback, challenger entries    *)
(* with a local, a foreign and a malformed one.                            *)
EveryConfig ==
    {c \in Config :
        /\ c.modes["executor"] \in
               Entries({Local(m1), Cloud, Malformed}, {Local(m2), Cloud, Malformed})
        /\ c.modes["challenger"] \in
               Entries({Local(m1), Local(m2), Cloud, Malformed}, {Cloud})
        /\ c.enabled \in {{"ollama", "null", "cloud"}, {"null"}}}
=============================================================================
