-------------------------------- MODULE Routing --------------------------------
(***************************************************************************)
(* Route selection and the integrity check of the routing table, as        *)
(* functions of the configuration (routing.py, core/constellation.py). A   *)
(* target is a namespace and a model; a string that is not of that form is *)
(* Malformed, and a mode without a usable entry is Missing.                *)
(***************************************************************************)
EXTENDS Naturals

CONSTANTS
    Models,         \* model names
    Namespaces,     \* namespaces of targets; "local" is the local runtime
    Malformed,      \* a target string without namespace or model
    Missing,        \* no entry for a mode in the table
    NoTarget        \* selected_target = None

Mode == {"executor", "challenger"}
Target == [ns : Namespaces, model : Models]
ModeSpec == [primary : Target \cup {Malformed}, secondary : Target \cup {Malformed}]

ASSUME TargetsAssumption == Malformed \notin Target /\ NoTarget \notin Target
ASSUME MissingAssumption == Missing \notin ModeSpec

Provider == {"ollama"} \cup (Namespaces \ {"local"})
Config == [modes : [Mode -> ModeSpec \cup {Missing}], enabled : SUBSET Provider]

namespace_to_provider(ns) == IF ns = "local" THEN "ollama" ELSE ns

(* Of the providers a configuration may name, the runtime calls these.     *)
Supported == {"null", "ollama"}

Usable(cfg, target) ==
    namespace_to_provider(target.ns) \in Supported \cap cfg.enabled

Selected(target, fallback) ==
    [error |-> FALSE, target |-> target, fallback_used |-> fallback,
     provider |-> namespace_to_provider(target.ns)]

NullRoute ==
    [error |-> FALSE, target |-> NoTarget, fallback_used |-> TRUE, provider |-> "null"]

RouteError ==
    [error |-> TRUE, target |-> NoTarget, fallback_used |-> FALSE, provider |-> "null"]

Route == [error : BOOLEAN, target : Target \cup {NoTarget},
          fallback_used : BOOLEAN, provider : Provider \cup {"null"}]

(* Mutant: the secondary target is taken without a look at its provider.   *)
FallbackUnchecked(cfg, spec) ==
    IF spec.secondary = Malformed THEN RouteError ELSE Selected(spec.secondary, TRUE)

(* The secondary target is read only when the primary cannot be used.      *)
Fallback(cfg, spec) ==
    IF spec.secondary = Malformed THEN RouteError
    ELSE IF Usable(cfg, spec.secondary) THEN Selected(spec.secondary, TRUE)
    ELSE NullRoute

resolve_route(cfg, mode) ==
    LET spec == cfg.modes[mode] IN
    IF spec = Missing THEN RouteError
    ELSE IF spec.primary = Malformed THEN RouteError
    ELSE IF Usable(cfg, spec.primary) THEN Selected(spec.primary, FALSE)
    ELSE Fallback(cfg, spec)

(* The model a target names; a malformed one is taken for a model name.    *)
extract_model(target) == IF target = Malformed THEN Malformed ELSE target.model

(* The role-model check of check_constellation: where both roles are       *)
(* declared, their primary targets name different models. Fallbacks are    *)
(* not looked at.                                                          *)
ConstellationOK(cfg) ==
    (\A mode \in Mode : cfg.modes[mode] # Missing) =>
        extract_model(cfg.modes["executor"].primary)
            # extract_model(cfg.modes["challenger"].primary)
=============================================================================
