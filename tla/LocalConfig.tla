----------------------------- MODULE LocalConfig -----------------------------
(***************************************************************************)
(* cybersin.local.yaml: what it may say, what the runtime makes of it       *)
(* (crates/cybersin-runtime/src/allowlist.rs, cybersin-cli/src/commands/    *)
(* run.rs), what `cybersin setup` adds to it (commands/setup.rs), and what  *)
(* `cybersin doctor` reads in it (readiness.rs, commands/doctor.rs).  The   *)
(* last two follow the first by hand, not by shared code.                   *)
(*                                                                         *)
(* A listing's models are those it allows of openrouter: a set of at most   *)
(* one list.                                                                *)
(***************************************************************************)
EXTENDS FiniteSets

Unset == "unset"
OpenRouter == "openrouter"
OpenRouterKey == "OPENROUTER_API_KEY"

(* RoutingConfig and LocalConfigFile.                                       *)
Unlisted == [providers |-> {}, models |-> {}]
EmptyConfig ==
  [present |-> TRUE, availability |-> Unset, key |-> Unset, provider |-> Unset, model |-> Unset,
   permitted |-> Unlisted, legacy |-> Unlisted, tool |-> Unset]
NoConfig == [EmptyConfig EXCEPT !.present = FALSE]

(* model_allowlist: permissions.routing hides the legacy list.              *)
Allowlist(config) == IF config.permitted = Unlisted THEN config.legacy ELSE config.permitted

(* ModelAllowlist::allows.                                                  *)
Allows(listing, model) ==
  /\ listing.providers = {} \/ model.provider \in listing.providers
  /\ model.provider = OpenRouter => \A models \in listing.models : model.name \in models

(* resolve_openrouter_api_key falls back on the default variable.            *)
KeyFound(config, env) == config.key \in env \/ OpenRouterKey \in env

(* retarget_scaffolded_stub_routes: a scaffold's model gives way to the      *)
(* configured one.                                                          *)
Stub == [provider |-> "stub", name |-> "stub-medium"]
Retarget(config, model) ==
  IF /\ model = Stub
     /\ config.provider \notin {Unset, Stub.provider} /\ config.model \notin {Unset, Stub.name}
  THEN [provider |-> config.provider, name |-> config.model]
  ELSE model
-----------------------------------------------------------------------------
(* setup: what is missing is set, openrouter and stub are allowed; nothing   *)
(* that is there changes, except that the legacy list is hidden by now.     *)
SetMissing(config, field, value) == IF config[field] = Unset THEN [config EXCEPT ![field] = value] ELSE config
SetUp(config, variable, model) ==
  LET a == SetMissing(config, "availability", "available")
      b == SetMissing(a, "key", variable)
      c == SetMissing(b, "provider", OpenRouter)
      d == SetMissing(c, "model", model) IN
  [d EXCEPT !.present = TRUE, !.permitted.providers = @ \cup {OpenRouter, Stub.provider}]
-----------------------------------------------------------------------------
(* readiness.rs.                                                            *)
Availability(config) == IF config.availability = Unset THEN "auto" ELSE config.availability

(* secret_readiness: a reference hides the default variable.                 *)
KeyVariable(config) == IF config.key = Unset THEN OpenRouterKey ELSE config.key
KeyReady(config, env) == KeyVariable(config) \in env

(* routing_readiness, for openrouter and the default model.                  *)
RoutingSource_Legacy(config) == config.legacy
RoutingSource(config) ==
  IF config.permitted.providers = {} /\ config.permitted.models = {} THEN config.legacy ELSE config.permitted
ProviderAllowed(config) ==
  LET routing == RoutingSource(config) IN routing.providers = {} \/ OpenRouter \in routing.providers
ModelAllowed(config) ==
  ProviderAllowed(config) /\ \A models \in RoutingSource(config).models : config.model \in models

(* The OpenRouter part of the report: what fails it, and all it advises.     *)
ProviderFailures(config, env) ==
  {advice \in {"availability", "key", "allow provider", "allow model"} :
     CASE advice = "availability" -> Availability(config) = "unavailable"
       [] advice = "key" -> ~KeyReady(config, env)
       [] advice = "allow provider" -> ~ProviderAllowed(config)
       [] advice = "allow model" -> config.model # Unset /\ ~ModelAllowed(config)}
ProviderWarnings(config) ==
  {advice \in {"default provider", "default model"} :
     CASE advice = "default provider" -> config.provider # OpenRouter
       [] advice = "default model" -> config.model = Unset}
ToolWarnings(config, env) ==
  {advice \in {"add tool", "add tool key", "tool key"} :
     /\ config.present
     /\ CASE advice = "add tool" -> config.tool = Unset
          [] advice = "add tool key" -> config.tool = "keyless"
          [] advice = "tool key" -> config.tool \notin {Unset, "keyless"} /\ config.tool \notin env}

(* What a person writes who does what the report advises.  Routing advice    *)
(* goes under permissions.                                                  *)
Advised(config, advice, models) ==
  CASE advice = "availability" -> {[config EXCEPT !.availability = a] : a \in {"available", "auto", Unset}}
    [] advice = "default provider" -> {[config EXCEPT !.provider = OpenRouter]}
    [] advice = "default model" -> {[config EXCEPT !.model = m] : m \in models}
    [] advice = "allow provider" ->
         {[config EXCEPT !.permitted.providers = @ \cup {OpenRouter}],
          [config EXCEPT !.permitted = Unlisted, !.legacy = Unlisted]}
    [] advice = "allow model" ->
         {[config EXCEPT !.permitted.models = {UNION @ \cup {config.model}}]}
         \cup {[config EXCEPT !.model = m] : m \in UNION Allowlist(config).models}
    [] advice = "add tool" -> {[config EXCEPT !.tool = "keyless"]}
    [] advice = "add tool key" -> {[config EXCEPT !.tool = "TOOL_KEY"]}
    [] advice = "copy example" -> {EmptyConfig}
    [] OTHER -> {}
=============================================================================
