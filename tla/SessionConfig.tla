---------------------------- MODULE SessionConfig ----------------------------
(***************************************************************************)
(* The configuration of a session (src/config/load-config.ts, validate.ts  *)
(* and read-source-file.ts): layers are read one after another, those that *)
(* cannot be used are set aside, the rest is merged and judged as a whole, *)
(* and a merged configuration that is not valid gives way to the defaults. *)
(*                                                                         *)
(* A layer is a partial function from the keys the validation looks at; at *)
(* most one key per layer, for two keys of one layer merge like one key in *)
(* each of two.  "limit" stands for the keys that are judged alone: the    *)
(* endpoints, the Grafana URL, metric labels, redaction patterns, queues;  *)
(* "lineage" for the lineage variables, which only the process has.        *)
(***************************************************************************)
EXTENDS Naturals, Sequences, FiniteSets, SequencesExt

CONSTANT MaxPresent  \* bound on the layers that are there
ASSUME PresentBounded == MaxPresent \in Nat

\* The layers, each overriding those before it.
Order == <<"global", "trusted_project", "project_env", "process_environment", "runtime_options">>
Source == Range(Order)
ProjectSource == {"trusted_project", "project_env"}

Defaults == [environment |-> "production", endpoint |-> "https", insecure |-> "refused",
             content |-> "redacted", unsafe |-> "refused", interval |-> 15, lease |-> 60,
             limit |-> "kept", lineage |-> "sound"]
SafetyMargin == 5  \* ACTIVE_AGENT_LEASE_EXPORT_SAFETY_MARGIN_MILLIS, in seconds

Overrides == {<<"environment", "development">>, <<"endpoint", "http">>, <<"insecure", "allowed">>,
              <<"content", "raw">>, <<"unsafe", "allowed">>, <<"interval", 40>>, <<"lease", 120>>,
              <<"limit", "broken">>}
Layer(s) ==
  {<<>>} \cup {[key \in {o[1]} |-> o[2]] : o \in Overrides}
         \cup IF s = "process_environment" THEN {[key \in {"lineage"} |-> "malformed"]} ELSE {}
Enablement == {"unset", "on", "off"}

\* What a source is: how it was read, what it sets and decides, the code of the
\* issue with it, and (history) the enablement its text states.
Missing == [status |-> "missing", layer |-> <<>>, enabled |-> "unset", issue |-> "none", said |-> "unset"]
Unusable(status, issue) == [Missing EXCEPT !.status = status, !.issue = issue]
Loaded(layer, enabled) ==
  [status |-> "loaded", layer |-> layer, enabled |-> enabled, issue |-> "none", said |-> enabled]

VARIABLES
  loading,   \* the await loadSessionConfigWithDiagnostics is at
  trusted,   \* what resolveProjectTrust answered: "yes", "no", "unknown"
  source,    \* the classified sources
  result,    \* the configuration, and whether it is the safe fallback
  diagnostics  \* which sources were effective, and which were rejected

loadVars == <<loading, trusted, source, result, diagnostics>>

-----------------------------------------------------------------------------
(* Reading and classifying                                                 *)

\* readConfigSourceText with the bounded read: a file that changes while it is
\* read, or is no regular file, is unreadable.
Failures == {Unusable("malformed", "config_source_malformed"),
             Unusable("rejected", "config_source_rejected"),
             Unusable("rejected", "config_source_too_large"),
             Unusable("unreadable", "config_source_unreadable")}

\* classifyConfigSource, classifyEnvironmentSource: of a layer whose shape is
\* wrong only the explicit enablement is kept.
RejectShape(enabled) == [Unusable("rejected", "invalid_config_shape") EXCEPT !.enabled = enabled, !.said = enabled]

Texts(s) == {Loaded(l, e) : l \in Layer(s), e \in Enablement} \cup {RejectShape(e) : e \in Enablement}
\* The process environment is never unreadable.
Readings(s) == {Missing} \cup Texts(s) \cup IF s = "process_environment" THEN {} ELSE Failures

LoadInit ==
  /\ loading = "global" /\ trusted = "unknown"
  /\ source = [s \in Source |-> Missing]
  /\ result = [settings |-> Defaults, safeFallback |-> "unknown", enabled |-> "on"]
  /\ diagnostics = [effectiveSource |-> "defaults", rejectedSources |-> {}]

Present == {s \in Source : source[s].status # "missing"}
Read(s) ==
  \E r \in Readings(s) :
    /\ r # Missing => Cardinality(Present) < MaxPresent
    /\ source' = [source EXCEPT ![s] = r]

ReadGlobal ==
  /\ loading = "global" /\ Read("global")
  /\ loading' = "trust" /\ UNCHANGED <<trusted, result, diagnostics>>

ResolveProjectTrust ==
  /\ loading = "trust" /\ \E t \in {"yes", "no"} : trusted' = t
  /\ loading' = "project" /\ UNCHANGED <<source, result, diagnostics>>

\* Fault: the project is read before it is trusted.
MayRead_Always(s) == TRUE
\* readProjectConfigSource and readTrustedProjectEnvSource.
MayRead(s) == trusted = "yes"

ReadProject ==
  /\ loading = "project" /\ loading' = "envFile"
  /\ IF MayRead("trusted_project") THEN Read("trusted_project") ELSE UNCHANGED source
  /\ UNCHANGED <<trusted, result, diagnostics>>

\* The .env file can also be left out by an option (skipped_disabled).
ReadEnvFile ==
  /\ loading = "envFile" /\ loading' = "environment"
  /\ \/ MayRead("project_env") /\ Read("project_env")
     \/ UNCHANGED source
  /\ UNCHANGED <<trusted, result, diagnostics>>

ReadEnvironment ==
  /\ loading = "environment" /\ Read("process_environment")
  /\ loading' = "runtime" /\ UNCHANGED <<trusted, result, diagnostics>>

-----------------------------------------------------------------------------
(* Merging and judging                                                     *)

\* The sources that are merged, and their merge: none when options of the
\* wrong shape were passed, for those are not classified on their own.
Merge(sources) ==
  [key \in DOMAIN Defaults |->
     LET setting == {i \in DOMAIN Order : Order[i] \in sources /\ key \in DOMAIN source[Order[i]].layer}
     IN IF setting = {} THEN Defaults[key] ELSE source[Order[Max(setting)]].layer[key]]

UnsafeCapture(config) == config.content = "raw" /\ config.unsafe = "refused"
InsecureTransport(config) ==
  config.environment = "production" /\ config.insecure = "refused" /\ config.endpoint = "http"
LeaseTooShort(config) == config.lease < 2 * config.interval + SafetyMargin
MalformedLineage(config) == config.lineage = "malformed"
\* The validations of one key each.
BrokenLimit(config) == config.limit = "broken"

\* validateObservMeConfig; a wrong shape is reported alone.  The project is not
\* read without trust, so that validateProjectTrust finds nothing.
Issues(config, wrongShape) ==
  IF wrongShape THEN {"invalid_config_shape"}
  ELSE (IF UnsafeCapture(config) THEN {"unsafe_capture_without_redaction"} ELSE {})
    \cup (IF InsecureTransport(config) THEN {"insecure_production_transport"} ELSE {})
    \cup (IF LeaseTooShort(config) THEN {"active_agent_lease_too_short_for_export_interval"} ELSE {})
    \cup (IF MalformedLineage(config) THEN {"malformed_lineage_value"} ELSE {})
    \cup (IF BrokenLimit(config) THEN {"limit"} ELSE {})

\* The last decision in the order of the layers; "unset" leaves the default.
LastDecision(decisions) ==
  LET decided == {i \in DOMAIN decisions : decisions[i] # "unset"}
  IN IF decided = {} THEN "on" ELSE decisions[Max(decided)]

\* Fault: an accepted layer decides, whatever a rejected one said after it.
ResolveExplicitEnablement_Accepted(sources) ==
  LastDecision([i \in DOMAIN Order |->
    IF Order[i] \in sources /\ source[Order[i]].status = "loaded" THEN source[Order[i]].enabled ELSE "unset"])
\* resolveExplicitEnablement over what the sources decided, rejected or not.
ResolveExplicitEnablement(sources) ==
  LastDecision([i \in DOMAIN Order |-> IF Order[i] \in sources THEN source[Order[i]].enabled ELSE "unset"])
\* The enablement the merge has: of the accepted sources and of the options.
MergedEnablement(sources) ==
  LastDecision([i \in DOMAIN Order |->
    IF Order[i] \in sources /\ (source[Order[i]].status = "loaded" \/ Order[i] = "runtime_options")
    THEN source[Order[i]].enabled ELSE "unset"])

\* createSafeFallbackConfig: disabled when a source said so, or the merge does.
FallbackEnablement(sources) ==
  IF ResolveExplicitEnablement(sources) = "off" \/ MergedEnablement(sources) = "off"
  THEN "off" ELSE "on"

\* Fault: an insecure transport is only warned of.
Valid_Lenient(config, wrongShape) ==
  Issues(config, wrongShape) \subseteq {"insecure_production_transport"}
Valid(config, wrongShape) == Issues(config, wrongShape) = {}

\* ensureValidObservMeConfigWithDiagnostics.
EnsureValid(sources, wrongShape) ==
  LET config == Merge(sources)
  IN IF Valid(config, wrongShape)
     THEN [settings |-> config, safeFallback |-> "no",
           enabled |-> IF ResolveExplicitEnablement(sources) = "off"
                       THEN "off" ELSE MergedEnablement(sources)]
     ELSE [settings |-> Defaults, safeFallback |-> "yes", enabled |-> FallbackEnablement(sources)]

\* Whether the options passed at run time have the wrong shape.
WrongShape(s) == s.issue = "invalid_config_shape"

\* loadFactoryConfig: what the extension uses before it knows the project.
FactoryConfig == EnsureValid(Source \ ProjectSource, WrongShape(source["runtime_options"]))

\* The lineage variables are no configuration.
HasLayer(s) ==
  /\ source[s].status = "loaded"
  /\ DOMAIN source[s].layer \ {"lineage"} # {} \/ source[s].enabled # "unset"
\* resolveSessionConfigEffectiveSource; options are taken as they are passed.
EffectiveSource ==
  IF source["runtime_options"] # Missing /\ (HasLayer("runtime_options") \/ WrongShape(source["runtime_options"]))
  THEN "runtime_options"
  ELSE IF HasLayer("project_env") \/ HasLayer("process_environment") THEN "environment"
  ELSE IF HasLayer("trusted_project") THEN "trusted_project"
  ELSE IF HasLayer("global") THEN "global" ELSE "defaults"

\* collectRejectedConfigSources: options are never in the list.
RejectedSources == {s \in Source \ {"runtime_options"} : source[s].issue # "none"}

\* The synchronous rest of loadSessionConfigWithDiagnostics, once the options
\* are known.
LoadSessionConfig ==
  /\ loading = "runtime" /\ loading' = "merge" /\ Read("runtime_options")
  /\ source'["runtime_options"] \notin Failures
  /\ UNCHANGED <<trusted, result, diagnostics>>
Finish ==
  /\ loading = "merge" /\ loading' = "done"
  /\ result' = EnsureValid(Source, WrongShape(source["runtime_options"]))
  /\ diagnostics' = [effectiveSource |-> EffectiveSource, rejectedSources |-> RejectedSources]
  /\ UNCHANGED <<trusted, source>>

LoadNext == ReadGlobal \/ ResolveProjectTrust \/ ReadProject \/ ReadEnvFile \/ ReadEnvironment
        \/ LoadSessionConfig \/ Finish
LoadSpec == LoadInit /\ [][LoadNext]_loadVars

-----------------------------------------------------------------------------
(* Properties                                                              *)

Done == loading = "done"
Says(s, e) == source[s].said = e
Before(s, t) == \E i, j \in DOMAIN Order : Order[i] = s /\ Order[j] = t /\ i < j

\* A disablement no later layer takes back disables the session, even when its
\* layer, or the whole merge, is rejected (preserveExplicitDisablement).
DisablementKept ==
  Done /\ (\E s \in Source : Says(s, "off") /\ \A t \in Source : Before(s, t) => ~Says(t, "on"))
    => result.enabled = "off"

\* Whichever layers its parts come from, the configuration in effect never sends
\* to a plain endpoint in production, nor raw content, without the acknowledgement.
EffectiveIsSafe ==
  Done => LET c == result.settings
          IN /\ c.environment = "production" /\ c.endpoint = "http" => c.insecure = "allowed"
             /\ c.content = "raw" => c.unsafe = "allowed"

\* A project without trust has no influence: the session's configuration is the
\* factory's.
UntrustedIsFactory ==
  Done /\ trusted = "no" => \A f \in {"settings", "enabled", "safeFallback"} : result[f] = FactoryConfig[f]

\* The source that is called effective is one that was merged, never one that
\* is listed as rejected (createSessionConfigDiagnostics).
EffectiveIsAccepted ==
  Done => IF diagnostics.effectiveSource = "environment"
          THEN ~({"project_env", "process_environment"} \subseteq diagnostics.rejectedSources)
          ELSE diagnostics.effectiveSource \notin diagnostics.rejectedSources
\* Only the sources that are trusted and accepted count, and only they are said
\* to.
AcceptedSourcesCount == UntrustedIsFactory /\ EffectiveIsAccepted
=============================================================================
