------------------------------- MODULE Settings -------------------------------
(***************************************************************************)
(* backend/internal/systemconfig: runtime overrides of the configuration,  *)
(* which keys and values are accepted and which take effect; and the       *)
(* onboarding of internal/auth that stores its entries the same way.  A    *)
(* JSON value is its type and whether the checks of its key like it.       *)
(***************************************************************************)
EXTENDS Integers, FiniteSets, Sequences

CONSTANTS Forms,               \* onboarding requests: the entries filled in
          Savers               \* onboarding requests at once

VARIABLES cfgStored,           \* system_config_overrides: value by key
          cfgEnv,              \* keys an environment variable is set for
          cfgKey,              \* bound: the one key the settings page changes in a
                               \*   behaviour; the keys do not interact
          cfgUser, cfgDone,    \* the user exists; onboarding_completed_at is set
          cfgSaver             \* the entries, by their place in the order, that each
                               \*   onboarding request still has to save
settingsVars == <<cfgStored, cfgEnv, cfgKey, cfgUser, cfgDone, cfgSaver>>

-----------------------------------------------------------------------------
\* The fields each section's setter knows, with the type it converts to.
setScoringValue ==
    {"scoring.auto_threshold", "scoring.review_threshold", "scoring.hybrid_reject_margin"} \X {"int"}
    \cup {<<"scoring.mode", "string">>}
    \cup {"scoring.weights.skill", "scoring.weights.experience", "scoring.weights.location",
          "scoring.weights.salary", "scoring.weights.description"} \X {"float"}
setLLMValue ==
    {"llm.primary.provider", "llm.primary.model", "llm.local.provider", "llm.local.model",
     "llm.embeddings.provider", "llm.embeddings.model"} \X {"string"}
setVoiceValue ==
    {"voice.provider", "voice.model", "voice.livekit.url", "voice.livekit.api_key"} \X {"string"}
setInterviewValue ==
    {"interview.memory.max_recent_segments", "interview.memory.keep_after_summarize",
     "interview.responder.llm.timeout_ms", "interview.responder.llm.retries",
     "interview.planner.min_substantive_length"} \X {"int"}
    \cup {<<"interview.planner.duplicate_threshold", "float">>}
setEmailValue ==
    {"email.check_interval", "email.provider"} \X {"string"} \cup {<<"email.folders", "strings">>}
setRateLimitsValue == {"rate_limits.rpm", "rate_limits.burst"} \X {"int"}
setAutomationValue ==
    {"automation.queue.concurrency", "automation.queue.retry_attempts"} \X {"int"}
    \cup {"automation.auto_generate.resume", "automation.auto_generate.cover_letter"} \X {"bool"}
setApprovalTiersValue ==
    {"approval_tiers.auto_apply.min_score", "approval_tiers.auto_apply.max_score",
     "approval_tiers.review.min_score", "approval_tiers.review.max_score",
     "approval_tiers.reject.min_score", "approval_tiers.reject.max_score"} \X {"int"}
    \cup {"approval_tiers.auto_apply.action", "approval_tiers.review.action",
          "approval_tiers.reject.action"} \X {"string"}
    \cup {"approval_tiers.auto_apply.notify", "approval_tiers.review.notify",
          "approval_tiers.reject.notify", "approval_tiers.reject.log"} \X {"bool"}
setDocumentValue ==
    {"resume.engine", "resume.template_dir", "cover_letter.engine", "cover_letter.template_dir"} \X {"string"}
    \cup {<<"cover_letter.max_length", "int">>}

setNestedValue ==
    setScoringValue \cup setLLMValue \cup setVoiceValue \cup setInterviewValue \cup setEmailValue
    \cup setRateLimitsValue \cup setAutomationValue \cup setApprovalTiersValue \cup setDocumentValue

JSONTypes == {"int", "float", "string", "strings", "bool"}
Values == [type : JSONTypes, fits : BOOLEAN]
\* json.Unmarshal into a Go type: a whole number is a float as well.
convertsTo(value, type) == value.type = type \/ (value.type = "int" /\ type = "float")

-----------------------------------------------------------------------------
\* The keys and values SetOverride accepts.
allowedKeys ==
    {"scoring.auto_threshold", "scoring.review_threshold", "scoring.mode",
     "scoring.hybrid_reject_margin", "scoring.weights.skill", "scoring.weights.experience",
     "scoring.weights.location", "scoring.weights.salary", "scoring.weights.description",
     "llm.primary.provider", "llm.primary.model", "llm.local.provider", "llm.local.model",
     "llm.embeddings.provider", "llm.embeddings.model",
     "voice.provider", "voice.model", "voice.livekit.url",
     "interview.memory.max_recent_segments", "interview.memory.keep_after_summarize",
     "interview.responder.llm.timeout_ms", "interview.responder.llm.retries",
     "interview.planner.duplicate_threshold", "interview.planner.min_substantive_length",
     "email.check_interval", "email.folders", "email.provider",
     "rate_limits.rpm", "rate_limits.burst",
     "automation.queue.concurrency", "automation.queue.retry_attempts",
     "automation.auto_generate.resume", "automation.auto_generate.cover_letter",
     "approval_tiers.auto_apply.min_score", "approval_tiers.auto_apply.max_score",
     "approval_tiers.auto_apply.action", "approval_tiers.auto_apply.notify",
     "approval_tiers.review.min_score", "approval_tiers.review.max_score",
     "approval_tiers.review.action", "approval_tiers.review.notify",
     "approval_tiers.reject.min_score", "approval_tiers.reject.max_score",
     "approval_tiers.reject.action", "approval_tiers.reject.notify", "approval_tiers.reject.log",
     "resume.engine", "resume.template_dir",
     "cover_letter.engine", "cover_letter.template_dir", "cover_letter.max_length"}

rangeChecked ==
    {"scoring.auto_threshold", "scoring.review_threshold", "scoring.hybrid_reject_margin",
     "interview.memory.max_recent_segments", "interview.memory.keep_after_summarize",
     "interview.responder.llm.timeout_ms", "interview.responder.llm.retries",
     "interview.planner.min_substantive_length", "rate_limits.rpm", "rate_limits.burst",
     "automation.queue.concurrency", "automation.queue.retry_attempts",
     "approval_tiers.auto_apply.min_score", "approval_tiers.auto_apply.max_score",
     "approval_tiers.review.min_score", "approval_tiers.review.max_score",
     "approval_tiers.reject.min_score", "approval_tiers.reject.max_score",
     "cover_letter.max_length"} \X {"int"}
    \cup {"scoring.weights.skill", "scoring.weights.experience", "scoring.weights.location",
          "scoring.weights.salary", "scoring.weights.description",
          "interview.planner.duplicate_threshold"} \X {"float"}
    \cup {<<"scoring.mode", "string">>, <<"email.folders", "strings">>}

\* Only known not to be null or empty: a JSON value of any type will do.
unchecked ==
    {"resume.engine", "resume.template_dir", "cover_letter.engine", "cover_letter.template_dir",
     "email.provider", "email.check_interval",
     "automation.auto_generate.resume", "automation.auto_generate.cover_letter",
     "approval_tiers.auto_apply.notify", "approval_tiers.review.notify",
     "approval_tiers.reject.notify", "approval_tiers.reject.log",
     "voice.provider", "voice.model", "voice.livekit.url",
     "llm.primary.provider", "llm.primary.model", "llm.local.provider", "llm.local.model",
     "llm.embeddings.provider", "llm.embeddings.model"}

\* A key of neither kind, approval_tiers.*.action, has no validation and is refused.
validateValue(key, value) ==
    \/ key \in unchecked
    \/ \E entry \in rangeChecked : entry[1] = key /\ convertsTo(value, entry[2]) /\ value.fits

accepted(key, value) == key \in allowedKeys /\ validateValue(key, value)

\* The onboarding's entries in the order they are saved; TRUE for a secret.
OnboardingEntries ==
    <<[key |-> "llm.primary.api_key", secret |-> TRUE],
      [key |-> "llm.fallback.api_key", secret |-> TRUE],
      [key |-> "voice.livekit.url", secret |-> FALSE],
      [key |-> "voice.livekit.api_key", secret |-> TRUE],
      [key |-> "voice.livekit.api_secret", secret |-> TRUE],
      [key |-> "email.ms_365.tenant_id", secret |-> FALSE],
      [key |-> "email.ms_365.client_id", secret |-> TRUE],
      [key |-> "email.ms_365.client_secret", secret |-> TRUE]>>
Secrets == {e.key : e \in {OnboardingEntries[i] : i \in {n \in DOMAIN OnboardingEntries : OnboardingEntries[n].secret}}}
Keys == allowedKeys \cup {OnboardingEntries[i].key : i \in DOMAIN OnboardingEntries}
filled == [type |-> "string", fits |-> TRUE]

\* The layers of Resolve, the later over the earlier.
applyEnvOverrides ==
    {"scoring.auto_threshold", "scoring.review_threshold", "scoring.mode", "scoring.hybrid_reject_margin",
     "scoring.weights.skill", "scoring.weights.experience", "scoring.weights.location",
     "scoring.weights.salary", "scoring.weights.description",
     "llm.primary.provider", "llm.primary.model", "llm.local.model", "llm.embeddings.model",
     "automation.queue.concurrency", "rate_limits.rpm", "rate_limits.burst",
     "email.check_interval", "email.folders", "interview.memory.max_recent_segments",
     "interview.responder.llm.timeout_ms", "interview.planner.duplicate_threshold"}
applies(key) == \E entry \in setNestedValue : entry[1] = key /\ convertsTo(cfgStored[key], entry[2])
ResolveEnvLast(key) ==                     \* the environment over the database
    IF key \in cfgEnv THEN "env"
    ELSE IF key \in DOMAIN cfgStored /\ applies(key) THEN "db" ELSE "yaml"
Resolve(key) == IF key \in DOMAIN cfgStored /\ applies(key) THEN "db"
                ELSE IF key \in cfgEnv THEN "env" ELSE "yaml"

-----------------------------------------------------------------------------
SettingsInit ==
    /\ cfgStored = <<>>
    /\ cfgEnv \in {{}, applyEnvOverrides} /\ cfgKey \in Keys
    /\ cfgUser = FALSE /\ cfgDone = FALSE
    /\ cfgSaver = [s \in Savers |-> {}]

\* INSERT ... ON CONFLICT (key) DO UPDATE.
UpsertOverride(key, value) ==
    cfgStored' = [k \in DOMAIN cfgStored \cup {key} |-> IF k = key THEN value ELSE cfgStored[k]]

SetOverride(key, value) ==
    /\ cfgUser /\ accepted(key, value)
    /\ UpsertOverride(key, value)
    /\ UNCHANGED <<cfgEnv, cfgKey, cfgUser, cfgDone, cfgSaver>>

DeleteOverride(key) ==
    /\ cfgUser /\ key \in DOMAIN cfgStored
    /\ cfgStored' = [k \in DOMAIN cfgStored \ {key} |-> cfgStored[k]]
    /\ UNCHANGED <<cfgEnv, cfgKey, cfgUser, cfgDone, cfgSaver>>

AccountCreated ==
    /\ ~cfgUser /\ cfgUser' = TRUE
    /\ UNCHANGED <<cfgStored, cfgEnv, cfgKey, cfgDone, cfgSaver>>

\* The middleware lets a request in as long as the onboarding is not completed;
\* without a user the check fails, and fails closed.
SaveOnboardingConfig(s, form) ==
    /\ cfgUser /\ ~cfgDone /\ cfgSaver[s] = {}
    /\ cfgSaver' = [cfgSaver EXCEPT ![s] =
           {i \in DOMAIN OnboardingEntries : OnboardingEntries[i].key \in form}]
    /\ UNCHANGED <<cfgStored, cfgEnv, cfgKey, cfgUser, cfgDone>>

\* One entry after the other, secrets unchecked; the first one refused ends the
\* request, and what was saved before stays.
SaveEntry(s) ==
    \E i \in cfgSaver[s] :
       /\ \A later \in cfgSaver[s] : i <= later
       /\ LET e == OnboardingEntries[i]
          IN IF e.secret \/ accepted(e.key, filled)
             THEN UpsertOverride(e.key, filled) /\ cfgSaver' = [cfgSaver EXCEPT ![s] = @ \ {i}]
             ELSE UNCHANGED cfgStored /\ cfgSaver' = [cfgSaver EXCEPT ![s] = {}]
       /\ UNCHANGED <<cfgEnv, cfgKey, cfgUser, cfgDone>>

SaveFails(s) ==
    /\ cfgSaver[s] # {}
    /\ cfgSaver' = [cfgSaver EXCEPT ![s] = {}]
    /\ UNCHANGED <<cfgStored, cfgEnv, cfgKey, cfgUser, cfgDone>>

CompleteOnboarding ==
    /\ cfgUser /\ ~cfgDone /\ cfgDone' = TRUE
    /\ UNCHANGED <<cfgStored, cfgEnv, cfgKey, cfgUser, cfgSaver>>

SettingsNext ==
    \/ \E value \in Values : SetOverride(cfgKey, value)
    \/ DeleteOverride(cfgKey)
    \/ AccountCreated \/ CompleteOnboarding
    \/ \E s \in Savers :
          \/ \E form \in Forms : SaveOnboardingConfig(s, form)
          \/ SaveEntry(s) \/ SaveFails(s)

SettingsSpec == SettingsInit /\ [][SettingsNext]_settingsVars

-----------------------------------------------------------------------------
SettingsTypeOK ==
    /\ DOMAIN cfgStored \subseteq Keys /\ \A key \in DOMAIN cfgStored : cfgStored[key] \in Values
    /\ cfgEnv \subseteq applyEnvOverrides /\ cfgKey \in Keys
    /\ cfgUser \in BOOLEAN /\ cfgDone \in BOOLEAN
    /\ cfgSaver \in [Savers -> SUBSET DOMAIN OnboardingEntries]

\* An override that was accepted "takes effect on the next GetEffectiveConfig
\* call": three tables, of the keys, of the checks and of the setters, and the
\* order of the layers agree on every key, whatever the environment says.  What
\* does not take effect is a value of the wrong JSON type under a key that is not
\* checked, and the secrets of the onboarding, all but one of which no setter knows.
OverridesInForce ==
    \A key \in DOMAIN cfgStored :
        \/ Resolve(key) = "db"
        \/ key \in unchecked /\ ~applies(key)
        \/ key \in Secrets \ {"voice.livekit.api_key"}
=============================================================================
