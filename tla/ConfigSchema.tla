---------------------------- MODULE ConfigSchema ----------------------------
(***************************************************************************)
(* The validation and normalisation of governor.yaml.  A value of the file *)
(* carries what it is; numbers are in hundredths.  A table gives the kind  *)
(* of every field; a block is an object with fields of the table only, all *)
(* of their kinds, and what it leaves out has its default.                 *)
(***************************************************************************)
EXTENDS Integers, Sequences

CONSTANTS TaskTypes, Timezones, SchemaVersion

Num(n) == [is |-> "number", n |-> n]
Str(s) == [is |-> "string", s |-> s]
Bool(b) == [is |-> "boolean", b |-> b]
List(items) == [is |-> "array", items |-> items]
Object(of) == [is |-> "object", of |-> of]
Null == [is |-> "null"]

Empty == [f \in {} |-> Null]

-----------------------------------------------------------------------------
(* The kinds.                                                               *)

IsString(v) == v.is = "string"
IsName(v) == v.is = "string" /\ v.s # ""
OneOf(v, names) == v.is = "string" /\ v.s \in names
IsNumber(v) == v.is = "number" /\ v.n \in Int  \* finite
Within(v, low, high) == IsNumber(v) /\ low <= v.n /\ v.n <= high
IsNonNegative(v) == IsNumber(v) /\ v.n >= 0
IsPositiveInteger(v) == IsNumber(v) /\ v.n >= 100 /\ v.n % 100 = 0
MaxPort == 6553500
IsQuality(v) == Within(v, 0, 10000)

Leaf(kind, v) ==
  \/ kind = "string"    /\ IsString(v)
  \/ kind = "name"      /\ IsName(v)
  \/ kind = "boolean"   /\ v.is = "boolean" /\ v.b \in BOOLEAN
  \/ kind = "strings"   /\ v.is = "array" /\ \A i \in DOMAIN v.items : IsString(v.items[i])
  \/ kind = "unit"      /\ Within(v, 0, 100)
  \/ kind = "quality"   /\ IsQuality(v)
  \/ kind = "amount"    /\ IsNonNegative(v)
  \/ kind = "positive"  /\ IsPositiveInteger(v)
  \/ kind = "port"      /\ IsPositiveInteger(v) /\ v.n <= MaxPort
  \/ kind = "timezone"  /\ OneOf(v, Timezones)
  \/ kind = "provider"  /\ OneOf(v, {"local", "header", "jwt", "custom"})
  \/ kind = "mode"      /\ OneOf(v, {"manual", "quality_first", "credit_first", "auto"})
  \/ kind = "strategy"  /\ OneOf(v, {"quality_first", "credit_first", "auto"})
  \/ kind = "no_match"  /\ OneOf(v, {"quality_first", "none"})
  \/ kind = "loopback"  /\ OneOf(v, {"127.0.0.1", "[::1]"})
  \/ /\ kind = "qualities" /\ v.is = "object" /\ DOMAIN v.of \subseteq TaskTypes
     /\ \A t \in DOMAIN v.of : IsQuality(v.of[t])
  \/ kind = "block"

-----------------------------------------------------------------------------
(* The tables; a field of kind block has a table of its own.                *)

TopLevelFields ==
  {"schema_version", "identity", "credits", "routing", "auto", "fallback", "models", "users",
   "storage", "ui", "compat_api"}

IdentityFields ==
  [provider |-> "provider", local_user_id |-> "name", header_name |-> "name",
   trusted_proxy |-> "name", proxy_header_name |-> "name", display_name_header |-> "name",
   email_header |-> "name", jwt_issuer |-> "name", jwt_audience |-> "name",
   jwt_algorithms |-> "strings", jwt_key |-> "string", jwt_key_file |-> "name",
   jwt_subject_claim |-> "name", jwt_header_name |-> "name", jwt_scheme |-> "string",
   jwt_clock_tolerance_ms |-> "amount"]

CreditsFields ==
  [tokens_per_credit |-> "positive", timezone |-> "timezone",
   default_monthly_credits |-> "amount"]
CreditFirstFields == [minimum_quality |-> "quality", on_no_match |-> "no_match"]
RoutingFields == [default |-> "mode", credit_first |-> "block"]
QualityThresholdFields == [low |-> "quality", medium |-> "quality", high |-> "quality"]
LlmClassifierFields ==
  [enabled |-> "boolean", provider |-> "name", model |-> "name", timeout_ms |-> "positive"]
AutoFields ==
  [confidence_threshold |-> "unit", quality_threshold |-> "block", llm_classifier |-> "block"]
FallbackFields ==
  [enabled |-> "boolean", max_attempts |-> "positive", after_partial_output |-> "boolean",
   strategy |-> "strategy"]
ModelFields ==
  [enabled |-> "boolean", multiplier |-> "amount", capabilities |-> "strings",
   quality |-> "qualities"]
UserFields == [allow |-> "strings", monthly_credits |-> "amount"]
StorageFields == [enabled |-> "boolean", path |-> "name"]
UiFields == [enabled |-> "boolean", port |-> "port"]
CompatApiFields ==
  [enabled |-> "boolean", port |-> "port", listen |-> "loopback", token |-> "name",
   allowed_origin |-> "name"]

IsBlock(fields, v) ==
  /\ v.is = "object"
  /\ DOMAIN v.of \subseteq DOMAIN fields
  /\ \A f \in DOMAIN v.of : Leaf(fields[f], v.of[f])

\* A block that is left out or null is as good as an empty one.
Sub(object, f) ==
  IF f \notin DOMAIN object THEN Object(Empty)
  ELSE IF object[f] = Null THEN Object(Empty) ELSE object[f]

Has(object, f) == f \in DOMAIN object
WithDefaults(defaults, object) ==
  [f \in DOMAIN defaults |-> IF Has(object, f) THEN object[f] ELSE defaults[f]]

-----------------------------------------------------------------------------
(* The sections.                                                            *)

IdentityAcceptedFaulty(v) ==
  /\ IsBlock(IdentityFields, v)
  /\ Has(v.of, "provider")
  /\ v.of["provider"] = Str("header") => Has(v.of, "header_name")
  /\ v.of["provider"] = Str("jwt") => Has(v.of, "jwt_algorithms")
  /\ Has(v.of, "jwt_algorithms") => v.of["jwt_algorithms"].items # <<>>

\* parseIdentity: what a provider cannot do without must be stated.
IdentityAccepted(v) ==
  /\ IsBlock(IdentityFields, v)
  /\ Has(v.of, "provider")
  /\ v.of["provider"] = Str("header") => Has(v.of, "header_name") /\ Has(v.of, "trusted_proxy")
  /\ v.of["provider"] = Str("jwt") =>
       /\ Has(v.of, "jwt_issuer") /\ Has(v.of, "jwt_audience") /\ Has(v.of, "jwt_algorithms")
       /\ Has(v.of, "jwt_key") # Has(v.of, "jwt_key_file")
  /\ Has(v.of, "jwt_algorithms") => v.of["jwt_algorithms"].items # <<>>

RoutingAccepted(v) ==
  /\ IsBlock(RoutingFields, v)
  /\ IsBlock(CreditFirstFields, Sub(v.of, "credit_first"))

LlmClassifierDefaults ==
  [enabled |-> Bool(FALSE), provider |-> Str(""), model |-> Str(""), timeout_ms |-> Num(1000000)]

LlmClassifier(auto) == WithDefaults(LlmClassifierDefaults, Sub(auto.of, "llm_classifier").of)

\* A classifier that is enabled names its provider and its model.
AutoAccepted(v) ==
  /\ IsBlock(AutoFields, v)
  /\ IsBlock(QualityThresholdFields, Sub(v.of, "quality_threshold"))
  /\ IsBlock(LlmClassifierFields, Sub(v.of, "llm_classifier"))
  /\ LlmClassifier(v).enabled.b =>
       LlmClassifier(v).provider.s # "" /\ LlmClassifier(v).model.s # ""

\* A route of the file is a pair; one without a provider or a model is refused.
ModelsAccepted(v) ==
  /\ v.is = "object"
  /\ \A r \in DOMAIN v.of : r[1] # "" /\ r[2] # "" /\ IsBlock(ModelFields, v.of[r])

UsersAccepted(v) ==
  /\ v.is = "object"
  /\ \A u \in DOMAIN v.of : u # "" /\ IsBlock(UserFields, v.of[u])

\* resolveConfig: everything is accepted, or the plugin does not load.
Accepted(raw) ==
  /\ DOMAIN raw \subseteq TopLevelFields
  /\ Has(raw, "schema_version") /\ raw["schema_version"] = Num(SchemaVersion)
  /\ Has(raw, "identity") /\ IdentityAccepted(raw["identity"])
  /\ IsBlock(CreditsFields, Sub(raw, "credits"))
  /\ RoutingAccepted(Sub(raw, "routing")) /\ AutoAccepted(Sub(raw, "auto"))
  /\ IsBlock(FallbackFields, Sub(raw, "fallback"))
  /\ ModelsAccepted(Sub(raw, "models")) /\ UsersAccepted(Sub(raw, "users"))
  /\ IsBlock(StorageFields, Sub(raw, "storage")) /\ IsBlock(UiFields, Sub(raw, "ui"))
  /\ IsBlock(CompatApiFields, Sub(raw, "compat_api"))

-----------------------------------------------------------------------------
(* What the service is given: toRuntimeConfig of what resolveConfig returns.*)
(* Credits become nanos there and whole credits again here.                 *)

WholeCredits(v) == v.n \div 100

LocalUser(identity) ==
  IF Has(identity, "local_user_id") THEN identity["local_user_id"].s
  ELSE IF identity["provider"] = Str("local") THEN "local" ELSE ""

RuntimeModel(v) ==
  LET entry == WithDefaults([enabled |-> Bool(TRUE), multiplier |-> Num(100)], v.of)
  IN [enabled |-> entry.enabled.b, multiplier |-> entry.multiplier.n,
      quality |-> Sub(v.of, "quality").of]

RuntimeUser(v) ==
  LET entry == WithDefaults([allow |-> List(<<>>), monthly_credits |-> Num(10000)], v.of)
  IN [allow |-> {entry.allow.items[i] : i \in DOMAIN entry.allow.items},
      credits |-> WholeCredits(entry.monthly_credits)]

\* A compatibility block that asks for nothing is dropped.
CompatApi(v) ==
  LET entry == WithDefaults([enabled |-> Bool(FALSE)], v.of)
  IN [enabled |-> entry.enabled.b, stated |-> entry.enabled.b \/ Has(v.of, "token") \/ Has(v.of, "port")]

RuntimeConfig(raw) ==
  LET credits == WithDefaults([tokens_per_credit |-> Num(100000000),
                               default_monthly_credits |-> Num(10000)], Sub(raw, "credits").of)
      fallback == WithDefaults([enabled |-> Bool(TRUE), max_attempts |-> Num(200),
                                after_partial_output |-> Bool(FALSE),
                                strategy |-> Str("quality_first")], Sub(raw, "fallback").of)
      models == Sub(raw, "models").of
      users == Sub(raw, "users").of
  IN [identity |-> raw["identity"].of,
      localUser |-> LocalUser(raw["identity"].of),
      tokensPerCredit |-> credits.tokens_per_credit.n \div 100,
      defaultCredits |-> WholeCredits(credits.default_monthly_credits),
      default |-> WithDefaults([default |-> Str("manual")], Sub(raw, "routing").of).default.s,
      maxAttempts |-> fallback.max_attempts.n \div 100, fallbackOn |-> fallback.enabled.b,
      classifier |-> LlmClassifier(Sub(raw, "auto")),
      models |-> [r \in DOMAIN models |-> RuntimeModel(models[r])],
      users |-> [u \in DOMAIN users |-> RuntimeUser(users[u])],
      storage |-> WithDefaults([enabled |-> Bool(TRUE)], Sub(raw, "storage").of).enabled.b,
      ui |-> WithDefaults([enabled |-> Bool(TRUE)], Sub(raw, "ui").of).enabled.b,
      compat |-> CompatApi(Sub(raw, "compat_api"))]

\* What the rest of the plugin takes for granted of a configuration: the fields an
\* identity provider dereferences, whole positive divisors and bounds, a named model
\* behind an enabled classifier, a user behind local mode.
Usable(config) ==
  LET Named(f) == Has(config.identity, f) /\ config.identity[f].s # "" IN
  /\ config.identity["provider"] = Str("header") => Named("header_name") /\ Named("trusted_proxy")
  /\ config.identity["provider"] = Str("jwt") =>
       /\ Has(config.identity, "jwt_algorithms") /\ config.identity["jwt_algorithms"].items # <<>>
       /\ Has(config.identity, "jwt_key") \/ Named("jwt_key_file")
  /\ config.identity["provider"] = Str("local") => config.localUser # ""
  /\ config.tokensPerCredit \in Nat \ {0} /\ config.maxAttempts \in Nat \ {0}
  /\ config.defaultCredits \in Nat
  /\ config.classifier.enabled.b => config.classifier.provider.s # "" /\ config.classifier.model.s # ""
  /\ \A r \in DOMAIN config.models :
       /\ config.models[r].multiplier \in Nat
       /\ \A t \in DOMAIN config.models[r].quality : IsQuality(config.models[r].quality[t])
  /\ \A u \in DOMAIN config.users : config.users[u].credits \in Nat
=============================================================================
