------------------------- MODULE ConfigSchema_proofs -------------------------
(***************************************************************************)
(* A governor.yaml that is accepted gives the service a usable             *)
(* configuration, for every file: required fields that are there, whole    *)
(* positive divisors and bounds, a named model behind an enabled           *)
(* classifier, a user behind local mode.                                   *)
(***************************************************************************)
EXTENDS ConfigSchema, TLAPS

\* A field of an accepted block is in the table and of its kind.
LEMMA BlockField ==
  ASSUME NEW fields, NEW v, IsBlock(fields, v), NEW f \in DOMAIN v.of
  PROVE  f \in DOMAIN fields /\ Leaf(fields[f], v.of[f])
BY DEF IsBlock

\* What the kinds promise that others rely on.
LEMMA Kinds ==
  ASSUME NEW v
  PROVE  /\ Leaf("name", v) => v.s # ""
         /\ Leaf("positive", v) => v.n \in Int /\ v.n >= 100
         /\ Leaf("amount", v) => v.n \in Int /\ v.n >= 0
         /\ Leaf("qualities", v) => \A t \in DOMAIN v.of : IsQuality(v.of[t])
<1>1. /\ Leaf("name", v) => IsName(v)
      /\ Leaf("positive", v) => IsPositiveInteger(v)
      /\ Leaf("amount", v) => IsNonNegative(v)
      /\ Leaf("qualities", v) => \A t \in DOMAIN v.of : IsQuality(v.of[t])
  BY Zenon DEF Leaf
<1>2. IsName(v) => v.s # ""
  BY Zenon DEF IsName
<1>3. /\ IsPositiveInteger(v) => v.n \in Int /\ v.n >= 100
      /\ IsNonNegative(v) => v.n \in Int /\ v.n >= 0
  BY SMT DEF IsPositiveInteger, IsNumber, IsNonNegative
<1> QED
  BY <1>1, <1>2, <1>3, Zenon

\* Hundredths are divided into a natural number, and into a positive one from 100 on.
LEMMA WholePart ==
  ASSUME NEW n \in Int, n >= 0
  PROVE  n \div 100 \in Nat /\ (n >= 100 => n \div 100 \in Nat \ {0})
OBVIOUS

\* A field with a default has the default or what an accepted block says.
LEMMA BlockValue ==
  ASSUME NEW fields, NEW v, IsBlock(fields, v), NEW defaults, NEW f \in DOMAIN defaults
  PROVE  \/ WithDefaults(defaults, v.of)[f] = defaults[f]
         \/ Leaf(fields[f], WithDefaults(defaults, v.of)[f])
BY BlockField DEF WithDefaults, Has

\* The same of a field that may be left out: what its default satisfies holds.
LEMMA NumberOrDefault ==
  ASSUME NEW v, NEW d, d.n \in Int
  PROVE  /\ d.n >= 100 /\ (v = d \/ Leaf("positive", v)) => v.n \div 100 \in Nat \ {0}
         /\ d.n >= 0 /\ (v = d \/ Leaf("amount", v)) => v.n \div 100 \in Nat
<1>1. CASE v = d
  BY <1>1, WholePart, SMT
<1>2. CASE v # d
  <2>1. /\ Leaf("positive", v) => v.n \in Int /\ v.n >= 100
        /\ Leaf("amount", v) => v.n \in Int /\ v.n >= 0
    BY Kinds, Zenon
  <2>2. v.n \in Int /\ v.n >= 100 => v.n \div 100 \in Nat \ {0}
    BY WholePart, SMT
  <2>3. v.n \in Int /\ v.n >= 0 => v.n \div 100 \in Nat
    BY WholePart, SMT
  <2> QED
    BY <1>2, <2>1, <2>2, <2>3, Zenon
<1> QED
  BY <1>1, <1>2, Zenon

\* A provider finds the fields it dereferences.
LEMMA IdentityUsable ==
  ASSUME NEW v, IdentityAccepted(v),
         NEW f \in {"local_user_id", "header_name", "trusted_proxy", "jwt_key_file"},
         Has(v.of, f)
  PROVE  v.of[f].s # ""
<1>1. f \in DOMAIN v.of /\ IsBlock(IdentityFields, v)
  BY DEF Has, IdentityAccepted
<1>2. Leaf(IdentityFields[f], v.of[f])
  BY <1>1, BlockField
<1>3. IdentityFields[f] = "name"
  BY DEF IdentityFields
<1> QED
  BY <1>2, <1>3, Kinds, Zenon

\* Credits are divided by a positive number, and a month's default is one.
LEMMA CreditsUsable ==
  ASSUME NEW v, IsBlock(CreditsFields, v), NEW defaults,
         defaults = [tokens_per_credit |-> Num(100000000), default_monthly_credits |-> Num(10000)]
  PROVE  /\ WithDefaults(defaults, v.of).tokens_per_credit.n \div 100 \in Nat \ {0}
         /\ WholeCredits(WithDefaults(defaults, v.of).default_monthly_credits) \in Nat
<1> DEFINE credits == WithDefaults(defaults, v.of)
<1>1. /\ credits["tokens_per_credit"] = Num(100000000)
         \/ Leaf(CreditsFields["tokens_per_credit"], credits["tokens_per_credit"])
      /\ credits["default_monthly_credits"] = Num(10000)
         \/ Leaf(CreditsFields["default_monthly_credits"], credits["default_monthly_credits"])
  <2>1. /\ "tokens_per_credit" \in DOMAIN defaults /\ "default_monthly_credits" \in DOMAIN defaults
        /\ defaults["tokens_per_credit"] = Num(100000000)
        /\ defaults["default_monthly_credits"] = Num(10000)
    BY SMT
  <2> QED
    BY <2>1, BlockValue, SMT
<1>2. /\ CreditsFields["tokens_per_credit"] = "positive"
      /\ CreditsFields["default_monthly_credits"] = "amount"
  BY DEF CreditsFields
<1>3. /\ Num(100000000).n \in Int /\ Num(100000000).n >= 100
      /\ Num(10000).n \in Int /\ Num(10000).n >= 0
  BY SMT DEF Num
<1>4. credits["tokens_per_credit"].n \div 100 \in Nat \ {0}
  BY <1>1, <1>2, <1>3, NumberOrDefault, SMT
<1>5. credits["default_monthly_credits"].n \div 100 \in Nat
  BY <1>1, <1>2, <1>3, NumberOrDefault, SMT
<1> QED
  BY <1>4, <1>5, SMT DEF WholeCredits

\* A request may be attempted at least once.
LEMMA FallbackUsable ==
  ASSUME NEW v, IsBlock(FallbackFields, v), NEW defaults,
         "max_attempts" \in DOMAIN defaults, defaults["max_attempts"] = Num(200)
  PROVE  WithDefaults(defaults, v.of).max_attempts.n \div 100 \in Nat \ {0}
<1>1. \/ WithDefaults(defaults, v.of)["max_attempts"] = Num(200)
      \/ Leaf(FallbackFields["max_attempts"], WithDefaults(defaults, v.of)["max_attempts"])
  BY BlockValue
<1>2. FallbackFields["max_attempts"] = "positive"
  BY DEF FallbackFields
<1>3. Num(200).n \in Int /\ Num(200).n >= 100
  BY SMT DEF Num
<1> QED
  BY <1>1, <1>2, <1>3, NumberOrDefault, SMT

\* A model's multiplier is not negative, and what it states of its quality is in range.
LEMMA ModelUsable ==
  ASSUME NEW v, IsBlock(ModelFields, v)
  PROVE  /\ \A t \in DOMAIN RuntimeModel(v).quality : IsQuality(RuntimeModel(v).quality[t])
         /\ \/ RuntimeModel(v).multiplier = 100
            \/ RuntimeModel(v).multiplier \in Nat
<1> DEFINE defaults == [enabled |-> Bool(TRUE), multiplier |-> Num(100)]
           entry == WithDefaults(defaults, v.of)
<1>1. "multiplier" \in DOMAIN defaults /\ defaults["multiplier"] = Num(100)
  BY SMT
<1>2. entry["multiplier"] = Num(100) \/ Leaf(ModelFields["multiplier"], entry["multiplier"])
  BY <1>1, BlockValue, SMT
<1>3. ModelFields["multiplier"] = "amount" /\ ModelFields["quality"] = "qualities"
  BY DEF ModelFields
<1>4. entry["multiplier"] = Num(100) \/ entry["multiplier"].n \in Nat
  <2>1. Leaf("amount", entry["multiplier"]) =>
          entry["multiplier"].n \in Int /\ entry["multiplier"].n >= 0
    BY Kinds, Zenon
  <2> HIDE DEF entry
  <2> QED
    BY <1>2, <1>3, <2>1, SMT
<1>5. RuntimeModel(v).multiplier = entry["multiplier"].n
  BY DEF RuntimeModel
<1>6. RuntimeModel(v).quality = Sub(v.of, "quality").of
  BY DEF RuntimeModel
<1>7. \A t \in DOMAIN Sub(v.of, "quality").of : IsQuality(Sub(v.of, "quality").of[t])
  <2>1. CASE "quality" \in DOMAIN v.of /\ v.of["quality"] # Null
    <3>1. Sub(v.of, "quality") = v.of["quality"]
      BY <2>1 DEF Sub
    <3>2. Leaf("qualities", v.of["quality"])
      BY <2>1, <1>3, BlockField
    <3> QED
      BY <3>1, <3>2, Kinds, Zenon
  <2>2. CASE ~("quality" \in DOMAIN v.of /\ v.of["quality"] # Null)
    <3>1. Sub(v.of, "quality") = Object(Empty)
      BY <2>2 DEF Sub
    <3>2. DOMAIN Object(Empty).of = {}
      BY DEF Object, Empty
    <3> QED
      BY <3>1, <3>2
  <2> QED
    BY <2>1, <2>2
<1>8. Num(100).n = 100
  BY SMT DEF Num
<1> HIDE DEF entry
<1>9. RuntimeModel(v).multiplier = 100 \/ RuntimeModel(v).multiplier \in Nat
  BY <1>4, <1>5, <1>8, SMT
<1> QED
  BY <1>6, <1>7, <1>9

\* A model is enabled or it is not.
LEMMA ModelEnabled ==
  ASSUME NEW v, IsBlock(ModelFields, v)
  PROVE  RuntimeModel(v).enabled \in BOOLEAN
<1> DEFINE defaults == [enabled |-> Bool(TRUE), multiplier |-> Num(100)]
           entry == WithDefaults(defaults, v.of)
<1>1. "enabled" \in DOMAIN defaults /\ defaults["enabled"] = Bool(TRUE)
  BY SMT
<1>2. entry["enabled"] = Bool(TRUE) \/ Leaf(ModelFields["enabled"], entry["enabled"])
  <2> HIDE DEF defaults
  <2> QED
    BY <1>1, BlockValue, Zenon
<1>3. ModelFields["enabled"] = "boolean"
  BY DEF ModelFields
<1>4. \A x : Leaf("boolean", x) => x.b \in BOOLEAN
  BY Zenon DEF Leaf
<1>5. Bool(TRUE).b \in BOOLEAN
  BY SMT DEF Bool
<1>6. RuntimeModel(v).enabled = entry["enabled"].b
  BY DEF RuntimeModel
<1> HIDE DEF entry
<1> QED
  BY <1>2, <1>3, <1>4, <1>5, <1>6, Zenon

\* A user's month has a whole number of credits.
LEMMA UserUsable ==
  ASSUME NEW v, IsBlock(UserFields, v)
  PROVE  RuntimeUser(v).credits \in Nat
<1> DEFINE defaults == [allow |-> List(<<>>), monthly_credits |-> Num(10000)]
           entry == WithDefaults(defaults, v.of)
<1>1. "monthly_credits" \in DOMAIN defaults /\ defaults["monthly_credits"] = Num(10000)
  BY SMT
<1>2. \/ entry["monthly_credits"] = Num(10000)
      \/ Leaf(UserFields["monthly_credits"], entry["monthly_credits"])
  BY <1>1, BlockValue, SMT
<1>3. UserFields["monthly_credits"] = "amount"
  BY DEF UserFields
<1>4. Num(10000).n \in Int /\ Num(10000).n >= 0
  BY SMT DEF Num
<1>5. entry["monthly_credits"].n \div 100 \in Nat
  <2> HIDE DEF entry
  <2> QED
    BY <1>2, <1>3, <1>4, NumberOrDefault, SMT
<1> QED
  BY <1>5, SMT DEF RuntimeUser, WholeCredits

(* A file that is accepted can be worked with: every field an identity provider
   dereferences is there, the bounds and the divisor of credits are positive, an enabled
   classifier has its model, and local mode has its user (resolveConfig against what
   the service, the providers and the classifier read without looking).              *)
THEOREM AcceptedIsUsable ==
  ASSUME NEW raw, Accepted(raw)
  PROVE  Usable(RuntimeConfig(raw))
<1> DEFINE config == RuntimeConfig(raw)
           identity == raw["identity"].of
           Named(f) == Has(identity, f) /\ identity[f].s # ""
<1>1. IdentityAccepted(raw["identity"])
  BY DEF Accepted
<1>2. config.identity = identity
  BY DEF RuntimeConfig
<1>3. \A f \in {"local_user_id", "header_name", "trusted_proxy", "jwt_key_file"} :
        Has(identity, f) => identity[f].s # ""
  BY <1>1, IdentityUsable
<1>4. identity["provider"] = Str("header") => Named("header_name") /\ Named("trusted_proxy")
  BY <1>1, <1>3 DEF IdentityAccepted
<1>5. identity["provider"] = Str("jwt") =>
        /\ Has(identity, "jwt_algorithms") /\ identity["jwt_algorithms"].items # <<>>
        /\ Has(identity, "jwt_key") \/ Named("jwt_key_file")
  <2> SUFFICES ASSUME identity["provider"] = Str("jwt")
               PROVE  /\ Has(identity, "jwt_algorithms") /\ identity["jwt_algorithms"].items # <<>>
                      /\ Has(identity, "jwt_key") \/ Named("jwt_key_file")
    OBVIOUS
  <2>1. Has(identity, "jwt_algorithms") /\ identity["jwt_algorithms"].items # <<>>
    BY <1>1 DEF IdentityAccepted
  <2>2. Has(identity, "jwt_key") # Has(identity, "jwt_key_file")
    BY <1>1 DEF IdentityAccepted
  <2>3. Has(identity, "jwt_key") \/ Has(identity, "jwt_key_file")
    BY <2>2 DEF Has
  <2> QED
    BY <1>3, <2>1, <2>3
<1>6. identity["provider"] = Str("local") => config.localUser # ""
  <2>1. config.localUser = LocalUser(identity)
    BY DEF RuntimeConfig
  <2>2. Has(identity, "local_user_id") => identity["local_user_id"].s # ""
    BY <1>3
  <2> QED
    BY <2>1, <2>2, Zenon DEF LocalUser
<1>7. config.tokensPerCredit \in Nat \ {0} /\ config.defaultCredits \in Nat
  BY CreditsUsable, SMT DEF Accepted, RuntimeConfig
<1>8. config.maxAttempts \in Nat \ {0}
  BY FallbackUsable, SMT DEF Accepted, RuntimeConfig
<1>9. config.classifier.enabled.b =>
        config.classifier.provider.s # "" /\ config.classifier.model.s # ""
  <2>1. config.classifier = LlmClassifier(Sub(raw, "auto"))
    BY DEF RuntimeConfig
  <2>2. AutoAccepted(Sub(raw, "auto"))
    BY DEF Accepted
  <2> QED
    BY <2>1, <2>2, Zenon DEF AutoAccepted
<1>10. \A r \in DOMAIN config.models :
         /\ config.models[r].multiplier \in Nat
         /\ \A t \in DOMAIN config.models[r].quality : IsQuality(config.models[r].quality[t])
  <2> DEFINE models == Sub(raw, "models").of
  <2>1. config.models = [r \in DOMAIN models |-> RuntimeModel(models[r])]
    BY DEF RuntimeConfig
  <2>2. \A r \in DOMAIN models : IsBlock(ModelFields, models[r])
    BY DEF Accepted, ModelsAccepted
  <2>3. \A r \in DOMAIN models :
          /\ RuntimeModel(models[r]).multiplier \in Nat
          /\ \A t \in DOMAIN RuntimeModel(models[r]).quality :
               IsQuality(RuntimeModel(models[r]).quality[t])
    <3> SUFFICES ASSUME NEW r \in DOMAIN models
                 PROVE  /\ RuntimeModel(models[r]).multiplier \in Nat
                        /\ \A t \in DOMAIN RuntimeModel(models[r]).quality :
                             IsQuality(RuntimeModel(models[r]).quality[t])
      OBVIOUS
    <3>1. /\ \A t \in DOMAIN RuntimeModel(models[r]).quality :
               IsQuality(RuntimeModel(models[r]).quality[t])
          /\ \/ RuntimeModel(models[r]).multiplier = 100
             \/ RuntimeModel(models[r]).multiplier \in Nat
      BY <2>2, ModelUsable
    <3>2. 100 \in Nat
      OBVIOUS
    <3> QED
      BY <3>1, <3>2, Zenon
  <2> HIDE DEF models, config
  <2> QED
    BY <2>1, <2>3
<1>11. \A u \in DOMAIN config.users : config.users[u].credits \in Nat
  <2> DEFINE users == Sub(raw, "users").of
  <2>1. config.users = [u \in DOMAIN users |-> RuntimeUser(users[u])]
    BY DEF RuntimeConfig
  <2>2. \A u \in DOMAIN users : IsBlock(UserFields, users[u])
    BY DEF Accepted, UsersAccepted
  <2>3. \A u \in DOMAIN users : RuntimeUser(users[u]).credits \in Nat
    BY <2>2, UserUsable
  <2> HIDE DEF users, config
  <2> QED
    BY <2>1, <2>3
<1> HIDE DEF config
<1>12. Usable(config)
  BY <1>2, <1>4, <1>5, <1>6, <1>7, <1>8, <1>9, <1>10, <1>11, Zenon DEF Usable
<1> QED
  BY <1>12 DEF config
==============================================================================
