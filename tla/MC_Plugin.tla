------------------------------ MODULE MC_Plugin ------------------------------
(* An instance of Plugin for TLC: files that are accepted and files that are   *)
(* refused for one reason each, a host that gains and loses providers.          *)
EXTENDS Plugin

File(sections) ==
  [f \in {"schema_version"} \cup DOMAIN sections |->
     IF f = "schema_version" THEN Num(100) ELSE sections[f]]

LocalIdentity == Object([provider |-> Str("local")])
JwtIdentity ==
  [provider |-> Str("jwt"), jwt_issuer |-> Str("issuer"), jwt_audience |-> Str("dsh"),
   jwt_algorithms |-> List(<<Str("ES256")>>)]
With(identity, field, value) ==
  [f \in {field} \cup DOMAIN identity |-> IF f = field THEN value ELSE identity[f]]

MCModels ==
  Object([r \in {<<"p1", "m1">>, <<"p2", "m2">>} |->
            Object([enabled |-> Bool(r[1] = "p1"), quality |-> Object([coding |-> Num(9000)])])])
MCUsers == Object([alice |-> Object([allow |-> List(<<Str("p1:m1")>>), monthly_credits |-> Num(150)])])

MCRawConfigs ==
  <<File([identity |-> LocalIdentity, models |-> MCModels, users |-> MCUsers]),
   File([identity |-> Object(With(JwtIdentity, "jwt_key_file", Str("key.pem"))),
         storage |-> Object([enabled |-> Bool(FALSE)])]),
   \* Refused: no key, no trusted proxy, a divisor of zero, a classifier without a model,
   \* an unknown field, another schema.
   File([identity |-> Object(JwtIdentity)]),
   File([identity |-> Object(With([provider |-> Str("header")], "header_name", Str("x-user")))]),
   File([identity |-> LocalIdentity, credits |-> Object([tokens_per_credit |-> Num(0)])]),
   File([identity |-> LocalIdentity,
         auto |-> Object([llm_classifier |-> Object([enabled |-> Bool(TRUE)])])]),
   File([identity |-> LocalIdentity, fallback |-> Object([attempts |-> Num(200)])]),
   [schema_version |-> Num(200), identity |-> LocalIdentity]>>

MCHosts ==
  {[listed |-> [p \in {} |-> {}], unready |-> {}],
   [listed |-> [p \in {"p1"} |-> {"m1", "m3"}], unready |-> {}],
   [listed |-> [p \in {"p1", "p2"} |-> IF p = "p1" THEN {"m1"} ELSE {}], unready |-> {"p1"}]}

MCEdits == {<<<<"p1", "m1">>, FALSE>>, <<<<"p1", "m3">>, FALSE>>}
==============================================================================
