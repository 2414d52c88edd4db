---------------------------- MODULE EngineConfig ----------------------------
(***************************************************************************)
(* How engine/src/config.rs loads the engine's configuration: defaults,    *)
(* under config.toml, under the environment, then validate.                *)
(*                                                                         *)
(* A field has a section and a name, which is a sequence of words; the     *)
(* fields kept are those whose absence or value can make load fail, and    *)
(* one weight and one ratio stand for the others.  The layers are          *)
(* functions from the fields that are set to their values.                 *)
(***************************************************************************)
EXTENDS Integers, Sequences

redis_url           == [section |-> "store", name |-> <<"redis", "url">>]
database_url        == [section |-> "store", name |-> <<"database", "url">>]
api_key             == [section |-> "llm", name |-> <<"api", "key">>]
provider            == [section |-> "llm", name |-> <<"provider">>]
weight_velocity     == [section |-> "scoring", name |-> <<"weight", "velocity">>]
tier2_synonym_ratio ==
    [section |-> "defence", name |-> <<"tier2", "synonym", "ratio">>]

Secrets == {redis_url, database_url, api_key}
Fields == Secrets \cup {provider, weight_velocity, tier2_synonym_ratio}

\* set_default: the secrets have none.  Numbers are percentages.
Defaults == [f \in Fields \ Secrets |->
                CASE f = provider            -> "groq"
                  [] f = weight_velocity     -> 25
                  [] f = tier2_synonym_ratio -> 45]
OtherWeights == 75

\* VYSE_ENGINE_<SECTION>_<NAME>, as the comment of load maps a field.
EnvVar(f) == <<f.section>> \o f.name
\* separator("_"): every underscore ends a component of the path.
EnvPath(var) == [k \in DOMAIN var |-> <<var[k]>>]
FieldPath(f) == <<<<f.section>>, f.name>>

EnvReaches(f, env) == f \in DOMAIN env /\ EnvPath(EnvVar(f)) = FieldPath(f)

Present(f, file, env) ==
    f \in DOMAIN Defaults \cup DOMAIN file \/ EnvReaches(f, env)
\* The last layer that has the field.
Value(f, file, env) ==
    IF EnvReaches(f, env) THEN env[f]
    ELSE IF f \in DOMAIN file THEN file[f] ELSE Defaults[f]

\* validate
Valid(file, env) ==
    LET value(f) == Value(f, file, env)
    IN  /\ value(weight_velocity) + OtherWeights \in 99..101
        /\ value(redis_url) # "" /\ value(database_url) # ""
        /\ value(api_key) # "" \/ value(provider) = "ollama"
        /\ value(tier2_synonym_ratio) \in 1..100

\* load: try_deserialize fails on a field no layer has.
Loads(file, env) ==
    /\ \A f \in Fields : Present(f, file, env)
    /\ Valid(file, env)
=============================================================================
