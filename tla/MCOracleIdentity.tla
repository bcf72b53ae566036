-------------------------- MODULE MCOracleIdentity --------------------------
(* Instance for TLC: two images with their configurations baked in, on two   *)
(* chains with a JJSKIN contract at the same address, and development hosts  *)
(* with an operator's key, without dstack, or with a broken configuration.   *)
EXTENDS OracleIdentity

CONSTANTS A, B, K, Main, Test

MCParseAddress ==
  [zero |-> "0", junk |-> Invalid, jjskin |-> "J", factory |-> "F"]

MCDeployments == {[chain |-> Main, contract |-> "J"], [chain |-> Test, contract |-> "J"]}

MCOutcomes ==
  {[decision |-> "Release", refund_reason |-> "None"],
   [decision |-> "Refund", refund_reason |-> "BuyerExpired"]}

Yaml(chain) ==
  [contract_address |-> "jjskin", steam_factory_address |-> "factory",
   chain_id |-> chain, rpc_url |-> chain]

At(image, tdx, env, file, yaml) ==
  [image |-> image, tdx |-> tdx, env |-> env, keyFile |-> Invalid, file |-> file, yaml |-> yaml]

\* Two images in dstack, two development hosts with one key, one without a key.
Running ==
  {At(A, TRUE, None, "yaml", Yaml(Main)), At(B, TRUE, None, "yaml", Yaml(Test)),
   At(A, FALSE, K, "yaml", Yaml(Main)), At(A, FALSE, K, "yaml", Yaml(Test)),
   At(B, FALSE, None, "yaml", Yaml(Test))}

\* No file, no YAML, a key missing, an address that does not parse, unusable keys.
Broken ==
  {At(A, TRUE, None, "missing", Yaml(Main)), At(A, TRUE, None, "unparsable", Yaml(Main)),
   At(A, TRUE, None, "yaml", [contract_address |-> "jjskin"]),
   At(A, TRUE, None, "yaml", [contract_address |-> "junk", steam_factory_address |-> "factory"]),
   At(A, TRUE, None, "yaml", [contract_address |-> "jjskin", steam_factory_address |-> "junk"]),
   At(A, TRUE, Invalid, "yaml", Yaml(Main)),
   [At(A, TRUE, None, "yaml",
         [contract_address |-> "jjskin", steam_factory_address |-> "factory",
          signing_key_path |-> "path"]) EXCEPT !.keyFile = None]}

MCHosts == Running \cup Broken

MCYamls == {h.yaml : h \in MCHosts}
=============================================================================
