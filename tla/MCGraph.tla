------------------------------ MODULE MCGraph ------------------------------
(* Operations of up to three mutations or four query fields.               *)
EXTENDS Graph

F(name, bad, sel) == [name |-> name, bad |-> bad, sel |-> sel]

MCMutation ==
  {F("createAccountExec", {}, {"hash", "secret"}),
   F("createAccountExec", {"mint"}, {"hash"}),
   F("requestSecret", {}, {}),
   F("requestSecret", {"nonce", "sigV"}, {}),
   F("ninelivesMint", {}, {}),
   F("claimRewards", {}, {}),
   F("__typename", {}, {})}

MCQuery ==
  <<F("publickey", {}, {}),
    F("statistics", {}, {"action", "avgGasLimit24Hours"}),
    F("hasCreated", {}, {}),
    F("eoaForAddress", {}, {}),
    F("__type", {}, {}),
    F("__schema", {}, {}),
    F("hasCreated", {"address"}, {}),
    F("__typename", {}, {})>>

MCDocument ==
  [kind: {"mutation"}, fields: UNION {[1..n -> MCMutation] : n \in 1..3}]
  \cup {[kind |-> "query", fields |-> [i \in DOMAIN s |-> MCQuery[s[i]]]] :
          s \in {<<1, 2, 4, 7>>, <<1, 6, 5, 3>>, <<3, 2, 8, 7>>, <<2, 2, 3>>}}
  \cup {[kind |-> "subscription", fields |-> <<>>]}
=============================================================================
