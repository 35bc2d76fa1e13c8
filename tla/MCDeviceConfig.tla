---------------------------- MODULE MCDeviceConfig ----------------------------
(***************************************************************************)
(* One client moves three nested networks and an attribute between two     *)
(* peers; another changes two headers over three values and the private    *)
(* key while the MTU moves past what the clamp's sixteen bits hold.        *)
(***************************************************************************)
EXTENDS DeviceConfig, TLC

Nested == {<<1, 0>>, <<1, 1>>, <<3, 1>>}
Distinct == [p \in Params |-> IF p = "h1" THEN "x" ELSE "y"]
OfPeers ==
  [attrs |-> Attrs, ips |-> Nested, keys |-> {"a"}, values |-> {}, mtus |-> {4}]
OfSettings ==
  [attrs |-> {}, ips |-> {}, keys |-> PrivateKeys, values |-> Values, mtus |-> Mtus]
BothClients == {OfPeers, OfSettings}
Symmetry == Permutations(Keys)
===============================================================================
