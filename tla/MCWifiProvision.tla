-------------------------- MODULE MCWifiProvision --------------------------
(* An instance of WifiProvision: the device is in one network and is to be  *)
(* brought into another one, or back.                                       *)
EXTENDS WifiProvision

TwoNetworks == {"Old", "New"}
OldNetwork  == "Old"
=============================================================================
