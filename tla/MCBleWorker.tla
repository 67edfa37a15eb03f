---------------------------- MODULE MCBleWorker ----------------------------
(* Instances of BleWorker for TLC: which of the user's operations each of   *)
(* them has.                                                                *)
EXTENDS BleWorker

LinkOps    == {"scan", "stop", "connect", "cancel", "disconnect"}
LateOps    == {"connect", "BlePart"}
UpgradeOps == {"connect", "disconnect", "stopOta", "clearFile", "BlePart"}
=============================================================================
