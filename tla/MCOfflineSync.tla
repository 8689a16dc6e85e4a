----------------------------- MODULE MCOfflineSync -----------------------------
(* OfflineSync with two photos and one synchronisation at a time.          *)
EXTENDS OfflineSync

================================================================================
