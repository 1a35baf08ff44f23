---------------------------- MODULE MCHiveImport ----------------------------
(* Instances of HiveImport for TLC. *)
EXTENDS HiveImport

HiveSyncedAndSelfOnce ==
    {<<"hive", "ImportAndSync">>, <<"self", "ImportOnly">>}

SelfOnce == {<<"self", "ImportOnly">>}
=============================================================================
