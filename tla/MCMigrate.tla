----------------------------- MODULE MCMigrate -----------------------------
(* Model-checking instances of Migrate.                                     *)
EXTENDS Migrate

\* One each of the columns, the tables found by name, those found by reading.
Schema == <<"tscreate", "nondup", "keyspace", "ts_msp", "events_array_f32">>
=============================================================================
