------------------------------ MODULE Migrate ------------------------------
(***************************************************************************)
(* What a daemon does to the schemas before it starts: dbpg/src/schema.rs  *)
(* adds two columns and a constraint, scywr/src/schema.rs makes the        *)
(* keyspace and the tables.  Each is looked up and made if missing, in two *)
(* statements, without `if not exists': several daemons that start at the  *)
(* same time race, and any may crash or lose the database in between.      *)
(* Someone starts it again.                                                *)
(***************************************************************************)
EXTENDS Naturals, Sequences

CONSTANTS Daemons,
          Objects,    \* what must be there, in the order it is made
          Constraint, \* the one that is only tried: series_by_channel_nondup
          MaxFaults   \* crashes and database errors

ASSUME MigrateAssumption ==
  /\ Objects \in Seq(STRING) /\ MaxFaults \in Nat
  /\ \A i, j \in DOMAIN Objects : Objects[i] = Objects[j] => i = j
  /\ \E i \in DOMAIN Objects : Objects[i] = Constraint

VARIABLES
  duplicates, \* there are rows that do not allow the constraint
  have,       \* what is there
  phase,      \* per daemon "check", "make", "running", "down"
  at,         \* per daemon the place in Objects
  faults,     \* left
  unnoticed   \* history: the constraint was not made because of an error

schemaVars == <<duplicates, have, phase, at, faults, unnoticed>>

Last == Len(Objects)

SchemaInit ==
  /\ duplicates \in BOOLEAN
  /\ have = {} /\ faults = MaxFaults /\ unnoticed = FALSE
  /\ phase = [d \in Daemons |-> "check"] /\ at = [d \in Daemons |-> 1]

GoOn(d) ==
  /\ at' = [at EXCEPT ![d] = @ + 1]
  /\ phase' = [phase EXCEPT ![d] = IF at[d] = Last THEN "running" ELSE "check"]

Fail(d) == phase' = [phase EXCEPT ![d] = "down"] /\ UNCHANGED at

\* has_column, has_keyspace, has_table, check_table_readable.  The constraint
\* is tried in any case.
Check(d) ==
  /\ phase[d] = "check"
  /\ IF Objects[at[d]] \in have /\ Objects[at[d]] # Constraint THEN GoOn(d)
     ELSE phase' = [phase EXCEPT ![d] = "make"] /\ UNCHANGED at
  /\ UNCHANGED <<duplicates, have, faults, unnoticed>>

\* What is there by now is an error.
\* Mutant: ... which is dropped, and with it the rest.
MakeOrRun(d) ==
  /\ phase[d] = "make" /\ Objects[at[d]] # Constraint
  /\ IF Objects[at[d]] \in have
     THEN phase' = [phase EXCEPT ![d] = "running"] /\ UNCHANGED <<have, at>>
     ELSE have' = have \cup {Objects[at[d]]} /\ GoOn(d)
  /\ UNCHANGED <<duplicates, faults, unnoticed>>

Make(d) ==
  /\ phase[d] = "make" /\ Objects[at[d]] # Constraint
  /\ IF Objects[at[d]] \in have THEN Fail(d) /\ UNCHANGED have
     ELSE have' = have \cup {Objects[at[d]]} /\ GoOn(d)
  /\ UNCHANGED <<duplicates, faults, unnoticed>>

\* Mutant: the error is passed on.
TryConstraintOrFail(d) ==
  /\ phase[d] = "make" /\ Objects[at[d]] = Constraint
  /\ IF duplicates \/ Constraint \in have THEN Fail(d) /\ UNCHANGED have
     ELSE have' = have \cup {Constraint} /\ GoOn(d)
  /\ UNCHANGED <<duplicates, faults, unnoticed>>

\* Its errors are dropped.
TryConstraint(d) ==
  /\ phase[d] = "make" /\ Objects[at[d]] = Constraint
  /\ have' = IF duplicates THEN have ELSE have \cup {Constraint}
  /\ GoOn(d)
  /\ UNCHANGED <<duplicates, faults, unnoticed>>

DbError(d) ==
  /\ faults > 0 /\ phase[d] \in {"check", "make"}
  /\ faults' = faults - 1
  /\ IF Objects[at[d]] = Constraint THEN GoOn(d) /\ unnoticed' = TRUE
     ELSE Fail(d) /\ UNCHANGED unnoticed
  /\ UNCHANGED <<duplicates, have>>

Crash(d) ==
  /\ faults > 0 /\ phase[d] # "down"
  /\ faults' = faults - 1
  /\ Fail(d)
  /\ UNCHANGED <<duplicates, have, unnoticed>>

Restart(d) ==
  /\ phase[d] = "down"
  /\ phase' = [phase EXCEPT ![d] = "check"] /\ at' = [at EXCEPT ![d] = 1]
  /\ UNCHANGED <<duplicates, have, faults, unnoticed>>

Step(d) == Check(d) \/ Make(d) \/ TryConstraint(d)

SchemaNext == \E d \in Daemons : Step(d) \/ DbError(d) \/ Crash(d) \/ Restart(d)

\* A migration gets on, and a daemon that is down is started again.
SchemaSpec == /\ SchemaInit /\ [][SchemaNext]_schemaVars
              /\ \A d \in Daemons : WF_schemaVars(Step(d)) /\ WF_schemaVars(Restart(d))

-----------------------------------------------------------------------------
SchemaTypeOK ==
  /\ have \subseteq {Objects[i] : i \in 1 .. Last}
  /\ phase \in [Daemons -> {"check", "make", "running", "down"}]
  /\ at \in [Daemons -> 1 .. Last + 1]
  /\ \A d \in Daemons : phase[d] \in {"check", "make"} => at[d] <= Last
  /\ faults \in 0 .. MaxFaults /\ {unnoticed, duplicates} \subseteq BOOLEAN

\* What a daemon has behind it, the constraint apart.
Done(n) == {Objects[i] : i \in 1 .. n - 1} \ {Constraint}

(* Whatever crashed and whoever was faster, all that a daemon has behind it *)
(* is there, and nothing is there without what comes before it (a table in  *)
(* no keyspace).                                                            *)
MadeInOrder ==
  /\ \A d \in Daemons : Done(at[d]) \subseteq have
  /\ \A i \in 1 .. Last : Objects[i] \in have => Done(i) \subseteq have

(* A daemon that has come to run has its whole schema.  The constraint that *)
(* keeps the series of a channel unique may be missing: because of          *)
(* duplicates, or because of an error that nobody has seen.                 *)
RunsWithSchema ==
  \A d \in Daemons : phase[d] = "running" =>
    /\ Done(Last + 1) \subseteq have
    /\ Constraint \in have \/ duplicates \/ unnoticed

(* Daemons that race for the same table may fail, but with restarts all of  *)
(* them come to run.                                                        *)
AllRun == \A d \in Daemons : <>[](phase[d] = "running")
=============================================================================
