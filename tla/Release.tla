------------------------------ MODULE Release ------------------------------
(***************************************************************************)
(* Production: the sync of the variables and the deploys, side by side.  A *)
(* deploy takes its DATABASE_URL from what has been pushed by then; every  *)
(* value of it is an address of the one database.                          *)
(***************************************************************************)
EXTENDS EnvSync

CONSTANTS
    Versions,
    NonTxn

VARIABLES schema, recorded, deploy, serving

ASSUME ReleaseAssumption == Versions \subseteq Nat \ {0} /\ NonTxn \subseteq Versions

\* The services with a preDeployCommand.
Migrators == Watched \cap {"api", "messaging"}

\* A blank address is no address to migrate.py.
Configured == {svc \in Migrators : "DATABASE_URL" \in NamesOf(svc) /\ remote[svc]["DATABASE_URL"] \notin {Unset, Empty}}

M == INSTANCE Migrate WITH Services <- Migrators, configured <- Configured

deploys == <<schema, recorded, deploy, serving>>
rvars == <<evars, deploys>>

RInit == EInit /\ M!MInit

RNext ==
    \/ ENext /\ UNCHANGED deploys
    \/ M!MNext /\ UNCHANGED evars

RSpec == RInit /\ [][RNext]_rvars

\* RecordedIsApplied of the deploys, whatever the sync does meanwhile.
SchemaNeverClaimed == M!RecordedIsApplied
\* SchemaFirst of the deploys: no code ahead of its schema.
CodeAfterSchema == M!SchemaFirst

=============================================================================
