------------------------------ MODULE Migrate ------------------------------
(***************************************************************************)
(* Deploys in production.  api and messaging run migrate.py before their   *)
(* new version serves; a deploy whose migration fails leaves the old one.  *)
(* Two deploys migrate the one database at the same time, each with the    *)
(* list of pending files it read at its start.                             *)
(*                                                                         *)
(* Release r is the code that came with migration r, so it needs the       *)
(* versions up to r.  A migration is a statement that fails when its       *)
(* objects exist already; a transaction in doubt makes the other one wait, *)
(* so that it takes effect in one step.                                    *)
(***************************************************************************)
EXTENDS Naturals

CONSTANTS
    Services,       \* services with a preDeployCommand
    Versions,       \* versions of the migration files, numbers from 1
    NonTxn          \* those that opt out of the transaction

VARIABLES
    configured,     \* services whose DATABASE_URL is set
    schema,         \* versions whose objects exist
    recorded,       \* schema_migrations
    deploy,         \* [Services -> the deploy under way]
    serving         \* [Services -> release that serves, or 0]

database == <<schema, recorded>>
mvars == <<schema, recorded, deploy, serving>>

\* Versions a release ships, in the order of their files.
Files(release) == {v \in Versions : v <= release}

Idle == [step |-> "idle", release |-> 0, pending |-> {}]

MInit ==
    /\ schema = {} /\ recorded = {}
    /\ deploy = [s \in Services |-> Idle]
    /\ serving = [s \in Services |-> 0]

-----------------------------------------------------------------------------
At(s, step) == deploy[s].step = step
Goto(s, step, pending) ==
    deploy' = [deploy EXCEPT ![s] = [step |-> step, release |-> deploy[s].release, pending |-> pending]]
First(s) == CHOOSE v \in deploy[s].pending : \A w \in deploy[s].pending : v <= w

\* Railway builds a release, a new one or one from before.
Begin(s, release) ==
    /\ At(s, "idle")
    /\ deploy' = [deploy EXCEPT ![s] = [step |-> "reading", release |-> release, pending |-> {}]]
    /\ UNCHANGED <<database, serving>>

\* migrate.py: the files that are not in schema_migrations, read once.
Read(s) ==
    /\ At(s, "reading")
    /\ s \in configured
    /\ Goto(s, "applying", Files(deploy[s].release) \ recorded)
    /\ UNCHANGED <<database, serving>>

\* The statement and its row, in one transaction.
ApplyTxn(s) ==
    /\ At(s, "applying") /\ deploy[s].pending # {}
    /\ First(s) \notin NonTxn \cup schema \cup recorded
    /\ schema' = schema \cup {First(s)} /\ recorded' = recorded \cup {First(s)}
    /\ Goto(s, "applying", deploy[s].pending \ {First(s)})
    /\ UNCHANGED serving

\* Mutant: the row is written before the statement.
ApplyRecordFirst(s) ==
    /\ At(s, "applying") /\ deploy[s].pending # {}
    /\ First(s) \in NonTxn \ schema
    /\ recorded' = recorded \cup {First(s)}
    /\ Goto(s, "recording", deploy[s].pending)
    /\ UNCHANGED <<schema, serving>>

\* transaction:false: the statement alone, and then its row.
Apply(s) ==
    /\ At(s, "applying") /\ deploy[s].pending # {}
    /\ First(s) \in NonTxn \ schema
    /\ schema' = schema \cup {First(s)}
    /\ Goto(s, "recording", deploy[s].pending)
    /\ UNCHANGED <<recorded, serving>>

Record(s) ==
    /\ At(s, "recording")
    /\ First(s) \notin recorded
    /\ recorded' = recorded \cup {First(s)}
    /\ Goto(s, "applying", deploy[s].pending \ {First(s)})
    /\ UNCHANGED <<schema, serving>>

\* Mutant: the exit code is ignored, and the release serves all the same.
FailServes(s) ==
    /\ deploy[s].step \in {"reading", "applying", "recording"}
    /\ serving' = [serving EXCEPT ![s] = deploy[s].release]
    /\ deploy' = [deploy EXCEPT ![s] = Idle]
    /\ UNCHANGED database

\* No DATABASE_URL, a statement or a row that is there already (the loser of a race, or a
\* file that stopped halfway), any other error, or the deploy is killed.
Fail(s) ==
    /\ deploy[s].step \in {"reading", "applying", "recording"}
    /\ deploy' = [deploy EXCEPT ![s] = Idle]
    /\ UNCHANGED <<database, serving>>

\* Exit code 0: the release replaces the one that serves.
Serve(s) ==
    /\ At(s, "applying") /\ deploy[s].pending = {}
    /\ serving' = [serving EXCEPT ![s] = deploy[s].release]
    /\ deploy' = [deploy EXCEPT ![s] = Idle]
    /\ UNCHANGED database

MNext ==
    \E s \in Services :
        \/ \E release \in Versions : Begin(s, release)
        \/ Read(s) \/ ApplyTxn(s) \/ Apply(s) \/ Record(s) \/ Fail(s) \/ Serve(s)

-----------------------------------------------------------------------------
Deploy == [step : {"idle", "reading", "applying", "recording"}, release : Versions \cup {0}, pending : SUBSET Versions]
MTypeOK == deploy \in [Services -> Deploy] /\ serving \in [Services -> Versions \cup {0}]

\* schema_migrations never claims what the schema lacks, whoever raced, failed or was killed;
\* so no later deploy skips a file that was not applied.
RecordedIsApplied == recorded \subseteq schema

\* migrate.py:3, for the services that run it: no code serves ahead of its schema.
SchemaFirst == \A s \in Services : Files(serving[s]) \subseteq schema

=============================================================================
