------------------------------ MODULE EnvSync ------------------------------
(***************************************************************************)
(* railway-env.py sync: pushes the variables of the manifest, service by   *)
(* service, from the operator's .env to Railway.  Each service is read     *)
(* once, each variable that differs is one call; a key that .env has not,  *)
(* or a call that fails, ends the sync and leaves what it has pushed.  A   *)
(* key with nothing behind its `=` is a value like any other.              *)
(*                                                                         *)
(* A key of .env goes by the name of the variable it is pushed to.         *)
(***************************************************************************)
EXTENDS Naturals, Sequences

CONSTANTS
    Watched,        \* services of the manifest that are looked at
    Observed,       \* variables that are looked at
    Values          \* bound: [variable -> values its line in .env takes]

Unset == "unset"    \* no such line in .env, no such variable on Railway
Empty == ""         \* a line `KEY=`
Literal == "literal"

Broker == <<"REDIS_URL", "CELERY_BROKER_URL", "CELERY_RESULT_BACKEND">>
Tracing == <<"LANGSMITH_TRACING", "LANGSMITH_ENDPOINT", "LANGSMITH_PROJECT", "LANGSMITH_API_KEY">>

Manifest == [
    api |-> <<"DATABASE_URL">> \o Broker \o
            <<"GROQ_API_KEY", "ANTHROPIC_API_KEY", "SYSDESIGN_API_KEY", "SYSDESIGN_PUBLIC_URL",
              "EMBEDDING_MODEL", "OPENAI_API_KEY">> \o Tracing,
    worker |-> <<"DATABASE_URL">> \o Broker \o
               <<"APIFY_API_KEY", "EMBEDDING_MODEL", "OPENAI_API_KEY", "RATING_MODEL",
                 "GROQ_API_KEY", "ANTHROPIC_API_KEY">> \o Tracing,
    agent |-> <<"SYSDESIGN_API_URL", "SYSDESIGN_API_KEY", "ANTHROPIC_API_KEY">> \o Tracing,
    messaging |-> <<"DATABASE_URL", "REDIS_URL">>]

Kind(v) ==
    IF v = "LANGSMITH_API_KEY" THEN "env_optional"
    ELSE IF v \in {"REDIS_URL", "CELERY_BROKER_URL", "CELERY_RESULT_BACKEND", "SYSDESIGN_PUBLIC_URL",
                   "EMBEDDING_MODEL", "RATING_MODEL", "SYSDESIGN_API_URL",
                   "LANGSMITH_TRACING", "LANGSMITH_ENDPOINT", "LANGSMITH_PROJECT"} THEN "literal"
    ELSE "env"

Order == SelectSeq(<<"api", "worker", "agent", "messaging">>, LAMBDA svc : svc \in Watched)
Names(svc) == SelectSeq(Manifest[svc], LAMBDA v : v \in Observed)
NamesOf(svc) == {Names(svc)[i] : i \in DOMAIN Names(svc)}

Value(v) == IF Kind(v) = "literal" THEN {Literal, Unset} ELSE Values[v] \cup {Unset}
AnyValue == {Unset} \cup UNION {Value(v) : v \in Observed}

\* What is looked at is some of the manifest, and something of each service; what is
\* looked at of a sequence is a sequence, of these members.
ASSUME EnvAssumption ==
    /\ Watched \subseteq DOMAIN Manifest
    /\ Order \in Seq(Watched) /\ Order # <<>> /\ {Order[i] : i \in DOMAIN Order} = Watched
    /\ \A svc \in Watched : Names(svc) \in Seq(Observed) /\ Names(svc) # <<>>
    /\ \A v \in Observed : Kind(v) = "literal" \/ Unset \notin Values[v]

VARIABLES
    dotenv,         \* the .env of the operator
    provisioned,    \* services with an id
    remote,         \* [service -> variables on Railway]
    sync,           \* the sync under way
    clean           \* the last sync that pushed ran to its end, and nothing changed since

evars == <<dotenv, provisioned, remote, sync, clean>>

Idle == [step |-> "idle", svc |-> 0, name |-> 0,
         current |-> [v \in Observed |-> Unset]]

EInit ==
    /\ dotenv = [v \in Observed |-> Unset]
    /\ provisioned = Watched \ {"agent", "messaging"}
    /\ remote = [svc \in Watched |-> [v \in NamesOf(svc) |-> Unset]]
    /\ sync = Idle
    /\ clean = FALSE

-----------------------------------------------------------------------------
\* The operator edits .env, and creates a service and puts its id there.  A sync works on
\* the copy it read at its start, so an edit is as good as one after it.
Edit(v, value) ==
    /\ sync = Idle /\ Kind(v) # "literal"
    /\ dotenv' = [dotenv EXCEPT ![v] = value]
    /\ UNCHANGED <<provisioned, remote, sync, clean>>

Provision(svc) ==
    /\ sync = Idle /\ svc \notin provisioned
    /\ provisioned' = provisioned \cup {svc}
    /\ clean' = FALSE
    /\ UNCHANGED <<dotenv, remote, sync>>

\* A secret that lives in Railway alone is set in its dashboard.
SetByHand(svc, v, value) ==
    /\ sync = Idle /\ v \in NamesOf(svc) /\ Kind(v) = "env_optional" /\ value \notin {Unset, Empty}
    /\ remote' = [remote EXCEPT ![svc][v] = value]
    /\ UNCHANGED <<dotenv, provisioned, sync, clean>>

\* .env is read once, at the start.
Begin ==
    /\ sync = Idle
    /\ sync' = [Idle EXCEPT !.step = "service", !.svc = 1]
    /\ clean' = FALSE
    /\ UNCHANGED <<dotenv, provisioned, remote>>

Service == Order[sync.svc]
Name == Names(Service)[sync.name]
Resolved == IF Kind(Name) = "literal" THEN Literal ELSE dotenv[Name]

\* The next service, or the end.
Onward == IF sync.svc < Len(Order) THEN [sync EXCEPT !.step = "service", !.svc = @ + 1] ELSE Idle
LastOne == sync.svc = Len(Order)

SkipService ==
    /\ sync.step = "service" /\ Service \notin provisioned
    /\ sync' = Onward /\ clean' = LastOne
    /\ UNCHANGED <<dotenv, provisioned, remote>>

\* Mutant: the variables of the first service are taken for those of every service.
ReadServiceOnce ==
    /\ sync.step = "service" /\ Service \in provisioned
    /\ sync' = [sync EXCEPT !.step = "variable", !.name = 1,
                            !.current = IF sync.svc > 1 THEN @ ELSE [v \in Observed |->
                                IF v \in NamesOf(Service) THEN remote[Service][v] ELSE Unset]]
    /\ UNCHANGED <<dotenv, provisioned, remote, clean>>

ReadService ==
    /\ sync.step = "service" /\ Service \in provisioned
    /\ sync' = [sync EXCEPT !.step = "variable", !.name = 1,
                            !.current = [v \in Observed |->
                                IF v \in NamesOf(Service) THEN remote[Service][v] ELSE Unset]]
    /\ UNCHANGED <<dotenv, provisioned, remote, clean>>

Advance ==
    IF sync.name < Len(Names(Service))
    THEN sync' = [sync EXCEPT !.name = @ + 1] /\ clean' = FALSE
    ELSE sync' = Onward /\ clean' = LastOne

\* Left alone: an optional secret that .env does not have, or a value that is there.
Leave ==
    /\ sync.step = "variable"
    /\ \/ Resolved = Unset /\ Kind(Name) = "env_optional"
       \/ Resolved # Unset /\ sync.current[Name] = Resolved
    /\ Advance
    /\ UNCHANGED <<dotenv, provisioned, remote>>

\* variableUpsert, repeated after an HTTP error until it is answered.
Upsert ==
    /\ sync.step = "variable"
    /\ Resolved \notin {Unset, sync.current[Name]}
    /\ remote' = [remote EXCEPT ![Service][Name] = Resolved]
    /\ Advance
    /\ UNCHANGED <<dotenv, provisioned>>

\* A key that .env must have and has not ends the sync; a blank one does not.
Missing ==
    /\ sync.step = "variable" /\ Resolved = Unset /\ Kind(Name) = "env"
    /\ sync' = Idle
    /\ UNCHANGED <<dotenv, provisioned, remote, clean>>

\* The API refuses, or four attempts fail, the last one perhaps after it took effect.
Break(pushed) ==
    /\ sync.step # "idle"
    /\ sync' = Idle
    /\ remote' = IF pushed /\ sync.step = "variable" /\ Resolved # Unset
                 THEN [remote EXCEPT ![Service][Name] = Resolved] ELSE remote
    /\ UNCHANGED <<dotenv, provisioned, clean>>

ENext ==
    \/ \E v \in Observed : \E value \in Value(v) : Edit(v, value) \/ \E svc \in Watched : SetByHand(svc, v, value)
    \/ \E svc \in Watched : Provision(svc)
    \/ Begin \/ SkipService \/ ReadService \/ Leave \/ Upsert \/ Missing
    \/ \E pushed \in BOOLEAN : Break(pushed)

-----------------------------------------------------------------------------
\* Types; while a sync runs nothing counts as clean.
ETypeOK ==
    /\ dotenv \in [Observed -> AnyValue] /\ provisioned \subseteq Watched /\ clean \in BOOLEAN
    /\ DOMAIN remote = Watched
    /\ \A svc \in Watched : remote[svc] \in [NamesOf(svc) -> AnyValue]
    /\ sync \in [step : {"idle", "service", "variable"}, svc : Nat, name : Nat, current : [Observed -> AnyValue]]
    /\ sync.step = "idle" => sync = Idle
    /\ sync.step # "idle" => sync.svc \in DOMAIN Order /\ ~clean
    /\ sync.step = "variable" => Service \in provisioned /\ sync.name \in DOMAIN Names(Service)

\* "One key, two directions" (of api and agent, railway-env.py:140-141), and one database (of
\* api and messaging): the variable that two services share has one value on both whenever
\* the last sync ran to its end, however many before it were cut short.  (In between they
\* differ: the sync has no transaction.  And the value may be blank.)
SharedAgree ==
    clean => \A s, t \in provisioned : \A v \in NamesOf(s) \cap NamesOf(t) :
                 Kind(v) # "env_optional" => remote[s][v] = remote[t][v] /\ remote[s][v] # Unset

=============================================================================
