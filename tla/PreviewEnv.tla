----------------------------- MODULE PreviewEnv -----------------------------
(***************************************************************************)
(* The preview environment of one pull request: the GitHub workflow that   *)
(* reacts to the `preview` label, the Railway environment its `up` and     *)
(* `down` jobs create and delete (infra/railway-preview.py), and the       *)
(* digest agent, deployment and MCP credential that agentctl.py keeps      *)
(* beside it.                                                              *)
(*                                                                         *)
(* A job can fail between any two steps; a lookup and the creation that    *)
(* follows it are two steps.  Calls that only repeat a setting for another *)
(* service or trigger are one step: a later `up` makes all of them again.  *)
(* GitHub, Railway and the control plane are modelled from how the scripts *)
(* use them; `gql` sends a mutation again whose effect it does not know.   *)
(***************************************************************************)
EXTENDS Naturals, Sequences, FiniteSets

CONSTANTS
    Domains,      \* api domains Railway may assign
    NoDomain,     \* a job that has none
    Calls,        \* how often gql() sends one request at most
    MaxEvents,    \* bound: webhook events of the pull request
    Faults        \* {"call"} when a job may fail at any step, else {}

ASSUME PreviewAssumption ==
    /\ NoDomain \notin Domains
    /\ Calls \in Nat \ {0}
    /\ MaxEvents \in Nat
    /\ Faults \subseteq {"call"}

VARIABLES
    open, label,                        \* the pull request
    runs,                               \* workflow runs, in the order of their events
    env,                                \* Railway: the environments of the name pr-<n>
    agents, deployments, credentials    \* the control plane: what carries this PR's name or metadata

planeVars == <<agents, deployments, credentials>>
vars == <<open, label, runs, env, planeVars>>

UpStep == {"createEnv", "retarget", "domain", "deployServices", "credential", "findAgent",
           "createAgent", "updateAgent", "findDeployment", "createDeployment", "updateDeployment"}
DownStep == {"deleteEnv", "archiveDeployment", "archiveAgent", "deleteCredentials"}
Step == {"findEnv"} \cup UpStep \cup DownStep

Running == {n \in DOMAIN runs : runs[n].at \in Step}

Init ==
    /\ open = TRUE
    /\ label = FALSE
    /\ runs = <<>>
    /\ env = {}
    /\ agents = {}
    /\ deployments = {}
    /\ credentials = {}

-----------------------------------------------------------------------------
(***************************************************************************)
(* Webhook events.  Each one starts a workflow run, even when the `if` of  *)
(* both jobs is false and the run has nothing to do; all of them enter the *)
(* concurrency group of the pull request, where at most one run is pending *)
(* and a newer one cancels it.                                             *)
(***************************************************************************)

Trigger(kind) ==
    /\ Len(runs) < MaxEvents
    /\ runs' = Append([n \in DOMAIN runs |->
                          IF runs[n].at = "pending" THEN [runs[n] EXCEPT !.at = "cancelled"]
                                                    ELSE runs[n]],
                      [kind |-> kind, at |-> "pending", env |-> <<0, 0>>, url |-> NoDomain, seen |-> 0])
    /\ UNCHANGED <<env, planeVars>>

Labeled ==
    /\ ~label
    /\ label' = TRUE
    /\ Trigger("up")
    /\ UNCHANGED open

\* Mutant: only an open pull request is torn down.
UnlabeledWhileOpen ==
    /\ label
    /\ label' = FALSE
    /\ Trigger(IF open THEN "down" ELSE "skip")
    /\ UNCHANGED open

Unlabeled ==
    /\ label
    /\ label' = FALSE
    /\ Trigger("down")
    /\ UNCHANGED open

Closed ==
    /\ open
    /\ open' = FALSE
    /\ Trigger(IF label THEN "down" ELSE "skip")
    /\ UNCHANGED label

Reopened ==
    /\ ~open
    /\ open' = TRUE
    /\ Trigger(IF label THEN "up" ELSE "skip")
    /\ UNCHANGED label

\* Another label is put on or taken off: a run with nothing to do, in the same group.
OtherLabel ==
    /\ Trigger("skip")
    /\ UNCHANGED <<open, label>>

\* Mutant: no concurrency group.
StartAtOnce(n) ==
    /\ runs[n].at = "pending"
    /\ runs' = [runs EXCEPT ![n].at = IF runs[n].kind = "skip" THEN "done" ELSE "findEnv"]
    /\ UNCHANGED <<open, label, env, planeVars>>

Start(n) ==
    /\ runs[n].at = "pending"
    /\ Running = {}
    /\ runs' = [runs EXCEPT ![n].at = IF runs[n].kind = "skip" THEN "done" ELSE "findEnv"]
    /\ UNCHANGED <<open, label, env, planeVars>>

-----------------------------------------------------------------------------
(***************************************************************************)
(* The jobs.                                                               *)
(***************************************************************************)

At(n, step) == runs[n].at = step
Goto(n, step) == runs' = [runs EXCEPT ![n].at = step]
GotoSeen(n, step, id) == runs' = [runs EXCEPT ![n].at = step, ![n].seen = id]

\* The first of the name that Railway lists, in whatever order.
FindEnv(n) ==
    /\ At(n, "findEnv")
    /\ \/ /\ env = {}
          /\ Goto(n, IF runs[n].kind = "up" THEN "createEnv" ELSE "archiveDeployment")
       \/ \E e \in env :
            runs' = [runs EXCEPT ![n].at = IF runs[n].kind = "up" THEN "retarget" ELSE "deleteEnv",
                                 ![n].env = e.id]
    /\ UNCHANGED <<env, planeVars>>

\* A clone of production: triggers on main, no api domain, nothing deployed.  `made` is how
\* many environments the call that made it has made.
Clone(id, made) == [id |-> id, made |-> made, branch |-> "main", domains |-> {}, built |-> "none"]

\* A request that ends in an HTTP error may have made an environment too; the job goes on
\* with the one that its last request answers with.
CreateEnv(n) ==
    /\ At(n, "createEnv")
    /\ \E k \in 1..Calls :
        /\ env' = env \cup {Clone(<<n, c>>, k) : c \in 1..k}
        /\ runs' = [runs EXCEPT ![n].at = "retarget", ![n].env = <<n, k>>]
    /\ UNCHANGED planeVars

Mine(n, e) == e.id = runs[n].env

\* deploymentTriggerUpdate and serviceInstanceUpdate on api and worker.
Retarget(n) ==
    /\ At(n, "retarget")
    /\ env' = {IF Mine(n, e) THEN [e EXCEPT !.branch = "pr"] ELSE e : e \in env}
    /\ Goto(n, "domain")
    /\ UNCHANGED planeVars

Taken == UNION {e.domains : e \in env}

\* The first domain the environment has, or the one that the last request for one answers
\* with; it becomes the job's PREVIEW_URL.
EnsureDomain(n) ==
    /\ At(n, "domain")
    /\ \E e \in env, new \in SUBSET (Domains \ Taken) :
        /\ Mine(n, e)
        /\ IF e.domains = {} THEN new # {} /\ Cardinality(new) <= Calls ELSE new = {}
        /\ \E d \in e.domains \cup new :
             /\ env' = (env \ {e}) \cup {[e EXCEPT !.domains = @ \cup new]}
             /\ runs' = [runs EXCEPT ![n].at = "deployServices", ![n].url = d]
    /\ UNCHANGED planeVars

DeployServices(n) ==
    /\ At(n, "deployServices")
    /\ env' = {IF Mine(n, e) THEN [e EXCEPT !.built = e.branch] ELSE e : e \in env}
    /\ Goto(n, "credential")
    /\ UNCHANGED planeVars

EnsureCredential(n) ==
    /\ At(n, "credential")
    /\ credentials' = credentials \cup {runs[n].url}
    /\ Goto(n, "findAgent")
    /\ UNCHANGED <<env, agents, deployments>>

FindAgent(n) ==
    /\ At(n, "findAgent")
    /\ \/ agents = {} /\ Goto(n, "createAgent")
       \/ \E a \in agents : GotoSeen(n, "updateAgent", a.id)
    /\ UNCHANGED <<env, planeVars>>

CreateAgent(n) ==
    /\ At(n, "createAgent")
    /\ agents' = agents \cup {[id |-> n, url |-> runs[n].url, version |-> 1]}
    /\ GotoSeen(n, "findDeployment", n)
    /\ UNCHANGED <<env, deployments, credentials>>

\* A new version; the MCP URL is preserved by omission.
UpdateAgent(n) ==
    /\ At(n, "updateAgent")
    /\ \E a \in agents :
        /\ a.id = runs[n].seen
        /\ agents' = (agents \ {a}) \cup {[a EXCEPT !.version = @ + 1]}
    /\ Goto(n, "findDeployment")
    /\ UNCHANGED <<env, deployments, credentials>>

FindDeployment(n) ==
    /\ At(n, "findDeployment")
    /\ Goto(n, IF deployments = {} THEN "createDeployment" ELSE "updateDeployment")
    /\ UNCHANGED <<env, planeVars>>

CreateDeployment(n) ==
    /\ At(n, "createDeployment")
    /\ \E a \in agents :
        /\ a.id = runs[n].seen
        /\ deployments' = deployments \cup
             {[id |-> n, agent |-> a.id, pinned |-> a.version, url |-> runs[n].url]}
    /\ Goto(n, "done")
    /\ UNCHANGED <<env, agents, credentials>>

\* Mutant: the deployment keeps the version it was created with.
UpdateDeploymentMetadata(n) ==
    /\ At(n, "updateDeployment")
    /\ \E a \in agents, d \in deployments :
        /\ a.id = runs[n].seen
        /\ deployments' = (deployments \ {d}) \cup {[d EXCEPT !.agent = a.id]}
    /\ Goto(n, "done")
    /\ UNCHANGED <<env, agents, credentials>>

\* Re-pinned to the agent's latest version; the kickoff, with its URL, is preserved.
UpdateDeployment(n) ==
    /\ At(n, "updateDeployment")
    /\ \E a \in agents, d \in deployments :
        /\ a.id = runs[n].seen
        /\ deployments' = (deployments \ {d}) \cup
             {[d EXCEPT !.agent = a.id, !.pinned = a.version]}
    /\ Goto(n, "done")
    /\ UNCHANGED <<env, agents, credentials>>

\* The one it found; another of the name stays.
DeleteEnv(n) ==
    /\ At(n, "deleteEnv")
    /\ env' = {e \in env : ~Mine(n, e)}
    /\ Goto(n, "archiveDeployment")
    /\ UNCHANGED planeVars

\* The first of the name, if there is one.
ArchiveDeployment(n) ==
    /\ At(n, "archiveDeployment")
    /\ \/ deployments = {} /\ UNCHANGED deployments
       \/ \E d \in deployments : deployments' = deployments \ {d}
    /\ Goto(n, "archiveAgent")
    /\ UNCHANGED <<env, agents, credentials>>

ArchiveAgent(n) ==
    /\ At(n, "archiveAgent")
    /\ \/ agents = {} /\ UNCHANGED agents
       \/ \E a \in agents : agents' = agents \ {a}
    /\ Goto(n, "deleteCredentials")
    /\ UNCHANGED <<env, deployments, credentials>>

\* Mutant: only the URL of the last `up` is cleaned up.
DeleteLastCredential(n) ==
    /\ At(n, "deleteCredentials")
    /\ credentials' = credentials \ {runs[m].url : m \in {k \in 1..n : k + 1 = n}}
    /\ Goto(n, "done")
    /\ UNCHANGED <<env, agents, deployments>>

\* Every credential with the PR's number in its metadata, whatever its URL.
DeleteCredentials(n) ==
    /\ At(n, "deleteCredentials")
    /\ credentials' = {}
    /\ Goto(n, "done")
    /\ UNCHANGED <<env, agents, deployments>>

\* A call raises, a script exits, or the runner is lost: the steps that remain are skipped.
Fail(n) ==
    /\ "call" \in Faults
    /\ runs[n].at \in Step
    /\ Goto(n, "failed")
    /\ UNCHANGED <<env, planeVars>>

Job(n) ==
    /\ \/ FindEnv(n) \/ CreateEnv(n) \/ Retarget(n) \/ EnsureDomain(n) \/ DeployServices(n)
       \/ EnsureCredential(n) \/ FindAgent(n) \/ CreateAgent(n) \/ UpdateAgent(n)
       \/ FindDeployment(n) \/ CreateDeployment(n) \/ UpdateDeployment(n)
       \/ DeleteEnv(n) \/ ArchiveDeployment(n) \/ ArchiveAgent(n) \/ DeleteCredentials(n)
       \/ Fail(n)
    /\ UNCHANGED <<open, label>>

Next ==
    \/ Labeled \/ Unlabeled \/ Closed \/ Reopened \/ OtherLabel
    \/ \E n \in DOMAIN runs : Start(n) \/ Job(n)

Spec == Init /\ [][Next]_vars

-----------------------------------------------------------------------------
(***************************************************************************)
(* Properties.                                                             *)
(***************************************************************************)

Finished == {"cancelled", "failed", "done"}

\* Whatever environment is left is one of several that a repeated environmentCreate made,
\* another of which is gone.
OnlySurplus == \A e \in env : \E c \in 1..e.made : \A f \in env : f.id # <<e.id[1], c>>

\* Nothing of the pull request is left in the control plane, and in Railway nothing that
\* was asked for once.
Nothing ==
    /\ OnlySurplus
    /\ agents = {} /\ deployments = {} /\ credentials = {}

Settled == \A n \in DOMAIN runs : runs[n].at \in Finished

\* The look-up and the creation that follows it are never interleaved with another
\* job's, so a pull request has one agent and one deployment of its name
\* (docs/module-5.md: "no guessing which of several look-alikes fired"), and no two jobs
\* make an environment each: look-alikes come from one repeated environmentCreate only.
OneOfEach ==
    /\ \A e, f \in env : e.id[1] = f.id[1]
    /\ Cardinality(agents) <= 1
    /\ Cardinality(deployments) <= 1

\* An `up` that ends well leaves the services of an environment built from the PR's branch
\* under the URL it announced, whichever look-alike it came upon, a credential
\* for the URL it announced and a deployment pinned to the agent's newest version, however
\* many earlier jobs stopped half way.
UpEndsWell ==
    [][\A n \in DOMAIN runs :
        (runs[n].kind = "up" /\ runs[n].at # "done" /\ runs'[n].at = "done") =>
            /\ \E e \in env' : e.built = "pr" /\ runs[n].url \in e.domains
            /\ runs[n].url \in credentials'
            /\ \E a \in agents', d \in deployments' : d.agent = a.id /\ d.pinned = a.version]_vars

\* A `down` that ends well leaves nothing of the pull request behind in the control plane,
\* whatever the jobs before it left (an agent without a deployment, credentials for several
\* URLs), and no environment but the surplus of a repeated environmentCreate.
DownLeavesNothing ==
    [][\A n \in DOMAIN runs :
        (runs[n].kind = "down" /\ runs[n].at # "done" /\ runs'[n].at = "done") =>
            Nothing']_vars

\* When no job is left to run and the label is off, something besides such a surplus remains
\* only if the latest `down` that could have removed it failed or was cancelled.
LeakedOnlyByLoss ==
    Settled /\ ~label /\ ~Nothing =>
        \E n \in DOMAIN runs :
            /\ runs[n].kind = "down"
            /\ runs[n].at \in {"failed", "cancelled"}
            /\ \A m \in (n + 1)..Len(runs) : ~(runs[m].kind = "down" /\ runs[m].at = "done")

-----------------------------------------------------------------------------
(***************************************************************************)
(* The inductive invariant behind the properties above.                    *)
(***************************************************************************)
Url == Domains \cup {NoDomain}

\* Runs, the environment and the control plane have their types.
TypeOK ==
    /\ open \in BOOLEAN /\ label \in BOOLEAN
    /\ runs \in Seq([kind : {"up", "down", "skip"}, at : {"pending"} \cup Step \cup Finished,
                     env : Nat \X Nat, url : Url, seen : Nat])
    /\ env \subseteq [id : Nat \X Nat, made : Nat, branch : {"main", "pr"}, domains : SUBSET Domains,
                     built : {"none", "main", "pr"}]
    /\ agents \subseteq [id : Nat, url : Url, version : Nat]
    /\ deployments \subseteq [id : Nat, agent : Nat, pinned : Nat, url : Url]
    /\ credentials \subseteq Url

AtMostOne(S) == \A x, y \in S : x = y

\* The environments there are have different ids, and one environmentCreate made them all.
EnvInv ==
    /\ \A e \in env : e.id[2] \in 1..e.made
    /\ \A e, f \in env : e.id[1] = f.id[1] /\ e.made = f.made /\ (e.id = f.id => e = f)

OneInv == EnvInv /\ AtMostOne(agents) /\ AtMostOne(deployments)

\* The concurrency group: only the newest run is pending, what comes after a running one
\* has not run, and what a run executes is of its kind.
GroupInv ==
    \A n \in DOMAIN runs :
        /\ At(n, "pending") => n = Len(runs)
        /\ runs[n].at \in Step => \A m \in DOMAIN runs : m > n => runs[m].at \in {"pending", "cancelled"}
        /\ runs[n].at \in UpStep => runs[n].kind = "up"
        /\ runs[n].at \in DownStep => runs[n].kind = "down"
        /\ runs[n].kind = "skip" => runs[n].at \notin Step

AgentKnown == {"updateAgent", "findDeployment", "createDeployment", "updateDeployment"}
Credentialed == {"findAgent", "createAgent"} \cup AgentKnown
Built == {"credential"} \cup Credentialed
Addressed == {"deployServices"} \cup Built
Retargeted == {"domain"} \cup Addressed

\* How far the environment is that an `up` job works on.
EnvKnown(n) ==
    \E e \in env :
        /\ Mine(n, e)
        /\ runs[n].at \in Retargeted => e.branch = "pr"
        /\ runs[n].at \in Addressed => runs[n].url \in e.domains
        /\ runs[n].at \in Built => e.built = "pr"

\* What an `up` job has looked up or set is still so at each of its later steps: nobody
\* else touches the environment or the control plane while it runs.
UpKnows(n) ==
    /\ At(n, "createEnv") => env = {}
    /\ runs[n].at \in {"retarget"} \cup Retargeted => EnvKnown(n)
    /\ runs[n].at \in Credentialed => runs[n].url \in credentials
    /\ At(n, "createAgent") => agents = {}
    /\ runs[n].at \in AgentKnown => agents # {} /\ \A a \in agents : a.id = runs[n].seen
    /\ At(n, "createDeployment") => deployments = {}
    /\ At(n, "updateDeployment") => deployments # {}

\* What a `down` job has removed stays removed until it ends.
DownKnows(n) ==
    /\ At(n, "deleteEnv") => \E e \in env : Mine(n, e)
    /\ runs[n].at \in DownStep \ {"deleteEnv"} => OnlySurplus
    /\ runs[n].at \in {"archiveAgent", "deleteCredentials"} => deployments = {}
    /\ At(n, "deleteCredentials") => agents = {}

JobInv == \A n \in DOMAIN runs : UpKnows(n) /\ DownKnows(n)

\* With the label off, either it was never on, or a `down` was asked for when it was taken
\* off and only runs with nothing to do have come since.
LabelInv ==
    ~label =>
        \/ \A n \in DOMAIN runs : runs[n].kind # "up"
        \/ \E u \in DOMAIN runs : /\ runs[u].kind = "down"
                                  /\ \A m \in DOMAIN runs : m > u => runs[m].kind = "skip"

\* Only an `up` makes anything, and a `down` that ended well is undone only by a later run.
CleanInv ==
    /\ (\A n \in DOMAIN runs : runs[n].kind # "up") => Nothing
    /\ \A n \in DOMAIN runs :
           /\ runs[n].kind = "down" /\ At(n, "done")
           /\ \A m \in DOMAIN runs : m > n => runs[m].kind = "skip"
           => Nothing

\* The conjunction every step preserves.
PreviewInv ==
    TypeOK /\ OneInv /\ GroupInv /\ JobInv /\ LabelInv /\ CleanInv

=============================================================================
