-------------------------- MODULE PreviewEnv_proofs --------------------------
(***************************************************************************)
(* Proofs about PreviewEnv, for every set of domains, any number of        *)
(* webhook events, and whichever calls of the jobs fail.                   *)
(***************************************************************************)
EXTENDS PreviewEnv, FiniteSetTheorems, SequenceTheorems, TLAPS

Phase == {"pending"} \cup Step \cup Finished
Run == [kind : {"up", "down", "skip"}, at : Phase, env : Nat \X Nat, url : Url, seen : Nat]
Environment == [id : Nat \X Nat, made : Nat, branch : {"main", "pr"}, domains : SUBSET Domains,
                built : {"none", "main", "pr"}]
Agent == [id : Nat, url : Url, version : Nat]
Deployment == [id : Nat, agent : Nat, pinned : Nat, url : Url]

\* The members of the small sets, spelled out once.
LEMMA RunTypes ==
    ASSUME TypeOK
    PROVE  /\ runs \in Seq(Run) /\ Len(runs) \in Nat /\ DOMAIN runs = 1..Len(runs)
           /\ \A n \in DOMAIN runs :
                 /\ n \in Nat /\ 1 <= n /\ n <= Len(runs) /\ runs[n] \in Run
                 /\ runs[n].kind \in {"up", "down", "skip"} /\ runs[n].at \in Phase
                 /\ runs[n].env \in Nat \X Nat /\ runs[n].url \in Url /\ runs[n].seen \in Nat
<1>1. runs \in Seq(Run)
    BY DEF TypeOK, Run, Phase
<1>2. Len(runs) \in Nat /\ DOMAIN runs = 1..Len(runs) /\ \A n \in 1..Len(runs) : runs[n] \in Run
    BY <1>1
<1>. QED
    BY <1>1, <1>2 DEF Run

\* One run's record is rewritten: what the others see.
LEMMA RunMoves ==
    ASSUME TypeOK, NEW n \in DOMAIN runs, NEW r \in Run, r.kind = runs[n].kind,
           runs' = [runs EXCEPT ![n] = r]
    PROVE  /\ runs' \in Seq(Run) /\ Len(runs') = Len(runs) /\ DOMAIN runs' = DOMAIN runs
           /\ runs'[n] = r
           /\ \A m \in DOMAIN runs : m # n => runs'[m] = runs[m]
           /\ \A m \in DOMAIN runs : runs'[m].kind = runs[m].kind
<1>1. runs \in Seq(Run) /\ DOMAIN runs = 1..Len(runs)
    BY RunTypes
<1>2. /\ [runs EXCEPT ![n] = r] \in Seq(Run)
      /\ Len([runs EXCEPT ![n] = r]) = Len(runs)
      /\ \A j \in 1..Len(runs) : [runs EXCEPT ![n] = r][j] = IF j = n THEN r ELSE runs[j]
    BY <1>1, ExceptSeq
<1>3. DOMAIN runs' = 1..Len(runs')
    BY <1>2
<1>. QED
    BY <1>1, <1>2, <1>3

\* While a job runs nothing else does: what is older has ended, what is newer waits or was
\* cancelled.
LEMMA OthersIdle ==
    ASSUME PreviewInv, NEW n \in DOMAIN runs, runs[n].at \in Step
    PROVE  \A m \in DOMAIN runs :
              /\ m > n => runs[m].at \in {"pending", "cancelled"}
              /\ m < n => runs[m].at \in Finished
              /\ m # n => runs[m].at \notin Step
<1>1. TypeOK /\ GroupInv
    BY DEF PreviewInv
<1>2. \A m \in DOMAIN runs : m > n => runs[m].at \in {"pending", "cancelled"}
    BY <1>1 DEF GroupInv
<1>3. \A m \in DOMAIN runs : m < n => runs[m].at \in Finished
    <2>. SUFFICES ASSUME NEW m \in DOMAIN runs, m < n PROVE runs[m].at \in Finished
        OBVIOUS
    <2>1. m \in Nat /\ n \in Nat /\ n > m /\ n <= Len(runs) /\ Len(runs) \in Nat /\ runs[m].at \in Phase
        BY <1>1, RunTypes
    <2>2. runs[m].at \notin Step
        BY <1>1, <2>1 DEF GroupInv, Step, UpStep, DownStep
    <2>3. runs[m].at # "pending"
        BY <1>1, <2>1 DEF GroupInv, At
    <2>. QED
        BY <2>1, <2>2, <2>3 DEF Phase
<1>4. \A m \in DOMAIN runs : m # n => m > n \/ m < n
    BY <1>1, RunTypes
<1>5. Step \cap Finished = {} /\ "pending" \notin Step /\ "cancelled" \notin Step
    BY DEF Step, UpStep, DownStep, Finished
<1>. QED
    BY <1>2, <1>3, <1>4, <1>5

LEMMA InitInvariant == Init => PreviewInv
<1>. SUFFICES ASSUME Init PROVE PreviewInv
    OBVIOUS
<1>1. DOMAIN runs = {}
    BY DEF Init
<1>2. TypeOK
    <2>1. runs \in Seq(Run)
        BY DEF Init
    <2>. QED
        BY <2>1 DEF Init, TypeOK, Run, Phase
<1>3. OneInv
    BY DEF Init, OneInv, EnvInv, AtMostOne
<1>4. GroupInv /\ JobInv /\ LabelInv
    BY <1>1 DEF GroupInv, JobInv, LabelInv
<1>5. CleanInv
    BY <1>1 DEF Init, CleanInv, Nothing, OnlySurplus
<1>. QED
    BY <1>2, <1>3, <1>4, <1>5 DEF PreviewInv

\* A step of one job preserves the invariant when what the job itself knows stays true:
\* the other runs stand still, so nothing else can be wrong about them.
LEMMA JobKeeps ==
    ASSUME PreviewInv, NEW n \in DOMAIN runs, runs[n].at \in Step, UNCHANGED <<open, label>>,
           NEW r \in Run, r.kind = runs[n].kind, runs' = [runs EXCEPT ![n] = r],
           r.at \in Step \cup {"failed", "done"},
           r.at \in UpStep => r.kind = "up",
           r.at \in DownStep => r.kind = "down",
           env' \subseteq Environment, agents' \subseteq Agent, deployments' \subseteq Deployment,
           credentials' \subseteq Url,
           OneInv', UpKnows(n)', DownKnows(n)',
           r.kind = "down" /\ Nothing => Nothing',
           r.kind = "down" /\ r.at = "done" => Nothing'
    PROVE  PreviewInv'
<1>1. TypeOK /\ GroupInv /\ JobInv /\ LabelInv /\ CleanInv
    BY DEF PreviewInv
<1>2. /\ runs' \in Seq(Run) /\ Len(runs') = Len(runs) /\ DOMAIN runs' = DOMAIN runs
      /\ runs'[n] = r
      /\ \A m \in DOMAIN runs : m # n => runs'[m] = runs[m]
      /\ \A m \in DOMAIN runs : runs'[m].kind = runs[m].kind
    BY <1>1, RunMoves
<1>3. \A m \in DOMAIN runs :
         /\ m > n => runs[m].at \in {"pending", "cancelled"}
         /\ m < n => runs[m].at \in Finished
         /\ m # n => runs[m].at \notin Step
    BY OthersIdle
<1>4. \A m \in DOMAIN runs : m \in Nat /\ runs[m].at \in Phase
    BY <1>1, RunTypes
<1>5. /\ Step = {"findEnv"} \cup UpStep \cup DownStep
      /\ "pending" \notin Step /\ "failed" \notin Step /\ "done" \notin Step
      /\ "pending" \notin UpStep \cup DownStep /\ "failed" \notin UpStep \cup DownStep
      /\ "done" \notin UpStep \cup DownStep
    BY DEF Step, UpStep, DownStep
<1>6. TypeOK'
    BY <1>1, <1>2 DEF TypeOK, Run, Phase, Environment, Agent, Deployment
<1>7. GroupInv'
    <2>. SUFFICES ASSUME NEW m \in DOMAIN runs
                  PROVE  /\ runs'[m].at = "pending" => m = Len(runs)
                         /\ runs'[m].at \in Step => \A k \in DOMAIN runs : k > m => runs'[k].at \in {"pending", "cancelled"}
                         /\ runs'[m].at \in UpStep => runs'[m].kind = "up"
                         /\ runs'[m].at \in DownStep => runs'[m].kind = "down"
                         /\ runs'[m].kind = "skip" => runs'[m].at \notin Step
        BY <1>2 DEF GroupInv, At
    <2>1. CASE m = n
        <3>1. r.at # "pending" /\ r.kind # "skip"
            BY <1>1, <1>5 DEF GroupInv
        <3>2. \A k \in DOMAIN runs : k > n => k # n
            BY <1>4
        <3>. QED
            BY <1>2, <1>3, <1>4, <2>1, <3>1, <3>2
    <2>2. CASE m # n
        <3>1. runs'[m] = runs[m] /\ runs[m].at \notin Step
            BY <1>2, <1>3, <2>2
        <3>. QED
            BY <1>1, <1>5, <3>1 DEF GroupInv, At
    <2>. QED
        BY <2>1, <2>2
<1>8. JobInv'
    <2>. SUFFICES ASSUME NEW m \in DOMAIN runs
                  PROVE  UpKnows(m)' /\ DownKnows(m)'
        BY <1>2 DEF JobInv
    <2>1. CASE m # n
        <3>1. runs'[m].at \notin UpStep /\ runs'[m].at \notin DownStep
            BY <1>2, <1>3, <1>5, <2>1
        <3>. QED
            BY <3>1 DEF UpKnows, DownKnows, At, Retargeted, Addressed, Built, Credentialed, AgentKnown,
               UpStep, DownStep
    <2>. QED
        BY <2>1
<1>9. LabelInv'
    BY <1>1, <1>2 DEF LabelInv
<1>10. CleanInv'
    <2>1. r.kind \in {"up", "down"}
        BY <1>1, <1>5 DEF GroupInv, Run
    <2>2. ASSUME \A m \in DOMAIN runs : runs'[m].kind # "up"
          PROVE  Nothing'
        <3>1. Nothing /\ r.kind = "down"
            BY <1>1, <1>2, <2>1, <2>2 DEF CleanInv
        <3>. QED
            BY <3>1
    <2>3. ASSUME NEW k \in DOMAIN runs, runs'[k].kind = "down", runs'[k].at = "done",
                 \A m \in DOMAIN runs : m > k => runs'[m].kind = "skip"
          PROVE  Nothing'
        <3>1. CASE k = n
            BY <1>2, <2>3, <3>1
        <3>2. CASE k > n
            BY <1>2, <1>3, <1>4, <2>3, <3>2
        <3>3. CASE k < n
            BY <1>2, <1>4, <2>1, <2>3, <3>3
        <3>. QED
            BY <1>4, <3>1, <3>2, <3>3
    <2>. QED
        BY <1>2, <2>2, <2>3 DEF CleanInv, At
<1>. QED
    BY <1>6, <1>7, <1>8, <1>9, <1>10 DEF PreviewInv

\* What a job may rely on at its own step.
LEMMA Here ==
    ASSUME PreviewInv, NEW n \in DOMAIN runs
    PROVE  /\ runs[n] \in Run /\ runs[n].env \in Nat \X Nat /\ runs[n].url \in Url /\ runs[n].seen \in Nat
           /\ env \subseteq Environment /\ agents \subseteq Agent
           /\ deployments \subseteq Deployment /\ credentials \subseteq Url
           /\ EnvInv /\ AtMostOne(agents) /\ AtMostOne(deployments)
           /\ UpKnows(n) /\ DownKnows(n)
           /\ runs[n].at \in UpStep => runs[n].kind = "up"
           /\ runs[n].at \in DownStep => runs[n].kind = "down"
           /\ \A step \in Phase : /\ [runs[n] EXCEPT !.at = step] \in Run
                                  /\ [runs[n] EXCEPT !.at = step].kind = runs[n].kind
                                  /\ [runs[n] EXCEPT !.at = step].at = step
                                  /\ [runs[n] EXCEPT !.at = step].env = runs[n].env
                                  /\ [runs[n] EXCEPT !.at = step].url = runs[n].url
                                  /\ [runs[n] EXCEPT !.at = step].seen = runs[n].seen
<1>1. TypeOK /\ OneInv /\ GroupInv /\ JobInv
    BY DEF PreviewInv
<1>2. runs[n] \in Run /\ runs[n].env \in Nat \X Nat /\ runs[n].url \in Url /\ runs[n].seen \in Nat
    BY <1>1, RunTypes
<1>3. \A step \in Phase : /\ [runs[n] EXCEPT !.at = step] \in Run
                          /\ [runs[n] EXCEPT !.at = step].kind = runs[n].kind
                          /\ [runs[n] EXCEPT !.at = step].at = step
                          /\ [runs[n] EXCEPT !.at = step].env = runs[n].env
                          /\ [runs[n] EXCEPT !.at = step].url = runs[n].url
                          /\ [runs[n] EXCEPT !.at = step].seen = runs[n].seen
    BY <1>2 DEF Run
<1>. QED
    BY <1>1, <1>2, <1>3 DEF TypeOK, OneInv, GroupInv, JobInv, Environment, Agent, Deployment

\* An `up` job removes nothing, so it owes nothing to a `down`.
LEMMA UpKeeps ==
    ASSUME PreviewInv, NEW n \in DOMAIN runs, runs[n].at \in UpStep, UNCHANGED <<open, label>>,
           NEW r \in Run, r.kind = runs[n].kind, runs' = [runs EXCEPT ![n] = r],
           r.at \in UpStep \cup {"done"},
           env' \subseteq Environment, agents' \subseteq Agent, deployments' \subseteq Deployment,
           credentials' \subseteq Url,
           OneInv', UpKnows(n)'
    PROVE  PreviewInv'
<1>1. r.kind = "up"
    BY Here
<1>2. runs'[n] = r
    BY RunMoves DEF PreviewInv
<1>3. DownKnows(n)'
    BY <1>2 DEF DownKnows, At, UpStep, DownStep
<1>4. r.at \in Step \cup {"failed", "done"} /\ runs[n].at \in Step /\ r.at \notin DownStep
    BY DEF Step, UpStep, DownStep
<1>. QED
    BY <1>1, <1>3, <1>4, JobKeeps

\* Steps that leave the environments alone.
LEMMA SameEnv ==
    ASSUME PreviewInv, UNCHANGED env
    PROVE  env' \subseteq Environment /\ EnvInv' /\ (OnlySurplus => OnlySurplus')
BY DEF PreviewInv, TypeOK, Environment, OneInv, EnvInv, OnlySurplus

\* Steps that change what is set up in the environments, and neither make nor delete one.
LEMMA Revised ==
    ASSUME PreviewInv, NEW f \in [env -> Environment], env' = {f[e] : e \in env},
           \A e \in env : f[e].id = e.id /\ f[e].made = e.made
    PROVE  env' \subseteq Environment /\ EnvInv'
<1>1. EnvInv
    BY DEF PreviewInv, OneInv
<1>2. \A e \in env : f[e] \in Environment
    OBVIOUS
<1>3. \A e \in env' : e.id[2] \in 1..e.made
    BY <1>1 DEF EnvInv
<1>4. \A e, g \in env' : e.id[1] = g.id[1] /\ e.made = g.made /\ (e.id = g.id => e = g)
    <2>. SUFFICES ASSUME NEW e \in env, NEW g \in env
                  PROVE  f[e].id[1] = f[g].id[1] /\ f[e].made = f[g].made /\ (f[e].id = f[g].id => f[e] = f[g])
        OBVIOUS
    <2>1. e.id[1] = g.id[1] /\ e.made = g.made /\ (e.id = g.id => e = g)
        BY <1>1 DEF EnvInv
    <2>. QED
        BY <2>1
<1>. QED
    BY <1>2, <1>3, <1>4 DEF EnvInv

LEMMA FindEnvInvariant ==
    ASSUME PreviewInv, NEW n \in DOMAIN runs, FindEnv(n), UNCHANGED <<open, label>>
    PROVE  PreviewInv'
<1>1. /\ runs[n].at = "findEnv" /\ runs[n].at \in Step /\ UNCHANGED <<env, planeVars>>
    BY DEF FindEnv, At, Step
<1>2. runs[n].kind \in {"up", "down"} /\ runs[n] \in Run /\ env \subseteq Environment
    BY <1>1, RunTypes, Here DEF PreviewInv, GroupInv
<1>3. PICK r \in Run :
         /\ runs' = [runs EXCEPT ![n] = r] /\ r.kind = runs[n].kind
         /\ \/ env = {} /\ r.at = IF r.kind = "up" THEN "createEnv" ELSE "archiveDeployment"
            \/ /\ \E e \in env : e.id = r.env
               /\ r.at = IF r.kind = "up" THEN "retarget" ELSE "deleteEnv"
    <2>1. CASE env = {} /\ Goto(n, IF runs[n].kind = "up" THEN "createEnv" ELSE "archiveDeployment")
        <3>. DEFINE r == [runs[n] EXCEPT !.at = IF runs[n].kind = "up" THEN "createEnv" ELSE "archiveDeployment"]
        <3>1. r \in Run /\ r.kind = runs[n].kind
              /\ r.at = IF runs[n].kind = "up" THEN "createEnv" ELSE "archiveDeployment"
            BY <1>2 DEF Run, Phase, Step, UpStep, DownStep
        <3>2. runs' = [runs EXCEPT ![n] = r]
            BY <2>1 DEF Goto
        <3>. QED
            BY <2>1, <3>1, <3>2
    <2>2. ASSUME NEW e \in env,
                 runs' = [runs EXCEPT ![n].at = IF runs[n].kind = "up" THEN "retarget" ELSE "deleteEnv",
                                      ![n].env = e.id]
          PROVE  \E r \in Run :
                    /\ runs' = [runs EXCEPT ![n] = r] /\ r.kind = runs[n].kind
                    /\ \E g \in env : g.id = r.env
                    /\ r.at = IF r.kind = "up" THEN "retarget" ELSE "deleteEnv"
        <3>. DEFINE r == [runs[n] EXCEPT !.at = IF runs[n].kind = "up" THEN "retarget" ELSE "deleteEnv",
                                         !.env = e.id]
        <3>1. e.id \in Nat \X Nat
            BY <1>2 DEF Environment
        <3>2. r \in Run /\ r.kind = runs[n].kind /\ r.env = e.id
              /\ r.at = IF runs[n].kind = "up" THEN "retarget" ELSE "deleteEnv"
            BY <1>2, <3>1 DEF Run, Phase, Step, UpStep, DownStep
        <3>3. runs' = [runs EXCEPT ![n] = r]
            BY <2>2
        <3>. HIDE DEF r
        <3>. QED
            BY <3>2, <3>3
    <2>. QED
        BY <2>1, <2>2 DEF FindEnv
<1>4. runs'[n] = r
    BY <1>3, RunMoves DEF PreviewInv
<1>5. /\ r.at \in {"createEnv", "retarget", "archiveDeployment", "deleteEnv"}
      /\ r.at \in {"createEnv", "retarget"} <=> r.kind = "up"
      /\ r.at \in {"createEnv", "archiveDeployment"} => env = {}
      /\ r.at \in {"retarget", "deleteEnv"} => \E e \in env : e.id = r.env
    BY <1>2, <1>3
<1>6. EnvKnown(n)' \/ r.at # "retarget"
    BY <1>1, <1>4, <1>5 DEF EnvKnown, Mine, Retargeted, Addressed, Built, Credentialed, AgentKnown
<1>7. UpKnows(n)' /\ DownKnows(n)'
    BY <1>1, <1>4, <1>5, <1>6 DEF UpKnows, DownKnows, At, Mine, OnlySurplus, Retargeted, Addressed, Built,
       Credentialed, AgentKnown, DownStep
<1>8. /\ r.at \in UpStep => r.kind = "up"
      /\ r.at \in DownStep => r.kind = "down"
      /\ r.at # "done" /\ r.at \in Step
    BY <1>2, <1>3, <1>5 DEF Step, UpStep, DownStep
<1>9. /\ env' \subseteq Environment /\ agents' \subseteq Agent /\ deployments' \subseteq Deployment
      /\ credentials' \subseteq Url /\ OneInv'
    BY <1>1, Here, SameEnv DEF planeVars, OneInv, AtMostOne
<1>10. Nothing => Nothing'
    BY <1>1, SameEnv DEF Nothing, planeVars
<1>. QED
    BY <1>1, <1>3, <1>7, <1>8, <1>9, <1>10, JobKeeps

LEMMA FailInvariant ==
    ASSUME PreviewInv, NEW n \in DOMAIN runs, Fail(n), UNCHANGED <<open, label>>
    PROVE  PreviewInv'
<1>. DEFINE r == [runs[n] EXCEPT !.at = "failed"]
<1>1. /\ runs[n].at \in Step /\ runs' = [runs EXCEPT ![n] = r] /\ UNCHANGED <<env, planeVars>>
    BY DEF Fail, Goto
<1>2. r \in Run /\ r.kind = runs[n].kind /\ r.at = "failed"
    BY Here DEF Phase, Finished
<1>3. runs'[n] = r
    BY <1>1, <1>2, RunMoves DEF PreviewInv
<1>4. UpKnows(n)' /\ DownKnows(n)'
    BY <1>2, <1>3 DEF UpKnows, DownKnows, At, Retargeted, Addressed, Built, Credentialed, AgentKnown,
       DownStep
<1>5. "failed" \notin UpStep /\ "failed" \notin DownStep
    BY DEF UpStep, DownStep
<1>6. /\ env' \subseteq Environment /\ agents' \subseteq Agent /\ deployments' \subseteq Deployment
      /\ credentials' \subseteq Url /\ OneInv'
    BY <1>1, Here, SameEnv DEF planeVars, OneInv, AtMostOne
<1>7. Nothing => Nothing'
    BY <1>1, SameEnv DEF Nothing, planeVars
<1>. HIDE DEF r
<1>. QED
    BY <1>1, <1>2, <1>4, <1>5, <1>6, <1>7, JobKeeps

LEMMA CreateEnvInvariant ==
    ASSUME PreviewInv, NEW n \in DOMAIN runs, CreateEnv(n), UNCHANGED <<open, label>>
    PROVE  PreviewInv'
<1>1. PICK k \in 1..Calls :
         /\ env' = env \cup {Clone(<<n, c>>, k) : c \in 1..k}
         /\ runs' = [runs EXCEPT ![n].at = "retarget", ![n].env = <<n, k>>]
    BY DEF CreateEnv
<1>. DEFINE r == [runs[n] EXCEPT !.at = "retarget", !.env = <<n, k>>]
<1>2. runs[n].at = "createEnv" /\ runs' = [runs EXCEPT ![n] = r] /\ UNCHANGED planeVars
    BY <1>1 DEF CreateEnv, At
<1>3. runs[n] \in Run /\ n \in Nat /\ k \in Nat /\ k \in 1..k
    BY Here, RunTypes, PreviewAssumption DEF PreviewInv
<1>4. runs[n].at \in UpStep /\ r \in Run /\ r.kind = runs[n].kind /\ r.at = "retarget" /\ r.at \in UpStep
      /\ r.env = <<n, k>>
    BY <1>2, <1>3 DEF Run, Phase, Step, UpStep
<1>5. runs'[n] = r
    BY <1>2, <1>4, RunMoves DEF PreviewInv
<1>6. env' = {Clone(<<n, c>>, k) : c \in 1..k}
    BY <1>1, <1>2, Here DEF UpKnows, At
<1>7. \A c \in 1..k : /\ Clone(<<n, c>>, k) \in Environment
                      /\ Clone(<<n, c>>, k).id = <<n, c>> /\ Clone(<<n, c>>, k).made = k
    BY <1>3 DEF Clone, Environment
<1>8. env' \subseteq Environment /\ EnvInv'
    <2>1. ASSUME NEW e \in env'
          PROVE  \E c \in 1..k : e = Clone(<<n, c>>, k)
        BY <1>6
    <2>2. ASSUME NEW e \in env'
          PROVE  e \in Environment /\ e.id[2] \in 1..e.made
        <3>1. PICK c \in 1..k : e = Clone(<<n, c>>, k)
            BY <2>1
        <3>2. e \in Environment /\ e.id = <<n, c>> /\ e.made = k
            BY <1>7, <3>1
        <3>. QED
            BY <3>2
    <2>4. ASSUME NEW e \in env', NEW g \in env'
          PROVE  e.id[1] = g.id[1] /\ e.made = g.made /\ (e.id = g.id => e = g)
        <3>1. PICK b \in 1..k : e = Clone(<<n, b>>, k)
            BY <2>1
        <3>2. PICK c \in 1..k : g = Clone(<<n, c>>, k)
            BY <2>1
        <3>3. e.id = <<n, b>> /\ g.id = <<n, c>> /\ e.made = k /\ g.made = k
            BY <1>7, <3>1, <3>2
        <3>4. e.id = g.id => b = c
            BY <3>3
        <3>. QED
            BY <3>1, <3>2, <3>3, <3>4
    <2>. QED
        BY <2>2, <2>4 DEF EnvInv
<1>. HIDE DEF r
<1>9. EnvKnown(n)'
    <2>1. Clone(<<n, k>>, k) \in env' /\ Clone(<<n, k>>, k).id = <<n, k>>
        BY <1>3, <1>6, <1>7
    <2>2. Mine(n, Clone(<<n, k>>, k))'
        BY <1>4, <1>5, <2>1 DEF Mine
    <2>. QED
        BY <1>4, <1>5, <2>1, <2>2 DEF EnvKnown, Retargeted, Addressed, Built, Credentialed, AgentKnown
<1>10. UpKnows(n)'
    BY <1>4, <1>5, <1>9 DEF UpKnows, At, Credentialed, AgentKnown
<1>11. OneInv' /\ agents' \subseteq Agent /\ deployments' \subseteq Deployment /\ credentials' \subseteq Url
    BY <1>2, <1>8, Here DEF planeVars, OneInv, AtMostOne
<1>. QED
    BY <1>2, <1>4, <1>8, <1>10, <1>11, UpKeeps

LEMMA RetargetInvariant ==
    ASSUME PreviewInv, NEW n \in DOMAIN runs, Retarget(n), UNCHANGED <<open, label>>
    PROVE  PreviewInv'
<1>. DEFINE r == [runs[n] EXCEPT !.at = "domain"]
<1>. DEFINE f == [e \in env |-> IF Mine(n, e) THEN [e EXCEPT !.branch = "pr"] ELSE e]
<1>1. /\ runs[n].at = "retarget" /\ runs' = [runs EXCEPT ![n] = r]
      /\ env' = {f[e] : e \in env} /\ UNCHANGED planeVars
    BY DEF Retarget, At, Goto
<1>2. /\ runs[n].at \in UpStep /\ r \in Run /\ r.kind = runs[n].kind /\ r.at = "domain" /\ r.at \in UpStep
      /\ r.env = runs[n].env
    BY <1>1, Here DEF Phase, Step, UpStep
<1>3. runs'[n] = r
    BY <1>1, <1>2, RunMoves DEF PreviewInv
<1>4. /\ f \in [env -> Environment]
      /\ \A e \in env : f[e].id = e.id /\ f[e].made = e.made /\ (Mine(n, e) => f[e].branch = "pr")
    BY Here DEF Environment
<1>. HIDE DEF r, f
<1>5. env' \subseteq Environment /\ EnvInv'
    BY <1>1, <1>4, Revised
<1>6. PICK e \in env : Mine(n, e)
    BY <1>1, Here DEF UpKnows, EnvKnown
<1>7. f[e] \in env' /\ f[e].branch = "pr" /\ f[e].id = r.env
    BY <1>1, <1>2, <1>4, <1>6 DEF Mine
<1>8. EnvKnown(n)'
    BY <1>2, <1>3, <1>7 DEF EnvKnown, Mine, Addressed, Built, Credentialed, AgentKnown
<1>9. UpKnows(n)'
    BY <1>2, <1>3, <1>8 DEF UpKnows, At, Credentialed, AgentKnown
<1>10. OneInv' /\ agents' \subseteq Agent /\ deployments' \subseteq Deployment /\ credentials' \subseteq Url
    BY <1>1, <1>5, Here DEF planeVars, OneInv, AtMostOne
<1>. QED
    BY <1>1, <1>2, <1>5, <1>9, <1>10, UpKeeps

LEMMA EnsureDomainInvariant ==
    ASSUME PreviewInv, NEW n \in DOMAIN runs, EnsureDomain(n), UNCHANGED <<open, label>>
    PROVE  PreviewInv'
<1>1. PICK e \in env, new \in SUBSET (Domains \ Taken) :
         /\ Mine(n, e)
         /\ \E d \in e.domains \cup new :
              /\ env' = (env \ {e}) \cup {[e EXCEPT !.domains = @ \cup new]}
              /\ runs' = [runs EXCEPT ![n].at = "deployServices", ![n].url = d]
    BY DEF EnsureDomain
<1>2. PICK d \in e.domains \cup new :
         /\ env' = (env \ {e}) \cup {[e EXCEPT !.domains = @ \cup new]}
         /\ runs' = [runs EXCEPT ![n].at = "deployServices", ![n].url = d]
    BY <1>1
<1>. DEFINE r == [runs[n] EXCEPT !.at = "deployServices", !.url = d]
<1>. DEFINE f == [g \in env |-> IF g = e THEN [e EXCEPT !.domains = @ \cup new] ELSE g]
<1>3. runs[n].at = "domain" /\ runs' = [runs EXCEPT ![n] = r] /\ UNCHANGED planeVars
    BY <1>2 DEF EnsureDomain, At
<1>4. env \subseteq Environment /\ e \in Environment /\ new \subseteq Domains
    BY Here
<1>5. d \in Url /\ "deployServices" \in Phase /\ runs[n] \in Run
    BY <1>4, Here DEF Environment, Url, Phase, Step, UpStep
<1>6. r \in Run /\ r.kind = runs[n].kind /\ r.at = "deployServices" /\ r.url = d /\ r.env = runs[n].env
    BY <1>5 DEF Run
<1>7. runs[n].at \in UpStep /\ r.at \in UpStep
    BY <1>3, <1>6 DEF UpStep
<1>8. runs'[n] = r
    BY <1>3, <1>6, RunMoves DEF PreviewInv
<1>9. e.branch = "pr"
    <2>1. PICK g \in env : Mine(n, g) /\ g.branch = "pr"
        BY <1>3, Here DEF UpKnows, EnvKnown, Retargeted
    <2>. QED
        BY <1>1, <2>1, Here DEF Mine, EnvInv
<1>10. /\ f \in [env -> Environment] /\ env' = {f[g] : g \in env}
       /\ \A g \in env : f[g].id = g.id /\ f[g].made = g.made
       /\ f[e].branch = "pr" /\ d \in f[e].domains /\ f[e] \in env'
    BY <1>2, <1>4, <1>9 DEF Environment
<1>. HIDE DEF r, f
<1>11. env' \subseteq Environment /\ EnvInv'
    BY <1>10, Revised
<1>12. EnvKnown(n)'
    BY <1>1, <1>6, <1>8, <1>10 DEF EnvKnown, Mine, Built, Credentialed, AgentKnown
<1>13. UpKnows(n)'
    BY <1>6, <1>8, <1>12 DEF UpKnows, At, Credentialed, AgentKnown
<1>14. OneInv' /\ agents' \subseteq Agent /\ deployments' \subseteq Deployment /\ credentials' \subseteq Url
    BY <1>3, <1>11, Here DEF planeVars, OneInv, AtMostOne
<1>. QED
    BY <1>3, <1>6, <1>7, <1>11, <1>13, <1>14, UpKeeps

\* The environment of a job that has brought its services up.
Ready(n) == \E e \in env : Mine(n, e) /\ e.branch = "pr" /\ runs[n].url \in e.domains /\ e.built = "pr"

LEMMA DeployServicesInvariant ==
    ASSUME PreviewInv, NEW n \in DOMAIN runs, DeployServices(n), UNCHANGED <<open, label>>
    PROVE  PreviewInv'
<1>. DEFINE r == [runs[n] EXCEPT !.at = "credential"]
<1>. DEFINE f == [e \in env |-> IF Mine(n, e) THEN [e EXCEPT !.built = e.branch] ELSE e]
<1>1. /\ runs[n].at = "deployServices" /\ runs' = [runs EXCEPT ![n] = r]
      /\ env' = {f[e] : e \in env} /\ UNCHANGED planeVars
    BY DEF DeployServices, At, Goto
<1>2. /\ runs[n].at \in UpStep /\ r \in Run /\ r.kind = runs[n].kind /\ r.at = "credential"
      /\ r.at \in UpStep /\ r.url = runs[n].url /\ r.env = runs[n].env
    BY <1>1, Here DEF Phase, Step, UpStep
<1>3. runs'[n] = r
    BY <1>1, <1>2, RunMoves DEF PreviewInv
<1>4. /\ f \in [env -> Environment]
      /\ \A e \in env : f[e].id = e.id /\ f[e].made = e.made
      /\ \A e \in env : Mine(n, e) =>
            f[e].branch = e.branch /\ f[e].domains = e.domains /\ f[e].built = e.branch
    <2>1. env \subseteq Environment
        BY Here
    <2>2. f \in [env -> Environment]
        BY <2>1 DEF Environment
    <2>3. \A e \in env : f[e].id = e.id /\ f[e].made = e.made
        BY <2>1 DEF Environment
    <2>4. \A e \in env : Mine(n, e) =>
            f[e].branch = e.branch /\ f[e].domains = e.domains /\ f[e].built = e.branch
        BY <2>1 DEF Environment
    <2>. QED
        BY <2>2, <2>3, <2>4
<1>. HIDE DEF r, f
<1>5. env' \subseteq Environment /\ EnvInv'
    BY <1>1, <1>4, Revised
<1>6. PICK e \in env : Mine(n, e) /\ e.branch = "pr" /\ runs[n].url \in e.domains
    BY <1>1, Here DEF UpKnows, EnvKnown, Retargeted, Addressed
<1>7. f[e] \in env' /\ f[e].branch = "pr" /\ f[e].built = "pr" /\ r.url \in f[e].domains /\ f[e].id = r.env
    BY <1>1, <1>2, <1>4, <1>6 DEF Mine
<1>8. EnvKnown(n)'
    BY <1>3, <1>7 DEF EnvKnown, Mine
<1>9. UpKnows(n)'
    BY <1>2, <1>3, <1>8 DEF UpKnows, At, Credentialed, AgentKnown
<1>10. OneInv' /\ agents' \subseteq Agent /\ deployments' \subseteq Deployment /\ credentials' \subseteq Url
    BY <1>1, <1>5, Here DEF planeVars, OneInv, AtMostOne
<1>. QED
    BY <1>1, <1>2, <1>5, <1>9, <1>10, UpKeeps

\* The environment a job works for while it sets up the control plane.
LEMMA EnvReady ==
    ASSUME PreviewInv, NEW n \in DOMAIN runs, runs[n].at \in Built
    PROVE  Ready(n) /\ (runs[n].at \in Credentialed => runs[n].url \in credentials)
BY Here DEF UpKnows, EnvKnown, Ready, Retargeted, Addressed

\* It stays as it is while the job's step leaves it alone.
LEMMA StaysReady ==
    ASSUME PreviewInv, NEW n \in DOMAIN runs, Ready(n), UNCHANGED env,
           runs'[n].env = runs[n].env, runs'[n].url = runs[n].url
    PROVE  EnvKnown(n)' /\ env' \subseteq Environment /\ EnvInv'
<1>1. Ready(n)'
    BY DEF Ready, Mine
<1>2. EnvKnown(n)'
    BY <1>1 DEF Ready, EnvKnown
<1>. QED
    BY <1>2, SameEnv

LEMMA EnsureCredentialInvariant ==
    ASSUME PreviewInv, NEW n \in DOMAIN runs, EnsureCredential(n), UNCHANGED <<open, label>>
    PROVE  PreviewInv'
<1>. DEFINE r == [runs[n] EXCEPT !.at = "findAgent"]
<1>1. /\ runs[n].at = "credential" /\ runs' = [runs EXCEPT ![n] = r]
      /\ credentials' = credentials \cup {runs[n].url} /\ UNCHANGED <<env, agents, deployments>>
    BY DEF EnsureCredential, At, Goto
<1>2. /\ runs[n].at \in UpStep /\ r \in Run /\ r.kind = runs[n].kind /\ r.at = "findAgent"
      /\ r.at \in UpStep /\ r.url = runs[n].url /\ r.env = runs[n].env
    BY <1>1, Here DEF Phase, Step, UpStep
<1>3. runs'[n] = r
    BY <1>1, <1>2, RunMoves DEF PreviewInv
<1>4. Ready(n)
    BY <1>1, EnvReady DEF Built
<1>. HIDE DEF r
<1>5. UpKnows(n)'
    BY StaysReady, <1>1, <1>2, <1>3, <1>4 DEF UpKnows, At, AgentKnown
<1>6. /\ OneInv' /\ env' \subseteq Environment /\ agents' \subseteq Agent
      /\ deployments' \subseteq Deployment /\ credentials' \subseteq Url
    BY <1>1, Here, SameEnv DEF OneInv, AtMostOne
<1>. QED
    BY <1>1, <1>2, <1>5, <1>6, UpKeeps

LEMMA FindAgentInvariant ==
    ASSUME PreviewInv, NEW n \in DOMAIN runs, FindAgent(n), UNCHANGED <<open, label>>
    PROVE  PreviewInv'
<1>1. runs[n].at = "findAgent" /\ UNCHANGED <<env, planeVars>> /\ runs[n].at \in UpStep
    BY DEF FindAgent, At, UpStep
<1>2. /\ Ready(n)
      /\ runs[n].url \in credentials
    BY <1>1, EnvReady DEF Built, Credentialed
<1>3. /\ OneInv' /\ env' \subseteq Environment /\ agents' \subseteq Agent
      /\ deployments' \subseteq Deployment /\ credentials' \subseteq Url
    BY <1>1, Here, SameEnv DEF OneInv, AtMostOne, planeVars
<1>4. CASE agents = {} /\ Goto(n, "createAgent")
    <2>. DEFINE r == [runs[n] EXCEPT !.at = "createAgent"]
    <2>1. runs' = [runs EXCEPT ![n] = r]
        BY <1>4 DEF Goto
    <2>2. r \in Run /\ r.kind = runs[n].kind /\ r.at = "createAgent" /\ r.at \in UpStep /\ r.url = runs[n].url /\ r.env = runs[n].env
        BY Here DEF Phase, Step, UpStep
    <2>3. runs'[n] = r
        BY <2>1, <2>2, RunMoves DEF PreviewInv
    <2>4. UpKnows(n)'
        BY StaysReady, <1>1, <1>2, <1>4, <2>2, <2>3 DEF UpKnows, At, AgentKnown, planeVars
    <2>. HIDE DEF r
    <2>. QED
        BY <1>1, <1>3, <2>1, <2>2, <2>4, UpKeeps
<1>5. ASSUME NEW a \in agents, GotoSeen(n, "updateAgent", a.id)
      PROVE  PreviewInv'
    <2>. DEFINE r == [runs[n] EXCEPT !.at = "updateAgent", !.seen = a.id]
    <2>1. runs' = [runs EXCEPT ![n] = r]
        BY <1>5 DEF GotoSeen
    <2>2. a.id \in Nat /\ agents = {a} /\ runs[n] \in Run
        BY Here DEF Agent, AtMostOne
    <2>3. /\ r \in Run /\ r.kind = runs[n].kind /\ r.at = "updateAgent" /\ r.at \in UpStep
          /\ r.url = runs[n].url /\ r.env = runs[n].env /\ r.seen = a.id
        BY <2>2 DEF Run, Phase, Step, UpStep
    <2>4. runs'[n] = r
        BY <2>1, <2>3, RunMoves DEF PreviewInv
    <2>5. UpKnows(n)'
        BY StaysReady, <1>1, <1>2, <2>2, <2>3, <2>4 DEF UpKnows, At, planeVars
    <2>. HIDE DEF r
    <2>. QED
        BY <1>1, <1>3, <2>1, <2>3, <2>5, UpKeeps
<1>. QED
    BY <1>4, <1>5 DEF FindAgent

LEMMA CreateAgentInvariant ==
    ASSUME PreviewInv, NEW n \in DOMAIN runs, CreateAgent(n), UNCHANGED <<open, label>>
    PROVE  PreviewInv'
<1>. DEFINE a == [id |-> n, url |-> runs[n].url, version |-> 1]
<1>. DEFINE r == [runs[n] EXCEPT !.at = "findDeployment", !.seen = n]
<1>1. /\ runs[n].at = "createAgent" /\ runs' = [runs EXCEPT ![n] = r] /\ agents' = agents \cup {a}
      /\ UNCHANGED <<env, deployments, credentials>>
    BY DEF CreateAgent, At, GotoSeen
<1>2. agents = {} /\ runs[n] \in Run /\ n \in Nat /\ runs[n].url \in Url
    BY <1>1, Here, RunTypes DEF PreviewInv, UpKnows, At
<1>3. agents' = {a} /\ a \in Agent /\ a.id = n
    BY <1>1, <1>2 DEF Agent
<1>4. /\ runs[n].at \in UpStep /\ r \in Run /\ r.kind = runs[n].kind /\ r.at = "findDeployment"
      /\ r.at \in UpStep /\ r.url = runs[n].url /\ r.env = runs[n].env /\ r.seen = n
    BY <1>1, <1>2 DEF Run, Phase, Step, UpStep
<1>5. runs'[n] = r
    BY <1>1, <1>4, RunMoves DEF PreviewInv
<1>6. /\ Ready(n)
      /\ runs[n].url \in credentials
    BY <1>1, EnvReady DEF Built, Credentialed
<1>. HIDE DEF r, a
<1>7. UpKnows(n)'
    BY StaysReady, <1>1, <1>3, <1>4, <1>5, <1>6 DEF UpKnows, At
<1>8. /\ OneInv' /\ env' \subseteq Environment /\ agents' \subseteq Agent
      /\ deployments' \subseteq Deployment /\ credentials' \subseteq Url
    BY <1>1, <1>3, Here, SameEnv DEF OneInv, AtMostOne
<1>. QED
    BY <1>1, <1>4, <1>7, <1>8, UpKeeps

LEMMA UpdateAgentInvariant ==
    ASSUME PreviewInv, NEW n \in DOMAIN runs, UpdateAgent(n), UNCHANGED <<open, label>>
    PROVE  PreviewInv'
<1>1. PICK a \in agents : /\ a.id = runs[n].seen
                          /\ agents' = (agents \ {a}) \cup {[a EXCEPT !.version = @ + 1]}
    BY DEF UpdateAgent
<1>. DEFINE b == [a EXCEPT !.version = @ + 1]
<1>. DEFINE r == [runs[n] EXCEPT !.at = "findDeployment"]
<1>2. /\ runs[n].at = "updateAgent" /\ runs' = [runs EXCEPT ![n] = r]
      /\ UNCHANGED <<env, deployments, credentials>>
    BY DEF UpdateAgent, At, Goto
<1>3. agents = {a} /\ a \in Agent
    BY Here DEF AtMostOne
<1>4. agents' = {b} /\ b \in Agent /\ b.id = runs[n].seen
    BY <1>1, <1>3 DEF Agent
<1>5. /\ runs[n].at \in UpStep /\ r \in Run /\ r.kind = runs[n].kind /\ r.at = "findDeployment"
      /\ r.at \in UpStep /\ r.url = runs[n].url /\ r.env = runs[n].env /\ r.seen = runs[n].seen
    BY <1>2, Here DEF Phase, Step, UpStep
<1>6. runs'[n] = r
    BY <1>2, <1>5, RunMoves DEF PreviewInv
<1>7. /\ Ready(n)
      /\ runs[n].url \in credentials
    BY <1>2, EnvReady DEF Built, Credentialed, AgentKnown
<1>. HIDE DEF r, b
<1>8. UpKnows(n)'
    BY StaysReady, <1>2, <1>4, <1>5, <1>6, <1>7 DEF UpKnows, At
<1>9. /\ OneInv' /\ env' \subseteq Environment /\ agents' \subseteq Agent
      /\ deployments' \subseteq Deployment /\ credentials' \subseteq Url
    BY <1>2, <1>4, Here, SameEnv DEF OneInv, AtMostOne
<1>. QED
    BY <1>2, <1>5, <1>8, <1>9, UpKeeps

LEMMA FindDeploymentInvariant ==
    ASSUME PreviewInv, NEW n \in DOMAIN runs, FindDeployment(n), UNCHANGED <<open, label>>
    PROVE  PreviewInv'
<1>. DEFINE step == IF deployments = {} THEN "createDeployment" ELSE "updateDeployment"
<1>. DEFINE r == [runs[n] EXCEPT !.at = step]
<1>1. /\ runs[n].at = "findDeployment" /\ runs' = [runs EXCEPT ![n] = r] /\ UNCHANGED <<env, planeVars>>
    BY DEF FindDeployment, At, Goto
<1>2. step \in Phase /\ step \in UpStep /\ runs[n].at \in UpStep
    BY <1>1 DEF Phase, Step, UpStep
<1>3. r \in Run /\ r.kind = runs[n].kind /\ r.at = step /\ r.url = runs[n].url /\ r.env = runs[n].env /\ r.seen = runs[n].seen
    BY <1>2, Here
<1>4. runs'[n] = r
    BY <1>1, <1>3, RunMoves DEF PreviewInv
<1>5. /\ Ready(n)
      /\ runs[n].url \in credentials
    BY <1>1, EnvReady DEF Built, Credentialed, AgentKnown
<1>6. agents # {} /\ \A a \in agents : a.id = runs[n].seen
    BY <1>1, Here DEF UpKnows, AgentKnown
<1>7. /\ step \in {"createDeployment", "updateDeployment"}
      /\ step = "createDeployment" => deployments = {}
      /\ step = "updateDeployment" => deployments # {}
    OBVIOUS
<1>. HIDE DEF r, step
<1>8. UpKnows(n)'
    BY StaysReady, <1>1, <1>3, <1>4, <1>5, <1>6, <1>7 DEF UpKnows, At, planeVars
<1>9. /\ OneInv' /\ env' \subseteq Environment /\ agents' \subseteq Agent
      /\ deployments' \subseteq Deployment /\ credentials' \subseteq Url
    BY <1>1, Here, SameEnv DEF OneInv, AtMostOne, planeVars
<1>. QED
    BY <1>1, <1>2, <1>3, <1>8, <1>9, UpKeeps

\* The two ways an `up` ends well.
LEMMA UpEnds ==
    ASSUME PreviewInv, NEW n \in DOMAIN runs, CreateDeployment(n) \/ UpdateDeployment(n)
    PROVE  /\ runs[n].at \in {"createDeployment", "updateDeployment"}
           /\ runs' = [runs EXCEPT ![n] = [runs[n] EXCEPT !.at = "done"]]
           /\ UNCHANGED <<env, agents, credentials>>
           /\ \E d \in Deployment, a \in agents :
                 deployments' = {d} /\ d.agent = a.id /\ d.pinned = a.version
<1>1. /\ runs[n].at \in {"createDeployment", "updateDeployment"}
      /\ runs' = [runs EXCEPT ![n] = [runs[n] EXCEPT !.at = "done"]]
      /\ UNCHANGED <<env, agents, credentials>>
    BY DEF CreateDeployment, UpdateDeployment, At, Goto
<1>2. agents \subseteq Agent /\ deployments \subseteq Deployment /\ runs[n].url \in Url /\ n \in Nat
    BY Here, RunTypes DEF PreviewInv
<1>3. CASE CreateDeployment(n)
    <2>1. deployments = {}
        BY <1>3, Here DEF CreateDeployment, UpKnows, At
    <2>2. PICK a \in agents :
             deployments' = deployments \cup
               {[id |-> n, agent |-> a.id, pinned |-> a.version, url |-> runs[n].url]}
        BY <1>3 DEF CreateDeployment
    <2>. DEFINE d == [id |-> n, agent |-> a.id, pinned |-> a.version, url |-> runs[n].url]
    <2>3. deployments' = {d} /\ d \in Deployment /\ d.agent = a.id /\ d.pinned = a.version
        BY <1>2, <2>1, <2>2 DEF Deployment, Agent
    <2>. QED
        BY <1>1, <2>3
<1>4. CASE UpdateDeployment(n)
    <2>1. PICK a \in agents, c \in deployments :
             deployments' = (deployments \ {c}) \cup {[c EXCEPT !.agent = a.id, !.pinned = a.version]}
        BY <1>4 DEF UpdateDeployment
    <2>2. deployments = {c}
        BY Here DEF AtMostOne
    <2>. DEFINE d == [c EXCEPT !.agent = a.id, !.pinned = a.version]
    <2>3. deployments' = {d} /\ d \in Deployment /\ d.agent = a.id /\ d.pinned = a.version
        BY <1>2, <2>1, <2>2 DEF Deployment, Agent
    <2>. QED
        BY <1>1, <2>3
<1>. QED
    BY <1>3, <1>4

LEMMA UpEndsInvariant ==
    ASSUME PreviewInv, NEW n \in DOMAIN runs, CreateDeployment(n) \/ UpdateDeployment(n),
           UNCHANGED <<open, label>>
    PROVE  PreviewInv'
<1>. DEFINE r == [runs[n] EXCEPT !.at = "done"]
<1>1. /\ runs[n].at \in {"createDeployment", "updateDeployment"} /\ runs' = [runs EXCEPT ![n] = r]
      /\ UNCHANGED <<env, agents, credentials>> /\ \E d \in Deployment : deployments' = {d}
    BY UpEnds
<1>2. runs[n].at \in UpStep /\ r \in Run /\ r.kind = runs[n].kind /\ r.at = "done"
    BY <1>1, Here DEF Phase, Finished, UpStep
<1>3. runs'[n] = r
    BY <1>1, <1>2, RunMoves DEF PreviewInv
<1>. HIDE DEF r
<1>4. UpKnows(n)'
    BY StaysReady, <1>2, <1>3 DEF UpKnows, At, Retargeted, Addressed, Built, Credentialed, AgentKnown
<1>5. /\ OneInv' /\ env' \subseteq Environment /\ agents' \subseteq Agent
      /\ deployments' \subseteq Deployment /\ credentials' \subseteq Url
    BY <1>1, Here, SameEnv DEF OneInv, AtMostOne
<1>. QED
    BY <1>1, <1>2, <1>4, <1>5, UpKeeps

LEMMA DeleteEnvInvariant ==
    ASSUME PreviewInv, NEW n \in DOMAIN runs, DeleteEnv(n), UNCHANGED <<open, label>>
    PROVE  PreviewInv'
<1>. DEFINE r == [runs[n] EXCEPT !.at = "archiveDeployment"]
<1>1. /\ runs[n].at = "deleteEnv" /\ runs' = [runs EXCEPT ![n] = r] /\ env' = {e \in env : ~Mine(n, e)}
      /\ UNCHANGED planeVars
    BY DEF DeleteEnv, At, Goto
<1>2. /\ runs[n].at \in Step /\ r \in Run /\ r.kind = runs[n].kind /\ r.kind = "down"
      /\ r.at = "archiveDeployment" /\ r.at \in Step /\ r.at \notin UpStep
    BY <1>1, Here DEF Phase, Step, UpStep, DownStep
<1>3. runs'[n] = r
    BY <1>1, <1>2, RunMoves DEF PreviewInv
<1>. HIDE DEF r
\* The one that is deleted is the one that is gone.
<1>0. OnlySurplus' /\ EnvInv' /\ env' \subseteq Environment
    <2>1. PICK m \in env : Mine(n, m)
        BY <1>1, Here DEF DownKnows, At
    <2>2. EnvInv /\ env \subseteq Environment /\ m.id = <<m.id[1], m.id[2]>>
        BY Here DEF Environment
    <2>3. EnvInv' /\ env' \subseteq Environment
        BY <1>1, <2>2 DEF EnvInv
    <2>4. ASSUME NEW e \in env'
          PROVE  \E c \in 1..e.made : \A g \in env' : g.id # <<e.id[1], c>>
        <3>1. e \in env /\ e.id[1] = m.id[1] /\ e.made = m.made /\ m.id[2] \in 1..m.made
            BY <1>1, <2>2 DEF EnvInv
        <3>2. \A g \in env' : g.id # m.id
            BY <1>1, <2>1 DEF Mine
        <3>. QED
            BY <2>2, <3>1, <3>2
    <2>. QED
        BY <2>3, <2>4 DEF OnlySurplus
<1>4. UpKnows(n)' /\ DownKnows(n)'
    BY <1>0, <1>1, <1>2, <1>3 DEF UpKnows, DownKnows, At, Retargeted, Addressed, Built, Credentialed, AgentKnown
<1>5. /\ OneInv' /\ env' \subseteq Environment /\ agents' \subseteq Agent
      /\ deployments' \subseteq Deployment /\ credentials' \subseteq Url
    BY <1>0, <1>1, Here DEF OneInv, AtMostOne, planeVars
<1>6. Nothing => Nothing'
    BY <1>0, <1>1 DEF Nothing, planeVars
<1>. QED
    BY <1>1, <1>2, <1>4, <1>5, <1>6, JobKeeps

LEMMA ArchiveDeploymentInvariant ==
    ASSUME PreviewInv, NEW n \in DOMAIN runs, ArchiveDeployment(n), UNCHANGED <<open, label>>
    PROVE  PreviewInv'
<1>. DEFINE r == [runs[n] EXCEPT !.at = "archiveAgent"]
<1>1. /\ runs[n].at = "archiveDeployment" /\ runs' = [runs EXCEPT ![n] = r]
      /\ UNCHANGED <<env, agents, credentials>>
    BY DEF ArchiveDeployment, At, Goto
<1>2. /\ runs[n].at \in Step /\ r \in Run /\ r.kind = runs[n].kind /\ r.kind = "down"
      /\ r.at = "archiveAgent" /\ r.at \in Step /\ r.at \notin UpStep
    <2>1. "archiveAgent" \in Phase /\ "archiveAgent" \in Step /\ "archiveAgent" \notin UpStep /\ runs[n].at \in DownStep
          /\ runs[n].at \in Step
        BY <1>1 DEF Phase, Step, UpStep, DownStep
    <2>. QED
        BY <2>1, Here
<1>3. runs'[n] = r
    BY <1>1, <1>2, RunMoves DEF PreviewInv
<1>4. OnlySurplus'
    BY <1>1, Here, SameEnv DEF DownKnows, DownStep
\* There is at most one of the name, so the first is the only one.
<1>5. deployments' = {}
    BY Here DEF ArchiveDeployment, AtMostOne
<1>. HIDE DEF r
<1>6. UpKnows(n)' /\ DownKnows(n)'
    BY <1>1, <1>2, <1>3, <1>4, <1>5 DEF UpKnows, DownKnows, At, Retargeted, Addressed, Built, Credentialed,
       AgentKnown
<1>7. /\ OneInv' /\ env' \subseteq Environment /\ agents' \subseteq Agent
      /\ deployments' \subseteq Deployment /\ credentials' \subseteq Url
    BY <1>1, <1>5, Here, SameEnv DEF OneInv, AtMostOne
<1>8. Nothing => Nothing'
    BY <1>1, <1>4, <1>5 DEF Nothing
<1>. QED
    BY <1>1, <1>2, <1>6, <1>7, <1>8, JobKeeps

LEMMA ArchiveAgentInvariant ==
    ASSUME PreviewInv, NEW n \in DOMAIN runs, ArchiveAgent(n), UNCHANGED <<open, label>>
    PROVE  PreviewInv'
<1>. DEFINE r == [runs[n] EXCEPT !.at = "deleteCredentials"]
<1>1. /\ runs[n].at = "archiveAgent" /\ runs' = [runs EXCEPT ![n] = r]
      /\ UNCHANGED <<env, deployments, credentials>>
    BY DEF ArchiveAgent, At, Goto
<1>2. /\ runs[n].at \in Step /\ r \in Run /\ r.kind = runs[n].kind /\ r.kind = "down"
      /\ r.at = "deleteCredentials" /\ r.at \in Step /\ r.at \notin UpStep
    <2>1. "deleteCredentials" \in Phase /\ "deleteCredentials" \in Step /\ "deleteCredentials" \notin UpStep /\ runs[n].at \in DownStep
          /\ runs[n].at \in Step
        BY <1>1 DEF Phase, Step, UpStep, DownStep
    <2>. QED
        BY <2>1, Here
<1>3. runs'[n] = r
    BY <1>1, <1>2, RunMoves DEF PreviewInv
<1>4. OnlySurplus' /\ deployments = {}
    BY <1>1, Here, SameEnv DEF DownKnows, DownStep
<1>5. agents' = {}
    BY Here DEF ArchiveAgent, AtMostOne
<1>. HIDE DEF r
<1>6. UpKnows(n)' /\ DownKnows(n)'
    BY <1>1, <1>2, <1>3, <1>4, <1>5 DEF UpKnows, DownKnows, At, Retargeted, Addressed, Built, Credentialed,
       AgentKnown
<1>7. /\ OneInv' /\ env' \subseteq Environment /\ agents' \subseteq Agent
      /\ deployments' \subseteq Deployment /\ credentials' \subseteq Url
    BY <1>1, <1>5, Here, SameEnv DEF OneInv, AtMostOne
<1>8. Nothing => Nothing'
    BY <1>1, <1>4, <1>5 DEF Nothing
<1>. QED
    BY <1>1, <1>2, <1>6, <1>7, <1>8, JobKeeps

\* The way a `down` ends well.
LEMMA DownEnds ==
    ASSUME PreviewInv, NEW n \in DOMAIN runs, DeleteCredentials(n)
    PROVE  /\ runs[n].at = "deleteCredentials"
           /\ runs' = [runs EXCEPT ![n] = [runs[n] EXCEPT !.at = "done"]]
           /\ Nothing'
<1>1. /\ runs[n].at = "deleteCredentials" /\ credentials' = {} /\ UNCHANGED <<env, agents, deployments>>
      /\ runs' = [runs EXCEPT ![n] = [runs[n] EXCEPT !.at = "done"]]
    BY DEF DeleteCredentials, At, Goto
<1>2. OnlySurplus' /\ deployments = {} /\ agents = {}
    BY <1>1, Here, SameEnv DEF DownKnows, DownStep, At
<1>. QED
    BY <1>1, <1>2 DEF Nothing

LEMMA DeleteCredentialsInvariant ==
    ASSUME PreviewInv, NEW n \in DOMAIN runs, DeleteCredentials(n), UNCHANGED <<open, label>>
    PROVE  PreviewInv'
<1>. DEFINE r == [runs[n] EXCEPT !.at = "done"]
<1>1. runs[n].at = "deleteCredentials" /\ runs' = [runs EXCEPT ![n] = r] /\ Nothing'
    BY DownEnds
<1>2. /\ runs[n].at \in Step /\ r \in Run /\ r.kind = runs[n].kind
      /\ r.at = "done" /\ r.at \notin UpStep /\ r.at \notin DownStep
    <2>1. "done" \in Phase /\ "done" \notin UpStep /\ "done" \notin DownStep
        BY DEF Phase, Finished, UpStep, DownStep
    <2>2. r \in Run /\ r.kind = runs[n].kind /\ r.at = "done"
        BY <2>1, Here
    <2>. QED
        BY <1>1, <2>1, <2>2 DEF Step, DownStep
<1>3. runs'[n] = r
    BY <1>1, <1>2, RunMoves DEF PreviewInv
<1>. HIDE DEF r
<1>4. UpKnows(n)' /\ DownKnows(n)'
    BY <1>2, <1>3 DEF UpKnows, DownKnows, At, Retargeted, Addressed, Built, Credentialed, AgentKnown, DownStep
<1>5. /\ OneInv' /\ env' \subseteq Environment /\ agents' \subseteq Agent
      /\ deployments' \subseteq Deployment /\ credentials' \subseteq Url
    <2>1. UNCHANGED env
        BY DEF DeleteCredentials
    <2>. QED
        BY <1>1, <2>1, SameEnv DEF Nothing, OneInv, AtMostOne
<1>. QED
    BY <1>1, <1>2, <1>4, <1>5, JobKeeps

LEMMA JobInvariant ==
    ASSUME PreviewInv, NEW n \in DOMAIN runs, Job(n)
    PROVE  PreviewInv'
<1>1. UNCHANGED <<open, label>>
    BY DEF Job
<1>2. CASE FindEnv(n) \/ CreateEnv(n) \/ Retarget(n) \/ EnsureDomain(n) \/ DeployServices(n)
           \/ EnsureCredential(n)
    BY <1>1, <1>2, FindEnvInvariant, CreateEnvInvariant, RetargetInvariant, EnsureDomainInvariant,
       DeployServicesInvariant, EnsureCredentialInvariant
<1>3. CASE FindAgent(n) \/ CreateAgent(n) \/ UpdateAgent(n) \/ FindDeployment(n)
           \/ CreateDeployment(n) \/ UpdateDeployment(n)
    BY <1>1, <1>3, FindAgentInvariant, CreateAgentInvariant, UpdateAgentInvariant,
       FindDeploymentInvariant, UpEndsInvariant
<1>4. CASE DeleteEnv(n) \/ ArchiveDeployment(n) \/ ArchiveAgent(n) \/ DeleteCredentials(n) \/ Fail(n)
    BY <1>1, <1>4, DeleteEnvInvariant, ArchiveDeploymentInvariant, ArchiveAgentInvariant,
       DeleteCredentialsInvariant, FailInvariant
<1>. QED
    BY <1>2, <1>3, <1>4 DEF Job

\* A run leaves the queue only while no job runs, so whatever was started before has ended.
LEMMA StartInvariant ==
    ASSUME PreviewInv, NEW n \in DOMAIN runs, Start(n)
    PROVE  PreviewInv'
<1>. DEFINE step == IF runs[n].kind = "skip" THEN "done" ELSE "findEnv"
<1>. DEFINE r == [runs[n] EXCEPT !.at = step]
<1>1. /\ runs[n].at = "pending" /\ runs' = [runs EXCEPT ![n] = r]
      /\ \A m \in DOMAIN runs : runs[m].at \notin Step
      /\ UNCHANGED <<open, label, env, planeVars>>
    BY DEF Start, Running
<1>2. TypeOK /\ OneInv /\ GroupInv /\ JobInv /\ LabelInv /\ CleanInv
    BY DEF PreviewInv
<1>3. step \in Phase
    BY DEF Phase, Step, Finished
<1>4. r \in Run /\ r.kind = runs[n].kind /\ r.at = step
    BY <1>3, Here
<1>5. /\ runs' \in Seq(Run) /\ Len(runs') = Len(runs) /\ DOMAIN runs' = DOMAIN runs
      /\ runs'[n] = r
      /\ \A m \in DOMAIN runs : m # n => runs'[m] = runs[m]
      /\ \A m \in DOMAIN runs : runs'[m].kind = runs[m].kind
    BY <1>1, <1>2, <1>4, RunMoves
<1>6. /\ step \in {"findEnv", "done"}
      /\ step = "findEnv" => r.kind # "skip"
      /\ step = "done" => r.kind = "skip"
    BY <1>4
<1>7. n = Len(runs) /\ \A m \in DOMAIN runs : m \in Nat /\ m <= Len(runs) /\ Len(runs) \in Nat
    BY <1>1, <1>2, RunTypes DEF GroupInv, At
<1>. HIDE DEF r, step
<1>8. /\ step \notin UpStep /\ step \notin DownStep /\ step # "pending"
      /\ step \in Step => step = "findEnv"
    BY <1>6 DEF Step, UpStep, DownStep
<1>9. TypeOK'
    BY <1>1, <1>2, <1>5 DEF TypeOK, Run, Phase, planeVars
<1>10. OneInv'
    BY <1>1, <1>2 DEF OneInv, EnvInv, AtMostOne, planeVars
<1>11. GroupInv'
    <2>. SUFFICES ASSUME NEW m \in DOMAIN runs
                  PROVE  /\ runs'[m].at = "pending" => m = Len(runs)
                         /\ runs'[m].at \in Step => \A k \in DOMAIN runs : k > m => runs'[k].at \in {"pending", "cancelled"}
                         /\ runs'[m].at \in UpStep => runs'[m].kind = "up"
                         /\ runs'[m].at \in DownStep => runs'[m].kind = "down"
                         /\ runs'[m].kind = "skip" => runs'[m].at \notin Step
        BY <1>5 DEF GroupInv, At
    <2>1. CASE m = n
        <3>1. \A k \in DOMAIN runs : ~(k > m)
            BY <1>7, <2>1
        <3>. QED
            BY <1>4, <1>5, <1>6, <1>7, <1>8, <2>1, <3>1
    <2>2. CASE m # n
        <3>1. runs'[m] = runs[m] /\ runs[m].at \notin Step
            BY <1>1, <1>5, <2>2
        <3>2. runs[m].at \notin UpStep /\ runs[m].at \notin DownStep
            BY <3>1 DEF Step
        <3>. QED
            BY <1>2, <3>1, <3>2 DEF GroupInv, At
    <2>. QED
        BY <2>1, <2>2
<1>12. JobInv'
    <2>. SUFFICES ASSUME NEW m \in DOMAIN runs
                  PROVE  UpKnows(m)' /\ DownKnows(m)'
        BY <1>5 DEF JobInv
    <2>1. runs'[m].at \notin UpStep /\ runs'[m].at \notin DownStep
        BY <1>1, <1>4, <1>5, <1>6, <1>8 DEF Step
    <2>. QED
        BY <2>1 DEF UpKnows, DownKnows, At, Retargeted, Addressed, Built, Credentialed, AgentKnown,
           UpStep, DownStep
<1>13. LabelInv'
    BY <1>1, <1>2, <1>5 DEF LabelInv
<1>14. CleanInv'
    <2>1. Nothing' <=> Nothing
        BY <1>1 DEF Nothing, OnlySurplus, planeVars
    <2>2. \A k \in DOMAIN runs : runs'[k].kind = "down" /\ runs'[k].at = "done" => runs[k].at = "done"
        BY <1>4, <1>5, <1>6
    <2>. QED
        BY <1>2, <1>5, <2>1, <2>2 DEF CleanInv, At
<1>. QED
    BY <1>9, <1>10, <1>11, <1>12, <1>13, <1>14 DEF PreviewInv

-----------------------------------------------------------------------------
(***************************************************************************)
(* Webhook events.                                                         *)
(***************************************************************************)
Queued(kind) == [kind |-> kind, at |-> "pending", env |-> <<0, 0>>, url |-> NoDomain, seen |-> 0]

\* An event cancels the pending run, if there is one, and waits in its place.
LEMMA TriggerQueues ==
    ASSUME TypeOK, NEW kind \in {"up", "down", "skip"}, Trigger(kind)
    PROVE  /\ runs' \in Seq(Run) /\ Len(runs') = Len(runs) + 1 /\ DOMAIN runs' = 1..(Len(runs) + 1)
           /\ runs'[Len(runs) + 1] = Queued(kind)
           /\ \A m \in DOMAIN runs :
                 /\ m \in DOMAIN runs' /\ runs'[m].kind = runs[m].kind
                 /\ runs[m].at = "pending" => runs'[m].at = "cancelled"
                 /\ runs[m].at # "pending" => runs'[m] = runs[m]
<1>. DEFINE superseded == [n \in DOMAIN runs |->
                             IF runs[n].at = "pending" THEN [runs[n] EXCEPT !.at = "cancelled"]
                                                       ELSE runs[n]]
<1>1. /\ runs \in Seq(Run) /\ Len(runs) \in Nat /\ DOMAIN runs = 1..Len(runs)
      /\ \A n \in DOMAIN runs : runs[n] \in Run
    BY RunTypes
<1>2. "cancelled" \in Phase
    BY DEF Phase, Finished
<1>3. \A n \in DOMAIN runs : /\ superseded[n] \in Run /\ superseded[n].kind = runs[n].kind
                             /\ runs[n].at = "pending" => superseded[n].at = "cancelled"
                             /\ runs[n].at # "pending" => superseded[n] = runs[n]
    BY <1>1, <1>2 DEF Run
<1>4. superseded \in [1..Len(runs) -> Run]
    BY <1>1, <1>3
<1>5. superseded \in Seq(Run) /\ Len(superseded) = Len(runs)
    BY <1>1, <1>4
<1>6. Queued(kind) \in Run /\ runs' = Append(superseded, Queued(kind))
    BY DEF Queued, Run, Phase, Url, Trigger
<1>. HIDE DEF superseded
<1>7. /\ runs' \in Seq(Run) /\ Len(runs') = Len(runs) + 1
      /\ \A n \in 1..Len(runs) : runs'[n] = superseded[n]
      /\ runs'[Len(runs) + 1] = Queued(kind)
    BY <1>5, <1>6, AppendProperties
<1>8. DOMAIN runs' = 1..(Len(runs) + 1)
    BY <1>1, <1>7
<1>. QED
    BY <1>1, <1>3, <1>7, <1>8

\* An event preserves the invariant when it leaves the label as its run expects it: an
\* `up` comes with the label on, and the label goes off only with a `down`.
LEMMA EventKeeps ==
    ASSUME PreviewInv, NEW kind \in {"up", "down", "skip"}, Trigger(kind),
           open' \in BOOLEAN, label' \in BOOLEAN,
           kind = "up" => label',
           ~label' => kind = "down" \/ ~label
    PROVE  PreviewInv'
<1>1. TypeOK /\ OneInv /\ GroupInv /\ JobInv /\ LabelInv /\ CleanInv
    BY DEF PreviewInv
<1>. DEFINE last == Len(runs) + 1
<1>2. /\ runs' \in Seq(Run) /\ Len(runs') = last /\ DOMAIN runs' = 1..last
      /\ runs'[last] = Queued(kind)
      /\ \A m \in DOMAIN runs :
            /\ m \in DOMAIN runs' /\ runs'[m].kind = runs[m].kind
            /\ runs[m].at = "pending" => runs'[m].at = "cancelled"
            /\ runs[m].at # "pending" => runs'[m] = runs[m]
    BY <1>1, TriggerQueues
<1>3. /\ last \in Nat /\ last \in DOMAIN runs' /\ DOMAIN runs' = DOMAIN runs \cup {last}
      /\ \A m \in DOMAIN runs : m < last /\ m \in Nat
    BY <1>1, <1>2, RunTypes
<1>. HIDE DEF last
<1>4. runs'[last].kind = kind /\ runs'[last].at = "pending"
    BY <1>2 DEF Queued
<1>5. UNCHANGED <<env, planeVars>>
    BY DEF Trigger
<1>6. /\ "pending" \notin Step /\ "pending" \notin UpStep /\ "pending" \notin DownStep
      /\ "cancelled" \notin Step /\ "cancelled" \notin UpStep /\ "cancelled" \notin DownStep
    BY DEF Step, UpStep, DownStep
<1>7. \A m \in DOMAIN runs : runs'[m].at \in Step \/ runs'[m].at = "done" => runs'[m] = runs[m]
    BY <1>2, <1>6
<1>8. TypeOK'
    BY <1>1, <1>2, <1>5 DEF TypeOK, Run, Phase, planeVars
<1>9. OneInv'
    BY <1>1, <1>5 DEF OneInv, EnvInv, AtMostOne, planeVars
<1>10. GroupInv'
    <2>. SUFFICES ASSUME NEW m \in DOMAIN runs'
                  PROVE  /\ runs'[m].at = "pending" => m = last
                         /\ runs'[m].at \in Step => \A k \in DOMAIN runs' : k > m => runs'[k].at \in {"pending", "cancelled"}
                         /\ runs'[m].at \in UpStep => runs'[m].kind = "up"
                         /\ runs'[m].at \in DownStep => runs'[m].kind = "down"
                         /\ runs'[m].kind = "skip" => runs'[m].at \notin Step
        BY <1>2 DEF GroupInv, At
    <2>1. CASE m = last
        BY <1>4, <1>6, <2>1
    <2>2. CASE m \in DOMAIN runs
        <3>1. runs'[m].at # "pending"
            BY <1>2, <2>2
        <3>2. CASE runs'[m].at \in Step
            <4>1. runs'[m] = runs[m]
                BY <1>7, <2>2, <3>2
            <4>2. \A k \in DOMAIN runs : k > m => runs'[k].at \in {"pending", "cancelled"}
                <5>. SUFFICES ASSUME NEW k \in DOMAIN runs, k > m
                              PROVE  runs'[k].at \in {"pending", "cancelled"}
                    OBVIOUS
                <5>1. runs[k].at \in {"pending", "cancelled"}
                    BY <1>1, <2>2, <3>2, <4>1 DEF GroupInv
                <5>. QED
                    BY <1>2, <5>1
            <4>3. \A k \in DOMAIN runs' : k > m => runs'[k].at \in {"pending", "cancelled"}
                BY <1>3, <1>4, <4>2
            <4>. QED
                BY <1>1, <2>2, <3>1, <4>1, <4>3 DEF GroupInv
        <3>3. CASE runs'[m].at \notin Step
            BY <3>1, <3>3 DEF Step
        <3>. QED
            BY <3>2, <3>3
    <2>. QED
        BY <1>3, <2>1, <2>2
<1>11. JobInv'
    <2>. SUFFICES ASSUME NEW m \in DOMAIN runs'
                  PROVE  UpKnows(m)' /\ DownKnows(m)'
        BY DEF JobInv
    <2>1. CASE m \in DOMAIN runs /\ runs'[m].at \in Step
        <3>1. runs'[m] = runs[m] /\ UpKnows(m) /\ DownKnows(m)
            BY <1>1, <1>7, <2>1 DEF JobInv
        <3>. QED
            BY <1>5, <3>1 DEF UpKnows, EnvKnown, DownKnows, OnlySurplus, Mine, At, planeVars
    <2>2. CASE ~(m \in DOMAIN runs /\ runs'[m].at \in Step)
        <3>1. runs'[m].at \notin UpStep /\ runs'[m].at \notin DownStep
            BY <1>3, <1>4, <1>6, <2>2 DEF Step
        <3>. QED
            BY <3>1 DEF UpKnows, DownKnows, At, Retargeted, Addressed, Built, Credentialed, AgentKnown,
               UpStep, DownStep
    <2>. QED
        BY <2>1, <2>2
<1>12. LabelInv'
    <2>. SUFFICES ASSUME ~label'
                  PROVE  \/ \A m \in DOMAIN runs' : runs'[m].kind # "up"
                         \/ \E u \in DOMAIN runs' : /\ runs'[u].kind = "down"
                                                    /\ \A m \in DOMAIN runs' : m > u => runs'[m].kind = "skip"
        BY DEF LabelInv
    <2>1. CASE kind = "down"
        <3>1. \A m \in DOMAIN runs' : ~(m > last)
            BY <1>3
        <3>. QED
            BY <1>3, <1>4, <2>1, <3>1
    <2>2. CASE kind # "down"
        <3>1. ~label /\ kind = "skip"
            BY <2>2
        <3>2. CASE \A m \in DOMAIN runs : runs[m].kind # "up"
            BY <1>2, <1>3, <1>4, <3>1, <3>2
        <3>3. CASE \E u \in DOMAIN runs : /\ runs[u].kind = "down"
                                          /\ \A m \in DOMAIN runs : m > u => runs[m].kind = "skip"
            <4>1. PICK u \in DOMAIN runs : /\ runs[u].kind = "down"
                                           /\ \A m \in DOMAIN runs : m > u => runs[m].kind = "skip"
                BY <3>3
            <4>2. runs'[u].kind = "down" /\ \A m \in DOMAIN runs' : m > u => runs'[m].kind = "skip"
                BY <1>2, <1>3, <1>4, <3>1, <4>1
            <4>. QED
                BY <1>2, <4>2
        <3>. QED
            BY <1>1, <3>1, <3>2, <3>3 DEF LabelInv
    <2>. QED
        BY <2>1, <2>2
<1>13. CleanInv'
    <2>1. Nothing' <=> Nothing
        BY <1>5 DEF Nothing, OnlySurplus, planeVars
    <2>2. ASSUME \A m \in DOMAIN runs' : runs'[m].kind # "up"
          PROVE  Nothing
        BY <1>1, <1>2, <2>2 DEF CleanInv
    <2>3. ASSUME NEW k \in DOMAIN runs', runs'[k].kind = "down", runs'[k].at = "done",
                 \A m \in DOMAIN runs' : m > k => runs'[m].kind = "skip"
          PROVE  Nothing
        <3>1. k \in DOMAIN runs
            BY <1>3, <1>4, <2>3
        <3>2. runs[k].kind = "down" /\ runs[k].at = "done"
            BY <1>7, <2>3, <3>1
        <3>3. \A m \in DOMAIN runs : m > k => runs[m].kind = "skip"
            BY <1>2, <2>3
        <3>. QED
            BY <1>1, <3>1, <3>2, <3>3 DEF CleanInv, At
    <2>. QED
        BY <2>1, <2>2, <2>3 DEF CleanInv, At
<1>. QED
    BY <1>8, <1>9, <1>10, <1>11, <1>12, <1>13 DEF PreviewInv

LEMMA StepInvariant == PreviewInv /\ [Next]_vars => PreviewInv'
<1>. SUFFICES ASSUME PreviewInv, [Next]_vars PROVE PreviewInv'
    OBVIOUS
<1>1. open \in BOOLEAN /\ label \in BOOLEAN
    BY DEF PreviewInv, TypeOK
<1>2. CASE Labeled
    BY <1>1, <1>2, EventKeeps DEF Labeled
<1>3. CASE Unlabeled
    BY <1>1, <1>3, EventKeeps DEF Unlabeled
<1>8. CASE OtherLabel
    BY <1>1, <1>8, EventKeeps DEF OtherLabel
<1>4. CASE Closed
    <2>. DEFINE kind == IF label THEN "down" ELSE "skip"
    <2>1. kind \in {"up", "down", "skip"} /\ Trigger(kind) /\ label' = label /\ open' = FALSE /\ kind # "up"
        BY <1>4 DEF Closed
    <2>2. ~label' => kind = "down" \/ ~label
        BY <2>1
    <2>. HIDE DEF kind
    <2>. QED
        BY <1>1, <2>1, <2>2, EventKeeps
<1>5. CASE Reopened
    <2>. DEFINE kind == IF label THEN "up" ELSE "skip"
    <2>1. /\ kind \in {"up", "down", "skip"} /\ Trigger(kind) /\ label' = label /\ open' = TRUE
          /\ kind = "up" => label'
        BY <1>5 DEF Reopened
    <2>2. ~label' => kind = "down" \/ ~label
        BY <2>1
    <2>. HIDE DEF kind
    <2>. QED
        BY <1>1, <2>1, <2>2, EventKeeps
<1>6. ASSUME NEW n \in DOMAIN runs, Start(n) \/ Job(n)
      PROVE  PreviewInv'
    BY <1>6, StartInvariant, JobInvariant
<1>7. CASE UNCHANGED vars
    <2>1. UNCHANGED <<open, label, runs, env, agents, deployments, credentials>>
        BY <1>7 DEF vars, planeVars
    <2>2. (TypeOK /\ OneInv /\ LabelInv /\ CleanInv)'
        BY <2>1 DEF PreviewInv, TypeOK, OneInv, EnvInv, LabelInv, CleanInv, Nothing, OnlySurplus, At
    <2>3. GroupInv'
        BY <2>1 DEF PreviewInv, GroupInv, At
    <2>4. ASSUME NEW m \in DOMAIN runs
          PROVE  UpKnows(m)' /\ DownKnows(m)'
        <3>1. UpKnows(m) /\ DownKnows(m) /\ (EnvKnown(m) => EnvKnown(m)') /\ (OnlySurplus => OnlySurplus')
            BY <2>1 DEF PreviewInv, JobInv, EnvKnown, OnlySurplus, Mine
        <3>. QED
            BY <2>1, <3>1 DEF UpKnows, DownKnows, Mine, At
    <2>. QED
        BY <2>1, <2>2, <2>3, <2>4 DEF PreviewInv, JobInv
<1>. QED
    BY <1>2, <1>3, <1>4, <1>5, <1>6, <1>7, <1>8 DEF Next

LEMMA Invariance == Spec => []PreviewInv
    BY InitInvariant, StepInvariant, PTL DEF Spec

-----------------------------------------------------------------------------
(***************************************************************************)
(* What follows.                                                           *)
(***************************************************************************)
LEMMA FewAreCounted ==
    ASSUME NEW S, AtMostOne(S)
    PROVE  Cardinality(S) <= 1
<1>1. S = {} \/ \E x : S = {x}
    BY DEF AtMostOne
<1>2. Cardinality(S) = 0 \/ Cardinality(S) = 1
    BY <1>1, FS_EmptySet, FS_Singleton, Zenon
<1>. QED
    BY <1>2

\* However labels, closes, failures and cancelled runs follow each other, a pull request
\* never has two agents or two deployments of its name, and never the environments of two
\* jobs at one time.
THEOREM NoLookAlikes == Spec => []OneOfEach
<1>1. PreviewInv => OneOfEach
    BY FewAreCounted DEF PreviewInv, OneInv, EnvInv, OneOfEach
<1>. QED
    BY <1>1, Invariance, PTL

\* Whatever is left of a pull request whose label is off is left by a `down` that failed or
\* was cancelled, and that no later one made good.
THEOREM LeaksAreLosses == Spec => []LeakedOnlyByLoss
<1>1. PreviewInv => LeakedOnlyByLoss
    <2>. SUFFICES ASSUME PreviewInv, Settled, ~label, ~Nothing
                  PROVE  \E n \in DOMAIN runs :
                            /\ runs[n].kind = "down"
                            /\ runs[n].at \in {"failed", "cancelled"}
                            /\ \A m \in (n + 1)..Len(runs) : ~(runs[m].kind = "down" /\ runs[m].at = "done")
        BY DEF LeakedOnlyByLoss
    <2>1. LabelInv /\ CleanInv /\ TypeOK
        BY DEF PreviewInv
    <2>2. PICK u \in DOMAIN runs : /\ runs[u].kind = "down"
                                   /\ \A m \in DOMAIN runs : m > u => runs[m].kind = "skip"
        BY <2>1 DEF LabelInv, CleanInv
    <2>3. runs[u].at \in {"failed", "cancelled"}
        BY <2>1, <2>2 DEF CleanInv, At, Settled, Finished
    <2>4. DOMAIN runs = 1..Len(runs) /\ Len(runs) \in Nat /\ u \in Nat /\ u >= 1
        BY <2>1, RunTypes
    <2>5. \A m \in (u + 1)..Len(runs) : m \in DOMAIN runs /\ m > u
        BY <2>4
    <2>. QED
        BY <2>2, <2>3, <2>5
<1>. QED
    BY <1>1, Invariance, PTL

\* The runs of a pull request take their steps one at a time: whatever else a step of the
\* specification does, it ends at most the one run that takes it.
LEMMA WhoEnds ==
    ASSUME PreviewInv, [Next]_vars, NEW n \in DOMAIN runs, runs[n].kind # "skip",
           runs[n].at # "done", runs'[n].at = "done"
    PROVE  CreateDeployment(n) \/ UpdateDeployment(n) \/ DeleteCredentials(n)
<1>1. TypeOK /\ n \in DOMAIN runs /\ runs[n].at \in Phase
    BY RunTypes DEF PreviewInv
<1>2. ASSUME NEW kind \in {"up", "down", "skip"}, Trigger(kind)
      PROVE  FALSE
    BY <1>1, <1>2, TriggerQueues
<1>3. ~Labeled /\ ~Unlabeled /\ ~Closed /\ ~Reopened /\ ~OtherLabel
    BY <1>2 DEF Labeled, Unlabeled, Closed, Reopened, OtherLabel
<1>4. ~(UNCHANGED vars)
    BY DEF vars
<1>5. PICK m \in DOMAIN runs : Start(m) \/ Job(m)
    BY <1>3, <1>4 DEF Next
<1>6. runs[m] \in Run /\ \A k \in DOMAIN runs : runs[k] \in Run
    BY <1>1, RunTypes
<1>7. ASSUME NEW step, Goto(m, step)
      PROVE  m = n /\ step = "done"
    <2>1. runs'[n].at = IF n = m THEN step ELSE runs[n].at
        BY <1>1, <1>6, <1>7 DEF Goto, Run
    <2>. QED
        BY <2>1
<1>8. ASSUME NEW step, NEW id, step # "done", GotoSeen(m, step, id)
      PROVE  FALSE
    <2>1. runs'[n].at = IF n = m THEN step ELSE runs[n].at
        BY <1>1, <1>6, <1>8 DEF GotoSeen, Run
    <2>. QED
        BY <1>8, <2>1
<1>9. ~Start(m)
    <2>. SUFFICES ASSUME Start(m) PROVE FALSE
        OBVIOUS
    <2>1. Goto(m, IF runs[m].kind = "skip" THEN "done" ELSE "findEnv")
        BY DEF Start, Goto
    <2>. QED
        BY <1>7, <2>1
<1>10. ~EnsureDomain(m)
    <2>. SUFFICES ASSUME NEW d, runs' = [runs EXCEPT ![m].at = "deployServices", ![m].url = d]
                  PROVE  FALSE
        BY DEF EnsureDomain
    <2>1. runs'[n].at = IF n = m THEN "deployServices" ELSE runs[n].at
        BY <1>1, <1>6 DEF Run
    <2>. QED
        BY <2>1
<1>17. ASSUME NEW step, NEW id, step # "done", runs' = [runs EXCEPT ![m].at = step, ![m].env = id]
       PROVE  FALSE
    <2>1. runs'[n].at = IF n = m THEN step ELSE runs[n].at
        BY <1>1, <1>6, <1>17 DEF Run
    <2>. QED
        BY <1>17, <2>1
<1>11. ~FindEnv(m) /\ ~FindDeployment(m)
    <2>1. \A step : Goto(m, step) => step = "done"
        BY <1>7
    <2>2. FindDeployment(m) => \E step : Goto(m, step) /\ step # "done"
        BY DEF FindDeployment
    <2>3. \A up, down : up # "done" /\ down # "done" => (IF runs[m].kind = "up" THEN up ELSE down) # "done"
        OBVIOUS
    <2>4. ~FindEnv(m)
        BY <1>17, <2>1, <2>3 DEF FindEnv
    <2>. QED
        BY <2>1, <2>2, <2>4
<1>18. ~CreateEnv(m)
    BY <1>17 DEF CreateEnv
<1>12.  ~Retarget(m) /\ ~DeployServices(m) /\ ~EnsureCredential(m)
    BY <1>7 DEF Retarget, DeployServices, EnsureCredential
<1>13. ~FindAgent(m) /\ ~CreateAgent(m) /\ ~UpdateAgent(m)
    BY <1>7, <1>8 DEF FindAgent, CreateAgent, UpdateAgent
<1>14. ~DeleteEnv(m) /\ ~ArchiveDeployment(m) /\ ~ArchiveAgent(m) /\ ~Fail(m)
    BY <1>7 DEF DeleteEnv, ArchiveDeployment, ArchiveAgent, Fail
<1>15. CreateDeployment(m) \/ UpdateDeployment(m) \/ DeleteCredentials(m)
    BY <1>5, <1>9, <1>10, <1>11, <1>12, <1>13, <1>14, <1>18 DEF Job
<1>16. m = n
    BY <1>7, <1>15 DEF CreateDeployment, UpdateDeployment, DeleteCredentials
<1>. QED
    BY <1>15, <1>16

\* An `up` that ends well leaves the PR's branch deployed behind the announced URL and the
\* deployment pinned to the newest agent, whatever stopped half way before it.
THEOREM UpsEndWell == Spec => UpEndsWell
<1>1. ASSUME PreviewInv, [Next]_vars, NEW n \in DOMAIN runs, runs[n].kind = "up",
             runs[n].at # "done", runs'[n].at = "done"
      PROVE  /\ \E e \in env' : e.built = "pr" /\ runs[n].url \in e.domains
             /\ runs[n].url \in credentials'
             /\ \E a \in agents', d \in deployments' : d.agent = a.id /\ d.pinned = a.version
    <2>1. CreateDeployment(n) \/ UpdateDeployment(n) \/ DeleteCredentials(n)
        BY <1>1, WhoEnds
    <2>2. ~DeleteCredentials(n)
        BY <1>1, Here DEF DeleteCredentials, At, DownStep
    <2>3. /\ runs[n].at \in {"createDeployment", "updateDeployment"}
          /\ UNCHANGED <<env, agents, credentials>>
          /\ \E d \in Deployment, a \in agents :
                deployments' = {d} /\ d.agent = a.id /\ d.pinned = a.version
        BY <1>1, <2>1, <2>2, UpEnds
    <2>4. (\E e \in env : e.built = "pr" /\ runs[n].url \in e.domains) /\ runs[n].url \in credentials
        BY <1>1, <2>3, EnvReady DEF Ready, Built, Credentialed, AgentKnown
    <2>. QED
        BY <2>3, <2>4
<1>2. PreviewInv /\ [Next]_vars =>
        [\A n \in DOMAIN runs :
            (runs[n].kind = "up" /\ runs[n].at # "done" /\ runs'[n].at = "done") =>
                /\ \E e \in env' : e.built = "pr" /\ runs[n].url \in e.domains
                /\ runs[n].url \in credentials'
                /\ \E a \in agents', d \in deployments' : d.agent = a.id /\ d.pinned = a.version]_vars
    BY <1>1
<1>. QED
    BY <1>2, Invariance, PTL DEF Spec, UpEndsWell

\* A `down` that ends well leaves nothing of the pull request but the surplus of a repeated
\* environmentCreate.
THEOREM DownsLeaveNothing == Spec => DownLeavesNothing
<1>1. ASSUME PreviewInv, [Next]_vars, NEW n \in DOMAIN runs, runs[n].kind = "down",
             runs[n].at # "done", runs'[n].at = "done"
      PROVE  Nothing'
    <2>1. CreateDeployment(n) \/ UpdateDeployment(n) \/ DeleteCredentials(n)
        BY <1>1, WhoEnds
    <2>2. ~CreateDeployment(n) /\ ~UpdateDeployment(n)
        BY <1>1, Here DEF CreateDeployment, UpdateDeployment, At, UpStep
    <2>. QED
        BY <1>1, <2>1, <2>2, DownEnds
<1>2. PreviewInv /\ [Next]_vars =>
        [\A n \in DOMAIN runs :
            (runs[n].kind = "down" /\ runs[n].at # "done" /\ runs'[n].at = "done") => Nothing']_vars
    BY <1>1
<1>. QED
    BY <1>2, Invariance, PTL DEF Spec, DownLeavesNothing

=============================================================================
