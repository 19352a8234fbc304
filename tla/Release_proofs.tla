--------------------------- MODULE Release_proofs ---------------------------
(***************************************************************************)
(* The sync keeps shared variables alike; no deploy, raced, failed or      *)
(* killed, serves code ahead of its schema.  For any services of the       *)
(* manifest and any of its variables of which each has one, every set of   *)
(* migrations and every content of .env, blank lines included.             *)
(***************************************************************************)
EXTENDS Release, TLAPS

-----------------------------------------------------------------------------
(***************************************************************************)
(* The inductive invariant of the sync: what it has passed is pushed, and  *)
(* what it remembers of the service it is at is what Railway has, or is    *)
(* replaced already.                                                       *)
(***************************************************************************)

Final(v) == IF Kind(v) = "literal" THEN Literal ELSE dotenv[v]
Has(svc, v) == Kind(v) # "env_optional" => remote[svc][v] = Final(v) /\ Final(v) # Unset
Pushed(svc) == svc \in provisioned => \A v \in NamesOf(svc) : Has(svc, v)
Passed == sync.step # "idle" => \A i \in 1..(sync.svc - 1) : Pushed(Order[i])
PassedHere == sync.step = "variable" => \A j \in 1..(sync.name - 1) : Has(Service, Names(Service)[j])
Remembered ==
    sync.step = "variable" =>
        \A v \in NamesOf(Service) : sync.current[v] = remote[Service][v] \/ remote[Service][v] = Final(v)

EInv == ETypeOK /\ Passed /\ PassedHere /\ Remembered /\ SharedAgree

(***************************************************************************)
(* And of the deploys: the files a deploy has left behind are in the       *)
(* schema, also while its list was read before another one's rows.         *)
(***************************************************************************)

Migrating(s) == deploy[s].step \in {"applying", "recording"}

Behind == \A s \in Migrators : Migrating(s) => M!Files(deploy[s].release) \ deploy[s].pending \subseteq schema
Recording == \A s \in Migrators : deploy[s].step = "recording" => M!First(s) \in schema

DInv == M!MTypeOK /\ SchemaNeverClaimed /\ CodeAfterSchema /\ Behind /\ Recording

RInv == EInv /\ DInv

-----------------------------------------------------------------------------
(***************************************************************************)
(* What the assumption on the manifest gives.                              *)
(***************************************************************************)

LEMMA OrderFacts ==
    /\ Len(Order) \in Nat \ {0} /\ DOMAIN Order = 1..Len(Order)
    /\ \A i \in DOMAIN Order : Order[i] \in Watched
    /\ \A svc \in Watched : \E i \in 1..Len(Order) : Order[i] = svc
<1> DEFINE O == Order
<1>1. O \in Seq(Watched) /\ O # <<>> /\ {O[i] : i \in DOMAIN O} = Watched
  BY EnvAssumption
<1> HIDE DEF O
<1>2. Len(O) \in Nat \ {0} /\ DOMAIN O = 1..Len(O) /\ (\A i \in DOMAIN O : O[i] \in Watched)
  BY <1>1
<1>3. \A svc \in Watched : \E i \in 1..Len(O) : O[i] = svc
  BY <1>1, <1>2
<1> QED
  BY <1>2, <1>3 DEF O

LEMMA NameFacts ==
    ASSUME NEW svc \in Watched
    PROVE  /\ Len(Names(svc)) \in Nat \ {0} /\ DOMAIN Names(svc) = 1..Len(Names(svc))
           /\ \A i \in DOMAIN Names(svc) : Names(svc)[i] \in NamesOf(svc)
           /\ NamesOf(svc) \subseteq Observed
           /\ \A v \in NamesOf(svc) : \E i \in 1..Len(Names(svc)) : Names(svc)[i] = v
<1> DEFINE N == Names(svc)
<1>1. N \in Seq(Observed) /\ N # <<>>
  BY EnvAssumption
<1>2. NamesOf(svc) = {N[i] : i \in DOMAIN N}
  BY DEF NamesOf
<1> HIDE DEF N
<1>3. Len(N) \in Nat \ {0} /\ DOMAIN N = 1..Len(N) /\ (\A i \in DOMAIN N : N[i] \in Observed)
  BY <1>1
<1>4. /\ \A i \in DOMAIN N : N[i] \in NamesOf(svc)
      /\ NamesOf(svc) \subseteq Observed
      /\ \A v \in NamesOf(svc) : \E i \in 1..Len(N) : N[i] = v
  BY <1>2, <1>3
<1> QED
  BY <1>3, <1>4 DEF N

LEMMA ValueFacts ==
    /\ Unset \in AnyValue
    /\ \A v \in Observed : Value(v) \subseteq AnyValue
    /\ \A v \in Observed : Kind(v) = "literal" => Literal \in AnyValue
    /\ Literal # Unset
  BY DEF AnyValue, Value, Literal, Unset

LEMMA Put ==
    ASSUME ETypeOK, NEW svc \in Watched, NEW v \in NamesOf(svc), NEW x \in AnyValue,
           remote' = [remote EXCEPT ![svc][v] = x]
    PROVE  /\ DOMAIN remote' = Watched
           /\ \A s \in Watched : remote'[s] \in [NamesOf(s) -> AnyValue]
           /\ remote'[svc][v] = x
           /\ \A s \in Watched : \A u \in NamesOf(s) : (s # svc \/ u # v) => remote'[s][u] = remote[s][u]
<1>1. DOMAIN remote = Watched /\ (\A s \in Watched : remote[s] \in [NamesOf(s) -> AnyValue])
  BY DEF ETypeOK
<1>2. remote'[svc] = [remote[svc] EXCEPT ![v] = x]
  BY <1>1
<1>3. \A s \in Watched \ {svc} : remote'[s] = remote[s]
  BY <1>1
<1>4. remote'[svc] \in [NamesOf(svc) -> AnyValue] /\ remote'[svc][v] = x
      /\ (\A u \in NamesOf(svc) \ {v} : remote'[svc][u] = remote[svc][u])
  BY <1>1, <1>2
<1>5. DOMAIN remote' = Watched
  BY <1>1
<1> QED
  BY <1>1, <1>3, <1>4, <1>5

-----------------------------------------------------------------------------
(***************************************************************************)
(* Where a sync stands.                                                    *)
(***************************************************************************)

LEMMA InitialSync == EInit => EInv
<1> SUFFICES ASSUME EInit PROVE EInv
  OBVIOUS
<1>1. Idle \in [step : {"idle", "service", "variable"}, svc : Nat, name : Nat, current : [Observed -> AnyValue]]
  BY ValueFacts DEF Idle
<1>2. ETypeOK
  BY <1>1, ValueFacts DEF EInit, ETypeOK, Idle
<1> QED
  BY <1>2 DEF EInit, EInv, Passed, PassedHere, Remembered, SharedAgree, Idle

\* Nothing but the operator's edit is done outside a sync that could disturb it.
LEMMA OutsideSync ==
    ASSUME EInv,
           \/ \E v \in Observed : \E value \in Value(v) : Edit(v, value)
           \/ \E v \in Observed : \E value \in Value(v) : \E svc \in Watched : SetByHand(svc, v, value)
           \/ \E svc \in Watched : Provision(svc)
           \/ Begin
    PROVE  EInv'
<1> USE DEF EInv
<1>1. CASE \E v \in Observed : \E value \in Value(v) : Edit(v, value)
  BY <1>1, ValueFacts DEF Edit, ETypeOK, Idle, Passed, PassedHere, Remembered, SharedAgree, Service, Order
<1>2. CASE \E v \in Observed : \E value \in Value(v) : \E svc \in Watched : SetByHand(svc, v, value)
  <2> PICK v \in Observed : \E value \in Value(v) : \E svc \in Watched : SetByHand(svc, v, value)
    BY <1>2
  <2> PICK value \in Value(v), svc \in Watched : SetByHand(svc, v, value)
    OBVIOUS
  <2>1. v \in NamesOf(svc) /\ Kind(v) = "env_optional" /\ value \in AnyValue /\ sync = Idle
        /\ remote' = [remote EXCEPT ![svc][v] = value] /\ UNCHANGED <<dotenv, provisioned, sync, clean>>
    BY ValueFacts DEF SetByHand
  <2>2. /\ DOMAIN remote' = Watched
        /\ \A s \in Watched : remote'[s] \in [NamesOf(s) -> AnyValue]
        /\ \A s \in Watched : \A u \in NamesOf(s) : u # v => remote'[s][u] = remote[s][u]
    BY <2>1, Put
  <2>3. ETypeOK'
    BY <2>1, <2>2 DEF ETypeOK, Idle
  <2>4. SharedAgree'
    BY <2>1, <2>2 DEF SharedAgree, ETypeOK
  <2> QED
    BY <2>1, <2>3, <2>4 DEF Idle, Passed, PassedHere, Remembered
<1>3. CASE \E svc \in Watched : Provision(svc)
  <2>1. sync.step = "idle" /\ clean' = FALSE /\ UNCHANGED <<dotenv, remote, sync>> /\ provisioned' \subseteq Watched
    BY <1>3 DEF Provision, ETypeOK, Idle
  <2>2. ETypeOK'
    BY <2>1 DEF ETypeOK, Idle
  <2> QED
    BY <2>1, <2>2 DEF Passed, PassedHere, Remembered, SharedAgree
<1>4. CASE Begin
  <2>1. sync' = [step |-> "service", svc |-> 1, name |-> 0, current |-> [v \in Observed |-> Unset]]
    BY <1>4 DEF Begin, Idle
  <2>2. clean' = FALSE /\ UNCHANGED <<dotenv, provisioned, remote>>
    BY <1>4 DEF Begin
  <2>3. sync' \in [step : {"idle", "service", "variable"}, svc : Nat, name : Nat, current : [Observed -> AnyValue]]
        /\ sync'.step = "service" /\ sync'.svc \in DOMAIN Order
    BY <2>1, OrderFacts, ValueFacts
  <2>4. ETypeOK'
    BY <2>2, <2>3 DEF ETypeOK
  <2> QED
    BY <2>1, <2>2, <2>4 DEF Passed, PassedHere, Remembered, SharedAgree
<1> QED
  BY <1>1, <1>2, <1>3, <1>4

\* The end of a service, where everything so far is pushed, is the end of the sync with
\* everything alike, or the start of the next service.
LEMMA Onwards ==
    ASSUME ETypeOK, sync.step # "idle", sync' = Onward, clean' = LastOne,
           UNCHANGED <<dotenv, provisioned>>,
           DOMAIN remote' = Watched,
           \A s \in Watched : remote'[s] \in [NamesOf(s) -> AnyValue],
           \A i \in 1..sync.svc : Pushed(Order[i])'
    PROVE  EInv'
<1>1. /\ sync \in [step : {"idle", "service", "variable"}, svc : Nat, name : Nat, current : [Observed -> AnyValue]]
      /\ sync.svc \in 1..Len(Order) /\ Len(Order) \in Nat
  BY OrderFacts DEF ETypeOK
<1>2. CASE sync.svc < Len(Order)
  <2>1. sync' = [sync EXCEPT !.step = "service", !.svc = @ + 1]
    BY <1>2 DEF Onward
  <2>2. clean' = FALSE
    <3>1. ~LastOne
      BY <1>1, <1>2 DEF LastOne
    <3> QED
      BY <3>1
  <2>3. /\ sync' \in [step : {"idle", "service", "variable"}, svc : Nat, name : Nat, current : [Observed -> AnyValue]]
        /\ sync'.step = "service" /\ sync'.svc = sync.svc + 1
    <3> DEFINE m == [sync EXCEPT !.step = "service"]
    <3>1. /\ m \in [step : {"idle", "service", "variable"}, svc : Nat, name : Nat, current : [Observed -> AnyValue]]
          /\ m.step = "service" /\ m.svc = sync.svc
      BY <1>1
    <3>2. sync' = [m EXCEPT !.svc = sync.svc + 1]
      BY <1>1, <2>1
    <3> HIDE DEF m
    <3> QED
      BY <1>1, <3>1, <3>2
  <2>4. sync'.svc \in DOMAIN Order
    BY <1>1, <1>2, <2>3, OrderFacts
  <2>5. ETypeOK'
    BY <2>2, <2>3, <2>4 DEF ETypeOK
  <2>6. Passed'
    BY <1>1, <2>3 DEF Passed
  <2> QED
    BY <2>2, <2>3, <2>5, <2>6 DEF EInv, PassedHere, Remembered, SharedAgree
<1>3. CASE sync.svc = Len(Order)
  <2>1. sync' = [step |-> "idle", svc |-> 0, name |-> 0, current |-> [v \in Observed |-> Unset]]
    BY <1>1, <1>3 DEF Onward, Idle
  <2>2. clean' = TRUE
    BY <1>3 DEF LastOne
  <2>3. /\ sync' \in [step : {"idle", "service", "variable"}, svc : Nat, name : Nat, current : [Observed -> AnyValue]]
        /\ sync'.step = "idle" /\ sync' = Idle
    BY <2>1, ValueFacts DEF Idle
  <2>4. ETypeOK'
    BY <2>2, <2>3 DEF ETypeOK
  <2>5. \A s \in Watched : Pushed(s)'
    BY <1>3, OrderFacts
  <2>6. \A s \in provisioned' : \A v \in NamesOf(s) :
            Kind(v) # "env_optional" => remote'[s][v] = Final(v) /\ Final(v) # Unset
    BY <2>5 DEF Pushed, Has, Final, ETypeOK
  <2>7. SharedAgree'
    BY <2>6 DEF SharedAgree
  <2> QED
    BY <2>3, <2>4, <2>7 DEF EInv, Passed, PassedHere, Remembered
<1> QED
  BY <1>1, <1>2, <1>3

\* One variable is dealt with: Railway has its value, or it is an optional one.
LEMMA Moved ==
    ASSUME EInv, sync.step = "variable", Advance,
           UNCHANGED <<dotenv, provisioned>>,
           NEW S, S = Service, NEW N, N = Name,
           DOMAIN remote' = Watched,
           \A s \in Watched : remote'[s] \in [NamesOf(s) -> AnyValue],
           \A s \in Watched : \A u \in NamesOf(s) : (s # S \/ u # N) => remote'[s][u] = remote[s][u],
           remote'[S][N] \in {remote[S][N], Final(N)},
           Has(S, N)'
    PROVE  EInv'
<1>1. /\ sync \in [step : {"idle", "service", "variable"}, svc : Nat, name : Nat, current : [Observed -> AnyValue]]
      /\ sync.svc \in DOMAIN Order /\ S \in provisioned /\ S \in Watched
      /\ sync.name \in 1..Len(Names(S)) /\ Len(Names(S)) \in Nat /\ N \in NamesOf(S)
  <2>1. /\ sync \in [step : {"idle", "service", "variable"}, svc : Nat, name : Nat, current : [Observed -> AnyValue]]
        /\ sync.svc \in DOMAIN Order /\ S \in provisioned /\ S \in Watched /\ sync.name \in DOMAIN Names(S)
    BY OrderFacts DEF EInv, ETypeOK, Service
  <2> QED
    BY <2>1, NameFacts DEF Name
<1>2. S = Order[sync.svc] /\ N = Names(S)[sync.name]
  BY DEF Service, Name
<1>3. Kind(N) # "env_optional" => remote'[S][N] = Final(N) /\ Final(N) # Unset
  BY DEF Has, Final
<1>4. \A u : Final(u)' = Final(u)
  BY DEF Final
<1>5. ASSUME NEW s \in Watched, NEW u \in NamesOf(s), Has(s, u) PROVE Has(s, u)'
  BY <1>2, <1>3, <1>4, <1>5 DEF Has
<1>6. \A i \in 1..(sync.svc - 1) : Pushed(Order[i])'
  <2> TAKE i \in 1..(sync.svc - 1)
  <2>1. Pushed(Order[i]) /\ Order[i] \in Watched
    BY <1>1, OrderFacts DEF EInv, Passed
  <2> QED
    BY <2>1, <1>5 DEF Pushed
<1>7. \A j \in 1..sync.name : Has(S, Names(S)[j])'
  <2> TAKE j \in 1..sync.name
  <2>1. CASE j = sync.name
    BY <1>2, <1>3, <1>4, <2>1 DEF Has
  <2>2. CASE j < sync.name
    <3>1. Has(S, Names(S)[j]) /\ Names(S)[j] \in NamesOf(S)
      BY <1>1, <2>2, NameFacts DEF EInv, PassedHere, Service
    <3> QED
      BY <1>1, <1>5, <3>1
  <2> QED
    BY <1>1, <2>1, <2>2
<1>8. CASE sync.name < Len(Names(S))
  <2>1. sync' = [sync EXCEPT !.name = @ + 1] /\ clean' = FALSE
    BY <1>8 DEF Advance, Service
  <2>2. /\ sync' \in [step : {"idle", "service", "variable"}, svc : Nat, name : Nat, current : [Observed -> AnyValue]]
        /\ sync'.step = "variable" /\ sync'.svc = sync.svc /\ sync'.name = sync.name + 1
        /\ sync'.current = sync.current
    BY <1>1, <2>1
  <2>3. Service' = S
    BY <1>2, <2>2 DEF Service
  <2>4. ETypeOK'
    <3>1. /\ sync'.svc \in DOMAIN Order /\ S \in provisioned' /\ S \in Watched
          /\ sync'.name \in DOMAIN Names(S)
      BY <1>1, <1>8, <2>2, NameFacts
    <3>2. dotenv' \in [Observed -> AnyValue] /\ provisioned' \subseteq Watched
      BY DEF EInv, ETypeOK
    <3> QED
      BY <2>1, <2>2, <2>3, <3>1, <3>2 DEF ETypeOK
  <2>5. Passed'
    BY <1>6, <2>2 DEF Passed
  <2>6. PassedHere'
    BY <1>1, <1>7, <2>2, <2>3 DEF PassedHere
  <2>7. Remembered'
    <3>1. \A v \in NamesOf(S) : sync.current[v] = remote[S][v] \/ remote[S][v] = Final(v)
      BY <1>2 DEF EInv, Remembered
    <3>2. \A v \in NamesOf(S) : sync.current[v] = remote'[S][v] \/ remote'[S][v] = Final(v)
      BY <1>1, <1>2, <3>1
    <3> QED
      BY <1>4, <2>2, <2>3, <3>2 DEF Remembered
  <2> QED
    BY <2>1, <2>4, <2>5, <2>6, <2>7 DEF EInv, SharedAgree
<1>9. CASE sync.name = Len(Names(S))
  <2>1. sync' = Onward /\ clean' = LastOne
    BY <1>9, <1>1 DEF Advance, Service
  <2>2. Pushed(S)'
    BY <1>1, <1>7, <1>9, NameFacts DEF Pushed
  <2>3. \A i \in 1..sync.svc : Pushed(Order[i])'
    <3> TAKE i \in 1..sync.svc
    <3>1. CASE i = sync.svc
      BY <1>2, <2>2, <3>1
    <3>2. CASE i # sync.svc
      BY <1>1, <1>6, <3>2, OrderFacts
    <3> QED
      BY <3>1, <3>2
  <2> QED
    BY <2>1, <2>3, Onwards DEF EInv
<1> QED
  BY <1>1, <1>8, <1>9

LEMMA SkipKeeps == EInv /\ SkipService => EInv'
<1> SUFFICES ASSUME EInv, SkipService PROVE EInv'
  OBVIOUS
<1>1. /\ sync.step = "service" /\ Service \notin provisioned /\ sync' = Onward /\ clean' = LastOne
      /\ UNCHANGED <<dotenv, provisioned, remote>>
  BY DEF SkipService
<1>2. ETypeOK /\ sync.step # "idle" /\ sync.svc \in 1..Len(Order) /\ Len(Order) \in Nat
  BY <1>1, OrderFacts DEF EInv, ETypeOK
<1>3. \A i \in 1..sync.svc : Pushed(Order[i])
  <2> TAKE i \in 1..sync.svc
  <2>1. CASE i = sync.svc
    BY <1>1, <2>1 DEF Pushed, Service
  <2>2. CASE i # sync.svc
    <3>1. i \in 1..(sync.svc - 1)
      BY <1>2, <2>2
    <3> QED
      BY <1>2, <3>1 DEF EInv, Passed
  <2> QED
    BY <2>1, <2>2
<1>4. \A i \in 1..sync.svc : Pushed(Order[i])'
  BY <1>1, <1>3 DEF Pushed, Has, Final
<1> QED
  BY <1>1, <1>2, <1>4, Onwards DEF ETypeOK

LEMMA ReadKeeps == EInv /\ ReadService => EInv'
<1> SUFFICES ASSUME EInv, ReadService PROVE EInv'
  OBVIOUS
<1> DEFINE S == Order[sync.svc]
           seen == [v \in Observed |-> IF v \in NamesOf(S) THEN remote[S][v] ELSE Unset]
           T == [step : {"idle", "service", "variable"}, svc : Nat, name : Nat, current : [Observed -> AnyValue]]
<1>1. /\ sync.step = "service" /\ S \in provisioned
      /\ sync' = [sync EXCEPT !.step = "variable", !.name = 1, !.current = seen]
      /\ UNCHANGED <<dotenv, provisioned, remote, clean>>
  BY DEF ReadService, Service
<1>2. /\ ETypeOK /\ sync \in T /\ S \in Watched /\ ~clean
  BY <1>1 DEF EInv, ETypeOK
<1>3. seen \in [Observed -> AnyValue] /\ (\A v \in NamesOf(S) : seen[v] = remote[S][v])
  <2>1. remote[S] \in [NamesOf(S) -> AnyValue] /\ NamesOf(S) \subseteq Observed /\ Unset \in AnyValue
    BY <1>2, NameFacts, ValueFacts DEF ETypeOK
  <2> QED
    BY <2>1
<1>4. /\ sync' \in T /\ sync'.step = "variable" /\ sync'.svc = sync.svc /\ sync'.name = 1
      /\ sync'.current = seen
  <2> HIDE DEF seen
  <2> QED
    BY <1>1, <1>2, <1>3
<1>5. Service' = S
  BY <1>4 DEF Service
<1>6. sync'.name \in DOMAIN Names(S)
  BY <1>2, <1>4, NameFacts
<1> HIDE DEF seen
<1>7. ETypeOK'
  <2>1. sync'.svc \in DOMAIN Order
    BY <1>1, <1>4 DEF EInv, ETypeOK
  <2> QED
    BY <1>1, <1>2, <1>4, <1>5, <1>6, <2>1 DEF ETypeOK
<1>8. Passed'
  BY <1>1, <1>4 DEF EInv, Passed, Pushed, Has, Final
<1>9. PassedHere' /\ Remembered'
  BY <1>1, <1>3, <1>4, <1>5 DEF PassedHere, Remembered
<1> QED
  BY <1>1, <1>2, <1>7, <1>8, <1>9 DEF EInv, SharedAgree

\* What the loop over the variables of a service stands at.
LEMMA Here ==
    ASSUME EInv, sync.step = "variable"
    PROVE  /\ Service \in Watched /\ Name \in NamesOf(Service) /\ Name \in Observed
           /\ Resolved = Final(Name) /\ Resolved \in AnyValue
<1>1. Service \in Watched /\ sync.name \in DOMAIN Names(Service) /\ dotenv \in [Observed -> AnyValue]
  BY OrderFacts DEF EInv, ETypeOK, Service
<1>2. Name \in NamesOf(Service) /\ Name \in Observed
  BY <1>1, NameFacts DEF Name
<1> QED
  BY <1>1, <1>2, ValueFacts DEF Resolved, Final

LEMMA LeaveKeeps == EInv /\ Leave => EInv'
<1> SUFFICES ASSUME EInv, Leave PROVE EInv'
  OBVIOUS
<1>1. /\ sync.step = "variable" /\ Advance /\ UNCHANGED <<dotenv, provisioned, remote>>
      /\ \/ Kind(Name) = "env_optional"
         \/ Resolved # Unset /\ sync.current[Name] = Resolved
  BY DEF Leave
<1>2. Has(Service, Name)
  BY <1>1, Here DEF EInv, Remembered, Has
<1>3. PICK S, N : S = Service /\ N = Name
  OBVIOUS
<1>4. Has(S, N)'
  BY <1>1, <1>2, <1>3 DEF Has, Final
<1> QED
  BY <1>1, <1>3, <1>4, Moved DEF EInv, ETypeOK

LEMMA UpsertKeeps == EInv /\ Upsert => EInv'
<1> SUFFICES ASSUME EInv, Upsert PROVE EInv'
  OBVIOUS
<1>1. /\ sync.step = "variable" /\ Advance /\ UNCHANGED <<dotenv, provisioned>>
      /\ Resolved # Unset /\ remote' = [remote EXCEPT ![Service][Name] = Resolved]
  BY DEF Upsert
<1>2. PICK S, N : S = Service /\ N = Name
  OBVIOUS
<1>3. S \in Watched /\ N \in NamesOf(S) /\ Resolved = Final(N) /\ Final(N) \in AnyValue
  BY <1>1, <1>2, Here
<1>4. remote' = [remote EXCEPT ![S][N] = Final(N)]
  BY <1>1, <1>2, <1>3
<1>5. /\ DOMAIN remote' = Watched
      /\ \A s \in Watched : remote'[s] \in [NamesOf(s) -> AnyValue]
      /\ remote'[S][N] = Final(N)
      /\ \A s \in Watched : \A u \in NamesOf(s) : (s # S \/ u # N) => remote'[s][u] = remote[s][u]
  BY <1>3, <1>4, Put DEF EInv
<1>6. Has(S, N)'
  BY <1>1, <1>3, <1>5 DEF Has, Final
<1> QED
  BY <1>1, <1>2, <1>5, <1>6, Moved

LEMMA StopKeeps == EInv /\ (Missing \/ \E pushed \in BOOLEAN : Break(pushed)) => EInv'
<1> SUFFICES ASSUME EInv, Missing \/ \E pushed \in BOOLEAN : Break(pushed) PROVE EInv'
  OBVIOUS
<1>1. /\ sync.step # "idle" /\ sync' = Idle /\ UNCHANGED <<dotenv, provisioned, clean>>
      /\ \/ remote' = remote
         \/ sync.step = "variable" /\ remote' = [remote EXCEPT ![Service][Name] = Resolved]
  BY DEF Missing, Break
<1>2. ~clean
  BY <1>1 DEF EInv, ETypeOK
<1>3. DOMAIN remote' = Watched /\ \A s \in Watched : remote'[s] \in [NamesOf(s) -> AnyValue]
  <2>1. CASE remote' = remote
    BY <2>1 DEF EInv, ETypeOK
  <2>2. CASE sync.step = "variable" /\ remote' = [remote EXCEPT ![Service][Name] = Resolved]
    BY <2>2, Here, Put DEF EInv
  <2> QED
    BY <1>1, <2>1, <2>2
<1>4. Idle \in [step : {"idle", "service", "variable"}, svc : Nat, name : Nat, current : [Observed -> AnyValue]]
      /\ Idle.step = "idle"
  BY ValueFacts DEF Idle
<1>5. ETypeOK'
  BY <1>1, <1>2, <1>3, <1>4 DEF EInv, ETypeOK
<1> QED
  BY <1>1, <1>2, <1>4, <1>5 DEF EInv, Passed, PassedHere, Remembered, SharedAgree

LEMMA SyncStep == EInv /\ [ENext]_evars => EInv'
<1> SUFFICES ASSUME EInv, [ENext]_evars PROVE EInv'
  OBVIOUS
<1>1. CASE UNCHANGED evars
  BY <1>1 DEF evars, EInv, ETypeOK, Passed, PassedHere, Remembered, SharedAgree, Pushed, Has, Final, Service
<1>2. CASE ENext
  BY <1>2, OutsideSync, SkipKeeps, ReadKeeps, LeaveKeeps, UpsertKeeps, StopKeeps DEF ENext
<1> QED
  BY <1>1, <1>2

-----------------------------------------------------------------------------
(***************************************************************************)
(* The deploys.                                                            *)
(***************************************************************************)

\* A step of one deploy: what it leaves behind must be in the schema.
LEMMA OneDeploy ==
    ASSUME DInv, NEW s \in Migrators, NEW d \in M!Deploy, deploy' = [deploy EXCEPT ![s] = d],
           schema \subseteq schema', recorded' \subseteq schema',
           serving' = serving \/ (serving' = [serving EXCEPT ![s] = deploy[s].release]
                                   /\ M!Files(deploy[s].release) \subseteq schema'),
           d.step \in {"applying", "recording"} => M!Files(d.release) \ d.pending \subseteq schema',
           d.step = "recording" => d.pending = deploy[s].pending /\ M!First(s) \in schema'
    PROVE  DInv'
<1>1. /\ deploy \in [Migrators -> M!Deploy] /\ serving \in [Migrators -> Versions \cup {0}]
      /\ \A t \in Migrators : M!Files(serving[t]) \subseteq schema
  BY DEF DInv, M!MTypeOK, CodeAfterSchema, M!SchemaFirst
<1>2. deploy' \in [Migrators -> M!Deploy] /\ deploy'[s] = d /\ (\A t \in Migrators \ {s} : deploy'[t] = deploy[t])
  BY <1>1
<1>3. /\ serving' \in [Migrators -> Versions \cup {0}]
      /\ \A t \in Migrators : M!Files(serving'[t]) \subseteq schema'
  <2>1. deploy[s].release \in Versions \cup {0}
    BY <1>1 DEF M!Deploy
  <2> QED
    BY <1>1, <2>1
<1>4. M!MTypeOK' /\ SchemaNeverClaimed' /\ CodeAfterSchema'
  BY <1>2, <1>3 DEF M!MTypeOK, SchemaNeverClaimed, M!RecordedIsApplied, CodeAfterSchema, M!SchemaFirst, M!Files
<1>5. Behind'
  <2> SUFFICES ASSUME NEW t \in Migrators, deploy'[t].step \in {"applying", "recording"}
               PROVE  M!Files(deploy'[t].release) \ deploy'[t].pending \subseteq schema'
    BY DEF Behind, Migrating, M!Files
  <2>1. CASE t = s
    BY <1>2, <2>1
  <2>2. CASE t # s
    BY <1>2, <2>2 DEF Migrating, DInv, Behind
  <2> QED
    BY <2>1, <2>2
<1>6. Recording'
  <2> SUFFICES ASSUME NEW t \in Migrators, deploy'[t].step = "recording" PROVE M!First(t)' \in schema'
    BY DEF Recording
  <2>1. CASE t = s
    BY <1>2, <2>1 DEF M!First
  <2>2. CASE t # s
    BY <1>2, <2>2 DEF DInv, Recording, M!First
  <2> QED
    BY <2>1, <2>2
<1> QED
  BY <1>4, <1>5, <1>6 DEF DInv

LEMMA InitialDeploys == M!MInit => DInv
<1> SUFFICES ASSUME M!MInit PROVE DInv
  OBVIOUS
<1>1. /\ schema = {} /\ recorded = {} /\ serving = [s \in Migrators |-> 0]
      /\ deploy = [s \in Migrators |-> [step |-> "idle", release |-> 0, pending |-> {}]]
  BY DEF M!MInit, M!Idle
<1>2. M!MTypeOK /\ \A s \in Migrators : deploy[s].step = "idle"
  BY <1>1 DEF M!MTypeOK, M!Deploy
<1>3. CodeAfterSchema
  <2>1. {v \in Versions : v <= 0} = {}
    <3>1. \A v \in Versions : v \in Nat /\ v # 0
      BY ReleaseAssumption
    <3> QED
      BY <3>1
  <2> QED
    BY <1>1, <2>1 DEF CodeAfterSchema, M!SchemaFirst, M!Files
<1> QED
  BY <1>1, <1>2, <1>3 DEF DInv, SchemaNeverClaimed, M!RecordedIsApplied, Behind, Recording, Migrating

LEMMA DeployStep == DInv /\ [M!MNext]_deploys => DInv'
<1> SUFFICES ASSUME DInv, [M!MNext]_deploys PROVE DInv'
  OBVIOUS
<1>1. CASE UNCHANGED deploys
  BY <1>1 DEF deploys, DInv, M!MTypeOK, SchemaNeverClaimed, M!RecordedIsApplied, CodeAfterSchema, M!SchemaFirst,
              Behind, Recording, Migrating, M!Files, M!First
<1>2. ASSUME NEW s \in Migrators,
             \/ \E release \in Versions : M!Begin(s, release)
             \/ M!Read(s) \/ M!ApplyTxn(s) \/ M!Apply(s) \/ M!Record(s) \/ M!Fail(s) \/ M!Serve(s)
      PROVE  DInv'
  <2>1. /\ deploy \in [Migrators -> M!Deploy] /\ recorded \subseteq schema
        /\ deploy[s].step \in {"idle", "reading", "applying", "recording"}
        /\ deploy[s].release \in Versions \cup {0} /\ deploy[s].pending \in SUBSET Versions
    BY DEF DInv, M!MTypeOK, M!Deploy, SchemaNeverClaimed, M!RecordedIsApplied
  <2>2. /\ Migrating(s) => M!Files(deploy[s].release) \ deploy[s].pending \subseteq schema
        /\ deploy[s].step = "recording" => M!First(s) \in schema
    BY DEF DInv, Behind, Recording
  <2> DEFINE Next(step, pending) == [step |-> step, release |-> deploy[s].release, pending |-> pending]
  <2>3. \A step \in {"applying", "recording"}, pending \in SUBSET Versions : Next(step, pending) \in M!Deploy
    BY <2>1 DEF M!Deploy
  <2>4. CASE \E release \in Versions : M!Begin(s, release)
    <3> PICK release \in Versions : M!Begin(s, release)
      BY <2>4
    <3> DEFINE d == [step |-> "reading", release |-> release, pending |-> {}]
    <3>1. d \in M!Deploy /\ d.step = "reading"
      BY DEF M!Deploy
    <3>2. deploy' = [deploy EXCEPT ![s] = d] /\ UNCHANGED <<schema, recorded, serving>>
      BY DEF M!Begin, M!database
    <3> HIDE DEF d
    <3> QED
      BY <2>1, <3>1, <3>2, OneDeploy
  <2>5. CASE M!Read(s)
    <3> DEFINE d == Next("applying", M!Files(deploy[s].release) \ recorded)
    <3>1. d \in M!Deploy /\ d.step = "applying" /\ d.release = deploy[s].release
          /\ d.pending = M!Files(deploy[s].release) \ recorded
      BY <2>3 DEF M!Files
    <3>2. deploy' = [deploy EXCEPT ![s] = d] /\ UNCHANGED <<schema, recorded, serving>>
      BY <2>5 DEF M!Read, M!Goto, M!database
    <3>3. M!Files(d.release) \ d.pending \subseteq schema
      BY <2>1, <3>1
    <3> HIDE DEF d
    <3> QED
      BY <2>1, <3>1, <3>2, <3>3, OneDeploy
  <2>6. CASE M!ApplyTxn(s)
    <3> DEFINE d == Next("applying", deploy[s].pending \ {M!First(s)})
    <3>1. d \in M!Deploy /\ d.step = "applying" /\ d.release = deploy[s].release
          /\ d.pending = deploy[s].pending \ {M!First(s)}
      BY <2>1, <2>3
    <3>2. /\ deploy[s].step = "applying" /\ deploy' = [deploy EXCEPT ![s] = d]
          /\ schema' = schema \cup {M!First(s)} /\ recorded' = recorded \cup {M!First(s)} /\ serving' = serving
      BY <2>6 DEF M!ApplyTxn, M!At, M!Goto
    <3>3. M!Files(d.release) \ d.pending \subseteq schema'
      BY <2>2, <3>1, <3>2 DEF Migrating
    <3> HIDE DEF d
    <3> QED
      BY <2>1, <3>1, <3>2, <3>3, OneDeploy
  <2>7. CASE M!Apply(s)
    <3> DEFINE d == Next("recording", deploy[s].pending)
    <3>1. d \in M!Deploy /\ d.step = "recording" /\ d.release = deploy[s].release /\ d.pending = deploy[s].pending
      BY <2>1, <2>3
    <3>2. /\ deploy[s].step = "applying" /\ deploy' = [deploy EXCEPT ![s] = d]
          /\ schema' = schema \cup {M!First(s)} /\ recorded' = recorded /\ serving' = serving
      BY <2>7 DEF M!Apply, M!At, M!Goto
    <3>3. M!Files(d.release) \ d.pending \subseteq schema'
      BY <2>2, <3>1, <3>2 DEF Migrating
    <3> HIDE DEF d
    <3> QED
      BY <2>1, <3>1, <3>2, <3>3, OneDeploy
  <2>8. CASE M!Record(s)
    <3> DEFINE d == Next("applying", deploy[s].pending \ {M!First(s)})
    <3>1. d \in M!Deploy /\ d.step = "applying" /\ d.release = deploy[s].release
          /\ d.pending = deploy[s].pending \ {M!First(s)}
      BY <2>1, <2>3
    <3>2. /\ deploy[s].step = "recording"
          /\ deploy' = [deploy EXCEPT ![s] = d]
          /\ schema' = schema /\ recorded' = recorded \cup {M!First(s)} /\ serving' = serving
      BY <2>8 DEF M!Record, M!At, M!Goto
    <3>3. M!Files(d.release) \ d.pending \subseteq schema' /\ recorded' \subseteq schema'
      BY <2>1, <2>2, <3>1, <3>2 DEF Migrating
    <3> HIDE DEF d
    <3> QED
      BY <2>1, <3>1, <3>2, <3>3, OneDeploy
  <2>9. M!Idle \in M!Deploy /\ M!Idle.step = "idle"
    BY DEF M!Idle, M!Deploy
  <2>10. CASE M!Fail(s)
    BY <2>1, <2>9, <2>10, OneDeploy DEF M!Fail, M!database
  <2>11. CASE M!Serve(s)
    BY <2>1, <2>2, <2>9, <2>11, OneDeploy DEF M!Serve, M!At, M!database, Migrating
  <2> QED
    BY <1>2, <2>4, <2>5, <2>6, <2>7, <2>8, <2>10, <2>11
<1> QED
  BY <1>1, <1>2 DEF M!MNext

-----------------------------------------------------------------------------
(***************************************************************************)
(* Both together.                                                          *)
(***************************************************************************)

LEMMA Initially == RInit => RInv
  BY InitialSync, InitialDeploys DEF RInit, RInv

LEMMA Step == RInv /\ [RNext]_rvars => RInv'
<1> SUFFICES ASSUME RInv, [RNext]_rvars PROVE RInv'
  OBVIOUS
<1>1. [ENext]_evars /\ [M!MNext]_deploys
  BY DEF RNext, rvars
<1> QED
  BY <1>1, SyncStep, DeployStep DEF RInv

\* The invariant of sync and deploys holds throughout, for any services and variables of the
\* manifest, blank or not, and any migrations.
THEOREM ReleaseInvariant == RSpec => []RInv
<1> QED
  BY Initially, Step, PTL DEF RSpec

\* "One key, two directions", railway-env.py:140-141: when a sync has run to its end the
\* services agree on what they share (api and agent on their key, api, worker and messaging
\* on the database), whichever earlier syncs stopped where they did.
THEOREM SharedStayAlike == RSpec => []SharedAgree
<1>1. RInv => SharedAgree
  BY DEF RInv, EInv
<1> QED
  BY <1>1, ReleaseInvariant, PTL

\* migrate.py: schema_migrations never names a file that was not applied.
THEOREM RecordedWasApplied == RSpec => []SchemaNeverClaimed
<1>1. RInv => SchemaNeverClaimed
  BY DEF RInv, DInv
<1> QED
  BY <1>1, ReleaseInvariant, PTL

\* migrate.py:3: a deploy never ships code ahead of its schema, also not the loser of a race
\* or the one after a file that stopped halfway.
THEOREM SchemaComesFirst == RSpec => []CodeAfterSchema
<1>1. RInv => CodeAfterSchema
  BY DEF RInv, DInv
<1> QED
  BY <1>1, ReleaseInvariant, PTL

=============================================================================
