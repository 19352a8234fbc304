-------------------------- MODULE ChatGateway_proofs --------------------------
(***************************************************************************)
(* Proofs about ChatGateway, for every set of instances, users and         *)
(* messages, any number of sockets and retries, and under every            *)
(* combination of faults.                                                  *)
(***************************************************************************)
EXTENDS ChatGateway, SequenceTheorems, TLAPS

LEMMA InitInvariant == Init => GatewayInv
<1>. SUFFICES ASSUME Init PROVE GatewayInv
    OBVIOUS
<1>1. sockets = <<>> /\ rows = <<>> /\ Socket = {} /\ Range(rows) = {} /\ Len(rows) = 0
    BY DEF Init, Socket, Range
<1>2. Idle \in Pass /\ Idle.step = "none"
    BY DEF Pass, Idle
<1>3. TypeOK
    <2>1. sockets \in Seq(SocketRecord) /\ rows \in Seq(Messages)
        BY <1>1
    <2>2. conns \in [Instances -> [Users -> {0} \cup Socket]] /\ \A i \in Instances, u \in Users : conns[i][u] = 0
        BY DEF Init
    <2>3. mailbox \in [Instances -> Seq(EnvelopeRecord)] /\ \A i \in Instances : mailbox[i] = <<>>
        BY DEF Init
    <2>4. attempt \in [Attempt -> Pass] /\ seen \in [Users -> SUBSET Messages]
        BY <1>2 DEF Init
    <2>. QED
        BY <2>1, <2>2, <2>3, <2>4, GatewayAssumption DEF Init, TypeOK
<1>4. NewestIsRegistered
    BY <1>1 DEF NewestIsRegistered
<1>5. StoredOnceThenHeard
    BY <1>1 DEF Init, StoredOnceThenHeard, IsInjective, Range
<1>6. CommittedInv
    BY <1>2 DEF Init, CommittedInv, InFlight
<1>7. PublishedInv
    BY DEF Init, PublishedInv, Reachable
<1>. QED
    BY <1>3, <1>4, <1>5, <1>6, <1>7 DEF GatewayInv

-----------------------------------------------------------------------------
(***************************************************************************)
(* Lemmas on the sequences the gateway is built from.                      *)
(***************************************************************************)
LEMMA RangeAppend ==
    ASSUME NEW S, NEW q \in Seq(S), NEW x \in S
    PROVE  Range(Append(q, x)) = Range(q) \cup {x}
<1>1. /\ Append(q, x) \in Seq(S) /\ Len(Append(q, x)) = Len(q) + 1 /\ Len(q) \in Nat
      /\ \A k \in 1..Len(q) : Append(q, x)[k] = q[k]
      /\ Append(q, x)[Len(q) + 1] = x
    BY AppendProperties
<1>2. DOMAIN q = 1..Len(q) /\ DOMAIN Append(q, x) = 1..(Len(q) + 1)
    BY <1>1
<1>3. 1..(Len(q) + 1) = 1..Len(q) \cup {Len(q) + 1}
    BY <1>1
<1>. QED
    BY <1>1, <1>2, <1>3 DEF Range

LEMMA InjectiveAppend ==
    ASSUME NEW S, NEW q \in Seq(S), NEW x \in S, IsInjective(q), x \notin Range(q)
    PROVE  IsInjective(Append(q, x))
<1>1. /\ Append(q, x) \in Seq(S) /\ Len(Append(q, x)) = Len(q) + 1 /\ Len(q) \in Nat
      /\ \A k \in 1..Len(q) : Append(q, x)[k] = q[k]
      /\ Append(q, x)[Len(q) + 1] = x
    BY AppendProperties
<1>2. DOMAIN q = 1..Len(q) /\ DOMAIN Append(q, x) = 1..(Len(q) + 1)
    BY <1>1
<1>3. \A k \in 1..Len(q) : q[k] # x
    BY <1>2 DEF Range
<1>4. \A j, k \in 1..Len(q) : q[j] = q[k] => j = k
    BY <1>2 DEF IsInjective
<1>5. \A j, k \in 1..(Len(q) + 1) : Append(q, x)[j] = Append(q, x)[k] => j = k
    <2>. SUFFICES ASSUME NEW j \in 1..(Len(q) + 1), NEW k \in 1..(Len(q) + 1),
                         Append(q, x)[j] = Append(q, x)[k]
                  PROVE  j = k
        OBVIOUS
    <2>1. (j \in 1..Len(q) \/ j = Len(q) + 1) /\ (k \in 1..Len(q) \/ k = Len(q) + 1)
        BY <1>1
    <2>. QED
        BY <1>1, <1>3, <1>4, <2>1
<1>. QED
    BY <1>2, <1>5 DEF IsInjective

LEMMA RangeHeadTail ==
    ASSUME NEW S, NEW q \in Seq(S), q # <<>>
    PROVE  /\ Range(q) = {Head(q)} \cup Range(Tail(q))
           /\ Tail(q) \in Seq(S) /\ Head(q) \in S
           /\ \A x \in S : <<x>> \o Tail(q) \in Seq(S) /\ Range(<<x>> \o Tail(q)) = {x} \cup Range(Tail(q))
<1>1. /\ Tail(q) \in Seq(S) /\ Head(q) \in S /\ Len(Tail(q)) = Len(q) - 1 /\ Head(q) = q[1]
      /\ Len(q) \in Nat \ {0} /\ \A k \in 1..(Len(q) - 1) : Tail(q)[k] = q[k + 1]
    BY HeadTailProperties
<1>2. DOMAIN q = 1..Len(q) /\ DOMAIN Tail(q) = 1..(Len(q) - 1)
    BY <1>1
<1>3. Range(q) = {Head(q)} \cup Range(Tail(q))
    <2>1. \A k \in 1..Len(q) : k = 1 \/ (k - 1 \in 1..(Len(q) - 1) /\ q[k] = Tail(q)[k - 1])
        BY <1>1
    <2>2. \A k \in 1..(Len(q) - 1) : k + 1 \in 1..Len(q) /\ Tail(q)[k] = q[k + 1]
        BY <1>1
    <2>3. 1 \in 1..Len(q)
        BY <1>1
    <2>4. Range(q) = {q[j] : j \in 1..Len(q)} /\ Range(Tail(q)) = {Tail(q)[j] : j \in 1..(Len(q) - 1)}
        BY <1>2 DEF Range
    <2>5. \A y : y \in Range(q) <=> \E j \in 1..Len(q) : y = q[j]
        BY <2>4
    <2>6. \A y : y \in Range(Tail(q)) <=> \E j \in 1..(Len(q) - 1) : y = Tail(q)[j]
        BY <2>4
    <2>7. ASSUME NEW y \in Range(q)
          PROVE  y \in {Head(q)} \cup Range(Tail(q))
        <3>1. PICK j \in 1..Len(q) : y = q[j]
            BY <2>5
        <3>. QED
            BY <1>1, <2>1, <2>6, <3>1
    <2>8. Head(q) \in Range(q)
        BY <1>1, <2>3, <2>5
    <2>9. Range(Tail(q)) \subseteq Range(q)
        BY <2>2, <2>5, <2>6
    <2>. QED
        BY <2>7, <2>8, <2>9
<1>4. ASSUME NEW x \in S
      PROVE  <<x>> \o Tail(q) \in Seq(S) /\ Range(<<x>> \o Tail(q)) = {x} \cup Range(Tail(q))
    <2>. DEFINE c == <<x>> \o Tail(q)
    <2>1. <<x>> \in Seq(S) /\ Len(<<x>>) = 1 /\ <<x>>[1] = x
        OBVIOUS
    <2>2. /\ c \in Seq(S) /\ Len(c) = 1 + Len(Tail(q))
          /\ \A k \in 1..Len(c) : c[k] = IF k <= 1 THEN <<x>>[k] ELSE Tail(q)[k - 1]
        BY <1>1, <2>1, ConcatProperties
    <2>. HIDE DEF c
    <2>3. Len(c) = Len(q) /\ DOMAIN c = 1..Len(q)
        BY <1>1, <2>2
    <2>4. c[1] = x /\ 1 \in 1..Len(q)
        BY <1>1, <2>1, <2>2, <2>3
    <2>5. \A k \in 1..Len(q) : k = 1 \/ (k - 1 \in 1..(Len(q) - 1) /\ c[k] = Tail(q)[k - 1])
        BY <1>1, <2>2, <2>3
    <2>6. \A k \in 1..(Len(q) - 1) : k + 1 \in 1..Len(q) /\ Tail(q)[k] = c[k + 1]
        BY <1>1, <2>2, <2>3
    <2>7. \A y : y \in Range(c) <=> \E j \in 1..Len(q) : y = c[j]
        BY <2>3 DEF Range
    <2>8. \A y : y \in Range(Tail(q)) <=> \E j \in 1..(Len(q) - 1) : y = Tail(q)[j]
        BY <1>2 DEF Range
    <2>9. ASSUME NEW y \in Range(c)
          PROVE  y \in {x} \cup Range(Tail(q))
        <3>1. PICK j \in 1..Len(q) : y = c[j]
            BY <2>7
        <3>. QED
            BY <2>4, <2>5, <2>8, <3>1
    <2>10. Range(Tail(q)) \subseteq Range(c)
        BY <2>6, <2>7, <2>8
    <2>11. x \in Range(c)
        BY <2>4, <2>7
    <2>12. Range(c) = {x} \cup Range(Tail(q))
        BY <2>9, <2>10, <2>11
    <2>. QED
        BY <2>2, <2>12 DEF c
<1>. QED
    BY <1>1, <1>3, <1>4

\* The sockets, as a set of records numbered from 1.
LEMMA SocketTypes ==
    ASSUME TypeOK
    PROVE  /\ sockets \in Seq(SocketRecord) /\ Len(sockets) \in Nat /\ DOMAIN sockets = Socket
           /\ \A s \in Socket :
                 /\ s \in Nat /\ s >= 1 /\ s <= Len(sockets) /\ sockets[s] \in SocketRecord
                 /\ sockets[s].user \in Users /\ sockets[s].at \in Instances
                 /\ sockets[s].state \in Alive \cup {"gone", "closed"}
<1>1. sockets \in Seq(SocketRecord)
    BY DEF TypeOK
<1>2. Len(sockets) \in Nat /\ DOMAIN sockets = 1..Len(sockets)
      /\ \A s \in 1..Len(sockets) : sockets[s] \in SocketRecord
    BY <1>1
<1>. QED
    BY <1>1, <1>2 DEF Socket, SocketRecord

\* One socket changes its state and nothing else.
LEMMA SocketMoves ==
    ASSUME TypeOK, NEW s \in Socket, NEW st \in Alive \cup {"gone", "closed"},
           sockets' = [sockets EXCEPT ![s].state = st]
    PROVE  /\ sockets' \in Seq(SocketRecord) /\ Socket' = Socket
           /\ sockets'[s].state = st
           /\ \A t \in Socket : /\ sockets'[t].user = sockets[t].user /\ sockets'[t].at = sockets[t].at
                                /\ t # s => sockets'[t] = sockets[t]
<1>. DEFINE r == [sockets[s] EXCEPT !.state = st]
<1>1. /\ sockets \in Seq(SocketRecord) /\ Socket = 1..Len(sockets) /\ sockets[s] \in SocketRecord
      /\ s \in 1..Len(sockets)
    BY SocketTypes DEF Socket
<1>2. r \in SocketRecord /\ r.user = sockets[s].user /\ r.at = sockets[s].at /\ r.state = st
    BY <1>1 DEF SocketRecord
<1>3. sockets' = [sockets EXCEPT ![s] = r]
    OBVIOUS
<1>. HIDE DEF r
<1>4. /\ [sockets EXCEPT ![s] = r] \in Seq(SocketRecord)
      /\ Len([sockets EXCEPT ![s] = r]) = Len(sockets)
      /\ \A j \in 1..Len(sockets) : [sockets EXCEPT ![s] = r][j] = IF j = s THEN r ELSE sockets[j]
    BY <1>1, <1>2, ExceptSeq
<1>. QED
    BY <1>1, <1>2, <1>3, <1>4 DEF Socket

\* An envelope leaves for one recipient: it keeps what it carries and, for the others,
\* its place.
LEMMA DeliveredFacts ==
    ASSUME TypeOK, NEW i \in Instances, NEW u \in Users, Delivering(i, u), Delivered(i, u)
    PROVE  /\ mailbox' \in [Instances -> Seq(EnvelopeRecord)]
           /\ \A j \in Instances : mailbox'[j] # <<>> => mailbox[j] # <<>>
           /\ \A j \in Instances : \A e \in Range(mailbox'[j]) :
                 \E f \in Range(mailbox[j]) : f.kind = e.kind /\ f.msg = e.msg
           /\ \A j \in Instances, m \in Messages, v \in Users :
                 OnItsWay(m, v, j) =>
                   \/ OnItsWay(m, v, j)'
                   \/ j = i /\ v = u /\ Head(mailbox[i]).kind = "message" /\ Head(mailbox[i]).msg = m
<1>. DEFINE q == mailbox[i]
<1>. DEFINE h == Head(q)
<1>. DEFINE k == [h EXCEPT !.left = @ \ {u}]
<1>. DEFINE p == IF h.left = {u} THEN Tail(q) ELSE <<k>> \o Tail(q)
<1>1. mailbox \in [Instances -> Seq(EnvelopeRecord)] /\ q \in Seq(EnvelopeRecord) /\ q # <<>> /\ u \in h.left
    BY DEF TypeOK, Delivering
<1>2. mailbox' = [mailbox EXCEPT ![i] = p]
    BY DEF Delivered
<1>3. h \in EnvelopeRecord /\ Tail(q) \in Seq(EnvelopeRecord) /\ Range(q) = {h} \cup Range(Tail(q))
    BY <1>1, RangeHeadTail
<1>4. k \in EnvelopeRecord /\ k.kind = h.kind /\ k.msg = h.msg /\ k.left = h.left \ {u}
    BY <1>3 DEF EnvelopeRecord
<1>. HIDE DEF k, h, q
<1>5. <<k>> \o Tail(q) \in Seq(EnvelopeRecord) /\ Range(<<k>> \o Tail(q)) = {k} \cup Range(Tail(q))
    BY <1>1, <1>4, RangeHeadTail
<1>6. p \in Seq(EnvelopeRecord) /\ Range(Tail(q)) \subseteq Range(p) /\ Range(p) \subseteq {k} \cup Range(Tail(q))
      /\ (h.left # {u} => k \in Range(p))
    BY <1>3, <1>5
<1>. HIDE DEF p
<1>7. /\ mailbox' \in [Instances -> Seq(EnvelopeRecord)] /\ mailbox'[i] = p
      /\ \A j \in Instances : j # i => mailbox'[j] = mailbox[j]
    BY <1>1, <1>2, <1>6
<1>8. \A j \in Instances : mailbox'[j] # <<>> => mailbox[j] # <<>>
    BY <1>1, <1>7 DEF q
<1>9. ASSUME NEW j \in Instances, NEW e \in Range(mailbox'[j])
      PROVE  \E f \in Range(mailbox[j]) : f.kind = e.kind /\ f.msg = e.msg
    <2>1. CASE j # i
        BY <1>7, <1>9, <2>1
    <2>2. CASE j = i
        BY <1>3, <1>4, <1>6, <1>7, <1>9, <2>2 DEF q
    <2>. QED
        BY <2>1, <2>2
<1>10. ASSUME NEW j \in Instances, NEW m \in Messages, NEW v \in Users, OnItsWay(m, v, j),
              ~(j = i /\ v = u /\ h.kind = "message" /\ h.msg = m)
       PROVE  OnItsWay(m, v, j)'
    <2>1. PICK e \in Range(mailbox[j]) : e.kind = "message" /\ e.msg = m /\ v \in e.left
        BY <1>10 DEF OnItsWay
    <2>2. CASE j # i
        BY <1>7, <2>1, <2>2 DEF OnItsWay
    <2>3. CASE j = i /\ e \in Range(Tail(q))
        BY <1>6, <1>7, <2>1, <2>3 DEF OnItsWay
    <2>4. CASE j = i /\ e = h
        <3>1. v # u /\ v \in h.left
            BY <1>10, <2>1, <2>4
        <3>2. k \in Range(p) /\ v \in k.left /\ k.kind = "message" /\ k.msg = m
            BY <1>4, <1>6, <2>1, <2>4, <3>1
        <3>. QED
            BY <1>7, <2>4, <3>2 DEF OnItsWay
    <2>. QED
        BY <1>3, <2>1, <2>2, <2>3, <2>4 DEF q
<1>. QED
    BY <1>7, <1>8, <1>9, <1>10 DEF h, q

\* A publish puts the message on its way to everybody an instance can reach.
LEMMA FanoutFacts ==
    ASSUME TypeOK, NEW x \in EnvelopeRecord, Fanout(x)
    PROVE  /\ mailbox' \in [Instances -> Seq(EnvelopeRecord)]
           /\ \A j \in Instances :
                 /\ mailbox'[j] # <<>> => subscriber[j] = "listening"
                 /\ Range(mailbox[j]) \subseteq Range(mailbox'[j])
                 /\ Range(mailbox'[j]) \subseteq Range(mailbox[j]) \cup {x}
                 /\ subscriber[j] = "listening" => x \in Range(mailbox'[j])
           /\ \A j \in Instances, m \in Messages, v \in Users : OnItsWay(m, v, j) => OnItsWay(m, v, j)'
<1>1. mailbox \in [Instances -> Seq(EnvelopeRecord)]
    BY DEF TypeOK
<1>2. \A j \in Instances :
         /\ subscriber[j] = "listening" => mailbox'[j] = Append(mailbox[j], x)
         /\ subscriber[j] # "listening" => mailbox'[j] = mailbox[j]
    BY DEF Fanout
<1>3. \A j \in Instances : Append(mailbox[j], x) \in Seq(EnvelopeRecord)
                           /\ Range(Append(mailbox[j], x)) = Range(mailbox[j]) \cup {x}
    BY <1>1, RangeAppend, AppendProperties
<1>4. mailbox' \in [Instances -> Seq(EnvelopeRecord)]
    BY <1>1, <1>3 DEF Fanout
<1>5. \A j \in Instances : mailbox[j] # <<>> => subscriber[j] = "listening"
    BY DEF TypeOK
<1>6. \A j \in Instances :
         /\ mailbox'[j] # <<>> => subscriber[j] = "listening"
         /\ Range(mailbox[j]) \subseteq Range(mailbox'[j])
         /\ Range(mailbox'[j]) \subseteq Range(mailbox[j]) \cup {x}
         /\ subscriber[j] = "listening" => x \in Range(mailbox'[j])
    BY <1>2, <1>3, <1>5
<1>. QED
    BY <1>4, <1>6 DEF OnItsWay

-----------------------------------------------------------------------------
(***************************************************************************)
(* What keeps the last conjunct.                                           *)
(***************************************************************************)

\* A step that makes nobody reachable and announces nothing keeps PublishedInv, if what is
\* no longer on its way to a reachable client is with that client.
LEMMA PublishedFrame ==
    ASSUME PublishedInv,
           \A u \in Users, i \in Instances : Reachable(u, i)' => Reachable(u, i),
           \A m \in Messages : Announced(m)' => Announced(m),
           \A u \in Users : seen[u] \subseteq seen'[u],
           \A u \in Users, i \in Instances, m \in Messages :
               Reachable(u, i)' /\ OnItsWay(m, u, i) => OnItsWay(m, u, i)' \/ m \in seen'[u]
    PROVE  PublishedInv'
<1>. SUFFICES ASSUME NEW u \in Users, NEW i \in Instances, Reachable(u, i)', NEW m \in Messages,
                     Announced(m)', u \in Recipients(m)
              PROVE  m \in seen'[u] \/ OnItsWay(m, u, i)'
    BY DEF PublishedInv, Recipients
<1>1. m \in seen[u] \/ OnItsWay(m, u, i)
    BY DEF PublishedInv
<1>. QED
    BY <1>1

\* Whatever was announced is a row.
LEMMA AnnouncedIsStored ==
    ASSUME CommittedInv, NEW m \in Messages, Announced(m)
    PROVE  Stored(m)
BY DEF CommittedInv, Announced, InFlight, Stored

LEMMA RowsTyped ==
    ASSUME TypeOK
    PROVE  rows \in Seq(Messages) /\ Range(rows) \subseteq Messages
BY DEF TypeOK, Range

\* Attempts only end: nothing is announced by it, nothing newly in flight.
LEMMA AttemptsEnd ==
    ASSUME TypeOK, CommittedInv, \A a \in Attempt : attempt'[a] \in {attempt[a], Over},
           UNCHANGED <<rows, acked>>
    PROVE  CommittedInv' /\ \A m \in Messages : Announced(m)' => Announced(m)
<1>1. \A a \in Attempt : /\ attempt'[a].step = "published" => attempt[a].step = "published"
                         /\ attempt'[a].step = "committed" => attempt[a].step = "committed"
    BY DEF Over, Idle
<1>. QED
    BY <1>1 DEF CommittedInv, Announced, InFlight, Stored

-----------------------------------------------------------------------------
(***************************************************************************)
(* Sockets.                                                                *)
(***************************************************************************)
LEMMA ConnectInvariant ==
    ASSUME GatewayInv, NEW u \in Users, NEW i \in Instances, Connect(u, i)
    PROVE  GatewayInv'
<1>. DEFINE n == Len(sockets) + 1
<1>. DEFINE r == [user |-> u, at |-> i, state |-> "open"]
<1>1. TypeOK /\ NewestIsRegistered /\ StoredOnceThenHeard /\ CommittedInv /\ PublishedInv
    BY DEF GatewayInv
<1>2. r \in SocketRecord /\ r.user = u /\ r.at = i /\ r.state = "open"
    BY DEF SocketRecord, Alive
<1>3. /\ Up(i) /\ sockets' = Append(sockets, r) /\ conns' = [conns EXCEPT ![i][u] = n]
      /\ UNCHANGED <<subscriber, mailbox, rows, attempt, acked, seen, typed>>
    BY DEF Connect
<1>. HIDE DEF r
<1>4. /\ sockets' \in Seq(SocketRecord) /\ Len(sockets') = n /\ sockets'[n] = r
      /\ \A s \in 1..Len(sockets) : sockets'[s] = sockets[s]
    BY <1>1, <1>2, <1>3, SocketTypes, AppendProperties
<1>5. /\ Socket' = Socket \cup {n} /\ n \notin Socket /\ n \in Nat /\ n # 0
      /\ \A s \in Socket : s < n /\ s # 0 /\ sockets'[s] = sockets[s]
    BY <1>1, <1>4, SocketTypes DEF Socket
<1>. HIDE DEF n
<1>6. conns \in [Instances -> [Users -> {0} \cup Socket]]
    BY <1>1 DEF TypeOK
<1>7. /\ conns' \in [Instances -> [Users -> {0} \cup Socket']]
      /\ conns'[i][u] = n
      /\ \A j \in Instances, v \in Users : j # i \/ v # u => conns'[j][v] = conns[j][v]
    BY <1>3, <1>5, <1>6
<1>8. \A j \in Instances, v \in Users :
         conns[j][v] # 0 => conns[j][v] \in Socket /\ Up(j) /\ sockets[conns[j][v]].user = v /\ sockets[conns[j][v]].at = j
    BY <1>1, <1>6 DEF TypeOK
<1>9. \A j \in Instances, v \in Users :
         conns'[j][v] # 0 => Up(j)' /\ sockets'[conns'[j][v]].user = v /\ sockets'[conns'[j][v]].at = j
    <2>. SUFFICES ASSUME NEW j \in Instances, NEW v \in Users, conns'[j][v] # 0
                  PROVE  Up(j)' /\ sockets'[conns'[j][v]].user = v /\ sockets'[conns'[j][v]].at = j
        OBVIOUS
    <2>1. Up(j) => Up(j)'
        BY <1>3 DEF Up
    <2>2. CASE j = i /\ v = u
        BY <1>2, <1>3, <1>4, <1>7, <2>1, <2>2
    <2>3. CASE j # i \/ v # u
        <3>1. conns'[j][v] = conns[j][v]
            BY <1>7, <2>3
        <3>2. conns[j][v] \in Socket /\ Up(j) /\ sockets[conns[j][v]].user = v /\ sockets[conns[j][v]].at = j
            BY <1>8, <3>1
        <3>. QED
            BY <1>5, <2>1, <3>1, <3>2
    <2>. QED
        BY <2>2, <2>3
<1>10. TypeOK'
    BY <1>1, <1>3, <1>4, <1>7, <1>9 DEF TypeOK, Up
<1>11. NewestIsRegistered'
    <2>. SUFFICES ASSUME NEW s \in Socket', sockets'[s].state \in Alive,
                         \A t \in Socket' : sockets'[t].user = sockets'[s].user /\ sockets'[t].at = sockets'[s].at => t <= s
                  PROVE  conns'[sockets'[s].at][sockets'[s].user] = s
        BY DEF NewestIsRegistered
    <2>1. CASE s = n
        BY <1>2, <1>4, <1>7, <2>1
    <2>2. CASE s \in Socket
        <3>1. s < n /\ s \in Nat /\ n \in Nat /\ sockets'[s] = sockets[s] /\ sockets[s].user \in Users /\ sockets[s].at \in Instances
            BY <1>1, <1>5, <2>2, SocketTypes
        <3>2. sockets[s].user # u \/ sockets[s].at # i
            BY <1>2, <1>4, <1>5, <3>1
        <3>3. \A t \in Socket : sockets[t].user = sockets[s].user /\ sockets[t].at = sockets[s].at => t <= s
            BY <1>5, <3>1
        <3>4. conns[sockets[s].at][sockets[s].user] = s
            BY <1>1, <2>2, <3>1, <3>3 DEF NewestIsRegistered
        <3>. QED
            BY <1>7, <3>1, <3>2, <3>4
    <2>. QED
        BY <1>5, <2>1, <2>2
<1>12. StoredOnceThenHeard' /\ CommittedInv'
    BY <1>1, <1>3 DEF StoredOnceThenHeard, CommittedInv, InFlight, Stored
<1>13. ASSUME NEW v \in Users, NEW j \in Instances, Reachable(v, j)'
       PROVE  Reachable(v, j)
    <2>1. subscriber[j] = "listening" /\ conns'[j][v] # 0 /\ sockets'[conns'[j][v]].state = "current"
        BY <1>3, <1>13 DEF Reachable
    <2>2. CASE j = i /\ v = u
        BY <1>2, <1>4, <1>7, <2>1, <2>2
    <2>3. CASE j # i \/ v # u
        <3>1. conns'[j][v] = conns[j][v]
            BY <1>7, <2>3
        <3>2. conns[j][v] \in Socket
            BY <1>8, <2>1, <3>1
        <3>. QED
            BY <1>5, <2>1, <3>1, <3>2 DEF Reachable
    <2>. QED
        BY <2>2, <2>3
<1>14. PublishedInv'
    BY <1>1, <1>3, <1>13, PublishedFrame DEF Announced, OnItsWay
<1>. QED
    BY <1>10, <1>11, <1>12, <1>14 DEF GatewayInv

\* The registry keeps its types when a socket changes state and stays where it is.
LEMMA MoveTypes ==
    ASSUME TypeOK, NEW s \in Socket, NEW st \in Alive \cup {"gone", "closed"},
           sockets' = [sockets EXCEPT ![s].state = st],
           UNCHANGED <<subscriber, mailbox, rows, acked, typed>>,
           conns' \in [Instances -> [Users -> {0} \cup Socket]],
           \A j \in Instances, v \in Users : conns'[j][v] \in {0, conns[j][v]},
           attempt' \in [Attempt -> Pass], seen' \in [Users -> SUBSET Messages]
    PROVE  TypeOK'
<1>1. /\ sockets' \in Seq(SocketRecord) /\ Socket' = Socket
      /\ \A t \in Socket : sockets'[t].user = sockets[t].user /\ sockets'[t].at = sockets[t].at
    BY SocketMoves
<1>2. conns \in [Instances -> [Users -> {0} \cup Socket]]
    BY DEF TypeOK
<1>3. \A j \in Instances, v \in Users :
         conns[j][v] # 0 => conns[j][v] \in Socket /\ Up(j) /\ sockets[conns[j][v]].user = v /\ sockets[conns[j][v]].at = j
    BY <1>2 DEF TypeOK
<1>4. \A j \in Instances, v \in Users :
         conns'[j][v] # 0 => Up(j)' /\ sockets'[conns'[j][v]].user = v /\ sockets'[conns'[j][v]].at = j
    BY <1>1, <1>3 DEF Up
<1>5. conns' \in [Instances -> [Users -> {0} \cup Socket']]
    BY <1>1
<1>. QED
    BY <1>1, <1>4, <1>5 DEF TypeOK, Up

\* A socket that is no longer served, with its entry or without it, leaves the newest open
\* ones where they are.
LEMMA MoveNewest ==
    ASSUME TypeOK, NewestIsRegistered, NEW s \in Socket, NEW st \in Alive \cup {"gone", "closed"},
           sockets' = [sockets EXCEPT ![s].state = st],
           st \in Alive => sockets[s].state \in Alive,
           \A j \in Instances, v \in Users :
               conns'[j][v] = conns[j][v] \/ (conns[j][v] = s /\ st \notin Alive)
    PROVE  NewestIsRegistered'
<1>1. /\ Socket' = Socket /\ sockets'[s].state = st
      /\ \A t \in Socket : /\ sockets'[t].user = sockets[t].user /\ sockets'[t].at = sockets[t].at
                           /\ t # s => sockets'[t] = sockets[t]
    BY SocketMoves
<1>. SUFFICES ASSUME NEW t \in Socket, sockets'[t].state \in Alive,
                     \A x \in Socket : sockets[x].user = sockets[t].user /\ sockets[x].at = sockets[t].at => x <= t
              PROVE  conns'[sockets[t].at][sockets[t].user] = t
    BY <1>1 DEF NewestIsRegistered
<1>2. sockets[t].state \in Alive
    BY <1>1
<1>3. conns[sockets[t].at][sockets[t].user] = t
    BY <1>2 DEF NewestIsRegistered
<1>4. sockets[t].user \in Users /\ sockets[t].at \in Instances
    BY SocketTypes
<1>. QED
    BY <1>1, <1>3, <1>4

\* Nobody becomes reachable through a socket that did not become current.
LEMMA MoveReachable ==
    ASSUME TypeOK, NEW s \in Socket, NEW st \in Alive \cup {"gone", "closed"},
           sockets' = [sockets EXCEPT ![s].state = st], UNCHANGED subscriber,
           \A j \in Instances, v \in Users : conns'[j][v] \in {0, conns[j][v]}
    PROVE  \A v \in Users, j \in Instances :
              Reachable(v, j)' =>
                 Reachable(v, j) \/ (sockets'[s].state = "current" /\ conns[j][v] = s /\ sockets[s].user = v)
<1>1. /\ sockets'[s].state = st
      /\ \A t \in Socket : t # s => sockets'[t] = sockets[t]
    BY SocketMoves
<1>2. \A j \in Instances, v \in Users : conns[j][v] # 0 => conns[j][v] \in Socket /\ sockets[conns[j][v]].user = v
    BY DEF TypeOK
<1>. QED
    BY <1>1, <1>2 DEF Reachable

LEMMA ReadHistoryInvariant ==
    ASSUME GatewayInv, NEW s \in Socket, ReadHistory(s)
    PROVE  GatewayInv'
<1>. DEFINE w == sockets[s].user
<1>1. TypeOK /\ NewestIsRegistered /\ StoredOnceThenHeard /\ CommittedInv /\ PublishedInv
    BY DEF GatewayInv
<1>2. /\ sockets[s].state = "open" /\ sockets' = [sockets EXCEPT ![s].state = "current"]
      /\ seen' = [seen EXCEPT ![w] = @ \cup {m \in Range(rows) : w \in Recipients(m)}]
      /\ UNCHANGED <<subscriber, conns, mailbox, rows, attempt, acked, typed>>
    BY DEF ReadHistory
<1>3. w \in Users /\ "current" \in Alive /\ "open" \in Alive
    BY <1>1, SocketTypes DEF Alive
<1>. HIDE DEF w
<1>4. seen \in [Users -> SUBSET Messages] /\ attempt \in [Attempt -> Pass]
      /\ conns \in [Instances -> [Users -> {0} \cup Socket]] /\ Range(rows) \subseteq Messages
    BY <1>1, RowsTyped DEF TypeOK
<1>5. /\ seen' \in [Users -> SUBSET Messages]
      /\ seen'[w] = seen[w] \cup {m \in Range(rows) : w \in Recipients(m)}
      /\ \A v \in Users : v # w => seen'[v] = seen[v]
    BY <1>2, <1>3, <1>4
<1>6. TypeOK'
    BY <1>1, <1>2, <1>3, <1>4, <1>5, MoveTypes
<1>7. NewestIsRegistered'
    BY <1>1, <1>2, <1>3, MoveNewest
<1>8. StoredOnceThenHeard'
    BY <1>1, <1>2, <1>5 DEF StoredOnceThenHeard, Stored
<1>9. CommittedInv'
    BY <1>1, <1>2 DEF CommittedInv, InFlight, Stored
<1>10. PublishedInv'
    <2>. SUFFICES ASSUME NEW v \in Users, NEW j \in Instances, Reachable(v, j)', NEW m \in Messages,
                         Announced(m)', v \in Recipients(m)
                  PROVE  m \in seen'[v] \/ OnItsWay(m, v, j)'
        BY DEF PublishedInv, Recipients
    <2>1. Reachable(v, j) \/ v = w
        BY <1>1, <1>2, <1>3, MoveReachable DEF w
    <2>2. Announced(m)
        BY <1>2 DEF Announced
    <2>3. CASE Reachable(v, j)
        <3>1. m \in seen[v] \/ OnItsWay(m, v, j)
            BY <1>1, <2>2, <2>3 DEF PublishedInv
        <3>. QED
            BY <1>2, <1>5, <3>1 DEF OnItsWay
    <2>4. CASE v = w
        <3>1. m \in Range(rows)
            BY <1>1, <2>2, AnnouncedIsStored DEF Stored
        <3>. QED
            BY <1>5, <2>4, <3>1
    <2>. QED
        BY <2>1, <2>3, <2>4
<1>. QED
    BY <1>6, <1>7, <1>8, <1>9, <1>10 DEF GatewayInv

LEMMA LeaveInvariant ==
    ASSUME GatewayInv, NEW s \in Socket, Leave(s)
    PROVE  GatewayInv'
<1>1. TypeOK /\ NewestIsRegistered /\ StoredOnceThenHeard /\ CommittedInv /\ PublishedInv
    BY DEF GatewayInv
<1>2. /\ sockets' = [sockets EXCEPT ![s].state = "gone"]
      /\ UNCHANGED subscriber /\ \A j \in Instances, v \in Users : conns'[j][v] \in {0, conns[j][v]}
      /\ UNCHANGED <<subscriber, conns, mailbox, rows, attempt, acked, seen, typed>>
    BY DEF Leave
<1>3. seen \in [Users -> SUBSET Messages] /\ attempt \in [Attempt -> Pass]
      /\ conns \in [Instances -> [Users -> {0} \cup Socket]]
    BY <1>1 DEF TypeOK
<1>4. TypeOK'
    BY <1>1, <1>2, <1>3, MoveTypes
<1>5. NewestIsRegistered'
    BY <1>1, <1>2, MoveNewest DEF Alive
<1>6. StoredOnceThenHeard' /\ CommittedInv'
    BY <1>1, <1>2 DEF StoredOnceThenHeard, CommittedInv, InFlight, Stored
<1>7. \A v \in Users, j \in Instances : Reachable(v, j)' => Reachable(v, j)
    <2>1. "gone" \in Alive \cup {"gone", "closed"} /\ "gone" # "current"
        OBVIOUS
    <2>2. sockets'[s].state # "current"
        BY <1>1, <1>2, <2>1, SocketMoves
    <2>. QED
        BY <1>1, <1>2, <2>1, <2>2, MoveReachable
<1>8. PublishedInv'
    BY <1>1, <1>2, <1>7, PublishedFrame DEF Announced, OnItsWay
<1>. QED
    BY <1>4, <1>5, <1>6, <1>8 DEF GatewayInv

\* The guard on identity at work: what the handler takes out of the registry is its own
\* entry, and its own socket is not open.
LEMMA DeregisterInvariant ==
    ASSUME GatewayInv, NEW s \in Socket, Deregister(s)
    PROVE  GatewayInv'
<1>1. TypeOK /\ NewestIsRegistered /\ StoredOnceThenHeard /\ CommittedInv /\ PublishedInv
    BY DEF GatewayInv
<1>2. /\ sockets' = [sockets EXCEPT ![s].state = "closed"]
      /\ conns' = [conns EXCEPT ![sockets[s].at][sockets[s].user] = IF @ = s THEN 0 ELSE @]
      /\ UNCHANGED <<subscriber, mailbox, rows, attempt, acked, seen, typed>>
    BY DEF Deregister
<1>3. seen \in [Users -> SUBSET Messages] /\ attempt \in [Attempt -> Pass]
      /\ conns \in [Instances -> [Users -> {0} \cup Socket]]
    BY <1>1 DEF TypeOK
<1>4. sockets[s].user \in Users /\ sockets[s].at \in Instances /\ "closed" \notin Alive /\ UNCHANGED subscriber
    BY <1>1, <1>2, SocketTypes DEF Alive
<1>5. /\ conns' \in [Instances -> [Users -> {0} \cup Socket]]
      /\ \A j \in Instances, v \in Users : conns'[j][v] = conns[j][v] \/ (conns'[j][v] = 0 /\ conns[j][v] = s)
    BY <1>2, <1>3, <1>4
<1>6. \A j \in Instances, v \in Users : conns'[j][v] \in {0, conns[j][v]}
    BY <1>5
<1>7. TypeOK'
    BY <1>1, <1>2, <1>3, <1>5, <1>6, MoveTypes
<1>8. NewestIsRegistered'
    BY <1>1, <1>2, <1>4, <1>5, MoveNewest
<1>9. StoredOnceThenHeard' /\ CommittedInv'
    BY <1>1, <1>2 DEF StoredOnceThenHeard, CommittedInv, InFlight, Stored
<1>10. \A v \in Users, j \in Instances : Reachable(v, j)' => Reachable(v, j)
    <2>1. "closed" \in Alive \cup {"gone", "closed"} /\ "closed" # "current"
        OBVIOUS
    <2>2. sockets'[s].state # "current"
        BY <1>1, <1>2, <2>1, SocketMoves
    <2>. QED
        BY <1>1, <1>2, <1>4, <1>6, <2>1, <2>2, MoveReachable
<1>11. PublishedInv'
    BY <1>1, <1>2, <1>10, PublishedFrame DEF Announced, OnItsWay
<1>. QED
    BY <1>7, <1>8, <1>9, <1>11 DEF GatewayInv

LEMMA HandlerRaisesInvariant ==
    ASSUME GatewayInv, NEW s \in Socket, HandlerRaises(s)
    PROVE  GatewayInv'
<1>1. TypeOK /\ NewestIsRegistered /\ StoredOnceThenHeard /\ CommittedInv /\ PublishedInv
    BY DEF GatewayInv
<1>2. /\ sockets' = [sockets EXCEPT ![s].state = "closed"]
      /\ UNCHANGED subscriber /\ \A j \in Instances, v \in Users : conns'[j][v] \in {0, conns[j][v]}
      /\ attempt' = [a \in Attempt |-> IF attempt[a].via = s THEN Over ELSE attempt[a]]
      /\ UNCHANGED <<subscriber, conns, mailbox, rows, acked, seen, typed>>
    BY DEF HandlerRaises
<1>3. seen \in [Users -> SUBSET Messages] /\ attempt \in [Attempt -> Pass]
      /\ conns \in [Instances -> [Users -> {0} \cup Socket]]
    BY <1>1 DEF TypeOK
<1>4. attempt' \in [Attempt -> Pass] /\ \A a \in Attempt : attempt'[a] \in {attempt[a], Over}
    BY <1>2, <1>3 DEF Pass
<1>5. TypeOK'
    BY <1>1, <1>2, <1>3, <1>4, MoveTypes
<1>6. NewestIsRegistered'
    BY <1>1, <1>2, MoveNewest DEF Alive
<1>7. StoredOnceThenHeard'
    BY <1>1, <1>2 DEF StoredOnceThenHeard, Stored
<1>8. CommittedInv' /\ \A m \in Messages : Announced(m)' => Announced(m)
    BY <1>1, <1>2, <1>4, AttemptsEnd
<1>9. \A v \in Users, j \in Instances : Reachable(v, j)' => Reachable(v, j)
    <2>1. "closed" \in Alive \cup {"gone", "closed"} /\ "closed" # "current"
        OBVIOUS
    <2>2. sockets'[s].state # "current"
        BY <1>1, <1>2, <2>1, SocketMoves
    <2>. QED
        BY <1>1, <1>2, <2>1, <2>2, MoveReachable
<1>10. PublishedInv'
    BY <1>1, <1>2, <1>8, <1>9, PublishedFrame DEF OnItsWay
<1>. QED
    BY <1>5, <1>6, <1>7, <1>8, <1>10 DEF GatewayInv

-----------------------------------------------------------------------------
(***************************************************************************)
(* Sending.                                                                *)
(***************************************************************************)

\* Sockets and registry untouched: the newest stay where they are, and who is reachable.
LEMMA SocketsQuiet ==
    ASSUME NewestIsRegistered, UNCHANGED <<subscriber, conns, sockets>>
    PROVE  NewestIsRegistered' /\ \A v \in Users, j \in Instances : Reachable(v, j)' => Reachable(v, j)
BY DEF NewestIsRegistered, Socket, Reachable

\* ON CONFLICT DO NOTHING: a retry finds its row and adds none.
LEMMA PersistInvariant ==
    ASSUME GatewayInv, NEW m \in Messages, NEW n \in 1..MaxRequests, NEW i \in Instances,
           NEW s \in Socket \cup {REST}, Persist(m, n, i, s)
    PROVE  GatewayInv'
<1>. DEFINE b == <<m, n>>
<1>. DEFINE r == [step |-> "committed", at |-> i, via |-> s]
<1>1. TypeOK /\ NewestIsRegistered /\ StoredOnceThenHeard /\ CommittedInv /\ PublishedInv
    BY DEF GatewayInv
<1>2. /\ StoreOnce(m) /\ attempt' = [attempt EXCEPT ![b] = r]
      /\ UNCHANGED <<subscriber, conns, sockets, mailbox, acked, seen, typed>>
    BY DEF Persist
<1>3. b \in Attempt /\ b[1] = m
    BY DEF Attempt
<1>4. s \in Nat
    BY <1>1, SocketTypes DEF REST
<1>5. r \in Pass /\ r.step = "committed"
    BY <1>4 DEF Pass
<1>. HIDE DEF b, r
<1>6. /\ attempt' \in [Attempt -> Pass] /\ attempt'[b] = r
      /\ \A a \in Attempt : a # b => attempt'[a] = attempt[a]
    BY <1>1, <1>2, <1>3, <1>5 DEF TypeOK
<1>7. rows' \in Seq(Messages) /\ Range(rows') = Range(rows) \cup {m} /\ IsInjective(rows')
    <2>1. rows \in Seq(Messages) /\ IsInjective(rows)
        BY <1>1 DEF TypeOK, StoredOnceThenHeard
    <2>2. CASE Stored(m)
        BY <1>2, <2>1, <2>2 DEF StoreOnce, Stored
    <2>3. CASE ~Stored(m)
        <3>1. rows' = Append(rows, m) /\ m \notin Range(rows)
            BY <1>2, <2>3 DEF StoreOnce, Stored
        <3>2. Append(rows, m) \in Seq(Messages) /\ Range(Append(rows, m)) = Range(rows) \cup {m}
            BY <2>1, RangeAppend, AppendProperties
        <3>3. IsInjective(Append(rows, m))
            BY <2>1, <3>1, InjectiveAppend
        <3>. QED
            BY <3>1, <3>2, <3>3
    <2>. QED
        BY <2>2, <2>3
<1>8. TypeOK'
    BY <1>1, <1>2, <1>6, <1>7 DEF TypeOK, Socket, Up
<1>9. NewestIsRegistered' /\ \A v \in Users, j \in Instances : Reachable(v, j)' => Reachable(v, j)
    BY <1>1, <1>2, SocketsQuiet
<1>10. StoredOnceThenHeard'
    BY <1>1, <1>2, <1>7 DEF StoredOnceThenHeard, Stored
<1>11. CommittedInv'
    <2>1. ASSUME NEW a \in Attempt, InFlight(a)'
          PROVE  a[1] \in Range(rows')
        <3>1. CASE a = b
            BY <1>3, <1>7, <3>1
        <3>2. CASE a # b
            BY <1>1, <1>6, <1>7, <2>1, <3>2 DEF CommittedInv, InFlight, Stored
        <3>. QED
            BY <3>1, <3>2
    <2>2. acked' \subseteq Range(rows')
        BY <1>1, <1>2, <1>7 DEF CommittedInv
    <2>. QED
        BY <2>1, <2>2 DEF CommittedInv, Stored
<1>12. \A x \in Messages : Announced(x)' => Announced(x)
    BY <1>2, <1>5, <1>6 DEF Announced
<1>13. PublishedInv'
    BY <1>1, <1>2, <1>9, <1>12, PublishedFrame DEF OnItsWay
<1>. QED
    BY <1>8, <1>9, <1>10, <1>11, <1>13 DEF GatewayInv

\* Only after the commit, and to every instance that listens.
LEMMA PublishInvariant ==
    ASSUME GatewayInv, NEW b \in Attempt, Publish(b)
    PROVE  GatewayInv'
<1>. DEFINE x == Envelope(b[1], "message", Recipients(b[1]))
<1>1. TypeOK /\ NewestIsRegistered /\ StoredOnceThenHeard /\ CommittedInv /\ PublishedInv
    BY DEF GatewayInv
<1>2. /\ attempt[b].step = "committed" /\ attempt' = [attempt EXCEPT ![b].step = "published"] /\ Fanout(x)
      /\ UNCHANGED <<subscriber, conns, sockets, rows, acked, seen, typed>>
    BY DEF Publish
<1>3. b[1] \in Messages /\ Recipients(b[1]) \subseteq Users
    BY DEF Attempt, Recipients
<1>4. x \in EnvelopeRecord /\ x.kind = "message" /\ x.msg = b[1] /\ x.left = Recipients(b[1])
    BY <1>3 DEF Envelope, EnvelopeRecord
<1>. HIDE DEF x
<1>5. attempt \in [Attempt -> Pass] /\ attempt[b] \in [step : {"committed", "published"}, at : Instances, via : Nat]
    <2>1. attempt \in [Attempt -> Pass] /\ attempt[b] \in Pass
        BY <1>1 DEF TypeOK
    <2>2. Idle.step = "none" /\ Over.step = "over"
        BY DEF Idle, Over
    <2>. QED
        BY <1>2, <2>1, <2>2 DEF Pass
<1>6. /\ attempt' \in [Attempt -> Pass] /\ attempt'[b].step = "published"
      /\ \A a \in Attempt : a # b => attempt'[a] = attempt[a]
    <2>1. [attempt[b] EXCEPT !.step = "published"] \in Pass
        BY <1>5 DEF Pass
    <2>. QED
        BY <1>2, <1>5, <2>1
<1>7. /\ mailbox' \in [Instances -> Seq(EnvelopeRecord)]
      /\ \A j \in Instances :
            /\ mailbox'[j] # <<>> => subscriber[j] = "listening"
            /\ Range(mailbox'[j]) \subseteq Range(mailbox[j]) \cup {x}
            /\ subscriber[j] = "listening" => x \in Range(mailbox'[j])
      /\ \A j \in Instances, m \in Messages, v \in Users : OnItsWay(m, v, j) => OnItsWay(m, v, j)'
    BY <1>1, <1>2, <1>4, FanoutFacts
<1>8. TypeOK'
    BY <1>1, <1>2, <1>6, <1>7 DEF TypeOK, Socket, Up
<1>9. NewestIsRegistered' /\ \A v \in Users, j \in Instances : Reachable(v, j)' => Reachable(v, j)
    BY <1>1, <1>2, SocketsQuiet
<1>10. Stored(b[1])
    BY <1>1, <1>2 DEF CommittedInv, InFlight
<1>11. StoredOnceThenHeard'
    <2>1. \A j \in Instances : \A e \in Range(mailbox'[j]) : e.kind = "message" => Stored(e.msg)'
        BY <1>1, <1>2, <1>4, <1>7, <1>10 DEF StoredOnceThenHeard, Stored
    <2>. QED
        BY <1>1, <1>2, <2>1 DEF StoredOnceThenHeard
<1>12. CommittedInv'
    <2>1. \A a \in Attempt : InFlight(a)' => a = b \/ InFlight(a)
        BY <1>6 DEF InFlight
    <2>. QED
        BY <1>1, <1>2, <1>10, <2>1 DEF CommittedInv, Stored
<1>13. PublishedInv'
    <2>. SUFFICES ASSUME NEW v \in Users, NEW j \in Instances, Reachable(v, j)', NEW m \in Messages,
                         Announced(m)', v \in Recipients(m)
                  PROVE  m \in seen'[v] \/ OnItsWay(m, v, j)'
        BY DEF PublishedInv, Recipients
    <2>1. CASE m = b[1]
        <3>1. x \in Range(mailbox'[j])
            BY <1>7, <1>9 DEF Reachable
        <3>. QED
            BY <1>4, <2>1, <3>1 DEF OnItsWay
    <2>2. CASE m # b[1]
        <3>1. Announced(m)
            BY <1>2, <1>6, <2>2 DEF Announced
        <3>2. m \in seen[v] \/ OnItsWay(m, v, j)
            BY <1>1, <1>9, <3>1 DEF PublishedInv
        <3>. QED
            BY <1>2, <1>7, <3>2
    <2>. QED
        BY <2>1, <2>2
<1>. QED
    BY <1>8, <1>9, <1>11, <1>12, <1>13 DEF GatewayInv

\* The end of an attempt, acknowledged or not: what is acknowledged was announced.
LEMMA EndInvariant ==
    ASSUME GatewayInv, NEW b \in Attempt, Ack(b) \/ AckLost(b)
    PROVE  GatewayInv'
<1>1. TypeOK /\ NewestIsRegistered /\ StoredOnceThenHeard /\ CommittedInv /\ PublishedInv
    BY DEF GatewayInv
<1>2. /\ attempt[b].step = "published" /\ attempt' = [attempt EXCEPT ![b] = Over]
      /\ acked' \in {acked, acked \cup {b[1]}}
      /\ UNCHANGED <<subscriber, conns, sockets, mailbox, rows, seen, typed>>
    BY DEF Ack, AckLost
<1>3. b[1] \in Messages /\ Over \in Pass /\ Over.step = "over"
    BY DEF Attempt, Pass, Over, Idle
<1>4. /\ attempt' \in [Attempt -> Pass] /\ attempt'[b] = Over
      /\ \A a \in Attempt : a # b => attempt'[a] = attempt[a]
    BY <1>1, <1>2, <1>3 DEF TypeOK
<1>5. acked' \subseteq Messages
    BY <1>1, <1>2, <1>3 DEF TypeOK
<1>6. TypeOK'
    BY <1>1, <1>2, <1>4, <1>5 DEF TypeOK, Socket, Up
<1>7. NewestIsRegistered' /\ \A v \in Users, j \in Instances : Reachable(v, j)' => Reachable(v, j)
    BY <1>1, <1>2, SocketsQuiet
<1>8. StoredOnceThenHeard'
    BY <1>1, <1>2 DEF StoredOnceThenHeard, Stored
<1>9. Announced(b[1]) /\ Stored(b[1])
    BY <1>1, <1>2 DEF Announced, CommittedInv, InFlight
<1>10. CommittedInv'
    <2>1. \A a \in Attempt : InFlight(a)' => InFlight(a)
        BY <1>3, <1>4 DEF InFlight
    <2>. QED
        BY <1>1, <1>2, <1>9, <2>1 DEF CommittedInv, Stored
<1>11. \A m \in Messages : Announced(m)' => Announced(m)
    <2>. SUFFICES ASSUME NEW m \in Messages, Announced(m)', m # b[1]
                  PROVE  Announced(m)
        BY <1>9
    <2>. QED
        BY <1>2, <1>3, <1>4 DEF Announced
<1>12. PublishedInv'
    BY <1>1, <1>2, <1>7, <1>11, PublishedFrame DEF OnItsWay
<1>. QED
    BY <1>6, <1>7, <1>8, <1>10, <1>12 DEF GatewayInv

LEMMA TypingInvariant ==
    ASSUME GatewayInv, NEW s \in Socket, Typing(s)
    PROVE  GatewayInv'
<1>. DEFINE x == Envelope("", "typing", Users \ {sockets[s].user})
<1>1. TypeOK /\ NewestIsRegistered /\ StoredOnceThenHeard /\ CommittedInv /\ PublishedInv
    BY DEF GatewayInv
<1>2. /\ typed' = typed + 1 /\ Fanout(x)
      /\ UNCHANGED <<subscriber, conns, sockets, rows, attempt, acked, seen>>
    BY DEF Typing
<1>3. x \in EnvelopeRecord /\ x.kind = "typing"
    BY DEF Envelope, EnvelopeRecord
<1>. HIDE DEF x
<1>4. /\ mailbox' \in [Instances -> Seq(EnvelopeRecord)]
      /\ \A j \in Instances :
            /\ mailbox'[j] # <<>> => subscriber[j] = "listening"
            /\ Range(mailbox'[j]) \subseteq Range(mailbox[j]) \cup {x}
      /\ \A j \in Instances, m \in Messages, v \in Users : OnItsWay(m, v, j) => OnItsWay(m, v, j)'
    BY <1>1, <1>2, <1>3, FanoutFacts
<1>5. typed' \in Nat
    BY <1>1, <1>2 DEF TypeOK
<1>6. TypeOK'
    BY <1>1, <1>2, <1>4, <1>5 DEF TypeOK, Socket, Up
<1>7. NewestIsRegistered' /\ \A v \in Users, j \in Instances : Reachable(v, j)' => Reachable(v, j)
    BY <1>1, <1>2, SocketsQuiet
<1>8. \A j \in Instances : \A e \in Range(mailbox'[j]) : e.kind = "message" => Stored(e.msg)'
    BY <1>1, <1>2, <1>3, <1>4 DEF StoredOnceThenHeard, Stored
<1>9. StoredOnceThenHeard' /\ CommittedInv'
    BY <1>1, <1>2, <1>8 DEF StoredOnceThenHeard, CommittedInv, InFlight, Stored
<1>10. PublishedInv'
    BY <1>1, <1>2, <1>4, <1>7, PublishedFrame DEF Announced
<1>. QED
    BY <1>6, <1>7, <1>9, <1>10 DEF GatewayInv

-----------------------------------------------------------------------------
(***************************************************************************)
(* The last hop.                                                           *)
(***************************************************************************)

\* What every delivery leaves as it was.
LEMMA DeliveryQuiet ==
    ASSUME TypeOK, NewestIsRegistered, StoredOnceThenHeard, CommittedInv,
           NEW i \in Instances, NEW u \in Users, Delivering(i, u), Delivered(i, u),
           UNCHANGED <<subscriber, conns, sockets, rows, attempt, acked, typed>>,
           seen' \in [Users -> SUBSET Messages], \A v \in Users : seen'[v] \subseteq Range(rows)
    PROVE  TypeOK' /\ NewestIsRegistered' /\ StoredOnceThenHeard' /\ CommittedInv'
<1>1. /\ mailbox' \in [Instances -> Seq(EnvelopeRecord)]
      /\ \A j \in Instances : mailbox'[j] # <<>> => mailbox[j] # <<>>
      /\ \A j \in Instances : \A e \in Range(mailbox'[j]) :
            \E f \in Range(mailbox[j]) : f.kind = e.kind /\ f.msg = e.msg
    BY DeliveredFacts
<1>2. \A j \in Instances : mailbox'[j] # <<>> => subscriber[j] = "listening"
    BY <1>1 DEF TypeOK
<1>3. TypeOK'
    BY <1>1, <1>2 DEF TypeOK, Socket, Up
<1>4. \A j \in Instances : \A e \in Range(mailbox'[j]) : e.kind = "message" => Stored(e.msg)'
    <2>1. SUFFICES ASSUME NEW j \in Instances, NEW e \in Range(mailbox'[j]), e.kind = "message"
                   PROVE  Stored(e.msg)
        BY DEF Stored
    <2>2. PICK f \in Range(mailbox[j]) : f.kind = e.kind /\ f.msg = e.msg
        BY <1>1
    <2>3. Stored(f.msg)
        BY <2>1, <2>2 DEF StoredOnceThenHeard
    <2>. QED
        BY <2>2, <2>3
<1>5. StoredOnceThenHeard'
    BY <1>4 DEF StoredOnceThenHeard
<1>. QED
    BY <1>3, <1>5, SocketsQuiet DEF CommittedInv, InFlight, Stored

LEMMA DeliverToNobodyInvariant ==
    ASSUME GatewayInv, NEW i \in Instances, NEW u \in Users, DeliverToNobody(i, u)
    PROVE  GatewayInv'
<1>1. TypeOK /\ NewestIsRegistered /\ StoredOnceThenHeard /\ CommittedInv /\ PublishedInv
    BY DEF GatewayInv
<1>2. /\ Delivering(i, u) /\ Delivered(i, u)
      /\ UNCHANGED <<subscriber, conns, sockets, rows, attempt, acked, seen, typed>>
    BY DEF DeliverToNobody
<1>3. UNCHANGED <<subscriber, conns, sockets, rows, attempt, acked, typed>>
      /\ seen' \in [Users -> SUBSET Messages] /\ \A v \in Users : seen'[v] \subseteq Range(rows)
    BY <1>1, <1>2 DEF TypeOK, StoredOnceThenHeard
<1>4. TypeOK' /\ NewestIsRegistered' /\ StoredOnceThenHeard' /\ CommittedInv'
    BY <1>1, <1>2, <1>3, DeliveryQuiet
<1>5. ~Reachable(u, i)
    BY DEF DeliverToNobody, Reachable
<1>6. \A v \in Users, j \in Instances : Reachable(v, j)' => Reachable(v, j)
    BY <1>1, <1>3, SocketsQuiet
<1>7. \A j \in Instances, m \in Messages, v \in Users : OnItsWay(m, v, j) => OnItsWay(m, v, j)' \/ (j = i /\ v = u)
    BY <1>1, <1>2, DeliveredFacts
<1>8. PublishedInv'
    BY <1>1, <1>2, <1>5, <1>6, <1>7, PublishedFrame DEF Announced
<1>. QED
    BY <1>4, <1>8 DEF GatewayInv

LEMMA PushInvariant ==
    ASSUME GatewayInv, NEW i \in Instances, NEW u \in Users, Push(i, u)
    PROVE  GatewayInv'
<1>. DEFINE h == Head(mailbox[i])
<1>1. TypeOK /\ NewestIsRegistered /\ StoredOnceThenHeard /\ CommittedInv /\ PublishedInv
    BY DEF GatewayInv
<1>2. /\ Delivering(i, u) /\ Delivered(i, u)
      /\ seen' = IF h.kind = "message" THEN [seen EXCEPT ![u] = @ \cup {h.msg}] ELSE seen
      /\ UNCHANGED <<subscriber, conns, sockets, rows, attempt, acked, typed>>
    BY DEF Push
<1>3. h \in Range(mailbox[i])
    <2>1. mailbox[i] \in Seq(EnvelopeRecord) /\ mailbox[i] # <<>>
        BY <1>1, <1>2 DEF TypeOK, Delivering
    <2>. QED
        BY <2>1, RangeHeadTail
<1>4. h.kind = "message" => h.msg \in Range(rows)
    BY <1>1, <1>3 DEF StoredOnceThenHeard, Stored
<1>5. \A j \in Instances, m \in Messages, v \in Users :
         OnItsWay(m, v, j) => OnItsWay(m, v, j)' \/ (v = u /\ h.kind = "message" /\ h.msg = m)
    BY <1>1, <1>2, DeliveredFacts
<1>. HIDE DEF h
<1>6. seen \in [Users -> SUBSET Messages] /\ Range(rows) \subseteq Messages
      /\ \A v \in Users : seen[v] \subseteq Range(rows)
    BY <1>1, RowsTyped DEF TypeOK, StoredOnceThenHeard
<1>7. /\ seen' \in [Users -> SUBSET Messages]
      /\ \A v \in Users : seen'[v] \subseteq Range(rows) /\ seen[v] \subseteq seen'[v]
      /\ h.kind = "message" => h.msg \in seen'[u]
    <2>1. CASE h.kind = "message"
        BY <1>2, <1>4, <1>6, <2>1
    <2>2. CASE h.kind # "message"
        BY <1>2, <1>6, <2>2
    <2>. QED
        BY <2>1, <2>2
<1>8. TypeOK' /\ NewestIsRegistered' /\ StoredOnceThenHeard' /\ CommittedInv'
    BY <1>1, <1>2, <1>7, DeliveryQuiet
<1>9. \A v \in Users, j \in Instances : Reachable(v, j)' => Reachable(v, j)
    BY <1>1, <1>2, SocketsQuiet
<1>10. \A v \in Users, j \in Instances, m \in Messages :
          Reachable(v, j)' /\ OnItsWay(m, v, j) => OnItsWay(m, v, j)' \/ m \in seen'[v]
    BY <1>5, <1>7
<1>11. \A m \in Messages : Announced(m)' => Announced(m)
    BY <1>2 DEF Announced
<1>12. PublishedInv'
    BY <1>1, <1>7, <1>9, <1>10, <1>11, PublishedFrame
<1>. QED
    BY <1>8, <1>12 DEF GatewayInv

-----------------------------------------------------------------------------
(***************************************************************************)
(* A subscriber ends; a process dies and starts again.                     *)
(***************************************************************************)

\* An instance's mailbox is lost: what the others hold is as it was.
LEMMA MailboxLost ==
    ASSUME TypeOK, StoredOnceThenHeard, NEW i \in Instances,
           mailbox' = [mailbox EXCEPT ![i] = <<>>], UNCHANGED <<rows, seen>>
    PROVE  /\ mailbox' \in [Instances -> Seq(EnvelopeRecord)] /\ mailbox'[i] = <<>>
           /\ \A j \in Instances : j # i => mailbox'[j] = mailbox[j]
           /\ StoredOnceThenHeard'
<1>1. /\ mailbox' \in [Instances -> Seq(EnvelopeRecord)] /\ mailbox'[i] = <<>>
      /\ \A j \in Instances : j # i => mailbox'[j] = mailbox[j]
    BY DEF TypeOK
<1>2. \A j \in Instances : Range(mailbox'[j]) \subseteq Range(mailbox[j])
    BY <1>1 DEF Range
<1>3. \A j \in Instances : \A e \in Range(mailbox'[j]) : e.kind = "message" => Stored(e.msg)'
    BY <1>2 DEF StoredOnceThenHeard, Stored
<1>. QED
    BY <1>1, <1>3 DEF StoredOnceThenHeard

LEMMA SubscriberRaisesInvariant ==
    ASSUME GatewayInv, NEW i \in Instances, NEW u \in Users, SubscriberRaises(i, u)
    PROVE  GatewayInv'
<1>1. TypeOK /\ NewestIsRegistered /\ StoredOnceThenHeard /\ CommittedInv /\ PublishedInv
    BY DEF GatewayInv
<1>2. /\ subscriber[i] = "listening" /\ subscriber' = [subscriber EXCEPT ![i] = "dead"]
      /\ mailbox' = [mailbox EXCEPT ![i] = <<>>]
      /\ UNCHANGED <<conns, sockets, rows, attempt, acked, seen, typed>>
    BY DEF SubscriberRaises, Delivering
<1>3. /\ mailbox' \in [Instances -> Seq(EnvelopeRecord)] /\ mailbox'[i] = <<>>
      /\ \A j \in Instances : j # i => mailbox'[j] = mailbox[j]
      /\ StoredOnceThenHeard'
    BY <1>1, <1>2, MailboxLost
<1>4. /\ subscriber' \in [Instances -> {"listening", "dead", "down"}] /\ subscriber'[i] = "dead"
      /\ \A j \in Instances : j # i => subscriber'[j] = subscriber[j]
    BY <1>1, <1>2 DEF TypeOK
<1>5. \A j \in Instances : (Up(j) => Up(j)') /\ (mailbox'[j] # <<>> => subscriber'[j] = "listening")
    BY <1>1, <1>3, <1>4 DEF TypeOK, Up
<1>6. TypeOK'
    BY <1>1, <1>2, <1>3, <1>4, <1>5 DEF TypeOK, Socket
<1>7. NewestIsRegistered'
    BY <1>1, <1>2 DEF NewestIsRegistered, Socket
<1>8. CommittedInv'
    BY <1>1, <1>2 DEF CommittedInv, InFlight, Stored
<1>9. \A v \in Users, j \in Instances : Reachable(v, j)' => Reachable(v, j) /\ j # i
    BY <1>2, <1>4 DEF Reachable
<1>10. PublishedInv'
    BY <1>1, <1>2, <1>3, <1>9, PublishedFrame DEF Announced, OnItsWay
<1>. QED
    BY <1>3, <1>6, <1>7, <1>8, <1>10 DEF GatewayInv

LEMMA InstanceDiesInvariant ==
    ASSUME GatewayInv, NEW i \in Instances, InstanceDies(i)
    PROVE  GatewayInv'
<1>1. TypeOK /\ NewestIsRegistered /\ StoredOnceThenHeard /\ CommittedInv /\ PublishedInv
    BY DEF GatewayInv
<1>2. /\ subscriber' = [subscriber EXCEPT ![i] = "down"]
      /\ conns' = [conns EXCEPT ![i] = [u \in Users |-> 0]]
      /\ mailbox' = [mailbox EXCEPT ![i] = <<>>]
      /\ sockets' = [s \in Socket |-> IF sockets[s].at = i THEN [sockets[s] EXCEPT !.state = "closed"]
                                      ELSE sockets[s]]
      /\ attempt' = [a \in Attempt |-> IF attempt[a].at = i THEN Over ELSE attempt[a]]
      /\ UNCHANGED <<rows, acked, seen, typed>>
    BY DEF InstanceDies
<1>3. /\ mailbox' \in [Instances -> Seq(EnvelopeRecord)] /\ mailbox'[i] = <<>>
      /\ \A j \in Instances : j # i => mailbox'[j] = mailbox[j]
      /\ StoredOnceThenHeard'
    BY <1>1, <1>2, MailboxLost
<1>4. /\ subscriber' \in [Instances -> {"listening", "dead", "down"}] /\ subscriber'[i] = "down"
      /\ \A j \in Instances : j # i => subscriber'[j] = subscriber[j]
    BY <1>1, <1>2 DEF TypeOK
<1>5. \A j \in Instances : (j # i /\ Up(j) => Up(j)') /\ (mailbox'[j] # <<>> => subscriber'[j] = "listening")
    BY <1>1, <1>3, <1>4 DEF TypeOK, Up
<1>6. \A s \in Socket :
         /\ sockets'[s] \in SocketRecord
         /\ sockets'[s].user = sockets[s].user /\ sockets'[s].at = sockets[s].at
         /\ sockets[s].at = i => sockets'[s].state = "closed"
         /\ sockets[s].at # i => sockets'[s] = sockets[s]
    <2>. SUFFICES ASSUME NEW s \in Socket
                  PROVE  /\ sockets'[s] \in SocketRecord
                         /\ sockets'[s].user = sockets[s].user /\ sockets'[s].at = sockets[s].at
                         /\ sockets[s].at = i => sockets'[s].state = "closed"
                         /\ sockets[s].at # i => sockets'[s] = sockets[s]
        OBVIOUS
    <2>1. sockets[s] \in SocketRecord
        BY <1>1, SocketTypes
    <2>2. sockets'[s] = IF sockets[s].at = i THEN [sockets[s] EXCEPT !.state = "closed"] ELSE sockets[s]
        BY <1>2
    <2>. QED
        BY <2>1, <2>2 DEF SocketRecord
<1>7. sockets' \in Seq(SocketRecord) /\ Len(sockets') = Len(sockets) /\ Socket' = Socket
    <2>1. Len(sockets) \in Nat /\ Socket = 1..Len(sockets)
        BY <1>1, SocketTypes DEF Socket
    <2>2. sockets' \in [1..Len(sockets) -> SocketRecord]
        BY <1>2, <1>6, <2>1
    <2>3. sockets' \in Seq(SocketRecord)
        BY <2>1, <2>2
    <2>4. Len(sockets') = Len(sockets)
        BY <2>1, <2>2, <2>3
    <2>. QED
        BY <2>3, <2>4 DEF Socket
<1>8. conns \in [Instances -> [Users -> {0} \cup Socket]]
      /\ \A j \in Instances, v \in Users :
            conns[j][v] # 0 => conns[j][v] \in Socket /\ Up(j) /\ sockets[conns[j][v]].user = v /\ sockets[conns[j][v]].at = j
    BY <1>1 DEF TypeOK
<1>9. /\ conns' \in [Instances -> [Users -> {0} \cup Socket']]
      /\ \A v \in Users : conns'[i][v] = 0
      /\ \A j \in Instances : j # i => conns'[j] = conns[j]
    BY <1>2, <1>7, <1>8
<1>10. \A j \in Instances, v \in Users :
          conns'[j][v] # 0 => Up(j)' /\ sockets'[conns'[j][v]].user = v /\ sockets'[conns'[j][v]].at = j
    BY <1>5, <1>6, <1>8, <1>9
<1>11. attempt' \in [Attempt -> Pass] /\ \A a \in Attempt : attempt'[a] \in {attempt[a], Over}
    BY <1>1, <1>2 DEF TypeOK, Pass
<1>12. TypeOK'
    BY <1>1, <1>2, <1>3, <1>4, <1>5, <1>7, <1>9, <1>10, <1>11 DEF TypeOK
<1>13. NewestIsRegistered'
    <2>. SUFFICES ASSUME NEW s \in Socket, sockets'[s].state \in Alive,
                         \A t \in Socket : sockets[t].user = sockets[s].user /\ sockets[t].at = sockets[s].at => t <= s
                  PROVE  conns'[sockets[s].at][sockets[s].user] = s
        BY <1>6, <1>7 DEF NewestIsRegistered
    <2>1. sockets[s].at # i /\ sockets'[s] = sockets[s]
        BY <1>6 DEF Alive
    <2>2. conns[sockets[s].at][sockets[s].user] = s
        BY <1>1, <2>1 DEF NewestIsRegistered
    <2>3. sockets[s].at \in Instances
        BY <1>1, SocketTypes
    <2>. QED
        BY <1>9, <2>1, <2>2, <2>3
<1>14. CommittedInv' /\ \A m \in Messages : Announced(m)' => Announced(m)
    BY <1>1, <1>2, <1>11, AttemptsEnd
<1>15. \A v \in Users, j \in Instances : Reachable(v, j)' => Reachable(v, j) /\ j # i
    BY <1>4, <1>6, <1>8, <1>9 DEF Reachable
<1>16. PublishedInv'
    BY <1>1, <1>2, <1>3, <1>14, <1>15, PublishedFrame DEF OnItsWay
<1>. QED
    BY <1>3, <1>12, <1>13, <1>14, <1>16 DEF GatewayInv

LEMMA InstanceStartsInvariant ==
    ASSUME GatewayInv, NEW i \in Instances, InstanceStarts(i)
    PROVE  GatewayInv'
<1>1. TypeOK /\ NewestIsRegistered /\ StoredOnceThenHeard /\ CommittedInv /\ PublishedInv
    BY DEF GatewayInv
<1>2. /\ ~Up(i) /\ subscriber' = [subscriber EXCEPT ![i] = "listening"]
      /\ UNCHANGED <<conns, sockets, mailbox, rows, attempt, acked, seen, typed>>
    BY DEF InstanceStarts
<1>3. /\ subscriber' \in [Instances -> {"listening", "dead", "down"}] /\ subscriber'[i] = "listening"
      /\ \A j \in Instances : j # i => subscriber'[j] = subscriber[j]
    BY <1>1, <1>2 DEF TypeOK
<1>4. \A j \in Instances : (Up(j) => Up(j)') /\ (mailbox'[j] # <<>> => subscriber'[j] = "listening")
    BY <1>1, <1>2, <1>3 DEF TypeOK, Up
<1>5. TypeOK'
    BY <1>1, <1>2, <1>3, <1>4 DEF TypeOK, Socket
<1>6. NewestIsRegistered'
    BY <1>1, <1>2 DEF NewestIsRegistered, Socket
<1>7. StoredOnceThenHeard' /\ CommittedInv'
    BY <1>1, <1>2 DEF StoredOnceThenHeard, CommittedInv, InFlight, Stored
<1>8. \A v \in Users : conns[i][v] = 0
    BY <1>1, <1>2 DEF TypeOK
<1>9. \A v \in Users, j \in Instances : Reachable(v, j)' => Reachable(v, j)
    BY <1>2, <1>3, <1>8 DEF Reachable
<1>10. PublishedInv'
    BY <1>1, <1>2, <1>9, PublishedFrame DEF Announced, OnItsWay
<1>. QED
    BY <1>5, <1>6, <1>7, <1>10 DEF GatewayInv

-----------------------------------------------------------------------------
(***************************************************************************)
(* The theorems.                                                           *)
(***************************************************************************)
LEMMA StepInvariant ==
    ASSUME GatewayInv, [Next]_vars
    PROVE  GatewayInv'
<1>1. CASE ClientStep
    BY <1>1, ConnectInvariant, ReadHistoryInvariant, LeaveInvariant, TypingInvariant, PersistInvariant DEF ClientStep
<1>2. CASE \E a \in Attempt : HandlerStep(a)
    BY <1>2, PublishInvariant, EndInvariant DEF HandlerStep
<1>3. CASE \E s \in Socket : Deregister(s) \/ HandlerRaises(s)
    BY <1>3, DeregisterInvariant, HandlerRaisesInvariant
<1>4. CASE \E i \in Instances : DeliverStep(i)
    BY <1>4, DeliverToNobodyInvariant, PushInvariant, SubscriberRaisesInvariant DEF DeliverStep
<1>5. CASE \E i \in Instances : InstanceDies(i) \/ InstanceStarts(i)
    BY <1>5, InstanceDiesInvariant, InstanceStartsInvariant
<1>6. CASE UNCHANGED vars
    BY <1>6 DEF vars, GatewayInv, TypeOK, NewestIsRegistered, StoredOnceThenHeard, CommittedInv, PublishedInv,
                Socket, Up, Stored, InFlight, Announced, Reachable, OnItsWay
<1>. QED
    BY <1>1, <1>2, <1>3, <1>4, <1>5, <1>6 DEF Next

LEMMA Invariance == Spec => []GatewayInv
<1>1. Init => GatewayInv
    BY InitInvariant
<1>2. GatewayInv /\ [Next]_vars => GatewayInv'
    BY StepInvariant
<1>. QED
    BY <1>1, <1>2, PTL DEF Spec

\* Types; a registry entry is a socket of that user on that process, and a process that is
\* down, or whose subscriber ended, holds nothing to deliver (chat/main.py, lifespan).
THEOREM GatewayTypeCorrect == Spec => []TypeOK
<1>1. GatewayInv => TypeOK
    BY DEF GatewayInv
<1>. QED
    BY <1>1, Invariance, PTL

\* The newest open socket of a user on an instance stays the one delivered to: the guard
\* on identity in the handler's clean-up (chat/main.py, ws_endpoint).
THEOREM NewestStays == Spec => []NewestIsRegistered
<1>1. GatewayInv => NewestIsRegistered
    BY DEF GatewayInv
<1>. QED
    BY <1>1, Invariance, PTL

\* Persist, then fan out: nothing is heard or relayed that is not a row, and however many
\* attempts run at the same time there is one row (chat/main.py, persist_and_fanout).
THEOREM PersistThenDeliver == Spec => []StoredOnceThenHeard
<1>1. GatewayInv => StoredOnceThenHeard
    BY DEF GatewayInv
<1>. QED
    BY <1>1, Invariance, PTL

\* Connecting and then reading the history leaves no gap, for any number of instances and
\* whichever of them die: an acknowledged message is with each client that can be
\* reached, or on its way there (chat/main.py, persist_and_fanout and the subscriber).
THEOREM NoGap == Spec => []NothingMissed
<1>1. GatewayInv => NothingMissed
    BY DEF GatewayInv, NothingMissed, PublishedInv, Announced, TypeOK
<1>. QED
    BY <1>1, Invariance, PTL

=============================================================================
