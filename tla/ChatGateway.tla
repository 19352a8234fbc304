---------------------------- MODULE ChatGateway ----------------------------
(***************************************************************************)
(* The chat gateway: several instances of one process, each with its own   *)
(* registry of sockets (conns) and one background subscriber, joined by a  *)
(* Redis channel.  A send is committed, published to the channel, and only *)
(* then acknowledged; every instance's subscriber pushes it down the       *)
(* sockets it holds.                                                       *)
(*                                                                         *)
(* An instance is one event loop, so whatever runs between two awaits is   *)
(* one step here; everything else interleaves: two instances, a handler    *)
(* and the subscriber of one instance, a retry and the attempt it repeats. *)
(* One conversation, whose participants are Users; clients mint one id per *)
(* message and reuse it on a retry, as the schema asks of them, so a       *)
(* message stands for its <<sender_id, client_msg_id>>.                    *)
(***************************************************************************)
EXTENDS Naturals, Sequences, FiniteSets, Functions

CONSTANTS
    Instances,      \* gateway processes
    Users,          \* rows of msg_participants for the conversation
    Messages,       \* client_msg_ids
    SenderOf,       \* the user who mints each message
    MaxSockets,     \* bound: sockets opened in a behaviour
    MaxRequests,    \* bound: sends, retries included, and typing pings in a behaviour
    Faults          \* what may go wrong, a subset of Fault

Fault ==
    { "instance",   \* a gateway process dies and starts again
      "handler",    \* a handler raises something other than WebSocketDisconnect
      "rest" }      \* the answer to a REST send is lost

ASSUME GatewayAssumption ==
    /\ SenderOf \in [Messages -> Users]
    /\ MaxSockets \in Nat /\ MaxRequests \in Nat
    /\ Faults \subseteq Fault

VARIABLES
    subscriber,     \* [Instances -> "listening", "dead" (its task ended), "down" (no process)]
    conns,          \* [Instances -> [Users -> socket, or 0]]
    sockets,        \* the sockets accepted so far, oldest first, each with its user, instance, state
    mailbox,        \* [Instances -> envelopes not fully delivered, oldest first]
    rows,           \* msg_messages in id order
    attempt,        \* [Messages \X 1..MaxRequests -> one pass through persist_and_fanout]
    acked,          \* messages whose sender heard that they are stored
    seen,           \* [Users -> messages for the user that the user's client has]
    typed           \* typing pings so far

vars == <<subscriber, conns, sockets, mailbox, rows, attempt, acked, seen, typed>>

Socket == 1..Len(sockets)
Attempt == Messages \X (1..MaxRequests)
REST == 0
Idle == [step |-> "none", at |-> "", via |-> REST]
Over == [Idle EXCEPT !.step = "over"]

\* A message for its recipients, or somebody's typing ping.
Envelope(msg, kind, to) == [kind |-> kind, msg |-> msg, left |-> to]

Recipients(m) == Users \ {SenderOf[m]}

\* A socket is open from accept until its client leaves ("gone") or its handler ends
\* ("closed"); it is "current" once its client has read the history through it.
Alive == {"open", "current"}
Stored(m) == m \in Range(rows)
Up(i) == subscriber[i] # "down"
MoreRequests == typed + Cardinality({a \in Attempt : attempt[a] # Idle}) < MaxRequests
InFlight(a) == attempt[a].step \in {"committed", "published"}
Busy(s) == \E a \in Attempt : InFlight(a) /\ attempt[a].via = s

\* PUBLISH reaches the instances whose subscriber is there to read it.
Fanout(e) ==
    mailbox' = [i \in Instances |-> IF subscriber[i] = "listening" THEN Append(mailbox[i], e) ELSE mailbox[i]]

Init ==
    /\ subscriber = [i \in Instances |-> "listening"]
    /\ conns = [i \in Instances |-> [u \in Users |-> 0]]
    /\ sockets = <<>>
    /\ mailbox = [i \in Instances |-> <<>>]
    /\ rows = <<>>
    /\ attempt = [a \in Attempt |-> Idle]
    /\ acked = {}
    /\ seen = [u \in Users |-> {}]
    /\ typed = 0

-----------------------------------------------------------------------------
(***************************************************************************)
(* Sockets: accept, leave, deregister.                                     *)
(***************************************************************************)

\* A user's newest socket on an instance replaces the one before it in the registry.
Connect(u, i) ==
    /\ Up(i)
    /\ Len(sockets) < MaxSockets
    /\ sockets' = Append(sockets, [user |-> u, at |-> i, state |-> "open"])
    /\ conns' = [conns EXCEPT ![i][u] = Len(sockets) + 1]
    /\ UNCHANGED <<subscriber, mailbox, rows, attempt, acked, seen, typed>>

\* GET /conversations/{id}/messages, once the socket is open.
ReadHistory(s) ==
    /\ sockets[s].state = "open"
    /\ \E i \in Instances : Up(i)
    /\ sockets' = [sockets EXCEPT ![s].state = "current"]
    /\ seen' = [seen EXCEPT ![sockets[s].user] =
                  @ \cup {m \in Range(rows) : sockets[s].user \in Recipients(m)}]
    /\ UNCHANGED <<subscriber, conns, mailbox, rows, attempt, acked, typed>>

\* The client is gone; its handler has not noticed yet.
Leave(s) ==
    /\ sockets[s].state \in Alive
    /\ sockets' = [sockets EXCEPT ![s].state = "gone"]
    /\ UNCHANGED <<subscriber, conns, mailbox, rows, attempt, acked, seen, typed>>

\* Mutant: without the guard on identity, an old socket takes a newer one with it.
DeregisterAnyway(s) ==
    /\ sockets[s].state = "gone"
    /\ ~Busy(s)
    /\ sockets' = [sockets EXCEPT ![s].state = "closed"]
    /\ conns' = [conns EXCEPT ![sockets[s].at][sockets[s].user] = 0]
    /\ UNCHANGED <<subscriber, mailbox, rows, attempt, acked, seen, typed>>

\* WebSocketDisconnect ends the receive loop: the handler removes its own entry only.
Deregister(s) ==
    /\ sockets[s].state = "gone"
    /\ ~Busy(s)
    /\ sockets' = [sockets EXCEPT ![s].state = "closed"]
    /\ conns' = [conns EXCEPT ![sockets[s].at][sockets[s].user] = IF @ = s THEN 0 ELSE @]
    /\ UNCHANGED <<subscriber, mailbox, rows, attempt, acked, seen, typed>>

\* Any other exception (a frame without its fields, an error of the database, a PUBLISH
\* that raises after the commit) leaves the handler past the `except`: the socket is
\* closed and its entry stays in the registry.
HandlerRaises(s) ==
    /\ "handler" \in Faults
    /\ sockets[s].state # "closed"
    /\ \A a \in Attempt : attempt[a].via = s => attempt[a].step # "published"
    /\ sockets' = [sockets EXCEPT ![s].state = "closed"]
    /\ attempt' = [a \in Attempt |-> IF attempt[a].via = s THEN Over ELSE attempt[a]]
    /\ UNCHANGED <<subscriber, conns, mailbox, rows, acked, seen, typed>>

-----------------------------------------------------------------------------
(***************************************************************************)
(* Sending.                                                                *)
(***************************************************************************)

\* A client sends, or sends again while it has heard no ack; its earlier attempt may
\* still be running somewhere.
MayTry(m, n) ==
    /\ MoreRequests
    /\ m \notin acked
    /\ attempt[<<m, n>>].step = "none"
    /\ n > 1 => attempt[<<m, n - 1>>].step # "none"

\* Mutant: no conflict target.
StoreAgain(m) == rows' = Append(rows, m)

\* INSERT ... ON CONFLICT DO NOTHING.
StoreOnce(m) == rows' = IF Stored(m) THEN rows ELSE Append(rows, m)

\* persist_and_fanout up to the commit, for a frame on socket s or a POST to instance i.
Persist(m, n, i, s) ==
    /\ MayTry(m, n)
    /\ \/ s = REST /\ Up(i)
       \/ /\ s \in Socket
          /\ sockets[s].user = SenderOf[m] /\ sockets[s].at = i
          /\ sockets[s].state \in Alive
          /\ ~Busy(s)
    /\ StoreOnce(m)
    /\ attempt' = [attempt EXCEPT ![<<m, n>>] = [step |-> "committed", at |-> i, via |-> s]]
    /\ UNCHANGED <<subscriber, conns, sockets, mailbox, acked, seen, typed>>

\* Mutant: straight to the sockets this process holds, as before the bus.
PublishLocally(a) ==
    /\ attempt[a].step = "committed"
    /\ attempt' = [attempt EXCEPT ![a].step = "published"]
    /\ mailbox' = [mailbox EXCEPT ![attempt[a].at] = Append(@, Envelope(a[1], "message", Recipients(a[1])))]
    /\ UNCHANGED <<subscriber, conns, sockets, rows, acked, seen, typed>>

\* A retry publishes again: the first attempt may have died before it did.
Publish(a) ==
    /\ attempt[a].step = "committed"
    /\ attempt' = [attempt EXCEPT ![a].step = "published"]
    /\ Fanout(Envelope(a[1], "message", Recipients(a[1])))
    /\ UNCHANGED <<subscriber, conns, sockets, rows, acked, seen, typed>>

Ack(a) ==
    /\ attempt[a].step = "published"
    /\ attempt[a].via # REST => sockets[attempt[a].via].state \in Alive
    /\ attempt' = [attempt EXCEPT ![a] = Over]
    /\ acked' = acked \cup {a[1]}
    /\ UNCHANGED <<subscriber, conns, sockets, mailbox, rows, seen, typed>>

\* The sender left, or the answer to the POST got lost.
AckLost(a) ==
    /\ attempt[a].step = "published"
    /\ IF attempt[a].via = REST THEN "rest" \in Faults ELSE sockets[attempt[a].via].state = "gone"
    /\ attempt' = [attempt EXCEPT ![a] = Over]
    /\ UNCHANGED <<subscriber, conns, sockets, mailbox, rows, acked, seen, typed>>

\* Typing is relayed and never stored.
Typing(s) ==
    /\ MoreRequests
    /\ sockets[s].state \in Alive
    /\ ~Busy(s)
    /\ typed' = typed + 1
    /\ Fanout(Envelope("", "typing", Users \ {sockets[s].user}))
    /\ UNCHANGED <<subscriber, conns, sockets, rows, attempt, acked, seen>>

-----------------------------------------------------------------------------
(***************************************************************************)
(* The subscriber: the last hop.                                           *)
(***************************************************************************)

\* The envelope at the head of the mailbox, still to be delivered to u.
Delivering(i, u) ==
    /\ subscriber[i] = "listening"
    /\ mailbox[i] # <<>>
    /\ u \in Head(mailbox[i]).left

Delivered(i, u) ==
    LET e == Head(mailbox[i])
        rest == Tail(mailbox[i])
    IN  mailbox' = [mailbox EXCEPT ![i] =
            IF e.left = {u} THEN rest ELSE <<[e EXCEPT !.left = @ \ {u}]>> \o rest]

\* No socket here, or one that a client left: what is written to it reaches nobody.
DeliverToNobody(i, u) ==
    /\ Delivering(i, u)
    /\ conns[i][u] # 0 => sockets[conns[i][u]].state = "gone"
    /\ Delivered(i, u)
    /\ UNCHANGED <<subscriber, conns, sockets, rows, attempt, acked, seen, typed>>

Push(i, u) ==
    /\ Delivering(i, u)
    /\ conns[i][u] # 0
    /\ sockets[conns[i][u]].state \in Alive
    /\ seen' = IF Head(mailbox[i]).kind = "message"
               THEN [seen EXCEPT ![u] = @ \cup {Head(mailbox[i]).msg}] ELSE seen
    /\ Delivered(i, u)
    /\ UNCHANGED <<subscriber, conns, sockets, rows, attempt, acked, typed>>

\* send_text on a socket that is no longer connected raises out of _deliver_local and out
\* of the `async for`: the task ends, and nothing starts another one.
SubscriberRaises(i, u) ==
    /\ Delivering(i, u)
    /\ conns[i][u] # 0
    /\ sockets[conns[i][u]].state \notin Alive
    /\ subscriber' = [subscriber EXCEPT ![i] = "dead"]
    /\ mailbox' = [mailbox EXCEPT ![i] = <<>>]
    /\ UNCHANGED <<conns, sockets, rows, attempt, acked, seen, typed>>

-----------------------------------------------------------------------------
\* The process dies with its sockets, its registry and the requests it was serving.
InstanceDies(i) ==
    /\ "instance" \in Faults
    /\ Up(i)
    /\ subscriber' = [subscriber EXCEPT ![i] = "down"]
    /\ conns' = [conns EXCEPT ![i] = [u \in Users |-> 0]]
    /\ mailbox' = [mailbox EXCEPT ![i] = <<>>]
    /\ sockets' = [s \in Socket |-> IF sockets[s].at = i THEN [sockets[s] EXCEPT !.state = "closed"]
                                    ELSE sockets[s]]
    /\ attempt' = [a \in Attempt |-> IF attempt[a].at = i THEN Over ELSE attempt[a]]
    /\ UNCHANGED <<rows, acked, seen, typed>>

\* lifespan: subscribe, then serve.
InstanceStarts(i) ==
    /\ ~Up(i)
    /\ subscriber' = [subscriber EXCEPT ![i] = "listening"]
    /\ UNCHANGED <<conns, sockets, mailbox, rows, attempt, acked, seen, typed>>

-----------------------------------------------------------------------------
ClientStep ==
    \/ \E u \in Users, i \in Instances : Connect(u, i)
    \/ \E s \in Socket : ReadHistory(s) \/ Leave(s) \/ Typing(s)
    \/ \E m \in Messages, n \in 1..MaxRequests, i \in Instances, s \in Socket \cup {REST} : Persist(m, n, i, s)

HandlerStep(a) == Publish(a) \/ Ack(a) \/ AckLost(a)

DeliverStep(i) == \E u \in Users : DeliverToNobody(i, u) \/ Push(i, u) \/ SubscriberRaises(i, u)

Next ==
    \/ ClientStep
    \/ \E a \in Attempt : HandlerStep(a)
    \/ \E s \in Socket : Deregister(s) \/ HandlerRaises(s)
    \/ \E i \in Instances : DeliverStep(i) \/ InstanceDies(i) \/ InstanceStarts(i)

Spec == Init /\ [][Next]_vars

-----------------------------------------------------------------------------
(***************************************************************************)
(* Properties.                                                             *)
(***************************************************************************)

SocketRecord == [user : Users, at : Instances, state : Alive \cup {"gone", "closed"}]
EnvelopeRecord == [kind : {"message", "typing"}, msg : Messages \cup {""}, left : SUBSET Users]
Pass == {Idle, Over} \cup [step : {"committed", "published"}, at : Instances, via : Nat]

\* Types, and what the registry and the mailboxes may hold: an entry is a socket of that
\* user on that instance, a process that is down holds none, and only a listening
\* subscriber has envelopes.
TypeOK ==
    /\ subscriber \in [Instances -> {"listening", "dead", "down"}]
    /\ sockets \in Seq(SocketRecord)
    /\ conns \in [Instances -> [Users -> {0} \cup Socket]]
    /\ \A i \in Instances, u \in Users :
          conns[i][u] # 0 => Up(i) /\ sockets[conns[i][u]].user = u /\ sockets[conns[i][u]].at = i
    /\ mailbox \in [Instances -> Seq(EnvelopeRecord)]
    /\ \A i \in Instances : mailbox[i] # <<>> => subscriber[i] = "listening"
    /\ rows \in Seq(Messages)
    /\ attempt \in [Attempt -> Pass]
    /\ acked \subseteq Messages
    /\ seen \in [Users -> SUBSET Messages]
    /\ typed \in Nat

\* The newest socket a user opened on an instance is the one the instance delivers to, for
\* as long as it is open: no older socket's clean-up takes it out of the registry.
NewestIsRegistered ==
    \A s \in Socket :
        /\ sockets[s].state \in Alive
        /\ \A t \in Socket : sockets[t].user = sockets[s].user /\ sockets[t].at = sockets[s].at => t <= s
        => conns[sockets[s].at][sockets[s].user] = s

\* Persist before deliver, and once: whatever anyone has, or an envelope carries, is a
\* row, and retries (running at the same time too) never make a second row.
StoredOnceThenHeard ==
    /\ IsInjective(rows)
    /\ \A u \in Users : seen[u] \subseteq Range(rows)
    /\ \A i \in Instances : \A e \in Range(mailbox[i]) : e.kind = "message" => Stored(e.msg)

\* A client that can be reached through instance i and read the history after it connected.
Reachable(u, i) ==
    /\ subscriber[i] = "listening"
    /\ conns[i][u] # 0
    /\ sockets[conns[i][u]].state = "current"

OnItsWay(m, u, i) ==
    \E e \in Range(mailbox[i]) : e.kind = "message" /\ e.msg = m /\ u \in e.left

\* The promise of the bus: connecting and then reading the history leaves no gap.  Every
\* message its sender has an ack for is with each such recipient or on its way, whichever
\* instance each of them is on and whatever died in between.
NothingMissed ==
    \A u \in Users, i \in Instances : Reachable(u, i) =>
        \A m \in acked : u \in Recipients(m) => m \in seen[u] \/ OnItsWay(m, u, i)

\* main.py:75-76 says of the subscriber: "It runs for the life of the process".
SubscriberRunsForLife == \A i \in Instances : Up(i) => subscriber[i] = "listening"

-----------------------------------------------------------------------------
(***************************************************************************)
(* The inductive invariant behind the properties above.                    *)
(***************************************************************************)

\* A message is a row before it is published, and so before it is acknowledged.
CommittedInv ==
    /\ \A a \in Attempt : InFlight(a) => Stored(a[1])
    /\ acked \subseteq Range(rows)

\* The ack is not what puts a message on its way, the publish before it is.
Announced(m) == m \in acked \/ \E a \in Attempt : a[1] = m /\ attempt[a].step = "published"

PublishedInv ==
    \A u \in Users, i \in Instances : Reachable(u, i) =>
        \A m \in Messages : Announced(m) /\ u \in Recipients(m) => m \in seen[u] \/ OnItsWay(m, u, i)

\* The conjunction every step preserves.
GatewayInv ==
    TypeOK /\ NewestIsRegistered /\ StoredOnceThenHeard /\ CommittedInv /\ PublishedInv

=============================================================================
