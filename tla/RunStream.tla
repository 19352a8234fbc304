----------------------------- MODULE RunStream -----------------------------
(***************************************************************************)
(* GET /runs/{id}/stream: subscribe to the run's Redis channel, read the   *)
(* row, emit it as the snapshot, relay deltas, close on `done`.            *)
(* Composed with RunPipeline, whose tasks publish on the channel: a        *)
(* message reaches the streams subscribed at that instant and nobody else. *)
(***************************************************************************)
EXTENDS RunPipeline, Sequences

CONSTANT Clients    \* browsers that may open the stream, and reopen it

VARIABLES
    stream,     \* where each client's generator is
    snapshot,   \* the row the generator read: [status, done, rated]
    inbox,      \* messages delivered to the subscription and not yet relayed
    missed      \* how many messages of each type the subscription did not get

streamVars == <<stream, snapshot, inbox, missed>>
allVars == <<vars, streamVars>>

StreamPhase == {"closed", "subscribed", "read", "relaying", "ended"}
NoRow == [status |-> "absent", done |-> 0, rated |-> 0]

\* Mutant: the generator subscribes only once it has shown the snapshot.
SubscribedLate(c) == stream[c] = "relaying"

\* The channel delivers to a stream from its SUBSCRIBE on.
Subscribed(c) == stream[c] \in {"subscribed", "read", "relaying"}

StreamInit ==
    /\ Init
    /\ stream = [c \in Clients |-> "closed"]
    /\ snapshot = [c \in Clients |-> NoRow]
    /\ inbox = [c \in Clients |-> <<>>]
    /\ missed = [c \in Clients |-> sent]

-----------------------------------------------------------------------------
(***************************************************************************)
(* Redis pub/sub, seen from the code: at most once, no history.            *)
(***************************************************************************)
Published == {t \in MessageType : sent'[t] # sent[t]}

Deliver ==
    /\ inbox' = [c \in Clients |->
                   IF Subscribed(c) /\ Published # {}
                   THEN Append(inbox[c], CHOOSE t \in Published : TRUE)
                   ELSE inbox[c]]
    /\ missed' = [c \in Clients |->
                    IF Subscribed(c) THEN missed[c]
                    ELSE [t \in MessageType |-> missed[c][t] + (sent'[t] - sent[t])]]
    /\ UNCHANGED <<stream, snapshot>>

-----------------------------------------------------------------------------
(***************************************************************************)
(* stream_run.                                                             *)
(***************************************************************************)
Moves(c, phase) == stream' = [stream EXCEPT ![c] = phase]

\* (1) subscribe before anything else; nothing published earlier will come.
Open(c) ==
    /\ stream[c] \in {"closed", "ended"}
    /\ Moves(c, "subscribed")
    /\ snapshot' = [snapshot EXCEPT ![c] = NoRow]
    /\ inbox' = [inbox EXCEPT ![c] = <<>>]
    /\ missed' = [missed EXCEPT ![c] = sent]
    /\ UNCHANGED vars

\* (2) the durable state, read in a thread while messages keep arriving.
ReadSnapshot(c) ==
    /\ stream[c] = "subscribed"
    /\ Moves(c, "read")
    /\ snapshot' = [snapshot EXCEPT ![c] = [status |-> status, done |-> done_count, rated |-> rated_count]]
    /\ UNCHANGED <<vars, inbox, missed>>

\* (3) no such run: one error event.  Already terminal: `done` at once.
\* (4) otherwise start listening.
EmitSnapshot(c) ==
    /\ stream[c] = "read"
    /\ Moves(c, IF snapshot[c].status \in Terminal \cup {"absent"} THEN "ended" ELSE "relaying")
    /\ UNCHANGED <<vars, snapshot, inbox, missed>>

\* Mutant: the end of the scrape phase is taken for the end of the run.
RelayEndsEarly(c) ==
    /\ stream[c] = "relaying"
    /\ inbox[c] # <<>>
    /\ inbox' = [inbox EXCEPT ![c] = Tail(inbox[c])]
    /\ Moves(c, IF Head(inbox[c]) \in {"scrape_done", "done"} THEN "ended" ELSE "relaying")
    /\ UNCHANGED <<vars, snapshot, missed>>

Relay(c) ==
    /\ stream[c] = "relaying"
    /\ inbox[c] # <<>>
    /\ inbox' = [inbox EXCEPT ![c] = Tail(inbox[c])]
    /\ Moves(c, IF Head(inbox[c]) = "done" THEN "ended" ELSE "relaying")
    /\ UNCHANGED <<vars, snapshot, missed>>

\* Mutant: no finally, so the subscription outlives the generator.
DisconnectLeaks(c) ==
    /\ Subscribed(c)
    /\ Moves(c, "closed")
    /\ UNCHANGED <<vars, snapshot, inbox, missed>>

\* The browser goes away at any point; the generator's finally unsubscribes.
Disconnect(c) ==
    /\ Subscribed(c)
    /\ Moves(c, "closed")
    /\ inbox' = [inbox EXCEPT ![c] = <<>>]
    /\ UNCHANGED <<vars, snapshot, missed>>

StreamStep(c) == ReadSnapshot(c) \/ EmitSnapshot(c) \/ Relay(c)

StreamNext ==
    \/ Next /\ Deliver
    \/ \E c \in Clients : Open(c) \/ StreamStep(c) \/ Disconnect(c)

StreamSpec == StreamInit /\ [][StreamNext]_allVars

\* The event loop keeps running a generator it started; nobody has to open or close one.
\* Fairness of the pipeline is stated over its own variables.
FairStreamSpec == StreamSpec /\ Fairness /\ \A c \in Clients : WF_allVars(StreamStep(c))

-----------------------------------------------------------------------------
(***************************************************************************)
(* Properties.                                                             *)
(***************************************************************************)

\* Every generator is in a phase and holds what that phase may hold; one that is gone
\* holds no subscription.
StreamTypeOK ==
    /\ stream \in [Clients -> StreamPhase]
    /\ snapshot \in [Clients -> [status : Status, done : Nat, rated : Nat]]
    /\ inbox \in [Clients -> Seq(MessageType)]
    /\ missed \in [Clients -> [MessageType -> Nat]]
    /\ \A c \in Clients : stream[c] = "closed" => inbox[c] = <<>>

\* Refreshing costs nothing: whatever delta a stream did not receive is already in the
\* snapshot it showed, because the row is written before the message is sent and the
\* subscription is made before the row is read.
SnapshotCoversMissed ==
    \A c \in Clients : stream[c] = "relaying" =>
        /\ missed[c]["progress"] <= snapshot[c].done
        /\ missed[c]["rating"] <= snapshot[c].rated
        /\ missed[c]["done"] = 0

\* A stream tells the browser the run is over only when the row says so, whether it says
\* it from the snapshot or from a relayed message.
EndedMeansTerminal ==
    \A c \in Clients : stream[c] = "ended" => snapshot[c].status = "absent" \/ status \in Terminal

\* A stream that is relaying ends by itself (the browser owes nobody a disconnect): the
\* `done` it waits for was in its snapshot or is still to come on the channel.
StreamEnds == \A c \in Clients : stream[c] = "relaying" ~> stream[c] # "relaying"

-----------------------------------------------------------------------------
(***************************************************************************)
(* The inductive invariant behind the two safety properties, on top of the *)
(* pipeline's own.                                                         *)
(***************************************************************************)
Announced == {i \in Influencers : scrape[i] \in {"published", "returned"}}
RatingsOver == {p \in Signal : rate[p] = "over"}

\* The messages lag behind the row: one `progress` per scrape that published, at most
\* one `rating` per rating task that is over, and both kinds of task have been counted.
MessageInv ==
    /\ sent["progress"] = Cardinality(Announced)
    /\ sent["rating"] <= Cardinality(RatingsOver)

\* A subscription misses nothing that was not sent, and a snapshot, once read, accounts
\* for what was missed before it.
SnapshotInv ==
    \A c \in Clients :
        /\ \A t \in MessageType : missed[c][t] <= sent[t]
        /\ stream[c] \in {"read", "relaying"} =>
              /\ missed[c]["progress"] <= snapshot[c].done
              /\ missed[c]["rating"] <= snapshot[c].rated
              /\ missed[c]["done"] # 0 => snapshot[c].status \in Terminal
        /\ stream[c] = "relaying" => snapshot[c].status \notin Terminal

\* Neither a snapshot nor a `done` waiting in an inbox is ahead of the row.
BehindRowInv ==
    \A c \in Clients :
        /\ snapshot[c].status \in Terminal => status \in Terminal
        /\ \A k \in 1..Len(inbox[c]) : inbox[c][k] = "done" => status \in Terminal

\* The conjunction every step of the composition preserves.
StreamInv ==
    /\ IInv /\ StreamTypeOK /\ MessageInv /\ SnapshotInv /\ BehindRowInv /\ EndedMeansTerminal

=============================================================================
