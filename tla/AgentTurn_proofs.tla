-------------------------- MODULE AgentTurn_proofs --------------------------
(***************************************************************************)
(* The conversation the model is sent, the effects of the tools and the    *)
(* events the client reads, for any number of turns and calls, and a       *)
(* client that leaves at any moment.                                       *)
(***************************************************************************)
EXTENDS AgentTurn, TLAPS

Message == [role : {"user", "assistant"}, uses : Seq(Call), answers : Seq(Call)]
Events == [type : {"tool_use", "tool_result", "done", "error"}, call : Nat \X Nat]

Shapes == messages \in Seq(Message) /\ messages # <<>> /\ sent \in Seq(Events)

\* While the tools of a turn run, the last message holds its calls.
Asking ==
    phase \in {"asked", "running", "answered"} => messages[Len(messages)] = Assistant(AllCalls(Len(calls)))

\* A call that somebody may still see through was the last thing the client heard of.
Owed ==
    phase \in {"asked", "running"} /\ (pulling \/ listening) =>
        sent # <<>> /\ sent[Len(sent)] = Event("tool_use", Current)

\* Between calls a client that listens has heard the result of each.
Calm ==
    phase \in {"model", "answered"} /\ listening =>
        sent = <<>> \/ sent[Len(sent)].type = "tool_result"

IInv == TypeOK /\ Shapes /\ Asking /\ CallsAnswered /\ Owed /\ Calm /\ EffectsAnnounced /\ StreamGrammar

-----------------------------------------------------------------------------
(***************************************************************************)
(* Sequences.                                                              *)
(***************************************************************************)

\* The calls of a turn, one more each time.
LEMMA CallsOf ==
    ASSUME NEW n \in Nat, NEW t
    PROVE  /\ [i \in 1..n |-> <<t, i>>] \in Seq({<<t, i>> : i \in 1..n})
           /\ Len([i \in 1..n |-> <<t, i>>]) = n
           /\ Append([i \in 1..n |-> <<t, i>>], <<t, n + 1>>) = [i \in 1..(n + 1) |-> <<t, i>>]
<1> DEFINE f == [i \in 1..n |-> <<t, i>>]
           g == [i \in 1..(n + 1) |-> <<t, i>>]
<1>1. f \in Seq({<<t, i>> : i \in 1..n}) /\ Len(f) = n
  OBVIOUS
<1>2. g \in Seq({<<t, i>> : i \in 1..(n + 1)}) /\ Len(g) = n + 1
  OBVIOUS
<1>3. Append(f, <<t, n + 1>>) \in Seq({<<t, i>> : i \in 1..(n + 1)}) /\ Len(Append(f, <<t, n + 1>>)) = n + 1
  BY <1>1
<1>4. \A i \in 1..(n + 1) : Append(f, <<t, n + 1>>)[i] = g[i]
  BY <1>1
<1> QED
  BY <1>1, <1>2, <1>3, <1>4

\* A message more.
LEMMA Appended ==
    ASSUME NEW S, NEW s \in Seq(S), NEW e \in S
    PROVE  /\ Append(s, e) \in Seq(S) /\ Append(s, e) # <<>>
           /\ Len(Append(s, e)) = Len(s) + 1 /\ Append(s, e)[Len(s) + 1] = e
           /\ \A i \in 1..Len(s) : Append(s, e)[i] = s[i]
           /\ Len(s) \in Nat
  OBVIOUS

\* The calls of a turn within the bounds.
LEMMA CallsInBounds ==
    ASSUME NEW n \in 0..MaxCalls, NEW t \in 1..MaxTurns
    PROVE  [i \in 1..n |-> <<t, i>>] \in Seq(Call)
<1>1. n \in Nat /\ {<<t, i>> : i \in 1..n} \subseteq Call
  BY AgentAssumption DEF AgentAssumption, Call
<1> QED
  BY <1>1, CallsOf

-----------------------------------------------------------------------------
(***************************************************************************)
(* One event more, one message more.                                       *)
(***************************************************************************)

Grammar(s) ==
    \A i \in DOMAIN s :
        /\ s[i].type = "tool_result" => i > 1 /\ s[i - 1] = Event("tool_use", s[i].call)
        /\ s[i].type = "tool_use" /\ i < Len(s) => s[i + 1] = Event("tool_result", s[i].call)
        /\ s[i].type \in {"done", "error"} => i = Len(s)

Paired(m) == \A i \in 1..(Len(m) - 1) : m[i].role = "assistant" => m[i + 1].answers = m[i].uses

Told(s, c) == \E i \in DOMAIN s : s[i] = Event("tool_use", c)

\* An event that opens after a closed call, or answers an open one.
Fits(s, e) ==
    \/ (s = <<>> \/ s[Len(s)].type = "tool_result") /\ e.type # "tool_result"
    \/ s # <<>> /\ s[Len(s)] = Event("tool_use", e.call) /\ e.type = "tool_result"

\* A fitting event keeps the grammar.
LEMMA FittingEvent ==
    ASSUME NEW s \in Seq(Events), NEW e \in Events, Grammar(s), Fits(s, e)
    PROVE  Grammar(Append(s, e))
<1> DEFINE t == Append(s, e)
<1>1. t \in Seq(Events) /\ Len(t) = Len(s) + 1 /\ Len(s) \in Nat /\ t[Len(s) + 1] = e
  OBVIOUS
<1>2. \A i \in 1..Len(s) : t[i] = s[i]
  OBVIOUS
<1>3. DOMAIN t = 1..(Len(s) + 1) /\ DOMAIN s = 1..Len(s)
  OBVIOUS
<1>4. Len(s) > 0 => s # <<>> /\ s[Len(s)] \in Events
  OBVIOUS
<1>5. e.type = "tool_result" => e = Event("tool_result", e.call)
  BY DEF Events, Event
<1>6. s = <<>> => Len(s) = 0
  OBVIOUS
<1> HIDE DEF t
<1>7. ASSUME NEW i \in 1..Len(s)
      PROVE  /\ t[i].type = "tool_result" => i > 1 /\ t[i - 1] = Event("tool_use", t[i].call)
             /\ t[i].type = "tool_use" /\ i < Len(t) => t[i + 1] = Event("tool_result", t[i].call)
             /\ t[i].type \in {"done", "error"} => i = Len(t)
  <2>1. i \in DOMAIN s /\ t[i] = s[i]
    BY <1>2, <1>3
  <2>2. CASE i < Len(s)
    <3>1. t[i + 1] = s[i + 1] /\ (i > 1 => t[i - 1] = s[i - 1])
      BY <1>1, <1>2, <2>2
    <3> QED
      BY <1>1, <2>1, <2>2, <3>1 DEF Grammar
  <2>3. CASE i = Len(s)
    <3>1. t[i + 1] = e /\ (i > 1 => t[i - 1] = s[i - 1])
      BY <1>1, <1>2, <2>3
    <3>2. s[i].type \notin {"done", "error"}
      BY <1>4, <1>6, <2>3 DEF Fits, Event
    <3>3. s[i].type = "tool_use" => t[i + 1] = Event("tool_result", s[i].call)
      BY <1>4, <1>5, <1>6, <2>3, <3>1 DEF Fits, Event
    <3> QED
      BY <1>1, <2>1, <2>3, <3>1, <3>2, <3>3 DEF Grammar
  <2> QED
    BY <1>1, <2>2, <2>3
<1>8. t[Len(t)].type = "tool_result" => Len(t) > 1 /\ t[Len(t) - 1] = Event("tool_use", t[Len(t)].call)
  <2> SUFFICES ASSUME e.type = "tool_result" PROVE Len(t) > 1 /\ t[Len(t) - 1] = Event("tool_use", e.call)
    BY <1>1
  <2>1. s # <<>> /\ s[Len(s)] = Event("tool_use", e.call)
    BY DEF Fits
  <2>2. Len(s) > 0
    BY <2>1
  <2> QED
    BY <1>1, <1>2, <2>1, <2>2
<1>9. ASSUME NEW i \in DOMAIN t
      PROVE  /\ t[i].type = "tool_result" => i > 1 /\ t[i - 1] = Event("tool_use", t[i].call)
             /\ t[i].type = "tool_use" /\ i < Len(t) => t[i + 1] = Event("tool_result", t[i].call)
             /\ t[i].type \in {"done", "error"} => i = Len(t)
  <2>1. i \in 1..Len(s) \/ i = Len(t)
    BY <1>1, <1>3 DEF t
  <2>2. CASE i = Len(t)
    <3>1. ~(i < Len(t))
      BY <1>1, <2>2
    <3> QED
      BY <1>8, <2>2, <3>1
  <2> QED
    BY <1>7, <2>1, <2>2
<1> QED
  BY <1>9 DEF Grammar, t

\* What was told stays told.
LEMMA StaysTold ==
    ASSUME NEW s \in Seq(Events), NEW e \in Events, NEW c, Told(s, c)
    PROVE  Told(Append(s, e), c)
<1>1. PICK i \in DOMAIN s : s[i] = Event("tool_use", c)
  BY DEF Told
<1>2. i \in DOMAIN Append(s, e) /\ Append(s, e)[i] = s[i]
  BY <1>1
<1> QED
  BY <1>1, <1>2 DEF Told

\* A message that answers the last one, or follows a user's, keeps the conversation paired.
LEMMA FittingMessage ==
    ASSUME NEW m \in Seq(Message), NEW x \in Message, m # <<>>, Paired(m),
           m[Len(m)].role = "user" \/ x.answers = m[Len(m)].uses
    PROVE  Paired(Append(m, x)) /\ Append(m, x) \in Seq(Message) /\ Append(m, x) # <<>>
           /\ Append(m, x)[Len(Append(m, x))] = x
<1> DEFINE t == Append(m, x)
<1>1. t \in Seq(Message) /\ t # <<>> /\ Len(t) = Len(m) + 1 /\ Len(m) \in Nat /\ t[Len(m) + 1] = x
  OBVIOUS
<1>2. \A i \in 1..Len(m) : t[i] = m[i]
  OBVIOUS
<1> HIDE DEF t
<1>3. ASSUME NEW i \in 1..(Len(t) - 1), t[i].role = "assistant" PROVE t[i + 1].answers = t[i].uses
  <2>1. CASE i = Len(m)
    BY <1>1, <1>2, <1>3, <2>1
  <2>2. CASE i # Len(m)
    BY <1>1, <1>2, <1>3, <2>2 DEF Paired
  <2> QED
    BY <2>1, <2>2
<1>4. Paired(t)
  BY <1>3 DEF Paired
<1> QED
  BY <1>1, <1>4 DEF t

\* What an event does to what the client heard.
LEMMA Heard ==
    ASSUME sent \in Seq(Events), StreamGrammar, listening \in BOOLEAN,
           NEW e \in Events, Yield(e), listening => Fits(sent, e)
    PROVE  /\ sent' \in Seq(Events) /\ StreamGrammar'
           /\ \A c : Told(sent, c) => Told(sent', c)
           /\ listening' => sent' # <<>> /\ sent'[Len(sent')] = e
           /\ pulling' = FALSE /\ listening' = listening
<1>1. Grammar(sent)
  BY DEF StreamGrammar, Grammar
<1>2. pulling' = FALSE /\ listening' = listening
  BY DEF Yield
<1>3. CASE listening
  <2>1. sent' = Append(sent, e)
    BY <1>3 DEF Yield
  <2>2. Grammar(sent')
    BY <1>1, <1>3, <2>1, FittingEvent
  <2>3. sent' \in Seq(Events) /\ sent' # <<>> /\ sent'[Len(sent')] = e
    BY <2>1
  <2>4. \A c : Told(sent, c) => Told(sent', c)
    BY <2>1, StaysTold
  <2> QED
    BY <1>2, <2>2, <2>3, <2>4 DEF StreamGrammar, Grammar
<1>4. CASE ~listening
  <2>1. sent' = sent
    BY <1>4 DEF Yield
  <2> QED
    BY <1>1, <1>2, <1>4, <2>1 DEF StreamGrammar, Grammar
<1> QED
  BY <1>3, <1>4

-----------------------------------------------------------------------------
(***************************************************************************)
(* The invariant.                                                          *)
(***************************************************************************)

\* A fresh conversation.
LEMMA InitIInv == Init => IInv
<1> SUFFICES ASSUME Init PROVE IInv
  OBVIOUS
<1>1. AllCalls(0) = <<>>
  BY CallsOf DEF AllCalls
<1>2. results = AllCalls(Len(results)) /\ Len(results) = 0 /\ Len(calls) = 0 /\ calls \in Seq(Kinds)
  BY <1>1 DEF Init
<1>8. TypeOK
  <2>1. turn \in 1..MaxTurns /\ MaxCalls \in Nat
    BY AgentAssumption DEF Init, AgentAssumption
  <2>2. Len(calls) <= MaxCalls /\ Len(results) <= Len(calls)
    BY <1>2, <2>1
  <2>3. /\ listening \in BOOLEAN /\ pulling \in BOOLEAN /\ phase = "model"
        /\ started \subseteq Call /\ inFlight \subseteq Call
    BY DEF Init
  <2> QED
    BY <1>2, <2>1, <2>2, <2>3 DEF TypeOK
<1>3. User \in Message
  BY DEF User, Message
<1>4. Shapes
  BY <1>3 DEF Init, Shapes
<1>5. Len(messages) = 1 /\ messages[1] = User
  BY DEF Init
<1>6. CallsAnswered
  BY <1>5 DEF CallsAnswered, User
<1>7. Asking /\ Owed /\ Calm /\ EffectsAnnounced /\ StreamGrammar
  BY DEF Init, Asking, Owed, Calm, EffectsAnnounced, StreamGrammar
<1> QED
  BY <1>4, <1>6, <1>7, <1>8 DEF IInv

\* Steps that add neither an event nor a message.
LEMMA QuietStep ==
    ASSUME IInv, UNCHANGED <<sent, loop>>, inFlight' \subseteq Call, started' \subseteq Call,
           started' \cup inFlight' \subseteq started \cup inFlight,
           pulling' \in BOOLEAN, listening' \in BOOLEAN,
           pulling' \/ listening' => pulling \/ listening, listening' => listening,
           phase' = phase \/ phase' \in {"closed", "raised"}
    PROVE  IInv'
<1>1. TypeOK'
  BY DEF IInv, TypeOK, AllCalls, loop
<1>2. Shapes' /\ StreamGrammar'
  BY DEF IInv, Shapes, StreamGrammar, loop
<1>3. Asking'
  BY DEF IInv, Asking, AllCalls, Assistant, loop
<1>4. CallsAnswered'
  BY DEF IInv, CallsAnswered, loop
<1>5. Owed' /\ Calm'
  BY DEF IInv, Owed, Calm, Current, loop
<1>6. EffectsAnnounced'
  BY DEF IInv, EffectsAnnounced, loop
<1> QED
  BY <1>1, <1>2, <1>3, <1>4, <1>5, <1>6 DEF IInv

\* The response's own steps, and the silent ones of the model and of the API.
LEMMA QuietKeeps ==
    ASSUME IInv,
           Pull \/ Leave \/ Exhausted \/ Text \/ ModelRaises
           \/ (\E c \in inFlight, commits \in BOOLEAN : ApiFinishes(c, commits)) \/ UNCHANGED vars
    PROVE  IInv'
<1>0. inFlight \subseteq Call /\ started \subseteq Call /\ pulling \in BOOLEAN /\ listening \in BOOLEAN
  BY DEF IInv, TypeOK
<1>1. CASE Pull
  BY <1>0, <1>1, QuietStep DEF Pull, client, api, loop
<1>2. CASE Leave
  BY <1>0, <1>2, QuietStep DEF Leave, api, loop
<1>3. CASE Exhausted
  BY <1>0, <1>3, QuietStep DEF Exhausted, client, api, loop
<1>4. CASE Text
  BY <1>0, <1>4, QuietStep DEF Text, InModel, client, api, loop
<1>5. CASE ModelRaises
  BY <1>0, <1>5, QuietStep DEF ModelRaises, InModel, client, api, loop
<1>6. ASSUME NEW c \in inFlight, NEW commits \in BOOLEAN, ApiFinishes(c, commits) PROVE IInv'
  <2>1. inFlight' \subseteq inFlight /\ started' \subseteq started \cup {c}
    BY <1>6 DEF ApiFinishes
  <2> QED
    BY <1>0, <1>6, <2>1, QuietStep DEF ApiFinishes, client, loop
<1>7. CASE UNCHANGED vars
  BY <1>0, <1>7, QuietStep DEF vars, loop
<1> QED
  BY <1>1, <1>2, <1>3, <1>4, <1>5, <1>6, <1>7

\* While the model is asked, what comes next opens.
LEMMA ModelFits ==
    ASSUME IInv, NEW e \in Events, e.type # "tool_result", phase \in {"model", "answered"}
    PROVE  listening => Fits(sent, e)
  BY DEF IInv, Calm, Fits

\* The events are events.
LEMMA EventTypes ==
    /\ \A c \in Call : Event("tool_use", c) \in Events /\ Event("tool_result", c) \in Events
    /\ Final("done") \in Events /\ Final("error") \in Events
<1>1. Call \subseteq Nat \X Nat
  BY AgentAssumption DEF Call, AgentAssumption
<1> QED
  BY <1>1 DEF Event, Events, Final

\* A final event, as long as nothing else moves but the model's last message.
LEMMA FinalStep ==
    ASSUME IInv, NEW e \in {Final("done"), Final("error")}, Yield(e), phase \in {"model", "answered"},
           phase' = "ended", UNCHANGED api, TypeOK', messages' \in Seq(Message), messages' # <<>>, Paired(messages')
    PROVE  IInv'
<1>1. e \in Events /\ e.type # "tool_result"
  <2>1. e \in Events
    BY EventTypes
  <2>2. Final("done").type = "done" /\ Final("error").type = "error"
    BY DEF Final, Event
  <2> QED
    BY <2>1, <2>2
<1>2. listening => Fits(sent, e)
  BY <1>1, ModelFits
<1>3. /\ sent' \in Seq(Events) /\ StreamGrammar'
      /\ \A c : Told(sent, c) => Told(sent', c)
  BY <1>1, <1>2, Heard DEF IInv, Shapes, TypeOK
<1>4. Shapes'
  BY <1>3 DEF Shapes
<1>5. Asking' /\ Owed' /\ Calm'
  BY DEF Asking, Owed, Calm
<1>6. CallsAnswered'
  BY DEF CallsAnswered, Paired
<1>7. EffectsAnnounced'
  BY <1>3 DEF IInv, EffectsAnnounced, Told, api
<1> QED
  BY <1>3, <1>4, <1>5, <1>6, <1>7 DEF IInv

\* While the model is asked, a message of its own fits.
LEMMA ModelMessage ==
    ASSUME IInv, phase = "model", NEW n \in 0..MaxCalls, messages' = Append(messages, Assistant(AllCalls(n)))
    PROVE  /\ messages' \in Seq(Message) /\ messages' # <<>> /\ Paired(messages')
           /\ messages'[Len(messages')] = Assistant(AllCalls(n))
<1>1. Assistant(AllCalls(n)) \in Message
  <2>1. AllCalls(n) \in Seq(Call)
    BY CallsInBounds DEF IInv, TypeOK, AllCalls
  <2> QED
    BY <2>1 DEF Assistant, Message
<1>2. messages \in Seq(Message) /\ messages # <<>> /\ Paired(messages) /\ messages[Len(messages)].role = "user"
  BY DEF IInv, Shapes, CallsAnswered, Paired
<1> QED
  BY <1>1, <1>2, FittingMessage

\* The turns that end the response: no final message, or an answer.
LEMMA NoFinalKeeps == IInv /\ NoFinal => IInv'
<1> SUFFICES ASSUME IInv, NoFinal PROVE IInv'
  OBVIOUS
<1>1. phase = "model" /\ phase' = "ended" /\ Yield(Final("error")) /\ UNCHANGED loop /\ UNCHANGED api
  BY DEF NoFinal, InModel
<1>2. TypeOK'
  BY <1>1 DEF IInv, TypeOK, AllCalls, loop, api, Yield
<1>3. messages' \in Seq(Message) /\ messages' # <<>> /\ Paired(messages')
  BY <1>1 DEF IInv, Shapes, CallsAnswered, Paired, loop
<1> QED
  BY <1>1, <1>2, <1>3, FinalStep

LEMMA DoneKeeps == ASSUME IInv, NEW n \in 0..MaxCalls, Done(n) PROVE IInv'
<1>1. /\ phase = "model" /\ phase' = "ended" /\ Yield(Final("done")) /\ UNCHANGED <<turn, calls, results>>
      /\ UNCHANGED api /\ messages' = Append(messages, Assistant(AllCalls(n)))
  BY DEF Done, InModel
<1>2. TypeOK'
  BY <1>1 DEF IInv, TypeOK, AllCalls, api, Yield
<1>3. messages' \in Seq(Message) /\ messages' # <<>> /\ Paired(messages')
  BY <1>1, ModelMessage
<1> QED
  BY <1>1, <1>2, <1>3, FinalStep

\* The model asks for tools: the first call is announced.
LEMMA AskToolsKeeps ==
    ASSUME IInv, NEW n \in 1..MaxCalls, NEW kinds \in [1..n -> Kinds], AskTools(kinds) PROVE IInv'
<1>0. MaxCalls \in Nat /\ n \in Nat /\ n <= MaxCalls /\ n > 0
  BY AgentAssumption DEF AgentAssumption
<1>1. kinds \in Seq(Kinds) /\ Len(kinds) = n
  BY <1>0
<1>2. /\ phase = "model" /\ phase' = "asked" /\ Yield(Event("tool_use", <<turn, 1>>)) /\ UNCHANGED turn
      /\ UNCHANGED api /\ messages' = Append(messages, Assistant(AllCalls(n)))
      /\ calls' = kinds /\ results' = <<>>
  BY <1>1 DEF AskTools, InModel
<1>3. results' = AllCalls(0) /\ Len(results') = 0 /\ Len(calls') = n
  BY <1>1, <1>2, CallsOf DEF AllCalls
<1>4. <<turn, 1>> \in Call
  BY <1>0 DEF IInv, TypeOK, Call
<1>6. Event("tool_use", <<turn, 1>>) \in Events
  BY <1>4, EventTypes
<1>7. listening => Fits(sent, Event("tool_use", <<turn, 1>>))
  <2>1. Event("tool_use", <<turn, 1>>).type # "tool_result"
    BY DEF Event
  <2> QED
    BY <1>2, <1>6, <2>1, ModelFits
<1>8. /\ sent' \in Seq(Events) /\ StreamGrammar' /\ \A c : Told(sent, c) => Told(sent', c)
      /\ listening' => sent' # <<>> /\ sent'[Len(sent')] = Event("tool_use", <<turn, 1>>)
      /\ pulling' = FALSE /\ listening' = listening
  BY <1>2, <1>6, <1>7, Heard DEF IInv, Shapes, TypeOK
<1>9. TypeOK'
  <2>1. results' = [i \in 1..Len(results') |-> <<turn', i>>] /\ Len(results') < Len(calls') /\ Len(results') <= Len(calls')
    BY <1>0, <1>2, <1>3 DEF AllCalls
  <2> QED
    BY <1>0, <1>1, <1>2, <1>3, <1>8, <2>1 DEF IInv, TypeOK, AllCalls, api
<1>10. /\ messages' \in Seq(Message) /\ messages' # <<>> /\ Paired(messages')
       /\ messages'[Len(messages')] = Assistant(AllCalls(n))
  <2>1. n \in 0..MaxCalls
    BY <1>0
  <2> QED
    BY <1>2, <2>1, ModelMessage
<1>11. Shapes' /\ CallsAnswered'
  BY <1>2, <1>8, <1>10 DEF Shapes, CallsAnswered, Paired
<1>12. Asking'
  BY <1>2, <1>3, <1>10 DEF Asking, AllCalls, Assistant
<1>13. Owed' /\ Calm'
  <2>1. Current' = <<turn, 1>>
    BY <1>2, <1>3 DEF Current
  <2> QED
    BY <1>2, <1>8, <2>1 DEF Owed, Calm, Event
<1>14. EffectsAnnounced'
  BY <1>2, <1>8 DEF IInv, EffectsAnnounced, Told, api
<1> QED
  BY <1>8, <1>9, <1>11, <1>12, <1>13, <1>14 DEF IInv

\* The request goes out: its call was announced, whoever leaves now.
LEMMA SendKeeps == IInv /\ Send => IInv'
<1> SUFFICES ASSUME IInv, Send PROVE IInv'
  OBVIOUS
<1>1. pulling /\ phase = "asked" /\ phase' = "running" /\ UNCHANGED <<listening, sent, pulling, started, loop>>
  BY DEF Send, client
<1>2. inFlight' \subseteq inFlight \cup {Current}
  BY DEF Send
<1>3. Len(results) \in Nat /\ Len(results) < Len(calls) /\ Len(calls) <= MaxCalls /\ Current \in Call
  <2>1. Len(calls) \in Nat /\ Len(results) < Len(calls) /\ Len(calls) <= MaxCalls
    BY <1>1 DEF IInv, TypeOK
  <2>2. Len(results) \in Nat
    <3>1. results \in Seq(Call) \/ Len(results) \in Nat
      BY <1>1, CallsOf DEF IInv, TypeOK, AllCalls
    <3> QED
      BY <3>1
  <2> QED
    BY <1>1, <2>1, <2>2, AgentAssumption DEF IInv, TypeOK, Current, Call, AgentAssumption
<1>4. TypeOK'
  BY <1>1, <1>2, <1>3 DEF IInv, TypeOK, AllCalls, loop
<1>5. Shapes' /\ CallsAnswered' /\ Calm' /\ StreamGrammar'
  BY <1>1 DEF IInv, Shapes, CallsAnswered, Calm, StreamGrammar, loop
<1>6. Asking' /\ Owed'
  BY <1>1 DEF IInv, Asking, Owed, AllCalls, Assistant, Current, loop
<1>7. EffectsAnnounced'
  <2>1. Told(sent, Current)
    <3>1. sent # <<>> /\ sent[Len(sent)] = Event("tool_use", Current) /\ sent \in Seq(Events)
      BY <1>1 DEF IInv, Owed, Shapes
    <3>2. Len(sent) \in DOMAIN sent
      BY <3>1
    <3> QED
      BY <3>1, <3>2 DEF Told
  <2> QED
    BY <1>1, <1>2, <2>1 DEF IInv, EffectsAnnounced, Told
<1> QED
  BY <1>4, <1>5, <1>6, <1>7 DEF IInv

\* The length of the results is a number, and a call that is under way is one of the turn's.
LEMMA Counts ==
    ASSUME IInv
    PROVE  /\ Len(results) \in Nat /\ Len(calls) \in Nat /\ Len(calls) \in 0..MaxCalls
           /\ AllCalls(Len(calls)) \in Seq(Call)
           /\ Len(results) < Len(calls) => Current \in Call
<1>1. Len(calls) \in Nat /\ Len(calls) <= MaxCalls /\ turn \in 1..MaxTurns /\ MaxCalls \in Nat
  BY AgentAssumption DEF IInv, TypeOK, AgentAssumption
<1>2. Len(results) \in Nat
  BY DEF IInv, TypeOK, AllCalls
<1>3. AllCalls(Len(calls)) \in Seq(Call)
  BY <1>1, CallsInBounds DEF AllCalls
<1>4. Len(results) < Len(calls) => Current \in Call
  BY <1>1, <1>2 DEF Current, Call
<1> QED
  BY <1>1, <1>2, <1>3, <1>4

\* A tool answers: its result closes the call the client heard of last.
LEMMA ToolResultKeeps == ASSUME IInv, NEW ok \in BOOLEAN, ToolResult(ok) PROVE IInv'
<1>1. /\ pulling /\ phase = "running" /\ phase' = "answered" /\ results' = Append(results, Current)
      /\ Yield(Event("tool_result", Current)) /\ UNCHANGED <<turn, calls, messages>> /\ UNCHANGED api
  BY DEF ToolResult, Result
<1>2. Len(results) \in Nat /\ Len(calls) \in Nat /\ Len(results) < Len(calls) /\ Current \in Call
  BY <1>1, Counts DEF IInv, TypeOK
<1>3. results' = [i \in 1..(Len(results) + 1) |-> <<turn, i>>] /\ Len(results') = Len(results) + 1
  <2>1. results = [i \in 1..Len(results) |-> <<turn, i>>]
    BY DEF IInv, TypeOK, AllCalls
  <2>2. \A n \in Nat : Append([i \in 1..n |-> <<turn, i>>], <<turn, n + 1>>) = [i \in 1..(n + 1) |-> <<turn, i>>]
    BY CallsOf
  <2>3. \A n \in Nat : Len([i \in 1..n |-> <<turn, i>>]) = n
    BY CallsOf
  <2> DEFINE k == Len(results)
  <2>4. results' = [i \in 1..(k + 1) |-> <<turn, i>>]
    BY <1>1, <1>2, <2>1, <2>2 DEF Current
  <2> QED
    BY <1>2, <2>3, <2>4
<1>4. TypeOK'
  <2>1. results' = [i \in 1..Len(results') |-> <<turn', i>>] /\ Len(results') <= Len(calls')
    BY <1>1, <1>2, <1>3
  <2> QED
    BY <1>1, <2>1 DEF IInv, TypeOK, AllCalls, Yield, api
<1>5. Event("tool_result", Current) \in Events
  BY <1>2, EventTypes
<1>6. listening => Fits(sent, Event("tool_result", Current))
  BY <1>1 DEF IInv, Owed, Fits, Event
<1>7. /\ sent' \in Seq(Events) /\ StreamGrammar' /\ \A c : Told(sent, c) => Told(sent', c)
      /\ listening' => sent' # <<>> /\ sent'[Len(sent')] = Event("tool_result", Current)
      /\ pulling' = FALSE /\ listening' = listening
  BY <1>1, <1>5, <1>6, Heard DEF IInv, Shapes, TypeOK
<1>8. Shapes' /\ CallsAnswered' /\ Asking'
  BY <1>1, <1>7 DEF IInv, Shapes, CallsAnswered, Asking, AllCalls, Assistant
<1>9. Owed' /\ Calm'
  BY <1>1, <1>7 DEF Owed, Calm, Event
<1>10. EffectsAnnounced'
  BY <1>1, <1>7 DEF IInv, EffectsAnnounced, Told, api
<1> QED
  BY <1>4, <1>7, <1>8, <1>9, <1>10 DEF IInv

\* The next call of the turn is announced.
LEMMA NextCallKeeps == IInv /\ NextCall => IInv'
<1> SUFFICES ASSUME IInv, NextCall PROVE IInv'
  OBVIOUS
<1>1. /\ phase = "answered" /\ phase' = "asked" /\ Len(results) < Len(calls)
      /\ Yield(Event("tool_use", Current)) /\ UNCHANGED loop /\ UNCHANGED api
  BY DEF NextCall
<1>2. Current \in Call /\ Current' = Current
  BY <1>1, Counts DEF Current, loop
<1>3. Event("tool_use", Current) \in Events
  BY <1>2, EventTypes
<1>4. listening => Fits(sent, Event("tool_use", Current))
  <2>1. Event("tool_use", Current).type # "tool_result"
    BY DEF Event
  <2> QED
    BY <1>1, <1>3, <2>1, ModelFits
<1>5. /\ sent' \in Seq(Events) /\ StreamGrammar' /\ \A c : Told(sent, c) => Told(sent', c)
      /\ listening' => sent' # <<>> /\ sent'[Len(sent')] = Event("tool_use", Current)
      /\ pulling' = FALSE /\ listening' = listening
  BY <1>1, <1>3, <1>4, Heard DEF IInv, Shapes, TypeOK
<1>6. TypeOK'
  BY <1>1, <1>5 DEF IInv, TypeOK, AllCalls, loop, api
<1>7. Shapes' /\ CallsAnswered' /\ Asking'
  BY <1>1, <1>5 DEF IInv, Shapes, CallsAnswered, Asking, AllCalls, Assistant, loop
<1>8. Owed' /\ Calm'
  BY <1>1, <1>2, <1>5 DEF Owed, Calm, Event
<1>9. EffectsAnnounced'
  BY <1>1, <1>5 DEF IInv, EffectsAnnounced, Told, api
<1> QED
  BY <1>5, <1>6, <1>7, <1>8, <1>9 DEF IInv

\* The answers go back to the model: all of the turn's, in their order.
LEMMA NextTurnKeeps == IInv /\ NextTurn => IInv'
<1> SUFFICES ASSUME IInv, NextTurn PROVE IInv'
  OBVIOUS
<1>1. /\ pulling /\ phase = "answered" /\ Len(results) = Len(calls) /\ UNCHANGED api
      /\ messages' = Append(messages, Answers(results)) /\ calls' = <<>> /\ results' = <<>>
  BY DEF NextTurn, TurnOver
<1>2. \/ turn < MaxTurns /\ turn' = turn + 1 /\ phase' = "model" /\ UNCHANGED <<listening, sent, pulling>>
      \/ turn' = turn /\ phase' = "ended" /\ Yield(Final("error"))
  BY DEF NextTurn, TurnOver, client
<1>3. results = AllCalls(Len(calls)) /\ results \in Seq(Call)
  BY <1>1, Counts DEF IInv, TypeOK
<1>4. /\ messages' \in Seq(Message) /\ messages' # <<>> /\ Paired(messages')
      /\ messages'[Len(messages')] = Answers(results)
  <2>1. Answers(results) \in Message
    BY <1>3 DEF Answers, Message
  <2>2. messages[Len(messages)] = Assistant(results)
    BY <1>1, <1>3 DEF IInv, Asking
  <2>3. Answers(results).answers = messages[Len(messages)].uses
    BY <2>2 DEF Answers, Assistant
  <2> QED
    BY <1>1, <2>1, <2>3, FittingMessage DEF IInv, Shapes, CallsAnswered, Paired
<1>5. TypeOK'
  <2>1. results' = [i \in 1..0 |-> <<turn', i>>] /\ Len(results') = 0 /\ Len(calls') = 0 /\ calls' \in Seq(Kinds)
    BY <1>1, CallsOf
  <2>2. turn' \in 1..MaxTurns /\ MaxCalls \in Nat
    BY <1>2, AgentAssumption DEF IInv, TypeOK, AgentAssumption
  <2>3. Len(calls') <= MaxCalls /\ Len(results') <= Len(calls') /\ results' = [i \in 1..Len(results') |-> <<turn', i>>]
    BY <2>1, <2>2
  <2>4. /\ listening' \in BOOLEAN /\ pulling' \in BOOLEAN /\ phase' \in {"model", "ended"}
        /\ started' \subseteq Call /\ inFlight' \subseteq Call
    BY <1>1, <1>2 DEF IInv, TypeOK, Yield, api
  <2> QED
    BY <2>1, <2>2, <2>3, <2>4 DEF TypeOK, AllCalls
<1>6. CASE phase' = "ended" /\ Yield(Final("error"))
  BY <1>1, <1>4, <1>5, <1>6, FinalStep
<1>7. CASE phase' = "model" /\ UNCHANGED <<listening, sent, pulling>>
  <2>1. messages'[Len(messages')].role = "user"
    BY <1>4 DEF Answers
  <2>2. Shapes' /\ CallsAnswered'
    BY <1>4, <1>7, <2>1 DEF IInv, Shapes, CallsAnswered, Paired
  <2>3. Asking' /\ Owed' /\ Calm'
    BY <1>1, <1>7 DEF IInv, Asking, Owed, Calm
  <2>4. EffectsAnnounced' /\ StreamGrammar'
    BY <1>1, <1>7 DEF IInv, EffectsAnnounced, StreamGrammar, api
  <2> QED
    BY <1>5, <2>2, <2>3, <2>4 DEF IInv
<1> QED
  BY <1>2, <1>6, <1>7

\* Every step keeps the invariant.
LEMMA StepIInv == IInv /\ [Next]_vars => IInv'
<1> SUFFICES ASSUME IInv, [Next]_vars PROVE IInv'
  OBVIOUS
<1>1. ASSUME NEW n \in 1..MaxCalls, NEW kinds \in [1..n -> Kinds], AskTools(kinds) PROVE IInv'
  BY <1>1, AskToolsKeeps
<1>2. ASSUME NEW n \in 0..MaxCalls, Done(n) PROVE IInv'
  BY <1>2, DoneKeeps
<1>3. CASE ModelEnds
  BY <1>1, <1>2, <1>3, NoFinalKeeps, QuietKeeps DEF ModelEnds
<1>4. ASSUME NEW ok \in BOOLEAN, ToolResult(ok) PROVE IInv'
  BY <1>4, ToolResultKeeps
<1>5. CASE LoopStep
  BY <1>4, <1>5, SendKeeps, NextCallKeeps, NextTurnKeeps, QuietKeeps DEF LoopStep
<1> QED
  BY <1>3, <1>5, QuietKeeps DEF Next

\* The invariant of a turn: its conversation is one the model's API accepts, its stream one
\* the client can read, and whatever it set off was announced.
THEOREM TurnInvariant == Spec => []IInv
  BY InitIInv, StepIInv, PTL DEF Spec

\* Whatever the tools do and however many calls a turn has, the model is only sent
\* conversations in which each call is answered (loop.py, run_agent).
THEOREM EveryCallAnswered == Spec => []CallsAnswered
<1>1. IInv => CallsAnswered
  BY DEF IInv
<1> QED
  BY <1>1, TurnInvariant, PTL

\* No run is started that was not announced on the stream first, also after the client left
\* (server.py, chat; tools.py, trigger_run).
THEOREM NoSilentEffect == Spec => []EffectsAnnounced
<1>1. IInv => EffectsAnnounced
  BY DEF IInv
<1> QED
  BY <1>1, TurnInvariant, PTL

\* The stream is calls with their results and one final event (loop.py, run_agent).
THEOREM StreamIsWellFormed == Spec => []StreamGrammar
<1>1. IInv => StreamGrammar
  BY DEF IInv
<1> QED
  BY <1>1, TurnInvariant, PTL

=============================================================================
