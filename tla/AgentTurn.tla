----------------------------- MODULE AgentTurn -----------------------------
(***************************************************************************)
(* One POST /chat of the agent service: the ReAct loop (run_agent) is a    *)
(* generator, and the SSE response pulls its events one at a time, each in *)
(* a worker thread.  A tool is an HTTP call to the data API; trigger_run   *)
(* starts a run there, whatever becomes of the reply.                      *)
(*                                                                         *)
(* A message of the conversation is the tool calls it makes or answers; a  *)
(* call is its turn and its place in the turn; text is left out.           *)
(***************************************************************************)
EXTENDS Naturals, Sequences

CONSTANTS
    MaxTurns,       \* run_agent's max_turns
    MaxCalls        \* bound: tool calls the model makes in one turn

ASSUME AgentAssumption == MaxTurns \in Nat \ {0} /\ MaxCalls \in Nat \ {0}

VARIABLES
    listening,      \* the client is connected
    pulling,        \* a thread is inside next(run_agent(...))
    phase,          \* where the generator stands
    turn,
    calls,          \* kinds of the tool_use blocks of this turn
    results,        \* calls of this turn that are answered
    messages,       \* what the model is sent
    inFlight,       \* POST /runs that the API has not finished
    started,        \* calls whose run is committed
    sent            \* events the client got, text apart

client == <<listening, sent>>
api == <<inFlight, started>>
loop == <<turn, calls, results, messages>>
vars == <<listening, pulling, phase, turn, calls, results, messages, inFlight, started, sent>>

Kinds == {"trigger_run", "read", "unknown"}
Call == (1..MaxTurns) \X (1..MaxCalls)
Current == <<turn, Len(results) + 1>>
Kind == calls[Len(results) + 1]
AllCalls(n) == [i \in 1..n |-> <<turn, i>>]

User == [role |-> "user", uses |-> <<>>, answers |-> <<>>]
Assistant(uses) == [role |-> "assistant", uses |-> uses, answers |-> <<>>]
Answers(answers) == [role |-> "user", uses |-> <<>>, answers |-> answers]

Event(type, call) == [type |-> type, call |-> call]
Final(type) == Event(type, <<0, 0>>)

Init ==
    /\ listening = TRUE /\ pulling = FALSE /\ phase = "model"
    /\ turn = 1 /\ calls = <<>> /\ results = <<>> /\ messages = <<User>>
    /\ inFlight = {} /\ started = {} /\ sent = <<>>

-----------------------------------------------------------------------------
(***************************************************************************)
(* The response.                                                           *)
(***************************************************************************)

\* Mutant: the response reads on although nobody listens.
PullOn ==
    /\ ~pulling /\ phase \notin {"closed", "raised"}
    /\ pulling' = TRUE
    /\ UNCHANGED <<client, phase, loop, api>>

\* The next event is asked for when the last one is sent.
Pull ==
    /\ listening /\ ~pulling /\ phase \notin {"closed", "raised"}
    /\ pulling' = TRUE
    /\ UNCHANGED <<client, phase, loop, api>>

\* The client disconnects: the response is cancelled, and a pull under way goes on alone.
Leave ==
    /\ listening /\ phase \notin {"closed", "raised"}
    /\ listening' = FALSE
    /\ UNCHANGED <<sent, pulling, phase, loop, api>>

\* The generator's yield, which ends the pull.
Yield(event) ==
    /\ pulling' = FALSE
    /\ sent' = IF listening THEN Append(sent, event) ELSE sent
    /\ UNCHANGED listening

\* Mutant: the end of the generator is not noticed.
ExhaustedUnseen ==
    /\ pulling /\ phase = "ended"
    /\ pulling' = FALSE
    /\ UNCHANGED <<client, phase, loop, api>>

Exhausted ==
    /\ pulling /\ phase = "ended"
    /\ pulling' = FALSE /\ phase' = "closed"
    /\ UNCHANGED <<client, loop, api>>

-----------------------------------------------------------------------------
(***************************************************************************)
(* The model's part of a turn.                                             *)
(***************************************************************************)

InModel == pulling /\ phase = "model"

Text ==
    /\ InModel
    /\ pulling' = FALSE
    /\ UNCHANGED <<client, phase, loop, api>>

\* The SDK raises: no event tells the client, the response breaks off.
ModelRaises ==
    /\ InModel
    /\ pulling' = FALSE /\ phase' = "raised"
    /\ UNCHANGED <<client, loop, api>>

NoFinal ==
    /\ InModel
    /\ phase' = "ended" /\ Yield(Final("error"))
    /\ UNCHANGED <<loop, api>>

\* Any stop_reason but tool_use: the turn is over, also when a reply that ran into
\* max_tokens holds calls nobody answers.
Done(n) ==
    /\ InModel
    /\ messages' = Append(messages, Assistant(AllCalls(n)))
    /\ phase' = "ended" /\ Yield(Final("done"))
    /\ UNCHANGED <<turn, calls, results, api>>

AskTools(kinds) ==
    /\ InModel
    /\ messages' = Append(messages, Assistant(AllCalls(Len(kinds))))
    /\ calls' = kinds /\ results' = <<>>
    /\ phase' = "asked" /\ Yield(Event("tool_use", <<turn, 1>>))
    /\ UNCHANGED <<turn, api>>

-----------------------------------------------------------------------------
(***************************************************************************)
(* The tools' part.                                                        *)
(***************************************************************************)

\* toolbox.run, within the pull that follows the tool_use event.
Send ==
    /\ pulling /\ phase = "asked"
    /\ phase' = "running"
    /\ inFlight' = IF Kind = "trigger_run" THEN inFlight \cup {Current} ELSE inFlight
    /\ UNCHANGED <<client, pulling, loop, started>>

\* The data API commits a run, perhaps after the client's 30 s are over, or drops the
\* request.
ApiFinishes(c, commits) ==
    /\ c \in inFlight
    /\ inFlight' = inFlight \ {c}
    /\ started' = IF commits THEN started \cup {c} ELSE started
    /\ UNCHANGED <<client, pulling, phase, loop>>

Result(ok) ==
    /\ pulling /\ phase = "running"
    /\ ok => Kind = "read" \/ (Kind = "trigger_run" /\ Current \in started)
    /\ results' = Append(results, Current)
    /\ phase' = "answered" /\ Yield(Event("tool_result", Current))
    /\ UNCHANGED <<turn, calls, messages, api>>

\* Mutant: a tool that raises ends the turn.
ResultOrEnd(ok) ==
    IF ok THEN Result(ok)
    ELSE /\ pulling /\ phase = "running"
         /\ phase' = "ended" /\ Yield(Final("error"))
         /\ UNCHANGED <<loop, api>>

\* What the tool returned, or any exception it raised (a timeout, an error status, a name
\* nobody knows): an answer for the model either way.
ToolResult(ok) == Result(ok)

NextCall ==
    /\ pulling /\ phase = "answered" /\ Len(results) < Len(calls)
    /\ phase' = "asked" /\ Yield(Event("tool_use", Current))
    /\ UNCHANGED <<loop, api>>

\* The results go back as one message; after max_turns nobody reads them.
TurnOver(answers) ==
    /\ pulling /\ phase = "answered" /\ Len(results) = Len(calls)
    /\ messages' = Append(messages, Answers(answers))
    /\ calls' = <<>> /\ results' = <<>>
    /\ IF turn < MaxTurns
       THEN turn' = turn + 1 /\ phase' = "model" /\ UNCHANGED <<client, pulling>>
       ELSE turn' = turn /\ phase' = "ended" /\ Yield(Final("error"))
    /\ UNCHANGED api

\* Mutant: only the last result is sent back.
NextTurnLast == TurnOver(<<<<turn, Len(results)>>>>)

NextTurn == TurnOver(results)

-----------------------------------------------------------------------------
ModelEnds ==
    \/ ModelRaises \/ NoFinal
    \/ \E n \in 0..MaxCalls : Done(n)
    \/ \E n \in 1..MaxCalls : \E kinds \in [1..n -> Kinds] : AskTools(kinds)

LoopStep == Send \/ (\E ok \in BOOLEAN : ToolResult(ok)) \/ NextCall \/ NextTurn \/ Exhausted

Next ==
    \/ Pull \/ Leave
    \/ Text \/ ModelEnds
    \/ LoopStep
    \/ \E c \in inFlight, commits \in BOOLEAN : ApiFinishes(c, commits)

Spec == Init /\ [][Next]_vars

\* The response pulls and the thread runs on (every HTTP call has a timeout); a reply of
\* the model has at most MAX_TOKENS tokens, so its text comes to an end.
Fairness == WF_vars(Pull) /\ WF_vars(LoopStep) /\ WF_vars(Text \/ ModelEnds) /\ SF_vars(ModelEnds)

FairSpec == Spec /\ Fairness

-----------------------------------------------------------------------------
TypeOK ==
    /\ listening \in BOOLEAN /\ pulling \in BOOLEAN
    /\ phase \in {"model", "asked", "running", "answered", "ended", "closed", "raised"}
    /\ turn \in 1..MaxTurns
    /\ calls \in Seq(Kinds) /\ Len(calls) <= MaxCalls
    /\ results = AllCalls(Len(results)) /\ Len(results) <= Len(calls)
    /\ phase \in {"asked", "running"} => Len(results) < Len(calls)
    /\ started \subseteq Call /\ inFlight \subseteq Call

\* The API of the model refuses a conversation in which a tool_use is not answered in the
\* very next message: every assistant message but the last is followed by the answers to
\* all of its calls, in their order, and a model that is asked reads a user message last.
CallsAnswered ==
    /\ \A i \in 1..(Len(messages) - 1) :
        messages[i].role = "assistant" => messages[i + 1].answers = messages[i].uses
    /\ phase = "model" => messages[Len(messages)].role = "user"

\* A run is never started behind the user's back: whoever started one was told of the call
\* first, also when the client leaves in the middle of a turn or a late request commits.
EffectsAnnounced ==
    \A c \in started \cup inFlight : \E i \in DOMAIN sent : sent[i] = Event("tool_use", c)

\* What a client reads: each call followed by its own result, and an error or a done last.
StreamGrammar ==
    \A i \in DOMAIN sent :
        /\ sent[i].type = "tool_result" => i > 1 /\ sent[i - 1] = Event("tool_use", sent[i].call)
        /\ sent[i].type = "tool_use" /\ i < Len(sent) => sent[i + 1] = Event("tool_result", sent[i].call)
        /\ sent[i].type \in {"done", "error"} => i = Len(sent)

\* A response somebody listens to comes to its end, whatever the model and the tools do.
ResponseEnds == (listening /\ pulling) ~> (phase \in {"closed", "raised"} \/ ~listening)

=============================================================================
