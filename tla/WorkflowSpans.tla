---------------------------- MODULE WorkflowSpans ----------------------------
(***************************************************************************)
(* The spans of a session's agent runs, turns, LLM requests and tool calls *)
(* (src/pi/event-handlers/agent-turn.ts, llm.ts, tool-bash.ts and the      *)
(* identifiers of src/pi/handler-internals.ts): bounded registries by      *)
(* identifier, and the current identifiers that stand in for those an      *)
(* event leaves out.                                                       *)
(*                                                                         *)
(* Handlers are synchronous, hence one action each.  An event that is      *)
(* dropped changes nothing here and is no step.  Events come in any order, *)
(* and an end may never come; no identifier is started a second time,      *)
(* except that a tool is announced by two events.  Arguments are captured, *)
(* and an input is named by the tool whose event carried it.               *)
(***************************************************************************)
EXTENDS Integers, BoundedMap

CONSTANTS
  Run, Request, Tool,  \* identifiers, explicit or generated
  Prompt,              \* user prompts, each with its images
  NoId,                \* a field that is undefined
  MaxIndex,            \* bound: the highest turn index
  MaxRuns, MaxTurns, MaxRequests, MaxTools   \* limits.maxActive...

ASSUME NoIdOutside == NoId \notin Run \cup Request \cup Tool \cup Prompt
ASSUME BoundsTyped ==
  /\ MaxIndex \in Nat
  /\ {MaxRuns, MaxTurns, MaxRequests, MaxTools} \subseteq Nat \ {0}

Kind == {"run", "turn", "request", "tool"}
TurnId == Run \X (0 .. MaxIndex)      \* deriveTurnId
IdOf == [run |-> Run, turn |-> TurnId, request |-> Request, tool |-> Tool]
Limit == [run |-> MaxRuns, turn |-> MaxTurns, request |-> MaxRequests,
          tool |-> MaxTools]

VARIABLES
  active,     \* the registries of open spans
  current,    \* currentAgentRunId, currentTurnId, currentLlmRequestId, currentToolCallId
  sequences,  \* turnSequences: the highest turn index of a run
  images,     \* pendingUserPromptImageCount and nextTurnImageCount
  open,       \* observme_active_spans of each operation
  used,       \* history: identifiers that were started
  repeated,   \* history: a turn was given the identifier of an earlier one
  prompted,   \* history: the prompt a run answers
  shown,      \* history: the turns a prompt's images were recorded on
  running,    \* the tools Pi executes
  misfiled,   \* history: tools whose span ended with other arguments
  crowded,    \* history: the registry of tool calls was full once
  session     \* "open", or "closed" by endAllActiveSpans

history == <<used, repeated, prompted, shown, running, misfiled, crowded>>
vars == <<active, current, sequences, images, open, history, session>>

\* What a registry holds; ToolCallState has inputEvent and, once the input is
\* reconciled, the recorded arguments.
Entry(kind) ==
  IF kind = "tool"
  THEN [key : Tool, input : Tool \cup {NoId}, arguments : Tool \cup {NoId}]
  ELSE [key : IdOf[kind]]

\* The registries respect their limits, and every value its type.
TypeOK ==
  /\ \A kind \in Kind : IsBoundedMap(active[kind], Entry(kind), Limit[kind])
  /\ \A kind \in Kind : current[kind] \in IdOf[kind] \cup {NoId}
  /\ IsBoundedMap(sequences, [key : Run, index : 0 .. MaxIndex], MaxRuns)
  /\ images \in [pending : Prompt \cup {NoId}, next : Prompt \cup {NoId}]
  /\ open \in [Kind -> Int]
  /\ \A kind \in Kind : used[kind] \subseteq IdOf[kind]
  /\ repeated \in BOOLEAN
  /\ prompted \in [Run -> Prompt \cup {NoId}]
  /\ shown \in [Prompt -> SUBSET TurnId]
  /\ running \subseteq Tool
  /\ misfiled \subseteq Tool
  /\ crowded \in BOOLEAN
  /\ session \in {"open", "closed"}

Init ==
  /\ active = [kind \in Kind |-> <<>>]
  /\ current = [kind \in Kind |-> NoId]
  /\ sequences = <<>>
  /\ images = [pending |-> NoId, next |-> NoId]
  /\ open = [kind \in Kind |-> 0]
  /\ used = [kind \in Kind |-> {}]
  /\ repeated = FALSE
  /\ prompted = [r \in Run |-> NoId]
  /\ shown = [p \in Prompt |-> {}]
  /\ running = {}
  /\ misfiled = {}
  /\ crowded = FALSE
  /\ session = "open"

-----------------------------------------------------------------------------
(* Spans in their registries                                               *)

Active(kind, id) == Has(active[kind], id)
Fresh(kind, id) == id \notin used[kind]

\* Fault: an evicted span stays in the gauge.
StartSpan_ForgetsEvicted(kind, e) ==
  /\ active' = [active EXCEPT ![kind] = Set(@, e, Limit[kind])]
  /\ current' = [current EXCEPT ![kind] = e.key]
  /\ open' = [open EXCEPT ![kind] = @ + 1]
  /\ used' = [used EXCEPT ![kind] = @ \cup {e.key}]

\* startActiveChildSpan and BoundedMap.set, which ends the spans it evicts.
\* A span that is already registered by that identifier is replaced.
StartSpan(kind, e) ==
  /\ active' = [active EXCEPT ![kind] = Set(@, e, Limit[kind])]
  /\ current' = [current EXCEPT ![kind] = e.key]
  /\ open' = [open EXCEPT ![kind] =
                @ + 1 - Excess(active[kind], e, Limit[kind])]
  /\ used' = [used EXCEPT ![kind] = @ \cup {e.key}]

\* endActiveSpan and the removal from the registry.
EndSpan(kind, id) ==
  /\ active' = [active EXCEPT ![kind] = Delete(@, id)]
  /\ open' = [open EXCEPT ![kind] = @ - 1]
  /\ current' = [current EXCEPT ![kind] = IF @ = id THEN NoId ELSE @]

\* What an event means by an identifier it may leave out.
OrCurrent(kind, given) == IF given = NoId THEN current[kind] ELSE given

-----------------------------------------------------------------------------
(* Agent runs                                                              *)

BeforeAgentStart(prompt) ==
  /\ session = "open"
  /\ images' = [images EXCEPT !.pending = prompt]
  /\ UNCHANGED <<active, current, sequences, open, history, session>>

\* The eviction of a run, the oldest one, takes its turn sequence along.
RemainingSequences(r) ==
  IF Excess(active["run"], [key |-> r], MaxRuns) > 0
    THEN Delete(sequences, active["run"][1].key)
    ELSE sequences

AgentStart(r) ==
  /\ session = "open"
  /\ Fresh("run", r)
  /\ StartSpan("run", [key |-> r])
  /\ sequences' = RemainingSequences(r)
  /\ images' = [pending |-> NoId, next |-> images.pending]
  /\ prompted' = [prompted EXCEPT ![r] = images.pending]
  /\ UNCHANGED <<repeated, shown, running, misfiled, crowded, session>>

AgentEnd(given) ==
  LET r == OrCurrent("run", given)
  IN  /\ session = "open"
      /\ Active("run", r)
      /\ EndSpan("run", r)
      /\ sequences' = Delete(sequences, r)
      /\ images' = IF current["run"] = r THEN [images EXCEPT !.next = NoId]
                                         ELSE images
      /\ UNCHANGED <<history, session>>

-----------------------------------------------------------------------------
(* Turns                                                                   *)

LastIndex(r) == IF Has(sequences, r) THEN Get(sequences, r).index ELSE 0

\* nextTurnIndex: an index given is remembered when it is the highest.
NextSequences(r, given) ==
  LET highest == IF given = NoId THEN LastIndex(r) + 1
                 ELSE IF given > LastIndex(r) THEN given ELSE LastIndex(r)
  IN  Set(sequences, [key |-> r, index |-> highest], MaxRuns)

\* Fault: the images are recorded on every turn of the run.
TakeImages_Keeps == images' = images
\* The first turn of a run takes the images of its prompt.
TakeImages == images' = [images EXCEPT !.next = NoId]

\* A turn belongs to the current run.  Without one it is synthetic: the event
\* or the sequence of runs names a run that never started.
TurnStart(r, given) ==
  LET index == IF given = NoId THEN LastIndex(r) + 1 ELSE given
      turn  == <<r, index>>
  IN  /\ session = "open"
      /\ current["run"] = NoId => Fresh("run", r)
      /\ current["run"] # NoId => r = current["run"]
      /\ index <= MaxIndex
      /\ given # NoId => Fresh("turn", turn)
      /\ sequences' = NextSequences(r, given)
      /\ active' = [active EXCEPT !["turn"] = Set(@, [key |-> turn], MaxTurns)]
      /\ current' = [current EXCEPT !["turn"] = turn]
      /\ open' = [open EXCEPT !["turn"] =
                    @ + 1 - Excess(active["turn"], [key |-> turn], MaxTurns)]
      /\ used' = [used EXCEPT !["turn"] = @ \cup {turn}, !["run"] = @ \cup {r}]
      /\ repeated' = (repeated \/ turn \in used["turn"])
      /\ TakeImages
      /\ shown' = [p \in Prompt |->
                     IF p = images.next THEN shown[p] \cup {turn} ELSE shown[p]]
      /\ UNCHANGED <<prompted, running, misfiled, crowded, session>>

\* The turn a turn_end with these fields is about, or NoId.
EndedTurn(turn, run, index) ==
  LET byCurrent == turn = NoId /\ OrCurrent("run", run) = NoId
      r == IF byCurrent /\ current["turn"] # NoId THEN current["turn"][1]
           ELSE OrCurrent("run", run)
  IN  IF byCurrent THEN current["turn"]
      ELSE IF r = NoId THEN NoId
      ELSE IF turn # NoId THEN turn
      ELSE IF index # NoId THEN <<r, index>>
      ELSE IF Has(sequences, r) THEN <<r, LastIndex(r)>>
      ELSE NoId

TurnEnd(turn, run, index) ==
  LET ended == EndedTurn(turn, run, index)
  IN  /\ session = "open"
      /\ ended # NoId /\ Active("turn", ended)
      /\ EndSpan("turn", ended)
      /\ UNCHANGED <<sequences, images, history, session>>

-----------------------------------------------------------------------------
(* LLM requests                                                            *)

BeforeProviderRequest(q) ==
  /\ session = "open"
  /\ Fresh("request", q)
  /\ StartSpan("request", [key |-> q])
  /\ UNCHANGED <<sequences, images, repeated, prompted, shown, running, misfiled, crowded,
                 session>>

\* message_end of an assistant message.
MessageEnd(given) ==
  LET q == OrCurrent("request", given)
  IN  /\ session = "open"
      /\ Active("request", q)
      /\ EndSpan("request", q)
      /\ UNCHANGED <<sequences, images, history, session>>

-----------------------------------------------------------------------------
(* Tool calls                                                              *)

\* resolveCurrentToolCallId for an event without an identifier.
CurrentTool == IF Len(active["tool"]) > 1 THEN NoId ELSE current["tool"]

\* The registry with an active call as it has become; it keeps its place.
WithCall(call) == [active EXCEPT !["tool"] = Store(@, call)]

\* A new ToolCallState, whose input is that of an event of t.
NewCall(id, t) == [key |-> id, input |-> t, arguments |-> NoId]

\* observeToolInput: the input may have changed since the call was announced.
ObserveToolInput(id, t) == WithCall([Get(active["tool"], id) EXCEPT !.input = t])

\* reconcileToolInput: the arguments are recorded, and no event is kept.
ReconcileToolInput(id, t) == WithCall([key |-> id, input |-> NoId, arguments |-> t])

Crowd(id) == crowded' = (crowded \/ Excess(active["tool"], [key |-> id], MaxTools) > 0)

\* Pi begins a tool.  An event that leaves the identifier out is given a new
\* one.  startToolCallState: a call that is already active goes on.
ToolExecutionStart(t) ==
  /\ session = "open"
  /\ Fresh("tool", t) \/ t \in running
  /\ \/ /\ Active("tool", t)
        /\ current' = [current EXCEPT !["tool"] = t]
        /\ active' = ObserveToolInput(t, t)
        /\ UNCHANGED <<open, used>>
     \/ /\ ~Active("tool", t)
        /\ StartSpan("tool", NewCall(t, t))
  /\ running' = running \cup {t}
  /\ Crowd(t)
  /\ UNCHANGED <<sequences, images, repeated, prompted, shown, misfiled, session>>

\* The identifier a tool_call of t goes by: without one, and with no tool to
\* stand in, it is given a new one, although t may be active.
CallIds(t, named) ==
  IF named THEN {t}
  ELSE IF CurrentTool # NoId THEN {CurrentTool}
  ELSE {new \in Tool : Fresh("tool", new)}

\* tool_call registers a tool that is not active: one that was evicted, or one
\* whose execution was not announced, which then names itself: Pi emits
\* tool_execution_start first.
ToolCall(t, named) ==
  /\ session = "open"
  /\ t \in running \/ (named /\ Fresh("tool", t))
  /\ named \/ Len(active["tool"]) <= 1
  /\ \E id \in CallIds(t, named) :
       /\ \/ /\ Active("tool", id)
             /\ active' = ObserveToolInput(id, t)
             /\ UNCHANGED <<current, open, used>>
          \/ /\ ~Active("tool", id)
             /\ StartSpan("tool", NewCall(id, t))
       /\ Crowd(id)
  /\ running' = running \cup {t}
  /\ UNCHANGED <<sequences, images, repeated, prompted, shown, misfiled, session>>

\* tool_result carries the input the tool really had.
ToolResult(t, named) ==
  LET id == IF named THEN t ELSE CurrentTool
  IN  /\ session = "open"
      /\ t \in running
      /\ Active("tool", id)
      /\ active' = ReconcileToolInput(id, t)
      /\ UNCHANGED <<current, sequences, images, open, history, session>>

\* Fault: a tool that has no result ends without its arguments.
ArgumentsAtEnd_OfResult(call) == call.arguments
\* An input that no result reconciled is reconciled at the end.
ArgumentsAtEnd(call) == IF call.arguments = NoId THEN call.input ELSE call.arguments

\* Pi ends the tool t; the event names it, or the current tool stands in.
ToolExecutionEnd(t, named) ==
  LET ended == IF named THEN t ELSE CurrentTool
  IN  /\ session = "open"
      /\ t \in running
      /\ running' = running \ {t}
      /\ IF Active("tool", ended)
         THEN /\ EndSpan("tool", ended)
              /\ misfiled' = IF ArgumentsAtEnd(Get(active["tool"], ended)) = t
                             THEN misfiled ELSE misfiled \cup {t}
         ELSE UNCHANGED <<active, current, open, misfiled>>
      /\ UNCHANGED <<sequences, images, used, repeated, prompted, shown, crowded,
                     session>>

-----------------------------------------------------------------------------
\* endAllActiveSpans; what a teardown that is suspended may still let in is
\* the subject of SessionLifecycle.
EndAllActiveSpans ==
  /\ session = "open"
  /\ session' = "closed"
  /\ active' = [kind \in Kind |-> <<>>]
  /\ open' = [kind \in Kind |-> open[kind] - Len(active[kind])]
  /\ sequences' = <<>>
  /\ images' = [pending |-> NoId, next |-> NoId]
  /\ UNCHANGED <<current, history>>

RunEvents ==
  \/ \E p \in Prompt : BeforeAgentStart(p)
  \/ \E r \in Run :
       \/ AgentStart(r)
       \/ \E given \in (0 .. MaxIndex) \cup {NoId} : TurnStart(r, given)
  \/ \E r \in Run \cup {NoId} :
       \/ AgentEnd(r)
       \/ \E index \in (0 .. MaxIndex) \cup {NoId}, turn \in TurnId \cup {NoId} :
            TurnEnd(turn, r, index)

RequestEvents ==
  \/ \E q \in Request : BeforeProviderRequest(q)
  \/ \E q \in Request \cup {NoId} : MessageEnd(q)

ToolEvents ==
  \E t \in Tool :
    \/ ToolExecutionStart(t)
    \/ \E named \in BOOLEAN :
         ToolCall(t, named) \/ ToolResult(t, named) \/ ToolExecutionEnd(t, named)

Next == RunEvents \/ RequestEvents \/ ToolEvents \/ EndAllActiveSpans

Spec == Init /\ [][Next]_vars

-----------------------------------------------------------------------------
(* Properties                                                              *)

\* docs/reference/10-testing-release-operations.md: normal completion, eviction
\* and shutdown leave no negative or leaked value of the active-span gauge,
\* which counts the spans that can still be ended; the registries keep their
\* limits.
NoLeakedGauge ==
  TypeOK /\ \A kind \in Kind : open[kind] = Len(active[kind])

\* Turn identifiers are unique, whichever turns Pi numbers itself and whatever
\* the bounded sequences forgot.
TurnIdsUnique == ~repeated

\* The images of a prompt are recorded on one turn at most of each run that
\* answers the prompt, and never on a turn of another run, however runs overlap
\* and end out of order.
ImagesOfOwnPrompt ==
  \A p \in Prompt :
    /\ \A turn \in shown[p] : prompted[turn[1]] = p
    /\ \A turn, other \in shown[p] : turn[1] = other[1] => turn = other

\* Turns keep to their run, in name and in content.
TurnsAreOfTheirRun == TurnIdsUnique /\ ImagesOfOwnPrompt

\* The span that Pi's end of a tool ends has the arguments of that tool, also
\* when siblings run in parallel, events leave their identifier out, and the
\* result that carries the final input never comes: as long as no call is
\* evicted.
ArgumentsAreOwn == ~crowded => misfiled = {}
=============================================================================
