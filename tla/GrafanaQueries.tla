--------------------------- MODULE GrafanaQueries ---------------------------
(***************************************************************************)
(* The /obs commands that ask the backends (src/commands/obs*.ts over      *)
(* src/query and the OTLP health transport).  A command is parsed, loads   *)
(* the configuration, reads the session that is being observed and sends   *)
(* its requests at once; each request has a timer, an abort signal and a   *)
(* body that is read up to a limit; when all of them have settled the      *)
(* command is answered by one notification.  Sessions come and go while it *)
(* waits.                                                                  *)
(*                                                                         *)
(* One command at a time: two share nothing but the session they read.  Of *)
(* several requests that are treated alike (the signals of the collector,  *)
(* the datasources without a fallback, the aggregates of /obs agents) one  *)
(* stands for all; the two of /obs tools show that alike ones do not mix.  *)
(***************************************************************************)
EXTENDS Naturals, Sequences, FiniteSets

CONSTANTS
  MaxSessions,  \* bound on the sessions observed
  MaxChunks,    \* MAX_GRAFANA_RESPONSE_BODY_BYTES, in chunks of a body
  MaxTokens     \* bound on the options of /obs trace

Kind == {"health", "tools", "agents", "cost", "errors", "logs", "trace", "session"}

\* The requests of a command, and the backend each of them asks.
PartsOf(kind) ==
  CASE kind = "health" -> {"collector", "service", "datasource", "bare_datasource"}
    [] kind = "tools"  -> {"calls", "failures"}
    [] kind = "agents" -> {"aggregate", "traces"}
    [] kind = "cost"   -> {"series"}
    [] kind \in {"errors", "logs"} -> {"log"}
    [] kind = "trace"  -> {"search"}
    [] OTHER           -> {}
Part == UNION {PartsOf(k) : k \in Kind}
Backend(p) ==
  CASE p \in {"datasource", "traces", "search"} -> "tempo"
    [] p \in {"bare_datasource", "log"} -> "loki"
    [] p \in {"calls", "failures", "aggregate", "series"} -> "prometheus"
    [] OTHER -> "none"

\* The configuration a command loads: the switch of the query integration and
\* whether URL and credentials are sound, the datasource without a UID, and
\* whether a trace link can be built.
Config == [query : {"disabled", "unsound", "sound"},
           missing : {"no_uid", "tempo", "loki", "prometheus"}, link : {"sound", "broken"}]
Unloaded == [query |-> "unloaded", missing |-> "no_uid", link |-> "sound"]

\* A token of /obs trace, and the requests it can stand for.
Token == [opt : {"last-turn", "current-session", "session", "bogus"}, id : {0}]
         \cup [opt : {"session=", "value"}, id : 1..MaxSessions]
Current == [scope |-> "current-session", id |-> 0]
Usage == [scope |-> "usage", id |-> 0]
Request == {Current, Usage, [scope |-> "last-turn", id |-> 0]}
           \cup [scope : {"session"}, id : 1..MaxSessions]

VARIABLES
  command,   \* kind, step, tokens, the parsed request, the configuration, the session that was read
  part,      \* the requests of the command
  session,   \* the runtime state: current session (0: none), those started, whether a turn ended
  answer     \* the notification, and what it shows

vars == <<command, part, session, answer>>

NoAnswer == [type |-> "none", rows |-> {}, unavailable |-> {}, session |-> 0, trace |-> 0]
NoSession == [id |-> 0, turned |-> FALSE]

Init ==
  /\ command = [kind |-> "none", step |-> "idle", tokens |-> <<>>, request |-> Current,
                config |-> Unloaded, seen |-> NoSession]
  /\ part = <<>>
  /\ session = [id |-> 0, started |-> 0, turned |-> FALSE]
  /\ answer = NoAnswer

-----------------------------------------------------------------------------
(* Sessions come and go                                                    *)

\* Bound: sessions change while a command is waiting that shows one.
Observing ==
  \/ command.step = "idle"
  \/ answer = NoAnswer /\ command.kind \in {"agents", "logs", "trace", "session"}

\* startObsSessionRuntimeState and startObsAgentsRuntimeState
SessionStarts ==
  /\ session.id = 0 /\ session.started < MaxSessions
  /\ session' = [id |-> session.started + 1, started |-> session.started + 1, turned |-> FALSE]
  /\ UNCHANGED <<command, part, answer>>

\* recordObsSessionTurn
TurnEnds ==
  /\ session.id # 0 /\ session' = [session EXCEPT !.turned = TRUE]
  /\ UNCHANGED <<command, part, answer>>

\* clearObsSessionRuntimeState and clearObsAgentsRuntimeState
SessionEnds ==
  /\ session.id # 0 /\ session' = [session EXCEPT !.id = 0, !.turned = FALSE]
  /\ UNCHANGED <<command, part, answer>>

-----------------------------------------------------------------------------
(* Requests                                                                *)

Unsent(result) == [st |-> "done", timer |-> "off", body |-> "none", size |-> 0, try |-> 0,
                   status |-> "none", result |-> result]
\* fetchGrafanaRequest and fetchWithTimeout: a new controller, its timer, the fetch.
Sent(try) == [st |-> "fetching", timer |-> "armed", body |-> "none", size |-> 0, try |-> try,
              status |-> "none", result |-> "none"]

\* getGrafanaQueryReadiness; the collector is asked whatever it says.
Readiness(p, config) ==
  IF p = "collector" THEN "ready"
  ELSE IF config.query = "disabled" THEN "disabled"
  ELSE IF config.query = "unsound" \/ config.missing = Backend(p) THEN "not_ready"
  ELSE "ready"

\* What a request is when its command starts it: sent, or settled without a word
\* to the backend.  A health check is then skipped, a query fails.
Started(kind, p, config) ==
  LET readiness == Readiness(p, config) IN
    IF readiness = "ready" THEN Sent(1)
    ELSE Unsent(IF kind = "health" /\ readiness = "disabled" THEN "skipped" ELSE "failed")

\* The end of a request, with its finally: the timer is cleared, a body that is
\* still open is cancelled.
Settled(r, result) == Unsent(result)

\* What may come of a response that was read whole.  A health check looks at its
\* status; a query parses the body too and checks it against the schema of its
\* backend, and a command the vector it expects.
HealthResults(status) == {IF status = "ok" THEN "rows" ELSE "failed"}
TempoResults(status) == IF status = "ok" THEN {"rows", "empty", "failed"} ELSE {"failed"}
LokiResults(status) == IF status = "ok" THEN {"rows", "empty", "failed"} ELSE {"failed"}
PrometheusResults(status) == IF status = "ok" THEN {"rows", "failed"} ELSE {"failed"}
Results(p, status) ==
  IF command.kind = "health" THEN HealthResults(status)
  ELSE CASE Backend(p) = "tempo" -> TempoResults(status)
         [] Backend(p) = "loki" -> LokiResults(status)
         [] OTHER -> PrometheusResults(status)

\* A datasource that does not know its health path is asked by another one, once.
Concluded(p, r, status) ==
  IF p = "datasource" /\ status = "missing" /\ r.try = 1 THEN {Sent(2)}
  ELSE {Settled(r, result) : result \in Results(p, status)}

\* The status of an answer of the collector is all that is looked at.
Reachable(status) == IF status = "error" THEN "failed" ELSE "rows"

\* readGrafanaResponseChunk: no chunk is asked for once the signal is aborted.
\* Fault: only the abort event is listened for.
ReadOn_Unchecked(r) == [r EXCEPT !.st = "reading"]
ReadOn(r) == IF r.timer = "fired" THEN Settled(r, "failed") ELSE [r EXCEPT !.st = "reading"]

\* The fetcher resolves, the request being aborted or not.
Respond(p) ==
  /\ part[p].st = "fetching"
  /\ \E status \in {"ok", "missing", "error"}, length \in {"within", "beyond"}, stream \in {"none", "open"} :
       LET r == [part[p] EXCEPT !.body = stream, !.status = status] IN
       \E next \in IF p = "collector" THEN {Settled(r, Reachable(status))}
                   ELSE IF length = "beyond" THEN {Settled(r, "failed")}
                   ELSE IF stream = "none" THEN Concluded(p, r, status)
                   ELSE {ReadOn(r)} :
         part' = [part EXCEPT ![p] = next]
  /\ UNCHANGED <<command, session, answer>>

\* The fetcher rejects: the request is aborted, or cannot be made at all.
FetchFails(p) ==
  /\ part[p].st = "fetching"
  /\ part' = [part EXCEPT ![p] = Settled(@, "failed")]
  /\ UNCHANGED <<command, session, answer>>

\* readBoundedResponseBody: a chunk too many ends the request.
Chunk(p) ==
  /\ part[p].st = "reading"
  /\ LET r == part[p] IN
       part' = [part EXCEPT ![p] = IF r.size = MaxChunks THEN Settled(r, "failed")
                                   ELSE ReadOn([r EXCEPT !.size = r.size + 1])]
  /\ UNCHANGED <<command, session, answer>>

BodyEnds(p) ==
  /\ part[p].st = "reading"
  /\ \E next \in Concluded(p, [part[p] EXCEPT !.body = "none"], part[p].status) :
       part' = [part EXCEPT ![p] = next]
  /\ UNCHANGED <<command, session, answer>>

BodyFails(p) ==
  /\ part[p].st = "reading"
  /\ part' = [part EXCEPT ![p] = Settled(@, "failed")]
  /\ UNCHANGED <<command, session, answer>>

\* The timer aborts: a read that waits is rejected and its body cancelled, a
\* fetch that waits hears of it and settles when it likes.
Timeout(p) ==
  /\ part[p].timer = "armed"
  /\ part' = [part EXCEPT ![p] =
               IF @.st = "reading" THEN Settled([@ EXCEPT !.timer = "fired"], "failed")
               ELSE [@ EXCEPT !.timer = "fired"]]
  /\ UNCHANGED <<command, session, answer>>

-----------------------------------------------------------------------------
(* Commands                                                                *)

\* parseObsTraceOptions: at most one option, and each with its value.
Recognised(tokens, i) ==
  \/ tokens[i].opt \in {"last-turn", "current-session", "session="}
  \/ tokens[i].opt = "session" /\ i < Len(tokens) /\ tokens[i + 1].opt = "value"
RequestAt(tokens, i) ==
  CASE tokens[i].opt = "session"  -> [scope |-> "session", id |-> tokens[i + 1].id]
    [] tokens[i].opt = "session=" -> [scope |-> "session", id |-> tokens[i].id]
    [] OTHER -> [scope |-> tokens[i].opt, id |-> 0]
Width(token) == IF token.opt = "session" THEN 2 ELSE 1
\* setObsTraceRequest: what follows the first option is a conflict, or unknown.
OnlyOption(tokens) == Len(tokens) = Width(tokens[1])
ParseTraceOptions(tokens) ==
  CASE tokens = <<>> -> Current
    [] tokens # <<>> /\ Recognised(tokens, 1) /\ OnlyOption(tokens) -> RequestAt(tokens, 1)
    [] OTHER -> Usage

Tell(type, rows, unavailable, shown, trace) ==
  answer' = [type |-> type, rows |-> rows, unavailable |-> unavailable, session |-> shown, trace |-> trace]

\* What a command does first, and what it does with the configuration.
FirstStep(kind) == IF kind \in {"logs", "agents", "session"} THEN "session" ELSE "config"

\* handleObsCommand gives the arguments to the handler of the subcommand.
Begin ==
  /\ command.step = "idle"
  /\ \E kind \in Kind :
     \E tokens \in IF kind = "trace" THEN UNION {[1..n -> Token] : n \in 0..MaxTokens}
                   ELSE {<<>>, <<[opt |-> "bogus", id |-> 0]>>} :
       LET request == ParseTraceOptions(tokens) IN
         IF request = Usage
         THEN /\ command' = [command EXCEPT !.kind = kind, !.step = "over"]
              /\ Tell("warning", {}, {}, 0, 0)
         ELSE /\ command' = [command EXCEPT !.kind = kind, !.step = FirstStep(kind),
                                            !.tokens = tokens, !.request = request]
              /\ UNCHANGED answer
  /\ UNCHANGED <<part, session>>

\* The requests are made with the configuration; only a link needs it later.
Launch(c, parts) ==
  /\ command' = [c EXCEPT !.step = "asking",
                          !.config = [Unloaded EXCEPT !.link = IF c.kind = "trace" THEN c.config.link ELSE @]]
  /\ part' = [p \in parts |-> Started(c.kind, p, c.config)]

\* loadObsCommandConfig
LoadConfig ==
  /\ command.step = "config"
  /\ \E config \in Config :
       LET c == [command EXCEPT !.config = config] IN
         IF c.kind = "trace" THEN command' = [c EXCEPT !.step = "session"] /\ UNCHANGED part
         ELSE Launch(c, PartsOf(c.kind))
  /\ UNCHANGED <<session, answer>>

\* A command that has no configuration cannot be answered...
ConfigFails ==
  /\ command.step = "config" /\ command.kind # "agents"
  /\ command' = [command EXCEPT !.step = "over"]
  /\ Tell("error", {}, {}, 0, 0)
  /\ UNCHANGED <<part, session>>

\* ... but /obs agents, which shows what it knows.
AgentsUnavailable ==
  /\ command.step = "config" /\ command.kind = "agents"
  /\ command' = [command EXCEPT !.step = "asking"]
  /\ part' = [p \in PartsOf("agents") |-> Unsent("failed")]
  /\ UNCHANGED <<session, answer>>

\* The session is read once, all of it, and never again.
Seen == [id |-> session.id, turned |-> session.turned]

\* The trace an answer links to, if a link can be built.
Link(id) ==
  IF command.config.link = "sound" THEN Tell("info", {}, {}, id, id) ELSE Tell("error", {}, {}, 0, 0)

\* resolveObsTraceTarget: from the runtime state, or from Tempo.
ResolveTarget ==
  /\ command.step = "session" /\ command.kind = "trace"
  /\ LET local == CASE command.request.scope = "session" -> Seen.id = command.request.id
                    [] command.request.scope = "last-turn" -> Seen.id # 0 /\ Seen.turned
                    [] OTHER -> Seen.id # 0
     IN  IF ~local /\ command.request.scope = "session"
         THEN Launch([command EXCEPT !.seen = Seen], {"search"}) /\ UNCHANGED answer
         ELSE /\ command' = [command EXCEPT !.step = "over", !.seen = Seen]
              /\ IF local THEN Link(Seen.id) ELSE Tell("error", {}, {}, 0, 0)
              /\ UNCHANGED part
  /\ UNCHANGED session

ShowSession ==
  /\ command.step = "session" /\ command.kind = "session"
  /\ command' = [command EXCEPT !.step = "over", !.seen = Seen]
  /\ Tell("info", {}, {}, Seen.id, Seen.id)
  /\ UNCHANGED <<part, session>>

\* resolveObsLogsSessionId and resolveObsAgentsRuntime; logs are those of a session.
ReadSession ==
  /\ command.step = "session" /\ command.kind \in {"logs", "agents"}
  /\ IF command.kind = "logs" /\ Seen.id = 0
     THEN /\ command' = [command EXCEPT !.step = "over"]
          /\ Tell("error", {}, {}, 0, 0)
     ELSE /\ command' = [command EXCEPT !.step = "config", !.seen = Seen]
          /\ UNCHANGED answer
  /\ UNCHANGED <<part, session>>

\* The requests by what they brought, and those that are shown.
With(result) == {p \in DOMAIN part : part[p].result = result}
Shown == With("rows") \cup With("empty")

\* The promises of the requests a command waits for: Promise.allSettled, or
\* Promise.all over checks that never reject.
\* Fault: Promise.all over requests that reject.
AllSettled_First == (\A p \in DOMAIN part : part[p].st = "done") \/ With("failed") # {}
AllSettled == \A p \in DOMAIN part : part[p].st = "done"

\* The session an answer is about.  Fault: it is read when the answer is put together.
SessionShown_Reread == session.id
SessionShown == command.seen.id

Answer(kind) ==
  /\ command.step = "asking" /\ command.kind = kind /\ AllSettled
  /\ command' = [command EXCEPT !.step = "over"]
  /\ UNCHANGED <<part, session>>
AllOrError(shown) ==
  IF Shown = {} THEN Tell("error", {}, With("failed"), 0, 0) ELSE Tell("info", Shown, {}, shown, shown)

AnswerHealth ==
  /\ Answer("health")
  /\ Tell(IF With("failed") = {} THEN "info" ELSE "warning", Shown, With("failed"), 0, 0)
AnswerAgents ==
  /\ Answer("agents")
  /\ Tell(IF With("failed") = {} THEN "info" ELSE "warning", Shown, With("failed"),
          SessionShown, command.seen.id)
AnswerTools ==
  /\ Answer("tools")
  /\ Tell(CASE With("failed") = {} -> "info" [] Shown = {} -> "error" [] OTHER -> "warning",
          Shown, With("failed"), 0, 0)
AnswerCost == Answer("cost") /\ AllOrError(0)
AnswerErrors == Answer("errors") /\ AllOrError(0)
AnswerLogs == Answer("logs") /\ AllOrError(command.seen.id)
\* The first trace Tempo found; none is an error.
AnswerTrace ==
  /\ Answer("trace")
  /\ IF With("rows") = {} THEN Tell("error", {}, {}, 0, 0) ELSE Link(command.request.id)

-----------------------------------------------------------------------------
Proceed ==
  \/ Begin \/ LoadConfig \/ ConfigFails \/ AgentsUnavailable
  \/ ResolveTarget \/ ShowSession \/ ReadSession
  \/ AnswerHealth \/ AnswerAgents \/ AnswerTools \/ AnswerCost \/ AnswerErrors \/ AnswerLogs \/ AnswerTrace
Transport(p) == Respond(p) \/ FetchFails(p) \/ Chunk(p) \/ BodyEnds(p) \/ BodyFails(p) \/ Timeout(p)

Next ==
  \/ Observing /\ (SessionStarts \/ TurnEnds \/ SessionEnds)
  \/ Proceed
  \/ \E p \in DOMAIN part : Transport(p)

Spec == Init /\ [][Next]_vars

\* Timers fire, an aborted fetch settles, and what waits for nothing but the
\* event loop runs.  Backends owe nothing: neither an answer nor a whole body.
Overdue(p) == p \in DOMAIN part /\ Timeout(p)
Aborted(p) == /\ p \in DOMAIN part /\ part[p].timer = "fired"
              /\ FetchFails(p) \/ Respond(p)
FairSpec == Spec /\ WF_vars(Proceed) /\ \A p \in Part : WF_vars(Overdue(p)) /\ WF_vars(Aborted(p))

-----------------------------------------------------------------------------
(* Properties                                                              *)

\* A command that was given is answered, whatever the backends do with its
\* requests: none of them waits for a fetch, a body or a timer for ever.
CommandAnswered == (command.step # "idle") ~> (answer # NoAnswer)

\* An answer leaves nothing behind: no request is under way, no timer runs, no
\* body is held open.
AnsweredMeansQuiet ==
  answer # NoAnswer =>
    \A p \in DOMAIN part : /\ part[p].st = "done" /\ part[p].timer # "armed"
                           /\ part[p].body # "open"

\* Every command is answered, and its answer is the end of it.
CommandSettles == CommandAnswered /\ []AnsweredMeansQuiet

\* What one request of a command brought is shown although another failed, and
\* what failed is not passed over in silence.
OneFailureHidesNone ==
  (command.step = "over" /\ command.kind \in {"health", "tools", "agents"}) =>
    /\ With("rows") \subseteq answer.rows
    /\ With("failed") # {} => /\ answer.type # "info"
                              /\ answer.type = "error" => With("rows") = {}

\* An answer is about one session: the one that was asked for when an identifier
\* was given, else the one that was read, though another has begun meanwhile.
AnswerOfOneSession ==
  /\ answer.session # 0 => answer.trace = answer.session
  /\ answer.session # 0 =>
       \A i \in DOMAIN command.tokens :
         command.tokens[i].opt \in {"session=", "value"} => answer.session = command.tokens[i].id
=============================================================================
