------------------------------ MODULE UserBash ------------------------------
(***************************************************************************)
(* Telemetry of the commands a user runs with ! and !!                     *)
(* (src/pi/event-handlers/tool-bash.ts): user_bash tells that one begins,  *)
(* and its result is found by polling the session's entries, for the event *)
(* carries no identifier.  At most one command is followed at a time.      *)
(*                                                                         *)
(* Handlers and polls are synchronous, hence one action each.  Pi runs     *)
(* commands concurrently and appends their results in any order.           *)
(***************************************************************************)
EXTENDS Naturals, Sequences, FiniteSets

CONSTANTS
  Command,     \* the commands of a session
  NoCommand,   \* no command
  Channel      \* how the host reports results: "entry", "message_end"

VARIABLES
  running,     \* commands Pi has begun and not finished
  entries,     \* their bashExecution entries, as SessionManager.getEntries()
  pending,     \* session.pendingUserBash: the command that is followed
  cursor,      \* its nextSessionEntryIndex
  timers,      \* commands for which a poll timer is armed
  span,        \* the span begun for a command
  matched,     \* history: the result a command's span was ended with
  counted,     \* observme_bash_executions, by the result counted
  overlapped,  \* history: commands that ran beside another one
  session      \* "open", "ending" once the teardown has ended the open spans,
               \* "closed" when the handlers' session is gone

vars == <<running, entries, pending, cursor, timers, span, matched, counted,
          overlapped, session>>

pi == <<running, entries>>

\* The model's state is well typed.
TypeOK ==
  /\ running \subseteq Command
  /\ entries \in Seq(Command)
  /\ pending \in Command \cup {NoCommand}
  /\ cursor \in 0 .. Len(entries)
  /\ timers \subseteq Command
  /\ span \in [Command -> {"none", "open", "completed", "incomplete"}]
  /\ matched \in [Command -> Command \cup {NoCommand}]
  /\ counted \in [Command -> Nat]
  /\ overlapped \subseteq Command
  /\ session \in {"open", "ending", "closed"}

Init ==
  /\ running = {}
  /\ entries = <<>>
  /\ pending = NoCommand
  /\ cursor = 0
  /\ timers = {}
  /\ span = [b \in Command |-> "none"]
  /\ matched = [b \in Command |-> NoCommand]
  /\ counted = [b \in Command |-> 0]
  /\ overlapped = {}
  /\ session = "open"

Finished == {entries[i] : i \in DOMAIN entries}
\* Commands begin once: they stand for executions.
Fresh(b) == b \notin running \cup Finished /\ span[b] = "none" /\ counted[b] = 0

-----------------------------------------------------------------------------
(* Ending what is followed                                                 *)

\* closePendingUserBashOperation: the span ends as incomplete.
ClosePending ==
  /\ pending' = NoCommand
  /\ timers' = timers \ {pending}
  /\ span' = [span EXCEPT ![pending] = "incomplete"]

\* recordBashExecution: the result of command b goes to the span that is
\* followed, or to one of its own that starts and ends at once.
RecordBashExecution(b) ==
  /\ counted' = [counted EXCEPT ![b] = @ + 1]
  /\ IF pending = NoCommand
     THEN UNCHANGED <<pending, span, matched>>
     ELSE /\ span' = [span EXCEPT ![pending] = "completed"]
          /\ matched' = [matched EXCEPT ![pending] = b]
          /\ pending' = NoCommand

-----------------------------------------------------------------------------
(* user_bash                                                               *)

\* Fault: the entries are searched from the first one.
Follow_FromFirstEntry(b) ==
  /\ pending' = b
  /\ span' = [span EXCEPT ![b] = "open"]
  /\ cursor' = 0
  /\ timers' = timers \cup {b}

\* The entries present now belong to others; without a reader, or when it
\* throws, there is nothing to poll.
Follow(b) ==
  \/ /\ pending' = b
     /\ span' = [span EXCEPT ![b] = "open"]
     /\ \/ cursor' = Len(entries) /\ timers' = timers \cup {b}
        \/ UNCHANGED <<cursor, timers>>
  \/ /\ span' = [span EXCEPT ![b] = "incomplete"]
     /\ UNCHANGED <<pending, cursor, timers>>

\* startPendingUserBashOperation: of two commands at once neither is followed.
UserBash(b) ==
  /\ session # "closed"
  /\ Fresh(b)
  /\ running' = running \cup {b}
  /\ overlapped' = IF running = {} THEN overlapped ELSE overlapped \cup running'
  /\ \/ /\ pending # NoCommand
        /\ ClosePending
        /\ UNCHANGED cursor
     \/ /\ pending = NoCommand
        /\ Follow(b)
  /\ UNCHANGED <<entries, matched, counted, session>>

\* Pi appends the result of a command.
RecordEntry(b) ==
  /\ "entry" \in Channel
  /\ b \in running
  /\ running' = running \ {b}
  /\ entries' = Append(entries, b)
  /\ UNCHANGED <<pending, cursor, timers, span, matched, counted, overlapped,
                 session>>

\* A host that reports a result by message_end does not append it as well.
MessageEnd(b) ==
  /\ "message_end" \in Channel
  /\ session # "closed"
  /\ b \in running
  /\ running' = running \ {b}
  /\ RecordBashExecution(b)
  /\ timers' = timers \ {pending}
  /\ UNCHANGED <<entries, cursor, overlapped, session>>

\* Fault: a poll that finds nothing does not arm the timer again.
Poll_Once(b) ==
  /\ b \in timers
  /\ timers' = timers \ {b}
  /\ IF pending = b /\ cursor < Len(entries)
     THEN cursor' = Len(entries) /\ RecordBashExecution(entries[cursor + 1])
     ELSE UNCHANGED <<pending, cursor, span, matched, counted>>
  /\ UNCHANGED <<pi, overlapped, session>>

\* pollPendingUserBashCompletion: the first new result is taken, the others
\* are skipped; without one the timer is armed again.
Poll(b) ==
  /\ b \in timers
  /\ \/ /\ pending # b
        /\ timers' = timers \ {b}
        /\ UNCHANGED <<pending, cursor, span, matched, counted>>
     \/ /\ pending = b /\ cursor < Len(entries)
        /\ cursor' = Len(entries)
        /\ timers' = timers \ {b}
        /\ RecordBashExecution(entries[cursor + 1])
  /\ UNCHANGED <<pi, overlapped, session>>

\* getEntries() throws in a poll.
PollFails(b) ==
  /\ b \in timers
  /\ pending = b
  /\ ClosePending
  /\ UNCHANGED <<pi, cursor, matched, counted, overlapped, session>>

\* endAllActiveSpans.  The teardown goes on to flush, and the handlers still
\* find the session.
EndAllActiveSpans ==
  /\ session = "open"
  /\ session' = "ending"
  /\ IF pending = NoCommand THEN UNCHANGED <<pending, timers, span>>
                            ELSE ClosePending
  /\ UNCHANGED <<pi, cursor, matched, counted, overlapped>>

\* clearTelemetrySessionRuntimeState
ClearSession ==
  /\ session = "ending"
  /\ session' = "closed"
  /\ UNCHANGED <<pi, pending, cursor, timers, span, matched, counted, overlapped>>

-----------------------------------------------------------------------------
Next ==
  \/ \E b \in Command :
       \/ UserBash(b) \/ RecordEntry(b) \/ MessageEnd(b)
       \/ Poll(b) \/ PollFails(b)
  \/ EndAllActiveSpans
  \/ ClearSession

Spec == Init /\ [][Next]_vars

\* An armed timer fires.
FairSpec == Spec /\ \A b \in Command : WF_vars(Poll(b))

-----------------------------------------------------------------------------
(* Properties                                                              *)

\* No span leaks: the one that is open is the one that is followed, through
\* overlaps, failing readers and the teardown.
OpenIsFollowed == {b \in Command : span[b] = "open"} = {pending} \ {NoCommand}

\* No result is counted twice, whichever command's poll finds it.
ResultCountedOnce == \A b \in Command : counted[b] <= 1

\* A command that ran alone is never given the result of another one.
AloneGetsItsOwn ==
  \A b \in Command \ overlapped : matched[b] \in {NoCommand, b}

\* Telemetry of the commands: one span at a time, one result each, its own when
\* it ran alone.
CommandsAreAccounted == TypeOK /\ OpenIsFollowed /\ ResultCountedOnce /\ AloneGetsItsOwn

\* The span of a command that is polled ends, unless the command runs forever.
ResultIsFound ==
  \A b \in Command :
    b \in timers ~> (span[b] # "open" \/ [](b \in running))

\* docs/reference/03-pi-event-and-session-model.md: overlapping pre-events
\* evict the pending span rather than risking a wrong match.
NoWrongMatch == \A b \in Command : matched[b] \in {NoCommand, b}
=============================================================================
