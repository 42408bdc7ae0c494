------------------------- MODULE ConversationEvents -------------------------
(***************************************************************************)
(* How a controller learns the end of a conversation and its answer: over  *)
(* the agent server's websocket (enterprise_events.py) and by polling the  *)
(* platform's records and its index of events (wait_for_terminal and       *)
(* final_response of openhands.py).  The workers only poll; the probe of   *)
(* experiments/enterprise-workflow-primitives/probe.py watches the socket  *)
(* first, and polls when it has returned.                                  *)
(*                                                                         *)
(* The agent is external.  It answers in steps: it streams deltas, then    *)
(* uses a tool, asks for a confirmation, or says something and stops.  A   *)
(* tool may fail, and a stop hook may resume the agent.  The record and    *)
(* the index converge late, each at its own pace, and the sandbox may be   *)
(* paused or lost meanwhile, which freezes the agent.                      *)
(***************************************************************************)
EXTENDS Integers, SequencesExt

CONSTANTS
    MaxSteps, MaxDeltas,    \* bounds on the agent
    Window,     \* events that a bounded scan of the index returns, the newest ones
    Retries,    \* of final_response
    MaxFaults,  \* bound on failing requests
    None

ASSUME BoundAssumption == {MaxSteps, MaxDeltas, Window, Retries, MaxFaults} \subseteq Nat

VARIABLES
    log,        \* the events of the conversation, as the agent server keeps them
    exec,       \* what the agent is doing; "stopping" until the stop hook has decided
    step,       \* the answer that the agent is working on
    record,     \* execution_status in the app record
    indexed,    \* how many events the index shows
    sandbox,
    ws,         \* the websocket watcher: events received, and the end it saw
    rest,       \* the polling controller
    faults

agentVars == <<log, exec, step>>
vars == <<log, exec, step, record, indexed, sandbox, ws, rest, faults>>

\* TERMINAL_STATUSES.  ("stuck" goes as "error" does.)  The last is no end for ever: a
\* user may confirm.
Ends == {"finished", "error", "stopped", "waiting_for_confirmation"}

ASSUME NoneAssumption == None \notin Ends \union {"running"}

Init ==
    /\ log = << >> /\ exec = "running" /\ step = 1
    /\ record = "running" /\ indexed = 0 /\ sandbox = "RUNNING"
    /\ ws \in [pc : {"off", "skipped"}, received : {0}, status : {None}]
    /\ rest = [pc |-> "poll", status |-> None, recovered |-> FALSE, seen |-> 0,
               events |-> << >>, upto |-> 0, tries |-> 0, text |-> << >>]
    /\ faults = 0

-----------------------------------------------------------------------------
(* The agent and the platform *)

Emits(kind, value) == log' = Append(log, [kind |-> kind, step |-> step, value |-> value])

\* Bounds: what happens when nobody looks any more is not followed, and the record and
\* the index, which may catch up at any pace, begin to when the polling does.  They change
\* before somebody looks at them, and so does the sandbox; the agent of one that is lost
\* later on may as well just stand still.
Attended == ws.pc # "raised" /\ rest.pc \notin {"returned", "raised"}
Polling == ws.pc \in {"returned", "skipped"} /\ rest.pc \notin {"returned", "raised"}

\* The first round of final_response takes the events that came with the end, if any.
Refetches == rest.tries > 0 \/ rest.events = << >>

Agent == sandbox = "RUNNING" /\ Attended /\ UNCHANGED <<record, indexed, sandbox, ws, rest, faults>>

Of(kinds) == {i \in DOMAIN log : log[i].step = step /\ log[i].kind \in kinds}
Said == Of({"message", "finish"}) # {}

Stream ==
    /\ Agent /\ exec = "running" /\ ~Said /\ Cardinality(Of({"delta"})) < MaxDeltas
    /\ Emits("delta", None) /\ UNCHANGED <<exec, step>>

\* The agent goes on when a tool has failed (AgentErrorEvent).  The error events of an
\* agent that does not (ConversationErrorEvent, ErrorEvent) look the same to the readers,
\* and Break follows.
UseTool ==
    /\ Agent /\ exec = "running" /\ ~Said /\ step < MaxSteps
    /\ \E kind \in {"tool", "error"} : Emits(kind, None)
    /\ step' = step + 1 /\ UNCHANGED exec

Ask ==
    /\ Agent /\ exec = "running" /\ ~Said
    /\ Emits("execution_status", "waiting_for_confirmation")
    /\ exec' = "waiting_for_confirmation" /\ UNCHANGED step

Say ==
    /\ Agent /\ exec = "running" /\ ~Said
    /\ \E kind \in {"message", "finish"} : Emits(kind, None)
    /\ UNCHANGED <<exec, step>>

\* A conversation whose answer is in its deltas only has been observed (final_response).
Stop ==
    /\ Agent /\ exec = "running" /\ Of({"message", "finish", "delta"}) # {}
    /\ Emits("execution_status", "finished") /\ exec' = "stopping" /\ UNCHANGED step

\* A stop hook does not let the agent stop, or the user confirms.
Resume ==
    /\ Agent /\ exec \in {"stopping", "waiting_for_confirmation"} /\ step < MaxSteps
    /\ Emits("execution_status", "running") /\ exec' = "running" /\ step' = step + 1

HookAllows ==
    /\ Agent /\ exec = "stopping"
    /\ Emits("full_state", "finished") /\ exec' = "finished" /\ UNCHANGED step

Break ==
    /\ Agent /\ exec = "running"
    /\ \E s \in {"error", "stopped"} : Emits("execution_status", s) /\ exec' = s
    /\ UNCHANGED step

RecordConverges ==
    /\ Polling /\ rest.pc = "poll" /\ exec # "stopping" /\ record # exec /\ record' = exec
    /\ UNCHANGED <<agentVars, indexed, sandbox, ws, rest, faults>>

Index ==
    /\ Polling /\ (rest.pc = "answer" => Refetches)
    /\ indexed < Len(log) /\ indexed' = indexed + 1
    /\ UNCHANGED <<agentVars, record, sandbox, ws, rest, faults>>

LeaveSandbox ==
    /\ Attended /\ rest.pc = "poll" /\ sandbox = "RUNNING" /\ sandbox' \in {"PAUSED", "MISSING"}
    /\ UNCHANGED <<agentVars, record, indexed, ws, rest, faults>>

Fault == faults < MaxFaults /\ faults' = faults + 1

-----------------------------------------------------------------------------
(* The websocket *)

\* A slip: any end is believed.
AnyEnd(e) == e.kind \in {"execution_status", "full_state"} /\ e.value \in {"finished", "error"}

\* terminal_signal returns a confirmed end.  "stopped" and "waiting_for_confirmation" are
\* not among the ends it knows, and it looks at no error event.
Confirmed(e) ==
    \/ e.kind = "full_state" /\ e.value \in {"finished", "error"}
    \/ e.kind = "execution_status" /\ e.value = "error"

\* resend_mode=all
Replayed == 0

Socket == UNCHANGED <<agentVars, record, indexed, sandbox, rest>>

Connect ==
    /\ ws.pc = "off"
    /\ ws' = [ws EXCEPT !.pc = "open", !.received = Replayed]
    /\ Socket /\ UNCHANGED faults

Receive ==
    /\ ws.pc = "open" /\ ws.received < Len(log)
    /\ LET e == log[ws.received + 1]
       IN  ws' = IF Confirmed(e)
                 THEN [pc |-> "returned", received |-> ws.received + 1, status |-> e.value]
                 ELSE [ws EXCEPT !.received = @ + 1]
    /\ Socket /\ UNCHANGED faults

\* The socket closes before a terminal state, or asyncio.wait_for gives up.
SocketFails ==
    /\ ws.pc \in {"off", "open"}
    /\ ws' = [ws EXCEPT !.pc = "raised"]
    /\ Socket /\ UNCHANGED faults

-----------------------------------------------------------------------------
(* Reading events *)

\* fetch_events, newest first and two pages at most, in the order of the log again.
Fetched == SubSeq(log, Max({1, indexed - Window + 1}), indexed)

LastOf(events, kinds) == Max({0} \union {i \in DOMAIN events : events[i].kind \in kinds})

\* latest_agent_text: a FinishAction goes before any message.  A text is the sequence of
\* events that it is made of.
AgentText(events) ==
    LET finish == LastOf(events, {"finish"})
        i == IF finish > 0 THEN finish ELSE LastOf(events, {"message"})
    IN  IF i > 0 THEN <<events[i]>> ELSE << >>

\* A slip: the deltas of the whole conversation.
AllDeltas(events) == SelectSeq(events, LAMBDA e : e.kind = "delta")

\* streaming_agent_text: the last deltas that nothing interrupts.
StreamedText(events) ==
    LET last == LastOf(events, {"delta"})
        before == LastOf(SubSeq(events, 1, last), {e.kind : e \in ToSet(events)} \ {"delta"})
    IN  SubSeq(events, before + 1, last)

Text(events) ==
    IF AgentText(events) # << >> THEN AgentText(events) ELSE StreamedText(events)

\* What terminal_status_from_events makes of one event: a FinishAction, an error event of
\* any kind, or a state with its value (other events have none).
EndOf(e) ==
    IF e.kind = "finish" THEN "finished" ELSE IF e.kind = "error" THEN "error" ELSE e.value

TellsEnd(e) == EndOf(e) \in Ends

\* A slip: the first such event decides.
FirstEnd(events) ==
    LET signals == {i \in DOMAIN events : TellsEnd(events[i])}
    IN  IF signals = {} THEN None ELSE EndOf(events[Min(signals)])

\* terminal_status_from_events: the last such event decides, whatever comes after it.
EndFromEvents(events) ==
    LET signals == {i \in DOMAIN events : TellsEnd(events[i])}
    IN  IF signals = {} THEN None ELSE EndOf(events[Max(signals)])

-----------------------------------------------------------------------------
(* Polling: wait_for_terminal, then final_response *)

Rest == UNCHANGED <<agentVars, record, indexed, sandbox, ws>>

\* A slip: the events are not asked.
NeverScans == FALSE

ScanDue == sandbox \in {"PAUSED", "MISSING"}

\* get_conversation; otherwise the loop sleeps and polls again.
Poll ==
    /\ rest.pc = "poll" /\ Polling
    /\ \/ record \in Ends /\ rest' = [rest EXCEPT !.pc = "fetch", !.status = record]
       \/ /\ record \notin Ends /\ ScanDue
          /\ rest' = [rest EXCEPT !.pc = IF sandbox = "MISSING" THEN "last" ELSE "scan"]
    /\ Rest /\ UNCHANGED faults

\* A terminal record: the events come along.
Fetch ==
    /\ rest.pc = "fetch"
    /\ rest' = [rest EXCEPT !.pc = "answer", !.events = Fetched, !.upto = indexed]
    /\ Rest /\ UNCHANGED faults

\* The sandbox does not run: its events may tell the end.  "last" if it never will again.
Scan ==
    /\ rest.pc \in {"scan", "last"}
    /\ LET end == EndFromEvents(Fetched) IN
       rest' = IF end # None
               THEN [rest EXCEPT !.pc = "answer", !.status = end, !.recovered = TRUE,
                                 !.seen = indexed, !.events = Fetched, !.upto = indexed]
               ELSE [rest EXCEPT !.pc = IF rest.pc = "last" THEN "raised" ELSE "poll"]
    /\ Rest /\ UNCHANGED faults

\* A request fails: the loop goes on if the error is transient, which changes nothing for
\* the poll itself.
RequestFails ==
    /\ rest.pc \in {"poll", "fetch", "scan", "last"} /\ Polling
    /\ \/ rest' = [rest EXCEPT !.pc = "raised", !.status = None] /\ UNCHANGED faults
       \/ /\ rest.pc # "poll" /\ Fault
          /\ rest' = [rest EXCEPT !.pc = "poll", !.status = None]
    /\ Rest

\* The deadline is looked at before each poll.
RestTimesOut ==
    /\ rest.pc = "poll" /\ Polling
    /\ rest' = [rest EXCEPT !.pc = "raised"]
    /\ Rest /\ UNCHANGED faults

\* A round of final_response; an answer may be empty in the end.
ReadAnswer ==
    /\ rest.pc = "answer"
    /\ LET events == IF Refetches THEN Fetched ELSE rest.events
           done == Text(events) # << >> \/ rest.tries = Retries
       IN  rest' = [rest EXCEPT !.pc = IF done THEN "returned" ELSE "answer",
                                !.events = IF done THEN << >> ELSE events,
                                !.upto = IF Refetches THEN indexed ELSE @,
                                !.tries = IF done THEN @ ELSE @ + 1,
                                !.text = Text(events)]
    /\ Rest /\ UNCHANGED faults

AnswerFails ==
    /\ rest.pc = "answer" /\ Refetches
    /\ \/ rest.tries < Retries /\ Fault /\ rest' = [rest EXCEPT !.tries = @ + 1]
       \/ rest' = [rest EXCEPT !.pc = "raised"] /\ UNCHANGED faults
    /\ Rest

-----------------------------------------------------------------------------
(* The specification *)

Conversation == Stream \/ UseTool \/ Ask \/ Say \/ Stop \/ Resume \/ HookAllows \/ Break
Platform == RecordConverges \/ Index \/ LeaveSandbox
Watcher == Connect \/ Receive
Controller == Poll \/ Fetch \/ Scan \/ ReadAnswer
Failures == SocketFails \/ RequestFails \/ RestTimesOut \/ AnswerFails

Next == Conversation \/ Platform \/ Watcher \/ Controller \/ Failures

Spec == Init /\ [][Next]_vars

\* Both observers go on; the index catches up in the end, but the record need not, nor
\* need the agent do anything.  No deadline is relied on.
FairSpec == Spec /\ WF_vars(Watcher) /\ WF_vars(Controller) /\ WF_vars(Index)

-----------------------------------------------------------------------------
(* Properties *)

\* docs/enterprise-workflow-primitives.md:75-77: what the websocket watcher returns is the
\* end of the conversation, and no stop hook takes it back.
ConfirmedIsFinal == ws.pc = "returned" => exec = ws.status

Resumed == \E i \in DOMAIN log : log[i].value = "running"

ToolFailed == \E i \in DOMAIN log : log[i].kind = "error"

\* openhands.py:302-328, 801-822: the status of a record is the end, unless the user has
\* confirmed since.  One that is recovered from the events of a dead sandbox is the end
\* too, or else the answer had been given, or a tool had failed and the agent gone on (any
\* error event decides the scan), or a stop hook or the user had resumed the agent (a
\* later "running" takes nothing back), or the index lagged when it was scanned.
RestStatusIsTrue ==
    rest.pc \in {"answer", "returned"} =>
        \/ rest.status = exec
        \/ rest.status = "waiting_for_confirmation" /\ Resumed
        \/ /\ rest.recovered
           /\ \/ /\ rest.status = "finished"
                 /\ exec = "stopping" \/ (exec = "running" /\ Said)
              \/ rest.status = "error" /\ exec = "running" /\ ToolFailed
              \/ Resumed \/ rest.seen < Len(log)

\* docs/enterprise-workflow-primitives.md:72-73 "events emitted between creation and
\* connection are replayed", :82-89 "REST reconciliation": no deadline is needed to find an
\* end that came before anybody looked, although the sandbox is paused and its record
\* never converges; but the socket does not tell that somebody stopped the conversation or
\* is asked to confirm.
EndIsFound ==
    /\ exec \in Ends /\ sandbox = "PAUSED"
    /\ exec \in {"stopped", "waiting_for_confirmation"} => Polling
    ~> ws.pc = "raised" \/ rest.pc \in {"returned", "raised"}

\* What a controller takes for the answer belongs to one step and is not cut short.
Whole(text) ==
    \/ text[1].kind # "delta"
    \/ ToSet(text) = {[kind |-> "delta", step |-> text[1].step, value |-> None]}
       /\ Len(text) = Cardinality({i \in DOMAIN log :
                                      log[i].kind = "delta" /\ log[i].step = text[1].step})

\* openhands.py:248-299, 832-872: once the index has caught up, a finished conversation's
\* answer is its last one and is whole; but a FinishAction from before a stop hook is
\* preferred, and so is a message to an answer that is in its deltas only.  (A scan of an
\* index that lags may end inside a stream, and Window is longer than a stream with what
\* follows it.)
AnswerIsLastAndWhole ==
    /\ rest.pc = "returned" /\ rest.text # << >> /\ rest.upto = Len(log)
    /\ exec = "finished" /\ rest.status = "finished"
    => /\ Whole(rest.text)
       /\ \/ rest.text[1].step = step
          \/ /\ Resumed
             /\ \/ rest.text[1].kind = "finish"
                \/ rest.text[1].kind = "message" /\ ~Said
=============================================================================
