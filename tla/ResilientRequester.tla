------------------------- MODULE ResilientRequester -------------------------
(***************************************************************************)
(* Retries of openhands.py.  A request meets a script of replies, one per  *)
(* time it is sent.  A reply has                                           *)
(*   kind     ok, a failing status, "network" (URLError) or "timeout"      *)
(*   done     whether the server did the work, which the client cannot see *)
(*   quotes   statuses that the text of the error mentions besides its own *)
(* Errors are told apart by looking for a status anywhere in their text.   *)
(***************************************************************************)
EXTENDS Naturals, FiniteSetsExt

CONSTANT MaxRetries

ASSUME RetriesAssumption == MaxRetries \in Nat

Kinds == {"ok", "429", "bearer", "401", "5xx", "4xx", "network", "timeout"}

\* Replies that tell that the request was turned down.
Refusals == {"429", "bearer", "401", "4xx"}

\* The text of an OpenHandsAPIError mentions status s.
Mentions(reply, s) ==
    reply.kind \notin {"ok", "timeout"} /\ (reply.kind = s \/ s \in reply.quotes)

\* The category under which an error is counted, or "none" if it is raised at once.
Category(reply) ==
    IF reply.kind = "timeout" THEN "transport"
    ELSE IF Mentions(reply, "429") THEN "rate_limit"
    ELSE IF Mentions(reply, "bearer") THEN "transient_auth"
    ELSE IF Mentions(reply, "5xx") THEN "server"
    ELSE IF Mentions(reply, "network") THEN "transport"
    ELSE "none"

\* A slip: whatever is counted is retried.
RetryAll(method, category) == category # "none"

Retryable(method, category) ==
    \/ category \in {"rate_limit", "transient_auth"}
    \/ category \in {"server", "transport"} /\ method = "GET"

\* The rounds of the loop in __call__ that end it: the retries are used up, the reply is
\* good, or its error is raised at once.
Stops(method, script) ==
    {n \in 1..(MaxRetries + 1) : \/ n = MaxRetries + 1
                                 \/ script[n].kind = "ok"
                                 \/ ~Retryable(method, Category(script[n]))}

\* __call__: how often the request is sent, and whether it raises.
Send(method, script) ==
    LET sent == Min(Stops(method, script))
    IN  [sent |-> sent, raises |-> script[sent].kind # "ok"]
=============================================================================
