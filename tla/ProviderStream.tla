--------------------------- MODULE ProviderStream ---------------------------
(***************************************************************************)
(* One streaming request to a provider: the request attempts with their    *)
(* header timer, the retries of header timeouts and overload rejections,   *)
(* and the stream that reconnects when its connection drops before the     *)
(* caller has seen any output.  Every attempt has a number; the events of  *)
(* an attempt carry it, so that output of two attempts can be told apart.  *)
(***************************************************************************)
EXTENDS Naturals, Sequences, SequencesExt

CONSTANTS
    StreamRetries,    \* streamMaxRetries
    OverloadRetries,  \* overloadMaxRetries
    MaxTimeouts,      \* bound on the header timeouts, which are retried for ever
    MaxEvents         \* bound on the events of one attempt

Bookkeeping == {"usage", "router"}
Kinds == Bookkeeping \cup {"text", "overload"}
Event == [kind : Kinds, attempt : Nat, n : Nat]

VARIABLES
    ctx,        \* the caller's context: "live" or "done"
    phase,      \* "connecting", "answered", "backoff", "open", "error", "closed"
    why,        \* what the backoff is for: "start", "timeout", "overload" or "dropped"
    attempt,    \* number of the request attempt
    timeouts,   \* number of header timeouts so far
    timer,      \* the header timer: "armed", "expired", "fired" or "stopped"
    answer,     \* what client.Do returned: "none", "ok", "overload", "refused", "broken"
    bodies,     \* attempts whose response body is open
    read,       \* events of the attempt that retryStream has read
    emitted,    \* retryStream.outputEmitted
    buffered,   \* retryStream.buffered
    queued,     \* retryStream.queued
    remaining,  \* retryStream.remaining
    taken,      \* overloadRetryBudget.attempts
    ended,      \* the stream ended cleanly while it could be told from a drop
    delivered   \* events the caller has received

request == <<attempt, timeouts, timer, answer>>
stream == <<read, emitted, buffered, queued, remaining, ended, delivered>>
vars == <<ctx, phase, why, request, bodies, stream, taken>>

Init ==
    /\ ctx = "live" /\ phase = "backoff" /\ why = "start"
    /\ attempt = 0 /\ timeouts = 0 /\ timer = "stopped" /\ answer = "none"
    /\ bodies = {} /\ read = << >> /\ emitted = FALSE
    /\ buffered = << >> /\ queued = << >> /\ delivered = << >>
    /\ remaining = StreamRetries /\ taken = 0 /\ ended = FALSE

Cancel ==
    /\ ctx = "live" /\ ctx' = "done"
    /\ UNCHANGED <<phase, why, request, bodies, stream, taken>>

Fail == phase' = "error" /\ UNCHANGED why

-----------------------------------------------------------------------------
(* A request attempt.                                                      *)

\* The delay is over, or this is the first attempt: the header timer starts and
\* the request is sent.  A context that ends cuts the delay short.
Request ==
    /\ phase = "backoff"
    /\ phase' = "connecting" /\ attempt' = attempt + 1
    /\ timer' = "armed" /\ answer' = "none"
    /\ UNCHANGED <<ctx, why, timeouts, bodies, stream, taken>>

StopWaiting ==
    /\ phase = "backoff" /\ why # "start" /\ ctx = "done" /\ Fail
    /\ UNCHANGED <<ctx, request, bodies, stream, taken>>

\* Once expired, the timer cannot be stopped; its function cancels the context
\* of the request and everything that reads from it.
Expire ==
    /\ timer = "armed" /\ timer' = "expired"
    /\ UNCHANGED <<ctx, phase, why, attempt, timeouts, answer, bodies, stream, taken>>

Fire ==
    /\ timer = "expired" /\ timer' = "fired"
    /\ UNCHANGED <<ctx, phase, why, attempt, timeouts, answer, bodies, stream, taken>>

\* client.Do returns the answer's headers, or an error: the connection broke, or
\* the request's context has ended.
Answer ==
    /\ phase = "connecting" /\ phase' = "answered"
    /\ answer' \in {"ok", "overload", "refused", "broken"}
    /\ bodies' = IF answer' = "broken" THEN bodies ELSE bodies \cup {attempt}
    /\ UNCHANGED <<ctx, why, attempt, timeouts, timer, stream, taken>>

Discard == bodies' = bodies \ {attempt}
TakeOverload == taken < OverloadRetries /\ taken' = taken + 1

\* Waits for the timer's function when the timer cannot be stopped any more.
StoppedTimer_NoWait == TRUE
StoppedTimer == timer # "expired"

\* The context of the caller decides first, then the timer, then the answer.
Classify ==
    /\ phase = "answered" /\ StoppedTimer
    /\ timer' = IF timer = "armed" THEN "stopped" ELSE timer
    /\ CASE ctx = "done" -> Fail /\ Discard /\ UNCHANGED <<timeouts, read, taken>>
         [] ctx = "live" /\ timer = "fired" ->
               /\ timeouts < MaxTimeouts /\ timeouts' = timeouts + 1
               /\ phase' = "backoff" /\ why' = "timeout"
               /\ Discard /\ UNCHANGED <<read, taken>>
         [] ctx = "live" /\ timer # "fired" /\ answer = "ok" ->
               /\ phase' = "open" /\ read' = << >>
               /\ UNCHANGED <<why, timeouts, bodies, taken>>
         [] ctx = "live" /\ timer # "fired" /\ answer = "overload" ->
               /\ Discard /\ UNCHANGED <<timeouts, read>>
               /\ IF taken < OverloadRetries
                  THEN TakeOverload /\ phase' = "backoff" /\ why' = "overload"
                  ELSE Fail /\ UNCHANGED taken
         [] OTHER -> Fail /\ Discard /\ UNCHANGED <<timeouts, read, taken>>
    /\ UNCHANGED <<ctx, attempt, answer, emitted, buffered, queued, remaining, ended,
                   delivered>>

-----------------------------------------------------------------------------
(* retryStream.Next.                                                       *)

\* Only the latest event of a type is kept, at the place of the first.
Buffer(s, e) ==
    IF \E i \in DOMAIN s : s[i].kind = e.kind
    THEN [i \in DOMAIN s |-> IF s[i].kind = e.kind THEN e ELSE s[i]]
    ELSE Append(s, e)

Dequeue ==
    /\ phase = "open" /\ queued # << >>
    /\ delivered' = Append(delivered, Head(queued)) /\ queued' = Tail(queued)
    /\ UNCHANGED <<ctx, phase, why, request, bodies, read, emitted, buffered, remaining,
                   ended, taken>>

Reading == phase = "open" /\ queued = << >> /\ ~ended /\ attempt \in bodies

\* The old connection is closed before the delay.
Reconnect(reason) ==
    /\ phase' = "backoff" /\ why' = reason
    /\ Discard /\ buffered' = << >>

Read ==
    /\ Reading /\ Len(read) < MaxEvents
    /\ \E kind \in Kinds :
          LET e == [kind |-> kind, attempt |-> attempt, n |-> Len(read) + 1] IN
          /\ read' = Append(read, e)
          /\ \/ /\ ~emitted /\ kind \in Bookkeeping
                /\ buffered' = Buffer(buffered, e)
                /\ UNCHANGED <<phase, why, bodies, emitted, queued, delivered, taken>>
             \/ /\ ~emitted /\ kind = "overload" /\ TakeOverload /\ Reconnect("overload")
                /\ UNCHANGED <<emitted, queued, delivered>>
             \/ /\ \/ emitted \/ kind = "text"
                   \/ kind = "overload" /\ taken = OverloadRetries
                /\ emitted' = TRUE /\ buffered' = << >>
                /\ queued' = IF buffered = << >> THEN << >> ELSE Append(buffered, e)
                /\ delivered' = IF buffered = << >> THEN Append(delivered, e) ELSE delivered
                /\ UNCHANGED <<phase, why, bodies, taken>>
    /\ UNCHANGED <<ctx, request, remaining, ended>>

CanReconnect == ~emitted /\ remaining > 0 /\ ctx = "live"

\* The connection drops, its context is cancelled, or the parser rejects what it
\* read.
Drop ==
    /\ Reading
    /\ \/ /\ CanReconnect /\ remaining' = remaining - 1
          /\ Reconnect("dropped")
       \/ /\ ~CanReconnect /\ Fail
          /\ UNCHANGED <<bodies, buffered, remaining>>
    /\ UNCHANGED <<ctx, request, read, emitted, queued, ended, delivered, taken>>

\* A clean end before any output hands out the bookkeeping; when no reconnect is
\* left, or the context has ended, the bookkeeping is lost with it.
End ==
    /\ Reading
    /\ IF CanReconnect /\ buffered # << >>
       THEN /\ queued' = buffered /\ buffered' = << >> /\ ended' = TRUE
            /\ UNCHANGED <<phase, why>>
       ELSE Fail /\ UNCHANGED <<buffered, queued, ended>>
    /\ UNCHANGED <<ctx, request, bodies, read, emitted, remaining, delivered, taken>>

\* The bookkeeping of an empty response has been handed out: the next read ends.
EndAgain ==
    /\ phase = "open" /\ queued = << >> /\ ended /\ Fail
    /\ UNCHANGED <<ctx, request, bodies, stream, taken>>

\* The caller closes the stream it was given, whatever Next returned.
Close ==
    /\ phase \in {"open", "error"} /\ phase' = "closed"
    /\ Discard
    /\ UNCHANGED <<ctx, why, request, stream, taken>>

Next ==
    \/ Cancel \/ Request \/ StopWaiting \/ Expire \/ Fire \/ Answer \/ Classify
    \/ Dequeue \/ Read \/ Drop \/ End \/ EndAgain \/ Close

Spec == Init /\ [][Next]_vars

-----------------------------------------------------------------------------
TypeOK ==
    /\ ctx \in {"live", "done"}
    /\ phase \in {"connecting", "answered", "backoff", "open", "error", "closed"}
    /\ timer \in {"armed", "expired", "fired", "stopped"}
    /\ answer \in {"none", "ok", "overload", "refused", "broken"}
    /\ bodies \subseteq 1..attempt
    /\ read \in Seq(Event) /\ delivered \in Seq(Event)
    /\ remaining \in 0..StreamRetries /\ taken \in 0..OverloadRetries

\* What the caller is owed of the events read: nothing before the first output;
\* from then on the latest bookkeeping of each type, the output, and all the rest.
Owed(s) ==
    LET output == {i \in DOMAIN s : s[i].kind \notin Bookkeeping}
        first == CHOOSE i \in output : \A j \in output : i <= j
        kept(n) == FoldLeft(Buffer, << >>, SubSeq(s, 1, n))
    IN IF output # {} THEN kept(first - 1) \o SubSeq(s, first, Len(s))
       ELSE IF ended THEN kept(Len(s)) ELSE << >>

\* "A retry cannot duplicate output": what the caller received is what one attempt
\* sent, complete and in order.
OneAttempt == phase = "open" => delivered \o queued = Owed(read)

\* The header timer never cuts a stream that was handed out.
NotCut == phase = "open" => timer = "stopped"

\* Only the connection of the current attempt is open, and none is while the next
\* one is awaited or after the caller has closed the stream.
OneBody ==
    /\ bodies \subseteq {attempt}
    /\ phase \in {"backoff", "connecting", "closed"} => bodies = {}

\* The caller's stream is the stream of one whole attempt (retryStream.Next,
\* startStream).
StreamIsWhole == OneAttempt /\ NotCut /\ OneBody
=============================================================================
