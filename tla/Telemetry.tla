------------------------------- MODULE Telemetry -------------------------------
(***************************************************************************)
(* What requests leave with the telemetry pipeline, on the exporting path: *)
(* a span each, and the error events of one that fails.  Two providers     *)
(* hold them in bounded queues, a thread of each exports what is queued,   *)
(* the panic hook flushes both from whatever thread panics, and main's     *)
(* guard shuts them down one after the other while requests may still run. *)
(***************************************************************************)
EXTENDS Naturals, FiniteSets

CONSTANTS Requests,      \* requests of the run
          QueueSize,     \* records a provider's queue holds
          MaxUserAgent,  \* MAX_USER_AGENT_LEN
          MaxBytes       \* bound: length of the strings truncate is checked on

ASSUME TelemetryAssumption ==
  IsFiniteSet(Requests) /\ {QueueSize, MaxUserAgent, MaxBytes} \subseteq Nat

VARIABLES
  step,        \* per request, how far it is
  rec,         \* per request and kind, what became of the record
  gaveUp,      \* per request, whether its panic's flush of the logs was not waited for
  provider,    \* "live" or "shutdown"
  complained,  \* providers whose shutdown failed, as printed
  main         \* "serving", "halfDown" (one provider down), "down", "exited"

vars == <<step, rec, gaveUp, provider, complained, main>>

-----------------------------------------------------------------------------
(* The user agent a span records: a string by its length in bytes and by where its  *)
(* characters begin and end, each of them one to four bytes long                    *)

Strings == {s \in [bytes : 0..MaxBytes, cuts : SUBSET (0..MaxBytes)] :
              /\ {0, s.bytes} \subseteq s.cuts /\ s.cuts \subseteq 0..s.bytes
              /\ \A i \in 0..s.bytes : i < s.bytes => \E cut \in s.cuts : i < cut /\ cut <= i + 4}

\* Slip: the cut is not moved back to a boundary.
TruncateBlindly(s, max) == IF s.bytes <= max THEN s.bytes ELSE max

\* truncate, by the length it leaves; a string's cuts are its is_char_boundary.
Truncate(s, max) ==
  LET end[i \in 0..max] == IF i \in s.cuts THEN i ELSE end[i - 1]
  IN  IF s.bytes <= max THEN s.bytes ELSE end[max]

-----------------------------------------------------------------------------
(* Records *)

\* The request's span; the hook's event, the catching layer's, and the trace layer's
\* on a 5xx.  Its other events are DEBUG, which otel_filter leaves out.
Logs  == {"panicked", "caught", "failed"}
Kinds == {"span"} \union Logs
Providers == {"tracer", "logger"}
Provider(kind) == IF kind = "span" THEN "tracer" ELSE "logger"

Held(p, states) == {r \in Requests \X Kinds : Provider(r[2]) = p /\ rec[r[1]][r[2]] \in states}

Full(p) == Cardinality(Held(p, {"queued"})) >= QueueSize

\* What a provider does with a record it is handed.
Fate(kind) ==
  LET p == Provider(kind) IN
  CASE provider[p] = "shutdown"           -> "late"
    [] provider[p] = "live" /\ Full(p)    -> "dropped"
    [] provider[p] = "live" /\ ~Full(p)   -> "queued"

Emit(r, kind) == rec' = [rec EXCEPT ![r][kind] = Fate(kind)]

\* All of a provider's records in some states move on.
Move(p, from, to) ==
  rec' = [r \in Requests |-> [kind \in Kinds |->
            IF Provider(kind) = p /\ rec[r][kind] \in from THEN to ELSE rec[r][kind]]]

Alive == main # "exited"

-----------------------------------------------------------------------------
(* The processors' threads *)

\* A batch is handed to the exporter, and the collector takes it or does not in time.
TakeBatch(p) ==
  /\ Alive /\ Held(p, {"queued"}) # {} /\ Held(p, {"sending"}) = {}
  /\ Move(p, {"queued"}, "sending")
  /\ UNCHANGED <<step, gaveUp, provider, complained, main>>

FinishBatch(p) ==
  /\ Alive /\ Held(p, {"sending"}) # {}
  /\ \E outcome \in {"exported", "refused"} : Move(p, {"sending"}, outcome)
  /\ UNCHANGED <<step, gaveUp, provider, complained, main>>

\* Slip: what the collector refused is sent again with the next flush.
FlushResending(p) ==
  /\ provider[p] = "live"
  /\ Held(p, {"sending"}) = {}
  /\ \E outcome \in {"exported", "refused"} : Move(p, {"queued", "refused"}, outcome)

\* force_flush and shutdown: the same thread, after the batch it may be sending.  A
\* provider that was shut down refuses both.
Flush(p) ==
  /\ provider[p] = "live"
  /\ Held(p, {"sending"}) = {}
  /\ \E outcome \in {"exported", "refused"} : Move(p, {"queued"}, outcome)

-----------------------------------------------------------------------------
(* Requests *)

Goto(r, from, to) == Alive /\ step[r] = from /\ step' = [step EXCEPT ![r] = to]

\* request_span.
Begin(r) ==
  /\ Goto(r, "idle", "handling")
  /\ rec' = [rec EXCEPT ![r].span = "open"]
  /\ UNCHANGED <<gaveUp, provider, complained, main>>

\* The handler panics: the hook records the panic.
Panic(r) ==
  /\ Goto(r, "handling", "recorded")
  /\ Emit(r, "panicked")
  /\ UNCHANGED <<gaveUp, provider, complained, main>>

\* The hook flushes the spans, then the logs.  A flush that fails or takes too long is
\* ignored.
FlushSpans(r) ==
  /\ Goto(r, "recorded", "halfFlushed")
  /\ Flush("tracer") \/ UNCHANGED rec
  /\ UNCHANGED <<gaveUp, provider, complained, main>>

\* Slip: only the spans are flushed.
FlushLogsNever(r) ==
  /\ Goto(r, "halfFlushed", "flushed")
  /\ UNCHANGED <<rec, gaveUp, provider, complained, main>>

FlushLogs(r) ==
  /\ Goto(r, "halfFlushed", "flushed")
  /\ \/ Flush("logger") /\ UNCHANGED gaveUp
     \/ UNCHANGED rec /\ gaveUp' = [gaveUp EXCEPT ![r] = TRUE]
  /\ UNCHANGED <<provider, complained, main>>

\* respond_to_panic, once the hook has let the stack unwind.
Catch(r) ==
  /\ Goto(r, "flushed", "caught")
  /\ Emit(r, "caught")
  /\ UNCHANGED <<gaveUp, provider, complained, main>>

\* A reply passes the trace layer, whose failure event a 5xx makes.
ReplyOk(r) ==
  /\ Goto(r, "handling", "replied")
  /\ UNCHANGED <<rec, gaveUp, provider, complained, main>>
ReplyFailed(r) ==
  /\ Goto(r, "handling", "replied") \/ Goto(r, "caught", "replied")
  /\ Emit(r, "failed")
  /\ UNCHANGED <<gaveUp, provider, complained, main>>

\* Slip: somebody keeps the span alive after its request.
EndSpanLeaking(r) ==
  /\ Goto(r, "handling", "done") \/ Goto(r, "replied", "done")
  /\ UNCHANGED <<rec, gaveUp, provider, complained, main>>

\* The body ends, or the client is gone: the span ends.
EndSpan(r) ==
  /\ Goto(r, "handling", "done") \/ Goto(r, "replied", "done")
  /\ Emit(r, "span")
  /\ UNCHANGED <<gaveUp, provider, complained, main>>

-----------------------------------------------------------------------------
(* TelemetryGuard::drop *)

\* A provider is shut down: its queue is exported, or an error is printed and the
\* next one shut down all the same.
ShutDown(p) ==
  /\ provider' = [provider EXCEPT ![p] = "shutdown"]
  /\ \/ Flush(p) /\ UNCHANGED complained
     \/ UNCHANGED rec /\ complained' = complained \union {p}
  /\ UNCHANGED <<step, gaveUp>>

\* Slip: the providers are shut down in the other order.
ShutdownOrderSwapped == <<"logger", "tracer">>

ShutdownOrder == <<"tracer", "logger">>

DropFirst  == main = "serving" /\ main' = "halfDown" /\ ShutDown(ShutdownOrder[1])
DropSecond == main = "halfDown" /\ main' = "down" /\ ShutDown(ShutdownOrder[2])

\* The process ends, of itself once the guard is dropped or killed at any moment: what
\* is not with the collector never will be.
Exit ==
  /\ Alive
  /\ main' = "exited"
  /\ rec' = [r \in Requests |-> [kind \in Kinds |->
               IF rec[r][kind] \in {"open", "queued", "sending"} THEN "lost" ELSE rec[r][kind]]]
  /\ UNCHANGED <<step, gaveUp, provider, complained>>

-----------------------------------------------------------------------------
Init ==
  /\ step = [r \in Requests |-> "idle"]
  /\ rec = [r \in Requests |-> [kind \in Kinds |-> "none"]]
  /\ gaveUp = [r \in Requests |-> FALSE]
  /\ provider = [p \in Providers |-> "live"]
  /\ complained = {}
  /\ main = "serving"

Request(r) == \/ Begin(r) \/ Panic(r) \/ FlushSpans(r) \/ FlushLogs(r) \/ Catch(r)
              \/ ReplyOk(r) \/ ReplyFailed(r) \/ EndSpan(r)

Next == \/ \E r \in Requests : Request(r)
        \/ \E p \in Providers : TakeBatch(p) \/ FinishBatch(p)
        \/ DropFirst \/ DropSecond \/ Exit

Spec == Init /\ [][Next]_vars

-----------------------------------------------------------------------------
(* Properties *)

TypeOK ==
  /\ step \in [Requests -> {"idle", "handling", "recorded", "halfFlushed", "flushed",
                            "caught", "replied", "done"}]
  /\ rec \in [Requests -> [Kinds -> {"none", "open", "queued", "sending", "exported",
                                     "refused", "dropped", "late", "lost"}]]
  /\ gaveUp \in [Requests -> BOOLEAN]
  /\ provider \in [Providers -> {"live", "shutdown"}]
  /\ complained \subseteq Providers
  /\ main \in {"serving", "halfDown", "down", "exited"}
  /\ Alive => \A r \in Requests : rec[r].span = "open" <=> step[r] \notin {"idle", "done"}

\* guard.rs:75-79: once the hook has flushed, and before the stack unwinds, a panic's
\* record waits for no batch and dies with no process, whatever other requests queue,
\* whatever batch was on its way and whether or not main is shutting down.
PanicReported ==
  \A r \in Requests :
    step[r] \in {"flushed", "caught"} \/ (step[r] \in {"replied", "done"} /\ rec[r].caught # "none")
      => gaveUp[r] \/ rec[r].panicked \notin {"none", "queued", "sending", "lost"}

\* guard.rs:57-72: a guard that was dropped without a complaint leaves nothing it was
\* handed behind, and no span that reached the collector lacks its error events for
\* having ended during the shutdown.
ShutdownIsOrderly ==
  /\ main = "down" =>
       \A p \in Providers \ complained : Held(p, {"queued", "sending"}) = {}
  /\ \A r \in Requests, kind \in Logs : rec[r].span = "exported" => rec[r][kind] # "late"

\* What has become of a record, however it came to it.
Outcome == [none |-> "none", open |-> "open", queued |-> "held", sending |-> "held",
            exported |-> "exported", refused |-> "refused",
            dropped |-> "lost", late |-> "lost", lost |-> "lost"]
StateOf(p) == CASE ~Alive                                      -> "gone"
                [] Alive /\ provider[p] = "live"               -> "up"
                [] Alive /\ provider[p] # "live"
                     -> IF p \in complained THEN "failed" ELSE "down"

\* The two providers: one has the spans, the other the events.
Events     == Requests \X Logs
SpanFates  == [r \in Requests |-> Outcome[rec[r].span]]
EventFates == [e \in Events |-> Outcome[rec[e[1]][e[2]]]]
Tracer == INSTANCE RecordFate WITH
  Records <- Requests, fate <- SpanFates, state <- StateOf("tracer")
Logger == INSTANCE RecordFate WITH
  Records <- Events, fate <- EventFates, state <- StateOf("logger")

\* guard.rs:57-79: requests, batches, flushes out of panicking threads and a shutdown may
\* meet in any order - a record is sent to the collector once or is lost once, is never
\* emitted twice, and is neither taken nor left by a provider that was shut down well.
ImplementsPipelines == Tracer!Spec /\ Logger!Spec

WholeAndFitting(s, kept) ==
  /\ kept \in s.cuts /\ kept <= MaxUserAgent
  /\ \A cut \in s.cuts : cut <= MaxUserAgent => cut <= kept
  /\ kept = s.bytes \/ MaxUserAgent < kept + 4
EveryAgentFits == \A s \in Strings : WholeAndFitting(s, Truncate(s, MaxUserAgent))

\* http.rs:107-109, 25-28: whatever user agent a span was begun with, it keeps the
\* longest run of its whole characters that fits, and loses to the limit at most a
\* character's last three bytes.
AgentsAreCut == \A r \in Requests : rec[r].span # "none" => EveryAgentFits
=============================================================================
