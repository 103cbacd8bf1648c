---------------------------- MODULE Telemetry_proofs ----------------------------
(***************************************************************************)
(* Proofs about Telemetry: what its run checks of records, for any number  *)
(* of requests and queues of any size.                                     *)
(***************************************************************************)
EXTENDS Telemetry, WellFoundedInduction, TLAPS

RecordStates == {"none", "open", "queued", "sending", "exported", "refused", "dropped",
                 "late", "lost"}

\* How far the shutdown is: the logger is never shut down before the tracer.
Shutdowns ==
  /\ provider["logger"] = "shutdown" => provider["tracer"] = "shutdown"
  /\ main = "serving" => provider["tracer"] = "live" /\ provider["logger"] = "live"
  /\ main = "halfDown" => provider["tracer"] = "shutdown" /\ provider["logger"] = "live"
  /\ main = "down" => provider["tracer"] = "shutdown" /\ provider["logger"] = "shutdown"

\* What a provider that was shut down without a complaint still holds: nothing.
Drained ==
  \A p \in Providers, r \in Requests, kind \in Kinds :
    provider[p] = "shutdown" /\ p \notin complained /\ Provider(kind) = p
      => rec[r][kind] \notin {"queued", "sending"}

\* Records by how far their request is: the hook's is made at once, the catching
\* layer's after it; only the span is ever open, and only an exit loses anything.
Records ==
  \A r \in Requests :
    /\ step[r] \in {"recorded", "halfFlushed", "flushed", "caught"} => rec[r].panicked # "none"
    /\ step[r] \in {"idle", "handling", "recorded", "halfFlushed", "flushed"}
         => rec[r].caught = "none"
    /\ rec[r].panicked # "open" /\ rec[r].caught # "open"
    /\ Alive => \A kind \in Kinds : rec[r][kind] # "lost"

\* The logs of a span the tracer has taken were all made while the logger was up.
Complete ==
  \A r \in Requests, kind \in Logs :
    rec[r][kind] = "late" =>
      /\ provider["logger"] = "shutdown"
      /\ rec[r].span \notin {"queued", "sending", "exported", "refused", "dropped"}

IInv == TypeOK /\ Shutdowns /\ Drained /\ Records /\ Complete /\ PanicReported

-----------------------------------------------------------------------------
(* Records and providers *)

LEMMA KindsOfProviders ==
  /\ "span" \in Kinds /\ Logs \subseteq Kinds /\ Provider("span") = "tracer"
  /\ {"panicked", "caught", "failed"} = Logs /\ "span" \notin Logs
  /\ \A kind \in Logs : Provider(kind) = "logger"
  /\ \A kind \in Kinds : Provider(kind) \in Providers
BY DEF Kinds, Logs, Provider, Providers

LEMMA Fates ==
  ASSUME TypeOK, NEW kind \in Kinds
  PROVE  /\ Fate(kind) \in {"late", "dropped", "queued"}
         /\ Fate(kind) = "late" <=> provider[Provider(kind)] = "shutdown"
<1>1. provider[Provider(kind)] \in {"live", "shutdown"}
  BY KindsOfProviders DEF TypeOK
<1>2. QED
  BY <1>1 DEF Fate

LEMMA InitIInv == Init => IInv
<1> SUFFICES ASSUME Init PROVE IInv
  OBVIOUS
<1>1. TypeOK
  BY KindsOfProviders DEF Init, TypeOK, Alive
<1>2. \A r \in Requests, kind \in Kinds : rec[r][kind] = "none"
  BY DEF Init
<1>3. Shutdowns /\ Drained
  BY <1>2 DEF Init, Shutdowns, Drained, Providers
<1>4. Records /\ Complete /\ PanicReported
  BY <1>2, KindsOfProviders DEF Init, Records, Complete, PanicReported
<1>5. QED
  BY <1>1, <1>3, <1>4 DEF IInv

RecordsTyped == rec \in [Requests -> [Kinds -> RecordStates]]

\* A record that is emitted is the only one that changes.
LEMMA Emitted ==
  ASSUME TypeOK, NEW r \in Requests, NEW kind \in Kinds, Emit(r, kind)
  PROVE  /\ RecordsTyped'
         /\ rec'[r][kind] = Fate(kind)
         /\ \A q \in Requests, k \in Kinds : q # r \/ k # kind => rec'[q][k] = rec[q][k]
<1>1. rec \in [Requests -> [Kinds -> RecordStates]]
  BY DEF TypeOK, RecordStates
<1>2. Fate(kind) \in RecordStates
  BY Fates DEF RecordStates
<1>3. QED
  BY <1>1, <1>2 DEF Emit, RecordsTyped

\* A batch that moves changes records of its provider only, and takes none out of the
\* states before and during the export but into those during and after it.
LEMMA Moved ==
  ASSUME TypeOK, NEW p \in Providers, NEW from \in SUBSET {"queued", "sending"},
         NEW to \in {"sending", "exported", "refused"}, Move(p, from, to)
  PROVE  /\ RecordsTyped'
         /\ \A r \in Requests, kind \in Kinds :
              \/ rec'[r][kind] = rec[r][kind] /\ ~(Provider(kind) = p /\ rec[r][kind] \in from)
              \/ /\ Provider(kind) = p /\ rec[r][kind] \in from
                 /\ rec'[r][kind] = to
<1>1. rec \in [Requests -> [Kinds -> RecordStates]]
  BY DEF TypeOK, RecordStates
<1>2. to \in RecordStates
  BY DEF RecordStates
<1>3. QED
  BY <1>1, <1>2 DEF Move, RecordsTyped

\* A step of a request is legal and moves no other request.
LEMMA Stepped ==
  ASSUME TypeOK, NEW r \in Requests, NEW from, NEW to, Goto(r, from, to),
         to \in {"handling", "recorded", "halfFlushed", "flushed", "caught", "replied", "done"}
  PROVE  /\ Alive /\ step[r] = from /\ step'[r] = to
         /\ step' \in [Requests -> {"idle", "handling", "recorded", "halfFlushed", "flushed",
                                    "caught", "replied", "done"}]
         /\ \A q \in Requests : q # r => step'[q] = step[q]
BY DEF Goto, TypeOK

\* Batches: records move, nothing else does.
LEMMA BatchIInv ==
  ASSUME IInv, Alive, NEW p \in Providers, NEW from \in SUBSET {"queued", "sending"},
         NEW to \in {"sending", "exported", "refused"}, Move(p, from, to),
         UNCHANGED <<step, gaveUp, provider, complained, main>>
  PROVE  IInv'
<1> USE DEF IInv
<1>1. /\ RecordsTyped'
      /\ \A r \in Requests, kind \in Kinds :
           \/ rec'[r][kind] = rec[r][kind] /\ ~(Provider(kind) = p /\ rec[r][kind] \in from)
           \/ Provider(kind) = p /\ rec[r][kind] \in from /\ rec'[r][kind] = to
  BY Moved
<1>2. TypeOK'
  BY <1>1, KindsOfProviders DEF TypeOK, RecordsTyped, RecordStates, Alive
<1>3. Shutdowns'
  BY DEF Shutdowns
<1>4. Drained'
  BY <1>1 DEF Drained
<1>5. Records'
  BY <1>1, KindsOfProviders DEF Records, Alive
<1>6. Complete'
  BY <1>1, KindsOfProviders DEF Complete
<1>7. PanicReported'
  BY <1>1, KindsOfProviders DEF PanicReported, Records
<1>8. QED
  BY <1>2, <1>3, <1>4, <1>5, <1>6, <1>7

-----------------------------------------------------------------------------
(* Requests *)

\* Records that are emitted, each at its step, keep the invariant.
LEMMA EmitIInv ==
  ASSUME IInv, NEW r \in Requests, NEW kind \in Logs, NEW from, NEW to,
         Goto(r, from, to), Emit(r, kind), from \notin {"idle", "done"},
         \/ from = "handling" /\ to = "recorded" /\ kind = "panicked"
         \/ from = "flushed" /\ to = "caught" /\ kind = "caught"
         \/ from \in {"handling", "caught"} /\ to = "replied" /\ kind = "failed",
         UNCHANGED <<gaveUp, provider, complained, main>>
  PROVE  IInv'
<1> USE DEF IInv
<1>1. kind \in Kinds /\ kind # "span" /\ Provider(kind) = "logger"
  BY KindsOfProviders
<1>2. /\ RecordsTyped' /\ rec'[r][kind] \in {"late", "dropped", "queued"}
      /\ rec'[r][kind] = "late" <=> provider["logger"] = "shutdown"
      /\ \A q \in Requests, k \in Kinds : q # r \/ k # kind => rec'[q][k] = rec[q][k]
  BY <1>1, Emitted, Fates
<1>3. /\ Alive /\ step[r] = from /\ step'[r] = to
      /\ step' \in [Requests -> {"idle", "handling", "recorded", "halfFlushed", "flushed",
                                "caught", "replied", "done"}]
      /\ \A q \in Requests : q # r => step'[q] = step[q]
  BY Stepped
<1>4. rec[r].span = "open"
  BY <1>3 DEF TypeOK
<1>5. TypeOK'
  BY <1>1, <1>2, <1>3, KindsOfProviders DEF TypeOK, RecordsTyped, RecordStates, Alive
<1>6. Shutdowns'
  BY DEF Shutdowns
<1>7. Drained'
  BY <1>1, <1>2 DEF Drained
<1>8. Records'
  BY <1>1, <1>2, <1>3, KindsOfProviders DEF Records, Alive
<1>9. Complete'
  BY <1>1, <1>2, <1>4, KindsOfProviders DEF Complete
<1>10. PanicReported'
  BY <1>1, <1>2, <1>3, KindsOfProviders DEF PanicReported, Records
<1>11. QED
  BY <1>5, <1>6, <1>7, <1>8, <1>9, <1>10

LEMMA BeginIInv ==
  ASSUME IInv, NEW r \in Requests, Begin(r)
  PROVE  IInv'
<1> USE DEF IInv
<1>1. UNCHANGED <<gaveUp, provider, complained, main>>
  BY DEF Begin
<1>2. /\ Alive /\ step[r] = "idle" /\ step'[r] = "handling"
      /\ step' \in [Requests -> {"idle", "handling", "recorded", "halfFlushed", "flushed",
                                "caught", "replied", "done"}]
      /\ \A q \in Requests : q # r => step'[q] = step[q]
  BY Stepped DEF Begin
<1>3. /\ RecordsTyped' /\ rec'[r].span = "open"
      /\ \A q \in Requests, k \in Kinds : q # r \/ k # "span" => rec'[q][k] = rec[q][k]
  <2>1. rec \in [Requests -> [Kinds -> RecordStates]] /\ "open" \in RecordStates
    BY DEF TypeOK, RecordStates
  <2>2. QED
    BY <2>1, KindsOfProviders DEF Begin, RecordsTyped
<1>4. TypeOK'
  BY <1>1, <1>2, <1>3, KindsOfProviders DEF TypeOK, RecordsTyped, RecordStates, Alive
<1>5. Shutdowns' /\ Drained'
  BY <1>1, <1>3, KindsOfProviders DEF Shutdowns, Drained
<1>6. Records'
  BY <1>1, <1>2, <1>3, KindsOfProviders DEF Records, Alive
<1>7. Complete'
  BY <1>1, <1>3, KindsOfProviders DEF Complete
<1>8. PanicReported'
  BY <1>1, <1>2, <1>3, KindsOfProviders DEF PanicReported
<1>9. QED
  BY <1>4, <1>5, <1>6, <1>7, <1>8

\* The span ends: the tracer takes it only while the logger is up too.
LEMMA EndSpanIInv ==
  ASSUME IInv, NEW r \in Requests, EndSpan(r)
  PROVE  IInv'
<1> USE DEF IInv
<1>1. UNCHANGED <<gaveUp, provider, complained, main>>
  BY DEF EndSpan
<1>2. PICK from \in {"handling", "replied"} : Goto(r, from, "done")
  BY DEF EndSpan
<1>3. /\ Alive /\ step[r] = from /\ step'[r] = "done"
      /\ step' \in [Requests -> {"idle", "handling", "recorded", "halfFlushed", "flushed",
                                "caught", "replied", "done"}]
      /\ \A q \in Requests : q # r => step'[q] = step[q]
  BY <1>2, Stepped
<1>4. /\ RecordsTyped' /\ rec'[r].span \in {"late", "dropped", "queued"}
      /\ rec'[r].span = "late" <=> provider["tracer"] = "shutdown"
      /\ \A q \in Requests, k \in Kinds : q # r \/ k # "span" => rec'[q][k] = rec[q][k]
  BY Emitted, Fates, KindsOfProviders DEF EndSpan
<1>5. TypeOK'
  BY <1>1, <1>3, <1>4, KindsOfProviders DEF TypeOK, RecordsTyped, RecordStates, Alive
<1>6. Shutdowns'
  BY <1>1 DEF Shutdowns
<1>7. Drained'
  BY <1>1, <1>4, KindsOfProviders DEF Drained
<1>8. Records'
  BY <1>1, <1>3, <1>4, KindsOfProviders DEF Records, Alive
<1>9. Complete'
  BY <1>1, <1>4, KindsOfProviders DEF Complete, Shutdowns
<1>10. PanicReported'
  BY <1>1, <1>3, <1>4, KindsOfProviders DEF PanicReported, Records
<1>11. QED
  BY <1>5, <1>6, <1>7, <1>8, <1>9, <1>10

-----------------------------------------------------------------------------
(* The panic hook *)

\* Either flush: some records of one provider leave its queue, and after that of the
\* logs none is left in it, unless the hook gave up.
LEMMA FlushIInv ==
  ASSUME IInv, NEW r \in Requests, NEW from, NEW to, Goto(r, from, to),
         \/ from = "recorded" /\ to = "halfFlushed"
         \/ from = "halfFlushed" /\ to = "flushed",
         RecordsTyped',
         \A q \in Requests, kind \in Kinds :
           \/ rec'[q][kind] = rec[q][kind]
           \/ rec[q][kind] = "queued" /\ rec'[q][kind] \in {"exported", "refused"},
         gaveUp' \in [Requests -> BOOLEAN],
         \A q \in Requests : gaveUp[q] => gaveUp'[q],
         to = "flushed" => gaveUp'[r] \/ rec'[r].panicked \notin {"queued", "sending"},
         UNCHANGED <<provider, complained, main>>
  PROVE  IInv'
<1> USE DEF IInv
<1>1. /\ Alive /\ step[r] = from /\ step'[r] = to
      /\ step' \in [Requests -> {"idle", "handling", "recorded", "halfFlushed", "flushed",
                                "caught", "replied", "done"}]
      /\ \A q \in Requests : q # r => step'[q] = step[q]
  BY Stepped
<1>2. TypeOK'
  <2>1. \A q \in Requests : rec'[q].span = "open" <=> rec[q].span = "open"
    BY KindsOfProviders
  <2>2. \A q \in Requests : step'[q] \notin {"idle", "done"} <=> step[q] \notin {"idle", "done"}
    BY <1>1
  <2>3. \A q \in Requests : rec'[q].span = "open" <=> step'[q] \notin {"idle", "done"}
    BY <1>1, <2>1, <2>2 DEF TypeOK
  <2>4. rec' \in [Requests -> [Kinds -> {"none", "open", "queued", "sending", "exported",
                                        "refused", "dropped", "late", "lost"}]]
    BY DEF RecordsTyped, RecordStates
  <2>5. QED
    BY <1>1, <2>3, <2>4 DEF TypeOK
<1>3. Shutdowns' /\ Drained'
  BY DEF Shutdowns, Drained
<1>4. Records'
  BY <1>1, KindsOfProviders DEF Records, Alive
<1>5. Complete'
  BY KindsOfProviders DEF Complete
<1>6. PanicReported'
  <2> SUFFICES ASSUME NEW q \in Requests,
                      \/ step'[q] \in {"flushed", "caught"}
                      \/ step'[q] \in {"replied", "done"} /\ rec'[q].caught # "none"
               PROVE  gaveUp'[q] \/ rec'[q].panicked \notin {"none", "queued", "sending", "lost"}
    BY DEF PanicReported
  <2>1. CASE q = r
    BY <1>1, <2>1, KindsOfProviders DEF Records
  <2>2. CASE q # r
    <3>1. rec[q].caught # "none" \/ step[q] \in {"flushed", "caught"}
      BY <1>1, <2>2, KindsOfProviders
    <3>2. gaveUp[q] \/ rec[q].panicked \notin {"none", "queued", "sending", "lost"}
      BY <1>1, <2>2, <3>1 DEF PanicReported
    <3>3. QED
      BY <3>2, KindsOfProviders
  <2>3. QED
    BY <2>1, <2>2
<1>7. QED
  BY <1>2, <1>3, <1>4, <1>5, <1>6

LEMMA FlushSpansIInv ==
  ASSUME IInv, NEW r \in Requests, FlushSpans(r)
  PROVE  IInv'
<1>1. Goto(r, "recorded", "halfFlushed") /\ UNCHANGED <<gaveUp, provider, complained, main>>
  BY DEF FlushSpans
<1>2. /\ RecordsTyped'
      /\ \A q \in Requests, kind \in Kinds :
           \/ rec'[q][kind] = rec[q][kind]
           \/ rec[q][kind] = "queued" /\ rec'[q][kind] \in {"exported", "refused"}
  <2>1. CASE UNCHANGED rec
    BY <2>1 DEF RecordsTyped, IInv, TypeOK, RecordStates
  <2>2. CASE Flush("tracer")
    BY <2>2, Moved DEF Flush, IInv, Providers
  <2>3. QED
    BY <2>1, <2>2 DEF FlushSpans
<1>3. QED
  BY <1>1, <1>2, FlushIInv DEF IInv, TypeOK

LEMMA FlushLogsIInv ==
  ASSUME IInv, NEW r \in Requests, FlushLogs(r)
  PROVE  IInv'
<1>1. Goto(r, "halfFlushed", "flushed") /\ UNCHANGED <<provider, complained, main>>
  BY DEF FlushLogs
<1>2. CASE UNCHANGED rec /\ gaveUp' = [gaveUp EXCEPT ![r] = TRUE]
  <2>1. RecordsTyped'
    BY <1>2 DEF RecordsTyped, IInv, TypeOK, RecordStates
  <2>2. /\ gaveUp' \in [Requests -> BOOLEAN] /\ gaveUp'[r]
        /\ \A q \in Requests : gaveUp[q] => gaveUp'[q]
    BY <1>2 DEF IInv, TypeOK
  <2>3. QED
    BY <1>1, <1>2, <2>1, <2>2, FlushIInv
<1>3. CASE Flush("logger") /\ UNCHANGED gaveUp
  <2>1. Held("logger", {"sending"}) = {}
    BY <1>3 DEF Flush
  <2>2. rec[r].panicked # "sending"
    <3>1. <<r, "panicked">> \in Requests \X Kinds /\ Provider("panicked") = "logger"
      BY KindsOfProviders
    <3>2. QED
      BY <2>1, <3>1 DEF Held
  <2>3. PICK outcome \in {"exported", "refused"} : Move("logger", {"queued"}, outcome)
    BY <1>3 DEF Flush
  <2>4. /\ RecordsTyped'
        /\ \A q \in Requests, kind \in Kinds :
             \/ /\ rec'[q][kind] = rec[q][kind]
                /\ ~(Provider(kind) = "logger" /\ rec[q][kind] \in {"queued"})
             \/ /\ Provider(kind) = "logger" /\ rec[q][kind] \in {"queued"}
                /\ rec'[q][kind] = outcome
    BY <2>3, Moved DEF IInv, Providers
  <2>5. rec'[r].panicked \notin {"queued", "sending"}
    BY <2>2, <2>4, KindsOfProviders
  <2>6. QED
    BY <1>1, <1>3, <2>4, <2>5, FlushIInv DEF IInv, TypeOK
<1>4. QED
  BY <1>2, <1>3 DEF FlushLogs

-----------------------------------------------------------------------------
(* The shutdown, and every step *)

LEMMA ShutDownIInv ==
  ASSUME IInv, NEW p \in Providers, ShutDown(p), provider[p] = "live",
         \/ main = "serving" /\ main' = "halfDown" /\ p = "tracer"
         \/ main = "halfDown" /\ main' = "down" /\ p = "logger"
  PROVE  IInv'
<1> USE DEF IInv
<1>1. /\ provider' = [provider EXCEPT ![p] = "shutdown"] /\ UNCHANGED <<step, gaveUp>>
      /\ p = "tracer" \/ p = "logger"
  BY DEF ShutDown
<1>2. /\ provider' \in [Providers -> {"live", "shutdown"}]
      /\ provider'[p] = "shutdown" /\ \A o \in Providers : o # p => provider'[o] = provider[o]
  BY <1>1 DEF TypeOK
<1>3. /\ RecordsTyped'
      /\ complained \subseteq complained' /\ complained' \subseteq Providers
      /\ \A q \in Requests, kind \in Kinds :
           \/ rec'[q][kind] = rec[q][kind]
           \/ /\ rec[q][kind] = "queued"
              /\ rec'[q][kind] \in {"exported", "refused"}
      /\ \/ p \in complained'
         \/ \A q \in Requests, kind \in Kinds :
              Provider(kind) = p => rec'[q][kind] \notin {"queued", "sending"}
  <2>1. CASE UNCHANGED rec /\ complained' = complained \union {p}
    BY <2>1 DEF RecordsTyped, TypeOK, RecordStates
  <2>2. CASE Flush(p) /\ UNCHANGED complained
    <3>1. PICK outcome \in {"exported", "refused"} : Move(p, {"queued"}, outcome)
      BY <2>2 DEF Flush
    <3>2. /\ RecordsTyped'
          /\ \A q \in Requests, kind \in Kinds :
               \/ /\ rec'[q][kind] = rec[q][kind]
                  /\ ~(Provider(kind) = p /\ rec[q][kind] \in {"queued"})
               \/ /\ Provider(kind) = p /\ rec[q][kind] \in {"queued"}
                  /\ rec'[q][kind] = outcome
      BY <3>1, Moved
    <3>3. ASSUME NEW q \in Requests, NEW kind \in Kinds, Provider(kind) = p
          PROVE  rec[q][kind] # "sending"
      <4>1. <<q, kind>> \in Requests \X Kinds
        OBVIOUS
      <4>2. QED
        BY <2>2, <3>3, <4>1 DEF Flush, Held
    <3>4. complained' = complained /\ complained \subseteq Providers
      BY <2>2 DEF TypeOK
    <3>5. QED
      BY <3>2, <3>3, <3>4
  <2>3. QED
    BY <2>1, <2>2 DEF ShutDown
<1>4. Shutdowns'
  BY <1>2 DEF Shutdowns, Providers
<1>5. TypeOK'
  <2>1. \A q \in Requests : rec'[q].span = "open" <=> rec[q].span = "open"
    BY <1>3, KindsOfProviders
  <2>2. Alive /\ main' \in {"serving", "halfDown", "down", "exited"}
    BY DEF Alive
  <2>3. \A q \in Requests : rec'[q].span = "open" <=> step'[q] \notin {"idle", "done"}
    BY <1>1, <2>1, <2>2 DEF TypeOK
  <2>4. rec' \in [Requests -> [Kinds -> {"none", "open", "queued", "sending", "exported",
                                        "refused", "dropped", "late", "lost"}]]
    BY <1>3 DEF RecordsTyped, RecordStates
  <2>5. QED
    BY <1>1, <1>2, <1>3, <2>2, <2>3, <2>4 DEF TypeOK
<1>6. Drained'
  BY <1>2, <1>3 DEF Drained
<1>7. Records'
  BY <1>1, <1>3, KindsOfProviders DEF Records, Alive
<1>8. Complete'
  BY <1>2, <1>3, KindsOfProviders DEF Complete, Shutdowns, Providers
<1>9. PanicReported'
  BY <1>1, <1>3, KindsOfProviders DEF PanicReported
<1>10. QED
  BY <1>4, <1>5, <1>6, <1>7, <1>8, <1>9

LEMMA ExitIInv ==
  ASSUME IInv, Exit
  PROVE  IInv'
<1> USE DEF IInv
<1>1. /\ Alive /\ main' = "exited" /\ ~Alive'
      /\ UNCHANGED <<step, gaveUp, provider, complained>>
  BY DEF Exit, Alive
<1>2. /\ RecordsTyped'
      /\ \A r \in Requests, kind \in Kinds :
           \/ rec[r][kind] \in {"open", "queued", "sending"} /\ rec'[r][kind] = "lost"
           \/ rec[r][kind] \notin {"open", "queued", "sending"} /\ rec'[r][kind] = rec[r][kind]
  <2>1. rec \in [Requests -> [Kinds -> RecordStates]] /\ "lost" \in RecordStates
    BY DEF TypeOK, RecordStates
  <2>2. QED
    BY <2>1 DEF Exit, RecordsTyped
<1>3. TypeOK'
  BY <1>1, <1>2 DEF TypeOK, RecordsTyped, RecordStates
<1>4. Shutdowns' /\ Drained'
  BY <1>1, <1>2 DEF Shutdowns, Drained
<1>5. Records'
  BY <1>1, <1>2, KindsOfProviders DEF Records
<1>6. Complete'
  BY <1>1, <1>2, KindsOfProviders DEF Complete
<1>7. PanicReported'
  <2> SUFFICES ASSUME NEW r \in Requests,
                      \/ step[r] \in {"flushed", "caught"}
                      \/ step[r] \in {"replied", "done"} /\ rec'[r].caught # "none"
               PROVE  gaveUp[r] \/ rec'[r].panicked \notin {"none", "queued", "sending", "lost"}
    BY <1>1 DEF PanicReported
  <2>1. rec[r].caught # "none" \/ step[r] \in {"flushed", "caught"}
    BY <1>2, KindsOfProviders
  <2>2. gaveUp[r] \/ rec[r].panicked \notin {"none", "queued", "sending", "lost"}
    BY <2>1 DEF PanicReported
  <2>3. rec[r].panicked # "open"
    BY DEF Records
  <2>4. QED
    BY <1>2, <2>2, <2>3, KindsOfProviders
<1>8. QED
  BY <1>3, <1>4, <1>5, <1>6, <1>7

LEMMA ReplyOkIInv ==
  ASSUME IInv, NEW r \in Requests, ReplyOk(r)
  PROVE  IInv'
<1> USE DEF IInv
<1>1. UNCHANGED <<rec, gaveUp, provider, complained, main>>
  BY DEF ReplyOk
<1>2. /\ Alive /\ step[r] = "handling" /\ step'[r] = "replied"
      /\ step' \in [Requests -> {"idle", "handling", "recorded", "halfFlushed", "flushed",
                                "caught", "replied", "done"}]
      /\ \A q \in Requests : q # r => step'[q] = step[q]
  BY Stepped DEF ReplyOk
<1>3. TypeOK'
  <2>1. \A q \in Requests : step'[q] \notin {"idle", "done"} <=> step[q] \notin {"idle", "done"}
    BY <1>2
  <2>2. QED
    BY <1>1, <1>2, <2>1 DEF TypeOK, Alive
<1>4. Shutdowns' /\ Drained' /\ Complete'
  BY <1>1 DEF Shutdowns, Drained, Complete
<1>5. Records' /\ PanicReported'
  BY <1>1, <1>2 DEF Records, PanicReported, Alive
<1>6. QED
  BY <1>3, <1>4, <1>5

LEMMA NextIInv == IInv /\ [Next]_vars => IInv'
<1> SUFFICES ASSUME IInv, [Next]_vars PROVE IInv'
  OBVIOUS
<1>1. CASE UNCHANGED vars
  BY <1>1 DEF vars, IInv, TypeOK, Shutdowns, Drained, Records, Complete, PanicReported, Alive
<1>2. ASSUME NEW r \in Requests, Request(r) PROVE IInv'
  <2>1. CASE Begin(r) \/ EndSpan(r) \/ ReplyOk(r) \/ FlushSpans(r) \/ FlushLogs(r)
    BY <2>1, BeginIInv, EndSpanIInv, ReplyOkIInv, FlushSpansIInv, FlushLogsIInv
  <2>2. CASE Panic(r)
    <3>1. Goto(r, "handling", "recorded") /\ Emit(r, "panicked")
      BY <2>2 DEF Panic
    <3>2. QED
      BY <2>2, <3>1, EmitIInv, KindsOfProviders DEF Panic
  <2>3. CASE Catch(r)
    <3>1. Goto(r, "flushed", "caught") /\ Emit(r, "caught")
      BY <2>3 DEF Catch
    <3>2. QED
      BY <2>3, <3>1, EmitIInv, KindsOfProviders DEF Catch
  <2>4. CASE ReplyFailed(r)
    <3>1. PICK from \in {"handling", "caught"} : Goto(r, from, "replied")
      BY <2>4 DEF ReplyFailed
    <3>2. Emit(r, "failed") /\ UNCHANGED <<gaveUp, provider, complained, main>>
      BY <2>4 DEF ReplyFailed
    <3>3. QED
      BY <3>1, <3>2, EmitIInv, KindsOfProviders
  <2>5. QED
    BY <1>2, <2>1, <2>2, <2>3, <2>4 DEF Request
<1>3. ASSUME NEW p \in Providers, TakeBatch(p) PROVE IInv'
  BY <1>3, BatchIInv DEF TakeBatch
<1>4. ASSUME NEW p \in Providers, FinishBatch(p) PROVE IInv'
  BY <1>4, BatchIInv DEF FinishBatch
<1>5. CASE DropFirst
  <2>1. ShutDown("tracer") /\ main = "serving" /\ main' = "halfDown"
    BY <1>5 DEF DropFirst, ShutdownOrder
  <2>2. QED
    BY <2>1, ShutDownIInv DEF IInv, Shutdowns, Providers
<1>6. CASE DropSecond
  <2>1. ShutDown("logger") /\ main = "halfDown" /\ main' = "down"
    BY <1>6 DEF DropSecond, ShutdownOrder
  <2>2. QED
    BY <2>1, ShutDownIInv DEF IInv, Shutdowns, Providers
<1>7. QED
  BY <1>1, <1>2, <1>3, <1>4, <1>5, <1>6, ExitIInv DEF Next

-----------------------------------------------------------------------------
(* Each provider as RecordFate's *)

\* What a step may still emit was not emitted before.
Unoffered ==
  \A r \in Requests :
    /\ step[r] = "idle" => rec[r].span = "none"
    /\ step[r] \in {"idle", "handling"} => rec[r].panicked = "none"
    /\ step[r] \notin {"replied", "done"} => rec[r].failed = "none"

LEMMA UnofferedInit == Init => Unoffered
BY KindsOfProviders DEF Init, Unoffered

\* Batches, flushes and the end of the process change only records that were emitted.
LEMMA UnofferedKept ==
  ASSUME Unoffered, UNCHANGED step,
         \A r \in Requests, kind \in Kinds : rec[r][kind] = "none" => rec'[r][kind] = "none"
  PROVE  Unoffered'
BY KindsOfProviders DEF Unoffered

\* A flush moves what is queued, if it does anything.
LEMMA FlushMoves ==
  ASSUME IInv, NEW p \in Providers, Flush(p)
  PROVE  \E outcome \in {"exported", "refused"} :
           \A r \in Requests, kind \in Kinds :
             rec'[r][kind] = IF Provider(kind) = p /\ rec[r][kind] = "queued"
                               THEN outcome ELSE rec[r][kind]
<1>1. PICK outcome \in {"exported", "refused"} : Move(p, {"queued"}, outcome)
  BY DEF Flush
<1>2. \A r \in Requests, kind \in Kinds :
        \/ rec'[r][kind] = rec[r][kind] /\ ~(Provider(kind) = p /\ rec[r][kind] \in {"queued"})
        \/ Provider(kind) = p /\ rec[r][kind] \in {"queued"} /\ rec'[r][kind] = outcome
  BY <1>1, Moved DEF IInv
<1>3. QED
  BY <1>2

LEMMA UnofferedStep == IInv /\ Unoffered /\ [Next]_vars => Unoffered'
<1> SUFFICES ASSUME IInv, Unoffered, [Next]_vars PROVE Unoffered'
  OBVIOUS
<1>0. TypeOK
  BY DEF IInv
<1>1. CASE UNCHANGED <<step, rec>>
  BY <1>1 DEF Unoffered
<1>2. ASSUME NEW r \in Requests, Request(r) PROVE Unoffered'
  <2>1. \A q \in Requests : q # r => step'[q] = step[q]
    BY <1>0, <1>2 DEF Request, Begin, Panic, FlushSpans, FlushLogs, Catch, ReplyOk, ReplyFailed,
       EndSpan, Goto, TypeOK
  <2>2. CASE Begin(r)
    <3>1. \A q \in Requests, k \in Kinds : q # r \/ k # "span" => rec'[q][k] = rec[q][k]
      BY <1>0, <2>2, KindsOfProviders DEF Begin, TypeOK
    <3>2. step[r] = "idle" /\ step'[r] = "handling"
      BY <1>0, <2>2 DEF Begin, Goto, TypeOK
    <3>3. QED
      BY <2>1, <3>1, <3>2, KindsOfProviders DEF Unoffered
  <2>3. CASE Panic(r)
    <3>1. \A q \in Requests, k \in Kinds : q # r \/ k # "panicked" => rec'[q][k] = rec[q][k]
      BY <1>0, <2>3, Emitted, KindsOfProviders DEF Panic
    <3>2. step[r] = "handling" /\ step'[r] = "recorded"
      BY <1>0, <2>3 DEF Panic, Goto, TypeOK
    <3>3. QED
      BY <2>1, <3>1, <3>2, KindsOfProviders DEF Unoffered
  <2>4. CASE FlushSpans(r) \/ FlushLogs(r)
    <3>1. \A q \in Requests, k \in Kinds : rec[q][k] = "none" => rec'[q][k] = "none"
      BY <2>4, FlushMoves DEF FlushSpans, FlushLogs, Providers
    <3>2. /\ step[r] \in {"recorded", "halfFlushed"}
          /\ step'[r] \in {"halfFlushed", "flushed"}
      BY <1>0, <2>4 DEF FlushSpans, FlushLogs, Goto, TypeOK
    <3>3. QED
      BY <2>1, <3>1, <3>2, KindsOfProviders DEF Unoffered
  <2>5. CASE Catch(r)
    <3>1. \A q \in Requests, k \in Kinds : q # r \/ k # "caught" => rec'[q][k] = rec[q][k]
      BY <1>0, <2>5, Emitted, KindsOfProviders DEF Catch
    <3>2. step[r] = "flushed" /\ step'[r] = "caught"
      BY <1>0, <2>5 DEF Catch, Goto, TypeOK
    <3>3. QED
      BY <2>1, <3>1, <3>2, KindsOfProviders DEF Unoffered
  <2>6. CASE ReplyOk(r) \/ ReplyFailed(r)
    <3>1. \A q \in Requests, k \in Kinds : q # r \/ k # "failed" => rec'[q][k] = rec[q][k]
      BY <1>0, <2>6, Emitted, KindsOfProviders DEF ReplyOk, ReplyFailed
    <3>2. step[r] \in {"handling", "caught"} /\ step'[r] = "replied"
      BY <1>0, <2>6 DEF ReplyOk, ReplyFailed, Goto, TypeOK
    <3>3. QED
      BY <2>1, <3>1, <3>2, KindsOfProviders DEF Unoffered
  <2>7. CASE EndSpan(r)
    <3>1. \A q \in Requests, k \in Kinds : q # r \/ k # "span" => rec'[q][k] = rec[q][k]
      BY <1>0, <2>7, Emitted, KindsOfProviders DEF EndSpan
    <3>2. step[r] \in {"handling", "replied"} /\ step'[r] = "done"
      BY <1>0, <2>7 DEF EndSpan, Goto, TypeOK
    <3>3. QED
      BY <2>1, <3>1, <3>2, KindsOfProviders DEF Unoffered
  <2>8. QED
    BY <1>2, <2>2, <2>3, <2>4, <2>5, <2>6, <2>7 DEF Request
<1>3. ASSUME NEW p \in Providers, TakeBatch(p) \/ FinishBatch(p) PROVE Unoffered'
  <2>1. PICK from \in {{"queued"}, {"sending"}}, to \in {"sending", "exported", "refused"} :
          Move(p, from, to)
    BY <1>3 DEF TakeBatch, FinishBatch
  <2>2. \A r \in Requests, kind \in Kinds : rec[r][kind] = "none" => rec'[r][kind] = "none"
    BY <1>0, <2>1, Moved
  <2>3. QED
    BY <1>3, <2>2, UnofferedKept DEF TakeBatch, FinishBatch
<1>4. CASE DropFirst \/ DropSecond
  <2>1. PICK p \in Providers : ShutDown(p)
    BY <1>4 DEF DropFirst, DropSecond, ShutdownOrder, Providers
  <2>2. \A r \in Requests, kind \in Kinds : rec[r][kind] = "none" => rec'[r][kind] = "none"
    BY <2>1, FlushMoves DEF ShutDown
  <2>3. QED
    BY <2>1, <2>2, UnofferedKept DEF ShutDown
<1>5. CASE Exit
  BY <1>5, UnofferedKept DEF Exit
<1>6. QED
  BY <1>1, <1>2, <1>3, <1>4, <1>5 DEF Next, vars

LEMMA Outcomes ==
  /\ Outcome["none"] = "none" /\ Outcome["open"] = "open"
  /\ Outcome["queued"] = "held" /\ Outcome["sending"] = "held"
  /\ Outcome["exported"] = "exported" /\ Outcome["refused"] = "refused"
  /\ Outcome["dropped"] = "lost" /\ Outcome["late"] = "lost" /\ Outcome["lost"] = "lost"
BY DEF Outcome

\* The records of each provider, by kind.
LEMMA FatesOf ==
  /\ \A r \in Requests : SpanFates[r] = Outcome[rec[r].span]
  /\ \A r \in Requests, kind \in Logs :
       /\ <<r, kind>> \in Events
       /\ EventFates[<<r, kind>>] = Outcome[rec[r][kind]]
  /\ \A e \in Events : e[1] \in Requests /\ e[2] \in Logs /\ e = <<e[1], e[2]>>
BY DEF SpanFates, EventFates, Events

\* Nothing of a provider's changes, or nothing RecordFate tells apart.
LEMMA SpansStay ==
  ASSUME \A r \in Requests : Outcome[rec'[r].span] = Outcome[rec[r].span]
  PROVE  SpanFates' = SpanFates
BY DEF SpanFates

LEMMA EventsStay ==
  ASSUME \A r \in Requests, kind \in Logs : Outcome[rec'[r][kind]] = Outcome[rec[r][kind]]
  PROVE  EventFates' = EventFates
BY DEF EventFates, Events

LEMMA StateStays ==
  ASSUME UNCHANGED <<provider, complained, main>>
  PROVE  StateOf("tracer")' = StateOf("tracer") /\ StateOf("logger")' = StateOf("logger")
BY DEF StateOf, Alive

LEMMA States ==
  ASSUME IInv, Alive, NEW p \in Providers
  PROVE  /\ provider[p] = "live" => StateOf(p) = "up"
         /\ provider[p] = "shutdown" /\ p \in complained => StateOf(p) = "failed"
         /\ provider[p] = "shutdown" /\ p \notin complained => StateOf(p) = "down"
         /\ StateOf(p) # "gone"
BY DEF StateOf, IInv, TypeOK, Providers

\* One record that is begun or offered.
LEMMA SpanOffered ==
  ASSUME NEW r \in Requests, \A q \in Requests : q # r => rec'[q].span = rec[q].span
  PROVE  SpanFates' = [SpanFates EXCEPT ![r] = Outcome[rec'[r].span]]
BY DEF SpanFates

LEMMA EventOffered ==
  ASSUME NEW r \in Requests, NEW kind \in Logs,
         \A q \in Requests, k \in Logs : q # r \/ k # kind => rec'[q][k] = rec[q][k]
  PROVE  EventFates' = [EventFates EXCEPT ![<<r, kind>>] = Outcome[rec'[r][kind]]]
<1>1. ASSUME NEW e \in Events, e # <<r, kind>> PROVE rec'[e[1]][e[2]] = rec[e[1]][e[2]]
  BY <1>1, FatesOf
<1>2. <<r, kind>>[1] = r /\ <<r, kind>>[2] = kind
  OBVIOUS
<1>3. QED
  BY <1>1, <1>2, FatesOf DEF EventFates

\* An event that is emitted, of which there was none before, is an offer to the logger.
LEMMA EmitOffers ==
  ASSUME IInv, NEW r \in Requests, NEW kind \in Logs, Alive, rec[r][kind] = "none",
         Emit(r, kind), UNCHANGED <<provider, complained, main>>
  PROVE  UNCHANGED Tracer!vars /\ Logger!Next
<1>1. /\ rec'[r][kind] = Fate(kind)
      /\ \A q \in Requests, k \in Kinds : q # r \/ k # kind => rec'[q][k] = rec[q][k]
      /\ Fate(kind) \in {"late", "dropped", "queued"}
      /\ Fate(kind) = "queued" => provider["logger"] = "live"
  <2>1. kind \in Kinds /\ Provider(kind) = "logger"
    BY KindsOfProviders
  <2>2. provider["logger"] \in {"live", "shutdown"}
    BY DEF IInv, TypeOK, Providers
  <2>3. /\ Fate(kind) \in {"late", "dropped", "queued"}
        /\ Fate(kind) = "late" <=> provider["logger"] = "shutdown"
    BY <2>1, Fates DEF IInv
  <2>4. QED
    BY <2>1, <2>2, <2>3, Emitted DEF IInv
<1>2. UNCHANGED Tracer!vars
  <2>1. \A q \in Requests : rec'[q].span = rec[q].span
    BY <1>1, KindsOfProviders
  <2>2. QED
    BY <2>1, SpansStay, StateStays DEF Tracer!vars
<1>3. Logger!Offer(<<r, kind>>)
  <2>1. EventFates' = [EventFates EXCEPT ![<<r, kind>>] = Outcome[Fate(kind)]]
    BY <1>1, EventOffered, KindsOfProviders
  <2>2. EventFates[<<r, kind>>] = "none" /\ <<r, kind>> \in Events
    BY FatesOf, Outcomes
  <2>3. StateOf("logger") # "gone" /\ (Fate(kind) = "queued" => StateOf("logger") = "up")
    BY <1>1, States DEF Providers
  <2>4. Outcome[Fate(kind)] = IF Fate(kind) = "queued" THEN "held" ELSE "lost"
    BY <1>1, Outcomes
  <2>5. QED
    BY <1>1, <2>1, <2>2, <2>3, <2>4, StateStays DEF Logger!Offer
<1>4. QED
  BY <1>2, <1>3, FatesOf DEF Logger!Next

\* A batch is sent: the exporter's, a flush's or a shutdown's.
LEMMA SpansSent ==
  ASSUME IInv, NEW from \in {"queued", "sending"}, NEW outcome \in {"exported", "refused"},
         \A r \in Requests :
           rec'[r].span = IF rec[r].span = from THEN outcome ELSE rec[r].span
  PROVE  \E batch \in SUBSET Tracer!HeldRecords :
           /\ batch = {r \in Requests : rec[r].span = from}
           /\ Tracer!Send(batch)
<1> DEFINE batch == {r \in Requests : rec[r].span = from}
<1>1. batch \subseteq Tracer!HeldRecords
  BY FatesOf, Outcomes DEF Tracer!HeldRecords
<1>2. \A r \in Requests : Outcome[rec'[r].span] = IF r \in batch THEN outcome ELSE SpanFates[r]
  BY FatesOf, Outcomes
<1>3. SpanFates' = [r \in Requests |-> IF r \in batch THEN outcome ELSE SpanFates[r]]
  <2> HIDE DEF batch
  <2>1. SpanFates' = [r \in Requests |-> Outcome[rec'[r].span]]
    BY DEF SpanFates
  <2>2. QED
    BY <1>2, <2>1
<1>4. QED
  BY <1>1, <1>3 DEF Tracer!Send

LEMMA EventsSent ==
  ASSUME IInv, NEW from \in {"queued", "sending"}, NEW outcome \in {"exported", "refused"},
         \A r \in Requests, kind \in Logs :
           rec'[r][kind] = IF rec[r][kind] = from THEN outcome ELSE rec[r][kind]
  PROVE  \E batch \in SUBSET Logger!HeldRecords :
           /\ batch = {e \in Events : rec[e[1]][e[2]] = from}
           /\ Logger!Send(batch)
<1> DEFINE batch == {e \in Events : rec[e[1]][e[2]] = from}
<1>1. batch \subseteq Logger!HeldRecords
  BY Outcomes DEF Logger!HeldRecords, EventFates
<1>2. \A e \in Events :
        Outcome[rec'[e[1]][e[2]]] = IF e \in batch THEN outcome ELSE EventFates[e]
  BY FatesOf, Outcomes DEF EventFates
<1>3. EventFates' = [e \in Events |-> IF e \in batch THEN outcome ELSE EventFates[e]]
  <2> HIDE DEF batch
  <2>1. EventFates' = [e \in Events |-> Outcome[rec'[e[1]][e[2]]]]
    BY DEF EventFates
  <2>2. QED
    BY <1>2, <2>1
<1>4. QED
  BY <1>1, <1>3 DEF Logger!Send

\* A shutdown of `p` that flushes leaves nothing with it that it held; one that fails is
\* complained of, and nothing has moved.
LEMMA ShutDownMoves ==
  ASSUME IInv, NEW p \in Providers, ShutDown(p), provider[p] = "live", p \notin complained,
         Alive, Alive'
  PROVE  /\ \A o \in Providers : o # p => StateOf(o)' = StateOf(o)
         /\ StateOf(p) = "up"
         /\ \/ UNCHANGED rec /\ StateOf(p)' = "failed"
            \/ /\ Flush(p) /\ StateOf(p)' = "down"
               /\ \A r \in Requests, kind \in Kinds :
                    Provider(kind) = p => rec[r][kind] # "sending"
<1>1. /\ provider' = [provider EXCEPT ![p] = "shutdown"]
      /\ \/ Flush(p) /\ UNCHANGED complained
         \/ UNCHANGED rec /\ complained' = complained \union {p}
  BY DEF ShutDown
<1>2. /\ provider'[p] = "shutdown" /\ \A o \in Providers : o # p => provider'[o] = provider[o]
      /\ \A o \in Providers : o # p => (o \in complained' <=> o \in complained)
  BY <1>1 DEF IInv, TypeOK
<1>3. StateOf(p) = "up" /\ \A o \in Providers : o # p => StateOf(o)' = StateOf(o)
  BY <1>2 DEF StateOf, Alive
<1>4. CASE UNCHANGED rec /\ complained' = complained \union {p}
  BY <1>2, <1>3, <1>4 DEF StateOf
<1>5. CASE Flush(p) /\ UNCHANGED complained
  <2>1. ASSUME NEW r \in Requests, NEW kind \in Kinds, Provider(kind) = p
        PROVE  rec[r][kind] # "sending"
    <3>1. <<r, kind>> \in Requests \X Kinds
      OBVIOUS
    <3>2. QED
      BY <1>5, <2>1, <3>1 DEF Flush, Held
  <2>2. StateOf(p)' = "down"
    BY <1>2, <1>5 DEF StateOf
  <2>3. QED
    BY <1>3, <1>5, <2>1, <2>2
<1>6. QED
  BY <1>1, <1>4, <1>5

Mapped == /\ Tracer!Next \/ UNCHANGED Tracer!vars
          /\ Logger!Next \/ UNCHANGED Logger!vars

LEMMA BothStay ==
  ASSUME UNCHANGED <<provider, complained, main>>,
         \A r \in Requests, kind \in Kinds : Outcome[rec'[r][kind]] = Outcome[rec[r][kind]]
  PROVE  Mapped
BY SpansStay, EventsStay, StateStays, KindsOfProviders DEF Mapped, Tracer!vars, Logger!vars

LEMMA SentMapped ==
  ASSUME IInv, NEW p \in Providers, StateOf(p) \in {"up", "failed"},
         NEW from \in {"queued", "sending"}, NEW outcome \in {"exported", "refused"},
         \A r \in Requests, kind \in Kinds :
           rec'[r][kind] = IF Provider(kind) = p /\ rec[r][kind] = from
                             THEN outcome ELSE rec[r][kind],
         UNCHANGED <<provider, complained, main>>
  PROVE  Mapped
<1>1. UNCHANGED <<StateOf("tracer"), StateOf("logger")>>
  BY StateStays
<1>2. CASE p = "tracer"
  <2>1. \A r \in Requests : rec'[r].span = IF rec[r].span = from THEN outcome ELSE rec[r].span
    BY <1>2, KindsOfProviders
  <2>2. \A r \in Requests, kind \in Logs : rec'[r][kind] = rec[r][kind]
    BY <1>2, KindsOfProviders
  <2>3. Tracer!Next
    BY <1>1, <1>2, <2>1, SpansSent DEF Tracer!Export, Tracer!Next
  <2>4. UNCHANGED Logger!vars
    BY <1>1, <2>2, EventsStay DEF Logger!vars
  <2>5. QED
    BY <2>3, <2>4 DEF Mapped
<1>3. CASE p = "logger"
  <2>1. \A r \in Requests, kind \in Logs :
          rec'[r][kind] = IF rec[r][kind] = from THEN outcome ELSE rec[r][kind]
    BY <1>3, KindsOfProviders
  <2>2. \A r \in Requests : rec'[r].span = rec[r].span
    BY <1>3, KindsOfProviders
  <2>3. Logger!Next
    BY <1>1, <1>3, <2>1, EventsSent DEF Logger!Export, Logger!Next
  <2>4. UNCHANGED Tracer!vars
    BY <1>1, <2>2, SpansStay DEF Tracer!vars
  <2>5. QED
    BY <2>3, <2>4 DEF Mapped
<1>4. QED
  BY <1>2, <1>3 DEF Providers

\* Only a shutdown is complained of.
Complaints == \A p \in complained : provider[p] = "shutdown"

LEMMA ComplaintsStep == IInv /\ Complaints /\ [Next]_vars => Complaints'
<1> SUFFICES ASSUME IInv, Complaints, [Next]_vars PROVE Complaints'
  OBVIOUS
<1>1. CASE UNCHANGED <<provider, complained>>
  BY <1>1 DEF Complaints
<1>2. ASSUME NEW p \in Providers, ShutDown(p) PROVE Complaints'
  <2>1. /\ provider' = [provider EXCEPT ![p] = "shutdown"]
        /\ complained' \subseteq complained \union {p}
    BY <1>2 DEF ShutDown
  <2>2. QED
    BY <2>1 DEF Complaints, IInv, TypeOK
<1>3. QED
  BY <1>1, <1>2 DEF Next, Request, Begin, Panic, FlushSpans, FlushLogs, Catch, ReplyOk, ReplyFailed,
     EndSpan, TakeBatch, FinishBatch, DropFirst, DropSecond, ShutdownOrder, Providers, Exit, vars

\* A request's step begins or offers one record, or flushes one queue.
LEMMA RequestMapped ==
  ASSUME IInv, Unoffered, NEW r \in Requests, Request(r)
  PROVE  Mapped
<1>0. TypeOK /\ Alive /\ UNCHANGED <<provider, complained, main>>
  BY DEF IInv, Request, Begin, Panic, FlushSpans, FlushLogs, Catch, ReplyOk, ReplyFailed, EndSpan,
     Goto
<1>1. UNCHANGED <<StateOf("tracer"), StateOf("logger")>> /\ StateOf("tracer") # "gone"
  BY <1>0, StateStays, States DEF Providers
<1>2. CASE Begin(r)
  <2>1. /\ step[r] = "idle" /\ rec'[r].span = "open"
        /\ \A q \in Requests, k \in Kinds : q # r \/ k # "span" => rec'[q][k] = rec[q][k]
    BY <1>0, <1>2, KindsOfProviders DEF Begin, Goto, TypeOK
  <2>2. SpanFates[r] = "none"
    BY <2>1, FatesOf, Outcomes DEF Unoffered
  <2>3. SpanFates' = [SpanFates EXCEPT ![r] = "open"]
    <3>1. \A q \in Requests : q # r => rec'[q].span = rec[q].span
      BY <2>1, KindsOfProviders
    <3>2. Outcome[rec'[r].span] = "open"
      BY <2>1, Outcomes
    <3>3. QED
      BY <3>1, <3>2, SpanOffered
  <2>4. Tracer!Next
    BY <1>1, <2>2, <2>3 DEF Tracer!Begin, Tracer!Next
  <2>5. UNCHANGED Logger!vars
    BY <1>1, <2>1, EventsStay, KindsOfProviders DEF Logger!vars
  <2>6. QED
    BY <2>4, <2>5 DEF Mapped
<1>3. CASE Panic(r) \/ Catch(r) \/ ReplyFailed(r)
  <2>1. PICK kind \in Logs : Emit(r, kind) /\ rec[r][kind] = "none"
    <3>1. CASE Panic(r)
      BY <1>0, <3>1, KindsOfProviders DEF Panic, Goto, Unoffered
    <3>2. CASE Catch(r)
      BY <1>0, <3>2, KindsOfProviders DEF Catch, Goto, IInv, Records
    <3>3. CASE ReplyFailed(r)
      BY <1>0, <3>3, KindsOfProviders DEF ReplyFailed, Goto, Unoffered
    <3>4. QED
      BY <1>3, <3>1, <3>2, <3>3
  <2>2. QED
    BY <1>0, <2>1, EmitOffers DEF Mapped
<1>4. CASE ReplyOk(r)
  BY <1>0, <1>4, BothStay DEF ReplyOk
<1>5. CASE EndSpan(r)
  <2>1. /\ rec[r].span = "open" /\ rec'[r].span = Fate("span")
        /\ \A q \in Requests, k \in Kinds : q # r \/ k # "span" => rec'[q][k] = rec[q][k]
        /\ Fate("span") \in {"late", "dropped", "queued"}
        /\ Fate("span") = "late" <=> provider["tracer"] = "shutdown"
    BY <1>0, <1>5, Emitted, Fates, KindsOfProviders DEF EndSpan, Goto, TypeOK
  <2>2. provider["tracer"] \in {"live", "shutdown"}
    BY <1>0 DEF TypeOK, Providers
  <2>3. Fate("span") = "queued" => StateOf("tracer") = "up"
    BY <1>0, <2>1, <2>2, States DEF Providers
  <2>4. SpanFates[r] = "open" /\ SpanFates' = [SpanFates EXCEPT ![r] = Outcome[Fate("span")]]
    BY <2>1, FatesOf, Outcomes, SpanOffered, KindsOfProviders
  <2>5. Tracer!Next
    BY <1>1, <2>1, <2>3, <2>4, Outcomes DEF Tracer!Offer, Tracer!Next
  <2>6. UNCHANGED Logger!vars
    BY <1>1, <2>1, EventsStay, KindsOfProviders DEF Logger!vars
  <2>7. QED
    BY <2>5, <2>6 DEF Mapped
<1>6. CASE FlushSpans(r) \/ FlushLogs(r)
  <2>1. CASE UNCHANGED rec
    BY <1>0, <2>1, BothStay
  <2>2. CASE \E p \in Providers : Flush(p)
    <3>1. PICK p \in Providers : Flush(p)
      BY <2>2
    <3>2. StateOf(p) = "up"
      BY <1>0, <3>1, States DEF Flush
    <3>3. QED
      BY <1>0, <3>1, <3>2, FlushMoves, SentMapped
  <2>3. QED
    BY <1>6, <2>1, <2>2 DEF FlushSpans, FlushLogs, Providers
<1>7. QED
  BY <1>2, <1>3, <1>4, <1>5, <1>6 DEF Request

\* The processors' threads.
LEMMA BatchMapped ==
  ASSUME IInv, NEW p \in Providers, TakeBatch(p) \/ FinishBatch(p)
  PROVE  Mapped
<1>0. Alive /\ TypeOK /\ UNCHANGED <<provider, complained, main>>
  BY DEF IInv, TakeBatch, FinishBatch
<1>1. CASE TakeBatch(p)
  <2>1. \A r \in Requests, kind \in Kinds :
          \/ rec'[r][kind] = rec[r][kind]
          \/ rec[r][kind] = "queued" /\ rec'[r][kind] = "sending"
    BY <1>0, <1>1, Moved DEF TakeBatch
  <2>2. QED
    BY <1>0, <2>1, BothStay, Outcomes
<1>2. CASE FinishBatch(p)
  <2>1. PICK outcome \in {"exported", "refused"} : Move(p, {"sending"}, outcome)
    BY <1>2 DEF FinishBatch
  <2>2. \A r \in Requests, kind \in Kinds :
          rec'[r][kind] = IF Provider(kind) = p /\ rec[r][kind] = "sending"
                            THEN outcome ELSE rec[r][kind]
    <3>1. \A r \in Requests, kind \in Kinds :
            \/ rec'[r][kind] = rec[r][kind] /\ ~(Provider(kind) = p /\ rec[r][kind] \in {"sending"})
            \/ Provider(kind) = p /\ rec[r][kind] \in {"sending"} /\ rec'[r][kind] = outcome
      BY <1>0, <2>1, Moved
    <3>2. QED
      BY <3>1
  <2>3. StateOf(p) \in {"up", "failed"}
    <3>1. PICK r \in Requests, kind \in Kinds : Provider(kind) = p /\ rec[r][kind] = "sending"
      BY <1>2 DEF FinishBatch, Held
    <3>2. provider[p] = "shutdown" => p \in complained
      BY <3>1 DEF IInv, Drained
    <3>3. provider[p] \in {"live", "shutdown"}
      BY <1>0 DEF TypeOK
    <3>4. QED
      BY <1>0, <3>2, <3>3, States
  <2>4. QED
    BY <1>0, <2>2, <2>3, SentMapped
<1>3. QED
  BY <1>1, <1>2

\* The guard shuts one provider down and leaves the other as it is.
LEMMA DropMapped ==
  ASSUME IInv, Complaints, DropFirst \/ DropSecond
  PROVE  Mapped
<1>1. PICK p \in Providers : ShutDown(p) /\ provider[p] = "live" /\ Alive /\ Alive'
  BY DEF DropFirst, DropSecond, ShutdownOrder, Providers, IInv, Shutdowns, Alive
<1>2. p \notin complained
  BY <1>1 DEF Complaints
<1>3. /\ \A o \in Providers : o # p => StateOf(o)' = StateOf(o)
      /\ StateOf(p) = "up"
      /\ \/ UNCHANGED rec /\ StateOf(p)' = "failed"
         \/ /\ Flush(p) /\ StateOf(p)' = "down"
            /\ \A r \in Requests, kind \in Kinds : Provider(kind) = p => rec[r][kind] # "sending"
  BY <1>1, <1>2, ShutDownMoves
<1>4. CASE UNCHANGED rec /\ StateOf(p)' = "failed"
  <2>1. SpanFates' = SpanFates /\ EventFates' = EventFates
    BY <1>4, SpansStay, EventsStay
  <2>2. QED
    BY <1>3, <1>4, <2>1 DEF Mapped, Tracer!Next, Tracer!Fail, Tracer!vars,
       Logger!Next, Logger!Fail, Logger!vars, Providers
<1>5. CASE /\ Flush(p) /\ StateOf(p)' = "down"
           /\ \A r \in Requests, kind \in Kinds : Provider(kind) = p => rec[r][kind] # "sending"
  <2>1. PICK outcome \in {"exported", "refused"} :
          \A r \in Requests, kind \in Kinds :
            rec'[r][kind] = IF Provider(kind) = p /\ rec[r][kind] = "queued"
                              THEN outcome ELSE rec[r][kind]
    BY <1>5, FlushMoves
  <2>2. CASE p = "tracer"
    <3>1. \A r \in Requests :
            rec'[r].span = IF rec[r].span = "queued" THEN outcome ELSE rec[r].span
      BY <2>1, <2>2, KindsOfProviders
    <3>2. PICK batch \in SUBSET Tracer!HeldRecords :
            batch = {r \in Requests : rec[r].span = "queued"} /\ Tracer!Send(batch)
      BY <3>1, SpansSent
    <3>3. Tracer!HeldRecords \subseteq batch
      <4>1. ASSUME NEW r \in Requests, Outcome[rec[r].span] = "held"
            PROVE  rec[r].span \in {"queued", "sending"}
        BY <4>1, Outcomes, KindsOfProviders DEF IInv, TypeOK
      <4>2. QED
        BY <1>5, <2>2, <3>2, <4>1, FatesOf, KindsOfProviders DEF Tracer!HeldRecords
    <3>4. batch = Tracer!HeldRecords
      BY <3>2, <3>3
    <3>5. Tracer!Next
      BY <1>3, <1>5, <2>2, <3>2, <3>4 DEF Tracer!ShutDown, Tracer!Next
    <3>6. \A r \in Requests, kind \in Logs : rec'[r][kind] = rec[r][kind]
      BY <2>1, <2>2, KindsOfProviders
    <3>7. UNCHANGED Logger!vars
      BY <1>3, <2>2, <3>6, EventsStay DEF Logger!vars, Providers
    <3>8. QED
      BY <3>5, <3>7 DEF Mapped
  <2>3. CASE p = "logger"
    <3>1. \A r \in Requests, kind \in Logs :
            rec'[r][kind] = IF rec[r][kind] = "queued" THEN outcome ELSE rec[r][kind]
      BY <2>1, <2>3, KindsOfProviders
    <3>2. PICK batch \in SUBSET Logger!HeldRecords :
            batch = {e \in Events : rec[e[1]][e[2]] = "queued"} /\ Logger!Send(batch)
      BY <3>1, EventsSent
    <3>3. Logger!HeldRecords \subseteq batch
      <4>1. ASSUME NEW e \in Events, EventFates[e] = "held" PROVE e \in batch
        <5>1. e[1] \in Requests /\ e[2] \in Logs /\ EventFates[e] = Outcome[rec[e[1]][e[2]]]
          BY FatesOf DEF EventFates
        <5>2. rec[e[1]][e[2]] \in RecordStates
          BY <5>1, KindsOfProviders DEF IInv, TypeOK, RecordStates
        <5>3. rec[e[1]][e[2]] \in {"queued", "sending"}
          BY <4>1, <5>1, <5>2, Outcomes DEF RecordStates
        <5>4. QED
          BY <1>5, <2>3, <3>2, <5>1, <5>3, KindsOfProviders
      <4>2. QED
        BY <4>1 DEF Logger!HeldRecords
    <3>4. batch = Logger!HeldRecords
      BY <3>2, <3>3
    <3>5. Logger!Next
      BY <1>3, <1>5, <2>3, <3>2, <3>4 DEF Logger!ShutDown, Logger!Next
    <3>6. \A r \in Requests : rec'[r].span = rec[r].span
      BY <2>1, <2>3, KindsOfProviders
    <3>7. UNCHANGED Tracer!vars
      BY <1>3, <2>3, <3>6, SpansStay DEF Tracer!vars, Providers
    <3>8. QED
      BY <3>5, <3>7 DEF Mapped
  <2>4. QED
    BY <2>2, <2>3 DEF Providers
<1>6. QED
  BY <1>3, <1>4, <1>5

\* Whatever is left in the process is lost with it.
LEMMA ExitMapped ==
  ASSUME IInv, Exit
  PROVE  Mapped
<1>1. /\ StateOf("tracer") # "gone" /\ StateOf("logger") # "gone"
      /\ StateOf("tracer")' = "gone" /\ StateOf("logger")' = "gone"
  <2>1. Alive /\ ~Alive'
    BY DEF Exit, Alive
  <2>2. QED
    BY <2>1, States DEF StateOf, Providers
<1>2. \A r \in Requests, kind \in Kinds :
        Outcome[rec'[r][kind]] = IF Outcome[rec[r][kind]] \in {"open", "held"}
                                   THEN "lost" ELSE Outcome[rec[r][kind]]
  <2> SUFFICES ASSUME NEW r \in Requests, NEW kind \in Kinds
               PROVE  Outcome[rec'[r][kind]] = IF Outcome[rec[r][kind]] \in {"open", "held"}
                                                 THEN "lost" ELSE Outcome[rec[r][kind]]
    OBVIOUS
  <2>1. rec'[r][kind] = IF rec[r][kind] \in {"open", "queued", "sending"}
                          THEN "lost" ELSE rec[r][kind]
    BY DEF Exit
  <2>2. rec[r][kind] \in RecordStates
    BY DEF IInv, TypeOK, RecordStates
  <2>3. QED
    BY <2>1, <2>2, Outcomes DEF RecordStates
<1>3. SpanFates' = [r \in Requests |->
                      IF SpanFates[r] \in {"open", "held"} THEN "lost" ELSE SpanFates[r]]
  BY <1>2, KindsOfProviders DEF SpanFates
<1>4. EventFates' = [e \in Events |->
                       IF EventFates[e] \in {"open", "held"} THEN "lost" ELSE EventFates[e]]
  <2>1. \A e \in Events : e[1] \in Requests /\ e[2] \in Kinds
    BY FatesOf, KindsOfProviders
  <2>2. QED
    BY <1>2, <2>1 DEF EventFates
<1>5. QED
  BY <1>1, <1>3, <1>4 DEF Mapped, Tracer!Next, Tracer!Vanish, Logger!Next, Logger!Vanish

LEMMA FateStep == IInv /\ Unoffered /\ Complaints /\ [Next]_vars => Mapped
<1> SUFFICES ASSUME IInv, Unoffered, Complaints, [Next]_vars PROVE Mapped
  OBVIOUS
<1>1. CASE UNCHANGED vars
  BY <1>1, BothStay DEF vars
<1>2. QED
  BY <1>1, RequestMapped, BatchMapped, DropMapped, ExitMapped DEF Next

LEMMA FateInit == Init => Complaints /\ Tracer!Init /\ Logger!Init
<1> SUFFICES ASSUME Init PROVE Complaints /\ Tracer!Init /\ Logger!Init
  OBVIOUS
<1>1. Complaints
  BY DEF Init, Complaints
<1>2. StateOf("tracer") = "up" /\ StateOf("logger") = "up"
  BY DEF Init, StateOf, Alive, Providers
<1>3. \A r \in Requests, kind \in Kinds : Outcome[rec[r][kind]] = "none"
  BY Outcomes DEF Init
<1>4. SpanFates = [r \in Requests |-> "none"]
  BY <1>3, KindsOfProviders DEF SpanFates
<1>5. EventFates = [e \in Events |-> "none"]
  BY <1>3, FatesOf, KindsOfProviders DEF EventFates
<1>6. QED
  BY <1>1, <1>2, <1>4, <1>5 DEF Tracer!Init, Logger!Init

-----------------------------------------------------------------------------
(* The truncated user agent *)

\* Every nonempty set of natural numbers has a least one: induction, in the form of a
\* smallest counterexample.
LEMMA Smallest ==
  ASSUME NEW T \in SUBSET Nat, T # {}
  PROVE  \E m \in T : \A n \in T : m <= n
<1> DEFINE Below == {pair \in Nat \X Nat : pair[1] < pair[2]}
<1>1. Below = OpToRel(<, Nat)
  BY Zenon DEF OpToRel
<1>2. IsWellFoundedOn(Below, Nat)
  BY <1>1, NatLessThanWellFounded, Zenon
<1>3. PICK m \in T : \A n \in T : <<n, m>> \notin Below
  <2> HIDE DEF Below
  <2>1. QED
    BY <1>2, WFMin, Zenon
<1>4. ASSUME NEW n \in T PROVE m <= n
  <2>1. m \in Nat /\ n \in Nat
    OBVIOUS
  <2>2. ~(n < m)
    BY <1>3, <2>1
  <2>3. QED
    BY <2>1, <2>2
<1>5. QED
  BY <1>4

\* cut is the last boundary of s up to i.
LastCut(s, i, cut) == cut \in s.cuts /\ cut <= i /\ \A other \in s.cuts : other <= i => other <= cut

LEMMA LastCutExists ==
  ASSUME NEW s \in Strings, NEW i \in Nat
  PROVE  \E cut \in s.cuts : LastCut(s, i, cut)
<1> DEFINE distances == {i - cut : cut \in {c \in s.cuts : c <= i}}
<1>1. 0 \in s.cuts /\ s.cuts \subseteq Nat
  BY TelemetryAssumption DEF Strings
<1>2. distances \in SUBSET Nat /\ distances # {}
  BY <1>1
<1>3. PICK least \in distances : \A n \in distances : least <= n
  BY <1>2, Smallest
<1>4. PICK cut \in s.cuts : cut <= i /\ least = i - cut
  BY <1>3
<1>5. ASSUME NEW other \in s.cuts, other <= i PROVE other <= cut
  <2>1. i - other \in distances
    BY <1>5
  <2>2. i - cut <= i - other
    BY <1>3, <1>4, <2>1
  <2>3. cut \in Nat /\ other \in Nat
    BY <1>1
  <2>4. QED
    BY <2>2, <2>3
<1>6. QED
  BY <1>4, <1>5 DEF LastCut

LEMMA LastCutUnique ==
  ASSUME NEW s \in Strings, NEW i \in Nat, NEW a, NEW b, LastCut(s, i, a), LastCut(s, i, b)
  PROVE  a = b
BY TelemetryAssumption DEF LastCut, Strings

\* At a boundary the last cut is that boundary, elsewhere it is the one of the byte before.
LEMMA LastCutStep ==
  ASSUME NEW s \in Strings, NEW i \in Nat, NEW cut
  PROVE  /\ i \in s.cuts => LastCut(s, i, i)
         /\ i \notin s.cuts => i > 0
         /\ i \notin s.cuts /\ LastCut(s, i - 1, cut) => LastCut(s, i, cut)
BY TelemetryAssumption DEF LastCut, Strings

\* The loop's function, and what any such function computes.
Stepping(s, max, end) ==
  end = [i \in 0..max |-> IF i \in s.cuts THEN i ELSE end[i - 1]]

LEMMA SteppingExists ==
  ASSUME NEW s \in Strings, NEW max \in Nat
  PROVE  \E end : Stepping(s, max, end)
<1> DEFINE end == [i \in 0..max |-> CHOOSE cut \in s.cuts : LastCut(s, i, cut)]
<1>1. ASSUME NEW i \in 0..max PROVE LastCut(s, i, end[i])
  BY LastCutExists
<1>2. ASSUME NEW i \in 0..max PROVE end[i] = IF i \in s.cuts THEN i ELSE end[i - 1]
  <2> HIDE DEF end
  <2>1. CASE i \in s.cuts
    BY <1>1, <2>1, LastCutStep, LastCutUnique
  <2>2. CASE i \notin s.cuts
    <3>1. i > 0 /\ i - 1 \in 0..max
      BY <2>2, LastCutStep
    <3>2. LastCut(s, i, end[i - 1])
      BY <1>1, <2>2, <3>1, LastCutStep
    <3>3. QED
      BY <1>1, <2>2, <3>2, LastCutUnique
  <2>3. QED
    BY <2>1, <2>2
<1>3. end = [i \in 0..max |-> IF i \in s.cuts THEN i ELSE end[i - 1]]
  <2>1. end = [i \in 0..max |-> end[i]]
    OBVIOUS
  <2> HIDE DEF end
  <2>2. QED
    BY <1>2, <2>1
<1>4. QED
  BY <1>3 DEF Stepping

LEMMA SteppingComputes ==
  ASSUME NEW s \in Strings, NEW max \in Nat, NEW end, Stepping(s, max, end), NEW i \in 0..max
  PROVE  LastCut(s, i, end[i])
<1> DEFINE wrong == {j \in 0..max : ~LastCut(s, j, end[j])}
<1>1. SUFFICES ASSUME wrong # {} PROVE FALSE
  OBVIOUS
<1>2. PICK j \in wrong : \A k \in wrong : j <= k
  <2>1. wrong \in SUBSET Nat
    OBVIOUS
  <2> HIDE DEF wrong
  <2>2. QED
    BY <1>1, <2>1, Smallest
<1>3. end[j] = IF j \in s.cuts THEN j ELSE end[j - 1]
  BY <1>2 DEF Stepping
<1>4. CASE j \in s.cuts
  BY <1>2, <1>3, <1>4, LastCutStep
<1>5. CASE j \notin s.cuts
  <2>1. j > 0 /\ j - 1 \in 0..max
    BY <1>2, <1>5, LastCutStep
  <2>2. LastCut(s, j - 1, end[j - 1])
    BY <1>2, <2>1
  <2>3. QED
    BY <1>2, <1>3, <1>5, <2>2, LastCutStep
<1>6. QED
  BY <1>4, <1>5

\* What is kept of any string is its last cut up to the limit.
LEMMA TruncateKeeps ==
  ASSUME NEW s \in Strings, NEW max \in Nat
  PROVE  LastCut(s, max, Truncate(s, max))
<1>1. CASE s.bytes <= max
  BY <1>1, TelemetryAssumption DEF Truncate, LastCut, Strings
<1>2. CASE ~(s.bytes <= max)
  <2> DEFINE end == CHOOSE f : f = [i \in 0..max |-> IF i \in s.cuts THEN i ELSE f[i - 1]]
  <2>1. Stepping(s, max, end)
    BY SteppingExists DEF Stepping
  <2>2. Truncate(s, max) = end[max]
    BY <1>2 DEF Truncate
  <2> HIDE DEF end
  <2>3. QED
    BY <2>1, <2>2, SteppingComputes
<1>3. QED
  BY <1>1, <1>2

\* Every character being at most four bytes long, less than one is lost to the limit.
LEMMA TruncateLoses ==
  ASSUME NEW s \in Strings, NEW max \in Nat
  PROVE  Truncate(s, max) = s.bytes \/ max < Truncate(s, max) + 4
<1> DEFINE kept == Truncate(s, max)
<1>1. LastCut(s, max, kept) /\ kept \in 0..s.bytes /\ s.bytes \in Nat
  BY TruncateKeeps, TelemetryAssumption DEF LastCut, Strings
<1> HIDE DEF kept
<1>2. ASSUME kept # s.bytes PROVE max < kept + 4
  <2>1. PICK cut \in s.cuts : kept < cut /\ cut <= kept + 4
    BY <1>1, <1>2 DEF Strings
  <2>2. cut \in Nat /\ ~(cut <= max)
    BY <1>1, <2>1, TelemetryAssumption DEF LastCut, Strings
  <2>3. QED
    BY <1>1, <2>1, <2>2
<1>3. QED
  BY <1>2 DEF kept

-----------------------------------------------------------------------------
(* The theorems *)

\* Every variable stays in its type, and a span is open exactly while its request is.
THEOREM TelemetryTypes == Spec => []TypeOK
<1>1. IInv => TypeOK
  BY DEF IInv
<1>2. QED
  BY InitIInv, NextIInv, <1>1, PTL DEF Spec

\* A panic's record is with the collector, or refused, before the stack unwinds, unless
\* the hook gave up waiting or the record was never taken (guard.rs:75-79).
THEOREM PanicsReported == Spec => []PanicReported
<1>1. IInv => PanicReported
  BY DEF IInv
<1>2. QED
  BY InitIInv, NextIInv, <1>1, PTL DEF Spec

\* The guard leaves nothing behind silently, and spans that made it are complete
\* (guard.rs:57-72).
THEOREM OrderlyShutdown == Spec => []ShutdownIsOrderly
<1>1. IInv => ShutdownIsOrderly
  <2> SUFFICES ASSUME IInv PROVE ShutdownIsOrderly
    OBVIOUS
  <2>1. ASSUME main = "down", NEW p \in Providers \ complained
        PROVE  Held(p, {"queued", "sending"}) = {}
    <3>1. provider[p] = "shutdown"
      BY <2>1 DEF IInv, Shutdowns, Providers
    <3>2. QED
      BY <2>1, <3>1 DEF IInv, Drained, Held
  <2>2. ASSUME NEW r \in Requests, NEW kind \in Logs, rec[r].span = "exported"
        PROVE  rec[r][kind] # "late"
    BY <2>2 DEF IInv, Complete
  <2>3. QED
    BY <2>1, <2>2 DEF ShutdownIsOrderly
<1>2. QED
  BY InitIInv, NextIInv, <1>1, PTL DEF Spec

\* Whatever its length and wherever its characters end, a user agent is cut to the longest
\* run of whole characters within the limit, whatever the limit (http.rs:107-109).
THEOREM AgentsCut == Spec => []AgentsAreCut
<1>1. EveryAgentFits
  <2> SUFFICES ASSUME NEW s \in Strings PROVE WholeAndFitting(s, Truncate(s, MaxUserAgent))
    BY DEF EveryAgentFits
  <2>1. MaxUserAgent \in Nat
    BY TelemetryAssumption
  <2>2. QED
    BY <2>1, TruncateKeeps, TruncateLoses DEF WholeAndFitting, LastCut
<1>2. AgentsAreCut
  BY <1>1 DEF AgentsAreCut
<1>3. QED
  BY <1>2, PTL

\* However requests, batches, the panic hook's flushes and the guard's shutdown interleave,
\* each provider does with its records what RecordFate says (guard.rs:57-79): every record
\* is emitted once, sent once, and lost only by a full queue, a provider that was shut down
\* or the end of the process.
THEOREM PipelinesKeepRecords == Spec => ImplementsPipelines
<1>1. IInv /\ Unoffered /\ Complaints /\ [Next]_vars => [Tracer!Next]_(Tracer!vars)
  BY FateStep DEF Mapped
<1>2. IInv /\ Unoffered /\ Complaints /\ [Next]_vars => [Logger!Next]_(Logger!vars)
  BY FateStep DEF Mapped
<1>3. QED
  BY <1>1, <1>2, InitIInv, NextIInv, UnofferedInit, UnofferedStep, FateInit, ComplaintsStep, PTL
     DEF Spec, ImplementsPipelines, Tracer!Spec, Logger!Spec

\* What a step of either provider leaves as it is.
LEMMA SpanSettled ==
  ASSUME Tracer!Next, NEW r \in Requests, SpanFates[r] \in {"exported", "refused", "lost"}
  PROVE  SpanFates'[r] = SpanFates[r]
<1>1. SpanFates = [q \in Requests |-> SpanFates[q]]
  BY DEF SpanFates
<1>2. QED
  BY <1>1 DEF Tracer!Next, Tracer!Begin, Tracer!Offer, Tracer!Export, Tracer!ShutDown, Tracer!Fail,
     Tracer!Vanish, Tracer!Send, Tracer!HeldRecords

LEMMA EventSettled ==
  ASSUME Logger!Next, NEW e \in Events, EventFates[e] \in {"exported", "refused", "lost"}
  PROVE  EventFates'[e] = EventFates[e]
<1>1. EventFates = [d \in Events |-> EventFates[d]]
  BY DEF EventFates
<1>2. QED
  BY <1>1 DEF Logger!Next, Logger!Begin, Logger!Offer, Logger!Export, Logger!ShutDown, Logger!Fail,
     Logger!Vanish, Logger!Send, Logger!HeldRecords

\* guard.rs:57-79: no flush, batch, shutdown or exit touches a record a second time: what
\* the collector took or refused is never sent again, and never counted as lost.
THEOREM OutcomesFinal == Spec => Tracer!OutcomesAreFinal /\ Logger!OutcomesAreFinal
<1>1. [Tracer!Next]_(Tracer!vars) => [Tracer!SettledStay]_(Tracer!vars)
  BY SpanSettled DEF Tracer!SettledStay
<1>2. [Logger!Next]_(Logger!vars) => [Logger!SettledStay]_(Logger!vars)
  BY EventSettled DEF Logger!SettledStay
<1>3. QED
  BY <1>1, <1>2, PipelinesKeepRecords, PTL DEF ImplementsPipelines, Tracer!Spec, Logger!Spec,
     Tracer!OutcomesAreFinal, Logger!OutcomesAreFinal

\* guard.rs:98-107: once a provider's shutdown has succeeded its queue stays empty, however
\* late the records that requests and panic hooks still offer it.
THEOREM DownHoldsNothing == Spec => Tracer!DownIsEmpty /\ Logger!DownIsEmpty
<1>1. IInv => (StateOf("tracer") = "down" => Tracer!HeldRecords = {})
  <2> SUFFICES ASSUME IInv, StateOf("tracer") = "down", NEW r \in Requests,
                      Outcome[rec[r].span] = "held"
               PROVE  FALSE
    BY FatesOf DEF Tracer!HeldRecords
  <2>1. rec[r].span \in {"queued", "sending"}
    BY KindsOfProviders, Outcomes DEF IInv, TypeOK
  <2>2. provider["tracer"] # "live" /\ "tracer" \notin complained
    BY DEF StateOf
  <2>3. QED
    BY <2>1, <2>2, KindsOfProviders DEF IInv, TypeOK, Drained, Providers
<1>2. IInv => (StateOf("logger") = "down" => Logger!HeldRecords = {})
  <2> SUFFICES ASSUME IInv, StateOf("logger") = "down", NEW r \in Requests, NEW kind \in Logs,
                      Outcome[rec[r][kind]] = "held"
               PROVE  FALSE
    <3>1. ASSUME NEW e \in Events
          PROVE  e[1] \in Requests /\ e[2] \in Logs /\ EventFates[e] = Outcome[rec[e[1]][e[2]]]
      BY FatesOf DEF EventFates
    <3>2. QED
      BY <3>1 DEF Logger!HeldRecords
  <2>1. rec[r][kind] \in {"queued", "sending"}
    <3>1. rec[r][kind] \in RecordStates
      BY KindsOfProviders DEF IInv, TypeOK, RecordStates
    <3>2. QED
      BY <3>1, Outcomes DEF RecordStates
  <2>2. provider["logger"] # "live" /\ "logger" \notin complained
    BY DEF StateOf
  <2>3. QED
    BY <2>1, <2>2, KindsOfProviders DEF IInv, TypeOK, Drained, Providers
<1>3. QED
  BY <1>1, <1>2, InitIInv, NextIInv, PTL DEF Spec, Tracer!DownIsEmpty, Logger!DownIsEmpty
=============================================================================
