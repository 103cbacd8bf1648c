------------------------------- MODULE RecordFate -------------------------------
(***************************************************************************)
(* What one provider of the telemetry pipeline does with the records it is *)
(* offered, whatever its queue, its batches and its threads.  A record is  *)
(* offered at most once, and what becomes of it becomes of it once: it is  *)
(* lost, or it is held and later sent to the collector, which takes it or  *)
(* refuses it.  A provider that was shut down holds nothing, unless its    *)
(* shutdown failed.                                                        *)
(***************************************************************************)
CONSTANT Records

VARIABLES fate,    \* per record: "none", "open", "held", or in the end "exported",
                   \* "refused" or "lost"
          state    \* the provider: "up", "down", "failed" or, with the process, "gone"

vars == <<fate, state>>

TypeOK ==
  /\ fate \in [Records -> {"none", "open", "held", "exported", "refused", "lost"}]
  /\ state \in {"up", "down", "failed", "gone"}

\* Something is begun that will leave a record at its end.
Begin(r) == /\ state # "gone" /\ fate[r] = "none"
            /\ fate' = [fate EXCEPT ![r] = "open"]
            /\ UNCHANGED state

\* A provider that is shut down, or has no room, does not take the record.
Offer(r) == /\ state # "gone" /\ fate[r] \in {"none", "open"}
            /\ \/ state = "up" /\ fate' = [fate EXCEPT ![r] = "held"]
               \/ fate' = [fate EXCEPT ![r] = "lost"]
            /\ UNCHANGED state

HeldRecords == {r \in Records : fate[r] = "held"}

\* A batch is sent, and the collector takes it or does not.
Send(batch) ==
  \E outcome \in {"exported", "refused"} :
    fate' = [r \in Records |-> IF r \in batch THEN outcome ELSE fate[r]]

Export == /\ state \in {"up", "failed"}
          /\ \E batch \in SUBSET HeldRecords : Send(batch)
          /\ UNCHANGED state

ShutDown == state = "up" /\ state' = "down" /\ Send(HeldRecords)
Fail     == state = "up" /\ state' = "failed" /\ UNCHANGED fate

\* The process ends.
Vanish == /\ state # "gone" /\ state' = "gone"
          /\ fate' = [r \in Records |-> IF fate[r] \in {"open", "held"} THEN "lost" ELSE fate[r]]

Next == \/ \E r \in Records : Begin(r) \/ Offer(r)
        \/ Export \/ ShutDown \/ Fail \/ Vanish

Init == fate = [r \in Records |-> "none"] /\ state = "up"

Spec == Init /\ [][Next]_vars

-----------------------------------------------------------------------------
(* What follows for whoever implements it *)

\* The outcome of a record is final: nothing is sent twice, nothing that was refused is
\* retried and nothing that was exported is counted lost.
SettledStay ==
  \A r \in Records : fate[r] \in {"exported", "refused", "lost"} => fate'[r] = fate[r]
OutcomesAreFinal == [][SettledStay]_vars

\* A provider whose shutdown succeeded never holds a record again.
DownIsEmpty == [](state = "down" => HeldRecords = {})
=============================================================================
