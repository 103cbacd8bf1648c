------------------------------ MODULE RateLimiter ------------------------------
(***************************************************************************)
(* The per-IP rate limiter of the site listener: one governor shared by    *)
(* every connection, keyed on the peer address, and the task that evicts   *)
(* idle entries from its table.                                            *)
(*                                                                         *)
(* The governor keeps per client one time, the theoretical arrival time    *)
(* (GCRA); a client without an entry is one that was never seen.  Its      *)
(* check is one atomic update of the entry, so a check and a sweep never   *)
(* overlap here either.  Time advances in units smaller than the           *)
(* replenishment interval.                                                 *)
(***************************************************************************)
EXTENDS Integers

CONSTANTS Ips,           \* peer addresses
          Burst,         \* BURST_SIZE
          Cost,          \* REPLENISH_INTERVAL, in time units
          EvictEvery,    \* EVICTION_INTERVAL, in time units
          MaxTime        \* bound: the clock of a run

ASSUME LimiterAssumption ==
  /\ Burst \in Nat \ {0} /\ Cost \in Nat \ {0} /\ EvictEvery \in Nat \ {0}
  /\ MaxTime \in Nat

VARIABLES
  now,
  tracked,     \* the clients with an entry
  tat,         \* their theoretical arrival times; 0 without an entry
  nextEvict,   \* the eviction interval's next deadline
  answer,      \* per client, the latest decision
  audited,     \* history: the client an auditor counts for,
  since,       \*          from when,
  count        \*          and what it was admitted since

vars == <<now, tracked, tat, nextEvict, answer, audited, since, count>>

-----------------------------------------------------------------------------
\* A client without an entry starts with nothing spent.
Arrival(ip) == IF ip \in tracked THEN tat[ip] ELSE now

\* Slip: idle time is banked instead of being capped at a full bucket.
ChargeBanking(ip) == Arrival(ip) + Cost

\* The arrival time after admitting a request now.
Charge(ip) == (IF Arrival(ip) > now THEN Arrival(ip) ELSE now) + Cost

Conforms(ip) == Arrival(ip) - now <= (Burst - 1) * Cost

Init ==
  /\ now = 0 /\ tracked = {} /\ tat = [ip \in Ips |-> 0]
  /\ nextEvict = 0                       \* tokio's interval first ticks at once
  /\ answer = [ip \in Ips |-> "none"]
  /\ audited \in Ips /\ since = 0 /\ count = 0

Admit(ip) ==
  /\ Conforms(ip)
  /\ tracked' = tracked \union {ip}
  /\ tat' = [tat EXCEPT ![ip] = Charge(ip)]
  /\ answer' = [answer EXCEPT ![ip] = "allow"]
  /\ count' = IF ip = audited THEN count + 1 ELSE count
  /\ UNCHANGED <<now, nextEvict, audited, since>>

\* Slip: a rejected request is charged as well.
RejectCharging(ip) ==
  /\ ~Conforms(ip)
  /\ tat' = [tat EXCEPT ![ip] = Charge(ip)]
  /\ answer' = [answer EXCEPT ![ip] = "deny"]
  /\ UNCHANGED <<now, tracked, nextEvict, audited, since, count>>

\* 429: the entry is left as it was.
Reject(ip) ==
  /\ ~Conforms(ip)
  /\ answer' = [answer EXCEPT ![ip] = "deny"]
  /\ UNCHANGED <<now, tracked, tat, nextEvict, audited, since, count>>

\* Slips: entries not yet idle are dropped; nothing is dropped; the entry goes but
\* its time stays behind.
EvictEarly ==
  /\ now >= nextEvict
  /\ nextEvict' = nextEvict + EvictEvery
  /\ tracked' = {ip \in tracked : tat[ip] > now + Cost}
  /\ tat' = [ip \in Ips |-> IF ip \in tracked' THEN tat[ip] ELSE 0]
  /\ UNCHANGED <<now, answer, audited, since, count>>

EvictNothing ==
  /\ now >= nextEvict
  /\ nextEvict' = nextEvict + EvictEvery
  /\ UNCHANGED <<now, tracked, tat, answer, audited, since, count>>

\* One tick of spawn_eviction's loop: retain_recent keeps the entries whose
\* arrival time is still ahead.
Evict ==
  /\ now >= nextEvict
  /\ nextEvict' = nextEvict + EvictEvery
  /\ tracked' = {ip \in tracked : tat[ip] > now}
  /\ tat' = [ip \in Ips |-> IF ip \in tracked' THEN tat[ip] ELSE 0]
  /\ UNCHANGED <<now, answer, audited, since, count>>

\* A due eviction runs before another unit passes.
Tick ==
  /\ now < MaxTime /\ now < nextEvict
  /\ now' = now + 1
  /\ UNCHANGED <<tracked, tat, nextEvict, answer, audited, since, count>>

\* The auditor starts counting afresh, whenever it likes.
Audit ==
  /\ since' = now /\ count' = 0
  /\ UNCHANGED <<now, tracked, tat, nextEvict, answer, audited>>

Next == Tick \/ Evict \/ Audit \/ \E ip \in Ips : Admit(ip) \/ Reject(ip)

Spec == Init /\ [][Next]_vars

-----------------------------------------------------------------------------
(* Properties *)

TypeOK ==
  /\ now \in 0..MaxTime /\ tracked \subseteq Ips /\ tat \in [Ips -> Nat]
  /\ \A ip \in Ips \ tracked : tat[ip] = 0
  /\ nextEvict \in Nat
  /\ answer \in [Ips -> {"none", "allow", "deny"}]
  /\ audited \in Ips /\ since \in 0..MaxTime /\ count \in Nat

\* limits.rs:1-2: in any window, opened at any moment, a client is admitted at most
\* the burst plus what the window replenished - evictions in it included.
RateBound == count * Cost <= Burst * Cost + (now - since)

\* A client is never more than a full burst in debt, however long it floods: being
\* rejected costs nothing, so one replenishment interval later it is admitted.
FloodRecovers == \A ip \in Ips : Arrival(ip) - now <= Burst * Cost

\* limits.rs:135-136: an entry outlives the moment its bucket is full again by less
\* than one eviction interval, so the table holds recent clients only.
TableHoldsRecent == \A ip \in tracked : now - tat[ip] < EvictEvery

\* Eviction is invisible: the limiter answers as the bucket without a table does.
Bucket == INSTANCE TokenBucket WITH
  spent <- [ip \in Ips |-> IF Arrival(ip) > now THEN Arrival(ip) - now ELSE 0]

ImplementsBucket == Bucket!Spec
=============================================================================
