-------------------------- MODULE RateLimiter_proofs --------------------------
(***************************************************************************)
(* Proofs about RateLimiter, for every set of clients, burst, interval and *)
(* eviction period.                                                        *)
(***************************************************************************)
EXTENDS RateLimiter, TLAPS

\* What a client has spent, as TokenBucket counts it.
Debt(ip) == IF Arrival(ip) > now THEN Arrival(ip) - now ELSE 0

\* An admission's price, and what a full bucket and one with room for a request
\* come to: the products the proofs are about, as plain integers.
Full == Burst * Cost
Free == (Burst - 1) * Cost

LEMMA Capacity == /\ Full \in Int /\ Free \in Int /\ Full = Free + Cost
                  /\ Free >= 0 /\ Cost > 0 /\ Cost \in Int
<1>1. Burst \in Int /\ Cost \in Int /\ Burst >= 1 /\ Cost >= 1
  BY LimiterAssumption
<1>2. Burst * Cost = (Burst - 1) * Cost + Cost
  BY <1>1
<1>3. (Burst - 1) * Cost >= 0
  BY <1>1
<1>4. QED
  BY <1>1, <1>2, <1>3 DEF Full, Free

LEMMA Price == ASSUME NEW n \in Nat
               PROVE  n * Cost \in Int /\ (n + 1) * Cost = n * Cost + Cost
BY LimiterAssumption

\* The inductive invariant.  The eviction deadline brackets the clock and every
\* entry's time; a client's debt covers what the auditor counted.
Deadlines ==
  /\ now <= nextEvict /\ nextEvict - EvictEvery <= now
  /\ \A ip \in tracked : tat[ip] > nextEvict - EvictEvery
DebtBounded == \A ip \in Ips : Debt(ip) <= Full
DebtCoversCount ==
  /\ since <= now
  /\ count * Cost <= Debt(audited) + (now - since)
IInv == TypeOK /\ Deadlines /\ DebtBounded /\ DebtCoversCount

-----------------------------------------------------------------------------
LEMMA InitIInv == Init => IInv
<1>1. 0 * Cost = 0
  BY LimiterAssumption
<1>2. QED
  BY <1>1, Capacity, LimiterAssumption
     DEF Init, IInv, TypeOK, Deadlines, DebtBounded, DebtCoversCount, Debt, Arrival

LEMMA NextIInv == IInv /\ [Next]_vars => IInv'
<1> SUFFICES ASSUME IInv, [Next]_vars PROVE IInv'
  OBVIOUS
<1> USE LimiterAssumption, Capacity
<1>0. /\ TypeOK /\ Deadlines /\ DebtBounded /\ DebtCoversCount
      /\ \A ip \in Ips : Debt(ip) \in Int /\ Arrival(ip) \in Int
      /\ count * Cost \in Int
  BY Price DEF IInv, TypeOK, Debt, Arrival
<1>1. ASSUME NEW ip \in Ips, Admit(ip) PROVE IInv'
  <2>1. Charge(ip) = now + Debt(ip) + Cost /\ Arrival(ip) - now <= Free
    BY <1>0, <1>1 DEF Admit, Conforms, Charge, Debt, Free, TypeOK
  <2>2. Charge(ip) \in Nat /\ Charge(ip) > now /\ Charge(ip) <= now + Full
    BY <1>0, <2>1 DEF TypeOK, Debt
  <2>3. TypeOK'
    BY <1>0, <1>1, <2>2 DEF TypeOK, Admit
  <2>4. Deadlines'
    BY <1>0, <1>1, <2>2 DEF TypeOK, Admit, Deadlines
  <2>5. \A i \in Ips : Debt(i)' = IF i = ip THEN Debt(ip) + Cost ELSE Debt(i)
    BY <1>0, <1>1, <2>1, <2>2 DEF TypeOK, Admit, Debt, Arrival
  <2>6. DebtBounded'
    BY <1>0, <2>1, <2>2, <2>5 DEF DebtBounded, TypeOK
  <2>7. DebtCoversCount'
    <3>1. CASE ip = audited
      <4>1. (count * Cost)' = count * Cost + Cost
        BY <1>0, <1>1, <3>1, Price DEF Admit, TypeOK
      <4>2. QED
        BY <4>1, <1>0, <1>1, <2>5, <3>1 DEF DebtCoversCount, Admit, TypeOK
    <3>2. CASE ip # audited
      BY <1>0, <1>1, <2>5, <3>2 DEF DebtCoversCount, Admit, TypeOK
    <3>3. QED
      BY <3>1, <3>2
  <2>8. QED
    BY <2>3, <2>4, <2>6, <2>7 DEF IInv
<1>2. ASSUME NEW ip \in Ips, Reject(ip) PROVE IInv'
  BY <1>0, <1>2
     DEF Reject, IInv, TypeOK, Deadlines, DebtBounded, DebtCoversCount, Debt, Arrival
<1>3. CASE Evict
  <2>1. now = nextEvict
    BY <1>0, <1>3 DEF Evict, Deadlines, TypeOK
  <2>2. TypeOK'
    BY <1>0, <1>3 DEF Evict, TypeOK
  <2>3. Deadlines'
    BY <1>0, <1>3, <2>1 DEF Evict, Deadlines, TypeOK
  <2>4. \A ip \in Ips : Debt(ip)' = Debt(ip)
    BY <1>0, <1>3 DEF Evict, TypeOK, Debt, Arrival
  <2>5. QED
    BY <1>0, <1>3, <2>2, <2>3, <2>4 DEF Evict, IInv, TypeOK, DebtBounded, DebtCoversCount
<1>4. CASE Tick
  <2>1. TypeOK' /\ Deadlines'
    BY <1>0, <1>4 DEF Tick, Deadlines, TypeOK
  <2>2. \A ip \in Ips : Debt(ip)' = IF Debt(ip) > 0 THEN Debt(ip) - 1 ELSE 0
    BY <1>0, <1>4 DEF Tick, TypeOK, Debt, Arrival
  <2>3. DebtBounded'
    BY <1>0, <2>2 DEF DebtBounded
  <2>4. DebtCoversCount'
    BY <1>0, <1>4, <2>2 DEF Tick, DebtCoversCount, TypeOK
  <2>5. QED
    BY <2>1, <2>3, <2>4 DEF IInv
<1>5. CASE Audit
  <2>1. 0 * Cost = 0
    OBVIOUS
  <2>2. Debt(audited) >= 0
    BY <1>0 DEF Debt, TypeOK
  <2>3. QED
    BY <1>0, <1>5, <2>1, <2>2
       DEF Audit, IInv, TypeOK, Deadlines, DebtBounded, DebtCoversCount, Debt, Arrival
<1>6. CASE UNCHANGED vars
  BY <1>0, <1>6
     DEF vars, IInv, TypeOK, Deadlines, DebtBounded, DebtCoversCount, Debt, Arrival
<1>7. QED
  BY <1>1, <1>2, <1>3, <1>4, <1>5, <1>6 DEF Next

\* The four invariants are consequences of the inductive one.
LEMMA IInvImplies == IInv => TypeOK /\ RateBound /\ FloodRecovers /\ TableHoldsRecent
<1> SUFFICES ASSUME IInv PROVE TypeOK /\ RateBound /\ FloodRecovers /\ TableHoldsRecent
  OBVIOUS
<1>0. /\ TypeOK /\ Deadlines /\ DebtBounded /\ DebtCoversCount
      /\ \A ip \in Ips : Debt(ip) \in Int /\ Arrival(ip) \in Int
      /\ count * Cost \in Int
  BY LimiterAssumption, Price DEF IInv, TypeOK, Debt, Arrival
<1>1. RateBound
  BY <1>0, Capacity DEF RateBound, Full, DebtBounded, DebtCoversCount, TypeOK
<1>2. FloodRecovers
  <2> SUFFICES ASSUME NEW ip \in Ips PROVE Arrival(ip) - now <= Full
    BY DEF FloodRecovers, Full
  <2>1. Debt(ip) <= Full /\ Full >= 0
    BY <1>0, Capacity DEF DebtBounded
  <2>2. QED
    BY <1>0, <2>1, Capacity, LimiterAssumption DEF Debt, TypeOK
<1>3. TableHoldsRecent
  <2> SUFFICES ASSUME NEW ip \in tracked PROVE now - tat[ip] < EvictEvery
    BY DEF TableHoldsRecent
  <2>1. /\ tat[ip] \in Int /\ now \in Int /\ nextEvict \in Int /\ EvictEvery \in Int
        /\ now <= nextEvict /\ tat[ip] > nextEvict - EvictEvery
    BY <1>0, LimiterAssumption DEF Deadlines, TypeOK
  <2>2. QED
    BY <2>1
<1>4. QED
  BY <1>0, <1>1, <1>2, <1>3

\* Every variable keeps its type.
THEOREM LimiterTypes == Spec => []TypeOK
<1>1. IInv => TypeOK
  BY IInvImplies
<1>2. QED
  BY InitIInv, NextIInv, <1>1, PTL DEF Spec

\* limits.rs:1-2: no client is admitted more than the burst plus what the window
\* replenished, in any window, whatever is evicted in it.
THEOREM AdmissionsBounded == Spec => []RateBound
<1>1. IInv => RateBound
  BY IInvImplies
<1>2. QED
  BY InitIInv, NextIInv, <1>1, PTL DEF Spec

\* A flood never puts a client further than one full burst in debt.
THEOREM FloodsRecover == Spec => []FloodRecovers
<1>1. IInv => FloodRecovers
  BY IInvImplies
<1>2. QED
  BY InitIInv, NextIInv, <1>1, PTL DEF Spec

\* limits.rs:135-136: the table holds recent clients only.
THEOREM TableStaysRecent == Spec => []TableHoldsRecent
<1>1. IInv => TableHoldsRecent
  BY IInvImplies
<1>2. QED
  BY InitIInv, NextIInv, <1>1, PTL DEF Spec

-----------------------------------------------------------------------------
(* Refinement: the table, the clock and the sweeps implement the bucket. *)

\* The bucket's variable under the refinement mapping.
Spent == [ip \in Ips |-> Debt(ip)]

LEMMA BucketSpent == /\ Bucket!Init <=> Spent = [ip \in Ips |-> 0]
                                        /\ answer = [ip \in Ips |-> "none"]
                     /\ \A ip \in Ips : Bucket!Room(ip) <=> Debt(ip) <= Free
BY DEF Bucket!Init, Bucket!Room, Spent, Debt, Free

LEMMA BucketInit == Init => Bucket!Init
BY BucketSpent DEF Init, Spent, Debt, Arrival

LEMMA BucketStep == IInv /\ [Next]_vars => [Bucket!Next]_(Bucket!vars)
<1> SUFFICES ASSUME IInv, [Next]_vars PROVE Bucket!Next \/ UNCHANGED Bucket!vars
  OBVIOUS
<1> USE LimiterAssumption, Capacity
<1>0. /\ TypeOK /\ \A ip \in Ips : Debt(ip) \in Int /\ Arrival(ip) \in Int
      /\ \A ip \in Ips : Conforms(ip) <=> Debt(ip) <= Free
  BY DEF IInv, TypeOK, Debt, Arrival, Conforms, Free
<1>1. ASSUME NEW ip \in Ips, Admit(ip) PROVE Bucket!Allow(ip)
  <2>1. \A i \in Ips : Debt(i)' = IF i = ip THEN Debt(ip) + Cost ELSE Debt(i)
    <3>1. Charge(ip) = now + Debt(ip) + Cost
      BY <1>0 DEF Charge, Debt, TypeOK
    <3>2. Charge(ip) > now /\ Charge(ip) \in Int
      BY <1>0, <3>1 DEF TypeOK, Debt
    <3>3. QED
      BY <1>0, <1>1, <3>1, <3>2 DEF TypeOK, Admit, Debt, Arrival
  <2>2. Spent' = [Spent EXCEPT ![ip] = @ + Cost]
    BY <2>1 DEF Spent
  <2>3. Bucket!Room(ip)
    BY <1>0, <1>1, BucketSpent DEF Admit
  <2>4. QED
    BY <1>1, <2>2, <2>3 DEF Admit, Bucket!Allow, Spent, Debt
<1>2. ASSUME NEW ip \in Ips, Reject(ip) PROVE Bucket!Deny(ip)
  <2>1. \A i \in Ips : Debt(i)' = Debt(i)
    BY <1>2 DEF Reject, Debt, Arrival
  <2>2. ~Bucket!Room(ip)
    BY <1>0, <1>2, BucketSpent DEF Reject
  <2>3. QED
    BY <1>2, <2>1, <2>2 DEF Reject, Bucket!Deny, Debt
<1>3. CASE Evict
  <2>1. \A i \in Ips : Debt(i)' = Debt(i)
    BY <1>0, <1>3 DEF Evict, TypeOK, Debt, Arrival
  <2>2. QED
    BY <1>3, <2>1 DEF Evict, Bucket!vars, Debt
<1>4. CASE Tick
  <2>1. \A i \in Ips : Debt(i)' = IF Debt(i) > 0 THEN Debt(i) - 1 ELSE 0
    BY <1>0, <1>4 DEF Tick, TypeOK, Debt, Arrival
  <2>2. Spent' = [i \in Ips |-> IF Spent[i] > 0 THEN Spent[i] - 1 ELSE 0]
    BY <2>1 DEF Spent
  <2>3. Bucket!Refill
    BY <1>4, <2>2 DEF Tick, Bucket!Refill, Spent, Debt
  <2>4. QED
    BY <2>3 DEF Bucket!Next
<1>5. CASE Audit
  BY <1>5 DEF Audit, Bucket!vars, Arrival
<1>6. CASE UNCHANGED vars
  BY <1>6 DEF vars, Bucket!vars, Arrival
<1>7. QED
  BY <1>1, <1>2, <1>3, <1>4, <1>5, <1>6 DEF Next, Bucket!Next

\* Evicting idle entries is invisible to every client: the limiter with its table,
\* clock and sweeps implements a bucket that has none of them.
THEOREM EvictionIsInvisible == Spec => ImplementsBucket
<1>1. Init => IInv
  BY InitIInv
<1>2. QED
  BY <1>1, NextIInv, BucketInit, BucketStep, PTL DEF Spec, ImplementsBucket, Bucket!Spec
=============================================================================
