------------------------------ MODULE TokenBucket ------------------------------
(***************************************************************************)
(* What the rate limiter promises each client, with no table and no clock: *)
(* a bucket of Burst requests, each admission spending Cost time units of  *)
(* it and every unit of time giving one back.  A request is admitted       *)
(* exactly when a whole request's worth is free.                           *)
(***************************************************************************)
EXTENDS Integers

CONSTANTS Ips, Burst, Cost

VARIABLES spent,   \* per client, what is missing from a full bucket
          answer   \* per client, the latest decision

vars == <<spent, answer>>

Init == /\ spent  = [ip \in Ips |-> 0]
        /\ answer = [ip \in Ips |-> "none"]

Room(ip) == spent[ip] <= (Burst - 1) * Cost

Allow(ip) == /\ Room(ip)
             /\ spent'  = [spent EXCEPT ![ip] = @ + Cost]
             /\ answer' = [answer EXCEPT ![ip] = "allow"]

Deny(ip) == /\ ~Room(ip)
            /\ answer' = [answer EXCEPT ![ip] = "deny"]
            /\ UNCHANGED spent

Refill == /\ spent' = [ip \in Ips |-> IF spent[ip] > 0 THEN spent[ip] - 1 ELSE 0]
          /\ UNCHANGED answer

Next == Refill \/ \E ip \in Ips : Allow(ip) \/ Deny(ip)

Spec == Init /\ [][Next]_vars
=============================================================================
