----------------------------- MODULE SiteLifecycle -----------------------------
(***************************************************************************)
(* What one run of the site promises its clients, without its tasks: it    *)
(* opens once, takes requests only while open, and after it was told to    *)
(* stop it ends well only when every connection it took is finished or the *)
(* drain bound has run out.  Connections are abandoned only past that      *)
(* bound or in a run that fails.                                           *)
(***************************************************************************)
CONSTANT Conns

VARIABLES phase,    \* "starting", "serving", "draining" or "over"
          outcome,  \* "none" until over, then "ok" or "failed"
          late,     \* the drain bound has run out
          client    \* per connection: "waiting", "active", "finished", "abandoned"

vars == <<phase, outcome, late, client>>

Active == {c \in Conns : client[c] = "active"}

TypeOK ==
  /\ phase \in {"starting", "serving", "draining", "over"}
  /\ outcome \in {"none", "ok", "failed"}
  /\ late \in BOOLEAN
  /\ client \in [Conns -> {"waiting", "active", "finished", "abandoned"}]

Init == /\ phase = "starting" /\ outcome = "none" /\ late = FALSE
        /\ client = [c \in Conns |-> "waiting"]

Open == /\ phase = "starting"
        /\ phase' = "serving"
        /\ UNCHANGED <<outcome, late, client>>

Take(c) == /\ phase = "serving" /\ client[c] = "waiting"
           /\ client' = [client EXCEPT ![c] = "active"]
           /\ UNCHANGED <<phase, outcome, late>>

Finish(c) == /\ phase # "over" /\ client[c] = "active"
             /\ client' = [client EXCEPT ![c] = "finished"]
             /\ UNCHANGED <<phase, outcome, late>>

Stop == /\ phase = "serving"
        /\ phase' = "draining"
        /\ UNCHANGED <<outcome, late, client>>

\* The drain bound runs out, which needs somebody still waiting for an answer.
RunOut == /\ phase = "draining" /\ Active # {}
          /\ late' = TRUE
          /\ UNCHANGED <<phase, outcome, client>>

Abandon(c) == /\ late /\ phase # "over" /\ client[c] = "active"
              /\ client' = [client EXCEPT ![c] = "abandoned"]
              /\ UNCHANGED <<phase, outcome, late>>

Drop == client' = [c \in Conns |-> IF client[c] = "active" THEN "abandoned" ELSE client[c]]

End == /\ phase = "draining" /\ (late \/ Active = {})
       /\ phase' = "over" /\ outcome' = "ok"
       /\ Drop
       /\ UNCHANGED late

Fail == /\ phase # "over"
        /\ phase' = "over" /\ outcome' = "failed"
        /\ Drop
        /\ UNCHANGED late

Next == \/ Open \/ Stop \/ RunOut \/ End \/ Fail
        \/ \E c \in Conns : Take(c) \/ Finish(c) \/ Abandon(c)

Spec == Init /\ [][Next]_vars
=============================================================================
