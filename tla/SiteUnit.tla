-------------------------------- MODULE SiteUnit --------------------------------
(***************************************************************************)
(* The site as the host it runs on sees it: whether it can be reached, and *)
(* whether it waits for something that will not happen.  RunSpec is one    *)
(* run of the process, from exec to exit, over files that stay as they     *)
(* are.  UnitSpec is one run after the other, as systemd starts them, over *)
(* files that are changed under them.                                      *)
(***************************************************************************)
VARIABLES phase,     \* "down", "loading", "listening", "open", "stopping" or "stuck"
          loadable   \* whether the run can bring its listener up with what it has read,
                     \* and would read now

vars == <<phase, loadable>>

TypeOK ==
  /\ phase \in {"down", "loading", "listening", "open", "stopping", "stuck"}
  /\ loadable \in BOOLEAN

Goto(from, to) == phase \in from /\ phase' \in to /\ UNCHANGED loadable

\* What the next run will find is another question.
Leave(from, to) == phase \in from /\ phase' = to /\ loadable' \in BOOLEAN

\* The site listener comes up, alone or with the redirect listener.
Listen == loadable /\ Goto({"loading"}, {"listening", "open"})

Open == Goto({"listening"}, {"open"})

\* Nothing will ever come up, and the process does not end of itself.
Stick == ~loadable /\ Goto({"loading"}, {"stuck"})

Stop == Goto({"listening", "open"}, {"stopping"})

End == Leave({"loading", "listening", "open", "stopping", "stuck"}, "down")

RunNext == Listen \/ Open \/ Stick \/ Stop \/ End

RunSpec == phase = "loading" /\ loadable \in BOOLEAN /\ [][RunNext]_vars

\* systemd starts the next run, after the one before it has ended.
Start == Leave({"down", "loading", "listening", "open", "stopping", "stuck"}, "loading")

\* The files are changed.  A run whose listener is up, or will never be, has read them.
Change == Leave({"down"}, "down") \/ Leave({"loading"}, "loading")

UnitNext == RunNext \/ Start \/ Change

UnitSpec == phase = "down" /\ loadable \in BOOLEAN /\ [][UnitNext]_vars
=============================================================================
