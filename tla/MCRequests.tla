------------------------------ MODULE MCRequests ------------------------------
(***************************************************************************)
(* Instances of Requests for TLC.                                          *)
(***************************************************************************)
EXTENDS Requests

\* Every configuration the resolvers can hand to the routers.
AllConfs == {c \in Conf : c.redirect => c.base # "none"}
=============================================================================
