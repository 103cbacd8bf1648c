--------------------------------- MODULE MCPage ---------------------------------
(***************************************************************************)
(* An instance of Page for TLC.                                            *)
(***************************************************************************)
EXTENDS Page

\* Every value a PUBLIC_BASE_URL may have.
AllRaws == Raw
=============================================================================
