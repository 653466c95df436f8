---------------------------- MODULE HaCatalogMC ----------------------------
(***************************************************************************)
(* The instance of HaCatalog that TLC checks: one request task beside the  *)
(* supervisor and the publisher.                                           *)
(***************************************************************************)
EXTENDS HaCatalog
=============================================================================
