---------------------------- MODULE MCAdminApi ----------------------------
(***************************************************************************)
(* A small instance of AdminApi: two merchants, one of which gets the key  *)
(* of the request.  (Requests do not touch what other requests read.)      *)
(***************************************************************************)
EXTENDS AdminApi

CONSTANTS r1, k1

MCKeyOf == [r \in Requests |-> k1]
===========================================================================
