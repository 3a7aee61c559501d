---------------------------- MODULE MCHubClaims ----------------------------
(* TLC instances of HubClaims.                                             *)
EXTENDS HubClaims, TLC

CONSTANTS c1, c2, c3, p1, p2

(* Two clients of one path; the third commits to another path of the       *)
(* repository.                                                             *)
TwoAndOne == c1 :> p1 @@ c2 :> p1 @@ c3 :> p2

(* The first client's claim never expires (an Endpoint lease).             *)
Mixed == c1 :> Never @@ c2 :> 1 @@ c3 :> 1
=============================================================================
