------------------------ MODULE MCControllerAttempts ------------------------
(* TLC instances of ControllerAttempts.                                    *)
EXTENDS ControllerAttempts

CONSTANTS s1, w1
=============================================================================
