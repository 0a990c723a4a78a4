------------------------------- MODULE MCApp -------------------------------
(* A small instance of App for TLC.                                        *)
EXTENDS App

CONSTANTS r1, r2, r3
=============================================================================
