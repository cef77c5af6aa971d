------------------------------- MODULE MC_RSAKey -------------------------------
(* RSAKey on the arguments of RSAKeyInputs, with one key object.          *)
EXTENDS RSAKey, RSAKeyInputs

CONSTANTS KeyObject
====
