-------------------------- MODULE MCProtocolClient --------------------------
(* Constants of ProtocolClient for TLC. *)
EXTENDS ProtocolClient

CONSTANTS c1, c2

\* Both parts of the first module are longer than a page, and the datatypes of the third.
SomePages ==
  <<[functions |-> 2, datatypes |-> 2], [functions |-> 1, datatypes |-> 1],
    [functions |-> 1, datatypes |-> 3]>>
=============================================================================
