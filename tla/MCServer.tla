------------------------------- MODULE MCServer -------------------------------
(* Server for TLC: small request sets.                                       *)
EXTENDS Server, TLC

\* The handlers differ in nothing but their names.
HandlersAlike == Permutations(Handlers)

\* One header unit and one body unit.
ShortRequests == [header : {"number"}, length : {1}, body : {1}]

\* A header alone.
BareRequests == [header : {"none"}, length : {0}, body : {0}]
===============================================================================
