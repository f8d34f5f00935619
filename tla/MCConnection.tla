----------------------------- MODULE MCConnection -----------------------------
(* Connection for TLC: request sets that reach every branch of async_read.   *)
EXTENDS Connection

\* No length, a bad length, and lengths below, at and above what is sent.
AllRequests == [header : {"none", "bad"}, length : {0}, body : 0..1]
               \cup [header : {"number"}, length : 0..3, body : 0..3]

\* Well-formed headers only.
GoodRequests == [header : {"number"}, length : {1}, body : {1}]
===============================================================================
