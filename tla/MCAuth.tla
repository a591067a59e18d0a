------------------------------- MODULE MCAuth -------------------------------
(* Instances of Auth for TLC: a user with one legacy alias.                *)
EXTENDS Auth

UserAndAlias == <<"user", "anonymous">>

\* Once a restore has overlapped a change, the sessions are anybody's guess: no
\* property but that of the requests, which the sessions do not touch, is claimed.
BeforeCrossed == Crossed \notin trouble
=============================================================================
