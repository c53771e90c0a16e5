-------------------------- MODULE MCQuerySessions --------------------------
(* Model-checking instances of QuerySessions: two channels, and two windows *)
(* with the same start, of one and of two recordings.                       *)
EXTENDS QuerySessions

CONSTANTS c1, c2

TwoChannels == <<c1, c2>>
NoneKnown   == {}
BothOrFirst == {<<c1, c2>>, <<c1>>}
TwoWindows  == {<<0, 1>>, <<0, 3>>}
LongWindow  == {<<0, 3>>}
=============================================================================
