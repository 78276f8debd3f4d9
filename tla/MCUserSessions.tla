---- MODULE MCUserSessions ----
\* UserSessions with a set of numbers a configuration file cannot write: a
\* tick forwards in time, and one backwards.
EXTENDS UserSessions

AnyStep == {-1, 1}
====
