----------------------------- MODULE MCEventBus -----------------------------
\* Two publishers, one subscriber that wants everything and one with a filter.
EXTENDS EventBus

CONSTANTS s1, s2, control, voice

MCFilter == [s \in Subs |-> IF s = s1 THEN EventTypes ELSE {control}]
=============================================================================
