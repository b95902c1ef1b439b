------------------------- MODULE MCWorkspaceTasks -------------------------
EXTENDS WorkspaceTasks

CONSTANTS t1, p1, h1, s1, a, b

MCTasks      == {t1}
MCPartitions == {p1}
MCHeals      == {h1}
MCOwner      == [c \in MCPartitions \union MCHeals |-> t1]
MCTarget     == [h \in MCHeals |-> p1]
MCStanding   == {s1}
MCComponents == {a}
MCEnds       == [p \in MCPartitions \union MCStanding |-> MCComponents]
===========================================================================
