--------------------------- MODULE MCMemoryReview ---------------------------
EXTENDS MemoryReview

CONSTANTS group, private,  \* scopes
          m1, m2, m3       \* messages

\* Two messages of one group.
OneScope == {group}
GroupMessages == {m1, m2}
OfGroup == [s \in GroupMessages |-> group]

\* One message of a group and one of a private chat.
TwoScopes == {group, private}
OneEach == {m1, m3}
OfBoth == [s \in OneEach |-> IF s = m3 THEN private ELSE group]
=============================================================================
