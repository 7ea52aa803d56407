------------------------------- MODULE MCImmOm -------------------------------
\* Two roots, and an object below one of them.
EXTENDS ImmOm

CONSTANTS top, child, other, v1, v2, absent

Objects == {top, child, other}
Tree == [o \in Objects |-> IF o = child THEN top ELSE absent]

=============================================================================
