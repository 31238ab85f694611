--------------------------- MODULE MCNotifyOutbox ---------------------------
EXTENDS NotifyOutbox

\* The updates of one bot are numbered from a higher number on than those of the others.
MCFirst == [b \in Bot |-> IF b = CHOOSE c \in Bot : TRUE THEN 5 ELSE 1]
=============================================================================
