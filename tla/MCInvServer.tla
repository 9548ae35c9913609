----------------------------- MODULE MCInvServer -----------------------------
EXTENDS InvServer

CONSTANTS c1, c2

\* What each connection may ask for.
MCKinds == [c \in Conns |->
  IF c = c1 THEN {"push", "rm", "folder"} ELSE {"read", "pull", "form", "resume", "folder"}]
=============================================================================
