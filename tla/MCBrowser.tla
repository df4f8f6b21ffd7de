----------------------------- MODULE MCBrowser -----------------------------
EXTENDS BrowserSession

CONSTANTS t1, t2, c1, c2, c3

MCTabOf == [c \in Call |-> IF c = c3 THEN t2 ELSE t1]
=============================================================================
