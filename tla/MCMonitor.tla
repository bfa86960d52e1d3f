------------------------------ MODULE MCMonitor ------------------------------
(* The console, loaders and services with binary digits: bytes of two bits, *)
(* words of four, sixteen bytes of memory.                                  *)
EXTENDS Monitor

CONSTANTS MaxSteps, MaxKeys

MCTexts == {<<1, Space>>}
MCTyped == {1, Space, CR, Minus, U, V, G, W, O}
Rec(a, d) == [at |-> a, data |-> d, page |-> 1]
MCFiles == {<<Rec(7, <<1, 3>>), Rec(8, <<2>>)>>, <<Rec(11, <<3, 2>>)>>}

\* Programs and loaders do not look at what the console kept before them:
\* they run from one memory, open location and workspace only.
Apart == (ctx # "monitor" \/ con \notin {"prompt", "entry", "more"}) /\ left = MaxSteps =>
             open = 0 /\ ram[WPSTORE] = 0

MCInit == MonitorInit /\ left = MaxSteps /\ typing = MaxKeys
MCSpec == MCInit /\ [][Next]_vars
=============================================================================
