------------------------ MODULE MCProviderConfiguration ------------------------
EXTENDS ProviderConfiguration, TLC
CONSTANTS w1, w2, k1, k2
\* The first wrapper's environment sets one variable, the second's both.
Keys == w1 :> {k1} @@ w2 :> {k1, k2}
================================================================================
