-------------------------- MODULE MCMessageManager --------------------------
EXTENDS MessageManager, TLC

CONSTANTS m1, m2, m3, s1

MCSource == (m1 :> s1) @@ (m2 :> s1) @@ (m3 :> NoId)

=============================================================================
