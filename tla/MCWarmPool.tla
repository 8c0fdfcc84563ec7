------------------------------ MODULE MCWarmPool ------------------------------
(***************************************************************************)
(* An instance of WarmPool for TLC.                                        *)
(***************************************************************************)
EXTENDS WarmPoolProperties

\* Every evaluation costs at most a cold container and a replacement: no
\* thread is ever kept from creating one.
EnoughContainers == Size + 2 * MaxEvaluations
=============================================================================
