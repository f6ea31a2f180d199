----------------------------- MODULE MCDeployer -----------------------------
(***************************************************************************)
(* Two deploys and two resources that ask for one slug: the first deploy is*)
(* of the first resource, the second of either.                            *)
(***************************************************************************)
EXTENDS Deployer

CONSTANTS d1, d2, r1, r2, s1

AskFor == [d \in Deploys |-> IF d = d1 THEN {r1} ELSE {r1, r2}]
OneSlug == [r \in Resources |-> s1]
=============================================================================
