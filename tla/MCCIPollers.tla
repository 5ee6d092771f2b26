---------------------------- MODULE MCCIPollers -----------------------------
(***************************************************************************)
(* An instance of CIPollers for TLC: two CircleCI projects.                *)
(***************************************************************************)
EXTENDS CIPollers, TLC
TwoCircle == "acme/app" :> "circleci" @@ "acme/lib" :> "circleci"
=============================================================================
