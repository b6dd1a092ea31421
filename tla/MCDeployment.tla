---------------------------- MODULE MCDeployment ----------------------------
(* The instance of Deployment for TLC is given by deployment.cfg alone. *)
EXTENDS Deployment

CONSTANTS l1

=============================================================================
