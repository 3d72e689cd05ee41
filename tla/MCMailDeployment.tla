---------------------------- MODULE MCMailDeployment ----------------------------
(* Two organisations' domains and one sink account, that a deployment may    *)
(* name or not.                                                              *)
EXTENDS MailDeployment

TwoDomains == <<"d0", "d1">>
ThreeOrgs  == 1 .. 3
=============================================================================
