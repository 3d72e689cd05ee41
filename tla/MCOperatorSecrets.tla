------------------------- MODULE MCOperatorSecrets -------------------------
(* Values for model checking OperatorSecrets: one secret an issuer judges   *)
(* and one without a validator, in this order.                              *)
EXTENDS OperatorSecrets, TLC

CONSTANTS oidc, eab, a, b

TwoSecrets == {oidc, eab}
TwoInOrder == <<oidc, eab>>
Unproven   == {eab}
TwoValues  == {a, b}

\* The two values differ only in which an issuer accepts.
ValueSymmetry == Permutations(TwoValues)
===========================================================================
