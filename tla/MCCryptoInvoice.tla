---------------------------- MODULE MCCryptoInvoice ----------------------------
(* An instance of CryptoInvoice for TLC: one checkout in an asset without a    *)
(* static price.                                                               *)
EXTENDS CryptoInvoice, TLC

CONSTANTS c1

MCAssetOf == c1 :> "BTC"

=============================================================================
