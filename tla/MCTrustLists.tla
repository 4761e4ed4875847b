---------------------------- MODULE MCTrustLists ----------------------------
(***************************************************************************)
(* Three uris, so that a list is inherited twice, and two items.           *)
(***************************************************************************)
EXTENDS TrustLists, TLC

CONSTANTS index, package, signature, ca, crl

MCUris == {index, package, signature}
MCItems == {ca, crl}
MCSymmetry == Permutations(MCUris) \cup Permutations(MCItems)
=============================================================================
