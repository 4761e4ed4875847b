----------------------------- MODULE MCTransfer -----------------------------
(***************************************************************************)
(* Three remote resources with two connections, one of them signed and two *)
(* optional, so that a failure finds transfers that run and one that       *)
(* waits; and a local one that is signed.                                  *)
(***************************************************************************)
EXTENDS Transfer, TLC

CONSTANTS base, turris, extra, disk,  \* repositories
          baseSig, turrisSig, extraSig, diskSig

MCUri == {base, turris, extra, disk}
MCDownloads == MCUri \cup {baseSig, turrisSig, extraSig, diskSig}
MCSigOf == base :> baseSig @@ turris :> turrisSig @@ extra :> extraSig @@ disk :> diskSig
MCRemote == {base, turris, extra}
MCOptional == {turris, extra}
MCSigned == {base, disk}
=============================================================================
