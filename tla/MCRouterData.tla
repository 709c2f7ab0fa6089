---------------------------- MODULE MCRouterData ----------------------------
(***************************************************************************)
(* Instances of RouterData for TLC.                                        *)
(***************************************************************************)
EXTENDS RouterData, TLC

\* Of each kind that matters to a reader: signed by the kind that is implemented
\* and with another crypto, by one that is not, by one that cannot be made, of an
\* unsupported crypto, of no certificate type.
SomeFarCerts ==
  {Cert("blake", "eddsa"), Cert("hmac", "xeddsa"), Cert("blake", "reddsa"),
   Cert("other", "eddsa"), InvalidCert}

Symmetry == Permutations(Infos)

=============================================================================
