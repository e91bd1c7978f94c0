---------------------------- MODULE MCSecureLink ----------------------------
(* Small instances of SecureLink for TLC.                                  *)
EXTENDS SecureLink
CONSTANTS s1, s2, s3
=============================================================================
