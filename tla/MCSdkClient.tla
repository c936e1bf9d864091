---------------------------- MODULE MCSdkClient ----------------------------
(* An instance of SdkClient for TLC.                                       *)
EXTENDS SdkClient

CONSTANTS h1, h2

=============================================================================
