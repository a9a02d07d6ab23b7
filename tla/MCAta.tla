------------------------------- MODULE MCAta -------------------------------
(* Ata.tla on a drive of a few sectors; the .cfg files give the constants.   *)
EXTENDS Ata
=============================================================================
