-------------------------- MODULE MCStreamIngestion --------------------------
(* Small instances of StreamIngestion for TLC: one kind of event that      *)
(* parses and one that does not.                                           *)
EXTENDS StreamIngestion

CONSTANTS event, garbage

MCPayload == {event, garbage}
MCMalformed == {garbage}
=============================================================================
