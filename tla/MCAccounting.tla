---------------------------- MODULE MCAccounting ----------------------------
(* Instantiated by the MCAccounting*.cfg files: two days of two batch    *)
(* hours and a handful of events.                                        *)
EXTENDS Accounting

=============================================================================
