--------------------------- MODULE MCDNSRecordSet ---------------------------
(* Small instances of DNSRecordSet for TLC.                                 *)
EXTENDS DNSRecordSet

CONSTANTS ip1, ip2

SixRecords == 1 .. 6
FirstTwo == 1 .. 2
FirstThree == 1 .. 3
=============================================================================
