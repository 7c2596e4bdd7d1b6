------------------------- MODULE MCDiscoveryRunners -------------------------
(* What becomes of the snapshots (Discovery) and what the runners read     *)
(* (SourceSchemas).  The two share no variable, so their interleavings say *)
(* nothing new: each moves only while the other rests in a state it starts *)
(* from.                                                                   *)
EXTENDS MCDiscovery, SourceSchemas

CONSTANTS o1, o2

ScannerRests == scans = 0 /\ rewrites = 0 /\ kind = "database" /\ There = {}
Start == [x \in Field |-> NoField]
DiscoveryRests ==
  changes = 0 /\ source = Start /\ \A t \in Transaction : pc[t] = "idle"
ScansDone == ~reading /\ scans = MaxScans /\ UNCHANGED <<vars, scanVars>>

MCInit == Init /\ ScanInit /\ (ScannerRests \/ DiscoveryRests)
MCNext ==
  \/ ScannerRests /\ Next /\ UNCHANGED scanVars
  \/ DiscoveryRests /\ ScanNext /\ UNCHANGED vars
  \/ ScansDone
MCSpec == MCInit /\ [][MCNext]_<<vars, scanVars>>
=============================================================================
