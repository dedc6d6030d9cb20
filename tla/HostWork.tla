------------------------------- MODULE HostWork -------------------------------
(***************************************************************************)
(* The parts of the Agent that keep their state to themselves: the         *)
(* channel-start window, file jobs, release checkouts, PABX commands, the  *)
(* CrowdSec profile, table maintenance and the capture of one command.     *)
(* They share no variable, so that no step of one tells on another, and a  *)
(* run explores them one at a time: one part moves, the others rest where  *)
(* they began.                                                             *)
(***************************************************************************)
EXTENDS VoipRate, FileJobs, SchemaReleases, PabxCommand, CrowdSecPolicy, CommandCapture,
        TableMaintenance, TLC

VARIABLE part
hostVars ==
  <<part, rateVars, fileVars, schemaVars, pabxVars, secVars, captureVars, tableVars>>

Parts == {"rate", "files", "schema", "pabx", "crowdsec", "capture", "tables"}

\* A part at rest begins in one way only.
HostInit ==
  /\ part \in Parts
  /\ RateInit /\ SecInit
  /\ FileInit
  /\ part # "files" => inodes[audio].data[1] = CHOOSE b \in Blocks : TRUE
  /\ SchemaInit
  /\ part # "schema" => product = "db" /\ \A c, d \in Commits : schemaOf[c] = schemaOf[d]
  /\ PabxInit
  /\ part # "pabx" => \A j \in PabxJobs : kindOf[j] = "diagnostic"
  /\ CaptureInit
  /\ part # "capture" => linux /\ alive = {"child"}
  /\ TableInit
  /\ part # "tables" =>
       /\ space = CHOOSE n \in Spaces : TRUE
       /\ \A t \in Tables : pages[t] = used[t] /\ used[t] = CHOOSE n \in Sizes : TRUE

RateMoves ==
  part = "rate" /\ RateNext
  /\ UNCHANGED <<part, fileVars, schemaVars, pabxVars, secVars, captureVars, tableVars>>
FilesMove ==
  part = "files" /\ FileNext
  /\ UNCHANGED <<part, rateVars, schemaVars, pabxVars, secVars, captureVars, tableVars>>
SchemaMoves ==
  part = "schema" /\ SchemaNext
  /\ UNCHANGED <<part, rateVars, fileVars, pabxVars, secVars, captureVars, tableVars>>
PabxMoves ==
  part = "pabx" /\ PabxNext
  /\ UNCHANGED <<part, rateVars, fileVars, schemaVars, secVars, captureVars, tableVars>>
CrowdSecMoves ==
  part = "crowdsec" /\ SecNext
  /\ UNCHANGED <<part, rateVars, fileVars, schemaVars, pabxVars, captureVars, tableVars>>
CaptureMoves ==
  part = "capture" /\ CaptureNext
  /\ UNCHANGED <<part, rateVars, fileVars, schemaVars, pabxVars, secVars, tableVars>>
TablesMove ==
  part = "tables" /\ TableNext
  /\ UNCHANGED <<part, rateVars, fileVars, schemaVars, pabxVars, secVars, captureVars>>

HostNext ==
  \/ RateMoves \/ FilesMove \/ SchemaMoves \/ PabxMoves \/ CrowdSecMoves
  \/ CaptureMoves \/ TablesMove

HostSpec == HostInit /\ [][HostNext]_hostVars

\* Renaming commits and digests changes nothing.
HostSymmetry == Permutations(Commits) \cup Permutations(Digests)

\* Every variable of every part keeps its type.
HostTypeOK ==
  /\ RateTypeOK /\ FileTypeOK /\ SchemaTypeOK /\ PabxTypeOK /\ SecTypeOK /\ CaptureTypeOK
  /\ TableTypeOK
=============================================================================
