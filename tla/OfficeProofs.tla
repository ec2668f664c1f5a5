---------------------------- MODULE OfficeProofs -----------------------------
(***************************************************************************)
(* What holds of Files for every set of keys and of requests; and that the *)
(* four components, run side by side in Office, each keep what they keep   *)
(* alone, for all values of their constants.                               *)
(***************************************************************************)
EXTENDS Office, CampaignQueueProofs, WebhooksProofs, TemplatesProofs, TLAPS

-----------------------------------------------------------------------------
(* Files *)

\* A key in use was drawn; what is being stored is on the disk, has no row
\* yet and is nobody else's; what is being deleted is off the disk.
OneWriter(m) ==
  /\ mover[m].of \subseteq drawn
  /\ mover[m].at = "create" =>
       /\ mover[m].of \subseteq disk
       /\ mover[m].of \cap record = {}
       /\ \A n \in Movers \ {m} : mover[n].of \cap mover[m].of = {}
  /\ mover[m].at = "delete" => mover[m].of \cap disk = {}

FileInv ==
  /\ FileTypeOK
  /\ disk \subseteq drawn /\ record \subseteq drawn
  /\ \A m \in Movers : OneWriter(m)
  /\ RowsHaveFiles

LEMMA FileInitially == FileInit => FileInv
  BY FileAssumption
  DEF FileInit, FileInv, FileTypeOK, OneWriter, RowsHaveFiles, Resting, Mover

\* Requests hold their type, and so do the three sets.
LEMMA FileTypeStep ==
  ASSUME FileTypeOK, [FileNext]_fileVars
  PROVE  FileTypeOK'
  <1>. USE FileAssumption DEF FileTypeOK, Mover
  <1>1. CASE \E m \in Movers : FileStep(m)
    <2>. PICK m \in Movers : FileStep(m)
      BY <1>1
    <2>1. ASSUME NEW key \in Keys, StoreFile(m, key) \/ FindFile(m, key)
          PROVE  FileTypeOK'
      BY <2>1 DEF StoreFile, FindFile, Steps
    <2>2. CASE CreateRecord(m)
      BY <2>2 DEF CreateRecord, Rests, Resting
    <2>3. CASE UnlinkFile(m)
      BY <2>3 DEF UnlinkFile, Unlinks
    <2>4. CASE DeleteRecord(m)
      BY <2>4 DEF DeleteRecord, Rests, Resting
    <2>5. CASE FileFails(m)
      BY <2>5 DEF FileFails, Slip, Rests, Resting
    <2>. QED
      BY <2>1, <2>2, <2>3, <2>4, <2>5 DEF FileStep
  <1>2. CASE FileCrash
    BY <1>2 DEF FileCrash, Slip, Resting
  <1>3. CASE UNCHANGED fileVars
    BY <1>3 DEF fileVars
  <1>. QED
    BY <1>1, <1>2, <1>3 DEF FileNext

LEMMA FileInvStep ==
  ASSUME FileInv, [FileNext]_fileVars
  PROVE  FileInv'
  <1>1. FileTypeOK /\ FileTypeOK'
    BY FileTypeStep DEF FileInv
  <1>. USE <1>1 DEF FileTypeOK, Mover
  <1>2. CASE \E m \in Movers : FileStep(m)
    <2>. PICK m \in Movers : FileStep(m)
      BY <1>2
    <2>. USE DEF FileInv, OneWriter, RowsHaveFiles
    <2>1. ASSUME NEW key \in Keys, StoreFile(m, key)
          PROVE  FileInv'
      <3>1. /\ mover[m].at = "idle" /\ key \notin drawn
            /\ drawn' = drawn \cup {key} /\ disk' = disk \cup {key}
            /\ mover' = [mover EXCEPT ![m] = [at |-> "create", of |-> {key}]]
            /\ record' = record /\ slips' = slips
        BY <2>1 DEF StoreFile, Steps
      <3>2. \A n \in Movers : OneWriter(n)'
        BY <3>1
      <3>3. RowsHaveFiles'
        BY <3>1
      <3>. QED
        BY <3>1, <3>2, <3>3
    <2>2. ASSUME NEW key \in Keys, FindFile(m, key)
          PROVE  FileInv'
      <3>1. /\ mover[m].at = "idle" /\ key \in record
            /\ mover' = [mover EXCEPT ![m] = [at |-> "unlink", of |-> {key}]]
            /\ UNCHANGED <<disk, record, drawn, slips>>
        BY <2>2 DEF FindFile, Steps
      <3>2. \A n \in Movers : OneWriter(n)'
        BY <3>1
      <3>3. RowsHaveFiles'
        BY <3>1
      <3>. QED
        BY <3>1, <3>2, <3>3
    <2>3. CASE CreateRecord(m)
      <3>1. /\ mover[m].at = "create" /\ record' = record \cup mover[m].of
            /\ mover' = [mover EXCEPT ![m] = [at |-> "idle", of |-> {}]]
            /\ UNCHANGED <<disk, drawn, slips>>
        BY <2>3 DEF CreateRecord, Rests, Resting
      <3>2. \A n \in Movers : OneWriter(n)'
        BY <3>1
      <3>3. RowsHaveFiles'
        BY <3>1
      <3>. QED
        BY <3>1, <3>2, <3>3
    <2>4. CASE UnlinkFile(m)
      <3>1. /\ mover[m].at = "unlink" /\ disk' = disk \ mover[m].of
            /\ mover' = [mover EXCEPT ![m].at = "delete"]
            /\ UNCHANGED <<record, drawn, slips>>
        BY <2>4 DEF UnlinkFile, Unlinks
      <3>2. \A n \in Movers : OneWriter(n)'
        BY <3>1
      <3>3. RowsHaveFiles'
        BY <3>1
      <3>. QED
        BY <3>1, <3>2, <3>3
    <2>5. CASE DeleteRecord(m)
      <3>1. /\ mover[m].at = "delete" /\ record' = record \ mover[m].of
            /\ mover' = [mover EXCEPT ![m] = [at |-> "idle", of |-> {}]]
            /\ UNCHANGED <<disk, drawn, slips>>
        BY <2>5 DEF DeleteRecord, Rests, Resting
      <3>2. \A n \in Movers : OneWriter(n)'
        BY <3>1
      <3>3. RowsHaveFiles'
        BY <3>1
      <3>. QED
        BY <3>1, <3>2, <3>3
    <2>6. CASE FileFails(m)
      <3>1. /\ slips' = slips + 1 /\ slips \in Nat
            /\ mover' = [mover EXCEPT ![m] = [at |-> "idle", of |-> {}]]
            /\ UNCHANGED <<disk, record, drawn>>
        BY <2>6, FileAssumption DEF FileFails, Slip, Rests, Resting
      <3>2. \A n \in Movers : OneWriter(n)'
        BY <3>1
      <3>3. slips' # 0
        BY <3>1
      <3>. QED
        BY <3>1, <3>2, <3>3
    <2>. QED
      BY <2>1, <2>2, <2>3, <2>4, <2>5, <2>6 DEF FileStep
  <1>3. CASE FileCrash
    <2>1. /\ slips' = slips + 1 /\ slips \in Nat
          /\ mover' = [m \in Movers |-> [at |-> "idle", of |-> {}]]
          /\ UNCHANGED <<disk, record, drawn>>
      BY <1>3, FileAssumption DEF FileCrash, Slip, Resting
    <2>2. slips' # 0
      BY <2>1
    <2>. QED
      BY <2>1, <2>2 DEF FileInv, OneWriter, RowsHaveFiles
  <1>4. CASE UNCHANGED fileVars
    BY <1>4 DEF fileVars, FileInv, OneWriter, RowsHaveFiles
  <1>. QED
    BY <1>2, <1>3, <1>4 DEF FileNext

LEMMA FileInvariant == FileSpec => []FileInv
  BY FileInitially, FileInvStep, PTL DEF FileSpec

\* Files, rows and requests keep their types (file-upload.service 26-80).
THEOREM FilesTypeCorrect == FileSpec => []FileTypeOK
  <1>1. FileInv => FileTypeOK
    BY DEF FileInv
  <1>. QED
    BY <1>1, FileInvariant, PTL

\* A row has its file and a file its row, but for requests under way and what
\* a fault left behind (file-upload.service 26, 74).
THEOREM FilesAndRowsAgree == FileSpec => []RowsHaveFiles
  <1>1. FileInv => RowsHaveFiles
    BY DEF FileInv
  <1>. QED
    BY <1>1, FileInvariant, PTL

-----------------------------------------------------------------------------
(* The four side by side *)

\* The office is nothing but its parts: each of its behaviours is one of each
\* of them, seen through that part's variables.
THEOREM OfficeImplementsParts ==
  OfficeSpec => QueueSpec /\ HookSpec /\ TemplateSpec /\ FileSpec
<1>1. OfficeInit => QueueInit /\ HookInit /\ TemplateInit /\ FileInit
  BY DEF OfficeInit
<1>2. [OfficeNext]_officeVars =>
        /\ [QueueNext]_queueVars
        /\ [HookNext]_hookVars
        /\ [TemplateNext]_templateVars
        /\ [FileNext]_fileVars
  BY DEF OfficeNext, officeVars
<1>. QED
  BY <1>1, <1>2, PTL
  DEF OfficeSpec, QueueSpec, HookSpec, TemplateSpec, FileSpec

\* Every variable of the four keeps its type.
THEOREM OfficeTypeCorrect == OfficeSpec => []OfficeTypeOK
  BY OfficeImplementsParts, QueueTypeCorrect, WebhooksTypeCorrect,
     TemplatesTypeCorrect, FilesTypeCorrect, PTL
  DEF OfficeTypeOK

\* What each of the four promises alone it keeps beside the others: hand-overs
\* (campaign.processor 101-163), logs (webhooks.service 101-160), templates
\* (templates.service 88-153) and files (file-upload.service 26-80).
THEOREM OfficeKeepsPromises ==
  OfficeSpec => [](/\ HandsOverOnce /\ QueueHeedsStop
                   /\ LogsTellTheTruth
                   /\ RowsMatchProvider
                   /\ RowsHaveFiles)
  BY OfficeImplementsParts, QueueHandsOverOnce, QueueStops,
     WebhooksTellTheTruth, TemplatesMatchProvider, FilesAndRowsAgree, PTL
=============================================================================
