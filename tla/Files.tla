-------------------------------- MODULE Files --------------------------------
(***************************************************************************)
(* FileUploadService over StorageService: a file on the disk and its row   *)
(* in file_uploads (MediaService does the same for media_assets).  The     *)
(* disk is written and unlinked without a pause; only the database is      *)
(* awaited.                                                                *)
(***************************************************************************)
EXTENDS Naturals, FiniteSets

CONSTANTS
  Keys,           \* storage keys, each drawn once
  Movers,         \* requests served at the same time
  MaxSlips        \* bound

ASSUME FileAssumption == MaxSlips \in Nat

VARIABLES
  disk,           \* keys of files on the disk
  record,         \* keys in the table
  drawn,          \* keys that were drawn
  mover,          \* the requests
  slips           \* statements rejected, processes that exited

fileVars == <<disk, record, drawn, mover, slips>>

Mover == [at : {"idle", "create", "unlink", "delete"}, of : SUBSET Keys]

FileTypeOK ==
  /\ disk \subseteq Keys /\ record \subseteq Keys /\ drawn \subseteq Keys
  /\ mover \in [Movers -> Mover]
  /\ slips \in 0 .. MaxSlips

Resting == [at |-> "idle", of |-> {}]

FileInit ==
  /\ disk = {} /\ record = {} /\ drawn = {}
  /\ mover = [m \in Movers |-> Resting]
  /\ slips = 0

Steps(m, at, key) == mover' = [mover EXCEPT ![m] = [at |-> at, of |-> {key}]]
Rests(m) == mover' = [mover EXCEPT ![m] = Resting]

-----------------------------------------------------------------------------

\* store(), which refuses what is too large or of a type not allowed.
StoreFile(m, key) ==
  /\ mover[m].at = "idle" /\ key \notin drawn
  /\ drawn' = drawn \cup {key}
  /\ disk' = disk \cup {key}
  /\ Steps(m, "create", key)
  /\ UNCHANGED <<record, slips>>

CreateRecord(m) ==
  /\ mover[m].at = "create"
  /\ record' = record \cup mover[m].of
  /\ Rests(m)
  /\ UNCHANGED <<disk, drawn, slips>>

FindFile(m, key) ==
  /\ mover[m].at = "idle" /\ key \in record
  /\ Steps(m, "unlink", key)
  /\ UNCHANGED <<disk, record, drawn, slips>>

\* Mutant: the file stays where it is.
LeavesFile(m) == UNCHANGED disk

\* StorageService.delete: a file that is not there is no error.
Unlinks(m) == disk' = disk \ mover[m].of

UnlinkFile(m) ==
  /\ mover[m].at = "unlink"
  /\ Unlinks(m)
  /\ mover' = [mover EXCEPT ![m].at = "delete"]
  /\ UNCHANGED <<record, drawn, slips>>

\* The second of two requests to delete a file gets an error.
DeleteRecord(m) ==
  /\ mover[m].at = "delete"
  /\ record' = record \ mover[m].of
  /\ Rests(m)
  /\ UNCHANGED <<disk, drawn, slips>>

Slip == slips < MaxSlips /\ slips' = slips + 1

\* A statement is rejected.
FileFails(m) ==
  /\ Slip
  /\ mover[m].at \in {"create", "delete"}
  /\ Rests(m)
  /\ UNCHANGED <<disk, record, drawn>>

FileCrash ==
  /\ Slip
  /\ mover' = [m \in Movers |-> Resting]
  /\ UNCHANGED <<disk, record, drawn>>

-----------------------------------------------------------------------------

FileStep(m) ==
  \/ \E key \in Keys : StoreFile(m, key) \/ FindFile(m, key)
  \/ CreateRecord(m)
  \/ UnlinkFile(m)
  \/ DeleteRecord(m)
  \/ FileFails(m)

FileNext == (\E m \in Movers : FileStep(m)) \/ FileCrash

FileSpec == FileInit /\ [][FileNext]_fileVars

\* A row has its file and a file its row (file-upload.service 26, 74), but for
\* requests under way and what a rejected statement or an exit left behind.
RowsHaveFiles ==
  \A key \in Keys :
    LET busy(stages) == \E m \in Movers : /\ mover[m].at \in stages
                                          /\ key \in mover[m].of
    IN  slips = 0 => /\ key \in record \ disk => busy({"delete"})
                     /\ key \in disk \ record => busy({"create"})
=============================================================================
