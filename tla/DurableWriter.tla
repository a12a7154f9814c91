---------------------------- MODULE DurableWriter ----------------------------
(***************************************************************************)
(* What io/tor_key_writer.cpp leaves when the power is lost: unlike a kill *)
(* of the process it takes what the system still had in memory.  A file is *)
(* on the medium once its fsync has succeeded; until then any part of it   *)
(* may be.  The result of fsync is not looked at, and the directories are  *)
(* never synchronized: the entry of a file, or of the whole directory, may *)
(* be gone though the file is safe.                                        *)
(***************************************************************************)
EXTENDS TorKeyWriter

VARIABLES synced,     \* the files whose fsync has succeeded: key and index
          unsynced,   \* history: the files whose fsync failed
          reported,   \* history: the keys write_tor_keys returned ok for
          power

durableVars == <<synced, unsynced, reported, power, writerVars>>

DurableInit ==
  /\ WriterInit
  /\ synced = {} /\ unsynced = {} /\ reported = {}
  /\ power = "on"

\* main() has another verified key; it leaves after a failure.
Give(k) ==
  /\ power = "on" /\ wpc \notin Failed
  /\ WriteTorKeys(k)
  /\ UNCHANGED <<synced, unsynced, reported, power>>

\* A step before the end of a file.
Prepare ==
  /\ power = "on"
  /\ MakeDirectory \/ OpenFile
  /\ UNCHANGED <<synced, unsynced, reported, power>>

Reported == IF wpc' = "ok" THEN reported \cup {wkey} ELSE reported

\* Mutant: the file is closed without an fsync.
WriteUnsynced ==
  /\ power = "on"
  /\ WriteFile
  /\ reported' = Reported
  /\ UNCHANGED <<synced, unsynced, power>>

\* The write loop, and the fsync of a whole file.
WriteAndSync ==
  /\ power = "on"
  /\ WriteFile
  /\ LET whole == file'[wkey][wfile] = Complete
         f == <<wkey, wfile>>
     IN \/ whole /\ synced' = synced \cup {f} /\ UNCHANGED unsynced
        \/ whole /\ unsynced' = unsynced \cup {f} /\ UNCHANGED synced
        \/ ~whole /\ UNCHANGED <<synced, unsynced>>
  /\ reported' = Reported
  /\ UNCHANGED power

\* What may be found of file i of key k.
Found(k, i) ==
  CASE file[k][i] = Absent -> {Absent}
    [] <<k, i>> \in synced -> {Absent, Complete}
    [] OTHER -> {Absent, Partial, file[k][i]}

PowerLoss ==
  /\ power = "on"
  /\ power' = "lost"
  /\ file' \in {f \in [Keys -> [1..Len(Files) -> {Absent, Partial, Complete}]] :
                  \A k \in Keys : \A i \in 1..Len(Files) : f[k][i] \in Found(k, i)}
  /\ dirs' \in SUBSET dirs
  /\ \A k \in dirs \ dirs' : \A i \in 1..Len(Files) : file'[k][i] = Absent
  /\ UNCHANGED <<synced, unsynced, reported, wpc, wkey, wfile, ioFault>>

DurableOver == power = "lost" /\ UNCHANGED durableVars

DurableNext ==
  (\E k \in Keys : Give(k)) \/ Prepare \/ WriteAndSync \/ PowerLoss \/ DurableOver

-----------------------------------------------------------------------------
(* Properties *)

\* The files torn although no fsync of theirs failed unnoticed.
Torn == {f \in Keys \X (1..Len(Files)) : file[f[1]][f[2]] = Partial} \ unsynced

\* Until the power is lost the files of a key appear in order, each after the
\* one before is whole.  Losing it, at any point, tears one file at the most,
\* the one that was being written: a key that was reported may miss files, but
\* holds none that is torn, unless its fsync failed unnoticed.
TornOnlyWhileWritten ==
  /\ power = "on" => FilesInOrder
  /\ Cardinality(Torn) <= 1
  /\ \A f \in Torn : f[1] \notin reported
==============================================================================
