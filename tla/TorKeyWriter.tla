----------------------------- MODULE TorKeyWriter -----------------------------
(***************************************************************************)
(* io/tor_key_writer.cpp: write_tor_keys, one system call after another,   *)
(* with every early return.  Between two steps the process may be killed,  *)
(* so what holds of the disk in every state holds of what a kill leaves.   *)
(*                                                                         *)
(* The result directory is named after the address, which is a function of *)
(* the public key: a key stands for its directory.                         *)
(***************************************************************************)
EXTENDS Naturals, Sequences, FiniteSets

CONSTANTS Keys,     \* the key pairs that can be found
          NoKey     \* no call of write_tor_keys yet

ASSUME NoKeyAssumption == NoKey \notin Keys

\* The files of a result directory, in the order they are written.
Files == <<"hostname", "hs_ed25519_secret_key", "hs_ed25519_public_key">>

Absent == "absent"  \* a file is absent, being written, or whole
Partial == "partial"
Complete == "complete"

VARIABLES dirs,     \* the keys whose result directory exists
          file,     \* file[k][i]: what is on disk of the i-th file of key k
          wpc,      \* where write_tor_keys is, or what its last call returned
          wkey,     \* the key it was last called for
          wfile,    \* index in Files of the file being written
          ioFault   \* history: some system call has failed

diskVars == <<dirs, file>>
writerVars == <<dirs, file, wpc, wkey, wfile, ioFault>>

Failed == {"create_dir_failed", "open_failed", "write_failed"}
Returned == {"idle", "ok"} \cup Failed

\* The program starts in an empty output directory.
WriterInit ==
  /\ dirs = {}
  /\ file = [k \in Keys |-> [i \in 1..Len(Files) |-> Absent]]
  /\ wpc = "idle"
  /\ wkey = NoKey
  /\ wfile = 1
  /\ ioFault = FALSE

\* main() calls write_tor_keys for a verified key.
WriteTorKeys(k) ==
  /\ wpc \in Returned
  /\ wpc' = "directory"
  /\ wkey' = k
  /\ UNCHANGED <<dirs, file, wfile, ioFault>>

\* create_directories and mkdir; a directory that exists already is accepted.
MakeDirectory ==
  /\ wpc = "directory"
  /\ \/ dirs' = dirs \cup {wkey} /\ wpc' = "open" /\ wfile' = 1 /\ UNCHANGED ioFault
     \/ wpc' = "create_dir_failed" /\ ioFault' = TRUE /\ UNCHANGED <<dirs, wfile>>
  /\ UNCHANGED <<file, wkey>>

\* Mutant: the file is opened with O_TRUNC instead of O_EXCL.
OpenTruncating ==
  /\ wpc = "open"
  /\ file' = [file EXCEPT ![wkey][wfile] = Partial]
  /\ wpc' = "write"
  /\ UNCHANGED <<dirs, wkey, wfile, ioFault>>

\* open(O_CREAT | O_EXCL) creates the file, or refuses one that exists, or
\* fails for a reason of its own.
OpenFile ==
  /\ wpc = "open"
  /\ \/ /\ file[wkey][wfile] = Absent
        /\ file' = [file EXCEPT ![wkey][wfile] = Partial]
        /\ wpc' = "write"
        /\ UNCHANGED ioFault
     \/ /\ file[wkey][wfile] # Absent
        /\ wpc' = "open_failed"
        /\ UNCHANGED <<file, ioFault>>
     \/ /\ wpc' = "open_failed"
        /\ ioFault' = TRUE
        /\ UNCHANGED file
  /\ UNCHANGED <<dirs, wkey, wfile>>

\* After a whole file: the next one, or the end of the call.
NextFile ==
  IF wfile = Len(Files)
  THEN wpc' = "ok" /\ UNCHANGED wfile
  ELSE wpc' = "open" /\ wfile' = wfile + 1

\* The write loop, fsync and close.  A write that fails leaves the file, and
\* the files before it, as they are.
WriteFile ==
  /\ wpc = "write"
  /\ \/ /\ file' = [file EXCEPT ![wkey][wfile] = Complete]
        /\ NextFile
        /\ UNCHANGED ioFault
     \/ /\ wpc' = "write_failed"
        /\ ioFault' = TRUE
        /\ UNCHANGED <<file, wfile>>
  /\ UNCHANGED <<dirs, wkey>>

WriterStep == MakeDirectory \/ OpenFile \/ WriteFile

-----------------------------------------------------------------------------
\* The keys whose directory a Tor daemon can use.
CompleteKeys == {k \in Keys : \A i \in 1..Len(Files) : file[k][i] = Complete}

\* A directory never holds a file whose predecessors are not whole: whoever
\* sees hs_ed25519_public_key, after a kill at any point or a failed write,
\* finds the secret key beside it complete.
FilesInOrder ==
  \A k \in Keys : \A i, j \in 1..Len(Files) :
    i < j /\ file[k][j] # Absent => file[k][i] = Complete /\ k \in dirs

\* No step ever changes a file that is complete: a second result for the
\* same address never overwrites a key that was already handed out.
NeverOverwritten ==
  [][\A k \in Keys : \A i \in 1..Len(Files) :
       file[k][i] = Complete => file'[k][i] = Complete]_writerVars
=============================================================================
