------------------------- MODULE TorKeyWriter_proofs -------------------------
(***************************************************************************)
(* What write_tor_keys keeps true of the disk, for any keys and any order  *)
(* of calls.  The lemmas are about single steps: the modules that call the *)
(* writer cite them in the invariants of their own specifications.         *)
(***************************************************************************)
EXTENDS TorKeyWriter, FiniteSetTheorems, TLAPS

WriterTypeOK ==
  /\ dirs \in SUBSET Keys
  /\ file \in [Keys -> [1..Len(Files) -> {Absent, Partial, Complete}]]
  /\ wpc \in Returned \cup {"directory", "open", "write"}
  /\ wkey \in Keys \cup {NoKey}
  /\ wfile \in 1..Len(Files)

\* What a call in progress has done for its key: the directory exists, the
\* files before the current one are whole, the current one is being written.
WriteCallInv ==
  /\ wpc \in {"directory", "open", "write"} => wkey \in Keys
  /\ wpc \in {"open", "write"} =>
       wkey \in dirs /\ \A i \in 1..Len(Files) : i < wfile => file[wkey][i] = Complete
  /\ wpc = "write" => file[wkey][wfile] = Partial
  /\ wpc = "ok" => wkey \in CompleteKeys

WriterInv == WriterTypeOK /\ WriteCallInv /\ FilesInOrder

-----------------------------------------------------------------------------

\* A result directory has three files.
LEMMA ThreeFiles == Len(Files) = 3 /\ 1..Len(Files) = {1, 2, 3}
BY DEF Files

\* The empty output directory satisfies the invariant, and holds no usable key.
LEMMA WriterInitInv ==
  ASSUME WriterInit
  PROVE  WriterInv /\ CompleteKeys = {}
BY ThreeFiles DEF WriterInit, WriterInv, WriterTypeOK, WriteCallInv, FilesInOrder,
   CompleteKeys, Returned, Failed, Absent, Partial, Complete

\* A call for any key starts with the directory and leaves the disk alone.
LEMMA WriterCallInv ==
  ASSUME WriterInv, NEW k \in Keys, WriteTorKeys(k)
  PROVE  WriterInv' /\ CompleteKeys' = CompleteKeys
BY DEF WriteTorKeys, WriterInv, WriterTypeOK, WriteCallInv, FilesInOrder, CompleteKeys,
   Returned, Failed

\* A file that is being written is alone in that: those before it are whole,
\* those after it absent.
LEMMA RestIsAbsent ==
  ASSUME WriterInv, wpc = "write"
  PROVE  /\ wkey \in Keys \ CompleteKeys
         /\ \A i \in 1..Len(Files) : i > wfile => file[wkey][i] = Absent
BY ThreeFiles DEF WriterInv, WriterTypeOK, WriteCallInv, FilesInOrder, CompleteKeys,
   Absent, Partial, Complete

\* Creating the directory changes no file.
LEMMA MakeDirectoryInv ==
  ASSUME WriterInv, MakeDirectory
  PROVE  WriterInv' /\ CompleteKeys' = CompleteKeys
BY ThreeFiles DEF MakeDirectory, WriterInv, WriterTypeOK, WriteCallInv, FilesInOrder,
   CompleteKeys, Returned, Failed

\* Opening a file never completes or damages a key.
LEMMA OpenFileInv ==
  ASSUME WriterInv, OpenFile
  PROVE  WriterInv' /\ CompleteKeys' = CompleteKeys
<1> USE ThreeFiles DEF WriterInv, WriterTypeOK, WriteCallInv, FilesInOrder, CompleteKeys,
                       Returned, Failed, Absent, Partial, Complete
<1>1. CASE /\ file[wkey][wfile] = Absent
           /\ file' = [file EXCEPT ![wkey][wfile] = Partial]
           /\ wpc' = "write"
           /\ UNCHANGED <<dirs, wkey, wfile>>
  <2>1. /\ wkey \in Keys
        /\ \A i \in 1..3 : file'[wkey][i] = IF i = wfile THEN Partial ELSE file[wkey][i]
        /\ \A k \in Keys : k # wkey => file'[k] = file[k]
    BY <1>1 DEF OpenFile
  <2>2. WriterTypeOK'
    BY <1>1, <2>1
  <2>3. WriteCallInv'
    BY <1>1, <2>1 DEF OpenFile
  <2>4. FilesInOrder'
    BY <1>1, <2>1 DEF OpenFile
  <2>5. CompleteKeys' = CompleteKeys
    BY <1>1, <2>1
  <2>6. QED
    BY <2>2, <2>3, <2>4, <2>5
<1>2. CASE wpc' = "open_failed" /\ UNCHANGED <<file, dirs, wkey, wfile>>
  BY <1>2
<1>3. QED
  BY <1>1, <1>2 DEF OpenFile

\* Writing a file makes a key usable exactly when the call returns "ok", and
\* that key was not usable before.
LEMMA WriteFileInv ==
  ASSUME WriterInv, WriteFile
  PROVE  /\ WriterInv'
         /\ wpc' = "ok" => wkey \in Keys \ CompleteKeys /\ CompleteKeys' = CompleteKeys \cup {wkey}
         /\ wpc' # "ok" => CompleteKeys' = CompleteKeys
<1> USE ThreeFiles DEF WriterInv, WriterTypeOK, WriteCallInv, FilesInOrder, CompleteKeys,
                       Returned, Failed, Absent, Partial, Complete
<1>1. CASE file' = [file EXCEPT ![wkey][wfile] = Complete] /\ NextFile
  <2>1. /\ wkey \in Keys \ CompleteKeys /\ wkey \in dirs
        /\ \A i \in 1..3 : i < wfile => file[wkey][i] = Complete
        /\ \A i \in 1..3 : i > wfile => file[wkey][i] = Absent
        /\ UNCHANGED <<dirs, wkey>>
    BY RestIsAbsent DEF WriteFile
  <2>2. /\ \A i \in 1..3 : file'[wkey][i] = IF i = wfile THEN Complete ELSE file[wkey][i]
        /\ \A k \in Keys : k # wkey => file'[k] = file[k]
    BY <1>1, <2>1
  <2>3. \/ wfile = 3 /\ wpc' = "ok" /\ wfile' = wfile
        \/ wfile \in 1..2 /\ wpc' = "open" /\ wfile' = wfile + 1
    BY <1>1 DEF NextFile
  <2>4. WriterTypeOK'
    BY <1>1, <2>1, <2>3
  <2>5. FilesInOrder'
    BY <2>1, <2>2
  <2>6. wpc' = "ok" => CompleteKeys' = CompleteKeys \cup {wkey}
    BY <2>1, <2>2, <2>3
  <2>7. wpc' # "ok" => CompleteKeys' = CompleteKeys
    BY <2>1, <2>2, <2>3
  <2>8. WriteCallInv'
    BY <2>1, <2>2, <2>3, <2>6
  <2>9. QED
    BY <2>1, <2>4, <2>5, <2>6, <2>7, <2>8
<1>2. CASE wpc' = "write_failed" /\ UNCHANGED <<file, dirs, wkey, wfile>>
  BY <1>2
<1>3. QED
  BY <1>1, <1>2 DEF WriteFile

\* No step of the writer changes a file that is whole.
LEMMA StepKeepsWholeFiles ==
  ASSUME WriterInv, WriterStep,
         NEW k \in Keys, NEW i \in 1..Len(Files), file[k][i] = Complete
  PROVE  file'[k][i] = Complete
BY ThreeFiles DEF WriterStep, MakeDirectory, OpenFile, WriteFile, WriterInv, WriterTypeOK,
   WriteCallInv, Absent, Partial, Complete
===============================================================================
