------------------------------ MODULE Hdf5Conv ------------------------------
(***************************************************************************)
(* Conversion of a measurement to an hdf5 file: hdf5_conv of               *)
(* lib/hdf5conv.c, run by the caller or, when it is asynchronous, by the   *)
(* second child of fork_and_run.  One conversion follows another; each is  *)
(* a version of the client's group.  The hdf5 library is modelled as links *)
(* from names to versions; each of its calls may fail without effect.      *)
(***************************************************************************)
EXTENDS DaemonNg, Integers, Sequences

CONSTANTS
  NumDsets,    \* datasets of a conversion
  MaxConvs,    \* conversions
  Seconds,     \* values of the clock, which names the backups
  FileSizes,   \* sizes of the data files
  DsetReqs     \* what is asked for: [offset, length]

ASSUME ConvAssumption ==
  /\ NumDsets \in Nat \ {0}
  /\ MaxConvs \in Nat \ {0}
  /\ FileSizes \subseteq Nat
  /\ DsetReqs \subseteq [offset : Int, length : Int]

Versions == 1 .. MaxConvs

VARIABLES
  hpc,       \* where the conversion is
  ver,       \* which conversion it is
  ovrwt,     \* ovrwtmode: "none", "relink" or "file"
  status,    \* what hdf5_conv has returned
  inited,    \* what s_hdf5_init has returned
  grp,       \* the version the client's group is linked to, 0 if none
  bkp,       \* the version each backup is linked to, 0 if none
  dsets,     \* the datasets mapped so far
  written,   \* datasets written to the group
  whole      \* versions all of whose datasets were written

hconv == <<hpc, ver, ovrwt, status, inited, grp, bkp, dsets, written, whole>>

Modes == {"none", "relink", "file"}

ConvInit ==
  /\ hpc = "open" /\ ver = 1
  /\ ovrwt \in Modes
  /\ status = "pending" /\ inited = "pending"
  /\ grp = 0 /\ bkp = [s \in Seconds |-> 0]
  /\ dsets = <<>> /\ written = 0
  /\ whole = {}

IsConv == mode \in {"async", "sync"}

\* s_hdf5_init and s_hdf5_write run where the second child is
Initializing == IsConv /\ child2 = "init"
Writing == IsConv /\ child2 = "run"

-----------------------------------------------------------------------------
\* Faulty variant: an offset at the very end of the file is not seen
MapFileAtEnd(q, fsize) ==
  LET offset == IF q.offset < 0 THEN q.offset + fsize ELSE q.offset
      maxlength == fsize - offset
      empty == fsize = 0 \/ offset > fsize \/ offset < 0
  IN CASE q.length = 0 -> [buffer |-> FALSE, offset |-> q.offset, length |-> 0]
       [] q.length # 0 /\ empty ->
            [buffer |-> FALSE, offset |-> offset, length |-> 0]
       [] OTHER ->
            [buffer |-> TRUE, offset |-> offset,
             length |-> IF q.length < 0 \/ q.length > maxlength
                          THEN maxlength ELSE q.length]

(***************************************************************************)
(* s_map_file.  An offset below 0 counts from the end of the file; a       *)
(* length below 0, or too large, means up to the end.  buffer says whether *)
(* the file has been mapped.                                               *)
(***************************************************************************)
MapFile(q, fsize) ==
  LET offset == IF q.offset < 0 THEN q.offset + fsize ELSE q.offset
      maxlength == fsize - offset
      empty == fsize = 0 \/ offset >= fsize \/ offset < 0
  IN CASE q.length = 0 -> [buffer |-> FALSE, offset |-> q.offset, length |-> 0]
       [] q.length # 0 /\ empty ->
            [buffer |-> FALSE, offset |-> offset, length |-> 0]
       [] OTHER ->
            [buffer |-> TRUE, offset |-> offset,
             length |-> IF q.length < 0 \/ q.length > maxlength
                          THEN maxlength ELSE q.length]

\* what s_create_dset asserts of a dataset before it writes it
CreateAsserts(d) ==
  IF d.buffer THEN d.length > 0 /\ d.offset >= 0 ELSE d.length = 0

\* s_hdf5_init returns rc to hdf5_conv, or to fork_and_run, for which only -1
\* is a failure and which signals OK for any other value
InitReturns(rc) ==
  /\ inited' = rc
  /\ \/ mode = "async" /\ Initialized /\ UNCHANGED status
     \/ mode = "sync" /\ rc = "OK" /\ Initialized /\ UNCHANGED status
     \/ mode = "sync" /\ rc # "OK" /\ InitFailed /\ status' = rc
  /\ hpc' = "write"
  /\ UNCHANGED <<mode, parent, child1, pidfile>>

\* hdf5_conv refuses the request before anything else
Refuse ==
  /\ IsConv /\ hpc = "open" /\ status = "pending"
  /\ \/ parent = "fork" /\ parent' = "none" /\ UNCHANGED child2
     \/ mode = "sync" /\ child2 = "init" /\ child2' = "lost" /\ UNCHANGED parent
  /\ status' = "EINV"
  /\ UNCHANGED <<mode, child1, pipe, pidfile, hpc, ver, ovrwt, inited, grp, bkp,
                 dsets, written, whole>>

\* The file is opened, or replaced; the root group and, for "relink", the
\* group for the old measurements are opened or created
OpenFile ==
  /\ Initializing /\ hpc = "open"
  /\ \/ /\ InitReturns("EFAIL")
        /\ UNCHANGED <<grp, bkp, whole>>
     \/ /\ ovrwt = "file" /\ InitReturns("EFAIL")
        /\ grp' = 0 /\ bkp' = [s \in Seconds |-> 0] /\ whole' = {}
     \/ /\ hpc' = "group" /\ UNCHANGED <<fvars, status, inited>>
        /\ grp' = IF ovrwt = "file" THEN 0 ELSE grp
        /\ bkp' = IF ovrwt = "file" THEN [s \in Seconds |-> 0] ELSE bkp
        /\ whole' = IF ovrwt = "file" THEN {} ELSE whole
  /\ UNCHANGED <<ver, ovrwt, dsets, written>>

(***************************************************************************)
(* s_crt_grp.  A group that exists is an error (EABORT), unless it can be  *)
(* linked under its backup name, which ends with the time in seconds, and  *)
(* the old link be deleted; "copy, then delete to prevent data loss".      *)
(* Moved gives the links after the move, or after a part of it that failed *)
(* later.                                                                  *)
(***************************************************************************)
Copied(s) == [bkp EXCEPT ![s] = grp]

\* Faulty variant: the link is deleted before it is copied
MoveFailsDeleteFirst(s) ==
  \/ UNCHANGED <<grp, bkp>>
  \/ bkp[s] = 0 /\ grp' = 0 /\ UNCHANGED bkp

MoveFails(s) ==
  \/ UNCHANGED <<grp, bkp>>
  \/ bkp[s] = 0 /\ bkp' = Copied(s) /\ UNCHANGED grp

Moved(s) == bkp[s] = 0 /\ bkp' = Copied(s)

CreateGroup ==
  /\ Initializing /\ hpc = "group"
  /\ \/ grp # 0 /\ ovrwt # "relink" /\ InitReturns("EABORT") /\ UNCHANGED <<grp, bkp>>
     \/ grp # 0 /\ ovrwt = "relink" /\ \E s \in Seconds :
          \/ MoveFails(s) /\ InitReturns("EFAIL")
          \/ Moved(s) /\ grp' = 0 /\ InitReturns("EFAIL")
          \/ /\ Moved(s) /\ grp' = ver
             /\ hpc' = "map" /\ UNCHANGED <<fvars, status, inited>>
     \/ grp = 0 /\ InitReturns("EFAIL") /\ UNCHANGED <<grp, bkp>>
     \/ /\ grp = 0 /\ grp' = ver /\ UNCHANGED bkp
        /\ hpc' = "map" /\ UNCHANGED <<fvars, status, inited>>
  /\ UNCHANGED <<ver, ovrwt, dsets, written, whole>>

\* The data files are mapped one after the other
MapNext ==
  /\ Initializing /\ hpc = "map"
  /\ \/ InitReturns("EFAIL") /\ UNCHANGED dsets
     \/ \E q \in DsetReqs, fsize \in FileSizes :
          /\ dsets' = Append(dsets, MapFile(q, fsize))
          /\ IF Len(dsets') = NumDsets
               THEN InitReturns("OK")
               ELSE UNCHANGED <<fvars, hpc, status, inited>>
  /\ UNCHANGED <<ver, ovrwt, grp, bkp, written, whole>>

-----------------------------------------------------------------------------
\* s_hdf5_write is over; the inner rc hides the outcome, so it returns 0
WriteReturns ==
  /\ child2' = "over"
  /\ UNCHANGED <<mode, parent, child1, pipe, pidfile>>
  /\ hpc' = "done"
  /\ status' = IF mode = "sync" THEN "OK" ELSE status

\* s_create_dset for the next dataset, which may fail; after a failed
\* initialization (asynchronous mode) it writes none: an assertion fails or
\* the library refuses the invalid group
WriteNext ==
  /\ Writing /\ hpc = "write"
  /\ \/ /\ inited = "OK" /\ written < NumDsets
        /\ written' = written + 1
        /\ whole' = IF written' = NumDsets THEN whole \cup {ver} ELSE whole
        /\ IF written' = NumDsets THEN WriteReturns ELSE UNCHANGED <<fvars, hpc, status>>
     \/ inited = "OK" /\ WriteReturns /\ UNCHANGED <<written, whole>>
     \/ /\ inited # "OK"
        /\ child2' = "over" /\ hpc' = "done"
        /\ UNCHANGED <<mode, parent, child1, pipe, pidfile, status, written, whole>>
  /\ UNCHANGED <<ver, ovrwt, inited, grp, bkp, dsets>>

\* hdf5_conv in the parent after fork_and_run: only -1 is an error
ConvReturns ==
  /\ mode = "async" /\ status = "pending"
  /\ parent \in {"ok", "failed", "one"}
  /\ status' = IF parent = "failed" THEN "EFAIL" ELSE "OK"
  /\ UNCHANGED <<fvars, hpc, ver, ovrwt, inited, grp, bkp, dsets, written, whole>>

\* The conversion and the call have come to their ends
ConvOver ==
  /\ status # "pending"
  /\ child2 \in {"none", "lost", "over"}

\* Another conversion into the same file
NextConv ==
  /\ IsConv /\ ConvOver /\ ver < MaxConvs
  /\ ver' = ver + 1
  /\ ovrwt' \in Modes
  /\ hpc' = "open" /\ status' = "pending" /\ inited' = "pending"
  /\ dsets' = <<>> /\ written' = 0
  /\ mode' \in {"async", "sync"}
  /\ parent' = IF mode' = "async" THEN "fork" ELSE "none"
  /\ child1' = "none"
  /\ child2' = IF mode' = "async" THEN "none" ELSE "init"
  /\ pipe' = "empty"
  /\ UNCHANGED <<pidfile, grp, bkp, whole>>

ConvNext ==
  \/ Refuse \/ OpenFile \/ CreateGroup \/ MapNext \/ WriteNext \/ ConvReturns \/ NextConv

-----------------------------------------------------------------------------
ConvTypeOK ==
  /\ hpc \in {"open", "group", "map", "write", "done"}
  /\ ver \in Versions
  /\ ovrwt \in Modes
  /\ status \in {"pending", "OK", "EINV", "EABORT", "EFAIL"}
  /\ inited \in {"pending", "OK", "EABORT", "EFAIL"}
  /\ grp \in 0 .. MaxConvs
  /\ bkp \in [Seconds -> 0 .. MaxConvs]
  /\ dsets \in Seq([buffer : BOOLEAN, offset : Int, length : Int])
  /\ written \in 0 .. NumDsets
  /\ whole \subseteq Versions

(***************************************************************************)
(* The assertions of s_create_dset hold for every dataset that s_map_file  *)
(* has dealt with, whatever offset and length were asked for.              *)
(***************************************************************************)
ConvAsserts == \A i \in 1 .. Len(dsets) : CreateAsserts(dsets[i])

(***************************************************************************)
(* A measurement that was converted completely stays in the file, under    *)
(* its own name or as a backup, whatever later conversions are asked to do *)
(* and wherever they fail, unless one was asked to replace the file        *)
(* (s_crt_grp: "Copy, then delete to prevent data loss").                  *)
(***************************************************************************)
OldDataKept == \A v \in whole : v = grp \/ \E s \in Seconds : bkp[s] = v

(***************************************************************************)
(* A client is answered with 0 only when the README's "reply when hdf5     *)
(* file is finalized" or, for an asynchronous conversion, "reply when hdf5 *)
(* conversion begins" is true: there is "4" for an "error initializing     *)
(* conversion" and "6" for an "error while converting to hdf5 format".     *)
(***************************************************************************)
ConvOkMeansDone ==
  IsConv /\ status = "OK" =>
    IF mode = "sync" THEN ver \in whole ELSE inited = "OK"
=============================================================================
