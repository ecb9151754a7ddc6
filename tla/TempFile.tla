------------------------------ MODULE TempFile ------------------------------
(***************************************************************************)
(* CTempFile (TempFile.cpp) and the temp folder it works on.  There is one *)
(* CTempFile object per notification, constructed empty; m_hFile[c] says   *)
(* whether the object of call c has its file open, which is exclusively,   *)
(* because ::CreateFileW is called with share mode 0.                      *)
(*                                                                         *)
(* An operator with a last parameter h is a call that returns h.           *)
(***************************************************************************)
EXTENDS ExitModuleBase

VARIABLES
  disk,         \* the temp folder: content of each name, or NoFile
  m_strPath,    \* the path each object deletes when it is destroyed
  m_hFile,      \* has the object its file open?
  m_fPreserve   \* is the object told to leave its file behind?

tempFileVars == <<disk, m_strPath, m_hFile, m_fPreserve>>

TempFileTypeOK ==
  /\ disk \in [TempName -> Seq(Byte) \cup {NoFile}]
  /\ m_strPath \in [Call -> TempName \cup {NoPath}]
  /\ m_hFile \in [Call -> BOOLEAN]
  /\ m_fPreserve \in [Call -> BOOLEAN]

TempFileInit ==
  /\ disk = [n \in TempName |-> NoFile]
  /\ m_strPath = [c \in Call |-> NoPath]
  /\ m_hFile = [c \in Call |-> FALSE]
  /\ m_fPreserve = [c \in Call |-> FALSE]

-----------------------------------------------------------------------------
(* A mistake: ::GetTempFileNameW with uUnique # 0 forms a name and does not *)
(* look whether there is such a file.                                       *)
TempFileNameUnchecked(n, h) ==
  /\ h = "S_OK"
  /\ n \in TempName
  /\ disk' = [disk EXCEPT ![n] = <<>>]
  /\ UNCHANGED <<m_strPath, m_hFile, m_fPreserve>>

(* ::GetTempFileNameW with uUnique = 0 picks a name no file has and creates *)
(* an empty file under it; it fails when every name is taken.               *)
TempFileName(n, h) ==
  /\ \/ /\ h = "S_OK"
        /\ n \in TempName
        /\ disk[n] = NoFile
        /\ disk' = [disk EXCEPT ![n] = <<>>]
     \/ /\ h = "E_OUTOFMEMORY"
        /\ "oom" \in Faults
        /\ n = NoPath
        /\ UNCHANGED disk
     \/ /\ h = "E_WIN32"
        /\ \/ "tempname" \in Faults
           \/ \A m \in TempName : disk[m] # NoFile
        /\ n = NoPath
        /\ UNCHANGED disk
  /\ UNCHANGED <<m_strPath, m_hFile, m_fPreserve>>

(* CTempFile::Create.  Whether the copy of the path cannot be allocated or  *)
(* the file cannot be opened, the object ends with an empty path.           *)
TempFileCreate(c, n, h) ==
  /\ m_strPath[c] = NoPath
  /\ \/ /\ h = "S_OK"
        /\ disk' = [disk EXCEPT ![n] = <<>>]
        /\ m_strPath' = [m_strPath EXCEPT ![c] = n]
        /\ m_hFile' = [m_hFile EXCEPT ![c] = TRUE]
     \/ /\ \/ h = "E_OUTOFMEMORY" /\ "oom" \in Faults
           \/ h = "E_WIN32" /\ "createfile" \in Faults
        /\ UNCHANGED <<disk, m_strPath, m_hFile>>
  /\ UNCHANGED m_fPreserve

(* CTempFile::Write(buf, 0, buf.GetLength(), cb): the first cb units of the *)
(* certificate are appended at the file position.                           *)
TempFileWrite(c, cb, h) ==
  /\ m_hFile[c]
  /\ \/ /\ h = "S_OK"
        /\ cb = CertLength \/ "shortwrite" \in Faults
        /\ disk' = [disk EXCEPT ![m_strPath[c]] = @ \o CertPrefix(c, cb)]
     \/ /\ h = "E_WIN32"
        /\ "write" \in Faults
        /\ UNCHANGED disk
  /\ UNCHANGED <<m_strPath, m_hFile, m_fPreserve>>

TempFileClose(c) ==
  /\ m_hFile' = [m_hFile EXCEPT ![c] = FALSE]
  /\ UNCHANGED <<disk, m_strPath, m_fPreserve>>

TempFilePreserve(c) ==
  /\ m_fPreserve' = [m_fPreserve EXCEPT ![c] = TRUE]
  /\ UNCHANGED <<disk, m_strPath, m_hFile>>

(* A mistake: to delete before closing, which an open file refuses.         *)
TempFileDestroyBeforeClose(c) ==
  /\ disk' = IF m_fPreserve[c] \/ m_strPath[c] = NoPath \/ m_hFile[c]
             THEN disk ELSE [disk EXCEPT ![m_strPath[c]] = NoFile]
  /\ m_strPath' = [m_strPath EXCEPT ![c] = NoPath]
  /\ m_hFile' = [m_hFile EXCEPT ![c] = FALSE]
  /\ m_fPreserve' = [m_fPreserve EXCEPT ![c] = FALSE]

(* CTempFile::~CTempFile: close, then delete unless told to preserve.       *)
TempFileDestroy(c) ==
  /\ \/ /\ ~ m_fPreserve[c]
        /\ m_strPath[c] # NoPath
        /\ disk' = [disk EXCEPT ![m_strPath[c]] = NoFile]
     \/ /\ m_fPreserve[c] \/ m_strPath[c] = NoPath \/ "delete" \in Faults
        /\ UNCHANGED disk
  /\ m_strPath' = [m_strPath EXCEPT ![c] = NoPath]
  /\ m_hFile' = [m_hFile EXCEPT ![c] = FALSE]
  /\ m_fPreserve' = [m_fPreserve EXCEPT ![c] = FALSE]

(* The process that owned the objects of the calls in C is gone: its        *)
(* handles are closed, no destructor runs, the folder stays as it is.       *)
TempFileAbandon(C) ==
  /\ m_strPath' = [c \in Call |-> IF c \in C THEN NoPath ELSE m_strPath[c]]
  /\ m_hFile' = [c \in Call |-> IF c \in C THEN FALSE ELSE m_hFile[c]]
  /\ m_fPreserve' = [c \in Call |-> IF c \in C THEN FALSE ELSE m_fPreserve[c]]
  /\ UNCHANGED disk
=============================================================================
