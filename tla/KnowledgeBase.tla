---------------------------- MODULE KnowledgeBase ----------------------------
(***************************************************************************)
(* The knowledge base of the LLM platform (internal/ai): one consumer      *)
(* takes the uploads in order and replaces the file of each: it looks up   *)
(* the file it uploaded last, removes it from the platform, creates a new  *)
(* one, and saves the new id.  Nothing holds the four calls together, and  *)
(* an upload that fails is not made again.                                 *)
(*                                                                         *)
(* A file is known by the version it was made from and a number of its     *)
(* own.  The platform is external: it is taken to answer the removal of a  *)
(* file it does not have with an error.                                    *)
(***************************************************************************)
EXTENDS Integers, Sequences, FiniteSets

CONSTANTS Docs, NoFile

VARIABLES
    uploads,   \* the topic: [id, data]
    files,     \* on the platform: the versions and numbers of each document
    saved,     \* table knowledge_base_files: the file of each, or NoFile
    upload,    \* what the consumer is doing
    fileId,    \* number of the last file created
    broken     \* history: uploads of each document that failed half-way

kbVars == <<uploads, files, saved, upload, fileId, broken>>

NoUpload == [pc |-> "idle", id |-> 0, data |-> 0, file |-> NoFile]

KbInit ==
    /\ uploads = <<>>
    /\ files = [d \in Docs |-> {}]
    /\ saved = [d \in Docs |-> NoFile]
    /\ upload = NoUpload
    /\ fileId = 0
    /\ broken = [d \in Docs |-> 0]

Upload(d, data) == uploads' = Append(uploads, [id |-> d, data |-> data])

Give == upload' = NoUpload

\* Mutant: the file uploaded last is not looked up.
GetNothing ==
    /\ upload.pc = "idle"
    /\ uploads # <<>>
    /\ upload' = [pc |-> "create", id |-> Head(uploads).id, data |-> Head(uploads).data,
                  file |-> NoFile]
    /\ uploads' = Tail(uploads)
    /\ UNCHANGED <<files, saved, fileId, broken>>

\* GetInfo: the file uploaded last, if there is one.
GetInfo ==
    /\ upload.pc = "idle"
    /\ uploads # <<>>
    /\ LET evt == Head(uploads)
           file == saved[evt.id] IN
       upload' = [pc |-> IF file = NoFile THEN "create" ELSE "remove",
                  id |-> evt.id, data |-> evt.data, file |-> file]
    /\ uploads' = Tail(uploads)
    /\ UNCHANGED <<files, saved, fileId, broken>>

removeFile ==
    /\ upload.pc = "remove"
    /\ IF upload.file \in files[upload.id]
       THEN /\ files' = [files EXCEPT ![upload.id] = @ \ {upload.file}]
            /\ upload' = [upload EXCEPT !.pc = "create"]
       ELSE /\ Give
            /\ UNCHANGED files
    /\ UNCHANGED <<uploads, saved, fileId, broken>>

createFile ==
    LET file == <<upload.data, fileId + 1>> IN
    /\ upload.pc = "create"
    /\ fileId' = fileId + 1
    /\ files' = [files EXCEPT ![upload.id] = @ \cup {file}]
    /\ upload' = [upload EXCEPT !.pc = "save", !.file = file]
    /\ UNCHANGED <<uploads, saved, broken>>

SaveFile ==
    /\ upload.pc = "save"
    /\ saved' = [saved EXCEPT ![upload.id] = upload.file]
    /\ Give
    /\ UNCHANGED <<uploads, files, fileId, broken>>

\* One of the calls fails, or the process stops: the message is gone.
UploadFails ==
    /\ upload.pc # "idle"
    /\ Give
    /\ broken' = [broken EXCEPT ![upload.id] = @ + 1]
    /\ UNCHANGED <<uploads, files, saved, fileId>>

UploadFile == GetInfo \/ removeFile \/ createFile \/ SaveFile

-----------------------------------------------------------------------------
\* A document has one file on the platform, and at most one more for each upload
\* that failed half-way; until one does, the table knows the file: retrieval
\* never finds two versions of it (UploadFile).
OneFile ==
    \A d \in Docs :
        /\ Cardinality(files[d]) <= 1 + broken[d]
        /\ (broken[d] = 0 /\ upload.id # d) => files[d] = {saved[d]} \ {NoFile}
=============================================================================
