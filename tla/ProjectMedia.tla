---------------------------- MODULE ProjectMedia ----------------------------
(***************************************************************************)
(* Projects, the media rows that belong to them and the objects in the two *)
(* stores that the rows describe: ProjectService.createProject, which runs *)
(* createMediaEntries in a transaction, and the methods of MediaService    *)
(* that write.  The files themselves go from the client straight to a      *)
(* store, with the signed URLs that the answers hand out.                  *)
(*                                                                         *)
(* A request is a process and an action is the code between two awaits.    *)
(* The project that a createProject request makes is named by the request. *)
(***************************************************************************)
EXTENDS Naturals, FiniteSets

CONSTANTS
    Request,    \* the requests of the run, each handled once
    File,       \* the uuids that generateStoragePath draws, and their rows
    MaxFiles,   \* bound on mediaFiles in one request
    None        \* no project, no row

ASSUME MaxFilesAssumption == MaxFiles \in Nat \ {0}
ASSUME NoneAssumption == None \notin Request \cup File

VARIABLES
    projects,   \* the createProject requests whose project is in the database
    media,      \* how far each uuid has come
    urls,       \* signed URLs to write to, handed out and not yet expired
    objects,    \* what the stores hold
    req         \* the local state of each request

vars == <<projects, media, urls, objects, req>>

Provider == {"GOOGLE_CLOUD", "AWS_S3"}

\* An object lies under storagePath; deleteFile is given mediaFileName, the
\* last part of that path.
Path(f) == <<"storagePath", f>>
Name(f) == <<"mediaFileName", f>>
Key == {"storagePath", "mediaFileName"} \X File
Place == Provider \X Key

Creations == {"createProject", "uploadMedia"}
Deletions == {"deleteS3File", "deleteGCSFile", "deleteMedia"}
Operations == Creations \cup Deletions \cup {"completeUpload", "updateMedia"}

Labels == {"idle", "project.create", "media.create", "sign", "commit", "answer",
           "upload.check", "row.create", "row.find", "storage.delete",
           "row.delete", "update.sign", "row.update", "done"}

RequestState == [op : Operations \cup {"none"},
                 pc : Labels,
                 project : Request \cup {None},
                 provider : Provider,
                 file : File \cup {None},       \* the row it is at
                 left : 0 .. MaxFiles,          \* mediaFiles still to enter
                 rows : SUBSET File,            \* the rows it has entered
                 mediaInfo : SUBSET Place,      \* the URLs it has got signed
                 code : {"none", "OK", "NOT_FOUND", "FAILED_INSERT",
                         "FAILED_DELETE", "FAILED"}]

Idle == [op |-> "none", pc |-> "idle", project |-> None,
         provider |-> "GOOGLE_CLOUD", file |-> None, left |-> 0, rows |-> {},
         mediaInfo |-> {}, code |-> "none"]

-----------------------------------------------------------------------------
InFlight(r) == req[r].pc \notin {"idle", "done"}

Goto(r, label) == req' = [req EXCEPT ![r].pc = label]
Done(r, c) == req' = [req EXCEPT ![r].pc = "done", ![r].code = c]

Begin(r, operation, label, p, v, f, n) ==
    /\ req[r].pc = "idle"
    /\ req' = [req EXCEPT ![r] =
                 [op |-> operation, pc |-> label, project |-> p, provider |-> v,
                  file |-> f, left |-> n, rows |-> {}, mediaInfo |-> {},
                  code |-> "none"]]

\* What a transaction has entered is in no table for others until it commits.
InTransaction(r) == req[r].op = "createProject"

Draw(f) == media[f] = "unused" /\ media' = [media EXCEPT ![f] = "drawn"]

\* Rows that a client can name: ids are uuids, which nobody guesses.
Known == {f \in File : media[f] \in {"live", "deleted"}}

-----------------------------------------------------------------------------
(***************************************************************************)
(* createProject and uploadMedia: createMediaEntries, with the transaction *)
(* of the project or on its own.                                           *)
(***************************************************************************)
CreateProject(r) ==
    /\ \E n \in 0 .. MaxFiles :
         Begin(r, "createProject", "project.create", r, "GOOGLE_CLOUD", None, n)
    /\ UNCHANGED <<projects, media, urls, objects>>

UploadMedia(r) ==
    /\ \E n \in 0 .. MaxFiles, p \in Request :
         Begin(r, "uploadMedia", IF n > 0 THEN "media.create" ELSE "answer",
               p, "GOOGLE_CLOUD", None, n)
    /\ UNCHANGED <<projects, media, urls, objects>>

ProjectCreate(r) ==
    /\ req[r].pc = "project.create"
    /\ Goto(r, IF req[r].left > 0 THEN "media.create" ELSE "commit")
    /\ UNCHANGED <<projects, media, urls, objects>>

Enter(r, f, status) ==
    /\ media[f] = "unused"
    /\ media' = [media EXCEPT ![f] = status]
    /\ req' = [req EXCEPT ![r].pc = "sign", ![r].file = f,
                          ![r].rows = @ \cup {f}, ![r].left = @ - 1]

\* media.create; outside a transaction the row is in the table at once, and
\* the project it names has to be there.
MediaCreate(r) ==
    /\ req[r].pc = "media.create"
    /\ \/ InTransaction(r) /\ \E f \in File : Enter(r, f, "drawn")
       \/ /\ ~InTransaction(r) /\ req[r].project \in projects
          /\ \E f \in File : Enter(r, f, "live")
       \/ /\ ~InTransaction(r) /\ req[r].project \notin projects
          /\ Done(r, "FAILED_INSERT")
          /\ UNCHANGED media
    /\ UNCHANGED <<projects, urls, objects>>

\* Mutant: the URL is the client's as soon as it is signed.
SignAndSend(r) ==
    /\ req[r].pc = "sign"
    /\ Goto(r, CASE req[r].left > 0 -> "media.create"
                 [] req[r].left = 0 /\ InTransaction(r) -> "commit"
                 [] OTHER -> "answer")
    /\ urls' = urls \cup {<<"GOOGLE_CLOUD", Path(req[r].file)>>}
    /\ UNCHANGED <<projects, media, objects>>

\* Mutant: what could not be signed is handed out all the same.
SignUndefined(r) ==
    /\ req[r].pc = "sign"
    /\ req' = [req EXCEPT ![r].pc = IF InTransaction(r) THEN "commit" ELSE "answer",
                          ![r].mediaInfo = @ \cup {None}]
    /\ UNCHANGED <<projects, media, urls, objects>>

\* A URL that could not be signed is reported in mediaInfo and changes nothing
\* else.  Projects come with files for Google Cloud only.
Sign(r) ==
    /\ req[r].pc = "sign"
    /\ LET next == CASE req[r].left > 0 -> "media.create"
                     [] req[r].left = 0 /\ InTransaction(r) -> "commit"
                     [] OTHER -> "answer"
       IN \/ Goto(r, next)
          \/ \E v \in Provider :
               /\ InTransaction(r) => v = "GOOGLE_CLOUD"
               /\ req' = [req EXCEPT ![r].pc = next,
                            ![r].mediaInfo = @ \cup {<<v, Path(req[r].file)>>}]
    /\ UNCHANGED <<projects, media, urls, objects>>

Commit(r) ==
    /\ req[r].pc = "commit"
    /\ projects' = projects \cup {r}
    /\ media' = [f \in File |-> IF f \in req[r].rows THEN "live" ELSE media[f]]
    /\ Goto(r, "answer")
    /\ UNCHANGED <<urls, objects>>

\* What the client gets of mediaInfo.  uploadMedia answers with it as its data;
\* createProject hands it on beside data, and responseFormatter sends data, code
\* and message alone.
Delivered(r) == IF req[r].op = "uploadMedia" THEN req[r].mediaInfo ELSE {}

Answer(r) ==
    /\ req[r].pc = "answer"
    /\ urls' = urls \cup Delivered(r)
    /\ Done(r, "OK")
    /\ UNCHANGED <<projects, media, objects>>

-----------------------------------------------------------------------------
(***************************************************************************)
(* completeS3Upload and completeGCSUpload, which take the file to be at a  *)
(* path that they draw anew.                                               *)
(***************************************************************************)
CompleteUpload(r) ==
    /\ \E f \in File, p \in Request, v \in Provider :
         /\ Draw(f)
         /\ Begin(r, "completeUpload", "upload.check", p, v, f, 0)
    /\ UNCHANGED <<projects, urls, objects>>

\* getFileMetadata finds the object of that key.
HasMetadata(key) == <<"AWS_S3", key>> \in objects

\* S3 is asked for the metadata of the object; for Google Cloud a URL is
\* signed, which needs no object.
UploadCheck(r) ==
    /\ req[r].pc = "upload.check"
    /\ \/ /\ req[r].provider = "AWS_S3" => HasMetadata(Path(req[r].file))
          /\ Goto(r, "row.create")
       \/ Done(r, "NOT_FOUND")
    /\ UNCHANGED <<projects, media, urls, objects>>

RowCreate(r) ==
    /\ req[r].pc = "row.create"
    /\ IF req[r].project \in projects
       THEN /\ media' = [media EXCEPT ![req[r].file] = "live"]
            /\ Done(r, "OK")
       ELSE UNCHANGED media /\ Done(r, "FAILED_INSERT")
    /\ UNCHANGED <<projects, urls, objects>>

-----------------------------------------------------------------------------
(***************************************************************************)
(* deleteS3File, deleteGCSFile and deleteMedia; updateMedia.               *)
(***************************************************************************)
DeleteFile(r) ==
    /\ \E o \in Deletions, f \in Known :
         Begin(r, o, "row.find", None, "GOOGLE_CLOUD", f, 0)
    /\ UNCHANGED <<projects, media, urls, objects>>

UpdateMedia(r) ==
    /\ \E v \in Provider, f \in Known :
         Begin(r, "updateMedia", "row.find", None, v, f, 0)
    /\ UNCHANGED <<projects, media, urls, objects>>

RowFind(r) ==
    /\ req[r].pc = "row.find"
    /\ IF media[req[r].file] # "live"
       THEN Done(r, "NOT_FOUND")
       ELSE Goto(r, CASE req[r].op = "updateMedia" -> "update.sign"
                      [] req[r].op = "deleteGCSFile" -> "row.delete"
                      [] OTHER -> "storage.delete")
    /\ UNCHANGED <<projects, media, urls, objects>>

\* What S3 holds when it has deleted a key, which it need not have.
Without(key) == objects \ {<<"AWS_S3", key>>}

\* deleteFile reports a failure of S3 and never throws, so that deleteMedia,
\* which looks for an exception, goes on in any case.
StorageDelete(r) ==
    /\ req[r].pc = "storage.delete"
    /\ \/ /\ objects' = Without(Name(req[r].file))
          /\ Goto(r, "row.delete")
       \/ /\ UNCHANGED objects
          /\ IF req[r].op = "deleteMedia" THEN Goto(r, "row.delete")
                                          ELSE Done(r, "FAILED_DELETE")
    /\ UNCHANGED <<projects, media, urls>>

\* Mutant: a row that is gone counts as deleted, as with deleteMany.
RowDeleteMany(r) ==
    /\ req[r].pc = "row.delete"
    /\ media' = [media EXCEPT ![req[r].file] = "deleted"]
    /\ Done(r, "OK")
    /\ UNCHANGED <<projects, urls, objects>>

\* By id: a row that is gone is an exception, answered with NOT_FOUND.
RowDelete(r) ==
    /\ req[r].pc = "row.delete"
    /\ IF media[req[r].file] = "live"
       THEN /\ media' = [media EXCEPT ![req[r].file] = "deleted"]
            /\ Done(r, "OK")
       ELSE UNCHANGED media /\ Done(r, "NOT_FOUND")
    /\ UNCHANGED <<projects, urls, objects>>

UpdateSign(r) ==
    /\ req[r].pc = "update.sign"
    /\ \/ req' = [req EXCEPT ![r].pc = "row.update",
                    ![r].mediaInfo = {<<req[r].provider, Path(req[r].file)>>}]
       \/ Done(r, "FAILED")
    /\ UNCHANGED <<projects, media, urls, objects>>

RowUpdate(r) ==
    /\ req[r].pc = "row.update"
    /\ IF media[req[r].file] = "live"
       THEN urls' = urls \cup req[r].mediaInfo /\ Done(r, "OK")
       ELSE UNCHANGED urls /\ Done(r, "NOT_FOUND")
    /\ UNCHANGED <<projects, media, objects>>

-----------------------------------------------------------------------------
\* Mutant: createProject returns the code of createMediaEntries, where an
\* exception would roll its transaction back.
FailButCommit(r) ==
    /\ InFlight(r)
    /\ Done(r, "FAILED")
    /\ IF req[r].op = "createProject" /\ req[r].pc = "media.create"
       THEN /\ projects' = projects \cup {r}
            /\ media' = [f \in File |-> IF f \in req[r].rows THEN "live" ELSE media[f]]
       ELSE UNCHANGED <<projects, media>>
    /\ UNCHANGED <<urls, objects>>

\* The database refuses a call or cannot be reached, or the time of the
\* transaction is up: serviceMethod answers with the code alone, and what a
\* transaction has entered is rolled back.
Fail(r) ==
    /\ InFlight(r) /\ req[r].pc # "answer"
    /\ Done(r, "FAILED")
    /\ UNCHANGED <<projects, media, urls, objects>>

\* The process ends, and with it every request that it has in hand.
Crash ==
    /\ \E r \in Request : InFlight(r)
    /\ req' = [r \in Request |-> IF InFlight(r) THEN [req[r] EXCEPT !.pc = "done"]
                                                ELSE req[r]]
    /\ UNCHANGED <<projects, media, urls, objects>>

\* A client sends a file, perhaps over the one it or another has sent before.
ClientPut ==
    /\ \E place \in urls : objects' = objects \cup {place}
    /\ UNCHANGED <<projects, media, urls, req>>

\* An hour after it was signed.
UrlExpires ==
    /\ \E place \in urls : urls' = urls \ {place}
    /\ UNCHANGED <<projects, media, objects, req>>

-----------------------------------------------------------------------------
Init ==
    /\ projects = {} /\ urls = {} /\ objects = {}
    /\ media = [f \in File |-> "unused"]
    /\ req = [r \in Request |-> Idle]

Start(r) == \/ CreateProject(r) \/ UploadMedia(r) \/ CompleteUpload(r)
            \/ DeleteFile(r) \/ UpdateMedia(r)

Step(r) == \/ ProjectCreate(r) \/ MediaCreate(r) \/ Sign(r) \/ Commit(r)
           \/ Answer(r) \/ UploadCheck(r) \/ RowCreate(r) \/ RowFind(r)
           \/ StorageDelete(r) \/ RowDelete(r) \/ UpdateSign(r) \/ RowUpdate(r)

Next == \/ \E r \in Request : Start(r) \/ Step(r) \/ Fail(r)
        \/ Crash \/ ClientPut \/ UrlExpires

Spec == Init /\ [][Next]_vars

-----------------------------------------------------------------------------
\* The variables have their types.
TypeOK ==
    /\ projects \subseteq Request
    /\ media \in [File -> {"unused", "drawn", "live", "deleted"}]
    /\ urls \subseteq Place
    /\ objects \subseteq Place
    /\ req \in [Request -> RequestState]

Committed == {"live", "deleted"}

\* A project is in the database with a row for each of its files, or neither
\* it nor any of them is, whatever failed, ran out of time or crashed on the
\* way (projectService.createProject).
ProjectWhole ==
    \A r \in Request : req[r].op = "createProject" =>
        /\ r \in projects => /\ req[r].left = 0
                             /\ \A f \in req[r].rows : media[f] \in Committed
        /\ r \notin projects => /\ req[r].code # "OK"
                                /\ \A f \in req[r].rows : media[f] = "drawn"

\* A store is written only where a row was committed that names the place: a
\* creation that was rolled back or cut off leaves no URL and no object behind
\* (mediaService.createMediaEntries signs before the transaction commits).
StoredHasRow ==
    \A place \in urls \cup objects : media[place[2][2]] \in Committed

\* The requests that were told that they had deleted f.
Told(f) == {r \in Request : /\ req[r].op \in Deletions
                            /\ req[r].file = f /\ req[r].code = "OK"}

\* Of the requests to delete a row, of whichever kind, exactly one is told
\* that it did, and none is while the row remains (deleteS3File,
\* deleteGCSFile, deleteMedia).
DeletedByOne ==
    \A f \in File : Cardinality(Told(f)) = (IF media[f] = "deleted" THEN 1 ELSE 0)

\* The answer of POST /project has data.mediaInfo with the URLs to write to
\* (create_project_response in projectDocs.ts): once createProject has answered
\* OK, every URL that it got signed is with the client.
UrlsReachClient ==
    [][\A r \in Request :
         /\ req[r].op = "createProject" /\ req[r].code # "OK" /\ req'[r].code = "OK"
         => req[r].mediaInfo \subseteq urls']_vars

-----------------------------------------------------------------------------
(***************************************************************************)
(* The inductive invariant.  A uuid belongs to the one request that drew   *)
(* it, which alone may enter a row for it; a request that names a row      *)
(* found it committed.                                                     *)
(***************************************************************************)
Route == [o \in Operations \cup {"none"} |->
            CASE o = "none" -> {"idle"}
              [] o = "createProject" -> {"project.create", "media.create", "sign",
                                         "commit", "answer", "done"}
              [] o = "uploadMedia" -> {"media.create", "sign", "answer", "done"}
              [] o = "completeUpload" -> {"upload.check", "row.create", "done"}
              [] o = "updateMedia" -> {"row.find", "update.sign", "row.update", "done"}
              [] o = "deleteGCSFile" -> {"row.find", "row.delete", "done"}
              [] OTHER -> {"row.find", "storage.delete", "row.delete", "done"}]

Owned(r) == req[r].rows \cup
            (IF req[r].op = "completeUpload" THEN {req[r].file} ELSE {})

LocalShape ==
    \A r \in Request :
        /\ req[r].pc \in Route[req[r].op]
        /\ req[r].op = "none" => req[r] = Idle
        /\ req[r].pc # "done" => req[r].code = "none"
        /\ req[r].op \notin Creations => req[r].rows = {}
        /\ req[r].pc = "sign" => req[r].file \in req[r].rows
        /\ req[r].pc = "media.create" => req[r].left # 0
        /\ req[r].pc = "commit" => req[r].left = 0
        /\ req[r].op \notin Creations \cup {"none"} => req[r].file \in File

ProjectShape ==
    \A r \in Request :
        /\ r \in projects => req[r].op = "createProject" /\ req[r].pc \in {"answer", "done"}
        /\ req[r].op = "createProject" /\ req[r].pc = "answer" => r \in projects

OwnShape ==
    /\ \A r \in Request : \A f \in Owned(r) : media[f] # "unused"
    /\ \A r, q \in Request : r # q => Owned(r) \cap Owned(q) = {}

RowShape ==
    \A r \in Request :
        /\ req[r].op = "uploadMedia" => \A f \in req[r].rows : media[f] \in Committed
        /\ req[r].op = "completeUpload" /\ req[r].pc # "done" =>
             media[req[r].file] = "drawn"
        /\ req[r].op \in Deletions \cup {"updateMedia"} =>
             media[req[r].file] \in Committed

InfoShape ==
    \A r \in Request : \A place \in req[r].mediaInfo :
        \/ req[r].op \in Creations /\ place[2][2] \in req[r].rows
        \/ req[r].op = "updateMedia" /\ place[2][2] = req[r].file

ToldShape ==
    \A f \in File : /\ media[f] = "deleted" <=> Told(f) # {}
                    /\ \A r, q \in Told(f) : r = q

IInv == /\ TypeOK /\ LocalShape /\ ProjectShape /\ OwnShape /\ RowShape
        /\ InfoShape /\ ToldShape /\ ProjectWhole /\ StoredHasRow
=============================================================================
