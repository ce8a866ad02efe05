------------------------ MODULE ProjectMedia_proofs ------------------------
(***************************************************************************)
(* What TLAPS proves of ProjectMedia, for any number of requests, of files *)
(* and of files in a request.                                              *)
(***************************************************************************)
EXTENDS ProjectMedia, FiniteSetTheorems, TLAPS

USE NoneAssumption, MaxFilesAssumption

\* The steps of Next, in the groups the proofs below go by.
LEMMA StepCases ==
  ASSUME [Next]_vars
  PROVE  \/ \E r \in Request : Start(r) \/ Step(r) \/ Fail(r)
         \/ Crash \/ ClientPut \/ UrlExpires \/ UNCHANGED vars
  BY DEF Next

\* The type of req alone.
LEMMA ReqType == IInv => req \in [Request -> RequestState]
  BY DEF IInv, TypeOK

\* What a request in flight is at, by its label.
LEMMA Holds ==
  ASSUME IInv, NEW r \in Request, InFlight(r)
  PROVE  /\ req[r].op \in Operations /\ req[r].code = "none"
         /\ req[r].pc \in {"project.create", "commit"} => req[r].op = "createProject"
         /\ req[r].pc \in {"media.create", "sign", "answer"} => req[r].op \in Creations
         /\ req[r].pc \in {"upload.check", "row.create"} => req[r].op = "completeUpload"
         /\ req[r].pc \in {"storage.delete", "row.delete"} => req[r].op \in Deletions
         /\ req[r].pc \in {"update.sign", "row.update"} => req[r].op = "updateMedia"
         /\ req[r].pc = "row.find" => req[r].op \in Deletions \cup {"updateMedia"}
         /\ req[r].op \notin Creations => req[r].file \in File
         /\ req[r].pc = "sign" => req[r].file \in req[r].rows
  BY ReqType DEF IInv, LocalShape, Route, InFlight, RequestState, Operations,
     Creations, Deletions

-----------------------------------------------------------------------------
\* A request starts from nothing, and with a uuid of its own or a known row.
LEMMA StartEffect ==
  ASSUME IInv, NEW r \in Request, Start(r)
  PROVE  /\ req[r].pc = "idle"
         /\ UNCHANGED <<projects, urls, objects>>
         /\ req' \in [Request -> RequestState]
         /\ \A q \in Request \ {r} : req'[q] = req[q]
         /\ req'[r].op \in Operations
         /\ req'[r].pc \in Route[req'[r].op] \ {"sign", "commit", "done"}
         /\ req'[r].op = "createProject" => req'[r].pc # "answer"
         /\ req'[r].pc = "media.create" => req'[r].left # 0
         /\ req'[r].code = "none" /\ req'[r].rows = {} /\ req'[r].mediaInfo = {}
         /\ req'[r].op \notin Creations => req'[r].file \in File
         /\ req'[r].op \in Deletions \cup {"updateMedia"} =>
              req'[r].file \in Known
         /\ IF req'[r].op = "completeUpload"
            THEN Draw(req'[r].file)
            ELSE UNCHANGED media
  <1> USE DEF Operations, Creations, Deletions, Route
  <1>1. PICK o \in Operations, l \in Labels, p \in Request \cup {None},
             v \in Provider, f \in File \cup {None}, n \in 0 .. MaxFiles :
          /\ Begin(r, o, l, p, v, f, n)
          /\ l \in Route[o] \ {"sign", "commit", "done"}
          /\ o = "createProject" => l # "answer"
          /\ l = "media.create" => n # 0
          /\ o \notin Creations => f \in File
          /\ o \in Deletions \cup {"updateMedia"} => f \in Known
          /\ IF o = "completeUpload" THEN Draw(f) ELSE UNCHANGED media
    <2> USE DEF Labels, Provider
    <2>1. CASE CreateProject(r)
      BY <2>1 DEF CreateProject
    <2>2. CASE UploadMedia(r)
      BY <2>2 DEF UploadMedia
    <2>3. CASE CompleteUpload(r)
      BY <2>3 DEF CompleteUpload
    <2>4. CASE DeleteFile(r)
      BY <2>4 DEF DeleteFile, Known
    <2>5. CASE UpdateMedia(r)
      BY <2>5 DEF UpdateMedia, Known
    <2> QED BY <2>1, <2>2, <2>3, <2>4, <2>5 DEF Start
  <1> DEFINE s == [op |-> o, pc |-> l, project |-> p, provider |-> v,
                   file |-> f, left |-> n, rows |-> {}, mediaInfo |-> {},
                   code |-> "none"]
  <1>2. /\ req[r].pc = "idle"
        /\ req' = [req EXCEPT ![r] = s]
    BY <1>1 DEF Begin
  <1>3. s \in RequestState
    BY DEF RequestState
  <1>4. /\ req' \in [Request -> RequestState]
        /\ req'[r] = s
        /\ \A q \in Request \ {r} : req'[q] = req[q]
    BY <1>2, <1>3, ReqType
  <1>5. UNCHANGED <<projects, urls, objects>>
    BY DEF Start, CreateProject, UploadMedia, CompleteUpload, DeleteFile, UpdateMedia
  <1>6. /\ req'[r].op = o /\ req'[r].pc = l /\ req'[r].file = f
        /\ req'[r].left = n
        /\ req'[r].rows = {} /\ req'[r].mediaInfo = {} /\ req'[r].code = "none"
    BY <1>4
  <1>7. IF req'[r].op = "completeUpload" THEN Draw(req'[r].file) ELSE UNCHANGED media
    BY <1>1, <1>6 DEF Draw
  <1> HIDE DEF s
  <1> QED BY <1>1, <1>2, <1>4, <1>5, <1>6, <1>7 DEF Known

\* What Sign, UpdateSign and Enter do to the record of their request.
SignTo(r, l, M) == req' = [req EXCEPT ![r].pc = l, ![r].mediaInfo = M]

EnterTo(r, f, n, R) == req' = [req EXCEPT ![r].pc = "sign", ![r].file = f,
                                          ![r].rows = R, ![r].left = n]

\* The type of req follows from that of the one record that changes.
LEMMA OneChange ==
  ASSUME IInv, NEW r \in Request, req'[r] \in RequestState,
         req' = [q \in Request |-> req'[q]],
         \A q \in Request \ {r} : req'[q] = req[q]
  PROVE  req' \in [Request -> RequestState]
  BY ReqType

\* The record of a request as its four kinds of changes leave it.
LEMMA GotoEffect ==
  ASSUME IInv, NEW r \in Request, NEW l \in Labels, Goto(r, l)
  PROVE  /\ req' \in [Request -> RequestState]
         /\ \A q \in Request \ {r} : req'[q] = req[q]
         /\ req'[r].op = req[r].op /\ req'[r].pc = l
         /\ req'[r].file = req[r].file /\ req'[r].left = req[r].left
         /\ req'[r].rows = req[r].rows
         /\ req'[r].mediaInfo = req[r].mediaInfo /\ req'[r].code = req[r].code
  BY ReqType DEF Goto, RequestState

LEMMA DoneEffect ==
  ASSUME IInv, NEW r \in Request,
         NEW c \in {"OK", "NOT_FOUND", "FAILED_INSERT", "FAILED_DELETE", "FAILED"},
         Done(r, c)
  PROVE  /\ req' \in [Request -> RequestState]
         /\ \A q \in Request \ {r} : req'[q] = req[q]
         /\ req'[r].op = req[r].op /\ req'[r].pc = "done"
         /\ req'[r].file = req[r].file /\ req'[r].left = req[r].left
         /\ req'[r].rows = req[r].rows
         /\ req'[r].mediaInfo = req[r].mediaInfo /\ req'[r].code = c
  <1> DEFINE x == [op |-> req[r].op, pc |-> "done", project |-> req[r].project,
                   provider |-> req[r].provider, file |-> req[r].file,
                   left |-> req[r].left, rows |-> req[r].rows,
                   mediaInfo |-> req[r].mediaInfo, code |-> c]
  <1>1. x \in RequestState
    BY ReqType DEF RequestState, Labels
  <1>2. req'[r] = x
    <2>1. PICK y \in RequestState : y = req[r]
      BY ReqType
    <2>2. req'[r] = [y EXCEPT !.pc = "done", !.code = c]
      BY <2>1, ReqType DEF Done
    <2>3. y = [op |-> y.op, pc |-> y.pc, project |-> y.project,
               provider |-> y.provider, file |-> y.file, left |-> y.left,
               rows |-> y.rows, mediaInfo |-> y.mediaInfo, code |-> y.code]
      BY DEF RequestState
    <2>4. req'[r] = [op |-> y.op, pc |-> "done", project |-> y.project,
                     provider |-> y.provider, file |-> y.file, left |-> y.left,
                     rows |-> y.rows, mediaInfo |-> y.mediaInfo, code |-> c]
      <3> HIDE DEF RequestState
      <3> QED BY <2>2, <2>3
    <2> QED BY <2>1, <2>4
  <1>3. /\ \A q \in Request \ {r} : req'[q] = req[q]
        /\ req' = [q \in Request |-> req'[q]]
    BY ReqType DEF Done
  <1>4. req' \in [Request -> RequestState]
    <2> HIDE DEF x
    <2> QED BY <1>1, <1>2, <1>3, OneChange
  <1> QED BY <1>2, <1>3, <1>4

LEMMA SignedEffect ==
  ASSUME IInv, NEW r \in Request, NEW l \in Labels, NEW M \in SUBSET Place,
         SignTo(r, l, M)
  PROVE  /\ req' \in [Request -> RequestState]
         /\ \A q \in Request \ {r} : req'[q] = req[q]
         /\ req'[r].op = req[r].op /\ req'[r].pc = l
         /\ req'[r].file = req[r].file /\ req'[r].left = req[r].left
         /\ req'[r].rows = req[r].rows
         /\ req'[r].mediaInfo = M /\ req'[r].code = req[r].code
  <1> DEFINE x == [op |-> req[r].op, pc |-> l, project |-> req[r].project,
                   provider |-> req[r].provider, file |-> req[r].file,
                   left |-> req[r].left, rows |-> req[r].rows,
                   mediaInfo |-> M, code |-> req[r].code]
  <1>1. x \in RequestState
    BY ReqType DEF RequestState, Labels
  <1>2. req'[r] = x
    <2>1. PICK y \in RequestState : y = req[r]
      BY ReqType
    <2>2. req'[r] = [y EXCEPT !.pc = l, !.mediaInfo = M]
      BY <2>1, ReqType DEF SignTo
    <2>3. y = [op |-> y.op, pc |-> y.pc, project |-> y.project,
               provider |-> y.provider, file |-> y.file, left |-> y.left,
               rows |-> y.rows, mediaInfo |-> y.mediaInfo, code |-> y.code]
      BY DEF RequestState
    <2>4. req'[r] = [op |-> y.op, pc |-> l, project |-> y.project,
                     provider |-> y.provider, file |-> y.file, left |-> y.left,
                     rows |-> y.rows, mediaInfo |-> M, code |-> y.code]
      <3> HIDE DEF RequestState
      <3> QED BY <2>2, <2>3
    <2> QED BY <2>1, <2>4
  <1>3. /\ \A q \in Request \ {r} : req'[q] = req[q]
        /\ req' = [q \in Request |-> req'[q]]
    BY ReqType DEF SignTo
  <1>4. req' \in [Request -> RequestState]
    <2> HIDE DEF x
    <2> QED BY <1>1, <1>2, <1>3, OneChange
  <1> QED BY <1>2, <1>3, <1>4

LEMMA EnterEffect ==
  ASSUME IInv, NEW r \in Request, NEW f \in File, NEW n \in 0 .. MaxFiles,
         NEW R \in SUBSET File,
         EnterTo(r, f, n, R)
  PROVE  /\ req' \in [Request -> RequestState]
         /\ \A q \in Request \ {r} : req'[q] = req[q]
         /\ req'[r].op = req[r].op /\ req'[r].pc = "sign"
         /\ req'[r].file = f /\ req'[r].left = n
         /\ req'[r].rows = R
         /\ req'[r].mediaInfo = req[r].mediaInfo /\ req'[r].code = req[r].code
  <1> DEFINE x == [op |-> req[r].op, pc |-> "sign", project |-> req[r].project,
                   provider |-> req[r].provider, file |-> f,
                   left |-> n, rows |-> R,
                   mediaInfo |-> req[r].mediaInfo, code |-> req[r].code]
  <1>1. x \in RequestState
    BY ReqType DEF RequestState, Labels
  <1>2. req'[r] = x
    <2>1. PICK y \in RequestState : y = req[r]
      BY ReqType
    <2>2. req'[r] = [y EXCEPT !.pc = "sign", !.file = f, !.rows = R, !.left = n]
      BY <2>1, ReqType DEF EnterTo
    <2>3. y = [op |-> y.op, pc |-> y.pc, project |-> y.project,
               provider |-> y.provider, file |-> y.file, left |-> y.left,
               rows |-> y.rows, mediaInfo |-> y.mediaInfo, code |-> y.code]
      BY DEF RequestState
    <2>4. req'[r] = [op |-> y.op, pc |-> "sign", project |-> y.project,
                     provider |-> y.provider, file |-> f, left |-> n,
                     rows |-> R, mediaInfo |-> y.mediaInfo, code |-> y.code]
      <3> HIDE DEF RequestState
      <3> QED BY <2>2, <2>3
    <2> QED BY <2>1, <2>4
  <1>3. /\ \A q \in Request \ {r} : req'[q] = req[q]
        /\ req' = [q \in Request |-> req'[q]]
    BY ReqType DEF EnterTo
  <1>4. req' \in [Request -> RequestState]
    <2> HIDE DEF x
    <2> QED BY <1>1, <1>2, <1>3, OneChange
  <1> QED BY <1>2, <1>3, <1>4

\* A step moves its request along its route.
LEMMA StepEffect ==
  ASSUME IInv, NEW r \in Request, Step(r) \/ Fail(r)
  PROVE  /\ InFlight(r)
         /\ req' \in [Request -> RequestState]
         /\ \A q \in Request \ {r} : req'[q] = req[q]
         /\ req'[r].op = req[r].op
         /\ req'[r].pc \in Route[req[r].op]
         /\ req'[r].pc # "done" => req'[r].code = "none"
         /\ \/ /\ MediaCreate(r) /\ req'[r].pc = "sign"
               /\ req'[r].file \in File
               /\ Enter(r, req'[r].file, IF InTransaction(r) THEN "drawn" ELSE "live")
               /\ req'[r].rows = req[r].rows \cup {req'[r].file}
            \/ /\ req'[r].pc # "sign"
               /\ req'[r].file = req[r].file /\ req'[r].rows = req[r].rows
               /\ MediaCreate(r) => UNCHANGED media
         /\ req'[r].pc = "commit" => req'[r].left = 0
         /\ req'[r].pc = "media.create" => req'[r].left # 0
         /\ req'[r].pc # "sign" => req'[r].left = req[r].left
         /\ req'[r].mediaInfo # req[r].mediaInfo =>
              \A place \in req'[r].mediaInfo \ req[r].mediaInfo :
                place[2][2] = req[r].file /\ (Sign(r) \/ UpdateSign(r))
         /\ req'[r].code = "OK" =>
              Answer(r) \/ RowCreate(r) \/ RowDelete(r) \/ RowUpdate(r)
         /\ req'[r].pc = "answer" => Commit(r) \/ req[r].op = "uploadMedia"
  <1>1. InFlight(r)
    BY DEF InFlight, Step, ProjectCreate, MediaCreate, Sign, Commit, Answer,
       UploadCheck, RowCreate, RowFind, StorageDelete, RowDelete, UpdateSign,
       RowUpdate, Fail
  <1>4. /\ "done" \in Route[req[r].op] /\ "done" \in Labels
        /\ req[r].op \in Creations => "media.create" \in Route[req[r].op]
        /\ req[r].op \in Creations => "answer" \in Route[req[r].op]
    BY <1>1, Holds DEF Route, Operations, Creations, Deletions, Labels
  <1> USE DEF Labels
  <1>5. CASE MediaCreate(r)
    <2>1. req[r].op \in Creations /\ req[r].left # 0
      BY <1>1, <1>5, Holds DEF MediaCreate, IInv, LocalShape
    <2>2. CASE \E g \in File :
                 Enter(r, g, IF InTransaction(r) THEN "drawn" ELSE "live")
      <3>1. PICK g \in File :
              Enter(r, g, IF InTransaction(r) THEN "drawn" ELSE "live")
        BY <2>2
      <3>2. PICK n \in 0 .. MaxFiles, R \in SUBSET File :
              n = req[r].left - 1 /\ R = req[r].rows \cup {g}
        <4>1. /\ req[r].left \in 0 .. MaxFiles /\ req[r].left # 0
              /\ req[r].rows \cup {g} \in SUBSET File
          BY <2>1, ReqType DEF RequestState
        <4>2. req[r].left - 1 \in 0 .. MaxFiles
          BY <4>1
        <4> QED BY <4>1, <4>2
      <3>3. EnterTo(r, g, n, R)
        BY <3>1, <3>2, ReqType DEF Enter, EnterTo, RequestState
      <3>4. req'[r].file = g /\ req'[r].rows = R
        BY <3>3, EnterEffect
      <3>5. Enter(r, req'[r].file, IF InTransaction(r) THEN "drawn" ELSE "live")
        BY <3>1, <3>4
      <3>6. "sign" \in Route[req[r].op]
        BY <2>1 DEF Route, Operations, Creations
      <3>7. req[r].code = "none"
        BY <1>1, Holds
      <3> QED BY <1>1, <1>5, <3>2, <3>3, <3>4, <3>5, <3>6, <3>7, EnterEffect
    <2>3. CASE Done(r, "FAILED_INSERT") /\ UNCHANGED media
      BY <1>1, <1>4, <2>1, <2>3, DoneEffect
    <2> QED BY <1>5, <2>2, <2>3 DEF MediaCreate
  <1>6. CASE Sign(r)
    <2>1. req[r].op \in Creations /\ req[r].code = "none" /\ ~MediaCreate(r)
      BY <1>1, <1>6, Holds DEF Sign, MediaCreate
    <2>2. PICK l \in {"media.create", "commit", "answer"} :
            /\ l \in Route[req[r].op]
            /\ l = "commit" => req[r].left = 0
            /\ l = "media.create" => req[r].left # 0
            /\ l = "answer" => req[r].op = "uploadMedia"
            /\ \/ Goto(r, l)
               \/ \E v \in Provider :
                    SignTo(r, l, req[r].mediaInfo \cup {<<v, Path(req[r].file)>>})
      BY <1>4, <1>6, <2>1, ReqType
         DEF Sign, SignTo, InTransaction, Route, Operations, Creations, RequestState
    <2>3. CASE Goto(r, l)
      BY <1>1, <1>6, <2>1, <2>2, <2>3, GotoEffect
    <2>4. CASE \E v \in Provider :
                 SignTo(r, l, req[r].mediaInfo \cup {<<v, Path(req[r].file)>>})
      <3>1. PICK v \in Provider, M \in SUBSET Place :
              /\ M = req[r].mediaInfo \cup {<<v, Path(req[r].file)>>}
              /\ SignTo(r, l, M)
        <4>1. req[r].file \in File
          BY <1>1, <1>6, Holds, ReqType DEF Sign, RequestState
        <4>2. PICK v \in Provider :
                SignTo(r, l, req[r].mediaInfo \cup {<<v, Path(req[r].file)>>})
          BY <2>4
        <4>3. <<v, Path(req[r].file)>> \in Place /\ req[r].mediaInfo \subseteq Place
          BY <4>1, ReqType DEF RequestState, Place, Key, Path
        <4>4. PICK M \in SUBSET Place :
                M = req[r].mediaInfo \cup {<<v, Path(req[r].file)>>}
          BY <4>3
        <4> QED BY <4>2, <4>4 DEF SignTo
      <3>2. \A place \in M \ req[r].mediaInfo : place[2][2] = req[r].file
        BY <3>1 DEF Path
      <3> QED BY <1>1, <1>6, <2>1, <2>2, <3>1, <3>2, SignedEffect
    <2> QED BY <2>2, <2>3, <2>4
  <1>7. CASE UpdateSign(r)
    <2>1. req[r].op = "updateMedia" /\ req[r].code = "none" /\ ~MediaCreate(r)
      BY <1>1, <1>7, Holds DEF UpdateSign, MediaCreate
    <2>2. CASE Done(r, "FAILED")
      BY <1>1, <1>4, <1>7, <2>1, <2>2, DoneEffect
    <2>3. CASE ~Done(r, "FAILED")
      <3>1. PICK M \in SUBSET Place :
              /\ M = {<<req[r].provider, Path(req[r].file)>>}
              /\ SignTo(r, "row.update", M)
        <4>1. req[r].file \in File
          BY <1>1, <2>1, Holds DEF Creations
        <4> QED BY <1>7, <2>3, <4>1, ReqType
                DEF UpdateSign, SignTo, RequestState, Place, Key, Path
      <3>2. \A place \in M \ req[r].mediaInfo : place[2][2] = req[r].file
        BY <3>1 DEF Path
      <3>3. "row.update" \in Route[req[r].op]
        BY <2>1 DEF Route, Operations
      <3> QED BY <1>1, <1>7, <2>1, <3>1, <3>2, <3>3, SignedEffect
    <2> QED BY <2>2, <2>3
  <1>8. CASE ProjectCreate(r) \/ Commit(r)
    <2>1. req[r].op = "createProject" /\ req[r].code = "none" /\ ~MediaCreate(r)
      BY <1>1, <1>8, Holds DEF ProjectCreate, Commit, MediaCreate
    <2>2. PICK l \in {"media.create", "commit", "answer"} :
            /\ Goto(r, l)
            /\ l = "commit" => req[r].left = 0
            /\ l = "media.create" => req[r].left # 0
            /\ l = "answer" => Commit(r)
      BY <1>8, ReqType DEF ProjectCreate, Commit, RequestState
    <2>3. l \in Route[req[r].op]
      BY <2>1 DEF Route, Operations, Creations
    <2> QED BY <1>1, <2>1, <2>2, <2>3, GotoEffect
  <1>9. CASE UploadCheck(r) \/ RowFind(r) \/ StorageDelete(r)
    <2>1. req[r].op \notin Creations /\ req[r].code = "none" /\ ~MediaCreate(r)
      BY <1>1, <1>9, Holds
         DEF UploadCheck, RowFind, StorageDelete, MediaCreate, Creations, Deletions
    <2>2. \/ \E c \in {"NOT_FOUND", "FAILED_DELETE"} : Done(r, c)
          \/ \E l \in {"row.create", "update.sign", "row.delete", "storage.delete"} :
               l \in Route[req[r].op] /\ Goto(r, l)
      <3>1. CASE UploadCheck(r)
        BY <1>1, <3>1, Holds DEF UploadCheck, Route, Operations
      <3>2. CASE RowFind(r)
        BY <1>1, <3>2, Holds DEF RowFind, Route, Operations, Deletions
      <3>3. CASE StorageDelete(r)
        <4>1. req[r].op \in Deletions /\ req[r].op # "deleteGCSFile"
          BY <1>1, <3>3, Holds DEF StorageDelete, IInv, LocalShape, Route, Operations
        <4> QED BY <3>3, <4>1 DEF StorageDelete, Route, Operations, Deletions
      <3> QED BY <1>9, <3>1, <3>2, <3>3
    <2>3. CASE \E c \in {"NOT_FOUND", "FAILED_DELETE"} : Done(r, c)
      BY <1>1, <1>4, <2>1, <2>3, DoneEffect
    <2>4. CASE \E l \in {"row.create", "update.sign", "row.delete", "storage.delete"} :
                 l \in Route[req[r].op] /\ Goto(r, l)
      BY <1>1, <2>1, <2>4, GotoEffect
    <2> QED BY <2>2, <2>3, <2>4
  <1>10. CASE Answer(r) \/ RowCreate(r) \/ RowDelete(r) \/ RowUpdate(r)
    <2>1. PICK c \in {"OK", "NOT_FOUND", "FAILED_INSERT"} : Done(r, c)
      BY <1>10 DEF Answer, RowCreate, RowDelete, RowUpdate
    <2>2. ~MediaCreate(r)
      BY <1>10 DEF Answer, RowCreate, RowDelete, RowUpdate, MediaCreate
    <2> QED BY <1>1, <1>4, <1>10, <2>1, <2>2, DoneEffect
  <1>11. CASE Fail(r)
    <2>1. Done(r, "FAILED") /\ UNCHANGED media
      BY <1>11 DEF Fail
    <2> QED BY <1>1, <1>4, <2>1, DoneEffect
  <1> QED BY <1>5, <1>6, <1>7, <1>8, <1>9, <1>10, <1>11 DEF Step
-----------------------------------------------------------------------------
\* What may become of a uuid, and by which step.
Becomes(f) ==
  \/ media'[f] = media[f]
  \/ /\ media[f] = "unused" /\ media'[f] = "drawn"
     /\ \E r \in Request : /\ Start(r) /\ req'[r].op = "completeUpload"
                           /\ req'[r].file = f
  \/ /\ media[f] = "unused"
     /\ \E r \in Request :
          /\ MediaCreate(r) /\ req'[r].pc = "sign" /\ req'[r].file = f
          /\ media'[f] = IF InTransaction(r) THEN "drawn" ELSE "live"
  \/ /\ media[f] = "drawn" /\ media'[f] = "live"
     /\ \E r \in Request : \/ Commit(r) /\ f \in req[r].rows
                           \/ RowCreate(r) /\ f = req[r].file
  \/ /\ media[f] = "live" /\ media'[f] = "deleted"
     /\ \E r \in Request : /\ RowDelete(r) /\ f = req[r].file
                           /\ req'[r].code = "OK"

LEMMA MediaEffect ==
  ASSUME IInv, [Next]_vars
  PROVE  /\ media' \in [File -> {"unused", "drawn", "live", "deleted"}]
         /\ \A f \in File : Becomes(f)
  <1>t. media \in [File -> {"unused", "drawn", "live", "deleted"}]
    BY DEF IInv, TypeOK
  <1>1. CASE media' = media
    BY <1>1, <1>t DEF Becomes
  <1>2. ASSUME NEW r \in Request, Start(r), media' # media
        PROVE  /\ media' \in [File -> {"unused", "drawn", "live", "deleted"}]
               /\ \A f \in File : Becomes(f)
    <2>1. PICK g : g = req'[r].file
      OBVIOUS
    <2>2. g \in File /\ req'[r].op = "completeUpload" /\ Draw(g)
      <3>1. req'[r].op = "completeUpload" /\ req'[r].file \in File
        BY <1>2, StartEffect DEF Creations
      <3>2. Draw(req'[r].file)
        BY <1>2, <3>1, StartEffect
      <3> QED BY <2>1, <3>1, <3>2 DEF Draw
    <2> QED BY <1>2, <1>t, <2>1, <2>2 DEF Draw, Becomes
  <1>3. ASSUME NEW r \in Request, MediaCreate(r), media' # media
        PROVE  /\ media' \in [File -> {"unused", "drawn", "live", "deleted"}]
               /\ \A f \in File : Becomes(f)
    <2>1. PICK g : g = req'[r].file
      OBVIOUS
    <2>2. /\ g \in File /\ req'[r].pc = "sign" /\ media[g] = "unused"
          /\ media' = [media EXCEPT ![g] = IF InTransaction(r) THEN "drawn" ELSE "live"]
      BY <1>3, <2>1, StepEffect DEF Step, Enter
    <2> QED BY <1>3, <1>t, <2>1, <2>2 DEF Becomes
  <1>4. ASSUME NEW r \in Request, Commit(r)
        PROVE  /\ media' \in [File -> {"unused", "drawn", "live", "deleted"}]
               /\ \A f \in File : Becomes(f)
    <2>1. InFlight(r) /\ req[r].op = "createProject"
      BY <1>4, Holds DEF Commit, InFlight
    <2>2. r \notin projects
      BY <1>4 DEF Commit, IInv, ProjectShape
    <2>3. \A f \in req[r].rows : media[f] = "drawn"
      BY <2>1, <2>2 DEF IInv, ProjectWhole
    <2> QED BY <1>4, <1>t, <2>3 DEF Commit, Becomes
  <1>5. ASSUME NEW r \in Request, RowCreate(r), media' # media
        PROVE  /\ media' \in [File -> {"unused", "drawn", "live", "deleted"}]
               /\ \A f \in File : Becomes(f)
    <2>1. InFlight(r) /\ req[r].op = "completeUpload" /\ req[r].pc # "done"
      BY <1>5, Holds DEF RowCreate, InFlight
    <2>2. media[req[r].file] = "drawn"
      BY <2>1 DEF IInv, RowShape
    <2> QED BY <1>5, <1>t, <2>2 DEF RowCreate, Becomes
  <1>6. ASSUME NEW r \in Request, RowDelete(r), media' # media
        PROVE  /\ media' \in [File -> {"unused", "drawn", "live", "deleted"}]
               /\ \A f \in File : Becomes(f)
    <2>1. /\ media[req[r].file] = "live"
          /\ media' = [media EXCEPT ![req[r].file] = "deleted"]
          /\ Done(r, "OK")
      BY <1>6 DEF RowDelete
    <2>2. req'[r].code = "OK"
      BY <2>1, DoneEffect
    <2> QED BY <1>6, <1>t, <2>1, <2>2 DEF Becomes
  <1>7. ASSUME NEW r \in Request, Step(r) \/ Fail(r), ~MediaCreate(r), ~Commit(r),
               ~RowCreate(r), ~RowDelete(r)
        PROVE  media' = media
    BY <1>7 DEF Step, ProjectCreate, Sign, Answer, UploadCheck, RowFind,
       StorageDelete, UpdateSign, RowUpdate, Fail
  <1> QED BY <1>1, <1>2, <1>3, <1>4, <1>5, <1>6, <1>7, StepCases
          DEF Crash, ClientPut, UrlExpires, vars

\* A row that was committed stays so, and a uuid that was drawn is not drawn
\* again.
LEMMA CommittedStays ==
  ASSUME IInv, [Next]_vars, NEW f \in File
  PROVE  /\ media[f] \in Committed => media'[f] \in Committed
         /\ media[f] # "unused" => media'[f] # "unused"
         /\ media[f] = "deleted" => media'[f] = "deleted"
  BY MediaEffect DEF Becomes, Committed

-----------------------------------------------------------------------------
\* What a step of Next does to the record of a request.
LEMMA ReqEffect ==
  ASSUME IInv, [Next]_vars, NEW r \in Request
  PROVE  /\ req' \in [Request -> RequestState]
         /\ \/ Start(r)
            \/ Step(r) \/ Fail(r)
            \/ req'[r] = req[r]
            \/ Crash /\ InFlight(r) /\ req'[r] = [req[r] EXCEPT !.pc = "done"]
  <1>1. CASE \E q \in Request : Start(q) \/ Step(q) \/ Fail(q)
    BY <1>1, StartEffect, StepEffect
  <1>2. CASE Crash
    <2>1. \A q \in Request : [req[q] EXCEPT !.pc = "done"] \in RequestState
      BY ReqType DEF RequestState, Labels
    <2> HIDE DEF RequestState
    <2> QED BY <1>2, <2>1, ReqType DEF Crash
  <1>3. CASE ClientPut \/ UrlExpires \/ UNCHANGED vars
    BY <1>3, ReqType DEF ClientPut, UrlExpires, vars
  <1> QED BY <1>1, <1>2, <1>3, StepCases

LEMMA IdleShape ==
  ASSUME IInv, NEW r \in Request, req[r].pc = "idle"
  PROVE  req[r].op = "none" /\ req[r].rows = {} /\ req[r].mediaInfo = {}
  <1>1. req[r].op = "none"
    BY ReqType DEF RequestState, IInv, LocalShape, Route, Operations, Creations,
       Deletions
  <1> QED BY <1>1 DEF IInv, LocalShape, Idle

LEMMA CrashEffect ==
  ASSUME IInv, NEW r \in Request, InFlight(r),
         req'[r] = [req[r] EXCEPT !.pc = "done"]
  PROVE  /\ req'[r].op = req[r].op /\ req'[r].pc = "done"
         /\ req'[r].file = req[r].file /\ req'[r].left = req[r].left
         /\ req'[r].rows = req[r].rows
         /\ req'[r].mediaInfo = req[r].mediaInfo
         /\ req'[r].code = "none"
  BY ReqType, Holds DEF RequestState

LEMMA LocalShapeStep == IInv /\ [Next]_vars => LocalShape'
  <1> SUFFICES ASSUME IInv, [Next]_vars, NEW r \in Request
               PROVE  /\ req'[r].pc \in Route[req'[r].op]
                      /\ req'[r].op = "none" => req'[r] = Idle
                      /\ req'[r].pc # "done" => req'[r].code = "none"
                      /\ req'[r].op \notin Creations => req'[r].rows = {}
                      /\ req'[r].pc = "sign" => req'[r].file \in req'[r].rows
                      /\ req'[r].pc = "media.create" => req'[r].left # 0
                      /\ req'[r].pc = "commit" => req'[r].left = 0
                      /\ req'[r].op \notin Creations \cup {"none"} =>
                           req'[r].file \in File
    BY DEF LocalShape
  <1>1. CASE Start(r)
    <2>1. "none" \notin Operations /\ {} \subseteq {}
      BY DEF Operations, Creations, Deletions
    <2> QED BY <1>1, <2>1, StartEffect
  <1>2. CASE Step(r) \/ Fail(r)
    <2>1. req[r].op \in Operations /\ req[r].op # "none"
      BY <1>2, StepEffect, Holds DEF Operations, Creations, Deletions
    <2>2. req[r].op \notin Creations => ~MediaCreate(r)
      BY <1>2, StepEffect, Holds DEF MediaCreate
    <2> QED BY <1>2, <2>1, <2>2, StepEffect DEF IInv, LocalShape
  <1>3. CASE req'[r] = req[r]
    BY <1>3 DEF IInv, LocalShape
  <1>4. CASE InFlight(r) /\ req'[r] = [req[r] EXCEPT !.pc = "done"]
    <2>1. "done" \in Route[req[r].op] /\ req[r].op # "none"
      BY <1>4, Holds DEF Route, Operations, Creations, Deletions
    <2> QED BY <1>4, <2>1, CrashEffect DEF IInv, LocalShape
  <1> QED BY <1>1, <1>2, <1>3, <1>4, ReqEffect

\* Of the steps of its request none but these matter to a project.
LEMMA ProjectsEffect ==
  ASSUME IInv, [Next]_vars, NEW r \in Request
  PROVE  \/ UNCHANGED projects
         \/ \E q \in Request : Commit(q) /\ projects' = projects \cup {q}
  BY StepCases, StartEffect DEF Step, ProjectCreate, MediaCreate, Sign, Commit, Answer,
     UploadCheck, RowCreate, RowFind, StorageDelete, RowDelete, UpdateSign,
     RowUpdate, Fail, Crash, ClientPut, UrlExpires, vars

\* Only its own request makes a row of a uuid that was drawn.
LEMMA DrawnStays ==
  ASSUME IInv, [Next]_vars, NEW r \in Request, NEW f \in Owned(r),
         media[f] = "drawn", ~Commit(r), ~RowCreate(r)
  PROVE  media'[f] = "drawn"
  <1>1. f \in File
    BY ReqType DEF Owned, RequestState, IInv, LocalShape, Creations
  <1>2. ASSUME NEW q \in Request,
               \/ Commit(q) /\ f \in req[q].rows
               \/ RowCreate(q) /\ f = req[q].file
        PROVE  FALSE
    <2>1. f \in Owned(q)
      BY <1>2, Holds DEF Owned, RowCreate, InFlight
    <2>2. q # r
      BY <1>2
    <2> QED BY <2>1, <2>2 DEF IInv, OwnShape
  <1>3. Becomes(f)
    BY <1>1, MediaEffect
  <1>4. media'[f] # "live" \/ media[f] # "drawn"
    <2>1. ~ \E q \in Request : \/ Commit(q) /\ f \in req[q].rows
                               \/ RowCreate(q) /\ f = req[q].file
      BY <1>2
    <2> QED BY <1>3, <2>1 DEF Becomes
  <1>5. media'[f] \in {"drawn", "live"}
    BY <1>3 DEF Becomes
  <1> QED BY <1>4, <1>5

LEMMA ProjectShapeStep == IInv /\ [Next]_vars => ProjectShape' /\ ProjectWhole'
  <1> SUFFICES ASSUME IInv, [Next]_vars, NEW r \in Request
               PROVE  /\ r \in projects' => /\ req'[r].op = "createProject"
                                            /\ req'[r].pc \in {"answer", "done"}
                      /\ req'[r].op = "createProject" /\ req'[r].pc = "answer" =>
                           r \in projects'
                      /\ req'[r].op = "createProject" =>
                         /\ r \in projects' =>
                              /\ req'[r].left = 0
                              /\ \A f \in req'[r].rows : media'[f] \in Committed
                         /\ r \notin projects' =>
                              /\ req'[r].code # "OK"
                              /\ \A f \in req'[r].rows : media'[f] = "drawn"
    BY DEF ProjectShape, ProjectWhole
  <1>1. CASE Start(r)
    <2>1. req[r].pc = "idle" /\ ~Commit(r)
      BY <1>1, StartEffect DEF Commit
    <2>2. r \notin projects
      BY <2>1 DEF IInv, ProjectShape
    <2>3. r \notin projects'
      BY <2>1, <2>2, ProjectsEffect
    <2> QED BY <1>1, <2>3, StartEffect
  <1>2. CASE Commit(r)
    <2>1. /\ req[r].op = "createProject" /\ req[r].left = 0 /\ req[r].pc = "commit"
          /\ r \in projects'
      BY <1>2, Holds DEF Commit, InFlight, IInv, LocalShape
    <2>2. /\ req'[r].pc = "answer" /\ req'[r].op = req[r].op
          /\ req'[r].left = req[r].left /\ req'[r].rows = req[r].rows
      BY <1>2, GotoEffect DEF Commit, Labels
    <2>3. \A f \in req[r].rows : media'[f] = "live"
      BY <1>2, ReqType DEF Commit, RequestState
    <2> QED BY <2>1, <2>2, <2>3 DEF Committed
  <1>3. CASE ~Start(r) /\ ~Commit(r) /\ req[r].op # "createProject"
    <2>1. req'[r].op # "createProject"
      BY <1>3, ReqEffect, StepEffect, CrashEffect
    <2>2. r \notin projects
      BY <1>3 DEF IInv, ProjectShape
    <2> QED BY <1>3, <2>1, <2>2, ProjectsEffect
  <1>4. CASE ~Start(r) /\ ~Commit(r) /\ req[r].op = "createProject"
    <2>1. r \in projects' <=> r \in projects
      BY <1>4, ProjectsEffect
    <2>2. \A f \in req[r].rows : f \in Owned(r) /\ f \in File
      BY ReqType DEF Owned, RequestState
    <2>3. ~RowCreate(r)
      BY <1>4, Holds DEF RowCreate, InFlight
    <2>4. /\ r \in projects => \A f \in req[r].rows : media'[f] \in Committed
          /\ r \notin projects => \A f \in req[r].rows : media'[f] = "drawn"
      BY <1>4, <2>2, <2>3, CommittedStays, DrawnStays DEF IInv, ProjectWhole
    <2>5. CASE Step(r) \/ Fail(r)
      <3>1. CASE r \in projects
        <4>1. req[r].pc = "answer"
          BY <2>5, <3>1, StepEffect DEF InFlight, IInv, ProjectShape
        <4>2. Done(r, "OK")
          BY <2>5, <4>1 DEF Step, ProjectCreate, MediaCreate, Sign, Commit, Answer,
             UploadCheck, RowCreate, RowFind, StorageDelete, RowDelete, UpdateSign,
             RowUpdate, Fail
        <4> QED BY <1>4, <2>1, <2>4, <3>1, <4>2, DoneEffect DEF IInv, ProjectWhole
      <3>2. CASE r \notin projects
        <4>1. req'[r].op = "createProject" /\ req'[r].pc # "answer"
          BY <1>4, <2>5, StepEffect
        <4>2. req'[r].code # "OK"
          <5>1. ~Answer(r)
            BY <1>4, <3>2 DEF Answer, IInv, ProjectShape
          <5>2. ~RowDelete(r) /\ ~RowUpdate(r)
            BY <1>4, Holds DEF RowDelete, RowUpdate, InFlight, Deletions
          <5> QED BY <2>3, <2>5, <5>1, <5>2, StepEffect
        <4>3. \A f \in req'[r].rows : media'[f] = "drawn"
          <5>1. CASE req'[r].pc = "sign"
            <6>1. /\ req'[r].rows = req[r].rows \cup {req'[r].file}
                  /\ req'[r].file \in File
                  /\ media' = [media EXCEPT ![req'[r].file] = "drawn"]
              BY <1>4, <2>5, <5>1, StepEffect DEF Enter, InTransaction
            <6>2. media'[req'[r].file] = "drawn"
              BY <6>1 DEF IInv, TypeOK
            <6> QED BY <2>4, <3>2, <6>1, <6>2
          <5>2. CASE req'[r].pc # "sign"
            BY <2>4, <2>5, <3>2, <5>2, StepEffect
          <5> QED BY <5>1, <5>2
        <4> QED BY <2>1, <3>2, <4>1, <4>2, <4>3
      <3> QED BY <3>1, <3>2
    <2>6. CASE ~Step(r) /\ ~Fail(r)
      <3>1. /\ req'[r].op = req[r].op /\ req'[r].left = req[r].left
            /\ req'[r].rows = req[r].rows
            /\ req'[r].code = req[r].code
            /\ req'[r].pc \in {req[r].pc, "done"}
        BY <1>4, <2>6, ReqEffect, CrashEffect, Holds
      <3> QED BY <1>4, <2>1, <2>4, <3>1 DEF IInv, ProjectShape, ProjectWhole
    <2> QED BY <2>5, <2>6
  <1> QED BY <1>1, <1>2, <1>3, <1>4

\* What a request owns it has drawn, and goes on owning.
LEMMA OwnedEffect ==
  ASSUME IInv, [Next]_vars, NEW r \in Request
  PROVE  \/ Owned(r)' = Owned(r)
         \/ \E f \in File : /\ media[f] = "unused" /\ media'[f] # "unused"
                            /\ Owned(r)' = Owned(r) \cup {f}
                            /\ Start(r) \/ MediaCreate(r)
  <1>1. CASE Start(r)
    <2>1. Owned(r) = {}
      BY <1>1, StartEffect, IdleShape DEF Owned
    <2>2. CASE req'[r].op = "completeUpload"
      <3>1. PICK f : f = req'[r].file
        OBVIOUS
      <3>2. f \in File /\ Draw(f)
        <4>1. req'[r].file \in File /\ Draw(req'[r].file)
          BY <1>1, <2>2, StartEffect DEF Creations
        <4> QED BY <3>1, <4>1 DEF Draw
      <3>3. Owned(r)' = {f}
        BY <1>1, <2>2, <3>1, StartEffect DEF Owned
      <3>4. media'[f] = "drawn"
        BY <3>2 DEF Draw, IInv, TypeOK
      <3> QED BY <1>1, <2>1, <3>2, <3>3, <3>4 DEF Draw
    <2>3. CASE req'[r].op # "completeUpload"
      BY <1>1, <2>1, <2>3, StartEffect DEF Owned
    <2> QED BY <2>2, <2>3
  <1>2. CASE Step(r) \/ Fail(r)
    <2>1. CASE req'[r].pc = "sign"
      <3>1. PICK f : f = req'[r].file
        OBVIOUS
      <3>2. /\ f \in File /\ MediaCreate(r) /\ req'[r].rows = req[r].rows \cup {f}
            /\ media[f] = "unused"
            /\ media' = [media EXCEPT ![f] = IF InTransaction(r) THEN "drawn" ELSE "live"]
        BY <1>2, <2>1, <3>1, StepEffect DEF Enter
      <3>3. media'[f] # "unused"
        BY <3>2 DEF IInv, TypeOK
      <3>4. req[r].op # "completeUpload" /\ req'[r].op = req[r].op
        BY <1>2, <3>2, StepEffect, Holds DEF MediaCreate, Creations
      <3>5. Owned(r)' = Owned(r) \cup {f}
        BY <3>2, <3>4 DEF Owned
      <3> QED BY <3>2, <3>3, <3>5
    <2>2. CASE req'[r].pc # "sign"
      BY <1>2, <2>2, StepEffect DEF Owned
    <2> QED BY <2>1, <2>2
  <1>3. CASE ~Start(r) /\ ~Step(r) /\ ~Fail(r)
    BY <1>3, ReqEffect, CrashEffect DEF Owned
  <1> QED BY <1>1, <1>2, <1>3

LEMMA OwnShapeStep == IInv /\ [Next]_vars => OwnShape'
  <1> SUFFICES ASSUME IInv, [Next]_vars
               PROVE  OwnShape'
    OBVIOUS
  <1>1. \A r \in Request : \A f \in Owned(r) : f \in File /\ media[f] # "unused"
    BY ReqType DEF Owned, RequestState, IInv, LocalShape, Creations, OwnShape
  <1>2. \A r \in Request : \A f \in Owned(r)' : media'[f] # "unused"
    BY <1>1, OwnedEffect, CommittedStays
  <1>3. ASSUME NEW r \in Request, NEW q \in Request, r # q
        PROVE  Owned(r)' \cap Owned(q)' = {}
    <2>1. Owned(r) \cap Owned(q) = {}
      BY <1>3 DEF IInv, OwnShape
    <2>2. Owned(r)' = Owned(r) \/ Owned(q)' = Owned(q)
      <3>1. CASE \E p \in Request : Start(p) \/ Step(p) \/ Fail(p)
        <4>1. req'[r] = req[r] \/ req'[q] = req[q]
          BY <1>3, <3>1, StartEffect, StepEffect
        <4> QED BY <4>1 DEF Owned
      <3>2. CASE ~ \E p \in Request : Start(p) \/ Step(p) \/ Fail(p)
        BY <3>2, ReqEffect, CrashEffect DEF Owned
      <3> QED BY <3>1, <3>2
    <2> QED BY <1>1, <1>3, <2>1, <2>2, OwnedEffect
  <1> QED BY <1>2, <1>3 DEF OwnShape

LEMMA RowShapeStep == IInv /\ [Next]_vars => RowShape'
  <1> SUFFICES ASSUME IInv, [Next]_vars, NEW r \in Request
               PROVE  /\ req'[r].op = "uploadMedia" =>
                           \A f \in req'[r].rows : media'[f] \in Committed
                      /\ req'[r].op = "completeUpload" /\ req'[r].pc # "done" =>
                           media'[req'[r].file] = "drawn"
                      /\ req'[r].op \in Deletions \cup {"updateMedia"} =>
                           media'[req'[r].file] \in Committed
    BY DEF RowShape
  <1> USE DEF Creations, Deletions
  <1>1. CASE Start(r)
    <2>1. PICK f : f = req'[r].file
      OBVIOUS
    <2>2. CASE req'[r].op = "completeUpload"
      <3>1. Draw(req'[r].file) /\ req'[r].file \in File
        BY <1>1, <2>2, StartEffect
      <3>2. media'[req'[r].file] = "drawn"
        BY <3>1 DEF Draw, IInv, TypeOK
      <3> QED BY <2>2, <3>2
    <2>3. CASE req'[r].op \in Deletions \cup {"updateMedia"}
      <3>1. f \in File /\ media[f] \in Committed
        BY <1>1, <2>1, <2>3, StartEffect DEF Known, Committed
      <3> QED BY <2>1, <2>3, <3>1, CommittedStays
    <2>4. CASE req'[r].op \in Creations
      BY <1>1, <2>4, StartEffect
    <2> QED BY <1>1, <2>2, <2>3, <2>4, StartEffect DEF Operations
  <1>2. CASE ~Start(r)
    <2>1. /\ req'[r].op = req[r].op
          /\ req[r].op \notin Creations => req'[r].file = req[r].file
      <3>1. req[r].op \notin Creations => ~MediaCreate(r)
        BY Holds DEF MediaCreate, InFlight
      <3> QED BY <1>2, <3>1, ReqEffect, StepEffect, CrashEffect
    <2>2. CASE req[r].op = "uploadMedia"
      <3>1. \A f \in req[r].rows : f \in File /\ media'[f] \in Committed
        BY <2>2, CommittedStays, ReqType DEF IInv, RowShape, RequestState
      <3>2. CASE (Step(r) \/ Fail(r)) /\ req'[r].pc = "sign"
        <4>1. PICK g : g = req'[r].file
          OBVIOUS
        <4>2. /\ g \in File /\ req'[r].rows = req[r].rows \cup {g}
              /\ media' = [media EXCEPT ![g] = "live"]
          BY <2>2, <3>2, <4>1, StepEffect DEF Enter, InTransaction
        <4>3. media'[g] \in Committed
          BY <4>2 DEF IInv, TypeOK, Committed
        <4> QED BY <2>1, <2>2, <3>1, <4>2, <4>3
      <3>3. CASE ~((Step(r) \/ Fail(r)) /\ req'[r].pc = "sign")
        <4>1. req'[r].rows = req[r].rows
          BY <1>2, <3>3, ReqEffect, StepEffect, CrashEffect
        <4> QED BY <2>1, <2>2, <3>1, <4>1
      <3> QED BY <3>2, <3>3
    <2>3. CASE req[r].op = "completeUpload"
      <3>1. SUFFICES ASSUME req'[r].pc # "done"
                     PROVE  media'[req[r].file] = "drawn"
        BY <2>1, <2>3
      <3>2. req[r].pc # "done"
        BY <1>2, <3>1, ReqEffect, StepEffect, CrashEffect DEF InFlight
      <3>3. ~Commit(r)
        BY <2>3, Holds DEF Commit, InFlight
      <3>4. ~RowCreate(r)
        <4>1. RowCreate(r) => req'[r].pc = "done"
          BY DoneEffect DEF RowCreate
        <4> QED BY <3>1, <4>1
      <3>5. media[req[r].file] = "drawn" /\ req[r].file \in Owned(r)
        BY <2>3, <3>2 DEF IInv, RowShape, Owned
      <3>6. PICK f : f = req[r].file
        OBVIOUS
      <3> QED BY <3>3, <3>4, <3>5, <3>6, DrawnStays
    <2>4. CASE req[r].op \in Deletions \cup {"updateMedia"}
      <3>1. PICK f : f = req[r].file
        OBVIOUS
      <3>2. f \in File /\ media[f] \in Committed
        BY <2>4, <3>1, ReqType DEF IInv, RowShape, LocalShape
      <3> QED BY <2>1, <2>4, <3>1, <3>2, CommittedStays
    <2> QED BY <2>1, <2>2, <2>3, <2>4
  <1> QED BY <1>1, <1>2

LEMMA InfoShapeStep == IInv /\ [Next]_vars => InfoShape'
  <1> SUFFICES ASSUME IInv, [Next]_vars, NEW r \in Request,
                      NEW place \in req'[r].mediaInfo
               PROVE  \/ req'[r].op \in Creations /\ place[2][2] \in req'[r].rows
                      \/ req'[r].op = "updateMedia" /\ place[2][2] = req'[r].file
    BY DEF InfoShape
  <1>1. ~Start(r)
    BY StartEffect
  <1>2. CASE Step(r) \/ Fail(r)
    <2>1. /\ req'[r].op = req[r].op /\ req[r].rows \subseteq req'[r].rows
          /\ req[r].op = "updateMedia" => req'[r].file = req[r].file
      <3>1. req[r].op = "updateMedia" => ~MediaCreate(r)
        BY Holds DEF MediaCreate, InFlight, Creations
      <3> QED BY <1>2, <3>1, StepEffect
    <2>2. CASE place \in req[r].mediaInfo
      BY <2>1, <2>2 DEF IInv, InfoShape
    <2>3. CASE place \notin req[r].mediaInfo
      <3>1. place[2][2] = req[r].file /\ (Sign(r) \/ UpdateSign(r))
        BY <1>2, <2>3, StepEffect
      <3>2. CASE Sign(r)
        BY <2>1, <3>1, <3>2, Holds DEF Sign, InFlight
      <3>3. CASE UpdateSign(r)
        BY <2>1, <3>1, <3>3, Holds DEF UpdateSign, InFlight
      <3> QED BY <3>1, <3>2, <3>3
    <2> QED BY <2>2, <2>3
  <1>3. CASE ~Step(r) /\ ~Fail(r)
    <2>1. /\ req'[r].op = req[r].op /\ req'[r].rows = req[r].rows
          /\ req'[r].file = req[r].file
          /\ req'[r].mediaInfo = req[r].mediaInfo
      BY <1>1, <1>3, ReqEffect, CrashEffect
    <2>2. place \in req[r].mediaInfo
      BY <2>1
    <2>3. \/ req[r].op \in Creations /\ place[2][2] \in req[r].rows
          \/ req[r].op = "updateMedia" /\ place[2][2] = req[r].file
      BY <2>2 DEF IInv, InfoShape
    <2> QED BY <2>1, <2>3
  <1> QED BY <1>2, <1>3

\* Who is told of a deletion, and when.
LEMMA ToldEffect ==
  ASSUME IInv, [Next]_vars, NEW f \in File, NEW r \in Request
  PROVE  /\ r \in Told(f) => r \in Told(f)'
         /\ r \in Told(f)' /\ r \notin Told(f) =>
              /\ RowDelete(r) /\ req[r].file = f
              /\ media[f] = "live" /\ media'[f] = "deleted"
         /\ RowDelete(r) /\ req[r].file = f /\ req'[r].code = "OK" =>
              r \in Told(f)'
  <1>1. ASSUME r \in Told(f)
        PROVE  r \in Told(f)'
    <2>1. req[r].pc = "done" /\ req[r].op # "none" /\ req[r].code = "OK"
      BY <1>1 DEF Told, IInv, LocalShape, Deletions
    <2>2. req'[r] = req[r]
      BY <2>1, ReqEffect, StartEffect, StepEffect DEF InFlight
    <2> QED BY <1>1, <2>2 DEF Told
  <1>2. ASSUME r \in Told(f)', r \notin Told(f)
        PROVE  /\ RowDelete(r) /\ req[r].file = f
               /\ media[f] = "live" /\ media'[f] = "deleted"
    <2>1. req'[r].op \in Deletions /\ req'[r].file = f /\ req'[r].code = "OK"
      BY <1>2 DEF Told
    <2>2. ~Start(r) /\ req'[r] # req[r]
      BY <1>2, <2>1, StartEffect DEF Told
    <2>3. Step(r) \/ Fail(r)
      BY <2>1, <2>2, ReqEffect, CrashEffect
    <2>4. req[r].op \in Deletions
      BY <2>1, <2>3, StepEffect
    <2>5. ~Answer(r) /\ ~RowCreate(r) /\ ~RowUpdate(r) /\ ~MediaCreate(r)
      BY <2>4, Holds DEF Answer, RowCreate, RowUpdate, MediaCreate, InFlight,
         Creations, Deletions
    <2>6. RowDelete(r) /\ req[r].file = f
      BY <2>1, <2>3, <2>5, StepEffect
    <2>7. media[f] = "live"
      <3>1. ~Done(r, "NOT_FOUND")
        BY <2>1, DoneEffect
      <3> QED BY <2>6, <3>1 DEF RowDelete
    <2>8. media'[f] = "deleted"
      BY <2>6, <2>7 DEF RowDelete, IInv, TypeOK
    <2> QED BY <2>6, <2>7, <2>8
  <1>3. ASSUME RowDelete(r), req[r].file = f, req'[r].code = "OK"
        PROVE  r \in Told(f)'
    <2>1. req[r].op \in Deletions
      BY <1>3, Holds DEF RowDelete, InFlight
    <2>2. req'[r].op = req[r].op /\ req'[r].file = req[r].file
      BY <1>3, DoneEffect DEF RowDelete
    <2> QED BY <1>3, <2>1, <2>2 DEF Told
  <1> QED BY <1>1, <1>2, <1>3

LEMMA ToldShapeStep == IInv /\ [Next]_vars => ToldShape'
  <1> SUFFICES ASSUME IInv, [Next]_vars, NEW f \in File
               PROVE  /\ media'[f] = "deleted" <=> Told(f)' # {}
                      /\ \A r, q \in Told(f)' : r = q
    BY DEF ToldShape
  <1>1. Told(f) \subseteq Request /\ Told(f)' \subseteq Request
    BY DEF Told
  <1>2. CASE media[f] = "deleted"
    <2>1. media'[f] = "deleted"
      BY <1>2, CommittedStays
    <2>2. \A r \in Request : r \in Told(f)' <=> r \in Told(f)
      BY <1>2, ToldEffect
    <2> QED BY <1>1, <1>2, <2>1, <2>2 DEF IInv, ToldShape
  <1>3. CASE media[f] # "deleted"
    <2>1. Told(f) = {}
      BY <1>3 DEF IInv, ToldShape
    <2>2. ASSUME media'[f] = "deleted"
          PROVE  Told(f)' # {}
      <3>1. \E r \in Request : RowDelete(r) /\ f = req[r].file /\ req'[r].code = "OK"
        <4>1. Becomes(f)
          BY MediaEffect
        <4> QED BY <1>3, <2>2, <4>1 DEF Becomes
      <3> QED BY <3>1, ToldEffect
    <2>3. \A r \in Told(f)' : RowDelete(r) /\ media'[f] = "deleted"
      BY <1>1, <2>1, ToldEffect
    <2>4. ASSUME NEW r \in Request, NEW q \in Request, RowDelete(r), RowDelete(q)
          PROVE  r = q
      <3>1. req'[r] # req[r] /\ Step(r)
        BY <2>4, DoneEffect DEF RowDelete, Step
      <3>2. req'[q] # req[q]
        BY <2>4, DoneEffect DEF RowDelete
      <3> QED BY <3>1, <3>2, StepEffect
    <2> QED BY <1>1, <2>2, <2>3, <2>4
  <1> QED BY <1>2, <1>3

LEMMA StoredHasRowStep == IInv /\ [Next]_vars => StoredHasRow'
  <1> SUFFICES ASSUME IInv, [Next]_vars, NEW place \in (urls \cup objects)'
               PROVE  media'[place[2][2]] \in Committed
    BY DEF StoredHasRow
  <1>1. CASE place \in urls \cup objects
    <2>1. PICK f : f = place[2][2]
      OBVIOUS
    <2>2. f \in File /\ media[f] \in Committed
      BY <1>1, <2>1 DEF IInv, StoredHasRow, TypeOK, Place, Key
    <2> QED BY <2>1, <2>2, CommittedStays
  <1>2. CASE place \notin urls \cup objects
    <2>1. PICK r \in Request : /\ Answer(r) \/ RowUpdate(r)
                               /\ place \in req[r].mediaInfo
      BY <1>2, StepCases, StartEffect DEF Delivered, Without, Step, ProjectCreate, MediaCreate, Sign,
         Commit, Answer, UploadCheck, RowCreate, RowFind, StorageDelete, RowDelete,
         UpdateSign, RowUpdate, Fail, Crash, ClientPut, UrlExpires, vars
    <2>2. PICK f : f = place[2][2]
      OBVIOUS
    <2>3. f \in File
      BY <2>1, <2>2, ReqType DEF RequestState, Place, Key
    <2>4. media[f] \in Committed
      <3>1. CASE Answer(r)
        <4>1. f \in req[r].rows /\ req[r].op \in Creations /\ req[r].pc = "answer"
          <5>1. req[r].op \in Creations /\ req[r].pc = "answer"
            BY <3>1, Holds DEF Answer, InFlight
          <5> QED BY <2>1, <2>2, <5>1 DEF IInv, InfoShape, Creations
        <4> QED BY <4>1 DEF IInv, RowShape, ProjectShape, ProjectWhole, Creations
      <3>2. CASE RowUpdate(r)
        <4>1. req[r].op = "updateMedia"
          BY <3>2, Holds DEF RowUpdate, InFlight
        <4>2. f = req[r].file
          BY <2>1, <2>2, <4>1 DEF IInv, InfoShape, Creations
        <4> QED BY <4>1, <4>2 DEF IInv, RowShape
      <3> QED BY <2>1, <3>1, <3>2
    <2> QED BY <2>2, <2>3, <2>4, CommittedStays
  <1> QED BY <1>1, <1>2

LEMMA TypeStep == IInv /\ [Next]_vars => TypeOK'
  <1> SUFFICES ASSUME IInv, [Next]_vars
               PROVE  TypeOK'
    OBVIOUS
  <1>1. media' \in [File -> {"unused", "drawn", "live", "deleted"}]
    BY MediaEffect
  <1>2. req' \in [Request -> RequestState]
    <2>1. CASE \E r \in Request : Start(r) \/ Step(r) \/ Fail(r)
      BY <2>1, StartEffect, StepEffect
    <2>2. CASE Request = {}
      BY <2>2, StepCases, ReqType DEF Crash, ClientPut, UrlExpires, vars
    <2>3. CASE Request # {}
      BY <2>3, ReqEffect
    <2> QED BY <2>2, <2>3
  <1>3. projects' \subseteq Request
    <2>1. projects \subseteq Request
      BY DEF IInv, TypeOK
    <2> QED BY <2>1, StepCases, StartEffect DEF Step, ProjectCreate, MediaCreate,
       Sign, Commit, Answer, UploadCheck, RowCreate, RowFind, StorageDelete,
       RowDelete, UpdateSign, RowUpdate, Fail, Crash, ClientPut, UrlExpires, vars
  <1>4. urls' \subseteq Place /\ objects' \subseteq Place
    <2>1. urls \subseteq Place /\ objects \subseteq Place
      BY DEF IInv, TypeOK
    <2>2. \A r \in Request : req[r].mediaInfo \subseteq Place
      BY ReqType DEF RequestState
    <2> QED BY <2>1, <2>2, StepCases, StartEffect DEF Delivered, Without, Step, ProjectCreate,
       MediaCreate, Sign, Commit, Answer, UploadCheck, RowCreate, RowFind,
       StorageDelete, RowDelete, UpdateSign, RowUpdate, Fail, Crash, ClientPut,
       UrlExpires, vars
  <1> QED BY <1>1, <1>2, <1>3, <1>4 DEF TypeOK

-----------------------------------------------------------------------------
LEMMA InitIInv == Init => IInv
  <1> SUFFICES ASSUME Init
               PROVE  IInv
    OBVIOUS
  <1>1. Idle \in RequestState
    BY DEF Idle, RequestState, Provider, Labels
  <1>2. \A r \in Request : req[r] = Idle
    BY DEF Init
  <1>3. TypeOK
    BY <1>1 DEF Init, TypeOK
  <1>4. LocalShape
    <2>1. Idle.pc \in Route[Idle.op]
      BY DEF Idle, Route, Operations, Creations, Deletions
    <2>2. Idle.pc = "idle" /\ Idle.op = "none" /\ Idle.code = "none" /\ Idle.rows = {}
      BY DEF Idle
    <2> QED BY <1>2, <2>1, <2>2 DEF LocalShape, Creations, Deletions
  <1>5. ProjectShape /\ OwnShape /\ RowShape /\ InfoShape
    BY <1>2 DEF Init, ProjectShape, OwnShape, Owned, RowShape, InfoShape, Idle,
       Deletions
  <1>6. ToldShape /\ ProjectWhole /\ StoredHasRow
    BY <1>2 DEF Init, ToldShape, Told, ProjectWhole, StoredHasRow, Idle, Deletions
  <1> QED BY <1>3, <1>4, <1>5, <1>6 DEF IInv

(***************************************************************************)
(* IInv holds throughout: a uuid is only ever entered by the request that  *)
(* drew it, and only ever named by others once its row was committed.      *)
(***************************************************************************)
THEOREM Inductive == Spec => []IInv
  <1>1. IInv /\ [Next]_vars => IInv'
    BY TypeStep, LocalShapeStep, ProjectShapeStep, OwnShapeStep, RowShapeStep,
       InfoShapeStep, ToldShapeStep, StoredHasRowStep DEF IInv
  <1> QED BY InitIInv, <1>1, PTL DEF Spec

(***************************************************************************)
(* Every reachable state of projects, media, URLs and objects is well      *)
(* typed.                                                                  *)
(***************************************************************************)
THEOREM TypeCorrect == Spec => []TypeOK
  <1>1. IInv => TypeOK
    BY DEF IInv
  <1> QED BY <1>1, Inductive, PTL

(***************************************************************************)
(* createProject enters a project with all of its files or nothing, at     *)
(* whatever step it fails or its process ends.                             *)
(***************************************************************************)
THEOREM AllOrNothing == Spec => []ProjectWhole
  <1>1. IInv => ProjectWhole
    BY DEF IInv
  <1> QED BY <1>1, Inductive, PTL

(***************************************************************************)
(* No URL and no object is left behind by rows that were never committed.  *)
(***************************************************************************)
THEOREM NothingStranded == Spec => []StoredHasRow
  <1>1. IInv => StoredHasRow
    BY DEF IInv
  <1> QED BY <1>1, Inductive, PTL

(***************************************************************************)
(* However many requests race to delete a row, one is told that it did.    *)
(***************************************************************************)
THEOREM OneDeletion == Spec => []DeletedByOne
  <1>1. IInv => DeletedByOne
    <2> SUFFICES ASSUME IInv, NEW f \in File
                 PROVE  Cardinality(Told(f)) = (IF media[f] = "deleted" THEN 1 ELSE 0)
      BY DEF DeletedByOne
    <2>1. CASE media[f] = "deleted"
      <3>1. PICK r \in Told(f) : TRUE
        BY <2>1 DEF IInv, ToldShape
      <3>2. Told(f) = {r}
        BY <3>1 DEF IInv, ToldShape
      <3> QED BY <2>1, <3>2, FS_Singleton
    <2>2. CASE media[f] # "deleted"
      <3>1. Told(f) = {}
        BY <2>2 DEF IInv, ToldShape
      <3> QED BY <2>2, <3>1, FS_EmptySet
    <2> QED BY <2>1, <2>2
  <1> QED BY <1>1, Inductive, PTL
=============================================================================
