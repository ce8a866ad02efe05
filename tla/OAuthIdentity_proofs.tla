------------------------- MODULE OAuthIdentity_proofs -------------------------
(***************************************************************************)
(* What TLAPS proves of OAuthIdentity, for any number of requests and      *)
(* addresses.                                                              *)
(***************************************************************************)
EXTENDS OAuthIdentity, TLAPS

USE OAuthAssumption, NoneAssumption

LEMMA Types == IInv => /\ req \in [Request -> RequestState]
                       /\ rows \in [Request -> Row \cup {None}]
  BY DEF IInv, TypeOK

LEMMA LocalOf == ASSUME IInv, NEW r \in Request PROVE Local(r)
  BY DEF IInv

-----------------------------------------------------------------------------
(***************************************************************************)
(* The records that steps write.                                           *)
(***************************************************************************)
LEMMA RecordType ==
  ASSUME NEW op \in Operations, NEW pc \in Labels, NEW a \in Address \cup {None},
         NEW p \in Provider \cup {None}, NEW n \in BOOLEAN, NEW v \in BOOLEAN,
         NEW x \in Request \cup {None}, NEW b \in BOOLEAN, NEW u \in BOOLEAN,
         NEW k \in SUBSET Request, NEW c \in Codes
  PROVE  Record(op, pc, a, p, n, v, x, b, u, k, c) \in RequestState
  BY DEF Record, RequestState

LEMMA FreshType ==
  ASSUME NEW op \in Operations, NEW pc \in Labels, NEW a \in Address \cup {None},
         NEW x \in Request \cup {None}
  PROVE  Fresh(op, pc, a, x) \in RequestState
  BY RecordType DEF Fresh, Codes

LEMMA EndedType ==
  ASSUME NEW s \in RequestState, NEW c \in Codes
  PROVE  Ended(s, c) \in RequestState
  <1>1. CASE s.op = "social" /\ c \in {"OK", "INVALID_INPUT", "CONFLICT"}
    BY <1>1 DEF Ended, Record, RequestState, Labels
  <1>2. CASE s.op # "social" /\ c = "CONFLICT"
    BY <1>2 DEF Ended, Record, RequestState, Labels, Operations
  <1>3. CASE ~(s.op = "social" /\ c \in {"OK", "INVALID_INPUT", "CONFLICT"})
               /\ ~(s.op # "social" /\ c = "CONFLICT")
    <2>1. Ended(s, c) = Fresh("none", "done", None, None)
      BY <1>3 DEF Ended
    <2> QED BY <2>1, FreshType DEF Operations, Labels
  <1> QED BY <1>1, <1>2, <1>3

\* A step of r puts s in place of its record.
Puts(r, s) == req' = [req EXCEPT ![r] = s]

LEMMA PutsEffect ==
  ASSUME IInv, NEW r \in Request, NEW s \in RequestState, Puts(r, s)
  PROVE  /\ req' \in [Request -> RequestState] /\ req'[r] = s
         /\ \A q \in Request \ {r} : req'[q] = req[q]
  BY Types DEF Puts

-----------------------------------------------------------------------------
(***************************************************************************)
(* What a row that is there keeps: a step of one request does not disturb  *)
(* what the others have found.                                             *)
(***************************************************************************)
Lasting ==
  \A x \in Request : rows'[x] # None /\ Creator(x) =>
    /\ rows[x] # None /\ rows'[x].email = rows[x].email
    /\ \A p \in Provider : rows[x].linked[p] # None =>
         rows'[x].linked[p] = rows[x].linked[p]

\* Whatever r becomes, its row is its own.
Keeps(r) ==
  /\ \A q \in Request \ {r} : req'[q] = req[q]
  /\ Lasting
  /\ \A x \in Request \ {r} : rows'[x] # None => rows[x] # None
  /\ Creator(r) => Creator(r)'

LEMMA OthersKept ==
  ASSUME IInv, NEW r \in Request, Keeps(r), NEW q \in Request, q # r
  PROVE  Local(q)'
  <1>0. /\ req'[q] = req[q] /\ Local(q)
        /\ req[q] \in RequestState
    BY LocalOf, Types DEF Keeps
  <1>1. \A x \in Request : Creator(x) => Creator(x)'
    BY DEF Keeps, Creator
  <1>2. ShapeOf(q)'
    BY <1>0 DEF Local, ShapeOf
  <1>3. req[q].account \in Request \cup {None} /\ req[q].knew \subseteq Request
    BY <1>0 DEF RequestState
  <1>4. Created(q)
    BY <1>0 DEF Local
  <1>5. Created(q)'
    BY <1>0, <1>1, <1>3, <1>4 DEF Created, Keeps
  <1>6. \A x \in req[q].knew : /\ x \in Request /\ Creator(x)
                               /\ rows'[x] # None => rows[x] # None
    BY <1>3, <1>4 DEF Created, Keeps, Lasting
  <1>7. req[q].account # None =>
          /\ req[q].account \in Request /\ Creator(req[q].account)
          /\ rows'[req[q].account] # None => rows[req[q].account] # None
    BY <1>3, <1>4 DEF Created, Keeps, Lasting
  <1>8. UpdatesOwn(q)'
    BY <1>0, <1>7 DEF Local, ShapeOf, UpdatesOwn, Keeps, Lasting
  <1>9. SignedInLinked(q)'
    <2> SUFFICES ASSUME req[q].op = "social", req[q].account # None,
                        req[q].pc = "session" \/ (req[q].pc = "done" /\ req[q].code = "OK"),
                        rows'[req[q].account] # None
                 PROVE  rows'[req[q].account].linked[req[q].provider] = req[q].address
      BY <1>0 DEF SignedInLinked
    <2>1. req[q].provider \in Provider /\ req[q].address \in Address
      BY <1>0 DEF Local, ShapeOf
    <2>2. rows[req[q].account].linked[req[q].provider] = req[q].address
      BY <1>0, <1>7 DEF Local, SignedInLinked
    <2> QED BY <1>7, <2>1, <2>2 DEF Keeps, Lasting
  <1>10. KnewLinked(q)'
    <2> SUFFICES ASSUME req[q].op = "social", NEW x \in req[q].knew, rows'[x] # None
                 PROVE  rows'[x].linked[req[q].provider] = req[q].address
      BY <1>0 DEF KnewLinked
    <2>1. req[q].provider \in Provider /\ req[q].address \in Address
      BY <1>0 DEF Local, ShapeOf
    <2>2. rows[x].linked[req[q].provider] = req[q].address
      BY <1>0, <1>6 DEF Local, KnewLinked
    <2> QED BY <1>6, <2>1, <2>2 DEF Keeps, Lasting
  <1>11. KnewFollowed(q)'
    BY <1>0, <1>6 DEF Local, KnewFollowed
  <1>12. Returns(q)'
    BY <1>0, <1>6 DEF Local, Returns
  <1> QED BY <1>2, <1>5, <1>8, <1>9, <1>10, <1>11, <1>12 DEF Local

\* The request goes on, having read what it asked for or, when it is register
\* and the look-up threw, not.
GoesOn(r, l) ==
  \/ Goto(r, l)
  \/ /\ req[r].pc = "register.find" /\ l = "create"
     /\ req' = [req EXCEPT ![r] = Unread(req[r])]

LEMMA GoesOnEffect ==
  ASSUME IInv, NEW r \in Request, NEW l \in Labels, GoesOn(r, l)
  PROVE  \E s \in RequestState :
           /\ Puts(r, s)
           /\ s.pc = l /\ s.op = req[r].op /\ s.address = req[r].address
           /\ s.provider = req[r].provider /\ s.knew = req[r].knew
           /\ s.account = req[r].account /\ s.code = req[r].code
           /\ ~Goto(r, l) => s.blind /\ req[r].pc = "register.find"
           /\ Goto(r, l) => s.blind = req[r].blind
  <1>1. PICK t \in RequestState : t = req[r]
    BY Types
  <1>2. CASE Goto(r, l)
    <2>1. PICK s : s = Moved(t, l)
      OBVIOUS
    <2>2. s \in RequestState
      BY <2>1 DEF Moved, Record, RequestState
    <2>3. /\ s.pc = l /\ s.op = t.op /\ s.address = t.address /\ s.provider = t.provider
          /\ s.knew = t.knew /\ s.account = t.account /\ s.code = t.code
          /\ s.blind = t.blind
      BY <2>1 DEF Moved, Record
    <2>4. Puts(r, s)
      BY <1>1, <1>2, <2>1 DEF Goto, Puts
    <2> QED BY <1>1, <1>2, <2>2, <2>3, <2>4
  <1>3. CASE ~Goto(r, l)
    <2>1. PICK s : s = Unread(t)
      OBVIOUS
    <2>2. s \in RequestState
      BY <2>1 DEF Unread, Record, RequestState, Labels
    <2>3. /\ s.pc = "create" /\ s.op = t.op /\ s.address = t.address
          /\ s.provider = t.provider /\ s.knew = t.knew /\ s.account = t.account
          /\ s.code = t.code /\ s.blind
      BY <2>1 DEF Unread, Record
    <2>4. Puts(r, s) /\ l = "create" /\ req[r].pc = "register.find"
      BY <1>1, <1>3, <2>1 DEF GoesOn, Puts
    <2> QED BY <1>1, <1>3, <2>2, <2>3, <2>4
  <1> QED BY <1>2, <1>3

\* Most steps write no row.
LEMMA QuietStep ==
  ASSUME IInv, NEW r \in Request, NEW s \in RequestState, Puts(r, s), rows' = rows,
         Creator(r) => s.pc \in {"session", "done"}, Local(r)'
  PROVE  IInv'
  <1>1. /\ req' \in [Request -> RequestState] /\ req'[r] = s
        /\ \A q \in Request \ {r} : req'[q] = req[q]
    BY PutsEffect
  <1>2. Keeps(r)
    BY <1>1 DEF Keeps, Lasting, Creator
  <1>3. TypeOK' /\ OwnIds'
    BY <1>1 DEF IInv, TypeOK, OwnIds
  <1> QED BY <1>2, <1>3, OthersKept DEF IInv

-----------------------------------------------------------------------------
(***************************************************************************)
(* The last step of a request.  What a sign-in may be answered with        *)
(* depends on what it has found.                                           *)
(***************************************************************************)
LEMMA EndStep ==
  ASSUME IInv, NEW r \in Request, InFlight(r), NEW c \in Codes, End(r, c), rows' = rows,
         req[r].op = "social" =>
           /\ c = "OK" => req[r].pc = "session"
           /\ c \in {"INVALID_INPUT", "CONFLICT"} => \A x \in req[r].knew : rows[x] = None
  PROVE  IInv'
  <1>1. PICK t \in RequestState : t = req[r]
    BY Types
  <1>2. PICK s \in RequestState : s = Ended(t, c)
    BY EndedType
  <1>3. Puts(r, s)
    BY <1>1, <1>2 DEF End, Puts
  <1>4. /\ req' \in [Request -> RequestState] /\ req'[r] = s
        /\ \A q \in Request \ {r} : req'[q] = req[q]
    BY <1>3, PutsEffect
  <1>5. Local(r)
    BY LocalOf
  <1>6. s.pc = "done"
    BY <1>2 DEF Ended, Fresh, Record
  <1>7. \A x \in Request : Creator(x) => Creator(x)'
    BY <1>4, <1>6 DEF Creator
  <1>8. CASE t.op = "social" /\ c = "OK"
    <2>1. /\ s.op = "social" /\ s.address = t.address /\ s.provider = t.provider
          /\ s.account = t.account /\ s.knew = t.knew /\ s.code = "OK"
      BY <1>2, <1>8 DEF Ended, Record
    <2>2. t.pc = "session" /\ t.account \in Request
      BY <1>1, <1>5, <1>8 DEF Local, ShapeOf
    <2>3. ShapeOf(r)'
      BY <1>1, <1>4, <1>5, <1>6, <1>8, <2>1 DEF Local, ShapeOf
    <2>4. t.knew \subseteq Request
      BY DEF RequestState
    <2>5. Created(r)'
      BY <1>1, <1>4, <1>5, <1>6, <1>7, <2>1, <2>2, <2>4 DEF Local, Created, Creator
    <2>6. UpdatesOwn(r)' /\ KnewFollowed(r)'
      BY <1>4, <1>6 DEF UpdatesOwn, KnewFollowed
    <2>7. SignedInLinked(r)' /\ KnewLinked(r)'
      BY <1>1, <1>4, <1>5, <1>8, <2>1, <2>2 DEF Local, SignedInLinked, KnewLinked
    <2>8. Returns(r)'
      BY <1>1, <1>4, <1>5, <1>8, <2>1, <2>2 DEF Local, KnewFollowed, Returns
    <2>9. Local(r)'
      BY <2>3, <2>5, <2>6, <2>7, <2>8 DEF Local
    <2> QED BY <1>3, <1>6, <2>9, QuietStep
  <1>9. CASE t.op = "social" /\ c \in {"INVALID_INPUT", "CONFLICT"}
    <2>1. /\ s.op = "social" /\ s.address = t.address /\ s.provider = t.provider
          /\ s.account = None /\ s.knew = t.knew /\ s.code = c
      BY <1>2, <1>9 DEF Ended, Record
    <2>2. ShapeOf(r)'
      BY <1>1, <1>4, <1>5, <1>6, <1>9, <2>1 DEF Local, ShapeOf
    <2>3. t.knew \subseteq Request
      BY DEF RequestState
    <2>4. Created(r)'
      BY <1>1, <1>4, <1>5, <1>6, <1>7, <2>1, <2>3 DEF Local, Created, Creator
    <2>5. UpdatesOwn(r)' /\ KnewFollowed(r)' /\ SignedInLinked(r)'
      BY <1>4, <1>6, <2>1 DEF UpdatesOwn, KnewFollowed, SignedInLinked
    <2>6. KnewLinked(r)' /\ Returns(r)'
      BY <1>1, <1>4, <1>9, <2>1 DEF KnewLinked, Returns
    <2>7. Local(r)'
      BY <2>2, <2>4, <2>5, <2>6 DEF Local
    <2> QED BY <1>3, <1>6, <2>7, QuietStep
  <1>10. CASE ~(t.op = "social" /\ c \in {"OK", "INVALID_INPUT", "CONFLICT"})
    <2>1. s.op = "none" /\ s.account = None /\ s.knew = {}
      BY <1>2, <1>10 DEF Ended, Fresh, Record
    <2>2. ShapeOf(r)' /\ UpdatesOwn(r)' /\ KnewFollowed(r)' /\ SignedInLinked(r)'
          /\ KnewLinked(r)' /\ Returns(r)'
      BY <1>4, <1>6, <2>1
         DEF ShapeOf, UpdatesOwn, KnewFollowed, SignedInLinked, KnewLinked, Returns
    <2>3. Created(r)'
      BY <1>4, <1>6, <2>1 DEF Created, Creator
    <2>4. Local(r)'
      BY <2>2, <2>3 DEF Local
    <2> QED BY <1>3, <1>6, <2>4, QuietStep
  <1> QED BY <1>8, <1>9, <1>10

-----------------------------------------------------------------------------
(***************************************************************************)
(* The beginning of a request.                                             *)
(***************************************************************************)
LEMMA BeginOther ==
  ASSUME IInv, NEW r \in Request, NEW s \in RequestState, Begin(r, s),
         s.knew = {},
         \/ /\ s.op = "register" /\ s.pc = "register.find"
            /\ s.address \in Address /\ s.account = None
         \/ /\ s.op = "confirm" /\ s.pc = "confirm.find"
            /\ s.account \in Request /\ Creator(s.account)
  PROVE  IInv'
  <1>1. Puts(r, s) /\ rows' = rows /\ req[r].pc = "idle"
    BY DEF Begin, Puts
  <1>2. /\ req'[r] = s /\ \A q \in Request \ {r} : req'[q] = req[q]
    BY <1>1, PutsEffect
  <1>3. ~Creator(r) /\ rows[r] = None
    BY <1>1, LocalOf DEF Creator, Local, Created
  <1>4. Created(r)'
    BY <1>1, <1>2, <1>3 DEF Created, Creator
  <1>5. ShapeOf(r)' /\ UpdatesOwn(r)' /\ KnewFollowed(r)' /\ SignedInLinked(r)'
        /\ KnewLinked(r)' /\ Returns(r)'
    BY <1>2 DEF ShapeOf, UpdatesOwn, KnewFollowed, SignedInLinked, KnewLinked, Returns
  <1>6. Local(r)'
    BY <1>4, <1>5 DEF Local
  <1> QED BY <1>1, <1>3, <1>6, QuietStep

LEMMA StartStep ==
  ASSUME IInv, NEW r \in Request, Start(r)
  PROVE  IInv'
  <1>1. CASE SignIn(r)
    <2>1. PICK a \in Address, p \in Provider :
            Begin(r, Record("social", "token", a, p, FALSE, FALSE, None, FALSE, FALSE,
                            Answered(p, a), "none"))
      BY <1>1 DEF SignIn
    <2>2. PICK k \in SUBSET Request : k = Answered(p, a)
      BY DEF Answered
    <2>3. PICK s \in RequestState :
            s = Record("social", "token", a, p, FALSE, FALSE, None, FALSE, FALSE, k, "none")
      BY RecordType DEF Operations, Labels, Codes
    <2>4. /\ s.op = "social" /\ s.pc = "token" /\ s.address = a /\ s.provider = p
          /\ s.account = None /\ s.knew = k
      BY <2>3 DEF Record
    <2>5. Puts(r, s) /\ rows' = rows /\ req[r].pc = "idle"
      BY <2>1, <2>2, <2>3 DEF Begin, Puts
    <2>6. /\ req'[r] = s /\ \A q \in Request \ {r} : req'[q] = req[q]
      BY <2>5, PutsEffect
    <2>7. ~Creator(r) /\ rows[r] = None
      BY <2>5, LocalOf DEF Creator, Local, Created
    <2>8. \A x \in k : /\ x \in Request /\ Creator(x)
                       /\ rows[x] # None => rows[x].linked[p] = a
      <3> SUFFICES ASSUME NEW x \in k
                   PROVE  /\ x \in Request /\ Creator(x)
                          /\ rows[x] # None => rows[x].linked[p] = a
        OBVIOUS
      <3>1. PICK q \in Request :
              /\ req[q].op = "social" /\ req[q].pc = "done" /\ req[q].code = "OK"
              /\ req[q].provider = p /\ req[q].address = a /\ req[q].account = x
        BY <2>2 DEF Answered
      <3>2. Local(q)
        BY LocalOf
      <3>3. x \in Request /\ x # None
        OBVIOUS
      <3> QED BY <3>1, <3>2, <3>3 DEF Local, Created, SignedInLinked
    <2>9. Created(r)'
      BY <2>4, <2>5, <2>6, <2>7, <2>8 DEF Created, Creator
    <2>10. KnewLinked(r)'
      BY <2>4, <2>5, <2>6, <2>8 DEF KnewLinked
    <2>11. ShapeOf(r)' /\ UpdatesOwn(r)' /\ KnewFollowed(r)' /\ SignedInLinked(r)'
           /\ Returns(r)'
      BY <2>4, <2>6 DEF ShapeOf, UpdatesOwn, KnewFollowed, SignedInLinked, Returns
    <2>12. Local(r)'
      BY <2>9, <2>10, <2>11 DEF Local
    <2> QED BY <2>5, <2>7, <2>12, QuietStep
  <1>2. CASE Register(r)
    <2>1. PICK a \in Address : Begin(r, Fresh("register", "register.find", a, None))
      BY <1>2 DEF Register
    <2>2. PICK s \in RequestState : s = Fresh("register", "register.find", a, None)
      BY FreshType DEF Operations, Labels
    <2>3. /\ s.op = "register" /\ s.knew = {} /\ s.pc = "register.find"
          /\ s.address = a /\ s.account = None
      BY <2>2 DEF Fresh, Record
    <2>4. Begin(r, s)
      BY <2>1, <2>2
    <2> QED BY <2>3, <2>4, BeginOther
  <1>3. CASE Confirm(r)
    <2>1. PICK x \in Rows : Begin(r, Fresh("confirm", "confirm.find", rows[x].email, x))
      BY <1>3 DEF Confirm
    <2>2. x \in Request /\ rows[x] \in Row /\ rows[x] # None
      BY Types DEF Rows
    <2>3. PICK a \in Address : a = rows[x].email
      BY <2>2 DEF Row
    <2>4. PICK s \in RequestState : s = Fresh("confirm", "confirm.find", a, x)
      BY <2>2, FreshType DEF Operations, Labels
    <2>5. /\ s.op = "confirm" /\ s.knew = {} /\ s.pc = "confirm.find" /\ s.account = x
      BY <2>4 DEF Fresh, Record
    <2>6. Begin(r, s)
      BY <2>1, <2>3, <2>4
    <2>7. Creator(x)
      BY <2>2, LocalOf DEF Local, Created
    <2> QED BY <2>2, <2>5, <2>6, <2>7, BeginOther
  <1> QED BY <1>1, <1>2, <1>3 DEF Start

-----------------------------------------------------------------------------
(***************************************************************************)
(* A step in between, which keeps whose request it is.                     *)
(***************************************************************************)
LEMMA AdvanceStep ==
  ASSUME IInv, NEW r \in Request, NEW s \in RequestState, Puts(r, s), rows' = rows,
         ~Creator(r), s.pc # "done", s.op = req[r].op, s.address = req[r].address,
         s.provider = req[r].provider, s.knew = req[r].knew,
         ShapeOf(r)', UpdatesOwn(r)', SignedInLinked(r)', KnewFollowed(r)',
         s.account # None => Creator(s.account)
  PROVE  IInv'
  <1>1. /\ req'[r] = s /\ \A q \in Request \ {r} : req'[q] = req[q]
    BY PutsEffect
  <1>2. Local(r) /\ s.knew \subseteq Request /\ s.account \in Request \cup {None}
    BY LocalOf DEF RequestState
  <1>3. \A x \in Request : Creator(x) => Creator(x)'
    BY <1>1 DEF Creator
  <1>4. Created(r)'
    BY <1>1, <1>2, <1>3 DEF Local, Created
  <1>5. KnewLinked(r)'
    BY <1>1, <1>2 DEF Local, KnewLinked
  <1>6. Returns(r)'
    BY <1>1 DEF Returns
  <1>7. Local(r)'
    BY <1>4, <1>5, <1>6 DEF Local
  <1> QED BY <1>7, QuietStep

LEMMA GotoStep ==
  ASSUME IInv, NEW r \in Request, NEW l \in Labels, GoesOn(r, l), rows' = rows,
         \/ req[r].pc = "token" /\ l = "findById"
         \/ /\ req[r].pc = "findById" /\ l = "findByEmail"
            /\ \A x \in req[r].knew : rows[x] = None
         \/ req[r].pc = "findByEmail" /\ l = "create"
         \/ req[r].pc = "register.find" /\ l = "create"
         \/ req[r].pc = "confirm.find" /\ l = "confirm.write"
  PROVE  IInv'
  <1>1. PICK t \in RequestState : t = req[r]
    BY Types
  <1>2. PICK s \in RequestState :
          /\ Puts(r, s)
          /\ s.pc = l /\ s.op = t.op /\ s.address = t.address
          /\ s.provider = t.provider /\ s.knew = t.knew /\ s.account = t.account
    BY <1>1, GoesOnEffect
  <1>3. Puts(r, s)
    BY <1>2
  <1>4. req'[r] = s
    BY <1>3, PutsEffect
  <1>5. /\ s.pc = l /\ s.op = t.op /\ s.address = t.address /\ s.provider = t.provider
        /\ s.knew = t.knew /\ s.account = t.account
    BY <1>2
  <1>6. Local(r)
    BY LocalOf
  <1>7. ~Creator(r) /\ l \notin {"done", "session", "update"}
    BY DEF Creator
  <1>8. ShapeOf(r)'
    BY <1>1, <1>4, <1>5, <1>6 DEF Local, ShapeOf
  <1>9. UpdatesOwn(r)' /\ SignedInLinked(r)'
    BY <1>4, <1>5, <1>7 DEF UpdatesOwn, SignedInLinked
  <1>10. KnewFollowed(r)'
    BY <1>1, <1>4, <1>5, <1>6, <1>7 DEF Local, ShapeOf, KnewFollowed
  <1>11. s.account # None => Creator(s.account)
    BY <1>1, <1>5, <1>6 DEF Local, Created
  <1> QED BY <1>1, <1>3, <1>5, <1>7, <1>8, <1>9, <1>10, <1>11, AdvanceStep

-----------------------------------------------------------------------------
(***************************************************************************)
(* The steps of a sign-in.                                                 *)
(***************************************************************************)
LEMMA VerifyIdTokenStep ==
  ASSUME IInv, NEW r \in Request, VerifyIdToken(r)
  PROVE  IInv'
  <1>0. req[r].pc = "token" /\ rows' = rows /\ req[r].op = "social"
    BY LocalOf DEF VerifyIdToken, Local, ShapeOf
  <1>1. CASE End(r, "INVALID_TOKEN")
    BY <1>0, <1>1, EndStep DEF InFlight, Codes
  <1>2. CASE \E named, vouched \in BOOLEAN :
               req' = [req EXCEPT ![r] = Verified(req[r], named, named /\ vouched)]
    <2>1. PICK n \in BOOLEAN, v \in BOOLEAN :
            req' = [req EXCEPT ![r] = Verified(req[r], n, v)]
      BY <1>2
    <2>2. PICK t \in RequestState : t = req[r]
      BY Types
    <2>3. PICK s \in RequestState : s = Verified(t, n, v)
      <3>1. Verified(t, n, v) \in RequestState
        BY DEF Verified, Record, RequestState, Labels
      <3> QED BY <3>1
    <2>4. Puts(r, s)
      BY <2>1, <2>2, <2>3 DEF Puts
    <2>5. req'[r] = s
      BY <2>4, PutsEffect
    <2>6. /\ s.pc = "findById" /\ s.op = t.op /\ s.address = t.address
          /\ s.provider = t.provider /\ s.knew = t.knew /\ s.account = t.account
      BY <2>3 DEF Verified, Record
    <2>7. Local(r) /\ ~Creator(r)
      BY <1>0, LocalOf DEF Creator
    <2>8. ShapeOf(r)'
      BY <1>0, <2>2, <2>5, <2>6, <2>7 DEF Local, ShapeOf
    <2>9. UpdatesOwn(r)' /\ SignedInLinked(r)' /\ KnewFollowed(r)'
      BY <2>5, <2>6 DEF UpdatesOwn, SignedInLinked, KnewFollowed
    <2>10. s.account = None
      BY <1>0, <2>2, <2>6, <2>7 DEF Local, ShapeOf
    <2> QED BY <1>0, <2>2, <2>4, <2>6, <2>7, <2>8, <2>9, <2>10, AdvanceStep
  <1> QED BY <1>1, <1>2 DEF VerifyIdToken

\* Who was known by the id is found by it.
LEMMA KnownFound ==
  ASSUME IInv, NEW r \in Request, req[r].op = "social",
         NEW x \in req[r].knew, rows[x] # None
  PROVE  x \in Linked(req[r].provider, req[r].address)
  <1>1. x \in Request
    BY Types DEF RequestState
  <1> QED BY <1>1, LocalOf DEF Local, KnewLinked, Linked, Rows

LEMMA OneLinked ==
  ASSUME IInv, NEW p \in Provider, NEW a \in Address,
         NEW x \in Linked(p, a), NEW y \in Linked(p, a)
  PROVE  x = y
  BY DEF IInv, OwnIds, Linked, Rows

LEMMA FindByIdStep ==
  ASSUME IInv, NEW r \in Request, FindById(r)
  PROVE  IInv'
  <1>0. /\ req[r].pc = "findById" /\ rows' = rows /\ req[r].op = "social"
        /\ Local(r) /\ ~Creator(r)
    BY LocalOf DEF FindById, Local, ShapeOf, Creator
  <1>1. PICK t \in RequestState, p \in Provider, a \in Address :
          t = req[r] /\ p = t.provider /\ a = t.address
    BY <1>0, Types DEF Local, ShapeOf
  <1>2. ASSUME NEW x \in Linked(p, a), Sign(r, x)
        PROVE  IInv'
    <2>1. x \in Request /\ rows[x] # None /\ rows[x].linked[p] = a
      BY <1>2 DEF Linked, Rows
    <2>2. PICK s \in RequestState : s = Signed(t, x)
      <3>1. Signed(t, x) \in RequestState
        BY <2>1 DEF Signed, Record, RequestState, Labels
      <3> QED BY <3>1
    <2>3. Puts(r, s)
      BY <1>1, <1>2, <2>2 DEF Sign, Puts
    <2>4. req'[r] = s
      BY <2>3, PutsEffect
    <2>5. /\ s.pc = "session" /\ s.op = t.op /\ s.address = t.address
          /\ s.provider = t.provider /\ s.knew = t.knew /\ s.account = x
      BY <2>2 DEF Signed, Record
    <2>6. ShapeOf(r)'
      BY <1>0, <1>1, <2>1, <2>4, <2>5 DEF ShapeOf
    <2>7. UpdatesOwn(r)'
      BY <2>4, <2>5 DEF UpdatesOwn
    <2>8. SignedInLinked(r)'
      BY <1>0, <1>1, <2>1, <2>4, <2>5 DEF SignedInLinked
    <2>9. \A y \in t.knew : rows[y] = None \/ x = y
      BY <1>0, <1>1, <1>2, KnownFound, OneLinked
    <2>10. KnewFollowed(r)'
      BY <1>0, <1>1, <2>4, <2>5, <2>9 DEF KnewFollowed
    <2>11. Creator(x)
      BY <2>1, LocalOf DEF Local, Created
    <2> QED BY <1>0, <1>1, <2>3, <2>5, <2>6, <2>7, <2>8, <2>10, <2>11, AdvanceStep
  <1>3. ASSUME Linked(p, a) = {} PROVE \A x \in req[r].knew : rows[x] = None
    BY <1>0, <1>1, <1>3, KnownFound
  <1>4. CASE Linked(p, a) = {} /\ Goto(r, "findByEmail")
    BY <1>0, <1>3, <1>4, GotoStep DEF Labels, GoesOn
  <1>5. CASE Linked(p, a) = {} /\ End(r, "INVALID_INPUT")
    BY <1>0, <1>3, <1>5, EndStep DEF InFlight, Codes
  <1> QED BY <1>1, <1>2, <1>4, <1>5 DEF FindById

LEMMA FindByEmailStep ==
  ASSUME IInv, NEW r \in Request, FindByEmail(r)
  PROVE  IInv'
  <1>0. /\ req[r].pc = "findByEmail" /\ rows' = rows /\ req[r].op = "social"
        /\ Local(r) /\ ~Creator(r)
    BY LocalOf DEF FindByEmail, Local, ShapeOf, Creator
  <1>1. PICK t \in RequestState : t = req[r]
    BY Types
  <1>2. ASSUME NEW x \in Mailed(t.address), Reach(r, "update", x, rows[x].emailVerified)
        PROVE  IInv'
    <2>1. x \in Request /\ rows[x] # None /\ rows[x].email = t.address
      BY <1>2 DEF Mailed, Rows
    <2>2. PICK b \in BOOLEAN : b = rows[x].emailVerified
      BY <2>1, Types DEF Row
    <2>3. PICK s \in RequestState : s = Reached(t, "update", x, b)
      <3>1. Reached(t, "update", x, b) \in RequestState
        BY <2>1 DEF Reached, Record, RequestState, Labels
      <3> QED BY <3>1
    <2>4. Puts(r, s)
      BY <1>1, <1>2, <2>2, <2>3 DEF Reach, Puts
    <2>5. req'[r] = s
      BY <2>4, PutsEffect
    <2>6. /\ s.pc = "update" /\ s.op = t.op /\ s.address = t.address
          /\ s.provider = t.provider /\ s.knew = t.knew /\ s.account = x
      BY <2>3 DEF Reached, Record
    <2>7. ShapeOf(r)'
      BY <1>0, <1>1, <2>1, <2>5, <2>6 DEF Local, ShapeOf
    <2>8. UpdatesOwn(r)' /\ SignedInLinked(r)'
      BY <1>0, <2>1, <2>5, <2>6 DEF UpdatesOwn, SignedInLinked
    <2>9. KnewFollowed(r)'
      BY <1>0, <1>1, <2>5, <2>6 DEF Local, KnewFollowed
    <2>10. Creator(x)
      BY <2>1, LocalOf DEF Local, Created
    <2> QED BY <1>0, <1>1, <2>4, <2>6, <2>7, <2>8, <2>9, <2>10, AdvanceStep
  <1>3. CASE Goto(r, "create")
    BY <1>0, <1>3, GotoStep DEF Labels, GoesOn
  <1> QED BY <1>1, <1>2, <1>3 DEF FindByEmail, LookUp

-----------------------------------------------------------------------------
(***************************************************************************)
(* The steps that write a row.                                             *)
(***************************************************************************)
LEMMA UpdateStep ==
  ASSUME IInv, NEW r \in Request, Update(r)
  PROVE  IInv'
  <1>0. /\ req[r].pc = "update" /\ req[r].op = "social" /\ Local(r) /\ ~Creator(r)
        /\ InFlight(r)
    BY LocalOf DEF Update, Local, ShapeOf, Creator, InFlight
  <1>1. PICK t \in RequestState, p \in Provider, a \in Address, x \in Request :
          t = req[r] /\ p = t.provider /\ a = t.address /\ x = t.account
    BY <1>0, Types DEF Local, ShapeOf
  <1>2. \A y \in t.knew : y \in Request /\ rows[y] = None
    BY <1>0, <1>1 DEF Local, KnewFollowed, RequestState
  <1>3. CASE rows[x] = None
    <2>1. End(r, "NOT_FOUND") /\ rows' = rows
      BY <1>1, <1>3 DEF Update
    <2> QED BY <1>0, <2>1, EndStep DEF Codes
  <1>4. CASE rows[x] # None /\ Linked(p, a) \ {x} # {}
    <2>1. End(r, "CONFLICT") /\ rows' = rows
      BY <1>1, <1>4 DEF Update
    <2> QED BY <1>0, <1>1, <1>2, <2>1, EndStep DEF Codes
  <1>5. CASE rows[x] # None /\ Linked(p, a) \ {x} = {}
    <2>1. PICK old \in Row : old = rows[x] /\ old.email = a
      BY <1>0, <1>1, <1>5, Types DEF Local, UpdatesOwn
    <2>2. PICK new \in Row : /\ new.email = a /\ rows' = [rows EXCEPT ![x] = new]
                             /\ \A q \in Provider :
                                  new.linked[q] = IF q = p THEN a ELSE old.linked[q]
      <3>1. PICK b \in BOOLEAN : b = EmailVerified(t.vouched, t.verified)
        BY DEF EmailVerified
      <3>2. PICK new \in Row : new = Link(old, p, a, b)
        <4>1. Link(old, p, a, b) \in Row
          BY DEF Link, Row
        <4> QED BY <4>1
      <3>3. rows' = [rows EXCEPT ![x] = new]
        BY <1>1, <1>5, <2>1, <3>1, <3>2 DEF Update
      <3>4. /\ new.email = a
            /\ \A q \in Provider : new.linked[q] = IF q = p THEN a ELSE old.linked[q]
        BY <2>1, <3>2 DEF Link
      <3> QED BY <3>3, <3>4
    <2>3. PICK s \in RequestState : s = Signed(t, x)
      <3>1. Signed(t, x) \in RequestState
        BY DEF Signed, Record, RequestState, Labels
      <3> QED BY <3>1
    <2>4. Puts(r, s)
      BY <1>1, <1>5, <2>3 DEF Update, Sign, Puts
    <2>5. /\ req' \in [Request -> RequestState] /\ req'[r] = s
          /\ \A q \in Request \ {r} : req'[q] = req[q]
      BY <2>4, PutsEffect
    <2>6. /\ s.pc = "session" /\ s.op = "social" /\ s.address = a
          /\ s.provider = p /\ s.knew = t.knew /\ s.account = x
      BY <1>0, <1>1, <2>3 DEF Signed, Record
    <2>7. /\ rows' \in [Request -> Row \cup {None}] /\ rows'[x] = new
          /\ \A y \in Request \ {x} : rows'[y] = rows[y]
      BY <2>2, Types
    <2>8. TypeOK'
      BY <2>5, <2>7 DEF TypeOK
    <2>9. \A q \in Provider : old.linked[q] \in {None, a}
      BY <1>5, <2>1 DEF IInv, OwnIds
    <2>10. Lasting
      BY <1>5, <2>1, <2>2, <2>7, <2>9 DEF Lasting
    <2>11. Keeps(r)
      BY <1>0, <1>5, <2>5, <2>7, <2>10 DEF Keeps
    <2>12. OwnIds'
      <3>1. ASSUME NEW y \in Request, NEW q \in Provider, rows'[y] # None
            PROVE  rows'[y].linked[q] \in {None, rows'[y].email}
        <4>1. CASE y = x
          BY <2>2, <2>7, <2>9, <4>1
        <4>2. CASE y # x
          BY <2>7, <3>1, <4>2 DEF IInv, OwnIds
        <4> QED BY <4>1, <4>2
      <3>2. ASSUME NEW y \in Request, NEW q \in Provider, y # x, rows[y] # None,
                   rows[y].linked[q] = new.linked[q], new.linked[q] # None
            PROVE  FALSE
        <4>1. CASE q = p
          <5>1. y \in Linked(p, a)
            BY <2>2, <3>2, <4>1 DEF Linked, Rows
          <5> QED BY <1>5, <3>2, <5>1
        <4>2. CASE q # p
          BY <1>5, <2>1, <2>2, <3>2, <4>2 DEF IInv, OwnIds
        <4> QED BY <4>1, <4>2
      <3>3. ASSUME NEW y \in Request, NEW z \in Request, NEW q \in Provider,
                   rows'[y] # None, rows'[z] # None,
                   rows'[y].linked[q] = rows'[z].linked[q], rows'[y].linked[q] # None
            PROVE  y = z
        <4>1. CASE y = x /\ z # x
          BY <2>7, <3>2, <3>3, <4>1
        <4>2. CASE y # x /\ z = x
          BY <2>7, <3>2, <3>3, <4>2
        <4>3. CASE y # x /\ z # x
          BY <2>7, <3>3, <4>3 DEF IInv, OwnIds
        <4> QED BY <4>1, <4>2, <4>3
      <3> QED BY <3>1, <3>3 DEF OwnIds
    <2>13. Local(r)'
      <3>1. Creator(x) /\ x # r /\ \A y \in t.knew : Creator(y)
        BY <1>0, <1>1 DEF Local, Created
      <3>2. \A y \in Request : Creator(y) => Creator(y)'
        BY <2>5, <2>6 DEF Creator
      <3>3. Created(r)'
        BY <1>0, <1>2, <2>5, <2>6, <3>1, <3>2 DEF Created, Creator
      <3>4. ShapeOf(r)' /\ UpdatesOwn(r)' /\ Returns(r)'
        BY <2>5, <2>6 DEF ShapeOf, UpdatesOwn, Returns
      <3>5. SignedInLinked(r)'
        BY <2>2, <2>5, <2>6, <2>7 DEF SignedInLinked
      <3>6. \A y \in t.knew : rows'[y] = None
        BY <1>2, <1>5, <2>7
      <3>7. KnewLinked(r)' /\ KnewFollowed(r)'
        BY <2>5, <2>6, <3>6 DEF KnewLinked, KnewFollowed
      <3> QED BY <3>3, <3>4, <3>5, <3>7 DEF Local
    <2> QED BY <2>8, <2>11, <2>12, <2>13, OthersKept DEF IInv
  <1> QED BY <1>3, <1>4, <1>5

LEMMA CreateStep ==
  ASSUME IInv, NEW r \in Request, Create(r)
  PROVE  IInv'
  <1>0. /\ req[r].pc = "create" /\ req[r].op \in {"social", "register"} /\ Local(r)
        /\ ~Creator(r) /\ InFlight(r) /\ req[r].address \in Address
    BY LocalOf DEF Create, Local, ShapeOf, Creator, InFlight
  <1>1. PICK t \in RequestState, a \in Address : t = req[r] /\ a = t.address
    BY <1>0, Types
  <1>2. t.op = "social" => \A y \in t.knew : y \in Request /\ rows[y] = None
    BY <1>0, <1>1 DEF Local, KnewFollowed, RequestState
  <1>3. CASE End(r, "CONFLICT") /\ rows' = rows
    BY <1>0, <1>1, <1>2, <1>3, EndStep DEF Codes
  <1>4. CASE /\ Mailed(a) \cup (IF t.op = "social" THEN Linked(t.provider, a) ELSE {}) = {}
             /\ rows' = [rows EXCEPT ![r] = NewRow(t)] /\ Sign(r, r)
    <2>1. PICK new \in Row :
            /\ new.email = a /\ rows' = [rows EXCEPT ![r] = new]
            /\ \A q \in Provider : new.linked[q] = IF q = t.provider THEN a ELSE None
      <3>1. t.op = "social" => t.provider \in Provider
        BY <1>0, <1>1 DEF Local, ShapeOf
      <3>2. PICK new \in Row : new = NewRow(t)
        <4>1. NewRow(t) \in Row
          BY <1>1, <3>1 DEF NewRow, Row, RequestState
        <4> QED BY <4>1
      <3> QED BY <1>1, <1>4, <3>2 DEF NewRow
    <2>2. PICK s \in RequestState : s = Signed(t, r)
      <3>1. Signed(t, r) \in RequestState
        BY DEF Signed, Record, RequestState, Labels
      <3> QED BY <3>1
    <2>3. Puts(r, s)
      BY <1>1, <1>4, <2>2 DEF Sign, Puts
    <2>4. /\ req' \in [Request -> RequestState] /\ req'[r] = s
          /\ \A q \in Request \ {r} : req'[q] = req[q]
      BY <2>3, PutsEffect
    <2>5. /\ s.pc = "session" /\ s.op = t.op /\ s.address = a
          /\ s.provider = t.provider /\ s.knew = t.knew /\ s.account = r
      BY <1>1, <2>2 DEF Signed, Record
    <2>6. rows[r] = None
      BY <1>0 DEF Local, Created
    <2>7. /\ rows' \in [Request -> Row \cup {None}] /\ rows'[r] = new
          /\ \A y \in Request \ {r} : rows'[y] = rows[y]
      BY <2>1, Types
    <2>8. TypeOK'
      BY <2>4, <2>7 DEF TypeOK
    <2>9. Lasting
      BY <1>0, <2>7 DEF Lasting
    <2>10. Keeps(r)
      BY <1>0, <2>4, <2>7, <2>9 DEF Keeps
    <2>11. OwnIds'
      <3>1. ASSUME NEW y \in Request, NEW q \in Provider, rows'[y] # None
            PROVE  rows'[y].linked[q] \in {None, rows'[y].email}
        <4>1. CASE y = r
          BY <2>1, <2>7, <4>1
        <4>2. CASE y # r
          BY <2>7, <3>1, <4>2 DEF IInv, OwnIds
        <4> QED BY <4>1, <4>2
      <3>2. ASSUME NEW y \in Request, NEW q \in Provider, y # r, rows[y] # None,
                   rows[y].linked[q] = new.linked[q], new.linked[q] # None
            PROVE  FALSE
        <4>1. rows[y].linked[q] = a
          BY <2>1, <3>2
        <4>2. rows[y].email = a
          BY <3>2, <4>1 DEF IInv, OwnIds
        <4>3. y \in Mailed(a)
          BY <3>2, <4>2 DEF Mailed, Rows
        <4> QED BY <1>4, <4>3
      <3>3. ASSUME NEW y \in Request, NEW z \in Request, NEW q \in Provider,
                   rows'[y] # None, rows'[z] # None,
                   rows'[y].linked[q] = rows'[z].linked[q], rows'[y].linked[q] # None
            PROVE  y = z
        <4>1. CASE y = r /\ z # r
          BY <2>7, <3>2, <3>3, <4>1
        <4>2. CASE y # r /\ z = r
          BY <2>7, <3>2, <3>3, <4>2
        <4>3. CASE y # r /\ z # r
          BY <2>7, <3>3, <4>3 DEF IInv, OwnIds
        <4> QED BY <4>1, <4>2, <4>3
      <3> QED BY <3>1, <3>3 DEF OwnIds
    <2>12. Local(r)'
      <3>1. \A y \in t.knew : y \in Request /\ Creator(y)
        BY <1>0, <1>1 DEF Local, Created, RequestState
      <3>2. \A y \in Request : Creator(y) => Creator(y)'
        BY <2>4, <2>5 DEF Creator
      <3>3. Creator(r)'
        BY <2>4, <2>5 DEF Creator
      <3>4. Created(r)'
        BY <2>4, <2>5, <3>1, <3>2, <3>3 DEF Created
      <3>5. ShapeOf(r)' /\ UpdatesOwn(r)' /\ Returns(r)'
        BY <1>0, <1>1, <2>4, <2>5 DEF Local, ShapeOf, UpdatesOwn, Returns
      <3>6. SignedInLinked(r)'
        <4>1. t.op = "social" => t.provider \in Provider
          BY <1>0, <1>1 DEF Local, ShapeOf
        <4> QED BY <2>1, <2>4, <2>5, <2>7, <4>1 DEF SignedInLinked
      <3>7. \A y \in t.knew : y # r
        BY <1>0, <3>1
      <3>8. KnewLinked(r)' /\ KnewFollowed(r)'
        BY <1>2, <2>4, <2>5, <2>7, <3>7 DEF KnewLinked, KnewFollowed
      <3> QED BY <3>4, <3>5, <3>6, <3>8 DEF Local
    <2> QED BY <2>8, <2>10, <2>11, <2>12, OthersKept DEF IInv
  <1> QED BY <1>1, <1>3, <1>4 DEF Create

LEMMA WriteConfirmedStep ==
  ASSUME IInv, NEW r \in Request, WriteConfirmed(r)
  PROVE  IInv'
  <1>0. /\ req[r].pc = "confirm.write" /\ req[r].op = "confirm" /\ Local(r)
        /\ ~Creator(r) /\ InFlight(r)
    BY LocalOf DEF WriteConfirmed, Local, ShapeOf, Creator, InFlight
  <1>1. PICK t \in RequestState, x \in Request : t = req[r] /\ x = t.account
    BY <1>0, Types DEF Local, ShapeOf
  <1>2. CASE End(r, "NOT_FOUND") /\ rows' = rows
    BY <1>0, <1>2, EndStep DEF Codes
  <1>3. CASE /\ rows[x] # None /\ rows' = [rows EXCEPT ![x].emailVerified = TRUE]
             /\ End(r, "OK")
    <2>1. PICK new \in Row : /\ new.email = rows[x].email /\ new.linked = rows[x].linked
                             /\ rows' = [rows EXCEPT ![x] = new]
      <3>1. rows[x] \in Row
        BY <1>3, Types
      <3> QED BY <1>3, <3>1 DEF Row
    <2>2. /\ rows' \in [Request -> Row \cup {None}] /\ rows'[x] = new
          /\ \A y \in Request \ {x} : rows'[y] = rows[y]
      BY <2>1, Types
    <2>3. PICK s \in RequestState : s = Ended(t, "OK")
      BY EndedType DEF Codes
    <2>4. Puts(r, s)
      BY <1>1, <1>3, <2>3 DEF End, Puts
    <2>5. /\ req' \in [Request -> RequestState] /\ req'[r] = s
          /\ \A q \in Request \ {r} : req'[q] = req[q]
      BY <2>4, PutsEffect
    <2>6. s.op = "none" /\ s.pc = "done" /\ s.account = None /\ s.knew = {}
      BY <1>0, <1>1, <2>3 DEF Ended, Fresh, Record
    <2>7. TypeOK'
      BY <2>2, <2>5 DEF TypeOK
    <2>8. OwnIds'
      <3>1. \A y \in Request : rows'[y] # None =>
              /\ rows[y] # None /\ rows'[y].email = rows[y].email
              /\ rows'[y].linked = rows[y].linked
        BY <1>3, <2>1, <2>2
      <3> QED BY <3>1 DEF IInv, OwnIds
    <2>9. Keeps(r)
      BY <1>0, <1>3, <2>1, <2>2, <2>5 DEF Keeps, Lasting
    <2>10. Created(r)'
      BY <2>5, <2>6 DEF Created, Creator
    <2>11. ShapeOf(r)' /\ UpdatesOwn(r)' /\ KnewFollowed(r)' /\ SignedInLinked(r)'
           /\ KnewLinked(r)' /\ Returns(r)'
      BY <2>5, <2>6
         DEF ShapeOf, UpdatesOwn, KnewFollowed, SignedInLinked, KnewLinked, Returns
    <2>12. Local(r)'
      BY <2>10, <2>11 DEF Local
    <2> QED BY <2>7, <2>8, <2>9, <2>12, OthersKept DEF IInv
  <1> QED BY <1>1, <1>2, <1>3 DEF WriteConfirmed

LEMMA RemoveUserStep ==
  ASSUME IInv, NEW x \in Request, RemoveUser(x)
  PROVE  IInv'
  <1>1. /\ req' = req /\ rows' \in [Request -> Row \cup {None}]
        /\ \A y \in Request : rows'[y] # None => rows[y] # None /\ rows'[y] = rows[y]
    BY Types DEF RemoveUser
  <1>2. TypeOK' /\ OwnIds'
    BY <1>1 DEF IInv, TypeOK, OwnIds
  <1>3. ASSUME NEW q \in Request PROVE Local(q)'
    <2>1. /\ Local(q) /\ req[q].knew \subseteq Request
          /\ req[q].account # None => req[q].account \in Request
      BY LocalOf, Types DEF RequestState
    <2>2. ShapeOf(q)' /\ Created(q)'
      BY <1>1, <2>1 DEF Local, ShapeOf, Created, Creator
    <2>3. UpdatesOwn(q)'
      BY <1>1, <2>1 DEF Local, ShapeOf, UpdatesOwn
    <2>4. SignedInLinked(q)'
      BY <1>1, <2>1 DEF Local, SignedInLinked
    <2>5. KnewLinked(q)'
      BY <1>1, <2>1 DEF Local, KnewLinked
    <2>6. KnewFollowed(q)'
      BY <1>1, <2>1 DEF Local, KnewFollowed
    <2>7. Returns(q)'
      BY <1>1, <2>1 DEF Local, Returns
    <2> QED BY <2>2, <2>3, <2>4, <2>5, <2>6, <2>7 DEF Local
  <1> QED BY <1>2, <1>3 DEF IInv

-----------------------------------------------------------------------------
(***************************************************************************)
(* The invariance theorem and what follows from it.                        *)
(***************************************************************************)
LEMMA OtherSteps ==
  ASSUME IInv, NEW r \in Request,
         SignToken(r) \/ FindRegistered(r) \/ FindConfirmed(r) \/ Fail(r)
  PROVE  IInv'
  <1>0. Local(r)
    BY LocalOf
  <1>1. CASE SignToken(r)
    <2>1. /\ req[r].pc = "session" /\ InFlight(r) /\ rows' = rows
          /\ End(r, "OK") \/ End(r, "USER_NOT_FOUND")
      BY <1>1 DEF SignToken, InFlight
    <2> QED BY <2>1, EndStep DEF Codes
  <1>2. CASE FindRegistered(r)
    <2>1. /\ req[r].pc = "register.find" /\ InFlight(r) /\ rows' = rows
          /\ GoesOn(r, "create") \/ End(r, "USER_ALREADY_REGISTERED")
      BY <1>2 DEF FindRegistered, InFlight, GoesOn
    <2> QED BY <2>1, EndStep, GotoStep DEF Codes, Labels
  <1>3. CASE FindConfirmed(r)
    <2>1. /\ req[r].pc = "confirm.find" /\ InFlight(r) /\ rows' = rows
          /\ Goto(r, "confirm.write") \/ End(r, "USER_NOT_FOUND")
      BY <1>3 DEF FindConfirmed, InFlight
    <2> QED BY <2>1, EndStep, GotoStep DEF Codes, Labels, GoesOn
  <1>4. CASE Fail(r)
    BY <1>4, EndStep DEF Fail, Codes
  <1> QED BY <1>1, <1>2, <1>3, <1>4

LEMMA InitIInv == Init => IInv
  <1> SUFFICES ASSUME Init PROVE IInv
    OBVIOUS
  <1>1. PICK s \in RequestState : s = Idle
    BY FreshType DEF Idle, Operations, Labels
  <1>2. s.op = "none" /\ s.pc = "idle" /\ s.account = None /\ s.knew = {}
    BY <1>1 DEF Idle, Fresh, Record
  <1>3. \A r \in Request : rows[r] = None /\ req[r] = s
    BY <1>1 DEF Init
  <1>4. TypeOK
    BY <1>1 DEF Init, TypeOK
  <1>5. OwnIds
    BY <1>3 DEF OwnIds
  <1>6. ASSUME NEW r \in Request PROVE Local(r)
    BY <1>2, <1>3 DEF Local, ShapeOf, Created, UpdatesOwn, SignedInLinked,
                      KnewLinked, KnewFollowed, Returns
  <1> QED BY <1>4, <1>5, <1>6 DEF IInv

(***************************************************************************)
(* Every reachable state: an id is that of one row, which has its address, *)
(* and whoever signs in finds all that was known of the id.                *)
(***************************************************************************)
THEOREM IInvInvariant == Spec => []IInv
  <1>1. IInv /\ [Next]_vars => IInv'
    <2> SUFFICES ASSUME IInv, [Next]_vars PROVE IInv'
      OBVIOUS
    <2>1. ASSUME NEW r \in Request, Step(r) PROVE IInv'
      BY <2>1, VerifyIdTokenStep, FindByIdStep, FindByEmailStep, UpdateStep, CreateStep,
         WriteConfirmedStep, OtherSteps DEF Step
    <2>2. ASSUME NEW r \in Request, Start(r) \/ Fail(r) \/ RemoveUser(r) PROVE IInv'
      BY <2>2, StartStep, OtherSteps, RemoveUserStep
    <2>3. ASSUME UNCHANGED vars PROVE IInv'
      <3>1. rows' = rows /\ req' = req
        BY <2>3 DEF vars
      <3>2. ASSUME NEW r \in Request PROVE Local(r)'
        BY <3>1, LocalOf DEF Local, ShapeOf, Created, Creator, UpdatesOwn,
           SignedInLinked, KnewLinked, KnewFollowed, Returns
      <3> QED BY <3>1, <3>2 DEF IInv, TypeOK, OwnIds
    <2> QED BY <2>1, <2>2, <2>3 DEF Next, AtRest
  <1> QED BY InitIInv, <1>1, PTL DEF Spec

\* The variables keep their types.
THEOREM TypeCorrect == Spec => []TypeOK
  <1>1. IInv => TypeOK
    BY DEF IInv
  <1> QED BY IInvInvariant, <1>1, PTL

(***************************************************************************)
(* However sign-ins, registrations, links and removals overlap, an id that *)
(* was answered with an account is answered with it again while it exists  *)
(* (googleLogin and appleLogin), whether or not the token has an address.  *)
(***************************************************************************)
THEOREM AlwaysReturns == Spec => []ReturnsToAccount
  <1>1. IInv => ReturnsToAccount
    BY DEF IInv, Local, ReturnsToAccount
  <1> QED BY IInvInvariant, <1>1, PTL

-----------------------------------------------------------------------------
(***************************************************************************)
(* The addresses whose requests do not overlap.                            *)
(***************************************************************************)
\* The rows a step of r writes are those of its address.
WritesOwn(r) ==
  \A x \in Request : rows'[x] # None /\ rows'[x] # rows[x] =>
    /\ rows'[x].email = req[r].address /\ InFlight(r)
    /\ Creator(x) => rows[x] # None /\ rows[x].email = req[r].address

\* A request keeps its address, or begins when nobody else has it under way.
AddressKept(r) ==
  InFlight(r)' => \/ InFlight(r) /\ req'[r].address = req[r].address
                  \/ Admitted(req'[r].address)

LEMMA CalmOthers ==
  ASSUME IInv, CalmInv, NEW r \in Request, NEW q \in Request, q # r,
         req'[q] = req[q], WritesOwn(r)
  PROVE  CalmLocal(q)' /\ ConfirmsOwn(q)'
  <1>0. /\ Local(q) /\ CalmLocal(q) /\ ConfirmsOwn(q)
        /\ req[q].pc \in {"create", "update", "confirm.find", "confirm.write"} => InFlight(q)
    BY LocalOf DEF CalmInv, InFlight
  <1>1. req[q].pc \in {"update", "confirm.find", "confirm.write"} =>
          req[q].account \in Request /\ Creator(req[q].account)
    BY <1>0 DEF Local, ShapeOf, Created
  <1>2. InFlight(q) /\ InFlight(r) /\ req[q].address \in Calm =>
          req[q].address # req[r].address
    BY DEF CalmInv, CalmAlone
  <1>3. ConfirmsOwn(q)'
    <2> SUFFICES ASSUME req[q].pc \in {"confirm.find", "confirm.write"},
                        rows'[req[q].account] # None
                 PROVE  rows'[req[q].account].email = req[q].address
      BY DEF ConfirmsOwn
    <2>1. CASE rows'[req[q].account] = rows[req[q].account]
      BY <1>0, <2>1 DEF ConfirmsOwn
    <2>2. CASE rows'[req[q].account] # rows[req[q].account]
      BY <1>0, <1>1, <2>2 DEF WritesOwn, ConfirmsOwn
    <2> QED BY <2>1, <2>2
  <1>4. CalmLocal(q)'
    <2> SUFFICES ASSUME req[q].address \in Calm
                 PROVE  /\ req[q].blind => req[q].op # "social"
                        /\ req[q].code = "CONFLICT" => req[q].blind /\ req[q].pc = "done"
                        /\ req[q].pc = "create" /\ ~req[q].blind =>
                             \A x \in Request :
                               rows'[x] # None => rows'[x].email # req[q].address
                        /\ req[q].pc = "update" /\ rows'[req[q].account] # None =>
                             req[q].verified = rows'[req[q].account].emailVerified
      BY DEF CalmLocal
    <2>1. /\ req[q].blind => req[q].op # "social"
          /\ req[q].code = "CONFLICT" => req[q].blind /\ req[q].pc = "done"
      BY <1>0 DEF CalmLocal
    <2>2. ASSUME req[q].pc = "create", ~req[q].blind, NEW x \in Request, rows'[x] # None
          PROVE  rows'[x].email # req[q].address
      BY <1>0, <1>2, <2>2 DEF WritesOwn, CalmLocal
    <2>3. ASSUME req[q].pc = "update", rows'[req[q].account] # None
          PROVE  req[q].verified = rows'[req[q].account].emailVerified
      <3>1. CASE rows'[req[q].account] = rows[req[q].account]
        BY <1>0, <2>3, <3>1 DEF CalmLocal
      <3>2. CASE rows'[req[q].account] # rows[req[q].account]
        BY <1>0, <1>1, <1>2, <2>3, <3>2 DEF WritesOwn, Local, UpdatesOwn
      <3> QED BY <3>1, <3>2
    <2> QED BY <2>1, <2>2, <2>3
  <1> QED BY <1>3, <1>4

LEMMA CalmStep ==
  ASSUME IInv, CalmInv, NEW r \in Request, \A q \in Request \ {r} : req'[q] = req[q],
         WritesOwn(r), AddressKept(r), OneMail', CalmLocal(r)', ConfirmsOwn(r)'
  PROVE  CalmInv'
  <1>1. \A q \in Request : CalmLocal(q)' /\ ConfirmsOwn(q)'
    BY CalmOthers
  <1>2. ASSUME NEW q \in Request, q # r, InFlight(q)', InFlight(r)',
               req'[q].address \in Calm
        PROVE  req'[q].address # req'[r].address
    <2>1. InFlight(q) /\ req'[q] = req[q]
      BY <1>2 DEF InFlight
    <2>2. CASE InFlight(r) /\ req'[r].address = req[r].address
      BY <1>2, <2>1, <2>2 DEF CalmInv, CalmAlone
    <2>3. CASE Admitted(req'[r].address)
      BY <1>2, <2>1, <2>3 DEF Admitted
    <2> QED BY <1>2, <2>2, <2>3 DEF AddressKept
  <1>3. ASSUME NEW q \in Request, NEW p \in Request, q # r, p # r, InFlight(q)', InFlight(p)',
               req'[q].address = req'[p].address, req'[q].address \in Calm
        PROVE  q = p
    BY <1>3 DEF CalmInv, CalmAlone, InFlight
  <1>4. CalmAlone'
    BY <1>2, <1>3 DEF CalmAlone
  <1> QED BY <1>1, <1>4 DEF CalmInv

LEMMA CalmQuiet ==
  ASSUME IInv, CalmInv, NEW r \in Request, NEW s \in RequestState, Puts(r, s),
         rows' = rows,
         s.pc = "done" \/ (InFlight(r) /\ s.address = req[r].address) \/ Admitted(s.address),
         s.address \in Calm => /\ s.blind => s.op # "social"
                               /\ s.code = "CONFLICT" => s.blind /\ s.pc = "done",
         s.pc = "create" /\ ~s.blind /\ s.address \in Calm =>
           \A x \in Request : rows[x] # None => rows[x].email # s.address,
         s.pc = "update" /\ rows[s.account] # None =>
           s.verified = rows[s.account].emailVerified,
         s.pc \in {"confirm.find", "confirm.write"} /\ rows[s.account] # None =>
           rows[s.account].email = s.address
  PROVE  CalmInv'
  <1>1. /\ req'[r] = s /\ \A q \in Request \ {r} : req'[q] = req[q]
    BY PutsEffect
  <1>2. WritesOwn(r) /\ OneMail'
    BY DEF WritesOwn, CalmInv, OneMail
  <1>3. AddressKept(r)
    BY <1>1 DEF AddressKept, InFlight
  <1>4. CalmLocal(r)' /\ ConfirmsOwn(r)'
    BY <1>1 DEF CalmLocal, ConfirmsOwn
  <1> QED BY <1>1, <1>2, <1>3, <1>4, CalmStep

LEMMA CalmEnd ==
  ASSUME IInv, CalmInv, NEW r \in Request, NEW c \in Codes, End(r, c), rows' = rows,
         c = "CONFLICT" /\ req[r].address \in Calm =>
           req[r].blind /\ req[r].op # "social"
  PROVE  CalmInv'
  <1>1. PICK t \in RequestState : t = req[r]
    BY Types
  <1>2. PICK s \in RequestState : s = Ended(t, c)
    BY EndedType
  <1>3. Puts(r, s)
    BY <1>1, <1>2 DEF End, Puts
  <1>4. /\ s.pc = "done"
        /\ s.code = "CONFLICT" => s.address = t.address /\ c = "CONFLICT"
        /\ s.blind => /\ s.op # "social" /\ s.code = "CONFLICT"
        /\ s.code = "CONFLICT" /\ t.op # "social" => s.blind = t.blind
    BY <1>2 DEF Ended, Fresh, Record
  <1> QED BY <1>1, <1>3, <1>4, CalmQuiet

LEMMA CalmStart ==
  ASSUME IInv, CalmInv, NEW r \in Request, Start(r)
  PROVE  CalmInv'
  <1>1. ASSUME NEW s \in RequestState, Begin(r, s), s.code = "none",
               ~s.blind, s.pc \in {"token", "register.find"}
        PROVE  CalmInv'
    BY <1>1, CalmQuiet DEF Begin, Puts
  <1>2. CASE SignIn(r)
    <2>1. PICK a \in Address, p \in Provider :
            Begin(r, Record("social", "token", a, p, FALSE, FALSE, None, FALSE, FALSE,
                            Answered(p, a), "none"))
      BY <1>2 DEF SignIn
    <2>2. PICK k \in SUBSET Request : k = Answered(p, a)
      BY DEF Answered
    <2>3. PICK s \in RequestState :
            s = Record("social", "token", a, p, FALSE, FALSE, None, FALSE, FALSE, k, "none")
      <3>1. /\ "social" \in Operations /\ "token" \in Labels /\ "none" \in Codes
            /\ a \in Address \cup {None} /\ p \in Provider \cup {None}
            /\ None \in Request \cup {None}
        BY DEF Operations, Labels, Codes
      <3>2. Record("social", "token", a, p, FALSE, FALSE, None, FALSE, FALSE, k, "none")
              \in RequestState
        BY <3>1, RecordType
      <3> QED BY <3>2
    <2>4. s.code = "none" /\ ~s.blind /\ s.pc = "token"
      BY <2>3 DEF Record
    <2>5. Begin(r, s)
      BY <2>1, <2>2, <2>3
    <2> QED BY <1>1, <2>4, <2>5
  <1>3. CASE Register(r)
    <2>1. PICK a \in Address : Begin(r, Fresh("register", "register.find", a, None))
      BY <1>3 DEF Register
    <2>2. PICK s \in RequestState : s = Fresh("register", "register.find", a, None)
      BY FreshType DEF Operations, Labels
    <2>3. s.code = "none" /\ ~s.blind /\ s.pc = "register.find"
      BY <2>2 DEF Fresh, Record
    <2>4. Begin(r, s)
      BY <2>1, <2>2
    <2> QED BY <1>1, <2>3, <2>4
  <1>4. CASE Confirm(r)
    <2>1. PICK x \in Rows : Begin(r, Fresh("confirm", "confirm.find", rows[x].email, x))
      BY <1>4 DEF Confirm
    <2>2. x \in Request /\ rows[x] \in Row /\ rows[x] # None
      BY Types DEF Rows
    <2>3. PICK a \in Address : a = rows[x].email
      BY <2>2 DEF Row
    <2>4. PICK s \in RequestState : s = Fresh("confirm", "confirm.find", a, x)
      BY <2>2, FreshType DEF Operations, Labels
    <2>5. /\ s.pc = "confirm.find" /\ s.account = x /\ s.code = "none" /\ s.address = a
          /\ ~s.blind
      BY <2>4 DEF Fresh, Record
    <2>6. Begin(r, s)
      BY <2>1, <2>3, <2>4
    <2> QED BY <2>3, <2>5, <2>6, CalmQuiet DEF Begin, Puts
  <1> QED BY <1>2, <1>3, <1>4 DEF Start

LEMMA CalmGoto ==
  ASSUME IInv, CalmInv, NEW r \in Request, NEW l \in Labels, GoesOn(r, l), rows' = rows,
         InFlight(r), l \in {"findByEmail", "create", "confirm.write"},
         l = "create" /\ Goto(r, l) =>
           \A x \in Request : rows[x] # None => rows[x].email # req[r].address,
         l = "confirm.write" => req[r].pc = "confirm.find"
  PROVE  CalmInv'
  <1>1. PICK t \in RequestState : t = req[r]
    BY Types
  <1>2. PICK s \in RequestState :
          /\ Puts(r, s)
          /\ s.pc = l /\ s.op = t.op /\ s.address = t.address
          /\ s.account = t.account /\ s.code = t.code
          /\ ~Goto(r, l) => s.blind /\ t.pc = "register.find"
          /\ Goto(r, l) => s.blind = t.blind
    BY <1>1, GoesOnEffect
  <1>3. Puts(r, s)
    BY <1>2
  <1>4. s.pc = l /\ s.address = t.address /\ s.account = t.account /\ s.code = t.code
    BY <1>2
  <1>5. CalmLocal(r) /\ ConfirmsOwn(r) /\ Local(r)
    BY LocalOf DEF CalmInv
  <1>6. s.address \in Calm => /\ s.blind => s.op # "social"
                             /\ s.code # "CONFLICT"
    BY <1>1, <1>2, <1>5 DEF CalmLocal, Local, ShapeOf, InFlight
  <1>8. s.pc = "create" /\ ~s.blind =>
          \A x \in Request : rows[x] # None => rows[x].email # s.address
    BY <1>1, <1>2
  <1>7. s.pc \in {"confirm.find", "confirm.write"} /\ rows[s.account] # None =>
          rows[s.account].email = s.address
    BY <1>1, <1>4, <1>5 DEF ConfirmsOwn
  <1> QED BY <1>1, <1>3, <1>4, <1>6, <1>7, <1>8, CalmQuiet

LEMMA CalmSign ==
  ASSUME IInv, CalmInv, NEW r \in Request, NEW x \in Request, InFlight(r), Sign(r, x),
         WritesOwn(r), OneMail'
  PROVE  CalmInv'
  <1>1. PICK t \in RequestState : t = req[r]
    BY Types
  <1>2. PICK s \in RequestState : s = Signed(t, x)
    <2>1. Signed(t, x) \in RequestState
      BY DEF Signed, Record, RequestState, Labels
    <2> QED BY <2>1
  <1>3. Puts(r, s)
    BY <1>1, <1>2 DEF Sign, Puts
  <1>4. /\ req'[r] = s /\ \A q \in Request \ {r} : req'[q] = req[q]
    BY <1>3, PutsEffect
  <1>5. s.pc = "session" /\ s.address = t.address /\ s.code = t.code /\ ~s.blind
    BY <1>2 DEF Signed, Record
  <1>6. AddressKept(r)
    BY <1>1, <1>4, <1>5 DEF AddressKept
  <1>7. CalmLocal(r)
    BY DEF CalmInv
  <1>8. CalmLocal(r)' /\ ConfirmsOwn(r)'
    BY <1>1, <1>4, <1>5, <1>7 DEF CalmLocal, ConfirmsOwn, InFlight
  <1> QED BY <1>4, <1>6, <1>8, CalmStep

LEMMA CalmReads ==
  ASSUME IInv, CalmInv, NEW r \in Request,
         \/ VerifyIdToken(r) \/ FindById(r) \/ FindByEmail(r) \/ SignToken(r)
         \/ FindRegistered(r) \/ FindConfirmed(r) \/ Fail(r)
  PROVE  CalmInv'
  <1>0. PICK t \in RequestState : t = req[r]
    BY Types
  <1>a. Local(r) /\ CalmLocal(r)
    BY LocalOf DEF CalmInv
  <1>b. rows' = rows /\ InFlight(r)
    BY DEF VerifyIdToken, FindById, FindByEmail, SignToken, FindRegistered,
           FindConfirmed, Fail, InFlight
  <1>c. Mailed(t.address) = {} =>
          \A x \in Request : rows[x] # None => rows[x].email # req[r].address
    BY <1>0 DEF Mailed, Rows
  <1>1. CASE VerifyIdToken(r)
    <2>1. CASE End(r, "INVALID_TOKEN")
      BY <1>b, <2>1, CalmEnd DEF Codes
    <2>2. CASE \E named, vouched \in BOOLEAN :
                 req' = [req EXCEPT ![r] = Verified(req[r], named, named /\ vouched)]
      <3>1. PICK n \in BOOLEAN, v \in BOOLEAN :
              req' = [req EXCEPT ![r] = Verified(req[r], n, v)]
        BY <2>2
      <3>2. PICK s \in RequestState : s = Verified(t, n, v)
        <4>1. Verified(t, n, v) \in RequestState
          BY DEF Verified, Record, RequestState, Labels
        <4> QED BY <4>1
      <3>3. Puts(r, s)
        BY <1>0, <3>1, <3>2 DEF Puts
      <3>4. /\ s.pc = "findById" /\ s.address = t.address /\ s.code = t.code
            /\ s.blind = t.blind /\ s.op = t.op
        BY <3>2 DEF Verified, Record
      <3>5. s.address \in Calm => (s.blind => s.op # "social") /\ s.code # "CONFLICT"
        BY <1>0, <1>a, <1>b, <3>4 DEF CalmLocal, InFlight
      <3> QED BY <1>0, <1>b, <3>3, <3>4, <3>5, CalmQuiet
    <2> QED BY <1>1, <2>1, <2>2 DEF VerifyIdToken
  <1>2. CASE FindById(r)
    <2>1. WritesOwn(r) /\ OneMail'
      BY <1>b DEF WritesOwn, CalmInv, OneMail
    <2>2. \/ \E x \in Linked(t.provider, t.address) : x \in Request /\ Sign(r, x)
          \/ Goto(r, "findByEmail") \/ End(r, "INVALID_INPUT")
      BY <1>0, <1>2 DEF FindById, Linked, Rows
    <2> QED BY <1>b, <2>1, <2>2, CalmSign, CalmGoto, CalmEnd DEF Labels, Codes, GoesOn
  <1>3. CASE FindByEmail(r)
    <2>1. ASSUME NEW x \in Mailed(t.address), Reach(r, "update", x, rows[x].emailVerified)
          PROVE  CalmInv'
      <3>1. x \in Request /\ rows[x] \in Row
        BY Types DEF Mailed, Rows
      <3>2. PICK b \in BOOLEAN : b = rows[x].emailVerified
        BY <3>1 DEF Row
      <3>3. PICK s \in RequestState : s = Reached(t, "update", x, b)
        <4>1. Reached(t, "update", x, b) \in RequestState
          BY <3>1 DEF Reached, Record, RequestState, Labels
        <4> QED BY <4>1
      <3>4. Puts(r, s)
        BY <1>0, <2>1, <3>2, <3>3 DEF Reach, Puts
      <3>5. /\ s.pc = "update" /\ s.address = t.address /\ s.code = t.code
            /\ s.account = x /\ s.verified = b /\ s.blind = t.blind /\ s.op = t.op
        BY <3>3 DEF Reached, Record
      <3>6. s.address \in Calm => (s.blind => s.op # "social") /\ s.code # "CONFLICT"
        BY <1>0, <1>a, <1>b, <3>5 DEF CalmLocal, InFlight
      <3> QED BY <1>0, <1>b, <3>2, <3>4, <3>5, <3>6, CalmQuiet
    <2>2. CASE Mailed(t.address) = {} /\ Goto(r, "create")
      BY <1>b, <1>c, <2>2, CalmGoto DEF Labels, GoesOn
    <2> QED BY <1>0, <1>3, <2>1, <2>2 DEF FindByEmail, LookUp
  <1>4. CASE SignToken(r)
    BY <1>4, <1>b, CalmEnd DEF SignToken, Codes
  <1>5. CASE FindRegistered(r)
    <2>1. CASE End(r, "USER_ALREADY_REGISTERED")
      BY <1>b, <2>1, CalmEnd DEF Codes
    <2>2. CASE Mailed(t.address) = {} /\ Goto(r, "create")
      BY <1>b, <1>c, <2>2, CalmGoto DEF Labels, GoesOn
    <2>3. CASE Mailed(t.address) # {} /\ req' = [req EXCEPT ![r] = Unread(req[r])]
      <3>1. GoesOn(r, "create")
        BY <1>5, <2>3 DEF FindRegistered, GoesOn
      <3>2. PICK s \in RequestState :
              /\ Puts(r, s) /\ s = Unread(t)
        <4>1. Unread(t) \in RequestState
          BY DEF Unread, Record, RequestState, Labels
        <4> QED BY <1>0, <2>3, <4>1 DEF Puts
      <3>3. /\ s.pc = "create" /\ s.blind /\ s.address = t.address /\ s.code = t.code
            /\ s.op = t.op
        BY <3>2 DEF Unread, Record
      <3>4. s.address \in Calm => s.op # "social" /\ s.code # "CONFLICT"
        BY <1>0, <1>a, <1>b, <1>5, <3>3
           DEF FindRegistered, CalmLocal, Local, ShapeOf, InFlight
      <3> QED BY <1>0, <1>b, <3>2, <3>3, <3>4, CalmQuiet
    <2> QED BY <1>0, <1>5, <2>1, <2>2, <2>3 DEF FindRegistered
  <1>6. CASE FindConfirmed(r)
    <2>1. req[r].pc = "confirm.find" /\ (End(r, "USER_NOT_FOUND") \/ Goto(r, "confirm.write"))
      BY <1>6 DEF FindConfirmed
    <2> QED BY <1>b, <2>1, CalmEnd, CalmGoto DEF Labels, Codes, GoesOn
  <1>7. CASE Fail(r)
    BY <1>7, <1>b, CalmEnd DEF Fail, Codes
  <1> QED BY <1>1, <1>2, <1>3, <1>4, <1>5, <1>6, <1>7

LEMMA CalmUpdate ==
  ASSUME IInv, CalmInv, NEW r \in Request, Update(r)
  PROVE  /\ CalmInv'
         /\ \A y \in Request :
              ( /\ rows[y] # None /\ rows[y].email \in Calm /\ rows[y].emailVerified
                /\ rows'[y] # None ) => rows'[y].emailVerified
  <1>0. /\ req[r].pc = "update" /\ req[r].op = "social" /\ Local(r) /\ InFlight(r)
        /\ CalmLocal(r)
    BY LocalOf DEF Update, Local, ShapeOf, InFlight, CalmInv
  <1>1. PICK t \in RequestState, p \in Provider, a \in Address, x \in Request :
          t = req[r] /\ p = t.provider /\ a = t.address /\ x = t.account
    BY <1>0, Types DEF Local, ShapeOf
  <1>2. CASE End(r, "NOT_FOUND") /\ rows' = rows
    BY <1>2, CalmEnd DEF Codes
  <1>3. CASE rows[x] # None /\ Linked(p, a) \ {x} # {} /\ End(r, "CONFLICT") /\ rows' = rows
    <2>1. PICK y \in Linked(p, a) : y # x
      BY <1>3
    <2>2. y \in Request /\ rows[y] # None /\ rows[y].linked[p] = a
      BY DEF Linked, Rows
    <2>3. rows[y].email = a
      BY <2>2 DEF IInv, OwnIds
    <2>4. rows[x].email = a
      BY <1>0, <1>1, <1>3 DEF Local, UpdatesOwn
    <2> QED BY <1>3, <2>1, <2>2, <2>3, <2>4 DEF CalmInv, OneMail
  <1>4. CASE /\ rows[x] # None /\ Sign(r, x)
             /\ rows' = [rows EXCEPT ![x] =
                           Link(rows[x], p, a, EmailVerified(t.vouched, t.verified))]
    <2>1. PICK old \in Row : old = rows[x] /\ old.email = a
      BY <1>0, <1>1, <1>4, Types DEF Local, UpdatesOwn
    <2>2. PICK new : new = Link(old, p, a, EmailVerified(t.vouched, t.verified))
      OBVIOUS
    <2>3. /\ new.email = a
          /\ new.emailVerified = EmailVerified(t.vouched, t.verified)
      BY <2>1, <2>2 DEF Link
    <2>4. /\ rows'[x] = new /\ \A y \in Request \ {x} : rows'[y] = rows[y]
      BY <1>4, <2>1, <2>2, Types
    <2>5. Creator(x)
      BY <1>0, <1>1 DEF Local, Created
    <2>6. WritesOwn(r)
      BY <1>0, <1>1, <1>4, <2>1, <2>3, <2>4 DEF WritesOwn
    <2>7. OneMail'
      BY <1>4, <2>1, <2>3, <2>4 DEF CalmInv, OneMail
    <2>8. a \in Calm => t.verified = old.emailVerified
      BY <1>0, <1>1, <1>4, <2>1 DEF CalmLocal
    <2>9. a \in Calm /\ old.emailVerified => new.emailVerified
      BY <2>3, <2>8 DEF EmailVerified
    <2> QED BY <1>0, <1>4, <2>1, <2>4, <2>6, <2>7, <2>9, CalmSign
  <1> QED BY <1>1, <1>2, <1>3, <1>4 DEF Update

LEMMA CalmCreate ==
  ASSUME IInv, CalmInv, NEW r \in Request, Create(r)
  PROVE  /\ CalmInv'
         /\ \A y \in Request : rows[y] # None => rows'[y] = rows[y]
  <1>0. /\ req[r].pc = "create" /\ Local(r) /\ InFlight(r) /\ CalmLocal(r)
        /\ ~Creator(r) /\ req[r].address \in Address
    BY LocalOf DEF Create, Local, ShapeOf, InFlight, CalmInv, Creator
  <1>1. PICK t \in RequestState, a \in Address : t = req[r] /\ a = t.address
    BY <1>0, Types
  <1>2. CASE /\ Mailed(a) \cup (IF t.op = "social" THEN Linked(t.provider, a) ELSE {}) # {}
             /\ End(r, "CONFLICT") /\ rows' = rows
    <2>1. a \in Calm => t.blind /\ t.op # "social"
      <3> SUFFICES ASSUME a \in Calm, ~t.blind PROVE FALSE
        BY <1>0, <1>1 DEF CalmLocal
      <3>1. \A x \in Request : rows[x] # None => rows[x].email # a
        BY <1>0, <1>1 DEF CalmLocal
      <3>2. Mailed(a) = {}
        BY <3>1 DEF Mailed, Rows
      <3>3. ASSUME t.op = "social", NEW y \in Linked(t.provider, a) PROVE FALSE
        <4>1. t.provider \in Provider
          BY <1>0, <1>1, <3>3 DEF Local, ShapeOf
        <4>2. y \in Request /\ rows[y] # None /\ rows[y].linked[t.provider] = a
          BY <3>3 DEF Linked, Rows
        <4>3. rows[y].email = a
          BY <4>1, <4>2 DEF IInv, OwnIds
        <4> QED BY <3>1, <4>2, <4>3
      <3> QED BY <1>2, <3>2, <3>3
    <2> QED BY <1>1, <1>2, <2>1, CalmEnd DEF Codes
  <1>3. CASE /\ Mailed(a) \cup (IF t.op = "social" THEN Linked(t.provider, a) ELSE {}) = {}
             /\ rows' = [rows EXCEPT ![r] = NewRow(t)] /\ Sign(r, r)
    <2>1. rows[r] = None
      BY <1>0 DEF Local, Created
    <2>2. PICK new : new = NewRow(t) /\ new.email = a
      <3>1. NewRow(t).email = a
        BY <1>1 DEF NewRow
      <3> QED BY <3>1
    <2>3. rows'[r] = new /\ \A y \in Request \ {r} : rows'[y] = rows[y]
      BY <1>3, <2>2, Types
    <2>4. WritesOwn(r)
      BY <1>0, <1>1, <2>2, <2>3 DEF WritesOwn
    <2>5. \A y \in Request : rows[y] # None => rows[y].email # a
      BY <1>3 DEF Mailed, Rows
    <2>6. OneMail'
      BY <2>2, <2>3, <2>5 DEF CalmInv, OneMail
    <2> QED BY <1>0, <1>3, <2>1, <2>3, <2>4, <2>6, CalmSign
  <1> QED BY <1>1, <1>2, <1>3 DEF Create

LEMMA CalmConfirm ==
  ASSUME IInv, CalmInv, NEW r \in Request, WriteConfirmed(r)
  PROVE  /\ CalmInv'
         /\ \A y \in Request :
              rows[y] # None /\ rows[y].emailVerified => rows'[y].emailVerified
  <1>0. /\ req[r].pc = "confirm.write" /\ req[r].op = "confirm" /\ Local(r)
        /\ InFlight(r) /\ ConfirmsOwn(r)
    BY LocalOf DEF WriteConfirmed, Local, ShapeOf, InFlight, CalmInv
  <1>1. PICK t \in RequestState, x \in Request : t = req[r] /\ x = t.account
    BY <1>0, Types DEF Local, ShapeOf
  <1>2. CASE End(r, "NOT_FOUND") /\ rows' = rows
    BY <1>2, CalmEnd DEF Codes
  <1>3. CASE /\ rows[x] # None /\ rows' = [rows EXCEPT ![x].emailVerified = TRUE]
             /\ End(r, "OK")
    <2>1. PICK old \in Row : old = rows[x]
      BY <1>3, Types
    <2>2. /\ rows'[x].email = old.email /\ rows'[x].emailVerified
          /\ \A y \in Request \ {x} : rows'[y] = rows[y]
      BY <1>3, <2>1, Types DEF Row
    <2>3. old.email = t.address
      BY <1>0, <1>1, <1>3, <2>1 DEF ConfirmsOwn
    <2>4. WritesOwn(r)
      BY <1>0, <1>1, <1>3, <2>1, <2>2, <2>3 DEF WritesOwn
    <2>5. OneMail'
      BY <1>3, <2>1, <2>2 DEF CalmInv, OneMail
    <2>6. PICK s \in RequestState : s = Ended(t, "OK")
      BY EndedType DEF Codes
    <2>7. Puts(r, s)
      BY <1>1, <1>3, <2>6 DEF End, Puts
    <2>8. /\ req'[r] = s /\ \A q \in Request \ {r} : req'[q] = req[q]
      BY <2>7, PutsEffect
    <2>9. s.pc = "done" /\ s.code # "CONFLICT" /\ ~s.blind
      BY <1>0, <1>1, <2>6 DEF Ended, Fresh, Record
    <2>10. AddressKept(r) /\ CalmLocal(r)' /\ ConfirmsOwn(r)'
      BY <2>8, <2>9 DEF AddressKept, CalmLocal, ConfirmsOwn, InFlight
    <2>11. CalmInv'
      BY <2>4, <2>5, <2>8, <2>10, CalmStep
    <2> QED BY <2>2, <2>11
  <1> QED BY <1>1, <1>2, <1>3 DEF WriteConfirmed

LEMMA CalmRemove ==
  ASSUME IInv, CalmInv, NEW x \in Request, RemoveUser(x)
  PROVE  /\ CalmInv'
         /\ \A y \in Request : rows'[y] # None => rows'[y] = rows[y]
  <1>1. /\ req' = req
        /\ \A y \in Request : rows'[y] # None => rows[y] # None /\ rows'[y] = rows[y]
    BY Types DEF RemoveUser
  <1>2. OneMail' /\ CalmAlone'
    BY <1>1 DEF CalmInv, OneMail, CalmAlone, InFlight
  <1>3. ASSUME NEW q \in Request PROVE CalmLocal(q)' /\ ConfirmsOwn(q)'
    <2>1. CalmLocal(q) /\ ConfirmsOwn(q) /\ Local(q)
      BY LocalOf DEF CalmInv
    <2> QED BY <1>1, <2>1 DEF CalmLocal, ConfirmsOwn, Local, ShapeOf
  <1> QED BY <1>1, <1>2, <1>3 DEF CalmInv

\* A verified address stays verified in this step.
StaysVerified ==
  \A x \in Request :
    (/\ rows[x] # None /\ rows[x].email \in Calm /\ rows[x].emailVerified
     /\ rows'[x] # None) => rows'[x].emailVerified

LEMMA CalmNext ==
  ASSUME IInv, CalmInv, [Next]_vars
  PROVE  CalmInv' /\ StaysVerified
  <1>1. ASSUME NEW r \in Request,
               \/ VerifyIdToken(r) \/ FindById(r) \/ FindByEmail(r) \/ SignToken(r)
               \/ FindRegistered(r) \/ FindConfirmed(r) \/ Fail(r) \/ Start(r)
        PROVE  CalmInv' /\ StaysVerified
    <2>1. CalmInv'
      BY <1>1, CalmReads, CalmStart
    <2>2. rows' = rows
      BY <1>1 DEF VerifyIdToken, FindById, FindByEmail, SignToken, FindRegistered,
                  FindConfirmed, Fail, Start, SignIn, Register, Confirm, Begin
    <2> QED BY <2>1, <2>2 DEF StaysVerified
  <1>2. ASSUME NEW r \in Request, Update(r) PROVE CalmInv' /\ StaysVerified
    BY <1>2, CalmUpdate DEF StaysVerified
  <1>3. ASSUME NEW r \in Request, Create(r) PROVE CalmInv' /\ StaysVerified
    BY <1>3, CalmCreate DEF StaysVerified
  <1>4. ASSUME NEW r \in Request, WriteConfirmed(r) PROVE CalmInv' /\ StaysVerified
    BY <1>4, CalmConfirm DEF StaysVerified
  <1>5. ASSUME NEW r \in Request, RemoveUser(r) PROVE CalmInv' /\ StaysVerified
    BY <1>5, CalmRemove DEF StaysVerified
  <1>6. ASSUME UNCHANGED vars PROVE CalmInv' /\ StaysVerified
    BY <1>6 DEF vars, StaysVerified, CalmInv, OneMail, CalmAlone, InFlight,
                CalmLocal, ConfirmsOwn
  <1> QED BY <1>1, <1>2, <1>3, <1>4, <1>5, <1>6 DEF Next, Step, AtRest

LEMMA InitCalm == Init => CalmInv
  <1> SUFFICES ASSUME Init PROVE CalmInv
    OBVIOUS
  <1>1. PICK s : s = Idle
    OBVIOUS
  <1>2. s.pc = "idle" /\ s.code = "none" /\ ~s.blind
    BY <1>1 DEF Idle, Fresh, Record
  <1>3. \A r \in Request : rows[r] = None /\ req[r] = s
    BY <1>1 DEF Init
  <1> QED BY <1>2, <1>3 DEF CalmInv, OneMail, CalmAlone, InFlight, CalmLocal, ConfirmsOwn

LEMMA CalmInvariant == Spec => [](IInv /\ CalmInv)
  <1>1. Init => CalmInv
    BY InitCalm
  <1>2. IInv /\ CalmInv /\ [Next]_vars => CalmInv'
    BY CalmNext
  <1>3. Spec => []IInv
    BY IInvInvariant
  <1> QED BY <1>1, <1>2, <1>3, PTL DEF Spec

(***************************************************************************)
(* An address whose requests do not overlap is never told of a conflict,   *)
(* whatever the requests of other addresses do: the unique columns of the  *)
(* users table never refuse a write of googleLogin or appleLogin, and one  *)
(* of register only when its look-up of the address, whose code it does    *)
(* not read, has thrown.                                                   *)
(***************************************************************************)
THEOREM CalmHasNoConflict == Spec => []CalmNeverConflicts
  <1>1. CalmInv => CalmNeverConflicts
    BY DEF CalmInv, CalmLocal, CalmNeverConflicts
  <1> QED BY CalmInvariant, <1>1, PTL

(***************************************************************************)
(* Nor does a sign-in ever take back that such an address was verified.    *)
(***************************************************************************)
THEOREM VerificationKept == Spec => VerifiedStays
  <1>1. IInv /\ CalmInv /\ [Next]_vars => StaysVerified
    BY CalmNext
  <1>2. Spec => [][StaysVerified]_vars
    BY CalmInvariant, <1>1, PTL DEF Spec
  <1> QED BY <1>2 DEF VerifiedStays, StaysVerified
=============================================================================
