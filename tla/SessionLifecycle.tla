-------------------------- MODULE SessionLifecycle --------------------------
(***************************************************************************)
(* What the session table promises to the rest of the program, with the    *)
(* services, the requests and the tokens left out: a session is opened     *)
(* once, for one user, and is ACTIVE from then on; it is closed at most    *)
(* once, for good; and it disappears only with its user.                   *)
(***************************************************************************)
CONSTANTS Session, User,
          None        \* no user

VARIABLES
    status,     \* what each session is now
    owner       \* the user each session was opened for

lifeVars == <<status, owner>>

LifeStatus == {"unborn", "ACTIVE", "LOGGED_OUT", "EXPIRED", "deleted"}

LifeTypeOK == /\ status \in [Session -> LifeStatus]
              /\ owner \in [Session -> User \cup {None}]

LifeInit == /\ status = [s \in Session |-> "unborn"]
            /\ owner = [s \in Session |-> None]

Open(s, u) == /\ status[s] = "unborn"
              /\ status' = [status EXCEPT ![s] = "ACTIVE"]
              /\ owner' = [owner EXCEPT ![s] = u]

\* Once out of ACTIVE a session may not change its status any more.
Close(s) == /\ status[s] = "ACTIVE"
            /\ \E c \in {"LOGGED_OUT", "EXPIRED"} :
                 status' = [status EXCEPT ![s] = c]
            /\ UNCHANGED owner

Forget(u) == /\ status' = [s \in Session |->
                             IF owner[s] = u THEN "deleted" ELSE status[s]]
             /\ UNCHANGED owner

LifeNext == \/ \E s \in Session : \/ \E u \in User : Open(s, u)
                                  \/ Close(s)
            \/ \E u \in User : Forget(u)

LifeSpec == LifeInit /\ [][LifeNext]_lifeVars
=============================================================================
