--------------------------- MODULE MailboxDirectory ---------------------------
(***************************************************************************)
(* What the administration API (src/internal/api/service.go) promises of   *)
(* the mailboxes as a whole: one is registered, changed or removed in one  *)
(* step, and its login and its recipients are free at that very step.  No  *)
(* id is given out twice.                                                  *)
(*                                                                         *)
(* MailboxAdmin.tla is the code's version, which reads one mailbox after   *)
(* the other and saves when it has seen no conflict.                       *)
(***************************************************************************)
EXTENDS Naturals

CONSTANTS
    Admin, MaxUser,
    Login, Claim,   \* what a mailbox may be called and may claim
    Reserved,       \* the administrator's login
    Nothing,        \* the claim of a mailbox without settings
    Overlap(_, _)   \* whether two claims meet

VARIABLES
    box,            \* login and claim of each mailbox there is
    last            \* the last id given out

directoryVars == <<box, last>>

DirectoryInit ==
    /\ box = [o \in {Admin} |-> [login |-> Reserved, claim |-> Nothing]]
    /\ last = 0

\* All mailboxes but this one stay as they are.
Only(o) ==
    /\ DOMAIN box' \ {o} = DOMAIN box \ {o}
    /\ box' = [p \in DOMAIN box' |-> IF p = o THEN box'[o] ELSE box[p]]

\* Nobody else has its login, or a claim that meets its own.
Fits(o) ==
    \A p \in DOMAIN box \ {o} :
        box[p].login # box[o].login /\ ~Overlap(box[o].claim, box[p].claim)

Register(u) ==
    /\ u = last + 1 /\ last' = u
    /\ u \in DOMAIN box' /\ box'[u] \in [login : Login, claim : Claim]
    /\ Only(u) /\ Fits(u)'

\* Its login, its claim, or both.  The administrator's login stays.
Change(o) ==
    /\ o \in DOMAIN box /\ UNCHANGED last
    /\ o \in DOMAIN box' /\ box'[o].claim \in Claim
    /\ box'[o].login \in IF o = Admin THEN {Reserved} ELSE Login
    /\ Only(o) /\ Fits(o)'

Remove(u) ==
    /\ u \in DOMAIN box \ {Admin} /\ UNCHANGED last
    /\ u \notin DOMAIN box'
    /\ Only(u)

\* Saving what is there already is no step.
DirectoryNext ==
    /\ box' # box
    /\ \/ \E u \in 1..MaxUser : Register(u)
       \/ \E o \in DOMAIN box : Change(o) \/ Remove(o)

DirectorySpec == DirectoryInit /\ [][DirectoryNext]_directoryVars
----------------------------------------------------------------------------
(* No two mailboxes have one login or claims that meet.                     *)
Apart == \A o \in DOMAIN box : Fits(o)
=============================================================================
