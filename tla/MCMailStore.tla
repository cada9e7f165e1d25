---------------------------- MODULE MCMailStore -----------------------------
(* Instances of MailStore for TLC: the administrator lists everything, or    *)
(* what has a tag, and a user lists what is his.                             *)
EXTENDS MailStore, TLC

CONSTANTS o1, t1

MCFilters ==
    {[owner |-> All, tag |-> AnyTag], [owner |-> All, tag |-> t1], [owner |-> o1, tag |-> AnyTag]}

MCOld == {[id |-> 1, serial |-> 1, at |-> 1, owner |-> o1, tags |-> {t1}]}
=============================================================================
