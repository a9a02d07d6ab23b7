------------------------------ MODULE MCUsers ------------------------------
(* Users.tla on two or three names, one or two passwords and a table of two. *)
EXTENDS Users

L(n, p, r) == [name |-> n, pass |-> p, role |-> r]

MCNames2 == {"root", "bob"}
MCNames3 == {"root", "bob", "eve"}
MCPass == {"root", "pw"}

\* No card; one account; two with the administrator second; a malformed line
\* between.
MCInitialCards == {NoCard, <<L("root", "pw", "admin")>>,
                   <<L("bob", "pw", "user"), L("root", "pw", "admin")>>,
                   <<L("bob", "pw", "admin"), L("root", "root", "junk"), L("root", "pw", "user")>>}
MCEditedCards == {NoCard, <<L("bob", "root", "admin"), L("root", "root", "user")>>}
MCNoEdits == {}
=============================================================================
