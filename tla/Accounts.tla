------------------------------ MODULE Accounts ------------------------------
(***************************************************************************)
(* What the user administration promises while the system is up: a table   *)
(* of accounts with one session, where only an administrator changes the   *)
(* accounts (anyone may change the own password), nobody removes the       *)
(* account of the session, and the last administrator stays.  How accounts *)
(* reach the disk is no part of it; Users.tla is shown to implement this   *)
(* module.                                                                 *)
(***************************************************************************)
CONSTANTS Names, Passes, NoUser

Roles == {"user", "admin"}
Account == [pass : Passes, role : Roles]

VARIABLES up,        \* is there a table to log in to?
          accounts,  \* the account of each known name
          session    \* who is logged in, or NoUser

vars == <<up, accounts, session>>

Empty == [n \in {} |-> n]
Known == DOMAIN accounts
Admins(a) == {n \in DOMAIN a : a[n].role = "admin"}

Init == up = FALSE /\ accounts = Empty /\ session = NoUser

Start == /\ ~up /\ up' = TRUE /\ session' = NoUser
         /\ \E S \in SUBSET Names : accounts' \in [S -> Account]
Stop  == up' = FALSE /\ accounts' = Empty /\ session' = NoUser

Login(n) == /\ up /\ session = NoUser /\ n \in Known
            /\ session' = n
            /\ UNCHANGED <<up, accounts>>

Administer == up /\ session \in Admins(accounts) /\ UNCHANGED <<up, session>>

Create(n) == /\ Administer /\ n \notin Known
             /\ \E e \in Account :
                  accounts' = [m \in Known \cup {n} |-> IF m = n THEN e ELSE accounts[m]]
Delete(n) == /\ Administer /\ n \in Known \ {session}
             /\ accounts' = [m \in Known \ {n} |-> accounts[m]]
SetRole(n) == /\ Administer /\ n \in Known
              /\ \E r \in Roles : accounts' = [accounts EXCEPT ![n].role = r]
              /\ Admins(accounts') # {}
Passwd == /\ up /\ session \in Known
          /\ \E p \in Passes : accounts' = [accounts EXCEPT ![session].pass = p]
          /\ UNCHANGED <<up, session>>

Next == Start \/ Stop \/ Passwd \/ \E n \in Names : Login(n) \/ Create(n) \/ Delete(n) \/ SetRole(n)

Spec == Init /\ [][Next]_vars
=============================================================================
