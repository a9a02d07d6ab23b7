------------------------------- MODULE Users -------------------------------
(***************************************************************************)
(* The user administration of kmain.c: the table users[], the session, the *)
(* commands that change accounts, and the file /user.card they are read    *)
(* from at boot and rewritten to after every change.                       *)
(*                                                                         *)
(* A line of the card is a record; whether it parses is what matters.  The *)
(* save is split where it touches the disk (f_open, each f_write, f_close) *)
(* because power may fail, the disk may be full, or a sector may not be    *)
(* readable or writable in between.                                        *)
(***************************************************************************)
EXTENDS Naturals, Sequences, FiniteSets

CONSTANTS Names, Passes,  \* the names and passwords that are used
          Colon,          \* those of them with a ':' in them
          MaxUsers,       \* MAX_USERS (32)
          RootName, RootPass, \* the built-in account (root, root)
          NoUser,         \* nobody is logged in
          NoCard,         \* there is no file /user.card
          InitialCards,   \* what the card may hold before the first boot
          EditedCards,    \* what the shell's file commands may leave on it
          LongNames,      \* is FatFs built to accept the name "user.card"?
          Faults          \* what may go wrong with the disk, see FaultKinds

Roles == {"user", "admin"}
Entry == [name : Names, pass : Passes, role : Roles]
Line  == [name : Names, pass : Passes, role : Roles \cup {"junk"}]
Card  == Seq(Line) \cup {NoCard}
FaultKinds == {"mount", "read", "write", "full"}
Root  == [name |-> RootName, pass |-> RootPass, role |-> "admin"]

ASSUME UsersAssumption == /\ MaxUsers \in Nat \ {0}
                          /\ RootName \in Names /\ RootPass \in Passes
                          /\ NoUser \notin Names
                          /\ NoCard \notin Seq(Line)
                          /\ InitialCards \subseteq Card /\ EditedCards \subseteq Card
                          /\ LongNames \in BOOLEAN /\ Faults \subseteq FaultKinds

VARIABLES users,             \* users[0 .. user_count - 1]
          current_user,
          current_is_admin,
          fs_mounted,
          card,              \* what the disk holds of /user.card
          pc,                \* where the kernel is
          attempt,           \* authenticate's attempt
          pos,               \* the line parse_user_card or save_user_card is at
          kept,              \* how many lines of the save reached the file
          adminLost          \* history: has a fault of the disk, or a ':', cost
                             \* an administrator his line of the card?

session == <<current_user, current_is_admin>>
vars == <<users, session, fs_mounted, card, pc, attempt, pos, kept, adminLost>>

Init == /\ users = <<>> /\ current_user = NoUser /\ current_is_admin = FALSE
        /\ fs_mounted = FALSE /\ card \in InitialCards
        /\ pc = "boot" /\ attempt = 0 /\ pos = 0 /\ kept = 0 /\ adminLost = FALSE
-----------------------------------------------------------------------------
Index == 1 .. Len(users)
Found(name) == {i \in Index : users[i].name = name}
First(S) == CHOOSE i \in S : \A j \in S : i <= j
find_user(name) == First(Found(name))
HasRoom_bug == TRUE
HasRoom == Len(users) < MaxUsers
admin_count == Cardinality({i \in Index : users[i].role = "admin"})

\* process_user_line: a line with a further ':' has a role that is none.
Valid(l) == l.role \in Roles /\ l.name \notin Colon /\ l.pass \notin Colon
process_user_line(l) == IF HasRoom /\ Valid(l) THEN Append(users, l) ELSE users

\* f_open of "/user.card": without long names the extension is too long for
\* FatFs (FR_INVALID_NAME), without a mounted volume the drive is not enabled.
NameOpens == LongNames /\ fs_mounted'

\* Of the lines of t at the places S, which are lost, one is an administrator's.
LosesAdmin(t, S) == adminLost' = (adminLost \/ \E i \in S : t[i].role = "admin")
-----------------------------------------------------------------------------
(* Boot: mount the volume, read the card, fall back to the built-in account *)

WithFallback(table) == IF table = <<>> THEN <<Root>> ELSE table

StartLogin(table) == /\ users' = WithFallback(table)
                     /\ pc' = "login" /\ attempt' = 1
                     /\ pos' = 0

mount_at_boot ==
    /\ pc = "boot" /\ fs_mounted' = TRUE
    /\ IF NameOpens /\ card # NoCard
       THEN users' = <<>> /\ pc' = "parse" /\ pos' = 1 /\ UNCHANGED attempt
       ELSE StartLogin(<<>>)
    /\ UNCHANGED <<session, card, kept, adminLost>>

boot_fails == /\ pc = "boot" /\ "mount" \in Faults /\ pc' = "halted"
              /\ UNCHANGED <<users, session, fs_mounted, card, attempt, pos, kept, adminLost>>

parse_line == /\ pc = "parse" /\ pos <= Len(card)
              /\ users' = process_user_line(card[pos])
              /\ pos' = pos + 1
              /\ UNCHANGED <<session, fs_mounted, card, pc, attempt, kept, adminLost>>

\* A read error ends the loop exactly as the end of the file does.
parse_end == /\ pc = "parse" /\ (pos > Len(card) \/ "read" \in Faults)
             /\ StartLogin(users)
             /\ LosesAdmin(card, pos .. Len(card))
             /\ UNCHANGED <<session, fs_mounted, card, kept>>
-----------------------------------------------------------------------------
authenticate(name, pass) ==
    LET S == {i \in Found(name) : users[i].pass = pass} IN
    /\ pc = "login"
    /\ IF S # {}
       THEN /\ current_user' = name
            /\ current_is_admin' = (users[First(S)].role = "admin")
            /\ pc' = "shell" /\ UNCHANGED attempt
       ELSE /\ UNCHANGED session
            /\ IF attempt < 3 THEN attempt' = attempt + 1 /\ UNCHANGED pc
                              ELSE pc' = "halted" /\ UNCHANGED attempt
    /\ UNCHANGED <<users, fs_mounted, card, pos, kept, adminLost>>
-----------------------------------------------------------------------------
(* The commands; each ends in save_user_card *)

Command == /\ pc = "shell" /\ pc' = "save"
           /\ UNCHANGED <<current_user, fs_mounted, card, attempt, pos, kept, adminLost>>

createuser(name, pass, role) ==
    /\ Command /\ current_is_admin
    /\ Found(name) = {} /\ HasRoom
    /\ users' = Append(users, [name |-> name, pass |-> pass, role |-> role])
    /\ UNCHANGED current_is_admin

Deletable_bug(name) == Found(name) # {}
Deletable(name) == name # current_user /\ Found(name) # {}
NotLastAdmin_bug(name) == TRUE
NotLastAdmin(name) == users[find_user(name)].role = "admin" => admin_count > 1

deluser(name) ==
    /\ Command /\ current_is_admin
    /\ Deletable(name) /\ NotLastAdmin(name)
    /\ users' = [i \in 1 .. Len(users) - 1 |-> users[IF i < find_user(name) THEN i ELSE i + 1]]
    /\ UNCHANGED current_is_admin

\* setrole on the own account refreshes the cached role.
AdminAfter_bug(name, role) == current_is_admin
AdminAfter(name, role) == IF name = current_user THEN role = "admin" ELSE current_is_admin

setrole(name, role) ==
    /\ Command /\ current_is_admin
    /\ Found(name) # {} /\ users[find_user(name)].role # role
    /\ role = "user" => NotLastAdmin(name)
    /\ users' = [users EXCEPT ![find_user(name)].role = role]
    /\ current_is_admin' = AdminAfter(name, role)

passwd(pass) ==
    /\ Command /\ Found(current_user) # {}
    /\ users' = [users EXCEPT ![find_user(current_user)].pass = pass]
    /\ UNCHANGED current_is_admin

cmd_mount == /\ pc = "shell" /\ fs_mounted' = ~fs_mounted
             /\ UNCHANGED <<users, session, card, pc, attempt, pos, kept, adminLost>>

\* The shell's file commands (rm, write, cp, mv) work on /user.card as on any file.
edit_card == /\ pc = "shell" /\ fs_mounted /\ LongNames
             /\ card' \in EditedCards
             /\ UNCHANGED <<users, session, fs_mounted, pc, attempt, pos, kept, adminLost>>
-----------------------------------------------------------------------------
(* save_user_card *)

EndSave == pc' = "shell" /\ pos' = 0 /\ kept' = 0

OpenMayFail == ~NameOpens \/ "write" \in Faults \/ ("full" \in Faults /\ card = NoCard)

\* FA_CREATE_ALWAYS truncates the file at once: its old clusters are freed and
\* its size is 0 on the disk before the first line is written.
save_open == /\ pc = "save"
             /\ UNCHANGED <<users, session, fs_mounted, attempt, adminLost>>
             /\ \/ NameOpens /\ card' = <<>> /\ pc' = "write" /\ pos' = 1 /\ kept' = 0
                \/ /\ OpenMayFail
                   /\ EndSave
                   /\ card' = card \/ (NameOpens /\ card # NoCard /\ card' = <<>>)

Write == pc = "write" /\ UNCHANGED <<users, session, fs_mounted, attempt>>
MoreLines == pos <= Len(users)

\* f_write on a full disk stores nothing more and still returns FR_OK; the
\* byte count it returns is not looked at.
save_line == /\ Write /\ MoreLines
             /\ pos' = pos + 1
             /\ \/ kept' = IF kept = pos - 1 THEN pos ELSE kept
                \/ "full" \in Faults /\ kept' = kept
             /\ LosesAdmin(users, IF kept' = pos /\ Valid(users[pos]) THEN {} ELSE {pos})
             /\ UNCHANGED <<card, pc>>

\* The file's size reaches the directory entry only in f_close, whose result
\* is not looked at.
Stored == card' = SubSeq(users, 1, kept) \/ ("write" \in Faults /\ card' = card)
save_error == /\ Write /\ MoreLines /\ "write" \in Faults
              /\ Stored /\ EndSave
              /\ LosesAdmin(users, pos .. Len(users))
save_close == Write /\ ~MoreLines /\ Stored /\ EndSave /\ UNCHANGED adminLost
-----------------------------------------------------------------------------
\* Power fails, or the user resets the machine: only the disk survives.
power_cycle == /\ pc # "boot"
               /\ users' = <<>> /\ current_user' = NoUser /\ current_is_admin' = FALSE
               /\ fs_mounted' = FALSE /\ UNCHANGED card
               /\ pc' = "boot" /\ attempt' = 0 /\ pos' = 0 /\ kept' = 0
               /\ UNCHANGED adminLost

Save == save_open \/ save_line \/ save_error \/ save_close
Boot == mount_at_boot \/ boot_fails \/ parse_line \/ parse_end
Shell == \/ \E n \in Names, p \in Passes, r \in Roles : createuser(n, p, r)
         \/ \E n \in Names : deluser(n)
         \/ \E n \in Names, r \in Roles : setrole(n, r)
         \/ \E p \in Passes : passwd(p)
         \/ cmd_mount \/ edit_card

Next == \/ Boot \/ Shell \/ Save \/ power_cycle
        \/ \E n \in Names, p \in Passes : authenticate(n, p)

Spec == Init /\ [][Next]_vars
-----------------------------------------------------------------------------
(* Properties *)

TypeOK == /\ users \in Seq(Entry) /\ Len(users) <= MaxUsers
          /\ current_user \in Names \cup {NoUser} /\ current_is_admin \in BOOLEAN
          /\ fs_mounted \in BOOLEAN /\ card \in Card
          /\ pc \in {"boot", "parse", "login", "shell", "save", "write", "halted"}
          /\ attempt \in 0 .. 3 /\ pos \in Nat /\ kept \in 0 .. Len(users)
          /\ adminLost \in BOOLEAN

LoggedIn == pc \in {"shell", "save", "write"}
Up == pc = "login" \/ LoggedIn
HasAdmin(table) == \E i \in DOMAIN table : table[i].role = "admin"

\* The session's account exists, and the cached current_is_admin says of it
\* what the table says, through every createuser, deluser and setrole.
SessionMatchesTable ==
    LoggedIn => /\ Found(current_user) # {}
                /\ current_is_admin = (users[find_user(current_user)].role = "admin")

\* There is an administrator whenever one can log in: no sequence of commands,
\* power cuts in the middle of a save, failed saves and reboots ends without
\* one, unless the disk, or a ':', has cost an administrator his line
\* ("last-admin protection").
AdminRemains == Up /\ ~adminLost => HasAdmin(users)

\* The built-in account replaces the card's accounts only when the card has
\* none ("if user.card is missing, the kernel falls back to root:root:admin").
FallbackOnlyWithoutCard ==
    [][ (pc' = "login" /\ pc # "login" /\ card # NoCard
         /\ \E i \in DOMAIN card : Valid(card[i]))
        => \A i \in DOMAIN users' : \E j \in DOMAIN card : users'[i] = card[j] ]_vars

\* While it is up, the system implements Accounts: accounts change only through
\* an administrator's commands or the own passwd, and the last administrator
\* stays, whatever the disk does.
AccountOf(n) == LET e == users[find_user(n)] IN [pass |-> e.pass, role |-> e.role]
A == INSTANCE Accounts WITH
        up       <- Up,
        accounts <- [n \in {m \in Names : Up /\ Found(m) # {}} |-> AccountOf(n)],
        session  <- current_user
ImplementsAccounts == A!Spec
=============================================================================
