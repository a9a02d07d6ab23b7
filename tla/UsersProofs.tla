---------------------------- MODULE UsersProofs ----------------------------
(***************************************************************************)
(* Theorems about Users.tla, for every set of names and passwords, every   *)
(* table size, every fault and both configurations of FatFs.               *)
(***************************************************************************)
EXTENDS Users, FiniteSetTheorems, TLAPS

\* No two lines of a card that parse have the same name: true of every card
\* the kernel writes, assumed of the cards it is given.
UniqueLines(c) == c = NoCard \/ \A i, j \in DOMAIN c :
                      (Valid(c[i]) /\ Valid(c[j]) /\ c[i].name = c[j].name) => i = j
CardsAreUnique == \A c \in InitialCards \cup EditedCards : UniqueLines(c)

UniqueNames == \A i, j \in Index : users[i].name = users[j].name => i = j

SessionIs(i) == users[i].name = current_user /\ (current_is_admin <=> users[i].role = "admin")

\* What makes the session invariant inductive: names are unique in the table
\* and on the card, and while the card is parsed the table holds lines
\* already read.
UsersInv == /\ UniqueNames /\ UniqueLines(card)
            /\ pc = "parse" => \A i \in Index : \E j \in 1 .. pos - 1 :
                                  j <= Len(card) /\ users[i] = card[j] /\ Valid(card[j])
            /\ ~LoggedIn => current_user = NoUser
            /\ LoggedIn => \E i \in Index : SessionIs(i)

-----------------------------------------------------------------------------
\* With unique names find_user returns the one index of the name, so that the
\* first match and any match are the same entry.
LEMMA FindUser ==
  ASSUME UniqueNames, NEW i \in Index
  PROVE  Found(users[i].name) = {i} /\ find_user(users[i].name) = i
<1>1. Found(users[i].name) = {i}
  BY DEF UniqueNames, Found
<1>2. First({i}) = i
  BY DEF First, Index
<1> QED
  BY <1>1, <1>2 DEF find_user

\* find_user of a name that occurs is an index of the table with that name.
LEMMA FoundIndex ==
  ASSUME UniqueNames, NEW n, Found(n) # {}
  PROVE  /\ find_user(n) \in Index /\ users[find_user(n)].name = n
         /\ Found(n) = {find_user(n)}
<1>1. PICK i \in Index : users[i].name = n
  BY DEF Found
<1> QED
  BY <1>1, FindUser

\* One step of parsing adds at most one entry, and only while there is room.
LEMMA ParseStep ==
  ASSUME TypeOK, NEW l \in Line, users' = process_user_line(l)
  PROVE  /\ users' \in Seq(Entry) /\ Len(users') <= MaxUsers
         /\ \/ users' = users
            \/ Valid(l) /\ users' = Append(users, l)
<1>1. Valid(l) => l \in Entry
  BY DEF Valid, Line, Entry
<1>2. CASE users' = users
  BY <1>2 DEF TypeOK
<1>3. CASE Len(users) < MaxUsers /\ Valid(l) /\ users' = Append(users, l)
  BY <1>1, <1>3, UsersAssumption DEF TypeOK
<1> QED
  BY <1>2, <1>3 DEF process_user_line, HasRoom

\* Changing one entry of a table leaves a table of the same length.
LEMMA ExceptType ==
  ASSUME NEW t \in Seq(Entry), NEW i, NEW e,
         i \in 1 .. Len(t) => e \in Entry
  PROVE  [t EXCEPT ![i] = e] \in Seq(Entry) /\ Len([t EXCEPT ![i] = e]) = Len(t)
<1>1. CASE i \in 1 .. Len(t)
  BY <1>1
<1>2. CASE i \notin 1 .. Len(t)
  <2>1. [t EXCEPT ![i] = e] = t
    BY <1>2
  <2> QED
    BY <2>1
<1> QED
  BY <1>1, <1>2

\* Type correctness, with the bookkeeping of the save: outside a save no line
\* of it is counted.
TypeInv == /\ TypeOK /\ (pc # "write" => kept = 0) /\ (pc = "parse" => card # NoCard)
           /\ (pc \in {"parse", "write"} => pos > 0)

LEMMA TypeInductive == Spec => []TypeInv
<1>1. Init => TypeInv
  <2> SUFFICES ASSUME Init PROVE TypeInv
    OBVIOUS
  <2>1. users \in Seq(Entry) /\ Len(users) <= MaxUsers /\ kept \in 0 .. Len(users)
    BY UsersAssumption DEF Init
  <2>2. card \in Card /\ current_user \in Names \cup {NoUser} /\ current_is_admin \in BOOLEAN
    BY UsersAssumption DEF Init
  <2>3. attempt \in 0 .. 3 /\ pos \in Nat
    BY DEF Init
  <2>5. fs_mounted \in BOOLEAN
    BY DEF Init
  <2>4. pc = "boot" /\ kept = 0 /\ adminLost = FALSE
    BY DEF Init
  <2> QED
    BY <2>1, <2>2, <2>3, <2>4, <2>5 DEF TypeInv, TypeOK
<1>2. TypeInv /\ [Next]_vars => TypeInv'
  <2> SUFFICES ASSUME TypeInv, [Next]_vars PROVE TypeInv'
    OBVIOUS
  <2> USE DEF TypeInv, TypeOK, session
  <2>0. Root \in Entry
    BY UsersAssumption DEF Root, Entry, Roles
  <2>1. ASSUME NEW t \in Seq(Entry), Len(t) <= MaxUsers
        PROVE  WithFallback(t) \in Seq(Entry) /\ Len(WithFallback(t)) <= MaxUsers
    BY <2>0, <2>1, UsersAssumption DEF WithFallback
  <2>2. CASE mount_at_boot
    <3>1. CASE NameOpens /\ card # NoCard
      BY <2>2, <3>1, UsersAssumption DEF mount_at_boot
    <3>2. CASE ~(NameOpens /\ card # NoCard)
      <4>1. StartLogin(<<>>)
        BY <2>2, <3>2 DEF mount_at_boot
      <4>2. users' \in Seq(Entry) /\ Len(users') <= MaxUsers
        <5>1. <<>> \in Seq(Entry) /\ Len(<<>>) <= MaxUsers
          BY UsersAssumption
        <5> QED
          BY <4>1, <5>1, <2>1 DEF StartLogin
      <4> QED
        BY <2>2, <4>1, <4>2 DEF mount_at_boot, StartLogin
    <3> QED
      BY <3>1, <3>2
  <2>3. CASE boot_fails
    BY <2>3 DEF boot_fails
  <2>4. CASE parse_line
    <3>1. card[pos] \in Line
      BY <2>4 DEF parse_line, Card
    <3>2. users' \in Seq(Entry) /\ Len(users') <= MaxUsers
      BY <2>4, <3>1, ParseStep DEF parse_line
    <3> QED
      BY <2>4, <3>2 DEF parse_line
  <2>5. CASE parse_end
    BY <2>5, <2>1 DEF parse_end, StartLogin, LosesAdmin
  <2>6. ASSUME NEW n \in Names, NEW p \in Passes, authenticate(n, p)
        PROVE  TypeInv'
    <3>1. current_is_admin' \in BOOLEAN
      BY <2>6 DEF authenticate
    <3>2. current_user' \in Names \cup {NoUser} /\ attempt' \in 0 .. 3
      BY <2>6 DEF authenticate
    <3> QED
      BY <2>6, <3>1, <3>2 DEF authenticate
  <2>7. ASSUME NEW n \in Names, NEW p \in Passes, NEW r \in Roles, createuser(n, p, r)
        PROVE  TypeInv'
    <3>1. [name |-> n, pass |-> p, role |-> r] \in Entry
      BY DEF Entry
    <3> QED
      BY <2>7, <3>1, UsersAssumption DEF createuser, Command, HasRoom
  <2>8. ASSUME NEW n \in Names, deluser(n)
        PROVE  TypeInv'
    <3>1. Len(users) > 0
      BY <2>8 DEF deluser, Deletable, Found, Index
    <3>2. \A i \in 1 .. Len(users) - 1 : users[IF i < find_user(n) THEN i ELSE i + 1] \in Entry
      OBVIOUS
    <3>3. users' \in Seq(Entry) /\ Len(users') = Len(users) - 1
      BY <2>8, <3>1, <3>2 DEF deluser
    <3> QED
      BY <2>8, <3>1, <3>3, UsersAssumption DEF deluser, Command
  <2>9. ASSUME NEW n \in Names, NEW r \in Roles, setrole(n, r)
        PROVE  TypeInv'
    <3>1. users' \in Seq(Entry) /\ Len(users') = Len(users)
      <4>1. ASSUME NEW e \in Entry PROVE [e EXCEPT !.role = r] \in Entry
        BY DEF Entry
      <4> DEFINE x == find_user(n)
                 e == [users[x] EXCEPT !.role = r]
      <4>2. users' = [users EXCEPT ![x] = e]
        BY <2>9 DEF setrole
      <4>3. x \in 1 .. Len(users) => e \in Entry
        BY <4>1
      <4> HIDE DEF x, e
      <4> QED
        BY <4>2, <4>3, ExceptType
    <3>2. current_is_admin' \in BOOLEAN
      BY <2>9 DEF setrole, AdminAfter
    <3> QED
      BY <2>9, <3>1, <3>2 DEF setrole, Command
  <2>10. ASSUME NEW p \in Passes, passwd(p)
         PROVE  TypeInv'
    <3>1. users' \in Seq(Entry) /\ Len(users') = Len(users)
      <4>1. ASSUME NEW e \in Entry PROVE [e EXCEPT !.pass = p] \in Entry
        BY DEF Entry
      <4> DEFINE x == find_user(current_user)
                 e == [users[x] EXCEPT !.pass = p]
      <4>2. users' = [users EXCEPT ![x] = e]
        BY <2>10 DEF passwd
      <4>3. x \in 1 .. Len(users) => e \in Entry
        BY <4>1
      <4> HIDE DEF x, e
      <4> QED
        BY <4>2, <4>3, ExceptType
    <3> QED
      BY <2>10, <3>1 DEF passwd, Command
  <2>11. CASE cmd_mount
    BY <2>11 DEF cmd_mount
  <2>12. CASE edit_card
    BY <2>12, UsersAssumption DEF edit_card
  <2>13. users \in Seq(Line) /\ <<>> \in Card
    <3>1. Entry \subseteq Line
      BY DEF Entry, Line
    <3> QED
      BY <3>1 DEF Card
  <2>14. ASSUME NEW k \in 0 .. Len(users) PROVE SubSeq(users, 1, k) \in Card
    BY <2>13, <2>14 DEF Card
  <2>15. CASE save_open
    BY <2>15, <2>13 DEF save_open, EndSave
  <2>16. CASE save_line
    BY <2>16 DEF save_line, Write, MoreLines, LosesAdmin
  <2>17. CASE save_error \/ save_close
    <3>1. card' \in Card
      BY <2>17, <2>14 DEF save_error, save_close, Stored
    <3>2. adminLost' \in BOOLEAN
      BY <2>17 DEF save_error, save_close, LosesAdmin
    <3>3. UNCHANGED <<users, session, fs_mounted, attempt>> /\ EndSave
      BY <2>17 DEF save_error, save_close, Write
    <3> QED
      BY <3>1, <3>2, <3>3 DEF EndSave
  <2>18. CASE power_cycle
    <3>1. users' \in Seq(Entry) /\ Len(users') <= MaxUsers /\ kept' \in 0 .. Len(users')
      BY <2>18, UsersAssumption DEF power_cycle
    <3>2. card' \in Card /\ current_user' \in Names \cup {NoUser} /\ current_is_admin' \in BOOLEAN
      BY <2>18 DEF power_cycle
    <3>3. attempt' \in 0 .. 3 /\ pos' \in Nat
      BY <2>18 DEF power_cycle
    <3>5. fs_mounted' \in BOOLEAN
      BY <2>18 DEF power_cycle
    <3>4. pc' = "boot" /\ kept' = 0 /\ adminLost' = adminLost
      BY <2>18 DEF power_cycle
    <3> QED
      BY <3>1, <3>2, <3>3, <3>4, <3>5
  <2>19. CASE UNCHANGED vars
    BY <2>19 DEF vars
  <2> QED
    BY <2>2, <2>3, <2>4, <2>5, <2>6, <2>7, <2>8, <2>9, <2>10, <2>11, <2>12, <2>15, <2>16, <2>17,
       <2>18, <2>19 DEF Next, Boot, Shell, Save
<1> QED
  BY <1>1, <1>2, PTL DEF Spec

\* The table never holds more than MAX_USERS entries nor an entry without a
\* role, and a save never counts more lines than there are accounts.
THEOREM UsersTypeCorrect == Spec => []TypeOK
<1>1. TypeInv => TypeOK
  BY DEF TypeInv
<1> QED
  BY <1>1, TypeInductive, PTL

-----------------------------------------------------------------------------
(* The session *)

\* A step that keeps the table keeps its names unique.
LEMMA SameTable ==
  ASSUME UniqueNames, users' = users
  PROVE  UniqueNames'
BY DEF UniqueNames, Index

\* Reading one more line keeps names unique, because lines are.
LEMMA ParseKeepsUnique ==
  ASSUME TypeInv, UsersInv, parse_line
  PROVE  UsersInv'
<1>1. card[pos] \in Line /\ pos > 0 /\ pos <= Len(card) /\ card # NoCard /\ card \in Seq(Line)
  BY DEF parse_line, TypeInv, TypeOK, Card
<1>2. users' = users \/ (Valid(card[pos]) /\ users' = Append(users, card[pos]))
  BY DEF parse_line, process_user_line
<1>3. pc = "parse" /\ pc' = "parse" /\ pos' = pos + 1 /\ card' = card /\ current_user' = current_user
  BY DEF parse_line, session
<1>4. CASE users' = users
  BY <1>1, <1>3, <1>4, SameTable DEF UsersInv, Index, TypeInv, TypeOK, LoggedIn, UniqueLines, Valid
<1>5. CASE Valid(card[pos]) /\ users' = Append(users, card[pos])
  <2>1. Len(users') = Len(users) + 1 /\ \A i \in Index : users'[i] = users[i]
    BY <1>5, <1>1 DEF TypeInv, TypeOK, Index
  <2>2. users'[Len(users) + 1] = card[pos]
    BY <1>5, <1>1 DEF TypeInv, TypeOK
  <2>3. \A i \in Index : users[i].name # card[pos].name
    <3>1. \A i \in Index : \E j \in 1 .. pos - 1 : j <= Len(card) /\ users[i] = card[j] /\ Valid(card[j])
      BY <1>3 DEF UsersInv
    <3>2. pos \in DOMAIN card /\ \A j \in 1 .. pos - 1 : j <= Len(card) => j \in DOMAIN card /\ j # pos
      BY <1>1 DEF TypeInv, TypeOK
    <3> QED
      BY <1>1, <1>5, <3>1, <3>2 DEF UsersInv, UniqueLines
  <2>4. UniqueNames'
    BY <2>1, <2>2, <2>3 DEF UniqueNames, UsersInv, Index, TypeInv, TypeOK
  <2>5. \A i \in Index' : \E j \in 1 .. pos' - 1 :
           j <= Len(card) /\ users'[i] = card[j] /\ Valid(card[j])
    BY <2>1, <2>2, <1>1, <1>3, <1>5 DEF UsersInv, Index, TypeInv, TypeOK
  <2> QED
    BY <1>3, <2>4, <2>5 DEF UsersInv, LoggedIn, UniqueLines, Valid
<1> QED
  BY <1>2, <1>4, <1>5

\* A login takes the role of the one entry with that name.
LEMMA LoginMatches ==
  ASSUME TypeInv, UsersInv, NEW n \in Names, NEW p \in Passes, authenticate(n, p)
  PROVE  UsersInv'
<1> DEFINE S == {i \in Found(n) : users[i].pass = p}
<1>1. UniqueNames' /\ UniqueLines(card)' /\ pc' # "parse"
  BY SameTable DEF authenticate, UsersInv, UniqueLines, Valid
<1>2. CASE S = {}
  BY <1>1, <1>2 DEF authenticate, UsersInv, LoggedIn, session
<1>3. CASE S # {}
  <2>1. PICK i \in Index : users[i].name = n /\ users[i].pass = p
    BY <1>3 DEF Found
  <2>2. S = {i}
    BY <2>1, FindUser DEF UsersInv
  <2>3. First(S) = i
    BY <2>2 DEF First, Index
  <2>4. current_user' = n /\ pc' = "shell" /\ users' = users
    BY <1>3 DEF authenticate
  <2>5. current_is_admin' = (users[First(S)].role = "admin")
    BY <1>3 DEF authenticate
  <2> HIDE DEF S
  <2> QED
    BY <1>1, <2>1, <2>3, <2>4, <2>5 DEF UsersInv, LoggedIn, Index, SessionIs
<1> QED
  BY <1>2, <1>3

\* A command finds the session's entry in the table.
LEMMA SessionEntry ==
  ASSUME UsersInv, Command
  PROVE  \E i \in Index : SessionIs(i)
<1>1. LoggedIn
  BY DEF Command, LoggedIn
<1> QED
  BY <1>1 DEF UsersInv

\* What is left to show of a command: names stay unique and the session's
\* entry, wherever it moved, agrees with current_is_admin.
LEMMA CommandKeeps ==
  ASSUME TypeInv, UsersInv, Command, UniqueNames',
         \E i \in Index' : /\ users'[i].name = current_user
                           /\ current_is_admin' <=> users'[i].role = "admin"
  PROVE  UsersInv'
BY DEF Command, UsersInv, LoggedIn, UniqueLines, Valid, SessionIs

LEMMA CreateKeeps ==
  ASSUME TypeInv, UsersInv, NEW n \in Names, NEW p \in Passes, NEW r \in Roles, createuser(n, p, r)
  PROVE  UsersInv'
<1> DEFINE e == [name |-> n, pass |-> p, role |-> r]
<1>1. Command /\ users' = Append(users, e) /\ current_is_admin' = current_is_admin
  BY DEF createuser
<1>2. \A i \in Index : users[i].name # n
  BY DEF createuser, Found
<1>3. e.name = n
  OBVIOUS
<1> HIDE DEF e
<1>4. Len(users') = Len(users) + 1 /\ users'[Len(users) + 1] = e /\ \A i \in Index : users'[i] = users[i]
  BY <1>1 DEF TypeInv, TypeOK, Index
<1>5. UniqueNames'
  BY <1>2, <1>3, <1>4 DEF UniqueNames, UsersInv, Index, TypeInv, TypeOK
<1>6. PICK i \in Index : SessionIs(i)
  BY <1>1, SessionEntry
<1>7. i \in Index' /\ users'[i] = users[i]
  BY <1>4, <1>6 DEF Index, TypeInv, TypeOK
<1> QED
  BY <1>1, <1>5, <1>6, <1>7, CommandKeeps DEF SessionIs

LEMMA DeleteKeeps ==
  ASSUME TypeInv, UsersInv, NEW n \in Names, deluser(n)
  PROVE  UsersInv'
<1> DEFINE x == find_user(n)
<1>1. /\ Command /\ current_is_admin' = current_is_admin
      /\ n # current_user /\ Found(n) # {}
      /\ users' = [i \in 1 .. Len(users) - 1 |-> users[IF i < x THEN i ELSE i + 1]]
  BY DEF deluser, Deletable
<1>2. x \in Index /\ users[x].name = n
  BY <1>1, FoundIndex DEF UsersInv
<1> HIDE DEF x
<1>3. Index' = 1 .. Len(users) - 1
  BY <1>1, <1>2 DEF Index, TypeInv, TypeOK
<1>4. UniqueNames'
  BY <1>1, <1>2, <1>3 DEF UniqueNames, UsersInv, Index, TypeInv, TypeOK
<1>5. PICK i \in Index : SessionIs(i)
  BY <1>1, SessionEntry
<1>6. i # x
  BY <1>1, <1>2, <1>5 DEF SessionIs
<1>7. \E j \in Index' : users'[j] = users[i]
  <2>1. CASE i < x
    BY <1>1, <1>2, <1>3, <1>5, <2>1 DEF Index, TypeInv, TypeOK
  <2>2. CASE i > x
    <3>1. i - 1 \in Index' /\ users'[i - 1] = users[i]
      BY <1>1, <1>2, <1>3, <1>5, <2>2 DEF Index, TypeInv, TypeOK
    <3> QED
      BY <3>1
  <2> QED
    BY <1>2, <1>5, <1>6, <2>1, <2>2 DEF Index
<1> QED
  BY <1>1, <1>4, <1>5, <1>7, CommandKeeps DEF SessionIs

LEMMA SetRoleKeeps ==
  ASSUME TypeInv, UsersInv, NEW n \in Names, NEW r \in Roles, setrole(n, r)
  PROVE  UsersInv'
<1> DEFINE x == find_user(n)
<1>1. /\ Command /\ Found(n) # {}
      /\ users' = [users EXCEPT ![x].role = r]
      /\ current_is_admin' = AdminAfter(n, r)
  BY DEF setrole
<1>2. x \in Index /\ users[x].name = n
  BY <1>1, FoundIndex DEF UsersInv
<1> HIDE DEF x
<1>3. /\ Index' = Index
      /\ \A i \in Index : users'[i] = IF i = x THEN [users[x] EXCEPT !.role = r] ELSE users[i]
  BY <1>1, <1>2 DEF Index, TypeInv, TypeOK
<1>4. users[x] \in Entry
  BY <1>2 DEF Index, TypeInv, TypeOK
<1>5. users'[x].name = n /\ users'[x].role = r
  BY <1>2, <1>3, <1>4 DEF Entry
<1>6. \A i \in Index : users'[i].name = users[i].name
  BY <1>2, <1>3, <1>5
<1>7. UniqueNames'
  BY <1>3, <1>6 DEF UniqueNames, UsersInv
<1>8. PICK i \in Index : SessionIs(i)
  BY <1>1, SessionEntry
<1>9. current_is_admin' <=> users'[i].role = "admin"
  <2>1. CASE n = current_user
    <3>1. i = x
      BY <1>2, <1>8, <2>1 DEF UsersInv, UniqueNames, SessionIs
    <3> QED
      BY <1>1, <1>5, <2>1, <3>1 DEF AdminAfter
  <2>2. CASE n # current_user
    <3>1. i # x
      BY <1>2, <1>8, <2>2 DEF SessionIs
    <3> QED
      BY <1>1, <1>3, <1>8, <2>2, <3>1 DEF AdminAfter, SessionIs
  <2> QED
    BY <2>1, <2>2
<1> QED
  BY <1>1, <1>3, <1>6, <1>7, <1>8, <1>9, CommandKeeps DEF SessionIs

LEMMA PasswdKeeps ==
  ASSUME TypeInv, UsersInv, NEW p \in Passes, passwd(p)
  PROVE  UsersInv'
<1> DEFINE x == find_user(current_user)
<1>1. /\ Command /\ Found(current_user) # {} /\ current_is_admin' = current_is_admin
      /\ users' = [users EXCEPT ![x].pass = p]
  BY DEF passwd
<1>2. x \in Index
  BY <1>1, FoundIndex DEF UsersInv
<1> HIDE DEF x
<1>3. Index' = Index /\ \A i \in Index : users'[i] = IF i = x THEN [users[x] EXCEPT !.pass = p] ELSE users[i]
  BY <1>1, <1>2 DEF Index, TypeInv, TypeOK
<1>4. users[x] \in Entry
  BY <1>2 DEF Index, TypeInv, TypeOK
<1>5. \A i \in Index : users'[i].name = users[i].name /\ users'[i].role = users[i].role
  BY <1>2, <1>3, <1>4 DEF Entry
<1>6. UniqueNames'
  BY <1>3, <1>5 DEF UniqueNames, UsersInv
<1>7. PICK i \in Index : SessionIs(i)
  BY <1>1, SessionEntry
<1> QED
  BY <1>1, <1>3, <1>5, <1>6, <1>7, CommandKeeps DEF SessionIs

\* A card written by save_user_card has unique names because the table has.
LEMMA SaveKeeps ==
  ASSUME TypeInv, UsersInv, Save
  PROVE  UsersInv'
<1>1. /\ users' = users /\ current_user' = current_user /\ current_is_admin' = current_is_admin
      /\ pc \in {"save", "write"} /\ pc' \in {"save", "write", "shell"}
  BY DEF Save, save_open, save_line, save_error, save_close, Write, EndSave, session
<1>2. UniqueLines(card)'
  <2>1. CASE card' = card
    BY <2>1 DEF UsersInv, UniqueLines, Valid
  <2>2. CASE card' = <<>>
    BY <2>2 DEF UniqueLines
  <2>3. CASE card' = SubSeq(users, 1, kept)
    <3>1. kept \in 0 .. Len(users) /\ users \in Seq(Entry)
      BY DEF TypeInv, TypeOK
    <3>2. DOMAIN card' = 1 .. kept /\ \A i \in 1 .. kept : card'[i] = users[i]
      BY <2>3, <3>1
    <3> QED
      BY <3>1, <3>2 DEF UniqueLines, UsersInv, UniqueNames, Index
  <2> QED
    BY <2>1, <2>2, <2>3 DEF Save, save_open, save_line, save_error, save_close, Stored
<1> QED
  BY <1>1, <1>2, SameTable DEF UsersInv, LoggedIn, Index, SessionIs

\* Every step keeps UsersInv if the cards that are put on the disk have unique
\* names.
LEMMA UsersStep ==
  ASSUME TypeInv, UsersInv, CardsAreUnique, [Next]_vars
  PROVE  UsersInv'
<1>1. UniqueNames /\ UniqueLines(card)
  BY DEF UsersInv
<1>2. ASSUME pc' = "login", users' = WithFallback(users) \/ users' = WithFallback(<<>>),
             current_user' = current_user, card' = card, ~LoggedIn
      PROVE  UsersInv'
  <2>1. UniqueNames'
    <3>1. CASE users' = users
      BY <1>1, <3>1, SameTable
    <3>2. CASE users' = <<Root>>
      BY <3>2 DEF UniqueNames, Index
    <3> QED
      BY <1>2, <3>1, <3>2 DEF WithFallback
  <2> QED
    BY <1>1, <1>2, <2>1 DEF UsersInv, LoggedIn, UniqueLines, Valid
<1>3. CASE mount_at_boot
  <2>1. CASE NameOpens /\ card # NoCard
    <3>1. users' = <<>> /\ pc' = "parse" /\ card' = card /\ current_user' = current_user /\ ~LoggedIn
      BY <1>3, <2>1 DEF mount_at_boot, session, LoggedIn
    <3>2. Index' = {}
      BY <3>1 DEF Index
    <3> QED
      BY <1>1, <3>1, <3>2 DEF UsersInv, UniqueNames, UniqueLines, Valid, LoggedIn
  <2>2. CASE ~(NameOpens /\ card # NoCard)
    BY <1>2, <1>3, <2>2 DEF mount_at_boot, StartLogin, session, LoggedIn
  <2> QED
    BY <2>1, <2>2
<1>4. CASE parse_end
  BY <1>2, <1>4 DEF parse_end, StartLogin, session, LoggedIn
<1>5. CASE boot_fails \/ UNCHANGED vars \/ cmd_mount
  <2>1. /\ users' = users /\ current_user' = current_user /\ current_is_admin' = current_is_admin
        /\ card' = card /\ pos' = pos /\ (pc' = pc \/ (pc = "boot" /\ pc' = "halted"))
    BY <1>5 DEF boot_fails, cmd_mount, vars, session
  <2> QED
    BY <1>1, <2>1, SameTable DEF UsersInv, LoggedIn, UniqueLines, Valid, Index, SessionIs
<1>6. CASE edit_card
  <2>1. UniqueLines(card)'
    BY <1>6 DEF edit_card, CardsAreUnique, UniqueLines, Valid
  <2> QED
    BY <1>1, <1>6, <2>1, SameTable DEF edit_card, session, UsersInv, LoggedIn, Index, SessionIs
<1>7. CASE power_cycle
  <2>1. Index' = {}
    BY <1>7 DEF power_cycle, Index
  <2> QED
    BY <1>1, <1>7, <2>1 DEF power_cycle, UsersInv, UniqueNames, UniqueLines, Valid, LoggedIn
<1> QED
  BY <1>3, <1>4, <1>5, <1>6, <1>7, ParseKeepsUnique, LoginMatches, CreateKeeps, DeleteKeeps,
     SetRoleKeeps, PasswdKeeps, SaveKeeps DEF Next, Boot, Shell

\* UsersInv holds in every state.
LEMMA UsersInvariant == ASSUME CardsAreUnique PROVE Spec => []UsersInv
<1>1. Init => UsersInv
  <2> SUFFICES ASSUME Init PROVE UsersInv
    OBVIOUS
  <2>1. Index = {} /\ UniqueLines(card)
    BY DEF Init, Index, CardsAreUnique
  <2> QED
    BY <2>1 DEF Init, UsersInv, UniqueNames, LoggedIn
<1>2. TypeInv /\ UsersInv /\ [Next]_vars => UsersInv'
  BY UsersStep
<1> QED
  BY <1>1, <1>2, TypeInductive, PTL DEF Spec

\* The session always names an account of the table and never claims a role it
\* has not: the cached current_is_admin stays in step with the table through
\* createuser, deluser, setrole and passwd, and across power cuts.
THEOREM SessionInvariant == ASSUME CardsAreUnique PROVE Spec => []SessionMatchesTable
<1>1. TypeInv /\ UsersInv => SessionMatchesTable
  <2> SUFFICES ASSUME TypeInv, UsersInv, LoggedIn
               PROVE  /\ Found(current_user) # {}
                      /\ current_is_admin = (users[find_user(current_user)].role = "admin")
    BY DEF SessionMatchesTable
  <2>1. PICK i \in Index : SessionIs(i)
    BY DEF UsersInv
  <2>2. Found(current_user) = {i} /\ find_user(current_user) = i
    BY <2>1, FindUser DEF UsersInv, SessionIs
  <2>3. current_is_admin \in BOOLEAN
    BY DEF TypeInv, TypeOK
  <2> QED
    BY <2>1, <2>2, <2>3 DEF SessionIs
<1> QED
  BY <1>1, UsersInvariant, TypeInductive, PTL
-----------------------------------------------------------------------------
(* The administrators and the card *)

\* Whoever put a card on the disk put an administrator among its first MAX_USERS
\* lines, or no account.
AdminLine(c, i) == i \in DOMAIN c /\ i <= MaxUsers /\ Valid(c[i]) /\ c[i].role = "admin"
NoAccounts(c) == \A i \in DOMAIN c : ~Valid(c[i])
GoodCard(c) == c = NoCard \/ NoAccounts(c) \/ \E i \in DOMAIN c : AdminLine(c, i)
CardsHaveAdmins == \A c \in InitialCards \cup EditedCards : GoodCard(c)

\* What was read so far is in the table, up to MAX_USERS accounts.
Parsing == pc = "parse" =>
    /\ Len(users) < pos
    /\ \A i \in DOMAIN card : i < pos /\ AdminLine(card, i) => \E k \in Index : users[k] = card[i]
    /\ \A k \in Index : \E j \in DOMAIN card : users[k] = card[j] /\ Valid(card[j])
    /\ \A i \in DOMAIN card : i < pos /\ Valid(card[i]) => users # <<>>

\* A save has stored every administrator's line that it has written, and the
\* next boot will read it back.
Saving == pc = "write" =>
    \A i \in Index : i < pos /\ users[i].role = "admin" => i <= kept /\ Valid(users[i])

\* What holds until an administrator's line is lost.
AdminInv == /\ GoodCard(card) /\ Parsing /\ Saving
            /\ Up => HasAdmin(users)

\* The second administrator, if there is one, is not the one that is removed.
LEMMA AnotherAdmin ==
  ASSUME TypeInv, NEW x \in Index, users[x].role = "admin" => admin_count > 1, HasAdmin(users)
  PROVE  \E i \in Index : i # x /\ users[i].role = "admin"
<1> DEFINE S == {i \in Index : users[i].role = "admin"}
<1>1. CASE users[x].role # "admin"
  BY <1>1 DEF HasAdmin, Index, TypeInv, TypeOK
<1>2. CASE users[x].role = "admin"
  <2> SUFFICES ASSUME \A i \in Index : users[i].role = "admin" => i = x PROVE FALSE
      OBVIOUS
  <2>1. S = {x}
    BY <1>2
  <2>2. Cardinality(S) = 1
    BY <2>1, FS_Singleton
  <2> QED
    BY <1>2, <2>2 DEF admin_count
<1> QED
  BY <1>1, <1>2

\* Reading one more line: an administrator's line finds room, since it is one of
\* the first MAX_USERS.
LEMMA ParseAdmin ==
  ASSUME TypeInv, AdminInv, parse_line
  PROVE  AdminInv'
<1>1. /\ card[pos] \in Line /\ pos \in Nat \ {0} /\ pos \in DOMAIN card /\ card' = card
      /\ card \in Seq(Line)
      /\ pc = "parse" /\ pc' = "parse" /\ pos' = pos + 1 /\ Parsing
  BY DEF parse_line, TypeInv, TypeOK, Card, AdminInv
<1>2. ASSUME Valid(card[pos]), HasRoom
      PROVE  users' = Append(users, card[pos])
  BY <1>2 DEF parse_line, process_user_line
<1>3. ASSUME ~(Valid(card[pos]) /\ HasRoom)
      PROVE  users' = users
  BY <1>3 DEF parse_line, process_user_line
<1>4. users \in Seq(Entry) /\ MaxUsers \in Nat \ {0} /\ Len(users) < pos
  BY <1>1, UsersAssumption DEF TypeInv, TypeOK, Parsing
<1>5. Parsing'
  <2>1. CASE Valid(card[pos]) /\ HasRoom
    <3>1. /\ Len(users') = Len(users) + 1 /\ users'[Len(users) + 1] = card[pos]
          /\ \A k \in Index : users'[k] = users[k]
      <4>1. card[pos] \in Entry
        BY <1>1, <2>1 DEF Valid, Line, Entry
      <4> QED
        BY <1>2, <1>4, <2>1, <4>1 DEF Index
    <3>2. Index' = Index \cup {Len(users) + 1} /\ users' # <<>>
      BY <1>4, <3>1 DEF Index
    <3>3. ASSUME NEW i \in DOMAIN card, i < pos + 1, AdminLine(card, i)
          PROVE  \E k \in Index' : users'[k] = card[i]
      <4>1. CASE i = pos
        BY <1>4, <3>1, <3>2, <4>1
      <4>2. CASE i < pos
        BY <1>1, <3>1, <3>2, <3>3, <4>2 DEF Parsing
      <4> QED
        BY <1>1, <1>4, <3>3, <4>1, <4>2
    <3>4. ASSUME NEW k \in Index'
          PROVE  \E j \in DOMAIN card : users'[k] = card[j] /\ Valid(card[j])
      BY <1>1, <2>1, <3>1, <3>2 DEF Parsing
    <3>5. Len(users') < pos + 1
      BY <1>1, <1>4, <3>1
    <3> QED
      BY <1>1, <3>2, <3>3, <3>4, <3>5 DEF Parsing, AdminLine, Valid
  <2>2. CASE ~(Valid(card[pos]) /\ HasRoom)
    <3>1. users' = users
      BY <1>3, <2>2
    <3>2. ~AdminLine(card, pos)
      BY <1>4, <2>2 DEF AdminLine, HasRoom
    <3>3. Valid(card[pos]) => users # <<>>
      BY <1>4, <2>2 DEF HasRoom
    <3> QED
      BY <1>1, <1>4, <3>1, <3>2, <3>3 DEF Parsing, AdminLine, Valid, Index
  <2> QED
    BY <2>1, <2>2
<1> QED
  BY <1>1, <1>5 DEF AdminInv, Saving, Up, LoggedIn, GoodCard, NoAccounts, AdminLine, Valid

\* The boot ends with an administrator: one of the card or the built-in one.
LEMMA BootAdmin ==
  ASSUME TypeInv, AdminInv, ~adminLost', mount_at_boot \/ boot_fails \/ parse_end
  PROVE  AdminInv'
<1>1. card' = card /\ GoodCard(card)'
  BY DEF mount_at_boot, boot_fails, parse_end, AdminInv, GoodCard, NoAccounts, AdminLine, Valid
<1>2. HasAdmin(<<Root>>)
  <2>1. 1 \in DOMAIN <<Root>> /\ <<Root>>[1].role = "admin"
    BY DEF Root
  <2> QED
    BY <2>1 DEF HasAdmin
<1>3. CASE boot_fails
  BY <1>1, <1>3 DEF boot_fails, AdminInv, Parsing, Saving, Up, LoggedIn
<1>4. CASE mount_at_boot
  <2>1. CASE NameOpens /\ card # NoCard
    <3>1. users' = <<>> /\ pc' = "parse" /\ pos' = 1
      BY <1>4, <2>1 DEF mount_at_boot
    <3>2. card \in Seq(Line)
      BY <2>1 DEF TypeInv, TypeOK, Card
    <3>3. Parsing'
      BY <1>1, <3>1, <3>2 DEF Parsing, Index
    <3> QED
      BY <1>1, <3>1, <3>3 DEF AdminInv, Saving, Up, LoggedIn
  <2>2. CASE ~(NameOpens /\ card # NoCard)
    <3>1. users' = <<Root>> /\ pc' = "login"
      BY <1>4, <2>2 DEF mount_at_boot, StartLogin, WithFallback
    <3> QED
      BY <1>1, <1>2, <3>1 DEF AdminInv, Parsing, Saving
  <2> QED
    BY <2>1, <2>2
<1>5. CASE parse_end
  <2>1. /\ pc = "parse" /\ card # NoCard /\ card \in Seq(Line) /\ pos \in Nat
        /\ users' = WithFallback(users) /\ pc' = "login"
        /\ \A i \in pos .. Len(card) : card[i].role # "admin"
    BY <1>5 DEF parse_end, StartLogin, LosesAdmin, TypeInv, TypeOK, Card
  <2>2. CASE users = <<>>
    BY <1>1, <1>2, <2>1, <2>2 DEF WithFallback, AdminInv, Parsing, Saving
  <2>3. CASE users # <<>>
    <3>1. \E k \in Index : TRUE
      BY <2>3 DEF Index, TypeInv, TypeOK
    <3>2. ~NoAccounts(card)
      BY <2>1, <3>1 DEF AdminInv, Parsing, Saving, NoAccounts
    <3>3. PICK i \in DOMAIN card : AdminLine(card, i)
      BY <2>1, <3>2 DEF AdminInv, GoodCard
    <3>4. \E k \in Index : users[k] = card[i]
      <4>1. i < pos
        BY <2>1, <3>3 DEF AdminLine
      <4> QED
        BY <2>1, <3>3, <4>1 DEF AdminInv, Parsing
    <3>5. HasAdmin(users)
      BY <3>3, <3>4 DEF HasAdmin, AdminLine, Index, TypeInv, TypeOK
    <3> QED
      BY <1>1, <2>1, <2>3, <3>5 DEF WithFallback, AdminInv, Parsing, Saving
  <2> QED
    BY <2>2, <2>3
<1> QED
  BY <1>3, <1>4, <1>5

\* A command leaves the card alone and comes from the shell.
LEMMA CommandAdmin ==
  ASSUME TypeInv, AdminInv, Command, HasAdmin(users')
  PROVE  AdminInv'
<1>1. card' = card /\ pc' = "save"
  BY DEF Command
<1> QED
  BY <1>1 DEF AdminInv, Parsing, Saving, GoodCard, NoAccounts, AdminLine, Valid

\* The new account comes behind those there are.
LEMMA CreateAdmin ==
  ASSUME TypeInv, AdminInv, NEW n \in Names, NEW p \in Passes, NEW r \in Roles, createuser(n, p, r)
  PROVE  AdminInv'
<1> DEFINE e == [name |-> n, pass |-> p, role |-> r]
<1>1. Command /\ users' = Append(users, e) /\ users \in Seq(Entry) /\ HasAdmin(users)
  BY DEF createuser, Command, TypeInv, TypeOK, AdminInv, Up, LoggedIn
<1>2. PICK i \in DOMAIN users : users[i].role = "admin"
  BY <1>1 DEF HasAdmin
<1>3. i \in DOMAIN users' /\ users'[i] = users[i]
  <2>1. e \in Entry
    BY DEF Entry
  <2> QED
    BY <1>1, <2>1
<1> QED
  BY <1>1, <1>2, <1>3, CommandAdmin DEF HasAdmin

\* deluser leaves the second administrator, one place further down when it
\* stood behind the account that goes.
LEMMA DeleteAdmin ==
  ASSUME TypeInv, UsersInv, AdminInv, NEW n \in Names, deluser(n)
  PROVE  AdminInv'
<1> DEFINE x == find_user(n)
<1>1. /\ Command /\ users \in Seq(Entry) /\ HasAdmin(users) /\ Found(n) # {}
      /\ users[x].role = "admin" => admin_count > 1
      /\ users' = [i \in 1 .. Len(users) - 1 |-> users[IF i < x THEN i ELSE i + 1]]
  BY DEF deluser, Deletable, NotLastAdmin, Command, TypeInv, TypeOK, AdminInv, Up, LoggedIn
<1>2. x \in Index
  BY <1>1, FoundIndex DEF UsersInv
<1>3. PICK i \in Index : i # x /\ users[i].role = "admin"
  BY <1>1, <1>2, AnotherAdmin
<1>4. HasAdmin(users')
  <2> DEFINE k == IF i < x THEN i ELSE i - 1
  <2>1. Len(users) \in Nat /\ i \in 1 .. Len(users) /\ x \in 1 .. Len(users) /\ i # x
    BY <1>1, <1>2, <1>3 DEF Index
  <2>2. k \in 1 .. Len(users) - 1 /\ (IF k < x THEN k ELSE k + 1) = i
    BY <2>1
  <2>3. k \in DOMAIN users' /\ users'[k] = users[i]
    BY <1>1, <2>2
  <2> QED
    BY <1>3, <2>3 DEF HasAdmin
<1> QED
  BY <1>1, <1>4, CommandAdmin

\* setrole takes the role of administrator away only from one of several.
LEMMA SetRoleAdmin ==
  ASSUME TypeInv, UsersInv, AdminInv, NEW n \in Names, NEW r \in Roles, setrole(n, r)
  PROVE  AdminInv'
<1> DEFINE x == find_user(n)
<1>1. /\ Command /\ users \in Seq(Entry) /\ HasAdmin(users) /\ Found(n) # {}
      /\ users[x].role # r
      /\ r = "user" => (users[x].role = "admin" => admin_count > 1)
      /\ users' = [users EXCEPT ![x].role = r]
  BY DEF setrole, NotLastAdmin, Command, TypeInv, TypeOK, AdminInv, Up, LoggedIn
<1>2. x \in Index /\ DOMAIN users' = DOMAIN users /\ Index = DOMAIN users
  BY <1>1, FoundIndex DEF UsersInv, Index
<1>3. CASE r = "admin"
  <2>1. users[x] \in Entry
    BY <1>1, <1>2 DEF Index
  <2>2. users'[x].role = "admin"
    BY <1>1, <1>2, <1>3, <2>1 DEF Entry
  <2> QED
    BY <1>1, <1>2, <2>2, CommandAdmin DEF HasAdmin
<1>4. CASE r = "user"
  <2>1. PICK i \in Index : i # x /\ users[i].role = "admin"
    BY <1>1, <1>2, <1>4, AnotherAdmin
  <2>2. users'[i] = users[i]
    BY <1>1, <1>2, <2>1
  <2> QED
    BY <1>1, <1>2, <2>1, <2>2, CommandAdmin DEF HasAdmin
<1> QED
  BY <1>3, <1>4 DEF Roles

\* passwd changes no role.
LEMMA PasswdAdmin ==
  ASSUME TypeInv, AdminInv, NEW p \in Passes, passwd(p)
  PROVE  AdminInv'
<1> DEFINE x == find_user(current_user)
<1>1. /\ Command /\ users \in Seq(Entry) /\ HasAdmin(users)
      /\ users' = [users EXCEPT ![x].pass = p]
  BY DEF passwd, Command, TypeInv, TypeOK, AdminInv, Up, LoggedIn
<1>2. PICK i \in DOMAIN users : users[i].role = "admin"
  BY <1>1 DEF HasAdmin
<1>3. DOMAIN users' = DOMAIN users /\ users'[i].role = users[i].role
  <2>1. users[i] \in Entry
    BY <1>1, <1>2
  <2> QED
    BY <1>1, <1>2, <2>1 DEF Entry
<1> QED
  BY <1>1, <1>2, <1>3, CommandAdmin DEF HasAdmin

\* The beginning of the table that a save has stored makes a good card.
LEMMA StoredIsGood ==
  ASSUME TypeInv, HasAdmin(users), NEW k \in 0 .. Len(users),
         \A i \in Index : users[i].role = "admin" => i <= k /\ Valid(users[i])
  PROVE  GoodCard(SubSeq(users, 1, k))
<1>1. PICK i \in Index : users[i].role = "admin"
  BY DEF HasAdmin, Index, TypeInv, TypeOK
<1>2. i \in 1 .. k /\ i <= MaxUsers /\ Valid(users[i]) /\ users \in Seq(Entry)
  BY <1>1, UsersAssumption DEF Index, TypeInv, TypeOK
<1>3. PICK c : c = SubSeq(users, 1, k)
  OBVIOUS
<1>4. i \in DOMAIN c /\ c[i] = users[i]
  BY <1>2, <1>3
<1>5. AdminLine(c, i)
  BY <1>1, <1>2, <1>4 DEF AdminLine
<1> QED
  BY <1>3, <1>4, <1>5 DEF GoodCard

\* The save: the empty file it starts with holds no account, so that a crash
\* falls back to the built-in one, and the file it ends with has the
\* administrators of the table, or cost one of them his line.
LEMMA SaveAdmin ==
  ASSUME TypeInv, AdminInv, ~adminLost', Save
  PROVE  AdminInv'
<1>1. /\ users' = users /\ HasAdmin(users) /\ users \in Seq(Entry) /\ pos \in Nat
      /\ kept \in 0 .. Len(users)
  BY DEF Save, save_open, save_line, save_error, save_close, Write, AdminInv, Up, LoggedIn,
         TypeInv, TypeOK
<1>2. NoAccounts(<<>>) /\ Index' = Index
  BY <1>1 DEF NoAccounts, Index
<1>3. CASE save_open
  <2>1. CASE NameOpens /\ card' = <<>> /\ pc' = "write" /\ pos' = 1 /\ kept' = 0
    <3>1. \A i \in Index : ~(i < 1)
      BY <1>1 DEF Index
    <3> QED
      BY <1>1, <1>2, <2>1, <3>1 DEF AdminInv, Saving, GoodCard, NoAccounts, Valid, Parsing
  <2>2. CASE EndSave /\ (card' = card \/ card' = <<>>)
    BY <1>1, <1>2, <2>2 DEF EndSave, AdminInv, Saving, GoodCard, NoAccounts, AdminLine, Valid,
       Parsing
  <2> QED
    BY <1>3, <2>1, <2>2 DEF save_open
<1>4. CASE save_line
  <2>1. pc = "write" /\ pc' = "write" /\ card' = card /\ pos' = pos + 1
    BY <1>4 DEF save_line, Write
  <2>2. kept' \in Nat /\ kept <= kept'
    BY <1>1, <1>4 DEF save_line
  <2>3. users[pos].role = "admin" => kept' = pos /\ Valid(users[pos])
    BY <1>4 DEF save_line, LosesAdmin
  <2>4. ASSUME NEW i \in Index, i < pos + 1, users[i].role = "admin"
        PROVE  i <= kept' /\ Valid(users[i])
    <3>1. CASE i = pos
      BY <1>1, <2>3, <2>4, <3>1
    <3>2. CASE i # pos
      BY <1>1, <2>1, <2>2, <2>4, <3>2 DEF AdminInv, Saving, Index
    <3> QED
      BY <3>1, <3>2
  <2> QED
    BY <1>1, <1>2, <2>1, <2>4 DEF AdminInv, Saving, GoodCard, NoAccounts, AdminLine, Valid, Parsing
<1>5. CASE save_error \/ save_close
  <2>1. pc = "write" /\ pc' = "shell" /\ (card' = SubSeq(users, 1, kept) \/ card' = card)
    BY <1>5 DEF save_error, save_close, Write, Stored, EndSave
  <2>2. \A i \in Index : i < pos \/ users[i].role # "admin"
    <3>1. CASE save_error
      <4>1. \A i \in pos .. Len(users) : users[i].role # "admin"
        BY <3>1 DEF save_error, LosesAdmin
      <4> QED
        BY <1>1, <4>1 DEF Index
    <3>2. CASE save_close
      BY <1>1, <3>2 DEF save_close, MoreLines, Index
    <3> QED
      BY <1>5, <3>1, <3>2
  <2>3. \A i \in Index : users[i].role = "admin" => i <= kept /\ Valid(users[i])
    BY <2>1, <2>2 DEF AdminInv, Saving
  <2>4. GoodCard(SubSeq(users, 1, kept))
    BY <1>1, <2>3, StoredIsGood
  <2>5. GoodCard(card')
    BY <2>1, <2>4 DEF AdminInv
  <2> QED
    BY <1>1, <2>1, <2>5 DEF AdminInv, Saving, GoodCard, NoAccounts, AdminLine, Valid, Parsing
<1> QED
  BY <1>3, <1>4, <1>5 DEF Save

\* Every step keeps an administrator among those who may log in.
LEMMA AdminStep ==
  ASSUME CardsHaveAdmins, TypeInv, UsersInv, AdminInv, ~adminLost', [Next]_vars
  PROVE  AdminInv'
<1> USE DEF AdminInv, Parsing, Saving, GoodCard, NoAccounts, AdminLine, Valid, Up, LoggedIn
<1>1. CASE mount_at_boot \/ boot_fails \/ parse_end
  BY <1>1, BootAdmin
<1>2. CASE parse_line
  BY <1>2, ParseAdmin
<1>3. CASE \E n \in Names, p \in Passes, r \in Roles : createuser(n, p, r)
  BY <1>3, CreateAdmin
<1>4. CASE \E n \in Names : deluser(n)
  BY <1>4, DeleteAdmin
<1>5. CASE \E n \in Names, r \in Roles : setrole(n, r)
  BY <1>5, SetRoleAdmin
<1>6. CASE \E p \in Passes : passwd(p)
  BY <1>6, PasswdAdmin
<1>7. CASE cmd_mount
  BY <1>7 DEF cmd_mount
<1>8. CASE edit_card
  <2>1. GoodCard(card')
    BY <1>8 DEF edit_card, CardsHaveAdmins
  <2> QED
    BY <1>8, <2>1 DEF edit_card
<1>9. CASE Save
  BY <1>9, SaveAdmin
<1>10. CASE power_cycle
  BY <1>10 DEF power_cycle
<1>11. CASE \E n \in Names, p \in Passes : authenticate(n, p)
  BY <1>11 DEF authenticate
<1>12. CASE UNCHANGED vars
  BY <1>12 DEF vars, Index
<1> QED
  BY <1>1, <1>2, <1>3, <1>4, <1>5, <1>6, <1>7, <1>8, <1>9, <1>10, <1>11, <1>12
     DEF Next, Boot, Shell

\* A line that is lost stays lost.
LEMMA LostForGood ==
  ASSUME TypeInv, [Next]_vars, ~adminLost'
  PROVE  ~adminLost
BY DEF Next, Boot, Shell, Save, mount_at_boot, boot_fails, parse_line, parse_end, authenticate,
       createuser, deluser, setrole, passwd, Command, cmd_mount, edit_card, save_open, save_line,
       save_error, save_close, power_cycle, LosesAdmin, vars

\* Last-admin protection, with the disk in it: whatever the disk does and
\* wherever the power fails, no sequence of commands, saves and reboots ends in
\* a table without an administrator, unless an administrator's own line was not
\* stored, not read, or written with a ':' in it.
THEOREM AdminsRemain ==
  ASSUME CardsAreUnique, CardsHaveAdmins
  PROVE  Spec => []AdminRemains
<1> DEFINE Inv == ~adminLost => AdminInv
<1>1. Init => Inv
  BY DEF Init, AdminInv, Parsing, Saving, Up, LoggedIn, CardsHaveAdmins
<1>2. TypeInv /\ UsersInv /\ Inv /\ [Next]_vars => Inv'
  BY AdminStep, LostForGood
<1>3. Inv => AdminRemains
  BY DEF AdminInv, AdminRemains
<1>4. Spec => []UsersInv
  BY UsersInvariant
<1> QED
  BY <1>1, <1>2, <1>3, <1>4, TypeInductive, PTL DEF Spec

-----------------------------------------------------------------------------
(* The refinement of Accounts *)

\* What Accounts sees of the table.
Known == {m \in Names : Found(m) # {}}
Seen == [n \in {m \in Names : Up /\ Found(m) # {}} |-> AccountOf(n)]
AccountAt(e) == [pass |-> e.pass, role |-> e.role]

\* The account of a name is the entry that has it, before a step and after it.
LEMMA AccountIs ==
  ASSUME UniqueNames, NEW i \in Index
  PROVE  AccountOf(users[i].name) = AccountAt(users[i])
BY FindUser DEF AccountOf, AccountAt

\* The same of the table a step leaves.
LEMMA AccountIsNext ==
  ASSUME UniqueNames', NEW n, NEW i \in Index', users'[i].name = n
  PROVE  AccountOf(n)' = AccountAt(users'[i]) /\ Found(n)' # {}
<1>1. Found(n)' = {i}
  BY DEF UniqueNames, Found
<1>2. First({i}) = i
  BY DEF First, Index
<1>3. find_user(n)' = i
  BY <1>1, <1>2 DEF find_user
<1> QED
  BY <1>1, <1>3 DEF AccountOf, AccountAt

\* The map of a state in which one may log in, and of one in which nobody can.
LEMMA SeenUp ==
  ASSUME Up
  PROVE  Seen = [n \in Known |-> AccountOf(n)]
BY DEF Seen, Known

\* While nobody can log in there are no accounts.
LEMMA SeenDown == ~Up => Seen = [n \in {} |-> n]
BY DEF Seen

\* What Accounts sees after a step, from the entries of the new table.
LEMMA SeenNext ==
  ASSUME UniqueNames', Up', NEW f, DOMAIN f \subseteq Names, f = [m \in DOMAIN f |-> f[m]],
         \A m \in DOMAIN f : \E i \in Index' : users'[i].name = m /\ AccountAt(users'[i]) = f[m],
         \A i \in Index' : users'[i].name \in DOMAIN f
  PROVE  Seen' = f
<1>1. ASSUME NEW m \in DOMAIN f PROVE Found(m)' # {} /\ AccountOf(m)' = f[m]
  BY AccountIsNext
<1>2. ASSUME NEW m \in Names, Found(m)' # {} PROVE m \in DOMAIN f
  BY <1>2 DEF Found
<1> QED
  BY <1>1, <1>2 DEF Seen

\* An administrator's session is one in Accounts.
LEMMA AdminSession ==
  ASSUME TypeInv, UsersInv, LoggedIn
  PROVE  /\ current_user \in Known
         /\ current_is_admin => current_user \in A!Admins(Seen)
<1>1. PICK s \in Index : SessionIs(s)
  BY DEF UsersInv
<1>2. users[s] \in Entry
  BY DEF TypeInv, TypeOK, Index
<1>3. AccountOf(current_user) = AccountAt(users[s]) /\ Found(current_user) # {}
  BY <1>1, AccountIs, FindUser DEF UsersInv, SessionIs
<1>4. current_user \in Known
  BY <1>1, <1>2, <1>3 DEF SessionIs, Entry, Known
<1>5. Seen = [n \in Known |-> AccountOf(n)]
  BY SeenUp DEF Up
<1> QED
  BY <1>1, <1>3, <1>4, <1>5 DEF SessionIs, AccountAt, A!Admins

\* Every entry of the table is an account of Accounts.
LEMMA EntryAccount ==
  ASSUME TypeInv, UsersInv, Up, NEW i \in Index
  PROVE  /\ users[i].name \in Known /\ Seen[users[i].name] = AccountAt(users[i])
         /\ AccountAt(users[i]) \in A!Account /\ users[i] \in Entry
<1>1. users[i] \in Entry
  BY DEF TypeInv, TypeOK, Index
<1>2. Found(users[i].name) # {} /\ AccountOf(users[i].name) = AccountAt(users[i])
  BY AccountIs, FindUser DEF UsersInv
<1> QED
  BY <1>1, <1>2, SeenUp DEF Known, Entry, AccountAt, A!Account, A!Roles, Roles

\* Every known name is that of an entry.
LEMMA KnownEntry ==
  ASSUME TypeInv, UsersInv, Up, NEW m \in Known
  PROVE  /\ find_user(m) \in Index /\ users[find_user(m)].name = m
         /\ Seen[m] = AccountAt(users[find_user(m)]) /\ DOMAIN Seen = Known
BY FoundIndex, SeenUp DEF Known, UsersInv, AccountOf, AccountAt

\* createuser is Create.
LEMMA CreateMaps ==
  ASSUME TypeInv, UsersInv, UniqueNames', NEW n \in Names, NEW p \in Passes, NEW r \in Roles,
         createuser(n, p, r)
  PROVE  A!Create(n)
<1> DEFINE e == [name |-> n, pass |-> p, role |-> r]
           f == [m \in Known \cup {n} |-> IF m = n THEN AccountAt(e) ELSE Seen[m]]
<1>1. /\ LoggedIn /\ Up /\ Up' /\ current_is_admin /\ current_user' = current_user
      /\ Found(n) = {} /\ users' = Append(users, e) /\ users \in Seq(Entry) /\ e \in Entry
  BY DEF createuser, Command, TypeInv, TypeOK, Up, LoggedIn, Entry
<1>2. /\ Index' = Index \cup {Len(users) + 1} /\ users'[Len(users) + 1] = e
      /\ \A i \in Index : users'[i] = users[i]
  BY <1>1 DEF Index
<1>3. DOMAIN Seen = Known /\ n \notin Known
  BY <1>1, SeenUp DEF Known
<1>4. Seen' = f
  <2>1. ASSUME NEW m \in DOMAIN f
        PROVE  \E i \in Index' : users'[i].name = m /\ AccountAt(users'[i]) = f[m]
    <3>1. CASE m = n
      BY <1>2, <3>1
    <3>2. CASE m \in Known /\ m # n
      <4>1. /\ find_user(m) \in Index /\ users[find_user(m)].name = m
            /\ Seen[m] = AccountAt(users[find_user(m)])
        BY <1>1, <3>2, KnownEntry
      <4> QED
        BY <1>2, <3>2, <4>1
    <3> QED
      BY <2>1, <3>1, <3>2
  <2>2. ASSUME NEW i \in Index' PROVE users'[i].name \in DOMAIN f
    <3>1. CASE i \in Index
      BY <1>1, <1>2, <3>1, EntryAccount
    <3>2. CASE i = Len(users) + 1
      BY <1>2, <3>2
    <3> QED
      BY <1>2, <3>1, <3>2
  <2>3. DOMAIN f \subseteq Names
    BY DEF Known
  <2> HIDE DEF f
  <2>4. f = [m \in DOMAIN f |-> f[m]]
    BY DEF f
  <2> QED
    BY <1>1, <2>1, <2>2, <2>3, <2>4, SeenNext
<1>5. AccountAt(e) \in A!Account
  BY DEF AccountAt, A!Account, A!Roles, Roles
<1>6. current_user \in A!Admins(Seen)
  BY <1>1, AdminSession
<1> QED
  BY <1>1, <1>3, <1>4, <1>5, <1>6 DEF A!Create, A!Administer, A!Known, Seen

\* deluser is Delete.
LEMMA DeleteMaps ==
  ASSUME TypeInv, UsersInv, UniqueNames', NEW n \in Names, deluser(n)
  PROVE  A!Delete(n)
<1> DEFINE x == find_user(n)
           f == [m \in Known \ {n} |-> Seen[m]]
<1>1. /\ LoggedIn /\ Up /\ Up' /\ current_is_admin /\ current_user' = current_user
      /\ n # current_user /\ Found(n) # {} /\ users \in Seq(Entry)
      /\ users' = [i \in 1 .. Len(users) - 1 |-> users[IF i < x THEN i ELSE i + 1]]
  BY DEF deluser, Deletable, Command, TypeInv, TypeOK, Up, LoggedIn
<1>2. n \in Known /\ DOMAIN Seen = Known /\ x \in Index /\ users[x].name = n
  BY <1>1, SeenUp, KnownEntry DEF Known
<1>3. Len(users) \in Nat \ {0} /\ Index = 1 .. Len(users) /\ Index' = 1 .. Len(users) - 1
  BY <1>1, <1>2 DEF Index
<1>4. Seen' = f
  <2>1. ASSUME NEW m \in DOMAIN f
        PROVE  \E i \in Index' : users'[i].name = m /\ AccountAt(users'[i]) = f[m]
    <3> DEFINE k == find_user(m)
               j == IF k < x THEN k ELSE k - 1
    <3>1. k \in Index /\ users[k].name = m /\ Seen[m] = AccountAt(users[k]) /\ m # n
      BY <1>1, <2>1, KnownEntry
    <3>2. k # x
      BY <1>2, <3>1
    <3>3. j \in Index' /\ (IF j < x THEN j ELSE j + 1) = k
      BY <1>2, <1>3, <3>1, <3>2
    <3>4. users'[j] = users[k]
      BY <1>1, <1>3, <3>3
    <3> QED
      BY <2>1, <3>1, <3>3, <3>4
  <2>2. ASSUME NEW i \in Index' PROVE users'[i].name \in DOMAIN f
    <3> DEFINE k == IF i < x THEN i ELSE i + 1
    <3>1. k \in Index /\ k # x /\ users'[i] = users[k]
      BY <1>1, <1>2, <1>3
    <3>2. users[k].name \in Known
      BY <1>1, <3>1, EntryAccount
    <3>3. users[k].name # n
      BY <1>2, <3>1 DEF UsersInv, UniqueNames
    <3> QED
      BY <3>1, <3>2, <3>3
  <2>3. DOMAIN f \subseteq Names
    BY DEF Known
  <2> HIDE DEF f
  <2>4. f = [m \in DOMAIN f |-> f[m]]
    BY DEF f
  <2> QED
    BY <1>1, <2>1, <2>2, <2>3, <2>4, SeenNext
<1>5. current_user \in A!Admins(Seen)
  BY <1>1, AdminSession
<1> QED
  BY <1>1, <1>2, <1>4, <1>5 DEF A!Delete, A!Administer, A!Known, Seen

\* One entry of the table gets another role or another password.
LEMMA EntryMaps ==
  ASSUME TypeInv, UsersInv, UniqueNames', Up, Up', NEW n \in Known, NEW e \in Entry, e.name = n,
         users' = [users EXCEPT ![find_user(n)] = e]
  PROVE  /\ Seen' = [Seen EXCEPT ![n] = AccountAt(e)]
         /\ DOMAIN Seen = Known /\ n \in Known /\ Seen[n] = AccountAt(users[find_user(n)])
<1> DEFINE x == find_user(n)
           f == [Seen EXCEPT ![n] = AccountAt(e)]
<1>1. /\ DOMAIN Seen = Known /\ x \in Index /\ users[x].name = n
      /\ Seen[n] = AccountAt(users[x])
  BY KnownEntry
<1>2. users \in Seq(Entry) /\ Index' = Index /\ Index = DOMAIN users
  BY DEF TypeInv, TypeOK, Index
<1>3. users'[x] = e /\ \A i \in Index : i # x => users'[i] = users[i]
  BY <1>1, <1>2
<1>4. DOMAIN f = Known
  BY <1>1
<1>5. ASSUME NEW m \in DOMAIN f
      PROVE  \E i \in Index' : users'[i].name = m /\ AccountAt(users'[i]) = f[m]
  <2>1. CASE m = n
    BY <1>1, <1>2, <1>3, <2>1
  <2>2. CASE m # n
    <3>1. /\ find_user(m) \in Index /\ users[find_user(m)].name = m
          /\ Seen[m] = AccountAt(users[find_user(m)])
      BY <1>4, <1>5, KnownEntry
    <3>2. find_user(m) # x /\ f[m] = Seen[m]
      BY <1>1, <1>4, <1>5, <2>2, <3>1
    <3> QED
      BY <1>2, <1>3, <3>1, <3>2
  <2> QED
    BY <2>1, <2>2
<1>6. ASSUME NEW i \in Index' PROVE users'[i].name \in DOMAIN f
  <2>1. CASE i = x
    BY <1>3, <1>4, <2>1
  <2>2. CASE i # x
    BY <1>2, <1>3, <1>4, <2>2, EntryAccount
  <2> QED
    BY <2>1, <2>2
<1>7. DOMAIN f \subseteq Names /\ f = [m \in DOMAIN f |-> f[m]]
  BY <1>4, SeenUp DEF Known
<1>8. Seen' = f
  <2> HIDE DEF f
  <2> QED
    BY <1>5, <1>6, <1>7, SeenNext
<1> QED
  BY <1>1, <1>8

\* setrole is SetRole, and leaves an administrator.
LEMMA SetRoleMaps ==
  ASSUME TypeInv, UsersInv, UsersInv', NEW n \in Names, NEW r \in Roles, setrole(n, r)
  PROVE  A!SetRole(n)
<1> DEFINE x == find_user(n)
           e == [users[x] EXCEPT !.role = r]
<1>1. /\ LoggedIn /\ Up /\ Up' /\ current_is_admin /\ current_user' = current_user
      /\ Found(n) # {} /\ users \in Seq(Entry) /\ users[x].role # r
      /\ r = "user" => (users[x].role = "admin" => admin_count > 1)
      /\ users' = [users EXCEPT ![x].role = r]
  BY DEF setrole, NotLastAdmin, Command, TypeInv, TypeOK, Up, LoggedIn
<1>2. n \in Known /\ DOMAIN Seen = Known /\ x \in Index /\ users[x].name = n /\ users[x] \in Entry
  BY <1>1, SeenUp, KnownEntry, EntryAccount DEF Known
<1>3. /\ e \in Entry /\ e.name = n /\ e.role = r /\ e.pass = users[x].pass
      /\ users' = [users EXCEPT ![x] = e]
  BY <1>1, <1>2 DEF Entry
<1>4. Seen' = [Seen EXCEPT ![n] = AccountAt(e)] /\ Seen[n] = AccountAt(users[x])
  BY <1>1, <1>2, <1>3, EntryMaps DEF UsersInv
<1>5. Seen' = [Seen EXCEPT ![n].role = r]
  <2>1. AccountAt(e) = [Seen[n] EXCEPT !.role = r]
    BY <1>3, <1>4 DEF AccountAt
  <2> QED
    BY <1>4, <2>1
<1>6. current_user \in A!Admins(Seen)
  BY <1>1, AdminSession
<1>7. A!Admins(Seen') # {}
  <2>1. CASE r = "admin"
    <3>1. Seen'[n].role = "admin" /\ n \in DOMAIN Seen'
      BY <1>2, <1>3, <1>4, <2>1 DEF AccountAt
    <3> QED
      BY <3>1 DEF A!Admins
  <2>2. CASE r = "user"
    <3>1. HasAdmin(users)
      <4>1. PICK s \in Index : SessionIs(s)
        BY <1>1 DEF UsersInv
      <4> QED
        BY <1>1, <4>1 DEF HasAdmin, SessionIs, Index
    <3>2. PICK i \in Index : i # x /\ users[i].role = "admin"
      BY <1>1, <1>2, <2>2, <3>1, AnotherAdmin
    <3>3. /\ users[i].name \in Known /\ Seen[users[i].name].role = "admin"
          /\ users[i].name # n
      <4>1. users[i].name \in Known /\ Seen[users[i].name] = AccountAt(users[i])
        BY <1>1, EntryAccount
      <4>2. users[i].name # n
        BY <1>2, <3>2 DEF UsersInv, UniqueNames
      <4> QED
        BY <3>2, <4>1, <4>2 DEF AccountAt
    <3>4. users[i].name \in DOMAIN Seen' /\ Seen'[users[i].name].role = "admin"
      BY <1>2, <1>4, <3>3
    <3> QED
      BY <3>4 DEF A!Admins
  <2> QED
    BY <2>1, <2>2 DEF Roles
<1>8. r \in A!Roles
  BY DEF Roles, A!Roles
<1> QED
  BY <1>1, <1>2, <1>5, <1>6, <1>7, <1>8 DEF A!SetRole, A!Administer, A!Known, Seen

\* passwd is Passwd.
LEMMA PasswdMaps ==
  ASSUME TypeInv, UsersInv, UsersInv', NEW p \in Passes, passwd(p)
  PROVE  A!Passwd
<1> DEFINE x == find_user(current_user)
           e == [users[x] EXCEPT !.pass = p]
<1>1. /\ LoggedIn /\ Up /\ Up' /\ current_user' = current_user /\ users \in Seq(Entry)
      /\ users' = [users EXCEPT ![x].pass = p]
  BY DEF passwd, Command, TypeInv, TypeOK, Up, LoggedIn
<1>2. current_user \in Known
  BY <1>1, AdminSession
<1>3. x \in Index /\ users[x].name = current_user /\ users[x] \in Entry /\ DOMAIN Seen = Known
  BY <1>1, <1>2, KnownEntry, EntryAccount
<1>4. /\ e \in Entry /\ e.name = current_user /\ e.role = users[x].role /\ e.pass = p
      /\ users' = [users EXCEPT ![x] = e]
  BY <1>1, <1>3 DEF Entry
<1>5. /\ Seen' = [Seen EXCEPT ![current_user] = AccountAt(e)]
      /\ Seen[current_user] = AccountAt(users[x])
  BY <1>1, <1>2, <1>3, <1>4, EntryMaps DEF UsersInv
<1>6. Seen' = [Seen EXCEPT ![current_user].pass = p]
  <2>1. AccountAt(e) = [Seen[current_user] EXCEPT !.pass = p]
    BY <1>4, <1>5 DEF AccountAt
  <2> QED
    BY <1>5, <2>1
<1> QED
  BY <1>1, <1>2, <1>3, <1>6 DEF A!Passwd, A!Known, Seen

\* A login is one of a known account; a third wrong try stops the machine.
LEMMA LoginMaps ==
  ASSUME TypeInv, UsersInv, NEW n \in Names, NEW p \in Passes, authenticate(n, p)
  PROVE  A!Login(n) \/ A!Stop \/ UNCHANGED A!vars
<1>1. /\ Up /\ ~LoggedIn /\ current_user = NoUser /\ users' = users
  BY DEF authenticate, Up, LoggedIn, UsersInv
<1>2. CASE Up'
  <2>1. Seen' = Seen
    BY <1>1, <1>2 DEF Seen, Found, AccountOf, find_user, Index
  <2>2. CASE current_user' = n /\ Found(n) # {}
    BY <1>1, <1>2, <2>1, <2>2, SeenUp DEF A!Login, A!Known, Known, Seen
  <2>3. CASE current_user' = current_user
    BY <1>1, <1>2, <2>1, <2>3 DEF A!vars, Seen
  <2> QED
    BY <2>2, <2>3 DEF authenticate, session
<1>3. CASE ~Up'
  <2>1. current_user' = NoUser
    BY <1>1, <1>3 DEF authenticate, session, Up, LoggedIn
  <2>2. Seen' = [m \in {} |-> m]
    BY <1>3 DEF Seen
  <2> QED
    BY <1>3, <2>1, <2>2 DEF A!Stop, A!Empty, Seen
<1> QED
  BY <1>2, <1>3

\* The boot starts the system with the accounts it found.
LEMMA StartMaps ==
  ASSUME ~Up, Up', current_user' = NoUser, TypeInv', UniqueNames'
  PROVE  A!Start
<1> DEFINE S == {m \in Names : Found(m)' # {}}
<1>1. ASSUME NEW m \in S PROVE AccountOf(m)' \in A!Account
  <2>1. PICK i \in Index' : users'[i].name = m
    BY DEF Found
  <2>2. users'[i] \in Entry
    BY <2>1 DEF Index, TypeInv, TypeOK
  <2>3. AccountOf(m)' = AccountAt(users'[i])
    BY <2>1, AccountIsNext
  <2> QED
    BY <2>2, <2>3 DEF AccountAt, Entry, A!Account, A!Roles, Roles
<1>2. Seen' = [m \in S |-> AccountOf(m)']
  BY DEF Seen
<1>3. Seen' \in [S -> A!Account] /\ S \in SUBSET Names
  BY <1>1, <1>2
<1> QED
  BY <1>3 DEF A!Start, Seen

\* What changes neither the table nor the session is not seen by Accounts, and
\* neither is anything before the login.
LEMMA Unseen ==
  ASSUME current_user' = current_user,
         \/ Up /\ Up' /\ users' = users
         \/ ~Up /\ ~Up'
  PROVE  UNCHANGED A!vars
<1>1. Seen' = Seen
  BY DEF Seen, Found, AccountOf, find_user, Index
<1>2. Up' = Up
  BY DEF Up, LoggedIn
<1> QED
  BY <1>1, <1>2 DEF A!vars, Seen

\* Every step of the user administration is a step of Accounts or invisible.
LEMMA AccountsStep ==
  ASSUME TypeInv, TypeInv', UsersInv, UsersInv', [Next]_vars
  PROVE  [A!Next]_(A!vars)
<1>1. CASE \E n \in Names, p \in Passes, r \in Roles : createuser(n, p, r)
  BY <1>1, CreateMaps DEF UsersInv, A!Next
<1>2. CASE \E n \in Names : deluser(n)
  BY <1>2, DeleteMaps DEF UsersInv, A!Next
<1>3. CASE \E n \in Names, r \in Roles : setrole(n, r)
  BY <1>3, SetRoleMaps DEF A!Next
<1>4. CASE \E p \in Passes : passwd(p)
  BY <1>4, PasswdMaps DEF A!Next
<1>5. CASE \E n \in Names, p \in Passes : authenticate(n, p)
  BY <1>5, LoginMaps DEF A!Next
<1>6. CASE power_cycle
  <2>1. ~Up' /\ current_user' = NoUser
    BY <1>6 DEF power_cycle, Up, LoggedIn
  <2>2. Seen' = [m \in {} |-> m]
    BY <2>1 DEF Seen
  <2> QED
    BY <2>1, <2>2 DEF A!Next, A!Stop, A!Empty, Seen
<1>7. CASE Boot
  <2>1. ~Up /\ ~LoggedIn /\ current_user = NoUser /\ current_user' = current_user
    BY <1>7 DEF Boot, mount_at_boot, boot_fails, parse_line, parse_end, session, Up, LoggedIn, UsersInv
  <2>2. CASE Up'
    BY <2>1, <2>2, StartMaps DEF UsersInv, A!Next
  <2> QED
    BY <2>1, <2>2, Unseen
<1>8. CASE Save \/ cmd_mount \/ edit_card
  <2>1. Up /\ Up' /\ users' = users /\ current_user' = current_user
    BY <1>8 DEF Save, save_open, save_line, save_error, save_close, Write, EndSave, cmd_mount,
       edit_card, session, Up, LoggedIn
  <2> QED
    BY <2>1, Unseen
<1>9. CASE UNCHANGED vars
  <2>1. users' = users /\ current_user' = current_user /\ pc' = pc
    BY <1>9 DEF vars, session
  <2> QED
    BY <2>1, Unseen DEF Up, LoggedIn
<1> QED
  BY <1>1, <1>2, <1>3, <1>4, <1>5, <1>6, <1>7, <1>8, <1>9 DEF Next, Shell

\* With any disk fault, the running system is an account table in which only an
\* administrator changes accounts, the session's account cannot be removed and
\* no role change leaves it without an administrator.
THEOREM UsersImplementAccounts == ASSUME CardsAreUnique PROVE Spec => ImplementsAccounts
<1>1. Init => A!Init
  <2> SUFFICES ASSUME Init PROVE A!Init
    OBVIOUS
  <2>1. ~Up /\ current_user = NoUser
    BY DEF Init, Up, LoggedIn
  <2>2. Seen = [m \in {} |-> m]
    BY <2>1 DEF Seen
  <2> QED
    BY <2>1, <2>2 DEF A!Init, A!Empty, Seen
<1>2. TypeInv /\ TypeInv' /\ UsersInv /\ UsersInv' /\ [Next]_vars => [A!Next]_(A!vars)
  BY AccountsStep
<1> QED
  BY <1>1, <1>2, TypeInductive, UsersInvariant, PTL DEF Spec, ImplementsAccounts, A!Spec
=============================================================================
