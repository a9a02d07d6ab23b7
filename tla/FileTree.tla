------------------------------ MODULE FileTree ------------------------------
(***************************************************************************)
(* What a user of the file commands is promised: a tree of directories and *)
(* files.  A command changes the paths it names and no other.  When power  *)
(* fails before a command has reached the disk, the tree is the one before *)
(* it, or the one after it, or the one before it with the file that the    *)
(* command was writing left empty.                                         *)
(***************************************************************************)
EXTENDS Naturals, Sequences, SequencesExt

CONSTANTS Paths, Texts,
          Trees   \* those there may be to begin with

VARIABLES tree,     \* the node at each path that exists
          durable   \* the tree before the command that may not be on the disk yet

vars == <<tree, durable>>

DirNode     == [dir |-> TRUE, data |-> <<>>]
FileNode(d) == [dir |-> FALSE, data |-> d]
Exists(p) == p \in DOMAIN tree
IsDir(p)  == Exists(p) /\ tree[p].dir
IsFile(p) == Exists(p) /\ ~tree[p].dir
HasPlace(p) == p # <<>> /\ IsDir(Front(p))   \* a node at p would have a directory
Under(p) == {q \in DOMAIN tree : IsPrefix(p, q)}

With(p, n) == [q \in DOMAIN tree \cup {p} |-> IF q = p THEN n ELSE tree[q]]
Without(S) == [q \in DOMAIN tree \ S |-> tree[q]]

Init == tree \in Trees /\ durable = tree
-----------------------------------------------------------------------------
Command == durable' \in {tree, tree'}

Mkdir(p) == Command /\ ~Exists(p) /\ HasPlace(p) /\ tree' = With(p, DirNode)

Touch(p) == Command /\ ~Exists(p) /\ HasPlace(p) /\ tree' = With(p, FileNode(<<>>))

\* A command that finds the volume full stores what there is room for.
Put(p, old, d) == /\ Command /\ HasPlace(p) /\ ~IsDir(p)
                  /\ \E e \in Prefixes(d) : tree' = With(p, FileNode(old \o e))

Write(p, text) == Put(p, <<>>, text)
AppendTo(p, text) == Put(p, IF IsFile(p) THEN tree[p].data ELSE <<>>, text)
Copy(p, q) == IsFile(p) /\ Put(q, <<>>, tree[p].data)

Delete(p) == Command /\ Exists(p) /\ p # <<>> /\ Under(p) = {p} /\ tree' = Without({p})

\* Everything under p is under q afterwards.
Moved(p, q, r) == q \o SubSeq(r, Len(p) + 1, Len(r))
Move(p, q) == /\ Command /\ Exists(p) /\ p # <<>> /\ HasPlace(q) /\ ~IsPrefix(p, q) /\ ~Exists(q)
              /\ tree' = [r \in (DOMAIN tree \ Under(p)) \cup {Moved(p, q, s) : s \in Under(p)} |->
                             IF IsPrefix(q, r) THEN tree[Moved(q, p, r)] ELSE tree[r]]
-----------------------------------------------------------------------------
Reach == durable' = tree /\ UNCHANGED tree

\* An entry that was being made or changed, in a directory that was there.
Halfway(p) == /\ p # <<>> /\ Front(p) \in DOMAIN durable /\ durable[Front(p)].dir
              /\ p \in DOMAIN durable => ~durable[p].dir
              /\ p \notin DOMAIN durable \/ p \notin DOMAIN tree \/ durable[p] # tree[p]
PowerFails ==
    /\ \/ tree' \in {tree, durable}
       \/ \E p \in Paths : /\ Halfway(p)
                           /\ tree' = [q \in DOMAIN durable \cup {p} |->
                                          IF q = p THEN FileNode(<<>>) ELSE durable[q]]
    /\ durable' = tree'

Next == \/ \E p \in Paths : Mkdir(p) \/ Touch(p) \/ Delete(p)
        \/ \E p \in Paths, d \in Texts : Write(p, d) \/ AppendTo(p, d)
        \/ \E p, q \in Paths : Copy(p, q) \/ Move(p, q)
        \/ Reach \/ PowerFails
Spec == Init /\ [][Next]_vars
-----------------------------------------------------------------------------
\* Everything in front of a path is a directory.
IsTree(t) == /\ <<>> \in DOMAIN t /\ t[<<>>].dir
             /\ \A p \in DOMAIN t : \A n \in 0 .. Len(p) - 1 :
                    SubSeq(p, 1, n) \in DOMAIN t /\ t[SubSeq(p, 1, n)].dir

\* No command and no power failure leaves a node without its directory.
TreeOK == IsTree(tree) /\ IsTree(durable)
=============================================================================
