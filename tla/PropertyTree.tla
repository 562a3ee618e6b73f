---------------------------- MODULE PropertyTree ----------------------------
(***************************************************************************)
(* MyPropertyTree: settings as a tree of nodes with named children.  A node*)
(* is named by its path, the sequence of keys from the root; paths are cut *)
(* at "/" without empty pieces (MyCommon::split).  Copies of a tree share  *)
(* its root, so one tree stands for all of them.                           *)
(*                                                                         *)
(* Keys are strings, ordered as std::map orders them, character by         *)
(* character; characters are numbers, and those below Base are the digits  *)
(* of a system with that base (10 in the code), in which an array numbers  *)
(* its elements.  Calls are numbered and each puts its own number as the   *)
(* value; reads ask for the type that was put.                             *)
(***************************************************************************)
EXTENDS Naturals, Sequences, SequencesExt, FiniteSets

CONSTANTS
  Base,
  CallPaths,  \* paths that set() and push_back() are given
  CallKeys,   \* and the keys
  Appended,   \* keys that are appended to the root
  MaxCalls,   \* bound: calls
  Thrown      \* a read that throws

Strings == Seq(Nat)

ASSUME TreeAssumption ==
  /\ Base \in Nat /\ Base > 1
  /\ MaxCalls \in Nat
  /\ CallPaths \subseteq Seq(Strings) /\ \A p \in CallPaths : p # <<>>
  /\ CallKeys \subseteq Strings /\ Appended \subseteq Strings

VARIABLES
  nodes,  \* the tree
  calls   \* the calls made, oldest first

treeVars == <<nodes, calls>>

Root == <<>>
Leaf(v) == [type |-> "leaf", v |-> v]
Trunk == [type |-> "trunk", v |-> 0]
Array == [type |-> "array", v |-> 0]

TreeInit ==
  /\ nodes = [p \in {Root} |-> Trunk]
  /\ calls = <<>>

(* tostr(): n in digits. *)
IndexKey(n) == IF n < Base THEN <<n>> ELSE <<n \div Base, n % Base>>

(* std::string's order. *)
Less(k, l) ==
  \/ IsStrictPrefix(k, l)
  \/ \E i \in DOMAIN k \cap DOMAIN l :
       k[i] < l[i] /\ SubSeq(k, 1, i - 1) = SubSeq(l, 1, i - 1)

Children(tree, p) == {Last(q) : q \in {r \in DOMAIN tree \ {Root} : Front(r) = p}}
-----------------------------------------------------------------------------
(* add_child() of a new node: what was there goes with all below it. *)
Placed(tree, p, node) ==
  [q \in {r \in DOMAIN tree : ~IsPrefix(p, r)} \cup {p} |->
     IF q = p THEN node ELSE tree[q]]

(* The nodes along a path, made where they are missing. *)
Opened(tree, path) ==
  [q \in DOMAIN tree \cup {SubSeq(path, 1, i) : i \in DOMAIN path} |->
     IF q \in DOMAIN tree THEN tree[q] ELSE Trunk]

(* Mutant: the value is put into the node that is there. *)
SetInPlace(path, k, v) ==
  LET tree == Opened(nodes, Append(path, k))
  IN [tree EXCEPT ![Append(path, k)] = Leaf(v)]

(* set() *)
SetValue(path, k, v) == Placed(Opened(nodes, path), Append(path, k), Leaf(v))

(* add(): the new element's index is the number of children, whatever they *)
(* are called; a node with a value takes no elements.                      *)
Added(tree, p, v) ==
  IF tree[p].type = "leaf" THEN tree
  ELSE [Placed(tree, Append(p, IndexKey(Cardinality(Children(tree, p)))), Leaf(v))
          EXCEPT ![p] = Array]

PushedBack(path, k, v) == Added(Opened(nodes, Append(path, k)), Append(path, k), v)

(* append(), to any node of the tree. *)
Appending(parent, k, v) == Placed(nodes, Append(parent, k), Leaf(v))
-----------------------------------------------------------------------------
Find(p) == p \in DOMAIN nodes

(* get(): the default only when there is no such node. *)
Get(path, k, default) ==
  IF Find(Append(path, k)) THEN nodes[Append(path, k)].v ELSE default

IsArray(p) == Find(p) /\ nodes[p].type = "array"

(* array_size() of path and k looks at the node of the path alone. *)
ArraySize(path) == IF IsArray(path) THEN Cardinality(Children(nodes, path)) ELSE 0

At(path, k, index) ==
  LET p == Append(path, k)
  IN IF IsArray(p) /\ Find(Append(p, IndexKey(index)))
     THEN nodes[Append(p, IndexKey(index))].v ELSE Thrown

(* get_array(): in the order of the map. *)
GetArray(path, k) ==
  LET p == Append(path, k)
      keys == Children(nodes, p)
      Nth(i) == CHOOSE l \in keys : Cardinality({m \in keys : Less(m, l)}) = i - 1
  IN IF IsArray(p)
     THEN [i \in 1 .. Cardinality(keys) |-> nodes[Append(p, Nth(i))].v]
     ELSE Thrown
-----------------------------------------------------------------------------
Recording(op, p) == calls' = Append(calls, [op |-> op, at |-> p])
Value == Len(calls) + 1

TreeNext ==
  /\ Len(calls) < MaxCalls
  /\ \/ \E path \in CallPaths, k \in CallKeys :
          \/ nodes' = SetValue(path, k, Value) /\ Recording("set", Append(path, k))
          \/ nodes' = PushedBack(path, k, Value) /\ Recording("push", Append(path, k))
     \/ \E k \in Appended :
          nodes' = Appending(Root, k, Value) /\ Recording("set", <<k>>)

TreeSpec == TreeInit /\ [][TreeNext]_treeVars
-----------------------------------------------------------------------------
(* The nodes form a tree: a node's parent is there. *)
TreeTypeOK ==
  /\ Root \in DOMAIN nodes
  /\ \A p \in DOMAIN nodes \ {Root} : Front(p) \in DOMAIN nodes
  /\ \A p \in DOMAIN nodes : nodes[p].type \in {"leaf", "trunk", "array"}

(* From the history of calls alone.  Call i's node is gone when an ancestor*)
(* was set later; an element somebody named by hand may also be overwritten*)
(* by a push onto its array.                                               *)
IndexKeys == {IndexKey(n) : n \in 0 .. MaxCalls}
SetLater(p, i) ==
  \E j \in i + 1 .. Len(calls) : calls[j].op = "set" /\ IsPrefix(calls[j].at, p)
PushedOver(p, i) ==
  \E j \in i + 1 .. Len(calls) :
    /\ calls[j].op = "push" /\ IsStrictPrefix(calls[j].at, p)
    /\ p[Len(calls[j].at) + 1] \in IndexKeys

(* The pushes onto p since it was last made, and how many came before i.   *)
Pushes(p) ==
  {i \in DOMAIN calls : calls[i] = [op |-> "push", at |-> p] /\ ~SetLater(p, i)}
PushesBefore(p, i) == Cardinality({j \in Pushes(p) : j < i})
HandMade(p) ==
  \/ \E j \in DOMAIN calls :
       \/ IsStrictPrefix(p, calls[j].at)
       \/ calls[j].op = "set" /\ calls[j].at = p
  \/ PushedOver(p, 0)

(* What was set is what is read, until it or an ancestor is set again.     *)
SetIsRead ==
  \A i \in DOMAIN calls :
    LET p == calls[i].at
    IN calls[i].op = "set" /\ ~SetLater(p, i) /\ ~PushedOver(p, i)
         => Get(Front(p), Last(p), 0) = i

(* What was pushed onto a key that nothing else was done to is read by its *)
(* index, and as an array in the order it was pushed, as long as indices   *)
(* have one digit.                                                         *)
PushedIsRead ==
  \A path \in CallPaths, k \in CallKeys :
    LET p == Append(path, k)
        n == Cardinality(Pushes(p))
    IN Pushes(p) # {} /\ ~HandMade(p) =>
         /\ ArraySize(p) = n
         /\ \A i \in Pushes(p) : At(path, k, PushesBefore(p, i)) = i
         /\ At(path, k, n) = Thrown
         /\ n <= Base =>
              /\ Len(GetArray(path, k)) = n
              /\ \A i \in Pushes(p) : GetArray(path, k)[PushesBefore(p, i) + 1] = i

TreeRemembers == SetIsRead /\ PushedIsRead
=============================================================================
