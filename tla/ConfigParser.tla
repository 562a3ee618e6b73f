---------------------------- MODULE ConfigParser ----------------------------
(***************************************************************************)
(* MyXmlConfigFileParser (util/MyConfig.cc): one pass over an XML document *)
(* that files the text of its elements in a property tree under the names  *)
(* of the elements around them.  visit() calls itself last and nowhere     *)
(* else, so a visit is a place in the document and a node of the tree.     *)
(*                                                                         *)
(* A document is a function from places, the sequences of positions that   *)
(* lead to its nodes, to what is there.  tinyxml2 is modelled from its use:*)
(* GetText() is the text an element begins with.  The children of a "text" *)
(* element are those after its text; "other" is a comment, or text that    *)
(* does not begin its element.                                             *)
(***************************************************************************)
EXTENDS PropertyTree

CONSTANTS
  Documents,  \* [kind: what is at a place, alike: siblings share a name]
  NoPlace

(* Places are those of a tree: ancestors and earlier siblings are there, and*)
(* whatever has children is an element or begins with a text.              *)
ASSUME DocumentAssumption ==
  \A d \in Documents :
    /\ d.alike \in BOOLEAN
    /\ <<1>> \in DOMAIN d.kind /\ NoPlace \notin DOMAIN d.kind
    /\ \A e \in DOMAIN d.kind :
         /\ e \in Seq(Nat \ {0}) /\ e # <<>>
         /\ d.kind[e] \in {"text", "element", "empty", "other"}
         /\ d.kind[e] = "element" => Append(e, 1) \in DOMAIN d.kind
         /\ \A i \in 1 .. Len(e) - 1 : /\ SubSeq(e, 1, i) \in DOMAIN d.kind
                                      /\ d.kind[SubSeq(e, 1, i)] \in {"element", "text"}
         /\ \A n \in 1 .. Last(e) - 1 : Append(Front(e), n) \in DOMAIN d.kind

VARIABLES
  doc,     \* doc_, or none before LoadFile()
  place,   \* visit()'s node, or NoPlace for a null pointer
  parent,  \* visit()'s parent, or NoPlace
  filed    \* elements whose text was filed, in order

parseVars == <<doc, place, parent, filed>>

NoDocument == [kind |-> <<>>, alike |-> FALSE]

ParseInit ==
  /\ doc = NoDocument
  /\ place = NoPlace /\ parent = NoPlace
  /\ filed = <<>>

(* Letters come after the digits. *)
Name(e) == <<Base + (IF doc.alike THEN 0 ELSE Last(e))>>
TreePath(e) == [i \in DOMAIN e |-> Name(SubSeq(e, 1, i))]

NextSibling(e) ==
  LET f == Append(Front(e), Last(e) + 1)
  IN IF f \in DOMAIN doc.kind THEN f ELSE NoPlace
FirstChild(e) == Append(e, 1)

(* A file that cannot be loaded changes nothing. *)
LoadFile ==
  /\ doc = NoDocument
  /\ doc' \in Documents
  /\ place' = <<1>> /\ parent' = Root
  /\ UNCHANGED <<nodes, filed>>

Visit(e, p) == place' = e /\ parent' = p

(* Mutant: the siblings of the parent are filed under the parent. *)
VisitParentsSiblingKeeps(e) ==
  IF Len(e) = 1 THEN Visit(NoPlace, NoPlace)
  ELSE Visit(NextSibling(Front(e)), parent)

(* The next sibling of the parent, and the parent's own parent. *)
VisitParentsSibling(e) ==
  IF Len(e) = 1 THEN Visit(NoPlace, NoPlace)
  ELSE Visit(NextSibling(Front(e)), Front(parent))

Visiting(kind) == place # NoPlace /\ doc.kind[place] = kind

VisitText ==
  /\ Visiting("text")
  /\ filed' = Append(filed, place)
  /\ nodes' = Placed(nodes, Append(parent, Name(place)), Leaf(Len(filed) + 1))
  /\ IF NextSibling(place) # NoPlace
     THEN Visit(NextSibling(place), parent)
     ELSE VisitParentsSibling(place)
  /\ UNCHANGED doc

(* What is left of the parent is not visited. *)
VisitEmpty ==
  /\ Visiting("empty")
  /\ VisitParentsSibling(place)
  /\ UNCHANGED <<nodes, doc, filed>>

VisitElement ==
  /\ Visiting("element")
  /\ LET next == Append(parent, Name(place))
     IN /\ nodes' = Placed(nodes, next, Trunk)
        /\ Visit(FirstChild(place), next)
  /\ UNCHANGED <<doc, filed>>

VisitOther ==
  /\ Visiting("other")
  /\ Visit(NoPlace, NoPlace)
  /\ UNCHANGED <<nodes, doc, filed>>

ParseNext ==
  /\ \/ LoadFile
     \/ VisitText \/ VisitEmpty \/ VisitElement \/ VisitOther
  /\ UNCHANGED calls

ParseSpec == TreeInit /\ ParseInit /\ [][ParseNext]_<<treeVars, parseVars>>
-----------------------------------------------------------------------------
ParseTypeOK ==
  /\ place = NoPlace \/ place \in DOMAIN doc.kind
  /\ place # NoPlace => parent \in DOMAIN nodes
  /\ \A i \in DOMAIN filed : doc.kind[filed[i]] = "text"

Before(x, e) ==
  \/ IsStrictPrefix(x, e)
  \/ \E i \in DOMAIN x \cap DOMAIN e :
       x[i] < e[i] /\ SubSeq(x, 1, i - 1) = SubSeq(e, 1, i - 1)
IsLast(e) == NextSibling(e) = NoPlace

(* What makes the pass lose e: an empty element, for the rest of its parent*)
(* and, when that is a last child, for all; a comment; a text around e; two*)
(* closing tags in a row.                                                  *)
Loses(x, e) ==
  /\ Before(x, e)
  /\ CASE doc.kind[x] = "other" -> TRUE
       [] doc.kind[x] = "element" -> FALSE
       [] doc.kind[x] = "empty" ->
            Len(x) = 1 \/ IsPrefix(Front(x), e) \/ IsLast(Front(x))
       [] doc.kind[x] = "text" ->
            \/ IsStrictPrefix(x, e)
            \/ Len(x) > 1 /\ IsLast(x) /\ IsLast(Front(x))

(* A later element has the name of x or of an element around it.           *)
Replaced(x) ==
  \E e \in DOMAIN doc.kind : Before(x, e) /\ IsPrefix(TreePath(e), TreePath(x))

(* The pass never loses its place: the tree node it files under is the one *)
(* of the element it is in, so a text is found under the names around it,  *)
(* unless a later element of one of these names replaced it; and no text is*)
(* passed over but for the causes in Loses.                                *)
ParsedInPlace ==
  /\ place # NoPlace => parent = TreePath(Front(place))
  /\ place = NoPlace /\ doc # NoDocument =>
       /\ \A i \in DOMAIN filed :
            Get(TreePath(Front(filed[i])), Name(filed[i]), 0) = i \/ Replaced(filed[i])
       /\ \A e \in DOMAIN doc.kind : doc.kind[e] = "text" =>
            \/ \E i \in DOMAIN filed : filed[i] = e
            \/ \E x \in DOMAIN doc.kind : Loses(x, e)
=============================================================================
