------------------------------ MODULE HeapTree ------------------------------
(***************************************************************************)
(* The heap tracker (Heap.c) and the red-black tree it keeps its records   *)
(* in (Tree.c).  Every block the library allocates is a record             *)
(* [ptr, size] in the tree, ordered by ptr; the tree has one index and     *)
(* refuses duplicates, as Heap_initialize sets it up.                      *)
(*                                                                         *)
(* A node is an address of Nodes; NULL is 0.  Removing a node with two     *)
(* children moves the content of its successor into it, so nodes and       *)
(* contents have separate identities while it is under way.  Nothing keeps *)
(* the address of a node between two operations, so between them a node    *)
(* has the name of its content (Rename).  malloc and realloc do not fail.  *)
(* The loops of Tree.c are recursive operators: this module is for TLC.    *)
(***************************************************************************)
EXTENDS Integers, Sequences, FiniteSets, FiniteSetsExt

CONSTANTS Ptrs,      \* the addresses malloc and realloc may return, a set of integers
          SizeAt(_)  \* the size that is asked for when this address is returned

ASSUME HeapConstants ==
  Ptrs \subseteq Nat \ {0} /\ Ptrs # {} /\ \A p \in Ptrs : SizeAt(p) \in Nat \ {0}

VARIABLES tree,      \* the static Tree "heap" of Heap.c
          heapState, \* heap_info state: current_size and max_size
          blocks     \* ghost: the blocks the callers hold, a function ptr -> size asked for

heapVars == <<tree, heapState, blocks>>

LEFT == 0
RIGHT == 1
NULL == 0
Temp == Max(Ptrs) + 1          \* the Node temp on the stack of TreeRemoveNodeIndex
Nodes == Ptrs \cup {Temp}
NoContent == [ptr |-> 0, size |-> 0]
Empty == [content |-> NoContent, size |-> 0, red |-> FALSE, parent |-> NULL,
          child |-> [d \in {LEFT, RIGHT} |-> NULL]]

\* TreeInitializeNoMalloc
NewTree == [root |-> NULL, node |-> [a \in Nodes |-> Empty], count |-> 0, size |-> 0]

Child(t, n, d) == t.node[n].child[d]
Parent(t, n) == t.node[n].parent
isRed(t, n) == n # NULL /\ t.node[n].red
isBlack(t, n) == ~isRed(t, n)
Paint(t, n, red) == [t EXCEPT !.node[n].red = red]
Live(t) == {a \in Nodes : t.node[a].content # NoContent}

(***************************************************************************)
(* Rotation and the repair after an insertion.                             *)
(***************************************************************************)
SetParent(t, n, up) == IF n # NULL THEN [t EXCEPT !.node[n].parent = up] ELSE t

\* new takes the place of old below up; dir is the side that is looked at first
ReplaceChild(t, up, old, new, dir) ==
  IF up = NULL THEN [t EXCEPT !.root = new]
  ELSE [t EXCEPT !.node[up].child[IF Child(t, up, dir) = old THEN dir ELSE 1 - dir] = new]

\* A rotation that forgets the parent of the subtree it moves.
TreeRotateNoParent(t, cur, dir) ==
  LET other == Child(t, cur, 1 - dir)
      up    == Parent(t, cur)
      moved == [t EXCEPT !.node[cur].child[1 - dir] = Child(t, other, dir), !.node[other].parent = up]
  IN [ReplaceChild(moved, up, cur, other, dir) EXCEPT !.node[other].child[dir] = cur, !.node[cur].parent = other]

TreeRotate(t, cur, dir) ==
  LET other == Child(t, cur, 1 - dir)
      inner == Child(t, other, dir)
      up    == Parent(t, cur)
      moved == [t EXCEPT !.node[cur].child[1 - dir] = inner, !.node[other].parent = up]
  IN [ReplaceChild(SetParent(moved, inner, cur), up, cur, other, dir)
        EXCEPT !.node[other].child[dir] = cur, !.node[cur].parent = other]

\* TreeBAASub returns the tree and the node to go on with
TreeBAASub(t, cur, which) ==
  LET parent == Parent(t, cur)
      grand  == Parent(t, parent)
      uncle  == Child(t, grand, which)
      outer(u, c) ==     \* c is on the outer side
        LET p == Parent(u, c) g == Parent(u, p)
        IN [t |-> TreeRotate(Paint(Paint(u, p, FALSE), g, TRUE), g, which), cur |-> c]
  IN IF isRed(t, uncle)
     THEN [t |-> Paint(Paint(Paint(t, parent, FALSE), uncle, FALSE), grand, TRUE), cur |-> grand]
     ELSE IF cur = Child(t, parent, which) THEN outer(TreeRotate(t, parent, 1 - which), parent)
     ELSE outer(t, cur)

\* s is a tree and a node
RECURSIVE TreeBalanceAfterAdd(_)
TreeBalanceAfterAdd(s) ==
  LET parent == Parent(s.t, s.cur)
      grand  == Parent(s.t, parent)
  IN IF isRed(s.t, parent) /\ grand # NULL
     THEN TreeBalanceAfterAdd(TreeBAASub(s.t, s.cur, IF parent = Child(s.t, grand, LEFT) THEN RIGHT ELSE LEFT))
     ELSE Paint(s.t, s.t.root, FALSE)

(***************************************************************************)
(* Searching: a larger key is found at RIGHT (ptrCompare).                 *)
(***************************************************************************)
RECURSIVE Descend(_, _, _, _)
Descend(t, ptr, cur, parent) ==
  IF cur = NULL \/ t.node[cur].content.ptr = ptr THEN [node |-> cur, parent |-> parent]
  ELSE Descend(t, ptr, Child(t, cur, IF t.node[cur].content.ptr < ptr THEN RIGHT ELSE LEFT), cur)

TreeFindIndex(t, ptr) == Descend(t, ptr, t.root, NULL).node

TreeAdd(t, content, size) ==
  LET added(at) ==
        LET new == content.ptr
            side == IF at.parent # NULL /\ t.node[at.parent].content.ptr < new THEN RIGHT ELSE LEFT
            u == [t EXCEPT !.node[new] = [Empty EXCEPT !.content = content, !.size = size, !.red = TRUE, !.parent = at.parent],
                           !.count = @ + 1, !.size = @ + size]
        IN [t |-> IF at.parent = NULL THEN [u EXCEPT !.root = new] ELSE [u EXCEPT !.node[at.parent].child[side] = new],
            cur |-> new]
      replaced(at) ==    \* no duplicates
        [t |-> [t EXCEPT !.size = @ + size - t.node[at.node].size,
                         !.node[at.node].content = content, !.node[at.node].size = size],
         cur |-> at.node]
      put(at) == IF at.node # NULL THEN replaced(at) ELSE added(at)
  IN TreeBalanceAfterAdd(put(Descend(t, content.ptr, t.root, NULL)))

RECURSIVE TreeMinimum(_, _)
TreeMinimum(t, n) == IF n # NULL /\ Child(t, n, LEFT) # NULL THEN TreeMinimum(t, Child(t, n, LEFT)) ELSE n

RECURSIVE Ascend(_, _, _)
Ascend(t, n, parent) ==
  IF parent # NULL /\ n = Child(t, parent, RIGHT) THEN Ascend(t, parent, Parent(t, parent)) ELSE parent

TreeSuccessor(t, n) ==
  IF Child(t, n, RIGHT) # NULL THEN TreeMinimum(t, Child(t, n, RIGHT)) ELSE Ascend(t, n, Parent(t, n))

TreeNextElement(t, n) == IF n = NULL THEN TreeMinimum(t, t.root) ELSE TreeSuccessor(t, n)

(***************************************************************************)
(* The repair after a removal, and the removal.                            *)
(***************************************************************************)
\* the parts of TreeBARSub: the sibling made black, then its child on the side which made red
AtRoot(t) == [t |-> t, cur |-> t.root]

FarRed(t, cur, which) ==
  LET up  == Parent(t, cur)
      sib == Child(t, up, which)
  IN AtRoot(TreeRotate(Paint(Paint(Paint(t, sib, isRed(t, up)), up, FALSE), Child(t, sib, which), FALSE), up, 1 - which))

BlackSibling(t, cur, which) ==
  LET up   == Parent(t, cur)
      sib  == Child(t, up, which)
      near == Child(t, sib, 1 - which)
  IN IF sib = NULL THEN [t |-> t, cur |-> up]
     ELSE IF isBlack(t, near) /\ isBlack(t, Child(t, sib, which)) THEN [t |-> Paint(t, sib, TRUE), cur |-> up]
     ELSE IF isBlack(t, Child(t, sib, which))
          THEN FarRed(TreeRotate(Paint(Paint(t, near, FALSE), sib, TRUE), sib, which), cur, which)
     ELSE FarRed(t, cur, which)

TreeBARSub(t, cur, which) ==
  LET up  == Parent(t, cur)
      sib == Child(t, up, which)
  IN BlackSibling(IF isRed(t, sib) THEN TreeRotate(Paint(Paint(t, sib, FALSE), up, TRUE), up, 1 - which) ELSE t,
                  cur, which)

\* s is a tree and a node
RECURSIVE TreeBalanceAfterRemove(_)
TreeBalanceAfterRemove(s) ==
  LET seen == IF s.t.node[s.cur].content # NoContent THEN s.cur ELSE NULL
      which == IF seen = Child(s.t, Parent(s.t, s.cur), LEFT) THEN RIGHT ELSE LEFT
  IN IF s.cur # s.t.root /\ isBlack(s.t, s.cur) THEN TreeBalanceAfterRemove(TreeBARSub(s.t, s.cur, which))
     ELSE Paint(s.t, s.cur, FALSE)

\* the same tree with the addresses a and b exchanged
Rename(t, a, b) ==
  LET f(x) == CASE x = a -> b [] x = b -> a [] OTHER -> x
  IN [t EXCEPT !.root = f(@),
               !.node = [n \in Nodes |-> [t.node[f(n)] EXCEPT !.parent = f(@),
                                           !.child = [d \in {LEFT, RIGHT} |-> f(@[d])]]]]

TreeRemoveNodeIndex(t, cur) ==
  LET balanced(u, redundant, child, up) ==
        IF isRed(u, redundant) \/ (child = NULL /\ up = NULL) THEN u
        ELSE TreeBalanceAfterRemove(IF child # NULL THEN [t |-> u, cur |-> child]
                                    ELSE [t |-> [u EXCEPT !.node[Temp] = [Empty EXCEPT !.parent = up]], cur |-> Temp])
      remove(redundant) ==
        LET child == Child(t, redundant, IF Child(t, redundant, LEFT) # NULL THEN LEFT ELSE RIGHT)
            up == Parent(t, redundant)
            cut == [ReplaceChild(SetParent(t, child, up), up, redundant, child, LEFT)
                      EXCEPT !.node[cur].content = t.node[redundant].content, !.node[cur].size = t.node[redundant].size]
        IN Rename([balanced(cut, redundant, child, up)
                     EXCEPT !.node[redundant] = Empty, !.node[Temp] = Empty, !.size = @ - t.node[cur].size, !.count = @ - 1],
                  cur, redundant)
  IN remove(IF Child(t, cur, LEFT) # NULL /\ Child(t, cur, RIGHT) # NULL THEN TreeSuccessor(t, cur) ELSE cur)

(***************************************************************************)
(* Heap.c.  Blocks are rounded up to 16 bytes; Overhead stands for the     *)
(* record, the file name and the two eyecatchers counted in the tree.      *)
(***************************************************************************)
Multsize == 16
Overhead == 64
Heap_roundup(size) == IF size % Multsize # 0 THEN size + Multsize - (size % Multsize) ELSE size

Grow(s, by) == [current_size |-> s.current_size + by,
                max_size |-> Max({s.max_size, s.current_size + by})]

HeapInit ==
  /\ tree = NewTree
  /\ heapState = [current_size |-> 0, max_size |-> 0]
  /\ blocks = [p \in {} |-> 0]

mymalloc(ptr, size) ==
  LET r == Heap_roundup(size)
  IN /\ ptr \notin DOMAIN blocks
     /\ tree' = TreeAdd(tree, [ptr |-> ptr, size |-> r], r + Overhead)
     /\ heapState' = Grow(heapState, r)
     /\ blocks' = [p \in DOMAIN blocks \cup {ptr} |-> IF p = ptr THEN size ELSE blocks[p]]

\* a block that is not in the tree is logged and left alone (Internal_heap_unlink)
myfree(ptr) ==
  LET e == TreeFindIndex(tree, ptr)
  IN IF e = NULL THEN ptr \notin DOMAIN blocks /\ UNCHANGED heapVars
     ELSE /\ heapState' = [heapState EXCEPT !.current_size = @ - tree.node[e].content.size]
          /\ tree' = TreeRemoveNodeIndex(tree, e)
          /\ blocks' = [p \in DOMAIN blocks \ {ptr} |-> blocks[p]]

\* realloc may move the block: the record leaves the tree and enters it at its new place
myrealloc(ptr, new, size) ==
  LET e == TreeFindIndex(tree, ptr)
      r == Heap_roundup(size)
      old == tree.node[e].content
  IN /\ e # NULL /\ new \notin DOMAIN blocks \ {ptr}
     /\ heapState' = Grow(heapState, r - old.size)
     /\ tree' = TreeAdd(TreeRemoveNodeIndex(tree, e), [ptr |-> new, size |-> r], r + Overhead - old.size)
     /\ blocks' = [p \in (DOMAIN blocks \ {ptr}) \cup {new} |-> IF p = new THEN size ELSE blocks[p]]

HeapNext ==
  \/ \E p \in Ptrs : mymalloc(p, SizeAt(p))
  \/ \E p \in Ptrs : myfree(p)
  \/ \E p, q \in Ptrs : myrealloc(p, q, SizeAt(q))

(***************************************************************************)
(* What must hold.                                                         *)
(***************************************************************************)
RECURSIVE BlackHeight(_, _)
BlackHeight(t, n) ==   \* -1 when two paths below n differ
  IF n = NULL THEN 1
  ELSE LET l == BlackHeight(t, Child(t, n, LEFT))
           r == BlackHeight(t, Child(t, n, RIGHT))
       IN IF l = -1 \/ l # r THEN -1 ELSE l + (IF t.node[n].red THEN 0 ELSE 1)

RECURSIVE Walk(_, _)
Walk(t, n) ==          \* the contents TreeNextElement visits after n, in order
  LET m == TreeNextElement(t, n)
  IN IF m = NULL THEN <<>> ELSE <<t.node[m].content>> \o Walk(t, m)

SumOver(S, f(_)) == MapThenSumSet(f, S)

\* The tree stays a red-black search tree under every order of mymalloc,
\* myfree and myrealloc (Tree.c:147-479), also while TreeRemoveNodeIndex moves
\* contents between nodes and balances from a temporary node, and the walk of
\* HeapScan meets exactly the blocks that are allocated, in order of address,
\* with sizes that add up to current_size (Heap.c:212, 261, 336).
HeapAccounted ==
  LET live == Live(tree)
      walk == Walk(tree, NULL)
  IN /\ isBlack(tree, tree.root)
     /\ \A n \in live, d \in {LEFT, RIGHT} :
          Child(tree, n, d) # NULL => /\ Parent(tree, Child(tree, n, d)) = n
                                      /\ ~(tree.node[n].red /\ isRed(tree, Child(tree, n, d)))
     /\ BlackHeight(tree, tree.root) # -1
     /\ Cardinality(live) = tree.count
     /\ tree.size = SumOver(live, LAMBDA n : tree.node[n].size)
     /\ {walk[i].ptr : i \in DOMAIN walk} = DOMAIN blocks
     /\ \A i, j \in DOMAIN walk : i < j => walk[i].ptr < walk[j].ptr
     /\ \A i \in DOMAIN walk : walk[i].size \in blocks[walk[i].ptr] .. blocks[walk[i].ptr] + 15
     /\ heapState.current_size = SumOver(live, LAMBDA n : tree.node[n].content.size)
     /\ heapState.max_size >= heapState.current_size
=============================================================================
