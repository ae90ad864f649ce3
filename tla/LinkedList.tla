----------------------------- MODULE LinkedList -----------------------------
(***************************************************************************)
(* The doubly linked list of LinkedList.c, which holds every queue of the  *)
(* library.  An element is named by its content: the same content is not   *)
(* appended twice.  A list remembers the element of its last search        *)
(* (current) and looks there first.  The field size, which no operation    *)
(* decreases and nothing reads, is left out.                               *)
(***************************************************************************)
EXTENDS Integers, Sequences, SequencesExt

CONSTANTS Contents,   \* what the lists hold
          SearchKeys,       \* what a search by callback compares
          KeyOf(_)    \* the key of a content

VARIABLES list,       \* the List: first, last, current and count
          element,    \* the ListElements that are allocated: content -> next and prev
          items       \* ghost: the sequence the list stands for

listVars == <<list, element, items>>

NoItem == "none"        \* a NULL pointer
ASSUME ContentsAssumption == Contents \cap {NoItem, "freed"} = {}

Freed == [next |-> "freed", prev |-> "freed"]

ListZero ==
  /\ list = [first |-> NoItem, last |-> NoItem, current |-> NoItem, count |-> 0]
  /\ element = [c \in Contents |-> Freed]
  /\ items = <<>>

Allocated(c) == element[c] # Freed
Position(c) == CHOOSE i \in DOMAIN items : items[i] = c   \* of an element in the sequence

(***************************************************************************)
(* Adding.                                                                 *)
(***************************************************************************)
ListAppend(c) ==
  /\ ~Allocated(c)
  /\ element' = LET e == [element EXCEPT ![c] = [next |-> NoItem, prev |-> list.last]]
                IN IF list.first = NoItem THEN e ELSE [e EXCEPT ![list.last].next = c]
  /\ list' = [list EXCEPT !.first = IF @ = NoItem THEN c ELSE @, !.last = c, !.count = @ + 1]
  /\ items' = Append(items, c)

\* index is an element of the list; a NoItem index is ListAppend
ListInsert(c, index) ==
  /\ ~Allocated(c) /\ Allocated(index)
  /\ LET before == element[index].prev
         e == [element EXCEPT ![c] = [next |-> index, prev |-> before], ![index].prev = c]
     IN /\ element' = IF before # NoItem THEN [e EXCEPT ![before].next = c] ELSE e
        /\ list' = [list EXCEPT !.first = IF before # NoItem THEN @ ELSE c, !.count = @ + 1]
        /\ items' = InsertAt(items, Position(index), c)

(***************************************************************************)
(* Searching.  found are the contents that match, by identity or callback. *)
(***************************************************************************)
ListNextElement(pos) == IF pos = NoItem THEN list.first ELSE element[pos].next

Search(found) ==   \* the first element of the walk that is in the set found
  LET walk[pos \in {c \in Contents : Allocated(c)} \cup {NoItem}] ==
        LET c == ListNextElement(pos) IN IF c = NoItem \/ c \in found THEN c ELSE walk[c]
  IN walk[NoItem]

ListFindItem(found) == IF list.current \in found THEN list.current ELSE Search(found)

Find(found) ==
  LET c == ListFindItem(found)
  IN /\ list' = IF c # NoItem THEN [list EXCEPT !.current = c] ELSE list
     /\ UNCHANGED <<element, items>>

(***************************************************************************)
(* Removing.  A search that found nothing leaves current as it was.        *)
(***************************************************************************)
Unlinked(c) ==   \* the elements without c, which is freed
  LET p == element[c].prev
      n == element[c].next
      e1 == IF p # NoItem THEN [element EXCEPT ![p].next = n] ELSE element
      e2 == IF n # NoItem THEN [e1 EXCEPT ![n].prev = p] ELSE e1
  IN [e2 EXCEPT ![c] = Freed]

\* A removal that always puts back the saved element.
CurrentAfterKeeps(saved, removed) == saved

\* the search by ListUnlink moves current, which is put back unless it was removed
CurrentAfter(saved, removed) == IF saved = removed THEN element[removed].next ELSE saved

ListUnlink(found) ==
  LET c == ListFindItem(found)
  IN IF c = NoItem THEN UNCHANGED listVars
     ELSE /\ list' = [list EXCEPT !.first = IF element[c].prev = NoItem THEN element[c].next ELSE @,
                                  !.last = IF element[c].next = NoItem THEN element[c].prev ELSE @,
                                  !.current = CurrentAfter(list.current, c),
                                  !.count = @ - 1]
          /\ element' = Unlinked(c)
          /\ items' = RemoveAt(items, Position(c))

ListDetachHead ==
  /\ list.count > 0
  /\ LET c == list.first
     IN /\ list' = [list EXCEPT !.first = element[c].next,
                                !.last = IF @ = c THEN NoItem ELSE @,
                                !.current = IF @ = c THEN element[c].next ELSE @,
                                !.count = @ - 1]
        /\ element' = Unlinked(c)
  /\ items' = Tail(items)

ListPopTail ==
  /\ list.count > 0
  /\ LET c == list.last
     IN /\ list' = [list EXCEPT !.last = element[c].prev,
                                !.first = IF @ = c THEN NoItem ELSE @,
                                !.current = IF @ = c THEN element[c].prev ELSE @,
                                !.count = @ - 1]
        /\ element' = Unlinked(c)
  /\ items' = Front(items)

ListEmpty ==
  /\ list' = [first |-> NoItem, last |-> NoItem, current |-> NoItem, count |-> 0]
  /\ element' = [c \in Contents |-> Freed]
  /\ items' = <<>>

ListNext ==
  \/ \E c \in Contents : \/ ListAppend(c)
                         \/ Find({c})
                         \/ ListUnlink({c})
  \/ \E c, index \in Contents : ListInsert(c, index)
  \/ \E k \in SearchKeys : \/ Find({c \in Contents : KeyOf(c) = k})
                           \/ ListUnlink({c \in Contents : KeyOf(c) = k})
  \/ ListDetachHead
  \/ ListPopTail
  \/ ListEmpty

ListSpec == ListZero /\ [][ListNext]_listVars

(***************************************************************************)
(* What must hold.                                                         *)
(***************************************************************************)
\* Whatever the order of additions, searches and removals, walking the list
\* forwards and backwards visits exactly the sequence it stands for, count is
\* its length, and current, which every search and removal dereferences first
\* (LinkedList.c:158), is never an element that has been freed.
ListIsSequence ==
  LET n == Len(items)
      at(i) == IF i \in DOMAIN items THEN items[i] ELSE NoItem
  IN /\ list.first = at(1) /\ list.last = at(n) /\ list.count = n
     /\ \A i \in DOMAIN items : element[items[i]] = [next |-> at(i + 1), prev |-> at(i - 1)]
     /\ \A c \in Contents : Allocated(c) <=> c \in ToSet(items)
     /\ list.current = NoItem \/ Allocated(list.current)
=============================================================================
