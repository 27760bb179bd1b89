-------------------------------- MODULE SList --------------------------------
(***************************************************************************)
(* The generic doubly linked list of src/daemon/daemon-list.c, modelled at *)
(* the level of its pointers.  A heap m is a record                         *)
(*   m.node[a] : the fields data, previous, next of the node at address a  *)
(*   m.live    : the addresses currently allocated by daemon_malloc         *)
(*   m.ub      : TRUE once the code has read, written or freed an address  *)
(*               that is not allocated (NULL or already freed): from then  *)
(*               on the behaviour of the C program is undefined.           *)
(* Every s_list_* function is one operator taking a heap and returning a   *)
(* record [m |-> heap after the call, ret |-> value returned].  Loops are  *)
(* RECURSIVE operators that follow the code's iteration node by node.      *)
(* A freed node is reset to Blank: its stale content only matters after a *)
(* use-after-free, which already sets m.ub.                                *)
(***************************************************************************)
EXTENDS Naturals, Sequences, FiniteSets
LOCAL INSTANCE SequencesExt

CONSTANTS
  Addr,   \* the addresses malloc can return for a struct s_list
  NULL    \* the null pointer, also the NULL data pointer

Blank == [data |-> NULL, previous |-> NULL, next |-> NULL]

EmptyHeap == [node |-> [a \in Addr |-> Blank], live |-> {}, ub |-> FALSE]

(* Dereferencing the addresses S: undefined unless all are allocated.     *)
Deref(m, S) == [m EXCEPT !.ub = @ \/ ~(S \subseteq m.live)]

SetNext(m, a, v) == [Deref(m, {a}) EXCEPT !.node[a].next = v]

SetPrev(m, a, v) == [Deref(m, {a}) EXCEPT !.node[a].previous = v]

(* daemon_free of a node; freeing an address twice is undefined.          *)
FreeNode(m, a) == [Deref(m, {a}) EXCEPT !.node[a] = Blank, !.live = @ \ {a}]

(* Room for k more nodes: daemon_malloc aborts the process when it fails, *)
(* so a call that would need more than the heap holds is not taken.       *)
HasRoom(m, k) == Cardinality(Addr \ m.live) >= k

(* Mutant: the prev and data arguments of _s_list_new swapped.            *)
s_list_new_swapped(m, prev, d, next) ==
  LET a == CHOOSE x \in Addr \ m.live : TRUE
  IN [m   |-> [m EXCEPT !.node[a] = [data |-> prev, previous |-> d, next |-> next],
                        !.live = @ \cup {a}],
      ret |-> a]

(* _s_list_new: daemon_malloc one node and fill its three fields.         *)
s_list_new(m, prev, d, next) ==
  LET a == CHOOSE x \in Addr \ m.live : TRUE
  IN [m   |-> [m EXCEPT !.node[a] = [data |-> d, previous |-> prev, next |-> next],
                        !.live = @ \cup {a}],
      ret |-> a]

(* The addresses met following next pointers from a (at most |Addr|+1).   *)
RECURSIVE WalkN(_, _, _)
WalkN(m, a, k) ==
  IF a = NULL \/ k = 0 THEN << >> ELSE <<a>> \o WalkN(m, m.node[a].next, k - 1)

Walk(m, a) == WalkN(m, a, Cardinality(Addr) + 1)

(* The data of the chain starting at a, in order.                          *)
Contents(m, a) == LET w == Walk(m, a) IN [i \in 1..Len(w) |-> m.node[w[i]].data]

(* _s_list_check: is llist reachable from list?  It reads every node it    *)
(* passes before reaching llist.                                           *)
s_list_check(m, list, llist) ==
  IF list = NULL \/ llist = NULL THEN [m |-> m, ret |-> FALSE]
  ELSE LET w == Walk(m, list)
           i == SelectInSeq(w, LAMBDA x : x = llist)
       IN [m |-> Deref(m, ToSet(IF i = 0 THEN w ELSE SubSeq(w, 1, i - 1))),
           ret |-> i # 0]

(* s_list_free: frees list->next recursively, then list itself.           *)
RECURSIVE s_list_free(_, _)
s_list_free(m, list) ==
  IF list = NULL THEN m
  ELSE LET m0 == Deref(m, {list})
       IN FreeNode(s_list_free(m0, m0.node[list].next), list)

s_list_last(m, list) ==
  IF list = NULL THEN [m |-> m, ret |-> NULL]
  ELSE LET w == Walk(m, list) IN [m |-> Deref(m, ToSet(w)), ret |-> w[Len(w)]]

(* _s_list_append: the new node holds d, the value the copy callback gave. *)
s_list_append_cbk(m, list, d) ==
  LET l == s_list_last(m, list)
      n == s_list_new(l.m, l.ret, d, NULL)
  IN IF l.ret # NULL THEN [m |-> SetNext(n.m, l.ret, n.ret), ret |-> list]
                     ELSE n

(* Mutant: the head returned unchanged even when list was empty.           *)
s_list_append_keep(m, list, d) == [m |-> s_list_append_cbk(m, list, d).m, ret |-> list]

s_list_append(m, list, d) == s_list_append_cbk(m, list, d)

s_list_prepend(m, list, d) ==
  LET n == s_list_new(m, NULL, d, list)
  IN [m |-> IF list # NULL THEN SetPrev(n.m, list, n.ret) ELSE n.m, ret |-> n.ret]

(* The loop stops on the node of index min(position, length - 1), counting *)
(* from 0, and the new node is linked after that node.                    *)
s_list_insert(m, list, d, position) ==
  IF position = 0 \/ list = NULL THEN s_list_prepend(m, list, d)
  ELSE LET w    == Walk(m, list)
           stop == Min({position, Len(w) - 1}) + 1
           m0   == Deref(m, ToSet(SubSeq(w, 1, stop)))
           at   == w[stop]
           next == m0.node[at].next
           n    == s_list_new(m0, at, d, next)
           m1   == SetNext(n.m, at, n.ret)
       IN [m |-> IF next # NULL THEN SetPrev(m1, next, n.ret) ELSE m1, ret |-> list]

(* The sibling must pass _s_list_check, so a NULL list or sibling returns  *)
(* the list unchanged.  At the head the new node is returned as the new    *)
(* head without setting sibling->previous.                                 *)
s_list_insert_before(m, list, sibling, d) ==
  LET c == s_list_check(m, list, sibling)
  IN IF ~c.ret THEN [m |-> c.m, ret |-> list]
     ELSE LET m0   == Deref(c.m, {sibling})
              prev == m0.node[sibling].previous
          IN IF prev # NULL
             THEN LET n == s_list_new(m0, prev, d, sibling)
                  IN [m |-> SetPrev(SetNext(n.m, prev, n.ret), sibling, n.ret),
                      ret |-> list]
             ELSE s_list_new(m0, NULL, d, sibling)

(* The first node whose data is d; the loop reads list->next before any    *)
(* test, so a NULL list is dereferenced.                                   *)
s_list_find(m, list, d) ==
  IF list = NULL THEN [m |-> Deref(m, {NULL}), ret |-> NULL]
  ELSE LET w == Walk(m, list)
           i == SelectInSeq(w, LAMBDA x : m.node[x].data = d)
       IN [m |-> Deref(m, ToSet(IF i = 0 THEN w ELSE SubSeq(w, 1, i))),
           ret |-> IF i = 0 THEN NULL ELSE w[i]]

(* Mutant: remove_link without "if (_next) _next->previous = _prev".      *)
s_list_remove_link_noback(m, list, llist) ==
  IF list = NULL \/ llist = NULL THEN [m |-> m, ret |-> list]
  ELSE LET c == s_list_check(m, list, llist)
       IN IF ~c.ret THEN [m |-> c.m, ret |-> list]
          ELSE LET m0   == Deref(c.m, {llist})
                   prev == m0.node[llist].previous
                   next == m0.node[llist].next
                   m1   == IF prev # NULL THEN SetNext(m0, prev, next) ELSE m0
               IN [m   |-> [m1 EXCEPT !.node[llist].next = NULL,
                                      !.node[llist].previous = NULL],
                   ret |-> IF prev # NULL THEN list ELSE next]

s_list_remove_link(m, list, llist) ==
  IF list = NULL \/ llist = NULL THEN [m |-> m, ret |-> list]
  ELSE LET c == s_list_check(m, list, llist)
       IN IF ~c.ret THEN [m |-> c.m, ret |-> list]
          ELSE LET m0   == Deref(c.m, {llist})
                   prev == m0.node[llist].previous
                   next == m0.node[llist].next
                   m1   == IF prev # NULL THEN SetNext(m0, prev, next) ELSE m0
                   m2   == IF next # NULL THEN SetPrev(m1, next, prev) ELSE m1
               IN [m   |-> [m2 EXCEPT !.node[llist].next = NULL,
                                      !.node[llist].previous = NULL],
                   ret |-> IF prev # NULL THEN list ELSE next]

(* Mutant: the found node freed before it is unlinked.                     *)
s_list_remove_freefirst(m, list, d) ==
  IF list = NULL THEN [m |-> m, ret |-> list]
  ELSE LET f == s_list_find(m, list, d)
       IN s_list_remove_link(s_list_free(f.m, f.ret), list, f.ret)

s_list_remove(m, list, d) ==
  IF list = NULL THEN [m |-> m, ret |-> list]
  ELSE LET f == s_list_find(m, list, d)
           r == s_list_remove_link(f.m, list, f.ret)
       IN [m |-> s_list_free(r.m, f.ret), ret |-> r.ret]

s_list_delete_link(m, list, link) ==
  LET r == s_list_remove_link(m, list, link)
  IN [m |-> s_list_free(r.m, link), ret |-> r.ret]

(* s_list_remove_all: each match is deleted with s_list_delete_link(list,  *)
(* _list) and the head that call returns is dropped: list keeps its value. *)
RECURSIVE RemoveAllFrom(_, _, _, _)
RemoveAllFrom(m, list, cur, d) ==
  IF cur = NULL \/ m.ub THEN m
  ELSE LET m0   == Deref(m, {cur})
           next == m0.node[cur].next
       IN IF m0.node[cur].data = d
          THEN RemoveAllFrom(s_list_delete_link(m0, list, cur).m, list, next, d)
          ELSE RemoveAllFrom(m0, list, next, d)

s_list_remove_all(m, list, d) == [m |-> RemoveAllFrom(m, list, list, d), ret |-> list]

s_list_length(m, list) ==
  LET w == Walk(m, list) IN [m |-> Deref(m, ToSet(w)), ret |-> Len(w)]

(* Appends copy[data] of every node of src, in order, to the list dst;    *)
(* copy is the copy callback as a function on the data.                   *)
AppendEach(m, dst, src, copy) ==
  LET w == Walk(m, src)
  IN FoldLeft(LAMBDA acc, x : LET m0 == Deref(acc.m, {x})
                              IN s_list_append_cbk(m0, acc.ret, copy[m0.node[x].data]),
              [m |-> m, ret |-> dst], w)

(* The guard list && list->previous == NULL of copy, deep_copy, concat.    *)
IsTop(m, list) == list # NULL /\ m.node[list].previous = NULL

s_list_deep_copy(m, list, copy) ==
  IF ~IsTop(m, list) THEN [m |-> IF list # NULL THEN Deref(m, {list}) ELSE m, ret |-> list]
  ELSE AppendEach(m, NULL, list, copy)

(* _s_list_default_copy returns the data itself.                           *)
Identity(m, list) == [x \in ToSet(Contents(m, list)) |-> x]

s_list_copy(m, list) == s_list_deep_copy(m, list, Identity(m, list))

(* list2 is walked and each of its data appended to list1: list2 stays a   *)
(* list of its own, and a NULL list1 is returned as NULL.                  *)
s_list_concat(m, list1, list2) ==
  IF ~IsTop(m, list1) \/ ~IsTop(m, list2) THEN [m |-> m, ret |-> list1]
  ELSE AppendEach(m, list1, list2, Identity(m, list2))

(* s_list_free_full: for each node, read next, s_list_remove_link(list,    *)
(* node) whose returned head is dropped, call the destructor on the data   *)
(* and s_list_free(node).  ret is the sequence of data destroyed.          *)
RECURSIVE FreeFullFrom(_, _, _, _)
FreeFullFrom(m, list, cur, done) ==
  IF cur = NULL \/ m.ub THEN [m |-> m, ret |-> done]
  ELSE LET m0   == Deref(m, {cur})
           next == m0.node[cur].next
           r    == s_list_remove_link(m0, list, cur)
       IN FreeFullFrom(s_list_free(r.m, cur), list, next,
                       Append(done, r.m.node[cur].data))

s_list_free_full(m, list) == FreeFullFrom(m, list, list, << >>)

=============================================================================
