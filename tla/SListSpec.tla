------------------------------ MODULE SListSpec ------------------------------
(***************************************************************************)
(* A caller of src/daemon/daemon-list.c: it keeps one list pointer in each *)
(* of its handles and stores back the head every call returns, as the      *)
(* header asks.  Each action is one s_list_* call with its arguments drawn *)
(* from small sets; the heap mem is shared by all the lists.               *)
(* Next holds the calls the code gets right on every input; each Spec_X    *)
(* adds one call X whose code disagrees with its documentation.            *)
(***************************************************************************)
EXTENDS SList
LOCAL INSTANCE SequencesExt

CONSTANTS
  Handles,  \* the caller's list variables
  Data,     \* the payload pointers the caller stores
  CopyOf,   \* the copy callback given to s_list_deep_copy, as a function
  MaxPos    \* the largest position given to s_list_insert

ASSUME NULL \notin Addr \cup Data
ASSUME CopyOf \in [Data -> Data]

VARIABLES
  mem,   \* the heap holding every node
  head,  \* head[h]: the list pointer the caller keeps in handle h
  call   \* the last call made and its arguments (history for refinement)

vars == <<mem, head, call>>

CallRec(op, h, g, d, i) == [op |-> op, h |-> h, g |-> g, d |-> d, i |-> i]

Chain(h) == Walk(mem, head[h])

(* Store the result r of a call made on handle h.                           *)
Apply(h, r) == mem' = r.m /\ head' = [head EXCEPT ![h] = r.ret]

TypeOK ==
  /\ mem.live \subseteq Addr
  /\ mem.node \in [Addr -> [data : Data \cup {NULL},
                            previous : Addr \cup {NULL}, next : Addr \cup {NULL}]]
  /\ mem.ub \in BOOLEAN
  /\ head \in [Handles -> Addr \cup {NULL}]

Init ==
  /\ mem = EmptyHeap
  /\ head = [h \in Handles |-> NULL]
  /\ call = CallRec("none", NULL, NULL, NULL, 0)

CallAppend(h, d) ==
  /\ HasRoom(mem, 1)
  /\ Apply(h, s_list_append(mem, head[h], d))
  /\ call' = CallRec("append", h, NULL, d, 0)

CallPrepend(h, d) ==
  /\ HasRoom(mem, 1)
  /\ Apply(h, s_list_prepend(mem, head[h], d))
  /\ call' = CallRec("prepend", h, NULL, d, 0)

CallInsert(h, d, p) ==
  /\ HasRoom(mem, 1)
  /\ Apply(h, s_list_insert(mem, head[h], d, p))
  /\ call' = CallRec("insert", h, NULL, d, p)

(* i = 0 passes a NULL sibling, otherwise the i-th node of the list.       *)
CallInsertBefore(h, i, d) ==
  /\ HasRoom(mem, 1)
  /\ i <= Len(Chain(h))
  /\ Apply(h, s_list_insert_before(mem, head[h], IF i = 0 THEN NULL ELSE Chain(h)[i], d))
  /\ call' = CallRec("insert_before", h, NULL, d, i)

CallRemove(h, d) ==
  /\ Apply(h, s_list_remove(mem, head[h], d))
  /\ call' = CallRec("remove", h, NULL, d, 0)

CallDeleteLink(h, i) ==
  /\ i \in 1..Len(Chain(h))
  /\ Apply(h, s_list_delete_link(mem, head[h], Chain(h)[i]))
  /\ call' = CallRec("delete_link", h, NULL, NULL, i)

(* The caller keeps its head; only the heap is touched (read).              *)
CallFind(h, d) ==
  /\ mem' = s_list_find(mem, head[h], d).m
  /\ UNCHANGED head
  /\ call' = CallRec("find", h, NULL, d, 0)

CallRemoveAll(h, d) ==
  /\ Apply(h, s_list_remove_all(mem, head[h], d))
  /\ call' = CallRec("remove_all", h, NULL, d, 0)

(* The copy is stored in an empty handle g.                                 *)
CallCopy(h, g) ==
  /\ h # g /\ head[g] = NULL
  /\ HasRoom(mem, Len(Chain(h)))
  /\ Apply(g, s_list_copy(mem, head[h]))
  /\ call' = CallRec("copy", h, g, NULL, 0)

CallDeepCopy(h, g) ==
  /\ h # g /\ head[g] = NULL
  /\ HasRoom(mem, Len(Chain(h)))
  /\ Apply(g, s_list_deep_copy(mem, head[h], CopyOf))
  /\ call' = CallRec("deep_copy", h, g, NULL, 0)

CallConcat(h, g) ==
  /\ h # g
  /\ HasRoom(mem, Len(Chain(g)))
  /\ Apply(h, s_list_concat(mem, head[h], head[g]))
  /\ call' = CallRec("concat", h, g, NULL, 0)

(* After s_list_free and s_list_free_full the caller sets its pointer to   *)
(* NULL, as the header's note suggests.                                    *)
CallFree(h) ==
  /\ mem' = s_list_free(mem, head[h])
  /\ head' = [head EXCEPT ![h] = NULL]
  /\ call' = CallRec("free", h, NULL, NULL, 0)

CallFreeFull(h) ==
  /\ mem' = s_list_free_full(mem, head[h]).m
  /\ head' = [head EXCEPT ![h] = NULL]
  /\ call' = CallRec("free_full", h, NULL, NULL, 0)

(* Once the code has done something undefined the process is gone.        *)
Next ==
  /\ ~mem.ub
  /\ \E h, g \in Handles, d \in Data :
       \/ CallAppend(h, d) \/ CallPrepend(h, d) \/ CallRemove(h, d)
       \/ \E i \in 1..Cardinality(Addr) : CallDeleteLink(h, i)
       \/ CallCopy(h, g) \/ CallDeepCopy(h, g) \/ CallFree(h)

Spec == Init /\ [][Next]_vars

NextInsert == ~mem.ub /\ \E h \in Handles, d \in Data, p \in 0..MaxPos : CallInsert(h, d, p)
NextInsertBefore ==
  ~mem.ub /\ \E h \in Handles, d \in Data, i \in 0..Cardinality(Addr) : CallInsertBefore(h, i, d)
NextRemoveAll == ~mem.ub /\ \E h \in Handles, d \in Data : CallRemoveAll(h, d)
NextConcat == ~mem.ub /\ \E h, g \in Handles : CallConcat(h, g)
NextFreeFull == ~mem.ub /\ \E h \in Handles : CallFreeFull(h)
NextFind == ~mem.ub /\ \E h \in Handles, d \in Data : CallFind(h, d)

(* Every call of the API, including those that disagree with the header:  *)
(* insert, insert_before and concat return the wrong contents, remove_all  *)
(* and free_full touch freed nodes, find dereferences an empty list.       *)
Spec_Contract ==
  Init /\ [][Next \/ NextInsert \/ NextInsertBefore \/ NextConcat
               \/ NextRemoveAll \/ NextFreeFull \/ NextFind]_vars

-----------------------------------------------------------------------------
(* Every list the caller holds is a well-formed doubly linked list: its    *)
(* head has no previous node, each node's previous is the node before it,  *)
(* it ends in NULL, two lists share no node and every allocated node is in *)
(* some list.  The s_list_* calls relink previous/next pointers in several *)
(* places (remove_link, insert, insert_before); one missed back pointer    *)
(* breaks this.                                                            *)
WellFormed ==
  /\ \A h \in Handles :
       LET w == Chain(h) IN
       /\ Len(w) <= Cardinality(Addr)
       /\ ToSet(w) \subseteq mem.live
       /\ head[h] # NULL => mem.node[head[h]].previous = NULL
       /\ \A i \in 2..Len(w) : mem.node[w[i]].previous = w[i - 1]
  /\ \A h, g \in Handles : h # g => ToSet(Chain(h)) \cap ToSet(Chain(g)) = {}
  /\ mem.live = UNION {ToSet(Chain(h)) : h \in Handles}

(* No call reads, writes or frees a node that is not allocated: no NULL   *)
(* dereference, use after free or double free in the list code.            *)
MemorySafe == ~mem.ub

(* Every call has the effect the header documents for it: the contents of *)
(* each list, read through the pointers, follow AbstractList, and no call  *)
(* does anything undefined (a call that reads, writes or frees a node that *)
(* is not allocated implements no documented call).                        *)
AL == INSTANCE AbstractList WITH
        seqs <- [h \in Handles |-> Contents(mem, head[h])],
        call <- IF mem.ub THEN [call EXCEPT !.op = "undefined"] ELSE call

Refinement == AL!Spec

=============================================================================
