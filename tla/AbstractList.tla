---------------------------- MODULE AbstractList ----------------------------
(***************************************************************************)
(* What the list API promises (the comments of src/daemon/daemon-list.h and *)
(* spec.md section 4.1), with each list a sequence of data.  A caller keeps *)
(* one list in each of its handles; call records the operation invoked and *)
(* its arguments, so that a detailed model refines this one only if every  *)
(* call has the effect documented for that call.                           *)
(***************************************************************************)
EXTENDS Naturals, Sequences
LOCAL INSTANCE SequencesExt

CONSTANTS Handles, Data, NULL, CopyOf,
          MaxPos   \* the largest position or index a call is given

VARIABLES seqs, call

CallRec(op, h, g, d, i) == [op |-> op, h |-> h, g |-> g, d |-> d, i |-> i]

Set(h, s) == seqs' = [seqs EXCEPT ![h] = s]

Init == /\ seqs = [h \in Handles |-> << >>]
        /\ call = CallRec("none", NULL, NULL, NULL, 0)

CallAppend(h, d) ==
  /\ call' = CallRec("append", h, NULL, d, 0)
  /\ Set(h, Append(seqs[h], d))

CallPrepend(h, d) ==
  /\ call' = CallRec("prepend", h, NULL, d, 0)
  /\ Set(h, <<d>> \o seqs[h])

(* "the position to insert the element ... larger than the number of       *)
(* elements: added on to the end"; positions count from 0 as for nth.      *)
CallInsert(h, d, p) ==
  /\ call' = CallRec("insert", h, NULL, d, p)
  /\ Set(h, IF p >= Len(seqs[h]) THEN Append(seqs[h], d) ELSE InsertAt(seqs[h], p + 1, d))

(* Before the i-th element; i = 0 stands for a NULL sibling: at the end.   *)
CallInsertBefore(h, i, d) ==
  /\ call' = CallRec("insert_before", h, NULL, d, i)
  /\ i <= Len(seqs[h])
  /\ Set(h, IF i = 0 THEN Append(seqs[h], d) ELSE InsertAt(seqs[h], i, d))

(* Only the first element holding d is removed.                             *)
CallRemove(h, d) ==
  /\ call' = CallRec("remove", h, NULL, d, 0)
  /\ Set(h, RemoveFirst(seqs[h], d))

CallDeleteLink(h, i) ==
  /\ call' = CallRec("delete_link", h, NULL, NULL, i)
  /\ i \in 1..Len(seqs[h])
  /\ Set(h, RemoveAt(seqs[h], i))

(* "the found list element, or NULL if it is not found": the list is left *)
(* as it is, and on an empty list the call is a no-op (spec.md 4.1).       *)
CallFind(h, d) ==
  /\ call' = CallRec("find", h, NULL, d, 0)
  /\ UNCHANGED seqs

CallRemoveAll(h, d) ==
  /\ call' = CallRec("remove_all", h, NULL, d, 0)
  /\ Set(h, SelectSeq(seqs[h], LAMBDA x : x # d))

CallCopy(h, g) ==
  /\ call' = CallRec("copy", h, g, NULL, 0)
  /\ seqs[g] = << >>
  /\ seqs' = [seqs EXCEPT ![g] = seqs[h]]

CallDeepCopy(h, g) ==
  /\ call' = CallRec("deep_copy", h, g, NULL, 0)
  /\ seqs[g] = << >>
  /\ seqs' = [seqs EXCEPT ![g] = [i \in 1..Len(seqs[h]) |-> CopyOf[seqs[h][i]]]]

CallConcat(h, g) ==
  /\ call' = CallRec("concat", h, g, NULL, 0)
  /\ h # g
  /\ Set(h, seqs[h] \o seqs[g])

CallFree(h) ==
  /\ call' = CallRec("free", h, NULL, NULL, 0)
  /\ Set(h, << >>)

CallFreeFull(h) ==
  /\ call' = CallRec("free_full", h, NULL, NULL, 0)
  /\ Set(h, << >>)

Next ==
  \E h, g \in Handles, d \in Data, i \in 0..MaxPos :
    \/ CallAppend(h, d) \/ CallPrepend(h, d) \/ CallInsert(h, d, i) \/ CallInsertBefore(h, i, d)
    \/ CallRemove(h, d) \/ CallDeleteLink(h, i) \/ CallRemoveAll(h, d) \/ CallFind(h, d)
    \/ CallCopy(h, g) \/ CallDeepCopy(h, g) \/ CallConcat(h, g) \/ CallFree(h) \/ CallFreeFull(h)

Spec == Init /\ [][Next]_<<seqs, call>>

=============================================================================
