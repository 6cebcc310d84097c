------------------------------ MODULE FlowChain ------------------------------
(***************************************************************************)
(* One bucket of the flow hash table as the code keeps it: the hash        *)
(* management block (first, last, elm_cnt) and the next and prev pointers  *)
(* of the flows.  The bucket's mutex makes create and remove atomic; a     *)
(* walk holds it from begin to end and may remove flows on its way, as     *)
(* flow_scrubber does, so nothing else happens during one.                 *)
(*                                                                         *)
(* A Flow is not initialised by its constructor: the prev and next of a    *)
(* flow outside the bucket are whatever the allocator left there.          *)
(***************************************************************************)
EXTENDS Integers, Sequences, FiniteSets

CONSTANTS Flows,    \* Flow objects
          NULL

ASSUME ChainAssumption == NULL \notin Flows

VARIABLES
    first, last, elm_cnt,   \* hash_mb_t
    next, prev,             \* Flow::next, Flow::prev
    walk,                   \* a walk is under way
    cur,                    \* its flow variable
    chain,                  \* history: the flows in the bucket, in order
    seen                    \* history: the flows the walk has visited

block == <<first, last, elm_cnt, next, prev>>
vars  == <<block, walk, cur, chain, seen>>

Pointer == Flows \cup {NULL}
Members == {chain[i] : i \in DOMAIN chain}
Without(s, i) == [j \in 1..(Len(s) - 1) |-> IF j < i THEN s[j] ELSE s[j + 1]]

Init ==
    /\ first = NULL /\ last = NULL /\ elm_cnt = 0
    /\ next \in [Flows -> Pointer]
    /\ prev \in [Flows -> Pointer]
    /\ walk = FALSE /\ cur = NULL
    /\ chain = <<>> /\ seen = {}

\* Mutant: prev of the first flow is left as it is
CreatePrev_Unset(f) == IF elm_cnt = 0 THEN prev ELSE [prev EXCEPT ![f] = last]

\* f->prev = elm_cnt == 0 ? NULL : hm->last
CreatePrev(f) == [prev EXCEPT ![f] = IF elm_cnt = 0 THEN NULL ELSE last]

\* Mutant: a flow that goes to the front is not counted
CreateCnt_Late == IF elm_cnt = 0 THEN 0 ELSE elm_cnt + 1

\* hm->elm_cnt++
CreateCnt == elm_cnt + 1

\* FlowHashTable::create
Create(f) ==
    /\ ~walk
    /\ f \notin Members
    /\ first' = IF elm_cnt = 0 THEN f ELSE first
    /\ last' = f
    /\ next' = [g \in Flows |-> IF g = f THEN NULL
                                ELSE IF elm_cnt # 0 /\ g = last THEN f
                                ELSE next[g]]
    /\ prev' = CreatePrev(f)
    /\ elm_cnt' = CreateCnt
    /\ chain' = Append(chain, f)
    /\ UNCHANGED <<walk, cur, seen>>

\* hm->last = f->prev, if f is the last of several
RemoveLast(f) == IF prev[f] # NULL /\ next[f] = NULL THEN prev[f] ELSE last

\* FlowHashTable::remove: the only flow, the first, the last or another one
Unlink(f) ==
    /\ IF elm_cnt = 1 /\ f = first
       THEN /\ first' = NULL /\ last' = NULL
            /\ next' = [next EXCEPT ![f] = NULL]
            /\ prev' = [prev EXCEPT ![f] = NULL]
       ELSE /\ first' = IF prev[f] = NULL THEN next[f] ELSE first
            /\ last' = RemoveLast(f)
            /\ next' = [g \in Flows |-> IF g = f THEN NULL
                                        ELSE IF g = prev[f] THEN next[f]
                                        ELSE next[g]]
            /\ prev' = [g \in Flows |-> IF g = f THEN NULL
                                        ELSE IF g = next[f] THEN prev[f]
                                        ELSE prev[g]]
    /\ elm_cnt' = elm_cnt - 1
    /\ \E i \in DOMAIN chain : chain[i] = f /\ chain' = Without(chain, i)

\* Flow::add_packet removes its flow
Remove(f) ==
    /\ ~walk
    /\ f \in Members
    /\ Unlink(f)
    /\ UNCHANGED <<walk, cur, seen>>

\* flow = hm->first
Begin ==
    /\ ~walk
    /\ walk' = TRUE /\ cur' = first /\ seen' = {}
    /\ UNCHANGED <<block, chain>>

\* Mutant: flow = flow->next after the flow was removed
Following_Late(f) == next'[f]

\* Mutant: the walk does not go on
Following_Same(f) == f

\* flow_next, read before the flow is removed
Following(f) == next[f]

\* The body of the loop in flow_scrubber, or in flowHashProcess
Visit(closing) ==
    /\ walk /\ cur # NULL
    /\ IF closing THEN Unlink(cur) ELSE UNCHANGED <<block, chain>>
    /\ cur' = Following(cur)
    /\ seen' = seen \cup {cur}
    /\ UNCHANGED walk

End ==
    /\ walk /\ cur = NULL
    /\ walk' = FALSE
    /\ UNCHANGED <<block, cur, chain, seen>>

\* Mutant: elm_cnt > 1
Find_Two(f) ==
    LET at[g \in Pointer] == IF g = NULL \/ g = f THEN g ELSE at[next[g]]
    IN  IF elm_cnt > 1 THEN at[first] ELSE NULL

\* FlowHashTable::find: the walk that stops at the flow whose socket matches
Find(f) ==
    LET at[g \in Pointer] == IF g = NULL \/ g = f THEN g ELSE at[next[g]]
    IN  IF elm_cnt > 0 THEN at[first] ELSE NULL

Next ==
    \/ \E f \in Flows : Create(f) \/ Remove(f)
    \/ Begin \/ (\E closing \in BOOLEAN : Visit(closing)) \/ End

Spec == /\ Init /\ [][Next]_vars
        /\ WF_vars(Begin \/ Visit(TRUE) \/ Visit(FALSE) \/ End)

-----------------------------------------------------------------------------
\* Every variable has its type: create and remove keep the count in range, and
\* no pointer leads outside of the flows.
TypeOK ==
    /\ first \in Pointer /\ last \in Pointer
    /\ elm_cnt \in Nat
    /\ next \in [Flows -> Pointer] /\ prev \in [Flows -> Pointer]
    /\ walk \in BOOLEAN /\ cur \in Pointer
    /\ chain \in Seq(Flows) /\ seen \subseteq Flows

\* The pointers of the bucket are the doubly linked list of its flows, in the
\* order of their creation: first and last are its ends, next and prev lead
\* from each flow to its neighbours and end in NULL, elm_cnt is its length.
ListIsChain ==
    /\ elm_cnt = Len(chain)
    /\ first = IF chain = <<>> THEN NULL ELSE chain[1]
    /\ last = IF chain = <<>> THEN NULL ELSE chain[Len(chain)]
    /\ \A i \in DOMAIN chain :
         /\ next[chain[i]] = IF i < Len(chain) THEN chain[i + 1] ELSE NULL
         /\ prev[chain[i]] = IF i > 1 THEN chain[i - 1] ELSE NULL

\* What makes ListIsChain inductive: no flow is linked twice.
ChainIsASet == \A i, j \in DOMAIN chain : chain[i] = chain[j] => i = j

\* find returns a flow exactly if it is in the bucket.
FindIsExact ==
    \A f \in Flows : Find(f) = IF f \in Members THEN f ELSE NULL

\* A walk visits every flow that was in the bucket when it began exactly once,
\* although it removes some of them (no flow enters while the mutex is held):
\* it comes to no flow twice, and leaves only visited ones behind.
WalkIsComplete ==
    [][/\ walk /\ walk' => cur \notin seen
       /\ walk /\ ~walk' => Members \subseteq seen]_vars

\* A walk comes to its end: the next pointers have no cycle.
WalkEnds == walk ~> ~walk
=============================================================================
