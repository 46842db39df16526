-------------------------- MODULE IdempotencyProofs --------------------------
(***************************************************************************)
(* Proofs about create_or_get_task, for any number of producers, keys,     *)
(* contracts, rows and calls.                                              *)
(***************************************************************************)
EXTENDS Idempotency, TLAPS

(* The rows that hold their key against an insertion.                      *)
Alive(r) == Committed(r) \/ row[r].state = "open"

(* What a transaction has inserted is uncommitted and its own.             *)
MineIsOpen ==
    \A p \in Producers : \A r \in mine[p] : row[r].state = "open"

MineIsApart ==
    \A p, q \in Producers : p # q => mine[p] \cap mine[q] = {}

OneTaskPerKey ==
    \A r, s \in Rows :
        Alive(r) /\ Alive(s) /\ row[r].call.key = row[s].call.key => r = s

(* The row a call has collided with is there, or has been purged since.    *)
CollidedWithRow ==
    \A p \in Producers : phase[p] = "lookup" =>
        \E r \in Rows :
            /\ row[r].call.key = call[p].key
            /\ Committed(r) \/ row[r].state = "purged" \/ r \in mine[p]

IInv ==
    /\ TypeOK
    /\ MineIsOpen
    /\ MineIsApart
    /\ OneTaskPerKey
    /\ ReturnedTaskStays
    /\ CollidedWithRow
    /\ RefusedOnlyForPurge
    /\ ConflictIsReal

(* One step of one transaction, or of the tasks meanwhile.                 *)
Step ==
    \/ \E p \in Producers, c \in Calls : Request(p, c)
    \/ \E p \in Producers :
        Create(p) \/ Collide(p) \/ LookUp(p) \/ RefuseDeadlock(p)
            \/ Commit(p) \/ Rollback(p)
    \/ \E r \in Rows : Reschedule(r) \/ Complete(r)
    \/ \E old \in SUBSET Rows : Purge(old)

LEMMA NextIsStep == Next <=> Step
  BY DEF Next, Step

LEMMA AnyCallIsCall == AnyCall \in Calls
<1>1. \E k \in Keys, c \in Contracts : [key |-> k, contract |-> c] \in Calls
  BY ProducersAssumption DEF Calls
<1> QED
  BY <1>1 DEF AnyCall

LEMMA InitInvariant == Init => IInv
  BY AnyCallIsCall, ProducersAssumption
  DEF Init, IInv, TypeOK, RowStates, Ended, MineIsOpen, MineIsApart, Alive, Committed,
      OneTaskPerKey, ReturnedTaskStays, CollidedWithRow, RefusedOnlyForPurge, ConflictIsReal

-----------------------------------------------------------------------------
(* What a step does to the table is one of four things: nothing, the       *)
(* insertion of a fresh row, a change of rows that already count, or the   *)
(* end of a transaction.                                                   *)

LEMMA CreateFacts ==
    ASSUME IInv, NEW p \in Producers, Create(p)
    PROVE  \E r \in Rows :
            /\ row[r].state = "free"
            /\ row' = [row EXCEPT ![r] =
                        [state |-> "open", call |-> call[p], moved |-> FALSE]]
            /\ mine' = [mine EXCEPT ![p] = @ \cup {r}]
            /\ got' = [got EXCEPT ![p] = @ \cup {r}]
            /\ \A q \in Producers : r \notin mine[q]
<1>1. PICK r \in Fresh : r = CHOOSE s \in Fresh : TRUE
  BY DEF Create
<1>2. r \in Rows /\ row[r].state = "free"
  BY <1>1 DEF Fresh
<1>3. \A q \in Producers : r \notin mine[q]
  BY <1>2 DEF IInv, MineIsOpen
<1> QED
  BY <1>1, <1>2, <1>3 DEF Create

LEMMA CreateInvariant ==
    ASSUME IInv, NEW p \in Producers, Create(p)
    PROVE  IInv'
<1>1. PICK r \in Rows :
            /\ row[r].state = "free"
            /\ row' = [row EXCEPT ![r] =
                        [state |-> "open", call |-> call[p], moved |-> FALSE]]
            /\ mine' = [mine EXCEPT ![p] = @ \cup {r}]
            /\ got' = [got EXCEPT ![p] = @ \cup {r}]
            /\ \A q \in Producers : r \notin mine[q]
  BY CreateFacts
<1>2. /\ phase[p] = "insert"
      /\ phase' = [phase EXCEPT ![p] = "idle"]
      /\ UNCHANGED <<call, calls, refused>>
  BY DEF Create
<1>3. TypeOK'
  BY <1>1, <1>2 DEF IInv, TypeOK, RowStates, Ended
<1>4. /\ row'[r].state = "open" /\ row'[r].call = call[p]
      /\ \A s \in Rows : s # r => row'[s] = row[s]
      /\ mine'[p] = mine[p] \cup {r} /\ got'[p] = got[p] \cup {r}
      /\ \A q \in Producers : q # p => mine'[q] = mine[q] /\ got'[q] = got[q]
      /\ phase'[p] = "idle"
      /\ \A q \in Producers : q # p => phase'[q] = phase[q]
      /\ \A q \in Producers : mine[q] \subseteq Rows /\ got[q] \subseteq Rows
  BY <1>1, <1>2 DEF IInv, TypeOK
<1>5. MineIsOpen' /\ MineIsApart'
  BY <1>1, <1>4 DEF IInv, MineIsOpen, MineIsApart
<1>6. \A s \in Rows : row[s].call.key = call[p].key => ~Alive(s)
  BY DEF Create, Seen, Undecided, Alive
<1>7. OneTaskPerKey'
  BY <1>4, <1>6 DEF IInv, OneTaskPerKey, Alive, Committed
<1>8. ReturnedTaskStays'
  BY <1>1, <1>2, <1>4 DEF IInv, ReturnedTaskStays, Committed
<1>9. CollidedWithRow'
  BY <1>1, <1>2, <1>4 DEF IInv, CollidedWithRow, Committed
<1>10. RefusedOnlyForPurge' /\ ConflictIsReal'
  BY <1>1, <1>2, <1>4 DEF IInv, RefusedOnlyForPurge, ConflictIsReal
<1> QED
  BY <1>3, <1>5, <1>7, <1>8, <1>9, <1>10 DEF IInv

(* A step of a call that leaves the table and the rows of transactions     *)
(* alone disturbs only what is said of calls.                              *)
LEMMA TableUntouched ==
    ASSUME IInv, UNCHANGED <<row, mine>>
    PROVE  MineIsOpen' /\ MineIsApart' /\ OneTaskPerKey'
  BY DEF IInv, MineIsOpen, MineIsApart, OneTaskPerKey, Alive, Committed

LEMMA RequestInvariant ==
    ASSUME IInv, NEW p \in Producers, NEW c \in Calls, Request(p, c)
    PROVE  IInv'
<1>1. MineIsOpen' /\ MineIsApart' /\ OneTaskPerKey'
  BY TableUntouched DEF Request
<1>2. TypeOK'
  BY ProducersAssumption DEF IInv, TypeOK, Request, Ended
<1>3. ReturnedTaskStays' /\ CollidedWithRow'
  BY DEF IInv, TypeOK, Request, ReturnedTaskStays, CollidedWithRow, Committed
<1>4. RefusedOnlyForPurge' /\ ConflictIsReal'
  BY DEF IInv, TypeOK, Request, RefusedOnlyForPurge, ConflictIsReal
<1> QED
  BY <1>1, <1>2, <1>3, <1>4 DEF IInv

LEMMA CollideInvariant ==
    ASSUME IInv, NEW p \in Producers, Collide(p)
    PROVE  IInv'
<1>1. MineIsOpen' /\ MineIsApart' /\ OneTaskPerKey'
  BY TableUntouched DEF Collide
<1>2. TypeOK'
  BY DEF IInv, TypeOK, Collide, Ended
<1>3. CollidedWithRow'
  BY DEF IInv, TypeOK, Collide, Seen, CollidedWithRow, Committed
<1>4. ReturnedTaskStays'
  BY DEF IInv, TypeOK, Collide, Ended, ReturnedTaskStays, Committed
<1>5. RefusedOnlyForPurge' /\ ConflictIsReal'
  BY DEF IInv, Collide, RefusedOnlyForPurge, ConflictIsReal
<1> QED
  BY <1>1, <1>2, <1>3, <1>4, <1>5 DEF IInv

LEMMA LookUpInvariant ==
    ASSUME IInv, NEW p \in Producers, LookUp(p)
    PROVE  IInv'
<1> DEFINE found == Existing(p, call[p].key)
           same == {r \in found : ~Differs(r, call[p])}
<1>1. MineIsOpen' /\ MineIsApart' /\ OneTaskPerKey'
  BY TableUntouched DEF LookUp
<1>2. /\ got' = [got EXCEPT ![p] = @ \cup same]
      /\ phase[p] = "lookup" /\ phase' = [phase EXCEPT ![p] = "idle"]
      /\ UNCHANGED <<row, mine, call, calls>>
  BY DEF LookUp
<1>3. same \subseteq Rows /\ \A r \in same : Committed(r) \/ r \in mine[p]
  BY DEF Existing, Seen
<1>4. /\ refused' = [refused EXCEPT ![p] = refused'[p]]
      /\ refused'[p] \in {"no", "integrity", "conflict"}
      /\ refused'[p] = "integrity" => found = {}
      /\ refused'[p] = "conflict" => found # {} /\ same = {}
  BY DEF LookUp, IInv, TypeOK
<1>5. TypeOK'
  BY <1>2, <1>3, <1>4 DEF IInv, TypeOK, Ended
<1>6. ReturnedTaskStays' /\ CollidedWithRow'
  BY <1>2, <1>3 DEF IInv, TypeOK, ReturnedTaskStays, CollidedWithRow, Committed
<1>7. refused'[p] = "integrity" =>
        \E r \in Rows : row[r].call.key = call[p].key /\ row[r].state = "purged"
  BY <1>2, <1>4 DEF IInv, CollidedWithRow, Existing, Seen
<1>8. refused'[p] = "conflict" =>
        \E r \in Rows :
            /\ row[r].state # "free"
            /\ row[r].call.key = call[p].key
            /\ row[r].call.contract # call[p].contract
  BY <1>4 DEF IInv, MineIsOpen, Existing, Seen, Committed, Differs
<1>9. \A q \in Producers : q # p => refused'[q] = refused[q]
  BY <1>4 DEF IInv, TypeOK
<1>10. RefusedOnlyForPurge' /\ ConflictIsReal'
  BY <1>2, <1>7, <1>8, <1>9 DEF IInv, RefusedOnlyForPurge, ConflictIsReal
<1> QED
  BY <1>1, <1>5, <1>6, <1>10 DEF IInv

LEMMA RefuseDeadlockInvariant ==
    ASSUME IInv, NEW p \in Producers, RefuseDeadlock(p)
    PROVE  IInv'
<1>1. MineIsOpen' /\ MineIsApart' /\ OneTaskPerKey'
  BY TableUntouched DEF RefuseDeadlock
<1>2. phase[p] = "insert"
  BY DEF RefuseDeadlock, WaitsFor
<1>3. TypeOK'
  BY DEF IInv, TypeOK, RefuseDeadlock, Ended
<1>4. ReturnedTaskStays' /\ CollidedWithRow'
  BY <1>2 DEF IInv, TypeOK, RefuseDeadlock, ReturnedTaskStays, CollidedWithRow, Committed
<1>5. RefusedOnlyForPurge' /\ ConflictIsReal'
  BY DEF IInv, TypeOK, RefuseDeadlock, RefusedOnlyForPurge, ConflictIsReal
<1> QED
  BY <1>1, <1>3, <1>4, <1>5 DEF IInv

-----------------------------------------------------------------------------
(* The end of a transaction, and what becomes of tasks meanwhile.          *)

LEMMA CommitInvariant ==
    ASSUME IInv, NEW p \in Producers, Commit(p)
    PROVE  IInv'
<1>1. /\ \A r \in Rows : row'[r].call = row[r].call
      /\ \A r \in Rows : r \in mine[p] => row'[r].state = "kept"
      /\ \A r \in Rows : r \notin mine[p] => row'[r] = row[r]
      /\ mine'[p] = {}
      /\ \A q \in Producers : q # p => mine'[q] = mine[q]
      /\ phase[p] = "idle" /\ phase'[p] = "committed"
      /\ \A q \in Producers : q # p => phase'[q] = phase[q]
      /\ UNCHANGED <<call, calls, refused, got>>
      /\ \A q \in Producers : mine[q] \subseteq Rows /\ got[q] \subseteq Rows
  BY DEF Commit, IInv, TypeOK
<1>2. TypeOK'
  BY DEF Commit, IInv, TypeOK, RowStates, Ended
<1>3. MineIsOpen' /\ MineIsApart'
  BY <1>1 DEF IInv, MineIsOpen, MineIsApart
<1>4. OneTaskPerKey'
  BY <1>1 DEF IInv, MineIsOpen, OneTaskPerKey, Alive, Committed
<1>5. ReturnedTaskStays'
  BY <1>1 DEF IInv, MineIsApart, ReturnedTaskStays, Committed
<1>6. CollidedWithRow'
  BY <1>1 DEF IInv, MineIsApart, CollidedWithRow, Committed
<1>7. RefusedOnlyForPurge' /\ ConflictIsReal'
  BY <1>1 DEF IInv, MineIsOpen, RefusedOnlyForPurge, ConflictIsReal
<1> QED
  BY <1>2, <1>3, <1>4, <1>5, <1>6, <1>7 DEF IInv

LEMMA RollbackInvariant ==
    ASSUME IInv, NEW p \in Producers, Rollback(p)
    PROVE  IInv'
<1>1. /\ \A r \in Rows : row'[r].call = row[r].call
      /\ \A r \in Rows : r \in mine[p] => row'[r].state = "undone"
      /\ \A r \in Rows : r \notin mine[p] => row'[r] = row[r]
      /\ mine'[p] = {}
      /\ \A q \in Producers : q # p => mine'[q] = mine[q]
      /\ phase'[p] = "undone"
      /\ \A q \in Producers : q # p => phase'[q] = phase[q]
      /\ UNCHANGED <<call, calls, refused, got>>
      /\ \A q \in Producers : mine[q] \subseteq Rows /\ got[q] \subseteq Rows
  BY DEF Rollback, IInv, TypeOK
<1>2. TypeOK'
  BY DEF Rollback, IInv, TypeOK, RowStates, Ended
<1>3. MineIsOpen' /\ MineIsApart'
  BY <1>1 DEF IInv, MineIsOpen, MineIsApart
<1>4. OneTaskPerKey'
  BY <1>1 DEF IInv, OneTaskPerKey, Alive, Committed
<1>5. ReturnedTaskStays'
  BY <1>1 DEF IInv, MineIsOpen, MineIsApart, ReturnedTaskStays, Committed
<1>6. CollidedWithRow'
  BY <1>1 DEF IInv, MineIsOpen, MineIsApart, CollidedWithRow, Committed
<1>7. RefusedOnlyForPurge' /\ ConflictIsReal'
  BY <1>1 DEF IInv, MineIsOpen, RefusedOnlyForPurge, ConflictIsReal
<1> QED
  BY <1>2, <1>3, <1>4, <1>5, <1>6, <1>7 DEF IInv

(* A step of the workers or the purge: committed rows stay committed or    *)
(* are purged, and the others are left alone.                              *)
LEMMA LedgerInvariant ==
    ASSUME IInv, UNCHANGED <<mine, phase, call, calls, refused, got>>,
           row' \in [Rows -> [state : RowStates, call : Calls, moved : BOOLEAN]],
           \A r \in Rows :
            \/ row'[r] = row[r]
            \/ /\ Committed(r) /\ row'[r].call = row[r].call
               /\ row'[r].state \in {"kept", "completed", "purged"}
    PROVE  IInv'
<1>1. TypeOK'
  BY DEF IInv, TypeOK
<1>2. MineIsOpen' /\ MineIsApart'
  BY DEF IInv, TypeOK, MineIsOpen, MineIsApart, Committed
<1>3. OneTaskPerKey'
  BY DEF IInv, OneTaskPerKey, Alive, Committed
<1>4. ReturnedTaskStays' /\ CollidedWithRow'
  BY DEF IInv, TypeOK, ReturnedTaskStays, CollidedWithRow, Committed
<1>5. RefusedOnlyForPurge' /\ ConflictIsReal'
  BY DEF IInv, RefusedOnlyForPurge, ConflictIsReal, Committed
<1> QED
  BY <1>1, <1>2, <1>3, <1>4, <1>5 DEF IInv

LEMMA TaskStepInvariant ==
    ASSUME IInv, NEW r \in Rows, Reschedule(r) \/ Complete(r)
    PROVE  IInv'
<1>1. CASE Reschedule(r)
  BY <1>1, LedgerInvariant DEF Reschedule, IInv, TypeOK, RowStates, Committed
<1>2. CASE Complete(r)
  BY <1>2, LedgerInvariant DEF Complete, IInv, TypeOK, RowStates, Committed
<1> QED
  BY <1>1, <1>2

LEMMA PurgeInvariant ==
    ASSUME IInv, NEW old \in SUBSET Rows, Purge(old)
    PROVE  IInv'
  BY LedgerInvariant DEF Purge, IInv, TypeOK, RowStates, Committed

LEMMA StutterInvariant ==
    ASSUME IInv, UNCHANGED vars
    PROVE  IInv'
  BY LedgerInvariant DEF vars, IInv, TypeOK

LEMMA InvariantIsInductive ==
    ASSUME IInv, [Next]_vars
    PROVE  IInv'
<1>1. ASSUME NEW p \in Producers, NEW c \in Calls, Request(p, c)
      PROVE  IInv'
  BY <1>1, RequestInvariant
<1>2. ASSUME NEW p \in Producers,
             Create(p) \/ Collide(p) \/ LookUp(p) \/ RefuseDeadlock(p)
                \/ Commit(p) \/ Rollback(p)
      PROVE  IInv'
  BY <1>2, CreateInvariant, CollideInvariant, LookUpInvariant,
     RefuseDeadlockInvariant, CommitInvariant, RollbackInvariant
<1>3. ASSUME NEW r \in Rows, Reschedule(r) \/ Complete(r)
      PROVE  IInv'
  BY <1>3, TaskStepInvariant
<1>4. ASSUME NEW old \in SUBSET Rows, Purge(old)
      PROVE  IInv'
  BY <1>4, PurgeInvariant
<1> QED
  BY <1>1, <1>2, <1>3, <1>4, NextIsStep, StutterInvariant DEF Step

-----------------------------------------------------------------------------
LEMMA AgreementFollows == IInv => Agreement
<1> SUFFICES ASSUME IInv,
                    NEW p \in Producers, NEW q \in Producers,
                    phase[p] # "undone", phase[q] # "undone",
                    NEW r \in got[p], NEW s \in got[q],
                    r # s, row[r].call.key = row[s].call.key
             PROVE  "purged" \in {row[r].state, row[s].state}
  BY DEF Agreement
<1>1. r \in Rows /\ s \in Rows
  BY DEF IInv, TypeOK
<1>2. /\ row[r].state = "purged" \/ Alive(r)
      /\ row[s].state = "purged" \/ Alive(s)
  BY DEF IInv, ReturnedTaskStays, MineIsOpen, Alive
<1> QED
  BY <1>1, <1>2 DEF IInv, OneTaskPerKey

LEMMA AlwaysInvariant == Spec => []IInv
<1>1. Init => IInv
  BY InitInvariant
<1>2. IInv /\ [Next]_vars => IInv'
  BY InvariantIsInductive
<1> QED
  BY <1>1, <1>2, PTL DEF Spec

(* Variables keep their types; transactions that ended hold nothing        *)
(* uncommitted.                                                            *)
THEOREM IdempotencyTypeCorrect == Spec => []TypeOK
  BY AlwaysInvariant, PTL DEF IInv

(* However many producers race, create, collide, roll back or die, no two  *)
(* of them go on with different tasks of one key, unless one was purged.   *)
THEOREM AgreementCorrect == Spec => []Agreement
<1>1. IInv => Agreement
  BY AgreementFollows
<1> QED
  BY <1>1, AlwaysInvariant, PTL

(* A task that create_or_get_task returned is never rolled back by another *)
(* transaction.                                                            *)
THEOREM ReturnedTaskStaysCorrect == Spec => []ReturnedTaskStays
  BY AlwaysInvariant, PTL DEF IInv

(* The IntegrityError reaches a caller only after a purge of its key.      *)
THEOREM RefusalCorrect == Spec => []RefusedOnlyForPurge
  BY AlwaysInvariant, PTL DEF IInv

(* A conflict is reported only for a task with another contract.           *)
THEOREM ConflictCorrect == Spec => []ConflictIsReal
  BY AlwaysInvariant, PTL DEF IInv

(* What a producer inserted stays inserted until it ends its transaction,  *)
(* whatever happens to its other calls and to other transactions.          *)
THEOREM CallerWorkCorrect == Spec => CallerKeepsItsWork
<1>1. ASSUME IInv, [Next]_vars
      PROVE  [\A p \in Producers : phase'[p] \notin Ended =>
                /\ mine[p] \subseteq mine'[p]
                /\ \A r \in mine'[p] : row'[r].state = "open"]_vars
  <2>1. MineIsOpen'
    BY <1>1, InvariantIsInductive DEF IInv
  <2>2. SUFFICES ASSUME Next, NEW p \in Producers, phase'[p] \notin Ended
                 PROVE  mine[p] \subseteq mine'[p]
    BY <1>1, <2>1 DEF MineIsOpen
  <2>3. CASE \E q \in Producers, c \in Calls : Request(q, c)
    BY <2>3 DEF Request
  <2>4. CASE \E q \in Producers :
                Create(q) \/ Collide(q) \/ LookUp(q) \/ RefuseDeadlock(q)
    BY <1>1, <2>4 DEF Create, Collide, LookUp, RefuseDeadlock, IInv, TypeOK
  <2>5. CASE \E q \in Producers : Commit(q) \/ Rollback(q)
    BY <1>1, <2>2, <2>5 DEF Commit, Rollback, IInv, TypeOK, Ended
  <2>6. CASE \/ \E r \in Rows : Reschedule(r) \/ Complete(r)
             \/ \E old \in SUBSET Rows : Purge(old)
    BY <2>6 DEF Reschedule, Complete, Purge
  <2> QED
    BY <2>2, <2>3, <2>4, <2>5, <2>6, NextIsStep DEF Step
<1> QED
  BY <1>1, AlwaysInvariant, PTL DEF Spec, CallerKeepsItsWork

-----------------------------------------------------------------------------
(* One task per key, to everybody else.                                    *)

(* The abstract specification's variables, and what becomes of them.       *)
Tasks == {Entry(r) : r \in {s \in Rows : Committed(s)}}
Retired == {Entry(r) : r \in {s \in Rows : row[s].state = "purged"}}
Answered == {p \in Producers : phase[p] = "committed"}
Answers == [p \in Producers |->
                IF phase[p] = "committed" THEN {Entry(r) : r \in got[p]} ELSE {}]

(* An entry tells its row.                                                 *)
LEMMA EntryFacts ==
    ASSUME TypeOK, NEW r \in Rows
    PROVE  /\ Entry(r) \in Unique!Task
           /\ Entry(r).key = row[r].call.key /\ Entry(r).id = r
           /\ Entry(r) \in Tasks <=> Committed(r)
           /\ Entry(r) \in Retired <=> row[r].state = "purged"
  BY DEF TypeOK, Calls, Entry, Unique!Task, Tasks, Retired

(* Answers are kept as long as their producers and their rows are.         *)
LEMMA AnswersKept ==
    ASSUME IInv,
           \A p \in Producers :
              /\ phase'[p] = "committed" <=> phase[p] = "committed"
              /\ phase[p] = "committed" => got'[p] = got[p],
           \A r \in Rows : Committed(r) \/ row[r].state = "purged" =>
                               Entry(r)' = Entry(r)
    PROVE  Answered' = Answered /\ Answers' = Answers
<1> DEFINE Of(p) == IF phase[p] = "committed" THEN {Entry(r) : r \in got[p]}
                                              ELSE {}
<1>1. ASSUME NEW p \in Producers PROVE Of(p)' = Of(p)
  <2>1. CASE phase[p] = "committed"
    <3>1. \A r \in got[p] : Entry(r)' = Entry(r)
      BY <2>1 DEF IInv, TypeOK, Ended, ReturnedTaskStays
    <3>2. phase'[p] = "committed" /\ got'[p] = got[p]
      BY <2>1
    <3> QED
      BY <2>1, <3>1, <3>2
  <2>2. CASE phase[p] # "committed"
    BY <2>2
  <2> QED
    BY <2>1, <2>2
<1>2. Answers = [p \in Producers |-> Of(p)]
  BY DEF Answers
<1>3. Answers' = [p \in Producers |-> Of(p)']
  BY DEF Answers
<1>4. Answers' = Answers
  <2> HIDE DEF Of
  <2> QED
    BY <1>1, <1>2, <1>3
<1>5. Answered' = Answered
  BY DEF Answered
<1> QED
  BY <1>4, <1>5

(* Steps before the commit, and rollbacks, show nothing.                   *)
LEMMA HiddenStep ==
    ASSUME IInv,
           \A p \in Producers :
              /\ phase'[p] = "committed" <=> phase[p] = "committed"
              /\ phase[p] = "committed" => got'[p] = got[p],
           \A r \in Rows :
              /\ Committed(r)' <=> Committed(r)
              /\ row'[r].state = "purged" <=> row[r].state = "purged"
              /\ row[r].state # "free" => row'[r].call = row[r].call
    PROVE  UNCHANGED <<Tasks, Retired, Answered, Answers>>
<1>1. \A r \in Rows : Committed(r) \/ row[r].state = "purged" =>
                        Entry(r)' = Entry(r)
  BY DEF Entry, Committed
<1>2. Tasks' = Tasks /\ Retired' = Retired
  BY <1>1 DEF Tasks, Retired
<1>3. Answered' = Answered /\ Answers' = Answers
  BY <1>1, AnswersKept
<1> QED
  BY <1>2, <1>3

(* A commit adds tasks of keys that have none and answers its producer.    *)
LEMMA CommitPublishes ==
    ASSUME IInv, NEW p \in Producers, Commit(p)
    PROVE  Unique!Publish(p)
<1>1. /\ \A r \in Rows : Entry(r)' = Entry(r)
      /\ \A r \in Rows : Committed(r)' <=> Committed(r) \/ r \in mine[p]
      /\ \A r \in Rows : row'[r].state = "purged" <=> row[r].state = "purged"
  BY DEF Commit, IInv, TypeOK, MineIsOpen, Committed, Entry
<1>2. /\ phase[p] = "idle" /\ phase'[p] = "committed"
      /\ \A q \in Producers : q # p => phase'[q] = phase[q]
      /\ got' = got
      /\ mine[p] \subseteq Rows /\ got[p] \subseteq Rows
  BY DEF Commit, IInv, TypeOK
<1>3. Retired' = Retired
  BY <1>1 DEF Retired
<1>4. Tasks' = Tasks \cup {Entry(r) : r \in mine[p]}
  BY <1>1, <1>2 DEF Tasks
<1>5. Answered' = Answered \cup {p} /\ p \notin Answered
  BY <1>2 DEF Answered
<1>6. \A r \in mine[p] : r \in Rows /\ Alive(r) /\ ~Committed(r)
  BY <1>2 DEF IInv, MineIsOpen, Alive, Committed
<1>7. Unique!Admissible(Tasks' \ Tasks)
  <2> DEFINE new == Tasks' \ Tasks
  <2>1. \A t \in new : \E r \in mine[p] : t = Entry(r)
    BY <1>4
  <2>2. new \subseteq Unique!Task
    BY <1>6, <2>1, EntryFacts DEF IInv
  <2>3. ASSUME NEW r \in mine[p], NEW s \in Rows, Alive(s),
               Entry(r).key = Entry(s).key
        PROVE  r = s
    BY <1>6, <2>3, EntryFacts DEF IInv, OneTaskPerKey
  <2>4. ASSUME NEW t \in new, NEW u \in Tasks PROVE t.key # u.key
    BY <1>6, <2>1, <2>3 DEF Tasks, Alive
  <2>5. ASSUME NEW t \in new, NEW u \in Tasks \cup Retired PROVE t.id # u.id
    <3>1. PICK r \in mine[p] : t = Entry(r)
      BY <2>1
    <3>2. PICK s \in Rows : u = Entry(s) /\ (Committed(s) \/ row[s].state = "purged")
      BY DEF Tasks, Retired
    <3>3. row[r].state = "open"
      BY DEF IInv, MineIsOpen
    <3> QED
      BY <1>6, <3>1, <3>2, <3>3 DEF Entry, Committed
  <2>6. ASSUME NEW t \in new, NEW u \in new, t.key = u.key \/ t.id = u.id
        PROVE  t = u
    BY <1>6, <2>1, <2>3, <2>6 DEF Entry
  <2> QED
    BY <2>2, <2>4, <2>5, <2>6
    DEF Unique!Admissible, Tasks, Retired
<1>8. {Entry(r) : r \in got[p]} \subseteq Tasks' \cup Retired
  <2>1. \A r \in got[p] :
            r \in Rows /\ (Committed(r) \/ row[r].state = "purged" \/ r \in mine[p])
    BY <1>2 DEF IInv, ReturnedTaskStays
  <2> QED
    BY <1>4, <2>1 DEF Tasks, Retired
<1>9. Answers' = [Answers EXCEPT ![p] = {Entry(r) : r \in got[p]}]
  <2>1. \A q \in Producers : {Entry(r)' : r \in got[q]} = {Entry(r) : r \in got[q]}
    BY <1>1 DEF IInv, TypeOK
  <2> QED
    BY <1>2, <2>1 DEF Answers
<1> QED
  BY <1>3, <1>4, <1>5, <1>7, <1>8, <1>9
  DEF Unique!Publish, Tasks, Retired, Answered, Answers

(* A purge moves tasks to those that have been.                            *)
LEMMA PurgeRetires ==
    ASSUME IInv, NEW old \in SUBSET Rows, Purge(old)
    PROVE  Unique!Retire
<1>1. /\ \A r \in Rows : Entry(r)' = Entry(r)
      /\ \A r \in Rows : Committed(r)' <=> Committed(r) /\ r \notin old
      /\ \A r \in Rows : row'[r].state = "purged" <=>
                              row[r].state = "purged" \/ r \in old
      /\ \A r \in old : Committed(r)
      /\ UNCHANGED <<phase, got>>
  BY DEF Purge, IInv, TypeOK, Committed, Entry
<1>2. Tasks' = Tasks \ {Entry(r) : r \in old}
  <2>1. \A r, s \in Rows : Entry(r) = Entry(s) => r = s
    BY DEF Entry
  <2>2. \A r \in Rows : Entry(r) \in {Entry(s) : s \in old} <=> r \in old
    BY <2>1
  <2>3. Tasks' = {Entry(r) : r \in {s \in Rows : Committed(s) /\ s \notin old}}
    BY <1>1 DEF Tasks
  <2> QED
    BY <2>2, <2>3 DEF Tasks
<1>3. Retired' = Retired \cup {Entry(r) : r \in old}
  BY <1>1 DEF Retired
<1>4. {Entry(r) : r \in old} \subseteq Tasks
  BY <1>1 DEF Tasks
<1>5. Answered' = Answered /\ Answers' = Answers
  BY <1>1, AnswersKept
<1> QED
  BY <1>2, <1>3, <1>4, <1>5
  DEF Unique!Retire, Tasks, Retired, Answered, Answers

LEMMA UniquenessStep ==
    ASSUME IInv, [Next]_vars
    PROVE  [Unique!Next]_(Unique!vars)
<1>1. UNCHANGED <<Tasks, Retired, Answered, Answers>> => UNCHANGED Unique!vars
  BY DEF Unique!vars, Tasks, Retired, Answered, Answers
<1>2. ASSUME NEW p \in Producers, NEW c \in Calls, Request(p, c)
      PROVE  UNCHANGED <<Tasks, Retired, Answered, Answers>>
  BY <1>2, HiddenStep DEF Request, IInv, TypeOK, Committed
<1>3. ASSUME NEW p \in Producers,
             Collide(p) \/ LookUp(p) \/ RefuseDeadlock(p)
      PROVE  UNCHANGED <<Tasks, Retired, Answered, Answers>>
  BY <1>3, HiddenStep
  DEF Collide, LookUp, RefuseDeadlock, WaitsFor, IInv, TypeOK, Committed
<1>4. ASSUME NEW p \in Producers, Create(p)
      PROVE  UNCHANGED <<Tasks, Retired, Answered, Answers>>
  <2>1. PICK r \in Rows :
            /\ row[r].state = "free"
            /\ row' = [row EXCEPT ![r] =
                        [state |-> "open", call |-> call[p], moved |-> FALSE]]
            /\ got' = [got EXCEPT ![p] = @ \cup {r}]
    BY <1>4, CreateFacts
  <2>2. \A s \in Rows :
            /\ Committed(s)' <=> Committed(s)
            /\ row'[s].state = "purged" <=> row[s].state = "purged"
            /\ row[s].state # "free" => row'[s].call = row[s].call
    BY <2>1 DEF IInv, TypeOK, Committed
  <2>3. /\ phase[p] = "insert" /\ phase'[p] = "idle"
        /\ \A q \in Producers :
              q # p => phase'[q] = phase[q] /\ got'[q] = got[q]
    BY <1>4, <2>1 DEF Create, IInv, TypeOK
  <2> QED
    BY <2>2, <2>3, HiddenStep
<1>5. ASSUME NEW p \in Producers, Rollback(p)
      PROVE  UNCHANGED <<Tasks, Retired, Answered, Answers>>
  <2>1. \A s \in Rows :
            /\ Committed(s)' <=> Committed(s)
            /\ row'[s].state = "purged" <=> row[s].state = "purged"
            /\ row'[s].call = row[s].call
    BY <1>5 DEF Rollback, IInv, TypeOK, MineIsOpen, Committed
  <2>2. /\ phase[p] # "committed" /\ phase'[p] # "committed"
        /\ \A q \in Producers : q # p => phase'[q] = phase[q]
        /\ got' = got
    BY <1>5 DEF Rollback, IInv, TypeOK, Ended
  <2> QED
    BY <2>1, <2>2, HiddenStep
<1>6. ASSUME NEW r \in Rows, Reschedule(r) \/ Complete(r)
      PROVE  UNCHANGED <<Tasks, Retired, Answered, Answers>>
  BY <1>6, HiddenStep DEF Reschedule, Complete, IInv, TypeOK, Committed
<1>7. UNCHANGED vars => UNCHANGED <<Tasks, Retired, Answered, Answers>>
  BY DEF vars, Tasks, Retired, Answered, Answers, Committed, Entry
<1> QED
  BY <1>1, <1>2, <1>3, <1>4, <1>5, <1>6, <1>7, NextIsStep, CommitPublishes,
     PurgeRetires
  DEF Step, Unique!Next

(* However many producers race for however many keys, others see tasks     *)
(* appear one per key, commit by commit, and producers go away with those. *)
THEOREM UniquenessCorrect == Spec => UniquenessImplemented
<1>1. Init => Unique!Init
  BY DEF Init, Unique!Init, Committed
<1>2. IInv /\ [Next]_vars => [Unique!Next]_(Unique!vars)
  BY UniquenessStep
<1> QED
  BY <1>1, <1>2, AlwaysInvariant, PTL
  DEF Spec, UniquenessImplemented, Unique!Spec
=============================================================================
