-------------------------------- MODULE Keyed -------------------------------
(***************************************************************************)
(* The create / update / delete protocol that ProducersService,            *)
(* SeasonsService and CropsService share, over a table with one unique     *)
(* column (document, year, name).  A handler looks first and writes after  *)
(* another await: between the two, the handlers of other requests run.     *)
(* What a DELETE does to other tables is left to the module of the table.  *)
(***************************************************************************)
EXTENDS Http, Naturals, FiniteSets, TLAPS

CONSTANTS Ids, Keys, Requests, Unborn, Gone

VARIABLES
    table,      \* the unique column: id -> key, Unborn or Gone
    call        \* the requests in flight, and the last answer of the others

Steps == {"lookup", "write"}    \* the query the handler awaits next

Creating == [op : {"create"}, at : Steps, key : Keys]
Updating == [op : {"update"}, at : Steps, id : Ids, key : Keys \cup {Omitted}]
Deleting == [op : {"delete"}, at : Steps, id : Ids]
Idle == [at : {"idle"}, status : Status]

CallTypeOK == call \in [Requests -> Creating \cup Updating \cup Deleting \cup Idle]

CallInit == call = [r \in Requests |-> Answered(200)]

IdleAt(r) == call[r].at = "idle"
LooksFor(r, op) == call[r].at = "lookup" /\ call[r].op = op
Writes(r, op) == call[r].at = "write" /\ call[r].op = op

Exists(id) == table[id] \notin {Unborn, Gone}
IsTaken(key) == \E id \in Ids : table[id] = key
IsTakenByOther(key, id) == \E other \in Ids \ {id} : table[other] = key

(* The unique column refuses the write that r awaits.                      *)
RunsIntoKey(r) ==
    \/ Writes(r, "create") /\ IsTaken(call[r].key)
    \/ /\ Writes(r, "update") /\ Exists(call[r].id) /\ call[r].key # Omitted
       /\ IsTakenByOther(call[r].key, call[r].id)

(* The row that r is about to write is gone since its look-up.              *)
RowVanished(r) ==
    (Writes(r, "update") \/ Writes(r, "delete")) /\ ~Exists(call[r].id)

Answer(r, status) == call' = [call EXCEPT ![r] = Answered(status)]
Throw(r, e) == Answer(r, Caught(e))
Proceed(r) == call' = [call EXCEPT ![r].at = "write"]
Accept(r, request) == IdleAt(r) /\ call' = [call EXCEPT ![r] = request] /\ UNCHANGED table

(* The bound of the model: a create starts only when an unborn id is left  *)
(* for it and for every create in flight.                                  *)
Creators == {r \in Requests : ~IdleAt(r) /\ call[r].op = "create"}
IdLeft == Cardinality(Creators) < Cardinality({id \in Ids : table[id] = Unborn})

Post(r, key) == IdLeft /\ Accept(r, [op |-> "create", at |-> "lookup", key |-> key])

Patch(r, id, key) ==
    Accept(r, [op |-> "update", at |-> "lookup", id |-> id, key |-> key])

Delete(r, id) == Accept(r, [op |-> "delete", at |-> "lookup", id |-> id])

(* create: findByDocument / findByYear / findByName answers.               *)
FindByKey(r) ==
    /\ LooksFor(r, "create")
    /\ UNCHANGED table
    /\ \/ IsTaken(call[r].key) /\ Throw(r, "Conflict")
       \/ ~IsTaken(call[r].key) /\ Proceed(r)

(* The INSERT into a column without its unique constraint.                 *)
InsertUnconstrained(r) ==
    /\ Writes(r, "create")
    /\ \E id \in Ids : /\ table[id] = Unborn
                       /\ table' = [table EXCEPT ![id] = call[r].key]
    /\ \E status \in Replies(201) : Answer(r, status)

(* create: the INSERT.  Nobody translates the P2002 of a key that was      *)
(* taken since the look-up.                                                *)
Insert(r) ==
    /\ Writes(r, "create")
    /\ \/ /\ IsTaken(call[r].key)
          /\ Throw(r, "P2002")
          /\ UNCHANGED table
       \/ /\ ~IsTaken(call[r].key)
          /\ \E id \in Ids : /\ table[id] = Unborn
                             /\ table' = [table EXCEPT ![id] = call[r].key]
          /\ \E status \in Replies(201) : Answer(r, status)

(* update and delete: findById answers.                                    *)
FindById(r) ==
    /\ LooksFor(r, "update") \/ LooksFor(r, "delete")
    /\ UNCHANGED table
    /\ \/ Exists(call[r].id) /\ Proceed(r)
       \/ ~Exists(call[r].id) /\ Throw(r, "NotFound")

(* An UPDATE that writes the key of the body, which may carry none.        *)
UpdateUndefined(r) ==
    /\ Writes(r, "update")
    /\ Exists(call[r].id)
    /\ table' = [table EXCEPT ![call[r].id] = call[r].key]
    /\ \E status \in Replies(200) : Answer(r, status)

(* update: the UPDATE, which checks nothing in the service: a row that     *)
(* vanished since the look-up is a P2025, a key another row has a P2002.   *)
Update(r) ==
    LET id == call[r].id
        key == Given(call[r].key, table[id])
    IN /\ Writes(r, "update")
       /\ \/ /\ ~Exists(id)
             /\ Throw(r, "P2025")
             /\ UNCHANGED table
          \/ /\ Exists(id) /\ IsTakenByOther(key, id)
             /\ Throw(r, "P2002")
             /\ UNCHANGED table
          \/ /\ Exists(id) /\ ~IsTakenByOther(key, id)
             /\ table' = [table EXCEPT ![id] = key]
             /\ \E status \in Replies(200) : Answer(r, status)

(* delete: the row vanished since the look-up (P2025).                     *)
DeleteNothing(r) ==
    /\ Writes(r, "delete")
    /\ ~Exists(call[r].id)
    /\ Throw(r, "P2025")
    /\ UNCHANGED table

(* The catch of the service without its P2003.                             *)
RefuseDeleteUntranslated(r) ==
    /\ Writes(r, "delete")
    /\ Exists(call[r].id)
    /\ Throw(r, "P2003")
    /\ UNCHANGED table

(* delete: a foreign key refuses it, and the service answers 409.          *)
RefuseDelete(r) ==
    /\ Writes(r, "delete")
    /\ Exists(call[r].id)
    /\ Throw(r, "Conflict")
    /\ UNCHANGED table

(* delete: the row goes.                                                   *)
DeleteRow(r) ==
    /\ Writes(r, "delete")
    /\ Exists(call[r].id)
    /\ table' = [table EXCEPT ![call[r].id] = Gone]
    /\ \E status \in Replies(204) : Answer(r, status)

(* A statement fails because the database cannot be reached, before it was *)
(* executed.                                                               *)
LoseDatabase(r) ==
    /\ Outages /\ ~IdleAt(r)
    /\ \E e \in Connectivity : Throw(r, e)
    /\ UNCHANGED table

Step(r) ==
    \/ \E key \in Keys : Post(r, key)
    \/ \E id \in Ids, key \in Keys \cup {Omitted} : Patch(r, id, key)
    \/ \E id \in Ids : Delete(r, id)
    \/ FindByKey(r) \/ Insert(r) \/ FindById(r) \/ Update(r)
    \/ DeleteNothing(r) \/ RefuseDelete(r) \/ DeleteRow(r)
    \/ LoseDatabase(r)

-----------------------------------------------------------------------------

TableTypeOK == table \in [Ids -> Keys \cup {Unborn, Gone}]

Rows == {id \in Ids : Exists(id)}

(* Whatever is thrown, the filter answers one of the statuses of the API.  *)
LEMMA CaughtIsStatus == \A e : Caught(e) \in Status
BY DEF Caught, HttpException, Connectivity, Status

(* Whatever becomes of the connection, a write answers one of them.        *)
LEMMA RepliesAreStatuses ==
    ASSUME NEW status \in Status
    PROVE  Replies(status) \subseteq Status
BY CaughtIsStatus DEF Replies

(* An answered request leaves a well-typed slot.                           *)
LEMMA AnswerType ==
    ASSUME CallTypeOK, NEW r \in Requests, NEW status \in Status, Answer(r, status)
    PROVE  CallTypeOK'
BY DEF CallTypeOK, Answer, Answered, Idle

LEMMA ThrowType ==
    ASSUME CallTypeOK, NEW r \in Requests, NEW e, Throw(r, e)
    PROVE  CallTypeOK'
BY AnswerType, CaughtIsStatus DEF Throw

(* So does a request that goes on to its write.                            *)
LEMMA ProceedType ==
    ASSUME CallTypeOK, NEW r \in Requests, ~IdleAt(r), Proceed(r)
    PROVE  CallTypeOK'
BY DEF CallTypeOK, Proceed, IdleAt, Idle, Creating, Updating, Deleting, Steps

(* Every step of the protocol keeps the slots and the table well typed.    *)
LEMMA StepType ==
    ASSUME CallTypeOK, TableTypeOK, NEW r \in Requests, Step(r)
    PROVE  CallTypeOK' /\ TableTypeOK'
<1>1. ASSUME NEW key \in Keys, Post(r, key)
      PROVE  CallTypeOK' /\ TableTypeOK'
  BY <1>1 DEF Post, Accept, CallTypeOK, TableTypeOK, Creating, Steps
<1>2. ASSUME NEW id \in Ids, NEW key \in Keys \cup {Omitted}, Patch(r, id, key)
      PROVE  CallTypeOK' /\ TableTypeOK'
  BY <1>2 DEF Patch, Accept, CallTypeOK, TableTypeOK, Updating, Steps
<1>3. ASSUME NEW id \in Ids, Delete(r, id)
      PROVE  CallTypeOK' /\ TableTypeOK'
  BY <1>3 DEF Delete, Accept, CallTypeOK, TableTypeOK, Deleting, Steps
<1>4. CASE FindByKey(r)
  BY <1>4, ThrowType, ProceedType DEF FindByKey, LooksFor, IdleAt, TableTypeOK
<1>5. CASE Insert(r)
  <2>1. call[r] \in Creating
    BY <1>5 DEF Insert, Writes, CallTypeOK, Creating, Updating, Deleting, Idle
  <2>2. CallTypeOK'
    BY <1>5, ThrowType, AnswerType, RepliesAreStatuses DEF Insert, Status
  <2>3. TableTypeOK'
    BY <1>5, <2>1 DEF Insert, TableTypeOK, Creating
  <2> QED BY <2>2, <2>3
<1>6. CASE FindById(r)
  BY <1>6, ThrowType, ProceedType DEF FindById, LooksFor, IdleAt, TableTypeOK
<1>7. CASE Update(r)
  <2>1. call[r] \in Updating
    BY <1>7 DEF Update, Writes, CallTypeOK, Creating, Updating, Deleting, Idle
  <2>2. CallTypeOK'
    BY <1>7, ThrowType, AnswerType, RepliesAreStatuses DEF Update, Status
  <2>3. TableTypeOK'
    BY <1>7, <2>1 DEF Update, TableTypeOK, Updating, Given
  <2> QED BY <2>2, <2>3
<1>8. CASE DeleteNothing(r)
  BY <1>8, ThrowType DEF DeleteNothing, TableTypeOK
<1>9. CASE RefuseDelete(r)
  BY <1>9, ThrowType DEF RefuseDelete, TableTypeOK
<1>10. CASE DeleteRow(r)
  <2>1. CallTypeOK'
    BY <1>10, AnswerType, RepliesAreStatuses DEF DeleteRow, Status
  <2>2. TableTypeOK'
    BY <1>10 DEF DeleteRow, TableTypeOK
  <2> QED BY <2>1, <2>2
<1>11. CASE LoseDatabase(r)
  BY <1>11, ThrowType DEF LoseDatabase, TableTypeOK
<1> QED BY <1>1, <1>2, <1>3, <1>4, <1>5, <1>6, <1>7, <1>8, <1>9, <1>10, <1>11 DEF Step

(* But for the DELETE of a row, a step leaves the table alone, adds a row   *)
(* under a key nobody has, or gives a row a key nobody else has.           *)
LEMMA StepKinds ==
    ASSUME CallTypeOK, TableTypeOK, NEW r \in Requests, Step(r), ~DeleteRow(r)
    PROVE  \/ UNCHANGED table
           \/ \E id \in Ids, key \in Keys :
                /\ table[id] = Unborn /\ ~IsTaken(key)
                /\ table' = [table EXCEPT ![id] = key]
           \/ \E id \in Rows, key \in Keys :
                /\ ~IsTakenByOther(key, id)
                /\ table' = [table EXCEPT ![id] = key]
<1>1. CASE Insert(r)
  <2>1. call[r].key \in Keys
    BY <1>1 DEF Insert, Writes, CallTypeOK, Creating, Updating, Deleting, Idle
  <2> QED BY <1>1, <2>1 DEF Insert
<1>2. CASE Update(r) /\ ~UNCHANGED table
  <2>1. call[r].id \in Ids /\ call[r].key \in Keys \cup {Omitted}
    BY <1>2 DEF Update, Writes, CallTypeOK, Creating, Updating, Deleting, Idle
  <2>2. call[r].id \in Rows /\ table[call[r].id] \in Keys
    BY <1>2, <2>1 DEF Update, Rows, Exists, TableTypeOK
  <2>3. Given(call[r].key, table[call[r].id]) \in Keys
    BY <2>1, <2>2 DEF Given
  <2> QED BY <1>2, <2>2, <2>3 DEF Update
<1> QED
  BY <1>1, <1>2
     DEF Step, Post, Patch, Delete, Accept, FindByKey, FindById, DeleteNothing,
         RefuseDelete, LoseDatabase

(* A write that was executed is answered with its status, or with a 503.   *)
LEMMA RepliesOrLost == \A status : Replies(status) \subseteq {status, 503}
BY DEF Replies, Caught, HttpException, Connectivity

LEMMA Translated ==
    /\ Caught("Conflict") = 409 /\ Caught("NotFound") = 404
    /\ \A e \in Connectivity : Caught(e) = 503
BY DEF Caught, HttpException, Connectivity

(* The unique column: no two rows share a key.                             *)
NoKeyTwice == \A i, j \in Rows : table[i] = table[j] => i = j

(* What the answer to a request says of the table: an error other than a   *)
(* 503 that nothing was written, a 500 that the write ran into a key or    *)
(* that its row had vanished.                                              *)
LEMMA StepAnswers ==
    ASSUME CallTypeOK, NoKeyTwice, NEW r \in Requests, Step(r), ~IdleAt(r), IdleAt(r)'
    PROVE  /\ call'[r].status \in Errors \ {503} => UNCHANGED table
           /\ call'[r].status = 500 => RunsIntoKey(r) \/ RowVanished(r)
<1>1. ASSUME NEW s, Answer(r, s)
      PROVE  call'[r].status = s
  BY <1>1 DEF Answer, Answered, CallTypeOK
<1>2. ASSUME NEW e, Throw(r, e)
      PROVE  call'[r].status = Caught(e)
  BY <1>1, <1>2 DEF Throw
<1>3. ASSUME NEW s \in {201, 200, 204}, \E t \in Replies(s) : Answer(r, t)
      PROVE  call'[r].status \notin Errors \ {503} /\ call'[r].status # 500
  BY <1>1, <1>3, RepliesOrLost DEF Errors
<1>4. ~Proceed(r)
  <2>1. SUFFICES ASSUME Proceed(r) PROVE FALSE
    OBVIOUS
  <2>2. call'[r].at = "write"
    BY <2>1 DEF Proceed, CallTypeOK, IdleAt, Idle, Creating, Updating, Deleting
  <2> QED BY <2>2 DEF IdleAt
<1>5. CASE FindByKey(r) \/ FindById(r) \/ RefuseDelete(r)
  BY <1>2, <1>4, <1>5, Translated DEF FindByKey, FindById, RefuseDelete
<1>6. CASE Insert(r)
  BY <1>3, <1>6 DEF Insert, RunsIntoKey
<1>7. CASE Update(r)
  <2>1. call[r].id \in Ids
    BY <1>7 DEF Update, Writes, CallTypeOK, Creating, Updating, Deleting, Idle
  <2>2. CASE ~Exists(call[r].id)
    BY <1>3, <1>7, <2>2 DEF Update, RowVanished
  <2>3. CASE Exists(call[r].id) /\ call[r].key = Omitted
    <3>1. ~IsTakenByOther(table[call[r].id], call[r].id)
      BY <2>1, <2>3 DEF IsTakenByOther, NoKeyTwice, Rows, Exists
    <3> QED BY <1>3, <1>7, <2>3, <3>1 DEF Update, Given
  <2>4. CASE Exists(call[r].id) /\ call[r].key # Omitted
    BY <1>3, <1>7, <2>4 DEF Update, RunsIntoKey, Given
  <2> QED BY <2>2, <2>3, <2>4
<1>8. CASE DeleteNothing(r)
  BY <1>8 DEF DeleteNothing, RowVanished
<1>9. CASE DeleteRow(r)
  BY <1>3, <1>9 DEF DeleteRow
<1>10. CASE LoseDatabase(r)
  BY <1>2, <1>10, Translated DEF LoseDatabase
<1> QED
  BY <1>5, <1>6, <1>7, <1>8, <1>9, <1>10 DEF Step, Post, Patch, Delete, Accept

(* A step of one request leaves the slots of the others alone.             *)
LEMMA StepIsOfOne ==
    ASSUME CallTypeOK, NEW r \in Requests, NEW q \in Requests, q # r, Step(r)
    PROVE  call'[q] = call[q]
BY DEF Step, Post, Patch, Delete, Accept, FindByKey, Insert, FindById, Update, DeleteNothing,
       RefuseDelete, DeleteRow, LoseDatabase, Throw, Answer, Proceed, CallTypeOK

(* The constraint is enforced by the writes, whatever the look-ups saw.    *)
LEMMA StepKeepsKeysUnique ==
    ASSUME CallTypeOK, TableTypeOK, Unborn \notin Keys, Gone \notin Keys,
           NoKeyTwice, NEW r \in Requests, Step(r)
    PROVE  NoKeyTwice'
<1>1. CASE UNCHANGED table
  BY <1>1 DEF NoKeyTwice, Rows, Exists
<1>2. CASE Insert(r)
  BY <1>1, <1>2 DEF Insert, IsTaken, TableTypeOK, NoKeyTwice, Rows, Exists
<1>3. CASE Update(r)
  BY <1>1, <1>3 DEF Update, IsTakenByOther, TableTypeOK, NoKeyTwice, Rows, Exists
<1>4. CASE DeleteRow(r)
  BY <1>4 DEF DeleteRow, TableTypeOK, NoKeyTwice, Rows, Exists
<1> QED
  BY <1>1, <1>2, <1>3, <1>4
     DEF Step, Post, Patch, Delete, Accept, FindByKey, FindById, DeleteNothing,
         RefuseDelete, LoseDatabase

(* Only the DELETE of a row takes a row away.                              *)
LEMMA OnlyDeleteRemoves ==
    ASSUME CallTypeOK, TableTypeOK, Unborn \notin Keys, Gone \notin Keys,
           NEW r \in Requests, Step(r), ~DeleteRow(r)
    PROVE  Rows \subseteq Rows'
<1>1. CASE UNCHANGED table
  BY <1>1 DEF Rows, Exists
<1>2. CASE Insert(r)
  <2>1. call[r] \in Creating
    BY <1>2 DEF Insert, Writes, CallTypeOK, Creating, Updating, Deleting, Idle
  <2> QED
    BY <1>1, <1>2, <2>1 DEF Insert, TableTypeOK, Rows, Exists, Creating
<1>3. CASE Update(r)
  <2>1. call[r] \in Updating
    BY <1>3 DEF Update, Writes, CallTypeOK, Creating, Updating, Deleting, Idle
  <2> QED
    BY <1>1, <1>3, <2>1 DEF Update, Given, TableTypeOK, Rows, Exists, Updating
<1> QED
  BY <1>1, <1>2, <1>3
     DEF Step, Post, Patch, Delete, Accept, FindByKey, FindById, DeleteNothing,
         RefuseDelete, LoseDatabase

(* The DELETE of a row is no other step of the protocol as well.           *)
LEMMA DeleteRowIsNoOther ==
    ASSUME TableTypeOK, CallTypeOK, NEW r \in Requests, DeleteRow(r)
    PROVE  /\ \A key : ~Post(r, key)
           /\ \A id, key : ~Patch(r, id, key)
           /\ \A id : ~Delete(r, id)
           /\ ~FindByKey(r) /\ ~Insert(r) /\ ~FindById(r) /\ ~Update(r)
           /\ ~DeleteNothing(r) /\ ~RefuseDelete(r) /\ ~LoseDatabase(r)
<1>1. call[r].at = "write" /\ call[r].op = "delete" /\ call[r].id \in Ids
  BY DEF DeleteRow, Writes, CallTypeOK, Creating, Updating, Deleting, Idle
<1>2. ~UNCHANGED table
  BY <1>1 DEF DeleteRow, Exists, TableTypeOK
<1> QED
  BY <1>1, <1>2
     DEF Post, Patch, Delete, Accept, IdleAt, FindByKey, LooksFor, Insert, Writes, FindById,
         Update, DeleteNothing, RefuseDelete, LoseDatabase

=============================================================================
