----------------------- MODULE SqliteTransactionsProofs -----------------------
(***************************************************************************)
(* The calls of SqliteTransactions keep the promises of AtomicCalls, for   *)
(* any number of calls and whatever statements fail.                       *)
(***************************************************************************)
EXTENDS SqliteTransactions, TLAPS

(* The calls whose statements run in a transaction of their own and that    *)
(* answer "ok" only if all of them succeeded.                              *)
Saves(c) == Class(c) \in {"whole", "late"}

(* What is known before the first statement, and about calls not yet made. *)
CallInv ==
  /\ \A c \in Calls :
       /\ kind[c] = Unknown =>
            answer[c] = "none" /\ c \notin disk /\ c \notin work /\ c \notin shown
       /\ answer[c] = "none" /\ c # cur => kind[c] = Unknown
       /\ log[c] => kind[c] \in Loggable
  /\ at \in {"begin", "read", "write", "analyze"} => ~bad
  /\ ~connected => at = "idle" /\ work = {}

(* In a transaction of its own a call finds no changes of others: BEGIN     *)
(* would have failed.  Where nothing failed it still has the transaction,  *)
(* and its own change in it.                                               *)
OwnInv ==
  /\ at = "begin" => kind[cur] # "DeleteTable" /\ ~(kind[cur] \in Foreign /\ log[cur])
  /\ at \in {"read", "write"} /\ kind[cur] # "DeleteTable"
       /\ ~(kind[cur] \in Foreign /\ log[cur]) => work = {}
  /\ at = "write" => ~log[cur] /\ (Saves(cur) => tx)
  /\ at = "read" => kind[cur] # "DeleteTable" /\ (Saves(cur) => tx)
  /\ at = "end" => kind[cur] # "DeleteTable" /\ ~(kind[cur] \in Foreign /\ log[cur])
  /\ at = "end" /\ ~bad => work = (IF Saves(cur) THEN {cur} ELSE {})
  /\ at = "end" /\ ~bad /\ Saves(cur) => tx

(* When a call is about to answer, the answer is right. *)
AnswerInv ==
  /\ at \in {"begin", "read", "write", "end"} => cur \notin disk
  /\ at = "analyze" => cur \in disk /\ Class(cur) = "late"
  /\ at = "return" /\ ~bad /\ Saves(cur) => cur \in disk
  /\ at = "return" /\ bad /\ Class(cur) # "late" => cur \notin disk

(* The inductive invariant. *)
IInv == TypeOK /\ CallInv /\ OwnInv /\ AnswerInv /\ ShownIsSaved

-----------------------------------------------------------------------------
(* Nothing has been called yet. *)
LEMMA InitInv == Init => IInv
BY TransactionAssumption
   DEF Init, IInv, TypeOK, CallInv, OwnInv, AnswerInv, ShownIsSaved, At

(* Opening and closing the database. *)
LEMMA ConnectionInv ==
  ASSUME IInv, Connect \/ Close
  PROVE  IInv'
<1> USE TransactionAssumption
    DEF IInv, TypeOK, CallInv, OwnInv, AnswerInv, ShownIsSaved, At, dataVars, callVars
<1>1. CASE Connect
  BY <1>1 DEF Connect, Saves, Class
<1>2. CASE Close
  BY <1>2 DEF Close
<1>3. QED
  BY <1>1, <1>2

(* A new call: its first statement depends on what it is. *)
LEMMA CallStepInv ==
  ASSUME IInv, NEW c \in Calls, NEW k \in Kind, NEW l \in BOOLEAN, Call(c, k, l)
  PROVE  IInv'
<1> USE TransactionAssumption DEF Call
<1>1. kind'[c] = k /\ log'[c] = l /\ cur' = c /\ at' = First(k, l) /\ ~bad'
  BY DEF IInv, TypeOK
<1>2. at' \in {"begin", "read", "write"}
  BY <1>1 DEF First
<1>3. TypeOK'
  BY <1>1, <1>2 DEF IInv, TypeOK, CallInv, At, dataVars, Kind, Foreign, Unknown
<1>4. CallInv'
  BY <1>1, <1>2 DEF IInv, TypeOK, CallInv, dataVars
<1>5. OwnInv'
  BY <1>1, <1>2 DEF IInv, TypeOK, OwnInv, First, Saves, Class, Foreign, Kind, dataVars,
     Loggable
<1>6. AnswerInv'
  BY <1>1, <1>2 DEF IInv, TypeOK, CallInv, AnswerInv, dataVars
<1>7. ShownIsSaved'
  BY <1>1 DEF IInv, TypeOK, CallInv, ShownIsSaved, dataVars
<1>8. QED
  BY <1>3, <1>4, <1>5, <1>6, <1>7 DEF IInv

(* BEGIN and the query before the change. *)
LEMMA BeforeWriteInv ==
  ASSUME IInv, Begin \/ BeginFails \/ Read \/ ReadFails
  PROVE  IInv'
<1> USE TransactionAssumption
    DEF IInv, TypeOK, CallInv, OwnInv, AnswerInv, ShownIsSaved, At, Goto, Is,
        dataVars, callVars, Saves, Class, AfterRead, Foreign, Loggable, Kind, Unknown
<1>1. CASE Begin
  BY <1>1 DEF Begin
<1>2. CASE BeginFails
  BY <1>2 DEF BeginFails
<1>3. CASE Read
  BY <1>3 DEF Read, DropFromMemory
<1>4. CASE ReadFails
  <2>1. CASE UNCHANGED <<tx, work>>
    BY <1>4, <2>1 DEF ReadFails
  <2>2. CASE tx' = FALSE /\ work' = {}
    BY <1>4, <2>2 DEF ReadFails
  <2>3. QED
    BY <1>4, <2>1, <2>2 DEF ReadFails, TransactionSurvivesOrNot
<1>5. QED
  BY <1>1, <1>2, <1>3, <1>4

(* The change, and the end of the transaction. *)
LEMMA WriteInv ==
  ASSUME IInv, Write \/ WriteFails \/ Commit \/ CommitFails \/ Rollback
  PROVE  IInv'
<1> USE TransactionAssumption
    DEF IInv, TypeOK, CallInv, OwnInv, AnswerInv, ShownIsSaved, At, Goto, Is,
        dataVars, callVars, Saves, Class, AfterWrite, AfterCommit, Foreign, Loggable,
        Kind, Unknown
<1>1. CASE Write
  BY <1>1 DEF Write
<1>2. CASE WriteFails
  <2>1. CASE UNCHANGED <<tx, work>>
    BY <1>2, <2>1 DEF WriteFails
  <2>2. CASE tx' = FALSE /\ work' = {}
    BY <1>2, <2>2 DEF WriteFails
  <2>3. QED
    BY <1>2, <2>1, <2>2 DEF WriteFails, TransactionSurvivesOrNot
<1>3. CASE Commit
  BY <1>3 DEF Commit
<1>4. CASE CommitFails
  <2>1. CASE UNCHANGED <<tx, work>>
    BY <1>4, <2>1 DEF CommitFails
  <2>2. CASE tx' = FALSE /\ work' = {}
    BY <1>4, <2>2 DEF CommitFails
  <2>3. QED
    BY <1>4, <2>1, <2>2 DEF CommitFails, TransactionSurvivesOrNot
<1>5. CASE Rollback
  BY <1>5 DEF Rollback
<1>6. QED
  BY <1>1, <1>2, <1>3, <1>4, <1>5

(* ANALYZE and the answer. *)
LEMMA AnswerStepInv ==
  ASSUME IInv, Analyze \/ AnalyzeFails \/ Return
  PROVE  IInv'
<1> USE TransactionAssumption
    DEF IInv, TypeOK, CallInv, OwnInv, AnswerInv, ShownIsSaved, At, Goto, Is,
        dataVars, callVars, Saves, Class, Foreign, Loggable, Kind, Unknown
<1>1. CASE Analyze
  BY <1>1 DEF Analyze
<1>2. CASE AnalyzeFails
  BY <1>2 DEF AnalyzeFails
<1>3. CASE Return
  BY <1>3 DEF Return, SetsMemory
<1>4. QED
  BY <1>1, <1>2, <1>3

(* The invariant is inductive. *)
LEMMA NextInv == IInv /\ [Next]_vars => IInv'
<1> SUFFICES ASSUME IInv, [Next]_vars PROVE IInv'
  OBVIOUS
<1>1. CASE UNCHANGED vars
  BY <1>1 DEF vars, dataVars, callVars, IInv, TypeOK, CallInv, OwnInv, AnswerInv,
     ShownIsSaved, Saves, Class
<1>2. CASE Connect \/ Close
  BY <1>2, ConnectionInv
<1>3. CASE Statement
  BY <1>3, BeforeWriteInv, WriteInv, AnswerStepInv DEF Statement
<1>4. CASE \E c \in Calls, k \in Kind, l \in BOOLEAN : Call(c, k, l)
  BY <1>4, CallStepInv
<1>5. QED
  BY <1>1, <1>2, <1>3, <1>4 DEF Next

(* The inductive invariant holds in every state of the program. *)
THEOREM Invariance == Spec => []IInv
BY InitInv, NextInv, PTL DEF Spec

(* Every variable keeps its type, and no change waits outside a transaction. *)
THEOREM TypeCorrect == Spec => []TypeOK
<1>1. IInv => TypeOK
  BY DEF IInv
<1>2. QED
  BY <1>1, Invariance, PTL

(* The program shows no properties and no new foreign key that are not in   *)
(* the file, whatever failed before.                                       *)
THEOREM ShownSaved == Spec => []ShownIsSaved
<1>1. IInv => ShownIsSaved
  BY DEF IInv
<1>2. QED
  BY <1>1, Invariance, PTL

-----------------------------------------------------------------------------
(* Refinement: every step is a step of AtomicCalls or changes nothing it    *)
(* can see.                                                                *)
abstract == [c \in Calls |-> Class(c)]

(* Without a new call, the promises stay. *)
LEMMA SameClass ==
  ASSUME UNCHANGED <<kind, log>>
  PROVE  abstract' = abstract
BY DEF abstract, Class

(* A new call makes a promise. *)
LEMMA CallMakes ==
  ASSUME IInv, NEW c \in Calls, NEW k \in Kind, NEW l \in BOOLEAN, Call(c, k, l)
  PROVE  Atomic!Make(c)
<1>1. kind' = [kind EXCEPT ![c] = k] /\ log' = [log EXCEPT ![c] = l] /\ kind[c] = Unknown
  BY DEF Call
<1>2. \A d \in Calls : d # c => Class(d)' = Class(d)
  BY <1>1 DEF Class, IInv, TypeOK
<1>3. Class(c) = Unknown /\ Class(c)' \in Atomic!Class
  BY <1>1 DEF Class, IInv, TypeOK, Atomic!Class, Kind, Foreign, Unknown
<1>4. abstract' = [abstract EXCEPT ![c] = Class(c)']
  BY <1>2 DEF abstract
<1>5. UNCHANGED <<disk, answer>>
  BY DEF Call, dataVars
<1>6. QED
  BY <1>3, <1>4, <1>5 DEF Atomic!Make, Atomic!Unknown, Unknown, abstract

(* A change that reaches the file is that of the call that runs. *)
LEMMA DiskSaves ==
  ASSUME IInv, Write \/ Commit
  PROVE  disk' = disk \/ Atomic!Save(cur)
<1>1. cur \in Calls /\ answer[cur] = "none" /\ kind[cur] # Unknown /\ cur \notin disk
  BY TransactionAssumption DEF IInv, TypeOK, AnswerInv, Write, Commit
<1>2. Class(cur) # Unknown
  BY <1>1 DEF Class, Unknown
<1>3. UNCHANGED <<kind, log, answer>>
  BY DEF Write, Commit, Goto, callVars
<1>4. disk' = disk \/ (disk' = disk \cup {cur} /\ Class(cur) # "reports")
  <2>1. CASE Write
    BY <2>1 DEF Write, Is, Class, Unknown, IInv, OwnInv
  <2>2. CASE Commit
    BY <2>2 DEF Commit, IInv, OwnInv, Saves
  <2>3. QED
    BY <2>1, <2>2
<1>5. QED
  BY <1>1, <1>2, <1>3, <1>4, SameClass
     DEF Atomic!Save, Atomic!Running, Atomic!Unknown, Unknown, abstract

(* The answer given is one the promise allows. *)
LEMMA ReturnAnswers ==
  ASSUME IInv, Return
  PROVE  cur \in Calls /\ (Atomic!Succeed(cur) \/ Atomic!Fail(cur))
<1>1. cur \in Calls /\ answer[cur] = "none" /\ kind[cur] # Unknown
  BY TransactionAssumption DEF IInv, TypeOK, Return
<1>2. Class(cur) # Unknown
  BY <1>1 DEF Class, Unknown
<1>3. abstract' = abstract /\ disk' = disk
  BY SameClass DEF Return, dataVars
<1>4. abstract[cur] = Class(cur)
  BY <1>1 DEF abstract
<1>5. CASE bad
  BY <1>1, <1>2, <1>3, <1>4, <1>5
     DEF Return, IInv, AnswerInv, Atomic!Fail, Atomic!Answer, Atomic!Running,
         Atomic!Unknown, Unknown, abstract
<1>6. CASE ~bad
  BY <1>1, <1>2, <1>3, <1>4, <1>6
     DEF Return, IInv, AnswerInv, Saves, Atomic!Succeed, Atomic!Answer,
         Atomic!Running, Atomic!Unknown, Unknown, abstract
<1>7. QED
  BY <1>1, <1>5, <1>6

(* The end of the program loses the answer of the call that runs. *)
LEMMA CloseLoses ==
  ASSUME IInv, Close
  PROVE  UNCHANGED <<abstract, disk, answer>> \/ (cur \in Calls /\ Atomic!Lose(cur))
<1>1. abstract' = abstract /\ disk' = disk
  BY SameClass DEF Close
<1>2. CASE cur = None
  BY <1>1, <1>2 DEF Close
<1>3. CASE cur # None
  <2>1. cur \in Calls /\ answer[cur] = "none" /\ Class(cur) # Unknown
    BY <1>3 DEF IInv, TypeOK, Class, Unknown
  <2>2. QED
    BY <1>1, <1>3, <2>1 DEF Close, Atomic!Lose, Atomic!Answer, Atomic!Running,
       Atomic!Unknown, Unknown, abstract
<1>4. QED
  BY <1>2, <1>3

(* Every step maps to a step of AtomicCalls or to a stutter. *)
LEMMA StepRefines == IInv /\ [Next]_vars => [Atomic!Next]_Atomic!avars
<1> SUFFICES ASSUME IInv, [Next]_vars PROVE [Atomic!Next]_Atomic!avars
  OBVIOUS
<1>1. UNCHANGED <<kind, log, disk, answer>> => UNCHANGED Atomic!avars
  BY SameClass DEF Atomic!avars, abstract
<1>2. CASE UNCHANGED vars
  BY <1>1, <1>2 DEF vars, dataVars, callVars
<1>3. CASE Connect
  BY <1>1, <1>3 DEF Connect, dataVars, callVars
<1>4. CASE Close
  BY <1>4, CloseLoses DEF Atomic!Next, Atomic!avars, abstract
<1>5. CASE Begin \/ BeginFails \/ Read \/ ReadFails \/ WriteFails \/ CommitFails
             \/ Rollback \/ Analyze \/ AnalyzeFails
  BY <1>1, <1>5 DEF Begin, BeginFails, Read, ReadFails, WriteFails, CommitFails,
     Rollback, Analyze, AnalyzeFails, Goto, dataVars, callVars
<1>6. CASE Write \/ Commit
  <2>1. UNCHANGED <<kind, log, answer>>
    BY <1>6 DEF Write, Commit, Goto, callVars
  <2>2. cur \in Calls
    BY <1>6 DEF IInv, TypeOK, Write, Commit
  <2>3. QED
    BY <1>1, <1>6, <2>1, <2>2, DiskSaves DEF Atomic!Next
<1>7. CASE Return
  BY <1>7, ReturnAnswers DEF Atomic!Next
<1>8. CASE \E c \in Calls, k \in Kind, l \in BOOLEAN : Call(c, k, l)
  BY <1>8, CallMakes DEF Atomic!Next
<1>9. QED
  BY <1>2, <1>3, <1>4, <1>5, <1>6, <1>7, <1>8 DEF Next, Statement

(* However many calls, and whatever fails: the calls keep their promises,  *)
(* and none ever saves what another left in the transaction.               *)
THEOREM Refinement == Spec => CallsAreAtomic
<1>1. Init => Atomic!Init
  BY DEF Init, Atomic!Init, Class, Atomic!Unknown, Unknown
<1>2. QED
  BY <1>1, StepRefines, Invariance, PTL DEF Spec, CallsAreAtomic, Atomic!Spec
=============================================================================
