------------------------ MODULE PolicyEngineProofs ------------------------
(***************************************************************************)
(* What PolicyEngine guarantees for any number of actions and any files:   *)
(* its types; that an engine in audit mode changes nothing; that a failed  *)
(* transaction is undone; that what is believed to be in effect is; and    *)
(* that the engine keeps track of what it set and whose values it keeps.   *)
(* The third and the fourth rest on an assumption about contents (Settled, *)
(* ReadsBack), stated where it is used.                                    *)
(***************************************************************************)
EXTENDS PolicyEngine, TLAPS

(* In audit mode no action ever counts as applied, so that no step of a    *)
(* transaction or of a restore reaches a write.                            *)
AuditIdle ==
  mode = "audit" =>
    /\ pc \notin {"write", "verify", "overwrite"}
    /\ \A i \in Actions : ~transaction[i].applied /\ ~active[i].applied
    /\ \A f \in Files : author[f] = "env"

IInv == TypeOK /\ AuditIdle
-----------------------------------------------------------------------------
(* The action at hand, and what is changed in its entry.                   *)
LEMMA ActionFacts ==
  ASSUME NEW i \in Actions
  PROVE  ActionFile[i] \in Files /\ ActionValue[i] \in Values
BY ActionsAssumption

LEMMA OneIsAction == 1 \in Actions /\ NumActions \in Actions /\ NumActions \in Nat
BY ActionsAssumption DEF Actions

LEMMA UntouchedType == Untouched \in Transactions
BY ContentsAssumption DEF Untouched, NotApplied, Transactions, Entries, Authors

LEMMA EntryType ==
  ASSUME NEW t \in Transactions, NEW i \in Actions
  PROVE  t[i] \in Entries /\ t[i].applied \in BOOLEAN /\ t[i].old \in Values
         /\ t[i].by \in Authors
BY DEF Transactions, Entries

LEMMA EntryChanges ==
  ASSUME NEW t \in Transactions, NEW i \in Actions, NEW v \in Values,
         NEW a \in Authors, NEW b \in BOOLEAN
  PROVE  /\ [t EXCEPT ![i].old = v, ![i].by = a] \in Transactions
         /\ [t EXCEPT ![i].applied = b, ![i].expect = v] \in Transactions
         /\ [t EXCEPT ![i].applied = b] \in Transactions
BY DEF Transactions, Entries
-----------------------------------------------------------------------------
LEMMA InitTyped ==
  ASSUME Init
  PROVE  TypeOK
<1>1. mode \in Modes /\ request \in Requests /\ index \in 1..NumActions + 1
  BY OneIsAction DEF Init, Actions
<1>2. files \in [Files -> Values] /\ before \in [Files -> Values]
  BY ContentsAssumption DEF Init
<1>3. author \in [Files -> Authors]
  BY DEF Init, Authors
<1>4. transaction \in Transactions /\ active \in Transactions
  BY UntouchedType DEF Init
<1>5. /\ successful \subseteq Requests /\ effective \subseteq Files \X Values
      /\ touched \subseteq Files
  BY DEF Init
<1> QED
  BY <1>1, <1>2, <1>3, <1>4, <1>5 DEF Init, TypeOK

LEMMA FailTyped ==
  ASSUME TypeOK, FailTransaction, transaction' \in Transactions,
         files' \in [Files -> Values], author' \in [Files -> Authors],
         touched' \subseteq Files, lost' \subseteq Files,
         mode' = mode, stopping' = stopping, before' = before
  PROVE  TypeOK'
<1>1. /\ hasSideEffect' = hasSideEffect /\ request' = request /\ active' = active
      /\ successful' = successful /\ effective' = effective /\ outcome' = outcome
  BY DEF FailTransaction, memory
<1>2. pc' = "restore" /\ index' \in Actions /\ index' \in 1..NumActions + 1
  BY OneIsAction DEF FailTransaction, Actions
<1> QED
  BY <1>1, <1>2 DEF TypeOK

(* What the other steps of a transaction leave alone.                      *)
LEMMA StepTyped ==
  ASSUME TypeOK, transaction' \in Transactions,
         files' \in [Files -> Values], author' \in [Files -> Authors],
         touched' \subseteq Files, lost' \subseteq Files,
         UNCHANGED <<mode, stopping, before, request, active, successful, outcome>>,
         effective' \subseteq Files \X Values, hasSideEffect' \in BOOLEAN,
         pc' \in {"apply", "write", "verify", "journal", "restore", "overwrite",
                  "restored"},
         index' \in 1..NumActions + 1, pc' # "apply" => index' \in Actions
  PROVE  TypeOK'
BY DEF TypeOK

LEMMA RestoreNextTyped ==
  ASSUME TypeOK, RestoreNext, pc \in {"restore", "overwrite"}
  PROVE  /\ pc' \in {"restore", "restored"}
         /\ index' \in Actions /\ index' \in 1..NumActions + 1
BY OneIsAction DEF TypeOK, RestoreNext, Actions

LEMMA AtActionFacts ==
  ASSUME TypeOK, AtAction \/ pc \in {"write", "verify", "journal", "restore", "overwrite"}
  PROVE  /\ index \in Actions /\ index \in 1..NumActions + 1
         /\ File \in Files /\ Value \in Values /\ Key(index) \in Files \X Values
<1>1. index \in Actions /\ index \in 1..NumActions + 1
  BY OneIsAction DEF TypeOK, AtAction, Actions
<1> QED
  BY <1>1, ActionFacts DEF File, Value, Key

(* What was given up is not taken back.                                    *)
LEMMA LostTyped ==
  ASSUME TypeOK, Engine
  PROVE  lost' \subseteq Files /\ lost \subseteq lost'
<1>1. lost' = lost \/ (lost' = lost \cup {File} /\ pc \in {"verify", "restore", "overwrite"})
  BY DEF Engine, Converge, ReadOld, WriteValue, VerifyValue, JournalAction, FinishTransaction,
     SkipRestore, CompareBeforeRestore, RestoreValue, FinishRestore, GiveUp, contents
<1> QED
  BY <1>1, AtActionFacts DEF TypeOK

LEMMA BeginTyped ==
  ASSUME TypeOK, NEW r \in Requests, BeginTransaction(r)
  PROVE  TypeOK'
<1>1. transaction' \in Transactions /\ index' \in 1..NumActions + 1
  BY UntouchedType, OneIsAction DEF BeginTransaction, Actions
<1>2. before' \in [Files -> Values] /\ touched' \subseteq Files
  BY DEF TypeOK, BeginTransaction
<1> QED
  BY <1>1, <1>2 DEF TypeOK, BeginTransaction, memory

LEMMA ConvergeTyped ==
  ASSUME TypeOK, Converge
  PROVE  TypeOK'
<1>1. index' \in 1..NumActions + 1
  BY AtActionFacts, OneIsAction DEF Converge, NextAction, Actions
<1> QED
  BY <1>1, StepTyped DEF TypeOK, Converge, NextAction, contents, memory

LEMMA ReadOldTyped ==
  ASSUME TypeOK, ReadOld
  PROVE  TypeOK'
<1>0. lost' \subseteq Files
  BY LostTyped DEF Engine
<1>1. index \in Actions /\ index \in 1..NumActions + 1 /\ File \in Files
  BY AtActionFacts DEF ReadOld
<1>2. files[File] \in Values /\ author[File] \in Authors
  BY <1>1 DEF TypeOK
<1>3. transaction' \in Transactions
  <2>1. \/ transaction' = transaction
        \/ transaction' = [transaction EXCEPT ![index].old = files[File],
                                              ![index].by = author[File]]
    BY DEF ReadOld
  <2>2. [transaction EXCEPT ![index].old = files[File],
                            ![index].by = author[File]] \in Transactions
    BY <1>1, <1>2, EntryChanges DEF TypeOK
  <2> QED
    BY <2>1, <2>2 DEF TypeOK
<1>4. UNCHANGED <<mode, files, author, touched, stopping, before>>
  BY DEF ReadOld, contents
<1>5. CASE FailTransaction
  BY <1>3, <1>4, <1>5, <1>0, FailTyped DEF TypeOK
<1>6. CASE ~FailTransaction
  <2>1. /\ pc' \in {"write", "journal"}
        /\ UNCHANGED <<index, hasSideEffect, request, memory>>
    BY <1>6 DEF ReadOld
  <2> QED
    BY <1>1, <1>3, <1>4, <2>1, <1>0, StepTyped DEF TypeOK, memory
<1> QED
  BY <1>5, <1>6

LEMMA WriteTyped ==
  ASSUME TypeOK, WriteValue
  PROVE  TypeOK'
<1>0. lost' \subseteq Files
  BY LostTyped DEF Engine
<1>1. /\ index \in Actions /\ index \in 1..NumActions + 1
      /\ File \in Files /\ Value \in Values
  BY AtActionFacts DEF WriteValue
<1>2. transaction' \in Transactions
  <2>1. \/ transaction' = transaction
        \/ transaction' = [transaction EXCEPT ![index].applied = TRUE,
                                              ![index].expect = Value]
    BY DEF WriteValue
  <2>2. [transaction EXCEPT ![index].applied = TRUE,
                            ![index].expect = Value] \in Transactions
    BY <1>1, EntryChanges DEF TypeOK
  <2> QED
    BY <2>1, <2>2 DEF TypeOK
<1>3. files' \in [Files -> Values] /\ author' \in [Files -> Authors]
  BY <1>1, ContentsAssumption DEF WriteValue, TypeOK, Authors
<1>4. UNCHANGED <<mode, touched, stopping, before>>
  BY DEF WriteValue
<1>5. CASE FailTransaction
  BY <1>2, <1>3, <1>4, <1>5, <1>0, FailTyped DEF TypeOK
<1>6. CASE ~FailTransaction
  <2>1. pc' = "verify" /\ UNCHANGED <<index, hasSideEffect, request, memory>>
    BY <1>6 DEF WriteValue
  <2> QED
    BY <1>1, <1>2, <1>3, <1>4, <2>1, <1>0, StepTyped DEF TypeOK, memory
<1> QED
  BY <1>5, <1>6

LEMMA VerifyTyped ==
  ASSUME TypeOK, VerifyValue
  PROVE  TypeOK'
<1>0. lost' \subseteq Files
  BY LostTyped DEF Engine
<1>1. index \in Actions /\ index \in 1..NumActions + 1 /\ File \in Files
  BY AtActionFacts DEF VerifyValue
<1>2. PICK shown \in {files[File]} \cup (IF May("open") THEN {Empty} ELSE {}) :
        /\ transaction' = IF IsNetdev
                          THEN [transaction EXCEPT ![index].applied = TRUE,
                                                   ![index].expect = shown]
                          ELSE transaction
        /\ \/ /\ pc' = "journal"
              /\ UNCHANGED <<index, hasSideEffect, request, memory>>
           \/ FailTransaction
  BY DEF VerifyValue
<1>3. shown \in Values
  BY <1>1, ContentsAssumption DEF TypeOK
<1>4. transaction' \in Transactions
  BY <1>1, <1>2, <1>3, EntryChanges DEF TypeOK
<1>5. UNCHANGED <<mode, files, author, touched, stopping, before>>
  BY DEF VerifyValue, contents
<1>6. CASE FailTransaction
  BY <1>4, <1>5, <1>6, <1>0, FailTyped DEF TypeOK
<1>7. CASE ~FailTransaction
  <2>1. pc' = "journal" /\ UNCHANGED <<index, hasSideEffect, request, memory>>
    BY <1>2, <1>7
  <2> QED
    BY <1>1, <1>4, <1>5, <2>1, <1>0, StepTyped DEF TypeOK, memory
<1> QED
  BY <1>6, <1>7

LEMMA JournalTyped ==
  ASSUME TypeOK, JournalAction
  PROVE  TypeOK'
<1>0. lost' \subseteq Files
  BY LostTyped DEF Engine
<1>1. index \in Actions /\ Key(index) \in Files \X Values
  BY AtActionFacts DEF JournalAction
<1>2. UNCHANGED <<mode, files, author, touched, transaction, stopping, before>>
  BY DEF JournalAction, contents
<1>3. CASE FailTransaction
  BY <1>2, <1>3, <1>0, FailTyped DEF TypeOK
<1>4. CASE ~FailTransaction
  <2>1. /\ UNCHANGED <<active, successful, outcome, request>>
        /\ pc' = "apply" /\ index' = index + 1
    BY <1>4 DEF JournalAction, NextAction
  <2>2. index' \in 1..NumActions + 1
    BY <1>1, <2>1, OneIsAction DEF Actions
  <2>3. effective' \subseteq Files \X Values /\ hasSideEffect' \in BOOLEAN
    BY <1>1, <1>4 DEF JournalAction, TypeOK
  <2> QED
    BY <1>2, <2>1, <2>2, <2>3, <1>0, StepTyped DEF TypeOK
<1> QED
  BY <1>3, <1>4

LEMMA FinishTyped ==
  ASSUME TypeOK, FinishTransaction \/ FinishRestore
  PROVE  TypeOK'
<1>1. CASE FinishTransaction
  BY <1>1 DEF TypeOK, FinishTransaction, contents
<1>2. CASE FinishRestore
  BY <1>2 DEF TypeOK, FinishRestore, contents
<1> QED
  BY <1>1, <1>2

LEMMA RestoreTyped ==
  ASSUME TypeOK, SkipRestore \/ CompareBeforeRestore \/ RestoreValue
  PROVE  TypeOK'
<1>0. lost' \subseteq Files
  BY LostTyped DEF Engine
<1>1. index \in Actions /\ index \in 1..NumActions + 1 /\ File \in Files
  BY AtActionFacts DEF SkipRestore, CompareBeforeRestore, RestoreValue
<1>2. CASE SkipRestore
  BY <1>2, RestoreNextTyped, <1>0, StepTyped DEF TypeOK, SkipRestore, contents, memory
<1>3. CASE CompareBeforeRestore
  BY <1>1, <1>3, <1>0, StepTyped DEF TypeOK, CompareBeforeRestore, contents, memory
<1>4. CASE RestoreValue
  <2>1. transaction[index].old \in Values /\ transaction[index].by \in Authors
    BY <1>1, EntryType DEF TypeOK
  <2>2. transaction' \in Transactions
    <3>1. \/ transaction' = transaction
          \/ transaction' = [transaction EXCEPT ![index].applied = FALSE]
      BY <1>4 DEF RestoreValue
    <3>2. [transaction EXCEPT ![index].applied = FALSE] \in Transactions
      BY <1>1, EntryChanges, ContentsAssumption DEF TypeOK, Authors
    <3> QED
      BY <3>1, <3>2 DEF TypeOK
  <2>3. Initial[File] \in Values /\ Readback[transaction[index].old] \in Values
    BY <1>1, <2>1, ContentsAssumption
  <2>4. files' \in [Files -> Values]
    BY <1>1, <1>4, <2>3 DEF RestoreValue, TypeOK, contents
  <2>5. author' \in [Files -> Authors]
    BY <1>1, <1>4, <2>1 DEF RestoreValue, TypeOK, contents, Authors
  <2>6. touched' \subseteq Files /\ effective' \subseteq Files \X Values
    BY <1>1, <1>4 DEF RestoreValue, TypeOK, contents
  <2>7. RestoreNext /\ pc = "overwrite"
        /\ UNCHANGED <<mode, hasSideEffect, request, active, successful, outcome,
                       stopping, before>>
    BY <1>4 DEF RestoreValue
  <2> QED
    BY <2>2, <2>4, <2>5, <2>6, <2>7, RestoreNextTyped, <1>0, StepTyped DEF TypeOK
<1> QED
  BY <1>2, <1>3, <1>4

LEMMA OthersTyped ==
  ASSUME TypeOK,
         StopThread \/ (\E f \in Files : \E v \in EnvValues[f] : EnvWrite(f, v))
  PROVE  TypeOK'
<1>1. CASE StopThread
  <2>1. index' \in Actions /\ index' \in 1..NumActions + 1
    BY <1>1, OneIsAction DEF StopThread, Actions
  <2> QED
    BY <1>1, <2>1 DEF TypeOK, StopThread, contents, memory
<1>2. ASSUME NEW f \in Files, NEW v \in EnvValues[f], EnvWrite(f, v)
      PROVE  TypeOK'
  <2>1. v \in Values
    BY ContentsAssumption
  <2>2. files' \in [Files -> Values] /\ author' \in [Files -> Authors]
        /\ touched' \subseteq Files
    BY <1>2, <2>1 DEF TypeOK, EnvWrite, Authors
  <2> QED
    BY <1>2, <2>2 DEF TypeOK, EnvWrite, memory
<1> QED
  BY <1>1, <1>2

LEMMA TypeStep ==
  ASSUME TypeOK, [Next]_vars
  PROVE  TypeOK'
<1>1. CASE Next
  BY <1>1, BeginTyped, ConvergeTyped, ReadOldTyped, WriteTyped, VerifyTyped,
     JournalTyped, FinishTyped, RestoreTyped, OthersTyped DEF Next, Engine
<1>2. CASE UNCHANGED vars
  BY <1>2 DEF TypeOK, vars, contents, memory
<1> QED
  BY <1>1, <1>2

(* Every variable keeps its type.                                          *)
THEOREM TypeCorrect == Spec => []TypeOK
BY InitTyped, TypeStep, PTL DEF Spec
-----------------------------------------------------------------------------
(* Audit mode.                                                             *)
LEMMA AuditInit ==
  ASSUME Init
  PROVE  AuditIdle
BY DEF Init, AuditIdle, Untouched, NotApplied

(* A step of a transaction or a restore that changes neither the files nor *)
(* what counts as applied.                                                 *)
LEMMA AuditKept ==
  ASSUME AuditIdle, mode' = mode, author' = author,
         mode = "audit" =>
           /\ pc' \notin {"write", "verify", "overwrite"}
           /\ \A i \in Actions : ~transaction'[i].applied /\ ~active'[i].applied
  PROVE  AuditIdle'
BY DEF AuditIdle

LEMMA AuditStep ==
  ASSUME TypeOK, AuditIdle, [Next]_vars
  PROVE  AuditIdle'
<1>1. CASE UNCHANGED vars
  BY <1>1 DEF AuditIdle, vars, contents, memory
<1>2. ASSUME NEW r \in Requests, BeginTransaction(r)
      PROVE  AuditIdle'
  BY <1>2, AuditKept DEF BeginTransaction, AuditIdle, memory, Untouched, NotApplied
<1>3. CASE Converge
  BY <1>3, AuditKept DEF Converge, NextAction, AuditIdle, contents, memory
<1>4. CASE ReadOld
  <2>1. index \in Actions
    BY <1>4, AtActionFacts DEF ReadOld
  <2>2. mode' = mode /\ author' = author
    BY <1>4 DEF ReadOld, contents
  <2>3. active' = active
    BY <1>4 DEF ReadOld, FailTransaction, memory
  <2>4. mode = "audit" => pc' \in {"journal", "restore"}
    BY <1>4 DEF ReadOld, FailTransaction
  <2>5. \A i \in Actions : transaction'[i].applied = transaction[i].applied
    <3>1. \/ transaction' = transaction
          \/ transaction' = [transaction EXCEPT ![index].old = files[File],
                                                ![index].by = author[File]]
      BY <1>4 DEF ReadOld
    <3> QED
      BY <2>1, <3>1 DEF TypeOK, Transactions, Entries
  <2> QED
    BY <2>2, <2>3, <2>4, <2>5, AuditKept DEF AuditIdle
<1>5. CASE WriteValue \/ VerifyValue \/ RestoreValue
  <2>1. mode # "audit" /\ mode' = mode
    BY <1>5 DEF WriteValue, VerifyValue, RestoreValue, AuditIdle
  <2> QED
    BY <2>1 DEF AuditIdle
<1>6. CASE JournalAction
  BY <1>6, AuditKept
     DEF JournalAction, FailTransaction, NextAction, AuditIdle, contents, memory
<1>7. CASE FinishTransaction
  BY <1>7, AuditKept DEF FinishTransaction, AuditIdle, contents
<1>8. CASE SkipRestore
  BY <1>8, AuditKept, RestoreNextTyped
     DEF SkipRestore, AuditIdle, contents, memory
<1>9. CASE CompareBeforeRestore
  <2>1. mode # "audit" /\ mode' = mode
    BY <1>9, AtActionFacts DEF CompareBeforeRestore, AuditIdle
  <2> QED
    BY <2>1 DEF AuditIdle
<1>10. CASE FinishRestore
  BY <1>10, AuditKept DEF FinishRestore, AuditIdle, contents
<1>11. CASE StopThread
  BY <1>11, AuditKept DEF StopThread, AuditIdle, contents, memory
<1>12. ASSUME NEW f \in Files, NEW v \in EnvValues[f], EnvWrite(f, v)
       PROVE  AuditIdle'
  BY <1>12 DEF EnvWrite, AuditIdle, memory, TypeOK
<1> QED
  BY <1>1, <1>2, <1>3, <1>4, <1>5, <1>6, <1>7, <1>8, <1>9, <1>10, <1>11, <1>12
     DEF Next, Engine

(* An engine in audit mode never changes a file, on no path through        *)
(* failures, undos and stops.                                              *)
THEOREM AuditIsSafe == Spec => []AuditChangesNothing
<1>1. Init => IInv
  BY InitTyped, AuditInit DEF IInv
<1>2. IInv /\ [Next]_vars => IInv'
  BY TypeStep, AuditStep DEF IInv
<1>3. IInv => AuditChangesNothing
  BY DEF IInv, AuditIdle, AuditChangesNothing
<1> QED
  BY <1>1, <1>2, <1>3, PTL DEF Spec
-----------------------------------------------------------------------------
(* What an entry is after a step.                                          *)
LEMMA EntryRead ==
  ASSUME TypeOK, index \in Actions,
         transaction' = [transaction EXCEPT ![index].old = files[File],
                                            ![index].by = author[File]]
  PROVE  /\ \A i \in Actions : /\ transaction'[i].applied = transaction[i].applied
                               /\ transaction'[i].expect = transaction[i].expect
                               /\ i # index => transaction'[i] = transaction[i]
         /\ transaction'[index].old = files[File]
         /\ transaction'[index].by = author[File]
BY DEF TypeOK, Transactions, Entries

LEMMA EntryApplied ==
  ASSUME TypeOK, index \in Actions, NEW b, NEW v,
         transaction' = [transaction EXCEPT ![index].applied = b, ![index].expect = v]
  PROVE  /\ \A i \in Actions : /\ transaction'[i].old = transaction[i].old
                               /\ transaction'[i].by = transaction[i].by
                               /\ i # index => transaction'[i] = transaction[i]
         /\ transaction'[index].applied = b
         /\ transaction'[index].expect = v
BY DEF TypeOK, Transactions, Entries

LEMMA EntryRestored ==
  ASSUME TypeOK, index \in Actions,
         transaction' = [transaction EXCEPT ![index].applied = FALSE]
  PROVE  /\ \A i \in Actions : /\ transaction'[i].old = transaction[i].old
                               /\ transaction'[i].by = transaction[i].by
                               /\ transaction'[i].expect = transaction[i].expect
                               /\ i # index => transaction'[i] = transaction[i]
         /\ ~transaction'[index].applied
BY DEF TypeOK, Transactions, Entries

LEMMA TypeIndex ==
  ASSUME TypeOK
  PROVE  index \in Int /\ NumActions \in Nat /\ \A i \in Actions : i \in Int
BY OneIsAction DEF TypeOK, Actions

LEMMA NoneApplied == \A i \in Actions : ~Untouched[i].applied
BY DEF Untouched, NotApplied
-----------------------------------------------------------------------------
(* A failed transaction.                                                   *)

(* What a file holds reads back as it is when it is written again.         *)
Settled ==
  /\ \A v \in Values : Readback[Readback[v]] = Readback[v]
  /\ \A f \in Files : /\ Readback[Initial[f]] = Initial[f]
                      /\ \A v \in EnvValues[f] : Readback[v] = v

(* The actions whose change is, or may be, in their file.                  *)
Pending(i) == transaction[i].applied \/ (pc = "verify" /\ index = i)
Read(i)    == Pending(i) \/ (pc = "write" /\ index = i)

Forward  == pc \in {"apply", "write", "verify", "journal"}
Backward == pc \in {"restore", "overwrite"}

(* Nothing counts as applied before its turn; in an undo, what counts      *)
(* behind the index is what was refused.                                   *)
AheadUntouched ==
  Forward => \A i \in Actions :
               i > index \/ (i = index /\ pc \in {"apply", "write"}) => ~transaction[i].applied
NoneRefused == Backward => \A i \in Actions : i > index => ~transaction[i].applied

FirstOf(i) == \A j \in Actions : j < i /\ ActionFile[j] = ActionFile[i] => ~transaction[j].applied

(* As long as nothing was refused, a file is as it was before, or the      *)
(* first action that changed it remembers how that was.                    *)
UndoComplete ==
  ~stopping /\ (Forward \/ Backward) /\ NoneRefused =>
    \A f \in Files \ touched :
      /\ (\A i \in Actions : ActionFile[i] = f => ~Pending(i)) => files[f] = before[f]
      /\ \A i \in Actions :
           ActionFile[i] = f /\ Read(i) /\ FirstOf(i) => transaction[i].old = before[f]

DeviceOld ==
  ~stopping /\ (Forward \/ Backward) =>
    \A i \in Actions :
      Read(i) /\ ActionFile[i] \in Netdevs => transaction[i].old = Initial[ActionFile[i]]

UndoneAtEnd ==
  pc = "restored" /\ ~stopping /\ (\A i \in Actions : ~transaction[i].applied) =>
    \A f \in Files \ touched : files[f] = before[f]

StableContents ==
  \A f \in Files : Readback[files[f]] = files[f] /\ Readback[before[f]] = before[f]

\* What was written to a file counts as applied before it is verified, and
\* so does what is about to be overwritten.
AppliedAtHand ==
  (pc = "verify" /\ ~IsNetdev) \/ pc = "overwrite" => transaction[index].applied

UndoInv ==
  /\ AppliedAtHand
  /\ AheadUntouched /\ UndoComplete /\ DeviceOld /\ UndoneAtEnd /\ StableContents
  /\ FailedTransactionUndone

LEMMA UndoInit ==
  ASSUME Init, Settled
  PROVE  UndoInv
BY ContentsAssumption, NoneApplied
   DEF Init, Settled, UndoInv, AheadUntouched, UndoComplete, DeviceOld, UndoneAtEnd,
       StableContents, FailedTransactionUndone, AppliedAtHand, Forward, Backward

LEMMA UndoBegin ==
  ASSUME TypeOK, UndoInv, NEW r \in Requests, BeginTransaction(r)
  PROVE  UndoInv'
<1>1. /\ pc' = "apply" /\ index' = 1 /\ files' = files /\ before' = files
      /\ \A i \in Actions : ~transaction'[i].applied
  BY NoneApplied DEF BeginTransaction
<1>2. AheadUntouched' /\ UndoneAtEnd' /\ FailedTransactionUndone' /\ AppliedAtHand'
  BY <1>1 DEF AheadUntouched, UndoneAtEnd, FailedTransactionUndone, AppliedAtHand
<1>3. UndoComplete' /\ DeviceOld'
  BY <1>1 DEF UndoComplete, DeviceOld, Pending, Read
<1>4. StableContents'
  BY <1>1 DEF UndoInv, StableContents
<1> QED
  BY <1>2, <1>3, <1>4 DEF UndoInv

(* A step that gives up: all that was done is now to be undone.            *)
GivesUp ==
  /\ Forward /\ FailTransaction
  /\ UNCHANGED <<files, before, touched, stopping>>
  /\ \A i \in Actions : /\ transaction'[i].applied <=> Pending(i)
                        /\ Pending(i) => transaction'[i].old = transaction[i].old

LEMMA UndoFail ==
  ASSUME TypeOK, UndoInv, GivesUp
  PROVE  UndoInv'
<1> USE DEF GivesUp
<1>1. pc' = "restore" /\ index' = NumActions
  BY DEF FailTransaction
<1>2. /\ AheadUntouched' /\ UndoneAtEnd' /\ FailedTransactionUndone' /\ StableContents'
      /\ AppliedAtHand'
  BY <1>1 DEF UndoInv, AheadUntouched, UndoneAtEnd, FailedTransactionUndone, StableContents,
     AppliedAtHand, Forward
<1>3. NoneRefused
  BY DEF NoneRefused, Forward, Backward
<1>4. UndoComplete'
  <2> SUFFICES ASSUME ~stopping, NEW f \in Files \ touched
               PROVE  /\ (\A i \in Actions : ActionFile[i] = f => ~Pending(i)') => files[f] = before[f]
                      /\ \A i \in Actions :
                           ActionFile[i] = f /\ Read(i)' /\ FirstOf(i)'
                             => transaction'[i].old = before[f]
    BY DEF UndoComplete
  <2>1. \A i \in Actions : Pending(i)' <=> Pending(i)
    BY <1>1 DEF Pending
  <2>2. \A i \in Actions : (Read(i)' => Pending(i)) /\ (FirstOf(i)' => FirstOf(i))
    BY <1>1, <2>1 DEF Read, FirstOf, Pending
  <2> QED
    BY <2>1, <2>2, <1>3 DEF UndoInv, UndoComplete, Read
<1>5. DeviceOld'
  BY <1>1 DEF UndoInv, DeviceOld, Read, Pending
<1> QED
  BY <1>2, <1>4, <1>5 DEF UndoInv

LEMMA UndoForward ==
  ASSUME TypeOK, UndoInv, Converge \/ JournalAction
  PROVE  UndoInv'
<1>1. /\ index \in Actions /\ NumActions \in Nat /\ Forward
      /\ UNCHANGED <<files, before, touched, stopping, transaction>>
  BY AtActionFacts, OneIsAction
     DEF Converge, JournalAction, AtAction, contents, Forward
<1>2. CASE FailTransaction
  <2>1. pc # "verify"
    BY <1>2 DEF Converge, JournalAction, AtAction, NextAction, FailTransaction
  <2>2. GivesUp
    BY <1>1, <1>2, <2>1 DEF GivesUp, Pending
  <2> QED
    BY <2>2, UndoFail
<1>3. CASE ~FailTransaction
  <2>1. pc' = "apply" /\ index' = index + 1 /\ pc \in {"apply", "journal"}
    BY <1>3 DEF Converge, JournalAction, AtAction, NextAction
  <2>2. AheadUntouched'
    BY <1>1, <2>1, TypeIndex DEF UndoInv, AheadUntouched, Forward, Actions
  <2>3. UndoComplete' /\ DeviceOld'
    BY <1>1, <2>1
       DEF UndoInv, UndoComplete, DeviceOld, Pending, Read, FirstOf, NoneRefused,
           Forward, Backward
  <2>4. /\ UndoneAtEnd' /\ FailedTransactionUndone' /\ StableContents'
        /\ AppliedAtHand'
    BY <1>1, <2>1
       DEF UndoInv, UndoneAtEnd, FailedTransactionUndone, StableContents, AppliedAtHand
  <2> QED
    BY <2>2, <2>3, <2>4 DEF UndoInv
<1> QED
  BY <1>2, <1>3

LEMMA UndoRead ==
  ASSUME TypeOK, UndoInv, ReadOld
  PROVE  UndoInv'
<1>1. /\ index \in Actions /\ pc = "apply" /\ Forward /\ File \in Files
      /\ UNCHANGED <<files, before, touched, stopping>>
  BY AtActionFacts DEF ReadOld, AtAction, contents, Forward
<1>2. ~transaction[index].applied
  BY <1>1 DEF UndoInv, AheadUntouched
<1>3. \/ transaction' = transaction
      \/ transaction' = [transaction EXCEPT ![index].old = files[File],
                                            ![index].by = author[File]]
  BY DEF ReadOld
<1>4. /\ \A i \in Actions : transaction'[i].applied = transaction[i].applied
      /\ \A i \in Actions : i # index => transaction'[i] = transaction[i]
  BY <1>1, <1>3, EntryRead
<1>5. CASE FailTransaction
  <2>1. GivesUp
    BY <1>1, <1>2, <1>4, <1>5 DEF GivesUp, Pending
  <2> QED
    BY <2>1, UndoFail
<1>6. CASE ~FailTransaction
  <2>1. /\ pc' \in {"write", "journal"} /\ index' = index
        /\ transaction' = [transaction EXCEPT ![index].old = files[File],
                                              ![index].by = author[File]]
        /\ pc' = "write" /\ IsNetdev => files[File] = Initial[File]
    BY <1>6 DEF ReadOld
  <2>2. transaction'[index].old = files[File]
    BY <1>1, <2>1, EntryRead
  <2>3. /\ AheadUntouched' /\ UndoneAtEnd' /\ FailedTransactionUndone'
        /\ StableContents' /\ AppliedAtHand'
    BY <1>1, <1>2, <1>4, <2>1
       DEF UndoInv, AheadUntouched, UndoneAtEnd, FailedTransactionUndone, StableContents,
           AppliedAtHand, Forward
  <2>4. \A i \in Actions : Pending(i)' <=> Pending(i)
    BY <1>1, <1>4, <2>1 DEF Pending
  <2>5. ASSUME ~stopping, NEW f \in Files \ touched
        PROVE  /\ (\A i \in Actions : ActionFile[i] = f => ~Pending(i)') => files[f] = before[f]
               /\ \A i \in Actions :
                    ActionFile[i] = f /\ Read(i)' /\ FirstOf(i)'
                      => transaction'[i].old = before[f]
    <3>1. NoneRefused
      BY <1>1 DEF NoneRefused, Backward
    <3>2. /\ (\A i \in Actions : ActionFile[i] = f => ~Pending(i)) => files[f] = before[f]
          /\ \A i \in Actions :
               ActionFile[i] = f /\ Read(i) /\ FirstOf(i) => transaction[i].old = before[f]
      BY <1>1, <2>5, <3>1 DEF UndoInv, UndoComplete
    <3>3. ASSUME NEW i \in Actions, ActionFile[i] = f, Read(i)', FirstOf(i)'
          PROVE  transaction'[i].old = before[f]
      <4>1. CASE i = index
        <5>1. \A j \in Actions : ActionFile[j] = f => ~Pending(j)
          BY <1>1, <1>2, <1>4, <3>3, <4>1, TypeIndex
             DEF UndoInv, AheadUntouched, FirstOf, Pending, Forward, Actions
        <5> QED
          BY <2>2, <3>2, <3>3, <4>1, <5>1 DEF File
      <4>2. CASE i # index
        <5>1. Read(i) /\ FirstOf(i)
          BY <1>1, <1>4, <2>1, <3>3, <4>2 DEF Read, Pending, FirstOf
        <5> QED
          BY <1>4, <3>2, <3>3, <4>2, <5>1
      <4> QED
        BY <4>1, <4>2
    <3> QED
      BY <2>4, <3>2, <3>3
  <2>6. UndoComplete'
    BY <1>1, <2>5 DEF UndoComplete
  <2>7. DeviceOld'
    <3> SUFFICES ASSUME ~stopping, NEW i \in Actions, Read(i)', ActionFile[i] \in Netdevs
                 PROVE  transaction'[i].old = Initial[ActionFile[i]]
      BY <1>1 DEF DeviceOld
    <3>1. CASE i = index
      <4>1. pc' = "write"
        BY <1>2, <1>4, <2>1, <3>1 DEF Read, Pending
      <4> QED
        BY <2>1, <2>2, <3>1, <4>1 DEF File, IsNetdev
    <3>2. CASE i # index
      <4>1. Read(i)
        BY <1>4, <2>1, <3>2 DEF Read, Pending
      <4> QED
        BY <1>1, <1>4, <3>2, <4>1 DEF UndoInv, DeviceOld
    <3> QED
      BY <3>1, <3>2
  <2> QED
    BY <2>3, <2>6, <2>7 DEF UndoInv
<1> QED
  BY <1>5, <1>6

LEMMA UndoWrite ==
  ASSUME TypeOK, UndoInv, Settled, WriteValue
  PROVE  UndoInv'
<1>1. /\ index \in Actions /\ pc = "write" /\ Forward /\ File \in Files /\ Value \in Values
      /\ UNCHANGED <<before, touched, stopping>>
  BY AtActionFacts DEF WriteValue, Forward
<1>2. CASE FailTransaction
  <2>1. UNCHANGED <<files, transaction>>
    BY <1>2 DEF WriteValue, FailTransaction
  <2>2. GivesUp
    BY <1>1, <1>2, <2>1 DEF GivesUp, Pending
  <2> QED
    BY <2>2, UndoFail
<1>3. CASE ~FailTransaction
  <2>1. /\ pc' = "verify" /\ index' = index
        /\ \/ files' = files
           \/ files' = [files EXCEPT ![File] = Readback[Value]]
        /\ \/ transaction' = transaction
           \/ transaction' = [transaction EXCEPT ![index].applied = TRUE,
                                                 ![index].expect = Value]
    BY <1>3 DEF WriteValue
  <2>2. /\ \A i \in Actions : i # index => transaction'[i] = transaction[i]
        /\ \A i \in Actions : transaction'[i].old = transaction[i].old
        /\ transaction[index].applied => transaction'[index].applied
    BY <1>1, <2>1, EntryApplied
  <2>9. ~IsNetdev => transaction'[index].applied
    BY <1>1, <1>3, EntryApplied DEF WriteValue
  <2>3. \A g \in Files : g # File => files'[g] = files[g]
    BY <2>1 DEF TypeOK
  <2>4. /\ AheadUntouched' /\ UndoneAtEnd' /\ FailedTransactionUndone'
        /\ AppliedAtHand'
    BY <1>1, <2>1, <2>2, <2>9, TypeIndex
       DEF UndoInv, AheadUntouched, UndoneAtEnd, FailedTransactionUndone,
           AppliedAtHand, IsNetdev, File, Forward
  <2>5. StableContents'
    <3>1. files'[File] = files[File] \/ files'[File] = Readback[Value]
      BY <1>1, <2>1 DEF TypeOK
    <3> QED
      BY <1>1, <2>3, <3>1 DEF UndoInv, StableContents, Settled
  <2>6. UndoComplete'
    <3> SUFFICES ASSUME ~stopping, NEW f \in Files \ touched
                 PROVE  /\ (\A i \in Actions : ActionFile[i] = f => ~Pending(i)') => files'[f] = before[f]
                        /\ \A i \in Actions :
                             ActionFile[i] = f /\ Read(i)' /\ FirstOf(i)'
                               => transaction'[i].old = before[f]
      BY <1>1 DEF UndoComplete
    <3>1. NoneRefused
      BY <1>1 DEF NoneRefused, Backward
    <3>2. /\ (\A i \in Actions : ActionFile[i] = f => ~Pending(i)) => files[f] = before[f]
          /\ \A i \in Actions :
               ActionFile[i] = f /\ Read(i) /\ FirstOf(i) => transaction[i].old = before[f]
      BY <1>1, <3>1 DEF UndoInv, UndoComplete
    <3>3. \A i \in Actions : /\ Pending(i)' <=> Pending(i) \/ i = index
                             /\ Read(i)' => Read(i)
                             /\ FirstOf(i)' => FirstOf(i)
      BY <1>1, <2>1, <2>2 DEF Pending, Read, FirstOf
    <3>4. (\A i \in Actions : ActionFile[i] = f => ~Pending(i)') => files'[f] = before[f]
      BY <1>1, <2>3, <3>2, <3>3 DEF File
    <3> QED
      BY <2>2, <3>2, <3>3, <3>4
  <2>7. DeviceOld'
    <3>1. \A i \in Actions : Read(i)' => Read(i)
      BY <1>1, <2>1, <2>2 DEF Pending, Read
    <3> QED
      BY <1>1, <2>2, <3>1 DEF UndoInv, DeviceOld
  <2> QED
    BY <2>4, <2>5, <2>6, <2>7 DEF UndoInv
<1> QED
  BY <1>2, <1>3

LEMMA UndoVerify ==
  ASSUME TypeOK, UndoInv, VerifyValue
  PROVE  UndoInv'
<1>1. /\ index \in Actions /\ pc = "verify" /\ Forward /\ File \in Files
      /\ UNCHANGED <<files, before, touched, stopping>>
  BY AtActionFacts DEF VerifyValue, contents, Forward
<1>2. PICK shown : \/ transaction' = transaction /\ ~IsNetdev
                   \/ transaction' = [transaction EXCEPT ![index].applied = TRUE,
                                                         ![index].expect = shown]
  BY DEF VerifyValue
<1>3. /\ \A i \in Actions : i # index => transaction'[i] = transaction[i]
      /\ \A i \in Actions : transaction'[i].old = transaction[i].old
      /\ transaction[index].applied => transaction'[index].applied
  BY <1>1, <1>2, EntryApplied
<1>4. transaction'[index].applied
  BY <1>1, <1>2, EntryApplied DEF UndoInv, AppliedAtHand
<1>5. CASE FailTransaction
  <2>1. GivesUp
    BY <1>1, <1>3, <1>4, <1>5 DEF GivesUp, Pending
  <2> QED
    BY <2>1, UndoFail
<1>6. CASE ~FailTransaction
  <2>1. pc' = "journal" /\ index' = index
    BY <1>6 DEF VerifyValue
  <2>2. \A i \in Actions : /\ Pending(i)' <=> Pending(i)
                           /\ Read(i)' <=> Read(i)
                           /\ FirstOf(i)' => FirstOf(i)
    BY <1>1, <1>3, <1>4, <2>1 DEF Pending, Read, FirstOf
  <2>3. UndoComplete' /\ DeviceOld'
    <3>1. NoneRefused
      BY <1>1 DEF NoneRefused, Backward
    <3> QED
      BY <1>1, <1>3, <2>2, <3>1 DEF UndoInv, UndoComplete, DeviceOld
  <2>4. /\ AheadUntouched' /\ UndoneAtEnd' /\ FailedTransactionUndone'
        /\ AppliedAtHand' /\ StableContents'
    BY <1>1, <1>3, <2>1, TypeIndex
       DEF UndoInv, AheadUntouched, UndoneAtEnd, FailedTransactionUndone,
           AppliedAtHand, StableContents, Forward
  <2> QED
    BY <2>3, <2>4 DEF UndoInv
<1> QED
  BY <1>5, <1>6

(* Going back to the action before, the entry at hand being done with:     *)
(* either it no longer counts as applied, or it was refused.               *)
LEMMA UndoBack ==
  ASSUME TypeOK, UndoInv, Backward, RestoreNext, StableContents',
         UNCHANGED <<before, stopping, active, outcome>>,
         \A i \in Actions : /\ transaction'[i].applied => transaction[i].applied
                            /\ transaction'[i].old = transaction[i].old
                            /\ i # index => transaction'[i] = transaction[i],
         touched \subseteq touched',
         ~stopping /\ ~transaction'[index].applied =>
           \A f \in Files \ touched' :
             \/ files'[f] = files[f] /\ (~transaction[index].applied \/ f # File)
             \/ /\ transaction[index].applied /\ f = File
                /\ FirstOf(index) /\ NoneRefused => files'[f] = before[f]
  PROVE  UndoInv'
<1>1. /\ pc' \in {"restored", "restore"} /\ index \in Actions
      /\ pc' = "restored" => index = 1 /\ index' = 1
      /\ pc' = "restore" => index' = index - 1
  BY AtActionFacts DEF RestoreNext, Backward
<1>2. pc \in {"restore", "overwrite"} /\ pc' \notin {"watch", "verify", "write", "overwrite"}
  BY <1>1 DEF Backward
<1>3. AheadUntouched' /\ FailedTransactionUndone' /\ AppliedAtHand'
  BY <1>1 DEF AheadUntouched, FailedTransactionUndone, AppliedAtHand, Forward
<1>4. DeviceOld'
  BY <1>2 DEF UndoInv, DeviceOld, Read, Pending
<1>5. ASSUME ~stopping, \A i \in Actions : i >= index => ~transaction'[i].applied,
             NEW f \in Files \ touched'
      PROVE  /\ (\A i \in Actions : ActionFile[i] = f => ~transaction'[i].applied) => files'[f] = before[f]
             /\ \A i \in Actions :
                  ActionFile[i] = f /\ transaction'[i].applied /\ FirstOf(i)'
                    => transaction'[i].old = before[f]
  <2>1. ~transaction'[index].applied /\ f \in Files \ touched
    BY <1>1, <1>5, TypeIndex
  <2>2. NoneRefused
    BY <1>1, <1>5, TypeIndex DEF NoneRefused
  <2>3. /\ (\A i \in Actions : ActionFile[i] = f => ~transaction[i].applied) => files[f] = before[f]
        /\ \A i \in Actions :
             ActionFile[i] = f /\ transaction[i].applied /\ FirstOf(i) => transaction[i].old = before[f]
    BY <1>2, <1>5, <2>1, <2>2 DEF UndoInv, UndoComplete, Pending, Read
  <2>4. ASSUME \A i \in Actions : ActionFile[i] = f => ~transaction'[i].applied
        PROVE  files'[f] = before[f]
    <3>1. CASE transaction[index].applied /\ f = File
      <4>1. FirstOf(index)
        BY <1>1, <2>4, <3>1, TypeIndex DEF FirstOf, File
      <4> QED
        BY <1>5, <2>1, <2>2, <2>3, <3>1, <4>1
    <3>2. CASE ~transaction[index].applied \/ f # File
      <4>1. \A i \in Actions : ActionFile[i] = f => ~transaction[i].applied
        BY <2>4, <3>2 DEF File
      <4> QED
        BY <1>5, <2>1, <2>3, <3>2, <4>1
    <3> QED
      BY <3>1, <3>2
  <2>5. ASSUME NEW i \in Actions, ActionFile[i] = f, transaction'[i].applied, FirstOf(i)'
        PROVE  transaction'[i].old = before[f]
    <3>1. i < index
      BY <1>1, <1>5, <2>5, TypeIndex
    <3>2. FirstOf(i)
      BY <1>1, <2>5, <3>1, TypeIndex DEF FirstOf
    <3> QED
      BY <2>3, <2>5, <3>2
  <2> QED
    BY <2>4, <2>5
<1>6. UndoneAtEnd'
  BY <1>1, <1>5, ActionFacts DEF UndoneAtEnd
<1>7. UndoComplete'
  <2> SUFFICES ASSUME ~stopping, pc' = "restore", NoneRefused', NEW f \in Files \ touched'
               PROVE  /\ (\A i \in Actions : ActionFile[i] = f => ~Pending(i)') => files'[f] = before'[f]
                      /\ \A i \in Actions :
                           ActionFile[i] = f /\ Read(i)' /\ FirstOf(i)'
                             => transaction'[i].old = before'[f]
    BY <1>1 DEF UndoComplete, Forward, Backward
  <2>1. \A i \in Actions : i >= index => ~transaction'[i].applied
    BY <1>1, TypeIndex DEF NoneRefused, Backward
  <2> QED
    BY <1>2, <1>5, <2>1 DEF Pending, Read
<1> QED
  BY <1>3, <1>4, <1>6, <1>7 DEF UndoInv

LEMMA UndoRestore ==
  ASSUME TypeOK, UndoInv, Settled, SkipRestore \/ CompareBeforeRestore \/ RestoreValue
  PROVE  UndoInv'
<1>1. /\ index \in Actions /\ Backward /\ File \in Files
      /\ UNCHANGED <<before, stopping, active, outcome>>
  BY AtActionFacts
     DEF SkipRestore, CompareBeforeRestore, RestoreValue, Backward, memory
<1>2. CASE SkipRestore
  <2>1. RestoreNext /\ UNCHANGED <<files, touched, transaction>>
    BY <1>2 DEF SkipRestore, contents
  <2>2. StableContents'
    BY <1>1, <2>1 DEF UndoInv, StableContents
  <2> QED
    BY <1>1, <2>1, <2>2, UndoBack
<1>3. CASE CompareBeforeRestore
  <2>1. /\ pc = "restore" /\ pc' = "overwrite" /\ index' = index
        /\ transaction[index].applied
        /\ UNCHANGED <<files, touched, transaction>>
    BY <1>3 DEF CompareBeforeRestore, contents
  <2> QED
    BY <1>1, <2>1
       DEF UndoInv, AppliedAtHand, AheadUntouched, UndoComplete, DeviceOld, UndoneAtEnd,
           StableContents, FailedTransactionUndone, Forward, Backward, NoneRefused,
           Pending, Read, FirstOf
<1>4. CASE RestoreValue
  <2>1. RestoreNext /\ transaction[index].applied /\ pc = "overwrite"
    BY <1>4 DEF RestoreValue, UndoInv, AppliedAtHand
  <2>2. CASE UNCHANGED <<files, author, touched, transaction>>
    <3>1. StableContents'
      BY <1>1, <2>2 DEF UndoInv, StableContents
    <3> QED
      BY <1>1, <2>1, <2>2, <3>1, UndoBack
  <2>3. CASE ~UNCHANGED <<files, author, touched, transaction>>
    <3>1. /\ transaction' = [transaction EXCEPT ![index].applied = FALSE]
          /\ \/ /\ files' = [files EXCEPT ![File] =
                               IF IsNetdev THEN Initial[File]
                               ELSE Readback[transaction[index].old]]
                /\ touched' = touched
             \/ files' = files /\ touched' = touched \cup {File}
      BY <1>4, <2>3 DEF RestoreValue
    <3>2. /\ \A i \in Actions : /\ transaction'[i].applied => transaction[i].applied
                                /\ transaction'[i].old = transaction[i].old
                                /\ i # index => transaction'[i] = transaction[i]
          /\ ~transaction'[index].applied
      BY <1>1, <3>1, EntryRestored
    <3>3. \A f \in Files : f # File => files'[f] = files[f]
      BY <3>1 DEF TypeOK
    <3>4. StableContents'
      <4>1. /\ Readback[transaction[index].old] \in Values
            /\ Readback[Readback[transaction[index].old]] = Readback[transaction[index].old]
            /\ Readback[Initial[File]] = Initial[File]
        BY <1>1, EntryType, ContentsAssumption DEF TypeOK, Settled
      <4>2. Readback[files'[File]] = files'[File]
        BY <1>1, <3>1, <4>1 DEF TypeOK, UndoInv, StableContents
      <4> QED
        BY <1>1, <3>3, <4>2 DEF UndoInv, StableContents
    <3>5. touched \subseteq touched'
      BY <3>1
    <3>6. ASSUME ~stopping, NEW f \in Files \ touched'
          PROVE  \/ files'[f] = files[f] /\ (~transaction[index].applied \/ f # File)
                 \/ /\ transaction[index].applied /\ f = File
                    /\ FirstOf(index) /\ NoneRefused => files'[f] = before[f]
      <4>1. CASE f # File
        BY <3>3, <4>1
      <4>2. CASE f = File
        <5>1. /\ f \notin touched
              /\ files'[f] = IF IsNetdev THEN Initial[File]
                            ELSE Readback[transaction[index].old]
          BY <1>1, <3>1, <4>2 DEF TypeOK
        <5>2. Pending(index) /\ Read(index)
          BY <2>1 DEF Pending, Read
        <5>3. IsNetdev => transaction[index].old = Initial[File]
          BY <1>1, <3>6, <5>2 DEF UndoInv, DeviceOld, IsNetdev, File
        <5>4. FirstOf(index) /\ NoneRefused => transaction[index].old = before[f]
          BY <1>1, <3>6, <4>2, <5>1, <5>2 DEF UndoInv, UndoComplete, File
        <5>5. Readback[before[f]] = before[f]
          BY <3>6 DEF UndoInv, StableContents
        <5> QED
          BY <2>1, <4>2, <5>1, <5>3, <5>4, <5>5
      <4> QED
        BY <4>1, <4>2
    <3> QED
      BY <1>1, <2>1, <3>2, <3>4, <3>5, <3>6, UndoBack
  <2> QED
    BY <2>2, <2>3
<1> QED
  BY <1>2, <1>3, <1>4

LEMMA UndoEnd ==
  ASSUME TypeOK, UndoInv, FinishTransaction \/ FinishRestore \/ StopThread
  PROVE  UndoInv'
<1>1. /\ UNCHANGED <<files, before, touched>>
      /\ pc' \in {"watch", "stopped", "restore"}
      /\ pc' = "restore" => stopping'
      /\ pc' = "watch" => \/ outcome' = "applied"
                          \/ pc = "restored" /\ ~stopping /\ active' = transaction
  BY DEF FinishTransaction, FinishRestore, StopThread, contents
<1>2. FailedTransactionUndone'
  BY <1>1 DEF UndoInv, UndoneAtEnd, FailedTransactionUndone
<1>3. /\ AheadUntouched' /\ UndoComplete' /\ DeviceOld' /\ UndoneAtEnd'
      /\ AppliedAtHand' /\ StableContents'
  BY <1>1 DEF UndoInv, AppliedAtHand, AheadUntouched, UndoComplete, DeviceOld, UndoneAtEnd,
       StableContents, Forward, Backward
<1> QED
  BY <1>2, <1>3 DEF UndoInv

LEMMA UndoEnv ==
  ASSUME TypeOK, UndoInv, Settled, NEW g \in Files, NEW v \in EnvValues[g], EnvWrite(g, v)
  PROVE  UndoInv'
<1>1. /\ UNCHANGED <<pc, transaction, active, index, outcome, stopping, before>>
      /\ touched' = touched \cup {g}
      /\ \A f \in Files : files'[f] = IF f = g THEN v ELSE files[f]
  BY DEF EnvWrite, memory, TypeOK
<1>2. StableContents'
  BY <1>1 DEF UndoInv, StableContents, Settled
<1>3. UndoComplete'
  BY <1>1 DEF UndoInv, UndoComplete, NoneRefused, Forward, Backward, Pending, Read, FirstOf
<1>4. /\ AheadUntouched' /\ DeviceOld' /\ UndoneAtEnd' /\ AppliedAtHand'
      /\ FailedTransactionUndone'
  BY <1>1 DEF UndoInv, AppliedAtHand, AheadUntouched, DeviceOld, UndoneAtEnd,
       FailedTransactionUndone, Forward, Backward, Pending, Read, IsNetdev, File
<1> QED
  BY <1>2, <1>3, <1>4 DEF UndoInv

LEMMA UndoStutter ==
  ASSUME UndoInv, UNCHANGED vars
  PROVE  UndoInv'
BY DEF UndoInv, AppliedAtHand, AheadUntouched, UndoComplete, DeviceOld, UndoneAtEnd,
       StableContents, FailedTransactionUndone, NoneRefused, Forward, Backward,
       Pending, Read, FirstOf, IsNetdev, File, vars, contents, memory

LEMMA UndoStep ==
  ASSUME TypeOK, UndoInv, Settled, [Next]_vars
  PROVE  UndoInv'
BY UndoBegin, UndoForward, UndoRead, UndoWrite, UndoVerify, UndoRestore, UndoEnd,
   UndoEnv, UndoStutter DEF Next, Engine

(* When a failed transaction was undone without a refusal, every file that *)
(* nobody else touched reads what it read before: for any number of        *)
(* actions, any of them on the same file, and any disturbances.            *)
THEOREM UndoIsComplete ==
  ASSUME Settled
  PROVE  Spec => []FailedTransactionUndone
<1>1. Init => TypeOK /\ UndoInv
  BY InitTyped, UndoInit
<1>2. TypeOK /\ UndoInv /\ [Next]_vars => (TypeOK /\ UndoInv)'
  BY TypeStep, UndoStep
<1>3. TypeOK /\ UndoInv => FailedTransactionUndone
  BY DEF UndoInv
<1> QED
  BY <1>1, <1>2, <1>3, PTL DEF Spec
-----------------------------------------------------------------------------
(* What is believed to be in effect.                                       *)

(* Values that the actions set read as they were written.                  *)
ReadsBack ==
  \A i \in Actions : Readback[ActionValue[i]] = ActionValue[i] /\ ActionValue[i] # Empty

(* What has been verified, and a device that is about to be, is as it was  *)
(* set until the books say so.                                             *)
SetAtHand ==
  Private(index) /\ ((pc = "journal" /\ transaction[index].applied) \/ (pc = "verify" /\ IsNetdev))
    => files[File] = Value

BelievedInv == AheadUntouched /\ SetAtHand /\ BelievedInEffect

LEMMA AheadStep ==
  ASSUME TypeOK, AheadUntouched, [Next]_vars
  PROVE  AheadUntouched'
<1>1. CASE UNCHANGED vars
  BY <1>1 DEF AheadUntouched, Forward, vars
<1>2. CASE \E r \in Requests : BeginTransaction(r)
  BY <1>2, NoneApplied DEF BeginTransaction, AheadUntouched
<1>3. CASE ~Forward'
  BY <1>3 DEF AheadUntouched
<1>4. CASE Converge \/ ReadOld \/ WriteValue \/ VerifyValue \/ JournalAction
  <2>1. index \in Actions /\ Forward
    BY <1>4, AtActionFacts
       DEF Converge, ReadOld, WriteValue, VerifyValue, JournalAction, AtAction, Forward
  <2>2. /\ \A i \in Actions : i # index => transaction'[i].applied = transaction[i].applied
        /\ ReadOld \/ Converge => transaction'[index].applied = transaction[index].applied
    BY <1>4, <2>1, EntryRead, EntryApplied
       DEF Converge, ReadOld, WriteValue, VerifyValue, JournalAction
  <2>3. CASE FailTransaction
    BY <2>3 DEF FailTransaction, AheadUntouched, Forward
  <2>4. CASE ~FailTransaction
    <3>1. \/ pc' = "apply" /\ index' = index + 1
          \/ pc' \in {"write", "journal"} /\ index' = index /\ ReadOld
          \/ pc' \in {"verify", "journal"} /\ index' = index
      BY <1>4, <2>4
         DEF Converge, ReadOld, WriteValue, VerifyValue, JournalAction, NextAction
    <3>2. ReadOld => pc = "apply"
      BY DEF ReadOld, AtAction
    <3> QED
      BY <2>1, <2>2, <3>1, <3>2, TypeIndex DEF AheadUntouched, Forward
  <2> QED
    BY <2>3, <2>4
<1>5. CASE \E f \in Files : \E v \in EnvValues[f] : EnvWrite(f, v)
  BY <1>5 DEF EnvWrite, AheadUntouched, Forward
<1>6. CASE FinishTransaction \/ SkipRestore \/ CompareBeforeRestore \/ RestoreValue
           \/ FinishRestore \/ StopThread
  <2>1. ~Forward'
    BY <1>6 DEF FinishTransaction, SkipRestore, CompareBeforeRestore, RestoreValue,
       FinishRestore, StopThread, RestoreNext, Forward
  <2> QED
    BY <2>1, <1>3
<1> QED
  BY <1>1, <1>2, <1>4, <1>5, <1>6 DEF Next, Engine

LEMMA BelievedInit ==
  ASSUME Init
  PROVE  BelievedInv
BY NoneApplied
   DEF Init, BelievedInv, AheadUntouched, SetAtHand, BelievedInEffect, Forward

(* A step that changes neither the contents of private files nor the books *)
(* for the worse.                                                          *)
LEMMA BelievedKept ==
  ASSUME TypeOK, BelievedInv, effective' \subseteq effective,
         pc' \notin {"verify", "journal"},
         \A i \in Actions : Private(i) /\ Key(i) \in effective'
                              => files'[ActionFile[i]] = files[ActionFile[i]]
  PROVE  SetAtHand' /\ BelievedInEffect'
<1>1. SetAtHand'
  BY DEF SetAtHand
<1>2. BelievedInEffect'
  BY DEF BelievedInv, BelievedInEffect, Private, Key
<1> QED
  BY <1>1, <1>2

LEMMA BelievedRead ==
  ASSUME TypeOK, BelievedInv, ReadOld
  PROVE  SetAtHand' /\ BelievedInEffect'
<1>1. /\ index \in Actions /\ pc = "apply" /\ UNCHANGED <<files, effective>>
      /\ ~transaction[index].applied
  BY AtActionFacts
     DEF ReadOld, AtAction, contents, memory, FailTransaction, BelievedInv, AheadUntouched,
         Forward
<1>2. CASE FailTransaction
  BY <1>1, <1>2, BelievedKept DEF FailTransaction
<1>3. CASE ~FailTransaction
  <2>1. /\ pc' \in {"write", "journal"} /\ index' = index
        /\ transaction' = [transaction EXCEPT ![index].old = files[File],
                                              ![index].by = author[File]]
    BY <1>3 DEF ReadOld
  <2>2. ~transaction'[index].applied
    BY <1>1, <2>1, EntryRead
  <2> QED
    BY <1>1, <2>1, <2>2 DEF BelievedInv, SetAtHand, BelievedInEffect, Private, Key
<1> QED
  BY <1>2, <1>3

LEMMA BelievedWrite ==
  ASSUME TypeOK, BelievedInv, ReadsBack, WriteValue
  PROVE  SetAtHand' /\ BelievedInEffect'
<1>1. index \in Actions /\ File \in Files /\ effective' = effective
  BY AtActionFacts DEF WriteValue, memory, FailTransaction
<1>2. CASE FailTransaction
  BY <1>1, <1>2, BelievedKept DEF FailTransaction, WriteValue
<1>3. CASE ~FailTransaction
  <2>1. /\ pc' = "verify" /\ index' = index
        /\ \/ files' = files /\ ~IsNetdev
           \/ files' = [files EXCEPT ![File] = Readback[Value]]
    BY <1>3 DEF WriteValue
  <2>2. /\ \A f \in Files : f # File => files'[f] = files[f]
        /\ files'[File] = Value \/ (files' = files /\ ~IsNetdev)
    BY <1>1, <2>1 DEF TypeOK, ReadsBack, Value
  <2>3. SetAtHand'
    BY <2>1, <2>2 DEF SetAtHand, File, Value, IsNetdev
  <2>4. BelievedInEffect'
    <3> SUFFICES ASSUME NEW i \in Actions, Private(i), Key(i) \in effective
                 PROVE  files'[ActionFile[i]] = ActionValue[i]
      BY <1>1 DEF BelievedInEffect, Private, Key
    <3>1. i = index \/ ActionFile[i] # File
      BY <1>1 DEF Private, File
    <3>2. files[ActionFile[i]] = ActionValue[i]
      BY DEF BelievedInv, BelievedInEffect
    <3> QED
      BY <2>2, <3>1, <3>2, ActionFacts DEF File, Value
  <2> QED
    BY <2>3, <2>4
<1> QED
  BY <1>2, <1>3

LEMMA BelievedVerify ==
  ASSUME TypeOK, BelievedInv, ReadsBack, VerifyValue
  PROVE  SetAtHand' /\ BelievedInEffect'
<1>1. /\ index \in Actions /\ File \in Files /\ pc = "verify"
      /\ UNCHANGED <<files, effective>>
  BY AtActionFacts DEF VerifyValue, contents, memory, FailTransaction
<1>2. CASE FailTransaction
  BY <1>1, <1>2, BelievedKept DEF FailTransaction
<1>3. CASE ~FailTransaction
  <2>1. PICK shown \in {files[File], Empty} : Verified(shown)
    BY <1>3 DEF VerifyValue
  <2>2. pc' = "journal" /\ index' = index
    BY <1>3 DEF VerifyValue
  <2>3. Private(index) => files[File] = Value
    <3>1. CASE IsNetdev
      BY <1>1, <3>1 DEF BelievedInv, SetAtHand
    <3>2. CASE ~IsNetdev
      BY <1>1, <2>1, <3>2 DEF Verified, ReadsBack, Value
    <3> QED
      BY <3>1, <3>2
  <2> QED
    BY <1>1, <2>2, <2>3
       DEF BelievedInv, SetAtHand, BelievedInEffect, Private, Key, File, Value
<1> QED
  BY <1>2, <1>3

LEMMA BelievedJournal ==
  ASSUME TypeOK, BelievedInv, JournalAction
  PROVE  SetAtHand' /\ BelievedInEffect'
<1>1. index \in Actions /\ pc = "journal" /\ files' = files
  BY AtActionFacts DEF JournalAction, contents
<1>2. CASE effective' = effective
  BY <1>1, <1>2, BelievedKept DEF JournalAction, FailTransaction, NextAction
<1>3. CASE effective' # effective
  <2>1. /\ effective' = effective \cup {Key(index)} /\ transaction[index].applied
        /\ pc' = "apply"
    BY <1>3 DEF JournalAction, FailTransaction, NextAction, memory
  <2>2. Private(index) => files[File] = Value
    BY <1>1, <2>1 DEF BelievedInv, SetAtHand
  <2>3. BelievedInEffect'
    <3> SUFFICES ASSUME NEW i \in Actions, Private(i), Key(i) \in effective'
                 PROVE  files[ActionFile[i]] = ActionValue[i]
      BY <1>1 DEF BelievedInEffect, Private, Key
    <3>1. CASE Key(i) \in effective
      BY <3>1 DEF BelievedInv, BelievedInEffect
    <3>2. CASE Key(i) = Key(index)
      <4>1. i = index
        BY <1>1, <3>2 DEF Private, Key
      <4> QED
        BY <2>2, <4>1 DEF File, Value
    <3> QED
      BY <2>1, <3>1, <3>2
  <2> QED
    BY <2>1, <2>3 DEF SetAtHand
<1> QED
  BY <1>2, <1>3

LEMMA BelievedRestore ==
  ASSUME TypeOK, BelievedInv, RestoreValue
  PROVE  SetAtHand' /\ BelievedInEffect'
<1>1. index \in Actions /\ pc' \in {"restored", "restore"}
  BY AtActionFacts DEF RestoreValue, RestoreNext
<1>2. \/ files' = files /\ effective' \subseteq effective
      \/ /\ effective' = effective \ {Key(index)}
         /\ \A f \in Files : f # File => files'[f] = files[f]
  BY DEF RestoreValue, contents, TypeOK
<1>3. ASSUME NEW i \in Actions, Private(i), Key(i) \in effective'
      PROVE  files'[ActionFile[i]] = files[ActionFile[i]]
  BY <1>1, <1>2, <1>3, ActionFacts DEF Private, Key, File
<1> QED
  BY <1>1, <1>2, <1>3, BelievedKept

LEMMA BelievedEnv ==
  ASSUME TypeOK, BelievedInv, NEW f \in Files, NEW v \in EnvValues[f], EnvWrite(f, v)
  PROVE  SetAtHand' /\ BelievedInEffect'
<1>1. /\ UNCHANGED <<pc, index, transaction, effective>>
      /\ \A g \in Files : g # f => files'[g] = files[g]
  BY DEF EnvWrite, memory, TypeOK
<1>2. \A i \in Actions : Private(i) => ActionFile[i] # f
  BY DEF Private, EnvWrite, May
<1>3. pc \in {"journal", "verify"} => index \in Actions
  BY AtActionFacts
<1> QED
  BY <1>1, <1>2, <1>3, ActionFacts
     DEF BelievedInv, SetAtHand, BelievedInEffect, Private, Key, File, Value, IsNetdev

LEMMA BelievedStep ==
  ASSUME TypeOK, BelievedInv, ReadsBack, [Next]_vars
  PROVE  BelievedInv'
<1>1. AheadUntouched'
  BY AheadStep DEF BelievedInv
<1>2. CASE UNCHANGED vars
  BY <1>2 DEF BelievedInv, SetAtHand, BelievedInEffect, AheadUntouched, Forward,
     Private, Key, File, Value, IsNetdev, vars, contents, memory
<1>3. CASE \/ \E r \in Requests : BeginTransaction(r)
           \/ Converge \/ FinishTransaction \/ SkipRestore \/ CompareBeforeRestore
           \/ FinishRestore \/ StopThread
  <2>1. /\ UNCHANGED <<files, effective>>
        /\ pc' \notin {"verify", "journal"}
    BY <1>3 DEF BeginTransaction, Converge, FinishTransaction, SkipRestore,
       CompareBeforeRestore, FinishRestore, StopThread, RestoreNext, NextAction,
       contents, memory
  <2> QED
    BY <1>1, <2>1, BelievedKept DEF BelievedInv
<1> QED
  BY <1>1, <1>2, <1>3, BelievedRead, BelievedWrite, BelievedVerify, BelievedJournal,
     BelievedRestore, BelievedEnv DEF Next, Engine, BelievedInv

(* On a file that one action sets and nobody else writes, what the engine  *)
(* believes to be in effect is in effect, whatever cannot be opened, is    *)
(* rejected, refused or not journalled.                                    *)
THEOREM BeliefsAreTrue ==
  ASSUME ReadsBack
  PROVE  Spec => []BelievedInEffect
<1>1. Init => TypeOK /\ BelievedInv
  BY InitTyped, BelievedInit
<1>2. TypeOK /\ BelievedInv /\ [Next]_vars => (TypeOK /\ BelievedInv)'
  BY TypeStep, BelievedStep
<1>3. TypeOK /\ BelievedInv => BelievedInEffect
  BY DEF BelievedInv
<1> QED
  BY <1>1, <1>2, <1>3, PTL DEF Spec
-----------------------------------------------------------------------------
(* What the engine set, and what it takes for old values.                  *)

(* The engine has just set the file, or has yet to come to it in a restore. *)
Busy(i) ==
  \/ pc = "verify" /\ index = i
  \/ pc = "journal" /\ index = i /\ transaction[i].applied
     /\ files[ActionFile[i]] = ActionValue[i]
  \/ Backward /\ i <= index /\ transaction[i].applied

(* Why the engine will not lose what it set in a file: it believes it to be *)
(* in effect, or is busy with an action that set it.                       *)
Claimed(f) ==
  author[f] = "agent" =>
    \/ <<f, files[f]>> \in effective /\ Readback[files[f]] = files[f]
    \/ \E i \in Actions : /\ ActionFile[i] = f /\ Busy(i)
                          /\ files[f] = Readback[ActionValue[i]]

(* An old value that is the engine's own: it is believed to be in effect,  *)
(* and no action at or after i, of those in J, is the one that set it.     *)
Sound(i, old, J) ==
  /\ <<ActionFile[i], old>> \in effective /\ Readback[old] = old
  /\ \A j \in J : j >= i /\ ActionFile[j] = ActionFile[i] => ActionValue[j] # old

Taken(i)  == transaction[i].applied \/ (pc \in {"write", "verify"} /\ index = i)
TakenSet  == {j \in Actions : Taken(j)}
ActiveSet == {j \in Actions : active[j].applied}

(* Entries of the transaction whose old value is still of use.             *)
Live(i) == Taken(i) /\ (Forward \/ (Backward /\ i <= index))
(* active_actions_ is not about to be replaced.                            *)
Resting ==
  \/ pc \in {"watch", "stopped"}
  \/ Forward /\ pc # "verify" /\ \A i \in Actions : ~transaction[i].applied

OldSound(i) ==
  Live(i) /\ transaction[i].by = "agent" => Sound(i, transaction[i].old, TakenSet)
RefusedForeign(i) ==
  (pc = "restored" \/ (Backward /\ i > index)) /\ transaction[i].applied
    => transaction[i].by # "agent"
ActiveSound(i) ==
  Resting /\ active[i].applied /\ active[i].by = "agent" => Sound(i, active[i].old, ActiveSet)

(* A device that still is as the engine set it is recognised in a restore. *)
Expected(i) ==
  /\ ActionFile[i] \in Netdevs /\ author[ActionFile[i]] = "agent"
  /\ files[ActionFile[i]] = ActionValue[i]
  => /\ transaction[i].applied => transaction[i].expect = ActionValue[i]
     /\ Resting /\ active[i].applied => active[i].expect = ActionValue[i]

Books(i) == OldSound(i) /\ RefusedForeign(i) /\ ActiveSound(i) /\ Expected(i)

(* A transaction that has changed something becomes the active one.        *)
SideEffect ==
  Forward => \A i \in Actions : i < index /\ transaction[i].applied => hasSideEffect
ActiveAtRest ==
  pc \in {"watch", "stopped"} =>
    \A i \in Actions : transaction[i].applied => active[i] = transaction[i]

(* The books speak of actions, and of all that the transaction applied.    *)
EffectiveKeys == \A k \in effective : \E i \in Actions : k = Key(i)
AppliedBelieved ==
  Forward => \A i \in Actions : i < index /\ transaction[i].applied => Key(i) \in effective

NotYetBelieved == pc \in {"write", "verify"} => Key(index) \notin effective

Shape == /\ AheadUntouched /\ AppliedAtHand /\ SideEffect /\ ActiveAtRest
         /\ EffectiveKeys /\ AppliedBelieved /\ NotYetBelieved

BooksInv ==
  /\ Shape
  /\ \A f \in Files \ lost : Claimed(f)
  /\ \A i \in Actions : ActionFile[i] \notin lost => Books(i)

(* The part of the invariant that a step has to restore.                   *)
FilesBooks == /\ \A f \in Files \ lost : Claimed(f)
              /\ \A i \in Actions : ActionFile[i] \notin lost => Books(i)

LEMMA BooksInit ==
  ASSUME Init
  PROVE  BooksInv
<1>1. Shape
  BY NoneApplied
     DEF Init, Shape, AheadUntouched, AppliedAtHand, SideEffect, ActiveAtRest, EffectiveKeys,
         AppliedBelieved, NotYetBelieved, Forward
<1>2. FilesBooks
  BY NoneApplied, ActionFacts
     DEF Init, FilesBooks, Claimed, Books, OldSound, RefusedForeign, ActiveSound, Expected,
         Live, Taken, Forward, Backward
<1> QED
  BY <1>1, <1>2 DEF BooksInv, FilesBooks

LEMMA ShapeForward ==
  ASSUME TypeOK, Shape, Converge \/ ReadOld \/ WriteValue \/ VerifyValue \/ JournalAction
  PROVE  AppliedAtHand' /\ SideEffect' /\ ActiveAtRest'
<1>1. index \in Actions /\ Forward /\ pc \notin {"watch", "stopped"}
  BY AtActionFacts
     DEF Converge, ReadOld, WriteValue, VerifyValue, JournalAction, AtAction, Forward
<1>2. \A i \in Actions : i # index => transaction'[i].applied = transaction[i].applied
  BY <1>1, EntryRead, EntryApplied
     DEF Converge, ReadOld, WriteValue, VerifyValue, JournalAction
<1>3. CASE FailTransaction
  BY <1>3 DEF FailTransaction, AppliedAtHand, SideEffect, ActiveAtRest, Forward
<1>4. CASE ~FailTransaction
  <2>1. /\ ActiveAtRest'
        /\ \/ /\ pc' = "apply" /\ index' = index + 1 /\ transaction' = transaction
              /\ hasSideEffect => hasSideEffect'
              /\ pc = "journal" /\ transaction[index].applied => hasSideEffect'
              /\ pc \in {"apply", "journal"}
           \/ /\ pc' \in {"write", "journal", "verify"}
              /\ index' = index /\ hasSideEffect' = hasSideEffect
    BY <1>4 DEF Converge, ReadOld, WriteValue, VerifyValue, JournalAction, NextAction,
       ActiveAtRest, AtAction
  <2>2. SideEffect'
    BY <1>1, <1>2, <2>1, TypeIndex DEF Shape, AheadUntouched, SideEffect, Forward
  <2>3. AppliedAtHand'
    <3> SUFFICES ASSUME pc' = "verify" /\ ~IsNetdev'
                 PROVE  transaction'[index'].applied
      BY <2>1 DEF AppliedAtHand
    <3>1. /\ index' = index
          /\ transaction' = [transaction EXCEPT ![index].applied = TRUE,
                                                ![index].expect = Value]
      BY <1>4 DEF Converge, ReadOld, WriteValue, VerifyValue, JournalAction, NextAction,
         IsNetdev, File
    <3> QED
      BY <1>1, <3>1, EntryApplied
  <2> QED
    BY <2>1, <2>2, <2>3
<1> QED
  BY <1>3, <1>4

LEMMA BeliefsShape ==
  ASSUME TypeOK, Shape, [Next]_vars
  PROVE  EffectiveKeys' /\ AppliedBelieved' /\ NotYetBelieved'
<1>1. \A k \in effective' : k \in effective \/ (k = Key(index) /\ JournalAction)
  BY DEF Next, Engine, BeginTransaction, Converge, ReadOld, WriteValue, VerifyValue, JournalAction,
     FinishTransaction, SkipRestore, CompareBeforeRestore, RestoreValue, FinishRestore, StopThread,
     EnvWrite, FailTransaction, memory, vars
<1>2. EffectiveKeys'
  <2> SUFFICES ASSUME NEW k \in effective'
               PROVE  \E i \in Actions : k = Key(i)
    BY DEF EffectiveKeys, Key
  <2>1. JournalAction => index \in Actions
    BY AtActionFacts DEF JournalAction
  <2> QED
    BY <1>1, <2>1 DEF Shape, EffectiveKeys
<1>3. AppliedBelieved'
  <2>1. CASE UNCHANGED vars
    BY <2>1 DEF Shape, AppliedBelieved, Forward, Key, vars, memory
  <2>2. CASE ~Forward'
    BY <2>2 DEF AppliedBelieved
  <2>3. CASE \E r \in Requests : BeginTransaction(r)
    BY <2>3, NoneApplied DEF BeginTransaction, AppliedBelieved
  <2>4. CASE Converge \/ ReadOld \/ WriteValue \/ VerifyValue \/ JournalAction
    <3> SUFFICES ASSUME Forward', NEW i \in Actions, i < index', transaction'[i].applied
                 PROVE  Key(i) \in effective'
      BY DEF AppliedBelieved, Key
    <3>1. index \in Actions /\ Forward /\ ~FailTransaction
      BY <2>4, AtActionFacts
         DEF Converge, ReadOld, WriteValue, VerifyValue, JournalAction, AtAction, Forward,
             FailTransaction
    <3>2. /\ i # index => transaction'[i].applied = transaction[i].applied
          /\ effective \subseteq effective'
      BY <2>4, <3>1, EntryRead, EntryApplied
         DEF Converge, ReadOld, WriteValue, VerifyValue, JournalAction, memory
    <3>3. CASE i < index
      <4>1. i # index
        BY <3>1, <3>3, TypeIndex
      <4> QED
        BY <4>1, <3>1, <3>2, <3>3 DEF Shape, AppliedBelieved
    <3>4. CASE ~(i < index)
      <4>1. index' = index + 1 /\ i = index /\ (Converge \/ JournalAction)
        BY <2>4, <3>1, <3>4, TypeIndex
           DEF Converge, ReadOld, WriteValue, VerifyValue, JournalAction, NextAction
      <4>2. CASE Converge
        BY <4>1, <4>2 DEF Converge, Key, memory
      <4>3. CASE JournalAction
        BY <3>1, <4>1, <4>3 DEF JournalAction, Key
      <4> QED
        BY <4>1, <4>2, <4>3
    <3> QED
      BY <3>3, <3>4
  <2>5. CASE \E f \in Files : \E v \in EnvValues[f] : EnvWrite(f, v)
    BY <2>5 DEF EnvWrite, Shape, AppliedBelieved, Forward, Key, memory
  <2>6. CASE FinishTransaction \/ SkipRestore \/ CompareBeforeRestore \/ RestoreValue
             \/ FinishRestore \/ StopThread
    <3>1. ~Forward'
      BY <2>6 DEF FinishTransaction, SkipRestore, CompareBeforeRestore, RestoreValue,
         FinishRestore, StopThread, RestoreNext, Forward
    <3> QED
      BY <3>1, <2>2
  <2> QED
    BY <2>1, <2>3, <2>4, <2>5, <2>6 DEF Next, Engine
<1>4. NotYetBelieved'
  <2> SUFFICES ASSUME pc' \in {"write", "verify"}
               PROVE  Key(index)' \notin effective'
    BY DEF NotYetBelieved
  <2>1. CASE ReadOld \/ WriteValue
    BY <2>1 DEF ReadOld, WriteValue, FailTransaction, Shape, NotYetBelieved, Key, memory
  <2>2. CASE UNCHANGED vars \/ \E f \in Files : \E v \in EnvValues[f] : EnvWrite(f, v)
    BY <2>2 DEF EnvWrite, Shape, NotYetBelieved, Key, vars, memory
  <2>3. CASE ~(ReadOld \/ WriteValue \/ UNCHANGED vars
               \/ \E f \in Files : \E v \in EnvValues[f] : EnvWrite(f, v))
    BY <2>3 DEF Next, Engine, BeginTransaction, Converge, VerifyValue, JournalAction, NextAction,
       FailTransaction, FinishTransaction, SkipRestore, CompareBeforeRestore, RestoreValue,
       RestoreNext, FinishRestore, StopThread
  <2> QED
    BY <2>1, <2>2, <2>3
<1> QED
  BY <1>2, <1>3, <1>4

LEMMA ShapeStep ==
  ASSUME TypeOK, Shape, [Next]_vars
  PROVE  Shape'
<1>1. AheadUntouched'
  BY AheadStep DEF Shape
<1>2. AppliedAtHand' /\ SideEffect' /\ ActiveAtRest'
  <2>1. CASE UNCHANGED vars
    BY <2>1 DEF Shape, AppliedAtHand, SideEffect, ActiveAtRest, Forward, IsNetdev, File,
       vars, memory
  <2>2. CASE \E r \in Requests : BeginTransaction(r)
    BY <2>2, NoneApplied
       DEF BeginTransaction, AppliedAtHand, SideEffect, ActiveAtRest
  <2>3. CASE FinishTransaction
    <3>1. /\ pc' = "watch" /\ transaction' = transaction
          /\ pc = "apply" /\ index > NumActions
          /\ active' = IF hasSideEffect THEN transaction ELSE active
      BY <2>3 DEF FinishTransaction
    <3>2. \A i \in Actions : transaction[i].applied => hasSideEffect
      BY <3>1, TypeIndex DEF Shape, SideEffect, Forward, Actions
    <3> QED
      BY <3>1, <3>2 DEF AppliedAtHand, SideEffect, ActiveAtRest, Forward
  <2>4. CASE FinishRestore \/ StopThread
    BY <2>4 DEF FinishRestore, StopThread, AppliedAtHand, SideEffect, ActiveAtRest, Forward
  <2>5. CASE SkipRestore \/ CompareBeforeRestore \/ RestoreValue
    BY <2>5 DEF SkipRestore, CompareBeforeRestore, RestoreValue, RestoreNext, AppliedAtHand,
       SideEffect, ActiveAtRest, Forward
  <2>6. CASE \E f \in Files : \E v \in EnvValues[f] : EnvWrite(f, v)
    BY <2>6 DEF EnvWrite, Shape, AppliedAtHand, SideEffect, ActiveAtRest, Forward,
       IsNetdev, File, memory
  <2> QED
    BY <2>1, <2>2, <2>3, <2>4, <2>5, <2>6, ShapeForward DEF Next, Engine
<1> QED
  BY <1>1, <1>2, BeliefsShape DEF Shape

(* What is sound stays sound when more is believed and less is taken.      *)
LEMMA StillSound ==
  ASSUME NEW i, NEW old, NEW J, Sound(i, old, J), effective \subseteq effective', NEW K, K \subseteq J
  PROVE  Sound(i, old, K)'
BY DEF Sound

LEMMA ClaimedBelieved ==
  ASSUME NEW f, Claimed(f), author[f] = "agent", pc \notin {"verify", "journal", "restore", "overwrite"}
  PROVE  <<f, files[f]>> \in effective /\ Readback[files[f]] = files[f]
BY DEF Claimed, Busy, Backward

LEMMA StillClaimed ==
  ASSUME NEW f, Claimed(f), pc \notin {"verify", "journal", "restore", "overwrite"},
         files'[f] = files[f], author'[f] = author[f], effective \subseteq effective'
  PROVE  Claimed(f)'
BY ClaimedBelieved DEF Claimed

(* A step within the transaction that sets nothing.                        *)
LEMMA BooksConverge ==
  ASSUME TypeOK, BooksInv, Converge
  PROVE  FilesBooks'
<1>1. /\ UNCHANGED <<contents, transaction, effective, active>>
      /\ pc = "apply" /\ pc' = "apply"
  BY DEF Converge, NextAction, AtAction, contents, memory
<1>2. \A f \in Files \ lost' : Claimed(f)'
  BY <1>1, StillClaimed DEF BooksInv, contents
<1>3. ASSUME NEW i \in Actions, ActionFile[i] \notin lost'
      PROVE  Books(i)'
  <2>1. Books(i)
    BY <1>1, <1>3 DEF BooksInv, contents
  <2>2. TakenSet' = TakenSet /\ ActiveSet' = ActiveSet /\ (Resting' <=> Resting)
        /\ (Live(i)' <=> Live(i))
    BY <1>1 DEF TakenSet, Taken, ActiveSet, Resting, Live, Forward, Backward
  <2>3. OldSound(i)' /\ ActiveSound(i)'
    BY <1>1, <2>1, <2>2 DEF Books, OldSound, ActiveSound, Sound
  <2>4. RefusedForeign(i)' /\ Expected(i)'
    BY <1>1, <2>1, <2>2 DEF Books, RefusedForeign, Expected, contents, Backward
  <2> QED
    BY <2>3, <2>4 DEF Books
<1> QED
  BY <1>2, <1>3 DEF FilesBooks

(* The undo begins: what was taken and applied still is.                   *)
LEMMA BooksFail ==
  ASSUME TypeOK, BooksInv, FailTransaction, pc \in {"apply", "write", "journal"},
         UNCHANGED <<contents, transaction>>
  PROVE  FilesBooks'
<1>1. /\ pc' = "restore" /\ index' = NumActions
      /\ UNCHANGED <<files, author, lost, transaction, effective, active>>
      /\ Forward
  BY DEF FailTransaction, contents, memory, Forward
<1>2. ASSUME NEW f \in Files \ lost'
      PROVE  Claimed(f)'
  <2>1. Claimed(f)
    BY <1>1 DEF BooksInv
  <2>2. ASSUME NEW i \in Actions, Busy(i)
        PROVE  Busy(i)'
    BY <1>1, <2>2 DEF Busy, Backward, Actions
  <2> QED
    BY <1>1, <2>1, <2>2 DEF Claimed
<1>3. ASSUME NEW i \in Actions, ActionFile[i] \notin lost'
      PROVE  Books(i)'
  <2>1. Books(i)
    BY <1>1, <1>3 DEF BooksInv
  <2>2. TakenSet' \subseteq TakenSet /\ ~Resting' /\ (Live(i)' => Live(i))
    BY <1>1 DEF TakenSet, Taken, Resting, Live, Forward, Backward
  <2>3. OldSound(i)' /\ ActiveSound(i)'
    BY <1>1, <2>1, <2>2, StillSound DEF Books, OldSound, ActiveSound
  <2>4. RefusedForeign(i)'
    <3>1. ~(i > index') /\ pc' # "restored"
      BY <1>1, TypeIndex DEF Actions
    <3> QED
      BY <3>1 DEF RefusedForeign
  <2>5. Expected(i)'
    BY <1>1, <2>1, <2>2 DEF Books, Expected
  <2> QED
    BY <2>3, <2>4, <2>5 DEF Books
<1> QED
  BY <1>2, <1>3 DEF FilesBooks

(* The old value is read: if it is the engine's own, it is believed to be  *)
(* in effect, and the value that is about to be set is not.                *)
LEMMA BooksRead ==
  ASSUME TypeOK, BooksInv, ReadOld
  PROVE  FilesBooks'
<1> DEFINE Noted == transaction' = [transaction EXCEPT ![index].old = files[File],
                                                    ![index].by = author[File]]
<1>1. CASE FailTransaction /\ UNCHANGED transaction
  BY <1>1, BooksFail DEF ReadOld, AtAction
<1>2. CASE Noted
  <2>1. /\ pc = "apply" /\ index \in Actions /\ Key(index) \notin effective
        /\ pc' \in {"journal", "write", "restore"}
        /\ IF pc' = "restore" THEN index' = NumActions ELSE index' = index
        /\ UNCHANGED <<files, author, lost, effective, active>>
    BY <1>2, AtActionFacts DEF ReadOld, FailTransaction, contents, memory, AtAction
  <2>2. /\ \A i \in Actions : /\ transaction'[i].applied = transaction[i].applied
                              /\ transaction'[i].expect = transaction[i].expect
                              /\ i # index => transaction'[i] = transaction[i]
        /\ transaction'[index].old = files[File]
        /\ transaction'[index].by = author[File]
    BY <1>2, <2>1, EntryRead
  <2> HIDE DEF Noted
  <2>3. \A f \in Files \ lost' : Claimed(f)'
    BY <2>1, StillClaimed DEF BooksInv
  <2>4. \A j \in Actions : j >= index => ~transaction[j].applied
    BY <2>1, TypeIndex DEF BooksInv, Shape, AheadUntouched, Forward
  <2>5. \A j \in TakenSet' : j = index \/ j \in TakenSet
    BY <2>1, <2>2 DEF TakenSet, Taken
  <2>6. ASSUME NEW i \in Actions, ActionFile[i] \notin lost'
        PROVE  Books(i)'
    <3>1. Books(i)
      BY <2>1, <2>6 DEF BooksInv
    <3>2. ASSUME Live(i)', transaction'[i].by = "agent", i # index
          PROVE  Sound(i, transaction[i].old, TakenSet)'
      <4>1. transaction'[i] = transaction[i] /\ Live(i)
        BY <2>1, <2>2, <3>2 DEF Live, Taken, Forward
      <4>2. Sound(i, transaction[i].old, TakenSet)
        BY <3>1, <3>2, <4>1 DEF Books, OldSound
      <4>3. ActionFile[index] = ActionFile[i] => ActionValue[index] # transaction[i].old
        BY <2>1, <4>2 DEF Sound, Key
      <4> QED
        BY <2>1, <2>5, <4>1, <4>2, <4>3 DEF Sound
    <3>3. ASSUME Live(i)', transaction'[i].by = "agent", i = index
          PROVE  Sound(i, transaction[i].old, TakenSet)'
      <4>1. /\ <<ActionFile[index], files[ActionFile[index]]>> \in effective
            /\ Readback[files[ActionFile[index]]] = files[ActionFile[index]]
        BY <2>1, <2>2, <2>6, <3>3, ActionFacts, ClaimedBelieved DEF BooksInv, File
      <4>2. ActionValue[index] # files[ActionFile[index]]
        BY <2>1, <4>1 DEF Key
      <4>3. \A j \in TakenSet : ~(j >= index)
        BY <2>1, <2>4 DEF TakenSet, Taken
      <4> QED
        BY <2>1, <2>2, <2>5, <3>3, <4>1, <4>2, <4>3 DEF Sound, File
    <3>4. OldSound(i)'
      BY <3>2, <3>3 DEF OldSound
    <3>5. RefusedForeign(i)'
      <4>1. ~(Backward' /\ i > index') /\ pc' # "restored"
        BY <2>1, TypeIndex DEF Actions, Backward
      <4> QED
        BY <4>1 DEF RefusedForeign
    <3>6. Resting' => Resting
      BY <2>1, <2>2 DEF Resting, Forward
    <3>7. ActiveSound(i)' /\ Expected(i)'
      BY <2>1, <2>2, <3>1, <3>6 DEF Books, ActiveSound, ActiveSet, Sound, Expected
    <3> QED
      BY <3>4, <3>5, <3>7 DEF Books
  <2> QED
    BY <2>3, <2>6 DEF FilesBooks
<1> QED
  BY <1>1, <1>2 DEF ReadOld

(* The write: what is set is about to be verified; a device that is set    *)
(* again to what an earlier action had set would be believed to be so.     *)
LEMMA BooksWrite ==
  ASSUME TypeOK, BooksInv, WriteValue
  PROVE  FilesBooks'
<1>1. CASE FailTransaction /\ UNCHANGED <<files, author, transaction>>
  BY <1>1, BooksFail DEF WriteValue, contents
<1>2. CASE pc' = "verify"
  <2>1. /\ pc = "write" /\ index \in Actions /\ index' = index
        /\ UNCHANGED <<lost, effective, active>>
    BY <1>2 DEF WriteValue, FailTransaction, memory, TypeOK
  <2>2. \/ /\ files' = [files EXCEPT ![File] = Readback[Value]]
           /\ author' = [author EXCEPT ![File] = "agent"]
        \/ UNCHANGED <<files, author>> /\ ~IsNetdev
    BY <1>2 DEF WriteValue, FailTransaction
  <2>3. /\ \A i \in Actions : /\ transaction'[i].old = transaction[i].old
                              /\ transaction'[i].by = transaction[i].by
                              /\ i # index => transaction'[i] = transaction[i]
        /\ IsNetdev => transaction' = transaction
    BY <1>2, <2>1, EntryApplied DEF WriteValue, FailTransaction
  <2>4. \A f \in Files : f # File => files'[f] = files[f] /\ author'[f] = author[f]
    BY <2>2 DEF TypeOK
  <2>5. ASSUME NEW f \in Files \ lost'
        PROVE  Claimed(f)'
    <3>1. Claimed(f)
      BY <2>1 DEF BooksInv
    <3>2. CASE UNCHANGED <<files, author>> \/ f # File
      BY <2>1, <2>4, <3>1, <3>2, StillClaimed
    <3>3. CASE f = File /\ ~UNCHANGED <<files, author>>
      <4>1. files'[f] = Readback[ActionValue[index]] /\ ActionFile[index] = f
        BY <2>1, <2>2, <3>3, ActionFacts DEF TypeOK, File, Value
      <4>2. Busy(index)'
        BY <1>2, <2>1 DEF Busy
      <4> QED
        BY <2>1, <4>1, <4>2 DEF Claimed
    <3> QED
      BY <3>2, <3>3
  <2>6. ASSUME NEW i \in Actions, ActionFile[i] \notin lost'
        PROVE  Books(i)'
    <3>1. Books(i)
      BY <2>1, <2>6 DEF BooksInv
    <3>2. /\ Taken(i)' => Taken(i)
          /\ Forward /\ Forward' /\ ~Resting' /\ ~Backward' /\ pc' # "restored"
      BY <1>2, <2>1, <2>3 DEF Taken, Forward, Backward, Resting
    <3>3. \A j \in TakenSet' : j \in TakenSet
      BY <1>2, <2>1, <2>3 DEF TakenSet, Taken
    <3>4. OldSound(i)'
      BY <2>1, <2>3, <3>1, <3>2, <3>3 DEF Books, OldSound, Live, Sound
    <3>5. RefusedForeign(i)' /\ ActiveSound(i)'
      BY <3>2 DEF RefusedForeign, ActiveSound
    <3>6. ASSUME ActionFile[i] \in Netdevs, author'[ActionFile[i]] = "agent",
                 files'[ActionFile[i]] = ActionValue[i], transaction'[i].applied
          PROVE  transaction'[i].expect = ActionValue[i]
      <4>1. CASE ActionFile[i] # File
        <5>1. i # index /\ ActionFile[i] \in Files
          BY <4>1, ActionFacts DEF File
        <5> QED
          BY <2>3, <2>4, <3>1, <3>6, <4>1, <5>1 DEF Books, Expected
      <4>2. CASE ActionFile[i] = File
        <5>1. IsNetdev /\ transaction' = transaction
          BY <2>3, <3>6, <4>2 DEF IsNetdev
        <5>2. i < index
          BY <2>1, <3>6, <5>1, TypeIndex DEF BooksInv, Shape, AheadUntouched, Forward
        <5>3. Key(i) \in effective
          BY <2>1, <3>6, <5>1, <5>2 DEF BooksInv, Shape, AppliedBelieved, Forward
        <5>4. files'[File] = Value
          BY <2>1, <2>2, <5>1, ActionFacts, ActionsAssumption
             DEF TypeOK, IsNetdev, File, Value
        <5>5. Key(i) = Key(index)
          BY <3>6, <4>2, <5>4 DEF Key, File, Value
        <5> QED
          BY <2>1, <5>3, <5>5 DEF BooksInv, Shape, NotYetBelieved
      <4> QED
        BY <4>1, <4>2
    <3>7. Expected(i)'
      BY <3>2, <3>6 DEF Expected
    <3> QED
      BY <3>4, <3>5, <3>7 DEF Books
  <2> QED
    BY <2>5, <2>6 DEF FilesBooks
<1> QED
  BY <1>1, <1>2 DEF WriteValue

(* The look after it: what is not as it was set stays with the action, as  *)
(* long as the device could be shown.                                      *)
LEMMA BooksVerify ==
  ASSUME TypeOK, BooksInv, VerifyValue
  PROVE  FilesBooks'
<1>1. PICK shown \in {files[File]} \cup (IF May("open") THEN {Empty} ELSE {}) :
       /\ transaction' = IF IsNetdev
                         THEN [transaction EXCEPT ![index].applied = TRUE,
                                                  ![index].expect = shown]
                         ELSE transaction
       /\ IF IsNetdev /\ shown # files[File] THEN GiveUp ELSE UNCHANGED lost
       /\ \/ /\ Verified(shown)
             /\ pc' = "journal"
             /\ UNCHANGED <<index, hasSideEffect, request, memory>>
          \/ /\ ~Verified(shown)
             /\ FailTransaction
  BY DEF VerifyValue
<1>2. /\ pc = "verify" /\ index \in Actions
      /\ UNCHANGED <<files, author, effective, active>>
      /\ \/ pc' = "journal" /\ index' = index /\ Verified(shown)
         \/ pc' = "restore" /\ index' = NumActions
      /\ lost \subseteq lost'
  BY <1>1 DEF VerifyValue, FailTransaction, memory, TypeOK, GiveUp
<1>3. /\ \A i \in Actions : /\ transaction'[i].old = transaction[i].old
                            /\ transaction'[i].by = transaction[i].by
                            /\ i # index => transaction'[i] = transaction[i]
      /\ transaction'[index].applied
      /\ IsNetdev => transaction'[index].expect = shown
  <2>1. CASE IsNetdev
    BY <1>1, <1>2, <2>1, EntryApplied
  <2>2. CASE ~IsNetdev
    BY <1>1, <1>2, <2>2 DEF BooksInv, Shape, AppliedAtHand
  <2> QED
    BY <2>1, <2>2
<1>4. IsNetdev /\ File \notin lost' => shown = files[File]
  BY <1>1 DEF GiveUp
<1>5. ~IsNetdev /\ Verified(shown) => files[File] = Value
  BY <1>1, <1>2, ActionsAssumption DEF Verified, Value
<1>6. ASSUME NEW f \in Files \ lost'
      PROVE  Claimed(f)'
  <2>1. Claimed(f)
    BY <1>2 DEF BooksInv
  <2>2. ASSUME NEW i \in Actions, ActionFile[i] = f, Busy(i), files[f] = Readback[ActionValue[i]]
        PROVE  Busy(i)'
    <3>1. i = index /\ f = File
      BY <1>2, <2>2 DEF Busy, Backward, File
    <3>2. CASE pc' = "restore"
      BY <1>2, <1>3, <2>2, <3>1, <3>2, TypeIndex DEF Busy, Backward, Actions
    <3>3. CASE pc' = "journal"
      <4>1. files[f] = ActionValue[index]
        BY <1>2, <1>5, <2>2, <3>1, <3>3, ActionsAssumption DEF IsNetdev, File, Value
      <4> QED
        BY <1>2, <1>3, <2>2, <3>1, <3>3, <4>1 DEF Busy
    <3> QED
      BY <1>2, <3>2, <3>3
  <2> QED
    BY <1>2, <2>1, <2>2 DEF Claimed
<1>7. ASSUME NEW i \in Actions, ActionFile[i] \notin lost'
      PROVE  Books(i)'
  <2>1. Books(i)
    BY <1>2, <1>7 DEF BooksInv
  <2>2. ~Resting'
    BY <1>2, <1>3 DEF Resting, Forward
  <2>3. (Live(i)' => Live(i)) /\ \A j \in TakenSet' : j \in TakenSet
    BY <1>2, <1>3 DEF Live, TakenSet, Taken, Forward
  <2>4. OldSound(i)'
    BY <1>2, <1>3, <2>1, <2>3 DEF Books, OldSound, Sound
  <2>5. RefusedForeign(i)'
    <3>1. ~(Backward' /\ i > index') /\ pc' # "restored"
      BY <1>2, TypeIndex DEF Actions, Backward
    <3> QED
      BY <3>1 DEF RefusedForeign
  <2>6. Expected(i)'
    <3>1. CASE i = index
      BY <1>2, <1>3, <1>4, <1>7, <2>2, <3>1 DEF Expected, IsNetdev, File
    <3>2. CASE i # index
      BY <1>2, <1>3, <2>1, <2>2, <3>2 DEF Books, Expected
    <3> QED
      BY <3>1, <3>2
  <2> QED
    BY <2>2, <2>4, <2>5, <2>6 DEF Books, ActiveSound
<1> QED
  BY <1>6, <1>7 DEF FilesBooks

(* An action that was set is in effect.                                    *)
LEMMA BooksJournal ==
  ASSUME TypeOK, BooksInv, JournalAction
  PROVE  FilesBooks'
<1>1. CASE FailTransaction
  BY <1>1, BooksFail DEF JournalAction
<1>2. CASE NextAction
  <2>1. /\ pc = "journal" /\ pc' = "apply" /\ index \in Actions
        /\ UNCHANGED <<files, author, lost, transaction, active>>
        /\ effective \subseteq effective'
        /\ transaction[index].applied => Key(index) \in effective'
    BY <1>2 DEF JournalAction, NextAction, FailTransaction, contents, memory, TypeOK
  <2>2. ASSUME NEW f \in Files \ lost'
        PROVE  Claimed(f)'
    <3>1. Claimed(f)
      BY <2>1 DEF BooksInv
    <3>2. ASSUME NEW i \in Actions, ActionFile[i] = f, Busy(i),
                 files[f] = Readback[ActionValue[i]]
          PROVE  <<f, files[f]>> \in effective' /\ Readback[files[f]] = files[f]
      <4>1. i = index /\ transaction[index].applied /\ files[f] = ActionValue[index]
        BY <2>1, <3>2 DEF Busy, Backward
      <4> QED
        BY <2>1, <3>2, <4>1 DEF Key
    <3> QED
      BY <2>1, <3>1, <3>2 DEF Claimed
  <2>3. ASSUME NEW i \in Actions, ActionFile[i] \notin lost'
        PROVE  Books(i)'
    <3>1. Books(i)
      BY <2>1, <2>3 DEF BooksInv
    <3>2. TakenSet' = TakenSet /\ ActiveSet' = ActiveSet /\ (Resting' <=> Resting)
          /\ (Live(i)' <=> Live(i))
      BY <2>1 DEF TakenSet, Taken, ActiveSet, Resting, Live, Forward, Backward
    <3>3. OldSound(i)' /\ ActiveSound(i)'
      BY <2>1, <3>1, <3>2 DEF Books, OldSound, ActiveSound, Sound
    <3>4. RefusedForeign(i)' /\ Expected(i)'
      BY <2>1, <3>1, <3>2 DEF Books, RefusedForeign, Expected, Backward
    <3> QED
      BY <3>3, <3>4 DEF Books
  <2> QED
    BY <2>2, <2>3 DEF FilesBooks
<1> QED
  BY <1>1, <1>2 DEF JournalAction

LEMMA BooksBegin ==
  ASSUME TypeOK, BooksInv, NEW r \in Requests, BeginTransaction(r)
  PROVE  FilesBooks'
<1>1. /\ pc = "watch" /\ pc' = "apply" /\ Resting /\ transaction' = Untouched
      /\ UNCHANGED <<files, author, lost, effective, active>>
  BY DEF BeginTransaction, memory, Resting
<1>2. \A f \in Files \ lost' : Claimed(f)'
  BY <1>1, StillClaimed DEF BooksInv
<1>3. ASSUME NEW i \in Actions, ActionFile[i] \notin lost'
      PROVE  Books(i)'
  <2>1. Books(i)
    BY <1>1, <1>3 DEF BooksInv
  <2>2. ~Live(i)' /\ ~transaction'[i].applied /\ ActiveSet' = ActiveSet
    BY <1>1, NoneApplied DEF Live, Taken, ActiveSet
  <2>3. ActiveSound(i)'
    BY <1>1, <2>1, <2>2 DEF Books, ActiveSound, Sound
  <2> QED
    BY <1>1, <2>1, <2>2, <2>3 DEF Books, OldSound, RefusedForeign, Expected
<1> QED
  BY <1>2, <1>3 DEF FilesBooks

(* What the transaction applied is what a later restore works on.          *)
LEMMA BooksFinish ==
  ASSUME TypeOK, BooksInv, FinishTransaction
  PROVE  FilesBooks'
<1>1. /\ pc = "apply" /\ pc' = "watch" /\ index > NumActions
      /\ active' = IF hasSideEffect THEN transaction ELSE active
      /\ UNCHANGED <<files, author, lost, effective, transaction>>
  BY DEF FinishTransaction, contents
<1>2. \A f \in Files \ lost' : Claimed(f)'
  BY <1>1, StillClaimed DEF BooksInv
<1>3. hasSideEffect \/ Resting
  <2>1. \A i \in Actions : i < index
    BY <1>1, TypeIndex DEF Actions
  <2> QED
    BY <1>1, <2>1 DEF BooksInv, Shape, SideEffect, Resting, Forward
<1>4. ASSUME NEW i \in Actions, ActionFile[i] \notin lost'
      PROVE  Books(i)'
  <2>1. Books(i)
    BY <1>1, <1>4 DEF BooksInv
  <2>2. ActiveSound(i)'
    <3>1. CASE hasSideEffect
      <4>1. active' = transaction /\ ActiveSet' = TakenSet
        BY <1>1, <3>1 DEF ActiveSet, TakenSet, Taken
      <4>2. transaction[i].applied => Live(i)
        BY <1>1 DEF Live, Taken, Forward
      <4> QED
        BY <1>1, <2>1, <4>1, <4>2 DEF Books, OldSound, ActiveSound, Sound
    <3>2. CASE ~hasSideEffect
      <4>1. active' = active /\ ActiveSet' = ActiveSet /\ Resting
        BY <1>1, <1>3, <3>2 DEF ActiveSet
      <4> QED
        BY <1>1, <2>1, <4>1 DEF Books, ActiveSound, Sound
    <3> QED
      BY <3>1, <3>2
  <2>3. Expected(i)'
    BY <1>1, <1>3, <2>1 DEF Books, Expected
  <2>4. OldSound(i)' /\ RefusedForeign(i)'
    BY <1>1 DEF OldSound, RefusedForeign, Live, Forward, Backward
  <2> QED
    BY <2>2, <2>3, <2>4 DEF Books
<1> QED
  BY <1>2, <1>4 DEF FilesBooks

(* What a refused restore leaves behind is recognised as the engine's own, *)
(* so that it was refused for others' sake or the file is given up.        *)
LEMMA BooksSkip ==
  ASSUME TypeOK, BooksInv, SkipRestore
  PROVE  FilesBooks'
<1>1. /\ pc = "restore" /\ index \in Actions
      /\ UNCHANGED <<files, author, effective, active, transaction>>
      /\ lost \subseteq lost'
      /\ \/ index = 1 /\ pc' = "restored" /\ index' = index
         \/ index # 1 /\ pc' = "restore" /\ index' = index - 1
      /\ Backward /\ pc' # "overwrite"
  BY DEF SkipRestore, RestoreNext, memory, TypeOK, GiveUp, Backward
<1>2. transaction[index].applied /\ (Matches(index) \/ Shared(File) \/ Unrecognised(index))
        => File \in lost'
  BY DEF SkipRestore, GiveUp
<1>3. \A i \in Actions : i <= index /\ i # index => pc' = "restore" /\ i <= index'
  BY <1>1, TypeIndex DEF Actions
<1>4. ASSUME NEW f \in Files \ lost'
      PROVE  Claimed(f)'
  <2>1. Claimed(f)
    BY <1>1 DEF BooksInv
  <2>2. ASSUME NEW i \in Actions, ActionFile[i] = f, Busy(i), author[f] = "agent",
               files[f] = Readback[ActionValue[i]]
        PROVE  Busy(i)'
    <3>1. i <= index /\ transaction[i].applied
      BY <1>1, <2>2 DEF Busy
    <3>2. CASE i = index
      <4>1. ~Matches(index)
        BY <1>2, <2>2, <3>1, <3>2 DEF File
      <4>2. Expected(index)
        BY <1>1, <2>2, <3>2 DEF BooksInv, Books
      <4>3. Matches(index)
        <5>1. CASE f \in Netdevs
          <6>1. files[f] = ActionValue[index]
            BY <1>1, <2>2, <3>2, <5>1, ActionsAssumption
          <6>2. transaction[index].expect = ActionValue[index]
            BY <2>2, <3>1, <3>2, <4>2, <5>1, <6>1 DEF Expected
          <6>3. ActionValue[index] # Empty
            BY <1>1, ActionsAssumption
          <6> QED
            BY <2>2, <3>2, <5>1, <6>1, <6>2, <6>3 DEF Matches
        <5>2. CASE f \notin Netdevs
          BY <1>2, <2>2, <3>1, <3>2, <5>2 DEF Unrecognised, Matches, File
        <5> QED
          BY <5>1, <5>2
      <4> QED
        BY <4>1, <4>3
    <3>3. CASE i # index
      BY <1>1, <1>3, <3>1, <3>3 DEF Busy, Backward
    <3> QED
      BY <3>2, <3>3
  <2> QED
    BY <1>1, <2>1, <2>2 DEF Claimed
<1>5. ASSUME NEW i \in Actions, ActionFile[i] \notin lost'
      PROVE  Books(i)'
  <2>1. Books(i)
    BY <1>1, <1>5 DEF BooksInv
  <2>2. ~Resting' /\ TakenSet' = TakenSet
    BY <1>1 DEF Resting, Forward, TakenSet, Taken
  <2>3. OldSound(i)'
    <3>1. Live(i)' => Live(i)
      BY <1>1, TypeIndex DEF Live, Taken, Forward, Backward
    <3> QED
      BY <1>1, <2>1, <2>2, <3>1 DEF Books, OldSound, Sound
  <2>4. RefusedForeign(i)'
    <3> SUFFICES ASSUME pc' = "restored" \/ (Backward' /\ i > index'), transaction[i].applied,
                        transaction[i].by = "agent"
                 PROVE  FALSE
      BY <1>1 DEF RefusedForeign
    <3>1. ~(i <= index /\ i # index)
      BY <1>1, <1>3, TypeIndex
    <3>2. CASE i = index
      <4>1. Live(i)
        BY <1>1, <3>2, TypeIndex DEF Live, Taken
      <4>2. Sound(i, transaction[i].old, TakenSet) /\ i \in TakenSet
        BY <2>1, <4>1 DEF Books, OldSound, Live, TakenSet
      <4>3. PICK j \in Actions : <<ActionFile[i], transaction[i].old>> = Key(j)
        BY <4>2 DEF Sound, BooksInv, Shape, EffectiveKeys
      <4>4. ActionValue[i] # transaction[i].old
        BY <4>2, TypeIndex DEF Sound
      <4>5. j # i /\ ActionFile[j] = ActionFile[i]
        BY <4>3, <4>4 DEF Key
      <4>6. Shared(File)
        BY <3>2, <4>5 DEF Shared, File
      <4> QED
        BY <1>2, <1>5, <3>2, <4>6 DEF File
    <3>3. CASE i # index
      <4>1. i > index
        BY <3>1, <3>3, TypeIndex
      <4> QED
        BY <1>1, <2>1, <4>1 DEF Books, RefusedForeign
    <3> QED
      BY <3>2, <3>3
  <2>5. Expected(i)'
    BY <1>1, <2>1, <2>2 DEF Books, Expected
  <2> QED
    BY <2>2, <2>3, <2>4, <2>5 DEF Books, ActiveSound
<1> QED
  BY <1>4, <1>5 DEF FilesBooks

LEMMA BooksCompare ==
  ASSUME TypeOK, BooksInv, CompareBeforeRestore
  PROVE  FilesBooks'
<1>1. /\ pc = "restore" /\ pc' = "overwrite"
      /\ UNCHANGED <<files, author, lost, effective, active, transaction, index>>
  BY DEF CompareBeforeRestore, contents, memory
<1>2. /\ \A i : Busy(i)' <=> Busy(i)
      /\ TakenSet' = TakenSet /\ ~Resting' /\ \A i : Live(i)' <=> Live(i)
      /\ Backward /\ Backward'
  BY <1>1 DEF Busy, TakenSet, Taken, Resting, Live, Forward, Backward
<1>3. \A f \in Files \ lost' : Claimed(f)'
  BY <1>1, <1>2 DEF BooksInv, Claimed
<1>4. ASSUME NEW i \in Actions, ActionFile[i] \notin lost'
      PROVE  Books(i)'
  <2>1. Books(i)
    BY <1>1, <1>4 DEF BooksInv
  <2> QED
    BY <1>1, <1>2, <2>1
       DEF Books, OldSound, Sound, RefusedForeign, ActiveSound, Expected
<1> QED
  BY <1>3, <1>4 DEF FilesBooks

(* The restore of an old value that is the engine's own ends at what is    *)
(* believed to be in effect.                                               *)
LEMMA BooksRestore ==
  ASSUME TypeOK, BooksInv, RestoreValue
  PROVE  FilesBooks'
<1>1. /\ pc = "overwrite" /\ index \in Actions /\ Backward
      /\ UNCHANGED active
      /\ \/ index = 1 /\ pc' = "restored" /\ index' = index
         \/ index # 1 /\ pc' = "restore" /\ index' = index - 1
      /\ lost \subseteq lost'
  BY DEF RestoreValue, RestoreNext, TypeOK, GiveUp, Backward
<1>2. \A i \in Actions : i <= index /\ i # index => pc' = "restore" /\ i <= index'
  BY <1>1, TypeIndex DEF Actions
<1>3. \A i \in Actions : pc' = "restored" \/ i > index' => i = index \/ i > index
  BY <1>1, <1>2, TypeIndex
<1>4. ~Resting' /\ Backward' = (pc' = "restore") /\ ~Forward'
  BY <1>1 DEF Resting, Forward, Backward
<1>5. transaction[index].applied /\ Live(index)
  BY <1>1, TypeIndex DEF BooksInv, Shape, AppliedAtHand, Live, Taken
<1>6. CASE GiveUp /\ UNCHANGED <<files, author, transaction, effective>>
  <2>1. ASSUME NEW f \in Files \ lost'
        PROVE  Claimed(f)'
    <3>1. Claimed(f) /\ f # File
      BY <1>1, <1>6 DEF BooksInv, GiveUp
    <3>2. ASSUME NEW i \in Actions, ActionFile[i] = f, Busy(i)
          PROVE  Busy(i)'
      BY <1>1, <1>2, <1>6, <3>1, <3>2 DEF Busy, Backward, File
    <3> QED
      BY <1>6, <3>1, <3>2 DEF Claimed
  <2>2. ASSUME NEW i \in Actions, ActionFile[i] \notin lost'
        PROVE  Books(i)'
    <3>1. Books(i) /\ i # index
      BY <1>1, <1>6, <2>2 DEF BooksInv, GiveUp, File
    <3>2. TakenSet' = TakenSet /\ (Live(i)' => Live(i))
      BY <1>1, <1>4, <1>6, TypeIndex DEF TakenSet, Taken, Live
    <3>3. OldSound(i)'
      BY <1>6, <3>1, <3>2 DEF Books, OldSound, Sound
    <3>4. RefusedForeign(i)'
      BY <1>1, <1>3, <1>6, <3>1 DEF Books, RefusedForeign
    <3>5. ActiveSound(i)' /\ Expected(i)'
      BY <1>4, <1>6, <3>1 DEF Books, ActiveSound, Expected
    <3> QED
      BY <3>3, <3>4, <3>5 DEF Books
  <2> QED
    BY <2>1, <2>2 DEF FilesBooks
<1>7. CASE /\ transaction' = [transaction EXCEPT ![index].applied = FALSE]
           /\ effective' = effective \ {Key(index)}
           /\ UNCHANGED lost
  <2>1. /\ \A i \in Actions : /\ transaction'[i].old = transaction[i].old
                              /\ transaction'[i].by = transaction[i].by
                              /\ transaction'[i].expect = transaction[i].expect
                              /\ i # index => transaction'[i] = transaction[i]
        /\ ~transaction'[index].applied
    BY <1>1, <1>7, EntryRestored
  <2>2. /\ \A f \in Files \ {File} : files'[f] = files[f] /\ author'[f] = author[f]
        /\ IsNetdev => author'[File] # "agent"
        /\ ~IsNetdev /\ author'[File] = "agent"
             => /\ transaction[index].by = "agent"
                /\ files'[File] = Readback[transaction[index].old]
    <3>1. File \in Files
      BY <1>1, ActionFacts DEF File
    <3>2. CASE /\ files' = [files EXCEPT ![File] = IF IsNetdev THEN Initial[File]
                                                   ELSE Readback[transaction[index].old]]
               /\ author' = [author EXCEPT ![File] = IF IsNetdev THEN "env"
                                                     ELSE transaction[index].by]
      BY <3>1, <3>2 DEF TypeOK
    <3>3. CASE /\ ~IsNetdev /\ UNCHANGED files
               /\ author' = [author EXCEPT ![File] = IF @ = "agent" THEN "orphan" ELSE @]
      BY <3>1, <3>3 DEF TypeOK
    <3> QED
      BY <1>5, <1>7, <2>1, <3>2, <3>3 DEF RestoreValue
  <2>3. ASSUME NEW f \in Files \ lost'
        PROVE  Claimed(f)'
    <3>1. Claimed(f)
      BY <1>7 DEF BooksInv
    <3>2. CASE f # File
      <4>1. <<f, files[f]>> # Key(index) /\ files'[f] = files[f] /\ author'[f] = author[f]
        BY <2>2, <3>2 DEF Key, File
      <4>2. ASSUME NEW i \in Actions, ActionFile[i] = f, Busy(i)
            PROVE  Busy(i)'
        <5>1. i # index /\ i <= index /\ transaction[i].applied
          BY <1>1, <3>2, <4>2 DEF Busy, File
        <5> QED
          BY <1>2, <2>1, <5>1 DEF Busy, Backward
      <4> QED
        BY <1>7, <3>1, <4>1, <4>2 DEF Claimed
    <3>3. CASE f = File
      <4> SUFFICES ASSUME author'[f] = "agent"
                   PROVE  /\ <<f, files'[f]>> \in effective'
                          /\ Readback[files'[f]] = files'[f]
        BY DEF Claimed
      <4>1. transaction[index].by = "agent" /\ files'[f] = Readback[transaction[index].old]
        BY <2>2, <3>3
      <4>2. Sound(index, transaction[index].old, TakenSet) /\ index \in TakenSet
        BY <1>1, <1>5, <1>7, <3>3, <4>1 DEF BooksInv, Books, OldSound, File, TakenSet, Taken
      <4>3. /\ <<f, transaction[index].old>> \in effective
            /\ Readback[transaction[index].old] = transaction[index].old
            /\ ActionValue[index] # transaction[index].old
        BY <3>3, <4>2, TypeIndex DEF Sound, File
      <4> QED
        BY <1>7, <4>1, <4>3 DEF Key
    <3> QED
      BY <3>2, <3>3
  <2>4. ASSUME NEW i \in Actions, ActionFile[i] \notin lost'
        PROVE  Books(i)'
    <3>1. Books(i)
      BY <1>7, <2>4 DEF BooksInv
    <3>2. OldSound(i)'
      <4> SUFFICES ASSUME Live(i)', transaction'[i].by = "agent"
                   PROVE  Sound(i, transaction[i].old, TakenSet)'
        BY DEF OldSound
      <4>1. i # index /\ i <= index /\ transaction[i].applied /\ Live(i)
        BY <1>1, <1>4, <2>1, TypeIndex DEF Live, Taken, Actions
      <4>2. Sound(i, transaction[i].old, TakenSet)
        BY <2>1, <3>1, <4>1 DEF Books, OldSound
      <4>3. <<ActionFile[i], transaction[i].old>> # Key(index)
        BY <1>1, <1>5, <4>1, <4>2, TypeIndex DEF Sound, Key, TakenSet, Taken
      <4>4. TakenSet' \subseteq TakenSet
        BY <1>1, <2>1 DEF TakenSet, Taken
      <4> QED
        BY <1>7, <2>1, <4>2, <4>3, <4>4 DEF Sound
    <3>3. RefusedForeign(i)'
      BY <1>1, <1>3, <2>1, <3>1 DEF Books, RefusedForeign
    <3>4. Expected(i)'
      <4> SUFFICES ASSUME ActionFile[i] \in Netdevs, author'[ActionFile[i]] = "agent",
                          files'[ActionFile[i]] = ActionValue[i], transaction'[i].applied
                   PROVE  transaction'[i].expect = ActionValue[i]
        BY <1>4 DEF Expected
      <4>1. ActionFile[i] # File /\ ActionFile[i] \in Files
        BY <2>2, ActionFacts DEF IsNetdev
      <4> QED
        BY <2>1, <2>2, <3>1, <4>1 DEF Books, Expected
    <3> QED
      BY <1>4, <3>2, <3>3, <3>4 DEF Books, ActiveSound
  <2> QED
    BY <2>3, <2>4 DEF FilesBooks
<1> QED
  BY <1>6, <1>7 DEF RestoreValue

(* active_actions_ is replaced by what could not be restored.              *)
LEMMA BooksEnd ==
  ASSUME TypeOK, BooksInv, FinishRestore
  PROVE  FilesBooks'
<1>1. /\ pc = "restored" /\ pc' \in {"watch", "stopped"} /\ active' = transaction
      /\ UNCHANGED <<files, author, lost, effective, transaction>>
  BY DEF FinishRestore, contents
<1>2. \A f \in Files \ lost' : Claimed(f)'
  BY <1>1, StillClaimed DEF BooksInv
<1>3. ASSUME NEW i \in Actions, ActionFile[i] \notin lost'
      PROVE  Books(i)'
  <2>1. RefusedForeign(i) /\ Expected(i)
    BY <1>1, <1>3 DEF BooksInv, Books
  <2>2. transaction[i].applied => transaction[i].by # "agent"
    BY <1>1, <2>1 DEF RefusedForeign
  <2>3. OldSound(i)' /\ RefusedForeign(i)'
    BY <1>1 DEF OldSound, RefusedForeign, Live, Forward, Backward
  <2> QED
    BY <1>1, <2>1, <2>2, <2>3 DEF Books, ActiveSound, Expected
<1> QED
  BY <1>2, <1>3 DEF FilesBooks

(* A stop restores active_actions_.                                        *)
LEMMA BooksStop ==
  ASSUME TypeOK, BooksInv, StopThread
  PROVE  FilesBooks'
<1>1. /\ pc \in {"watch", "stopped"} /\ pc' = "restore" /\ index' = NumActions
      /\ transaction' = active /\ Resting
      /\ UNCHANGED <<files, author, lost, effective, active>>
  BY DEF StopThread, contents, memory, Resting
<1>2. \A f \in Files \ lost' : Claimed(f)'
  BY <1>1, StillClaimed DEF BooksInv
<1>3. ASSUME NEW i \in Actions, ActionFile[i] \notin lost'
      PROVE  Books(i)'
  <2>1. ActiveSound(i) /\ Expected(i)
    BY <1>1, <1>3 DEF BooksInv, Books
  <2>2. TakenSet' = ActiveSet /\ ~Resting' /\ (Live(i)' => active[i].applied)
    BY <1>1 DEF TakenSet, Taken, ActiveSet, Resting, Live, Forward
  <2>3. OldSound(i)'
    BY <1>1, <2>1, <2>2 DEF ActiveSound, OldSound, Sound
  <2>4. RefusedForeign(i)'
    <3>1. ~(Backward' /\ i > index') /\ pc' # "restored"
      BY <1>1, TypeIndex DEF Actions
    <3> QED
      BY <3>1 DEF RefusedForeign
  <2>5. ActiveSound(i)' /\ Expected(i)'
    BY <1>1, <2>1, <2>2 DEF ActiveSound, Expected
  <2> QED
    BY <2>3, <2>4, <2>5 DEF Books
<1> QED
  BY <1>2, <1>3 DEF FilesBooks

LEMMA BooksEnv ==
  ASSUME TypeOK, BooksInv, NEW f \in Files, NEW v \in EnvValues[f], EnvWrite(f, v)
  PROVE  FilesBooks'
<1>1. /\ UNCHANGED <<pc, index, lost, effective, active, transaction>>
      /\ author'[f] = "env"
      /\ \A g \in Files \ {f} : files'[g] = files[g] /\ author'[g] = author[g]
  BY DEF EnvWrite, memory, TypeOK
<1>2. ASSUME NEW g \in Files \ lost'
      PROVE  Claimed(g)'
  <2>1. CASE g = f
    BY <1>1, <2>1 DEF Claimed
  <2>2. CASE g # f
    BY <1>1, <2>2 DEF BooksInv, Claimed, Busy, Backward
  <2> QED
    BY <2>1, <2>2
<1>3. ASSUME NEW i \in Actions, ActionFile[i] \notin lost'
      PROVE  Books(i)'
  <2>1. Books(i)
    BY <1>1, <1>3 DEF BooksInv
  <2>2. TakenSet' = TakenSet /\ ActiveSet' = ActiveSet /\ (Resting' <=> Resting)
        /\ (Live(i)' <=> Live(i))
    BY <1>1 DEF TakenSet, Taken, ActiveSet, Resting, Live, Forward, Backward
  <2>3. OldSound(i)' /\ ActiveSound(i)'
    BY <1>1, <2>1, <2>2 DEF Books, OldSound, ActiveSound, Sound
  <2>4. RefusedForeign(i)'
    BY <1>1, <2>1 DEF Books, RefusedForeign, Backward
  <2>5. Expected(i)'
    <3>1. CASE ActionFile[i] = f
      BY <1>1, <3>1 DEF Expected
    <3>2. CASE ActionFile[i] # f
      BY <1>1, <2>1, <2>2, <3>2, ActionFacts DEF Books, Expected
    <3> QED
      BY <3>1, <3>2
  <2> QED
    BY <2>3, <2>4, <2>5 DEF Books
<1> QED
  BY <1>2, <1>3 DEF FilesBooks

LEMMA BooksStutter ==
  ASSUME BooksInv, UNCHANGED vars
  PROVE  FilesBooks'
<1>1. UNCHANGED <<pc, index, lost, effective, active, transaction, files, author>>
  BY DEF vars, contents, memory
<1>2. \A f \in Files \ lost' : Claimed(f)'
  BY <1>1 DEF BooksInv, Claimed, Busy, Backward
<1>3. ASSUME NEW i \in Actions, ActionFile[i] \notin lost'
      PROVE  Books(i)'
  <2>1. Books(i)
    BY <1>1, <1>3 DEF BooksInv
  <2>2. TakenSet' = TakenSet /\ ActiveSet' = ActiveSet /\ (Resting' <=> Resting)
        /\ (Live(i)' <=> Live(i))
    BY <1>1 DEF TakenSet, Taken, ActiveSet, Resting, Live, Forward, Backward
  <2> QED
    BY <1>1, <2>1, <2>2
       DEF Books, OldSound, Sound, RefusedForeign, ActiveSound, Expected, Backward
<1> QED
  BY <1>2, <1>3 DEF FilesBooks

LEMMA BooksStep ==
  ASSUME TypeOK, BooksInv, [Next]_vars
  PROVE  BooksInv'
<1>1. Shape'
  BY ShapeStep DEF BooksInv
<1>2. FilesBooks'
  BY BooksBegin, BooksConverge, BooksRead, BooksWrite, BooksVerify, BooksJournal, BooksFinish,
     BooksSkip, BooksCompare, BooksRestore, BooksEnd, BooksStop, BooksEnv, BooksStutter
     DEF Next, Engine
<1> QED
  BY <1>1, <1>2 DEF BooksInv, FilesBooks

(* AgentValuesKnown: what the engine set in a file that nobody changed     *)
(* since and that it has not given up, it knows of - across transactions,  *)
(* undone ones, refused restores, other writers, rejected writes, files    *)
(* that cannot be opened, and files that several actions set.              *)
THEOREM NothingForgotten == Spec => []AgentValuesKnown
<1>1. Init => TypeOK /\ BooksInv
  BY InitTyped, BooksInit
<1>2. TypeOK /\ BooksInv /\ [Next]_vars => (TypeOK /\ BooksInv)'
  BY TypeStep, BooksStep
<1>3. ASSUME TypeOK, BooksInv
      PROVE  AgentValuesKnown
  <2>1. ASSUME NEW f \in Files \ lost, author[f] = "agent"
        PROVE  \/ \E i \in Actions : Key(i) = <<f, files[f]>> /\ Key(i) \in effective
               \/ \E i \in Actions : ActionFile[i] = f /\ (transaction[i].applied \/ active[i].applied)
               \/ pc = "verify" /\ File = f
    <3>1. Claimed(f)
      BY <1>3 DEF BooksInv
    <3>2. CASE <<f, files[f]>> \in effective
      BY <1>3, <3>2 DEF BooksInv, Shape, EffectiveKeys
    <3>3. ASSUME NEW i \in Actions, ActionFile[i] = f, Busy(i)
          PROVE  transaction[i].applied \/ (pc = "verify" /\ File = f)
      BY <3>3 DEF Busy, File
    <3> QED
      BY <2>1, <3>1, <3>2, <3>3 DEF Claimed
  <2> QED
    BY <2>1 DEF AgentValuesKnown
<1> QED
  BY <1>1, <1>2, <1>3, PTL DEF Spec

(* OldValuesForeign: an old value that the engine may write back is        *)
(* somebody else's, or what another action on the file set that is still   *)
(* believed to be in effect.                                               *)
THEOREM OldValuesAreOthers == Spec => []OldValuesForeign
<1>1. Init => TypeOK /\ BooksInv
  BY InitTyped, BooksInit
<1>2. TypeOK /\ BooksInv /\ [Next]_vars => (TypeOK /\ BooksInv)'
  BY TypeStep, BooksStep
<1>3. TypeOK /\ BooksInv => OldValuesForeign
  <2> SUFFICES ASSUME TypeOK, BooksInv, NEW i \in Actions, transaction[i].applied,
                      transaction[i].by = "agent", ActionFile[i] \notin lost
               PROVE  \E j \in Actions \ {i} :
                        /\ ActionFile[j] = ActionFile[i] /\ ActionValue[j] = transaction[i].old
                        /\ Key(j) \in effective
    BY DEF OldValuesForeign
  <2>1. Books(i)
    BY DEF BooksInv
  <2>2. PICK J : Sound(i, transaction[i].old, J) /\ i \in J
    <3>1. CASE Live(i)
      BY <2>1, <3>1 DEF Books, OldSound, TakenSet, Taken
    <3>2. CASE ~Live(i)
      <4>1. pc = "restored" \/ (Backward /\ i > index) \/ pc \in {"watch", "stopped"}
        BY <3>2, TypeIndex DEF TypeOK, Live, Taken, Forward, Backward
      <4>2. pc \in {"watch", "stopped"}
        BY <2>1, <4>1 DEF Books, RefusedForeign
      <4>3. active[i] = transaction[i] /\ Resting
        BY <4>2 DEF BooksInv, Shape, ActiveAtRest, Resting
      <4>4. Sound(i, transaction[i].old, ActiveSet) /\ i \in ActiveSet
        BY <2>1, <4>3 DEF Books, ActiveSound, ActiveSet
      <4> QED
        BY <4>4
    <3> QED
      BY <3>1, <3>2
  <2>3. PICK j \in Actions : <<ActionFile[i], transaction[i].old>> = Key(j)
    BY <2>2 DEF Sound, BooksInv, Shape, EffectiveKeys
  <2>4. ActionValue[i] # transaction[i].old
    BY <2>2, TypeIndex DEF Sound
  <2>5. Key(j) \in effective
    BY <2>2, <2>3 DEF Sound
  <2>6. ActionFile[j] = ActionFile[i] /\ ActionValue[j] = transaction[i].old
    BY <2>3 DEF Key
  <2> QED
    BY <2>4, <2>5, <2>6
<1> QED
  BY <1>1, <1>2, <1>3, PTL DEF Spec
=============================================================================
