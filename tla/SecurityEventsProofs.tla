------------------------ MODULE SecurityEventsProofs ------------------------
(***************************************************************************)
(* What the writer of the audit file, its reader, and the two together     *)
(* guarantee for any number of calls, rules, lines and truncations.        *)
(*                                                                         *)
(* First the reader alone (PolicyEventLoop).  Its invariant says of the    *)
(* position p the thread goes on from (offset_ while it polls, the         *)
(* stream's while it reads) that whatever lies behind p is accounted for,  *)
(* and that whatever lies ahead of it is newer than all that was handled;  *)
(* a file that is shorter than p was truncated, and holds nothing but      *)
(* newer lines.                                                            *)
(*                                                                         *)
(* Then the composition: it is faithful to both parts, whatever it does is *)
(* something each of them may do alone, so what is proved of a part holds  *)
(* in the whole.  Last the writer alone (SecurityPolicy): the life of its  *)
(* thread and ring, and its alerts, where the hits a rate rule keeps are   *)
(* tied to the positions of the events they stand for.                     *)
(***************************************************************************)
EXTENDS SecurityEvents, FiniteSetTheorems, WellFoundedInduction, TLAPS

FileGrows ==
  /\ Size <= appended
  /\ \A i \in 1..Size : file[i].id <= appended
  /\ \A i, j \in 1..Size : i < j => file[i].id < file[j].id

HandledWritten == \A h \in 1..Len(handled) : handled[h] <= appended

AheadIsNewer(p) ==
  \A i \in 1..Size : i > p \/ Size < p =>
    \A h \in 1..Len(handled) : handled[h] < file[i].id

Accounted(i) ==
  \/ file[i].kind \notin Matching
  \/ file[i].id \in ToSet(handled) \cup missed

Ahead ==
  /\ pc = "poll" => AheadIsNewer(offset)
  /\ pc = "read" => AheadIsNewer(cursor)

Behind ==
  /\ pc = "poll" /\ offset <= Size => \A i \in 1..offset : Accounted(i)
  /\ pc = "read" => \A i \in 1..Size : i <= cursor => Accounted(i)
  /\ pc = "take" => \A i \in 1..Size : Accounted(i)

IInv == TypeOK /\ FileGrows /\ HandledWritten /\ HandledInOrder /\ Ahead /\ Behind
-----------------------------------------------------------------------------
\* The typed facts about the lines of the file that the steps below rest on.
LEMMA LineFacts ==
  ASSUME IInv
  PROVE  /\ Len(file) \in Nat /\ appended \in Nat /\ MaxEvents \in Nat
         /\ Len(file) <= appended /\ appended <= MaxEvents
         /\ \A i \in 1..Len(file) :
              file[i] \in Lines /\ file[i].id \in Nat /\ 1 <= file[i].id /\ file[i].id <= appended
         /\ \A i, j \in 1..Len(file) : i < j => file[i].id < file[j].id
         /\ Len(handled) \in Nat
         /\ \A h \in 1..Len(handled) : handled[h] \in Nat /\ handled[h] <= appended
<1>1. /\ file \in Seq(Lines) /\ appended \in 0..MaxEvents /\ MaxEvents \in Nat
      /\ handled \in Seq(1..MaxEvents)
  BY KindsAssumption DEF IInv, TypeOK
<1>2. \A i \in 1..Len(file) : file[i] \in Lines
  BY <1>1
<1>3. \A i \in 1..Len(file) : file[i].id \in 1..MaxEvents
  BY <1>2 DEF Lines
<1>4. \A h \in 1..Len(handled) : handled[h] \in 1..MaxEvents
  BY <1>1
<1> QED
  BY <1>1, <1>2, <1>3, <1>4 DEF IInv, FileGrows, HandledWritten, Size

LEMMA InitIInv == Init => IInv
<1> SUFFICES ASSUME Init PROVE IInv
  OBVIOUS
<1> PICK n \in Earlier : /\ file \in [1..n -> Lines] /\ \A i \in 1..n : file[i].id = i
                         /\ appended = n /\ offset = n /\ missed = 1..n
  BY DEF Init
<1>1. n \in 0..MaxEvents /\ MaxEvents \in Nat /\ MaxTruncations \in Nat
  BY KindsAssumption
<1>2. file \in Seq(Lines) /\ Len(file) = n
  BY <1>1
<1>3. TypeOK
  <2>1. appended \in 0..MaxEvents /\ offset \in 0..MaxEvents /\ missed \subseteq 1..appended
    BY <1>1
  <2>2. /\ truncations \in 0..MaxTruncations /\ cursor \in 0..MaxEvents
        /\ pc = "poll" /\ handled = <<>> /\ stopping = FALSE
    BY <1>1 DEF Init
  <2>3. handled \in Seq(1..MaxEvents)
    BY <2>2
  <2> QED
    BY <1>2, <2>1, <2>2, <2>3 DEF TypeOK
<1>4. FileGrows /\ HandledWritten /\ HandledInOrder /\ Ahead
  BY <1>1, <1>2 DEF Init, FileGrows, Size, HandledWritten, HandledInOrder, Ahead, AheadIsNewer
<1>5. Behind
  <2>1. pc = "poll" /\ offset = n /\ missed = 1..n
    BY DEF Init
  <2>2. \A i \in 1..n : file[i].id \in missed
    BY <2>1
  <2> QED
    BY <2>1, <2>2 DEF Behind, Accounted
<1> QED
  BY <1>3, <1>4, <1>5 DEF IInv

\* What each step keeps of the file and of what was handled.
LEMMA HandleOne ==
  ASSUME IInv, ReadLine PROVE IInv'
<1> DEFINE e == file[cursor + 1]
<1>1. cursor \in Nat /\ cursor + 1 \in 1..Len(file) /\ e \in Lines /\ file' = file
  BY DEF IInv, TypeOK, ReadLine, Size
<1>2. e.id \in 1..MaxEvents /\ e.id <= appended /\ MaxEvents \in Nat
  BY <1>1, KindsAssumption DEF Lines, IInv, FileGrows, Size
<1>3. \A h \in 1..Len(handled) : handled[h] < e.id
  BY <1>1 DEF IInv, Ahead, AheadIsNewer, ReadLine, Size
<1>4. handled \in Seq(1..MaxEvents)
  BY DEF IInv, TypeOK
<1>5. CASE e.kind \in Matching
  <2>1. handled' = Append(handled, e.id)
    BY <1>5 DEF ReadLine
  <2>2. /\ Len(handled') = Len(handled) + 1
        /\ \A h \in 1..Len(handled) : handled'[h] = handled[h]
        /\ handled'[Len(handled) + 1] = e.id
        /\ handled' \in Seq(1..MaxEvents)
    BY <1>2, <1>4, <2>1
  <2>3. \A h \in 1..Len(handled') : handled'[h] <= e.id
    BY <1>2, <1>3, <1>4, <2>2
  <2>4. TypeOK'
    BY <1>1, <2>2, KindsAssumption DEF IInv, TypeOK, ReadLine, FileGrows, Size
  <2>5. FileGrows'
    BY <1>1 DEF IInv, FileGrows, ReadLine, Size
  <2>6. HandledWritten' /\ HandledInOrder'
    BY <1>2, <1>3, <1>4, <2>2, <2>3 DEF IInv, HandledWritten, HandledInOrder, ReadLine
  <2>7. Ahead'
    <3> SUFFICES ASSUME NEW i \in 1..Len(file), i > cursor + 1,
                        NEW h \in 1..Len(handled')
                 PROVE  handled'[h] < file[i].id
      BY <1>1 DEF Ahead, AheadIsNewer, ReadLine, Size
    <3>1. e.id < file[i].id /\ file[i].id \in Nat
      BY <1>1, LineFacts
    <3> QED
      BY <1>2, <2>2, <2>3, <3>1
  <2>8. Behind'
    <3>1. \A x : x \in ToSet(handled) \cup {e.id} => x \in ToSet(handled')
      BY <1>4, <2>2 DEF ToSet
    <3> QED
      BY <1>1, <3>1 DEF IInv, Behind, Accounted, ReadLine, Size
  <2> QED
    BY <2>4, <2>5, <2>6, <2>7, <2>8 DEF IInv
<1>6. CASE e.kind \notin Matching
  <2>1. handled' = handled
    BY <1>6 DEF ReadLine
  <2>2. TypeOK'
    BY <1>1, <2>1, KindsAssumption DEF IInv, TypeOK, ReadLine, FileGrows, Size
  <2>3. FileGrows' /\ HandledWritten' /\ HandledInOrder'
    BY <1>1, <2>1 DEF IInv, FileGrows, HandledWritten, HandledInOrder, ReadLine, Size
  <2>4. Ahead'
    BY <1>1, <2>1 DEF IInv, Ahead, AheadIsNewer, ReadLine, Size
  <2>5. Behind'
    BY <1>1, <1>6, <2>1 DEF IInv, Behind, Accounted, ReadLine, Size
  <2> QED
    BY <2>2, <2>3, <2>4, <2>5 DEF IInv
<1> QED
  BY <1>5, <1>6

LEMMA AppendKeeps ==
  ASSUME IInv, NEW k \in Kinds, AppendLine(k) PROVE IInv'
<1> DEFINE new == [id |-> appended + 1, kind |-> k]
           n   == Len(file)
<1>1. /\ appended \in Nat /\ appended + 1 \in 1..MaxEvents /\ MaxEvents \in Nat
      /\ appended' = appended + 1 /\ new \in Lines
  BY KindsAssumption DEF IInv, TypeOK, AppendLine, Lines
<1>2. /\ file \in Seq(Lines) /\ file' = Append(file, new) /\ n \in Nat
      /\ Len(file') = n + 1 /\ file' \in Seq(Lines)
      /\ \A i \in 1..n : file'[i] = file[i]
      /\ file'[n + 1] = new
  BY <1>1 DEF IInv, TypeOK, AppendLine
<1>3. /\ handled \in Seq(1..MaxEvents)
      /\ truncations' = truncations /\ pc' = pc /\ offset' = offset /\ cursor' = cursor
      /\ handled' = handled /\ stopping' = stopping
  BY DEF IInv, TypeOK, AppendLine, thread
<1>4. missed \subseteq missed' /\ missed' \subseteq 1..appended'
  <2>1. missed \subseteq 1..appended
    BY DEF IInv, TypeOK
  <2>2. \A x \in InFile : x \in 1..appended
    BY LineFacts DEF InFile, Size
  <2>3. missed \subseteq 1..appended' /\ InFile \subseteq 1..appended' /\ appended' \in 1..appended'
    BY <1>1, <2>1, <2>2
  <2>4. \/ missed' = missed \cup {appended'}
        \/ missed' = missed \cup (InFile \cup {appended'})
        \/ missed' = missed \cup {}
    BY DEF AppendLine
  <2> QED
    BY <2>3, <2>4
<1>5. TypeOK'
  <2>1. appended' \in 0..MaxEvents
    BY <1>1
  <2> QED
    BY <1>2, <1>3, <1>4, <2>1 DEF IInv, TypeOK
<1>6. FileGrows'
  <2>1. new.id = appended + 1
    OBVIOUS
  <2>2. \A i \in 1..n + 1 : file'[i].id \in Nat /\ file'[i].id <= appended + 1
    <3> TAKE i \in 1..n + 1
    <3>1. CASE i \in 1..n
      BY <1>1, <1>2, <3>1, LineFacts
    <3>2. CASE i = n + 1
      BY <1>1, <1>2, <2>1, <3>2
    <3> QED
      BY <1>2, <3>1, <3>2
  <2>3. ASSUME NEW i \in 1..n + 1, NEW j \in 1..n + 1, i < j
        PROVE  file'[i].id < file'[j].id
    <3>1. i \in 1..n
      BY <1>2, <2>3
    <3>2. CASE j \in 1..n
      BY <1>2, <2>3, <3>1, <3>2, LineFacts
    <3>3. CASE j = n + 1
      BY <1>1, <1>2, <2>1, <3>1, <3>3, LineFacts
    <3> QED
      BY <1>2, <3>2, <3>3
  <2> QED
    BY <1>1, <1>2, <2>2, <2>3, LineFacts DEF FileGrows, Size
<1>7. HandledWritten' /\ HandledInOrder'
  BY <1>1, <1>3, LineFacts DEF IInv, HandledWritten, HandledInOrder
<1>8. ASSUME NEW p \in Nat, AheadIsNewer(p)
      PROVE  \A i \in 1..n + 1 : i > p \/ n + 1 < p =>
               \A h \in 1..Len(handled) : handled[h] < file'[i].id
  <2> SUFFICES ASSUME NEW i \in 1..n + 1, i > p \/ n + 1 < p,
                      NEW h \in 1..Len(handled)
               PROVE  handled[h] < file'[i].id
    OBVIOUS
  <2>1. CASE i \in 1..n
    BY <1>2, <1>8, <2>1 DEF AheadIsNewer, Size
  <2>2. CASE i = n + 1
    BY <1>1, <1>2, <2>2, LineFacts
  <2> QED
    BY <1>2, <2>1, <2>2
<1>9. offset \in Nat /\ cursor \in Nat
  BY <1>1 DEF IInv, TypeOK
<1>10. Ahead'
  <2>1. ASSUME pc = "poll" PROVE AheadIsNewer(offset)'
    <3>1. AheadIsNewer(offset)
      BY <2>1 DEF IInv, Ahead
    <3> QED
      BY <1>2, <1>3, <1>8, <1>9, <3>1 DEF AheadIsNewer, Size
  <2>2. ASSUME pc = "read" PROVE AheadIsNewer(cursor)'
    <3>1. AheadIsNewer(cursor)
      BY <2>2 DEF IInv, Ahead
    <3> QED
      BY <1>2, <1>3, <1>8, <1>9, <3>1 DEF AheadIsNewer, Size
  <2> QED
    BY <1>3, <2>1, <2>2 DEF Ahead
<1> DEFINE Kept(i) == \/ file'[i].kind \notin Matching
                      \/ file'[i].id \in ToSet(handled) \cup missed'
<1>11. \A i \in 1..n : Accounted(i) => Kept(i)
  BY <1>2, <1>4 DEF Accounted
<1>12. appended' \in missed' => Kept(n + 1)
  <2>1. file'[n + 1].id = appended'
    BY <1>1, <1>2
  <2> QED
    BY <2>1
<1>13. ASSUME pc = "poll", offset <= n + 1, NEW i \in 1..offset PROVE Kept(i)
  <2>1. CASE offset <= n
    <3>1. i \in 1..n /\ Accounted(i)
      BY <1>2, <1>9, <1>13, <2>1 DEF IInv, Behind, Size
    <3> QED
      BY <1>11, <3>1
  <2>2. CASE offset = n + 1
    <3>1. missed' = missed \cup (InFile \cup {appended'})
      BY <1>13, <2>2 DEF AppendLine, Size
    <3>2. CASE i \in 1..n
      <4>1. file[i].id \in InFile /\ file'[i] = file[i]
        BY <1>2, <3>2 DEF InFile, Size
      <4> QED
        BY <3>1, <4>1
    <3>3. CASE i = n + 1
      BY <1>12, <3>1, <3>3
    <3> QED
      BY <1>2, <1>9, <1>13, <2>2, <3>2, <3>3
  <2> QED
    BY <1>2, <1>9, <1>13, <2>1, <2>2
<1>14. ASSUME pc = "read", NEW i \in 1..n + 1, i <= cursor PROVE Kept(i)
  <2>1. CASE i \in 1..n
    <3>1. Accounted(i)
      BY <1>14, <2>1 DEF IInv, Behind, Size
    <3> QED
      BY <1>11, <2>1, <3>1
  <2>2. CASE i = n + 1
    <3>1. appended' \in missed'
      BY <1>2, <1>9, <1>14, <2>2 DEF AppendLine, Size
    <3> QED
      BY <1>12, <2>2, <3>1
  <2> QED
    BY <1>2, <2>1, <2>2
<1>15. ASSUME pc = "take", NEW i \in 1..n + 1 PROVE Kept(i)
  <2>1. appended' \in missed'
    BY <1>15 DEF AppendLine
  <2>2. CASE i \in 1..n
    BY <1>11, <1>15, <2>2 DEF IInv, Behind, Size
  <2>3. CASE i = n + 1
    BY <1>12, <2>1, <2>3
  <2> QED
    BY <1>2, <2>2, <2>3
<1>16. Behind'
  BY <1>2, <1>3, <1>13, <1>14, <1>15 DEF Behind, Accounted, Size
<1> QED
  BY <1>5, <1>6, <1>7, <1>10, <1>16 DEF IInv

LEMMA StepIInv == IInv /\ [Next]_vars => IInv'
<1> SUFFICES ASSUME IInv, [Next]_vars PROVE IInv'
  OBVIOUS
<1>t. /\ MaxEvents \in Nat /\ appended \in Nat /\ file \in Seq(Lines) /\ Len(file) \in Nat
      /\ offset \in 0..MaxEvents /\ cursor \in 0..MaxEvents
      /\ Len(file) <= MaxEvents
  BY KindsAssumption DEF IInv, TypeOK, FileGrows, Size
<1>1. CASE UNCHANGED vars
  BY <1>1 DEF vars, thread, IInv, TypeOK, FileGrows, HandledWritten, HandledInOrder,
              Ahead, AheadIsNewer, Behind, Accounted, Size
<1>2. CASE Poll
  <2>1. offset' \in 0..MaxEvents /\ cursor' \in 0..MaxEvents /\ pc' \in {"poll", "read"}
    BY <1>t, <1>2 DEF Poll
  <2>2. TypeOK'
    BY <1>2, <2>1 DEF Poll, IInv, TypeOK
  <2>3. FileGrows' /\ HandledWritten' /\ HandledInOrder'
    BY <1>2 DEF Poll, IInv, FileGrows, HandledWritten, HandledInOrder, Size
  <2>4. Ahead'
    BY <1>t, <1>2 DEF Poll, IInv, Ahead, AheadIsNewer, Size
  <2>5. Behind'
    BY <1>t, <1>2 DEF Poll, IInv, Behind, Accounted, Size
  <2> QED
    BY <2>2, <2>3, <2>4, <2>5 DEF IInv
<1>3. CASE ReadLine
  BY <1>3, HandleOne
<1>4. CASE ReadEnd \/ EndThread \/ RaiseStop
  <2>1. TypeOK' /\ FileGrows' /\ HandledWritten' /\ HandledInOrder'
    BY <1>4 DEF ReadEnd, EndThread, RaiseStop, thread, IInv, TypeOK, FileGrows,
                      HandledWritten, HandledInOrder, Size
  <2>2. Ahead'
    BY <1>t, <1>4 DEF ReadEnd, EndThread, RaiseStop, thread, IInv, Ahead, AheadIsNewer, Size
  <2>3. Behind'
    BY <1>t, <1>4 DEF ReadEnd, EndThread, RaiseStop, thread, IInv, Behind, Accounted, Size
  <2> QED
    BY <2>1, <2>2, <2>3 DEF IInv
<1>5. CASE TakeOffset
  <2>1. TypeOK' /\ FileGrows' /\ HandledWritten' /\ HandledInOrder'
    BY <1>t, <1>5 DEF TakeOffset, IInv, TypeOK, FileGrows, HandledWritten, HandledInOrder, Size
  <2>2. Ahead'
    BY <1>t, <1>5 DEF TakeOffset, IInv, Ahead, AheadIsNewer, Size
  <2>3. Behind'
    BY <1>t, <1>5 DEF TakeOffset, IInv, Behind, Accounted, Size
  <2> QED
    BY <2>1, <2>2, <2>3 DEF IInv
<1>6. CASE \E k \in Kinds : AppendLine(k)
  BY <1>6, AppendKeeps
<1>7. CASE Truncate
  <2>1. file' = <<>> /\ Len(file') = 0 /\ file' \in Seq(Lines)
    BY <1>7 DEF Truncate
  <2>2. TypeOK'
    BY <1>t, <1>7, <2>1, KindsAssumption DEF Truncate, thread, IInv, TypeOK
  <2>3. FileGrows'
    BY <1>t, <1>7, <2>1 DEF Truncate, FileGrows, Size
  <2>4. HandledWritten' /\ HandledInOrder'
    BY <1>7 DEF Truncate, thread, IInv, HandledWritten, HandledInOrder
  <2>5. Ahead' /\ Behind'
    BY <1>t, <1>7, <2>1 DEF Truncate, thread, Ahead, AheadIsNewer, Behind, Accounted, Size
  <2> QED
    BY <2>2, <2>3, <2>4, <2>5 DEF IInv
<1> QED
  BY <1>1, <1>2, <1>3, <1>4, <1>5, <1>6, <1>7 DEF Next, EventThread

(* The strengthened invariant of the event thread, from which the others   *)
(* follow.                                                                 *)
THEOREM Invariance == Spec => []IInv
  BY InitIInv, StepIInv, PTL DEF Spec

(* Every variable keeps its type; in particular the offset never runs      *)
(* ahead of the lines ever written.                                        *)
THEOREM TypeCorrect == Spec => []TypeOK
<1>1. IInv => TypeOK
  BY DEF IInv
<1> QED
  BY <1>1, Invariance, PTL

(* For any number of lines and truncations, no event is acted on twice or  *)
(* out of order.                                                           *)
THEOREM InOrder == Spec => []HandledInOrder
<1>1. IInv => HandledInOrder
  BY DEF IInv
<1> QED
  BY <1>1, Invariance, PTL

(* For any number of lines and truncations, an event behind the offset was *)
(* acted on or missed for one of the reasons AppendLine names.             *)
THEOREM LossExplained == Spec => []LostOnlyIfMissed
<1>1. IInv => LostOnlyIfMissed
  BY DEF IInv, Behind, LostOnlyIfMissed, Accounted
<1> QED
  BY <1>1, Invariance, PTL
-----------------------------------------------------------------------------
LEMMA LineKinds == {"hit", "anomaly", "life"} \subseteq Kinds
  BY EnoughLines

\* The writer's steps are steps of security_policy or leave it alone.
LEMMA WriterStep == [AllNext]_allVars => [SecNext]_secVars
<1> SUFFICES ASSUME [AllNext]_allVars PROVE [SecNext]_secVars
  OBVIOUS
<1>1. CASE MainStep
  BY <1>1 DEF MainStep, SecNext, SecMain
<1>2. CASE ReaderStep
  BY <1>2 DEF ReaderStep, SecNext, SecThread
<1>3. CASE OutsideStep
  BY <1>3 DEF OutsideStep, SecNext
<1>4. CASE EngineStep
  BY <1>4 DEF EngineStep
<1>5. CASE UNCHANGED allVars
  BY <1>5 DEF allVars
<1> QED BY <1>1, <1>2, <1>3, <1>4, <1>5 DEF AllNext

\* The reader's steps, with every line of the writer one that is expected.
LEMMA LoopStep == [AllNext]_allVars => [Next]_vars
<1> SUFFICES ASSUME [AllNext]_allVars PROVE [Next]_vars
  OBVIOUS
<1>1. CASE MainStep
  BY <1>1, LineKinds DEF MainStep, Next
<1>2. CASE ReaderStep
  BY <1>2, LineKinds DEF ReaderStep, Next
<1>3. CASE OutsideStep
  BY <1>3 DEF OutsideStep, Next
<1>4. CASE EngineStep
  BY <1>4 DEF EngineStep, Next
<1>5. CASE UNCHANGED allVars
  BY <1>5 DEF allVars
<1> QED BY <1>1, <1>2, <1>3, <1>4, <1>5 DEF AllNext

(* The composition implements security_policy and the policy engine's      *)
(* event thread: neither is given a step it does not have.                 *)
THEOREM CompositionImplements == AllSpec => SecSpec /\ Spec
<1>1. AllInit => SecInit /\ Init
  BY DEF AllInit
<1> QED BY <1>1, WriterStep, LoopStep, PTL DEF AllSpec, SecSpec, Spec

(* In the running system no event is acted on twice or out of order,       *)
(* however the two threads and the truncations interleave.                 *)
THEOREM EventsInOrder == AllSpec => []HandledInOrder
  BY CompositionImplements, InOrder, PTL

(* Nor is one lost without one of the known reasons.                       *)
THEOREM EventLossExplained == AllSpec => []LostOnlyIfMissed
  BY CompositionImplements, LossExplained, PTL
-----------------------------------------------------------------------------
\* The thread lives from start_event_reader to the join, and so does its ring.
ThreadInside ==
  /\ reader # "none" => main \in {"attach", "started", "up", "stop", "join"}
  /\ main \in {"attach", "started", "up"} => hasRing
  /\ reader # "none" => hasRing

SecInv == SecTypeOK /\ ThreadInside

LEMMA SecInitInv == SecInit => SecInv
<1> SUFFICES ASSUME SecInit PROVE SecInv
  OBVIOUS
<1>1. clock \in 0..MaxTime /\ calls \in 0..MaxCalls /\ submitted \in 0..calls
  <2>1. clock = 0 /\ calls = 0 /\ submitted = 0
    BY DEF SecInit
  <2>2. MaxTime \in Nat /\ MaxCalls \in Nat
    BY SecurityAssumption
  <2> QED BY <2>1, <2>2, SMT
<1> QED BY <1>1 DEF SecInit, SecInv, SecTypeOK, ThreadInside

LEMMA MainKeeps == ASSUME SecInv, SecMain PROVE SecInv'
<1> USE DEF SecInv, SecTypeOK, ThreadInside, SecKeeps, readerVars
<1>1. CASE SecLoad
  BY <1>1 DEF SecLoad
<1>2. CASE SecReader
  BY <1>2 DEF SecReader
<1>3. CASE SecAttach
  BY <1>3 DEF SecAttach
<1>4. CASE SecStarted \/ SecRollback
  BY <1>4 DEF SecStarted, SecRollback
<1>5. CASE SecRaise
  BY <1>5 DEF SecRaise
<1>6. CASE SecJoin
  BY <1>6 DEF SecJoin
<1>7. CASE SecDetach
  BY <1>7 DEF SecDetach
<1> QED BY <1>1, <1>2, <1>3, <1>4, <1>5, <1>6, <1>7 DEF SecMain, MainQuiet

LEMMA ThreadKeeps == ASSUME SecInv, SecThread PROVE SecInv'
<1> USE DEF SecInv, SecTypeOK, ThreadInside, readerVars
<1>1. CASE PollEvents
  BY <1>1 DEF PollEvents
<1>2. CASE HandleEvent
  BY <1>2 DEF HandleEvent
<1>3. CASE WriteAlert
  BY <1>3 DEF WriteAlert
<1>4. CASE NextEvent
  BY <1>4 DEF NextEvent
<1> QED BY <1>1, <1>2, <1>3, <1>4 DEF SecThread, ReaderQuiet

LEMMA OthersKeep == ASSUME SecInv, Tasks \/ Tick PROVE SecInv'
<1> USE DEF SecInv, SecTypeOK, ThreadInside, readerVars
<1>1. CASE Tasks
  <2>1. PICK h \in ToSet(Hooks), o \in Objects, g \in Groups : Call(h, o, g)
    BY <1>1 DEF Tasks
  <2>2. UNCHANGED <<main, links, hasRing, reader, stop, toAlert, clock>>
    BY <2>1 DEF Call
  <2>3. /\ calls < MaxCalls /\ calls' = calls + 1
        /\ submitted' = submitted + 1 \/ submitted' = submitted
    BY <2>1 DEF Call
  <2>4. calls' \in 0..MaxCalls /\ submitted' \in 0..calls'
    BY <2>3, SecurityAssumption, SMT
  <2> QED BY <2>2, <2>4
<1>2. CASE Tick
  <2>1. clock' \in 0..MaxTime
    BY <1>2, SecurityAssumption, SMT DEF Tick
  <2> QED BY <1>2, <2>1 DEF Tick
<1> QED BY <1>1, <1>2

LEMMA SecStepInv == SecInv /\ [SecNext]_secVars => SecInv'
<1> SUFFICES ASSUME SecInv, [SecNext]_secVars PROVE SecInv'
  OBVIOUS
<1>1. CASE SecNext
  BY <1>1, MainKeeps, ThreadKeeps, OthersKeep DEF SecNext
<1>2. CASE UNCHANGED secVars
  BY <1>2 DEF secVars, SecInv, SecTypeOK, ThreadInside
<1> QED BY <1>1, <1>2

(* Every variable of security_policy keeps its type: no program is         *)
(* attached that start did not mean to attach, and no event counts that no *)
(* call made.                                                              *)
THEOREM SecTypeCorrect == SecSpec => []SecTypeOK
<1>1. SecInv => SecTypeOK
  BY DEF SecInv
<1> QED BY <1>1, SecInitInv, SecStepInv, PTL DEF SecSpec

(* For any hooks and rules, and however a start fails or a stop comes in   *)
(* between, the event thread never works on a ring that was freed.         *)
THEOREM RingOutlivesReader == SecSpec => []ReaderHasRing
<1>1. SecInv => ReaderHasRing
  BY DEF SecInv, ThreadInside, ReaderHasRing
<1> QED BY <1>1, SecInitInv, SecStepInv, PTL DEF SecSpec
-----------------------------------------------------------------------------
(* What the thread has handled, and what it has kept of it.                *)

\* The last event at which a rate rule alerted, and what concerned it since.
LastAlert(r) == Max({0} \cup alerted[r])
Pending(r)   == {j \in LastAlert(r) + 1..Len(seen) : Concerns(RateRules[r], seen[j].event)}

CallEvents == {EventOf(h, o, g) : h \in ToSet(Hooks), o \in Objects, g \in Groups}

SeenTypeOK ==
  /\ ring \in Seq(CallEvents)
  /\ reader \in {"event", "alert"} => ring # <<>>
  /\ seen \in Seq([at : Nat, event : CallEvents])
  /\ hits \in [DOMAIN RateRules -> Seq(Nat)]
  /\ alerted \in [DOMAIN RateRules -> SUBSET (1..Len(seen))]
  /\ \A r \in DOMAIN RateRules : LastAlert(r) \in 0..Len(seen)

\* Events are handled in the order of time.
TimeOrder ==
  /\ \A j \in 1..Len(seen) : seen[j].at <= clock
  /\ \A i, j \in 1..Len(seen) : i <= j => seen[i].at <= seen[j].at

(* hits[r] are the times of the events at the positions pos.               *)
Positions(r, pos) ==
  /\ Len(pos) = Len(hits[r])
  /\ \A i \in 1..Len(pos) : pos[i] \in Pending(r) /\ hits[r][i] = seen[pos[i]].at
  /\ \A i, j \in 1..Len(pos) : i < j => pos[i] < pos[j]

\* What is pending and no hit any more is too old to count, now and later.
HitsArePending ==
  \A r \in DOMAIN RateRules :
    \E pos \in Seq(Nat) :
      /\ Positions(r, pos)
      /\ \A j \in Pending(r) : \/ \E i \in 1..Len(pos) : pos[i] = j
                               \/ clock - seen[j].at > RateRules[r].window

AlertInv == SecInv /\ SeenTypeOK /\ TimeOrder /\ HitsArePending /\ AlertsAsSpecified
-----------------------------------------------------------------------------
LEMMA Least ==
  ASSUME NEW S, S \subseteq Nat, S # {}
  PROVE  \E n \in S : \A m \in S : n <= m
<1>1. \E n \in S : \A m \in S : ~(<<m, n>> \in OpToRel(<, Nat))
  BY NatLessThanWellFounded, WFMin, Zenon
<1>2. \A m, n \in S : <<m, n>> \in OpToRel(<, Nat) <=> m < n
  BY Zenon DEF OpToRel
<1>3. \E n \in S : \A m \in S : ~(m < n)
  BY <1>1, <1>2, Zenon
<1> QED
  BY <1>3

LEMMA LeastIsMin ==
  ASSUME NEW S, S \subseteq Nat, S # {}
  PROVE  Min(S) \in S /\ \A n \in S : Min(S) <= n
<1>1. \E n \in S : \A m \in S : n <= m
  BY Least
<1> QED
  BY <1>1, Zenon DEF Min

LEMMA GreatestIsMax ==
  ASSUME NEW S, S \subseteq Nat, NEW n \in S, \A m \in S : m <= n
  PROVE  Max(S) = n
<1>1. \A m \in S : n >= m
  OBVIOUS
<1>2. Max(S) \in S /\ \A m \in S : Max(S) >= m
  BY <1>1, Zenon DEF Max
<1>3. Max(S) >= n /\ Max(S) <= n /\ Max(S) \in Nat /\ n \in Nat
  BY <1>2
<1> QED BY <1>3

LEMMA BoundedHasMax ==
  ASSUME NEW N \in Nat, NEW S, S \subseteq 0..N, S # {}
  PROVE  Max(S) \in S
<1> DEFINE U == {n \in Nat : \A m \in S : m <= n}
<1>1. U \subseteq Nat /\ N \in U
  OBVIOUS
<1>2. PICK u \in U : \A n \in U : u <= n
  <2> HIDE DEF U
  <2> QED BY <1>1, Least
<1>3. u \in S
  <2> SUFFICES ASSUME u \notin S PROVE FALSE
    OBVIOUS
  <2>1. \A m \in S : m \in Nat /\ m < u
    BY <1>2
  <2>2. PICK m \in S : TRUE
    OBVIOUS
  <2>3. u \in Nat /\ u - 1 \in Nat
    BY <1>2, <2>1, <2>2
  <2>4. u - 1 \in U
    BY <2>1, <2>3
  <2> QED BY <1>2, <2>3, <2>4
<1>4. S \subseteq Nat /\ \A m \in S : m <= u
  BY <1>2
<1>5. Max(S) = u
  <2> HIDE DEF U
  <2> QED BY <1>3, <1>4, GreatestIsMax
<1> QED BY <1>3, <1>5

LEMMA Suffix ==
  ASSUME NEW s \in Seq(Nat), NEW m \in 1..Len(s)
  PROVE  /\ SubSeq(s, m, Len(s)) \in Seq(Nat)
         /\ Len(SubSeq(s, m, Len(s))) = Len(s) - m + 1
         /\ \A i \in 1..Len(SubSeq(s, m, Len(s))) :
              i + m - 1 \in 1..Len(s) /\ SubSeq(s, m, Len(s))[i] = s[i + m - 1]
<1> DEFINE t == SubSeq(s, m, Len(s))
<1>1. Len(s) \in Nat /\ t \in Seq(Nat)
  OBVIOUS
<1>2. Len(t) = Len(s) - m + 1
  OBVIOUS
<1>3. \A i \in 1..Len(s) - m + 1 : i + m - 1 \in 1..Len(s)
  BY <1>1
<1>4. \A i \in 1..Len(s) - m + 1 : t[i] = s[i + m - 1]
  OBVIOUS
<1>5. \A i \in 1..Len(t) : i + m - 1 \in 1..Len(s) /\ t[i] = s[i + m - 1]
  BY <1>2, <1>3, <1>4, Zenon
<1> QED BY <1>1, <1>2, <1>5, Zenon

LEMMA RateRuleFacts ==
  ASSUME NEW r \in DOMAIN RateRules
  PROVE  RateRules[r].window \in Nat /\ RateRules[r].threshold \in Nat
  BY SecurityAssumption DEF ToSet

LEMMA EventTyped ==
  ASSUME SeenTypeOK, reader = "event"
  PROVE  event \in CallEvents
  BY DEF SeenTypeOK, event

(* The hits after an event: those of all, with this one, that are fresh.   *)
LEMMA FreshHits ==
  ASSUME NEW w \in Nat, NEW all \in Seq(Nat), all # <<>>, NEW now \in Nat,
         all[Len(all)] = now,
         \A i, j \in 1..Len(all) : i <= j => all[i] <= all[j]
  PROVE  \E m \in 1..Len(all) :
           /\ m = Min({i \in DOMAIN all : now - all[i] <= w})
           /\ \A i \in 1..Len(all) : now - all[i] <= w <=> i >= m
<1> DEFINE F == {i \in DOMAIN all : now - all[i] <= w}
<1>1. Len(all) \in F /\ F \subseteq Nat
  OBVIOUS
<1>2. Min(F) \in F /\ \A n \in F : Min(F) <= n
  <2> HIDE DEF F
  <2> QED BY <1>1, LeastIsMin
<1>3. \A i \in 1..Len(all) : i >= Min(F) => now - all[i] <= w
  BY <1>2
<1>4. /\ Min(F) \in 1..Len(all)
      /\ \A i \in 1..Len(all) : now - all[i] <= w <=> i >= Min(F)
  BY <1>2, <1>3
<1> QED BY <1>4, Zenon

(* As many hits as events within the window.                               *)
LEMMA CountHits ==
  ASSUME NEW pos \in Seq(Nat), NEW m \in 1..Len(pos),
         \A i, j \in 1..Len(pos) : i < j => pos[i] < pos[j]
  PROVE  Cardinality({pos[i] : i \in m..Len(pos)}) = Len(pos) - m + 1
<1> DEFINE n == Len(pos) - m + 1
           T == {pos[i] : i \in m..Len(pos)}
           f == [i \in 1..n |-> pos[i + m - 1]]
<1>1. n \in Nat
  OBVIOUS
<1>2. f \in [1..n -> T]
  <2>1. \A i \in 1..n : i + m - 1 \in m..Len(pos) /\ pos[i + m - 1] \in T
    OBVIOUS
  <2> QED BY <2>1
<1>3. \A i, j \in 1..n : f[i] = f[j] => i = j
  <2> SUFFICES ASSUME NEW i \in 1..n, NEW j \in 1..n, i # j PROVE f[i] # f[j]
    OBVIOUS
  <2>1. i + m - 1 \in 1..Len(pos) /\ j + m - 1 \in 1..Len(pos)
    OBVIOUS
  <2>2. i + m - 1 < j + m - 1 \/ j + m - 1 < i + m - 1
    OBVIOUS
  <2>3. pos[i + m - 1] \in Nat /\ pos[j + m - 1] \in Nat
    BY <2>1
  <2>4. pos[i + m - 1] < pos[j + m - 1] \/ pos[j + m - 1] < pos[i + m - 1]
    BY <2>1, <2>2, Zenon
  <2> QED BY <2>3, <2>4
<1>4. \A t \in T : \E i \in 1..n : f[i] = t
  <2> SUFFICES ASSUME NEW k \in m..Len(pos) PROVE \E i \in 1..n : f[i] = pos[k]
    OBVIOUS
  <2>1. k - m + 1 \in 1..n /\ f[k - m + 1] = pos[k]
    OBVIOUS
  <2> QED BY <2>1
<1>5. ExistsBijection(1..n, T)
  <2> HIDE DEF n, T, f
  <2>1. f \in Injection(1..n, T)
    BY <1>2, <1>3, Zenon DEF Injection, IsInjective
  <2>2. f \in Surjection(1..n, T)
    BY <1>2, <1>4, Zenon DEF Surjection
  <2> QED BY <2>1, <2>2 DEF ExistsBijection, Bijection
<1> QED
  <2> HIDE DEF n, T, f
  <2>1. Cardinality(T) = n
    BY <1>1, <1>5, FS_CountingElements, Zenon
  <2> QED BY <2>1 DEF n, T
-----------------------------------------------------------------------------
(* One event handled.                                                      *)

Now == Len(seen) + 1

LEMMA SeenGrows ==
  ASSUME SecInv, SeenTypeOK, TimeOrder, HandleEvent
  PROVE  /\ Len(seen) \in Nat /\ Now \in Nat /\ Len(seen') = Now
         /\ seen' \in Seq([at : Nat, event : CallEvents])
         /\ seen'[Now].at = clock /\ seen'[Now].event = event
         /\ \A j \in 1..Len(seen) : seen'[j] = seen[j]
         /\ \A j \in 1..Now : seen'[j].at \in Nat
         /\ clock \in Nat /\ clock' = clock
         /\ TimeOrder'
<1> DEFINE e == [at |-> clock, event |-> event]
           E == [at : Nat, event : CallEvents]
<1>1. clock \in Nat /\ clock' = clock /\ seen' = Append(seen, e)
  BY SecurityAssumption DEF SecInv, SecTypeOK, HandleEvent
<1>2. e \in E /\ e.at = clock /\ e.event = event
  BY <1>1, EventTyped DEF HandleEvent
<1>3. seen \in Seq(E)
  BY DEF SeenTypeOK
<1>4. /\ Len(seen) \in Nat /\ Len(seen') = Len(seen) + 1 /\ seen' \in Seq(E)
      /\ seen'[Len(seen) + 1] = e
      /\ \A j \in 1..Len(seen) : seen'[j] = seen[j]
  <2> HIDE DEF e, E
  <2> QED BY <1>1, <1>2, <1>3
<1>5. \A j \in 1..Len(seen) + 1 : seen'[j] \in E
  <2> HIDE DEF e, E
  <2> QED BY <1>4
<1>6. \A j \in 1..Len(seen) + 1 : seen'[j].at \in Nat
  BY <1>5
<1>7. \A j \in 1..Len(seen) : seen'[j].at <= clock
  BY <1>4 DEF TimeOrder
<1>8. TimeOrder'
  <2>1. \A j \in 1..Len(seen') : seen'[j].at <= clock'
    BY <1>1, <1>2, <1>4, <1>7
  <2>2. ASSUME NEW i \in 1..Len(seen'), NEW j \in 1..Len(seen'), i <= j
        PROVE  seen'[i].at <= seen'[j].at
    <3>1. CASE j = Len(seen) + 1
      <4>1. seen'[j].at = clock
        BY <1>2, <1>4, <3>1
      <4> QED BY <4>1, <2>1, <1>1
    <3>2. CASE j # Len(seen) + 1
      <4>1. i \in 1..Len(seen) /\ j \in 1..Len(seen)
        BY <1>4, <2>2, <3>2
      <4> QED BY <4>1, <1>4, <2>2 DEF TimeOrder
    <3> QED BY <3>1, <3>2
  <2> QED BY <2>1, <2>2 DEF TimeOrder
<1> QED BY <1>1, <1>2, <1>4, <1>6, <1>8 DEF Now

\* What a rate rule counts at the event that is handled.
Recent(r) == {j \in LastAlert(r) + 1..Now : /\ Concerns(RateRules[r], seen'[j].event)
                                            /\ clock - seen'[j].at <= RateRules[r].window}

\* The hits after the event are at the positions p from m on.
Kept(r, p, m) ==
  LET all == Append(hits[r], clock)
  IN /\ all \in Seq(Nat) /\ Len(all) = Len(p) /\ m \in 1..Len(p)
     /\ HitsWith(r) = SubSeq(all, m, Len(p))
     /\ \A i \in 1..Len(p) : /\ p[i] \in LastAlert(r) + 1..Now
                             /\ Concerns(RateRules[r], seen'[p[i]].event)
                             /\ all[i] = seen'[p[i]].at
     /\ \A i, j \in 1..Len(p) : i < j => p[i] < p[j]
     /\ Recent(r) = {p[i] : i \in m..Len(p)}

LEMMA HitsKept ==
  ASSUME SecInv, SeenTypeOK, TimeOrder, HitsArePending, HandleEvent,
         NEW r \in DOMAIN RateRules, Concerns(RateRules[r], event)
  PROVE  \E p \in Seq(Nat), m \in Nat : Kept(r, p, m)
<1> DEFINE w == RateRules[r].window
           all == Append(hits[r], clock)
           C(e) == Concerns(RateRules[r], e)
           L == LastAlert(r)
<1> HIDE DEF w, C, L
<1>w. w \in Nat
  BY RateRuleFacts DEF w
<1>L. L \in 0..Len(seen)
  BY DEF SeenTypeOK, L
<1>s. /\ Len(seen) \in Nat /\ Now = Len(seen) + 1 /\ Len(seen') = Now
      /\ seen'[Now].at = clock /\ seen'[Now].event = event
      /\ \A j \in 1..Len(seen) : seen'[j] = seen[j]
      /\ \A j \in 1..Now : seen'[j].at \in Nat
      /\ clock \in Nat
      /\ \A i, j \in 1..Now : i <= j => seen'[i].at <= seen'[j].at
  <2>1. TimeOrder' /\ Len(seen') = Now
    BY SeenGrows
  <2> QED BY <2>1, SeenGrows DEF TimeOrder, Now
<1>h. hits[r] \in Seq(Nat)
  BY DEF SeenTypeOK
<1>1. PICK q \in Seq(Nat) :
        /\ Positions(r, q)
        /\ \A j \in Pending(r) : (\E i \in 1..Len(q) : q[i] = j) \/ clock - seen[j].at > w
  BY DEF HitsArePending, w
<1>2. /\ Len(q) = Len(hits[r])
      /\ \A i \in 1..Len(q) : /\ q[i] \in L + 1..Len(seen) /\ C(seen[q[i]].event)
                              /\ hits[r][i] = seen[q[i]].at
      /\ \A i, j \in 1..Len(q) : i < j => q[i] < q[j]
      /\ \A j \in L + 1..Len(seen) : C(seen[j].event) =>
           (\E i \in 1..Len(q) : q[i] = j) \/ clock - seen[j].at > w
  BY <1>1 DEF Positions, Pending, C, L
<1> DEFINE p == Append(q, Now)
           n == Len(q) + 1
<1>3. /\ p \in Seq(Nat) /\ Len(p) = n /\ p[n] = Now /\ Len(q) \in Nat /\ n \in Nat
      /\ \A i \in 1..Len(q) : p[i] = q[i]
      /\ all \in Seq(Nat) /\ Len(all) = n /\ all[n] = clock
      /\ \A i \in 1..Len(q) : all[i] = hits[r][i]
  BY <1>h, <1>s, <1>2
<1> HIDE DEF p, all
<1>4. \A i \in 1..n : p[i] \in L + 1..Now /\ C(seen'[p[i]].event) /\ all[i] = seen'[p[i]].at
  <2> SUFFICES ASSUME NEW i \in 1..n
               PROVE  p[i] \in L + 1..Now /\ C(seen'[p[i]].event) /\ all[i] = seen'[p[i]].at
    OBVIOUS
  <2>1. CASE i = n
    <3>1. C(event)
      BY DEF C
    <3> QED BY <2>1, <3>1, <1>3, <1>s, <1>L
  <2>2. CASE i # n
    <3>1. i \in 1..Len(q) /\ p[i] = q[i] /\ all[i] = hits[r][i]
      BY <2>2, <1>3
    <3>2. q[i] \in L + 1..Len(seen) /\ C(seen[q[i]].event) /\ hits[r][i] = seen[q[i]].at
      BY <3>1, <1>2
    <3>3. q[i] \in 1..Len(seen) /\ q[i] \in L + 1..Now
      BY <3>2, <1>L, <1>s
    <3>4. seen'[q[i]] = seen[q[i]]
      BY <3>3, <1>s
    <3> QED BY <3>1, <3>2, <3>3, <3>4
  <2> QED BY <2>1, <2>2
<1>5. \A i, j \in 1..n : i < j => p[i] < p[j]
  <2> SUFFICES ASSUME NEW i \in 1..n, NEW j \in 1..n, i < j PROVE p[i] < p[j]
    OBVIOUS
  <2>1. Len(q) \in Nat
    BY <1>3
  <2>2. i \in 1..Len(q)
    BY <2>1
  <2>3. i \in 1..Len(q) /\ p[i] = q[i] /\ q[i] \in L + 1..Len(seen)
    BY <1>2, <1>3, <2>2, Zenon
  <2>4. CASE j = n
    <3>1. p[j] = Now
      BY <1>3, <2>4
    <3>2. q[i] < Now
      BY <2>3, <1>s, <1>L
    <3> QED BY <2>3, <3>1, <3>2
  <2>5. CASE j # n
    <3>1. j \in 1..Len(q)
      BY <2>1, <2>5
    <3>2. p[j] = q[j] /\ q[i] < q[j]
      BY <1>2, <1>3, <2>3, <3>1, Zenon
    <3> QED BY <2>3, <3>2, Zenon
  <2> QED BY <2>4, <2>5
<1>6. \A i, j \in 1..n : i <= j => all[i] <= all[j]
  <2> SUFFICES ASSUME NEW i \in 1..n, NEW j \in 1..n, i <= j PROVE all[i] <= all[j]
    OBVIOUS
  <2>1. p[i] \in 1..Now /\ p[j] \in 1..Now /\ p[i] <= p[j]
    <3>1. p[i] \in L + 1..Now /\ p[j] \in L + 1..Now
      BY <1>4
    <3>2. i = j \/ i < j
      BY <1>3
    <3>3. p[i] <= p[j]
      BY <3>1, <3>2, <1>5, <1>s, <1>L
    <3> QED BY <3>1, <3>3, <1>s, <1>L
  <2> QED BY <2>1, <1>4, <1>s
<1> DEFINE m == Min({i \in DOMAIN all : clock - all[i] <= w})
<1>7. m \in 1..n /\ \A i \in 1..n : clock - all[i] <= w <=> i >= m
  <2>1. all # <<>>
    BY <1>3
  <2>2. \A i, j \in 1..Len(all) : i <= j => all[i] <= all[j]
    BY <1>3, <1>6
  <2>3. all \in Seq(Nat) /\ clock \in Nat /\ all[Len(all)] = clock
    BY <1>3, <1>s
  <2>4. /\ m \in 1..Len(all)
        /\ \A i \in 1..Len(all) : clock - all[i] <= w <=> i >= m
    <3>1. PICK k \in 1..Len(all) :
            /\ k = Min({i \in DOMAIN all : clock - all[i] <= w})
            /\ \A i \in 1..Len(all) : clock - all[i] <= w <=> i >= k
      BY <2>1, <2>2, <2>3, <1>w, FreshHits
    <3> QED BY <3>1
  <2> QED BY <2>4, <1>3
<1>8. HitsWith(r) = SubSeq(all, m, Len(p))
  BY <1>3 DEF HitsWith, all, w
<1> HIDE DEF m
<1>9. Recent(r) = {p[i] : i \in m..n}
  <2>1. ASSUME NEW i \in m..n PROVE p[i] \in Recent(r)
    <3>1. i \in 1..n /\ clock - all[i] <= w
      BY <1>7, <1>3
    <3> QED BY <3>1, <1>4 DEF Recent, C, L, w
  <2>2. ASSUME NEW j \in Recent(r) PROVE \E i \in m..n : p[i] = j
    <3>1. j \in L + 1..Now /\ C(seen'[j].event) /\ clock - seen'[j].at <= w
      BY DEF Recent, C, L, w
    <3>2. PICK i \in 1..n : p[i] = j
      <4>1. CASE j = Now
        BY <4>1, <1>3
      <4>2. CASE j # Now
        <5>1. j \in L + 1..Len(seen) /\ j \in 1..Len(seen)
          BY <4>2, <3>1, <1>s, <1>L
        <5>2. seen'[j] = seen[j]
          BY <5>1, <1>s
        <5>3. seen[j].at \in Nat /\ ~(clock - seen[j].at > w)
          BY <5>1, <5>2, <3>1, <1>s, <1>w
        <5>4. PICK i \in 1..Len(q) : q[i] = j
          BY <5>1, <5>2, <5>3, <3>1, <1>2
        <5> QED BY <5>4, <1>3
      <4> QED BY <4>1, <4>2
    <3>3. clock - all[i] <= w
      BY <3>1, <3>2, <1>4
    <3>4. i >= m
      BY <3>3, <1>7
    <3> QED BY <3>2, <3>4, <1>7, <1>3
  <2> QED BY <2>1, <2>2
<1>10. Kept(r, p, m)
  BY <1>3, <1>4, <1>5, <1>7, <1>8, <1>9 DEF Kept, all, C, L
<1>11. m \in Nat
  BY <1>3, <1>7
<1> QED BY <1>3, <1>10, <1>11
-----------------------------------------------------------------------------
(* The parts of AlertsAsSpecified.                                         *)

Since(r, k) == Max({0} \cup {j \in alerted[r] : j < k})
Counted(r, k) == {j \in Since(r, k) + 1..k : /\ Concerns(RateRules[r], seen[j].event)
                                             /\ seen[k].at - seen[j].at <= RateRules[r].window}
Due(r, k) == k \in Counted(r, k) /\ Cardinality(Counted(r, k)) >= RateRules[r].threshold

LEMMA AsSpecified ==
  AlertsAsSpecified <=>
    \A r \in DOMAIN RateRules : alerted[r] = {k \in 1..Len(seen) : Due(r, k)}
  BY DEF AlertsAsSpecified, Due, Counted, Since

LEMMA AsSpecifiedNext ==
  (\A r \in DOMAIN RateRules : alerted'[r] = {k \in 1..Len(seen') : Due(r, k)'})
    => AlertsAsSpecified'
  BY DEF AlertsAsSpecified, Due, Counted, Since

\* What happens to a rate rule at the event.
LEMMA RuleNext ==
  ASSUME SecInv, SeenTypeOK, TimeOrder, HandleEvent, NEW r \in DOMAIN RateRules
  PROVE  /\ hits'[r] = IF Alerting(r) THEN <<>>
                       ELSE IF Concerns(RateRules[r], event) THEN HitsWith(r) ELSE hits[r]
         /\ alerted'[r] = IF Alerting(r) THEN alerted[r] \cup {Now} ELSE alerted[r]
         /\ LastAlert(r)' = IF Alerting(r) THEN Now ELSE LastAlert(r)
<1>1. /\ hits'[r] = IF Alerting(r) THEN <<>>
                    ELSE IF Concerns(RateRules[r], event) THEN HitsWith(r) ELSE hits[r]
      /\ alerted'[r] = IF Alerting(r) THEN alerted[r] \cup {Len(seen')} ELSE alerted[r]
  BY Zenon DEF HandleEvent
<1>2. Len(seen') = Now /\ Now \in Nat /\ Now = Len(seen) + 1 /\ Len(seen) \in Nat
  BY SeenGrows DEF Now
<1>3. CASE ~Alerting(r)
  <2>1. alerted'[r] = alerted[r]
    BY <1>1, <1>3
  <2>2. LastAlert(r)' = LastAlert(r)
    BY <2>1 DEF LastAlert
  <2> QED BY <1>1, <1>2, <1>3, <2>2
<1>4. CASE Alerting(r)
  <2>1. alerted'[r] = alerted[r] \cup {Now}
    BY <1>1, <1>2, <1>4
  <2>2. alerted[r] \subseteq 1..Len(seen)
    BY DEF SeenTypeOK
  <2> DEFINE S == {0} \cup alerted'[r]
  <2>3. S \subseteq Nat /\ Now \in S /\ \A m \in S : m <= Now
    BY <2>1, <2>2, <1>2
  <2>4. Max(S) = Now
    <3> HIDE DEF S
    <3> QED BY <2>3, GreatestIsMax
  <2>5. LastAlert(r)' = Now
    BY <2>4 DEF LastAlert
  <2> QED BY <1>1, <1>2, <1>4, <2>5
<1> QED BY <1>3, <1>4

\* A rule alerts at the event if what it counts reaches the threshold.
LEMMA AlertingIsDue ==
  ASSUME SecInv, SeenTypeOK, TimeOrder, HitsArePending, HandleEvent, NEW r \in DOMAIN RateRules
  PROVE  Alerting(r) <=> /\ Now \in Recent(r)
                         /\ Cardinality(Recent(r)) >= RateRules[r].threshold
<1>1. /\ Now \in Nat /\ clock \in Nat /\ seen'[Now].at = clock /\ seen'[Now].event = event
      /\ Now = Len(seen) + 1 /\ Len(seen) \in Nat
  BY SeenGrows DEF Now
<1>2. LastAlert(r) \in 0..Len(seen)
  BY DEF SeenTypeOK
<1>3. Now \in Recent(r) <=> Concerns(RateRules[r], event)
  <2>1. Now \in LastAlert(r) + 1..Now
    BY <1>1, <1>2
  <2>2. clock - clock <= RateRules[r].window
    BY <1>1, RateRuleFacts
  <2> QED BY <1>1, <2>1, <2>2 DEF Recent
<1>4. CASE ~Concerns(RateRules[r], event)
  BY <1>3, <1>4 DEF Alerting
<1>5. CASE Concerns(RateRules[r], event)
  <2>1. PICK p \in Seq(Nat), m \in Nat : Kept(r, p, m)
    BY <1>5, HitsKept
  <2>2. m \in 1..Len(p) /\ \A i, j \in 1..Len(p) : i < j => p[i] < p[j]
    BY <2>1 DEF Kept
  <2>3. Cardinality(Recent(r)) = Len(p) - m + 1
    BY <2>1, <2>2, CountHits DEF Kept
  <2>4. Len(HitsWith(r)) = Len(p) - m + 1
    <3> DEFINE all == Append(hits[r], clock)
    <3>1. all \in Seq(Nat) /\ Len(all) = Len(p) /\ HitsWith(r) = SubSeq(all, m, Len(p))
      BY <2>1 DEF Kept
    <3> HIDE DEF all
    <3> QED BY <3>1, <2>2
  <2> QED BY <1>3, <1>5, <2>3, <2>4 DEF Alerting
<1> QED BY <1>4, <1>5

LEMMA AlertsNext ==
  ASSUME SecInv, SeenTypeOK, TimeOrder, HitsArePending, AlertsAsSpecified, HandleEvent
  PROVE  AlertsAsSpecified'
<1> SUFFICES ASSUME NEW r \in DOMAIN RateRules
             PROVE  alerted'[r] = {k \in 1..Len(seen') : Due(r, k)'}
  BY AsSpecifiedNext
<1>1. /\ Len(seen) \in Nat /\ Now = Len(seen) + 1 /\ Len(seen') = Now
      /\ seen'[Now].at = clock
      /\ \A j \in 1..Len(seen) : seen'[j] = seen[j]
  BY SeenGrows DEF Now
<1>2. alerted[r] \subseteq 1..Len(seen)
  BY DEF SeenTypeOK
<1>3. alerted'[r] = IF Alerting(r) THEN alerted[r] \cup {Now} ELSE alerted[r]
  BY RuleNext
<1>4. ASSUME NEW k \in 1..Now
      PROVE  Since(r, k)' = Since(r, k) /\ Since(r, k) \in Nat
  <2>1. {j \in alerted'[r] : j < k} = {j \in alerted[r] : j < k}
    BY <1>1, <1>3
  <2>2. Since(r, k)' = Since(r, k)
    BY <2>1 DEF Since
  <2>3. Since(r, k) \in {0} \cup {j \in alerted[r] : j < k}
    <3> DEFINE S == {0} \cup {j \in alerted[r] : j < k}
    <3>1. S \subseteq 0..Now /\ S # {} /\ Now \in Nat
      BY <1>1, <1>2
    <3>2. Max(S) \in S
      <4> HIDE DEF S
      <4> QED BY <3>1, BoundedHasMax
    <3> QED BY <3>2 DEF Since
  <2> QED BY <1>2, <2>2, <2>3
<1>5. ASSUME NEW k \in 1..Len(seen) PROVE Due(r, k)' <=> Due(r, k)
  <2>1. k \in 1..Now /\ seen'[k] = seen[k]
    BY <1>1
  <2>2. Since(r, k)' = Since(r, k) /\ Since(r, k) \in Nat
    BY <1>4, <2>1
  <2>3. \A j \in Since(r, k) + 1..k : seen'[j] = seen[j]
    BY <1>1, <2>2
  <2>4. Counted(r, k)' = Counted(r, k)
    BY <2>1, <2>2, <2>3 DEF Counted
  <2> QED BY <2>4 DEF Due
<1>6. ASSUME NEW k, k = Now PROVE Due(r, k)' <=> Alerting(r)
  <2>1. {j \in alerted[r] : j < k} = alerted[r]
    BY <1>1, <1>2, <1>6
  <2>2. Since(r, k)' = LastAlert(r)
    <3>1. Since(r, k)' = Since(r, k)
      BY <1>1, <1>4, <1>6
    <3> QED BY <2>1, <3>1 DEF Since, LastAlert
  <2>3. Counted(r, k)' = Recent(r)
    BY <1>1, <1>6, <2>2 DEF Counted, Recent
  <2> QED BY <1>6, <2>3, AlertingIsDue DEF Due
<1>7. \A k \in 1..Len(seen) : k \in alerted[r] <=> Due(r, k)
  BY AsSpecified
<1>8. alerted'[r] \subseteq 1..Now
  BY <1>1, <1>2, <1>3
<1>9. ASSUME NEW k \in 1..Now PROVE k \in alerted'[r] <=> Due(r, k)'
  <2>1. CASE k = Now
    <3>1. k \notin alerted[r]
      BY <1>1, <1>2, <2>1
    <3> QED BY <1>3, <1>6, <2>1, <3>1
  <2>2. CASE k # Now
    <3>1. k \in 1..Len(seen)
      BY <1>1, <2>2
    <3>2. k \in alerted'[r] <=> k \in alerted[r]
      BY <1>3, <2>2
    <3> QED BY <1>5, <1>7, <3>1, <3>2
  <2> QED BY <2>1, <2>2
<1> QED BY <1>1, <1>8, <1>9, Zenon
-----------------------------------------------------------------------------
LEMMA PositionsNext ==
  ASSUME SecInv, SeenTypeOK, TimeOrder, HitsArePending, HandleEvent
  PROVE  HitsArePending'
<1> SUFFICES ASSUME NEW r \in DOMAIN RateRules
             PROVE  \E pos \in Seq(Nat) :
                      /\ Positions(r, pos)'
                      /\ \A j \in Pending(r)' :
                           \/ \E i \in 1..Len(pos) : pos[i] = j
                           \/ clock' - seen'[j].at > RateRules[r].window
  BY DEF HitsArePending
<1>1. /\ Len(seen) \in Nat /\ Now = Len(seen) + 1 /\ Len(seen') = Now
      /\ \A j \in 1..Len(seen) : seen'[j] = seen[j]
      /\ seen'[Now].event = event
      /\ clock' = clock /\ clock \in Nat
      /\ \A j \in 1..Now : seen'[j].at \in Nat
  BY SeenGrows DEF Now
<1>2. LastAlert(r) \in 0..Len(seen)
  BY DEF SeenTypeOK
<1>3. CASE Alerting(r)
  <2>1. hits'[r] = <<>> /\ LastAlert(r)' = Now
    BY <1>3, RuleNext
  <2>2. Pending(r)' = {}
    BY <1>1, <2>1 DEF Pending
  <2>3. Positions(r, <<>>)'
    BY <2>1 DEF Positions
  <2>4. <<>> \in Seq(Nat)
    OBVIOUS
  <2> QED BY <2>2, <2>3, <2>4
<1>4. CASE ~Concerns(RateRules[r], event)
  <2>1. ~Alerting(r)
    BY <1>4 DEF Alerting
  <2>2. hits'[r] = hits[r] /\ LastAlert(r)' = LastAlert(r)
    BY <1>4, <2>1, RuleNext
  <2>3. Pending(r)' = Pending(r)
    <3>1. \A j \in LastAlert(r) + 1..Len(seen) : seen'[j] = seen[j]
      BY <1>1, <1>2
    <3>2. Pending(r)' = {j \in LastAlert(r) + 1..Now : Concerns(RateRules[r], seen'[j].event)}
      BY <1>1, <2>2 DEF Pending
    <3>3. \A j \in LastAlert(r) + 1..Now : j # Now => j \in LastAlert(r) + 1..Len(seen)
      BY <1>1, <1>2
    <3>4. \A j \in LastAlert(r) + 1..Len(seen) : j \in LastAlert(r) + 1..Now
      BY <1>1, <1>2
    <3> QED BY <1>1, <1>4, <3>1, <3>2, <3>3, <3>4 DEF Pending
  <2>4. \A j \in Pending(r) : j \in 1..Len(seen) /\ seen'[j] = seen[j]
    BY <1>1, <1>2 DEF Pending
  <2>5. PICK pos \in Seq(Nat) :
          /\ Positions(r, pos)
          /\ \A j \in Pending(r) : (\E i \in 1..Len(pos) : pos[i] = j)
                                   \/ clock - seen[j].at > RateRules[r].window
    BY DEF HitsArePending
  <2>6. Positions(r, pos)'
    BY <2>2, <2>3, <2>4, <2>5 DEF Positions
  <2> QED BY <1>1, <2>3, <2>4, <2>5, <2>6
<1>5. CASE ~Alerting(r) /\ Concerns(RateRules[r], event)
  <2>1. hits'[r] = HitsWith(r) /\ LastAlert(r)' = LastAlert(r)
    BY <1>5, RuleNext
  <2>2. PICK p \in Seq(Nat), m \in Nat : Kept(r, p, m)
    BY <1>5, HitsKept
  <2> DEFINE all == Append(hits[r], clock)
             pos == SubSeq(p, m, Len(p))
  <2>3. /\ all \in Seq(Nat) /\ Len(all) = Len(p) /\ m \in 1..Len(p)
        /\ hits'[r] = SubSeq(all, m, Len(p))
        /\ \A i \in 1..Len(p) : /\ p[i] \in LastAlert(r) + 1..Now
                                /\ Concerns(RateRules[r], seen'[p[i]].event)
                                /\ all[i] = seen'[p[i]].at
        /\ \A i, j \in 1..Len(p) : i < j => p[i] < p[j]
        /\ Recent(r) = {p[i] : i \in m..Len(p)}
    BY <2>1, <2>2 DEF Kept
  <2> HIDE DEF all
  <2>4. /\ pos \in Seq(Nat) /\ Len(pos) = Len(p) - m + 1 /\ Len(p) \in Nat
        /\ \A i \in 1..Len(pos) : i + m - 1 \in 1..Len(p) /\ pos[i] = p[i + m - 1]
    <3>1. Len(p) \in Nat
      OBVIOUS
    <3> QED BY <2>3, <3>1, Suffix, Zenon
  <2>5. /\ Len(hits'[r]) = Len(pos)
        /\ \A i \in 1..Len(pos) : hits'[r][i] = all[i + m - 1]
    <3>1. hits'[r] = SubSeq(all, m, Len(all)) /\ m \in 1..Len(all)
      BY <2>3, Zenon
    <3>2. /\ Len(SubSeq(all, m, Len(all))) = Len(all) - m + 1
          /\ \A i \in 1..Len(SubSeq(all, m, Len(all))) :
               SubSeq(all, m, Len(all))[i] = all[i + m - 1]
      BY <2>3, <3>1, Suffix, Zenon
    <3>3. Len(hits'[r]) = Len(pos)
      BY <2>3, <2>4, <3>1, <3>2, Zenon
    <3> QED BY <3>1, <3>2, <3>3, Zenon
  <2> HIDE DEF pos
  <2>6. Pending(r)' = {j \in LastAlert(r) + 1..Now : Concerns(RateRules[r], seen'[j].event)}
    BY <1>1, <2>1 DEF Pending
  <2>7. \A i \in 1..Len(pos) : pos[i] \in Pending(r)' /\ hits'[r][i] = seen'[pos[i]].at
    BY <2>3, <2>4, <2>5, <2>6
  <2>8. \A i, j \in 1..Len(pos) : i < j => pos[i] < pos[j]
    <3> SUFFICES ASSUME NEW i \in 1..Len(pos), NEW j \in 1..Len(pos), i < j
                 PROVE  pos[i] < pos[j]
      OBVIOUS
    <3>1. i + m - 1 \in 1..Len(p) /\ j + m - 1 \in 1..Len(p)
      BY <2>4
    <3>2. i + m - 1 < j + m - 1
      BY <2>4
    <3>3. p[i + m - 1] < p[j + m - 1]
      BY <2>3, <3>1, <3>2
    <3> QED BY <2>4, <3>3
  <2>9. Positions(r, pos)'
    BY <2>5, <2>7, <2>8 DEF Positions
  <2>10. ASSUME NEW j \in Pending(r)', ~(clock' - seen'[j].at > RateRules[r].window)
         PROVE  \E i \in 1..Len(pos) : pos[i] = j
    <3>1. j \in 1..Now /\ seen'[j].at \in Nat
      BY <1>1, <1>2, <2>6
    <3>2. j \in Recent(r)
      BY <1>1, <2>6, <2>10, <3>1, RateRuleFacts DEF Recent
    <3>3. PICK i \in m..Len(p) : p[i] = j
      BY <2>3, <3>2
    <3>4. i - m + 1 \in 1..Len(pos) /\ i - m + 1 + m - 1 = i
      BY <2>3, <2>4
    <3> QED BY <2>4, <3>3, <3>4
  <2> QED BY <2>4, <2>9, <2>10
<1> QED BY <1>3, <1>4, <1>5
-----------------------------------------------------------------------------
LEMMA AlertInit == SecInit => AlertInv
<1> SUFFICES ASSUME SecInit PROVE AlertInv
  OBVIOUS
<1>1. SecInv
  BY SecInitInv
<1>2. /\ ring = <<>> /\ seen = <<>> /\ reader = "none"
      /\ hits = [r \in DOMAIN RateRules |-> <<>>] /\ alerted = [r \in DOMAIN RateRules |-> {}]
  BY DEF SecInit
<1>3. SeenTypeOK
  <2>1. ring \in Seq(CallEvents) /\ seen \in Seq([at : Nat, event : CallEvents]) /\ Len(seen) = 0
    BY <1>2
  <2>2. hits \in [DOMAIN RateRules -> Seq(Nat)] /\ alerted \in [DOMAIN RateRules -> SUBSET (1..Len(seen))]
    BY <1>2
  <2>3. ASSUME NEW r \in DOMAIN RateRules PROVE LastAlert(r) = 0
    <3>1. LastAlert(r) = Max({0})
      BY <1>2 DEF LastAlert
    <3> QED BY <3>1, GreatestIsMax
  <2> QED BY <1>2, <2>1, <2>2, <2>3 DEF SeenTypeOK
<1>4. TimeOrder
  BY <1>2 DEF TimeOrder
<1>5. HitsArePending
  <2>1. ASSUME NEW r \in DOMAIN RateRules
        PROVE  Positions(r, <<>>) /\ Pending(r) = {}
    <3>1. LastAlert(r) \in Nat
      BY <1>2, <1>3 DEF SeenTypeOK
    <3> QED BY <1>2, <3>1 DEF Positions, Pending
  <2>2. <<>> \in Seq(Nat)
    OBVIOUS
  <2> QED BY <2>1, <2>2, Zenon DEF HitsArePending
<1>6. AlertsAsSpecified
  <2>1. \A r \in DOMAIN RateRules : alerted[r] = {} /\ {k \in 1..Len(seen) : Due(r, k)} = {}
    BY <1>2
  <2> QED BY <2>1, AsSpecified
<1> QED BY <1>1, <1>3, <1>4, <1>5, <1>6 DEF AlertInv

\* A step that handles no event, whatever it does to the ring and the clock.
LEMMA QuietKeeps ==
  ASSUME AlertInv, UNCHANGED <<hits, seen, alerted>>,
         clock \in Nat, clock' \in Nat, clock <= clock'
  PROVE  TimeOrder' /\ HitsArePending' /\ AlertsAsSpecified'
<1> USE DEF AlertInv
<1>1. \A j \in 1..Len(seen) : seen[j].at \in Nat
  <2> DEFINE E == [at : Nat, event : CallEvents]
  <2>1. \A e \in E : e.at \in Nat
    OBVIOUS
  <2>2. seen \in Seq(E)
    BY DEF SeenTypeOK
  <2> HIDE DEF E
  <2> QED BY <2>1, <2>2
<1>2. TimeOrder'
  BY <1>1 DEF TimeOrder
<1>3. HitsArePending'
  <2> SUFFICES ASSUME NEW r \in DOMAIN RateRules
               PROVE  \E pos \in Seq(Nat) :
                        /\ Positions(r, pos)'
                        /\ \A j \in Pending(r)' :
                             \/ \E i \in 1..Len(pos) : pos[i] = j
                             \/ clock' - seen'[j].at > RateRules[r].window
    BY DEF HitsArePending
  <2>1. LastAlert(r)' = LastAlert(r) /\ LastAlert(r) \in 0..Len(seen)
    BY DEF LastAlert, SeenTypeOK
  <2>2. Pending(r)' = Pending(r)
    BY <2>1 DEF Pending
  <2>3. \A j \in Pending(r) : j \in 1..Len(seen)
    BY <2>1 DEF Pending
  <2>4. PICK pos \in Seq(Nat) :
          /\ Positions(r, pos)
          /\ \A j \in Pending(r) : (\E i \in 1..Len(pos) : pos[i] = j)
                                   \/ clock - seen[j].at > RateRules[r].window
    BY DEF HitsArePending
  <2>5. Positions(r, pos)'
    BY <2>2, <2>4 DEF Positions
  <2>6. ASSUME NEW j \in Pending(r), clock - seen[j].at > RateRules[r].window
        PROVE  clock' - seen'[j].at > RateRules[r].window
    BY <1>1, <2>3, <2>6, RateRuleFacts
  <2> QED BY <2>2, <2>4, <2>5, <2>6
<1>4. AlertsAsSpecified'
  BY DEF AlertsAsSpecified
<1> QED BY <1>2, <1>3, <1>4

\* What is in the ring and what was handled have their types.
LEMMA QuietTypes ==
  ASSUME SecInv, SeenTypeOK, UNCHANGED <<hits, seen, alerted>>,
         ring' \in Seq(CallEvents), reader' \in {"event", "alert"} => ring' # <<>>
  PROVE  SeenTypeOK'
<1>1. \A r \in DOMAIN RateRules : LastAlert(r)' = LastAlert(r)
  BY DEF LastAlert
<1> QED BY <1>1 DEF SeenTypeOK

LEMMA MainTypes ==
  ASSUME SecInv, SeenTypeOK, SecMain
  PROVE  SeenTypeOK' /\ UNCHANGED <<hits, seen, alerted, clock>>
<1>1. UNCHANGED <<hits, seen, alerted, clock>>
  BY DEF SecMain, MainQuiet, SecLoad, SecReader, SecAttach, SecStarted, SecRollback, SecRaise,
         SecJoin, SecDetach, SecKeeps, readerVars
<1>2. ring' \in Seq(CallEvents)
  <2>1. ring' = ring \/ ring' = <<>>
    BY DEF SecMain, MainQuiet, SecLoad, SecReader, SecAttach, SecStarted, SecRollback, SecRaise,
           SecJoin, SecDetach
  <2>2. ring \in Seq(CallEvents) /\ <<>> \in Seq(CallEvents)
    BY DEF SeenTypeOK
  <2> QED BY <2>1, <2>2
<1>3. reader' \in {"event", "alert"} => ring' # <<>>
  <2>1. CASE SecDetach
    <3>1. reader = "none" /\ reader' = reader
      BY <2>1 DEF SecDetach, SecInv, ThreadInside
    <3> QED BY <3>1
  <2>2. CASE ~SecDetach
    BY <2>2 DEF SecMain, MainQuiet, SecLoad, SecReader, SecAttach, SecStarted, SecRollback,
                SecRaise, SecJoin, SeenTypeOK
  <2> QED BY <2>1, <2>2
<1> QED BY <1>1, <1>2, <1>3, QuietTypes

LEMMA HandleTypes ==
  ASSUME AlertInv, HandleEvent
  PROVE  SeenTypeOK'
<1> USE DEF AlertInv
<1>1. ring' = ring /\ ring # <<>>
  BY DEF HandleEvent, SeenTypeOK
<1>2. /\ Len(seen) \in Nat /\ Now = Len(seen) + 1 /\ Len(seen') = Now
      /\ seen' \in Seq([at : Nat, event : CallEvents])
  BY SeenGrows DEF Now
<1>3. hits' \in [DOMAIN RateRules -> Seq(Nat)]
  <2>1. ASSUME NEW r \in DOMAIN RateRules PROVE hits'[r] \in Seq(Nat)
    <3>1. CASE Concerns(RateRules[r], event) /\ ~Alerting(r)
      <4>1. PICK p \in Seq(Nat), m \in Nat : Kept(r, p, m)
        BY <3>1, HitsKept
      <4> DEFINE all == Append(hits[r], clock)
      <4>2. /\ all \in Seq(Nat) /\ Len(all) = Len(p) /\ m \in 1..Len(p)
            /\ HitsWith(r) = SubSeq(all, m, Len(p))
        BY <4>1 DEF Kept
      <4>3. HitsWith(r) \in Seq(Nat)
        <5> HIDE DEF all
        <5>1. SubSeq(all, m, Len(all)) \in Seq(Nat)
          BY <4>2, Suffix, Zenon
        <5> QED BY <4>2, <5>1, Zenon
      <4> QED BY <3>1, <4>3, RuleNext
    <3>2. CASE ~Concerns(RateRules[r], event) \/ Alerting(r)
      <4>1. hits[r] \in Seq(Nat) /\ <<>> \in Seq(Nat)
        BY DEF SeenTypeOK
      <4>2. hits'[r] = hits[r] \/ hits'[r] = <<>>
        BY <3>2, RuleNext
      <4> QED BY <4>1, <4>2
    <3> QED BY <3>1, <3>2
  <2>2. hits' = [r \in DOMAIN RateRules |-> hits'[r]]
    BY Zenon DEF HandleEvent
  <2> QED BY <2>1, <2>2
<1>4. alerted' \in [DOMAIN RateRules -> SUBSET (1..Len(seen'))]
  <2>1. ASSUME NEW r \in DOMAIN RateRules PROVE alerted'[r] \subseteq 1..Len(seen')
    <3>1. alerted[r] \subseteq 1..Len(seen)
      BY DEF SeenTypeOK
    <3>2. alerted'[r] = alerted[r] \/ alerted'[r] = alerted[r] \cup {Now}
      BY RuleNext
    <3> QED BY <1>2, <3>1, <3>2
  <2>2. alerted' = [r \in DOMAIN RateRules |-> alerted'[r]]
    BY Zenon DEF HandleEvent
  <2> QED BY <2>1, <2>2
<1>5. \A r \in DOMAIN RateRules : LastAlert(r)' \in 0..Len(seen')
  <2> SUFFICES ASSUME NEW r \in DOMAIN RateRules PROVE LastAlert(r)' \in 0..Now
    BY <1>2
  <2>1. LastAlert(r) \in 0..Len(seen)
    BY DEF SeenTypeOK
  <2>2. LastAlert(r)' = Now \/ LastAlert(r)' = LastAlert(r)
    BY RuleNext
  <2> QED BY <1>2, <2>1, <2>2
<1> QED BY <1>1, <1>2, <1>3, <1>4, <1>5 DEF SeenTypeOK

LEMMA AlertStep == AlertInv /\ [SecNext]_secVars => AlertInv'
<1> SUFFICES ASSUME AlertInv, [SecNext]_secVars PROVE AlertInv'
  OBVIOUS
<1> USE DEF AlertInv
<1>1. SecInv'
  BY SecStepInv
<1>2. clock \in Nat
  BY SecurityAssumption DEF SecInv, SecTypeOK
<1>3. CASE SecMain
  BY <1>1, <1>2, <1>3, MainTypes, QuietKeeps
<1>4. CASE HandleEvent
  <2>1. TimeOrder' /\ HitsArePending'
    BY <1>4, SeenGrows, PositionsNext
  <2> QED BY <1>1, <1>4, <2>1, HandleTypes, AlertsNext
<1>5. CASE ReaderQuiet \/ WriteAlert \/ Tasks
  <2>1. UNCHANGED <<hits, seen, alerted, clock>>
    BY <1>5 DEF ReaderQuiet, PollEvents, NextEvent, WriteAlert, Tasks, Call, readerVars
  <2>2. ring' \in Seq(CallEvents) /\ (reader' \in {"event", "alert"} => ring' # <<>>)
    <3>1. CASE PollEvents
      BY <3>1 DEF PollEvents, SeenTypeOK
    <3>2. CASE NextEvent
      <4>1. /\ ring \in Seq(CallEvents) /\ ring # <<>> /\ ring' = Tail(ring)
            /\ reader' \in {"event", "alert"} => ring' # <<>>
        BY <3>2 DEF NextEvent, SeenTypeOK
      <4>2. Tail(ring) \in Seq(CallEvents)
        BY <4>1
      <4> QED BY <4>1, <4>2
    <3>3. CASE WriteAlert
      BY <3>3 DEF WriteAlert, SeenTypeOK
    <3>4. CASE Tasks
      <4>1. PICK h \in ToSet(Hooks), o \in Objects, g \in Groups : Call(h, o, g)
        BY <3>4 DEF Tasks
      <4> DEFINE e == EventOf(h, o, g)
      <4>2. e \in CallEvents
        BY DEF CallEvents
      <4>3. reader' = reader /\ (ring' = Append(ring, e) \/ ring' = ring)
        BY <4>1 DEF Call
      <4>4. ring \in Seq(CallEvents) /\ (reader \in {"event", "alert"} => ring # <<>>)
        BY DEF SeenTypeOK
      <4> HIDE DEF e
      <4>5. Append(ring, e) \in Seq(CallEvents) /\ Append(ring, e) # <<>>
        BY <4>2, <4>4
      <4> QED BY <4>3, <4>4, <4>5
    <3> QED BY <1>5, <3>1, <3>2, <3>3, <3>4 DEF ReaderQuiet
  <2> QED BY <1>1, <1>2, <2>1, <2>2, QuietTypes, QuietKeeps
<1>6. CASE Tick
  <2>1. UNCHANGED <<hits, seen, alerted, ring, reader>> /\ clock' = clock + 1
    BY <1>6 DEF Tick, readerVars
  <2>2. SeenTypeOK'
    BY <2>1, QuietTypes DEF SeenTypeOK
  <2> QED BY <1>1, <1>2, <2>1, <2>2, QuietKeeps
<1>7. CASE UNCHANGED secVars
  <2>1. UNCHANGED <<hits, seen, alerted, ring, reader, clock>>
    BY <1>7 DEF secVars
  <2>2. SeenTypeOK'
    BY <2>1, QuietTypes DEF SeenTypeOK
  <2> QED BY <1>1, <1>2, <2>1, <2>2, QuietKeeps
<1> QED BY <1>3, <1>4, <1>5, <1>6, <1>7 DEF SecNext, SecThread

(* A rate rule alerts when, and only when, threshold events that concern   *)
(* it came within its window since its last alert: for any rules, any      *)
(* interleaving of calls, threads and time, and a stop at any point.       *)
THEOREM AlertsSound == SecSpec => []AlertsAsSpecified
<1>1. AlertInv => AlertsAsSpecified
  BY DEF AlertInv
<1> QED BY <1>1, AlertInit, AlertStep, PTL DEF SecSpec

(* In the running system too, where the lines of the audit file are        *)
(* written and read meanwhile.                                             *)
THEOREM SystemAlertsSound == AllSpec => []AlertsAsSpecified
  BY CompositionImplements, AlertsSound, PTL
=============================================================================
