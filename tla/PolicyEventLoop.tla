-------------------------- MODULE PolicyEventLoop --------------------------
(***************************************************************************)
(* The event thread of the policy_engine skill                             *)
(* (agent/src/builtin_skills/policy_engine.cpp, event_loop): it polls the  *)
(* size of the audit file that security_policy appends to, reads from the  *)
(* remembered offset up to the end of the file, and then takes the size of *)
(* the file, read once more, for the new offset.                           *)
(*                                                                         *)
(* The writer is another thread, and anybody may truncate the file (the    *)
(* integration scripts and operators do).  An offset counts lines here;    *)
(* what a line triggers is in PolicyEngine.                                *)
(***************************************************************************)
EXTENDS Integers, Sequences, SequencesExt

CONSTANTS
  Kinds,          \* the kinds of lines in the audit file
  Matching,       \* those that source_event_matches
  MaxEvents,      \* bound: lines ever appended
  MaxTruncations, \* bound: how often the file is truncated
  Earlier         \* how many lines the file may hold when the engine starts

ASSUME KindsAssumption ==
  /\ Matching \subseteq Kinds
  /\ MaxEvents \in Nat /\ MaxTruncations \in Nat
  /\ Earlier \subseteq 0..MaxEvents

VARIABLES
  file,        \* the lines: [id, kind], ids in the order of appending
  appended,    \* how many lines were ever appended
  truncations,
  pc,          \* where the event thread is
  offset,      \* source_offset_, in lines
  cursor,      \* position of the open stream
  handled,     \* ids of the lines that triggered a transaction, in order
  stopping,    \* event_thread_stop_
  missed       \* history: lines the thread cannot see (see Append)

thread == <<pc, offset, cursor, handled>>
vars   == <<file, appended, truncations, thread, stopping, missed>>

Size   == Len(file)
Lines  == [id : 1..MaxEvents, kind : Kinds]
InFile == {file[i].id : i \in 1..Size}

\* start() takes the size of the file for the first offset.
Init ==
  /\ \E n \in Earlier :
       /\ file \in [1..n -> Lines] /\ \A i \in 1..n : file[i].id = i
       /\ appended = n
       /\ offset = n
       /\ missed = 1..n
  /\ truncations = 0
  /\ pc = "poll"
  /\ cursor = 0
  /\ handled = <<>>
  /\ stopping = FALSE
-----------------------------------------------------------------------------
\* A shorter file is not noticed.
Poll_unreset ==
  /\ pc = "poll" /\ ~stopping /\ Size > offset
  /\ cursor' = offset
  /\ pc' = "read"
  /\ UNCHANGED <<file, appended, truncations, offset, handled, stopping, missed>>

\* A file that became shorter is read from its beginning.
Poll ==
  /\ pc = "poll" /\ ~stopping
  /\ offset' = IF Size < offset THEN 0 ELSE offset
  /\ \/ /\ Size > offset'
        /\ cursor' = offset'
        /\ pc' = "read"
     \/ /\ Size <= offset'
        /\ UNCHANGED <<cursor, pc>>
  /\ UNCHANGED <<file, appended, truncations, handled, stopping, missed>>

\* getline, parse_source_event, and apply_actions for a line that matches.
\* The stop flag is not looked at before the end of the file.
ReadLine ==
  /\ pc = "read" /\ cursor < Size
  /\ cursor' = cursor + 1
  /\ handled' = IF file[cursor + 1].kind \in Matching
                THEN Append(handled, file[cursor + 1].id) ELSE handled
  /\ UNCHANGED <<file, appended, truncations, pc, offset, stopping, missed>>

\* One line per poll.
ReadEnd_early ==
  /\ pc = "read" /\ (cursor > offset \/ cursor >= Size)
  /\ pc' = "take"
  /\ UNCHANGED <<file, appended, truncations, offset, cursor, handled, stopping, missed>>

ReadEnd ==
  /\ pc = "read" /\ cursor >= Size
  /\ pc' = "take"
  /\ UNCHANGED <<file, appended, truncations, offset, cursor, handled, stopping, missed>>

\* The offset is left where the batch began.
TakeOffset_stale ==
  /\ pc = "take"
  /\ pc' = "poll"
  /\ UNCHANGED <<file, appended, truncations, offset, cursor, handled, stopping, missed>>

\* The size of the file now, which need not be where the stream ended.
TakeOffset ==
  /\ pc = "take"
  /\ offset' = Size
  /\ pc' = "poll"
  /\ UNCHANGED <<file, appended, truncations, cursor, handled, stopping, missed>>

EndThread ==
  /\ pc = "poll" /\ stopping
  /\ pc' = "stopped"
  /\ UNCHANGED <<file, appended, truncations, offset, cursor, handled, stopping, missed>>

\* rollback() and stop() raise the flag and join the thread.
RaiseStop ==
  /\ ~stopping
  /\ stopping' = TRUE
  /\ UNCHANGED <<file, appended, truncations, thread, missed>>

\* append_audit_event of security_policy.  A line is missed if it comes after
\* the stream ended and before the offset is taken, if it fills up a file that
\* became shorter than the stream is long, or if the file grows back to the
\* offset before a poll sees that it had become shorter.
AppendLine(k) ==
  /\ appended < MaxEvents
  /\ appended' = appended + 1
  /\ file' = Append(file, [id |-> appended', kind |-> k])
  /\ missed' = missed \cup
       IF pc = "take" \/ (pc = "read" /\ Size < cursor) THEN {appended'}
       ELSE IF pc = "poll" /\ Size + 1 = offset THEN InFile \cup {appended'}
       ELSE {}
  /\ UNCHANGED <<truncations, thread, stopping>>

Truncate ==
  /\ truncations < MaxTruncations /\ Size > 0
  /\ truncations' = truncations + 1
  /\ file' = <<>>
  /\ UNCHANGED <<appended, thread, stopping, missed>>

EventThread == Poll \/ ReadLine \/ ReadEnd \/ TakeOffset \/ EndThread

Next ==
  \/ EventThread
  \/ RaiseStop
  \/ \E k \in Kinds : AppendLine(k)
  \/ Truncate

Spec == Init /\ [][Next]_vars

\* The thread wakes up every poll_interval_ms.
FairSpec == Spec /\ WF_vars(EventThread)
-----------------------------------------------------------------------------
TypeOK ==
  /\ appended \in 0..MaxEvents
  /\ file \in Seq(Lines)
  /\ truncations \in 0..MaxTruncations
  /\ pc \in {"poll", "read", "take", "stopped"}
  /\ offset \in 0..MaxEvents /\ cursor \in 0..MaxEvents
  /\ handled \in Seq(1..MaxEvents)
  /\ stopping \in BOOLEAN
  /\ missed \subseteq 1..appended

(* No event is acted on twice, and none out of the order in which they     *)
(* were written, although the offset is taken from the size of a file that *)
(* others append to and truncate.                                          *)
HandledInOrder ==
  \A i, j \in 1..Len(handled) : i < j => handled[i] < handled[j]

(* What lies behind the offset was either acted on or missed for one of    *)
(* the known reasons: there is no other way to lose an event.              *)
LostOnlyIfMissed ==
  pc = "poll" /\ offset <= Size => \A i \in 1..offset :
    \/ file[i].kind \notin Matching
    \/ file[i].id \in ToSet(handled) \cup missed

(* However often the file grows or is truncated, the engine catches up:    *)
(* every matching event in the file was acted on, or missed for one of the *)
(* known reasons, unless a stop comes first.                               *)
EventsHandled ==
  []<>(\/ stopping
       \/ \A i \in 1..Size :
            file[i].kind \in Matching => file[i].id \in ToSet(handled) \cup missed)
=============================================================================
